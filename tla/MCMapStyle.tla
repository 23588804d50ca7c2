----------------------------- MODULE MCMapStyle -----------------------------
(***************************************************************************)
(* A good document with any two of its members replaced: colours in every  *)
(* form, values too large for their fields, arrays too short or too long,  *)
(* nodes of a wrong type and members that are missing.                     *)
(***************************************************************************)
EXTENDS MapStyle

I(n) == [int |-> n]
D(n) == [double |-> n]
S(s) == [string |-> s]
A(items) == [array |-> items]

Good ==
    [m \in Member |->
       CASE m \in Number -> D(5) [] m \in FontSize -> I(3) [] m \in Offset -> A(<<D(1), I(-2)>>)
         [] m = "underlayer_color" -> A(<<I(7), I(8), I(9), D(1)>>)
         [] m = "color_palette" -> A(<<S("green"), A(<<I(3), I(1), I(2)>>)>>)]

Colors == {S("red"), A(<<I(1), I(ByteSize + 2), I(-1)>>), A(<<I(3), I(2), I(ByteSize), I(0)>>)}
NoColors == {I(1), A(<<>>), A(<<I(1), I(2)>>), A(<<I(1), D(2), I(3)>>), A(<<I(1), I(2), I(3), S("x")>>)}

Instead(m) ==
    {S("x")} \cup
    CASE m \in Number -> {I(4)}
      [] m \in FontSize -> {I(-3), D(3)}
      [] m \in Offset -> {A(<<>>), A(<<D(1)>>), A(<<S("x")>>), A(<<I(1), I(0), I(2)>>)}
      [] m = "underlayer_color" -> Colors \cup NoColors
      [] m = "color_palette" -> {A(<<>>)} \cup {A(<<c>>) : c \in Colors \cup NoColors}
                                \cup {A(<<c, d, S("blue")>>) : c, d \in Colors}

MCDocuments ==
    {[Good EXCEPT ![m] = x, ![n] = y] : <<m, x, n, y>> \in
       UNION {{m} \X Instead(m) \X {n} \X Instead(n) : m, n \in Member}}
    \cup {[m \in Member \ {missing} |-> Good[m]] : missing \in Member}
=============================================================================
