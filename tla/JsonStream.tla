----------------------------- MODULE JsonStream -----------------------------
(***************************************************************************)
(* The text on which json::Load is called.  It arrives piece by piece and  *)
(* may end after any of them; or it is a text of a given document, as JSON *)
(* spells it.  The reference that Load is held to builds texts from        *)
(* documents and reads none.                                               *)
(***************************************************************************)
EXTENDS JsonParser, JsonPrinter

CONSTANTS
    Pieces,         \* pieces of text, as sequences of characters
    MaxPieces,      \* bound on the pieces that arrive
    Documents,      \* nodes that are written
    Blanks,         \* white space put before every token of a text
    Nothing         \* no document was written

ASSUME MaxPiecesAssumption == MaxPieces \in Nat

VARIABLES
    text,       \* what the stream holds if it ends now
    arrived,    \* how many pieces arrived
    wrote       \* the document that text was written from

vars == <<text, arrived, wrote>>

-----------------------------------------------------------------------------
(* The texts of a document in JSON, for keys in any order.  A literal is   *)
(* spelled as it is and a character by its escape, where it has one.       *)

Concatenations(sets) ==
    FoldLeft(LAMBDA texts, S : {t \o s : t \in texts, s \in S}, {<<>>}, sets)

StringText(value) ==
    LET Spelled(c) == CASE c = "\n" -> <<"\\", "n">>
                        [] c = "\t" -> <<"\\", "t">>
                        [] c = "\r" -> <<"\\", "r">>
                        [] c \in {"\"", "\\"} -> <<"\\", c>>
                        [] OTHER -> <<c>>
    IN  <<"\"">> \o FlattenSeq([i \in DOMAIN value |-> Spelled(value[i])]) \o <<"\"">>

RECURSIVE Texts(_, _, _)
Texts(node, comma, blank) ==
    LET Token(t) == {blank \o t}
        Between(open, items, close) ==
            Concatenations(<<Token(open)>>
                \o [i \in DOMAIN items |->
                      IF i = 1 THEN items[i] ELSE Concatenations(<<Token(comma), items[i]>>)]
                \o <<Token(close)>>)
        Member(key) == Concatenations(<<Token(StringText(key)), Token(<<":">>),
                                        Texts(node.dict[key], comma, blank)>>)
    IN  CASE "array" \in DOMAIN node ->
               Between(<<"[">>, [i \in DOMAIN node.array |-> Texts(node.array[i], comma, blank)], <<"]">>)
          [] "dict" \in DOMAIN node ->
               UNION {Between(<<"{">>, [i \in DOMAIN keys |-> Member(keys[i])], <<"}">>) :
                        keys \in SetToSeqs(DOMAIN node.dict)}
          [] "string" \in DOMAIN node -> Token(StringText(node.string))
          [] OTHER -> Token(node[CHOOSE type \in DOMAIN node : TRUE])

\* A text without the commas and the white space outside its strings.
Bare(t) ==
    LET Scan(s, c) ==
            [in |-> CASE s.in = "escape" -> "string"
                      [] s.in = "string" /\ c = "\\" -> "escape"
                      [] c = "\"" -> IF s.in = "string" THEN "text" ELSE "string"
                      [] OTHER -> s.in,
             kept |-> IF s.in = "text" /\ c \in Space \cup {","} THEN s.kept ELSE Append(s.kept, c)]
    IN  FoldLeft(Scan, [in |-> "text", kept |-> <<>>], t).kept

RECURSIVE Within(_)
Within(node) ==
    {node} \cup CASE "array" \in DOMAIN node -> UNION {Within(node.array[i]) : i \in DOMAIN node.array}
                  [] "dict" \in DOMAIN node -> UNION {Within(node.dict[k]) : k \in DOMAIN node.dict}
                  [] OTHER -> {}

NoNumber == {<<"i", "n", "f">>, <<"-", "i", "n", "f">>, <<"n", "a", "n">>, <<"-", "n", "a", "n">>}
Finite(node) == \A n \in Within(node) : "double" \in DOMAIN n => n.double \notin NoNumber

\* A double that is printed without a point or a power is an int from then on.
RECURSIVE AsRead(_)
AsRead(node) ==
    CASE "array" \in DOMAIN node -> [array |-> [i \in DOMAIN node.array |-> AsRead(node.array[i])]]
      [] "dict" \in DOMAIN node -> [dict |-> [k \in DOMAIN node.dict |-> AsRead(node.dict[k])]]
      [] "double" \in DOMAIN node /\ ToSet(node.double) \subseteq Digit \cup {"-"} -> [int |-> node.double]
      [] OTHER -> node

-----------------------------------------------------------------------------

Init ==
    /\ arrived = 0
    /\ \/ text = <<>> /\ wrote = Nothing
       \/ \E node \in Documents, blank \in Blanks :
            /\ wrote = node
            /\ text \in Texts(node, <<",">>, blank)

\* Load is still reading: it stopped at the end of what has arrived.
Reading ==
    LET read == Load(text) IN
    /\ read.at > Len(text)
    /\ read.ok => DOMAIN read.node \cap {"array", "dict", "string"} = {}

Arrive(piece) ==
    /\ wrote = Nothing /\ arrived < MaxPieces /\ Reading
    /\ text' = text \o piece
    /\ arrived' = arrived + 1
    /\ UNCHANGED wrote

Next == \E piece \in Pieces : Arrive(piece)

Spec == Init /\ [][Next]_vars

-----------------------------------------------------------------------------
(* Properties *)

\* A JSON text is loaded to the end, as the document that it spells: strings
\* with the escapes that Load knows, numbers in every form, any white space
\* (json.cpp:13-223).
JsonIsLoaded ==
    wrote # Nothing /\ Finite(wrote) => Load(text) = Done(Len(text) + 1, AsRead(wrote))

\* Load takes more than JSON only in the commas: what it took is, but for
\* commas and white space, a JSON text of the node that it made.  So all
\* brackets match, no key came twice and no value is missing.
OnlyCommasAreLoose ==
    LET read == Load(text) IN
    read.ok => Bare(SubSeq(text, 1, read.at - 1)) \in Texts(read.node, <<>>, <<>>)

\* A request file that was cut off is refused: no beginning of the text of a
\* container or a string is taken (json.cpp:30, :54, :65).
CutTextIsRefused ==
    LET read == Load(text) IN
    read.ok /\ DOMAIN read.node \cap {"array", "dict", "string"} # {} =>
        \A n \in 0 .. read.at - 2 : ~Load(SubSeq(text, 1, n)).ok

\* A document that is printed loads back as it was, but for the doubles that
\* are printed as ints; unless it holds inf or nan, then its text is no JSON.
PrintLoadsBack ==
    wrote # Nothing =>
        LET printed == PrintDocument(wrote)
            read == Load(printed)
        IN  /\ read.ok <=> Finite(wrote)
            /\ read.ok => read = Done(Len(printed) + 1, AsRead(wrote))
=============================================================================
