---------------------------- MODULE MCJsonStream ----------------------------
(***************************************************************************)
(* Small texts: the range of an int is cut to two digits and that of a     *)
(* power to one; documents nest two containers deep.                       *)
(***************************************************************************)
EXTENDS JsonStream

MCStoi(literal) == Cardinality({i \in DOMAIN literal : literal[i] \in Digit}) <= 2

MCStod(literal) ==
    LET powers == {i \in DOMAIN literal : literal[i] \in {"e", "E"}} IN
    \A p \in powers : Cardinality({i \in p .. Len(literal) : literal[i] \in Digit}) <= 1

MCPieces ==
    {<<c>> : c \in {"[", "]", "{", "}", ",", ":", "\"", "\\", "n", "\n", "-", "0", "1", ".", "e"}}
    \cup {<<"\"", "a", "\"", ":">>, <<"\"", "b", "\"", ":">>, <<"t", "r", "u", "e">>}

MCBlanks == {<<>>, <<" ">>, <<"\n", "\t">>}

Key == {<<>>, <<"a">>, <<"\"", "b">>}
Literals ==
    {[null |-> <<"n", "u", "l", "l">>], [bool |-> <<"t", "r", "u", "e">>],
     [bool |-> <<"f", "a", "l", "s", "e">>]}
    \cup {[int |-> n] : n \in {<<"0">>, <<"-", "1">>, <<"1", "0">>}}
    \cup {[double |-> n] : n \in {<<"1">>, <<"0", ".", "5">>, <<"-", "1", "e", "+", "7">>,
                                  <<"1", ".", "0", "E", "-", "6">>, <<"n", "a", "n">>, <<"i", "n", "f">>}}
Strings ==
    {[string |-> s] : s \in UNION {[1 .. n -> {"a", "n", "\"", "\\", "\n", "\r", "\t", ","}] : n \in 0 .. 2}}
Few == {[null |-> <<"n", "u", "l", "l">>], [double |-> <<"0", ".", "5">>], [double |-> <<"n", "a", "n">>],
        [string |-> <<"\\">>]}
Containers(nodes) ==
    {[array |-> items] : items \in UNION {[1 .. n -> nodes] : n \in 0 .. 2}}
    \cup {[dict |-> members] : members \in UNION {[keys -> nodes] : keys \in SUBSET Key}}

MCDocuments ==
    Literals \cup Strings \cup Containers(Few)
    \cup {[array |-> <<n>>] : n \in Literals \cup Containers(Few)}
    \cup {[dict |-> [k \in {<<"a">>} |-> n]] : n \in Literals \cup Containers(Few)}
=============================================================================
