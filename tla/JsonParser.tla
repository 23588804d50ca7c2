----------------------------- MODULE JsonParser -----------------------------
(***************************************************************************)
(* json::Load (json.cpp): the node that a text holds, or the place where   *)
(* loading throws.  A text is a sequence of characters; every operator     *)
(* reads it from a position, as the code reads the rest of its stream, and *)
(* returns the position behind what it took.                               *)
(*                                                                         *)
(* A node is a record with one field, named for the alternative of the     *)
(* variant: null, bool, int, double, string, array or dict.  A number is   *)
(* its literal; a dictionary is a function on its keys.                    *)
(***************************************************************************)
EXTENDS Integers, Sequences, SequencesExt

CONSTANTS
    Stoi(_),    \* whether std::stoi takes a literal, or finds it too large
    Stod(_)     \* whether std::stod takes a literal, or finds it too large

End == "end of stream"
Digit == {"0", "1", "2", "3", "4", "5", "6", "7", "8", "9"}
Letter == {"a", "b", "e", "E", "f", "i", "l", "n", "r", "s", "t", "u"}
Space == {" ", "\n", "\r", "\t"}

At(text, i) == IF i \in DOMAIN text THEN text[i] ELSE End

\* The first position from i on that holds no character of S.
Past(text, i, S) == CHOOSE j \in i .. Len(text) + 1 :
                      At(text, j) \notin S /\ \A k \in i .. j - 1 : text[k] \in S

Done(i, node) == [ok |-> TRUE, at |-> i, node |-> node]
Throws(i) == [ok |-> FALSE, at |-> i]

-----------------------------------------------------------------------------

LoadLiteral(text, i) == SubSeq(text, i, Past(text, i, Letter) - 1)

LoadBool(text, i) ==
    LET word == LoadLiteral(text, i) IN
    IF word \in {<<"t", "r", "u", "e">>, <<"f", "a", "l", "s", "e">>}
    THEN Done(i + Len(word), [bool |-> word])
    ELSE Throws(i + Len(word))

LoadNull(text, i) ==
    LET word == LoadLiteral(text, i) IN
    IF word = <<"n", "u", "l", "l">> THEN Done(i + Len(word), [null |-> word])
    ELSE Throws(i + Len(word))

\* An int if it has no fraction and no exponent and fits, else a double.
LoadNumber(text, i) ==
    LET whole == IF At(text, i) = "-" THEN i + 1 ELSE i
        wholeEnd == IF At(text, whole) = "0" THEN whole + 1 ELSE Past(text, whole, Digit)
        hasPoint == At(text, wholeEnd) = "."
        pointEnd == IF hasPoint THEN Past(text, wholeEnd + 1, Digit) ELSE wholeEnd
        hasPower == At(text, pointEnd) \in {"e", "E"}
        power == IF At(text, pointEnd + 1) \in {"+", "-"} THEN pointEnd + 2 ELSE pointEnd + 1
        end == IF hasPower THEN Past(text, power, Digit) ELSE pointEnd
        literal == SubSeq(text, i, end - 1)
        digitsAt == {whole} \cup (IF hasPoint THEN {wholeEnd + 1} ELSE {})
                           \cup (IF hasPower THEN {power} ELSE {})
        missing == {j \in digitsAt : At(text, j) \notin Digit}
        isInt == ~hasPoint /\ ~hasPower /\ Stoi(literal)
    IN  CASE missing # {} -> Throws(Min(missing))
          [] missing = {} /\ isInt -> Done(end, [int |-> literal])
          [] missing = {} /\ ~isInt /\ Stod(literal) -> Done(end, [double |-> literal])
          [] OTHER -> Throws(end)

Escaped == [c \in {"n", "t", "r", "\"", "\\"} |->
              CASE c = "n" -> "\n" [] c = "t" -> "\t" [] c = "r" -> "\r" [] OTHER -> c]

RECURSIVE LoadString(_, _, _)
LoadString(text, i, read) ==
    LET c == At(text, i)
        next == At(text, i + 1)
    IN  CASE c = "\"" -> Done(i + 1, [string |-> read])
          [] c = "\\" /\ next \in DOMAIN Escaped -> LoadString(text, i + 2, Append(read, Escaped[next]))
          [] c = "\\" /\ next \notin DOMAIN Escaped -> Throws(i + 1)
          [] c \in {End, "\n", "\r"} -> Throws(i)
          [] OTHER -> LoadString(text, i + 1, Append(read, c))

RECURSIVE LoadNode(_, _), LoadArray(_, _, _), LoadDict(_, _, _)

\* Mutant: what is no comma is not put back.
LoadArrayEats(text, i, items) ==
    LET k == Past(text, i, Space)
        item == LoadNode(text, k + 1)
    IN  CASE At(text, k) = "]" -> Done(k + 1, [array |-> items])
          [] At(text, k) = End -> Throws(k)
          [] OTHER -> IF item.ok THEN LoadArray(text, item.at, Append(items, item.node)) ELSE item

\* Mutant: an array also ends where the stream does.
LoadArrayToEnd(text, i, items) ==
    LET k == Past(text, i, Space)
        item == LoadNode(text, IF At(text, k) = "," THEN k + 1 ELSE k)
    IN  IF At(text, k) \in {"]", End} THEN Done(k + 1, [array |-> items])
        ELSE IF item.ok THEN LoadArray(text, item.at, Append(items, item.node)) ELSE item

\* What is no comma is put back: the element begins with it.
LoadArray(text, i, items) ==
    LET k == Past(text, i, Space)
        c == At(text, k)
        item == LoadNode(text, IF c = "," THEN k + 1 ELSE k)
    IN  CASE c = "]" -> Done(k + 1, [array |-> items])
          [] c = End -> Throws(k)
          [] OTHER -> IF item.ok THEN LoadArray(text, item.at, Append(items, item.node)) ELSE item

\* Mutant: a key that is there already is no error.
MayFollowTwice(c, key, dict) == c = ":"

\* What is read behind a key, before its value.
MayFollow(c, key, dict) == c = ":" /\ key \notin DOMAIN dict

\* A comma is skipped wherever a key may stand.
LoadDict(text, i, dict) ==
    LET k == Past(text, i, Space)
        c == At(text, k)
        key == LoadString(text, k + 1, <<>>)
        colon == Past(text, key.at, Space)
        value == LoadNode(text, colon + 1)
        emplaced == [s \in DOMAIN dict \cup {key.node.string} |->
                       IF s \in DOMAIN dict THEN dict[s] ELSE value.node]
    IN  CASE c = "}" -> Done(k + 1, [dict |-> dict])
          [] c = "," -> LoadDict(text, k + 1, dict)
          [] c \notin {"}", ",", "\""} -> Throws(k)
          [] c = "\"" /\ ~key.ok -> key
          [] OTHER -> IF ~MayFollow(At(text, colon), key.node.string, dict) THEN Throws(colon)
                      ELSE IF value.ok THEN LoadDict(text, value.at, emplaced) ELSE value

LoadNode(text, i) ==
    LET k == Past(text, i, Space)
        c == At(text, k)
    IN  CASE c = End -> Throws(k)
          [] c = "[" -> LoadArray(text, k + 1, <<>>)
          [] c = "{" -> LoadDict(text, k + 1, <<>>)
          [] c = "\"" -> LoadString(text, k + 1, <<>>)
          [] c \in {"t", "f"} -> LoadBool(text, k)
          [] c = "n" -> LoadNull(text, k)
          [] OTHER -> LoadNumber(text, k)

\* What follows the node is left in the stream.
Load(text) == LoadNode(text, 1)
=============================================================================
