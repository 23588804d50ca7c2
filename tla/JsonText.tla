------------------------------ MODULE JsonText ------------------------------
(***************************************************************************)
(* What a sequence of builder calls spells, read as the text of a JSON     *)
(* document: brackets are matched by counting, without a stack.            *)
(***************************************************************************)
EXTENDS JsonBuilder, SequencesExt

IsOpening(c) == c.method \in {"StartDict", "StartArray"}
IsClosing(c) == c.method \in {"EndDict", "EndArray"}
IsValue(c) == c.method \in {"StartDict", "StartArray", "Value"}

Positions(text, Test(_)) == {i \in DOMAIN text : Test(text[i])}

\* How many containers are open after the first n calls.
Depth(text, n) ==
    Cardinality({i \in Positions(text, IsOpening) : i <= n})
    - Cardinality({i \in Positions(text, IsClosing) : i <= n})

\* The call that opened the innermost container around position i, or 0.
Enclosing(text, i) ==
    LET around == {o \in Positions(text, IsOpening) :
                     o < i /\ \A k \in o .. i - 1 : Depth(text, k) >= Depth(text, o)}
    IN  Max(around \cup {0})

\* The methods that may come next in a JSON text.
Continuations(text) ==
    LET values == {"StartDict", "StartArray", "Value"}
        opener == Enclosing(text, Len(text) + 1)
    IN  IF text = <<>> THEN values
        ELSE IF opener = 0 THEN {}
        ELSE IF text[opener].method = "StartArray" THEN values \cup {"EndArray"}
        ELSE IF text[Len(text)].method = "Key" THEN values
        ELSE {"Key", "EndDict"}

\* No dictionary is given the same key twice.
KeysDistinct(text) ==
    \A i, j \in DOMAIN text :
        text[i].method = "Key" /\ text[i] = text[j] /\ Enclosing(text, i) = Enclosing(text, j)
        => i = j

\* The k-th of some positions, in their order.
Nth(S, k) == CHOOSE j \in S : Cardinality({i \in S : i <= j}) = k

\* The values are numbered in their order, as their nodes are.
Number(text, i) == Cardinality({j \in Positions(text, IsValue) : j <= i})

\* The key that a value is given under.
KeyOf(text, i) ==
    IF Enclosing(text, i) # 0 /\ text[Enclosing(text, i)].method = "StartDict"
    THEN text[i - 1].key ELSE NoKey

\* The values right inside the container that a call opens.
Within(text, i) == {j \in Positions(text, IsValue) : Enclosing(text, j) = i}

\* The nodes of the document that the text spells so far.
Spelt(text) ==
    LET values == Positions(text, IsValue)
        itemOf(i) == Item(KeyOf(text, i), Number(text, i))
        nodeOf(i) == [kind |-> text[i].kind,
                      items |-> [k \in 1 .. Cardinality(Within(text, i)) |->
                                   itemOf(Nth(Within(text, i), k))]]
    IN  [n \in 1 .. Cardinality(values) |-> nodeOf(Nth(values, n))]

-----------------------------------------------------------------------------
(* Properties *)

\* A method throws exactly if JSON admits no such call there.  A key given
\* twice is the exception: opening a container under it opens nothing, and
\* the calls that follow go to the dictionary around.
ThrowsUnlessJson ==
    KeysDistinct(calls) => \A m \in Offers("Builder") : Fits(m) <=> m \in Continuations(calls)

\* The document is the one that the calls spell, at every moment.
BuildsWhatIsSpelt == KeysDistinct(calls) => nodes = Spelt(calls)

\* A chain of calls, each on the context that the last one returned, never
\* throws: what the contexts leave out is all that can be wrong.
ChainNeverThrows ==
    KeysDistinct(calls) /\ context # "Builder" => \A m \in Offers(context) : Fits(m)
=============================================================================
