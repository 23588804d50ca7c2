------------------------- MODULE JsonBuilderProofs -------------------------
(***************************************************************************)
(* The builder's type invariant, the spine of its stack and the keys of    *)
(* its dictionaries, for every set of keys and scalars and any number of   *)
(* calls.  The strengthening is that the stack ascends: a container is     *)
(* newer than the one around it, so that only the top is ever extended.    *)
(*                                                                         *)
(* And what the calls say of the builder: that a method throws exactly if  *)
(* JSON admits no such call there, that the document is the one that the   *)
(* calls spell, and that chains of calls never throw.  The strengthening   *)
(* gives the position of each node's value in the text of the calls; the   *)
(* stack then has the containers that are open at the text's end.          *)
(***************************************************************************)
EXTENDS JsonText, SequenceTheorems, FiniteSetTheorems, TLAPS

StackAscends == \A i, j \in DOMAIN stack : i < j => stack[i] < stack[j]

BuilderInv == TypeOK /\ StackIsSpine /\ DictKeysUnique /\ StackAscends

\* The table of nodes after a value went into the container on top.
Extended(kind) ==
    Append([nodes EXCEPT ![top].items = Append(@, Item(key, Len(nodes) + 1))], NewNode(kind))

\* A sequence without its last element.
LEMMA Popped ==
  ASSUME NEW S, NEW s \in Seq(S), s # <<>>
  PROVE  LET t == SubSeq(s, 1, Len(s) - 1) IN
         /\ t \in Seq(S) /\ Len(t) = Len(s) - 1 /\ Len(t) \in Nat
         /\ DOMAIN t = 1 .. Len(t) /\ \A i \in DOMAIN t : i \in DOMAIN s /\ t[i] = s[i]
<1> DEFINE t == SubSeq(s, 1, Len(s) - 1)
<1>1. Len(s) \in Nat \ {0} /\ DOMAIN s = 1 .. Len(s)
  BY EmptySeq, LenProperties
<1>2. Len(s) - 1 \in Int /\ \A i \in 1 .. Len(s) - 1 : s[i] \in S
  BY <1>1
<1>3. /\ t \in Seq(S)
      /\ Len(t) = IF 1 <= Len(s) - 1 THEN Len(s) - 1 - 1 + 1 ELSE 0
      /\ \A i \in 1 .. Len(s) - 1 - 1 + 1 : t[i] = s[1 + i - 1]
  BY <1>2, SubSeqProperties
<1> HIDE DEF t
<1>4. Len(t) = Len(s) - 1 /\ DOMAIN t = 1 .. Len(t)
  <2>1. DOMAIN t = 1 .. Len(t)
    BY <1>3
  <2>2. Len(t) = Len(s) - 1
    <3>1. CASE 1 <= Len(s) - 1
      BY <3>1, <1>1, <1>3
    <3>2. CASE ~(1 <= Len(s) - 1)
      BY <3>2, <1>1, <1>3
    <3> QED
      BY <3>1, <3>2
  <2> QED
    BY <2>1, <2>2
<1>5. ASSUME NEW i \in DOMAIN t PROVE i \in DOMAIN s /\ t[i] = s[i]
  <2>1. i \in 1 .. Len(s) - 1 - 1 + 1 /\ 1 + i - 1 = i /\ i \in DOMAIN s
    BY <1>1, <1>4
  <2> QED
    BY <2>1, <1>3
<1>6. Len(t) \in Nat
  BY <1>1, <1>4
<1> QED
  BY <1>3, <1>4, <1>5, <1>6 DEF t

\* A stack that is not empty has a container of nodes on top.
LEMMA TopIsNode ==
  ASSUME TypeOK, stack # <<>>
  PROVE  /\ Len(stack) \in DOMAIN stack /\ Len(stack) \in Nat
         /\ top \in DOMAIN nodes /\ nodes[top].kind \in {"dict", "array"}
  BY DEF TypeOK, top

\* The builder starts with nothing.
LEMMA BuilderInvInit == Init => BuilderInv
<1> SUFFICES ASSUME Init PROVE BuilderInv
  OBVIOUS
<1>1. nodes = <<>> /\ stack = <<>> /\ key = NoKey /\ context \in Contexts /\ calls = <<>>
  BY DEF Init, Contexts
<1>2. threw \in BOOLEAN
  BY Zenon DEF Init
<1>3. nodes \in Seq(Node) /\ stack \in Seq(DOMAIN nodes) /\ calls \in Seq(Call)
      /\ DOMAIN stack = {} /\ DOMAIN nodes = {} /\ Len(stack) = 0
  BY <1>1
<1>4. TypeOK
  BY <1>1, <1>2, <1>3 DEF TypeOK
<1> QED
  BY <1>1, <1>3, <1>4 DEF BuilderInv, StackIsSpine, DictKeysUnique, StackAscends

\* What an extended table is: as before but for the items of the top.
LEMMA ExtendedNodes ==
  ASSUME TypeOK, stack # <<>>, NEW kind \in Kind
  PROVE  LET new == Extended(kind) IN
         /\ new \in Seq(Node) /\ Len(new) = Len(nodes) + 1
         /\ new[Len(nodes) + 1] = NewNode(kind)
         /\ \A n \in DOMAIN nodes : new[n].kind = nodes[n].kind
         /\ \A n \in DOMAIN nodes : n # top => new[n] = nodes[n]
         /\ new[top].items = Append(nodes[top].items, Item(key, Len(nodes) + 1))
<1> DEFINE item == Item(key, Len(nodes) + 1)
           held == [nodes EXCEPT ![top].items = Append(@, item)]
<1>1. nodes \in Seq(Node) /\ top \in DOMAIN nodes /\ Len(nodes) \in Nat
  BY TopIsNode DEF TypeOK
<1>2. item \in [key : KeyName \cup {NoKey}, node : Nat]
  BY <1>1 DEF TypeOK, Item
<1>3. nodes[top] \in Node
  BY <1>1
<1>4. Append(nodes[top].items, item) \in Seq([key : KeyName \cup {NoKey}, node : Nat])
  BY <1>2, <1>3 DEF Node
<1>5. [nodes[top] EXCEPT !.items = Append(@, item)] \in Node
  BY <1>3, <1>4 DEF Node
<1>6. held \in Seq(Node) /\ Len(held) = Len(nodes) /\ DOMAIN held = DOMAIN nodes
  BY <1>1, <1>5
<1>7. NewNode(kind) \in Node
  BY DEF NewNode, Node
<1>8. \A n \in DOMAIN nodes : n # top => held[n] = nodes[n]
  BY <1>1
<1>9. held[top].kind = nodes[top].kind /\ held[top].items = Append(nodes[top].items, item)
  BY <1>1, <1>3 DEF Node
<1>10. Extended(kind) = Append(held, NewNode(kind))
  BY DEF Extended
<1> HIDE DEF held
<1>11. \A n \in DOMAIN nodes : Append(held, NewNode(kind))[n] = held[n]
  BY <1>1, <1>6, <1>7
<1> QED
  BY <1>1, <1>6, <1>7, <1>8, <1>9, <1>10, <1>11

\* A value that goes into the container on top keeps the invariant.
LEMMA BuilderInvExtend ==
  ASSUME BuilderInv, stack # <<>>, NEW kind \in Kind, ~(TopIs("dict") /\ HasKey(top, key)),
         nodes' = Extended(kind), Open(kind), key' = NoKey,
         context' \in Contexts, threw' \in BOOLEAN, calls' \in Seq(Call)
  PROVE  BuilderInv'
<1> DEFINE last == Len(nodes) + 1
<1>0. TypeOK /\ StackIsSpine /\ DictKeysUnique /\ StackAscends
  BY DEF BuilderInv
<1>1. /\ nodes' \in Seq(Node) /\ Len(nodes') = last
      /\ nodes'[last] = NewNode(kind)
      /\ \A n \in DOMAIN nodes : nodes'[n].kind = nodes[n].kind
      /\ \A n \in DOMAIN nodes : n # top => nodes'[n] = nodes[n]
      /\ nodes'[top].items = Append(nodes[top].items, Item(key, last))
  BY <1>0, ExtendedNodes
<1>2. /\ nodes \in Seq(Node) /\ Len(nodes) \in Nat /\ DOMAIN nodes = 1 .. Len(nodes)
      /\ stack \in Seq(DOMAIN nodes) /\ Len(stack) \in Nat /\ Len(stack) > 0
      /\ top \in DOMAIN nodes /\ top = stack[Len(stack)]
  BY <1>0, TopIsNode DEF TypeOK, top
<1>3. DOMAIN nodes' = 1 .. last /\ DOMAIN nodes \subseteq DOMAIN nodes'
  BY <1>1, <1>2
<1>4. stack' = IF kind \in {"dict", "array"} THEN Append(stack, last) ELSE stack
  BY <1>1, <1>2 DEF Open
<1>5. /\ stack' \in Seq(DOMAIN nodes') /\ Len(stack') >= Len(stack)
      /\ \A i \in DOMAIN stack : i \in DOMAIN stack' /\ stack'[i] = stack[i]
      /\ \A i \in DOMAIN stack' \ DOMAIN stack :
           i = Len(stack) + 1 /\ stack'[i] = last /\ kind \in {"dict", "array"}
      /\ Len(stack') <= Len(stack) + 1
  <2>1. stack \in Seq(DOMAIN nodes') /\ last \in DOMAIN nodes'
    BY <1>2, <1>3
  <2>2. CASE kind \in {"dict", "array"}
    <3>1. stack' = Append(stack, last)
      BY <2>2, <1>4
    <3> HIDE DEF last
    <3> QED
      BY <3>1, <2>1, <2>2, <1>2
  <2>3. CASE kind \notin {"dict", "array"}
    BY <2>1, <2>3, <1>2, <1>4
  <2> QED
    BY <2>2, <2>3
<1>6. \A i \in 1 .. Len(stack) - 1 : stack[i] \in DOMAIN nodes /\ stack[i] # top
  <2> SUFFICES ASSUME NEW i \in 1 .. Len(stack) - 1 PROVE stack[i] \in DOMAIN nodes /\ stack[i] # top
    OBVIOUS
  <2>1. i \in DOMAIN stack /\ Len(stack) \in DOMAIN stack /\ i < Len(stack)
    BY <1>2
  <2>2. stack[i] < top
    BY <2>1, <1>0, <1>2 DEF StackAscends
  <2> QED
    BY <2>1, <2>2, <1>2
<1>7. TypeOK'
  <2>1. \A i \in DOMAIN stack' : nodes'[stack'[i]].kind \in {"dict", "array"}
    <3>1. ASSUME NEW i \in DOMAIN stack PROVE nodes'[stack'[i]].kind \in {"dict", "array"}
      <4>1. stack'[i] = stack[i] /\ stack[i] \in DOMAIN nodes
        BY <1>2, <1>5
      <4> QED
        BY <4>1, <1>0, <1>1 DEF TypeOK
    <3>2. ASSUME NEW i \in DOMAIN stack' \ DOMAIN stack PROVE nodes'[stack'[i]].kind \in {"dict", "array"}
      BY <1>1, <1>5 DEF NewNode
    <3> QED
      BY <3>1, <3>2
  <2> QED
    BY <2>1, <1>1, <1>5 DEF TypeOK
<1>8. StackIsSpine'
  <2>1. stack'[1] = 1
    BY <1>0, <1>2, <1>5 DEF StackIsSpine
  <2>2. ASSUME NEW i \in 1 .. Len(stack') - 1
        PROVE  /\ nodes'[stack'[i]].items # <<>>
               /\ nodes'[stack'[i]].items[Len(nodes'[stack'[i]].items)].node = stack'[i + 1]
    <3>1. CASE i < Len(stack)
      <4>1. i \in 1 .. Len(stack) - 1 /\ i \in DOMAIN stack /\ i + 1 \in DOMAIN stack
        BY <3>1, <1>2
      <4>2. nodes'[stack'[i]] = nodes[stack[i]] /\ stack'[i + 1] = stack[i + 1]
        BY <4>1, <1>1, <1>5, <1>6
      <4> QED
        BY <4>1, <4>2, <1>0 DEF StackIsSpine
    <3>2. CASE i = Len(stack)
      <4>1. stack'[i] = top /\ stack'[i + 1] = last
        BY <3>2, <1>2, <1>4
      <4>2. nodes[top].items \in Seq([key : KeyName \cup {NoKey}, node : Nat])
        <5>1. nodes[top] \in Node
          BY <1>2
        <5> QED
          BY <5>1 DEF Node
      <4>3. /\ nodes'[top].items # <<>>
            /\ nodes'[top].items[Len(nodes'[top].items)] = Item(key, last)
        BY <4>2, <1>1
      <4> QED
        BY <4>1, <4>3 DEF Item
    <3> QED
      BY <3>1, <3>2, <1>2, <1>5
  <2> QED
    BY <2>1, <2>2 DEF StackIsSpine
<1>9. DictKeysUnique'
  <2> SUFFICES ASSUME NEW n \in 1 .. last, nodes'[n].kind = "dict",
                      NEW i \in DOMAIN nodes'[n].items, NEW j \in DOMAIN nodes'[n].items,
                      nodes'[n].items[i].key = nodes'[n].items[j].key
               PROVE  i = j
    BY <1>3 DEF DictKeysUnique
  <2>1. CASE n = last
    BY <2>1, <1>1 DEF NewNode
  <2>2. CASE n \in DOMAIN nodes /\ n # top
    BY <2>2, <1>0, <1>1 DEF DictKeysUnique
  <2>3. CASE n = top
    <3>1. nodes[top].kind = "dict" /\ ~HasKey(top, key)
      BY <2>3, <1>1, <1>2 DEF TopIs
    <3>2. nodes[top].items \in Seq([key : KeyName \cup {NoKey}, node : Nat])
      <4>1. nodes[top] \in Node
        BY <1>2
      <4> QED
        BY <4>1 DEF Node
    <3> DEFINE items == nodes[top].items
               end == Len(items) + 1
    <3>3. /\ DOMAIN items = 1 .. Len(items) /\ Len(items) \in Nat
          /\ DOMAIN nodes'[n].items = 1 .. end
          /\ nodes'[n].items[end].key = key
          /\ \A k \in DOMAIN items : nodes'[n].items[k] = items[k]
      <4>1. nodes'[n].items = Append(items, Item(key, last))
        BY <2>3, <1>1
      <4>2. Item(key, last).key = key
        BY DEF Item
      <4>3. Item(key, last) \in [key : KeyName \cup {NoKey}, node : Nat]
        BY <1>0, <1>2 DEF Item, TypeOK
      <4>4. items \in Seq([key : KeyName \cup {NoKey}, node : Nat])
        BY <3>2
      <4> HIDE DEF items
      <4>5. Len(items) \in Nat /\ DOMAIN items = 1 .. Len(items)
        BY <4>4, LenProperties
      <4>6. /\ Len(nodes'[n].items) = Len(items) + 1
            /\ nodes'[n].items \in Seq([key : KeyName \cup {NoKey}, node : Nat])
            /\ nodes'[n].items[Len(items) + 1] = Item(key, last)
            /\ \A k \in 1 .. Len(items) : nodes'[n].items[k] = items[k]
        BY <4>1, <4>3, <4>4, AppendProperties
      <4> QED
        BY <4>2, <4>5, <4>6, LenProperties
    <3>4. \A k \in DOMAIN items : items[k].key # key
      BY <3>1 DEF HasKey
    <3>5. \A k, m \in DOMAIN items : items[k].key = items[m].key => k = m
      BY <3>1, <1>0, <1>2 DEF DictKeysUnique
    <3>6. (i = end \/ i \in DOMAIN items) /\ (j = end \/ j \in DOMAIN items)
      BY <3>3
    <3> HIDE DEF items, end
    <3> QED
      BY <3>3, <3>4, <3>5, <3>6
  <2> QED
    BY <2>1, <2>2, <2>3, <1>2
<1>10. StackAscends'
  BY <1>0, <1>2, <1>5 DEF StackAscends
<1> QED
  BY <1>7, <1>8, <1>9, <1>10 DEF BuilderInv

\* A call that leaves the document alone keeps the invariant, if the stack
\* stays or is popped and a key is set only in a dictionary.
LEMMA BuilderInvKeep ==
  ASSUME BuilderInv, nodes' = nodes,
         \/ stack' = stack
         \/ stack # <<>> /\ stack' = SubSeq(stack, 1, Len(stack) - 1) /\ key' = NoKey,
         key' \in KeyName \cup {NoKey}, key' # NoKey => TopIs("dict"),
         context' \in Contexts, threw' \in BOOLEAN, calls' \in Seq(Call)
  PROVE  BuilderInv'
<1>0. TypeOK /\ StackIsSpine /\ DictKeysUnique /\ StackAscends
  BY DEF BuilderInv
<1>1. stack \in Seq(DOMAIN nodes) /\ Len(stack) \in Nat /\ DOMAIN stack = 1 .. Len(stack)
  BY <1>0 DEF TypeOK
<1>2. /\ stack' \in Seq(DOMAIN nodes) /\ Len(stack') <= Len(stack)
      /\ DOMAIN stack' = 1 .. Len(stack') /\ Len(stack') \in Nat
      /\ \A i \in DOMAIN stack' : i \in DOMAIN stack /\ stack'[i] = stack[i]
      /\ key' # NoKey => stack' = stack
      /\ stack' # <<>> => stack # <<>> /\ 1 \in DOMAIN stack'
  <2>1. CASE stack' = stack
    BY <2>1, <1>1
  <2>2. CASE stack # <<>> /\ stack' = SubSeq(stack, 1, Len(stack) - 1) /\ key' = NoKey
    <3>1. /\ stack' \in Seq(DOMAIN nodes) /\ Len(stack') = Len(stack) - 1 /\ Len(stack') \in Nat
          /\ DOMAIN stack' = 1 .. Len(stack')
          /\ \A i \in DOMAIN stack' : i \in DOMAIN stack /\ stack'[i] = stack[i]
      <4>1. stack \in Seq(DOMAIN nodes) /\ stack # <<>> /\ stack' = SubSeq(stack, 1, Len(stack) - 1)
        BY <2>2, <1>1
      <4> QED
        BY <4>1, Popped
    <3>2. stack' # <<>> => 1 \in DOMAIN stack'
      BY ONLY <3>1, EmptySeq
    <3>3. Len(stack') <= Len(stack)
      BY <3>1, <1>1
    <3> QED
      BY <2>2, <3>1, <3>2, <3>3, Zenon
  <2> QED
    BY <2>1, <2>2
<1>3. TypeOK'
  BY <1>0, <1>2 DEF TypeOK, TopIs, top
<1>4. StackIsSpine'
  <2>1. stack' # <<>> => stack'[1] = 1
    BY <1>0, <1>2 DEF StackIsSpine
  <2>2. ASSUME NEW i \in 1 .. Len(stack') - 1
        PROVE  /\ nodes[stack'[i]].items # <<>>
               /\ nodes[stack'[i]].items[Len(nodes[stack'[i]].items)].node = stack'[i + 1]
    <3>1. i \in 1 .. Len(stack) - 1 /\ i \in DOMAIN stack' /\ i + 1 \in DOMAIN stack'
      <4>1. /\ Len(stack) \in Nat /\ Len(stack') \in Nat /\ Len(stack') <= Len(stack)
            /\ DOMAIN stack' = 1 .. Len(stack')
        BY <1>1, <1>2
      <4> QED
        BY <4>1
    <3>2. stack'[i] = stack[i] /\ stack'[i + 1] = stack[i + 1]
      BY <3>1, <1>2
    <3> QED
      BY <3>1, <3>2, <1>0 DEF StackIsSpine
  <2> QED
    BY <2>1, <2>2 DEF StackIsSpine
<1>5. DictKeysUnique'
  BY <1>0 DEF DictKeysUnique
<1>6. StackAscends'
  BY <1>0, <1>2 DEF StackAscends
<1> QED
  BY <1>3, <1>4, <1>5, <1>6 DEF BuilderInv

\* What every accepted call does to the rest of the state.
LEMMA AcceptTypes ==
  ASSUME BuilderInv, NEW on, NEW c \in Call, Accept(on, c)
  PROVE  context' \in Contexts /\ threw' \in BOOLEAN /\ calls' \in Seq(Call) /\ Fits(c.method)
<1>1. context' \in Contexts
  BY DEF Accept, Returns, Contexts
<1>2. threw' \in BOOLEAN
  BY Zenon DEF Accept
<1>3. calls' \in Seq(Call)
  BY DEF BuilderInv, TypeOK, Accept
<1>4. Fits(c.method)
  BY DEF Accept
<1> QED
  BY <1>1, <1>2, <1>3, <1>4

\* A value keeps the invariant: as the root, in the container on top, or
\* dropped for its key.
LEMMA BuilderInvValue ==
  ASSUME BuilderInv, NEW on, NEW c \in Put, DoValue(on, c)
  PROVE  BuilderInv'
<1>0. c \in Call /\ c.kind \in Kind /\ c.method \in {"StartDict", "StartArray", "Value"}
  BY DEF Call, Put, Kind
<1>1. context' \in Contexts /\ threw' \in BOOLEAN /\ calls' \in Seq(Call) /\ Fits(c.method)
  BY <1>0, AcceptTypes DEF DoValue
<1>2. FitsValue /\ Value(c)
  BY <1>0, <1>1 DEF Fits, DoValue
<1>3. CASE nodes = <<>>
  <2>1. stack = <<>> /\ Len(nodes) = 0
    BY <1>3 DEF BuilderInv, TypeOK
  <2>2. nodes' = <<NewNode(c.kind)>> /\ key' = NoKey /\ Open(c.kind)
    BY <1>2, <1>3 DEF Value
  <2>3. /\ Len(nodes') = 1 /\ DOMAIN nodes' = {1} /\ nodes'[1] = NewNode(c.kind)
        /\ NewNode(c.kind) \in Node /\ nodes' \in Seq(Node)
    BY <2>2, <1>0 DEF NewNode, Node
  <2>4. stack' = IF c.kind \in {"dict", "array"} THEN <<1>> ELSE <<>>
    BY <2>1, <2>2, <2>3 DEF Open
  <2>5. TypeOK'
    <3>1. stack' \in Seq(DOMAIN nodes')
      <4>1. <<1>> \in Seq({1}) /\ <<>> \in Seq({1})
        OBVIOUS
      <4>2. stack' = <<1>> \/ stack' = <<>>
        BY <2>4
      <4> QED
        BY <4>1, <4>2, <2>3
    <3>2. \A i \in DOMAIN stack' : nodes'[stack'[i]].kind \in {"dict", "array"}
      BY <2>3, <2>4 DEF NewNode
    <3> QED
      BY <3>1, <3>2, <2>2, <2>3, <1>1 DEF TypeOK
  <2>6. StackIsSpine' /\ StackAscends'
    BY <2>4 DEF StackIsSpine, StackAscends
  <2>7. DictKeysUnique'
    BY <2>3 DEF DictKeysUnique, NewNode
  <2> QED
    BY <2>5, <2>6, <2>7 DEF BuilderInv
<1>4. CASE nodes # <<>>
  <2>1. stack # <<>> /\ key' = NoKey /\ Insert(c.kind) /\ Open(c.kind)
    BY <1>2, <1>4 DEF FitsValue, Ready, Value
  <2>2. CASE TopIs("dict") /\ HasKey(top, key)
    <3>1. nodes' = nodes /\ stack' = stack
      BY <2>1, <2>2 DEF Insert, Open, BuilderInv, TypeOK
    <3> QED
      BY <3>1, <2>1, <1>1, BuilderInvKeep
  <2>3. CASE ~(TopIs("dict") /\ HasKey(top, key))
    <3>1. nodes' = Extended(c.kind)
      BY <2>1, <2>3 DEF Insert, Extended
    <3> QED
      BY <3>1, <2>1, <2>3, <1>0, <1>1, BuilderInvExtend
  <2> QED
    BY <2>2, <2>3
<1> QED
  BY <1>3, <1>4

\* Every step of the builder keeps the invariant.
LEMMA BuilderInvNext == BuilderInv /\ [Next]_vars => BuilderInv'
<1> SUFFICES ASSUME BuilderInv, [Next]_vars PROVE BuilderInv'
  OBVIOUS
<1>1. ASSUME NEW on \in Contexts, NEW c \in Put, DoValue(on, c) PROVE BuilderInv'
  BY <1>1, BuilderInvValue
<1>2. ASSUME NEW on \in Contexts, NEW c \in SetKey, DoKey(on, c) PROVE BuilderInv'
  <2>1. c \in Call /\ c.key \in KeyName /\ c.method = "Key"
    BY DEF Call, SetKey
  <2>2. context' \in Contexts /\ threw' \in BOOLEAN /\ calls' \in Seq(Call) /\ FitsKey
    BY <1>2, <2>1, AcceptTypes DEF DoKey, Fits
  <2> QED
    BY <1>2, <2>1, <2>2, BuilderInvKeep DEF DoKey, FitsKey
<1>3. ASSUME NEW on \in Contexts, NEW c \in Close, DoEnd(on, c) PROVE BuilderInv'
  <2>1. c \in Call /\ c.method \in {"EndDict", "EndArray"}
    BY DEF Call, Close
  <2>2. /\ context' \in Contexts /\ threw' \in BOOLEAN /\ calls' \in Seq(Call)
        /\ FitsEndDict \/ FitsEndArray
    BY <1>3, <2>1, AcceptTypes DEF DoEnd, Fits
  <2>3. stack # <<>> /\ key = NoKey
    <3>1. CASE FitsEndDict
      BY <3>1 DEF FitsEndDict, TopIs
    <3>2. CASE FitsEndArray
      BY <3>2 DEF FitsEndArray, TopIs, BuilderInv, TypeOK
    <3> QED
      BY <2>2, <3>1, <3>2
  <2> QED
    BY <1>3, <2>2, <2>3, BuilderInvKeep DEF DoEnd, Pop
<1>4. ASSUME NEW on \in Contexts, NEW c \in Call, Throw(on, c) PROVE BuilderInv'
  BY <1>4, BuilderInvKeep DEF Throw, BuilderInv, TypeOK
<1>5. CASE UNCHANGED vars
  BY <1>5, BuilderInvKeep DEF vars, BuilderInv, TypeOK
<1> QED
  BY <1>1, <1>2, <1>3, <1>4, <1>5 DEF Next

\* The inductive invariant of the builder holds in every state.
THEOREM BuilderInvariant == Spec => []BuilderInv
  BY BuilderInvInit, BuilderInvNext, PTL DEF Spec

\* Every variable has its type, and a key waits only in a dictionary.
THEOREM TypeCorrect == Spec => []TypeOK
<1>1. BuilderInv => TypeOK
  BY DEF BuilderInv
<1> QED
  BY <1>1, BuilderInvariant, PTL

\* Every pointer of the stack is to the last item of the container below, so
\* that no insertion moves what the stack points to.
THEOREM StackLeadsAlongLastItems == Spec => []StackIsSpine
<1>1. BuilderInv => StackIsSpine
  BY DEF BuilderInv
<1> QED
  BY <1>1, BuilderInvariant, PTL

\* A dictionary never has two items under one key.
THEOREM KeysStayUnique == Spec => []DictKeysUnique
<1>1. BuilderInv => DictKeysUnique
  BY DEF BuilderInv
<1> QED
  BY <1>1, BuilderInvariant, PTL
-----------------------------------------------------------------------------
(* What a text says of its positions *)

\* The brackets among the first n calls.
Opened(text, n) == {i \in DOMAIN text : IsOpening(text[i]) /\ i <= n}
Closed(text, n) == {i \in DOMAIN text : IsClosing(text[i]) /\ i <= n}

\* The calls that opened the containers around a position.
Around(text, i) ==
    {o \in DOMAIN text : /\ IsOpening(text[o]) /\ o < i
                         /\ \A k \in o .. i - 1 : Depth(text, k) >= Depth(text, o)}

\* Depth in these terms
LEMMA DepthIs ==
  ASSUME NEW text, NEW n
  PROVE  Depth(text, n) = Cardinality(Opened(text, n)) - Cardinality(Closed(text, n))
<1>1. {i \in Positions(text, IsOpening) : i <= n} = Opened(text, n)
  BY DEF Positions, Opened
<1>2. {i \in Positions(text, IsClosing) : i <= n} = Closed(text, n)
  BY DEF Positions, Closed
<1> QED
  BY <1>1, <1>2 DEF Depth

\* and Enclosing.
LEMMA EnclosingIs ==
  ASSUME NEW text, NEW i
  PROVE  Enclosing(text, i) = Max(Around(text, i) \cup {0})
<1>1. {o \in Positions(text, IsOpening) :
         o < i /\ \A k \in o .. i - 1 : Depth(text, k) >= Depth(text, o)} = Around(text, i)
  BY DEF Positions, Around
<1> QED
  BY <1>1 DEF Enclosing

\* Positions are finitely many numbers.
LEMMA PositionsFinite ==
  ASSUME NEW text \in Seq(Call), NEW S \in SUBSET DOMAIN text
  PROVE  S \in SUBSET Nat /\ IsFiniteSet(S) /\ Cardinality(S) \in Nat
<1>1. Len(text) \in Nat /\ DOMAIN text = 1 .. Len(text)
  OBVIOUS
<1>2. IsFiniteSet(1 .. Len(text))
  BY <1>1, FS_Interval
<1>3. IsFiniteSet(S)
  BY <1>1, <1>2, FS_Subset
<1> QED
  BY <1>1, <1>3, FS_CardinalityType

\* An opening bracket, a closing one or another call is at every position.
LEMMA DepthNext ==
  ASSUME NEW text \in Seq(Call), NEW n \in Nat, n + 1 \in DOMAIN text
  PROVE  /\ Depth(text, n) \in Int /\ Depth(text, 0) = 0
         /\ IsOpening(text[n + 1]) => Depth(text, n + 1) = Depth(text, n) + 1
         /\ IsClosing(text[n + 1]) => Depth(text, n + 1) = Depth(text, n) - 1
         /\ ~IsOpening(text[n + 1]) /\ ~IsClosing(text[n + 1]) =>
              Depth(text, n + 1) = Depth(text, n)
<1>1. PICK op, cl, oq, cq :
         op = Opened(text, n) /\ cl = Closed(text, n) /\ oq = Opened(text, n + 1) /\ cq = Closed(text, n + 1)
  OBVIOUS
<1>2. IsFiniteSet(op) /\ IsFiniteSet(cl) /\ Cardinality(op) \in Nat /\ Cardinality(cl) \in Nat
  BY <1>1, PositionsFinite DEF Opened, Closed
<1>3. \A i \in DOMAIN text : i \in Nat /\ (i <= n + 1 <=> i <= n \/ i = n + 1)
  OBVIOUS
<1>4. n + 1 \notin op /\ n + 1 \notin cl
  BY <1>1 DEF Opened, Closed
<1>5. IsOpening(text[n + 1]) => oq = op \cup {n + 1}
  BY <1>1, <1>3 DEF Opened
<1>6. ~IsOpening(text[n + 1]) => oq = op
  BY <1>1, <1>3 DEF Opened
<1>7. IsClosing(text[n + 1]) => cq = cl \cup {n + 1}
  BY <1>1, <1>3 DEF Closed
<1>8. ~IsClosing(text[n + 1]) => cq = cl
  BY <1>1, <1>3 DEF Closed
<1>9. Cardinality(op \cup {n + 1}) = Cardinality(op) + 1
  BY <1>2, <1>4, FS_AddElement
<1>10. Cardinality(cl \cup {n + 1}) = Cardinality(cl) + 1
  BY <1>2, <1>4, FS_AddElement
<1>11. Depth(text, n) = Cardinality(op) - Cardinality(cl)
  BY <1>1, DepthIs
<1>12. Depth(text, n + 1) = Cardinality(oq) - Cardinality(cq)
  BY <1>1, DepthIs
<1>13. ~(IsOpening(text[n + 1]) /\ IsClosing(text[n + 1]))
  BY DEF IsOpening, IsClosing
<1>14. Depth(text, 0) = 0
  <2>1. \A i \in DOMAIN text : ~(i <= 0)
    OBVIOUS
  <2>2. Opened(text, 0) = {} /\ Closed(text, 0) = {}
    BY <2>1 DEF Opened, Closed
  <2>3. Cardinality({}) = 0
    BY FS_EmptySet
  <2>4. Depth(text, 0) = 0 - 0
    BY <2>2, <2>3, DepthIs
  <2> QED
    BY <2>4
<1>15. PICK a \in Nat, b \in Nat : a = Cardinality(op) /\ b = Cardinality(cl)
  BY <1>2
<1>16. CASE IsOpening(text[n + 1])
  <2>1. Depth(text, n + 1) = (a + 1) - b
    BY <1>5, <1>8, <1>9, <1>12, <1>13, <1>15, <1>16
  <2> QED
    BY <1>11, <1>13, <1>14, <1>15, <1>16, <2>1
<1>17. CASE IsClosing(text[n + 1])
  <2>1. Depth(text, n + 1) = a - (b + 1)
    BY <1>6, <1>7, <1>10, <1>12, <1>13, <1>15, <1>17
  <2> QED
    BY <1>11, <1>13, <1>14, <1>15, <1>17, <2>1
<1>18. CASE ~IsOpening(text[n + 1]) /\ ~IsClosing(text[n + 1])
  <2>1. Depth(text, n + 1) = a - b
    BY <1>6, <1>8, <1>12, <1>15, <1>18
  <2> QED
    BY <1>11, <1>14, <1>15, <1>18, <2>1
<1> QED
  BY <1>16, <1>17, <1>18

\* A number of calls open a whole number of containers.
LEMMA DepthIsInt ==
  ASSUME NEW text \in Seq(Call), NEW n
  PROVE  Depth(text, n) \in Int
<1>1. Cardinality(Opened(text, n)) \in Nat /\ Cardinality(Closed(text, n)) \in Nat
  BY PositionsFinite DEF Opened, Closed
<1> QED
  BY <1>1, DepthIs

\* A text that goes on.
LEMMA Longer ==
  ASSUME NEW text \in Seq(Call), NEW c \in Call
  PROVE  LET more == Append(text, c) IN
         /\ more \in Seq(Call) /\ Len(text) \in Nat /\ Len(more) = Len(text) + 1
         /\ DOMAIN text = 1 .. Len(text) /\ DOMAIN more = DOMAIN text \cup {Len(text) + 1}
         /\ Len(text) + 1 \notin DOMAIN text
         /\ more[Len(text) + 1] = c /\ \A i \in DOMAIN text : more[i] = text[i]
  OBVIOUS

\* Calls that follow change nothing of the depth
LEMMA DepthStays ==
  ASSUME NEW text \in Seq(Call), NEW c \in Call, NEW n \in 0 .. Len(text)
  PROVE  Depth(Append(text, c), n) = Depth(text, n)
<1>1. PICK more : more = Append(text, c)
  OBVIOUS
<1>2. /\ Len(text) \in Nat /\ DOMAIN more = DOMAIN text \cup {Len(text) + 1}
      /\ ~(Len(text) + 1 <= n) /\ \A i \in DOMAIN text : more[i] = text[i]
  BY <1>1, Longer
<1>3. Opened(more, n) = Opened(text, n)
  BY <1>2 DEF Opened
<1>4. Closed(more, n) = Closed(text, n)
  BY <1>2 DEF Closed
<1> QED
  BY <1>1, <1>3, <1>4, DepthIs

\* and of what is around a position.
LEMMA AroundStays ==
  ASSUME NEW text \in Seq(Call), NEW c \in Call, NEW i \in 1 .. Len(text) + 1
  PROVE  /\ Around(Append(text, c), i) = Around(text, i)
         /\ Enclosing(Append(text, c), i) = Enclosing(text, i)
<1>1. PICK more : more = Append(text, c)
  OBVIOUS
<1>2. /\ Len(text) \in Nat /\ DOMAIN more = DOMAIN text \cup {Len(text) + 1}
      /\ ~(Len(text) + 1 < i) /\ \A o \in DOMAIN text : o \in Nat /\ more[o] = text[o]
  BY <1>1, Longer
<1>3. \A k \in 0 .. Len(text) : Depth(more, k) = Depth(text, k)
  BY <1>1, DepthStays
<1>4. ASSUME NEW o \in DOMAIN text
      PROVE  o \in Around(more, i) <=> o \in Around(text, i)
  <2>1. \A k \in o .. i - 1 : k \in 0 .. Len(text)
    BY <1>2
  <2>2. o \in 0 .. Len(text)
    OBVIOUS
  <2>3. Depth(more, o) = Depth(text, o) /\ \A k \in o .. i - 1 : Depth(more, k) = Depth(text, k)
    BY <1>3, <2>1, <2>2
  <2>4. more[o] = text[o] /\ o \in DOMAIN more
    BY <1>2
  <2> QED
    BY <2>3, <2>4 DEF Around
<1>5. Around(more, i) = Around(text, i)
  BY <1>2, <1>4 DEF Around
<1> QED
  BY <1>1, <1>5, EnclosingIs

\* From one position to the next: what is opened there is around it, what is
\* closed no longer.
LEMMA AroundNext ==
  ASSUME NEW text \in Seq(Call), NEW n \in DOMAIN text
  PROVE  /\ IsOpening(text[n]) => Around(text, n + 1) = Around(text, n) \cup {n}
         /\ IsClosing(text[n]) =>
              Around(text, n + 1) = {o \in Around(text, n) : Depth(text, o) <= Depth(text, n)}
         /\ ~IsOpening(text[n]) /\ ~IsClosing(text[n]) => Around(text, n + 1) = Around(text, n)
<1>1. n \in Nat \ {0} /\ n - 1 \in Nat /\ (n - 1) + 1 = n /\ DOMAIN text \subseteq Nat
  OBVIOUS
<1>2. /\ IsOpening(text[n]) => Depth(text, n) = Depth(text, n - 1) + 1
      /\ IsClosing(text[n]) => Depth(text, n) = Depth(text, n - 1) - 1
      /\ ~IsOpening(text[n]) /\ ~IsClosing(text[n]) => Depth(text, n) = Depth(text, n - 1)
  BY <1>1, DepthNext
<1>3. \A k : Depth(text, k) \in Int
  BY DepthIsInt
<1>4. \A o \in DOMAIN text : o < n => n - 1 \in o .. n - 1
  BY <1>1
<1>5. \A o \in DOMAIN text : o < n => \A k : k \in o .. (n + 1) - 1 <=> k \in o .. n - 1 \/ k = n
  BY <1>1
<1>6. \A o \in DOMAIN text : o < n + 1 <=> o < n \/ o = n
  BY <1>1
<1>7. ~IsOpening(text[n]) \/ ~IsClosing(text[n])
  BY DEF IsOpening, IsClosing
<1>8. ASSUME NEW o \in DOMAIN text, o < n
      PROVE  o \in Around(text, n + 1) <=> o \in Around(text, n) /\ Depth(text, o) <= Depth(text, n)
  BY <1>3, <1>5, <1>6, <1>8 DEF Around
<1>9. \A o \in Around(text, n) : o \in DOMAIN text /\ o < n /\ Depth(text, o) <= Depth(text, n - 1)
  BY <1>3, <1>4 DEF Around
<1>10. n \in Around(text, n + 1) <=> IsOpening(text[n])
  <2>1. n .. (n + 1) - 1 = {n}
    BY <1>1
  <2> QED
    BY <1>1, <1>3, <2>1 DEF Around
<1>11. \A o \in Around(text, n + 1) : o \in DOMAIN text /\ (o < n \/ o = n)
  BY <1>6 DEF Around
<1>12. n \notin Around(text, n)
  BY <1>1 DEF Around
<1>13. CASE IsOpening(text[n])
  <2>1. \A o \in Around(text, n) : Depth(text, o) <= Depth(text, n)
    BY <1>2, <1>3, <1>9, <1>13
  <2>2. Around(text, n + 1) = Around(text, n) \cup {n}
    BY <1>8, <1>9, <1>10, <1>11, <1>13, <2>1
  <2> QED
    BY <1>7, <1>13, <2>2
<1>14. CASE IsClosing(text[n])
  <2>1. Around(text, n + 1) = {o \in Around(text, n) : Depth(text, o) <= Depth(text, n)}
    BY <1>7, <1>8, <1>9, <1>10, <1>11, <1>14
  <2> QED
    BY <1>7, <1>14, <2>1
<1>15. CASE ~IsOpening(text[n]) /\ ~IsClosing(text[n])
  <2>1. \A o \in Around(text, n) : Depth(text, o) <= Depth(text, n)
    BY <1>2, <1>9, <1>15
  <2>2. Around(text, n + 1) = Around(text, n)
    BY <1>8, <1>9, <1>10, <1>11, <1>15, <2>1
  <2> QED
    BY <1>15, <2>2
<1> QED
  BY <1>13, <1>14, <1>15

\* The greatest of numbers.
LEMMA MaxIs ==
  ASSUME NEW S \in SUBSET Int, NEW x \in S, \A y \in S : y <= x
  PROVE  Max(S) = x
<1>1. \A z \in S : (\A y \in S : z >= y) => z = x
  OBVIOUS
<1>2. \A y \in S : x >= y
  OBVIOUS
<1> QED
  BY <1>1, <1>2 DEF Max

-----------------------------------------------------------------------------
(* The builder and the text of the calls *)

\* Where the value of each node is in the text.
Numbered(at, text, doc) ==
    /\ \A n \in DOMAIN doc : /\ at[n] \in DOMAIN text /\ IsValue(text[at[n]])
                             /\ text[at[n]].kind = doc[n].kind
    /\ \A m, n \in DOMAIN doc : m < n => at[m] < at[n]
    /\ \A i \in DOMAIN text : IsValue(text[i]) => \E n \in DOMAIN doc : at[n] = i

\* The stack has the containers that are open at the end of the text.
Stacked(at, text, open) ==
    /\ Depth(text, Len(text)) = Len(open)
    /\ \A i \in DOMAIN open : Depth(text, at[open[i]]) = i
    /\ \A o : o \in Around(text, Len(text) + 1) <=> \E i \in DOMAIN open : o = at[open[i]]

\* A node has an item for each value right inside it.
Itemised(at, text, doc) ==
    \A n \in DOMAIN doc : LET items == doc[n].items IN
        /\ \A k, l \in DOMAIN items : k < l => items[k].node < items[l].node
        /\ \A k \in DOMAIN items :
             /\ items[k].node \in DOMAIN doc
             /\ Enclosing(text, at[items[k].node]) = at[n]
             /\ items[k].key = KeyOf(text, at[items[k].node])
        /\ \A m \in DOMAIN doc : Enclosing(text, at[m]) = at[n] => \E k \in DOMAIN items : items[k].node = m

\* A key waits exactly after a call of Key.
Waiting(text, k) ==
    /\ k # NoKey => text # <<>> /\ text[Len(text)] = [method |-> "Key", key |-> k]
    /\ k = NoKey => text = <<>> \/ text[Len(text)].method # "Key"

\* Containers begin before what is in them, and in a dictionary a value comes
\* right after its key.
Nested(text) ==
    \A i \in DOMAIN text :
        LET e == Enclosing(text, i) IN
        /\ e \in 0 .. i - 1
        /\ IsValue(text[i]) /\ e # 0 /\ text[e].method = "StartDict" =>
             i - 1 \in DOMAIN text /\ text[i - 1].method = "Key" /\ Enclosing(text, i - 1) = e

\* What a call is, by its method.
LEMMA CallKinds ==
  ASSUME NEW c \in Call
  PROVE  /\ IsValue(c) <=> c \in Put
         /\ IsOpening(c) <=> c \in Put /\ c.kind \in {"dict", "array"}
         /\ c.method = "StartDict" <=> c \in Put /\ c.kind = "dict"
         /\ c.method = "StartArray" <=> c \in Put /\ c.kind = "array"
         /\ IsClosing(c) <=> c \in Close
         /\ c.method = "Key" <=> c \in SetKey
         /\ c \in SetKey => c = [method |-> "Key", key |-> c.key] /\ c.key \in KeyName
         /\ IsOpening(c) => IsValue(c) /\ ~IsClosing(c)
         /\ IsValue(c) => ~IsClosing(c) /\ c.method # "Key"
         /\ c.method = "Key" => ~IsOpening(c) /\ ~IsClosing(c)
<1>1. CASE c \in [method : {"Value"}, kind : Scalar]
  <2>1. c.method = "Value" /\ c.kind \in Scalar /\ c.kind \notin {"dict", "array"}
    BY <1>1, ScalarAssumption
  <2>2. c \notin SetKey /\ c \notin Close
    BY <2>1 DEF SetKey, Close
  <2>3. c \in Put
    BY <1>1 DEF Put
  <2> QED
    BY <2>1, <2>2, <2>3 DEF IsValue, IsOpening, IsClosing
<1>2. CASE c = [method |-> "StartDict", kind |-> "dict"]
  <2>1. c.method = "StartDict" /\ c.kind = "dict"
    BY <1>2
  <2>2. c \notin SetKey /\ c \notin Close
    BY <2>1 DEF SetKey, Close
  <2>3. c \in Put
    BY <1>2 DEF Put
  <2> QED
    BY <2>1, <2>2, <2>3 DEF IsValue, IsOpening, IsClosing
<1>3. CASE c = [method |-> "StartArray", kind |-> "array"]
  <2>1. c.method = "StartArray" /\ c.kind = "array"
    BY <1>3
  <2>2. c \notin SetKey /\ c \notin Close
    BY <2>1 DEF SetKey, Close
  <2>3. c \in Put
    BY <1>3 DEF Put
  <2> QED
    BY <2>1, <2>2, <2>3 DEF IsValue, IsOpening, IsClosing
<1>4. CASE c \in SetKey
  <2>1. c.method = "Key" /\ c.key \in KeyName /\ c = [method |-> "Key", key |-> c.key]
    BY <1>4 DEF SetKey
  <2>2. c \notin Put /\ c \notin Close
    BY <2>1 DEF Put, Close
  <2> QED
    BY <1>4, <2>1, <2>2 DEF IsValue, IsOpening, IsClosing
<1>5. CASE c \in Close
  <2>1. c.method \in {"EndDict", "EndArray"}
    BY <1>5 DEF Close
  <2>2. c \notin Put /\ c \notin SetKey
    BY <2>1 DEF Put, SetKey
  <2> QED
    BY <1>5, <2>1, <2>2 DEF IsValue, IsOpening, IsClosing
<1> QED
  BY <1>1, <1>2, <1>3, <1>4, <1>5 DEF Call, Put

\* The stack's top is right around what comes next.
LEMMA TopEncloses ==
  ASSUME NEW text \in Seq(Call), NEW doc, NEW at, Numbered(at, text, doc),
         NEW open \in Seq(DOMAIN doc), \A i, j \in DOMAIN open : i < j => open[i] < open[j],
         Stacked(at, text, open)
  PROVE  /\ open = <<>> => Enclosing(text, Len(text) + 1) = 0
         /\ open # <<>> => /\ Enclosing(text, Len(text) + 1) = at[open[Len(open)]]
                           /\ at[open[Len(open)]] \in DOMAIN text
<1>1. PICK S : S = Around(text, Len(text) + 1) \cup {0}
  OBVIOUS
<1>2. \A o : o \in S <=> o = 0 \/ \E i \in DOMAIN open : o = at[open[i]]
  BY <1>1 DEF Stacked
<1>3. Len(text) \in Nat /\ DOMAIN text = 1 .. Len(text) /\ Len(open) \in Nat /\ DOMAIN open = 1 .. Len(open)
  OBVIOUS
<1>4. \A i \in DOMAIN open : open[i] \in DOMAIN doc /\ at[open[i]] \in DOMAIN text
  BY DEF Numbered
<1>5. S \in SUBSET Int /\ 0 \in S
  BY <1>2, <1>3, <1>4
<1>6. ASSUME open = <<>> PROVE Enclosing(text, Len(text) + 1) = 0
  <2>1. \A o \in S : o <= 0
    BY <1>2, <1>6
  <2> QED
    BY <1>1, <1>5, <2>1, MaxIs, EnclosingIs
<1>7. ASSUME open # <<>>
      PROVE  Enclosing(text, Len(text) + 1) = at[open[Len(open)]] /\ at[open[Len(open)]] \in DOMAIN text
  <2>1. PICK l : l = Len(open)
    OBVIOUS
  <2>2. l \in DOMAIN open /\ \A i \in DOMAIN open : i < l \/ i = l
    BY <1>3, <1>7, <2>1
  <2>3. \A i \in DOMAIN open : i < l => at[open[i]] < at[open[l]]
    BY <1>4, <2>2 DEF Numbered
  <2>4. \A o \in S : o <= at[open[l]]
    BY <1>2, <1>3, <1>4, <2>2, <2>3
  <2>5. at[open[l]] \in S
    BY <1>2, <2>2
  <2> QED
    BY <1>1, <1>4, <1>5, <2>1, <2>2, <2>4, <2>5, MaxIs, EnclosingIs
<1> QED
  BY <1>6, <1>7

\* A text goes on: what was said of its positions still holds.
LEMMA StaysSaid ==
  ASSUME NEW text \in Seq(Call), Nested(text), NEW c \in Call
  PROVE  LET more == Append(text, c) IN
         /\ \A i \in DOMAIN text : Enclosing(more, i) = Enclosing(text, i) /\ KeyOf(more, i) = KeyOf(text, i)
         /\ \A i \in DOMAIN text :
              LET e == Enclosing(more, i) IN
              /\ e \in 0 .. i - 1
              /\ IsValue(more[i]) /\ e # 0 /\ more[e].method = "StartDict" =>
                   i - 1 \in DOMAIN more /\ more[i - 1].method = "Key" /\ Enclosing(more, i - 1) = e
<1>1. PICK more : more = Append(text, c)
  OBVIOUS
<1>2. /\ Len(text) \in Nat /\ DOMAIN text = 1 .. Len(text) /\ DOMAIN text \subseteq DOMAIN more
      /\ \A i \in DOMAIN text : more[i] = text[i]
  BY <1>1, Longer
<1>3. \A i \in DOMAIN text : Enclosing(more, i) = Enclosing(text, i)
  <2>1. \A i \in DOMAIN text : i \in 1 .. Len(text) + 1
    BY <1>2
  <2> QED
    BY <1>1, <2>1, AroundStays
<1>4. ASSUME NEW i \in DOMAIN text, NEW e, e = Enclosing(text, i), e # 0
      PROVE  /\ e \in DOMAIN text /\ more[e] = text[e]
             /\ i - 1 \in DOMAIN text /\ more[i - 1] = text[i - 1]
  <2>1. e \in 0 .. i - 1
    BY <1>4 DEF Nested
  <2>2. e \in DOMAIN text /\ i - 1 \in DOMAIN text
    BY <1>2, <1>4, <2>1
  <2> QED
    BY <1>2, <2>2
<1>5. \A i \in DOMAIN text : KeyOf(more, i) = KeyOf(text, i)
  BY <1>3, <1>4 DEF KeyOf
<1>6. ASSUME NEW i \in DOMAIN text, NEW e, e = Enclosing(more, i)
      PROVE  /\ e \in 0 .. i - 1
             /\ IsValue(more[i]) /\ e # 0 /\ more[e].method = "StartDict" =>
                  i - 1 \in DOMAIN more /\ more[i - 1].method = "Key" /\ Enclosing(more, i - 1) = e
  <2>1. e = Enclosing(text, i) /\ more[i] = text[i]
    BY <1>2, <1>3, <1>6
  <2>2. e \in 0 .. i - 1
    BY <2>1 DEF Nested
  <2>3. ASSUME IsValue(more[i]), e # 0, more[e].method = "StartDict"
        PROVE  i - 1 \in DOMAIN more /\ more[i - 1].method = "Key" /\ Enclosing(more, i - 1) = e
    <3>1. more[e] = text[e] /\ i - 1 \in DOMAIN text /\ more[i - 1] = text[i - 1]
      BY <1>4, <2>1, <2>3
    <3>2. text[i - 1].method = "Key" /\ Enclosing(text, i - 1) = e
      BY <2>1, <2>3, <3>1 DEF Nested
    <3> QED
      BY <1>2, <1>3, <3>1, <3>2
  <2> QED
    BY <2>2, <2>3
<1> QED
  BY <1>1, <1>3, <1>5, <1>6

\* Of keys that are distinct, those before are.
LEMMA DistinctBefore ==
  ASSUME NEW text \in Seq(Call), NEW c \in Call, KeysDistinct(Append(text, c))
  PROVE  KeysDistinct(text)
<1>1. PICK more : more = Append(text, c)
  OBVIOUS
<1>2. /\ Len(text) \in Nat /\ DOMAIN text = 1 .. Len(text) /\ DOMAIN text \subseteq DOMAIN more
      /\ \A i \in DOMAIN text : more[i] = text[i]
  BY <1>1, Longer
<1>3. \A i \in DOMAIN text : Enclosing(more, i) = Enclosing(text, i)
  <2>1. \A i \in DOMAIN text : i \in 1 .. Len(text) + 1
    BY <1>2
  <2> QED
    BY <1>1, <2>1, AroundStays
<1>4. KeysDistinct(more)
  BY <1>1
<1> QED
  BY <1>2, <1>3, <1>4 DEF KeysDistinct

\* The contexts that offer methods to a chain of calls are right about the
\* container at hand and about the key.
ContextFits ==
    /\ context = "KeyItem" => key # NoKey
    /\ context \in {"KeyValue", "DictItem"} => TopIs("dict") /\ key = NoKey
    /\ context = "ArrayItem" => TopIs("array")

\* The builder is where its calls have led it.
Follows(at) ==
    Numbered(at, calls, nodes) /\ Stacked(at, calls, stack) /\ Itemised(at, calls, nodes)

Told ==
    /\ nodes = <<>> => calls = <<>>
    /\ Waiting(calls, key) /\ Nested(calls) /\ ContextFits
    /\ \E at : Follows(at)

\* It is there as long as no dictionary is given a key again.
CallsInv == KeysDistinct(calls) => Told

\* What is no value leaves the numbers of the values alone.
LEMMA NumberedStays ==
  ASSUME NEW text \in Seq(Call), NEW c \in Call, ~IsValue(c),
         NEW at, NEW doc, Numbered(at, text, doc)
  PROVE  Numbered(at, Append(text, c), doc)
<1>1. PICK more : more = Append(text, c)
  OBVIOUS
<1>2. /\ DOMAIN more = DOMAIN text \cup {Len(text) + 1} /\ more[Len(text) + 1] = c
      /\ \A i \in DOMAIN text : more[i] = text[i]
  BY <1>1, Longer
<1> QED
  BY <1>1, <1>2 DEF Numbered

\* Any call leaves the items there are alone.
LEMMA ItemisedStays ==
  ASSUME NEW text \in Seq(Call), Nested(text), NEW c \in Call,
         NEW at, NEW doc, Numbered(at, text, doc), Itemised(at, text, doc)
  PROVE  Itemised(at, Append(text, c), doc)
<1>1. PICK more : more = Append(text, c)
  OBVIOUS
<1>2. \A i \in DOMAIN text : Enclosing(more, i) = Enclosing(text, i) /\ KeyOf(more, i) = KeyOf(text, i)
  BY <1>1, StaysSaid
<1>3. \A n \in DOMAIN doc : Enclosing(more, at[n]) = Enclosing(text, at[n]) /\ KeyOf(more, at[n]) = KeyOf(text, at[n])
  BY <1>2 DEF Numbered
<1> QED
  BY <1>1, <1>3 DEF Itemised

\* A key stands in the container that the next call stands in.
LEMMA KeyIsBeside ==
  ASSUME NEW text \in Seq(Call), text # <<>>, text[Len(text)].method = "Key"
  PROVE  /\ Len(text) \in DOMAIN text
         /\ Enclosing(text, Len(text)) = Enclosing(text, Len(text) + 1)
<1>1. Len(text) \in DOMAIN text
  OBVIOUS
<1>2. ~IsOpening(text[Len(text)]) /\ ~IsClosing(text[Len(text)])
  BY DEF IsOpening, IsClosing
<1>3. Around(text, Len(text) + 1) = Around(text, Len(text))
  BY <1>1, <1>2, AroundNext
<1> QED
  BY <1>1, <1>3, EnclosingIs

\* A text stays nested if a value in a dictionary comes after a key.
LEMMA NestedStays ==
  ASSUME NEW text \in Seq(Call), Nested(text), NEW c \in Call,
         NEW e \in 0 .. Len(text), e = Enclosing(text, Len(text) + 1),
         IsValue(c) /\ e # 0 /\ text[e].method = "StartDict" =>
             text # <<>> /\ text[Len(text)].method = "Key"
  PROVE  Nested(Append(text, c))
<1>1. PICK more : more = Append(text, c)
  OBVIOUS
<1>2. PICK l \in Nat : l = Len(text)
  OBVIOUS
<1>3. /\ DOMAIN text = 1 .. l /\ DOMAIN more = DOMAIN text \cup {l + 1} /\ more[l + 1] = c
      /\ \A i \in DOMAIN text : more[i] = text[i]
  BY <1>1, <1>2, Longer
<1>4. Enclosing(more, l + 1) = e /\ \A i \in DOMAIN text : Enclosing(more, i) = Enclosing(text, i)
  <2>1. l + 1 \in 1 .. Len(text) + 1 /\ \A i \in DOMAIN text : i \in 1 .. Len(text) + 1
    BY <1>2, <1>3
  <2> QED
    BY <1>1, <1>2, <2>1, AroundStays
<1>5. (l + 1) - 1 = l /\ e \in 0 .. (l + 1) - 1 /\ (e # 0 => e \in DOMAIN text)
  BY <1>2, <1>3
<1>6. ASSUME IsValue(c), e # 0, more[e].method = "StartDict"
      PROVE  l \in DOMAIN more /\ more[l].method = "Key" /\ Enclosing(more, l) = e
  <2>1. text # <<>> /\ text[l].method = "Key"
    BY <1>2, <1>3, <1>5, <1>6
  <2>2. l \in DOMAIN text /\ Enclosing(text, l) = e
    BY <1>2, <2>1, KeyIsBeside
  <2> QED
    BY <1>3, <1>4, <2>1, <2>2
<1>7. \A i \in DOMAIN text :
        LET f == Enclosing(more, i) IN
        /\ f \in 0 .. i - 1
        /\ IsValue(more[i]) /\ f # 0 /\ more[f].method = "StartDict" =>
             i - 1 \in DOMAIN more /\ more[i - 1].method = "Key" /\ Enclosing(more, i - 1) = f
  BY <1>1, StaysSaid
<1>8. LET f == Enclosing(more, l + 1) IN
      /\ f \in 0 .. (l + 1) - 1
      /\ IsValue(more[l + 1]) /\ f # 0 /\ more[f].method = "StartDict" =>
           (l + 1) - 1 \in DOMAIN more /\ more[(l + 1) - 1].method = "Key" /\ Enclosing(more, (l + 1) - 1) = f
  BY <1>3, <1>4, <1>5, <1>6
<1> QED
  BY <1>1, <1>3, <1>7, <1>8 DEF Nested

\* A key opens and closes nothing.
LEMMA StackedKey ==
  ASSUME NEW text \in Seq(Call), NEW c \in SetKey, NEW doc, NEW at, Numbered(at, text, doc),
         NEW open \in Seq(DOMAIN doc), Stacked(at, text, open)
  PROVE  Stacked(at, Append(text, c), open)
<1>1. PICK more : more = Append(text, c)
  OBVIOUS
<1>2. PICK l \in Nat : l = Len(text)
  OBVIOUS
<1>3. c \in Call /\ ~IsOpening(c) /\ ~IsClosing(c)
  <2>1. c \in Call
    BY DEF Call
  <2> QED
    BY <2>1, CallKinds
<1>4. /\ more \in Seq(Call) /\ Len(more) = l + 1 /\ DOMAIN text = 1 .. l
      /\ DOMAIN more = DOMAIN text \cup {l + 1} /\ more[l + 1] = c
  BY <1>1, <1>2, <1>3, Longer
<1>5. l \in 0 .. Len(text) /\ \A i \in DOMAIN text : i \in 0 .. Len(text)
  BY <1>2
<1>6. Depth(more, l) = Depth(text, l) /\ \A i \in DOMAIN text : Depth(more, i) = Depth(text, i)
  BY <1>1, <1>3, <1>5, DepthStays
<1>7. Depth(more, l + 1) = Depth(more, l)
  BY <1>3, <1>4, DepthNext
<1>8. Around(more, (l + 1) + 1) = Around(more, l + 1)
  BY <1>3, <1>4, AroundNext
<1>9. Around(more, l + 1) = Around(text, l + 1)
  <2>1. l + 1 \in 1 .. Len(text) + 1
    BY <1>2
  <2> QED
    BY <1>1, <1>3, <2>1, AroundStays
<1>10. \A i \in DOMAIN open : open[i] \in DOMAIN doc /\ at[open[i]] \in DOMAIN text
  BY DEF Numbered
<1> QED
  BY <1>1, <1>2, <1>4, <1>6, <1>7, <1>8, <1>9, <1>10 DEF Stacked

\* A closing bracket closes the container on top.
LEMMA StackedEnd ==
  ASSUME NEW text \in Seq(Call), NEW c \in Close, NEW doc, NEW at, Numbered(at, text, doc),
         NEW open \in Seq(DOMAIN doc), open # <<>>, Stacked(at, text, open)
  PROVE  Stacked(at, Append(text, c), SubSeq(open, 1, Len(open) - 1))
<1>1. PICK more : more = Append(text, c)
  OBVIOUS
<1>2. PICK l \in Nat : l = Len(text)
  OBVIOUS
<1>3. c \in Call /\ ~IsOpening(c) /\ IsClosing(c)
  <2>1. c \in Call
    BY DEF Call
  <2> QED
    BY <2>1, CallKinds
<1>4. /\ more \in Seq(Call) /\ Len(more) = l + 1 /\ DOMAIN text = 1 .. l
      /\ DOMAIN more = DOMAIN text \cup {l + 1} /\ more[l + 1] = c
  BY <1>1, <1>2, <1>3, Longer
<1>5. l \in 0 .. Len(text) /\ \A i \in DOMAIN text : i \in 0 .. Len(text)
  BY <1>2
<1>6. Depth(more, l) = Depth(text, l) /\ \A i \in DOMAIN text : Depth(more, i) = Depth(text, i)
  BY <1>1, <1>3, <1>5, DepthStays
<1>7. Depth(more, l + 1) = Depth(more, l) - 1
  BY <1>3, <1>4, DepthNext
<1>8. Around(more, (l + 1) + 1) = {o \in Around(more, l + 1) : Depth(more, o) <= Depth(more, l + 1)}
  BY <1>3, <1>4, AroundNext
<1>9. Around(more, l + 1) = Around(text, l + 1)
  <2>1. l + 1 \in 1 .. Len(text) + 1
    BY <1>2
  <2> QED
    BY <1>1, <1>3, <2>1, AroundStays
<1>10. \A i \in DOMAIN open : open[i] \in DOMAIN doc /\ at[open[i]] \in DOMAIN text
  BY DEF Numbered
<1>11. PICK d \in Nat : d + 1 = Len(open)
  <2>1. Len(open) \in Nat /\ Len(open) # 0
    BY EmptySeq
  <2>2. Len(open) - 1 \in Nat /\ (Len(open) - 1) + 1 = Len(open)
    BY <2>1
  <2> QED
    BY <2>2
<1>0. PICK left : left = SubSeq(open, 1, Len(open) - 1)
  OBVIOUS
<1>12. /\ Len(left) = d /\ DOMAIN left = 1 .. d /\ DOMAIN open = 1 .. d + 1
       /\ \A i \in DOMAIN left : left[i] = open[i]
  <2>1. /\ Len(left) = Len(open) - 1 /\ DOMAIN left = 1 .. Len(left)
        /\ \A i \in DOMAIN left : i \in DOMAIN open /\ left[i] = open[i]
    BY <1>0, Popped
  <2> QED
    BY <1>11, <2>1
<1>13. Depth(more, l + 1) = d
  <2>1. Depth(text, l) = d + 1
    BY <1>2, <1>11 DEF Stacked
  <2> QED
    BY <1>6, <1>7, <2>1
<1>14. \A i \in DOMAIN open : Depth(more, at[open[i]]) = i
  BY <1>6, <1>10 DEF Stacked
<1>15. \A o : o \in Around(more, (l + 1) + 1) <=> \E i \in DOMAIN open : o = at[open[i]] /\ i <= d
  BY <1>2, <1>8, <1>9, <1>13, <1>14 DEF Stacked
<1>16. \A i : i \in DOMAIN open /\ i <= d <=> i \in DOMAIN left
  BY <1>12
<1>17. \A o : o \in Around(more, (l + 1) + 1) <=> \E i \in DOMAIN left : o = at[left[i]]
  BY <1>12, <1>15, <1>16
<1>18. \A i \in DOMAIN left : Depth(more, at[left[i]]) = i
  BY <1>12, <1>14, <1>16
<1>19. Depth(more, Len(more)) = Len(left)
  BY <1>4, <1>12, <1>13
<1>20. \A o : o \in Around(more, Len(more) + 1) <=> \E i \in DOMAIN left : o = at[left[i]]
  BY <1>4, <1>17
<1> QED
  BY <1>0, <1>1, <1>18, <1>19, <1>20 DEF Stacked

\* A value that opens a container is the new top of the stack.
LEMMA StackedValue ==
  ASSUME NEW text \in Seq(Call), NEW c \in Put,
         NEW doc, NEW d \in Nat, DOMAIN doc = 1 .. d,
         NEW at, Numbered(at, text, doc),
         NEW then, \A n \in DOMAIN doc : then[n] = at[n], then[d + 1] = Len(text) + 1,
         NEW open \in Seq(DOMAIN doc), Stacked(at, text, open)
  PROVE  Stacked(then, Append(text, c), IF IsOpening(c) THEN Append(open, d + 1) ELSE open)
<1>1. PICK more : more = Append(text, c)
  OBVIOUS
<1>2. PICK l \in Nat : l = Len(text)
  OBVIOUS
<1>3. c \in Call /\ ~IsClosing(c)
  <2>1. c \in Call
    BY DEF Call
  <2> QED
    BY <2>1, CallKinds
<1>4. /\ more \in Seq(Call) /\ Len(more) = l + 1 /\ DOMAIN text = 1 .. l
      /\ DOMAIN more = DOMAIN text \cup {l + 1} /\ more[l + 1] = c
  BY <1>1, <1>2, <1>3, Longer
<1>5. l \in 0 .. Len(text) /\ \A i \in DOMAIN text : i \in 0 .. Len(text)
  BY <1>2
<1>6. Depth(more, l) = Depth(text, l) /\ \A i \in DOMAIN text : Depth(more, i) = Depth(text, i)
  BY <1>1, <1>3, <1>5, DepthStays
<1>7. Around(more, l + 1) = Around(text, l + 1)
  <2>1. l + 1 \in 1 .. Len(text) + 1
    BY <1>2
  <2> QED
    BY <1>1, <1>3, <2>1, AroundStays
<1>8. \A i \in DOMAIN open : /\ open[i] \in DOMAIN doc /\ at[open[i]] \in DOMAIN text
                             /\ then[open[i]] = at[open[i]]
  BY DEF Numbered
<1>9. \A i \in DOMAIN open : Depth(more, then[open[i]]) = i
  BY <1>6, <1>8 DEF Stacked
<1>10. \A o : o \in Around(more, l + 1) <=> \E i \in DOMAIN open : o = then[open[i]]
  <2>1. \A o : o \in Around(text, l + 1) <=> \E i \in DOMAIN open : o = at[open[i]]
    BY <1>2 DEF Stacked
  <2>2. ASSUME NEW o, o \in Around(more, l + 1) PROVE \E i \in DOMAIN open : o = then[open[i]]
    BY <1>7, <1>8, <2>1, <2>2
  <2>3. ASSUME NEW i \in DOMAIN open PROVE then[open[i]] \in Around(more, l + 1)
    BY <1>7, <1>8, <2>1
  <2> QED
    BY <2>2, <2>3
<1>11. Depth(more, l) = Len(open) /\ Len(open) \in Nat /\ DOMAIN open = 1 .. Len(open)
  BY <1>2, <1>6 DEF Stacked
<1>12. CASE IsOpening(c)
  <2>1. PICK opened : opened = Append(open, d + 1)
    OBVIOUS
  <2>2. PICK h \in Nat : h = Len(open)
    BY <1>11
  <2>3. d + 1 \in 1 .. d + 1 /\ open \in Seq(1 .. d + 1)
    OBVIOUS
  <2>4. /\ Len(opened) = h + 1 /\ DOMAIN opened = DOMAIN open \cup {h + 1}
        /\ opened[h + 1] = d + 1 /\ \A i \in DOMAIN open : opened[i] = open[i]
    BY <2>1, <2>2, <2>3
  <2>5. Depth(more, l + 1) = h + 1
    BY <1>3, <1>4, <1>11, <1>12, <2>2, DepthNext
  <2>6. Around(more, (l + 1) + 1) = Around(more, l + 1) \cup {l + 1}
    BY <1>3, <1>4, <1>12, AroundNext
  <2>7. then[opened[h + 1]] = l + 1
    BY <1>2, <2>4
  <2>8. Depth(more, Len(more)) = Len(opened)
    BY <1>4, <2>4, <2>5
  <2>9. \A i \in DOMAIN opened : Depth(more, then[opened[i]]) = i
    BY <1>9, <2>4, <2>5, <2>7
  <2>10. \A o : o \in Around(more, Len(more) + 1) <=> \E i \in DOMAIN opened : o = then[opened[i]]
    <3>1. ASSUME NEW o, o \in Around(more, Len(more) + 1)
          PROVE  \E i \in DOMAIN opened : o = then[opened[i]]
      <4>1. CASE o = l + 1
        BY <2>4, <2>7, <4>1
      <4>2. CASE o \in Around(more, l + 1)
        BY <1>10, <2>4, <4>2
      <4> QED
        BY <1>4, <2>6, <3>1, <4>1, <4>2
    <3>2. ASSUME NEW i \in DOMAIN opened
          PROVE  then[opened[i]] \in Around(more, Len(more) + 1)
      <4>1. CASE i = h + 1
        BY <1>4, <2>6, <2>7, <4>1
      <4>2. CASE i \in DOMAIN open
        BY <1>4, <1>10, <2>4, <2>6, <4>2
      <4> QED
        BY <2>4, <4>1, <4>2
    <3> QED
      BY <3>1, <3>2
  <2> QED
    BY <1>1, <1>12, <2>1, <2>8, <2>9, <2>10 DEF Stacked
<1>13. CASE ~IsOpening(c)
  <2>1. Depth(more, l + 1) = Depth(more, l)
    BY <1>3, <1>4, <1>13, DepthNext
  <2>2. Around(more, (l + 1) + 1) = Around(more, l + 1)
    BY <1>3, <1>4, <1>13, AroundNext
  <2> QED
    BY <1>1, <1>4, <1>9, <1>10, <1>11, <1>13, <2>1, <2>2 DEF Stacked
<1> QED
  BY <1>12, <1>13

\* A value on its own is nobody's item and has none.
LEMMA ItemisedRoot ==
  ASSUME NEW c \in Put, Nested(<<c>>), NEW at, at[1] = 1
  PROVE  Itemised(at, <<c>>, <<NewNode(c.kind)>>)
<1>1. PICK text, doc : text = <<c>> /\ doc = <<NewNode(c.kind)>>
  OBVIOUS
<1>2. DOMAIN text = {1} /\ DOMAIN doc = {1} /\ doc[1].items = <<>>
  BY <1>1 DEF NewNode
<1>3. Enclosing(text, 1) # 1
  <2>1. Enclosing(text, 1) \in 0 .. 1 - 1
    BY <1>1, <1>2 DEF Nested
  <2> QED
    BY <2>1
<1>4. DOMAIN doc[1].items = {}
  BY <1>2
<1> QED
  BY <1>1, <1>2, <1>3, <1>4 DEF Itemised

\* A value in a container is its last item.
LEMMA ItemisedValue ==
  ASSUME NEW text \in Seq(Call), NEW c \in Put, Nested(text), Nested(Append(text, c)),
         NEW doc, NEW made, NEW d \in Nat, DOMAIN doc = 1 .. d, DOMAIN made = 1 .. d + 1,
         NEW at, Numbered(at, text, doc), Itemised(at, text, doc),
         NEW then, \A n \in DOMAIN doc : then[n] = at[n], then[d + 1] = Len(text) + 1,
         NEW t \in DOMAIN doc, Enclosing(text, Len(text) + 1) = at[t],
         NEW k, k = KeyOf(Append(text, c), Len(text) + 1),
         NEW T, doc[t].items \in Seq(T), Item(k, d + 1) \in T,
         \A n \in DOMAIN doc : n # t => made[n].items = doc[n].items,
         made[t].items = Append(doc[t].items, Item(k, d + 1)), made[d + 1].items = <<>>
  PROVE  Itemised(then, Append(text, c), made)
<1>1. PICK more : more = Append(text, c)
  OBVIOUS
<1>2. PICK l \in Nat : l = Len(text)
  OBVIOUS
<1>3. c \in Call
  BY DEF Call
<1>4. /\ DOMAIN text = 1 .. l /\ DOMAIN more = DOMAIN text \cup {l + 1} /\ more[l + 1] = c
      /\ \A i \in DOMAIN text : more[i] = text[i]
  BY <1>1, <1>2, <1>3, Longer
<1>5. \A n \in DOMAIN made : n \in DOMAIN doc \/ n = d + 1
  OBVIOUS
<1>6. \A n \in DOMAIN doc : n \in DOMAIN made /\ n < d + 1 /\ n # d + 1
  OBVIOUS
<1>7. \A n \in DOMAIN doc : then[n] = at[n] /\ at[n] \in DOMAIN text /\ at[n] # l + 1
  BY <1>4 DEF Numbered
<1>8. \A m, n \in DOMAIN doc : at[m] = at[n] => m = n
  <2> SUFFICES ASSUME NEW m \in DOMAIN doc, NEW n \in DOMAIN doc, at[m] = at[n] PROVE m = n
    OBVIOUS
  <2>1. m < n \/ m = n \/ n < m
    OBVIOUS
  <2>2. at[m] \in Nat /\ at[n] \in Nat
    BY <1>4, <1>7
  <2> QED
    BY <2>1, <2>2 DEF Numbered
<1>9. Itemised(at, more, doc)
  BY <1>1, <1>3, ItemisedStays
<1>10. Enclosing(more, l + 1) = at[t] /\ k = KeyOf(more, l + 1)
  <2>1. l + 1 \in 1 .. Len(text) + 1
    BY <1>2
  <2> QED
    BY <1>1, <1>2, <1>3, <2>1, AroundStays
<1>11. \A m \in DOMAIN made : Enclosing(more, then[m]) \in 0 .. l
  <2> SUFFICES ASSUME NEW m \in DOMAIN made PROVE Enclosing(more, then[m]) \in 0 .. l
    OBVIOUS
  <2>1. PICK i : i = then[m]
    OBVIOUS
  <2>2. i \in DOMAIN more /\ i \in Nat /\ i <= l + 1
    BY <1>2, <1>4, <1>5, <1>7, <2>1
  <2>3. Enclosing(more, i) \in 0 .. i - 1
    BY <1>1, <2>2 DEF Nested
  <2> QED
    BY <2>1, <2>2, <2>3
<1>12. ASSUME NEW n \in DOMAIN made
       PROVE  LET items == made[n].items IN
              /\ \A i, j \in DOMAIN items : i < j => items[i].node < items[j].node
              /\ \A i \in DOMAIN items :
                   /\ items[i].node \in DOMAIN made
                   /\ Enclosing(more, then[items[i].node]) = then[n]
                   /\ items[i].key = KeyOf(more, then[items[i].node])
              /\ \A m \in DOMAIN made : Enclosing(more, then[m]) = then[n] =>
                   \E i \in DOMAIN items : items[i].node = m
  <2>0. PICK items : items = made[n].items
    OBVIOUS
  <2>1. CASE n = d + 1
    <3>1. DOMAIN items = {}
      BY <2>0, <2>1
    <3>2. then[n] = l + 1
      BY <1>2, <2>1
    <3>3. \A m \in DOMAIN made : Enclosing(more, then[m]) # then[n]
      BY <1>11, <3>2
    <3> QED
      BY <2>0, <3>1, <3>3
  <2>2. CASE n \in DOMAIN doc /\ n # t
    <3>1. items = doc[n].items /\ then[n] = at[n] /\ at[n] # at[t]
      BY <1>7, <1>8, <2>0, <2>2
    <3>2. /\ \A i, j \in DOMAIN items : i < j => items[i].node < items[j].node
          /\ \A i \in DOMAIN items :
               /\ items[i].node \in DOMAIN doc
               /\ Enclosing(more, at[items[i].node]) = at[n]
               /\ items[i].key = KeyOf(more, at[items[i].node])
          /\ \A m \in DOMAIN doc : Enclosing(more, at[m]) = at[n] => \E i \in DOMAIN items : items[i].node = m
      BY <1>9, <2>2, <3>1 DEF Itemised
    <3>3. Enclosing(more, then[d + 1]) # then[n]
      BY <1>2, <1>10, <3>1
    <3>4. \A i \in DOMAIN items :
            /\ items[i].node \in DOMAIN made
            /\ Enclosing(more, then[items[i].node]) = then[n]
            /\ items[i].key = KeyOf(more, then[items[i].node])
      BY <1>6, <1>7, <3>1, <3>2
    <3>5. ASSUME NEW m \in DOMAIN made, Enclosing(more, then[m]) = then[n]
          PROVE  \E i \in DOMAIN items : items[i].node = m
      <4>1. m \in DOMAIN doc
        BY <1>5, <3>3, <3>5
      <4> QED
        BY <1>7, <3>1, <3>2, <3>5, <4>1
    <3> QED
      BY <2>0, <3>2, <3>4, <3>5
  <2>3. CASE n = t
    <3>1. PICK old : old = doc[t].items
      OBVIOUS
    <3>2. PICK h \in Nat : h = Len(old)
      BY <3>1
    <3>3. PICK new : new = Item(k, d + 1)
      OBVIOUS
    <3>4. /\ items = Append(old, new) /\ old \in Seq(T) /\ new \in T
      BY <2>0, <2>3, <3>1, <3>3
    <3>5. /\ DOMAIN old = 1 .. h /\ DOMAIN items = DOMAIN old \cup {h + 1} /\ h + 1 \notin DOMAIN old
          /\ items[h + 1] = new /\ \A i \in DOMAIN old : items[i] = old[i]
      BY <3>2, <3>4
    <3>6. new.node = d + 1 /\ new.key = k
      BY <3>3 DEF Item
    <3>7. /\ \A i, j \in DOMAIN old : i < j => old[i].node < old[j].node
          /\ \A i \in DOMAIN old :
               /\ old[i].node \in DOMAIN doc
               /\ Enclosing(more, at[old[i].node]) = at[t]
               /\ old[i].key = KeyOf(more, at[old[i].node])
          /\ \A m \in DOMAIN doc : Enclosing(more, at[m]) = at[t] => \E i \in DOMAIN old : old[i].node = m
      BY <1>9, <3>1 DEF Itemised
    <3>8. then[t] = at[t] /\ then[d + 1] = l + 1
      BY <1>2, <1>7
    <3>9. \A i \in DOMAIN old : i < h + 1 /\ ~(h + 1 < i) /\ old[i].node < d + 1
      BY <1>6, <3>5, <3>7
    <3>10. \A i, j \in DOMAIN items : i < j => items[i].node < items[j].node
      BY <3>5, <3>6, <3>7, <3>9
    <3>11. \A i \in DOMAIN items :
             /\ items[i].node \in DOMAIN made
             /\ Enclosing(more, then[items[i].node]) = then[n]
             /\ items[i].key = KeyOf(more, then[items[i].node])
      <4>1. \A i \in DOMAIN old :
             /\ items[i].node \in DOMAIN made
             /\ Enclosing(more, then[items[i].node]) = then[n]
             /\ items[i].key = KeyOf(more, then[items[i].node])
        BY <1>6, <1>7, <2>3, <3>5, <3>7
      <4>2. /\ items[h + 1].node \in DOMAIN made
            /\ Enclosing(more, then[items[h + 1].node]) = then[n]
            /\ items[h + 1].key = KeyOf(more, then[items[h + 1].node])
        BY <1>10, <2>3, <3>5, <3>6, <3>8
      <4> QED
        BY <3>5, <4>1, <4>2
    <3>12. \A m \in DOMAIN made : Enclosing(more, then[m]) = then[n] => \E i \in DOMAIN items : items[i].node = m
      <4> SUFFICES ASSUME NEW m \in DOMAIN made, Enclosing(more, then[m]) = then[n]
                   PROVE  \E i \in DOMAIN items : items[i].node = m
        OBVIOUS
      <4>1. CASE m = d + 1
        BY <3>5, <3>6, <4>1
      <4>2. CASE m \in DOMAIN doc
        <5>1. Enclosing(more, at[m]) = at[t]
          BY <1>7, <2>3, <4>2
        <5>2. PICK i \in DOMAIN old : old[i].node = m
          BY <3>7, <4>2, <5>1
        <5> QED
          BY <3>5, <5>2
      <4> QED
        BY <1>5, <4>1, <4>2
    <3> QED
      BY <2>0, <3>10, <3>11, <3>12
  <2> QED
    BY <1>5, <2>1, <2>2, <2>3
<1>13. Itemised(then, more, made)
  BY <1>12 DEF Itemised
<1> QED
  BY <1>1, <1>13

\* The call that opened the container on top.
LEMMA TopCall ==
  ASSUME BuilderInv, NEW at, Follows(at), stack # <<>>
  PROVE  /\ Enclosing(calls, Len(calls) + 1) = at[top]
         /\ at[top] \in DOMAIN calls /\ at[top] \in 1 .. Len(calls) /\ at[top] # 0
         /\ calls[at[top]].method = "StartDict" <=> TopIs("dict")
         /\ calls[at[top]].method = "StartArray" <=> TopIs("array")
<1>1. /\ calls \in Seq(Call) /\ stack \in Seq(DOMAIN nodes)
      /\ \A i, j \in DOMAIN stack : i < j => stack[i] < stack[j]
  BY DEF BuilderInv, TypeOK, StackAscends
<1>2. Numbered(at, calls, nodes) /\ Stacked(at, calls, stack)
  BY DEF Follows
<1>3. Enclosing(calls, Len(calls) + 1) = at[top] /\ at[top] \in DOMAIN calls
  BY <1>1, <1>2, TopEncloses DEF top
<1>4. top \in DOMAIN nodes
  BY TopIsNode DEF BuilderInv
<1>5. PICK c \in Call : c = calls[at[top]]
  BY <1>1, <1>3
<1>6. IsValue(c) /\ c.kind = nodes[top].kind
  BY <1>2, <1>4, <1>5 DEF Numbered
<1>7. /\ c.method = "StartDict" <=> c \in Put /\ c.kind = "dict"
      /\ c.method = "StartArray" <=> c \in Put /\ c.kind = "array"
      /\ c \in Put
  BY <1>6, CallKinds
<1>8. at[top] \in 1 .. Len(calls) /\ at[top] # 0
  BY <1>1, <1>3
<1> QED
  BY <1>3, <1>5, <1>6, <1>7, <1>8 DEF TopIs

\* A document under construction is not empty.
LEMMA TopIsThere ==
  ASSUME BuilderInv, stack # <<>>
  PROVE  nodes # <<>>
<1>1. top \in DOMAIN nodes
  BY TopIsNode DEF BuilderInv
<1> QED
  BY <1>1

\* In a dictionary that is not given a key again the waiting key is new.
LEMMA KeyIsNew ==
  ASSUME BuilderInv, KeysDistinct(calls), Waiting(calls, key), Nested(calls),
         NEW at, Follows(at), TopIs("dict"), key # NoKey
  PROVE  ~HasKey(top, key)
<1> SUFFICES ASSUME HasKey(top, key) PROVE FALSE
  OBVIOUS
<1>1. stack # <<>> /\ calls \in Seq(Call) /\ top \in DOMAIN nodes
  BY TopIsNode DEF TopIs, BuilderInv, TypeOK
<1>2. PICK e : e = at[top]
  OBVIOUS
<1>3. /\ Enclosing(calls, Len(calls) + 1) = e /\ e # 0 /\ e \in DOMAIN calls
      /\ calls[e].method = "StartDict"
  BY <1>1, <1>2, TopCall
<1>4. PICK i \in DOMAIN nodes[top].items : nodes[top].items[i].key = key
  BY DEF HasKey
<1>5. PICK j : j = at[nodes[top].items[i].node]
  OBVIOUS
<1>6. Enclosing(calls, j) = e /\ KeyOf(calls, j) = key /\ nodes[top].items[i].node \in DOMAIN nodes
  BY <1>1, <1>2, <1>4, <1>5 DEF Follows, Itemised
<1>7. j \in DOMAIN calls /\ IsValue(calls[j])
  BY <1>5, <1>6 DEF Follows, Numbered
<1>8. j - 1 \in DOMAIN calls /\ calls[j - 1].method = "Key" /\ Enclosing(calls, j - 1) = e
  BY <1>3, <1>6, <1>7 DEF Nested
<1>9. calls[j - 1].key = key
  BY <1>3, <1>6 DEF KeyOf
<1>10. PICK l \in Nat : l = Len(calls)
  BY <1>1
<1>11. calls # <<>> /\ calls[l] = [method |-> "Key", key |-> key]
  BY <1>10 DEF Waiting
<1>12. calls[l].method = "Key"
  BY <1>11
<1>13. l \in DOMAIN calls /\ Enclosing(calls, l) = e
  BY <1>1, <1>3, <1>10, <1>11, <1>12, KeyIsBeside
<1>14. calls[j - 1] = [method |-> "Key", key |-> key]
  <2>1. PICK c \in Call : c = calls[j - 1]
    BY <1>1, <1>8
  <2>2. c.method = "Key" /\ c.key = key
    BY <1>8, <1>9, <2>1
  <2>3. c \in SetKey
    BY <2>2, CallKinds
  <2>4. c = [method |-> "Key", key |-> c.key]
    BY <2>3, CallKinds
  <2> QED
    BY <2>1, <2>2, <2>4
<1>15. j - 1 = l
  BY <1>8, <1>11, <1>12, <1>13, <1>14 DEF KeysDistinct
<1>16. j \in 1 .. l
  BY <1>1, <1>7, <1>10
<1> QED
  BY <1>15, <1>16

\* A value stands under the key that waits for it.
LEMMA KeyIsGiven ==
  ASSUME BuilderInv, Waiting(calls, key), NEW at, Follows(at), stack # <<>>,
         key # NoKey \/ TopIs("array"), NEW c \in Put
  PROVE  /\ KeyOf(Append(calls, c), Len(calls) + 1) = key
         /\ TopIs("dict") => calls # <<>> /\ calls[Len(calls)].method = "Key"
<1>1. PICK more : more = Append(calls, c)
  OBVIOUS
<1>2. calls \in Seq(Call) /\ c \in Call
  BY DEF BuilderInv, TypeOK, Call
<1>3. PICK l \in Nat : l = Len(calls)
  BY <1>2
<1>4. DOMAIN calls = 1 .. l /\ \A i \in DOMAIN calls : more[i] = calls[i]
  BY <1>1, <1>2, <1>3, Longer
<1>5. PICK e : e = at[top]
  OBVIOUS
<1>6. /\ Enclosing(calls, l + 1) = e /\ e # 0 /\ e \in DOMAIN calls
      /\ calls[e].method = "StartDict" <=> TopIs("dict")
  BY <1>3, <1>5, TopCall
<1>7. Enclosing(more, l + 1) = e
  <2>1. l + 1 \in 1 .. Len(calls) + 1
    BY <1>3
  <2> QED
    BY <1>1, <1>2, <1>6, <2>1, AroundStays
<1>8. more[e].method = "StartDict" <=> TopIs("dict")
  BY <1>4, <1>6
<1>9. CASE TopIs("dict")
  <2>1. key # NoKey
    <3>1. ~TopIs("array")
      BY <1>9 DEF TopIs
    <3> QED
      BY <3>1
  <2>2. calls # <<>> /\ calls[l] = [method |-> "Key", key |-> key]
    BY <1>3, <2>1 DEF Waiting
  <2>3. l \in DOMAIN calls
    BY <1>2, <1>3, <2>2, EmptySeq
  <2>4. more[l].key = key /\ (l + 1) - 1 = l
    BY <1>4, <2>2, <2>3
  <2>5. calls[l].method = "Key"
    BY <2>2
  <2> QED
    BY <1>1, <1>3, <1>6, <1>7, <1>8, <1>9, <2>2, <2>4, <2>5 DEF KeyOf
<1>10. CASE ~TopIs("dict")
  <2>1. key = NoKey
    BY <1>10 DEF BuilderInv, TypeOK
  <2> QED
    BY <1>1, <1>3, <1>7, <1>8, <1>10, <2>1 DEF KeyOf
<1> QED
  BY <1>9, <1>10

\* Before the first call the builder is where nothing leads.
LEMMA ToldInit == Init => CallsInv
<1> SUFFICES ASSUME Init PROVE Told
  BY DEF CallsInv
<1>1. nodes = <<>> /\ stack = <<>> /\ key = NoKey /\ context = "Builder" /\ calls = <<>>
  BY DEF Init
<1>2. DOMAIN nodes = {} /\ DOMAIN stack = {} /\ DOMAIN calls = {} /\ Len(stack) = 0 /\ Len(calls) = 0
  BY <1>1
<1>3. Waiting(calls, key) /\ Nested(calls) /\ ContextFits
  BY <1>1, <1>2 DEF Waiting, Nested, ContextFits
<1>4. Depth(calls, 0) = 0
  <2>1. Opened(calls, 0) = {} /\ Closed(calls, 0) = {}
    BY <1>2 DEF Opened, Closed
  <2>2. Cardinality({}) = 0
    BY FS_EmptySet
  <2>3. Depth(calls, 0) = 0 - 0
    BY <2>1, <2>2, DepthIs
  <2> QED
    BY <2>3
<1>5. Around(calls, 0 + 1) = {}
  BY <1>2 DEF Around
<1>6. Follows(<<>>)
  BY <1>2, <1>4, <1>5 DEF Follows, Numbered, Stacked, Itemised
<1> QED
  BY <1>1, <1>3, <1>6 DEF Told

\* A key leads on.
LEMMA ToldKey ==
  ASSUME BuilderInv, Told, NEW on, NEW c \in SetKey, DoKey(on, c)
  PROVE  Told'
<1>1. PICK at : Follows(at)
  BY DEF Told
<1>2. c \in Call /\ c.method = "Key" /\ c = [method |-> "Key", key |-> c.key] /\ c.key \in KeyName
  <2>1. c \in Call
    BY DEF Call
  <2> QED
    BY <2>1, CallKinds
<1>3. /\ nodes' = nodes /\ stack' = stack /\ key' = c.key /\ context' = "KeyItem"
      /\ calls' = Append(calls, c) /\ TopIs("dict")
  BY <1>2 DEF DoKey, Accept, Returns, Fits, FitsKey
<1>4. stack # <<>> /\ nodes # <<>>
  BY <1>3, TopIsThere DEF TopIs
<1>5. calls \in Seq(Call) /\ stack \in Seq(DOMAIN nodes) /\ Nested(calls) /\ ~IsValue(c)
  BY <1>2 DEF BuilderInv, TypeOK, Told, IsValue
<1>6. Numbered(at, calls, nodes) /\ Stacked(at, calls, stack) /\ Itemised(at, calls, nodes)
  BY <1>1 DEF Follows
<1>7. Numbered(at, calls', nodes')
  BY <1>2, <1>3, <1>5, <1>6, NumberedStays
<1>8. Stacked(at, calls', stack')
  BY <1>3, <1>5, <1>6, StackedKey
<1>9. Itemised(at, calls', nodes')
  BY <1>2, <1>3, <1>5, <1>6, ItemisedStays
<1>10. Nested(calls')
  <2>1. PICK e : e = Enclosing(calls, Len(calls) + 1)
    OBVIOUS
  <2>2. e \in 0 .. Len(calls)
    BY <1>1, <1>4, <1>5, <2>1, TopCall
  <2> QED
    BY <1>2, <1>3, <1>5, <2>1, <2>2, NestedStays
<1>11. Waiting(calls', key') /\ key' # NoKey
  <2>1. calls' # <<>> /\ calls'[Len(calls')] = c
    BY <1>2, <1>3, <1>5
  <2>2. c.key # NoKey
    BY <1>2, KeyAssumption
  <2> QED
    BY <1>2, <1>3, <2>1, <2>2 DEF Waiting
<1>12. ContextFits'
  BY <1>3, <1>11 DEF ContextFits
<1>13. Follows(at)'
  BY <1>7, <1>8, <1>9 DEF Follows
<1> QED
  BY <1>3, <1>4, <1>10, <1>11, <1>12, <1>13 DEF Told

\* An end leads on.
LEMMA ToldEnd ==
  ASSUME BuilderInv, Told, NEW on, NEW c \in Close, DoEnd(on, c)
  PROVE  Told'
<1>1. PICK at : Follows(at)
  BY DEF Told
<1>2. c \in Call /\ c.method \in {"EndDict", "EndArray"}
  BY DEF Call, Close
<1>3. /\ nodes' = nodes /\ stack' = SubSeq(stack, 1, Len(stack) - 1) /\ key' = key
      /\ context' = "Builder" /\ calls' = Append(calls, c)
      /\ (TopIs("dict") /\ key = NoKey) \/ TopIs("array")
  BY <1>2 DEF DoEnd, Accept, Returns, Fits, FitsEndDict, FitsEndArray, Pop
<1>4. stack # <<>> /\ nodes # <<>> /\ key = NoKey
  <2>1. stack # <<>>
    BY <1>3 DEF TopIs
  <2>2. key = NoKey
    BY <1>3 DEF TopIs, BuilderInv, TypeOK
  <2> QED
    BY <2>1, <2>2, TopIsThere
<1>5. calls \in Seq(Call) /\ stack \in Seq(DOMAIN nodes) /\ Nested(calls) /\ ~IsValue(c)
  BY <1>2 DEF BuilderInv, TypeOK, Told, IsValue
<1>6. Numbered(at, calls, nodes) /\ Stacked(at, calls, stack) /\ Itemised(at, calls, nodes)
  BY <1>1 DEF Follows
<1>7. Numbered(at, calls', nodes')
  BY <1>2, <1>3, <1>5, <1>6, NumberedStays
<1>8. Stacked(at, calls', stack')
  BY <1>3, <1>4, <1>5, <1>6, StackedEnd
<1>9. Itemised(at, calls', nodes')
  BY <1>2, <1>3, <1>5, <1>6, ItemisedStays
<1>10. Nested(calls')
  <2>1. PICK e : e = Enclosing(calls, Len(calls) + 1)
    OBVIOUS
  <2>2. e \in 0 .. Len(calls)
    BY <1>1, <1>4, <1>5, <2>1, TopCall
  <2> QED
    BY <1>2, <1>3, <1>5, <2>1, <2>2, NestedStays
<1>11. Waiting(calls', key')
  <2>1. calls' # <<>> /\ calls'[Len(calls')] = c
    BY <1>2, <1>3, <1>5
  <2> QED
    BY <1>2, <1>3, <1>4, <2>1 DEF Waiting
<1>12. ContextFits'
  BY <1>3 DEF ContextFits
<1>13. Follows(at)'
  BY <1>7, <1>8, <1>9 DEF Follows
<1> QED
  BY <1>3, <1>4, <1>10, <1>11, <1>12, <1>13 DEF Told

\* A value leads on.
LEMMA ToldValue ==
  ASSUME BuilderInv, BuilderInv', KeysDistinct(calls), Told, NEW on, NEW c \in Put, DoValue(on, c)
  PROVE  Told'
<1>1. PICK at : Follows(at)
  BY DEF Told
<1>2. /\ c \in Call /\ c.kind \in Kind /\ c.method \in {"StartDict", "StartArray", "Value"}
      /\ IsValue(c) /\ (IsOpening(c) <=> c.kind \in {"dict", "array"})
      /\ c.method = "StartDict" <=> c.kind = "dict"
      /\ c.method = "StartArray" <=> c.kind = "array"
      /\ c.method # "Key"
  <2>1. c \in Call /\ c.kind \in Kind /\ c.method \in {"StartDict", "StartArray", "Value"}
    BY DEF Call, Put, Kind
  <2> QED
    BY <2>1, CallKinds
<1>3. /\ calls' = Append(calls, c) /\ key' = NoKey /\ FitsValue /\ Open(c.kind)
      /\ nodes # <<>> => Insert(c.kind)
      /\ nodes = <<>> => nodes' = <<NewNode(c.kind)>>
  BY <1>2 DEF DoValue, Accept, Value, Fits
<1>4. /\ calls \in Seq(Call) /\ stack \in Seq(DOMAIN nodes) /\ Nested(calls)
      /\ nodes \in Seq(Node) /\ nodes' \in Seq(Node) /\ Waiting(calls, key)
  BY DEF BuilderInv, TypeOK, Told
<1>5. Numbered(at, calls, nodes) /\ Stacked(at, calls, stack) /\ Itemised(at, calls, nodes)
  BY <1>1 DEF Follows
<1>6. PICK d \in Nat : d = Len(nodes)
  BY <1>4
<1>7. DOMAIN nodes = 1 .. d
  BY <1>4, <1>6
<1>8. PICK then : then = [n \in 1 .. d + 1 |-> IF n \in DOMAIN nodes THEN at[n] ELSE Len(calls) + 1]
  OBVIOUS
<1>9. (\A n \in DOMAIN nodes : then[n] = at[n]) /\ then[d + 1] = Len(calls) + 1
  BY <1>7, <1>8
<1>10. nodes # <<>> => stack # <<>> /\ (key # NoKey \/ TopIs("array")) /\ nodes' = Extended(c.kind)
  <2> SUFFICES ASSUME nodes # <<>>
               PROVE  stack # <<>> /\ (key # NoKey \/ TopIs("array")) /\ nodes' = Extended(c.kind)
    OBVIOUS
  <2>1. stack # <<>> /\ (key # NoKey \/ TopIs("array"))
    BY <1>3 DEF FitsValue, Ready
  <2>2. ~(TopIs("dict") /\ HasKey(top, key))
    <3>1. CASE TopIs("dict")
      <4>1. ~TopIs("array")
        BY <3>1 DEF TopIs
      <4> QED
        BY <1>1, <1>4, <2>1, <3>1, <4>1, KeyIsNew
    <3> QED
      BY <3>1
  <2>3. nodes' = Extended(c.kind)
    BY <1>3, <2>2 DEF Insert, Extended
  <2> QED
    BY <2>1, <2>3
<1>11. nodes = <<>> => stack = <<>> /\ calls = <<>> /\ d = 0
  BY <1>4, <1>6 DEF Told
<1>12. /\ Len(nodes') = d + 1 /\ DOMAIN nodes' = 1 .. d + 1 /\ nodes' # <<>>
       /\ nodes'[d + 1] = NewNode(c.kind) /\ nodes'[d + 1].kind = c.kind
       /\ \A n \in DOMAIN nodes : nodes'[n].kind = nodes[n].kind
  <2>1. CASE nodes = <<>>
    <3>1. DOMAIN nodes = {} /\ d + 1 = 1 /\ nodes' = <<NewNode(c.kind)>>
      BY <1>3, <1>11, <2>1
    <3>2. Len(nodes') = 1 /\ DOMAIN nodes' = 1 .. 1 /\ nodes' # <<>> /\ nodes'[1] = NewNode(c.kind)
      BY <3>1
    <3> QED
      BY <3>1, <3>2 DEF NewNode
  <2>2. CASE nodes # <<>>
    <3>1. /\ Len(nodes') = Len(nodes) + 1 /\ nodes'[Len(nodes) + 1] = NewNode(c.kind)
          /\ \A n \in DOMAIN nodes : nodes'[n].kind = nodes[n].kind
      BY <1>2, <1>10, <2>2, ExtendedNodes DEF BuilderInv
    <3>2. DOMAIN nodes' = 1 .. d + 1 /\ nodes' # <<>>
      BY <1>4, <1>6, <3>1
    <3> QED
      BY <1>6, <3>1, <3>2 DEF NewNode
  <2> QED
    BY <2>1, <2>2
<1>13. stack' = IF IsOpening(c) THEN Append(stack, d + 1) ELSE stack
  <2>1. Len(nodes') > Len(nodes)
    BY <1>6, <1>12
  <2> QED
    BY <1>2, <1>3, <1>12, <2>1 DEF Open
<1>14. Numbered(then, calls', nodes')
  <2>0. PICK last \in Nat : last = d + 1
    OBVIOUS
  <2>1. PICK l \in Nat : l = Len(calls)
    BY <1>4
  <2>2. /\ \A n : n \in DOMAIN nodes' <=> n \in DOMAIN nodes \/ n = last
        /\ \A n \in DOMAIN nodes : n \in Nat /\ n < last /\ ~(last < n)
    BY <1>7, <1>12, <2>0
  <2>3. then[last] = l + 1 /\ \A n \in DOMAIN nodes : then[n] = at[n]
    BY <1>9, <2>0, <2>1
  <2>4. /\ \A i : i \in DOMAIN calls' <=> i \in DOMAIN calls \/ i = l + 1
        /\ calls'[l + 1] = c /\ \A i \in DOMAIN calls : calls'[i] = calls[i]
    <3>1. /\ DOMAIN Append(calls, c) = DOMAIN calls \cup {Len(calls) + 1}
          /\ Append(calls, c)[Len(calls) + 1] = c
          /\ \A i \in DOMAIN calls : Append(calls, c)[i] = calls[i]
      BY <1>2, <1>4, Longer
    <3> QED
      BY <1>3, <2>1, <3>1
  <2>5. /\ \A n \in DOMAIN nodes : at[n] \in DOMAIN calls /\ IsValue(calls[at[n]])
        /\ \A n \in DOMAIN nodes : calls[at[n]].kind = nodes[n].kind
        /\ \A m, n \in DOMAIN nodes : m < n => at[m] < at[n]
        /\ \A i \in DOMAIN calls : IsValue(calls[i]) => \E n \in DOMAIN nodes : at[n] = i
    BY <1>5 DEF Numbered
  <2>6. \A n \in DOMAIN nodes : at[n] < l + 1
    BY <1>4, <2>1, <2>5
  <2>7. \A n \in DOMAIN nodes' : then[n] \in DOMAIN calls' /\ IsValue(calls'[then[n]])
    BY <1>2, <2>2, <2>3, <2>4, <2>5
  <2>8. \A n \in DOMAIN nodes' : calls'[then[n]].kind = nodes'[n].kind
    <3>1. \A n \in DOMAIN nodes : calls'[then[n]].kind = nodes'[n].kind
      BY <1>12, <2>3, <2>4, <2>5
    <3>2. calls'[then[last]].kind = nodes'[last].kind
      BY <1>12, <2>0, <2>3, <2>4
    <3> QED
      BY <2>2, <3>1, <3>2
  <2>9. \A m, n \in DOMAIN nodes' : m < n => then[m] < then[n]
    BY <2>2, <2>3, <2>5, <2>6
  <2>10. \A i \in DOMAIN calls' : IsValue(calls'[i]) => \E n \in DOMAIN nodes' : then[n] = i
    <3> SUFFICES ASSUME NEW i \in DOMAIN calls', IsValue(calls'[i])
                 PROVE  \E n \in DOMAIN nodes' : then[n] = i
      OBVIOUS
    <3>1. CASE i = l + 1
      BY <2>2, <2>3, <3>1
    <3>2. CASE i \in DOMAIN calls
      <4>1. IsValue(calls[i])
        BY <2>4, <3>2
      <4>2. PICK n \in DOMAIN nodes : at[n] = i
        BY <2>5, <3>2, <4>1
      <4> QED
        BY <2>2, <2>3, <4>2
    <3> QED
      BY <2>4, <3>1, <3>2
  <2> QED
    BY <2>7, <2>8, <2>9, <2>10 DEF Numbered
<1>15. Stacked(then, calls', stack')
  BY <1>3, <1>4, <1>5, <1>7, <1>9, <1>13, StackedValue
<1>16. Nested(calls')
  <2>1. PICK e : e = Enclosing(calls, Len(calls) + 1)
    OBVIOUS
  <2>2. CASE nodes = <<>>
    <3>1. e = 0
      <4>1. stack = <<>> /\ \A i, j \in DOMAIN stack : i < j => stack[i] < stack[j]
        BY <1>11, <2>2
      <4> QED
        BY <1>4, <1>5, <2>1, <4>1, TopEncloses
    <3>2. e \in 0 .. Len(calls)
      BY <1>4, <3>1
    <3> QED
      BY <1>2, <1>3, <1>4, <2>1, <3>1, <3>2, NestedStays
  <2>3. CASE nodes # <<>>
    <3>1. e \in 0 .. Len(calls) /\ (calls[e].method = "StartDict" <=> TopIs("dict"))
      BY <1>1, <1>10, <2>1, <2>3, TopCall
    <3>2. TopIs("dict") => calls # <<>> /\ calls[Len(calls)].method = "Key"
      BY <1>1, <1>4, <1>10, <2>3, KeyIsGiven
    <3> QED
      BY <1>2, <1>3, <1>4, <2>1, <3>1, <3>2, NestedStays
  <2> QED
    BY <2>2, <2>3
<1>17. Itemised(then, calls', nodes')
  <2>1. CASE nodes = <<>>
    <3>1. calls' = <<c>> /\ nodes' = <<NewNode(c.kind)>> /\ then[1] = 1
      <4>1. calls = <<>> /\ Len(calls) = 0 /\ d + 1 = 1
        BY <1>11, <2>1
      <4> QED
        BY <1>3, <1>9, <2>1, <4>1
    <3> QED
      BY <1>16, <3>1, ItemisedRoot
  <2>2. CASE nodes # <<>>
    <3>1. stack # <<>> /\ (key # NoKey \/ TopIs("array")) /\ nodes' = Extended(c.kind)
      BY <1>10, <2>2
    <3>2. PICK t \in DOMAIN nodes : t = top
      BY <3>1, TopIsNode DEF BuilderInv
    <3>3. Enclosing(calls, Len(calls) + 1) = at[t]
      BY <1>1, <3>1, <3>2, TopCall
    <3>4. key = KeyOf(Append(calls, c), Len(calls) + 1)
      BY <1>1, <1>4, <3>1, KeyIsGiven
    <3>5. PICK T : T = [key : KeyName \cup {NoKey}, node : Nat]
      OBVIOUS
    <3>6. nodes[t].items \in Seq(T) /\ Item(key, d + 1) \in T
      <4>1. nodes[t] \in Node /\ key \in KeyName \cup {NoKey} /\ d + 1 \in Nat
        BY <1>4 DEF BuilderInv, TypeOK
      <4> QED
        BY <3>5, <4>1 DEF Node, Item
    <3>7. /\ \A n \in DOMAIN nodes : n # t => nodes'[n].items = nodes[n].items
          /\ nodes'[t].items = Append(nodes[t].items, Item(key, d + 1))
      <4>1. /\ \A n \in DOMAIN nodes : n # top => nodes'[n] = nodes[n]
            /\ nodes'[top].items = Append(nodes[top].items, Item(key, Len(nodes) + 1))
        BY <1>2, <3>1, ExtendedNodes DEF BuilderInv
      <4> QED
        BY <1>6, <3>2, <4>1
    <3>8. nodes'[d + 1].items = <<>>
      BY <1>12 DEF NewNode
    <3>9. /\ Nested(calls) /\ Nested(Append(calls, c))
          /\ DOMAIN nodes = 1 .. d /\ DOMAIN nodes' = 1 .. d + 1
          /\ Numbered(at, calls, nodes) /\ Itemised(at, calls, nodes)
      BY <1>3, <1>4, <1>5, <1>7, <1>12, <1>16
    <3>10. Itemised(then, Append(calls, c), nodes')
      BY <1>4, <1>9, <3>3, <3>4, <3>6, <3>7, <3>8, <3>9, ItemisedValue
    <3> QED
      BY <1>3, <3>10
  <2> QED
    BY <2>1, <2>2
<1>18. Waiting(calls', key')
  <2>1. calls' # <<>> /\ calls'[Len(calls')] = c
    <3>1. /\ Append(calls, c) \in Seq(Call) /\ Len(Append(calls, c)) = Len(calls) + 1
          /\ Append(calls, c)[Len(calls) + 1] = c /\ Len(calls) \in Nat
      BY <1>2, <1>4, Longer
    <3>2. Len(calls) + 1 # 0 /\ Len(<<>>) = 0
      BY <3>1
    <3> QED
      BY <1>3, <3>1, <3>2
  <2> QED
    BY <1>2, <1>3, <2>1 DEF Waiting
<1>19. ContextFits'
  <2>1. PICK h \in Nat : h = Len(stack)
    BY <1>4
  <2>2. CASE IsOpening(c)
    <3>1. stack' = Append(stack, d + 1)
      BY <1>13, <2>2
    <3>2. stack' # <<>> /\ stack'[Len(stack')] = d + 1
      <4>1. stack \in Seq(1 .. d + 1) /\ d + 1 \in 1 .. d + 1
        BY <1>4, <1>7
      <4> QED
        BY <3>1, <4>1
    <3>3. \A k : TopIs(k)' <=> c.kind = k
      BY <1>12, <3>2 DEF TopIs, top
    <3>4. /\ c.method = "StartDict" => context' = "DictItem"
          /\ c.method = "StartArray" => context' = "ArrayItem"
      BY DEF DoValue, Accept, Returns
    <3> QED
      BY <1>2, <1>3, <2>2, <3>3, <3>4 DEF ContextFits
  <2>3. CASE ~IsOpening(c)
    <3>1. stack' = stack /\ c.method = "Value"
      BY <1>2, <1>13, <2>3 DEF IsOpening
    <3>2. \A k : TopIs(k) => TopIs(k)'
      <4> SUFFICES ASSUME NEW k, TopIs(k) PROVE TopIs(k)'
        OBVIOUS
      <4>1. top \in DOMAIN nodes /\ stack # <<>>
        BY TopIsNode DEF TopIs, BuilderInv
      <4> QED
        BY <1>12, <3>1, <4>1 DEF TopIs, top
    <3>3. /\ context' = "KeyValue" => on = "KeyItem" /\ context = "KeyItem"
          /\ context' = "ArrayItem" => on = "ArrayItem" /\ context = "ArrayItem"
          /\ context' # "DictItem" /\ context' # "KeyItem"
      BY <3>1 DEF DoValue, Accept, Returns
    <3>4. context = "KeyItem" => TopIs("dict")
      BY DEF Told, ContextFits, BuilderInv, TypeOK
    <3>5. context = "ArrayItem" => TopIs("array")
      BY DEF Told, ContextFits
    <3> QED
      BY <1>3, <3>2, <3>3, <3>4, <3>5 DEF ContextFits
  <2> QED
    BY <2>2, <2>3
<1>20. Follows(then)'
  BY <1>14, <1>15, <1>17 DEF Follows
<1> QED
  BY <1>12, <1>16, <1>18, <1>19, <1>20 DEF Told

\* Every step of the builder leads on.
LEMMA CallsInvNext == BuilderInv /\ BuilderInv' /\ CallsInv /\ [Next]_vars => CallsInv'
<1> SUFFICES ASSUME BuilderInv, BuilderInv', CallsInv, [Next]_vars, KeysDistinct(calls') PROVE Told'
  BY DEF CallsInv
<1>0. calls \in Seq(Call)
  BY DEF BuilderInv, TypeOK
<1>1. ASSUME NEW on, NEW c \in Call, Accept(on, c) PROVE KeysDistinct(calls) /\ Told
  <2>1. KeysDistinct(Append(calls, c))
    BY <1>1 DEF Accept
  <2>2. KeysDistinct(calls)
    BY <1>0, <2>1, DistinctBefore
  <2> QED
    BY <2>2 DEF CallsInv
<1>2. ASSUME NEW on \in Contexts, NEW c \in Put, DoValue(on, c) PROVE Told'
  <2>1. KeysDistinct(calls) /\ Told
    BY <1>1, <1>2 DEF DoValue, Call
  <2> QED
    BY <1>2, <2>1, ToldValue
<1>3. ASSUME NEW on \in Contexts, NEW c \in SetKey, DoKey(on, c) PROVE Told'
  <2>1. Told
    BY <1>1, <1>3 DEF DoKey, Call
  <2> QED
    BY <1>3, <2>1, ToldKey
<1>4. ASSUME NEW on \in Contexts, NEW c \in Close, DoEnd(on, c) PROVE Told'
  <2>1. Told
    BY <1>1, <1>4 DEF DoEnd, Call
  <2> QED
    BY <1>4, <2>1, ToldEnd
<1>5. ASSUME UNCHANGED <<nodes, stack, key, context, calls>> PROVE Told'
  <2>1. Told
    BY <1>5 DEF CallsInv
  <2> QED
    BY <1>5, <2>1 DEF Told, ContextFits, TopIs, top, Follows
<1>6. ASSUME NEW on \in Contexts, NEW c \in Call, Throw(on, c) PROVE Told'
  BY <1>5, <1>6 DEF Throw
<1>7. CASE UNCHANGED vars
  BY <1>5, <1>7 DEF vars
<1> QED
  BY <1>2, <1>3, <1>4, <1>6, <1>7 DEF Next
-----------------------------------------------------------------------------
(* Reading the document off the text *)

\* Things counted off from 1.
LEMMA Counted ==
  ASSUME NEW S, NEW m \in Nat, NEW f \in [1 .. m -> S],
         \A j, k \in 1 .. m : f[j] = f[k] => j = k,
         \A s \in S : \E k \in 1 .. m : s = f[k]
  PROVE  Cardinality(S) = m
<1>1. f \in Injection(1 .. m, S)
  <2>1. \A j, k \in DOMAIN f : f[j] = f[k] => j = k
    OBVIOUS
  <2> QED
    BY <2>1 DEF Injection, IsInjective
<1>2. f \in Surjection(1 .. m, S)
  BY DEF Surjection
<1>3. ExistsBijection(1 .. m, S)
  BY <1>1, <1>2 DEF ExistsBijection, Bijection
<1> QED
  BY <1>3, FS_CountingElements

\* Of positions listed in ascending order, the k-th listed is the k-th.
LEMMA NthIs ==
  ASSUME NEW S \in SUBSET Nat, NEW m \in Nat, NEW f \in [1 .. m -> S],
         \A j, k \in 1 .. m : j < k => f[j] < f[k],
         \A s \in S : \E k \in 1 .. m : s = f[k]
  PROVE  /\ Cardinality(S) = m
         /\ \A k \in 1 .. m : Nth(S, k) = f[k] /\ Cardinality({i \in S : i <= f[k]}) = k
<1>1. \A j, k \in 1 .. m : (f[j] <= f[k] <=> j <= k) /\ (f[j] = f[k] => j = k)
  <2> SUFFICES ASSUME NEW j \in 1 .. m, NEW k \in 1 .. m
               PROVE  (f[j] <= f[k] <=> j <= k) /\ (f[j] = f[k] => j = k)
    OBVIOUS
  <2>1. f[j] \in Nat /\ f[k] \in Nat
    OBVIOUS
  <2>2. j < k \/ j = k \/ k < j
    OBVIOUS
  <2>3. (j < k => f[j] < f[k]) /\ (k < j => f[k] < f[j])
    OBVIOUS
  <2> QED
    BY <2>1, <2>2, <2>3
<1>2. Cardinality(S) = m
  <2>1. \A j, k \in 1 .. m : f[j] = f[k] => j = k
    BY <1>1
  <2> QED
    BY <2>1, Counted
<1>3. ASSUME NEW k \in 1 .. m PROVE Cardinality({i \in S : i <= f[k]}) = k
  <2>1. PICK B : B = {i \in S : i <= f[k]}
    OBVIOUS
  <2>2. k \in Nat /\ \A j : j \in 1 .. k <=> j \in 1 .. m /\ j <= k
    OBVIOUS
  <2>0. PICK g : g = [j \in 1 .. k |-> f[j]]
    OBVIOUS
  <2>3. g \in [1 .. k -> B]
    BY <1>1, <2>0, <2>1, <2>2
  <2>4. \A i, j \in 1 .. k : g[i] = g[j] => i = j
    BY <1>1, <2>0, <2>2
  <2>5. \A s \in B : \E j \in 1 .. k : s = g[j]
    <3> SUFFICES ASSUME NEW s \in B PROVE \E j \in 1 .. k : s = g[j]
      OBVIOUS
    <3>1. PICK j \in 1 .. m : s = f[j]
      BY <2>1
    <3>2. j \in 1 .. k
      BY <1>1, <2>1, <2>2, <3>1
    <3> QED
      BY <2>0, <3>1, <3>2
  <2>6. Cardinality(B) = k
    BY <2>2, <2>3, <2>4, <2>5, Counted
  <2> QED
    BY <2>1, <2>6
<1>4. ASSUME NEW k \in 1 .. m PROVE Nth(S, k) = f[k]
  <2>1. ASSUME NEW j \in S, Cardinality({i \in S : i <= j}) = k PROVE j = f[k]
    <3>1. PICK l \in 1 .. m : j = f[l]
      OBVIOUS
    <3>2. Cardinality({i \in S : i <= f[l]}) = l
      BY <1>3
    <3> QED
      BY <2>1, <3>1, <3>2
  <2>2. f[k] \in S /\ Cardinality({i \in S : i <= f[k]}) = k
    BY <1>3
  <2> QED
    BY <2>1, <2>2 DEF Nth
<1> QED
  BY <1>2, <1>3, <1>4

\* The builder's document is the one its calls spell.
LEMMA DocumentIsSpelt ==
  ASSUME BuilderInv, NEW at, Follows(at)
  PROVE  nodes = Spelt(calls)
<1>1. calls \in Seq(Call) /\ nodes \in Seq(Node)
  BY DEF BuilderInv, TypeOK
<1>2. Numbered(at, calls, nodes) /\ Itemised(at, calls, nodes)
  BY DEF Follows
<1>3. PICK d \in Nat : d = Len(nodes) /\ DOMAIN nodes = 1 .. d
  BY <1>1
<1>4. PICK S : S = Positions(calls, IsValue)
  OBVIOUS
<1>5. \A i : i \in S <=> i \in DOMAIN calls /\ IsValue(calls[i])
  BY <1>4 DEF Positions
<1>6. S \in SUBSET Nat
  BY <1>1, <1>5
<1>7. \A n \in 1 .. d : at[n] \in S
  BY <1>2, <1>3, <1>5 DEF Numbered
<1>8. \A m, n \in 1 .. d : m < n => at[m] < at[n]
  BY <1>2, <1>3 DEF Numbered
<1>9. \A i \in S : \E n \in 1 .. d : i = at[n]
  BY <1>2, <1>3, <1>5 DEF Numbered
<1>10. /\ Cardinality(S) = d
       /\ \A n \in 1 .. d : Nth(S, n) = at[n] /\ Cardinality({j \in S : j <= at[n]}) = n
  <2>1. PICK f : f = [n \in 1 .. d |-> at[n]]
    OBVIOUS
  <2>2. f \in [1 .. d -> S] /\ \A n \in 1 .. d : f[n] = at[n]
    BY <1>7, <2>1
  <2>3. \A m, n \in 1 .. d : m < n => f[m] < f[n]
    BY <1>8, <2>2
  <2>4. \A i \in S : \E n \in 1 .. d : i = f[n]
    BY <1>9, <2>2
  <2>5. /\ Cardinality(S) = d
        /\ \A n \in 1 .. d : Nth(S, n) = f[n] /\ Cardinality({j \in S : j <= f[n]}) = n
    BY <1>6, <2>2, <2>3, <2>4, NthIs
  <2> QED
    BY <2>2, <2>5
<1>11. \A n \in 1 .. d : Number(calls, at[n]) = n
  BY <1>4, <1>10 DEF Number
<1>12. ASSUME NEW n \in 1 .. d, NEW items, items = nodes[n].items,
              NEW W, W = Within(calls, at[n])
       PROVE  /\ DOMAIN items = 1 .. Cardinality(W)
              /\ \A k \in DOMAIN items :
                   items[k] = Item(KeyOf(calls, Nth(W, k)), Number(calls, Nth(W, k)))
  <2>1. \A i : i \in W <=> i \in S /\ Enclosing(calls, i) = at[n]
    BY <1>4, <1>12 DEF Within
  <2>2. nodes[n] \in Node
    BY <1>1, <1>3
  <2>3. items \in Seq([key : KeyName \cup {NoKey}, node : Nat])
    BY <1>12, <2>2 DEF Node
  <2>4. PICK h \in Nat : h = Len(items) /\ DOMAIN items = 1 .. h
    BY <2>3
  <2>5. /\ \A k, l \in 1 .. h : k < l => items[k].node < items[l].node
        /\ \A k \in 1 .. h :
             /\ items[k].node \in 1 .. d
             /\ Enclosing(calls, at[items[k].node]) = at[n]
             /\ items[k].key = KeyOf(calls, at[items[k].node])
        /\ \A m \in 1 .. d : Enclosing(calls, at[m]) = at[n] => \E k \in 1 .. h : items[k].node = m
    BY <1>2, <1>3, <1>12, <2>4 DEF Itemised
  <2>6. PICK f : f = [k \in 1 .. h |-> at[items[k].node]]
    OBVIOUS
  <2>7. \A k \in 1 .. h : f[k] = at[items[k].node]
    BY <2>6
  <2>8. f \in [1 .. h -> W]
    <3>1. \A k \in 1 .. h : at[items[k].node] \in W
      BY <1>7, <2>1, <2>5
    <3> QED
      BY <2>6, <3>1
  <2>9. \A k, l \in 1 .. h : k < l => f[k] < f[l]
    BY <1>8, <2>5, <2>7
  <2>10. \A s \in W : \E k \in 1 .. h : s = f[k]
    <3> SUFFICES ASSUME NEW s \in W PROVE \E k \in 1 .. h : s = f[k]
      OBVIOUS
    <3>1. PICK m \in 1 .. d : s = at[m]
      BY <1>9, <2>1
    <3>2. PICK k \in 1 .. h : items[k].node = m
      BY <2>1, <2>5, <3>1
    <3> QED
      BY <2>7, <3>1, <3>2
  <2>11. W \in SUBSET Nat
    BY <1>6, <2>1
  <2>12. Cardinality(W) = h /\ \A k \in 1 .. h : Nth(W, k) = f[k]
    <3>1. /\ Cardinality(W) = h
          /\ \A k \in 1 .. h : Nth(W, k) = f[k] /\ Cardinality({i \in W : i <= f[k]}) = k
      BY <2>8, <2>9, <2>10, <2>11, NthIs
    <3> QED
      BY <3>1
  <2>13. ASSUME NEW k \in 1 .. h
         PROVE  items[k] = Item(KeyOf(calls, Nth(W, k)), Number(calls, Nth(W, k)))
    <3>1. PICK m \in 1 .. d : m = items[k].node
      BY <2>5
    <3>2. Nth(W, k) = at[m] /\ Number(calls, at[m]) = m
      BY <1>11, <2>7, <2>12, <3>1
    <3>3. items[k].key = KeyOf(calls, at[m])
      BY <2>5, <3>1
    <3>4. PICK R : R = [key : KeyName \cup {NoKey}, node : Nat]
      OBVIOUS
    <3>5. items[k] \in R
      <4>1. items \in Seq(R) /\ k \in DOMAIN items
        BY <2>3, <2>4, <3>4
      <4> QED
        BY <4>1
    <3>6. items[k] = [key |-> items[k].key, node |-> items[k].node]
      BY <3>4, <3>5
    <3> QED
      BY <3>1, <3>2, <3>3, <3>6 DEF Item
  <2> QED
    BY <2>4, <2>12, <2>13
<1>13. ASSUME NEW n \in 1 .. d, NEW W, W = Within(calls, at[n])
       PROVE  nodes[n] = [kind |-> calls[at[n]].kind,
                          items |-> [k \in 1 .. Cardinality(W) |->
                                       Item(KeyOf(calls, Nth(W, k)), Number(calls, Nth(W, k)))]]
  <2>1. nodes[n] \in Node
    BY <1>1, <1>3
  <2>2. PICK items : items = nodes[n].items
    OBVIOUS
  <2>3. /\ DOMAIN items = 1 .. Cardinality(W)
        /\ \A k \in DOMAIN items :
             items[k] = Item(KeyOf(calls, Nth(W, k)), Number(calls, Nth(W, k)))
    BY <1>12, <1>13, <2>2
  <2>4. items \in Seq([key : KeyName \cup {NoKey}, node : Nat])
    BY <2>1, <2>2 DEF Node
  <2>5. items = [k \in 1 .. Cardinality(W) |->
                   Item(KeyOf(calls, Nth(W, k)), Number(calls, Nth(W, k)))]
    <3>1. items = [k \in DOMAIN items |-> items[k]]
      BY <2>4
    <3> QED
      BY <2>3, <3>1
  <2>6. nodes[n].kind = calls[at[n]].kind
    BY <1>2, <1>3 DEF Numbered
  <2>7. nodes[n] = [kind |-> nodes[n].kind, items |-> nodes[n].items]
    BY <2>1 DEF Node
  <2> QED
    BY <2>2, <2>5, <2>6, <2>7
<1>14. PICK spelt : spelt = Spelt(calls)
  OBVIOUS
<1>15. spelt = [n \in 1 .. Cardinality(S) |->
                  [kind |-> calls[Nth(S, n)].kind,
                   items |-> [k \in 1 .. Cardinality(Within(calls, Nth(S, n))) |->
                                Item(KeyOf(calls, Nth(Within(calls, Nth(S, n)), k)),
                                     Number(calls, Nth(Within(calls, Nth(S, n)), k)))]]]
  BY <1>4, <1>14 DEF Spelt
<1>16. ASSUME NEW n \in 1 .. d PROVE spelt[n] = nodes[n]
  <2>1. Nth(S, n) = at[n] /\ n \in 1 .. Cardinality(S)
    BY <1>10
  <2>2. PICK W : W = Within(calls, at[n])
    OBVIOUS
  <2>3. spelt[n] = [kind |-> calls[at[n]].kind,
                    items |-> [k \in 1 .. Cardinality(W) |->
                                 Item(KeyOf(calls, Nth(W, k)), Number(calls, Nth(W, k)))]]
    BY <1>15, <2>1, <2>2
  <2> QED
    BY <1>13, <2>2, <2>3
<1>17. DOMAIN spelt = 1 .. d /\ spelt = [n \in DOMAIN spelt |-> spelt[n]]
  BY <1>10, <1>15
<1>18. nodes = [n \in 1 .. d |-> nodes[n]]
  BY <1>1, <1>3
<1> QED
  BY <1>14, <1>16, <1>17, <1>18

\* What the calls say of the builder holds in every state.
LEMMA CallsAlways == Spec => [](BuilderInv /\ CallsInv)
<1>1. Init => BuilderInv /\ CallsInv
  BY BuilderInvInit, ToldInit
<1>2. BuilderInv /\ CallsInv /\ [Next]_vars => (BuilderInv /\ CallsInv)'
  BY BuilderInvNext, CallsInvNext
<1> QED
  BY <1>1, <1>2, PTL DEF Spec

\* A method throws exactly if the JSON text of the calls admits no such call
\* there, as long as no dictionary is given a key again (json_builder.cpp).
THEOREM ThrowsExactlyUnlessJson == Spec => []ThrowsUnlessJson
<1>1. BuilderInv /\ CallsInv => ThrowsUnlessJson
  <2> SUFFICES ASSUME BuilderInv, KeysDistinct(calls), Told, NEW m \in Offers("Builder")
               PROVE  Fits(m) <=> m \in Continuations(calls)
    BY DEF CallsInv, ThrowsUnlessJson
  <2>1. PICK at : Follows(at)
    BY DEF Told
  <2>2. m \in {"StartDict", "StartArray", "Value", "Key", "EndDict", "EndArray"}
    BY DEF Offers
  <2>3. /\ m \in {"StartDict", "StartArray", "Value"} => (Fits(m) <=> FitsValue)
        /\ m = "Key" => (Fits(m) <=> FitsKey)
        /\ m = "EndDict" => (Fits(m) <=> FitsEndDict)
        /\ m = "EndArray" => (Fits(m) <=> FitsEndArray)
    BY DEF Fits
  <2>4. CASE nodes = <<>>
    <3>1. calls = <<>>
      BY <2>4 DEF Told
    <3>2. \A k : ~TopIs(k)
      BY <2>4 DEF TopIs, BuilderInv, TypeOK
    <3>3. FitsValue /\ ~FitsKey /\ ~FitsEndDict /\ ~FitsEndArray
      BY <2>4, <3>2 DEF FitsValue, FitsKey, FitsEndDict, FitsEndArray
    <3> QED
      BY <2>2, <2>3, <3>1, <3>3 DEF Continuations
  <2>5. CASE nodes # <<>>
    <3>1. calls # <<>>
      <4>1. nodes \in Seq(Node) /\ Numbered(at, calls, nodes)
        BY <2>1 DEF BuilderInv, TypeOK, Follows
      <4>2. 1 \in DOMAIN nodes
        BY <2>5, <4>1, EmptySeq
      <4>3. at[1] \in DOMAIN calls
        BY <4>1, <4>2 DEF Numbered
      <4> QED
        BY <4>3
    <3>2. CASE stack = <<>>
      <4>1. /\ calls \in Seq(Call) /\ stack \in Seq(DOMAIN nodes)
            /\ Numbered(at, calls, nodes) /\ Stacked(at, calls, stack)
            /\ \A i, j \in DOMAIN stack : i < j => stack[i] < stack[j]
        BY <2>1 DEF BuilderInv, TypeOK, StackAscends, Follows
      <4>2. Enclosing(calls, Len(calls) + 1) = 0
        BY <3>2, <4>1, TopEncloses
      <4>3. ~FitsValue /\ ~FitsKey /\ ~FitsEndDict /\ ~FitsEndArray
        BY <2>5, <3>2 DEF FitsValue, FitsKey, FitsEndDict, FitsEndArray, Ready
      <4>4. Continuations(calls) = {}
        BY <3>1, <4>2 DEF Continuations
      <4> QED
        BY <2>2, <2>3, <4>3, <4>4
    <3>3. CASE stack # <<>>
      <4>1. ~Ready
        BY <3>3 DEF Ready
      <4>2. PICK e : e = Enclosing(calls, Len(calls) + 1)
        OBVIOUS
      <4>3. /\ e # 0 /\ (calls[e].method = "StartDict" <=> TopIs("dict"))
            /\ calls[e].method = "StartArray" <=> TopIs("array")
        BY <2>1, <3>3, <4>2, TopCall
      <4>4. CASE TopIs("array")
        <5>1. ~TopIs("dict")
          BY <4>4 DEF TopIs
        <5>2. FitsValue /\ ~FitsKey /\ ~FitsEndDict /\ FitsEndArray
          BY <4>1, <4>4, <5>1 DEF FitsValue, FitsKey, FitsEndDict, FitsEndArray
        <5>3. Continuations(calls) = {"StartDict", "StartArray", "Value"} \cup {"EndArray"}
          BY <3>1, <4>2, <4>3, <4>4 DEF Continuations
        <5> QED
          BY <2>2, <2>3, <5>2, <5>3
      <4>5. CASE TopIs("dict") /\ key # NoKey
        <5>1. ~TopIs("array")
          BY <4>5 DEF TopIs
        <5>2. FitsValue /\ ~FitsKey /\ ~FitsEndDict /\ ~FitsEndArray
          BY <4>1, <4>5, <5>1 DEF FitsValue, FitsKey, FitsEndDict, FitsEndArray
        <5>3. calls[Len(calls)].method = "Key"
          BY <4>5 DEF Told, Waiting
        <5>4. Continuations(calls) = {"StartDict", "StartArray", "Value"}
          BY <3>1, <4>2, <4>3, <5>1, <5>3 DEF Continuations
        <5> QED
          BY <2>2, <2>3, <5>2, <5>4
      <4>6. CASE TopIs("dict") /\ key = NoKey
        <5>1. ~TopIs("array")
          BY <4>6 DEF TopIs
        <5>2. ~FitsValue /\ FitsKey /\ FitsEndDict /\ ~FitsEndArray
          BY <2>5, <4>1, <4>6, <5>1 DEF FitsValue, FitsKey, FitsEndDict, FitsEndArray
        <5>3. calls[Len(calls)].method # "Key"
          BY <3>1, <4>6 DEF Told, Waiting
        <5>4. Continuations(calls) = {"Key", "EndDict"}
          BY <3>1, <4>2, <4>3, <5>1, <5>3 DEF Continuations
        <5> QED
          BY <2>2, <2>3, <5>2, <5>4
      <4>7. TopIs("dict") \/ TopIs("array")
        BY <3>3, TopIsNode DEF TopIs, BuilderInv
      <4> QED
        BY <4>4, <4>5, <4>6, <4>7
    <3> QED
      BY <3>2, <3>3
  <2> QED
    BY <2>4, <2>5
<1> QED
  BY <1>1, CallsAlways, PTL

\* The document is at every moment the one that the calls spell, read without
\* a stack: the kinds of its nodes, their items, the items' order and keys.
THEOREM DocumentIsWhatIsSpelt == Spec => []BuildsWhatIsSpelt
<1>1. BuilderInv /\ CallsInv => BuildsWhatIsSpelt
  BY DocumentIsSpelt DEF CallsInv, Told, BuildsWhatIsSpelt
<1> QED
  BY <1>1, CallsAlways, PTL

\* A chain of calls, each on the context that the last one returned, never
\* throws: the contexts' types leave out every call that would.
THEOREM ChainsNeverThrow == Spec => []ChainNeverThrows
<1>1. BuilderInv /\ CallsInv => ChainNeverThrows
  <2> SUFFICES ASSUME BuilderInv, ContextFits, context # "Builder", NEW m \in Offers(context)
               PROVE  Fits(m)
    BY DEF CallsInv, Told, ChainNeverThrows
  <2>1. context \in {"KeyItem", "KeyValue", "DictItem", "ArrayItem"}
    BY DEF BuilderInv, TypeOK, Contexts
  <2>2. key # NoKey => TopIs("dict")
    BY DEF BuilderInv, TypeOK
  <2>3. \A k : TopIs(k) => stack # <<>> /\ ~Ready
    BY DEF TopIs, Ready
  <2>4. CASE context = "KeyItem"
    <3>1. FitsValue
      BY <2>2, <2>3, <2>4 DEF ContextFits, FitsValue
    <3>2. m \in {"StartDict", "StartArray", "Value"}
      BY <2>4 DEF Offers
    <3> QED
      BY <3>1, <3>2 DEF Fits
  <2>5. CASE context \in {"KeyValue", "DictItem"}
    <3>1. FitsKey /\ FitsEndDict
      BY <2>3, <2>5 DEF ContextFits, FitsKey, FitsEndDict
    <3>2. m \in {"Key", "EndDict"}
      BY <2>5 DEF Offers
    <3> QED
      BY <3>1, <3>2 DEF Fits
  <2>6. CASE context = "ArrayItem"
    <3>1. FitsValue /\ FitsEndArray
      BY <2>3, <2>6 DEF ContextFits, FitsValue, FitsEndArray
    <3>2. m \in {"StartDict", "StartArray", "Value", "EndArray"}
      BY <2>6 DEF Offers
    <3> QED
      BY <3>1, <3>2 DEF Fits
  <2> QED
    BY <2>1, <2>4, <2>5, <2>6
<1> QED
  BY <1>1, CallsAlways, PTL
=============================================================================
