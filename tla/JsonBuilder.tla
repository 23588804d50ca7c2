---------------------------- MODULE JsonBuilder ----------------------------
(***************************************************************************)
(* json::Builder (json_builder.cpp): a JSON document put together call by  *)
(* call.  The builder keeps the document under construction and a stack of *)
(* pointers to its open containers; a call that does not fit throws and    *)
(* changes nothing.  The contexts that calls return offer fewer methods    *)
(* than the builder, which stays available all the same.                   *)
(*                                                                         *)
(* The nodes of the document are numbered as they are made and node 1 is   *)
(* root_.  A container holds its items in the order of their insertion.    *)
(***************************************************************************)
EXTENDS Integers, Sequences, FiniteSets

CONSTANTS
    KeyName,    \* keys of dictionaries
    Scalar,     \* values passed as they are, finished containers among them
    NoKey,      \* an empty key_, and the key of an array's item
    MaxCalls    \* bound on the calls that do not throw

ASSUME KeyAssumption == NoKey \notin KeyName
ASSUME ScalarAssumption == Scalar \cap {"dict", "array"} = {}
ASSUME MaxCallsAssumption == MaxCalls \in Nat

VARIABLES
    nodes,      \* the nodes of root_; none while is_root_empty_
    stack,      \* nodes_stack_, the top last
    key,        \* key_
    context,    \* what the last call that did not throw returned
    threw,      \* whether the last call threw
    calls       \* history: the calls that did not throw

vars == <<nodes, stack, key, context, threw, calls>>

Kind == Scalar \cup {"dict", "array"}

\* The methods; StartDict and StartArray add a node as Value does.
Put == [method : {"Value"}, kind : Scalar]
       \cup {[method |-> "StartDict", kind |-> "dict"], [method |-> "StartArray", kind |-> "array"]}
SetKey == [method : {"Key"}, key : KeyName]
Close == [method : {"EndDict", "EndArray"}]
Call == Put \cup SetKey \cup Close

Contexts == {"Builder", "KeyItem", "KeyValue", "DictItem", "ArrayItem"}

\* The methods a context has.
Offers(c) ==
    CASE c = "KeyItem" -> {"StartDict", "StartArray", "Value"}
      [] c \in {"KeyValue", "DictItem"} -> {"Key", "EndDict"}
      [] c = "ArrayItem" -> {"StartDict", "StartArray", "Value", "EndArray"}
      [] c = "Builder" -> {"StartDict", "StartArray", "Value", "Key", "EndDict", "EndArray"}

\* What a method returns, called on c.
Returns(c, method) ==
    CASE method = "StartDict" -> "DictItem"
      [] method = "StartArray" -> "ArrayItem"
      [] method = "Key" -> "KeyItem"
      [] method = "Value" /\ c = "KeyItem" -> "KeyValue"
      [] method = "Value" /\ c = "ArrayItem" -> "ArrayItem"
      [] OTHER -> "Builder"

Init ==
    /\ nodes = <<>> /\ stack = <<>> /\ key = NoKey
    /\ context = "Builder" /\ threw = FALSE /\ calls = <<>>

-----------------------------------------------------------------------------

top == stack[Len(stack)]
TopIs(kind) == stack # <<>> /\ nodes[top].kind = kind
Ready == nodes # <<>> /\ stack = <<>>   \* Build() throws unless it is

\* The guards of the methods; Ready throws in all of them.
FitsValue == nodes = <<>> \/ (~Ready /\ (key # NoKey \/ TopIs("array")))
FitsKey == ~Ready /\ TopIs("dict") /\ key = NoKey

\* Mutant: a key may be left without its value.
FitsEndDictAfterKey == ~Ready /\ TopIs("dict")

FitsEndDict == ~Ready /\ key = NoKey /\ TopIs("dict")
FitsEndArray == ~Ready /\ TopIs("array")

Fits(method) ==
    CASE method \in {"StartDict", "StartArray", "Value"} -> FitsValue
      [] method = "Key" -> FitsKey
      [] method = "EndDict" -> FitsEndDict
      [] method = "EndArray" -> FitsEndArray

NewNode(kind) == [kind |-> kind, items |-> <<>>]
Item(k, n) == [key |-> k, node |-> n]
HasKey(n, k) == \E i \in DOMAIN nodes[n].items : nodes[n].items[i].key = k

\* Mutant: a dictionary takes a second value under a key it has.
InsertAgain(kind) ==
    nodes' = Append([nodes EXCEPT ![top].items = Append(@, Item(key, Len(nodes) + 1))], NewNode(kind))

\* Mutant: the value goes to root_ and not to the container on top.
InsertInRoot(kind) ==
    nodes' = Append([nodes EXCEPT ![1].items = Append(@, Item(key, Len(nodes) + 1))], NewNode(kind))

\* The value under a key that the dictionary has already is dropped.
Insert(kind) ==
    nodes' = IF TopIs("dict") /\ HasKey(top, key) THEN nodes
             ELSE Append([nodes EXCEPT ![top].items = Append(@, Item(key, Len(nodes) + 1))], NewNode(kind))

\* Mutant: a container opened in an array is looked for at its front.
OpenFront(kind) ==
    stack' = IF kind \in {"dict", "array"} /\ Len(nodes') > Len(nodes)
             THEN Append(stack, IF TopIs("array") THEN nodes'[top].items[1].node ELSE Len(nodes'))
             ELSE stack

\* A container that was started, and inserted, is where calls go from now on.
Open(kind) ==
    stack' = IF kind \in {"dict", "array"} /\ Len(nodes') > Len(nodes)
             THEN Append(stack, Len(nodes')) ELSE stack

\* Mutant: key_ is kept after its value.
ValueKeepsKey(c) ==
    /\ IF nodes = <<>> THEN nodes' = <<NewNode(c.kind)>> ELSE Insert(c.kind)
    /\ Open(c.kind)
    /\ UNCHANGED key

Value(c) ==
    /\ IF nodes = <<>> THEN nodes' = <<NewNode(c.kind)>> ELSE Insert(c.kind)
    /\ Open(c.kind)
    /\ key' = NoKey

Pop ==
    /\ stack' = SubSeq(stack, 1, Len(stack) - 1)
    /\ UNCHANGED <<nodes, key>>

\* A call on the builder or on the context at hand.
Accept(on, c) ==
    /\ Len(calls) < MaxCalls
    /\ on \in {"Builder", context} /\ c.method \in Offers(on) /\ Fits(c.method)
    /\ context' = Returns(on, c.method)
    /\ threw' = FALSE
    /\ calls' = Append(calls, c)

DoValue(on, c) == Accept(on, c) /\ Value(c)
DoKey(on, c) == Accept(on, c) /\ key' = c.key /\ UNCHANGED <<nodes, stack>>
DoEnd(on, c) == Accept(on, c) /\ Pop

Throw(on, c) ==
    /\ on \in {"Builder", context} /\ c.method \in Offers(on) /\ ~Fits(c.method)
    /\ threw' = TRUE
    /\ UNCHANGED <<nodes, stack, key, context, calls>>

Next ==
    \E on \in Contexts :
        \/ \E c \in Put : DoValue(on, c)
        \/ \E c \in SetKey : DoKey(on, c)
        \/ \E c \in Close : DoEnd(on, c)
        \/ \E c \in Call : Throw(on, c)

Spec == Init /\ [][Next]_vars

-----------------------------------------------------------------------------
(* Properties *)

Node == [kind : Kind, items : Seq([key : KeyName \cup {NoKey}, node : Nat])]

\* Every variable has its type; the stack holds containers, and a key waits
\* for its value only while a dictionary is on top.
TypeOK ==
    /\ nodes \in Seq(Node) /\ stack \in Seq(DOMAIN nodes)
    /\ \A i \in DOMAIN stack : nodes[stack[i]].kind \in {"dict", "array"}
    /\ key \in KeyName \cup {NoKey} /\ (key # NoKey => TopIs("dict"))
    /\ context \in Contexts /\ threw \in BOOLEAN /\ calls \in Seq(Call)

\* The stack leads from the root to the newest container, each pointer to the
\* last item of the container below: nothing is inserted beside an item that
\* the stack points to, so no vector moves it (json_builder.cpp:81).
StackIsSpine ==
    /\ stack # <<>> => stack[1] = 1
    /\ \A i \in 1 .. Len(stack) - 1 :
         LET items == nodes[stack[i]].items IN
         items # <<>> /\ items[Len(items)].node = stack[i + 1]

\* A dictionary never has two items under one key: the first value stays.
DictKeysUnique ==
    \A n \in DOMAIN nodes : nodes[n].kind = "dict" =>
        LET items == nodes[n].items IN
        \A i, j \in DOMAIN items : items[i].key = items[j].key => i = j
=============================================================================
