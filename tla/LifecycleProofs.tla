-------------------------- MODULE LifecycleProofs --------------------------
(***************************************************************************)
(* The invariants of BaseLifecycle for every set of bases and stat         *)
(* documents.                                                              *)
(*                                                                         *)
(* The first sections say what a base file that was cut off anywhere holds *)
(* (CatalogueFile): every field is there up to the cut, its elements are   *)
(* those of the message, and only the last element of the file may be      *)
(* torn; and what comes back from a file that is complete.                 *)
(*                                                                         *)
(* For FailureLeavesFile, nothing is needed of that: only the order in     *)
(* which a run does things.  For CutFileIsConsistent, it is needed that a  *)
(* file is what make_base wrote of one base, up to a cut.  For the others, *)
(* RoundTrip, NeverMisroutes, OnlyTornEntryMisleads, CompleteBaseAnswers,  *)
(* it is needed that the router took that base, so that its table leads    *)
(* every walk back to its start; and that all requests are answered alike  *)
(* of two bases that differ only in empty sets of buses.                   *)
(***************************************************************************)
EXTENDS BaseLifecycle, CatalogueProofs

-----------------------------------------------------------------------------
(* The message *)

\* The elements of field g are those behind the first lo and have the values
\* vals.
Block(m, g, lo, vals) ==
    /\ lo + Len(vals) <= Len(m)
    /\ \A i \in 1 .. Len(m) : m[i].field = g <=> i \in lo + 1 .. lo + Len(vals)
    /\ \A j \in 1 .. Len(vals) : m[lo + j] = [field |-> g, value |-> vals[j]]

Lacks(m, g) == \A i \in 1 .. Len(m) : m[i].field # g

FieldName == {"stops", "buses", "distances", "edges_to_buses", "edges", "router",
              "render_settings", "routing_settings"}
Element(W) == [field : FieldName, value : W]

\* The elements written for one field: of that field, one for each value.
LEMMA ElementsSeq ==
    ASSUME NEW W, NEW g \in FieldName, NEW vals \in Seq(W)
    PROVE  /\ Elements(g, vals) \in Seq(Element(W)) /\ Len(Elements(g, vals)) = Len(vals)
           /\ \A j \in 1 .. Len(vals) : Elements(g, vals)[j] = [field |-> g, value |-> vals[j]]
           /\ \A h : h # g => Lacks(Elements(g, vals), h)
<1>1. Len(vals) \in Nat /\ DOMAIN vals = 1 .. Len(vals) /\ \A j \in 1 .. Len(vals) : vals[j] \in W
  OBVIOUS
<1>2. Elements(g, vals) \in [1 .. Len(vals) -> Element(W)]
  BY <1>1 DEF Elements, Element
<1>3. PICK n, c : n = Len(vals) /\ c = Elements(g, vals)
  OBVIOUS
<1>4. c \in Seq(Element(W)) /\ Len(c) = n
  <2>1. n \in Nat /\ c \in [1 .. n -> Element(W)]
    BY <1>1, <1>2, <1>3
  <2> QED
    BY <2>1, FunctionSeq
<1>5. \A j \in 1 .. n : c[j] = [field |-> g, value |-> vals[j]]
  BY <1>1, <1>3 DEF Elements
<1>6. \A j \in 1 .. n : c[j].field = g
  <2> SUFFICES ASSUME NEW j \in 1 .. n PROVE c[j].field = g
    OBVIOUS
  <2>1. c[j] = [field |-> g, value |-> vals[j]]
    BY <1>5
  <2> QED
    BY <2>1
<1>7. \A h : h # g => Lacks(c, h)
  BY <1>4, <1>6 DEF Lacks
<1> QED
  BY <1>3, <1>4, <1>5, <1>7

\* What is appended disturbs no block.
LEMMA Joined ==
    ASSUME NEW T, NEW a \in Seq(T), NEW c \in Seq(T)
    PROVE  /\ a \o c \in Seq(T) /\ Len(a \o c) = Len(a) + Len(c)
           /\ \A g : Lacks(a, g) /\ Lacks(c, g) => Lacks(a \o c, g)
           /\ \A g, vals : \A lo \in Nat :
                 Len(vals) \in Nat /\ Block(a, g, lo, vals) /\ Lacks(c, g) => Block(a \o c, g, lo, vals)
<1>1. /\ a \o c \in Seq(T) /\ Len(a \o c) = Len(a) + Len(c)
      /\ Len(a) \in Nat /\ Len(c) \in Nat
  BY ConcatProperties
<1>2. \A i \in 1 .. Len(a) : (a \o c)[i] = a[i]
  BY <1>1, ConcatProperties
<1>3. \A i \in 1 .. Len(a) + Len(c) : i \notin 1 .. Len(a) =>
         /\ i - Len(a) \in 1 .. Len(c) /\ (a \o c)[i] = c[i - Len(a)]
  BY <1>1, ConcatProperties
<1>4. PICK m, n, k : m = a \o c /\ n = Len(a) /\ k = Len(c)
  OBVIOUS
<1>5. ASSUME NEW g, Lacks(a, g), Lacks(c, g) PROVE Lacks(m, g)
  BY <1>1, <1>2, <1>3, <1>4, <1>5 DEF Lacks
<1>6. ASSUME NEW g, NEW vals, NEW lo \in Nat, Len(vals) \in Nat, Block(a, g, lo, vals), Lacks(c, g)
      PROVE  Block(m, g, lo, vals)
  <2>1. lo + Len(vals) <= n /\ n \in Nat /\ k \in Nat /\ Len(m) = n + k
    BY <1>1, <1>4, <1>6 DEF Block
  <2>2. ASSUME NEW i \in 1 .. n + k
        PROVE  m[i].field = g <=> i \in lo + 1 .. lo + Len(vals)
    <3>1. CASE i \in 1 .. n
      BY <1>2, <1>4, <1>6, <3>1 DEF Block
    <3>2. CASE i \notin 1 .. n
      <4>1. m[i].field # g
        BY <1>3, <1>4, <1>6, <3>2 DEF Lacks
      <4>2. i \notin lo + 1 .. lo + Len(vals)
        BY <1>6, <2>1, <3>2
      <4> QED
        BY <4>1, <4>2
    <3> QED
      BY <3>1, <3>2
  <2>3. ASSUME NEW j \in 1 .. Len(vals)
        PROVE  m[lo + j] = [field |-> g, value |-> vals[j]]
    <3>1. lo + j \in 1 .. n
      BY <1>6, <2>1
    <3> QED
      BY <1>2, <1>4, <1>6, <3>1 DEF Block
  <2> QED
    BY <2>1, <2>2, <2>3 DEF Block
<1> QED
  BY <1>1, <1>4, <1>5, <1>6

\* What is appended is a block, if its field is new.
LEMMA NewBlock ==
    ASSUME NEW W, NEW a \in Seq(Element(W)), NEW g \in FieldName, NEW vals \in Seq(W), Lacks(a, g)
    PROVE  Block(a \o Elements(g, vals), g, Len(a), vals)
<1>1. PICK c, m, n, k :
         c = Elements(g, vals) /\ m = a \o c /\ n = Len(a) /\ k = Len(vals)
  OBVIOUS
<1>2. /\ c \in Seq(Element(W)) /\ Len(c) = k /\ n \in Nat /\ k \in Nat
      /\ \A j \in 1 .. k : c[j] = [field |-> g, value |-> vals[j]]
  BY <1>1, ElementsSeq
<1>3. /\ Len(m) = n + k
      /\ \A i \in 1 .. n + k : m[i] = IF i <= n THEN a[i] ELSE c[i - n]
  <2>1. /\ Len(a \o c) = Len(a) + Len(c)
        /\ \A i \in 1 .. Len(a) + Len(c) : (a \o c)[i] = IF i <= Len(a) THEN a[i] ELSE c[i - Len(a)]
    BY <1>2, ConcatProperties
  <2>2. Len(a) = n /\ Len(c) = k
    BY <1>1, <1>2
  <2> QED
    BY <1>1, <2>1, <2>2
<1>4. ASSUME NEW i \in 1 .. n + k PROVE m[i].field = g <=> i \in n + 1 .. n + k
  <2>1. CASE i <= n
    <3>1. i \in 1 .. n /\ m[i] = a[i] /\ ~(i \in n + 1 .. n + k)
      BY <1>2, <1>3, <2>1
    <3> QED
      BY <1>1, <3>1 DEF Lacks
  <2>2. CASE ~(i <= n)
    <3>1. i - n \in 1 .. k /\ m[i] = c[i - n] /\ i \in n + 1 .. n + k
      BY <1>2, <1>3, <2>2
    <3>2. c[i - n].field = g
      BY <1>2, <3>1
    <3> QED
      BY <3>1, <3>2
  <2> QED
    BY <2>1, <2>2
<1>5. ASSUME NEW j \in 1 .. k PROVE m[n + j] = [field |-> g, value |-> vals[j]]
  <2>1. PICK i : i = n + j
    OBVIOUS
  <2>2. i \in 1 .. n + k /\ ~(i <= n) /\ i - n = j
    BY <1>2, <2>1
  <2>3. m[i] = c[i - n]
    BY <1>3, <2>2
  <2> QED
    BY <1>1, <1>2, <2>1, <2>2, <2>3
<1>6. Block(m, g, n, vals)
  BY <1>1, <1>2, <1>3, <1>4, <1>5 DEF Block
<1> QED
  BY <1>1, <1>6

Names(L) == {r.field : r \in L}

\* A message of which every field is laid out as in L, and that has no others.
Laid(W, a, L) ==
    /\ a \in Seq(Element(W))
    /\ \A r \in L : r.lo \in Nat /\ Len(r.vals) \in Nat /\ Block(a, r.field, r.lo, r.vals)
    /\ \A g : g \notin Names(L) => Lacks(a, g)

At(g, lo, vals) == [field |-> g, lo |-> lo, vals |-> vals]

\* Behind a message goes a field that it does not have yet.
LEMMA LaidOn ==
    ASSUME NEW W, NEW a, NEW L, Laid(W, a, L),
           NEW g \in FieldName, NEW vals \in Seq(W), g \notin Names(L)
    PROVE  /\ Laid(W, a \o Elements(g, vals), L \cup {At(g, Len(a), vals)})
           /\ Len(a) \in Nat /\ Len(a \o Elements(g, vals)) = Len(a) + Len(vals)
<1>1. PICK c, m, r : c = Elements(g, vals) /\ m = a \o c /\ r = At(g, Len(a), vals)
  OBVIOUS
<1>2. /\ a \in Seq(Element(W)) /\ c \in Seq(Element(W)) /\ Len(c) = Len(vals)
      /\ \A h : h # g => Lacks(c, h)
      /\ Len(a) \in Nat /\ Len(vals) \in Nat
  BY <1>1, ElementsSeq DEF Laid
<1>3. /\ m \in Seq(Element(W)) /\ Len(m) = Len(a) + Len(c)
      /\ \A h : Lacks(a, h) /\ Lacks(c, h) => Lacks(m, h)
      /\ \A h, v : \A lo \in Nat :
            Len(v) \in Nat /\ Block(a, h, lo, v) /\ Lacks(c, h) => Block(m, h, lo, v)
  BY <1>1, <1>2, Joined
<1>4. /\ r.field = g /\ r.lo = Len(a) /\ r.vals = vals
  BY <1>1 DEF At
<1>5. Block(m, g, Len(a), vals)
  BY <1>1, NewBlock DEF Laid
<1>6. ASSUME NEW q \in L
      PROVE  q.lo \in Nat /\ Len(q.vals) \in Nat /\ Block(m, q.field, q.lo, q.vals)
  <2>1. q.field # g
    BY DEF Names
  <2>2. q.lo \in Nat /\ Len(q.vals) \in Nat /\ Block(a, q.field, q.lo, q.vals)
    BY DEF Laid
  <2> QED
    BY <1>2, <1>3, <2>1, <2>2
<1>7. ASSUME NEW h, h \notin Names(L \cup {r})
      PROVE  Lacks(m, h)
  <2>1. h # g /\ h \notin Names(L)
    BY <1>4, <1>7 DEF Names
  <2>2. Lacks(a, h)
    BY <2>1 DEF Laid
  <2> QED
    BY <1>2, <1>3, <2>1, <2>2
<1>8. Laid(W, m, L \cup {r})
  BY <1>2, <1>3, <1>4, <1>5, <1>6, <1>7 DEF Laid
<1> QED
  BY <1>1, <1>2, <1>3, <1>8

\* The eight fields of a message follow one another: the values of the
\* k-th are behind the first lk elements, and there are n in all.
Layout(W, m, n, v1, v2, v3, v4, v5, v6, v7, v8, l2, l3, l4, l5, l6, l7, l8) ==
    /\ l2 = Len(v1) /\ l3 = l2 + Len(v2) /\ l4 = l3 + Len(v3) /\ l5 = l4 + Len(v4)
    /\ l6 = l5 + Len(v5) /\ l7 = l6 + Len(v6) /\ l8 = l7 + Len(v7) /\ n = l8 + Len(v8)
    /\ m \in Seq(Element(W)) /\ Len(m) = n
    /\ Block(m, "stops", 0, v1) /\ Block(m, "buses", l2, v2)
    /\ Block(m, "distances", l3, v3) /\ Block(m, "edges_to_buses", l4, v4)
    /\ Block(m, "edges", l5, v5) /\ Block(m, "router", l6, v6)
    /\ Block(m, "render_settings", l7, v7) /\ Block(m, "routing_settings", l8, v8)

\* Writing eight fields one behind the other lays them out so.
LEMMA EightFields ==
    ASSUME NEW W, NEW v1, NEW v2, NEW v3, NEW v4, NEW v5, NEW v6, NEW v7, NEW v8
    PROVE  {v1, v2, v3, v4, v5, v6, v7, v8} \subseteq Seq(W) =>
           \E m, n, l2, l3, l4, l5, l6, l7, l8 :
             /\ m = Elements("stops", v1) \o Elements("buses", v2) \o Elements("distances", v3)
                    \o Elements("edges_to_buses", v4) \o Elements("edges", v5)
                    \o Elements("router", v6)
                    \o (Elements("render_settings", v7) \o Elements("routing_settings", v8))
             /\ Layout(W, m, n, v1, v2, v3, v4, v5, v6, v7, v8, l2, l3, l4, l5, l6, l7, l8)
<1>a. HAVE {v1, v2, v3, v4, v5, v6, v7, v8} \subseteq Seq(W)
<1>v1. v1 \in Seq(W)
  BY <1>a
<1>v2. v2 \in Seq(W)
  BY <1>a
<1>v3. v3 \in Seq(W)
  BY <1>a
<1>v4. v4 \in Seq(W)
  BY <1>a
<1>v5. v5 \in Seq(W)
  BY <1>a
<1>v6. v6 \in Seq(W)
  BY <1>a
<1>v7. v7 \in Seq(W)
  BY <1>a
<1>v8. v8 \in Seq(W)
  BY <1>a
<1>0. /\ "stops" \in FieldName /\ "buses" \in FieldName /\ "distances" \in FieldName
      /\ "edges_to_buses" \in FieldName /\ "edges" \in FieldName /\ "router" \in FieldName
      /\ "render_settings" \in FieldName /\ "routing_settings" \in FieldName
  BY DEF FieldName
<1>1. PICK e1, e2, e3, e4, e5, e6, e7, e8 :
        /\ e1 = Elements("stops", v1) /\ e2 = Elements("buses", v2)
        /\ e3 = Elements("distances", v3) /\ e4 = Elements("edges_to_buses", v4)
        /\ e5 = Elements("edges", v5) /\ e6 = Elements("router", v6)
        /\ e7 = Elements("render_settings", v7) /\ e8 = Elements("routing_settings", v8)
  OBVIOUS
<1>2. PICK a2, a3, a4, a5, a6, a7 :
        /\ a2 = e1 \o e2 /\ a3 = a2 \o e3 /\ a4 = a3 \o e4 /\ a5 = a4 \o e5 /\ a6 = a5 \o e6
        /\ a7 = a6 \o e7
  OBVIOUS
<1>3. PICK m : m = a7 \o e8
  OBVIOUS
<1>4. PICK r1, r2, r3, r4, r5, r6, r7, r8 :
        /\ r1 = At("stops", 0, v1) /\ r2 = At("buses", Len(e1), v2)
        /\ r3 = At("distances", Len(a2), v3) /\ r4 = At("edges_to_buses", Len(a3), v4)
        /\ r5 = At("edges", Len(a4), v5) /\ r6 = At("router", Len(a5), v6)
        /\ r7 = At("render_settings", Len(a6), v7) /\ r8 = At("routing_settings", Len(a7), v8)
  OBVIOUS
<1>5. /\ r1.field = "stops" /\ r2.field = "buses" /\ r3.field = "distances"
      /\ r4.field = "edges_to_buses" /\ r5.field = "edges" /\ r6.field = "router"
      /\ r7.field = "render_settings" /\ r8.field = "routing_settings"
  BY <1>4 DEF At
<1>6. Laid(W, <<>>, {}) /\ Len(<<>>) = 0
  BY DEF Laid, Lacks
<1>7. e1 \in Seq(Element(W))
  BY <1>0, <1>1, <1>v1, ElementsSeq
<1>8. Laid(W, e1, {r1}) /\ Len(e1) = Len(v1)
  <2>1. <<>> \o e1 = e1
    BY <1>7, ConcatEmptySeq
  <2>2. "stops" \notin Names({})
    BY DEF Names
  <2>3. /\ Laid(W, <<>> \o e1, {} \cup {r1}) /\ Len(<<>> \o e1) = 0 + Len(v1)
        /\ Len(<<>>) \in Nat
    <3>1. "stops" \in FieldName /\ v1 \in Seq(W) /\ Laid(W, <<>>, {})
      BY <1>0, <1>6, <1>v1
    <3>2. /\ Laid(W, <<>> \o Elements("stops", v1), {} \cup {At("stops", Len(<<>>), v1)})
          /\ Len(<<>>) \in Nat /\ Len(<<>> \o Elements("stops", v1)) = Len(<<>>) + Len(v1)
      BY <2>2, <3>1, LaidOn
    <3> QED
      BY <1>1, <1>4, <1>6, <3>2
  <2>4. Len(v1) \in Nat
    BY <1>v1
  <2> QED
    BY <2>1, <2>3, <2>4
<1>9. /\ Laid(W, a2, {r1} \cup {r2})
      /\ Len(e1) \in Nat /\ Len(a2) = Len(e1) + Len(v2)
  <2>1. /\ "buses" \notin Names({r1}) /\ "buses" \in FieldName
        /\ v2 \in Seq(W) /\ Laid(W, e1, {r1})
    BY <1>0, <1>5, <1>8, <1>v2 DEF Names
  <2>2. /\ Laid(W, e1 \o Elements("buses", v2), ({r1}) \cup {At("buses", Len(e1), v2)})
        /\ Len(e1) \in Nat /\ Len(e1 \o Elements("buses", v2)) = Len(e1) + Len(v2)
    BY <2>1, LaidOn
  <2> QED
    BY <1>1, <1>2, <1>4, <2>2
<1>10. /\ Laid(W, a3, {r1} \cup {r2} \cup {r3})
       /\ Len(a2) \in Nat /\ Len(a3) = Len(a2) + Len(v3)
  <2>1. /\ "distances" \notin Names({r1} \cup {r2}) /\ "distances" \in FieldName
        /\ v3 \in Seq(W) /\ Laid(W, a2, {r1} \cup {r2})
    BY <1>0, <1>5, <1>9, <1>v3 DEF Names
  <2>2. /\ Laid(W, a2 \o Elements("distances", v3), ({r1} \cup {r2}) \cup {At("distances", Len(a2), v3)})
        /\ Len(a2) \in Nat /\ Len(a2 \o Elements("distances", v3)) = Len(a2) + Len(v3)
    BY <2>1, LaidOn
  <2> QED
    BY <1>1, <1>2, <1>4, <2>2
<1>11. /\ Laid(W, a4, {r1} \cup {r2} \cup {r3} \cup {r4})
       /\ Len(a3) \in Nat /\ Len(a4) = Len(a3) + Len(v4)
  <2>1. /\ "edges_to_buses" \notin Names({r1} \cup {r2} \cup {r3}) /\ "edges_to_buses" \in FieldName
        /\ v4 \in Seq(W) /\ Laid(W, a3, {r1} \cup {r2} \cup {r3})
    BY <1>0, <1>5, <1>10, <1>v4 DEF Names
  <2>2. /\ Laid(W, a3 \o Elements("edges_to_buses", v4), ({r1} \cup {r2} \cup {r3}) \cup {At("edges_to_buses", Len(a3), v4)})
        /\ Len(a3) \in Nat /\ Len(a3 \o Elements("edges_to_buses", v4)) = Len(a3) + Len(v4)
    BY <2>1, LaidOn
  <2> QED
    BY <1>1, <1>2, <1>4, <2>2
<1>12. /\ Laid(W, a5, {r1} \cup {r2} \cup {r3} \cup {r4} \cup {r5})
       /\ Len(a4) \in Nat /\ Len(a5) = Len(a4) + Len(v5)
  <2>1. /\ "edges" \notin Names({r1} \cup {r2} \cup {r3} \cup {r4}) /\ "edges" \in FieldName
        /\ v5 \in Seq(W) /\ Laid(W, a4, {r1} \cup {r2} \cup {r3} \cup {r4})
    BY <1>0, <1>5, <1>11, <1>v5 DEF Names
  <2>2. /\ Laid(W, a4 \o Elements("edges", v5), ({r1} \cup {r2} \cup {r3} \cup {r4}) \cup {At("edges", Len(a4), v5)})
        /\ Len(a4) \in Nat /\ Len(a4 \o Elements("edges", v5)) = Len(a4) + Len(v5)
    BY <2>1, LaidOn
  <2> QED
    BY <1>1, <1>2, <1>4, <2>2
<1>13. /\ Laid(W, a6, {r1} \cup {r2} \cup {r3} \cup {r4} \cup {r5} \cup {r6})
       /\ Len(a5) \in Nat /\ Len(a6) = Len(a5) + Len(v6)
  <2>1. /\ "router" \notin Names({r1} \cup {r2} \cup {r3} \cup {r4} \cup {r5}) /\ "router" \in FieldName
        /\ v6 \in Seq(W) /\ Laid(W, a5, {r1} \cup {r2} \cup {r3} \cup {r4} \cup {r5})
    BY <1>0, <1>5, <1>12, <1>v6 DEF Names
  <2>2. /\ Laid(W, a5 \o Elements("router", v6), ({r1} \cup {r2} \cup {r3} \cup {r4} \cup {r5}) \cup {At("router", Len(a5), v6)})
        /\ Len(a5) \in Nat /\ Len(a5 \o Elements("router", v6)) = Len(a5) + Len(v6)
    BY <2>1, LaidOn
  <2> QED
    BY <1>1, <1>2, <1>4, <2>2
<1>14. /\ Laid(W, a7, {r1} \cup {r2} \cup {r3} \cup {r4} \cup {r5} \cup {r6} \cup {r7})
       /\ Len(a6) \in Nat /\ Len(a7) = Len(a6) + Len(v7)
  <2>1. /\ "render_settings" \notin Names({r1} \cup {r2} \cup {r3} \cup {r4} \cup {r5} \cup {r6}) /\ "render_settings" \in FieldName
        /\ v7 \in Seq(W) /\ Laid(W, a6, {r1} \cup {r2} \cup {r3} \cup {r4} \cup {r5} \cup {r6})
    BY <1>0, <1>5, <1>13, <1>v7 DEF Names
  <2>2. /\ Laid(W, a6 \o Elements("render_settings", v7), ({r1} \cup {r2} \cup {r3} \cup {r4} \cup {r5} \cup {r6}) \cup {At("render_settings", Len(a6), v7)})
        /\ Len(a6) \in Nat /\ Len(a6 \o Elements("render_settings", v7)) = Len(a6) + Len(v7)
    BY <2>1, LaidOn
  <2> QED
    BY <1>1, <1>2, <1>4, <2>2
<1>15. /\ Laid(W, m, {r1} \cup {r2} \cup {r3} \cup {r4} \cup {r5} \cup {r6} \cup {r7} \cup {r8})
       /\ Len(a7) \in Nat /\ Len(m) = Len(a7) + Len(v8)
  <2>1. /\ "routing_settings" \notin Names({r1} \cup {r2} \cup {r3} \cup {r4} \cup {r5} \cup {r6} \cup {r7}) /\ "routing_settings" \in FieldName
        /\ v8 \in Seq(W) /\ Laid(W, a7, {r1} \cup {r2} \cup {r3} \cup {r4} \cup {r5} \cup {r6} \cup {r7})
    BY <1>0, <1>5, <1>14, <1>v8 DEF Names
  <2>2. /\ Laid(W, a7 \o Elements("routing_settings", v8), ({r1} \cup {r2} \cup {r3} \cup {r4} \cup {r5} \cup {r6} \cup {r7}) \cup {At("routing_settings", Len(a7), v8)})
        /\ Len(a7) \in Nat /\ Len(a7 \o Elements("routing_settings", v8)) = Len(a7) + Len(v8)
    BY <2>1, LaidOn
  <2> QED
    BY <1>1, <1>3, <1>4, <2>2
<1>16. /\ m \in Seq(Element(W))
       /\ \A r \in {r1, r2, r3, r4, r5, r6, r7, r8} : Block(m, r.field, r.lo, r.vals)
  BY <1>15 DEF Laid
<1>17. /\ Block(m, "stops", 0, v1) /\ Block(m, "buses", Len(e1), v2)
       /\ Block(m, "distances", Len(a2), v3) /\ Block(m, "edges_to_buses", Len(a3), v4)
       /\ Block(m, "edges", Len(a4), v5) /\ Block(m, "router", Len(a5), v6)
       /\ Block(m, "render_settings", Len(a6), v7) /\ Block(m, "routing_settings", Len(a7), v8)
  <2>1. \A g, lo, vals : /\ At(g, lo, vals).field = g /\ At(g, lo, vals).lo = lo
                         /\ At(g, lo, vals).vals = vals
    BY DEF At
  <2> QED
    BY <1>4, <1>16, <2>1
<1>18. m = e1 \o e2 \o e3 \o e4 \o e5 \o e6 \o (e7 \o e8)
  <2>1. a6 \in Seq(Element(W)) /\ e7 \in Seq(Element(W)) /\ e8 \in Seq(Element(W))
    BY <1>0, <1>1, <1>13, <1>v7, <1>v8, ElementsSeq DEF Laid
  <2>2. (a6 \o e7) \o e8 = a6 \o (e7 \o e8)
    BY <2>1, ConcatAssociative
  <2> QED
    BY <1>2, <1>3, <2>2
<1>19. Layout(W, m, Len(m), v1, v2, v3, v4, v5, v6, v7, v8,
              Len(e1), Len(a2), Len(a3), Len(a4), Len(a5), Len(a6), Len(a7))
  BY <1>8, <1>9, <1>10, <1>11, <1>12, <1>13, <1>14, <1>15, <1>16, <1>17 DEF Layout
<1> QED
  BY <1>1, <1>18, <1>19

-----------------------------------------------------------------------------
(* The file *)

\* What there is of a message in a file that was cut off.
Cut(m, f) ==
    /\ Len(f) \in Nat /\ Len(f) <= Len(m) /\ DOMAIN f = 1 .. Len(f)
    /\ \A i \in 1 .. Len(f) : f[i] = m[i] \/ (i = Len(f) /\ f[i] \in Torn(m[i]))

\* A torn element still has its field.
LEMMA TornField ==
    ASSUME NEW e, NEW t \in Torn(e)
    PROVE  t = [field |-> e.field, value |-> t.value]
<1> DEFINE values == CASE e.field = "buses" -> CutBus(e.value)
                       [] e.field = "router" -> CutRow(e.value)
                       [] e.field = "edges_to_buses" -> CutList(e.value)
                       [] e.field = "render_settings" -> CutRenderSettings(e.value)
                       [] OTHER -> CutMessage(e.value, FieldOrder[e.field])
<1>1. Torn(e) = {[field |-> e.field, value |-> v] : v \in values}
  BY DEF Torn
<1> HIDE DEF values
<1>2. PICK v \in values : t = [field |-> e.field, value |-> v]
  BY <1>1
<1> QED
  BY <1>2

\* Of l elements behind the first lo, k are before the n-th is over.
Extent(n, lo, l, k) == k = IF n <= lo THEN 0 ELSE IF n >= lo + l THEN l ELSE n - lo

\* Those are found, each that of the message, but for the last of the file,
\* which may be torn.
Found(n, g, lo, vals, v, k) ==
    /\ Extent(n, lo, Len(vals), k)
    /\ k \in 0 .. Len(vals) /\ DOMAIN v = 1 .. k /\ v \in [1 .. k -> ToSet(v)]
    /\ \A j \in 1 .. k :
         \/ v[j] = vals[j]
         \/ /\ lo + j = n
            /\ [field |-> g, value |-> v[j]] \in Torn([field |-> g, value |-> vals[j]])

\* What a cut message holds of a field whose elements are one block of it.
LEMMA FieldOfCut ==
    ASSUME NEW m, NEW f, NEW g, NEW lo \in Nat, NEW vals, Len(vals) \in Nat, Len(m) \in Nat,
           Block(m, g, lo, vals), Cut(m, f)
    PROVE  \E k : Found(Len(f), g, lo, vals, Field(f, g), k)
<1>1. PICK n, l : n = Len(f) /\ l = Len(vals)
  OBVIOUS
<1>2. PICK k : k = IF n <= lo THEN 0 ELSE IF n >= lo + l THEN l ELSE n - lo
  OBVIOUS
<1>3. /\ n \in Nat /\ l \in Nat /\ k \in 0 .. l /\ lo + l <= Len(m) /\ n <= Len(m)
      /\ DOMAIN f = 1 .. n
  <2>1. Len(f) \in Nat /\ Len(f) <= Len(m) /\ DOMAIN f = 1 .. Len(f)
    BY DEF Cut
  <2>2. lo + Len(vals) <= Len(m)
    BY DEF Block
  <2>3. n \in Nat /\ l \in Nat /\ lo + l <= Len(m) /\ n <= Len(m) /\ DOMAIN f = 1 .. n
    BY <1>1, <2>1, <2>2
  <2>4. k \in 0 .. l
    BY <1>2, <2>3
  <2> QED
    BY <2>3, <2>4
<1>4. \A i \in 1 .. n : i \in lo + 1 .. lo + k <=> i \in lo + 1 .. lo + l
  BY <1>2, <1>3
<1>5. \A j \in 1 .. k : lo + j \in 1 .. n /\ j \in 1 .. l
  BY <1>2, <1>3
<1>6. ASSUME NEW i \in 1 .. n
      PROVE  f[i].field = m[i].field
  <2>1. f[i] = m[i] \/ f[i] \in Torn(m[i])
    BY <1>1 DEF Cut
  <2>2. CASE f[i] \in Torn(m[i])
    <3>1. f[i] = [field |-> m[i].field, value |-> f[i].value]
      BY <2>2, TornField
    <3> QED
      BY <3>1
  <2> QED
    BY <2>1, <2>2
<1>7. \A i \in 1 .. n : f[i].field = g <=> i \in lo + 1 .. lo + k
  <2> SUFFICES ASSUME NEW i \in 1 .. n PROVE f[i].field = g <=> i \in lo + 1 .. lo + k
    OBVIOUS
  <2>1. i \in 1 .. Len(m)
    BY <1>3
  <2>2. m[i].field = g <=> i \in lo + 1 .. lo + l
    BY <1>1, <2>1 DEF Block
  <2> QED
    BY <1>4, <1>6, <2>2
<1>8. PICK s : s = [j \in 1 .. k |-> lo + j]
  OBVIOUS
<1>9. PICK S : S = {i \in DOMAIN f : f[i].field = g}
  OBVIOUS
<1>10. s = Ascending(S) /\ DOMAIN s = 1 .. k
  <2>1. s \in [1 .. k -> Int]
    BY <1>3, <1>8
  <2>2. s \in Seq(Int) /\ Len(s) = k
    BY <1>3, <2>1, FunctionSeq
  <2>3. \A i, j \in 1 .. Len(s) : i < j => s[i] < s[j]
    BY <1>3, <1>8, <2>2
  <2>4. ToSet(s) = S
    <3>1. S = {i \in 1 .. n : i \in lo + 1 .. lo + k}
      BY <1>3, <1>7, <1>9
    <3>2. ASSUME NEW i \in S PROVE i \in ToSet(s)
      <4>1. i \in 1 .. n /\ i \in lo + 1 .. lo + k
        BY <3>1
      <4>2. i - lo \in 1 .. k /\ lo + (i - lo) = i
        BY <1>3, <4>1
      <4>3. i - lo \in DOMAIN s /\ s[i - lo] = i
        BY <1>8, <4>2
      <4> QED
        BY <4>3 DEF ToSet
    <3>3. ASSUME NEW i \in ToSet(s) PROVE i \in S
      <4>1. PICK j \in 1 .. k : i = lo + j
        BY <1>8 DEF ToSet
      <4>2. i \in 1 .. n /\ i \in lo + 1 .. lo + k
        BY <1>3, <1>5, <4>1
      <4> QED
        BY <3>1, <4>2
    <3> QED
      BY <3>2, <3>3
  <2>5. s = Ascending(ToSet(s))
    BY <2>2, <2>3, AscendingUnique
  <2> QED
    BY <1>8, <2>4, <2>5
<1>11. PICK v : v = Field(f, g)
  OBVIOUS
<1>12. v = [j \in 1 .. k |-> f[lo + j].value]
  <2>1. Field(f, g) = [j \in DOMAIN s |-> f[s[j]].value]
    BY <1>9, <1>10 DEF Field, Filter
  <2>2. \A j \in 1 .. k : s[j] = lo + j
    BY <1>8
  <2> QED
    BY <1>10, <1>11, <2>1, <2>2
<1>13. DOMAIN v = 1 .. k /\ v \in [1 .. k -> ToSet(v)]
  BY <1>12 DEF ToSet
<1>14. ASSUME NEW j \in 1 .. k
       PROVE  \/ v[j] = vals[j]
              \/ /\ lo + j = n
                 /\ [field |-> g, value |-> v[j]] \in Torn([field |-> g, value |-> vals[j]])
  <2>1. PICK i : i = lo + j
    OBVIOUS
  <2>2. i \in 1 .. n /\ j \in 1 .. l
    BY <1>5, <2>1
  <2>3. m[i] = [field |-> g, value |-> vals[j]]
    BY <1>1, <2>1, <2>2 DEF Block
  <2>4. v[j] = f[i].value
    BY <1>12, <2>1
  <2>5. CASE f[i] = m[i]
    BY <2>3, <2>4, <2>5
  <2>6. CASE i = n /\ f[i] \in Torn(m[i])
    <3>1. m[i].field = g
      BY <2>3
    <3>2. f[i] = [field |-> g, value |-> v[j]]
      BY <2>4, <2>6, <3>1, TornField
    <3> QED
      BY <2>1, <2>3, <2>6, <3>2
  <2> QED
    BY <1>1, <2>2, <2>5, <2>6 DEF Cut
<1>15. Found(n, g, lo, vals, v, k)
  <2>1. k \in 0 .. Len(vals)
    BY <1>1, <1>3
  <2>2. Extent(n, lo, Len(vals), k)
    BY <1>1, <1>2 DEF Extent
  <2> QED
    BY <1>13, <1>14, <2>1, <2>2 DEF Found
<1> QED
  BY <1>1, <1>11, <1>15

-----------------------------------------------------------------------------
(* The values of the fields *)

BusValues(db) == [n \in DOMAIN db.buses |-> BusToProto(db, db.buses[n])]
DistanceValues(db, pairs) == [n \in DOMAIN pairs |-> DistanceToProto(db, pairs[n])]
EdgeBusIds(db) == [n \in DOMAIN db.edges_to_buses |-> BusId(db, db.edges_to_buses[n])]
EdgeBusValues(db) == IF EdgeBusIds(db) = <<>> THEN <<>> ELSE <<EdgeBusIds(db)>>
RowValue(row) == [w \in DOMAIN row |-> EntryToProto(row[w])]
RowValues(table) == [v \in DOMAIN table |-> RowValue(table[v])]

\* A message consists of the elements of these values.
LEMMA MessageFields ==
    ASSUME NEW origin, NEW pairs
    PROVE  Message(origin, pairs) =
             Elements("stops", origin.db.stops) \o Elements("buses", BusValues(origin.db))
             \o Elements("distances", DistanceValues(origin.db, pairs))
             \o Elements("edges_to_buses", EdgeBusValues(origin.db)) \o Elements("edges", origin.edges)
             \o Elements("router", RowValues(origin.table))
             \o (Elements("render_settings", <<origin.drawing>>)
                 \o Elements("routing_settings", <<RoutingSettingsToProto(origin.routing)>>))
  BY DEF Message, StopElements, BusElements, DistanceElements, EdgeBusElements, RouterElements,
         SettingsElements, BusValues, DistanceValues, EdgeBusIds, EdgeBusValues, RowValue, RowValues

\* What a base consists of.
LEMMA BaseFields ==
    ASSUME NEW origin \in Base
    PROVE  /\ origin.db \in Catalogue /\ origin.edges \in Seq(Edge)
           /\ origin.table \in Seq(Seq({NoRoute} \cup RouteInternalData))
  BY DEF Base

\* The pairs that are stored are finitely many.
LEMMA PairsAreSeq ==
    ASSUME NEW db \in Catalogue, Resolved(db), NEW pairs \in SetToSeqs(StoredPairs(db))
    PROVE  pairs \in Seq(StoredPairs(db)) /\ Len(pairs) \in Nat
<1>1. IsFiniteSet(StopNames(db) \cup {NoStop})
  <2>1. IsFiniteSet(StopNames(db)) /\ IsFiniteSet({NoStop})
    BY NamesAreFinite, FS_Singleton
  <2> QED
    BY <2>1, FS_Union
<1>2. IsFiniteSet((StopNames(db) \cup {NoStop}) \X (StopNames(db) \cup {NoStop}))
  BY <1>1, FS_Product
<1>3. StoredPairs(db) \subseteq (StopNames(db) \cup {NoStop}) \X (StopNames(db) \cup {NoStop})
  BY DEF StoredPairs, Resolved
<1>4. IsFiniteSet(StoredPairs(db))
  BY <1>2, <1>3, FS_Subset
<1>5. Cardinality(StoredPairs(db)) \in Nat
  BY <1>4, FS_CardinalityType
<1>6. pairs \in [1 .. Cardinality(StoredPairs(db)) -> StoredPairs(db)]
  BY DEF SetToSeqs
<1> QED
  BY <1>5, <1>6, FunctionSeq

\* A sequence is one over every set that has its elements.
LEMMA LenOf ==
    ASSUME NEW n \in Nat, NEW v, v = [i \in 1 .. n |-> v[i]]
    PROVE  v \in Seq(ToSet(v)) /\ Len(v) = n
<1>1. v \in [1 .. n -> ToSet(v)]
  BY DEF ToSet
<1> QED
  BY <1>1, FunctionSeq

\* A function over 1 .. n is a sequence of what its values are of.
LEMMA SeqOver ==
    ASSUME NEW W, NEW n \in Nat, NEW v, v \in [1 .. n -> ToSet(v)], ToSet(v) \subseteq W
    PROVE  v \in Seq(W) /\ Len(v) = n
<1>1. v \in [1 .. n -> W]
  OBVIOUS
<1> QED
  BY <1>1, FunctionSeq

\* How many values a field has.
LEMMA ValuesAreSeqs ==
    ASSUME NEW origin \in Base, Resolved(origin.db), NEW pairs \in SetToSeqs(StoredPairs(origin.db))
    PROVE  LET db == origin.db IN
           /\ \E n \in Nat : db.stops \in [1 .. n -> ToSet(db.stops)] /\ n = Len(db.stops)
           /\ \E n \in Nat : BusValues(db) \in [1 .. n -> ToSet(BusValues(db))] /\ n = Len(db.buses)
           /\ \E n \in Nat : DistanceValues(db, pairs) \in [1 .. n -> ToSet(DistanceValues(db, pairs))]
                             /\ n = Len(pairs)
           /\ \E n \in Nat : EdgeBusValues(db) \in [1 .. n -> ToSet(EdgeBusValues(db))]
                             /\ n = IF EdgeBusIds(db) = <<>> THEN 0 ELSE 1
           /\ \E n \in Nat : origin.edges \in [1 .. n -> ToSet(origin.edges)] /\ n = Len(origin.edges)
           /\ \E n \in Nat : RowValues(origin.table) \in [1 .. n -> ToSet(RowValues(origin.table))]
                             /\ n = Len(origin.table)
<1> DEFINE db == origin.db
<1>1. db \in Catalogue /\ origin.edges \in Seq(Edge)
      /\ origin.table \in Seq(Seq({NoRoute} \cup RouteInternalData))
  BY BaseFields
<1>2. db.stops \in Seq(Stop) /\ db.buses \in Seq(Bus)
  BY <1>1, CatalogueFields
<1>3. pairs \in Seq(StoredPairs(db))
  BY <1>1, PairsAreSeq
<1> HIDE DEF db
<1>4. \E n \in Nat : db.stops \in [1 .. n -> ToSet(db.stops)] /\ n = Len(db.stops)
  BY <1>2 DEF ToSet
<1>5. \E n \in Nat : BusValues(db) \in [1 .. n -> ToSet(BusValues(db))] /\ n = Len(db.buses)
  <2>1. DOMAIN db.buses = 1 .. Len(db.buses) /\ Len(db.buses) \in Nat
    BY <1>2
  <2> QED
    BY <2>1 DEF BusValues, ToSet
<1>6. \E n \in Nat : DistanceValues(db, pairs) \in [1 .. n -> ToSet(DistanceValues(db, pairs))]
                     /\ n = Len(pairs)
  <2>1. DOMAIN pairs = 1 .. Len(pairs) /\ Len(pairs) \in Nat
    BY <1>3
  <2> QED
    BY <2>1 DEF DistanceValues, ToSet
<1>7. \E n \in Nat : EdgeBusValues(db) \in [1 .. n -> ToSet(EdgeBusValues(db))]
                     /\ n = IF EdgeBusIds(db) = <<>> THEN 0 ELSE 1
  <2>1. <<>> \in [1 .. 0 -> ToSet(<<>>)]
    BY DEF ToSet
  <2>2. \A x : <<x>> \in [1 .. 1 -> ToSet(<<x>>)]
    BY DEF ToSet
  <2> QED
    BY <2>1, <2>2 DEF EdgeBusValues
<1>8. \E n \in Nat : origin.edges \in [1 .. n -> ToSet(origin.edges)] /\ n = Len(origin.edges)
  BY <1>1 DEF ToSet
<1>9. \E n \in Nat : RowValues(origin.table) \in [1 .. n -> ToSet(RowValues(origin.table))]
                     /\ n = Len(origin.table)
  <2>1. DOMAIN origin.table = 1 .. Len(origin.table) /\ Len(origin.table) \in Nat
    BY <1>1
  <2> QED
    BY <2>1 DEF RowValues, ToSet
<1> QED
  BY <1>4, <1>5, <1>6, <1>7, <1>8, <1>9 DEF db

\* A message is laid out in eight fields.
LEMMA MessageLayout ==
    ASSUME NEW origin \in Base, Resolved(origin.db), NEW pairs \in SetToSeqs(StoredPairs(origin.db))
    PROVE  LET db == origin.db
               v2 == BusValues(db)
               v3 == DistanceValues(db, pairs)
               v4 == EdgeBusValues(db)
               v6 == RowValues(origin.table)
           IN  /\ \E W, n, l2, l3, l4, l5, l6, l7, l8 :
                    Layout(W, Message(origin, pairs), n, db.stops, v2, v3, v4, origin.edges, v6,
                           <<origin.drawing>>, <<RoutingSettingsToProto(origin.routing)>>,
                           l2, l3, l4, l5, l6, l7, l8)
               /\ Len(db.stops) \in Nat /\ Len(v2) = Len(db.buses) /\ Len(v2) \in Nat
               /\ Len(v3) = Len(pairs) /\ Len(v3) \in Nat
               /\ Len(v4) = IF EdgeBusIds(db) = <<>> THEN 0 ELSE 1
               /\ Len(origin.edges) \in Nat /\ Len(v6) = Len(origin.table) /\ Len(v6) \in Nat
<1>1. PICK v1, v2, v3, v4, v5, v6, v7, v8 :
         /\ v1 = origin.db.stops /\ v2 = BusValues(origin.db) /\ v3 = DistanceValues(origin.db, pairs)
         /\ v4 = EdgeBusValues(origin.db) /\ v5 = origin.edges /\ v6 = RowValues(origin.table)
         /\ v7 = <<origin.drawing>> /\ v8 = <<RoutingSettingsToProto(origin.routing)>>
  OBVIOUS
<1>2. PICK n1 \in Nat, n2 \in Nat, n3 \in Nat, n4 \in Nat, n5 \in Nat, n6 \in Nat :
         /\ v1 \in [1 .. n1 -> ToSet(v1)] /\ n1 = Len(origin.db.stops)
         /\ v2 \in [1 .. n2 -> ToSet(v2)] /\ n2 = Len(origin.db.buses)
         /\ v3 \in [1 .. n3 -> ToSet(v3)] /\ n3 = Len(pairs)
         /\ v4 \in [1 .. n4 -> ToSet(v4)] /\ n4 = IF EdgeBusIds(origin.db) = <<>> THEN 0 ELSE 1
         /\ v5 \in [1 .. n5 -> ToSet(v5)] /\ n5 = Len(origin.edges)
         /\ v6 \in [1 .. n6 -> ToSet(v6)] /\ n6 = Len(origin.table)
  BY <1>1, ValuesAreSeqs
<1>3. v7 \in [1 .. 1 -> ToSet(v7)] /\ v8 \in [1 .. 1 -> ToSet(v8)] /\ 1 \in Nat
  BY <1>1 DEF ToSet
<1>4. PICK W : W = UNION {ToSet(v) : v \in {v1, v2, v3, v4, v5, v6, v7, v8}}
  OBVIOUS
<1>5. \A v \in {v1, v2, v3, v4, v5, v6, v7, v8} : ToSet(v) \subseteq W
  BY <1>4
<1>6. /\ v1 \in Seq(W) /\ Len(v1) = n1 /\ v2 \in Seq(W) /\ Len(v2) = n2
      /\ v3 \in Seq(W) /\ Len(v3) = n3 /\ v4 \in Seq(W) /\ Len(v4) = n4
  <2>0. ToSet(v1) \subseteq W /\ ToSet(v2) \subseteq W
    BY <1>5
  <2>1. v1 \in Seq(W) /\ Len(v1) = n1
    <3>1. v1 \in [1 .. n1 -> ToSet(v1)]
      BY <1>2
    <3> QED
      BY <2>0, <3>1, SeqOver
  <2>4. v2 \in Seq(W) /\ Len(v2) = n2
    <3>1. v2 \in [1 .. n2 -> ToSet(v2)]
      BY <1>2
    <3> QED
      BY <2>0, <3>1, SeqOver
  <2>2. v3 \in Seq(W) /\ Len(v3) = n3
    BY <1>2, <1>5, SeqOver
  <2>3. v4 \in Seq(W) /\ Len(v4) = n4
    BY <1>2, <1>5, SeqOver
  <2> QED
    BY <2>1, <2>2, <2>3, <2>4
<1>7. /\ v5 \in Seq(W) /\ Len(v5) = n5 /\ v6 \in Seq(W) /\ Len(v6) = n6
      /\ v7 \in Seq(W) /\ v8 \in Seq(W)
  BY <1>2, <1>3, <1>5, SeqOver
<1>8. PICK m, n, l2, l3, l4, l5, l6, l7, l8 :
         /\ m = Elements("stops", v1) \o Elements("buses", v2) \o Elements("distances", v3)
                \o Elements("edges_to_buses", v4) \o Elements("edges", v5)
                \o Elements("router", v6)
                \o (Elements("render_settings", v7) \o Elements("routing_settings", v8))
         /\ Layout(W, m, n, v1, v2, v3, v4, v5, v6, v7, v8, l2, l3, l4, l5, l6, l7, l8)
  <2>1. {v1, v2, v3, v4, v5, v6, v7, v8} \subseteq Seq(W)
    BY <1>6, <1>7
  <2> QED
    BY <2>1, EightFields
<1>9. m = Message(origin, pairs)
  BY <1>1, <1>8, MessageFields
<1> QED
  BY <1>1, <1>2, <1>6, <1>7, <1>8, <1>9

-----------------------------------------------------------------------------
(* Indices point at what they stand for, torn or not *)

\* The index written for a stop is that of the stop in the file.
LEMMA StopIdOf ==
    ASSUME NEW db \in Catalogue, NEW s \in StopNames(db)
    PROVE  /\ StopId(db, s) + 1 \in 1 .. Len(db.stops) /\ StopId(db, s) \in Nat
           /\ db.stops[StopId(db, s) + 1].name = s
<1>1. \E n \in DOMAIN db.stops : db.stops[n].name = s
  BY DEF StopNames
<1>2. PICK n : n = CHOOSE k \in DOMAIN db.stops : db.stops[k].name = s
  OBVIOUS
<1>3. n \in DOMAIN db.stops /\ db.stops[n].name = s
  BY <1>1, <1>2
<1>4. db.stops \in Seq(Stop)
  BY CatalogueFields
<1>5. n \in 1 .. Len(db.stops) /\ n \in Int /\ Len(db.stops) \in Nat
  BY <1>3, <1>4
<1>6. StopId(db, s) = n - 1
  BY <1>2 DEF StopId
<1>7. n - 1 + 1 = n /\ n - 1 \in Nat
  BY <1>5
<1> QED
  BY <1>3, <1>5, <1>6, <1>7

\* The index written for a bus is that of a bus in the file.
LEMMA BusIdOf ==
    ASSUME NEW db \in Catalogue, NEW b \in BusNames(db)
    PROVE  BusId(db, b) + 1 \in 1 .. Len(db.buses) /\ BusId(db, b) \in Nat
<1>1. \E n \in DOMAIN db.buses : db.buses[n].name = b
  BY DEF BusNames
<1>2. PICK n : n = CHOOSE k \in DOMAIN db.buses : db.buses[k].name = b
  OBVIOUS
<1>3. n \in DOMAIN db.buses /\ db.buses[n].name = b
  BY <1>1, <1>2
<1>4. db.buses \in Seq(Bus)
  BY CatalogueFields
<1>5. n \in 1 .. Len(db.buses) /\ n \in Int /\ Len(db.buses) \in Nat
  BY <1>3, <1>4
<1>6. BusId(db, b) = n - 1
  BY <1>2 DEF BusId
<1>7. n - 1 + 1 = n /\ n - 1 \in Nat
  BY <1>5
<1> QED
  BY <1>5, <1>6, <1>7

\* How the value of a torn element is torn.
LEMMA TornValue ==
    ASSUME NEW g, NEW w, NEW v,
           [field |-> g, value |-> v] \in Torn([field |-> g, value |-> w])
    PROVE  /\ g = "buses" => v \in CutBus(w)
           /\ g = "router" => v \in CutRow(w)
           /\ g = "edges_to_buses" => v \in CutList(w)
           /\ g \in {"distances", "edges"} => v \in CutMessage(w, FieldOrder[g])
<1>1. PICK e : e = [field |-> g, value |-> w]
  OBVIOUS
<1>2. e.field = g /\ e.value = w
  BY <1>1
<1> DEFINE values == CASE e.field = "buses" -> CutBus(e.value)
                       [] e.field = "router" -> CutRow(e.value)
                       [] e.field = "edges_to_buses" -> CutList(e.value)
                       [] e.field = "render_settings" -> CutRenderSettings(e.value)
                       [] OTHER -> CutMessage(e.value, FieldOrder[e.field])
<1>3. Torn(e) = {[field |-> e.field, value |-> x] : x \in values}
  BY DEF Torn
<1>4. /\ g = "buses" => values = CutBus(w)
      /\ g = "router" => values = CutRow(w)
      /\ g = "edges_to_buses" => values = CutList(w)
      /\ g \in {"distances", "edges"} => values = CutMessage(w, FieldOrder[g])
  BY <1>2
<1> HIDE DEF values
<1>5. PICK x \in values : [field |-> g, value |-> v] = [field |-> e.field, value |-> x]
  BY <1>1, <1>3
<1>6. v = x
  BY <1>5
<1> QED
  BY <1>4, <1>5, <1>6

\* A field of a torn message is what it was, or missing.
LEMMA TornMember ==
    ASSUME NEW w, NEW order, NEW v \in CutMessage(w, order), NEW f \in DOMAIN w
    PROVE  v[f] = w[f] \/ v[f] = Missing[f]
  BY DEF CutMessage, CutAfter

\* A list that is cut has no other elements.
LEMMA TornList ==
    ASSUME NEW W, NEW w \in Seq(W), NEW v \in CutList(w)
    PROVE  v \in Seq(W) /\ Len(v) \in Nat /\ ToSet(v) \subseteq ToSet(w)
<1>1. PICK n \in 0 .. Len(w) - 1 : v = SubSeq(w, 1, n)
  BY DEF CutList
<1>2. /\ Len(w) \in Nat /\ n \in Nat /\ n <= Len(w) /\ DOMAIN w = 1 .. Len(w)
      /\ v \in Seq(W) /\ Len(v) = n /\ \A i \in 1 .. n : v[i] = w[i]
  BY <1>1
<1>3. DOMAIN v = 1 .. n
  BY <1>2
<1> QED
  BY <1>2, <1>3 DEF ToSet

\* The stops of a bus in the file are among the first n.
HasStops(p, n) ==
    /\ p.start_stop + 1 \in 1 .. n /\ p.end_stop + 1 \in 1 .. n
    /\ \A id \in ToSet(p.route) : id + 1 \in 1 .. n

\* A bus is written with indices of stops that are written.
LEMMA BusHasStops ==
    ASSUME NEW db \in Catalogue, NEW bus \in Bus, ToSet(bus.route) \subseteq StopNames(db),
           bus.start_stop \in StopNames(db), bus.end_stop \in StopNames(db)
    PROVE  /\ HasStops(BusToProto(db, bus), Len(db.stops))
           /\ BusToProto(db, bus).route \in Seq(Nat)
<1>1. PICK p : p = BusToProto(db, bus)
  OBVIOUS
<1>2. /\ p.route = [n \in DOMAIN bus.route |-> StopId(db, bus.route[n])]
      /\ p.start_stop = StopId(db, bus.start_stop) /\ p.end_stop = StopId(db, bus.end_stop)
  BY <1>1 DEF BusToProto
<1>3. bus.route \in Seq(StopName)
  BY DEF Bus
<1>4. DOMAIN bus.route = 1 .. Len(bus.route) /\ Len(bus.route) \in Nat
  BY <1>3
<1>5. \A n \in DOMAIN bus.route : bus.route[n] \in StopNames(db)
  BY DEF ToSet
<1>6. \A n \in DOMAIN bus.route :
         /\ StopId(db, bus.route[n]) + 1 \in 1 .. Len(db.stops) /\ StopId(db, bus.route[n]) \in Nat
  BY <1>5, StopIdOf
<1>7. p.route \in Seq(Nat)
  <2>1. p.route \in [1 .. Len(bus.route) -> Nat]
    BY <1>2, <1>4, <1>6
  <2> QED
    BY <1>4, <2>1, FunctionSeq
<1>8. \A id \in ToSet(p.route) : id + 1 \in 1 .. Len(db.stops)
  BY <1>2, <1>6 DEF ToSet
<1>9. p.start_stop + 1 \in 1 .. Len(db.stops) /\ p.end_stop + 1 \in 1 .. Len(db.stops)
  BY <1>2, StopIdOf
<1> QED
  BY <1>1, <1>7, <1>8, <1>9 DEF HasStops

\* So is what a torn element leaves of it.
LEMMA TornBusHasStops ==
    ASSUME NEW db, NEW bus, NEW p, p = BusToProto(db, bus), p.route \in Seq(Nat),
           NEW n \in Nat, HasStops(p, n), NEW v \in CutBus(p)
    PROVE  HasStops(v, n)
<1>1. /\ Missing.start_stop = 0 /\ Missing.end_stop = 0 /\ Missing.route = <<>>
      /\ ToSet(<<>>) = {} /\ 0 + 1 \in 1 .. n
  BY DEF Missing, HasStops, ToSet
<1>2. {"start_stop", "end_stop", "route"} \subseteq DOMAIN p
  BY DEF BusToProto
<1>3. ASSUME NEW u \in CutMessage(p, FieldOrder.buses)
      PROVE  HasStops(u, n)
  <2>1. /\ u.start_stop = p.start_stop \/ u.start_stop = Missing.start_stop
        /\ u.end_stop = p.end_stop \/ u.end_stop = Missing.end_stop
        /\ u.route = p.route \/ u.route = Missing.route
    BY <1>2, TornMember
  <2> QED
    BY <1>1, <2>1 DEF HasStops
<1>4. ASSUME NEW r \in CutList(p.route)
      PROVE  HasStops([CutAfter(p, FieldOrder.buses, 1) EXCEPT !.route = r], n)
  <2>1. PICK u : u = CutAfter(p, FieldOrder.buses, 1)
    OBVIOUS
  <2>2. u \in CutMessage(p, FieldOrder.buses) /\ DOMAIN u = DOMAIN p
    <3>1. Len(FieldOrder.buses) = 6 /\ 1 \in 0 .. 6 - 1
      BY DEF FieldOrder
    <3> QED
      BY <2>1, <3>1 DEF CutMessage, CutAfter
  <2>3. PICK w : w = [u EXCEPT !.route = r]
    OBVIOUS
  <2>4. w.route = r /\ w.start_stop = u.start_stop /\ w.end_stop = u.end_stop
    BY <1>2, <2>2, <2>3
  <2>5. ToSet(r) \subseteq ToSet(p.route)
    BY TornList
  <2>6. HasStops(u, n)
    BY <1>3, <2>2
  <2>7. HasStops(w, n)
    BY <2>4, <2>5, <2>6 DEF HasStops
  <2> QED
    BY <2>1, <2>3, <2>7
<1> QED
  BY <1>3, <1>4 DEF CutBus

\* The stops of a distance in the file are among the first n, torn or not.
LEMMA DistanceHasStops ==
    ASSUME NEW db \in Catalogue, NEW p \in StopPair, p[1] \in StopNames(db), p[2] \in StopNames(db),
           NEW d, d = DistanceToProto(db, p),
           NEW v, v = d \/ v \in CutMessage(d, FieldOrder["distances"])
    PROVE  v.from + 1 \in 1 .. Len(db.stops) /\ v.to + 1 \in 1 .. Len(db.stops)
<1>1. d.from = StopId(db, p[1]) /\ d.to = StopId(db, p[2]) /\ {"from", "to"} \subseteq DOMAIN d
  BY DEF DistanceToProto
<1>2. /\ StopId(db, p[1]) + 1 \in 1 .. Len(db.stops)
      /\ StopId(db, p[2]) + 1 \in 1 .. Len(db.stops)
  BY StopIdOf
<1>3. Missing.from = 0 /\ Missing.to = 0
  BY DEF Missing
<1>4. /\ v.from = d.from \/ v.from = Missing.from
      /\ v.to = d.to \/ v.to = Missing.to
  BY <1>1, TornMember
<1>5. Len(db.stops) \in Nat
  BY CatalogueFields
<1>6. 0 + 1 \in 1 .. Len(db.stops)
  BY <1>2, <1>5
<1> QED
  BY <1>1, <1>2, <1>3, <1>4, <1>6

\* An edge in the file begins at one of the first n stops, torn or not.
LEMMA EdgeHasStop ==
    ASSUME NEW n \in Nat, NEW e \in Edge, e.from < n,
           NEW v, v = e \/ v \in CutMessage(e, FieldOrder["edges"])
    PROVE  v.from + 1 \in 1 .. n
<1>1. e.from \in Nat /\ "from" \in DOMAIN e
  BY DEF Edge
<1>2. Missing.from = 0
  BY DEF Missing
<1>3. v.from = e.from \/ v.from = Missing.from
  BY <1>1, TornMember
<1> QED
  BY <1>1, <1>2, <1>3

\* The buses of the edges are among those of the file.
LEMMA EdgeBusIdsOf ==
    ASSUME NEW db \in Catalogue, Resolved(db)
    PROVE  /\ EdgeBusIds(db) \in Seq(Nat) /\ Len(EdgeBusIds(db)) = Len(db.edges_to_buses)
           /\ \A id \in ToSet(EdgeBusIds(db)) : id + 1 \in 1 .. Len(db.buses)
<1>1. /\ Len(db.edges_to_buses) \in Nat
      /\ DOMAIN db.edges_to_buses = 1 .. Len(db.edges_to_buses)
  BY CatalogueFields
<1>2. \A n \in DOMAIN db.edges_to_buses : db.edges_to_buses[n] \in BusNames(db)
  BY DEF Resolved, ToSet
<1>3. \A n \in DOMAIN db.edges_to_buses :
         /\ BusId(db, db.edges_to_buses[n]) + 1 \in 1 .. Len(db.buses)
         /\ BusId(db, db.edges_to_buses[n]) \in Nat
  BY <1>2, BusIdOf
<1>4. EdgeBusIds(db) \in [1 .. Len(db.edges_to_buses) -> Nat]
  BY <1>1, <1>3 DEF EdgeBusIds
<1>5. \A id \in ToSet(EdgeBusIds(db)) : id + 1 \in 1 .. Len(db.buses)
  BY <1>3 DEF EdgeBusIds, ToSet
<1> QED
  BY <1>1, <1>4, <1>5, FunctionSeq

\* The router's entries come back from the file as they were.
LEMMA EntryComesBack ==
    ASSUME NEW e \in {NoRoute} \cup RouteInternalData
    PROVE  EntryFromProto(EntryToProto(e)) = e
<1>1. CASE e = NoRoute
  BY <1>1 DEF EntryFromProto, EntryToProto
<1>2. CASE e # NoRoute
  <2>1. e \in [weight : Int, prev_edge : Nat]
    BY <1>2 DEF RouteInternalData
  <2>2. PICK p : p = IF e.prev_edge # NoEdge THEN e.prev_edge - 1 ELSE -1
    OBVIOUS
  <2>3. EntryToProto(e) = [has_value |-> TRUE, weight |-> e.weight, prev_edge |-> p]
    BY <1>2, <2>2 DEF EntryToProto
  <2>4. EntryFromProto(EntryToProto(e)) =
          [weight |-> e.weight, prev_edge |-> IF p = -1 THEN NoEdge ELSE p + 1]
    BY <2>3 DEF EntryFromProto
  <2>5. (IF p = -1 THEN NoEdge ELSE p + 1) = e.prev_edge
    BY <2>1, <2>2 DEF NoEdge
  <2> QED
    BY <2>1, <2>4, <2>5
<1> QED
  BY <1>1, <1>2

\* So does a row of them.
LEMMA RowComesBack ==
    ASSUME NEW row \in Seq({NoRoute} \cup RouteInternalData)
    PROVE  [w \in DOMAIN RowValue(row) |-> EntryFromProto(RowValue(row)[w])] = row
<1>1. /\ DOMAIN row = 1 .. Len(row) /\ row = [w \in DOMAIN row |-> row[w]]
      /\ \A w \in DOMAIN row : row[w] \in {NoRoute} \cup RouteInternalData
  OBVIOUS
<1>2. \A w \in DOMAIN row : EntryFromProto(EntryToProto(row[w])) = row[w]
  BY <1>1, EntryComesBack
<1>3. DOMAIN RowValue(row) = DOMAIN row /\ \A w \in DOMAIN row : RowValue(row)[w] = EntryToProto(row[w])
  BY DEF RowValue
<1> QED
  BY <1>1, <1>2, <1>3

-----------------------------------------------------------------------------
(* What a file that was cut off points to *)

\* What CutFileIsConsistent says of a file f that origin was written to.
Consistent(f, origin) ==
    /\ Resolvable(f)
    /\ LET b == Deserialize(f) IN
         /\ Len(b.edges) <= Len(b.db.edges_to_buses)
         /\ b.table # <<>> => b.edges = origin.edges /\ Len(b.db.stops) = Len(origin.db.stops)
         /\ \A v \in DOMAIN b.table :
              v < Len(b.table) \/ Field(f, "render_settings") # <<>> => b.table[v] = origin.table[v]

\* Of a field that begins before the cut something is found; all of it, if the
\* cut is behind it; its elements are whole, if anything follows.
Whole(n, lo, vals, v, k) ==
    /\ k \in Nat /\ Len(v) = k /\ DOMAIN v = 1 .. k /\ (v = <<>> <=> k = 0)
    /\ k > 0 => n > lo
    /\ n >= lo + Len(vals) => k = Len(vals)
    /\ \A j \in 1 .. k : j \in 1 .. Len(vals) /\ (lo + j < n => v[j] = vals[j])
    /\ \A j \in 1 .. k : j < k => lo + j < n

\* A field of the cut file is a whole number of elements and perhaps a torn one.
LEMMA FoundWhole ==
    ASSUME NEW n \in Nat, NEW g, NEW lo \in Nat, NEW vals, Len(vals) \in Nat, NEW v, NEW k,
           Found(n, g, lo, vals, v, k)
    PROVE  Whole(n, lo, vals, v, k)
<1>1. /\ k \in 0 .. Len(vals) /\ DOMAIN v = 1 .. k /\ v \in [1 .. k -> ToSet(v)]
      /\ \A j \in 1 .. k : v[j] = vals[j] \/ lo + j = n
  BY DEF Found
<1>2. k = IF n <= lo THEN 0 ELSE IF n >= lo + Len(vals) THEN Len(vals) ELSE n - lo
  BY DEF Found, Extent
<1>3. v \in Seq(ToSet(v)) /\ Len(v) = k /\ k \in Nat
  BY <1>1, FunctionSeq
<1>4. v = <<>> <=> k = 0
  BY <1>3
<1>5. /\ k > 0 => n > lo
      /\ n >= lo + Len(vals) => k = Len(vals)
  BY <1>1, <1>2
<1>6. \A j \in 1 .. k : j \in 1 .. Len(vals) /\ (j < k => lo + j < n)
  BY <1>1, <1>2
<1>7. \A j \in 1 .. k : lo + j < n => v[j] = vals[j]
  <2> SUFFICES ASSUME NEW j \in 1 .. k, lo + j < n PROVE v[j] = vals[j]
    OBVIOUS
  <2>1. lo + j # n
    BY <1>3
  <2> QED
    BY <1>1, <2>1
<1> QED
  BY <1>1, <1>3, <1>4, <1>5, <1>6, <1>7 DEF Whole

\* What is found of the eight fields when the n-th element is the last.
CutAt(origin, pairs, f, n, l2, l3, l4, l5, l6, l7, k1, k2, k3, k4, k5, k6, k7) ==
    LET db == origin.db IN
    /\ l2 = Len(db.stops) /\ l3 = l2 + Len(BusValues(db)) /\ l4 = l3 + Len(DistanceValues(db, pairs))
    /\ l5 = l4 + Len(EdgeBusValues(db)) /\ l6 = l5 + Len(origin.edges)
    /\ l7 = l6 + Len(RowValues(origin.table))
    /\ Found(n, "stops", 0, db.stops, Field(f, "stops"), k1)
    /\ Found(n, "buses", l2, BusValues(db), Field(f, "buses"), k2)
    /\ Found(n, "distances", l3, DistanceValues(db, pairs), Field(f, "distances"), k3)
    /\ Found(n, "edges_to_buses", l4, EdgeBusValues(db), Field(f, "edges_to_buses"), k4)
    /\ Found(n, "edges", l5, origin.edges, Field(f, "edges"), k5)
    /\ Found(n, "router", l6, RowValues(origin.table), Field(f, "router"), k6)
    /\ Found(n, "render_settings", l7, <<origin.drawing>>, Field(f, "render_settings"), k7)

\* Every field of a cut file, found: the fields that follow the one the cut
\* fell in are empty, those before it are whole.
LEMMA CutFields ==
    ASSUME NEW origin \in Base, Resolved(origin.db), NEW pairs \in SetToSeqs(StoredPairs(origin.db)),
           NEW f, Cut(Message(origin, pairs), f)
    PROVE  \E n, l2, l3, l4, l5, l6, l7 \in Nat : \E k1, k2, k3, k4, k5, k6, k7 :
              CutAt(origin, pairs, f, n, l2, l3, l4, l5, l6, l7, k1, k2, k3, k4, k5, k6, k7)
<1>1. PICK m, v1, v2, v3, v4, v5, v6, v7, v8 :
         /\ m = Message(origin, pairs)
         /\ v1 = origin.db.stops /\ v2 = BusValues(origin.db) /\ v3 = DistanceValues(origin.db, pairs)
         /\ v4 = EdgeBusValues(origin.db) /\ v5 = origin.edges /\ v6 = RowValues(origin.table)
         /\ v7 = <<origin.drawing>> /\ v8 = <<RoutingSettingsToProto(origin.routing)>>
  OBVIOUS
<1>2. PICK W, all, l2, l3, l4, l5, l6, l7, l8 :
         Layout(W, m, all, v1, v2, v3, v4, v5, v6, v7, v8, l2, l3, l4, l5, l6, l7, l8)
  BY <1>1, MessageLayout
<1>3. /\ Len(v1) \in Nat /\ Len(v2) \in Nat /\ Len(v3) \in Nat /\ Len(v4) \in Nat
      /\ Len(v5) \in Nat /\ Len(v6) \in Nat /\ Len(v7) \in Nat
  <2>1. Len(v4) = IF EdgeBusIds(origin.db) = <<>> THEN 0 ELSE 1
    BY <1>1, MessageLayout
  <2>2. Len(v7) \in Nat
    BY <1>1
  <2>3. /\ Len(v1) \in Nat /\ Len(v2) \in Nat /\ Len(v3) \in Nat
        /\ Len(v5) \in Nat /\ Len(v6) \in Nat
    BY <1>1, MessageLayout
  <2> QED
    BY <2>1, <2>2, <2>3
<1>4. /\ l2 = Len(v1) /\ l3 = l2 + Len(v2) /\ l4 = l3 + Len(v3) /\ l5 = l4 + Len(v4)
      /\ l6 = l5 + Len(v5) /\ l7 = l6 + Len(v6)
      /\ m \in Seq(Element(W))
  BY <1>2 DEF Layout
<1>5. l2 \in Nat /\ l3 \in Nat /\ l4 \in Nat /\ l5 \in Nat /\ l6 \in Nat /\ l7 \in Nat
  BY <1>3, <1>4
<1>6. PICK n : n = Len(f)
  OBVIOUS
<1>7. Cut(m, f) /\ Len(m) \in Nat /\ n \in Nat
  <2>1. Cut(m, f)
    BY <1>1
  <2>2. Len(m) \in Nat
    BY <1>4
  <2>3. n \in Nat
    BY <1>6, <2>1 DEF Cut
  <2> QED
    BY <2>1, <2>2, <2>3
<1>8. PICK k1, k2, k3, k4, k5, k6, k7 :
         /\ Found(n, "stops", 0, v1, Field(f, "stops"), k1)
         /\ Found(n, "buses", l2, v2, Field(f, "buses"), k2)
         /\ Found(n, "distances", l3, v3, Field(f, "distances"), k3)
         /\ Found(n, "edges_to_buses", l4, v4, Field(f, "edges_to_buses"), k4)
         /\ Found(n, "edges", l5, v5, Field(f, "edges"), k5)
         /\ Found(n, "router", l6, v6, Field(f, "router"), k6)
         /\ Found(n, "render_settings", l7, v7, Field(f, "render_settings"), k7)
  <2>1. /\ Block(m, "stops", 0, v1) /\ Block(m, "buses", l2, v2)
        /\ Block(m, "distances", l3, v3) /\ Block(m, "edges_to_buses", l4, v4)
        /\ Block(m, "edges", l5, v5) /\ Block(m, "router", l6, v6)
        /\ Block(m, "render_settings", l7, v7) /\ 0 \in Nat
    BY <1>2 DEF Layout
  <2>2. \E k : Found(n, "stops", 0, v1, Field(f, "stops"), k)
    BY <1>3, <1>6, <1>7, <2>1, FieldOfCut
  <2>3. \E k : Found(n, "buses", l2, v2, Field(f, "buses"), k)
    BY <1>3, <1>5, <1>6, <1>7, <2>1, FieldOfCut
  <2>4. \E k : Found(n, "distances", l3, v3, Field(f, "distances"), k)
    BY <1>3, <1>5, <1>6, <1>7, <2>1, FieldOfCut
  <2>5. \E k : Found(n, "edges_to_buses", l4, v4, Field(f, "edges_to_buses"), k)
    BY <1>3, <1>5, <1>6, <1>7, <2>1, FieldOfCut
  <2>6. \E k : Found(n, "edges", l5, v5, Field(f, "edges"), k)
    BY <1>3, <1>5, <1>6, <1>7, <2>1, FieldOfCut
  <2>7. \E k : Found(n, "router", l6, v6, Field(f, "router"), k)
    BY <1>3, <1>5, <1>6, <1>7, <2>1, FieldOfCut
  <2>8. \E k : Found(n, "render_settings", l7, v7, Field(f, "render_settings"), k)
    BY <1>3, <1>5, <1>6, <1>7, <2>1, FieldOfCut
  <2> QED
    BY <2>2, <2>3, <2>4, <2>5, <2>6, <2>7, <2>8
<1>9. CutAt(origin, pairs, f, n, l2, l3, l4, l5, l6, l7, k1, k2, k3, k4, k5, k6, k7)
  BY <1>1, <1>4, <1>8 DEF CutAt
<1> QED
  BY <1>5, <1>7, <1>9

\* Functions over one domain with the same values are the same.
LEMMA SameFunction ==
    ASSUME NEW D, NEW A, NEW B, NEW g \in [D -> A], NEW h \in [D -> B], \A x \in D : g[x] = h[x]
    PROVE  g = h
  OBVIOUS

\* A base that is read has a bus for every index.
LEMMA EdgeBusesRead ==
    ASSUME NEW f, NEW n \in Nat, DOMAIN EdgesToBuses(f) = 1 .. n
    PROVE  Len(DeserializeDb(f).edges_to_buses) = n
<1> DEFINE stops == Field(f, "stops")
           proto == Field(f, "buses")
           buses == [j \in DOMAIN proto |-> BusFromProto(stops, proto[j])]
           names == [j \in DOMAIN EdgesToBuses(f) |-> buses[EdgesToBuses(f)[j] + 1].name]
<1>1. DeserializeDb(f).edges_to_buses = names
  BY DEF DeserializeDb
<1> HIDE DEF buses
<1>2. names = [j \in 1 .. n |-> names[j]]
  OBVIOUS
<1> HIDE DEF names
<1> QED
  BY <1>1, <1>2, LenOf

\* Wherever a message was cut off, the file is consistent.
LEMMA CutIsConsistent ==
    ASSUME NEW origin \in Base, AsMade(origin), Serializable(origin.db),
           NEW pairs \in SetToSeqs(StoredPairs(origin.db)), NEW f, Cut(Message(origin, pairs), f)
    PROVE  Consistent(f, origin)
<1>1. /\ origin.db \in Catalogue /\ Resolved(origin.db) /\ origin.edges \in Seq(Edge)
      /\ origin.table \in Seq(Seq({NoRoute} \cup RouteInternalData))
  BY BaseFields DEF AsMade
<1>2. PICK db : db = origin.db
  OBVIOUS
<1>3. PICK v2, v3, v4, v6, F1, F2, F3, F4, F5, F6, F7 :
         /\ v2 = BusValues(db) /\ v3 = DistanceValues(db, pairs)
         /\ v4 = EdgeBusValues(db) /\ v6 = RowValues(origin.table)
         /\ F1 = Field(f, "stops") /\ F2 = Field(f, "buses") /\ F3 = Field(f, "distances")
         /\ F4 = Field(f, "edges_to_buses") /\ F5 = Field(f, "edges") /\ F6 = Field(f, "router")
         /\ F7 = Field(f, "render_settings")
  OBVIOUS
<1>4. PICK n \in Nat, l2 \in Nat, l3 \in Nat, l4 \in Nat, l5 \in Nat, l6 \in Nat, l7 \in Nat :
         \E k1, k2, k3, k4, k5, k6, k7 :
            CutAt(origin, pairs, f, n, l2, l3, l4, l5, l6, l7, k1, k2, k3, k4, k5, k6, k7)
  BY <1>1, CutFields
<1>4a. PICK k1, k2, k3, k4, k5, k6, k7 :
         CutAt(origin, pairs, f, n, l2, l3, l4, l5, l6, l7, k1, k2, k3, k4, k5, k6, k7)
  BY <1>4
<1>5. /\ l2 = Len(db.stops) /\ l3 = l2 + Len(v2) /\ l4 = l3 + Len(v3)
      /\ l5 = l4 + Len(v4) /\ l6 = l5 + Len(origin.edges) /\ l7 = l6 + Len(v6)
      /\ Found(n, "stops", 0, db.stops, F1, k1)
      /\ Found(n, "buses", l2, v2, F2, k2)
      /\ Found(n, "distances", l3, v3, F3, k3)
      /\ Found(n, "edges_to_buses", l4, v4, F4, k4)
      /\ Found(n, "edges", l5, origin.edges, F5, k5)
      /\ Found(n, "router", l6, v6, F6, k6)
      /\ Found(n, "render_settings", l7, <<origin.drawing>>, F7, k7)
  BY <1>2, <1>3, <1>4a DEF CutAt
<1>6. /\ Len(db.stops) \in Nat /\ Len(v2) = Len(db.buses) /\ Len(v2) \in Nat
      /\ Len(v3) = Len(pairs) /\ Len(v3) \in Nat
      /\ Len(v4) = IF EdgeBusIds(db) = <<>> THEN 0 ELSE 1
      /\ Len(origin.edges) \in Nat /\ Len(v6) = Len(origin.table) /\ Len(v6) \in Nat
  BY <1>1, <1>2, <1>3, MessageLayout
<1>7. Len(v4) \in Nat /\ Len(<<origin.drawing>>) \in Nat
  BY <1>6
<1>8. Whole(n, 0, db.stops, F1, k1)
  <2>1. Found(n, "stops", 0, db.stops, F1, k1) /\ Len(db.stops) \in Nat /\ 0 \in Nat
    BY <1>5, <1>6
  <2> QED
    BY <2>1, FoundWhole
<1>9. Whole(n, l2, v2, F2, k2)
  <2>1. Found(n, "buses", l2, v2, F2, k2) /\ Len(v2) \in Nat /\ l2 \in Nat
    BY <1>5, <1>6
  <2> QED
    BY <2>1, FoundWhole
<1>10. Whole(n, l3, v3, F3, k3)
  <2>1. Found(n, "distances", l3, v3, F3, k3) /\ Len(v3) \in Nat /\ l3 \in Nat
    BY <1>5, <1>6
  <2> QED
    BY <2>1, FoundWhole
<1>11. Whole(n, l4, v4, F4, k4)
  <2>1. Found(n, "edges_to_buses", l4, v4, F4, k4) /\ Len(v4) \in Nat /\ l4 \in Nat
    BY <1>5, <1>7
  <2> QED
    BY <2>1, FoundWhole
<1>12. Whole(n, l5, origin.edges, F5, k5)
  <2>1. Found(n, "edges", l5, origin.edges, F5, k5) /\ Len(origin.edges) \in Nat /\ l5 \in Nat
    BY <1>5, <1>6
  <2> QED
    BY <2>1, FoundWhole
<1>13. Whole(n, l6, v6, F6, k6)
  <2>1. Found(n, "router", l6, v6, F6, k6) /\ Len(v6) \in Nat /\ l6 \in Nat
    BY <1>5, <1>6
  <2> QED
    BY <2>1, FoundWhole
<1>14. Whole(n, l7, <<origin.drawing>>, F7, k7)
  <2>1. Found(n, "render_settings", l7, <<origin.drawing>>, F7, k7) /\ Len(<<origin.drawing>>) \in Nat /\ l7 \in Nat
    BY <1>5, <1>7
  <2> QED
    BY <2>1, FoundWhole
<1>a. /\ k1 \in Nat /\ DOMAIN F1 = 1 .. k1 /\ Len(F1) = k1
      /\ n >= 0 + Len(db.stops) => k1 = Len(db.stops)
  BY <1>8 DEF Whole
<1>b. /\ k2 \in Nat /\ DOMAIN F2 = 1 .. k2 /\ (k2 > 0 => n > l2)
      /\ n >= l2 + Len(v2) => k2 = Len(v2)
  BY <1>9 DEF Whole
<1>c. k3 \in Nat /\ DOMAIN F3 = 1 .. k3 /\ (k3 > 0 => n > l3)
  BY <1>10 DEF Whole
<1>d. /\ k4 \in Nat /\ DOMAIN F4 = 1 .. k4 /\ Len(F4) = k4 /\ (F4 = <<>> <=> k4 = 0)
      /\ (k4 > 0 => n > l4) /\ (n >= l4 + Len(v4) => k4 = Len(v4))
  BY <1>11 DEF Whole
<1>e. /\ k5 \in Nat /\ DOMAIN F5 = 1 .. k5 /\ Len(F5) = k5
      /\ (k5 > 0 => n > l5) /\ (n >= l5 + Len(origin.edges) => k5 = Len(origin.edges))
  BY <1>12 DEF Whole
<1>f. k6 \in Nat /\ DOMAIN F6 = 1 .. k6 /\ Len(F6) = k6 /\ (k6 > 0 => n > l6)
  BY <1>13 DEF Whole
<1>g. k7 \in Nat /\ (F7 = <<>> <=> k7 = 0) /\ (k7 > 0 => n > l7)
  BY <1>14 DEF Whole
<1>15. PICK a1, a2, a3, a4, a5, a6 :
          /\ a1 = Len(db.stops) /\ a2 = Len(v2) /\ a3 = Len(v3) /\ a4 = Len(v4)
          /\ a5 = Len(origin.edges) /\ a6 = Len(v6)
  OBVIOUS
<1>16. /\ a1 \in Nat /\ a2 \in Nat /\ a3 \in Nat /\ a4 \in Nat /\ a5 \in Nat /\ a6 \in Nat
       /\ l2 = a1 /\ l3 = l2 + a2 /\ l4 = l3 + a3 /\ l5 = l4 + a4 /\ l6 = l5 + a5 /\ l7 = l6 + a6
  <2>1. /\ l2 = Len(db.stops) /\ l3 = l2 + Len(v2) /\ l4 = l3 + Len(v3)
        /\ l5 = l4 + Len(v4) /\ l6 = l5 + Len(origin.edges) /\ l7 = l6 + Len(v6)
    BY <1>5
  <2> QED
    BY <1>6, <1>7, <1>15, <2>1
<1>17. /\ k1 \in Nat /\ k2 \in Nat /\ k3 \in Nat /\ k4 \in Nat /\ k5 \in Nat /\ k6 \in Nat /\ k7 \in Nat
       /\ (n >= a1 => k1 = a1) /\ (k2 > 0 => n > l2) /\ (n >= l2 + a2 => k2 = a2)
       /\ (k3 > 0 => n > l3)
       /\ (k4 > 0 => n > l4) /\ (n >= l4 + a4 => k4 = a4)
       /\ (k5 > 0 => n > l5) /\ (n >= l5 + a5 => k5 = a5)
       /\ (k6 > 0 => n > l6) /\ (k7 > 0 => n > l7)
  <2>1. n >= a1 => k1 = a1
    BY <1>6, <1>15, <1>a
  <2> QED
    BY <1>15, <1>a, <1>b, <1>c, <1>d, <1>e, <1>f, <1>g, <2>1
<1>18. /\ k2 > 0 \/ k3 > 0 \/ k5 > 0 \/ k6 > 0 => k1 = a1
       /\ k4 > 0 => k2 = a2
       /\ k5 > 0 => k4 = a4 /\ l4 + a4 < n
       /\ k6 > 0 => k5 = a5 /\ l5 + a5 < n
       /\ k7 > 0 => l6 + a6 < n
  BY <1>16, <1>17
<1>19. a2 = Len(db.buses) /\ a4 = IF EdgeBusIds(db) = <<>> THEN 0 ELSE 1
  BY <1>6, <1>15
\* The stops that the buses of the file point to are in it.
<1>20. \A j \in 1 .. k2 : HasStops(F2[j], k1)
  <2> SUFFICES ASSUME NEW j \in 1 .. k2 PROVE HasStops(F2[j], k1)
    OBVIOUS
  <2>1. k1 = Len(db.stops)
    BY <1>15, <1>17, <1>18
  <2>2. /\ j \in 1 .. Len(v2) /\ j \in DOMAIN db.buses
        /\ \/ F2[j] = v2[j]
           \/ [field |-> "buses", value |-> F2[j]] \in Torn([field |-> "buses", value |-> v2[j]])
    <3>1. j \in 1 .. Len(v2)
      BY <1>9 DEF Whole
    <3>2. \/ F2[j] = v2[j]
          \/ [field |-> "buses", value |-> F2[j]] \in Torn([field |-> "buses", value |-> v2[j]])
      BY <1>5 DEF Found
    <3>3. DOMAIN db.buses = 1 .. Len(db.buses)
      BY <1>1, <1>2, CatalogueFields
    <3> QED
      BY <1>6, <3>1, <3>2, <3>3
  <2>3. PICK bus, p : bus = db.buses[j] /\ p = BusToProto(db, bus)
    OBVIOUS
  <2>4. p = v2[j]
    BY <1>3, <2>2, <2>3 DEF BusValues
  <2>5. /\ bus \in Bus /\ ToSet(bus.route) \subseteq StopNames(db)
        /\ bus.start_stop \in StopNames(db) /\ bus.end_stop \in StopNames(db)
    <3>1. bus.start_stop # NoStop /\ bus.end_stop # NoStop
      BY <1>2, <2>2, <2>3 DEF Serializable
    <3>2. bus \in Bus
      BY <1>1, <1>2, <2>2, <2>3, CatalogueFields
    <3> QED
      BY <1>1, <1>2, <2>2, <2>3, <3>1, <3>2 DEF Resolved
  <2>6. HasStops(p, k1) /\ p.route \in Seq(Nat)
    BY <1>1, <1>2, <2>1, <2>3, <2>5, BusHasStops
  <2>7. CASE F2[j] = v2[j]
    BY <2>4, <2>6, <2>7
  <2>8. CASE [field |-> "buses", value |-> F2[j]] \in Torn([field |-> "buses", value |-> v2[j]])
    <3>1. F2[j] \in CutBus(p)
      BY <2>4, <2>8, TornValue
    <3> QED
      BY <1>17, <2>3, <2>6, <3>1, TornBusHasStops
  <2> QED
    BY <2>2, <2>7, <2>8
\* So are those of the distances.
<1>21. \A j \in 1 .. k3 : F3[j].from + 1 \in 1 .. k1 /\ F3[j].to + 1 \in 1 .. k1
  <2> SUFFICES ASSUME NEW j \in 1 .. k3
               PROVE  F3[j].from + 1 \in 1 .. k1 /\ F3[j].to + 1 \in 1 .. k1
    OBVIOUS
  <2>1. k1 = Len(db.stops)
    BY <1>15, <1>17, <1>18
  <2>2. /\ j \in DOMAIN pairs /\ pairs[j] \in StoredPairs(db)
        /\ \/ F3[j] = v3[j]
           \/ [field |-> "distances", value |-> F3[j]]
                \in Torn([field |-> "distances", value |-> v3[j]])
    <3>1. j \in 1 .. Len(v3)
      BY <1>10 DEF Whole
    <3>2. \/ F3[j] = v3[j]
          \/ [field |-> "distances", value |-> F3[j]]
               \in Torn([field |-> "distances", value |-> v3[j]])
      BY <1>5 DEF Found
    <3>3. pairs \in Seq(StoredPairs(db))
      BY <1>1, <1>2, PairsAreSeq
    <3>4. j \in 1 .. Len(pairs)
      BY <1>6, <3>1
    <3> QED
      BY <3>2, <3>3, <3>4
  <2>3. PICK p, d : p = pairs[j] /\ d = DistanceToProto(db, p)
    OBVIOUS
  <2>4. d = v3[j]
    BY <1>3, <1>2, <2>2, <2>3 DEF DistanceValues
  <2>5. p \in StopPair /\ p[1] \in StopNames(db) /\ p[2] \in StopNames(db)
    <3>1. p \in StopPair /\ db.distances[p] # NoEntry
      BY <2>2, <2>3 DEF StoredPairs
    <3>2. p[1] # NoStop /\ p[2] # NoStop
      BY <1>2, <2>2, <2>3 DEF Serializable
    <3>3. p \in (StopNames(db) \cup {NoStop}) \X (StopNames(db) \cup {NoStop})
      BY <1>1, <1>2, <3>1 DEF Resolved
    <3> QED
      BY <3>1, <3>2, <3>3
  <2>6. F3[j] = d \/ F3[j] \in CutMessage(d, FieldOrder["distances"])
    BY <2>2, <2>4, TornValue
  <2> QED
    BY <1>1, <1>2, <2>1, <2>3, <2>5, <2>6, DistanceHasStops
\* And those of the edges.
<1>22. \A j \in 1 .. k5 : F5[j].from + 1 \in 1 .. k1
  <2> SUFFICES ASSUME NEW j \in 1 .. k5 PROVE F5[j].from + 1 \in 1 .. k1
    OBVIOUS
  <2>1. k1 = Len(db.stops)
    BY <1>15, <1>17, <1>18
  <2>2. j \in 1 .. Len(origin.edges)
    BY <1>12 DEF Whole
  <2>3. \/ F5[j] = origin.edges[j]
        \/ [field |-> "edges", value |-> F5[j]] \in Torn([field |-> "edges", value |-> origin.edges[j]])
    BY <1>5 DEF Found
  <2>4. origin.edges[j] \in Edge /\ origin.edges[j].from < k1
    BY <1>1, <1>2, <2>1, <2>2 DEF AsMade, EvaluateVertexCount
  <2>5. F5[j] = origin.edges[j] \/ F5[j] \in CutMessage(origin.edges[j], FieldOrder["edges"])
    BY <2>3, TornValue
  <2> QED
    BY <1>17, <2>4, <2>5, EdgeHasStop
\* The buses of the edges are among those of the file.
<1>23. PICK ids, E : ids = EdgeBusIds(db) /\ E = EdgesToBuses(f)
  OBVIOUS
<1>24. /\ ids \in Seq(Nat) /\ Len(ids) = Len(origin.edges)
       /\ \A id \in ToSet(ids) : id + 1 \in 1 .. a2
  BY <1>1, <1>2, <1>19, <1>23, EdgeBusIdsOf DEF AsMade
<1>25. E = IF k4 = 0 THEN <<>> ELSE F4[k4]
  BY <1>3, <1>23, <1>d DEF EdgesToBuses, Singular, Last
<1>26. /\ E \in Seq(Nat) /\ \A id \in ToSet(E) : id + 1 \in 1 .. k2
       /\ k5 > 0 => Len(E) = Len(origin.edges)
  <2>1. CASE k4 = 0
    <3>1. E \in Seq(Nat) /\ ToSet(E) = {}
      BY <1>25, <2>1 DEF ToSet
    <3>2. ASSUME k5 > 0 PROVE FALSE
      <4>1. a4 = 0
        BY <1>18, <2>1, <3>2
      <4>2. ids = <<>>
        BY <1>19, <1>23, <4>1
      <4>3. Len(origin.edges) = 0
        BY <1>24, <4>2
      <4>4. k5 \in 1 .. k5
        BY <1>17, <3>2
      <4>5. k5 \in 1 .. Len(origin.edges)
        BY <1>12, <4>4 DEF Whole
      <4> QED
        BY <4>3, <4>5
    <3> QED
      BY <1>17, <3>1, <3>2
  <2>2. CASE k4 # 0
    <3>1. k4 \in 1 .. k4
      BY <1>17, <2>2
    <3>2. k4 \in 1 .. a4
      BY <1>11, <1>15, <3>1 DEF Whole
    <3>3. k4 = 1 /\ a4 = 1 /\ ids # <<>>
      BY <1>19, <1>23, <3>2
    <3>4. v4 = <<ids>>
      BY <1>2, <1>3, <1>23, <3>3 DEF EdgeBusValues
    <3>5. v4[1] = ids
      BY <3>4
    <3>6. E = F4[1]
      BY <1>25, <3>3
    <3>7. \/ E = ids
          \/ [field |-> "edges_to_buses", value |-> E] \in Torn([field |-> "edges_to_buses", value |-> ids])
      BY <1>5, <3>1, <3>3, <3>5, <3>6 DEF Found
    <3>8. E \in Seq(Nat) /\ ToSet(E) \subseteq ToSet(ids)
      BY <1>24, <3>7, TornValue, TornList
    <3>9. k2 = a2
      BY <1>17, <1>18, <3>3
    <3>10. ASSUME k5 > 0 PROVE Len(E) = Len(origin.edges)
      <4>1. l4 + 1 < n
        BY <1>18, <3>3, <3>10
      <4>2. F4[1] = v4[1]
        BY <1>11, <3>1, <3>3, <4>1 DEF Whole
      <4> QED
        BY <1>24, <3>5, <3>6, <4>2
    <3> QED
      BY <1>24, <3>8, <3>9, <3>10
  <2> QED
    BY <2>1, <2>2
\* So reading the file finds all that it points to.
<1>27. Resolvable(f)
  <2>1. ASSUME NEW bus \in ToSet(F2)
        PROVE  /\ bus.start_stop + 1 \in DOMAIN F1 /\ bus.end_stop + 1 \in DOMAIN F1
               /\ \A id \in ToSet(bus.route) : id + 1 \in DOMAIN F1
    <3>1. PICK j \in 1 .. k2 : bus = F2[j]
      BY <1>b DEF ToSet
    <3> QED
      BY <1>20, <1>a, <3>1 DEF HasStops
  <2>2. ASSUME NEW d \in ToSet(F3)
        PROVE  d.from + 1 \in DOMAIN F1 /\ d.to + 1 \in DOMAIN F1
    <3>1. PICK j \in 1 .. k3 : d = F3[j]
      BY <1>c DEF ToSet
    <3> QED
      BY <1>21, <1>a, <3>1
  <2>3. ASSUME NEW edge \in ToSet(F5)
        PROVE  edge.from + 1 \in DOMAIN F1
    <3>1. PICK j \in 1 .. k5 : edge = F5[j]
      BY <1>e DEF ToSet
    <3> QED
      BY <1>22, <1>a, <3>1
  <2>4. \A id \in ToSet(EdgesToBuses(f)) : id + 1 \in DOMAIN F2
    BY <1>23, <1>26, <1>b
  <2> QED
    BY <1>3, <2>1, <2>2, <2>3, <2>4 DEF Resolvable
\* And every edge has its bus.
<1>28. PICK b : b = Deserialize(f)
  OBVIOUS
<1>29. /\ b.edges = F5 /\ b.db.stops = F1
       /\ b.table = [v \in DOMAIN F6 |-> [w \in DOMAIN F6[v] |-> EntryFromProto(F6[v][w])]]
       /\ Len(b.db.edges_to_buses) = Len(E)
  <2>1. b.edges = F5 /\ b.db.stops = F1
    BY <1>3, <1>28 DEF Deserialize, DeserializeDb
  <2>2. b.table = [v \in DOMAIN F6 |-> [w \in DOMAIN F6[v] |-> EntryFromProto(F6[v][w])]]
    BY <1>3, <1>28 DEF Deserialize, DeserializeRoutesInternalData
  <2>3. DOMAIN EdgesToBuses(f) = 1 .. Len(E) /\ Len(E) \in Nat
    BY <1>23, <1>26
  <2>4. Len(DeserializeDb(f).edges_to_buses) = Len(E)
    BY <2>3, EdgeBusesRead
  <2>5. b.db = DeserializeDb(f)
    BY <1>28 DEF Deserialize
  <2> QED
    BY <2>1, <2>2, <2>4, <2>5
<1>30. Len(b.edges) <= Len(b.db.edges_to_buses)
  <2>1. Len(b.edges) = k5 /\ Len(b.db.edges_to_buses) = Len(E) /\ Len(E) \in Nat
    BY <1>26, <1>29, <1>e
  <2>2. CASE k5 > 0
    <3>1. k5 \in 1 .. k5
      BY <1>17, <2>2
    <3>2. k5 \in 1 .. Len(origin.edges)
      BY <1>12, <3>1 DEF Whole
    <3> QED
      BY <1>6, <1>26, <2>1, <2>2, <3>2
  <2>3. CASE ~(k5 > 0)
    BY <1>17, <2>1, <2>3
  <2> QED
    BY <2>2, <2>3
\* A row of the table comes only after all stops and edges.
<1>31. ASSUME b.table # <<>>
       PROVE  b.edges = origin.edges /\ Len(b.db.stops) = Len(origin.db.stops)
  <2>1. k6 > 0
    <3>1. CASE k6 = 0
      <4>1. DOMAIN F6 = {}
        BY <1>f, <3>1
      <4>2. b.table = <<>>
        BY <1>29, <4>1
      <4> QED
        BY <1>31, <4>2
    <3> QED
      BY <1>17, <3>1
  <2>2. k5 = a5 /\ l5 + a5 < n /\ k1 = a1
    BY <1>18, <2>1
  <2>3. \A j \in 1 .. k5 : F5[j] = origin.edges[j]
    <3> SUFFICES ASSUME NEW j \in 1 .. k5 PROVE F5[j] = origin.edges[j]
      OBVIOUS
    <3>1. l5 + j < n
      BY <1>16, <2>2
    <3> QED
      BY <1>12, <3>1 DEF Whole
  <2>4. F5 = origin.edges
    <3>1. F5 \in [1 .. k5 -> ToSet(F5)]
      BY <1>5 DEF Found
    <3>2. PICK es : es = origin.edges
      OBVIOUS
    <3>3. es \in [1 .. k5 -> Edge]
      <4>1. es \in Seq(Edge) /\ Len(es) = k5
        BY <1>1, <1>15, <2>2, <3>2
      <4> QED
        BY <4>1
    <3>4. \A j \in 1 .. k5 : F5[j] = es[j]
      BY <2>3, <3>2
    <3>5. F5 = es
      <4>1. PICK D, A : D = 1 .. k5 /\ A = ToSet(F5)
        OBVIOUS
      <4>2. F5 \in [D -> A] /\ es \in [D -> Edge] /\ \A j \in D : F5[j] = es[j]
        BY <3>1, <3>3, <3>4, <4>1
      <4> QED
        BY <4>2, SameFunction
    <3> QED
      BY <3>2, <3>5
  <2> QED
    BY <1>2, <1>15, <1>29, <1>a, <2>2, <2>4
\* All rows are whole but the last, and that one if anything follows.
<1>32. ASSUME NEW v \in DOMAIN b.table, v < Len(b.table) \/ F7 # <<>>
       PROVE  b.table[v] = origin.table[v]
  <2>1. DOMAIN b.table = 1 .. k6 /\ Len(b.table) = k6
    <3>1. DOMAIN b.table = 1 .. k6
      BY <1>29, <1>f
    <3>2. b.table = [j \in 1 .. k6 |-> b.table[j]]
      BY <1>29, <1>f
    <3> QED
      BY <1>17, <3>1, <3>2, LenOf
  <2>2. v \in 1 .. k6 /\ v \in 1 .. Len(v6)
    BY <1>13, <2>1 DEF Whole
  <2>3. l6 + v < n
    <3>1. CASE v < Len(b.table)
      BY <1>13, <2>1, <2>2, <3>1 DEF Whole
    <3>2. CASE F7 # <<>>
      <4>1. k7 > 0
        BY <1>17, <1>g, <3>2
      <4>2. l6 + a6 < n /\ v \in 1 .. a6
        BY <1>15, <1>18, <2>2, <4>1
      <4> QED
        BY <1>16, <4>2
    <3> QED
      BY <1>32, <3>1, <3>2
  <2>4. F6[v] = v6[v]
    BY <1>13, <2>2, <2>3 DEF Whole
  <2>5. v \in DOMAIN origin.table /\ origin.table[v] \in Seq({NoRoute} \cup RouteInternalData)
    <3>1. v \in 1 .. Len(origin.table)
      BY <1>6, <2>2
    <3> QED
      BY <1>1, <3>1
  <2>6. F6[v] = RowValue(origin.table[v])
    BY <1>3, <2>4, <2>5 DEF RowValues
  <2>7. b.table[v] = [w \in DOMAIN F6[v] |-> EntryFromProto(F6[v][w])]
    BY <1>29, <1>f, <2>2
  <2> QED
    BY <2>5, <2>6, <2>7, RowComesBack
<1> QED
  BY <1>3, <1>27, <1>28, <1>30, <1>31, <1>32 DEF Consistent

\* A list that has the elements of a beginning of another, but for the last.
Begins(v, w) ==
    /\ Len(v) \in Nat /\ DOMAIN v = 1 .. Len(v)
    /\ \A u \in 1 .. Len(v) : u < Len(v) => v[u] = w[u]

\* Such is a row that is cut off, for its last entry may be torn.
LEMMA TornRow ==
    ASSUME NEW W, NEW w \in Seq(W), NEW v \in CutRow(w)
    PROVE  Begins(v, w) /\ Len(v) <= Len(w)
<1>1. CASE v \in CutList(w)
  <2>1. PICK n \in 0 .. Len(w) - 1 : v = SubSeq(w, 1, n)
    BY <1>1 DEF CutList
  <2>2. v \in Seq(W) /\ Len(v) = n /\ \A i \in 1 .. n : v[i] = w[i]
    BY <2>1
  <2>3. n \in Nat /\ n <= Len(w) /\ DOMAIN v = 1 .. n
    BY <2>1, <2>2
  <2> QED
    BY <2>2, <2>3 DEF Begins
<1>2. CASE v \notin CutList(w)
  <2>0. PICK n \in DOMAIN w : v \in {Append(SubSeq(w, 1, n - 1), t) : t \in CutEntry(w[n])}
    BY <1>2 DEF CutRow
  <2>1. PICK t : v = Append(SubSeq(w, 1, n - 1), t)
    BY <2>0
  <2>2. PICK s : s = SubSeq(w, 1, n - 1)
    OBVIOUS
  <2>3. n \in Nat /\ 1 <= n /\ n <= Len(w) /\ Len(w) \in Nat
    OBVIOUS
  <2>4. s \in Seq(W) /\ Len(s) = n - 1 /\ \A i \in 1 .. n - 1 : s[i] = w[i]
    BY <2>2, <2>3
  <2>5. s \in Seq(W \cup {t})
    BY <2>4
  <2>6. v \in Seq(W \cup {t}) /\ Len(v) = n /\ \A i \in 1 .. n - 1 : v[i] = s[i]
    BY <2>1, <2>2, <2>3, <2>4, <2>5
  <2>7. DOMAIN v = 1 .. n
    BY <2>6
  <2>8. \A u \in 1 .. n : u < n => u \in 1 .. n - 1
    BY <2>3
  <2> QED
    BY <2>3, <2>4, <2>6, <2>7, <2>8 DEF Begins
<1> QED
  BY <1>1, <1>2

\* The rows that come back from a file that was cut off are beginnings of those
\* written, but for the last entry of each.
LEMMA RowsBegin ==
    ASSUME NEW origin \in Base, Resolved(origin.db), NEW pairs \in SetToSeqs(StoredPairs(origin.db)),
           NEW f, Cut(Message(origin, pairs), f),
           NEW c, c = Deserialize(f), NEW v \in DOMAIN c.table, NEW row, row = c.table[v]
    PROVE  Begins(row, origin.table[v]) /\ DOMAIN row \subseteq DOMAIN origin.table[v]
<1>1. PICK table, vals, rows : table = origin.table /\ vals = RowValues(table) /\ rows = Field(f, "router")
  OBVIOUS
<1>2. table \in Seq(Seq({NoRoute} \cup RouteInternalData))
  BY <1>1, BaseFields
<1>3. \E n, lo \in Nat : \E k : Found(n, "router", lo, vals, rows, k)
  <2>1. PICK n \in Nat, l2 \in Nat, l3 \in Nat, l4 \in Nat, l5 \in Nat, lo \in Nat, l7 \in Nat :
           \E k1, k2, k3, k4, k5, k, k7 :
              CutAt(origin, pairs, f, n, l2, l3, l4, l5, lo, l7, k1, k2, k3, k4, k5, k, k7)
    BY CutFields
  <2>2. PICK k1, k2, k3, k4, k5, k, k7 :
           CutAt(origin, pairs, f, n, l2, l3, l4, l5, lo, l7, k1, k2, k3, k4, k5, k, k7)
    BY <2>1
  <2> QED
    BY <1>1, <2>2 DEF CutAt
<1>4. PICK n \in Nat, lo \in Nat : \E k : Found(n, "router", lo, vals, rows, k)
  BY <1>3
<1>4a. PICK k : Found(n, "router", lo, vals, rows, k)
  BY <1>4
<1>5. c.table = [u \in DOMAIN rows |-> [w \in DOMAIN rows[u] |-> EntryFromProto(rows[u][w])]]
  BY <1>1 DEF Deserialize, DeserializeRoutesInternalData
<1>6. Len(vals) = Len(table) /\ DOMAIN vals = DOMAIN table
  <2>1. vals = [u \in 1 .. Len(table) |-> RowValue(table[u])] /\ Len(table) \in Nat
    BY <1>1, <1>2 DEF RowValues
  <2>2. vals = [u \in 1 .. Len(table) |-> vals[u]]
    BY <2>1
  <2> QED
    BY <1>2, <2>1, <2>2, LenOf
<1>7. v \in DOMAIN rows /\ row = [w \in DOMAIN rows[v] |-> EntryFromProto(rows[v][w])]
  BY <1>5
<1>8. /\ v \in DOMAIN table
      /\ rows[v] = vals[v] \/ [field |-> "router", value |-> rows[v]]
                                \in Torn([field |-> "router", value |-> vals[v]])
  <2>1. /\ k \in 0 .. Len(vals) /\ DOMAIN rows = 1 .. k
        /\ \A j \in 1 .. k : \/ rows[j] = vals[j]
                             \/ [field |-> "router", value |-> rows[j]]
                                  \in Torn([field |-> "router", value |-> vals[j]])
    BY <1>4a DEF Found
  <2>2. v \in 1 .. k
    BY <1>7, <2>1
  <2>3. v \in 1 .. Len(table)
    BY <1>2, <1>6, <2>1, <2>2
  <2> QED
    BY <1>2, <2>1, <2>2, <2>3
<1>9. PICK t \in Seq({NoRoute} \cup RouteInternalData) : t = table[v]
  BY <1>2, <1>8
<1>10. PICK p, q : p = RowValue(t) /\ q = rows[v]
  OBVIOUS
<1>11. vals[v] = p
  BY <1>1, <1>8, <1>9, <1>10 DEF RowValues
<1>12. PICK W : W = {EntryToProto(e) : e \in {NoRoute} \cup RouteInternalData}
  OBVIOUS
<1>13. /\ p \in Seq(W) /\ Len(p) = Len(t) /\ Len(t) \in Nat
       /\ \A u \in 1 .. Len(t) : p[u] = EntryToProto(t[u]) /\ t[u] \in {NoRoute} \cup RouteInternalData
  <2>1. Len(t) \in Nat /\ \A u \in 1 .. Len(t) : t[u] \in {NoRoute} \cup RouteInternalData
    OBVIOUS
  <2>2. p = [u \in 1 .. Len(t) |-> EntryToProto(t[u])]
    BY <1>10 DEF RowValue
  <2>3. p \in [1 .. Len(t) -> W]
    BY <1>12, <2>1, <2>2
  <2>4. p \in Seq(W) /\ Len(p) = Len(t)
    BY <2>1, <2>3, FunctionSeq
  <2> QED
    BY <2>1, <2>2, <2>4
<1>14. Begins(q, p) /\ Len(q) <= Len(p)
  <2>1. CASE q = p
    BY <1>13, <2>1 DEF Begins
  <2>2. CASE q # p
    <3>1. q \in CutRow(p)
      BY <1>8, <1>10, <1>11, <2>2, TornValue
    <3> QED
      BY <1>13, <3>1, TornRow
  <2> QED
    BY <2>1, <2>2
<1>15. row = [w \in 1 .. Len(q) |-> EntryFromProto(q[w])]
  BY <1>7, <1>10, <1>14 DEF Begins
<1>16. Len(row) = Len(q) /\ DOMAIN row = 1 .. Len(q)
  <2>1. row = [w \in 1 .. Len(q) |-> row[w]]
    BY <1>15
  <2> QED
    BY <1>14, <2>1, LenOf DEF Begins
<1>17. ASSUME NEW u \in 1 .. Len(row), u < Len(row) PROVE row[u] = t[u]
  <2>1. u \in 1 .. Len(q) /\ u < Len(q) /\ u \in 1 .. Len(t)
    BY <1>13, <1>14, <1>16, <1>17 DEF Begins
  <2>2. row[u] = EntryFromProto(EntryToProto(t[u]))
    BY <1>13, <1>14, <1>15, <2>1 DEF Begins
  <2> QED
    BY <1>13, <2>1, <2>2, EntryComesBack
<1>18. DOMAIN t = 1 .. Len(t) /\ Len(row) <= Len(t)
  BY <1>13, <1>14, <1>16
<1>19. DOMAIN row \subseteq DOMAIN t
  BY <1>13, <1>14, <1>16, <1>18 DEF Begins
<1> QED
  BY <1>1, <1>9, <1>14, <1>16, <1>17, <1>19 DEF Begins

-----------------------------------------------------------------------------
(* What comes back from a file *)

\* A number that fits an int survives the cast to uint32 and back.
LEMMA IntComesBack ==
    ASSUME NEW n \in Int, FitsInt(n)
    PROVE  Int32(Uint32(n)) = n
<1>1. PICK W, H : W = WordSize /\ H = W \div 2
  OBVIOUS
<1>2. W \in Nat /\ W > 0 /\ H \in Nat /\ W = 2 * H
  BY <1>1, WordSizeAssumption
<1>3. -H <= n /\ n < H
  BY <1>1 DEF FitsInt
<1>4. n >= 0 => n % W = n
  BY <1>2, <1>3
<1>5. n < 0 => n % W = n + W
  BY <1>2, <1>3
<1>6. Int32(n % W) = n
  BY <1>1, <1>2, <1>3, <1>4, <1>5 DEF Int32
<1> QED
  BY <1>1, <1>6 DEF Uint32

\* A field that is not the last in the file is whole.
LEMMA FieldIsWhole ==
    ASSUME NEW m, NEW f, NEW g, NEW lo \in Nat, NEW l \in Nat, NEW vals, Len(vals) = l,
           vals \in [1 .. l -> ToSet(vals)], Len(m) \in Nat,
           Block(m, g, lo, vals), Cut(m, f), lo + l < Len(f)
    PROVE  Field(f, g) = vals
<1>1. PICK v, n : v = Field(f, g) /\ n = Len(f)
  OBVIOUS
<1>2. n \in Nat /\ lo + l < n
  BY <1>1 DEF Cut
<1>3. PICK k : Found(n, g, lo, vals, v, k)
  BY <1>1, FieldOfCut
<1>4. Whole(n, lo, vals, v, k)
  BY <1>2, <1>3, FoundWhole
<1>5. k = l /\ \A j \in 1 .. l : v[j] = vals[j]
  BY <1>2, <1>4 DEF Whole
<1>6. v \in [1 .. l -> ToSet(v)]
  BY <1>3, <1>5 DEF Found
<1>7. v = vals
  BY <1>5, <1>6, SameFunction
<1> QED
  BY <1>1, <1>7

\* Of a field that begins behind the cut nothing is found.
LEMMA FieldIsReached ==
    ASSUME NEW m, NEW f, NEW g, NEW lo \in Nat, NEW vals, Len(vals) \in Nat, Len(m) \in Nat,
           Block(m, g, lo, vals), Cut(m, f), Field(f, g) # <<>>
    PROVE  lo < Len(f)
<1>1. PICK v, n : v = Field(f, g) /\ n = Len(f)
  OBVIOUS
<1>2. n \in Nat
  BY <1>1 DEF Cut
<1>3. PICK k : Found(n, g, lo, vals, v, k)
  BY <1>1, FieldOfCut
<1>4. Whole(n, lo, vals, v, k)
  BY <1>2, <1>3, FoundWhole
<1> QED
  BY <1>1, <1>2, <1>4 DEF Whole

\* A bus is read as it was written.
LEMMA BusComesBack ==
    ASSUME NEW db \in Catalogue, NEW bus \in Bus, ToSet(bus.route) \subseteq StopNames(db),
           bus.start_stop \in StopNames(db), bus.end_stop \in StopNames(db)
    PROVE  BusFromProto(db.stops, BusToProto(db, bus)) = bus
<1>1. PICK p : p = BusToProto(db, bus)
  OBVIOUS
<1>2. /\ p.name = bus.name /\ p.unique_stops = bus.unique_stops
      /\ p.is_roundtrip = bus.is_roundtrip
      /\ p.start_stop = StopId(db, bus.start_stop) /\ p.end_stop = StopId(db, bus.end_stop)
      /\ p.route = [n \in DOMAIN bus.route |-> StopId(db, bus.route[n])]
  BY <1>1 DEF BusToProto
<1>3. /\ db.stops[p.start_stop + 1].name = bus.start_stop
      /\ db.stops[p.end_stop + 1].name = bus.end_stop
  BY <1>2, StopIdOf
<1>4. bus.route \in Seq(StopName)
  BY DEF Bus
<1>5. \A n \in DOMAIN bus.route : db.stops[p.route[n] + 1].name = bus.route[n]
  <2> SUFFICES ASSUME NEW n \in DOMAIN bus.route
               PROVE  db.stops[p.route[n] + 1].name = bus.route[n]
    OBVIOUS
  <2>1. bus.route[n] \in StopNames(db)
    BY DEF ToSet
  <2>2. p.route[n] = StopId(db, bus.route[n])
    BY <1>2
  <2> QED
    BY <2>1, <2>2, StopIdOf
<1>6. DOMAIN p.route = DOMAIN bus.route
  BY <1>2
<1>7. PICK r : r = [n \in DOMAIN p.route |-> db.stops[p.route[n] + 1].name]
  OBVIOUS
<1>8. r = bus.route
  <2>1. r = [n \in DOMAIN bus.route |-> bus.route[n]]
    BY <1>5, <1>6, <1>7
  <2> QED
    BY <1>4, <2>1
<1>9. BusFromProto(db.stops, p) =
        [name |-> bus.name, route |-> r, unique_stops |-> bus.unique_stops,
         is_roundtrip |-> bus.is_roundtrip, start_stop |-> bus.start_stop, end_stop |-> bus.end_stop]
  BY <1>2, <1>3, <1>7 DEF BusFromProto
<1> QED
  BY <1>1, <1>8, <1>9 DEF Bus

\* At one position one value is picked.
LEMMA PickedOne ==
    ASSUME NEW f, NEW x \in Int
    PROVE  Picked(f, {x}) = <<f[x]>>
<1>1. {} \in SUBSET Int /\ IsFiniteSet({}) /\ \A y \in {} : y < x
  BY FS_EmptySet
<1>2. Picked(f, {} \cup {x}) = Append(Picked(f, {}), f[x])
  BY <1>1, PickedMore
<1>3. {} \cup {x} = {x} /\ Picked(f, {}) = <<>>
  BY PickedNone
<1>4. \A y : Append(<<>>, y) = <<y>>
  OBVIOUS
<1>5. Picked(f, {x}) = Append(<<>>, f[x])
  BY <1>2, <1>3
<1> QED
  BY <1>4, <1>5

\* Every distance is written once.
LEMMA PairsOnce ==
    ASSUME NEW db \in Catalogue, Resolved(db), NEW pairs \in SetToSeqs(StoredPairs(db))
    PROVE  /\ \A i, j \in DOMAIN pairs : pairs[i] = pairs[j] => i = j
           /\ \A p \in StoredPairs(db) : \E i \in DOMAIN pairs : pairs[i] = p
<1>1. PICK S, c, D : S = StoredPairs(db) /\ c = Cardinality(S) /\ D = 1 .. c
  OBVIOUS
<1>2. IsFiniteSet(S) /\ c \in Nat
  <2>1. IsFiniteSet(StopNames(db) \cup {NoStop})
    <3>1. IsFiniteSet(StopNames(db)) /\ IsFiniteSet({NoStop})
      BY NamesAreFinite, FS_Singleton
    <3> QED
      BY <3>1, FS_Union
  <2>2. IsFiniteSet((StopNames(db) \cup {NoStop}) \X (StopNames(db) \cup {NoStop}))
    BY <2>1, FS_Product
  <2>3. StoredPairs(db) \subseteq (StopNames(db) \cup {NoStop}) \X (StopNames(db) \cup {NoStop})
    BY DEF StoredPairs, Resolved
  <2>4. IsFiniteSet(S)
    BY <1>1, <2>2, <2>3, FS_Subset
  <2> QED
    BY <1>1, <2>4, FS_CardinalityType
<1>3. pairs \in [D -> S] /\ \A i, j \in D : i # j => pairs[i] # pairs[j]
  BY <1>1 DEF SetToSeqs
<1>4. pairs \in Injection(D, S)
  BY <1>3 DEF Injection, IsInjective
<1>5. Cardinality(D) = c
  BY <1>1, <1>2, FS_Interval
<1>6. pairs \in Surjection(D, S)
  BY <1>1, <1>2, <1>4, <1>5, FS_Injection
<1>7. \A p \in S : \E i \in D : pairs[i] = p
  BY <1>6 DEF Surjection
<1> QED
  BY <1>1, <1>3, <1>7

\* A distance is read for the stops that it was written for.
LEMMA PairComesBack ==
    ASSUME NEW db \in Catalogue, NEW p \in StopPair, p[1] \in StopNames(db), p[2] \in StopNames(db),
           NEW d, d = DistanceToProto(db, p)
    PROVE  <<db.stops[d.from + 1].name, db.stops[d.to + 1].name>> = p
<1>1. d.from = StopId(db, p[1]) /\ d.to = StopId(db, p[2])
  BY DEF DistanceToProto
<1>2. db.stops[d.from + 1].name = p[1] /\ db.stops[d.to + 1].name = p[2]
  BY <1>1, StopIdOf
<1>3. p = <<p[1], p[2]>>
  BY DEF StopPair
<1> QED
  BY <1>2, <1>3

\* Whatever the order in which the distances were written, each is read as it
\* was, and none that was not there.
LEMMA DistanceComesBack ==
    ASSUME NEW db \in Catalogue, Resolved(db), Serializable(db),
           \A p \in StopPair : db.distances[p] # NoEntry => FitsInt(db.distances[p]),
           NEW pairs \in SetToSeqs(StoredPairs(db)), NEW v, v = DistanceValues(db, pairs),
           NEW p \in StopPair
    PROVE  LET given == Filter(v, LAMBDA d : <<db.stops[d.from + 1].name, db.stops[d.to + 1].name>> = p)
           IN  (IF given = <<>> THEN NoEntry ELSE Int32(Last(given).distance)) = db.distances[p]
<1>1. PICK S : S = {n \in DOMAIN v : <<db.stops[v[n].from + 1].name, db.stops[v[n].to + 1].name>> = p}
  OBVIOUS
<1>2. Filter(v, LAMBDA d : <<db.stops[d.from + 1].name, db.stops[d.to + 1].name>> = p) = Picked(v, S)
  BY <1>1 DEF Filter, Picked
<1>3. pairs \in Seq(StoredPairs(db)) /\ Len(pairs) \in Nat
  BY PairsAreSeq
<1>4. DOMAIN v = 1 .. Len(pairs) /\ \A n \in 1 .. Len(pairs) : v[n] = DistanceToProto(db, pairs[n])
  BY <1>3 DEF DistanceValues
<1>5. \A q \in StoredPairs(db) : q \in StopPair /\ q[1] \in StopNames(db) /\ q[2] \in StopNames(db)
  <2> SUFFICES ASSUME NEW q \in StoredPairs(db)
               PROVE  q \in StopPair /\ q[1] \in StopNames(db) /\ q[2] \in StopNames(db)
    OBVIOUS
  <2>1. q \in StopPair /\ db.distances[q] # NoEntry
    BY DEF StoredPairs
  <2>2. q[1] # NoStop /\ q[2] # NoStop
    BY DEF Serializable
  <2>3. q \in (StopNames(db) \cup {NoStop}) \X (StopNames(db) \cup {NoStop})
    BY <2>1 DEF Resolved
  <2> QED
    BY <2>1, <2>2, <2>3
<1>6. \A n \in 1 .. Len(pairs) : <<db.stops[v[n].from + 1].name, db.stops[v[n].to + 1].name>> = pairs[n]
  <2> SUFFICES ASSUME NEW n \in 1 .. Len(pairs)
               PROVE  <<db.stops[v[n].from + 1].name, db.stops[v[n].to + 1].name>> = pairs[n]
    OBVIOUS
  <2>1. PICK q \in StoredPairs(db) : q = pairs[n]
    BY <1>3
  <2> QED
    BY <1>4, <1>5, <2>1, PairComesBack
<1>7. \A n : n \in S <=> n \in 1 .. Len(pairs) /\ pairs[n] = p
  BY <1>1, <1>4, <1>6
<1>8. CASE db.distances[p] # NoEntry
  <2>1. p \in StoredPairs(db)
    BY <1>8 DEF StoredPairs
  <2>2. PICK i \in 1 .. Len(pairs) : pairs[i] = p
    BY <1>3, <2>1, PairsOnce
  <2>3. \A n \in 1 .. Len(pairs) : pairs[n] = p => n = i
    BY <1>3, <2>2, PairsOnce
  <2>4. S = {i} /\ i \in Int
    BY <1>7, <2>2, <2>3
  <2>5. Picked(v, S) = <<v[i]>>
    BY <2>4, PickedOne
  <2>6. <<v[i]>> # <<>> /\ Last(<<v[i]>>) = v[i]
    BY DEF Last
  <2>7. v[i].distance = Uint32(db.distances[p])
    BY <1>4, <2>2 DEF DistanceToProto
  <2>8. db.distances[p] \in Int /\ FitsInt(db.distances[p])
    BY <1>8, CatalogueFields
  <2>9. Int32(v[i].distance) = db.distances[p]
    BY <2>7, <2>8, IntComesBack
  <2> QED
    BY <1>2, <2>5, <2>6, <2>9
<1>9. CASE db.distances[p] = NoEntry
  <2>1. p \notin StoredPairs(db)
    BY <1>9 DEF StoredPairs
  <2>2. S = {}
    <3>1. \A n \in 1 .. Len(pairs) : pairs[n] \in StoredPairs(db)
      BY <1>3
    <3> QED
      BY <1>7, <2>1, <3>1
  <2>3. Picked(v, S) = <<>>
    BY <2>2, PickedNone
  <2> QED
    BY <1>2, <1>9, <2>3
<1> QED
  BY <1>8, <1>9

\* The fields before the table hold what the base holds.
EarlyFields(f, origin, pairs) ==
    /\ Field(f, "stops") = origin.db.stops
    /\ Field(f, "buses") = BusValues(origin.db)
    /\ Field(f, "distances") = DistanceValues(origin.db, pairs)
    /\ Field(f, "edges_to_buses") = EdgeBusValues(origin.db)
    /\ Field(f, "edges") = origin.edges

\* If anything of the table was written, all that it refers to was; if the
\* last element was, everything was.
LEMMA LateFields ==
    ASSUME NEW origin \in Base, Resolved(origin.db), NEW pairs \in SetToSeqs(StoredPairs(origin.db)),
           NEW f, Cut(Message(origin, pairs), f)
    PROVE  /\ Field(f, "router") # <<>> => EarlyFields(f, origin, pairs)
           /\ Field(f, "routing_settings") # <<>> =>
                /\ EarlyFields(f, origin, pairs)
                /\ Field(f, "router") = RowValues(origin.table)
                /\ Field(f, "render_settings") = <<origin.drawing>>
<1>1. PICK db : db = origin.db
  OBVIOUS
<1>2. PICK m, v1, v2, v3, v4, v5, v6, v7, v8 :
         /\ m = Message(origin, pairs) /\ v1 = db.stops
         /\ v2 = BusValues(db) /\ v3 = DistanceValues(db, pairs)
         /\ v4 = EdgeBusValues(db) /\ v5 = origin.edges /\ v6 = RowValues(origin.table)
         /\ v7 = <<origin.drawing>> /\ v8 = <<RoutingSettingsToProto(origin.routing)>>
  OBVIOUS
<1>3. /\ \E W, n, l2, l3, l4, l5, l6, l7, l8 :
           Layout(W, m, n, v1, v2, v3, v4, v5, v6, v7, v8, l2, l3, l4, l5, l6, l7, l8)
      /\ Len(v1) \in Nat /\ Len(v2) = Len(db.buses) /\ Len(v2) \in Nat
      /\ Len(v3) = Len(pairs) /\ Len(v3) \in Nat
      /\ Len(v4) = IF EdgeBusIds(db) = <<>> THEN 0 ELSE 1
      /\ Len(v5) \in Nat /\ Len(v6) = Len(origin.table) /\ Len(v6) \in Nat
  BY <1>1, <1>2, MessageLayout
<1>4. PICK W, n, l2, l3, l4, l5, l6, l7, l8 :
           Layout(W, m, n, v1, v2, v3, v4, v5, v6, v7, v8, l2, l3, l4, l5, l6, l7, l8)
  BY <1>3
<1>5. Len(v4) \in Nat /\ Len(v7) = 1 /\ Len(v8) = 1
  BY <1>2, <1>3
<1>6. PICK a1, a2, a3, a4, a5, a6 :
         /\ a1 = Len(v1) /\ a2 = Len(v2) /\ a3 = Len(v3) /\ a4 = Len(v4)
         /\ a5 = Len(v5) /\ a6 = Len(v6)
  OBVIOUS
<1>7. /\ a1 \in Nat /\ a2 \in Nat /\ a3 \in Nat /\ a4 \in Nat /\ a5 \in Nat /\ a6 \in Nat
      /\ l2 = a1 /\ l3 = l2 + a2 /\ l4 = l3 + a3 /\ l5 = l4 + a4 /\ l6 = l5 + a5 /\ l7 = l6 + a6
      /\ l8 = l7 + 1
  BY <1>3, <1>4, <1>5, <1>6 DEF Layout
<1>8. /\ l2 \in Nat /\ l3 \in Nat /\ l4 \in Nat /\ l5 \in Nat /\ l6 \in Nat /\ l7 \in Nat
      /\ l8 \in Nat /\ 0 \in Nat
  BY <1>7
<1>9. Cut(m, f) /\ Len(m) \in Nat
  <2>1. m \in Seq(Element(W))
    BY <1>4 DEF Layout
  <2> QED
    BY <1>2, <2>1
<1>10. /\ Block(m, "stops", 0, v1) /\ Block(m, "buses", l2, v2)
       /\ Block(m, "distances", l3, v3) /\ Block(m, "edges_to_buses", l4, v4)
       /\ Block(m, "edges", l5, v5) /\ Block(m, "router", l6, v6)
       /\ Block(m, "render_settings", l7, v7) /\ Block(m, "routing_settings", l8, v8)
  BY <1>4 DEF Layout
<1>11. /\ v1 \in [1 .. a1 -> ToSet(v1)] /\ v2 \in [1 .. a2 -> ToSet(v2)]
       /\ v3 \in [1 .. a3 -> ToSet(v3)] /\ v4 \in [1 .. a4 -> ToSet(v4)]
       /\ v5 \in [1 .. a5 -> ToSet(v5)] /\ v6 \in [1 .. a6 -> ToSet(v6)]
  <2>1. /\ \E k \in Nat : v1 \in [1 .. k -> ToSet(v1)] /\ k = a1
        /\ \E k \in Nat : v2 \in [1 .. k -> ToSet(v2)] /\ k = a2
        /\ \E k \in Nat : v3 \in [1 .. k -> ToSet(v3)] /\ k = a3
        /\ \E k \in Nat : v4 \in [1 .. k -> ToSet(v4)] /\ k = a4
        /\ \E k \in Nat : v5 \in [1 .. k -> ToSet(v5)] /\ k = a5
        /\ \E k \in Nat : v6 \in [1 .. k -> ToSet(v6)] /\ k = a6
    BY <1>1, <1>2, <1>3, <1>6, ValuesAreSeqs
  <2> QED
    BY <2>1
<1>12. v7 \in [1 .. 1 -> ToSet(v7)]
  BY <1>2 DEF ToSet
<1>13. ASSUME l6 < Len(f) PROVE EarlyFields(f, origin, pairs)
  <2>1. Len(f) \in Nat
    BY <1>9 DEF Cut
  <2>2. 0 + a1 < Len(f) /\ l2 + a2 < Len(f) /\ l3 + a3 < Len(f) /\ l4 + a4 < Len(f) /\ l5 + a5 < Len(f)
    BY <1>7, <1>13, <2>1
  <2>3. Field(f, "stops") = v1
    BY <1>6, <1>7, <1>8, <1>9, <1>10, <1>11, <2>2, FieldIsWhole
  <2>4. Field(f, "buses") = v2
    BY <1>6, <1>7, <1>8, <1>9, <1>10, <1>11, <2>2, FieldIsWhole
  <2>5. Field(f, "distances") = v3
    BY <1>6, <1>7, <1>8, <1>9, <1>10, <1>11, <2>2, FieldIsWhole
  <2>6. Field(f, "edges_to_buses") = v4
    BY <1>6, <1>7, <1>8, <1>9, <1>10, <1>11, <2>2, FieldIsWhole
  <2>7. Field(f, "edges") = v5
    BY <1>6, <1>7, <1>8, <1>9, <1>10, <1>11, <2>2, FieldIsWhole
  <2> QED
    BY <1>1, <1>2, <2>3, <2>4, <2>5, <2>6, <2>7 DEF EarlyFields
<1>14. ASSUME Field(f, "router") # <<>> PROVE l6 < Len(f)
  BY <1>3, <1>8, <1>9, <1>10, <1>14, FieldIsReached
<1>15. ASSUME Field(f, "routing_settings") # <<>>
       PROVE  /\ l6 < Len(f) /\ Field(f, "router") = v6 /\ Field(f, "render_settings") = v7
  <2>1. Len(v8) \in Nat
    BY <1>5
  <2>2. l8 < Len(f)
    BY <1>8, <1>9, <1>10, <1>15, <2>1, FieldIsReached
  <2>3. Len(f) \in Nat
    BY <1>9 DEF Cut
  <2>4. l6 < Len(f) /\ l6 + a6 < Len(f) /\ l7 + 1 < Len(f)
    BY <1>7, <2>2, <2>3
  <2>5. Field(f, "router") = v6
    BY <1>6, <1>7, <1>8, <1>9, <1>10, <1>11, <2>4, FieldIsWhole
  <2>6. Field(f, "render_settings") = v7
    <3>1. 1 \in Nat /\ Len(v7) = 1
      BY <1>5
    <3> QED
      BY <1>8, <1>9, <1>10, <1>12, <2>4, <3>1, FieldIsWhole
  <2> QED
    BY <2>4, <2>5, <2>6
<1> QED
  BY <1>2, <1>13, <1>14, <1>15

\* The index written for a bus is that of a bus of its name.
LEMMA BusIdHasName ==
    ASSUME NEW db \in Catalogue, NEW b \in BusNames(db)
    PROVE  db.buses[BusId(db, b) + 1].name = b
<1>1. PICK k \in DOMAIN db.buses : db.buses[k].name = b
  BY DEF BusNames
<1>2. PICK n : n = CHOOSE i \in DOMAIN db.buses : db.buses[i].name = b
  OBVIOUS
<1>3. n \in DOMAIN db.buses /\ db.buses[n].name = b
  BY <1>1, <1>2
<1>4. n \in Int
  BY <1>3, CatalogueFields
<1>5. BusId(db, b) = n - 1
  BY <1>2 DEF BusId
<1>6. BusId(db, b) + 1 = n
  BY <1>4, <1>5
<1> QED
  BY <1>3, <1>6

\* The same catalogue, but that the index leaves stops without buses out.
SameCatalogue(d, e) ==
    /\ e.stops = d.stops /\ e.buses = d.buses
    /\ e.distances = d.distances /\ e.edges_to_buses = d.edges_to_buses
    /\ \A s \in StopNames(d) :
         e.buses_for_stop[s] = IF d.buses_for_stop[s] = {} THEN NoEntry ELSE d.buses_for_stop[s]

\* The buses that are read are those that were written.
LEMMA BusesComeBack ==
    ASSUME NEW db \in Catalogue, Resolved(db), Serializable(db),
           NEW v, v = BusValues(db)
    PROVE  [n \in DOMAIN v |-> BusFromProto(db.stops, v[n])] = db.buses
<1>1. db.buses \in Seq(Bus) /\ DOMAIN v = DOMAIN db.buses
  BY CatalogueFields DEF BusValues
<1>2. ASSUME NEW n \in DOMAIN db.buses
      PROVE  BusFromProto(db.stops, v[n]) = db.buses[n]
  <2>1. PICK bus \in Bus : bus = db.buses[n]
    BY <1>1
  <2>2. v[n] = BusToProto(db, bus)
    BY <2>1 DEF BusValues
  <2>3. /\ ToSet(bus.route) \subseteq StopNames(db)
        /\ bus.start_stop \in StopNames(db) /\ bus.end_stop \in StopNames(db)
    <3>1. bus.start_stop # NoStop /\ bus.end_stop # NoStop
      BY <2>1 DEF Serializable
    <3> QED
      BY <2>1, <3>1 DEF Resolved
  <2> QED
    BY <2>1, <2>2, <2>3, BusComesBack
<1>3. PICK w : w = [n \in DOMAIN v |-> BusFromProto(db.stops, v[n])]
  OBVIOUS
<1>4. w = [n \in DOMAIN db.buses |-> db.buses[n]]
  BY <1>1, <1>2, <1>3
<1>5. db.buses = [n \in DOMAIN db.buses |-> db.buses[n]]
  BY <1>1
<1> QED
  BY <1>3, <1>4, <1>5

\* So are the buses of the edges.
LEMMA EdgeBusesComeBack ==
    ASSUME NEW db \in Catalogue, Resolved(db), NEW f, Field(f, "edges_to_buses") = EdgeBusValues(db)
    PROVE  [n \in DOMAIN EdgesToBuses(f) |-> db.buses[EdgesToBuses(f)[n] + 1].name] = db.edges_to_buses
<1>1. PICK E, ids : E = EdgesToBuses(f) /\ ids = EdgeBusIds(db)
  OBVIOUS
<1>2. E = ids
  <2>1. E = IF EdgeBusValues(db) = <<>> THEN <<>> ELSE Last(EdgeBusValues(db))
    BY <1>1 DEF EdgesToBuses, Singular
  <2>2. EdgeBusValues(db) = IF ids = <<>> THEN <<>> ELSE <<ids>>
    BY <1>1 DEF EdgeBusValues
  <2>3. <<ids>> # <<>> /\ Last(<<ids>>) = ids
    BY DEF Last
  <2> QED
    BY <2>1, <2>2, <2>3
<1>3. /\ db.edges_to_buses \in Seq(BusName)
      /\ DOMAIN ids = DOMAIN db.edges_to_buses
      /\ \A n \in DOMAIN db.edges_to_buses : ids[n] = BusId(db, db.edges_to_buses[n])
  BY <1>1, CatalogueFields DEF EdgeBusIds
<1>4. \A n \in DOMAIN db.edges_to_buses : db.buses[ids[n] + 1].name = db.edges_to_buses[n]
  <2> SUFFICES ASSUME NEW n \in DOMAIN db.edges_to_buses
               PROVE  db.buses[ids[n] + 1].name = db.edges_to_buses[n]
    OBVIOUS
  <2>1. PICK b \in BusNames(db) : b = db.edges_to_buses[n]
    BY DEF Resolved, ToSet
  <2>2. ids[n] = BusId(db, b)
    BY <1>3, <2>1
  <2> QED
    BY <2>1, <2>2, BusIdHasName
<1>5. PICK w : w = [n \in DOMAIN E |-> db.buses[E[n] + 1].name]
  OBVIOUS
<1>6. w = [n \in DOMAIN db.edges_to_buses |-> db.edges_to_buses[n]]
  BY <1>2, <1>3, <1>4, <1>5
<1>7. db.edges_to_buses = [n \in DOMAIN db.edges_to_buses |-> db.edges_to_buses[n]]
  BY <1>3
<1> QED
  BY <1>1, <1>5, <1>6, <1>7

\* The catalogue comes back from a file that is whole up to the table.
LEMMA CatalogueComesBack ==
    ASSUME NEW origin \in Base, AsMade(origin), Serializable(origin.db),
           NEW pairs \in SetToSeqs(StoredPairs(origin.db)), NEW f, EarlyFields(f, origin, pairs)
    PROVE  SameCatalogue(origin.db, DeserializeDb(f))
<1>1. PICK db, e : db = origin.db /\ e = DeserializeDb(f)
  OBVIOUS
<1>2. /\ db \in Catalogue /\ Resolved(db) /\ Indexed(db) /\ Serializable(db)
      /\ \A p \in StopPair : db.distances[p] # NoEntry => FitsInt(db.distances[p])
  BY <1>1, BaseFields DEF AsMade
<1>3. /\ Field(f, "stops") = db.stops /\ Field(f, "buses") = BusValues(db)
      /\ Field(f, "distances") = DistanceValues(db, pairs)
      /\ Field(f, "edges_to_buses") = EdgeBusValues(db)
  BY <1>1 DEF EarlyFields
<1>4. PICK F1, F2, F3, E, B :
         /\ F1 = Field(f, "stops") /\ F2 = Field(f, "buses") /\ F3 = Field(f, "distances")
         /\ E = EdgesToBuses(f) /\ B = [n \in DOMAIN F2 |-> BusFromProto(F1, F2[n])]
  OBVIOUS
<1>5. PICK calling : calling = [s \in StopName |-> {B[n].name : n \in {m \in DOMAIN B : s \in ToSet(B[m].route)}}]
  OBVIOUS
<1>6. e = [stops |-> F1, buses |-> B,
           buses_for_stop |-> [s \in StopName |->
              IF {B[n].name : n \in {m \in DOMAIN B : s \in ToSet(B[m].route)}} = {} THEN NoEntry
              ELSE {B[n].name : n \in {m \in DOMAIN B : s \in ToSet(B[m].route)}}],
           distances |-> [p \in StopPair |->
              IF Filter(F3, LAMBDA d : <<F1[d.from + 1].name, F1[d.to + 1].name>> = p) = <<>> THEN NoEntry
              ELSE Int32(Last(Filter(F3, LAMBDA d : <<F1[d.from + 1].name, F1[d.to + 1].name>> = p)).distance)],
           edges_to_buses |-> [n \in DOMAIN E |-> B[E[n] + 1].name]]
  BY <1>1, <1>4 DEF DeserializeDb
<1>7. B = db.buses
  BY <1>2, <1>3, <1>4, BusesComeBack
<1>8. e.stops = db.stops /\ e.buses = db.buses
  BY <1>3, <1>4, <1>6, <1>7
<1>9. e.edges_to_buses = db.edges_to_buses
  <2>1. e.edges_to_buses = [n \in DOMAIN E |-> db.buses[E[n] + 1].name]
    BY <1>6, <1>7
  <2> QED
    BY <1>2, <1>3, <1>4, <2>1, EdgeBusesComeBack
<1>10. e.distances = db.distances
  <2>1. e.distances = [p \in StopPair |-> e.distances[p]]
    BY <1>6
  <2>2. ASSUME NEW p \in StopPair PROVE e.distances[p] = db.distances[p]
    <3>1. F3 = DistanceValues(db, pairs) /\ F1 = db.stops /\ pairs \in SetToSeqs(StoredPairs(db))
      BY <1>1, <1>3, <1>4
    <3>2. e.distances[p] =
            IF Filter(F3, LAMBDA d : <<db.stops[d.from + 1].name, db.stops[d.to + 1].name>> = p) = <<>> THEN NoEntry
            ELSE Int32(Last(Filter(F3, LAMBDA d : <<db.stops[d.from + 1].name, db.stops[d.to + 1].name>> = p)).distance)
      BY <1>6, <3>1
    <3>3. (IF Filter(F3, LAMBDA d : <<db.stops[d.from + 1].name, db.stops[d.to + 1].name>> = p) = <<>> THEN NoEntry
           ELSE Int32(Last(Filter(F3, LAMBDA d : <<db.stops[d.from + 1].name, db.stops[d.to + 1].name>> = p)).distance))
          = db.distances[p]
      BY <1>2, <3>1, DistanceComesBack
    <3> QED
      BY <3>2, <3>3
  <2>3. db.distances = [p \in StopPair |-> db.distances[p]]
    BY <1>2, CatalogueFields
  <2> QED
    BY <2>1, <2>2, <2>3
<1>11. ASSUME NEW s \in StopNames(db)
       PROVE  e.buses_for_stop[s] = IF db.buses_for_stop[s] = {} THEN NoEntry ELSE db.buses_for_stop[s]
  <2>1. s \in StopName
    BY <1>2, CatalogueFields
  <2>2. db.buses_for_stop[s] = {B[n].name : n \in {m \in DOMAIN B : s \in ToSet(B[m].route)}}
    BY <1>2, <1>7 DEF Indexed
  <2>3. PICK c : c = {B[n].name : n \in {m \in DOMAIN B : s \in ToSet(B[m].route)}}
    OBVIOUS
  <2>4. e.buses_for_stop[s] = IF c = {} THEN NoEntry ELSE c
    BY <1>6, <2>1, <2>3
  <2> QED
    BY <2>2, <2>3, <2>4
<1> QED
  BY <1>1, <1>8, <1>9, <1>10, <1>11 DEF SameCatalogue

\* The table comes back from a file that has all of it.
LEMMA TableComesBack ==
    ASSUME NEW table \in Seq(Seq({NoRoute} \cup RouteInternalData)), NEW f,
           Field(f, "router") = RowValues(table)
    PROVE  DeserializeRoutesInternalData(f) = table
<1>1. PICK rows : rows = RowValues(table)
  OBVIOUS
<1>2. DOMAIN rows = DOMAIN table /\ \A v \in DOMAIN table : rows[v] = RowValue(table[v])
  BY <1>1 DEF RowValues
<1>3. ASSUME NEW v \in DOMAIN table
      PROVE  [w \in DOMAIN rows[v] |-> EntryFromProto(rows[v][w])] = table[v]
  <2>1. PICK row \in Seq({NoRoute} \cup RouteInternalData) : row = table[v]
    OBVIOUS
  <2>2. rows[v] = RowValue(row)
    BY <1>2, <2>1
  <2> QED
    BY <2>1, <2>2, RowComesBack
<1>4. DeserializeRoutesInternalData(f) =
        [v \in DOMAIN rows |-> [w \in DOMAIN rows[v] |-> EntryFromProto(rows[v][w])]]
  BY <1>1 DEF DeserializeRoutesInternalData
<1>5. DeserializeRoutesInternalData(f) = [v \in DOMAIN table |-> table[v]]
  BY <1>2, <1>3, <1>4
<1>6. table = [v \in DOMAIN table |-> table[v]]
  OBVIOUS
<1> QED
  BY <1>5, <1>6

\* A base of which routes are told as of another.
SameRoutes(b, c) ==
    SameCatalogue(b.db, c.db) /\ c.vrtx_to_stops = b.vrtx_to_stops /\ c.edges = b.edges

\* A base that differs from another only in what SameCatalogue allows.
SameBase(b, c) ==
    SameRoutes(b, c) /\ c.table = b.table /\ c.drawing = b.drawing /\ c.routing = b.routing

\* What a table was made of comes back with any of it; a file that is complete
\* loses nothing.
LEMMA BaseComesBack ==
    ASSUME NEW origin \in Base, AsMade(origin), Serializable(origin.db),
           NEW pairs \in SetToSeqs(StoredPairs(origin.db)), NEW f, Cut(Message(origin, pairs), f)
    PROVE  /\ Field(f, "router") # <<>> => SameRoutes(origin, Deserialize(f))
           /\ Field(f, "routing_settings") = <<RoutingSettingsToProto(origin.routing)>> =>
                SameBase(origin, Deserialize(f))
<1>1. /\ Resolved(origin.db) /\ origin.db \in Catalogue /\ FitsInt(origin.routing.bus_wait_time)
      /\ origin.table \in Seq(Seq({NoRoute} \cup RouteInternalData)) /\ origin.routing \in RoutingSettings
  BY BaseFields DEF AsMade, Base
<1>2. PICK c : c = Deserialize(f)
  OBVIOUS
<1>3. /\ c.db = DeserializeDb(f) /\ c.edges = Field(f, "edges")
      /\ c.table = DeserializeRoutesInternalData(f)
      /\ c.vrtx_to_stops = GetAllStops(c.db)
      /\ c.drawing = Singular(f, "render_settings", NoRenderSettings)
      /\ c.routing = [Singular(f, "routing_settings", NoSettings) EXCEPT !.bus_wait_time = Int32(@)]
  BY <1>2 DEF Deserialize, IndexStopsAgain
<1>4. ASSUME EarlyFields(f, origin, pairs) PROVE SameRoutes(origin, c)
  <2>1. SameCatalogue(origin.db, c.db)
    BY <1>3, <1>4, CatalogueComesBack
  <2>2. c.vrtx_to_stops = origin.vrtx_to_stops
    <3>1. origin.vrtx_to_stops = GetAllStops(origin.db)
      BY DEF AsMade, IndexStops
    <3>2. StopNames(c.db) = StopNames(origin.db)
      BY <2>1 DEF SameCatalogue, StopNames
    <3> QED
      BY <1>3, <3>1, <3>2 DEF GetAllStops
  <2> QED
    BY <1>3, <1>4, <2>1, <2>2 DEF EarlyFields, SameRoutes
<1>5. Field(f, "router") # <<>> => EarlyFields(f, origin, pairs)
  BY <1>1, LateFields
<1>6. ASSUME Field(f, "routing_settings") = <<RoutingSettingsToProto(origin.routing)>>
      PROVE  SameBase(origin, c)
  <2>1. PICK r : r = RoutingSettingsToProto(origin.routing)
    OBVIOUS
  <2>2. <<r>> # <<>> /\ Last(<<r>>) = r
    BY DEF Last
  <2>3. /\ EarlyFields(f, origin, pairs) /\ Field(f, "router") = RowValues(origin.table)
        /\ Field(f, "render_settings") = <<origin.drawing>>
    BY <1>1, <1>6, <2>1, <2>2, LateFields
  <2>4. c.table = origin.table
    BY <1>1, <1>3, <2>3, TableComesBack
  <2>5. c.drawing = origin.drawing
    <3>1. PICK d : d = origin.drawing
      OBVIOUS
    <3>2. <<d>> # <<>> /\ Last(<<d>>) = d
      BY DEF Last
    <3> QED
      BY <1>3, <2>3, <3>1, <3>2 DEF Singular
  <2>6. c.routing = origin.routing
    <3>1. PICK t \in Int, u \in Int : origin.routing = [bus_wait_time |-> t, bus_velocity |-> u]
      BY <1>1 DEF RoutingSettings
    <3>2. r = [bus_wait_time |-> Uint32(t), bus_velocity |-> u]
      BY <2>1, <3>1 DEF RoutingSettingsToProto
    <3>3. FitsInt(t)
      BY <1>1, <3>1
    <3>4. Int32(Uint32(t)) = t
      BY <3>3, IntComesBack
    <3>5. Singular(f, "routing_settings", NoSettings) = r
      BY <1>6, <2>1, <2>2 DEF Singular
    <3>6. c.routing = [bus_wait_time |-> Int32(Uint32(t)), bus_velocity |-> u]
      BY <1>3, <3>2, <3>5
    <3> QED
      BY <3>1, <3>4, <3>6
  <2> QED
    BY <1>4, <2>3, <2>4, <2>5, <2>6 DEF SameBase
<1> QED
  BY <1>2, <1>4, <1>5, <1>6

-----------------------------------------------------------------------------
(* A run that fails *)

\* What every step keeps: a run in progress has not failed yet, and before a
\* make_base run opens the file, and during a process_requests run, the file
\* is the one the run found.
FileInv ==
    /\ pc # "idle" => exit = "none"
    /\ pc \in {"route", "serialize", "open", "read", "parse", "answer"} => file = before
    /\ FailureLeavesFile

\* The invariant holds before the first run.
LEMMA FileInvInit == Init => FileInv
  BY DEF Init, FileInv, FailureLeavesFile

\* A run that begins makes the invariant hold.
LEMMA FileInvBegin ==
  ASSUME NEW where \in {"route", "read"}, Begin(where)
  PROVE  FileInv'
  BY DEF Begin, FileInv, FailureLeavesFile

\* A run that ends keeps it, if the run was one that had left the file alone
\* or ends without an exception.
LEMMA FileInvEnd ==
  ASSUME NEW how \in {"ok", "exception", "crash", "killed"}, End(how),
         how = "exception" => file' = before
  PROVE  FileInv'
  BY DEF End, FileInv, FailureLeavesFile

\* Every step of make_base keeps the invariant.
LEMMA FileInvMakeStep == FileInv /\ MakeStep => FileInv'
<1> SUFFICES ASSUME FileInv, MakeStep PROVE FileInv'
  OBVIOUS
<1>1. CASE RouterThrows
  BY <1>1, FileInvEnd DEF RouterThrows, FileInv
<1>2. CASE BuildRouter
  BY <1>2 DEF BuildRouter, FileInv, FailureLeavesFile
<1>3. CASE SerializeThrows
  BY <1>3, FileInvEnd DEF SerializeThrows, FileInv
<1>4. CASE Serialize
  BY <1>4 DEF Serialize, FileInv, FailureLeavesFile
<1>5. CASE OpenFile
  BY <1>5 DEF OpenFile, FileInv, FailureLeavesFile
<1>6. CASE OpenFails
  BY <1>6, FileInvEnd DEF OpenFails
<1>7. CASE WriteElement
  BY <1>7 DEF WriteElement, FileInv, FailureLeavesFile
<1>8. CASE CloseFile
  BY <1>8, FileInvEnd DEF CloseFile
<1>9. CASE DiskFull
  BY <1>9, FileInvEnd DEF DiskFull
<1> QED
  BY <1>1, <1>2, <1>3, <1>4, <1>5, <1>6, <1>7, <1>8, <1>9 DEF MakeStep

\* Every step of process_requests keeps the invariant.
LEMMA FileInvServeStep == FileInv /\ ServeStep => FileInv'
<1> SUFFICES ASSUME FileInv, ServeStep PROVE FileInv'
  OBVIOUS
<1>1. CASE ReadFile
  BY <1>1 DEF ReadFile, FileInv, FailureLeavesFile
<1>2. CASE ParseStatRequests
  BY <1>2 DEF ParseStatRequests, FileInv, FailureLeavesFile
<1>3. CASE AnswerThrows
  BY <1>3, FileInvEnd DEF AnswerThrows, FileInv
<1>4. CASE AnswerCrashes
  BY <1>4, FileInvEnd DEF AnswerCrashes
<1>5. CASE Answer
  BY <1>5 DEF Answer, FileInv, FailureLeavesFile
<1>6. CASE PrintResponses
  BY <1>6, FileInvEnd DEF PrintResponses
<1> QED
  BY <1>1, <1>2, <1>3, <1>4, <1>5, <1>6 DEF ServeStep

\* Every step of the system keeps the invariant.
LEMMA FileInvNext == FileInv /\ [Next]_vars => FileInv'
<1> SUFFICES ASSUME FileInv, [Next]_vars PROVE FileInv'
  OBVIOUS
<1>1. ASSUME NEW b \in Bases, MakeBase(b) PROVE FileInv'
  BY <1>1, FileInvBegin DEF MakeBase
<1>2. ASSUME NEW qs \in StatDocuments, ProcessRequests(qs) PROVE FileInv'
  BY <1>2, FileInvBegin DEF ProcessRequests
<1>3. CASE Kill
  BY <1>3, FileInvEnd DEF Kill
<1>4. CASE UNCHANGED vars
  BY <1>4 DEF vars, FileInv, FailureLeavesFile
<1> QED
  BY <1>1, <1>2, <1>3, <1>4, FileInvMakeStep, FileInvServeStep DEF Next

\* A run that an exception ends leaves the base file as it found it, whatever
\* is loaded, saved and asked, however runs follow one another.
THEOREM FailuresNeverTouchTheFile == Spec => []FailureLeavesFile
<1>1. Spec => []FileInv
  BY FileInvInit, FileInvNext, PTL DEF Spec
<1>2. FileInv => FailureLeavesFile
  BY DEF FileInv
<1> QED
  BY <1>1, <1>2, PTL

-----------------------------------------------------------------------------
(* CutFileIsConsistent *)

\* The messages that a base is serialized to, by the order of the distances.
Messages(b) == {Message(b, pairs) : pairs \in SetToSeqs(StoredPairs(b.db))}

\* The first elements of a message, all of them whole.
Prefix(m, f) == Len(f) \in Nat /\ Len(f) <= Len(m) /\ f = [i \in 1 .. Len(f) |-> m[i]]

\* The file is always what was written of one base, up to a cut: of the one it
\* was last opened for.  While it is being written, it is a whole prefix of
\* the message.
SourceInv ==
    /\ source \in Bases \cup {EmptyBase} /\ Serializable(source.db)
    /\ \E m \in Messages(source) : Cut(m, file)
    /\ pc \in {"route", "serialize", "open", "write"} => base \in Bases
    /\ pc \in {"open", "write"} => Serializable(base.db) /\ message \in Messages(base)
    /\ pc = "write" => source = base /\ Prefix(message, file)

\* The base of a program that never wrote one could have been made, too.
LEMMA EmptyBaseMade == EmptyBase \in Base /\ AsMade(EmptyBase) /\ Serializable(EmptyBase.db)
<1>1. PICK d : d = EmptyCatalogue
  OBVIOUS
<1>2. /\ d.stops = <<>> /\ d.buses = <<>> /\ d.edges_to_buses = <<>>
      /\ d.distances = [p \in StopPair |-> NoEntry]
  BY <1>1 DEF EmptyCatalogue
<1>3. d \in Catalogue
  BY <1>1 DEF EmptyCatalogue, Catalogue
<1>4. Resolved(d) /\ Serializable(d)
  BY <1>2 DEF Resolved, Serializable, StoredPairs, ToSet
<1>5. EmptyBase.db = d /\ EmptyBase.edges = <<>>
  BY <1>1 DEF EmptyBase
<1>6. EmptyBase \in Base
  <2>1. PICK stops : stops = IndexStops(d)
    OBVIOUS
  <2>2. stops \in Seq(StopName)
    <3>1. StopNames(d) \in SUBSET Int /\ IsFiniteSet(StopNames(d))
      BY <1>3, NamesAreFinite
    <3>2. stops \in Seq(StopNames(d)) /\ StopNames(d) = {}
      BY <1>2, <2>1, <3>1, AscendingOrder DEF IndexStops, GetAllStops, StopNames
    <3> QED
      BY <3>2
  <2>3. NoRenderSettings \in RenderSettings
    BY DEF NoRenderSettings, RenderSettings
  <2>4. EmptyBase = [db |-> d, vrtx_to_stops |-> stops, edges |-> <<>>, table |-> <<>>,
                     drawing |-> NoRenderSettings, routing |-> NoSettings]
    BY <1>1, <2>1 DEF EmptyBase
  <2>5. NoSettings \in RoutingSettings
    BY DEF NoSettings, RoutingSettings
  <2> QED
    BY <1>3, <2>2, <2>3, <2>4, <2>5 DEF Base
<1>7. Len(EmptyBase.edges) = Len(EmptyBase.db.edges_to_buses)
  BY <1>2, <1>5
<1>8. FitsInt(EmptyBase.routing.bus_wait_time)
  <2>1. WordSize \div 2 \in Nat /\ WordSize \div 2 > 0
    BY WordSizeAssumption
  <2>2. EmptyBase.routing.bus_wait_time = 0
    BY DEF EmptyBase, NoSettings
  <2> QED
    BY <2>1, <2>2 DEF FitsInt
<1>9. Indexed(d)
  BY <1>2 DEF Indexed, StopNames
<1>10. EmptyBase.vrtx_to_stops = IndexStops(d)
  BY <1>1 DEF EmptyBase
<1> QED
  BY <1>2, <1>4, <1>5, <1>6, <1>7, <1>8, <1>9, <1>10 DEF AsMade

\* It has no vertex that a route could begin at.
LEMMA EmptyBaseRouted == Routed(EvaluateVertexCount(EmptyBase.db), EmptyBase.edges, EmptyBase.table)
<1>1. EvaluateVertexCount(EmptyBase.db) = 0 /\ EmptyBase.table = <<>>
  BY DEF EmptyBase, EmptyCatalogue, EvaluateVertexCount
<1> QED
  BY <1>1 DEF Routed

\* What a base file is written from was made by the program.
LEMMA SourceIsMade ==
    ASSUME NEW b \in Bases \cup {EmptyBase}
    PROVE  b \in Base /\ AsMade(b) /\ Resolved(b.db)
  BY BasesAssumption, EmptyBaseMade DEF AsMade

\* A message is a sequence.
LEMMA MessageIsSeq ==
    ASSUME NEW b \in Bases \cup {EmptyBase}, NEW m \in Messages(b)
    PROVE  \E T : m \in Seq(T)
<1>1. PICK pairs \in SetToSeqs(StoredPairs(b.db)) : m = Message(b, pairs)
  BY DEF Messages
<1>2. b \in Base /\ Resolved(b.db)
  BY SourceIsMade
<1>3. PICK W, n, l2, l3, l4, l5, l6, l7, l8 :
         Layout(W, Message(b, pairs), n, b.db.stops, BusValues(b.db), DistanceValues(b.db, pairs),
                EdgeBusValues(b.db), b.edges, RowValues(b.table), <<b.drawing>>,
                <<RoutingSettingsToProto(b.routing)>>, l2, l3, l4, l5, l6, l7, l8)
  BY <1>2, MessageLayout
<1>4. Message(b, pairs) \in Seq(Element(W))
  BY <1>3 DEF Layout
<1> QED
  BY <1>1, <1>4

\* Nothing is the first of every message.
LEMMA EmptyPrefix ==
    ASSUME NEW T, NEW m \in Seq(T)
    PROVE  Prefix(m, <<>>)
  BY DEF Prefix

\* Writing stops between two elements, or within one.
LEMMA PrefixIsCut ==
    ASSUME NEW T, NEW m \in Seq(T), NEW f, Prefix(m, f)
    PROVE  Cut(m, f)
  BY DEF Prefix, Cut

\* A file that begins a message is a sequence of its elements.
LEMMA PrefixIsSeq ==
    ASSUME NEW T, NEW m \in Seq(T), NEW f, Prefix(m, f)
    PROVE  f \in Seq(T) /\ \A i \in 1 .. Len(f) : f[i] = m[i] /\ m[i] \in T
<1>1. /\ Len(f) \in Nat /\ Len(f) <= Len(m) /\ f = [i \in 1 .. Len(f) |-> m[i]]
      /\ Len(m) \in Nat /\ \A i \in 1 .. Len(m) : m[i] \in T
  BY DEF Prefix
<1>2. \A i \in 1 .. Len(f) : m[i] \in T /\ f[i] = m[i]
  BY <1>1
<1>3. f \in [1 .. Len(f) -> T]
  BY <1>1, <1>2
<1> QED
  BY <1>1, <1>2, <1>3, FunctionSeq

\* Written one element further, or torn in it, it is still a cut of the message.
LEMMA PrefixGrows ==
    ASSUME NEW T, NEW m \in Seq(T), NEW f, Prefix(m, f), Len(f) < Len(m)
    PROVE  /\ Prefix(m, Append(f, m[Len(f) + 1]))
           /\ \A t \in Torn(m[Len(f) + 1]) : Cut(m, Append(f, t))
<1>1. PICK n : n = Len(f)
  OBVIOUS
<1>2. n \in Nat /\ n + 1 \in 1 .. Len(m) /\ Len(m) \in Nat
  BY <1>1 DEF Prefix
<1>3. f \in Seq(T) /\ \A i \in 1 .. n : f[i] = m[i] /\ m[i] \in T
  BY <1>1, PrefixIsSeq
<1>4. \A t : LET g == Append(f, t)
             IN  /\ Len(g) = n + 1 /\ DOMAIN g = 1 .. n + 1
                 /\ g[n + 1] = t /\ \A i \in 1 .. n : g[i] = m[i]
                 /\ g = [i \in 1 .. n + 1 |-> g[i]]
  <2> SUFFICES ASSUME NEW t
               PROVE  LET g == Append(f, t)
                      IN  /\ Len(g) = n + 1 /\ DOMAIN g = 1 .. n + 1
                          /\ g[n + 1] = t /\ \A i \in 1 .. n : g[i] = m[i]
                          /\ g = [i \in 1 .. n + 1 |-> g[i]]
    OBVIOUS
  <2>1. PICK U, g : U = T \cup {t} /\ g = Append(f, t)
    OBVIOUS
  <2>2. f \in Seq(U) /\ t \in U
    BY <1>3, <2>1
  <2>3. /\ g \in Seq(U) /\ Len(g) = n + 1
        /\ \A i \in 1 .. n : g[i] = f[i]
        /\ g[n + 1] = t
    BY <1>1, <2>1, <2>2, Appended
  <2>4. DOMAIN g = 1 .. n + 1 /\ g = [i \in 1 .. n + 1 |-> g[i]]
    BY <2>3
  <2> QED
    BY <1>3, <2>1, <2>3, <2>4
<1>5. Prefix(m, Append(f, m[n + 1]))
  <2>1. PICK g : g = Append(f, m[n + 1])
    OBVIOUS
  <2>2. /\ Len(g) = n + 1 /\ g[n + 1] = m[n + 1] /\ \A i \in 1 .. n : g[i] = m[i]
        /\ g = [i \in 1 .. n + 1 |-> g[i]]
    BY <1>4, <2>1
  <2>3. ASSUME NEW i \in 1 .. n + 1 PROVE g[i] = m[i]
    <3>1. i \in 1 .. n \/ i = n + 1
      BY <1>2
    <3> QED
      BY <2>2, <3>1
  <2>4. g = [i \in 1 .. n + 1 |-> m[i]]
    BY <2>2, <2>3
  <2>5. n + 1 \in Nat /\ n + 1 <= Len(m)
    BY <1>2
  <2> QED
    BY <2>1, <2>2, <2>4, <2>5 DEF Prefix
<1>6. ASSUME NEW t \in Torn(m[n + 1]) PROVE Cut(m, Append(f, t))
  <2>1. PICK g : g = Append(f, t)
    OBVIOUS
  <2>2. /\ Len(g) = n + 1 /\ DOMAIN g = 1 .. n + 1
        /\ g[n + 1] = t /\ \A i \in 1 .. n : g[i] = m[i]
    BY <1>4, <2>1
  <2>3. \A i \in 1 .. n + 1 : g[i] = m[i] \/ (i = n + 1 /\ g[i] \in Torn(m[i]))
    BY <1>2, <2>2
  <2> QED
    BY <1>2, <2>1, <2>2, <2>3 DEF Cut
<1> QED
  BY <1>1, <1>5, <1>6

\* The invariant holds before the first run.
LEMMA SourceInvInit == Init => SourceInv
<1> SUFFICES ASSUME Init PROVE SourceInv
  OBVIOUS
<1>1. source = EmptyBase /\ file = <<>> /\ pc = "idle"
  BY DEF Init
<1>2. EmptyBase \in Base /\ AsMade(EmptyBase) /\ Serializable(EmptyBase.db)
  BY EmptyBaseMade
<1>3. PICK m : m \in Messages(EmptyBase)
  <2>1. StoredPairs(EmptyBase.db) = {}
    BY DEF EmptyBase, EmptyCatalogue, StoredPairs
  <2>2. <<>> \in SetToSeqs(StoredPairs(EmptyBase.db))
    <3>1. Cardinality({}) = 0
      BY FS_EmptySet
    <3> QED
      BY <2>1, <3>1 DEF SetToSeqs
  <2> QED
    BY <2>2 DEF Messages
<1>4. Cut(m, <<>>)
  BY <1>3, MessageIsSeq, EmptyPrefix, PrefixIsCut
<1> QED
  BY <1>1, <1>2, <1>3, <1>4 DEF SourceInv

\* A run that ends keeps it, if the file is still a cut of a message.
LEMMA SourceInvEnd ==
    ASSUME NEW how \in {"ok", "exception", "crash", "killed"}, End(how), SourceInv,
           UNCHANGED source, \E m \in Messages(source) : Cut(m, file')
    PROVE  SourceInv'
  BY DEF End, SourceInv

\* Writing that stops for good leaves a cut of the message.
LEMMA CutOffIsCut ==
    ASSUME SourceInv, CutOff
    PROVE  \E m \in Messages(source) : Cut(m, file')
<1>1. PICK f, m : f = file /\ m = message
  OBVIOUS
<1>2. m \in Messages(source) /\ Prefix(m, f) /\ Len(f) < Len(m) /\ source \in Bases \cup {EmptyBase}
  BY <1>1 DEF SourceInv, CutOff
<1>3. PICK T : m \in Seq(T)
  BY <1>2, MessageIsSeq
<1>4. Cut(m, f) /\ \A t \in Torn(m[Len(f) + 1]) : Cut(m, Append(f, t))
  BY <1>2, <1>3, PrefixIsCut, PrefixGrows
<1>5. file' \in {f} \cup {Append(f, t) : t \in Torn(m[Len(f) + 1])}
  BY <1>1 DEF CutOff
<1> QED
  BY <1>2, <1>4, <1>5

\* Every step of make_base keeps the invariant.
LEMMA SourceInvMakeStep == SourceInv /\ MakeStep => SourceInv'
<1> SUFFICES ASSUME SourceInv, MakeStep PROVE SourceInv'
  OBVIOUS
<1>0. \E m \in Messages(source) : Cut(m, file)
  BY DEF SourceInv
<1>1. CASE RouterThrows
  BY <1>0, <1>1, SourceInvEnd DEF RouterThrows
<1>2. CASE BuildRouter
  BY <1>2 DEF BuildRouter, SourceInv, made
<1>3. CASE SerializeThrows
  BY <1>0, <1>3, SourceInvEnd DEF SerializeThrows
<1>4. CASE Serialize
  BY <1>4 DEF Serialize, SourceInv, Messages
<1>5. CASE OpenFile
  <2>1. /\ base \in Bases /\ Serializable(base.db) /\ message \in Messages(base)
        /\ pc' = "write" /\ file' = <<>> /\ source' = base /\ base' = base /\ message' = message
    BY <1>5 DEF OpenFile, SourceInv, made
  <2>2. Cut(message, <<>>) /\ Prefix(message, <<>>)
    <3>1. PICK m, b : m = message /\ b = base
      OBVIOUS
    <3>2. b \in Bases \cup {EmptyBase} /\ m \in Messages(b)
      BY <2>1, <3>1
    <3>3. PICK T : m \in Seq(T)
      BY <3>2, MessageIsSeq
    <3>4. Cut(m, <<>>) /\ Prefix(m, <<>>)
      BY <3>3, EmptyPrefix, PrefixIsCut
    <3> QED
      BY <3>1, <3>4
  <2> QED
    BY <2>1, <2>2 DEF SourceInv
<1>6. CASE OpenFails
  BY <1>0, <1>6, SourceInvEnd DEF OpenFails
<1>7. CASE WriteElement
  <2>1. PICK f, m : f = file /\ m = message
    OBVIOUS
  <2>2. m \in Messages(source) /\ Prefix(m, f) /\ Len(f) < Len(m) /\ source \in Bases \cup {EmptyBase}
    BY <1>7, <2>1 DEF SourceInv, WriteElement
  <2>3. PICK T : m \in Seq(T)
    BY <2>2, MessageIsSeq
  <2>4. PICK g : g = Append(f, m[Len(f) + 1])
    OBVIOUS
  <2>5. Prefix(m, g) /\ Cut(m, g)
    BY <2>2, <2>3, <2>4, PrefixIsCut, PrefixGrows
  <2>6. file' = g /\ message' = message /\ source' = source /\ base' = base /\ pc' = pc
    BY <1>7, <2>1, <2>4 DEF WriteElement, made
  <2> QED
    BY <1>7, <2>1, <2>2, <2>5, <2>6 DEF SourceInv, WriteElement
<1>8. CASE CloseFile
  BY <1>0, <1>8, SourceInvEnd DEF CloseFile
<1>9. CASE DiskFull
  BY <1>9, CutOffIsCut, SourceInvEnd DEF DiskFull
<1> QED
  BY <1>1, <1>2, <1>3, <1>4, <1>5, <1>6, <1>7, <1>8, <1>9 DEF MakeStep

\* Every step of process_requests keeps the invariant.
LEMMA SourceInvServeStep == SourceInv /\ ServeStep => SourceInv'
<1> SUFFICES ASSUME SourceInv, ServeStep PROVE SourceInv'
  OBVIOUS
<1>0. \E m \in Messages(source) : Cut(m, file)
  BY DEF SourceInv
<1>1. CASE ReadFile
  BY <1>1 DEF ReadFile, SourceInv
<1>2. CASE ParseStatRequests
  BY <1>2 DEF ParseStatRequests, SourceInv
<1>3. CASE AnswerThrows
  BY <1>0, <1>3, SourceInvEnd DEF AnswerThrows
<1>4. CASE AnswerCrashes
  BY <1>0, <1>4, SourceInvEnd DEF AnswerCrashes
<1>5. CASE Answer
  BY <1>5 DEF Answer, SourceInv
<1>6. CASE PrintResponses
  BY <1>0, <1>6, SourceInvEnd DEF PrintResponses
<1> QED
  BY <1>1, <1>2, <1>3, <1>4, <1>5, <1>6 DEF ServeStep

\* Every step of the system keeps the invariant.
LEMMA SourceInvNext == SourceInv /\ [Next]_vars => SourceInv'
<1> SUFFICES ASSUME SourceInv, [Next]_vars PROVE SourceInv'
  OBVIOUS
<1>0. \E m \in Messages(source) : Cut(m, file)
  BY DEF SourceInv
<1>1. ASSUME NEW b \in Bases, MakeBase(b) PROVE SourceInv'
  BY <1>1 DEF MakeBase, Begin, SourceInv
<1>2. ASSUME NEW qs \in StatDocuments, ProcessRequests(qs) PROVE SourceInv'
  BY <1>2 DEF ProcessRequests, Begin, SourceInv
<1>3. CASE Kill
  BY <1>0, <1>3, CutOffIsCut, SourceInvEnd DEF Kill
<1>4. CASE UNCHANGED vars
  BY <1>4 DEF vars, made, SourceInv
<1> QED
  BY <1>1, <1>2, <1>3, <1>4, SourceInvMakeStep, SourceInvServeStep DEF Next

\* A file that is a cut of what was written is consistent.
LEMMA SourceInvConsistent == SourceInv => CutFileIsConsistent
<1> SUFFICES ASSUME SourceInv PROVE CutFileIsConsistent
  OBVIOUS
<1>1. PICK f, b : f = file /\ b = source
  OBVIOUS
<1>2. b \in Bases \cup {EmptyBase} /\ Serializable(b.db) /\ \E m \in Messages(b) : Cut(m, f)
  BY <1>1 DEF SourceInv
<1>3. PICK pairs \in SetToSeqs(StoredPairs(b.db)) : Cut(Message(b, pairs), f)
  BY <1>2 DEF Messages
<1>4. Consistent(f, b)
  BY <1>2, <1>3, SourceIsMade, CutIsConsistent
<1> QED
  BY <1>1, <1>4 DEF Consistent, CutFileIsConsistent, TableComplete

\* Wherever and whenever make_base is stopped while it writes any base, in
\* whatever order the hash map gives the distances, the file that it leaves
\* holds no index that points nowhere, no edge without its bus, and no torn row
\* of the router's table but its last.
THEOREM FilesAreConsistent == Spec => []CutFileIsConsistent
<1>1. Spec => []SourceInv
  BY SourceInvInit, SourceInvNext, PTL DEF Spec
<1> QED
  BY <1>1, SourceInvConsistent, PTL
\* The first numbers are finitely many, and as many as the last of them.
LEMMA SomeNumbers ==
    ASSUME NEW n \in Nat
    PROVE  IsFiniteSet(1 .. n) /\ Cardinality(1 .. n) = n
<1>1. 1 \in Int /\ n \in Int
  OBVIOUS
<1>2. IsFiniteSet(1 .. n) /\ Cardinality(1 .. n) = IF 1 > n THEN 0 ELSE n - 1 + 1
  BY <1>1, FS_Interval
<1>3. 1 > n => n = 0
  OBVIOUS
<1> QED
  BY <1>2, <1>3

-----------------------------------------------------------------------------
(* Answers *)

\* Catalogues that are the same but for stops without buses in the index are
\* looked into alike.
LEMMA SameLookups ==
    ASSUME NEW d, NEW e, SameCatalogue(d, e)
    PROVE  /\ StopNames(e) = StopNames(d) /\ BusNames(e) = BusNames(d)
           /\ GetAllStops(e) = GetAllStops(d) /\ GetAllBuses(e) = GetAllBuses(d)
           /\ \A s : /\ GetStop(e, s) = GetStop(d, s) /\ StopOf(e, s) = StopOf(d, s)
                     /\ PositionOf(e, s) = PositionOf(d, s)
           /\ \A b : BusOf(e, b) = BusOf(d, b)
           /\ \A n : GetBusByEdge(e, n) = GetBusByEdge(d, n)
<1>1. e.stops = d.stops /\ e.buses = d.buses /\ e.edges_to_buses = d.edges_to_buses
  BY DEF SameCatalogue
<1>2. StopNames(e) = StopNames(d) /\ BusNames(e) = BusNames(d)
  BY <1>1 DEF StopNames, BusNames
<1>3. GetAllStops(e) = GetAllStops(d) /\ GetAllBuses(e) = GetAllBuses(d)
  BY <1>2 DEF GetAllStops, GetAllBuses
<1>4. \A s : GetStop(e, s) = GetStop(d, s)
  BY <1>2 DEF GetStop
<1>5. \A s : StopOf(e, s) = StopOf(d, s)
  BY <1>1 DEF StopOf
<1>6. \A s : PositionOf(e, s) = PositionOf(d, s)
  BY <1>5 DEF PositionOf
<1>7. \A b : BusOf(e, b) = BusOf(d, b)
  BY <1>1 DEF BusOf
<1>8. \A n : GetBusByEdge(e, n) = GetBusByEdge(d, n)
  BY <1>1 DEF GetBusByEdge
<1> QED
  BY <1>2, <1>3, <1>4, <1>5, <1>6, <1>7, <1>8

\* The length of a route is a matter of the distances.
RouteLength(distances, bus) ==
    LET between(s, t) ==
          IF distances[<<s, t>>] # NoEntry THEN distances[<<s, t>>]
          ELSE IF distances[<<t, s>>] # NoEntry THEN distances[<<t, s>>]
          ELSE 0
    IN  FoldLeftDomain(LAMBDA sum, n : IF n = Len(bus.route) THEN sum
                                       ELSE sum + between(bus.route[n], bus.route[n + 1]),
                       0, bus.route)

\* A bus is told alike of both.
LEMMA SameBus ==
    ASSUME NEW d, NEW e, SameCatalogue(d, e), NEW name
    PROVE  BusInfo(e, name) = BusInfo(d, name)
<1>1. PICK bus : bus = BusOf(d, name)
  OBVIOUS
<1>2. BusNames(e) = BusNames(d) /\ BusOf(e, name) = bus /\ \A s : PositionOf(e, s) = PositionOf(d, s)
  BY <1>1, SameLookups
<1>3. ComputeRouteLength(e, bus) = ComputeRouteLength(d, bus)
  <2>1. \A c : ComputeRouteLength(c, bus) = RouteLength(c.distances, bus)
    BY DEF ComputeRouteLength, RouteLength, GetDistance
  <2> QED
    BY <2>1 DEF SameCatalogue
<1>4. [n \in DOMAIN bus.route |-> PositionOf(e, bus.route[n])]
        = [n \in DOMAIN bus.route |-> PositionOf(d, bus.route[n])]
  BY <1>2
<1> QED
  BY <1>1, <1>2, <1>3, <1>4 DEF BusInfo

\* The index says the same of every stop.
LEMMA SameIndex ==
    ASSUME NEW d, NEW e, SameCatalogue(d, e), NEW s \in StopNames(d)
    PROVE  /\ IsStopInRoutes(e, s) <=> IsStopInRoutes(d, s)
           /\ IsStopInRoutes(d, s) => GetBusesForStop(e, s) = GetBusesForStop(d, s)
<1>1. {} # NoEntry
  BY NoEntryAssumption
<1>2. e.buses_for_stop[s] = IF d.buses_for_stop[s] = {} THEN NoEntry ELSE d.buses_for_stop[s]
  BY DEF SameCatalogue
<1> QED
  BY <1>1, <1>2 DEF IsStopInRoutes, GetBusesForStop

\* A stop is told alike.
LEMMA SameStop ==
    ASSUME NEW d, NEW e, SameCatalogue(d, e), NEW name
    PROVE  StopInfo(e, name) = StopInfo(d, name)
<1>1. PICK s : s = GetStop(d, name)
  OBVIOUS
<1>2. GetStop(e, name) = s
  BY <1>1, SameLookups
<1>3. CASE s = NoStop
  BY <1>1, <1>2, <1>3 DEF StopInfo
<1>4. CASE s # NoStop
  <2>1. s \in StopNames(d)
    BY <1>1, <1>4 DEF GetStop
  <2>2. /\ IsStopInRoutes(e, s) <=> IsStopInRoutes(d, s)
        /\ IsStopInRoutes(d, s) => GetBusesForStop(e, s) = GetBusesForStop(d, s)
    BY <2>1, SameIndex
  <2> QED
    BY <1>1, <1>2, <1>4, <2>2 DEF StopInfo
<1> QED
  BY <1>3, <1>4

\* The map of a catalogue and of the stops that have buses.
MapOf(db, routed, drawing) ==
    [stops |-> [n \in DOMAIN routed |-> StopOf(db, routed[n])],
     buses |-> [n \in DOMAIN GetAllBuses(db) |-> BusOf(db, GetAllBuses(db)[n])],
     drawing |-> drawing]

\* The stops that have buses are picked out of all of them.
LEMMA MapOfPicked ==
    ASSUME NEW b
    PROVE  MapInfo(b) = MapOf(b.db, Picked(GetAllStops(b.db),
                                           {n \in DOMAIN GetAllStops(b.db) :
                                              IsStopInRoutes(b.db, GetAllStops(b.db)[n])}),
                              b.drawing)
  BY DEF MapInfo, MapOf, Filter, Picked

\* The map is given the same.
LEMMA SameMap ==
    ASSUME NEW b, NEW c, b.db \in Catalogue, SameBase(b, c)
    PROVE  MapInfo(c) = MapInfo(b) /\ MapOutcome(c) = MapOutcome(b)
<1>1. PICK d, e : d = b.db /\ e = c.db
  OBVIOUS
<1>2. SameCatalogue(d, e) /\ c.drawing = b.drawing /\ d \in Catalogue
  BY <1>1 DEF SameBase, SameRoutes
<1>3. PICK all : all = GetAllStops(d)
  OBVIOUS
<1>4. GetAllStops(e) = all /\ GetAllBuses(e) = GetAllBuses(d)
  BY <1>2, <1>3, SameLookups
<1>5. \A n \in DOMAIN all : all[n] \in StopNames(d)
  <2>1. StopNames(d) \in SUBSET Int /\ IsFiniteSet(StopNames(d))
    BY <1>2, NamesAreFinite
  <2>2. all \in Seq(StopNames(d))
    BY <1>3, <2>1, AscendingOrder DEF GetAllStops
  <2> QED
    BY <2>2
<1>6. PICK at : at = {n \in DOMAIN all : IsStopInRoutes(d, all[n])}
  OBVIOUS
<1>7. {n \in DOMAIN all : IsStopInRoutes(e, all[n])} = at
  BY <1>2, <1>5, <1>6, SameIndex
<1>8. MapInfo(b) = MapOf(d, Picked(all, at), b.drawing)
  BY <1>1, <1>3, <1>6, MapOfPicked
<1>9. MapInfo(c) = MapOf(e, Picked(all, at), c.drawing)
  BY <1>1, <1>4, <1>7, MapOfPicked
<1>10. \A r : MapOf(e, r, b.drawing) = MapOf(d, r, b.drawing)
  BY <1>2, <1>3, <1>4, SameLookups DEF MapOf
<1>11. MapInfo(c) = MapInfo(b)
  BY <1>2, <1>8, <1>9, <1>10
<1>12. MapOutcome(c) = MapOutcome(b)
  BY <1>1, <1>2 DEF MapOutcome, SameCatalogue
<1> QED
  BY <1>11, <1>12

-----------------------------------------------------------------------------
(* The walk back along a row of the table *)

\* The edge after an edge of the walk.
Hop(edges, row, e) ==
    IF e \notin DOMAIN edges THEN e
    ELSE IF edges[e].from + 1 \in DOMAIN row /\ row[edges[e].from + 1] # NoRoute
    THEN row[edges[e].from + 1].prev_edge
    ELSE Astray

\* A walk of so many hops in a row, and the one that Walk takes.
IsWalk(h, count, edges, row, first) ==
    h = [n \in 0 .. count |-> IF n = 0 THEN first ELSE Hop(edges, row, h[n - 1])]
WalkOver(count, edges, row, first) == CHOOSE h : IsWalk(h, count, edges, row, first)

\* Walk depends on the number of stops, the edges and the row only.
LEMMA WalkIsOver ==
    ASSUME NEW b, NEW v, NEW w
    PROVE  Walk(b, v, w) =
             WalkOver(Len(b.db.stops), b.edges, b.table[v + 1], b.table[v + 1][w + 1].prev_edge)
  BY DEF Walk, WalkOver, IsWalk, Hop, HasEntry, Entry

\* The walk exists.
LEMMA WalkExists ==
    ASSUME NEW count \in Nat, NEW edges, NEW row, NEW first
    PROVE  IsWalk(WalkOver(count, edges, row, first), count, edges, row, first)
<1> DEFINE T == {m \in Nat : \E h : IsWalk(h, m, edges, row, first)}
<1>1. 0 \in T
  <2> DEFINE g == [n \in 0 .. 0 |-> IF n = 0 THEN first ELSE first]
  <2>1. g = [n \in 0 .. 0 |-> IF n = 0 THEN first ELSE Hop(edges, row, g[n - 1])]
    OBVIOUS
  <2>2. IsWalk(g, 0, edges, row, first)
    BY <2>1 DEF IsWalk
  <2> QED
    BY <2>2
<1>2. \A m \in T : m + 1 \in T
  <2> SUFFICES ASSUME NEW m \in T PROVE \E g : IsWalk(g, m + 1, edges, row, first)
    OBVIOUS
  <2>1. PICK h : IsWalk(h, m, edges, row, first)
    OBVIOUS
  <2> DEFINE g == [n \in 0 .. m + 1 |-> IF n = 0 THEN first ELSE Hop(edges, row, h[n - 1])]
  <2>2. \A n \in 0 .. m : g[n] = h[n]
    <3>1. \A n \in 0 .. m : n \in 0 .. m + 1
      OBVIOUS
    <3>2. \A n \in 0 .. m : h[n] = IF n = 0 THEN first ELSE Hop(edges, row, h[n - 1])
      BY <2>1 DEF IsWalk
    <3> QED
      BY <3>1, <3>2
  <2>3. \A n \in 0 .. m + 1 : n # 0 => n - 1 \in 0 .. m
    OBVIOUS
  <2>4. g = [n \in 0 .. m + 1 |-> IF n = 0 THEN first ELSE Hop(edges, row, g[n - 1])]
    BY <2>2, <2>3
  <2>5. IsWalk(g, m + 1, edges, row, first)
    BY <2>4 DEF IsWalk
  <2> QED
    BY <2>5
<1> HIDE DEF T
<1>3. T \in SUBSET Nat
  BY DEF T
<1>4. T = Nat
  BY <1>1, <1>2, <1>3, Induction
<1>5. \E h : IsWalk(h, count, edges, row, first)
  BY <1>4 DEF T
<1> QED
  BY <1>5 DEF WalkOver

\* What the walk is at every hop.
LEMMA WalkAt ==
    ASSUME NEW count \in Nat, NEW edges, NEW row, NEW first, NEW h, IsWalk(h, count, edges, row, first)
    PROVE  h[0] = first /\ \A n \in 0 .. count : n + 1 <= count => h[n + 1] = Hop(edges, row, h[n])
<1>1. PICK g : g = [n \in 0 .. count |-> IF n = 0 THEN first ELSE Hop(edges, row, h[n - 1])]
  OBVIOUS
<1>2. g = h
  BY <1>1, Zenon DEF IsWalk
<1>3. 0 \in 0 .. count
  OBVIOUS
<1>4. g[0] = first
  BY <1>1, <1>3
<1>5. ASSUME NEW n \in 0 .. count, n + 1 <= count PROVE g[n + 1] = Hop(edges, row, h[n])
  <2>1. n + 1 \in 0 .. count /\ n + 1 # 0 /\ (n + 1) - 1 = n
    BY <1>5
  <2> QED
    BY <1>1, <2>1
<1> QED
  BY <1>2, <1>4, <1>5

\* In a row of a routed table the walk from any entry ends at the start: did it
\* hop on, it would come to a vertex twice, and the predecessors of the vertices
\* between would run in a circle.
LEMMA RoutedWalkEnds ==
    ASSUME NEW count \in Nat, NEW edges \in Seq(Edge), NEW table, Routed(count, edges, table),
           NEW v \in 1 .. count, NEW w \in 1 .. count, table[v][w] # NoRoute
    PROVE  WalkOver(count, edges, table[v], table[v][w].prev_edge)[count] = NoEdge
<1>1. PICK row, h : row = table[v] /\ h = WalkOver(count, edges, row, row[w].prev_edge)
  OBVIOUS
<1>2. /\ DOMAIN row = 1 .. count
      /\ \A y \in 1 .. count : row[y] # NoRoute /\ row[y].prev_edge # NoEdge =>
           /\ row[y].prev_edge \in DOMAIN edges
           /\ edges[row[y].prev_edge].from + 1 \in 1 .. count
           /\ row[edges[row[y].prev_edge].from + 1] # NoRoute
      /\ \A S \in SUBSET (1 .. count) : S # {} =>
           \E y \in S : \/ ~(row[y] # NoRoute /\ row[y].prev_edge # NoEdge)
                        \/ edges[row[y].prev_edge].from + 1 \notin S
  BY <1>1 DEF Routed
<1>3. h[0] = row[w].prev_edge /\ \A n \in 0 .. count : n + 1 <= count => h[n + 1] = Hop(edges, row, h[n])
  <2>1. PICK first : first = row[w].prev_edge
    OBVIOUS
  <2>2. IsWalk(h, count, edges, row, first)
    BY <1>1, <2>1, WalkExists
  <2>3. h[0] = first /\ \A n \in 0 .. count : n + 1 <= count => h[n + 1] = Hop(edges, row, h[n])
    BY <2>2, WalkAt
  <2> QED
    BY <2>1, <2>3
<1>4. NoEdge \notin DOMAIN edges
  BY DEF NoEdge
<1> SUFFICES ASSUME h[count] # NoEdge PROVE FALSE
  BY <1>1
<1>5. \A n \in 0 .. count : h[n] # NoEdge
  <2> SUFFICES ASSUME NEW n \in 0 .. count, h[n] = NoEdge PROVE FALSE
    OBVIOUS
  <2> DEFINE T == {k \in Nat : n + k <= count => h[n + k] = NoEdge}
  <2>1. 0 \in T
    OBVIOUS
  <2>2. \A k \in T : k + 1 \in T
    <3> SUFFICES ASSUME NEW k \in T, n + (k + 1) <= count PROVE h[n + (k + 1)] = NoEdge
      OBVIOUS
    <3>1. n + k \in 0 .. count /\ (n + k) + 1 <= count /\ (n + k) + 1 = n + (k + 1) /\ n + k <= count
      OBVIOUS
    <3>2. h[n + k] = NoEdge
      BY <3>1
    <3>3. h[(n + k) + 1] = Hop(edges, row, h[n + k])
      BY <1>3, <3>1
    <3> QED
      BY <1>4, <3>1, <3>2, <3>3 DEF Hop
  <2> HIDE DEF T
  <2>3. T \in SUBSET Nat
    BY DEF T
  <2>4. T = Nat
    BY <2>1, <2>2, <2>3, Induction
  <2>5. count - n \in T /\ n + (count - n) = count
    BY <2>4
  <2> QED
    BY <2>5 DEF T
<1>6. PICK x : x = [n \in 0 .. count |-> IF n = 0 THEN w ELSE edges[h[n - 1]].from + 1]
  OBVIOUS
<1>7. x[0] = w /\ \A n \in 0 .. count : n + 1 <= count => x[n + 1] = edges[h[n]].from + 1
  <2>1. x[0] = w
    BY <1>6
  <2>2. ASSUME NEW n \in 0 .. count, n + 1 <= count PROVE x[n + 1] = edges[h[n]].from + 1
    <3>1. n + 1 \in 0 .. count /\ n + 1 # 0 /\ (n + 1) - 1 = n
      BY <2>2
    <3> QED
      BY <1>6, <3>1
  <2> QED
    BY <2>1, <2>2
<1>8. \A n \in 0 .. count : x[n] \in 1 .. count /\ row[x[n]] # NoRoute /\ row[x[n]].prev_edge = h[n]
  <2> DEFINE T == {n \in Nat : n <= count =>
                     x[n] \in 1 .. count /\ row[x[n]] # NoRoute /\ row[x[n]].prev_edge = h[n]}
  <2>1. 0 \in T
    BY <1>1, <1>3, <1>7
  <2>2. \A n \in T : n + 1 \in T
    <3> SUFFICES ASSUME NEW n \in T, n + 1 <= count
                 PROVE  /\ x[n + 1] \in 1 .. count /\ row[x[n + 1]] # NoRoute
                        /\ row[x[n + 1]].prev_edge = h[n + 1]
      OBVIOUS
    <3>1. n \in 0 .. count
      OBVIOUS
    <3>2. x[n] \in 1 .. count /\ row[x[n]] # NoRoute /\ row[x[n]].prev_edge = h[n] /\ h[n] # NoEdge
      BY <1>5, <3>1
    <3>3. /\ h[n] \in DOMAIN edges /\ edges[h[n]].from + 1 \in 1 .. count
          /\ row[edges[h[n]].from + 1] # NoRoute
      BY <1>2, <3>2
    <3>4. h[n + 1] = row[edges[h[n]].from + 1].prev_edge
      BY <1>2, <1>3, <3>1, <3>3 DEF Hop
    <3> QED
      BY <1>7, <3>1, <3>3, <3>4
  <2> HIDE DEF T
  <2>3. T \in SUBSET Nat
    BY DEF T
  <2>4. T = Nat
    BY <2>1, <2>2, <2>3, Induction
  <2> QED
    BY <2>4 DEF T
<1>9. \E i, j \in 0 .. count : i < j /\ x[i] = x[j]
  <2>1. x \in [0 .. count -> 1 .. count]
    BY <1>6, <1>8
  <2>2. /\ IsFiniteSet(0 .. count) /\ Cardinality(0 .. count) = count + 1
        /\ IsFiniteSet(1 .. count) /\ Cardinality(1 .. count) = count
    <3>1. 0 \in Int /\ 1 \in Int /\ count \in Int
      OBVIOUS
    <3>2. /\ IsFiniteSet(0 .. count)
          /\ Cardinality(0 .. count) = IF 0 > count THEN 0 ELSE count - 0 + 1
      BY <3>1, FS_Interval
    <3>3. /\ IsFiniteSet(1 .. count)
          /\ Cardinality(1 .. count) = IF 1 > count THEN 0 ELSE count - 1 + 1
      BY <3>1, FS_Interval
    <3>4. ~(0 > count) /\ (1 > count => count = 0)
      OBVIOUS
    <3> QED
      BY <3>1, <3>2, <3>3, <3>4
  <2>3. Cardinality(1 .. count) < Cardinality(0 .. count)
    BY <2>2
  <2>4. PICK i \in 0 .. count, j \in 0 .. count : i # j /\ x[i] = x[j]
    BY <2>1, <2>2, <2>3, FS_PigeonHole
  <2> QED
    BY <2>4
<1>10. PICK i \in 0 .. count, j \in 0 .. count : i < j /\ x[i] = x[j]
  BY <1>9
<1>11. PICK S : S = {x[n] : n \in i .. j - 1}
  OBVIOUS
<1>12. \A n \in i .. j - 1 : n \in 0 .. count /\ n + 1 <= count
  BY <1>10
<1>13. S \in SUBSET (1 .. count) /\ x[i] \in S
  BY <1>8, <1>10, <1>11, <1>12
<1>14. ASSUME NEW y \in S
       PROVE  row[y] # NoRoute /\ row[y].prev_edge # NoEdge /\ edges[row[y].prev_edge].from + 1 \in S
  <2>1. PICK n \in i .. j - 1 : y = x[n]
    BY <1>11
  <2>2. n \in 0 .. count /\ n + 1 <= count
    BY <1>12
  <2>3. row[y] # NoRoute /\ row[y].prev_edge = h[n] /\ h[n] # NoEdge /\ edges[h[n]].from + 1 = x[n + 1]
    BY <1>5, <1>7, <1>8, <2>1, <2>2
  <2>4. n + 1 \in i .. j - 1 \/ n + 1 = j
    OBVIOUS
  <2>5. x[n + 1] \in S
    BY <1>10, <1>11, <1>13, <2>4
  <2> QED
    BY <2>3, <2>5
<1> QED
  BY <1>2, <1>13, <1>14

\* A walk g calls only at entries of part that are those of row.
CallsAlike(g, count, edges, part, row) ==
    \A n \in 0 .. count : g[n] \in DOMAIN edges /\ edges[g[n]].from + 1 \in DOMAIN part =>
      part[edges[g[n]].from + 1] = row[edges[g[n]].from + 1]

\* A walk in a beginning of a row, of which it calls only at entries that are
\* those of the row, is the walk in the row, or hops out of the beginning.
LEMMA CutWalk ==
    ASSUME NEW count \in Nat, NEW edges \in Seq(Edge), NEW row, NEW part, NEW first,
           NEW h, h = WalkOver(count, edges, row, first),
           NEW g, g = WalkOver(count, edges, part, first), DOMAIN part \subseteq DOMAIN row,
           CallsAlike(g, count, edges, part, row)
    PROVE  g = h \/ g[count] = Astray
<1>1. IsWalk(h, count, edges, row, first) /\ IsWalk(g, count, edges, part, first)
  BY WalkExists
<1>2. h[0] = first /\ \A n \in 0 .. count : n + 1 <= count => h[n + 1] = Hop(edges, row, h[n])
  BY <1>1, WalkAt
<1>3. g[0] = first /\ \A n \in 0 .. count : n + 1 <= count => g[n + 1] = Hop(edges, part, g[n])
  BY <1>1, WalkAt
<1>4. Astray \notin DOMAIN edges
  BY DEF Astray
<1>5. \A n \in 0 .. count : g[n] = Astray => g[count] = Astray
  <2> SUFFICES ASSUME NEW n \in 0 .. count, g[n] = Astray PROVE g[count] = Astray
    OBVIOUS
  <2> DEFINE T == {k \in Nat : n + k <= count => g[n + k] = Astray}
  <2>1. 0 \in T
    OBVIOUS
  <2>2. \A k \in T : k + 1 \in T
    <3> SUFFICES ASSUME NEW k \in T, n + (k + 1) <= count PROVE g[n + (k + 1)] = Astray
      OBVIOUS
    <3>1. n + k \in 0 .. count /\ (n + k) + 1 <= count /\ (n + k) + 1 = n + (k + 1) /\ n + k <= count
      OBVIOUS
    <3>2. g[n + k] = Astray /\ g[(n + k) + 1] = Hop(edges, part, g[n + k])
      BY <1>3, <3>1
    <3> QED
      BY <1>4, <3>1, <3>2 DEF Hop
  <2> HIDE DEF T
  <2>3. T \in SUBSET Nat
    BY DEF T
  <2>4. T = Nat
    BY <2>1, <2>2, <2>3, Induction
  <2>5. count - n \in T /\ n + (count - n) = count
    BY <2>4
  <2> QED
    BY <2>5 DEF T
<1>6. \A n \in 0 .. count : g[n] = h[n] \/ g[n] = Astray
  <2> DEFINE T == {n \in Nat : n <= count => g[n] = h[n] \/ g[n] = Astray}
  <2>1. 0 \in T
    BY <1>2, <1>3
  <2>2. \A n \in T : n + 1 \in T
    <3> SUFFICES ASSUME NEW n \in T, n + 1 <= count PROVE g[n + 1] = h[n + 1] \/ g[n + 1] = Astray
      OBVIOUS
    <3>1. n \in 0 .. count
      OBVIOUS
    <3>2. g[n] = h[n] \/ g[n] = Astray
      BY <3>1
    <3>3. g[n + 1] = Hop(edges, part, g[n]) /\ h[n + 1] = Hop(edges, row, h[n])
      BY <1>2, <1>3, <3>1
    <3>4. g[n] \in DOMAIN edges /\ edges[g[n]].from + 1 \in DOMAIN part =>
            /\ part[edges[g[n]].from + 1] = row[edges[g[n]].from + 1]
            /\ edges[g[n]].from + 1 \in DOMAIN row
      BY <3>1 DEF CallsAlike
    <3>5. CASE g[n] = Astray
      BY <1>4, <3>3, <3>5 DEF Hop
    <3>6. CASE g[n] # Astray
      <4>1. g[n] = h[n]
        BY <3>2, <3>6
      <4> QED
        BY <3>3, <3>4, <4>1 DEF Hop
    <3> QED
      BY <3>5, <3>6
  <2> HIDE DEF T
  <2>3. T \in SUBSET Nat
    BY DEF T
  <2>4. T = Nat
    BY <2>1, <2>2, <2>3, Induction
  <2> QED
    BY <2>4 DEF T
<1>7. ASSUME g[count] # Astray PROVE g = h
  <2>1. \A n \in 0 .. count : g[n] = h[n]
    BY <1>5, <1>6, <1>7
  <2>2. g = [n \in 0 .. count |-> g[n]] /\ h = [n \in 0 .. count |-> h[n]]
    <3>1. \A x : IsWalk(x, count, edges, row, first) => x = [n \in 0 .. count |-> x[n]]
      BY DEF IsWalk
    <3>2. \A x : IsWalk(x, count, edges, part, first) => x = [n \in 0 .. count |-> x[n]]
      BY DEF IsWalk
    <3> QED
      BY <1>1, <3>1, <3>2
  <2> QED
    BY <2>1, <2>2
<1> QED
  BY <1>7

\* The stops of a base are numbered below their number, each by itself.
LEMMA VertexBelow ==
    ASSUME NEW b \in Base, AsMade(b), NEW s \in StopNames(b.db)
    PROVE  /\ Len(b.db.stops) \in Nat /\ VertexOf(b, s) \in Nat
           /\ VertexOf(b, s) + 1 \in 1 .. Len(b.db.stops)
<1>1. PICK d, all : d = b.db /\ all = b.vrtx_to_stops
  OBVIOUS
<1>2. d \in Catalogue /\ all = Ascending(StopNames(d))
  BY <1>1, BaseFields DEF AsMade, IndexStops, GetAllStops
<1>3. Len(d.stops) \in Nat /\ DOMAIN d.stops = 1 .. Len(d.stops)
  BY <1>2, CatalogueFields
<1>4. IsFiniteSet(1 .. Len(d.stops)) /\ Cardinality(1 .. Len(d.stops)) = Len(d.stops)
  BY <1>3, SomeNumbers
<1>5. [n \in 1 .. Len(d.stops) |-> d.stops[n].name] \in Surjection(1 .. Len(d.stops), StopNames(d))
  BY <1>3 DEF Surjection, StopNames
<1>6. IsFiniteSet(StopNames(d)) /\ Cardinality(StopNames(d)) <= Len(d.stops)
  BY <1>4, <1>5, FS_Surjection
<1>7. Cardinality(StopNames(d)) \in Nat
  BY <1>6, FS_CardinalityType
<1>8. DOMAIN all = 1 .. Cardinality(StopNames(d)) /\ ToSet(all) = StopNames(d)
  BY <1>2, <1>6, NamesAreFinite, AscendingOrder
<1>9. PICK n : n = CHOOSE m \in DOMAIN all : all[m] = s
  OBVIOUS
<1>10. n \in 1 .. Cardinality(StopNames(d))
  BY <1>1, <1>8, <1>9 DEF ToSet
<1>11. VertexOf(b, s) = n - 1
  BY <1>1, <1>9 DEF VertexOf
<1> QED
  BY <1>1, <1>3, <1>6, <1>7, <1>10, <1>11

\* Bases of which routes are told alike have their stops numbered alike.
LEMMA SameVertices ==
    ASSUME NEW b, NEW c, SameRoutes(b, c), NEW s
    PROVE  VertexOf(c, s) = VertexOf(b, s)
  BY DEF SameRoutes, VertexOf

\* The edges of a walk of so many hops that are not the end of it.
Taken(count, walk) == Filter([n \in 1 .. count |-> walk[n - 1]], LAMBDA e : e # NoEdge)

\* EdgesBack is of the walk only.
LEMMA EdgesAreTaken ==
    ASSUME NEW b, NEW v, NEW w
    PROVE  EdgesBack(b, v, w) = Taken(Len(b.db.stops), Walk(b, v, w))
  BY DEF EdgesBack, Taken

\* A row that two bases share is walked alike.
LEMMA SameWalk ==
    ASSUME NEW b, NEW c, SameRoutes(b, c), NEW v, c.table[v + 1] = b.table[v + 1], NEW w
    PROVE  /\ Entry(c, v, w) = Entry(b, v, w) /\ Walk(c, v, w) = Walk(b, v, w)
           /\ EdgesBack(c, v, w) = EdgesBack(b, v, w)
<1>1. c.edges = b.edges /\ c.db.stops = b.db.stops
  BY DEF SameRoutes, SameCatalogue
<1>2. Entry(c, v, w) = Entry(b, v, w)
  BY DEF Entry
<1>3. Walk(c, v, w) = Walk(b, v, w)
  BY <1>1, WalkIsOver
<1> QED
  BY <1>1, <1>2, <1>3, EdgesAreTaken

\* How a route request ends that finds an entry.
LEMMA WalkDecides ==
    ASSUME NEW c, c.edges \in Seq(Edge), NEW q, RouteFound(c, q),
           NEW v, v = VertexOf(c, q.from), NEW w, w = VertexOf(c, q.to),
           NEW last, last = Walk(c, v, w)[Len(c.db.stops)]
    PROVE  /\ Entry(c, v, w) = NoRoute \/ last = NoEdge => RouteOutcome(c, q) = "answered"
           /\ Entry(c, v, w) # NoRoute /\ last = Astray => RouteOutcome(c, q) = "undefined"
<1>1. RouteOutcome(c, q) =
        CASE Entry(c, v, w) = NoRoute -> "answered"
          [] Entry(c, v, w) # NoRoute /\ last = NoEdge -> "answered"
          [] Entry(c, v, w) # NoRoute /\ last = Astray -> "undefined"
          [] Entry(c, v, w) # NoRoute /\ last \in DOMAIN c.edges -> "circles"
          [] OTHER -> "throws"
  BY DEF RouteOutcome
<1>2. NoEdge \notin DOMAIN c.edges /\ Astray \notin DOMAIN c.edges /\ NoEdge # Astray
  BY DEF NoEdge, Astray
<1>3. CASE Entry(c, v, w) = NoRoute
  BY <1>1, <1>3
<1>4. CASE Entry(c, v, w) # NoRoute /\ last = NoEdge
  BY <1>1, <1>2, <1>4
<1>5. CASE Entry(c, v, w) # NoRoute /\ last = Astray
  BY <1>1, <1>2, <1>5
<1> QED
  BY <1>2, <1>3, <1>4, <1>5

\* A base that shares the row of a stop with a routed one answers any route
\* from there.
LEMMA RouteAnswered ==
    ASSUME NEW b \in Base, AsMade(b), Routed(EvaluateVertexCount(b.db), b.edges, b.table),
           NEW c, SameRoutes(b, c), NEW q,
           q.from \in StopNames(b.db), q.to \in StopNames(b.db),
           NEW v, v = VertexOf(b, q.from),
           v + 1 \in DOMAIN c.table, c.table[v + 1] = b.table[v + 1]
    PROVE  RouteOutcome(c, q) = "answered"
<1>1. PICK count : count = Len(b.db.stops)
  OBVIOUS
<1>2. b.db \in Catalogue /\ b.edges \in Seq(Edge) /\ Len(c.db.stops) = count
  BY <1>1, BaseFields DEF SameRoutes, SameCatalogue
<1>3. PICK w : w = VertexOf(b, q.to)
  OBVIOUS
<1>4. count \in Nat /\ v + 1 \in 1 .. count /\ w + 1 \in 1 .. count
  BY <1>1, <1>2, <1>3, VertexBelow
<1>5. Routed(count, b.edges, b.table)
  BY <1>1 DEF EvaluateVertexCount
<1>6. DOMAIN b.table[v + 1] = 1 .. count
  BY <1>4, <1>5 DEF Routed
<1>7. VertexOf(c, q.from) = v /\ VertexOf(c, q.to) = w
  BY <1>3, SameVertices
<1>8. q.from # NoStop /\ q.to # NoStop
  BY <1>2, CatalogueFields, StopNameAssumption DEF NoStop
<1>9. RouteFound(c, q)
  BY <1>4, <1>6, <1>7, <1>8 DEF RouteFound
<1>10. Entry(c, v, w) = b.table[v + 1][w + 1] /\ Walk(c, v, w) = Walk(b, v, w)
  BY SameWalk DEF Entry
<1>11. ASSUME b.table[v + 1][w + 1] # NoRoute PROVE Walk(c, v, w)[count] = NoEdge
  <2>1. WalkOver(count, b.edges, b.table[v + 1], b.table[v + 1][w + 1].prev_edge)[count] = NoEdge
    BY <1>2, <1>4, <1>5, <1>11, RoutedWalkEnds
  <2> QED
    BY <1>1, <1>10, <2>1, WalkIsOver
<1>12. b.table[v + 1][w + 1] = NoRoute \/ Walk(c, v, w)[Len(c.db.stops)] = NoEdge
  BY <1>2, <1>11
<1> QED
  BY <1>2, <1>7, <1>9, <1>10, <1>12, WalkDecides DEF SameRoutes

\* Where two bases walk alike they tell the same plan,
LEMMA SamePlan ==
    ASSUME NEW b, NEW c, SameRoutes(b, c), NEW q,
           NEW v, v = VertexOf(b, q.from), NEW w, w = VertexOf(b, q.to),
           Entry(c, v, w) = Entry(b, v, w),
           Entry(b, v, w) = NoRoute \/ EdgesBack(c, v, w) = EdgesBack(b, v, w)
    PROVE  Plan(RouteInfo(c, q)) = Plan(RouteInfo(b, q))
<1>1. w = VertexOf(b, q.to)
  OBVIOUS
<1>2. VertexOf(c, q.from) = v /\ VertexOf(c, q.to) = w
  BY SameVertices
<1>3. PICK entry, path : entry = Entry(b, v, w) /\ path = Reverse(EdgesBack(b, v, w))
  OBVIOUS
<1>4. Entry(c, v, w) = entry /\ (entry # NoRoute => Reverse(EdgesBack(c, v, w)) = path)
  BY <1>3
<1>5. CASE entry = NoRoute
  BY <1>1, <1>2, <1>3, <1>4, <1>5 DEF RouteInfo
<1>6. CASE entry # NoRoute
  <2>1. PICK m, k : m = MakeRouteItems(b, path) /\ k = MakeRouteItems(c, path)
    OBVIOUS
  <2>2. /\ RouteInfo(b, q) = [total_time |-> entry.weight, items |-> m]
        /\ RouteInfo(c, q) = [total_time |-> entry.weight, items |-> k]
    BY <1>1, <1>2, <1>3, <1>4, <1>6, <2>1 DEF RouteInfo
  <2>3. \A items : [total_time |-> entry.weight, items |-> items] # NotFound
    <3> SUFFICES ASSUME NEW items, [total_time |-> entry.weight, items |-> items] = NotFound
                 PROVE  FALSE
      OBVIOUS
    <3>1. DOMAIN [total_time |-> entry.weight, items |-> items] = {"total_time", "items"}
      OBVIOUS
    <3>2. DOMAIN NotFound = {"error_message"}
      BY DEF NotFound
    <3>3. "total_time" \in {"error_message"}
      BY <3>1, <3>2
    <3> QED
      BY <3>3
  <2>4. DOMAIN m = DOMAIN path /\ DOMAIN k = DOMAIN path
    BY <2>1 DEF MakeRouteItems
  <2>5. \A n \in DOMAIN path :
          m[n].bus = k[n].bus /\ m[n].stop_name = k[n].stop_name /\ m[n].span_count = k[n].span_count
    <3> SUFFICES ASSUME NEW n \in DOMAIN path
                 PROVE  /\ m[n].bus = k[n].bus /\ m[n].stop_name = k[n].stop_name
                        /\ m[n].span_count = k[n].span_count
      OBVIOUS
    <3>1. /\ m[n].stop_name = b.vrtx_to_stops[b.edges[path[n]].from + 1]
          /\ m[n].bus = GetBusByEdge(b.db, path[n] - 1) /\ m[n].span_count = b.edges[path[n]].span_count
      BY <2>1 DEF MakeRouteItems
    <3>2. /\ k[n].stop_name = c.vrtx_to_stops[c.edges[path[n]].from + 1]
          /\ k[n].bus = GetBusByEdge(c.db, path[n] - 1) /\ k[n].span_count = c.edges[path[n]].span_count
      BY <2>1 DEF MakeRouteItems
    <3> QED
      BY <3>1, <3>2, SameLookups DEF SameRoutes
  <2>6. \A n \in DOMAIN path :
          [bus |-> m[n].bus, from |-> m[n].stop_name, span_count |-> m[n].span_count]
            = [bus |-> k[n].bus, from |-> k[n].stop_name, span_count |-> k[n].span_count]
    BY <2>5
  <2>7. /\ Plan(RouteInfo(b, q)) =
             [total_time |-> entry.weight,
              rides |-> [n \in DOMAIN path |-> [bus |-> m[n].bus, from |-> m[n].stop_name,
                                                span_count |-> m[n].span_count]]]
        /\ Plan(RouteInfo(c, q)) =
             [total_time |-> entry.weight,
              rides |-> [n \in DOMAIN path |-> [bus |-> k[n].bus, from |-> k[n].stop_name,
                                                span_count |-> k[n].span_count]]]
    BY <2>2, <2>3, <2>4 DEF Plan
  <2> QED
    BY <2>6, <2>7
<1> QED
  BY <1>5, <1>6

\* and the same times, if the settings are the same.
LEMMA SameRouteInfo ==
    ASSUME NEW b, NEW c, SameBase(b, c), NEW q
    PROVE  RouteInfo(c, q) = RouteInfo(b, q) /\ RouteOutcome(c, q) = RouteOutcome(b, q)
<1>1. SameRoutes(b, c) /\ SameCatalogue(b.db, c.db) /\ c.table = b.table /\ c.routing = b.routing
      /\ c.edges = b.edges /\ c.db.stops = b.db.stops /\ c.vrtx_to_stops = b.vrtx_to_stops
  BY DEF SameBase, SameRoutes, SameCatalogue
<1>2. PICK v, w : v = VertexOf(b, q.from) /\ w = VertexOf(b, q.to)
  OBVIOUS
<1>3. VertexOf(c, q.from) = v /\ VertexOf(c, q.to) = w
  BY <1>1, <1>2, SameVertices
<1>4. Entry(c, v, w) = Entry(b, v, w) /\ Walk(c, v, w) = Walk(b, v, w)
      /\ EdgesBack(c, v, w) = EdgesBack(b, v, w)
  BY <1>1, SameWalk
<1>5. RouteFound(c, q) <=> RouteFound(b, q)
  BY <1>1, <1>2, <1>3 DEF RouteFound
<1>6. RouteOutcome(c, q) = RouteOutcome(b, q)
  BY <1>1, <1>2, <1>3, <1>4, <1>5 DEF RouteOutcome
<1>7. \A path : MakeRouteItems(c, path) = MakeRouteItems(b, path)
  <2>1. \A n : GetBusByEdge(c.db, n) = GetBusByEdge(b.db, n)
    BY <1>1, SameLookups
  <2> QED
    BY <1>1, <2>1 DEF MakeRouteItems
<1>8. RouteInfo(c, q) = RouteInfo(b, q)
  BY <1>2, <1>3, <1>4, <1>7 DEF RouteInfo
<1> QED
  BY <1>6, <1>8

\* A base that lost nothing but empty sets answers every request as before.
LEMMA SameAnswers ==
    ASSUME NEW b \in Base, NEW c, SameBase(b, c), NEW q \in StatRequest
    PROVE  SameAnswer(c, b, q)
<1>1. b.db \in Catalogue /\ SameCatalogue(b.db, c.db)
  BY BaseFields DEF SameBase, SameRoutes
<1>2. ParseStatRequest(c.db, q) = ParseStatRequest(b.db, q)
  <2>1. GetStop(c.db, q.from) = GetStop(b.db, q.from) /\ GetStop(c.db, q.to) = GetStop(b.db, q.to)
    BY <1>1, SameLookups
  <2> QED
    BY <2>1 DEF ParseStatRequest
<1>3. PICK p : p = ParseStatRequest(b.db, q)
  OBVIOUS
<1>4. RouteInfo(c, p) = RouteInfo(b, p) /\ RouteOutcome(c, p) = RouteOutcome(b, p)
  BY SameRouteInfo
<1>5. MapInfo(c) = MapInfo(b) /\ MapOutcome(c) = MapOutcome(b)
  BY <1>1, SameMap
<1>6. BusInfo(c.db, p.name) = BusInfo(b.db, p.name) /\ StopInfo(c.db, p.name) = StopInfo(b.db, p.name)
  BY <1>1, SameBus, SameStop
<1>7. Outcome(c, p) = Outcome(b, p)
  BY <1>4, <1>5 DEF Outcome
<1>8. Respond(c, p) = Respond(b, p)
  BY <1>4, <1>5, <1>6 DEF Respond
<1> QED
  BY <1>2, <1>3, <1>7, <1>8 DEF SameAnswer

-----------------------------------------------------------------------------
(* RoundTrip, NeverMisroutes, OnlyTornEntryMisleads, CompleteBaseAnswers *)

\* What a request becomes when its stops are looked up.
Parsed(db) == {ParseStatRequest(db, q) : q \in StatRequest}

\* Only a base that the router took is ever written, and so read; what a run
\* answers from is the file, as it still is.
MemoryInv ==
    /\ ~HasNegativeEdge(source)
    /\ pc \in {"serialize", "open", "write"} => ~HasNegativeEdge(base)
    /\ pc \in {"read", "parse"} => requests \in Seq(StatRequest)
    /\ pc \in {"parse", "answer"} => memory = Deserialize(file)
    /\ pc = "answer" => requests \in Seq(Parsed(memory.db))

\* The invariant holds before the first run.
LEMMA MemoryInvInit == Init => MemoryInv
<1> SUFFICES ASSUME Init PROVE MemoryInv
  OBVIOUS
<1>1. pc = "idle" /\ source = EmptyBase
  BY DEF Init
<1>2. ~HasNegativeEdge(EmptyBase)
  BY DEF HasNegativeEdge, EmptyBase
<1> QED
  BY <1>1, <1>2 DEF MemoryInv

\* A run that ends keeps it.
LEMMA MemoryInvEnd ==
    ASSUME NEW how \in {"ok", "exception", "crash", "killed"}, End(how), MemoryInv, UNCHANGED source
    PROVE  MemoryInv'
  BY DEF End, MemoryInv

\* Every step of make_base keeps the invariant.
LEMMA MemoryInvMakeStep == MemoryInv /\ MakeStep => MemoryInv'
<1> SUFFICES ASSUME MemoryInv, MakeStep PROVE MemoryInv'
  OBVIOUS
<1>1. CASE RouterThrows
  BY <1>1, MemoryInvEnd DEF RouterThrows
<1>2. CASE BuildRouter
  BY <1>2 DEF BuildRouter, MemoryInv, made
<1>3. CASE SerializeThrows
  BY <1>3, MemoryInvEnd DEF SerializeThrows
<1>4. CASE Serialize
  BY <1>4 DEF Serialize, MemoryInv
<1>5. CASE OpenFile
  BY <1>5 DEF OpenFile, MemoryInv, made
<1>6. CASE OpenFails
  BY <1>6, MemoryInvEnd DEF OpenFails
<1>7. CASE WriteElement
  BY <1>7 DEF WriteElement, MemoryInv, made
<1>8. CASE CloseFile
  BY <1>8, MemoryInvEnd DEF CloseFile
<1>9. CASE DiskFull
  BY <1>9, MemoryInvEnd DEF DiskFull
<1> QED
  BY <1>1, <1>2, <1>3, <1>4, <1>5, <1>6, <1>7, <1>8, <1>9 DEF MakeStep

\* Every step of process_requests keeps the invariant.
LEMMA MemoryInvServeStep == MemoryInv /\ ServeStep => MemoryInv'
<1> SUFFICES ASSUME MemoryInv, ServeStep PROVE MemoryInv'
  OBVIOUS
<1>1. CASE ReadFile
  BY <1>1 DEF ReadFile, MemoryInv
<1>2. CASE ParseStatRequests
  <2>1. PICK r, d : r = requests /\ d = memory.db
    OBVIOUS
  <2>2. r \in Seq(StatRequest)
    BY <1>2, <2>1 DEF ParseStatRequests, MemoryInv
  <2>3. \A n \in DOMAIN r : ParseStatRequest(d, r[n]) \in Parsed(d)
    BY <2>2 DEF Parsed
  <2>4. [n \in DOMAIN r |-> ParseStatRequest(d, r[n])] \in Seq(Parsed(d))
    <3>1. Len(r) \in Nat /\ DOMAIN r = 1 .. Len(r)
      BY <2>2
    <3>2. [n \in DOMAIN r |-> ParseStatRequest(d, r[n])] \in [1 .. Len(r) -> Parsed(d)]
      BY <2>3, <3>1
    <3> QED
      BY <3>1, <3>2, FunctionSeq
  <2>5. requests' \in Seq(Parsed(d)) /\ memory' = memory /\ file' = file /\ pc' = "answer" /\ source' = source
    BY <1>2, <2>1, <2>4 DEF ParseStatRequests
  <2>6. memory = Deserialize(file)
    BY <1>2 DEF ParseStatRequests, MemoryInv
  <2>7. requests' \in Seq(Parsed(memory.db))
    BY <2>1, <2>5
  <2> QED
    BY <2>5, <2>6, <2>7 DEF MemoryInv
<1>3. CASE AnswerThrows
  BY <1>3, MemoryInvEnd DEF AnswerThrows
<1>4. CASE AnswerCrashes
  BY <1>4, MemoryInvEnd DEF AnswerCrashes
<1>5. CASE Answer
  <2>1. PICK r, P : r = requests /\ P = Parsed(memory.db)
    OBVIOUS
  <2>2. r \in Seq(P) /\ r # <<>>
    BY <1>5, <2>1 DEF Answer, MemoryInv
  <2>3. Tail(r) \in Seq(P)
    BY <2>2
  <2> QED
    BY <1>5, <2>1, <2>3 DEF Answer, MemoryInv
<1>6. CASE PrintResponses
  BY <1>6, MemoryInvEnd DEF PrintResponses
<1> QED
  BY <1>1, <1>2, <1>3, <1>4, <1>5, <1>6 DEF ServeStep

\* Every step of the system keeps the invariant.
LEMMA MemoryInvNext == MemoryInv /\ [Next]_vars => MemoryInv'
<1> SUFFICES ASSUME MemoryInv, [Next]_vars PROVE MemoryInv'
  OBVIOUS
<1>1. ASSUME NEW b \in Bases, MakeBase(b) PROVE MemoryInv'
  BY <1>1 DEF MakeBase, Begin, MemoryInv
<1>2. ASSUME NEW qs \in StatDocuments, ProcessRequests(qs) PROVE MemoryInv'
  BY <1>2, StatDocumentsAssumption DEF ProcessRequests, Begin, MemoryInv
<1>3. CASE Kill
  BY <1>3, MemoryInvEnd DEF Kill
<1>4. CASE UNCHANGED vars
  BY <1>4 DEF vars, made, served, MemoryInv
<1> QED
  BY <1>1, <1>2, <1>3, <1>4, MemoryInvMakeStep, MemoryInvServeStep DEF Next

\* The table that is read is a sequence.
LEMMA TableIsSeq ==
    ASSUME NEW m, NEW f, Cut(m, f), NEW c, c = Deserialize(f)
    PROVE  Len(c.table) \in Nat /\ \A v \in DOMAIN c.table : v \in Nat /\ v <= Len(c.table)
<1>1. PICK at : at = {n \in DOMAIN f : f[n].field = "router"}
  OBVIOUS
<1>2. PICK rows : rows = Field(f, "router")
  OBVIOUS
<1>3. DOMAIN rows = 1 .. Cardinality(at)
  BY <1>1, <1>2 DEF Field, Filter, Ascending
<1>4. Cardinality(at) \in Nat
  <2>1. Len(f) \in Nat /\ DOMAIN f = 1 .. Len(f)
    BY DEF Cut
  <2>2. IsFiniteSet(DOMAIN f)
    BY <2>1, SomeNumbers
  <2>3. IsFiniteSet(at)
    BY <1>1, <2>2, FS_Subset
  <2> QED
    BY <2>3, FS_CardinalityType
<1>5. PICK t, n : t = c.table /\ n = Cardinality(at)
  OBVIOUS
<1>6. t = [u \in 1 .. n |-> [w \in DOMAIN rows[u] |-> EntryFromProto(rows[u][w])]]
  BY <1>2, <1>3, <1>5 DEF Deserialize, DeserializeRoutesInternalData
<1>7. t = [u \in 1 .. n |-> t[u]]
  BY <1>6
<1>8. Len(t) = n
  BY <1>4, <1>5, <1>7, LenOf
<1> QED
  BY <1>4, <1>5, <1>6, <1>8

\* What is in memory was in the file, which is a cut of what was written of a
\* base that the router took.
LEMMA WhatIsServed ==
    ASSUME SourceInv, MemoryInv, pc \in {"parse", "answer"},
           NEW b, b = source, NEW c, c = memory
    PROVE  /\ b \in Base /\ AsMade(b) /\ Routed(EvaluateVertexCount(b.db), b.edges, b.table)
           /\ Serializable(b.db) /\ c = Deserialize(file)
           /\ c.table # <<>> => SameRoutes(b, c)
           /\ Complete => SameBase(b, c)
           /\ Len(c.table) \in Nat /\ \A v \in DOMAIN c.table : v \in Nat /\ v <= Len(c.table)
<1>1. PICK f : f = file
  OBVIOUS
<1>2. b \in Bases \cup {EmptyBase} /\ Serializable(b.db) /\ \E m \in Messages(b) : Cut(m, f)
  BY <1>1 DEF SourceInv
<1>3. PICK pairs \in SetToSeqs(StoredPairs(b.db)) : Cut(Message(b, pairs), f)
  BY <1>2 DEF Messages
<1>4. c = Deserialize(f) /\ ~HasNegativeEdge(b)
  BY <1>1 DEF MemoryInv
<1>5. b \in Base /\ AsMade(b)
  BY <1>2, SourceIsMade
<1>6. Routed(EvaluateVertexCount(b.db), b.edges, b.table)
  BY <1>2, <1>4, BasesAssumption, EmptyBaseRouted
<1>7. /\ Field(f, "router") # <<>> => SameRoutes(b, Deserialize(f))
      /\ Field(f, "routing_settings") = <<RoutingSettingsToProto(b.routing)>> => SameBase(b, Deserialize(f))
  BY <1>2, <1>3, <1>5, BaseComesBack
<1>8. c.table # <<>> => Field(f, "router") # <<>>
  <2>1. PICK rows : rows = Field(f, "router")
    OBVIOUS
  <2>2. c.table = [v \in DOMAIN rows |-> [w \in DOMAIN rows[v] |-> EntryFromProto(rows[v][w])]]
    BY <1>4, <2>1 DEF Deserialize, DeserializeRoutesInternalData
  <2>3. rows = <<>> => c.table = <<>>
    BY <2>2
  <2> QED
    BY <2>1, <2>3
<1>9. Complete => SameBase(b, c)
  BY <1>1, <1>4, <1>7 DEF Complete
<1>10. Len(c.table) \in Nat /\ \A v \in DOMAIN c.table : v \in Nat /\ v <= Len(c.table)
  BY <1>3, <1>4, TableIsSeq
<1> QED
  BY <1>1, <1>2, <1>4, <1>5, <1>6, <1>7, <1>8, <1>9, <1>10

\* A complete file answers as the base that it was made of.
LEMMA ServedRoundTrip == SourceInv /\ MemoryInv => RoundTrip
<1> SUFFICES ASSUME SourceInv, MemoryInv, pc = "parse", Complete, NEW q \in StatRequest
             PROVE  SameAnswer(memory, source, q)
  BY DEF RoundTrip
<1>1. PICK b, c : b = source /\ c = memory
  OBVIOUS
<1>2. b \in Base /\ SameBase(b, c)
  BY <1>1, WhatIsServed
<1> QED
  BY <1>1, <1>2, SameAnswers

\* The stop of a name that is stored is known, and known in both bases.
LEMMA StopIsKnown ==
    ASSUME NEW b, NEW c, SameRoutes(b, c), NEW s, GetStop(c.db, s) # NoStop
    PROVE  GetStop(c.db, s) \in StopNames(b.db)
<1>1. GetStop(c.db, s) \in StopNames(c.db)
  BY DEF GetStop
<1>2. StopNames(c.db) = StopNames(b.db)
  BY SameLookups DEF SameRoutes
<1> QED
  BY <1>1, <1>2

\* A route on a file that is cut off: it throws unless its row is there, and if
\* that is not the torn one, it is the row of the source.
LEMMA ServedPlan ==
    ASSUME SourceInv, MemoryInv, pc = "parse", NEW q \in RouteRequest,
           NEW p, p = ParseStatRequest(memory.db, q), Outcome(memory, p) # "throws",
           ~(~TableComplete /\ VertexOf(memory, p.from) + 1 = Len(memory.table))
    PROVE  /\ Outcome(memory, p) = "answered"
           /\ Plan(Respond(memory, p)) = Plan(Respond(source, p))
<1>1. PICK b, c, v : b = source /\ c = memory /\ v = VertexOf(c, p.from)
  OBVIOUS
<1>2. /\ b \in Base /\ AsMade(b) /\ Routed(EvaluateVertexCount(b.db), b.edges, b.table)
      /\ c = Deserialize(file) /\ (c.table # <<>> => SameRoutes(b, c))
  BY <1>1, WhatIsServed
<1>3. q.type = "Route" /\ p = [q EXCEPT !.from = GetStop(c.db, q.from), !.to = GetStop(c.db, q.to)]
  BY <1>1 DEF ParseStatRequest, RouteRequest
<1>4. p.type = "Route" /\ p.from = GetStop(c.db, q.from) /\ p.to = GetStop(c.db, q.to)
  <2>1. q \in [type : {"Route"}, from : StopName, to : StopName]
    BY DEF RouteRequest
  <2> QED
    BY <1>3, <2>1
<1>5. Outcome(c, p) = RouteOutcome(c, p) /\ \A d : Respond(d, p) = RouteInfo(d, p)
  BY <1>4 DEF Outcome, Respond
<1>6. RouteFound(c, p)
  BY <1>1, <1>5 DEF RouteOutcome
<1>7. p.from # NoStop /\ p.to # NoStop /\ v + 1 \in DOMAIN c.table
  BY <1>1, <1>6 DEF RouteFound
<1>8. SameRoutes(b, c)
  BY <1>2, <1>7
<1>9. p.from \in StopNames(b.db) /\ p.to \in StopNames(b.db)
  BY <1>4, <1>7, <1>8, StopIsKnown
<1>10. v = VertexOf(b, p.from)
  BY <1>1, <1>8, SameVertices
<1>11. c.table[v + 1] = b.table[v + 1]
  <2>1. /\ v + 1 < Len(c.table) \/ TableComplete => c.table[v + 1] = b.table[v + 1]
    BY <1>1, <1>2, <1>7, SourceInvConsistent DEF CutFileIsConsistent
  <2>2. v + 1 \in Nat /\ v + 1 <= Len(c.table)
    BY <1>1, <1>2, <1>7
  <2>3. v + 1 # Len(c.table) \/ TableComplete
    BY <1>1
  <2>4. Len(c.table) \in Nat
    BY <1>1, <1>2, <1>7
  <2> QED
    BY <2>1, <2>2, <2>3, <2>4
<1>12. RouteOutcome(c, p) = "answered"
  BY <1>2, <1>7, <1>8, <1>9, <1>10, <1>11, RouteAnswered
<1>13. Plan(RouteInfo(c, p)) = Plan(RouteInfo(b, p))
  <2>1. PICK w : w = VertexOf(b, p.to)
    OBVIOUS
  <2>2. Entry(c, v, w) = Entry(b, v, w) /\ EdgesBack(c, v, w) = EdgesBack(b, v, w)
    BY <1>8, <1>11, SameWalk
  <2> QED
    BY <1>8, <1>10, <2>1, <2>2, SamePlan
<1> QED
  BY <1>1, <1>5, <1>12, <1>13

\* No route is told wrong from a file that is cut off.
LEMMA ServedRoutes == SourceInv /\ MemoryInv => NeverMisroutes
<1> SUFFICES ASSUME SourceInv, MemoryInv, pc = "parse", NEW q \in RouteRequest,
                    NEW p, p = ParseStatRequest(memory.db, q)
             PROVE  \/ Outcome(memory, p) = "throws"
                    \/ ~TableComplete /\ VertexOf(memory, p.from) + 1 = Len(memory.table)
                    \/ /\ Outcome(memory, p) = "answered"
                       /\ Plan(Respond(memory, p)) = Plan(Respond(source, p))
  BY DEF NeverMisroutes
<1> QED
  BY ServedPlan

\* What is left of a row in the file calls nowhere at an entry that is not as it
\* was written, unless at the last, which is torn.
LEMMA TornCalls ==
    ASSUME NEW c, c.edges \in Seq(Edge), NEW v, NEW w \in Nat, NEW row, NEW whole, NEW last, NEW count,
           Begins(row, whole), w + 1 \in DOMAIN row, last = Len(row) - 1,
           Passes(c, v, w, last) => row[Len(row)] = whole[Len(row)],
           DOMAIN Walk(c, v, w) = 0 .. count
    PROVE  row[w + 1] = whole[w + 1] /\ CallsAlike(Walk(c, v, w), count, c.edges, row, whole)
<1>1. PICK g : g = Walk(c, v, w)
  OBVIOUS
<1>2. DOMAIN g = 0 .. count
  BY <1>1
<1>3. row[w + 1] = whole[w + 1]
  <2>1. CASE w + 1 = Len(row)
    <3>1. last = w
      BY <2>1
    <3> QED
      BY <2>1, <3>1 DEF Passes
  <2>2. CASE w + 1 # Len(row)
    BY <2>2 DEF Begins
  <2> QED
    BY <2>1, <2>2
<1>4. ASSUME NEW n \in 0 .. count, g[n] \in DOMAIN c.edges, c.edges[g[n]].from + 1 \in DOMAIN row
      PROVE  row[c.edges[g[n]].from + 1] = whole[c.edges[g[n]].from + 1]
  <2>1. PICK u \in Nat : u = c.edges[g[n]].from
    <3>1. PICK es, e : es \in Seq(Edge) /\ es = c.edges /\ e = g[n]
      OBVIOUS
    <3>2. es[e] \in Edge
      BY <1>4, <3>1
    <3> QED
      BY <3>1, <3>2 DEF Edge
  <2>2. CASE u + 1 = Len(row)
    <3>1. last = u
      BY <2>2
    <3>2. Passes(c, v, w, last)
      BY <1>1, <1>2, <1>4, <2>1, <3>1 DEF Passes
    <3> QED
      BY <2>1, <2>2, <3>2
  <2>3. CASE u + 1 # Len(row)
    <3>1. u + 1 \in 1 .. Len(row) /\ u + 1 < Len(row)
      BY <1>4, <2>1, <2>3 DEF Begins
    <3> QED
      BY <2>1, <3>1 DEF Begins
  <2> QED
    BY <2>2, <2>3
<1> QED
  BY <1>1, <1>3, <1>4 DEF CallsAlike

\* A route from the row in which the file ends that does not come by a torn entry.
LEMMA TornPlan ==
    ASSUME SourceInv, MemoryInv, pc = "parse", NEW q \in RouteRequest,
           NEW p, p = ParseStatRequest(memory.db, q),
           NEW v, v = VertexOf(memory, p.from), NEW w, w = VertexOf(memory, p.to),
           NEW last, last = Len(memory.table[v + 1]) - 1,
           Outcome(memory, p) \notin {"throws", "undefined"},
           ~(Passes(memory, v, w, last) /\ Entry(memory, v, last) # Entry(source, v, last))
    PROVE  /\ Outcome(memory, p) = "answered"
           /\ Plan(Respond(memory, p)) = Plan(Respond(source, p))
<1>1. PICK b, c : b = source /\ c = memory
  OBVIOUS
<1>2. /\ b \in Base /\ AsMade(b) /\ Routed(EvaluateVertexCount(b.db), b.edges, b.table)
      /\ c = Deserialize(file) /\ (c.table # <<>> => SameRoutes(b, c))
  BY <1>1, WhatIsServed
<1>3. q.type = "Route" /\ p = [q EXCEPT !.from = GetStop(c.db, q.from), !.to = GetStop(c.db, q.to)]
  BY <1>1 DEF ParseStatRequest, RouteRequest
<1>4. p.type = "Route" /\ p.from = GetStop(c.db, q.from) /\ p.to = GetStop(c.db, q.to)
  <2>1. q \in [type : {"Route"}, from : StopName, to : StopName]
    BY DEF RouteRequest
  <2> QED
    BY <1>3, <2>1
<1>5. Outcome(c, p) = RouteOutcome(c, p) /\ \A d : Respond(d, p) = RouteInfo(d, p)
  BY <1>4 DEF Outcome, Respond
<1>6. RouteFound(c, p)
  BY <1>1, <1>5 DEF RouteOutcome
<1>7. p.from # NoStop /\ p.to # NoStop /\ v + 1 \in DOMAIN c.table /\ w + 1 \in DOMAIN c.table[v + 1]
  BY <1>1, <1>6 DEF RouteFound
<1>8. SameRoutes(b, c)
  BY <1>2, <1>7
<1>9. v = VertexOf(b, p.from) /\ w = VertexOf(b, p.to)
  BY <1>1, <1>8, SameVertices
<1>10. PICK count, edges, row, whole :
         count = Len(b.db.stops) /\ edges = b.edges /\ row = c.table[v + 1] /\ whole = b.table[v + 1]
  OBVIOUS
<1>11. edges \in Seq(Edge) /\ c.edges = edges /\ Len(c.db.stops) = count
  BY <1>2, <1>8, <1>10, BaseFields DEF SameRoutes, SameCatalogue
<1>12. count \in Nat /\ w \in Nat /\ v + 1 \in 1 .. count /\ w + 1 \in 1 .. count
  <2>1. p.from \in StopNames(b.db) /\ p.to \in StopNames(b.db)
    BY <1>4, <1>7, <1>8, StopIsKnown
  <2> QED
    BY <1>2, <1>9, <1>10, <2>1, VertexBelow
<1>13. Begins(row, whole) /\ DOMAIN row \subseteq DOMAIN whole
  <2>1. PICK m \in Messages(b) : Cut(m, file)
    BY <1>1 DEF SourceInv
  <2>2. PICK pairs \in SetToSeqs(StoredPairs(b.db)) : m = Message(b, pairs)
    BY DEF Messages
  <2>3. Resolved(b.db)
    BY <1>2 DEF AsMade
  <2> QED
    BY <1>2, <1>7, <1>10, <2>1, <2>2, <2>3, RowsBegin
<1>14. PICK g, h : g = Walk(c, v, w) /\ h = Walk(b, v, w)
  OBVIOUS
<1>15. DOMAIN g = 0 .. count
  <2>1. g = WalkOver(count, edges, row, row[w + 1].prev_edge)
    BY <1>10, <1>11, <1>14, WalkIsOver
  <2>2. IsWalk(g, count, edges, row, row[w + 1].prev_edge)
    BY <1>12, <2>1, WalkExists
  <2> QED
    BY <2>2 DEF IsWalk
<1>16. row[w + 1] = whole[w + 1] /\ CallsAlike(g, count, edges, row, whole)
  <2>1. w \in Nat /\ w + 1 \in DOMAIN row /\ last = Len(row) - 1 /\ c.edges \in Seq(Edge)
    BY <1>1, <1>7, <1>10, <1>11, <1>12
  <2>2. last + 1 = Len(row)
    BY <1>13, <2>1 DEF Begins
  <2>3. Entry(c, v, last) = row[Len(row)] /\ Entry(b, v, last) = whole[Len(row)]
    BY <1>10, <2>2 DEF Entry
  <2>4. Passes(c, v, w, last) => row[Len(row)] = whole[Len(row)]
    BY <1>1, <2>3
  <2>5. DOMAIN Walk(c, v, w) = 0 .. count
    BY <1>14, <1>15
  <2>6. row[w + 1] = whole[w + 1] /\ CallsAlike(Walk(c, v, w), count, c.edges, row, whole)
    BY <1>13, <2>1, <2>4, <2>5, TornCalls
  <2> QED
    BY <1>11, <1>14, <2>6
<1>17. g = h \/ g[count] = Astray
  <2>1. PICK first : first = whole[w + 1].prev_edge
    OBVIOUS
  <2>2. /\ g = WalkOver(count, edges, row, row[w + 1].prev_edge)
        /\ h = WalkOver(count, edges, whole, whole[w + 1].prev_edge)
    BY <1>10, <1>11, <1>14, WalkIsOver
  <2> QED
    BY <1>11, <1>12, <1>13, <1>16, <2>1, <2>2, CutWalk
<1>18. Entry(c, v, w) = whole[w + 1] /\ Entry(b, v, w) = whole[w + 1]
  BY <1>10, <1>16 DEF Entry
<1>19. ASSUME whole[w + 1] # NoRoute PROVE g = h /\ h[count] = NoEdge
  <2>1. g[count] # Astray
    BY <1>1, <1>5, <1>6, <1>11, <1>14, <1>18, <1>19, WalkDecides
  <2>2. Routed(count, edges, b.table)
    BY <1>2, <1>10 DEF EvaluateVertexCount
  <2>3. WalkOver(count, edges, whole, whole[w + 1].prev_edge)[count] = NoEdge
    BY <1>10, <1>11, <1>12, <1>19, <2>2, RoutedWalkEnds
  <2>4. h = WalkOver(count, edges, whole, whole[w + 1].prev_edge)
    BY <1>10, <1>14, WalkIsOver
  <2> QED
    BY <1>17, <2>1, <2>3, <2>4
<1>20. RouteOutcome(c, p) = "answered"
  BY <1>1, <1>6, <1>11, <1>14, <1>18, <1>19, WalkDecides
<1>21. Plan(RouteInfo(c, p)) = Plan(RouteInfo(b, p))
  <2>1. whole[w + 1] = NoRoute \/ EdgesBack(c, v, w) = EdgesBack(b, v, w)
    BY <1>10, <1>11, <1>14, <1>19, EdgesAreTaken
  <2> QED
    BY <1>8, <1>9, <1>18, <2>1, SamePlan
<1> QED
  BY <1>1, <1>5, <1>20, <1>21

\* Where the file ends in a row of the table, only a torn entry misleads.
LEMMA ServedTorn == SourceInv /\ MemoryInv => OnlyTornEntryMisleads
<1> SUFFICES ASSUME SourceInv, MemoryInv, pc = "parse", NEW q \in RouteRequest,
                    NEW p, p = ParseStatRequest(memory.db, q),
                    NEW v, v = VertexOf(memory, p.from), NEW w, w = VertexOf(memory, p.to),
                    NEW last, last = Len(memory.table[v + 1]) - 1
             PROVE  \/ Outcome(memory, p) \in {"throws", "undefined"}
                    \/ /\ Outcome(memory, p) = "answered"
                       /\ Plan(Respond(memory, p)) = Plan(Respond(source, p))
                    \/ Passes(memory, v, w, last) /\ Entry(memory, v, last) # Entry(source, v, last)
  BY DEF OnlyTornEntryMisleads
<1> QED
  BY TornPlan

\* A base that was saved has a bus to draw if it has any.
LEMMA BusIsDrawn ==
    ASSUME NEW b \in Base, AsMade(b), Serializable(b.db)
    PROVE  b.db.buses # <<>> <=> \E n \in DOMAIN b.db.buses : b.db.buses[n].route # <<>>
<1>1. b.db.buses \in Seq(Bus)
  BY BaseFields, CatalogueFields
<1>2. ASSUME b.db.buses # <<>> PROVE 1 \in DOMAIN b.db.buses
  BY <1>1, <1>2
<1>3. \A n \in DOMAIN b.db.buses : b.db.buses[n].route # <<>>
  BY DEF AsMade, Serializable
<1>4. b.db.buses = <<>> => DOMAIN b.db.buses = {}
  OBVIOUS
<1> QED
  BY <1>2, <1>3, <1>4

\* What a complete file does not answer is not for want of anything that was
\* in the file.
LEMMA ServedAnswers == SourceInv /\ MemoryInv => CompleteBaseAnswers
<1> SUFFICES ASSUME SourceInv, MemoryInv, pc = "answer", Complete, requests # <<>>,
                    NEW p, p = Head(requests)
             PROVE  Outcome(memory, p) # "answered" <=>
                      \/ p.type = "Route" /\ NoStop \in {p.from, p.to}
                      \/ p.type = "Map" /\ source.drawing.palette_size = 0 /\ source.db.buses # <<>>
  BY DEF CompleteBaseAnswers
<1>1. PICK b, c : b = source /\ c = memory
  OBVIOUS
<1>2. /\ b \in Base /\ AsMade(b) /\ Serializable(b.db)
      /\ Routed(EvaluateVertexCount(b.db), b.edges, b.table) /\ SameBase(b, c)
  BY <1>1, WhatIsServed
<1>3. SameRoutes(b, c) /\ SameCatalogue(b.db, c.db) /\ c.table = b.table /\ c.drawing = b.drawing
  BY <1>2 DEF SameBase, SameRoutes
<1>4. PICK q \in StatRequest : p = ParseStatRequest(c.db, q)
  <2>1. PICK r, P : r = requests /\ P = Parsed(c.db)
    OBVIOUS
  <2>2. r \in Seq(P) /\ r # <<>>
    BY <1>1, <2>1 DEF MemoryInv
  <2>3. Head(r) \in P
    BY <2>2
  <2> QED
    BY <2>1, <2>3 DEF Parsed
<1>5. CASE q.type = "Route"
  <2>1. q \in [type : {"Route"}, from : StopName, to : StopName]
    BY <1>5 DEF StatRequest, NameRequest, MapRequest, RouteRequest
  <2>2. p.type = "Route" /\ p.from = GetStop(c.db, q.from) /\ p.to = GetStop(c.db, q.to)
    BY <1>4, <2>1 DEF ParseStatRequest
  <2>3. Outcome(c, p) = RouteOutcome(c, p)
    BY <2>2 DEF Outcome
  <2>4. ASSUME p.from # NoStop, p.to # NoStop PROVE RouteOutcome(c, p) = "answered"
    <3>1. p.from \in StopNames(b.db) /\ p.to \in StopNames(b.db)
      BY <1>3, <2>2, <2>4, StopIsKnown
    <3>2. PICK v : v = VertexOf(b, p.from)
      OBVIOUS
    <3>3. v + 1 \in DOMAIN c.table /\ c.table[v + 1] = b.table[v + 1]
      BY <1>2, <1>3, <3>1, <3>2, VertexBelow DEF Routed, EvaluateVertexCount
    <3> QED
      BY <1>2, <1>3, <3>1, <3>2, <3>3, RouteAnswered
  <2>5. ASSUME NoStop \in {p.from, p.to} PROVE RouteOutcome(c, p) = "throws"
    <3>1. ~RouteFound(c, p)
      BY <2>5 DEF RouteFound
    <3> QED
      BY <3>1 DEF RouteOutcome
  <2> QED
    BY <1>1, <2>2, <2>3, <2>4, <2>5
<1>6. CASE q.type # "Route"
  <2>1. p = q
    BY <1>4, <1>6 DEF ParseStatRequest
  <2>2. Outcome(c, p) = IF p.type = "Map" THEN MapOutcome(c) ELSE "answered"
    BY <1>6, <2>1 DEF Outcome
  <2>3. MapOutcome(c) # "answered" <=> b.drawing.palette_size = 0 /\ b.db.buses # <<>>
    <3>1. c.db.buses = b.db.buses
      BY <1>3 DEF SameCatalogue
    <3>2. b.db.buses # <<>> <=> \E n \in DOMAIN b.db.buses : b.db.buses[n].route # <<>>
      BY <1>2, BusIsDrawn
    <3> QED
      BY <1>3, <3>1, <3>2 DEF MapOutcome
  <2> QED
    BY <1>1, <1>6, <2>1, <2>2, <2>3
<1> QED
  BY <1>5, <1>6

\* A base whose file is complete answers every request, of any kind, as the
\* base that make_base had in memory, whatever the order of the distances.
THEOREM CompleteFilesLoseNothing == Spec => []RoundTrip
<1>1. Spec => []SourceInv
  BY SourceInvInit, SourceInvNext, PTL DEF Spec
<1>2. Spec => []MemoryInv
  BY MemoryInvInit, MemoryInvNext, PTL DEF Spec
<1> QED
  BY <1>1, <1>2, ServedRoundTrip, PTL

\* Wherever a file is cut off, a route on it throws, or is the route of the
\* whole base, but from the stop in whose row the cut is.
THEOREM CutFilesNeverMisroute == Spec => []NeverMisroutes
<1>1. Spec => []SourceInv
  BY SourceInvInit, SourceInvNext, PTL DEF Spec
<1>2. Spec => []MemoryInv
  BY MemoryInvInit, MemoryInvNext, PTL DEF Spec
<1> QED
  BY <1>1, <1>2, ServedRoutes, PTL

\* In the row of the table in which the file ends only a torn entry makes a
\* route wrong, or a walk that never ends; every other route from there is that
\* of the whole base, or throws, or hops out of the row.
THEOREM TornEntriesAloneMislead == Spec => []OnlyTornEntryMisleads
<1>1. Spec => []SourceInv
  BY SourceInvInit, SourceInvNext, PTL DEF Spec
<1>2. Spec => []MemoryInv
  BY MemoryInvInit, MemoryInvNext, PTL DEF Spec
<1> QED
  BY <1>1, <1>2, ServedTorn, PTL

\* On a complete file the requests that may end a run are exactly the routes
\* that name a stop that is not known, and the maps if there is a bus to draw
\* and no colour in the palette.
THEOREM CompleteBasesAlwaysAnswer == Spec => []CompleteBaseAnswers
<1>1. Spec => []SourceInv
  BY SourceInvInit, SourceInvNext, PTL DEF Spec
<1>2. Spec => []MemoryInv
  BY MemoryInvInit, MemoryInvNext, PTL DEF Spec
<1> QED
  BY <1>1, <1>2, ServedAnswers, PTL
=============================================================================
