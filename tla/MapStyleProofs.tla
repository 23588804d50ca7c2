--------------------------- MODULE MapStyleProofs ---------------------------
(***************************************************************************)
(* What render_settings become on their way to the map, for every          *)
(* document, number of buses and width of the integers: a colour, a size   *)
(* and an offset that were read come back from their fields in the base    *)
(* file, what is missing of them is read as nothing, and the attributes    *)
(* that are drawn are those of the document.                               *)
(***************************************************************************)
EXTENDS MapStyle, SequenceTheorems, TLAPS

-----------------------------------------------------------------------------
(* Short lists *)

\* A value in front of a list.
LEMMA InFront ==
  ASSUME NEW S, NEW m \in Nat, NEW s \in [1 .. m -> S], NEW a
  PROVE  <<a>> \o s = [k \in 1 .. m + 1 |-> IF k = 1 THEN a ELSE s[k - 1]]
<1> DEFINE T == S \cup {a}
<1>1. <<a>> \in Seq(T) /\ Len(<<a>>) = 1 /\ <<a>>[1] = a
  OBVIOUS
<1>2. s \in Seq(T) /\ Len(s) = m
  <2>1. s \in [1 .. m -> T]
    OBVIOUS
  <2> QED
    BY <2>1, SeqDef
<1> HIDE DEF T
<1>3. PICK l : l = <<a>> \o s
  OBVIOUS
<1>4. /\ l \in Seq(T) /\ Len(l) = 1 + m
      /\ \A k \in 1 .. 1 + m : l[k] = IF k <= 1 THEN <<a>>[k] ELSE s[k - 1]
  BY <1>1, <1>2, <1>3, ConcatProperties
<1>5. l = [k \in 1 .. 1 + m |-> l[k]]
  BY <1>4
<1>6. \A k \in 1 .. m + 1 : l[k] = IF k = 1 THEN a ELSE s[k - 1]
  BY <1>1, <1>4
<1> QED
  BY <1>3, <1>5, <1>6

LEMMA InFrontOfThree ==
  ASSUME NEW a, NEW x, NEW y, NEW z
  PROVE  <<a>> \o <<x, y, z>> = <<a, x, y, z>>
<1>1. PICK s : s = <<x, y, z>>
  OBVIOUS
<1>2. s \in [1 .. 3 -> {x, y, z}] /\ s[1] = x /\ s[2] = y /\ s[3] = z
  BY <1>1
<1>3. <<a>> \o s = [k \in 1 .. 4 |-> IF k = 1 THEN a ELSE s[k - 1]]
  <2>1. PICK m \in Nat : m = 3
    OBVIOUS
  <2>2. PICK S : s \in [1 .. m -> S]
    BY <1>2, <2>1
  <2>3. <<a>> \o s = [k \in 1 .. m + 1 |-> IF k = 1 THEN a ELSE s[k - 1]]
    BY <2>2, InFront
  <2> QED
    BY <2>1, <2>3
<1>4. PICK t : t = <<a, x, y, z>>
  OBVIOUS
<1>5. t = [k \in 1 .. 4 |-> IF k = 1 THEN a ELSE s[k - 1]]
  <2>1. t = [k \in 1 .. 4 |-> t[k]] /\ t[1] = a /\ t[2] = x /\ t[3] = y /\ t[4] = z
    BY <1>4
  <2> QED
    BY <1>2, <2>1
<1> QED
  BY <1>1, <1>3, <1>4, <1>5

LEMMA InFrontOfOne ==
  ASSUME NEW a, NEW x
  PROVE  <<a>> \o <<x>> = <<a, x>>
<1>1. PICK s : s = <<x>>
  OBVIOUS
<1>2. s \in [1 .. 1 -> {x}] /\ s[1] = x
  BY <1>1
<1>3. <<a>> \o s = [k \in 1 .. 2 |-> IF k = 1 THEN a ELSE s[k - 1]]
  <2>1. PICK m \in Nat : m = 1
    OBVIOUS
  <2>2. PICK S : s \in [1 .. m -> S]
    BY <1>2, <2>1
  <2>3. <<a>> \o s = [k \in 1 .. m + 1 |-> IF k = 1 THEN a ELSE s[k - 1]]
    BY <2>2, InFront
  <2> QED
    BY <2>1, <2>3
<1>4. PICK t : t = <<a, x>>
  OBVIOUS
<1>5. t = [k \in 1 .. 2 |-> IF k = 1 THEN a ELSE s[k - 1]]
  <2>1. t = [k \in 1 .. 2 |-> t[k]] /\ t[1] = a /\ t[2] = x
    BY <1>4
  <2> QED
    BY <1>2, <2>1
<1> QED
  BY <1>1, <1>3, <1>4, <1>5

LEMMA InFrontOfFour ==
  ASSUME NEW a, NEW x, NEW y, NEW z, NEW o
  PROVE  <<a>> \o <<x, y, z, o>> = <<a, x, y, z, o>>
<1>1. PICK s : s = <<x, y, z, o>>
  OBVIOUS
<1>2. s \in [1 .. 4 -> {x, y, z, o}] /\ s[1] = x /\ s[2] = y /\ s[3] = z /\ s[4] = o
  BY <1>1
<1>3. <<a>> \o s = [k \in 1 .. 5 |-> IF k = 1 THEN a ELSE s[k - 1]]
  <2>1. PICK m \in Nat : m = 4
    OBVIOUS
  <2>2. PICK S : s \in [1 .. m -> S]
    BY <1>2, <2>1
  <2>3. <<a>> \o s = [k \in 1 .. m + 1 |-> IF k = 1 THEN a ELSE s[k - 1]]
    BY <2>2, InFront
  <2> QED
    BY <2>1, <2>3
<1>4. PICK t : t = <<a, x, y, z, o>>
  OBVIOUS
<1>5. t = [k \in 1 .. 5 |-> IF k = 1 THEN a ELSE s[k - 1]]
  <2>1. t = [k \in 1 .. 5 |-> t[k]] /\ t[1] = a /\ t[2] = x /\ t[3] = y /\ t[4] = z /\ t[5] = o
    BY <1>4
  <2> QED
    BY <1>2, <2>1
<1> QED
  BY <1>1, <1>3, <1>4, <1>5

\* A value behind four others.
LEMMA BehindFour ==
  ASSUME NEW a, NEW x, NEW y, NEW z, NEW o
  PROVE  <<a, x, y, z>> \o <<o>> = <<a, x, y, z, o>>
<1>1. PICK S : S = {a, x, y, z, o}
  OBVIOUS
<1>2. <<a, x, y, z>> \in Seq(S) /\ o \in S
  BY <1>1
<1>3. <<a, x, y, z>> \o <<o>> = Append(<<a, x, y, z>>, o)
  BY <1>2, AppendIsConcat
<1>4. PICK s : s = <<a, x, y, z>>
  OBVIOUS
<1>5. PICK t : t = Append(s, o)
  OBVIOUS
<1>6. s \in Seq(S) /\ Len(s) = 4 /\ s[1] = a /\ s[2] = x /\ s[3] = y /\ s[4] = z
  BY <1>2, <1>4
<1>7. t \in Seq(S) /\ Len(t) = 5 /\ t[5] = o /\ \A k \in 1 .. 4 : t[k] = s[k]
  <2>1. s \in Seq(S) /\ o \in S
    BY <1>2, <1>4
  <2>2. /\ t \in Seq(S) /\ Len(t) = Len(s) + 1 /\ t[Len(s) + 1] = o
        /\ \A k \in 1 .. Len(s) : t[k] = s[k]
    BY <1>5, <2>1, AppendProperties
  <2> QED
    BY <1>6, <2>2
<1>8. PICK u : u = <<a, x, y, z, o>>
  OBVIOUS
<1>9. u = [k \in 1 .. 5 |-> u[k]] /\ u[1] = a /\ u[2] = x /\ u[3] = y /\ u[4] = z /\ u[5] = o
  BY <1>8
<1>10. t = [k \in 1 .. 5 |-> t[k]]
  BY <1>7
<1>11. \A k \in 1 .. 5 : t[k] = u[k]
  BY <1>6, <1>7, <1>9
<1> QED
  BY <1>3, <1>4, <1>5, <1>8, <1>9, <1>10, <1>11

\* The fields of the message by number.
LEMMA FieldList ==
  /\ DOMAIN Fields = 1 .. 14 /\ Len(Fields) = 14
  /\ Fields[1] = "width" /\ Fields[2] = "height" /\ Fields[3] = "padding"
  /\ Fields[4] = "line_width" /\ Fields[5] = "stop_radius"
  /\ Fields[6] = "bus_label_font_size" /\ Fields[7] = "bus_label_offset"
  /\ Fields[8] = "bus_label_offset" /\ Fields[9] = "stop_label_font_size"
  /\ Fields[10] = "stop_label_offset" /\ Fields[11] = "stop_label_offset"
  /\ Fields[12] = "underlayer_color" /\ Fields[13] = "underlayer_width"
  /\ Fields[14] = "color_palette"
  BY DEF Fields

\* The kinds of members.
LEMMA MemberKinds ==
  ASSUME NEW m
  PROVE  /\ m \in Member <=> \/ m \in Number \/ m \in FontSize \/ m \in Offset
                             \/ m = "underlayer_color" \/ m = "color_palette"
         /\ m \in Number => m \notin FontSize \cup Offset \cup {"underlayer_color", "color_palette"}
         /\ m \in FontSize => m \notin Offset \cup {"underlayer_color", "color_palette"}
         /\ m \in Offset => m \notin {"underlayer_color", "color_palette"}
  BY DEF Member, Number, FontSize, Offset

\* The first field of a member.
Place(m) == CHOOSE n \in DOMAIN Fields : Fields[n] = m /\ PartOf(n) = 1

\* Every member has a field, an offset has two.
LEMMA PlaceIs ==
  ASSUME NEW m \in Member
  PROVE  /\ Place(m) \in 1 .. 14 /\ Fields[Place(m)] = m /\ PartOf(Place(m)) = 1
         /\ m \in Offset => /\ Place(m) + 1 \in 1 .. 14 /\ Fields[Place(m) + 1] = m
                            /\ PartOf(Place(m) + 1) = 2
<1>1. \A n \in 1 .. 14 : PartOf(n) = 1 <=> n # 8 /\ n # 11
  BY FieldList DEF PartOf
<1>2. \E n \in 1 .. 14 : Fields[n] = m /\ PartOf(n) = 1
  BY <1>1, FieldList DEF Member, Number, FontSize, Offset
<1>3. Place(m) \in 1 .. 14 /\ Fields[Place(m)] = m /\ PartOf(Place(m)) = 1
  BY <1>2, FieldList DEF Place
<1>4. ASSUME m \in Offset
      PROVE  /\ Place(m) + 1 \in 1 .. 14 /\ Fields[Place(m) + 1] = m
             /\ PartOf(Place(m) + 1) = 2
  <2>1. Place(m) = 7 \/ Place(m) = 10
    BY <1>1, <1>3, <1>4, FieldList DEF Offset
  <2>2. PartOf(8) = 2 /\ PartOf(11) = 2
    BY FieldList DEF PartOf
  <2>3. CASE Place(m) = 7
    BY <1>3, <2>2, <2>3, FieldList
  <2>4. CASE Place(m) = 10
    BY <1>3, <2>2, <2>4, FieldList
  <2> QED
    BY <2>1, <2>3, <2>4
<1> QED
  BY <1>3, <1>4

-----------------------------------------------------------------------------
(* Colours *)

IsColour(c) ==
    \/ \E x : c = <<"string", x>>
    \/ \E r, g, b : c = <<"rgb", r, g, b>>
    \/ \E r, g, b, o : c = <<"rgba", r, g, b, o>>

LEMMA AroundThree ==
  ASSUME NEW a, NEW x, NEW y, NEW z, NEW o
  PROVE  <<a>> \o <<x, y, z>> \o <<o>> = <<a, x, y, z, o>>
<1>1. PICK l : l = <<a>> \o <<x, y, z>>
  OBVIOUS
<1>2. l = <<a, x, y, z>>
  BY <1>1, InFrontOfThree
<1>3. l \o <<o>> = <<a, x, y, z, o>>
  BY <1>2, BehindFour
<1> QED
  BY <1>1, <1>3

\* A number of a colour that is read, and its parts modulo 2^8.
Channel(node, n) == node.array[n].int % ByteSize

\* A colour is read as its name or as its parts.
LEMMA ParsedColor ==
  ASSUME NEW node, IsColor(node), IsNode(node)
  PROVE  \/ "string" \in DOMAIN node /\ ParseColor(node) = <<"string", node.string>>
         \/ /\ "string" \notin DOMAIN node /\ DOMAIN node.array = 1 .. 3 /\ Len(node.array) = 3
            /\ ParseColor(node) = <<"rgb", Channel(node, 1), Channel(node, 2), Channel(node, 3)>>
         \/ /\ "string" \notin DOMAIN node /\ DOMAIN node.array = 1 .. 4 /\ Len(node.array) = 4
            /\ ParseColor(node) = <<"rgba", Channel(node, 1), Channel(node, 2), Channel(node, 3),
                                     AsDouble(node.array[4])>>
<1>1. CASE "string" \in DOMAIN node
  BY <1>1 DEF ParseColor
<1>2. CASE "string" \notin DOMAIN node
  <2>1. Len(node.array) \in {3, 4} /\ DOMAIN node.array = 1 .. Len(node.array)
    BY <1>2 DEF IsColor, IsNode
  <2>2. PICK rgb : rgb = [n \in 1 .. 3 |-> Uint8(node.array[n].int)]
    OBVIOUS
  <2>3. rgb = <<Channel(node, 1), Channel(node, 2), Channel(node, 3)>>
    BY <2>2 DEF Uint8, Channel
  <2>4. ParseColor(node) = IF Len(node.array) = 3 THEN <<"rgb">> \o rgb
                           ELSE <<"rgba">> \o rgb \o <<AsDouble(node.array[4])>>
    BY <1>2, <2>2 DEF ParseColor
  <2>5. PICK x, y, z : x = Channel(node, 1) /\ y = Channel(node, 2) /\ z = Channel(node, 3)
    OBVIOUS
  <2>6. PICK o : o = AsDouble(node.array[4])
    OBVIOUS
  <2>7. CASE Len(node.array) = 3
    <3>1. ParseColor(node) = <<"rgb">> \o <<x, y, z>>
      BY <2>3, <2>4, <2>5, <2>7
    <3> QED
      BY <1>2, <2>1, <2>5, <2>7, <3>1, InFrontOfThree
  <2>8. CASE Len(node.array) = 4
    <3>1. ParseColor(node) = <<"rgba">> \o <<x, y, z>> \o <<o>>
      BY <2>3, <2>4, <2>5, <2>6, <2>8
    <3> QED
      BY <1>2, <2>1, <2>5, <2>6, <2>8, <3>1, AroundThree
  <2> QED
    BY <2>1, <2>7, <2>8
<1> QED
  BY <1>1, <1>2

LEMMA ParsedIsColour ==
  ASSUME NEW node, IsColor(node), IsNode(node)
  PROVE  IsColour(ParseColor(node))
  BY ParsedColor DEF IsColour

\* It is printed as the document states it.
LEMMA PrintedAsStated ==
  ASSUME NEW node, IsColor(node), IsNode(node)
  PROVE  Printed(ParseColor(node)) = StatedColor(node)
<1>1. CASE "string" \in DOMAIN node
  <2>1. ParseColor(node) = <<"string", node.string>>
    BY <1>1, ParsedColor
  <2>2. Tail(<<"string", node.string>>) = <<node.string>>
    OBVIOUS
  <2> QED
    BY <1>1, <2>1, <2>2 DEF Printed, StatedColor
<1>2. CASE "string" \notin DOMAIN node
  <2>1. PICK x, y, z : x = Channel(node, 1) /\ y = Channel(node, 2) /\ z = Channel(node, 3)
    OBVIOUS
  <2>2. PICK o : o = AsDouble(node.array[4])
    OBVIOUS
  <2>3. PICK s : s = [n \in DOMAIN node.array |-> IF n = 4 THEN AsDouble(node.array[n])
                                                  ELSE node.array[n].int % ByteSize]
    OBVIOUS
  <2>4. StatedColor(node) = <<IF Len(node.array) = 3 THEN "rgb" ELSE "rgba">> \o s
    BY <1>2, <2>3 DEF StatedColor
  <2>5. CASE Len(node.array) = 3
    <3>1. ParseColor(node) = <<"rgb", x, y, z>> /\ DOMAIN node.array = 1 .. 3
      BY <1>2, <2>1, <2>5, ParsedColor
    <3>2. s = <<x, y, z>>
      BY <2>1, <2>3, <3>1 DEF Channel
    <3>3. StatedColor(node) = <<"rgb", x, y, z>>
      BY <2>4, <2>5, <3>2, InFrontOfThree
    <3>4. Printed(<<"rgb", x, y, z>>) = <<"rgb", x, y, z>>
      BY DEF Printed
    <3> QED
      BY <3>1, <3>3, <3>4
  <2>6. CASE Len(node.array) = 4
    <3>1. ParseColor(node) = <<"rgba", x, y, z, o>> /\ DOMAIN node.array = 1 .. 4
      BY <1>2, <2>1, <2>2, <2>6, ParsedColor
    <3>2. s = <<x, y, z, o>>
      BY <2>1, <2>2, <2>3, <3>1 DEF Channel
    <3>3. StatedColor(node) = <<"rgba", x, y, z, o>>
      BY <2>4, <2>6, <3>2, InFrontOfFour
    <3>4. Printed(<<"rgba", x, y, z, o>>) = <<"rgba", x, y, z, o>>
      BY DEF Printed
    <3> QED
      BY <3>1, <3>3, <3>4
  <2> QED
    BY <1>2, <2>5, <2>6, ParsedColor
<1> QED
  BY <1>1, <1>2

\* A colour comes back from its message.
LEMMA ColourComesBack ==
  ASSUME NEW c, IsColour(c)
  PROVE  ColorFromProto(ColorToProto(c)) = c
<1>1. ASSUME NEW x, c = <<"string", x>> PROVE ColorFromProto(ColorToProto(c)) = c
  <2>1. Tail(c) = <<x>> /\ c[1] = "string"
    BY <1>1
  <2>2. ColorToProto(c) = [k \in {"string"} |-> <<x>>]
    BY <2>1 DEF ColorToProto
  <2>3. PICK p : p = [k \in {"string"} |-> <<x>>]
    OBVIOUS
  <2>4. DOMAIN p = {"string"} /\ p.string = <<x>>
    BY <2>3
  <2>5. ColorFromProto(p) = <<"string">> \o <<x>>
    BY <2>4 DEF ColorFromProto
  <2>6. <<"string">> \o <<x>> = <<"string", x>>
    BY InFrontOfOne
  <2> QED
    BY <1>1, <2>2, <2>3, <2>5, <2>6
<1>2. ASSUME NEW x, NEW y, NEW z, c = <<"rgb", x, y, z>> PROVE ColorFromProto(ColorToProto(c)) = c
  <2>1. Tail(c) = <<x, y, z>> /\ c[1] = "rgb"
    BY <1>2
  <2>2. ColorToProto(c) = [k \in {"rgb"} |-> <<x, y, z>>]
    BY <2>1 DEF ColorToProto
  <2>3. PICK p : p = [k \in {"rgb"} |-> <<x, y, z>>]
    OBVIOUS
  <2>4. DOMAIN p = {"rgb"} /\ p["rgb"] = <<x, y, z>>
    BY <2>3
  <2>5. ColorFromProto(p) = <<"rgb">> \o [k \in 1 .. 3 |-> IF k \in DOMAIN p["rgb"] THEN p["rgb"][k] ELSE 0]
    BY <2>4 DEF ColorFromProto
  <2>6. [k \in 1 .. 3 |-> IF k \in DOMAIN p["rgb"] THEN p["rgb"][k] ELSE 0] = <<x, y, z>>
    BY <2>4
  <2>7. <<"rgb">> \o <<x, y, z>> = <<"rgb", x, y, z>>
    BY InFrontOfThree
  <2> QED
    BY <1>2, <2>2, <2>3, <2>5, <2>6, <2>7
<1>3. ASSUME NEW x, NEW y, NEW z, NEW o, c = <<"rgba", x, y, z, o>>
      PROVE  ColorFromProto(ColorToProto(c)) = c
  <2>1. Tail(c) = <<x, y, z, o>> /\ c[1] = "rgba"
    BY <1>3
  <2>2. ColorToProto(c) = [k \in {"rgba"} |-> <<x, y, z, o>>]
    BY <2>1 DEF ColorToProto
  <2>3. PICK p : p = [k \in {"rgba"} |-> <<x, y, z, o>>]
    OBVIOUS
  <2>4. DOMAIN p = {"rgba"} /\ p["rgba"] = <<x, y, z, o>>
    BY <2>3
  <2>5. ColorFromProto(p) = <<"rgba">> \o [k \in 1 .. 4 |-> IF k \in DOMAIN p["rgba"] THEN p["rgba"][k] ELSE 0]
    BY <2>4 DEF ColorFromProto
  <2>6. [k \in 1 .. 4 |-> IF k \in DOMAIN p["rgba"] THEN p["rgba"][k] ELSE 0] = <<x, y, z, o>>
    BY <2>4
  <2>7. <<"rgba">> \o <<x, y, z, o>> = <<"rgba", x, y, z, o>>
    BY InFrontOfFour
  <2> QED
    BY <1>3, <2>2, <2>3, <2>5, <2>6, <2>7
<1> QED
  BY <1>1, <1>2, <1>3 DEF IsColour

-----------------------------------------------------------------------------
(* Settings *)

\* What is set keeps its value in a message: sizes are of 32 bits, an offset
\* has two numbers, and colours are colours.
Plausible(s) ==
    /\ DOMAIN s = Member
    /\ \A m \in FontSize : s[m] \in -(WordSize \div 2) .. WordSize \div 2 - 1
    /\ \A m \in Offset : \E x, y : s[m] = <<x, y>>
    /\ IsColour(s["underlayer_color"])
    /\ \E n \in Nat : s["color_palette"] = [k \in 1 .. n |-> s["color_palette"][k]]
    /\ \A k \in DOMAIN s["color_palette"] : IsColour(s["color_palette"][k])

\* The members are read in this order.
LEMMA ReadsList ==
  /\ DOMAIN Reads = 1 .. 14
  /\ Reads[3] = "color_palette" /\ Reads[4] = "width" /\ Reads[5] = "height" /\ Reads[6] = "padding"
  /\ Reads[7] = "line_width" /\ Reads[8] = "stop_radius" /\ Reads[9] = "bus_label_font_size"
  /\ Reads[10] = "bus_label_offset" /\ Reads[11] = "stop_label_font_size"
  /\ Reads[12] = "stop_label_offset" /\ Reads[13] = "underlayer_color"
  /\ Reads[14] = "underlayer_width"
  BY DEF Reads

\* Reading ends well only if every member is there and of its type.
LEMMA ParsedIsGood ==
  ASSUME NEW doc, Outcome(doc) = "parsed"
  PROVE  /\ \A m \in Member : m \in DOMAIN doc
         /\ \A m \in FontSize : IsInt(doc[m])
         /\ \A m \in Offset : IsArray(doc[m]) /\ Len(doc[m].array) >= 2
         /\ IsColor(doc["underlayer_color"])
         /\ IsArray(doc["color_palette"])
         /\ \A k \in DOMAIN doc["color_palette"].array : IsColor(doc["color_palette"].array[k])
<1>1. \A n \in DOMAIN Reads : Read(doc, n) = "fine"
  <2>1. \A n : Read(doc, n) # "parsed"
    BY DEF Read
  <2> QED
    BY <2>1 DEF Outcome
<1>2. \A m \in Member : \E n \in 3 .. 14 : Reads[n] = m
  BY ReadsList DEF Member, Number, FontSize, Offset
<1>3. \A m \in Member : m \in DOMAIN doc
  <2> SUFFICES ASSUME NEW m \in Member PROVE m \in DOMAIN doc
    OBVIOUS
  <2>1. PICK n \in 3 .. 14 : Reads[n] = m
    BY <1>2
  <2>2. Read(doc, n) = "fine"
    BY <1>1, ReadsList
  <2> QED
    BY <2>1, <2>2 DEF Read
<1>4. ASSUME NEW m \in FontSize PROVE IsInt(doc[m])
  <2>1. PICK n \in 3 .. 14 : Reads[n] = m
    BY <1>2, MemberKinds
  <2>2. Read(doc, n) = "fine"
    BY <1>1, ReadsList
  <2> QED
    BY <2>1, <2>2, MemberKinds DEF Read, Number, FontSize
<1>5. ASSUME NEW m \in Offset PROVE IsArray(doc[m]) /\ Len(doc[m].array) >= 2
  <2>1. PICK n \in 3 .. 14 : Reads[n] = m
    BY <1>2, MemberKinds
  <2>2. Read(doc, n) = "fine"
    BY <1>1, ReadsList
  <2>3. m \notin Number \cup FontSize \cup {"underlayer_color", "color_palette"}
    BY <1>5, MemberKinds
  <2>4. IsArray(doc[m])
    BY <2>1, <2>2, <2>3 DEF Read
  <2>5. ~(Len(doc[m].array) < 2)
    BY <2>1, <2>2, <2>3 DEF Read
  <2> QED
    BY <2>4, <2>5
<1>6. IsColor(doc["underlayer_color"])
  <2>1. PICK m : m = "underlayer_color"
    OBVIOUS
  <2>2. m \notin Number \cup FontSize \cup Offset \cup {"color_palette"}
    BY <2>1, MemberKinds
  <2>3. Read(doc, 13) = "fine" /\ Reads[13] = m
    BY <1>1, <2>1, ReadsList
  <2>4. IsColor(doc[m])
    BY <2>1, <2>2, <2>3 DEF Read
  <2> QED
    BY <2>1, <2>4
<1>7. /\ IsArray(doc["color_palette"])
      /\ \A k \in DOMAIN doc["color_palette"].array : IsColor(doc["color_palette"].array[k])
  <2>1. PICK m : m = "color_palette"
    OBVIOUS
  <2>2. m \notin Number \cup FontSize \cup Offset \cup {"underlayer_color"}
    BY <2>1, MemberKinds
  <2>3. Read(doc, 3) = "fine" /\ Reads[3] = m
    BY <1>1, <2>1, ReadsList
  <2>4. IsArray(doc[m]) /\ \A k \in DOMAIN doc[m].array : IsColor(doc[m].array[k])
    BY <2>1, <2>2, <2>3 DEF Read
  <2> QED
    BY <2>1, <2>4
<1> QED
  BY <1>3, <1>4, <1>5, <1>6, <1>7

\* What is read of a document that is read to its end is plausible.
LEMMA ParsedIsPlausible ==
  ASSUME NEW doc \in Documents, Outcome(doc) = "parsed"
  PROVE  Plausible(RenderSettings(doc))
<1>1. PICK s : s = RenderSettings(doc)
  OBVIOUS
<1>2. /\ \A m \in Member : m \in DOMAIN doc
      /\ \A m \in FontSize : IsInt(doc[m])
      /\ IsColor(doc["underlayer_color"]) /\ IsArray(doc["color_palette"])
      /\ \A k \in DOMAIN doc["color_palette"].array : IsColor(doc["color_palette"].array[k])
  BY ParsedIsGood
<1>3. DOMAIN s = Member
  BY <1>1 DEF RenderSettings
<1>4. ASSUME NEW m \in FontSize PROVE s[m] \in -(WordSize \div 2) .. WordSize \div 2 - 1
  <2>1. m \in Member /\ m \notin Number
    BY <1>4, MemberKinds
  <2>2. s[m] = doc[m].int
    BY <1>1, <1>4, <2>1, MemberKinds DEF RenderSettings
  <2>3. IsNode(doc[m]) /\ IsInt(doc[m])
    BY <1>2, <1>4, <2>1, DocumentsAssumption
  <2> QED
    BY <2>2, <2>3 DEF IsNode
<1>5. ASSUME NEW m \in Offset PROVE \E x, y : s[m] = <<x, y>>
  <2>1. m \in Member /\ m \notin Number \cup FontSize
    BY <1>5, MemberKinds
  <2>2. s[m] = [n \in 1 .. 2 |-> AsDouble(doc[m].array[n])]
    BY <1>1, <1>5, <2>1, MemberKinds DEF RenderSettings
  <2>3. s[m] = <<s[m][1], s[m][2]>>
    BY <2>2
  <2> QED
    BY <2>3
<1>6. s["underlayer_color"] = ParseColor(doc["underlayer_color"])
  <2>1. PICK m : m = "underlayer_color"
    OBVIOUS
  <2>2. m \in Member /\ m \notin Number \cup FontSize \cup Offset
    BY <2>1, MemberKinds
  <2>3. s[m] = ParseColor(doc[m])
    BY <1>1, <2>1, <2>2 DEF RenderSettings
  <2> QED
    BY <2>1, <2>3
<1>7. s["color_palette"] = [n \in DOMAIN doc["color_palette"].array |->
                              ParseColor(doc["color_palette"].array[n])]
  <2>1. PICK m : m = "color_palette"
    OBVIOUS
  <2>2. m \in Member /\ m \notin Number \cup FontSize \cup Offset \cup {"underlayer_color"}
    BY <2>1, MemberKinds
  <2>3. s[m] = [n \in DOMAIN doc[m].array |-> ParseColor(doc[m].array[n])]
    BY <1>1, <2>1, <2>2 DEF RenderSettings
  <2> QED
    BY <2>1, <2>3
<1>8. "underlayer_color" \in Member /\ "color_palette" \in Member
  BY MemberKinds
<1>9. IsNode(doc["underlayer_color"]) /\ IsNode(doc["color_palette"])
  BY <1>2, <1>8, DocumentsAssumption
<1>10. IsColour(s["underlayer_color"])
  BY <1>2, <1>6, <1>9, ParsedIsColour
<1>11. \E n \in Nat : DOMAIN doc["color_palette"].array = 1 .. n
  BY <1>2, <1>9 DEF IsNode
<1>12. \E n \in Nat : s["color_palette"] = [k \in 1 .. n |-> s["color_palette"][k]]
  BY <1>7, <1>11
<1>13. ASSUME NEW k \in DOMAIN s["color_palette"] PROVE IsColour(s["color_palette"][k])
  <2>1. k \in DOMAIN doc["color_palette"].array
    BY <1>7
  <2>2. IsColor(doc["color_palette"].array[k])
    BY <1>2, <2>1
  <2>3. IsNode(doc["color_palette"].array[k])
    BY <1>2, <1>8, <2>1, DocumentsAssumption
  <2>4. s["color_palette"][k] = ParseColor(doc["color_palette"].array[k])
    BY <1>7, <2>1
  <2> QED
    BY <2>2, <2>3, <2>4, ParsedIsColour
<1>14. Plausible(s)
  BY <1>3, <1>4, <1>5, <1>10, <1>12, <1>13 DEF Plausible
<1> QED
  BY <1>1, <1>14

\* Settings that nothing was read into are plausible.
LEMMA NoSettingsArePlausible == Plausible(NoSettings)
<1>1. DOMAIN NoSettings = Member
  BY DEF NoSettings
<1>2. \A m \in FontSize : NoSettings[m] = 0
  BY MemberKinds DEF NoSettings
<1>3. ASSUME NEW m \in Offset PROVE NoSettings[m] = <<0, 0>>
  BY <1>3, MemberKinds DEF NoSettings
<1>4. NoSettings["underlayer_color"] = NoneColor
  BY DEF NoSettings, Member, Number, FontSize, Offset
<1>5. NoSettings["color_palette"] = <<>>
  BY DEF NoSettings, Member, Number, FontSize, Offset
<1>6. 0 \in -(WordSize \div 2) .. WordSize \div 2 - 1
  BY SizeAssumption
<1>7. IsColour(NoneColor)
  BY DEF IsColour, NoneColor
<1>8. \E n \in Nat : <<>> = [k \in 1 .. n |-> <<>>[k]]
  <2>1. <<>> = [k \in 1 .. 0 |-> <<>>[k]]
    OBVIOUS
  <2> QED
    BY <2>1
<1>9. PICK s : s = NoSettings
  OBVIOUS
<1>10. s["color_palette"] = <<>> /\ s["underlayer_color"] = NoneColor
  BY <1>4, <1>5, <1>9
<1>11. \E n \in Nat : s["color_palette"] = [k \in 1 .. n |-> s["color_palette"][k]]
  BY <1>8, <1>10
<1>12. \A k \in DOMAIN s["color_palette"] : IsColour(s["color_palette"][k])
  <2>1. DOMAIN <<>> = {}
    OBVIOUS
  <2> QED
    BY <1>10, <2>1
<1>13. \A m \in FontSize : s[m] \in -(WordSize \div 2) .. WordSize \div 2 - 1
  BY <1>2, <1>6, <1>9
<1>14. \A m \in Offset : \E x, y : s[m] = <<x, y>>
  BY <1>3, <1>9
<1>15. Plausible(s)
  BY <1>1, <1>7, <1>9, <1>10, <1>11, <1>12, <1>13, <1>14 DEF Plausible
<1> QED
  BY <1>9, <1>15

-----------------------------------------------------------------------------
(* The message *)

\* What the message holds of each kind of member.
LEMMA NumberIsKept ==
  ASSUME NEW s, NEW n \in 1 .. 14, NEW m \in Number, Fields[n] = m
  PROVE  RenderSettingsToProto(s)[n] = s[m]
  BY FieldList, MemberKinds DEF RenderSettingsToProto

LEMMA SizeIsKept ==
  ASSUME NEW s, NEW n \in 1 .. 14, NEW m \in FontSize, Fields[n] = m
  PROVE  RenderSettingsToProto(s)[n] = Uint32(s[m])
  BY FieldList, MemberKinds DEF RenderSettingsToProto

LEMMA OffsetIsKept ==
  ASSUME NEW s, NEW n \in 1 .. 14, NEW m \in Offset, Fields[n] = m
  PROVE  RenderSettingsToProto(s)[n] = s[m][PartOf(n)]
  BY FieldList, MemberKinds DEF RenderSettingsToProto

LEMMA ColourIsKept ==
  ASSUME NEW s, NEW n \in 1 .. 14, NEW m, m = "underlayer_color", Fields[n] = m
  PROVE  RenderSettingsToProto(s)[n] = ColorToProto(s[m])
  BY FieldList, MemberKinds DEF RenderSettingsToProto

LEMMA PaletteIsKept ==
  ASSUME NEW s, NEW n \in 1 .. 14, NEW m, m = "color_palette", Fields[n] = m
  PROVE  RenderSettingsToProto(s)[n] = [k \in DOMAIN s[m] |-> ColorToProto(s[m][k])]
  BY FieldList, MemberKinds DEF RenderSettingsToProto

\* What is read of the message for each member.
LEMMA MessageGives ==
  ASSUME NEW p, NEW m \in Member
  PROVE  /\ m \in Number => RenderSettingsFromProto(p)[m] = p[Place(m)]
         /\ m \in FontSize => RenderSettingsFromProto(p)[m] = Int32(p[Place(m)])
         /\ m \in Offset => RenderSettingsFromProto(p)[m] = <<p[Place(m)], p[Place(m) + 1]>>
         /\ m = "underlayer_color" => RenderSettingsFromProto(p)[m] = ColorFromProto(p[Place(m)])
         /\ m = "color_palette" =>
              RenderSettingsFromProto(p)[m] =
                [k \in DOMAIN p[Place(m)] |-> ColorFromProto(p[Place(m)][k])]
<1>1. PICK n : n = Place(m)
  OBVIOUS
<1>2. RenderSettingsFromProto(p)[m] =
        CASE m \in Number -> p[n]
          [] m \in FontSize -> Int32(p[n])
          [] m \in Offset -> <<p[n], p[n + 1]>>
          [] m = "underlayer_color" -> ColorFromProto(p[n])
          [] m = "color_palette" -> [k \in DOMAIN p[n] |-> ColorFromProto(p[n][k])]
  <2>1. RenderSettingsFromProto(p) =
          [x \in Member |->
             CASE x \in Number -> p[Place(x)]
               [] x \in FontSize -> Int32(p[Place(x)])
               [] x \in Offset -> <<p[Place(x)], p[Place(x) + 1]>>
               [] x = "underlayer_color" -> ColorFromProto(p[Place(x)])
               [] x = "color_palette" ->
                    [k \in DOMAIN p[Place(x)] |-> ColorFromProto(p[Place(x)][k])]]
    BY DEF RenderSettingsFromProto, Place
  <2> QED
    BY <1>1, <2>1
<1>3. /\ m \in Number => m \notin FontSize \cup Offset \cup {"underlayer_color", "color_palette"}
      /\ m \in FontSize => m \notin Offset \cup {"underlayer_color", "color_palette"}
      /\ m \in Offset => m \notin {"underlayer_color", "color_palette"}
  BY MemberKinds
<1> QED
  BY <1>1, <1>2, <1>3

\* A size goes into 32 bits and comes back.
LEMMA SizeComesBack ==
  ASSUME NEW n \in -(WordSize \div 2) .. WordSize \div 2 - 1
  PROVE  Int32(Uint32(n)) = n
<1>1. WordSize \in Nat \ {0} /\ WordSize % 2 = 0
  BY SizeAssumption
<1>2. PICK h : h = WordSize \div 2
  OBVIOUS
<1>3. h \in Nat /\ WordSize = 2 * h /\ h > 0
  BY <1>1, <1>2
<1>4. n \in Int /\ -h <= n /\ n < h
  BY <1>2, <1>3
<1>5. CASE n >= 0
  <2>1. n % WordSize = n
    BY <1>3, <1>4, <1>5
  <2> QED
    BY <1>2, <1>3, <1>4, <2>1 DEF Uint32, Int32
<1>6. CASE n < 0
  <2>1. n % WordSize = n + WordSize
    <3>1. PICK w \in Nat : w = WordSize
      BY <1>1
    <3>2. n + w \in 0 .. w - 1
      BY <1>3, <1>4, <1>6, <3>1
    <3>3. n % w = n + w
      BY <3>1, <3>2, <1>4, <1>3
    <3> QED
      BY <3>1, <3>3
  <2> QED
    BY <1>2, <1>3, <1>4, <1>6, <2>1 DEF Uint32, Int32
<1> QED
  BY <1>4, <1>5, <1>6

\* Of a member whose fields are all there, the value comes back.
LEMMA MemberComesBack ==
  ASSUME NEW s, Plausible(s), NEW p, NEW m \in Member,
         \A n \in DOMAIN Fields : Fields[n] = m => p[n] = RenderSettingsToProto(s)[n]
  PROVE  RenderSettingsFromProto(p)[m] = s[m]
<1>1. PICK n : n = Place(m)
  OBVIOUS
<1>2. n \in 1 .. 14 /\ Fields[n] = m /\ PartOf(n) = 1
  BY <1>1, PlaceIs
<1>3. p[n] = RenderSettingsToProto(s)[n]
  BY <1>2, FieldList
<1>4. CASE m \in Number
  <2>1. p[n] = s[m]
    BY <1>2, <1>3, <1>4, NumberIsKept
  <2> QED
    BY <1>1, <1>4, <2>1, MessageGives
<1>5. CASE m \in FontSize
  <2>1. s[m] \in -(WordSize \div 2) .. WordSize \div 2 - 1
    BY <1>5 DEF Plausible
  <2>2. Int32(Uint32(s[m])) = s[m]
    BY <2>1, SizeComesBack
  <2>3. p[n] = Uint32(s[m])
    BY <1>2, <1>3, <1>5, SizeIsKept
  <2> QED
    BY <1>1, <1>5, <2>2, <2>3, MessageGives
<1>6. CASE m \in Offset
  <2>1. n + 1 \in 1 .. 14 /\ Fields[n + 1] = m /\ PartOf(n + 1) = 2
    BY <1>1, <1>6, PlaceIs
  <2>2. p[n + 1] = RenderSettingsToProto(s)[n + 1]
    BY <2>1, FieldList
  <2>3. p[n] = s[m][1]
    BY <1>2, <1>3, <1>6, OffsetIsKept
  <2>4. p[n + 1] = s[m][2]
    BY <1>6, <2>1, <2>2, OffsetIsKept
  <2>5. PICK x, y : s[m] = <<x, y>>
    BY <1>6 DEF Plausible
  <2>6. <<p[n], p[n + 1]>> = s[m]
    BY <2>3, <2>4, <2>5
  <2> QED
    BY <1>1, <1>6, <2>6, MessageGives
<1>7. CASE m = "underlayer_color"
  <2>1. p[n] = ColorToProto(s[m])
    BY <1>2, <1>3, <1>7, ColourIsKept
  <2>2. IsColour(s[m])
    BY <1>7 DEF Plausible
  <2>3. ColorFromProto(p[n]) = s[m]
    BY <2>1, <2>2, ColourComesBack
  <2> QED
    BY <1>1, <1>7, <2>3, MessageGives
<1>8. CASE m = "color_palette"
  <2>1. PICK palette : palette = s[m]
    OBVIOUS
  <2>2. p[n] = [k \in DOMAIN palette |-> ColorToProto(palette[k])]
    BY <1>2, <1>3, <1>8, <2>1, PaletteIsKept
  <2>3. \A k \in DOMAIN palette : IsColour(palette[k])
    BY <1>8, <2>1 DEF Plausible
  <2>4. palette = [k \in DOMAIN palette |-> palette[k]]
    <3>1. PICK l \in Nat : palette = [k \in 1 .. l |-> palette[k]]
      BY <1>8, <2>1 DEF Plausible
    <3> QED
      BY <3>1
  <2>5. RenderSettingsFromProto(p)[m] = [k \in DOMAIN p[n] |-> ColorFromProto(p[n][k])]
    BY <1>1, <1>8, MessageGives
  <2>6. \A k \in DOMAIN palette : ColorFromProto(ColorToProto(palette[k])) = palette[k]
    BY <2>3, ColourComesBack
  <2>7. DOMAIN p[n] = DOMAIN palette
    BY <2>2
  <2>8. \A k \in DOMAIN palette : ColorFromProto(p[n][k]) = palette[k]
    BY <2>2, <2>6
  <2> QED
    BY <2>1, <2>4, <2>5, <2>7, <2>8
<1> QED
  BY <1>4, <1>5, <1>6, <1>7, <1>8, MemberKinds

\* What settings are made of when nothing of them is in the file.
Nothing == [NoSettings EXCEPT !["underlayer_color"] = <<"string", "">>]

\* Of a member none of whose fields are there, nothing is read.
LEMMA MissingIsNothing ==
  ASSUME NEW p, NEW m \in Member,
         \A n \in DOMAIN Fields : Fields[n] = m => p[n] = Missing(n)
  PROVE  RenderSettingsFromProto(p)[m] = Nothing[m]
<1>1. PICK n : n = Place(m)
  OBVIOUS
<1>2. n \in 1 .. 14 /\ Fields[n] = m /\ PartOf(n) = 1
  BY <1>1, PlaceIs
<1>3. p[n] = Missing(n)
  BY <1>2, FieldList
<1>4. CASE m \in Number
  <2>1. p[n] = 0
    BY <1>2, <1>3, <1>4, MemberKinds DEF Missing
  <2>2. Nothing[m] = 0
    BY <1>4, MemberKinds DEF Nothing, NoSettings
  <2> QED
    BY <1>1, <1>4, <2>1, <2>2, MessageGives
<1>5. CASE m \in FontSize
  <2>1. p[n] = 0
    BY <1>2, <1>3, <1>5, MemberKinds DEF Missing
  <2>2. Nothing[m] = 0
    BY <1>5, MemberKinds DEF Nothing, NoSettings
  <2>3. Int32(0) = 0
    BY SizeAssumption DEF Int32
  <2> QED
    BY <1>1, <1>5, <2>1, <2>2, <2>3, MessageGives
<1>6. CASE m \in Offset
  <2>1. n + 1 \in 1 .. 14 /\ Fields[n + 1] = m
    BY <1>1, <1>6, PlaceIs
  <2>2. p[n + 1] = Missing(n + 1)
    BY <2>1, FieldList
  <2>3. p[n] = 0 /\ p[n + 1] = 0
    BY <1>2, <1>3, <1>6, <2>1, <2>2, MemberKinds DEF Missing
  <2>4. Nothing[m] = <<0, 0>>
    BY <1>6, MemberKinds DEF Nothing, NoSettings
  <2> QED
    BY <1>1, <1>6, <2>3, <2>4, MessageGives
<1>7. CASE m = "underlayer_color"
  <2>1. p[n] = <<>>
    BY <1>2, <1>3, <1>7 DEF Missing
  <2>2. ColorFromProto(<<>>) = <<"string", "">>
    <3>1. DOMAIN <<>> = {}
      OBVIOUS
    <3>2. PICK e : e = <<>>
      OBVIOUS
    <3>3. "rgba" \notin DOMAIN e /\ "rgb" \notin DOMAIN e /\ "string" \notin DOMAIN e
      BY <3>1, <3>2
    <3>4. ColorFromProto(e) = <<"string", "">>
      BY <3>3 DEF ColorFromProto
    <3> QED
      BY <3>2, <3>4
  <2>3. Nothing[m] = <<"string", "">>
    BY <1>7, MemberKinds DEF Nothing, NoSettings
  <2>4. RenderSettingsFromProto(p)[m] = ColorFromProto(p[n])
    BY <1>1, <1>7, MessageGives
  <2> QED
    BY <2>1, <2>2, <2>3, <2>4
<1>8. CASE m = "color_palette"
  <2>1. p[n] = <<>>
    BY <1>2, <1>3, <1>8 DEF Missing
  <2>2. RenderSettingsFromProto(p)[m] = [k \in DOMAIN p[n] |-> ColorFromProto(p[n][k])]
    BY <1>1, <1>8, MessageGives
  <2>3. RenderSettingsFromProto(p)[m] = <<>>
    <3>1. DOMAIN p[n] = {}
      BY <2>1
    <3> QED
      BY <2>2, <3>1
  <2>4. Nothing[m] = <<>>
    BY <1>8, MemberKinds DEF Nothing, NoSettings
  <2> QED
    BY <2>3, <2>4
<1> QED
  BY <1>4, <1>5, <1>6, <1>7, <1>8, MemberKinds

-----------------------------------------------------------------------------
(* The steps *)

\* What make_base has after reading the document.
Made == IF document = Absent THEN NoSettings ELSE RenderSettings(document)

Begun == {"parsed", "saved", "cut", "loaded", "drawn"}

\* A document that was not read to its end is not saved; a file that is cut
\* off has the fields before the cut; and what is loaded and drawn is what
\* the file has.
StyleInv ==
    /\ document \in Documents \cup {Absent}
    /\ step \in Begun => document = Absent \/ Outcome(document) = "parsed"
    /\ step = "start" => settings = NoSettings
    /\ step = "parsed" => settings = Made
    /\ step = "saved" => file = RenderSettingsToProto(Made) /\ whole = 14
    /\ step \in {"cut", "loaded", "drawn"} =>
         /\ whole \in 0 .. 14
         /\ \A n \in 1 .. 14 : n <= whole => file[n] = RenderSettingsToProto(Made)[n]
         /\ \A n \in 1 .. 14 : n > whole + 1 => file[n] = Missing(n)
    /\ step \in {"loaded", "drawn"} => settings = RenderSettingsFromProto(file)
    /\ step = "drawn" => map = Elements(settings) /\ ~(Buses > 0 /\ settings["color_palette"] = <<>>)

LEMMA StyleInvInit == Init => StyleInv
  BY DEF Init, StyleInv, Begun

LEMMA StyleInvParse ==
  ASSUME StyleInv, ParseRenderSettings
  PROVE  StyleInv'
<1>1. step = "start" /\ document' = document /\ settings = NoSettings
  BY DEF StyleInv, ParseRenderSettings
<1>2. Made' = Made
  BY <1>1 DEF Made
<1>3. step' = IF document = Absent THEN "parsed" ELSE Outcome(document)
  BY DEF ParseRenderSettings
<1>4. \A n : Read(document, n) \in {"throws", "undefined", "fine"}
  BY DEF Read
<1>5. Outcome(document) \in {"parsed", "throws", "undefined", "fine"}
  BY <1>4 DEF Outcome
<1>6. step' \in {"parsed", "throws", "undefined", "fine"}
  BY <1>3, <1>5
<1>7. step' = "parsed" => document = Absent \/ Outcome(document) = "parsed"
  BY <1>3
<1>8. step' = "parsed" => settings' = Made
  BY <1>1 DEF ParseRenderSettings, Made
<1> QED
  BY <1>1, <1>2, <1>6, <1>7, <1>8 DEF StyleInv, Begun

LEMMA StyleInvSerialize ==
  ASSUME StyleInv, SerializeRenderSettings
  PROVE  StyleInv'
<1>1. step = "parsed" /\ step' = "saved" /\ document' = document /\ settings = Made
  BY DEF StyleInv, SerializeRenderSettings
<1>2. Made' = Made
  BY <1>1 DEF Made
<1>3. file' = RenderSettingsToProto(Made) /\ whole' = 14
  BY <1>1, FieldList DEF SerializeRenderSettings
<1> QED
  BY <1>1, <1>2, <1>3 DEF StyleInv, Begun

LEMMA StyleInvCut ==
  ASSUME StyleInv, CutOff
  PROVE  StyleInv'
<1>1. step = "saved" /\ step' = "cut" /\ document' = document /\ file = RenderSettingsToProto(Made)
  BY DEF StyleInv, CutOff
<1>2. Made' = Made
  BY <1>1 DEF Made
<1>3. PICK n \in 1 .. 14 : \E torn \in TornField(file[n], n) :
        /\ whole' = n - 1
        /\ file' = [k \in DOMAIN file |-> IF k < n THEN file[k] ELSE IF k = n THEN torn ELSE Missing(k)]
  BY FieldList DEF CutOff
<1>4. PICK torn \in TornField(file[n], n) :
        /\ whole' = n - 1
        /\ file' = [k \in DOMAIN file |-> IF k < n THEN file[k] ELSE IF k = n THEN torn ELSE Missing(k)]
  BY <1>3
<1>5. DOMAIN file = 1 .. 14
  BY <1>1, FieldList DEF RenderSettingsToProto
<1>6. whole' \in 0 .. 14
  BY <1>4
<1>7. \A k \in 1 .. 14 : k <= whole' => file'[k] = RenderSettingsToProto(Made)[k]
  BY <1>1, <1>4, <1>5
<1>8. \A k \in 1 .. 14 : k > whole' + 1 => file'[k] = Missing(k)
  BY <1>4, <1>5
<1> QED
  BY <1>1, <1>2, <1>6, <1>7, <1>8 DEF StyleInv, Begun

LEMMA StyleInvDeserialize ==
  ASSUME StyleInv, DeserializeRenderSettings
  PROVE  StyleInv'
<1>1. /\ step \in {"saved", "cut"} /\ step' = "loaded" /\ document' = document
      /\ file' = file /\ whole' = whole /\ settings' = RenderSettingsFromProto(file)
  BY DEF DeserializeRenderSettings
<1>2. Made' = Made
  BY <1>1 DEF Made
<1>3. /\ whole \in 0 .. 14
      /\ \A n \in 1 .. 14 : n <= whole => file[n] = RenderSettingsToProto(Made)[n]
      /\ \A n \in 1 .. 14 : n > whole + 1 => file[n] = Missing(n)
  BY <1>1 DEF StyleInv
<1> QED
  BY <1>1, <1>2, <1>3 DEF StyleInv, Begun

LEMMA StyleInvRender ==
  ASSUME StyleInv, Render
  PROVE  StyleInv'
<1>1. /\ step = "loaded" /\ document' = document /\ settings' = settings
      /\ file' = file /\ whole' = whole
  BY DEF Render
<1>2. Made' = Made
  BY <1>1 DEF Made
<1>3. /\ whole \in 0 .. 14
      /\ \A n \in 1 .. 14 : n <= whole => file[n] = RenderSettingsToProto(Made)[n]
      /\ \A n \in 1 .. 14 : n > whole + 1 => file[n] = Missing(n)
  BY <1>1 DEF StyleInv
<1>4. CASE Buses > 0 /\ settings["color_palette"] = <<>>
  <2>1. step' = "undefined"
    BY <1>4 DEF Render
  <2> QED
    BY <1>1, <2>1 DEF StyleInv, Begun
<1>5. CASE ~(Buses > 0 /\ settings["color_palette"] = <<>>)
  <2>1. step' = "drawn" /\ map' = Elements(settings)
    BY <1>5 DEF Render
  <2>2. map' = Elements(settings')
    BY <1>1, <2>1
  <2> QED
    BY <1>1, <1>2, <1>3, <1>5, <2>1, <2>2 DEF StyleInv, Begun
<1> QED
  BY <1>4, <1>5

LEMMA StyleInvStutters ==
  ASSUME StyleInv, UNCHANGED vars
  PROVE  StyleInv'
<1>1. /\ step' = step /\ document' = document /\ settings' = settings
      /\ file' = file /\ whole' = whole /\ map' = map
  BY DEF vars
<1>2. Made' = Made
  BY <1>1 DEF Made
<1> QED
  BY <1>1, <1>2 DEF StyleInv

LEMMA StyleInvHolds == Spec => []StyleInv
<1>1. StyleInv /\ [Next]_vars => StyleInv'
  BY StyleInvParse, StyleInvSerialize, StyleInvCut, StyleInvDeserialize, StyleInvRender,
     StyleInvStutters DEF Next
<1> QED
  BY <1>1, StyleInvInit, PTL DEF Spec

\* What make_base has is plausible once it goes on.
LEMMA MadeIsPlausible ==
  ASSUME StyleInv, step \in Begun
  PROVE  Plausible(Made)
<1>1. CASE document = Absent
  BY <1>1, NoSettingsArePlausible DEF Made
<1>2. CASE document # Absent
  <2>1. document \in Documents /\ Outcome(document) = "parsed"
    BY <1>2 DEF StyleInv
  <2> QED
    BY <1>2, <2>1, ParsedIsPlausible DEF Made
<1> QED
  BY <1>1, <1>2

\* process_requests gets the settings that make_base read, whatever the
\* document says and wherever the file is cut off: a member all of whose
\* fields are before the cut has its value, one all of whose fields are
\* behind it has a zero, an empty name or no palette.
THEOREM SettingsComeBack == Spec => []SettingsSurvive
<1>1. ASSUME StyleInv PROVE SettingsSurvive
  <2> SUFFICES ASSUME step = "loaded" PROVE SettingsSurvive
    BY DEF SettingsSurvive
  <2>1. /\ settings = RenderSettingsFromProto(file) /\ whole \in 0 .. 14
        /\ \A n \in 1 .. 14 : n <= whole => file[n] = RenderSettingsToProto(Made)[n]
        /\ \A n \in 1 .. 14 : n > whole + 1 => file[n] = Missing(n)
    BY <1>1 DEF StyleInv
  <2>2. Plausible(Made)
    BY <1>1, MadeIsPlausible DEF Begun
  <2>3. ASSUME NEW m \in Member, \A n \in {k \in DOMAIN Fields : Fields[k] = m} : n <= whole
        PROVE  settings[m] = Made[m]
    <3>1. \A n \in DOMAIN Fields : Fields[n] = m => file[n] = RenderSettingsToProto(Made)[n]
      BY <2>1, <2>3, FieldList
    <3> QED
      BY <2>1, <2>2, <3>1, MemberComesBack
  <2>4. ASSUME NEW m \in Member, \A n \in {k \in DOMAIN Fields : Fields[k] = m} : n > whole + 1
        PROVE  settings[m] = Nothing[m]
    <3>1. \A n \in DOMAIN Fields : Fields[n] = m => file[n] = Missing(n)
      BY <2>1, <2>4, FieldList
    <3> QED
      BY <2>1, <3>1, MissingIsNothing
  <2> QED
    BY <2>3, <2>4 DEF SettingsSurvive, Made, Nothing
<1> QED
  BY <1>1, StyleInvHolds, PTL

-----------------------------------------------------------------------------
(* The map *)

\* The names of a set of attributes say which is which.
Distinct(attrs) == \A a, b \in attrs : a[1] = b[1] => a = b

\* A colour is never printed as nothing.
LEMMA ColourIsPrinted ==
  ASSUME NEW c, IsColour(c)
  PROVE  c # Unset /\ Printed(c) # Unset
<1>1. ASSUME NEW x, c = <<"string", x>> PROVE c # Unset /\ Printed(c) # Unset
  <2>1. Tail(c) = <<x>> /\ c[1] = "string"
    BY <1>1
  <2>2. Printed(c) = <<x>>
    BY <2>1 DEF Printed
  <2> QED
    BY <1>1, <2>2 DEF Unset
<1>2. ASSUME NEW x, NEW y, NEW z, c = <<"rgb", x, y, z>> PROVE c # Unset /\ Printed(c) # Unset
  <2>1. Printed(c) = c
    BY <1>2 DEF Printed
  <2> QED
    BY <1>2, <2>1 DEF Unset
<1>3. ASSUME NEW x, NEW y, NEW z, NEW o, c = <<"rgba", x, y, z, o>>
      PROVE  c # Unset /\ Printed(c) # Unset
  <2>1. Printed(c) = c
    BY <1>3 DEF Printed
  <2> QED
    BY <1>3, <2>1 DEF Unset
<1> QED
  BY <1>1, <1>2, <1>3 DEF IsColour

\* An element has each of the attributes of a line and of a fill once.
LEMMA RenderAttrsAre ==
  ASSUME NEW fill, NEW stroke, NEW width
  PROVE  /\ \A a \in RenderAttrs(fill, stroke, width) :
              \/ a = <<"fill", Printed(fill)>> \/ a = <<"stroke", Printed(stroke)>>
              \/ a = <<"stroke-width", width>> \/ a = <<"stroke-linecap", <<"round">>>>
              \/ a = <<"stroke-linejoin", <<"round">>>>
         /\ IsColour(fill) => <<"fill", Printed(fill)>> \in RenderAttrs(fill, stroke, width)
         /\ IsColour(stroke) => <<"stroke", Printed(stroke)>> \in RenderAttrs(fill, stroke, width)
         /\ width # Unset => <<"stroke-width", width>> \in RenderAttrs(fill, stroke, width)
<1>1. ASSUME NEW name, NEW value, NEW a \in Attribute(name, value)
      PROVE  a = <<name, value>>
  BY <1>1 DEF Attribute
<1>2. ASSUME NEW name, NEW value, value # Unset
      PROVE  <<name, value>> \in Attribute(name, value)
  BY <1>2 DEF Attribute
<1>3. PICK f : f = IF fill = Unset THEN Unset ELSE Printed(fill)
  OBVIOUS
<1>4. PICK g : g = IF stroke = Unset THEN Unset ELSE Printed(stroke)
  OBVIOUS
<1>5. RenderAttrs(fill, stroke, width) =
        Attribute("fill", f) \cup Attribute("stroke", g) \cup Attribute("stroke-width", width)
        \cup (IF width = Unset THEN {}
              ELSE Attribute("stroke-linecap", <<"round">>) \cup Attribute("stroke-linejoin", <<"round">>))
  BY <1>3, <1>4 DEF RenderAttrs
<1>6. \A a \in Attribute("fill", f) : a = <<"fill", Printed(fill)>>
  BY <1>3 DEF Attribute
<1>7. \A a \in Attribute("stroke", g) : a = <<"stroke", Printed(stroke)>>
  BY <1>4 DEF Attribute
<1>8. IsColour(fill) => <<"fill", Printed(fill)>> \in Attribute("fill", f)
  BY <1>2, <1>3, ColourIsPrinted
<1>9. IsColour(stroke) => <<"stroke", Printed(stroke)>> \in Attribute("stroke", g)
  BY <1>2, <1>4, ColourIsPrinted
<1>10. width # Unset => <<"stroke-width", width>> \in Attribute("stroke-width", width)
  BY <1>2
<1>11. ASSUME NEW a \in RenderAttrs(fill, stroke, width)
       PROVE  \/ a = <<"fill", Printed(fill)>> \/ a = <<"stroke", Printed(stroke)>>
              \/ a = <<"stroke-width", width>> \/ a = <<"stroke-linecap", <<"round">>>>
              \/ a = <<"stroke-linejoin", <<"round">>>>
  <2>1. \/ a \in Attribute("fill", f) \/ a \in Attribute("stroke", g)
        \/ a \in Attribute("stroke-width", width) \/ a \in Attribute("stroke-linecap", <<"round">>)
        \/ a \in Attribute("stroke-linejoin", <<"round">>)
    BY <1>5
  <2> QED
    BY <1>1, <1>6, <1>7, <2>1
<1> QED
  BY <1>5, <1>8, <1>9, <1>10, <1>11

LEMMA RenderAttrsDistinct ==
  ASSUME NEW fill, NEW stroke, NEW width
  PROVE  Distinct(RenderAttrs(fill, stroke, width))
<1> SUFFICES ASSUME NEW a \in RenderAttrs(fill, stroke, width),
                    NEW b \in RenderAttrs(fill, stroke, width), a[1] = b[1]
             PROVE  a = b
  BY DEF Distinct
<1>1. PICK f, g : f = Printed(fill) /\ g = Printed(stroke)
  OBVIOUS
<1>2. \A c \in RenderAttrs(fill, stroke, width) :
        \/ c = <<"fill", f>> \/ c = <<"stroke", g>>
        \/ c = <<"stroke-width", width>> \/ c = <<"stroke-linecap", <<"round">>>>
        \/ c = <<"stroke-linejoin", <<"round">>>>
  BY <1>1, RenderAttrsAre
<1> QED
  BY <1>2

\* A text has a place, a size and a font besides, each once.
LEMMA TextAttrs ==
  ASSUME NEW what, NEW bus, NEW offset, NEW size, NEW weight, NEW fill, NEW stroke, NEW width
  PROVE  LET attrs == RenderAttrs(fill, stroke, width)
             text == Text(what, bus, offset, size, weight, attrs)
         IN  /\ text.what = what /\ text.bus = bus
             /\ Distinct(text.attrs)
             /\ attrs \subseteq text.attrs
             /\ <<"dx", <<offset[1]>>>> \in text.attrs /\ <<"dy", <<offset[2]>>>> \in text.attrs
             /\ <<"font-size", <<Uint32(size)>>>> \in text.attrs
<1>1. PICK attrs : attrs = RenderAttrs(fill, stroke, width)
  OBVIOUS
<1>2. PICK text : text = Text(what, bus, offset, size, weight, attrs)
  OBVIOUS
<1>3. text.what = what /\ text.bus = bus
  BY <1>2 DEF Text
<1>4. text.attrs = attrs \cup Attribute("dx", <<offset[1]>>) \cup Attribute("dy", <<offset[2]>>)
                     \cup Attribute("font-size", <<Uint32(size)>>)
                     \cup Attribute("font-family", <<"Verdana">>) \cup Attribute("font-weight", weight)
  BY <1>2 DEF Text
<1>5. ASSUME NEW name, NEW value PROVE \A a \in Attribute(name, value) : a = <<name, value>>
  BY DEF Attribute
<1>6. ASSUME NEW name, NEW value PROVE <<name, <<value>>>> \in Attribute(name, <<value>>)
  BY DEF Attribute, Unset
<1>7. /\ <<"dx", <<offset[1]>>>> \in text.attrs /\ <<"dy", <<offset[2]>>>> \in text.attrs
      /\ <<"font-size", <<Uint32(size)>>>> \in text.attrs /\ attrs \subseteq text.attrs
  BY <1>4, <1>6
<1>8. ASSUME NEW a \in attrs
      PROVE  a[1] \in {"fill", "stroke", "stroke-width", "stroke-linecap", "stroke-linejoin"}
  <2>1. PICK f, g : f = Printed(fill) /\ g = Printed(stroke)
    OBVIOUS
  <2>2. \A c \in attrs :
          \/ c = <<"fill", f>> \/ c = <<"stroke", g>>
          \/ c = <<"stroke-width", width>> \/ c = <<"stroke-linecap", <<"round">>>>
          \/ c = <<"stroke-linejoin", <<"round">>>>
    BY <1>1, <2>1, RenderAttrsAre
  <2> QED
    BY <1>8, <2>2
<1>9. ASSUME NEW a \in text.attrs
      PROVE  \/ a \in attrs \/ a = <<"dx", <<offset[1]>>>> \/ a = <<"dy", <<offset[2]>>>>
             \/ a = <<"font-size", <<Uint32(size)>>>> \/ a = <<"font-family", <<"Verdana">>>>
             \/ a = <<"font-weight", weight>>
  BY <1>4, <1>5
<1>10. Distinct(attrs)
  BY <1>1, RenderAttrsDistinct
<1>11. Distinct(text.attrs)
  <2> SUFFICES ASSUME NEW a \in text.attrs, NEW b \in text.attrs, a[1] = b[1]
               PROVE  a = b
    BY DEF Distinct
  <2>1. CASE a \in attrs /\ b \in attrs
    BY <1>10, <2>1 DEF Distinct
  <2>2. CASE a \in attrs /\ b \notin attrs
    BY <1>8, <1>9, <2>2
  <2>3. CASE a \notin attrs /\ b \in attrs
    BY <1>8, <1>9, <2>3
  <2>4. CASE a \notin attrs /\ b \notin attrs
    BY <1>9, <2>4
  <2> QED
    BY <2>1, <2>2, <2>3, <2>4
<1> QED
  BY <1>1, <1>2, <1>3, <1>7, <1>11

\* What is read of a document, member by member.
LEMMA ReadOf ==
  ASSUME NEW doc
  PROVE  LET s == RenderSettings(doc) IN
         /\ \A m \in Number : s[m] = AsDouble(doc[m])
         /\ \A m \in FontSize : s[m] = doc[m].int
         /\ \A m \in Offset : /\ s[m][1] = AsDouble(doc[m].array[1])
                              /\ s[m][2] = AsDouble(doc[m].array[2])
         /\ s["underlayer_color"] = ParseColor(doc["underlayer_color"])
         /\ s["color_palette"] = [n \in DOMAIN doc["color_palette"].array |->
                                    ParseColor(doc["color_palette"].array[n])]
<1>1. PICK s : s = RenderSettings(doc)
  OBVIOUS
<1>2. \A m \in Number : s[m] = AsDouble(doc[m])
  BY <1>1, MemberKinds DEF RenderSettings
<1>3. \A m \in FontSize : s[m] = doc[m].int
  BY <1>1, MemberKinds DEF RenderSettings
<1>4. ASSUME NEW m \in Offset
      PROVE  s[m][1] = AsDouble(doc[m].array[1]) /\ s[m][2] = AsDouble(doc[m].array[2])
  <2>1. s[m] = [n \in 1 .. 2 |-> AsDouble(doc[m].array[n])]
    BY <1>1, <1>4, MemberKinds DEF RenderSettings
  <2> QED
    BY <2>1
<1>5. s["underlayer_color"] = ParseColor(doc["underlayer_color"])
  <2>1. PICK m : m = "underlayer_color"
    OBVIOUS
  <2>2. m \in Member /\ m \notin Number \cup FontSize \cup Offset
    BY <2>1, MemberKinds
  <2>3. s[m] = ParseColor(doc[m])
    BY <1>1, <2>1, <2>2 DEF RenderSettings
  <2> QED
    BY <2>1, <2>3
<1>6. s["color_palette"] = [n \in DOMAIN doc["color_palette"].array |->
                              ParseColor(doc["color_palette"].array[n])]
  <2>1. PICK m : m = "color_palette"
    OBVIOUS
  <2>2. m \in Member /\ m \notin Number \cup FontSize \cup Offset \cup {"underlayer_color"}
    BY <2>1, MemberKinds
  <2>3. s[m] = [n \in DOMAIN doc[m].array |-> ParseColor(doc[m].array[n])]
    BY <1>1, <2>1, <2>2 DEF RenderSettings
  <2> QED
    BY <2>1, <2>3
<1> QED
  BY <1>1, <1>2, <1>3, <1>4, <1>5, <1>6

\* The colour of a bus is one of the palette that is stated.
LEMMA ColourOfBus ==
  ASSUME NEW doc \in Documents, Outcome(doc) = "parsed", NEW n \in 1 .. Buses,
         RenderSettings(doc)["color_palette"] # <<>>
  PROVE  LET palette == doc["color_palette"].array IN
         /\ IsColour(Colour(RenderSettings(doc), n))
         /\ Printed(Colour(RenderSettings(doc), n)) = StatedColor(palette[((n - 1) % Len(palette)) + 1])
<1>1. PICK s : s = RenderSettings(doc)
  OBVIOUS
<1>2. PICK palette : palette = doc["color_palette"].array
  OBVIOUS
<1>3. s["color_palette"] = [k \in DOMAIN palette |-> ParseColor(palette[k])]
  BY <1>1, <1>2, ReadOf
<1>4. /\ "color_palette" \in DOMAIN doc /\ IsArray(doc["color_palette"])
      /\ \A k \in DOMAIN palette : IsColor(palette[k])
  BY <1>2, ParsedIsGood DEF Member
<1>5. palette \in Seq(Range(palette)) /\ \A k \in DOMAIN palette : IsNode(palette[k])
  BY <1>2, <1>4, DocumentsAssumption DEF IsNode
<1>6. PICK l : l = Len(palette)
  OBVIOUS
<1>7. l \in Nat /\ DOMAIN palette = 1 .. l
  BY <1>5, <1>6
<1>8. l # 0
  BY <1>1, <1>3, <1>7
<1>9. PICK c : c = s["color_palette"]
  OBVIOUS
<1>10. c = [k \in 1 .. l |-> ParseColor(palette[k])]
  BY <1>3, <1>7, <1>9
<1>11. Len(c) = l
  BY <1>7, <1>10
<1>12. PICK i : i = ((n - 1) % l) + 1
  OBVIOUS
<1>13. i \in 1 .. l
  <2>1. n \in Int /\ n - 1 \in Int
    BY BusesAssumption
  <2>2. (n - 1) % l \in 0 .. l - 1
    BY <1>7, <1>8, <2>1
  <2> QED
    BY <1>7, <1>12, <2>2
<1>14. Colour(s, n) = ParseColor(palette[i])
  BY <1>9, <1>10, <1>11, <1>12, <1>13 DEF Colour
<1>15. IsColor(palette[i]) /\ IsNode(palette[i])
  BY <1>4, <1>5, <1>7, <1>13
<1>16. IsColour(ParseColor(palette[i])) /\ Printed(ParseColor(palette[i])) = StatedColor(palette[i])
  BY <1>15, ParsedIsColour, PrintedAsStated
<1> QED
  BY <1>1, <1>2, <1>6, <1>12, <1>14, <1>16

\* An element looks as a document states, as in MapAsStated.
AsStated(doc, e) ==
    LET palette == doc["color_palette"].array
        colour(n) == StatedColor(palette[((n - 1) % Len(palette)) + 1])
        under == StatedColor(doc["underlayer_color"])
    IN  /\ \A a, b \in e.attrs : a[1] = b[1] => a = b
        /\ e.what = "line" =>
             {<<"fill", <<"none">>>>, <<"stroke", colour(e.bus)>>,
              <<"stroke-width", <<AsDouble(doc["line_width"])>>>>} \subseteq e.attrs
        /\ e.what = "name" /\ e.bus > 0 => <<"fill", colour(e.bus)>> \in e.attrs
        /\ e.what = "circle" => <<"r", <<AsDouble(doc["stop_radius"])>>>> \in e.attrs
        /\ e.what = "background" =>
             {<<"fill", under>>, <<"stroke", under>>,
              <<"stroke-width", <<AsDouble(doc["underlayer_width"])>>>>} \subseteq e.attrs
        /\ e.what \in {"name", "background"} =>
             LET bus == e.bus > 0
                 size == doc[IF bus THEN "bus_label_font_size" ELSE "stop_label_font_size"].int
                 offset == doc[IF bus THEN "bus_label_offset" ELSE "stop_label_offset"].array
             IN  /\ size >= 0 => <<"font-size", <<size>>>> \in e.attrs
                 /\ {<<"dx", <<AsDouble(offset[1])>>>>, <<"dy", <<AsDouble(offset[2])>>>>} \subseteq e.attrs

\* A size that is stated and not negative is the size that is printed.
LEMMA StatedSize ==
  ASSUME NEW doc \in Documents, Outcome(doc) = "parsed", NEW m \in FontSize
  PROVE  doc[m].int >= 0 => Uint32(doc[m].int) = doc[m].int
<1>1. m \in DOMAIN doc /\ IsInt(doc[m])
  BY ParsedIsGood, MemberKinds
<1>2. IsNode(doc[m])
  BY <1>1, DocumentsAssumption
<1>3. doc[m].int \in -(WordSize \div 2) .. WordSize \div 2 - 1
  BY <1>1, <1>2 DEF IsNode
<1>4. PICK n : n = doc[m].int
  OBVIOUS
<1>5. PICK w : w = WordSize
  OBVIOUS
<1>6. w \in Nat \ {0} /\ w % 2 = 0 /\ n \in -(w \div 2) .. w \div 2 - 1
  BY <1>3, <1>4, <1>5, SizeAssumption
<1>7. n >= 0 => n % w = n
  BY <1>6
<1> QED
  BY <1>4, <1>5, <1>7 DEF Uint32

\* The text of a label, of a bus or of the stop, has what the document
\* states for labels of its kind.
LabelOf(doc, fontSize, place, what, bus, attrs, e) ==
    /\ e.what = what /\ e.bus = bus /\ Distinct(e.attrs) /\ attrs \subseteq e.attrs
    /\ doc[fontSize].int >= 0 => <<"font-size", <<doc[fontSize].int>>>> \in e.attrs
    /\ <<"dx", <<AsDouble(doc[place].array[1])>>>> \in e.attrs
    /\ <<"dy", <<AsDouble(doc[place].array[2])>>>> \in e.attrs

LEMMA LabelAsStated ==
  ASSUME NEW doc \in Documents, Outcome(doc) = "parsed",
         NEW fontSize \in FontSize, NEW place \in Offset,
         NEW what, NEW bus, NEW weight, NEW fill, NEW stroke, NEW width
  PROVE  LabelOf(doc, fontSize, place, what, bus, RenderAttrs(fill, stroke, width),
                 Text(what, bus, RenderSettings(doc)[place], RenderSettings(doc)[fontSize], weight,
                      RenderAttrs(fill, stroke, width)))
<1>1. PICK s : s = RenderSettings(doc)
  OBVIOUS
<1>2. PICK attrs : attrs = RenderAttrs(fill, stroke, width)
  OBVIOUS
<1>3. PICK o, z : o = s[place] /\ z = s[fontSize]
  OBVIOUS
<1>4. PICK e : e = Text(what, bus, o, z, weight, attrs)
  OBVIOUS
<1>5. /\ e.what = what /\ e.bus = bus /\ Distinct(e.attrs) /\ attrs \subseteq e.attrs
      /\ <<"dx", <<o[1]>>>> \in e.attrs /\ <<"dy", <<o[2]>>>> \in e.attrs
      /\ <<"font-size", <<Uint32(z)>>>> \in e.attrs
  BY <1>2, <1>4, TextAttrs
<1>6. z = doc[fontSize].int
  BY <1>1, <1>3, ReadOf
<1>7. z >= 0 => Uint32(z) = z
  BY <1>6, StatedSize
<1>8. o[1] = AsDouble(doc[place].array[1]) /\ o[2] = AsDouble(doc[place].array[2])
  BY <1>1, <1>3, ReadOf
<1>9. z >= 0 => <<"font-size", <<z>>>> \in e.attrs
  BY <1>5, <1>7
<1>10. LabelOf(doc, fontSize, place, what, bus, attrs, e)
  BY <1>5, <1>6, <1>8, <1>9 DEF LabelOf
<1> QED
  BY <1>1, <1>2, <1>3, <1>4, <1>10

\* The background of a label is of the colour and width that are stated.
LEMMA BackgroundAsStated ==
  ASSUME NEW doc \in Documents, Outcome(doc) = "parsed"
  PROVE  {<<"fill", StatedColor(doc["underlayer_color"])>>,
          <<"stroke", StatedColor(doc["underlayer_color"])>>,
          <<"stroke-width", <<AsDouble(doc["underlayer_width"])>>>>}
            \subseteq Background(RenderSettings(doc))
<1>1. PICK s : s = RenderSettings(doc)
  OBVIOUS
<1>2. PICK c, w : c = s["underlayer_color"] /\ w = s["underlayer_width"]
  OBVIOUS
<1>3. "underlayer_color" \in DOMAIN doc /\ IsColor(doc["underlayer_color"])
  BY ParsedIsGood DEF Member
<1>4. IsNode(doc["underlayer_color"])
  BY <1>3, DocumentsAssumption
<1>5. c = ParseColor(doc["underlayer_color"])
  BY <1>1, <1>2, ReadOf
<1>6. IsColour(c) /\ Printed(c) = StatedColor(doc["underlayer_color"])
  BY <1>3, <1>4, <1>5, ParsedIsColour, PrintedAsStated
<1>7. w = AsDouble(doc["underlayer_width"])
  BY <1>1, <1>2, ReadOf DEF Number
<1>8. Background(s) = RenderAttrs(c, c, <<w>>)
  BY <1>2 DEF Background
<1>9. <<w>> # Unset
  BY DEF Unset
<1>10. <<"fill", Printed(c)>> \in RenderAttrs(c, c, <<w>>)
  BY <1>6, RenderAttrsAre
<1>11. <<"stroke", Printed(c)>> \in RenderAttrs(c, c, <<w>>)
  BY <1>6, RenderAttrsAre
<1>12. <<"stroke-width", <<w>>>> \in RenderAttrs(c, c, <<w>>)
  BY <1>9, RenderAttrsAre
<1> QED
  BY <1>1, <1>6, <1>7, <1>8, <1>10, <1>11, <1>12

\* The line of a bus.
LEMMA LineAsStated ==
  ASSUME NEW doc \in Documents, Outcome(doc) = "parsed", NEW n \in 1 .. Buses,
         RenderSettings(doc)["color_palette"] # <<>>
  PROVE  AsStated(doc, Polyline(RenderSettings(doc), n))
<1>1. PICK s : s = RenderSettings(doc)
  OBVIOUS
<1>2. PICK c, w : c = Colour(s, n) /\ w = s["line_width"]
  OBVIOUS
<1>3. PICK e : e = Polyline(s, n)
  OBVIOUS
<1>4. e.what = "line" /\ e.bus = n /\ e.attrs = RenderAttrs(NoneColor, c, <<w>>)
  BY <1>2, <1>3 DEF Polyline
<1>5. Distinct(e.attrs)
  BY <1>4, RenderAttrsDistinct
<1>6. w = AsDouble(doc["line_width"])
  BY <1>1, <1>2, ReadOf DEF Number
<1>7. PICK stated : stated = StatedColor(doc["color_palette"].array[
                                ((n - 1) % Len(doc["color_palette"].array)) + 1])
  OBVIOUS
<1>8. IsColour(c) /\ Printed(c) = stated
  BY <1>1, <1>2, <1>7, ColourOfBus
<1>9. IsColour(NoneColor) /\ Printed(NoneColor) = <<"none">>
  <2>1. Tail(<<"string", "none">>) = <<"none">>
    OBVIOUS
  <2> QED
    BY <2>1 DEF IsColour, Printed, NoneColor
<1>10. <<w>> # Unset
  BY DEF Unset
<1>11. <<"fill", Printed(NoneColor)>> \in RenderAttrs(NoneColor, c, <<w>>)
  BY <1>9, RenderAttrsAre
<1>12. <<"stroke", Printed(c)>> \in RenderAttrs(NoneColor, c, <<w>>)
  BY <1>8, RenderAttrsAre
<1>13. <<"stroke-width", <<w>>>> \in RenderAttrs(NoneColor, c, <<w>>)
  BY <1>10, RenderAttrsAre
<1>14. {<<"fill", <<"none">>>>, <<"stroke", stated>>,
        <<"stroke-width", <<AsDouble(doc["line_width"])>>>>} \subseteq e.attrs
  BY <1>4, <1>6, <1>8, <1>9, <1>11, <1>12, <1>13
<1>15. AsStated(doc, e)
  BY <1>4, <1>5, <1>7, <1>14 DEF AsStated, Distinct
<1> QED
  BY <1>1, <1>3, <1>15

\* The labels of a bus.
LEMMA BusLabelAsStated ==
  ASSUME NEW doc \in Documents, Outcome(doc) = "parsed", NEW n \in 1 .. Buses,
         RenderSettings(doc)["color_palette"] # <<>>, NEW e,
         LET s == RenderSettings(doc) IN
         \/ e = GetBusLabel(s, n, "background", Background(s))
         \/ e = GetBusLabel(s, n, "name", RenderAttrs(Colour(s, n), Unset, Unset))
  PROVE  AsStated(doc, e)
<1>1. PICK s : s = RenderSettings(doc)
  OBVIOUS
<1>2. n > 0
  BY BusesAssumption
<1>3. "bus_label_font_size" \in FontSize /\ "bus_label_offset" \in Offset
  BY DEF FontSize, Offset
<1>4. PICK stated : stated = StatedColor(doc["color_palette"].array[
                                ((n - 1) % Len(doc["color_palette"].array)) + 1])
  OBVIOUS
<1>5. CASE e = GetBusLabel(s, n, "background", Background(s))
  <2>1. PICK attrs : attrs = Background(s)
    OBVIOUS
  <2>2. PICK c, w : c = s["underlayer_color"] /\ w = <<s["underlayer_width"]>>
    OBVIOUS
  <2>3. attrs = RenderAttrs(c, c, w)
    BY <2>1, <2>2 DEF Background
  <2>4. e = Text("background", n, RenderSettings(doc)["bus_label_offset"],
                 RenderSettings(doc)["bus_label_font_size"], <<"bold">>, RenderAttrs(c, c, w))
    BY <1>1, <1>5, <2>1, <2>3 DEF GetBusLabel
  <2>5. /\ e.what = "background" /\ e.bus = n /\ Distinct(e.attrs)
        /\ RenderAttrs(c, c, w) \subseteq e.attrs
        /\ doc["bus_label_font_size"].int >= 0 => <<"font-size", <<doc["bus_label_font_size"].int>>>> \in e.attrs
        /\ <<"dx", <<AsDouble(doc["bus_label_offset"].array[1])>>>> \in e.attrs
        /\ <<"dy", <<AsDouble(doc["bus_label_offset"].array[2])>>>> \in e.attrs
    <3>1. LabelOf(doc, "bus_label_font_size", "bus_label_offset", "background", n, RenderAttrs(c, c, w), e)
      BY <1>3, <2>4, LabelAsStated
    <3> QED
      BY <3>1 DEF LabelOf
  <2>6. {<<"fill", StatedColor(doc["underlayer_color"])>>,
         <<"stroke", StatedColor(doc["underlayer_color"])>>,
         <<"stroke-width", <<AsDouble(doc["underlayer_width"])>>>>} \subseteq attrs
    BY <1>1, <2>1, BackgroundAsStated
  <2> QED
    BY <1>2, <2>3, <2>5, <2>6 DEF AsStated, Distinct
<1>6. CASE e = GetBusLabel(s, n, "name", RenderAttrs(Colour(s, n), Unset, Unset))
  <2>1. PICK c : c = Colour(s, n)
    OBVIOUS
  <2>2. PICK u : u = Unset
    OBVIOUS
  <2>3. e = Text("name", n, RenderSettings(doc)["bus_label_offset"],
                 RenderSettings(doc)["bus_label_font_size"], <<"bold">>, RenderAttrs(c, u, u))
    BY <1>1, <1>6, <2>1, <2>2 DEF GetBusLabel
  <2>4. /\ e.what = "name" /\ e.bus = n /\ Distinct(e.attrs)
        /\ RenderAttrs(c, u, u) \subseteq e.attrs
        /\ doc["bus_label_font_size"].int >= 0 => <<"font-size", <<doc["bus_label_font_size"].int>>>> \in e.attrs
        /\ <<"dx", <<AsDouble(doc["bus_label_offset"].array[1])>>>> \in e.attrs
        /\ <<"dy", <<AsDouble(doc["bus_label_offset"].array[2])>>>> \in e.attrs
    <3>1. LabelOf(doc, "bus_label_font_size", "bus_label_offset", "name", n, RenderAttrs(c, u, u), e)
      BY <1>3, <2>3, LabelAsStated
    <3> QED
      BY <3>1 DEF LabelOf
  <2>5. IsColour(c) /\ Printed(c) = stated
    BY <1>1, <1>4, <2>1, ColourOfBus
  <2>6. <<"fill", Printed(c)>> \in RenderAttrs(c, u, u)
    BY <2>5, RenderAttrsAre
  <2>7. <<"fill", stated>> \in e.attrs
    BY <2>4, <2>5, <2>6
  <2> QED
    BY <1>2, <1>4, <2>4, <2>7 DEF AsStated, Distinct
<1> QED
  BY <1>1, <1>5, <1>6

\* The labels of the stop.
LEMMA StopLabelAsStated ==
  ASSUME NEW doc \in Documents, Outcome(doc) = "parsed", NEW e,
         LET s == RenderSettings(doc) IN
         \/ e = GetStopLabel(s, "background", Background(s))
         \/ e = GetStopLabel(s, "name", RenderAttrs(<<"string", "black">>, Unset, Unset))
  PROVE  AsStated(doc, e)
<1>1. PICK s : s = RenderSettings(doc)
  OBVIOUS
<1>2. "stop_label_font_size" \in FontSize /\ "stop_label_offset" \in Offset
  BY DEF FontSize, Offset
<1>3. CASE e = GetStopLabel(s, "background", Background(s))
  <2>1. PICK attrs : attrs = Background(s)
    OBVIOUS
  <2>2. PICK c, w : c = s["underlayer_color"] /\ w = <<s["underlayer_width"]>>
    OBVIOUS
  <2>3. attrs = RenderAttrs(c, c, w)
    BY <2>1, <2>2 DEF Background
  <2>4. e = Text("background", 0, RenderSettings(doc)["stop_label_offset"],
                 RenderSettings(doc)["stop_label_font_size"], Unset, RenderAttrs(c, c, w))
    BY <1>1, <1>3, <2>1, <2>3 DEF GetStopLabel
  <2>5. /\ e.what = "background" /\ e.bus = 0 /\ Distinct(e.attrs)
        /\ RenderAttrs(c, c, w) \subseteq e.attrs
        /\ doc["stop_label_font_size"].int >= 0 => <<"font-size", <<doc["stop_label_font_size"].int>>>> \in e.attrs
        /\ <<"dx", <<AsDouble(doc["stop_label_offset"].array[1])>>>> \in e.attrs
        /\ <<"dy", <<AsDouble(doc["stop_label_offset"].array[2])>>>> \in e.attrs
    <3>1. LabelOf(doc, "stop_label_font_size", "stop_label_offset", "background", 0, RenderAttrs(c, c, w), e)
      BY <1>2, <2>4, LabelAsStated
    <3> QED
      BY <3>1 DEF LabelOf
  <2>6. {<<"fill", StatedColor(doc["underlayer_color"])>>,
         <<"stroke", StatedColor(doc["underlayer_color"])>>,
         <<"stroke-width", <<AsDouble(doc["underlayer_width"])>>>>} \subseteq attrs
    BY <1>1, <2>1, BackgroundAsStated
  <2> QED
    BY <2>3, <2>5, <2>6 DEF AsStated, Distinct
<1>4. CASE e = GetStopLabel(s, "name", RenderAttrs(<<"string", "black">>, Unset, Unset))
  <2>1. PICK c : c = <<"string", "black">>
    OBVIOUS
  <2>2. PICK u : u = Unset
    OBVIOUS
  <2>3. e = Text("name", 0, RenderSettings(doc)["stop_label_offset"],
                 RenderSettings(doc)["stop_label_font_size"], Unset, RenderAttrs(c, u, u))
    BY <1>1, <1>4, <2>1, <2>2 DEF GetStopLabel
  <2>4. /\ e.what = "name" /\ e.bus = 0 /\ Distinct(e.attrs)
        /\ RenderAttrs(c, u, u) \subseteq e.attrs
        /\ doc["stop_label_font_size"].int >= 0 => <<"font-size", <<doc["stop_label_font_size"].int>>>> \in e.attrs
        /\ <<"dx", <<AsDouble(doc["stop_label_offset"].array[1])>>>> \in e.attrs
        /\ <<"dy", <<AsDouble(doc["stop_label_offset"].array[2])>>>> \in e.attrs
    <3>1. LabelOf(doc, "stop_label_font_size", "stop_label_offset", "name", 0, RenderAttrs(c, u, u), e)
      BY <1>2, <2>3, LabelAsStated
    <3> QED
      BY <3>1 DEF LabelOf
  <2> QED
    BY <2>4 DEF AsStated, Distinct
<1> QED
  BY <1>1, <1>3, <1>4

\* The circle of the stop has each attribute once, and the radius stated.
LEMMA CircleAsStated ==
  ASSUME NEW doc
  PROVE  AsStated(doc, Circle(RenderSettings(doc)))
<1> DEFINE radius == <<AsDouble(doc["stop_radius"])>>
<1>1. PICK s, e : s = RenderSettings(doc) /\ e = Circle(s)
  OBVIOUS
<1>2. PICK white : white = <<"string", "white">>
  OBVIOUS
<1>3. PICK attrs : attrs = RenderAttrs(white, Unset, Unset)
  OBVIOUS
<1>4. <<s["stop_radius"]>> = radius
  BY <1>1, ReadOf DEF Number
<1>5. /\ e.what = "circle"
      /\ e.attrs = Attribute("r", radius) \cup attrs
  BY <1>1, <1>2, <1>3, <1>4 DEF Circle
<1>6. Attribute("r", radius) = {<<"r", radius>>}
  BY DEF Attribute, Unset
<1>7. Distinct(attrs)
  BY <1>3, RenderAttrsDistinct
<1>8. ASSUME NEW a \in attrs PROVE a[1] # "r"
  <2>1. PICK f, g : f = Printed(white) /\ g = Printed(Unset)
    OBVIOUS
  <2>2. \A c \in attrs :
          \/ c = <<"fill", f>> \/ c = <<"stroke", g>>
          \/ c = <<"stroke-width", Unset>> \/ c = <<"stroke-linecap", <<"round">>>>
          \/ c = <<"stroke-linejoin", <<"round">>>>
    BY <1>3, <2>1, RenderAttrsAre
  <2> QED
    BY <1>8, <2>2
<1>9. Distinct(e.attrs)
  BY <1>5, <1>6, <1>7, <1>8 DEF Distinct
<1>10. AsStated(doc, e)
  BY <1>5, <1>6, <1>9 DEF AsStated, Distinct
<1> QED
  BY <1>1, <1>10

\* Settings are functions on their members.
LEMMA ReadIsFunction ==
  ASSUME NEW doc
  PROVE  \E T : RenderSettings(doc) \in [Member -> T]
<1>1. PICK s : s = RenderSettings(doc)
  OBVIOUS
<1>2. PICK T : T = {s[m] : m \in Member}
  OBVIOUS
<1>3. \A m \in Member : s[m] \in T
  BY <1>2
<1>4. s \in [Member -> T]
  BY <1>1, <1>3, Zenon DEF RenderSettings
<1> QED
  BY <1>1, <1>4

LEMMA LoadedIsFunction ==
  ASSUME NEW p
  PROVE  \E T : RenderSettingsFromProto(p) \in [Member -> T]
<1>1. PICK s : s = RenderSettingsFromProto(p)
  OBVIOUS
<1>2. PICK T : T = {s[m] : m \in Member}
  OBVIOUS
<1>3. \A m \in Member : s[m] \in T
  BY <1>2
<1>4. s \in [Member -> T]
  BY <1>1, <1>3, Zenon DEF RenderSettingsFromProto
<1> QED
  BY <1>1, <1>4

\* The map looks as the document states: what is drawn is what the document
\* says, after it went through the settings of make_base, the base file and
\* the settings of process_requests.
THEOREM MapLooksAsStated == Spec => []MapAsStated
<1>1. ASSUME StyleInv PROVE MapAsStated
  <2> SUFFICES ASSUME step = "drawn", document # Absent, whole = 14 PROVE MapAsStated
    BY FieldList DEF MapAsStated
  <2>1. document \in Documents /\ Outcome(document) = "parsed"
    BY <1>1 DEF StyleInv, Begun
  <2>2. /\ settings = RenderSettingsFromProto(file) /\ map = Elements(settings)
        /\ \A n \in 1 .. 14 : n <= whole => file[n] = RenderSettingsToProto(Made)[n]
        /\ ~(Buses > 0 /\ settings["color_palette"] = <<>>)
    BY <1>1 DEF StyleInv
  <2>3. PICK s : s = RenderSettings(document)
    OBVIOUS
  <2>4. Made = s
    BY <2>3 DEF Made
  <2>5. Plausible(s)
    BY <2>1, <2>3, ParsedIsPlausible
  <2>6. ASSUME NEW m \in Member PROVE settings[m] = s[m]
    <3>1. \A n \in DOMAIN Fields : Fields[n] = m => file[n] = RenderSettingsToProto(s)[n]
      BY <2>2, <2>4, FieldList
    <3> QED
      BY <2>2, <2>5, <3>1, MemberComesBack
  <2>7. settings = s
    <3>1. PICK S : settings \in [Member -> S]
      BY <2>2, LoadedIsFunction
    <3>2. PICK T : s \in [Member -> T]
      BY <2>3, ReadIsFunction
    <3> QED
      BY <2>6, <3>1, <3>2
  <2>8. map = Elements(s) /\ ~(Buses > 0 /\ s["color_palette"] = <<>>)
    BY <2>2, <2>7
  <2>9. ASSUME NEW e \in map PROVE AsStated(document, e)
    <3>1. \/ \E n \in 1 .. Buses : e = Polyline(s, n)
          \/ \E n \in 1 .. Buses : e = GetBusLabel(s, n, "background", Background(s))
          \/ \E n \in 1 .. Buses : e = GetBusLabel(s, n, "name", RenderAttrs(Colour(s, n), Unset, Unset))
          \/ e = Circle(s)
          \/ e = GetStopLabel(s, "background", Background(s))
          \/ e = GetStopLabel(s, "name", RenderAttrs(<<"string", "black">>, Unset, Unset))
      BY <2>8, <2>9 DEF Elements
    <3>2. ASSUME NEW n \in 1 .. Buses PROVE s["color_palette"] # <<>>
      BY <2>8, <3>2, BusesAssumption
    <3>3. ASSUME NEW n \in 1 .. Buses, e = Polyline(s, n) PROVE AsStated(document, e)
      BY <2>1, <2>3, <3>2, <3>3, LineAsStated
    <3>4. ASSUME NEW n \in 1 .. Buses,
                 \/ e = GetBusLabel(s, n, "background", Background(s))
                 \/ e = GetBusLabel(s, n, "name", RenderAttrs(Colour(s, n), Unset, Unset))
          PROVE  AsStated(document, e)
      BY <2>1, <2>3, <3>2, <3>4, BusLabelAsStated
    <3>5. CASE e = Circle(s)
      BY <2>3, <3>5, CircleAsStated
    <3>6. CASE \/ e = GetStopLabel(s, "background", Background(s))
               \/ e = GetStopLabel(s, "name", RenderAttrs(<<"string", "black">>, Unset, Unset))
      BY <2>1, <2>3, <3>6, StopLabelAsStated
    <3> QED
      BY <3>1, <3>3, <3>4, <3>5, <3>6
  <2> QED
    BY <2>9 DEF MapAsStated, AsStated
<1> QED
  BY <1>1, StyleInvHolds, PTL
=============================================================================
