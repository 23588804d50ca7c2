------------------------------ MODULE MapStyle ------------------------------
(***************************************************************************)
(* The look of the map: render_settings of the base document, read by      *)
(* JsonReader, kept in the base file, and drawn as the attributes of SVG   *)
(* elements.  Where things are drawn is in MapRenderer.                    *)
(*                                                                         *)
(* JSON nodes are records with one field, as in JsonParser; a double is a  *)
(* whole number here.  A colour is a sequence: "string", "rgb" or "rgba"   *)
(* and its parts.                                                          *)
(***************************************************************************)
EXTENDS Integers, Sequences, FiniteSets, SequencesExt

CONSTANTS
    Documents,  \* render_settings as functions on their members
    Absent,     \* a document without render_settings
    Buses,      \* how many buses with a route are drawn
    ByteSize,   \* 2^8, the range of uint8_t
    WordSize,   \* 2^32, the range of uint32
    Part        \* what is left of a colour's name that is cut off

ASSUME BusesAssumption == Buses \in Nat
ASSUME SizeAssumption == ByteSize \in Nat \ {0} /\ WordSize \in Nat \ {0} /\ WordSize % 2 = 0

VARIABLES
    step,       \* the last step that was taken
    document,   \* render_settings of the document, or Absent
    settings,   \* settings_ of the renderer
    file,       \* pb3::RenderSettings
    whole,      \* how many fields of file are whole
    map         \* the elements drawn

vars == <<step, document, settings, file, whole, map>>

-----------------------------------------------------------------------------
(* json_reader.cpp *)

IsInt(node) == "int" \in DOMAIN node
IsDouble(node) == DOMAIN node \cap {"int", "double"} # {}
IsArray(node) == "array" \in DOMAIN node

\* What the parser makes: ints are of 32 bits, arrays are lists of nodes.
IsNode(node) ==
    /\ IsInt(node) => node.int \in -(WordSize \div 2) .. WordSize \div 2 - 1
    /\ IsArray(node) => node.array \in Seq(Range(node.array))
ASSUME DocumentsAssumption ==
    \A doc \in Documents : \A m \in DOMAIN doc :
        /\ IsNode(doc[m])
        /\ IsArray(doc[m]) => \A k \in DOMAIN doc[m].array : IsNode(doc[m].array[k])

AsDouble(node) == IF IsInt(node) THEN node.int ELSE node.double

Uint8(n) == n % ByteSize

\* Mutant: a fourth number is not looked at.
ParseColorRgb(node) ==
    IF "string" \in DOMAIN node THEN <<"string", node.string>>
    ELSE <<"rgb">> \o [n \in 1 .. 3 |-> Uint8(node.array[n].int)]

ParseColor(node) ==
    IF "string" \in DOMAIN node THEN <<"string", node.string>>
    ELSE LET rgb == [n \in 1 .. 3 |-> Uint8(node.array[n].int)] IN
         IF Len(node.array) = 3 THEN <<"rgb">> \o rgb
         ELSE <<"rgba">> \o rgb \o <<AsDouble(node.array[4])>>

IsColor(node) ==
    \/ "string" \in DOMAIN node
    \/ /\ IsArray(node) /\ Len(node.array) \in {3, 4}
       /\ \A n \in 1 .. 3 : IsInt(node.array[n])
       /\ \A n \in 4 .. Len(node.array) : IsDouble(node.array[n])

Number == {"width", "height", "padding", "line_width", "stop_radius", "underlayer_width"}
FontSize == {"bus_label_font_size", "stop_label_font_size"}
Offset == {"bus_label_offset", "stop_label_offset"}
Member == Number \cup FontSize \cup Offset \cup {"underlayer_color", "color_palette"}

\* The members in the order they are read; the offsets come twice, first as
\* arrays and then for their numbers.
Reads ==
    <<"bus_label_offset", "stop_label_offset", "color_palette",
      "width", "height", "padding", "line_width", "stop_radius",
      "bus_label_font_size", "bus_label_offset", "stop_label_font_size", "stop_label_offset",
      "underlayer_color", "underlayer_width">>

\* What reading a member ends in: an array that is too short for an offset is
\* read beyond its end.
Read(doc, n) ==
    LET m == Reads[n]
        numbers == doc[m].array
        good == CASE m \in Number -> IsDouble(doc[m])
                  [] m \in FontSize -> IsInt(doc[m])
                  [] m = "underlayer_color" -> IsColor(doc[m])
                  [] m = "color_palette" -> IsArray(doc[m]) /\ \A k \in DOMAIN numbers : IsColor(numbers[k])
                  [] m \in Offset -> IsArray(doc[m])
    IN  IF m \notin DOMAIN doc \/ ~good THEN "throws"
        ELSE IF m \notin Offset \/ n <= 2 THEN "fine"
        ELSE IF \E k \in 1 .. 2 : k <= Len(numbers) /\ ~IsDouble(numbers[k]) THEN "throws"
        ELSE IF Len(numbers) < 2 THEN "undefined" ELSE "fine"

Outcome(doc) ==
    LET wrong == {n \in DOMAIN Reads : Read(doc, n) # "fine"} IN
    IF wrong = {} THEN "parsed" ELSE Read(doc, Min(wrong))

RenderSettings(doc) ==
    [m \in Member |->
       CASE m \in Number -> AsDouble(doc[m])
         [] m \in FontSize -> doc[m].int
         [] m \in Offset -> [n \in 1 .. 2 |-> AsDouble(doc[m].array[n])]
         [] m = "underlayer_color" -> ParseColor(doc[m])
         [] m = "color_palette" -> [n \in DOMAIN doc[m].array |-> ParseColor(doc[m].array[n])]]

NoneColor == <<"string", "none">>
NoSettings ==
    [m \in Member |-> CASE m \in Number \cup FontSize -> 0 [] m \in Offset -> <<0, 0>>
                        [] m = "underlayer_color" -> NoneColor [] m = "color_palette" -> <<>>]

-----------------------------------------------------------------------------
(* serialization.cpp *)

\* The fields of the message by number, with the member each is a part of.
Fields ==
    <<"width", "height", "padding", "line_width", "stop_radius",
      "bus_label_font_size", "bus_label_offset", "bus_label_offset",
      "stop_label_font_size", "stop_label_offset", "stop_label_offset",
      "underlayer_color", "underlayer_width", "color_palette">>
PartOf(n) == IF n > 1 /\ Fields[n - 1] = Fields[n] THEN 2 ELSE 1

Uint32(n) == n % WordSize
Int32(n) == IF n < WordSize \div 2 THEN n ELSE n - WordSize

\* Mutant: the opacity is not saved.
ColorToProtoOpaque(color) == [c \in {color[1]} |-> SubSeq(color, 2, IF Len(color) > 4 THEN 4 ELSE Len(color))]

\* A message with one of three fields.
ColorToProto(color) == [c \in {color[1]} |-> Tail(color)]

ColorFromProto(proto) ==
    LET parts(c, n) == [k \in 1 .. n |-> IF k \in DOMAIN proto[c] THEN proto[c][k] ELSE 0] IN
    CASE "rgba" \in DOMAIN proto -> <<"rgba">> \o parts("rgba", 4)
      [] "rgb" \in DOMAIN proto -> <<"rgb">> \o parts("rgb", 3)
      [] "string" \in DOMAIN proto -> <<"string">> \o proto.string
      [] OTHER -> <<"string", "">>

RenderSettingsToProto(s) ==
    [n \in DOMAIN Fields |->
       LET m == Fields[n] IN
       CASE m \in Number -> s[m]
         [] m \in FontSize -> Uint32(s[m])
         [] m \in Offset -> s[m][PartOf(n)]
         [] m = "underlayer_color" -> ColorToProto(s[m])
         [] m = "color_palette" -> [k \in DOMAIN s[m] |-> ColorToProto(s[m][k])]]

\* A field that is not there.
Missing(n) == IF Fields[n] \in {"underlayer_color", "color_palette"} THEN <<>> ELSE 0

\* What may be read of a colour, and of a field, that the file breaks off in.
TornColors(proto) ==
    {<<>>} \cup UNION {{[c \in {case} |-> SubSeq(proto[case], 1, n)] : n \in 0 .. Len(proto[case]) - 1} :
                         case \in DOMAIN proto \ {"string"}}
           \cup {[string |-> <<Part>>] : case \in DOMAIN proto \cap {"string"}}
TornField(value, n) ==
    {Missing(n)}
    \cup (IF Fields[n] = "underlayer_color" THEN TornColors(value) ELSE {})
    \cup (IF Fields[n] = "color_palette"
          THEN UNION {{Append(SubSeq(value, 1, k - 1), c) : c \in TornColors(value[k])} : k \in DOMAIN value}
               \cup {SubSeq(value, 1, k) : k \in 0 .. Len(value) - 1}
          ELSE {})

RenderSettingsFromProto(proto) ==
    [m \in Member |->
       LET n == CHOOSE k \in DOMAIN Fields : Fields[k] = m /\ PartOf(k) = 1 IN
       CASE m \in Number -> proto[n]
         [] m \in FontSize -> Int32(proto[n])
         [] m \in Offset -> <<proto[n], proto[n + 1]>>
         [] m = "underlayer_color" -> ColorFromProto(proto[n])
         [] m = "color_palette" -> [k \in DOMAIN proto[n] |-> ColorFromProto(proto[n][k])]]

-----------------------------------------------------------------------------
(* svg.cpp and map_renderer.cpp *)

\* What a colour is printed as.
Printed(color) == IF color[1] = "string" THEN Tail(color) ELSE color

Unset == <<>>
Attribute(name, value) == IF value = Unset THEN {} ELSE {<<name, value>>}

RenderAttrs(fill, stroke, width) ==
    Attribute("fill", IF fill = Unset THEN Unset ELSE Printed(fill))
    \cup Attribute("stroke", IF stroke = Unset THEN Unset ELSE Printed(stroke))
    \cup Attribute("stroke-width", width)
    \cup (IF width = Unset THEN {}
          ELSE Attribute("stroke-linecap", <<"round">>) \cup Attribute("stroke-linejoin", <<"round">>))

\* The palette is taken round and round.
Colour(s, n) == s["color_palette"][((n - 1) % Len(s["color_palette"])) + 1]

Polyline(s, n) ==
    [what |-> "line", bus |-> n, attrs |-> RenderAttrs(NoneColor, Colour(s, n), <<s["line_width"]>>)]

Circle(s) ==
    [what |-> "circle", bus |-> 0,
     attrs |-> Attribute("r", <<s["stop_radius"]>>) \cup RenderAttrs(<<"string", "white">>, Unset, Unset)]

Text(what, bus, offset, size, weight, attrs) ==
    [what |-> what, bus |-> bus,
     attrs |-> attrs \cup Attribute("dx", <<offset[1]>>) \cup Attribute("dy", <<offset[2]>>)
                     \cup Attribute("font-size", <<Uint32(size)>>)
                     \cup Attribute("font-family", <<"Verdana">>) \cup Attribute("font-weight", weight)]

Background(s) == RenderAttrs(s["underlayer_color"], s["underlayer_color"], <<s["underlayer_width"]>>)

GetBusLabel(s, n, what, attrs) ==
    Text(what, n, s["bus_label_offset"], s["bus_label_font_size"], <<"bold">>, attrs)
GetStopLabel(s, what, attrs) ==
    Text(what, 0, s["stop_label_offset"], s["stop_label_font_size"], Unset, attrs)

\* The elements of a map with one stop.
Elements(s) ==
    {Polyline(s, n) : n \in 1 .. Buses}
    \cup {GetBusLabel(s, n, "background", Background(s)) : n \in 1 .. Buses}
    \cup {GetBusLabel(s, n, "name", RenderAttrs(Colour(s, n), Unset, Unset)) : n \in 1 .. Buses}
    \cup {Circle(s), GetStopLabel(s, "background", Background(s)),
          GetStopLabel(s, "name", RenderAttrs(<<"string", "black">>, Unset, Unset))}

-----------------------------------------------------------------------------

Init ==
    /\ step = "start" /\ document \in Documents \cup {Absent}
    /\ settings = NoSettings /\ file = <<>> /\ whole = 0 /\ map = {}

\* The renderer gets all the settings or, if reading them throws, none.
ParseRenderSettings ==
    /\ step = "start"
    /\ step' = IF document = Absent THEN "parsed" ELSE Outcome(document)
    /\ settings' = IF document # Absent /\ step' = "parsed" THEN RenderSettings(document) ELSE settings
    /\ UNCHANGED <<document, file, whole, map>>

SerializeRenderSettings ==
    /\ step = "parsed" /\ step' = "saved"
    /\ file' = RenderSettingsToProto(settings) /\ whole' = Len(Fields)
    /\ UNCHANGED <<document, settings, map>>

\* The writer is killed, or the disk is full, before the end of the message.
CutOff ==
    /\ step = "saved" /\ step' = "cut"
    /\ \E n \in DOMAIN Fields : \E torn \in TornField(file[n], n) :
         /\ whole' = n - 1
         /\ file' = [k \in DOMAIN file |-> IF k < n THEN file[k] ELSE IF k = n THEN torn ELSE Missing(k)]
    /\ UNCHANGED <<document, settings, map>>

DeserializeRenderSettings ==
    /\ step \in {"saved", "cut"} /\ step' = "loaded"
    /\ settings' = RenderSettingsFromProto(file)
    /\ UNCHANGED <<document, file, whole, map>>

\* An index modulo an empty palette is undefined.
Render ==
    /\ step = "loaded"
    /\ IF Buses > 0 /\ settings["color_palette"] = <<>>
       THEN step' = "undefined" /\ UNCHANGED map
       ELSE step' = "drawn" /\ map' = Elements(settings)
    /\ UNCHANGED <<document, settings, file, whole>>

Next ==
    \/ ParseRenderSettings \/ SerializeRenderSettings \/ CutOff
    \/ DeserializeRenderSettings \/ Render

Spec == Init /\ [][Next]_vars

-----------------------------------------------------------------------------
(* Properties *)

\* What the document says, read off its nodes.
StatedColor(node) ==
    IF "string" \in DOMAIN node THEN <<node.string>>
    ELSE <<IF Len(node.array) = 3 THEN "rgb" ELSE "rgba">>
         \o [n \in DOMAIN node.array |-> IF n = 4 THEN AsDouble(node.array[n])
                                         ELSE node.array[n].int % ByteSize]

\* process_requests gets the settings that make_base read.  From a file cut
\* off in them it gets a beginning: of the members before the cut their
\* values, of those behind it zeros, no name and no palette, which is not
\* what settings are before they are set (svg::NoneColor).
SettingsSurvive ==
    step = "loaded" =>
        LET made == IF document = Absent THEN NoSettings ELSE RenderSettings(document)
            nothing == [NoSettings EXCEPT !["underlayer_color"] = <<"string", "">>]
            places(m) == {n \in DOMAIN Fields : Fields[n] = m}
        IN  \A m \in Member :
              /\ (\A n \in places(m) : n <= whole) => settings[m] = made[m]
              /\ (\A n \in places(m) : n > whole + 1) => settings[m] = nothing[m]

\* The map that is printed looks as the document states, from the base file
\* and all: the line and the name of a bus in the same colour of the palette,
\* red, green and blue taken modulo 256, an opacity where one is given, and
\* everything else of the size and on the background that is stated.  No
\* element has an attribute twice.
MapAsStated ==
    step = "drawn" /\ document # Absent /\ whole = Len(Fields) =>
        LET palette == document["color_palette"].array
            colour(n) == StatedColor(palette[((n - 1) % Len(palette)) + 1])
            under == StatedColor(document["underlayer_color"])
        IN  \A e \in map :
              /\ \A a, b \in e.attrs : a[1] = b[1] => a = b
              /\ e.what = "line" =>
                   {<<"fill", <<"none">>>>, <<"stroke", colour(e.bus)>>,
                    <<"stroke-width", <<AsDouble(document["line_width"])>>>>} \subseteq e.attrs
              /\ e.what = "name" /\ e.bus > 0 => <<"fill", colour(e.bus)>> \in e.attrs
              /\ e.what = "circle" => <<"r", <<AsDouble(document["stop_radius"])>>>> \in e.attrs
              /\ e.what = "background" =>
                   {<<"fill", under>>, <<"stroke", under>>,
                    <<"stroke-width", <<AsDouble(document["underlayer_width"])>>>>} \subseteq e.attrs
              /\ e.what \in {"name", "background"} =>
                   LET bus == e.bus > 0
                       size == document[IF bus THEN "bus_label_font_size" ELSE "stop_label_font_size"].int
                       offset == document[IF bus THEN "bus_label_offset" ELSE "stop_label_offset"].array
                   IN  /\ size >= 0 => <<"font-size", <<size>>>> \in e.attrs
                       /\ {<<"dx", <<AsDouble(offset[1])>>>>, <<"dy", <<AsDouble(offset[2])>>>>} \subseteq e.attrs
=============================================================================
