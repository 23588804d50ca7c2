# A formal model of the transport catalogue

The program keeps the stops and buses of a city and answers questions about
them. It is run in two modes. `make_base` reads a JSON document, builds the
catalogue, the graph of all rides and the table of all shortest routes, and
writes the three with the settings to one file. `process_requests` reads the
file back and answers the requests of a second document: a bus, a stop, the
map, a route. One thread does all of it; what makes it hard is that

- a great deal of state is tied together by positions, pointers and ids alone
  (edges and their buses, vertices and stops, entries of the table and edges,
  stops and indices in the file), and is taken apart and put together again in
  another process;
- a table is read through references while it is being written;
- the file is what is left of a run that may have been killed, or may have run
  out of disk, at any moment, and none of the program's file operations is
  checked;
- input is processed out of order, with first-one-wins rules and names that
  nobody declared;
- an exception is caught nowhere and ends the run;
- settings left out are zeros, by which the program then divides, and what is
  printed goes into a JSON text that has no word for the result.

This directory holds the TLA+ modules that model these parts, the TLC
configurations that check them and proofs for TLAPS. `PROJECT.json` lists the
components, the runs, for every definition the lines it models, the hazards of
the code with the properties that look at them, for every property a mutation
of the model that breaks it, and the theorems.

## Inventory

| component | state | operations | what makes it correct |
|---|---|---|---|
| runs (`main.cpp`) | the base file, the memory of the current run | the steps of the two modes | failures leave the file alone; answers are those of the base that was made; what a torn file can mislead is known |
| `TransportCatalogue` | stops, buses, index of buses by stop, distances, bus of each edge | Add/Get, SetDistance, SetBusForEdge | index and routes say the same; the first of a name stays |
| `JsonReader`, loading | buses and distances put aside | ParseBaseRequests, UpdateDistances, UpdateRoutes | the base is what the document declares, in whatever order |
| `RequestHandler` | graph, stop/vertex maps | constructor, queries | each ride offered once, at its price, under its bus; the graph serves a passenger exactly |
| `Router` (`router.h`, `graph.h`) | table of entries | constructor, BuildRoute | entries are optimal, itineraries exist, connect and add up |
| `JsonReader`, answering | responses | ParseStatRequests, WriteInfo | every answerable request is answered |
| serializer, deserializer | message, file | SerializeTo, DeserializeFrom | a complete file loses nothing; a cut one does not mislead |
| `MapRenderer` | bounds, zoom, colour counters | Render and its four loops | names and lines agree; everything in the frame |
| `json::Builder` | document, stack of pointers, key | six methods, four contexts | throws exactly when JSON has no such call; builds what is spelt |
| `json` parser and printer | stream | Load, Print | all JSON is loaded as it is spelled, little else is; a cut text is refused; what is printed loads back |
| settings and `svg` | render settings; attributes of shapes | ParseRenderSettings, ColorToProto, ColorFromProto, Render | the map looks as the document states, through the file and all |
| `geo`, `ranges`, `profile`, `transport_router.cpp` | - | - | a formula on doubles, helpers, and text queries that nothing calls; not modelled |

Components call each other directly: loading fills the catalogue, the handler
reads it and fills the graph and the bus list of the catalogue, the router
reads the graph, the serializer reads all of them. In the other mode the
deserializer fills catalogue, graph and table, a second constructor of the
handler numbers the vertices anew, and the answers are put together with
`json::Builder`. The file is the only thing two runs share.

## Modules

    TransportCatalogue          the store, operators on one value
    +- CatalogueProofs          lemmas for the proofs of all that follow
    +- BaseRequests             documents, and what they declare
    |  +- DeclaredBase          abstract: loading in one step
    |  +- BaseLoader            ParseBaseRequests          (MCBaseLoader)
    |     +- BaseLoaderProofs
    +- RouteGraph               RequestHandler constructor (MCRouteGraph)
    |  +- Passengers            what one can travel, stop by stop
    |     +- RouteGraphProofs
    +- MapRenderer              MapRenderer::Render        (MCMapRenderer)
    |  +- MapRendererProofs
    +- CatalogueFile            serialization.cpp
       +- StatRequests          answers
          +- BaseLifecycle      main.cpp, runs over a file (MCBaseLifecycle)
             +- LifecycleProofs what a cut file holds; runs
    Router                      router.h                   (MCRouter)
    +- RouterProofs
    UnsetVelocity               router.h without numbers   (MCUnsetVelocity)
    JsonParser, JsonPrinter     json.cpp
    +- JsonStream               texts that arrive          (MCJsonStream)
    MapStyle                    render_settings to svg     (MCMapStyle)
    +- MapStyleProofs
    JsonBuilder                 json_builder.cpp           (JsonText)
    +- JsonBuilderProofs

**TransportCatalogue.** A catalogue is a record of the code's members;
AddStop, AddBus, SetDistance and SetBusForEdge return the next one. Names are
numbers in the order of the strings. A `StopPtr` is the name of its stop and
`NoStop` is null: containers hold one object per name and never move it. An
ordered container is iterated over as `Ascending` lists its elements: the n-th
is the one with n - 1 before it.

**BaseLoader.** One step per round of every loop: a request read, a distance
stored (the stops in any order: the code iterates over a hash map of pointers),
a stop of a bus looked up, a bus added. `DeclaredBase` takes one step, to the
catalogue the document declares; `BaseRequests` defines that one as a reader of
the document expects it, with no order of processing (`Declared`).

**RouteGraph.** The three nested loops of the constructor, one step per edge,
end of the inner loop and bus. Weights are kept in units in which a metre takes
one, so that they are integers. `Passengers` is the other view of the same
catalogue: one stands at a stop or sits in a bus, boards, rides on by one stop
and leaves, and everybody gets out where a bus turns.

**Router.** The constructor with one step for each row entered, edge scanned
and cell relaxed, the table being read at every step, as the references of the
code do; BuildRoute with one step per hop. Edge ids count from 1 and 0 is
`nullopt`. A negative weight ends in phase `error`.

**CatalogueFile.** A base is catalogue, stops by vertex, edges, table and
settings; its file is the sequence of the elements of the message in
field-number order, each a record in which pointers are indices. The stops are
numbered once by the handler that makes the graph (`IndexStops`) and once more,
from what the file holds, by the handler that answers (`IndexStopsAgain`). Of
render_settings a base keeps whether they are those of the document, and how
many colours the palette has, for that decides whether a map can be drawn. `Torn` gives what the parser keeps of an
element within which the file ends: the fields before the cut, the rest zero.
uint32 fields are taken modulo `WordSize` and cast back, and the empty
predecessor is -1.

**StatRequests.** Responses as functions of a base, each with an outcome:
`answered`, `throws`, `undefined` where the code dereferences an empty optional
or divides by the size of an empty palette (there are no render_settings, or
they have `"color_palette": []`), or `circles` where the walk of BuildRoute
comes by an edge again and collects edges until memory is used up.

**BaseLifecycle.** Runs of both modes, one after the other: building the
router, serializing, opening (which truncates), writing element by element,
closing; reading, parsing, answering, printing. Exceptions, crashes of
undefined behaviour, kills and a full disk end a run at every step where they
can. `file` survives. `before` and `source` are history variables.

**MapRenderer.** The four loops of Render, one step per stop or bus; points are
multiplied by the denominator of the zoom and so stay integers. `Smallest` is
zero, because `numeric_limits<double>::min()` is the smallest positive double.

**JsonBuilder.** The nodes of the document in order of their making, the stack
as the numbers of the nodes pointed to. A call is made on the builder or on the
context that the last call returned. `JsonText` reads the sequence of calls as
a text, matching brackets by counting, and is the reference.

**JsonParser, JsonPrinter.** Load and Print as operators: each `Load...` reads
a sequence of characters from a position and returns the node with the position
behind it, or the position where it throws. A node is a record with one field
named for the alternative of the variant. Whether a literal fits an int or a
double is for the constants `Stoi` and `Stod` to say.

**JsonStream.** Standard input: pieces of text arrive as long as Load is still
reading, and the input may end after each of them, or it is any text of a given
document. `Texts` spells documents and is the reference; it parses nothing.

**MapStyle.** render_settings on its way from the document into the renderer,
the message, the file (whole, or cut off in a field), the renderer of the next
run and the attributes of the elements drawn. A colour is a sequence that
begins with its alternative. Reading a member ends `fine`, `throws` or
`undefined` (an offset array read beyond its end), in the order of the code.

**UnsetVelocity.** The algorithm of Router once more as a fold over the
loops, for weights that are infinite or NaN. Rides are added one by one, the
table and every walk are computed in every state.

## Runs

All runs finish within a minute on two workers.

| run | what it shows | bounds |
|---|---|---|
| `RouterSimple` | the inductive invariant, with the types and predecessors it contains, optimality and the walk, in every intermediate state | all simple graphs of 3 vertices, weights 0, 1, 3. Every relation between a direct edge and a detour occurs, equal and zero weights included |
| `RouterMulti` | negative weights, stable pivot, walks that end, and answers compared with all walks where edges are parallel | up to 2 edges anywhere on 3 vertices: parallel, loops, all orders, weights -1, 0, 2 |
| `RouterRing` | answers cost what the cheapest of all walks costs (`WalkCosts`, the reference); itineraries add up and repeat no vertex | 4 vertices on a ring, each edge absent, 0 or 2: routes of three edges, joined in more than one round, and zero cycles. It would deadlock if a walk reached `MaxHops` |
| `BaseLoader` | the inductive invariant, index, routes, and refinement of `DeclaredBase` | all documents of up to 4 of 9 requests, with duplicates, forward references and undeclared names. Two declarations and two uses show each ordering |
| `RouteGraph` | edges, prices, bus ids, and equality with a passenger's own costs | 3 stops, 2 buses over 11 stop lists each, both kinds: empty, single, repeated stops; distances in one direction, both, none; one negative |
| `BaseLifecycle` | consistency of cut files, failures, round trip, no wrong routes, what a torn entry misleads, complete answers | 4 bases that save (palettes of 2 and of no colour, no render_settings, no buses) and 4 documents that fail, 3 lists of requests, a cut in or before every element, runs in any order for ever. Routes walked in circles and out of their row do occur |
| `MapRenderer` | colours, names, frame | 3 stops at every combination of 9 places on both sides of zero, and every pair of 12 bus plans, palette of 2 |
| `JsonStream` | JSON is loaded, loose commas, cut texts, printing | texts of up to 6 of 18 pieces: brackets, quotes, escapes, keys, the characters of numbers (a million texts); documents two containers deep, strings of two characters, every form of number, three kinds of white space |
| `MapStyle` | settings survive the file, the map is as stated | a good document with any 2 of 14 readings replaced, by every kind of colour, values out of range and wrong nodes, or 1 left out; a cut in each field; 4 buses and palettes of 0 to 3 |
| `UnsetVelocity` | routes without times | up to 4 rides on 3 stops, loops and parallel rides, infinite or NaN: every way to reach a stop by two routes, and cycles |
| `JsonBuilder` | exceptions, document, spine, chains | all sequences of 8 accepted calls, two keys: four levels of nesting closed again |

Named bounds: `MaxHops` (hops of a walk; more than any walk takes),
`MaxEdges`, `MaxRequests`, `MaxCalls`, `MaxPieces`. `WordSize` is 64 in place of
2^32 and `ByteSize` 16 in place of 2^8, both small enough that values beyond
them are among the inputs. `MCStoi` takes two digits for an int and `MCStod` one
for a power, so that the texts reach both sides of either limit.

What some of the properties say of the code:

- `CutFileIsConsistent`: protobuf writes fields by number, and the numbers
  happen to be such that what comes later points only at what came before.
- `NeverMisroutes`: on a cut file a route is answered as on the whole file or
  the run throws, with one exception: the row of the table in which the file
  ends. Without the exception TLC finds a wrong route.
- `OnlyTornEntryMisleads`: in that row it is the last entry alone, if it was torn.
  Torn after `has_value` it reads as weight 0 with predecessor 0, which is edge
  0 (-1 is the empty one). A route by it may be wrong, and its walk may go in a
  circle: BuildRoute then never ends. All other routes from that row are those
  of the whole file, or throw, or hop to an entry that is not there, which is
  undefined behaviour.
- `CompleteBaseAnswers`: with a whole file, what keeps a run from answering is an
  unknown stop in a route request, or a map with buses for which there is no
  colour, and nothing else. The second is a remainder by zero, with
  `"color_palette": []` as without any render_settings; the first loses the
  answers to all other requests.
- `ColoursAgree`: covers buses without a route, which Render passes over. In the
  program as it is none comes so far, since a base with one cannot be saved
  (serialization.cpp:167).
- `MapAsStated`: colours, offsets, and all sizes, the radius of the stops' circles
  among them, are as the document states.
- `BuildsWhatIsSpelt`, `ThrowsUnlessJson`, `ChainNeverThrows` hold while no
  key is given twice. After a repeated key `StartDict` opens nothing, and what
  follows goes into the dictionary around it.
- `FillsFrame`: holds for maps that reach north of the equator and east of
  Greenwich; others are drawn smaller than they could be, because the bounds
  start from `numeric_limits<double>::min()`.

- `OnlyCommasAreLoose`: Load takes commas for what is between elements, whether
  they are there or not: `[1 2]`, `[,1]`, `[01]` (two elements) and
  `{"a":1 ,, "b":2}` are taken, `[1,]` is not, and what follows the node is left
  in the stream. Of the escapes of JSON, `\/`, `\b`, `\f` and `\u` are refused,
  so the texts of `JsonIsLoaded` do not use them.
- `PrintLoadsBack`: a double printed without a point comes back as an int, and
  inf and nan make a text that does not load. Both can be answered: a time
  without a velocity, the curvature of a route of length 0.
- `UntimedRoutesLead`: with velocity 0 no entry is ever replaced, and the table
  is then the first route found for each pair: still a route.
- `SettingsSurvive`: from a file cut off in the settings the background has the
  colour "", which is not the `none` of settings that were never set.

No comment or test of the repository says otherwise in any of these cases, so
they are listed here and not as disagreements.

## Fairness

`BaseLoader` and BuildRoute in `Router` are loops of one thread that waits for
nothing: weak fairness of the loop's steps says that the thread goes on. Nobody
need ask for a route, so `Ask` has none. `BaseLifecycle`, `RouteGraph`,
`MapRenderer` and `JsonBuilder` state no liveness: that a `for` loop over a list
ends needs no check. The one loop of a run that may go on for ever is that of
BuildRoute on a torn entry; `StatRequests` has it as the outcome `circles`, and
`OnlyTornEntryMisleads` and `CompleteBaseAnswers` say when it cannot occur.

## Proofs

All leaves are proved by SMT, Zenon or, for temporal steps, LS4. Recursion is
written as recursive functions; that they exist and what they come to is proved
by induction over a set of numbers (the lemma `Induction`, from
well-foundedness), so that sums, concatenations and numbers of rounds of any
length are covered.

The components assume of their inputs what the component before them has been
proved to deliver:

| Assumption | Says | Proved by |
|---|---|---|
| `Resolved` (RouteGraph, BaseLifecycle) | routes call at stored stops; ends and distances are of stored stops or null | `LoadedIsResolved` |
| `Mappable` (MapRenderer) | names and the index belong to the routes; a bus begins and ends at known stops | `LoadedIsMappable`, for documents that declare those ends (`EndsKnown`) |
| `Indexed` (BaseLifecycle, in `AsMade`) | a bus is listed under exactly the stops of its route | `LoadedIsIndexed` |
| `start_stop # NoStop => route # <<>>` (BaseLifecycle, in `AsMade`) | a bus that begins at a known stop calls there | `RoutesAlwaysWellFormed` |
| `Routed` (BaseLifecycle, unless an edge is negative and the router throws) | predecessors in the table are edges and run in no circle | `FinishedTableIsRouted` |

The rest of `AsMade` says what the constructor of the handler does in its first
loop (`IndexStops`), and types: each edge has its bus and begins at a stop
(`GraphStaysAligned`), and the waiting time and the distances are of type int in
the code, so that they fit in one. `MapStyle` assumes the same of the ints of
its documents, and that arrays are lists of nodes.

**CatalogueProofs** has no theorem of its own: facts about sequences, `FlattenSeq`,
`Ascending` (it lists every element of a finite set once and in order),
`Filter`, what is at some positions of a sequence (`Picked`), and what each
operation does to a catalogue.

**RouterProofs**, for every number of vertices and every list of edges, from
the assumptions on the constants in `Router`. `RouterInv` is inductive. The
difficulty is that while vertex m is routed through, the table is partly one
round ahead, so that no statement about shortest paths by rounds holds of it.
What does not change during the round is the cheaper of the direct route and
the detour over m (`Via`). `DetoursInv` states the triangle inequality over all
earlier vertices in those terms, `LastEdgeInv` that an entry is paid for by its
last edge and a route to the tail of it, `RoundInv` that passed cells allow for
the detour; the loop invariants `RowsInv`, `EntriesInv`, `EdgesInv` carry the
initialisation. It follows that the pivot row and column do not move
(`PivotNeverMoves`: entries are non-negative and the diagonal is zero), that
the finished table is optimal (`TableIsOptimal`), that entries only improve
(`RoutesNeverWorsen`, which is proved only: the runs look at what comes of it),
that a negative weight never yields a router, and that BuildRoute's walk is
connected and never meets an empty entry (`HopAlwaysExists`).

None of this keeps the walk from going round for ever: with zero weights the
predecessors could lead in a circle and every entry still be paid for.
`CirclesInv` is the second invariant. A row is `Grounded` if every non-empty set
of vertices has one whose entry has no predecessor or one outside the set. While
vertex m is routed through this is said of what a row is going to be when the
round is over (`Ahead`). `NextRound` is the argument that a round closes no
circle: vertices whose route gets better go on as the row of m does, and a
vertex whose route stays has its predecessor among those whose routes stay.
So no finished row has a circle (`NeverACircle`), BuildRoute follows fewer edges
than there are vertices (`WalkIsShort`, by counting the vertices it has called
at), its answers are paths that repeat no vertex and whose edges add up to the
answer's weight (`AnswersAlwaysAddUp`, by `ItineraryInv`: every edge of an
itinerary is what the row records for its head). `FinishedTableIsRouted` puts
the parts of this that the base file keeps in the words of `CatalogueFile`. `AnswersAlwaysShortest`
compares with all walks: by induction over their edges no walk undercuts the
table (`NoWalkIsCheaper`), and the answer is a walk of fewer than `VertexCount`
edges itself.

**BaseLoaderProofs**, for every set of names and documents: `LoaderInv` adds to
the types, the index and the routes what the loops keep (`LoopInv`): there is no
bus before the stops and distances are done, so that a new stop's empty set in
the index is right; the part of a route that was found calls at stored stops;
and if the stop just read was found, it is the last of that part, from which
the middle of a there-and-back route is its last declared stop. The lemmas about
sequences say what going there and back gives (`ThereAndBack`), those about
the catalogue what each of its operations does to index and routes. It is
assumed that a missing dictionary is no dictionary. `ResolveInv` adds that
distances are put aside for stored stops only and that no name is stored twice;
from it come the three theorems about what was loaded that later proofs assume.

That what was loaded is what the document declares (`LoadedIsDeclared`) takes
`PromiseInv`, which says at every moment which part of it is there. Stops and
buses are those at the positions of their declarations before the place where
the loop is (`Picked`), a bus put aside is at a position from there on
(`BusesMade`), the part of a route that was found is the filtered beginning of
its stops. Of each stop's dictionary the greatest names are left, and for the
others the distance stored is the one the least name of its target was given:
several names have one target only if they were declared nowhere, and then the
order of the names decides what the code stores for the null pointer
(`DictTaken`). A repeated request adds nothing, because the declaration of its
name was handled before (`DeclaredNext`). `LoaderRefinesPromise` maps the steps:
`Finish` is the one step of `DeclaredBase`, and all others are invisible.

**RouteGraphProofs**, for every set of catalogues that are `Resolved`, any
waiting time and any velocity but zero. `GraphInv`: the positions of the two
iterators, the last edge added (from the stop boarded at to the stop before
`to_at`) and the alignment of edges and buses (`GraphStaysAligned`). `OfferInv`:
what has been added is what the reference offers up to the place where the loops
are (`OfferedSoFar`), and the running weight is the metres ridden from the
boarding. The steps of the constructor then move that place along a
concatenation of concatenations, and at its end the graph is the list of offers
(`GraphAlwaysIsOffers`).

`GraphAlwaysServesPassengers` goes on from there. The trips of a network are the
least set that has the empty trip and goes on by every move. One shows that
the trips of a passenger to stops are those along the edges (`SameTrips`): in a
bus he is on a ride that the bus offers, priced so far (`OnBus`), and an edge
is reached by riding its legs one after the other (`SeatIsReached`). The search
with a bounded number of moves then has to find the cheapest of all trips
(`EnoughMoves`): the trip before the last move of a cheapest one is cheapest
itself, so that a round that finds no cheapest trip is the last one
(`NoneMore`), and there are no more of them than places. This needs that no edge
is negative, which is what the router asks for, but not that no leg is.

**LifecycleProofs**, for every set of bases as the program makes them and all
requests. `FileInv` says that a run in progress has not failed, and that until
`make_base` opens the file it is
as the run found it: an exception never costs the earlier base
(`FailuresNeverTouchTheFile`). `SourceInv` says that the file is always a `Cut`
of a message: a beginning of its elements of which the last may be torn.
A message is one block of elements after another, in the order of the field
numbers, so a cut falls into one block: the fields before it are whole, those
behind it empty, and in that field there is some number of whole elements and
perhaps a torn one (`Found`). Torn elements keep the indices of a beginning of
their fields, and what is missing reads as stop 0, which is there if any
bus is. Hence `FilesAreConsistent`: the indices in a cut file are of stops,
buses and rows that are before the cut.

What comes back from a file is in `BaseComesBack`: if the router's field is
there, the catalogue and the edges, which the table was made of, are what they
were (`SameRoutes`); if the settings of routing are whole, the
base is the same (`SameBase`) up to the empty sets of the index, which are not
written. A position survives as the index of its object, a number by the
arithmetic of the cast to uint32 and back (`IntComesBack`), the distances in
whatever order they were written. `SameAnswers` says that nothing in
`StatRequests` can tell such bases apart. `MemoryInv` adds to `SourceInv` that
what a run has in memory is what it read, and that a base with a negative edge
is never written. `CompleteFilesLoseNothing` is then a comparison of bases,
`CutFilesNeverMisroute` one of routes: a route of which every hop is in a whole
row is that of the source, and one that meets the end of the file throws. The
row in which the file ends is a beginning of the one written, but for its last
entry (`RowsBegin`), and a walk in such a row that does not call at that entry is
the walk in the whole row, or hops out (`CutWalk`): `TornEntriesAloneMislead`.
That a route is printed at all needs an end of the walk back along the
predecessors. It ends because a row of the table that is `Routed` has no circle:
`CompleteBasesAlwaysAnswer`.

**MapRendererProofs**, for every catalogue that is `Mappable`, every palette that
is not empty and every frame with room in it. `MapInv` says that the document is
what the loops so far stand for: `Expected` gives, for a number of rounds of
each of the four loops, which labels of each kind there are, `Lists` that they
are there once, `Coloured` and `Backed` that they have the colour of the bus's
place among the routed ones and lie on their own background. `ColoursAlwaysAgree`,
`TerminalsAlwaysLabelled` and `StopsAlwaysOfLines` follow. For the frame the
bounds are minima and maxima of the stops with `Largest` and `Smallest`, and
the zoom is a fraction chosen by cross-multiplication; `AlwaysOnCanvas` and
`AlwaysFillsFrame` are the inequalities between products that come of it.

**JsonBuilderProofs**, for any keys, values and number of calls: `BuilderInv`
adds to the type invariant that the stack ascends (a container is newer than
the one below it, so that an insertion on top disturbs nothing below). It
follows that the stack leads along last items (the pointers into vectors stay
valid) and that keys are unique.

The other theorems compare the builder with the text of the calls so far, in
which `JsonText` finds by counting brackets what is open at the end, what is
around a call and which item of it a value is. `CallsInv` ties the two
together: each node has a call at which its value begins, later nodes later
ones; the stack has the containers that are open at the end of the text,
outermost first; a key is waiting exactly if the last call was `Key`; and the
items of a node are the values that its brackets are around, in order and with
the keys before them. Every call adds to the end of the text only, where
everything but the innermost open container stays as it was. From that come
`ThrowsExactlyUnlessJson`, `DocumentIsWhatIsSpelt` and `ChainsNeverThrow`, the
last because each context type stands for one way the text can end. A
dictionary drops a value whose key it has already, with
everything that is then built into it, so `CallsInv`, as the properties
themselves, is about texts that give no dictionary a key twice (`KeysDistinct`).

**MapStyleProofs**, for every document, number of buses, and range of bytes and
words. `StyleInv` says what the file has on both sides of the cut, and what was
loaded and drawn of it. A document that was read to its end has every member
with its type (`ParsedIsGood`), and so the settings made of it are `Plausible`:
sizes of 32 bits, offsets of two numbers, colours of one of three kinds. These
come back from their fields one by one (`MemberComesBack`), and what
is missing reads as nothing (`MissingIsNothing`): `SettingsComeBack`. For
`MapLooksAsStated`, a colour that was read is printed as it was stated
(`PrintedAsStated`), the place of a bus's colour is inside the palette
(`ColourOfBus`), and attributes have different names (`TextAttrs`).

Only model-checked:

- liveness and ENABLED (`WalkEnds`, the fairness of
  `LoadsWhatIsDeclared`, that the loading is ever done; its steps are proved);
  `WalkIsShort` proves the bound that makes `WalkEnds` true;
- the properties of `JsonStream`, whose parser is written with RECURSIVE
  operators, and of `UnsetVelocity`, whose table is a fold: what they compute for
  every input takes an induction over data.

## Not modelled

- Rounding. Weights, coordinates, zooms and sizes are whole numbers or
  fractions; infinities and NaN are in `UnsetVelocity` and, as words that are
  printed, in `JsonStream`.
- Documents whose base_requests, stat_requests or routing_settings lack a member
  or have one of the wrong type: these throw before anything is saved or
  printed. (render_settings are in `MapStyle`.)
- Bytes of the protobuf encoding: the parser is modelled by the fields it keeps.
  A cut within a packed list keeps whole elements.
- Two runs at the same time on one file. A reader that is overtaken by a writer
  gets the beginning of one file with the rest of another, in bytes that need
  not fall together: what the parser makes of them is a matter of the encoding.
- The angle brackets and indents of SVG. Names are put into it as they are.
- Command-line usage, tests, vendored code, sample data, the great-circle
  formula, and the text queries (`transport_router.cpp`), which nothing calls.

## Plan

Done, in this order: Router and its proofs; the catalogue and BaseLoader;
RouteGraph; CatalogueFile, StatRequests and BaseLifecycle with FailureLeavesFile;
JsonBuilder and its proofs; MapRenderer; JsonParser, JsonPrinter and JsonStream;
MapStyle; UnsetVelocity; the proofs of BaseLoader; those of RouteGraph, of cut
files, of MapRenderer; circles and answers of Router; what is loaded as the
assumption of what follows, and as what a document declares; what comes back
from a file and what is answered of it; the builder against the text of its
calls; the settings of the map; passengers and the graph.

Left: what is listed under "Only model-checked", which is out of the prover's
reach, and what is listed under "Not modelled".
