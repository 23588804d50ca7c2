--------------------------- MODULE BaseLifecycle ---------------------------
(***************************************************************************)
(* The program as it is run (main.cpp): make_base writes a base to a file, *)
(* process_requests answers from it, one run after the other in any order. *)
(* A run of make_base may be killed at any moment and the disk may fill    *)
(* up; the file is what survives.  Exceptions are not caught: they end the *)
(* run, and with it every response not yet printed; undefined behaviour    *)
(* may do the same, or go on with any response.                            *)
(***************************************************************************)
EXTENDS StatRequests

CONSTANTS
    Bases,          \* what loading, graph and router make of some documents
    StatDocuments,  \* the stat_requests arrays of some documents
    Garbage         \* what undefined behaviour makes of a response

HasNegativeEdge(b) == \E n \in DOMAIN b.edges : b.edges[n].weight < 0

ASSUME BasesAssumption ==
    \A b \in Bases :
        /\ b \in Base /\ AsMade(b)
        /\ HasNegativeEdge(b) \/ Routed(EvaluateVertexCount(b.db), b.edges, b.table)
ASSUME StatDocumentsAssumption == StatDocuments \subseteq Seq(StatRequest)

VARIABLES
    file,        \* the elements in the base file; empty when there is none
    pc,          \* where the current run is, "idle" between runs
    exit,        \* how the last run ended: "none", "ok", "exception", "crash", "killed"
    base,        \* make_base: the base in memory
    message,     \* make_base: proto_db_
    memory,      \* process_requests: the base read from the file
    requests,    \* process_requests: the requests not answered
    responses,   \* process_requests: the responses so far
    output,      \* what the last run printed
    before,      \* history: the file when the current run began
    source       \* history: the base the file was last opened for

made == <<base, message>>
served == <<memory, requests, responses>>
vars == <<file, pc, exit, made, served, output, before, source>>

Init ==
    /\ file = <<>> /\ before = <<>> /\ source = EmptyBase
    /\ pc = "idle" /\ exit = "none"
    /\ base = EmptyBase /\ message = <<>>
    /\ memory = EmptyBase /\ requests = <<>> /\ responses = <<>> /\ output = <<>>

\* A run ends; its memory is gone.  What it began with is remembered only
\* after an exception, to keep the number of states small.
End(how) ==
    /\ pc' = "idle" /\ exit' = how
    /\ base' = EmptyBase /\ message' = <<>>
    /\ memory' = EmptyBase /\ requests' = <<>> /\ responses' = <<>>
    /\ before' = IF how = "exception" THEN before ELSE <<>>

Begin(where) ==
    /\ pc = "idle"
    /\ pc' = where /\ exit' = "none" /\ output' = <<>>
    /\ before' = file
    /\ UNCHANGED <<file, source>>

-----------------------------------------------------------------------------
(* make_base *)

\* ReadData and the RequestHandler are done.
MakeBase(b) ==
    /\ Begin("route")
    /\ base' = b
    /\ UNCHANGED <<message, served>>

RouterThrows ==
    /\ pc = "route" /\ HasNegativeEdge(base)
    /\ End("exception")
    /\ UNCHANGED <<file, output, source>>

BuildRouter ==
    /\ pc = "route" /\ ~HasNegativeEdge(base)
    /\ pc' = "serialize"
    /\ UNCHANGED <<file, exit, made, served, output, before, source>>

\* Mutant: the file is opened, and emptied, before anything can throw.
SerializeThrowsLate ==
    /\ pc = "serialize" /\ ~Serializable(base.db)
    /\ End("exception")
    /\ file' = <<>>
    /\ UNCHANGED <<output, source>>

SerializeThrows ==
    /\ pc = "serialize" /\ ~Serializable(base.db)
    /\ End("exception")
    /\ UNCHANGED <<file, output, source>>

Serialize ==
    /\ pc = "serialize" /\ Serializable(base.db)
    /\ \E pairs \in SetToSeqs(StoredPairs(base.db)) : message' = Message(base, pairs)
    /\ pc' = "open"
    /\ UNCHANGED <<file, exit, base, served, output, before, source>>

\* The ofstream truncates the file, or does not open; nobody looks.
OpenFile ==
    /\ pc = "open"
    /\ pc' = "write"
    /\ file' = <<>>
    /\ source' = base
    /\ UNCHANGED <<exit, made, served, output, before>>

OpenFails ==
    /\ pc = "open"
    /\ End("ok")
    /\ UNCHANGED <<file, output, source>>

WriteElement ==
    /\ pc = "write" /\ Len(file) < Len(message)
    /\ file' = Append(file, message[Len(file) + 1])
    /\ UNCHANGED <<pc, exit, made, served, output, before, source>>

CloseFile ==
    /\ pc = "write" /\ Len(file) = Len(message)
    /\ End("ok")
    /\ UNCHANGED <<file, output, source>>

\* Writing stops for good, within the next element or before it.
CutOff ==
    /\ pc = "write" /\ Len(file) < Len(message)
    /\ file' \in {file} \cup {Append(file, t) : t \in Torn(message[Len(file) + 1])}

\* The result of writing is not tested.
DiskFull ==
    /\ CutOff
    /\ End("ok")
    /\ UNCHANGED <<output, source>>

Kill ==
    /\ \/ CutOff
       \/ pc \in {"route", "serialize", "open"} /\ UNCHANGED file
    /\ End("killed")
    /\ UNCHANGED <<output, source>>

-----------------------------------------------------------------------------
(* process_requests *)

ProcessRequests(qs) ==
    /\ Begin("read")
    /\ requests' = qs
    /\ UNCHANGED <<made, memory, responses>>

\* The file is read and the RequestHandler made of what it holds.  An index
\* that points nowhere would throw here; CutFileIsConsistent says
\* that no file of this program holds one.
ReadFile ==
    /\ pc = "read" /\ Resolvable(file)
    /\ pc' = "parse"
    /\ memory' = Deserialize(file)
    /\ UNCHANGED <<file, exit, made, requests, responses, output, before, source>>

ParseStatRequests ==
    /\ pc = "parse"
    /\ pc' = "answer"
    /\ requests' = [n \in DOMAIN requests |-> ParseStatRequest(memory.db, requests[n])]
    /\ UNCHANGED <<file, exit, made, memory, responses, output, before, source>>

AnswerThrows ==
    /\ pc = "answer" /\ requests # <<>>
    /\ Outcome(memory, Head(requests)) \in {"throws", "undefined", "circles"}
    /\ End("exception")
    /\ UNCHANGED <<file, output, source>>

\* A run out of memory may not live to see the exception.
AnswerCrashes ==
    /\ pc = "answer" /\ requests # <<>>
    /\ Outcome(memory, Head(requests)) \in {"undefined", "circles"}
    /\ End("crash")
    /\ UNCHANGED <<file, output, source>>

Response(q) == IF Outcome(memory, q) = "undefined" THEN Garbage ELSE Respond(memory, q)

Answer ==
    /\ pc = "answer" /\ requests # <<>>
    /\ Outcome(memory, Head(requests)) \in {"answered", "undefined"}
    /\ responses' = Append(responses, Response(Head(requests)))
    /\ requests' = Tail(requests)
    /\ UNCHANGED <<file, pc, exit, made, memory, output, before, source>>

PrintResponses ==
    /\ pc = "answer" /\ requests = <<>>
    /\ output' = responses
    /\ End("ok")
    /\ UNCHANGED <<file, source>>

-----------------------------------------------------------------------------

MakeStep ==
    \/ RouterThrows \/ BuildRouter \/ SerializeThrows \/ Serialize
    \/ OpenFile \/ OpenFails \/ WriteElement \/ CloseFile \/ DiskFull

ServeStep ==
    \/ ReadFile \/ ParseStatRequests
    \/ AnswerThrows \/ AnswerCrashes \/ Answer \/ PrintResponses

Next ==
    \/ \E b \in Bases : MakeBase(b)
    \/ \E qs \in StatDocuments : ProcessRequests(qs)
    \/ MakeStep \/ ServeStep \/ Kill

Spec == Init /\ [][Next]_vars

-----------------------------------------------------------------------------
(* Properties *)

\* The last element of the message is there, and whole.
Complete == Field(file, "routing_settings") = <<RoutingSettingsToProto(source.routing)>>

\* The table is there, and whole.
TableComplete == Field(file, "render_settings") # <<>>

\* Wherever writing was cut off, what the file holds points only at what it
\* holds: reading it throws nothing, every edge has its bus, a row of the table
\* comes only after all stops and edges, and all rows are whole but the last.
\* It is the order of the fields that makes it so.
CutFileIsConsistent ==
    /\ Resolvable(file)
    /\ LET b == Deserialize(file) IN
         /\ Len(b.edges) <= Len(b.db.edges_to_buses)
         /\ b.table # <<>> => b.edges = source.edges /\ Len(b.db.stops) = Len(source.db.stops)
         /\ \A v \in DOMAIN b.table :
              v < Len(b.table) \/ TableComplete => b.table[v] = source.table[v]

\* A run that an exception ends, whichever of its steps throws, leaves the
\* base file as it found it: an input that cannot be saved costs nothing.
FailureLeavesFile == exit = "exception" => file = before

SameAnswer(b, c, q) ==
    LET p == ParseStatRequest(b.db, q)
        r == ParseStatRequest(c.db, q)
    IN  /\ Outcome(b, p) = Outcome(c, r)
        /\ Outcome(b, p) = "answered" => Respond(b, p) = Respond(c, r)

\* A base that went through the file answers every request as the base that
\* make_base had in memory, whatever the order of the distances, though its
\* index lacks the stops without buses and its numbers are unsigned.
RoundTrip ==
    pc = "parse" /\ Complete => \A q \in StatRequest : SameAnswer(memory, source, q)

\* The itinerary without the times that routing_settings add.
Plan(response) ==
    IF response = NotFound THEN NotFound
    ELSE [total_time |-> response.total_time,
          rides |-> [n \in DOMAIN response.items |->
                       [bus |-> response.items[n].bus, from |-> response.items[n].stop_name,
                        span_count |-> response.items[n].span_count]]]

\* A route request on a base cut off anywhere is answered as on the whole one
\* or throws: no detour, no false "not found", no walk astray.  Only routes from
\* the stop in whose row the file was cut are excepted: they may be anything.
NeverMisroutes ==
    pc = "parse" =>
        \A q \in RouteRequest :
            LET p == ParseStatRequest(memory.db, q)
            IN  \/ Outcome(memory, p) = "throws"
                \/ ~TableComplete /\ VertexOf(memory, p.from) + 1 = Len(memory.table)
                \/ /\ Outcome(memory, p) = "answered"
                   /\ Plan(Respond(memory, p)) = Plan(Respond(source, p))

\* The walk of BuildRoute from w back to v comes by vertex u.
Passes(b, v, w, u) ==
    \/ u = w
    \/ LET walk == Walk(b, v, w) IN
       \E n \in DOMAIN walk : walk[n] \in DOMAIN b.edges /\ b.edges[walk[n]].from = u

\* In the row in which the file was cut, too, it is one entry only that can
\* make a route wrong: the last one there is, if it was torn, for the routes
\* that come by it.  Its predecessor may then be an edge that it never was, and
\* lead the walk in a circle.  Of the others each is the route of the whole
\* base, or throws, or hops out of the row; none is walked for ever.
OnlyTornEntryMisleads ==
    pc = "parse" =>
        \A q \in RouteRequest :
            LET p == ParseStatRequest(memory.db, q)
                v == VertexOf(memory, p.from)
                w == VertexOf(memory, p.to)
                last == Len(memory.table[v + 1]) - 1
            IN  \/ Outcome(memory, p) \in {"throws", "undefined"}
                \/ /\ Outcome(memory, p) = "answered"
                   /\ Plan(Respond(memory, p)) = Plan(Respond(source, p))
                \/ Passes(memory, v, w, last) /\ Entry(memory, v, last) # Entry(source, v, last)

\* On a complete base these are the requests that a run loses its output to, and
\* no others: a route to or from an unknown stop, and a map with buses on it and
\* no colour in its palette, be it for want of render_settings or by them.
CompleteBaseAnswers ==
    pc = "answer" /\ Complete /\ requests # <<>> =>
        LET q == Head(requests) IN
        Outcome(memory, q) # "answered" <=>
            \/ q.type = "Route" /\ NoStop \in {q.from, q.to}
            \/ q.type = "Map" /\ source.drawing.palette_size = 0 /\ source.db.buses # <<>>
=============================================================================
