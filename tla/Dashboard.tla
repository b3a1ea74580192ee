------------------------------ MODULE Dashboard -------------------------------
(***************************************************************************)
(* The dashboard in the browser against the stream server                  *)
(* (frontend/src: SimulationDashboard.jsx, useSimulationStream.js,         *)
(* streamReducer.js, api.js).  It owns one simulation at a time, which the *)
(* Create and Delete buttons replace and remove, and shows the frames of   *)
(* its stream.  The two buttons run independently of each other, requests  *)
(* may fail, answers may be lost, the connection may drop, and somebody    *)
(* else may delete the simulation.                                         *)
(***************************************************************************)
EXTENDS StreamServer

CONSTANT NoConn

ASSUME DashboardAssumption == NoConn \notin Connections

VARIABLES
  simulationId,  \* React state: the simulation that is shown, or 0
  hooked,        \* the simulation useSimulationStream's effect last ran for
  source,        \* its EventSource
  status,        \* streamReducer's state: status, and
  lastFrame,     \* the simulation lastFrame is of, or 0
  creating,      \* handleCreate: where it is, the old and the new simulation
  deleting,      \* handleDelete: where it is, and its simulation
  lost           \* history: simulations a failure or a race detached

streamState == <<hooked, source, status, lastFrame>>
calls == <<simulationId, creating, deleting, lost>>
vars == <<serverVars, calls, streamState>>

Unconnected(at) == [at |-> at, conn |-> NoConn, heard |-> 0]
NoSource == Unconnected("none")
Connecting == Unconnected("connecting")
Finished == Unconnected("closed")

Creating(at, old, new) == [at |-> at, old |-> old, new |-> new]
NoCreate == Creating("idle", 0, 0)
NoDelete == [at |-> "idle", id |-> 0]

Init ==
  /\ ServerInit
  /\ simulationId = 0 /\ hooked = 0 /\ lastFrame = 0
  /\ source = NoSource
  /\ status = "idle"
  /\ creating = NoCreate /\ deleting = NoDelete
  /\ lost = {}

-----------------------------------------------------------------------------
(***************************************************************************)
(* handleCreate: delete the old simulation, then create, then show.        *)
(***************************************************************************)
\* Mutant: the old simulation is left to itself.
ClickCreate_KeepsOld ==
  /\ creating.at = "idle"
  /\ creating' = Creating("posting", 0, 0)
  /\ UNCHANGED <<serverVars, simulationId, deleting, lost, streamState>>

ClickCreate ==
  /\ creating.at = "idle"
  /\ creating' = IF simulationId = 0 THEN Creating("posting", 0, 0)
                 ELSE Creating("deleting", simulationId, 0)
  /\ UNCHANGED <<serverVars, simulationId, deleting, lost, streamState>>

\* DELETE; a 404 is swallowed.
Unregister(s) ==
  /\ registry' = registry \ {s}
  /\ UNCHANGED <<created, stream, wire, lost>>

\* The request did not get through, and that is swallowed too.
RequestLost(s) ==
  /\ lost' = lost \cup ({s} \cap registry)
  /\ UNCHANGED serverVars

CreateDeletesOld ==
  /\ creating.at = "deleting"
  /\ Unregister(creating.old) \/ RequestLost(creating.old)
  /\ creating' = Creating("posting", 0, 0)
  /\ UNCHANGED <<simulationId, deleting, streamState>>

CreatePosts ==
  /\ creating.at = "posting"
  /\ created < MaxSims
  /\ created' = created + 1
  /\ registry' = registry \cup {created + 1}
  /\ creating' = Creating("answered", 0, created + 1)
  /\ UNCHANGED <<stream, wire, simulationId, deleting, lost, streamState>>

CreateFails ==
  /\ creating.at = "posting"
  /\ creating' = NoCreate
  /\ UNCHANGED <<serverVars, simulationId, deleting, lost, streamState>>

CreateDone ==
  /\ creating.at = "answered"
  /\ simulationId' = creating.new
  /\ creating' = NoCreate
  /\ UNCHANGED <<serverVars, deleting, lost, streamState>>

\* The simulation exists, and the dashboard never learns its id.
CreateAnswerLost ==
  /\ creating.at = "answered"
  /\ lost' = lost \cup {creating.new}
  /\ creating' = NoCreate
  /\ UNCHANGED <<serverVars, simulationId, deleting, streamState>>

-----------------------------------------------------------------------------
(***************************************************************************)
(* handleDelete.  Nothing keeps it from running beside handleCreate; one   *)
(* at a time is a bound of the model.                                      *)
(***************************************************************************)
ClickDelete ==
  /\ simulationId # 0
  /\ deleting.at = "idle"
  /\ deleting' = [at |-> "sent", id |-> simulationId]
  /\ UNCHANGED <<serverVars, simulationId, creating, lost, streamState>>

DeleteServed ==
  /\ deleting.at = "sent"
  /\ Unregister(deleting.id) \/ RequestLost(deleting.id)
  /\ deleting' = [deleting EXCEPT !.at = "answered"]
  /\ UNCHANGED <<simulationId, creating, streamState>>

\* Whatever is shown by now goes, be it another simulation than the deleted.
DeleteDone ==
  /\ deleting.at = "answered"
  /\ simulationId' = 0
  /\ lost' = lost \cup ({simulationId} \ {0, deleting.id})
  /\ deleting' = NoDelete
  /\ UNCHANGED <<serverVars, creating, streamState>>

-----------------------------------------------------------------------------
(***************************************************************************)
(* useSimulationStream.                                                    *)
(***************************************************************************)
\* The browser gives up its connection: what was under way is dropped, and what
\* the generator does until the server finds out reaches nobody.
GivesUp ==
  /\ wire' = [c \in Connections |-> IF c = source.conn THEN <<>> ELSE wire[c]]
  /\ stream' = [c \in Connections |-> IF c = source.conn THEN Forlorn(stream[c]) ELSE stream[c]]

\* Mutant: the cleanup closes the source, and the reducer is not told.
Rerun_KeepsState ==
  /\ hooked' = simulationId
  /\ source' = IF simulationId = 0 THEN NoSource ELSE Connecting
  /\ status' = IF simulationId = 0 THEN status ELSE "connecting"
  /\ GivesUp
  /\ UNCHANGED <<created, registry, calls, lastFrame>>

\* The cleanup (close, "disconnect"), then the effect ("connect", a new source).
Rerun ==
  /\ hooked' = simulationId
  /\ source' = IF simulationId = 0 THEN NoSource ELSE Connecting
  /\ status' = IF simulationId = 0 THEN "idle" ELSE "connecting"
  /\ lastFrame' = 0
  /\ GivesUp
  /\ UNCHANGED <<created, registry, calls>>

Effect == simulationId # hooked /\ Rerun

\* The viewport or the rate was edited: the effect runs for the same id.
ChangeView == simulationId = hooked /\ hooked # 0 /\ Rerun

\* The GET, answered by a stream.
Connect(c) ==
  /\ source.at = "connecting"
  /\ hooked \in registry
  /\ stream[c].at = "idle"
  /\ stream' = [stream EXCEPT ![c] = Opened(hooked)]
  /\ source' = [at |-> "open", conn |-> c, heard |-> 0]
  /\ status' = "open"
  /\ UNCHANGED <<created, registry, wire, calls, hooked, lastFrame>>

\* ... or by a 404, after which an EventSource does not try again.
Refused ==
  /\ source.at = "connecting"
  /\ hooked \notin registry
  /\ source' = Finished
  /\ status' = "error"
  /\ UNCHANGED <<serverVars, calls, hooked, lastFrame>>

\* The connection breaks, or none comes about; the EventSource will try again.
Drop ==
  /\ source.at \in {"connecting", "open"}
  /\ source' = Connecting
  /\ status' = "error"
  /\ GivesUp
  /\ UNCHANGED <<created, registry, calls, hooked, lastFrame>>

\* The response has ended without a "closed" event: the same to an EventSource.
ResponseEnds ==
  /\ source.at = "open"
  /\ stream[source.conn].at = "ended"
  /\ wire[source.conn] = <<>>
  /\ Drop

Receive ==
  /\ source.at = "open"
  /\ wire[source.conn] # <<>>
  /\ LET c == source.conn
         event == Head(wire[c])
     IN  \/ /\ event.kind = "frame"
            /\ status' = "open"
            /\ lastFrame' = event.sim
            /\ source' = [source EXCEPT !.heard = event.seq]
            /\ wire' = [wire EXCEPT ![c] = Tail(@)]
            /\ UNCHANGED stream
         \/ /\ event.kind = "closed"
            /\ status' = "closed"
            /\ source' = Finished
            /\ GivesUp
            /\ UNCHANGED lastFrame
         \/ /\ event.kind = "error"
            /\ status' = "error"
            /\ wire' = [wire EXCEPT ![c] = Tail(@)]
            /\ UNCHANGED <<stream, source, lastFrame>>
  /\ UNCHANGED <<created, registry, calls, hooked>>

\* The server finds the client gone, or its response written: the generator is
\* cancelled where it waits, and what it has sent since goes nowhere.
ClientGone(c) ==
  /\ stream[c].at = "forlorn"
  /\ stream' = [stream EXCEPT ![c] = Idle]
  /\ UNCHANGED <<created, registry, wire, calls, streamState>>

-----------------------------------------------------------------------------
Buttons ==
  \/ ClickCreate \/ CreateDeletesOld \/ CreatePosts \/ CreateFails
  \/ CreateDone \/ CreateAnswerLost
  \/ ClickDelete \/ DeleteServed \/ DeleteDone

Server ==
  /\ \/ \E s \in Sims : DeletedElsewhere(s)
     \/ \E c \in Connections : Generate(c)
  /\ UNCHANGED <<calls, streamState>>

Hook ==
  \/ Effect \/ ChangeView \/ Refused \/ Drop \/ ResponseEnds \/ Receive
  \/ \E c \in Connections : Connect(c) \/ ClientGone(c)

Next == Buttons \/ Server \/ Hook

(***************************************************************************)
(* Fairness: a generator goes on and a gone client is noticed (asyncio);   *)
(* the effect runs after a commit (React); an EventSource delivers what    *)
(* has arrived, sees the end of a response and reconnects.  Nothing is     *)
(* assumed of the user, or of the requests.                                *)
(***************************************************************************)
Generates(c) == Generate(c) /\ UNCHANGED <<calls, streamState>>
Reconnect == Refused \/ \E c \in Connections : Connect(c)

Fairness ==
  /\ \A c \in Connections : WF_vars(Generates(c)) /\ WF_vars(ClientGone(c))
  /\ WF_vars(Effect) /\ WF_vars(Receive) /\ WF_vars(ResponseEnds)
  /\ WF_vars(Reconnect)

Spec == Init /\ [][Next]_vars
FairSpec == Spec /\ Fairness

-----------------------------------------------------------------------------
(***************************************************************************)
(* Properties.                                                             *)
(***************************************************************************)

\* routes.py:768-786: on one connection the browser gets frames numbered without
\* a gap, however many of them could not be built at first.
FramesGapless ==
  source.at = "open" =>
    \A n \in 1 .. Len(wire[source.conn]) :
      LET event == wire[source.conn][n]
      IN  event.kind = "frame" => event.seq = (source.heard + n) % SeqBound

\* useSimulationStream.js:70-73: a frame that is shown is of the simulation the
\* hook runs for, and the badge says "connected" only over a connection; no
\* event of an earlier simulation or connection comes through.
ShownIsCurrent ==
  /\ lastFrame \in {0, hooked}
  /\ status = "open" => source.at = "open"
  /\ source.at = "open" => stream[source.conn].sim = hooked

\* SimulationDashboard.jsx:79-83: a simulation the dashboard created is still its
\* own, or is about to be deleted, unless a request or an answer got lost or a
\* late Delete took a new simulation off the screen.
OrphansAccounted ==
  registry \ lost \subseteq {simulationId, creating.old, creating.new, deleting.id}

\* routes.py:758-766: once a simulation is gone, its streams end for good, and
\* the dashboard does not keep saying "connected".
DeletedStreamEnds ==
  \A s \in Sims :
    s <= created /\ s \notin registry
      ~> [](/\ \A c \in Connections : ~ (Live(c) /\ stream[c].sim = s)
            /\ hooked = s => status # "open")

=============================================================================
