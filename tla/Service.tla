------------------------------- MODULE Service -------------------------------
(***************************************************************************)
(* The registry of simulations behind the web API (api/routes.py,          *)
(* api/monitoring.py).  Handlers run in a thread pool: each looks a        *)
(* simulation up in the registry, which has no lock, then works on the     *)
(* runtime it found, which other handlers may meanwhile shut down and      *)
(* remove.  GET /metrics iterates over the registry itself.                *)
(*                                                                         *)
(* The registry is a dict, of CPython's kind: a table of entries in the    *)
(* order of insertion, in which a deletion leaves a hole, and which an     *)
(* insertion that finds it full rebuilds without the holes.  An iterator   *)
(* is an index into that table.  It raises when the dict has another size  *)
(* than at the start, or still has an entry after as many as it had then;  *)
(* it does not notice that the entries have moved.                         *)
(*                                                                         *)
(* A runtime is reduced to its status and to whether its loop runs and is  *)
(* not told to stop; SimulationRuntime has the rest.  A call that raises   *)
(* (409) or a lookup that fails (404) changes nothing and has no action.   *)
(***************************************************************************)
EXTENDS Naturals, FiniteSets, Sequences, Functions

CONSTANTS
  Sims,       \* simulation ids; each is given out once (uuid4)
  Handlers,   \* requests under way at one time
  None,       \* no simulation; a hole in the table
  Room(_),    \* the entries a table has room for that is built for so many
  Past        \* bound: how many simulations came and went before

ASSUME ServiceAssumption ==
  /\ IsFiniteSet(Sims) /\ None \notin Sims
  /\ \A n \in 0 .. Cardinality(Sims) : Room(n) \in Nat /\ Room(n) > n
  /\ Past \subseteq 0 .. Room(0)

VARIABLES
  entries,   \* the table of _runtimes: ids, and holes
  room,      \* how many entries it still has room for
  status,    \* each runtime's status
  looping,   \* does its loop run, not told to stop?
  request,   \* what each handler is doing
  scan,      \* GET /metrics: where its iteration is
  known,     \* every id ever registered
  granted,   \* ids whose DELETE was answered 204, once and more than once
  revived,   \* ids on which start() ran after a DELETE had stopped the loop
  churned,   \* did the registry change since the scan began?
  shifted    \* did entries move that the scan had not come to?

table == <<entries, room>>
simVars == <<status, looping>>
scanHistory == <<churned, shifted>>
historyVars == <<known, granted, revived, scanHistory>>
vars == <<table, simVars, request, scan, historyVars>>

Status == {"created", "running", "paused", "stopped"}
Calls == {"start", "pause", "resume", "reset", "delete"}

\* A handler is idle, has a new runtime to register, has looked up the runtime
\* of a call, or is in a DELETE: loop stopped, or shutdown() returned.
Idle == [at |-> "idle", sim |-> None]
Requests == {Idle} \cup [at : Calls \cup {"register", "join", "remove"}, sim : Sims]

\* The keys of _runtimes.
registry == {entries[n] : n \in DOMAIN entries} \ {None}

Deleted(s) == s \in known \ registry

\* What GET /metrics knows: the ids it has listed, the index of the last one, how
\* many there were at the start, and how the request ended.
Scans == [at : {"idle", "scanning", "listed", "failed"}, seen : SUBSET Sims,
          last : Nat, size : Nat]
NoScan == [at |-> "idle", seen |-> {}, last |-> 0, size |-> 0]

TypeOK ==
  /\ entries \in Seq(Sims \cup {None})
  /\ room \in Nat
  /\ status \in [Sims -> Status]
  /\ looping \in [Sims -> BOOLEAN]
  /\ request \in [Handlers -> Requests]
  /\ scan \in Scans
  /\ known \subseteq Sims /\ registry \subseteq known
  /\ granted \in [Sims -> {"none", "one", "more"}]
  /\ revived \subseteq Sims
  /\ churned \in BOOLEAN /\ shifted \in BOOLEAN

\* Simulations that came and went have left holes.
Init ==
  /\ \E past \in Past : entries = [n \in 1 .. past |-> None] /\ room = Room(0) - past
  /\ status = [s \in Sims |-> "created"]
  /\ looping = [s \in Sims |-> FALSE]
  /\ request = [h \in Handlers |-> Idle]
  /\ scan = NoScan
  /\ known = {}
  /\ granted = [s \in Sims |-> "none"]
  /\ revived = {}
  /\ churned = FALSE /\ shifted = FALSE

-----------------------------------------------------------------------------
(***************************************************************************)
(* POST /simulations.                                                      *)
(***************************************************************************)
\* The runtime is built under a fresh id; a refused configuration stops here.
CreateBuild(h) ==
  /\ request[h] = Idle
  /\ \E s \in Sims \ known :
       /\ \A g \in Handlers : request[g].sim # s
       /\ request' = [request EXCEPT ![h] = [at |-> "register", sim |-> s]]
  /\ UNCHANGED <<table, simVars, scan, historyVars>>

\* There is room at the end of the table ...
Insert(s) ==
  /\ room > 0
  /\ entries' = Append(entries, s)
  /\ room' = room - 1
  /\ UNCHANGED shifted

Holes(n) == {m \in 1 .. n : entries[m] = None}

\* ... or a new one gets the entries without the holes, and then the new one.
InsertRebuilds(s) ==
  LET used == Cardinality(registry)
  IN  /\ room = 0
      /\ \E packed \in Bijection(1 .. used, registry) :
           /\ \A n \in DOMAIN entries :
                entries[n] # None => packed[n - Cardinality(Holes(n))] = entries[n]
           /\ entries' = Append(packed, s)
      /\ room' = Room(used) - used - 1
      /\ shifted' = (shifted \/ Holes(scan.last) # {})

CreateRegister(h) ==
  LET s == request[h].sim
  IN  /\ request[h].at = "register"
      /\ Insert(s) \/ InsertRebuilds(s)
      /\ known' = known \cup {s}
      /\ churned' = TRUE
      /\ request' = [request EXCEPT ![h] = Idle]
      /\ UNCHANGED <<simVars, scan, granted, revived>>

-----------------------------------------------------------------------------
(***************************************************************************)
(* The lifecycle calls: the lookup, then the runtime's method.             *)
(***************************************************************************)
\* _get_runtime(): None of the dict's get() is the 404.
Lookup(h) ==
  /\ request[h] = Idle
  /\ \E s \in registry, op \in Calls : request' = [request EXCEPT ![h] = [at |-> op, sim |-> s]]
  /\ UNCHANGED <<table, simVars, scan, historyVars>>

\* A DELETE of s has stopped the loop it found, and perhaps removed s already.
StoppedByDelete(s) ==
  \/ Deleted(s)
  \/ \E h \in Handlers : request[h].sim = s /\ request[h].at \in {"join", "remove"}

Start(h) ==
  LET s == request[h].sim
  IN  /\ request[h].at = "start"
      /\ IF looping[s]
           THEN UNCHANGED <<simVars, revived>>
           ELSE /\ status' = [status EXCEPT ![s] = "running"]
                /\ looping' = [looping EXCEPT ![s] = TRUE]
                /\ revived' = IF StoppedByDelete(s) THEN revived \cup {s} ELSE revived
      /\ request' = [request EXCEPT ![h] = Idle]
      /\ UNCHANGED <<table, scan, known, granted, scanHistory>>

\* pause(), resume() and reset(): from which status, to which.
Transition(op) ==
  CASE op = "pause"  -> [from |-> {"running"}, to |-> "paused"]
    [] op = "resume" -> [from |-> {"paused"}, to |-> "running"]
    [] op = "reset"  -> [from |-> Status \ {"running"}, to |-> "created"]

ChangeStatus(h) ==
  LET s == request[h].sim
      change == Transition(request[h].at)
  IN  /\ request[h].at \in {"pause", "resume", "reset"}
      /\ status' = IF status[s] \in change.from
                     THEN [status EXCEPT ![s] = change.to]
                     ELSE status
      /\ request' = [request EXCEPT ![h] = Idle]
      /\ UNCHANGED <<table, looping, scan, historyVars>>

\* A tick that raises ends the loop, whoever holds the runtime.
LoopDies(s) ==
  /\ looping[s]
  /\ looping' = [looping EXCEPT ![s] = FALSE]
  /\ UNCHANGED <<table, status, request, scan, historyVars>>

-----------------------------------------------------------------------------
(***************************************************************************)
(* DELETE /simulations/{id}.                                               *)
(***************************************************************************)
\* Mutant: the simulation is removed, its loop is left alone.
DeleteStop_NoShutdown(h) ==
  /\ request[h].at = "delete"
  /\ request' = [request EXCEPT ![h].at = "remove"]
  /\ UNCHANGED <<table, simVars, scan, historyVars>>

\* shutdown(): the loop is told to stop and joined ...
DeleteStop(h) ==
  /\ request[h].at = "delete"
  /\ looping' = [looping EXCEPT ![request[h].sim] = FALSE]
  /\ request' = [request EXCEPT ![h].at = "join"]
  /\ UNCHANGED <<table, status, scan, historyVars>>

\* ... and the status is set under the lock.
DeleteFinish(h) ==
  /\ request[h].at = "join"
  /\ status' = [status EXCEPT ![request[h].sim] = "stopped"]
  /\ request' = [request EXCEPT ![h].at = "remove"]
  /\ UNCHANGED <<table, looping, scan, historyVars>>

\* The entry becomes a hole.
Remove(s) ==
  entries' = [n \in DOMAIN entries |-> IF entries[n] = s THEN None ELSE entries[n]]

Grant(s) == granted' = [granted EXCEPT ![s] = IF @ = "none" THEN "one" ELSE "more"]

\* Mutant: pop(simulation_id, None), which is content with an absent key.
DeleteRemove_Pop(h) ==
  LET s == request[h].sim
  IN  /\ request[h].at = "remove"
      /\ Remove(s)
      /\ churned' = TRUE
      /\ Grant(s)
      /\ request' = [request EXCEPT ![h] = Idle]
      /\ UNCHANGED <<room, simVars, scan, known, revived, shifted>>

\* del _runtimes[simulation_id]; if it is gone, KeyError and a 500.
DeleteRemove(h) ==
  LET s == request[h].sim
  IN  /\ request[h].at = "remove"
      /\ IF s \in registry
           THEN Remove(s) /\ churned' = TRUE /\ Grant(s)
           ELSE UNCHANGED <<entries, churned, granted>>
      /\ request' = [request EXCEPT ![h] = Idle]
      /\ UNCHANGED <<room, simVars, scan, known, revived, shifted>>

-----------------------------------------------------------------------------
(***************************************************************************)
(* GET /metrics: one entry per simulation of _runtimes.items().            *)
(***************************************************************************)
ScanBegin ==
  /\ scan.at = "idle"
  /\ scan' = [NoScan EXCEPT !.at = "scanning", !.size = Cardinality(registry)]
  /\ churned' = FALSE /\ shifted' = FALSE
  /\ UNCHANGED <<table, simVars, request, known, granted, revived>>

\* The entries the iterator has not passed.
Ahead == {n \in scan.last + 1 .. Len(entries) : entries[n] # None}

SizeChanged == Cardinality(registry) # scan.size
Exhausted == Cardinality(scan.seen) = scan.size

\* The next entry, then its status and snapshot under the runtime's lock.
ScanNext ==
  /\ scan.at = "scanning"
  /\ ~ SizeChanged /\ ~ Exhausted
  /\ \E n \in Ahead :
       /\ \A k \in Ahead : n <= k
       /\ scan' = [scan EXCEPT !.seen = @ \cup {entries[n]}, !.last = n]
  /\ UNCHANGED <<table, simVars, request, historyVars>>

\* RuntimeError: "dictionary changed size during iteration", or its keys did.
ScanFails ==
  /\ scan.at = "scanning"
  /\ SizeChanged \/ (Exhausted /\ Ahead # {})
  /\ scan' = [scan EXCEPT !.at = "failed"]
  /\ UNCHANGED <<table, simVars, request, historyVars>>

\* Mutant: the end is reached whenever no entry is ahead.
ScanEnds_AnySize ==
  /\ scan.at = "scanning"
  /\ Ahead = {}
  /\ scan' = [scan EXCEPT !.at = "listed"]
  /\ UNCHANGED <<table, simVars, request, historyVars>>

ScanEnds ==
  /\ scan.at = "scanning"
  /\ ~ SizeChanged /\ Ahead = {}
  /\ scan' = [scan EXCEPT !.at = "listed"]
  /\ UNCHANGED <<table, simVars, request, historyVars>>

\* The answer is sent; the next request may come.
ScanAnswer ==
  /\ scan.at \in {"listed", "failed"}
  /\ scan' = NoScan
  /\ UNCHANGED <<table, simVars, request, historyVars>>

-----------------------------------------------------------------------------
Handle(h) ==
  \/ CreateBuild(h)
  \/ CreateRegister(h)
  \/ Lookup(h)
  \/ Start(h)
  \/ ChangeStatus(h)
  \/ DeleteStop(h)
  \/ DeleteFinish(h)
  \/ DeleteRemove(h)

Monitor == ScanBegin \/ ScanNext \/ ScanFails \/ ScanEnds \/ ScanAnswer

Next ==
  \/ \E h \in Handlers : Handle(h)
  \/ \E s \in Sims : LoopDies(s)
  \/ Monitor

Spec == Init /\ [][Next]_vars

-----------------------------------------------------------------------------
(***************************************************************************)
(* Properties.                                                             *)
(***************************************************************************)
\* However many DELETEs of one simulation race, exactly one is answered 204 and
\* it is the one that removed it; the others fail (routes.py:309-312).
DeletedOnce ==
  \A s \in Sims : granted[s] = IF Deleted(s) THEN "one" ELSE "none"

(***************************************************************************)
(* routes.py:298-307, "what actually stops the leak": a deleted simulation *)
(* has no running loop, unless a start() whose handler had looked it up    *)
(* before came after the DELETE had stopped the loop.                      *)
(***************************************************************************)
LeakedOnlyByRace == \A s \in Sims : Deleted(s) /\ looping[s] => s \in revived

(***************************************************************************)
(* monitoring.py:85-97, "every simulation this process currently tracks":  *)
(* an iteration that ends well has listed exactly the simulations that are *)
(* registered at that moment, whatever was created and deleted since it    *)
(* began, unless an insertion has closed a hole behind the iterator; and   *)
(* one that fails does so because the registry changed.  (With a hole      *)
(* closed behind it, it may list a deleted simulation and leave out a      *)
(* registered one, and nothing tells.)                                     *)
(***************************************************************************)
ListsTheRegistry ==
  [][scan.at = "scanning" =>
       /\ scan'.at = "listed" /\ ~ shifted => scan.seen = registry
       /\ scan'.at = "failed" => churned]_vars

=============================================================================
