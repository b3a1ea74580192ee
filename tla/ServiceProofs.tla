---------------------------- MODULE ServiceProofs ----------------------------
(***************************************************************************)
(* Proofs about Service, for any finite set of simulations and any set of  *)
(* handlers.                                                               *)
(***************************************************************************)
EXTENDS Service, FiniteSetTheorems, TLAPS

(***************************************************************************)
(* An id that is about to be registered is new, and nobody else has it;    *)
(* every other id a handler works on has been registered.                  *)
(***************************************************************************)
FreshIds ==
  \A h \in Handlers :
    /\ request[h].at = "register" =>
         /\ request[h].sim \notin known
         /\ \A g \in Handlers \ {h} : request[g].sim # request[h].sim
    /\ request[h].at \notin {"idle", "register"} => request[h].sim \in known

(***************************************************************************)
(* From the moment a DELETE has stopped it on, a loop that runs has been   *)
(* started again.                                                          *)
(***************************************************************************)
RunsOnlyRevived == \A s \in Sims : StoppedByDelete(s) /\ looping[s] => s \in revived

IInv == TypeOK /\ FreshIds /\ DeletedOnce /\ RunsOnlyRevived

-----------------------------------------------------------------------------
LEMMA SameEntries == entries' = entries => registry' = registry
BY DEF registry

\* There are no more registered ids than ids, and the table has room for one more.
LEMMA RegistryFinite ==
  ASSUME TypeOK
  PROVE  /\ registry \subseteq Sims /\ IsFiniteSet(registry)
         /\ Cardinality(registry) \in 0 .. Cardinality(Sims)
         /\ Room(Cardinality(registry)) - Cardinality(registry) - 1 \in Nat
<1>1. registry \subseteq Sims
  BY DEF TypeOK
<1>2. /\ IsFiniteSet(registry) /\ Cardinality(registry) \in Nat
      /\ Cardinality(registry) <= Cardinality(Sims) /\ Cardinality(Sims) \in Nat
  BY <1>1, ServiceAssumption, FS_Subset, FS_CardinalityType
<1>3. Cardinality(registry) \in 0 .. Cardinality(Sims)
  BY <1>2
<1>4. /\ Room(Cardinality(registry)) \in Nat
      /\ Room(Cardinality(registry)) > Cardinality(registry)
  BY <1>3, ServiceAssumption
<1>5. QED BY <1>1, <1>2, <1>3, <1>4

\* A new id at the end of the table, which is otherwise as it was.
LEMMA InsertOne ==
  ASSUME TypeOK, NEW s \in Sims, Insert(s)
  PROVE  /\ entries' \in Seq(Sims \cup {None}) /\ room' \in Nat
         /\ Len(entries') = Len(entries) + 1
         /\ \A n \in 1 .. Len(entries) : entries'[n] = entries[n]
         /\ entries'[Len(entries) + 1] = s
         /\ registry' = registry \cup {s}
<1>1. /\ entries \in Seq(Sims \cup {None}) /\ Len(entries) \in Nat
      /\ entries' = Append(entries, s)
  BY DEF TypeOK, Insert
<1>2. entries' \in Seq(Sims \cup {None}) /\ Len(entries') = Len(entries) + 1
  BY <1>1
<1>3. /\ \A n \in 1 .. Len(entries) : entries'[n] = entries[n]
      /\ entries'[Len(entries) + 1] = s
  BY <1>1
<1>4. DOMAIN entries = 1 .. Len(entries) /\ DOMAIN entries' = 1 .. Len(entries) + 1
  BY <1>1, <1>2
<1>5. {entries'[n] : n \in DOMAIN entries'} = {entries[n] : n \in DOMAIN entries} \cup {s}
  <2>1. \A n \in DOMAIN entries' : n \in DOMAIN entries \/ n = Len(entries) + 1
    BY <1>1, <1>4
  <2>2. DOMAIN entries \subseteq DOMAIN entries' /\ Len(entries) + 1 \in DOMAIN entries'
    BY <1>1, <1>4
  <2>3. QED BY <2>1, <2>2, <1>3, <1>4
<1>6. registry' = registry \cup {s}
  BY <1>5, ServiceAssumption DEF registry
<1>7. room' \in Nat
  BY DEF TypeOK, Insert
<1>8. QED BY <1>2, <1>3, <1>6, <1>7

(***************************************************************************)
(* What a rebuilt table holds: the registered ids, each once, in the       *)
(* places they had if there was no hole before them, and the new id.       *)
(***************************************************************************)
LEMMA InsertRebuildsOne ==
  ASSUME TypeOK, NEW s \in Sims, s \notin registry, InsertRebuilds(s)
  PROVE  /\ entries' \in Seq(Sims \cup {None}) /\ room' \in Nat
         /\ registry' = registry \cup {s}
         /\ Len(entries') = Cardinality(registry) + 1
         /\ \A m, n \in 1 .. Len(entries') : entries'[m] = entries'[n] => m = n
         /\ \A n \in 1 .. Cardinality(registry) :
              n \in 1 .. Len(entries) /\ Holes(n) = {} => entries'[n] = entries[n]
<1> DEFINE used == Cardinality(registry)
<1>1. PICK packed \in Bijection(1 .. used, registry) :
        /\ \A n \in DOMAIN entries :
             entries[n] # None => packed[n - Cardinality(Holes(n))] = entries[n]
        /\ entries' = Append(packed, s)
  BY DEF InsertRebuilds
<1>2. used \in Nat /\ registry \subseteq Sims /\ room' \in Nat
  BY RegistryFinite DEF InsertRebuilds
<1> HIDE DEF used
<1>3. /\ packed \in [1 .. used -> registry]
      /\ \A m, n \in 1 .. used : packed[m] = packed[n] => m = n
      /\ \A r \in registry : \E n \in 1 .. used : packed[n] = r
  BY <1>1 DEF Bijection, Injection, Surjection, IsInjective
<1>4. packed \in Seq(Sims \cup {None}) /\ Len(packed) = used
  BY <1>2, <1>3
<1>5. /\ entries' \in Seq(Sims \cup {None}) /\ Len(entries') = used + 1
      /\ \A n \in 1 .. used : entries'[n] = packed[n]
      /\ entries'[used + 1] = s
  BY <1>1, <1>2, <1>4
<1>6. registry' = registry \cup {s}
  <2>1. DOMAIN entries' = 1 .. used + 1
    BY <1>5
  <2>2. \A n \in 1 .. used + 1 : n \in 1 .. used \/ n = used + 1
    BY <1>2
  <2>3. 1 .. used \subseteq 1 .. used + 1 /\ used + 1 \in 1 .. used + 1
    BY <1>2
  <2>4. {entries'[n] : n \in 1 .. used + 1} = registry \cup {s}
    BY <1>3, <1>5, <2>2, <2>3
  <2>5. None \notin registry /\ None # s
    BY <1>2, ServiceAssumption
  <2>6. registry' = {entries'[n] : n \in 1 .. used + 1} \ {None}
    BY <2>1 DEF registry
  <2>7. QED BY <2>4, <2>5, <2>6
<1>7. \A m, n \in 1 .. Len(entries') : entries'[m] = entries'[n] => m = n
  <2>1. \A n \in 1 .. used + 1 : n \in 1 .. used \/ n = used + 1
    BY <1>2
  <2>2. \A n \in 1 .. used : packed[n] # s
    BY <1>3
  <2>3. QED BY <1>3, <1>5, <2>1, <2>2
<1>8. ASSUME NEW n \in 1 .. used, n \in 1 .. Len(entries), Holes(n) = {}
      PROVE  entries'[n] = entries[n]
  <2>1. n \in Nat /\ n \in 1 .. n
    BY <1>2
  <2>2. n \in DOMAIN entries /\ entries[n] # None
    BY <1>8, <2>1 DEF Holes, TypeOK
  <2>3. n - Cardinality(Holes(n)) = n
    BY <1>8, <2>1, FS_EmptySet
  <2>4. QED BY <1>1, <1>5, <2>2, <2>3
<1>9. QED BY <1>2, <1>5, <1>6, <1>7, <1>8 DEF used

\* A removal leaves a hole, and everything else in its place.
LEMMA RemoveOne ==
  ASSUME TypeOK, NEW s \in Sims, Remove(s)
  PROVE  /\ entries' \in Seq(Sims \cup {None})
         /\ Len(entries') = Len(entries)
         /\ \A n \in 1 .. Len(entries) :
              entries'[n] = IF entries[n] = s THEN None ELSE entries[n]
         /\ registry' = registry \ {s}
<1>1. entries \in Seq(Sims \cup {None}) /\ Len(entries) \in Nat
  BY DEF TypeOK
<1>2. /\ DOMAIN entries = 1 .. Len(entries) /\ DOMAIN entries' = 1 .. Len(entries)
      /\ entries' \in [1 .. Len(entries) -> Sims \cup {None}]
  BY <1>1 DEF Remove
<1>3. entries' \in Seq(Sims \cup {None}) /\ Len(entries') = Len(entries)
  BY <1>1, <1>2
<1>4. \A n \in 1 .. Len(entries) : entries'[n] = IF entries[n] = s THEN None ELSE entries[n]
  BY <1>2 DEF Remove
<1>5. registry' = registry \ {s}
  BY <1>2, <1>4, ServiceAssumption DEF registry
<1>6. QED BY <1>3, <1>4, <1>5

\* A handler that is done leaves the fresh ids of the others alone.
LEMMA BackToIdle ==
  ASSUME TypeOK, FreshIds, NEW h \in Handlers, request' = [request EXCEPT ![h] = Idle],
         \/ known' = known
         \/ request[h].at = "register" /\ known' = known \cup {request[h].sim}
  PROVE  FreshIds'
<1> SUFFICES ASSUME NEW g \in Handlers
             PROVE  /\ request'[g].at = "register" =>
                         /\ request'[g].sim \notin known'
                         /\ \A f \in Handlers \ {g} : request'[f].sim # request'[g].sim
                    /\ request'[g].at \notin {"idle", "register"} => request'[g].sim \in known'
  BY DEF FreshIds
<1>1. request'[h].at = "idle" /\ request'[h].sim = None
  BY DEF TypeOK, Idle
<1>2. \A f \in Handlers \ {h} : request'[f] = request[f]
  BY DEF TypeOK
<1>3. request[g].at = "register" => request[g].sim \in Sims
  BY DEF TypeOK, Requests, Idle
<1>4. CASE g = h
  BY <1>1, <1>4
<1>5. CASE g # h
  BY <1>1, <1>2, <1>3, <1>5, ServiceAssumption DEF FreshIds
<1>6. QED BY <1>4, <1>5

LEMMA InitIInv == Init => IInv
<1> SUFFICES ASSUME Init PROVE IInv
  OBVIOUS
<1> USE DEF Init
<1>1. registry = {} /\ known = {} /\ entries \in Seq(Sims \cup {None}) /\ room \in Nat
  <2>1. PICK past \in Past : entries = [n \in 1 .. past |-> None] /\ room = Room(0) - past
    OBVIOUS
  <2>2. past \in Nat /\ Room(0) - past \in Nat
    <3>1. Cardinality(Sims) \in Nat
      BY ServiceAssumption, FS_CardinalityType
    <3>2. Room(0) \in Nat /\ past \in 0 .. Room(0)
      BY <2>1, <3>1, ServiceAssumption
    <3>3. QED BY <3>2
  <2>3. entries \in Seq(Sims \cup {None}) /\ room \in Nat
    BY <2>1, <2>2
  <2>4. registry = {}
    BY <2>1 DEF registry
  <2>5. QED BY <2>3, <2>4
<1>2. TypeOK
  <2>1. looping \in [Sims -> BOOLEAN] /\ churned \in BOOLEAN /\ shifted \in BOOLEAN
    BY Zenon
  <2>2. scan \in Scans
    BY DEF Scans, NoScan
  <2>3. QED BY <1>1, <2>1, <2>2 DEF TypeOK, Requests, Status
<1>3. FreshIds /\ DeletedOnce /\ RunsOnlyRevived
  BY <1>1 DEF FreshIds, DeletedOnce, RunsOnlyRevived, Deleted, Idle
<1>4. QED BY <1>2, <1>3 DEF IInv

LEMMA NextIInv == IInv /\ [Next]_vars => IInv'
<1> SUFFICES ASSUME IInv, [Next]_vars PROVE IInv'
  OBVIOUS
<1> USE ServiceAssumption DEF IInv
<1>0. known \subseteq Sims /\ registry \subseteq known
  BY DEF TypeOK
<1>1. ASSUME NEW h \in Handlers, CreateBuild(h) PROVE IInv'
  <2> USE <1>1 DEF CreateBuild
  <2>1. registry' = registry /\ known' = known
    BY SameEntries DEF table, historyVars
  <2>2. PICK s \in Sims \ known :
          /\ \A g \in Handlers : request[g].sim # s
          /\ request' = [request EXCEPT ![h] = [at |-> "register", sim |-> s]]
    OBVIOUS
  <2>3. TypeOK'
    BY <2>1, <2>2 DEF TypeOK, Requests, simVars, historyVars, scanHistory, table
  <2>4. FreshIds'
    BY <2>1, <2>2 DEF TypeOK, FreshIds
  <2>5. DeletedOnce'
    BY <2>1 DEF DeletedOnce, Deleted, historyVars
  <2>6. RunsOnlyRevived'
    BY <2>1, <2>2 DEF TypeOK, RunsOnlyRevived, StoppedByDelete, Deleted, simVars, historyVars, scanHistory, table
  <2>7. QED BY <2>3, <2>4, <2>5, <2>6
<1>2. ASSUME NEW h \in Handlers, CreateRegister(h) PROVE IInv'
  <2> USE <1>2 DEF CreateRegister
  <2> DEFINE s == request[h].sim
  <2>1. s \in Sims /\ s \notin known /\ s \notin registry
    BY <1>0 DEF TypeOK, Requests, Idle, FreshIds
  <2>2. /\ entries' \in Seq(Sims \cup {None}) /\ room' \in Nat
        /\ registry' = registry \cup {s} /\ known' = known \cup {s}
    <3>1. CASE Insert(s)
      BY <2>1, <3>1, InsertOne
    <3>2. CASE InsertRebuilds(s)
      BY <2>1, <3>2, InsertRebuildsOne
    <3>3. QED BY <3>1, <3>2
  <2>3. shifted' \in BOOLEAN
    BY DEF TypeOK, Insert, InsertRebuilds
  <2>4. TypeOK'
    BY <2>1, <2>2, <2>3 DEF TypeOK, Requests, simVars
  <2>5. FreshIds'
    BY <2>2, BackToIdle
  <2>6. DeletedOnce'
    BY <2>1, <2>2 DEF DeletedOnce, Deleted
  <2>7. RunsOnlyRevived'
    BY <2>1, <2>2 DEF TypeOK, RunsOnlyRevived, StoppedByDelete, Deleted, Idle, simVars
  <2>8. QED BY <2>4, <2>5, <2>6, <2>7
<1>3. ASSUME NEW h \in Handlers, Lookup(h) PROVE IInv'
  <2> USE <1>3 DEF Lookup
  <2>1. registry' = registry /\ known' = known
    BY SameEntries DEF table, historyVars
  <2>2. PICK s \in registry, op \in Calls :
          request' = [request EXCEPT ![h] = [at |-> op, sim |-> s]]
    OBVIOUS
  <2>3. s \in known /\ s \in Sims
    BY <1>0 DEF TypeOK
  <2>4. TypeOK'
    BY <2>1, <2>2, <2>3 DEF TypeOK, Requests, simVars, historyVars, scanHistory, table
  <2>5. FreshIds'
    BY <2>1, <2>2, <2>3 DEF TypeOK, FreshIds, Calls
  <2>6. DeletedOnce'
    BY <2>1 DEF DeletedOnce, Deleted, historyVars
  <2>7. RunsOnlyRevived'
    BY <2>1, <2>2 DEF TypeOK, RunsOnlyRevived, StoppedByDelete, Deleted, Calls, simVars, historyVars, scanHistory, table
  <2>8. QED BY <2>4, <2>5, <2>6, <2>7
<1>4. ASSUME NEW h \in Handlers, Start(h) PROVE IInv'
  <2> USE <1>4 DEF Start
  <2>1. registry' = registry /\ known' = known
    BY SameEntries DEF table, historyVars
  <2>2. request[h].sim \in Sims
    BY DEF TypeOK, Requests, Idle
  <2>3. TypeOK'
    <3>1. status' \in [Sims -> Status]
      BY <2>2 DEF TypeOK, Status, simVars
    <3>2. looping' \in [Sims -> BOOLEAN]
      BY <2>2 DEF TypeOK, simVars
    <3>3. revived' \subseteq Sims
      BY <2>2 DEF TypeOK
    <3>4. request' \in [Handlers -> Requests]
      BY DEF TypeOK, Requests
    <3>5. QED BY <2>1, <3>1, <3>2, <3>3, <3>4 DEF TypeOK, scanHistory, table
  <2>4. FreshIds'
    BY <2>1, BackToIdle
  <2>5. DeletedOnce'
    BY <2>1 DEF DeletedOnce, Deleted
  <2>6. \A r \in Sims : StoppedByDelete(r)' => StoppedByDelete(r)
    BY <2>1 DEF TypeOK, StoppedByDelete, Deleted, Idle
  <2>7. RunsOnlyRevived'
    BY <2>2, <2>6 DEF TypeOK, RunsOnlyRevived, simVars
  <2>8. QED BY <2>3, <2>4, <2>5, <2>7
<1>5. ASSUME NEW h \in Handlers, ChangeStatus(h) PROVE IInv'
  <2> USE <1>5 DEF ChangeStatus
  <2>1. registry' = registry /\ known' = known
    BY SameEntries DEF table, historyVars
  <2>2. request[h].sim \in Sims
    BY DEF TypeOK, Requests, Idle
  <2>3. Transition(request[h].at).to \in Status
    BY DEF Transition, Status
  <2>4. TypeOK'
    BY <2>1, <2>2, <2>3 DEF TypeOK, Requests, simVars, historyVars, scanHistory, table
  <2>5. FreshIds'
    BY <2>1, BackToIdle
  <2>6. DeletedOnce'
    BY <2>1 DEF DeletedOnce, Deleted, historyVars
  <2>7. RunsOnlyRevived'
    BY <2>1 DEF TypeOK, RunsOnlyRevived, StoppedByDelete, Deleted, Idle, historyVars
  <2>8. QED BY <2>4, <2>5, <2>6, <2>7
<1>6. ASSUME NEW s \in Sims, LoopDies(s) PROVE IInv'
  <2> USE <1>6 DEF LoopDies
  <2>1. registry' = registry /\ known' = known
    BY SameEntries DEF table, historyVars
  <2>2. TypeOK' /\ FreshIds'
    BY <2>1 DEF TypeOK, FreshIds, historyVars, scanHistory, table
  <2>3. DeletedOnce' /\ RunsOnlyRevived'
    BY <2>1 DEF TypeOK, DeletedOnce, RunsOnlyRevived, StoppedByDelete, Deleted, historyVars
  <2>4. QED BY <2>2, <2>3
<1>7. ASSUME NEW h \in Handlers, DeleteStop(h) PROVE IInv'
  <2> USE <1>7 DEF DeleteStop
  <2>1. registry' = registry /\ known' = known
    BY SameEntries DEF table, historyVars
  <2>2. request[h].sim \in Sims /\ request[h].sim \in known
    BY <1>0 DEF TypeOK, Requests, Idle, FreshIds
  <2>3. TypeOK'
    BY <2>1, <2>2 DEF TypeOK, Requests, Idle, historyVars, scanHistory, table
  <2>4. FreshIds'
    BY <2>1, <2>2 DEF TypeOK, FreshIds
  <2>5. DeletedOnce'
    BY <2>1 DEF DeletedOnce, Deleted, historyVars
  <2>6. \A r \in Sims \ {request[h].sim} : StoppedByDelete(r)' => StoppedByDelete(r)
    BY <2>1 DEF TypeOK, StoppedByDelete, Deleted
  <2>7. RunsOnlyRevived'
    BY <2>2, <2>6 DEF TypeOK, RunsOnlyRevived, historyVars
  <2>8. QED BY <2>3, <2>4, <2>5, <2>7
<1>8. ASSUME NEW h \in Handlers, DeleteFinish(h) PROVE IInv'
  <2> USE <1>8 DEF DeleteFinish
  <2>1. registry' = registry /\ known' = known
    BY SameEntries DEF table, historyVars
  <2>2. request[h].sim \in Sims /\ request[h].sim \in known
    BY <1>0 DEF TypeOK, Requests, Idle, FreshIds
  <2>3. TypeOK'
    BY <2>1, <2>2 DEF TypeOK, Requests, Idle, Status, historyVars, scanHistory, table
  <2>4. FreshIds'
    BY <2>1, <2>2 DEF TypeOK, FreshIds
  <2>5. DeletedOnce'
    BY <2>1 DEF DeletedOnce, Deleted, historyVars
  <2>6. RunsOnlyRevived'
    BY <2>1 DEF TypeOK, RunsOnlyRevived, StoppedByDelete, Deleted, historyVars
  <2>7. QED BY <2>3, <2>4, <2>5, <2>6
<1>9. ASSUME NEW h \in Handlers, DeleteRemove(h) PROVE IInv'
  <2> USE <1>9 DEF DeleteRemove
  <2> DEFINE s == request[h].sim
  <2>1. s \in Sims /\ s \in known
    BY <1>0 DEF TypeOK, Requests, Idle, FreshIds
  <2>2. /\ entries' \in Seq(Sims \cup {None}) /\ known' = known
        /\ registry' = registry \ {s}
    <3>1. CASE s \in registry
      BY <2>1, <3>1, RemoveOne
    <3>2. CASE s \notin registry
      <4>1. entries' = entries /\ registry' = registry
        BY <3>2, SameEntries
      <4>2. QED BY <3>2, <4>1 DEF TypeOK
    <3>3. QED BY <3>1, <3>2
  <2>3. TypeOK'
    BY <2>1, <2>2 DEF TypeOK, Requests, simVars, Grant
  <2>4. FreshIds'
    <3>1. known' = known
      BY <2>2
    <3>2. QED BY <3>1, BackToIdle
  <2>5. DeletedOnce'
    <3>1. CASE s \in registry
      BY <2>1, <2>2, <3>1 DEF TypeOK, DeletedOnce, Deleted, Grant
    <3>2. CASE s \notin registry
      BY <2>2, <3>2 DEF DeletedOnce, Deleted
    <3>3. QED BY <3>1, <3>2
  <2>6. \A r \in Sims : StoppedByDelete(r)' => StoppedByDelete(r)
    BY <2>1, <2>2 DEF TypeOK, StoppedByDelete, Deleted, Idle
  <2>7. RunsOnlyRevived'
    BY <2>6 DEF RunsOnlyRevived, simVars
  <2>8. QED BY <2>3, <2>4, <2>5, <2>7
<1>10. ASSUME Monitor PROVE IInv'
  <2> USE <1>10 DEF Monitor
  <2>1. /\ UNCHANGED <<table, simVars, request, known, granted, revived>>
        /\ churned' \in BOOLEAN /\ shifted' \in BOOLEAN
    BY DEF TypeOK, ScanBegin, ScanNext, ScanFails, ScanEnds, ScanAnswer, historyVars, scanHistory
  <2>2. registry' = registry
    BY <2>1, SameEntries DEF table
  <2>3. scan' \in Scans
    <3>1. Cardinality(registry) \in Nat
      BY RegistryFinite
    <3>2. \A n \in Ahead : entries[n] \in Sims /\ n \in Nat
      BY DEF TypeOK, Ahead, Scans
    <3>3. CASE ScanBegin
      BY <3>1, <3>3 DEF Scans, NoScan, ScanBegin
    <3>4. CASE ScanNext
      <4>1. PICK n \in Ahead :
              scan' = [scan EXCEPT !.seen = @ \cup {entries[n]}, !.last = n]
        BY <3>4 DEF ScanNext
      <4>2. scan.seen \cup {entries[n]} \in SUBSET Sims /\ n \in Nat
        BY <3>2 DEF TypeOK, Scans
      <4>3. QED BY <4>1, <4>2 DEF TypeOK, Scans
    <3>5. CASE ScanFails \/ ScanEnds
      BY <3>5 DEF TypeOK, Scans, ScanFails, ScanEnds
    <3>6. CASE ScanAnswer
      BY <3>6 DEF Scans, NoScan, ScanAnswer
    <3>7. QED BY <3>3, <3>4, <3>5, <3>6
  <2>4. TypeOK' /\ FreshIds'
    BY <2>1, <2>2, <2>3 DEF TypeOK, FreshIds, simVars, table
  <2>5. DeletedOnce' /\ RunsOnlyRevived'
    BY <2>1, <2>2 DEF DeletedOnce, RunsOnlyRevived, StoppedByDelete, Deleted, simVars
  <2>6. QED BY <2>4, <2>5
<1>11. ASSUME UNCHANGED vars PROVE IInv'
  <2>1. registry' = registry
    BY <1>11, SameEntries DEF vars, table
  <2>2. QED BY <1>11, <2>1 DEF vars, TypeOK, FreshIds, DeletedOnce, RunsOnlyRevived,
                               StoppedByDelete, Deleted, simVars, historyVars, scanHistory, table
<1>12. QED
  BY <1>1, <1>2, <1>3, <1>4, <1>5, <1>6, <1>7, <1>8, <1>9, <1>10, <1>11 DEF Next, Handle

-----------------------------------------------------------------------------
LEMMA Invariance == Spec => []IInv
BY InitIInv, NextIInv, PTL DEF Spec

\* The registry only has registered ids, every handler a simulation to work on.
THEOREM TypeOKAlways == Spec => []TypeOK
BY Invariance, PTL DEF IInv

\* Of any number of racing DELETEs of a simulation exactly one is granted.
THEOREM DeletedOnceAlways == Spec => []DeletedOnce
BY Invariance, PTL DEF IInv

\* A deleted simulation keeps a loop only through a start() that came too late.
THEOREM LeakedOnlyByRaceAlways == Spec => []LeakedOnlyByRace
<1>1. IInv => LeakedOnlyByRace
  BY DEF IInv, RunsOnlyRevived, LeakedOnlyByRace, StoppedByDelete
<1>2. QED BY <1>1, Invariance, PTL

-----------------------------------------------------------------------------
(***************************************************************************)
(* The iteration of GET /metrics.  Unless entries have moved behind it, it *)
(* has listed those it has passed that are still there; while nothing has  *)
(* changed, it has listed nothing else and nothing that is ahead.          *)
(***************************************************************************)
ScanInv ==
  /\ \A m, n \in 1 .. Len(entries) : entries[m] # None /\ entries[m] = entries[n] => m = n
  /\ scan.at = "scanning" =>
       /\ Cardinality(scan.seen) <= scan.size
       /\ ~ shifted =>
            /\ scan.last <= Len(entries)
            /\ \A n \in 1 .. scan.last : entries[n] # None => entries[n] \in scan.seen
       /\ ~ churned =>
            /\ scan.size = Cardinality(registry)
            /\ scan.seen \subseteq registry
            /\ \A n \in scan.last + 1 .. Len(entries) : entries[n] \notin scan.seen

LEMMA ScanFinite ==
  ASSUME TypeOK
  PROVE  /\ IsFiniteSet(registry) /\ Cardinality(registry) \in Nat
         /\ IsFiniteSet(scan.seen) /\ Cardinality(scan.seen) \in Nat
<1>1. scan.seen \subseteq Sims
  BY DEF TypeOK, Scans
<1>2. QED BY <1>1, RegistryFinite, ServiceAssumption, FS_Subset, FS_CardinalityType

LEMMA EntryRegistered ==
  ASSUME TypeOK
  PROVE  /\ \A n \in 1 .. Len(entries) : entries[n] # None => entries[n] \in registry
         /\ \A s \in registry : \E n \in 1 .. Len(entries) : entries[n] = s /\ s # None
BY DEF TypeOK, registry

\* A table without holes up to n holds n registered ids there.
LEMMA DensePrefix ==
  ASSUME TypeOK, ScanInv, NEW k \in Nat, k <= Len(entries), Holes(k) = {}
  PROVE  k <= Cardinality(registry)
<1>1. entries \in Seq(Sims \cup {None}) /\ Len(entries) \in Nat
  BY DEF TypeOK
<1>2. \A n \in 1 .. k : n \in 1 .. Len(entries) /\ entries[n] # None
  BY <1>1 DEF Holes
<1> DEFINE prefix == [n \in 1 .. k |-> entries[n]]
<1>3. prefix \in [1 .. k -> registry]
  BY <1>2, EntryRegistered
<1>4. \A m, n \in 1 .. k : prefix[m] = prefix[n] => m = n
  BY <1>2 DEF ScanInv
<1>5. prefix \in Injection(1 .. k, registry)
  BY <1>3, <1>4 DEF Injection, IsInjective
<1>6. Cardinality(1 .. k) <= Cardinality(registry)
  BY <1>5, RegistryFinite, FS_Injection
<1>7. Cardinality(1 .. k) = k
  BY FS_Interval
<1>8. QED BY <1>6, <1>7

LEMMA NextScanInv == IInv /\ ScanInv /\ [Next]_vars => ScanInv'
<1> SUFFICES ASSUME IInv, ScanInv, [Next]_vars PROVE ScanInv'
  OBVIOUS
<1>1. /\ entries \in Seq(Sims \cup {None}) /\ Len(entries) \in Nat
      /\ scan.last \in Nat /\ scan.size \in Nat /\ scan.seen \subseteq Sims
  BY DEF IInv, TypeOK, Scans
<1>2. ASSUME NEW h \in Handlers, CreateRegister(h) PROVE ScanInv'
  <2> DEFINE s == request[h].sim
  <2>1. TypeOK /\ s \in Sims /\ s \notin registry /\ s # None
    BY <1>2, ServiceAssumption DEF CreateRegister, IInv, TypeOK, Requests, Idle, FreshIds
  <2>2. churned' = TRUE /\ scan' = scan
    BY <1>2 DEF CreateRegister
  <2>3. CASE Insert(s)
    <3>1. /\ Len(entries') = Len(entries) + 1
          /\ \A n \in 1 .. Len(entries) : entries'[n] = entries[n] /\ entries[n] # s
          /\ entries'[Len(entries) + 1] = s
          /\ shifted' = shifted
      BY <2>1, <2>3, InsertOne, EntryRegistered DEF Insert
    <3>2. \A n \in 1 .. Len(entries') : n \in 1 .. Len(entries) \/ n = Len(entries) + 1
      BY <1>1, <3>1
    <3>3. \A m, n \in 1 .. Len(entries') :
            entries'[m] # None /\ entries'[m] = entries'[n] => m = n
      BY <3>1, <3>2 DEF ScanInv
    <3>4. scan.at = "scanning" /\ ~ shifted =>
            /\ scan.last <= Len(entries')
            /\ \A n \in 1 .. scan.last : entries'[n] # None => entries'[n] \in scan.seen
      BY <1>1, <3>1 DEF ScanInv
    <3>5. QED BY <2>2, <3>1, <3>3, <3>4 DEF ScanInv
  <2>4. CASE InsertRebuilds(s)
    <3>1. /\ Len(entries') = Cardinality(registry) + 1
          /\ \A m, n \in 1 .. Len(entries') : entries'[m] = entries'[n] => m = n
          /\ \A n \in 1 .. Cardinality(registry) :
               n \in 1 .. Len(entries) /\ Holes(n) = {} => entries'[n] = entries[n]
      BY <2>1, <2>4, InsertRebuildsOne
    <3>2. ASSUME scan.at = "scanning", ~ shifted'
          PROVE  /\ scan.last <= Len(entries')
                 /\ \A n \in 1 .. scan.last : entries'[n] # None => entries'[n] \in scan.seen
      <4>1. ~ shifted /\ Holes(scan.last) = {}
        BY <2>4, <3>2 DEF InsertRebuilds
      <4>2. scan.last <= Len(entries)
        BY <3>2, <4>1 DEF ScanInv
      <4>3. Cardinality(registry) \in Nat /\ scan.last <= Cardinality(registry)
        BY <1>1, <2>1, <4>1, <4>2, DensePrefix, RegistryFinite
      <4>4. \A n \in 1 .. scan.last : Holes(n) = {}
        BY <1>1, <4>1 DEF Holes
      <4>5. \A n \in 1 .. scan.last : n \in 1 .. Len(entries) /\ n \in 1 .. Cardinality(registry)
        BY <1>1, <4>2, <4>3
      <4>6. \A n \in 1 .. scan.last : entries'[n] = entries[n]
        BY <3>1, <4>4, <4>5
      <4>7. QED BY <1>1, <3>1, <3>2, <4>1, <4>3, <4>6 DEF ScanInv
    <3>3. QED BY <2>2, <3>1, <3>2 DEF ScanInv
  <2>5. QED BY <1>2, <2>3, <2>4 DEF CreateRegister
<1>3. ASSUME NEW h \in Handlers, DeleteRemove(h) PROVE ScanInv'
  <2> DEFINE s == request[h].sim
  <2>1. CASE s \in registry
    <3>1. TypeOK /\ s \in Sims /\ Remove(s) /\ churned' = TRUE /\ scan' = scan /\ shifted' = shifted
      BY <1>3, <2>1 DEF DeleteRemove, IInv, TypeOK
    <3>2. /\ Len(entries') = Len(entries)
          /\ \A n \in 1 .. Len(entries) :
               entries'[n] # None => entries'[n] = entries[n]
      BY <3>1, RemoveOne
    <3>3. \A m, n \in 1 .. Len(entries) :
            entries'[m] # None /\ entries'[m] = entries'[n] => m = n
      BY <3>2 DEF ScanInv
    <3>4. scan.at = "scanning" /\ ~ shifted =>
            \A n \in 1 .. scan.last : entries'[n] # None => entries'[n] \in scan.seen
      BY <1>1, <3>2 DEF ScanInv
    <3>5. QED BY <3>1, <3>2, <3>3, <3>4 DEF ScanInv
  <2>2. CASE s \notin registry
    <3>1. UNCHANGED <<entries, scan, churned, shifted>>
      BY <1>3, <2>2 DEF DeleteRemove
    <3>2. QED BY <3>1, SameEntries DEF ScanInv
  <2>3. QED BY <2>1, <2>2
<1>4. ASSUME ScanBegin PROVE ScanInv'
  <2>1. /\ entries' = entries /\ registry' = registry
        /\ scan'.seen = {} /\ scan'.last = 0 /\ scan'.size = Cardinality(registry)
    BY <1>4, SameEntries DEF ScanBegin, NoScan, table
  <2>2. Cardinality({}) = 0 /\ Cardinality(registry) \in Nat
    BY ScanFinite, FS_EmptySet DEF IInv
  <2>3. QED BY <1>1, <2>1, <2>2 DEF ScanInv
<1>5. ASSUME ScanNext PROVE ScanInv'
  <2>1. PICK n \in Ahead :
          /\ \A k \in Ahead : n <= k
          /\ scan' = [scan EXCEPT !.seen = @ \cup {entries[n]}, !.last = n]
    BY <1>5 DEF ScanNext
  <2>2. /\ scan'.seen = scan.seen \cup {entries[n]} /\ scan'.last = n
        /\ scan'.size = scan.size /\ scan.at = "scanning"
    BY <1>5, <2>1 DEF ScanNext, IInv, TypeOK, Scans
  <2>3. /\ n \in scan.last + 1 .. Len(entries) /\ entries[n] # None
        /\ \A k \in scan.last + 1 .. n - 1 : entries[k] = None
    BY <1>1, <2>1 DEF Ahead
  <2>4. UNCHANGED <<entries, registry, churned, shifted>>
    BY <1>5, SameEntries DEF ScanNext, table, historyVars, scanHistory
  <2>5. Cardinality(scan.seen \cup {entries[n]}) <= scan.size
    <3>1. /\ IsFiniteSet(scan.seen) /\ Cardinality(scan.seen) \in Nat
          /\ Cardinality(scan.seen) <= scan.size /\ Cardinality(scan.seen) # scan.size
      BY <1>5, <2>2, ScanFinite DEF IInv, ScanInv, ScanNext, Exhausted
    <3>2. Cardinality(scan.seen \cup {entries[n]}) \in {Cardinality(scan.seen), Cardinality(scan.seen) + 1}
      BY <3>1, FS_AddElement
    <3>3. QED BY <1>1, <3>1, <3>2
  <2>6. ~ shifted => \A k \in 1 .. n : entries[k] # None => entries[k] \in scan'.seen
    <3> SUFFICES ASSUME ~ shifted, NEW k \in 1 .. n, entries[k] # None
                 PROVE  entries[k] \in scan'.seen
      OBVIOUS
    <3>1. CASE k <= scan.last
      BY <1>1, <2>2, <3>1 DEF ScanInv
    <3>2. CASE k > scan.last
      BY <1>1, <2>2, <2>3, <3>2
    <3>3. QED BY <1>1, <2>3, <3>1, <3>2
  <2>7. ~ churned => scan'.seen \subseteq registry
    BY <1>1, <2>2, <2>3, EntryRegistered DEF ScanInv, IInv
  <2>8. ~ churned => \A k \in n + 1 .. Len(entries) : entries[k] \notin scan'.seen
    <3> SUFFICES ASSUME ~ churned, NEW k \in n + 1 .. Len(entries)
                 PROVE  entries[k] \notin scan'.seen
      OBVIOUS
    <3>1. k \in scan.last + 1 .. Len(entries) /\ n \in 1 .. Len(entries) /\ k \in 1 .. Len(entries) /\ k # n
      BY <1>1, <2>3
    <3>2. entries[k] \notin scan.seen
      BY <2>2, <3>1 DEF ScanInv
    <3>3. entries[k] # entries[n]
      BY <2>3, <3>1 DEF ScanInv
    <3>4. QED BY <2>2, <3>2, <3>3
  <2>9. n <= Len(entries)
    BY <1>1, <2>3
  <2>10. QED BY <2>2, <2>4, <2>5, <2>6, <2>7, <2>8, <2>9 DEF ScanInv
<1>6. ASSUME ScanFails \/ ScanEnds \/ ScanAnswer PROVE ScanInv'
  <2>1. entries' = entries /\ scan'.at # "scanning"
    BY <1>6 DEF ScanFails, ScanEnds, ScanAnswer, NoScan, IInv, TypeOK, Scans, table
  <2>2. QED BY <2>1 DEF ScanInv
<1>7. ASSUME UNCHANGED <<entries, scan, churned, shifted>> PROVE ScanInv'
  BY <1>7, SameEntries DEF ScanInv
<1>8. QED
  BY <1>2, <1>3, <1>4, <1>5, <1>6, <1>7
  DEF Next, Handle, Monitor, vars, table, historyVars, scanHistory, CreateBuild, Lookup, Start,
      ChangeStatus, DeleteStop, DeleteFinish, LoopDies

(***************************************************************************)
(* An iteration of GET /metrics behind which no hole was closed lists      *)
(* exactly the registry, or fails because of a create or a delete.         *)
(***************************************************************************)
THEOREM ListsTheRegistryAlways == Spec => ListsTheRegistry
<1> DEFINE Step == scan.at = "scanning" =>
                     /\ scan'.at = "listed" /\ ~ shifted => scan.seen = registry
                     /\ scan'.at = "failed" => churned
<1>1. ASSUME Init PROVE ScanInv
  <2>1. TypeOK /\ registry = {}
    BY <1>1, InitIInv DEF Init, IInv, TypeOK
  <2>2. \A n \in 1 .. Len(entries) : entries[n] = None
    BY <2>1, EntryRegistered
  <2>3. scan.at # "scanning"
    BY <1>1 DEF Init, NoScan
  <2>4. QED BY <2>2, <2>3 DEF ScanInv
<1>2. ASSUME IInv, ScanInv, Next, scan.at = "scanning", scan'.at = "listed", ~ shifted
      PROVE  scan.seen = registry
  <2>1. ~ SizeChanged /\ Ahead = {}
    BY <1>2 DEF Next, Handle, Monitor, historyVars, CreateBuild, CreateRegister, Lookup, Start,
                ChangeStatus, DeleteStop, DeleteFinish, DeleteRemove, LoopDies, ScanBegin,
                ScanNext, ScanFails, ScanEnds, ScanAnswer, NoScan, IInv, TypeOK, Scans
  <2>2. registry \subseteq scan.seen
    <3> SUFFICES ASSUME NEW s \in registry PROVE s \in scan.seen
      OBVIOUS
    <3>1. PICK n \in 1 .. Len(entries) : entries[n] = s /\ s # None
      BY <1>2, EntryRegistered DEF IInv
    <3>2. n \in 1 .. scan.last
      BY <2>1, <3>1, <1>2 DEF Ahead, IInv, TypeOK, Scans
    <3>3. QED BY <3>1, <3>2, <1>2 DEF ScanInv
  <2>3. Cardinality(scan.seen) <= Cardinality(registry)
    BY <1>2, <2>1 DEF ScanInv, SizeChanged
  <2>4. /\ IsFiniteSet(scan.seen) /\ Cardinality(scan.seen) \in Nat
        /\ Cardinality(registry) \in Nat
    BY <1>2, ScanFinite DEF IInv
  <2>5. QED BY <2>2, <2>3, <2>4, FS_Subset
<1>3. ASSUME IInv, ScanInv, Next, scan.at = "scanning", scan'.at = "failed"
      PROVE  churned
  <2>1. SizeChanged \/ (Exhausted /\ Ahead # {})
    BY <1>3 DEF Next, Handle, Monitor, historyVars, CreateBuild, CreateRegister, Lookup, Start,
                ChangeStatus, DeleteStop, DeleteFinish, DeleteRemove, LoopDies, ScanBegin,
                ScanNext, ScanFails, ScanEnds, ScanAnswer, NoScan, IInv, TypeOK, Scans
  <2> SUFFICES ASSUME ~ churned PROVE FALSE
    OBVIOUS
  <2>2. Exhausted /\ Ahead # {} /\ Cardinality(scan.seen) = Cardinality(registry)
    BY <1>3, <2>1 DEF ScanInv, SizeChanged, Exhausted
  <2>3. IsFiniteSet(registry) /\ scan.seen \subseteq registry
    BY <1>3, ScanFinite DEF IInv, ScanInv
  <2>4. scan.seen = registry
    BY <2>2, <2>3, FS_Subset, ScanFinite, <1>3 DEF IInv
  <2>5. PICK n \in scan.last + 1 .. Len(entries) : entries[n] # None
    BY <2>2 DEF Ahead
  <2>6. n \in 1 .. Len(entries)
    BY <1>3, <2>5 DEF IInv, TypeOK, Scans
  <2>7. entries[n] \in registry
    BY <1>3, <2>5, <2>6, EntryRegistered DEF IInv
  <2>8. QED BY <1>3, <2>4, <2>5, <2>7 DEF ScanInv
<1>4. IInv /\ ScanInv /\ [Next]_vars => [Step]_vars
  BY <1>2, <1>3
<1>5. QED
  BY <1>1, <1>4, NextScanInv, Invariance, PTL DEF Spec, ListsTheRegistry

=============================================================================
