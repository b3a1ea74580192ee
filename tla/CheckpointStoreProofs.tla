------------------------ MODULE CheckpointStoreProofs ------------------------
(***************************************************************************)
(* Proofs about CheckpointStore, for any names, simulations and worlds and *)
(* any number of crashes.                                                  *)
(***************************************************************************)
EXTENDS CheckpointStore, TLAPS

\* A save under way owns its temp file, which holds what the save has written.
SaveInv ==
  /\ \A s \in Sims : pc[s] \in {"write", "replace"} =>
       /\ temp[s] \in TempIds
       /\ path[s] \in Names
       /\ world[s] \in Worlds
       /\ files[temp[s]] = IF pc[s] = "write" THEN "partial" ELSE world[s]
  /\ \A s \in Sims : pc[s] \notin {"write", "replace"} => temp[s] = None
  /\ \A r, s \in Sims : temp[r] # None /\ temp[r] = temp[s] => r = s

\* A load has found its file, and what it has found under a checkpoint's name
\* is a checkpoint and stays one.
NameInv ==
  /\ \A n \in Names : files[n] # "partial"
  /\ \A s \in Sims : pc[s] \in {"arrays", "respond"} =>
       path[s] \in Names /\ files[path[s]] \in Worlds

\* Where the listing is in its list of files: the names it began with exist,
\* and each is still to be looked at or listed; only the file just validated
\* is both.
ScanInv ==
  /\ \A n \in names : Exists(n)
  /\ todo \cap Names \subseteq names
  /\ listing \in {"scan", "stat"} => names \subseteq todo \cup listed
  /\ listing = "idle" => names = {}
  /\ listing = "scan" => todo \cap listed = {}
  /\ listing = "stat" => \E f \in Files : todo \cap listed = {f}

IInv == TypeOK /\ SaveInv /\ NameInv /\ ScanInv /\ TempsAccounted

-----------------------------------------------------------------------------
LEMMA InitIInv == Init => IInv
BY StoreAssumption
   DEF Init, IInv, TypeOK, SaveInv, NameInv, ScanInv, TempsAccounted, Files, Exists

\* A name and a temp file are never the same file.
LEMMA Disjoint == ASSUME NEW n \in Names, NEW t \in TempIds PROVE n # t
BY StoreAssumption

LEMMA SaveBeginIInv ==
  ASSUME IInv, NEW s \in Sims, NEW n \in Names, NEW w \in Worlds, SaveBegin(s, n, w)
  PROVE  IInv'
<1> PICK t \in TempIds : /\ ~ Exists(t)
                         /\ temp' = [temp EXCEPT ![s] = t]
                         /\ files' = [files EXCEPT ![t] = "partial"]
  BY DEF SaveBegin
<1> USE StoreAssumption DEF IInv, SaveBegin, Files, Exists, listVars
<1>1. TypeOK'
  BY DEF TypeOK
<1>2. SaveInv'
  BY DEF TypeOK, SaveInv
<1>3. NameInv'
  BY Disjoint DEF TypeOK, NameInv
<1>4. ScanInv'
  BY DEF TypeOK, ScanInv
<1>5. TempsAccounted'
  BY DEF TypeOK, SaveInv, TempsAccounted
<1> QED BY <1>1, <1>2, <1>3, <1>4, <1>5

LEMMA SaveStepIInv ==
  ASSUME IInv, NEW s \in Sims,
         SaveWrite(s) \/ SaveReplace(s) \/ SaveFails(s) \/ SaveRespond(s)
  PROVE  IInv'
<1> USE StoreAssumption DEF IInv, Return, Files, Exists, listVars
<1>1. CASE SaveWrite(s)
  <2> USE <1>1 DEF SaveWrite
  <2>1. TypeOK'
    BY DEF TypeOK, SaveInv
  <2>2. SaveInv'
    BY DEF TypeOK, SaveInv
  <2>3. NameInv' /\ ScanInv'
    BY Disjoint DEF TypeOK, SaveInv, NameInv, ScanInv
  <2>4. TempsAccounted'
    BY DEF TypeOK, SaveInv, TempsAccounted
  <2> QED BY <2>1, <2>2, <2>3, <2>4
<1>2. CASE SaveReplace(s)
  <2> USE <1>2 DEF SaveReplace
  <2>1. TypeOK'
    BY DEF TypeOK, SaveInv
  <2>2. SaveInv'
    BY DEF TypeOK, SaveInv
  <2>3. NameInv'
    BY Disjoint DEF TypeOK, SaveInv, NameInv
  <2>4. ScanInv'
    BY Disjoint DEF TypeOK, SaveInv, ScanInv
  <2>5. TempsAccounted'
    BY Disjoint DEF TypeOK, SaveInv, TempsAccounted
  <2> QED BY <2>1, <2>2, <2>3, <2>4, <2>5
<1>3. CASE SaveFails(s)
  <2> USE <1>3 DEF SaveFails
  <2>1. TypeOK'
    BY DEF TypeOK, SaveInv
  <2>2. SaveInv'
    BY DEF TypeOK, SaveInv
  <2>3. NameInv' /\ ScanInv'
    BY Disjoint DEF TypeOK, SaveInv, NameInv, ScanInv
  <2>4. TempsAccounted'
    BY DEF TypeOK, SaveInv, TempsAccounted
  <2> QED BY <2>1, <2>2, <2>3, <2>4
<1>4. CASE SaveRespond(s)
  BY <1>4 DEF SaveRespond, TypeOK, SaveInv, NameInv, ScanInv, TempsAccounted
<1> QED BY <1>1, <1>2, <1>3, <1>4

LEMMA LoadIInv ==
  ASSUME IInv, NEW s \in Sims, Load(s)
  PROVE  IInv'
<1> USE StoreAssumption DEF IInv, Return, Files, Exists, listVars
<1>1. ASSUME NEW n \in Names, LoadMetadata(s, n) PROVE IInv'
  BY <1>1 DEF LoadMetadata, TypeOK, SaveInv, NameInv, ScanInv, TempsAccounted
<1>2. CASE LoadArrays(s)
  BY <1>2 DEF LoadArrays, TypeOK, SaveInv, NameInv, ScanInv, TempsAccounted
<1>3. CASE LoadEnd(s)
  BY <1>3 DEF LoadEnd, TypeOK, SaveInv, NameInv, ScanInv, TempsAccounted
<1> QED BY <1>1, <1>2, <1>3 DEF Load

LEMMA ListIInv ==
  ASSUME IInv, List
  PROVE  IInv'
<1> USE DEF IInv, Files, Exists, callVars
<1>1. CASE ListBegin
  BY <1>1 DEF ListBegin, TypeOK, SaveInv, NameInv, ScanInv, TempsAccounted
<1>2. ASSUME NEW f \in Files, ListValidate(f) PROVE IInv'
  <2> USE <1>2 DEF ListValidate
  <2>1. TypeOK' /\ SaveInv' /\ NameInv' /\ TempsAccounted'
    BY DEF TypeOK, SaveInv, NameInv, TempsAccounted
  <2>2. ScanInv'
    <3>1. CASE files[f] \in Worlds
      BY <3>1 DEF ScanInv
    <3>2. CASE files[f] \notin Worlds
      <4>1. f \notin names
        BY <3>2 DEF ScanInv, NameInv, TypeOK
      <4> QED BY <3>2, <4>1 DEF ScanInv
    <3> QED BY <3>1, <3>2
  <2> QED BY <2>1, <2>2
<1>3. CASE ListStat
  <2> PICK f \in todo \cap listed :
        IF Exists(f) THEN listing' = "scan" /\ todo' = todo \ {f}
                     ELSE listing' = "failed" /\ UNCHANGED todo
    BY <1>3 DEF ListStat
  <2> USE <1>3 DEF ListStat
  <2>1. TypeOK' /\ SaveInv' /\ NameInv' /\ TempsAccounted'
    BY DEF TypeOK, SaveInv, NameInv, TempsAccounted
  <2>2. ScanInv'
    BY DEF TypeOK, ScanInv
  <2> QED BY <2>1, <2>2
<1>4. CASE ListEnd
  BY <1>4 DEF ListEnd, TypeOK, SaveInv, NameInv, ScanInv, TempsAccounted
<1> QED BY <1>1, <1>2, <1>3, <1>4 DEF List

LEMMA CrashIInv ==
  ASSUME IInv, Crash
  PROVE  IInv'
BY StoreAssumption
   DEF Crash, IInv, TypeOK, SaveInv, NameInv, ScanInv, TempsAccounted, Exists

LEMMA NextIInv == IInv /\ [Next]_vars => IInv'
<1> SUFFICES ASSUME IInv, [Next]_vars PROVE IInv'
  OBVIOUS
<1>1. CASE UNCHANGED vars
  BY <1>1 DEF vars, callVars, listVars, IInv, TypeOK, SaveInv, NameInv, ScanInv,
              TempsAccounted, Exists
<1> QED BY <1>1, SaveBeginIInv, SaveStepIInv, LoadIInv, ListIInv, CrashIInv DEF Next, Save

LEMMA SpecIInv == Spec => []IInv
BY InitIInv, NextIInv, PTL DEF Spec

-----------------------------------------------------------------------------
\* Type correctness of the checkpoint directory and of what the handlers keep.
THEOREM TypeOKAlways == Spec => []TypeOK
BY SpecIInv, PTL DEF IInv

\* Only a crash leaves a temp file that no save is working on
\* (checkpoint.py:150-152).
THEOREM TempsAccountedAlways == Spec => []TempsAccounted
BY SpecIInv, PTL DEF IInv

\* A listing that succeeds has every checkpoint that existed when it began
\* (routes.py:536-539).
THEOREM ListingCompleteAlways == Spec => []ListingComplete
<1>1. IInv => ListingComplete
  BY DEF IInv, ScanInv, ListingComplete
<1> QED BY SpecIInv, <1>1, PTL

-----------------------------------------------------------------------------
\* Every step of the directory is a step of the atomic store or none.
LEMMA StepKeepsAtomicStore ==
  ASSUME IInv, IInv', [Next]_vars
  PROVE  [Store!Next]_(Store!vars)
<1> DEFINE dest    == [n \in Names |-> files[n]]
           request == [s \in Sims |-> IF pc[s] \in {"write", "replace"}
                                        THEN <<path[s], world[s]>> ELSE None]
<1> USE StoreAssumption DEF IInv, Store!vars
<1>1. ASSUME NEW s \in Sims, NEW n \in Names, NEW w \in Worlds, SaveBegin(s, n, w)
      PROVE  Store!Begin(s, n, w)
  <2>1. dest' = dest
    BY <1>1, Disjoint DEF SaveBegin, TypeOK, Files
  <2>2. request[s] = None /\ request' = [request EXCEPT ![s] = <<n, w>>]
    BY <1>1 DEF SaveBegin, TypeOK
  <2> QED BY <2>1, <2>2 DEF Store!Begin
<1>2. ASSUME NEW s \in Sims, SaveWrite(s) PROVE UNCHANGED Store!vars
  <2>1. dest' = dest
    BY <1>2, Disjoint DEF SaveWrite, TypeOK, SaveInv, Files
  <2>2. request' = request
    BY <1>2 DEF SaveWrite, TypeOK
  <2> QED BY <2>1, <2>2
<1>3. ASSUME NEW s \in Sims, SaveReplace(s) PROVE Store!Commit(s)
  <2>1. request[s] = <<path[s], world[s]>> /\ request[s] # None
    <3>1. path[s] \in Names /\ world[s] \in Worlds
      BY <1>3 DEF SaveReplace, SaveInv
    <3>2. <<path[s], world[s]>> \in Names \X Worlds
      BY <3>1
    <3>3. request[s] = <<path[s], world[s]>>
      BY <1>3 DEF SaveReplace
    <3> HIDE DEF request
    <3> QED BY <3>2, <3>3
  <2>2. dest' = [dest EXCEPT ![path[s]] = world[s]]
    <3>1. files[temp[s]] = world[s] /\ temp[s] \in TempIds /\ path[s] \in Names
      BY <1>3 DEF SaveReplace, SaveInv
    <3>2. \A n \in Names : files'[n] = IF n = path[s] THEN world[s] ELSE files[n]
      BY <1>3, <3>1, Disjoint DEF SaveReplace, TypeOK, Files
    <3> QED BY <3>1, <3>2
  <2>3. request' = [request EXCEPT ![s] = None]
    BY <1>3 DEF SaveReplace, TypeOK
  <2> QED BY <2>1, <2>2, <2>3 DEF Store!Commit
<1>4. ASSUME NEW s \in Sims, SaveFails(s) PROVE Store!Abort(s)
  <2>1. dest' = dest
    BY <1>4, Disjoint DEF SaveFails, TypeOK, SaveInv, Files
  <2>2. request' = [request EXCEPT ![s] = None]
    BY <1>4 DEF SaveFails, Return, TypeOK
  <2> QED BY <2>1, <2>2 DEF Store!Abort
<1>5. ASSUME NEW s \in Sims, SaveRespond(s) \/ Load(s) PROVE UNCHANGED Store!vars
  <2>1. dest' = dest
    BY <1>5 DEF SaveRespond, Load, LoadMetadata, LoadArrays, LoadEnd
  <2>2. request' = request
    BY <1>5 DEF SaveRespond, Load, LoadMetadata, LoadArrays, LoadEnd, Return, TypeOK
  <2> QED BY <2>1, <2>2
<1>6. CASE List
  BY <1>6 DEF List, ListBegin, ListValidate, ListStat, ListEnd, callVars
<1>7. CASE Crash
  <2>1. dest' = dest
    BY <1>7 DEF Crash
  <2>2. request' = [s \in Sims |-> None]
    BY <1>7 DEF Crash
  <2> QED BY <2>1, <2>2 DEF Store!Crash, Store!Next
<1>8. CASE UNCHANGED vars
  BY <1>8 DEF vars, callVars
<1> QED BY <1>1, <1>2, <1>3, <1>4, <1>5, <1>6, <1>7, <1>8 DEF Next, Save, Store!Next

\* The directory of temp files, renames, failures and crashes implements a
\* store of whole checkpoints that are written at once (checkpoint.py:113-119).
THEOREM ImplementsAtomicStore == Spec => KeepsAtomicStore
<1>1. Init => Store!Init
  BY StoreAssumption DEF Init, Store!Init, Files
<1> QED BY SpecIInv, StepKeepsAtomicStore, <1>1, PTL DEF Spec, KeepsAtomicStore, Store!Spec

=============================================================================
