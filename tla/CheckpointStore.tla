--------------------------- MODULE CheckpointStore ---------------------------
(***************************************************************************)
(* The checkpoint directory (checkpoint.py) under the API handlers that    *)
(* save, load and list (api/routes.py), and a server that may crash.  A    *)
(* simulation's runtime holds its lock during a save or a load, so there   *)
(* is at most one of them per simulation; two simulations, and the listing *)
(* (which takes no lock), share the directory freely.                      *)
(*                                                                         *)
(* The content of a file is absent, partial (not yet a readable archive)   *)
(* or the world it was written from.  An open archive stays the file it    *)
(* was when it was opened, whatever replaces its name (POSIX).             *)
(***************************************************************************)
EXTENDS Naturals

CONSTANTS
  Names,        \* checkpoint names, <name>.npz
  TempIds,      \* names mkstemp() may choose: a bound, it never runs out
  Sims,         \* simulations
  Worlds,       \* the states a simulation may be in when it is saved
  WithGoals,    \* those of them that have goal positions
  MaxCrashes,   \* bound on the server's crashes
  None

ASSUME StoreAssumption ==
  /\ Names \cap TempIds = {}
  /\ WithGoals \subseteq Worlds
  /\ {"absent", "partial"} \cap Worlds = {}
  /\ MaxCrashes \in Nat
  /\ None \notin TempIds \cup (Worlds \X Worlds) \cup (Names \X Worlds)

Files == Names \cup TempIds

VARIABLES
  files,     \* the directory
  pc,        \* where each simulation's handler is
  path,      \* the name its call is about
  temp,      \* tmp_path of its save
  world,     \* the world its save writes; the metadata its load has read
  arrays,    \* the arrays its load has read
  listing,   \* where list_checkpoints() is
  todo,      \* the files its glob found that it has still to look at
  listed,    \* the files it has put in its answer
  names,     \* history: the names that existed when it began
  crashes    \* history: crashes so far

callVars == <<pc, path, temp, world, arrays>>
listVars == <<listing, todo, listed, names>>
vars == <<files, callVars, listVars, crashes>>

TypeOK ==
  /\ files \in [Files -> {"absent", "partial"} \cup Worlds]
  /\ pc \in [Sims -> {"idle", "write", "replace", "respond", "arrays", "loaded"}]
  /\ path \in [Sims -> Names \cup {None}]
  /\ temp \in [Sims -> TempIds \cup {None}]
  /\ world \in [Sims -> Worlds \cup {None}]
  /\ arrays \in [Sims -> Worlds \cup {None}]
  /\ listing \in {"idle", "scan", "stat", "failed"}
  /\ todo \subseteq Files
  /\ listed \subseteq Files
  /\ names \subseteq Names
  /\ crashes \in 0 .. MaxCrashes

Init ==
  /\ files = [f \in Files |-> "absent"]
  /\ pc = [s \in Sims |-> "idle"]
  /\ path = [s \in Sims |-> None]
  /\ temp = [s \in Sims |-> None]
  /\ world = [s \in Sims |-> None]
  /\ arrays = [s \in Sims |-> None]
  /\ listing = "idle"
  /\ todo = {}
  /\ listed = {}
  /\ names = {}
  /\ crashes = 0

Exists(f) == files[f] # "absent"

\* The handler's call ends.
Return(s) ==
  /\ pc' = [pc EXCEPT ![s] = "idle"]
  /\ path' = [path EXCEPT ![s] = None]
  /\ temp' = [temp EXCEPT ![s] = None]
  /\ world' = [world EXCEPT ![s] = None]
  /\ arrays' = [arrays EXCEPT ![s] = None]

-----------------------------------------------------------------------------
(***************************************************************************)
(* save_checkpoint().                                                      *)
(***************************************************************************)
\* mkstemp() creates the temp file.
SaveBegin(s, n, w) ==
  /\ pc[s] = "idle"
  /\ pc' = [pc EXCEPT ![s] = "write"]
  /\ path' = [path EXCEPT ![s] = n]
  /\ world' = [world EXCEPT ![s] = w]
  /\ \E t \in TempIds :
       /\ ~ Exists(t)
       /\ temp' = [temp EXCEPT ![s] = t]
       /\ files' = [files EXCEPT ![t] = "partial"]
  /\ UNCHANGED <<arrays, listVars, crashes>>

\* np.savez() has written and closed the archive.
SaveWrite(s) ==
  /\ pc[s] = "write"
  /\ files' = [files EXCEPT ![temp[s]] = world[s]]
  /\ pc' = [pc EXCEPT ![s] = "replace"]
  /\ UNCHANGED <<path, temp, world, arrays, listVars, crashes>>

\* os.replace()
SaveReplace(s) ==
  /\ pc[s] = "replace"
  /\ files' = [files EXCEPT ![path[s]] = files[temp[s]], ![temp[s]] = "absent"]
  /\ pc' = [pc EXCEPT ![s] = "respond"]
  /\ temp' = [temp EXCEPT ![s] = None]
  /\ world' = [world EXCEPT ![s] = None]
  /\ UNCHANGED <<path, arrays, listVars, crashes>>

\* Mutant: a failed save moves what it has into place.
SaveFails_Finally(s) ==
  /\ pc[s] \in {"write", "replace"}
  /\ files' = [files EXCEPT ![path[s]] = files[temp[s]], ![temp[s]] = "absent"]
  /\ Return(s)
  /\ UNCHANGED <<listVars, crashes>>

\* Mutant: a failed save leaves its temp file.
SaveFails_KeepsTemp(s) ==
  /\ pc[s] \in {"write", "replace"}
  /\ Return(s)
  /\ UNCHANGED <<files, listVars, crashes>>

\* savez() or replace() raises (a full disk): the temp file is removed.
SaveFails(s) ==
  /\ pc[s] \in {"write", "replace"}
  /\ files' = [files EXCEPT ![temp[s]] = "absent"]
  /\ Return(s)
  /\ UNCHANGED <<listVars, crashes>>

\* The handler stats the file for its response, after the lock.
SaveRespond(s) ==
  /\ pc[s] = "respond"
  /\ Return(s)
  /\ UNCHANGED <<files, listVars, crashes>>

-----------------------------------------------------------------------------
(***************************************************************************)
(* load_checkpoint().  A name that does not exist or cannot be read is an  *)
(* error that changes nothing.                                             *)
(***************************************************************************)
\* validate_checkpoint() opens the file and returns its metadata.
LoadMetadata(s, n) ==
  /\ pc[s] = "idle"
  /\ files[n] \in Worlds
  /\ path' = [path EXCEPT ![s] = n]
  /\ world' = [world EXCEPT ![s] = files[n]]
  /\ pc' = [pc EXCEPT ![s] = "arrays"]
  /\ UNCHANGED <<files, temp, arrays, listVars, crashes>>

\* The file is opened once more for the arrays.  Goal positions that the
\* metadata speaks of and the arrays lack are a KeyError.
LoadArrays(s) ==
  /\ pc[s] = "arrays"
  /\ IF world[s] \in WithGoals => files[path[s]] \in WithGoals
       THEN /\ arrays' = [arrays EXCEPT ![s] = files[path[s]]]
            /\ pc' = [pc EXCEPT ![s] = "loaded"]
            /\ UNCHANGED <<path, temp, world>>
       ELSE Return(s)
  /\ UNCHANGED <<files, listVars, crashes>>

\* The simulation goes on from what was read.
LoadEnd(s) ==
  /\ pc[s] = "loaded"
  /\ Return(s)
  /\ UNCHANGED <<files, listVars, crashes>>

-----------------------------------------------------------------------------
(***************************************************************************)
(* list_checkpoints().                                                     *)
(***************************************************************************)
\* The glob takes temp files too: "*" matches a leading dot in pathlib.
ListBegin ==
  /\ listing = "idle"
  /\ listing' = "scan"
  /\ todo' = {f \in Files : Exists(f)}
  /\ names' = {n \in Names : Exists(n)}
  /\ listed' = {}
  /\ UNCHANGED <<files, callVars, crashes>>

\* Mutant: the scan ends at the first file that is no checkpoint.
ListValidate_StopsAtBadFile(f) ==
  /\ listing = "scan"
  /\ f \in todo
  /\ IF files[f] \in Worlds
       THEN /\ listing' = "stat"
            /\ listed' = listed \cup {f}
            /\ UNCHANGED todo
       ELSE /\ todo' = {}
            /\ UNCHANGED <<listing, listed>>
  /\ UNCHANGED <<files, callVars, names, crashes>>

\* validate_checkpoint() of the next file (the order of the names does not
\* matter here); one that it rejects, or that has gone, is skipped.
ListValidate(f) ==
  /\ listing = "scan"
  /\ f \in todo
  /\ IF files[f] \in Worlds
       THEN /\ listing' = "stat"
            /\ listed' = listed \cup {f}
            /\ UNCHANGED todo
       ELSE /\ todo' = todo \ {f}
            /\ UNCHANGED <<listing, listed>>
  /\ UNCHANGED <<files, callVars, names, crashes>>

\* stat() of the file just validated; if it has gone, the whole listing fails.
ListStat ==
  /\ listing = "stat"
  /\ \E f \in todo \cap listed :
       IF Exists(f)
         THEN listing' = "scan" /\ todo' = todo \ {f}
         ELSE listing' = "failed" /\ UNCHANGED todo
  /\ UNCHANGED <<files, callVars, listed, names, crashes>>

\* The answer, or a server error.
ListEnd ==
  /\ listing = "failed" \/ (listing = "scan" /\ todo = {})
  /\ listing' = "idle"
  /\ todo' = {}
  /\ listed' = {}
  /\ names' = {}
  /\ UNCHANGED <<files, callVars, crashes>>

\* The server process dies and is started again: the directory stays.
Crash ==
  /\ crashes < MaxCrashes
  /\ crashes' = crashes + 1
  /\ pc' = [s \in Sims |-> "idle"]
  /\ temp' = [s \in Sims |-> None]
  /\ arrays' = [s \in Sims |-> None]
  /\ path' = [s \in Sims |-> None]
  /\ world' = [s \in Sims |-> None]
  /\ listing' = "idle"
  /\ todo' = {}
  /\ listed' = {}
  /\ names' = {}
  /\ UNCHANGED files

Save(s) ==
  \/ \E n \in Names, w \in Worlds : SaveBegin(s, n, w)
  \/ SaveWrite(s)
  \/ SaveReplace(s)
  \/ SaveFails(s)
  \/ SaveRespond(s)

Load(s) == (\E n \in Names : LoadMetadata(s, n)) \/ LoadArrays(s) \/ LoadEnd(s)

List == ListBegin \/ (\E f \in Files : ListValidate(f)) \/ ListStat \/ ListEnd

Next == (\E s \in Sims : Save(s) \/ Load(s)) \/ List \/ Crash

Spec == Init /\ [][Next]_vars

-----------------------------------------------------------------------------
(***************************************************************************)
(* Properties.                                                             *)
(***************************************************************************)

\* checkpoint.py:113-119: a save takes effect at once or not at all, whatever
\* fails, crashes or saves the same name, and no file at a checkpoint's name
\* is ever incomplete.
Store == INSTANCE AtomicStore
           WITH Clients <- Sims,
                Absent  <- "absent",
                dest    <- [n \in Names |-> files[n]],
                request <- [s \in Sims |-> IF pc[s] \in {"write", "replace"}
                                             THEN <<path[s], world[s]>> ELSE None]
KeepsAtomicStore == Store!Spec

\* checkpoint.py:118-119, 150-152: every temp file is that of a save under
\* way, and of one only, or a crash has left it.
TempsAccounted ==
  \A t \in TempIds : Exists(t) =>
    \/ \E s \in Sims : temp[s] = t /\ \A r \in Sims : temp[r] = t => r = s
    \/ crashes > 0

\* routes.py:536-539: a listing that succeeds has every checkpoint that was
\* there when it began, whatever bad, half-written or vanished files it met.
ListingComplete == listing = "scan" /\ todo = {} => names \subseteq listed

\* routes.py:535-539: a listing "skips any file that fails validation (corrupt,
\* foreign, or mid-write) rather than failing the whole listing".  It fails
\* when a temp file is renamed between its validation and its stat().
ListingNeverFails == listing # "failed"

\* checkpoint.py:38-39: "a crash or concurrent reader mid-write can only ever
\* observe the old (still-valid) file or the fully-written new one".  A load
\* reads twice and may observe a part of each.
LoadsOneCheckpoint == \A s \in Sims : pc[s] = "loaded" => arrays[s] = world[s]

=============================================================================
