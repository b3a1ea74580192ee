--------------------------- MODULE RuntimeContract ---------------------------
(***************************************************************************)
(* What a simulation runtime promises to the clients of its start / pause  *)
(* / resume / step / reset / load / shutdown interface, with no thread, no *)
(* lock and no event in sight: a status, a tick counter, and one "grace"   *)
(* tick that may still land after the runtime left RUNNING                 *)
(* (tests/test_runtime.py: "pause() racing the in-flight tick can let at   *)
(* most one more tick land right after it returns").  One case is left     *)
(* out of the promise: a start() inside a shutdown() takes back its stop   *)
(* event, and the loop it starts may tick on under any status.             *)
(***************************************************************************)
EXTENDS Naturals

CONSTANT MaxTick        \* bound on the tick counter (the code has none)

VARIABLES
  status,   \* RuntimeStatus
  tick,     \* tick of the published snapshot
  closing,  \* is a shutdown() under way?
  grace     \* how many ticks nobody asked for may still land: none, one, many

vars == <<status, tick, closing, grace>>

Init ==
  /\ status = "created"
  /\ tick = 0
  /\ closing = FALSE
  /\ grace = "none"

Running == status = "running"

\* Leaving RUNNING is the only step that can grant the grace tick.
GrantGrace == grace' \in {"none", IF grace = "many" THEN "many" ELSE "one"}

Start ==
  /\ status' = "running"
  /\ grace' = IF closing THEN "many" ELSE "none"
  /\ UNCHANGED <<tick, closing>>

\* pause(), or the loop's own tail.
Leave ==
  /\ Running
  /\ status' = "paused"
  /\ GrantGrace
  /\ UNCHANGED <<tick, closing>>

Resume ==
  /\ status = "paused"
  /\ status' = "running"
  /\ grace' = IF grace = "many" THEN "many" ELSE "none"
  /\ UNCHANGED <<tick, closing>>

Tick ==
  /\ Running
  /\ tick' = tick + 1
  /\ UNCHANGED <<status, closing, grace>>

LateTick ==
  /\ grace # "none"
  /\ tick' = tick + 1
  /\ grace' = IF grace = "many" THEN "many" ELSE "none"
  /\ UNCHANGED <<status, closing>>

ForgoLateTick ==
  /\ grace # "none"
  /\ grace' = "none"
  /\ UNCHANGED <<status, tick, closing>>

Step ==
  /\ ~ Running
  /\ tick' = tick + 1
  /\ UNCHANGED <<status, closing, grace>>

Reset ==
  /\ ~ Running
  /\ status' = "created"
  /\ tick' = 0
  /\ UNCHANGED <<closing, grace>>

Load ==
  /\ ~ Running
  /\ status' = "paused"
  /\ tick' \in 0 .. MaxTick
  /\ UNCHANGED <<closing, grace>>

\* A shutdown() begins; it takes a grace tick back, unless that has begun.
BeginStop ==
  /\ closing' = TRUE
  /\ grace' \in {"none", grace}
  /\ UNCHANGED <<status, tick>>

\* Another shutdown() may still be under way.
Stop ==
  /\ closing
  /\ status' = "stopped"
  /\ closing' \in BOOLEAN
  /\ UNCHANGED <<tick, grace>>

Next ==
  \/ Start
  \/ Leave
  \/ Resume
  \/ Tick
  \/ LateTick
  \/ ForgoLateTick
  \/ Step
  \/ Reset
  \/ Load
  \/ BeginStop
  \/ Stop

Spec == Init /\ [][Next]_vars

=============================================================================
