----------------------------- MODULE AtomicStore -----------------------------
(***************************************************************************)
(* What save_checkpoint() promises of the checkpoint directory: a name     *)
(* holds no world or one whole world; a save puts its world there at once, *)
(* or, if it fails or the server crashes, leaves the name as it was.       *)
(***************************************************************************)
CONSTANTS
  Names,
  Clients,
  Worlds,
  Absent,   \* what a name holds that was never saved
  None      \* no save under way

VARIABLES
  dest,     \* what each name holds
  request   \* the save each client has under way: its name and its world

vars == <<dest, request>>

Init ==
  /\ dest = [n \in Names |-> Absent]
  /\ request = [c \in Clients |-> None]

Begin(c, n, w) ==
  /\ request[c] = None
  /\ request' = [request EXCEPT ![c] = <<n, w>>]
  /\ UNCHANGED dest

Commit(c) ==
  /\ request[c] # None
  /\ dest' = [dest EXCEPT ![request[c][1]] = request[c][2]]
  /\ request' = [request EXCEPT ![c] = None]

Abort(c) ==
  /\ request' = [request EXCEPT ![c] = None]
  /\ UNCHANGED dest

Crash ==
  /\ request' = [c \in Clients |-> None]
  /\ UNCHANGED dest

Next ==
  \/ \E c \in Clients :
       \/ \E n \in Names, w \in Worlds : Begin(c, n, w)
       \/ Commit(c)
       \/ Abort(c)
  \/ Crash

Spec == Init /\ [][Next]_vars

=============================================================================
