---------------------------- MODULE StreamServer -----------------------------
(***************************************************************************)
(* GET /simulations/{id}/stream (api/routes.py): one generator for each    *)
(* open connection.  A generator looks whether its simulation is still     *)
(* registered, builds a frame in a thread, sends it and sleeps.  A frame   *)
(* that cannot be built is tried again, with the same number, until        *)
(* MaxErrors in a row have failed.  Whatever a generator waits for, it may *)
(* be cancelled there when the client is gone.  Which ticks the frames are *)
(* of is left out.                                                         *)
(***************************************************************************)
EXTENDS Integers, FiniteSets, Sequences

CONSTANTS
  Connections,   \* bound on the connections open at a time
  MaxSims,       \* bound on the simulations ever created, numbered 1, 2, ...
  MaxErrors,     \* MAX_CONSECUTIVE_STREAM_ERRORS
  SeqBound,      \* the numbers of the frames are counted modulo this
  WireBound      \* bound on the events a connection has under way

ASSUME StreamAssumption ==
  /\ IsFiniteSet(Connections)
  /\ MaxSims \in Nat
  /\ MaxErrors \in Nat \ {0}
  /\ SeqBound \in Nat \ {0, 1} /\ WireBound \in Nat \ {0}

VARIABLES
  created,     \* how many simulations there have been
  registry,    \* _runtimes
  stream,      \* connection |-> the generator's variables, and where it is
  wire         \* connection |-> the events sent and not yet received

serverVars == <<created, registry, stream, wire>>

Sims == 1 .. MaxSims

(***************************************************************************)
(* at: "idle" (no generator), "top" (of the loop), "build" (a frame),      *)
(* "ended" (the response is over, the client has not noticed), "forlorn"   *)
(* (the client is gone, the generator not cancelled yet).                  *)
(***************************************************************************)
Generator(at, s) == [at |-> at, sim |-> s, seq |-> 0, errors |-> 0]

Idle == Generator("idle", 0)

Opened(s) == Generator("top", s)

\* Nobody reads the generator's events any more: what it does till it is cancelled
\* is left out.
Forlorn(g) == Generator("forlorn", g.sim)

Live(c) == stream[c].at \in {"top", "build", "forlorn"}

ServerInit ==
  /\ created = 0
  /\ registry = {}
  /\ stream = [c \in Connections |-> Idle]
  /\ wire = [c \in Connections |-> <<>>]

-----------------------------------------------------------------------------
\* DELETE by somebody else.
DeletedElsewhere(s) ==
  /\ s \in registry
  /\ registry' = registry \ {s}
  /\ UNCHANGED <<created, stream, wire>>

-----------------------------------------------------------------------------
(***************************************************************************)
(* The generator.                                                          *)
(***************************************************************************)
Send(c, event) == wire' = [wire EXCEPT ![c] = Append(@, event)]

\* The generator's variables from here on.
Go(c, at, seq, errors) ==
  stream' = [stream EXCEPT ![c] = [at |-> at, sim |-> @.sim, seq |-> seq, errors |-> errors]]

Frame(c) == [kind |-> "frame", sim |-> stream[c].sim, seq |-> stream[c].seq]

\* The simulation is gone: say so, and end.
Close(c) ==
  /\ stream[c].at = "top"
  /\ stream[c].sim \notin registry
  /\ Len(wire[c]) < WireBound
  /\ Send(c, [kind |-> "closed"])
  /\ Go(c, "ended", stream[c].seq, stream[c].errors)
  /\ UNCHANGED <<created, registry>>

\* Mutant: the generator goes by its reference to the runtime alone.
Begin_NoLookup(c) ==
  /\ stream[c].at = "top"
  /\ Go(c, "build", (stream[c].seq + 1) % SeqBound, stream[c].errors)
  /\ UNCHANGED <<created, registry, wire>>

\* The next frame gets the next number.
Begin(c) ==
  /\ stream[c].at = "top"
  /\ stream[c].sim \in registry
  /\ Go(c, "build", (stream[c].seq + 1) % SeqBound, stream[c].errors)
  /\ UNCHANGED <<created, registry, wire>>

\* The frame is built and sent; a failure before it is forgotten.
Publish(c) ==
  /\ stream[c].at = "build"
  /\ Len(wire[c]) < WireBound
  /\ Send(c, Frame(c))
  /\ Go(c, "top", stream[c].seq, 0)
  /\ UNCHANGED <<created, registry>>

\* Mutant: a frame that failed has used up its number.
BuildFails_KeepsSeq(c) ==
  /\ stream[c].at = "build"
  /\ stream[c].errors + 1 < MaxErrors
  /\ Go(c, "top", stream[c].seq, stream[c].errors + 1)
  /\ UNCHANGED <<created, registry, wire>>

\* The frame could not be built: its number is given back, and it is retried.
BuildFails(c) ==
  /\ stream[c].at = "build"
  /\ stream[c].errors + 1 < MaxErrors
  /\ Go(c, "top", (stream[c].seq + SeqBound - 1) % SeqBound, stream[c].errors + 1)
  /\ UNCHANGED <<created, registry, wire>>

GiveUp(c) ==
  /\ stream[c].at = "build"
  /\ stream[c].errors + 1 = MaxErrors
  /\ Len(wire[c]) < WireBound
  /\ Send(c, [kind |-> "error"])
  /\ Go(c, "ended", (stream[c].seq + SeqBound - 1) % SeqBound, MaxErrors)
  /\ UNCHANGED <<created, registry>>

Generate(c) == Close(c) \/ Begin(c) \/ Publish(c) \/ BuildFails(c) \/ GiveUp(c)

=============================================================================
