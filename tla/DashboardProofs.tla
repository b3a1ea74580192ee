--------------------------- MODULE DashboardProofs ----------------------------
(***************************************************************************)
(* What the dashboard shows, and what becomes of the simulations it        *)
(* creates, for any number of connections, simulations, retries and events *)
(* under way.                                                              *)
(***************************************************************************)
EXTENDS Dashboard, TLAPS

SimIds == Sims \cup {0}
Places == {"idle", "top", "build", "ended", "forlorn"}

Events == [kind : {"frame"}, sim : SimIds, seq : Int] \cup [kind : {"closed", "error"}]

Generators == [at : Places, sim : SimIds, seq : Int, errors : Int]

ServerTypeOK ==
  /\ created \in 0 .. MaxSims
  /\ registry \subseteq 1 .. created
  /\ stream \in [Connections -> Generators]
  /\ wire \in [Connections -> Seq(Events)]

CallsTypeOK ==
  /\ simulationId \in 0 .. created
  /\ creating \in [at : {"idle", "deleting", "posting", "answered"},
                   old : 0 .. created, new : 0 .. created]
  /\ deleting \in [at : {"idle", "sent", "answered"}, id : 0 .. created]

HookTypeOK ==
  /\ hooked \in SimIds /\ lastFrame \in SimIds
  /\ source \in [at : {"none", "connecting", "open", "closed"},
                 conn : Connections \cup {NoConn}, heard : Int]
  /\ status \in {"idle", "connecting", "open", "closed", "error"}

TypeOK == ServerTypeOK /\ CallsTypeOK /\ HookTypeOK

-----------------------------------------------------------------------------
(***************************************************************************)
(* The connections.  Only the connection the source holds has a generator  *)
(* that anybody reads, and events under way, all of the simulation the     *)
(* hook runs for.                                                          *)
(***************************************************************************)
Read(c) == source.at = "open" /\ source.conn = c

StreamInv ==
  /\ source.at = "open" <=> source.conn # NoConn
  /\ \A c \in Connections :
       /\ stream[c].at \in {"top", "build", "ended"} <=> Read(c)
       /\ wire[c] # <<>> => Read(c)
       /\ Read(c) => stream[c].sim = hooked
       /\ \A n \in 1 .. Len(wire[c]) :
            wire[c][n].kind = "frame" => wire[c][n].sim = stream[c].sim

(***************************************************************************)
(* The simulations.  While handleCreate posts, what was on the screen has  *)
(* been deleted or is known to be lost, so CreateDone hides nothing.       *)
(***************************************************************************)
Kept == registry \ lost

CreateInv ==
  /\ creating.at \in {"idle", "posting"} => creating.old = 0 /\ creating.new = 0
  /\ creating.at = "deleting" => creating.new = 0 /\ simulationId \in {0, creating.old}
  /\ creating.at = "answered" => creating.old = 0
  /\ creating.at \in {"posting", "answered"} => simulationId \notin Kept

DeleteInv ==
  /\ deleting.at = "idle" => deleting.id = 0
  /\ deleting.at = "answered" => deleting.id \notin Kept

OwnInv == CreateInv /\ DeleteInv /\ OrphansAccounted

ShownInv == StreamInv /\ ShownIsCurrent

(***************************************************************************)
(* The numbers.  The generator's number is as far ahead of the last one    *)
(* heard as there are events under way, and one more while a frame is      *)
(* built; an event that is not a frame is the last one.                    *)
(***************************************************************************)
SeqInv ==
  \A c \in Connections : Read(c) =>
    /\ source.heard \in Int
    /\ \A n \in 1 .. Len(wire[c]) :
         /\ wire[c][n].kind = "frame" => wire[c][n].seq = (source.heard + n) % SeqBound
         /\ wire[c][n].kind # "frame" => stream[c].at = "ended" /\ n = Len(wire[c])
    /\ stream[c].at = "top" => stream[c].seq = (source.heard + Len(wire[c])) % SeqBound
    /\ stream[c].at = "build" => stream[c].seq = (source.heard + Len(wire[c]) + 1) % SeqBound


-----------------------------------------------------------------------------
(***************************************************************************)
(* Remainders.                                                             *)
(***************************************************************************)
LEMMA ModAdd ==
  ASSUME NEW x \in Int, NEW n \in Int, NEW B \in Int, B > 0
  PROVE  ((x % B) + n) % B = (x + n) % B
BY SMT

LEMMA ModSmall ==
  ASSUME NEW q \in Int, NEW r \in Int, NEW B \in Int, B > 0, r >= 0, r < B
  PROVE  (B * q + r) % B = r
BY SMT

LEMMA ModRange ==
  ASSUME NEW x \in Int, NEW B \in Int, B > 0
  PROVE  (x % B) \in 0 .. (B - 1)
BY SMT

LEMMA ModRound ==
  ASSUME NEW x \in Int, NEW B \in Int, B > 0
  PROVE  (x + B) % B = x % B
<1> DEFINE r == x % B
<1>1. (r + B) % B = (x + B) % B
  BY ModAdd
<1>2. r \in 0 .. (B - 1)
  BY ModRange
<1> HIDE DEF r
<1>3. (B * 1 + r) % B = r
  BY <1>2, ModSmall, 1 \in Int
<1>4. B * 1 + r = r + B
  BY <1>2
<1>5. QED
  BY <1>1, <1>3, <1>4 DEF r

-----------------------------------------------------------------------------
(***************************************************************************)
(* Type correctness and the connections.                                   *)
(***************************************************************************)

LEMMA ForlornType ==
  ASSUME NEW g \in Generators
  PROVE  Forlorn(g) \in Generators /\ Forlorn(g).at = "forlorn"
BY DEF Forlorn, Generator, Generators, Places

\* A connection that is given up leaves nothing under way and no generator that
\* anybody reads.
LEMMA GivesUpClears ==
  ASSUME TypeOK, StreamInv, GivesUp
  PROVE  /\ wire' \in [Connections -> Seq(Events)]
         /\ stream' \in [Connections -> Generators]
         /\ \A c \in Connections :
              wire'[c] = <<>> /\ stream'[c].at \in {"idle", "forlorn"}
<1> USE DEF TypeOK, ServerTypeOK, HookTypeOK
<1>1. wire' \in [Connections -> Seq(Events)]
  BY DEF GivesUp
<1>2. stream' \in [Connections -> Generators]
  BY ForlornType DEF GivesUp, Generators
<1>3. ASSUME NEW c \in Connections
      PROVE  wire'[c] = <<>> /\ stream'[c].at \in {"idle", "forlorn"}
  <2>1. CASE c = source.conn
    BY <2>1, ForlornType DEF GivesUp, Generators
  <2>2. CASE c # source.conn
    BY <2>2 DEF GivesUp, StreamInv, Read, Generators, Places
  <2>3. QED
    BY <2>1, <2>2
<1>4. QED
  BY <1>1, <1>2, <1>3

\* What a generator does to its variables.
LEMMA GoType ==
  ASSUME NEW c \in Connections, NEW at \in Places, NEW seq \in Int, NEW errors \in Int,
         stream \in [Connections -> Generators], Go(c, at, seq, errors)
  PROVE  /\ stream' \in [Connections -> Generators]
         /\ stream'[c] = [at |-> at, sim |-> stream[c].sim, seq |-> seq, errors |-> errors]
         /\ \A d \in Connections \ {c} : stream'[d] = stream[d]
BY DEF Go, Generators

LEMMA GenerateType ==
  ASSUME NEW c \in Connections, stream \in [Connections -> Generators], Generate(c)
  PROVE  stream' \in [Connections -> Generators]
<1>1. stream[c].seq \in Int /\ stream[c].errors \in Int
  BY DEF Generators
<1>2. /\ (stream[c].seq + 1) % SeqBound \in Int
      /\ (stream[c].seq + SeqBound - 1) % SeqBound \in Int
  BY <1>1, ModRange, StreamAssumption
<1>3. /\ stream[c].errors + 1 \in Int /\ 0 \in Int /\ MaxErrors \in Int
      /\ {"top", "build", "ended"} \subseteq Places
  BY <1>1, StreamAssumption DEF Places
<1>4. CASE Close(c)  BY <1>1, <1>3, <1>4, GoType DEF Close
<1>5. CASE Begin(c)  BY <1>1, <1>2, <1>3, <1>5, GoType DEF Begin
<1>6. CASE Publish(c)  BY <1>1, <1>3, <1>6, GoType DEF Publish
<1>7. CASE BuildFails(c)  BY <1>2, <1>3, <1>7, GoType DEF BuildFails
<1>8. CASE GiveUp(c)  BY <1>2, <1>3, <1>8, GoType DEF GiveUp
<1>9. QED
  BY <1>4, <1>5, <1>6, <1>7, <1>8 DEF Generate

LEMMA TypeStep ==
  ASSUME TypeOK, StreamInv, [Next]_vars
  PROVE  TypeOK'
<1> USE DashboardAssumption, StreamAssumption
<1> USE DEF TypeOK, ServerTypeOK, CallsTypeOK, HookTypeOK, Sims, SimIds
<1>1. CASE Buttons
  <2>1. CASE ClickCreate
    BY <2>1 DEF ClickCreate, Creating, serverVars, streamState
  <2>2. CASE CreateDeletesOld
    <3>1. registry' \subseteq registry /\ UNCHANGED <<created, stream, wire>>
      BY <2>2 DEF CreateDeletesOld, Unregister, RequestLost, serverVars
    <3>2. creating' = Creating("posting", 0, 0)
          /\ UNCHANGED <<simulationId, deleting, streamState>>
      BY <2>2 DEF CreateDeletesOld
    <3>3. QED
      BY <3>1, <3>2 DEF Creating, streamState
  <2>3. CASE CreatePosts
    BY <2>3 DEF CreatePosts, Creating, streamState
  <2>4. CASE CreateFails
    BY <2>4 DEF CreateFails, NoCreate, Creating, serverVars, streamState
  <2>5. CASE CreateDone
    BY <2>5 DEF CreateDone, NoCreate, Creating, serverVars, streamState
  <2>6. CASE CreateAnswerLost
    BY <2>6 DEF CreateAnswerLost, NoCreate, Creating, serverVars, streamState
  <2>7. CASE ClickDelete
    BY <2>7 DEF ClickDelete, serverVars, streamState
  <2>8. CASE DeleteServed
    BY <2>8 DEF DeleteServed, Unregister, RequestLost, serverVars, streamState
  <2>9. CASE DeleteDone
    BY <2>9 DEF DeleteDone, NoDelete, serverVars, streamState
  <2>10. QED
    BY <1>1, <2>1, <2>2, <2>3, <2>4, <2>5, <2>6, <2>7, <2>8, <2>9 DEF Buttons
<1>2. CASE Server
  <2>1. ASSUME NEW s \in Sims, DeletedElsewhere(s)  PROVE TypeOK'
    BY <1>2, <2>1 DEF Server, DeletedElsewhere, calls, streamState
  <2>2. ASSUME NEW c \in Connections, Generate(c)  PROVE TypeOK'
    <3>2. UNCHANGED <<created, registry>> /\ UNCHANGED <<calls, streamState>>
      BY <1>2, <2>2 DEF Server, Generate, Close, Begin, Publish, BuildFails, GiveUp,
                        DeletedElsewhere
    <3>3. stream' \in [Connections -> Generators]
      BY <2>2, GenerateType
    <3>4. wire' \in [Connections -> Seq(Events)]
      <4>1. Frame(c) \in Events
        BY DEF Frame, Events, Generators
      <4>2. [kind |-> "closed"] \in Events /\ [kind |-> "error"] \in Events
        BY DEF Events
      <4>3. \A e \in Events : Send(c, e) => wire' \in [Connections -> Seq(Events)]
        BY DEF Send
      <4>4. QED
        BY <2>2, <4>1, <4>2, <4>3 DEF Generate, Close, Begin, Publish, BuildFails, GiveUp
    <3>5. QED
      BY <3>2, <3>3, <3>4 DEF calls, streamState
  <2>3. QED
    BY <1>2, <2>1, <2>2 DEF Server
<1>3. CASE Hook
  <2>1. CASE Rerun
    <3>1. created' = created /\ registry' = registry /\ UNCHANGED calls
      BY <2>1 DEF Rerun
    <3>2. HookTypeOK'
      BY <2>1 DEF Rerun, NoSource, Connecting, Unconnected
    <3>3. GivesUp
      BY <2>1 DEF Rerun
    <3>4. QED
      BY <3>1, <3>2, <3>3, GivesUpClears DEF calls
  <2>2. CASE Refused
    BY <2>2 DEF Refused, Finished, Unconnected, serverVars, calls
  <2>3. CASE Drop
    <3>1. created' = created /\ registry' = registry /\ UNCHANGED calls
      BY <2>3 DEF Drop
    <3>2. HookTypeOK'
      BY <2>3 DEF Drop, Connecting, Unconnected
    <3>3. GivesUp
      BY <2>3 DEF Drop
    <3>4. QED
      BY <3>1, <3>2, <3>3, GivesUpClears DEF calls
  <2>4. CASE Receive
    <3> DEFINE c == source.conn
               event == Head(wire[c])
    <3>1. c \in Connections /\ event \in Events
      BY <2>4 DEF Receive, StreamInv
    <3>2. UNCHANGED <<created, registry, calls, hooked>>
      BY <2>4 DEF Receive
    <3>3. CASE event.kind = "frame"
      <4>1. wire' = [wire EXCEPT ![c] = Tail(@)] /\ stream' = stream
            /\ status' = "open" /\ lastFrame' = event.sim
            /\ source' = [source EXCEPT !.heard = event.seq]
        BY <2>4, <3>3 DEF Receive
      <4>2. event.sim \in SimIds /\ event.seq \in Int
        BY <3>1, <3>3 DEF Events
      <4>3. Tail(wire[c]) \in Seq(Events)
        BY <2>4, <3>1 DEF Receive
      <4>4. QED
        BY <3>1, <3>2, <4>1, <4>2, <4>3 DEF calls
    <3>4. CASE event.kind = "closed"
      <4>1. GivesUp /\ HookTypeOK'
        BY <2>4, <3>2, <3>4 DEF Receive, Finished, Unconnected
      <4>2. QED
        BY <3>2, <4>1, GivesUpClears DEF calls
    <3>5. CASE event.kind = "error"
      <4>1. wire' = [wire EXCEPT ![c] = Tail(@)] /\ UNCHANGED <<stream, source, lastFrame>>
            /\ status' = "error"
        BY <2>4, <3>5 DEF Receive
      <4>2. Tail(wire[c]) \in Seq(Events)
        BY <2>4, <3>1 DEF Receive
      <4>3. QED
        BY <3>1, <3>2, <4>1, <4>2 DEF calls
    <3>6. QED
      BY <3>1, <3>3, <3>4, <3>5 DEF Events
  <2>5. ASSUME NEW c \in Connections, Connect(c)  PROVE TypeOK'
    BY <2>5 DEF Connect, Opened, Generator, Generators, Places, calls
  <2>6. ASSUME NEW c \in Connections, ClientGone(c)  PROVE TypeOK'
    BY <2>6 DEF ClientGone, Idle, Generator, Generators, Places, calls, streamState
  <2>7. QED
    BY <1>3, <2>1, <2>2, <2>3, <2>4, <2>5, <2>6 DEF Hook, Effect, ChangeView, ResponseEnds
<1>4. CASE UNCHANGED vars
  BY <1>4 DEF vars, serverVars, calls, streamState
<1>5. QED
  BY <1>1, <1>2, <1>3, <1>4 DEF Next

-----------------------------------------------------------------------------
(***************************************************************************)
(* The connections and what is shown.                                      *)
(***************************************************************************)

\* A hook without a connection shows nothing wrong.
LEMMA ClearedShows ==
  ASSUME TypeOK, StreamInv, GivesUp,
         source'.at # "open", source'.conn = NoConn,
         status' # "open", lastFrame' \in {0, hooked'}
  PROVE  ShownInv' /\ SeqInv'
<1>1. \A c \in Connections : ~ Read(c)'
  BY DashboardAssumption DEF Read
<1>2. \A c \in Connections : wire'[c] = <<>> /\ stream'[c].at \in {"idle", "forlorn"}
  BY GivesUpClears
<1>3. QED
  BY <1>1, <1>2 DEF ShownInv, StreamInv, ShownIsCurrent, SeqInv

\* A generator goes on: nothing changes for the other connections, and the
\* hook's own may have one more event under way.
LEMMA GenerateShows ==
  ASSUME TypeOK, ShownInv, SeqInv, NEW c \in Connections, Generate(c),
         UNCHANGED <<calls, streamState>>
  PROVE  ShownInv' /\ SeqInv'
<1> DEFINE h == source.heard
           L == Len(wire[c])
           B == SeqBound
<1>1. /\ Read(c) /\ \A d \in Connections : Read(d)' <=> Read(d)
      /\ \A d \in Connections \ {c} : ~ Read(d)
  BY DEF ShownInv, StreamInv, Read, Generate, Close, Begin, Publish, BuildFails, GiveUp,
         streamState
<1>2. /\ stream[c] \in Generators /\ wire[c] \in Seq(Events) /\ wire \in [Connections -> Seq(Events)]
      /\ stream \in [Connections -> Generators] /\ L \in Nat /\ h \in Int /\ B \in Nat \ {0}
  BY StreamAssumption DEF TypeOK, ServerTypeOK, HookTypeOK
<1>3. /\ stream[c].seq \in Int /\ stream[c].errors \in Int /\ MaxErrors \in Int
      /\ {"top", "build", "ended"} \subseteq Places
  BY <1>2, StreamAssumption DEF Generators, Places
<1>4. /\ (stream[c].seq + 1) % SeqBound \in Int
      /\ (stream[c].seq + SeqBound - 1) % SeqBound \in Int
  BY <1>2, <1>3, ModRange
<1>5. /\ stream[c].at = "top" => stream[c].seq = (h + L) % B
      /\ stream[c].at = "build" => stream[c].seq = (h + L + 1) % B
      /\ \A n \in 1 .. L :
           wire[c][n].kind = "frame" => /\ wire[c][n].seq = (h + n) % B
                                        /\ wire[c][n].sim = stream[c].sim
      /\ stream[c].at \in {"top", "build"} => \A n \in 1 .. L : wire[c][n].kind = "frame"
  BY <1>1, <1>2 DEF SeqInv, ShownInv, StreamInv
<1> DEFINE Goes ==
      /\ stream'[c].at \in {"top", "build", "ended"}
      /\ stream'[c].sim = stream[c].sim
      /\ \A d \in Connections \ {c} : stream'[d] = stream[d] /\ wire'[d] = wire[d]
      /\ \A n \in 1 .. Len(wire'[c]) :
           /\ wire'[c][n].kind = "frame" => /\ wire'[c][n].sim = stream[c].sim
                                            /\ wire'[c][n].seq = (h + n) % B
           /\ wire'[c][n].kind # "frame" => stream'[c].at = "ended" /\ n = Len(wire'[c])
      /\ stream'[c].at = "top" => stream'[c].seq = (h + Len(wire'[c])) % B
      /\ stream'[c].at = "build" => stream'[c].seq = (h + Len(wire'[c]) + 1) % B
<1>6. SUFFICES Goes
  BY <1>1, <1>2 DEF ShownInv, StreamInv, ShownIsCurrent, SeqInv, streamState, Read
<1> HIDE DEF h, L, B
<1>7. ASSUME NEW e \in Events, Send(c, e)
      PROVE  /\ \A d \in Connections \ {c} : wire'[d] = wire[d]
             /\ Len(wire'[c]) = L + 1 /\ wire'[c][L + 1] = e
             /\ \A n \in 1 .. L : wire'[c][n] = wire[c][n]
  BY <1>2, <1>7 DEF Send, L
<1>8. Frame(c) \in Events /\ [kind |-> "closed"] \in Events /\ [kind |-> "error"] \in Events
  BY <1>2 DEF Frame, Events, Generators
<1>9. /\ (((h + L) % B) + 1) % B = (h + L + 1) % B
      /\ (((h + L + 1) % B) + (B - 1)) % B = (h + L) % B
  <2>1. h + L \in Int /\ h + L + 1 \in Int /\ B - 1 \in Int /\ B \in Int /\ B > 0
    BY <1>2
  <2>2. (((h + L) % B) + 1) % B = (h + L + 1) % B
    BY <2>1, ModAdd
  <2>3. (((h + L + 1) % B) + (B - 1)) % B = ((h + L + 1) + (B - 1)) % B
    BY <2>1, ModAdd
  <2>4. (h + L + B) % B = (h + L) % B
    BY <2>1, ModRound
  <2>5. (h + L + 1) + (B - 1) = h + L + B
    BY <1>2
  <2>6. QED
    BY <2>2, <2>3, <2>4, <2>5
<1>10. ASSUME NEW at \in {"top", "build", "ended"}, NEW seq \in Int, NEW errors \in Int,
              Go(c, at, seq, errors)
       PROVE  /\ stream'[c].at = at /\ stream'[c].sim = stream[c].sim /\ stream'[c].seq = seq
              /\ \A d \in Connections \ {c} : stream'[d] = stream[d]
  <2>1. at \in Places
    BY <1>3
  <2>2. /\ stream'[c] = [at |-> at, sim |-> stream[c].sim, seq |-> seq, errors |-> errors]
        /\ \A d \in Connections \ {c} : stream'[d] = stream[d]
    BY <1>2, <1>10, <2>1, GoType
  <2>3. QED
    BY <2>2
<1>11. ASSUME NEW e \in Events, Send(c, e), e.kind # "frame", stream'[c].at = "ended",
              stream[c].at \in {"top", "build"},
              stream'[c].sim = stream[c].sim,
              \A d \in Connections \ {c} : stream'[d] = stream[d]
       PROVE  Goes
  <2>1. \A n \in 1 .. Len(wire'[c]) : n \in 1 .. L \/ n = L + 1
    BY <1>2, <1>7, <1>11
  <2>2. \A n \in 1 .. Len(wire'[c]) :
          /\ wire'[c][n].kind = "frame" => n \in 1 .. L
          /\ wire'[c][n].kind # "frame" => n = Len(wire'[c])
    BY <1>5, <1>7, <1>11, <2>1
  <2>3. \A n \in 1 .. L : wire'[c][n] = wire[c][n]
    BY <1>7, <1>11
  <2>4. \A d \in Connections \ {c} : wire'[d] = wire[d]
    BY <1>7, <1>11
  <2>5. QED
    BY <1>5, <1>11, <2>2, <2>3, <2>4
<1>12. CASE Close(c)
  BY <1>3, <1>8, <1>10, <1>11, <1>12 DEF Close
<1>13. CASE Begin(c)
  <2>1. stream[c].seq = (h + L) % B /\ stream[c].at = "top"
    BY <1>5, <1>13 DEF Begin
  <2>2. wire' = wire
    BY <1>13 DEF Begin
  <2>3. /\ stream'[c].at = "build" /\ stream'[c].sim = stream[c].sim
        /\ stream'[c].seq = (stream[c].seq + 1) % B
        /\ \A d \in Connections \ {c} : stream'[d] = stream[d]
    BY <1>3, <1>4, <1>10, <1>13 DEF Begin, B
  <2>4. stream'[c].seq = (h + L + 1) % B
    BY <1>9, <2>1, <2>3
  <2>5. Len(wire'[c]) = L
    BY <2>2 DEF L
  <2>6. QED
    BY <1>5, <2>1, <2>2, <2>3, <2>4, <2>5
<1>14. CASE Publish(c)
  <2>1. stream[c].seq = (h + (L + 1)) % B /\ stream[c].at = "build"
    BY <1>2, <1>5, <1>14 DEF Publish
  <2>2. Send(c, Frame(c)) /\ Frame(c) \in Events
    BY <1>8, <1>14 DEF Publish
  <2>3. /\ stream'[c].at = "top" /\ stream'[c].sim = stream[c].sim
        /\ stream'[c].seq = stream[c].seq
        /\ \A d \in Connections \ {c} : stream'[d] = stream[d]
    BY <1>3, <1>10, <1>14 DEF Publish
  <2>4. /\ Len(wire'[c]) = L + 1 /\ wire'[c][L + 1] = Frame(c)
        /\ \A n \in 1 .. L : wire'[c][n] = wire[c][n]
        /\ \A d \in Connections \ {c} : wire'[d] = wire[d]
    BY <1>7, <2>2
  <2>5. ASSUME NEW n \in 1 .. Len(wire'[c])
        PROVE  /\ wire'[c][n].kind = "frame"
               /\ wire'[c][n].sim = stream[c].sim
               /\ wire'[c][n].seq = (h + n) % B
    <3>1. CASE n = L + 1
      BY <2>1, <2>4, <3>1 DEF Frame
    <3>2. CASE n \in 1 .. L
      BY <1>5, <2>1, <2>4, <3>2
    <3>3. QED
      BY <1>2, <2>4, <3>1, <3>2
  <2>6. stream'[c].seq = (h + Len(wire'[c])) % B
    BY <2>1, <2>3, <2>4
  <2>7. \A d \in Connections \ {c} : stream'[d] = stream[d] /\ wire'[d] = wire[d]
    BY <2>3, <2>4
  <2>8. QED
    BY <2>3, <2>5, <2>6, <2>7
<1>15. CASE BuildFails(c)
  <2>1. stream[c].seq = (h + L + 1) % B /\ stream[c].at = "build"
    BY <1>5, <1>15 DEF BuildFails
  <2>2. wire' = wire
    BY <1>15 DEF BuildFails
  <2>3. /\ stream'[c].at = "top" /\ stream'[c].sim = stream[c].sim
        /\ stream'[c].seq = (stream[c].seq + B - 1) % B
        /\ \A d \in Connections \ {c} : stream'[d] = stream[d]
    BY <1>3, <1>4, <1>10, <1>15 DEF BuildFails, B
  <2>4. stream[c].seq + B - 1 = stream[c].seq + (B - 1)
    BY <1>2, <1>3
  <2>5. stream'[c].seq = (h + L) % B
    BY <1>9, <2>1, <2>3, <2>4
  <2>6. Len(wire'[c]) = L
    BY <2>2 DEF L
  <2>7. QED
    BY <1>5, <2>1, <2>2, <2>3, <2>5, <2>6
<1>16. CASE GiveUp(c)
  BY <1>3, <1>4, <1>8, <1>10, <1>11, <1>16 DEF GiveUp
<1>17. QED
  BY <1>12, <1>13, <1>14, <1>15, <1>16 DEF Generate

LEMMA ShownStep ==
  ASSUME TypeOK, ShownInv, SeqInv, [Next]_vars
  PROVE  ShownInv' /\ SeqInv'
<1> USE DashboardAssumption
<1>1. ASSUME UNCHANGED <<stream, wire, streamState>>
      PROVE  ShownInv' /\ SeqInv'
  BY <1>1 DEF ShownInv, StreamInv, ShownIsCurrent, SeqInv, Read, streamState
<1>2. CASE Buttons
  BY <1>1, <1>2 DEF Buttons, ClickCreate, CreateDeletesOld, CreatePosts, CreateFails, CreateDone,
       CreateAnswerLost, ClickDelete, DeleteServed, DeleteDone, Unregister, RequestLost, serverVars
<1>3. CASE Server
  <2>1. CASE \E s \in Sims : DeletedElsewhere(s)
    BY <1>1, <1>3, <2>1 DEF Server, DeletedElsewhere
  <2>2. CASE \E c \in Connections : Generate(c)
    BY <1>3, <2>2, GenerateShows DEF Server
  <2>3. QED
    BY <1>3, <2>1, <2>2 DEF Server
<1>4. CASE Hook
  <2>1. CASE Rerun
    BY <2>1, ClearedShows DEF Rerun, ShownInv, NoSource, Connecting, Unconnected
  <2>2. CASE Drop
    BY <2>2, ClearedShows DEF Drop, ShownInv, ShownIsCurrent, Connecting, Unconnected
  <2>3. CASE Refused
    <3>1. \A c \in Connections : ~ Read(c) /\ ~ Read(c)'
      BY <2>3 DEF Refused, Read, Finished, Unconnected
    <3>2. source'.at = "closed" /\ source'.conn = NoConn /\ status' = "error"
          /\ UNCHANGED <<stream, wire, hooked, lastFrame>>
      BY <2>3 DEF Refused, Finished, Unconnected, serverVars
    <3>3. QED
      BY <3>1, <3>2 DEF ShownInv, StreamInv, ShownIsCurrent, SeqInv
  <2>4. ASSUME NEW c \in Connections, Connect(c)  PROVE ShownInv' /\ SeqInv'
    <3>1. \A d \in Connections : ~ Read(d) /\ wire[d] = <<>>
      BY <2>4 DEF Connect, Read, ShownInv, StreamInv
    <3>2. \A d \in Connections : Read(d)' <=> d = c
      BY <2>4 DEF Connect, Read
    <3>3. /\ stream'[c] = [at |-> "top", sim |-> hooked, seq |-> 0, errors |-> 0]
          /\ \A d \in Connections \ {c} : stream'[d] = stream[d]
      BY <2>4 DEF Connect, Opened, Generator, TypeOK, ServerTypeOK
    <3>4. /\ source' = [at |-> "open", conn |-> c, heard |-> 0]
          /\ status' = "open" /\ UNCHANGED <<wire, hooked, lastFrame>>
      BY <2>4 DEF Connect
    <3>5. (0 + 0) % SeqBound = 0
      BY StreamAssumption
    <3>6. ShownInv'
      BY <3>1, <3>2, <3>3, <3>4 DEF ShownInv, StreamInv, ShownIsCurrent
    <3>7. SeqInv'
      BY <3>1, <3>2, <3>3, <3>4, <3>5 DEF SeqInv
    <3>8. QED
      BY <3>6, <3>7
  <2>5. ASSUME NEW c \in Connections, ClientGone(c)  PROVE ShownInv' /\ SeqInv'
    <3>1. ~ Read(c) /\ \A d \in Connections : Read(d)' <=> Read(d)
      BY <2>5 DEF ClientGone, ShownInv, StreamInv, Read, streamState
    <3>2. /\ stream'[c].at = "idle" /\ wire' = wire /\ UNCHANGED streamState
          /\ \A d \in Connections \ {c} : stream'[d] = stream[d]
      BY <2>5 DEF ClientGone, Idle, Generator, TypeOK, ServerTypeOK
    <3>3. ShownInv'
      <4>1. source.at = "open" => source.conn \in Connections \ {c}
        BY <3>1 DEF ShownInv, StreamInv, Read, TypeOK, HookTypeOK
      <4>2. ShownIsCurrent'
        BY <3>2, <4>1 DEF ShownInv, ShownIsCurrent, streamState
      <4>3. StreamInv'
        BY <3>1, <3>2 DEF ShownInv, StreamInv, streamState
      <4>4. QED
        BY <4>2, <4>3 DEF ShownInv
    <3>4. SeqInv'
      BY <3>1, <3>2 DEF SeqInv, streamState
    <3>5. QED
      BY <3>3, <3>4
  <2>6. CASE Receive
    <3> DEFINE c == source.conn
               event == Head(wire[c])
    <3>1. c \in Connections /\ Read(c) /\ event \in Events /\ wire[c] \in Seq(Events)
          /\ wire[c] # <<>> /\ UNCHANGED hooked
      BY <2>6 DEF Receive, ShownInv, StreamInv, TypeOK, ServerTypeOK, HookTypeOK, Read
    <3>2. CASE event.kind = "closed"
      BY <2>6, <3>2, ClearedShows
         DEF Receive, ShownInv, ShownIsCurrent, Finished, Unconnected
    <3>3. CASE event.kind # "closed"
      <4>1. /\ wire' = [wire EXCEPT ![c] = Tail(@)] /\ UNCHANGED stream
            /\ source'.at = "open" /\ source'.conn = c
            /\ event.kind = "frame" =>
                 /\ status' = "open" /\ lastFrame' = event.sim /\ source'.heard = event.seq
            /\ event.kind # "frame" =>
                 /\ status' = "error" /\ UNCHANGED <<source, lastFrame>>
        BY <2>6, <3>1, <3>3 DEF Receive, Read, TypeOK, HookTypeOK
      <4>2. \A d \in Connections : (Read(d)' <=> d = c) /\ (Read(d) <=> d = c)
        BY <3>1, <4>1 DEF Read
      <4>3. /\ Len(wire'[c]) = Len(wire[c]) - 1
            /\ Len(wire'[c]) \in Nat
            /\ \A n \in 1 .. Len(wire'[c]) : wire'[c][n] = wire[c][n + 1]
            /\ \A d \in Connections \ {c} : wire'[d] = wire[d]
            /\ event = wire[c][1] /\ 1 \in 1 .. Len(wire[c])
        BY <3>1, <4>1 DEF TypeOK, ServerTypeOK
      <4>4. \A n \in 1 .. Len(wire'[c]) : n + 1 \in 1 .. Len(wire[c])
        BY <3>1, <4>3
      <4>5. ShownInv'
        BY <3>1, <4>1, <4>2, <4>3, <4>4 DEF ShownInv, StreamInv, ShownIsCurrent
      <4>6. CASE event.kind = "frame"
        <5> DEFINE h == source.heard
                   h1 == source'.heard
        <5>1. h \in Int /\ h1 = (h + 1) % SeqBound
          BY <3>1, <4>1, <4>2, <4>3, <4>6 DEF SeqInv
        <5> HIDE DEF h, h1
        <5>2. ASSUME NEW n \in Int
              PROVE  (h1 + n) % SeqBound = (h + (n + 1)) % SeqBound
          <6>1. (((h + 1) % SeqBound) + n) % SeqBound = ((h + 1) + n) % SeqBound
            <7>1. h + 1 \in Int /\ SeqBound \in Int /\ SeqBound > 0
              BY <5>1, StreamAssumption
            <7>2. QED
              BY <7>1, ModAdd
          <6>2. (h + 1) + n = h + (n + 1)
            BY <5>1
          <6>3. QED
            BY <5>1, <6>1, <6>2
        <5>3. h1 \in Int
          BY <5>1, ModRange, StreamAssumption
        <5>4. ASSUME NEW n \in 1 .. Len(wire'[c])
              PROVE  /\ wire'[c][n].kind = "frame" => wire'[c][n].seq = (h1 + n) % SeqBound
                     /\ wire'[c][n].kind # "frame" =>
                          stream'[c].at = "ended" /\ n = Len(wire'[c])
          <6>1. n + 1 \in 1 .. Len(wire[c]) /\ wire'[c][n] = wire[c][n + 1]
            BY <4>3, <4>4
          <6>2. /\ wire[c][n + 1].kind = "frame" => wire[c][n + 1].seq = (h + (n + 1)) % SeqBound
                /\ wire[c][n + 1].kind # "frame" =>
                     stream[c].at = "ended" /\ n + 1 = Len(wire[c])
            BY <3>1, <6>1 DEF SeqInv, h
          <6>3. (h1 + n) % SeqBound = (h + (n + 1)) % SeqBound
            BY <5>2
          <6>4. QED
            BY <3>1, <4>1, <4>3, <6>1, <6>2, <6>3
        <5>5. stream'[c].at = "top" => stream'[c].seq = (h1 + Len(wire'[c])) % SeqBound
          <6>1. (h1 + Len(wire'[c])) % SeqBound = (h + Len(wire[c])) % SeqBound
            BY <3>1, <4>3, <5>2
          <6>2. QED
            BY <3>1, <4>1, <4>2, <6>1 DEF SeqInv, h
        <5>6. stream'[c].at = "build" => stream'[c].seq = (h1 + Len(wire'[c]) + 1) % SeqBound
          <6>1. (h1 + (Len(wire'[c]) + 1)) % SeqBound = (h + (Len(wire[c]) + 1)) % SeqBound
            BY <3>1, <4>3, <5>2
          <6>2. /\ h1 + (Len(wire'[c]) + 1) = h1 + Len(wire'[c]) + 1
                /\ h + (Len(wire[c]) + 1) = h + Len(wire[c]) + 1
            BY <3>1, <4>3, <5>1, <5>3
          <6>3. QED
            BY <3>1, <4>1, <4>2, <6>1, <6>2 DEF SeqInv, h
        <5>7. SeqInv'
          BY <4>2, <5>3, <5>4, <5>5, <5>6 DEF SeqInv, h1
        <5>8. QED
          BY <4>5, <5>7
      <4>7. CASE event.kind # "frame"
        <5>1. stream'[c].at = "ended"
          BY <3>1, <4>1, <4>2, <4>3, <4>7 DEF SeqInv
        <5>2. Len(wire[c]) = 1
          BY <3>1, <4>2, <4>3, <4>7 DEF SeqInv
        <5>3. QED
          <6>1. Len(wire'[c]) = 0 /\ source'.heard \in Int
            BY <3>1, <4>1, <4>3, <4>7, <5>2 DEF SeqInv
          <6>2. SeqInv'
            BY <4>2, <5>1, <6>1 DEF SeqInv
          <6>3. QED
            BY <4>5, <6>2
      <4>8. QED
        BY <4>6, <4>7
    <3>4. QED
      BY <3>2, <3>3
  <2>7. QED
    BY <1>4, <2>1, <2>2, <2>3, <2>4, <2>5, <2>6 DEF Hook, Effect, ChangeView, ResponseEnds
<1>5. CASE UNCHANGED vars
  BY <1>1, <1>5 DEF vars, serverVars
<1>6. QED
  BY <1>2, <1>3, <1>4, <1>5 DEF Next

-----------------------------------------------------------------------------
(***************************************************************************)
(* What becomes of the simulations.                                        *)
(***************************************************************************)
LEMMA OwnStep ==
  ASSUME TypeOK, OwnInv, [Next]_vars
  PROVE  OwnInv'
<1> USE DEF OwnInv, CreateInv, DeleteInv, OrphansAccounted, Kept
<1>1. /\ simulationId \in 0 .. created /\ created \in Nat /\ registry \subseteq 1 .. created
      /\ creating = Creating(creating.at, creating.old, creating.new)
      /\ creating.at \in {"idle", "deleting", "posting", "answered"}
      /\ creating.old \in 0 .. created /\ creating.new \in 0 .. created
      /\ deleting.at \in {"idle", "sent", "answered"} /\ deleting.id \in 0 .. created
      /\ deleting = [at |-> deleting.at, id |-> deleting.id]
  BY StreamAssumption DEF TypeOK, ServerTypeOK, CallsTypeOK, Creating
<1>2. ASSUME UNCHANGED calls, registry' \subseteq registry
      PROVE  OwnInv'
  BY <1>2 DEF calls
<1>3. CASE Buttons
  <2>1. CASE ClickCreate
    BY <1>1, <2>1 DEF ClickCreate, Creating, serverVars
  <2>2. CASE CreateDeletesOld
    <3>1. creating' = Creating("posting", 0, 0) /\ UNCHANGED <<simulationId, deleting>>
      BY <2>2 DEF CreateDeletesOld
    <3>2. creating.at = "deleting" /\ Kept' = Kept \ {creating.old}
      BY <2>2 DEF CreateDeletesOld, Unregister, RequestLost, serverVars
    <3>3. QED
      BY <1>1, <3>1, <3>2 DEF Creating
  <2>3. CASE CreatePosts
    BY <1>1, <2>3 DEF CreatePosts, Creating
  <2>4. CASE CreateFails
    BY <1>1, <2>4 DEF CreateFails, NoCreate, Creating, serverVars
  <2>5. CASE CreateDone
    BY <1>1, <2>5 DEF CreateDone, NoCreate, Creating, serverVars
  <2>6. CASE CreateAnswerLost
    BY <1>1, <2>6 DEF CreateAnswerLost, NoCreate, Creating, serverVars
  <2>7. CASE ClickDelete
    BY <1>1, <2>7 DEF ClickDelete, serverVars
  <2>8. CASE DeleteServed
    <3>1. deleting' = [at |-> "answered", id |-> deleting.id] /\ UNCHANGED <<simulationId, creating>>
      BY <1>1, <2>8 DEF DeleteServed
    <3>2. Kept' = Kept \ {deleting.id}
      BY <2>8 DEF DeleteServed, Unregister, RequestLost, serverVars
    <3>3. QED
      BY <1>1, <3>1, <3>2
  <2>9. CASE DeleteDone
    BY <1>1, <2>9 DEF DeleteDone, NoDelete, serverVars
  <2>10. QED
    BY <1>3, <2>1, <2>2, <2>3, <2>4, <2>5, <2>6, <2>7, <2>8, <2>9 DEF Buttons
<1>4. CASE Server
  BY <1>2, <1>4 DEF Server, DeletedElsewhere, Generate, Close, Begin, Publish, BuildFails, GiveUp
<1>5. CASE Hook
  BY <1>2, <1>5 DEF Hook, Effect, ChangeView, Rerun, Refused, Drop, ResponseEnds, Receive, Connect,
                    ClientGone, serverVars
<1>6. CASE UNCHANGED vars
  BY <1>2, <1>6 DEF vars, serverVars
<1>7. QED
  BY <1>3, <1>4, <1>5, <1>6 DEF Next

-----------------------------------------------------------------------------
(***************************************************************************)
(* The theorems.                                                           *)
(***************************************************************************)
IInv == TypeOK /\ ShownInv /\ SeqInv /\ OwnInv

LEMMA InitIInv ==
  ASSUME Init
  PROVE  IInv
<1> USE StreamAssumption, DashboardAssumption
<1> USE DEF Init, ServerInit, NoSource, Unconnected, NoCreate, NoDelete, Creating, Idle, Generator
<1>1. TypeOK
  BY DEF TypeOK, ServerTypeOK, CallsTypeOK, HookTypeOK, SimIds, Generators, Places
<1>2. ShownInv /\ SeqInv
  BY DEF ShownInv, StreamInv, ShownIsCurrent, SeqInv, Read
<1>3. OwnInv
  BY DEF OwnInv, CreateInv, DeleteInv, OrphansAccounted, Kept
<1>4. QED
  BY <1>1, <1>2, <1>3 DEF IInv

LEMMA IInvStep ==
  ASSUME IInv, [Next]_vars
  PROVE  IInv'
BY TypeStep, ShownStep, OwnStep DEF IInv, ShownInv

\* What is shown is of the simulation the hook runs for, and "connected" over a
\* connection only (useSimulationStream.js:28-81).
THEOREM ShownIsCurrentAlways == Spec => []ShownIsCurrent
<1>1. IInv => ShownIsCurrent
  BY DEF IInv, ShownInv
<1>2. QED
  BY InitIInv, IInvStep, <1>1, PTL DEF Spec

\* A simulation the dashboard created is its own until it is deleted, but for lost
\* requests and the race of the two buttons (SimulationDashboard.jsx:76-160).
THEOREM OrphansAccountedAlways == Spec => []OrphansAccounted
<1>1. IInv => OrphansAccounted
  BY DEF IInv, OwnInv
<1>2. QED
  BY InitIInv, IInvStep, <1>1, PTL DEF Spec

\* The frames under way are numbered from the last one heard without a gap
\* (routes.py:757-793), however many there are and however they are counted.
THEOREM FramesGaplessAlways == Spec => []FramesGapless
<1>1. IInv => FramesGapless
  BY DEF IInv, TypeOK, HookTypeOK, ShownInv, StreamInv, SeqInv, FramesGapless, Read
<1>2. QED
  BY InitIInv, IInvStep, <1>1, PTL DEF Spec
=============================================================================
