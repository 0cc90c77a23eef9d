---- MODULE SessionPlayback_proofs ----
(***************************************************************************)
(* One playback drives a session and every client gets its frames in order *)
(* (SessionPlayback), for any recording, any number of clients and any     *)
(* number of requests.                                                     *)
(*                                                                         *)
(* A playback goes on while no cancellation is on its way to it.  The      *)
(* first invariant, Driver, says where the handle may have got lost, and   *)
(* gives OnePlayback.  Outside the schedules that put two playbacks side   *)
(* by side, the position is that of the one that goes on (Position), and   *)
(* what its next frame will be follows what each client has (Follows).     *)
(***************************************************************************)
EXTENDS SessionPlayback, SequenceTheorems, TLAPS

\* Playbacks that go on.
Going == Live \ cancelled

\* The handle names what goes on, but for a playback that a replay put beside
\* one that had not ended.
Driver ==
    /\ \A t \in Going : task = t \/ t \in relayed
    /\ \A t \in Going, u \in Live : t # u => t \in relayed
    /\ \A t, u \in Going : t = u

DriverInv == Spared({"started", "replayed"}) => Driver

\* Where a playback that goes on is, and what it leaves behind.
Open == exists /\ ~deleting

Position ==
    /\ \A t \in Going :
         /\ Open
         /\ play[t] \in {"loop", "frame", "eos"} => position = at[t] /\ cancelled = {}
         /\ play[t] \in {"ready", "loop", "frame"} => running
         /\ play[t] = "ready" => position \in {0, Length}
         /\ play[t] = "eos" => at[t] = Length
    /\ Open /\ cancelled # {} => Going # {}
    /\ Open /\ Live = {} => position \in {0, Length}

\* b comes after a; the items of a client that holds h and has q waiting are in
\* order; the last thing it got, if any.
After(a, b) == b \in {1, Eos} \/ (a # Eos /\ b = a + 1)

InOrder(h, q) ==
    /\ h # None /\ q # <<>> => After(h, q[1])
    /\ \A n \in 1..(Len(q) - 1) : After(q[n], q[n + 1])

LatestOf(h, q) == IF q = <<>> THEN h ELSE q[Len(q)]

Latest(c)     == LatestOf(held[c], queue[c])
Follows(c, n) == Latest(c) = None \/ After(Latest(c), n)

\* What a playback sends next.
Upcoming ==
    \A t \in Going :
        /\ play[t] = "loop" => \A c \in subscribers : Follows(c, at[t] + 1)
        /\ play[t] = "frame" =>
             /\ \A c \in owed[t] : Follows(c, at[t])
             /\ \A c \in subscribers \ owed[t] : Follows(c, at[t] + 1)

\* A client that never connected has nothing, and is owed nothing; nobody owes
\* anything between two frames.
Quiet ==
    /\ \A c \in Clients :
         socket[c] = "off" =>
             /\ queue[c] = <<>> /\ held[c] = None
             /\ c \notin subscribers /\ \A t \in Tasks : c \notin owed[t]
    /\ \A t \in Tasks : owed[t] # {} => play[t] \in {"frame", "eos"}

Ordered == \A c \in Clients : InOrder(held[c], queue[c])

\* No schedule has disturbed the streams, so that one playback goes on.
Undisturbed == Spared({"started", "replayed", "loose"})

StreamInv == Undisturbed => Position /\ Upcoming /\ Ordered

IInv == TypeOK /\ DriverInv /\ Quiet /\ StreamInv

----------------------------------------------------------------------------
(* Types                                                                   *)

USE NatAssumption, MarkAssumption DEF Tasks, NatAssumption, MarkAssumption

Item == 0..Length \cup {Eos}

LEMMA TypeInit == Init => TypeOK
<1> SUFFICES ASSUME Init PROVE TypeOK
  OBVIOUS
<1>0. FlagsOK
  BY DEF Init, FlagsOK
<1>1. SessionOK
  BY DEF Init, SessionOK
<1>2. PlayerOK
  BY DEF Init, PlayerOK
<1>3. ClientsOK
  BY DEF Init, ClientsOK
<1>4. HistoryOK
  BY DEF Init, HistoryOK
<1> QED
  BY <1>0, <1>1, <1>2, <1>3, <1>4 DEF TypeOK

\* A new playback.
LEMMA TypeCreate ==
    ASSUME TypeOK, NEW t \in Tasks, Create(t)
    PROVE  /\ play' \in [Tasks -> {"unused", "ready", "loop", "frame", "eos", "done"}]
           /\ task' = t /\ running' = TRUE
           /\ requests' \in 0..MaxRequests
           /\ Live' = Live \cup {t} /\ t \notin Live
           /\ play'[t] = "ready" /\ \A u \in Tasks \ {t} : play'[u] = play[u]
  BY DEF TypeOK, SessionOK, PlayerOK, HistoryOK, Create, Counted, Live

\* What is put into the queues fits.
LEMMA TypeRemove ==
    ASSUME ClientsOK, Remove
    PROVE  /\ queue' \in [Clients -> Seq(Item)] /\ \A c \in Clients : Len(queue'[c]) <= Capacity
           /\ \A c \in Clients : \/ queue'[c] = queue[c]
                                 \/ queue'[c] = Append(queue[c], Eos) /\ c \in subscribers
<1>1. \A c \in Clients :
        \/ queue'[c] = queue[c]
        \/ queue'[c] = Append(queue[c], Eos) /\ Len(queue[c]) < Capacity /\ c \in subscribers
  <2> TAKE c \in Clients
  <2>1. queue'[c] = IF c \in subscribers \ {d \in subscribers : Len(queue[d]) >= Capacity}
                   THEN Append(queue[c], Eos) ELSE queue[c]
    BY DEF Remove
  <2>2. Len(queue[c]) \in Nat
    BY DEF ClientsOK
  <2> QED
    BY <2>1, <2>2
<1>2. queue' = [c \in Clients |-> queue'[c]]
  BY DEF Remove
<1>3. ASSUME NEW c \in Clients PROVE queue'[c] \in Seq(Item) /\ Len(queue'[c]) <= Capacity
  <2>1. queue[c] \in Seq(Item) /\ Len(queue[c]) <= Capacity
    BY DEF ClientsOK, Item
  <2>2. CASE queue'[c] = queue[c]
    BY <2>1, <2>2
  <2>3. CASE queue'[c] = Append(queue[c], Eos) /\ Len(queue[c]) < Capacity
    BY <2>1, <2>3 DEF Item
  <2> QED
    BY <1>1, <2>2, <2>3
<1> QED
  BY <1>1, <1>2, <1>3

LEMMA TypeFlags == TypeOK /\ [Next]_vars => FlagsOK'
<1> SUFFICES ASSUME TypeOK, [Next]_vars PROVE FlagsOK'
  OBVIOUS
<1>1. UNCHANGED exists \/ exists' = FALSE
  BY DEF Next, Start, Replay, Delete, DeleteResumes, Remove, Pause, Tick, Idle, Finish, Emit, Put,
         End, Connect, Take, Sent, SendFails, session, vars
<1>2. UNCHANGED running \/ running' \in BOOLEAN
  BY DEF Next, Start, Create, Replay, Delete, DeleteResumes, Pause, Tick, Idle, Finish, Emit, Put,
         End, Connect, Take, Sent, SendFails, session, vars
<1>3. UNCHANGED paused \/ paused' \in BOOLEAN
  BY DEF Next, Start, Replay, Delete, DeleteResumes, Pause, Tick, Idle, Finish, Emit, Put,
         End, Connect, Take, Sent, SendFails, session, vars
<1>4. UNCHANGED deleting \/ deleting' \in BOOLEAN
  BY DEF Next, Start, Replay, Delete, DeleteResumes, Pause, Tick, Idle, Finish, Emit, Put,
         End, Connect, Take, Sent, SendFails, session, vars
<1> QED
  BY <1>1, <1>2, <1>3, <1>4 DEF TypeOK, FlagsOK

LEMMA TypeSession == TypeOK /\ [Next]_vars => SessionOK'
<1> SUFFICES ASSUME TypeOK, [Next]_vars PROVE SessionOK'
  OBVIOUS
<1> USE DEF TypeOK, SessionOK
<1>1. CASE Start \/ Replay
  <2>1. position' \in 0..Length
    BY <1>1 DEF Start, Replay
  <2>2. task' \in Tasks
    BY <1>1 DEF Start, Replay, Create
  <2> QED
    BY <2>1, <2>2
<1>2. CASE Delete \/ DeleteResumes
  BY <1>2 DEF Delete, DeleteResumes
<1>3. ASSUME NEW on \in BOOLEAN, Pause(on) PROVE SessionOK'
  BY <1>3 DEF Pause
<1>4. ASSUME NEW t \in Tasks, Tick(t) \/ Idle(t) \/ Finish(t) \/ Emit(t) PROVE SessionOK'
  BY <1>4 DEF Tick, Idle, Finish, Emit, From, PlayerOK, session
<1>5. ASSUME NEW t \in Tasks, NEW c \in Clients, Put(t, c) PROVE SessionOK'
  BY <1>5 DEF Put, session
<1>6. ASSUME NEW t \in Tasks, End(t) PROVE SessionOK'
  BY <1>6 DEF End
<1>7. ASSUME NEW c \in Clients, Connect(c) \/ Take(c) \/ Sent(c) \/ SendFails(c) PROVE SessionOK'
  BY <1>7 DEF Connect, Take, Sent, SendFails, session
<1>8. CASE UNCHANGED vars
  BY <1>8 DEF vars, session
<1> QED
  BY <1>1, <1>2, <1>3, <1>4, <1>5, <1>6, <1>7, <1>8 DEF Next

LEMMA TypePlayer == TypeOK /\ [Next]_vars => PlayerOK'
<1> SUFFICES ASSUME TypeOK, [Next]_vars PROVE PlayerOK'
  OBVIOUS
<1> USE DEF TypeOK, PlayerOK
<1>1. CASE Start \/ Replay
  <2> PICK t \in Tasks : Create(t)
    BY <1>1 DEF Start, Replay
  <2>1. UNCHANGED <<at, owed>> /\ (cancelled' = cancelled \/ cancelled' = cancelled \cup Held)
    BY <1>1 DEF Start, Replay
  <2>2. Live' = Live \cup {t} /\ cancelled' \subseteq Live
    BY <2>1, TypeCreate DEF Held
  <2>3. play' \in [Tasks -> {"unused", "ready", "loop", "frame", "eos", "done"}]
    BY TypeCreate
  <2> QED
    BY <2>1, <2>2, <2>3
<1>2. CASE Delete \/ DeleteResumes
  <2>1. UNCHANGED <<play, at, owed>> /\ (cancelled' = cancelled \/ cancelled' = cancelled \cup Held)
    BY <1>2 DEF Delete, DeleteResumes, player
  <2> QED
    BY <2>1 DEF Held, Live
<1>3. ASSUME NEW on \in BOOLEAN, Pause(on) PROVE PlayerOK'
  BY <1>3 DEF Pause, player, Live
<1>4. ASSUME NEW t \in Tasks, Tick(t) \/ Idle(t) \/ Finish(t) \/ Emit(t) PROVE PlayerOK'
  <2>1. From(t) \in 0..Length /\ (Tick(t) => From(t) + 1 \in 0..Length)
    BY DEF From, SessionOK, Tick
  <2>2. /\ at' \in [Tasks -> 0..Length]
        /\ play' \in [Tasks -> {"unused", "ready", "loop", "frame", "eos", "done"}]
        /\ owed' \in [Tasks -> SUBSET Clients]
    <3>1. \E n \in 0..Length : at' = [at EXCEPT ![t] = n]
      <4>1. CASE Tick(t)
        BY <2>1, <4>1 DEF Tick
      <4>2. CASE Idle(t) \/ Finish(t)
        BY <2>1, <4>2 DEF Idle, Finish
      <4>3. CASE Emit(t)
        <5>1. at' = at
          BY <4>3 DEF Emit
        <5>2. at[t] \in 0..Length /\ at = [at EXCEPT ![t] = at[t]]
          OBVIOUS
        <5> QED
          BY <5>1, <5>2
      <4> QED
        BY <1>4, <4>1, <4>2, <4>3
    <3>2. \E s \in {"loop", "frame", "eos"} : play' = [play EXCEPT ![t] = s]
      BY <1>4 DEF Tick, Idle, Finish, Emit
    <3>3. owed' = owed \/ owed' = [owed EXCEPT ![t] = subscribers]
      BY <1>4 DEF Tick, Idle, Finish, Emit
    <3> QED
      BY <3>1, <3>2, <3>3 DEF ClientsOK
  <2>3. play[t] \in {"ready", "loop", "frame"} /\ cancelled' = cancelled
        /\ \E s \in {"loop", "frame", "eos"} : play' = [play EXCEPT ![t] = s]
    BY <1>4 DEF Tick, Idle, Finish, Emit, Runs
  <2>4. Live' = Live
    BY <2>3 DEF Live
  <2> QED
    BY <2>2, <2>3, <2>4
<1>5. ASSUME NEW t \in Tasks, NEW c \in Clients, Put(t, c) PROVE PlayerOK'
  BY <1>5 DEF Put, Live
<1>6. ASSUME NEW t \in Tasks, End(t) PROVE PlayerOK'
  <2>1. /\ at' \in [Tasks -> 0..Length]
        /\ play' \in [Tasks -> {"unused", "ready", "loop", "frame", "eos", "done"}]
        /\ owed' \in [Tasks -> SUBSET Clients]
    BY <1>6 DEF End
  <2>2. cancelled' \subseteq Live'
    BY <1>6 DEF End, Live
  <2> QED
    BY <2>1, <2>2
<1>7. ASSUME NEW c \in Clients, Connect(c) \/ Take(c) \/ Sent(c) \/ SendFails(c) PROVE PlayerOK'
  BY <1>7 DEF Connect, Take, Sent, SendFails, player, Live
<1>8. CASE UNCHANGED vars
  BY <1>8 DEF vars, player, Live
<1> QED
  BY <1>1, <1>2, <1>3, <1>4, <1>5, <1>6, <1>7, <1>8 DEF Next

LEMMA TypeClients == TypeOK /\ [Next]_vars => ClientsOK'
<1> SUFFICES ASSUME TypeOK, [Next]_vars PROVE ClientsOK'
  OBVIOUS
<1> USE DEF TypeOK
<1>1. ASSUME UNCHANGED clients PROVE ClientsOK'
  BY <1>1 DEF ClientsOK, clients
<1>2. CASE Delete \/ DeleteResumes
  <2>1. UNCHANGED <<subscribers, socket, held>>
    BY <1>2 DEF Delete, DeleteResumes
  <2>2. CASE UNCHANGED queue
    BY <1>1, <2>1, <2>2 DEF clients
  <2>3. CASE Remove
    BY <2>1, <2>3, TypeRemove DEF ClientsOK, Item
  <2> QED
    BY <1>2, <2>2, <2>3 DEF Delete, DeleteResumes
<1>3. ASSUME NEW t \in Tasks, NEW c \in Clients, Put(t, c) PROVE ClientsOK'
  <2> DEFINE i == IF play[t] = "eos" THEN Eos ELSE at[t]
  <2>1. i \in Item
    BY DEF Item, PlayerOK
  <2>2. queue' = [queue EXCEPT ![c] = Append(@, i)] /\ Len(queue[c]) < Capacity
        /\ UNCHANGED <<subscribers, socket, held>>
    BY <1>3 DEF Put
  <2> HIDE DEF i
  <2> QED
    BY <2>1, <2>2 DEF Item, ClientsOK
<1>4. ASSUME NEW c \in Clients, Take(c) PROVE ClientsOK'
  <2>1. /\ Head(queue[c]) \in Item /\ Tail(queue[c]) \in Seq(Item)
        /\ Len(Tail(queue[c])) <= Capacity
    BY <1>4 DEF Take, Item, ClientsOK
  <2>2. queue' \in [Clients -> Seq(Item)] /\ \A d \in Clients : Len(queue'[d]) <= Capacity
    BY <1>4, <2>1 DEF Take, Item, ClientsOK
  <2>3. held' \in [Clients -> 0..Length \cup {Eos, None}]
    BY <1>4, <2>1 DEF Take, Item, ClientsOK
  <2>4. socket' \in [Clients -> {"off", "idle", "sending", "left"}] /\ UNCHANGED subscribers
    BY <1>4 DEF Take, ClientsOK
  <2> QED
    BY <2>2, <2>3, <2>4 DEF ClientsOK, Item
<1>5. ASSUME NEW c \in Clients, Connect(c) \/ Sent(c) \/ SendFails(c) PROVE ClientsOK'
  BY <1>5 DEF Connect, Sent, SendFails, ClientsOK
<1>6. UNCHANGED clients
      \/ Delete \/ DeleteResumes
      \/ (\E t \in Tasks, c \in Clients : Put(t, c))
      \/ \E c \in Clients : Connect(c) \/ Take(c) \/ Sent(c) \/ SendFails(c)
  BY DEF Next, Start, Replay, Pause, Tick, Idle, Finish, Emit, End, vars
<1> QED
  BY <1>1, <1>2, <1>3, <1>4, <1>5, <1>6

LEMMA TypeHistory == TypeOK /\ [Next]_vars => HistoryOK'
<1> SUFFICES ASSUME TypeOK, [Next]_vars PROVE HistoryOK'
  OBVIOUS
<1> USE DEF TypeOK, HistoryOK
<1>1. CASE Start
  BY <1>1 DEF Start, Create, Counted, Revived
<1>2. CASE Replay
  BY <1>2 DEF Replay, Create, Counted, Revived
<1>3. CASE Delete \/ DeleteResumes
  BY <1>3 DEF Delete, DeleteResumes, Remove, ClientsOK
<1>4. ASSUME NEW on \in BOOLEAN, Pause(on) PROVE HistoryOK'
  BY <1>4 DEF Pause, Counted
<1>5. ASSUME NEW t \in Tasks, End(t) PROVE HistoryOK'
  BY <1>5 DEF End
<1>6. CASE UNCHANGED history
  BY <1>6 DEF history
<1>7. \/ Start \/ Replay \/ Delete \/ DeleteResumes
      \/ (\E on \in BOOLEAN : Pause(on)) \/ (\E t \in Tasks : End(t))
      \/ UNCHANGED history
  BY DEF Next, Tick, Idle, Finish, Emit, Put, Connect, Take, Sent, SendFails, vars
<1> QED
  BY <1>1, <1>2, <1>3, <1>4, <1>5, <1>6, <1>7

\* The playbacks, the sockets and their queues are well formed.
THEOREM TypeCorrect == Spec => []TypeOK
<1>1. TypeOK /\ [Next]_vars => TypeOK'
  BY TypeFlags, TypeSession, TypePlayer, TypeClients, TypeHistory DEF TypeOK
<1> QED
  BY <1>1, TypeInit, PTL DEF Spec

----------------------------------------------------------------------------
(* One playback                                                            *)

\* What disturbed a stream is not forgotten.
LEMMA CausesKept == [Next]_vars => causes \subseteq causes'
  BY DEF Next, Start, Replay, Delete, DeleteResumes, Pause, Tick, Idle, Finish, Emit, Put, End,
         Connect, Take, Sent, SendFails, history, vars

\* The steps that leave Going and the handle alone.
LEMMA SameGoing ==
    ASSUME TypeOK,
           \/ \E on \in BOOLEAN : Pause(on)
           \/ \E t \in Tasks : Tick(t) \/ Idle(t) \/ Finish(t) \/ Emit(t)
           \/ \E t \in Tasks, c \in Clients : Put(t, c)
           \/ \E c \in Clients : Connect(c) \/ Take(c) \/ Sent(c) \/ SendFails(c)
           \/ DeleteResumes \/ UNCHANGED vars
    PROVE  Live' = Live /\ Going' = Going /\ UNCHANGED <<task, cancelled, relayed, causes>>
<1>1. UNCHANGED <<task, cancelled, relayed, causes>>
  BY DEF Pause, Tick, Idle, Finish, Emit, Put, Connect, Take, Sent, SendFails, DeleteResumes,
         vars, session, player, history
<1>2. Live' = Live
  <2>1. ASSUME NEW t \in Tasks, Tick(t) \/ Idle(t) \/ Finish(t) \/ Emit(t) PROVE Live' = Live
    <3>1. play[t] \in {"ready", "loop", "frame"}
          /\ \E s \in {"loop", "frame", "eos"} : play' = [play EXCEPT ![t] = s]
      BY <2>1 DEF Tick, Idle, Finish, Emit, Runs
    <3> QED
      BY <3>1 DEF Live, TypeOK, PlayerOK
  <2>2. (\E t \in Tasks : Tick(t) \/ Idle(t) \/ Finish(t) \/ Emit(t)) \/ UNCHANGED play
    BY DEF Pause, Put, Connect, Take, Sent, SendFails, DeleteResumes, vars, player
  <2> QED
    BY <2>1, <2>2 DEF Live
<1> QED
  BY <1>1, <1>2 DEF Going

LEMMA DriverStart ==
    ASSUME TypeOK, Start, Spared({"started", "replayed"})'
    PROVE  Driver'
<1> PICK t \in Tasks : Create(t)
  BY DEF Start
<1>1. Live = {}
  BY DEF Start, Spared
<1>2. Live' = {t} /\ task' = t
  BY <1>1, TypeCreate
<1> QED
  BY <1>2 DEF Driver, Going

LEMMA DriverReplay ==
    ASSUME TypeOK, Driver, Replay, Spared({"started", "replayed"})'
    PROVE  Driver' /\ task' \in Tasks /\ Going' = {task'}
<1> PICK t \in Tasks : Create(t) /\ relayed' = IF Live = {} THEN relayed ELSE relayed \cup {t}
  BY DEF Replay
<1>1. relayed \cap Live = {}
  BY DEF Replay, Spared
<1>2. Going \subseteq Held
  BY <1>1 DEF Driver, Going, Held
<1>3. Live' = Live \cup {t} /\ t \notin Live /\ task' = t
  BY TypeCreate
<1>4. cancelled' = cancelled \cup Held /\ cancelled' \subseteq Live
  BY DEF Replay, TypeOK, PlayerOK, Held
<1>5. Going' = {t}
  BY <1>2, <1>3, <1>4 DEF Going
<1> QED
  BY <1>3, <1>5 DEF Driver

LEMMA DriverStep == TypeOK /\ DriverInv /\ [Next]_vars => DriverInv'
<1> SUFFICES ASSUME TypeOK, DriverInv, [Next]_vars, Spared({"started", "replayed"})'
             PROVE  Driver'
  BY DEF DriverInv
<1>1. Driver
  BY CausesKept DEF DriverInv, Spared
<1>2. CASE Start
  BY <1>2, DriverStart
<1>3. CASE Replay
  BY <1>1, <1>3, DriverReplay
<1>4. CASE Delete
  <2>1. Live' = Live /\ Going' \subseteq Going /\ UNCHANGED <<task, relayed>>
    BY <1>4 DEF Delete, Live, Going
  <2> QED
    BY <1>1, <2>1 DEF Driver
<1>5. ASSUME NEW t \in Tasks, End(t) PROVE Driver'
  <2>1. /\ Live' = Live \ {t} /\ Going' = Going \ {t} /\ t \in Live
        /\ relayed' = relayed \ {t} /\ task' \in {task, None}
    BY <1>5 DEF End, Live, Going, TypeOK, PlayerOK
  <2>2. ASSUME NEW u \in Going' PROVE task' = u \/ u \in relayed'
    BY <1>1, <2>1, <2>2 DEF Driver
  <2> QED
    BY <1>1, <2>1, <2>2 DEF Driver
<1>6. CASE ~(Start \/ Replay \/ Delete \/ \E t \in Tasks : End(t))
  BY <1>1, <1>6, SameGoing DEF Driver, Next
<1> QED
  BY <1>2, <1>3, <1>4, <1>5, <1>6

\* However starts, replays, pauses and deletions fall between the steps of the
\* playbacks, one of them at most drives the position of the session, but for
\* the schedules OnePlayback names (playback_task, POST /start and /replay).
THEOREM OneDriver == Spec => []OnePlayback
<1>1. Init => DriverInv
  BY DEF Init, DriverInv, Driver, Going, Live
<1>2. TypeOK /\ DriverInv /\ [Next]_vars => DriverInv'
  BY DriverStep
<1>3. DriverInv => OnePlayback
  BY DEF DriverInv, Driver, OnePlayback, Going
<1> QED
  BY <1>1, <1>2, <1>3, TypeCorrect, PTL DEF Spec

----------------------------------------------------------------------------
(* The position                                                            *)

LEMMA QuietInit == Init => Quiet
  BY DEF Init, Quiet

LEMMA QuietStep == TypeOK /\ Quiet /\ [Next]_vars => Quiet'
<1> SUFFICES ASSUME TypeOK, Quiet, [Next]_vars PROVE Quiet'
  OBVIOUS
<1> USE DEF Quiet
<1>1. CASE Start \/ Replay
  <2> PICK t \in Tasks : Create(t)
    BY <1>1 DEF Start, Replay
  <2>1. UNCHANGED clients /\ UNCHANGED owed /\ play[t] = "unused"
    BY <1>1 DEF Start, Replay, Create
  <2> QED
    BY <2>1, TypeCreate DEF clients
<1>2. CASE Delete \/ DeleteResumes
  <2>1. UNCHANGED <<subscribers, socket, held>> /\ UNCHANGED <<play, owed>>
    BY <1>2 DEF Delete, DeleteResumes, player
  <2>2. \A c \in Clients : c \notin subscribers => queue'[c] = queue[c]
    BY <1>2, TypeRemove DEF Delete, DeleteResumes, TypeOK
  <2> QED
    BY <2>1, <2>2
<1>3. ASSUME NEW on \in BOOLEAN, Pause(on) PROVE Quiet'
  BY <1>3 DEF Pause, player, clients
<1>4. ASSUME NEW t \in Tasks, Tick(t) \/ Idle(t) \/ Finish(t) \/ Emit(t) PROVE Quiet'
  <2>1. UNCHANGED clients
    BY <1>4 DEF Tick, Idle, Finish, Emit
  <2>2. \/ /\ \E s \in {"frame", "eos"} : play' = [play EXCEPT ![t] = s]
           /\ owed' = [owed EXCEPT ![t] = subscribers]
        \/ /\ owed' = owed /\ owed[t] = {}
           /\ \E s \in {"loop"} : play' = [play EXCEPT ![t] = s]
    BY <1>4 DEF Tick, Idle, Finish, Emit, Runs
  <2>3. ASSUME NEW u \in Tasks, owed'[u] # {} PROVE play'[u] \in {"frame", "eos"}
    BY <2>2, <2>3 DEF TypeOK, PlayerOK
  <2>4. ASSUME NEW c \in Clients, NEW u \in Tasks, c \in owed'[u] PROVE c \in owed[u] \/ c \in subscribers
    BY <2>2, <2>4 DEF TypeOK, PlayerOK
  <2> QED
    BY <2>1, <2>3, <2>4 DEF clients
<1>5. ASSUME NEW t \in Tasks, NEW c \in Clients, Put(t, c) PROVE Quiet'
  <2>1. /\ UNCHANGED <<play, subscribers, socket, held>>
        /\ \A d \in Clients \ {c} : queue'[d] = queue[d]
        /\ c \in owed[t] /\ \A u \in Tasks : owed'[u] \subseteq owed[u]
    BY <1>5 DEF Put, TypeOK, PlayerOK, ClientsOK
  <2>2. socket[c] # "off"
    BY <2>1
  <2> QED
    BY <2>1, <2>2
<1>6. ASSUME NEW t \in Tasks, End(t) PROVE Quiet'
  <2>1. UNCHANGED clients
    BY <1>6 DEF End
  <2>2. \A u \in Tasks : \/ owed'[u] = {}
                         \/ owed'[u] = owed[u] /\ play'[u] = play[u]
    BY <1>6 DEF End, TypeOK, PlayerOK
  <2> QED
    BY <2>1, <2>2 DEF clients
<1>7. ASSUME NEW c \in Clients, Connect(c) \/ Take(c) \/ Sent(c) \/ SendFails(c) PROVE Quiet'
  <2>1. UNCHANGED player
    BY <1>7 DEF Connect, Take, Sent, SendFails
  <2>2. /\ socket'[c] # "off" /\ subscribers' \subseteq subscribers \cup {c}
        /\ \A d \in Clients \ {c} :
             socket'[d] = socket[d] /\ queue'[d] = queue[d] /\ held'[d] = held[d]
    BY <1>7 DEF Connect, Take, Sent, SendFails, TypeOK, ClientsOK
  <2> QED
    BY <2>1, <2>2 DEF player
<1>8. CASE UNCHANGED vars
  BY <1>8 DEF vars, player, clients
<1> QED
  BY <1>1, <1>2, <1>3, <1>4, <1>5, <1>6, <1>7, <1>8 DEF Next

LEMMA UndisturbedBefore ==
    ASSUME [Next]_vars, Undisturbed', DriverInv
    PROVE  Undisturbed /\ Driver /\ Spared({"started", "replayed"})'
<1>1. Undisturbed
  BY CausesKept DEF Undisturbed, Spared
<1> QED
  BY <1>1 DEF Undisturbed, Spared, DriverInv

\* A playback that takes a step of its loop is the one that goes on.
LEMMA OwnStep ==
    ASSUME TypeOK, Driver, NEW t \in Tasks, Tick(t) \/ Idle(t) \/ Finish(t) \/ Emit(t)
    PROVE  /\ Going = {t} /\ Going' = {t}
           /\ play[t] = "ready" => cancelled = {}
           /\ play[t] \in {"ready", "loop", "frame"}
<1>1. t \notin cancelled /\ play[t] \in {"ready", "loop", "frame"}
      /\ (play[t] = "ready" => cancelled = {})
  BY DEF Tick, Idle, Finish, Emit, Runs
<1>2. t \in Going
  BY <1>1 DEF Going, Live
<1>3. Going = {t}
  BY <1>2 DEF Driver
<1> QED
  BY <1>1, <1>3, SameGoing

\* After a deletion nothing goes on.
LEMMA DeleteStops ==
    ASSUME TypeOK, Delete, Undisturbed'
    PROVE  Going' = {} /\ ~Open'
<1>1. Live' = Live /\ Live \subseteq Held /\ cancelled' = cancelled \cup Held
  BY DEF Delete, Live, Undisturbed, Spared
<1>2. Going' = {}
  BY <1>1 DEF Going
<1>3. deleting' = TRUE \/ exists' = FALSE
  BY DEF Delete, Remove
<1> QED
  BY <1>2, <1>3 DEF Open

LEMMA PositionStep ==
    ASSUME TypeOK, Driver, Position, [Next]_vars, Undisturbed'
    PROVE  Position'
<1> USE DEF Position
<1>1. CASE Start
  <2> PICK t \in Tasks : Create(t)
    BY <1>1 DEF Start
  <2>1. Live = {} /\ deleting # TRUE /\ exists
    BY <1>1 DEF Start, Undisturbed, Spared, Revived
  <2>2. Live' = {t} /\ play'[t] = "ready" /\ running'
    BY <2>1, TypeCreate
  <2>3. deleting = FALSE
    BY <2>1 DEF TypeOK, FlagsOK
  <2>4. Open
    BY <2>1, <2>3 DEF Open
  <2>5. position \in {0, Length}
    BY <2>1, <2>4
  <2>6. UNCHANGED <<position, exists, deleting, cancelled>> /\ cancelled = {}
    BY <1>1, <2>1 DEF Start, TypeOK, PlayerOK
  <2>7. Open' /\ Going' = {t} /\ position' \in {0, Length} /\ cancelled' = {}
    BY <2>2, <2>4, <2>5, <2>6 DEF Open, Going
  <2> QED
    BY <2>2, <2>7
<1>2. CASE Replay
  <2>1. Spared({"started", "replayed"})'
    BY DEF Undisturbed, Spared
  <2>2. task' \in Tasks /\ Going' = {task'}
    BY <1>2, <2>1, DriverReplay
  <2> PICK t \in Tasks : Create(t)
    BY <1>2 DEF Replay
  <2>3. task' = t /\ play'[t] = "ready" /\ running' /\ t \in Live'
    BY TypeCreate
  <2>4. deleting # TRUE /\ exists
    BY <1>2 DEF Replay, Undisturbed, Spared, Revived
  <2>5. UNCHANGED <<exists, deleting>> /\ position' = 0
    BY <1>2 DEF Replay
  <2>6. Open'
    BY <2>4, <2>5 DEF Open, TypeOK, FlagsOK
  <2> QED
    BY <2>2, <2>3, <2>5, <2>6
<1>3. CASE Delete
  BY <1>3, DeleteStops
<1>4. CASE DeleteResumes
  <2>1. ~Open /\ ~Open'
    BY <1>4 DEF DeleteResumes, Remove, Open
  <2>2. Going' = {}
    BY <1>4, <2>1, SameGoing
  <2> QED
    BY <2>1, <2>2
<1>5. ASSUME NEW t \in Tasks, Tick(t) \/ Idle(t) \/ Finish(t) \/ Emit(t) PROVE Position'
  <2>1. /\ Going = {t} /\ Going' = {t} /\ (play[t] = "ready" => cancelled = {})
        /\ play[t] \in {"ready", "loop", "frame"}
    BY <1>5, OwnStep
  <2>2. Live' # {}
    BY <2>1 DEF Going
  <2>3. cancelled = {} /\ cancelled' = {}
    <3>1. UNCHANGED cancelled
      BY <1>5, SameGoing
    <3> QED
      BY <2>1, <3>1
  <2>4. Open /\ running
    BY <2>1
  <2>5. Open'
    <3>1. UNCHANGED <<exists, deleting>>
      BY <1>5 DEF Tick, Idle, Finish, Emit, session
    <3> QED
      BY <2>4, <3>1 DEF Open
  <2>6. From(t) = position
    BY <2>1 DEF From
  <2>7. CASE Tick(t)
    <3>1. position' = at'[t] /\ play'[t] = "frame"
      BY <2>7 DEF Tick, TypeOK, PlayerOK
    <3>2. running'
      BY <2>4, <2>7 DEF Tick
    <3> QED
      BY <2>1, <2>2, <2>3, <2>5, <3>1, <3>2
  <2>8. CASE Idle(t)
    <3>1. position' = at'[t] /\ play'[t] = "loop"
      BY <2>6, <2>8 DEF Idle, TypeOK, PlayerOK, session
    <3>2. running'
      BY <2>4, <2>8 DEF Idle, session
    <3> QED
      BY <2>1, <2>2, <2>3, <2>5, <3>1, <3>2
  <2>9. CASE Finish(t)
    <3>1. position >= Length
      BY <2>4, <2>6, <2>9 DEF Finish
    <3>2. position = Length
      BY <3>1 DEF TypeOK, SessionOK
    <3>3. position' = at'[t] /\ at'[t] = Length /\ play'[t] = "eos"
      BY <2>6, <2>9, <3>2 DEF Finish, TypeOK, PlayerOK
    <3> QED
      BY <2>1, <2>2, <2>3, <2>5, <3>3
  <2>10. CASE Emit(t)
    <3>1. play[t] = "frame" /\ play'[t] = "loop" /\ UNCHANGED <<position, at, running>>
      BY <2>10 DEF Emit, TypeOK, PlayerOK, session
    <3>2. running'
      BY <2>4, <3>1
    <3> QED
      BY <2>1, <2>2, <2>3, <2>5, <3>1, <3>2
  <2> QED
    BY <1>5, <2>7, <2>8, <2>9, <2>10
<1>6. ASSUME NEW t \in Tasks, End(t) PROVE Position'
  <2>1. /\ Live' = Live \ {t} /\ Going' = Going \ {t} /\ t \in Live
        /\ cancelled' = cancelled \ {t}
        /\ \A u \in Tasks \ {t} : play'[u] = play[u] /\ at'[u] = at[u]
    BY <1>6 DEF End, Live, Going, TypeOK, PlayerOK
  <2>2. UNCHANGED <<exists, deleting, running, position>>
    BY <1>6 DEF End
  <2>3. Open' = Open
    BY <2>2 DEF Open
  <2>4. CASE t \in cancelled
    <3>1. Going' = Going /\ t \notin Going
      BY <2>1, <2>4 DEF Going
    <3>2. Open => Going # {}
      BY <2>4
    <3>3. \A u \in Going : u # t /\ play'[u] = play[u] /\ at'[u] = at[u]
      BY <2>1, <3>1 DEF Going, Live
    <3> QED
      BY <2>1, <2>2, <2>3, <3>1, <3>2, <3>3 DEF Going
  <2>5. CASE t \notin cancelled
    <3>1. play[t] = "eos" /\ t \in Going
      BY <1>6, <2>1, <2>5 DEF End, Going
    <3>2. Going' = {} /\ cancelled = {} /\ position = Length
      BY <2>1, <3>1 DEF Driver
    <3> QED
      BY <2>1, <2>2, <3>2
  <2> QED
    BY <2>4, <2>5
<1>7. CASE (\E on \in BOOLEAN : Pause(on)) \/ (\E t \in Tasks, c \in Clients : Put(t, c))
           \/ (\E c \in Clients : Connect(c) \/ Take(c) \/ Sent(c) \/ SendFails(c))
           \/ UNCHANGED vars
  <2>1. Live' = Live /\ Going' = Going /\ UNCHANGED cancelled
    BY <1>7, SameGoing
  <2>2. UNCHANGED <<exists, deleting, running, position>> /\ UNCHANGED <<play, at>>
    BY <1>7 DEF Pause, Put, Connect, Take, Sent, SendFails, vars, session, player
  <2> QED
    BY <2>1, <2>2 DEF Open
<1> QED
  BY <1>1, <1>2, <1>3, <1>4, <1>5, <1>6, <1>7 DEF Next

----------------------------------------------------------------------------
(* The frames                                                              *)

\* An item at the end of a queue.
LEMMA InOrderAppend ==
    ASSUME NEW h, NEW q \in Seq(Item), NEW i \in Item, InOrder(h, q),
           LatestOf(h, q) = None \/ After(LatestOf(h, q), i)
    PROVE  InOrder(h, Append(q, i)) /\ LatestOf(h, Append(q, i)) = i
<1> DEFINE r == Append(q, i)
<1>1. /\ Len(r) = Len(q) + 1 /\ Len(q) \in Nat /\ r # <<>> /\ r[Len(q) + 1] = i
      /\ \A n \in 1..Len(q) : r[n] = q[n]
      /\ (q = <<>> <=> Len(q) = 0)
  OBVIOUS
<1>2. \A n \in 1..Len(q) : q[n] \in Item
  OBVIOUS
<1>3. None \notin Item
  BY DEF Item
<1> HIDE DEF r
<1>4. LatestOf(h, r) = i
  BY <1>1 DEF LatestOf
<1>5. h # None => After(h, r[1])
  <2>1. CASE q = <<>>
    BY <1>1, <2>1 DEF LatestOf
  <2>2. CASE q # <<>>
    BY <1>1, <2>2 DEF InOrder
  <2> QED
    BY <2>1, <2>2
<1>6. ASSUME NEW n \in 1..(Len(r) - 1) PROVE After(r[n], r[n + 1])
  <2>1. CASE n < Len(q)
    <3>1. n \in 1..(Len(q) - 1) /\ r[n] = q[n] /\ r[n + 1] = q[n + 1]
      BY <1>1, <2>1
    <3> QED
      BY <3>1 DEF InOrder
  <2>2. CASE n = Len(q)
    <3>1. q # <<>> /\ r[n] = q[Len(q)] /\ r[n + 1] = i
      BY <1>1, <2>2
    <3>2. LatestOf(h, q) = q[Len(q)] /\ q[Len(q)] # None
      BY <1>1, <1>2, <1>3, <3>1 DEF LatestOf
    <3> QED
      BY <3>1, <3>2
  <2> QED
    BY <1>1, <2>1, <2>2
<1> QED
  BY <1>4, <1>5, <1>6 DEF InOrder, r

\* An item taken from the front.
LEMMA InOrderTake ==
    ASSUME NEW h, NEW q \in Seq(Item), q # <<>>, InOrder(h, q)
    PROVE  InOrder(Head(q), Tail(q)) /\ LatestOf(Head(q), Tail(q)) = LatestOf(h, q)
<1> DEFINE r == Tail(q)
<1>1. /\ Len(q) \in Nat /\ Len(q) >= 1 /\ Len(r) = Len(q) - 1 /\ Head(q) = q[1]
      /\ \A n \in 1..Len(r) : r[n] = q[n + 1]
      /\ (r = <<>> <=> Len(r) = 0)
  <2>1. Len(q) \in Nat /\ Len(q) >= 1 /\ Head(q) = q[1]
    OBVIOUS
  <2>2. r \in Seq(Item) /\ Len(r) = Len(q) - 1 /\ \A n \in 1..Len(r) : r[n] = q[n + 1]
    BY <2>1
  <2>3. r = <<>> <=> Len(r) = 0
    BY <2>2
  <2> QED
    BY <2>1, <2>2, <2>3
<1> HIDE DEF r
<1>2. LatestOf(Head(q), r) = LatestOf(h, q)
  <2>1. CASE Len(r) = 0
    <3>1. Len(q) = 1 /\ q # <<>> /\ r = <<>>
      BY <1>1, <2>1
    <3> QED
      BY <1>1, <3>1 DEF LatestOf
  <2>2. CASE Len(r) # 0
    <3>1. Len(r) \in 1..Len(r) /\ Len(r) + 1 = Len(q)
      BY <1>1, <2>2
    <3> QED
      BY <1>1, <2>2, <3>1 DEF LatestOf
  <2> QED
    BY <2>1, <2>2
<1>3. r # <<>> => After(Head(q), r[1])
  <2> SUFFICES ASSUME r # <<>> PROVE After(Head(q), r[1])
    OBVIOUS
  <2>1. 1 \in 1..Len(r) /\ 1 \in 1..(Len(q) - 1)
    BY <1>1
  <2>2. After(q[1], q[1 + 1])
    BY <2>1 DEF InOrder
  <2>3. r[1] = q[1 + 1]
    BY <1>1, <2>1
  <2> QED
    BY <1>1, <2>2, <2>3
<1>4. ASSUME NEW n \in 1..(Len(r) - 1) PROVE After(r[n], r[n + 1])
  <2>1. n + 1 \in 1..(Len(q) - 1) /\ n \in 1..Len(r) /\ n + 1 \in 1..Len(r)
    BY <1>1
  <2>2. After(q[n + 1], q[(n + 1) + 1])
    BY <2>1 DEF InOrder
  <2> QED
    BY <1>1, <2>1, <2>2
<1> QED
  BY <1>2, <1>3, <1>4 DEF InOrder, r

\* The same of what the client holds and what waits, as one sequence.
LEMMA InOrderStream ==
    ASSUME TypeOK, NEW c \in Clients, InOrder(held[c], queue[c]),
           NEW n \in 1..(Len(Stream(c)) - 1)
    PROVE  After(Stream(c)[n], Stream(c)[n + 1])
<1> DEFINE h == held[c]
           q == queue[c]
<1>0. q \in Seq(Item)
  BY DEF TypeOK, ClientsOK, Item
<1> HIDE DEF h, q
<1>1. CASE h = None
  <2>1. Stream(c) = q
    BY <1>0, <1>1 DEF Stream, h, q
  <2> QED
    BY <2>1 DEF InOrder, h, q
<1>2. CASE h # None
  <2> DEFINE r == <<h>> \o q
  <2>1. Stream(c) = r
    BY <1>2 DEF Stream, h, q
  <2>2. /\ Len(r) = Len(q) + 1 /\ Len(q) \in Nat /\ r[1] = h
        /\ \A m \in 1..Len(q) : r[m + 1] = q[m]
        /\ (q = <<>> <=> Len(q) = 0)
    BY <1>0
  <2> HIDE DEF r
  <2>3. InOrder(h, q) /\ n \in 1..Len(q)
    BY <2>1, <2>2 DEF h, q
  <2>4. CASE n = 1
    BY <1>2, <2>1, <2>2, <2>3, <2>4 DEF InOrder
  <2>5. CASE n # 1
    <3>1. n - 1 \in 1..(Len(q) - 1) /\ n - 1 \in 1..Len(q) /\ (n - 1) + 1 = n
      BY <2>2, <2>3, <2>5
    <3>2. After(q[n - 1], q[(n - 1) + 1])
      BY <2>3, <3>1 DEF InOrder
    <3>3. r[n] = q[n - 1] /\ r[n + 1] = q[n]
      BY <2>2, <2>3, <3>1
    <3> QED
      BY <2>1, <3>1, <3>2, <3>3
  <2> QED
    BY <2>4, <2>5
<1> QED
  BY <1>1, <1>2

LEMMA Parts ==
    ASSUME TypeOK, NEW c \in Clients
    PROVE  queue[c] \in Seq(Item) /\ Eos \in Item /\ \A t \in Tasks : at[t] \in Item /\ at[t] \in Nat
  BY DEF TypeOK, ClientsOK, PlayerOK, Item

LEMMA UpcomingStep ==
    ASSUME TypeOK, Driver, Position, Quiet, Upcoming, Ordered, [Next]_vars, Undisturbed'
    PROVE  Upcoming' /\ Ordered'
<1> USE DEF Upcoming, Ordered, Follows, Latest
<1>1. ASSUME UNCHANGED <<queue, held>> PROVE Ordered' /\ \A c \in Clients : Latest(c)' = Latest(c)
  BY <1>1
<1>2. CASE Start \/ Replay
  <2> PICK t \in Tasks : Create(t)
    BY <1>2 DEF Start, Replay
  <2>1. Spared({"started", "replayed"})'
    BY DEF Undisturbed, Spared
  <2>2. Driver'
    BY <1>2, <2>1, DriverStart, DriverReplay
  <2>3. play'[t] = "ready" /\ t \notin Live /\ t \in Live'
    BY TypeCreate
  <2>4. t \in Going'
    BY <1>2, <2>3 DEF Start, Replay, Going, TypeOK, PlayerOK, Held
  <2>5. Upcoming'
    BY <2>2, <2>3, <2>4 DEF Driver
  <2>6. UNCHANGED <<queue, held>>
    BY <1>2 DEF Start, Replay, clients
  <2> QED
    BY <1>1, <2>5, <2>6
<1>3. CASE Delete \/ DeleteResumes
  <2>1. Going' = {}
    <3>1. CASE Delete
      BY <3>1, DeleteStops
    <3>2. CASE DeleteResumes
      <4>1. ~Open
        BY <3>2 DEF DeleteResumes, Open
      <4> QED
        BY <3>2, <4>1, SameGoing DEF Position
    <3> QED
      BY <1>3, <3>1, <3>2
  <2>2. UNCHANGED held /\ (UNCHANGED queue \/ Remove)
    BY <1>3 DEF Delete, DeleteResumes
  <2>3. ASSUME NEW c \in Clients PROVE InOrder(held[c], queue[c])'
    <3>1. queue'[c] = queue[c] \/ queue'[c] = Append(queue[c], Eos)
      BY <2>2, TypeRemove DEF TypeOK
    <3>2. After(LatestOf(held[c], queue[c]), Eos)
      BY DEF After
    <3>3. InOrder(held[c], Append(queue[c], Eos))
      BY <3>2, Parts, InOrderAppend
    <3>4. InOrder(held[c], queue[c])
      OBVIOUS
    <3>5. InOrder(held[c], queue'[c])
      BY <3>1, <3>3, <3>4
    <3> QED
      BY <2>2, <3>5
  <2> QED
    BY <2>1, <2>3
<1>4. ASSUME NEW t \in Tasks, Tick(t) \/ Idle(t) \/ Finish(t) \/ Emit(t) PROVE Upcoming' /\ Ordered'
  <2>1. /\ Going = {t} /\ Going' = {t} /\ play[t] \in {"ready", "loop", "frame"}
    BY <1>4, OwnStep
  <2>2. UNCHANGED <<queue, held, subscribers>>
    BY <1>4 DEF Tick, Idle, Finish, Emit, clients
  <2>3. Ordered' /\ \A c \in Clients : Latest(c)' = Latest(c)
    BY <1>1, <2>2
  <2>4. \A c \in Clients : \A n : Follows(c, n)' <=> (Latest(c) = None \/ After(Latest(c), n))
    BY <2>3
  <2>5. subscribers \subseteq Clients
    BY DEF TypeOK, ClientsOK
  <2>6. CASE Tick(t) \/ Idle(t)
    <3>1. From(t) < Length /\ play[t] \in {"ready", "loop"}
      BY <2>6 DEF Tick, Idle, Runs
    <3>2. ASSUME NEW c \in subscribers PROVE Follows(c, From(t) + 1)
      <4>1. CASE play[t] = "ready"
        <5>1. position = 0
          BY <2>1, <3>1, <4>1 DEF Position, From
        <5> QED
          BY <4>1, <5>1 DEF From, After
      <4>2. CASE play[t] = "loop"
        BY <2>1, <4>2 DEF From
      <4> QED
        BY <3>1, <4>1, <4>2
    <3>3. CASE Tick(t)
      <4>1. play'[t] = "frame" /\ at'[t] = From(t) + 1 /\ owed'[t] = subscribers
        BY <3>3 DEF Tick, TypeOK, PlayerOK
      <4>2. \A c \in owed'[t] : Follows(c, at[t])'
        BY <2>2, <2>5, <3>2, <4>1
      <4> QED
        BY <2>1, <2>2, <2>3, <4>1, <4>2
    <3>4. CASE Idle(t)
      <4>1. play'[t] = "loop" /\ at'[t] = From(t)
        BY <3>4 DEF Idle, TypeOK, PlayerOK
      <4>2. \A c \in subscribers' : Follows(c, at[t] + 1)'
        BY <2>2, <2>5, <3>2, <4>1
      <4> QED
        BY <2>1, <2>3, <4>1, <4>2
    <3> QED
      BY <2>6, <3>3, <3>4
  <2>7. CASE Finish(t)
    <3>1. play'[t] = "eos"
      BY <2>7 DEF Finish, TypeOK, PlayerOK
    <3> QED
      BY <2>1, <2>3, <3>1
  <2>8. CASE Emit(t)
    <3>1. play[t] = "frame" /\ play'[t] = "loop" /\ owed[t] = {} /\ at' = at
      BY <2>8 DEF Emit, TypeOK, PlayerOK
    <3>2. \A c \in subscribers : Follows(c, at[t] + 1)
      BY <2>1, <3>1
    <3>3. \A c \in subscribers' : Follows(c, at[t] + 1)'
      BY <2>2, <2>5, <3>1, <3>2
    <3> QED
      BY <2>1, <2>3, <3>1, <3>3
  <2> QED
    BY <1>4, <2>6, <2>7, <2>8
<1>5. ASSUME NEW t \in Tasks, NEW c \in Clients, Put(t, c) PROVE Upcoming' /\ Ordered'
  <2> DEFINE i == IF play[t] = "eos" THEN Eos ELSE at[t]
  <2>1. /\ t \notin cancelled /\ c \in owed[t] /\ play[t] \in {"frame", "eos"}
        /\ queue' = [queue EXCEPT ![c] = Append(queue[c], i)]
        /\ owed' = [owed EXCEPT ![t] = @ \ {c}]
        /\ UNCHANGED <<play, at, subscribers, held>>
    BY <1>5 DEF Put, Quiet
  <2>2. t \in Going
    BY <2>1 DEF Going, Live
  <2>3. Going = {t} /\ Going' = {t}
    BY <1>5, <2>2, SameGoing DEF Driver
  <2>4. i \in Item
    BY Parts
  <2>5. Latest(c) = None \/ After(Latest(c), i)
    <3>1. CASE play[t] = "eos"
      BY <3>1 DEF After
    <3>2. CASE play[t] = "frame"
      BY <2>1, <2>2, <3>2
    <3> QED
      BY <2>1, <3>1, <3>2
  <2>6. play[t] = "frame" => i = at[t]
    OBVIOUS
  <2> HIDE DEF i
  <2>7. InOrder(held[c], Append(queue[c], i)) /\ LatestOf(held[c], Append(queue[c], i)) = i
    BY <2>4, <2>5, Parts, InOrderAppend
  <2>8. queue'[c] = Append(queue[c], i) /\ \A d \in Clients \ {c} : queue'[d] = queue[d]
    BY <2>1 DEF TypeOK, ClientsOK
  <2>9. Latest(c)' = i /\ \A d \in Clients \ {c} : Latest(d)' = Latest(d)
    BY <2>1, <2>7, <2>8
  <2>10. Ordered'
    <3> SUFFICES ASSUME NEW d \in Clients PROVE InOrder(held[d], queue[d])'
      OBVIOUS
    <3>1. CASE d = c
      BY <2>1, <2>7, <2>8, <3>1
    <3>2. CASE d # c
      BY <2>1, <2>8, <3>2
    <3> QED
      BY <3>1, <3>2
  <2>11. Upcoming'
    <3> SUFFICES ASSUME play[t] = "frame"
                 PROVE  /\ \A d \in owed'[t] : Follows(d, at[t])'
                        /\ \A d \in subscribers \ owed'[t] : Follows(d, at[t] + 1)'
      BY <2>1, <2>3
    <3>1. owed'[t] = owed[t] \ {c} /\ owed[t] \subseteq Clients /\ subscribers \subseteq Clients
      BY <2>1 DEF TypeOK, PlayerOK, ClientsOK
    <3>2. \A d \in owed'[t] : Follows(d, at[t])'
      <4>1. \A d \in owed[t] : Follows(d, at[t])
        BY <2>2
      <4> QED
        BY <2>1, <2>9, <3>1, <4>1
    <3>3. Follows(c, at[t] + 1)'
      <4>1. After(at[t], at[t] + 1)
        BY Parts DEF After
      <4> QED
        BY <2>1, <2>6, <2>9, <4>1
    <3>4. \A d \in subscribers \ owed'[t] : d # c => Follows(d, at[t] + 1)'
      <4>1. \A d \in subscribers \ owed[t] : Follows(d, at[t] + 1)
        BY <2>2
      <4> QED
        BY <2>1, <2>9, <3>1, <4>1
    <3> QED
      BY <3>2, <3>3, <3>4
  <2> QED
    BY <2>10, <2>11
<1>6. ASSUME NEW t \in Tasks, End(t) PROVE Upcoming' /\ Ordered'
  <2>1. /\ Going' = Going \ {t}
        /\ \A u \in Tasks \ {t} : play'[u] = play[u] /\ at'[u] = at[u] /\ owed'[u] = owed[u]
    BY <1>6 DEF End, Live, Going, TypeOK, PlayerOK
  <2>2. UNCHANGED <<queue, held, subscribers>>
    BY <1>6 DEF End, clients
  <2>3. Going' \subseteq Tasks \ {t}
    BY <2>1 DEF Going, Live
  <2> QED
    BY <1>1, <2>1, <2>2, <2>3
<1>7. ASSUME NEW c \in Clients, Connect(c) PROVE Upcoming' /\ Ordered'
  <2>1. UNCHANGED <<queue, held>> /\ subscribers' = subscribers \cup {c} /\ UNCHANGED <<play, at, owed>>
    BY <1>7 DEF Connect, player
  <2>2. Going' = Going
    BY <1>7, SameGoing
  <2>3. Latest(c) = None
    BY <1>7 DEF Connect, Quiet, LatestOf
  <2> QED
    BY <1>1, <2>1, <2>2, <2>3
<1>8. ASSUME NEW c \in Clients, Take(c) PROVE Upcoming' /\ Ordered'
  <2>1. /\ queue[c] # <<>> /\ UNCHANGED <<play, at, owed, subscribers>>
        /\ held'[c] = Head(queue[c]) /\ queue'[c] = Tail(queue[c])
        /\ \A d \in Clients \ {c} : held'[d] = held[d] /\ queue'[d] = queue[d]
    BY <1>8 DEF Take, player, TypeOK, ClientsOK
  <2>2. Going' = Going
    BY <1>8, SameGoing
  <2>3. InOrder(held'[c], queue'[c]) /\ LatestOf(held'[c], queue'[c]) = LatestOf(held[c], queue[c])
    <3>1. InOrder(held[c], queue[c])
      OBVIOUS
    <3> QED
      BY <2>1, <3>1, Parts, InOrderTake
  <2>4. \A d \in Clients : Latest(d)' = Latest(d)
    BY <2>1, <2>3
  <2>5. Ordered'
    BY <2>1, <2>3
  <2>6. subscribers \subseteq Clients /\ \A t \in Going : owed[t] \subseteq Clients
    BY DEF TypeOK, ClientsOK, PlayerOK, Going, Live
  <2>7. Upcoming'
    BY <2>1, <2>2, <2>4, <2>6
  <2> QED
    BY <2>5, <2>7
<1>9. CASE (\E on \in BOOLEAN : Pause(on)) \/ (\E c \in Clients : Sent(c) \/ SendFails(c))
           \/ UNCHANGED vars
  <2>1. Going' = Going
    BY <1>9, SameGoing
  <2>2. UNCHANGED <<queue, held>> /\ UNCHANGED <<play, at, owed>> /\ subscribers' \subseteq subscribers
    BY <1>9 DEF Pause, Sent, SendFails, vars, player, clients
  <2> QED
    BY <1>1, <2>1, <2>2
<1> QED
  BY <1>2, <1>3, <1>4, <1>5, <1>6, <1>7, <1>8, <1>9 DEF Next

LEMMA StreamInit == Init => StreamInv
<1> SUFFICES ASSUME Init PROVE StreamInv
  OBVIOUS
<1>1. Live = {} /\ Going = {} /\ cancelled = {} /\ position = 0
  <2>1. \A t \in Tasks : play[t] = "unused"
    BY DEF Init
  <2>2. cancelled = {} /\ position = 0
    BY DEF Init
  <2> QED
    BY <2>1, <2>2 DEF Live, Going
<1>2. \A c \in Clients : queue[c] = <<>> /\ held[c] = None
  BY DEF Init
<1>3. Ordered
  <2>1. Len(<<>>) = 0 /\ \A n \in 1..(0 - 1) : FALSE
    OBVIOUS
  <2>2. InOrder(None, <<>>)
    BY <2>1 DEF InOrder
  <2> QED
    BY <1>2, <2>2 DEF Ordered
<1>4. Position
  BY <1>1 DEF Position
<1> QED
  BY <1>1, <1>3, <1>4 DEF StreamInv, Upcoming

LEMMA StreamStep == IInv /\ [Next]_vars => StreamInv'
<1> SUFFICES ASSUME IInv, [Next]_vars, Undisturbed'
             PROVE  Position' /\ Upcoming' /\ Ordered'
  <2>1. StreamInv' <=> (Undisturbed' => Position' /\ Upcoming' /\ Ordered')
    BY DEF StreamInv
  <2> QED
    BY <2>1
<1>1. Undisturbed /\ Driver
  BY UndisturbedBefore DEF IInv
<1>2. Position /\ Upcoming /\ Ordered
  BY <1>1 DEF IInv, StreamInv
<1> QED
  BY <1>1, <1>2, PositionStep, UpcomingStep DEF IInv

\* What a client gets is in order: after each frame comes the next one, the
\* first of a new run or the end, and after the end only a new run, whatever
\* starts, replays, pauses, deletions and other clients do meanwhile, outside
\* the schedules FramesInOrder names (playback_task, ws_stream).
THEOREM InOrderAlways == Spec => []FramesInOrder
<1>1. Init => IInv
  <2>1. Init => DriverInv
    BY DEF Init, DriverInv, Driver, Going, Live
  <2> QED
    BY <2>1, TypeInit, QuietInit, StreamInit DEF IInv
<1>2. IInv /\ [Next]_vars => IInv'
  <2>1. TypeOK /\ [Next]_vars => TypeOK'
    BY TypeFlags, TypeSession, TypePlayer, TypeClients, TypeHistory DEF TypeOK
  <2> QED
    BY <2>1, DriverStep, QuietStep, StreamStep DEF IInv
<1>3. IInv => FramesInOrder
  <2> SUFFICES ASSUME IInv, Undisturbed, NEW c \in Clients, NEW n \in 1..(Len(Stream(c)) - 1)
               PROVE  After(Stream(c)[n], Stream(c)[n + 1])
    BY DEF FramesInOrder, Undisturbed, After
  <2>1. TypeOK /\ InOrder(held[c], queue[c])
    BY DEF IInv, StreamInv, Ordered
  <2> QED
    BY <2>1, InOrderStream
<1> QED
  BY <1>1, <1>2, <1>3, PTL DEF Spec
====
