---- MODULE SessionAnalysis_proofs ----
(***************************************************************************)
(* No window of a session is scored twice, and no part cycle stays open    *)
(* behind a deleted session (SessionAnalysis), for any recording, any size *)
(* of the bus and any number of requests.                                  *)
(*                                                                         *)
(* A task that is live is the one its handle names, unless an upload       *)
(* forgot it or, for FFT, requests overlapped (Handled); what the          *)
(* inference task has not reached is not scored (Ahead).  After a deletion *)
(* nothing publishes, no playback is about to, and nothing is left on the  *)
(* bus (Silent).                                                           *)
(***************************************************************************)
EXTENDS SessionAnalysis, TLAPS

HandledInf == Spared({"uploaded"}) => Live("inf") \subseteq {handle["inf"]}

HandledFft ==
    Spared({"uploaded", "overlapped"}) =>
        /\ Live("fft") \subseteq {handle["fft"]}
        /\ \A r \in Replays : waiting[r] # None => Live("fft") \subseteq {waiting[r]}
        /\ \A r, s \in Replays : waiting[r] # None /\ waiting[s] # None => r = s

Handled == HandledInf /\ HandledFft

\* What the task in state st with edge e has not reached is not scored.
AheadOf(st, e) ==
    /\ st = "ready" => \A w \in 1..Length : scored[w] = 0
    /\ st = "loop" => \A w \in 1..Length : w > e => scored[w] = 0

Ahead ==
    Spared({"uploaded"}) =>
        /\ \A w \in 1..Length : scored[w] <= 1
        /\ \A t \in Tasks : AheadOf(state["inf"][t], edge["inf"][t])

\* Nothing publishes any more.
Over ==
    /\ ~running /\ bus = 0 /\ ~cycle
    /\ \A k \in Kinds : Live(k) \subseteq cancelled[k]
    /\ \A t \in Tasks \ cancelled["play"] : state["play"][t] # "put"

Deleted == deleting \/ ~exists
Exempt  == {"late", "revived", "orphaned"}

Silent == Deleted /\ Spared(Exempt) => Over

----------------------------------------------------------------------------
(* What the steps do to the tasks                                          *)

USE NatAssumption, NoneAssumption DEF NatAssumption, NoneAssumption, Roles, Kinds, Tasks

\* A task goes on.
Moves ==
    \/ \E t \in Tasks : Tick(t) \/ Waits(t) \/ Emit(t) \/ Sticks(t) \/ RunEnds(t)
    \/ \E k \in Kinds, t \in Tasks : Begin(k, t) \/ Score(k, t)

\* A request starts tasks.
Creates == Start \/ \E r \in Replays : Replay(r) \/ ReplayResumes(r)

\* A task ends.
Leaves(k, t) == End(k, t) \/ Fails(k, t) \/ FailsToStart(k, t)

\* Neither tasks nor handles change.
Rests ==
    Observe \/ (\E on \in BOOLEAN : Pause(on)) \/ Delete \/ DeleteResumes \/ UNCHANGED vars

LEMMA NextSplit ==
    [Next]_vars =>
        Moves \/ Creates \/ Rests \/ Upload \/ \E k \in Roles, t \in Tasks : Leaves(k, t)
  BY DEF Next, Moves, Creates, Rests, Leaves

\* The task of a role that goes on is live before and after, and publishes or not.
LEMMA Moved ==
    ASSUME TypeOK, Moves
    PROVE  \E k \in Roles, t \in Tasks :
             /\ \E s \in States \ {"unused", "done"} : state' = [state EXCEPT ![k][t] = s]
             /\ \E n \in Nat : edge' = [edge EXCEPT ![k][t] = n]
             /\ state[k][t] \notin {"unused", "done"}
             /\ UNCHANGED <<exists, handle, cancelled, waiting, deleting, cycle, requests, causes>>
             /\ position' \in 0..Length
             /\ running' = running \/ running' = FALSE
             /\ UNCHANGED <<enabled, paused, replayed>>
<1>1. /\ position \in 0..Length /\ state \in [Roles -> [Tasks -> States]]
      /\ edge \in [Roles -> [Tasks -> Nat]]
  BY DEF TypeOK, TasksOK, CountsOK
<1>0. \A k \in Roles, t \in Tasks :
         /\ edge[k][t] \in Nat /\ edge = [edge EXCEPT ![k][t] = edge[k][t]]
         /\ state = [state EXCEPT ![k][t] = state[k][t]] /\ state[k][t] \in States
  BY <1>1
<1>2. ASSUME NEW t \in Tasks, Tick(t) \/ Waits(t) \/ Emit(t) \/ Sticks(t) \/ RunEnds(t)
      PROVE  /\ \E s \in States \ {"unused", "done"} : state' = [state EXCEPT !["play"][t] = s]
             /\ \E n \in Nat : edge' = [edge EXCEPT !["play"][t] = n]
             /\ state["play"][t] \notin {"unused", "done"}
             /\ UNCHANGED <<exists, handle, cancelled, waiting, deleting, cycle, requests, causes>>
             /\ position' \in 0..Length
             /\ running' = running \/ running' = FALSE
             /\ UNCHANGED <<enabled, paused, replayed>>
  <2>1. /\ state["play"][t] \notin {"unused", "done"}
        /\ \E s \in {"put", "loop", "eos", "stuck"} : state' = [state EXCEPT !["play"][t] = s]
        /\ UNCHANGED <<exists, handle, cancelled, waiting, deleting, cycle, requests, causes>>
        /\ UNCHANGED <<enabled, paused, replayed>>
        /\ running' = running \/ running' = FALSE
    BY <1>2 DEF Tick, Waits, Emit, Sticks, RunEnds, Plays, session, memory, history
  <2>2. From(t) \in Nat
    BY <1>0, <1>1 DEF From
  <2>3. position' \in 0..Length
    BY <1>1, <1>2, <2>2 DEF Tick, Waits, Emit, Sticks, RunEnds, session
  <2>4. \E n \in Nat : edge' = [edge EXCEPT !["play"][t] = n]
    <3>1. edge' \in {edge, [edge EXCEPT !["play"][t] = From(t)],
                     [edge EXCEPT !["play"][t] = From(t) + 1]}
      BY <1>2 DEF Tick, Waits, Emit, Sticks, RunEnds
    <3> QED
      BY <1>0, <2>2, <3>1
  <2> QED
    BY <2>1, <2>3, <2>4 DEF States
<1>3. ASSUME NEW k \in Kinds, NEW t \in Tasks, Begin(k, t) \/ Score(k, t)
      PROVE  /\ \E s \in States \ {"unused", "done"} : state' = [state EXCEPT ![k][t] = s]
             /\ \E n \in Nat : edge' = [edge EXCEPT ![k][t] = n]
             /\ state[k][t] \notin {"unused", "done"}
             /\ UNCHANGED <<exists, handle, cancelled, waiting, deleting, cycle, requests, causes>>
             /\ position' \in 0..Length
             /\ running' = running \/ running' = FALSE
             /\ UNCHANGED <<enabled, paused, replayed>>
  <2>1. /\ state[k][t] \in {"ready", "loop"}
        /\ state' = state \/ state' = [state EXCEPT ![k][t] = "loop"]
        /\ UNCHANGED <<exists, handle, cancelled, waiting, deleting, cycle, requests, causes>>
        /\ UNCHANGED <<position, running, enabled, paused, replayed>>
    BY <1>3 DEF Begin, Score, Steps, session, memory, history
  <2>2. FirstEdge(k) \in Nat /\ NextEdge(k, t) \in Nat
    <3>1. edge[k][t] \in Nat /\ position \in Nat
      BY <1>0, <1>1
    <3> QED
      BY <3>1 DEF FirstEdge, NextEdge
  <2>3. \E n \in Nat : edge' = [edge EXCEPT ![k][t] = n]
    BY <1>3, <2>2 DEF Begin, Score
  <2>4. \E s \in States \ {"unused", "done"} : state' = [state EXCEPT ![k][t] = s]
    <3>1. CASE state' = state
      <4>1. state' = [state EXCEPT ![k][t] = state[k][t]]
        BY <1>0, <3>1
      <4> QED
        BY <2>1, <4>1 DEF States
    <3>2. CASE state' = [state EXCEPT ![k][t] = "loop"]
      BY <3>2 DEF States
    <3> QED
      BY <2>1, <3>1, <3>2
  <2>5. position' \in 0..Length
    BY <1>1, <2>1
  <2> QED
    BY <2>1, <2>3, <2>4, <2>5
<1>4. CASE \E t \in Tasks : Tick(t) \/ Waits(t) \/ Emit(t) \/ Sticks(t) \/ RunEnds(t)
  BY <1>2, <1>4, Zenon
<1>5. CASE \E k \in Kinds, t \in Tasks : Begin(k, t) \/ Score(k, t)
  <2> PICK k \in Kinds, t \in Tasks : Begin(k, t) \/ Score(k, t)
    BY <1>5
  <2>1. k \in Roles
    OBVIOUS
  <2> HIDE DEF Roles, Kinds, Tasks
  <2> QED
    BY <1>3, <2>1, Zenon
<1> QED
  BY <1>4, <1>5 DEF Moves

\* New tasks of the roles in S.
LEMMA Created ==
    ASSUME TypeOK, NEW S \in SUBSET Roles, Create(S)
    PROVE  /\ handle' \in [Roles -> Tasks \cup {None}]
           /\ state' \in [Roles -> [Tasks -> States]]
           /\ \A k \in S : \E t \in Tasks :
                 /\ handle'[k] = t /\ Live(k)' = Live(k) \cup {t}
                 /\ state[k][t] = "unused" /\ state'[k] = [state[k] EXCEPT ![t] = "ready"]
           /\ \A k \in Roles \ S :
                 handle'[k] = handle[k] /\ state'[k] = state[k] /\ Live(k)' = Live(k)
<1> PICK u \in [S -> Tasks] :
       /\ \A k \in S : Unused(k, u[k])
       /\ state' = [k \in Roles |->
                      IF k \in S THEN [state[k] EXCEPT ![u[k]] = "ready"] ELSE state[k]]
       /\ handle' = [k \in Roles |-> IF k \in S THEN u[k] ELSE handle[k]]
  BY DEF Create
<1>1. /\ state \in [Roles -> [Tasks -> States]] /\ handle \in [Roles -> Tasks \cup {None}]
      /\ "ready" \in States
  BY DEF TypeOK, TasksOK, States
<1>2. ASSUME NEW k \in S
      PROVE  /\ u[k] \in Tasks /\ handle'[k] = u[k] /\ state[k][u[k]] = "unused"
             /\ state'[k] = [state[k] EXCEPT ![u[k]] = "ready"]
             /\ state'[k] \in [Tasks -> States]
             /\ Live(k)' = Live(k) \cup {u[k]}
  <2>1. /\ u[k] \in Tasks /\ handle'[k] = u[k] /\ state[k][u[k]] = "unused"
        /\ state'[k] = [state[k] EXCEPT ![u[k]] = "ready"]
    BY DEF Unused
  <2>2. state[k] \in [Tasks -> States]
    BY <1>1
  <2>3. Live(k)' = Live(k) \cup {u[k]}
    BY <2>1, <2>2 DEF Live
  <2> QED
    BY <1>1, <2>1, <2>2, <2>3
<1>3. ASSUME NEW k \in Roles \ S
      PROVE  handle'[k] = handle[k] /\ state'[k] = state[k] /\ Live(k)' = Live(k)
  BY DEF Live
<1>4. handle' \in [Roles -> Tasks \cup {None}]
  BY <1>1
<1>5. \A k \in Roles : state'[k] \in [Tasks -> States]
  BY <1>1, <1>2, <1>3
<1>6. state' \in [Roles -> [Tasks -> States]]
  BY <1>5
<1> QED
  BY <1>2, <1>3, <1>4, <1>6

\* A task that ends.
LEMMA Ended ==
    ASSUME TypeOK, NEW k \in Roles, NEW t \in Tasks, Leaves(k, t)
    PROVE  /\ \A l \in Roles : Live(l)' = IF l = k THEN Live(l) \ {t} ELSE Live(l)
           /\ \A l \in Roles \ {k} :
                 handle'[l] = handle[l] /\ state'[l] = state[l] /\ edge'[l] = edge[l]
           /\ state'[k] = [state[k] EXCEPT ![t] = "done"] /\ edge'[k] = [edge[k] EXCEPT ![t] = 0]
           /\ Stops(k, t)
           /\ handle' = handle \/ handle' = [handle EXCEPT ![k] = None]
           /\ enabled' \in [Kinds -> BOOLEAN]
           /\ running' = running \/ running' = FALSE
           /\ t \in Live(k) /\ causes' \in {causes, causes \cup {"failed"}}
           /\ UNCHANGED <<exists, paused, position, waiting, deleting, bus, cycle, requests,
                          scored, replayed>>
<1>1. /\ Stops(k, t)
      /\ handle' = handle \/ handle' = [handle EXCEPT ![k] = None]
      /\ causes' \in {causes, causes \cup {"failed"}}
      /\ UNCHANGED <<exists, paused, position, waiting, deleting, bus, cycle, requests,
                     scored, replayed>>
  BY DEF Leaves, End, Fails, FailsToStart, Clears, session, memory, history
<1>2. /\ state \in [Roles -> [Tasks -> States]] /\ edge \in [Roles -> [Tasks -> Nat]]
      /\ handle \in [Roles -> Tasks \cup {None}]
      /\ enabled \in [Kinds -> BOOLEAN] /\ running \in BOOLEAN
  BY DEF TypeOK, FlagsOK, TasksOK
<1>3. t \in Live(k)
  BY DEF Leaves, End, Fails, FailsToStart, Steps, Live, TypeOK, TasksOK
<1>4. enabled' \in [Kinds -> BOOLEAN]
  <2>1. UNCHANGED enabled \/ (k \in Kinds /\ enabled' = [enabled EXCEPT ![k] = FALSE])
    BY DEF Leaves, End, Fails, FailsToStart, Clears
  <2> QED
    BY <1>2, <2>1
<1>5. running' = running \/ running' = FALSE
  BY <1>2 DEF Leaves, End, Fails, FailsToStart, session
<1>6. /\ state'[k] = [state[k] EXCEPT ![t] = "done"] /\ edge'[k] = [edge[k] EXCEPT ![t] = 0]
      /\ \A l \in Roles \ {k} :
            handle'[l] = handle[l] /\ state'[l] = state[l] /\ edge'[l] = edge[l]
  BY <1>1, <1>2 DEF Stops
<1>7. ASSUME NEW l \in Roles PROVE Live(l)' = IF l = k THEN Live(l) \ {t} ELSE Live(l)
  <2>1. CASE l = k
    <3>1. state[k] \in [Tasks -> States]
      BY <1>2
    <3> QED
      BY <1>6, <2>1, <3>1 DEF Live
  <2>2. CASE l # k
    BY <1>6, <2>2 DEF Live
  <2> QED
    BY <2>1, <2>2
<1> QED
  BY <1>1, <1>3, <1>4, <1>5, <1>6, <1>7

\* Steps that neither start nor end a task keep handles, waits and what is live.
LEMMA SameLive ==
    ASSUME TypeOK, Moves \/ Rests
    PROVE  UNCHANGED <<handle, waiting>> /\ \A k \in Roles : Live(k)' = Live(k)
<1>1. CASE Rests
  <2>1. UNCHANGED <<handle, waiting, state>>
    BY <1>1 DEF Rests, Observe, Pause, DeleteResumes, Delete, tasks, vars
  <2> QED
    BY <2>1 DEF Live
<1>2. CASE Moves
  <2> PICK k \in Roles, t \in Tasks :
         /\ \E s \in States \ {"unused", "done"} : state' = [state EXCEPT ![k][t] = s]
         /\ state[k][t] \notin {"unused", "done"}
         /\ UNCHANGED <<handle, waiting>>
    BY <1>2, Moved
  <2> PICK s \in States \ {"unused", "done"} : state' = [state EXCEPT ![k][t] = s]
    OBVIOUS
  <2>1. state \in [Roles -> [Tasks -> States]]
    BY DEF TypeOK, TasksOK
  <2>2. ASSUME NEW l \in Roles PROVE Live(l)' = Live(l)
    BY <2>1 DEF Live
  <2> QED
    BY <2>2
<1> QED
  BY <1>1, <1>2

\* After an upload that forgot no task.
LEMMA Uploaded ==
    ASSUME Upload, Spared({"uploaded"})'
    PROVE  \A k \in Kinds : Live(k) = {} /\ Live(k)' = {}
<1>1. Live("fft") \cup Live("inf") = {}
  BY DEF Upload, Spared
<1>2. UNCHANGED state
  BY DEF Upload
<1> QED
  BY <1>1, <1>2 DEF Live

----------------------------------------------------------------------------
(* Types                                                                   *)

LEMMA TypeInit == Init => TypeOK
<1> SUFFICES ASSUME Init PROVE TypeOK
  OBVIOUS
<1>1. FlagsOK
  BY DEF Init, FlagsOK
<1>2. TasksOK
  BY DEF Init, TasksOK, States
<1>3. CountsOK
  BY DEF Init, CountsOK
<1> QED
  BY <1>1, <1>2, <1>3 DEF TypeOK

LEMMA TypeFlags == TypeOK /\ [Next]_vars => FlagsOK'
<1> SUFFICES ASSUME TypeOK, [Next]_vars PROVE FlagsOK'
  OBVIOUS
<1> USE DEF TypeOK, FlagsOK
<1>1. CASE Moves
  <2>1. /\ UNCHANGED <<exists, deleting, cycle>> /\ (running' = running \/ running' = FALSE)
        /\ UNCHANGED <<enabled, paused, replayed>>
    BY <1>1, Moved
  <2> QED
    BY <2>1
<1>2. ASSUME NEW k \in Roles, NEW t \in Tasks, Leaves(k, t) PROVE FlagsOK'
  <2>1. /\ UNCHANGED <<exists, paused, deleting, cycle, replayed>> /\ enabled' \in [Kinds -> BOOLEAN]
        /\ running' = running \/ running' = FALSE
    BY <1>2, Ended
  <2> QED
    BY <2>1
<1>3. CASE Creates
  <2>1. /\ UNCHANGED <<exists, paused, deleting, cycle>>
        /\ running' \in {running, TRUE} /\ replayed' \in {replayed, TRUE, FALSE}
    BY <1>3 DEF Creates, Start, Replay, ReplayResumes, NewRun, session, memory
  <2>2. enabled' \in [Kinds -> BOOLEAN]
    BY <1>3 DEF Creates, Start, Replay, ReplayResumes, Idle
  <2> QED
    BY <2>1, <2>2
<1>4. CASE Rests \/ Upload
  BY <1>4 DEF Rests, Observe, Pause, Delete, DeleteResumes, Upload, vars, session, tasks,
              memory, history
<1> QED
  BY <1>1, <1>2, <1>3, <1>4, NextSplit

LEMMA CancelOK ==
    ASSUME TypeOK, NEW k \in Roles
    PROVE  Cancel(k) \in SUBSET Tasks /\ cancelled[k] \subseteq Cancel(k) /\ Cancel(k) \subseteq Live(k)
  BY DEF Cancel, Live, TypeOK, TasksOK

LEMMA TypeTasks == TypeOK /\ [Next]_vars => TasksOK'
<1> SUFFICES ASSUME TypeOK, [Next]_vars PROVE TasksOK'
  OBVIOUS
<1>0. /\ handle \in [Roles -> Tasks \cup {None}] /\ state \in [Roles -> [Tasks -> States]]
      /\ edge \in [Roles -> [Tasks -> Nat]] /\ waiting \in [Replays -> Tasks \cup {None}]
      /\ cancelled \in [Roles -> SUBSET Tasks] /\ \A k \in Roles : cancelled[k] \subseteq Live(k)
  BY DEF TypeOK, TasksOK
<1>1. CASE Moves
  <2> PICK k \in Roles, t \in Tasks :
         /\ \E s \in States \ {"unused", "done"} : state' = [state EXCEPT ![k][t] = s]
         /\ \E n \in Nat : edge' = [edge EXCEPT ![k][t] = n]
         /\ UNCHANGED <<handle, cancelled, waiting>>
    BY <1>1, Moved
  <2>1. \A l \in Roles : Live(l)' = Live(l)
    BY <1>1, SameLive
  <2>2. edge' \in [Roles -> [Tasks -> Nat]]
    <3> PICK n \in Nat : edge' = [edge EXCEPT ![k][t] = n]
      OBVIOUS
    <3>1. [edge[k] EXCEPT ![t] = n] \in [Tasks -> Nat]
      BY <1>0
    <3> QED
      BY <1>0, <3>1
  <2>3. state' \in [Roles -> [Tasks -> States]]
    <3> PICK s \in States : state' = [state EXCEPT ![k][t] = s]
      OBVIOUS
    <3>1. [state[k] EXCEPT ![t] = s] \in [Tasks -> States]
      BY <1>0
    <3> QED
      BY <1>0, <3>1
  <2> QED
    BY <1>0, <2>1, <2>2, <2>3 DEF TasksOK
<1>2. ASSUME NEW k \in Roles, NEW t \in Tasks, Leaves(k, t) PROVE TasksOK'
  <2>1. /\ state' = [state EXCEPT ![k][t] = "done"] /\ edge' = [edge EXCEPT ![k][t] = 0]
        /\ cancelled' = [cancelled EXCEPT ![k] = @ \ {t}]
        /\ handle' = handle \/ handle' = [handle EXCEPT ![k] = None]
        /\ UNCHANGED waiting
        /\ \A l \in Roles : Live(l)' = IF l = k THEN Live(l) \ {t} ELSE Live(l)
    BY <1>2, Ended DEF Stops
  <2>2. /\ state' \in [Roles -> [Tasks -> States]] /\ edge' \in [Roles -> [Tasks -> Nat]]
        /\ handle' \in [Roles -> Tasks \cup {None}]
    BY <1>0, <2>1 DEF States
  <2>3. cancelled' \in [Roles -> SUBSET Tasks] /\ \A l \in Roles : cancelled'[l] \subseteq Live(l)'
    BY <1>0, <2>1
  <2> QED
    BY <1>0, <2>1, <2>2, <2>3 DEF TasksOK
<1>3. ASSUME NEW S \in SUBSET Roles, Create(S), UNCHANGED edge,
             cancelled' \in [Roles -> SUBSET Tasks],
             \A k \in Roles : cancelled'[k] \subseteq Live(k),
             waiting' \in [Replays -> Tasks \cup {None}]
      PROVE  TasksOK'
  <2>1. /\ handle' \in [Roles -> Tasks \cup {None}] /\ state' \in [Roles -> [Tasks -> States]]
        /\ \A k \in S : \E t \in Tasks : Live(k)' = Live(k) \cup {t}
        /\ \A k \in Roles \ S : Live(k)' = Live(k)
    <3> HIDE DEF Roles, Kinds, Tasks
    <3> QED
      BY <1>3, Created
  <2>2. \A k \in Roles : cancelled'[k] \subseteq Live(k)'
    BY <1>3, <2>1
  <2> QED
    BY <1>0, <1>3, <2>1, <2>2 DEF TasksOK
<1>4. CASE Start
  <2>1. Create({"play"} \cup {k \in Kinds : Idle(k)}) /\ UNCHANGED <<edge, cancelled, waiting>>
    BY <1>4 DEF Start
  <2> QED
    BY <1>0, <1>3, <2>1
<1>5. ASSUME NEW r \in Replays, Replay(r) PROVE TasksOK'
  <2>1. UNCHANGED edge
    BY <1>5 DEF Replay
  <2>2. /\ Cancel("play") \in SUBSET Tasks /\ Cancel("play") \subseteq Live("play")
        /\ Cancel("fft") \in SUBSET Tasks /\ Cancel("fft") \subseteq Live("fft")
    BY CancelOK
  <2>3. CASE /\ Create({"play", "fft"}) /\ UNCHANGED waiting
             /\ cancelled' = [cancelled EXCEPT !["play"] = Cancel("play")]
    BY <1>0, <1>3, <2>1, <2>2, <2>3
  <2>4. CASE /\ Create({"play"}) /\ waiting' = [waiting EXCEPT ![r] = handle["fft"]]
             /\ cancelled' = [cancelled EXCEPT !["play"] = Cancel("play"), !["fft"] = Cancel("fft")]
    BY <1>0, <1>3, <2>1, <2>2, <2>4
  <2> QED
    BY <1>5, <2>3, <2>4 DEF Replay
<1>6. ASSUME NEW r \in Replays, ReplayResumes(r) PROVE TasksOK'
  <2>1. /\ Create({"fft"}) /\ UNCHANGED <<edge, cancelled>> /\ waiting' = [waiting EXCEPT ![r] = None]
    BY <1>6 DEF ReplayResumes
  <2> QED
    BY <1>0, <1>3, <2>1
<1>7. CASE Upload
  <2>1. /\ handle' = [k \in Roles |-> IF k = "play" THEN handle[k] ELSE None]
        /\ UNCHANGED <<state, edge, cancelled, waiting>>
    BY <1>7 DEF Upload
  <2> QED
    BY <1>0, <2>1 DEF TasksOK, Live
<1>8. CASE Delete
  <2>1. /\ UNCHANGED <<handle, state, edge, waiting>>
        /\ cancelled' = [k \in Roles |-> Cancel(k)]
    BY <1>8 DEF Delete
  <2>2. cancelled' \in [Roles -> SUBSET Tasks] /\ \A k \in Roles : cancelled'[k] \subseteq Live(k)
    BY <2>1, CancelOK
  <2> QED
    BY <1>0, <2>1, <2>2 DEF TasksOK, Live
<1>9. CASE Rests /\ ~Delete
  <2>1. UNCHANGED <<handle, state, edge, cancelled, waiting>>
    BY <1>9 DEF Rests, Observe, Pause, DeleteResumes, tasks, vars
  <2> QED
    BY <1>0, <2>1 DEF TasksOK, Live
<1> QED
  BY <1>1, <1>2, <1>4, <1>5, <1>6, <1>7, <1>8, <1>9, NextSplit DEF Creates

LEMMA TypeCounts == TypeOK /\ [Next]_vars => CountsOK'
<1> SUFFICES ASSUME TypeOK, [Next]_vars PROVE CountsOK'
  OBVIOUS
<1>0. CountsOK
  BY DEF TypeOK
<1> USE DEF CountsOK
<1>1. CASE Moves
  <2>1. UNCHANGED <<requests, causes>> /\ position' \in 0..Length
    BY <1>1, Moved
  <2>2. bus' \in 0..BusSize
    <3>1. UNCHANGED bus \/ Publish
      BY <1>1 DEF Moves, Tick, Waits, Emit, Sticks, RunEnds, Begin, Score, Emits, memory
    <3> QED
      BY <1>0, <3>1 DEF Publish
  <2>3. scored' \in [1..Length -> Nat]
    <3>1. UNCHANGED scored \/ \E n : scored' = [scored EXCEPT ![n] = @ + 1]
      BY <1>1 DEF Moves, Tick, Waits, Emit, Sticks, RunEnds, Begin, Score, history
    <3> QED
      BY <1>0, <3>1
  <2> QED
    BY <1>0, <2>1, <2>2, <2>3
<1>2. ASSUME NEW k \in Roles, NEW t \in Tasks, Leaves(k, t) PROVE CountsOK'
  <2>1. /\ UNCHANGED <<position, bus, requests, scored>>
        /\ causes' \in {causes, causes \cup {"failed"}}
    BY <1>2, Ended
  <2> QED
    BY <1>0, <2>1
<1>3. CASE Creates \/ Upload
  <2>1. UNCHANGED bus /\ (UNCHANGED position \/ position' = 0)
    BY <1>3 DEF Creates, Start, Replay, ReplayResumes, Upload, session, memory
  <2>2. requests' \in 0..MaxRequests
    <3>1. UNCHANGED requests \/ Counted
      BY <1>3 DEF Creates, Start, Replay, ReplayResumes, Upload, NewRun
    <3> QED
      BY <1>0, <3>1 DEF Counted
  <2>3. UNCHANGED scored \/ scored' = [w \in 1..Length |-> 0]
    BY <1>3 DEF Creates, Start, Replay, ReplayResumes, Upload, NewRun
  <2>4. causes' \subseteq causes \cup {"uploaded", "orphaned", "revived", "overlapped"}
    BY <1>3 DEF Creates, Start, Replay, ReplayResumes, Upload, Revived, Overlap
  <2>5. scored' \in [1..Length -> Nat]
    BY <1>0, <2>3
  <2> QED
    BY <1>0, <2>1, <2>2, <2>4, <2>5
<1>4. CASE Rests
  <2>1. UNCHANGED <<position, scored>> /\ causes' \subseteq causes \cup {"late"}
    BY <1>4 DEF Rests, Observe, Pause, Delete, DeleteResumes, Late, vars, session, history
  <2>2. UNCHANGED bus \/ (bus > 0 /\ bus' = bus - 1)
    BY <1>4 DEF Rests, Observe, Pause, Delete, DeleteResumes, vars, memory
  <2>3. UNCHANGED requests \/ Counted
    BY <1>4 DEF Rests, Observe, Pause, Delete, DeleteResumes, vars, history
  <2> QED
    BY <1>0, <2>1, <2>2, <2>3 DEF Counted
<1> QED
  BY <1>1, <1>2, <1>3, <1>4, NextSplit

\* The dictionary, the tasks and the bus are well formed.
THEOREM TypeCorrect == Spec => []TypeOK
<1>1. TypeOK /\ [Next]_vars => TypeOK'
  BY TypeFlags, TypeTasks, TypeCounts DEF TypeOK
<1> QED
  BY <1>1, TypeInit, PTL DEF Spec

----------------------------------------------------------------------------
(* One task of each kind                                                   *)

LEMMA CausesKept == TypeOK /\ [Next]_vars => causes \subseteq causes'
<1> SUFFICES ASSUME TypeOK, [Next]_vars PROVE causes \subseteq causes'
  OBVIOUS
<1>1. CASE Moves
  BY <1>1, Moved
<1>2. ASSUME NEW k \in Roles, NEW t \in Tasks, Leaves(k, t) PROVE causes \subseteq causes'
  BY <1>2, Ended
<1>3. CASE Creates \/ Upload \/ Rests
  BY <1>3 DEF Creates, Start, Replay, ReplayResumes, Upload, Rests, Observe, Pause, Delete,
              DeleteResumes, history, vars
<1> QED
  BY <1>1, <1>2, <1>3, NextSplit

LEMMA SparedBefore ==
    ASSUME TypeOK, [Next]_vars, NEW bad, Spared(bad)'
    PROVE  Spared(bad)
  BY CausesKept DEF Spared

LEMMA InfStep == TypeOK /\ HandledInf /\ [Next]_vars => HandledInf'
<1> SUFFICES ASSUME TypeOK, HandledInf, [Next]_vars, Spared({"uploaded"})'
             PROVE  Live("inf")' \subseteq {handle'["inf"]}
  BY DEF HandledInf
<1>1. Live("inf") \subseteq {handle["inf"]}
  BY SparedBefore DEF HandledInf
<1>2. ASSUME NEW S \in SUBSET Roles, Create(S), "inf" \in S => Idle("inf")
      PROVE  Live("inf")' \subseteq {handle'["inf"]}
  <2>1. Idle("inf") => Live("inf") = {}
    BY <1>1 DEF Idle
  <2>2. \/ "inf" \in S /\ \E t \in Tasks : handle'["inf"] = t /\ Live("inf")' = Live("inf") \cup {t}
        \/ "inf" \notin S /\ handle'["inf"] = handle["inf"] /\ Live("inf")' = Live("inf")
    <3>1. "inf" \in Roles
      OBVIOUS
    <3> HIDE DEF Roles, Kinds, Tasks
    <3> QED
      BY <1>2, <3>1, Created
  <2> QED
    BY <1>1, <1>2, <2>1, <2>2
<1>3. CASE Creates
  <2>1. \E S \in SUBSET Roles : Create(S) /\ ("inf" \in S => Idle("inf"))
    <3>1. CASE Start
      <4>1. Create({"play"} \cup {k \in Kinds : Idle(k)})
        BY <3>1 DEF Start
      <4> QED
        BY <4>1
    <3>2. CASE \E r \in Replays : Replay(r) \/ ReplayResumes(r)
      <4>1. Create({"play", "fft"}) \/ Create({"play"}) \/ Create({"fft"})
        BY <3>2 DEF Replay, ReplayResumes
      <4> QED
        BY <4>1
    <3> QED
      BY <1>3, <3>1, <3>2 DEF Creates
  <2> QED
    BY <1>2, <2>1
<1>4. CASE Upload
  BY <1>4, Uploaded
<1>5. ASSUME NEW k \in Roles, NEW t \in Tasks, Leaves(k, t) PROVE Live("inf")' \subseteq {handle'["inf"]}
  <2>1. CASE k = "inf"
    <3>1. t \in Live(k) /\ Live(k)' = Live(k) \ {t}
      BY <1>5, Ended
    <3> QED
      BY <1>1, <2>1, <3>1
  <2>2. CASE k # "inf"
    BY <1>1, <1>5, <2>2, Ended
  <2> QED
    BY <2>1, <2>2
<1>6. CASE Moves \/ Rests
  <2>1. handle' = handle /\ Live("inf")' = Live("inf")
    BY <1>6, SameLive
  <2> QED
    BY <1>1, <2>1
<1> QED
  BY <1>3, <1>4, <1>5, <1>6, NextSplit

LEMMA FftStep == TypeOK /\ HandledFft /\ [Next]_vars => HandledFft'
<1> DEFINE Goal == /\ Live("fft") \subseteq {handle["fft"]}
                   /\ \A r \in Replays : waiting[r] # None => Live("fft") \subseteq {waiting[r]}
                   /\ \A r, s \in Replays : waiting[r] # None /\ waiting[s] # None => r = s
<1> SUFFICES ASSUME TypeOK, HandledFft, [Next]_vars, Spared({"uploaded", "overlapped"})'
             PROVE  Goal'
  BY DEF HandledFft
<1>1. Goal
  BY SparedBefore DEF HandledFft
<1>2. ASSUME NEW S \in SUBSET Roles, Create(S), "fft" \in S => Live("fft") = {}
      PROVE  Live("fft")' \subseteq {handle'["fft"]}
  <2>1. \/ "fft" \in S /\ \E t \in Tasks : handle'["fft"] = t /\ Live("fft")' = Live("fft") \cup {t}
        \/ "fft" \notin S /\ handle'["fft"] = handle["fft"] /\ Live("fft")' = Live("fft")
    <3>1. "fft" \in Roles
      OBVIOUS
    <3> HIDE DEF Roles, Kinds, Tasks
    <3> QED
      BY <1>2, <3>1, Created
  <2> QED
    BY <1>1, <1>2, <2>1
<1>0. Idle("fft") => Live("fft") = {}
  BY <1>1 DEF Idle
<1>3. CASE Start
  <2>1. waiting = [r \in Replays |-> None] /\ waiting' = waiting
    BY <1>3 DEF Start, Spared, Overlap
  <2>2. Create({"play"} \cup {k \in Kinds : Idle(k)})
    BY <1>3 DEF Start
  <2>3. Live("fft")' \subseteq {handle'["fft"]}
    BY <1>0, <1>2, <2>2
  <2> QED
    BY <2>1, <2>3
<1>4. ASSUME NEW r \in Replays, Replay(r) PROVE Goal'
  <2>1. waiting = [q \in Replays |-> None]
    BY <1>4 DEF Replay, Spared, Overlap
  <2>2. CASE Idle("fft") /\ Create({"play", "fft"}) /\ UNCHANGED waiting
    <3>1. Live("fft")' \subseteq {handle'["fft"]}
      BY <1>0, <1>2, <2>2
    <3> QED
      BY <2>1, <2>2, <3>1
  <2>3. CASE Create({"play"}) /\ waiting' = [waiting EXCEPT ![r] = handle["fft"]]
    <3>1. Live("fft")' = Live("fft") /\ handle'["fft"] = handle["fft"]
      BY <2>3, Created
    <3>2. \A q \in Replays : q # r => waiting'[q] = None
      BY <2>1, <2>3
    <3>3. waiting'[r] = handle["fft"]
      BY <2>1, <2>3
    <3> QED
      BY <1>1, <3>1, <3>2, <3>3
  <2> QED
    BY <1>4, <2>2, <2>3 DEF Replay
<1>5. ASSUME NEW r \in Replays, ReplayResumes(r) PROVE Goal'
  <2>1. /\ waiting[r] # None /\ state["fft"][waiting[r]] = "done" /\ Create({"fft"})
        /\ waiting' = [waiting EXCEPT ![r] = None]
    BY <1>5 DEF ReplayResumes
  <2>2. Live("fft") = {}
    BY <1>1, <2>1 DEF Live
  <2>3. Live("fft")' \subseteq {handle'["fft"]}
    BY <1>2, <2>1, <2>2
  <2>4. \A q \in Replays : waiting'[q] = None
    BY <1>1, <2>1 DEF TypeOK, TasksOK
  <2> QED
    BY <2>3, <2>4
<1>6. CASE Upload
  <2>1. Spared({"uploaded"})'
    BY DEF Spared
  <2>2. Live("fft")' = {} /\ waiting' = waiting
    BY <1>6, <2>1, Uploaded DEF Upload
  <2> QED
    BY <1>1, <2>2
<1>7. ASSUME NEW k \in Roles, NEW t \in Tasks, Leaves(k, t) PROVE Goal'
  <2>1. waiting' = waiting /\ Live("fft")' \subseteq Live("fft")
    BY <1>7, Ended
  <2>2. Live("fft")' \subseteq {handle'["fft"]}
    <3>1. CASE k = "fft"
      <4>1. t \in Live(k) /\ Live(k)' = Live(k) \ {t}
        BY <1>7, Ended
      <4> QED
        BY <1>1, <3>1, <4>1
    <3>2. CASE k # "fft"
      BY <1>1, <1>7, <3>2, Ended
    <3> QED
      BY <3>1, <3>2
  <2> QED
    BY <1>1, <2>1, <2>2
<1>8. CASE Moves \/ Rests
  <2>1. handle' = handle /\ waiting' = waiting /\ Live("fft")' = Live("fft")
    BY <1>8, SameLive
  <2> QED
    BY <1>1, <2>1
<1> QED
  BY <1>3, <1>4, <1>5, <1>6, <1>7, <1>8, NextSplit DEF Creates

----------------------------------------------------------------------------
(* Windows                                                                 *)

LEMMA AheadStep == TypeOK /\ HandledInf /\ Ahead /\ [Next]_vars => Ahead'
<1> DEFINE Goal == /\ \A w \in 1..Length : scored[w] <= 1
                   /\ \A t \in Tasks : AheadOf(state["inf"][t], edge["inf"][t])
<1> SUFFICES ASSUME TypeOK, HandledInf, Ahead, [Next]_vars, Spared({"uploaded"})'
             PROVE  Goal'
  BY DEF Ahead
<1>1. Goal /\ Live("inf") \subseteq {handle["inf"]}
  BY SparedBefore DEF Ahead, HandledInf
<1>0. /\ state \in [Roles -> [Tasks -> States]]
      /\ edge \in [Roles -> [Tasks -> Nat]] /\ scored \in [1..Length -> Nat]
      /\ position \in 0..Length
  BY DEF TypeOK, TasksOK, CountsOK
<1>2. ASSUME scored' = [w \in 1..Length |-> 0] PROVE Goal'
  BY <1>2 DEF AheadOf
<1>3. ASSUME UNCHANGED scored,
             \A t \in Tasks : \/ state'["inf"][t] \in {"unused", "done"}
                              \/ state'["inf"][t] = state["inf"][t] /\ edge'["inf"][t] = edge["inf"][t]
      PROVE  Goal'
  BY <1>1, <1>3 DEF AheadOf
<1>4. CASE Start \/ \E r \in Replays : Replay(r)
  BY <1>2, <1>4 DEF Start, Replay, NewRun
<1>5. ASSUME NEW r \in Replays, ReplayResumes(r) PROVE Goal'
  <2>1. UNCHANGED <<scored, edge>> /\ Create({"fft"})
    BY <1>5 DEF ReplayResumes
  <2>2. state'["inf"] = state["inf"]
    BY <2>1, Created
  <2> QED
    BY <1>3, <2>1, <2>2
<1>6. ASSUME NEW k \in Kinds, NEW t \in Tasks, Begin(k, t) PROVE Goal'
  <2>1. /\ UNCHANGED scored /\ state[k][t] = "ready"
        /\ state' = [state EXCEPT ![k][t] = "loop"]
        /\ edge' = [edge EXCEPT ![k][t] = FirstEdge(k)]
    BY <1>6 DEF Begin, history
  <2>2. CASE k = "fft"
    <3>1. state'["inf"] = state["inf"] /\ edge'["inf"] = edge["inf"]
      BY <1>0, <2>1, <2>2
    <3> QED
      BY <1>3, <2>1, <3>1
  <2>3. CASE k = "inf"
    <3>1. \A w \in 1..Length : scored'[w] = 0
      BY <1>1, <2>1, <2>3 DEF AheadOf
    <3> QED
      BY <3>1 DEF AheadOf
  <2> QED
    BY <2>2, <2>3
<1>7. ASSUME NEW k \in Kinds, NEW t \in Tasks, Score(k, t) PROVE Goal'
  <2>1. /\ edge' = [edge EXCEPT ![k][t] = NextEdge(k, t)] /\ UNCHANGED state
        /\ state[k][t] = "loop"
        /\ scored' = IF k = "inf" THEN [scored EXCEPT ![NextEdge(k, t)] = @ + 1] ELSE scored
        /\ position >= edge[k][t] + Hop
    BY <1>7 DEF Score, Steps, Due
  <2>2. CASE k = "fft"
    <3>1. edge'["inf"] = edge["inf"] /\ UNCHANGED scored
      BY <1>0, <2>1, <2>2
    <3> QED
      BY <1>3, <2>1, <3>1
  <2>3. CASE k = "inf"
    <3> DEFINE n == edge["inf"][t] + Hop
    <3>0. edge["inf"][t] \in Nat
      <4>1. edge["inf"] \in [Tasks -> Nat]
        BY <1>0
      <4> QED
        BY <4>1
    <3>1. n \in 1..Length /\ n > edge["inf"][t]
      BY <1>0, <2>1, <2>3, <3>0
    <3>2. /\ edge' = [edge EXCEPT !["inf"][t] = n] /\ scored' = [scored EXCEPT ![n] = @ + 1]
          /\ state["inf"][t] = "loop"
      BY <2>1, <2>3 DEF NextEdge
    <3>3. \A w \in 1..Length : w > edge["inf"][t] => scored[w] = 0
      BY <1>1, <3>2 DEF AheadOf
    <3> HIDE DEF n
    <3>4. \A w \in 1..Length : scored'[w] <= 1
      BY <1>0, <1>1, <3>1, <3>2, <3>3
    <3>5. ASSUME NEW u \in Tasks PROVE AheadOf(state["inf"][u], edge["inf"][u])'
      <4>1. CASE u = t
        <5>1. edge'["inf"][t] = n
          BY <1>0, <3>2
        <5>2. \A w \in 1..Length : w > n => scored'[w] = 0
          BY <1>0, <3>0, <3>1, <3>2, <3>3
        <5> QED
          BY <2>1, <3>2, <4>1, <5>1, <5>2 DEF AheadOf
      <4>2. CASE u # t
        <5>1. t \in Live("inf")
          BY <3>2 DEF Live
        <5>2. u \notin Live("inf")
          BY <1>1, <4>2, <5>1
        <5> QED
          BY <2>1, <5>2 DEF AheadOf, Live
      <4> QED
        BY <4>1, <4>2
    <3> QED
      BY <3>4, <3>5
  <2> QED
    BY <2>2, <2>3
<1>8. ASSUME NEW t \in Tasks, Tick(t) \/ Waits(t) \/ Emit(t) \/ Sticks(t) \/ RunEnds(t)
      PROVE  Goal'
  <2>1. /\ UNCHANGED scored /\ state'["inf"] = state["inf"]
        /\ edge'["inf"] = edge["inf"]
    BY <1>0, <1>8 DEF Tick, Waits, Emit, Sticks, RunEnds, history
  <2> QED
    BY <1>3, <2>1
<1>9. ASSUME NEW k \in Roles, NEW t \in Tasks, Leaves(k, t) PROVE Goal'
  <2>1. UNCHANGED scored
    BY <1>9, Ended
  <2>2. CASE k # "inf"
    <3>1. state'["inf"] = state["inf"] /\ edge'["inf"] = edge["inf"]
      BY <1>9, <2>2, Ended
    <3> QED
      BY <1>3, <2>1, <3>1
  <2>3. CASE k = "inf"
    <3>1. state'["inf"] = [state["inf"] EXCEPT ![t] = "done"]
          /\ edge'["inf"] = [edge["inf"] EXCEPT ![t] = 0]
      BY <1>9, <2>3, Ended
    <3> QED
      BY <1>0, <1>3, <2>1, <3>1
  <2> QED
    BY <2>2, <2>3
<1>10. CASE Rests \/ Upload
  <2>1. UNCHANGED <<state, edge, scored>>
    BY <1>10 DEF Rests, Observe, Pause, Upload, Delete, DeleteResumes, tasks, history, vars
  <2> QED
    BY <1>3, <2>1
<1> QED
  BY <1>4, <1>5, <1>6, <1>7, <1>8, <1>9, <1>10, NextSplit DEF Moves, Creates

----------------------------------------------------------------------------
(* After a deletion                                                        *)

LEMMA DeleteStep ==
    ASSUME TypeOK, Delete, Spared(Exempt)'
    PROVE  Over'
<1>1. ~OnTheirWay
  BY DEF Delete, Late, Spared, Exempt
<1>2. bus = 0
  BY <1>1 DEF OnTheirWay, TypeOK, CountsOK
<1>3. /\ running' = FALSE /\ cycle' = FALSE /\ bus' = bus /\ state' = state
      /\ \A k \in Roles : cancelled'[k] = cancelled[k] \cup ({handle[k]} \cap Live(k))
  BY DEF Delete, Cancel
<1>4. ASSUME NEW k \in Kinds PROVE Live(k)' \subseteq cancelled'[k]
  <2>1. Live(k) \ {handle[k]} = {}
    BY <1>1 DEF OnTheirWay, Loose
  <2> QED
    BY <1>3, <2>1 DEF Live
<1>5. ASSUME NEW t \in Tasks \ cancelled'["play"], state["play"][t] = "put" PROVE FALSE
  <2>1. t \in Live("play") /\ t \notin cancelled["play"]
    BY <1>3, <1>5 DEF Live
  <2>2. t # handle["play"]
    BY <1>3, <2>1
  <2> QED
    BY <1>1, <1>5, <2>1, <2>2 DEF OnTheirWay, Loose
<1> QED
  BY <1>2, <1>3, <1>4, <1>5 DEF Over

LEMMA SilentStep == TypeOK /\ Silent /\ [Next]_vars => Silent'
<1> SUFFICES ASSUME TypeOK, Silent, [Next]_vars, Deleted', Spared(Exempt)'
             PROVE  Over'
  BY DEF Silent
<1>1. Spared(Exempt) /\ (Deleted => Over)
  BY SparedBefore DEF Silent
<1>2. CASE Delete
  BY <1>2, DeleteStep
<1>3. CASE ~Delete
  <2>1. Deleted
    <3>1. CASE Moves
      <4>1. UNCHANGED <<exists, deleting>>
        BY <3>1, Moved
      <4> QED
        BY <4>1 DEF Deleted
    <3>2. ASSUME NEW k \in Roles, NEW t \in Tasks, Leaves(k, t) PROVE Deleted
      <4>1. UNCHANGED <<exists, deleting>>
        BY <3>2, Ended
      <4> QED
        BY <4>1 DEF Deleted
    <3>3. CASE Creates \/ Upload \/ Rests
      <4>1. UNCHANGED <<exists, deleting>> \/ deleting
        BY <1>3, <3>3 DEF Creates, Start, Replay, ReplayResumes, Upload, Rests, Observe, Pause,
                          DeleteResumes, vars, session
      <4> QED
        BY <4>1 DEF Deleted
    <3> QED
      BY <3>1, <3>2, <3>3, NextSplit
  <2>2. Over
    BY <1>1, <2>1
  <2>3. CASE Moves
    <3>1. \A k \in Kinds, t \in Tasks : ~Begin(k, t) /\ ~Score(k, t)
      BY <2>2 DEF Over, Begin, Score, Steps, Live
    <3>2. \A t \in Tasks : ~Tick(t) /\ ~Waits(t) /\ ~Emit(t) /\ ~Sticks(t)
      BY <2>2 DEF Over, Tick, Waits, Emit, Sticks
    <3> PICK t \in Tasks : RunEnds(t)
      BY <2>3, <3>1, <3>2 DEF Moves
    <3>3. /\ UNCHANGED <<bus, cycle, cancelled>> /\ running' = FALSE
          /\ state' = [state EXCEPT !["play"][t] = "eos"]
      BY DEF RunEnds, memory
    <3>4. state \in [Roles -> [Tasks -> States]]
      BY DEF TypeOK, TasksOK
    <3>5. ASSUME NEW k \in Kinds PROVE Live(k)' = Live(k)
      <4>1. state'[k] = state[k]
        BY <3>3, <3>4
      <4> QED
        BY <4>1 DEF Live
    <3>6. \A u \in Tasks : state'["play"][u] = state["play"][u] \/ state'["play"][u] = "eos"
      BY <3>3, <3>4
    <3> QED
      BY <2>2, <3>3, <3>5, <3>6 DEF Over
  <2>4. ~Creates /\ ~Upload
    <3>1. deleting => ~Start /\ \A r \in Replays : ~Replay(r)
      BY DEF Start, Replay, Revived, Spared, Exempt
    <3>2. ~Upload /\ \A r \in Replays : ~ReplayResumes(r)
      BY <2>1 DEF Upload, ReplayResumes, Spared, Exempt, Deleted
    <3>3. ~exists => ~Start /\ \A r \in Replays : ~Replay(r)
      BY DEF Start, Replay
    <3> QED
      BY <2>1, <3>1, <3>2, <3>3 DEF Deleted, Creates
  <2>5. ASSUME NEW k \in Roles, NEW t \in Tasks, Leaves(k, t) PROVE Over'
    <3>1. /\ UNCHANGED <<bus, cycle>> /\ (running' = running \/ running' = FALSE)
          /\ \A l \in Roles : Live(l)' = IF l = k THEN Live(l) \ {t} ELSE Live(l)
          /\ state' = [state EXCEPT ![k][t] = "done"]
          /\ cancelled' = [cancelled EXCEPT ![k] = @ \ {t}]
      BY <2>5, Ended DEF Stops
    <3>2. /\ state \in [Roles -> [Tasks -> States]]
          /\ cancelled \in [Roles -> SUBSET Tasks]
      BY DEF TypeOK, TasksOK
    <3>3. ASSUME NEW l \in Kinds PROVE Live(l)' \subseteq cancelled'[l]
      <4>1. cancelled'[l] = IF l = k THEN cancelled[l] \ {t} ELSE cancelled[l]
        BY <3>1, <3>2
      <4> QED
        BY <2>2, <3>1, <4>1 DEF Over
    <3>4. ASSUME NEW u \in Tasks \ cancelled'["play"] PROVE state'["play"][u] # "put"
      <4>1. CASE k = "play" /\ u = t
        BY <3>1, <3>2, <4>1
      <4>2. CASE ~(k = "play" /\ u = t)
        <5>1. state'["play"][u] = state["play"][u] /\ u \notin cancelled["play"]
          BY <3>1, <3>2, <4>2
        <5> QED
          BY <2>2, <5>1 DEF Over
      <4> QED
        BY <4>1, <4>2
    <3>5. ~running /\ bus = 0 /\ ~cycle
      BY <2>2 DEF Over
    <3>6. ~running' /\ bus' = 0 /\ ~cycle'
      BY <3>1, <3>5
    <3> QED
      BY <3>3, <3>4, <3>6 DEF Over
  <2>6. CASE Rests
    <3>1. ~Observe
      BY <2>2 DEF Over, Observe
    <3>2. UNCHANGED <<running, bus, cycle>> /\ UNCHANGED <<state, cancelled>>
      BY <1>3, <2>6, <3>1 DEF Rests, Pause, DeleteResumes, vars, session, tasks, memory
    <3> QED
      BY <2>2, <3>2 DEF Over, Live
  <2> QED
    BY <2>3, <2>4, <2>5, <2>6, NextSplit
<1> QED
  BY <1>2, <1>3

----------------------------------------------------------------------------
IInv == TypeOK /\ Handled /\ Ahead /\ Silent

\* What a start, a replay, an upload, a deletion or the end of a task leaves
\* behind is consistent: handles name what is live, no window is scored ahead
\* of its task, and nothing works for a deleted session.
THEOREM Invariance == Spec => []IInv
<1>1. Init => IInv
  <2> SUFFICES ASSUME Init PROVE IInv
    OBVIOUS
  <2>1. \A k \in Roles : Live(k) = {}
    BY DEF Init, Live
  <2>2. (\A r \in Replays : waiting[r] = None) /\ \A w \in 1..Length : scored[w] = 0
    BY DEF Init
  <2>3. \A t \in Tasks : state["inf"][t] = "unused"
    BY DEF Init
  <2>4. ~Deleted
    BY DEF Init, Deleted
  <2>5. Handled
    BY <2>1, <2>2 DEF Handled, HandledInf, HandledFft
  <2>6. Ahead
    BY <2>2, <2>3 DEF Ahead, AheadOf
  <2> QED
    BY <2>4, <2>5, <2>6, TypeInit DEF IInv, Silent
<1>2. IInv /\ [Next]_vars => IInv'
  <2>1. TypeOK /\ [Next]_vars => TypeOK'
    BY TypeFlags, TypeTasks, TypeCounts DEF TypeOK
  <2> QED
    BY <2>1, InfStep, FftStep, AheadStep, SilentStep DEF IInv, Handled
<1> QED
  BY <1>1, <1>2, PTL DEF Spec

\* One task of each kind works for a session and no window of a run is scored
\* twice, so that nothing is learned twice, unless an upload forgot a task or
\* requests overlapped (inference_streamer.py, POST /start and /replay).
THEOREM WorkedOnce == Spec => []ScoredOnce
<1>1. IInv => ScoredOnce
  <2> SUFFICES ASSUME IInv PROVE ScoredOnce
    OBVIOUS
  <2>1. Spared({"uploaded"}) => \A w \in 1..Length : scored[w] <= 1
    BY DEF IInv, Ahead
  <2>2. Spared({"uploaded"}) => \A t, u \in Live("inf") \ cancelled["inf"] : t = u
    BY DEF IInv, Handled, HandledInf
  <2>3. Spared({"uploaded", "overlapped"}) => \A t, u \in Live("fft") \ cancelled["fft"] : t = u
    BY DEF IInv, Handled, HandledFft
  <2> QED
    BY <2>1, <2>2, <2>3 DEF ScoredOnce, OneOfEach
<1> QED
  BY <1>1, Invariance, PTL

\* A deleted session leaves no part cycle open, unless payloads were still
\* under way, a playback without a handle among them, or a request brought it
\* back (the delete request, the playback, the bridge and the cycle tracker).
THEOREM CyclesClosed == Spec => []NoCycleLeft
<1>1. IInv => NoCycleLeft
  BY DEF IInv, Silent, NoCycleLeft, Deleted, Exempt, Over
<1> QED
  BY <1>1, Invariance, PTL
====
