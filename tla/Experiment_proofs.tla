---- MODULE Experiment_proofs ----
(***************************************************************************)
(* Proofs about the experiments that run inside the server: the runs and   *)
(* the screens that follow them (LiveExperiment), and the sandbox that     *)
(* keeps their feedback out of the learned priors (PriorSandbox); for      *)
(* every set of ids, screens, runs and verdicts and every bound.           *)
(*                                                                         *)
(* LiveExperiment: the shapes of the state do not depend on the schedule.  *)
(* On them rests that a listed run is the newest of its id, on that the    *)
(* table, and on the table what a screen that was told of a completion may *)
(* rely on.                                                                *)
(*                                                                         *)
(* PriorSandbox: the inductive invariant says where the path, the counts   *)
(* and the save in progress stand at each step of the one run that is      *)
(* active when no two overlap; each of its parts is claimed only for the   *)
(* schedules that spare the causes it names.                               *)
(***************************************************************************)
EXTENDS LiveExperiment, PriorSandbox, SequenceTheorems, TLAPS

----------------------------------------------------------------------------
(* LiveExperiment: the shape of the state                                  *)

\* A screen that runs, or has a socket, follows a run.
Followed == \A c \in Screens : screen[c] = "running" \/ link[c] # "none" => watch[c] \in Runs

\* No subscription holds more than its size.
Bounded == \A c \in Screens : Len(queue[c]) <= QueueSize

\* The run listed under an id has that id and is the newest with it.
Entered ==
    \A i \in Ids : table[i] # None =>
        id[table[i]] = i /\ \A s \in Runs : id[s] = i => s <= table[i]

\* A thread is there once the first second is over; one that is queued belongs
\* to a task that waits for it.
Threads ==
    \A r \in Runs :
        /\ thread[r] # "none" => task[r] \notin {"unused", "delay"}
        /\ thread[r] = "queued" => task[r] = "waiting" /\ r \notin cancelled

Shape == TypeOK /\ Followed /\ Bounded /\ Entered /\ Threads

\* The results under the id of a run are its own or a later run's.
Saved(r) == results[id[r]] \in Runs /\ results[id[r]] >= r

\* A thread at work belongs to the newest run of its id.
Newest ==
    causes = {} =>
        \A r, s \in Runs : thread[r] = "working" /\ id[s] = id[r] => s <= r

SavedResults == causes = {} => \A r \in Runs : thread[r] = "saved" => Saved(r)

\* A completion that waits for a screen has its results.
DoneTold ==
    causes = {} =>
        \A c \in Screens : \A n \in 1..Len(queue[c]) :
            link[c] # "none" /\ queue[c][n] = "done" => Saved(watch[c])

Results == Newest /\ SavedResults /\ DoneTold /\ ResultsShown

IInv == Shape /\ Listed /\ EndWaits /\ Results

----------------------------------------------------------------------------
(* The event bus                                                           *)

\* A publication keeps what is queued, adds only its own messages, and reaches
\* every listener with its first one unless the queue is full.
LEMMA PublishEffect ==
    ASSUME TypeOK, Bounded,
           NEW i, NEW messages \in Seq(Messages), messages # <<>>, Publish(i, messages)
    PROVE  /\ queue' \in [Screens -> Seq(Messages)]
           /\ \A c \in Screens : Len(queue'[c]) <= QueueSize
           /\ \A c \in Screens : \A n \in 1..Len(queue[c]) :
                n \in 1..Len(queue'[c]) /\ queue'[c][n] = queue[c][n]
           /\ \A c \in Screens : \A n \in 1..Len(queue'[c]) :
                \/ n \in 1..Len(queue[c])
                \/ c \in Listening(i) /\ \E k \in 1..Len(messages) : queue'[c][n] = messages[k]
           /\ \A c \in Listening(i) : Len(queue[c]) < QueueSize =>
                \E n \in 1..Len(queue'[c]) : queue'[c][n] = Head(messages)
           /\ missed' \subseteq Screens /\ missed \subseteq missed'
           /\ Final(Head(messages)) =>
                \A c \in Listening(i) : Len(queue[c]) >= QueueSize => c \in missed'
<1> USE SizeAssumption
<1>1. ASSUME NEW c \in Screens
      PROVE  /\ queue'[c] \in Seq(Messages)
             /\ Len(queue'[c]) <= QueueSize
             /\ \A n \in 1..Len(queue[c]) : n \in 1..Len(queue'[c]) /\ queue'[c][n] = queue[c][n]
             /\ \A n \in 1..Len(queue'[c]) :
                  \/ n \in 1..Len(queue[c])
                  \/ c \in Listening(i) /\ \E k \in 1..Len(messages) : queue'[c][n] = messages[k]
             /\ c \in Listening(i) /\ Len(queue[c]) < QueueSize =>
                  \E n \in 1..Len(queue'[c]) : queue'[c][n] = Head(messages)
  <2>0. queue[c] \in Seq(Messages) /\ Len(queue[c]) \in Nat /\ Len(queue[c]) <= QueueSize
    BY DEF TypeOK, Bounded
  <2>1. CASE c \notin Listening(i)
    BY <2>0, <2>1 DEF Publish, TypeOK
  <2>2. CASE c \in Listening(i)
    <3> DEFINE all == queue[c] \o messages
               n0  == IF Len(all) < QueueSize THEN Len(all) ELSE QueueSize
    <3>1. /\ all \in Seq(Messages) /\ Len(all) = Len(queue[c]) + Len(messages)
          /\ Len(messages) \in Nat \ {0}
          /\ \A n \in 1..Len(all) :
               all[n] = IF n <= Len(queue[c]) THEN queue[c][n] ELSE messages[n - Len(queue[c])]
          /\ Head(messages) = messages[1]
      BY <2>0
    <3>2. queue'[c] = SubSeq(all, 1, n0)
      BY <2>2 DEF Publish, TypeOK
    <3> HIDE DEF all
    <3>3. n0 \in 1..QueueSize /\ n0 <= Len(all) /\ Len(queue[c]) <= n0
      BY <2>0, <3>1
    <3>4. \A n \in 1..n0 : all[n] \in Messages
      BY <3>1, <3>3
    <3> HIDE DEF n0
    <3>5. /\ queue'[c] \in Seq(Messages) /\ Len(queue'[c]) = n0
          /\ \A n \in 1..n0 : queue'[c][n] = all[n]
      <4>1. /\ SubSeq(all, 1, n0) \in Seq(Messages)
            /\ Len(SubSeq(all, 1, n0)) = (IF 1 <= n0 THEN n0 - 1 + 1 ELSE 0)
            /\ \A n \in 1..n0 - 1 + 1 : SubSeq(all, 1, n0)[n] = all[1 + n - 1]
        BY <3>3, <3>4, SubSeqProperties
      <4> QED
        BY <3>2, <3>3, <4>1
    <3>6. \A n \in 1..n0 : n > Len(queue[c]) =>
            n - Len(queue[c]) \in 1..Len(messages) /\ queue'[c][n] = messages[n - Len(queue[c])]
      BY <2>0, <3>1, <3>3, <3>5
    <3>7. Len(queue[c]) < QueueSize =>
            Len(queue[c]) + 1 \in 1..n0 /\ queue'[c][Len(queue[c]) + 1] = Head(messages)
      BY <2>0, <3>1, <3>3, <3>5 DEF n0
    <3>8. ASSUME NEW n \in 1..Len(queue[c])
          PROVE  n \in 1..Len(queue'[c]) /\ queue'[c][n] = queue[c][n]
      <4>1. n \in 1..n0 /\ n \in 1..Len(all) /\ n <= Len(queue[c])
        BY <2>0, <3>3, <3>1
      <4>2. all[n] = queue[c][n]
        BY <3>1, <4>1
      <4> QED
        BY <3>5, <4>1, <4>2
    <3>9. ASSUME NEW n \in 1..Len(queue'[c]), n \notin 1..Len(queue[c])
          PROVE  \E k \in 1..Len(messages) : queue'[c][n] = messages[k]
      <4>1. n \in 1..n0 /\ n > Len(queue[c])
        BY <2>0, <3>5, <3>9
      <4> QED
        BY <3>6, <4>1
    <3>10. c \in Listening(i) /\ Len(queue[c]) < QueueSize =>
             \E n \in 1..Len(queue'[c]) : queue'[c][n] = Head(messages)
      BY <3>5, <3>7
    <3>11. Len(queue'[c]) <= QueueSize
      BY <3>3, <3>5
    <3> QED
      BY <2>2, <3>5, <3>8, <3>9, <3>10, <3>11
  <2> QED
    BY <2>1, <2>2
<1>2. queue' \in [Screens -> Seq(Messages)]
  BY <1>1 DEF Publish
<1>3. /\ missed' \subseteq Screens /\ missed \subseteq missed'
      /\ Final(Head(messages)) =>
           \A c \in Listening(i) : Len(queue[c]) >= QueueSize => c \in missed'
  BY DEF Publish, TypeOK, Listening
<1>4. Listening(i) \subseteq Screens
  BY DEF Listening
<1> QED
  BY <1>1, <1>2, <1>3, <1>4

\* The sequences of messages that are published.
LEMMA Publications ==
    /\ <<"done", "after">> \in Seq(Messages) /\ <<"error", "error">> \in Seq(Messages)
    /\ <<"after">> \in Seq(Messages) /\ <<"progress">> \in Seq(Messages)
    /\ <<"error">> \in Seq(Messages)
  BY DEF Messages
----------------------------------------------------------------------------
(* The shapes of the state                                                 *)

LEMMA InitShape == Init => Shape
<1> SUFFICES ASSUME Init PROVE Shape
  OBVIOUS
<1> USE SizeAssumption, MarkAssumption DEF Init
<1>1. TypeOK
  BY DEF TypeOK, Runs, Messages
<1>2. Followed /\ Bounded /\ Entered /\ Threads
  BY DEF Followed, Bounded, Entered, Threads
<1> QED
  BY <1>1, <1>2 DEF Shape

\* A run is one of the begun ones as soon as it has a task, and has an id then.
LEMMA Begun ==
    ASSUME TypeOK, NEW r \in Runs, task[r] # "unused"
    PROVE  r \in 1..begun /\ id[r] \in Ids
  BY SizeAssumption DEF TypeOK, Runs

LEMMA ShapeTaskSteps ==
    ASSUME Shape, NEW r \in Runs,
           Launch(r) \/ Complete(r) \/ Break(r) \/ Pushed(r) \/ Unwind(r)
    PROVE  Shape'
<1> USE SizeAssumption, MarkAssumption DEF Shape
<1>0. TypeOK /\ Followed /\ Bounded /\ Entered /\ Threads
  OBVIOUS
<1>1. r \in 1..begun /\ id[r] \in Ids
  BY <1>0, Begun DEF Launch, Complete, Break, Pushed, Unwind, Underway
<1>2. CASE Launch(r)
  <2>1. TypeOK'
    BY <1>0, <1>2 DEF Launch, TypeOK, tabs, history
  <2>2. Followed' /\ Bounded' /\ Entered'
    BY <1>0, <1>2 DEF Launch, Followed, Bounded, Entered, tabs, history
  <2>3. Threads'
    BY <1>0, <1>2 DEF Launch, Threads, TypeOK, tabs, history
  <2> QED
    BY <2>1, <2>2, <2>3
<1>3. CASE Complete(r)
  <2>1. queue' \in [Screens -> Seq(Messages)] /\ Bounded' /\ missed' \subseteq Screens
    BY <1>0, <1>3, PublishEffect, Publications DEF Complete, Bounded
  <2>2. TypeOK'
    BY <1>0, <1>3, <2>1 DEF Complete, TypeOK, tabs
  <2>3. Followed' /\ Entered' /\ Threads'
    BY <1>0, <1>3 DEF Complete, Followed, Entered, Threads, TypeOK, tabs
  <2> QED
    BY <2>1, <2>2, <2>3
<1>4. CASE Break(r)
  <2>1. queue' \in [Screens -> Seq(Messages)] /\ Bounded' /\ missed' \subseteq Screens
    BY <1>0, <1>4, PublishEffect, Publications DEF Break, Bounded
  <2>2. TypeOK'
    BY <1>0, <1>1, <1>4, <2>1 DEF Break, Leave, TypeOK, tabs
  <2>3. Followed' /\ Threads'
    BY <1>0, <1>4 DEF Break, Followed, Threads, TypeOK, tabs
  <2>4. Entered'
    BY <1>0, <1>4 DEF Break, Leave, Entered, TypeOK
  <2> QED
    BY <2>1, <2>2, <2>3, <2>4
<1>5. CASE Pushed(r)
  <2>1. queue' \in [Screens -> Seq(Messages)] /\ Bounded' /\ missed' \subseteq Screens
    BY <1>0, <1>5, PublishEffect, Publications DEF Pushed, Bounded
  <2>2. TypeOK'
    BY <1>0, <1>1, <1>5, <2>1 DEF Pushed, Leave, TypeOK, tabs
  <2>3. Followed' /\ Threads'
    BY <1>0, <1>5 DEF Pushed, Followed, Threads, TypeOK, tabs
  <2>4. Entered'
    BY <1>0, <1>5 DEF Pushed, Leave, Entered, TypeOK
  <2> QED
    BY <2>1, <2>2, <2>3, <2>4
<1>6. CASE Unwind(r)
  <2>1. TypeOK'
    <3>1. table' \in [Ids -> 1..begun \cup {None}] /\ causes' \subseteq {"revived", "usurped"}
      <4>1. CASE task[r] = "delay"
        BY <1>0, <1>6, <4>1 DEF Unwind, TypeOK
      <4>2. CASE task[r] # "delay"
        <5>1. /\ table' = [table EXCEPT ![id[r]] = None]
              /\ causes' = causes \cup (IF table[id[r]] \in {None, r} THEN {} ELSE {"usurped"})
          BY <1>6, <4>2 DEF Unwind, Leave
        <5> QED
          BY <1>0, <5>1 DEF TypeOK
      <4> QED
        BY <4>1, <4>2
    <3>2. /\ task' = [task EXCEPT ![r] = "ended"]
          /\ UNCHANGED <<begun, id, cancelled, thread, sent, results, tabs, queue, missed>>
      BY <1>6 DEF Unwind
    <3> QED
      BY <1>0, <1>1, <3>1, <3>2 DEF TypeOK, tabs
  <2>2. Followed' /\ Bounded' /\ Threads'
    BY <1>0, <1>6 DEF Unwind, Underway, Followed, Bounded, Threads, TypeOK, tabs
  <2>3. Entered'
    BY <1>0, <1>6 DEF Unwind, Leave, Entered, TypeOK
  <2> QED
    BY <2>1, <2>2, <2>3
<1> QED
  BY <1>2, <1>3, <1>4, <1>5, <1>6

LEMMA ShapeThreadSteps ==
    ASSUME Shape, NEW r \in Runs, Work(r) \/ Progress(r) \/ Return(r) \/ Raise(r)
    PROVE  Shape'
<1> USE SizeAssumption, MarkAssumption DEF Shape
<1>0. TypeOK /\ Followed /\ Bounded /\ Entered /\ Threads
  OBVIOUS
<1>1. r \in 1..begun /\ id[r] \in Ids
  BY <1>0, Begun DEF Work, Progress, Return, Raise, Threads
<1>2. CASE Progress(r)
  <2>1. queue' \in [Screens -> Seq(Messages)] /\ Bounded' /\ missed' \subseteq Screens
    BY <1>0, <1>2, PublishEffect, Publications DEF Progress, Bounded
  <2>2. TypeOK'
    BY <1>0, <1>2, <2>1 DEF Progress, TypeOK, tabs
  <2>3. Followed' /\ Entered' /\ Threads'
    BY <1>0, <1>2 DEF Progress, Followed, Entered, Threads, tabs
  <2> QED
    BY <2>1, <2>2, <2>3
<1>3. CASE Work(r) \/ Return(r) \/ Raise(r)
  <2>1. TypeOK'
    <3>1. CASE Work(r)
      BY <1>0, <1>1, <3>1 DEF Work, TypeOK, tabs, history
    <3>2. CASE Return(r)
      BY <1>0, <1>1, <3>2 DEF Return, TypeOK, tabs, history
    <3>3. CASE Raise(r)
      <4>1. results' \in [Ids -> 1..begun \cup {None, Error}]
        BY <1>0, <1>1, <3>3 DEF Raise, TypeOK
      <4> QED
        BY <1>0, <1>1, <3>3, <4>1 DEF Raise, TypeOK, tabs, history
    <3> QED
      BY <1>3, <3>1, <3>2, <3>3
  <2>2. Followed' /\ Bounded' /\ Entered'
    BY <1>0, <1>3 DEF Work, Return, Raise, Followed, Bounded, Entered, tabs, history
  <2>3. Threads'
    BY <1>0, <1>3 DEF Work, Return, Raise, Threads, TypeOK
  <2> QED
    BY <2>1, <2>2, <2>3
<1> QED
  BY <1>2, <1>3

LEMMA ShapeRequests ==
    ASSUME Shape, NEW c \in Screens, Cancel(c) \/ \E i \in Ids : Start(c, i)
    PROVE  Shape'
<1> USE SizeAssumption, MarkAssumption DEF Shape
<1>0. TypeOK /\ Followed /\ Bounded /\ Entered /\ Threads
  OBVIOUS
<1>1. CASE Cancel(c)
  <2> DEFINE i == id[watch[c]]
             r == table[i]
  <2>1. watch[c] \in 1..begun /\ i \in Ids
    BY <1>0, <1>1 DEF Cancel, Followed, TypeOK, Runs
  <2>2. r \in 1..begun /\ r \in Runs
    BY <1>0, <1>1, <2>1 DEF Cancel, TypeOK, Runs
  <2>3. queue' \in [Screens -> Seq(Messages)] /\ Bounded' /\ missed' \subseteq Screens
    BY <1>0, <1>1, PublishEffect, Publications DEF Cancel, Bounded
  <2>4. TypeOK'
    BY <1>0, <1>1, <2>2, <2>3 DEF Cancel, TypeOK
  <2>5. Followed'
    BY <1>0, <1>1 DEF Cancel, Followed, TypeOK
  <2>6. Entered'
    BY <1>0, <1>1 DEF Cancel, Entered, TypeOK
  <2>7. Threads'
    BY <1>0, <1>1, <2>2 DEF Cancel, Threads, TypeOK
  <2> QED
    BY <2>3, <2>4, <2>5, <2>6, <2>7
<1>2. ASSUME NEW i \in Ids, Start(c, i)
      PROVE  Shape'
  <2> DEFINE r == begun + 1
  <2>1. r \in Runs /\ r \in 1..begun' /\ begun' = r /\ begun \in Nat
    BY <1>0, <1>2 DEF Start, TypeOK, Runs
  <2>2. task[r] = "unused" /\ id[r] = None /\ thread[r] = "none" /\ r \notin cancelled
    BY <1>0, <2>1 DEF TypeOK, Threads
  <2>3. TypeOK'
    <3>1. /\ begun' \in 0..MaxRuns
          /\ id' \in [Runs -> Ids \cup {None}]
          /\ task' \in [Runs -> {"unused", "delay", "waiting", "pushing", "ended"}]
          /\ \A s \in Runs : task'[s] = "unused" <=> s > begun'
          /\ \A s \in Runs : id'[s] = None <=> s > begun'
      BY <1>0, <1>2, <2>1, <2>2 DEF Start, TypeOK, Runs
    <3>2. /\ table' \in [Ids -> 1..begun' \cup {None}]
          /\ results' \in [Ids -> 1..begun' \cup {None, Error}]
          /\ cancelled' \subseteq 1..begun'
          /\ thread' \in [Runs -> {"none", "queued", "working", "saved", "failed"}]
          /\ sent' \in [Runs -> 0..MaxProgress]
      BY <1>0, <1>2, <2>1 DEF Start, TypeOK
    <3>3. /\ screen' \in [Screens -> {"idle", "running", "done", "error"}]
          /\ watch' \in [Screens -> 1..begun' \cup {None}]
          /\ link' \in [Screens -> {"none", "opening", "open"}]
          /\ queue' \in [Screens -> Seq(Messages)]
          /\ shown' \in [Screens -> 1..begun' \cup {None}]
          /\ missed' \subseteq Screens
      BY <1>0, <1>2, <2>1 DEF Start, Follow, TypeOK
    <3>4. causes' \subseteq {"revived", "usurped"}
      BY <1>0, <1>2 DEF Start, TypeOK
    <3> QED
      BY <3>1, <3>2, <3>3, <3>4 DEF TypeOK
  <2>4. Followed' /\ Bounded'
    BY <1>0, <1>2, <2>1 DEF Start, Follow, Followed, Bounded, TypeOK
  <2>5. Entered'
    BY <1>0, <1>2, <2>1, <2>2 DEF Start, Entered, TypeOK, Runs
  <2>6. Threads'
    BY <1>0, <1>2, <2>1, <2>2 DEF Start, Threads, TypeOK
  <2> QED
    BY <2>3, <2>4, <2>5, <2>6
<1> QED
  BY <1>1, <1>2

LEMMA ShapeSockets ==
    ASSUME Shape, NEW c \in Screens,
           Connect(c) \/ Deliver(c) \/ TimesOut(c) \/ Lost(c) \/ Load(c)
    PROVE  Shape'
<1> USE SizeAssumption, MarkAssumption DEF Shape
<1>0. TypeOK /\ Followed /\ Bounded /\ Entered /\ Threads
  OBVIOUS
<1>1. CASE Connect(c)
  BY <1>0, <1>1 DEF Connect, TypeOK, Followed, Bounded, Entered, Threads, server
<1>2. CASE Deliver(c)
  <2>1. watch[c] \in 1..begun /\ queue[c] \in Seq(Messages) /\ queue[c] # <<>>
    BY <1>0, <1>2 DEF Deliver, TypeOK, Followed, Runs
  <2>2. /\ Head(queue[c]) \in Messages /\ Tail(queue[c]) \in Seq(Messages)
        /\ Len(Tail(queue[c])) <= Len(queue[c])
    BY <2>1
  <2>3. TypeOK'
    BY <1>0, <1>2, <2>1, <2>2 DEF Deliver, Final, TypeOK, server, history
  <2>4. Followed' /\ Entered' /\ Threads'
    BY <1>0, <1>2 DEF Deliver, Final, TypeOK, Followed, Entered, Threads, server
  <2>5. Bounded'
    BY <1>0, <1>2, <2>1, <2>2 DEF Deliver, Bounded, TypeOK
  <2> QED
    BY <2>3, <2>4, <2>5
<1>3. CASE TimesOut(c)
  BY <1>0, <1>3 DEF TimesOut, TypeOK, Followed, Bounded, Entered, Threads, server, history
<1>4. CASE Lost(c)
  <2>1. TypeOK'
    BY <1>0, <1>4 DEF Lost, TypeOK, server, history
  <2>2. Followed' /\ Bounded' /\ Entered' /\ Threads'
    BY <1>0, <1>4 DEF Lost, TypeOK, Followed, Bounded, Entered, Threads, server
  <2> QED
    BY <2>1, <2>2
<1>5. CASE Load(c)
  <2>1. \A r \in Active : r \in 1..begun
    BY <1>0, Begun DEF Active, Underway
  <2>2. shown' \in [Screens -> 1..begun \cup {None}] /\ UNCHANGED <<server, causes>>
    BY <1>0, <1>5 DEF Load, TypeOK
  <2>3. ASSUME NEW r \in Active, Follow(c, r)
        PROVE  Shape'
    <3>1. TypeOK'
      BY <1>0, <2>1, <2>2, <2>3 DEF Follow, TypeOK, server
    <3>2. Followed' /\ Bounded' /\ Entered' /\ Threads'
      BY <1>0, <2>1, <2>2, <2>3
         DEF Follow, Active, TypeOK, Followed, Bounded, Entered, Threads, server
    <3> QED
      BY <3>1, <3>2
  <2>4. CASE Active = {}
    <3>1. /\ screen' \in [Screens -> {"idle", "running", "done", "error"}]
          /\ screen'[c] # "running"
          /\ \A d \in Screens : d # c => screen'[d] = screen[d]
      <4>1. PICK s \in {"idle"} \cup {"done" : i \in {j \in Ids : results[j] \in Runs}} :
              screen' = [screen EXCEPT ![c] = s]
        BY <1>5, <2>4 DEF Load
      <4>2. s \in {"idle", "done"}
        BY <4>1
      <4> QED
        BY <1>0, <4>1, <4>2 DEF TypeOK
    <3>2. /\ watch' = [watch EXCEPT ![c] = None]
          /\ link' = [link EXCEPT ![c] = "none"]
          /\ queue' = [queue EXCEPT ![c] = <<>>]
          /\ missed' = missed \ {c}
      BY <1>5, <2>4 DEF Load
    <3>3. TypeOK'
      <4>1. /\ watch' \in [Screens -> 1..begun \cup {None}]
            /\ link' \in [Screens -> {"none", "opening", "open"}]
            /\ queue' \in [Screens -> Seq(Messages)]
            /\ missed' \subseteq Screens
        BY <1>0, <3>2 DEF TypeOK
      <4> QED
        BY <1>0, <2>2, <3>1, <4>1 DEF TypeOK, server
    <3>4. Followed' /\ Bounded' /\ Entered' /\ Threads'
      BY <1>0, <2>2, <3>1, <3>2 DEF TypeOK, Followed, Bounded, Entered, Threads, server
    <3> QED
      BY <3>3, <3>4
  <2> QED
    BY <1>5, <2>3, <2>4 DEF Load
<1> QED
  BY <1>1, <1>2, <1>3, <1>4, <1>5

LEMMA ShapeStep ==
    ASSUME Shape, [Next]_vars
    PROVE  Shape'
<1>1. CASE UNCHANGED vars
  BY <1>1 DEF Shape, TypeOK, Followed, Bounded, Entered, Threads, vars, server, tabs, history
<1>2. CASE Next
  BY <1>2, ShapeTaskSteps, ShapeThreadSteps, ShapeRequests, ShapeSockets DEF Next
<1> QED
  BY <1>1, <1>2

----------------------------------------------------------------------------
(* The table of active runs                                                *)

LEMMA ListedStep ==
    ASSUME Shape, Listed, [Next]_vars
    PROVE  Listed'
<1> USE SizeAssumption, MarkAssumption
<1>0. TypeOK /\ Entered /\ Followed
  BY DEF Shape
<1>1. SUFFICES ASSUME "usurped" \notin causes',
                      NEW q \in Runs, Underway(q)', q \notin cancelled'
               PROVE  table'[id'[q]] = q
  BY DEF Listed
<1>2. ASSUME UNCHANGED <<id, task, cancelled, table>>, causes \subseteq causes'
      PROVE  table'[id'[q]] = q
  BY <1>1, <1>2 DEF Listed, Underway
<1>3. ASSUME NEW r \in Runs, Launch(r)
      PROVE  table'[id'[q]] = q
  BY <1>0, <1>1, <1>3 DEF Launch, Listed, Underway, TypeOK, history
<1>4. ASSUME NEW r \in Runs, Complete(r)
      PROVE  table'[id'[q]] = q
  BY <1>0, <1>1, <1>4 DEF Complete, Listed, Underway, TypeOK
<1>5. ASSUME NEW r \in Runs, Break(r) \/ Pushed(r)
      PROVE  table'[id'[q]] = q
  <2>1. q # r /\ Underway(q) /\ q \notin cancelled /\ causes' = causes /\ id' = id
    BY <1>0, <1>1, <1>5 DEF Break, Pushed, Underway, TypeOK
  <2>2. Underway(r) /\ r \notin cancelled /\ table' = [table EXCEPT ![id[r]] = None]
    BY <1>5 DEF Break, Pushed, Leave, Underway
  <2>3. table[id[q]] = q /\ table[id[r]] = r
    BY <1>1, <2>1, <2>2 DEF Listed
  <2>4. id[q] # id[r] /\ id[q] \in Ids
    BY <1>0, <2>1, <2>3, Begun DEF Underway
  <2> QED
    BY <1>0, <2>1, <2>2, <2>3, <2>4 DEF TypeOK
<1>6. ASSUME NEW r \in Runs, Unwind(r)
      PROVE  table'[id'[q]] = q
  <2>1. q # r /\ Underway(q) /\ q \notin cancelled /\ causes \subseteq causes' /\ id' = id
    BY <1>0, <1>1, <1>6 DEF Unwind, Underway, TypeOK, history
  <2>2. table[id[q]] = q /\ id[q] \in Ids
    BY <1>0, <1>1, <2>1, Begun DEF Listed, Underway
  <2>3. CASE task[r] = "delay"
    BY <1>6, <2>1, <2>2, <2>3 DEF Unwind
  <2>4. CASE task[r] # "delay"
    <3>1. /\ table' = [table EXCEPT ![id[r]] = None]
          /\ table[id[r]] \in {None, r}
      BY <1>1, <1>6, <2>4 DEF Unwind, Leave
    <3>2. id[q] # id[r]
      BY <1>0, <2>1, <2>2, <3>1 DEF Runs
    <3> QED
      BY <1>0, <2>1, <2>2, <3>1, <3>2 DEF TypeOK
  <2> QED
    BY <2>3, <2>4
<1>7. ASSUME NEW c \in Screens, Cancel(c)
      PROVE  table'[id'[q]] = q
  <2> DEFINE i == id[watch[c]]
             r == table[i]
  <2>1. /\ Underway(q) /\ q \notin cancelled /\ q # r /\ id' = id /\ causes' = causes
        /\ table' = [table EXCEPT ![i] = None]
    BY <1>1, <1>7 DEF Cancel, Underway
  <2>2. table[id[q]] = q /\ id[q] \in Ids
    BY <1>0, <1>1, <2>1, Begun DEF Listed, Underway
  <2>3. id[q] # i
    BY <2>1, <2>2
  <2> QED
    BY <1>0, <2>1, <2>2, <2>3 DEF TypeOK
<1>8. ASSUME NEW c \in Screens, NEW i \in Ids, Start(c, i)
      PROVE  table'[id'[q]] = q
  <2> DEFINE r == begun + 1
  <2>1. r \in Runs /\ id' = [id EXCEPT ![r] = i] /\ table' = [table EXCEPT ![i] = r]
    BY <1>0, <1>8 DEF Start, TypeOK, Runs
  <2>2. CASE q = r
    BY <1>0, <2>1, <2>2 DEF TypeOK
  <2>3. CASE q # r
    <3>1. Underway(q) /\ q \notin cancelled /\ causes \subseteq causes'
      BY <1>0, <1>1, <1>8, <2>1, <2>3 DEF Start, Underway, TypeOK
    <3>2. table[id[q]] = q /\ id[q] \in Ids
      BY <1>0, <1>1, <3>1, Begun DEF Listed, Underway
    <3>3. id[q] # i
      BY <1>8, <3>1, <3>2 DEF Start, Free, Underway
    <3> QED
      BY <1>0, <2>1, <2>3, <3>2, <3>3 DEF TypeOK
  <2> QED
    BY <2>2, <2>3
<1>9. CASE UNCHANGED vars
  BY <1>2, <1>9 DEF vars, server, history
<1>10. ASSUME NEW r \in Runs, Work(r) \/ Progress(r) \/ Return(r) \/ Raise(r)
       PROVE  table'[id'[q]] = q
  BY <1>2, <1>10 DEF Work, Progress, Return, Raise, history
<1>11. ASSUME NEW c \in Screens, Connect(c) \/ Deliver(c) \/ TimesOut(c) \/ Lost(c) \/ Load(c)
       PROVE  table'[id'[q]] = q
  BY <1>2, <1>11 DEF Connect, Deliver, TimesOut, Lost, Load, server, history
<1> QED
  BY <1>3, <1>4, <1>5, <1>6, <1>7, <1>8, <1>9, <1>10, <1>11 DEF Next
----------------------------------------------------------------------------
(* The end of a run and who is told                                        *)

\* After a publication a listener has the end before it: one that it had, or the
\* one that is published.
LEMMA EndPublished ==
    ASSUME Shape, EndWaits,
           NEW i, NEW messages \in Seq(Messages), messages # <<>>, Publish(i, messages),
           NEW c \in Screens, link[c] = "open", c \notin missed',
           \/ Told(watch[c])
           \/ c \in Listening(i) /\ Final(Head(messages))
    PROVE  \E n \in 1..Len(queue'[c]) : Final(queue'[c][n])
<1>0. TypeOK /\ Bounded
  BY DEF Shape
<1>1. /\ \A n \in 1..Len(queue[c]) : n \in 1..Len(queue'[c]) /\ queue'[c][n] = queue[c][n]
      /\ missed \subseteq missed'
      /\ c \in Listening(i) /\ Len(queue[c]) < QueueSize =>
           \E n \in 1..Len(queue'[c]) : queue'[c][n] = Head(messages)
      /\ Final(Head(messages)) /\ c \in Listening(i) /\ Len(queue[c]) >= QueueSize => c \in missed'
  BY <1>0, PublishEffect
<1>2. CASE Told(watch[c])
  <2>1. \E n \in 1..Len(queue[c]) : Final(queue[c][n])
    BY <1>1, <1>2 DEF EndWaits
  <2> QED
    BY <1>1, <2>1
<1>3. CASE c \in Listening(i) /\ Final(Head(messages))
  <2>1. Len(queue[c]) < QueueSize
    BY <1>0, <1>1, <1>3, SizeAssumption DEF TypeOK
  <2> QED
    BY <1>1, <1>3, <2>1
<1> QED
  BY <1>2, <1>3

LEMMA EndWaitsStep ==
    ASSUME Shape, EndWaits, [Next]_vars
    PROVE  EndWaits'
<1> USE SizeAssumption, MarkAssumption
<1>0. TypeOK /\ Followed /\ Bounded /\ Entered
  BY DEF Shape
<1>1. SUFFICES ASSUME NEW c \in Screens,
                      link'[c] = "open", Told(watch[c])', c \notin missed'
               PROVE  \E n \in 1..Len(queue'[c]) : Final(queue'[c][n])
  BY DEF EndWaits
<1> DEFINE Goal == \E n \in 1..Len(queue'[c]) : Final(queue'[c][n])
<1>2. ASSUME link[c] = "open", Told(watch[c]), c \notin missed, queue'[c] = queue[c]
      PROVE  Goal
  BY <1>2 DEF EndWaits
<1>3. link[c] = "open" => watch[c] \in Runs /\ id[watch[c]] \in Ids /\ watch[c] \in 1..begun
  BY <1>0 DEF Followed, TypeOK, Runs
<1> HIDE DEF Goal
<1>4. ASSUME NEW r \in Runs, Launch(r) \/ Unwind(r) \/ Work(r) \/ Return(r) \/ Raise(r)
      PROVE  Goal
  <2>1. UNCHANGED <<link, watch, missed, queue, cancelled>>
    BY <1>4 DEF Launch, Unwind, Work, Return, Raise, tabs, history
  <2>2. Told(watch[c])
    BY <1>0, <1>1, <1>3, <1>4, <2>1
       DEF Launch, Unwind, Work, Return, Raise, Told, TypeOK, Underway
  <2> QED
    BY <1>1, <1>2, <2>1, <2>2
<1>5. ASSUME NEW r \in Runs, Complete(r)
      PROVE  Goal
  <2>1. /\ UNCHANGED <<link, watch, cancelled>> /\ task' = [task EXCEPT ![r] = "pushing"]
        /\ Publish(id[r], <<"done", "after">>)
    BY <1>5 DEF Complete, tabs
  <2>2. Told(watch[c]) \/ watch[c] = r
    BY <1>0, <1>1, <1>3, <2>1 DEF Told, TypeOK
  <2>3. watch[c] = r => c \in Listening(id[r])
    BY <1>1, <2>1 DEF Listening
  <2>4. Final(Head(<<"done", "after">>)) /\ <<"done", "after">> # <<>>
    BY DEF Final
  <2> QED
    BY <1>1, <2>1, <2>2, <2>3, <2>4, EndPublished, Publications DEF Goal
<1>6. ASSUME NEW r \in Runs, Break(r)
      PROVE  Goal
  <2>1. /\ UNCHANGED <<link, watch, cancelled>> /\ task' = [task EXCEPT ![r] = "ended"]
        /\ Publish(id[r], <<"error", "error">>)
    BY <1>6 DEF Break, tabs
  <2>2. Told(watch[c]) \/ watch[c] = r
    BY <1>0, <1>1, <1>3, <2>1 DEF Told, TypeOK
  <2>3. watch[c] = r => c \in Listening(id[r])
    BY <1>1, <2>1 DEF Listening
  <2>4. Final(Head(<<"error", "error">>)) /\ <<"error", "error">> # <<>>
    BY DEF Final
  <2> QED
    BY <1>1, <2>1, <2>2, <2>3, <2>4, EndPublished, Publications DEF Goal
<1>7. ASSUME NEW r \in Runs, Pushed(r)
      PROVE  Goal
  <2>1. /\ UNCHANGED <<link, watch, cancelled>> /\ task' = [task EXCEPT ![r] = "ended"]
        /\ Publish(id[r], <<"after">>) /\ task[r] = "pushing"
    BY <1>7 DEF Pushed, tabs
  <2>2. Told(watch[c])
    BY <1>0, <1>1, <1>3, <2>1 DEF Told, TypeOK
  <2> QED
    BY <1>1, <2>1, <2>2, EndPublished, Publications DEF Goal
<1>8. ASSUME NEW r \in Runs, Progress(r)
      PROVE  Goal
  <2>1. UNCHANGED <<link, watch, cancelled, task>> /\ Publish(id[r], <<"progress">>)
    BY <1>8 DEF Progress, tabs
  <2>2. Told(watch[c])
    BY <1>1, <2>1 DEF Told
  <2> QED
    BY <1>1, <2>1, <2>2, EndPublished, Publications DEF Goal
<1>9. ASSUME NEW d \in Screens, Cancel(d)
      PROVE  Goal
  <2> DEFINE i == id[watch[d]]
             r == table[i]
  <2>1. /\ UNCHANGED <<link, watch, task>> /\ cancelled' = cancelled \cup {r}
        /\ Publish(i, <<"error">>) /\ r # None /\ screen[d] = "running"
    BY <1>9 DEF Cancel
  <2>2. id[r] = i
    <3>1. i \in Ids
      BY <1>0, <2>1 DEF Followed, TypeOK, Runs
    <3> QED
      BY <1>0, <2>1, <3>1 DEF Entered
  <2>3. Told(watch[c]) \/ watch[c] = r
    BY <1>1, <2>1 DEF Told
  <2>4. watch[c] = r => c \in Listening(i)
    BY <1>1, <2>1, <2>2 DEF Listening
  <2>5. Final(Head(<<"error">>)) /\ <<"error">> # <<>>
    BY DEF Final
  <2> QED
    BY <1>1, <2>1, <2>3, <2>4, <2>5, EndPublished, Publications DEF Goal
<1>10. ASSUME NEW d \in Screens, NEW i \in Ids, Start(d, i)
       PROVE  Goal
  <2>1. /\ Follow(d, begun + 1) /\ UNCHANGED cancelled
        /\ task' = [task EXCEPT ![begun + 1] = "delay"]
    BY <1>10 DEF Start
  <2>2. c # d /\ link[c] = "open" /\ watch'[c] = watch[c] /\ queue'[c] = queue[c] /\ c \notin missed
    BY <1>0, <1>1, <2>1 DEF Follow, TypeOK
  <2>3. Told(watch[c])
    BY <1>0, <1>1, <1>3, <2>1, <2>2 DEF Told, TypeOK
  <2> QED
    BY <1>2, <2>2, <2>3
<1>11. ASSUME NEW d \in Screens, Connect(d)
       PROVE  Goal
  <2>1. UNCHANGED <<cancelled, task, watch, queue>>
    BY <1>11 DEF Connect, server
  <2>2. Told(watch[c]) /\ c # d /\ c \notin missed
    BY <1>0, <1>1, <1>11, <2>1 DEF Connect, Told, TypeOK
  <2>3. link[c] = "open"
    BY <1>0, <1>1, <1>11, <2>2 DEF Connect, TypeOK
  <2> QED
    BY <1>2, <2>1, <2>2, <2>3
<1>12. ASSUME NEW d \in Screens, Deliver(d)
       PROVE  Goal
  <2>1. UNCHANGED <<cancelled, task, watch, missed>> /\ queue[d] # <<>> /\ queue[d] \in Seq(Messages)
    BY <1>0, <1>12 DEF Deliver, server, history, TypeOK
  <2>2. Told(watch[c]) /\ c \notin missed /\ link[c] = "open"
    BY <1>0, <1>1, <1>12, <2>1 DEF Deliver, Told, TypeOK
  <2>3. CASE c # d
    <3>1. queue'[c] = queue[c]
      BY <1>0, <1>12, <2>3 DEF Deliver, TypeOK
    <3> QED
      BY <1>2, <2>2, <3>1
  <2>4. CASE c = d
    <3>1. ~Final(Head(queue[c])) /\ queue'[c] = Tail(queue[c])
      BY <1>0, <1>1, <1>12, <2>4 DEF Deliver, TypeOK
    <3>2. PICK n \in 1..Len(queue[c]) : Final(queue[c][n])
      BY <2>2 DEF EndWaits
    <3>3. /\ Head(queue[c]) = queue[c][1] /\ Len(Tail(queue[c])) = Len(queue[c]) - 1
          /\ \A m \in 1..Len(Tail(queue[c])) : Tail(queue[c])[m] = queue[c][m + 1]
          /\ Len(queue[c]) \in Nat
      BY <2>1, <2>4, HeadTailProperties
    <3>4. n # 1
      BY <3>1, <3>2, <3>3
    <3>5. n - 1 \in 1..Len(queue'[c]) /\ (n - 1) + 1 = n
      BY <3>1, <3>2, <3>3, <3>4
    <3>6. queue'[c][n - 1] = queue[c][n]
      BY <3>1, <3>3, <3>5
    <3> QED
      BY <3>2, <3>5, <3>6 DEF Goal
  <2> QED
    BY <2>3, <2>4
<1>13. ASSUME NEW d \in Screens, TimesOut(d) \/ Lost(d)
       PROVE  Goal
  <2>1. UNCHANGED <<cancelled, task, watch, missed>>
    BY <1>13 DEF TimesOut, Lost, server, history
  <2>2. Told(watch[c]) /\ c \notin missed /\ c # d
    BY <1>0, <1>1, <1>13, <2>1 DEF TimesOut, Lost, Told, TypeOK
  <2>3. link[c] = "open" /\ queue'[c] = queue[c]
    BY <1>0, <1>1, <1>13, <2>2 DEF TimesOut, Lost, TypeOK
  <2> QED
    BY <1>2, <2>2, <2>3
<1>14. ASSUME NEW d \in Screens, Load(d)
       PROVE  Goal
  <2>1. /\ UNCHANGED <<cancelled, task>> /\ link'[d] # "open"
        /\ \A e \in Screens : e # d =>
             /\ link'[e] = link[e] /\ watch'[e] = watch[e] /\ queue'[e] = queue[e]
             /\ e \in missed => e \in missed'
    BY <1>0, <1>14 DEF Load, Follow, server, TypeOK
  <2>2. c # d /\ Told(watch[c])
    BY <1>1, <2>1 DEF Told
  <2> QED
    BY <1>1, <1>2, <2>1, <2>2
<1>15. CASE UNCHANGED vars
  <2>1. UNCHANGED <<cancelled, task, watch, link, queue, missed>>
    BY <1>15 DEF vars, server, tabs, history
  <2>2. Told(watch[c]) /\ c \notin missed /\ link[c] = "open" /\ queue'[c] = queue[c]
    BY <1>1, <2>1 DEF Told
  <2> QED
    BY <1>2, <2>2 DEF Goal
<1> QED
  BY <1>4, <1>5, <1>6, <1>7, <1>8, <1>9, <1>10, <1>11, <1>12, <1>13, <1>14, <1>15
     DEF Next, Goal
----------------------------------------------------------------------------
(* The results a screen is led to                                          *)

\* What a run that began has found under its id stays that way, as long as the
\* threads at work belong to the newest runs of their ids.
LEMMA SavedKept ==
    ASSUME Shape, Newest, causes' = {}, [Next]_vars, NEW w \in 1..begun, Saved(w)
    PROVE  Saved(w)' /\ causes = {}
<1> USE SizeAssumption, MarkAssumption
<1>0. TypeOK /\ Threads /\ w \in Runs /\ id[w] \in Ids
  BY DEF Shape, TypeOK, Runs
<1>1. ASSUME NEW r \in Runs, Break(r)
      PROVE  Saved(w)' /\ causes = {}
  <2>1. id' = id /\ causes' = causes
    BY <1>1 DEF Break
  <2>2. PICK x \in {results[id[r]], IF results[id[r]] = None THEN Error ELSE results[id[r]]} :
          results' = [results EXCEPT ![id[r]] = x]
    BY <1>1 DEF Break
  <2>3. results'[id[w]] = results[id[w]]
    BY <1>0, <2>2 DEF Saved, TypeOK, Runs
  <2> QED
    BY <2>1, <2>3 DEF Saved
<1>2. ASSUME NEW r \in Runs, Return(r) \/ Raise(r)
      PROVE  Saved(w)' /\ causes = {}
  <2>1. id' = id /\ causes' = causes /\ thread[r] = "working"
    BY <1>2 DEF Return, Raise, history
  <2>2. id[w] = id[r] => w <= r
    BY <1>0, <2>1 DEF Newest
  <2>3. PICK x \in {results[id[r]], r} : results' = [results EXCEPT ![id[r]] = x]
    BY <1>2 DEF Return, Raise
  <2>4. results'[id[w]] = results[id[w]] \/ (id[w] = id[r] /\ results'[id[w]] = r)
    BY <1>0, <2>3 DEF TypeOK
  <2> QED
    BY <1>0, <2>1, <2>2, <2>4 DEF Saved, Runs
<1>3. ASSUME NEW c \in Screens, NEW i \in Ids, Start(c, i)
      PROVE  Saved(w)' /\ causes = {}
  <2>1. id' = [id EXCEPT ![begun + 1] = i] /\ results' = results /\ causes \subseteq causes'
    BY <1>3 DEF Start
  <2>2. id'[w] = id[w]
    BY <1>0, <2>1 DEF TypeOK
  <2> QED
    BY <2>1, <2>2 DEF Saved
<1>4. ASSUME UNCHANGED <<id, results>>, causes \subseteq causes'
      PROVE  Saved(w)' /\ causes = {}
  BY <1>4 DEF Saved
<1>5. ASSUME NEW r \in Runs,
             \/ Launch(r) \/ Complete(r) \/ Pushed(r) \/ Unwind(r) \/ Work(r) \/ Progress(r)
      PROVE  UNCHANGED <<id, results>> /\ causes \subseteq causes'
  BY <1>5 DEF Launch, Complete, Pushed, Unwind, Work, Progress, history
<1>6. ASSUME NEW c \in Screens,
             \/ Cancel(c) \/ Connect(c) \/ Deliver(c) \/ TimesOut(c) \/ Lost(c) \/ Load(c)
      PROVE  UNCHANGED <<id, results>> /\ causes \subseteq causes'
  BY <1>6 DEF Cancel, Connect, Deliver, TimesOut, Lost, Load, server, history
<1>7. CASE UNCHANGED vars
  BY <1>4, <1>7 DEF vars, server, history
<1> QED
  BY <1>1, <1>2, <1>3, <1>4, <1>5, <1>6, <1>7 DEF Next

\* Causes are only added, ids only given.
LEMMA CausesGrow ==
    ASSUME Shape, [Next]_vars
    PROVE  /\ causes \subseteq causes'
           /\ \A w \in 1..begun : id'[w] = id[w]
<1> USE SizeAssumption
<1>0. TypeOK
  BY DEF Shape
<1>1. ASSUME NEW c \in Screens, NEW i \in Ids, Start(c, i)
      PROVE  causes \subseteq causes' /\ \A w \in 1..begun : id'[w] = id[w]
  BY <1>0, <1>1 DEF Start, TypeOK
<1>2. ASSUME NEW r \in Runs,
             \/ Launch(r) \/ Complete(r) \/ Break(r) \/ Pushed(r) \/ Unwind(r)
             \/ Work(r) \/ Progress(r) \/ Return(r) \/ Raise(r)
      PROVE  causes \subseteq causes' /\ id' = id
  BY <1>2 DEF Launch, Complete, Break, Pushed, Unwind, Work, Progress, Return, Raise, history
<1>3. ASSUME NEW c \in Screens,
             \/ Cancel(c) \/ Connect(c) \/ Deliver(c) \/ TimesOut(c) \/ Lost(c) \/ Load(c)
      PROVE  causes \subseteq causes' /\ id' = id
  BY <1>3 DEF Cancel, Connect, Deliver, TimesOut, Lost, Load, server, history
<1>4. CASE UNCHANGED vars
  BY <1>4 DEF vars, server, history
<1> QED
  BY <1>1, <1>2, <1>3, <1>4 DEF Next

LEMMA NewestStep ==
    ASSUME Shape, Listed, Newest, [Next]_vars
    PROVE  Newest'
<1> USE SizeAssumption, MarkAssumption
<1>0. TypeOK /\ Threads /\ Entered
  BY DEF Shape
<1>1. SUFFICES ASSUME causes' = {}, NEW q \in Runs, NEW s \in Runs,
                      thread'[q] = "working", id'[s] = id'[q]
               PROVE  s <= q
  BY DEF Newest
<1>2. causes = {}
  BY <1>1, CausesGrow
<1>3. ASSUME thread[q] = "working", id' = id
      PROVE  s <= q
  BY <1>1, <1>2, <1>3 DEF Newest
<1>4. ASSUME NEW r \in Runs, Work(r)
      PROVE  s <= q
  <2>1. id' = id /\ (thread[q] = "working" \/ (q = r /\ thread[r] = "queued"))
    BY <1>0, <1>1, <1>4 DEF Work, TypeOK
  <2>2. CASE q = r /\ thread[r] = "queued"
    <3>1. Underway(r) /\ r \notin cancelled
      BY <1>0, <2>2 DEF Threads, Underway
    <3>2. table[id[r]] = r /\ id[r] \in Ids
      BY <1>0, <1>2, <3>1, Begun DEF Listed, Underway
    <3> QED
      BY <1>0, <1>1, <2>1, <2>2, <3>2 DEF Entered, Runs
  <2> QED
    BY <1>3, <2>1, <2>2
<1>5. ASSUME NEW r \in Runs,
             \/ Launch(r) \/ Complete(r) \/ Break(r) \/ Pushed(r) \/ Unwind(r)
             \/ Progress(r) \/ Return(r) \/ Raise(r)
      PROVE  s <= q
  <2>1. id' = id
    BY <1>5 DEF Launch, Complete, Break, Pushed, Unwind, Progress, Return, Raise
  <2>2. thread[q] = "working"
    BY <1>0, <1>1, <1>5
       DEF Launch, Complete, Break, Pushed, Unwind, Progress, Return, Raise, TypeOK
  <2> QED
    BY <1>3, <2>1, <2>2
<1>6. ASSUME NEW c \in Screens, Cancel(c)
      PROVE  s <= q
  <2>1. id' = id /\ thread[q] = "working"
    BY <1>0, <1>1, <1>6 DEF Cancel, TypeOK
  <2> QED
    BY <1>3, <2>1
<1>7. ASSUME NEW c \in Screens, NEW i \in Ids, Start(c, i)
      PROVE  s <= q
  <2> DEFINE r == begun + 1
  <2>1. /\ id' = [id EXCEPT ![r] = i] /\ thread' = thread /\ r \in Runs
        /\ \A t \in Runs : id[t] = i => thread[t] # "working"
    <3>1. ~ \E t \in Runs : id[t] = i /\ thread[t] = "working"
      BY <1>1, <1>7 DEF Start
    <3>2. r \in Runs
      BY <1>0, <1>7 DEF Start, Runs, TypeOK
    <3> QED
      BY <1>7, <3>1, <3>2 DEF Start
  <2>2. q # r /\ id'[q] = id[q] /\ id[q] \in Ids
    <3>1. q \in 1..begun /\ id[q] \in Ids
      BY <1>0, <1>1, <2>1, Begun DEF Threads
    <3> QED
      BY <1>0, <2>1, <3>1 DEF TypeOK
  <2>3. s # r
    BY <1>0, <1>1, <2>1, <2>2 DEF TypeOK
  <2>4. id[s] = id[q]
    BY <1>0, <1>1, <2>1, <2>2, <2>3 DEF TypeOK
  <2> QED
    BY <1>1, <1>2, <2>1, <2>4 DEF Newest
<1>8. ASSUME NEW c \in Screens, Connect(c) \/ Deliver(c) \/ TimesOut(c) \/ Lost(c) \/ Load(c)
      PROVE  s <= q
  BY <1>1, <1>3, <1>8 DEF Connect, Deliver, TimesOut, Lost, Load, server
<1>9. CASE UNCHANGED vars
  BY <1>1, <1>3, <1>9 DEF vars, server
<1> QED
  BY <1>4, <1>5, <1>6, <1>7, <1>8, <1>9 DEF Next

LEMMA SavedResultsStep ==
    ASSUME Shape, Newest, SavedResults, [Next]_vars
    PROVE  SavedResults'
<1> USE SizeAssumption, MarkAssumption
<1>0. TypeOK /\ Threads
  BY DEF Shape
<1>1. SUFFICES ASSUME causes' = {}, NEW q \in Runs, thread'[q] = "saved"
               PROVE  Saved(q)'
  BY DEF SavedResults, Saved
<1>2. causes = {}
  BY <1>1, CausesGrow
<1>3. ASSUME thread[q] = "saved"
      PROVE  Saved(q)'
  <2>1. q \in 1..begun /\ Saved(q)
    BY <1>0, <1>2, <1>3, Begun DEF Threads, SavedResults
  <2> QED
    BY <1>1, <2>1, SavedKept
<1>4. ASSUME NEW r \in Runs, Return(r)
      PROVE  Saved(q)'
  <2>1. CASE q = r
    <3>1. id[r] \in Ids
      BY <1>0, <1>4, Begun DEF Return, Threads
    <3> QED
      BY <1>0, <1>4, <2>1, <3>1 DEF Return, Saved, TypeOK, Runs
  <2>2. CASE q # r
    BY <1>0, <1>1, <1>3, <1>4, <2>2 DEF Return, TypeOK
  <2> QED
    BY <2>1, <2>2
<1>5. ASSUME NEW r \in Runs,
             \/ Launch(r) \/ Complete(r) \/ Break(r) \/ Pushed(r) \/ Unwind(r)
             \/ Work(r) \/ Progress(r) \/ Raise(r)
      PROVE  thread[q] = "saved"
  BY <1>0, <1>1, <1>5 DEF Launch, Complete, Break, Pushed, Unwind, Work, Progress, Raise, TypeOK
<1>6. ASSUME NEW c \in Screens, Cancel(c)
      PROVE  thread[q] = "saved"
  BY <1>0, <1>1, <1>6 DEF Cancel, TypeOK
<1>7. ASSUME NEW c \in Screens,
             \/ Connect(c) \/ Deliver(c) \/ TimesOut(c) \/ Lost(c) \/ Load(c)
             \/ \E i \in Ids : Start(c, i)
      PROVE  thread[q] = "saved"
  BY <1>1, <1>7 DEF Connect, Deliver, TimesOut, Lost, Load, Start, server
<1>8. CASE UNCHANGED vars
  BY <1>1, <1>3, <1>8 DEF vars, server
<1> QED
  BY <1>3, <1>4, <1>5, <1>6, <1>7, <1>8 DEF Next

LEMMA DoneToldStep ==
    ASSUME Shape, Listed, Newest, SavedResults, DoneTold, [Next]_vars
    PROVE  DoneTold'
<1> USE SizeAssumption, MarkAssumption
<1>0. TypeOK /\ Threads /\ Entered /\ Followed /\ Bounded
  BY DEF Shape
<1>1. SUFFICES ASSUME causes' = {}, NEW c \in Screens, link'[c] # "none",
                      NEW n \in 1..Len(queue'[c]), queue'[c][n] = "done"
               PROVE  Saved(watch[c])'
  BY DEF DoneTold, Saved
<1> DEFINE Goal == Saved(watch[c])'
<1> HIDE DEF Goal
<1>2. causes = {}
  BY <1>1, CausesGrow
<1>3. ASSUME link[c] # "none", watch'[c] = watch[c], Saved(watch[c])
      PROVE  Goal
  <2>1. watch[c] \in 1..begun
    BY <1>0, <1>3 DEF Followed, TypeOK, Runs
  <2>2. \A w \in 1..begun : Saved(w) => Saved(w)'
    BY <1>1, SavedKept
  <2>3. Saved(watch[c])' = (results'[id'[watch'[c]]] \in Runs /\ results'[id'[watch'[c]]] >= watch'[c])
    BY DEF Saved
  <2>4. \A w \in 1..begun : Saved(w)' = (results'[id'[w]] \in Runs /\ results'[id'[w]] >= w)
    BY DEF Saved
  <2> QED
    BY <1>3, <2>1, <2>2, <2>3, <2>4 DEF Goal
<1>4. ASSUME link[c] # "none", watch'[c] = watch[c],
             NEW m \in 1..Len(queue[c]), queue[c][m] = "done"
      PROVE  Goal
  BY <1>2, <1>3, <1>4 DEF DoneTold
<1>5. ASSUME UNCHANGED <<link, watch, queue>>
      PROVE  Goal
  BY <1>1, <1>4, <1>5
<1>6. ASSUME NEW i, NEW messages \in Seq(Messages), messages # <<>>, Publish(i, messages),
             \A k \in 1..Len(messages) : messages[k] # "done",
             UNCHANGED <<link, watch>>
      PROVE  Goal
  <2>1. n \in 1..Len(queue[c]) /\ queue[c][n] = "done"
    BY <1>0, <1>1, <1>6, PublishEffect
  <2> QED
    BY <1>1, <1>4, <1>6, <2>1
<1>7. ASSUME NEW r \in Runs, Complete(r)
      PROVE  Goal
  <2>1. /\ UNCHANGED <<link, watch>> /\ Publish(id[r], <<"done", "after">>)
        /\ thread[r] = "saved" /\ task[r] = "waiting" /\ r \notin cancelled
    BY <1>7 DEF Complete, tabs
  <2>2. \/ n \in 1..Len(queue[c]) /\ queue[c][n] = "done"
        \/ c \in Listening(id[r])
    <3>1. <<"done", "after">> # <<>>
      OBVIOUS
    <3> QED
      BY <1>0, <1>1, <2>1, <3>1, PublishEffect, Publications
  <2>3. CASE n \in 1..Len(queue[c]) /\ queue[c][n] = "done"
    BY <1>1, <1>4, <2>1, <2>3
  <2>4. CASE c \in Listening(id[r])
    <3>1. id[watch[c]] = id[r] /\ link[c] = "open"
      BY <2>4 DEF Listening
    <3>2. watch[c] \in Runs /\ id[r] \in Ids
      BY <1>0, <2>1, <3>1, Begun DEF Followed
    <3>3. table[id[r]] = r
      BY <1>2, <2>1 DEF Listed, Underway
    <3>4. watch[c] <= r
      BY <1>0, <3>1, <3>2, <3>3 DEF Entered, Runs
    <3>5. Saved(r)
      BY <1>2, <2>1 DEF SavedResults
    <3>6. Saved(watch[c])
      BY <3>1, <3>2, <3>4, <3>5 DEF Saved, Runs
    <3> QED
      BY <1>3, <2>1, <3>1, <3>6
  <2> QED
    BY <2>2, <2>3, <2>4
<1>8. ASSUME NEW r \in Runs, Break(r) \/ Pushed(r) \/ Progress(r)
      PROVE  Goal
  <2>1. /\ UNCHANGED <<link, watch>>
        /\ \/ Publish(id[r], <<"error", "error">>) \/ Publish(id[r], <<"after">>)
           \/ Publish(id[r], <<"progress">>)
    BY <1>8 DEF Break, Pushed, Progress, tabs
  <2>2. /\ \A k \in 1..Len(<<"error", "error">>) : <<"error", "error">>[k] # "done"
        /\ \A k \in 1..Len(<<"after">>) : <<"after">>[k] # "done"
        /\ \A k \in 1..Len(<<"progress">>) : <<"progress">>[k] # "done"
        /\ <<"error", "error">> # <<>> /\ <<"after">> # <<>> /\ <<"progress">> # <<>>
    OBVIOUS
  <2> QED
    BY <1>6, <2>1, <2>2, Publications
<1>9. ASSUME NEW d \in Screens, Cancel(d)
      PROVE  Goal
  <2>1. UNCHANGED <<link, watch>> /\ Publish(id[watch[d]], <<"error">>)
    BY <1>9 DEF Cancel
  <2>2. <<"error">> # <<>> /\ \A k \in 1..Len(<<"error">>) : <<"error">>[k] # "done"
    OBVIOUS
  <2> QED
    BY <1>6, <2>1, <2>2, Publications
<1>10. ASSUME NEW r \in Runs, Launch(r) \/ Unwind(r) \/ Work(r) \/ Return(r) \/ Raise(r)
       PROVE  Goal
  BY <1>5, <1>10 DEF Launch, Unwind, Work, Return, Raise, tabs
<1>11. ASSUME NEW d \in Screens, Connect(d)
       PROVE  Goal
  <2>1. UNCHANGED <<watch, queue>> /\ link[c] # "none"
    BY <1>0, <1>1, <1>11 DEF Connect, TypeOK
  <2> QED
    BY <1>1, <1>4, <2>1
<1>12. ASSUME NEW d \in Screens, Deliver(d)
       PROVE  Goal
  <2>1. /\ watch' = watch /\ link[c] # "none" /\ queue[d] # <<>> /\ queue[d] \in Seq(Messages)
        /\ c # d => queue'[c] = queue[c]
        /\ c = d => queue'[c] = Tail(queue[c])
    BY <1>0, <1>1, <1>12 DEF Deliver, TypeOK
  <2>2. CASE c # d
    BY <1>1, <1>4, <2>1, <2>2
  <2>3. CASE c = d
    <3>1. /\ Len(Tail(queue[c])) = Len(queue[c]) - 1 /\ Len(queue[c]) \in Nat
          /\ \A m \in 1..Len(Tail(queue[c])) : Tail(queue[c])[m] = queue[c][m + 1]
      BY <2>1, <2>3, HeadTailProperties
    <3>2. n \in 1..Len(Tail(queue[c])) /\ Tail(queue[c])[n] = "done"
      BY <1>1, <2>1, <2>3
    <3>3. n + 1 \in 1..Len(queue[c])
      BY <3>1, <3>2
    <3>4. queue[c][n + 1] = "done"
      BY <3>1, <3>2
    <3> QED
      BY <1>4, <2>1, <3>3, <3>4
  <2> QED
    BY <2>2, <2>3
<1>13. ASSUME NEW d \in Screens, TimesOut(d) \/ Lost(d)
       PROVE  Goal
  <2>1. c # d /\ watch' = watch /\ link[c] # "none" /\ queue'[c] = queue[c]
    BY <1>0, <1>1, <1>13 DEF TimesOut, Lost, TypeOK
  <2> QED
    BY <1>1, <1>4, <2>1
<1>14. ASSUME NEW d \in Screens, Load(d) \/ \E i \in Ids : Start(d, i)
       PROVE  Goal
  <2>1. /\ queue'[d] = <<>>
        /\ c # d => watch'[c] = watch[c] /\ link'[c] = link[c] /\ queue'[c] = queue[c]
    BY <1>0, <1>14 DEF Load, Start, Follow, TypeOK
  <2>2. c # d
    BY <1>1, <2>1
  <2> QED
    BY <1>1, <1>4, <2>1, <2>2
<1>15. CASE UNCHANGED vars
  <2>1. Goal
    BY <1>5, <1>15 DEF vars, tabs
  <2> QED
    BY <2>1 DEF Goal
<1> QED
  BY <1>7, <1>8, <1>9, <1>10, <1>11, <1>12, <1>13, <1>14, <1>15 DEF Next, Goal

LEMMA ResultsShownStep ==
    ASSUME Shape, Newest, DoneTold, ResultsShown, [Next]_vars
    PROVE  ResultsShown'
<1> USE SizeAssumption, MarkAssumption
<1>0. TypeOK /\ Followed
  BY DEF Shape
<1>1. SUFFICES ASSUME causes' = {}, NEW c \in Screens, shown'[c] # None
               PROVE  Saved(shown[c])'
  BY DEF ResultsShown, Saved
<1> DEFINE Goal == Saved(shown[c])'
<1> HIDE DEF Goal
<1>2. causes = {}
  BY <1>1, CausesGrow
<1>3. ASSUME NEW w \in 1..begun, Saved(w), shown'[c] = w
      PROVE  Goal
  <2>1. Saved(w)'
    BY <1>1, <1>3, SavedKept
  <2>2. results'[id'[w]] \in Runs /\ results'[id'[w]] >= w
    BY <2>1 DEF Saved
  <2> QED
    BY <1>3, <2>2 DEF Goal, Saved
<1>4. ASSUME shown'[c] = shown[c]
      PROVE  Goal
  <2>1. shown[c] \in 1..begun /\ Saved(shown[c])
    BY <1>0, <1>1, <1>2, <1>4 DEF ResultsShown, Saved, TypeOK
  <2> QED
    BY <1>3, <1>4, <2>1
<1>5. ASSUME NEW d \in Screens, Deliver(d)
      PROVE  Goal
  <2>1. \/ shown'[c] = shown[c]
        \/ c = d /\ Head(queue[c]) = "done" /\ shown'[c] = watch[c]
    BY <1>0, <1>5 DEF Deliver, TypeOK
  <2>2. CASE c = d /\ Head(queue[c]) = "done" /\ shown'[c] = watch[c]
    <3>1. queue[c] # <<>> /\ queue[c] \in Seq(Messages) /\ link[c] # "none"
      BY <1>0, <1>5, <2>2 DEF Deliver, TypeOK
    <3>2. 1 \in 1..Len(queue[c]) /\ Head(queue[c]) = queue[c][1]
      BY <3>1
    <3>3. Saved(watch[c])
      BY <1>2, <2>2, <3>1, <3>2 DEF DoneTold
    <3>4. watch[c] \in 1..begun
      BY <1>0, <3>1 DEF Followed, TypeOK, Runs
    <3> QED
      BY <1>3, <2>2, <3>3, <3>4
  <2> QED
    BY <1>4, <2>1, <2>2
<1>6. ASSUME NEW d \in Screens, Load(d)
      PROVE  Goal
  <2>1. shown'[c] = shown[c]
    BY <1>0, <1>1, <1>6 DEF Load, TypeOK
  <2> QED
    BY <1>4, <2>1
<1>7. ASSUME NEW r \in Runs,
             \/ Launch(r) \/ Complete(r) \/ Break(r) \/ Pushed(r) \/ Unwind(r)
             \/ Work(r) \/ Progress(r) \/ Return(r) \/ Raise(r)
      PROVE  shown' = shown
  BY <1>7 DEF Launch, Complete, Break, Pushed, Unwind, Work, Progress, Return, Raise, tabs
<1>8. ASSUME NEW d \in Screens,
             \/ Cancel(d) \/ Connect(d) \/ TimesOut(d) \/ Lost(d)
             \/ \E i \in Ids : Start(d, i)
      PROVE  shown' = shown
  BY <1>8 DEF Cancel, Connect, TimesOut, Lost, Start
<1>9. CASE UNCHANGED vars
  <2>1. Goal
    BY <1>4, <1>9 DEF vars, tabs
  <2> QED
    BY <2>1 DEF Goal
<1> QED
  BY <1>4, <1>5, <1>6, <1>7, <1>8, <1>9 DEF Next, Goal

----------------------------------------------------------------------------
(* The theorems                                                            *)

LEMMA InitInvariant == Init => IInv
<1> SUFFICES ASSUME Init PROVE IInv
  OBVIOUS
<1>1. Shape
  BY InitShape
<1>2. Listed /\ EndWaits /\ Results
  BY DEF Init, Listed, EndWaits, Results, Newest, SavedResults, DoneTold, ResultsShown, Underway
<1> QED
  BY <1>1, <1>2 DEF IInv

LEMMA NextInvariant == IInv /\ [Next]_vars => IInv'
<1> SUFFICES ASSUME IInv, [Next]_vars PROVE IInv'
  OBVIOUS
<1>1. Shape /\ Listed /\ EndWaits /\ Newest /\ SavedResults /\ DoneTold /\ ResultsShown
  BY DEF IInv, Results
<1>2. Shape' /\ Listed' /\ EndWaits'
  BY <1>1, ShapeStep, ListedStep, EndWaitsStep
<1>3. Newest' /\ SavedResults' /\ DoneTold' /\ ResultsShown'
  BY <1>1, NewestStep, SavedResultsStep, DoneToldStep, ResultsShownStep
<1> QED
  BY <1>2, <1>3 DEF IInv, Results

\* The inductive invariant of the runs and their screens holds in every
\* reachable state.
THEOREM Invariance == Spec => []IInv
  BY InitInvariant, NextInvariant, PTL DEF Spec

\* Tasks, threads, table, files and screens keep their shapes.
THEOREM TypeCorrect == Spec => []TypeOK
<1>1. IInv => TypeOK
  BY DEF IInv, Shape
<1> QED
  BY <1>1, Invariance, PTL

\* A run that goes on uncancelled is the one listed under its id, unless the
\* clean-up of a cancelled run took the entry of its successor.
THEOREM RunsListed == Spec => []Listed
<1>1. IInv => Listed
  BY DEF IInv
<1> QED
  BY <1>1, Invariance, PTL

\* A screen that has shown a completion finds results at least as new, unless an
\* id was started again over what a cancelled run had left.
THEOREM CompletionsHaveResults == Spec => []ResultsShown
<1>1. IInv => ResultsShown
  BY DEF IInv, Results
<1> QED
  BY <1>1, Invariance, PTL

\* A listener that was in time and had room has the end of its run before it,
\* whatever becomes of the run.
THEOREM ListenersTold == Spec => []EndWaits
<1>1. IInv => EndWaits
  BY DEF IInv
<1> QED
  BY <1>1, Invariance, PTL

----------------------------------------------------------------------------
(* PriorSandbox: the parts of the invariant                                *)

\* Runs do not overlap.
Alone ==
    Spared({"overlap"}) => \A r, s \in Engaged : r = s

\* Where the scorer points at each step of a run.
PathAt(r) ==
    /\ pc[r] \in {"test", "redirect", "reload", "reinstall"} => path = Production /\ original = NoPath
    /\ pc[r] = "redirect" => first[r]
    /\ pc[r] \in {"load", "install"} => path = r /\ original = Production
    /\ pc[r] = "work" => \/ path = r /\ original = Production
                         \/ path = Production /\ original = NoPath /\ ~Spared({"unsandboxed"})

Pointed ==
    Spared({"overlap"}) =>
        /\ Engaged = {} => path = Production /\ original = NoPath
        /\ \A r \in Experiments : PathAt(r)

\* A save keeps to one path and to the counts it took; only the event loop
\* writes the production file.
Steady ==
    /\ save.at = "open" /\ save.file = Production => file[Production] = Torn
    /\ Spared({"straddled"}) =>
        /\ Unsettled => ~Busy
        /\ save.at \in {"taken", "open"} => save.counts = counts
        /\ save.at = "open" => save.file = path

\* A request that is still on its way has its run waiting.
Waited == Spared({"late"}) => \A r \in Experiments : asked[r] => pc[r] = "work"

\* Counts that an experiment has moved stay between its work and its restore.
Contained ==
    Spared({"overlap", "unsandboxed", "straddled", "late", "unreadable"}) =>
        /\ Clean
        /\ (\A r \in Experiments : pc[r] \notin {"work", "reload", "reinstall"}) => counts \cap Experiments = {}
        /\ \A r \in Experiments : pc[r] = "reinstall" => got[r] \cap Experiments = {}

\* The production file, or what replaces it in memory, has what was saved.
Kept ==
    Spared({"overlap", "straddled", "torn"}) =>
        /\ saved \subseteq InProduction
        /\ path = Production /\ (\A r \in Experiments : pc[r] \notin {"reload", "reinstall"})
             => saved \subseteq counts
        /\ \A r \in Experiments : pc[r] = "reinstall" => saved \subseteq got[r]

SandboxInv == SandboxTypeOK /\ Alone /\ Pointed /\ Steady /\ Waited /\ Contained /\ Kept

----------------------------------------------------------------------------
(* What a step records                                                     *)

\* The history of losing schedules only grows.
LEMMA Schedules ==
    ASSUME SandboxTypeOK, NextSandbox
    PROVE  exposed \subseteq exposed' /\ exposed' \subseteq Causes
<1> DEFINE Grows == exposed \subseteq exposed' /\ exposed' \subseteq Causes
<1>1. ASSUME NEW r \in Experiments, Copy(r) PROVE Grows
  BY <1>1 DEF Copy, SandboxTypeOK, Happen
<1>2. ASSUME NEW r \in Experiments, CopyFails(r) PROVE Grows
  BY <1>2 DEF CopyFails, scorer, SandboxTypeOK, Happen
<1>3. ASSUME NEW r \in Experiments, TestOriginal(r) PROVE Grows
  BY <1>3 DEF TestOriginal, SandboxTypeOK
<1>4. ASSUME NEW r \in Experiments, Redirect(r) PROVE Grows
  BY <1>4 DEF Redirect, SandboxTypeOK, Happen
<1>5. ASSUME NEW r \in Experiments, LoadCopy(r) PROVE Grows
  BY <1>5 DEF LoadCopy, Read, SandboxTypeOK
<1>6. ASSUME NEW r \in Experiments, Install(r, "install", "work") PROVE Grows
  BY <1>6 DEF Install, SandboxTypeOK
<1>7. ASSUME NEW r \in Experiments, Install(r, "reinstall", "done") PROVE Grows
  BY <1>7 DEF Install, SandboxTypeOK
<1>8. ASSUME NEW r \in Experiments, Ask(r) PROVE Grows
  BY <1>8 DEF Ask, SandboxTypeOK
<1>9. ASSUME NEW r \in Experiments, End(r) PROVE Grows
  BY <1>9 DEF End, SandboxTypeOK, Happen
<1>10. ASSUME NEW r \in Experiments, Reload(r) PROVE Grows
  BY <1>10 DEF Reload, Read, SandboxTypeOK, Happen
<1>11. ASSUME NEW r \in Experiments, Answer(r) PROVE Grows
  BY <1>11 DEF Answer, Handle, SandboxTypeOK, Happen
<1>12. ASSUME NEW v \in Verdicts, Count(v) PROVE Grows
  BY <1>12 DEF Count, Handle, SandboxTypeOK, Happen
<1>13. ASSUME Reset PROVE Grows
  BY <1>13 DEF Reset, Handle, SandboxTypeOK, Happen
<1>14. ASSUME Refresh PROVE Grows
  BY <1>14 DEF Refresh, Handle, SandboxTypeOK, Happen
<1>15. ASSUME TakeCounts PROVE Grows
  BY <1>15 DEF TakeCounts, SaveStep, SandboxTypeOK
<1>16. ASSUME OpenFile PROVE Grows
  BY <1>16 DEF OpenFile, SaveStep, SandboxTypeOK
<1>17. ASSUME WriteFile PROVE Grows
  BY <1>17 DEF WriteFile, SaveStep, SandboxTypeOK
<1>18. ASSUME OpenFails PROVE Grows
  BY <1>18 DEF OpenFails, SaveStep, SandboxTypeOK
<1>19. ASSUME WriteFails PROVE Grows
  BY <1>19 DEF WriteFails, SaveStep, SandboxTypeOK, Happen
<1>20. ASSUME Restart PROVE Grows
  BY <1>20 DEF Restart, SandboxTypeOK, Happen
<1>q. QED
  BY <1>1, <1>2, <1>3, <1>4, <1>5, <1>6, <1>7, <1>8, <1>9, <1>10, <1>11, <1>12,
     <1>13, <1>14, <1>15, <1>16, <1>17, <1>18, <1>19, <1>20
     DEF NextSandbox, RunStep, Continue, Saving

\* Every step keeps the type invariant.
LEMMA TypeStep == ASSUME SandboxTypeOK, NextSandbox PROVE SandboxTypeOK'
<1>1. ASSUME NEW r \in Experiments, Copy(r) PROVE SandboxTypeOK'
  BY <1>1, Schedules DEF Copy, Go, scorer, SandboxTypeOK, Files, Contents
<1>2. ASSUME NEW r \in Experiments, CopyFails(r) PROVE SandboxTypeOK'
  BY <1>2, Schedules DEF CopyFails, Go, scorer, SandboxTypeOK
<1>3. ASSUME NEW r \in Experiments, TestOriginal(r) PROVE SandboxTypeOK'
  BY <1>3 DEF TestOriginal, Go, scorer, SandboxTypeOK
<1>4. ASSUME NEW r \in Experiments, Redirect(r) PROVE SandboxTypeOK'
  BY <1>4, Schedules DEF Redirect, Go, SandboxTypeOK, Files
<1>5. ASSUME NEW r \in Experiments, LoadCopy(r) PROVE SandboxTypeOK'
  BY <1>5 DEF LoadCopy, Read, Go, scorer, SandboxTypeOK, Contents, Readable
<1>6. ASSUME NEW r \in Experiments, Install(r, "install", "work") PROVE SandboxTypeOK'
  BY <1>6 DEF Install, Go, SandboxTypeOK
<1>7. ASSUME NEW r \in Experiments, Install(r, "reinstall", "done") PROVE SandboxTypeOK'
  BY <1>7 DEF Install, Go, SandboxTypeOK
<1>8. ASSUME NEW r \in Experiments, Ask(r) PROVE SandboxTypeOK'
  BY <1>8 DEF Ask, scorer, SandboxTypeOK
<1>9. ASSUME NEW r \in Experiments, End(r) PROVE SandboxTypeOK'
  BY <1>9, Schedules DEF End, Go, SandboxTypeOK
<1>10. ASSUME NEW r \in Experiments, Reload(r) PROVE SandboxTypeOK'
  BY <1>10, Schedules DEF Reload, Read, Go, scorer, SandboxTypeOK, Contents, Readable
<1>11. ASSUME NEW r \in Experiments, Answer(r) PROVE SandboxTypeOK'
  BY <1>11, Schedules DEF Answer, Handle, SandboxTypeOK, Feedback, Idle
<1>12. ASSUME NEW v \in Verdicts, Count(v) PROVE SandboxTypeOK'
  BY <1>12, Schedules DEF Count, Handle, SandboxTypeOK, Feedback, Idle
<1>13. ASSUME Reset PROVE SandboxTypeOK'
  BY <1>13, Schedules DEF Reset, Handle, SandboxTypeOK, Idle
<1>14. ASSUME Refresh PROVE SandboxTypeOK'
  BY <1>14, Schedules DEF Refresh, Handle, SandboxTypeOK, Contents, Idle, Readable
<1>15. ASSUME TakeCounts PROVE SandboxTypeOK'
  BY <1>15 DEF TakeCounts, SaveStep, scorer, threads, SandboxTypeOK
<1>16. ASSUME OpenFile PROVE SandboxTypeOK'
  BY <1>16 DEF OpenFile, SaveStep, scorer, threads, SandboxTypeOK, Contents
<1>17. ASSUME WriteFile PROVE SandboxTypeOK'
  BY <1>17 DEF WriteFile, SaveStep, scorer, threads, SandboxTypeOK, Contents, Idle
<1>18. ASSUME OpenFails PROVE SandboxTypeOK'
  BY <1>18 DEF OpenFails, SaveStep, scorer, threads, SandboxTypeOK, Idle
<1>19. ASSUME WriteFails PROVE SandboxTypeOK'
  BY <1>19, Schedules DEF WriteFails, SaveStep, scorer, threads, SandboxTypeOK, Idle
<1>20. ASSUME Restart PROVE SandboxTypeOK'
  BY <1>20, Schedules, BoundAssumption
     DEF Restart, SandboxTypeOK, Files, Contents, Idle, Readable
<1>q. QED
  BY <1>1, <1>2, <1>3, <1>4, <1>5, <1>6, <1>7, <1>8, <1>9, <1>10, <1>11, <1>12,
     <1>13, <1>14, <1>15, <1>16, <1>17, <1>18, <1>19, <1>20
     DEF NextSandbox, RunStep, Continue, Saving

\* What the steps that may lose something record.
LEMMA Recorded ==
    ASSUME SandboxTypeOK, NEW r \in Experiments
    PROVE  /\ Copy(r) \/ CopyFails(r) => (Engaged # {} => "overlap" \in exposed')
           /\ CopyFails(r) => "unsandboxed" \in exposed'
           /\ Redirect(r) \/ End(r) => (Busy => "straddled" \in exposed')
           /\ End(r) => (asked[r] => "late" \in exposed')
           /\ Reload(r) => (~Readable(path) => "unreadable" \in exposed')
BY DEF SandboxTypeOK, Causes, Happen, If, Copy, CopyFails, Redirect, End, Reload

\* The same for the steps of the event loop and of the process.
LEMMA LossRecorded ==
    ASSUME SandboxTypeOK
    PROVE  /\ \A c : Handle(c) => (Unsettled => "straddled" \in exposed')
           /\ WriteFails => (save.file = Production => "torn" \in exposed')
           /\ Restart => (file[Production] = Torn => "torn" \in exposed')
BY DEF SandboxTypeOK, Causes, Happen, If, Handle, WriteFails, Restart

\* No two runs at once, unless that is on record.
LEMMA AloneStep == ASSUME SandboxTypeOK, Alone, NextSandbox PROVE Alone'
<1>1. ASSUME NEW r \in Experiments, Copy(r) PROVE Alone'
  BY <1>1, Recorded DEF Copy, Go, SandboxTypeOK, Alone, Engaged, Spared
<1>2. ASSUME NEW r \in Experiments, CopyFails(r) PROVE Alone'
  BY <1>2, Recorded DEF CopyFails, Go, SandboxTypeOK, Alone, Engaged, Spared
<1>3. ASSUME NEW r \in Experiments, TestOriginal(r) PROVE Alone'
  BY <1>3 DEF TestOriginal, Go, SandboxTypeOK, Alone, Engaged, Spared
<1>4. ASSUME NEW r \in Experiments, Redirect(r) PROVE Alone'
  BY <1>4, Schedules DEF Redirect, Go, SandboxTypeOK, Alone, Engaged, Spared
<1>5. ASSUME NEW r \in Experiments, LoadCopy(r) PROVE Alone'
  BY <1>5 DEF LoadCopy, Read, Go, SandboxTypeOK, Alone, Engaged, Spared
<1>6. ASSUME NEW r \in Experiments, Install(r, "install", "work") PROVE Alone'
  BY <1>6 DEF Install, Go, SandboxTypeOK, Alone, Engaged, Spared
<1>7. ASSUME NEW r \in Experiments, Install(r, "reinstall", "done") PROVE Alone'
  BY <1>7 DEF Install, Go, SandboxTypeOK, Alone, Engaged, Spared
<1>8. ASSUME NEW r \in Experiments, Ask(r) PROVE Alone'
  BY <1>8 DEF Ask, SandboxTypeOK, Alone, Engaged, Spared
<1>9. ASSUME NEW r \in Experiments, End(r) PROVE Alone'
  BY <1>9, Schedules DEF End, Go, SandboxTypeOK, Alone, Engaged, Spared
<1>10. ASSUME NEW r \in Experiments, Reload(r) PROVE Alone'
  BY <1>10, Schedules DEF Reload, Read, Go, SandboxTypeOK, Alone, Engaged, Spared
<1>11. ASSUME NEW r \in Experiments, Answer(r) PROVE Alone'
  BY <1>11, Schedules DEF Answer, Handle, SandboxTypeOK, Alone, Engaged, Spared
<1>12. ASSUME NEW v \in Verdicts, Count(v) PROVE Alone'
  BY <1>12, Schedules DEF Count, Handle, SandboxTypeOK, Alone, Engaged, Spared
<1>13. ASSUME Reset PROVE Alone'
  BY <1>13, Schedules DEF Reset, Handle, SandboxTypeOK, Alone, Engaged, Spared
<1>14. ASSUME Refresh PROVE Alone'
  BY <1>14, Schedules DEF Refresh, Handle, SandboxTypeOK, Alone, Engaged, Spared
<1>15. ASSUME TakeCounts PROVE Alone'
  BY <1>15 DEF TakeCounts, SaveStep, threads, SandboxTypeOK, Alone, Engaged, Spared
<1>16. ASSUME OpenFile PROVE Alone'
  BY <1>16 DEF OpenFile, SaveStep, threads, SandboxTypeOK, Alone, Engaged, Spared
<1>17. ASSUME WriteFile PROVE Alone'
  BY <1>17 DEF WriteFile, SaveStep, threads, SandboxTypeOK, Alone, Engaged, Spared
<1>18. ASSUME OpenFails PROVE Alone'
  BY <1>18 DEF OpenFails, SaveStep, threads, SandboxTypeOK, Alone, Engaged, Spared
<1>19. ASSUME WriteFails PROVE Alone'
  BY <1>19, Schedules DEF WriteFails, SaveStep, threads, SandboxTypeOK, Alone, Engaged, Spared
<1>20. ASSUME Restart PROVE Alone'
  BY <1>20 DEF Restart, SandboxTypeOK, Alone, Engaged
<1>q. QED
  BY <1>1, <1>2, <1>3, <1>4, <1>5, <1>6, <1>7, <1>8, <1>9, <1>10, <1>11, <1>12,
     <1>13, <1>14, <1>15, <1>16, <1>17, <1>18, <1>19, <1>20
     DEF NextSandbox, RunStep, Continue, Saving

\* The path follows the one run there is.
LEMMA PointedStep == ASSUME SandboxTypeOK, Alone, Pointed, NextSandbox PROVE Pointed'
<1>1. ASSUME NEW r \in Experiments, Copy(r) PROVE Pointed'
  <2> SUFFICES ASSUME Spared({"overlap"})' PROVE Pointed'
    BY DEF Pointed
  <2>1. Engaged = {} /\ Spared({"overlap"})
    BY <1>1, Schedules, Recorded DEF Spared
  <2>2. path' = Production /\ original' = NoPath
    BY <1>1, <2>1 DEF Copy, scorer, Pointed
  <2>3. pc'[r] = "test" /\ \A s \in Experiments \ {r} : pc'[s] \in {"idle", "done"}
    BY <1>1, <2>1 DEF Copy, Go, SandboxTypeOK, Engaged
  <2> QED BY <2>2, <2>3 DEF Pointed, PathAt, Engaged
<1>2. ASSUME NEW r \in Experiments, CopyFails(r) PROVE Pointed'
  BY <1>2, Schedules, Recorded
     DEF CopyFails, Go, scorer, SandboxTypeOK, Pointed, PathAt, Spared
<1>3. ASSUME NEW r \in Experiments, TestOriginal(r) PROVE Pointed'
  BY <1>3 DEF TestOriginal, Go, scorer, SandboxTypeOK, Pointed, PathAt, Spared
<1>4. ASSUME NEW r \in Experiments, Redirect(r) PROVE Pointed'
  BY <1>4, Schedules DEF Redirect, Go, SandboxTypeOK, Alone, Pointed, PathAt, Engaged, Spared
<1>5. ASSUME NEW r \in Experiments, LoadCopy(r) PROVE Pointed'
  BY <1>5 DEF LoadCopy, Read, Go, scorer, SandboxTypeOK, Pointed, PathAt, Engaged, Spared
<1>6. ASSUME NEW r \in Experiments, Install(r, "install", "work") PROVE Pointed'
  BY <1>6 DEF Install, Go, SandboxTypeOK, Pointed, PathAt, Engaged, Spared
<1>7. ASSUME NEW r \in Experiments, Install(r, "reinstall", "done") PROVE Pointed'
  BY <1>7 DEF Install, Go, SandboxTypeOK, Pointed, PathAt, Spared
<1>8. ASSUME NEW r \in Experiments, Ask(r) PROVE Pointed'
  BY <1>8 DEF Ask, scorer, SandboxTypeOK, Pointed, PathAt, Engaged, Spared
<1>9. ASSUME NEW r \in Experiments, End(r) PROVE Pointed'
  BY <1>9, Schedules, FileAssumption DEF End, Go, SandboxTypeOK, Pointed, PathAt, Spared
<1>10. ASSUME NEW r \in Experiments, Reload(r) PROVE Pointed'
  BY <1>10, Schedules DEF Reload, Read, Go, scorer, SandboxTypeOK, Pointed, PathAt, Spared
<1>11. ASSUME NEW r \in Experiments, Answer(r) PROVE Pointed'
  BY <1>11, Schedules DEF Answer, Handle, SandboxTypeOK, Pointed, PathAt, Engaged, Spared
<1>12. ASSUME NEW v \in Verdicts, Count(v) PROVE Pointed'
  BY <1>12, Schedules DEF Count, Handle, SandboxTypeOK, Pointed, PathAt, Engaged, Spared
<1>13. ASSUME Reset PROVE Pointed'
  BY <1>13, Schedules DEF Reset, Handle, SandboxTypeOK, Pointed, PathAt, Engaged, Spared
<1>14. ASSUME Refresh PROVE Pointed'
  BY <1>14, Schedules DEF Refresh, Handle, SandboxTypeOK, Pointed, PathAt, Engaged, Spared
<1>15. ASSUME TakeCounts PROVE Pointed'
  BY <1>15
     DEF TakeCounts, SaveStep, scorer, threads, SandboxTypeOK, Pointed, PathAt, Engaged,
         Spared
<1>16. ASSUME OpenFile PROVE Pointed'
  BY <1>16
     DEF OpenFile, SaveStep, scorer, threads, SandboxTypeOK, Pointed, PathAt, Engaged,
         Spared
<1>17. ASSUME WriteFile PROVE Pointed'
  BY <1>17
     DEF WriteFile, SaveStep, scorer, threads, SandboxTypeOK, Pointed, PathAt, Engaged,
         Spared
<1>18. ASSUME OpenFails PROVE Pointed'
  BY <1>18
     DEF OpenFails, SaveStep, scorer, threads, SandboxTypeOK, Pointed, PathAt, Engaged,
         Spared
<1>19. ASSUME WriteFails PROVE Pointed'
  BY <1>19, Schedules
     DEF WriteFails, SaveStep, scorer, threads, SandboxTypeOK, Pointed, PathAt, Engaged,
         Spared
<1>20. ASSUME Restart PROVE Pointed'
  BY <1>20 DEF Restart, SandboxTypeOK, Pointed, PathAt, Engaged
<1>q. QED
  BY <1>1, <1>2, <1>3, <1>4, <1>5, <1>6, <1>7, <1>8, <1>9, <1>10, <1>11, <1>12,
     <1>13, <1>14, <1>15, <1>16, <1>17, <1>18, <1>19, <1>20
     DEF NextSandbox, RunStep, Continue, Saving

\* Saves and switches of the path stay apart.
LEMMA SteadyStep == ASSUME SandboxTypeOK, Steady, NextSandbox PROVE Steady'
<1>1. ASSUME NEW r \in Experiments, Copy(r) PROVE Steady'
  BY <1>1, Schedules, FileAssumption
     DEF Copy, Go, scorer, SandboxTypeOK, Steady, Spared, Unsettled, Busy
<1>2. ASSUME NEW r \in Experiments, CopyFails(r) PROVE Steady'
  BY <1>2, Schedules DEF CopyFails, Go, scorer, SandboxTypeOK, Steady, Spared, Unsettled, Busy
<1>3. ASSUME NEW r \in Experiments, TestOriginal(r) PROVE Steady'
  BY <1>3 DEF TestOriginal, Go, scorer, SandboxTypeOK, Steady, Spared, Unsettled, Busy
<1>4. ASSUME NEW r \in Experiments, Redirect(r) PROVE Steady'
  BY <1>4, Recorded DEF Redirect, SandboxTypeOK, Steady, Spared, Busy
<1>5. ASSUME NEW r \in Experiments, LoadCopy(r) PROVE Steady'
  BY <1>5 DEF LoadCopy, Read, SandboxTypeOK, Steady, Spared, Unsettled, Busy
<1>6. ASSUME NEW r \in Experiments, Install(r, "install", "work") PROVE Steady'
  BY <1>6 DEF Install, SandboxTypeOK, Steady, Spared, Unsettled, Busy
<1>7. ASSUME NEW r \in Experiments, Install(r, "reinstall", "done") PROVE Steady'
  BY <1>7 DEF Install, SandboxTypeOK, Steady, Spared, Unsettled, Busy
<1>8. ASSUME NEW r \in Experiments, Ask(r) PROVE Steady'
  BY <1>8 DEF Ask, scorer, SandboxTypeOK, Steady, Spared, Unsettled, Busy
<1>9. ASSUME NEW r \in Experiments, End(r) PROVE Steady'
  BY <1>9, Recorded DEF End, SandboxTypeOK, Steady, Spared, Busy
<1>10. ASSUME NEW r \in Experiments, Reload(r) PROVE Steady'
  BY <1>10, Schedules DEF Reload, Read, SandboxTypeOK, Steady, Spared, Unsettled, Busy
<1>11. ASSUME NEW r \in Experiments, Answer(r) PROVE Steady'
  BY <1>11, LossRecorded DEF Answer, Handle, SandboxTypeOK, Steady, Spared, Unsettled, Idle
<1>12. ASSUME NEW v \in Verdicts, Count(v) PROVE Steady'
  BY <1>12, LossRecorded DEF Count, Handle, SandboxTypeOK, Steady, Spared, Unsettled, Idle
<1>13. ASSUME Reset PROVE Steady'
  BY <1>13, LossRecorded DEF Reset, Handle, SandboxTypeOK, Steady, Spared, Unsettled, Idle
<1>14. ASSUME Refresh PROVE Steady'
  BY <1>14, LossRecorded DEF Refresh, Handle, SandboxTypeOK, Steady, Spared, Unsettled, Idle
<1>15. ASSUME TakeCounts PROVE Steady'
  BY <1>15
     DEF TakeCounts, SaveStep, scorer, threads, SandboxTypeOK, Steady, Spared, Unsettled,
         Busy
<1>16. ASSUME OpenFile PROVE Steady'
  BY <1>16
     DEF OpenFile, SaveStep, scorer, threads, SandboxTypeOK, Steady, Spared, Unsettled,
         Busy
<1>17. ASSUME WriteFile PROVE Steady'
  BY <1>17 DEF WriteFile, SaveStep, SandboxTypeOK, Steady, Busy, Idle
<1>18. ASSUME OpenFails PROVE Steady'
  BY <1>18 DEF OpenFails, SaveStep, SandboxTypeOK, Steady, Busy, Idle
<1>19. ASSUME WriteFails PROVE Steady'
  BY <1>19 DEF WriteFails, SaveStep, SandboxTypeOK, Steady, Busy, Idle
<1>20. ASSUME Restart PROVE Steady'
  BY <1>20 DEF Restart, SandboxTypeOK, Steady, Busy, Idle
<1>q. QED
  BY <1>1, <1>2, <1>3, <1>4, <1>5, <1>6, <1>7, <1>8, <1>9, <1>10, <1>11, <1>12,
     <1>13, <1>14, <1>15, <1>16, <1>17, <1>18, <1>19, <1>20
     DEF NextSandbox, RunStep, Continue, Saving

\* A request has its run waiting.
LEMMA WaitedStep == ASSUME SandboxTypeOK, Waited, NextSandbox PROVE Waited'
<1>1. ASSUME NEW r \in Experiments, Copy(r) PROVE Waited'
  BY <1>1, Schedules DEF Copy, Go, SandboxTypeOK, Waited, Spared
<1>2. ASSUME NEW r \in Experiments, CopyFails(r) PROVE Waited'
  BY <1>2, Schedules DEF CopyFails, Go, SandboxTypeOK, Waited, Spared
<1>3. ASSUME NEW r \in Experiments, TestOriginal(r) PROVE Waited'
  BY <1>3 DEF TestOriginal, Go, SandboxTypeOK, Waited, Spared
<1>4. ASSUME NEW r \in Experiments, Redirect(r) PROVE Waited'
  BY <1>4, Schedules DEF Redirect, Go, SandboxTypeOK, Waited, Spared
<1>5. ASSUME NEW r \in Experiments, LoadCopy(r) PROVE Waited'
  BY <1>5 DEF LoadCopy, Read, Go, SandboxTypeOK, Waited, Spared
<1>6. ASSUME NEW r \in Experiments, Install(r, "install", "work") PROVE Waited'
  BY <1>6 DEF Install, Go, SandboxTypeOK, Waited, Spared
<1>7. ASSUME NEW r \in Experiments, Install(r, "reinstall", "done") PROVE Waited'
  BY <1>7 DEF Install, Go, SandboxTypeOK, Waited, Spared
<1>8. ASSUME NEW r \in Experiments, Ask(r) PROVE Waited'
  BY <1>8 DEF Ask, SandboxTypeOK, Waited, Spared
<1>9. ASSUME NEW r \in Experiments, End(r) PROVE Waited'
  BY <1>9, Schedules, Recorded DEF End, Go, SandboxTypeOK, Waited, Spared
<1>10. ASSUME NEW r \in Experiments, Reload(r) PROVE Waited'
  BY <1>10, Schedules DEF Reload, Read, Go, SandboxTypeOK, Waited, Spared
<1>11. ASSUME NEW r \in Experiments, Answer(r) PROVE Waited'
  BY <1>11, Schedules DEF Answer, Handle, SandboxTypeOK, Waited, Spared
<1>12. ASSUME NEW v \in Verdicts, Count(v) PROVE Waited'
  BY <1>12, Schedules DEF Count, Handle, SandboxTypeOK, Waited, Spared
<1>13. ASSUME Reset PROVE Waited'
  BY <1>13, Schedules DEF Reset, Handle, SandboxTypeOK, Waited, Spared
<1>14. ASSUME Refresh PROVE Waited'
  BY <1>14, Schedules DEF Refresh, Handle, SandboxTypeOK, Waited, Spared
<1>15. ASSUME TakeCounts PROVE Waited'
  BY <1>15 DEF TakeCounts, SaveStep, threads, SandboxTypeOK, Waited, Spared
<1>16. ASSUME OpenFile PROVE Waited'
  BY <1>16 DEF OpenFile, SaveStep, threads, SandboxTypeOK, Waited, Spared
<1>17. ASSUME WriteFile PROVE Waited'
  BY <1>17 DEF WriteFile, SaveStep, threads, SandboxTypeOK, Waited, Spared
<1>18. ASSUME OpenFails PROVE Waited'
  BY <1>18 DEF OpenFails, SaveStep, threads, SandboxTypeOK, Waited, Spared
<1>19. ASSUME WriteFails PROVE Waited'
  BY <1>19, Schedules DEF WriteFails, SaveStep, threads, SandboxTypeOK, Waited, Spared
<1>20. ASSUME Restart PROVE Waited'
  BY <1>20 DEF Restart, SandboxTypeOK, Waited
<1>q. QED
  BY <1>1, <1>2, <1>3, <1>4, <1>5, <1>6, <1>7, <1>8, <1>9, <1>10, <1>11, <1>12,
     <1>13, <1>14, <1>15, <1>16, <1>17, <1>18, <1>19, <1>20
     DEF NextSandbox, RunStep, Continue, Saving

\* The counts of an experiment stay in its sandbox.
LEMMA ContainedStep == ASSUME SandboxInv, NextSandbox PROVE Contained'
<1>1. ASSUME NEW r \in Experiments, Copy(r) PROVE Contained'
  BY <1>1, Schedules, FileAssumption
     DEF Copy, Go, scorer, SandboxInv, SandboxTypeOK, Contained, Clean, Spared, Readable
<1>2. ASSUME NEW r \in Experiments, CopyFails(r) PROVE Contained'
  BY <1>2, Recorded
     DEF CopyFails, scorer, SandboxInv, SandboxTypeOK, Steady, Waited, Contained, Engaged,
         Spared, Busy, Contents
<1>3. ASSUME NEW r \in Experiments, TestOriginal(r) PROVE Contained'
  BY <1>3 DEF TestOriginal, Go, scorer, SandboxInv, SandboxTypeOK, Contained, Clean, Spared, Readable
<1>4. ASSUME NEW r \in Experiments, Redirect(r) PROVE Contained'
  BY <1>4, Schedules DEF Redirect, Go, SandboxInv, SandboxTypeOK, Contained, Clean, Spared, Readable
<1>5. ASSUME NEW r \in Experiments, LoadCopy(r) PROVE Contained'
  BY <1>5 DEF LoadCopy, Read, Go, scorer, SandboxInv, SandboxTypeOK, Contained, Clean, Spared, Readable
<1>6. ASSUME NEW r \in Experiments, Install(r, "install", "work") PROVE Contained'
  BY <1>6 DEF Install, Go, SandboxInv, SandboxTypeOK, Contained, Clean, Spared, Readable
<1>7. ASSUME NEW r \in Experiments, Install(r, "reinstall", "done") PROVE Contained'
  BY <1>7 DEF Install, Go, SandboxInv, SandboxTypeOK, Contained, Clean, Spared, Readable
<1>8. ASSUME NEW r \in Experiments, Ask(r) PROVE Contained'
  BY <1>8 DEF Ask, SandboxInv, SandboxTypeOK, Contained, Clean, Spared, Readable
<1>9. ASSUME NEW r \in Experiments, End(r) PROVE Contained'
  BY <1>9, Schedules, FileAssumption
     DEF End, Go, SandboxInv, SandboxTypeOK, Pointed, PathAt, Contained, Clean, Spared,
         Readable
<1>10. ASSUME NEW r \in Experiments, Reload(r) PROVE Contained'
  <2> SUFFICES ASSUME Spared({"overlap", "unsandboxed", "straddled", "late", "unreadable"})'
               PROVE  Contained'
    BY DEF Contained
  <2>1. Spared({"overlap", "unsandboxed", "straddled", "late", "unreadable"})
    BY Schedules DEF Spared, SandboxInv
  <2>2. Readable(path) /\ path = Production
    BY <1>10, <2>1, Recorded DEF Reload, Read, SandboxInv, Pointed, PathAt, Spared
  <2>3. got' = [got EXCEPT ![r] = file[path]] /\ pc' = [pc EXCEPT ![r] = "reinstall"]
    BY <1>10, <2>2 DEF Reload, Read, Go
  <2>4. got'[r] \cap Experiments = {} /\ \A s \in Experiments \ {r} : got'[s] = got[s] /\ pc'[s] = pc[s]
    BY <2>1, <2>2, <2>3 DEF SandboxInv, SandboxTypeOK, Contained, Clean
  <2>5. Clean' /\ counts' = counts
    BY <1>10, <2>1 DEF Reload, Read, scorer, SandboxInv, Contained, Clean, Readable
  <2> QED BY <2>1, <2>3, <2>4, <2>5 DEF SandboxInv, SandboxTypeOK, Contained
<1>11. ASSUME NEW r \in Experiments, Answer(r) PROVE Contained'
  BY <1>11, Schedules
     DEF Answer, Handle, SandboxInv, SandboxTypeOK, Waited, Contained, Clean, Spared, Readable
<1>12. ASSUME NEW v \in Verdicts, Count(v) PROVE Contained'
  BY <1>12, Schedules, FeedbackAssumption
     DEF Count, Handle, SandboxInv, SandboxTypeOK, Contained, Clean, Spared, Readable
<1>13. ASSUME Reset PROVE Contained'
  BY <1>13, Schedules
     DEF Reset, Handle, SandboxInv, SandboxTypeOK, Contained, Clean, Spared, Readable
<1>14. ASSUME Refresh PROVE Contained'
  <2> SUFFICES ASSUME Spared({"overlap", "unsandboxed", "straddled", "late", "unreadable"})',
                      \A r \in Experiments : pc[r] \notin {"work", "reload", "reinstall"}
               PROVE  counts' \cap Experiments = {}
    BY <1>14, Schedules
       DEF Refresh, Handle, SandboxInv, SandboxTypeOK, Contained, Clean, Readable, Spared
  <2>1. Spared({"overlap", "unsandboxed", "straddled", "late", "unreadable"})
    BY Schedules DEF Spared, SandboxInv
  <2>2. ~Unsettled
    BY <1>14, LossRecorded DEF Refresh, SandboxInv, Spared
  <2>3. path = Production
    BY <2>1, <2>2 DEF Unsettled, SandboxInv, SandboxTypeOK, Pointed, PathAt, Engaged, Spared
  <2> QED BY <1>14, <2>1, <2>3 DEF Refresh, Handle, SandboxInv, Contained, Clean
<1>15. ASSUME TakeCounts PROVE Contained'
  BY <1>15
     DEF TakeCounts, SaveStep, scorer, threads, SandboxInv, SandboxTypeOK, Contained, Clean,
         Spared, Readable
<1>16. ASSUME OpenFile PROVE Contained'
  BY <1>16
     DEF OpenFile, SaveStep, scorer, threads, SandboxInv, SandboxTypeOK, Contained, Clean,
         Spared, Readable
<1>17. ASSUME WriteFile PROVE Contained'
  BY <1>17, FileAssumption
     DEF WriteFile, SaveStep, scorer, threads, SandboxInv, SandboxTypeOK, Pointed, PathAt,
         Steady, Contained, Clean, Spared, Unsettled, Busy, Readable
<1>18. ASSUME OpenFails PROVE Contained'
  BY <1>18
     DEF OpenFails, SaveStep, scorer, threads, SandboxInv, SandboxTypeOK, Contained, Clean,
         Spared, Readable
<1>19. ASSUME WriteFails PROVE Contained'
  BY <1>19, Schedules
     DEF WriteFails, SaveStep, scorer, threads, SandboxInv, SandboxTypeOK, Contained, Clean,
         Spared, Readable
<1>20. ASSUME Restart PROVE Contained'
  BY <1>20, Schedules DEF Restart, SandboxInv, SandboxTypeOK, Contained, Clean, Spared, Readable
<1>q. QED
  BY <1>1, <1>2, <1>3, <1>4, <1>5, <1>6, <1>7, <1>8, <1>9, <1>10, <1>11, <1>12,
     <1>13, <1>14, <1>15, <1>16, <1>17, <1>18, <1>19, <1>20
     DEF NextSandbox, RunStep, Continue, Saving

\* Saved verdicts are carried over every step.
LEMMA KeptStep == ASSUME SandboxInv, NextSandbox PROVE Kept'
<1>1. ASSUME NEW r \in Experiments, Copy(r) PROVE Kept'
  BY <1>1, Schedules, FileAssumption
     DEF Copy, Go, scorer, SandboxInv, SandboxTypeOK, Kept, InProduction, Spared, Readable
<1>2. ASSUME NEW r \in Experiments, CopyFails(r) PROVE Kept'
  BY <1>2, Schedules
     DEF CopyFails, Go, scorer, SandboxInv, SandboxTypeOK, Kept, InProduction, Spared, Readable
<1>3. ASSUME NEW r \in Experiments, TestOriginal(r) PROVE Kept'
  BY <1>3
     DEF TestOriginal, Go, scorer, SandboxInv, SandboxTypeOK, Kept, InProduction, Spared,
         Readable
<1>4. ASSUME NEW r \in Experiments, Redirect(r) PROVE Kept'
  BY <1>4, Schedules, FileAssumption
     DEF Redirect, Go, SandboxInv, SandboxTypeOK, Kept, InProduction, Spared, Readable
<1>5. ASSUME NEW r \in Experiments, LoadCopy(r) PROVE Kept'
  BY <1>5 DEF LoadCopy, Read, Go, scorer, SandboxInv, SandboxTypeOK, Kept, InProduction, Spared, Readable
<1>6. ASSUME NEW r \in Experiments, Install(r, "install", "work") PROVE Kept'
  BY <1>6, FileAssumption
     DEF Install, Go, SandboxInv, SandboxTypeOK, Pointed, PathAt, Kept, InProduction, Spared,
         Readable
<1>7. ASSUME NEW r \in Experiments, Install(r, "reinstall", "done") PROVE Kept'
  BY <1>7 DEF Install, Go, SandboxInv, SandboxTypeOK, Kept, InProduction, Spared, Readable
<1>8. ASSUME NEW r \in Experiments, Ask(r) PROVE Kept'
  BY <1>8 DEF Ask, scorer, SandboxInv, SandboxTypeOK, Kept, InProduction, Spared, Readable
<1>9. ASSUME NEW r \in Experiments, End(r) PROVE Kept'
  BY <1>9, Schedules DEF End, Go, SandboxInv, SandboxTypeOK, Kept, InProduction, Spared, Readable
<1>10. ASSUME NEW r \in Experiments, Reload(r) PROVE Kept'
  BY <1>10, Schedules
     DEF Reload, Read, Go, SandboxInv, SandboxTypeOK, Pointed, PathAt, Steady, Kept,
         InProduction, Spared, Unsettled, Busy, Readable
<1>11. ASSUME NEW r \in Experiments, Answer(r) PROVE Kept'
  BY <1>11, Schedules
     DEF Answer, Handle, SandboxInv, SandboxTypeOK, Kept, InProduction, Spared, Busy, Readable
<1>12. ASSUME NEW v \in Verdicts, Count(v) PROVE Kept'
  BY <1>12, Schedules
     DEF Count, Handle, SandboxInv, SandboxTypeOK, Kept, InProduction, Spared, Busy, Readable
<1>13. ASSUME Reset PROVE Kept'
  BY <1>13 DEF Reset, Handle, SandboxTypeOK, Kept
<1>14. ASSUME Refresh PROVE Kept'
  BY <1>14, Schedules
     DEF Refresh, Handle, SandboxInv, SandboxTypeOK, Kept, InProduction, Spared, Busy, Readable
<1>15. ASSUME TakeCounts PROVE Kept'
  BY <1>15
     DEF TakeCounts, SaveStep, scorer, threads, SandboxInv, SandboxTypeOK, Kept, InProduction,
         Spared, Readable
<1>16. ASSUME OpenFile PROVE Kept'
  BY <1>16
     DEF OpenFile, SaveStep, scorer, threads, SandboxInv, SandboxTypeOK, Steady, Kept,
         InProduction, Spared, Unsettled, Busy, Readable
<1>17. ASSUME WriteFile PROVE Kept'
  BY <1>17, ContentAssumption
     DEF WriteFile, SaveStep, scorer, threads, SandboxInv, SandboxTypeOK, Steady, Kept,
         InProduction, Spared, Unsettled, Busy, Idle, Readable, Feedback
<1>18. ASSUME OpenFails PROVE Kept'
  BY <1>18
     DEF OpenFails, SaveStep, scorer, threads, SandboxInv, SandboxTypeOK, Kept, InProduction,
         Spared, Idle, Readable
<1>19. ASSUME WriteFails PROVE Kept'
  BY <1>19, Schedules, LossRecorded
     DEF WriteFails, SaveStep, scorer, threads, SandboxInv, SandboxTypeOK, Kept, InProduction,
         Spared, Idle, Readable
<1>20. ASSUME Restart PROVE Kept'
  BY <1>20, Schedules, LossRecorded
     DEF Restart, SandboxInv, SandboxTypeOK, Steady, Kept, InProduction, Engaged, Spared, Idle,
         Readable
<1>q. QED
  BY <1>1, <1>2, <1>3, <1>4, <1>5, <1>6, <1>7, <1>8, <1>9, <1>10, <1>11, <1>12,
     <1>13, <1>14, <1>15, <1>16, <1>17, <1>18, <1>19, <1>20
     DEF NextSandbox, RunStep, Continue, Saving

----------------------------------------------------------------------------
(* The theorems                                                            *)

\* A fresh process on a first or an existing priors file is in the invariant.
LEMMA SandboxInit == InitSandbox => SandboxInv
BY FileAssumption, ContentAssumption, BoundAssumption
   DEF InitSandbox, SandboxInv, SandboxTypeOK, Alone, Pointed, PathAt, Steady, Waited, Contained, Kept, Clean,
       InProduction, Engaged, Busy, Unsettled, Spared, Idle, Readable, Files, Feedback,
       Contents, Causes

\* Nothing in the invariant depends on more than the variables.
LEMMA SandboxStutter == SandboxInv /\ UNCHANGED sandbox => SandboxInv'
BY DEF sandbox, scorer, threads, SandboxInv, SandboxTypeOK, Alone, Pointed, PathAt, Steady, Waited,
       Contained, Kept, Clean, InProduction, Engaged, Busy, Unsettled, Spared, Readable

\* The invariant holds in every state of every behaviour.
THEOREM SandboxInvariance == SpecSandbox => []SandboxInv
<1>1. SandboxInv /\ NextSandbox => SandboxInv'
  BY TypeStep, AloneStep, PointedStep, SteadyStep, WaitedStep, ContainedStep,
     KeptStep
     DEF SandboxInv
<1>2. SandboxInv /\ [NextSandbox]_sandbox => SandboxInv'
  BY <1>1, SandboxStutter
<1> QED BY <1>2, SandboxInit, PTL DEF SpecSandbox

\* The scorer always has a path, and files, counts and threads keep their shapes.
THEOREM SandboxTypeCorrect == SpecSandbox => []SandboxTypeOK
<1>1. SandboxInv => SandboxTypeOK  BY DEF SandboxInv
<1> QED BY <1>1, SandboxInvariance, PTL

\* For any number of runs and verdicts, no experiment feedback gets into the
\* production file outside the schedules on record.
THEOREM SandboxHolds == SpecSandbox => []ProductionClean
<1>1. SandboxInv => ProductionClean  BY DEF SandboxInv, Contained, ProductionClean
<1> QED BY <1>1, SandboxInvariance, PTL

\* For any number of runs and verdicts, what was saved in production stays.
THEOREM VerdictsSurvive == SpecSandbox => []SavedVerdictsSurvive
<1>1. SandboxInv => SavedVerdictsSurvive  BY DEF SandboxInv, Kept, SavedVerdictsSurvive
<1> QED BY <1>1, SandboxInvariance, PTL

\* When no run is left there is no sandbox left, unless runs overlapped.
THEOREM LiftedAtTheEnd == SpecSandbox => []SandboxLifted
<1>1. SandboxInv => SandboxLifted  BY DEF SandboxInv, Pointed, SandboxLifted
<1> QED BY <1>1, SandboxInvariance, PTL

\* When no run is left the next save takes no verdict away.
THEOREM CaughtUpAtTheEnd == SpecSandbox => []ScorerCaughtUp
<1>1. SandboxInv => ScorerCaughtUp
  BY DEF SandboxInv, Pointed, Kept, ScorerCaughtUp, Spared, Engaged
<1> QED BY <1>1, SandboxInvariance, PTL

====
