---- MODULE GraphOutbox_proofs ----
(***************************************************************************)
(* Proofs about GraphOutbox for any number of threads and intents.         *)
(*                                                                         *)
(* The inductive invariant has an unconditional part (which lines exist,   *)
(* who holds which intent, what a replayed increment has left behind) and  *)
(* a part that holds until one of the losing schedules has happened: what  *)
(* every cursor value, in the file or on its way to it, says about the     *)
(* lines it covers.                                                        *)
(***************************************************************************)
EXTENDS GraphOutbox, TLAPS

\* Lines some thread can still see, in the log or in a file it has open.
Held(l) == l \in log \/ \E t \in Threads : l \in rest[t]

----------------------------------------------------------------------------
(* The unconditional part                                                  *)

\* The process is up as a whole, and one thread at most is compacting.
Mutex ==
    /\ \A t, u \in Threads : pc[t] = "down" => pc[u] = "down"
    /\ \A t, u \in Threads : pc[t] \in Compacting /\ pc[u] \in Compacting => t = u

\* Only a pass or a compaction holds lines, only a pass an open file.
Holding ==
    \A t \in Threads :
        /\ pc[t] \notin {"replay", "ack", "rename", "keep"} => rest[t] = {}
        /\ live[t] => pc[t] \in {"replay", "ack", "rename"}

\* An intent is written by one thread and appended at most once.
Jobs ==
    /\ queued \subseteq issued
    /\ \A t \in Threads :
         /\ job[t] \in Intents => job[t] \in issued
         /\ job[t] \in Direct \cup Increments => job[t] \notin queued
         /\ pc[t] = "queue" => job[t] \in Direct \cup Increments
         /\ pc[t] = "fallback" => job[t] \in Enqueued \ queued
         /\ pc[t] \in {"idle", "down"} => job[t] = NoJob
    /\ \A t, u \in Threads : job[t] \in Intents /\ job[t] = job[u] => t = u

\* Lines carry queued intents, one line each, with numbers already given out.
Lines ==
    /\ \A l \in Line : Held(l) => l.id \in queued
    /\ \A l, m \in Line : Held(l) /\ Held(m) /\ l.id = m.id => l = m
    /\ (\A t \in Threads : pc[t] # "down") => \A l \in log : l.seq <= sequence
    /\ \A t \in Threads : live[t] \/ pc[t] = "keep" => rest[t] \subseteq log
    /\ \A l, m \in log : l.seq = m.seq => l = m
    /\ \A t \in Threads : \A l, m \in rest[t] : l.seq = m.seq => l = m

Base(i) == IF i \in counted THEN 1 ELSE 0

\* A line whose increment has been replayed has its number among the ids.
Increment ==
    /\ \A i \in Increments :
         /\ incr[i] <= Base(i) + 1
         /\ i \notin queued => incr[i] <= Base(i)
         /\ i \notin issued => incr[i] = 0 /\ i \notin counted
    /\ \A l \in Line :
         Held(l) /\ l.id \in Increments /\ incr[l.id] > Base(l.id) => l.seq \in coIds

----------------------------------------------------------------------------
(* The part that holds while nothing is exposed                            *)

\* A line no reader has to yield any more.
Done(l) == l.id \in merged \/ (wasReset /\ l.id \in Increments)

\* A cursor value n loses nothing ...
Settled(n) == \A l \in log : l.seq <= n => Done(l)

\* ... and numbers to come are above it.
Reached(n) == n = 0 \/ \E l \in log : n <= l.seq

Safe(n) == Settled(n) /\ Reached(n)

\* A pass has done what it has left behind, and new lines lie ahead of it.
Pass(t) ==
    /\ \A l \in log :
         \/ Done(l)
         \/ l \in rest[t]
         \/ ~live[t] /\ at[t] < l.seq /\ \A r \in rest[t] : r.seq < l.seq
    /\ \A r \in rest[t] : at[t] < r.seq /\ Reached(r.seq)
    /\ Reached(at[t])

\* A compaction drops finished lines, all in front of those it keeps.
Keeping(t) ==
    \A l \in log \ rest[t] : Done(l) /\ \A r \in rest[t] : l.seq < r.seq

\* Until the first reset numbers are not reused.
Numbers ==
    /\ \A n \in coIds : Reached(n)
    /\ \A l, m \in Line : Held(l) /\ Held(m) /\ l.seq = m.seq => l = m
    /\ \A l \in Line : Held(l) /\ l.seq \in coIds => Done(l)

Window ==
    /\ log = {}
    /\ \A t \in Threads : rest[t] = {} /\ pc[t] \notin {"ack", "rename"}
    /\ \A t \in Threads : pc[t] = "zeroRename" => tmp = 0
    /\ wasReset

Steady ==
    /\ Safe(cursor)
    /\ \A t \in Threads :
         /\ pc[t] = "open" => Safe(cur[t])
         /\ pc[t] \in {"replay", "ack", "rename"} => Pass(t) /\ Reached(cur[t])
         /\ pc[t] = "rename" /\ tmp # NoTmp => Safe(tmp)
         /\ pc[t] = "keep" => Keeping(t)

Kept == \A i \in queued :
    i \in merged \/ (wasReset /\ i \in Increments) \/ \E l \in log : l.id = i

KeptInv    == ~exposed => Kept
NumbersInv == ~exposed /\ ~wasReset => Numbers
WindowInv  == ~exposed /\ InReset => Window
SteadyInv  == ~exposed /\ ~InReset => Steady

Control == Mutex /\ Holding /\ Jobs
Unexposed == KeptInv /\ NumbersInv /\ WindowInv /\ SteadyInv

IInv == TypeOK /\ Control /\ Lines /\ Increment /\ Unexposed

----------------------------------------------------------------------------
(* Type correctness                                                        *)

LEMMA AppendTypes ==
    ASSUME TypeOK, NEW i \in Intents, AppendLine(i) \/ AppendFails
    PROVE  /\ DiskOK' /\ rest' \in [Threads -> SUBSET Line]
           /\ queued' \in SUBSET Intents /\ exposed' \in BOOLEAN
<1> USE DEF TypeOK, DiskOK, ThreadsOK, HistoryOK
<1> DEFINE line == [seq |-> sequence + 1, id |-> i]
<1>1. line \in Line /\ sequence + 1 \in Nat
    BY DEF Line
<1>2. CASE AppendLine(i)
    <2>1. \A u \in Threads : rest[u] \cup {line} \in SUBSET Line
        BY <1>1
    <2>2. rest' \in [Threads -> SUBSET Line] /\ log' \in SUBSET Line
        BY <1>1, <1>2, <2>1 DEF AppendLine
    <2> QED
        BY <1>1, <1>2, <2>2 DEF AppendLine
<1>3. CASE AppendFails
    BY <1>1, <1>3 DEF AppendFails
<1> QED
    BY <1>2, <1>3

LEMMA WriteTypes ==
    ASSUME TypeOK, NEW i \in Intents, WriteToGraph(i), up' = up
    PROVE  GraphOK' /\ counted' \in SUBSET Increments
<1> USE DEF TypeOK, GraphOK, HistoryOK, WriteToGraph
<1>1. merged' \in SUBSET Intents
    OBVIOUS
<1>2. incr' \in [Increments -> Nat]
    <2>1. CASE i \in Increments \ missing
        <3>1. incr[i] + 1 \in Nat
            BY <2>1
        <3> QED
            BY <2>1, <3>1
    <2>2. CASE i \notin Increments \ missing
        BY <2>2
    <2> QED
        BY <2>1, <2>2
<1>3. counted' \in SUBSET Increments
    OBVIOUS
<1> QED
    BY <1>1, <1>2, <1>3

LEMMA TypeInit == Init => TypeOK
<1> SUFFICES ASSUME Init PROVE TypeOK
    OBVIOUS
<1> USE DEF Init
<1>1. DiskOK
    BY DEF DiskOK
<1>2. ThreadsOK
    BY DEF ThreadsOK, PCs
<1>3. GraphOK
    BY DEF GraphOK
<1>4. HistoryOK
    BY DEF HistoryOK
<1> QED
    BY <1>1, <1>2, <1>3, <1>4 DEF TypeOK

LEMMA TypeNext == TypeOK /\ Jobs /\ [Next]_vars => TypeOK'
<1> SUFFICES ASSUME TypeOK /\ Jobs, [Next]_vars PROVE TypeOK'
    OBVIOUS
<1> USE DEF TypeOK, Jobs, DiskOK, ThreadsOK, GraphOK, HistoryOK,
            disk, threads, graph, history, Goto, Finish, PCs
<1>1. ASSUME NEW t \in Threads, NEW i \in Intents, Enqueue(t, i) PROVE TypeOK'
    <2>1. DiskOK' /\ rest' \in [Threads -> SUBSET Line]
          /\ queued' \in SUBSET Intents /\ exposed' \in BOOLEAN
        BY <1>1, AppendTypes DEF Enqueue
    <2>2. GraphOK' /\ HistoryOK'
        BY <1>1, <2>1 DEF Enqueue
    <2>3. ThreadsOK'
        BY <1>1, <2>1 DEF Enqueue
    <2> QED
        BY <2>1, <2>2, <2>3
<1>2. ASSUME NEW t \in Threads, NEW i \in Intents, WriteDirect(t, i) PROVE TypeOK'
    <2>1. GraphOK' /\ counted' \in SUBSET Increments
        BY <1>2, WriteTypes DEF WriteDirect
    <2> QED
        BY <1>2, <2>1 DEF WriteDirect
<1>3. ASSUME NEW t \in Threads, Replay(t) PROVE TypeOK'
    BY <1>3 DEF Replay
<1>4. ASSUME NEW t \in Threads, Fallback(t) PROVE TypeOK'
    <2>1. job[t] \in Intents
        BY <1>4 DEF Fallback, Intents
    <2>2. GraphOK' /\ counted' \in SUBSET Increments
        BY <1>4, <2>1, WriteTypes DEF Fallback
    <2> QED
        BY <1>4, <2>2 DEF Fallback
<1>5. ASSUME NEW t \in Threads, Queue(t) PROVE TypeOK'
    <2>1. job[t] \in Intents
        BY <1>5 DEF Queue, Intents
    <2>2. DiskOK' /\ rest' \in [Threads -> SUBSET Line]
          /\ queued' \in SUBSET Intents /\ exposed' \in BOOLEAN
        BY <1>5, <2>1, AppendTypes DEF Queue
    <2>3. GraphOK' /\ HistoryOK'
        BY <1>5, <2>2 DEF Queue
    <2>4. ThreadsOK'
        BY <1>5, <2>2 DEF Queue
    <2> QED
        BY <2>2, <2>3, <2>4
<1>6. ASSUME NEW t \in Threads, ReadCursor(t) PROVE TypeOK'
    BY <1>6 DEF ReadCursor
<1>7. ASSUME NEW t \in Threads, OpenLog(t) PROVE TypeOK'
    BY <1>7 DEF OpenLog
<1>8. ASSUME NEW t \in Threads, ApplyNext(t) PROVE TypeOK'
    <2>1. PICK l \in rest[t] : ApplyIntent(l) /\ at' = [at EXCEPT ![t] = l.seq]
                              /\ rest' = [rest EXCEPT ![t] = rest[t] \ {l}]
        BY <1>8 DEF ApplyNext
    <2>2. l.seq \in Nat /\ l.id \in Intents
        BY <2>1 DEF Line
    <2>3. coIds' \in SUBSET Nat
        <3>1. coIds' = coIds \/ coIds' = coIds \cup {l.seq}
            BY <2>1 DEF ApplyIntent
        <3> QED
            BY <2>2, <3>1
    <2>4. merged' \in SUBSET Intents
        BY <2>1, <2>2 DEF ApplyIntent
    <2>5. incr' \in [Increments -> Nat]
        <3>1. CASE l.id \in Increments /\ incr' = [incr EXCEPT ![l.id] = incr[l.id] + 1]
            <4>1. incr[l.id] + 1 \in Nat
                BY <3>1
            <4> QED
                BY <3>1, <4>1
        <3> QED
            BY <2>1, <3>1 DEF ApplyIntent
    <2>6. DiskOK' /\ HistoryOK' /\ GraphOK'
        BY <1>8, <2>3, <2>4, <2>5 DEF ApplyNext
    <2>7. ThreadsOK'
        BY <1>8, <2>1, <2>2 DEF ApplyNext
    <2> QED
        BY <2>6, <2>7
<1>9. ASSUME NEW t \in Threads, StopReplay(t) PROVE TypeOK'
    BY <1>9 DEF StopReplay, CloseLog, IsNext, Appliable
<1>10. ASSUME NEW t \in Threads, AckWrite(t) PROVE TypeOK'
    BY <1>10 DEF AckWrite
<1>11. ASSUME NEW t \in Threads, AckRename(t) PROVE TypeOK'
    <2>1. DiskOK' /\ GraphOK' /\ HistoryOK'
        BY <1>11 DEF AckRename, NoTmp
    <2>2. pc' \in [Threads -> PCs] /\ job' = job
        BY <1>11 DEF AckRename
    <2>3. UNCHANGED <<rest, live, cur, at>> => ThreadsOK'
        BY <2>2
    <2>4. CloseLog(t) => ThreadsOK'
        BY <2>2 DEF CloseLog
    <2>5. ThreadsOK'
        BY <1>11, <2>3, <2>4 DEF AckRename
    <2> QED
        BY <2>1, <2>5
<1>12. ASSUME NEW t \in Threads, AckRaises(t) PROVE TypeOK'
    BY <1>12 DEF AckRaises, RaiseOut, CloseLog
<1>13. ASSUME NEW t \in Threads, BelowMinBytes(t) PROVE TypeOK'
    BY <1>13 DEF BelowMinBytes
<1>14. ASSUME NEW t \in Threads, CompactRead(t) PROVE TypeOK'
    BY <1>14 DEF CompactRead, LockFree, Pending
<1>15. ASSUME NEW t \in Threads, CompactReplace(t) PROVE TypeOK'
    <2>1. DiskOK'
        <3>1. log' \in SUBSET Line /\ sequence' \in Nat
            BY <1>15 DEF CompactReplace
        <3> QED
            BY <1>15, <3>1 DEF CompactReplace
    <2>2. ThreadsOK'
        BY <1>15 DEF CompactReplace
    <2>3. HistoryOK' /\ GraphOK'
        BY <1>15 DEF CompactReplace
    <2> QED
        BY <2>1, <2>2, <2>3
<1>16. ASSUME NEW t \in Threads, ZeroWrite(t) PROVE TypeOK'
    BY <1>16 DEF ZeroWrite
<1>17. ASSUME NEW t \in Threads, ZeroRename(t) PROVE TypeOK'
    BY <1>17 DEF ZeroRename, InFlight
<1>18. ASSUME NEW t \in Threads, Start(t) PROVE TypeOK'
    BY <1>18 DEF Start, Line
<1>19. ASSUME Crash PROVE TypeOK'
    BY <1>19 DEF Crash, InReset
<1>20. ASSUME Outage PROVE TypeOK'
    BY <1>20 DEF Outage
<1>21. ASSUME Recover PROVE TypeOK'
    BY <1>21 DEF Recover
<1>22. ASSUME NEW i \in Increments, PatternsStored(i) PROVE TypeOK'
    BY <1>22 DEF PatternsStored
<1>23. ASSUME UNCHANGED vars PROVE TypeOK'
    BY <1>23 DEF vars
<1>24. ASSUME NEW t \in Threads, PassFails(t) PROVE TypeOK'
    BY <1>24 DEF PassFails, FailedWrite, RaiseOut, CloseLog
<1>25. ASSUME NEW t \in Threads, CompactFails(t) PROVE TypeOK'
    BY <1>25 DEF CompactFails
<1>26. ASSUME NEW t \in Threads, ZeroFails(t) PROVE TypeOK'
    BY <1>26 DEF ZeroFails, FailedWrite, InFlight
<1>27. ASSUME NEW t \in Threads, CursorUnreadable(t) PROVE TypeOK'
    BY <1>27 DEF CursorUnreadable
<1> QED
    BY <1>1, <1>2, <1>3, <1>4, <1>5, <1>6, <1>7, <1>8,
       <1>9, <1>10, <1>11, <1>12, <1>13, <1>14, <1>15, <1>16,
       <1>17, <1>18, <1>19, <1>20, <1>21, <1>22, <1>23, <1>24,
       <1>25, <1>26, <1>27 DEF Next, Continue

----------------------------------------------------------------------------
(* Control: who is where, and who writes which intent                      *)

LEMMA MutexNext == TypeOK /\ Mutex /\ [Next]_vars => Mutex'
<1> SUFFICES ASSUME TypeOK /\ Mutex, [Next]_vars PROVE Mutex'
    OBVIOUS
<1> USE DEF TypeOK, ThreadsOK, Mutex, Compacting, PCs,
            disk, threads, graph, history, Goto, Finish
<1>1. ASSUME NEW t \in Threads, NEW i \in Intents, Enqueue(t, i) PROVE Mutex'
    <2>1. pc[t] = "idle"
        BY <1>1 DEF Enqueue
    <2>2. pc' = [pc EXCEPT ![t] = "read"] \/ pc' = [pc EXCEPT ![t] = "fallback"]
        BY <1>1 DEF Enqueue
    <2> QED
        BY <2>1, <2>2
<1>2. ASSUME NEW t \in Threads, NEW i \in Intents, WriteDirect(t, i) PROVE Mutex'
    BY <1>2 DEF WriteDirect, WriteToGraph
<1>3. ASSUME NEW t \in Threads, Replay(t) PROVE Mutex'
    BY <1>3 DEF Replay
<1>4. ASSUME NEW t \in Threads, Fallback(t) PROVE Mutex'
    BY <1>4 DEF Fallback, WriteToGraph
<1>5. ASSUME NEW t \in Threads, Queue(t) PROVE Mutex'
    BY <1>5 DEF Queue, AppendLine, AppendFails, LockFree
<1>6. ASSUME NEW t \in Threads, ReadCursor(t) PROVE Mutex'
    BY <1>6 DEF ReadCursor
<1>7. ASSUME NEW t \in Threads, OpenLog(t) PROVE Mutex'
    BY <1>7 DEF OpenLog
<1>8. ASSUME NEW t \in Threads, ApplyNext(t) PROVE Mutex'
    BY <1>8 DEF ApplyNext, IsNext, Appliable, ApplyIntent
<1>9. ASSUME NEW t \in Threads, StopReplay(t) PROVE Mutex'
    BY <1>9 DEF StopReplay, CloseLog, IsNext, Appliable
<1>10. ASSUME NEW t \in Threads, AckWrite(t) PROVE Mutex'
    BY <1>10 DEF AckWrite
<1>11. ASSUME NEW t \in Threads, AckRename(t) PROVE Mutex'
    BY <1>11 DEF AckRename, CloseLog
<1>12. ASSUME NEW t \in Threads, AckRaises(t) PROVE Mutex'
    BY <1>12 DEF AckRaises, RaiseOut, CloseLog
<1>13. ASSUME NEW t \in Threads, BelowMinBytes(t) PROVE Mutex'
    BY <1>13 DEF BelowMinBytes
<1>14. ASSUME NEW t \in Threads, CompactRead(t) PROVE Mutex'
    BY <1>14 DEF CompactRead, LockFree, Pending
<1>15. ASSUME NEW t \in Threads, CompactReplace(t) PROVE Mutex'
    BY <1>15 DEF CompactReplace, InFlight
<1>16. ASSUME NEW t \in Threads, ZeroWrite(t) PROVE Mutex'
    BY <1>16 DEF ZeroWrite
<1>17. ASSUME NEW t \in Threads, ZeroRename(t) PROVE Mutex'
    BY <1>17 DEF ZeroRename, InFlight
<1>18. ASSUME NEW t \in Threads, Start(t) PROVE Mutex'
    BY <1>18 DEF Start
<1>19. ASSUME Crash PROVE Mutex'
    BY <1>19 DEF Crash, InReset
<1>20. ASSUME Outage PROVE Mutex'
    BY <1>20 DEF Outage
<1>21. ASSUME Recover PROVE Mutex'
    BY <1>21 DEF Recover
<1>22. ASSUME NEW i \in Increments, PatternsStored(i) PROVE Mutex'
    BY <1>22 DEF PatternsStored
<1>23. ASSUME UNCHANGED vars PROVE Mutex'
    BY <1>23 DEF vars
<1>24. ASSUME NEW t \in Threads, PassFails(t) PROVE Mutex'
    BY <1>24 DEF PassFails, FailedWrite, RaiseOut, CloseLog
<1>25. ASSUME NEW t \in Threads, CompactFails(t) PROVE Mutex'
    BY <1>25 DEF CompactFails
<1>26. ASSUME NEW t \in Threads, ZeroFails(t) PROVE Mutex'
    BY <1>26 DEF ZeroFails, FailedWrite, InFlight
<1>27. ASSUME NEW t \in Threads, CursorUnreadable(t) PROVE Mutex'
    BY <1>27 DEF CursorUnreadable
<1> QED
    BY <1>1, <1>2, <1>3, <1>4, <1>5, <1>6, <1>7, <1>8,
       <1>9, <1>10, <1>11, <1>12, <1>13, <1>14, <1>15, <1>16,
       <1>17, <1>18, <1>19, <1>20, <1>21, <1>22, <1>23, <1>24,
       <1>25, <1>26, <1>27 DEF Next, Continue

LEMMA HoldingNext == TypeOK /\ Holding /\ [Next]_vars => Holding'
<1> SUFFICES ASSUME TypeOK /\ Holding, [Next]_vars PROVE Holding'
    OBVIOUS
<1> USE DEF TypeOK, ThreadsOK, Holding,
            disk, threads, graph, history, Goto, Finish
<1>1. ASSUME NEW t \in Threads, NEW i \in Intents, Enqueue(t, i) PROVE Holding'
    <2>1. pc[t] = "idle" /\ live' = live
        BY <1>1 DEF Enqueue
    <2>2. pc' = [pc EXCEPT ![t] = "read"] \/ pc' = [pc EXCEPT ![t] = "fallback"]
        BY <1>1 DEF Enqueue
    <2>3. \A u \in Threads : ~live[u] => rest'[u] = rest[u]
        BY <1>1 DEF Enqueue, AppendLine, AppendFails
    <2> QED
        BY <2>1, <2>2, <2>3
<1>2. ASSUME NEW t \in Threads, NEW i \in Intents, WriteDirect(t, i) PROVE Holding'
    BY <1>2 DEF WriteDirect, WriteToGraph
<1>3. ASSUME NEW t \in Threads, Replay(t) PROVE Holding'
    BY <1>3 DEF Replay
<1>4. ASSUME NEW t \in Threads, Fallback(t) PROVE Holding'
    BY <1>4 DEF Fallback, WriteToGraph
<1>5. ASSUME NEW t \in Threads, Queue(t) PROVE Holding'
    <2>1. pc[t] = "queue" /\ live' = live /\ pc' = [pc EXCEPT ![t] = "idle"]
        BY <1>5 DEF Queue
    <2>2. \A u \in Threads : ~live[u] => rest'[u] = rest[u]
        BY <1>5 DEF Queue, AppendLine, AppendFails
    <2> QED
        BY <2>1, <2>2
<1>6. ASSUME NEW t \in Threads, ReadCursor(t) PROVE Holding'
    BY <1>6 DEF ReadCursor
<1>7. ASSUME NEW t \in Threads, OpenLog(t) PROVE Holding'
    BY <1>7 DEF OpenLog
<1>8. ASSUME NEW t \in Threads, ApplyNext(t) PROVE Holding'
    BY <1>8 DEF ApplyNext, IsNext, Appliable, ApplyIntent
<1>9. ASSUME NEW t \in Threads, StopReplay(t) PROVE Holding'
    BY <1>9 DEF StopReplay, CloseLog, IsNext, Appliable
<1>10. ASSUME NEW t \in Threads, AckWrite(t) PROVE Holding'
    BY <1>10 DEF AckWrite
<1>11. ASSUME NEW t \in Threads, AckRename(t) PROVE Holding'
    BY <1>11 DEF AckRename, CloseLog
<1>12. ASSUME NEW t \in Threads, AckRaises(t) PROVE Holding'
    BY <1>12 DEF AckRaises, RaiseOut, CloseLog
<1>13. ASSUME NEW t \in Threads, BelowMinBytes(t) PROVE Holding'
    BY <1>13 DEF BelowMinBytes
<1>14. ASSUME NEW t \in Threads, CompactRead(t) PROVE Holding'
    BY <1>14 DEF CompactRead, LockFree, Pending
<1>15. ASSUME NEW t \in Threads, CompactReplace(t) PROVE Holding'
    BY <1>15 DEF CompactReplace, InFlight
<1>16. ASSUME NEW t \in Threads, ZeroWrite(t) PROVE Holding'
    BY <1>16 DEF ZeroWrite
<1>17. ASSUME NEW t \in Threads, ZeroRename(t) PROVE Holding'
    BY <1>17 DEF ZeroRename, InFlight
<1>18. ASSUME NEW t \in Threads, Start(t) PROVE Holding'
    BY <1>18 DEF Start
<1>19. ASSUME Crash PROVE Holding'
    BY <1>19 DEF Crash, InReset
<1>20. ASSUME Outage PROVE Holding'
    BY <1>20 DEF Outage
<1>21. ASSUME Recover PROVE Holding'
    BY <1>21 DEF Recover
<1>22. ASSUME NEW i \in Increments, PatternsStored(i) PROVE Holding'
    BY <1>22 DEF PatternsStored
<1>23. ASSUME UNCHANGED vars PROVE Holding'
    BY <1>23 DEF vars
<1>24. ASSUME NEW t \in Threads, PassFails(t) PROVE Holding'
    BY <1>24 DEF PassFails, FailedWrite, RaiseOut, CloseLog
<1>25. ASSUME NEW t \in Threads, CompactFails(t) PROVE Holding'
    BY <1>25 DEF CompactFails
<1>26. ASSUME NEW t \in Threads, ZeroFails(t) PROVE Holding'
    BY <1>26 DEF ZeroFails, FailedWrite, InFlight
<1>27. ASSUME NEW t \in Threads, CursorUnreadable(t) PROVE Holding'
    BY <1>27 DEF CursorUnreadable
<1> QED
    BY <1>1, <1>2, <1>3, <1>4, <1>5, <1>6, <1>7, <1>8,
       <1>9, <1>10, <1>11, <1>12, <1>13, <1>14, <1>15, <1>16,
       <1>17, <1>18, <1>19, <1>20, <1>21, <1>22, <1>23, <1>24,
       <1>25, <1>26, <1>27 DEF Next, Continue

LEMMA JobsNext == TypeOK /\ Mutex /\ Jobs /\ [Next]_vars => Jobs'
<1> SUFFICES ASSUME TypeOK /\ Mutex /\ Jobs, [Next]_vars PROVE Jobs'
    OBVIOUS
<1> USE DEF TypeOK, ThreadsOK, HistoryOK, Mutex, Jobs,
            disk, threads, graph, history, Goto, Finish
<1>1. ASSUME NEW t \in Threads, NEW i \in Intents, Enqueue(t, i) PROVE Jobs'
    <2>1. pc[t] = "idle" /\ i \in Enqueued \ issued /\ issued' = issued \cup {i}
          /\ job' = [job EXCEPT ![t] = i] /\ queued' \in {queued, queued \cup {i}}
        BY <1>1 DEF Enqueue, AppendLine, AppendFails
    <2>2. \/ pc' = [pc EXCEPT ![t] = "read"]
          \/ pc' = [pc EXCEPT ![t] = "fallback"] /\ queued' = queued
        BY <1>1 DEF Enqueue, AppendFails
    <2> QED
        BY <2>1, <2>2, JobAssumption, KindsAssumption DEF Intents
<1>2. ASSUME NEW t \in Threads, NEW i \in Intents, WriteDirect(t, i) PROVE Jobs'
    BY <1>2, JobAssumption, KindsAssumption DEF WriteDirect, Intents
<1>3. ASSUME NEW t \in Threads, Replay(t) PROVE Jobs'
    BY <1>3, JobAssumption, KindsAssumption DEF Replay, Intents
<1>4. ASSUME NEW t \in Threads, Fallback(t) PROVE Jobs'
    BY <1>4, JobAssumption, KindsAssumption DEF Fallback, Intents
<1>5. ASSUME NEW t \in Threads, Queue(t) PROVE Jobs'
    <2>1. pc[t] = "queue" /\ pc' = [pc EXCEPT ![t] = "idle"] /\ issued' = issued
          /\ job' = [job EXCEPT ![t] = NoJob] /\ queued' \in {queued, queued \cup {job[t]}}
        BY <1>5 DEF Queue, AppendLine, AppendFails
    <2> QED
        BY <2>1, JobAssumption, KindsAssumption DEF Intents
<1>6. ASSUME NEW t \in Threads, ReadCursor(t) PROVE Jobs'
    BY <1>6 DEF ReadCursor
<1>7. ASSUME NEW t \in Threads, OpenLog(t) PROVE Jobs'
    BY <1>7 DEF OpenLog
<1>8. ASSUME NEW t \in Threads, ApplyNext(t) PROVE Jobs'
    BY <1>8 DEF ApplyNext, IsNext, Appliable, ApplyIntent
<1>9. ASSUME NEW t \in Threads, StopReplay(t) PROVE Jobs'
    BY <1>9 DEF StopReplay, CloseLog, IsNext, Appliable
<1>10. ASSUME NEW t \in Threads, AckWrite(t) PROVE Jobs'
    BY <1>10 DEF AckWrite
<1>11. ASSUME NEW t \in Threads, AckRename(t) PROVE Jobs'
    BY <1>11 DEF AckRename, CloseLog
<1>12. ASSUME NEW t \in Threads, AckRaises(t) PROVE Jobs'
    BY <1>12, JobAssumption, KindsAssumption DEF AckRaises, RaiseOut, Intents
<1>13. ASSUME NEW t \in Threads, BelowMinBytes(t) PROVE Jobs'
    BY <1>13, JobAssumption, KindsAssumption DEF BelowMinBytes, Intents
<1>14. ASSUME NEW t \in Threads, CompactRead(t) PROVE Jobs'
    BY <1>14 DEF CompactRead, LockFree, Pending
<1>15. ASSUME NEW t \in Threads, CompactReplace(t) PROVE Jobs'
    BY <1>15, JobAssumption, KindsAssumption DEF CompactReplace, Intents
<1>16. ASSUME NEW t \in Threads, ZeroWrite(t) PROVE Jobs'
    BY <1>16 DEF ZeroWrite
<1>17. ASSUME NEW t \in Threads, ZeroRename(t) PROVE Jobs'
    BY <1>17, JobAssumption, KindsAssumption DEF ZeroRename, Intents
<1>18. ASSUME NEW t \in Threads, Start(t) PROVE Jobs'
    BY <1>18 DEF Start
<1>19. ASSUME Crash PROVE Jobs'
    BY <1>19, JobAssumption, KindsAssumption DEF Crash, Intents
<1>20. ASSUME Outage PROVE Jobs'
    BY <1>20 DEF Outage
<1>21. ASSUME Recover PROVE Jobs'
    BY <1>21 DEF Recover
<1>22. ASSUME NEW i \in Increments, PatternsStored(i) PROVE Jobs'
    BY <1>22 DEF PatternsStored
<1>23. ASSUME UNCHANGED vars PROVE Jobs'
    BY <1>23 DEF vars
<1>24. ASSUME NEW t \in Threads, PassFails(t) PROVE Jobs'
    BY <1>24, JobAssumption, KindsAssumption DEF PassFails, FailedWrite, RaiseOut, CloseLog, Intents
<1>25. ASSUME NEW t \in Threads, CompactFails(t) PROVE Jobs'
    BY <1>25, JobAssumption, KindsAssumption DEF CompactFails, Intents
<1>26. ASSUME NEW t \in Threads, ZeroFails(t) PROVE Jobs'
    BY <1>26, JobAssumption, KindsAssumption DEF ZeroFails, FailedWrite, InFlight, Intents
<1>27. ASSUME NEW t \in Threads, CursorUnreadable(t) PROVE Jobs'
    BY <1>27 DEF CursorUnreadable
<1> QED
    BY <1>1, <1>2, <1>3, <1>4, <1>5, <1>6, <1>7, <1>8,
       <1>9, <1>10, <1>11, <1>12, <1>13, <1>14, <1>15, <1>16,
       <1>17, <1>18, <1>19, <1>20, <1>21, <1>22, <1>23, <1>24,
       <1>25, <1>26, <1>27 DEF Next, Continue

----------------------------------------------------------------------------
(* Lines and replayed increments                                           *)

NewLine(line, i) ==
    /\ line \in Line /\ line.id = i /\ line.seq = sequence + 1
    /\ log' = log \cup {line}
    /\ rest' = [u \in Threads |-> IF live[u] /\ line.seq > cur[u]
                                    THEN rest[u] \cup {line} ELSE rest[u]]
    /\ queued' = queued \cup {i}

NoLine(i) ==
    /\ UNCHANGED <<log, rest>>
    /\ queued' \in {queued, queued \cup {i}}
    /\ ~exposed' => queued' = queued

\* An append adds one line with the next number, or no line at all.
LEMMA AppendEffect ==
    ASSUME TypeOK, NEW i \in Intents, AppendLine(i) \/ AppendFails
    PROVE  /\ LockFree /\ sequence' = sequence + 1 /\ UNCHANGED <<cursor, tmp>>
           /\ exposed => exposed'
           /\ NoLine(i) \/ \E line \in Line : NewLine(line, i)
<1> USE DEF TypeOK, DiskOK, HistoryOK
<1>1. CASE AppendLine(i) /\ ~torn
    <2> DEFINE line == [seq |-> sequence + 1, id |-> i]
    <2>1. line \in Line /\ line.id = i /\ line.seq = sequence + 1
        BY DEF Line
    <2>2. NewLine(line, i)
        BY <1>1, <2>1 DEF AppendLine, NewLine
    <2> QED
        BY <1>1, <2>1, <2>2 DEF AppendLine
<1>2. CASE AppendLine(i) /\ torn
    BY <1>2 DEF AppendLine, NoLine
<1>3. CASE AppendFails
    BY <1>3 DEF AppendFails, NoLine
<1> QED
    BY <1>1, <1>2, <1>3

\* The lines keep their shape whichever of the two happens.
LEMMA AppendLines ==
    ASSUME TypeOK, Lines, \A t \in Threads : pc[t] # "down",
           NEW i \in Intents, i \notin queued, sequence' = sequence + 1,
           LockFree, live' = live, \A t \in Threads : pc'[t] # "keep",
           NoLine(i) \/ \E line \in Line : NewLine(line, i)
    PROVE  Lines'
<1> USE DEF TypeOK, DiskOK, ThreadsOK, Lines, Held, LockFree, Compacting
<1>1. \A l \in log : l.seq \in Nat /\ l.seq <= sequence
    BY DEF Line
<1>2. CASE NoLine(i)
    BY <1>1, <1>2 DEF NoLine
<1>3. CASE \E line \in Line : NewLine(line, i)
    <2>1. PICK line \in Line : NewLine(line, i)
        BY <1>3
    <2>2. \A u \in Threads : rest'[u] \in {rest[u], rest[u] \cup {line}}
        BY <2>1 DEF NewLine
    <2>3. \A u \in Threads : rest'[u] # rest[u] => live[u]
        BY <2>1 DEF NewLine
    <2>4. line.id = i /\ \A l \in log : l.seq < line.seq
        BY <1>1, <2>1 DEF NewLine
    <2>5. \A l \in Line : Held(l)' => Held(l) \/ l = line
        BY <2>1, <2>2 DEF NewLine
    <2>6. log' = log \cup {line} /\ queued' = queued \cup {i} /\ line.seq = sequence + 1
        BY <2>1 DEF NewLine
    <2>7. \A l \in Line : Held(l)' => l.id \in queued'
        BY <2>4, <2>5, <2>6
    <2>8. \A l, m \in Line : Held(l)' /\ Held(m)' /\ l.id = m.id => l = m
        BY <2>4, <2>5
    <2>9. \A l \in log' : l.seq <= sequence'
        BY <1>1, <2>6
    <2>10. \A t \in Threads : live'[t] => rest'[t] \subseteq log'
        BY <2>2, <2>6
    <2>11. \A l, m \in log' : l.seq = m.seq => l = m
        BY <2>4, <2>6
    <2>12. \A t \in Threads : \A l, m \in rest'[t] : l.seq = m.seq => l = m
        <3> SUFFICES ASSUME NEW t \in Threads
                     PROVE  \A l, m \in rest'[t] : l.seq = m.seq => l = m
            OBVIOUS
        <3>1. CASE rest'[t] = rest[t]
            BY <3>1
        <3>2. CASE rest'[t] # rest[t]
            <4>1. rest[t] \subseteq log /\ rest'[t] = rest[t] \cup {line}
                BY <2>2, <2>3, <3>2
            <4> QED
                BY <1>1, <2>4, <2>6, <4>1
        <3> QED
            BY <3>1, <3>2
    <2> HIDE DEF Held
    <2> QED
        BY <2>7, <2>8, <2>9, <2>10, <2>11, <2>12
<1> QED
    BY <1>2, <1>3

LEMMA LinesNext == TypeOK /\ Mutex /\ Holding /\ Jobs /\ Lines /\ [Next]_vars => Lines'
<1> SUFFICES ASSUME TypeOK /\ Mutex /\ Holding /\ Jobs /\ Lines, [Next]_vars PROVE Lines'
    OBVIOUS
<1> USE DEF TypeOK, DiskOK, ThreadsOK, GraphOK, HistoryOK, Mutex, Holding, Jobs,
            Lines, Held, Compacting,
            disk, threads, graph, history, Goto, Finish
<1>1. ASSUME NEW t \in Threads, NEW i \in Intents, Enqueue(t, i) PROVE Lines'
    <2>1. i \notin queued /\ live' = live /\ \A u \in Threads : pc[u] # "down"
        BY <1>1 DEF Enqueue
    <2>2. /\ LockFree /\ sequence' = sequence + 1
          /\ NoLine(i) \/ \E line \in Line : NewLine(line, i)
        BY <1>1, AppendEffect DEF Enqueue
    <2>3. \A u \in Threads : pc'[u] # "keep"
        BY <1>1, <2>2 DEF Enqueue, LockFree
    <2> QED
        BY <2>1, <2>2, <2>3, AppendLines
<1>2. ASSUME NEW t \in Threads, NEW i \in Intents, WriteDirect(t, i) PROVE Lines'
    BY <1>2 DEF WriteDirect, WriteToGraph
<1>3. ASSUME NEW t \in Threads, Replay(t) PROVE Lines'
    BY <1>3 DEF Replay
<1>4. ASSUME NEW t \in Threads, Fallback(t) PROVE Lines'
    BY <1>4 DEF Fallback, WriteToGraph
<1>5. ASSUME NEW t \in Threads, Queue(t) PROVE Lines'
    <2>1. /\ job[t] \in Intents /\ job[t] \notin queued /\ live' = live
          /\ \A u \in Threads : pc[u] # "down"
        BY <1>5 DEF Queue, Intents
    <2>2. /\ LockFree /\ sequence' = sequence + 1
          /\ NoLine(job[t]) \/ \E line \in Line : NewLine(line, job[t])
        BY <1>5, <2>1, AppendEffect DEF Queue
    <2>3. \A u \in Threads : pc'[u] # "keep"
        BY <1>5, <2>2 DEF Queue, LockFree
    <2> QED
        BY <2>1, <2>2, <2>3, AppendLines
<1>6. ASSUME NEW t \in Threads, ReadCursor(t) PROVE Lines'
    BY <1>6 DEF ReadCursor
<1>7. ASSUME NEW t \in Threads, OpenLog(t) PROVE Lines'
    BY <1>7 DEF OpenLog
<1>8. ASSUME NEW t \in Threads, ApplyNext(t) PROVE Lines'
    BY <1>8 DEF ApplyNext, IsNext, Appliable, ApplyIntent
<1>9. ASSUME NEW t \in Threads, StopReplay(t) PROVE Lines'
    BY <1>9 DEF StopReplay, CloseLog, IsNext, Appliable
<1>10. ASSUME NEW t \in Threads, AckWrite(t) PROVE Lines'
    BY <1>10 DEF AckWrite
<1>11. ASSUME NEW t \in Threads, AckRename(t) PROVE Lines'
    BY <1>11 DEF AckRename, CloseLog
<1>12. ASSUME NEW t \in Threads, AckRaises(t) PROVE Lines'
    BY <1>12 DEF AckRaises, RaiseOut, CloseLog
<1>13. ASSUME NEW t \in Threads, BelowMinBytes(t) PROVE Lines'
    BY <1>13 DEF BelowMinBytes
<1>14. ASSUME NEW t \in Threads, CompactRead(t) PROVE Lines'
    BY <1>14 DEF CompactRead, LockFree, Pending
<1>15. ASSUME NEW t \in Threads, CompactReplace(t) PROVE Lines'
    BY <1>15 DEF CompactReplace, InFlight
<1>16. ASSUME NEW t \in Threads, ZeroWrite(t) PROVE Lines'
    BY <1>16 DEF ZeroWrite
<1>17. ASSUME NEW t \in Threads, ZeroRename(t) PROVE Lines'
    BY <1>17 DEF ZeroRename, InFlight
<1>18. ASSUME NEW t \in Threads, Start(t) PROVE Lines'
    BY <1>18 DEF Start
<1>19. ASSUME Crash PROVE Lines'
    BY <1>19 DEF Crash, InReset
<1>20. ASSUME Outage PROVE Lines'
    BY <1>20 DEF Outage
<1>21. ASSUME Recover PROVE Lines'
    BY <1>21 DEF Recover
<1>22. ASSUME NEW i \in Increments, PatternsStored(i) PROVE Lines'
    BY <1>22 DEF PatternsStored
<1>23. ASSUME UNCHANGED vars PROVE Lines'
    BY <1>23 DEF vars
<1>24. ASSUME NEW t \in Threads, PassFails(t) PROVE Lines'
    BY <1>24 DEF PassFails, FailedWrite, RaiseOut, CloseLog
<1>25. ASSUME NEW t \in Threads, CompactFails(t) PROVE Lines'
    BY <1>25 DEF CompactFails
<1>26. ASSUME NEW t \in Threads, ZeroFails(t) PROVE Lines'
    BY <1>26 DEF ZeroFails, FailedWrite, InFlight
<1>27. ASSUME NEW t \in Threads, CursorUnreadable(t) PROVE Lines'
    BY <1>27 DEF CursorUnreadable
<1> QED
    BY <1>1, <1>2, <1>3, <1>4, <1>5, <1>6, <1>7, <1>8,
       <1>9, <1>10, <1>11, <1>12, <1>13, <1>14, <1>15, <1>16,
       <1>17, <1>18, <1>19, <1>20, <1>21, <1>22, <1>23, <1>24,
       <1>25, <1>26, <1>27 DEF Next, Continue

LEMMA IncrementNext == TypeOK /\ Mutex /\ Jobs /\ Lines /\ Increment /\ [Next]_vars => Increment'
<1> SUFFICES ASSUME TypeOK /\ Mutex /\ Jobs /\ Lines /\ Increment, [Next]_vars PROVE Increment'
    OBVIOUS
<1> USE DEF TypeOK, DiskOK, ThreadsOK, GraphOK, HistoryOK, Mutex, Jobs, Lines, Increment, Base, Held,
            disk, threads, graph, history, Goto, Finish
<1>1. ASSUME NEW t \in Threads, NEW i \in Intents, Enqueue(t, i) PROVE Increment'
    <2>1. /\ i \notin Increments /\ i \notin queued /\ issued' = issued \cup {i}
          /\ UNCHANGED <<coIds, incr, counted>>
        BY <1>1, KindsAssumption DEF Enqueue
    <2>2. /\ \A l \in Line : Held(l)' => Held(l) \/ l.id = i
          /\ queued' \in {queued, queued \cup {i}}
        BY <1>1, AppendEffect DEF Enqueue, NoLine, NewLine
    <2> HIDE DEF Held
    <2> QED
        BY <2>1, <2>2
<1>2. ASSUME NEW t \in Threads, NEW i \in Intents, WriteDirect(t, i) PROVE Increment'
    BY <1>2 DEF WriteDirect, WriteToGraph
<1>3. ASSUME NEW t \in Threads, Replay(t) PROVE Increment'
    BY <1>3 DEF Replay
<1>4. ASSUME NEW t \in Threads, Fallback(t) PROVE Increment'
    <2>1. /\ job[t] \notin Increments
          /\ UNCHANGED <<coIds, log, rest, issued, queued>>
        BY <1>4, KindsAssumption DEF Fallback, WriteToGraph
    <2>2. UNCHANGED <<incr, counted>>
        BY <1>4, <2>1 DEF Fallback, WriteToGraph
    <2> QED
        BY <2>1, <2>2
<1>5. ASSUME NEW t \in Threads, Queue(t) PROVE Increment'
    <2>1. /\ job[t] \in Intents /\ job[t] \notin queued
          /\ UNCHANGED <<coIds, incr, counted, issued>>
        BY <1>5 DEF Queue, Intents
    <2>2. /\ \A l \in Line : Held(l)' => Held(l) \/ l.id = job[t]
          /\ queued' \in {queued, queued \cup {job[t]}}
        BY <1>5, <2>1, AppendEffect DEF Queue, NoLine, NewLine
    <2> HIDE DEF Held
    <2> QED
        BY <2>1, <2>2
<1>6. ASSUME NEW t \in Threads, ReadCursor(t) PROVE Increment'
    BY <1>6 DEF ReadCursor
<1>7. ASSUME NEW t \in Threads, OpenLog(t) PROVE Increment'
    BY <1>7 DEF OpenLog
<1>8. ASSUME NEW t \in Threads, ApplyNext(t) PROVE Increment'
    BY <1>8 DEF ApplyNext, IsNext, Appliable, ApplyIntent
<1>9. ASSUME NEW t \in Threads, StopReplay(t) PROVE Increment'
    BY <1>9 DEF StopReplay, CloseLog, IsNext, Appliable
<1>10. ASSUME NEW t \in Threads, AckWrite(t) PROVE Increment'
    BY <1>10 DEF AckWrite
<1>11. ASSUME NEW t \in Threads, AckRename(t) PROVE Increment'
    BY <1>11 DEF AckRename, CloseLog
<1>12. ASSUME NEW t \in Threads, AckRaises(t) PROVE Increment'
    BY <1>12 DEF AckRaises, RaiseOut, CloseLog
<1>13. ASSUME NEW t \in Threads, BelowMinBytes(t) PROVE Increment'
    BY <1>13 DEF BelowMinBytes
<1>14. ASSUME NEW t \in Threads, CompactRead(t) PROVE Increment'
    BY <1>14 DEF CompactRead, LockFree, Pending
<1>15. ASSUME NEW t \in Threads, CompactReplace(t) PROVE Increment'
    BY <1>15 DEF CompactReplace, InFlight
<1>16. ASSUME NEW t \in Threads, ZeroWrite(t) PROVE Increment'
    BY <1>16 DEF ZeroWrite
<1>17. ASSUME NEW t \in Threads, ZeroRename(t) PROVE Increment'
    BY <1>17 DEF ZeroRename, InFlight
<1>18. ASSUME NEW t \in Threads, Start(t) PROVE Increment'
    BY <1>18 DEF Start
<1>19. ASSUME Crash PROVE Increment'
    BY <1>19 DEF Crash, InReset
<1>20. ASSUME Outage PROVE Increment'
    BY <1>20 DEF Outage
<1>21. ASSUME Recover PROVE Increment'
    BY <1>21 DEF Recover
<1>22. ASSUME NEW i \in Increments, PatternsStored(i) PROVE Increment'
    BY <1>22 DEF PatternsStored
<1>23. ASSUME UNCHANGED vars PROVE Increment'
    BY <1>23 DEF vars
<1>24. ASSUME NEW t \in Threads, PassFails(t) PROVE Increment'
    BY <1>24 DEF PassFails, FailedWrite, RaiseOut, CloseLog
<1>25. ASSUME NEW t \in Threads, CompactFails(t) PROVE Increment'
    BY <1>25 DEF CompactFails
<1>26. ASSUME NEW t \in Threads, ZeroFails(t) PROVE Increment'
    BY <1>26 DEF ZeroFails, FailedWrite, InFlight
<1>27. ASSUME NEW t \in Threads, CursorUnreadable(t) PROVE Increment'
    BY <1>27 DEF CursorUnreadable
<1> QED
    BY <1>1, <1>2, <1>3, <1>4, <1>5, <1>6, <1>7, <1>8,
       <1>9, <1>10, <1>11, <1>12, <1>13, <1>14, <1>15, <1>16,
       <1>17, <1>18, <1>19, <1>20, <1>21, <1>22, <1>23, <1>24,
       <1>25, <1>26, <1>27 DEF Next, Continue

----------------------------------------------------------------------------
(* Until something is exposed: nothing queued disappears from the log      *)
(* before it is in the graph                                               *)

LEMMA KeptAppend ==
    ASSUME NEW i \in Intents, Kept, ~exposed', UNCHANGED <<merged, wasReset>>,
           NoLine(i) \/ \E line \in Line : NewLine(line, i)
    PROVE  Kept'
<1>1. CASE NoLine(i)
    BY <1>1 DEF NoLine, Kept
<1>2. CASE \E line \in Line : NewLine(line, i)
    <2>1. PICK line \in Line : NewLine(line, i)
        BY <1>2
    <2>2. log' = log \cup {line} /\ line.id = i /\ queued' = queued \cup {i}
        BY <2>1 DEF NewLine
    <2> QED
        BY <2>2 DEF Kept
<1> QED
    BY <1>1, <1>2

LEMMA KeptNext == TypeOK /\ Control /\ Lines /\ Unexposed /\ [Next]_vars => KeptInv'
<1> SUFFICES ASSUME TypeOK /\ Control /\ Lines /\ Unexposed, [Next]_vars PROVE KeptInv'
    OBVIOUS
<1> USE DEF Unexposed, KeptInv, Kept, Done,
            disk, threads, graph, history, Goto, Finish
<1>1. ASSUME NEW t \in Threads, NEW i \in Intents, Enqueue(t, i) PROVE KeptInv'
    <2>1. SUFFICES ASSUME ~exposed' PROVE Kept'
        OBVIOUS
    <2>2. /\ NoLine(i) \/ \E line \in Line : NewLine(line, i)
          /\ ~exposed /\ UNCHANGED <<merged, wasReset>>
        BY <1>1, <2>1, AppendEffect DEF Enqueue
    <2> QED
        BY <2>1, <2>2, KeptAppend
<1>2. ASSUME NEW t \in Threads, NEW i \in Intents, WriteDirect(t, i) PROVE KeptInv'
    BY <1>2 DEF WriteDirect, WriteToGraph
<1>3. ASSUME NEW t \in Threads, Replay(t) PROVE KeptInv'
    BY <1>3 DEF Replay
<1>4. ASSUME NEW t \in Threads, Fallback(t) PROVE KeptInv'
    BY <1>4 DEF Fallback, WriteToGraph
<1>5. ASSUME NEW t \in Threads, Queue(t) PROVE KeptInv'
    <2>1. SUFFICES ASSUME ~exposed' PROVE Kept'
        OBVIOUS
    <2>2. job[t] \in Intents
        BY <1>5 DEF Control, Jobs, Queue, Intents
    <2>3. /\ NoLine(job[t]) \/ \E line \in Line : NewLine(line, job[t])
          /\ ~exposed /\ UNCHANGED <<merged, wasReset>>
        BY <1>5, <2>1, <2>2, AppendEffect DEF Queue
    <2> QED
        BY <2>1, <2>2, <2>3, KeptAppend
<1>6. ASSUME NEW t \in Threads, ReadCursor(t) PROVE KeptInv'
    BY <1>6 DEF ReadCursor
<1>7. ASSUME NEW t \in Threads, OpenLog(t) PROVE KeptInv'
    BY <1>7 DEF OpenLog
<1>8. ASSUME NEW t \in Threads, ApplyNext(t) PROVE KeptInv'
    BY <1>8 DEF ApplyNext, IsNext, Appliable, ApplyIntent
<1>9. ASSUME NEW t \in Threads, StopReplay(t) PROVE KeptInv'
    BY <1>9 DEF StopReplay, CloseLog, IsNext, Appliable
<1>10. ASSUME NEW t \in Threads, AckWrite(t) PROVE KeptInv'
    BY <1>10 DEF AckWrite
<1>11. ASSUME NEW t \in Threads, AckRename(t) PROVE KeptInv'
    BY <1>11 DEF AckRename, CloseLog
<1>12. ASSUME NEW t \in Threads, AckRaises(t) PROVE KeptInv'
    BY <1>12 DEF AckRaises, RaiseOut, CloseLog
<1>13. ASSUME NEW t \in Threads, BelowMinBytes(t) PROVE KeptInv'
    BY <1>13 DEF BelowMinBytes
<1>14. ASSUME NEW t \in Threads, CompactRead(t) PROVE KeptInv'
    BY <1>14 DEF CompactRead, LockFree, Pending
<1>15. ASSUME NEW t \in Threads, CompactReplace(t) PROVE KeptInv'
    <2>1. SUFFICES ASSUME ~exposed' PROVE Kept'
        OBVIOUS
    <2>2. ~exposed /\ ~InReset
        BY <1>15, <2>1 DEF CompactReplace, InReset, Compacting, Control, Mutex
    <2>3. Kept /\ \A l \in log \ rest[t] : Done(l)
        BY <1>15, <2>2 DEF CompactReplace, SteadyInv, Steady, Keeping
    <2>4. /\ log' = rest[t] /\ UNCHANGED <<queued, merged>>
          /\ wasReset => wasReset'
        BY <1>15 DEF CompactReplace
    <2> QED
        BY <2>3, <2>4
<1>16. ASSUME NEW t \in Threads, ZeroWrite(t) PROVE KeptInv'
    BY <1>16 DEF ZeroWrite
<1>17. ASSUME NEW t \in Threads, ZeroRename(t) PROVE KeptInv'
    BY <1>17 DEF ZeroRename, InFlight
<1>18. ASSUME NEW t \in Threads, Start(t) PROVE KeptInv'
    BY <1>18 DEF Start
<1>19. ASSUME Crash PROVE KeptInv'
    BY <1>19 DEF Crash, InReset
<1>20. ASSUME Outage PROVE KeptInv'
    BY <1>20 DEF Outage
<1>21. ASSUME Recover PROVE KeptInv'
    BY <1>21 DEF Recover
<1>22. ASSUME NEW i \in Increments, PatternsStored(i) PROVE KeptInv'
    BY <1>22 DEF PatternsStored
<1>23. ASSUME UNCHANGED vars PROVE KeptInv'
    BY <1>23 DEF vars
<1>24. ASSUME NEW t \in Threads, PassFails(t) PROVE KeptInv'
    BY <1>24 DEF PassFails, FailedWrite, RaiseOut, CloseLog
<1>25. ASSUME NEW t \in Threads, CompactFails(t) PROVE KeptInv'
    BY <1>25 DEF CompactFails
<1>26. ASSUME NEW t \in Threads, ZeroFails(t) PROVE KeptInv'
    BY <1>26 DEF ZeroFails, FailedWrite, InFlight
<1>27. ASSUME NEW t \in Threads, CursorUnreadable(t) PROVE KeptInv'
    BY <1>27 DEF CursorUnreadable
<1> QED
    BY <1>1, <1>2, <1>3, <1>4, <1>5, <1>6, <1>7, <1>8,
       <1>9, <1>10, <1>11, <1>12, <1>13, <1>14, <1>15, <1>16,
       <1>17, <1>18, <1>19, <1>20, <1>21, <1>22, <1>23, <1>24,
       <1>25, <1>26, <1>27 DEF Next, Continue

(* Inside a reset the log is empty and nobody acknowledges anything        *)

LEMMA WindowNext == TypeOK /\ Control /\ Lines /\ Unexposed /\ [Next]_vars => WindowInv'
<1> SUFFICES ASSUME TypeOK /\ Control /\ Lines /\ Unexposed, [Next]_vars PROVE WindowInv'
    OBVIOUS
<1> USE DEF TypeOK, DiskOK, ThreadsOK, GraphOK, HistoryOK, Control, Mutex, Holding,
            Unexposed, WindowInv, Window, InReset, Compacting, InFlight,
            disk, threads, graph, history, Goto, Finish
<1>1. ASSUME NEW t \in Threads, NEW i \in Intents, Enqueue(t, i) PROVE WindowInv'
    BY <1>1, AppendEffect DEF Enqueue, LockFree
<1>2. ASSUME NEW t \in Threads, NEW i \in Intents, WriteDirect(t, i) PROVE WindowInv'
    BY <1>2 DEF WriteDirect, WriteToGraph
<1>3. ASSUME NEW t \in Threads, Replay(t) PROVE WindowInv'
    BY <1>3 DEF Replay
<1>4. ASSUME NEW t \in Threads, Fallback(t) PROVE WindowInv'
    BY <1>4 DEF Fallback, WriteToGraph
<1>5. ASSUME NEW t \in Threads, Queue(t) PROVE WindowInv'
    <2>1. job[t] \in Intents
        BY <1>5 DEF Control, Jobs, Queue, Intents
    <2> QED
        BY <1>5, <2>1, AppendEffect DEF Queue, LockFree
<1>6. ASSUME NEW t \in Threads, ReadCursor(t) PROVE WindowInv'
    BY <1>6 DEF ReadCursor
<1>7. ASSUME NEW t \in Threads, OpenLog(t) PROVE WindowInv'
    BY <1>7 DEF OpenLog
<1>8. ASSUME NEW t \in Threads, ApplyNext(t) PROVE WindowInv'
    BY <1>8 DEF ApplyNext, IsNext, Appliable, ApplyIntent
<1>9. ASSUME NEW t \in Threads, StopReplay(t) PROVE WindowInv'
    BY <1>9 DEF StopReplay, CloseLog, IsNext, Appliable
<1>10. ASSUME NEW t \in Threads, AckWrite(t) PROVE WindowInv'
    BY <1>10 DEF AckWrite
<1>11. ASSUME NEW t \in Threads, AckRename(t) PROVE WindowInv'
    BY <1>11 DEF AckRename, CloseLog
<1>12. ASSUME NEW t \in Threads, AckRaises(t) PROVE WindowInv'
    BY <1>12 DEF AckRaises, RaiseOut, CloseLog
<1>13. ASSUME NEW t \in Threads, BelowMinBytes(t) PROVE WindowInv'
    BY <1>13 DEF BelowMinBytes
<1>14. ASSUME NEW t \in Threads, CompactRead(t) PROVE WindowInv'
    BY <1>14 DEF CompactRead, LockFree, Pending
<1>15. ASSUME NEW t \in Threads, CompactReplace(t) PROVE WindowInv'
    <2>1. SUFFICES ASSUME ~exposed', InReset' PROVE Window'
        OBVIOUS
    <2>2. rest[t] = {}
        BY <1>15, <2>1 DEF CompactReplace
    <2>3. \A u \in Threads : ~InFlight(u)
        BY <1>15, <2>1, <2>2 DEF CompactReplace
    <2>4. \A u \in Threads \ {t} : rest[u] = {}
        BY <1>15, <2>3 DEF CompactReplace
    <2> QED
        BY <1>15, <2>2, <2>3, <2>4 DEF CompactReplace
<1>16. ASSUME NEW t \in Threads, ZeroWrite(t) PROVE WindowInv'
    BY <1>16 DEF ZeroWrite
<1>17. ASSUME NEW t \in Threads, ZeroRename(t) PROVE WindowInv'
    BY <1>17 DEF ZeroRename, InFlight
<1>18. ASSUME NEW t \in Threads, Start(t) PROVE WindowInv'
    BY <1>18 DEF Start
<1>19. ASSUME Crash PROVE WindowInv'
    BY <1>19 DEF Crash, InReset
<1>20. ASSUME Outage PROVE WindowInv'
    BY <1>20 DEF Outage
<1>21. ASSUME Recover PROVE WindowInv'
    BY <1>21 DEF Recover
<1>22. ASSUME NEW i \in Increments, PatternsStored(i) PROVE WindowInv'
    BY <1>22 DEF PatternsStored
<1>23. ASSUME UNCHANGED vars PROVE WindowInv'
    BY <1>23 DEF vars
<1>24. ASSUME NEW t \in Threads, PassFails(t) PROVE WindowInv'
    BY <1>24 DEF PassFails, FailedWrite, RaiseOut, CloseLog
<1>25. ASSUME NEW t \in Threads, CompactFails(t) PROVE WindowInv'
    BY <1>25 DEF CompactFails
<1>26. ASSUME NEW t \in Threads, ZeroFails(t) PROVE WindowInv'
    BY <1>26 DEF ZeroFails, FailedWrite, InFlight
<1>27. ASSUME NEW t \in Threads, CursorUnreadable(t) PROVE WindowInv'
    BY <1>27 DEF CursorUnreadable
<1> QED
    BY <1>1, <1>2, <1>3, <1>4, <1>5, <1>6, <1>7, <1>8,
       <1>9, <1>10, <1>11, <1>12, <1>13, <1>14, <1>15, <1>16,
       <1>17, <1>18, <1>19, <1>20, <1>21, <1>22, <1>23, <1>24,
       <1>25, <1>26, <1>27 DEF Next, Continue

(* Until the first reset no number is given out twice                      *)

LEMMA ReachedBound ==
    ASSUME TypeOK, Lines, \A t \in Threads : pc[t] # "down",
           NEW n \in Nat, Reached(n)
    PROVE  n <= sequence
<1>1. \A l \in log : l.seq \in Nat /\ l.seq <= sequence
    BY DEF TypeOK, DiskOK, Line, Lines
<1> QED
    BY <1>1 DEF Reached, TypeOK, DiskOK

\* Every line some thread can see has a number already given out.
LEMMA HeldBound ==
    ASSUME TypeOK, Lines, Holding, Steady, LockFree,
           \A t \in Threads : pc[t] # "down", NEW l \in Line, Held(l)
    PROVE  l.seq <= sequence
<1>1. CASE l \in log
    BY <1>1 DEF Lines
<1>2. CASE \E t \in Threads : l \in rest[t]
    <2>1. PICK t \in Threads : l \in rest[t]
        BY <1>2
    <2>2. pc[t] \in {"replay", "ack", "rename"}
        BY <2>1 DEF Holding, LockFree, Compacting
    <2>3. Reached(l.seq) /\ l.seq \in Nat
        BY <2>1, <2>2 DEF Steady, Pass, Line
    <2> QED
        BY <2>3, ReachedBound
<1> QED
    BY <1>1, <1>2 DEF Held

LEMMA AppendNumbers ==
    ASSUME TypeOK, Lines, Holding, Steady, LockFree, Numbers,
           \A t \in Threads : pc[t] # "down", ~exposed',
           UNCHANGED <<merged, wasReset, coIds>>,
           NEW i \in Intents, NoLine(i) \/ \E line \in Line : NewLine(line, i)
    PROVE  Numbers'
<1>1. CASE NoLine(i)
    BY <1>1 DEF NoLine, Numbers, Held, Reached, Done
<1>2. CASE \E line \in Line : NewLine(line, i)
    <2>1. PICK line \in Line : NewLine(line, i)
        BY <1>2
    <2>2. log' = log \cup {line} /\ line.seq = sequence + 1
        BY <2>1 DEF NewLine
    <2>3. \A u \in Threads : rest'[u] \in {rest[u], rest[u] \cup {line}}
        BY <2>1 DEF NewLine
    <2>4. \A l \in Line : Held(l)' => Held(l) \/ l = line
        BY <2>2, <2>3 DEF Held
    <2>5. \A l \in Line : Held(l) => l.seq # line.seq
        BY <2>2, HeldBound DEF Line, TypeOK, DiskOK
    <2>6. \A n \in coIds : n # line.seq
        BY <2>2, ReachedBound DEF Numbers, TypeOK, DiskOK, GraphOK
    <2>7. \A n \in coIds' : Reached(n)'
        BY <2>2 DEF Numbers, Reached
    <2>8. \A l, m \in Line : Held(l)' /\ Held(m)' /\ l.seq = m.seq => l = m
        BY <2>4, <2>5 DEF Numbers
    <2>9. \A l \in Line : Held(l)' /\ l.seq \in coIds' => Done(l)'
        BY <2>4, <2>6 DEF Numbers, Done
    <2> QED
        BY <2>7, <2>8, <2>9 DEF Numbers
<1> QED
    BY <1>1, <1>2

LEMMA NumbersNext == TypeOK /\ Control /\ Lines /\ Unexposed /\ [Next]_vars => NumbersInv'
<1> SUFFICES ASSUME TypeOK /\ Control /\ Lines /\ Unexposed, [Next]_vars PROVE NumbersInv'
    OBVIOUS
<1> USE DEF TypeOK, DiskOK, ThreadsOK, GraphOK, HistoryOK, Control, Mutex, Holding,
            Lines, Unexposed, NumbersInv, Numbers, WindowInv, Window, InReset, Compacting,
            Held, Done, Reached, disk, threads, graph, history, Goto, Finish
<1>1. ASSUME NEW t \in Threads, NEW i \in Intents, Enqueue(t, i) PROVE NumbersInv'
    <2> HIDE DEF TypeOK, Holding, Lines, Numbers, Held, Done, Reached
    <2>1. SUFFICES ASSUME ~exposed', ~wasReset' PROVE Numbers'
        OBVIOUS
    <2>2. /\ NoLine(i) \/ \E line \in Line : NewLine(line, i)
          /\ ~exposed /\ LockFree /\ UNCHANGED <<merged, wasReset, coIds>>
        BY <1>1, <2>1, AppendEffect DEF Enqueue
    <2>3. Steady /\ Numbers /\ \A u \in Threads : pc[u] # "down"
        BY <1>1, <2>1, <2>2 DEF Enqueue, LockFree, SteadyInv
    <2> QED
        BY <2>1, <2>2, <2>3, AppendNumbers
<1>2. ASSUME NEW t \in Threads, NEW i \in Intents, WriteDirect(t, i) PROVE NumbersInv'
    <2>1. /\ UNCHANGED <<log, rest, coIds, wasReset, exposed>>
          /\ \A j \in merged : j \in merged'
        BY <1>2 DEF WriteDirect, WriteToGraph
    <2> QED
        BY <2>1
<1>3. ASSUME NEW t \in Threads, Replay(t) PROVE NumbersInv'
    BY <1>3 DEF Replay
<1>4. ASSUME NEW t \in Threads, Fallback(t) PROVE NumbersInv'
    <2>1. /\ UNCHANGED <<log, rest, coIds, wasReset, exposed>>
          /\ \A j \in merged : j \in merged'
        BY <1>4 DEF Fallback, WriteToGraph
    <2> QED
        BY <2>1
<1>5. ASSUME NEW t \in Threads, Queue(t) PROVE NumbersInv'
    <2> HIDE DEF TypeOK, Holding, Lines, Numbers, Held, Done, Reached
    <2>1. SUFFICES ASSUME ~exposed', ~wasReset' PROVE Numbers'
        OBVIOUS
    <2>2. job[t] \in Intents
        BY <1>5 DEF Jobs, Queue, Intents
    <2>3. /\ NoLine(job[t]) \/ \E line \in Line : NewLine(line, job[t])
          /\ ~exposed /\ LockFree /\ UNCHANGED <<merged, wasReset, coIds>>
        BY <1>5, <2>1, <2>2, AppendEffect DEF Queue
    <2>4. Steady /\ Numbers /\ \A u \in Threads : pc[u] # "down"
        BY <1>5, <2>1, <2>3 DEF Queue, LockFree, SteadyInv
    <2> QED
        BY <2>1, <2>2, <2>3, <2>4, AppendNumbers
<1>6. ASSUME NEW t \in Threads, ReadCursor(t) PROVE NumbersInv'
    BY <1>6 DEF ReadCursor
<1>7. ASSUME NEW t \in Threads, OpenLog(t) PROVE NumbersInv'
    BY <1>7 DEF OpenLog
<1>8. ASSUME NEW t \in Threads, ApplyNext(t) PROVE NumbersInv'
    <2>1. SUFFICES ASSUME ~exposed', ~wasReset' PROVE Numbers'
        OBVIOUS
    <2>2. PICK l \in rest[t] : /\ ApplyIntent(l)
                               /\ rest' = [rest EXCEPT ![t] = rest[t] \ {l}]
        BY <1>8 DEF ApplyNext
    <2>3. /\ pc[t] = "replay" /\ UNCHANGED <<log, exposed, wasReset>>
          /\ ~exposed /\ ~wasReset /\ l \in Line /\ l.seq \in Nat
        BY <1>8, <2>1 DEF ApplyNext, Line
    <2>4. Numbers /\ ~InReset
        BY <2>2, <2>3
    <2>5. Reached(l.seq)
        BY <2>2, <2>3, <2>4 DEF SteadyInv, Steady, Pass
    <2>6. /\ coIds' \in {coIds, coIds \cup {l.seq}}
          /\ \A j \in merged : j \in merged'
          /\ coIds' # coIds => l.id \in merged'
        BY <2>2 DEF ApplyIntent
    <2>7. \A m \in Line : Held(m)' => Held(m)
        BY <2>2, <2>3
    <2>8. \A n \in coIds' : Reached(n)'
        BY <2>3, <2>4, <2>5, <2>6
    <2>9. \A m \in Line : Held(m)' /\ m.seq \in coIds' => Done(m)'
        BY <2>2, <2>3, <2>4, <2>6, <2>7
    <2> QED
        BY <2>4, <2>7, <2>8, <2>9
<1>9. ASSUME NEW t \in Threads, StopReplay(t) PROVE NumbersInv'
    BY <1>9 DEF StopReplay, CloseLog, IsNext, Appliable
<1>10. ASSUME NEW t \in Threads, AckWrite(t) PROVE NumbersInv'
    BY <1>10 DEF AckWrite
<1>11. ASSUME NEW t \in Threads, AckRename(t) PROVE NumbersInv'
    BY <1>11 DEF AckRename, CloseLog
<1>12. ASSUME NEW t \in Threads, AckRaises(t) PROVE NumbersInv'
    BY <1>12 DEF AckRaises, RaiseOut, CloseLog
<1>13. ASSUME NEW t \in Threads, BelowMinBytes(t) PROVE NumbersInv'
    BY <1>13 DEF BelowMinBytes
<1>14. ASSUME NEW t \in Threads, CompactRead(t) PROVE NumbersInv'
    BY <1>14 DEF CompactRead, LockFree, Pending
<1>15. ASSUME NEW t \in Threads, CompactReplace(t) PROVE NumbersInv'
    <2>1. SUFFICES ASSUME ~exposed', ~wasReset' PROVE Numbers'
        OBVIOUS
    <2>2. /\ pc[t] = "keep" /\ log' = rest[t] /\ rest[t] # {} /\ rest[t] \subseteq log
          /\ rest' = [rest EXCEPT ![t] = {}] /\ UNCHANGED <<coIds, merged, exposed, wasReset>>
        BY <1>15, <2>1 DEF CompactReplace
    <2>3. Numbers /\ ~InReset
        BY <2>1, <2>2
    <2>4. \A l \in log \ rest[t] : \A r \in rest[t] : l.seq < r.seq
        BY <2>1, <2>2, <2>3 DEF SteadyInv, Steady, Keeping
    <2>5. \A l \in Line : Held(l)' => Held(l)
        BY <2>2
    <2>6. \A l \in log : \E r \in rest[t] : l.seq <= r.seq
        BY <2>2, <2>4 DEF Line
    <2>7. \A n \in coIds' : Reached(n)'
        BY <2>2, <2>3, <2>6 DEF Line
    <2> QED
        BY <2>2, <2>3, <2>5, <2>7
<1>16. ASSUME NEW t \in Threads, ZeroWrite(t) PROVE NumbersInv'
    BY <1>16 DEF ZeroWrite
<1>17. ASSUME NEW t \in Threads, ZeroRename(t) PROVE NumbersInv'
    BY <1>17 DEF ZeroRename, InFlight
<1>18. ASSUME NEW t \in Threads, Start(t) PROVE NumbersInv'
    BY <1>18 DEF Start
<1>19. ASSUME Crash PROVE NumbersInv'
    BY <1>19 DEF Crash, InReset
<1>20. ASSUME Outage PROVE NumbersInv'
    BY <1>20 DEF Outage
<1>21. ASSUME Recover PROVE NumbersInv'
    BY <1>21 DEF Recover
<1>22. ASSUME NEW i \in Increments, PatternsStored(i) PROVE NumbersInv'
    BY <1>22 DEF PatternsStored
<1>23. ASSUME UNCHANGED vars PROVE NumbersInv'
    BY <1>23 DEF vars
<1>24. ASSUME NEW t \in Threads, PassFails(t) PROVE NumbersInv'
    BY <1>24 DEF PassFails, FailedWrite, RaiseOut, CloseLog
<1>25. ASSUME NEW t \in Threads, CompactFails(t) PROVE NumbersInv'
    BY <1>25 DEF CompactFails
<1>26. ASSUME NEW t \in Threads, ZeroFails(t) PROVE NumbersInv'
    BY <1>26 DEF ZeroFails, FailedWrite, InFlight
<1>27. ASSUME NEW t \in Threads, CursorUnreadable(t) PROVE NumbersInv'
    BY <1>27 DEF CursorUnreadable
<1> QED
    BY <1>1, <1>2, <1>3, <1>4, <1>5, <1>6, <1>7, <1>8,
       <1>9, <1>10, <1>11, <1>12, <1>13, <1>14, <1>15, <1>16,
       <1>17, <1>18, <1>19, <1>20, <1>21, <1>22, <1>23, <1>24,
       <1>25, <1>26, <1>27 DEF Next, Continue

(* Until something is exposed: every cursor value on its way is safe       *)

LEMMA AppendSteady ==
    ASSUME TypeOK, Lines, Steady, \A t \in Threads : pc[t] # "down",
           UNCHANGED <<merged, wasReset, cursor, tmp, cur, at, live>>,
           NEW i \in Intents, NEW line \in Line, NewLine(line, i)
    PROVE  /\ Safe(cursor)'
           /\ \A u \in Threads :
                /\ pc[u] = "open" => Safe(cur[u])'
                /\ pc[u] \in {"replay", "ack", "rename"} => Pass(u)' /\ Reached(cur[u])'
                /\ pc[u] = "rename" /\ tmp # NoTmp => Safe(tmp)'
<1> USE DEF TypeOK, DiskOK, ThreadsOK
<1>1. log' = log \cup {line} /\ line.seq = sequence + 1
    BY DEF NewLine
<1>2. ASSUME NEW n \in Nat, Safe(n) PROVE Safe(n)'
    BY <1>1, <1>2, ReachedBound DEF Safe, Settled, Reached, Done
<1>3. ASSUME NEW n \in Nat, Reached(n) PROVE Reached(n)' /\ n < line.seq
    BY <1>1, <1>3, ReachedBound DEF Reached
<1>4. ASSUME NEW u \in Threads, Pass(u), Reached(cur[u]) PROVE Pass(u)'
    <2>1. \A r \in rest[u] : r.seq \in Nat /\ Reached(r.seq)
        BY <1>4 DEF Pass, Line
    <2>2. \A r \in rest[u] : r.seq < line.seq /\ Reached(r.seq)'
        BY <1>3, <2>1
    <2>3. at[u] < line.seq /\ Reached(at[u])' /\ cur[u] < line.seq /\ Reached(line.seq)'
        BY <1>1, <1>3, <1>4 DEF Pass, Reached, Line
    <2>4. rest'[u] = IF live[u] THEN rest[u] \cup {line} ELSE rest[u]
        BY <2>3 DEF NewLine
    <2>5. \A l \in log : Done(l) => Done(l)'
        BY DEF Done
    <2>6. CASE live[u]
        BY <1>1, <1>4, <2>2, <2>3, <2>4, <2>5, <2>6 DEF Pass
    <2>7. CASE ~live[u]
        BY <1>1, <1>4, <2>2, <2>3, <2>4, <2>5, <2>7 DEF Pass
    <2> QED
        BY <2>6, <2>7
<1>5. Safe(cursor)'
    BY <1>2 DEF Steady
<1>6. ASSUME NEW u \in Threads
      PROVE  /\ pc[u] = "open" => Safe(cur[u])'
             /\ pc[u] \in {"replay", "ack", "rename"} => Pass(u)' /\ Reached(cur[u])'
             /\ pc[u] = "rename" /\ tmp # NoTmp => Safe(tmp)'
    BY <1>2, <1>3, <1>4 DEF Steady
<1> QED
    BY <1>5, <1>6

LEMMA SteadyUnchanged ==
    ASSUME UNCHANGED <<log, rest, merged, wasReset, cursor, tmp, cur, at, live>>
    PROVE  /\ Safe(cursor) => Safe(cursor)'
           /\ \A u \in Threads :
                /\ Safe(cur[u]) => Safe(cur[u])'
                /\ Pass(u) => Pass(u)'
                /\ Reached(cur[u]) => Reached(cur[u])'
                /\ Safe(tmp) => Safe(tmp)'
BY DEF Safe, Settled, Reached, Pass, Done

LEMMA EnqueueGoto ==
    ASSUME NEW t \in Threads, NEW i \in Intents, Enqueue(t, i), ThreadsOK
    PROVE  \A u \in Threads : pc'[u] = pc[u] \/ pc'[u] \in {"read", "fallback"}
<1>1. pc' = [pc EXCEPT ![t] = "read"] \/ pc' = [pc EXCEPT ![t] = "fallback"]
    BY DEF Enqueue, Goto
<1> QED
    BY <1>1 DEF ThreadsOK

LEMMA SteadyNext == TypeOK /\ Control /\ Lines /\ Unexposed /\ [Next]_vars => SteadyInv'
<1> SUFFICES ASSUME TypeOK /\ Control /\ Lines /\ Unexposed, [Next]_vars PROVE SteadyInv'
    OBVIOUS
<1> USE DEF TypeOK, DiskOK, ThreadsOK, GraphOK, HistoryOK, Control, Mutex, Holding,
            Lines, Unexposed, WindowInv, Window, SteadyInv, Steady, Safe, Settled, Reached,
            Pass, Keeping, InReset, Compacting, InFlight, Line,
            Held, Done, disk, threads, graph, history, Goto, Finish
<1>1. ASSUME NEW t \in Threads, NEW i \in Intents, Enqueue(t, i) PROVE SteadyInv'
    <2> HIDE DEF TypeOK, Lines, Safe, Settled, Reached, Pass, Keeping, Line, Done
    <2>1. SUFFICES ASSUME ~exposed', ~InReset' PROVE Steady'
        OBVIOUS
    <2>2. /\ NoLine(i) \/ \E line \in Line : NewLine(line, i)
          /\ ~exposed /\ LockFree
          /\ UNCHANGED <<merged, wasReset, cursor, tmp, cur, at, live>>
        BY <1>1, <2>1, AppendEffect DEF Enqueue
    <2>3. Steady /\ \A u \in Threads : pc[u] # "down"
        BY <1>1, <2>1, <2>2 DEF Enqueue, LockFree
    <2>4. \A u \in Threads : pc'[u] = pc[u] \/ pc'[u] \in {"read", "fallback"}
        BY <1>1, EnqueueGoto DEF TypeOK
    <2>5. CASE NoLine(i)
        BY <2>2, <2>3, <2>4, <2>5, SteadyUnchanged DEF NoLine, LockFree
    <2>6. CASE \E line \in Line : NewLine(line, i)
        BY <2>2, <2>3, <2>4, <2>6, AppendSteady DEF LockFree
    <2> QED
        BY <2>2, <2>5, <2>6
<1>2. ASSUME NEW t \in Threads, NEW i \in Intents, WriteDirect(t, i) PROVE SteadyInv'
    BY <1>2 DEF WriteDirect, WriteToGraph
<1>3. ASSUME NEW t \in Threads, Replay(t) PROVE SteadyInv'
    BY <1>3 DEF Replay
<1>4. ASSUME NEW t \in Threads, Fallback(t) PROVE SteadyInv'
    BY <1>4 DEF Fallback, WriteToGraph
<1>5. ASSUME NEW t \in Threads, Queue(t) PROVE SteadyInv'
    <2> HIDE DEF TypeOK, Lines, Safe, Settled, Reached, Pass, Keeping, Line, Done
    <2>1. SUFFICES ASSUME ~exposed', ~InReset' PROVE Steady'
        OBVIOUS
    <2>2. job[t] \in Intents
        BY <1>5 DEF Jobs, Queue, Intents
    <2>3. /\ NoLine(job[t]) \/ \E line \in Line : NewLine(line, job[t])
          /\ ~exposed /\ LockFree
          /\ UNCHANGED <<merged, wasReset, cursor, tmp, cur, at, live>>
        BY <1>5, <2>1, <2>2, AppendEffect DEF Queue
    <2>4. Steady /\ \A u \in Threads : pc[u] # "down"
        BY <1>5, <2>1, <2>3 DEF Queue, LockFree
    <2>5. \A u \in Threads : pc'[u] = pc[u] \/ pc'[u] = "idle"
        BY <1>5 DEF Queue
    <2>6. CASE NoLine(job[t])
        BY <2>3, <2>4, <2>5, <2>6, SteadyUnchanged DEF NoLine, LockFree
    <2>7. CASE \E line \in Line : NewLine(line, job[t])
        BY <2>2, <2>3, <2>4, <2>5, <2>7, AppendSteady DEF LockFree
    <2> QED
        BY <2>3, <2>6, <2>7
<1>6. ASSUME NEW t \in Threads, ReadCursor(t) PROVE SteadyInv'
    BY <1>6 DEF ReadCursor
<1>7. ASSUME NEW t \in Threads, OpenLog(t) PROVE SteadyInv'
    BY <1>7 DEF OpenLog
<1>8. ASSUME NEW t \in Threads, ApplyNext(t) PROVE SteadyInv'
    <2>1. SUFFICES ASSUME ~exposed', ~InReset' PROVE Steady'
        OBVIOUS
    <2>2. PICK l \in rest[t] : /\ IsNext(t, l) /\ ApplyIntent(l)
                               /\ rest' = [rest EXCEPT ![t] = rest[t] \ {l}]
                               /\ at' = [at EXCEPT ![t] = l.seq]
        BY <1>8 DEF ApplyNext
    <2>3. /\ pc[t] = "replay" /\ pc' = [pc EXCEPT ![t] = "ack"]
          /\ UNCHANGED <<log, exposed, wasReset, cursor, tmp, cur, live>>
          /\ ~exposed /\ l \in Line /\ l.seq \in Nat
        BY <1>8, <2>1 DEF ApplyNext
    <2>4. Steady /\ Pass(t)
        BY <1>8, <2>1, <2>3
    <2>5. \A j \in merged : j \in merged'
        BY <2>2 DEF ApplyIntent
    <2>6. Done(l)'
        <3>1. CASE l.id \in merged'
            BY <3>1
        <3>2. CASE l.id \notin merged'
            <4>1. l.id \in Increments /\ l.seq \in coIds
                BY <2>2, <3>2 DEF ApplyIntent
            <4>2. Held(l)
                BY <2>2
            <4>3. ~wasReset => Done(l)
                BY <2>3, <4>1, <4>2 DEF NumbersInv, Numbers
            <4> QED
                BY <2>3, <2>5, <4>1, <4>3
        <3> QED
            BY <3>1, <3>2
    <2>7. \A m \in rest[t] \ {l} : l.seq < m.seq
        <3> SUFFICES ASSUME NEW m \in rest[t] \ {l} PROVE l.seq < m.seq
            OBVIOUS
        <3>1. m.seq \in Nat /\ m.seq # l.seq
            BY <2>2
        <3>2. l.seq <= m.seq
            BY <2>2 DEF IsNext
        <3>3. l.seq \in Nat
            BY <2>3
        <3> QED
            BY <3>1, <3>2, <3>3
    <2>8. Pass(t)'
        BY <2>2, <2>3, <2>4, <2>5, <2>6, <2>7
    <2>9. \A u \in Threads \ {t} : Pass(u) => Pass(u)'
        BY <2>2, <2>3, <2>5
    <2>10. \A n : Safe(n) => Safe(n)'
        BY <2>3, <2>5
    <2>11. \A n : Reached(n) => Reached(n)'
        BY <2>3
    <2>12. \A u \in Threads \ {t} : Keeping(u) => Keeping(u)'
        BY <2>2, <2>3, <2>5
    <2> HIDE DEF Pass, Safe, Keeping, Reached
    <2> QED
        BY <2>3, <2>4, <2>8, <2>9, <2>10, <2>11, <2>12
<1>9. ASSUME NEW t \in Threads, StopReplay(t) PROVE SteadyInv'
    BY <1>9 DEF StopReplay, CloseLog, IsNext, Appliable
<1>10. ASSUME NEW t \in Threads, AckWrite(t) PROVE SteadyInv'
    BY <1>10 DEF AckWrite
<1>11. ASSUME NEW t \in Threads, AckRename(t) PROVE SteadyInv'
    BY <1>11 DEF AckRename, CloseLog
<1>12. ASSUME NEW t \in Threads, AckRaises(t) PROVE SteadyInv'
    BY <1>12 DEF AckRaises, RaiseOut, CloseLog
<1>13. ASSUME NEW t \in Threads, BelowMinBytes(t) PROVE SteadyInv'
    BY <1>13 DEF BelowMinBytes
<1>14. ASSUME NEW t \in Threads, CompactRead(t) PROVE SteadyInv'
    BY <1>14 DEF CompactRead, LockFree, Pending
<1>15. ASSUME NEW t \in Threads, CompactReplace(t) PROVE SteadyInv'
    BY <1>15 DEF CompactReplace, InFlight
<1>16. ASSUME NEW t \in Threads, ZeroWrite(t) PROVE SteadyInv'
    BY <1>16 DEF ZeroWrite
<1>17. ASSUME NEW t \in Threads, ZeroRename(t) PROVE SteadyInv'
    <2>1. SUFFICES ASSUME ~exposed', ~InReset' PROVE Steady'
        OBVIOUS
    <2>2. pc[t] = "zeroRename" /\ pc' = [pc EXCEPT ![t] = "idle"] /\ log' = log
        BY <1>17 DEF ZeroRename
    <2>3. ~exposed /\ \A u \in Threads : ~InFlight(u)
        BY <1>17, <2>1 DEF ZeroRename
    <2>4. log = {} /\ tmp = 0
        BY <2>2, <2>3
    <2>5. cursor' = 0
        BY <1>17, <2>4 DEF ZeroRename, NoTmp
    <2>6. \A u \in Threads : pc'[u] \notin {"open", "replay", "ack", "rename", "keep"}
        BY <2>2, <2>3
    <2> QED
        BY <2>2, <2>4, <2>5, <2>6
<1>18. ASSUME NEW t \in Threads, Start(t) PROVE SteadyInv'
    BY <1>18 DEF Start
<1>19. ASSUME Crash PROVE SteadyInv'
    BY <1>19 DEF Crash, InReset
<1>20. ASSUME Outage PROVE SteadyInv'
    BY <1>20 DEF Outage
<1>21. ASSUME Recover PROVE SteadyInv'
    BY <1>21 DEF Recover
<1>22. ASSUME NEW i \in Increments, PatternsStored(i) PROVE SteadyInv'
    BY <1>22 DEF PatternsStored
<1>23. ASSUME UNCHANGED vars PROVE SteadyInv'
    BY <1>23 DEF vars
<1>24. ASSUME NEW t \in Threads, PassFails(t) PROVE SteadyInv'
    BY <1>24 DEF PassFails, FailedWrite, RaiseOut, CloseLog
<1>25. ASSUME NEW t \in Threads, CompactFails(t) PROVE SteadyInv'
    BY <1>25 DEF CompactFails
<1>26. ASSUME NEW t \in Threads, ZeroFails(t) PROVE SteadyInv'
    BY <1>26 DEF ZeroFails, FailedWrite, InFlight
<1>27. ASSUME NEW t \in Threads, CursorUnreadable(t) PROVE SteadyInv'
    BY <1>27 DEF CursorUnreadable
<1> QED
    BY <1>1, <1>2, <1>3, <1>4, <1>5, <1>6, <1>7, <1>8,
       <1>9, <1>10, <1>11, <1>12, <1>13, <1>14, <1>15, <1>16,
       <1>17, <1>18, <1>19, <1>20, <1>21, <1>22, <1>23, <1>24,
       <1>25, <1>26, <1>27 DEF Next, Continue

----------------------------------------------------------------------------
(* The results                                                             *)

LEMMA InvInit == Init => IInv
<1> SUFFICES ASSUME Init PROVE IInv
    OBVIOUS
<1>1. TypeOK
    BY TypeInit
<1>2. Control
    BY JobAssumption DEF Init, Control, Mutex, Holding, Jobs, Compacting
<1>3. Lines /\ Increment
    BY DEF Init, Lines, Increment, Held, Base
<1>4. KeptInv /\ NumbersInv
    BY DEF Init, KeptInv, Kept, NumbersInv, Numbers, Held
<1>5. WindowInv /\ SteadyInv
    BY DEF Init, WindowInv, SteadyInv, InReset, Steady, Safe, Settled, Reached
<1> QED
    BY <1>1, <1>2, <1>3, <1>4, <1>5 DEF IInv, Unexposed

LEMMA InvNext == IInv /\ [Next]_vars => IInv'
BY TypeNext, MutexNext, HoldingNext, JobsNext, LinesNext, IncrementNext,
   KeptNext, WindowNext, NumbersNext, SteadyNext
   DEF IInv, Control, Unexposed

\* The inductive invariant holds in every reachable state, for any number of
\* threads and intents and any compaction threshold.
THEOREM Invariance == Spec => []IInv
<1>1. Init => IInv
    BY InvInit
<1>2. IInv /\ [Next]_vars => IInv'
    BY InvNext
<1> QED
    BY <1>1, <1>2, PTL DEF Spec

\* IInv quantifies over all of Line, which is infinite; lines that no thread can see
\* satisfy it for nothing.  With the quantifiers over those that are held:
HeldLines == log \cup UNION {rest[t] : t \in Threads}

HeldLinesOK ==
    \A l \in HeldLines :
        /\ l.id \in queued
        /\ \A m \in HeldLines : l.id = m.id => l = m
        /\ l.id \in Increments /\ incr[l.id] > Base(l.id) => l.seq \in coIds

LogLinesOK ==
    /\ (\A t \in Threads : pc[t] # "down") => \A l \in log : l.seq <= sequence
    /\ \A t \in Threads : live[t] \/ pc[t] = "keep" => rest[t] \subseteq log
    /\ \A l, m \in log : l.seq = m.seq => l = m
    /\ \A t \in Threads : \A l, m \in rest[t] : l.seq = m.seq => l = m

NumbersOK ==
    /\ \A n \in coIds : Reached(n)
    /\ \A l, m \in HeldLines : l.seq = m.seq => l = m
    /\ \A l \in HeldLines : l.seq \in coIds => Done(l)

\* What the threads, the files and the graph know of every line is
\* consistent, and no cursor value on its way to the file covers a line that
\* is still to be replayed: the invariant from which the theorems follow.
InductiveInvariant ==
    /\ TypeOK /\ Control
    /\ HeldLinesOK /\ LogLinesOK
    /\ \A i \in Increments : incr[i] <= Base(i) + 1
    /\ KeptInv /\ WindowInv /\ SteadyInv
    /\ ~exposed /\ ~wasReset => NumbersOK

\* In every reachable state every line held by a file or a thread is consistent
\* with what the graph has, whatever the threads interleave and whenever they crash.
THEOREM LinesConsistent == Spec => []InductiveInvariant
<1>1. IInv => InductiveInvariant
    <2> SUFFICES ASSUME IInv PROVE InductiveInvariant
        OBVIOUS
    <2>1. HeldLines \subseteq Line /\ \A l \in HeldLines : Held(l)
        BY DEF IInv, TypeOK, DiskOK, ThreadsOK, HeldLines, Held
    <2>2. HeldLinesOK
        BY <2>1 DEF IInv, Lines, Increment, HeldLinesOK
    <2>3. LogLinesOK
        BY DEF IInv, Lines, LogLinesOK
    <2>4. \A i \in Increments : incr[i] <= Base(i) + 1
        BY DEF IInv, Increment
    <2>5. ~exposed /\ ~wasReset => NumbersOK
        BY <2>1 DEF IInv, Unexposed, NumbersInv, Numbers, NumbersOK
    <2> QED
        BY <2>2, <2>3, <2>4, <2>5 DEF IInv, Unexposed, InductiveInvariant
<1> QED
    BY <1>1, Invariance, PTL

\* The outbox, its threads and the graph always have the types of the code.
THEOREM TypeCorrect == Spec => []TypeOK
<1>1. IInv => TypeOK
    BY DEF IInv
<1> QED
    BY <1>1, Invariance, PTL

\* _flush_graph_write_outbox, append and compact lose no queued intent
\* unless one of the four schedules recorded in exposed has happened.
THEOREM OutboxLosesNothing == Spec => []NothingLost
<1>1. IInv => NothingLost
    <2> SUFFICES ASSUME IInv, ~exposed, NEW i \in queued
                 PROVE  \/ i \in merged
                        \/ \E l \in Pending : l.id = i
                        \/ wasReset /\ i \in Increments
        BY DEF NothingLost
    <2>1. CASE \E l \in log : l.id = i
        <3>1. PICK l \in log : l.id = i
            BY <2>1
        <3>2. ~InReset
            BY <3>1 DEF IInv, Unexposed, WindowInv, Window
        <3>3. Settled(cursor) /\ l.seq \in Nat /\ cursor \in Nat
            BY <3>2 DEF IInv, Unexposed, SteadyInv, Steady, Safe, TypeOK, DiskOK, Line
        <3>4. CASE l.seq <= cursor
            BY <3>1, <3>3, <3>4 DEF Settled, Done
        <3>5. CASE l.seq > cursor
            BY <3>1, <3>5 DEF Pending
        <3> QED
            BY <3>3, <3>4, <3>5
    <2> QED
        BY <2>1 DEF IInv, Unexposed, KeptInv, Kept
<1> QED
    BY <1>1, Invariance, PTL

\* The CoOccurrenceUpdate guard of _apply_co_occurrence_intent makes replay
\* add an increment at most once, without any assumption on the schedule.
THEOREM IncrementsReplayedOnce == Spec => []ReplayedAtMostOnce
<1>1. IInv => ReplayedAtMostOnce
    BY DEF IInv, Increment, Base, ReplayedAtMostOnce, TypeOK, GraphOK
<1> QED
    BY <1>1, Invariance, PTL

\* Racing passes of _flush_graph_write_outbox apply the log in its order.
THEOREM ReplayOrder == Spec => ReplayedInOrder
<1> DEFINE InOrder ==
      ~exposed /\ ~wasReset =>
         \A l, m \in log : FirstApplied(l.id) /\ m.seq < l.seq => m.id \in merged
<1>1. IInv /\ [Next]_vars => [InOrder]_vars
    <2> SUFFICES ASSUME IInv, [Next]_vars, ~exposed, ~wasReset,
                        NEW l \in log, NEW m \in log,
                        FirstApplied(l.id), m.seq < l.seq
                 PROVE  m.id \in merged
        OBVIOUS
    <2> USE DEF FirstApplied, graph
    <2>1. ASSUME NEW t \in Threads, ApplyNext(t) PROVE m.id \in merged
        <3>1. PICK r \in rest[t] : IsNext(t, r) /\ ApplyIntent(r)
            BY <2>1 DEF ApplyNext
        <3>2. pc[t] = "replay" /\ r \in Line /\ l \in Line /\ m \in Line
            BY <2>1 DEF ApplyNext, IInv, TypeOK, DiskOK, ThreadsOK
        <3>3. r.id = l.id
            BY <3>1 DEF ApplyIntent
        <3>4. r = l
            BY <3>1, <3>2, <3>3 DEF IInv, Lines, Held
        <3>5. ~InReset
            BY <3>1 DEF IInv, Unexposed, WindowInv, Window
        <3>6. Pass(t)
            BY <3>2, <3>5 DEF IInv, Unexposed, SteadyInv, Steady
        <3>7. l.seq \in Nat /\ m.seq \in Nat
            BY <3>2 DEF Line
        <3>8. m \notin rest[t]
            BY <3>1, <3>4, <3>7 DEF IsNext
        <3>9. ~(\A q \in rest[t] : q.seq < m.seq)
            BY <3>1, <3>4, <3>7
        <3> QED
            BY <3>6, <3>8, <3>9 DEF Pass, Done
    <2>2. ASSUME NEW t \in Threads, NEW i \in Intents, WriteDirect(t, i)
          PROVE  m.id \in merged
        BY <2>2 DEF WriteDirect, WriteToGraph, IInv, Control, Jobs
    <2>3. ASSUME NEW t \in Threads, Fallback(t) PROVE m.id \in merged
        BY <2>3 DEF Fallback, WriteToGraph, IInv, Control, Jobs
    <2>4. CASE merged' = merged
        BY <2>4
    <2> QED
        BY <2>1, <2>2, <2>3, <2>4
        DEF Next, Continue, vars, Enqueue, Replay, Queue, ReadCursor, CursorUnreadable,
            OpenLog, StopReplay, AckWrite, AckRename, AckRaises, PassFails, RaiseOut,
            BelowMinBytes, CompactRead, CompactReplace, CompactFails, ZeroWrite,
            ZeroRename, ZeroFails, Start, Crash, Outage, Recover, PatternsStored
<1> QED
    BY <1>1, Invariance, PTL DEF Spec, ReplayedInOrder

----------------------------------------------------------------------------
(* Delivery in order                                                       *)

\* The line of the promise: the lines of the log that are still to be applied.
Waiting == {l \in log : Covered(l)}

Promised == [Delivery!Next]_<<merged, Waiting, exposed>>

\* What of the invariant the steps below use: a line of the log has a queued
\* intent, one line each, and what is not done is still to be applied.
LEMMA WaitingFacts ==
    ASSUME IInv
    PROVE  /\ Waiting \subseteq log /\ log \subseteq Line
           /\ \A l \in log : l.id \in queued /\ l.id \in Intents /\ l.seq \in Nat
           /\ \A l \in log : l \in Waiting <=> ~Done(l)
<1>1. log \subseteq Line
    BY DEF IInv, TypeOK, DiskOK
<1>2. \A l \in log : l.id \in queued /\ l.id \in Intents /\ l.seq \in Nat
    BY <1>1 DEF IInv, Lines, Held, Line
<1> QED
    BY <1>1, <1>2 DEF Waiting, Covered, Done

\* An append puts a write that is not in the graph behind every other.
LEMMA AppendDelivers ==
    ASSUME IInv, ~exposed, ~exposed', NEW i \in Intents \ queued,
           AppendLine(i) \/ AppendFails, merged' = merged, wasReset' = wasReset,
           \A t \in Threads : pc[t] # "down"
    PROVE  Promised
<1> USE WaitingFacts
<1>1. CASE AppendFails
    <2>1. Waiting' = Waiting /\ exposed' = exposed
        BY <1>1 DEF AppendFails, Waiting, Covered
    <2> QED
        BY <2>1 DEF Promised
<1>2. CASE AppendLine(i)
    <2> DEFINE line == [seq |-> sequence + 1, id |-> i]
    <2>0. exposed' = (exposed \/ torn) /\ (~torn => log' = log \cup {line})
        BY <1>2 DEF AppendLine
    <2>1. ~torn /\ log' = log \cup {line} /\ exposed' = exposed
        <3>1. ~torn
            BY <2>0
        <3>2. exposed = FALSE /\ exposed' = FALSE
            BY <2>0, <3>1 DEF IInv, TypeOK, HistoryOK
        <3> QED
            BY <2>0, <3>1, <3>2
    <2>2. line \in Line /\ line.id = i /\ line.seq = sequence + 1 /\ sequence \in Nat
        BY DEF IInv, TypeOK, DiskOK, Line
    <2>3. \A l \in log : l.seq < line.seq
        BY <2>2 DEF IInv, Lines
    <2>4. i \notin Delivery!Ids(Waiting)
        BY DEF Delivery!Ids
    <2> HIDE DEF line
    <2>5. Waiting' = IF Covered(line) THEN Waiting \cup {line} ELSE Waiting
        BY <2>1 DEF Waiting, Covered
    <2>6. CASE ~Covered(line)
        BY <2>1, <2>5, <2>6 DEF Promised
    <2>7. CASE Covered(line)
        <3>1. Waiting' = Waiting \cup {line} /\ line.id \notin merged
            BY <2>5, <2>7 DEF Covered
        <3>2. line \in Delivery!Line
            BY <2>2 DEF Line, Delivery!Line
        <3>3. Delivery!Ids({line}) \cap (merged \cup Delivery!Ids(Waiting)) = {}
            BY <2>2, <2>4, <3>1 DEF Delivery!Ids
        <3>4. \A m \in Waiting : m.seq < line.seq
            BY <2>3
        <3>5. Delivery!Accept({line})
            BY <3>1, <3>2, <3>3, <3>4 DEF Delivery!Accept, Waiting
        <3>6. {line} \in SUBSET Waiting'
            BY <3>1
        <3> QED
            BY <2>1, <3>5, <3>6 DEF Delivery!Next, Promised, Waiting
    <2> QED
        BY <2>6, <2>7
<1> QED
    BY <1>1, <1>2

\* A write of the graph itself touches no line.
LEMMA DirectDelivers ==
    ASSUME IInv, ~exposed, exposed' = exposed, NEW i \in Intents \ queued,
           WriteToGraph(i), log' = log, wasReset' = wasReset
    PROVE  Promised
<1> USE WaitingFacts
<1>1. merged' = merged \/ merged' = merged \cup {i}
    BY DEF WriteToGraph
<1>2. \A l \in log : l.id # i
    OBVIOUS
<1>3. Waiting' = Waiting
    BY <1>1, <1>2 DEF Waiting, Covered
<1>4. CASE merged' = merged
    BY <1>3, <1>4 DEF Promised
<1>5. CASE merged' = merged \cup {i}
    <2>1. Delivery!Serve({}, {i})
        BY <1>2, <1>3, <1>5 DEF Delivery!Serve, Delivery!Ids, Waiting
    <2> QED
        BY <2>1 DEF Delivery!Next, Promised, Waiting
<1> QED
    BY <1>1, <1>4, <1>5

\* A pass applies the first line that waits, or repeats a write that is done.
LEMMA PassDelivers ==
    ASSUME IInv, ~exposed, NEW t \in Threads, ApplyNext(t)
    PROVE  Promised
<1> USE WaitingFacts
<1>1. PICK r \in rest[t] : IsNext(t, r) /\ ApplyIntent(r)
    BY DEF ApplyNext
<1>2. pc[t] = "replay" /\ log' = log /\ wasReset' = wasReset /\ exposed' = exposed
    BY DEF ApplyNext, disk, history
<1>3. r \in Line /\ rest[t] \subseteq Line
    BY <1>1 DEF IInv, TypeOK, ThreadsOK
<1>4. r.id \in Intents /\ r.seq \in Nat
    BY <1>3 DEF Line
<1>5. \A l \in log : l.id = r.id => l = r
    BY <1>1, <1>3 DEF IInv, Lines, Held
<1>6. CASE merged' = merged
    <2>1. Waiting' = Waiting
        BY <1>2, <1>6 DEF Waiting, Covered
    <2> QED
        BY <1>2, <1>6, <2>1 DEF Promised
<1>7. CASE merged' = merged \cup {r.id} /\ r \notin Waiting
    <2>1. \A l \in Waiting : l.id # r.id
        BY <1>5, <1>7
    <2>2. Waiting' = Waiting
        BY <1>2, <1>7, <2>1 DEF Waiting, Covered
    <2>3. Delivery!Serve({}, {r.id})
        BY <1>7, <2>1, <2>2 DEF Delivery!Serve, Delivery!Ids, Waiting
    <2> QED
        BY <1>2, <1>4, <2>3 DEF Delivery!Next, Promised, Waiting
<1>8. CASE merged' = merged \cup {r.id} /\ r \in Waiting
    <2>1. Waiting' = Waiting \ {r}
        BY <1>2, <1>5, <1>8 DEF Waiting, Covered
    <2>2. Pass(t)
        <3>1. ~InReset
            BY <1>1 DEF IInv, Unexposed, WindowInv, Window
        <3> QED
            BY <1>2, <3>1 DEF IInv, Unexposed, SteadyInv, Steady
    <2>3. ASSUME NEW m \in Waiting \ {r}
          PROVE  r.seq < m.seq
        <3>1. m \in log /\ ~Done(m) /\ m.seq \in Nat /\ r \in log
            BY <1>8
        <3>2. CASE m \in rest[t]
            <4>1. r.seq <= m.seq
                BY <1>1, <3>2 DEF IsNext
            <4>2. r.seq # m.seq
                BY <2>3, <3>1 DEF IInv, Lines
            <4> QED
                BY <1>4, <3>1, <4>1, <4>2
        <3>3. CASE \A q \in rest[t] : q.seq < m.seq
            <4>1. r.seq < m.seq
                BY <1>1, <3>3
            <4> QED
                BY <1>4, <3>1, <4>1
        <3> QED
            BY <2>2, <3>1, <3>2, <3>3 DEF Pass
    <2>4. Delivery!Serve({r}, {})
        BY <1>8, <2>1, <2>3 DEF Delivery!Serve, Delivery!Ids, Waiting
    <2> QED
        BY <1>2, <1>8, <2>4 DEF Delivery!Next, Promised, Waiting
<1> QED
    BY <1>1, <1>6, <1>7, <1>8 DEF ApplyIntent

\* A compaction drops lines that are done, and the numbers start again only when
\* nothing waits.
LEMMA CompactDelivers ==
    ASSUME IInv, ~exposed, ~exposed', NEW t \in Threads, CompactReplace(t)
    PROVE  Promised
<1> USE WaitingFacts
<1>1. pc[t] = "keep" /\ log' = rest[t] /\ merged' = merged
      /\ (rest[t] # {} => wasReset' = wasReset)
    <2>1. pc[t] = "keep" /\ log' = rest[t] /\ merged' = merged
        BY DEF CompactReplace, graph
    <2>2. CASE rest[t] # {}
        BY <2>1, <2>2 DEF CompactReplace
    <2> QED
        BY <2>1, <2>2
<1>0. exposed' = exposed
    <2>1. [Next]_vars
        BY DEF Next, Continue
    <2> QED
        BY <2>1, TypeNext DEF IInv, Control, TypeOK, HistoryOK
<1>2. ~InReset
    BY <1>1 DEF IInv, Control, Mutex, InReset, Compacting
<1>3. Keeping(t)
    BY <1>1, <1>2 DEF IInv, Unexposed, SteadyInv, Steady
<1>4. rest[t] \subseteq log
    BY <1>1 DEF IInv, Lines
<1>5. Waiting \subseteq rest[t]
    BY <1>3 DEF Keeping
<1>6. Waiting' = Waiting
    <2>1. CASE rest[t] = {}
        BY <1>1, <1>5, <2>1 DEF Waiting
    <2>2. CASE rest[t] # {}
        BY <1>1, <1>4, <1>5, <2>2 DEF Waiting, Covered
    <2> QED
        BY <2>1, <2>2
<1> QED
    BY <1>0, <1>1, <1>6 DEF Promised

LEMMA DeliverySteps ==
    ASSUME IInv, [Next]_vars
    PROVE  Promised
<1>1. CASE exposed'
    BY <1>1 DEF Promised, Delivery!Next
<1>2. exposed => exposed'
    BY DEF Next, Continue, vars, history, Enqueue, WriteDirect, Replay, Fallback, Queue, AppendLine,
           AppendFails, ReadCursor, CursorUnreadable, OpenLog, ApplyNext, StopReplay, AckWrite,
           AckRename, AckRaises, PassFails, RaiseOut, BelowMinBytes, CompactRead, CompactReplace,
           CompactFails, ZeroWrite, ZeroRename, ZeroFails, Start, Crash, Outage, Recover,
           PatternsStored
<1>3. SUFFICES ASSUME ~exposed, ~exposed' PROVE Promised
    BY <1>1, <1>2
<1>4. ASSUME log' = log, merged' = merged, wasReset' = wasReset PROVE Promised
    <2>1. Waiting' = Waiting
        BY <1>4 DEF Waiting, Covered
    <2>2. exposed' = exposed
        BY <1>3, TypeNext DEF IInv, Control, TypeOK, HistoryOK
    <2> QED
        BY <1>4, <2>1, <2>2 DEF Promised
<1>5. \A t \in Threads : pc[t] # "down" => \A u \in Threads : pc[u] # "down"
    BY DEF IInv, Control, Mutex
<1>6. ASSUME NEW t \in Threads, NEW i \in Intents, Enqueue(t, i) PROVE Promised
    <2>1. i \in Intents \ queued
        BY <1>6 DEF Enqueue, IInv, Control, Jobs
    <2>2. (AppendLine(i) \/ AppendFails) /\ merged' = merged /\ wasReset' = wasReset /\ pc[t] = "idle"
        BY <1>6 DEF Enqueue, graph
    <2> QED
        BY <1>3, <1>5, <2>1, <2>2, AppendDelivers
<1>7. ASSUME NEW t \in Threads, Queue(t) PROVE Promised
    <2>1. job[t] \in Intents \ queued
        BY <1>7 DEF Queue, IInv, Control, Jobs, Intents
    <2>2. (AppendLine(job[t]) \/ AppendFails) /\ merged' = merged /\ wasReset' = wasReset /\ pc[t] = "queue"
        BY <1>7 DEF Queue, graph
    <2> QED
        BY <1>3, <1>5, <2>1, <2>2, AppendDelivers
<1>8. ASSUME NEW t \in Threads, NEW i \in Intents, WriteDirect(t, i) PROVE Promised
    <2>1. i \in Intents \ queued
        BY <1>8 DEF WriteDirect, IInv, Control, Jobs
    <2>2. log' = log /\ wasReset' = wasReset /\ exposed' = exposed
          /\ (WriteToGraph(i) \/ merged' = merged)
        BY <1>8 DEF WriteDirect, disk, graph
    <2> QED
        BY <1>3, <1>4, <2>1, <2>2, DirectDelivers
<1>9. ASSUME NEW t \in Threads, Fallback(t) PROVE Promised
    <2>1. job[t] \in Intents \ queued
        BY <1>9 DEF Fallback, IInv, Control, Jobs, Intents
    <2>2. log' = log /\ wasReset' = wasReset /\ exposed' = exposed
          /\ (WriteToGraph(job[t]) \/ merged' = merged)
        BY <1>9 DEF Fallback, disk, graph
    <2> QED
        BY <1>3, <1>4, <2>1, <2>2, DirectDelivers
<1>10. ASSUME NEW t \in Threads, ApplyNext(t) PROVE Promised
    BY <1>3, <1>10, PassDelivers
<1>11. ASSUME NEW t \in Threads, CompactReplace(t) PROVE Promised
    BY <1>3, <1>11, CompactDelivers
<1>12. CASE UNCHANGED vars
    BY <1>4, <1>12 DEF vars, disk, graph, history
<1>13. ASSUME NEW t \in Threads,
              \/ Replay(t) \/ ReadCursor(t) \/ OpenLog(t) \/ StopReplay(t) \/ AckWrite(t) \/ AckRename(t)
              \/ AckRaises(t) \/ BelowMinBytes(t) \/ CompactRead(t) \/ ZeroWrite(t) \/ ZeroRename(t)
              \/ CursorUnreadable(t) \/ PassFails(t) \/ CompactFails(t) \/ ZeroFails(t) \/ Start(t)
       PROVE  Promised
    BY <1>4, <1>13 DEF Replay, ReadCursor, CursorUnreadable, OpenLog, StopReplay, AckWrite,
                       AckRename, AckRaises, PassFails, RaiseOut, BelowMinBytes, CompactRead,
                       CompactFails, ZeroWrite, ZeroRename, ZeroFails, Start, disk, graph, history
<1>14. CASE Crash \/ Outage \/ Recover
    BY <1>4, <1>14 DEF Crash, Outage, Recover, disk, graph, history
<1>15. ASSUME NEW i \in Increments, PatternsStored(i) PROVE Promised
    BY <1>4, <1>15 DEF PatternsStored, disk, history
<1> QED
    BY <1>6, <1>7, <1>8, <1>9, <1>10, <1>11, <1>12, <1>13, <1>14, <1>15 DEF Next, Continue

\* Log, cursor, racing threads, compactions and crashes implement delivery in order,
\* for idempotent writes also across resets, until a line has been lost.
THEOREM OutboxDelivers == Spec => ImplementsDelivery
<1>1. Init => Delivery!Init
    BY DEF Init, Delivery!Init
<1>2. IInv /\ [Next]_vars => [Delivery!Next]_(Delivery!delivery)
    BY DeliverySteps DEF Promised, Waiting, Delivery!delivery
<1> QED
    BY <1>1, <1>2, Invariance, PTL DEF Spec, ImplementsDelivery, Delivery!Spec
====
