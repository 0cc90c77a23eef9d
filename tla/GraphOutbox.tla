---- MODULE GraphOutbox ----
(***************************************************************************)
(* The durable outbox in front of the Neo4j memory graph                   *)
(* (agents/storage/graph_write_outbox.py and its users in neo4j_store.py). *)
(*                                                                         *)
(* A graph write that cannot be applied is kept as a line of a JSONL log;  *)
(* a cursor file holds the sequence number of the last line whose replay   *)
(* was acknowledged.  Request threads append to the log, replay it and     *)
(* compact it.  Only append and compact take the lock: reading the cursor, *)
(* iterating over the log and acknowledging do not, so that the threads of *)
(* this module interleave at every file operation.  The process may crash  *)
(* and restart at any step, the graph may be unreachable at any time, and  *)
(* every file operation may fail: a failed append leaves a torn last line, *)
(* a failed cursor write an old cursor, in a process that goes on.         *)
(*                                                                         *)
(* A line is a record of its sequence number and its intent.  Lines stay   *)
(* in the order of their sequence numbers, so the log is a set of lines;   *)
(* an undecodable line, which every reader skips, is not in it.            *)
(***************************************************************************)
EXTENDS Naturals, Integers, FiniteSets

CONSTANTS
    Threads,        \* threads that use the store: the event loop and the pool
    Enqueued,       \* intents written through _enqueue_graph_write
    Direct,         \* idempotent intents applied first, queued on failure
    Increments,     \* co-occurrence increments, applied first, queued on failure
    NoJob,          \* a thread that serves no write (idle, or the startup flush)
    ReplayRequest,  \* the job of a thread that serves POST /graph-outbox/replay
    CompactAt       \* lines at which the log has reached min_bytes

Intents == Enqueued \cup Direct \cup Increments

ASSUME CompactAtAssumption == CompactAt \in Nat
ASSUME KindsAssumption ==
    /\ Enqueued \cap Direct = {}
    /\ Enqueued \cap Increments = {}
    /\ Direct \cap Increments = {}
ASSUME JobAssumption == NoJob \notin Intents /\ ReplayRequest \notin Intents
                        /\ NoJob # ReplayRequest

VARIABLES
    \* the disk
    log,        \* decodable lines of the log file
    torn,       \* the file ends in a partial line without a newline
    cursor,     \* number in the cursor file
    tmp,        \* number in the cursor's temporary file, NoTmp if there is none
    \* the process
    sequence,   \* GraphWriteOutbox._sequence
    pc,         \* where each thread is
    job,        \* the intent it writes, ReplayRequest or NoJob
    cur,        \* cursor value its iteration started from
    rest,       \* lines its iteration (or its compaction) still holds
    live,       \* its open file is still the log, not one replaced since
    at,         \* sequence number it acknowledges
    \* the graph
    up,         \* Neo4j answers
    missing,    \* increments whose two patterns the graph does not hold yet
    merged,     \* intents whose effect is in the graph
    coIds,      \* ids of the CoOccurrenceUpdate nodes marked as applied
    incr,       \* how often each increment was added to a weight
    \* history
    issued,     \* intents some caller has started to write
    queued,     \* intents whose append returned without an error
    counted,    \* increments the direct path has added
    wasReset,   \* the log has been compacted to nothing
    exposed     \* one of the four losing schedules has happened

disk    == <<log, torn, cursor, tmp>>
threads == <<pc, job, cur, rest, live, at>>
graph   == <<missing, merged, coIds, incr>>
history == <<issued, queued, counted, wasReset, exposed>>
vars    == <<disk, sequence, threads, up, graph, history>>

NoTmp == -1

Line == [seq : Nat, id : Intents]

PCs == {"down", "idle", "fallback", "queue", "read", "open", "replay", "ack",
        "rename", "compact", "keep", "zero", "zeroRename"}

\* compact() holds the lock from its first read to its last write.
Compacting == {"keep", "zero", "zeroRename"}
LockFree   == \A u \in Threads : pc[u] \notin Compacting

\* The log is already empty and the cursor not yet zero.
InReset == \E u \in Threads : pc[u] \in {"zero", "zeroRename"}

\* A thread that has read the cursor and not finished with what it found.
InFlight(u) == pc[u] \in {"open", "replay", "ack", "rename"}

Pending == {l \in log : l.seq > cursor}

Goto(t, label) == pc' = [pc EXCEPT ![t] = label]

Finish(t) ==
    /\ Goto(t, "idle")
    /\ job' = [job EXCEPT ![t] = NoJob]

----------------------------------------------------------------------------
Init ==
    /\ log = {} /\ torn = FALSE /\ cursor = 0 /\ tmp = NoTmp
    /\ sequence = 0
    /\ pc = [t \in Threads |-> "idle"]
    /\ job = [t \in Threads |-> NoJob]
    /\ cur = [t \in Threads |-> 0]
    /\ rest = [t \in Threads |-> {}]
    /\ live = [t \in Threads |-> FALSE]
    /\ at = [t \in Threads |-> 0]
    /\ up = TRUE
    /\ missing \in SUBSET Increments
    /\ merged = {} /\ coIds = {}
    /\ incr = [i \in Increments |-> 0]
    /\ issued = {} /\ queued = {} /\ counted = {}
    /\ wasReset = FALSE /\ exposed = FALSE

----------------------------------------------------------------------------
(* append(): under the lock, the next sequence number and one line at the  *)
(* end of the file.  Behind a torn line the new one is glued to it and is  *)
(* undecodable.  An iteration whose open file is still the log will reach  *)
(* the new line.                                                           *)
AppendLine(i) ==
    LET line == [seq |-> sequence + 1, id |-> i] IN
    /\ LockFree
    /\ sequence' = sequence + 1
    /\ torn' = FALSE
    /\ queued' = queued \cup {i}
    /\ exposed' = (exposed \/ torn)
    /\ IF torn
         THEN UNCHANGED <<log, rest>>
         ELSE /\ log' = log \cup {line}
              /\ rest' = [u \in Threads |->
                            IF live[u] /\ line.seq > cur[u]
                              THEN rest[u] \cup {line} ELSE rest[u]]
    /\ UNCHANGED <<cursor, tmp>>

\* append() raising OSError: the number is spent, and what reached the file
\* before the error is nothing or the beginning of a line.
AppendFails ==
    /\ LockFree
    /\ sequence' = sequence + 1
    /\ torn' \in {torn, TRUE}
    /\ UNCHANGED <<log, cursor, tmp, rest, queued, exposed>>

\* What a direct write of intent i leaves in the graph.  The Cypher MATCH of
\* an increment finds no row, and reports none, when a pattern is missing.
WriteToGraph(i) ==
    /\ merged' = IF i \in missing THEN merged ELSE merged \cup {i}
    /\ incr' = IF i \in Increments \ missing THEN [incr EXCEPT ![i] = @ + 1] ELSE incr
    /\ counted' = IF i \in Increments \ missing THEN counted \cup {i} ELSE counted
    /\ UNCHANGED <<missing, coIds>>

\* _enqueue_graph_write: append, then flush.
Enqueue(t, i) ==
    /\ pc[t] = "idle" /\ i \in Enqueued \ issued
    /\ issued' = issued \cup {i}
    /\ job' = [job EXCEPT ![t] = i]
    /\ \/ AppendLine(i) /\ Goto(t, "read")
       \/ AppendFails /\ Goto(t, "fallback")
    /\ UNCHANGED <<cur, live, at, up, graph, counted, wasReset>>

\* _enqueue_graph_write after an OSError: one direct attempt, no flush.
Fallback(t) ==
    /\ pc[t] = "fallback"
    /\ IF up THEN WriteToGraph(job[t]) ELSE UNCHANGED <<graph, counted>>
    /\ Finish(t)
    /\ UNCHANGED <<disk, sequence, cur, rest, live, at, up, issued, queued, wasReset, exposed>>

\* persist_doc_links, add_feedback_event, store_experiment and
\* upsert_co_occurrence: the graph first; a flush follows a success.
WriteDirect(t, i) ==
    /\ pc[t] = "idle" /\ i \in (Direct \cup Increments) \ issued
    /\ issued' = issued \cup {i}
    /\ job' = [job EXCEPT ![t] = i]
    /\ IF up
         THEN WriteToGraph(i) /\ Goto(t, "read")
         ELSE UNCHANGED <<graph, counted>> /\ Goto(t, "queue")
    /\ UNCHANGED <<disk, sequence, cur, rest, live, at, up, queued, wasReset, exposed>>

\* The except branch of those four: the intent goes to the outbox, whatever
\* raised.  An OSError here reaches the caller.
Queue(t) ==
    /\ pc[t] = "queue"
    /\ AppendLine(job[t]) \/ AppendFails
    /\ Finish(t)
    /\ UNCHANGED <<cur, live, at, up, graph, issued, counted, wasReset>>

\* POST /agent/memory/graph-outbox/replay.
Replay(t) ==
    /\ pc[t] = "idle"
    /\ Goto(t, "read")
    /\ job' = [job EXCEPT ![t] = ReplayRequest]
    /\ UNCHANGED <<disk, sequence, cur, rest, live, at, up, graph, history>>

----------------------------------------------------------------------------
(* _flush_graph_write_outbox over iter_pending                             *)

\* iter_pending reads the cursor; when it has caught up with the last append
\* the file is not opened.
ReadCursor(t) ==
    /\ pc[t] = "read"
    /\ IF sequence > 0 /\ cursor >= sequence
         THEN Goto(t, "compact") /\ UNCHANGED cur
         ELSE Goto(t, "open") /\ cur' = [cur EXCEPT ![t] = cursor]
    /\ UNCHANGED <<disk, sequence, job, rest, live, at, up, graph, history>>

\* A cursor file that cannot be read counts as zero.
CursorUnreadable(t) ==
    /\ pc[t] = "read" /\ cursor # 0
    /\ cur' = [cur EXCEPT ![t] = 0]
    /\ Goto(t, "open")
    /\ UNCHANGED <<disk, sequence, job, rest, live, at, up, graph, history>>

\* Mutant: the iteration starts one line too late.
OpenLogOneLate(t) ==
    /\ pc[t] = "open"
    /\ rest' = [rest EXCEPT ![t] = {l \in log : l.seq > cur[t] + 1}]
    /\ live' = [live EXCEPT ![t] = TRUE]
    /\ at' = [at EXCEPT ![t] = 0]
    /\ Goto(t, "replay")
    /\ UNCHANGED <<disk, sequence, job, cur, up, graph, history>>

OpenLog(t) ==
    /\ pc[t] = "open"
    /\ rest' = [rest EXCEPT ![t] = {l \in log : l.seq > cur[t]}]
    /\ live' = [live EXCEPT ![t] = TRUE]
    /\ at' = [at EXCEPT ![t] = 0]
    /\ Goto(t, "replay")
    /\ UNCHANGED <<disk, sequence, job, cur, up, graph, history>>

IsNext(t, l) == l \in rest[t] /\ \A m \in rest[t] : l.seq <= m.seq

\* Mutant: the id of a replayed increment is recorded and not looked up.
ApplyIntentUnguarded(l) ==
    /\ merged' = merged \cup {l.id}
    /\ incr' = IF l.id \in Increments THEN [incr EXCEPT ![l.id] = @ + 1] ELSE incr
    /\ coIds' = IF l.id \in Increments THEN coIds \cup {l.seq} ELSE coIds

\* A replayed increment is guarded by a CoOccurrenceUpdate node whose id is
\* the line's sequence number, in the same transaction.
ApplyIntent(l) ==
    IF l.id \in Increments /\ l.seq \in coIds
      THEN UNCHANGED <<merged, incr, coIds>>
      ELSE /\ merged' = merged \cup {l.id}
           /\ incr' = IF l.id \in Increments THEN [incr EXCEPT ![l.id] = @ + 1] ELSE incr
           /\ coIds' = IF l.id \in Increments THEN coIds \cup {l.seq} ELSE coIds

Appliable(l) ==
    /\ up
    /\ l.id \in missing => l.seq \in coIds

\* Mutant: a line that cannot be applied is skipped and the pass goes on.
ApplyNextSkipping(t) ==
    /\ pc[t] = "replay"
    /\ \E l \in rest[t] :
         /\ Appliable(l)
         /\ \A m \in rest[t] : m.seq < l.seq => ~Appliable(m)
         /\ ApplyIntent(l)
         /\ rest' = [rest EXCEPT ![t] = {m \in @ : m.seq > l.seq}]
         /\ at' = [at EXCEPT ![t] = l.seq]
    /\ Goto(t, "ack")
    /\ UNCHANGED <<disk, sequence, job, cur, live, up, missing, history>>

ApplyNext(t) ==
    /\ pc[t] = "replay"
    /\ \E l \in rest[t] :
         /\ IsNext(t, l)
         /\ Appliable(l)
         /\ ApplyIntent(l)
         /\ rest' = [rest EXCEPT ![t] = @ \ {l}]
         /\ at' = [at EXCEPT ![t] = l.seq]
    /\ Goto(t, "ack")
    /\ UNCHANGED <<disk, sequence, job, cur, live, up, missing, history>>

\* The end of an iteration: its file is closed, its variables are gone.
CloseLog(t) ==
    /\ rest' = [rest EXCEPT ![t] = {}]
    /\ live' = [live EXCEPT ![t] = FALSE]
    /\ cur' = [cur EXCEPT ![t] = 0]
    /\ at' = [at EXCEPT ![t] = 0]

\* The first line that cannot be applied ends the pass, and so does the end
\* of the file.
StopReplay(t) ==
    /\ pc[t] = "replay"
    /\ \A l \in rest[t] : IsNext(t, l) => ~Appliable(l)
    /\ Goto(t, "compact")
    /\ CloseLog(t)
    /\ UNCHANGED <<disk, sequence, job, up, graph, history>>

\* mark_acked: write the temporary file, then os.replace it.  All threads
\* use the same temporary file.
AckWrite(t) ==
    /\ pc[t] = "ack"
    /\ tmp' = at[t]
    /\ Goto(t, "rename")
    /\ UNCHANGED <<log, torn, cursor, sequence, job, cur, rest, live, at, up, graph, history>>

\* A replay request may have reached its limit.
AckRename(t) ==
    /\ pc[t] = "rename" /\ tmp # NoTmp
    /\ cursor' = tmp /\ tmp' = NoTmp
    /\ \/ Goto(t, "replay") /\ UNCHANGED <<rest, live, cur, at>>
       \/ job[t] = ReplayRequest /\ Goto(t, "compact") /\ CloseLog(t)
    /\ UNCHANGED <<log, torn, sequence, job, up, graph, history>>

\* An OSError ends the flush and reaches its caller: a direct writer queues
\* the intent it has just applied.
RaiseOut(t) ==
    /\ IF job[t] \in Direct \cup Increments
         THEN Goto(t, "queue") /\ UNCHANGED job
         ELSE Finish(t)
    /\ CloseLog(t)
    /\ UNCHANGED <<log, torn, cursor, sequence, up, graph, history>>

\* Another thread has taken the temporary file: os.replace raises.
AckRaises(t) ==
    /\ pc[t] = "rename" /\ tmp = NoTmp
    /\ UNCHANGED tmp
    /\ RaiseOut(t)

\* What a failed write of a number leaves in the temporary file: what was
\* there, or an empty file, which reads as zero.
FailedWrite == {tmp, 0}

\* The log cannot be opened or read, the temporary file not be written or
\* not replace the cursor.
PassFails(t) ==
    /\ \/ pc[t] \in {"open", "replay"} /\ UNCHANGED tmp
       \/ pc[t] = "ack" /\ tmp' \in FailedWrite
       \/ pc[t] = "rename" /\ tmp # NoTmp /\ UNCHANGED tmp
    /\ RaiseOut(t)

----------------------------------------------------------------------------
(* maybe_compact and compact                                               *)

BelowMinBytes(t) ==
    /\ pc[t] = "compact" /\ Cardinality(log) < CompactAt
    /\ Finish(t)
    /\ UNCHANGED <<disk, sequence, cur, rest, live, at, up, graph, history>>

\* Mutant: the line after the cursor is taken for an acknowledged one.
CompactReadOffByOne(t) ==
    /\ pc[t] = "compact" /\ Cardinality(log) >= CompactAt
    /\ LockFree
    /\ rest' = [rest EXCEPT ![t] = {l \in log : l.seq > cursor + 1}]
    /\ Goto(t, "keep")
    /\ UNCHANGED <<disk, sequence, job, cur, live, at, up, graph, history>>

CompactRead(t) ==
    /\ pc[t] = "compact" /\ Cardinality(log) >= CompactAt
    /\ LockFree
    /\ \/ rest' = [rest EXCEPT ![t] = Pending]
       \/ rest' = [rest EXCEPT ![t] = log]    \* the cursor cannot be read
    /\ Goto(t, "keep")
    /\ UNCHANGED <<disk, sequence, job, cur, live, at, up, graph, history>>

\* The retained lines replace the file.  Iterations keep the file they have
\* opened.  When nothing is retained the numbering starts again.
CompactReplace(t) ==
    /\ pc[t] = "keep"
    /\ log' = rest[t] /\ torn' = FALSE
    /\ rest' = [rest EXCEPT ![t] = {}]
    /\ live' = [u \in Threads |-> FALSE]
    /\ IF rest[t] = {}
         THEN /\ sequence' = 0
              /\ wasReset' = TRUE
              /\ exposed' = (exposed \/ \E u \in Threads : InFlight(u))
              /\ Goto(t, "zero") /\ UNCHANGED job
         ELSE UNCHANGED <<sequence, wasReset, exposed>> /\ Finish(t)
    /\ UNCHANGED <<cursor, tmp, cur, at, up, graph, issued, queued, counted>>

\* The log cannot be read, or the retained lines not be written: an error of
\* compact is logged and ignored, and the file stays as it is.
CompactFails(t) ==
    /\ pc[t] = "keep"
    /\ rest' = [rest EXCEPT ![t] = {}]
    /\ Finish(t)
    /\ UNCHANGED <<disk, sequence, cur, live, at, up, graph, history>>

ZeroWrite(t) ==
    /\ pc[t] = "zero"
    /\ tmp' = 0
    /\ Goto(t, "zeroRename")
    /\ UNCHANGED <<log, torn, cursor, sequence, job, cur, rest, live, at, up, graph, history>>

\* Mutant: a missing temporary file is not noticed.
ZeroRenameUnnoticed(t) ==
    /\ pc[t] = "zeroRename"
    /\ cursor' = tmp /\ tmp' = NoTmp
    /\ exposed' = (exposed \/ \E u \in Threads : InFlight(u))
    /\ Finish(t)
    /\ UNCHANGED <<log, torn, sequence, cur, rest, live, at, up, graph,
                   issued, queued, counted, wasReset>>

ZeroRename(t) ==
    /\ pc[t] = "zeroRename"
    /\ IF tmp = NoTmp THEN UNCHANGED <<cursor, tmp>> ELSE cursor' = tmp /\ tmp' = NoTmp
    /\ exposed' = (exposed \/ \E u \in Threads : InFlight(u))
    /\ Finish(t)
    /\ UNCHANGED <<log, torn, sequence, cur, rest, live, at, up, graph,
                   issued, queued, counted, wasReset>>

\* The cursor of an emptied log cannot be written: compact raises, the flush
\* ignores it, and the process goes on with numbers that start again below
\* the old cursor.
ZeroFails(t) ==
    /\ pc[t] \in {"zero", "zeroRename"}
    /\ IF pc[t] = "zero" THEN tmp' \in FailedWrite ELSE UNCHANGED tmp
    /\ exposed' = (exposed \/ cursor # 0 \/ \E u \in Threads : InFlight(u))
    /\ Finish(t)
    /\ UNCHANGED <<log, torn, cursor, sequence, cur, rest, live, at, up, graph,
                   issued, queued, counted, wasReset>>

----------------------------------------------------------------------------
(* The process and its environment                                         *)

\* Files survive a crash, everything the threads hold is gone.
Crash ==
    /\ \E t \in Threads : pc[t] # "down"
    /\ pc' = [t \in Threads |-> "down"]
    /\ job' = [t \in Threads |-> NoJob]
    /\ rest' = [t \in Threads |-> {}]
    /\ live' = [t \in Threads |-> FALSE]
    /\ at' = [t \in Threads |-> 0]
    /\ cur' = [t \in Threads |-> 0]
    /\ sequence' = 0
    /\ exposed' = (exposed \/ InReset)
    /\ UNCHANGED <<disk, up, graph, issued, queued, counted, wasReset>>

\* The store is constructed only when Neo4j answers: the sequence number
\* becomes the largest one in the log, and the constructor ends with a flush.
Start(t) ==
    /\ up /\ \A u \in Threads : pc[u] = "down"
    /\ \E n \in {0} \cup {l.seq : l \in log} :
         (\A l \in log : l.seq <= n) /\ sequence' = n
    /\ pc' = [u \in Threads |-> IF u = t THEN "read" ELSE "idle"]
    /\ UNCHANGED <<disk, job, cur, rest, live, at, up, graph, history>>

Outage  == up /\ up' = FALSE /\ UNCHANGED <<disk, sequence, threads, graph, history>>
Recover == ~up /\ up' = TRUE /\ UNCHANGED <<disk, sequence, threads, graph, history>>

\* The memory that carries the two patterns is stored.
PatternsStored(i) ==
    /\ up /\ i \in missing
    /\ missing' = missing \ {i}
    /\ UNCHANGED <<disk, sequence, threads, up, merged, coIds, incr, history>>

----------------------------------------------------------------------------
\* What a thread does once it has begun a request.
Continue(t) ==
    \/ Fallback(t) \/ Queue(t)
    \/ ReadCursor(t) \/ CursorUnreadable(t)
    \/ OpenLog(t) \/ ApplyNext(t) \/ StopReplay(t)
    \/ AckWrite(t) \/ AckRename(t) \/ AckRaises(t) \/ PassFails(t)
    \/ BelowMinBytes(t) \/ CompactRead(t) \/ CompactReplace(t) \/ CompactFails(t)
    \/ ZeroWrite(t) \/ ZeroRename(t) \/ ZeroFails(t)

Next ==
    \/ \E t \in Threads :
         \/ \E i \in Intents : Enqueue(t, i) \/ WriteDirect(t, i)
         \/ Replay(t)
         \/ Continue(t)
         \/ Start(t)
    \/ Crash \/ Outage \/ Recover
    \/ \E i \in Increments : PatternsStored(i)

Spec == Init /\ [][Next]_vars

\* A thread that has begun a request goes on with it.
FairSpec == Spec /\ \A t \in Threads : WF_vars(Continue(t))

----------------------------------------------------------------------------
(* Properties                                                              *)

DiskOK ==
    /\ log \in SUBSET Line /\ torn \in BOOLEAN
    /\ cursor \in Nat /\ tmp \in Nat \cup {NoTmp}
    /\ sequence \in Nat

ThreadsOK ==
    /\ pc \in [Threads -> PCs]
    /\ job \in [Threads -> Intents \cup {NoJob, ReplayRequest}]
    /\ cur \in [Threads -> Nat] /\ at \in [Threads -> Nat]
    /\ rest \in [Threads -> SUBSET Line]
    /\ live \in [Threads -> BOOLEAN]

GraphOK ==
    /\ up \in BOOLEAN
    /\ missing \in SUBSET Increments /\ merged \in SUBSET Intents
    /\ coIds \in SUBSET Nat /\ incr \in [Increments -> Nat]

HistoryOK ==
    /\ issued \in SUBSET Intents /\ queued \in SUBSET Intents
    /\ counted \in SUBSET Increments
    /\ wasReset \in BOOLEAN /\ exposed \in BOOLEAN

\* The state of the outbox is well formed: file, cursor and thread state
\* have the shapes the code gives them.
TypeOK == DiskOK /\ ThreadsOK /\ GraphOK /\ HistoryOK

\* A queued intent is in the graph or will be replayed: whatever the threads,
\* crashes, outages, failing files and compactions, the outbox loses nothing
\* except through the schedules recorded in exposed (an append behind a torn
\* line, a crash inside a reset, a reset whose cursor write fails, a reset
\* while another thread is in a pass).  After a reset the claim no longer
\* covers increments, whose ids repeat.
NothingLost ==
    ~exposed =>
        \A i \in queued :
            \/ i \in merged
            \/ \E l \in Pending : l.id = i
            \/ wasReset /\ i \in Increments

\* However many threads replay a line, and however often the cursor moves
\* back over it, replay adds a co-occurrence increment at most once to what
\* the direct path has added.
ReplayedAtMostOnce ==
    \A i \in Increments : incr[i] <= IF i \in counted THEN 2 ELSE 1

\* A line's intent first reaches the graph by replay only when every line in
\* front of it has: racing passes do not overtake each other.
FirstApplied(i) == i \in queued /\ i \notin merged /\ i \in merged'
ReplayedInOrder ==
    [][~exposed /\ ~wasReset =>
         \A l, m \in log : FirstApplied(l.id) /\ m.seq < l.seq => m.id \in merged]_vars

\* Log, cursor, threads and graph implement delivery in order: a line waits until it
\* is applied, racing passes and cursors that move back repeat writes and skip none,
\* and a restart goes on where the line stands, until one of the schedules recorded in
\* exposed has happened.  Increments leave the promise at the first reset.
Covered(l) == l.id \notin merged /\ ~(wasReset /\ l.id \in Increments)

Delivery == INSTANCE GraphDelivery WITH
    Writes  <- Intents,
    applied <- merged,
    waiting <- {l \in log : Covered(l)},
    void    <- exposed
ImplementsDelivery == Delivery!Spec

\* When the graph stays up, patterns are stored, the process stays up, its
\* passes do not fail for ever on the files and keep being started (by writes
\* or replay requests), every queued intent reaches the graph: however often
\* more is queued, the queue is empty again.
PassError == \E t \in Threads : PassFails(t) \/ CursorUnreadable(t)
Calm      == <>[](up /\ missing = {}) /\ <>[][~Crash /\ ~PassError]_vars
Flushing  == []<>(\E t \in Threads : pc[t] = "read")
Drained   == \A i \in queued : i \in merged \/ exposed \/ (wasReset /\ i \in Increments)
Drains    == Calm /\ Flushing => []<>Drained

\* compact's docstring: file and cursor are both reset so that "a stale-high
\* cursor can never suppress future intents after a restart".  A line at or
\* below the cursor, which no pass will ever yield, is in the graph.
NoLineSuppressed ==
    \A l \in log : l.seq <= cursor => l.id \in merged \/ l.id \in Increments

\* A co-occurrence that could not be persisted is "queued for replay": its
\* increment is in the graph or still pending.
QueuedIncrementCounts ==
    ~exposed =>
        \A i \in Increments \cap queued :
            i \in merged \/ \E l \in Pending : l.id = i
====
