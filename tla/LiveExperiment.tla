---- MODULE LiveExperiment ----
(***************************************************************************)
(* Experiment runs inside the server and the screens that follow them      *)
(* (the live routes of memory/experiment_routes.py, LiveRunnerBase and the *)
(* runners, RunTab.tsx).                                                   *)
(*                                                                         *)
(* A run is a task of the event loop that waits for a thread of the        *)
(* executor.  A request reaches it through the table of active runs; its   *)
(* progress goes to the screens that listen to its id.  Cancelling a run   *)
(* interrupts the task: the thread goes on, and the task takes its id out  *)
(* of the table, whoever has it by then, when it is next resumed.  Runs    *)
(* are numbered in the order of their starts.                              *)
(***************************************************************************)
EXTENDS Naturals, Sequences

CONSTANTS
    Ids,        \* run ids, as the requests give them or the minute makes them
    Screens,    \* browser tabs on the experiment page
    None,       \* no run, no result
    Error,      \* a result file that says that the run failed
    QueueSize,  \* messages a subscription holds (128)
    MaxRuns,    \* bound on the runs
    MaxProgress \* bound on the progress messages of a run

ASSUME SizeAssumption == MaxRuns \in Nat /\ MaxProgress \in Nat /\ QueueSize \in Nat \ {0}
ASSUME MarkAssumption == None \notin Nat \cup Ids /\ Error \notin Nat /\ None # Error

VARIABLES
    \* the server
    begun,      \* runs so far
    id,         \* the id of each
    task,       \* where its task stands
    cancelled,  \* runs with a CancelledError on its way or behind them
    thread,     \* where its thread stands
    sent,       \* its progress messages so far
    table,      \* _active_live_runs
    results,    \* the result file of each id
    \* the screens
    screen,     \* liveStatus
    watch,      \* the run a screen follows
    link,       \* its web socket
    queue,      \* the subscription of the socket
    shown,      \* the run whose completion the screen has shown
    \* history
    missed,     \* screens that listened too late for the end, or whose queue was full
    causes      \* which schedules that mix up runs have happened

server  == <<begun, id, task, cancelled, thread, sent, table, results>>
tabs    == <<screen, watch, link, shown>>
history == <<missed, causes>>
vars    == <<server, tabs, queue, history>>

Runs == 1..MaxRuns

Underway(r) == task[r] \in {"delay", "waiting", "pushing"}

Init ==
    /\ begun = 0
    /\ id = [r \in Runs |-> None]
    /\ task = [r \in Runs |-> "unused"]
    /\ cancelled = {}
    /\ thread = [r \in Runs |-> "none"]
    /\ sent = [r \in Runs |-> 0]
    /\ table = [i \in Ids |-> None]
    /\ results = [i \in Ids |-> None]
    /\ screen = [c \in Screens |-> "idle"]
    /\ watch = [c \in Screens |-> None]
    /\ link = [c \in Screens |-> "none"]
    /\ queue = [c \in Screens |-> <<>>]
    /\ shown = [c \in Screens |-> None]
    /\ missed = {} /\ causes = {}

----------------------------------------------------------------------------
(* The event bus                                                           *)

Listening(i) == {c \in Screens : link[c] = "open" /\ id[watch[c]] = i}

Final(m) == m \in {"done", "error"}

\* A subscription that is full drops what is published.
Publish(i, messages) ==
    /\ queue' = [c \in Screens |->
                   IF c \in Listening(i)
                   THEN LET all == queue[c] \o messages
                        IN  SubSeq(all, 1, IF Len(all) < QueueSize THEN Len(all) ELSE QueueSize)
                   ELSE queue[c]]
    /\ missed' = IF Final(Head(messages))
                 THEN missed \cup {c \in Listening(i) : Len(queue[c]) >= QueueSize}
                 ELSE missed

----------------------------------------------------------------------------
(* The task of a run                                                       *)

\* The client has its second to connect; the graph is photographed.
Launch(r) ==
    /\ task[r] = "delay" /\ r \notin cancelled
    /\ task' = [task EXCEPT ![r] = "waiting"]
    /\ thread' = [thread EXCEPT ![r] = "queued"]
    /\ UNCHANGED <<begun, id, cancelled, sent, table, results, tabs, queue, history>>

Leave(r) == table' = [table EXCEPT ![id[r]] = None]

\* The thread has returned: the end is told before the twin is.
Complete(r) ==
    /\ task[r] = "waiting" /\ thread[r] = "saved" /\ r \notin cancelled
    /\ task' = [task EXCEPT ![r] = "pushing"]
    /\ Publish(id[r], <<"done", "after">>)
    /\ UNCHANGED <<begun, id, cancelled, thread, sent, table, results, tabs, causes>>

\* The thread has raised.  A result file that is there is left as it is, and one
\* that cannot be written is done without.
Break(r) ==
    /\ task[r] = "waiting" /\ thread[r] = "failed" /\ r \notin cancelled
    /\ task' = [task EXCEPT ![r] = "ended"]
    /\ \E file \in {results[id[r]], IF results[id[r]] = None THEN Error ELSE results[id[r]]} :
         results' = [results EXCEPT ![id[r]] = file]
    /\ Publish(id[r], <<"error", "error">>)
    /\ Leave(r)
    /\ UNCHANGED <<begun, id, cancelled, thread, sent, tabs, causes>>

\* The twin and the graph have the results, or refused them.
Pushed(r) ==
    /\ task[r] = "pushing" /\ r \notin cancelled
    /\ task' = [task EXCEPT ![r] = "ended"]
    /\ Publish(id[r], <<"after">>)
    /\ Leave(r)
    /\ UNCHANGED <<begun, id, cancelled, thread, sent, results, tabs, causes>>

\* The CancelledError arrives.  In the first second nothing is cleaned up.
Unwind(r) ==
    /\ r \in cancelled /\ Underway(r)
    /\ task' = [task EXCEPT ![r] = "ended"]
    /\ IF task[r] = "delay"
       THEN UNCHANGED <<table, causes>>
       ELSE /\ Leave(r)
            /\ causes' = causes \cup (IF table[id[r]] \in {None, r} THEN {} ELSE {"usurped"})
    /\ UNCHANGED <<begun, id, cancelled, thread, sent, results, tabs, queue, missed>>

----------------------------------------------------------------------------
(* The thread of a run                                                     *)

Work(r) ==
    /\ thread[r] = "queued"
    /\ thread' = [thread EXCEPT ![r] = "working"]
    /\ UNCHANGED <<begun, id, task, cancelled, sent, table, results, tabs, queue, history>>

Progress(r) ==
    /\ thread[r] = "working" /\ sent[r] < MaxProgress
    /\ sent' = [sent EXCEPT ![r] = @ + 1]
    /\ Publish(id[r], <<"progress">>)
    /\ UNCHANGED <<begun, id, task, cancelled, thread, table, results, tabs, causes>>

\* Mutant: the report is written by the task, after the end is told.
ReturnUnsaved(r) ==
    /\ thread[r] = "working"
    /\ thread' = [thread EXCEPT ![r] = "saved"]
    /\ UNCHANGED <<begun, id, task, cancelled, sent, table, results, tabs, queue, history>>

Return(r) ==
    /\ thread[r] = "working"
    /\ thread' = [thread EXCEPT ![r] = "saved"]
    /\ results' = [results EXCEPT ![id[r]] = r]
    /\ UNCHANGED <<begun, id, task, cancelled, sent, table, tabs, queue, history>>

\* It may be the restoring of the priors that raises, after the report.
Raise(r) ==
    /\ thread[r] = "working"
    /\ thread' = [thread EXCEPT ![r] = "failed"]
    /\ \E file \in {results[id[r]], r} : results' = [results EXCEPT ![id[r]] = file]
    /\ UNCHANGED <<begun, id, task, cancelled, sent, table, tabs, queue, history>>

----------------------------------------------------------------------------
(* The requests of a screen                                                *)

\* Mutant: the table is not asked.
FreeAnyway(i) == i \in Ids

\* No run is listed under the id, or one that is done.
Free(i) == \A r \in Runs : table[i] = r => task[r] = "ended"

Follow(c, r) ==
    /\ screen' = [screen EXCEPT ![c] = "running"]
    /\ watch' = [watch EXCEPT ![c] = r]
    /\ link' = [link EXCEPT ![c] = "opening"]
    /\ queue' = [queue EXCEPT ![c] = <<>>]
    /\ missed' = missed \ {c}

\* POST /experiment/run-live, and its answer.  A socket that is open is closed.
Start(c, i) ==
    /\ begun < MaxRuns
    /\ screen[c] # "running"
    /\ Free(i)
    /\ LET r == begun + 1 IN
         /\ begun' = r
         /\ id' = [id EXCEPT ![r] = i]
         /\ task' = [task EXCEPT ![r] = "delay"]
         /\ table' = [table EXCEPT ![i] = r]
         /\ Follow(c, r)
    /\ causes' = causes \cup
         (IF \E s \in Runs : id[s] = i /\ thread[s] = "working" THEN {"revived"} ELSE {})
    /\ UNCHANGED <<cancelled, thread, sent, results, shown>>

\* Mutant: the end is left to the task, which is cancelled.
CancelSilently(c) ==
    LET i == id[watch[c]]
        r == table[i]
    IN  /\ screen[c] = "running" /\ r # None /\ task[r] # "ended"
        /\ cancelled' = cancelled \cup {r}
        /\ thread' = [thread EXCEPT ![r] = IF @ = "queued" THEN "none" ELSE @]
        /\ table' = [table EXCEPT ![i] = None]
        /\ screen' = [screen EXCEPT ![c] = "error"]
        /\ UNCHANGED <<begun, id, task, sent, results, watch, link, shown, queue, history>>

\* POST /experiment/cancel, and its answer.  A thread that has not begun never
\* will; a thread that has is out of reach.
Cancel(c) ==
    LET i == id[watch[c]]
        r == table[i]
    IN  /\ screen[c] = "running" /\ r # None /\ task[r] # "ended"
        /\ cancelled' = cancelled \cup {r}
        /\ thread' = [thread EXCEPT ![r] = IF @ = "queued" THEN "none" ELSE @]
        /\ Publish(i, <<"error">>)
        /\ table' = [table EXCEPT ![i] = None]
        /\ screen' = [screen EXCEPT ![c] = "error"]
        /\ UNCHANGED <<begun, id, task, sent, results, watch, link, shown, causes>>

----------------------------------------------------------------------------
(* The web socket of a screen                                              *)

\* The end of the run has been told, or the word that it is cancelled.
Told(r) == r \in cancelled \/ task[r] \in {"pushing", "ended"}

Connect(c) ==
    /\ link[c] = "opening"
    /\ link' = [link EXCEPT ![c] = "open"]
    /\ missed' = IF Told(watch[c]) THEN missed \cup {c} ELSE missed
    /\ UNCHANGED <<server, screen, watch, shown, queue, causes>>

\* The handler sends the next message and is over after the end.
Deliver(c) ==
    /\ link[c] = "open" /\ queue[c] # <<>>
    /\ LET m == Head(queue[c]) IN
         /\ queue' = [queue EXCEPT ![c] = IF Final(m) THEN <<>> ELSE Tail(@)]
         /\ link' = [link EXCEPT ![c] = IF Final(m) THEN "none" ELSE @]
         /\ screen' = [screen EXCEPT ![c] = IF Final(m) THEN m ELSE @]
         /\ shown' = [shown EXCEPT ![c] = IF m = "done" THEN watch[c] ELSE @]
    /\ UNCHANGED <<server, watch, history>>

\* Mutant: after 90 silent seconds the handler waits on.
WaitOn(c) ==
    /\ link[c] = "open" /\ queue[c] = <<>>
    /\ UNCHANGED vars

\* 90 silent seconds.
TimesOut(c) ==
    /\ link[c] = "open" /\ queue[c] = <<>>
    /\ screen' = [screen EXCEPT ![c] = "error"]
    /\ link' = [link EXCEPT ![c] = "none"]
    /\ UNCHANGED <<server, watch, shown, queue, history>>

\* The connection fails or breaks: onerror, onclose.
Lost(c) ==
    /\ link[c] # "none"
    /\ link' = [link EXCEPT ![c] = "none"]
    /\ queue' = [queue EXCEPT ![c] = <<>>]
    /\ \E s \in {"error", IF screen[c] = "running" THEN "done" ELSE screen[c]} :
         screen' = [screen EXCEPT ![c] = s]
    /\ UNCHANGED <<server, watch, shown, history>>

\* The runs GET /experiment/live-runs lists as not done, first started first.
Active == {r \in Runs : Underway(r) /\ table[id[r]] = r}

\* The page is loaded: it follows the first active run, or shows the newest
\* result if it is recent enough.
Load(c) ==
    /\ \/ \E r \in Active : (\A s \in Active : r <= s) /\ Follow(c, r)
       \/ /\ Active = {}
          /\ \E s \in {"idle"} \cup {"done" : i \in {j \in Ids : results[j] \in Runs}} :
                 screen' = [screen EXCEPT ![c] = s]
          /\ watch' = [watch EXCEPT ![c] = None]
          /\ link' = [link EXCEPT ![c] = "none"]
          /\ queue' = [queue EXCEPT ![c] = <<>>]
          /\ missed' = missed \ {c}
    /\ shown' = [shown EXCEPT ![c] = None]
    /\ UNCHANGED <<server, causes>>

----------------------------------------------------------------------------
Next ==
    \/ \E r \in Runs : \/ Launch(r) \/ Complete(r) \/ Break(r) \/ Pushed(r) \/ Unwind(r)
                       \/ Work(r) \/ Progress(r) \/ Return(r) \/ Raise(r)
    \/ \E c \in Screens : \/ Cancel(c) \/ Connect(c) \/ Deliver(c) \/ TimesOut(c)
                          \/ Lost(c) \/ Load(c)
                          \/ \E i \in Ids : Start(c, i)

Spec == Init /\ [][Next]_vars

\* The event loop resumes its tasks and handlers; a thread ends, since every
\* call it makes has a timeout; a connection is made or fails.
FairSpec ==
    /\ Spec
    /\ \A r \in Runs :
         /\ WF_vars(Launch(r)) /\ WF_vars(Complete(r) \/ Break(r))
         /\ WF_vars(Pushed(r)) /\ WF_vars(Unwind(r))
         /\ WF_vars(Work(r)) /\ WF_vars(Return(r) \/ Raise(r))
    /\ \A c \in Screens :
         WF_vars(Connect(c)) /\ WF_vars(Deliver(c)) /\ WF_vars(TimesOut(c))

----------------------------------------------------------------------------
(* Properties                                                              *)

Messages == {"progress", "done", "error", "after"}

\* Tasks, threads, table, files and screens have the shapes the code gives them.
TypeOK ==
    /\ begun \in 0..MaxRuns
    /\ id \in [Runs -> Ids \cup {None}]
    /\ \A r \in Runs : task[r] = "unused" <=> r > begun
    /\ \A r \in Runs : id[r] = None <=> r > begun
    /\ task \in [Runs -> {"unused", "delay", "waiting", "pushing", "ended"}]
    /\ cancelled \subseteq 1..begun
    /\ thread \in [Runs -> {"none", "queued", "working", "saved", "failed"}]
    /\ sent \in [Runs -> 0..MaxProgress]
    /\ table \in [Ids -> 1..begun \cup {None}]
    /\ results \in [Ids -> 1..begun \cup {None, Error}]
    /\ screen \in [Screens -> {"idle", "running", "done", "error"}]
    /\ watch \in [Screens -> 1..begun \cup {None}]
    /\ link \in [Screens -> {"none", "opening", "open"}]
    /\ queue \in [Screens -> Seq(Messages)]
    /\ shown \in [Screens -> 1..begun \cup {None}]
    /\ missed \subseteq Screens /\ causes \subseteq {"revived", "usurped"}

\* A run that is underway and that nobody cancelled is the one listed under its
\* id, so it can be found, cancelled and not started twice, unless the clean-up
\* of a cancelled run came after the next start of its id.
Listed ==
    "usurped" \notin causes =>
        \A r \in Runs : Underway(r) /\ r \notin cancelled => table[id[r]] = r

\* A screen that has shown the completion of a run finds the results of that run
\* under its id, or of a later one, unless the id was started again while the
\* thread or the task of a cancelled run was still there.
ResultsShown ==
    causes = {} =>
        \A c \in Screens : shown[c] # None =>
            LET saved == results[id[shown[c]]] IN saved \in Runs /\ saved >= shown[c]

\* A screen that listens to a run whose end was told, and neither came too late
\* nor had its queue full, has the end still before it: it will not take a
\* finished or a cancelled run for a hanging one.
EndWaits ==
    \A c \in Screens :
        link[c] = "open" /\ Told(watch[c]) /\ c \notin missed =>
            \E n \in 1..Len(queue[c]) : Final(queue[c][n])

\* A screen that says "running" does not say so for ever, whatever the run, the
\* connection and the other screens do.
ScreenSettles == \A c \in Screens : screen[c] = "running" ~> screen[c] # "running"

\* Every run leaves the list of active runs.
RunsLeave == \A r \in Runs : r \in Active ~> r \notin Active

\* What the comment at _active_live_runs says the table is for, which a cancelled
\* run does not keep: two threads never work for one id.
NoDuplicates ==
    \A r, s \in Runs :
        thread[r] = "working" /\ thread[s] = "working" /\ id[r] = id[s] => r = s
====
