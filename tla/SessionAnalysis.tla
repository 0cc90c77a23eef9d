---- MODULE SessionAnalysis ----
(***************************************************************************)
(* The playbacks and the FFT and inference tasks of a session, and what    *)
(* they hand to the memory (fft_streamer.py, inference_streamer.py,        *)
(* events.py, the requests of routers/sessions.py,                         *)
(* feature_stream_bridge.py, cycle_tracker.py).                            *)
(*                                                                         *)
(* A playback moves the position of the session's dictionary, which the    *)
(* other tasks follow.  A task hands its frame or window to its clients,   *)
(* which takes time, and then publishes it on a bus whose queue drops what *)
(* finds no room; the bridge takes it from there to the tracker of part    *)
(* cycles.  The clients' queues are in SessionPlayback: here a hand-over   *)
(* ends, or a playback waits for ever for a client that no longer reads.   *)
(***************************************************************************)
EXTENDS Naturals

CONSTANTS
    Replays,    \* replay requests that are served at the same time
    None,       \* an empty handle
    Length,     \* samples of the recording
    Window,     \* samples of an FFT or inference window
    Hop,        \* samples between two windows
    BusSize,    \* payloads the bridge's queue holds (128)
    MaxRequests \* bound on the uploads, starts, replays and pauses

ASSUME NatAssumption ==
    /\ Length \in Nat /\ BusSize \in Nat /\ MaxRequests \in Nat
    /\ Window \in Nat \ {0} /\ Hop \in Nat \ {0} /\ Hop <= Window
ASSUME NoneAssumption == None \notin Nat

Kinds == {"fft", "inf"}
Roles == {"play"} \cup Kinds
Tasks == 1..MaxRequests

VARIABLES
    \* the session's dictionary
    exists, running, paused, position,
    handle,     \* of the playback, the FFT and the inference task
    enabled,    \* running_fft and running_inference
    \* the tasks
    state,      \* where each stands
    edge,       \* right edge of its last window, or a playback's own position
    cancelled,  \* those with a CancelledError on its way
    \* requests that wait
    waiting,    \* the FFT task each replay waits for
    deleting,   \* the delete waits for the passive outcome
    \* the feature bus and the cycle tracker
    bus, cycle,
    \* history
    requests,   \* uploads, starts, replays and pauses so far
    scored,     \* how often each window was published since the last start or replay
    replayed,   \* the run was begun by a replay
    causes      \* which schedules that disturb the tasks have happened

session == <<exists, running, paused, position>>
tasks   == <<handle, enabled, state, edge, cancelled>>
memory  == <<bus, cycle>>
history == <<requests, scored, replayed, causes>>
vars    == <<session, tasks, waiting, deleting, memory, history>>

Live(k) == {t \in Tasks : state[k][t] \notin {"unused", "done"}}

\* Live tasks that no handle names.
Loose(k) == Live(k) \ {handle[k]}

Init ==
    /\ exists = TRUE /\ running = FALSE /\ paused = FALSE /\ position = 0
    /\ handle = [k \in Roles |-> None]
    /\ enabled = [k \in Kinds |-> TRUE]
    /\ state = [k \in Roles |-> [t \in Tasks |-> "unused"]]
    /\ edge = [k \in Roles |-> [t \in Tasks |-> 0]]
    /\ cancelled = [k \in Roles |-> {}]
    /\ waiting = [r \in Replays |-> None] /\ deleting = FALSE
    /\ bus = 0 /\ cycle = FALSE
    /\ requests = 0 /\ scored = [w \in 1..Length |-> 0]
    /\ replayed = FALSE /\ causes = {}

Counted == requests < MaxRequests /\ requests' = requests + 1

Publish == bus' = IF bus < BusSize THEN bus + 1 ELSE bus

----------------------------------------------------------------------------
(* The playbacks                                                           *)

\* The position a playback goes on from, read from the session as it begins.
From(t) == IF state["play"][t] = "ready" THEN position ELSE edge["play"][t]

\* A playback begins after the cancellation of the one it replaces.  A task
\* begins in the round of the event loop after its creation, in which the
\* playback created with it wakes at most once.
Plays(t) ==
    /\ t \notin cancelled["play"]
    /\ \/ state["play"][t] = "ready" /\ exists /\ cancelled["play"] = {}
       \/ /\ state["play"][t] = "loop"
          /\ \/ \E u \in Tasks : u > t /\ state["play"][u] # "unused"
             \/ \A u \in Tasks : state["inf"][u] # "ready"

\* The next frame is due, and the clients are handed it one by one.
Tick(t) ==
    /\ Plays(t) /\ running /\ ~paused /\ From(t) < Length
    /\ position' = From(t) + 1
    /\ edge' = [edge EXCEPT !["play"][t] = From(t) + 1]
    /\ state' = [state EXCEPT !["play"][t] = "put"]
    /\ UNCHANGED <<exists, running, paused, handle, enabled, cancelled, waiting, deleting,
                   memory, history>>

\* A playback that begins in a paused session keeps the position it finds.
Waits(t) ==
    /\ Plays(t) /\ state["play"][t] = "ready" /\ running /\ paused /\ From(t) < Length
    /\ edge' = [edge EXCEPT !["play"][t] = From(t)]
    /\ state' = [state EXCEPT !["play"][t] = "loop"]
    /\ UNCHANGED <<session, handle, enabled, cancelled, waiting, deleting, memory, history>>

\* The clients have the frame, and it is published.
Emit(t) ==
    /\ state["play"][t] = "put" /\ t \notin cancelled["play"]
    /\ Publish
    /\ state' = [state EXCEPT !["play"][t] = "loop"]
    /\ UNCHANGED <<session, handle, enabled, edge, cancelled, waiting, deleting, cycle, history>>

\* The end of the recording, or of the run: the clients are told.
RunEnds(t) ==
    /\ Plays(t) /\ (~running \/ From(t) >= Length)
    /\ running' = FALSE
    /\ state' = [state EXCEPT !["play"][t] = "eos"]
    /\ UNCHANGED <<exists, paused, position, handle, enabled, edge, cancelled, waiting,
                   deleting, memory, history>>

\* A client's queue is full and nobody reads it any more.
Sticks(t) ==
    /\ state["play"][t] = "put" /\ t \notin cancelled["play"]
    /\ state' = [state EXCEPT !["play"][t] = "stuck"]
    /\ UNCHANGED <<session, handle, enabled, edge, cancelled, waiting, deleting, memory, history>>

Pause(on) ==
    /\ exists /\ paused # on
    /\ paused' = on
    /\ IF on THEN Counted ELSE UNCHANGED requests
    /\ UNCHANGED <<exists, running, position, tasks, waiting, deleting, memory,
                   scored, replayed, causes>>

----------------------------------------------------------------------------
(* Requests                                                                *)

\* The next task of a kind: tasks are taken in order.
Unused(k, t) == state[k][t] = "unused" /\ \A u \in 1..(t - 1) : state[k][u] # "unused"

\* New tasks of the roles in S, whose handles name them.
Create(S) ==
    \E t \in [S -> Tasks] :
       /\ \A k \in S : Unused(k, t[k])
       /\ state' = [k \in Roles |->
                      IF k \in S THEN [state[k] EXCEPT ![t[k]] = "ready"] ELSE state[k]]
       /\ handle' = [k \in Roles |-> IF k \in S THEN t[k] ELSE handle[k]]

\* A handle that names no task that could still run.
Idle(k) == handle[k] \notin Live(k)

NewRun(byReplay) ==
    /\ Counted
    /\ running' = TRUE
    /\ scored' = [w \in 1..Length |-> 0]
    /\ replayed' = byReplay

\* A request that starts tasks of a session which is being deleted.
Revived == IF deleting THEN {"revived"} ELSE {}

\* A request that starts tasks while a replay waits to do the same.
Overlap == IF waiting # [r \in Replays |-> None] THEN {"overlapped"} ELSE {}

\* POST /upload, with a recording already there: the handles are forgotten.  The
\* session was looked up before the file was read, and may be deleted by now.
Upload ==
    /\ Counted
    /\ handle' = [k \in Roles |-> IF k = "play" THEN handle[k] ELSE None]
    /\ enabled' = [k \in Kinds |-> TRUE]
    /\ causes' = causes \cup (IF Live("fft") \cup Live("inf") # {} THEN {"uploaded"} ELSE {})
                        \cup (IF deleting \/ ~exists THEN {"orphaned"} ELSE {})
    /\ UNCHANGED <<session, state, edge, cancelled, waiting, deleting, memory, scored, replayed>>

\* Mutant: new tasks whether some run or not.
StartAnew ==
    /\ exists
    /\ NewRun(FALSE)
    /\ Create(Roles)
    /\ enabled' = [k \in Kinds |-> TRUE]
    /\ causes' = causes \cup Revived \cup Overlap
    /\ UNCHANGED <<exists, paused, position, edge, cancelled, waiting, deleting, memory>>

\* POST /start: a playback in any case, and a task of each kind whose handle
\* names none that runs.
Start ==
    /\ exists
    /\ NewRun(FALSE)
    /\ Create({"play"} \cup {k \in Kinds : Idle(k)})
    /\ enabled' = [k \in Kinds |-> Idle(k) \/ enabled[k]]
    /\ causes' = causes \cup Revived \cup Overlap
    /\ UNCHANGED <<exists, paused, position, edge, cancelled, waiting, deleting, memory>>

\* Stops the task of the handle, if it has not ended.
Cancel(k) == cancelled[k] \cup ({handle[k]} \cap Live(k))

\* POST /replay up to its wait for the old FFT task, if it has not ended.
Replay(r) ==
    /\ exists /\ waiting[r] = None
    /\ position' = 0
    /\ NewRun(TRUE)
    /\ \/ /\ Idle("fft")
          /\ Create({"play", "fft"})
          /\ enabled' = [enabled EXCEPT !["fft"] = TRUE]
          /\ cancelled' = [cancelled EXCEPT !["play"] = Cancel("play")]
          /\ UNCHANGED waiting
       \/ /\ ~Idle("fft")
          /\ Create({"play"})
          /\ cancelled' = [cancelled EXCEPT !["play"] = Cancel("play"), !["fft"] = Cancel("fft")]
          /\ waiting' = [waiting EXCEPT ![r] = handle["fft"]]
          /\ UNCHANGED enabled
    /\ causes' = causes \cup Revived \cup Overlap
    /\ UNCHANGED <<exists, paused, edge, deleting, memory>>

\* The old FFT task is over and a new one is started, whatever happened to
\* the session meanwhile.
ReplayResumes(r) ==
    /\ waiting[r] # None /\ state["fft"][waiting[r]] = "done"
    /\ waiting' = [waiting EXCEPT ![r] = None]
    /\ Create({"fft"})
    /\ enabled' = [enabled EXCEPT !["fft"] = TRUE]
    /\ causes' = causes \cup (IF deleting \/ ~exists THEN {"orphaned"} ELSE {})
    /\ UNCHANGED <<session, edge, cancelled, deleting, memory, requests, scored, replayed>>

\* What a deletion does not reach: payloads on the bus, and what tasks without a
\* handle are about to publish.
OnTheirWay ==
    \/ bus > 0
    \/ \E k \in Kinds : Loose(k) # {}
    \/ \E t \in Loose("play") \ cancelled["play"] : state["play"][t] = "put"

Late == IF OnTheirWay THEN {"late"} ELSE {}

\* Mutant: the flags are left alone.
DeleteCancels ==
    /\ exists
    /\ running' = FALSE
    /\ cancelled' = [k \in Roles |-> Cancel(k)]
    /\ cycle' = FALSE
    /\ causes' = causes \cup Late
    /\ deleting' = (deleting \/ cycle) /\ exists' = cycle
    /\ UNCHANGED <<paused, position, handle, enabled, state, edge, waiting, bus,
                   requests, scored, replayed>>

\* Mutant: the open cycle is not flushed.
DeleteUnflushed ==
    /\ exists
    /\ running' = FALSE
    /\ enabled' = [k \in Kinds |-> FALSE]
    /\ cancelled' = [k \in Roles |-> Cancel(k)]
    /\ exists' = FALSE
    /\ causes' = causes \cup Late
    /\ UNCHANGED <<paused, position, handle, state, edge, waiting, deleting, memory,
                   requests, scored, replayed>>

\* DELETE: the flags, the tasks that have a handle, and the open cycle, whose
\* outcome is attached before the session is removed.  A second request need
\* not wait, and then the first finds nothing to remove.
Delete ==
    /\ exists
    /\ running' = FALSE
    /\ enabled' = [k \in Kinds |-> FALSE]
    /\ cancelled' = [k \in Roles |-> Cancel(k)]
    /\ cycle' = FALSE
    /\ causes' = causes \cup Late
    /\ deleting' = (deleting \/ cycle) /\ exists' = cycle
    /\ UNCHANGED <<paused, position, handle, state, edge, waiting, bus,
                   requests, scored, replayed>>

DeleteResumes ==
    /\ deleting
    /\ deleting' = FALSE /\ exists' = FALSE
    /\ UNCHANGED <<running, paused, position, tasks, waiting, memory, history>>

----------------------------------------------------------------------------
(* The FFT and inference tasks                                             *)

Steps(k, t) == state[k][t] = "loop" /\ t \notin cancelled[k]

\* Inference starts one hop behind the position it finds, an FFT task at 0.
FirstEdge(k) ==
    IF k = "fft" THEN 0 ELSE (IF position > Window THEN position ELSE Window) - Hop

Begin(k, t) ==
    /\ state[k][t] = "ready" /\ t \notin cancelled[k]
    /\ state' = [state EXCEPT ![k][t] = "loop"]
    /\ edge' = [edge EXCEPT ![k][t] = FirstEdge(k)]
    /\ UNCHANGED <<session, handle, enabled, cancelled, waiting, deleting, memory, history>>

\* Inference waits while the session is paused, FFT does not ask.
Halted(k) == k = "inf" /\ paused

\* An FFT window ends at the position, an inference window a hop on.
NextEdge(k, t) == IF k = "fft" THEN position ELSE edge[k][t] + Hop

Due(k, t) == position >= Window /\ position >= edge[k][t] + Hop

\* Inference publishes when a model or the harmonic score has a value.
Emits(k) == Publish \/ (k = "inf" /\ UNCHANGED bus)

\* A window is scored and published.  Each client is given a second to take it
\* before; a task with a handle is cancelled there as anywhere else.
Score(k, t) ==
    /\ Steps(k, t) /\ enabled[k] /\ ~Halted(k) /\ Due(k, t)
    /\ Emits(k)
    /\ edge' = [edge EXCEPT ![k][t] = NextEdge(k, t)]
    /\ scored' = IF k = "inf" THEN [scored EXCEPT ![NextEdge(k, t)] = @ + 1] ELSE scored
    /\ UNCHANGED <<session, handle, enabled, state, cancelled, waiting, deleting, cycle,
                   requests, replayed, causes>>

----------------------------------------------------------------------------
(* The end of a task                                                       *)

Stops(k, t) ==
    /\ state' = [state EXCEPT ![k][t] = "done"]
    /\ edge' = [edge EXCEPT ![k][t] = 0]
    /\ cancelled' = [cancelled EXCEPT ![k] = @ \ {t}]

\* A task that has begun clears its handle and its flag, those of a task that
\* took its place included.
Clears(k) ==
    /\ handle' = [handle EXCEPT ![k] = None]
    /\ enabled' = IF k \in Kinds THEN [enabled EXCEPT ![k] = FALSE] ELSE enabled

\* Mutant: a task ends with the run, whatever is still due.
EndWithRun(k, t) ==
    /\ \/ t \in cancelled[k]
       \/ k = "play" /\ state[k][t] = "eos"
       \/ k \in Kinds /\ Steps(k, t) /\ (~enabled[k] \/ ~running)
    /\ Stops(k, t)
    /\ IF state[k][t] = "ready" THEN UNCHANGED <<handle, enabled>> ELSE Clears(k)
    /\ UNCHANGED <<session, waiting, deleting, memory, history>>

\* A task is cancelled, has told the end or finds that nothing is left to do.
End(k, t) ==
    /\ \/ t \in cancelled[k]
       \/ k = "play" /\ state[k][t] = "eos"
       \/ /\ k \in Kinds /\ Steps(k, t)
          /\ \/ ~enabled[k]
             \/ ~Halted(k) /\ ~Due(k, t) /\ ~running /\ position >= Length
    /\ Stops(k, t)
    /\ IF state[k][t] = "ready" THEN UNCHANGED <<handle, enabled>> ELSE Clears(k)
    /\ UNCHANGED <<session, waiting, deleting, memory, history>>

\* An error in its loop ends a task, and with a playback the run.
Fails(k, t) ==
    /\ state[k][t] \in {"loop", "put"} /\ t \notin cancelled[k]
    /\ Stops(k, t) /\ Clears(k)
    /\ running' = (running /\ k # "play")
    /\ causes' = causes \cup {"failed"}
    /\ UNCHANGED <<exists, paused, position, waiting, deleting, memory, requests, scored, replayed>>

\* An error before its loop ends a task and nothing else.
FailsToStart(k, t) ==
    /\ state[k][t] = "ready" /\ t \notin cancelled[k]
    /\ Stops(k, t)
    /\ causes' = causes \cup {"failed"}
    /\ UNCHANGED <<session, handle, enabled, waiting, deleting, memory, requests, scored, replayed>>

\* A playback looks its session up when it begins, and finds it removed.
FindsNoSession(t) == ~exists /\ FailsToStart("play", t)

----------------------------------------------------------------------------
(* The bridge                                                              *)

\* The bridge hands a payload to the cycle tracker, which opens a cycle for the
\* part or operation that the metadata name, or ends it when they name none.
Observe ==
    /\ bus > 0 /\ bus' = bus - 1
    /\ cycle' \in BOOLEAN
    /\ UNCHANGED <<session, tasks, waiting, deleting, history>>

----------------------------------------------------------------------------
Next ==
    \/ \E t \in Tasks : Tick(t) \/ Waits(t) \/ Emit(t) \/ Sticks(t) \/ RunEnds(t)
    \/ Observe
    \/ \E on \in BOOLEAN : Pause(on)
    \/ Upload \/ Start \/ Delete \/ DeleteResumes
    \/ \E r \in Replays : Replay(r) \/ ReplayResumes(r)
    \/ \E k \in Kinds, t \in Tasks : Begin(k, t) \/ Score(k, t)
    \/ \E k \in Roles, t \in Tasks : End(k, t) \/ Fails(k, t) \/ FailsToStart(k, t)

Spec == Init /\ [][Next]_vars

\* The event loop lets every task and handler take its turn.  The clients take a
\* frame unless the playback sticks; they need not take the end.
FairSpec ==
    /\ Spec
    /\ WF_vars(Observe) /\ WF_vars(DeleteResumes)
    /\ \A r \in Replays : WF_vars(ReplayResumes(r))
    /\ \A t \in Tasks :
         /\ WF_vars(Tick(t)) /\ WF_vars(Emit(t)) /\ WF_vars(RunEnds(t))
         /\ WF_vars(FindsNoSession(t)) /\ WF_vars(t \in cancelled["play"] /\ End("play", t))
    /\ \A k \in Kinds, t \in Tasks :
         WF_vars(Begin(k, t)) /\ WF_vars(Score(k, t)) /\ WF_vars(End(k, t))

----------------------------------------------------------------------------
(* Properties                                                              *)

FlagsOK ==
    /\ exists \in BOOLEAN /\ running \in BOOLEAN /\ paused \in BOOLEAN /\ deleting \in BOOLEAN
    /\ cycle \in BOOLEAN /\ replayed \in BOOLEAN /\ enabled \in [Kinds -> BOOLEAN]

States == {"unused", "ready", "loop", "put", "eos", "stuck", "done"}

TasksOK ==
    /\ handle \in [Roles -> Tasks \cup {None}]
    /\ state \in [Roles -> [Tasks -> States]]
    /\ edge \in [Roles -> [Tasks -> Nat]]
    /\ cancelled \in [Roles -> SUBSET Tasks] /\ \A k \in Roles : cancelled[k] \subseteq Live(k)
    /\ waiting \in [Replays -> Tasks \cup {None}]

CountsOK ==
    /\ position \in 0..Length /\ bus \in 0..BusSize
    /\ requests \in 0..MaxRequests /\ scored \in [1..Length -> Nat]
    /\ causes \subseteq {"uploaded", "orphaned", "revived", "overlapped", "late", "failed"}

\* The dictionary and the tasks have the shapes the code gives them.
TypeOK == FlagsOK /\ TasksOK /\ CountsOK

Spared(bad) == causes \cap bad = {}

\* One task of each kind follows the position, so that what it publishes is
\* published once, over starts and replays, unless an upload forgot one that
\* ran or a request came while a replay waited for the old one to end.
OneOfEach ==
    /\ Spared({"uploaded"}) => \A t, u \in Live("inf") \ cancelled["inf"] : t = u
    /\ Spared({"uploaded", "overlapped"}) =>
         \A t, u \in Live("fft") \ cancelled["fft"] : t = u

\* No window is scored twice in a run, so that no event of the process is
\* learned twice, unless an upload forgot an inference task that still ran; and
\* no two tasks do the same work.
ScoredOnce ==
    /\ Spared({"uploaded"}) => \A w \in 1..Length : scored[w] <= 1
    /\ OneOfEach

\* A deleted session has no open cycle, so that the outcome of its last part
\* is attached, unless payloads were still under way when it was flushed.
NoCycleLeft == ~exists /\ Spared({"late", "revived", "orphaned"}) => ~cycle

\* No playback takes the run to its end: each is over or waits for ever.
Abandoned ==
    /\ running \/ position < Length
    /\ \A t \in Live("play") : state["play"][t] \in {"stuck", "eos"}

\* The tasks of a deleted session end, with a handle or without, and whatever
\* its playbacks wait for, unless a replay or upload that was under way sets a
\* flag again, or a start did and the session, which can no longer be resumed,
\* is paused or has no playback that would end its run.
DeletedEnds ==
    ~exists ~> \/ \A k \in Kinds : Live(k) = {}
               \/ ~Spared({"orphaned"})
               \/ ~Spared({"revived"}) /\ (paused \/ Abandoned)

\* Every window of the first run is scored and published, also those that are
\* due when the playback is over, unless a request comes in between, a task
\* fails or the playback waits for ever for a client that no longer reads.
FirstRunScored ==
    running /\ requests = 1 /\ ~replayed
        ~> \/ \A w \in Window..Length : scored[w] = 1
           \/ requests > 1 \/ deleting \/ ~exists
           \/ ~Spared({"failed"}) \/ Abandoned

\* "Restart a session run from the beginning": in the run that a replay
\* begins, no window is scored before the windows ahead of it.
ReplayFromStart ==
    replayed =>
        \A w \in Window..Length : scored[w] > 0 => \A v \in Window..w : scored[v] > 0
====
