---- MODULE SessionPlayback ----
(***************************************************************************)
(* The playback of a recorded session and its time-domain stream           *)
(* (playback_task and the requests of routers/sessions.py, ws_stream of    *)
(* routers/streams.py).                                                    *)
(*                                                                         *)
(* A session is a dictionary that request handlers, playback tasks and web *)
(* sockets share on one event loop.  A step is what runs between two       *)
(* suspensions.  A request reaches a playback only through the handle in   *)
(* the dictionary; a playback that ends or is cancelled clears the handle, *)
(* whoever it points to by then.                                           *)
(***************************************************************************)
EXTENDS Naturals, Sequences

CONSTANTS
    Clients,    \* web sockets on the time-domain stream
    None,       \* an empty handle
    Eos,        \* the end-of-stream marker
    Length,     \* ticks of the recording
    Capacity,   \* frames a client's queue holds (10)
    MaxRequests \* bound on the starts, replays and pauses

ASSUME NatAssumption ==
    /\ Length \in Nat /\ MaxRequests \in Nat
    /\ Capacity \in Nat \ {0}
ASSUME MarkAssumption == Eos \notin Nat /\ None \notin Nat /\ Eos # None

VARIABLES
    \* the session's dictionary
    exists, running, paused, position, task, subscribers,
    deleting,   \* the delete request waits for the passive outcome
    \* the playbacks
    play,       \* where each stands
    at,         \* its own position
    owed,       \* clients it has yet to hand its frame
    cancelled,  \* playbacks with a CancelledError on its way
    \* the web sockets
    queue, socket, held,
    \* history
    requests,   \* starts, replays and pauses so far
    relayed,    \* live playbacks whose replay found another one that had not ended
    dropped,    \* clients whose end marker found a full queue
    causes      \* which schedules that disturb a stream have happened

session == <<exists, running, paused, position, task, deleting>>
player  == <<play, at, owed, cancelled>>
clients == <<subscribers, queue, socket, held>>
history == <<requests, relayed, dropped, causes>>
vars    == <<session, player, clients, history>>

Tasks == 1..MaxRequests

\* Playbacks that are neither unused nor over.
Live == {t \in Tasks : play[t] \notin {"unused", "done"}}

Init ==
    /\ exists = TRUE /\ running = FALSE /\ paused = FALSE /\ deleting = FALSE
    /\ position = 0 /\ task = None
    /\ play = [t \in Tasks |-> "unused"]
    /\ at = [t \in Tasks |-> 0]
    /\ owed = [t \in Tasks |-> {}]
    /\ cancelled = {}
    /\ subscribers = {}
    /\ queue = [c \in Clients |-> <<>>]
    /\ socket = [c \in Clients |-> "off"]
    /\ held = [c \in Clients |-> None]
    /\ requests = 0 /\ relayed = {} /\ dropped = {} /\ causes = {}

----------------------------------------------------------------------------
(* Requests                                                                *)

Counted == requests < MaxRequests /\ requests' = requests + 1

\* The next playback: tasks are taken in order.
Create(t) ==
    /\ play[t] = "unused" /\ \A u \in 1..(t - 1) : play[u] # "unused"
    /\ play' = [play EXCEPT ![t] = "ready"]
    /\ task' = t
    /\ running' = TRUE
    /\ Counted

\* A request that plays a session which is being deleted.
Revived == IF deleting THEN {"loose"} ELSE {}

\* POST /start creates a playback whether or not one is running.
Start ==
    /\ exists
    /\ \E t \in Tasks : Create(t)
    /\ causes' = causes \cup Revived \cup (IF Live # {} THEN {"started"} ELSE {})
    /\ UNCHANGED <<exists, paused, position, deleting, at, owed, cancelled, clients,
                   relayed, dropped>>

\* POST /pause and /resume.
Pause(on) ==
    /\ exists
    /\ paused # on
    /\ paused' = on
    /\ IF on THEN Counted ELSE UNCHANGED requests
    /\ UNCHANGED <<exists, running, position, task, deleting, player, clients,
                   relayed, dropped, causes>>

Held == IF task \in Live THEN {task} ELSE {}

\* Mutant: the old playback is left to run.
ReplayOver ==
    /\ exists
    /\ position' = 0
    /\ \E t \in Tasks : Create(t)
    /\ UNCHANGED <<exists, paused, deleting, at, owed, cancelled, clients,
                   relayed, dropped, causes>>

\* POST /replay cancels the playback of the handle and creates a new one.
Replay ==
    /\ exists
    /\ position' = 0
    /\ cancelled' = cancelled \cup Held
    /\ \E t \in Tasks :
         /\ Create(t)
         /\ relayed' = IF Live = {} THEN relayed ELSE relayed \cup {t}
    /\ causes' = causes \cup Revived
                        \cup (IF relayed \cap Live # {} THEN {"replayed"} ELSE {})
    /\ UNCHANGED <<exists, paused, deleting, at, owed, clients, dropped>>

\* Mutant: the marker is left to the playback, which is cancelled.
RemoveSilently == exists' = FALSE /\ UNCHANGED <<queue, dropped>>

\* The end of a delete.  Queues that are full do not get the marker.
Remove ==
    LET full == {c \in subscribers : Len(queue[c]) >= Capacity} IN
    /\ exists' = FALSE
    /\ queue' = [c \in Clients |->
                   IF c \in subscribers \ full THEN Append(queue[c], Eos) ELSE queue[c]]
    /\ dropped' = dropped \cup full

\* Mutant: the playback is told to stop but not cancelled.
DeleteTold ==
    /\ exists /\ ~deleting
    /\ running' = FALSE
    /\ \/ deleting' = TRUE /\ UNCHANGED <<exists, queue, dropped>>
       \/ Remove /\ UNCHANGED deleting
    /\ UNCHANGED <<paused, position, task, player, subscribers, socket, held,
                   requests, relayed, causes>>

\* DELETE: the flag, the playback of the handle and, at once or after the
\* outcome of an open cycle is attached, the session.
Delete ==
    /\ exists /\ ~deleting
    /\ running' = FALSE
    /\ cancelled' = cancelled \cup Held
    /\ causes' = causes \cup (IF Live \subseteq Held THEN {} ELSE {"loose"})
    /\ \/ deleting' = TRUE /\ UNCHANGED <<exists, queue, dropped>>
       \/ Remove /\ UNCHANGED deleting
    /\ UNCHANGED <<paused, position, task, play, at, owed, subscribers, socket, held,
                   requests, relayed>>

DeleteResumes ==
    /\ deleting
    /\ deleting' = FALSE
    /\ Remove
    /\ UNCHANGED <<running, paused, position, task, player, subscribers, socket, held,
                   requests, relayed, causes>>

----------------------------------------------------------------------------
(* The playback task                                                       *)

\* A playback begins only after the cancellation of the one it replaces.
Runs(t) ==
    /\ t \notin cancelled
    /\ play[t] = "loop" \/ (play[t] = "ready" /\ cancelled = {})

\* Its own position, read from the session when it begins.
From(t) == IF play[t] = "ready" THEN position ELSE at[t]

\* One round of the loop: the next frame is due.
Tick(t) ==
    /\ Runs(t)
    /\ running /\ ~paused /\ From(t) < Length
    /\ position' = From(t) + 1
    /\ at' = [at EXCEPT ![t] = From(t) + 1]
    /\ play' = [play EXCEPT ![t] = "frame"]
    /\ owed' = [owed EXCEPT ![t] = subscribers]
    /\ UNCHANGED <<exists, running, paused, task, deleting, cancelled, clients, history>>

\* A paused playback keeps the position it has.
Idle(t) ==
    /\ Runs(t)
    /\ running /\ paused /\ From(t) < Length
    /\ at' = [at EXCEPT ![t] = From(t)]
    /\ play' = [play EXCEPT ![t] = "loop"]
    /\ UNCHANGED <<session, owed, cancelled, clients, history>>

\* The end of the recording, or of the run.
Finish(t) ==
    /\ Runs(t)
    /\ ~running \/ From(t) >= Length
    /\ running' = FALSE
    /\ at' = [at EXCEPT ![t] = From(t)]
    /\ play' = [play EXCEPT ![t] = "eos"]
    /\ owed' = [owed EXCEPT ![t] = subscribers]
    /\ UNCHANGED <<exists, paused, position, task, deleting, cancelled, clients, history>>

\* q.put waits for room, also in the queue of a client that is gone.
Put(t, c) ==
    /\ t \notin cancelled
    /\ c \in owed[t] /\ Len(queue[c]) < Capacity
    /\ queue' = [queue EXCEPT ![c] = Append(@, IF play[t] = "eos" THEN Eos ELSE at[t])]
    /\ owed' = [owed EXCEPT ![t] = @ \ {c}]
    /\ UNCHANGED <<session, play, at, cancelled, subscribers, socket, held, history>>

\* Everyone has the frame; it is published and the next one is waited for.
Emit(t) ==
    /\ t \notin cancelled
    /\ play[t] = "frame" /\ owed[t] = {}
    /\ play' = [play EXCEPT ![t] = "loop"]
    /\ UNCHANGED <<session, at, owed, cancelled, clients, history>>

\* However it ends, a playback that has begun clears the handle.
End(t) ==
    /\ t \in cancelled \/ (play[t] = "eos" /\ owed[t] = {})
    /\ play' = [play EXCEPT ![t] = "done"]
    /\ owed' = [owed EXCEPT ![t] = {}]
    /\ at' = [at EXCEPT ![t] = 0]
    /\ relayed' = relayed \ {t}
    /\ task' = IF play[t] = "ready" THEN task ELSE None
    /\ cancelled' = cancelled \ {t}
    /\ UNCHANGED <<exists, running, paused, position, deleting, clients,
                   requests, dropped, causes>>

----------------------------------------------------------------------------
(* Web sockets                                                             *)

Connect(c) ==
    /\ exists /\ socket[c] = "off"
    /\ socket' = [socket EXCEPT ![c] = "idle"]
    /\ subscribers' = subscribers \cup {c}
    /\ UNCHANGED <<session, player, queue, held, history>>

\* Mutant: the handler is over after the end marker and stays subscribed.
TakeUntilEnd(c) ==
    /\ socket[c] = "idle" /\ queue[c] # <<>> /\ held[c] # Eos
    /\ socket' = [socket EXCEPT ![c] = "sending"]
    /\ held' = [held EXCEPT ![c] = Head(queue[c])]
    /\ queue' = [queue EXCEPT ![c] = Tail(@)]
    /\ UNCHANGED <<session, player, subscribers, history>>

Take(c) ==
    /\ socket[c] = "idle" /\ queue[c] # <<>>
    /\ socket' = [socket EXCEPT ![c] = "sending"]
    /\ held' = [held EXCEPT ![c] = Head(queue[c])]
    /\ queue' = [queue EXCEPT ![c] = Tail(@)]
    /\ UNCHANGED <<session, player, subscribers, history>>

Sent(c) ==
    /\ socket[c] = "sending"
    /\ socket' = [socket EXCEPT ![c] = "idle"]
    /\ UNCHANGED <<session, player, subscribers, queue, held, history>>

\* The connection is lost, which only a send notices.
SendFails(c) ==
    /\ socket[c] = "sending"
    /\ socket' = [socket EXCEPT ![c] = "left"]
    /\ subscribers' = subscribers \ {c}
    /\ UNCHANGED <<session, player, queue, held, history>>

----------------------------------------------------------------------------
Next ==
    \/ Start \/ Replay \/ Delete \/ DeleteResumes
    \/ \E on \in BOOLEAN : Pause(on)
    \/ \E t \in Tasks : \/ Tick(t) \/ Idle(t) \/ Finish(t) \/ Emit(t) \/ End(t)
                        \/ \E c \in Clients : Put(t, c)
    \/ \E c \in Clients : Connect(c) \/ Take(c) \/ Sent(c) \/ SendFails(c)

Spec == Init /\ [][Next]_vars

\* The event loop lets every task, handler and socket take its turn; a send
\* ends one way or the other, as the server's keep-alive sees to.
FairSpec ==
    /\ Spec
    /\ WF_vars(DeleteResumes)
    /\ \A t \in Tasks :
         /\ WF_vars(Tick(t)) /\ WF_vars(Finish(t)) /\ WF_vars(Emit(t)) /\ WF_vars(End(t))
         /\ \A c \in Clients : WF_vars(Put(t, c))
    /\ \A c \in Clients : WF_vars(Take(c)) /\ WF_vars(Sent(c) \/ SendFails(c))

----------------------------------------------------------------------------
(* Properties                                                              *)

FlagsOK ==
    exists \in BOOLEAN /\ running \in BOOLEAN /\ paused \in BOOLEAN /\ deleting \in BOOLEAN

SessionOK == position \in 0..Length /\ task \in Tasks \cup {None}

PlayerOK ==
    /\ play \in [Tasks -> {"unused", "ready", "loop", "frame", "eos", "done"}]
    /\ at \in [Tasks -> 0..Length] /\ owed \in [Tasks -> SUBSET Clients]
    /\ cancelled \subseteq Live

ClientsOK ==
    /\ subscribers \subseteq Clients
    /\ socket \in [Clients -> {"off", "idle", "sending", "left"}]
    /\ held \in [Clients -> 0..Length \cup {Eos, None}]
    /\ queue \in [Clients -> Seq(0..Length \cup {Eos})]
    /\ \A c \in Clients : Len(queue[c]) <= Capacity

HistoryOK ==
    /\ requests \in 0..MaxRequests /\ relayed \subseteq Tasks /\ dropped \subseteq Clients
    /\ causes \subseteq {"started", "replayed", "loose"}

\* The dictionary, the playbacks and the queues have the shapes the code
\* gives them, and no queue holds more than its bound.
TypeOK == FlagsOK /\ SessionOK /\ PlayerOK /\ ClientsOK /\ HistoryOK

Spared(bad) == causes \cap bad = {}

\* One playback drives the position, unless the session was started while it
\* played or replayed again after a replay that interrupted it.
OnePlayback ==
    Spared({"started", "replayed"}) => \A t, u \in Live \ cancelled : t = u

\* What a socket holds and what waits for it.
Stream(c) == (IF held[c] = None THEN <<>> ELSE <<held[c]>>) \o queue[c]

\* A client gets after each frame the next one, the first of a new run or the
\* end, and after the end only a new run, over replays, pauses and deletion.
FramesInOrder ==
    Spared({"started", "replayed", "loose"}) =>
        \A c \in Clients : \A n \in 1..(Len(Stream(c)) - 1) :
            LET a == Stream(c)[n]
                b == Stream(c)[n + 1]
            IN  b \in {1, Eos} \/ (a # Eos /\ b = a + 1)

\* A playback that waits for room in the queue of a client that is gone.
Stuck(t) ==
    /\ play[t] \in {"frame", "eos"}
    /\ \E c \in owed[t] : socket[c] = "left" /\ Len(queue[c]) >= Capacity

\* The playbacks of a deleted session end, with a handle or without, unless
\* they are paused, were started meanwhile or wait for a client that left.
DeletedEnds ==
    ~exists ~> \A t \in Live : Stuck(t) \/ paused

\* Every playback ends, whatever the clients do, unless the session is paused
\* or it waits for a client that left with a full queue; and in a session that
\* is deleted, before its time.
PlaybackEnds ==
    /\ \A t \in Tasks : play[t] = "ready" ~> play[t] = "done" \/ paused \/ Stuck(t)
    /\ DeletedEnds

\* A client of a deleted session is told that the stream ended, unless its
\* queue was full at that time, its connection is lost or a playback that the
\* deletion did not reach goes on.
EndTold ==
    \A c \in Clients :
        ~exists /\ Spared({"loose"}) /\ c \in subscribers /\ c \notin dropped
            ~> held[c] = Eos \/ socket[c] = "left"
====
