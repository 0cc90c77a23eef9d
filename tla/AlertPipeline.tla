---- MODULE AlertPipeline ----
(***************************************************************************)
(* From a scored event to the card the operator sees                       *)
(* (agents/memory/orchestrator.py process_event, the broadcasts of         *)
(* agents/memory/dispatcher.py, the alert WebSocket and the UI's cards).   *)
(*                                                                         *)
(* The pipeline of an event suspends while its memory is stored and        *)
(* similar memories are retrieved, and while documentation links are       *)
(* persisted; between two suspensions it runs alone on the event loop, and *)
(* so do the operator's requests.  Several events are in the pipeline at   *)
(* once, and the explanation of an alert is a background task.             *)
(***************************************************************************)
EXTENDS AlertDispatcher

CONSTANTS
    Events,     \* events that reach process_event
    StoreAt,    \* scores from here on are stored
    QueueSize,  \* maxsize of a subscriber's queue
    NoEvent     \* the kind of an event that is not in the pipeline

ASSUME StoreAssumption == StoreAt \in Nat /\ StoreAt <= AlertAt
ASSUME QueueAssumption == QueueSize \in Nat

VARIABLES
    pc,         \* where each event is
    kind,       \* its signature and score
    task,       \* its background explanation
    mailbox,    \* messages waiting to be sent to the subscriber
    cards,      \* events whose card the UI shows
    explained,  \* cards that show their explanation
    shown,      \* history: the cards broadcast for each event
    dropped     \* history: events one of whose messages the subscriber lost

client   == <<cards, explained>>
pipeline == <<dispatcher, pc, kind, task, mailbox, client, shown, dropped>>

PCs   == {"new", "stored", "linking", "done", "failed"}
Tasks == {"none", "running", "sent", "failed"}

----------------------------------------------------------------------------
InitPipeline ==
    /\ InitDispatcher
    /\ pc = [e \in Events |-> "new"]
    /\ kind = [e \in Events |-> NoEvent]
    /\ task = [e \in Events |-> "none"]
    /\ mailbox = <<>> /\ cards = {} /\ explained = {}
    /\ shown = [e \in Events |-> {}]
    /\ dropped = {}

\* put_nowait to the subscriber; a full queue drops the message.
Broadcast(e, what) ==
    IF Len(mailbox) < QueueSize
      THEN mailbox' = Append(mailbox, [event |-> e, what |-> what]) /\ UNCHANGED dropped
      ELSE dropped' = dropped \cup {e} /\ UNCHANGED mailbox

ShowCard(e, what) ==
    /\ Broadcast(e, what)
    /\ shown' = [shown EXCEPT ![e] = @ \cup {what}]

NoCard == UNCHANGED <<mailbox, shown, dropped>>

\* The kind of an event is of no use after its pipeline has decided.
Leave(e, label) ==
    /\ pc' = [pc EXCEPT ![e] = label]
    /\ kind' = [kind EXCEPT ![e] = NoEvent]

----------------------------------------------------------------------------
(* process_event                                                           *)

\* An event is scored.  One that is not stored gets its card at once.
Ignore(e) ==
    /\ pc[e] = "new"
    /\ \E score \in Scores : score < StoreAt
    /\ Leave(e, "done") /\ ShowCard(e, "scored")
    /\ UNCHANGED <<dispatcher, task, client>>

Store(e, k) ==
    /\ pc[e] = "new" /\ k.score >= StoreAt
    /\ pc' = [pc EXCEPT ![e] = "stored"]
    /\ kind' = [kind EXCEPT ![e] = k]
    /\ UNCHANGED <<dispatcher, task, mailbox, client, shown, dropped>>

\* Storing swallows errors of the store, retrieving similar memories does not.
RetrievalFails(e) ==
    /\ pc[e] = "stored"
    /\ Leave(e, "failed")
    /\ UNCHANGED <<dispatcher, task, mailbox, client, shown, dropped>>

CardOnly(e) ==
    /\ pc[e] = "stored"
    /\ Decline(kind[e])
    /\ Leave(e, "done") /\ ShowCard(e, "scored")
    /\ UNCHANGED <<task, client>>

\* The explanation task is created before the dispatcher looks at mutes and
\* at repetition.  When documentation links were found they are persisted
\* before the card goes out.
SuppressedAlert(e) ==
    /\ pc[e] = "stored"
    /\ Suppress(kind[e])
    /\ task' = [task EXCEPT ![e] = "running"]
    /\ \/ Leave(e, "linking") /\ NoCard
       \/ Leave(e, "done") /\ ShowCard(e, "scored")
    /\ UNCHANGED client

DispatchedAlert(e) ==
    /\ pc[e] = "stored"
    /\ Dispatch(kind[e])
    /\ task' = [task EXCEPT ![e] = "running"]
    /\ ShowCard(e, "alert")
    /\ Leave(e, "linking") \/ Leave(e, "done")
    /\ UNCHANGED client

\* persist_doc_links has returned or failed.
Linked(e) ==
    /\ pc[e] = "linking"
    /\ Leave(e, "done")
    /\ IF "alert" \in shown[e] THEN NoCard ELSE ShowCard(e, "scored")
    /\ UNCHANGED <<dispatcher, task, client>>

\* _generate_explanation_background, after the LLM and the store.
Explain(e) ==
    /\ task[e] = "running"
    /\ task' = [task EXCEPT ![e] = "sent"]
    /\ Broadcast(e, "explanation")
    /\ UNCHANGED <<dispatcher, pc, kind, client, shown>>

\* An error of the LLM or of the store ends the task without a message.
ExplainFails(e) ==
    /\ task[e] = "running"
    /\ task' = [task EXCEPT ![e] = "failed"]
    /\ UNCHANGED <<dispatcher, pc, kind, mailbox, client, shown, dropped>>

----------------------------------------------------------------------------
(* The subscriber                                                          *)

\* Mutant: the newest message is sent first.
ReceiveNewest ==
    /\ mailbox # <<>>
    /\ mailbox' = SubSeq(mailbox, 1, Len(mailbox) - 1)
    /\ LET m == mailbox[Len(mailbox)] IN
         IF m.what = "explanation"
           THEN /\ explained' = explained \cup ({m.event} \cap cards)
                /\ UNCHANGED cards
           ELSE cards' = cards \cup {m.event} /\ UNCHANGED explained
    /\ UNCHANGED <<dispatcher, pc, kind, task, shown, dropped>>

\* The UI adds a card, or patches the card it has.
Receive ==
    /\ mailbox # <<>>
    /\ mailbox' = Tail(mailbox)
    /\ LET m == Head(mailbox) IN
         IF m.what = "explanation"
           THEN /\ explained' = explained \cup ({m.event} \cap cards)
                /\ UNCHANGED cards
           ELSE cards' = cards \cup {m.event} /\ UNCHANGED explained
    /\ UNCHANGED <<dispatcher, pc, kind, task, shown, dropped>>

\* The WebSocket is lost: its queue goes with it, and a new one takes its place.
Reconnect ==
    /\ mailbox # <<>>
    /\ dropped' = dropped \cup {mailbox[i].event : i \in DOMAIN mailbox}
    /\ mailbox' = <<>>
    /\ UNCHANGED <<dispatcher, pc, kind, task, client, shown>>

----------------------------------------------------------------------------
\* What the event loop does with an event it has accepted.
Proceed(e) ==
    \/ CardOnly(e) \/ SuppressedAlert(e) \/ DispatchedAlert(e)
    \/ RetrievalFails(e) \/ Linked(e)

Finish(e) == Explain(e) \/ ExplainFails(e)

NextPipeline ==
    \/ \E e \in Events :
         \/ Ignore(e) \/ \E k \in Kinds : Store(e, k)
         \/ Proceed(e) \/ Finish(e)
    \/ (Operator \/ Tick) /\ UNCHANGED <<pc, kind, task, mailbox, client, shown, dropped>>
    \/ Receive \/ Reconnect

SpecPipeline == InitPipeline /\ [][NextPipeline]_pipeline

\* Awaited calls return, background tasks end and the WebSocket is drained.
FairPipeline ==
    /\ SpecPipeline
    /\ \A e \in Events : WF_pipeline(Proceed(e)) /\ WF_pipeline(Finish(e))
    /\ WF_pipeline(Receive)

----------------------------------------------------------------------------
(* Properties                                                              *)

\* The pipeline and its subscriber are well formed.
PipelineTypeOK ==
    /\ DispatcherTypeOK
    /\ pc \in [Events -> PCs] /\ kind \in [Events -> Kinds \cup {NoEvent}]
    /\ task \in [Events -> Tasks]
    /\ mailbox \in Seq([event : Events, what : {"alert", "scored", "explanation"}])
    /\ Len(mailbox) <= QueueSize
    /\ explained \subseteq cards /\ cards \subseteq Events /\ dropped \subseteq Events
    /\ shown \in [Events -> SUBSET {"alert", "scored"}]

\* The explanation of an alert reaches its card: the task, the link writer
\* and the queue never deliver it in front of the card it belongs to.
AlertExplained ==
    \A e \in Events :
        "alert" \in shown[e] ~> (e \in explained \/ task[e] = "failed" \/ e \in dropped)
====
