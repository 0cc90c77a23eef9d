---- MODULE FeedbackLearning ----
(***************************************************************************)
(* How the operator's verdicts and the cycles that end without one become  *)
(* the prior that scoring uses (agents/memory/feedback.py,                 *)
(* outcome_correlator.py, scorer.py over the Neo4j store).                 *)
(*                                                                         *)
(* The handlers run on the event loop and suspend nowhere, so each is one  *)
(* action; the graph may fail between two of the calls a handler makes,    *)
(* and the process may die there: before the event of a verdict is written *)
(* or queued, or before the prior follows it.  One pattern and one context *)
(* stand for all, and a prior, which is a function of a confirm and a      *)
(* dismiss count, is that pair of counts.  The outbox of GraphOutbox.tla   *)
(* is the sequence of the events it still has to apply.                    *)
(***************************************************************************)
EXTENDS Integers, Sequences, FiniteSets, SequencesExt

CONSTANTS
    Memories,       \* stored windows, all with the pattern and the context
    Episode,        \* those whose card carries the id of the one episode
    MaxEvents,      \* bound of the feedback events
    MaxOutages,     \* bound of the outages of the graph
    MaxLives,       \* bound of the lives of the process
    MaxSyncs,       \* bound of the threads that mirror a prior
    NoMemory        \* what a missed-event report is about

ASSUME MemoryAssumption ==
    IsFiniteSet(Memories) /\ Episode \subseteq Memories /\ NoMemory \notin Memories
ASSUME BoundAssumption == {MaxEvents, MaxOutages, MaxLives, MaxSyncs} \subseteq Nat

VARIABLES
    up,             \* the graph can be reached
    events,         \* history: every feedback event made
    graph,          \* numbers of the :Feedback nodes
    queue,          \* numbers of the events in the outbox
    labels,         \* verdicts written to the memories' metadata
    learned,        \* _episodes_learned holds the episode
    local,          \* _local_feedback_counts
    scoped,         \* _context_feedback_counts of the context
    cache,          \* _pattern_priors and _context_pattern_priors
    mirror,         \* Pattern.prior in the graph
    syncs,          \* priors that threads are about to write there
    outages,        \* history: outages so far
    life,           \* history: lives of the process so far
    judged,         \* history: verdicts accepted
    cut,            \* history: those whose handler died before their event
    overruled,      \* history: judged windows that a later cycle dismissed
    diverged        \* history: local counts and events went different ways

store   == <<up, events, graph, queue, outages>>
priors  == <<local, scoped, cache, syncs>>
process == <<learned, life>>
verdicts == <<labels, judged, cut>>
vars    == <<store, priors, process, verdicts, mirror, overruled, diverged>>

Verdicts == {"confirm", "dismiss", "correction"}
Actions  == Verdicts \cup {"passive", "missed", "remark"}

\* The ground-truth label a verdict writes.
Flag(act) == IF act = "confirm" THEN "confirmed" ELSE "dismissed"

----------------------------------------------------------------------------
(* Counts and the priors made from them                                    *)

NoCounts == [confirm |-> 0, dismiss |-> 0]

\* n events more.
Add(counts, act, n) ==
    IF act \in {"confirm", "missed"}
      THEN [counts EXCEPT !.confirm = @ + n] ELSE [counts EXCEPT !.dismiss = @ + n]

Of(S, acts) == {i \in S : events[i].act \in acts}

\* get_feedback_counts: the sum of the events' weights, by action.
Counts(S) ==
    [confirm |-> Cardinality(Of(S, {"confirm", "missed"})),
     dismiss |-> Cardinality(Of(S, {"dismiss", "passive"}))]

\* _get_feedback_counts: the store decides, the local counts stand in for a
\* store that raises.
GlobalPrior  == IF up THEN Counts(graph) ELSE local
ContextPrior == IF up THEN Counts({i \in graph : events[i].keyed}) ELSE scoped

Init ==
    /\ up = TRUE
    /\ events = <<>> /\ graph = {} /\ queue = <<>>
    /\ labels = {} /\ learned = FALSE
    /\ local = NoCounts /\ scoped = NoCounts
    /\ cache = [global |-> NoCounts, context |-> NoCounts]
    /\ mirror = NoCounts /\ syncs = {}
    /\ outages = 0 /\ life = 1
    /\ judged = {} /\ cut = {} /\ overruled = {} /\ diverged = FALSE

----------------------------------------------------------------------------
(* The parts of the handlers                                               *)

\* The events as the handlers make them: without a context key.
Make(S, act) ==
    events' = events \o
        SetToSeq({[memory |-> m, act |-> act, keyed |-> FALSE, life |-> life] : m \in S})

Made == (Len(events) + 1)..Len(events')

\* Mutant: what cannot be written is dropped.
PersistOrDrop(ok) ==
    IF ok THEN graph' = graph \cup Made \cup Range(queue) /\ queue' = <<>>
          ELSE UNCHANGED <<graph, queue>>

\* add_feedback_event: a node and a flush of the outbox, or one more line.
Persist(ok) ==
    IF ok THEN /\ graph' = graph \cup Made \cup Range(queue)
               /\ queue' = <<>>
          ELSE /\ queue' = queue \o [k \in 1..Cardinality(Made) |-> Len(events) + k]
               /\ UNCHANGED graph

\* update_pattern_prior for n events, the local counts first: then the prior
\* is read from the store, cached, and handed to a thread that mirrors it.
Learn(act, n, scope) ==
    LET less(k) == [GlobalPrior' EXCEPT !.dismiss = @ - k]
    IN /\ local' = Add(local, act, n)
       /\ scoped' = IF scope THEN Add(scoped, act, n) ELSE scoped
       /\ cache' = [global |-> GlobalPrior',
                    context |-> IF scope THEN ContextPrior' ELSE cache.context]
       /\ syncs' = syncs \cup {GlobalPrior'} \cup {less(k) : k \in 1..(n - 1)}
       /\ Cardinality(syncs') <= MaxSyncs

\* The write is committed, and the process dies before the flush that follows.
Unflushed == graph' = graph \cup Made /\ UNCHANGED queue

\* The store's calls of a handler succeed up to the one named "at".
Breaks(at) ==
    /\ at # "never" => outages < MaxOutages
    /\ outages' = IF at = "never" THEN outages ELSE outages + 1

Fails(at) == up' = (at = "never") /\ Breaks(at)

\* The one call of a handler that begins whether the graph is up or not.
Reaches(ok) == IF up THEN Breaks(IF ok THEN "never" ELSE "event")
                     ELSE ~ok /\ UNCHANGED outages

\* Mutant: only a confirm remembers the episode.
RemembersConfirm(m, act) == m \in Episode /\ act = "confirm"

\* _should_apply_episode_learning: the first verdict of the episode marks it;
\* a severity correction asks for nothing and marks nothing.
Remembers(m, act) == m \in Episode /\ act # "correction"
Adjudicates(m, act) == ~(Remembers(m, act) /\ learned)

\* _update_memory, whose errors are swallowed.
Label(m, act, ok) == labels' = IF ok THEN labels \cup {<<m, Flag(act)>>} ELSE labels

----------------------------------------------------------------------------
(* The handlers                                                            *)

\* process_feedback finds the memory, so the graph is up when it begins.
Accept(m, act, at) ==
    /\ up /\ Fails(at)
    /\ Label(m, act, at # "label")
    /\ judged' = judged \cup {<<m, Flag(act)>>}
    /\ UNCHANGED <<life, mirror, cut, overruled, diverged>>

\* Confirm, dismiss or correct the severity of a memory: label, event, prior.
Judge(m, act, at) ==
    /\ Adjudicates(m, act) /\ Len(events) < MaxEvents
    /\ Accept(m, act, at)
    /\ learned' = (learned \/ Remembers(m, act))
    /\ Make({m}, act)
    /\ Persist(at \notin {"label", "event"})
    /\ IF act = "correction" THEN UNCHANGED priors ELSE Learn(act, 1, TRUE)

\* A later window of an episode already adjudicated: the label only.
JudgeAgain(m, act, at) ==
    /\ ~Adjudicates(m, act) /\ at \in {"label", "never"}
    /\ Accept(m, act, at)
    /\ UNCHANGED <<events, graph, queue, priors, learned>>

\* A comment, a label or tags: an event that is counted nowhere.
Remark(m, ok) ==
    /\ up /\ Len(events) < MaxEvents
    /\ Fails(IF ok THEN "never" ELSE "event")
    /\ Make({m}, "remark") /\ Persist(ok)
    /\ UNCHANGED <<priors, process, verdicts, mirror, overruled, diverged>>

\* Mutant: a dismissal does not count as a review.
ReviewedConfirmed(m) == up /\ \E i \in Of(graph, {"confirm", "passive"}) : events[i].memory = m

\* _has_feedback, FALSE when the store raises: it asks for events, and no label
\* that a verdict left on the memory is looked at.
Reviewed(m) == up /\ \E i \in graph : events[i].memory = m

\* Mutant: an event that could not be written is not learned from.
LearnPersisted(C, ok) ==
    IF ok THEN Learn("passive", Cardinality(C), TRUE) ELSE UNCHANGED priors

LearnPassive(C, ok) == Learn("passive", Cardinality(C), TRUE)

Overrules(S) == overruled' = overruled \cup {m \in S : \E v \in judged : v[1] = m}

\* attach_passive_outcome: a cycle ends over the windows in C.  The windows are
\* those of the first life; a cycle does not outlive the process that tracks it.
CycleEnds(C, ok) ==
    LET affected == {m \in C : ~Reviewed(m)} IN
    /\ life = 1
    /\ affected # {} /\ Len(events) + Cardinality(affected) <= MaxEvents
    /\ Reaches(ok) /\ up' = ok
    /\ Make(affected, "passive") /\ Persist(ok) /\ LearnPassive(affected, ok)
    /\ Overrules(affected)
    /\ UNCHANGED <<process, verdicts, mirror, diverged>>

\* A report of a missed event: local counts only if the event is not written.
Missed(ok) ==
    /\ Len(events) < MaxEvents
    /\ Reaches(ok) /\ up' = ok
    /\ Make({NoMemory}, "missed") /\ Persist(ok)
    /\ IF ok THEN UNCHANGED priors ELSE Learn("missed", 1, FALSE)
    /\ diverged' = (diverged \/ ok)
    /\ UNCHANGED <<process, verdicts, mirror, overruled>>

\* GET /scorer/priors: the cache is computed again from the store's keys.
Refresh ==
    /\ up /\ graph # {}
    /\ cache' = [cache EXCEPT !.global = Counts(graph)]
    /\ UNCHANGED <<store, local, scoped, syncs, process, verdicts, mirror, overruled, diverged>>

\* POST /scorer/reset-priors: the durable events stay.
Reset ==
    /\ local' = NoCounts /\ scoped' = NoCounts
    /\ cache' = [global |-> NoCounts, context |-> NoCounts]
    /\ diverged' = TRUE
    /\ UNCHANGED <<store, syncs, process, verdicts, mirror, overruled>>

----------------------------------------------------------------------------
(* The threads, the graph and the process                                  *)

\* A thread writes the prior it was given; an error is only logged.
Sync(p) ==
    /\ p \in syncs
    /\ syncs' = syncs \ {p}
    /\ mirror' = IF up THEN p ELSE mirror
    /\ UNCHANGED <<store, local, scoped, cache, process, verdicts, overruled, diverged>>

\* POST /graph-outbox/replay, or any write that flushes the outbox.
Replay ==
    /\ up /\ queue # <<>>
    /\ graph' = graph \cup {Head(queue)} /\ queue' = Tail(queue)
    /\ UNCHANGED <<up, events, outages, priors, process, verdicts, mirror, overruled, diverged>>

Outage  == /\ up /\ Fails("any")
           /\ UNCHANGED <<events, graph, queue, priors, process, verdicts, mirror, overruled, diverged>>
Recover == /\ ~up /\ up' = TRUE
           /\ UNCHANGED <<events, graph, queue, outages>>
           /\ UNCHANGED <<priors, process, verdicts, mirror, overruled, diverged>>

\* The process starts again, when the graph can be reached.  The counts are loaded
\* from the file, which every update saves; the episodes and the threads are gone;
\* the cache is hydrated from the store.
Restart ==
    /\ life < MaxLives /\ life' = life + 1
    /\ up' = TRUE /\ learned' = FALSE /\ syncs' = {}
    /\ cache' = IF graph' = {} THEN cache ELSE [cache EXCEPT !.global = Counts(graph)']
    /\ UNCHANGED <<local, scoped, mirror>>

Crash ==
    /\ UNCHANGED <<events, graph, queue, outages, verdicts, overruled, diverged>>
    /\ Restart

\* The process dies in the handler of a verdict, before the transaction of the
\* event is committed and before the event is queued: only the label may be there.
DiesBeforeEvent(m, act, at) ==
    /\ up /\ Adjudicates(m, act) /\ at \in {"label", "never"}
    /\ Breaks(at) /\ Label(m, act, at # "label")
    /\ judged' = judged \cup {<<m, Flag(act)>>}
    /\ cut' = cut \cup {<<m, Flag(act)>>}
    /\ UNCHANGED <<events, graph, queue, overruled, diverged>>
    /\ Restart

\* It dies when the event is written or queued, before the prior follows.
DiesAfterEvent(m, act, at) ==
    /\ up /\ Adjudicates(m, act) /\ Len(events) < MaxEvents
    /\ Breaks(at) /\ Label(m, act, at # "label")
    /\ judged' = judged \cup {<<m, Flag(act)>>}
    /\ Make({m}, act)
    /\ Persist(at = "never") \/ (at = "never" /\ Unflushed)
    /\ diverged' = (diverged \/ act # "correction")
    /\ UNCHANGED <<cut, overruled>>
    /\ Restart

\* The same for a missed event, and for the last window a cycle came to.
ReportDies(m, act, ok) ==
    /\ \/ act = "passive" /\ m \in Memories /\ life = 1 /\ ~Reviewed(m)
       \/ act = "missed" /\ m = NoMemory
    /\ Len(events) < MaxEvents /\ Reaches(ok)
    /\ Make({m}, act)
    /\ Persist(ok) \/ (ok /\ Unflushed)
    /\ Overrules({m}) /\ diverged' = TRUE
    /\ UNCHANGED verdicts
    /\ Restart

Next ==
    \/ \E m \in Memories, act \in Verdicts :
         \/ \E at \in {"label", "event", "counts", "never"} :
              Judge(m, act, at) \/ JudgeAgain(m, act, at)
         \/ \E at \in {"label", "never"} : DiesBeforeEvent(m, act, at)
         \/ \E at \in {"label", "event", "never"} : DiesAfterEvent(m, act, at)
    \/ \E m \in Memories \cup {NoMemory}, act \in {"passive", "missed"}, ok \in BOOLEAN :
         ReportDies(m, act, ok)
    \/ \E m \in Memories, ok \in BOOLEAN : Remark(m, ok)
    \/ \E C \in SUBSET Memories, ok \in BOOLEAN : CycleEnds(C, ok)
    \/ \E ok \in BOOLEAN : Missed(ok)
    \/ \E p \in syncs : Sync(p)
    \/ Refresh \/ Reset \/ Replay \/ Outage \/ Recover \/ Crash

Spec == Init /\ [][Next]_vars

----------------------------------------------------------------------------
(* Properties                                                              *)

CountsType == [confirm : Nat, dismiss : Nat]

\* The state has the shapes the code gives it.
TypeOK ==
    /\ {up, learned, diverged} \subseteq BOOLEAN
    /\ events \in Seq([memory : Memories \cup {NoMemory}, act : Actions,
                       keyed : BOOLEAN, life : Nat])
    /\ graph \cup Range(queue) \subseteq DOMAIN events
    /\ {labels, judged, cut} \subseteq SUBSET (Memories \X {"confirmed", "dismissed"})
    /\ overruled \subseteq Memories
    /\ {local, scoped, mirror} \cup syncs \subseteq CountsType
    /\ cache \in [global : CountsType, context : CountsType]
    /\ {outages, life} \subseteq Nat

\* While the graph stays reachable every verdict leaves its ground-truth
\* label, those of windows that are not learned from included.
LabelsInService == outages = 0 => labels = judged

Plain == Of(DOMAIN events, {"confirm", "dismiss"})

\* A verdict has an event of its own, or it is one more verdict on an incident that
\* has been learned from.
HasEvent(v) == \E i \in Of(DOMAIN events, Verdicts) : <<events[i].memory, Flag(events[i].act)>> = v

LaterWindow(m) == m \in Episode /\ \E i \in Plain : events[i].memory \in Episode

\* Whatever call of whatever handler fails, in whatever order writes and replays
\* come, and wherever the process dies: a verdict that was accepted has its event,
\* unless its incident was learned from before or the process died between the
\* label and the event, which leaves the label alone; and every event that was
\* made is in the graph or still in the outbox, as long as the outbox keeps what
\* it promises in GraphOutbox.
EventsKept ==
    /\ graph \cup Range(queue) = DOMAIN events
    /\ \A v \in judged : HasEvent(v) \/ LaterWindow(v[1]) \/ v \in cut
    /\ LabelsInService

\* The outbox of this model keeps to what GraphOutbox is shown to implement: events
\* reach the graph in the order they were made unless they are written at once, and
\* none is written while it waits.  Here nothing voids the promise.
Delivery == INSTANCE GraphDelivery WITH
    Writes  <- 1..MaxEvents,
    applied <- graph,
    waiting <- {[seq |-> n, id |-> n] : n \in Range(queue)},
    void    <- FALSE
EventsDelivered == Delivery!Spec

\* Episode learning: the windows of one incident, judged one after another
\* and in whatever mix of verdicts, corrections and outages, move the prior
\* once in a life of the process.
EpisodeLearnedOnce ==
    \A i, j \in Plain :
        /\ {events[i].memory, events[j].memory} \subseteq Episode
        /\ events[i].life = events[j].life
        => i = j

\* The counts that stand in for the store during an outage are those of all
\* the events, the queued ones included, so an outage makes scoring neither
\* forget nor double a verdict.  Missed reports, a crash inside a handler and
\* a reset of the priors are where the code lets them part.
FallbackAgrees == ~diverged => local = Counts(DOMAIN events)

PassiveEvents == Of(DOMAIN events, {"passive"})

PassiveAfterReview ==
    \E i \in DOMAIN events, j \in PassiveEvents :
        i < j /\ events[i].memory = events[j].memory

\* While the graph stays reachable, the end of a cycle dismisses no window that
\* has had an event, the operator's or an earlier cycle's.  A window that the
\* operator judged it dismisses in one case only: a later window of an incident
\* that was learned from before, whose verdict left its label and no event for
\* _has_feedback to find.  (In an outage any window is: _has_feedback then answers
\* no, and it never looks into the outbox.)
PassiveOnlyUnreviewedInService ==
    outages = 0 => ~PassiveAfterReview /\ \A m \in overruled : LaterWindow(m)

\* update_pattern_prior: the scalar prior is mirrored "so graph views do not
\* drift away from the scorer's source-of-truth prior state".  Claimed here only
\* where nothing but verdicts and cycles has moved the prior.
MirrorCurrent == ~diverged /\ syncs = {} => mirror = cache.global

\* "After a confirm, the prior for the involved pattern keys moves toward 1.0":
\* for the scores given in the context of the memory that was confirmed.
ConfirmMovesPrior ==
    \A i \in Plain : i \in graph /\ ~diverged => ContextPrior # NoCounts
====
