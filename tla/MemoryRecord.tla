---- MODULE MemoryRecord ----
(***************************************************************************)
(* One memory of the graph and the journal of what operators did to it     *)
(* (memory/feedback.py, memory/feedback_async.py, memory/orchestrator.py,  *)
(* storage/neo4j_store.py).                                                *)
(*                                                                         *)
(* Feedback requests run one after the other on the event loop; the        *)
(* explanation, the documentation links and the votes on them are written  *)
(* by threads.  An update reads the memory up to three times, changes a    *)
(* part of the copy and writes all of it back, each in a transaction of    *)
(* its own, which is one step.  Links and votes are written by             *)
(* transactions that read the metadata and then set all of them: two       *)
(* steps, since a read takes no lock.  After its side effects a request    *)
(* is appended to a JSONL journal, entered into the history of operators   *)
(* and told to the connected pages, each of which gets half a second.      *)
(***************************************************************************)
EXTENDS Naturals, Sequences, FiniteSets

CONSTANTS
    Verdicts,    \* confirm and dismiss requests
    Comments,    \* comment requests
    Votes,       \* votes on the link
    Passes,      \* passes over the graph outbox at the same time
    Pages,       \* web sockets on the feedback stream
    Gone,        \* there is no such memory
    Unlinked,    \* the memory has no documentation link
    Free,        \* no request holds the event loop
    MaxHistory,  \* actions kept per operator (1000)
    MaxFaults    \* bound on the outages of the graph and crashes of the process

Requests == Verdicts \cup Comments

ASSUME DisjointAssumption == Verdicts \cap Comments = {}
ASSUME NatAssumption ==
    MaxFaults \in Nat /\ MaxHistory \in Nat \ {0}

Metadata == [labels : SUBSET Verdicts, explained : BOOLEAN, votes : Nat \cup {Unlinked}]
Memory   == [notes : SUBSET Comments, meta : Metadata]

ASSUME DistinctAssumption ==
    /\ Gone \notin Memory /\ Unlinked \notin Nat
    /\ Free \notin Requests /\ Free \notin Votes

Fresh == [notes |-> {},
          meta  |-> [labels |-> {}, explained |-> FALSE, votes |-> Unlinked]]

VARIABLES
    \* the graph
    rec,        \* the memory
    up,         \* the server answers
    \* the requests
    loop,       \* the one that holds the event loop
    stage,      \* where each stands
    copy,       \* the annotation and the metadata it will write back
    owed,       \* pages it waits for
    \* the threads
    expl,       \* stage and copy of the explanation thread
    direct,     \* stage and copy of the thread that writes the links
    queued,     \* its intent is in the outbox
    pass,       \* stage and copy of the passes over the outbox
    voting,     \* the vote that holds the lock, and its copy
    \* the journal
    log,        \* the decodable lines
    torn,       \* the file ends in a partial line
    past,       \* history of the operators
    \* history
    faults,     \* outages and crashes so far
    cast,       \* votes that were accepted
    swallowed,  \* requests whose update failed without a trace in the answer
    unlogged,   \* requests whose line was not written or cannot be read
    causes      \* which schedules that overwrite a memory have happened

graph   == <<rec, up>>
request == <<loop, stage, copy, owed>>
links   == <<direct, queued, pass, voting>>
journal == <<log, torn, past>>
history == <<faults, cast, swallowed, unlogged, causes>>
vars    == <<graph, request, expl, links, journal, history>>

\* The thread is over.
Over == [at |-> "over", copy |-> Fresh]

\* A transaction that has nothing to set, and the lock on votes when it is free.
Bare(at) == [at |-> at, meta |-> Fresh.meta]
NoVote   == [by |-> Free, meta |-> Fresh.meta]

Init ==
    /\ rec = Fresh /\ up = TRUE
    /\ loop = Free
    /\ stage = [r \in Requests |-> "idle"]
    /\ copy = [r \in Requests |-> Fresh]
    /\ owed = [r \in Requests |-> {}]
    /\ expl = [at |-> "idle", copy |-> Fresh]
    /\ direct = Bare("idle") /\ queued = FALSE
    /\ pass = [p \in Passes |-> Bare("idle")] /\ voting = NoVote
    /\ log = <<>> /\ torn = FALSE /\ past = <<>>
    /\ faults = 0
    /\ cast = {} /\ swallowed = {} /\ unlogged = {} /\ causes = {}

\* A read answers with a memory.
Found == up /\ rec # Gone

\* The parts that changed, or went, since copy c of them was read.
Overwritten(c) ==
    (IF rec = Gone \/ rec.notes # c.notes THEN {"notes"} ELSE {})
    \cup (IF rec = Gone \/ rec.meta # c.meta THEN {"metadata"} ELSE {})

----------------------------------------------------------------------------
(* Feedback requests                                                       *)

\* process_feedback reads the memory, a comment adds to the annotation it finds
\* here; an unreachable graph is answered like an unknown memory.
Receive(r) ==
    /\ loop = Free /\ stage[r] = "idle"
    /\ \/ /\ Found
          /\ loop' = r
          /\ stage' = [stage EXCEPT ![r] = "read"]
          /\ copy' = IF r \in Comments THEN [copy EXCEPT ![r].notes = rec.notes] ELSE copy
       \/ /\ ~Found
          /\ stage' = [stage EXCEPT ![r] = "refused"]
          /\ UNCHANGED <<loop, copy>>
    /\ UNCHANGED <<graph, owed, expl, links, journal, history>>

\* An update that finds no memory ends there, and its request goes on.
GiveUp(r) ==
    /\ stage[r] \in {"read", "meta"} /\ ~Found
    /\ stage' = [stage EXCEPT ![r] = "updated"]
    /\ swallowed' = swallowed \cup {r}
    /\ copy' = [copy EXCEPT ![r] = Fresh]
    /\ UNCHANGED <<graph, loop, owed, expl, links, journal, faults, cast,
                   unlogged, causes>>

\* _update_memory reads the metadata that it adds to ...
ReadMeta(r) ==
    /\ stage[r] = "read" /\ Found
    /\ stage' = [stage EXCEPT ![r] = "meta"]
    /\ copy' = [copy EXCEPT ![r].meta = rec.meta]
    /\ UNCHANGED <<graph, loop, owed, expl, links, journal, history>>

\* ... and update everything that the request does not change.
ReadBase(r) ==
    /\ stage[r] = "meta" /\ Found
    /\ stage' = [stage EXCEPT ![r] = "base"]
    /\ copy' = IF r \in Verdicts THEN [copy EXCEPT ![r].notes = rec.notes] ELSE copy
    /\ UNCHANGED <<graph, loop, owed, expl, links, journal, history>>

\* A verdict is a label in the metadata, a comment is added to the annotation.
Merged(r) ==
    [notes |-> copy[r].notes \cup ({r} \cap Comments),
     meta  |-> [copy[r].meta EXCEPT !.labels = @ \cup ({r} \cap Verdicts)]]

\* The write of a request; an error is logged and the request goes on.
Update(r) ==
    /\ stage[r] = "base"
    /\ stage' = [stage EXCEPT ![r] = "updated"]
    /\ copy' = [copy EXCEPT ![r] = Fresh]
    /\ \/ /\ up
          /\ rec' = Merged(r)
          /\ causes' = causes \cup Overwritten(copy[r])
          /\ UNCHANGED swallowed
       \/ /\ ~up
          /\ swallowed' = swallowed \cup {r}
          /\ UNCHANGED <<rec, causes>>
    /\ UNCHANGED <<up, loop, owed, expl, links, journal, faults, cast, unlogged>>

\* The history keeps the newest actions.
Newest(s) == IF Len(s) > MaxHistory THEN SubSeq(s, Len(s) - MaxHistory + 1, Len(s)) ELSE s

\* A request waits for pages P, and is answered when there is none to wait for.
Awaits(r, P) ==
    /\ owed' = [owed EXCEPT ![r] = P]
    /\ stage' = [stage EXCEPT ![r] = IF P = {} THEN "answered" ELSE "telling"]

\* The callback: a line, which may fail or be glued to a partial one, and the
\* history.  The wait for the connected pages gives the event loop free.
Journal(r) ==
    /\ stage[r] = "updated"
    /\ loop' = Free
    /\ past' = Newest(Append(past, r))
    /\ \E connected \in SUBSET Pages : Awaits(r, connected)
    /\ \/ /\ log' = IF torn THEN log ELSE Append(log, r)
          /\ unlogged' = IF torn THEN unlogged \cup {r} ELSE unlogged
          /\ torn' = FALSE
       \/ /\ torn' \in {torn, TRUE}
          /\ unlogged' = unlogged \cup {r}
          /\ UNCHANGED log
    /\ UNCHANGED <<graph, copy, expl, links, faults, cast, swallowed, causes>>

\* A page that takes the event ...
Told(r, p) ==
    /\ stage[r] = "telling" /\ p \in owed[r]
    /\ Awaits(r, owed[r] \ {p})
    /\ UNCHANGED <<graph, loop, copy, expl, links, journal, history>>

\* Mutant: a page that does not take the event is tried again.
TimesOutRetried(r, p) ==
    /\ stage[r] = "telling" /\ p \in owed[r]
    /\ UNCHANGED vars

\* ... and one that does not within its time is waited for no longer.
TimesOut(r, p) ==
    /\ stage[r] = "telling" /\ p \in owed[r]
    /\ Awaits(r, owed[r] \ {p})
    /\ UNCHANGED <<graph, loop, copy, expl, links, journal, history>>

\* DELETE runs on the event loop, in one transaction.
Delete ==
    /\ loop = Free /\ Found
    /\ rec' = Gone
    /\ UNCHANGED <<up, request, expl, links, journal, history>>

----------------------------------------------------------------------------
(* Threads                                                                 *)

\* _persist_explanation_on_memory reads the memory and changes its metadata;
\* update reads the rest again.  An error or an unknown memory ends it.
ExplainReads ==
    /\ \/ /\ expl.at = "idle" /\ Found
          /\ expl' = [at |-> "meta", copy |-> [Fresh EXCEPT !.meta = rec.meta]]
       \/ /\ expl.at = "meta" /\ Found
          /\ expl' = [expl EXCEPT !.at = "base", !.copy.notes = rec.notes]
       \/ expl.at \in {"idle", "meta"} /\ ~Found /\ expl' = Over
    /\ UNCHANGED <<graph, request, links, journal, history>>

\* Mutant: the write replaces the metadata.
ExplainedAnew == [expl.copy EXCEPT !.meta = [Fresh.meta EXCEPT !.explained = TRUE]]

\* The second copy with the metadata of the first.
Explained == [expl.copy EXCEPT !.meta.explained = TRUE]

\* The write also creates a memory that was deleted since.
Explain ==
    /\ expl.at = "base"
    /\ expl' = Over
    /\ \/ /\ up
          /\ rec' = Explained
          /\ causes' = causes \cup Overwritten(expl.copy)
       \/ ~up /\ UNCHANGED <<rec, causes>>
    /\ UNCHANGED <<up, request, links, journal, faults, cast, swallowed, unlogged>>

----------------------------------------------------------------------------
(* The links and the votes on them                                         *)

\* The first statement of a transaction reads the metadata; of an unknown memory
\* nothing is set, and the transaction is at its end.
Read(end) == IF rec = Gone THEN Bare(end) ELSE [at |-> "read", meta |-> rec.meta]

\* The second one, after metadata c were read, sets all of them to m, whatever
\* was committed in between; of an unknown memory nothing.
Sets(c, m) ==
    /\ up
    /\ rec' = IF rec = Gone THEN Gone ELSE [rec EXCEPT !.meta = m]

Stale(c) == IF rec # Gone /\ rec.meta # c THEN {"metadata"} ELSE {}

\* The links that an explanation found, which have no votes.
Linked(c) == [c EXCEPT !.votes = 0]

\* persist_doc_links writes the links and then passes over the outbox: an error
\* of either puts the intent there, if that does not fail too.
LinkReads ==
    /\ up /\ direct.at = "idle"
    /\ direct' = Read("over")
    /\ queued' \in (IF rec = Gone THEN BOOLEAN ELSE {queued})
    /\ UNCHANGED <<graph, request, expl, pass, voting, journal, history>>

LinkWrites ==
    /\ direct.at = "read"
    /\ Sets(direct.meta, Linked(direct.meta))
    /\ causes' = causes \cup Stale(direct.meta)
    /\ direct' = Bare("over") /\ queued' \in BOOLEAN
    /\ UNCHANGED <<up, request, expl, pass, voting, journal, faults, cast,
                   swallowed, unlogged>>

LinkFails ==
    /\ direct.at \in {"idle", "read"} /\ ~up
    /\ direct' = Bare("over") /\ queued' \in BOOLEAN
    /\ UNCHANGED <<graph, request, expl, pass, voting, journal, history>>

\* A pass over the outbox applies the intent in a transaction.  Passes take it
\* at the same time and again and again: an acknowledgement may fail or come too
\* late, and a pass that acknowledges an earlier intent puts the cursor back.
PassReads(p) ==
    /\ queued /\ up /\ pass[p].at = "idle"
    /\ pass' = [pass EXCEPT ![p] = Read("idle")]
    /\ UNCHANGED <<graph, request, expl, direct, queued, voting, journal, history>>

PassWrites(p) ==
    /\ pass[p].at = "read"
    /\ Sets(pass[p].meta, Linked(pass[p].meta))
    /\ causes' = causes \cup Stale(pass[p].meta) \cup (IF cast # {} THEN {"relinked"} ELSE {})
    /\ pass' = [pass EXCEPT ![p] = Bare("idle")]
    /\ UNCHANGED <<up, request, expl, direct, queued, voting, journal, faults, cast,
                   swallowed, unlogged>>

\* A pass ends with the first error.
PassFails(p) ==
    /\ pass[p].at = "read" /\ ~up
    /\ pass' = [pass EXCEPT ![p] = Bare("idle")]
    /\ UNCHANGED <<graph, request, expl, direct, queued, voting, journal, history>>

\* set_doc_link_feedback counts a vote in a transaction, one vote at a time, ...
VoteReads(v) ==
    /\ v \notin cast /\ voting.by = Free /\ Found
    /\ voting' = [by |-> v, meta |-> rec.meta]
    /\ UNCHANGED <<graph, request, expl, direct, queued, pass, journal, history>>

\* Mutant: a vote makes the link that it misses.
VoteUnlinked(v) ==
    /\ voting.by = v
    /\ LET c == voting.meta IN
         /\ Sets(c, [c EXCEPT !.votes = IF @ = Unlinked THEN 1 ELSE @ + 1])
         /\ causes' = causes \cup Stale(c)
    /\ voting' = NoVote /\ cast' = cast \cup {v}
    /\ UNCHANGED <<up, request, expl, direct, queued, pass, journal, faults, swallowed,
                   unlogged>>

\* ... on a link that the metadata have.
VoteWrites(v) ==
    /\ voting.by = v /\ voting.meta.votes # Unlinked
    /\ LET c == voting.meta IN
         /\ Sets(c, [c EXCEPT !.votes = @ + 1])
         /\ causes' = causes \cup Stale(c)
    /\ voting' = NoVote /\ cast' = cast \cup {v}
    /\ UNCHANGED <<up, request, expl, direct, queued, pass, journal, faults, swallowed,
                   unlogged>>

\* There is no link to vote on, or the transaction fails.
VoteEnds ==
    /\ voting.by # Free /\ (voting.meta.votes = Unlinked \/ ~up)
    /\ voting' = NoVote
    /\ UNCHANGED <<graph, request, expl, direct, queued, pass, journal, history>>

----------------------------------------------------------------------------
(* Faults                                                                  *)

Outage ==
    /\ up /\ faults < MaxFaults
    /\ up' = FALSE /\ faults' = faults + 1
    /\ UNCHANGED <<rec, request, expl, links, journal, cast, swallowed, unlogged,
                   causes>>

Recover ==
    /\ ~up /\ up' = TRUE
    /\ UNCHANGED <<rec, request, expl, links, journal, history>>

Busy(r) == stage[r] \notin {"idle", "refused", "answered", "lost"}

\* Mutant: the history begins anew.
ReloadedEmpty(f) == <<>>

\* load_from_outbox reads every line, also those before the cursor.
Reloaded(f) == Newest(f)

\* The process dies, in the middle of a line or not; the next one reloads the
\* history.  What was requested gets no answer.
Crash ==
    /\ faults < MaxFaults /\ faults' = faults + 1
    /\ torn' \in {torn, TRUE}
    /\ past' = Reloaded(log)
    /\ loop' = Free
    /\ stage' = [r \in Requests |-> IF Busy(r) THEN "lost" ELSE stage[r]]
    /\ owed' = [r \in Requests |-> {}]
    /\ copy' = [r \in Requests |-> Fresh]
    /\ expl' = IF expl.at \in {"meta", "base"} THEN Over ELSE expl
    /\ direct' = IF direct.at = "idle" THEN direct ELSE Bare("over")
    /\ pass' = [p \in Passes |-> Bare("idle")] /\ voting' = NoVote
    /\ UNCHANGED <<graph, queued, log, cast, swallowed, unlogged, causes>>

----------------------------------------------------------------------------
Next ==
    \/ \E r \in Requests :
         \/ Receive(r) \/ GiveUp(r) \/ ReadMeta(r) \/ ReadBase(r) \/ Update(r)
         \/ Journal(r)
         \/ \E p \in Pages : Told(r, p) \/ TimesOut(r, p)
    \/ Delete \/ ExplainReads \/ Explain
    \/ LinkReads \/ LinkWrites \/ LinkFails
    \/ \E p \in Passes : PassReads(p) \/ PassWrites(p) \/ PassFails(p)
    \/ (\E v \in Votes : VoteReads(v) \/ VoteWrites(v)) \/ VoteEnds
    \/ Outage \/ Recover \/ Crash

Spec == Init /\ [][Next]_vars

\* A request that was received is worked on, and the clock goes on.
FairSpec ==
    /\ Spec
    /\ \A r \in Requests :
         /\ WF_vars(GiveUp(r) \/ ReadMeta(r) \/ ReadBase(r) \/ Update(r) \/ Journal(r))
         /\ \A p \in Pages : WF_vars(TimesOut(r, p))

----------------------------------------------------------------------------
(* Properties                                                              *)

GraphOK == rec \in Memory \cup {Gone} /\ up \in BOOLEAN

RequestsOK ==
    /\ loop \in Requests \cup {Free}
    /\ stage \in [Requests -> {"idle", "read", "meta", "base", "updated", "telling",
                               "answered", "refused", "lost"}]
    /\ copy \in [Requests -> Memory] /\ owed \in [Requests -> SUBSET Pages]

ThreadsOK ==
    /\ expl \in [at : {"idle", "meta", "base", "over"}, copy : Memory]
    /\ queued \in BOOLEAN /\ direct \in [at : {"idle", "read", "over"}, meta : Metadata]
    /\ pass \in [Passes -> [at : {"idle", "read"}, meta : Metadata]]
    /\ voting \in [by : Votes \cup {Free}, meta : Metadata]

JournalOK ==
    /\ log \in Seq(Requests) /\ past \in Seq(Requests) /\ Len(past) <= MaxHistory
    /\ torn \in BOOLEAN

HistoryOK ==
    /\ faults \in 0..MaxFaults
    /\ cast \subseteq Votes /\ swallowed \subseteq Requests /\ unlogged \subseteq Requests
    /\ causes \subseteq {"notes", "metadata", "relinked"}

\* The memory, the copies and the journal have the shapes the code gives them.
TypeOK == GraphOK /\ RequestsOK /\ ThreadsOK /\ JournalOK /\ HistoryOK

\* Its update has been written, and no error has kept it from that.
Written(r) == stage[r] \in {"updated", "telling", "answered"} /\ r \notin swallowed

\* What an operator was answered is in the memory until the memory is deleted,
\* also when the explanation and the links are written meanwhile: unless a copy
\* was written over newer metadata, or over a newer annotation.
AnswersHold ==
    rec # Gone =>
        /\ "metadata" \notin causes =>
             \A r \in Verdicts : Written(r) => r \in rec.meta.labels
        /\ "notes" \notin causes =>
             \A r \in Comments : Written(r) => r \in rec.notes

\* Every accepted vote is counted, over outages, replays of the links and
\* crashes, unless the metadata were overwritten or a pass over the outbox wrote
\* the links again behind it: one that two passes had taken, or whose direct
\* write had been committed, or that was not acknowledged, or was once more.
VotesCount ==
    /\ causes \cap {"metadata", "relinked"} = {}
    /\ rec # Gone /\ rec.meta.votes # Unlinked
    => rec.meta.votes = Cardinality(cast)

\* The history of the operators is what the journal has, up to its bound, over
\* crashes, unless a line could not be written or read.
HistoryIsJournal == unlogged = {} => past = Newest(log)

\* Every request that finds the memory is answered, whatever the pages, the
\* threads and the graph do, unless the process dies.
AnswerComes ==
    \A r \in Requests : stage[r] = "read" ~> stage[r] \in {"answered", "lost"}

\* orchestrator.py: "pass the full merged metadata so existing fields are
\* preserved".  The write of an explanation removes no label.
FieldsPreserved ==
    [][expl.at = "base" /\ expl'.at = "over" /\ Found =>
         rec.meta.labels \subseteq rec'.meta.labels]_vars

\* feedback_async.py: an action is journalled "before handler-side side-effects
\* fire, so we never lose an operator action on a crash".
NoActionLost ==
    rec # Gone =>
        \A r \in rec.meta.labels \cup rec.notes :
            stage[r] = "lost" => r \in unlogged \/ \E n \in DOMAIN log : log[n] = r
====
