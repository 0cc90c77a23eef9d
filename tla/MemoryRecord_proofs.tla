---- MODULE MemoryRecord_proofs ----
(***************************************************************************)
(* What operators were answered stays in the memory, votes are counted and *)
(* the history of the operators is the journal's (MemoryRecord), for any   *)
(* number of requests, votes, outages and crashes.                         *)
(*                                                                         *)
(* A write that is not recorded among the causes replaces a part by a copy *)
(* equal to it, with what it adds; so that each part of the invariant      *)
(* survives it.  Of the votes, the invariant needs that nobody votes       *)
(* before the direct write of the links is over (Unvoted), and that the    *)
(* vote that holds the lock was not counted yet (OnceOnly).                *)
(***************************************************************************)
EXTENDS MemoryRecord, FiniteSetTheorems, SequenceTheorems, TLAPS

USE DisjointAssumption, NatAssumption, DistinctAssumption
    DEF DisjointAssumption, NatAssumption, DistinctAssumption

Stages == {"idle", "read", "meta", "base", "updated", "telling", "answered", "refused", "lost"}

LabelsHold ==
    rec # Gone /\ "metadata" \notin causes =>
        \A r \in Verdicts : Written(r) => r \in rec.meta.labels

NotesHold ==
    rec # Gone /\ "notes" \notin causes =>
        \A r \in Comments : Written(r) => r \in rec.notes

\* Nobody has voted, and nobody has a link to vote on.
NoVotes ==
    /\ cast = {} /\ (rec # Gone => rec.meta.votes = Unlinked)
    /\ voting.by # Free => voting.meta.votes = Unlinked

Unvoted ==
    "metadata" \notin causes /\ direct.at \in {"idle", "read"} =>
        NoVotes /\ ~queued /\ \A p \in Passes : pass[p].at = "idle"

OnceOnly == IsFiniteSet(cast) /\ voting.by \notin cast

IInv ==
    /\ TypeOK /\ LabelsHold /\ NotesHold /\ HistoryIsJournal
    /\ Unvoted /\ OnceOnly /\ VotesCount

----------------------------------------------------------------------------
(* Steps                                                                   *)

\* A step of request r, and one of the links and the votes on them.
Asking(r) ==
    \/ Receive(r) \/ GiveUp(r) \/ ReadMeta(r) \/ ReadBase(r) \/ Update(r) \/ Journal(r)
    \/ \E p \in Pages : Told(r, p) \/ TimesOut(r, p)

LinkStep ==
    \/ LinkReads \/ LinkWrites \/ LinkFails
    \/ \E p \in Passes : PassReads(p) \/ PassWrites(p) \/ PassFails(p)
    \/ (\E v \in Votes : VoteReads(v) \/ VoteWrites(v)) \/ VoteEnds

LEMMA Steps ==
    ASSUME [Next]_vars
    PROVE  \/ \E r \in Requests : Asking(r)
           \/ LinkStep \/ Delete \/ ExplainReads \/ Explain
           \/ Outage \/ Recover \/ Crash \/ UNCHANGED vars
  BY DEF Next, Asking, LinkStep

\* A request has nothing to do with the links, nor they with it.
LEMMA AskingOnly ==
    ASSUME NEW r, Asking(r)
    PROVE  UNCHANGED <<up, expl, links, faults, cast>>
  BY DEF Asking, Receive, GiveUp, ReadMeta, ReadBase, Update, Journal, Told, TimesOut, Awaits,
         graph, links, history

LEMMA LinkStepOnly ==
    ASSUME LinkStep
    PROVE  UNCHANGED <<up, request, expl, journal, faults, swallowed, unlogged>>
<1>1. CASE LinkReads \/ LinkWrites \/ LinkFails
  BY <1>1 DEF LinkReads, LinkWrites, LinkFails, graph, history
<1>2. ASSUME NEW p, PassReads(p) \/ PassWrites(p) \/ PassFails(p)
      PROVE  UNCHANGED <<up, request, expl, journal, faults, swallowed, unlogged>>
  BY <1>2 DEF PassReads, PassWrites, PassFails, graph, history
<1>3. ASSUME NEW v, VoteReads(v) \/ VoteWrites(v) \/ VoteEnds
      PROVE  UNCHANGED <<up, request, expl, journal, faults, swallowed, unlogged>>
  BY <1>3 DEF VoteReads, VoteWrites, VoteEnds, graph, history
<1> QED
  BY <1>1, <1>2, <1>3 DEF LinkStep

\* Links are written by three of these steps, and votes are cast by one.
LEMMA LinkSteps ==
    ASSUME LinkStep
    PROVE  \/ UNCHANGED <<rec, cast, causes>>
           \/ LinkWrites \/ \E p \in Passes : PassWrites(p)
           \/ \E v \in Votes : VoteWrites(v)
  BY DEF LinkStep, LinkReads, LinkFails, PassReads, PassFails, VoteReads, VoteEnds,
         graph, history

----------------------------------------------------------------------------
(* Types                                                                   *)

LEMMA FreshMemory == Fresh \in Memory
  BY DEF Fresh, Memory, Metadata

LEMMA TypeInit == Init => TypeOK
<1> SUFFICES ASSUME Init PROVE TypeOK
  OBVIOUS
<1>1. GraphOK
  BY FreshMemory DEF Init, GraphOK
<1>2. RequestsOK
  BY FreshMemory DEF Init, RequestsOK
<1>3. ThreadsOK
  BY FreshMemory DEF Init, ThreadsOK, Bare, NoVote, Memory
<1>4. JournalOK
  <2>1. log = <<>> /\ past = <<>>
    BY DEF Init
  <2>2. log \in Seq(Requests) /\ past \in Seq(Requests) /\ Len(past) = 0
    BY <2>1
  <2>3. torn \in BOOLEAN
    BY DEF Init
  <2>4. 0 <= MaxHistory
    OBVIOUS
  <2> QED
    BY <2>2, <2>3, <2>4 DEF JournalOK
<1>5. HistoryOK
  BY DEF Init, HistoryOK
<1> QED
  BY <1>1, <1>2, <1>3, <1>4, <1>5 DEF TypeOK

\* What is written is a memory.
LEMMA MergedMemory ==
    ASSUME TypeOK, NEW r \in Requests
    PROVE  /\ Merged(r) \in Memory
           /\ Merged(r).notes = copy[r].notes \cup ({r} \cap Comments)
           /\ Merged(r).meta.labels = copy[r].meta.labels \cup ({r} \cap Verdicts)
           /\ Merged(r).meta.votes = copy[r].meta.votes
<1>1. copy[r] \in Memory
  BY DEF TypeOK, RequestsOK
<1> QED
  BY <1>1 DEF Merged, Memory, Metadata, Requests

LEMMA ExplainedMemory ==
    ASSUME TypeOK
    PROVE  /\ Explained \in Memory
           /\ Explained.notes = expl.copy.notes
           /\ Explained.meta.labels = expl.copy.meta.labels
           /\ Explained.meta.votes = expl.copy.meta.votes
<1>1. expl.copy \in Memory
  BY DEF TypeOK, ThreadsOK
<1> QED
  BY <1>1 DEF Explained, Memory, Metadata

LEMMA BareMetadata == Fresh.meta \in Metadata /\ Fresh.meta.votes = Unlinked
  BY DEF Fresh, Metadata

LEMMA LinkedMetadata ==
    ASSUME NEW c \in Metadata
    PROVE  Linked(c) \in Metadata /\ Linked(c).labels = c.labels /\ Linked(c).votes = 0
  BY DEF Linked, Metadata

\* What a thread reads.
LEMMA ReadMetadata ==
    ASSUME TypeOK, NEW end
    PROVE  \/ Read(end) = Bare(end) /\ rec = Gone
           \/ /\ Read(end).at = "read" /\ Read(end).meta = rec.meta
              /\ Read(end) = [at |-> "read", meta |-> rec.meta]
              /\ rec # Gone /\ rec \in Memory /\ rec.meta \in Metadata
  BY DEF Read, TypeOK, GraphOK, Memory

\* The second statement of a transaction writes labels and annotation back as it
\* found them, unless it is recorded.
LEMMA SetsKeep ==
    ASSUME TypeOK, NEW c \in Metadata, NEW m \in Metadata, Sets(c, m)
    PROVE  /\ rec' \in Memory \cup {Gone} /\ (rec' = Gone <=> rec = Gone)
           /\ rec # Gone => rec'.notes = rec.notes /\ rec'.meta = m
           /\ rec # Gone /\ Stale(c) = {} => rec.meta = c
<1>1. CASE rec = Gone
  BY <1>1 DEF Sets
<1>2. CASE rec # Gone
  <2>1. rec \in Memory /\ rec' = [rec EXCEPT !.meta = m]
    BY <1>2 DEF Sets, TypeOK, GraphOK
  <2>2. rec' \in Memory /\ rec'.notes = rec.notes /\ rec'.meta = m
    BY <2>1 DEF Memory
  <2>3. Stale(c) = {} => rec.meta = c
    BY <1>2 DEF Stale
  <2> QED
    BY <1>2, <2>2, <2>3
<1> QED
  BY <1>1, <1>2

\* A step that writes the links, and one that counts vote v.
Relinks == LinkWrites \/ \E p \in Passes : PassWrites(p)

LEMMA RelinkSets ==
    ASSUME TypeOK, Relinks
    PROVE  \E c \in Metadata : Sets(c, Linked(c)) /\ Stale(c) \subseteq causes' /\ cast' = cast
<1>1. CASE LinkWrites
  <2>1. direct.meta \in Metadata
    BY DEF TypeOK, ThreadsOK
  <2> QED
    BY <1>1, <2>1 DEF LinkWrites
<1>2. ASSUME NEW p \in Passes, PassWrites(p)
      PROVE  \E c \in Metadata : /\ Sets(c, Linked(c)) /\ Stale(c) \subseteq causes'
                                 /\ cast' = cast
  <2>1. pass[p].meta \in Metadata
    BY DEF TypeOK, ThreadsOK
  <2> QED
    BY <1>2, <2>1 DEF PassWrites
<1> QED
  BY <1>1, <1>2 DEF Relinks

LEMMA VoteSets ==
    ASSUME TypeOK, NEW v \in Votes, VoteWrites(v)
    PROVE  \E m \in Metadata :
             /\ Sets(voting.meta, m) /\ m.labels = voting.meta.labels
             /\ m.votes = voting.meta.votes + 1 /\ voting.meta.votes \in Nat
             /\ Stale(voting.meta) \subseteq causes' /\ cast' = cast \cup {v}
<1>1. voting.meta \in Metadata /\ voting.meta.votes # Unlinked
  BY DEF VoteWrites, TypeOK, ThreadsOK
<1> DEFINE m == [voting.meta EXCEPT !.votes = @ + 1]
<1>2. voting.meta.votes \in Nat
  BY <1>1 DEF Metadata
<1>3. /\ m \in Metadata /\ m.labels = voting.meta.labels
      /\ m.votes = voting.meta.votes + 1
  BY <1>1, <1>2 DEF Metadata
<1>4. /\ Sets(voting.meta, m) /\ Stale(voting.meta) \subseteq causes'
      /\ cast' = cast \cup {v}
  BY DEF VoteWrites
<1> QED
  BY <1>2, <1>3, <1>4

\* Of the memory they keep the annotation and the labels, unless it is recorded.
LEMMA LinkKeeps ==
    ASSUME TypeOK, Relinks \/ \E v \in Votes : VoteWrites(v)
    PROVE  /\ rec' \in Memory \cup {Gone} /\ (rec' = Gone <=> rec = Gone)
           /\ rec # Gone => rec'.notes = rec.notes
           /\ rec # Gone /\ "metadata" \notin causes' => rec'.meta.labels = rec.meta.labels
<1>1. PICK c \in Metadata, m \in Metadata :
         Sets(c, m) /\ m.labels = c.labels /\ Stale(c) \subseteq causes'
  <2>1. CASE Relinks
    <3>1. PICK c \in Metadata : Sets(c, Linked(c)) /\ Stale(c) \subseteq causes'
      BY <2>1, RelinkSets
    <3> QED
      BY <3>1, LinkedMetadata
  <2>2. ASSUME NEW v \in Votes, VoteWrites(v)
        PROVE  \E c \in Metadata, m \in Metadata :
                 Sets(c, m) /\ m.labels = c.labels /\ Stale(c) \subseteq causes'
    <3>1. voting.meta \in Metadata
      BY DEF TypeOK, ThreadsOK
    <3> QED
      BY <2>2, <3>1, VoteSets
  <2> QED
    BY <2>1, <2>2
<1>2. "metadata" \notin causes' => Stale(c) = {} \/ rec = Gone
  BY <1>1 DEF Stale
<1> QED
  BY <1>1, <1>2, SetsKeep

\* Every step that changes the memory.
LEMMA RecSteps ==
    ASSUME [Next]_vars
    PROVE  \/ UNCHANGED rec
           \/ Delete \/ Relinks \/ Explain
           \/ \E r \in Requests : Update(r)
           \/ \E v \in Votes : VoteWrites(v)
  BY Steps, LinkSteps
  DEF Relinks, Asking, Receive, GiveUp, ReadMeta, ReadBase, Journal, Told, TimesOut, Awaits,
      ExplainReads, Outage, Recover, Crash, vars, graph

LEMMA TypeGraph == TypeOK /\ [Next]_vars => GraphOK'
<1> SUFFICES ASSUME TypeOK, [Next]_vars PROVE GraphOK'
  OBVIOUS
<1>1. rec' \in Memory \cup {Gone}
  <2>1. CASE Delete \/ UNCHANGED rec
    BY <2>1 DEF Delete, TypeOK, GraphOK
  <2>2. CASE Relinks \/ \E v \in Votes : VoteWrites(v)
    BY <2>2, LinkKeeps
  <2>3. CASE Explain
    BY <2>3, ExplainedMemory DEF Explain, TypeOK, GraphOK
  <2>4. ASSUME NEW r \in Requests, Update(r) PROVE rec' \in Memory \cup {Gone}
    BY <2>4, MergedMemory DEF Update, TypeOK, GraphOK
  <2> QED
    BY <2>1, <2>2, <2>3, <2>4, RecSteps
<1>2. UNCHANGED up \/ up' \in BOOLEAN
  BY Steps, LinkStepOnly DEF Asking, Receive, GiveUp, ReadMeta, ReadBase, Update, Journal, Told,
       TimesOut, Awaits, Delete, ExplainReads, Explain, Outage, Recover, Crash, vars, graph
<1> QED
  BY <1>1, <1>2 DEF GraphOK, TypeOK

LEMMA TypeRequests == TypeOK /\ [Next]_vars => RequestsOK'
<1> SUFFICES ASSUME TypeOK, [Next]_vars PROVE RequestsOK'
  OBVIOUS
<1> USE DEF TypeOK, RequestsOK
<1>1. loop' \in Requests \cup {Free}
  BY Steps, LinkStepOnly DEF Asking, Receive, GiveUp, ReadMeta, ReadBase, Update, Journal, Told,
       TimesOut, Awaits, Delete, ExplainReads, Explain, Outage, Recover, Crash, vars, request
<1>2. stage' \in [Requests -> Stages]
  <2>1. \/ UNCHANGED stage \/ Crash
        \/ \E r \in Requests, s \in Stages : stage' = [stage EXCEPT ![r] = s]
    BY Steps, LinkStepOnly DEF Asking, Receive, GiveUp, ReadMeta, ReadBase, Update, Journal,
         Told, TimesOut, Awaits, Delete, ExplainReads, Explain, Outage, Recover, Crash, vars,
         request, Stages
  <2> QED
    BY <2>1 DEF Crash, Stages
<1>3. copy' \in [Requests -> Memory]
  <2>1. ASSUME NEW r \in Requests,
               \/ Receive(r) /\ copy' = [copy EXCEPT ![r].notes = rec.notes]
               \/ ReadMeta(r) /\ copy' = [copy EXCEPT ![r].meta = rec.meta]
               \/ ReadBase(r) /\ copy' = [copy EXCEPT ![r].notes = rec.notes]
        PROVE  copy' \in [Requests -> Memory]
    <3>1. rec \in Memory \/ UNCHANGED copy
      BY <2>1 DEF Receive, ReadMeta, ReadBase, Found, GraphOK
    <3> QED
      BY <2>1, <3>1 DEF Memory
  <2>2. \/ UNCHANGED copy \/ copy' = [r \in Requests |-> Fresh]
        \/ \E r \in Requests :
             \/ copy' = [copy EXCEPT ![r] = Fresh]
             \/ Receive(r) /\ copy' = [copy EXCEPT ![r].notes = rec.notes]
             \/ ReadMeta(r) /\ copy' = [copy EXCEPT ![r].meta = rec.meta]
             \/ ReadBase(r) /\ copy' = [copy EXCEPT ![r].notes = rec.notes]
    BY Steps, LinkStepOnly DEF Asking, Receive, GiveUp, ReadMeta, ReadBase, Update, Journal,
         Told, TimesOut, Awaits, Delete, ExplainReads, Explain, Outage, Recover, Crash, vars,
         request
  <2> QED
    BY <2>1, <2>2, FreshMemory
<1>4. owed' \in [Requests -> SUBSET Pages]
  <2>1. \/ UNCHANGED owed \/ owed' = [r \in Requests |-> {}]
        \/ \E r \in Requests, P \in SUBSET Pages : owed' = [owed EXCEPT ![r] = P]
    BY Steps, LinkStepOnly DEF Asking, Receive, GiveUp, ReadMeta, ReadBase, Update, Journal,
         Told, TimesOut, Awaits, Delete, ExplainReads, Explain, Outage, Recover, Crash, vars,
         request
  <2> QED
    BY <2>1
<1> QED
  BY <1>1, <1>2, <1>3, <1>4 DEF Stages

LEMMA TypeThreads == TypeOK /\ [Next]_vars => ThreadsOK'
<1> SUFFICES ASSUME TypeOK, [Next]_vars PROVE ThreadsOK'
  OBVIOUS
<1> USE DEF TypeOK, ThreadsOK
<1>1. /\ queued' \in BOOLEAN
      /\ direct' \in [at : {"idle", "read", "over"}, meta : Metadata]
  <2>1. \/ UNCHANGED <<direct, queued>>
        \/ LinkReads \/ LinkWrites \/ LinkFails \/ Crash
    BY Steps, AskingOnly
    DEF LinkStep, PassReads, PassWrites, PassFails, VoteReads, VoteWrites, VoteEnds, Delete,
        ExplainReads, Explain, Outage, Recover, vars, links
  <2>2. queued' \in BOOLEAN
    BY <2>1 DEF LinkReads, LinkWrites, LinkFails, Crash
  <2>3. Bare("over") \in [at : {"idle", "read", "over"}, meta : Metadata]
    BY BareMetadata DEF Bare
  <2>4. Read("over") \in [at : {"idle", "read", "over"}, meta : Metadata]
    BY <2>3, ReadMetadata
  <2>5. UNCHANGED direct \/ direct' = Bare("over") \/ direct' = Read("over")
    BY <2>1 DEF LinkReads, LinkWrites, LinkFails, Crash
  <2> QED
    BY <2>2, <2>3, <2>4, <2>5
<1>3. pass' \in [Passes -> [at : {"idle", "read"}, meta : Metadata]]
  <2>1. Bare("idle") \in [at : {"idle", "read"}, meta : Metadata]
    BY BareMetadata DEF Bare
  <2>2. Read("idle") \in [at : {"idle", "read"}, meta : Metadata]
    BY <2>1, ReadMetadata
  <2>3. \/ UNCHANGED pass \/ pass' = [p \in Passes |-> Bare("idle")]
        \/ \E p \in Passes : \/ pass' = [pass EXCEPT ![p] = Read("idle")]
                             \/ pass' = [pass EXCEPT ![p] = Bare("idle")]
    BY Steps, AskingOnly
    DEF LinkStep, LinkReads, LinkWrites, LinkFails, PassReads, PassWrites, PassFails, VoteReads,
        VoteWrites, VoteEnds, Delete, ExplainReads, Explain, Outage, Recover, Crash, vars, links
  <2> QED
    BY <2>1, <2>2, <2>3
<1>4. voting' \in [by : Votes \cup {Free}, meta : Metadata]
  <2>1. NoVote \in [by : Votes \cup {Free}, meta : Metadata]
    BY BareMetadata DEF NoVote
  <2>2. Found => rec.meta \in Metadata
    BY DEF Found, GraphOK, Memory
  <2>3. \/ UNCHANGED voting \/ voting' = NoVote
        \/ \E v \in Votes : Found /\ voting' = [by |-> v, meta |-> rec.meta]
    BY Steps, AskingOnly
    DEF LinkStep, LinkReads, LinkWrites, LinkFails, PassReads, PassWrites, PassFails, VoteReads,
        VoteWrites, VoteEnds, Delete, ExplainReads, Explain, Outage, Recover, Crash, vars, links
  <2>4. ASSUME NEW v \in Votes, Found, voting' = [by |-> v, meta |-> rec.meta]
        PROVE  voting' \in [by : Votes \cup {Free}, meta : Metadata]
    BY <2>2, <2>4
  <2> QED
    BY <2>1, <2>3, <2>4
<1>2. expl' \in [at : {"idle", "meta", "base", "over"}, copy : Memory]
  <2>1. \/ UNCHANGED expl \/ expl' = Over
        \/ /\ ExplainReads /\ Found
           /\ expl' = [at |-> "meta", copy |-> [Fresh EXCEPT !.meta = rec.meta]]
        \/ ExplainReads /\ Found /\ expl' = [expl EXCEPT !.at = "base", !.copy.notes = rec.notes]
    BY Steps, LinkStepOnly DEF Asking, Receive, GiveUp, ReadMeta, ReadBase, Update, Journal,
         Told, TimesOut, Awaits, Delete, ExplainReads, Explain, Outage, Recover, Crash, vars
  <2>2. Found => rec \in Memory
    BY DEF Found, GraphOK
  <2>3. Over \in [at : {"idle", "meta", "base", "over"}, copy : Memory]
    BY FreshMemory DEF Over
  <2>4. Found => [Fresh EXCEPT !.meta = rec.meta] \in Memory
    BY <2>2, FreshMemory DEF Memory
  <2>5. Found => [expl EXCEPT !.at = "base", !.copy.notes = rec.notes]
                   \in [at : {"idle", "meta", "base", "over"}, copy : Memory]
    BY <2>2 DEF Memory
  <2>6. CASE UNCHANGED expl
    BY <2>6
  <2>7. CASE expl' = Over
    BY <2>3, <2>7
  <2>8. CASE Found /\ expl' = [at |-> "meta", copy |-> [Fresh EXCEPT !.meta = rec.meta]]
    <3> DEFINE c == [Fresh EXCEPT !.meta = rec.meta]
    <3>1. c \in Memory /\ expl' = [at |-> "meta", copy |-> c]
      BY <2>4, <2>8
    <3> HIDE DEF c
    <3> QED
      BY <3>1
  <2>9. CASE Found /\ expl' = [expl EXCEPT !.at = "base", !.copy.notes = rec.notes]
    BY <2>5, <2>9
  <2> QED
    BY <2>1, <2>6, <2>7, <2>8, <2>9
<1> QED
  BY <1>1, <1>2, <1>3, <1>4 DEF ThreadsOK

\* The newest actions of a sequence.
LEMMA NewestSeq ==
    ASSUME NEW s \in Seq(Requests)
    PROVE  /\ Newest(s) \in Seq(Requests) /\ Len(Newest(s)) <= MaxHistory
           /\ Len(Newest(s)) = IF Len(s) > MaxHistory THEN MaxHistory ELSE Len(s)
           /\ \A i \in 1..Len(Newest(s)) : Newest(s)[i] = s[Len(s) - Len(Newest(s)) + i]
<1>1. CASE Len(s) > MaxHistory
  <2>1. Newest(s) = SubSeq(s, Len(s) - MaxHistory + 1, Len(s))
    BY <1>1 DEF Newest
  <2> QED
    BY <1>1, <2>1
<1>2. CASE ~(Len(s) > MaxHistory)
  BY <1>2 DEF Newest
<1> QED
  BY <1>1, <1>2

LEMMA TypeJournal == TypeOK /\ [Next]_vars => JournalOK'
<1> SUFFICES ASSUME TypeOK, [Next]_vars PROVE JournalOK'
  OBVIOUS
<1>1. \/ UNCHANGED <<log, past>>
      \/ past' = Newest(log) /\ log' = log
      \/ \E r \in Requests : /\ past' = Newest(Append(past, r))
                             /\ log' = log \/ log' = Append(log, r)
  BY Steps, LinkStepOnly DEF Asking, Receive, GiveUp, ReadMeta, ReadBase, Update, Journal, Told,
       TimesOut, Awaits, Delete, ExplainReads, Explain, Outage, Recover, Crash, Reloaded, vars,
       journal
<1>2. UNCHANGED torn \/ torn' = FALSE \/ torn' = TRUE
  BY Steps, LinkStepOnly DEF Asking, Receive, GiveUp, ReadMeta, ReadBase, Update, Journal, Told,
       TimesOut, Awaits, Delete, ExplainReads, Explain, Outage, Recover, Crash, vars, journal
<1>3. torn' \in BOOLEAN
  BY <1>2 DEF TypeOK, JournalOK
<1>4. log \in Seq(Requests) /\ past \in Seq(Requests) /\ Len(past) <= MaxHistory
  BY DEF TypeOK, JournalOK
<1>5. log' \in Seq(Requests) /\ past' \in Seq(Requests) /\ Len(past') <= MaxHistory
  <2>1. ASSUME NEW r \in Requests
        PROVE  Append(past, r) \in Seq(Requests) /\ Append(log, r) \in Seq(Requests)
    BY <1>4
  <2>2. log' \in Seq(Requests)
    BY <1>1, <1>4, <2>1
  <2>3. past' = past \/ \E s \in Seq(Requests) : past' = Newest(s)
    BY <1>1, <1>4, <2>1
  <2> QED
    BY <1>4, <2>2, <2>3, NewestSeq
<1> QED
  BY <1>3, <1>5 DEF JournalOK

LEMMA TypeHistory == TypeOK /\ [Next]_vars => HistoryOK'
<1> SUFFICES ASSUME TypeOK, [Next]_vars PROVE HistoryOK'
  OBVIOUS
<1>1. UNCHANGED faults \/ (faults < MaxFaults /\ faults' = faults + 1)
  BY Steps, LinkStepOnly, AskingOnly
  DEF Delete, ExplainReads, Explain, Outage, Recover, Crash, vars, history
<1>2. faults' \in 0..MaxFaults
  <2>1. faults \in 0..MaxFaults
    BY DEF TypeOK, HistoryOK
  <2> QED
    BY <1>1, <2>1
<1>3. cast' = cast \/ \E v \in Votes : cast' = cast \cup {v}
  BY Steps, AskingOnly
  DEF LinkStep, LinkReads, LinkWrites, LinkFails, PassReads, PassWrites, PassFails, VoteReads,
      VoteWrites, VoteEnds, Delete, ExplainReads, Explain, Outage, Recover, Crash, vars, history
<1>7. swallowed' = swallowed \/ \E r \in Requests : swallowed' = swallowed \cup {r}
  BY Steps, LinkStepOnly DEF Asking, Receive, GiveUp, ReadMeta, ReadBase, Update, Journal, Told,
       TimesOut, Awaits, Delete, ExplainReads, Explain, Outage, Recover, Crash, vars, history
<1>8. unlogged' = unlogged \/ \E r \in Requests : unlogged' = unlogged \cup {r}
  <2>1. ASSUME NEW r \in Requests, Journal(r)
        PROVE  unlogged' = unlogged \/ unlogged' = unlogged \cup {r}
    BY <2>1 DEF Journal
  <2>2. unlogged' = unlogged \/ \E r \in Requests : Journal(r)
    BY Steps, LinkStepOnly
    DEF Asking, Receive, GiveUp, ReadMeta, ReadBase, Update, Told, TimesOut, Delete,
        ExplainReads, Explain, Outage, Recover, Crash, vars, history
  <2> QED
    BY <2>1, <2>2
<1>5. causes' \subseteq {"notes", "metadata", "relinked"}
  <2>1. causes \subseteq {"notes", "metadata", "relinked"}
    BY DEF TypeOK, HistoryOK
  <2>2. CASE LinkStep
    BY <2>1, <2>2, LinkSteps DEF LinkWrites, PassWrites, VoteWrites, Stale
  <2>3. ASSUME ~LinkStep
        PROVE  causes' = causes \/ \E c : causes' = causes \cup Overwritten(c)
    BY <2>3, Steps
    DEF Asking, Receive, GiveUp, ReadMeta, ReadBase, Update, Journal, Told, TimesOut, Delete,
        ExplainReads, Explain, Outage, Recover, Crash, vars, history
  <2> QED
    BY <2>1, <2>2, <2>3 DEF Overwritten
<1>6. cast' \subseteq Votes /\ swallowed' \subseteq Requests /\ unlogged' \subseteq Requests
  BY <1>3, <1>7, <1>8 DEF TypeOK, HistoryOK
<1> QED
  BY <1>2, <1>5, <1>6 DEF HistoryOK

LEMMA TypeStep == TypeOK /\ [Next]_vars => TypeOK'
  BY TypeGraph, TypeRequests, TypeThreads, TypeJournal, TypeHistory DEF TypeOK

\* The memory, the copies and the journal keep the shapes the code gives them.
THEOREM TypeCorrect == Spec => []TypeOK
<1> QED
  BY TypeInit, TypeStep, PTL DEF Spec

----------------------------------------------------------------------------
(* Answers                                                                 *)

LEMMA CausesGrow == [Next]_vars => causes \subseteq causes'
<1> SUFFICES ASSUME [Next]_vars PROVE causes \subseteq causes'
  OBVIOUS
<1>1. CASE LinkStep
  BY <1>1, LinkSteps DEF LinkWrites, PassWrites, VoteWrites
<1> QED
  BY <1>1, Steps
  DEF Asking, Receive, GiveUp, ReadMeta, ReadBase, Update, Journal, Told, TimesOut, Delete,
      ExplainReads, Explain, Outage, Recover, Crash, vars, history

\* Only a write makes a request a written one.
LEMMA WrittenSteps ==
    ASSUME TypeOK, [Next]_vars, NEW q \in Requests, Written(q)'
    PROVE  \/ Written(q)
           \/ Update(q) /\ rec' = Merged(q) /\ causes' = causes \cup Overwritten(copy[q])
<1>1. stage \in [Requests -> Stages] /\ swallowed \subseteq swallowed'
  BY Steps, LinkStepOnly DEF Asking, Receive, GiveUp, ReadMeta, ReadBase, Update, Journal, Told,
       TimesOut, Awaits, Delete, ExplainReads, Explain, Outage, Recover, Crash, vars, history,
       TypeOK, RequestsOK, Stages
<1>2. q \notin swallowed /\ stage'[q] \in {"updated", "telling", "answered"}
  BY <1>1 DEF Written
<1>3. CASE \E r \in Requests : GiveUp(r)
  BY <1>1, <1>2, <1>3 DEF GiveUp, Written
<1>4. ASSUME NEW r \in Requests, Update(r)
      PROVE  \/ Written(q)
             \/ Update(q) /\ rec' = Merged(q) /\ causes' = causes \cup Overwritten(copy[q])
  <2>1. CASE r = q
    BY <1>2, <1>4, <2>1 DEF Update, Written
  <2>2. CASE r # q
    BY <1>1, <1>2, <1>4, <2>2 DEF Update, Written
  <2> QED
    BY <2>1, <2>2
<1>5. CASE \E r \in Requests : Journal(r)
  BY <1>1, <1>2, <1>5 DEF Journal, Awaits, Written
<1>6. CASE \E r \in Requests : Receive(r) \/ ReadMeta(r) \/ ReadBase(r)
  BY <1>1, <1>2, <1>6 DEF Receive, ReadMeta, ReadBase, Written, history
<1>10. CASE \E r \in Requests, p \in Pages : Told(r, p) \/ TimesOut(r, p)
  BY <1>1, <1>2, <1>10 DEF Told, TimesOut, Awaits, Written, history
<1>7. CASE Crash
  BY <1>1, <1>2, <1>7 DEF Crash, Written, Busy
<1>8. CASE UNCHANGED <<stage, swallowed>>
  BY <1>8 DEF Written
<1>9. \/ UNCHANGED <<stage, swallowed>> \/ Crash
      \/ \E r \in Requests : \/ GiveUp(r) \/ Update(r) \/ Journal(r)
                             \/ Receive(r) \/ ReadMeta(r) \/ ReadBase(r)
                             \/ \E p \in Pages : Told(r, p) \/ TimesOut(r, p)
  BY Steps, LinkStepOnly
  DEF Asking, Delete, ExplainReads, Explain, Outage, Recover, vars, request, history
<1> QED
  BY <1>3, <1>4, <1>5, <1>6, <1>7, <1>8, <1>9, <1>10

\* A write that is not recorded overwrites a part with itself.
LEMMA SameCopy ==
    ASSUME NEW c \in Memory
    PROVE  /\ "metadata" \notin Overwritten(c) => rec # Gone /\ rec.meta = c.meta
           /\ "notes" \notin Overwritten(c) => rec # Gone /\ rec.notes = c.notes
  BY DEF Overwritten

\* A step keeps the labels and the annotation of a memory, unless it is recorded.
LEMMA PartsKept ==
    ASSUME TypeOK, [Next]_vars, rec' # Gone
    PROVE  /\ "metadata" \notin causes' =>
                rec # Gone /\ rec.meta.labels \subseteq rec'.meta.labels
           /\ "notes" \notin causes' => rec # Gone /\ rec.notes \subseteq rec'.notes
<1>1. CASE Delete \/ UNCHANGED rec
  BY <1>1 DEF Delete
<1>2. CASE Relinks \/ \E v \in Votes : VoteWrites(v)
  BY <1>2, LinkKeeps
<1>3. CASE Explain
  <2>1. expl.copy \in Memory
    BY DEF TypeOK, ThreadsOK
  <2>2. UNCHANGED rec \/ (rec' = Explained /\ causes' = causes \cup Overwritten(expl.copy))
    BY <1>3 DEF Explain
  <2>3. CASE rec' = Explained /\ causes' = causes \cup Overwritten(expl.copy)
    <3>1. /\ "metadata" \notin causes' => rec # Gone /\ rec.meta = expl.copy.meta
          /\ "notes" \notin causes' => rec # Gone /\ rec.notes = expl.copy.notes
      BY <2>1, <2>3, SameCopy
    <3> QED
      BY <2>3, <3>1, ExplainedMemory
  <2> QED
    BY <2>2, <2>3
<1>4. ASSUME NEW r \in Requests, Update(r)
      PROVE  /\ "metadata" \notin causes' =>
                  rec # Gone /\ rec.meta.labels \subseteq rec'.meta.labels
             /\ "notes" \notin causes' => rec # Gone /\ rec.notes \subseteq rec'.notes
  <2>1. copy[r] \in Memory
    BY DEF TypeOK, RequestsOK
  <2>2. UNCHANGED rec \/ (rec' = Merged(r) /\ causes' = causes \cup Overwritten(copy[r]))
    BY <1>4 DEF Update
  <2>3. CASE rec' = Merged(r) /\ causes' = causes \cup Overwritten(copy[r])
    <3>1. /\ "metadata" \notin causes' => rec # Gone /\ rec.meta = copy[r].meta
          /\ "notes" \notin causes' => rec # Gone /\ rec.notes = copy[r].notes
      BY <2>1, <2>3, SameCopy
    <3> QED
      BY <2>3, <3>1, MergedMemory
  <2> QED
    BY <2>2, <2>3
<1> QED
  BY <1>1, <1>2, <1>3, <1>4, RecSteps

LEMMA LabelsStep == TypeOK /\ LabelsHold /\ [Next]_vars => LabelsHold'
<1> SUFFICES ASSUME TypeOK, LabelsHold, [Next]_vars, rec' # Gone, "metadata" \notin causes',
                    NEW q \in Verdicts, Written(q)'
             PROVE  q \in rec'.meta.labels
  BY DEF LabelsHold
<1>1. rec # Gone /\ rec.meta.labels \subseteq rec'.meta.labels /\ "metadata" \notin causes
  BY PartsKept, CausesGrow
<1>2. CASE Written(q)
  BY <1>1, <1>2 DEF LabelsHold
<1>3. CASE rec' = Merged(q)
  BY <1>3, MergedMemory DEF Requests
<1> QED
  BY <1>2, <1>3, WrittenSteps DEF Requests

LEMMA NotesStep == TypeOK /\ NotesHold /\ [Next]_vars => NotesHold'
<1> SUFFICES ASSUME TypeOK, NotesHold, [Next]_vars, rec' # Gone, "notes" \notin causes',
                    NEW q \in Comments, Written(q)'
             PROVE  q \in rec'.notes
  BY DEF NotesHold
<1>1. rec # Gone /\ rec.notes \subseteq rec'.notes /\ "notes" \notin causes
  BY PartsKept, CausesGrow
<1>2. CASE Written(q)
  BY <1>1, <1>2 DEF NotesHold
<1>3. CASE rec' = Merged(q)
  BY <1>3, MergedMemory DEF Requests
<1> QED
  BY <1>2, <1>3, WrittenSteps DEF Requests

----------------------------------------------------------------------------
(* Votes                                                                   *)

\* Only a vote and a write of the links change the number of votes.
LEMMA VotesSteps ==
    ASSUME TypeOK, [Next]_vars, rec' # Gone, "metadata" \notin causes'
    PROVE  \/ rec # Gone /\ rec'.meta.votes = rec.meta.votes /\ cast' = cast
           \/ Relinks /\ rec # Gone /\ rec'.meta.votes = 0 /\ cast' = cast
           \/ \E v \in Votes : VoteWrites(v)
<1>1. cast' = cast \/ \E v \in Votes : VoteWrites(v)
  BY Steps, AskingOnly
  DEF LinkStep, LinkReads, LinkWrites, LinkFails, PassReads, PassWrites, PassFails, VoteReads,
      VoteEnds, Delete, ExplainReads, Explain, Outage, Recover, Crash, vars, history
<1>2. CASE Delete \/ UNCHANGED rec
  BY <1>1, <1>2 DEF Delete
<1>3. CASE Relinks
  <2>1. PICK c \in Metadata : Sets(c, Linked(c)) /\ cast' = cast
    BY <1>3, RelinkSets
  <2>2. Linked(c) \in Metadata /\ Linked(c).votes = 0
    BY LinkedMetadata
  <2>3. rec # Gone /\ rec'.meta = Linked(c)
    BY <2>1, <2>2, SetsKeep
  <2> QED
    BY <1>3, <2>1, <2>2, <2>3
<1>4. CASE Explain
  <2>1. expl.copy \in Memory
    BY DEF TypeOK, ThreadsOK
  <2>2. UNCHANGED rec \/ (rec' = Explained /\ causes' = causes \cup Overwritten(expl.copy))
    BY <1>4 DEF Explain
  <2>3. CASE rec' = Explained /\ causes' = causes \cup Overwritten(expl.copy)
    <3>1. rec # Gone /\ rec.meta = expl.copy.meta
      BY <2>1, <2>3, SameCopy
    <3> QED
      BY <1>1, <2>3, <3>1, ExplainedMemory
  <2> QED
    BY <1>1, <2>2, <2>3
<1>5. ASSUME NEW r \in Requests, Update(r)
      PROVE  rec # Gone /\ rec'.meta.votes = rec.meta.votes
  <2>1. copy[r] \in Memory
    BY DEF TypeOK, RequestsOK
  <2>2. UNCHANGED rec \/ (rec' = Merged(r) /\ causes' = causes \cup Overwritten(copy[r]))
    BY <1>5 DEF Update
  <2>3. CASE rec' = Merged(r) /\ causes' = causes \cup Overwritten(copy[r])
    <3>1. rec # Gone /\ rec.meta = copy[r].meta
      BY <2>1, <2>3, SameCopy
    <3> QED
      BY <2>3, <3>1, MergedMemory
  <2> QED
    BY <2>2, <2>3
<1> QED
  BY <1>1, <1>2, <1>3, <1>4, <1>5, RecSteps

\* The vote that holds the lock is not counted yet.
LEMMA OnceStep == TypeOK /\ OnceOnly /\ [Next]_vars => OnceOnly'
<1> SUFFICES ASSUME TypeOK, OnceOnly, [Next]_vars PROVE OnceOnly'
  OBVIOUS
<1>1. cast \subseteq Votes /\ IsFiniteSet(cast) /\ voting.by \notin cast
  BY DEF TypeOK, HistoryOK, OnceOnly
<1>2. \/ UNCHANGED <<cast, voting>> \/ (cast' = cast /\ voting' = NoVote)
      \/ \E v \in Votes : VoteReads(v) \/ VoteWrites(v)
  BY Steps, AskingOnly
  DEF LinkStep, LinkReads, LinkWrites, LinkFails, PassReads, PassWrites, PassFails, VoteEnds,
      Delete, ExplainReads, Explain, Outage, Recover, Crash, vars, links, history
<1>3. Free \notin Votes
  OBVIOUS
<1>4. NoVote.by = Free
  BY DEF NoVote
<1>5. ASSUME NEW v \in Votes, VoteReads(v) PROVE OnceOnly'
  <2>1. voting' = [by |-> v, meta |-> rec.meta] /\ v \notin cast /\ cast' = cast
    BY <1>5 DEF VoteReads, history
  <2> QED
    BY <1>1, <2>1 DEF OnceOnly
<1>6. ASSUME NEW v \in Votes, VoteWrites(v) PROVE OnceOnly'
  <2>1. voting' = NoVote /\ cast' = cast \cup {v}
    BY <1>6 DEF VoteWrites
  <2>2. IsFiniteSet(cast')
    BY <1>1, <2>1, FS_AddElement
  <2> QED
    BY <1>1, <1>3, <1>4, <2>1, <2>2 DEF OnceOnly
<1> QED
  BY <1>1, <1>2, <1>3, <1>4, <1>5, <1>6 DEF OnceOnly

\* Before the direct write of the links is over nobody votes.
LEMMA UnvotedStep == TypeOK /\ Unvoted /\ [Next]_vars => Unvoted'
<1> SUFFICES ASSUME TypeOK, Unvoted, [Next]_vars,
                    "metadata" \notin causes', direct'.at \in {"idle", "read"}
             PROVE  (NoVotes /\ ~queued /\ \A p \in Passes : pass[p].at = "idle")'
  BY DEF Unvoted
<1>1. ~LinkWrites /\ ~LinkFails
  BY DEF LinkWrites, LinkFails, Bare
<1>2. direct.at \in {"idle", "read"} /\ (LinkReads \/ Crash \/ UNCHANGED direct)
  <2>1. LinkReads \/ Crash \/ UNCHANGED direct
    BY <1>1, Steps, AskingOnly
    DEF LinkStep, PassReads, PassWrites, PassFails, VoteReads, VoteWrites, VoteEnds, Delete,
        ExplainReads, Explain, Outage, Recover, vars, links
  <2>2. CASE Crash
    BY <2>2 DEF Crash, Bare
  <2> QED
    BY <2>1, <2>2 DEF LinkReads
<1>3. "metadata" \notin causes
  BY CausesGrow
<1>4. NoVotes /\ ~queued /\ \A p \in Passes : pass[p].at = "idle"
  BY <1>2, <1>3 DEF Unvoted
<1>5. ASSUME NEW p \in Passes PROVE ~PassReads(p) /\ ~PassWrites(p) /\ ~PassFails(p)
  BY <1>4 DEF PassReads, PassWrites, PassFails
<1>6. ASSUME NEW v \in Votes PROVE ~VoteWrites(v)
  BY <1>4, <1>6 DEF VoteWrites, NoVotes
<1>7. ~queued'
  <2>1. CASE LinkReads
    <3>1. rec # Gone
      BY <2>1 DEF LinkReads, Read, Bare
    <3> QED
      BY <1>4, <2>1, <3>1 DEF LinkReads
  <2> QED
    BY <1>1, <1>4, <1>5, <1>6, <2>1, Steps, AskingOnly
    DEF LinkStep, VoteReads, VoteEnds, Delete, ExplainReads, Explain, Outage, Recover, Crash,
        vars, links
<1>8. \A p \in Passes : pass'[p].at = "idle"
  <2>1. UNCHANGED pass \/ pass' = [p \in Passes |-> Bare("idle")]
    BY <1>1, <1>5, <1>6, Steps, AskingOnly
    DEF LinkStep, LinkReads, VoteReads, VoteEnds, Delete, ExplainReads, Explain, Outage, Recover,
        Crash, vars, links
  <2> QED
    BY <1>4, <2>1 DEF Bare
<1>9. cast' = cast /\ (rec' # Gone => rec'.meta.votes = Unlinked)
  <2>1. cast' = cast
    BY <1>1, <1>5, <1>6, Steps, AskingOnly
    DEF LinkStep, LinkReads, VoteReads, VoteEnds, Delete, ExplainReads, Explain, Outage, Recover,
        Crash, vars, history
  <2>2. ~Relinks
    BY <1>1, <1>5 DEF Relinks
  <2> QED
    BY <1>4, <1>6, <2>1, <2>2, VotesSteps DEF NoVotes
<1>10. voting'.by # Free => voting'.meta.votes = Unlinked
  <2>1. \/ UNCHANGED voting \/ voting' = NoVote
        \/ \E v \in Votes : Found /\ voting' = [by |-> v, meta |-> rec.meta]
    BY <1>1, <1>5, <1>6, Steps, AskingOnly
    DEF LinkStep, LinkReads, VoteReads, VoteEnds, Delete, ExplainReads, Explain, Outage, Recover,
        Crash, vars, links
  <2> QED
    BY <1>4, <2>1 DEF NoVotes, NoVote, Found
<1> QED
  BY <1>4, <1>7, <1>8, <1>9, <1>10 DEF NoVotes

LEMMA VotesStep == TypeOK /\ Unvoted /\ OnceOnly /\ VotesCount /\ [Next]_vars => VotesCount'
<1> SUFFICES ASSUME TypeOK, Unvoted, OnceOnly, VotesCount, [Next]_vars,
                    causes' \cap {"metadata", "relinked"} = {},
                    rec' # Gone, rec'.meta.votes # Unlinked
             PROVE  rec'.meta.votes = Cardinality(cast')
  BY DEF VotesCount
<1>1. "metadata" \notin causes' /\ causes \cap {"metadata", "relinked"} = {}
  BY CausesGrow
<1>2. CASE rec # Gone /\ rec'.meta.votes = rec.meta.votes /\ cast' = cast
  BY <1>1, <1>2 DEF VotesCount
<1>3. CASE Relinks /\ rec # Gone /\ rec'.meta.votes = 0 /\ cast' = cast
  <2>1. cast = {}
    <3>1. CASE LinkWrites
      BY <1>1, <3>1 DEF LinkWrites, Unvoted, NoVotes
    <3>2. ASSUME NEW p \in Passes, PassWrites(p) PROVE cast = {}
      <4>1. (IF cast # {} THEN {"relinked"} ELSE {}) \subseteq causes'
        BY <3>2 DEF PassWrites
      <4> QED
        BY <4>1
    <3> QED
      BY <1>3, <3>1, <3>2 DEF Relinks
  <2> QED
    BY <1>3, <2>1, FS_EmptySet
<1>4. ASSUME NEW v \in Votes, VoteWrites(v) PROVE rec'.meta.votes = Cardinality(cast')
  <2>1. PICK m \in Metadata :
           /\ Sets(voting.meta, m) /\ m.votes = voting.meta.votes + 1
           /\ voting.meta.votes \in Nat
           /\ Stale(voting.meta) \subseteq causes' /\ cast' = cast \cup {v}
    BY <1>4, VoteSets
  <2>2. voting.meta \in Metadata
    BY DEF TypeOK, ThreadsOK
  <2>3. rec # Gone
    BY <2>1 DEF Sets
  <2>4. Stale(voting.meta) = {}
    BY <1>1, <2>1 DEF Stale
  <2>5. rec'.meta = m /\ rec.meta = voting.meta
    BY <2>1, <2>2, <2>3, <2>4, SetsKeep
  <2>6. rec.meta.votes \in Nat /\ rec'.meta.votes = rec.meta.votes + 1
    BY <2>1, <2>5
  <2>7. rec.meta.votes = Cardinality(cast)
    BY <1>1, <2>3, <2>6 DEF VotesCount
  <2>8. voting.by = v /\ voting.by \notin cast /\ IsFiniteSet(cast)
    BY <1>4 DEF VoteWrites, OnceOnly
  <2>9. Cardinality(cast \cup {v}) = Cardinality(cast) + 1
    BY <2>8, FS_AddElement
  <2> QED
    BY <2>1, <2>6, <2>7, <2>9
<1> QED
  BY <1>1, <1>2, <1>3, <1>4, VotesSteps

----------------------------------------------------------------------------
(* The history of the operators                                            *)

\* What the newest actions forget, they would have forgotten with one more.
LEMMA NewestAppend ==
    ASSUME NEW s \in Seq(Requests), NEW r \in Requests
    PROVE  Newest(Append(Newest(s), r)) = Newest(Append(s, r))
<1> DEFINE n == Newest(s)
           a == Append(n, r)
           b == Append(s, r)
<1>1. /\ n \in Seq(Requests) /\ Len(n) <= MaxHistory /\ Len(n) \in Nat /\ Len(s) \in Nat
      /\ Len(n) = IF Len(s) > MaxHistory THEN MaxHistory ELSE Len(s)
      /\ \A i \in 1..Len(n) : n[i] = s[Len(s) - Len(n) + i]
  BY NewestSeq
<1> HIDE DEF n
<1>2. /\ a \in Seq(Requests) /\ Len(a) = Len(n) + 1 /\ a[Len(a)] = r
      /\ \A i \in 1..Len(n) : a[i] = n[i]
  BY <1>1
<1>3. /\ b \in Seq(Requests) /\ Len(b) = Len(s) + 1 /\ b[Len(b)] = r
      /\ \A i \in 1..Len(s) : b[i] = s[i]
  OBVIOUS
<1> HIDE DEF a, b
<1>4. /\ Newest(a) \in Seq(Requests)
      /\ Len(Newest(a)) = IF Len(a) > MaxHistory THEN MaxHistory ELSE Len(a)
      /\ \A i \in 1..Len(Newest(a)) : Newest(a)[i] = a[Len(a) - Len(Newest(a)) + i]
  BY <1>2, NewestSeq
<1>5. /\ Newest(b) \in Seq(Requests)
      /\ Len(Newest(b)) = IF Len(b) > MaxHistory THEN MaxHistory ELSE Len(b)
      /\ \A i \in 1..Len(Newest(b)) : Newest(b)[i] = b[Len(b) - Len(Newest(b)) + i]
  BY <1>3, NewestSeq
<1>6. Len(Newest(a)) = Len(Newest(b)) /\ Len(Newest(a)) \in Nat
  BY <1>1, <1>2, <1>3, <1>4, <1>5
<1>7. ASSUME NEW i \in 1..Len(Newest(a)) PROVE Newest(a)[i] = Newest(b)[i]
  <2> DEFINE k == Len(Newest(a))
  <2>1. k \in Nat /\ i \in 1..k /\ k <= Len(a) /\ k <= Len(b)
    BY <1>1, <1>2, <1>3, <1>4, <1>6
  <2>2. Newest(a)[i] = a[Len(a) - k + i] /\ Newest(b)[i] = b[Len(b) - k + i]
    BY <1>4, <1>5, <1>6
  <2> HIDE DEF k
  <2>3. CASE i = k
    BY <1>1, <1>2, <1>3, <2>1, <2>2, <2>3
  <2>4. CASE i < k
    <3>1. Len(a) - k + i \in 1..Len(n)
      BY <1>1, <1>2, <2>1, <2>4
    <3>2. a[Len(a) - k + i] = s[Len(s) - Len(n) + (Len(a) - k + i)]
      BY <1>1, <1>2, <3>1
    <3>3. Len(b) - k + i \in 1..Len(s)
      BY <1>1, <1>3, <2>1, <2>4
    <3>4. b[Len(b) - k + i] = s[Len(b) - k + i]
      BY <1>3, <3>3
    <3>5. Len(s) - Len(n) + (Len(a) - k + i) = Len(b) - k + i
      <4>1. /\ Len(n) \in Nat /\ Len(s) \in Nat /\ k \in Nat /\ i \in Nat
            /\ Len(a) = Len(n) + 1 /\ Len(b) = Len(s) + 1
        BY <1>1, <1>2, <1>3, <2>1
      <4> QED
        BY <4>1
    <3> QED
      BY <2>2, <3>2, <3>4, <3>5
  <2> QED
    BY <2>1, <2>3, <2>4
<1>8. Newest(a) = Newest(b)
  BY <1>4, <1>5, <1>6, <1>7, SeqEqual
<1> QED
  BY <1>8 DEF a, b, n

LEMMA HistoryStep == TypeOK /\ HistoryIsJournal /\ [Next]_vars => HistoryIsJournal'
<1> SUFFICES ASSUME TypeOK, HistoryIsJournal, [Next]_vars, unlogged' = {}
             PROVE  past' = Newest(log')
  BY DEF HistoryIsJournal
<1>1. CASE UNCHANGED <<log, past, unlogged>>
  BY <1>1 DEF HistoryIsJournal
<1>2. CASE Crash
  BY <1>2 DEF Crash, Reloaded
<1>3. ASSUME NEW r \in Requests, Journal(r) PROVE past' = Newest(log')
  <2>1. log' = Append(log, r) /\ unlogged = {} /\ past' = Newest(Append(past, r))
    BY <1>3 DEF Journal
  <2>2. past = Newest(log) /\ log \in Seq(Requests)
    BY <2>1 DEF HistoryIsJournal, TypeOK, JournalOK
  <2> QED
    BY <2>1, <2>2, NewestAppend
<1>4. UNCHANGED <<log, past, unlogged>> \/ Crash \/ \E r \in Requests : Journal(r)
  BY Steps, LinkStepOnly
  DEF Asking, Receive, GiveUp, ReadMeta, ReadBase, Update, Told, TimesOut, Delete,
      ExplainReads, Explain, Outage, Recover, vars, journal, history
<1> QED
  BY <1>1, <1>2, <1>3, <1>4

----------------------------------------------------------------------------
(* Theorems                                                                *)

LEMMA InvInit == Init => IInv
<1> SUFFICES ASSUME Init PROVE IInv
  OBVIOUS
<1>1. TypeOK
  BY TypeInit
<1>2. LabelsHold /\ NotesHold
  <2>1. \A r \in Requests : ~Written(r)
    BY DEF Init, Written
  <2> QED
    BY <2>1 DEF LabelsHold, NotesHold, Requests
<1>3. cast = {} /\ rec.meta.votes = Unlinked /\ voting.by = Free
  BY DEF Init, Fresh, NoVote
<1>4. Unvoted /\ OnceOnly
  <2>1. ~queued /\ \A p \in Passes : pass[p].at = "idle"
    BY DEF Init, Bare
  <2> QED
    BY <1>3, <2>1, FS_EmptySet DEF Unvoted, NoVotes, OnceOnly
<1>5. VotesCount
  BY <1>3 DEF VotesCount
<1>6. HistoryIsJournal
  <2>1. log = <<>> /\ past = <<>>
    BY DEF Init
  <2>2. Newest(log) = <<>>
    BY <2>1 DEF Newest
  <2> QED
    BY <2>1, <2>2 DEF HistoryIsJournal
<1> QED
  BY <1>1, <1>2, <1>4, <1>5, <1>6 DEF IInv

\* The inductive invariant: each kind of answer, the votes and the history.
THEOREM Invariance == Spec => []IInv
<1>1. IInv /\ [Next]_vars => IInv'
  BY TypeStep, LabelsStep, NotesStep, UnvotedStep, OnceStep, VotesStep, HistoryStep DEF IInv
<1> QED
  BY <1>1, InvInit, PTL DEF Spec

\* What an operator was answered is in the memory until it is deleted, for any
\* number of requests, threads' writes, outages and crashes, unless a write with
\* an older copy of the part is recorded.
THEOREM AnswersKept == Spec => []AnswersHold
<1>1. IInv => AnswersHold
  BY DEF IInv, LabelsHold, NotesHold, AnswersHold
<1> QED
  BY <1>1, Invariance, PTL

\* Every accepted vote is counted once, for any number of votes, outages, replays
\* and crashes, unless the metadata were overwritten or the link written again.
THEOREM VotesCounted == Spec => []VotesCount
<1>1. IInv => VotesCount
  BY DEF IInv
<1> QED
  BY <1>1, Invariance, PTL

\* The history of the operators is the newest part of the journal, for every
\* bound on it and any number of crashes, unless a line was lost.
THEOREM HistoryKept == Spec => []HistoryIsJournal
<1>1. IInv => HistoryIsJournal
  BY DEF IInv
<1> QED
  BY <1>1, Invariance, PTL
====
