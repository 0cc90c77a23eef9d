---- MODULE Reconfiguration ----
(***************************************************************************)
(* Reconfiguration proposals and the operator's decisions on them          *)
(* (routers/reconfig.py, agents/memory/reconfig.py).                       *)
(*                                                                         *)
(* The only state is an append-only JSONL file.  A proposal is the last    *)
(* line with its id; a decision appends a copy of that line.  Every        *)
(* handler runs without a suspension, except that closing a batch waits    *)
(* for a language model between its look at the decisions and each line    *)
(* it writes.  A write may fail and leave a partial line, to which the     *)
(* next line is glued; both are then skipped by every reader.  A content   *)
(* is a number: that of the draft, or of the operator's edit of its deltas.*)
(***************************************************************************)
EXTENDS Naturals, Sequences, FiniteSets

CONSTANTS
    Contexts,   \* cutting contexts of the batch: one proposal id for each
    Singles,    \* proposals with an id of their own
    Requests,   \* compose-batch requests that run at the same time
    Screens,    \* pages on which operators see and decide proposals
    Nothing,    \* no line has the id
    MaxLines,   \* bound on the lines of the file
    MaxDrafts   \* bound on the contents that are drawn up or edited

Ids == Contexts \cup Singles

ASSUME IdAssumption == Contexts \cap Singles = {}
ASSUME BoundAssumption == MaxLines \in Nat /\ MaxDrafts \in Nat

Verdicts  == {"accept", "reject", "modify"}
Decisions == Verdicts \cup {"manual"}

Record == [id : Ids, content : Nat, decision : Decisions \cup {"none"}, applied : BOOLEAN]

ASSUME NothingAssumption == Nothing \notin Record

VARIABLES
    file,       \* the decodable lines
    torn,       \* the file ends in a partial line
    confirmed,  \* contexts of the batch with enough confirmed feedback
    todo,       \* groups a compose-batch request has yet to write
    shown,      \* what each screen shows of each proposal
    drawn,      \* contents drawn up or edited so far, which number them
    \* history
    minted,     \* ids of their own that have been given away
    answered,   \* last decision on each proposal that a request answered
    seen,       \* the content its author had on the screen
    causes      \* which schedules that undo a decision have happened

disk    == <<file, torn>>
history == <<answered, seen, causes>>
vars    == <<file, torn, confirmed, todo, shown, drawn, minted, answered, seen, causes>>

\* The file is read from the front and a later line replaces an earlier one.
Lines(f, i)  == {n \in DOMAIN f : f[n].id = i}
Last(f, i)   == CHOOSE n \in Lines(f, i) : \A m \in Lines(f, i) : m <= n

\* Mutant: the first line with the id is taken.
FirstLine(f, i) ==
    IF Lines(f, i) = {} THEN Nothing
    ELSE f[CHOOSE n \in Lines(f, i) : \A m \in Lines(f, i) : n <= m]

Latest(f, i) == IF Lines(f, i) = {} THEN Nothing ELSE f[Last(f, i)]

Decided(f, i) == Latest(f, i) # Nothing /\ Latest(f, i).decision # "none"

----------------------------------------------------------------------------
Init ==
    /\ file = <<>> /\ torn = FALSE
    /\ confirmed = {}
    /\ todo = [r \in Requests |-> {}]
    /\ shown = [o \in Screens |-> [i \in Ids |-> Nothing]]
    /\ drawn = 0 /\ minted = {}
    /\ answered = [i \in Ids |-> "none"]
    /\ seen = [i \in Ids |-> 0]
    /\ causes = {}

----------------------------------------------------------------------------
(* append_reconfig_record                                                  *)

\* One line at the end of the file; behind a partial line it is glued to it.
Write(rec) ==
    /\ Len(file) < MaxLines
    /\ file' = IF torn THEN file ELSE Append(file, rec)
    /\ torn' = FALSE

\* The error reaches the client as status 500.
WriteFails ==
    /\ UNCHANGED file
    /\ torn' \in {torn, TRUE}

Glued == IF torn THEN {"glued"} ELSE {}

----------------------------------------------------------------------------
\* A memory of the batch is confirmed by the operator.
Confirm(c) ==
    /\ c \notin confirmed
    /\ confirmed' = confirmed \cup {c}
    /\ UNCHANGED <<disk, todo, shown, drawn, minted, history>>

\* Mutant: decided proposals are drafted again.
BeginAll(r) ==
    /\ todo[r] = {}
    /\ \E counted \in SUBSET confirmed : todo' = [todo EXCEPT ![r] = counted]
    /\ UNCHANGED <<disk, confirmed, shown, drawn, minted, history>>

\* POST /compose-batch up to its first wait: the feedback of each group is
\* counted, as zero where the store fails, and groups that are decided are
\* left alone.
Begin(r) ==
    /\ todo[r] = {}
    /\ \E counted \in SUBSET confirmed :
         todo' = [todo EXCEPT ![r] = {c \in counted : ~Decided(file, c)}]
    /\ UNCHANGED <<disk, confirmed, shown, drawn, minted, history>>

\* Mutant: a proposal takes effect before anyone has decided.
DraftApplied(c) == [id |-> c, content |-> drawn + 1, decision |-> "none", applied |-> TRUE]

Draft(c) == [id |-> c, content |-> drawn + 1, decision |-> "none", applied |-> FALSE]

\* The model, or its deterministic stand-in, has answered for group c.
Publish(r, c) ==
    /\ c \in todo[r]
    /\ drawn < MaxDrafts /\ drawn' = drawn + 1
    /\ \/ /\ Write(Draft(c))
          /\ todo' = [todo EXCEPT ![r] = @ \ {c}]
          /\ causes' = causes \cup Glued
                 \cup (IF Decided(file, c) THEN {"straddled"} ELSE {})
                 \cup (IF \E o \in Screens : shown[o][c] # Nothing
                         THEN {"redrawn"} ELSE {})
       \/ /\ WriteFails
          /\ todo' = [todo EXCEPT ![r] = {}]
          /\ UNCHANGED causes
    /\ UNCHANGED <<confirmed, shown, minted, answered, seen>>

\* POST /proposal, POST /compose and the composer of the orchestrator.
Propose(s) ==
    /\ s \notin minted /\ drawn < MaxDrafts
    /\ minted' = minted \cup {s} /\ drawn' = drawn + 1
    /\ \/ Write(Draft(s)) /\ causes' = causes \cup Glued
       \/ WriteFails /\ UNCHANGED causes
    /\ UNCHANGED <<confirmed, todo, shown, answered, seen>>

\* POST /manual: the operator reports what was done.
Manual(s) ==
    /\ s \notin minted /\ drawn < MaxDrafts
    /\ minted' = minted \cup {s} /\ drawn' = drawn + 1
    /\ \/ /\ Write([Draft(s) EXCEPT !.decision = "manual", !.applied = TRUE])
          /\ answered' = [answered EXCEPT ![s] = "manual"]
          /\ seen' = [seen EXCEPT ![s] = drawn + 1]
          /\ causes' = causes \cup Glued
       \/ WriteFails /\ UNCHANGED <<answered, seen, causes>>
    /\ UNCHANGED <<confirmed, todo, shown>>

Page(f) == [i \in Ids |-> Latest(f, i)]

\* The page asks for the list every few seconds.
Load(o) ==
    /\ shown' = [shown EXCEPT ![o] = Page(file)]
    /\ UNCHANGED <<disk, confirmed, todo, drawn, minted, history>>

\* apply_reconfig_decision.  A modification brings deltas of its own; the other
\* decisions take those of the line they copy.
Outcome(rec, d, content) ==
    [rec EXCEPT !.decision = d,
                !.applied = (d # "reject"),
                !.content = IF d = "modify" THEN content ELSE rec.content]

\* Some screen still shows the proposal as undecided.
ShownOpen(page, i) == \E o \in Screens : page[o][i] # Nothing /\ page[o][i].decision = "none"

\* POST /{id}/accept, /reject and /modify.  The page has buttons for what it
\* shows as undecided; the request names the proposal, not its content, except
\* that a modification carries the deltas of the screen, as the operator has
\* edited them or left them.  The page then asks for the list, before its buttons
\* work again; if that fails it keeps what it shows.
Decide(o, i, d) ==
    LET rec == Latest(file, i)
        own == shown[o][i].content
    IN
    /\ shown[o][i] # Nothing /\ shown[o][i].decision = "none"
    /\ rec # Nothing
    /\ \/ \E content \in {own} \cup (IF d = "modify" /\ drawn < MaxDrafts
                                   THEN {drawn + 1} ELSE {}) :
            /\ Write(Outcome(rec, d, content))
            /\ drawn' = IF content = own THEN drawn ELSE drawn + 1
            /\ shown' \in {shown, [shown EXCEPT ![o] = Page(file')]}
            /\ answered' = [answered EXCEPT ![i] = d]
            /\ seen' = [seen EXCEPT ![i] = content]
            /\ causes' = causes \cup Glued
                 \cup (IF content # own /\ ShownOpen(shown', i) THEN {"edited"} ELSE {})
       \/ WriteFails /\ UNCHANGED <<drawn, shown, history>>
    /\ UNCHANGED <<confirmed, todo, minted>>

\* The process dies, in the middle of a write or not, and is started again.
Crash ==
    /\ torn' \in {torn, TRUE}
    /\ todo' = [r \in Requests |-> {}]
    /\ UNCHANGED <<file, confirmed, shown, drawn, minted, history>>

Next ==
    \/ \E c \in Contexts : Confirm(c)
    \/ \E r \in Requests : Begin(r) \/ \E c \in Contexts : Publish(r, c)
    \/ \E s \in Singles : Propose(s) \/ Manual(s)
    \/ \E o \in Screens : Load(o) \/ \E i \in Ids, d \in Verdicts : Decide(o, i, d)
    \/ Crash

Spec == Init /\ [][Next]_vars

----------------------------------------------------------------------------
(* Properties                                                              *)

\* The file, the requests in progress and the screens hold records of the
\* shapes the code gives them, each under its own id.
TypeOK ==
    /\ file \in Seq(Record) /\ torn \in BOOLEAN
    /\ confirmed \subseteq Contexts
    /\ todo \in [Requests -> SUBSET Contexts]
    /\ shown \in [Screens -> [Ids -> Record \cup {Nothing}]]
    /\ drawn \in Nat /\ minted \subseteq Singles
    /\ answered \in [Ids -> Decisions \cup {"none"}]
    /\ seen \in [Ids -> Nat]
    /\ causes \subseteq {"glued", "straddled", "redrawn", "edited"}

\* A decision that was answered is what every reader finds, over refreshes of
\* the batch, failed writes and crashes, unless a draft begun before it was
\* published after it or a line was glued to a partial one.
DecisionStands ==
    causes \cap {"glued", "straddled"} = {} =>
        \A i \in Ids :
            answered[i] # "none" =>
                Latest(file, i) # Nothing /\ Latest(file, i).decision = answered[i]

\* What counts as approved or adjusted has the content its operator had on the
\* screen, the operator's own edits included, however many screens decide on one
\* proposal, unless it was drawn up again or edited while some screen showed an
\* earlier content of it as undecided.
ApprovedAsShown ==
    causes = {} =>
        \A i \in Ids :
            Latest(file, i) # Nothing /\ Latest(file, i).applied =>
                Latest(file, i).content = seen[i]

\* The file implements a board with one record per proposal, on which only
\* a decision, or a draft begun before it, changes a decided record.
Board == INSTANCE ProposalBoard WITH
    Drafters <- Requests,
    Fresh    <- {r \in Record : r.decision = "none"},
    Settled  <- {r \in Record : r.decision # "none"},
    board    <- [i \in Ids |-> Latest(file, i)],
    drafts   <- todo
ImplementsBoard == Board!Spec

\* compose-batch: "Operator already accepted/rejected/modified this one --
\* don't reopen it."  A decided proposal stays decided.
DecidedNotReopened ==
    [][\A i \in Ids : Decided(file, i) => Decided(file', i)]_vars
====
