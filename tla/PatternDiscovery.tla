---- MODULE PatternDiscovery ----
(***************************************************************************)
(* Patterns discovered from operators' verdicts (patterns/discovery.py,    *)
(* its call in memory/feedback.py, its callback in memory/orchestrator.py, *)
(* the phases of experiment/evaluator.py).                                 *)
(*                                                                         *)
(* An engine keeps a table of patterns in insertion order.  A verdict      *)
(* whose deviating features overlap a pattern by four fifths strengthens   *)
(* it, otherwise it makes a candidate; enough verdicts promote a pattern,  *)
(* which the scorer and the graph are told.  The whole table is then       *)
(* written over one file, from which an engine starts.  The server has one *)
(* engine; each phase of an experiment, in a thread, has one of its own    *)
(* over the same file where the data directories coincide.                 *)
(*                                                                         *)
(* A deviation is a feature with its direction in a cutting context, so    *)
(* that signatures of different contexts have nothing in common.  Verdicts *)
(* that leave the table alone (too little baseline, too few deviations, a  *)
(* strong curated pattern) are left out.                                   *)
(***************************************************************************)
EXTENDS Naturals, Sequences, FiniteSets, FiniteSetsExt

CONSTANTS
    Server,           \* the engine of the orchestrator
    Phases,           \* engines of experiment phases
    Confirmed,        \* sets of features that deviate together in confirmed memories
    Dismissed,        \* ... and in dismissed ones
    None, Torn,       \* there is no file, or one that does not parse
    MinConfirmations, \* verdicts that promote a pattern (4)
    MaxDiscovered,    \* patterns an engine keeps (50)
    MaxVerdicts,      \* bound on the verdicts the server learns from
    MaxPhaseVerdicts  \* bound on those each phase learns from

Engines    == {Server} \cup Phases
Signatures == Confirmed \cup Dismissed

ASSUME EngineAssumption == Server \notin Phases
ASSUME SizeAssumption == \A s \in Signatures : IsFiniteSet(s) /\ Cardinality(s) \in 2..6
ASSUME NatAssumption ==
    /\ MinConfirmations \in Nat \ {0, 1} /\ MaxDiscovered \in Nat \ {0}
    /\ MaxVerdicts \in Nat /\ MaxPhaseVerdicts \in Nat

Kinds == {"discovered", "suppressed"}
Key   == Kinds \X Signatures

\* backed counts the memories among its source events that were judged its way,
\* events the signatures of all of them.
Pattern == [kind : Kinds, named : Signatures, features : SUBSET UNION Signatures,
            count : Nat \ {0}, born : Nat, promoted : BOOLEAN,
            backed : Nat, events : SUBSET Signatures]

ASSUME FileAssumption == None \notin Seq(Pattern) /\ Torn \notin Seq(Pattern)

\* A verdict; again says that the pattern it strengthens has the memory already.
Sources ==
    [verdict : {"confirm"}, features : Confirmed, again : BOOLEAN]
    \cup [verdict : {"dismiss"}, features : Dismissed, again : BOOLEAN]

VARIABLES
    table,      \* the patterns of each engine
    at,         \* where each engine stands
    file,       \* discovered_patterns.json
    primed,     \* keys that have an entry in the priors of the scorer
    nodes,      \* promotions in the graph, or in its outbox
    \* history
    judged,     \* verdicts each engine has learned from
    current,    \* engines that know what the file says
    causes      \* which schedules that undo a promotion have happened

Causes == {"repeated", "mixed", "evicted", "collided", "clobbered", "lost",
           "foreign", "reset", "unpublished"}

\* Bound: no behaviour has two of them.
Happened(C) == causes' = causes \cup C /\ Cardinality(causes') <= 1

promotions == <<primed, nodes>>
vars == <<table, at, file, promotions, judged, current, causes>>

Init ==
    /\ table = [e \in Engines |-> <<>>]
    /\ at = [e \in Engines |-> IF e = Server THEN "idle" ELSE "off"]
    /\ file = None
    /\ primed = {} /\ nodes = {}
    /\ judged = [e \in Engines |-> 0] /\ current = {Server} /\ causes = {}

----------------------------------------------------------------------------
(* The table of an engine                                                  *)

\* The key is built from the signature a pattern began with.
KeyOf(p)    == <<p.kind, p.named>>
Patterns(t) == {t[i] : i \in DOMAIN t}
Promoted(t) == {KeyOf(p) : p \in {q \in Patterns(t) : q.promoted}}

\* Mutant: half of the features will do.
OverlapsHalf(s, f) == 2 * Cardinality(s \cap f) >= Cardinality(s \cup f)

\* Jaccard similarity of at least 0.8.
Overlaps(s, f) == 5 * Cardinality(s \cap f) >= 4 * Cardinality(s \cup f)

\* A dismissal looks at suppression patterns, a confirmation at all.
Hits(t, src) ==
    {i \in DOMAIN t : /\ Overlaps(src.features, t[i].features)
                      /\ src.verdict = "dismiss" => t[i].kind = "suppressed"}

First(I) == CHOOSE i \in I : \A j \in I : i <= j

\* The verdict that speaks for a pattern.
Way(p) == IF p.kind = "discovered" THEN "confirm" ELSE "dismiss"

Strengthened(p, src) ==
    [p EXCEPT !.count    = @ + 1,
              !.features = @ \cup src.features,
              !.promoted = @ \/ p.count + 1 >= MinConfirmations,
              !.backed   = IF src.again \/ src.verdict # Way(p) THEN @ ELSE @ + 1,
              !.events   = @ \cup {src.features}]

\* first_seen counts only in comparison with the others in the table.
Candidate(t, src) ==
    [kind |-> IF src.verdict = "confirm" THEN "discovered" ELSE "suppressed",
     named |-> src.features, features |-> src.features, count |-> 1,
     born |-> Max({0} \cup {p.born : p \in Patterns(t)}) + 1, promoted |-> FALSE, backed |-> 1,
     events |-> {src.features}]

\* The lowest count goes first, and of those the newest.
Weaker(p, q) == p.count < q.count \/ (p.count = q.count /\ p.born > q.born)

\* Mutant: the oldest pattern makes room.
Oldest(t) == CHOOSE i \in DOMAIN t : \A j \in DOMAIN t : t[i].born <= t[j].born

Weakest(t) == CHOOSE i \in DOMAIN t : \A j \in DOMAIN t \ {i} : Weaker(t[i], t[j])

Without(t, i) == SubSeq(t, 1, i - 1) \o SubSeq(t, i + 1, Len(t))

Full(t) == Len(t) >= MaxDiscovered
Room(t) == IF Full(t) THEN Without(t, Weakest(t)) ELSE t

Same(t, p) == {i \in DOMAIN t : KeyOf(t[i]) = KeyOf(p)}

\* A pattern takes the place of the one with its key.
Put(t, p) == IF Same(t, p) = {} THEN Append(t, p) ELSE [t EXCEPT ![First(Same(t, p))] = p]

\* analyse_confirmed_event and analyse_dismissed_event.
Analysed(t, src) ==
    IF Hits(t, src) # {}
    THEN [t EXCEPT ![First(Hits(t, src))] = Strengthened(@, src)]
    ELSE Put(Room(t), Candidate(t, src))

\* What an analysis does to patterns that count on standing.
Undone(t, src) ==
    IF Hits(t, src) # {}
    THEN LET p == t[First(Hits(t, src))] IN
         (IF src.again THEN {"repeated"} ELSE {})
         \cup (IF src.verdict # Way(p) THEN {"mixed"} ELSE {})
    ELSE (IF Full(t) /\ t[Weakest(t)].promoted THEN {"evicted"} ELSE {})
         \cup (IF \E i \in Same(Room(t), Candidate(t, src)) : Room(t)[i].promoted
                 THEN {"collided"} ELSE {})

----------------------------------------------------------------------------
(* Verdicts                                                                *)

\* Mutant: the scorer gets no entry.
PromoteUnprimed(K, v) ==
    /\ UNCHANGED primed
    /\ nodes' \in {nodes, nodes \cup K}

\* _promote and the callback of the server's engine.  The scorer gets an entry
\* for what a confirmation promotes; the outbox or the graph gets the node, or
\* neither does and the error is swallowed.
Promote(K, v) ==
    /\ primed' = IF v = "confirm" THEN primed \cup K ELSE primed
    /\ nodes' \in {nodes, nodes \cup K}

\* The table, and with it what is promoted, changes in one step.
Judge(e, src) ==
    LET after == Analysed(table[e], src)
        new   == Promoted(after) \ Promoted(table[e])
    IN  /\ at[e] = "idle"
        /\ judged[e] < IF e = Server THEN MaxVerdicts ELSE MaxPhaseVerdicts
        /\ judged' = [judged EXCEPT ![e] = @ + 1]
        /\ table' = [table EXCEPT ![e] = after]
        /\ at' = [at EXCEPT ![e] = "analysed"]
        /\ IF e = Server THEN Promote(new, src.verdict) ELSE UNCHANGED promotions
        /\ Happened(Undone(table[e], src)
                    \cup (IF e = Server /\ ~ (new \subseteq nodes') THEN {"unpublished"} ELSE {}))
        /\ UNCHANGED <<file, current>>

----------------------------------------------------------------------------
(* The file                                                                *)

\* _save opens the file, which empties it ...
Open(e) ==
    /\ at[e] = "analysed"
    /\ at' = [at EXCEPT ![e] = "writing"]
    /\ file' = Torn
    /\ UNCHANGED <<table, promotions, judged, current, causes>>

\* ... and writes the whole table, over what another engine has written since.
Write(e) ==
    /\ at[e] = "writing"
    /\ at' = [at EXCEPT ![e] = "idle"]
    /\ file' \in {table[e]} \cup (IF file = Torn THEN {} ELSE {Torn})
    /\ current' = {e}
    /\ Happened(IF e \in current THEN {} ELSE {"clobbered"})
    /\ UNCHANGED <<table, promotions, judged>>

\* An error is logged, and the engine goes on with what it has in memory.
SaveFails(e) ==
    /\ at[e] \in {"analysed", "writing"}
    /\ at' = [at EXCEPT ![e] = "idle"]
    /\ file' = IF at[e] = "writing" THEN Torn ELSE file
    /\ Happened({"lost"})
    /\ UNCHANGED <<table, promotions, judged, current>>

\* A file that does not parse is a table without patterns.
Loaded == IF file \in {None, Torn} THEN <<>> ELSE file
Unread == IF file = Torn THEN {"lost"} ELSE {}

\* A phase of an experiment has an engine of its own while it lasts.
PhaseBegins(e) ==
    /\ at[e] = "off"
    /\ at' = [at EXCEPT ![e] = "idle"]
    /\ table' = [table EXCEPT ![e] = Loaded]
    /\ current' = current \cup {e}
    /\ Happened(Unread)
    /\ UNCHANGED <<file, promotions, judged>>

PhaseEnds(e) ==
    /\ e # Server /\ at[e] = "idle"
    /\ at' = [at EXCEPT ![e] = "off"]
    /\ table' = [table EXCEPT ![e] = <<>>]
    /\ UNCHANGED <<file, promotions, judged, current, causes>>

\* The process dies, and starts again from the file.
Crash ==
    /\ at' = [e \in Engines |-> IF e = Server THEN "idle" ELSE "off"]
    /\ table' = [e \in Engines |-> IF e = Server THEN Loaded ELSE <<>>]
    /\ current' = {Server}
    /\ Happened(Unread \cup (IF at[Server] # "idle" THEN {"lost"} ELSE {})
                       \cup (IF Server \in current \/ "clobbered" \in causes THEN {} ELSE {"foreign"}))
    /\ UNCHANGED <<file, promotions, judged>>

----------------------------------------------------------------------------
(* Elsewhere                                                               *)

\* A reset of the priors, the end of a sandbox, or a start after their save failed.
PriorsReplaced ==
    /\ \E K \in SUBSET primed : primed' = K
    /\ primed' # primed
    /\ Happened({"reset"})
    /\ UNCHANGED <<table, at, file, nodes, judged, current>>

----------------------------------------------------------------------------
Next ==
    \/ \E e \in Engines :
        \/ \E src \in Sources : Judge(e, src)
        \/ Open(e) \/ Write(e) \/ SaveFails(e) \/ PhaseBegins(e) \/ PhaseEnds(e)
    \/ Crash \/ PriorsReplaced

Spec == Init /\ [][Next]_vars

----------------------------------------------------------------------------
(* Properties                                                              *)

\* Tables, file and graph have the shapes the code gives them.
TypeOK ==
    /\ table \in [Engines -> Seq(Pattern)]
    /\ at \in [Engines -> {"off", "idle", "analysed", "writing"}]
    /\ file \in {None, Torn} \cup Seq(Pattern)
    /\ {primed, nodes} \subseteq SUBSET Key
    /\ judged \in [Engines -> Nat] /\ current \subseteq Engines
    /\ causes \subseteq Causes

Spared(bad) == causes \cap bad = {}

\* What a pattern asks of an event was seen in one event, however often it was
\* merged with others; and a promoted pattern rests on as many memories judged
\* its way as a promotion takes, over restarts and copies of the file, unless
\* one memory was judged again or a confirmation went to a suppression pattern.
PromotionEarned ==
    \A e \in Engines : \A p \in Patterns(table[e]) :
        /\ p.features \in p.events
        /\ p.promoted /\ Spared({"repeated", "mixed"})
             => p.backed >= MinConfirmations

\* What the server has promoted stays promoted, over crashes and beside the
\* phases of an experiment, until it is evicted or a candidate takes its key,
\* and unless the file was lost or written over by an engine that did not know
\* it; and a promoted pattern is evicted only when there is no candidate left.
PromotionStands ==
    [][/\ \/ Promoted(table[Server]) \subseteq Promoted(table'[Server])
          \/ causes' \cap {"evicted", "collided", "clobbered", "lost"} # {}
       /\ \A e \in Engines : \A p \in Patterns(table[e]) :
            /\ p.promoted /\ at[e] = "idle" /\ at'[e] = "analysed"
            /\ \A q \in Patterns(table'[e]) : KeyOf(q) # KeyOf(p)
            => \A q \in Patterns(table[e]) : q.promoted]_vars

\* A pattern that the server has promoted is known to the graph, or will be, and
\* a discovered one has an entry in the scorer's priors, over crashes between
\* the three, unless the write of its node failed twice, the priors were
\* replaced or the pattern came from an experiment.
PromotedKnown ==
    /\ Spared({"foreign", "clobbered", "unpublished"}) => Promoted(table[Server]) \subseteq nodes
    /\ Spared({"foreign", "clobbered", "reset"}) =>
         {k \in Promoted(table[Server]) : k[1] = "discovered"} \subseteq primed
====
