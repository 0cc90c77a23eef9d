---- MODULE GraphDelivery ----
(***************************************************************************)
(* What the store promises the callers that write to the memory graph:     *)
(* writes reach the graph at once, or wait in line behind all that wait,   *)
(* and what waits reaches the graph from the front of the line.  Nothing   *)
(* leaves the line in another way; no log, cursor, thread or crash appears *)
(* here.  Losing a line voids the promise for good.                        *)
(***************************************************************************)
EXTENDS Naturals

CONSTANT Writes         \* what callers write

VARIABLES
    applied,            \* writes that are in the graph
    waiting,            \* those in line, with their numbers
    void                \* the promise no longer holds

delivery == <<applied, waiting, void>>

Line == [seq : Nat, id : Writes]

Init == applied = {} /\ waiting = {} /\ void = FALSE

Ids(S) == {l.id : l \in S}

\* The graph takes the front S of the line, and writes I, some perhaps again, that
\* do not wait.
Serve(S, I) ==
    /\ \A l \in S, m \in waiting \ S : l.seq < m.seq
    /\ I \cap Ids(waiting) = {}
    /\ waiting' = waiting \ S
    /\ applied' = applied \cup Ids(S) \cup I

\* Writes that are not in the graph get in line, behind every other.
Accept(L) ==
    /\ L \subseteq Line
    /\ Ids(L) \cap (applied \cup Ids(waiting)) = {}
    /\ \A k, l \in L : k.id = l.id \/ k.seq = l.seq => k = l
    /\ \A m \in waiting, l \in L : m.seq < l.seq
    /\ waiting' = waiting \cup L
    /\ UNCHANGED applied

Next ==
    \/ /\ ~void /\ void' = FALSE
       /\ \/ \E S \in SUBSET waiting, I \in SUBSET Writes : Serve(S, I)
          \/ \E L \in SUBSET waiting' : Accept(L)
    \/ void' = TRUE

Spec == Init /\ [][Next]_delivery
====
