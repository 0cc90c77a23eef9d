---- MODULE ProposalBoard ----
(***************************************************************************)
(* What the reconfiguration routes promise their callers: a board that     *)
(* holds at most one record per proposal.  Drafts of undecided proposals   *)
(* may be under way; publishing one replaces what the board holds, and     *)
(* only a decision or a draft that was begun while the proposal was        *)
(* undecided changes a decided record.  Any write may be lost.             *)
(***************************************************************************)
CONSTANTS
    Ids,        \* proposals
    Drafters,   \* requests that draft proposals
    Fresh,      \* records of an undecided proposal
    Settled,    \* records of a decided proposal
    Nothing     \* the board holds no record

VARIABLES board, drafts

Init ==
    /\ board = [i \in Ids |-> Nothing]
    /\ drafts = [r \in Drafters |-> {}]

Undecided(i) == board[i] \notin Settled

\* The record of i becomes one of S, the others stay.
Put(i, S) ==
    /\ board' = [board EXCEPT ![i] = board'[i]]
    /\ board'[i] \in S

\* A drafter sets out on proposals that are undecided at that time.
Start(r) ==
    /\ drafts[r] = {}
    /\ \E S \in SUBSET Ids :
         /\ \A i \in S : Undecided(i)
         /\ drafts' = [drafts EXCEPT ![r] = S]
    /\ UNCHANGED board

Publish(r, i) ==
    /\ i \in drafts[r]
    /\ drafts' = [drafts EXCEPT ![r] = @ \ {i}]
    /\ \/ UNCHANGED board
       \/ Put(i, Fresh)

\* A record of its own, undecided or already decided by its author.
Post(i) ==
    /\ board[i] = Nothing
    /\ Put(i, Fresh \cup Settled)
    /\ UNCHANGED drafts

Decide(i) ==
    /\ board[i] # Nothing
    /\ Put(i, Settled)
    /\ UNCHANGED drafts

\* Drafting ends without a result, for one request or for all of them.
Drop ==
    /\ \E S \in SUBSET Drafters :
         drafts' = [r \in Drafters |-> IF r \in S THEN {} ELSE drafts[r]]
    /\ UNCHANGED board

Next ==
    \/ \E r \in Drafters : Start(r) \/ \E i \in Ids : Publish(r, i)
    \/ \E i \in Ids : Post(i) \/ Decide(i)
    \/ Drop

Spec == Init /\ [][Next]_<<board, drafts>>
====
