---- MODULE Reconfiguration_proofs ----
(***************************************************************************)
(* Proofs about Reconfiguration, for every set of proposals, requests and  *)
(* screens and every bound.                                                *)
(*                                                                         *)
(* Appending a line with an id changes what that id's reader finds and     *)
(* nothing else, once it is known that every id that has a line has a last *)
(* one.  The invariant carries that fact along with the file, so that no   *)
(* induction on its length is needed.                                      *)
(***************************************************************************)
EXTENDS Reconfiguration, TLAPS

HasLast(f) ==
    \A i \in Ids : Lines(f, i) # {} =>
        \E n \in Lines(f, i) : \A m \in Lines(f, i) : m <= n

\* Ids of their own have lines only once they are given away.
Minted == \A s \in Singles : Latest(file, s) # Nothing => s \in minted

\* While no proposal was drawn up again or edited behind a screen and no line
\* glued, a screen shows the content that the file has of whatever it shows as
\* undecided.
ShownCurrent ==
    causes = {} =>
        \A o \in Screens, i \in Ids :
            shown[o][i] # Nothing =>
                /\ Latest(file, i) # Nothing
                /\ shown[o][i].decision = "none" =>
                     shown[o][i].content = Latest(file, i).content

IInv == TypeOK /\ HasLast(file) /\ Minted /\ ShownCurrent /\ DecisionStands /\ ApprovedAsShown

----------------------------------------------------------------------------
(* The file                                                                *)

\* An id that has a line has its last line as its record.
LEMMA LastLine ==
    ASSUME NEW f \in Seq(Record), HasLast(f), NEW i \in Ids, Lines(f, i) # {}
    PROVE  /\ Last(f, i) \in Lines(f, i)
           /\ \A m \in Lines(f, i) : m <= Last(f, i)
           /\ Latest(f, i) = f[Last(f, i)]
  BY DEF HasLast, Last, Latest

\* A reader finds nothing or a record of the id it asked for.
LEMMA LatestRecord ==
    ASSUME NEW f \in Seq(Record), HasLast(f), NEW i \in Ids, Latest(f, i) # Nothing
    PROVE  Latest(f, i) \in Record /\ Latest(f, i).id = i
<1>1. Lines(f, i) # {}
  BY DEF Latest
<1>2. Last(f, i) \in DOMAIN f /\ f[Last(f, i)].id = i /\ Latest(f, i) = f[Last(f, i)]
  BY <1>1, LastLine DEF Lines
<1> QED
  BY <1>2

\* The lines of an id in a file with one more line.
LEMMA LinesAppend ==
    ASSUME NEW f \in Seq(Record), NEW rec \in Record, NEW i \in Ids
    PROVE  Lines(Append(f, rec), i) =
             IF i = rec.id THEN Lines(f, i) \cup {Len(f) + 1} ELSE Lines(f, i)
<1> DEFINE g == Append(f, rec)
<1>1. /\ DOMAIN f = 1..Len(f) /\ DOMAIN g = 1..(Len(f) + 1) /\ Len(f) \in Nat
      /\ g[Len(f) + 1] = rec
      /\ \A n \in 1..Len(f) : g[n] = f[n]
  OBVIOUS
<1> HIDE DEF g
<1>2. Lines(g, i) = {n \in 1..(Len(f) + 1) : g[n].id = i}
  BY <1>1 DEF Lines
<1>3. Lines(f, i) = {n \in 1..Len(f) : f[n].id = i}
  BY <1>1 DEF Lines
<1>4. Lines(g, i) = IF i = rec.id THEN Lines(f, i) \cup {Len(f) + 1} ELSE Lines(f, i)
  BY <1>1, <1>2, <1>3
<1> QED
  BY <1>4 DEF g

\* A line at the end becomes the record of its id and of no other.
LEMMA LatestAppend ==
    ASSUME NEW f \in Seq(Record), NEW rec \in Record, HasLast(f)
    PROVE  /\ Append(f, rec) \in Seq(Record)
           /\ HasLast(Append(f, rec))
           /\ \A i \in Ids :
                Latest(Append(f, rec), i) = IF i = rec.id THEN rec ELSE Latest(f, i)
<1> DEFINE g == Append(f, rec)
<1>1. /\ g \in Seq(Record) /\ g[Len(f) + 1] = rec /\ Len(f) \in Nat
      /\ \A n \in 1..Len(f) : g[n] = f[n]
      /\ DOMAIN f = 1..Len(f)
  OBVIOUS
<1>2. \A i \in Ids : Lines(g, i) = IF i = rec.id THEN Lines(f, i) \cup {Len(f) + 1}
                                   ELSE Lines(f, i)
  BY LinesAppend
<1> HIDE DEF g
<1>3. \A i \in Ids : \A m \in Lines(f, i) : m \in 1..Len(f)
  BY <1>1 DEF Lines
<1>4. HasLast(g)
  <2> SUFFICES ASSUME NEW i \in Ids, Lines(g, i) # {}
               PROVE  \E n \in Lines(g, i) : \A m \in Lines(g, i) : m <= n
    BY DEF HasLast
  <2>1. CASE i = rec.id
    <3>1. Len(f) + 1 \in Lines(g, i) /\ \A m \in Lines(g, i) : m <= Len(f) + 1
      BY <1>1, <1>2, <1>3, <2>1
    <3> QED
      BY <3>1
  <2>2. CASE i # rec.id
    BY <1>2, <2>2 DEF HasLast
  <2> QED
    BY <2>1, <2>2
<1>5. ASSUME NEW i \in Ids
      PROVE  Latest(g, i) = IF i = rec.id THEN rec ELSE Latest(f, i)
  <2>1. CASE i = rec.id
    <3>1. Len(f) + 1 \in Lines(g, i) /\ Lines(g, i) # {}
      BY <1>2, <2>1
    <3>2. /\ Last(g, i) \in Lines(g, i) /\ Len(f) + 1 <= Last(g, i)
          /\ Latest(g, i) = g[Last(g, i)]
      BY <1>1, <1>4, <3>1, LastLine
    <3>3. Last(g, i) = Len(f) + 1
      BY <1>1, <1>2, <1>3, <2>1, <3>2
    <3> QED
      BY <1>1, <2>1, <3>2, <3>3
  <2>2. CASE i # rec.id
    <3>1. Lines(g, i) = Lines(f, i)
      BY <1>2, <2>2
    <3>2. CASE Lines(f, i) = {}
      BY <2>2, <3>1, <3>2 DEF Latest
    <3>3. CASE Lines(f, i) # {}
      <4>1. Last(g, i) = Last(f, i)
        BY <3>1 DEF Last
      <4>2. Last(f, i) \in 1..Len(f)
        BY <1>3, <3>3, LastLine
      <4> QED
        BY <1>1, <2>2, <3>1, <3>3, <4>1, <4>2 DEF Latest
    <3> QED
      BY <3>2, <3>3
  <2> QED
    BY <2>1, <2>2
<1> QED
  BY <1>1, <1>4, <1>5 DEF g

\* What a write does to the file and to its readers.
LEMMA WriteEffect ==
    ASSUME NEW rec \in Record, file \in Seq(Record), HasLast(file), torn \in BOOLEAN, Write(rec)
    PROVE  /\ file' \in Seq(Record) /\ HasLast(file') /\ torn' \in BOOLEAN
           /\ torn => file' = file
           /\ ~torn => \A i \in Ids :
                Latest(file', i) = IF i = rec.id THEN rec ELSE Latest(file, i)
<1>1. CASE torn
  BY <1>1 DEF Write
<1>2. CASE ~torn
  BY <1>2, LatestAppend DEF Write
<1> QED
  BY <1>1, <1>2

----------------------------------------------------------------------------
(* The invariant                                                           *)

LEMMA InitIInv == Init => IInv
<1> SUFFICES ASSUME Init PROVE IInv
  OBVIOUS
<1>1. TypeOK
  <2>1. file \in Seq(Record) /\ torn \in BOOLEAN /\ drawn \in Nat
    <3>1. <<>> \in Seq(Record)
      OBVIOUS
    <3> QED
      BY <3>1 DEF Init
  <2>2. /\ todo \in [Requests -> SUBSET Contexts]
        /\ shown \in [Screens -> [Ids -> Record \cup {Nothing}]]
        /\ answered \in [Ids -> Decisions \cup {"none"}]
        /\ seen \in [Ids -> Nat]
    BY DEF Init
  <2> QED
    BY <2>1, <2>2 DEF Init, TypeOK
<1>2. \A i \in Ids : Lines(file, i) = {} /\ Latest(file, i) = Nothing
  BY DEF Init, Lines, Latest
<1>3. HasLast(file)
  BY <1>2 DEF HasLast
<1>4. Minted /\ ShownCurrent /\ DecisionStands /\ ApprovedAsShown
  BY <1>2 DEF Init, Ids, Minted, ShownCurrent, DecisionStands, ApprovedAsShown
<1> QED
  BY <1>1, <1>3, <1>4 DEF IInv

\* A step that leaves the file, what is on the screens and the history alone.
LEMMA QuietStep ==
    ASSUME IInv, TypeOK', UNCHANGED <<file, minted, shown, history>>
    PROVE  IInv'
<1>1. \A i \in Ids : Latest(file', i) = Latest(file, i)
  BY DEF history
<1>2. HasLast(file')
  BY DEF IInv, history
<1> QED
  BY <1>1, <1>2 DEF IInv, history, Minted, ShownCurrent, DecisionStands, ApprovedAsShown

LEMMA DraftRecord ==
    ASSUME TypeOK, NEW i \in Ids
    PROVE  /\ Draft(i) \in Record /\ Draft(i).id = i
           /\ Draft(i).decision = "none" /\ Draft(i).applied = FALSE
           /\ Draft(i).content = drawn + 1
  BY DEF TypeOK, Draft, Record

LEMMA PublishStep ==
    ASSUME IInv, NEW r \in Requests, NEW c \in Contexts, Publish(r, c)
    PROVE  IInv'
<1>1. /\ c \in Ids /\ c \notin Singles
      /\ Draft(c) \in Record /\ Draft(c).id = c
      /\ Draft(c).decision = "none" /\ Draft(c).applied = FALSE
  BY DraftRecord, IdAssumption DEF IInv, Ids
<1>2. CASE UNCHANGED file /\ torn' \in {torn, TRUE} /\ todo' = [todo EXCEPT ![r] = {}]
           /\ UNCHANGED causes
  <2>1. TypeOK'
    <3>1. todo' \in [Requests -> SUBSET Contexts] /\ drawn' \in Nat
      BY <1>2 DEF IInv, TypeOK, Publish
    <3>2. file' \in Seq(Record) /\ torn' \in BOOLEAN
      BY <1>2 DEF IInv, TypeOK
    <3> QED
      BY <1>2, <3>1, <3>2 DEF IInv, TypeOK, Publish
  <2> QED
    BY <1>2, <2>1, QuietStep DEF Publish, history
<1>3. CASE /\ Write(Draft(c))
           /\ todo' = [todo EXCEPT ![r] = @ \ {c}]
           /\ causes' = causes \cup Glued
                 \cup (IF Decided(file, c) THEN {"straddled"} ELSE {})
                 \cup (IF \E o \in Screens : shown[o][c] # Nothing
                         THEN {"redrawn"} ELSE {})
  <2>1. /\ file' \in Seq(Record) /\ HasLast(file') /\ torn' \in BOOLEAN
        /\ torn => file' = file
        /\ ~torn => \A i \in Ids :
             Latest(file', i) = IF i = c THEN Draft(c) ELSE Latest(file, i)
    BY <1>1, <1>3, WriteEffect DEF IInv, TypeOK
  <2>2. TypeOK'
    <3>1. causes' \subseteq {"glued", "straddled", "redrawn", "edited"}
      BY <1>3 DEF IInv, TypeOK, Glued
    <3>2. todo' \in [Requests -> SUBSET Contexts] /\ drawn' \in Nat
      BY <1>3 DEF IInv, TypeOK, Publish
    <3> QED
      BY <2>1, <3>1, <3>2 DEF IInv, TypeOK, Publish
  <2>3. /\ UNCHANGED <<shown, minted, answered, seen>>
        /\ torn => "glued" \in causes'
        /\ Decided(file, c) => "straddled" \in causes'
        /\ (\E o \in Screens : shown[o][c] # Nothing) => "redrawn" \in causes'
        /\ causes \subseteq causes'
    BY <1>3 DEF Publish, Glued
  <2>4. Minted'
    BY <1>1, <2>1, <2>3 DEF IInv, Minted, Ids
  <2>5. ShownCurrent'
    BY <1>1, <2>1, <2>3 DEF IInv, ShownCurrent
  <2>6. DecisionStands'
    BY <1>1, <2>1, <2>3 DEF IInv, DecisionStands, Decided
  <2>7. ApprovedAsShown'
    BY <1>1, <2>1, <2>3 DEF IInv, ApprovedAsShown
  <2> QED
    BY <2>1, <2>2, <2>4, <2>5, <2>6, <2>7 DEF IInv
<1> QED
  BY <1>2, <1>3 DEF Publish, WriteFails

\* What a record of an id of its own is written over: nothing.
LEMMA NewSingle ==
    ASSUME IInv, NEW s \in Singles, s \notin minted
    PROVE  /\ s \in Ids /\ Latest(file, s) = Nothing
           /\ causes = {} => \A o \in Screens : shown[o][s] = Nothing
           /\ causes \cap {"glued", "straddled"} = {} => answered[s] = "none"
  BY DEF IInv, Minted, ShownCurrent, DecisionStands, Ids

LEMMA ProposeStep ==
    ASSUME IInv, NEW s \in Singles, Propose(s)
    PROVE  IInv'
<1>1. /\ s \in Ids /\ Latest(file, s) = Nothing
      /\ causes = {} => \A o \in Screens : shown[o][s] = Nothing
      /\ causes \cap {"glued", "straddled"} = {} => answered[s] = "none"
  BY NewSingle DEF Propose
<1>2. /\ Draft(s) \in Record /\ Draft(s).id = s
      /\ Draft(s).decision = "none" /\ Draft(s).applied = FALSE
  BY <1>1, DraftRecord DEF IInv
<1>3. /\ UNCHANGED <<confirmed, todo, shown, answered, seen>>
      /\ drawn' \in Nat /\ minted' = minted \cup {s} /\ minted' \subseteq Singles
  BY DEF Propose, IInv, TypeOK
<1>4. CASE WriteFails /\ UNCHANGED causes
  <2>1. TypeOK' /\ file' = file
    BY <1>3, <1>4 DEF IInv, TypeOK, WriteFails
  <2>2. HasLast(file') /\ \A i \in Ids : Latest(file', i) = Latest(file, i)
    BY <2>1 DEF IInv
  <2> QED
    BY <1>3, <1>4, <2>1, <2>2
    DEF IInv, Minted, ShownCurrent, DecisionStands, ApprovedAsShown
<1>5. CASE Write(Draft(s)) /\ causes' = causes \cup Glued
  <2>1. /\ file' \in Seq(Record) /\ HasLast(file') /\ torn' \in BOOLEAN
        /\ torn => file' = file
        /\ ~torn => \A i \in Ids :
             Latest(file', i) = IF i = s THEN Draft(s) ELSE Latest(file, i)
    BY <1>2, <1>5, WriteEffect DEF IInv, TypeOK
  <2>2. /\ torn => "glued" \in causes'
        /\ causes \subseteq causes' /\ causes' \subseteq {"glued", "straddled", "redrawn", "edited"}
    BY <1>5 DEF Glued, IInv, TypeOK
  <2>3. TypeOK'
    BY <1>3, <2>1, <2>2 DEF IInv, TypeOK
  <2>4. Minted'
    BY <1>3, <2>1 DEF IInv, Minted, Ids
  <2>5. ShownCurrent'
    BY <1>1, <1>3, <2>1, <2>2 DEF IInv, ShownCurrent
  <2>6. DecisionStands'
    BY <1>1, <1>3, <2>1, <2>2 DEF IInv, DecisionStands
  <2>7. ApprovedAsShown'
    BY <1>2, <1>3, <2>1, <2>2 DEF IInv, ApprovedAsShown
  <2> QED
    BY <2>1, <2>3, <2>4, <2>5, <2>6, <2>7 DEF IInv
<1> QED
  BY <1>4, <1>5 DEF Propose

LEMMA ManualStep ==
    ASSUME IInv, NEW s \in Singles, Manual(s)
    PROVE  IInv'
<1> DEFINE rec == [Draft(s) EXCEPT !.decision = "manual", !.applied = TRUE]
<1>1. /\ s \in Ids /\ Latest(file, s) = Nothing
      /\ causes = {} => \A o \in Screens : shown[o][s] = Nothing
      /\ causes \cap {"glued", "straddled"} = {} => answered[s] = "none"
  BY NewSingle DEF Manual
<1>2. /\ rec \in Record /\ rec.id = s
      /\ rec.decision = "manual" /\ rec.content = drawn + 1
  BY <1>1, DraftRecord DEF IInv, TypeOK, Draft, Record, Decisions
<1>3. /\ UNCHANGED <<confirmed, todo, shown>>
      /\ drawn' \in Nat /\ minted' = minted \cup {s} /\ minted' \subseteq Singles
  BY DEF Manual, IInv, TypeOK
<1>4. CASE WriteFails /\ UNCHANGED <<answered, seen, causes>>
  <2>1. TypeOK' /\ file' = file
    BY <1>3, <1>4 DEF IInv, TypeOK, WriteFails
  <2>2. HasLast(file') /\ \A i \in Ids : Latest(file', i) = Latest(file, i)
    BY <2>1 DEF IInv
  <2> QED
    BY <1>3, <1>4, <2>1, <2>2
    DEF IInv, Minted, ShownCurrent, DecisionStands, ApprovedAsShown
<1>5. CASE /\ Write(rec)
           /\ answered' = [answered EXCEPT ![s] = "manual"]
           /\ seen' = [seen EXCEPT ![s] = drawn + 1]
           /\ causes' = causes \cup Glued
  <2> HIDE DEF rec
  <2>1. /\ file' \in Seq(Record) /\ HasLast(file') /\ torn' \in BOOLEAN
        /\ torn => file' = file
        /\ ~torn => \A i \in Ids :
             Latest(file', i) = IF i = s THEN rec ELSE Latest(file, i)
    BY <1>2, <1>5, WriteEffect DEF IInv, TypeOK
  <2>2. /\ torn => "glued" \in causes'
        /\ causes \subseteq causes' /\ causes' \subseteq {"glued", "straddled", "redrawn", "edited"}
    BY <1>5 DEF Glued, IInv, TypeOK
  <2>3. /\ answered' \in [Ids -> Decisions \cup {"none"}] /\ seen' \in [Ids -> Nat]
        /\ \A i \in Ids : /\ answered'[i] = IF i = s THEN "manual" ELSE answered[i]
                          /\ seen'[i] = IF i = s THEN drawn + 1 ELSE seen[i]
    BY <1>1, <1>5 DEF IInv, TypeOK, Decisions
  <2>4. TypeOK'
    BY <1>3, <2>1, <2>2, <2>3 DEF IInv, TypeOK
  <2>5. Minted'
    BY <1>3, <2>1 DEF IInv, Minted, Ids
  <2>6. ShownCurrent'
    BY <1>1, <1>3, <2>1, <2>2 DEF IInv, ShownCurrent
  <2>7. DecisionStands'
    BY <1>2, NothingAssumption, <2>1, <2>2, <2>3 DEF IInv, DecisionStands
  <2>8. ApprovedAsShown'
    BY <1>2, <2>1, <2>2, <2>3 DEF IInv, ApprovedAsShown
  <2> QED
    BY <2>1, <2>4, <2>5, <2>6, <2>7, <2>8 DEF IInv
<1> QED
  BY <1>4, <1>5 DEF Manual

\* A decided record has the verdict, and a modification the screen's content.
LEMMA OutcomeRecord ==
    ASSUME NEW rec \in Record, NEW d \in Verdicts, NEW content \in Nat
    PROVE  /\ Outcome(rec, d, content) \in Record /\ Outcome(rec, d, content).id = rec.id
           /\ Outcome(rec, d, content).decision = d
           /\ Outcome(rec, d, content).content =
                IF d = "modify" THEN content ELSE rec.content
  BY DEF Outcome, Record, Decisions, Verdicts

\* A page of the file shows of each proposal what the file has.
LEMMA PageShows ==
    ASSUME NEW f \in Seq(Record), HasLast(f)
    PROVE  /\ Page(f) \in [Ids -> Record \cup {Nothing}]
           /\ \A i \in Ids : Page(f)[i] = Latest(f, i)
  BY LatestRecord DEF Page

\* What a decision knows before it writes.
LEMMA DecideKnows ==
    ASSUME IInv, NEW o \in Screens, NEW i \in Ids, NEW d \in Verdicts, Decide(o, i, d)
    PROVE  /\ Latest(file, i) \in Record /\ Latest(file, i).id = i
           /\ Latest(file, i) # Nothing /\ shown[o][i].content \in Nat
           /\ causes = {} => Latest(file, i).content = shown[o][i].content
<1>1. Latest(file, i) # Nothing /\ shown[o][i] # Nothing /\ shown[o][i].decision = "none"
  BY DEF Decide
<1>2. Latest(file, i) \in Record /\ Latest(file, i).id = i
  BY <1>1, LatestRecord DEF IInv, TypeOK
<1>3. shown[o][i] \in Record
  BY <1>1 DEF IInv, TypeOK
<1>4. shown[o][i].content \in Nat
  BY <1>3 DEF Record
<1> QED
  BY <1>1, <1>2, <1>4 DEF IInv, ShownCurrent

LEMMA DecideStep ==
    ASSUME IInv, NEW o \in Screens, NEW i \in Ids, NEW d \in Verdicts, Decide(o, i, d)
    PROVE  IInv'
<1> DEFINE old == Latest(file, i)
           own == shown[o][i].content
<1>1. /\ old \in Record /\ old.id = i /\ old # Nothing /\ own \in Nat
      /\ causes = {} => old.content = own
  BY DecideKnows
<1>2. UNCHANGED <<confirmed, todo, minted>> /\ drawn \in Nat
  BY DEF Decide, IInv, TypeOK
<1>3. CASE WriteFails /\ UNCHANGED <<drawn, shown, history>>
  <2>1. TypeOK'
    BY <1>2, <1>3 DEF IInv, TypeOK, WriteFails, history
  <2> QED
    BY <1>2, <1>3, <2>1, QuietStep DEF WriteFails
<1>4. ASSUME NEW content \in {own} \cup (IF d = "modify" /\ drawn < MaxDrafts THEN {drawn + 1} ELSE {}),
             Write(Outcome(old, d, content)),
             drawn' = IF content = own THEN drawn ELSE drawn + 1,
             shown' \in {shown, [shown EXCEPT ![o] = Page(file')]},
             answered' = [answered EXCEPT ![i] = d],
             seen' = [seen EXCEPT ![i] = content],
             causes' = causes \cup Glued
                 \cup (IF content # own /\ ShownOpen(shown', i) THEN {"edited"} ELSE {})
      PROVE  IInv'
  <2> DEFINE rec == Outcome(old, d, content)
  <2>1. /\ content \in Nat /\ drawn' \in Nat
        /\ content # own => d = "modify"
    BY <1>1, <1>2, <1>4
  <2>2. /\ rec \in Record /\ rec.id = i /\ rec.decision = d
        /\ causes = {} => rec.content = content
    <3> HIDE DEF old, own
    <3>1. /\ rec \in Record /\ rec.id = old.id /\ rec.decision = d
          /\ rec.content = IF d = "modify" THEN content ELSE old.content
      BY <1>1, <2>1, OutcomeRecord
    <3> QED
      BY <1>1, <2>1, <3>1
  <2> HIDE DEF rec, old, own
  <2>3. /\ file' \in Seq(Record) /\ HasLast(file') /\ torn' \in BOOLEAN
        /\ torn => file' = file
        /\ ~torn => \A j \in Ids :
             Latest(file', j) = IF j = i THEN rec ELSE Latest(file, j)
    BY <1>4, <2>2, WriteEffect DEF IInv, TypeOK, rec
  <2>4. /\ torn => "glued" \in causes'
        /\ content # own /\ ShownOpen(shown', i) => "edited" \in causes'
        /\ causes \subseteq causes'
        /\ causes' \subseteq {"glued", "straddled", "redrawn", "edited"}
    BY <1>4 DEF Glued, IInv, TypeOK, own
  <2>5. /\ answered' \in [Ids -> Decisions \cup {"none"}] /\ seen' \in [Ids -> Nat]
        /\ \A j \in Ids : /\ answered'[j] = IF j = i THEN d ELSE answered[j]
                          /\ seen'[j] = IF j = i THEN content ELSE seen[j]
    BY <1>4, <2>1 DEF IInv, TypeOK, Decisions
  <2>6. /\ shown' \in [Screens -> [Ids -> Record \cup {Nothing}]]
        /\ \A p \in Screens, j \in Ids :
             \/ shown'[p][j] = shown[p][j]
             \/ shown'[p][j] = Latest(file', j)
    <3>1. /\ Page(file') \in [Ids -> Record \cup {Nothing}]
          /\ \A j \in Ids : Page(file')[j] = Latest(file', j)
      BY <2>3, PageShows
    <3>2. CASE shown' = shown
      BY <3>2 DEF IInv, TypeOK
    <3>3. CASE shown' = [shown EXCEPT ![o] = Page(file')]
      BY <3>1, <3>3 DEF IInv, TypeOK
    <3> QED
      BY <1>4, <3>2, <3>3
  <2>7. TypeOK'
    BY <1>2, <2>1, <2>3, <2>4, <2>5, <2>6 DEF IInv, TypeOK
  <2>8. Minted'
    <3>1. i \in Singles => i \in minted
      BY <1>1, NothingAssumption DEF IInv, Minted, old
    <3> QED
      BY <1>2, <2>3, <3>1 DEF IInv, Minted, Ids
  <2>9. ShownCurrent'
    <3> SUFFICES ASSUME causes' = {}, NEW p \in Screens, NEW j \in Ids, shown'[p][j] # Nothing
                 PROVE  /\ Latest(file', j) # Nothing
                        /\ shown'[p][j].decision = "none" =>
                             shown'[p][j].content = Latest(file', j).content
      BY DEF ShownCurrent
    <3>1. causes = {} /\ ~torn /\ (content = own \/ ~ShownOpen(shown', i))
      BY <2>4
    <3>2. CASE shown'[p][j] = Latest(file', j)
      BY <3>2
    <3>3. CASE shown'[p][j] = shown[p][j]
      <4>1. /\ Latest(file, j) # Nothing
            /\ shown[p][j].decision = "none" => shown[p][j].content = Latest(file, j).content
        BY <3>1, <3>3 DEF IInv, ShownCurrent
      <4>2. CASE j # i
        BY <2>3, <3>1, <3>3, <4>1, <4>2
      <4>3. CASE j = i
        <5>1. Latest(file', j) = rec /\ rec # Nothing
          BY <2>2, <2>3, <3>1, <4>3, NothingAssumption
        <5>2. CASE content = own
          BY <1>1, <2>2, <3>1, <3>3, <4>1, <4>3, <5>1, <5>2 DEF old
        <5>3. CASE ~ShownOpen(shown', i)
          BY <4>3, <5>1, <5>3 DEF ShownOpen
        <5> QED
          BY <3>1, <5>2, <5>3
      <4> QED
        BY <4>2, <4>3
    <3> QED
      BY <2>6, <3>2, <3>3
  <2>10. DecisionStands'
    BY <2>2, NothingAssumption, <2>3, <2>4, <2>5 DEF IInv, DecisionStands
  <2>11. ApprovedAsShown'
    BY <2>2, <2>3, <2>4, <2>5 DEF IInv, ApprovedAsShown
  <2> QED
    BY <2>3, <2>7, <2>8, <2>9, <2>10, <2>11 DEF IInv
<1> QED
  BY <1>3, <1>4 DEF Decide

LEMMA LoadStep ==
    ASSUME IInv, NEW o \in Screens, Load(o)
    PROVE  IInv'
<1>1. UNCHANGED <<disk, confirmed, todo, drawn, minted, history>>
  BY DEF Load
<1>2. /\ Page(file) \in [Ids -> Record \cup {Nothing}]
      /\ \A i \in Ids : Page(file)[i] = Latest(file, i)
  BY PageShows DEF IInv, TypeOK
<1>3. TypeOK'
  BY <1>1, <1>2 DEF Load, IInv, TypeOK, disk, history
<1>4. \A p \in Screens, i \in Ids :
        shown'[p][i] = IF p = o THEN Latest(file, i) ELSE shown[p][i]
  BY <1>2 DEF Load, IInv, TypeOK
<1>5. ShownCurrent'
  BY <1>1, <1>4 DEF IInv, ShownCurrent, disk, history
<1> QED
  BY <1>1, <1>3, <1>5 DEF IInv, Minted, DecisionStands, ApprovedAsShown, disk, history

LEMMA NextIInv == IInv /\ [Next]_vars => IInv'
<1> SUFFICES ASSUME IInv, [Next]_vars PROVE IInv'
  OBVIOUS
<1>1. ASSUME NEW c \in Contexts, Confirm(c) PROVE IInv'
  <2>1. TypeOK'
    BY <1>1 DEF Confirm, IInv, TypeOK, disk, history
  <2> QED
    BY <1>1, <2>1, QuietStep DEF Confirm, disk
<1>2. ASSUME NEW r \in Requests, Begin(r) PROVE IInv'
  <2>1. todo' \in [Requests -> SUBSET Contexts]
    BY <1>2 DEF Begin, IInv, TypeOK
  <2>2. TypeOK'
    BY <1>2, <2>1 DEF Begin, IInv, TypeOK, disk, history
  <2> QED
    BY <1>2, <2>2, QuietStep DEF Begin, disk
<1>3. ASSUME NEW r \in Requests, NEW c \in Contexts, Publish(r, c) PROVE IInv'
  BY <1>3, PublishStep
<1>4. ASSUME NEW s \in Singles, Propose(s) \/ Manual(s) PROVE IInv'
  BY <1>4, ProposeStep, ManualStep
<1>5. ASSUME NEW o \in Screens, Load(o) PROVE IInv'
  BY <1>5, LoadStep
<1>6. ASSUME NEW o \in Screens, NEW i \in Ids, NEW d \in Verdicts, Decide(o, i, d) PROVE IInv'
  BY <1>6, DecideStep
<1>7. CASE Crash
  <2>1. TypeOK'
    BY <1>7 DEF Crash, IInv, TypeOK, history
  <2> QED
    BY <1>7, <2>1, QuietStep DEF Crash
<1>8. CASE UNCHANGED vars
  <2>1. TypeOK'
    BY <1>8 DEF vars, IInv, TypeOK
  <2> QED
    BY <1>8, <2>1, QuietStep DEF vars, history
<1> QED
  BY <1>1, <1>2, <1>3, <1>4, <1>5, <1>6, <1>7, <1>8 DEF Next

\* The invariant holds in every behaviour.
THEOREM Invariance == Spec => []IInv
<1> QED
  BY InitIInv, NextIInv, PTL DEF Spec

\* The file, the requests in progress and the screens keep their shape.
THEOREM TypeCorrect == Spec => []TypeOK
<1>1. IInv => TypeOK
  BY DEF IInv
<1> QED
  BY Invariance, <1>1, PTL

\* An answered decision is what every reader finds, whatever requests,
\* screens, failed writes and crashes there are, unless a draft begun before
\* it was published after it or its line was glued to a partial one.
THEOREM AnsweredStands == Spec => []DecisionStands
<1>1. IInv => DecisionStands
  BY DEF IInv
<1> QED
  BY Invariance, <1>1, PTL

\* What is approved is what its operator saw or made of it, whatever others edit,
\* unless it was drawn up again, or edited while a screen still showed it open.
THEOREM ApprovedSeen == Spec => []ApprovedAsShown
<1>1. IInv => ApprovedAsShown
  BY DEF IInv
<1> QED
  BY Invariance, <1>1, PTL

----------------------------------------------------------------------------
(* The refinement                                                          *)

BoardNow == [i \in Ids |-> Latest(file, i)]

\* A written line is one record put on the board, and nothing when it is
\* glued to a partial line.
LEMMA WritePuts ==
    ASSUME IInv, NEW rec \in Record, Write(rec), NEW S, rec \in S
    PROVE  /\ torn => UNCHANGED BoardNow
           /\ ~torn => Board!Put(rec.id, S)
<1>1. /\ torn => file' = file
      /\ ~torn => \A i \in Ids :
           Latest(file', i) = IF i = rec.id THEN rec ELSE Latest(file, i)
  BY WriteEffect DEF IInv, TypeOK
<1>2. torn => UNCHANGED BoardNow
  BY <1>1 DEF BoardNow
<1>3. ASSUME ~torn PROVE Board!Put(rec.id, S)
  <2>1. rec.id \in Ids
    BY DEF Record
  <2>2. [i \in Ids |-> Latest(file', i)] = [[i \in Ids |-> Latest(file, i)] EXCEPT ![rec.id] = rec]
    BY <1>1, <1>3, <2>1
  <2>3. [i \in Ids |-> Latest(file', i)][rec.id] = rec
    BY <1>1, <1>3, <2>1
  <2> QED
    BY <2>2, <2>3 DEF Board!Put
<1> QED
  BY <1>2, <1>3

LEMMA BoardInit == Init => Board!Init
  BY DEF Init, Board!Init, Latest, Lines

LEMMA BoardNext == IInv /\ [Next]_vars => [Board!Next]_<<BoardNow, todo>>
<1> SUFFICES ASSUME IInv, [Next]_vars PROVE [Board!Next]_<<BoardNow, todo>>
  OBVIOUS
<1> DEFINE Quiet == UNCHANGED <<BoardNow, todo>>
<1>1. file' = file => BoardNow' = BoardNow
  BY DEF BoardNow
<1>2. ASSUME NEW c \in Contexts, Confirm(c) PROVE Quiet
  BY <1>1, <1>2 DEF Confirm, disk
<1>3. ASSUME NEW r \in Requests, Begin(r) PROVE Board!Start(r)
  <2>1. PICK counted \in SUBSET confirmed :
          todo' = [todo EXCEPT ![r] = {c \in counted : ~Decided(file, c)}]
    BY <1>3 DEF Begin
  <2> DEFINE S == {c \in counted : ~Decided(file, c)}
  <2>2. S \in SUBSET Ids
    BY DEF IInv, TypeOK, Ids
  <2>3. \A i \in S : Board!Undecided(i)
    <3> SUFFICES ASSUME NEW i \in S PROVE Board!Undecided(i)
      OBVIOUS
    <3>1. i \in Ids /\ ~Decided(file, i)
      BY <2>2
    <3> QED
      BY <3>1, NothingAssumption DEF Board!Undecided, Decided
  <2>4. UNCHANGED BoardNow
    BY <1>1, <1>3 DEF Begin, disk
  <2> QED
    BY <1>3, <2>1, <2>2, <2>3, <2>4 DEF Begin, Board!Start, BoardNow
<1>4. ASSUME NEW r \in Requests, NEW c \in Contexts, Publish(r, c)
      PROVE  Board!Publish(r, c) \/ Board!Drop
  <2>1. /\ c \in Ids /\ Draft(c) \in Record /\ Draft(c).id = c /\ Draft(c).decision = "none"
    BY DraftRecord DEF IInv, Ids
  <2>2. CASE Write(Draft(c)) /\ todo' = [todo EXCEPT ![r] = @ \ {c}]
    <3>1. Draft(c) \in {x \in Record : x.decision = "none"}
      BY <2>1
    <3>2. UNCHANGED BoardNow \/ Board!Put(c, {x \in Record : x.decision = "none"})
      BY <2>1, <2>2, <3>1, WritePuts
    <3> QED
      BY <1>4, <2>2, <3>2 DEF Publish, Board!Publish, BoardNow
  <2>3. CASE WriteFails /\ todo' = [todo EXCEPT ![r] = {}]
    <3>1. todo' = [q \in Requests |-> IF q \in {r} THEN {} ELSE todo[q]]
      BY <2>3 DEF IInv, TypeOK
    <3>2. {r} \in SUBSET Requests
      OBVIOUS
    <3> QED
      BY <1>1, <2>3, <3>1, <3>2 DEF WriteFails, Board!Drop, BoardNow
  <2> QED
    BY <1>4, <2>2, <2>3 DEF Publish
<1>5. ASSUME NEW s \in Singles, Propose(s) PROVE Board!Post(s) \/ Quiet
  <2>1. s \in Ids /\ Latest(file, s) = Nothing
    BY <1>5, NewSingle DEF Propose
  <2>2. Draft(s) \in Record /\ Draft(s).id = s /\ Draft(s).decision = "none"
    BY <2>1, DraftRecord DEF IInv
  <2>3. CASE Write(Draft(s))
    <3> DEFINE S == {x \in Record : x.decision = "none"} \cup {x \in Record : x.decision # "none"}
    <3>1. UNCHANGED BoardNow \/ Board!Put(s, S)
      BY <2>2, <2>3, WritePuts
    <3> QED
      BY <1>5, <2>1, <3>1 DEF Propose, Board!Post, BoardNow
  <2>4. CASE WriteFails
    BY <1>1, <1>5, <2>4 DEF Propose, WriteFails
  <2> QED
    BY <1>5, <2>3, <2>4 DEF Propose
<1>6. ASSUME NEW s \in Singles, Manual(s) PROVE Board!Post(s) \/ Quiet
  <2> DEFINE rec == [Draft(s) EXCEPT !.decision = "manual", !.applied = TRUE]
  <2>1. s \in Ids /\ Latest(file, s) = Nothing
    BY <1>6, NewSingle DEF Manual
  <2>2. rec \in Record /\ rec.id = s
    BY <2>1, DraftRecord DEF IInv, TypeOK, Draft, Record, Decisions
  <2>3. CASE Write(rec)
    <3> HIDE DEF rec
    <3> DEFINE S == {x \in Record : x.decision = "none"} \cup {x \in Record : x.decision # "none"}
    <3>1. UNCHANGED BoardNow \/ Board!Put(s, S)
      BY <2>2, <2>3, WritePuts
    <3> QED
      BY <1>6, <2>1, <3>1 DEF Manual, Board!Post, BoardNow
  <2>4. CASE WriteFails
    BY <1>1, <1>6, <2>4 DEF Manual, WriteFails
  <2> QED
    BY <1>6, <2>3, <2>4 DEF Manual
<1>7. ASSUME NEW o \in Screens, Load(o) PROVE Quiet
  BY <1>1, <1>7 DEF Load, disk
<1>8. ASSUME NEW o \in Screens, NEW i \in Ids, NEW d \in Verdicts, Decide(o, i, d)
      PROVE  Board!Decide(i) \/ Quiet
  <2> DEFINE old == Latest(file, i)
             own == shown[o][i].content
  <2>1. old \in Record /\ old.id = i /\ old # Nothing /\ own \in Nat /\ UNCHANGED todo
    BY <1>8, DecideKnows DEF Decide
  <2>2. ASSUME NEW content \in {own} \cup (IF d = "modify" /\ drawn < MaxDrafts THEN {drawn + 1} ELSE {}),
               Write(Outcome(old, d, content))
        PROVE  Board!Decide(i) \/ Quiet
    <3> DEFINE rec == Outcome(old, d, content)
    <3>1. content \in Nat
      BY <2>1, <2>2 DEF IInv, TypeOK
    <3>2. rec \in Record /\ rec.id = i /\ rec.decision # "none"
      <4> HIDE DEF old
      <4>1. rec \in Record /\ rec.id = old.id /\ rec.decision = d
        BY <2>1, <3>1, OutcomeRecord
      <4> QED
        BY <2>1, <4>1 DEF Verdicts
    <3>3. UNCHANGED BoardNow \/ Board!Put(i, {x \in Record : x.decision # "none"})
      BY <2>2, <3>2, WritePuts
    <3> QED
      BY <2>1, <3>3 DEF Board!Decide, BoardNow
  <2>3. CASE WriteFails
    BY <1>1, <2>1, <2>3 DEF WriteFails
  <2> QED
    BY <1>8, <2>2, <2>3 DEF Decide
<1>9. CASE Crash
  <2>1. todo' = [q \in Requests |-> IF q \in Requests THEN {} ELSE todo[q]]
    BY <1>9 DEF Crash
  <2>2. UNCHANGED BoardNow
    BY <1>1, <1>9 DEF Crash
  <2>3. Board!Drop
    BY <2>1, <2>2 DEF Board!Drop, BoardNow
  <2> QED
    BY <2>3 DEF Board!Next
<1>10. CASE UNCHANGED vars
  BY <1>1, <1>10 DEF vars
<1> QED
  BY <1>2, <1>3, <1>4, <1>5, <1>6, <1>7, <1>8, <1>9, <1>10 DEF Next, Board!Next, Ids

\* The file implements the board: whatever the requests, screens, failed
\* writes and crashes, a record that is decided is replaced only by a
\* decision or by a draft begun while it was undecided.
THEOREM FileImplementsBoard == Spec => ImplementsBoard
<1> QED
  BY Invariance, BoardInit, BoardNext, PTL DEF Spec, ImplementsBoard, Board!Spec, BoardNow
====
