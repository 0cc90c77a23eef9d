---- MODULE AlertLearning_proofs ----
(***************************************************************************)
(* The gates in front of an alert card, the pipeline that brings the card  *)
(* and its explanation to the operator (AlertDispatcher, AlertPipeline),   *)
(* and what is learned from the operator's verdicts (FeedbackLearning),    *)
(* for any signatures, scores, windows of time, events and memories.       *)
(*                                                                         *)
(* The gates say what the operator sees between two entries of a log; the  *)
(* dispatcher has tables of the last alert, the last dismissal and the     *)
(* last episode only.  The invariant (Gates) says which part of the log    *)
(* each table stands for.                                                  *)
(*                                                                         *)
(* A feedback event is made, stored and learned from in one handler, whose *)
(* calls of the graph may fail.  The invariant (FeedbackInv) adds to the   *)
(* properties that the mark of the episode agrees with this life's events  *)
(* and that up to the first outage the graph holds every event.            *)
(* Orderly adds what delivery in order (GraphDelivery) needs: the outbox   *)
(* goes by the numbers of the events, and none of it is in the graph.      *)
(***************************************************************************)
EXTENDS AlertPipeline, FeedbackLearning, FiniteSetTheorems, SequenceTheorems, TLAPS

----------------------------------------------------------------------------
(* Finite sets                                                             *)

\* A set of positions that has every earlier position with each of its own is
\* an initial segment.
LEMMA InitialSegment ==
    ASSUME NEW n \in Nat, NEW S \in SUBSET (1..n),
           \A i \in S, j \in 1..n : j <= i => j \in S
    PROVE  /\ Cardinality(S) \in 0..n
           /\ S = 1..Cardinality(S)
<1>1. IsFiniteSet(1..n) /\ Cardinality(1..n) = n
  BY FS_Interval
<1>2. IsFiniteSet(S) /\ Cardinality(S) \in Nat /\ Cardinality(S) <= n
  BY <1>1, FS_Subset, FS_CardinalityType
<1> DEFINE k == Cardinality(S)
<1>3. \A i \in S : i <= k
  <2> TAKE i \in S
  <2>1. 1..i \subseteq S
    OBVIOUS
  <2>2. Cardinality(1..i) = i
    BY FS_Interval
  <2> QED
    BY <1>2, <2>1, <2>2, FS_Subset
<1>4. IsFiniteSet(1..k) /\ Cardinality(1..k) = k
  BY <1>2, FS_Interval
<1>5. S \subseteq 1..k
  BY <1>2, <1>3
<1>6. S = 1..k
  BY <1>4, <1>5, FS_Subset
<1> QED
  BY <1>2, <1>6

\* Positions that are shifted keep their number.
LEMMA Shifted ==
    ASSUME NEW n \in Nat, NEW k \in 0..n, NEW S \in SUBSET ((k + 1)..n), NEW T \in SUBSET (1..(n - k)),
           \A i \in 1..(n - k) : i \in T <=> i + k \in S
    PROVE  Cardinality(T) = Cardinality(S)
<1>1. IsFiniteSet(T)
  <2>1. IsFiniteSet(1..(n - k))
    BY FS_Interval
  <2> QED
    BY <2>1, FS_Subset
<1> DEFINE f == [i \in T |-> i + k]
<1>2. f \in [T -> S] /\ \A i, j \in T : f[i] = f[j] => i = j
  OBVIOUS
<1>3. \A s \in S : \E i \in T : f[i] = s
  <2> TAKE s \in S
  <2>1. s - k \in 1..(n - k) /\ s - k \in T /\ (s - k) + k = s
    OBVIOUS
  <2> QED
    BY <2>1
<1>4. f \in Bijection(T, S)
  BY <1>2, <1>3 DEF Bijection, Injection, Surjection, IsInjective
<1> QED
  BY <1>1, <1>4, FS_Bijection DEF ExistsBijection

\* As many positions are left by taking an initial segment away.
LEMMA CountAfter ==
    ASSUME NEW n \in Nat, NEW k \in 0..n
    PROVE  IsFiniteSet((k + 1)..n) /\ Cardinality((k + 1)..n) = n - k
<1>1. /\ IsFiniteSet((k + 1)..n)
      /\ Cardinality((k + 1)..n) = IF k + 1 > n THEN 0 ELSE n - (k + 1) + 1
  BY FS_Interval
<1> QED
  BY <1>1

----------------------------------------------------------------------------
(* Types                                                                   *)

Times == [at : Nat, score : Scores]
Cycle == [first : Nat, last : Nat, occurrences : Nat, suppressed : Nat]

\* Taking old times away leaves a list of times.
LEMMA FreshSeq ==
    ASSUME NEW times \in Seq(Nat), now \in Nat
    PROVE  Fresh(times) \in Seq(Nat)
<1> DEFINE old == {i \in DOMAIN times : times[i] <= now - Minute}
<1>1. IsFiniteSet(1..Len(times)) /\ old \subseteq 1..Len(times)
  BY FS_Interval
<1>2. Cardinality(old) \in Nat
  BY <1>1, FS_Subset, FS_CardinalityType
<1>3. \A i \in (Cardinality(old) + 1)..Len(times) : times[i] \in Nat
  BY <1>2
<1>4. SubSeq(times, Cardinality(old) + 1, Len(times)) \in Seq(Nat)
  BY <1>2, <1>3, SubSeqProperties
<1> QED
  BY <1>4 DEF Fresh

\* What a dispatched or suppressed event makes of the lifecycle.
LEMMA TouchCycle ==
    ASSUME DispatcherTypeOK, NEW s \in Signatures, NEW b \in BOOLEAN, Touch(s, b)
    PROVE  \E c \in Cycle :
             /\ lifecycle' = [lifecycle EXCEPT ![s] = c]
             /\ c.last = now
             /\ \/ lifecycle[s] # Never /\ c.first = lifecycle[s].first
                   /\ c.occurrences = lifecycle[s].occurrences + (IF b THEN 0 ELSE 1)
                \/ (lifecycle[s] # Never => now - lifecycle[s].last > EpisodeGap)
                   /\ c.first = now
                   /\ c.occurrences = (IF b THEN 0 ELSE 1)
<1> DEFINE old == lifecycle[s]
           new == [first |-> now, last |-> now, occurrences |-> 0, suppressed |-> 0]
           cur == IF old = Never THEN new ELSE IF now - old.last > EpisodeGap THEN new ELSE old
           c == IF b THEN [cur EXCEPT !.last = now, !.suppressed = @ + 1]
                     ELSE [cur EXCEPT !.last = now, !.occurrences = @ + 1, !.suppressed = 0]
<1>1. old = Never \/ old \in Cycle
  BY DEF DispatcherTypeOK, Cycle
<1>2. now \in Nat /\ new \in Cycle
  BY DEF DispatcherTypeOK, Cycle
<1>3. cur \in Cycle
  BY <1>1, <1>2
<1>4. lifecycle' = [lifecycle EXCEPT ![s] = c]
  BY DEF Touch
<1>5. \/ old # Never /\ cur = old
      \/ (old # Never => now - old.last > EpisodeGap) /\ cur = new
  OBVIOUS
<1>6. /\ c \in Cycle /\ c.last = now /\ c.first = cur.first
      /\ c.occurrences = cur.occurrences + (IF b THEN 0 ELSE 1)
  <2> HIDE DEF cur
  <2>1. CASE b
    <3>1. c = [first |-> cur.first, last |-> now, occurrences |-> cur.occurrences,
               suppressed |-> cur.suppressed + 1]
      BY <1>3, <2>1 DEF Cycle
    <3>2. cur.first \in Nat /\ cur.occurrences \in Nat /\ cur.suppressed + 1 \in Nat
      BY <1>3 DEF Cycle
    <3> HIDE DEF c
    <3> QED
      BY <1>2, <2>1, <3>1, <3>2 DEF Cycle
  <2>2. CASE ~b
    <3>1. c = [first |-> cur.first, last |-> now, occurrences |-> cur.occurrences + 1,
               suppressed |-> 0]
      BY <1>3, <2>2 DEF Cycle
    <3>2. cur.first \in Nat /\ cur.occurrences + 1 \in Nat
      BY <1>3 DEF Cycle
    <3> HIDE DEF c
    <3> QED
      BY <1>2, <2>2, <3>1, <3>2 DEF Cycle
  <2> QED
    BY <2>1, <2>2
<1>7. new.first = now /\ new.occurrences = 0
  OBVIOUS
<1>8. cur.occurrences \in Nat
  BY <1>3 DEF Cycle
<1> HIDE DEF cur, c, new
<1>9. \/ old # Never /\ c.first = old.first /\ c.occurrences = old.occurrences + (IF b THEN 0 ELSE 1)
      \/ (old # Never => now - old.last > EpisodeGap)
         /\ c.first = now /\ c.occurrences = (IF b THEN 0 ELSE 1)
  BY <1>5, <1>6, <1>7, <1>8
<1> QED
  BY <1>4, <1>6, <1>9

LEMMA TypeGates == InitDispatcher => DispatcherTypeOK
  BY TimeAssumption DEF InitDispatcher, DispatcherTypeOK, TimeAssumption

LEMMA TypeGatesStep == DispatcherTypeOK /\ [NextDispatcher]_dispatcher => DispatcherTypeOK'
<1> SUFFICES ASSUME DispatcherTypeOK, [NextDispatcher]_dispatcher PROVE DispatcherTypeOK'
  OBVIOUS
<1>1. now \in Nat /\ recent \in Seq(Nat) /\ Fresh(recent) \in Seq(Nat)
  BY FreshSeq DEF DispatcherTypeOK
<1>2. ASSUME NEW k \in Kinds, Decline(k) PROVE DispatcherTypeOK'
  <2>1. recent' \in Seq(Nat)
    BY <1>1, <1>2 DEF Decline, Trim
  <2> QED
    BY <1>2, <2>1 DEF Decline, perSig, DispatcherTypeOK, LogEntries
<1>3. ASSUME NEW k \in Kinds, Suppress(k) PROVE DispatcherTypeOK'
  <2>1. k.sig \in Signatures
    BY DEF Kinds
  <2>2. lifecycle' \in [Signatures -> Cycle \cup {Never}]
    <3>1. CASE IsMuted(k)
      BY <1>3, <3>1 DEF Suppress, DispatcherTypeOK, Cycle
    <3>2. CASE ~IsMuted(k)
      <4>1. Touch(k.sig, TRUE)
        BY <1>3, <3>2 DEF Suppress
      <4>2. PICK c \in Cycle : lifecycle' = [lifecycle EXCEPT ![k.sig] = c]
        BY <2>1, <4>1, TouchCycle
      <4> QED
        BY <4>2 DEF DispatcherTypeOK, Cycle
    <3> QED
      BY <3>1, <3>2
  <2> QED
    BY <1>1, <1>3, <2>2 DEF Suppress, DispatcherTypeOK, LogEntries, Cycle
<1>4. ASSUME NEW k \in Kinds, Dispatch(k) PROVE DispatcherTypeOK'
  <2>1. k.sig \in Signatures /\ k.score \in Scores
    BY DEF Kinds
  <2>2. PICK c \in Cycle : lifecycle' = [lifecycle EXCEPT ![k.sig] = c]
    BY <1>4, <2>1, TouchCycle DEF Dispatch
  <2>3. lifecycle' \in [Signatures -> Cycle \cup {Never}]
    BY <2>2 DEF DispatcherTypeOK, Cycle
  <2>4. recent' \in Seq(Nat)
    BY <1>1, <1>4, AppendProperties DEF Dispatch
  <2>5. Alerted(k, lifecycle'[k.sig].first) \in LogEntries
    <3>1. lifecycle'[k.sig] = c
      BY <2>1, <2>2 DEF DispatcherTypeOK
    <3>2. c.first \in Nat
      BY DEF Cycle
    <3> QED
      BY <1>1, <2>1, <3>1, <3>2 DEF Alerted, LogEntries
  <2>6. log' \in Seq(LogEntries)
    BY <1>4, <2>5, AppendProperties DEF Dispatch, DispatcherTypeOK
  <2>7. lastDispatch' \in [Signatures -> Times \cup {Never}]
    BY <1>1, <1>4, <2>1 DEF Dispatch, DispatcherTypeOK, Times
  <2> QED
    BY <1>1, <1>4, <2>3, <2>4, <2>6, <2>7 DEF Dispatch, DispatcherTypeOK, Times, Cycle
<1>5. ASSUME NEW what \in {"dismiss", "reset", "mute", "unmute"}, NEW s \in Signatures \cup {NoSig}
      PROVE  Append(log, Request(what, s)) \in Seq(LogEntries)
  <2>1. Request(what, s) \in LogEntries
    BY <1>1 DEF Request, LogEntries
  <2> QED
    BY <2>1, AppendProperties DEF DispatcherTypeOK
<1>6. CASE Dismiss
  <2>1. now + Cooldown \in Nat
    BY <1>1, TimeAssumption DEF TimeAssumption
  <2> QED
    BY <1>5, <1>6, <2>1 DEF Dismiss, perSig, DispatcherTypeOK
<1>7. CASE ResetGating
  BY <1>5, <1>7 DEF ResetGating, perSig, DispatcherTypeOK
<1>8. ASSUME NEW s \in Signatures, SetMuted(s) \/ ClearMuted(s) PROVE DispatcherTypeOK'
  <2>1. log' \in Seq(LogEntries) /\ muted' \in SUBSET Signatures
    BY <1>5, <1>8 DEF SetMuted, ClearMuted, DispatcherTypeOK
  <2>2. UNCHANGED <<now, gating, perSig>>
    BY <1>8 DEF SetMuted, ClearMuted
  <2> QED
    BY <2>1, <2>2 DEF gating, perSig, DispatcherTypeOK, LogEntries
<1>9. CASE Tick
  BY <1>1, <1>9 DEF Tick, gating, perSig, DispatcherTypeOK
<1>10. CASE UNCHANGED dispatcher
  BY <1>10 DEF dispatcher, gating, perSig, DispatcherTypeOK
<1> QED
  BY <1>2, <1>3, <1>4, <1>6, <1>7, <1>8, <1>9, <1>10 DEF NextDispatcher, Operator

----------------------------------------------------------------------------
(* The log and the tables                                                  *)

\* The times of alerts and requests are past.
TimesPast == \A i \in DOMAIN log : log[i].at <= now

\* The recent alerts are in the order of time, and inside the window there are
\* as many of them as the log has.
Later(times, t) == {i \in DOMAIN times : times[i] > t}
LaterAlerts(t)  == {i \in Alerts : log[i].at > t}

RecentCounts ==
    /\ \A i \in DOMAIN recent : recent[i] <= now
    /\ \A i, j \in DOMAIN recent : i <= j => recent[i] <= recent[j]
    /\ \A t \in (now - Minute)..now : Cardinality(LaterAlerts(t)) <= Cardinality(Later(recent, t))

\* What happened since the last reset, the last unmute and the last alert of a
\* signature is what the dispatcher's tables have.
SinceReset ==
    \A i \in DOMAIN log :
        \/ Between(i, Len(log), "reset")
        \/ /\ log[i].what = "alert" => lastAlert # Never /\ lastAlert >= log[i].at
           /\ log[i].what = "dismiss" => cooldownUntil >= log[i].at + Cooldown

SinceUnmute ==
    \A s \in Patterned : \A i \in DOMAIN log :
        log[i].what = "mute" /\ log[i].sig = s => Unmuted(s, i, Len(log)) \/ s \in muted

LastShown ==
    \A s \in Signatures : \A i \in AlertsOf(s) :
        (\A m \in AlertsOf(s) : m <= i)
            => lastDispatch[s] = [at |-> log[i].at, score |-> log[i].score]

\* The lifecycle of a signature belongs to its last episode.
EpisodeOf(c, i) ==
    /\ c.last >= log[i].at
    /\ log[i].episode = c.first \/ c.first - log[i].at > EpisodeGap

LastEpisode ==
    \A s \in Signatures :
        /\ lifecycle[s] # Never =>
             lifecycle[s].first <= lifecycle[s].last /\ lifecycle[s].last <= now
        /\ \A i \in AlertsOf(s) : lifecycle[s] # Never /\ EpisodeOf(lifecycle[s], i)

Tables == RecentCounts /\ SinceReset /\ SinceUnmute /\ LastShown /\ LastEpisode

Gates ==
    /\ DispatcherTypeOK /\ TimesPast /\ Tables
    /\ AlertRate /\ QuietAfterDismiss /\ NoRepeat /\ MutedPatternsQuiet /\ EpisodesSound

\* What an entry does to everything that is read from the log.
LEMMA LogGrows ==
    ASSUME log \in Seq(LogEntries), NEW e \in LogEntries, log' = Append(log, e)
    PROVE  /\ Len(log) \in Nat /\ Len(log') = Len(log) + 1
           /\ DOMAIN log = 1..Len(log) /\ DOMAIN log' = 1..(Len(log) + 1)
           /\ \A i \in DOMAIN log : log'[i] = log[i]
           /\ log'[Len(log) + 1] = e
           /\ Alerts' = Alerts \cup (IF e.what = "alert" THEN {Len(log) + 1} ELSE {})
           /\ \A i \in DOMAIN log : log[i] \in LogEntries
  BY AppendProperties DEF Alerts

\* What an entry does to the alerts of a signature.
LEMMA AlertsGrow ==
    ASSUME log \in Seq(LogEntries), NEW e \in LogEntries, log' = Append(log, e), NEW s \in Signatures
    PROVE  AlertsOf(s)' = AlertsOf(s) \cup (IF e.what = "alert" /\ e.sig = s THEN {Len(log) + 1} ELSE {})
  BY LogGrows DEF AlertsOf, Alerts

LEMMA GatesInit == InitDispatcher => Gates
<1> SUFFICES ASSUME InitDispatcher PROVE Gates
  OBVIOUS
<1>1. DispatcherTypeOK
  BY TypeGates
<1>2. /\ log = <<>> /\ DOMAIN log = {} /\ Alerts = {} /\ recent = <<>> /\ DOMAIN recent = {}
      /\ lifecycle = [s \in Signatures |-> Never]
      /\ \A s : AlertsOf(s) = {}
  BY DEF InitDispatcher, Alerts, AlertsOf
<1>3. \A t \in (now - Minute)..now : Cardinality(LaterAlerts(t)) <= Cardinality(Later(recent, t))
  <2> TAKE t \in (now - Minute)..now
  <2>1. LaterAlerts(t) = {} /\ Later(recent, t) = {}
    BY <1>2 DEF LaterAlerts, Later
  <2> QED
    BY <2>1, FS_EmptySet
<1>4. TimesPast /\ Tables
  BY <1>2, <1>3 DEF TimesPast, Tables, RecentCounts, SinceReset, SinceUnmute, LastShown, LastEpisode
<1>5. AlertRate /\ QuietAfterDismiss /\ NoRepeat /\ MutedPatternsQuiet
  BY <1>2 DEF AlertRate, AlertsSpaced, QuietAfterDismiss, NoRepeat, MutedPatternsQuiet, MuteHolds
<1>6. EpisodesSound
  BY <1>2 DEF EpisodesSound, OccurrencesCount
<1> QED
  BY <1>1, <1>4, <1>5, <1>6 DEF Gates

\* Only a dispatch and the operator add to the log.
LEMMA LogStep ==
    ASSUME DispatcherTypeOK, [NextDispatcher]_dispatcher
    PROVE  \/ UNCHANGED log
           \/ \E e \in LogEntries : log' = Append(log, e) /\ e.at = now
<1>0. now \in Nat
  BY DEF DispatcherTypeOK
<1>1. ASSUME NEW k \in Kinds, Dispatch(k)
      PROVE  \E e \in LogEntries : log' = Append(log, e) /\ e.at = now
  <2>1. k.sig \in Signatures /\ k.score \in Scores
    BY DEF Kinds
  <2>2. Touch(k.sig, FALSE)
    BY <1>1 DEF Dispatch
  <2>3. PICK c \in Cycle : lifecycle' = [lifecycle EXCEPT ![k.sig] = c]
    BY <2>1, <2>2, TouchCycle
  <2>4. lifecycle'[k.sig].first \in Nat
    BY <2>1, <2>3 DEF DispatcherTypeOK, Cycle
  <2>5. Alerted(k, lifecycle'[k.sig].first) \in LogEntries /\ Alerted(k, lifecycle'[k.sig].first).at = now
    BY <1>0, <2>1, <2>4 DEF Alerted, LogEntries
  <2> QED
    BY <1>1, <2>5 DEF Dispatch
<1>2. ASSUME NEW what \in {"dismiss", "reset", "mute", "unmute"}, NEW s \in Signatures \cup {NoSig}
      PROVE  Request(what, s) \in LogEntries /\ Request(what, s).at = now
  BY <1>0 DEF Request, LogEntries
<1>3. CASE Dismiss \/ ResetGating
  BY <1>2, <1>3 DEF Dismiss, ResetGating
<1>4. ASSUME NEW s \in Signatures, SetMuted(s) \/ ClearMuted(s)
      PROVE  \E e \in LogEntries : log' = Append(log, e) /\ e.at = now
  BY <1>2, <1>4 DEF SetMuted, ClearMuted
<1>5. ASSUME NEW k \in Kinds, Decline(k) \/ Suppress(k) PROVE UNCHANGED log
  BY <1>5 DEF Decline, Suppress
<1>6. CASE Tick \/ UNCHANGED dispatcher
  BY <1>6 DEF Tick, dispatcher
<1> QED
  BY <1>1, <1>3, <1>4, <1>5, <1>6 DEF NextDispatcher, Operator

LEMMA ClockStep ==
    ASSUME DispatcherTypeOK, [NextDispatcher]_dispatcher
    PROVE  now' = now \/ (now' = now + 1 /\ Tick)
  BY DEF NextDispatcher, Operator, Decline, Suppress, Dispatch, Dismiss, ResetGating,
         SetMuted, ClearMuted, Tick, dispatcher

LEMMA TimesPastStep == DispatcherTypeOK /\ TimesPast /\ [NextDispatcher]_dispatcher => TimesPast'
<1> SUFFICES ASSUME DispatcherTypeOK, TimesPast, [NextDispatcher]_dispatcher PROVE TimesPast'
  OBVIOUS
<1>1. now \in Nat /\ now' \in Nat /\ now' >= now /\ log \in Seq(LogEntries)
  BY ClockStep DEF DispatcherTypeOK
<1>2. \A e \in LogEntries : e.at \in Nat
  BY DEF LogEntries
<1>3. CASE UNCHANGED log
  BY <1>1, <1>2, <1>3 DEF TimesPast
<1>4. CASE \E e \in LogEntries : log' = Append(log, e) /\ e.at = now
  <2> PICK e \in LogEntries : log' = Append(log, e) /\ e.at = now
    BY <1>4
  <2> QED
    BY <1>1, <1>2, LogGrows DEF TimesPast
<1> QED
  BY <1>3, <1>4, LogStep

----------------------------------------------------------------------------
(* Spacing, cooldown and mutes                                             *)

\* The entry that a dispatch adds.
LEMMA DispatchEntry ==
    ASSUME DispatcherTypeOK, NEW k \in Kinds, Dispatch(k)
    PROVE  \E e \in LogEntries, c \in Cycle :
             /\ e.what = "alert" /\ e.sig = k.sig /\ e.score = k.score /\ e.at = now
             /\ e.episode = c.first
             /\ log' = Append(log, e)
             /\ lifecycle' = [lifecycle EXCEPT ![k.sig] = c]
             /\ c.last = now
             /\ \/ lifecycle[k.sig] # Never /\ c.first = lifecycle[k.sig].first
                   /\ c.occurrences = lifecycle[k.sig].occurrences + 1
                \/ (lifecycle[k.sig] # Never => now - lifecycle[k.sig].last > EpisodeGap)
                   /\ c.first = now /\ c.occurrences = 1
<1>1. k.sig \in Signatures /\ k.score \in Scores /\ now \in Nat
  BY DEF Kinds, DispatcherTypeOK
<1>2. Touch(k.sig, FALSE)
  BY DEF Dispatch
<1>3. PICK c \in Cycle :
        /\ lifecycle' = [lifecycle EXCEPT ![k.sig] = c]
        /\ c.last = now
        /\ \/ lifecycle[k.sig] # Never /\ c.first = lifecycle[k.sig].first
              /\ c.occurrences = lifecycle[k.sig].occurrences + 1
           \/ (lifecycle[k.sig] # Never => now - lifecycle[k.sig].last > EpisodeGap)
              /\ c.first = now /\ c.occurrences = 1
  BY <1>1, <1>2, TouchCycle
<1> DEFINE e == Alerted(k, lifecycle'[k.sig].first)
<1>4. lifecycle'[k.sig].first = c.first /\ c.first \in Nat
  BY <1>1, <1>3 DEF DispatcherTypeOK, Cycle
<1>5. /\ e \in LogEntries /\ e.what = "alert" /\ e.sig = k.sig /\ e.score = k.score
      /\ e.at = now /\ e.episode = c.first
  BY <1>1, <1>4 DEF Alerted, LogEntries
<1>6. log' = Append(log, e)
  BY DEF Dispatch
<1> HIDE DEF e
<1> QED
  BY <1>3, <1>5, <1>6

\* The entry that a request adds.
LEMMA RequestEntry ==
    ASSUME DispatcherTypeOK, NEW what \in {"dismiss", "reset", "mute", "unmute"},
           NEW s \in Signatures \cup {NoSig}, log' = Append(log, Request(what, s))
    PROVE  \E e \in LogEntries :
             e.what = what /\ e.sig = s /\ e.at = now /\ log' = Append(log, e)
<1>1. now \in Nat
  BY DEF DispatcherTypeOK
<1>2. /\ Request(what, s) \in LogEntries /\ Request(what, s).what = what
      /\ Request(what, s).sig = s /\ Request(what, s).at = now
  BY <1>1 DEF Request, LogEntries
<1> QED
  BY <1>2

\* What the log says of a step, and which of the tables it changes.
Quiet == UNCHANGED <<log, lastAlert, cooldownUntil, lastDispatch, muted>>

LEMMA Steps ==
    ASSUME DispatcherTypeOK, [NextDispatcher]_dispatcher
    PROVE  \/ Quiet
           \/ \E e \in LogEntries :
                /\ log' = Append(log, e) /\ e.at = now /\ now' = now
                /\ \/ /\ e.what = "alert" /\ e.sig \in Signatures /\ e.score \in Scores
                      /\ Spaced /\ ~InCooldown /\ Len(Fresh(recent)) < MaxPerMinute
                      /\ e.sig \notin muted \cap Patterned
                      /\ ~Unchanged([sig |-> e.sig, score |-> e.score])
                      /\ lastAlert' = now /\ UNCHANGED <<cooldownUntil, muted>>
                      /\ recent' = Append(Fresh(recent), now)
                      /\ lastDispatch' =
                           [lastDispatch EXCEPT ![e.sig] = [at |-> now, score |-> e.score]]
                   \/ /\ e.what = "dismiss" /\ cooldownUntil' = now + Cooldown
                      /\ UNCHANGED <<lastAlert, recent, perSig, muted>>
                   \/ /\ e.what = "reset"
                      /\ UNCHANGED <<recent, perSig, muted>>
                   \/ /\ e.what = "mute" /\ muted' = muted \cup {e.sig}
                      /\ UNCHANGED <<lastAlert, cooldownUntil, recent, perSig>>
                   \/ /\ e.what = "unmute" /\ muted' = muted \ {e.sig}
                      /\ UNCHANGED <<lastAlert, cooldownUntil, recent, perSig>>
<1>1. ASSUME NEW k \in Kinds, Dispatch(k) PROVE \E e \in LogEntries :
                /\ log' = Append(log, e) /\ e.at = now /\ now' = now
                /\ e.what = "alert" /\ e.sig \in Signatures /\ e.score \in Scores
                /\ Spaced /\ ~InCooldown /\ Len(Fresh(recent)) < MaxPerMinute
                /\ e.sig \notin muted \cap Patterned
                /\ ~Unchanged([sig |-> e.sig, score |-> e.score])
                /\ lastAlert' = now /\ UNCHANGED <<cooldownUntil, muted>>
                /\ recent' = Append(Fresh(recent), now)
                /\ lastDispatch' =
                     [lastDispatch EXCEPT ![e.sig] = [at |-> now, score |-> e.score]]
  <2>1. PICK e \in LogEntries :
          /\ e.what = "alert" /\ e.sig = k.sig /\ e.score = k.score /\ e.at = now
          /\ log' = Append(log, e)
    BY <1>1, DispatchEntry
  <2>2. k.sig \in Signatures /\ k.score \in Scores /\ k = [sig |-> e.sig, score |-> e.score]
    BY <2>1 DEF Kinds
  <2>3. /\ Spaced /\ ~InCooldown /\ Len(Fresh(recent)) < MaxPerMinute
        /\ e.sig \notin muted \cap Patterned /\ ~Unchanged(k)
    BY <1>1, <2>1 DEF Dispatch, Eligible, RateLimit, IsMuted
  <2>4. /\ lastAlert' = now /\ UNCHANGED <<cooldownUntil, muted>> /\ now' = now
        /\ recent' = Append(Fresh(recent), now)
        /\ lastDispatch' = [lastDispatch EXCEPT ![e.sig] = [at |-> now, score |-> e.score]]
    BY <1>1, <2>1 DEF Dispatch
  <2> QED
    BY <2>1, <2>2, <2>3, <2>4
<1>2. ASSUME NEW k \in Kinds, Decline(k) \/ Suppress(k) PROVE Quiet
  BY <1>2 DEF Decline, Suppress, Quiet, perSig
<1>3. CASE Tick \/ UNCHANGED dispatcher
  BY <1>3 DEF Tick, dispatcher, gating, perSig, Quiet
<1>4. CASE Dismiss
  <2>1. PICK e \in LogEntries : e.what = "dismiss" /\ e.at = now /\ log' = Append(log, e)
    BY <1>4, RequestEntry DEF Dismiss
  <2> QED
    BY <1>4, <2>1 DEF Dismiss
<1>5. CASE ResetGating
  <2>1. PICK e \in LogEntries : e.what = "reset" /\ e.at = now /\ log' = Append(log, e)
    BY <1>5, RequestEntry DEF ResetGating
  <2> QED
    BY <1>5, <2>1 DEF ResetGating
<1>6. ASSUME NEW s \in Signatures, SetMuted(s) PROVE \E e \in LogEntries :
                /\ log' = Append(log, e) /\ e.at = now /\ now' = now
                /\ e.what = "mute" /\ muted' = muted \cup {e.sig}
                /\ UNCHANGED <<lastAlert, cooldownUntil, recent, perSig>>
  <2>1. PICK e \in LogEntries : e.what = "mute" /\ e.sig = s /\ e.at = now /\ log' = Append(log, e)
    BY <1>6, RequestEntry DEF SetMuted
  <2> QED
    BY <1>6, <2>1 DEF SetMuted, gating
<1>7. ASSUME NEW s \in Signatures, ClearMuted(s) PROVE \E e \in LogEntries :
                /\ log' = Append(log, e) /\ e.at = now /\ now' = now
                /\ e.what = "unmute" /\ muted' = muted \ {e.sig}
                /\ UNCHANGED <<lastAlert, cooldownUntil, recent, perSig>>
  <2>1. PICK e \in LogEntries : e.what = "unmute" /\ e.sig = s /\ e.at = now /\ log' = Append(log, e)
    BY <1>7, RequestEntry DEF ClearMuted
  <2> QED
    BY <1>7, <2>1 DEF ClearMuted, gating
<1> QED
  BY <1>1, <1>2, <1>3, <1>4, <1>5, <1>6, <1>7 DEF NextDispatcher, Operator

LEMMA SinceResetStep ==
    DispatcherTypeOK /\ TimesPast /\ SinceReset /\ [NextDispatcher]_dispatcher => SinceReset'
<1> SUFFICES ASSUME DispatcherTypeOK, TimesPast, SinceReset, [NextDispatcher]_dispatcher
             PROVE  SinceReset'
  OBVIOUS
<1>1. /\ log \in Seq(LogEntries) /\ now \in Nat /\ lastAlert \in Nat \cup {Never}
      /\ cooldownUntil \in Nat /\ Cooldown \in Nat /\ Never \notin Int
      /\ \A e \in LogEntries : e.at \in Nat
  BY TimeAssumption DEF DispatcherTypeOK, TimeAssumption, LogEntries
<1>2. CASE Quiet
  BY <1>2 DEF Quiet, SinceReset, Between
<1>3. ASSUME NEW e \in LogEntries, log' = Append(log, e), e.at = now,
             \/ e.what = "alert" /\ lastAlert' = now /\ UNCHANGED cooldownUntil
             \/ e.what = "dismiss" /\ cooldownUntil' = now + Cooldown /\ UNCHANGED lastAlert
             \/ e.what = "reset"
             \/ e.what \in {"mute", "unmute"} /\ UNCHANGED <<lastAlert, cooldownUntil>>
      PROVE  SinceReset'
  <2>1. /\ DOMAIN log = 1..Len(log) /\ DOMAIN log' = 1..(Len(log) + 1)
        /\ Len(log) \in Nat /\ Len(log') = Len(log) + 1
        /\ \A i \in DOMAIN log : log'[i] = log[i] /\ log[i] \in LogEntries
        /\ log'[Len(log) + 1] = e
    BY <1>1, <1>3, LogGrows
  <2> SUFFICES ASSUME NEW i \in DOMAIN log'
               PROVE  \/ \E r \in i..Len(log') : log'[r].what = "reset"
                      \/ /\ log'[i].what = "alert" => lastAlert' # Never /\ lastAlert' >= log'[i].at
                         /\ log'[i].what = "dismiss" => cooldownUntil' >= log'[i].at + Cooldown
    BY DEF SinceReset, Between
  <2>2. CASE e.what = "reset"
    BY <2>1, <2>2
  <2>3. CASE e.what # "reset" /\ i = Len(log) + 1
    BY <1>1, <1>3, <2>1, <2>3
  <2>4. CASE e.what # "reset" /\ i \in DOMAIN log
    <3>1. log'[i] = log[i] /\ log[i].at \in Nat /\ log[i].at <= now
      BY <1>1, <2>1, <2>4 DEF TimesPast
    <3>2. CASE \E r \in i..Len(log) : log[r].what = "reset"
      BY <2>1, <2>4, <3>2
    <3>3. CASE /\ log[i].what = "alert" => lastAlert # Never /\ lastAlert >= log[i].at
               /\ log[i].what = "dismiss" => cooldownUntil >= log[i].at + Cooldown
      BY <1>1, <1>3, <2>4, <3>1, <3>3
    <3> QED
      BY <2>4, <3>2, <3>3 DEF SinceReset, Between
  <2> QED
    BY <2>1, <2>2, <2>3, <2>4
<1> QED
  BY <1>2, <1>3, Steps

LEMMA SinceUnmuteStep ==
    DispatcherTypeOK /\ SinceUnmute /\ [NextDispatcher]_dispatcher => SinceUnmute'
<1> SUFFICES ASSUME DispatcherTypeOK, SinceUnmute, [NextDispatcher]_dispatcher PROVE SinceUnmute'
  OBVIOUS
<1>1. log \in Seq(LogEntries)
  BY DEF DispatcherTypeOK
<1>2. CASE Quiet
  BY <1>2 DEF Quiet, SinceUnmute, Unmuted
<1>3. ASSUME NEW e \in LogEntries, log' = Append(log, e),
             \/ e.what \in {"alert", "dismiss", "reset"} /\ UNCHANGED muted
             \/ e.what = "mute" /\ muted' = muted \cup {e.sig}
             \/ e.what = "unmute" /\ muted' = muted \ {e.sig}
      PROVE  SinceUnmute'
  <2>1. /\ DOMAIN log = 1..Len(log) /\ DOMAIN log' = 1..(Len(log) + 1)
        /\ Len(log) \in Nat /\ Len(log') = Len(log) + 1
        /\ \A i \in DOMAIN log : log'[i] = log[i]
        /\ log'[Len(log) + 1] = e
    BY <1>1, <1>3, LogGrows
  <2> SUFFICES ASSUME NEW s \in Patterned, NEW i \in DOMAIN log',
                      log'[i].what = "mute", log'[i].sig = s, s \notin muted'
               PROVE  \E r \in i..Len(log') : log'[r].what = "unmute" /\ log'[r].sig = s
    BY DEF SinceUnmute, Unmuted
  <2>2. i \in DOMAIN log
    BY <1>3, <2>1
  <2>3. CASE \E r \in i..Len(log) : log[r].what = "unmute" /\ log[r].sig = s
    BY <2>1, <2>2, <2>3
  <2>4. CASE s \in muted
    <3>1. e.what = "unmute" /\ e.sig = s
      BY <1>3, <2>4
    <3> QED
      BY <2>1, <2>2, <3>1
  <2> QED
    BY <2>1, <2>2, <2>3, <2>4 DEF SinceUnmute, Unmuted
<1> QED
  BY <1>2, <1>3, Steps

LEMMA LastShownStep == DispatcherTypeOK /\ LastShown /\ [NextDispatcher]_dispatcher => LastShown'
<1> SUFFICES ASSUME DispatcherTypeOK, LastShown, [NextDispatcher]_dispatcher PROVE LastShown'
  OBVIOUS
<1>1. log \in Seq(LogEntries) /\ now \in Nat
  BY DEF DispatcherTypeOK
<1>2. CASE Quiet
  BY <1>2 DEF Quiet, LastShown, AlertsOf, Alerts
<1>3. ASSUME NEW e \in LogEntries, log' = Append(log, e), e.what # "alert", UNCHANGED lastDispatch
      PROVE  LastShown'
  <2>1. \A s \in Signatures : AlertsOf(s)' = AlertsOf(s)
    BY <1>1, <1>3, AlertsGrow
  <2>2. \A s \in Signatures : \A i \in AlertsOf(s) : log'[i] = log[i]
    BY <1>1, <1>3, LogGrows DEF AlertsOf, Alerts
  <2> SUFFICES ASSUME NEW s \in Signatures, NEW i \in AlertsOf(s)', \A m \in AlertsOf(s)' : m <= i
               PROVE  lastDispatch'[s] = [at |-> log'[i].at, score |-> log'[i].score]
    BY DEF LastShown
  <2>3. i \in AlertsOf(s) /\ \A m \in AlertsOf(s) : m <= i
    BY <2>1
  <2> QED
    BY <1>3, <2>2, <2>3 DEF LastShown
<1>4. ASSUME NEW e \in LogEntries, log' = Append(log, e), e.what = "alert", e.at = now, e.sig \in Signatures,
             lastDispatch' = [lastDispatch EXCEPT ![e.sig] = [at |-> now, score |-> e.score]]
      PROVE  LastShown'
  <2> SUFFICES ASSUME NEW s \in Signatures, NEW i \in AlertsOf(s)', \A m \in AlertsOf(s)' : m <= i
               PROVE  lastDispatch'[s] = [at |-> log'[i].at, score |-> log'[i].score]
    BY DEF LastShown
  <2>1. AlertsOf(s)' = AlertsOf(s) \cup (IF e.sig = s THEN {Len(log) + 1} ELSE {})
    BY <1>1, <1>4, AlertsGrow
  <2>2. /\ \A j \in AlertsOf(s) : j \in 1..Len(log) /\ log'[j] = log[j]
        /\ Len(log) \in Nat /\ log'[Len(log) + 1] = e
    BY <1>1, <1>4, LogGrows DEF AlertsOf, Alerts
  <2>3. CASE e.sig = s
    <3>1. i = Len(log) + 1
      BY <2>1, <2>2, <2>3
    <3> QED
      BY <1>4, <2>2, <2>3, <3>1 DEF DispatcherTypeOK
  <2>4. CASE e.sig # s
    <3>1. i \in AlertsOf(s) /\ \A m \in AlertsOf(s) : m <= i
      BY <2>1, <2>4
    <3> QED
      BY <1>4, <2>2, <2>4, <3>1 DEF LastShown, DispatcherTypeOK
  <2> QED
    BY <2>3, <2>4
<1> QED
  BY <1>2, <1>3, <1>4, Steps DEF perSig

\* Alerts are spaced, and none comes in a cooldown.
LEMMA ResetStep ==
    DispatcherTypeOK /\ SinceReset /\ AlertsSpaced /\ QuietAfterDismiss /\ [NextDispatcher]_dispatcher
        => AlertsSpaced' /\ QuietAfterDismiss'
<1> SUFFICES ASSUME DispatcherTypeOK, SinceReset, AlertsSpaced, QuietAfterDismiss,
                    [NextDispatcher]_dispatcher
             PROVE  AlertsSpaced' /\ QuietAfterDismiss'
  OBVIOUS
<1>1. /\ log \in Seq(LogEntries) /\ now \in Nat /\ lastAlert \in Nat \cup {Never}
      /\ cooldownUntil \in Nat /\ Cooldown \in Nat /\ MinInterval \in Nat /\ Never \notin Int
      /\ \A e \in LogEntries : e.at \in Nat
  BY TimeAssumption DEF DispatcherTypeOK, TimeAssumption, LogEntries
<1>2. CASE Quiet
  BY <1>2 DEF Quiet, AlertsSpaced, QuietAfterDismiss, Between, Alerts
<1>3. ASSUME NEW e \in LogEntries, log' = Append(log, e), e.at = now,
             e.what = "alert" => Spaced /\ ~InCooldown
      PROVE  AlertsSpaced' /\ QuietAfterDismiss'
  <2>1. /\ DOMAIN log = 1..Len(log) /\ DOMAIN log' = 1..(Len(log) + 1)
        /\ Len(log) \in Nat /\ Len(log') = Len(log) + 1
        /\ \A i \in DOMAIN log : log'[i] = log[i] /\ log[i] \in LogEntries
        /\ log'[Len(log) + 1] = e
    BY <1>1, <1>3, LogGrows
  <2>2. /\ Alerts' = {i \in DOMAIN log' : log'[i].what = "alert"}
        /\ Alerts = {i \in DOMAIN log : log[i].what = "alert"}
    BY DEF Alerts
  <2>3. ASSUME NEW i \in DOMAIN log', NEW j \in Alerts', i < j,
               j \in DOMAIN log, \E r \in i..j : log[r].what = "reset"
        PROVE  \E r \in i..j : log'[r].what = "reset"
    BY <2>1, <2>3
  <2>4. ASSUME NEW i \in DOMAIN log', NEW j \in Alerts', i < j, j \notin DOMAIN log
        PROVE  /\ i \in DOMAIN log /\ log'[i] = log[i] /\ log[i].at \in Nat
               /\ log'[j].at = now /\ Spaced /\ ~InCooldown
               /\ \/ \E r \in i..j : log'[r].what = "reset"
                  \/ /\ log[i].what = "alert" => lastAlert # Never /\ lastAlert >= log[i].at
                     /\ log[i].what = "dismiss" => cooldownUntil >= log[i].at + Cooldown
    <3>1. i \in DOMAIN log /\ j = Len(log) + 1 /\ e.what = "alert"
      BY <2>1, <2>2, <2>4
    <3>2. CASE \E r \in i..Len(log) : log[r].what = "reset"
      BY <1>1, <1>3, <2>1, <3>1, <3>2
    <3>3. CASE /\ log[i].what = "alert" => lastAlert # Never /\ lastAlert >= log[i].at
               /\ log[i].what = "dismiss" => cooldownUntil >= log[i].at + Cooldown
      BY <1>1, <1>3, <2>1, <3>1, <3>3
    <3> QED
      BY <3>1, <3>2, <3>3 DEF SinceReset, Between
  <2>5. ASSUME NEW i \in Alerts', NEW j \in Alerts', i < j, log'[j].at - log'[i].at < MinInterval
        PROVE  \E r \in i..j : log'[r].what = "reset"
    <3>1. CASE j \in DOMAIN log
      <4>1. i \in Alerts /\ j \in Alerts /\ log'[i] = log[i] /\ log'[j] = log[j]
        BY <2>1, <2>2, <2>5, <3>1
      <4>2. \E r \in i..j : log[r].what = "reset"
        BY <2>5, <4>1 DEF AlertsSpaced, Between
      <4> QED
        BY <2>2, <2>3, <2>5, <3>1, <4>2
    <3>2. CASE j \notin DOMAIN log
      <4>1. i \in DOMAIN log' /\ log'[i].what = "alert"
        BY <2>2
      <4> QED
        BY <1>1, <2>4, <2>5, <3>2, <4>1 DEF Spaced, Elapsed
    <3> QED
      BY <3>1, <3>2
  <2>6. ASSUME NEW i \in DOMAIN log', NEW j \in Alerts', log'[i].what = "dismiss", i < j,
               log'[j].at - log'[i].at < Cooldown
        PROVE  \E r \in i..j : log'[r].what = "reset"
    <3>1. CASE j \in DOMAIN log
      <4>1. i \in DOMAIN log /\ j \in Alerts /\ log'[i] = log[i] /\ log'[j] = log[j]
        BY <2>1, <2>2, <2>6, <3>1
      <4>2. \E r \in i..j : log[r].what = "reset"
        BY <2>6, <4>1 DEF QuietAfterDismiss, Between
      <4> QED
        BY <2>3, <2>6, <3>1, <4>2
    <3>2. CASE j \notin DOMAIN log
      BY <1>1, <2>4, <2>6, <3>2 DEF InCooldown
    <3> QED
      BY <3>1, <3>2
  <2> QED
    BY <2>5, <2>6 DEF AlertsSpaced, QuietAfterDismiss, Between
<1> QED
  BY <1>2, <1>3, Steps

\* A muted signature made from pattern keys stays quiet.
LEMMA MuteStep ==
    DispatcherTypeOK /\ SinceUnmute /\ MutedPatternsQuiet /\ [NextDispatcher]_dispatcher
        => MutedPatternsQuiet'
<1> SUFFICES ASSUME DispatcherTypeOK, SinceUnmute, MutedPatternsQuiet, [NextDispatcher]_dispatcher
             PROVE  MutedPatternsQuiet'
  OBVIOUS
<1>1. log \in Seq(LogEntries)
  BY DEF DispatcherTypeOK
<1>2. CASE Quiet
  BY <1>2 DEF Quiet, MutedPatternsQuiet, MuteHolds, Unmuted, AlertsOf, Alerts
<1>3. ASSUME NEW e \in LogEntries, log' = Append(log, e),
             e.what = "alert" => e.sig \notin muted \cap Patterned
      PROVE  MutedPatternsQuiet'
  <2>1. /\ DOMAIN log = 1..Len(log) /\ DOMAIN log' = 1..(Len(log) + 1)
        /\ Len(log) \in Nat /\ Len(log') = Len(log) + 1
        /\ \A i \in DOMAIN log : log'[i] = log[i]
        /\ log'[Len(log) + 1] = e
    BY <1>1, <1>3, LogGrows
  <2>2. \A s : /\ AlertsOf(s)' = {i \in DOMAIN log' : log'[i].what = "alert" /\ log'[i].sig = s}
               /\ AlertsOf(s) = {i \in DOMAIN log : log[i].what = "alert" /\ log[i].sig = s}
    BY DEF Alerts, AlertsOf
  <2> SUFFICES ASSUME NEW s \in Patterned, NEW i \in DOMAIN log', NEW j \in AlertsOf(s)',
                      log'[i].what = "mute", log'[i].sig = s, i < j
               PROVE  \E r \in i..j : log'[r].what = "unmute" /\ log'[r].sig = s
    BY DEF MutedPatternsQuiet, MuteHolds, Unmuted
  <2>3. j \in DOMAIN log' /\ log'[j].what = "alert" /\ log'[j].sig = s
    BY <2>2
  <2>4. CASE j \in DOMAIN log
    <3>1. i \in DOMAIN log /\ j \in AlertsOf(s) /\ log[i].what = "mute" /\ log[i].sig = s
      BY <2>1, <2>2, <2>3, <2>4
    <3>2. \E r \in i..j : log[r].what = "unmute" /\ log[r].sig = s
      BY <3>1 DEF MutedPatternsQuiet, MuteHolds, Unmuted
    <3> QED
      BY <2>1, <2>4, <3>1, <3>2
  <2>5. CASE j \notin DOMAIN log
    <3>1. i \in DOMAIN log /\ j = Len(log) + 1 /\ e.what = "alert" /\ e.sig = s
      BY <2>1, <2>3, <2>5
    <3>2. \E r \in i..Len(log) : log[r].what = "unmute" /\ log[r].sig = s
      BY <1>3, <2>1, <3>1 DEF SinceUnmute, Unmuted
    <3> QED
      BY <2>1, <3>1, <3>2
  <2> QED
    BY <2>4, <2>5
<1> QED
  BY <1>2, <1>3, Steps

\* An alert that repeats its predecessor within the window is not dispatched.
LEMMA RepeatStep ==
    DispatcherTypeOK /\ LastShown /\ NoRepeat /\ [NextDispatcher]_dispatcher => NoRepeat'
<1> SUFFICES ASSUME DispatcherTypeOK, LastShown, NoRepeat, [NextDispatcher]_dispatcher
             PROVE  NoRepeat'
  OBVIOUS
<1>1. log \in Seq(LogEntries) /\ now \in Nat
  BY DEF DispatcherTypeOK
<1>2. CASE Quiet
  BY <1>2 DEF Quiet, NoRepeat, AlertsOf, Alerts
<1>3. ASSUME NEW e \in LogEntries, log' = Append(log, e), e.at = now,
             e.what = "alert" => e.score \in Scores /\ ~Unchanged([sig |-> e.sig, score |-> e.score])
      PROVE  NoRepeat'
  <2>1. /\ DOMAIN log = 1..Len(log) /\ DOMAIN log' = 1..(Len(log) + 1)
        /\ Len(log) \in Nat
        /\ \A i \in DOMAIN log : log'[i] = log[i]
        /\ log'[Len(log) + 1] = e
    BY <1>1, <1>3, LogGrows
  <2>2. \A s : /\ AlertsOf(s)' = {i \in DOMAIN log' : log'[i].what = "alert" /\ log'[i].sig = s}
               /\ AlertsOf(s) = {i \in DOMAIN log : log[i].what = "alert" /\ log[i].sig = s}
    BY DEF Alerts, AlertsOf
  <2> SUFFICES ASSUME NEW s \in Signatures, NEW i \in AlertsOf(s)', NEW j \in AlertsOf(s)',
                      i < j, \A m \in AlertsOf(s)' : m <= i \/ m >= j,
                      log'[j].at - log'[i].at < SuppressWindow
               PROVE  \/ Severity(log'[j].score) > Severity(log'[i].score)
                      \/ Distance(log'[i].score, log'[j].score) >= ScoreStep
    <3>1. NoRepeat' <=>
            \A s \in Signatures : \A i, j \in AlertsOf(s)' :
              /\ i < j /\ \A m \in AlertsOf(s)' : m <= i \/ m >= j
              /\ log'[j].at - log'[i].at < SuppressWindow
              => \/ Severity(log'[j].score) > Severity(log'[i].score)
                 \/ Distance(log'[i].score, log'[j].score) >= ScoreStep
      BY DEF NoRepeat, Severity, Distance
    <3> QED
      BY <3>1
  <2>3. /\ i \in DOMAIN log' /\ log'[i].what = "alert" /\ log'[i].sig = s
        /\ j \in DOMAIN log' /\ log'[j].what = "alert" /\ log'[j].sig = s
    BY <2>2
  <2>4. CASE j \in DOMAIN log
    <3>1. /\ i \in AlertsOf(s) /\ j \in AlertsOf(s) /\ log'[i] = log[i] /\ log'[j] = log[j]
          /\ \A m \in AlertsOf(s) : m \in AlertsOf(s)'
      BY <2>1, <2>2, <2>3, <2>4
    <3> QED
      BY <3>1 DEF NoRepeat
  <2>5. CASE j \notin DOMAIN log
    <3>1. i \in AlertsOf(s) /\ j = Len(log) + 1 /\ e.what = "alert" /\ e.sig = s /\ log'[i] = log[i]
      BY <2>1, <2>2, <2>3, <2>5
    <3>2. \A m \in AlertsOf(s) : m <= i
      BY <2>1, <2>2, <3>1
    <3>3. lastDispatch[s] = [at |-> log[i].at, score |-> log[i].score] /\ lastDispatch[s] # Never
      <4>1. lastDispatch[s] = [at |-> log[i].at, score |-> log[i].score]
        BY <3>1, <3>2 DEF LastShown
      <4>2. log[i] \in LogEntries /\ log[i].what = "alert"
        BY <1>1, <2>2, <3>1
      <4>3. log[i].at \in Nat /\ log[i].score \in Scores
        BY <4>2 DEF LogEntries
      <4> QED
        BY <4>1, <4>3, NeverAssumption DEF NeverAssumption
    <3>4. ~ (Severity(e.score) <= Severity(log[i].score) /\ Distance(e.score, log[i].score) < ScoreStep)
      BY <1>3, <2>1, <3>1, <3>3 DEF Unchanged
    <3>5. log[i].score \in Nat /\ e.score \in Nat /\ ScoreStep \in Nat
      <4>1. log[i] \in LogEntries /\ log[i].what = "alert"
        BY <1>1, <2>2, <3>1
      <4>2. log[i].score \in Scores
        BY <4>1 DEF LogEntries
      <4> QED
        BY <1>3, <3>1, <4>2, ScoreAssumption DEF ScoreAssumption
    <3>6. Distance(e.score, log[i].score) = Distance(log[i].score, e.score)
          /\ Distance(e.score, log[i].score) \in Nat
      BY <3>5 DEF Distance
    <3>7. Severity(e.score) \in Nat /\ Severity(log[i].score) \in Nat
      BY DEF Severity
    <3> QED
      BY <2>1, <3>1, <3>4, <3>5, <3>6, <3>7
  <2> QED
    BY <2>4, <2>5
<1> QED
  BY <1>2, <1>3, Steps

----------------------------------------------------------------------------
(* The rate                                                                *)

Sorted(times) == \A i, j \in DOMAIN times : i <= j => times[i] <= times[j]

\* What is left of an ordered list of times.
LEMMA FreshFacts ==
    ASSUME NEW times \in Seq(Nat), now \in Nat, Sorted(times)
    PROVE  /\ Sorted(Fresh(times))
           /\ \A i \in DOMAIN Fresh(times) : \E j \in DOMAIN times : Fresh(times)[i] = times[j]
           /\ Len(Fresh(times)) = Cardinality(Later(times, now - Minute))
           /\ \A t \in Int : t >= now - Minute =>
                Cardinality(Later(Fresh(times), t)) = Cardinality(Later(times, t))
<1> DEFINE n == Len(times)
           old == {i \in DOMAIN times : times[i] <= now - Minute}
           k == Cardinality(old)
           m == Fresh(times)
<1>1. n \in Nat /\ DOMAIN times = 1..n /\ \A i \in 1..n : times[i] \in Nat
  OBVIOUS
<1>2. Minute \in Nat /\ now - Minute \in Int
  BY TimeAssumption DEF TimeAssumption
<1>3. k \in 0..n /\ old = 1..k
  <2>1. old \in SUBSET (1..n)
    OBVIOUS
  <2>2. \A i \in old, j \in 1..n : j <= i => j \in old
    BY <1>1, <1>2 DEF Sorted
  <2> HIDE DEF old
  <2> QED
    BY <1>1, <2>1, <2>2, InitialSegment
<1>4. m = SubSeq(times, k + 1, n)
  BY DEF Fresh
<1>5. \A i \in 1..n : times[i] <= now - Minute <=> i <= k
  <2>1. \A i \in 1..n : times[i] <= now - Minute <=> i \in old
    OBVIOUS
  <2> HIDE DEF old, n
  <2> QED
    BY <1>1, <1>3, <2>1
<1> HIDE DEF old, k, m, n
<1>6. m \in Seq(Nat) /\ Len(m) = n - k /\ DOMAIN m = 1..(n - k) /\ \A i \in 1..(n - k) : m[i] = times[i + k]
  <2>1. k \in Int /\ n \in Int /\ k + 1 \in Int /\ \A i \in (k + 1)..n : times[i] \in Nat
    BY <1>1, <1>3
  <2>2. /\ m \in Seq(Nat)
        /\ Len(m) = IF k + 1 <= n THEN n - (k + 1) + 1 ELSE 0
        /\ \A i \in 1..(n - (k + 1) + 1) : m[i] = times[k + 1 + i - 1]
    BY <1>4, <2>1, SubSeqProperties
  <2>3. Len(m) = n - k
    BY <1>1, <1>3, <2>2
  <2>4. \A i \in 1..(n - k) : i \in 1..(n - (k + 1) + 1) /\ k + 1 + i - 1 = i + k
    BY <1>1, <1>3
  <2> QED
    BY <2>2, <2>3, <2>4
<1>7. Sorted(m)
  <2>1. \A i \in 1..(n - k) : i + k \in 1..n
    BY <1>1, <1>3
  <2>2. \A i, j \in 1..(n - k) : i <= j => i + k <= j + k
    BY <1>1, <1>3
  <2> QED
    BY <1>1, <1>6, <2>1, <2>2 DEF Sorted
<1>8. \A i \in DOMAIN m : \E j \in DOMAIN times : m[i] = times[j]
  <2> TAKE i \in DOMAIN m
  <2>1. i \in 1..(n - k) /\ m[i] = times[i + k]
    BY <1>6
  <2>2. i + k \in DOMAIN times
    BY <1>1, <1>3, <2>1
  <2> QED
    BY <2>1, <2>2
<1>9. ASSUME NEW t \in Int, t >= now - Minute
      PROVE  Cardinality(Later(m, t)) = Cardinality(Later(times, t))
  <2>1. Later(times, t) \in SUBSET ((k + 1)..n)
    <3> SUFFICES ASSUME NEW i \in 1..n, times[i] > t PROVE i \in (k + 1)..n
      BY <1>1 DEF Later
    <3>1. ~ (times[i] <= now - Minute)
      BY <1>1, <1>2, <1>9
    <3> QED
      BY <1>1, <1>3, <1>5, <3>1
  <2>2. Later(m, t) \in SUBSET (1..(n - k))
    BY <1>6 DEF Later
  <2>3. \A i \in 1..(n - k) : i \in Later(m, t) <=> i + k \in Later(times, t)
    <3> TAKE i \in 1..(n - k)
    <3>1. i \in DOMAIN m /\ m[i] = times[i + k]
      BY <1>6
    <3>2. i + k \in DOMAIN times
      BY <1>1, <1>3
    <3> QED
      BY <3>1, <3>2 DEF Later
  <2>4. n \in Nat /\ k \in 0..n
    BY <1>1, <1>3
  <2>5. \A S \in SUBSET ((k + 1)..n), T \in SUBSET (1..(n - k)) :
          (\A i \in 1..(n - k) : i \in T <=> i + k \in S) => Cardinality(T) = Cardinality(S)
    BY <2>4, Shifted
  <2> QED
    BY <2>1, <2>2, <2>3, <2>5
<1>10. Len(m) = Cardinality(Later(times, now - Minute))
  <2>1. Later(times, now - Minute) = (k + 1)..n
    <3>1. \A i \in 1..n : times[i] > now - Minute <=> i >= k + 1
      BY <1>1, <1>2, <1>3, <1>5
    <3>2. \A i \in (k + 1)..n : i \in 1..n
      BY <1>1, <1>3
    <3> QED
      BY <1>1, <3>1, <3>2 DEF Later
  <2> QED
    BY <1>1, <1>3, <1>6, <2>1, CountAfter
<1> QED
  BY <1>7, <1>8, <1>9, <1>10 DEF m

\* The list of recent alerts is left alone, or its old entries are dropped, and
\* an alert is added only at its end.
LEMMA RecentSteps ==
    ASSUME DispatcherTypeOK, [NextDispatcher]_dispatcher
    PROVE  \/ recent' \in {recent, Fresh(recent)} /\ Alerts' = Alerts
              /\ \A i \in Alerts : log'[i] = log[i]
           \/ \E e \in LogEntries : /\ log' = Append(log, e) /\ e.at = now /\ now' = now
                                    /\ e.what = "alert"
                                    /\ Len(Fresh(recent)) < MaxPerMinute
                                    /\ recent' = Append(Fresh(recent), now)
<1>1. log \in Seq(LogEntries)
  BY DEF DispatcherTypeOK
<1>2. CASE Quiet
  <2>1. Alerts' = Alerts /\ UNCHANGED log
    BY <1>2 DEF Quiet, Alerts
  <2>2. recent' \in {recent, Fresh(recent)} \/ \E k \in Kinds : Dispatch(k)
    BY DEF NextDispatcher, Operator, Decline, Trim, Suppress, Dismiss, ResetGating,
           SetMuted, ClearMuted, Tick, dispatcher, gating
  <2>3. ASSUME NEW k \in Kinds, Dispatch(k) PROVE FALSE
    <3>1. PICK e \in LogEntries : log' = Append(log, e)
      BY <2>3, DispatchEntry
    <3>2. Len(log') = Len(log) + 1 /\ Len(log) \in Nat
      BY <1>1, <3>1, LogGrows
    <3> QED
      BY <2>1, <3>2
  <2> QED
    BY <2>1, <2>2, <2>3
<1>3. ASSUME NEW e \in LogEntries, log' = Append(log, e), e.what # "alert", UNCHANGED recent
      PROVE  recent' \in {recent, Fresh(recent)} /\ Alerts' = Alerts /\ \A i \in Alerts : log'[i] = log[i]
  BY <1>1, <1>3, LogGrows DEF Alerts
<1> QED
  BY <1>2, <1>3, Steps

\* The part of AlertRate that counts.
WindowCounts ==
    \A i \in Alerts :
        Cardinality({j \in Alerts : j <= i /\ log[i].at - log[j].at < Minute}) <= MaxPerMinute

\* One position more.
LEMMA OneMore ==
    ASSUME NEW S, IsFiniteSet(S), NEW x, x \notin S
    PROVE  IsFiniteSet(S \cup {x}) /\ Cardinality(S \cup {x}) = Cardinality(S) + 1
  BY FS_AddElement

LEMMA Positions ==
    ASSUME NEW n \in Nat, NEW S \in SUBSET (1..n)
    PROVE  IsFiniteSet(S) /\ Cardinality(S) \in Nat
<1>1. IsFiniteSet(1..n)
  BY FS_Interval
<1>2. IsFiniteSet(S)
  BY <1>1, FS_Subset
<1> QED
  BY <1>2, FS_CardinalityType

\* The counts survive the passing of time and the trimming of the list.
LEMMA KeptCounts ==
    ASSUME DispatcherTypeOK, TimesPast, RecentCounts,
           now' = now \/ now' = now + 1,
           recent' \in {recent, Fresh(recent)}, Alerts' = Alerts, \A i \in Alerts : log'[i] = log[i]
    PROVE  RecentCounts'
<1>1. /\ now \in Nat /\ Minute \in Nat /\ recent \in Seq(Nat) /\ Fresh(recent) \in Seq(Nat)
      /\ log \in Seq(LogEntries)
  BY TimeAssumption, FreshSeq DEF DispatcherTypeOK, TimeAssumption
<1>2. Sorted(recent) /\ \A i \in DOMAIN recent : recent[i] <= now
  BY DEF RecentCounts, Sorted
<1>3. recent' \in Seq(Nat) /\ Sorted(recent') /\ \A i \in DOMAIN recent' : recent'[i] <= now
  <2>1. Sorted(Fresh(recent)) /\ \A i \in DOMAIN Fresh(recent) : Fresh(recent)[i] <= now
    BY <1>1, <1>2, FreshFacts
  <2> QED
    BY <1>1, <1>2, <2>1
<1>4. \A i \in DOMAIN recent' : recent'[i] <= now'
  BY <1>1, <1>3
<1>5. ASSUME NEW t \in (now' - Minute)..now'
      PROVE  Cardinality({i \in Alerts' : log'[i].at > t}) <= Cardinality(Later(recent', t))
  <2>1. {i \in Alerts' : log'[i].at > t} = LaterAlerts(t)
    BY DEF LaterAlerts
  <2>2. Later(recent', t) \in SUBSET (1..Len(recent')) /\ Len(recent') \in Nat
    BY <1>3 DEF Later
  <2>3. CASE t \in (now - Minute)..now
    <3>1. Cardinality(LaterAlerts(t)) <= Cardinality(Later(recent, t))
      BY <2>3 DEF RecentCounts
    <3>2. Cardinality(Later(Fresh(recent), t)) = Cardinality(Later(recent, t))
      BY <1>1, <1>2, <2>3, FreshFacts
    <3> QED
      BY <2>1, <3>1, <3>2
  <2>4. CASE t = now + 1
    <3>1. LaterAlerts(t) = {}
      <4>1. \A i \in Alerts : log[i].at \in Nat /\ log[i].at <= now
        BY <1>1 DEF Alerts, TimesPast, LogEntries
      <4> QED
        BY <1>1, <2>4, <4>1 DEF LaterAlerts
    <3>2. Cardinality(Later(recent', t)) \in Nat
      BY <2>2, Positions
    <3> QED
      BY <2>1, <3>1, <3>2, FS_EmptySet
  <2>5. t \in (now - Minute)..now \/ t = now + 1
    BY <1>1
  <2> QED
    BY <2>3, <2>4, <2>5
<1>6. \A i, j \in DOMAIN recent' : i <= j => recent'[i] <= recent'[j]
  BY <1>3 DEF Sorted
<1> QED
  BY <1>4, <1>5, <1>6 DEF RecentCounts, LaterAlerts, Later

\* An alert more: it is counted in the list as it is in the log, and it is the
\* last that its minute has room for.
LEMMA AlertCounts ==
    ASSUME DispatcherTypeOK, TimesPast, RecentCounts, WindowCounts,
           NEW e \in LogEntries, log' = Append(log, e), e.at = now, now' = now, e.what = "alert",
           Len(Fresh(recent)) < MaxPerMinute, recent' = Append(Fresh(recent), now)
    PROVE  RecentCounts' /\ WindowCounts'
<1> DEFINE f == Fresh(recent)
           n == Len(log)
           p == n + 1
           m == Len(f)
<1>1. /\ now \in Nat /\ Minute \in Nat /\ Minute > 0 /\ MaxPerMinute \in Nat
      /\ recent \in Seq(Nat) /\ f \in Seq(Nat) /\ log \in Seq(LogEntries)
  BY TimeAssumption, FreshSeq DEF DispatcherTypeOK, TimeAssumption
<1>2. Sorted(recent) /\ \A i \in DOMAIN recent : recent[i] <= now
  BY DEF RecentCounts, Sorted
<1>3. Sorted(f) /\ \A i \in DOMAIN f : f[i] <= now
  BY <1>1, <1>2, FreshFacts
<1>4. /\ m \in Nat /\ DOMAIN f = 1..m /\ DOMAIN recent' = 1..(m + 1)
      /\ \A i \in 1..m : recent'[i] = f[i]
      /\ recent'[m + 1] = now
  BY <1>1, AppendProperties
<1>5. /\ \A i \in DOMAIN recent' : recent'[i] <= now'
      /\ \A i, j \in DOMAIN recent' : i <= j => recent'[i] <= recent'[j]
  BY <1>1, <1>3, <1>4 DEF Sorted
<1>6. /\ n \in Nat /\ Alerts \in SUBSET (1..n) /\ Alerts' = Alerts \cup {p}
      /\ \A i \in Alerts : log'[i] = log[i] /\ log[i].at \in Nat /\ log[i].at <= now
      /\ log'[p].at = now /\ p \notin Alerts
  <2>1. /\ n \in Nat /\ DOMAIN log = 1..n /\ \A i \in DOMAIN log : log'[i] = log[i] /\ log[i] \in LogEntries
        /\ log'[n + 1] = e /\ Alerts' = Alerts \cup {n + 1}
    BY <1>1, LogGrows
  <2>2. Alerts \in SUBSET (1..n) /\ n + 1 \notin Alerts
    BY <2>1 DEF Alerts
  <2>3. \A x \in LogEntries : x.at \in Nat
    BY DEF LogEntries
  <2> QED
    BY <2>1, <2>2, <2>3 DEF TimesPast
<1>last. p \in Nat /\ p = n + 1
  BY <1>6
<1> HIDE DEF f, m, n, p
<1>7. \A S \in SUBSET Alerts : IsFiniteSet(S) /\ Cardinality(S) \in Nat
  BY <1>6, Positions
<1>8. \A S \in SUBSET Alerts : Cardinality(S \cup {p}) = Cardinality(S) + 1
  BY <1>6, <1>7, OneMore
<1>9. ASSUME NEW t \in (now - Minute)..now
      PROVE  Cardinality({i \in Alerts' : log'[i].at > t}) <= Cardinality({i \in DOMAIN recent' : recent'[i] > t})
  <2> DEFINE A == {i \in Alerts' : log'[i].at > t}
             B == {i \in DOMAIN recent' : recent'[i] > t}
  <2>1. ASSUME t < now PROVE Cardinality(A) <= Cardinality(B)
    <3>1. A = LaterAlerts(t) \cup {p}
      BY <1>1, <1>6, <2>1 DEF LaterAlerts
    <3>2. B = Later(f, t) \cup {m + 1}
      BY <1>1, <1>4, <2>1 DEF Later
    <3>3. Later(f, t) \in SUBSET (1..m) /\ m + 1 \notin Later(f, t)
      BY <1>4 DEF Later
    <3>4. IsFiniteSet(Later(f, t)) /\ Cardinality(Later(f, t)) \in Nat
      BY <1>4, <3>3, Positions
    <3>5. Cardinality(Later(f, t) \cup {m + 1}) = Cardinality(Later(f, t)) + 1
      BY <3>3, <3>4, OneMore
    <3>6. Cardinality(LaterAlerts(t)) <= Cardinality(Later(recent, t))
      BY DEF RecentCounts
    <3>7. Cardinality(Later(f, t)) = Cardinality(Later(recent, t))
      BY <1>1, <1>2, FreshFacts DEF f
    <3>8. LaterAlerts(t) \in SUBSET Alerts
      BY DEF LaterAlerts
    <3>9. /\ Cardinality(LaterAlerts(t)) \in Nat
          /\ Cardinality(LaterAlerts(t) \cup {p}) = Cardinality(LaterAlerts(t)) + 1
      BY <1>7, <1>8, <3>8
    <3>10. Cardinality(LaterAlerts(t)) + 1 <= Cardinality(Later(f, t)) + 1
      BY <3>4, <3>6, <3>7, <3>9
    <3> HIDE DEF A, B
    <3> QED
      BY <3>1, <3>2, <3>5, <3>9, <3>10
  <2>2. ASSUME t = now PROVE Cardinality(A) <= Cardinality(B)
    <3>0. ASSUME NEW i \in Alerts' PROVE log'[i].at \in Nat /\ log'[i].at <= now
      <4>1. CASE i \in Alerts
        <5>1. log'[i] = log[i] /\ log[i].at \in Nat /\ log[i].at <= now
          BY <1>6, <4>1
        <5> QED
          BY <5>1
      <4>2. CASE i = p
        <5>1. log'[p].at = now
          BY <1>6
        <5>2. log'[i].at = now
          BY <4>2, <5>1
        <5> QED
          BY <1>1, <5>2
      <4> QED
        BY <1>6, <4>1, <4>2
    <3>1. A = {}
      <4> SUFFICES ASSUME NEW i \in Alerts', log'[i].at > t PROVE FALSE
        OBVIOUS
      <4>1. PICK x \in Nat : x = log'[i].at
        BY <3>0
      <4>2. x <= now
        BY <3>0, <4>1
      <4>3. x > now
        BY <2>2, <4>1
      <4> QED
        BY <1>1, <4>2, <4>3
    <3>2. B \in SUBSET (1..(m + 1)) /\ m + 1 \in Nat
      BY <1>4
    <3>3. Cardinality(B) \in Nat
      BY <3>2, Positions
    <3>4. Cardinality(A) = 0
      BY <3>1, FS_EmptySet
    <3> HIDE DEF A, B
    <3> QED
      BY <3>3, <3>4
  <2>3. t < now \/ t = now
    BY <1>1
  <2> HIDE DEF A, B
  <2>4. Cardinality(A) <= Cardinality(B)
    BY <2>1, <2>2, <2>3
  <2> QED
    BY <2>4 DEF A, B
<1>10. RecentCounts'
  BY <1>5, <1>9 DEF RecentCounts, LaterAlerts, Later
<1>11. ASSUME NEW i \in Alerts'
       PROVE  Cardinality({j \in Alerts' : j <= i /\ log'[i].at - log'[j].at < Minute}) <= MaxPerMinute
  <2>1. CASE i \in Alerts
    <3>1. {j \in Alerts' : j <= i /\ log'[i].at - log'[j].at < Minute}
            = {j \in Alerts : j <= i /\ log[i].at - log[j].at < Minute}
      <4>1. ~ (p <= i)
        <5>1. i \in 1..n /\ n \in Nat
          BY <1>6, <2>1
        <5> QED
          BY <1>last, <5>1
      <4>2. \A j \in Alerts : j \in Alerts' /\ log'[i].at - log'[j].at = log[i].at - log[j].at
        BY <1>6, <2>1
      <4>3. \A j \in Alerts' : j <= i => j \in Alerts
        BY <1>6, <4>1
      <4> QED
        BY <4>2, <4>3
    <3> QED
      BY <2>1, <3>1 DEF WindowCounts
  <2>2. CASE i = p
    <3>1. {j \in Alerts' : j <= i /\ log'[i].at - log'[j].at < Minute}
            = LaterAlerts(now - Minute) \cup {p}
      <4>1. /\ log'[i].at = now /\ p <= i /\ now - log'[p].at < Minute
        <5>1. log'[i].at = now /\ log'[p].at = now /\ p <= i
          <6>1. log'[p].at = now
            BY <1>6
          <6>2. i = p
            BY <2>2
          <6>3. p <= i
            BY <1>last, <6>2
          <6> QED
            BY <6>1, <6>2, <6>3
        <5> QED
          BY <1>1, <5>1
      <4>2. \A j \in Alerts : j <= i
        <5>1. n \in Nat /\ \A j \in Alerts : j \in 1..n
          BY <1>6
        <5> QED
          BY <1>last, <2>2, <5>1
      <4>3. ASSUME NEW j \in Alerts
            PROVE  log'[j].at = log[j].at /\ (now - log[j].at < Minute <=> log[j].at > now - Minute)
        <5>1. log'[j] = log[j] /\ log[j].at \in Nat
          BY <1>6
        <5> QED
          BY <1>1, <5>1
      <4> QED
        BY <1>6, <4>1, <4>2, <4>3 DEF LaterAlerts
    <3>2. Cardinality(LaterAlerts(now - Minute)) <= Cardinality(Later(recent, now - Minute))
      BY <1>1 DEF RecentCounts
    <3>3. m = Cardinality(Later(recent, now - Minute)) /\ m < MaxPerMinute
      BY <1>1, <1>2, FreshFacts DEF f, m
    <3>4. LaterAlerts(now - Minute) \in SUBSET Alerts
      BY DEF LaterAlerts
    <3>5. /\ Cardinality(LaterAlerts(now - Minute)) \in Nat
          /\ Cardinality(LaterAlerts(now - Minute) \cup {p}) = Cardinality(LaterAlerts(now - Minute)) + 1
      BY <1>7, <1>8, <3>4
    <3>6. Cardinality(LaterAlerts(now - Minute)) + 1 <= MaxPerMinute
      BY <1>1, <1>4, <3>2, <3>3, <3>5
    <3> QED
      BY <3>1, <3>5, <3>6
  <2> QED
    BY <1>6, <2>1, <2>2
<1> QED
  BY <1>10, <1>11 DEF WindowCounts

LEMMA CountsStep ==
    DispatcherTypeOK /\ TimesPast /\ RecentCounts /\ WindowCounts /\ [NextDispatcher]_dispatcher
        => RecentCounts' /\ WindowCounts'
<1> SUFFICES ASSUME DispatcherTypeOK, TimesPast, RecentCounts, WindowCounts, [NextDispatcher]_dispatcher
             PROVE  RecentCounts' /\ WindowCounts'
  OBVIOUS
<1>1. CASE /\ recent' \in {recent, Fresh(recent)} /\ Alerts' = Alerts
           /\ \A i \in Alerts : log'[i] = log[i]
  <2>1. RecentCounts'
    BY <1>1, ClockStep, KeptCounts
  <2>2. \A i \in Alerts : {j \in Alerts' : j <= i /\ log'[i].at - log'[j].at < Minute}
                          = {j \in Alerts : j <= i /\ log[i].at - log[j].at < Minute}
    BY <1>1
  <2>3. WindowCounts'
    BY <1>1, <2>2 DEF WindowCounts
  <2> QED
    BY <2>1, <2>3
<1>2. CASE \E e \in LogEntries : /\ log' = Append(log, e) /\ e.at = now /\ now' = now
                                 /\ e.what = "alert"
                                 /\ Len(Fresh(recent)) < MaxPerMinute
                                 /\ recent' = Append(Fresh(recent), now)
  BY <1>2, AlertCounts
<1> QED
  BY <1>1, <1>2, RecentSteps

----------------------------------------------------------------------------
(* Episodes                                                                *)

\* What LastEpisode and EpisodesSound say of one signature at the time t: its
\* lifecycle is c, its alerts are the entries of L at the positions A.
CycleOf(c, A, L, t) ==
    /\ c # Never => /\ c.first <= c.last /\ c.last <= t
                    /\ c.occurrences = Cardinality({i \in A : L[i].at >= c.first})
    /\ \A i \in A : /\ c # Never /\ c.last >= L[i].at
                    /\ L[i].episode = c.first \/ c.first - L[i].at > EpisodeGap
    /\ \A i, j \in A :
         i < j => \/ L[i].episode = L[j].episode
                  \/ L[j].at - L[i].at > EpisodeGap /\ L[j].episode > L[i].at

\* How an event moves the lifecycle b to c; n is 1 when it is an alert.
Touched(b, c, n, t) ==
    /\ c.last = t
    /\ \/ b # Never /\ c.first = b.first /\ c.occurrences = b.occurrences + n
       \/ (b # Never => t - b.last > EpisodeGap) /\ c.first = t /\ c.occurrences = n

LEMMA CyclesOf ==
    LastEpisode /\ EpisodesSound <=> \A s \in Signatures : CycleOf(lifecycle[s], AlertsOf(s), log, now)
  BY DEF LastEpisode, EpisodeOf, EpisodesSound, OccurrencesCount, CycleOf

\* A suppressed event counts for no occurrence and for the silence.
LEMMA SuppressedCycle ==
    ASSUME NEW t \in Nat, NEW b \in Cycle \cup {Never}, NEW c \in Cycle, Touched(b, c, 0, t),
           NEW A, NEW L, \A i \in A : L[i].at \in Nat /\ L[i].at <= t,
           CycleOf(b, A, L, t)
    PROVE  CycleOf(c, A, L, t)
<1>1. /\ EpisodeGap \in Nat /\ c # Never
      /\ c.first \in Nat /\ c.last \in Nat /\ c.occurrences \in Nat
  BY TimeAssumption, NeverAssumption DEF TimeAssumption, NeverAssumption, Cycle
<1>2. CASE b # Never /\ c.first = b.first /\ c.occurrences = b.occurrences + 0
  <2>1. b.first \in Nat /\ b.last \in Nat /\ b.occurrences \in Nat
    BY <1>2 DEF Cycle
  <2>2. c.first <= c.last /\ c.last <= t /\ c.occurrences = b.occurrences
    BY <1>1, <1>2, <2>1 DEF CycleOf, Touched
  <2>3. b.occurrences = Cardinality({i \in A : L[i].at >= b.first})
    BY <1>2 DEF CycleOf
  <2> QED
    BY <1>1, <1>2, <2>2, <2>3 DEF CycleOf, Touched
<1>3. CASE (b # Never => t - b.last > EpisodeGap) /\ c.first = t /\ c.occurrences = 0
  <2>1. ASSUME NEW i \in A PROVE t - L[i].at > EpisodeGap
    <3>1. b # Never /\ b.last >= L[i].at
      BY DEF CycleOf
    <3>2. b.last \in Nat
      BY <3>1 DEF Cycle
    <3> QED
      BY <1>1, <1>3, <3>1, <3>2
  <2>2. {i \in A : L[i].at >= c.first} = {}
    <3> SUFFICES ASSUME NEW i \in A, L[i].at >= c.first PROVE FALSE
      OBVIOUS
    <3>1. PICK x \in Nat : x = L[i].at
      OBVIOUS
    <3>2. t - x > EpisodeGap /\ x >= t
      BY <1>3, <2>1, <3>1
    <3> QED
      BY <1>1, <3>2
  <2>3. Cardinality({i \in A : L[i].at >= c.first}) = 0
    BY <2>2, FS_EmptySet
  <2>4. c.last = t /\ c.first = t
    BY <1>3 DEF Touched
  <2> QED
    BY <1>1, <1>3, <2>1, <2>3, <2>4 DEF CycleOf
<1> QED
  BY <1>2, <1>3 DEF Touched

\* An alert counts, and its episode is the one of the lifecycle.
LEMMA AlertedCycle ==
    ASSUME NEW t \in Nat, NEW b \in Cycle \cup {Never}, NEW c \in Cycle, Touched(b, c, 1, t),
           NEW n \in Nat, NEW A \in SUBSET (1..n), NEW L, NEW p, p = n + 1, NEW M,
           \A i \in A : M[i] = L[i] /\ L[i].at \in Nat /\ L[i].at <= t,
           M[p].at = t, M[p].episode = c.first,
           CycleOf(b, A, L, t)
    PROVE  CycleOf(c, A \cup {p}, M, t)
<1> DEFINE S == {i \in A : L[i].at >= c.first}
           T == {i \in A \cup {p} : M[i].at >= c.first}
<1>1. /\ EpisodeGap \in Nat /\ c # Never
      /\ c.first \in Nat /\ c.last \in Nat /\ c.occurrences \in Nat /\ c.last = t
  BY TimeAssumption, NeverAssumption DEF TimeAssumption, NeverAssumption, Cycle, Touched
<1>2. p \in Nat /\ p \notin A /\ \A i \in A : i \in Nat /\ i < p
  OBVIOUS
<1>3. IsFiniteSet(S) /\ Cardinality(S) \in Nat /\ p \notin S
  <2>1. S \in SUBSET (1..n)
    OBVIOUS
  <2> QED
    BY <1>2, <2>1, Positions
<1>4. ASSUME c.first <= t PROVE T = S \cup {p}
  BY <1>1, <1>2, <1>4
<1>5. Cardinality(S \cup {p}) = Cardinality(S) + 1
  BY <1>3, OneMore
\* What the earlier alerts have to do with the new one.
<1>6. /\ c.first <= t /\ c.occurrences = Cardinality(S) + 1
      /\ \A i \in A : \/ L[i].episode = c.first
                      \/ c.first - L[i].at > EpisodeGap
  <2>1. CASE b # Never /\ c.first = b.first /\ c.occurrences = b.occurrences + 1
    <3>1. b.first \in Nat /\ b.last \in Nat /\ b.occurrences \in Nat
      BY <2>1 DEF Cycle
    <3>2. b.first <= b.last /\ b.last <= t /\ b.occurrences = Cardinality(S)
      BY <2>1 DEF CycleOf
    <3>3. \A i \in A : L[i].episode = c.first \/ c.first - L[i].at > EpisodeGap
      BY <2>1 DEF CycleOf
    <3> QED
      BY <1>1, <2>1, <3>1, <3>2, <3>3
  <2>2. CASE (b # Never => t - b.last > EpisodeGap) /\ c.first = t /\ c.occurrences = 1
    <3>1. ASSUME NEW i \in A PROVE t - L[i].at > EpisodeGap
      <4>1. b # Never /\ b.last >= L[i].at
        BY DEF CycleOf
      <4>2. b.last \in Nat
        BY <4>1 DEF Cycle
      <4> QED
        BY <1>1, <2>2, <4>1, <4>2
    <3>2. S = {}
      <4> SUFFICES ASSUME NEW i \in A, L[i].at >= c.first PROVE FALSE
        OBVIOUS
      <4>1. PICK x \in Nat : x = L[i].at
        OBVIOUS
      <4>2. t - x > EpisodeGap /\ x >= t
        BY <2>2, <3>1, <4>1
      <4> QED
        BY <1>1, <4>2
    <3>3. Cardinality(S) = 0
      BY <3>2, FS_EmptySet
    <3> HIDE DEF S
    <3> QED
      BY <1>1, <2>2, <3>1, <3>3
  <2> QED
    BY <2>1, <2>2 DEF Touched
<1>7. c.occurrences = Cardinality(T)
  BY <1>4, <1>5, <1>6
<1> HIDE DEF S, T
<1>8. \A i \in A : /\ c.last >= L[i].at
                   /\ \/ L[i].episode = c.first
                      \/ t - L[i].at > EpisodeGap /\ c.first > L[i].at
  <2>1. \A x \in Nat : x <= t =>
          c.last >= x /\ (c.first - x > EpisodeGap => (t - x > EpisodeGap /\ c.first > x))
    BY <1>1, <1>6
  <2> TAKE i \in A
  <2>2. PICK x \in Nat : x = L[i].at /\ x <= t
    OBVIOUS
  <2>3. c.last >= x /\ (L[i].episode = c.first \/ (t - x > EpisodeGap /\ c.first > x))
    BY <1>6, <2>1, <2>2
  <2> QED
    BY <2>2, <2>3
<1>9. \A i \in A \cup {p} : /\ c.last >= M[i].at
                            /\ M[i].episode = c.first \/ c.first - M[i].at > EpisodeGap
  <2> TAKE i \in A \cup {p}
  <2>1. CASE i \in A
    <3>1. M[i] = L[i] /\ c.last >= L[i].at
      BY <1>8, <2>1
    <3>2. L[i].episode = c.first \/ c.first - L[i].at > EpisodeGap
      BY <1>6, <2>1
    <3> QED
      BY <3>1, <3>2
  <2>2. CASE i = p
    BY <1>1, <2>2
  <2> QED
    BY <2>1, <2>2
<1>10. \A i, j \in A \cup {p} :
         i < j => \/ M[i].episode = M[j].episode
                  \/ M[j].at - M[i].at > EpisodeGap /\ M[j].episode > M[i].at
  <2> TAKE i, j \in A \cup {p}
  <2> HAVE i < j
  <2>1. i \in A
    BY <1>2
  <2>2. CASE j \in A
    BY <2>1, <2>2 DEF CycleOf
  <2>3. CASE j = p
    BY <1>8, <2>1, <2>3
  <2> QED
    BY <2>2, <2>3
<1> QED
  BY <1>1, <1>6, <1>7, <1>9, <1>10 DEF CycleOf, T

\* An event touches one lifecycle; it is an alert exactly when the log grows by
\* an alert of its signature.
LEMMA CycleSteps ==
    ASSUME DispatcherTypeOK, [NextDispatcher]_dispatcher
    PROVE  \/ /\ lifecycle' = lifecycle
              /\ \A s \in Signatures : AlertsOf(s)' = AlertsOf(s)
           \/ \E s \in Signatures, c \in Cycle :
                /\ UNCHANGED <<log, now>>
                /\ lifecycle' = [lifecycle EXCEPT ![s] = c] /\ Touched(lifecycle[s], c, 0, now)
           \/ \E e \in LogEntries, c \in Cycle :
                /\ UNCHANGED now
                /\ log' = Append(log, e) /\ e.what = "alert" /\ e.at = now /\ e.sig \in Signatures
                /\ e.episode = c.first
                /\ lifecycle' = [lifecycle EXCEPT ![e.sig] = c] /\ Touched(lifecycle[e.sig], c, 1, now)
<1>1. log \in Seq(LogEntries)
  BY DEF DispatcherTypeOK
<1>2. CASE UNCHANGED <<log, lifecycle>>
  BY <1>2 DEF AlertsOf, Alerts
<1>3. ASSUME NEW e \in LogEntries, log' = Append(log, e), e.what # "alert"
      PROVE  \A s \in Signatures : AlertsOf(s)' = AlertsOf(s)
  BY <1>1, <1>3, AlertsGrow
<1>4. ASSUME NEW what \in {"dismiss", "reset", "mute", "unmute"}, NEW s \in Signatures \cup {NoSig},
             log' = Append(log, Request(what, s)), UNCHANGED lifecycle
      PROVE  lifecycle' = lifecycle /\ \A r \in Signatures : AlertsOf(r)' = AlertsOf(r)
  <2>1. PICK e \in LogEntries : e.what = what /\ log' = Append(log, e)
    BY <1>4, RequestEntry
  <2>2. e.what # "alert"
    BY <2>1
  <2> QED
    BY <1>3, <1>4, <2>1, <2>2
<1>5. ASSUME NEW k \in Kinds, Suppress(k), ~IsMuted(k)
      PROVE  \E s \in Signatures, c \in Cycle :
               /\ UNCHANGED <<log, now>>
               /\ lifecycle' = [lifecycle EXCEPT ![s] = c] /\ Touched(lifecycle[s], c, 0, now)
  <2>1. k.sig \in Signatures /\ Touch(k.sig, TRUE) /\ UNCHANGED <<log, now>>
    BY <1>5 DEF Suppress, Kinds
  <2>2. PICK c \in Cycle :
          /\ lifecycle' = [lifecycle EXCEPT ![k.sig] = c]
          /\ c.last = now
          /\ \/ lifecycle[k.sig] # Never /\ c.first = lifecycle[k.sig].first
                /\ c.occurrences = lifecycle[k.sig].occurrences + 0
             \/ (lifecycle[k.sig] # Never => now - lifecycle[k.sig].last > EpisodeGap)
                /\ c.first = now /\ c.occurrences = 0
    BY <2>1, TouchCycle
  <2> QED
    BY <2>1, <2>2 DEF Touched
<1>6. ASSUME NEW k \in Kinds, Suppress(k), IsMuted(k) PROVE UNCHANGED <<log, lifecycle>>
  BY <1>6 DEF Suppress
<1>7. ASSUME NEW k \in Kinds, Dispatch(k)
      PROVE  \E e \in LogEntries, c \in Cycle :
               /\ UNCHANGED now
               /\ log' = Append(log, e) /\ e.what = "alert" /\ e.at = now /\ e.sig \in Signatures
               /\ e.episode = c.first
               /\ lifecycle' = [lifecycle EXCEPT ![e.sig] = c] /\ Touched(lifecycle[e.sig], c, 1, now)
  <2>1. k.sig \in Signatures /\ UNCHANGED now
    BY <1>7 DEF Dispatch, Kinds
  <2> QED
    BY <1>7, <2>1, DispatchEntry DEF Touched
<1>8. CASE Dismiss \/ ResetGating
  BY <1>4, <1>8 DEF Dismiss, ResetGating, perSig
<1>9. ASSUME NEW s \in Signatures, SetMuted(s) \/ ClearMuted(s)
      PROVE  lifecycle' = lifecycle /\ \A r \in Signatures : AlertsOf(r)' = AlertsOf(r)
  BY <1>4, <1>9 DEF SetMuted, ClearMuted, perSig
<1>10. ASSUME NEW k \in Kinds, Decline(k) PROVE UNCHANGED <<log, lifecycle>>
  BY <1>10 DEF Decline, perSig
<1>11. CASE Tick \/ UNCHANGED dispatcher
  BY <1>2, <1>11 DEF Tick, dispatcher, perSig
<1> QED
  BY <1>2, <1>5, <1>6, <1>7, <1>8, <1>9, <1>10, <1>11 DEF NextDispatcher, Operator

LEMMA EpisodesStep ==
    /\ DispatcherTypeOK /\ TimesPast /\ LastEpisode /\ EpisodesSound
    /\ [NextDispatcher]_dispatcher
    => LastEpisode' /\ EpisodesSound'
<1> SUFFICES ASSUME DispatcherTypeOK, TimesPast, LastEpisode, EpisodesSound, [NextDispatcher]_dispatcher
             PROVE  LastEpisode' /\ EpisodesSound'
  OBVIOUS
<1>0. (\A s \in Signatures : CycleOf(lifecycle'[s], AlertsOf(s)', log', now'))
        => LastEpisode' /\ EpisodesSound'
  BY DEF LastEpisode, EpisodeOf, EpisodesSound, OccurrencesCount, CycleOf
<1>1. /\ now \in Nat /\ now' \in Nat /\ now <= now' /\ log \in Seq(LogEntries)
      /\ lifecycle \in [Signatures -> Cycle \cup {Never}]
  BY ClockStep DEF DispatcherTypeOK, Cycle
<1>2. \A s \in Signatures : CycleOf(lifecycle[s], AlertsOf(s), log, now)
  BY CyclesOf
<1>3. \A s \in Signatures : \A i \in AlertsOf(s) : log[i].at \in Nat /\ log[i].at <= now
  <2>1. \A e \in LogEntries : e.at \in Nat
    BY DEF LogEntries
  <2> QED
    BY <1>1, <2>1 DEF AlertsOf, Alerts, TimesPast
<1>4. ASSUME NEW s \in Signatures, lifecycle'[s] = lifecycle[s], AlertsOf(s)' = AlertsOf(s),
             \A i \in AlertsOf(s) : log'[i] = log[i]
      PROVE  CycleOf(lifecycle'[s], AlertsOf(s)', log', now')
  <2>1. CycleOf(lifecycle[s], AlertsOf(s), log, now)
    BY <1>2
  <2>2. lifecycle[s] # Never => lifecycle[s].last \in Nat
    BY <1>1 DEF Cycle
  <2>3. lifecycle[s] # Never => lifecycle[s].last <= now'
    BY <1>1, <2>1, <2>2 DEF CycleOf
  <2>4. \A k : {i \in AlertsOf(s) : log'[i].at >= k} = {i \in AlertsOf(s) : log[i].at >= k}
    BY <1>4
  <2> QED
    BY <1>4, <2>1, <2>3, <2>4 DEF CycleOf
<1>5. \A s \in Signatures : \A i \in AlertsOf(s) : log'[i] = log[i]
  BY <1>1, LogStep, LogGrows DEF AlertsOf, Alerts
<1>6. CASE /\ lifecycle' = lifecycle
           /\ \A s \in Signatures : AlertsOf(s)' = AlertsOf(s)
  <2>1. \A s \in Signatures : CycleOf(lifecycle'[s], AlertsOf(s)', log', now')
    BY <1>4, <1>5, <1>6
  <2> QED
    BY <1>0, <2>1
<1>7. ASSUME NEW r \in Signatures, NEW c \in Cycle, UNCHANGED <<log, now>>,
             lifecycle' = [lifecycle EXCEPT ![r] = c], Touched(lifecycle[r], c, 0, now)
      PROVE  \A s \in Signatures : CycleOf(lifecycle'[s], AlertsOf(s)', log', now')
  <2> TAKE s \in Signatures
  <2>1. AlertsOf(s)' = AlertsOf(s)
    BY <1>7 DEF AlertsOf, Alerts
  <2>2. CASE s = r
    <3>1. CycleOf(c, AlertsOf(s), log, now)
      BY <1>1, <1>2, <1>3, <1>7, <2>2, SuppressedCycle
    <3>2. lifecycle'[s] = c
      BY <1>1, <1>7, <2>2
    <3> QED
      BY <1>7, <2>1, <3>1, <3>2
  <2>3. CASE s # r
    <3>1. lifecycle'[s] = lifecycle[s]
      BY <1>1, <1>7, <2>3
    <3> QED
      BY <1>2, <1>7, <2>1, <3>1
  <2> QED
    BY <2>2, <2>3
<1>8. ASSUME NEW e \in LogEntries, NEW c \in Cycle, UNCHANGED now, log' = Append(log, e),
             e.what = "alert", e.at = now, e.sig \in Signatures, e.episode = c.first,
             lifecycle' = [lifecycle EXCEPT ![e.sig] = c], Touched(lifecycle[e.sig], c, 1, now)
      PROVE  \A s \in Signatures : CycleOf(lifecycle'[s], AlertsOf(s)', log', now')
  <2> TAKE s \in Signatures
  <2>1. AlertsOf(s)' = AlertsOf(s) \cup (IF e.sig = s THEN {Len(log) + 1} ELSE {})
    BY <1>1, <1>8, AlertsGrow
  <2>2. CASE s = e.sig
    <3>1. lifecycle'[s] = c /\ AlertsOf(s)' = AlertsOf(s) \cup {Len(log) + 1}
      BY <1>1, <1>8, <2>1, <2>2
    <3>2. Len(log) \in Nat /\ log'[Len(log) + 1] = e /\ AlertsOf(s) \in SUBSET (1..Len(log))
      BY <1>1, <1>8, LogGrows DEF AlertsOf, Alerts
    <3>3. /\ CycleOf(lifecycle[s], AlertsOf(s), log, now) /\ Touched(lifecycle[s], c, 1, now)
          /\ \A i \in AlertsOf(s) : log'[i] = log[i] /\ log[i].at \in Nat /\ log[i].at <= now
          /\ lifecycle[s] \in Cycle \cup {Never}
      BY <1>1, <1>2, <1>3, <1>5, <1>8, <2>2
    <3>4. log'[Len(log) + 1].at = now /\ log'[Len(log) + 1].episode = c.first
      BY <1>8, <3>2
    <3>5. CycleOf(c, AlertsOf(s) \cup {Len(log) + 1}, log', now)
      BY <1>1, <3>2, <3>3, <3>4, AlertedCycle
    <3> QED
      BY <1>8, <3>1, <3>5
  <2>3. CASE s # e.sig
    <3>1. lifecycle'[s] = lifecycle[s] /\ AlertsOf(s)' = AlertsOf(s)
      BY <1>1, <1>8, <2>1, <2>3
    <3> QED
      BY <1>4, <1>5, <3>1
  <2> QED
    BY <2>2, <2>3
<1>9. \A s \in Signatures : CycleOf(lifecycle'[s], AlertsOf(s)', log', now')
  BY <1>4, <1>5, <1>7, <1>8, CycleSteps
<1> QED
  BY <1>0, <1>9

----------------------------------------------------------------------------
(* The dispatcher                                                          *)

LEMMA GatesStep == Gates /\ [NextDispatcher]_dispatcher => Gates'
<1> SUFFICES ASSUME Gates, [NextDispatcher]_dispatcher PROVE Gates'
  OBVIOUS
<1>1. DispatcherTypeOK' /\ TimesPast'
  BY TypeGatesStep, TimesPastStep DEF Gates
<1>2. RecentCounts' /\ WindowCounts'
  BY CountsStep DEF Gates, Tables, AlertRate, WindowCounts
<1>3. SinceReset' /\ SinceUnmute' /\ LastShown'
  BY SinceResetStep, SinceUnmuteStep, LastShownStep DEF Gates, Tables
<1>4. AlertsSpaced' /\ QuietAfterDismiss'
  BY ResetStep DEF Gates, Tables, AlertRate
<1>5. MutedPatternsQuiet' /\ NoRepeat'
  BY MuteStep, RepeatStep DEF Gates, Tables
<1>6. LastEpisode' /\ EpisodesSound'
  BY EpisodesStep DEF Gates, Tables
<1>7. AlertRate'
  BY <1>2, <1>4 DEF AlertRate, WindowCounts
<1> QED
  BY <1>1, <1>2, <1>3, <1>4, <1>5, <1>6, <1>7 DEF Gates, Tables

\* Whatever is dispatched, dismissed, muted and reset, in whatever order, the
\* dispatcher's tables stand for the part of the log that its gates ask about.
THEOREM GatesInvariance == SpecDispatcher => []Gates
<1>1. InitDispatcher => Gates
  BY GatesInit
<1>2. Gates /\ [NextDispatcher]_dispatcher => Gates'
  BY GatesStep
<1> QED
  BY <1>1, <1>2, PTL DEF SpecDispatcher

\* The dispatcher's tables have their shapes in every reachable state.
THEOREM DispatcherTypeCorrect == SpecDispatcher => []DispatcherTypeOK
<1>1. Gates => DispatcherTypeOK
  BY DEF Gates
<1> QED
  BY <1>1, GatesInvariance, PTL

\* No minute holds more alerts than max_alerts_per_minute, and two of them are
\* min_interval_seconds apart or a reset is between them.
THEOREM RateHolds == SpecDispatcher => []AlertRate
<1>1. Gates => AlertRate
  BY DEF Gates
<1> QED
  BY <1>1, GatesInvariance, PTL

\* No alert comes in the cooldown after a dismissal.
THEOREM DismissalHolds == SpecDispatcher => []QuietAfterDismiss
<1>1. Gates => QuietAfterDismiss
  BY DEF Gates
<1> QED
  BY <1>1, GatesInvariance, PTL

\* An alert never repeats the one its signature showed within the window.
THEOREM RepeatsSuppressed == SpecDispatcher => []NoRepeat
<1>1. Gates => NoRepeat
  BY DEF Gates
<1> QED
  BY <1>1, GatesInvariance, PTL

\* A muted signature made from pattern keys raises no alert until it is unmuted.
THEOREM MutesHold == SpecDispatcher => []MutedPatternsQuiet
<1>1. Gates => MutedPatternsQuiet
  BY DEF Gates
<1> QED
  BY <1>1, GatesInvariance, PTL

\* Alerts share an episode id exactly as the silence between them says, and a
\* card counts the alerts of its episode.
THEOREM EpisodesHold == SpecDispatcher => []EpisodesSound
<1>1. Gates => EpisodesSound
  BY DEF Gates
<1> QED
  BY <1>1, GatesInvariance, PTL

----------------------------------------------------------------------------
(* The pipeline                                                            *)

Messages == [event : Events, what : {"alert", "scored", "explanation"}]

\* A stored event has a kind, so that the dispatcher can decide about it.
KindKnown == \A e \in Events : pc[e] = "stored" => kind[e] \in Kinds

PipelineInv == PipelineTypeOK /\ KindKnown

\* What the dispatcher does in a step of the pipeline.
LEMMA PipelineSteps ==
    ASSUME PipelineInv, [NextPipeline]_pipeline
    PROVE  [NextDispatcher]_dispatcher
<1>1. ASSUME NEW e \in Events, pc[e] = "stored",
             Decline(kind[e]) \/ Suppress(kind[e]) \/ Dispatch(kind[e])
      PROVE  NextDispatcher
  <2>1. kind[e] \in Kinds
    BY <1>1 DEF PipelineInv, KindKnown
  <2> QED
    BY <1>1, <2>1 DEF NextDispatcher
<1>2. ASSUME NEW e \in Events, Proceed(e) PROVE [NextDispatcher]_dispatcher
  BY <1>1, <1>2 DEF Proceed, CardOnly, SuppressedAlert, DispatchedAlert, RetrievalFails, Linked
<1>3. ASSUME NEW e \in Events, Ignore(e) \/ Finish(e) \/ (\E k \in Kinds : Store(e, k))
      PROVE  UNCHANGED dispatcher
  BY <1>3 DEF Ignore, Finish, Explain, ExplainFails, Store
<1>4. CASE Operator \/ Tick
  BY <1>4 DEF NextDispatcher
<1>5. CASE Receive \/ Reconnect \/ UNCHANGED pipeline
  BY <1>5 DEF Receive, Reconnect, pipeline
<1> QED
  BY <1>2, <1>3, <1>4, <1>5 DEF NextPipeline

\* A broadcast keeps the mailbox within its size.
LEMMA BroadcastType ==
    ASSUME PipelineTypeOK, NEW e \in Events, NEW what \in {"alert", "scored", "explanation"},
           Broadcast(e, what)
    PROVE  mailbox' \in Seq(Messages) /\ Len(mailbox') <= QueueSize /\ dropped' \subseteq Events
<1>1. mailbox \in Seq(Messages) /\ QueueSize \in Nat /\ Len(mailbox) <= QueueSize /\ dropped \subseteq Events
  BY QueueAssumption DEF PipelineTypeOK, QueueAssumption, Messages
<1>2. CASE Len(mailbox) < QueueSize
  <2>1. mailbox' = Append(mailbox, [event |-> e, what |-> what]) /\ dropped' = dropped
    BY <1>2 DEF Broadcast
  <2>2. [event |-> e, what |-> what] \in Messages
    BY DEF Messages
  <2> QED
    BY <1>1, <1>2, <2>1, <2>2, AppendProperties
<1>3. CASE ~(Len(mailbox) < QueueSize)
  BY <1>1, <1>3 DEF Broadcast
<1> QED
  BY <1>2, <1>3

LEMMA ShowCardType ==
    ASSUME PipelineTypeOK, NEW e \in Events, NEW what \in {"alert", "scored"}, ShowCard(e, what)
    PROVE  /\ mailbox' \in Seq(Messages) /\ Len(mailbox') <= QueueSize /\ dropped' \subseteq Events
           /\ shown' \in [Events -> SUBSET {"alert", "scored"}]
<1>1. mailbox' \in Seq(Messages) /\ Len(mailbox') <= QueueSize /\ dropped' \subseteq Events
  BY BroadcastType DEF ShowCard
<1>2. shown' = [shown EXCEPT ![e] = shown[e] \cup {what}] /\ shown[e] \in SUBSET {"alert", "scored"}
  BY DEF ShowCard, PipelineTypeOK
<1>3. shown' \in [Events -> SUBSET {"alert", "scored"}]
  BY <1>2 DEF PipelineTypeOK
<1> QED
  BY <1>1, <1>3

\* An event that leaves has no kind any more.
LEMMA LeaveType ==
    ASSUME PipelineInv, NEW e \in Events, NEW label \in PCs, label # "stored", Leave(e, label)
    PROVE  /\ pc' \in [Events -> PCs] /\ kind' \in [Events -> Kinds \cup {NoEvent}]
           /\ KindKnown'
<1>1. pc \in [Events -> PCs] /\ kind \in [Events -> Kinds \cup {NoEvent}] /\ KindKnown
  BY DEF PipelineInv, PipelineTypeOK
<1>2. pc' \in [Events -> PCs] /\ kind' \in [Events -> Kinds \cup {NoEvent}]
  BY <1>1 DEF Leave
<1>3. KindKnown'
  BY <1>1 DEF Leave, KindKnown
<1> QED
  BY <1>2, <1>3

\* A card, and an explanation, of the event e at a place in the messages mb.
CardIn(mb, e, j)        == mb[j].event = e /\ mb[j].what # "explanation"
ExplanationIn(mb, e, i) == mb[i].event = e /\ mb[i].what = "explanation"

\* The card of e is shown or on its way; and when the task of an alert has sent
\* the explanation, that is shown too, or on its way behind the card.
Behind(e, mb, C, X, sh, tk) ==
    /\ sh # {} => e \in C \/ \E j \in DOMAIN mb : CardIn(mb, e, j)
    /\ "alert" \in sh /\ tk = "sent" =>
         \/ e \in X
         \/ \E i \in DOMAIN mb : /\ ExplanationIn(mb, e, i)
                                 /\ e \in C \/ \E j \in 1..(i - 1) : CardIn(mb, e, j)

\* What AlertExplained needs of every state: no explanation is in front of the
\* card it belongs to, for every event whose messages were not lost.
CardFirst ==
    \A e \in Events \ dropped : Behind(e, mailbox, cards, explained, shown[e], task[e])

\* One message more at the end.
LEMMA Queued ==
    ASSUME NEW mb \in Seq(Messages), NEW m \in Messages
    PROVE  /\ Len(mb) \in Nat /\ DOMAIN mb = 1..Len(mb)
           /\ DOMAIN Append(mb, m) = 1..(Len(mb) + 1)
           /\ \A i \in 1..Len(mb) : Append(mb, m)[i] = mb[i]
           /\ Append(mb, m)[Len(mb) + 1] = m
  BY AppendProperties

LEMMA BehindQueued ==
    ASSUME NEW mb \in Seq(Messages), NEW m \in Messages, NEW e, NEW C, NEW X, NEW sh, NEW tk,
           Behind(e, mb, C, X, sh, tk)
    PROVE  Behind(e, Append(mb, m), C, X, sh, tk)
<1> DEFINE n == Len(mb)
           mb2 == Append(mb, m)
<1>1. /\ n \in Nat /\ DOMAIN mb = 1..n /\ DOMAIN mb2 = 1..(n + 1)
      /\ \A i \in 1..n : mb2[i] = mb[i]
  BY Queued
<1> HIDE DEF n, mb2
<1>2. \A i \in 1..n : i \in DOMAIN mb2 /\ \A j \in 1..(i - 1) : j \in 1..n
  BY <1>1
<1>3. \A j \in 1..n : /\ CardIn(mb, e, j) => CardIn(mb2, e, j)
                      /\ ExplanationIn(mb, e, j) => ExplanationIn(mb2, e, j)
  BY <1>1 DEF CardIn, ExplanationIn
<1>4. ASSUME NEW i \in 1..n, ExplanationIn(mb, e, i), e \in C \/ \E j \in 1..(i - 1) : CardIn(mb, e, j)
      PROVE  /\ i \in DOMAIN mb2 /\ ExplanationIn(mb2, e, i)
             /\ e \in C \/ \E j \in 1..(i - 1) : CardIn(mb2, e, j)
  <2>1. i \in DOMAIN mb2 /\ ExplanationIn(mb2, e, i)
    BY <1>2, <1>3, <1>4
  <2>2. \A j \in 1..(i - 1) : CardIn(mb, e, j) => CardIn(mb2, e, j)
    BY <1>2, <1>3
  <2> QED
    BY <1>4, <2>1, <2>2
<1>5. sh # {} => e \in C \/ \E j \in DOMAIN mb2 : CardIn(mb2, e, j)
  BY <1>1, <1>2, <1>3 DEF Behind
<1>6. Behind(e, mb2, C, X, sh, tk)
  BY <1>1, <1>4, <1>5 DEF Behind
<1> QED
  BY <1>6 DEF mb2

LEMMA BehindCard ==
    ASSUME NEW mb \in Seq(Messages), NEW m \in Messages, NEW e, NEW C, NEW X, NEW sh, NEW tk,
           m.event = e, m.what # "explanation", NEW sh2, NEW tk2,
           "alert" \in sh2 /\ tk2 = "sent" => "alert" \in sh /\ tk = "sent",
           Behind(e, mb, C, X, sh, tk)
    PROVE  Behind(e, Append(mb, m), C, X, sh2, tk2)
<1>1. Behind(e, Append(mb, m), C, X, sh, tk)
  BY BehindQueued
<1>2. Len(mb) + 1 \in DOMAIN Append(mb, m) /\ CardIn(Append(mb, m), e, Len(mb) + 1)
  BY Queued DEF CardIn
<1> QED
  BY <1>1, <1>2 DEF Behind

LEMMA BehindExplained ==
    ASSUME NEW mb \in Seq(Messages), NEW m \in Messages, NEW e, NEW C, NEW X, NEW sh, NEW tk,
           ExplanationIn(<<m>>, e, 1), Behind(e, mb, C, X, sh, tk), NEW tk2
    PROVE  Behind(e, Append(mb, m), C, X, sh, tk2)
<1> DEFINE n == Len(mb) + 1
           mb2 == Append(mb, m)
<1>1. n \in DOMAIN mb2 /\ ExplanationIn(mb2, e, n)
  <2>1. m.event = e /\ m.what = "explanation"
    BY DEF ExplanationIn
  <2> QED
    BY <2>1, Queued DEF ExplanationIn
<1>2. \A j \in DOMAIN mb : j \in DOMAIN mb2 /\ j \in 1..(n - 1) /\ mb2[j] = mb[j]
  BY Queued
<1>3. \A j \in DOMAIN mb : CardIn(mb, e, j) => CardIn(mb2, e, j)
  BY <1>2 DEF CardIn
<1> HIDE DEF n, mb2
<1>4. Behind(e, mb2, C, X, sh, tk2)
  BY <1>1, <1>2, <1>3 DEF Behind
<1> QED
  BY <1>4 DEF mb2

\* The message in front is received.
LEMMA BehindReceived ==
    ASSUME NEW mb \in Seq(Messages), mb # <<>>, NEW e, NEW C, NEW X, NEW sh, NEW tk,
           NEW C2, NEW X2,
           IF mb[1].what = "explanation"
             THEN X2 = X \cup ({mb[1].event} \cap C) /\ C2 = C
             ELSE C2 = C \cup {mb[1].event} /\ X2 = X,
           Behind(e, mb, C, X, sh, tk)
    PROVE  Behind(e, Tail(mb), C2, X2, sh, tk)
<1> DEFINE n == Len(mb)
           rest == Tail(mb)
<1>1. /\ n \in Nat /\ n > 0 /\ DOMAIN mb = 1..n /\ DOMAIN rest = 1..(n - 1)
      /\ \A i \in 1..(n - 1) : rest[i] = mb[i + 1]
  BY EmptySeq, HeadTailProperties
<1> HIDE DEF n, rest
<1>2. \A i \in 2..n : i - 1 \in 1..(n - 1) /\ rest[i - 1] = mb[i]
  <2> TAKE i \in 2..n
  <2>1. i - 1 \in 1..(n - 1) /\ (i - 1) + 1 = i
    BY <1>1
  <2> QED
    BY <1>1, <2>1
<1>4. /\ CardIn(mb, e, 1) => e \in C2 /\ X2 = X
      /\ C \subseteq C2 /\ X \subseteq X2
      /\ ExplanationIn(mb, e, 1) /\ e \in C => e \in X2
  BY DEF CardIn, ExplanationIn
<1>5. sh # {} => e \in C2 \/ \E j \in DOMAIN rest : CardIn(rest, e, j)
  <2> SUFFICES ASSUME sh # {}, e \notin C2 PROVE \E j \in DOMAIN rest : CardIn(rest, e, j)
    OBVIOUS
  <2>1. PICK j \in 1..n : CardIn(mb, e, j)
    BY <1>1, <1>4 DEF Behind
  <2>2. j \in 2..n
    BY <1>1, <1>4, <2>1
  <2>3. j - 1 \in DOMAIN rest
    BY <1>1, <2>2
  <2>4. rest[j - 1] = mb[j]
    BY <1>2, <2>2
  <2>5. CardIn(rest, e, j - 1)
    BY <2>1, <2>4 DEF CardIn
  <2> QED
    BY <2>3, <2>5
<1>6. ASSUME "alert" \in sh, tk = "sent", e \notin X2
      PROVE  \E i \in DOMAIN rest : /\ ExplanationIn(rest, e, i)
                                    /\ e \in C2 \/ \E j \in 1..(i - 1) : CardIn(rest, e, j)
  <2>1. PICK i \in 1..n : /\ ExplanationIn(mb, e, i)
                          /\ e \in C \/ \E j \in 1..(i - 1) : CardIn(mb, e, j)
    BY <1>1, <1>4, <1>6 DEF Behind
  <2>2. i \in 2..n
    BY <1>1, <1>4, <1>6, <2>1
  <2>3. i - 1 \in DOMAIN rest /\ ExplanationIn(rest, e, i - 1)
    <3>1. i - 1 \in DOMAIN rest
      BY <1>1, <2>2
    <3>2. rest[i - 1] = mb[i]
      BY <1>2, <2>2
    <3> QED
      BY <2>1, <3>1, <3>2 DEF ExplanationIn
  <2>4. e \in C2 \/ \E j \in 1..((i - 1) - 1) : CardIn(rest, e, j)
    <3> SUFFICES ASSUME e \notin C2 PROVE \E j \in 1..((i - 1) - 1) : CardIn(rest, e, j)
      OBVIOUS
    <3>1. PICK j \in 1..(i - 1) : CardIn(mb, e, j)
      BY <1>4, <2>1
    <3>2. j \in 2..n /\ j - 1 \in 1..((i - 1) - 1)
      BY <1>1, <1>4, <2>2, <3>1
    <3>3. rest[j - 1] = mb[j]
      BY <1>2, <3>2
    <3>4. CardIn(rest, e, j - 1)
      BY <3>1, <3>3 DEF CardIn
    <3> QED
      BY <3>2, <3>4
  <2> QED
    BY <2>3, <2>4
<1>7. Behind(e, rest, C2, X2, sh, tk)
  BY <1>5, <1>6 DEF Behind
<1> QED
  BY <1>7 DEF rest

LEMMA PipelineInitially == InitPipeline => PipelineInv /\ CardFirst
<1> SUFFICES ASSUME InitPipeline PROVE PipelineInv /\ CardFirst
  OBVIOUS
<1>1. DispatcherTypeOK
  BY TypeGates DEF InitPipeline
<1>2. PipelineTypeOK
  BY <1>1, QueueAssumption DEF InitPipeline, PipelineTypeOK, QueueAssumption, PCs, Tasks
<1>3. KindKnown /\ CardFirst
  BY DEF InitPipeline, KindKnown, CardFirst, Behind
<1> QED
  BY <1>2, <1>3 DEF PipelineInv

LEMMA PipelineTypeStep == PipelineInv /\ [NextPipeline]_pipeline => PipelineInv'
<1> SUFFICES ASSUME PipelineInv, [NextPipeline]_pipeline PROVE PipelineInv'
  OBVIOUS
<1> USE DEF Messages
<1>1. DispatcherTypeOK'
  BY PipelineSteps, TypeGatesStep DEF PipelineInv, PipelineTypeOK
<1>2. PipelineTypeOK /\ KindKnown /\ QueueSize \in Nat
  BY QueueAssumption DEF PipelineInv, QueueAssumption
<1>3. ASSUME NEW e \in Events, NEW v \in Tasks, task' = [task EXCEPT ![e] = v]
      PROVE  task' \in [Events -> Tasks]
  BY <1>2, <1>3 DEF PipelineTypeOK
<1>4. ASSUME NEW e \in Events, Ignore(e) \/ CardOnly(e) PROVE PipelineInv'
  <2>1. Leave(e, "done") /\ ShowCard(e, "scored") /\ UNCHANGED <<task, client>>
    BY <1>4 DEF Ignore, CardOnly
  <2>2. /\ pc' \in [Events -> PCs] /\ kind' \in [Events -> Kinds \cup {NoEvent}] /\ KindKnown'
    BY <2>1, LeaveType DEF PCs
  <2>3. /\ mailbox' \in Seq(Messages) /\ Len(mailbox') <= QueueSize /\ dropped' \subseteq Events
        /\ shown' \in [Events -> SUBSET {"alert", "scored"}]
    BY <1>2, <2>1, ShowCardType
  <2> QED
    BY <1>1, <1>2, <2>1, <2>2, <2>3 DEF PipelineInv, PipelineTypeOK, client
<1>5. ASSUME NEW e \in Events, NEW k \in Kinds, Store(e, k) PROVE PipelineInv'
  BY <1>1, <1>2, <1>5 DEF Store, PipelineInv, PipelineTypeOK, KindKnown, client, PCs
<1>6. ASSUME NEW e \in Events, RetrievalFails(e) PROVE PipelineInv'
  <2>1. Leave(e, "failed") /\ UNCHANGED <<task, mailbox, client, shown, dropped>>
    BY <1>6 DEF RetrievalFails
  <2>2. /\ pc' \in [Events -> PCs] /\ kind' \in [Events -> Kinds \cup {NoEvent}] /\ KindKnown'
    BY <2>1, LeaveType DEF PCs
  <2> QED
    BY <1>1, <1>2, <2>1, <2>2 DEF PipelineInv, PipelineTypeOK, client
<1>7. ASSUME NEW e \in Events, SuppressedAlert(e) \/ DispatchedAlert(e) PROVE PipelineInv'
  <2>1. /\ task' = [task EXCEPT ![e] = "running"] /\ UNCHANGED client
        /\ \E label \in {"linking", "done"} : Leave(e, label)
        /\ NoCard \/ \E what \in {"alert", "scored"} : ShowCard(e, what)
    BY <1>7 DEF SuppressedAlert, DispatchedAlert
  <2>2. /\ pc' \in [Events -> PCs] /\ kind' \in [Events -> Kinds \cup {NoEvent}] /\ KindKnown'
    BY <2>1, LeaveType DEF PCs
  <2>3. /\ mailbox' \in Seq(Messages) /\ Len(mailbox') <= QueueSize /\ dropped' \subseteq Events
        /\ shown' \in [Events -> SUBSET {"alert", "scored"}]
    BY <1>2, <2>1, ShowCardType DEF NoCard, PipelineTypeOK
  <2>4. task' \in [Events -> Tasks]
    BY <1>3, <2>1 DEF Tasks
  <2> QED
    BY <1>1, <1>2, <2>1, <2>2, <2>3, <2>4 DEF PipelineInv, PipelineTypeOK, client
<1>8. ASSUME NEW e \in Events, Linked(e) PROVE PipelineInv'
  <2>1. Leave(e, "done") /\ (NoCard \/ ShowCard(e, "scored")) /\ UNCHANGED <<task, client>>
    BY <1>8 DEF Linked
  <2>2. /\ pc' \in [Events -> PCs] /\ kind' \in [Events -> Kinds \cup {NoEvent}] /\ KindKnown'
    BY <2>1, LeaveType DEF PCs
  <2>3. /\ mailbox' \in Seq(Messages) /\ Len(mailbox') <= QueueSize /\ dropped' \subseteq Events
        /\ shown' \in [Events -> SUBSET {"alert", "scored"}]
    BY <1>2, <2>1, ShowCardType DEF NoCard, PipelineTypeOK
  <2> QED
    BY <1>1, <1>2, <2>1, <2>2, <2>3 DEF PipelineInv, PipelineTypeOK, client
<1>9. ASSUME NEW e \in Events, Explain(e) PROVE PipelineInv'
  <2>1. mailbox' \in Seq(Messages) /\ Len(mailbox') <= QueueSize /\ dropped' \subseteq Events
    BY <1>2, <1>9, BroadcastType DEF Explain
  <2>2. task' \in [Events -> Tasks]
    BY <1>3, <1>9 DEF Explain, Tasks
  <2> QED
    BY <1>1, <1>2, <1>9, <2>1, <2>2 DEF Explain, PipelineInv, PipelineTypeOK, KindKnown, client
<1>10. ASSUME NEW e \in Events, ExplainFails(e) PROVE PipelineInv'
  <2>1. task' \in [Events -> Tasks]
    BY <1>3, <1>10 DEF ExplainFails, Tasks
  <2> QED
    BY <1>1, <1>2, <1>10, <2>1 DEF ExplainFails, PipelineInv, PipelineTypeOK, KindKnown, client
<1>11. CASE Receive
  <2>1. mailbox \in Seq(Messages) /\ mailbox # <<>> /\ Len(mailbox) <= QueueSize /\ Len(mailbox) \in Nat
    BY <1>2, <1>11 DEF Receive, PipelineTypeOK
  <2>2. /\ Tail(mailbox) \in Seq(Messages) /\ Len(Tail(mailbox)) <= QueueSize
        /\ Head(mailbox) \in Messages
    <3>1. /\ Tail(mailbox) \in Seq(Messages) /\ Head(mailbox) \in Messages
          /\ Len(Tail(mailbox)) = Len(mailbox) - 1
      BY <2>1, HeadTailProperties
    <3> QED
      BY <1>2, <2>1, <3>1
  <2>3. explained' \subseteq cards' /\ cards' \subseteq Events
    BY <1>2, <1>11, <2>2 DEF Receive, PipelineTypeOK
  <2> QED
    BY <1>1, <1>2, <1>11, <2>2, <2>3 DEF Receive, PipelineInv, PipelineTypeOK, KindKnown
<1>12. CASE Reconnect
  <2>1. \A i \in DOMAIN mailbox : mailbox[i].event \in Events
    <3>1. mailbox \in Seq(Messages)
      BY <1>2 DEF PipelineTypeOK
    <3>2. \A i \in DOMAIN mailbox : mailbox[i] \in Messages
      <4> HIDE DEF Messages
      <4> QED
        BY <3>1
    <3> QED
      BY <3>2
  <2>2. mailbox' \in Seq(Messages) /\ Len(mailbox') <= QueueSize /\ dropped' \subseteq Events
    BY <1>2, <1>12, <2>1 DEF Reconnect, PipelineTypeOK
  <2> QED
    BY <1>1, <1>2, <1>12, <2>2 DEF Reconnect, PipelineInv, PipelineTypeOK, KindKnown, client
<1>13. CASE UNCHANGED <<pc, kind, task, mailbox, client, shown, dropped>>
  BY <1>1, <1>2, <1>13 DEF PipelineInv, PipelineTypeOK, KindKnown, client
<1> QED
  BY <1>4, <1>5, <1>6, <1>7, <1>8, <1>9, <1>10, <1>11, <1>12, <1>13
     DEF NextPipeline, Proceed, Finish, pipeline

\* A broadcast leaves every event behind its card, or loses a message of it.
LEMMA BroadcastBehind ==
    ASSUME PipelineInv, CardFirst, NEW e \in Events, NEW what \in {"alert", "scored"},
           ShowCard(e, what), UNCHANGED client,
           \/ UNCHANGED task
           \/ task' = [task EXCEPT ![e] = "running"],
           what = "alert" => task' = [task EXCEPT ![e] = "running"]
    PROVE  CardFirst'
<1>1. /\ mailbox \in Seq(Messages) /\ task \in [Events -> Tasks]
      /\ shown \in [Events -> SUBSET {"alert", "scored"}]
  BY DEF PipelineInv, PipelineTypeOK, Messages
<1>2. Broadcast(e, what) /\ shown' = [shown EXCEPT ![e] = shown[e] \cup {what}]
  BY DEF ShowCard
<1>3. cards' = cards /\ explained' = explained
  BY DEF client
<1> SUFFICES ASSUME NEW f \in Events \ dropped'
             PROVE  Behind(f, mailbox', cards, explained, shown'[f], task'[f])
  BY <1>3 DEF CardFirst, Behind, CardIn, ExplanationIn
<1>4. CASE Len(mailbox) < QueueSize
  <2> DEFINE m == [event |-> e, what |-> what]
  <2>1. mailbox' = Append(mailbox, m) /\ dropped' = dropped
    BY <1>2, <1>4 DEF Broadcast
  <2>2. m \in Messages /\ m.event = e /\ m.what # "explanation"
    BY DEF Messages
  <2>3. Behind(f, mailbox, cards, explained, shown[f], task[f])
    BY <2>1 DEF CardFirst
  <2> HIDE DEF m
  <2>4. CASE f = e
    <3>1. "alert" \in shown'[f] /\ task'[f] = "sent" => "alert" \in shown[f] /\ task[f] = "sent"
      BY <1>1, <1>2, <2>4
    <3> QED
      BY <1>1, <2>1, <2>2, <2>3, <2>4, <3>1, BehindCard
  <2>5. CASE f # e
    <3>1. shown'[f] = shown[f] /\ task'[f] = task[f]
      BY <1>1, <1>2, <2>5
    <3> QED
      BY <1>1, <2>1, <2>2, <2>3, <3>1, BehindQueued
  <2> QED
    BY <2>4, <2>5
<1>5. CASE ~(Len(mailbox) < QueueSize)
  <2>1. mailbox' = mailbox /\ dropped' = dropped \cup {e}
    BY <1>2, <1>5 DEF Broadcast
  <2>2. f # e /\ f \in Events \ dropped
    BY <2>1
  <2>3. shown'[f] = shown[f] /\ task'[f] = task[f]
    BY <1>1, <1>2, <2>2
  <2> QED
    BY <2>1, <2>2, <2>3 DEF CardFirst
<1> QED
  BY <1>4, <1>5

\* Nothing is said of a task that has not sent its explanation.
LEMMA TaskBehind ==
    ASSUME PipelineInv, CardFirst, UNCHANGED <<mailbox, client, shown, dropped>>,
           NEW e \in Events, NEW v, v # "sent",
           UNCHANGED task \/ task' = [task EXCEPT ![e] = v]
    PROVE  CardFirst'
<1>1. task \in [Events -> Tasks]
  BY DEF PipelineInv, PipelineTypeOK
<1>2. \A f \in Events : task'[f] = "sent" => task[f] = "sent"
  BY <1>1
<1> QED
  BY <1>2 DEF CardFirst, Behind, CardIn, ExplanationIn, client

LEMMA ExplainBehind ==
    ASSUME PipelineInv, CardFirst, NEW e \in Events, Explain(e)
    PROVE  CardFirst'
<1>1. mailbox \in Seq(Messages) /\ task \in [Events -> Tasks]
  BY DEF PipelineInv, PipelineTypeOK, Messages
<1>2. /\ Broadcast(e, "explanation") /\ task' = [task EXCEPT ![e] = "sent"]
      /\ cards' = cards /\ explained' = explained /\ shown' = shown
  BY DEF Explain, client
<1> SUFFICES ASSUME NEW f \in Events \ dropped'
             PROVE  Behind(f, mailbox', cards, explained, shown[f], task'[f])
  BY <1>2 DEF CardFirst, Behind, CardIn, ExplanationIn
<1>3. CASE Len(mailbox) < QueueSize
  <2> DEFINE m == [event |-> e, what |-> "explanation"]
  <2>1. mailbox' = Append(mailbox, m) /\ dropped' = dropped
    BY <1>2, <1>3 DEF Broadcast
  <2>2. m \in Messages /\ ExplanationIn(<<m>>, e, 1)
    BY DEF Messages, ExplanationIn
  <2>3. Behind(f, mailbox, cards, explained, shown[f], task[f])
    BY <2>1 DEF CardFirst
  <2> HIDE DEF m
  <2>4. CASE f = e
    BY <1>1, <2>1, <2>2, <2>3, <2>4, BehindExplained
  <2>5. CASE f # e
    <3>1. task'[f] = task[f]
      BY <1>1, <1>2, <2>5
    <3> QED
      BY <1>1, <2>1, <2>2, <2>3, <3>1, BehindQueued
  <2> QED
    BY <2>4, <2>5
<1>4. CASE ~(Len(mailbox) < QueueSize)
  <2>1. mailbox' = mailbox /\ dropped' = dropped \cup {e}
    BY <1>2, <1>4 DEF Broadcast
  <2>2. f # e /\ f \in Events \ dropped
    BY <2>1
  <2>3. task'[f] = task[f]
    BY <1>1, <1>2, <2>2
  <2> QED
    BY <2>1, <2>2, <2>3 DEF CardFirst
<1> QED
  BY <1>3, <1>4

LEMMA ReceiveBehind ==
    ASSUME PipelineInv, CardFirst, Receive PROVE CardFirst'
<1>1. mailbox \in Seq(Messages) /\ mailbox # <<>> /\ Head(mailbox) = mailbox[1]
  BY DEF Receive, PipelineInv, PipelineTypeOK, Messages
<1>2. /\ mailbox' = Tail(mailbox) /\ UNCHANGED <<task, shown, dropped>>
      /\ IF mailbox[1].what = "explanation"
           THEN explained' = explained \cup ({mailbox[1].event} \cap cards) /\ cards' = cards
           ELSE cards' = cards \cup {mailbox[1].event} /\ explained' = explained
  BY <1>1 DEF Receive
<1>3. \A f \in Events \ dropped : Behind(f, mailbox, cards, explained, shown[f], task[f])
  BY DEF CardFirst
<1>4. \A f \in Events \ dropped : Behind(f, Tail(mailbox), cards', explained', shown[f], task[f])
  BY <1>1, <1>2, <1>3, BehindReceived
<1> QED
  BY <1>2, <1>4 DEF CardFirst, Behind, CardIn, ExplanationIn

LEMMA ReconnectBehind ==
    ASSUME PipelineInv, CardFirst, Reconnect PROVE CardFirst'
<1>1. /\ UNCHANGED <<task, cards, explained, shown>> /\ mailbox' = <<>>
      /\ dropped' = dropped \cup {mailbox[i].event : i \in DOMAIN mailbox}
  BY DEF Reconnect, client
<1>2. ASSUME NEW f \in Events \ dropped'
      PROVE  Behind(f, <<>>, cards, explained, shown[f], task[f])
  <2>1. Behind(f, mailbox, cards, explained, shown[f], task[f])
    BY <1>1 DEF CardFirst
  <2>2. \A i \in DOMAIN mailbox : ~CardIn(mailbox, f, i) /\ ~ExplanationIn(mailbox, f, i)
    BY <1>1 DEF CardIn, ExplanationIn
  <2> QED
    BY <2>1, <2>2 DEF Behind
<1> QED
  BY <1>1, <1>2 DEF CardFirst, Behind, CardIn, ExplanationIn

LEMMA CardFirstStep == PipelineInv /\ CardFirst /\ [NextPipeline]_pipeline => CardFirst'
<1> SUFFICES ASSUME PipelineInv, CardFirst, [NextPipeline]_pipeline PROVE CardFirst'
  OBVIOUS
<1>1. ASSUME NEW e \in Events, Ignore(e) \/ CardOnly(e) PROVE CardFirst'
  BY <1>1, BroadcastBehind DEF Ignore, CardOnly
<1>2. ASSUME NEW e \in Events, SuppressedAlert(e) PROVE CardFirst'
  <2>1. task' = [task EXCEPT ![e] = "running"] /\ UNCHANGED client /\ (NoCard \/ ShowCard(e, "scored"))
    BY <1>2 DEF SuppressedAlert
  <2>2. CASE NoCard
    BY <2>1, <2>2, TaskBehind DEF NoCard
  <2>3. CASE ShowCard(e, "scored")
    BY <2>1, <2>3, BroadcastBehind
  <2> QED
    BY <2>1, <2>2, <2>3
<1>3. ASSUME NEW e \in Events, DispatchedAlert(e) PROVE CardFirst'
  BY <1>3, BroadcastBehind DEF DispatchedAlert
<1>4. ASSUME NEW e \in Events, Linked(e) PROVE CardFirst'
  <2>1. UNCHANGED task /\ UNCHANGED client /\ (NoCard \/ ShowCard(e, "scored"))
    BY <1>4 DEF Linked
  <2>2. CASE NoCard
    BY <2>1, <2>2, TaskBehind DEF NoCard
  <2>3. CASE ShowCard(e, "scored")
    BY <2>1, <2>3, BroadcastBehind
  <2> QED
    BY <2>1, <2>2, <2>3
<1>5. ASSUME NEW e \in Events, RetrievalFails(e) \/ (\E k \in Kinds : Store(e, k)) PROVE CardFirst'
  BY <1>5 DEF RetrievalFails, Store, CardFirst, Behind, CardIn, ExplanationIn, client
<1>6. ASSUME NEW e \in Events, Explain(e) PROVE CardFirst'
  BY <1>6, ExplainBehind
<1>7. ASSUME NEW e \in Events, ExplainFails(e) PROVE CardFirst'
  BY <1>7, TaskBehind DEF ExplainFails
<1>8. CASE Receive \/ Reconnect
  BY <1>8, ReceiveBehind, ReconnectBehind
<1>9. CASE UNCHANGED <<pc, kind, task, mailbox, client, shown, dropped>>
  BY <1>9 DEF CardFirst, Behind, CardIn, ExplanationIn, client
<1> QED
  BY <1>1, <1>2, <1>3, <1>4, <1>5, <1>6, <1>7, <1>8, <1>9 DEF NextPipeline, Proceed, Finish, pipeline

\* In every reachable state the pipelines are where their tasks, marks and messages
\* say, and an explanation is behind its card in the mailbox.
THEOREM PipelineInvariance == SpecPipeline => [](PipelineInv /\ CardFirst)
<1>1. InitPipeline => PipelineInv /\ CardFirst
  BY PipelineInitially
<1>2. PipelineInv /\ CardFirst /\ [NextPipeline]_pipeline => (PipelineInv /\ CardFirst)'
  BY PipelineTypeStep, CardFirstStep
<1> QED
  BY <1>1, <1>2, PTL DEF SpecPipeline

\* The pipeline and its subscriber are well formed in every reachable state.
THEOREM PipelineTypeCorrect == SpecPipeline => []PipelineTypeOK
<1>1. PipelineInv => PipelineTypeOK
  BY DEF PipelineInv
<1> QED
  BY <1>1, PipelineInvariance, PTL

\* However the pipelines of several events, their explanations, the links and
\* the subscriber interleave, no explanation overtakes its card: with nothing
\* left in the mailbox, every alert whose task has sent its explanation shows it
\* unless a message of it was lost.
ExplainedWhenDrained ==
    mailbox = <<>> =>
        \A e \in Events \ dropped :
            "alert" \in shown[e] /\ task[e] = "sent" => e \in explained

\* What is sent is in order at every moment, and shown once the mailbox is empty: the
\* safety half of AlertExplained.
THEOREM ExplanationBehindCard == SpecPipeline => [](CardFirst /\ ExplainedWhenDrained)
<1>1. PipelineInv /\ CardFirst => ExplainedWhenDrained
  BY DEF CardFirst, Behind, ExplainedWhenDrained
<1> QED
  BY <1>1, PipelineInvariance, PTL

\* The pipeline of several events, which suspends at its awaits, is one of the
\* behaviours of the dispatcher: the gates hold for it whatever the pipelines of
\* other events, the operator and the subscriber do in between.
THEOREM PipelineImplementsDispatcher == SpecPipeline => SpecDispatcher
<1>1. InitPipeline => InitDispatcher
  BY DEF InitPipeline
<1>2. PipelineInv /\ [NextPipeline]_pipeline => [NextDispatcher]_dispatcher
  BY PipelineSteps
<1> QED
  BY <1>1, <1>2, PipelineInvariance, PTL DEF SpecPipeline, SpecDispatcher

\* So every gate holds in front of the cards of the pipeline.
COROLLARY PipelineGates == SpecPipeline => []Gates
  BY PipelineImplementsDispatcher, GatesInvariance, PTL

----------------------------------------------------------------------------
(* Feedback events                                                         *)

\* A finite set in some order: every member once.
LEMMA SeqOfSet ==
    ASSUME NEW S, IsFiniteSet(S)
    PROVE  /\ Cardinality(S) \in Nat
           /\ SetToSeq(S) \in Seq(S) /\ Len(SetToSeq(S)) = Cardinality(S)
           /\ \A i, j \in 1..Cardinality(S) : SetToSeq(S)[i] = SetToSeq(S)[j] => i = j
<1> DEFINE n == Cardinality(S)
           q == SetToSeq(S)
<1>1. n \in Nat
  BY FS_CardinalityType
<1>2. IsFiniteSet(1..n) /\ Cardinality(1..n) = n
  BY <1>1, FS_Interval
<1>3. ExistsBijection(1..n, S)
  BY <1>2, FS_SameCardinalityBij
<1>4. \E f \in [1..n -> S] : IsInjective(f)
  BY <1>3 DEF ExistsBijection, Bijection, Injection
<1>5. q \in [1..n -> S] /\ IsInjective(q)
  BY <1>4 DEF SetToSeq
<1> HIDE DEF q
<1>6. q \in Seq(S) /\ Len(q) = n
  BY <1>1, <1>5, IsASeq
<1>7. \A i, j \in 1..n : q[i] = q[j] => i = j
  BY <1>5 DEF IsInjective
<1> QED
  BY <1>1, <1>6, <1>7 DEF q

Event == [memory : Memories \cup {NoMemory}, act : Actions, keyed : BOOLEAN, life : Nat]

\* What a handler adds to the events: as many as it is about, one of each.
LEMMA MakeFacts ==
    ASSUME events \in Seq(Event), life \in Nat, NEW S \in SUBSET (Memories \cup {NoMemory}),
           IsFiniteSet(S), NEW act \in Actions, Make(S, act)
    PROVE  /\ Cardinality(S) \in Nat /\ Len(events) \in Nat
           /\ events' \in Seq(Event) /\ Len(events') = Len(events) + Cardinality(S)
           /\ \A i \in 1..Len(events) : events'[i] = events[i]
           /\ \A i \in (Len(events) + 1)..Len(events') :
                /\ events'[i].memory \in S /\ events'[i].act = act
                /\ events'[i].keyed = FALSE /\ events'[i].life = life
           /\ \A i, j \in (Len(events) + 1)..Len(events') :
                events'[i].memory = events'[j].memory => i = j
<1> DEFINE f == [m \in S |-> [memory |-> m, act |-> act, keyed |-> FALSE, life |-> life]]
           T == {[memory |-> m, act |-> act, keyed |-> FALSE, life |-> life] : m \in S}
           q == SetToSeq(T)
           c == Cardinality(S)
           n == Len(events)
<1>1. f \in Bijection(S, T)
  <2>1. f \in [S -> T] /\ \A a, b \in S : f[a] = f[b] => a = b
    OBVIOUS
  <2>2. \A t \in T : \E m \in S : f[m] = t
    OBVIOUS
  <2> QED
    BY <2>1, <2>2 DEF Bijection, Injection, Surjection, IsInjective
<1>2. IsFiniteSet(T) /\ Cardinality(T) = c
  BY <1>1, FS_Bijection DEF ExistsBijection
<1>3. /\ c \in Nat /\ q \in Seq(T) /\ Len(q) = c
      /\ \A i, j \in 1..c : q[i] = q[j] => i = j
  BY <1>2, SeqOfSet
<1>4. T \subseteq Event
  <2> SUFFICES ASSUME NEW t \in T PROVE t \in Event
    OBVIOUS
  <2> PICK m \in S : t = [memory |-> m, act |-> act, keyed |-> FALSE, life |-> life]
    OBVIOUS
  <2>1. m \in Memories \cup {NoMemory}
    OBVIOUS
  <2> QED
    BY <2>1 DEF Event
<1>5. \A t \in T : t.memory \in S /\ t.act = act /\ t.keyed = FALSE /\ t.life = life
  OBVIOUS
<1>6. ASSUME NEW s \in T, NEW t \in T, s.memory = t.memory
      PROVE  s = t
  <2> PICK a \in S : s = [memory |-> a, act |-> act, keyed |-> FALSE, life |-> life]
    OBVIOUS
  <2> PICK b \in S : t = [memory |-> b, act |-> act, keyed |-> FALSE, life |-> life]
    OBVIOUS
  <2>1. a = b
    BY <1>6
  <2> QED
    BY <2>1
<1>7. events' = events \o q /\ n \in Nat
  BY DEF Make
<1> HIDE DEF T, q, c, f, n
<1>8. q \in Seq(Event)
  BY <1>3, <1>4
<1>9. /\ events' \in Seq(Event) /\ Len(events') = n + c
      /\ \A i \in 1..(n + c) : events'[i] = IF i <= n THEN events[i] ELSE q[i - n]
  <2>1. /\ events \o q \in Seq(Event) /\ Len(events \o q) = Len(events) + Len(q)
        /\ \A i \in 1..(Len(events) + Len(q)) :
             (events \o q)[i] = IF i <= Len(events) THEN events[i] ELSE q[i - Len(events)]
    BY <1>8, ConcatProperties, Zenon
  <2> QED
    BY <2>1, <1>3, <1>7 DEF n
<1>10. \A i \in 1..n : events'[i] = events[i]
  BY <1>3, <1>7, <1>9
<1>11. \A i \in (n + 1)..(n + c) : i - n \in 1..c /\ events'[i] = q[i - n] /\ q[i - n] \in T
  <2> TAKE i \in (n + 1)..(n + c)
  <2>1. i \in 1..(n + c) /\ ~ (i <= n) /\ i - n \in 1..c
    BY <1>3, <1>7
  <2> QED
    BY <1>3, <1>9, <2>1
<1>12. \A i \in (n + 1)..(n + c) :
         /\ events'[i].memory \in S /\ events'[i].act = act
         /\ events'[i].keyed = FALSE /\ events'[i].life = life
  BY <1>5, <1>11
<1>13. ASSUME NEW i \in (n + 1)..(n + c), NEW j \in (n + 1)..(n + c),
              events'[i].memory = events'[j].memory
       PROVE  i = j
  <2>1. q[i - n] = q[j - n] /\ i - n \in 1..c /\ j - n \in 1..c
    BY <1>6, <1>11, <1>13
  <2>2. i - n = j - n
    BY <1>3, <2>1
  <2> QED
    BY <1>7, <2>2
<1> QED
  BY <1>3, <1>7, <1>9, <1>10, <1>12, <1>13 DEF c, n

\* Every event is in the graph or in the outbox.
Kept == graph \cup Range(queue) = DOMAIN events

\* The shape of the events and of the store, unprimed and after a step.
Stored == events \in Seq(Event) /\ queue \in Seq(Nat) /\ Kept

\* A step makes an event for each member of S, and keeps all of them.
Records(S, act) ==
    /\ S \in SUBSET (Memories \cup {NoMemory}) /\ act \in Actions
    /\ Cardinality(S) \in Nat /\ Len(events) \in Nat
    /\ Stored' /\ Len(events') = Len(events) + Cardinality(S)
    /\ \A i \in 1..Len(events) : events'[i] = events[i]
    /\ \A i \in (Len(events) + 1)..Len(events') :
         /\ events'[i].memory \in S /\ events'[i].act = act /\ events'[i].life = life
    /\ \A i, j \in (Len(events) + 1)..Len(events') :
         events'[i].memory = events'[j].memory => i = j

\* An event that is made is kept, whether it is written, queued, or written by
\* a process that dies before it has done the rest.
LEMMA EventsRecorded ==
    ASSUME Stored, life \in Nat, NEW S \in SUBSET (Memories \cup {NoMemory}), IsFiniteSet(S),
           NEW act \in Actions, Make(S, act),
           (\E ok \in BOOLEAN : Persist(ok)) \/ (graph' = graph \cup Made /\ queue' = queue)
    PROVE  Records(S, act)
<1> DEFINE n == Len(events)
           c == Cardinality(S)
           new == [k \in 1..Cardinality(Made) |-> n + k]
<1>1. /\ c \in Nat /\ n \in Nat /\ events' \in Seq(Event) /\ Len(events') = n + c
      /\ \A i \in 1..n : events'[i] = events[i]
      /\ \A i \in (n + 1)..Len(events') :
           /\ events'[i].memory \in S /\ events'[i].act = act
           /\ events'[i].keyed = FALSE /\ events'[i].life = life
      /\ \A i, j \in (n + 1)..Len(events') : events'[i].memory = events'[j].memory => i = j
  <2>1. events \in Seq(Event)
    BY DEF Stored
  <2> QED
    BY <2>1, MakeFacts
<1>2. DOMAIN events = 1..n /\ DOMAIN events' = 1..(n + c) /\ Made = (n + 1)..(n + c)
  BY <1>1 DEF Made, Stored
<1>3. IsFiniteSet(Made) /\ Cardinality(Made) = c
  <2>1. n \in 0..(n + c) /\ n + c \in Nat
    BY <1>1
  <2>2. Cardinality((n + 1)..(n + c)) = (n + c) - n /\ IsFiniteSet((n + 1)..(n + c))
    BY <2>1, CountAfter
  <2> HIDE DEF n, c
  <2> QED
    BY <1>1, <1>2, <2>2
<1> HIDE DEF c
<1>4. new \in Seq(Nat) /\ Range(new) = Made
  <2>1. new \in Seq(Nat) /\ Len(new) = c
    BY <1>1, <1>3
  <2>2. Range(new) = {new[i] : i \in 1..c}
    BY <2>1, RangeEquality
  <2>3. \A i \in (n + 1)..(n + c) : i - n \in 1..c /\ new[i - n] = i
    BY <1>1, <1>3
  <2>4. \A i \in 1..c : new[i] \in (n + 1)..(n + c)
    BY <1>1, <1>3
  <2> HIDE DEF new, n
  <2>5. \A i \in Range(new) : i \in (n + 1)..(n + c)
    BY <2>2, <2>4
  <2>6. \A i \in (n + 1)..(n + c) : i \in Range(new)
    BY <2>2, <2>3
  <2> QED
    BY <1>2, <2>1, <2>5, <2>6
<1>5. queue' \in Seq(Nat) /\ graph' \cup Range(queue') = graph \cup Range(queue) \cup Made
  <2>1. CASE graph' = graph \cup Made /\ queue' = queue
    BY <2>1 DEF Stored
  <2>2. CASE graph' = graph \cup Made \cup Range(queue) /\ queue' = <<>>
    <3>1. Range(<<>>) = {}
      BY DEF Range
    <3> QED
      BY <2>2, <3>1
  <2>3. CASE queue' = queue \o new /\ graph' = graph
    <3>1. queue \in Seq(Nat)
      BY DEF Stored
    <3> HIDE DEF new
    <3>2. queue \o new \in Seq(Nat) /\ Range(queue \o new) = Range(queue) \cup Range(new)
      BY <1>4, <3>1, ConcatProperties, RangeConcatenation
    <3> QED
      BY <1>4, <2>3, <3>2
  <2> QED
    BY <2>1, <2>2, <2>3 DEF Persist
<1>6. graph' \cup Range(queue') = DOMAIN events'
  <2>1. (1..n) \cup ((n + 1)..(n + c)) = 1..(n + c)
    BY <1>1
  <2> QED
    BY <1>2, <1>5, <2>1 DEF Stored, Kept
<1> HIDE DEF new
<1>7. Stored'
  BY <1>1, <1>5, <1>6 DEF Stored, Kept
<1> QED
  BY <1>1, <1>7 DEF Records, c

\* A step makes an event for each member of the set.
LEMMA MadeSize ==
    ASSUME NEW S, NEW act, Records(S, act)
    PROVE  IsFiniteSet(Made) /\ Cardinality(Made) = Cardinality(S)
<1> DEFINE n == Len(events)
           c == Cardinality(S)
<1>1. n \in Nat /\ c \in Nat /\ n \in 0..(n + c) /\ n + c \in Nat /\ Made = (n + 1)..(n + c)
  BY DEF Records, Made
<1>2. IsFiniteSet((n + 1)..(n + c)) /\ Cardinality((n + 1)..(n + c)) = (n + c) - n
  BY <1>1, CountAfter
<1> HIDE DEF n, c
<1>3. IsFiniteSet(Made) /\ Cardinality(Made) = c
  BY <1>1, <1>2
<1> QED
  BY <1>3 DEF c

\* The events of some kinds, after a step that makes more.
LEMMA KindsGrow ==
    ASSUME Stored, NEW S, NEW act, Records(S, act), NEW A
    PROVE  {i \in DOMAIN events' : events'[i].act \in A} =
             Of(DOMAIN events, A) \cup (IF act \in A THEN Made ELSE {})
<1>1. DOMAIN events = 1..Len(events) /\ DOMAIN events' = 1..Len(events') /\ Len(events) \in Nat
      /\ Len(events') \in Nat /\ Len(events) <= Len(events')
  BY DEF Stored, Records
<1>2. \A i \in 1..Len(events) : events'[i] = events[i]
  BY DEF Records
<1>3. \A i \in (Len(events) + 1)..Len(events') : events'[i].act = act
  BY DEF Records
<1>4. DOMAIN events' = DOMAIN events \cup Made
  BY <1>1 DEF Made
<1> QED
  BY <1>1, <1>2, <1>3, <1>4 DEF Made, Of

\* The counts of all events after a step that makes more: those of the kinds
\* that are counted are added where Add puts them, the others nowhere.
LEMMA CountsGrow ==
    ASSUME Stored, NEW S, NEW act, Records(S, act)
    PROVE  Counts(DOMAIN events)' = IF act \in {"correction", "remark"}
                                      THEN Counts(DOMAIN events)
                                      ELSE Add(Counts(DOMAIN events), act, Cardinality(S))
<1> DEFINE n == Len(events)
           c == Cardinality(S)
<1>1. n \in Nat /\ c \in Nat /\ n \in 0..(n + c) /\ n + c \in Nat /\ act \in Actions
      /\ DOMAIN events = 1..n /\ Made = (n + 1)..(n + c)
  BY DEF Records, Stored, Made
<1>2. IsFiniteSet(Made) /\ Cardinality(Made) = c
  BY MadeSize
<1>3. ASSUME NEW A
      PROVE  Cardinality({i \in DOMAIN events' : events'[i].act \in A}) =
               Cardinality(Of(DOMAIN events, A)) + (IF act \in A THEN c ELSE 0)
  <2> DEFINE old == Of(DOMAIN events, A)
  <2>1. old \in SUBSET (1..n)
    BY <1>1 DEF Of
  <2>2. IsFiniteSet(old) /\ Cardinality(old) \in Nat
    BY <1>1, <2>1, Positions
  <2>3. old \cap Made = {}
    BY <1>1, <2>1
  <2>4. {i \in DOMAIN events' : events'[i].act \in A} = old \cup (IF act \in A THEN Made ELSE {})
    BY KindsGrow
  <2> HIDE DEF old
  <2>5. CASE act \in A
    <3>1. Cardinality(old \cup Made) = Cardinality(old) + Cardinality(Made) - Cardinality(old \cap Made)
      BY <1>2, <2>2, FS_Union
    <3>2. Cardinality(old \cap Made) = 0
      BY <2>3, FS_EmptySet
    <3> HIDE DEF c
    <3>3. Cardinality(old \cup Made) = Cardinality(old) + c
      BY <1>1, <1>2, <2>2, <3>1, <3>2
    <3> QED
      BY <2>4, <2>5, <3>3 DEF old
  <2>6. CASE act \notin A
    BY <2>2, <2>4, <2>6 DEF old
  <2> QED
    BY <2>5, <2>6
<1>4. Counts(DOMAIN events)' =
        [confirm |-> Cardinality({i \in DOMAIN events' : events'[i].act \in {"confirm", "missed"}}),
         dismiss |-> Cardinality({i \in DOMAIN events' : events'[i].act \in {"dismiss", "passive"}})]
  BY DEF Counts, Of
<1> DEFINE a == Cardinality(Of(DOMAIN events, {"confirm", "missed"}))
           b == Cardinality(Of(DOMAIN events, {"dismiss", "passive"}))
<1>5. Counts(DOMAIN events) = [confirm |-> a, dismiss |-> b]
  BY DEF Counts
<1>6. Counts(DOMAIN events)' =
        [confirm |-> a + (IF act \in {"confirm", "missed"} THEN c ELSE 0),
         dismiss |-> b + (IF act \in {"dismiss", "passive"} THEN c ELSE 0)]
  BY <1>3, <1>4
<1>7. a \in Nat /\ b \in Nat
  <2>1. Of(DOMAIN events, {"confirm", "missed"}) \in SUBSET (1..n)
        /\ Of(DOMAIN events, {"dismiss", "passive"}) \in SUBSET (1..n)
    BY <1>1 DEF Of
  <2> QED
    BY <1>1, <2>1, Positions
<1> HIDE DEF a, b, c
<1>8. Counts(DOMAIN events)' = IF act \in {"correction", "remark"}
                                 THEN Counts(DOMAIN events) ELSE Add(Counts(DOMAIN events), act, c)
  BY <1>1, <1>5, <1>6, <1>7 DEF Add, Actions, Verdicts
<1> QED
  BY <1>8 DEF c

\* An event belongs to a life that has begun, and the episode is marked as learned
\* if one of its windows got a verdict in this life.
Marked ==
    \A i \in DOMAIN events :
        /\ events[i].life <= life
        /\ i \in Plain /\ events[i].memory \in Episode /\ events[i].life = life => learned

\* Until the first outage the graph is up and holds every event.
InService == outages = 0 => up /\ queue = <<>>

\* The mark is set by a verdict on a window of the episode, whose event was made; and
\* a verdict without an event is one that a process died of.
LearnedFrom ==
    /\ learned => \E i \in Plain : events[i].memory \in Episode
    /\ life # 0 /\ (cut # {} => life > 1)

FeedbackInv ==
    /\ TypeOK /\ queue \in Seq(Nat) /\ EventsKept
    /\ EpisodeLearnedOnce /\ Marked /\ LearnedFrom
    /\ FallbackAgrees
    /\ InService /\ PassiveOnlyUnreviewedInService

\* What a step does to the local counts when it makes these events.
Follows(S, act) ==
    ~diverged' =>
        /\ ~diverged
        /\ local' = IF act \in {"correction", "remark"} THEN local
                    ELSE Add(local, act, Cardinality(S))

\* A step that makes no event, one that makes events of the weaker kinds, and one that
\* makes the event of a confirm or a dismiss.
NothingNew ==
    /\ events' = events /\ Stored' /\ (learned' => learned)
    /\ ~diverged' => ~diverged /\ local' = local

WeakEvents(S, act) ==
    /\ Records(S, act) /\ Follows(S, act) /\ act \notin {"confirm", "dismiss"}
    /\ act = "passive" => \A m \in S : ~Reviewed(m)
    /\ learned' => learned

PlainEvent(m, act) ==
    /\ m \in Memories /\ act \in {"confirm", "dismiss"}
    /\ Records({m}, act) /\ Follows({m}, act)
    /\ Adjudicates(m, act) /\ (life' = life => learned' = (learned \/ Remembers(m, act)))
    /\ learned' => learned \/ Remembers(m, act)

LEMMA WellStored ==
    ASSUME FeedbackInv
    PROVE  /\ Stored /\ life \in Nat /\ learned \in BOOLEAN /\ diverged \in BOOLEAN
           /\ outages \in Nat /\ up \in BOOLEAN
<1>1. Stored
  BY DEF FeedbackInv, TypeOK, EventsKept, Stored, Kept, Event
<1> QED
  BY <1>1 DEF FeedbackInv, TypeOK

\* One window, as many events as its set has members.
LEMMA OneWindow ==
    ASSUME NEW m
    PROVE  IsFiniteSet({m}) /\ Cardinality({m}) = 1
<1> QED
  BY FS_Singleton

LEMMA JudgeSteps ==
    ASSUME FeedbackInv, NEW m \in Memories, NEW act \in Verdicts, NEW at, Judge(m, act, at)
    PROVE  /\ life' = life /\ (learned => learned')
           /\ WeakEvents({m}, act) \/ PlainEvent(m, act)
<1>1. Records({m}, act)
  <2>1. Make({m}, act) /\ \E ok \in BOOLEAN : Persist(ok)
    BY DEF Judge
  <2>2. act \in Actions /\ {m} \in SUBSET (Memories \cup {NoMemory})
    BY DEF Actions
  <2> QED
    BY <2>1, <2>2, WellStored, OneWindow, EventsRecorded
<1>2. life' = life /\ diverged' = diverged /\ learned' = (learned \/ Remembers(m, act))
  BY DEF Judge, Accept
<1>3. Adjudicates(m, act)
  BY DEF Judge
<1>4. Follows({m}, act)
  <2>1. CASE act = "correction"
    <3>1. local' = local
      BY <2>1 DEF Judge, priors
    <3> QED
      BY <1>2, <2>1, <3>1 DEF Follows
  <2>2. CASE act # "correction"
    <3>1. local' = Add(local, act, 1)
      BY <2>2 DEF Judge, Learn
    <3>2. act \notin {"correction", "remark"}
      BY <2>2 DEF Verdicts
    <3> QED
      BY <1>2, <3>1, <3>2, OneWindow DEF Follows
  <2> QED
    BY <2>1, <2>2
<1>5. CASE act = "correction"
  BY <1>1, <1>2, <1>4, <1>5 DEF WeakEvents, Remembers
<1>6. CASE act # "correction"
  <2>1. act \in {"confirm", "dismiss"}
    BY <1>6 DEF Verdicts
  <2> QED
    BY <1>1, <1>2, <1>3, <1>4, <2>1 DEF PlainEvent
<1> QED
  BY <1>2, <1>5, <1>6

LEMMA DiesAfterSteps ==
    ASSUME FeedbackInv, NEW m \in Memories, NEW act \in Verdicts, NEW at, DiesAfterEvent(m, act, at)
    PROVE  life' = life + 1 /\ (WeakEvents({m}, act) \/ PlainEvent(m, act))
<1>1. Records({m}, act)
  <2>1. Make({m}, act) /\ ((\E ok \in BOOLEAN : Persist(ok)) \/ (graph' = graph \cup Made /\ queue' = queue))
    BY DEF DiesAfterEvent, Unflushed
  <2>2. act \in Actions /\ {m} \in SUBSET (Memories \cup {NoMemory})
    BY DEF Actions
  <2> QED
    BY <2>1, <2>2, WellStored, OneWindow, EventsRecorded
<1>2. /\ life' = life + 1 /\ local' = local /\ diverged' = (diverged \/ act # "correction")
      /\ learned' = FALSE
  BY DEF DiesAfterEvent, Restart
<1>3. Adjudicates(m, act)
  BY DEF DiesAfterEvent
<1>4. Follows({m}, act)
  BY <1>2 DEF Follows
<1>5. life' # life
  BY <1>2, WellStored
<1>6. CASE act = "correction"
  BY <1>1, <1>2, <1>4, <1>6 DEF WeakEvents
<1>7. CASE act # "correction"
  <2>1. act \in {"confirm", "dismiss"}
    BY <1>7 DEF Verdicts
  <2> QED
    BY <1>1, <1>2, <1>3, <1>4, <1>5, <2>1 DEF PlainEvent
<1> QED
  BY <1>2, <1>6, <1>7

LEMMA ReportDiesSteps ==
    ASSUME FeedbackInv, NEW m \in Memories \cup {NoMemory}, NEW act \in {"passive", "missed"},
           NEW ok \in BOOLEAN, ReportDies(m, act, ok)
    PROVE  life' = life + 1 /\ WeakEvents({m}, act)
<1>1. Records({m}, act)
  <2>1. Make({m}, act) /\ (Persist(ok) \/ (graph' = graph \cup Made /\ queue' = queue))
    BY DEF ReportDies, Unflushed
  <2>2. act \in Actions /\ {m} \in SUBSET (Memories \cup {NoMemory})
    BY DEF Actions
  <2> QED
    BY <2>1, <2>2, WellStored, OneWindow, EventsRecorded
<1>2. life' = life + 1 /\ diverged' = TRUE /\ learned' = FALSE /\ (act = "passive" => ~Reviewed(m))
  BY DEF ReportDies, Restart
<1> QED
  BY <1>1, <1>2 DEF WeakEvents, Follows

\* What a step does to the events and to what is learned from them.
LEMMA FeedbackSteps ==
    ASSUME FeedbackInv, [Next]_vars
    PROVE  /\ (life' = life /\ (learned => learned')) \/ life' = life + 1
           /\ \/ NothingNew
              \/ \E S, act : WeakEvents(S, act)
              \/ \E m, act : PlainEvent(m, act)
<1> USE WellStored
<1>1. ASSUME events' = events, graph' = graph, queue' = queue
      PROVE  Stored'
  BY <1>1 DEF Stored, Kept
<1>2. ASSUME NEW m \in Memories, NEW act \in Verdicts, NEW at, Judge(m, act, at)
      PROVE  life' = life /\ (learned => learned') /\ (WeakEvents({m}, act) \/ PlainEvent(m, act))
  BY <1>2, JudgeSteps
<1>3. ASSUME NEW m \in Memories, NEW act \in Verdicts, NEW at, JudgeAgain(m, act, at)
      PROVE  life' = life /\ (learned => learned') /\ NothingNew
  BY <1>1, <1>3 DEF JudgeAgain, Accept, NothingNew, priors
<1>4. ASSUME NEW m \in Memories, NEW act \in Verdicts, NEW at, DiesAfterEvent(m, act, at)
      PROVE  life' = life + 1 /\ (WeakEvents({m}, act) \/ PlainEvent(m, act))
  BY <1>4, DiesAfterSteps
<1>14. ASSUME NEW m \in Memories, NEW act \in Verdicts, NEW at, DiesBeforeEvent(m, act, at)
       PROVE  life' = life + 1 /\ NothingNew
  BY <1>1, <1>14 DEF DiesBeforeEvent, Restart, NothingNew
<1>15. ASSUME NEW m \in Memories \cup {NoMemory}, NEW act \in {"passive", "missed"}, NEW ok \in BOOLEAN,
              ReportDies(m, act, ok)
       PROVE  life' = life + 1 /\ \E S, a : WeakEvents(S, a)
  BY <1>15, ReportDiesSteps
<1>5. ASSUME NEW m \in Memories, NEW ok \in BOOLEAN, Remark(m, ok)
      PROVE  life' = life /\ (learned => learned') /\ WeakEvents({m}, "remark")
  <2>1. Make({m}, "remark") /\ Persist(ok)
    BY <1>5 DEF Remark
  <2>2. Records({m}, "remark")
    <3>1. "remark" \in Actions /\ {m} \in SUBSET (Memories \cup {NoMemory})
      BY DEF Actions
    <3> QED
      BY <2>1, <3>1, OneWindow, EventsRecorded
  <2>3. life' = life /\ learned' = learned /\ local' = local /\ diverged' = diverged
    BY <1>5 DEF Remark, process, priors
  <2> QED
    BY <2>2, <2>3 DEF WeakEvents, Follows
<1>6. ASSUME NEW C \in SUBSET Memories, NEW ok \in BOOLEAN, CycleEnds(C, ok)
      PROVE  life' = life /\ (learned => learned') /\ \E S : WeakEvents(S, "passive")
  <2> DEFINE affected == {m \in C : ~Reviewed(m)}
  <2>1. Make(affected, "passive") /\ Persist(ok) /\ local' = Add(local, "passive", Cardinality(affected))
    BY <1>6 DEF CycleEnds, LearnPassive, Learn
  <2>2. Records(affected, "passive")
    <3>1. IsFiniteSet(affected)
      <4>1. IsFiniteSet(Memories)
        BY MemoryAssumption
      <4>2. affected \subseteq Memories
        OBVIOUS
      <4> HIDE DEF affected
      <4> QED
        BY <4>1, <4>2, FS_Subset
    <3>2. "passive" \in Actions /\ affected \in SUBSET (Memories \cup {NoMemory})
      BY DEF Actions
    <3> HIDE DEF affected
    <3> QED
      BY <2>1, <3>1, <3>2, EventsRecorded
  <2>3. life' = life /\ learned' = learned /\ diverged' = diverged
    BY <1>6 DEF CycleEnds, process
  <2>4. \A m \in affected : ~Reviewed(m)
    OBVIOUS
  <2> HIDE DEF affected
  <2>5. WeakEvents(affected, "passive")
    BY <2>1, <2>2, <2>3, <2>4 DEF WeakEvents, Follows
  <2> QED
    BY <2>3, <2>5
<1>7. ASSUME NEW ok \in BOOLEAN, Missed(ok)
      PROVE  life' = life /\ (learned => learned') /\ WeakEvents({NoMemory}, "missed")
  <2>1. Make({NoMemory}, "missed") /\ Persist(ok)
    BY <1>7 DEF Missed
  <2>2. Records({NoMemory}, "missed")
    <3>1. "missed" \in Actions /\ {NoMemory} \in SUBSET (Memories \cup {NoMemory})
      BY DEF Actions
    <3> QED
      BY <2>1, <3>1, OneWindow, EventsRecorded
  <2>3. life' = life /\ learned' = learned /\ diverged' = (diverged \/ ok)
    BY <1>7 DEF Missed, process
  <2>4. ~ok => local' = Add(local, "missed", Cardinality({NoMemory}))
    BY <1>7, OneWindow DEF Missed, Learn
  <2> QED
    BY <2>2, <2>3, <2>4 DEF WeakEvents, Follows
<1>8. ASSUME NEW p \in syncs, Sync(p)
      PROVE  life' = life /\ (learned => learned') /\ NothingNew
  BY <1>1, <1>8 DEF Sync, NothingNew, store, process
<1>9. ASSUME Refresh \/ Reset
      PROVE  life' = life /\ (learned => learned') /\ NothingNew
  BY <1>1, <1>9 DEF Refresh, Reset, NothingNew, store, process
<1>10. ASSUME Replay
       PROVE  life' = life /\ (learned => learned') /\ NothingNew
  <2>1. events' = events /\ queue # <<>> /\ graph' = graph \cup {Head(queue)} /\ queue' = Tail(queue)
        /\ life' = life /\ learned' = learned /\ local' = local /\ diverged' = diverged
    BY <1>10 DEF Replay, process, priors
  <2>2. queue \in Seq(Nat) /\ queue' \in Seq(Nat)
    BY <2>1, HeadTailProperties DEF Stored
  <2>3. Range(queue) = {Head(queue)} \cup Range(Tail(queue))
    <3>1. Range(queue) = {queue[i] : i \in 1..Len(queue)}
          /\ Range(Tail(queue)) = {Tail(queue)[i] : i \in 1..Len(Tail(queue))}
      BY <2>1, <2>2, RangeEquality
    <3>2. /\ Len(queue) \in Nat \ {0} /\ Len(Tail(queue)) = Len(queue) - 1
          /\ \A i \in 1..(Len(queue) - 1) : Tail(queue)[i] = queue[i + 1]
          /\ Head(queue) = queue[1]
      BY <2>1, <2>2
    <3>3. \A i \in 1..Len(queue) : i # 1 => i - 1 \in 1..Len(Tail(queue)) /\ Tail(queue)[i - 1] = queue[i]
      BY <3>2
    <3>4. \A i \in 1..Len(Tail(queue)) : i + 1 \in 1..Len(queue) /\ Tail(queue)[i] = queue[i + 1]
      BY <3>2
    <3> QED
      BY <3>1, <3>2, <3>3, <3>4
  <2>4. Stored'
    BY <2>1, <2>2, <2>3 DEF Stored, Kept
  <2> QED
    BY <2>1, <2>4 DEF NothingNew
<1>11. ASSUME Outage \/ Recover
       PROVE  life' = life /\ (learned => learned') /\ NothingNew
  BY <1>1, <1>11 DEF Outage, Recover, NothingNew, priors, process
<1>12. ASSUME Crash
       PROVE  life' = life + 1 /\ NothingNew
  BY <1>1, <1>12 DEF Crash, Restart, NothingNew
<1>13. ASSUME UNCHANGED vars
       PROVE  life' = life /\ (learned => learned') /\ NothingNew
  BY <1>1, <1>13 DEF vars, store, process, priors, NothingNew
<1> QED
  BY <1>2, <1>3, <1>4, <1>5, <1>6, <1>7, <1>8, <1>9, <1>10, <1>11, <1>12, <1>13, <1>14, <1>15 DEF Next

LEMMA StoredStep ==
    ASSUME FeedbackInv, [Next]_vars
    PROVE  Stored'
<1> QED
  BY FeedbackSteps DEF NothingNew, WeakEvents, PlainEvent, Records

\* The episode: a confirm or a dismiss of one of its windows finds it unmarked,
\* so no other has been made in this life.
LEMMA EpisodeStep ==
    ASSUME FeedbackInv, [Next]_vars
    PROVE  EpisodeLearnedOnce' /\ Marked'
<1> DEFINE N == Len(events)
           P == {"confirm", "dismiss"}
<1> USE WellStored
<1>1. /\ (life' = life /\ (learned => learned')) \/ life' = life + 1
      /\ NothingNew \/ (\E S, act : WeakEvents(S, act)) \/ (\E m, act : PlainEvent(m, act))
  BY FeedbackSteps
<1>2. /\ \A i \in DOMAIN events : events[i].life <= life /\ events[i].life \in Nat
      /\ \A i \in DOMAIN events : events[i].act \in P /\ events[i].memory \in Episode
                                   /\ events[i].life = life => learned
      /\ \A i, j \in DOMAIN events :
           /\ events[i].act \in P /\ events[j].act \in P
           /\ {events[i].memory, events[j].memory} \subseteq Episode
           /\ events[i].life = events[j].life
           => i = j
  <2>1. \A i \in DOMAIN events : events[i].life <= life /\ events[i].life \in Nat
    <3>1. \A i \in DOMAIN events : events[i] \in Event
      <4>1. events \in Seq(Event)
        BY DEF Stored
      <4> QED
        BY <4>1
    <3>2. \A i \in DOMAIN events : events[i].life <= life
      BY DEF FeedbackInv, Marked
    <3> QED
      BY <3>1, <3>2 DEF Event
  <2>2. \A i \in DOMAIN events : events[i].act \in P /\ events[i].memory \in Episode
                                  /\ events[i].life = life => learned
    BY DEF FeedbackInv, Marked, Plain, Of
  <2>3. \A i, j \in DOMAIN events :
          /\ events[i].act \in P /\ events[j].act \in P
          /\ {events[i].memory, events[j].memory} \subseteq Episode
          /\ events[i].life = events[j].life
          => i = j
    BY DEF FeedbackInv, EpisodeLearnedOnce, Plain, Of
  <2> QED
    BY <2>1, <2>2, <2>3
<1>3. SUFFICES
        /\ \A i \in DOMAIN events' : events'[i].life <= life'
        /\ \A i \in DOMAIN events' : events'[i].act \in P /\ events'[i].memory \in Episode
                                      /\ events'[i].life = life' => learned'
        /\ \A i, j \in DOMAIN events' :
             /\ events'[i].act \in P /\ events'[j].act \in P
             /\ {events'[i].memory, events'[j].memory} \subseteq Episode
             /\ events'[i].life = events'[j].life
             => i = j
  BY DEF EpisodeLearnedOnce, Marked, Plain, Of
<1>4. ASSUME NEW i \in DOMAIN events
      PROVE  /\ events[i].life <= life'
             /\ events[i].act \in P /\ events[i].memory \in Episode /\ events[i].life = life' => learned'
  BY <1>1, <1>2
<1>5. CASE NothingNew
  BY <1>2, <1>4, <1>5 DEF NothingNew
<1>6. ASSUME NEW S, NEW act, Records(S, act)
      PROVE  /\ N \in Nat /\ DOMAIN events = 1..N
             /\ \A i \in DOMAIN events' : \/ i \in 1..N /\ events'[i] = events[i]
                                          \/ i \in (N + 1)..Len(events') /\ events'[i].act = act
                                             /\ events'[i].life = life /\ events'[i].memory \in S
  <2>1. /\ N \in Nat /\ Len(events') = N + Cardinality(S) /\ Cardinality(S) \in Nat
        /\ DOMAIN events = 1..N /\ DOMAIN events' = 1..Len(events')
    BY <1>6 DEF Records, Stored
  <2>2. \A i \in 1..N : events'[i] = events[i]
    BY <1>6 DEF Records
  <2>3. \A i \in (N + 1)..Len(events') :
          events'[i].act = act /\ events'[i].life = life /\ events'[i].memory \in S
    BY <1>6 DEF Records
  <2> HIDE DEF N
  <2>4. \A i \in 1..Len(events') : i \in 1..N \/ i \in (N + 1)..Len(events')
    BY <2>1
  <2> QED
    BY <2>1, <2>2, <2>3, <2>4
<1>7. ASSUME NEW S, NEW act, WeakEvents(S, act)
      PROVE  <1>3!1
  <2>1. Records(S, act) /\ act \notin P
    BY <1>7 DEF WeakEvents
  <2>2. \A i \in DOMAIN events' : events'[i].act \in P => i \in DOMAIN events /\ events'[i] = events[i]
    BY <1>6, <2>1
  <2>3. \A i \in DOMAIN events' : events'[i].life <= life'
    <3> TAKE i \in DOMAIN events'
    <3>1. CASE i \in 1..N /\ events'[i] = events[i]
      BY <1>4, <1>6, <2>1, <3>1
    <3>2. CASE events'[i].life = life
      BY <1>1, <3>2
    <3> QED
      BY <1>6, <2>1, <3>1, <3>2
  <2> HIDE DEF N, P
  <2> QED
    BY <1>2, <1>4, <2>2, <2>3
<1>8. ASSUME NEW m, NEW act, PlainEvent(m, act)
      PROVE  <1>3!1
  <2>1. /\ Records({m}, act) /\ Adjudicates(m, act) /\ act \in P
        /\ life' = life => learned' = (learned \/ Remembers(m, act))
    BY <1>8 DEF PlainEvent
  <2>2. \A i \in DOMAIN events' : \/ i \in DOMAIN events /\ events'[i] = events[i]
                                  \/ i = N + 1 /\ events'[i].life = life /\ events'[i].memory = m
    <3>1. Len(events') = N + 1 /\ N \in Nat
      BY <2>1, OneWindow DEF Records
    <3> QED
      BY <1>6, <2>1, <3>1
  <2>3. m \in Episode => Remembers(m, act) /\ ~learned
    BY <2>1 DEF Adjudicates, Remembers
  <2>4. \A i \in DOMAIN events' : events'[i].life <= life'
    <3> TAKE i \in DOMAIN events'
    <3>1. CASE i \in DOMAIN events /\ events'[i] = events[i]
      BY <1>4, <3>1
    <3>2. CASE events'[i].life = life
      BY <1>1, <3>2
    <3> QED
      BY <2>2, <3>1, <3>2
  <2>5. ASSUME NEW i \in DOMAIN events', events'[i].act \in P, events'[i].memory \in Episode,
               events'[i].life = life'
        PROVE  learned'
    <3>1. CASE i \in DOMAIN events /\ events'[i] = events[i]
      BY <1>4, <2>5, <3>1
    <3>2. CASE events'[i].life = life /\ events'[i].memory = m
      BY <2>1, <2>3, <2>5, <3>2
    <3> QED
      BY <2>2, <3>1, <3>2
  <2>6. ASSUME NEW i \in DOMAIN events', NEW j \in DOMAIN events',
               events'[i].act \in P, events'[j].act \in P,
               events'[i].memory \in Episode, events'[j].memory \in Episode,
               events'[i].life = events'[j].life
        PROVE  i = j
    <3> DEFINE Old(k) == k \in DOMAIN events /\ events'[k] = events[k]
               New(k) == k = N + 1 /\ events'[k].life = life /\ events'[k].memory = m
    <3>1. CASE Old(i) /\ Old(j)
      BY <1>2, <2>6, <3>1
    <3>2. CASE Old(i) /\ New(j)
      BY <1>2, <2>3, <2>6, <3>2
    <3>3. CASE New(i) /\ Old(j)
      BY <1>2, <2>3, <2>6, <3>3
    <3>4. CASE New(i) /\ New(j)
      BY <3>4
    <3> QED
      BY <2>2, <3>1, <3>2, <3>3, <3>4
  <2> HIDE DEF N, P
  <2> QED
    BY <2>4, <2>5, <2>6
<1> HIDE DEF N, P
<1> QED
  BY <1>1, <1>5, <1>7, <1>8

\* The local counts follow the events.
LEMMA AgreeStep ==
    ASSUME FeedbackInv, [Next]_vars
    PROVE  FallbackAgrees'
<1> USE WellStored
<1>1. SUFFICES ASSUME ~diverged' PROVE local' = Counts(DOMAIN events)'
  BY DEF FallbackAgrees
<1>2. ~diverged => local = Counts(DOMAIN events)
  BY DEF FeedbackInv, FallbackAgrees
<1>3. CASE NothingNew
  <2>1. Counts(DOMAIN events)' = Counts(DOMAIN events)
    BY <1>3 DEF NothingNew, Counts, Of
  <2> QED
    BY <1>1, <1>2, <1>3, <2>1 DEF NothingNew
<1>4. ASSUME NEW S, NEW act, Records(S, act), Follows(S, act)
      PROVE  local' = Counts(DOMAIN events)'
  <2>1. local' = IF act \in {"correction", "remark"} THEN Counts(DOMAIN events)
                 ELSE Add(Counts(DOMAIN events), act, Cardinality(S))
    BY <1>1, <1>2, <1>4 DEF Follows
  <2> QED
    BY <1>4, <2>1, CountsGrow
<1> QED
  BY <1>3, <1>4, FeedbackSteps DEF WeakEvents, PlainEvent

\* While the graph stays reachable, every call of a handler succeeds and nothing waits.
LEMMA ServiceStep ==
    ASSUME FeedbackInv, [Next]_vars, outages' = 0
    PROVE  outages = 0 /\ up' /\ queue' = <<>> /\ labels' = judged'
<1> USE WellStored
<1>1. outages = 0 => up /\ queue = <<>> /\ labels = judged
  BY DEF FeedbackInv, InService, EventsKept, LabelsInService
<1>17. ASSUME NEW at, Breaks(at)
       PROVE  at = "never" /\ outages = 0
  <2>1. outages' = IF at = "never" THEN outages ELSE outages + 1
    BY <1>17 DEF Breaks
  <2> QED
    BY <2>1
<1>2. ASSUME NEW at, Fails(at)
      PROVE  at = "never" /\ up' /\ outages = 0
  BY <1>2, <1>17 DEF Fails
<1>3. ASSUME NEW m, NEW act, NEW at, Accept(m, act, at)
      PROVE  at = "never" /\ up' /\ outages = 0 /\ labels' = judged'
  BY <1>1, <1>2, <1>3 DEF Accept, Label
<1>4. ASSUME NEW m \in Memories, NEW act \in Verdicts, NEW at, Judge(m, act, at)
      PROVE  outages = 0 /\ up' /\ queue' = <<>> /\ labels' = judged'
  <2>1. Accept(m, act, at) /\ Persist(at \notin {"label", "event"})
    BY <1>4 DEF Judge
  <2>2. at \notin {"label", "event"}
    BY <1>3, <2>1
  <2> QED
    BY <1>3, <2>1, <2>2 DEF Persist
<1>5. ASSUME NEW m \in Memories, NEW act \in Verdicts, NEW at, JudgeAgain(m, act, at)
      PROVE  outages = 0 /\ up' /\ queue' = <<>> /\ labels' = judged'
  BY <1>1, <1>3, <1>5 DEF JudgeAgain
<1>6. ASSUME NEW m \in Memories, NEW act \in Verdicts, NEW at,
             DiesBeforeEvent(m, act, at) \/ DiesAfterEvent(m, act, at)
      PROVE  outages = 0 /\ up' /\ queue' = <<>> /\ labels' = judged'
  <2>1. /\ Breaks(at) /\ Label(m, act, at # "label") /\ judged' = judged \cup {<<m, Flag(act)>>}
        /\ Restart /\ (queue' = queue \/ Persist(at = "never"))
    BY <1>6 DEF DiesBeforeEvent, DiesAfterEvent, Unflushed
  <2>2. at = "never" /\ outages = 0
    BY <1>17, <2>1
  <2>3. queue' = <<>>
    BY <1>1, <2>1, <2>2 DEF Persist
  <2> QED
    BY <1>1, <2>1, <2>2, <2>3 DEF Restart, Label
<1>18. ASSUME NEW m, NEW act, NEW ok \in BOOLEAN, ReportDies(m, act, ok)
       PROVE  outages = 0 /\ up' /\ queue' = <<>> /\ labels' = judged'
  <2>1. Reaches(ok) /\ Restart /\ (queue' = queue \/ Persist(ok)) /\ labels' = labels /\ judged' = judged
    BY <1>18 DEF ReportDies, Unflushed, verdicts
  <2>2. outages = 0 \/ outages' = outages
    BY <1>17, <2>1 DEF Reaches
  <2>3. ok /\ outages = 0
    BY <1>1, <1>17, <2>1, <2>2 DEF Reaches
  <2> QED
    BY <1>1, <2>1, <2>3 DEF Restart, Persist
<1>7. ASSUME NEW m \in Memories, NEW ok \in BOOLEAN, Remark(m, ok)
      PROVE  outages = 0 /\ up' /\ queue' = <<>> /\ labels' = judged'
  <2>1. ok /\ up' /\ outages = 0
    BY <1>2, <1>7 DEF Remark
  <2> QED
    BY <1>1, <1>7, <2>1 DEF Remark, Persist, verdicts
<1>8. ASSUME NEW ok \in BOOLEAN, Persist(ok), labels' = labels, judged' = judged,
             Reaches(ok), up' = ok
      PROVE  outages = 0 /\ up' /\ queue' = <<>> /\ labels' = judged'
  <2>1. outages = 0 \/ outages' = outages
    BY <1>8, <1>17 DEF Reaches
  <2>2. ok /\ up' /\ outages = 0
    BY <1>1, <1>8, <1>17, <2>1 DEF Reaches
  <2> QED
    BY <1>1, <1>8, <2>2 DEF Persist
<1>9. ASSUME NEW C \in SUBSET Memories, NEW ok \in BOOLEAN, CycleEnds(C, ok)
      PROVE  outages = 0 /\ up' /\ queue' = <<>> /\ labels' = judged'
  <2>1. Persist(ok) /\ labels' = labels /\ judged' = judged /\ Reaches(ok) /\ up' = ok
    BY <1>9 DEF CycleEnds, verdicts
  <2> QED
    BY <1>8, <2>1
<1>10. ASSUME NEW ok \in BOOLEAN, Missed(ok)
       PROVE  outages = 0 /\ up' /\ queue' = <<>> /\ labels' = judged'
  BY <1>8, <1>10 DEF Missed, verdicts
<1>11. ASSUME NEW p \in syncs, Sync(p)
       PROVE  outages = 0 /\ up' /\ queue' = <<>> /\ labels' = judged'
  BY <1>1, <1>11 DEF Sync, store, verdicts
<1>12. ASSUME Refresh \/ Reset
       PROVE  outages = 0 /\ up' /\ queue' = <<>> /\ labels' = judged'
  BY <1>1, <1>12 DEF Refresh, Reset, store, verdicts
<1>13. ASSUME Replay \/ Recover
       PROVE  outages = 0 /\ up' /\ queue' = <<>> /\ labels' = judged'
  BY <1>1, <1>13 DEF Replay, Recover, verdicts
<1>14. ~Outage
  BY <1>2 DEF Outage
<1>15. ASSUME Crash
       PROVE  outages = 0 /\ up' /\ queue' = <<>> /\ labels' = judged'
  BY <1>1, <1>15 DEF Crash, Restart, verdicts
<1>16. ASSUME UNCHANGED vars
       PROVE  outages = 0 /\ up' /\ queue' = <<>> /\ labels' = judged'
  BY <1>1, <1>16 DEF vars, store, verdicts
<1> QED
  BY <1>4, <1>5, <1>6, <1>7, <1>9, <1>10, <1>11, <1>12, <1>13, <1>14, <1>15, <1>16, <1>18 DEF Next

\* As long as nothing has failed, no event of a window is missing in the graph, where
\* the end of a cycle looks for a review.
LEMMA ReviewStep ==
    ASSUME FeedbackInv, [Next]_vars
    PROVE  outages' = 0 => ~PassiveAfterReview'
<1> USE WellStored
<1> DEFINE N == Len(events)
<1>1. SUFFICES ASSUME outages' = 0, NEW i \in DOMAIN events', NEW j \in DOMAIN events',
                      events'[j].act = "passive", i < j, events'[i].memory = events'[j].memory
               PROVE  FALSE
  BY DEF PassiveAfterReview, PassiveEvents, Of
<1>2. outages = 0
  BY <1>1, ServiceStep
<1>3. ~ \E a, b \in DOMAIN events :
          events[b].act = "passive" /\ a < b /\ events[a].memory = events[b].memory
  BY <1>2 DEF FeedbackInv, PassiveOnlyUnreviewedInService, PassiveAfterReview, PassiveEvents, Of
<1>4. up /\ graph = DOMAIN events
  <2>1. up /\ queue = <<>>
    BY <1>2 DEF FeedbackInv, InService
  <2>2. Range(<<>>) = {}
    BY DEF Range
  <2> QED
    BY <2>1, <2>2 DEF Stored, Kept
<1>5. CASE NothingNew
  BY <1>1, <1>3, <1>5 DEF NothingNew
<1>6. ASSUME NEW S, NEW act, Records(S, act), act = "passive" => \A m \in S : ~Reviewed(m)
      PROVE  FALSE
  <2>1. /\ N \in Nat /\ DOMAIN events = 1..N /\ DOMAIN events' = 1..Len(events')
        /\ \A k \in 1..N : events'[k] = events[k]
        /\ \A k \in (N + 1)..Len(events') : events'[k].memory \in S /\ events'[k].act = act
        /\ \A k, l \in (N + 1)..Len(events') : events'[k].memory = events'[l].memory => k = l
    <3>1. N \in Nat /\ DOMAIN events = 1..N /\ DOMAIN events' = 1..Len(events')
      BY <1>6 DEF Records, Stored
    <3>2. \A k \in 1..N : events'[k] = events[k]
      BY <1>6 DEF Records
    <3>3. \A k \in (N + 1)..Len(events') : events'[k].memory \in S /\ events'[k].act = act
      BY <1>6 DEF Records
    <3>4. \A k, l \in (N + 1)..Len(events') : events'[k].memory = events'[l].memory => k = l
      BY <1>6 DEF Records
    <3> QED
      BY <3>1, <3>2, <3>3, <3>4
  <2>2. CASE j \in 1..N
    <3>1. i \in 1..N
      BY <1>1, <2>1, <2>2
    <3> QED
      BY <1>1, <1>3, <2>1, <2>2, <3>1
  <2>3. CASE j \in (N + 1)..Len(events') /\ i \in (N + 1)..Len(events')
    BY <1>1, <2>1, <2>3
  <2>4. CASE j \in (N + 1)..Len(events') /\ i \in 1..N
    <3>1. ~Reviewed(events'[j].memory)
      BY <1>1, <1>6, <2>1, <2>4
    <3>2. events[i].memory = events'[j].memory /\ i \in graph
      BY <1>1, <1>4, <2>1, <2>4
    <3> QED
      BY <1>4, <3>1, <3>2 DEF Reviewed
  <2> QED
    BY <2>1, <2>2, <2>3, <2>4
<1>7. ASSUME NEW m, NEW act, PlainEvent(m, act)
      PROVE  FALSE
  BY <1>6, <1>7 DEF PlainEvent
<1> QED
  BY <1>5, <1>6, <1>7, FeedbackSteps DEF WeakEvents

\* What an event or a mark shows stays shown, because no event goes.
LEMMA EventsStay ==
    ASSUME FeedbackInv, [Next]_vars
    PROVE  /\ \A i \in DOMAIN events : i \in DOMAIN events' /\ events'[i] = events[i]
           /\ \A v : HasEvent(v) => HasEvent(v)'
           /\ \A m : LaterWindow(m) => LaterWindow(m)'
<1>1. ASSUME NEW S, NEW act, Records(S, act)
      PROVE  \A i \in DOMAIN events : i \in DOMAIN events' /\ events'[i] = events[i]
  <2>1. /\ Len(events) \in Nat /\ DOMAIN events = 1..Len(events) /\ DOMAIN events' = 1..Len(events')
        /\ Len(events') = Len(events) + Cardinality(S) /\ Cardinality(S) \in Nat
    BY <1>1, WellStored DEF Records, Stored
  <2> QED
    BY <1>1, <2>1 DEF Records
<1>2. \A i \in DOMAIN events : i \in DOMAIN events' /\ events'[i] = events[i]
  BY <1>1, FeedbackSteps DEF NothingNew, WeakEvents, PlainEvent
<1> QED
  BY <1>2 DEF HasEvent, LaterWindow, Plain, Of

\* A step that makes one event makes it of the window and the kind.
LEMMA OneEvent ==
    ASSUME NEW m, NEW act, Records({m}, act)
    PROVE  \E i \in DOMAIN events' : events'[i].memory = m /\ events'[i].act = act
<1> DEFINE k == Len(events')
<1>1. k = Len(events) + Cardinality({m}) /\ Len(events) \in Nat
  BY DEF Records
<1>2. DOMAIN events' = 1..k
  BY DEF Records, Stored
<1>3. k = Len(events) + 1
  BY <1>1, OneWindow
<1>4. \A i \in (Len(events) + 1)..k : events'[i].memory \in {m} /\ events'[i].act = act
  BY DEF Records
<1> HIDE DEF k
<1>5. k \in (Len(events) + 1)..k /\ k \in 1..k
  BY <1>1, <1>3
<1> QED
  BY <1>2, <1>4, <1>5

\* The event that a verdict makes is its event.
LEMMA VerdictHasEvent ==
    ASSUME NEW m, NEW act \in Verdicts, Records({m}, act)
    PROVE  HasEvent(<<m, Flag(act)>>)'
<1>1. PICK i \in DOMAIN events' : events'[i].memory = m /\ events'[i].act = act
  BY OneEvent
<1> QED
  BY <1>1 DEF HasEvent, Of

\* The mark of the episode, and the verdicts that have no event.
LEMMA LearnedStep ==
    ASSUME FeedbackInv, [Next]_vars
    PROVE  LearnedFrom'
<1> USE WellStored
<1>1. learned => \E i \in Plain : events[i].memory \in Episode
  BY DEF FeedbackInv, LearnedFrom
<1>2. ASSUME learned
      PROVE  (\E i \in Plain : events[i].memory \in Episode)'
  BY <1>1, <1>2, EventsStay DEF Plain, Of
<1>3. ASSUME NEW m, NEW act, PlainEvent(m, act), m \in Episode
      PROVE  (\E i \in Plain : events[i].memory \in Episode)'
  <2>1. PICK i \in DOMAIN events' : events'[i].memory = m /\ events'[i].act = act
    <3>1. Records({m}, act)
      BY <1>3 DEF PlainEvent
    <3> QED
      BY <3>1, OneEvent
  <2>2. act \in {"confirm", "dismiss"}
    BY <1>3 DEF PlainEvent
  <2>3. i \in {k \in DOMAIN events' : events'[k].act \in {"confirm", "dismiss"}}
    BY <2>1, <2>2
  <2> QED
    BY <1>3, <2>1, <2>3 DEF Plain, Of
<1>4. learned' => (\E i \in Plain : events[i].memory \in Episode)'
  BY <1>2, <1>3, FeedbackSteps DEF NothingNew, WeakEvents, PlainEvent, Remembers
<1>5. cut # {} => life > 1
  BY DEF FeedbackInv, LearnedFrom
<1>6. ASSUME NEW m \in Memories, NEW act \in Verdicts, NEW at, DiesBeforeEvent(m, act, at)
      PROVE  life' = life + 1
  BY <1>6 DEF DiesBeforeEvent, Restart
<1>7. cut' = cut \/ life' = life + 1
  BY <1>6 DEF Next, Judge, JudgeAgain, Accept, DiesAfterEvent, ReportDies, Remark, CycleEnds, Missed, Sync,
     Refresh, Reset, Replay, Outage, Recover, Crash, vars, verdicts
<1>8. life' = life \/ life' = life + 1
  BY FeedbackSteps
<1>9. life \in Nat \ {0}
  BY DEF FeedbackInv, LearnedFrom, TypeOK
<1>10. life' \in Nat \ {0} /\ (cut' # {} => life' > 1)
  BY <1>5, <1>7, <1>8, <1>9
<1> QED
  BY <1>4, <1>10 DEF LearnedFrom

\* A verdict without an event is a later one on an incident learned from, or the
\* process died of it.
LEMMA JudgedStep ==
    ASSUME FeedbackInv, [Next]_vars
    PROVE  \A v \in judged' : HasEvent(v)' \/ LaterWindow(v[1])' \/ v \in cut'
<1> USE WellStored
<1>1. ASSUME NEW v \in judged, cut \subseteq cut'
      PROVE  HasEvent(v)' \/ LaterWindow(v[1])' \/ v \in cut'
  <2>1. HasEvent(v) \/ LaterWindow(v[1]) \/ v \in cut
    BY DEF FeedbackInv, EventsKept
  <2> QED
    BY <1>1, <2>1, EventsStay
<1>2. ASSUME NEW m \in Memories, NEW act \in Verdicts, NEW at,
             Judge(m, act, at) \/ DiesAfterEvent(m, act, at)
      PROVE  judged' = judged \cup {<<m, Flag(act)>>} /\ HasEvent(<<m, Flag(act)>>)' /\ cut' = cut
  <2>1. Records({m}, act)
    BY <1>2, JudgeSteps, DiesAfterSteps DEF WeakEvents, PlainEvent
  <2> QED
    BY <1>2, <2>1, VerdictHasEvent DEF Judge, Accept, DiesAfterEvent
<1>3. ASSUME NEW m \in Memories, NEW act \in Verdicts, NEW at, JudgeAgain(m, act, at)
      PROVE  judged' = judged \cup {<<m, Flag(act)>>} /\ LaterWindow(m)' /\ cut' = cut
  <2>1. m \in Episode /\ learned
    BY <1>3 DEF JudgeAgain, Adjudicates, Remembers
  <2>2. LaterWindow(m)
    BY <2>1 DEF FeedbackInv, LearnedFrom, LaterWindow
  <2> QED
    BY <1>3, <2>2, EventsStay DEF JudgeAgain, Accept
<1>4. ASSUME NEW m \in Memories, NEW act \in Verdicts, NEW at, DiesBeforeEvent(m, act, at)
      PROVE  judged' = judged \cup {<<m, Flag(act)>>} /\ cut' = cut \cup {<<m, Flag(act)>>}
  BY <1>4 DEF DiesBeforeEvent
<1>5. \/ judged' = judged /\ cut' = cut
      \/ \E m \in Memories, act \in Verdicts :
           /\ judged' = judged \cup {<<m, Flag(act)>>} /\ cut \subseteq cut'
           /\ HasEvent(<<m, Flag(act)>>)' \/ LaterWindow(m)' \/ <<m, Flag(act)>> \in cut'
  BY <1>2, <1>3, <1>4 DEF Next, ReportDies, Remark, CycleEnds, Missed, Sync,
     Refresh, Reset, Replay, Outage, Recover, Crash, vars, verdicts
<1>6. ASSUME NEW m \in Memories, NEW act \in Verdicts,
             HasEvent(<<m, Flag(act)>>)' \/ LaterWindow(m)' \/ <<m, Flag(act)>> \in cut',
             NEW v, v = <<m, Flag(act)>>
      PROVE  HasEvent(v)' \/ LaterWindow(v[1])' \/ v \in cut'
  <2>1. v[1] = m
    BY <1>6
  <2> QED
    BY <1>6, <2>1 DEF HasEvent, LaterWindow
<1> QED
  BY <1>1, <1>5, <1>6

\* A judged window that a cycle dismisses has no event in the graph.  Its verdict was
\* given in the first life, so it is a later window.
LEMMA OverruledStep ==
    ASSUME FeedbackInv, [Next]_vars, outages' = 0
    PROVE  \A m \in overruled' : LaterWindow(m)'
<1> USE WellStored
<1>1. outages = 0
  BY ServiceStep
<1>2. up /\ graph = DOMAIN events
  <2>1. up /\ queue = <<>>
    BY <1>1 DEF FeedbackInv, InService
  <2>2. Range(<<>>) = {}
    BY DEF Range
  <2> QED
    BY <2>1, <2>2 DEF Stored, Kept
<1>3. ASSUME NEW m, ~Reviewed(m), life = 1, NEW v \in judged, v[1] = m
      PROVE  LaterWindow(m)
  <2>1. HasEvent(v) \/ LaterWindow(m) \/ v \in cut
    BY <1>3 DEF FeedbackInv, EventsKept
  <2>2. cut = {}
    BY <1>3 DEF FeedbackInv, LearnedFrom
  <2>3. ASSUME HasEvent(v)
        PROVE  FALSE
    <3>1. PICK i \in DOMAIN events : <<events[i].memory, Flag(events[i].act)>> = v
      BY <2>3 DEF HasEvent, Of
    <3>2. events[i].memory = m
      BY <1>3, <3>1
    <3> QED
      BY <1>2, <1>3, <3>2 DEF Reviewed
  <2> QED
    BY <2>1, <2>2, <2>3
<1>4. \A m \in overruled : LaterWindow(m)
  BY <1>1 DEF FeedbackInv, PassiveOnlyUnreviewedInService
<1>5. ASSUME NEW S, Overrules(S), \A m \in S : (\E v \in judged : v[1] = m) => ~Reviewed(m) /\ life = 1
      PROVE  \A m \in overruled' : LaterWindow(m)
  BY <1>3, <1>4, <1>5 DEF Overrules
<1>6. ASSUME NEW C \in SUBSET Memories, NEW ok \in BOOLEAN, CycleEnds(C, ok)
      PROVE  \A m \in overruled' : LaterWindow(m)
  <2> DEFINE affected == {m \in C : ~Reviewed(m)}
  <2>1. Overrules(affected) /\ life = 1 /\ \A m \in affected : ~Reviewed(m)
    BY <1>6 DEF CycleEnds
  <2> HIDE DEF affected
  <2> QED
    BY <1>5, <2>1
<1>7. ASSUME NEW m \in Memories \cup {NoMemory}, NEW act, NEW ok \in BOOLEAN, ReportDies(m, act, ok)
      PROVE  \A n \in overruled' : LaterWindow(n)
  <2>1. Overrules({m}) /\ ((life = 1 /\ ~Reviewed(m)) \/ m = NoMemory)
    BY <1>7 DEF ReportDies
  <2>2. \A v \in judged : v[1] # NoMemory
    BY MemoryAssumption DEF FeedbackInv, TypeOK
  <2> QED
    BY <1>5, <2>1, <2>2
<1>8. \/ overruled' = overruled
      \/ \A m \in overruled' : LaterWindow(m)
  BY <1>6, <1>7 DEF Next, Judge, JudgeAgain, Accept, DiesBeforeEvent, DiesAfterEvent, Remark, Missed, Sync,
     Refresh, Reset, Replay, Outage, Recover, Crash, vars
<1> QED
  BY <1>4, <1>8, EventsStay

\* The counts of events of the store are counts.
LEMMA CountsTyped ==
    ASSUME Stored'
    PROVE  /\ Counts(graph)' \in CountsType
           /\ Counts({i \in graph : events[i].keyed})' \in CountsType
<1>1. Len(events') \in Nat /\ graph' \in SUBSET (1..Len(events'))
  BY DEF Stored, Kept
<1>2. ASSUME NEW S \in SUBSET graph', NEW A
      PROVE  Cardinality({i \in S : events'[i].act \in A}) \in Nat
  <2>1. {i \in S : events'[i].act \in A} \in SUBSET (1..Len(events'))
    BY <1>1
  <2> QED
    BY <1>1, <2>1, Positions
<1> QED
  BY <1>2 DEF Counts, Of, CountsType

LEMMA PriorTyped ==
    ASSUME Stored', local' \in CountsType, scoped' \in CountsType
    PROVE  GlobalPrior' \in CountsType /\ ContextPrior' \in CountsType
<1> QED
  BY CountsTyped DEF GlobalPrior, ContextPrior

\* The state of the priors has its types.
PriorsTyped ==
    /\ local \in CountsType /\ scoped \in CountsType /\ mirror \in CountsType
    /\ syncs \in SUBSET CountsType /\ cache \in [global : CountsType, context : CountsType]

LEMMA AddTyped ==
    ASSUME NEW counts \in CountsType, NEW act, NEW n \in Nat
    PROVE  /\ Add(counts, act, n) \in CountsType
           /\ act = "passive" => Add(counts, act, n).dismiss = counts.dismiss + n
<1> QED
  BY DEF Add, CountsType

\* What update_pattern_prior leaves: the priors that its threads mirror on the way to
\* the last of n dismissals are counts, because the last one has counted all n.
LEMMA LearnTyped ==
    ASSUME PriorsTyped, Stored', NEW act, NEW n \in Nat, NEW scope \in BOOLEAN, Learn(act, n, scope),
           \A k \in 1..(n - 1) : GlobalPrior'.dismiss - k \in Nat,
           mirror' = mirror
    PROVE  PriorsTyped'
<1> DEFINE p == GlobalPrior'
           Less(k) == [p EXCEPT !.dismiss = p.dismiss - k]
<1>1. local' \in CountsType /\ scoped' \in CountsType
  BY AddTyped DEF Learn, PriorsTyped
<1>2. p \in CountsType /\ ContextPrior' \in CountsType
  BY <1>1, PriorTyped
<1>3. syncs' = syncs \cup {p} \cup {Less(k) : k \in 1..(n - 1)}
  BY DEF Learn
<1>4. cache' = [global |-> p, context |-> IF scope THEN ContextPrior' ELSE cache.context]
  BY DEF Learn
<1>5. \A k \in 1..(n - 1) : p.dismiss - k \in Nat
  OBVIOUS
<1> HIDE DEF p
<1>6. \A k \in 1..(n - 1) : Less(k) \in CountsType
  BY <1>2, <1>5 DEF CountsType
<1> HIDE DEF Less
<1>7. syncs' \in SUBSET CountsType
  BY <1>2, <1>3, <1>6 DEF PriorsTyped
<1>8. cache' \in [global : CountsType, context : CountsType]
  BY <1>2, <1>4 DEF PriorsTyped
<1> QED
  BY <1>1, <1>7, <1>8 DEF PriorsTyped

LEMMA PriorsStep ==
    ASSUME FeedbackInv, [Next]_vars
    PROVE  PriorsTyped'
<1> USE WellStored, StoredStep
<1>1. PriorsTyped
  BY DEF FeedbackInv, TypeOK, PriorsTyped
<1>2. Counts(graph)' \in CountsType
  BY StoredStep, CountsTyped
<1>3. ASSUME UNCHANGED <<local, scoped, cache, syncs, mirror>>
      PROVE  PriorsTyped'
  BY <1>1, <1>3 DEF PriorsTyped
<1>4. ASSUME NEW act, NEW scope \in BOOLEAN, Learn(act, 1, scope), mirror' = mirror
      PROVE  PriorsTyped'
  BY <1>1, <1>4, LearnTyped
<1>5. ASSUME NEW m \in Memories, NEW act \in Verdicts, NEW at, Judge(m, act, at)
      PROVE  PriorsTyped'
  <2>1. mirror' = mirror
    BY <1>5 DEF Judge, Accept
  <2>2. CASE act = "correction"
    BY <1>3, <1>5, <2>1, <2>2 DEF Judge, priors
  <2>3. CASE act # "correction"
    BY <1>4, <1>5, <2>1, <2>3 DEF Judge
  <2> QED
    BY <2>2, <2>3
<1>6. ASSUME NEW m \in Memories, NEW act \in Verdicts, NEW at, JudgeAgain(m, act, at)
      PROVE  PriorsTyped'
  BY <1>3, <1>6 DEF JudgeAgain, Accept, priors
<1>7. ASSUME Restart
      PROVE  PriorsTyped'
  <2>1. UNCHANGED <<local, scoped, mirror>> /\ syncs' = {}
    BY <1>7 DEF Restart
  <2>2. cache' = cache \/ cache' = [cache EXCEPT !.global = Counts(graph)']
    BY <1>7, Zenon DEF Restart
  <2> DEFINE c == Counts(graph)'
  <2>3. c \in CountsType /\ (cache' = cache \/ cache' = [cache EXCEPT !.global = c])
    BY <1>2, <2>2
  <2> HIDE DEF c
  <2> QED
    BY <1>1, <2>1, <2>3 DEF PriorsTyped
<1>8. ASSUME NEW C \in SUBSET Memories, NEW ok \in BOOLEAN, CycleEnds(C, ok)
      PROVE  PriorsTyped'
  <2> DEFINE affected == {m \in C : ~Reviewed(m)}
             n == Cardinality(affected)
  <2>1. /\ Make(affected, "passive") /\ Persist(ok) /\ Learn("passive", n, TRUE) /\ mirror' = mirror
        /\ Reaches(ok) /\ up' = ok
    BY <1>8 DEF CycleEnds, LearnPassive
  <2>2. Records(affected, "passive")
    <3>1. IsFiniteSet(affected)
      <4>1. IsFiniteSet(Memories)
        BY MemoryAssumption
      <4>2. affected \subseteq Memories
        OBVIOUS
      <4> HIDE DEF affected
      <4> QED
        BY <4>1, <4>2, FS_Subset
    <3>2. "passive" \in Actions /\ affected \in SUBSET (Memories \cup {NoMemory})
      BY DEF Actions
    <3> HIDE DEF affected
    <3> QED
      BY <2>1, <3>1, <3>2, EventsRecorded
  <2> HIDE DEF affected
  <2>3. n \in Nat
    BY <2>2 DEF Records
  <2>4. local' \in CountsType /\ local' = Add(local, "passive", n) /\ scoped' \in CountsType
    BY <1>1, <2>1, <2>3, AddTyped DEF Learn, PriorsTyped
  <2>5. GlobalPrior' \in CountsType
    BY <2>4, PriorTyped
  <2>6. GlobalPrior'.dismiss >= n
    <3>1. CASE up'
      <4> DEFINE D == {i \in graph' : events'[i].act \in {"dismiss", "passive"}}
      <4>1. ok
        BY <2>1, <3>1
      <4>2. Made \subseteq graph'
        BY <2>1, <4>1 DEF Persist
      <4>3. \A i \in Made : events'[i].act = "passive"
        BY <2>2 DEF Records, Made
      <4>4. Made \subseteq D
        BY <4>2, <4>3
      <4>5. D \in SUBSET (1..Len(events')) /\ Len(events') \in Nat
        BY DEF Stored, Kept
      <4>6. GlobalPrior'.dismiss = Cardinality(D)
        BY <3>1 DEF GlobalPrior, Counts, Of
      <4> HIDE DEF D
      <4>7. IsFiniteSet(D) /\ Cardinality(D) \in Nat
        BY <4>5, Positions
      <4>8. Cardinality(Made) <= Cardinality(D)
        BY <4>4, <4>7, FS_Subset
      <4>9. Cardinality(Made) = n
        BY <2>2, MadeSize
      <4> HIDE DEF n
      <4> QED
        BY <2>3, <4>6, <4>7, <4>8, <4>9
    <3>2. CASE ~up'
      <4>1. GlobalPrior' = local'
        BY <3>2 DEF GlobalPrior
      <4>2. local'.dismiss = local.dismiss + n /\ local.dismiss \in Nat
        BY <1>1, <2>3, <2>4, AddTyped DEF PriorsTyped, CountsType
      <4> QED
        BY <2>3, <4>1, <4>2
    <3> QED
      BY <3>1, <3>2
  <2>7. \A k \in 1..(n - 1) : GlobalPrior'.dismiss - k \in Nat
    <3> DEFINE d == GlobalPrior'.dismiss
    <3>1. d \in Nat /\ d >= n
      BY <2>5, <2>6 DEF CountsType
    <3> HIDE DEF d, n
    <3>2. \A k \in 1..(n - 1) : d - k \in Nat
      BY <2>3, <3>1
    <3> QED
      BY <3>2 DEF d
  <2> HIDE DEF n
  <2> QED
    BY <1>1, <2>1, <2>3, <2>7, LearnTyped
<1>9. ASSUME NEW ok \in BOOLEAN, Missed(ok)
      PROVE  PriorsTyped'
  BY <1>3, <1>4, <1>9 DEF Missed, priors
<1>10. ASSUME NEW p \in syncs, Sync(p)
       PROVE  PriorsTyped'
  BY <1>1, <1>10 DEF Sync, PriorsTyped
<1>11. ASSUME Refresh
       PROVE  PriorsTyped'
  <2>1. UNCHANGED <<events, graph, local, scoped, syncs, mirror>>
        /\ cache' = [cache EXCEPT !.global = Counts(graph)]
    BY <1>11 DEF Refresh, store
  <2>2. Counts(graph)' = Counts(graph)
    BY <2>1 DEF Counts, Of
  <2> DEFINE c == Counts(graph)
  <2>3. c \in CountsType /\ cache' = [cache EXCEPT !.global = c]
    BY <1>2, <2>1, <2>2
  <2> HIDE DEF c
  <2> QED
    BY <1>1, <2>1, <2>3 DEF PriorsTyped
<1>12. ASSUME Reset
       PROVE  PriorsTyped'
  BY <1>1, <1>12 DEF Reset, PriorsTyped, NoCounts, CountsType
<1> QED
  BY <1>3, <1>5, <1>6, <1>7, <1>8, <1>9, <1>10, <1>11, <1>12
     DEF Next, DiesBeforeEvent, DiesAfterEvent, ReportDies, Crash, Remark, Replay, Outage, Recover, priors, vars

LEMMA FlagsStep ==
    ASSUME FeedbackInv, [Next]_vars
    PROVE  /\ up' \in BOOLEAN /\ learned' \in BOOLEAN /\ diverged' \in BOOLEAN
           /\ labels' \in SUBSET (Memories \X {"confirmed", "dismissed"})
           /\ judged' \in SUBSET (Memories \X {"confirmed", "dismissed"})
           /\ cut' \in SUBSET (Memories \X {"confirmed", "dismissed"})
           /\ overruled' \in SUBSET Memories
           /\ outages' \in Nat /\ life' \in Nat
<1> DEFINE Flags ==
             /\ up \in BOOLEAN /\ learned \in BOOLEAN /\ diverged \in BOOLEAN
             /\ labels \in SUBSET (Memories \X {"confirmed", "dismissed"})
             /\ judged \in SUBSET (Memories \X {"confirmed", "dismissed"})
             /\ cut \in SUBSET (Memories \X {"confirmed", "dismissed"})
             /\ overruled \in SUBSET Memories
             /\ outages \in Nat /\ life \in Nat
<1>1. Flags
  BY DEF FeedbackInv, TypeOK
<1>2. SUFFICES Flags'
  OBVIOUS
<1>19. ASSUME NEW at, Breaks(at)
       PROVE  outages' \in Nat
  BY <1>1, <1>19 DEF Breaks
<1>20. ASSUME NEW ok \in BOOLEAN, Reaches(ok)
       PROVE  outages' \in Nat
  BY <1>1, <1>19, <1>20 DEF Reaches
<1>3. ASSUME NEW at, Fails(at)
      PROVE  up' \in BOOLEAN /\ outages' \in Nat
  BY <1>3, <1>19 DEF Fails
<1>4. ASSUME NEW m \in Memories, NEW act, NEW ok, Label(m, act, ok)
      PROVE  labels' \in SUBSET (Memories \X {"confirmed", "dismissed"})
  BY <1>1, <1>4 DEF Label, Flag
<1>5. ASSUME NEW m \in Memories, NEW act, NEW at, Accept(m, act, at), learned' \in BOOLEAN
      PROVE  Flags'
  <2>1. up' \in BOOLEAN /\ outages' \in Nat
    BY <1>3, <1>5 DEF Accept
  <2>2. labels' \in SUBSET (Memories \X {"confirmed", "dismissed"})
    BY <1>4, <1>5 DEF Accept
  <2>3. /\ judged' \in SUBSET (Memories \X {"confirmed", "dismissed"}) /\ life' \in Nat /\ diverged' \in BOOLEAN
        /\ cut' = cut /\ overruled' = overruled
    BY <1>1, <1>5 DEF Accept, Flag
  <2> QED
    BY <1>1, <1>5, <2>1, <2>2, <2>3
<1>6. ASSUME NEW m \in Memories, NEW act \in Verdicts, NEW at, Judge(m, act, at)
      PROVE  Flags'
  <2>1. Accept(m, act, at) /\ learned' \in BOOLEAN
    BY <1>1, <1>6 DEF Judge, Remembers
  <2> HIDE DEF Flags
  <2> QED
    BY <1>5, <2>1
<1>7. ASSUME NEW m \in Memories, NEW act \in Verdicts, NEW at, JudgeAgain(m, act, at)
      PROVE  Flags'
  <2>1. Accept(m, act, at) /\ learned' \in BOOLEAN
    BY <1>1, <1>7 DEF JudgeAgain
  <2> HIDE DEF Flags
  <2> QED
    BY <1>5, <2>1
<1>21. ASSUME Restart
       PROVE  up' \in BOOLEAN /\ learned' \in BOOLEAN /\ life' \in Nat
  <2>1. up' = TRUE /\ learned' = FALSE /\ life' = life + 1
    BY <1>21, Zenon DEF Restart
  <2>2. life' \in Nat
    BY <1>1, <2>1
  <2> QED
    BY <2>1, <2>2, Zenon
<1>8. ASSUME NEW m \in Memories, NEW act \in Verdicts, NEW at,
             DiesBeforeEvent(m, act, at) \/ DiesAfterEvent(m, act, at)
      PROVE  Flags'
  <2>1. Breaks(at) /\ Label(m, act, at # "label") /\ Restart
    BY <1>8 DEF DiesBeforeEvent, DiesAfterEvent
  <2>2. /\ judged' = judged \cup {<<m, Flag(act)>>} /\ overruled' = overruled
        /\ cut' = cut \/ cut' = cut \cup {<<m, Flag(act)>>}
        /\ diverged' = diverged \/ diverged' = (diverged \/ act # "correction")
    BY <1>8 DEF DiesBeforeEvent, DiesAfterEvent
  <2>3. labels' \in SUBSET (Memories \X {"confirmed", "dismissed"})
    BY <1>4, <2>1
  <2>4. /\ judged' \in SUBSET (Memories \X {"confirmed", "dismissed"})
        /\ cut' \in SUBSET (Memories \X {"confirmed", "dismissed"})
    BY <1>1, <2>2 DEF Flag
  <2>7. diverged' \in BOOLEAN
    <3>1. diverged \in BOOLEAN
      BY <1>1
    <3>2. CASE diverged' = diverged
      BY <3>1, <3>2
    <3>3. CASE diverged' = (diverged \/ act # "correction")
      BY <3>3
    <3> QED
      BY <2>2, <3>2, <3>3
  <2>5. overruled' \in SUBSET Memories /\ outages' \in Nat
    BY <1>1, <1>19, <2>1, <2>2
  <2>6. up' \in BOOLEAN /\ learned' \in BOOLEAN /\ life' \in Nat
    BY <1>21, <2>1
  <2> QED
    BY <2>3, <2>4, <2>5, <2>6, <2>7
<1>22. ASSUME NEW S, Overrules(S)
       PROVE  overruled' \in SUBSET Memories
  <2>1. \A v \in judged : v[1] \in Memories
    BY <1>1
  <2> QED
    BY <1>1, <1>22, <2>1 DEF Overrules
<1>23. ASSUME NEW m, NEW act, NEW ok \in BOOLEAN, ReportDies(m, act, ok)
       PROVE  Flags'
  <2>1. /\ Reaches(ok) /\ Restart /\ Overrules({m}) /\ diverged' = TRUE
        /\ labels' = labels /\ judged' = judged /\ cut' = cut
    BY <1>23 DEF ReportDies, verdicts
  <2>2. overruled' \in SUBSET Memories /\ outages' \in Nat
    BY <1>20, <1>22, <2>1
  <2>3. up' \in BOOLEAN /\ learned' \in BOOLEAN /\ life' \in Nat
    BY <1>21, <2>1
  <2> QED
    BY <1>1, <2>1, <2>2, <2>3
<1>9. ASSUME NEW m \in Memories, NEW ok \in BOOLEAN, Remark(m, ok)
      PROVE  Flags'
  <2>1. up' \in BOOLEAN /\ outages' \in Nat
    BY <1>3, <1>9 DEF Remark
  <2> QED
    BY <1>1, <1>9, <2>1 DEF Remark, process, verdicts
<1>11. ASSUME NEW C \in SUBSET Memories, NEW ok \in BOOLEAN, CycleEnds(C, ok)
       PROVE  Flags'
  <2> DEFINE affected == {m \in C : ~Reviewed(m)}
  <2>1. /\ Reaches(ok) /\ up' = ok /\ Overrules(affected)
        /\ UNCHANGED <<learned, life, labels, judged, cut, diverged>>
    BY <1>11 DEF CycleEnds, process, verdicts
  <2> HIDE DEF affected
  <2>2. overruled' \in SUBSET Memories /\ outages' \in Nat
    BY <1>20, <1>22, <2>1
  <2> QED
    BY <1>1, <2>1, <2>2
<1>12. ASSUME NEW ok \in BOOLEAN, Missed(ok)
       PROVE  Flags'
  <2>1. up' \in BOOLEAN /\ outages' \in Nat
    BY <1>12, <1>20 DEF Missed
  <2>2. diverged' \in BOOLEAN
    BY <1>12 DEF Missed
  <2>3. UNCHANGED <<learned, life, labels, judged, cut, overruled>>
    BY <1>12 DEF Missed, process, verdicts
  <2> QED
    BY <1>1, <2>1, <2>2, <2>3
<1>13. ASSUME NEW p \in syncs, Sync(p)
       PROVE  Flags'
  BY <1>1, <1>13 DEF Sync, store, process, verdicts
<1>14. ASSUME Refresh \/ Reset
       PROVE  Flags'
  BY <1>1, <1>14 DEF Refresh, Reset, store, process, verdicts
<1>15. ASSUME Replay \/ Recover
       PROVE  Flags'
  BY <1>1, <1>15 DEF Replay, Recover, process, verdicts
<1>16. ASSUME Outage
       PROVE  Flags'
  <2>1. up' \in BOOLEAN /\ outages' \in Nat
    BY <1>3, <1>16 DEF Outage
  <2> QED
    BY <1>1, <1>16, <2>1 DEF Outage, process, verdicts
<1>17. ASSUME Crash
       PROVE  Flags'
  <2>1. /\ Restart /\ outages' = outages /\ overruled' = overruled
        /\ labels' = labels /\ judged' = judged /\ cut' = cut /\ diverged' = diverged
    BY <1>17 DEF Crash, verdicts
  <2>2. up' \in BOOLEAN /\ learned' \in BOOLEAN /\ life' \in Nat
    BY <1>21, <2>1
  <2> QED
    BY <1>1, <2>1, <2>2
<1>18. ASSUME UNCHANGED vars
       PROVE  Flags'
  BY <1>1, <1>18 DEF vars, store, process, verdicts
<1> HIDE DEF Flags
<1> QED
  BY <1>6, <1>7, <1>8, <1>9, <1>11, <1>12, <1>13, <1>14, <1>15, <1>16, <1>17, <1>18, <1>23 DEF Next

LEMMA FeedbackInit ==
    ASSUME Init
    PROVE  FeedbackInv
<1>1. /\ up = TRUE /\ events = <<>> /\ graph = {} /\ queue = <<>> /\ labels = {} /\ learned = FALSE
      /\ local = NoCounts /\ scoped = NoCounts /\ cache = [global |-> NoCounts, context |-> NoCounts]
      /\ mirror = NoCounts /\ syncs = {} /\ outages = 0 /\ life = 1 /\ judged = {} /\ diverged = FALSE
      /\ cut = {} /\ overruled = {}
  BY DEF Init
<1>2. DOMAIN events = {} /\ Range(queue) = {} /\ events \in Seq(Event) /\ queue \in Seq(Nat)
  BY <1>1 DEF Range
<1>3. TypeOK
  <2>1. NoCounts \in CountsType
    BY DEF NoCounts, CountsType
  <2>2. events \in Seq([memory : Memories \cup {NoMemory}, act : Actions, keyed : BOOLEAN, life : Nat])
    BY <1>2 DEF Event
  <2>3. cache \in [global : CountsType, context : CountsType]
    BY <1>1, <2>1
  <2>4. {local, scoped, mirror} \cup syncs \subseteq CountsType /\ {outages, life} \subseteq Nat
    BY <1>1, <2>1
  <2>5. {up, learned, diverged} \subseteq BOOLEAN
    BY <1>1
  <2>6. {labels, judged, cut} \subseteq SUBSET (Memories \X {"confirmed", "dismissed"})
        /\ overruled \subseteq Memories
    BY <1>1
  <2>7. graph \cup Range(queue) \subseteq DOMAIN events
    BY <1>1, <1>2
  <2> QED
    BY <2>2, <2>3, <2>4, <2>5, <2>6, <2>7 DEF TypeOK
<1>4. EventsKept /\ InService
  BY <1>1, <1>2 DEF EventsKept, LabelsInService, InService
<1>7. LearnedFrom
  BY <1>1 DEF LearnedFrom
<1>5. EpisodeLearnedOnce /\ Marked /\ PassiveOnlyUnreviewedInService
  BY <1>1, <1>2 DEF EpisodeLearnedOnce, Marked, Plain, Of, PassiveOnlyUnreviewedInService, PassiveAfterReview
<1>6. FallbackAgrees
  <2>1. \A A : Of({}, A) = {}
    BY DEF Of
  <2>2. Counts({}) = NoCounts
    BY <2>1, FS_EmptySet DEF Counts, NoCounts
  <2> QED
    BY <1>1, <1>2, <2>2 DEF FallbackAgrees
<1> QED
  BY <1>2, <1>3, <1>4, <1>5, <1>6, <1>7 DEF FeedbackInv

LEMMA FeedbackNext ==
    ASSUME FeedbackInv, [Next]_vars
    PROVE  FeedbackInv'
<1>1. Stored'
  BY StoredStep
<1>2. PriorsTyped'
  BY PriorsStep
<1>3. TypeOK'
  <2>1. {up', learned', diverged'} \subseteq BOOLEAN /\ {outages', life'} \subseteq Nat
        /\ {labels', judged', cut'} \subseteq SUBSET (Memories \X {"confirmed", "dismissed"})
        /\ overruled' \subseteq Memories
    BY FlagsStep
  <2>2. /\ {local', scoped', mirror'} \cup syncs' \subseteq CountsType
        /\ cache' \in [global : CountsType, context : CountsType]
    BY <1>2 DEF PriorsTyped
  <2>3. /\ events' \in Seq([memory : Memories \cup {NoMemory}, act : Actions, keyed : BOOLEAN, life : Nat])
        /\ graph' \cup Range(queue') \subseteq DOMAIN events'
    BY <1>1 DEF Stored, Kept, Event
  <2> QED
    BY <2>1, <2>2, <2>3 DEF TypeOK
<1>4. EventsKept' /\ InService'
  BY <1>1, ServiceStep, JudgedStep DEF Stored, Kept, EventsKept, LabelsInService, InService
<1>5. EpisodeLearnedOnce' /\ Marked' /\ FallbackAgrees' /\ LearnedFrom'
  BY EpisodeStep, AgreeStep, LearnedStep
<1>7. PassiveOnlyUnreviewedInService'
  BY ReviewStep, OverruledStep DEF PassiveOnlyUnreviewedInService
<1>6. (queue \in Seq(Nat))'
  BY <1>1 DEF Stored
<1> QED
  BY <1>3, <1>4, <1>5, <1>6, <1>7 DEF FeedbackInv

\* The inductive invariant of the feedback handlers: besides the properties, that
\* the mark of the episode agrees with the verdicts of this life, and that until
\* the first outage the graph holds every event.
THEOREM FeedbackInvariance == Spec => []FeedbackInv
<1>1. Init => FeedbackInv
  BY FeedbackInit
<1>2. FeedbackInv /\ [Next]_vars => FeedbackInv'
  BY FeedbackNext
<1> QED
  BY <1>1, <1>2, PTL DEF Spec

\* The state of the handlers keeps its types; in particular a prior that a thread
\* is about to mirror never has a negative count of dismissals.
THEOREM FeedbackTypeCorrect == Spec => []TypeOK
<1>1. FeedbackInv => TypeOK
  BY DEF FeedbackInv
<1> QED
  BY <1>1, FeedbackInvariance, PTL

\* A verdict that was accepted has its event, which is in the graph or in the outbox,
\* whatever fails where; the two kinds that have none are named.
THEOREM NoEventLost == Spec => []EventsKept
<1>1. FeedbackInv => EventsKept
  BY DEF FeedbackInv
<1> QED
  BY <1>1, FeedbackInvariance, PTL

\* The windows of one incident move the prior once in a life of the process.
THEOREM EpisodeCountsOnce == Spec => []EpisodeLearnedOnce
<1>1. FeedbackInv => EpisodeLearnedOnce
  BY DEF FeedbackInv
<1> QED
  BY <1>1, FeedbackInvariance, PTL

\* The local counts that stand in for the store during an outage are those of all
\* the events, the queued ones included.
THEOREM FallbackExact == Spec => []FallbackAgrees
<1>1. FeedbackInv => FallbackAgrees
  BY DEF FeedbackInv
<1> QED
  BY <1>1, FeedbackInvariance, PTL

\* Until the graph first fails, the end of a cycle dismisses no window that has had
\* an event, and of those that the operator judged only later windows of an incident.
THEOREM PassiveOnlyUnreviewed == Spec => []PassiveOnlyUnreviewedInService
<1>1. FeedbackInv => PassiveOnlyUnreviewedInService
  BY DEF FeedbackInv
<1> QED
  BY <1>1, FeedbackInvariance, PTL

----------------------------------------------------------------------------
(* Delivery of the events                                                  *)

\* Numbers go up in the outbox, and what it has is not in the graph.
Orderly ==
    /\ Len(events) <= MaxEvents
    /\ \A i, j \in 1..Len(queue) : i < j => queue[i] < queue[j]
    /\ Range(queue) \cap graph = {}

\* The line of the promise.
Lined(S) == {[seq |-> n, id |-> n] : n \in S}

\* How a step that makes the events New changes the outbox and the graph: it writes
\* them and what waits, writes them in a process that dies, or queues them.
Moves(New) ==
    \/ graph' = graph \cup New \cup Range(queue) /\ queue' = <<>>
    \/ graph' = graph \cup New /\ queue' = queue
    \/ graph' = graph /\ queue' = queue \o [k \in 1..Cardinality(New) |-> Len(events) + k]

LEMMA LinedFacts ==
    ASSUME NEW S, NEW T
    PROVE  /\ Delivery!Ids(Lined(S)) = S
           /\ Lined(S \cup T) = Lined(S) \cup Lined(T)
           /\ Lined(S \ T) = Lined(S) \ Lined(T)
           /\ Lined({}) = {}
<1>1. \A n : n \in S <=> [seq |-> n, id |-> n] \in Lined(S)
  BY DEF Lined
<1>2. \A l \in Lined(S) : l.id \in S
  BY DEF Lined
<1>3. Delivery!Ids(Lined(S)) = S
  <2>1. \A x \in Delivery!Ids(Lined(S)) : x \in S
    BY <1>2 DEF Delivery!Ids
  <2>2. \A n \in S : [seq |-> n, id |-> n].id \in Delivery!Ids(Lined(S))
    BY <1>1 DEF Delivery!Ids
  <2> QED
    BY <2>1, <2>2
<1>4. \A l : l \in Lined(S \ T) <=> l \in Lined(S) /\ l \notin Lined(T)
  BY DEF Lined
<1>5. Lined(S \cup T) = Lined(S) \cup Lined(T) /\ Lined({}) = {}
  BY DEF Lined
<1> QED
  BY <1>3, <1>4, <1>5

\* The handlers that make events write or queue them, within the bound.
LEMMA StoreMoves ==
    ASSUME FeedbackInv, Orderly, [Next]_vars
    PROVE  \/ graph' = graph /\ queue' = queue /\ events' = events
           \/ queue # <<>> /\ graph' = graph \cup {Head(queue)} /\ queue' = Tail(queue) /\ events' = events
           \/ /\ \E S, act : Records(S, act) /\ Len(events) + Cardinality(S) <= MaxEvents
              /\ Moves(Made)
<1> USE WellStored
<1>1. MaxEvents \in Nat /\ Len(events) \in Nat
  BY BoundAssumption DEF Stored
<1>2. \A ok \in BOOLEAN : Persist(ok) => Moves(Made)
  BY DEF Persist, Moves
<1>3. ASSUME NEW m \in Memories \cup {NoMemory}, NEW act \in Actions, Make({m}, act), Len(events) < MaxEvents,
             (\E ok \in BOOLEAN : Persist(ok)) \/ (graph' = graph \cup Made /\ queue' = queue)
      PROVE  /\ \E S, a : Records(S, a) /\ Len(events) + Cardinality(S) <= MaxEvents
             /\ Moves(Made)
  <2>1. {m} \in SUBSET (Memories \cup {NoMemory})
    OBVIOUS
  <2>2. Records({m}, act)
    BY <1>3, <2>1, OneWindow, EventsRecorded
  <2>3. Len(events) + Cardinality({m}) <= MaxEvents
    <3>1. Cardinality({m}) = 1
      BY OneWindow
    <3> QED
      BY <1>1, <1>3, <3>1
  <2>4. Moves(Made)
    BY <1>2, <1>3 DEF Moves
  <2> QED
    BY <2>2, <2>3, <2>4
<1>4. ASSUME NEW m \in Memories, NEW act \in Verdicts, NEW at, Judge(m, act, at)
      PROVE  /\ \E S, a : Records(S, a) /\ Len(events) + Cardinality(S) <= MaxEvents
             /\ Moves(Made)
  <2>1. Make({m}, act) /\ Len(events) < MaxEvents /\ \E ok \in BOOLEAN : Persist(ok)
    BY <1>4 DEF Judge
  <2>2. act \in Actions
    BY DEF Actions
  <2> QED
    BY <1>3, <2>1, <2>2
<1>5. ASSUME NEW m \in Memories, NEW act \in Verdicts, NEW at, DiesAfterEvent(m, act, at)
      PROVE  /\ \E S, a : Records(S, a) /\ Len(events) + Cardinality(S) <= MaxEvents
             /\ Moves(Made)
  <2>1. /\ Make({m}, act) /\ Len(events) < MaxEvents
        /\ (\E ok \in BOOLEAN : Persist(ok)) \/ (graph' = graph \cup Made /\ queue' = queue)
    BY <1>5 DEF DiesAfterEvent, Unflushed
  <2>2. act \in Actions
    BY DEF Actions
  <2> QED
    BY <1>3, <2>1, <2>2
<1>13. ASSUME NEW m \in Memories \cup {NoMemory}, NEW act \in {"passive", "missed"}, NEW ok \in BOOLEAN,
              ReportDies(m, act, ok)
       PROVE  /\ \E S, a : Records(S, a) /\ Len(events) + Cardinality(S) <= MaxEvents
              /\ Moves(Made)
  <2>1. /\ Make({m}, act) /\ Len(events) < MaxEvents
        /\ (\E k \in BOOLEAN : Persist(k)) \/ (graph' = graph \cup Made /\ queue' = queue)
    BY <1>13 DEF ReportDies, Unflushed
  <2>2. act \in Actions
    BY DEF Actions
  <2> QED
    BY <1>3, <2>1, <2>2
<1>14. ASSUME NEW m \in Memories, NEW act \in Verdicts, NEW at, DiesBeforeEvent(m, act, at)
       PROVE  graph' = graph /\ queue' = queue /\ events' = events
  BY <1>14 DEF DiesBeforeEvent
<1>6. ASSUME NEW m \in Memories, NEW ok \in BOOLEAN, Remark(m, ok)
      PROVE  /\ \E S, a : Records(S, a) /\ Len(events) + Cardinality(S) <= MaxEvents
             /\ Moves(Made)
  <2>1. Make({m}, "remark") /\ Len(events) < MaxEvents /\ Persist(ok)
    BY <1>6 DEF Remark
  <2>2. "remark" \in Actions
    BY DEF Actions
  <2> QED
    BY <1>3, <2>1, <2>2
<1>7. ASSUME NEW ok \in BOOLEAN, Missed(ok)
      PROVE  /\ \E S, a : Records(S, a) /\ Len(events) + Cardinality(S) <= MaxEvents
             /\ Moves(Made)
  <2>1. Make({NoMemory}, "missed") /\ Len(events) < MaxEvents /\ Persist(ok)
    BY <1>7 DEF Missed
  <2>2. "missed" \in Actions
    BY DEF Actions
  <2> QED
    BY <1>3, <2>1, <2>2
<1>8. ASSUME NEW C \in SUBSET Memories, NEW ok \in BOOLEAN, CycleEnds(C, ok)
      PROVE  /\ \E S, a : Records(S, a) /\ Len(events) + Cardinality(S) <= MaxEvents
             /\ Moves(Made)
  <2> DEFINE affected == {m \in C : ~Reviewed(m)}
  <2>1. Make(affected, "passive") /\ Persist(ok) /\ Len(events) + Cardinality(affected) <= MaxEvents
    BY <1>8 DEF CycleEnds
  <2>2. affected \subseteq Memories
    OBVIOUS
  <2> HIDE DEF affected
  <2>3. IsFiniteSet(affected)
    BY <2>2, MemoryAssumption, FS_Subset
  <2>4. "passive" \in Actions /\ affected \in SUBSET (Memories \cup {NoMemory})
    BY <2>2 DEF Actions
  <2>5. Records(affected, "passive")
    BY <2>1, <2>3, <2>4, EventsRecorded
  <2> QED
    BY <1>2, <2>1, <2>5
<1>9. ASSUME NEW m \in Memories, NEW act \in Verdicts, NEW at, JudgeAgain(m, act, at)
      PROVE  graph' = graph /\ queue' = queue /\ events' = events
  BY <1>9 DEF JudgeAgain
<1>10. ASSUME NEW p \in syncs, Sync(p)
       PROVE  graph' = graph /\ queue' = queue /\ events' = events
  BY <1>10 DEF Sync, store
<1>11. ASSUME Refresh \/ Reset \/ Outage \/ Recover \/ Crash \/ UNCHANGED vars
       PROVE  graph' = graph /\ queue' = queue /\ events' = events
  BY <1>11 DEF Refresh, Reset, Outage, Recover, Crash, Restart, vars, store
<1>12. ASSUME Replay
       PROVE  queue # <<>> /\ graph' = graph \cup {Head(queue)} /\ queue' = Tail(queue) /\ events' = events
  BY <1>12 DEF Replay
<1> QED
  BY <1>4, <1>5, <1>6, <1>7, <1>8, <1>9, <1>10, <1>11, <1>12, <1>13, <1>14 DEF Next

LEMMA StoreNumbers ==
    ASSUME Stored
    PROVE  /\ Len(events) \in Nat /\ queue \in Seq(Nat) /\ Len(queue) \in Nat
           /\ Range(queue) = {queue[i] : i \in 1..Len(queue)}
           /\ Range(queue) \subseteq 1..Len(events) /\ graph \subseteq 1..Len(events)
<1>1. events \in Seq(Event) /\ queue \in Seq(Nat) /\ graph \cup Range(queue) = DOMAIN events
  BY DEF Stored, Kept
<1> QED
  BY <1>1, RangeEquality

LEMMA ServeSteps ==
    ASSUME NEW F \in SUBSET Lined(Range(queue)), NEW I \in SUBSET (1..MaxEvents), Delivery!Serve(F, I)
    PROVE  Delivery!Next
<1> QED
  BY DEF Delivery!Next, Lined

LEMMA AcceptSteps ==
    ASSUME NEW S, Delivery!Accept(Lined(S)), Range(queue') = Range(queue) \cup S
    PROVE  Delivery!Next
<1>1. Lined(S) \in SUBSET {[seq |-> n, id |-> n] : n \in Range(queue)}'
  BY DEF Lined
<1> QED
  BY <1>1 DEF Delivery!Next

\* The first event of the outbox is the least.
LEMMA ReplayDelivers ==
    ASSUME FeedbackInv, Orderly, queue # <<>>, events' = events,
           graph' = graph \cup {Head(queue)}, queue' = Tail(queue)
    PROVE  Orderly' /\ Delivery!Next
<1> DEFINE q == Tail(queue)
           h == Head(queue)
<1>1. /\ Len(queue) \in Nat /\ queue \in Seq(Nat)
      /\ Range(queue) = {queue[i] : i \in 1..Len(queue)}
  BY WellStored, StoreNumbers
<1>2. /\ Len(queue) \in Nat \ {0} /\ Len(q) = Len(queue) - 1 /\ q \in Seq(Nat) /\ h = queue[1]
      /\ \A i \in 1..(Len(queue) - 1) : q[i] = queue[i + 1]
  BY <1>1
<1>3. Range(q) = {q[i] : i \in 1..Len(q)}
  BY <1>2, RangeEquality
<1> HIDE DEF q, h
<1>4. \A i \in 1..Len(q) : i + 1 \in 1..Len(queue) /\ q[i] = queue[i + 1]
  BY <1>2
<1>5. \A i, j \in 1..Len(q) : i < j => q[i] < q[j]
  <2> TAKE i, j \in 1..Len(q)
  <2>1. i + 1 \in 1..Len(queue) /\ j + 1 \in 1..Len(queue) /\ (i < j => i + 1 < j + 1)
    BY <1>2
  <2> QED
    BY <1>4, <2>1 DEF Orderly
<1>6. \A x \in Range(q) : x \in Range(queue) /\ h < x
  <2> TAKE x \in Range(q)
  <2>1. PICK i \in 1..Len(q) : x = q[i]
    BY <1>3
  <2>2. i + 1 \in 1..Len(queue) /\ 1 \in 1..Len(queue) /\ 1 < i + 1 /\ x = queue[i + 1]
    BY <1>2, <1>4, <2>1
  <2> QED
    BY <1>1, <1>2, <2>2 DEF Orderly
<1>7. h \in Range(queue) /\ h \in Nat
  <2>1. 1 \in 1..Len(queue) /\ queue[1] \in Nat
    BY <1>1, <1>2
  <2> QED
    BY <1>1, <1>2, <2>1
<1>8. \A x \in Range(queue) \ {h} : x \in Range(q)
  <2> TAKE x \in Range(queue) \ {h}
  <2>1. PICK i \in 1..Len(queue) : x = queue[i]
    BY <1>1
  <2>2. i # 1
    BY <1>2, <2>1
  <2>3. i - 1 \in 1..Len(q) /\ i - 1 \in 1..(Len(queue) - 1) /\ (i - 1) + 1 = i
    BY <1>2, <2>2
  <2>4. q[i - 1] = queue[i]
    BY <1>2, <2>3
  <2> QED
    BY <1>3, <2>1, <2>3, <2>4
<1>9. Range(q) = Range(queue) \ {h}
  <2>1. h \notin Range(q)
    BY <1>6, <1>7
  <2> QED
    BY <1>6, <1>8, <2>1
<1>10. Orderly'
  <2>1. queue' = q /\ graph' = graph \cup {h}
    BY DEF q, h
  <2>2. Range(q) \cap (graph \cup {h}) = {}
    BY <1>9 DEF Orderly
  <2> QED
    BY <1>5, <2>1, <2>2 DEF Orderly
<1>11. Delivery!Serve(Lined({h}), {})
  <2>1. Lined(Range(queue))' = Lined(Range(queue)) \ Lined({h})
    BY <1>9, LinedFacts DEF q
  <2>2. Delivery!Ids(Lined({h})) = {h} /\ graph' = graph \cup {h}
    BY LinedFacts DEF h
  <2>3. \A l \in Lined({h}), m \in Lined(Range(queue)) \ Lined({h}) : l.seq < m.seq
    <3>1. Lined(Range(queue)) \ Lined({h}) = Lined(Range(q))
      BY <1>9, LinedFacts
    <3> QED
      BY <1>6, <3>1 DEF Lined
  <2> QED
    BY <2>1, <2>2, <2>3 DEF Delivery!Serve, Lined
<1>12. Lined({h}) \in SUBSET Lined(Range(queue)) /\ {} \in SUBSET (1..MaxEvents)
  BY <1>7 DEF Lined
<1> QED
  BY <1>10, <1>11, <1>12, ServeSteps

\* New events have greater numbers than those that wait.
LEMMA MakingDelivers ==
    ASSUME FeedbackInv, Orderly, NEW S, NEW act, Records(S, act),
           Len(events) + Cardinality(S) <= MaxEvents, Moves(Made)
    PROVE  Orderly' /\ Delivery!Next
<1> DEFINE n == Len(events)
           c == Cardinality(S)
           new == [k \in 1..c |-> n + k]
           waits == Range(queue)
<1>1. /\ n \in Nat /\ c \in Nat /\ Len(events') = n + c /\ MaxEvents \in Nat
      /\ Len(events') <= MaxEvents
  BY BoundAssumption DEF Records
<1>0. PICK M : M = Made
  OBVIOUS
<1>2. M = (n + 1)..(n + c) /\ Cardinality(M) = c
  BY <1>0, <1>1, MadeSize DEF Made
<1>3. /\ queue \in Seq(Nat) /\ Len(queue) \in Nat
      /\ waits = {queue[i] : i \in 1..Len(queue)}
      /\ waits \subseteq 1..n /\ graph \subseteq 1..n
  BY WellStored, StoreNumbers
<1> HIDE DEF n, c, waits
<1>4. M \subseteq 1..MaxEvents /\ (\A x \in waits, y \in M : x < y /\ x # y) /\ M \cap graph = {}
  <2>1. \A y \in M : y \in Nat /\ y > n /\ y <= n + c
    BY <1>1, <1>2
  <2>2. \A x \in waits \cup graph : x \in Nat /\ x <= n
    BY <1>1, <1>3
  <2>3. \A y \in M : y \in 1..MaxEvents
    BY <1>1, <2>1
  <2>4. \A x \in waits \cup graph, y \in M : x < y
    BY <1>1, <2>1, <2>2
  <2> QED
    BY <2>1, <2>3, <2>4
<1>5. Delivery!Ids(Lined(waits)) = waits /\ Delivery!Ids(Lined(M)) = M
  BY LinedFacts
<1>6. CASE graph' = graph \cup M \cup waits /\ queue' = <<>>
  <2>1. Range(<<>>) = {}
    BY DEF Range
  <2>2. Lined(Range(queue))' = {} /\ Lined(waits) \ Lined(waits) = {}
    BY <1>6, <2>1, LinedFacts
  <2>3. Orderly'
    BY <1>1, <1>6, <2>1 DEF Orderly
  <2>4. Delivery!Serve(Lined(waits), M)
    BY <1>4, <1>5, <1>6, <2>2 DEF Delivery!Serve, Lined, waits
  <2>5. Lined(waits) \in SUBSET Lined(Range(queue)) /\ M \in SUBSET (1..MaxEvents)
    BY <1>4 DEF waits
  <2> QED
    BY <2>3, <2>4, <2>5, ServeSteps
<1>7. CASE graph' = graph \cup M /\ queue' = queue
  <2>1. Orderly'
    <3>1. Range(queue') \cap graph' = {}
      BY <1>4, <1>7 DEF Orderly, waits
    <3> QED
      BY <1>1, <1>7, <3>1 DEF Orderly
  <2>2. Delivery!Serve({}, M)
    <3>1. Delivery!Ids({}) = {}
      BY DEF Delivery!Ids
    <3> QED
      BY <1>4, <1>5, <1>7, <3>1 DEF Delivery!Serve, Lined, waits
  <2>3. {} \in SUBSET Lined(Range(queue)) /\ M \in SUBSET (1..MaxEvents)
    BY <1>4
  <2> QED
    BY <2>1, <2>2, <2>3, ServeSteps
<1>8. CASE graph' = graph /\ queue' = queue \o new
  <2>1. new \in Seq(Nat) /\ Len(new) = c /\ \A k \in 1..c : new[k] = n + k
    BY <1>1
  <2> HIDE DEF new
  <2>2. /\ Len(queue \o new) = Len(queue) + c
        /\ \A i \in 1..Len(queue) : (queue \o new)[i] = queue[i]
        /\ \A i \in (Len(queue) + 1)..(Len(queue) + c) : (queue \o new)[i] = n + (i - Len(queue))
    <3>1. /\ Len(queue \o new) = Len(queue) + Len(new)
          /\ \A i \in 1..Len(queue) : (queue \o new)[i] = queue[i]
          /\ \A i \in (Len(queue) + 1)..(Len(queue) + Len(new)) : (queue \o new)[i] = new[i - Len(queue)]
      BY <1>3, <2>1, ConcatProperties
    <3>2. \A i \in (Len(queue) + 1)..(Len(queue) + c) : i - Len(queue) \in 1..c
      BY <1>1, <1>3
    <3> QED
      BY <2>1, <3>1, <3>2
  <2>3. Range(queue \o new) = waits \cup M
    <3>1. Range(queue \o new) = waits \cup Range(new)
      BY <1>3, <2>1, RangeConcatenation DEF waits
    <3>2. Range(new) = {new[k] : k \in 1..c}
      BY <2>1, RangeEquality
    <3>3. \A y \in M : y - n \in 1..c /\ new[y - n] = y
      BY <1>1, <1>2, <2>1
    <3>4. \A k \in 1..c : new[k] \in M
      BY <1>1, <1>2, <2>1
    <3>5. Range(new) = M
      BY <3>2, <3>3, <3>4
    <3> QED
      BY <3>1, <3>5
  <2>4. \A i, j \in 1..Len(queue \o new) : i < j => (queue \o new)[i] < (queue \o new)[j]
    <3> TAKE i, j \in 1..Len(queue \o new)
    <3> HAVE i < j
    <3>1. CASE j <= Len(queue)
      BY <1>3, <2>2, <3>1 DEF Orderly
    <3>2. CASE i <= Len(queue) /\ j > Len(queue)
      <4>1. i \in 1..Len(queue) /\ queue[i] \in waits /\ queue[i] \in 1..n
        BY <1>3, <2>2, <3>2 DEF waits
      <4>2. j - Len(queue) \in 1..c /\ j \in (Len(queue) + 1)..(Len(queue) + c)
        BY <1>1, <1>3, <2>2, <3>2
      <4> QED
        BY <1>1, <1>3, <2>2, <4>1, <4>2
    <3>3. CASE i > Len(queue)
      BY <1>1, <1>3, <2>2, <3>3
    <3> QED
      BY <1>3, <2>2, <3>1, <3>2, <3>3
  <2>5. Orderly'
    <3>1. (waits \cup M) \cap graph = {}
      BY <1>4 DEF Orderly, waits
    <3> QED
      BY <1>1, <1>8, <2>3, <2>4, <3>1 DEF Orderly
  <2>6. Lined(Range(queue))' = Lined(waits) \cup Lined(M)
    <3>1. Lined(waits \cup M) = Lined(waits) \cup Lined(M)
      BY LinedFacts
    <3>2. Lined(Range(queue))' = Lined(waits \cup M)
      BY <1>8, <2>3 DEF Lined
    <3> QED
      BY <3>1, <3>2
  <2>7. Lined(M) \subseteq Delivery!Line
    BY <1>4 DEF Lined, Delivery!Line
  <2>8. \A k, l \in Lined(M) : k.id = l.id \/ k.seq = l.seq => k = l
    BY DEF Lined
  <2>9. \A m \in Lined(waits), l \in Lined(M) : m.seq < l.seq
    BY <1>4 DEF Lined
  <2>10. Delivery!Ids(Lined(M)) \cap (graph \cup Delivery!Ids(Lined(waits))) = {}
    BY <1>4, <1>5
  <2>11. Delivery!Accept(Lined(M))
    BY <1>8, <2>6, <2>7, <2>8, <2>9, <2>10 DEF Delivery!Accept, Lined, waits
  <2> QED
    BY <1>8, <2>3, <2>5, <2>11, AcceptSteps DEF waits
<1> QED
  BY <1>0, <1>2, <1>6, <1>7, <1>8 DEF Moves, waits, n

LEMMA DeliveryStep ==
    ASSUME FeedbackInv, Orderly, [Next]_vars
    PROVE  Orderly' /\ [Delivery!Next]_<<graph, Lined(Range(queue)), FALSE>>
<1>1. CASE graph' = graph /\ queue' = queue /\ events' = events
  <2>1. Lined(Range(queue))' = Lined(Range(queue))
    BY <1>1 DEF Lined
  <2> QED
    BY <1>1, <2>1 DEF Orderly
<1>2. CASE queue # <<>> /\ graph' = graph \cup {Head(queue)} /\ queue' = Tail(queue) /\ events' = events
  BY <1>2, ReplayDelivers
<1>3. ASSUME NEW S, NEW act, Records(S, act), Len(events) + Cardinality(S) <= MaxEvents, Moves(Made)
      PROVE  Orderly' /\ Delivery!Next
  BY <1>3, MakingDelivers
<1> QED
  BY <1>1, <1>2, <1>3, StoreMoves

\* The handlers, the outbox in front of the graph, its failures and restarts deliver
\* feedback events in the way that GraphOutbox is shown to.
THEOREM FeedbackDelivers == Spec => EventsDelivered
<1>1. Init => FeedbackInv /\ Orderly /\ Delivery!Init
  <2> SUFFICES ASSUME Init PROVE FeedbackInv /\ Orderly /\ Delivery!Init
    OBVIOUS
  <2>1. Range(<<>>) = {} /\ queue = <<>> /\ graph = {} /\ events = <<>> /\ MaxEvents \in Nat
    BY BoundAssumption DEF Range, Init
  <2> QED
    BY <2>1, FeedbackInit DEF Orderly, Delivery!Init
<1>2. FeedbackInv /\ Orderly /\ [Next]_vars
        => (FeedbackInv /\ Orderly)' /\ [Delivery!Next]_(Delivery!delivery)
  BY FeedbackNext, DeliveryStep DEF Lined, Delivery!delivery
<1> QED
  BY <1>1, <1>2, PTL DEF Spec, EventsDelivered, Delivery!Spec

====
