---- MODULE AlertDispatcher ----
(***************************************************************************)
(* The gates between a significant event and an alert card                 *)
(* (agents/memory/dispatcher.py): rate limit, cooldown after a dismissal,  *)
(* suppression of a sustained signature and muting.                        *)
(*                                                                         *)
(* The dispatcher keeps its state per session and no step reads that of    *)
(* another session, so there is one session here.  Nothing between the     *)
(* eligibility check of the orchestrator and the end of dispatch suspends, *)
(* so an event is decided in one step.  log records what the operator can  *)
(* observe: alerts, dismissals, mutes and gating resets.                   *)
(***************************************************************************)
EXTENDS Integers, Sequences, FiniteSets

CONSTANTS
    Patterned,      \* suppression signatures made from pattern keys
    Reasoned,       \* suppression signatures made from triggered reasons
    Scores,         \* significance scores
    AlertAt,        \* scores from here on ask for an alert
    WarningAt,      \* severity WARNING
    CriticalAt,     \* severity CRITICAL
    ScoreStep,      \* signature_score_change_threshold
    MinInterval,    \* min_interval_seconds
    Minute,         \* the sliding window of max_alerts_per_minute
    MaxPerMinute,   \* max_alerts_per_minute
    Cooldown,       \* cooldown_on_dismiss
    SuppressWindow, \* signature_suppress_seconds
    EpisodeGap,     \* silence after which a signature starts a new episode
    MaxTime,        \* bound of the clock
    MaxLog,         \* bound of the log
    MaxSuppressed,  \* bound of the suppressions between two alerts
    Never           \* a time that has not come

Signatures == Patterned \cup Reasoned

ASSUME SignatureAssumption == Patterned \cap Reasoned = {}
ASSUME ScoreAssumption ==
    /\ Scores \subseteq Nat
    /\ {AlertAt, WarningAt, CriticalAt, ScoreStep} \subseteq Nat
    /\ WarningAt <= CriticalAt
ASSUME TimeAssumption ==
    /\ {MinInterval, Minute, MaxPerMinute, Cooldown, SuppressWindow, EpisodeGap} \subseteq Nat
    /\ {MaxTime, MaxLog, MaxSuppressed} \subseteq Nat
    /\ Minute > 0
    /\ Never \notin Int
ASSUME NeverAssumption ==
    /\ Never \notin [at : Nat, score : Scores]
    /\ Never \notin [first : Nat, last : Nat, occurrences : Nat, suppressed : Nat]

VARIABLES
    now,            \* the clock
    lastAlert,      \* _last_alert_time
    recent,         \* _recent_alerts
    cooldownUntil,  \* _cooldowns
    lastDispatch,   \* _last_signature_dispatch
    lifecycle,      \* _signature_lifecycle
    muted,          \* _muted_signatures
    log             \* history: what the operator sees and does

gating     == <<lastAlert, recent, cooldownUntil>>
perSig     == <<lastDispatch, lifecycle>>
dispatcher == <<now, gating, perSig, muted, log>>

Kinds == [sig : Signatures, score : Scores]

\* Entries of the log.
Alerted(k, first) == [what |-> "alert", sig |-> k.sig, score |-> k.score, episode |-> first, at |-> now]
Request(what, sig) == [what |-> what, sig |-> sig, at |-> now]
NoSig == "none"

\* span has passed since t, if t ever came.
Elapsed(t, span) == t # Never => now - t >= span

Severity(score) ==
    IF score >= CriticalAt THEN 2 ELSE IF score >= WarningAt THEN 1 ELSE 0

Distance(a, b) == IF a >= b THEN a - b ELSE b - a

----------------------------------------------------------------------------
InitDispatcher ==
    /\ now = 0
    /\ lastAlert = Never /\ recent = <<>> /\ cooldownUntil = 0
    /\ lastDispatch = [s \in Signatures |-> Never]
    /\ lifecycle = [s \in Signatures |-> Never]
    /\ muted = {}
    /\ log = <<>>

\* The times inside the window.  The list is in the order of time, so that they
\* are its end.
Fresh(times) ==
    LET old == {i \in DOMAIN times : times[i] <= now - Minute}
    IN  SubSeq(times, Cardinality(old) + 1, Len(times))

\* _check_rate_limit, which also trims the list of recent alerts.
Spaced    == Elapsed(lastAlert, MinInterval)
RateLimit == Spaced /\ Len(Fresh(recent)) < MaxPerMinute
Trim      == recent' = IF Spaced THEN Fresh(recent) ELSE recent

InCooldown == now < cooldownUntil

\* Only signatures made from pattern keys are looked up among the muted ones.
IsMuted(k) == k.sig \in muted \cap Patterned

\* Mutant: any change of severity counts as an escalation.
UnchangedSameSeverity(k) ==
    LET last == lastDispatch[k.sig] IN
    /\ last # Never
    /\ now - last.at < SuppressWindow
    /\ Severity(k.score) = Severity(last.score)
    /\ Distance(k.score, last.score) < ScoreStep

\* The signature was dispatched a moment ago, with no lower a severity and
\* much the same score.
Unchanged(k) ==
    LET last == lastDispatch[k.sig] IN
    /\ last # Never
    /\ now - last.at < SuppressWindow
    /\ Severity(k.score) <= Severity(last.score)
    /\ Distance(k.score, last.score) < ScoreStep

\* Mutant: an episode ends a fixed time after its beginning.
TouchSinceFirst(s, suppressed) ==
    LET old == lifecycle[s]
        new == [first |-> now, last |-> now, occurrences |-> 0, suppressed |-> 0]
        cur == IF old = Never THEN new ELSE IF now - old.first > EpisodeGap THEN new ELSE old
    IN lifecycle' =
         [lifecycle EXCEPT ![s] =
            IF suppressed
              THEN [cur EXCEPT !.last = now, !.suppressed = @ + 1]
              ELSE [cur EXCEPT !.last = now, !.occurrences = @ + 1, !.suppressed = 0]]

\* _touch_signature_lifecycle: an episode ends after a long silence.
Touch(s, suppressed) ==
    LET old == lifecycle[s]
        new == [first |-> now, last |-> now, occurrences |-> 0, suppressed |-> 0]
        cur == IF old = Never THEN new ELSE IF now - old.last > EpisodeGap THEN new ELSE old
    IN lifecycle' =
         [lifecycle EXCEPT ![s] =
            IF suppressed
              THEN [cur EXCEPT !.last = now, !.suppressed = @ + 1]
              ELSE [cur EXCEPT !.last = now, !.occurrences = @ + 1, !.suppressed = 0]]

----------------------------------------------------------------------------
(* What becomes of a stored event                                          *)

\* No alert is asked for, or the session is rate limited or in cooldown.
Decline(k) ==
    /\ \/ k.score < AlertAt /\ UNCHANGED recent
       \/ k.score >= AlertAt /\ (~RateLimit \/ InCooldown) /\ Trim
    /\ UNCHANGED <<now, lastAlert, cooldownUntil, perSig, muted, log>>

\* Mutant: only the rate limit is checked.
EligibleInCooldown(k) == k.score >= AlertAt /\ RateLimit

Eligible(k) == k.score >= AlertAt /\ RateLimit /\ ~InCooldown

Suppressions(s) == IF lifecycle[s] = Never THEN 0 ELSE lifecycle[s].suppressed

\* The signature is muted, or the operator has just seen the same alert.
Suppress(k) ==
    /\ Eligible(k) /\ (IsMuted(k) \/ Unchanged(k)) /\ Suppressions(k.sig) < MaxSuppressed
    /\ recent' = Fresh(recent)
    /\ IF IsMuted(k) THEN UNCHANGED lifecycle ELSE Touch(k.sig, TRUE)
    /\ UNCHANGED <<now, lastAlert, cooldownUntil, lastDispatch, muted, log>>

\* The alert is broadcast, then recorded for the gates.
Dispatch(k) ==
    /\ Eligible(k) /\ ~IsMuted(k) /\ ~Unchanged(k) /\ Len(log) < MaxLog
    /\ Touch(k.sig, FALSE)
    /\ lastAlert' = now
    /\ recent' = Append(Fresh(recent), now)
    /\ lastDispatch' = [lastDispatch EXCEPT ![k.sig] = [at |-> now, score |-> k.score]]
    /\ log' = Append(log, Alerted(k, lifecycle'[k.sig].first))
    /\ UNCHANGED <<now, cooldownUntil, muted>>

----------------------------------------------------------------------------
(* The operator's requests and the clock                                   *)

\* PATCH .../feedback with a dismissal: the cooldown is set first.
Dismiss ==
    /\ Len(log) < MaxLog
    /\ cooldownUntil' = now + Cooldown
    /\ log' = Append(log, Request("dismiss", NoSig))
    /\ UNCHANGED <<now, lastAlert, recent, perSig, muted>>

\* POST /alerts/signature-mute, with the signature shown on a card.
SetMuted(s) ==
    /\ Len(log) < MaxLog
    /\ s \notin muted /\ lifecycle[s] # Never
    /\ muted' = muted \cup {s}
    /\ log' = Append(log, Request("mute", s))
    /\ UNCHANGED <<now, gating, perSig>>

ClearMuted(s) ==
    /\ Len(log) < MaxLog
    /\ s \in muted
    /\ muted' = muted \ {s}
    /\ log' = Append(log, Request("unmute", s))
    /\ UNCHANGED <<now, gating, perSig>>

\* Mutant: the reset forgets the recent alerts and the mutes.
ResetGatingAll ==
    /\ Len(log) < MaxLog
    /\ lastAlert' = Never /\ cooldownUntil' = 0 /\ recent' = <<>> /\ muted' = {}
    /\ log' = Append(log, Request("reset", NoSig))
    /\ UNCHANGED <<now, perSig>>

\* reset_session_gating, in front of a demo event.
ResetGating ==
    /\ Len(log) < MaxLog
    /\ lastAlert' = Never /\ cooldownUntil' = 0
    /\ log' = Append(log, Request("reset", NoSig))
    /\ UNCHANGED <<now, recent, perSig, muted>>

Tick ==
    /\ now < MaxTime
    /\ now' = now + 1
    /\ UNCHANGED <<gating, perSig, muted, log>>

Operator ==
    \/ Dismiss \/ ResetGating
    \/ \E s \in Signatures : SetMuted(s) \/ ClearMuted(s)

NextDispatcher ==
    \/ \E k \in Kinds : Decline(k) \/ Suppress(k) \/ Dispatch(k)
    \/ Operator \/ Tick

SpecDispatcher == InitDispatcher /\ [][NextDispatcher]_dispatcher

----------------------------------------------------------------------------
(* Properties                                                              *)

LogEntries ==
    [what : {"alert"}, sig : Signatures, score : Scores, episode : Nat, at : Nat]
        \cup [what : {"dismiss", "reset", "mute", "unmute"},
              sig : Signatures \cup {NoSig}, at : Nat]

\* The dispatcher's state has the shapes the code gives it.
DispatcherTypeOK ==
    /\ now \in Nat
    /\ lastAlert \in Nat \cup {Never} /\ recent \in Seq(Nat) /\ cooldownUntil \in Nat
    /\ lastDispatch \in [Signatures -> [at : Nat, score : Scores] \cup {Never}]
    /\ lifecycle \in [Signatures ->
         [first : Nat, last : Nat, occurrences : Nat, suppressed : Nat] \cup {Never}]
    /\ muted \in SUBSET Signatures
    /\ log \in Seq(LogEntries)

Alerts == {i \in DOMAIN log : log[i].what = "alert"}

AlertsOf(s) == {i \in Alerts : log[i].sig = s}

Between(i, j, what) == \E r \in i..j : log[r].what = what

\* Two alerts are min_interval_seconds apart unless the gating was reset
\* between them.
AlertsSpaced ==
    \A i, j \in Alerts :
        i < j /\ log[j].at - log[i].at < MinInterval => Between(i, j, "reset")

\* Alert fatigue: no window of a minute holds more than max_alerts_per_minute
\* alerts, also when the gating is reset inside it and whatever waits several
\* events have between their scoring and their dispatch; and alerts are spaced.
AlertRate ==
    /\ \A i \in Alerts :
         Cardinality({j \in Alerts : j <= i /\ log[i].at - log[j].at < Minute}) <= MaxPerMinute
    /\ AlertsSpaced

\* A dismissal silences the session for cooldown_on_dismiss, for events that
\* were already in the pipeline too, unless the gating is reset.
QuietAfterDismiss ==
    \A i \in DOMAIN log, j \in Alerts :
        log[i].what = "dismiss" /\ i < j /\ log[j].at - log[i].at < Cooldown
            => Between(i, j, "reset")

\* Suppression "stops the 4 identical alerts in a row": an alert that follows
\* another of its signature within the window is more severe or has a score
\* that differs materially from the one the operator last saw.
NoRepeat ==
    \A s \in Signatures : \A i, j \in AlertsOf(s) :
        /\ i < j /\ \A m \in AlertsOf(s) : m <= i \/ m >= j
        /\ log[j].at - log[i].at < SuppressWindow
        => \/ Severity(log[j].score) > Severity(log[i].score)
           \/ Distance(log[i].score, log[j].score) >= ScoreStep

Unmuted(s, i, j) == \E r \in i..j : log[r].what = "unmute" /\ log[r].sig = s

MuteHolds(S) ==
    \A s \in S : \A i \in DOMAIN log, j \in AlertsOf(s) :
        log[i].what = "mute" /\ log[i].sig = s /\ i < j => Unmuted(s, i, j)

\* A muted signature made from pattern keys raises no alert until it is
\* unmuted, whatever else resets or expires.
MutedPatternsQuiet == MuteHolds(Patterned)

\* The recurrence shown on a card counts the alerts of the current episode:
\* suppressed, muted and gated events in between leave the count alone.
OccurrencesCount ==
    \A s \in Signatures :
        lifecycle[s] # Never =>
            lifecycle[s].occurrences =
                Cardinality({i \in AlertsOf(s) : log[i].at >= lifecycle[s].first})

\* Learning is counted once per episode: two alerts of a signature that are
\* not separated by the silence that ends an episode carry the same episode
\* id, and the id of a later episode is never that of an earlier alert; and the
\* card counts what belongs to the episode.
EpisodesSound ==
    /\ \A s \in Signatures : \A i, j \in AlertsOf(s) :
         i < j => \/ log[i].episode = log[j].episode
                  \/ log[j].at - log[i].at > EpisodeGap /\ log[j].episode > log[i].at
    /\ OccurrencesCount

\* set_signature_muted: "Mute a recurring signature for the remainder of the
\* session."  The UI mutes the signature its card shows, of either kind.
MutedSignaturesQuiet == MuteHolds(Signatures)
====
