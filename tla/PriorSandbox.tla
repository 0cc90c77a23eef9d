---- MODULE PriorSandbox ----
(***************************************************************************)
(* The sandbox that keeps the feedback of an experiment out of the file of *)
(* the learned priors (agents/memory/scorer.py, snapshot_priors and        *)
(* restore_priors, as the live experiment runners call them).              *)
(*                                                                         *)
(* A run is a thread: it copies the file, points the scorer to the copy,   *)
(* works, and points the scorer back.  Its feedback reaches the scorer     *)
(* through the HTTP API, so it is the event loop that counts it, as it     *)
(* counts the operator's, and saves the counts in the file the scorer      *)
(* points to.  Nothing keeps the loop and the threads apart: each of the   *)
(* steps below may fall between any two others.  Counts are the set of the *)
(* feedback they were made from, a run standing for all of its own.        *)
(***************************************************************************)
EXTENDS Integers

CONSTANTS
    Experiments,    \* experiment runs; each names its own copy of the file
    Verdicts,       \* what the operator says
    Production,     \* the file of the learned priors
    Absent, Torn,   \* a file that is not there, one that cannot be decoded
    NoPath,         \* no path
    MaxLives        \* bound of the lives of the process

ASSUME FileAssumption == Production \notin Experiments /\ NoPath \notin Experiments \cup {Production}
ASSUME FeedbackAssumption == Experiments \cap Verdicts = {}
ASSUME ContentAssumption ==
    /\ \A S \in SUBSET (Experiments \cup Verdicts) : S # Absent /\ S # Torn
    /\ Absent # Torn
ASSUME BoundAssumption == MaxLives \in Nat \ {0}

VARIABLES
    file,           \* what is on the disk
    path, original, \* _priors_path and _original_priors_path
    counts,         \* _local_feedback_counts
    save,           \* the save the event loop is in: step, counts, file
    pc,             \* the step each run is at
    first,          \* what its test of the original path said
    got,            \* the counts it has read and not yet installed
    asked,          \* its feedback is on the way to the event loop
    saved,          \* history: verdicts that were saved in Production
    exposed,        \* history: the losing schedules that happened
    life            \* history: lives of the process so far

scorer  == <<path, original, counts>>
threads == <<pc, first, got, asked>>
sandbox == <<file, scorer, save, threads, saved, exposed, life>>

Files    == Experiments \cup {Production}
Feedback == Experiments \cup Verdicts
Idle     == [at |-> "idle", counts |-> {}, file |-> NoPath]
Readable(f) == file[f] \notin {Absent, Torn}

Busy       == save.at # "idle"
Engaged    == {r \in Experiments : pc[r] \notin {"idle", "done"}}
Unsettled  == \E r \in Experiments : pc[r] \in {"load", "install", "reload", "reinstall"}

Causes == {"overlap", "unsandboxed", "straddled", "late", "unreadable", "torn"}

\* The history of the losing schedules; one alone is told apart, two count as all.
If(cause, when) == IF when THEN {cause} ELSE {}
Happen(causes) ==
    LET all == exposed \cup causes
    IN exposed' = IF \E c \in Causes : all \subseteq {c} THEN all ELSE Causes

InitSandbox ==
    /\ \E content \in {Absent, {}} : file = [f \in Files |-> IF f = Production THEN content ELSE Absent]
    /\ path = Production /\ original = NoPath /\ counts = {}
    /\ save = Idle
    /\ pc = [r \in Experiments |-> "idle"]
    /\ first = [r \in Experiments |-> FALSE]
    /\ got = [r \in Experiments |-> {}]
    /\ asked = [r \in Experiments |-> FALSE]
    /\ saved = {} /\ exposed = {} /\ life = 1

\* The bound: a behaviour is followed up to its second losing schedule.
InBound == exposed # Causes

Go(r, step) == InBound /\ pc' = [pc EXCEPT ![r] = step]

----------------------------------------------------------------------------
(* A run: snapshot_priors, its phases, restore_priors                      *)

\* An empty file is made when there is none to copy.
Copy(r) ==
    /\ pc[r] = "idle" /\ Go(r, "test")
    /\ file' = [file EXCEPT ![r] = IF file[path] = Absent THEN {} ELSE file[path]]
    /\ Happen(If("overlap", Engaged # {}))
    /\ UNCHANGED <<scorer, save, first, got, asked, saved, life>>

\* "Prior sandbox failed (continuing without)".
CopyFails(r) ==
    /\ pc[r] = "idle" /\ Go(r, "work")
    /\ Happen({"unsandboxed"} \cup If("overlap", Engaged # {}))
    /\ UNCHANGED <<file, scorer, save, first, got, asked, saved, life>>

TestOriginal(r) ==
    /\ pc[r] = "test" /\ Go(r, "redirect")
    /\ first' = [first EXCEPT ![r] = original = NoPath]
    /\ UNCHANGED <<file, scorer, save, got, asked, saved, exposed, life>>

Redirect(r) ==
    /\ pc[r] = "redirect" /\ Go(r, "load")
    /\ original' = IF first[r] THEN path ELSE original
    /\ path' = r
    /\ first' = [first EXCEPT ![r] = FALSE]
    /\ Happen(If("straddled", Busy))
    /\ UNCHANGED <<file, counts, save, got, asked, saved, life>>

\* _load_priors: a file that is absent or does not decode changes nothing.
Read(r, step, next, end) ==
    /\ pc[r] = step /\ Go(r, IF Readable(path) THEN next ELSE end)
    /\ got' = IF Readable(path) THEN [got EXCEPT ![r] = file[path]] ELSE got
    /\ UNCHANGED <<file, scorer, save, first, asked, saved, life>>

Install(r, step, end) ==
    /\ pc[r] = step /\ Go(r, end)
    /\ counts' = got[r] /\ got' = [got EXCEPT ![r] = {}]
    /\ UNCHANGED <<file, path, original, save, first, asked, saved, exposed, life>>

LoadCopy(r) == Read(r, "load", "install", "work") /\ UNCHANGED exposed

\* PATCH /agent/memory/{id}/feedback from the run's thread.
Ask(r) ==
    /\ InBound /\ pc[r] = "work" /\ ~asked[r]
    /\ asked' = [asked EXCEPT ![r] = TRUE]
    /\ UNCHANGED <<file, scorer, save, pc, first, got, saved, exposed, life>>

\* Mutants: the counts of the sandbox are kept; the scorer still counts as
\* sandboxed.
EndKeepingCounts(r) ==
    /\ pc[r] = "work" /\ Go(r, "done")
    /\ Happen(If("late", asked[r]) \cup If("straddled", Busy))
    /\ path' = IF original = NoPath THEN path ELSE original
    /\ original' = NoPath
    /\ UNCHANGED <<file, counts, save, first, got, asked, saved, life>>

EndSandboxed(r) ==
    /\ pc[r] = "work" /\ Go(r, "reload")
    /\ Happen(If("late", asked[r]) \cup If("straddled", Busy))
    /\ path' = IF original = NoPath THEN path ELSE original
    /\ UNCHANGED <<file, counts, original, save, first, got, asked, saved, life>>

\* The phases end or fail, in either case in the finally clause; an answer
\* that did not come in time is no longer waited for.
End(r) ==
    /\ pc[r] = "work"
    /\ Happen(If("late", asked[r]) \cup If("straddled", Busy))
    /\ IF original = NoPath THEN Go(r, "done") /\ UNCHANGED <<path, original>>
                            ELSE Go(r, "reload") /\ path' = original /\ original' = NoPath
    /\ UNCHANGED <<file, counts, save, first, got, asked, saved, life>>

Reload(r) ==
    /\ Read(r, "reload", "reinstall", "done")
    /\ Happen(If("unreadable", ~Readable(path)))

Continue(r) ==
    \/ TestOriginal(r) \/ Redirect(r) \/ LoadCopy(r) \/ Install(r, "install", "work")
    \/ End(r) \/ Reload(r) \/ Install(r, "reinstall", "done")

RunStep(r) == Copy(r) \/ CopyFails(r) \/ Ask(r) \/ Continue(r)

----------------------------------------------------------------------------
(* The event loop: a handler changes the counts and saves them             *)

Handle(c) ==
    /\ InBound /\ ~Busy /\ save' = [Idle EXCEPT !.at = "changed"]
    /\ counts' = c
    /\ Happen(If("straddled", Unsettled))
    /\ UNCHANGED <<file, path, original, pc, first, got, life>>

\* update_pattern_prior, for the operator and for a run.
Count(v) == Handle(counts \cup {v}) /\ UNCHANGED <<asked, saved>>

Answer(r) ==
    /\ asked[r] /\ Handle(counts \cup {r})
    /\ asked' = [asked EXCEPT ![r] = FALSE]
    /\ UNCHANGED saved

\* reset_feedback_state: what was saved is meant to go.
Reset == Handle({}) /\ saved' = {} /\ UNCHANGED asked

\* refresh_priors: empty counts are read from the file; no counts, no save.
Refresh ==
    LET c == IF counts = {} /\ Readable(path) THEN file[path] ELSE counts
    IN c # {} /\ Handle(c) /\ UNCHANGED <<asked, saved>>

SaveStep == InBound /\ UNCHANGED <<scorer, threads, life>>

\* _save_priors: the counts are taken, the file is truncated, then written.
TakeCounts ==
    /\ save.at = "changed"
    /\ save' = [save EXCEPT !.at = "taken", !.counts = counts]
    /\ UNCHANGED <<file, saved, exposed>> /\ SaveStep

OpenFile ==
    /\ save.at = "taken"
    /\ save' = [save EXCEPT !.at = "open", !.file = path]
    /\ file' = [file EXCEPT ![path] = Torn]
    /\ UNCHANGED <<saved, exposed>> /\ SaveStep

WriteFile ==
    /\ save.at = "open" /\ save' = Idle
    /\ file' = [file EXCEPT ![save.file] = save.counts]
    /\ saved' = IF save.file = Production THEN saved \cup (save.counts \cap Verdicts) ELSE saved
    /\ UNCHANGED exposed /\ SaveStep

\* An error while the file is opened or written is logged and swallowed.
OpenFails ==
    /\ save.at = "taken" /\ save' = Idle
    /\ UNCHANGED <<file, saved, exposed>> /\ SaveStep

WriteFails ==
    /\ save.at = "open" /\ save' = Idle
    /\ Happen(If("torn", save.file = Production))
    /\ UNCHANGED <<file, saved>> /\ SaveStep

Saving == TakeCounts \/ OpenFile \/ WriteFile \/ OpenFails \/ WriteFails

\* Mutant: the scorer starts without reading the file.
RestartCold ==
    /\ InBound /\ life < MaxLives /\ life' = life + 1
    /\ path' = Production /\ original' = NoPath /\ counts' = {} /\ save' = Idle
    /\ pc' = [r \in Experiments |-> IF r \in Engaged THEN "done" ELSE pc[r]]
    /\ first' = [r \in Experiments |-> FALSE] /\ asked' = [r \in Experiments |-> FALSE]
    /\ got' = [r \in Experiments |-> {}]
    /\ Happen(If("torn", file[Production] = Torn))
    /\ UNCHANGED <<file, saved>>

\* The runs die with the process; the scorer starts from the configured path.
Restart ==
    /\ InBound /\ life < MaxLives /\ life' = life + 1
    /\ path' = Production /\ original' = NoPath
    /\ counts' = IF Readable(Production) THEN file[Production] ELSE {}
    /\ save' = Idle
    /\ pc' = [r \in Experiments |-> IF r \in Engaged THEN "done" ELSE pc[r]]
    /\ first' = [r \in Experiments |-> FALSE] /\ asked' = [r \in Experiments |-> FALSE]
    /\ got' = [r \in Experiments |-> {}]
    /\ Happen(If("torn", file[Production] = Torn))
    /\ UNCHANGED <<file, saved>>

NextSandbox ==
    \/ \E r \in Experiments : RunStep(r) \/ Answer(r)
    \/ \E v \in Verdicts : Count(v)
    \/ Reset \/ Refresh \/ Saving \/ Restart

SpecSandbox == InitSandbox /\ [][NextSandbox]_sandbox

----------------------------------------------------------------------------
(* Properties                                                              *)

Contents == {Absent, Torn} \cup SUBSET Feedback

\* The state has the shapes the code gives it: the scorer always has a path.
SandboxTypeOK ==
    /\ file \in [Files -> Contents]
    /\ path \in Files /\ original \in Files \cup {NoPath}
    /\ counts \in SUBSET Feedback
    /\ save \in [at : {"idle", "changed", "taken", "open"}, counts : SUBSET Feedback,
                 file : Files \cup {NoPath}]
    /\ pc \in [Experiments -> {"idle", "test", "redirect", "load", "install", "work",
                        "reload", "reinstall", "done"}]
    /\ first \in [Experiments -> BOOLEAN] /\ got \in [Experiments -> SUBSET Feedback]
    /\ asked \in [Experiments -> BOOLEAN]
    /\ saved \subseteq Verdicts /\ exposed \subseteq Causes /\ life \in 1..MaxLives

\* Whatever schedule happened, it was none of these.
Spared(causes) == exposed \cap causes = {}

Clean == Readable(Production) => file[Production] \cap Experiments = {}

\* The feedback of an experiment never gets into the production file, through
\* crashes, failed writes and saves that race with a run: unless runs overlap,
\* a run goes on without a sandbox, a handler straddles a switch of the path, an
\* answer comes after its run has given up, or the file to go back to cannot be
\* read.
ProductionClean ==
    Spared({"overlap", "unsandboxed", "straddled", "late", "unreadable"}) => Clean

\* What the production file holds, or will when the save in progress is done.
InProduction ==
    IF save.at = "open" /\ save.file = Production THEN save.counts
    ELSE IF Readable(Production) THEN file[Production] ELSE {}

\* A verdict that reached the production file stays there, whatever runs come
\* and go and whatever their sandboxes were copied from, until a reset: unless
\* runs overlap, a handler straddles a switch or a save dies half-way.
SavedVerdictsSurvive ==
    Spared({"overlap", "straddled", "torn"}) => saved \subseteq InProduction

\* When no run is left the scorer points to production and is not sandboxed,
\* whichever run failed where, unless runs overlapped.
SandboxLifted ==
    Spared({"overlap"}) /\ Engaged = {} => path = Production /\ original = NoPath

\* When no run is left the scorer has every verdict of the production file in
\* memory, so that its next save takes none away.
ScorerCaughtUp ==
    Spared({"overlap", "straddled", "torn"}) /\ Engaged = {} => saved \subseteq counts

\* snapshot_priors: the scorer works on the copy until restore_priors, "so
\* experiment feedback doesn't contaminate the production priors file"; claimed
\* here for runs one at a time whose every step succeeds.
ProductionUncontaminated == exposed \subseteq {"unreadable"} => Clean
====
