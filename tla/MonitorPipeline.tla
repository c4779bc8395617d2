-------------------------- MODULE MonitorPipeline --------------------------
(***************************************************************************)
(* The monitor job of .github/workflows/level2_monitor.yml around one      *)
(* target: fetch the committed state, observe, upload the next bundle,     *)
(* read it back, hand a change to research, deliver the Issue, and report  *)
(* a job that failed.  Each step may fail, an upload or an Issue request   *)
(* may take effect although its answer is lost, the runner may disappear   *)
(* between two steps, and finished runs may be re-run as a new attempt.    *)
(*                                                                         *)
(* The committed state is the artifact store: a bundle is its run history, *)
(* and its checkpoint version is the length of that history.  Checkpoint   *)
(* contents are MonitorRuntime's concern.                                  *)
(***************************************************************************)
EXTENDS Integers, Sequences, FiniteSets, SequencesExt

CONSTANTS
  ChangeResponses,  \* change_response values the registry row may have
  IssuePage,        \* open Issues one listing returns
  MaxRuns,          \* bound: workflow runs
  MaxReruns,        \* bound: runs that are re-run, each once
  MaxEdits,         \* bound: edits of the page
  MaxOtherIssues    \* bound: Issues opened by others

ASSUME PipelineAssumption ==
  /\ ChangeResponses \subseteq {"human_review", "autonomous_research_handoff"}
  /\ IssuePage \in Nat \ {0}

MAX_NOTIFICATION_ATTEMPTS == 3

VARIABLES
  change_response,  \* the registry row's change_response, as activated
  page,       \* content the source publishes
  artifacts,  \* unexpired state artifacts, in upload order
  started,    \* workflow runs: kind, branch, attempts, conclusion of the last one
  job,        \* the one job the concurrency group lets run
  issues      \* open Issues, oldest first

vars == <<change_response, page, artifacts, started, job, issues>>

Kinds == {"scheduled", "dispatch", "initialization"}

Idle == [pc |-> "idle"]

NewJob(run, attempt) ==
  [pc |-> "fetch", run |-> run, attempt |-> attempt,
   history |-> <<>>,             \* run history of the fetched, then the generated bundle
   generated |-> FALSE,          \* run-monitor succeeded
   reread |-> FALSE,             \* the uploaded artifact was downloaded again
   notify |-> "skipped", tries |-> 0,
   analyze |-> "skipped",
   failed |-> FALSE]

-----------------------------------------------------------------------------
(***************************************************************************)
(* Bundles and identities.                                                 *)
(***************************************************************************)
Kind == started[job.run].kind

\* A dispatch names its run ID; a scheduled run's ID contains the attempt.
RunId == CASE Kind = "scheduled"      -> <<"MRUN", job.run, job.attempt>>
           [] Kind = "dispatch"       -> <<"MRUN", job.run, 0>>
           [] Kind = "initialization" -> <<"INIT">>

Latest(history) == history[Len(history)]

\* Branches other than main never provide state.
Candidates == {k \in DOMAIN artifacts : artifacts[k].branch = "main"}

\* Fault: the versions are sorted the wrong way round.
LowestVersion ==
  {k \in Candidates :
     \A j \in Candidates : Len(artifacts[k].history) <= Len(artifacts[j].history)}

HighestVersion ==
  {k \in Candidates :
     \A j \in Candidates : Len(artifacts[j].history) <= Len(artifacts[k].history)}

CurrentArtifacts ==
  {k \in HighestVersion :
     \A j \in HighestVersion : artifacts[j].attempt <= artifacts[k].attempt}

LastContent(history) ==
  history[CHOOSE k \in DOMAIN history :
            /\ history[k].result # "error"
            /\ \A j \in k + 1 .. Len(history) : history[j].result = "error"].content

RunEntry(result, content) == [id |-> RunId, result |-> result, content |-> content]

\* The artifact of this job's bundle is in the store.
Committed == \E k \in DOMAIN artifacts : job.generated /\ artifacts[k].history = job.history

-----------------------------------------------------------------------------
(***************************************************************************)
(* Issues.                                                                 *)
(***************************************************************************)
\* First change nobody resolved; an autonomous change is an episode of its own.
ChangeEpisode(history) ==
  IF change_response = "autonomous_research_handoff" THEN Latest(history).id
  ELSE history[CHOOSE k \in DOMAIN history :
                 /\ history[k].result = "change_detected"
                 /\ \A j \in 1 .. k - 1 : history[j].result # "change_detected"].id

\* First run of the streak of errors the history ends with.
ErrorEpisode(history) ==
  history[CHOOSE k \in DOMAIN history :
            /\ \A j \in k .. Len(history) : history[j].result = "error"
            /\ k > 1 => history[k - 1].result # "error"].id

DedupKey(history) ==
  IF Latest(history).result = "change_detected"
    THEN <<"change", ChangeEpisode(history)>>
    ELSE <<"error", ErrorEpisode(history)>>

\* One page of the open Issues, newest first, is searched for the marker.
Listed == {k \in DOMAIN issues : k > Len(issues) - IssuePage}

Matches(key) == {k \in Listed : issues[k].key = key}

\* Fault: an Issue is created without searching for the open one.
DeliveredBlindly(key, run_id) == Append(issues, [key |-> key, runs |-> {run_id}])

\* Create the Issue of the key, or comment on the one that exists.
Delivered(key, run_id) ==
  IF Matches(key) = {}
    THEN Append(issues, [key |-> key, runs |-> {run_id}])
    ELSE LET k == CHOOSE k \in Matches(key) : TRUE
         IN  [issues EXCEPT ![k].runs = @ \cup {run_id}]

Notified(run_id) == \E k \in DOMAIN issues : run_id \in issues[k].runs

-----------------------------------------------------------------------------
(***************************************************************************)
(* The steps of the job.                                                   *)
(***************************************************************************)
At(step) == job.pc = step

\* Fault: the notification step does not say always().
FailingSkipsNotification == [job EXCEPT !.failed = TRUE, !.pc = "failure-notice"]

\* A failed step skips everything but the steps that say always() or failure().
Failing == [job EXCEPT !.failed = TRUE,
                       !.pc = IF job.generated THEN "notify" ELSE "failure-notice"]

FailStep ==
  /\ job.pc \in {"fetch", "recheck", "run-monitor", "reread", "handoff", "preserve-analysis"}
  /\ job' = Failing
  /\ UNCHANGED <<page, artifacts, started, issues>>

\* Fetch the unique newest artifact; two that claim to be it fail the step.
Fetch ==
  /\ At("fetch")
  /\ job' = IF CurrentArtifacts = {}
              THEN [job EXCEPT !.pc = "recheck"]
            ELSE IF Cardinality(CurrentArtifacts) = 1
              THEN [job EXCEPT !.pc = "recheck",
                               !.history = artifacts[CHOOSE k \in CurrentArtifacts : TRUE].history]
            ELSE Failing
  /\ UNCHANGED <<page, artifacts, started, issues>>

\* The recheck lets the job go on, or ends it on evidence of a success today.
Recheck ==
  /\ At("recheck")
  /\ job' = [job EXCEPT !.pc = "run-monitor"]
  /\ UNCHANGED <<page, artifacts, started, issues>>

SkipNotDue ==
  /\ At("recheck")
  /\ Kind = "scheduled"
  /\ job.history # <<>>
  /\ job' = [job EXCEPT !.pc = "end"]
  /\ UNCHANGED <<page, artifacts, started, issues>>

\* Without previous state only the authorized initialization may run, and it
\* has to observe.
Initialize ==
  /\ At("run-monitor")
  /\ job.history = <<>> /\ Kind = "initialization"
  /\ job' = [job EXCEPT !.pc = "upload", !.generated = TRUE,
                        !.history = <<RunEntry("initialized", page)>>]
  /\ UNCHANGED <<page, artifacts, started, issues>>

\* The contract refuses a run ID the history already has.
Observe(succeeds) ==
  LET result == IF ~succeeds THEN "error"
                ELSE IF page # LastContent(job.history) THEN "change_detected"
                ELSE "no_change"
  IN  /\ At("run-monitor")
      /\ job.history # <<>>
      /\ \A k \in DOMAIN job.history : job.history[k].id # RunId
      /\ job' = [job EXCEPT !.pc = "upload", !.generated = TRUE,
                            !.history = Append(@, RunEntry(result, page))]
      /\ UNCHANGED <<page, artifacts, started, issues>>

\* The artifact is stored or not, and the step learns it or not.
Upload(stored, reported) ==
  /\ At("upload")
  /\ reported => stored
  /\ artifacts' = IF stored
                    THEN Append(artifacts, [branch  |-> started[job.run].branch,
                                            attempt |-> job.attempt,
                                            history |-> job.history])
                    ELSE artifacts
  /\ job' = IF reported THEN [job EXCEPT !.pc = "reread"] ELSE Failing
  /\ UNCHANGED <<page, started, issues>>

\* Download the artifact again and verify it.
Reread ==
  /\ At("reread")
  /\ job' = [job EXCEPT !.pc = "handoff", !.reread = TRUE]
  /\ UNCHANGED <<page, artifacts, started, issues>>

\* Build and preserve the handoff of an autonomous change.
Handoff ==
  LET required == /\ change_response = "autonomous_research_handoff"
                  /\ Latest(job.history).result = "change_detected"
  IN  /\ At("handoff")
      /\ job' = [job EXCEPT !.pc = IF required THEN "analyze" ELSE "notify"]
      /\ UNCHANGED <<page, artifacts, started, issues>>

\* The analysis may fail without failing the job yet.
Analyze(how) ==
  /\ At("analyze")
  /\ job' = [job EXCEPT !.pc = "preserve-analysis", !.analyze = how]
  /\ UNCHANGED <<page, artifacts, started, issues>>

PreserveAnalysis ==
  /\ At("preserve-analysis")
  /\ job' = [job EXCEPT !.pc = "notify"]
  /\ UNCHANGED <<page, artifacts, started, issues>>

NotifyEnds(how) == [job EXCEPT !.pc = "receipt", !.notify = how]

\* Nothing to read, or nothing to tell.
NotifyWithoutIssue ==
  /\ At("notify")
  /\ \/ ~job.reread /\ job' = NotifyEnds("failure")
     \/ /\ job.reread
        /\ Latest(job.history).result \notin {"change_detected", "error"}
        /\ job' = NotifyEnds("success")
  /\ UNCHANGED <<page, artifacts, started, issues>>

Notifying ==
  /\ At("notify")
  /\ job.reread
  /\ Latest(job.history).result \in {"change_detected", "error"}

\* One attempt: the Issue request takes effect or not, and is answered or not.
NotifyAttempt(done, answered) ==
  LET key   == DedupKey(job.history)
      tries == job.tries + 1
  IN  /\ Notifying
      /\ answered => done
      /\ done => Cardinality(Matches(key)) <= 1
      /\ issues' = IF done THEN Delivered(key, RunId) ELSE issues
      /\ job' = IF answered THEN [NotifyEnds("success") EXCEPT !.tries = tries]
                ELSE IF tries = MAX_NOTIFICATION_ATTEMPTS
                  THEN [NotifyEnds("failure") EXCEPT !.tries = tries]
                ELSE [job EXCEPT !.tries = tries]
      /\ UNCHANGED <<page, artifacts, started>>

\* Fault: the tolerated notification failure is not surfaced afterwards.
ReceiptForgetsNotification(preserved) ==
  /\ At("receipt")
  /\ preserved => (job.notify = "success" \/ job.tries > 0)
  /\ job' = [job EXCEPT !.failed = @ \/ job.analyze = "failure",
                        !.pc = IF job.failed /\ job.notify # "success"
                                 THEN "failure-notice" ELSE "end"]
  /\ UNCHANGED <<page, artifacts, started, issues>>

\* The receipt is preserved, then failures held back so far are surfaced.  A
\* notification that died before its receipt has nothing to preserve.
Receipt(preserved) ==
  /\ At("receipt")
  /\ preserved => (job.notify = "success" \/ job.tries > 0)
  /\ LET failed == \/ job.failed \/ ~preserved
                   \/ job.notify = "failure" \/ job.analyze = "failure"
     IN  job' = [job EXCEPT !.failed = failed,
                            !.pc = IF failed /\ job.notify # "success"
                                     THEN "failure-notice" ELSE "end"]
  /\ UNCHANGED <<page, artifacts, started, issues>>

FailureReason == IF job.notify = "failure" THEN "notification_failed" ELSE "no_bundle"

\* Report a job without a notification of its own: one Issue per target and day.
FailureNotice(done) ==
  /\ At("failure-notice")
  /\ done => Cardinality(Matches(<<"workflow_failure">>)) <= 1
  /\ issues' = IF done THEN Delivered(<<"workflow_failure">>, <<"none">>) ELSE issues
  /\ job' = [job EXCEPT !.pc = "end"]
  /\ UNCHANGED <<page, artifacts, started>>

Concludes(conclusion) ==
  /\ started' = [started EXCEPT ![job.run].conclusion = conclusion]
  /\ job' = Idle
  /\ UNCHANGED <<page, artifacts, issues>>

EndJob ==
  /\ At("end")
  /\ Concludes(IF job.failed THEN "failure" ELSE "success")

\* The runner disappears: no later step runs, not even the failure report.
RunnerLost ==
  /\ job.pc \notin {"idle", "end"}
  /\ Concludes("failure")

-----------------------------------------------------------------------------
(***************************************************************************)
(* Around the job.                                                         *)
(***************************************************************************)
StartRun(kind, branch) ==
  /\ job = Idle
  /\ Len(started) < MaxRuns
  /\ kind = "scheduled" => branch = "main"
  /\ started' = Append(started, [kind |-> kind, branch |-> branch, attempts |-> 1,
                                 conclusion |-> "none"])
  /\ job' = NewJob(Len(started) + 1, 1)
  /\ UNCHANGED <<page, artifacts, issues>>

Rerun(run) ==
  /\ job = Idle
  /\ started[run].attempts = 1
  /\ Cardinality({r \in DOMAIN started : started[r].attempts > 1}) < MaxReruns
  /\ started' = [started EXCEPT ![run].attempts = @ + 1, ![run].conclusion = "none"]
  /\ job' = NewJob(run, started[run].attempts + 1)
  /\ UNCHANGED <<page, artifacts, issues>>

EditPage ==
  /\ page < MaxEdits
  /\ page' = page + 1
  /\ UNCHANGED <<artifacts, started, job, issues>>

\* The oldest artifact reaches the end of its retention while a newer one of
\* main remains: the target is never left without a run for a whole retention.
ExpireOld ==
  /\ job = Idle
  /\ \E k \in Candidates : k > 1
  /\ artifacts' = Tail(artifacts)
  /\ UNCHANGED <<page, started, job, issues>>

OpenOtherIssue ==
  /\ Cardinality({k \in DOMAIN issues : issues[k].key = <<"other">>}) < MaxOtherIssues
  /\ issues' = Append(issues, [key |-> <<"other">>, runs |-> {}])
  /\ UNCHANGED <<page, artifacts, started, job>>

Init ==
  /\ change_response \in ChangeResponses
  /\ page = 0
  /\ artifacts = <<>>
  /\ started = <<>>
  /\ job = Idle
  /\ issues = <<>>

JobStep ==
  /\ UNCHANGED change_response
  /\ \/ FailStep
     \/ Fetch
     \/ Recheck
     \/ SkipNotDue
     \/ Initialize
     \/ \E succeeds \in BOOLEAN : Observe(succeeds)
     \/ \E stored, reported \in BOOLEAN : Upload(stored, reported)
     \/ Reread
     \/ Handoff
     \/ \E how \in {"success", "failure"} : Analyze(how)
     \/ PreserveAnalysis
     \/ NotifyWithoutIssue
     \/ \E done, answered \in BOOLEAN : NotifyAttempt(done, answered)
     \/ \E preserved \in BOOLEAN : Receipt(preserved)
     \/ \E done \in BOOLEAN : FailureNotice(done)
     \/ EndJob

\* Nothing left to start within the bounds.
Quiet == job = Idle /\ Len(started) = MaxRuns /\ UNCHANGED vars

\* What happens around the job.
Around ==
  /\ UNCHANGED change_response
  /\ \/ RunnerLost
     \/ \E kind \in Kinds, branch \in {"main", "other"} : StartRun(kind, branch)
     \/ \E run \in DOMAIN started : Rerun(run)
     \/ EditPage
     \/ ExpireOld
     \/ OpenOtherIssue

Next == JobStep \/ Around \/ Quiet

Spec == Init /\ [][Next]_vars

\* Steps end by themselves or by the job's timeout-minutes.
FairSpec == Spec /\ WF_vars(JobStep)

-----------------------------------------------------------------------------
(***************************************************************************)
(* Properties.                                                             *)
(***************************************************************************)

MainHistories == {artifacts[k].history : k \in Candidates}

\* The committed states form one line: whatever fails, is lost or is re-run,
\* every bundle on main continues every older one.
OneLineage ==
  \A older, newer \in MainHistories :
    Len(older) <= Len(newer) => IsPrefix(older, newer)

\* A change or an error that ends in a green job has its Issue: neither the
\* tolerated analysis failure nor the tolerated notification failure hides it.
GreenMeansNotified ==
  (/\ At("end") /\ ~job.failed
   /\ job.generated
   /\ Latest(job.history).result \in {"change_detected", "error"}) => Notified(RunId)

\* A job is reported as one without a bundle only when it committed none.
NoBundleNoticeIsTrue ==
  (At("failure-notice") /\ FailureReason = "no_bundle") => ~Committed

\* Lost answers and retries never open a second Issue for one episode.
OneIssuePerEpisode ==
  \A i, j \in DOMAIN issues :
    (issues[i].key = issues[j].key /\ issues[i].key # <<"other">>) => i = j

\* A committed change of the running job surfaces: its Issue is delivered or
\* its workflow run turns red.
ChangeSurfaces ==
  \A run \in 1 .. MaxRuns, attempt \in 0 .. 2 :
    (/\ job # Idle /\ RunId = <<"MRUN", run, attempt>> /\ Committed
     /\ Latest(job.history).result = "change_detected")
    ~> (\/ run \in DOMAIN started /\ started[run].conclusion = "failure"
        \/ Notified(<<"MRUN", run, attempt>>))

\* The report that Issue delivery failed says that the bundle was committed and
\* that delivery was tried three times.
DeliveryNoticeIsTrue ==
  (At("failure-notice") /\ FailureReason = "notification_failed") =>
    Committed /\ job.tries = MAX_NOTIFICATION_ATTEMPTS
=============================================================================
