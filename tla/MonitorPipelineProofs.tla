----------------------- MODULE MonitorPipelineProofs -----------------------
(***************************************************************************)
(* Theorems about MonitorPipeline for any number of workflow runs, re-runs *)
(* and edits, any order of artifacts expiring, and any listing of Issues.  *)
(***************************************************************************)
EXTENDS MonitorPipeline, WellFoundedInduction, TLAPS

\* Every set of positions that is not empty has a least one.
LEMMA LeastExists ==
  ASSUME NEW T, T \subseteq Nat, T # {}
  PROVE  \E x \in T : \A y \in T : x <= y
<1>1. IsWellFoundedOn(OpToRel(<, Nat), Nat)
  BY NatLessThanWellFounded
<1>2. PICK x \in T : \A y \in T : ~(<<y, x>> \in OpToRel(<, Nat))
  BY <1>1, WFMin, Zenon
<1>3. ASSUME NEW y \in T PROVE x <= y
  <2>1. x \in Nat /\ y \in Nat
    OBVIOUS
  <2>2. ~(y < x)
    BY <1>2, <2>1 DEF OpToRel
  <2> QED
    BY <2>1, <2>2
<1> QED
  BY <1>2, <1>3

\* Every set of positions up to n that is not empty has a greatest one.
LEMMA GreatestExists ==
  ASSUME NEW n \in Nat, NEW S \in SUBSET (1 .. n), S # {}
  PROVE  \E x \in S : \A y \in S : y <= x
<1> DEFINE T == {i \in Nat : \A y \in S : y <= i}
<1>1. T \subseteq Nat /\ n \in T
  OBVIOUS
<1>2. PICK x \in T : \A y \in T : x <= y
  BY <1>1, LeastExists
<1>3. ASSUME x \notin S PROVE FALSE
  <2>1. x \in Nat /\ \A y \in S : y \in Nat /\ y < x
    BY <1>2, <1>3
  <2>2. PICK s \in S : s \in Nat /\ s >= 1 /\ s < x
    <3>1. PICK s \in S : TRUE
      OBVIOUS
    <3>2. s \in 1 .. n
      OBVIOUS
    <3> QED
      BY <2>1, <3>1, <3>2
  <2>3. x - 1 \in T
    BY <2>1, <2>2
  <2> QED
    BY <1>2, <2>1, <2>3
<1> QED
  BY <1>2, <1>3

\* A prefix stays one when an entry is appended, and is shorter then.
LEMMA PrefixAppend ==
  ASSUME NEW S, NEW s \in Seq(S), NEW t \in Seq(S), NEW e \in S, IsPrefix(s, t)
  PROVE  IsPrefix(s, Append(t, e)) /\ Len(s) < Len(Append(t, e))
<1>1. /\ Len(s) \in Nat /\ Len(t) \in Nat /\ Len(s) <= Len(t)
      /\ SubSeq(s, 1, Len(s)) = SubSeq(t, 1, Len(s))
      /\ Append(t, e) \in Seq(S) /\ Len(Append(t, e)) = Len(t) + 1
      /\ \A i \in 1 .. Len(t) : Append(t, e)[i] = t[i]
  BY DEF IsPrefix
<1>2. SubSeq(t, 1, Len(s)) = SubSeq(Append(t, e), 1, Len(s))
  BY <1>1
<1> QED
  BY <1>1, <1>2 DEF IsPrefix

\* A history is a prefix of itself.
LEMMA PrefixRefl ==
  ASSUME NEW S, NEW s \in Seq(S)
  PROVE  IsPrefix(s, s)
BY DEF IsPrefix

-----------------------------------------------------------------------------
(***************************************************************************)
(* Type correctness.                                                       *)
(***************************************************************************)

Steps == {"fetch", "recheck", "run-monitor", "upload", "reread", "handoff", "analyze",
          "preserve-analysis", "notify", "receipt", "failure-notice", "end"}

RunIds == {<<"MRUN", run, attempt>> : run \in Nat, attempt \in Nat} \cup {<<"INIT">>}

HistoryEntry == [id : RunIds, content : Nat,
                 result : {"initialized", "no_change", "change_detected", "error"}]

Artifact == [branch : {"main", "other"}, attempt : Nat, history : Seq(HistoryEntry)]

WorkflowRun == [kind : Kinds, branch : {"main", "other"}, attempts : Nat,
                conclusion : {"none", "success", "failure"}]

Outcomes == {"skipped", "success", "failure"}

Job == [pc : Steps, run : Nat, attempt : Nat, history : Seq(HistoryEntry),
        generated : BOOLEAN, reread : BOOLEAN, notify : Outcomes, tries : Nat,
        analyze : Outcomes, failed : BOOLEAN]

Keys == {<<about, id>> : about \in {"change", "error"}, id \in RunIds}
          \cup {<<"workflow_failure">>, <<"other">>}

Issue == [key : Keys, runs : SUBSET (RunIds \cup {<<"none">>})]

TypeOK ==
  /\ change_response \in {"human_review", "autonomous_research_handoff"}
  /\ page \in Nat
  /\ artifacts \in Seq(Artifact)
  /\ started \in Seq(WorkflowRun)
  /\ \/ job = Idle
     \/ job \in Job /\ job.run \in DOMAIN started
  /\ issues \in Seq(Issue)

\* A job that generated a bundle has a history; one that has not is at its start.
GeneratedInv ==
  job # Idle =>
    /\ job.generated => job.history # <<>>
    /\ job.reread => job.generated
    /\ job.pc \in {"fetch", "recheck", "run-monitor"} => ~job.generated
    /\ job.pc \in {"upload", "reread", "handoff", "analyze", "preserve-analysis",
                   "notify", "receipt"} => job.generated

TypeInv == TypeOK /\ GeneratedInv

\* The job at a step is a running one.
LEMMA JobRuns ==
  ASSUME TypeOK, job.pc # "idle"
  PROVE  job \in Job /\ job.run \in DOMAIN started /\ Kind \in Kinds /\ RunId \in RunIds
         /\ started[job.run] \in WorkflowRun /\ job # Idle
<1>1. job \in Job /\ job.run \in DOMAIN started
  BY DEF TypeOK, Idle
<1>2. started[job.run] \in WorkflowRun
  BY <1>1 DEF TypeOK
<1>3. Kind \in Kinds
  BY <1>2 DEF WorkflowRun, Kind
<1>4. job.run \in Nat /\ job.attempt \in Nat /\ job # Idle
  BY <1>1 DEF Job, Idle, Steps
<1>5. RunId \in RunIds
  BY <1>3, <1>4 DEF RunId, RunIds, Kinds
<1> QED
  BY <1>1, <1>2, <1>3, <1>4, <1>5

\* The latest entry of a history that is not empty.
LEMMA LatestEntry ==
  ASSUME NEW history \in Seq(HistoryEntry), history # <<>>
  PROVE  Latest(history) \in HistoryEntry /\ Len(history) \in DOMAIN history
BY DEF Latest

\* The key of an Issue names an episode that a run of the history began.
LEMMA DedupKeyType ==
  ASSUME NEW history \in Seq(HistoryEntry), history # <<>>,
         Latest(history).result \in {"change_detected", "error"}
  PROVE  DedupKey(history) \in {<<about, id>> : about \in {"change", "error"}, id \in RunIds}
<1> DEFINE n == Len(history)
<1>1. n \in Nat /\ n >= 1 /\ DOMAIN history = 1 .. n
  OBVIOUS
<1>2. \A k \in 1 .. n : history[k].id \in RunIds
  <2>1. \A k \in 1 .. n : history[k] \in HistoryEntry
    BY <1>1
  <2> QED
    BY <2>1 DEF HistoryEntry
<1>3. Latest(history) = history[n]
  BY DEF Latest
<1>4. ASSUME Latest(history).result = "change_detected"
      PROVE  ChangeEpisode(history) \in RunIds
  <2> DEFINE changes == {k \in 1 .. n : history[k].result = "change_detected"}
  <2>1. n \in changes /\ changes \subseteq Nat
    BY <1>1, <1>3, <1>4
  <2>2. PICK k \in changes : \A j \in changes : k <= j
    BY <2>1, LeastExists
  <2>3. \A j \in 1 .. k - 1 : history[j].result # "change_detected"
    BY <1>1, <2>2
  <2>4. \E i \in DOMAIN history :
          /\ history[i].result = "change_detected"
          /\ \A j \in 1 .. i - 1 : history[j].result # "change_detected"
    BY <1>1, <2>2, <2>3
  <2> QED
    BY <1>1, <1>2, <1>3, <2>4 DEF ChangeEpisode
<1>5. ASSUME Latest(history).result = "error"
      PROVE  ErrorEpisode(history) \in RunIds
  <2> DEFINE streak == {k \in 1 .. n : \A j \in k .. n : history[j].result = "error"}
  <2>1. n \in streak /\ streak \subseteq Nat
    BY <1>1, <1>3, <1>5
  <2>2. PICK k \in streak : \A j \in streak : k <= j
    BY <2>1, LeastExists
  <2>3. ASSUME k > 1 PROVE history[k - 1].result # "error"
    <3>1. k - 1 \in 1 .. n /\ k - 1 \notin streak /\ k \in 1 .. n
      BY <1>1, <2>2, <2>3
    <3>2. \A j \in k - 1 .. n : j = k - 1 \/ j \in k .. n
      BY <1>1, <3>1
    <3> QED
      BY <2>2, <3>1, <3>2
  <2>4. \E i \in DOMAIN history :
          /\ \A j \in i .. Len(history) : history[j].result = "error"
          /\ i > 1 => history[i - 1].result # "error"
    BY <1>1, <2>2, <2>3
  <2> QED
    BY <1>1, <1>2, <2>4 DEF ErrorEpisode
<1> QED
  BY <1>4, <1>5 DEF DedupKey

\* A delivery opens an Issue or adds the run to one; no run leaves an Issue.
LEMMA DeliveredIssues ==
  ASSUME issues \in Seq(Issue), NEW key \in Keys, NEW run_id \in RunIds \cup {<<"none">>}
  PROVE  /\ Delivered(key, run_id) \in Seq(Issue)
         /\ \E k \in DOMAIN Delivered(key, run_id) : run_id \in Delivered(key, run_id)[k].runs
         /\ \A i \in DOMAIN issues :
              /\ i \in DOMAIN Delivered(key, run_id)
              /\ Delivered(key, run_id)[i].key = issues[i].key
              /\ issues[i].runs \subseteq Delivered(key, run_id)[i].runs
<1> DEFINE new == [key |-> key, runs |-> {run_id}]
<1>1. new \in Issue
  BY DEF Issue
<1>2. CASE Matches(key) = {}
  <2>1. Delivered(key, run_id) = Append(issues, new)
    BY <1>2 DEF Delivered
  <2>2. new.runs = {run_id}
    OBVIOUS
  <2> HIDE DEF new
  <2>3. /\ Append(issues, new) \in Seq(Issue) /\ Len(issues) + 1 \in DOMAIN Append(issues, new)
        /\ Append(issues, new)[Len(issues) + 1] = new
        /\ \A i \in DOMAIN issues : i \in DOMAIN Append(issues, new)
                                    /\ Append(issues, new)[i] = issues[i]
    BY <1>1
  <2> QED
    BY <2>1, <2>2, <2>3
<1>3. CASE Matches(key) # {}
  <2> DEFINE k == CHOOSE k \in Matches(key) : TRUE
             row == [issues[k] EXCEPT !.runs = @ \cup {run_id}]
  <2>1. k \in DOMAIN issues /\ issues[k] \in Issue
    BY <1>3 DEF Matches, Listed
  <2>2. Delivered(key, run_id) = [issues EXCEPT ![k] = row]
    BY <1>3 DEF Delivered
  <2> HIDE DEF k
  <2>3. row \in Issue /\ row.key = issues[k].key /\ row.runs = issues[k].runs \cup {run_id}
    BY <2>1 DEF Issue
  <2> HIDE DEF row
  <2> QED
    BY <2>1, <2>2, <2>3
<1> QED
  BY <1>2, <1>3

\* A failed step keeps the job and its history.
LEMMA FailingType ==
  ASSUME TypeInv, job.pc # "idle"
  PROVE  /\ Failing \in Job /\ Failing.run = job.run /\ Failing.attempt = job.attempt
         /\ Failing.history = job.history /\ Failing.generated = job.generated
         /\ Failing.notify = job.notify /\ Failing.reread = job.reread
         /\ Failing.failed = TRUE
         /\ Failing.pc = IF job.generated THEN "notify" ELSE "failure-notice"
<1>1. job \in Job
  BY JobRuns DEF TypeInv
<1> QED
  BY <1>1 DEF Failing, Job, Steps

\* Nothing has run before the first workflow run.
LEMMA InitTypeInv == Init => TypeInv
BY PipelineAssumption DEF Init, TypeInv, TypeOK, GeneratedInv

\* The current artifact is one of the store.
LEMMA CurrentType ==
  ASSUME TypeOK, CurrentArtifacts # {}
  PROVE  LET k == CHOOSE k \in CurrentArtifacts : TRUE IN
         k \in CurrentArtifacts /\ k \in Candidates /\ k \in DOMAIN artifacts
         /\ artifacts[k] \in Artifact /\ artifacts[k].history \in Seq(HistoryEntry)
<1> DEFINE k == CHOOSE k \in CurrentArtifacts : TRUE
<1>1. k \in CurrentArtifacts
  OBVIOUS
<1>2. k \in Candidates /\ k \in DOMAIN artifacts
  BY <1>1 DEF CurrentArtifacts, HighestVersion, Candidates
<1>3. artifacts[k] \in Artifact
  BY <1>2 DEF TypeOK
<1> QED
  BY <1>1, <1>2, <1>3 DEF Artifact

\* A concluded job leaves a row of the workflow runs.
LEMMA ConclusionType ==
  ASSUME TypeOK, job.pc # "idle", NEW conclusion \in {"success", "failure"},
         Concludes(conclusion)
  PROVE  job # Idle /\ started' \in Seq(WorkflowRun)
<1> DEFINE r == job.run
           row == [started[r] EXCEPT !.conclusion = conclusion]
<1>1. r \in DOMAIN started /\ started[r] \in WorkflowRun /\ job # Idle
      /\ started \in Seq(WorkflowRun)
  BY JobRuns DEF TypeOK
<1>2. started' = [started EXCEPT ![r] = row]
  BY DEF Concludes
<1>3. row \in WorkflowRun
  BY <1>1 DEF WorkflowRun
<1> HIDE DEF r, row
<1> QED
  BY <1>1, <1>2, <1>3

\* Every step of the job keeps the types, and keeps it the same job until it ends.
LEMMA JobStepType ==
  ASSUME TypeInv, JobStep
  PROVE  /\ TypeInv'
         /\ job # Idle
         /\ job' # Idle => /\ started' = started
                           /\ job'.run = job.run /\ job'.attempt = job.attempt
<1>0. /\ TypeOK /\ GeneratedInv /\ UNCHANGED change_response
  BY DEF TypeInv, JobStep
<1>a. ASSUME job.pc # "idle", UNCHANGED <<page, artifacts, started, issues>>,
             job' \in Job, job'.run = job.run, job'.attempt = job.attempt, GeneratedInv'
      PROVE  /\ TypeInv' /\ job # Idle
             /\ started' = started /\ job'.run = job.run /\ job'.attempt = job.attempt
  BY <1>0, <1>a, JobRuns DEF TypeInv, TypeOK
<1>b. ASSUME job.pc # "idle"
      PROVE  /\ job \in Job /\ job # Idle /\ RunId \in RunIds
             /\ job.generated => job.history # <<>>
             /\ job.reread => job.generated
  BY <1>0, <1>b, JobRuns DEF GeneratedInv
<1> DEFINE Goal == /\ TypeInv' /\ job # Idle
                   /\ job' # Idle => /\ started' = started
                                     /\ job'.run = job.run /\ job'.attempt = job.attempt
<1>c. ASSUME job.pc # "idle", job' = Failing, UNCHANGED <<page, artifacts, started, issues>>
      PROVE  Goal
  BY <1>a, <1>b, <1>c, FailingType DEF GeneratedInv
<1>1. CASE FailStep
  BY <1>c, <1>1 DEF FailStep
<1>2. CASE Fetch
  <2>1. /\ job.pc = "fetch" /\ job \in Job /\ ~job.generated /\ ~job.reread
        /\ UNCHANGED <<page, artifacts, started, issues>>
    BY <1>0, <1>2, <1>b DEF Fetch, At, GeneratedInv, Job
  <2>2. CASE job' = Failing
    BY <1>2, <1>c, <2>1, <2>2 DEF Fetch
  <2>3. CASE job' = [job EXCEPT !.pc = "recheck"]
    <3>1. job' \in Job /\ job'.run = job.run /\ job'.attempt = job.attempt
          /\ ~job'.generated /\ ~job'.reread /\ job'.pc = "recheck"
      BY <2>1, <2>3 DEF Job, Steps
    <3> QED
      BY <1>a, <2>1, <3>1 DEF GeneratedInv
  <2>4. CASE /\ CurrentArtifacts # {}
             /\ job' = [job EXCEPT !.pc = "recheck",
                          !.history = artifacts[CHOOSE k \in CurrentArtifacts : TRUE].history]
    <3> DEFINE history == artifacts[CHOOSE k \in CurrentArtifacts : TRUE].history
    <3>1. history \in Seq(HistoryEntry)
      BY <1>0, <2>4, CurrentType
    <3>2. job' = [job EXCEPT !.pc = "recheck", !.history = history]
      BY <2>4
    <3> HIDE DEF history
    <3>3. job' \in Job /\ job'.run = job.run /\ job'.attempt = job.attempt
          /\ ~job'.generated /\ ~job'.reread /\ job'.pc = "recheck"
      BY <2>1, <3>1, <3>2 DEF Job, Steps
    <3> QED
      BY <1>a, <2>1, <3>3 DEF GeneratedInv
  <2> QED
    BY <1>2, <2>2, <2>3, <2>4 DEF Fetch
<1>3. CASE Recheck
  BY <1>0, <1>3, <1>a, <1>b DEF Recheck, At, Job, Steps, GeneratedInv
<1>4. CASE SkipNotDue
  BY <1>0, <1>4, <1>a, <1>b DEF SkipNotDue, At, Job, Steps, GeneratedInv
<1>e. ASSUME job.pc # "idle", NEW result \in {"initialized", "no_change", "change_detected", "error"}
      PROVE  RunEntry(result, page) \in HistoryEntry
  BY <1>0, <1>b, <1>e DEF RunEntry, HistoryEntry, TypeOK
<1>5. CASE Initialize
  <2> DEFINE entry == RunEntry("initialized", page)
             history == <<entry>>
  <2>1. /\ entry \in HistoryEntry /\ job.pc = "run-monitor" /\ job \in Job
        /\ job' = [job EXCEPT !.pc = "upload", !.generated = TRUE, !.history = history]
        /\ UNCHANGED <<page, artifacts, started, issues>>
    BY <1>5, <1>b, <1>e DEF Initialize, At
  <2> HIDE DEF entry
  <2>2. history \in Seq(HistoryEntry) /\ history # <<>>
    BY <2>1
  <2> HIDE DEF history
  <2> QED
    BY <1>0, <1>a, <2>1, <2>2 DEF Job, Steps, GeneratedInv
<1>6. ASSUME NEW succeeds \in BOOLEAN, Observe(succeeds)
      PROVE  Goal
  <2> DEFINE result == IF ~succeeds THEN "error"
                       ELSE IF page # LastContent(job.history) THEN "change_detected"
                       ELSE "no_change"
             entry == RunEntry(result, page)
             history == Append(job.history, entry)
  <2>1. /\ entry \in HistoryEntry /\ job.pc = "run-monitor" /\ job \in Job
        /\ job' = [job EXCEPT !.pc = "upload", !.generated = TRUE, !.history = history]
    BY <1>6, <1>b, <1>e DEF Observe, At
  <2> HIDE DEF entry
  <2>2. history \in Seq(HistoryEntry) /\ history # <<>>
    <3>1. job.history \in Seq(HistoryEntry)
      BY <2>1 DEF Job
    <3> QED
      BY <2>1, <3>1
  <2> HIDE DEF history
  <2> QED
    BY <1>0, <1>6, <1>a, <2>1, <2>2 DEF Observe, Job, Steps, GeneratedInv
<1>7. ASSUME NEW stored \in BOOLEAN, NEW reported \in BOOLEAN, Upload(stored, reported)
      PROVE  Goal
  <2> DEFINE row == [branch |-> started[job.run].branch, attempt |-> job.attempt,
                     history |-> job.history]
  <2>1. job.pc = "upload" /\ job \in Job /\ job.run \in DOMAIN started /\ job # Idle
        /\ started[job.run] \in WorkflowRun /\ job.generated
    BY <1>0, <1>7, JobRuns DEF Upload, At, GeneratedInv
  <2>2. row \in Artifact
    BY <2>1 DEF Artifact, Job, WorkflowRun
  <2> HIDE DEF row
  <2>3. artifacts' \in Seq(Artifact)
    BY <1>0, <1>7, <2>2 DEF Upload, TypeOK, row
  <2>4. /\ job' \in Job /\ job'.run = job.run /\ job'.attempt = job.attempt
        /\ GeneratedInv'
    BY <1>0, <1>7, <2>1, FailingType, <1>b DEF Upload, Job, Steps, GeneratedInv, TypeInv
  <2> QED
    BY <1>0, <1>7, <2>1, <2>3, <2>4 DEF Upload, TypeInv, TypeOK
<1>8. CASE Reread
  BY <1>0, <1>8, <1>a, <1>b DEF Reread, At, Job, Steps, GeneratedInv
<1>9. CASE Handoff
  BY <1>0, <1>9, <1>a, <1>b DEF Handoff, At, Job, Steps, GeneratedInv
<1>10. ASSUME NEW how \in {"success", "failure"}, Analyze(how)
       PROVE  Goal
  BY <1>0, <1>10, <1>a, <1>b DEF Analyze, At, Job, Steps, Outcomes, GeneratedInv
<1>11. CASE PreserveAnalysis
  BY <1>0, <1>11, <1>a, <1>b DEF PreserveAnalysis, At, Job, Steps, GeneratedInv
<1>12. CASE NotifyWithoutIssue
  BY <1>0, <1>12, <1>a, <1>b DEF NotifyWithoutIssue, NotifyEnds, At, Job, Steps, Outcomes, GeneratedInv
<1>13. ASSUME NEW done \in BOOLEAN, NEW answered \in BOOLEAN, NotifyAttempt(done, answered)
       PROVE  Goal
  <2>1. job.pc = "notify" /\ job \in Job /\ RunId \in RunIds /\ job.reread /\ job.generated
        /\ job.history # <<>> /\ job.history \in Seq(HistoryEntry)
        /\ Latest(job.history).result \in {"change_detected", "error"}
    BY <1>0, <1>13, <1>b DEF NotifyAttempt, Notifying, At, Job
  <2>2. DedupKey(job.history) \in Keys
    BY <2>1, DedupKeyType DEF Keys
  <2>3. issues' \in Seq(Issue)
    BY <1>0, <1>13, <2>1, <2>2, DeliveredIssues DEF NotifyAttempt, TypeOK
  <2>4. /\ job' \in Job /\ job'.run = job.run /\ job'.attempt = job.attempt
        /\ GeneratedInv'
    <3> DEFINE tries == job.tries + 1
    <3>1. tries \in Nat
      BY <2>1 DEF Job
    <3>2. \/ job' = [[job EXCEPT !.pc = "receipt", !.notify = "success"] EXCEPT !.tries = tries]
          \/ job' = [[job EXCEPT !.pc = "receipt", !.notify = "failure"] EXCEPT !.tries = tries]
          \/ job' = [job EXCEPT !.tries = tries]
      BY <1>13 DEF NotifyAttempt, NotifyEnds
    <3> HIDE DEF tries
    <3>3. ASSUME NEW how \in {"success", "failure"},
                 job' = [[job EXCEPT !.pc = "receipt", !.notify = how] EXCEPT !.tries = tries]
          PROVE  /\ job' \in Job /\ job'.run = job.run /\ job'.attempt = job.attempt
                 /\ GeneratedInv'
      BY <2>1, <3>1, <3>3 DEF Job, Steps, Outcomes, GeneratedInv
    <3>4. CASE job' = [job EXCEPT !.tries = tries]
      BY <1>0, <2>1, <3>1, <3>4 DEF Job, Steps, Outcomes, GeneratedInv
    <3> QED
      BY <3>2, <3>3, <3>4
  <2> QED
    BY <1>0, <1>13, <1>b, <2>1, <2>3, <2>4 DEF NotifyAttempt, TypeInv, TypeOK
<1>14. ASSUME NEW preserved \in BOOLEAN, Receipt(preserved)
       PROVE  Goal
  <2> DEFINE failed == \/ job.failed \/ ~preserved
                       \/ job.notify = "failure" \/ job.analyze = "failure"
             next == IF failed /\ job.notify # "success" THEN "failure-notice" ELSE "end"
  <2>1. /\ job' = [job EXCEPT !.failed = failed, !.pc = next]
        /\ job.pc = "receipt" /\ job \in Job
        /\ UNCHANGED <<page, artifacts, started, issues>>
    BY <1>14, <1>b DEF Receipt, At
  <2>2. failed \in BOOLEAN /\ next \in {"failure-notice", "end"}
    BY <2>1 DEF Job
  <2> HIDE DEF failed, next
  <2> QED
    BY <1>0, <1>a, <1>b, <2>1, <2>2 DEF Job, Steps, GeneratedInv
<1>15. ASSUME NEW done \in BOOLEAN, FailureNotice(done)
       PROVE  Goal
  <2>1. job.pc = "failure-notice" /\ job \in Job
    BY <1>15, <1>b DEF FailureNotice, At
  <2>2. issues' \in Seq(Issue)
    BY <1>0, <1>15, DeliveredIssues DEF FailureNotice, Keys, TypeOK
  <2>3. /\ job' \in Job /\ job'.run = job.run /\ job'.attempt = job.attempt /\ GeneratedInv'
    BY <1>0, <1>15, <1>b, <2>1 DEF FailureNotice, Job, Steps, GeneratedInv
  <2> QED
    BY <1>0, <1>15, <1>b, <2>1, <2>2, <2>3 DEF FailureNotice, TypeInv, TypeOK
<1>16. CASE EndJob
  <2>1. job # Idle /\ started' \in Seq(WorkflowRun)
    BY <1>0, <1>16, ConclusionType DEF EndJob, At
  <2> QED
    BY <1>0, <1>16, <2>1 DEF EndJob, Concludes, TypeInv, TypeOK, GeneratedInv
<1> QED
  BY <1>1, <1>2, <1>3, <1>4, <1>5, <1>6, <1>7, <1>8, <1>9, <1>10, <1>11, <1>12, <1>13,
     <1>14, <1>15, <1>16 DEF JobStep

\* So does everything around the job.
LEMMA AroundType ==
  ASSUME TypeInv, Around
  PROVE  TypeInv'
<1>0. TypeOK /\ UNCHANGED change_response
  BY DEF TypeInv, Around
<1>1. CASE RunnerLost
  <2>1. job # Idle /\ started' \in Seq(WorkflowRun)
    BY <1>0, <1>1, ConclusionType DEF RunnerLost
  <2> QED
    BY <1>0, <1>1, <2>1 DEF RunnerLost, Concludes, TypeInv, TypeOK, GeneratedInv
<1>2. ASSUME NEW kind \in Kinds, NEW branch \in {"main", "other"}, StartRun(kind, branch)
      PROVE  TypeInv'
  <2> DEFINE row == [kind |-> kind, branch |-> branch, attempts |-> 1, conclusion |-> "none"]
             n == Len(started) + 1
  <2>1. row \in WorkflowRun
    BY DEF WorkflowRun
  <2>2. started' = Append(started, row) /\ job' = NewJob(n, 1)
        /\ UNCHANGED <<page, artifacts, issues>>
    BY <1>2 DEF StartRun
  <2> HIDE DEF row
  <2>3. started' \in Seq(WorkflowRun) /\ n \in DOMAIN started' /\ n \in Nat
    BY <1>0, <2>1, <2>2 DEF TypeOK
  <2> HIDE DEF n
  <2>4. NewJob(n, 1) \in Job /\ NewJob(n, 1).run = n
        /\ ~NewJob(n, 1).generated /\ ~NewJob(n, 1).reread /\ NewJob(n, 1).pc = "fetch"
    BY <2>3 DEF NewJob, Job, Steps, Outcomes
  <2> QED
    BY <1>0, <2>2, <2>3, <2>4 DEF TypeInv, TypeOK, GeneratedInv
<1>3. ASSUME NEW run \in DOMAIN started, Rerun(run)
      PROVE  TypeInv'
  <2> DEFINE again == started[run].attempts + 1
             row == [started[run] EXCEPT !.attempts = again, !.conclusion = "none"]
  <2>1. started[run] \in WorkflowRun /\ run \in Nat /\ started \in Seq(WorkflowRun)
    BY <1>0 DEF TypeOK
  <2>2. again \in Nat
    BY <2>1 DEF WorkflowRun
  <2>3. started' = [started EXCEPT ![run] = row] /\ job' = NewJob(run, again)
        /\ UNCHANGED <<page, artifacts, issues>>
    BY <1>3, <2>1 DEF Rerun, WorkflowRun
  <2> HIDE DEF again
  <2>4. row \in WorkflowRun
    BY <2>1, <2>2 DEF WorkflowRun
  <2> HIDE DEF row
  <2>5. started' \in Seq(WorkflowRun) /\ run \in DOMAIN started'
    BY <2>1, <2>3, <2>4
  <2>6. NewJob(run, again) \in Job /\ NewJob(run, again).run = run
        /\ ~NewJob(run, again).generated /\ ~NewJob(run, again).reread
        /\ NewJob(run, again).pc = "fetch"
    BY <2>1, <2>2 DEF NewJob, Job, Steps, Outcomes
  <2> QED
    BY <1>0, <2>3, <2>5, <2>6 DEF TypeInv, TypeOK, GeneratedInv
<1>4. CASE EditPage
  BY <1>0, <1>4 DEF EditPage, TypeInv, TypeOK, GeneratedInv
<1>5. CASE ExpireOld
  <2>1. artifacts # <<>>
    BY <1>0, <1>5 DEF ExpireOld, Candidates
  <2>2. artifacts' \in Seq(Artifact)
    BY <1>0, <1>5, <2>1 DEF ExpireOld, TypeOK
  <2> QED
    BY <1>0, <1>5, <2>2 DEF ExpireOld, TypeInv, TypeOK, GeneratedInv
<1>6. CASE OpenOtherIssue
  <2>1. [key |-> <<"other">>, runs |-> {}] \in Issue
    BY DEF Issue, Keys
  <2>2. issues' \in Seq(Issue)
    BY <1>0, <1>6, <2>1 DEF OpenOtherIssue, TypeOK
  <2> QED
    BY <1>0, <1>6, <2>2 DEF OpenOtherIssue, TypeInv, TypeOK, GeneratedInv
<1> QED
  BY <1>1, <1>2, <1>3, <1>4, <1>5, <1>6 DEF Around

\* Every step keeps the types.
LEMMA NextTypeInv == TypeInv /\ [Next]_vars => TypeInv'
<1>1. TypeInv /\ UNCHANGED vars => TypeInv'
  BY DEF TypeInv, TypeOK, GeneratedInv, vars
<1> QED
  BY <1>1, JobStepType, AroundType DEF Next, Quiet

-----------------------------------------------------------------------------
(***************************************************************************)
(* One line of committed states.                                           *)
(***************************************************************************)

\* The artifacts of main were uploaded in the order of their histories.
LineInv ==
  /\ \A k \in Candidates : artifacts[k].history # <<>>
  /\ \A k, j \in Candidates :
       k < j => /\ IsPrefix(artifacts[k].history, artifacts[j].history)
                /\ Len(artifacts[k].history) < Len(artifacts[j].history)

\* What a job fetched continues every artifact, and what it uploads is longer.
FetchedInv ==
  job # Idle =>
    /\ job.pc \in {"recheck", "run-monitor", "upload"} =>
         \A k \in Candidates : IsPrefix(artifacts[k].history, job.history)
    /\ job.pc = "upload" =>
         \A k \in Candidates : Len(artifacts[k].history) < Len(job.history)

LineageInv == TypeInv /\ LineInv /\ FetchedInv

\* An artifact of main has a history.
LEMMA CandidateType ==
  ASSUME TypeOK, NEW k \in Candidates
  PROVE  /\ k \in DOMAIN artifacts /\ k \in 1 .. Len(artifacts) /\ Len(artifacts) \in Nat
         /\ artifacts[k] \in Artifact
         /\ artifacts[k].history \in Seq(HistoryEntry)
         /\ artifacts[k].attempt \in Nat
         /\ Len(artifacts[k].history) \in Nat
<1>1. k \in DOMAIN artifacts /\ k \in 1 .. Len(artifacts) /\ Len(artifacts) \in Nat
  BY DEF Candidates, TypeOK
<1>2. artifacts[k] \in Artifact
  BY <1>1 DEF TypeOK
<1>3. artifacts[k].history \in Seq(HistoryEntry) /\ artifacts[k].attempt \in Nat
  BY <1>2 DEF Artifact
<1> QED
  BY <1>1, <1>2, <1>3

\* The current artifact is the newest of main, and none is current only when
\* main has none.
LEMMA CurrentIsNewest ==
  ASSUME TypeOK, LineInv
  PROVE  /\ \A k \in CurrentArtifacts : \A j \in Candidates :
              /\ j <= k
              /\ IsPrefix(artifacts[j].history, artifacts[k].history)
         /\ CurrentArtifacts = {} => Candidates = {}
<1>1. ASSUME NEW k \in CurrentArtifacts, NEW j \in Candidates
      PROVE  j <= k /\ IsPrefix(artifacts[j].history, artifacts[k].history)
  <2>1. k \in Candidates /\ Len(artifacts[j].history) <= Len(artifacts[k].history)
    BY <1>1 DEF CurrentArtifacts, HighestVersion
  <2>2. /\ j \in Nat /\ k \in Nat
        /\ Len(artifacts[j].history) \in Nat /\ Len(artifacts[k].history) \in Nat
        /\ artifacts[k].history \in Seq(HistoryEntry)
    BY <1>1, <2>1, CandidateType
  <2>3. ~(k < j)
    BY <1>1, <2>1, <2>2 DEF LineInv
  <2>4. CASE j = k
    BY <2>2, <2>4, PrefixRefl
  <2>5. CASE j < k
    BY <1>1, <2>1, <2>2, <2>5 DEF LineInv
  <2> QED
    BY <2>2, <2>3, <2>4, <2>5
<1>2. ASSUME Candidates # {} PROVE CurrentArtifacts # {}
  <2> DEFINE n == Len(artifacts)
  <2>1. n \in Nat /\ Candidates \in SUBSET (1 .. n)
    BY DEF Candidates, TypeOK
  <2>2. PICK k \in Candidates : \A j \in Candidates : j <= k
    BY <1>2, <2>1, GreatestExists
  <2>3. \A j \in Candidates :
          /\ Len(artifacts[j].history) \in Nat /\ Len(artifacts[k].history) \in Nat
          /\ artifacts[j].attempt \in Nat
          /\ j # k => Len(artifacts[j].history) < Len(artifacts[k].history)
    <3> TAKE j \in Candidates
    <3>1. j \in Nat /\ k \in Nat
      BY <2>1
    <3> QED
      BY <2>2, <3>1, CandidateType DEF LineInv
  <2>4. k \in HighestVersion
    BY <2>3 DEF HighestVersion
  <2>5. ASSUME NEW j \in HighestVersion PROVE j = k
    <3>1. j \in Candidates /\ Len(artifacts[k].history) <= Len(artifacts[j].history)
      BY <2>5 DEF HighestVersion
    <3> QED
      BY <2>3, <3>1
  <2>6. k \in CurrentArtifacts
    BY <2>3, <2>4, <2>5 DEF CurrentArtifacts
  <2> QED
    BY <2>6
<1> QED
  BY <1>1, <1>2

\* Every step keeps the line: a job uploads only what continues the newest
\* artifact, and expiry takes away only the oldest.
LEMMA LineageStep ==
  ASSUME LineageInv, [Next]_vars
  PROVE  LineInv' /\ FetchedInv'
<1>0. TypeOK /\ TypeInv /\ LineInv /\ FetchedInv /\ TypeInv'
  BY NextTypeInv DEF LineageInv, TypeInv
<1>a. ASSUME UNCHANGED artifacts
      PROVE  LineInv' /\ Candidates' = Candidates
  BY <1>0, <1>a DEF LineInv, Candidates
<1>b. ASSUME UNCHANGED artifacts,
             job'.pc \notin {"recheck", "run-monitor", "upload"}
      PROVE  LineInv' /\ FetchedInv'
  BY <1>a, <1>b DEF FetchedInv
<1>c. ASSUME job.pc # "idle" PROVE job \in Job /\ job # Idle
  BY <1>0, <1>c, JobRuns
<1>d. ASSUME job' = Failing, job.pc # "idle"
      PROVE  job'.pc \notin {"recheck", "run-monitor", "upload"}
  BY <1>0, <1>d, FailingType
<1>1. CASE Fetch
  <2>1. job.pc = "fetch" /\ job \in Job /\ UNCHANGED artifacts
    BY <1>1, <1>c DEF Fetch, At
  <2>2. CASE job' = Failing
    BY <1>b, <1>d, <2>1, <2>2
  <2>3. CASE CurrentArtifacts = {} /\ job' = [job EXCEPT !.pc = "recheck"]
    <3>1. Candidates = {} /\ job'.pc = "recheck"
      BY <1>0, <2>1, <2>3, CurrentIsNewest DEF Job
    <3> QED
      BY <1>a, <2>1, <3>1 DEF FetchedInv
  <2>4. CASE /\ CurrentArtifacts # {}
             /\ job' = [job EXCEPT !.pc = "recheck",
                          !.history = artifacts[CHOOSE k \in CurrentArtifacts : TRUE].history]
    <3> DEFINE k == CHOOSE k \in CurrentArtifacts : TRUE
    <3>1. k \in CurrentArtifacts
      BY <2>4
    <3>2. job'.pc = "recheck" /\ job'.history = artifacts[k].history
      BY <2>1, <2>4 DEF Job
    <3> HIDE DEF k
    <3>3. \A j \in Candidates : IsPrefix(artifacts[j].history, artifacts[k].history)
      BY <1>0, <3>1, CurrentIsNewest
    <3> QED
      BY <1>a, <2>1, <3>2, <3>3 DEF FetchedInv
  <2> QED
    BY <1>1, <2>2, <2>3, <2>4 DEF Fetch
<1>2. CASE Recheck
  <2>1. /\ job.pc = "recheck" /\ job \in Job /\ job # Idle /\ UNCHANGED artifacts
        /\ job' = [job EXCEPT !.pc = "run-monitor"]
    BY <1>2, <1>c DEF Recheck, At
  <2>2. job'.pc = "run-monitor" /\ job'.history = job.history
    BY <2>1 DEF Job
  <2> QED
    BY <1>0, <1>a, <2>1, <2>2 DEF FetchedInv
<1>3. ASSUME NEW entry \in HistoryEntry, job.pc = "run-monitor", UNCHANGED artifacts,
             job' = [job EXCEPT !.pc = "upload", !.generated = TRUE,
                                !.history = Append(@, entry)]
      PROVE  LineInv' /\ FetchedInv'
  <2>1. job \in Job /\ job # Idle /\ job.history \in Seq(HistoryEntry)
    BY <1>3, <1>c DEF Job
  <2>2. job'.pc = "upload" /\ job'.history = Append(job.history, entry)
    BY <1>3, <2>1 DEF Job
  <2>3. ASSUME NEW k \in Candidates
        PROVE  /\ IsPrefix(artifacts[k].history, job'.history)
               /\ Len(artifacts[k].history) < Len(job'.history)
    <3>1. IsPrefix(artifacts[k].history, job.history)
      BY <1>0, <1>3, <2>1 DEF FetchedInv
    <3> QED
      BY <1>0, <2>1, <2>2, <3>1, CandidateType, PrefixAppend
  <2> QED
    BY <1>3, <1>a, <2>2, <2>3 DEF FetchedInv
<1>e. ASSUME job.pc # "idle", NEW result \in {"initialized", "no_change", "change_detected", "error"}
      PROVE  RunEntry(result, page) \in HistoryEntry
  BY <1>0, <1>e, JobRuns DEF RunEntry, HistoryEntry, TypeOK
<1>4. CASE Initialize
  <2> DEFINE entry == RunEntry("initialized", page)
  <2>1. /\ job.pc = "run-monitor" /\ entry \in HistoryEntry /\ job.history = <<>>
        /\ job' = [job EXCEPT !.pc = "upload", !.generated = TRUE, !.history = <<entry>>]
        /\ UNCHANGED artifacts
    BY <1>4, <1>e DEF Initialize, At
  <2> HIDE DEF entry
  <2>2. Append(job.history, entry) = <<entry>>
    BY <2>1
  <2>3. job' = [job EXCEPT !.pc = "upload", !.generated = TRUE, !.history = Append(@, entry)]
    BY <2>1, <2>2
  <2> QED
    BY <1>3, <2>1, <2>3
<1>5. ASSUME NEW succeeds \in BOOLEAN, Observe(succeeds)
      PROVE  LineInv' /\ FetchedInv'
  <2> DEFINE result == IF ~succeeds THEN "error"
                       ELSE IF page # LastContent(job.history) THEN "change_detected"
                       ELSE "no_change"
             entry == RunEntry(result, page)
  <2>1. /\ job.pc = "run-monitor" /\ entry \in HistoryEntry
        /\ job' = [job EXCEPT !.pc = "upload", !.generated = TRUE, !.history = Append(@, entry)]
        /\ UNCHANGED artifacts
    BY <1>5, <1>e DEF Observe, At
  <2> HIDE DEF entry
  <2> QED
    BY <1>3, <2>1
<1>6. ASSUME NEW stored \in BOOLEAN, NEW reported \in BOOLEAN, Upload(stored, reported)
      PROVE  LineInv' /\ FetchedInv'
  <2> DEFINE row == [branch |-> started[job.run].branch, attempt |-> job.attempt,
                     history |-> job.history]
             n == Len(artifacts) + 1
  <2>1. job.pc = "upload" /\ job \in Job /\ job # Idle /\ job.generated /\ job.history # <<>>
    BY <1>0, <1>6, <1>c DEF Upload, At, TypeInv, GeneratedInv
  <2>2. job'.pc \notin {"recheck", "run-monitor", "upload"}
    BY <1>6, <1>d, <2>1 DEF Upload, Job
  <2>3. CASE ~stored
    BY <1>6, <1>b, <2>2, <2>3 DEF Upload
  <2>4. CASE stored
    <3>1. artifacts' = Append(artifacts, row) /\ row.history = job.history
      BY <1>6, <2>4 DEF Upload
    <3> HIDE DEF row
    <3>2. /\ n \in Nat /\ DOMAIN artifacts = 1 .. n - 1 /\ DOMAIN artifacts' = 1 .. n
          /\ artifacts'[n] = row
          /\ \A k \in DOMAIN artifacts : artifacts'[k] = artifacts[k]
      BY <1>0, <3>1 DEF TypeOK
    <3> HIDE DEF n
    <3>3. /\ Candidates' \subseteq Candidates \cup {n}
          /\ \A k \in Candidates : k < n /\ k \in Nat /\ artifacts'[k] = artifacts[k]
      BY <3>2 DEF Candidates
    <3>4. \A k \in Candidates :
            /\ IsPrefix(artifacts[k].history, job.history)
            /\ Len(artifacts[k].history) < Len(job.history)
      BY <1>0, <2>1 DEF FetchedInv
    <3>5. \A k \in Candidates' : artifacts'[k].history # <<>>
      BY <1>0, <2>1, <3>1, <3>2, <3>3 DEF LineInv
    <3>6. ASSUME NEW k \in Candidates', NEW j \in Candidates', k < j
          PROVE  /\ IsPrefix(artifacts'[k].history, artifacts'[j].history)
                 /\ Len(artifacts'[k].history) < Len(artifacts'[j].history)
      <4>1. k \in Candidates /\ artifacts'[k] = artifacts[k]
        BY <3>2, <3>3, <3>6
      <4>2. CASE j \in Candidates
        BY <1>0, <3>3, <3>6, <4>1, <4>2 DEF LineInv
      <4>3. CASE j = n
        BY <3>1, <3>2, <3>4, <4>1, <4>3
      <4> QED
        BY <3>3, <4>2, <4>3
    <3>7. LineInv'
      BY <3>5, <3>6 DEF LineInv
    <3> QED
      BY <2>2, <3>7 DEF FetchedInv
  <2> QED
    BY <2>3, <2>4
<1>7. CASE FailStep
  BY <1>7, <1>b, <1>d DEF FailStep
<1>8. CASE /\ UNCHANGED artifacts /\ job.pc # "idle"
           /\ \E next \in {"end", "handoff", "analyze", "notify", "preserve-analysis",
                           "receipt", "failure-notice"} : job'.pc = next
  BY <1>8, <1>b
<1>9. CASE SkipNotDue \/ Reread \/ Handoff \/ PreserveAnalysis
           \/ \E how \in {"success", "failure"} : Analyze(how)
  BY <1>8, <1>9, <1>c DEF SkipNotDue, Reread, Handoff, PreserveAnalysis, Analyze, At, Job
<1>10. CASE NotifyWithoutIssue
  BY <1>8, <1>10, <1>c DEF NotifyWithoutIssue, NotifyEnds, At, Job
<1>11. ASSUME NEW done \in BOOLEAN, NEW answered \in BOOLEAN, NotifyAttempt(done, answered)
       PROVE  LineInv' /\ FetchedInv'
  <2>1. job.pc = "notify" /\ job \in Job /\ UNCHANGED artifacts
    BY <1>11, <1>c DEF NotifyAttempt, Notifying, At
  <2>2. job'.pc \in {"notify", "receipt"}
    BY <1>11, <2>1 DEF NotifyAttempt, NotifyEnds, Job
  <2> QED
    BY <1>8, <2>1, <2>2
<1>12. CASE \E preserved \in BOOLEAN : Receipt(preserved)
  BY <1>8, <1>12, <1>c DEF Receipt, At, Job
<1>13. CASE \E done \in BOOLEAN : FailureNotice(done)
  BY <1>8, <1>13, <1>c DEF FailureNotice, At, Job
<1>14. CASE EndJob \/ RunnerLost
  BY <1>14, <1>a DEF EndJob, RunnerLost, Concludes, FetchedInv
<1>15. ASSUME UNCHANGED artifacts, NEW run, NEW attempt, job' = NewJob(run, attempt)
       PROVE  LineInv' /\ FetchedInv'
  BY <1>15, <1>b DEF NewJob
<1>16. CASE \/ \E kind \in Kinds, branch \in {"main", "other"} : StartRun(kind, branch)
            \/ \E run \in DOMAIN started : Rerun(run)
  BY <1>15, <1>16 DEF StartRun, Rerun
<1>17. CASE EditPage \/ OpenOtherIssue \/ UNCHANGED vars
  BY <1>0, <1>17, <1>a DEF EditPage, OpenOtherIssue, vars, FetchedInv
<1>18. CASE ExpireOld
  <2>1. artifacts # <<>> /\ artifacts \in Seq(Artifact) /\ artifacts' = Tail(artifacts)
        /\ job' = job /\ job = Idle
    BY <1>0, <1>18 DEF ExpireOld, Candidates, TypeOK
  <2>2. \A k \in DOMAIN artifacts' : /\ k \in Nat /\ k + 1 \in DOMAIN artifacts
                                     /\ artifacts'[k] = artifacts[k + 1]
    BY <2>1
  <2>3. \A k \in Candidates' : /\ k \in Nat /\ k + 1 \in Candidates
                               /\ artifacts'[k] = artifacts[k + 1]
    BY <2>2 DEF Candidates
  <2>4. LineInv'
    BY <1>0, <2>3 DEF LineInv
  <2> QED
    BY <2>1, <2>4 DEF FetchedInv
<1> QED
  BY <1>1, <1>2, <1>4, <1>5, <1>6, <1>7, <1>9, <1>10, <1>11, <1>12, <1>13, <1>14, <1>16,
     <1>17, <1>18 DEF Next, JobStep, Around, Quiet

\* Whatever fails, is lost, expires or is re-run, every bundle on main continues
\* every older one that is still stored.
THEOREM CommittedStatesFormOneLine == Spec => []OneLineage
<1>1. Init => LineageInv
  BY InitTypeInv DEF Init, LineageInv, LineInv, FetchedInv, Candidates
<1>2. LineageInv /\ [Next]_vars => LineageInv'
  BY LineageStep, NextTypeInv DEF LineageInv
<1>3. LineageInv => OneLineage
  <2> SUFFICES ASSUME LineageInv, NEW k \in Candidates, NEW j \in Candidates,
                      Len(artifacts[k].history) <= Len(artifacts[j].history)
               PROVE  IsPrefix(artifacts[k].history, artifacts[j].history)
    BY DEF OneLineage, MainHistories
  <2>1. TypeOK /\ LineInv
    BY DEF LineageInv, TypeInv
  <2>2. /\ k \in Nat /\ j \in Nat /\ artifacts[k].history \in Seq(HistoryEntry)
        /\ Len(artifacts[k].history) \in Nat /\ Len(artifacts[j].history) \in Nat
    BY <2>1, CandidateType
  <2>3. CASE k = j
    BY <2>2, <2>3, PrefixRefl
  <2>4. CASE k # j
    BY <2>1, <2>2, <2>4 DEF LineInv
  <2> QED
    BY <2>3, <2>4
<1> QED
  BY <1>1, <1>2, <1>3, PTL DEF Spec

\* Fetching never meets two artifacts that both claim to be the current state:
\* the refusal in Fetch is for stores the pipeline itself does not produce.
NeverAmbiguous == \A k, j \in CurrentArtifacts : k = j

\* One workflow run at a time is enough for the fetched state to be unique.
THEOREM FetchedStateIsUnique == Spec => []NeverAmbiguous
<1>1. Init => LineageInv
  BY InitTypeInv DEF Init, LineageInv, LineInv, FetchedInv, Candidates
<1>2. LineageInv /\ [Next]_vars => LineageInv'
  BY LineageStep, NextTypeInv DEF LineageInv
<1>3. LineageInv => NeverAmbiguous
  <2> SUFFICES ASSUME LineageInv, NEW k \in CurrentArtifacts, NEW j \in CurrentArtifacts
               PROVE  k = j
    BY DEF NeverAmbiguous
  <2>1. TypeOK /\ LineInv
    BY DEF LineageInv, TypeInv
  <2>2. k \in Candidates /\ j \in Candidates
    BY DEF CurrentArtifacts, HighestVersion
  <2>3. k <= j /\ j <= k
    BY <2>1, <2>2, CurrentIsNewest
  <2> QED
    BY <2>1, <2>2, <2>3, CandidateType
<1> QED
  BY <1>1, <1>2, <1>3, PTL DEF Spec

-----------------------------------------------------------------------------
(***************************************************************************)
(* What a green job and a failure report say is true.                      *)
(***************************************************************************)

Told == {"change_detected", "error"}

\* The notification of a job is its last word but the report of a failure.
NotifiedInv ==
  job # Idle =>
    /\ job.pc \notin {"receipt", "failure-notice", "end"} => job.notify = "skipped"
    /\ job.pc = "receipt" => job.notify # "skipped"
    /\ job.pc = "failure-notice" =>
         job.failed /\ (job.generated => job.notify = "failure")
    /\ job.pc = "end" /\ ~job.failed /\ job.generated => job.notify = "success"
    /\ job.notify = "success" /\ Latest(job.history).result \in Told => Notified(RunId)

ReportInv == TypeInv /\ NotifiedInv

\* A run that an Issue names stays named.
LEMMA NotifiedStays ==
  ASSUME \A i \in DOMAIN issues : i \in DOMAIN issues' /\ issues[i].runs \subseteq issues'[i].runs,
         NEW run_id, Notified(run_id)
  PROVE  \E k \in DOMAIN issues' : run_id \in issues'[k].runs
BY DEF Notified

\* Every step keeps what the notification and the report say true.
LEMMA NotifiedStep ==
  ASSUME ReportInv, [Next]_vars
  PROVE  NotifiedInv'
<1>0. TypeOK /\ TypeInv /\ GeneratedInv /\ NotifiedInv
  BY DEF ReportInv, TypeInv
<1>a. ASSUME job'.notify = "skipped",
             job'.pc \notin {"receipt", "failure-notice", "end"}
      PROVE  NotifiedInv'
  BY <1>a DEF NotifiedInv
<1>b. ASSUME job.pc # "idle"
      PROVE  /\ job \in Job /\ job # Idle /\ RunId \in RunIds
             /\ job.pc \notin {"receipt", "failure-notice", "end"} => job.notify = "skipped"
  BY <1>0, <1>b, JobRuns DEF NotifiedInv
<1>c. ASSUME job' = Failing, job.pc \notin {"idle", "receipt", "failure-notice", "end"}
      PROVE  NotifiedInv'
  <2>1. /\ job'.notify = "skipped" /\ job'.failed = TRUE
        /\ job'.generated = job.generated
        /\ job'.pc = IF job.generated THEN "notify" ELSE "failure-notice"
    BY <1>0, <1>b, <1>c, FailingType
  <2>2. job.generated \in BOOLEAN
    BY <1>b, <1>c DEF Job
  <2> QED
    BY <2>1, <2>2 DEF NotifiedInv
<1>d. ASSUME JobStep, job' # Idle
      PROVE  RunId' = RunId
  BY <1>0, <1>d, JobStepType DEF RunId, Kind
<1>1. CASE FailStep
  BY <1>1, <1>c DEF FailStep
<1>2. CASE Fetch
  <2>1. job.pc = "fetch" /\ job \in Job /\ job.notify = "skipped"
    BY <1>2, <1>b DEF Fetch, At
  <2>2. CASE job' = Failing
    BY <1>c, <2>1, <2>2
  <2>3. CASE job' # Failing
    <3>1. job'.pc = "recheck" /\ job'.notify = "skipped"
      BY <1>2, <2>1, <2>3 DEF Fetch, Job
    <3> QED
      BY <1>a, <3>1
  <2> QED
    BY <2>2, <2>3
<1>3. CASE Recheck \/ Reread \/ PreserveAnalysis
  BY <1>3, <1>a, <1>b DEF Recheck, Reread, PreserveAnalysis, At, Job
<1>4. CASE SkipNotDue
  <2>1. job.pc = "recheck" /\ job \in Job /\ job.notify = "skipped" /\ ~job.generated
    BY <1>0, <1>4, <1>b DEF SkipNotDue, At, GeneratedInv
  <2>2. job'.pc = "end" /\ job'.notify = "skipped" /\ ~job'.generated
    BY <1>4, <2>1 DEF SkipNotDue, Job
  <2> QED
    BY <2>2 DEF NotifiedInv
<1>5. CASE Initialize \/ \E succeeds \in BOOLEAN : Observe(succeeds)
  <2>1. job.pc = "run-monitor" /\ job \in Job /\ job.notify = "skipped"
    BY <1>5, <1>b DEF Initialize, Observe, At
  <2>2. job'.pc = "upload" /\ job'.notify = "skipped"
    BY <1>5, <2>1 DEF Initialize, Observe, Job
  <2> QED
    BY <1>a, <2>2
<1>6. ASSUME NEW stored \in BOOLEAN, NEW reported \in BOOLEAN, Upload(stored, reported)
      PROVE  NotifiedInv'
  <2>1. job.pc = "upload" /\ job \in Job /\ job.notify = "skipped"
    BY <1>6, <1>b DEF Upload, At
  <2>2. CASE job' = Failing
    BY <1>c, <2>1, <2>2
  <2>3. CASE job' = [job EXCEPT !.pc = "reread"]
    BY <1>a, <2>1, <2>3 DEF Job
  <2> QED
    BY <1>6, <2>2, <2>3 DEF Upload
<1>7. CASE Handoff
  <2>1. job.pc = "handoff" /\ job \in Job /\ job.notify = "skipped"
    BY <1>7, <1>b DEF Handoff, At
  <2>2. job'.pc \in {"analyze", "notify"} /\ job'.notify = "skipped"
    BY <1>7, <2>1 DEF Handoff, Job
  <2> QED
    BY <1>a, <2>2
<1>8. ASSUME NEW how \in {"success", "failure"}, Analyze(how)
      PROVE  NotifiedInv'
  BY <1>8, <1>a, <1>b DEF Analyze, At, Job
<1>9. CASE NotifyWithoutIssue
  <2>1. job.pc = "notify" /\ job \in Job
    BY <1>9, <1>b DEF NotifyWithoutIssue, At
  <2>2. \/ job' = [job EXCEPT !.pc = "receipt", !.notify = "failure"]
        \/ /\ job' = [job EXCEPT !.pc = "receipt", !.notify = "success"]
           /\ Latest(job.history).result \notin Told
    BY <1>9 DEF NotifyWithoutIssue, NotifyEnds, Told
  <2>3. /\ job'.pc = "receipt" /\ job'.history = job.history
        /\ job'.notify \in {"failure", "success"}
        /\ job'.notify = "success" => Latest(job.history).result \notin Told
    BY <2>1, <2>2 DEF Job
  <2>4. (Latest(job.history) = Latest(job.history)')
    BY <2>3 DEF Latest
  <2> QED
    BY <2>3, <2>4 DEF NotifiedInv
<1>10. ASSUME NEW done \in BOOLEAN, NEW answered \in BOOLEAN, NotifyAttempt(done, answered),
              JobStep
       PROVE  NotifiedInv'
  <2> DEFINE key == DedupKey(job.history)
             tries == job.tries + 1
  <2>1. /\ job.pc = "notify" /\ job \in Job /\ job # Idle /\ RunId \in RunIds
        /\ job.notify = "skipped"
        /\ job.generated /\ job.history # <<>> /\ job.history \in Seq(HistoryEntry)
    BY <1>0, <1>10, <1>b DEF NotifyAttempt, Notifying, At, GeneratedInv, Job
  <2>2. answered => issues' = Delivered(key, RunId)
    BY <1>10 DEF NotifyAttempt
  <2>3. key \in Keys
    BY <1>10, <2>1, DedupKeyType DEF NotifyAttempt, Notifying, Keys
  <2> HIDE DEF key
  <2>4. answered => \E k \in DOMAIN issues' : RunId \in issues'[k].runs
    <3>1. \E k \in DOMAIN Delivered(key, RunId) : RunId \in Delivered(key, RunId)[k].runs
      BY <1>0, <2>1, <2>3, DeliveredIssues DEF TypeOK
    <3> QED
      BY <2>2, <3>1
  <2>5. \/ answered /\ job' = [[job EXCEPT !.pc = "receipt", !.notify = "success"]
                                 EXCEPT !.tries = tries]
        \/ job' = [[job EXCEPT !.pc = "receipt", !.notify = "failure"] EXCEPT !.tries = tries]
        \/ job' = [job EXCEPT !.tries = tries]
    BY <1>10 DEF NotifyAttempt, NotifyEnds
  <2> HIDE DEF tries
  <2>6. CASE job'.pc = "notify"
    <3>1. ASSUME NEW how, job' = [[job EXCEPT !.pc = "receipt", !.notify = how]
                                    EXCEPT !.tries = tries]
          PROVE  FALSE
      BY <2>1, <2>6, <3>1 DEF Job
    <3>2. job' = [job EXCEPT !.tries = tries]
      BY <2>5, <3>1
    <3>3. job'.notify = "skipped"
      BY <2>1, <3>2 DEF Job
    <3> QED
      BY <1>a, <2>6, <3>3
  <2>7. CASE job'.pc # "notify"
    <3>1. /\ job'.pc = "receipt" /\ job'.notify \in {"success", "failure"}
          /\ job'.notify = "success" => answered
      BY <2>1, <2>5, <2>7 DEF Job
    <3>2. RunId' = RunId
      BY <1>10, <1>d, <3>1 DEF Idle
    <3> QED
      BY <2>4, <3>1, <3>2 DEF NotifiedInv, Notified
  <2> QED
    BY <2>6, <2>7
<1>11. ASSUME NEW preserved \in BOOLEAN, Receipt(preserved), JobStep
       PROVE  NotifiedInv'
  <2> DEFINE failed == \/ job.failed \/ ~preserved
                       \/ job.notify = "failure" \/ job.analyze = "failure"
             next == IF failed /\ job.notify # "success" THEN "failure-notice" ELSE "end"
  <2>1. /\ job' = [job EXCEPT !.failed = failed, !.pc = next]
        /\ job.pc = "receipt" /\ job \in Job /\ job # Idle /\ issues' = issues
    BY <1>11, <1>b DEF Receipt, At
  <2>2. /\ job'.failed = failed /\ job'.pc = next /\ job'.notify = job.notify
        /\ job'.history = job.history /\ job'.generated = job.generated
    BY <2>1 DEF Job
  <2>3. job.notify \in {"success", "failure"}
    BY <1>0, <2>1 DEF NotifiedInv, Job, Outcomes
  <2>4. RunId' = RunId
    BY <1>11, <1>d, <2>2 DEF Idle
  <2>5. /\ job'.pc \in {"failure-notice", "end"}
        /\ job'.pc = "failure-notice" => job'.failed /\ job'.notify = "failure"
        /\ job'.pc = "end" /\ ~job'.failed => job'.notify = "success"
    BY <2>2, <2>3
  <2>6. job.notify = "success" /\ Latest(job.history).result \in Told => Notified(RunId)
    BY <1>0, <2>1 DEF NotifiedInv
  <2> HIDE DEF failed, next
  <2> QED
    BY <2>1, <2>2, <2>4, <2>5, <2>6 DEF NotifiedInv, Notified, Latest
<1>12. ASSUME NEW done \in BOOLEAN, FailureNotice(done), JobStep
       PROVE  NotifiedInv'
  <2>1. /\ job.pc = "failure-notice" /\ job \in Job /\ job # Idle /\ job.failed
        /\ job' = [job EXCEPT !.pc = "end"]
    BY <1>0, <1>12, <1>b DEF FailureNotice, At, NotifiedInv
  <2>2. /\ job'.failed = job.failed /\ job'.pc = "end" /\ job'.notify = job.notify
        /\ job'.history = job.history
    BY <2>1 DEF Job
  <2>3. RunId' = RunId
    BY <1>12, <1>d, <2>2 DEF Idle
  <2>4. \A i \in DOMAIN issues : i \in DOMAIN issues' /\ issues[i].runs \subseteq issues'[i].runs
    BY <1>0, <1>12, DeliveredIssues DEF FailureNotice, Keys, TypeOK
  <2>5. job.notify = "success" /\ Latest(job.history).result \in Told => Notified(RunId)
    BY <1>0, <2>1 DEF NotifiedInv
  <2>6. Notified(RunId) => Notified(RunId)'
    BY <2>3, <2>4, NotifiedStays DEF Notified
  <2> QED
    BY <2>1, <2>2, <2>5, <2>6 DEF NotifiedInv, Latest
<1>13. CASE EndJob \/ RunnerLost
  BY <1>13 DEF EndJob, RunnerLost, Concludes, NotifiedInv
<1>14. ASSUME NEW run, NEW attempt, job' = NewJob(run, attempt)
       PROVE  NotifiedInv'
  BY <1>14, <1>a DEF NewJob
<1>15. CASE \/ \E kind \in Kinds, branch \in {"main", "other"} : StartRun(kind, branch)
            \/ \E run \in DOMAIN started : Rerun(run)
  BY <1>14, <1>15 DEF StartRun, Rerun
<1>16. ASSUME UNCHANGED <<job, started>>,
              \A i \in DOMAIN issues :
                 i \in DOMAIN issues' /\ issues[i].runs \subseteq issues'[i].runs
       PROVE  NotifiedInv'
  <2>1. RunId' = RunId
    BY <1>16 DEF RunId, Kind
  <2>2. Notified(RunId) => Notified(RunId)'
    BY <1>16, <2>1, NotifiedStays DEF Notified
  <2> QED
    BY <1>0, <1>16, <2>2 DEF NotifiedInv, Latest
<1>17. CASE EditPage \/ ExpireOld \/ UNCHANGED vars
  BY <1>16, <1>17 DEF EditPage, ExpireOld, vars
<1>18. CASE OpenOtherIssue
  <2>1. issues \in Seq(Issue) /\ [key |-> <<"other">>, runs |-> {}] \in Issue
    BY <1>0 DEF TypeOK, Issue, Keys
  <2>2. \A i \in DOMAIN issues : i \in DOMAIN issues' /\ issues[i] = issues'[i]
    BY <1>18, <2>1 DEF OpenOtherIssue
  <2> QED
    BY <1>16, <1>18, <2>2 DEF OpenOtherIssue
<1>19. ASSUME JobStep PROVE NotifiedInv'
  BY <1>19, <1>1, <1>2, <1>3, <1>4, <1>5, <1>6, <1>7, <1>8, <1>9, <1>10, <1>11, <1>12, <1>13
  DEF JobStep
<1> QED
  BY <1>13, <1>15, <1>17, <1>18, <1>19 DEF Next, Around, Quiet

\* The two reports hold of every job.
LEMMA ReportInvariant == Spec => []ReportInv
<1>1. Init => ReportInv
  BY InitTypeInv DEF Init, ReportInv, NotifiedInv
<1>2. ReportInv /\ [Next]_vars => ReportInv'
  BY NotifiedStep, NextTypeInv DEF ReportInv
<1> QED
  BY <1>1, <1>2, PTL DEF Spec

\* No tolerated failure lets a change or an error end in a green job without
\* its Issue.
THEOREM GreenJobsAreNotified == Spec => []GreenMeansNotified
<1>1. ReportInv => GreenMeansNotified
  BY JobRuns DEF ReportInv, TypeInv, NotifiedInv, GreenMeansNotified, At, Told
<1> QED
  BY ReportInvariant, <1>1, PTL

\* The report of a job without a bundle is made only of a job that committed none.
THEOREM NoBundleNoticesAreTrue == Spec => []NoBundleNoticeIsTrue
<1>1. ReportInv => NoBundleNoticeIsTrue
  BY JobRuns DEF ReportInv, TypeInv, NotifiedInv, NoBundleNoticeIsTrue, At, FailureReason,
                 Committed
<1> QED
  BY ReportInvariant, <1>1, PTL

-----------------------------------------------------------------------------
(***************************************************************************)
(* One Issue per episode, as long as one listing returns every open Issue. *)
(***************************************************************************)

OneWhileListed == Len(issues) <= IssuePage => OneIssuePerEpisode

\* A delivery searches every Issue the listing returns before it opens one.
LEMMA DeliveryKeepsOne ==
  ASSUME issues \in Seq(Issue), NEW key \in Keys, NEW run_id \in RunIds \cup {<<"none">>},
         OneWhileListed, issues' = Delivered(key, run_id)
  PROVE  OneWhileListed'
<1> DEFINE new == [key |-> key, runs |-> {run_id}]
<1>0. IssuePage \in Nat /\ Len(issues) \in Nat /\ DOMAIN issues = 1 .. Len(issues)
  BY PipelineAssumption
<1>1. CASE Matches(key) = {}
  <2>1. issues' = Append(issues, new) /\ new.key = key /\ new \in Issue
    BY <1>1 DEF Delivered, Issue
  <2> HIDE DEF new
  <2>2. /\ Len(issues') = Len(issues) + 1
        /\ DOMAIN issues' = 1 .. Len(issues) + 1
        /\ issues'[Len(issues) + 1] = new
        /\ \A i \in 1 .. Len(issues) : issues'[i] = issues[i]
    BY <1>0, <2>1
  <2>3. ASSUME Len(issues') <= IssuePage
        PROVE  OneIssuePerEpisode'
    <3>1. OneIssuePerEpisode
      BY <1>0, <2>2, <2>3 DEF OneWhileListed
    <3>2. \A i \in 1 .. Len(issues) : issues[i].key # key
      BY <1>0, <1>1, <2>2, <2>3 DEF Matches, Listed
    <3> QED
      BY <1>0, <2>1, <2>2, <3>1, <3>2 DEF OneIssuePerEpisode
  <2> QED
    BY <2>3 DEF OneWhileListed
<1>2. CASE Matches(key) # {}
  <2>1. Len(issues') = Len(issues) /\ DOMAIN issues' = DOMAIN issues
    BY <1>2 DEF Delivered
  <2>2. \A i \in DOMAIN issues : issues'[i].key = issues[i].key
    BY DeliveredIssues
  <2> QED
    BY <2>1, <2>2 DEF OneWhileListed, OneIssuePerEpisode
<1> QED
  BY <1>1, <1>2

\* Lost answers and retries never open a second Issue for one episode while the
\* open Issues fit one listing.
THEOREM OneIssueWhileListed == Spec => [](Len(issues) <= IssuePage => OneIssuePerEpisode)
<1>1. Init => TypeInv /\ OneWhileListed
  BY InitTypeInv DEF Init, OneWhileListed, OneIssuePerEpisode
<1>2. TypeInv /\ OneWhileListed /\ [Next]_vars => (TypeInv /\ OneWhileListed)'
  <2> SUFFICES ASSUME TypeInv, OneWhileListed, [Next]_vars PROVE OneWhileListed'
    BY NextTypeInv
  <2>0. TypeOK /\ GeneratedInv
    BY DEF TypeInv
  <2>1. ASSUME UNCHANGED issues PROVE OneWhileListed'
    BY <2>1 DEF OneWhileListed, OneIssuePerEpisode
  <2>2. ASSUME NEW done \in BOOLEAN, NEW answered \in BOOLEAN, NotifyAttempt(done, answered)
        PROVE  OneWhileListed'
    <3>1. job.pc = "notify" /\ job.history \in Seq(HistoryEntry) /\ job.history # <<>>
          /\ RunId \in RunIds
      BY <2>0, <2>2, JobRuns DEF NotifyAttempt, Notifying, At, GeneratedInv, Job
    <3>2. DedupKey(job.history) \in Keys
      BY <2>2, <3>1, DedupKeyType DEF NotifyAttempt, Notifying, Keys
    <3> QED
      BY <2>0, <2>1, <2>2, <3>1, <3>2, DeliveryKeepsOne DEF NotifyAttempt, TypeOK
  <2>3. ASSUME NEW done \in BOOLEAN, FailureNotice(done)
        PROVE  OneWhileListed'
    BY <2>0, <2>1, <2>3, DeliveryKeepsOne DEF FailureNotice, Keys, TypeOK
  <2>4. CASE OpenOtherIssue
    <3> DEFINE new == [key |-> <<"other">>, runs |-> {}]
    <3>1. issues' = Append(issues, new) /\ new.key = <<"other">> /\ new \in Issue
          /\ issues \in Seq(Issue) /\ IssuePage \in Nat
      BY <2>0, <2>4, PipelineAssumption DEF OpenOtherIssue, Issue, Keys, TypeOK
    <3> HIDE DEF new
    <3>2. /\ Len(issues) \in Nat /\ DOMAIN issues = 1 .. Len(issues)
          /\ Len(issues') = Len(issues) + 1
          /\ DOMAIN issues' = 1 .. Len(issues) + 1
          /\ issues'[Len(issues) + 1] = new
          /\ \A i \in 1 .. Len(issues) : issues'[i] = issues[i]
      BY <3>1
    <3> QED
      BY <3>1, <3>2 DEF OneWhileListed, OneIssuePerEpisode
  <2>5. CASE JobStep
    BY <2>1, <2>2, <2>3, <2>5
    DEF JobStep, FailStep, Fetch, Recheck, SkipNotDue, Initialize, Observe, Upload, Reread,
        Handoff, Analyze, PreserveAnalysis, NotifyWithoutIssue, Receipt, EndJob, Concludes
  <2>6. CASE Around
    BY <2>1, <2>4, <2>6
    DEF Around, RunnerLost, StartRun, Rerun, EditPage, ExpireOld, Concludes
  <2>7. CASE UNCHANGED vars
    BY <2>1, <2>7 DEF vars
  <2> QED
    BY <2>5, <2>6, <2>7 DEF Next, Quiet
<1> QED
  BY <1>1, <1>2, PTL DEF Spec, OneWhileListed
=============================================================================
