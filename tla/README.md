# Verification of the earnings research system

TLA+ modules, TLC configurations and TLAPS proofs kept beside the code. Paths
below are relative to the repository root; `monitoring/`, `prospective_hypotheses/` and
the other packages stand for directories of `src/earnings_research/`, `validator.py`
for `src/earnings_research/validation/validator.py`, `level2_monitor.yml` and
`checks.yml` for files of `.github/workflows/`.

## 1. The system and its parts

The repository watches disclosure pages, turns a detected change into research
work, and keeps research records (baselines, hypotheses, evaluations, reactions,
reviews, captured evidence) as files that commands extend and a validator checks.
Two kinds of thing can go wrong that a unit test hardly reaches. In *level 2
monitoring* jobs run concurrently, fail anywhere and lose answers. In the
*records* every command is sequential, but the files live for months: rows are
written late, corrected, superseded and merged, each command has rules of its own,
and a sequence of legal calls may lead where the next one is refused or where
knowledge of the outcome has leaked into the forecast.

| Component | State it keeps | Operations | Interacts through | Hard behaviour | What makes it correct |
|---|---|---|---|---|---|
| Runtime (`monitoring/runtime.py`) | none of its own: checkpoint, run history and resolutions come in, a new bundle goes out | `transition`: initialize, observe, fail, refuse; `self_validate` | the bundle; the contract is called as a hard gate | long legal sequences of changes, errors, reviews and corrections; a registry row edited under a pending review | a change is never forgotten before a Human resolved it; the gate never refuses what the runtime made from its own state |
| Bundle contract (`validator.py` 276-337, 1816-2307) | none | `validate_monitor_bundle` | runtime, persistence, tests | relations between three tables | no accepted history loses a change, no accepted checkpoint hides one |
| Schedule (`registry.py`, `stale.py`, `operational_cli.py`, `operations.py`) | last success, stop, gap acknowledgements | plan, recheck, stale assessment, acknowledge | workflow jobs, the committed state | cron slots dropped or late, two planners at once, a concurrency group, weekends, UTC against Japan dates, moving dates | no business day lost, none observed twice, one miss absorbed, a stop that holds |
| Workflow pipeline (`level2_monitor.yml`, `github_api.py`, `notifications.py`, `persistence.py`, `handoff.py`) | artifacts, Issues, workflow conclusions | fetch, recheck, run, upload, re-read, hand off, analyse, notify, receipt, failure notice | GitHub's artifact store and Issues | steps that fail, answers that are lost, lost runners, re-runs, tolerated failures | one line of committed states, no change without Issue or red run, one Issue per episode, true reports |
| Live adapter and network guard (`live.py`, `network.py`) | one fetch: URL, visited URLs, pinned address, time, bytes | approval, robots check, redirects, look-up, connection, reading | runtime (observation or error) | a site and a resolver that answer otherwise each time, time running out between steps | only approved and checked places are contacted, under the site's policy, a bounded number of times |
| Registry rows (`validator.py` 1816-1883, `registry.py`, `operations.py`, `live.py`) | the row a Human edits | validate, plan, require operational, require approval | planner, run, adapter | four places with conditions of their own | they agree |
| Prospective hypotheses (`prospective_hypotheses/`) | registry, trial, status and source-validity files | freeze, record an observation, evaluate, summarise, judge validity | research records, pull requests, CI | events growing over three horizons under registries that change; two files in one command | nothing tried twice or under two rules, nothing recorded that the next command cannot load |
| Baseline, lifecycle, evidence rules of the validator (`validator.py` 542-1037, 1125-1202, 1358-1723) | none | `validate_dataset` | every writer of a record | postponements, locks, successions and evidence in any order | what a forecast rests on was fixed before the disclosure |
| Earnings evaluation, market reaction, post-event learning, carryover | files derived from the dataset and from one another | evaluate, track, review, carry over | each reads the files of the one before | a file replaced under a later one, prices that come in any order, times claimed by different authors | reviews agree with what was tracked and judge what was evaluated; the next baseline rests on the past |
| Evidence store (`evidence/`, `checks.yml`) | population manifest, ledger | write, append, verify, merge | pull requests | branches side by side, edited by hand, merged on a check of an older main | the population is chosen before it is read, and never rewritten |
| Document acquisition and sweep (`tools/capture_disclosures.py`, `guarded_fetch.py`) | stored documents | daily sweep, guarded download | launchd, publishers | crashes, a budget shared by days, documents that disappear | what a green sweep owed is held or counted as expired |
| Document analysis (`document_analysis/`) | analyses of one handoff | analyse a named document, discover on a page | handoff of the pipeline | redirects, refusals | only approved publishers are asked, nothing after a refusal |
| Statistics (`statistics/holdout.py` and the rest) | none | split the record, test on the reserve | reports | a cutoff that moves as the record grows | nothing is tested on what had been shown |
| Timing, regime, scoring, attributes, narrative, prices | none | pure functions | each other | boundaries | functional |
| Legacy import, command line, `tools/`, other CI jobs | none / files | batch | - | - | - |

How the monitoring parts interact: a cron slot or a Human's dispatch starts a planner
(`plan_registry`), which decides from the committed checkpoint whether the target
is due and hands a job to the target's concurrency group. The job fetches the
committed bundle from the artifact store, re-checks dueness, assesses the stale
gap and lets the runtime build the next bundle, which the contract gates. The
bundle is uploaded as a new artifact, read back, and then handed to research,
analysis and Issue delivery; failures tolerated on the way are surfaced at the end.

How the records interact: an analyst locks a baseline before the disclosure, with its
evidence; after it `evaluate-earnings` compares forecast and figures,
`track-market-reaction` follows the prices over five trading days, `review-post-event`
judges the hypotheses, and `prepare-baseline-carryover` hands what was learned to the
next baseline. In parallel the observation of an event is recorded against the frozen
hypotheses at the horizons D1, D5 and D20. All of it is merged through pull requests
whose checks compare the files with those of the base.

## 2. Modules

| Module | Models | State and actions in terms of the code |
|---|---|---|
| `MonitorContract` | `validate_monitor_bundle` | no variables; `RunRowOk`, `CheckpointRowOk`, `RunLineageOk`, `ResolutionLineageOk`, `CheckpointLineageOk`, `PendingChangeOk`, `AppliedResolutionOk`, `ErrorEpisodeOk` are the validator's groups of rules, `BundleOk` their conjunction |
| `MonitorRuntime` | `MonitorRuntime.transition` for one target | `runs`, `checkpoint`, `bundle_response` are the committed bundle, `resolutions` the Human table, `change_response` the registry row, `page` what the source publishes; one action per way `transition` ends, and `EditPage`, `RecordResolution`, `SwitchResponse` around it. EXTENDS the contract, whose `BundleOk` is the gate |
| `ChangeReview` | the promise to a reader | content last seen, open changes, a flag; refined by `MonitorRuntime` through `Review == INSTANCE ChangeReview WITH ...` |
| `ContractHistory` | the contract without the runtime | any writer appends any row; the contract alone decides |
| `MonitorSchedule` | planner, queue, recheck, stale gap, acknowledgements | time is the cron slot; `queue` is the concurrency group (one running, one pending job), `last_success_at` and `stop_threshold` are what the checkpoint says, `acks` the acknowledgement rows; `day` is an observer the properties read and no guard does |
| `MonitorPipeline` | one job of `level2_monitor.yml` step by step | `artifacts` is the store, `started` the workflow runs, `job.pc` the step, `issues` the open Issues; one action per step with its outcomes, `FailStep` and `RunnerLost` for failures, re-runs, edits, expiry and other people's Issues around it |
| `MonitorTarget` | a registry row at its four gates | no variables; `RowOk` is the validator, `PlannedRow` the planner, `Operational` the run, `Approved` the adapter |
| `LiveFetch` | one observation by `LiveSourceAdapter` under `_observe_live` | `target` the row, `fetch` the running fetch (robots or page) with its stage, `elapsed` its time, `requests` every connection made, `robots` the policy, `outcome` the result; one action per stage, each with every way it fails. EXTENDS `MonitorTarget` |
| `HypothesisContract` | the rules on registries and trial bundles | no variables; eligibility, trials, observation chain, summary, registry succession and rule freeze as operators |
| `HypothesisLedger` | registries, validity ledger, trials directory, status snapshot | `registries`, `verdicts`, `trialFiles`, `status` are the files, `known`, `review` the authoritative records of an event as they become known, `standard` the contamination rules in force; one action per command, with the crash between the trial file and the status file. EXTENDS `HypothesisContract` |
| `EventDataset` | `validate_dataset` over the rows of one event | no variables; status history, baselines, evidence, reviews, `DatasetOk` their conjunction |
| `EarningsCycle` | the analyst's edits and the four commands | `dataset`, `hypothesis`, `evaluations`, `trackings`, `reviews`, `carryover` are the files, `now`, `disclosed` the world. A price bundle is the roles it observes and whether a corporate action makes it incomparable; `Milestone`, `EventWindow` and `TrackingStatus` are the tracker's derivations from it, `MarketStages` and `ReviewState` the reviewer's from the snapshot. EXTENDS `EventDataset` |
| `EvidenceCapture` | evidence store and its merge | `main` and each of `branches` hold manifest and ledger, a branch also the main it was last in step with and whether CI passed it; the tools' writes, edits by hand, `UpdateBranch`, `Check` (CI's comparison with the main of that moment), `Merge` (git's, of three versions, on the green of an earlier moment) |
| `DisclosureSweep` | `tools/capture_disclosures.py` | `store` the files, `sweep` the running sweep with what it has still to look at, left behind or counted as expired, `published` the index; `Crash` at any step |
| `DocumentAnalysis` | the analysis of one handoff | `candidates` the documents still to be read, `attempt` the download, `asked` every request, `dispatch` the result |
| `Holdout` | `statistics/holdout.py` over the life of the record | `dates` of the rows filed, `explored` what reports have counted (`PublishReport` the aggregation, of the exploration alone, `PublishKnowledge` the research knowledge, of all rows), `definition` a frozen hypothesis, `tested` what its test summarised |
| `*Proofs`, `MonitorContractLemmas` | theorems | section 5 |
| `MC*` | instances for TLC | symmetry over fingerprints, constraint-free; `MCMonitorAmbiguity` freezes the page; `MCRecords` puts six parts that share no state into one instance, a behaviour being one of one of them |

Each definition's lines are in `PROJECT.json` under `map`. Definitions preceded by a
comment "Fault: ..." are not part of a specification: each is a plausible wrong
version of the definition after it and serves to show that a property notices it.

What is abstracted: fingerprints, indicators and error codes are values of small
sets; identifiers are positions in the history, so that "the run exists" is "the
position is in the domain"; timestamps are a clock that advances by one execution;
texts, digests and version strings are left out. In `MonitorPipeline` a bundle is
its run history and the version its length, because `MonitorRuntime` answers for
the checkpoint's content. In `MonitorSchedule` a slot starts at its cron minute;
lateness is a slot whose planner starts together with a later one, and a job that
waits up to `MaxWait` slots.

In the records a command or an edit that is refused changes nothing and is no step.
Times are what their author wrote: an author is honest about the disclosure and never
ahead of the clock, but may be behind it. Figures are left out wherever no rule
compares them; a return is a value with its sign where a trial is scored. In
`LiveFetch` a URL is its origin, its path and the form that decides how it is
refused, time is ticks and a body is chunks; in `DocumentAnalysis` a link is what
decides about it, its publisher, its scheme and whether its title is an earnings
document's.

## 3. Runs

| Run | Asks | Shows |
|---|---|---|
| `runtime_fixed` | can a target wedge on its own state? does the runtime keep the promise of `ChangeReview`? | `RuntimeAcceptsItsOwnState`: the gate and the "pointer disagrees with history" error, both written as "cannot happen", cannot happen while the registry row stays put. `ImplementsChangeReview`: every step is one of the abstract specification or a stutter |
| `runtime_edited` | the same target, its `change_response` switched at any time | `ReviewNotForgotten`, `PendingLeavesOnlyByReview`: a switch under a pending review is refused until it is switched back or reviewed |
| `runtime_ambiguity` (violation) | is an ambiguity reported once? | no, when the page itself carries the correction marker (section 6) |
| `contract_history` | what does the contract guarantee on its own? | `NoSilentChange`, `ReviewIsShown` for every writer, a faulty runtime included |
| `schedule` | is every day observed once, and do stops come and go as promised? | `NoLostDay`, `OncePerNormalDay`, `StopNeedsTwoMisses`, `StopHolds` |
| `schedule_one_miss` (violation) | is a single miss always absorbed? | no, when a date is published meanwhile (section 6) |
| `pipeline` | failures anywhere in and around the job | `OneLineage`, `GreenMeansNotified`, `NoBundleNoticeIsTrue`, `OneIssuePerEpisode`, and under fairness `ChangeSurfaces` |
| `pipeline_notice` (violation) | is the failure report true? | no, after a failed upload (section 6) |
| `pipeline_crowded` (violation) | one Issue per episode with many open Issues? | no (section 6) |
| `hypotheses` | can the record of the hypotheses be extended for ever without repeating, losing or contradicting itself? | `HistoryLoads`, `EachOutcomeTriedOnce`, `StatusDerivable`, `OneRulePerDefinition`, `EventCanGrow`, `SnapshotReproducible`, over 114,424 states |
| `hypotheses_ungated` (violation) | is only usable knowledge tried? | no, the trial command asks no validity ledger (section 6) |
| `records` | the six parts beside the monitor | over 1,263,402 states: what a forecast rests on precedes the disclosure and is approved anew after a postponement, and an event is never stuck (`PostponementReviewed`, `ForecastPrecedesDisclosure`, `CarryoverRestsOnPast`, `OpenEventCanOccur`, `TrackedEventCanBeReviewed`); tracker and reviewer agree on how final the prices are, though each derives it by itself from other parts of the bundle (`ReviewStateMatchesTracking`), and an evaluation run again judges the hypotheses its reviews judged (`CarryoverRestsOnPast`); what a green sweep does not count as expired it has (`GreenMeansCapturedOrExpired`); the population of a capture is chosen first and stays, whatever branches are merged on an old check (`SelectionPrecedesReading`, `CaptureNeverRewritten`); an observation touches only what was approved, under the policy, boundedly, and no row that loads and is planned is refused by the adapter (`OnlyApprovedIsContacted`, `PageReadUnderPolicy`, `RequestsBounded`, `ObservedInTime`, `AdmittedRowIsObservable`); a named document is asked for only at the approved publishers (`DocumentsStayWithPublishers`); nothing is tested on what had been shown (`TestedOnUnseen`) |

### Bounds and why they are enough

* `runtime_fixed`, `runtime_edited`: two fingerprints, one indicator with one value
  (or absent), one source error beside `state_unavailable` and `content_ambiguous`,
  four runs, two resolutions, clock to 4 or 5. Four runs give two changes open at once with an
  error between or after them; two resolutions give a review and a correction, or
  both changes reviewed in either order; the clock leaves room for one refusal.
* `contract_history`: four runs, one resolution. A change that slips needs two
  successes with an error between; a hidden change needs two changes and one
  resolution.
* `schedule`: from a Friday evening over the weekend to the close of the next
  Tuesday, two planners per slot, waits of up to two slots, two dispatches, two
  acknowledgements, a date that moves between far away and the next Monday: 1,466,781
  states in about 80 seconds. It contains a normal weekend, an event day, its window, the
  switch of every threshold in both directions, pending jobs that newer ones cancel, two
  stops with a success between them, and an acknowledgement that supersedes another.
  `StopHolds` leaves out a stop that ends under a wider threshold, because the code lets
  it (section 6).
* `pipeline`: two workflow runs of any kind and branch, one re-run as a second attempt, one
  edit of the page, one foreign Issue, both kinds of registry row. Two runs are
  an initialization and a first observation of which either may be re-run, so
  that three attempts compete for the head of the line; three delivery
  attempts per notification are the code's.
* `hypotheses`: two events, one of them begun by an earlier implementation's bundle of
  either schema version, three horizons, two registry versions. Two scopes keep the
  product small and together hold every feature: in one the registry stays while
  prices, reviews and a corporate action arrive; in the other registries are frozen
  with another stop rule, another version or another policy and the standard moves.
  No design gives a version of a definition another dimension (`DesignsKeepDimensions`,
  section 5).
* `records`, event: eight scopes, each with the numbers one question needs: two
  postponements with new drafts; three baselines that could branch; two versions of a
  review over two snapshots; hypotheses created and withdrawn with the evaluation run
  again; evidence found later; a corporate action found early or late; every bundle there
  is, any set of roles with and without a corporate action, of an ordinary and of an
  intraday session. Days of two ticks, five ticks, an
  announcement planned in the middle, so that a disclosure is early, on time, late
  or of another day.
* `records`, sweep: two documents of one company on one day and a third without an
  address, one of a later day, one outside the ledger; a window of two days, a budget of one, four days; with
  and without a file of the earlier version. The budget runs out, a document leaves
  the window, and a day repeats.
* `records`, capture: one event, two manifest names, two branches, two observations, four
  edits over both, a clock of two ticks, outcomes whose hash belies their status among them.
  Two branches are what a stale comparison needs, and four edits give each a population
  and a line, or one of them a removal. The proofs hold for any number.
* `records`, observation: every row of the page in its window, sound or not, and the
  sound row with other windows and URLs; eight URLs of two sites in every refused
  form; a public and a private address; the code's three redirects; a budget of two
  ticks and two chunks, so that time and size end at every step; statuses of each
  class the code tells apart.
* `records`, documents: seven links that differ in publisher, scheme and title, every
  handoff over them, the code's three redirects, pages with up to two documents.
* `records`, holdout: four rows over three days, a reserve from three dated rows on
  and never of none (18 and the reportable minimum in the code): the cutoff moves
  both ways, ties swallow the earlier period, and rows come back into the reserve.

`CHECK_DEADLOCK FALSE` stands where the part really ends: an event whose carryover is
made, the last day, the last merge, an outcome, a dispatch, a record that is full.

### Fairness

Only `ChangeSurfaces` needs it: `WF_vars(JobStep)`. A step of a GitHub Actions job
ends by itself or by `timeout-minutes`, and the job goes on with its next step, so a
running job does not stand still. Nothing is assumed of the environment: runs need
not start, runners may be lost at any step (`RunnerLost` is part of `Around`,
without fairness), requests may fail for ever. No fairness is assumed of any
single outcome either; a step may always fail. The other parts state what may never
happen, or what can always be done (`EventCanGrow`, `OpenEventCanOccur`,
`TrackedEventCanBeReviewed` say that a call would be accepted), and need no fairness:
nothing obliges an analyst to act. They are invariants, and proved as such (section 5).

## 4. Assumptions about the surroundings

* Artifacts of the main branch outlive the interval between two runs: `ExpireOld`
  drops the oldest artifact only while a newer one of main is left. Without it the
  claim that a target is initialized once is not the code's to keep:
  `monitoring/operations.py:121` accepts the registry's initialization run ID whenever
  no artifact is found, against `docs/AI_MONITORING_IMPLEMENTATION_DESIGN.md:228,241`.
* The concurrency group runs one job per target and keeps one pending; a newer job
  replaces the pending one (`level2_monitor.yml:131-133`).
* Human resolutions follow the table's contract. The code has no operation that
  records one: rows come only from the previous bundle, and adding a row to it makes
  `verify_bundle` refuse it (`monitoring/persistence.py:203`). `RecordResolution` stands
  for the table the contract describes and its tests build.
* A registry names each definition once (`DesignsAssumption`; `prospective_hypotheses/models.py:240`
  checks it).
* Prices known when a record starts have matured by then, and an event begun by an
  earlier implementation is one of the record (`ScopesAssumption`).
* Slots and day numbers are whole, a day has ticks, clocks have an end
  (`CalendarAssumption`, `CycleAssumption`, `CaptureAssumption`).
* The digest prefix in a storage key is injective, and a document is one company's of
  one day at one address (`DocumentsAssumption`).
* A branch of a capture is merged only with CI's green (`docs/DECISIONS.md:815`), which stays
  valid when main moves on; CI's merge commit and the base it compares with are of one
  moment. Git merges file by file; two additions at the end of one ledger conflict.
* Rows of the research record and freeze dates carry dates that have come, and a date
  once filed stays (`FileRow`, `FreezeDefinition`). The code checks neither: a backdated
  `frozen_at` opens the reserve. Both are on the same calendar, as `holdout.py:178-190`
  takes them, dropping time zones.
* Reading an answer's headers is bounded by the transport's timeout per read, not by the
  overall budget; in `LiveFetch` time stops at the budget, and the first check after it
  ends the fetch.
* Values of a registry row carry no stray white space: the validator strips them,
  the other three places compare them as they are.

## 5. What is proved

All theorems hold for every value of the constants, from the named assumptions on
them alone (section 4 and the `ASSUME`s of the modules, which TLC evaluates). Every
invariant and every action property of a passing run is stated by a theorem, but one
(end of this section). The state-changing parts are proved the same way: an invariant
built from named parts, a lemma for the initial states, a lemma for each action or
kind of action, and the property from the invariant.

### Monitoring

* `MonitorRuntimeProofs!EditedTypeCorrect`, `TypeCorrect`: `TypeOK` of both
  specifications. `TypeOK` alone is not inductive: the applied resolution is chosen
  as the unsuperseded row of a change, and that such a row exists needs that every
  row supersedes an earlier one. `TypeInv` is `TypeOK` with that conjunct
  (`SupersedesEarlier`); `AppliedResolutionIsRow` takes the highest row of the
  change as the witness, and `PendingChangeIsNewest` does the same for the pending
  change. `NextTypeInv` goes action by action.
* `MonitorRuntimeProofs!ReviewIsNotForgotten`: `ReviewNotForgotten` is inductive
  relative to `TypeOK`. It counts changes and resolution rows directly (`Unreviewed`), so
  that the runtime's and the contract's own searches are both put to the test. A
  committed execution has passed the gate, whose `PendingChangeOk` implies it for the
  new rows (`GateShowsReview`); a resolution only shrinks the set of unresolved
  changes; everything else leaves the three variables alone.
* `MonitorRuntimeProofs!PendingLeavesByReview`: `PendingLeavesOnlyByReview`, an action
  property. It needs `PointerInv` (the checkpoint never points beyond the history),
  and then follows from `Admitted`: an execution that would drop the pointer has
  been refused.
* `MonitorRuntimeProofs!AcceptsItsOwnState`: with the registry row as it was activated,
  the gate never refuses what `transition` generates. `RuntimeInv` says that the
  history satisfies the contract's rules, that the checkpoint describes it
  (`EpisodeInv`), that no open change is newer than the pointer (`PendingInv`), and that
  after a change something is pending or applied (`AppliedInv`). Each execution that
  generates a bundle is `Legal` and its checkpoint `Generated`; for those, one lemma
  for each group of the contract's rules (`GeneratedRunOk`, `GeneratedCheckpointOk`,
  `GeneratedRowOk`, `GeneratedEpisodeOk`, `GeneratedPointerOk`, `GeneratedAppliedOk`). The
  core is `EveryRowIsEffective`: in a lineage the contract accepts, a change with a row
  has an unsuperseded one, so that the contract's search and the runtime's agree
  (`OpenIsUnresolved`).
* `MonitorRuntimeProofs!RuntimeImplementsChangeReview`: the refinement. From `RuntimeInv`,
  each step of the runtime is one of `ChangeReview` or a stutter: `ExecutionOpens` says
  what an execution does to the open changes, `QuietRunRefreshes` why a run without a
  change may only refresh the flag.
* `ContractHistoryProofs!ChangesAreReported`: `HistoryInv` says that the history
  satisfies the row and lineage rules; `MonitorContractLemmas!LineageReportsChanges`
  shows that these alone imply `NoSilentChange`: take the least later success whose
  fingerprint differs from the earlier one's; its predecessor among the successes
  agrees with the earlier one, the lineage makes the run's `fingerprint_before` that
  value, and the row rule makes a success with differing fingerprints a
  `change_detected`.
* `ContractHistoryProofs!OpenChangesAreShown`: `ReviewIsShown` after every accepted run,
  and recording a resolution only weakens its hypothesis.
* `MonitorScheduleProofs!PlannedDayIsObserved`, `NormalDayObservedOnce`, `StopsAreHeld`:
  from `ScheduleInv`. `PlanInv`: a planned day without trouble has its observation, or a job planned
  after the close still waits; the recheck cancels a job only when the observation is
  there, and a newer job that cancels a waiting one was planned no earlier (`NewJob`). `RequestInv`: what was counted today is still
  in the checkpoint. `StopInv`: the gap since the last success exceeds the threshold
  of the stop; it only grows (`ElapsedGrows`), and an acknowledgement only shortens the
  gap that is measured (`ReferenceIsLater`). The code adds the elapsed time up day by
  day, which is induction over data; the model has its closed form
  (`BusinessMinutes`), which the assumption `ElapsedIsTheSum` of `MCMonitorSchedule` compares
  with the sum for every pair of slots of the run.
* `MonitorPipelineProofs!CommittedStatesFormOneLine`: `LineageInv`. The artifacts of main
  are ordered as their histories are (`LineInv`), and what the job has fetched
  continues all of them until it uploads (`FetchedInv`): only expiry and the job
  itself change the store, and expiry takes the oldest. `FetchedStateIsUnique` follows:
  `github_api.py`'s refusal of two current artifacts is for stores the pipeline does not produce.
* `MonitorPipelineProofs!GreenJobsAreNotified`, `NoBundleNoticesAreTrue`: `NotifiedInv` ties
  the outcome of the notify step to the Issues, and the failure report to the
  step that failed.
* `MonitorPipelineProofs!OneIssueWhileListed`: `OneIssuePerEpisode` as long as the open
  Issues fit the page `find_open_issue` reads. The hypothesis is what the code needs: without it
  `pipeline_crowded` violates the property.

### Records

* `HypothesisLedgerProofs!SnapshotAlwaysReproducible`: a trial file never leaves the
  directory and is never overwritten (`WriteNewAdds`, `Writes`), and a snapshot is
  written only from bundles on disk that pass the checks of the summary.
* `HypothesisLedgerProofs!OneRuleAlways`: `RulesInv` says that every registry names a
  definition once and that the directory passes the rule-freeze check, which each
  step that writes a registry or a bundle has to pass in CI. All bundles with a trial
  of a definition then carry one digest, and equal digests of a definition that
  occurs once mean equal stop rule and policy (`DigestOfDefinition`).
* `HypothesisLedgerProofs!LedgerIsTyped`, `HistoryAlwaysLoads`, `StatusAlwaysDerivable`: from
  `LedgerInv`, whose part `DirectoryInv` says of the directory that two bundles of one
  event follow one another (`OneLine`), that no trial occurs twice (`NoTrialTwice`), that
  each trial is the one of its definition on its return (`TrialsInv`), and that each
  definition of a bundle is tried in it or says why not (`Explained`). The code checks a
  new observation against the latest bundle only;
  `ChainedObservationFollows` and `HistoryGrows` show that this is as strict as the
  check of the whole directory. `DirectoryGrows` then goes through `Scored`, what
  `evaluate_observation` writes.
* `HypothesisLedgerProofs!OutcomesTriedOnce`: `EachOutcomeTriedOnce`, if a version of a
  definition has one dimension in all registries (`DimensionsStay`). The code does not
  compare dimensions, and without the condition TLC finds an outcome tried that the
  last registry has no feature for; so it is a hypothesis of the theorem and an
  assumption of the run.
* `HypothesisLedgerProofs!EventsCanGrow`: an event whose record stands can be grown
  under every registry with the rules in effect. The witness is built: the latest
  bundle's returns and reaction with the new return added; `LatestFollows` and
  `RecordedIsLatest` show that it passes the chain, `RulesStayInEffect` that CI accepts it.
* `EarningsCycleProofs`: seven theorems from `CycleInv`, which holds of the typed rows and
  files (`CycleTypes`), the validator's rules (`DatasetOk`), the order of the status rows, and
  what each file rests on: an evaluation on a baseline locked before it and hypotheses
  from before the lock (`Judged`: before the disclosure, what any later evaluation judges), a snapshot on an occurrence and an evaluation
  (`TrackingInv`), a review on a snapshot, the disclosure and the lock (`ReviewInv`), a carryover on
  past reviews. `EditKeeps` is the one lemma for the analyst's edits: an edit that
  validates, drops no locked row and appends at most one status row keeps it.
  `ReviewAgreesWithTracking` needs `SnapshotStatus`: for every bundle, the four milestones and
  the window the tracker looks at say complete exactly when the window and the two
  milestones the reviewer looks at do, because a later close counts only together with
  the one before the disclosure (the mutant drops this); and a mixture of awaited and
  incomparable milestones comes only with an incomparable window. That an evaluation run again judges the same (lemma
  `RerunsJudgeTheSame`) follows from `Judged` and from what a review keeps of it;
  `CarryoversRestOnPast` rests on it. `ForecastsPrecedeDisclosure`,
  `TrackedEventsCanBeReviewed` follow directly. `PostponementsReviewed` needs that the row before an
  occurrence is the last postponement (`LastBeforeOccurrence`); `OpenEventsCanOccur`
  shows, rule by rule, that `DatasetOk` admits the occurrence.
* `RecordsProofs!RecordsAreTyped`: `RecordsTypeOK`, the types of the six parts of
  `MCRecords`, from the invariants of the parts.
* `RecordsProofs!GreenMeansCapturedOrExpiredAlways`: `SweepIInv`. The running sweep has
  accounted for every due document (`Accounted`): it is captured, still ahead in the
  queue or on a day to come, counted as expired, left behind, or the sweep has failed; an
  exit of 0 excludes the last two at the end.
  That a storage key determines its document is used exactly once, where a held
  key lets a document be skipped.
* `RecordsProofs!DocumentsStayAlways`: `DocumentIInv`. For a named document
  (`NamedInv`): it is the only candidate, and only when its publisher is approved;
  while it is being retrieved the hops taken are the requests made, and each was
  answered by a redirect, so the hop limit bounds the requests; once nothing is being
  retrieved after a request, no candidate is left or the command has ended, so no
  second retrieval follows. For an index (`IndexInv`) there is never a candidate.
* `RecordsProofs!SelectionPrecedesReadingAlways`, `CaptureNeverRewrittenAlways`:
  `CaptureFacts`. `Merge` compares nothing: it relies on a check of an older main. So the
  invariant says of each branch that main has only grown since they were in step
  (`Later`), and of a checked one what of the check stays true while main grows (`Sound`,
  `BranchStaysSound`): it keeps what it started from, and a ledger of its own stands with
  its population or main's. `MergeIsSound` goes through what git merges: a file changed on
  one side only is taken from there, so the result is main itself or was checked as it is,
  and two populations, or two ledgers that grew apart, are a conflict.
* `RecordsProofs!OnlyApprovedAlways`, `PolicyAlways`, `BoundedAlways`, `ObservedInTimeAlways`: one
  invariant, `FetchIInv`. Its parts: the pinned
  address is public once a stage needs it; what was requested in a fetch was visited
  and is at most as much as the redirects followed plus one (`FetchCounts`), which
  bounds the requests; a page fetch exists only with a policy that permits it; the row
  of a fetch has been cleared by all four gates (`FetchStays`), whose conditions
  together contain the terms, the signatures and the window (`ClearedIsSigned`).
* `RecordsProofs!AdmittedAlways`: what the first three gates let pass the fourth
  approves (`AdmittedIsApproved`), so an end without a fetch is the URL's fault; an end
  with a fetch says so in `begun`.
* `RecordsProofs!TestedOnUnseenAlways`: a row shown before the freeze is dated no later
  than the freeze (`SeenByThen`), a reserved one no earlier than the cutoff, which is
  later. The step needs that the cutoff, a `CHOOSE`, is a date: `CutoffIsDate` takes the
  least day after which more rows lie behind than the cut index, and shows that a row
  is dated on it.

### Model-checked only

* `ChangeSurfaces`: liveness under fairness is out of the prover's reach.
* `StopNeedsTwoMisses` does not hold for every value of the constants, so there is nothing to
  prove without a condition on the dates. A planner run that cannot read the committed state, and every
  dispatch, uses the registry column; where that date is near and the calendar's is
  far, the window's threshold meets a normal day's rhythm: an observation late on the evening
  of the next weekday already stops the target, with nothing missed. The run has the two agree until the calendar moves.
* That the closed form of the elapsed business time is the code's sum, and what the other
  folds over data compute, is compared by TLC on the instances: induction over data is
  out of the prover's reach.

## 6. Disagreements met while modelling

* **An ambiguity can be reported for ever** (`runtime_ambiguity`). `runtime.py:227` takes
  the observation's own correction marker on every run, while the
  `content_ambiguous` branch adopts only the HTTP indicators. The comment at
  `runtime.py:333-336` promises one report.
* **One miss can stop a target** (`schedule_one_miss`). `stale.py:45` chooses the
  threshold from the date known now and applies it to the whole gap behind;
  `stale.py:7-8` promises that one missed run is absorbed. `StopNeedsTwoMisses` shows that
  a date published or moved in between is the only way.
* **A failed upload is reported as a failed notification of a committed bundle**
  (`pipeline_notice`). `level2_monitor.yml:334`, against its comment at 332-333 and
  the report's text at `notifications.py:93`.
* **A second Issue for an open episode** (`pipeline_crowded`). `github_api.py:126`
  reads one page of open Issues.
* **Unusable knowledge is tried** (`hypotheses_ungated`). `evaluate-hypothesis-event`
  calls `evaluate_observation_and_status_file`
  (`prospective_hypotheses/pipeline.py:728`), which asks no source-validity ledger;
  the docstring at 149-150 says that "the trial commands refuse that themselves".

Seen while modelling, without a run of their own:

* Monitoring: a stop under the event day's threshold
  ends without acknowledgement once a wider threshold applies (`StopHolds` excludes
  exactly this case), against `docs/DECISIONS.md:463`; and the second initialization of
  section 4. The planner does not look at the active window: an expired row is
  planned on every business day and each of its jobs raises `StateUnavailable`
  (`registry.py:55`, `operations.py:278`). A job runs with the registry of its workflow's
  commit, so suspending a row does not stop jobs already queued.
* Live adapter: a redirect within the origin is followed to a path that the site's
  robots.txt disallows; only the first URL is asked about.
* Hypotheses: a registry may give a version of a definition another dimension than an
  earlier registry did; nothing compares the two, and `EachOutcomeTriedOnce` then
  fails (section 5). The rules are fixed definition by definition, at the first trial of
  each (`freeze.py:186`), while a recording scores all definitions of one registry: when
  two definitions began under two registries with different policies, both frozen before
  any trial, an event that owes a trial to each is refused under either. `freeze.py:16-18` and
  `docs/DECISIONS.md:1108` allow exactly this refreezing; `EventCanGrow` therefore asks
  for a registry with the rules in effect (`RulesInEffect`), and `EventsCanGrow` shows
  that one is enough. `_halves_reversed` gets the target's trials twice
  (`prospective_hypotheses/evaluator.py:239`, 459). Trials are recorded into another
  directory in `docs/PROSPECTIVE_HYPOTHESIS_REGISTRY.md:163` than `checks.yml:131-133`
  reads. Two pull requests that each record an event's first observation merge into
  a directory that no longer loads. A pending milestone is accepted as a D1 that is not
  comparable (about `pipeline.py:497-505`), after which the event cannot grow.
* Event: an event postponed to, or disclosed on, another day than planned can never be
  evaluated (`earnings_evaluation/evaluator.py:112`, against
  `docs/PROSPECTIVE_EVENT_LIFECYCLE.md:15`). A hypothesis invalidated before the lock
  is taken by the evaluation and refused by every review (`post_event_learning/reviewer.py:192`).
  Correcting evidence after the lock is refused (`validator.py:1694-1715`, against
  `docs/EVIDENCE_AND_LINEAGE.md:27`). Evaluating again replaces the file that a
  review rests on (`evaluator.py:320`): `CarryoverRestsOnPast` shows that the hypotheses stay,
  while its status, time and figures may change; the review keeps a hash of what it read
  (`reviewer.py:213-218`), and no command compares it again. The carryover counts versions of one review
  as separate ones.
* Sweep: newest first under one budget starves what was left behind; a file of the
  earlier version hides a second document of its company and day; any message that
  contains "404" (a number of bytes in it, say) counts as expired without failing the sweep
  (`capture_disclosures.py:161-164`), and a document listed without an address is passed
  over without a count (142-144), so that a green sweep can miss a document that is there,
  against the comment at 199-200 ("緑は「全部取れた」以外を意味してはいけない").
  `GreenMeansCapturedOrExpired` therefore claims less than the comment. A publisher's
  refusal is asked again the next day.
* Documents: a handoff without a document goes to a client that follows redirects
  anywhere (`document_analysis/pipeline.py:31`), as the comment in `disclosure.py:51` says.
* Holdout: the research knowledge counts the reserved rows too, as its own notice says
  (`legacy_research/knowledge.py:343-357`); `TestedOnUnseen` holds nevertheless, because a row
  shown before the freeze is dated no later than it. `evaluate_reserved` is called by tests only; no command tests a frozen
  definition on the reserve.

## 7. Not modelled, and why

* Timing and regime classification, scoring, attributes, narrative, prices: functions
  from record to record without state or order; their unit tests enumerate what a
  model would.
* Statistics beyond the holdout, and the verdicts of the status snapshot that compare
  means: floating-point estimation over finished tables.
* Parsers: of pages, of robots.txt, of PDFs, of index files. Each is one choice among its
  outcomes.
* Bundle files and their digests (`persistence.py`): the directory never outlives its
  job, so a crash between two writes has no successor that could read it.
* Offline fixture mode, the `plan` job's own failure report, runs that end as skipped
  without a commit: no state of the system.
* Legacy research import: one-time, over historical files. The remaining commands and
  tools parse arguments and call one function each; the remaining CI jobs install and
  test.
* Time zones, event and schedule-source references of a registry row, column formats and
  references between tables in the validator: checks of one value each.
* In one instance only one target, one event or one capture at a time: rows of different
  targets and events share no state but the artifact store, the Issues and the
  trials directory, which are modelled with several actors.
