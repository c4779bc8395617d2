-------------------------- MODULE MonitorRuntime --------------------------
(***************************************************************************)
(* One Level 2 monitor target over its lifetime: monitoring/runtime.py.    *)
(*                                                                         *)
(* Each execution hands MonitorRuntime.transition the last committed       *)
(* checkpoint, the run history, the Human resolutions recorded so far and  *)
(* one observation of the page.  It either raises (nothing is committed)   *)
(* or appends one run and replaces the checkpoint, provided the generated  *)
(* bundle passes the contract (self_validate).  Around it the page is      *)
(* edited, Humans record resolutions and corrections, and the registry row *)
(* may be edited.                                                          *)
(***************************************************************************)
EXTENDS MonitorContract

CONSTANTS
  MaxRuns,         \* bound: committed runs in the history
  MaxResolutions,  \* bound: resolution rows
  MaxTime          \* bound: the clock

ASSUME BoundsAssumption == MaxRuns \in Nat /\ MaxResolutions \in Nat /\ MaxTime \in Nat

VARIABLES
  page,             \* what the source publishes now
  change_response,  \* the registry row's change_response
  runs,             \* run_history.json of the committed bundle
  checkpoint,       \* checkpoint.json of the committed bundle
  bundle_response,  \* change_response in the bundle's target.json
  resolutions,      \* monitor_resolution rows, in the order Humans wrote them
  now,              \* clock
  outcome           \* how the last execution ended

vars == <<page, change_response, runs, checkpoint, bundle_response,
          resolutions, now, outcome>>

Outcomes == {"none", "committed", "refused_resolution_time",
             "refused_pending_pointer", "refused_initialization",
             "refused_by_gate"}

\* A successful observation: the fingerprint of the stable metadata, the HTTP
\* replacement indicators, and whether the page itself says it was corrected.
SourceObservation ==
  [fingerprint : Fingerprints, indicators : Indicators, corrected : BOOLEAN]

\* Fault: a fresh checkpoint leaves its version empty.
BlankVersionCheckpoint ==
  [checkpoint_version      |-> Absent,
   target_state            |-> "uninitialized",
   last_checked_at         |-> 0,
   last_success_at         |-> 0,
   last_successful_run_id  |-> 0,
   metadata_fingerprint    |-> Absent,
   observed_indicators     |-> [n \in IndicatorNames |-> Absent],
   last_error_code         |-> Absent,
   consecutive_error_count |-> 0,
   pending_change_run_id   |-> 0,
   resolution_applied_id   |-> 0]

EmptyCheckpoint ==
  [checkpoint_version      |-> 0,
   target_state            |-> "uninitialized",
   last_checked_at         |-> 0,
   last_success_at         |-> 0,
   last_successful_run_id  |-> 0,
   metadata_fingerprint    |-> Absent,
   observed_indicators     |-> [n \in IndicatorNames |-> Absent],
   last_error_code         |-> Absent,
   consecutive_error_count |-> 0,
   pending_change_run_id   |-> 0,
   resolution_applied_id   |-> 0]

TypeOK ==
  /\ page \in SourceObservation
  /\ change_response \in ChangeResponses
  /\ runs \in Seq(MonitorRun)
  /\ checkpoint \in MonitorCheckpoint
  /\ bundle_response \in ChangeResponses
  /\ resolutions \in Seq(MonitorResolution)
  /\ now \in Nat
  /\ outcome \in Outcomes

-----------------------------------------------------------------------------
(***************************************************************************)
(* Classifying one observation.                                            *)
(***************************************************************************)

ReplacementIndicatorsConflict(previous, observation) ==
  \E n \in IndicatorNames :
    /\ previous.observed_indicators[n] # Absent
    /\ previous.observed_indicators[n] # observation.indicators[n]

\* The result of a successful observation against a committed checkpoint.
ClassifiedResult(previous, observation) ==
  IF observation.fingerprint # previous.metadata_fingerprint
    THEN "change_detected"
  ELSE IF observation.corrected \/ ReplacementIndicatorsConflict(previous, observation)
    THEN "error"
  ELSE "no_change"

\* Fault: a different error continues the count of the one before.
ErrorCountNeverRestarts(previous, error_code) ==
  IF error_code = Absent THEN 0 ELSE previous.consecutive_error_count + 1

NextErrorCount(previous, error_code) ==
  IF error_code = Absent THEN 0
  ELSE IF previous.last_error_code = error_code
    THEN previous.consecutive_error_count + 1
  ELSE 1

TargetState(error_code, pending) ==
  IF error_code \in FATAL_MONITOR_ERROR_CODES THEN "stopped"
  ELSE IF pending # 0 THEN "pending_human_review"
  ELSE IF error_code # Absent THEN "degraded"
  ELSE "healthy"

-----------------------------------------------------------------------------
(***************************************************************************)
(* Resolutions and the pending pointer, as the runtime reads them.         *)
(***************************************************************************)

\* Fault: reviewing a change closes the older ones as well.
UnresolvedSinceLastReview ==
  {i \in ChangeRuns(runs) :
     \A j \in ChangeRuns(runs) : j >= i => ResolutionsOf(resolutions, j) = {}}

\* Changes without any resolution row; an autonomous target keeps none open.
UnresolvedChangeIds ==
  {i \in ChangeRuns(runs) : ResolutionsOf(resolutions, i) = {}}

OpenChanges ==
  IF change_response = "autonomous_research_handoff" THEN {} ELSE UnresolvedChangeIds

PendingChange == CHOOSE k \in DOMAIN runs \cup {0} : IsNewestOf(k, OpenChanges)

\* The one unsuperseded resolution of the change the checkpoint points to.
AppliedResolution ==
  LET pending == checkpoint.pending_change_run_id IN
  IF pending = 0 \/ ResolutionsOf(resolutions, pending) = {}
    THEN 0
    ELSE CHOOSE k \in Tails(resolutions, pending) : TRUE

ResolutionOutsideWindow ==
  \E k \in DOMAIN resolutions : resolutions[k].resolved_at > now

\* Fault: the pointer is never compared with the history.
PointerNeverLost == FALSE

\* The checkpoint points to a change nobody resolved and the history no longer
\* calls open: the registry row was switched under a pending review.
PendingPointerLost ==
  /\ checkpoint.pending_change_run_id # 0
  /\ AppliedResolution = 0
  /\ checkpoint.pending_change_run_id # PendingChange

-----------------------------------------------------------------------------
(***************************************************************************)
(* Building the run and the checkpoint, and the hard gate.                 *)
(***************************************************************************)

NewRun(result, error_code, fingerprint_after) ==
  [previous_run_id           |-> Len(runs),
   started_at                |-> now,
   finished_at               |-> now + 1,
   run_result                |-> result,
   error_code                |-> error_code,
   checkpoint_version_before |-> checkpoint.checkpoint_version,
   checkpoint_version_after  |-> checkpoint.checkpoint_version + 1,
   fingerprint_before        |-> checkpoint.metadata_fingerprint,
   fingerprint_after         |-> fingerprint_after,
   notification_required     |-> result \in {"change_detected", "error"}]

\* The part every run rewrites.
CheckedCheckpoint(error_code, pending) ==
  [checkpoint EXCEPT
     !.checkpoint_version      = @ + 1,
     !.target_state            = TargetState(error_code, pending),
     !.last_checked_at         = now + 1,
     !.last_error_code         = error_code,
     !.consecutive_error_count = NextErrorCount(checkpoint, error_code),
     !.pending_change_run_id   = pending,
     !.resolution_applied_id   = IF AppliedResolution # 0 THEN AppliedResolution ELSE @]

\* What a successful run adopts on top.
SucceededCheckpoint(pending, observation) ==
  [CheckedCheckpoint(Absent, pending) EXCEPT
     !.last_success_at        = now + 1,
     !.last_successful_run_id = Len(runs) + 1,
     !.metadata_fingerprint   = observation.fingerprint,
     !.observed_indicators    = observation.indicators]

\* An ambiguous page keeps its fingerprint but its indicators are adopted.
AmbiguousCheckpoint(pending, observation) ==
  [CheckedCheckpoint("content_ambiguous", pending) EXCEPT
     !.observed_indicators = observation.indicators]

\* The generated bundle is committed only when the contract accepts it.
Gate(run, next_checkpoint) ==
  LET accepted ==
        BundleOk(change_response, Append(runs, run), resolutions, next_checkpoint)
  IN  /\ runs' = IF accepted THEN Append(runs, run) ELSE runs
      /\ checkpoint' = IF accepted THEN next_checkpoint ELSE checkpoint
      /\ bundle_response' = IF accepted THEN change_response ELSE bundle_response
      /\ outcome' = IF accepted THEN "committed" ELSE "refused_by_gate"

-----------------------------------------------------------------------------
(***************************************************************************)
(* One execution of transition.                                            *)
(***************************************************************************)

Executes ==
  /\ now < MaxTime
  /\ now' = now + 1
  /\ UNCHANGED <<page, change_response, resolutions>>

Raises(why) ==
  /\ outcome' = why
  /\ UNCHANGED <<runs, checkpoint, bundle_response>>

\* The checks transition makes before it builds any record all pass.
Admitted ==
  /\ ~ResolutionOutsideWindow
  /\ ~PendingPointerLost

\* First run of an authorized target: no previous checkpoint.
Initialize ==
  /\ runs = <<>>
  /\ MaxRuns > 0
  /\ Executes
  /\ Admitted
  /\ Gate(NewRun("initialized", Absent, page.fingerprint),
          SucceededCheckpoint(0, page))

\* The page was read: no_change, change_detected or content_ambiguous.
Observe ==
  LET result == ClassifiedResult(checkpoint, page)
      fingerprint_after == IF result = "error" THEN Absent ELSE page.fingerprint
      error_code == IF result = "error" THEN "content_ambiguous" ELSE Absent
      pending == IF result = "change_detected" /\ change_response = "human_review"
                   THEN Len(runs) + 1 ELSE PendingChange
  IN  /\ runs # <<>>
      /\ Len(runs) < MaxRuns
      /\ Executes
      /\ Admitted
      /\ Gate(NewRun(result, error_code, fingerprint_after),
              IF result = "error" THEN AmbiguousCheckpoint(pending, page)
                                  ELSE SucceededCheckpoint(pending, page))

\* The observation failed, or was withheld because the state is stale.
FailObservation(error_code) ==
  /\ runs # <<>>
  /\ Len(runs) < MaxRuns
  /\ Executes
  /\ Admitted
  /\ Gate(NewRun("error", error_code, Absent),
          CheckedCheckpoint(error_code, PendingChange))

\* Inputs transition refuses before building anything.
RefuseResolutionTime ==
  /\ Executes
  /\ ResolutionOutsideWindow
  /\ Raises("refused_resolution_time")

RefusePendingPointer ==
  /\ Executes
  /\ ~ResolutionOutsideWindow
  /\ PendingPointerLost
  /\ Raises("refused_pending_pointer")

\* An initialization whose observation failed.
RefuseInitialization ==
  /\ runs = <<>>
  /\ Executes
  /\ ~ResolutionOutsideWindow
  /\ Raises("refused_initialization")

-----------------------------------------------------------------------------
(***************************************************************************)
(* The environment of the runtime.                                         *)
(***************************************************************************)

EditPage ==
  /\ page' \in SourceObservation \ {page}
  /\ UNCHANGED <<change_response, runs, checkpoint, bundle_response,
                 resolutions, now, outcome>>

\* A Human writes a first resolution of a detected change, or a correction of
\* the current one.  The row follows the contract; its time may lie ahead of
\* the clock of the next execution.
RecordResolution(source, resolved_at) ==
  LET earlier == ResolutionsOf(resolutions, source)
      current == CHOOSE k \in DOMAIN resolutions \cup {0} : IsNewestOf(k, earlier)
      row     == [source_monitor_run_id    |-> source,
                  resolved_at              |-> resolved_at,
                  supersedes_resolution_id |-> current]
  IN  /\ Len(resolutions) < MaxResolutions
      /\ resolved_at >= runs[source].finished_at
      /\ current # 0 => resolved_at > resolutions[current].resolved_at
      /\ resolutions' = Append(resolutions, row)
      /\ UNCHANGED <<page, change_response, runs, checkpoint, bundle_response,
                     now, outcome>>

\* A registry edit between two executions.
SwitchResponse ==
  /\ change_response' \in ChangeResponses \ {change_response}
  /\ UNCHANGED <<page, runs, checkpoint, bundle_response, resolutions, now, outcome>>

-----------------------------------------------------------------------------
Init ==
  /\ page \in SourceObservation
  /\ change_response \in ChangeResponses
  /\ bundle_response = change_response
  /\ runs = <<>>
  /\ checkpoint = EmptyCheckpoint
  /\ resolutions = <<>>
  /\ now = 0
  /\ outcome = "none"

Next ==
  \/ Initialize
  \/ Observe
  \/ \E error_code \in SourceErrors \cup {"state_unavailable"} :
       FailObservation(error_code)
  \/ RefuseResolutionTime
  \/ RefuseInitialization
  \/ EditPage
  \/ \E source \in ChangeRuns(runs), resolved_at \in {now, now + 1} :
       RecordResolution(source, resolved_at)

\* The registry row stays as it was activated.
Spec == Init /\ [][Next]_vars

\* The registry row may be edited while runs go on.
EditedNext == Next \/ RefusePendingPointer \/ SwitchResponse

EditedSpec == Init /\ [][EditedNext]_vars

-----------------------------------------------------------------------------
(***************************************************************************)
(* Properties.                                                             *)
(***************************************************************************)

\* What the runtime generates from its own committed state, a Human's valid
\* resolutions and any observation always passes the contract, and the
\* checkpoint's pending pointer always agrees with the history: no execution
\* on a target whose registry row stays put can wedge (transition's two
\* "cannot happen" errors: the self_validate gate and the pointer check).
RuntimeAcceptsItsOwnState ==
  /\ outcome # "refused_by_gate"
  /\ ~PendingPointerLost

\* Detected changes that no resolution row names.
Unreviewed ==
  {c \in DOMAIN runs : runs[c].run_result = "change_detected"
                       /\ \A k \in DOMAIN resolutions :
                            resolutions[k].source_monitor_run_id # c}

\* Under human_review a change nobody resolved is never forgotten: the
\* committed checkpoint points to it or to a newer one and shows it, through
\* any later no_change, error, stale stop, correction or registry edit.
ReviewNotForgotten ==
  (bundle_response = "human_review" /\ Unreviewed # {}) =>
    /\ \A c \in Unreviewed : c <= checkpoint.pending_change_run_id
    /\ checkpoint.target_state \in {"pending_human_review", "stopped"}

\* An execution takes the checkpoint's pending change away only when a Human
\* resolved it or a newer change replaced it as the one to route, even when the
\* registry row is switched to autonomous handoff under the pending review.
PendingLeavesOnlyByReview ==
  [][LET pending == checkpoint.pending_change_run_id IN
     (pending # 0 /\ checkpoint'.pending_change_run_id # pending) =>
        \/ ResolutionsOf(resolutions, pending) # {}
        \/ checkpoint'.pending_change_run_id > pending]_vars

(***************************************************************************)
(* The promise to the reader, seen through the committed state.            *)
(***************************************************************************)
Review == INSTANCE ChangeReview WITH
            Contents  <- Fingerprints,
            Nothing   <- Absent,
            ChangeIds <- 1 .. MaxRuns,
            mode      <- IF change_response = "human_review" THEN "review" ELSE "handoff",
            known     <- checkpoint.metadata_fingerprint,
            open      <- OpenChanges,
            flagged   <- checkpoint.pending_change_run_id # 0

\* The runtime implements ChangeReview: every new content opens a change, only
\* a Human's resolution closes it, and the checkpoint's pending flag falls only
\* at a run that finds no change open.
ImplementsChangeReview == Review!Spec
=============================================================================
