-------------------------- MODULE MonitorContract --------------------------
(***************************************************************************)
(* The contract every Level 2 state bundle must satisfy before it may be   *)
(* written, uploaded or read back: validate_monitor_bundle of              *)
(* validation/validator.py.  A bundle holds the append-only run history,   *)
(* the append-only Human resolution history, the registry row of the       *)
(* target and the current checkpoint.                                      *)
(*                                                                         *)
(* A run is identified by its position in the history and a resolution by  *)
(* its row, so 0 stands for an empty run or resolution reference.  Absent  *)
(* is the empty field of the other columns.                                *)
(***************************************************************************)
EXTENDS Integers, Sequences

CONSTANTS
  Fingerprints,     \* metadata fingerprints a source can have
  IndicatorNames,   \* replacement indicators: etag, last-modified, length
  IndicatorValues,  \* values an indicator can have
  SourceErrors,     \* observation errors other than the three named below
  Absent            \* the empty field

ErrorCodes == SourceErrors \cup
              {"content_ambiguous", "state_unavailable", "persistence_error"}

FATAL_MONITOR_ERROR_CODES == {"state_unavailable", "persistence_error"}

ASSUME AbsentAssumption ==
  /\ Absent \notin Fingerprints
  /\ Absent \notin IndicatorValues
  /\ Absent \notin ErrorCodes

ASSUME SourceErrorsAssumption ==
  SourceErrors \cap
    {"content_ambiguous", "state_unavailable", "persistence_error"} = {}

ChangeResponses == {"human_review", "autonomous_research_handoff"}

RunResults == {"initialized", "no_change", "change_detected", "error"}

TargetStates == {"uninitialized", "healthy", "degraded",
                 "pending_human_review", "stopped"}

(***************************************************************************)
(* The rows of the bundle.                                                 *)
(***************************************************************************)

MonitorRun ==
  [previous_run_id           : Nat,
   started_at                : Nat,
   finished_at               : Nat,
   run_result                : RunResults,
   error_code                : ErrorCodes \cup {Absent},
   checkpoint_version_before : Nat,
   checkpoint_version_after  : Nat,
   fingerprint_before        : Fingerprints \cup {Absent},
   fingerprint_after         : Fingerprints \cup {Absent},
   notification_required     : BOOLEAN]

MonitorResolution ==
  [source_monitor_run_id    : Nat,
   resolved_at              : Nat,
   supersedes_resolution_id : Nat]

Indicators == [IndicatorNames -> IndicatorValues \cup {Absent}]

MonitorCheckpoint ==
  [checkpoint_version      : Nat,
   target_state            : TargetStates,
   last_checked_at         : Nat,
   last_success_at         : Nat,
   last_successful_run_id  : Nat,
   metadata_fingerprint    : Fingerprints \cup {Absent},
   observed_indicators     : Indicators,
   last_error_code         : ErrorCodes \cup {Absent},
   consecutive_error_count : Nat,
   pending_change_run_id   : Nat,
   resolution_applied_id   : Nat]

(***************************************************************************)
(* Reading a history.                                                      *)
(***************************************************************************)

\* The newest member of a set of positions, 0 when there is none.
IsNewestOf(k, S) ==
  IF S = {} THEN k = 0 ELSE k \in S /\ \A j \in S : j <= k

Succeeded(run) == run.run_result # "error"

SuccessfulRuns(runs) == {i \in DOMAIN runs : Succeeded(runs[i])}

\* Fault: only the latest run is asked for an open change.
LatestChangeRun(runs) ==
  {i \in {Len(runs)} \cap DOMAIN runs : runs[i].run_result = "change_detected"}

ChangeRuns(runs) ==
  {i \in DOMAIN runs : runs[i].run_result = "change_detected"}

ResolutionsOf(resolutions, source) ==
  {k \in DOMAIN resolutions : resolutions[k].source_monitor_run_id = source}

\* Rows of one source that no other row of that source supersedes.
Tails(resolutions, source) ==
  {k \in ResolutionsOf(resolutions, source) :
     \A j \in ResolutionsOf(resolutions, source) :
        resolutions[j].supersedes_resolution_id # k}

\* Sources whose newest row is not itself referenced as a superseded one.
EffectiveSources(resolutions) ==
  {source \in {resolutions[k].source_monitor_run_id : k \in DOMAIN resolutions} :
     \E k \in ResolutionsOf(resolutions, source) :
       /\ \A j \in ResolutionsOf(resolutions, source) : j <= k
       /\ \A j \in DOMAIN resolutions :
             resolutions[j].supersedes_resolution_id # k}

\* An autonomous target hands its changes to research and waits for nobody.
UnresolvedByContract(response, runs, resolutions) ==
  IF response = "autonomous_research_handoff"
    THEN {}
    ELSE ChangeRuns(runs) \ EffectiveSources(resolutions)

(***************************************************************************)
(* The rules, one operator per table or relation.                          *)
(***************************************************************************)

RunRowOk(run) ==
  /\ run.started_at <= run.finished_at
  /\ run.run_result = "initialized" =>
       /\ run.checkpoint_version_before = 0
       /\ run.checkpoint_version_after = 1
       /\ run.fingerprint_before = Absent
       /\ run.fingerprint_after # Absent
       /\ run.previous_run_id = 0
  /\ run.run_result = "no_change" =>
       /\ run.fingerprint_before # Absent
       /\ run.fingerprint_before = run.fingerprint_after
  /\ run.run_result = "change_detected" =>
       /\ run.fingerprint_before # Absent
       /\ run.fingerprint_after # Absent
       /\ run.fingerprint_before # run.fingerprint_after
  /\ (run.run_result = "error") <=> (run.error_code # Absent)
  /\ run.checkpoint_version_after = run.checkpoint_version_before + 1
  /\ run.run_result \in {"change_detected", "error"} => run.notification_required

CheckpointRowOk(checkpoint) ==
  /\ checkpoint.last_success_at <= checkpoint.last_checked_at
  /\ checkpoint.target_state = "uninitialized" => checkpoint.checkpoint_version = 0
  /\ checkpoint.target_state = "pending_human_review"
       => checkpoint.pending_change_run_id # 0
  /\ checkpoint.pending_change_run_id # 0
       => checkpoint.target_state \in {"pending_human_review", "stopped"}
  /\ (checkpoint.last_error_code # Absent) <=> (checkpoint.consecutive_error_count > 0)
  /\ checkpoint.target_state = "degraded" => checkpoint.last_error_code # Absent
  /\ checkpoint.target_state = "healthy"
       => checkpoint.last_error_code \notin FATAL_MONITOR_ERROR_CODES

\* Fault: fingerprint_before is not compared with the last success.
LineageWithoutFingerprint(runs) ==
  \A i \in DOMAIN runs :
    /\ runs[i].previous_run_id = i - 1
    /\ (i = 1) <=> (runs[i].run_result = "initialized")
    /\ i > 1 => runs[i].checkpoint_version_before = runs[i - 1].checkpoint_version_after

\* Every run continues the one before it: reference, clock, version and the
\* fingerprint the previous successful observation left behind.
RunLineageOk(runs) ==
  \A i \in DOMAIN runs :
    /\ runs[i].previous_run_id = i - 1
    /\ (i = 1) <=> (runs[i].run_result = "initialized")
    /\ i > 1 =>
         /\ runs[i].started_at >= runs[i - 1].finished_at
         /\ runs[i].checkpoint_version_before = runs[i - 1].checkpoint_version_after
    /\ \A j \in 1 .. i - 1 :
         (/\ Succeeded(runs[j])
          /\ \A k \in j + 1 .. i - 1 : ~Succeeded(runs[k])
          /\ runs[i].fingerprint_before # Absent)
         => runs[i].fingerprint_before = runs[j].fingerprint_after

\* A resolution answers a detected change after it finished, and a second row
\* for the same change supersedes the current one at a later time.
ResolutionRowOk(runs, resolutions, k) ==
  LET row     == resolutions[k]
      earlier == {j \in ResolutionsOf(resolutions, row.source_monitor_run_id) : j < k}
  IN  /\ row.source_monitor_run_id \in ChangeRuns(runs)
      /\ row.resolved_at >= runs[row.source_monitor_run_id].finished_at
      /\ IsNewestOf(row.supersedes_resolution_id, earlier)
      /\ earlier # {} =>
           row.resolved_at > resolutions[row.supersedes_resolution_id].resolved_at

ResolutionLineageOk(runs, resolutions) ==
  \A k \in DOMAIN resolutions : ResolutionRowOk(runs, resolutions, k)

\* The checkpoint says what the last run and the last success say.
CheckpointLineageOk(runs, checkpoint) ==
  LET last == runs[Len(runs)] IN
  /\ checkpoint.checkpoint_version = last.checkpoint_version_after
  /\ checkpoint.last_checked_at = last.finished_at
  /\ IsNewestOf(checkpoint.last_successful_run_id, SuccessfulRuns(runs))
  /\ checkpoint.last_successful_run_id # 0 =>
       LET success == runs[checkpoint.last_successful_run_id] IN
       /\ checkpoint.last_success_at = success.finished_at
       /\ checkpoint.metadata_fingerprint = success.fingerprint_after

\* Fault: the pointer may name any open change, the newest one or not.
PendingChangeIsSomeOpenOne(response, runs, resolutions, checkpoint) ==
  LET unresolved == UnresolvedByContract(response, runs, resolutions) IN
  IF unresolved = {} THEN checkpoint.pending_change_run_id = 0
                     ELSE checkpoint.pending_change_run_id \in unresolved

\* The checkpoint points to the newest change no Human has resolved, and its
\* state shows it.
PendingChangeOk(response, runs, resolutions, checkpoint) ==
  LET unresolved == UnresolvedByContract(response, runs, resolutions) IN
  /\ IsNewestOf(checkpoint.pending_change_run_id, unresolved)
  /\ unresolved # {} =>
       checkpoint.target_state =
         IF runs[Len(runs)].error_code \in FATAL_MONITOR_ERROR_CODES
           THEN "stopped" ELSE "pending_human_review"
  /\ unresolved = {} => checkpoint.target_state # "pending_human_review"

AppliedResolutionOk(response, runs, resolutions, checkpoint) ==
  LET applied == checkpoint.resolution_applied_id IN
  IF applied # 0
    THEN /\ applied \in DOMAIN resolutions
         /\ resolutions[applied].source_monitor_run_id \in EffectiveSources(resolutions)
    ELSE ~(/\ response = "human_review"
           /\ ChangeRuns(runs) # {}
           /\ UnresolvedByContract(response, runs, resolutions) = {}
           /\ checkpoint.target_state = "healthy")

\* last_error_code and consecutive_error_count describe the unbroken streak of
\* one error at the end of the history.
ErrorEpisodeOk(runs, checkpoint) ==
  LET last  == Len(runs)
      code  == runs[last].error_code
      count == checkpoint.consecutive_error_count
  IN  /\ checkpoint.last_error_code = code
      /\ code = Absent => count = 0
      /\ code # Absent =>
           /\ count \in 1 .. last
           /\ \A i \in last - count + 1 .. last : runs[i].error_code = code
           /\ count < last => runs[last - count].error_code # code

\* validate_monitor_bundle accepts the bundle.
BundleOk(response, runs, resolutions, checkpoint) ==
  /\ \A i \in DOMAIN runs : RunRowOk(runs[i])
  /\ CheckpointRowOk(checkpoint)
  /\ RunLineageOk(runs)
  /\ ResolutionLineageOk(runs, resolutions)
  /\ CheckpointLineageOk(runs, checkpoint)
  /\ PendingChangeOk(response, runs, resolutions, checkpoint)
  /\ AppliedResolutionOk(response, runs, resolutions, checkpoint)
  /\ ErrorEpisodeOk(runs, checkpoint)
=============================================================================
