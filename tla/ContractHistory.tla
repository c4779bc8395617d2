--------------------------- MODULE ContractHistory ---------------------------
(***************************************************************************)
(* The contract alone, whatever writes the bundles.                        *)
(*                                                                         *)
(* A writer extends the history by any run row and any checkpoint, and a   *)
(* Human's table by any resolution row; write_committed_bundle and         *)
(* verify_bundle accept the extension exactly when validate_monitor_bundle *)
(* does.  What holds here holds for every runtime behind the gate, a       *)
(* faulty one included.                                                    *)
(***************************************************************************)
EXTENDS MonitorContract

CONSTANTS
  MaxRuns,         \* bound: runs in the history
  MaxResolutions   \* bound: resolution rows

VARIABLES response, runs, resolutions, checkpoint

vars == <<response, runs, resolutions, checkpoint>>

\* Any claim about the observation; reference, clock and version continue the
\* history, so that the contract has to tell the claims apart.
CandidateRuns ==
  [previous_run_id           : {Len(runs)},
   started_at                : {Len(runs)},
   finished_at               : {Len(runs) + 1},
   run_result                : RunResults,
   error_code                : {"content_ambiguous", "state_unavailable", Absent},
   checkpoint_version_before : {Len(runs)},
   checkpoint_version_after  : {Len(runs) + 1},
   fingerprint_before        : Fingerprints \cup {Absent},
   fingerprint_after         : Fingerprints \cup {Absent},
   notification_required     : {TRUE}]

CandidateResolutions ==
  [source_monitor_run_id    : 1 .. Len(runs),
   resolved_at              : {Len(runs)},
   supersedes_resolution_id : 0 .. Len(resolutions)]

\* Any claim about state, fingerprint, pending change and applied resolution;
\* the last success and the error episode are counted from the history.
CandidateCheckpoints(history) ==
  LET n       == Len(history)
      code    == history[n].error_code
      alike   == {i \in 1 .. n : \A j \in i .. n : history[j].error_code = code}
      success == CHOOSE k \in 0 .. n : IsNewestOf(k, SuccessfulRuns(history))
  IN  [checkpoint_version      : {n},
       target_state            : TargetStates,
       last_checked_at         : {n},
       last_success_at         : {success},
       last_successful_run_id  : {success},
       metadata_fingerprint    : Fingerprints \cup {Absent},
       observed_indicators     : {[i \in IndicatorNames |-> Absent]},
       last_error_code         : {code},
       consecutive_error_count : {IF code = Absent THEN 0
                                  ELSE CHOOSE c \in 1 .. n : n - c + 1 \in alike
                                                             /\ n - c \notin alike},
       pending_change_run_id   : 0 .. n,
       resolution_applied_id   : 0 .. Len(resolutions)]

Init ==
  /\ response \in ChangeResponses
  /\ runs = <<>>
  /\ resolutions = <<>>
  /\ checkpoint = [checkpoint_version      |-> 0,
                   target_state            |-> "uninitialized",
                   last_checked_at         |-> 0,
                   last_success_at         |-> 0,
                   last_successful_run_id  |-> 0,
                   metadata_fingerprint    |-> Absent,
                   observed_indicators     |-> [i \in IndicatorNames |-> Absent],
                   last_error_code         |-> Absent,
                   consecutive_error_count |-> 0,
                   pending_change_run_id   |-> 0,
                   resolution_applied_id   |-> 0]

\* A bundle with one more run is accepted.
AcceptRun ==
  /\ Len(runs) < MaxRuns
  /\ \E run \in CandidateRuns :
       /\ RunRowOk(run)
       /\ RunLineageOk(Append(runs, run))
       /\ \E next \in CandidateCheckpoints(Append(runs, run)) :
            /\ BundleOk(response, Append(runs, run), resolutions, next)
            /\ runs' = Append(runs, run)
            /\ checkpoint' = next
  /\ UNCHANGED <<response, resolutions>>

\* A resolution row the contract will accept in the next bundle is recorded.
AcceptResolution ==
  /\ Len(resolutions) < MaxResolutions
  /\ \E row \in CandidateResolutions :
       /\ ResolutionLineageOk(runs, Append(resolutions, row))
       /\ resolutions' = Append(resolutions, row)
  /\ UNCHANGED <<response, runs, checkpoint>>

\* A complete history waits for nothing.
Complete ==
  /\ Len(runs) = MaxRuns
  /\ UNCHANGED vars

Next == AcceptRun \/ AcceptResolution \/ Complete

Spec == Init /\ [][Next]_vars

-----------------------------------------------------------------------------
\* No content change slips between two successful observations of an accepted
\* history: when their fingerprints differ, some run in between, or the later
\* one, reported change_detected, however many errors lie between.
NoSilentChange ==
  \A i \in SuccessfulRuns(runs), j \in SuccessfulRuns(runs) :
    (i < j /\ runs[i].fingerprint_after # runs[j].fingerprint_after)
      => \E k \in i + 1 .. j : k \in ChangeRuns(runs)

\* An accepted checkpoint of a human_review target shows the newest change
\* without a resolution, and never calls the target healthy or degraded while
\* one is left.
ReviewIsShown ==
  LET unresolved == {c \in ChangeRuns(runs) : ResolutionsOf(resolutions, c) = {}}
  IN  (response = "human_review" /\ unresolved # {}) =>
        /\ \A c \in unresolved : c <= checkpoint.pending_change_run_id
        /\ checkpoint.target_state \in {"pending_human_review", "stopped"}
=============================================================================
