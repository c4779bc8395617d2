----------------------- MODULE ContractHistoryProofs -----------------------
(***************************************************************************)
(* What the contract guarantees about every accepted history, however long *)
(* and whoever wrote it.                                                   *)
(***************************************************************************)
EXTENDS ContractHistory, MonitorContractLemmas, TLAPS

\* The rows and the run lineage of an accepted history, which BundleOk rechecks
\* with every bundle.
HistoryInv ==
  /\ runs \in Seq(MonitorRun)
  /\ resolutions \in Seq(MonitorResolution)
  /\ \A i \in DOMAIN runs : RunRowOk(runs[i])
  /\ RunLineageOk(runs)

\* Before the first run there is nothing to check.
LEMMA InitHistoryInv == Init => HistoryInv
BY DEF Init, HistoryInv, RunLineageOk

\* A candidate claims nothing but a row of the run table.
LEMMA CandidateRunType ==
  ASSUME HistoryInv, NEW run \in CandidateRuns
  PROVE  run \in MonitorRun
<1> DEFINE claimed == {"content_ambiguous", "state_unavailable", Absent}
           codes   == ErrorCodes \cup {Absent}
           prints  == Fingerprints \cup {Absent}
           here    == {Len(runs)}
           there   == {Len(runs) + 1}
           told    == {TRUE}
           flags   == BOOLEAN
<1>1. claimed \subseteq codes
  BY DEF ErrorCodes
<1>2. here \subseteq Nat /\ there \subseteq Nat
  BY DEF HistoryInv
<1>3. told \subseteq flags
  OBVIOUS
<1>4. CandidateRuns =
        [previous_run_id : here, started_at : here, finished_at : there,
         run_result : RunResults, error_code : claimed,
         checkpoint_version_before : here, checkpoint_version_after : there,
         fingerprint_before : prints, fingerprint_after : prints,
         notification_required : told]
  BY Zenon DEF CandidateRuns
<1>5. MonitorRun =
        [previous_run_id : Nat, started_at : Nat, finished_at : Nat,
         run_result : RunResults, error_code : codes,
         checkpoint_version_before : Nat, checkpoint_version_after : Nat,
         fingerprint_before : prints, fingerprint_after : prints,
         notification_required : flags]
  BY Zenon DEF MonitorRun
<1> HIDE DEF claimed, codes, prints, here, there, told, flags
<1> QED
  BY <1>1, <1>2, <1>3, <1>4, <1>5

\* Accepting a bundle or a resolution keeps the history in order.
LEMMA NextHistoryInv == HistoryInv /\ [Next]_vars => HistoryInv'
<1> SUFFICES ASSUME HistoryInv, [Next]_vars PROVE HistoryInv'
  OBVIOUS
<1>1. CASE AcceptRun
  <2>1. PICK run \in CandidateRuns :
          /\ BundleOk(response, runs', resolutions, checkpoint')
          /\ runs' = Append(runs, run)
    BY <1>1 DEF AcceptRun
  <2>2. runs' \in Seq(MonitorRun)
    BY <2>1, CandidateRunType DEF HistoryInv
  <2>3. UNCHANGED resolutions
    BY <1>1 DEF AcceptRun
  <2> QED
    BY <2>1, <2>2, <2>3 DEF BundleOk, HistoryInv
<1>2. CASE AcceptResolution
  <2>1. PICK row \in CandidateResolutions : resolutions' = Append(resolutions, row)
    BY <1>2 DEF AcceptResolution
  <2>2. row \in MonitorResolution
    BY <2>1 DEF CandidateResolutions, MonitorResolution, HistoryInv
  <2> QED
    BY <1>2, <2>1, <2>2 DEF AcceptResolution, HistoryInv
<1>3. CASE UNCHANGED vars
  BY <1>3 DEF HistoryInv, vars
<1> QED
  BY <1>1, <1>2, <1>3 DEF Next, Complete

\* A change of content between two successful observations of an accepted
\* history was reported, however many failed runs lie between them.
THEOREM ChangesAreReported == Spec => []NoSilentChange
<1>1. HistoryInv => NoSilentChange
  BY LineageReportsChanges DEF HistoryInv, NoSilentChange
<1> QED
  BY InitHistoryInv, NextHistoryInv, <1>1, PTL DEF Spec

-----------------------------------------------------------------------------
\* What an accepted bundle's checkpoint shows of the changes left open.
LEMMA AcceptedShowsReview ==
  ASSUME AcceptRun
  PROVE  ReviewIsShown'
<1>1. BundleOk(response, runs', resolutions, checkpoint') /\ UNCHANGED <<response, resolutions>>
  BY DEF AcceptRun
<1> SUFFICES ASSUME response = "human_review",
                    NEW c \in ChangeRuns(runs'), ResolutionsOf(resolutions, c) = {}
             PROVE  /\ c <= checkpoint'.pending_change_run_id
                    /\ checkpoint'.target_state \in {"pending_human_review", "stopped"}
  BY <1>1 DEF ReviewIsShown
<1>2. c \in UnresolvedByContract("human_review", runs', resolutions)
  BY UnresolvedWithoutRow
<1>3. PendingChangeOk("human_review", runs', resolutions, checkpoint')
  BY <1>1 DEF BundleOk
<1> QED
  BY <1>2, <1>3 DEF PendingChangeOk, IsNewestOf

\* Every step keeps the open changes in view.
LEMMA NextReviewIsShown ==
  HistoryInv /\ ReviewIsShown /\ [Next]_vars => ReviewIsShown'
<1> SUFFICES ASSUME HistoryInv, ReviewIsShown, [Next]_vars PROVE ReviewIsShown'
  OBVIOUS
<1>1. CASE AcceptRun
  BY <1>1, AcceptedShowsReview
<1>2. CASE AcceptResolution
  <2>1. PICK row : resolutions' = Append(resolutions, row)
    BY <1>2 DEF AcceptResolution
  <2>2. UNCHANGED <<response, runs, checkpoint>>
    BY <1>2 DEF AcceptResolution
  <2>3. ASSUME NEW c PROVE ResolutionsOf(resolutions, c) \subseteq ResolutionsOf(resolutions', c)
    BY <2>1 DEF ResolutionsOf, HistoryInv
  <2> QED
    BY <2>2, <2>3 DEF ReviewIsShown
<1>3. CASE UNCHANGED vars
  BY <1>3 DEF vars, ReviewIsShown
<1> QED
  BY <1>1, <1>2, <1>3 DEF Next, Complete

\* No accepted checkpoint of a human_review target hides a change nobody
\* resolved.
THEOREM OpenChangesAreShown == Spec => []ReviewIsShown
<1>1. Init => ReviewIsShown
  BY DEF Init, ReviewIsShown, ChangeRuns
<1> QED
  BY <1>1, InitHistoryInv, NextHistoryInv, NextReviewIsShown, PTL DEF Spec
=============================================================================
