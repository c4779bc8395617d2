------------------------ MODULE MonitorRuntimeProofs ------------------------
(***************************************************************************)
(* Theorems about MonitorRuntime for every set of fingerprints, indicators *)
(* and errors and every bound.  Those of the first three sections hold of  *)
(* EditedSpec, in which the registry row may be switched at any time, and  *)
(* so of Spec; the last two, the runtime accepts its own state and the     *)
(* refinement of ChangeReview, hold of Spec only.                          *)
(***************************************************************************)
EXTENDS MonitorRuntime, MonitorContractLemmas, TLAPS

\* A resolution only ever supersedes a row written before it.
SupersedesEarlier ==
  \A j \in DOMAIN resolutions : resolutions[j].supersedes_resolution_id < j

\* TypeOK with what makes the runtime's choice of a resolution well defined.
TypeInv == TypeOK /\ SupersedesEarlier

-----------------------------------------------------------------------------
(***************************************************************************)
(* The two choices of the runtime denote what they are meant to.           *)
(***************************************************************************)

\* The pending pointer is the newest open change, 0 when there is none.
LEMMA PendingChangeIsNewest ==
  ASSUME TypeOK
  PROVE  /\ PendingChange \in DOMAIN runs \cup {0}
         /\ IsNewestOf(PendingChange, OpenChanges)
<1>1. Len(runs) \in Nat /\ DOMAIN runs = 1 .. Len(runs)
  BY DEF TypeOK
<1>2. OpenChanges \in SUBSET (1 .. Len(runs))
  BY <1>1 DEF OpenChanges, UnresolvedChangeIds, ChangeRuns
<1>3. \E k \in DOMAIN runs \cup {0} : IsNewestOf(k, OpenChanges)
  BY <1>1, <1>2, NewestExists
<1> QED
  BY <1>3 DEF PendingChange

\* The runtime applies a row of the pending change, 0 exactly when it has none:
\* the newest row of a change is superseded by no other row of it.
LEMMA AppliedResolutionIsRow ==
  ASSUME TypeInv
  PROVE  LET pending == checkpoint.pending_change_run_id IN
         /\ AppliedResolution \in ResolutionsOf(resolutions, pending) \cup {0}
         /\ AppliedResolution \in DOMAIN resolutions \cup {0}
         /\ (AppliedResolution # 0) <=>
              (pending # 0 /\ ResolutionsOf(resolutions, pending) # {})
<1> DEFINE pending == checkpoint.pending_change_run_id
           rows == ResolutionsOf(resolutions, pending)
<1>1. Len(resolutions) \in Nat /\ DOMAIN resolutions = 1 .. Len(resolutions)
  BY DEF TypeInv, TypeOK
<1>2. CASE pending = 0 \/ rows = {}
  BY <1>2 DEF AppliedResolution
<1>3. CASE ~(pending = 0 \/ rows = {})
  <2>1. rows \in SUBSET (1 .. Len(resolutions))
    BY <1>1 DEF ResolutionsOf
  <2>2. PICK k \in (1 .. Len(resolutions)) \cup {0} : IsNewestOf(k, rows)
    BY <1>1, <2>1, NewestExists
  <2>3. k \in rows /\ \A j \in rows : j <= k
    BY <1>3, <2>2 DEF IsNewestOf
  <2>4. ASSUME NEW j \in rows
        PROVE  resolutions[j].supersedes_resolution_id # k
    <3>1. j \in DOMAIN resolutions /\ j \in Nat /\ k \in Nat
      BY <1>1, <2>1, <2>3
    <3>2. resolutions[j].supersedes_resolution_id \in Nat
      <4>1. resolutions[j] \in MonitorResolution
        BY <3>1 DEF TypeInv, TypeOK
      <4> QED
        BY <4>1 DEF MonitorResolution
    <3>3. resolutions[j].supersedes_resolution_id < j
      BY <3>1 DEF TypeInv, SupersedesEarlier
    <3>4. j <= k
      BY <2>3
    <3> QED
      BY <3>1, <3>2, <3>3, <3>4
  <2>5. k \in Tails(resolutions, pending)
    BY <2>3, <2>4 DEF Tails
  <2>6. AppliedResolution = CHOOSE t \in Tails(resolutions, pending) : TRUE
    BY <1>3 DEF AppliedResolution
  <2>7. AppliedResolution \in Tails(resolutions, pending)
    BY <2>5, <2>6
  <2>8. AppliedResolution \in rows /\ rows \subseteq DOMAIN resolutions /\ 0 \notin rows
    BY <1>1, <2>7 DEF Tails, ResolutionsOf
  <2> QED
    BY <1>3, <2>8
<1> QED
  BY <1>2, <1>3

-----------------------------------------------------------------------------
(***************************************************************************)
(* Type correctness.                                                       *)
(***************************************************************************)

\* A generated run is a row of the run table.
LEMMA NewRunType ==
  ASSUME TypeOK, NEW result \in RunResults, NEW error_code \in ErrorCodes \cup {Absent},
         NEW fingerprint \in Fingerprints \cup {Absent}
  PROVE  NewRun(result, error_code, fingerprint) \in MonitorRun
<1>1. /\ Len(runs) \in Nat
      /\ now \in Nat
      /\ checkpoint.checkpoint_version \in Nat
      /\ checkpoint.metadata_fingerprint \in Fingerprints \cup {Absent}
  BY DEF TypeOK, MonitorCheckpoint
<1> QED
  BY <1>1 DEF NewRun, MonitorRun

\* The part of the checkpoint every run rewrites keeps its type.
LEMMA CheckedCheckpointType ==
  ASSUME TypeInv, NEW error_code \in ErrorCodes \cup {Absent}, NEW pending \in Nat
  PROVE  CheckedCheckpoint(error_code, pending) \in MonitorCheckpoint
<1>1. TargetState(error_code, pending) \in TargetStates
  BY DEF TargetState, TargetStates
<1>2. NextErrorCount(checkpoint, error_code) \in Nat
  BY DEF NextErrorCount, TypeInv, TypeOK, MonitorCheckpoint
<1>3. AppliedResolution \in Nat
  BY AppliedResolutionIsRow DEF TypeInv, TypeOK
<1>4. checkpoint \in MonitorCheckpoint /\ now + 1 \in Nat
  BY DEF TypeInv, TypeOK
<1>5. checkpoint.checkpoint_version + 1 \in Nat /\ checkpoint.resolution_applied_id \in Nat
  BY <1>4 DEF MonitorCheckpoint
<1> DEFINE version == checkpoint.checkpoint_version + 1
           checked == now + 1
           state   == TargetState(error_code, pending)
           count   == NextErrorCount(checkpoint, error_code)
           applied == IF AppliedResolution # 0 THEN AppliedResolution
                      ELSE checkpoint.resolution_applied_id
           half    == [checkpoint EXCEPT !.checkpoint_version = version,
                                         !.target_state       = state,
                                         !.last_checked_at    = checked,
                                         !.last_error_code    = error_code]
<1>6. CheckedCheckpoint(error_code, pending)
        = [half EXCEPT !.consecutive_error_count = count,
                       !.pending_change_run_id   = pending,
                       !.resolution_applied_id   = applied]
  BY Zenon DEF CheckedCheckpoint
<1>7. version \in Nat /\ checked \in Nat /\ state \in TargetStates /\ count \in Nat
      /\ applied \in Nat
  BY <1>1, <1>2, <1>3, <1>4, <1>5
<1> HIDE DEF version, checked, state, count, applied
<1>8. half \in MonitorCheckpoint
  BY <1>4, <1>7 DEF MonitorCheckpoint
<1> HIDE DEF half
<1> QED
  BY <1>6, <1>7, <1>8 DEF MonitorCheckpoint

\* So do the two checkpoints that adopt something of the observation.
LEMMA AdoptedCheckpointType ==
  ASSUME TypeInv, NEW pending \in Nat, NEW observation \in SourceObservation
  PROVE  /\ SucceededCheckpoint(pending, observation) \in MonitorCheckpoint
         /\ AmbiguousCheckpoint(pending, observation) \in MonitorCheckpoint
<1>1. /\ CheckedCheckpoint(Absent, pending) \in MonitorCheckpoint
      /\ CheckedCheckpoint("content_ambiguous", pending) \in MonitorCheckpoint
  BY CheckedCheckpointType DEF ErrorCodes
<1>2. /\ observation.fingerprint \in Fingerprints
      /\ observation.indicators \in Indicators
      /\ now + 1 \in Nat
      /\ Len(runs) + 1 \in Nat
  BY DEF SourceObservation, TypeInv, TypeOK
<1> QED
  BY <1>1, <1>2 DEF SucceededCheckpoint, AmbiguousCheckpoint, MonitorCheckpoint

\* The gate commits well-typed rows or leaves the state alone.
LEMMA GateType ==
  ASSUME TypeOK, NEW run \in MonitorRun, NEW next \in MonitorCheckpoint,
         Gate(run, next)
  PROVE  /\ runs' \in Seq(MonitorRun)
         /\ checkpoint' \in MonitorCheckpoint
         /\ bundle_response' \in ChangeResponses
         /\ outcome' \in Outcomes
BY DEF Gate, TypeOK, Outcomes

\* The initial state is well typed.
LEMMA InitTypeInv == Init => TypeInv
BY DEF Init, TypeInv, TypeOK, SupersedesEarlier, EmptyCheckpoint, MonitorCheckpoint,
       TargetStates, Indicators, Outcomes

\* A recorded resolution is a row that supersedes an earlier one.
LEMMA RecordResolutionTypeInv ==
  ASSUME TypeInv, NEW source \in ChangeRuns(runs), NEW resolved_at \in {now, now + 1},
         RecordResolution(source, resolved_at)
  PROVE  TypeInv'
<1> DEFINE earlier == ResolutionsOf(resolutions, source)
           current == CHOOSE k \in DOMAIN resolutions \cup {0} : IsNewestOf(k, earlier)
           row == [source_monitor_run_id    |-> source,
                   resolved_at              |-> resolved_at,
                   supersedes_resolution_id |-> current]
<1>1. Len(resolutions) \in Nat /\ DOMAIN resolutions = 1 .. Len(resolutions)
  BY DEF TypeInv, TypeOK
<1>2. current \in DOMAIN resolutions \cup {0}
  <2>1. earlier \in SUBSET (1 .. Len(resolutions))
    BY <1>1 DEF ResolutionsOf
  <2>2. \E k \in DOMAIN resolutions \cup {0} : IsNewestOf(k, earlier)
    BY <1>1, <2>1, NewestExists
  <2> QED
    BY <2>2
<1>3. source \in Nat
  BY DEF ChangeRuns, TypeInv, TypeOK
<1>4. resolved_at \in Nat
  BY DEF TypeInv, TypeOK
<1> HIDE DEF earlier, current
<1>5. row \in MonitorResolution
  BY <1>1, <1>2, <1>3, <1>4 DEF MonitorResolution
<1>6. resolutions' = Append(resolutions, row)
  BY DEF RecordResolution, earlier, current
<1>7. resolutions' \in Seq(MonitorResolution)
  BY <1>5, <1>6 DEF TypeInv, TypeOK
<1>8. SupersedesEarlier'
  <2>1. ASSUME NEW j \in DOMAIN resolutions'
        PROVE  resolutions'[j].supersedes_resolution_id < j
    <3>1. CASE j \in DOMAIN resolutions
      BY <1>1, <1>6, <3>1 DEF TypeInv, TypeOK, SupersedesEarlier
    <3>2. CASE j = Len(resolutions) + 1
      <4>1. resolutions'[j] = row
        BY <1>6, <3>2 DEF TypeInv, TypeOK
      <4> QED
        BY <1>1, <1>2, <3>2, <4>1
    <3> QED
      BY <1>1, <1>6, <3>1, <3>2 DEF TypeInv, TypeOK
  <2> QED
    BY <2>1 DEF SupersedesEarlier
<1> QED
  BY <1>7, <1>8 DEF TypeInv, TypeOK, RecordResolution

\* Every step of the target, of its page, of its reviewers and of its registry
\* row keeps the state well typed.
LEMMA NextTypeInv == TypeInv /\ [EditedNext]_vars => TypeInv'
<1> SUFFICES ASSUME TypeInv, [EditedNext]_vars PROVE TypeInv'
  OBVIOUS
<1> USE DEF TypeInv
<1>p. PendingChange \in Nat
  BY PendingChangeIsNewest DEF TypeOK
<1>1. CASE Initialize
  <2>1. page.fingerprint \in Fingerprints
    BY DEF TypeOK, SourceObservation
  <2>2. NewRun("initialized", Absent, page.fingerprint) \in MonitorRun
    BY <2>1, NewRunType DEF RunResults
  <2>3. SucceededCheckpoint(0, page) \in MonitorCheckpoint
    BY AdoptedCheckpointType DEF TypeOK
  <2> QED
    BY <1>1, <2>2, <2>3, GateType DEF Initialize, Executes, TypeOK, SupersedesEarlier
<1>2. CASE Observe
  <2> DEFINE result == ClassifiedResult(checkpoint, page)
             fingerprint_after == IF result = "error" THEN Absent ELSE page.fingerprint
             error_code == IF result = "error" THEN "content_ambiguous" ELSE Absent
             pending == IF result = "change_detected" /\ change_response = "human_review"
                          THEN Len(runs) + 1 ELSE PendingChange
             next == IF result = "error" THEN AmbiguousCheckpoint(pending, page)
                                         ELSE SucceededCheckpoint(pending, page)
  <2>1. result \in RunResults
    BY DEF ClassifiedResult, RunResults
  <2>2. error_code \in ErrorCodes \cup {Absent}
    BY DEF ErrorCodes
  <2>3. fingerprint_after \in Fingerprints \cup {Absent}
    BY DEF TypeOK, SourceObservation
  <2>4. pending \in Nat
    BY <1>p DEF TypeOK
  <2>5. NewRun(result, error_code, fingerprint_after) \in MonitorRun
    BY <2>1, <2>2, <2>3, NewRunType
  <2>6. next \in MonitorCheckpoint
    BY <2>4, AdoptedCheckpointType DEF TypeOK
  <2>7. Gate(NewRun(result, error_code, fingerprint_after), next)
    BY <1>2 DEF Observe
  <2> HIDE DEF result, fingerprint_after, error_code, pending, next
  <2> QED
    BY <1>2, <2>5, <2>6, <2>7, GateType DEF Observe, Executes, TypeOK, SupersedesEarlier
<1>3. ASSUME NEW error_code \in SourceErrors \cup {"state_unavailable"},
             FailObservation(error_code)
      PROVE  TypeInv'
  <2>1. error_code \in ErrorCodes
    BY DEF ErrorCodes
  <2>2. NewRun("error", error_code, Absent) \in MonitorRun
    BY <2>1, NewRunType DEF RunResults
  <2>3. CheckedCheckpoint(error_code, PendingChange) \in MonitorCheckpoint
    BY <1>p, <2>1, CheckedCheckpointType
  <2> QED
    BY <1>3, <2>2, <2>3, GateType DEF FailObservation, Executes, TypeOK, SupersedesEarlier
<1>4. CASE RefuseResolutionTime \/ RefuseInitialization \/ RefusePendingPointer
  BY <1>4 DEF RefuseResolutionTime, RefuseInitialization, RefusePendingPointer,
              Executes, Raises, TypeOK, SupersedesEarlier, Outcomes
<1>5. CASE EditPage
  BY <1>5 DEF EditPage, TypeOK, SupersedesEarlier
<1>6. ASSUME NEW source \in ChangeRuns(runs), NEW resolved_at \in {now, now + 1},
             RecordResolution(source, resolved_at)
      PROVE  TypeInv'
  BY <1>6, RecordResolutionTypeInv
<1>7. CASE SwitchResponse
  BY <1>7 DEF SwitchResponse, TypeOK, SupersedesEarlier
<1>8. CASE UNCHANGED vars
  BY <1>8 DEF vars, TypeOK, SupersedesEarlier
<1> QED
  BY <1>1, <1>2, <1>3, <1>4, <1>5, <1>6, <1>7, <1>8 DEF EditedNext, Next

\* Every run of a target whose registry row stays put is one of EditedSpec.
LEMMA FixedIsEdited == Spec => EditedSpec
BY PTL DEF Spec, EditedSpec, EditedNext

\* Whatever the page, the reviewers and the registry do, the committed rows,
\* the registry row and the clock keep their types.
THEOREM EditedTypeCorrect == EditedSpec => []TypeOK
<1>1. TypeInv => TypeOK
  BY DEF TypeInv
<1> QED
  BY InitTypeInv, NextTypeInv, <1>1, PTL DEF EditedSpec

\* The same for a target whose registry row stays as it was activated.
THEOREM TypeCorrect == Spec => []TypeOK
BY EditedTypeCorrect, FixedIsEdited, PTL

-----------------------------------------------------------------------------
(***************************************************************************)
(* A change nobody resolved is not forgotten.  The property is inductive:  *)
(* the gate accepts no bundle without it, and outside an execution changes *)
(* only lose their place in the set of unresolved ones.                    *)
(***************************************************************************)

\* What the gate commits shows every change without a resolution.
LEMMA GateShowsReview ==
  ASSUME NEW run, NEW next, Gate(run, next), UNCHANGED resolutions,
         ReviewNotForgotten
  PROVE  ReviewNotForgotten'
<1>1. CASE UNCHANGED <<runs, checkpoint, bundle_response>>
  BY <1>1 DEF ReviewNotForgotten, Unreviewed
<1>2. CASE /\ BundleOk(change_response, runs', resolutions, checkpoint')
           /\ bundle_response' = change_response
  <2> SUFFICES ASSUME bundle_response' = "human_review",
                      NEW c \in Unreviewed'
               PROVE  /\ c <= checkpoint'.pending_change_run_id
                      /\ checkpoint'.target_state \in {"pending_human_review", "stopped"}
    BY DEF ReviewNotForgotten
  <2> DEFINE unresolved == UnresolvedByContract("human_review", runs', resolutions)
  <2>1. c \in ChangeRuns(runs') /\ ResolutionsOf(resolutions, c) = {}
    BY DEF Unreviewed, ChangeRuns, ResolutionsOf
  <2>2. c \in unresolved
    BY <2>1, UnresolvedWithoutRow
  <2>3. PendingChangeOk("human_review", runs', resolutions, checkpoint')
    BY <1>2 DEF BundleOk
  <2>4. IsNewestOf(checkpoint'.pending_change_run_id, unresolved)
    BY <2>3 DEF PendingChangeOk
  <2>5. checkpoint'.target_state \in {"pending_human_review", "stopped"}
    BY <2>2, <2>3 DEF PendingChangeOk
  <2> QED
    BY <2>2, <2>4, <2>5 DEF IsNewestOf
<1> QED
  BY <1>1, <1>2 DEF Gate

\* A new row only takes changes out of the unresolved ones.
LEMMA RecordedResolutionShrinks ==
  ASSUME TypeOK, NEW source, NEW resolved_at, RecordResolution(source, resolved_at)
  PROVE  Unreviewed' \subseteq Unreviewed
<1> DEFINE current == CHOOSE k \in DOMAIN resolutions \cup {0} :
                        IsNewestOf(k, ResolutionsOf(resolutions, source))
           row == [source_monitor_run_id    |-> source,
                   resolved_at              |-> resolved_at,
                   supersedes_resolution_id |-> current]
<1>1. resolutions' = Append(resolutions, row) /\ runs' = runs
  BY DEF RecordResolution
<1> HIDE DEF row
<1>2. ASSUME NEW k \in DOMAIN resolutions
      PROVE  k \in DOMAIN resolutions' /\ resolutions'[k] = resolutions[k]
  BY <1>1 DEF TypeOK
<1> QED
  BY <1>1, <1>2 DEF Unreviewed

\* Every step keeps ReviewNotForgotten.
LEMMA NextReviewNotForgotten ==
  TypeOK /\ ReviewNotForgotten /\ [EditedNext]_vars => ReviewNotForgotten'
<1> SUFFICES ASSUME TypeOK, ReviewNotForgotten, [EditedNext]_vars
             PROVE  ReviewNotForgotten'
  OBVIOUS
<1>1. CASE Initialize
  BY <1>1, GateShowsReview DEF Initialize, Executes
<1>2. CASE Observe
  BY <1>2, GateShowsReview DEF Observe, Executes
<1>3. ASSUME NEW error_code \in SourceErrors \cup {"state_unavailable"},
             FailObservation(error_code)
      PROVE  ReviewNotForgotten'
  BY <1>3, GateShowsReview DEF FailObservation, Executes
<1>4. CASE RefuseResolutionTime \/ RefuseInitialization \/ RefusePendingPointer
  BY <1>4 DEF RefuseResolutionTime, RefuseInitialization, RefusePendingPointer,
              Executes, Raises, ReviewNotForgotten, Unreviewed
<1>5. CASE EditPage \/ SwitchResponse \/ UNCHANGED vars
  BY <1>5 DEF EditPage, SwitchResponse, vars, ReviewNotForgotten, Unreviewed
<1>6. ASSUME NEW source \in ChangeRuns(runs), NEW resolved_at \in {now, now + 1},
             RecordResolution(source, resolved_at)
      PROVE  ReviewNotForgotten'
  <2>1. Unreviewed' \subseteq Unreviewed
    BY <1>6, RecordedResolutionShrinks
  <2>2. UNCHANGED <<checkpoint, bundle_response>>
    BY <1>6 DEF RecordResolution
  <2> QED
    BY <2>1, <2>2 DEF ReviewNotForgotten
<1> QED
  BY <1>1, <1>2, <1>3, <1>4, <1>5, <1>6 DEF EditedNext, Next

\* Under human_review every change without a resolution stays in view, for any
\* number of runs, resolutions and registry edits.
THEOREM ReviewIsNotForgotten == EditedSpec => []ReviewNotForgotten
<1>1. Init => ReviewNotForgotten
  BY DEF Init, ReviewNotForgotten, Unreviewed, ChangeRuns
<1> QED
  BY <1>1, EditedTypeCorrect, NextReviewNotForgotten, PTL DEF EditedSpec

-----------------------------------------------------------------------------
(***************************************************************************)
(* The pending pointer moves only forward, or away after a review.         *)
(***************************************************************************)

\* The checkpoint points into the history.
PointerInHistory == checkpoint.pending_change_run_id <= Len(runs)

PointerInv == TypeInv /\ PointerInHistory

\* Each generated checkpoint carries the pending change it was built with.
LEMMA GeneratedPending ==
  ASSUME TypeOK, NEW pending, NEW error_code, NEW observation
  PROVE  /\ CheckedCheckpoint(error_code, pending).pending_change_run_id = pending
         /\ SucceededCheckpoint(pending, observation).pending_change_run_id = pending
         /\ AmbiguousCheckpoint(pending, observation).pending_change_run_id = pending
<1>1. DOMAIN checkpoint = {"checkpoint_version", "target_state", "last_checked_at",
        "last_success_at", "last_successful_run_id", "metadata_fingerprint",
        "observed_indicators", "last_error_code", "consecutive_error_count",
        "pending_change_run_id", "resolution_applied_id"}
  BY DEF TypeOK, MonitorCheckpoint
<1>2. \A code : /\ CheckedCheckpoint(code, pending).pending_change_run_id = pending
                /\ DOMAIN CheckedCheckpoint(code, pending) = DOMAIN checkpoint
  BY <1>1 DEF CheckedCheckpoint
<1> QED
  BY <1>1, <1>2 DEF SucceededCheckpoint, AmbiguousCheckpoint

\* The pointer after an admitted execution that generates a checkpoint.
LEMMA AdmittedPointer ==
  ASSUME PointerInv, Admitted, NEW run, NEW next, Gate(run, next),
         UNCHANGED resolutions,
         \/ next.pending_change_run_id = PendingChange
         \/ next.pending_change_run_id = Len(runs) + 1
         \/ next.pending_change_run_id = 0 /\ runs = <<>>
  PROVE  /\ PointerInHistory'
         /\ LET pending == checkpoint.pending_change_run_id IN
            (pending # 0 /\ checkpoint'.pending_change_run_id # pending) =>
               \/ ResolutionsOf(resolutions, pending) # {}
               \/ checkpoint'.pending_change_run_id > pending
<1> DEFINE pending == checkpoint.pending_change_run_id
<1>1. /\ Len(runs) \in Nat
      /\ pending \in Nat
      /\ pending <= Len(runs)
      /\ runs = <<>> => Len(runs) = 0
  BY DEF PointerInv, TypeInv, TypeOK, MonitorCheckpoint, PointerInHistory
<1>2. PendingChange \in 0 .. Len(runs)
  BY PendingChangeIsNewest DEF PointerInv, TypeInv, TypeOK
<1>3. /\ Len(Append(runs, run)) = Len(runs) + 1
  BY DEF PointerInv, TypeInv, TypeOK
<1>4. CASE UNCHANGED <<runs, checkpoint>>
  BY <1>4 DEF PointerInv, PointerInHistory
<1>5. CASE runs' = Append(runs, run) /\ checkpoint' = next
  <2>1. PointerInHistory'
    BY <1>1, <1>2, <1>3, <1>5 DEF PointerInHistory
  <2>2. ASSUME pending # 0, next.pending_change_run_id # pending,
               ResolutionsOf(resolutions, pending) = {}
        PROVE  next.pending_change_run_id > pending
    <3>1. AppliedResolution = 0
      BY <2>2 DEF AppliedResolution
    <3>2. pending = PendingChange
      BY <2>2, <3>1 DEF Admitted, PendingPointerLost
    <3> QED
      BY <1>1, <2>2, <3>2
  <2> QED
    BY <1>5, <2>1, <2>2
<1> QED
  BY <1>4, <1>5 DEF Gate

\* Every step keeps the pointer in the history and moves it only forward or
\* away from a reviewed change.
LEMMA NextPointer ==
  PointerInv /\ [EditedNext]_vars =>
    /\ PointerInHistory'
    /\ LET pending == checkpoint.pending_change_run_id IN
       (pending # 0 /\ checkpoint'.pending_change_run_id # pending) =>
          \/ ResolutionsOf(resolutions, pending) # {}
          \/ checkpoint'.pending_change_run_id > pending
<1> DEFINE pending == checkpoint.pending_change_run_id
           Forward == /\ PointerInHistory'
                      /\ (pending # 0 /\ checkpoint'.pending_change_run_id # pending) =>
                           \/ ResolutionsOf(resolutions, pending) # {}
                           \/ checkpoint'.pending_change_run_id > pending
<1> SUFFICES ASSUME PointerInv, [EditedNext]_vars PROVE Forward
  OBVIOUS
<1>0. TypeOK
  BY DEF PointerInv, TypeInv
<1>1. CASE Initialize
  <2>1. SucceededCheckpoint(0, page).pending_change_run_id = 0
    BY <1>0, GeneratedPending
  <2>2. Gate(NewRun("initialized", Absent, page.fingerprint), SucceededCheckpoint(0, page))
    BY <1>1 DEF Initialize
  <2>3. Admitted /\ runs = <<>> /\ UNCHANGED resolutions
    BY <1>1 DEF Initialize, Executes
  <2> QED
    BY <2>1, <2>2, <2>3, AdmittedPointer
<1>2. CASE Observe
  <2> DEFINE result == ClassifiedResult(checkpoint, page)
             after == IF result = "error" THEN Absent ELSE page.fingerprint
             code == IF result = "error" THEN "content_ambiguous" ELSE Absent
             new == IF result = "change_detected" /\ change_response = "human_review"
                      THEN Len(runs) + 1 ELSE PendingChange
             next == IF result = "error" THEN AmbiguousCheckpoint(new, page)
                                         ELSE SucceededCheckpoint(new, page)
  <2>1. next.pending_change_run_id = new
    BY <1>0, GeneratedPending
  <2>2. Gate(NewRun(result, code, after), next)
    BY <1>2 DEF Observe
  <2>3. Admitted /\ UNCHANGED resolutions
    BY <1>2 DEF Observe, Executes
  <2>4. new = Len(runs) + 1 \/ new = PendingChange
    OBVIOUS
  <2> HIDE DEF result, after, code, new, next
  <2> QED
    BY <2>1, <2>2, <2>3, <2>4, AdmittedPointer
<1>3. ASSUME NEW error_code \in SourceErrors \cup {"state_unavailable"},
             FailObservation(error_code)
      PROVE  Forward
  <2>1. CheckedCheckpoint(error_code, PendingChange).pending_change_run_id = PendingChange
    BY <1>0, GeneratedPending
  <2>2. Gate(NewRun("error", error_code, Absent), CheckedCheckpoint(error_code, PendingChange))
    BY <1>3 DEF FailObservation
  <2>3. Admitted /\ UNCHANGED resolutions
    BY <1>3 DEF FailObservation, Executes
  <2> QED
    BY <2>1, <2>2, <2>3, AdmittedPointer
<1>4. CASE UNCHANGED <<runs, checkpoint>>
  BY <1>4 DEF PointerInv, PointerInHistory
<1>5. CASE RefuseResolutionTime \/ RefuseInitialization \/ RefusePendingPointer
  BY <1>4, <1>5 DEF RefuseResolutionTime, RefuseInitialization, RefusePendingPointer, Raises
<1>6. ASSUME NEW source, NEW resolved_at, RecordResolution(source, resolved_at)
      PROVE  Forward
  BY <1>4, <1>6 DEF RecordResolution
<1>7. CASE EditPage \/ SwitchResponse \/ UNCHANGED vars
  BY <1>4, <1>7 DEF EditPage, SwitchResponse, vars
<1> QED
  BY <1>1, <1>2, <1>3, <1>5, <1>6, <1>7 DEF EditedNext, Next

\* The pending change leaves the checkpoint only after a review or for a newer
\* change, also when the registry row is switched under the pending review.
THEOREM PendingLeavesByReview == EditedSpec => PendingLeavesOnlyByReview
<1>1. Init => PointerInv
  <2>1. Init => PointerInHistory
    BY DEF Init, PointerInHistory, EmptyCheckpoint
  <2> QED
    BY <2>1, InitTypeInv DEF PointerInv
<1>2. PointerInv /\ [EditedNext]_vars => PointerInv'
  BY NextTypeInv, NextPointer DEF PointerInv
<1>3. PointerInv /\ [EditedNext]_vars =>
        [LET pending == checkpoint.pending_change_run_id IN
         (pending # 0 /\ checkpoint'.pending_change_run_id # pending) =>
            \/ ResolutionsOf(resolutions, pending) # {}
            \/ checkpoint'.pending_change_run_id > pending]_vars
  BY NextPointer
<1> QED
  BY <1>1, <1>2, <1>3, PTL DEF EditedSpec, PendingLeavesOnlyByReview

-----------------------------------------------------------------------------
(***************************************************************************)
(* The runtime accepts its own state.                                      *)
(***************************************************************************)

\* The tables are what the contract asks of them.
HistoryInv ==
  /\ \A i \in DOMAIN runs : RunRowOk(runs[i])
  /\ RunLineageOk(runs)
  /\ ResolutionLineageOk(runs, resolutions)

\* The checkpoint describes the history it was committed with.
EpisodeInv ==
  IF runs = <<>>
    THEN checkpoint = EmptyCheckpoint
    ELSE CheckpointLineageOk(runs, checkpoint) /\ ErrorEpisodeOk(runs, checkpoint)

ClockInv ==
  /\ checkpoint.last_success_at <= checkpoint.last_checked_at
  /\ checkpoint.last_checked_at <= now

\* The pointer names a change of a target under human review, and no open change
\* is newer; it may name one that has been resolved since.
PendingInv ==
  LET pending == checkpoint.pending_change_run_id IN
  /\ pending # 0 => pending \in ChangeRuns(runs) /\ change_response = "human_review"
  /\ \A c \in OpenChanges : c <= pending

\* Once a change was detected, one is pending or a resolution has been applied.
AppliedInv ==
  /\ checkpoint.resolution_applied_id \in DOMAIN resolutions \cup {0}
  /\ change_response = "human_review" /\ ChangeRuns(runs) # {} =>
       checkpoint.resolution_applied_id # 0 \/ checkpoint.pending_change_run_id # 0

RuntimeInv ==
  /\ TypeInv
  /\ HistoryInv
  /\ EpisodeInv
  /\ ClockInv
  /\ PendingInv
  /\ AppliedInv
  /\ outcome # "refused_by_gate"

\* In a lineage the contract accepts, the newest row of a change is superseded by
\* no row at all: a change counts as resolved as soon as it has a row.
LEMMA EveryRowIsEffective ==
  ASSUME NEW history, NEW rows \in Seq(MonitorResolution), ResolutionLineageOk(history, rows)
  PROVE  EffectiveSources(rows) = {rows[k].source_monitor_run_id : k \in DOMAIN rows}
<1> DEFINE Sources == {rows[k].source_monitor_run_id : k \in DOMAIN rows}
<1>1. Len(rows) \in Nat /\ DOMAIN rows = 1 .. Len(rows)
  OBVIOUS
<1>2. ASSUME NEW source \in Sources
      PROVE  \E k \in ResolutionsOf(rows, source) :
               /\ \A j \in ResolutionsOf(rows, source) : j <= k
               /\ \A j \in DOMAIN rows : rows[j].supersedes_resolution_id # k
  <2> DEFINE S == ResolutionsOf(rows, source)
  <2>1. S \in SUBSET (1 .. Len(rows)) /\ S # {}
    BY <1>1 DEF ResolutionsOf
  <2>2. PICK k \in (1 .. Len(rows)) \cup {0} : IsNewestOf(k, S)
    BY <1>1, <2>1, NewestExists
  <2>3. k \in S /\ k \in Nat \ {0} /\ \A j \in S : j <= k
    BY <1>1, <2>1, <2>2 DEF IsNewestOf
  <2>4. ASSUME NEW j \in DOMAIN rows, rows[j].supersedes_resolution_id = k
        PROVE  FALSE
    <3> DEFINE earlier == {i \in ResolutionsOf(rows, rows[j].source_monitor_run_id) : i < j}
    <3>1. IsNewestOf(k, earlier)
      BY <2>4 DEF ResolutionLineageOk, ResolutionRowOk
    <3>2. k \in earlier
      BY <2>3, <3>1 DEF IsNewestOf
    <3>3. k < j /\ rows[k].source_monitor_run_id = rows[j].source_monitor_run_id
      BY <3>2 DEF ResolutionsOf
    <3>4. j \in S
      BY <2>3, <3>3 DEF ResolutionsOf
    <3> QED
      BY <1>1, <2>3, <3>3, <3>4
  <2> QED
    BY <2>3, <2>4
<1> QED
  BY <1>2 DEF EffectiveSources

\* A history with one run more.
LEMMA AppendedRuns ==
  ASSUME NEW history \in Seq(MonitorRun), NEW run \in MonitorRun
  PROVE  LET longer == Append(history, run) IN
         /\ Len(history) \in Nat
         /\ DOMAIN history = 1 .. Len(history)
         /\ Len(longer) = Len(history) + 1
         /\ DOMAIN longer = 1 .. Len(history) + 1
         /\ \A i \in DOMAIN history : longer[i] = history[i]
         /\ longer[Len(history) + 1] = run
         /\ longer # <<>>
         /\ ChangeRuns(longer) = ChangeRuns(history) \cup
              {i \in {Len(history) + 1} : run.run_result = "change_detected"}
         /\ SuccessfulRuns(longer) = SuccessfulRuns(history) \cup
              {i \in {Len(history) + 1} : run.run_result # "error"}
<1> DEFINE longer == Append(history, run)
<1>1. /\ Len(history) \in Nat
      /\ DOMAIN history = 1 .. Len(history)
      /\ Len(longer) = Len(history) + 1
      /\ DOMAIN longer = 1 .. Len(history) + 1
      /\ \A i \in DOMAIN history : longer[i] = history[i]
      /\ longer[Len(history) + 1] = run
  OBVIOUS
<1>2. longer # <<>>
  BY <1>1
<1> HIDE DEF longer
<1>3. DOMAIN longer = DOMAIN history \cup {Len(history) + 1}
  BY <1>1
<1>4. ChangeRuns(longer) = ChangeRuns(history) \cup
        {i \in {Len(history) + 1} : run.run_result = "change_detected"}
  BY <1>1, <1>3 DEF ChangeRuns
<1>5. SuccessfulRuns(longer) = SuccessfulRuns(history) \cup
        {i \in {Len(history) + 1} : run.run_result # "error"}
  BY <1>1, <1>3 DEF SuccessfulRuns, Succeeded
<1> QED
  BY <1>1, <1>2, <1>4, <1>5 DEF longer

\* The contract and the runtime agree on which changes are open.
LEMMA OpenIsUnresolved ==
  ASSUME TypeInv, ResolutionLineageOk(runs, resolutions), NEW run \in MonitorRun
  PROVE  /\ OpenChanges \subseteq ChangeRuns(runs) /\ ChangeRuns(runs) \subseteq 1 .. Len(runs)
         /\ UnresolvedByContract(change_response, Append(runs, run), resolutions) =
              OpenChanges \cup {i \in {Len(runs) + 1} :
                run.run_result = "change_detected" /\ change_response = "human_review"}
<1>1. /\ runs \in Seq(MonitorRun) /\ resolutions \in Seq(MonitorResolution)
      /\ change_response \in ChangeResponses
  BY DEF TypeInv, TypeOK
<1>2. EffectiveSources(resolutions) =
        {resolutions[k].source_monitor_run_id : k \in DOMAIN resolutions}
  BY <1>1, EveryRowIsEffective
<1>3. ChangeRuns(runs) \subseteq 1 .. Len(runs)
  BY <1>1 DEF ChangeRuns
<1>4. /\ \A c : ResolutionsOf(resolutions, c) = {} <=> c \notin EffectiveSources(resolutions)
      /\ EffectiveSources(resolutions) \subseteq ChangeRuns(runs)
  BY <1>2 DEF ResolutionsOf, ResolutionLineageOk, ResolutionRowOk
<1>5. Len(runs) + 1 \notin EffectiveSources(resolutions)
  BY <1>1, <1>3, <1>4
<1>6. UnresolvedChangeIds = ChangeRuns(runs) \ EffectiveSources(resolutions)
  BY <1>4 DEF UnresolvedChangeIds
<1>7. ChangeRuns(Append(runs, run)) = ChangeRuns(runs) \cup
        {i \in {Len(runs) + 1} : run.run_result = "change_detected"}
  BY <1>1, AppendedRuns
<1> QED
  BY <1>1, <1>3, <1>5, <1>6, <1>7 DEF OpenChanges, UnresolvedByContract, ChangeResponses

\* The pointer agrees with the history.
LEMMA PointerAgrees ==
  ASSUME TypeInv, PendingInv
  PROVE  ~PendingPointerLost
<1> DEFINE pending == checkpoint.pending_change_run_id
<1> SUFFICES ASSUME pending # 0, AppliedResolution = 0
             PROVE  pending = PendingChange
  BY DEF PendingPointerLost
<1>1. ResolutionsOf(resolutions, pending) = {}
  BY AppliedResolutionIsRow
<1>2. pending \in OpenChanges
  BY <1>1 DEF PendingInv, OpenChanges, UnresolvedChangeIds
<1>3. IsNewestOf(pending, OpenChanges)
  BY <1>2 DEF PendingInv, IsNewestOf
<1>4. OpenChanges \in SUBSET Nat
  BY DEF OpenChanges, UnresolvedChangeIds, ChangeRuns, TypeInv, TypeOK
<1>5. IsNewestOf(PendingChange, OpenChanges)
  BY PendingChangeIsNewest DEF TypeInv
<1> QED
  BY <1>3, <1>4, <1>5, NewestUnique

-----------------------------------------------------------------------------
\* What the classification allows for a run that is generated now.
Legal(result, error_code, after, pending) ==
  /\ result \in RunResults
  /\ error_code \in ErrorCodes \cup {Absent}
  /\ after \in Fingerprints \cup {Absent}
  /\ (result = "error") <=> (error_code # Absent)
  /\ (result = "initialized") <=> (runs = <<>>)
  /\ result # "error" => after # Absent
  /\ result = "no_change" => after = checkpoint.metadata_fingerprint
  /\ result = "change_detected" => after # checkpoint.metadata_fingerprint
  /\ pending = IF result = "change_detected" /\ change_response = "human_review"
                 THEN Len(runs) + 1 ELSE PendingChange

\* The checkpoint an execution generates, by its fields.
Generated(result, error_code, after, pending, next) ==
  /\ next \in MonitorCheckpoint
  /\ next.checkpoint_version = checkpoint.checkpoint_version + 1
  /\ next.target_state = TargetState(error_code, pending)
  /\ next.last_checked_at = now + 1
  /\ next.last_error_code = error_code
  /\ next.consecutive_error_count = NextErrorCount(checkpoint, error_code)
  /\ next.pending_change_run_id = pending
  /\ next.resolution_applied_id =
       IF AppliedResolution # 0 THEN AppliedResolution ELSE checkpoint.resolution_applied_id
  /\ IF result = "error"
       THEN /\ next.last_success_at = checkpoint.last_success_at
            /\ next.last_successful_run_id = checkpoint.last_successful_run_id
            /\ next.metadata_fingerprint = checkpoint.metadata_fingerprint
       ELSE /\ next.last_success_at = now + 1
            /\ next.last_successful_run_id = Len(runs) + 1
            /\ next.metadata_fingerprint = after

\* The fields of the row are those NewRun gives it.
LEMMA NewRunFields ==
  ASSUME NEW result, NEW error_code, NEW after
  PROVE  LET run == NewRun(result, error_code, after) IN
         /\ run.previous_run_id = Len(runs)
         /\ run.started_at = now /\ run.finished_at = now + 1
         /\ run.run_result = result /\ run.error_code = error_code
         /\ run.checkpoint_version_before = checkpoint.checkpoint_version
         /\ run.checkpoint_version_after = checkpoint.checkpoint_version + 1
         /\ run.fingerprint_before = checkpoint.metadata_fingerprint
         /\ run.fingerprint_after = after
         /\ result \in {"change_detected", "error"} => run.notification_required
BY DEF NewRun

\* After the first run a fingerprint is known, and it is that of the last success.
LEMMA KnownFingerprint ==
  ASSUME RuntimeInv, runs # <<>>
  PROVE  LET success == checkpoint.last_successful_run_id IN
         /\ checkpoint.metadata_fingerprint # Absent
         /\ success \in SuccessfulRuns(runs) /\ success \in DOMAIN runs
         /\ \A k \in SuccessfulRuns(runs) : k <= success
         /\ runs[success].fingerprint_after = checkpoint.metadata_fingerprint
<1> DEFINE success == checkpoint.last_successful_run_id
<1>1. /\ runs \in Seq(MonitorRun) /\ DOMAIN runs = 1 .. Len(runs) /\ Len(runs) \in Nat
      /\ Len(runs) >= 1 /\ 1 \in DOMAIN runs
  BY DEF RuntimeInv, TypeInv, TypeOK
<1>2. 1 \in SuccessfulRuns(runs)
  BY <1>1 DEF RuntimeInv, HistoryInv, RunLineageOk, SuccessfulRuns, Succeeded
<1>3. CheckpointLineageOk(runs, checkpoint)
  BY DEF RuntimeInv, EpisodeInv
<1>4. success \in SuccessfulRuns(runs) /\ \A k \in SuccessfulRuns(runs) : k <= success
  BY <1>2, <1>3 DEF CheckpointLineageOk, IsNewestOf
<1>5. success \in DOMAIN runs /\ success # 0
  BY <1>1, <1>4 DEF SuccessfulRuns
<1>6. runs[success].fingerprint_after = checkpoint.metadata_fingerprint
  BY <1>3, <1>5 DEF CheckpointLineageOk
<1>7. runs[success].fingerprint_after # Absent
  <2>1. runs[success].run_result \in RunResults \ {"error"}
    <3>1. runs[success] \in MonitorRun /\ runs[success].run_result # "error"
      BY <1>1, <1>4, <1>5 DEF SuccessfulRuns, Succeeded
    <3> QED
      BY <3>1 DEF MonitorRun
  <2>2. RunRowOk(runs[success])
    BY <1>5 DEF RuntimeInv, HistoryInv
  <2> QED
    BY <2>1, <2>2 DEF RunRowOk, RunResults
<1> QED
  BY <1>4, <1>5, <1>6, <1>7

\* Before the first run the checkpoint is empty.
LEMMA EmptyFields ==
  ASSUME RuntimeInv, runs = <<>>
  PROVE  /\ checkpoint.checkpoint_version = 0
         /\ checkpoint.last_successful_run_id = 0
         /\ checkpoint.metadata_fingerprint = Absent
         /\ checkpoint.last_error_code = Absent
         /\ checkpoint.consecutive_error_count = 0
         /\ checkpoint.pending_change_run_id = 0
         /\ checkpoint.resolution_applied_id = 0
BY DEF RuntimeInv, EpisodeInv, EmptyCheckpoint

\* The generated row is one the contract accepts, and it continues the history.
LEMMA GeneratedRunOk ==
  ASSUME RuntimeInv, NEW result, NEW error_code, NEW after, NEW pending,
         Legal(result, error_code, after, pending)
  PROVE  LET longer == Append(runs, NewRun(result, error_code, after)) IN
         /\ \A i \in DOMAIN longer : RunRowOk(longer[i])
         /\ RunLineageOk(longer)
<1> DEFINE run == NewRun(result, error_code, after)
           longer == Append(runs, run)
           n == Len(runs)
<1>1. /\ runs \in Seq(MonitorRun) /\ now \in Nat /\ checkpoint \in MonitorCheckpoint
      /\ checkpoint.checkpoint_version \in Nat
  BY DEF RuntimeInv, TypeInv, TypeOK, MonitorCheckpoint
<1>2. run \in MonitorRun
  BY NewRunType DEF Legal, RuntimeInv, TypeInv
<1>3. /\ n \in Nat /\ DOMAIN runs = 1 .. n
      /\ DOMAIN longer = 1 .. n + 1
      /\ \A i \in DOMAIN runs : longer[i] = runs[i]
      /\ longer[n + 1] = run
  BY <1>1, <1>2, AppendedRuns
<1>4. /\ run.previous_run_id = n
      /\ run.started_at = now /\ run.finished_at = now + 1
      /\ run.run_result = result /\ run.error_code = error_code
      /\ run.checkpoint_version_before = checkpoint.checkpoint_version
      /\ run.checkpoint_version_after = checkpoint.checkpoint_version + 1
      /\ run.fingerprint_before = checkpoint.metadata_fingerprint
      /\ run.fingerprint_after = after
      /\ result \in {"change_detected", "error"} => run.notification_required
  BY NewRunFields
<1> HIDE DEF run, longer
<1>5. RunRowOk(run)
  <2>1. CASE runs = <<>>
    <3>1. result = "initialized" /\ error_code = Absent
      BY <2>1 DEF Legal
    <3>2. checkpoint.checkpoint_version = 0 /\ checkpoint.metadata_fingerprint = Absent /\ n = 0
      BY <2>1, EmptyFields
    <3> QED
      BY <1>1, <1>4, <3>1, <3>2 DEF RunRowOk, Legal
  <2>2. CASE runs # <<>>
    <3>1. checkpoint.metadata_fingerprint # Absent /\ result # "initialized"
      BY <2>2, KnownFingerprint DEF Legal
    <3> QED
      BY <1>1, <1>4, <3>1 DEF RunRowOk, Legal
  <2> QED
    BY <2>1, <2>2
<1>6. \A i \in DOMAIN longer : RunRowOk(longer[i])
  BY <1>3, <1>5 DEF RuntimeInv, HistoryInv
<1>7. ASSUME NEW i \in DOMAIN longer
      PROVE  /\ longer[i].previous_run_id = i - 1
             /\ (i = 1) <=> (longer[i].run_result = "initialized")
             /\ i > 1 =>
                  /\ longer[i].started_at >= longer[i - 1].finished_at
                  /\ longer[i].checkpoint_version_before = longer[i - 1].checkpoint_version_after
             /\ \A j \in 1 .. i - 1 :
                  (/\ Succeeded(longer[j])
                   /\ \A k \in j + 1 .. i - 1 : ~Succeeded(longer[k])
                   /\ longer[i].fingerprint_before # Absent)
                  => longer[i].fingerprint_before = longer[j].fingerprint_after
  <2>1. CASE i \in DOMAIN runs
    <3>1. /\ longer[i] = runs[i] /\ i \in 1 .. n
          /\ \A j \in 1 .. i - 1 : j \in DOMAIN runs /\ longer[j] = runs[j]
      BY <1>3, <2>1
    <3>2. i > 1 => i - 1 \in 1 .. i - 1
      BY <3>1
    <3>3. RunLineageOk(runs)
      BY DEF RuntimeInv, HistoryInv
    <3>4. ASSUME NEW j \in 1 .. i - 1, Succeeded(longer[j]),
                 \A k \in j + 1 .. i - 1 : ~Succeeded(longer[k]),
                 longer[i].fingerprint_before # Absent
          PROVE  longer[i].fingerprint_before = longer[j].fingerprint_after
      <4>1. \A k \in j + 1 .. i - 1 : longer[k] = runs[k]
        BY <1>3, <3>1
      <4>2. /\ Succeeded(runs[j]) /\ \A k \in j + 1 .. i - 1 : ~Succeeded(runs[k])
            /\ runs[i].fingerprint_before # Absent
        BY <3>1, <3>4, <4>1
      <4> QED
        BY <2>1, <3>1, <3>3, <4>2 DEF RunLineageOk
    <3>5. /\ runs[i].previous_run_id = i - 1
          /\ (i = 1) <=> (runs[i].run_result = "initialized")
          /\ i > 1 => /\ runs[i].started_at >= runs[i - 1].finished_at
                      /\ runs[i].checkpoint_version_before = runs[i - 1].checkpoint_version_after
      BY <2>1, <3>3 DEF RunLineageOk
    <3> QED
      BY <3>1, <3>2, <3>4, <3>5
  <2>2. CASE i = n + 1 /\ runs = <<>>
    <3>1. n = 0 /\ i = 1 /\ longer[i] = run
      BY <1>3, <2>2
    <3> QED
      BY <1>4, <2>2, <3>1 DEF Legal
  <2>3. CASE i = n + 1 /\ runs # <<>>
    <3>1. n \in DOMAIN runs /\ i > 1 /\ longer[i] = run /\ i - 1 = n /\ longer[n] = runs[n]
      BY <1>1, <1>3, <2>3
    <3>2. CheckpointLineageOk(runs, checkpoint)
      BY <2>3 DEF RuntimeInv, EpisodeInv
    <3>3. /\ runs[n].finished_at = checkpoint.last_checked_at
          /\ runs[n].checkpoint_version_after = checkpoint.checkpoint_version
      BY <3>2 DEF CheckpointLineageOk
    <3>4. now >= runs[n].finished_at
      BY <1>1, <3>3 DEF RuntimeInv, ClockInv, MonitorCheckpoint
    <3>5. ASSUME NEW j \in 1 .. n, Succeeded(longer[j]),
                 \A k \in j + 1 .. n : ~Succeeded(longer[k])
          PROVE  checkpoint.metadata_fingerprint = longer[j].fingerprint_after
      <4> DEFINE success == checkpoint.last_successful_run_id
      <4>1. /\ success \in SuccessfulRuns(runs) /\ success \in DOMAIN runs
            /\ \A k \in SuccessfulRuns(runs) : k <= success
            /\ runs[success].fingerprint_after = checkpoint.metadata_fingerprint
        BY <2>3, KnownFingerprint
      <4>2. j \in SuccessfulRuns(runs) /\ longer[j] = runs[j]
        BY <1>3, <3>5 DEF SuccessfulRuns
      <4>3. j <= success /\ success <= n /\ success \in Nat
        BY <1>3, <4>1, <4>2
      <4>4. success \notin j + 1 .. n
        BY <1>3, <3>5, <4>1 DEF SuccessfulRuns
      <4>5. success = j
        BY <1>3, <4>3, <4>4
      <4> QED
        BY <4>1, <4>2, <4>5
    <3> QED
      BY <1>4, <2>3, <3>1, <3>3, <3>4, <3>5 DEF Legal
  <2> QED
    BY <1>3, <2>1, <2>2, <2>3
<1> QED
  BY <1>6, <1>7 DEF RunLineageOk, longer, run

\* The resolution rows still answer changes of the longer history.
LEMMA ResolutionsStayOk ==
  ASSUME RuntimeInv, NEW run \in MonitorRun
  PROVE  ResolutionLineageOk(Append(runs, run), resolutions)
<1>1. runs \in Seq(MonitorRun)
  BY DEF RuntimeInv, TypeInv, TypeOK
<1>2. /\ \A i \in DOMAIN runs : Append(runs, run)[i] = runs[i]
      /\ ChangeRuns(runs) \subseteq ChangeRuns(Append(runs, run))
      /\ ChangeRuns(runs) \subseteq DOMAIN runs
  BY <1>1, AppendedRuns DEF ChangeRuns
<1> DEFINE longer == Append(runs, run)
<1> HIDE DEF longer
<1>3. ASSUME NEW k \in DOMAIN resolutions PROVE ResolutionRowOk(longer, resolutions, k)
  <2>1. ResolutionRowOk(runs, resolutions, k)
    BY DEF RuntimeInv, HistoryInv, ResolutionLineageOk
  <2>2. resolutions[k].source_monitor_run_id \in ChangeRuns(runs)
    BY <2>1 DEF ResolutionRowOk
  <2> QED
    BY <1>2, <2>1, <2>2 DEF ResolutionRowOk, longer
<1> QED
  BY <1>3 DEF ResolutionLineageOk, longer

\* The generated checkpoint says what the last run and the last success say.
LEMMA GeneratedCheckpointOk ==
  ASSUME RuntimeInv, NEW result, NEW error_code, NEW after, NEW pending, NEW next,
         Legal(result, error_code, after, pending),
         Generated(result, error_code, after, pending, next)
  PROVE  CheckpointLineageOk(Append(runs, NewRun(result, error_code, after)), next)
<1> DEFINE run == NewRun(result, error_code, after)
           longer == Append(runs, run)
           n == Len(runs)
<1>1. runs \in Seq(MonitorRun)
  BY DEF RuntimeInv, TypeInv, TypeOK
<1>2. run \in MonitorRun
  BY NewRunType DEF Legal, RuntimeInv, TypeInv
<1>3. /\ n \in Nat /\ DOMAIN runs = 1 .. n
      /\ Len(longer) = n + 1
      /\ \A i \in DOMAIN runs : longer[i] = runs[i]
      /\ longer[n + 1] = run
      /\ SuccessfulRuns(longer) = SuccessfulRuns(runs) \cup
           {i \in {n + 1} : run.run_result # "error"}
  BY <1>1, <1>2, AppendedRuns
<1>4. /\ run.finished_at = now + 1
      /\ run.run_result = result
      /\ run.checkpoint_version_after = checkpoint.checkpoint_version + 1
      /\ run.fingerprint_after = after
  BY NewRunFields
<1> HIDE DEF run, longer
<1>5. SuccessfulRuns(runs) \subseteq 1 .. n
  BY <1>3 DEF SuccessfulRuns
<1>6. CASE result = "error"
  <2>1. runs # <<>>
    BY <1>6 DEF Legal
  <2>2. LET success == checkpoint.last_successful_run_id IN
        /\ success \in SuccessfulRuns(runs) /\ success \in DOMAIN runs
        /\ \A k \in SuccessfulRuns(runs) : k <= success
        /\ runs[success].fingerprint_after = checkpoint.metadata_fingerprint
    BY <2>1, KnownFingerprint
  <2>3. checkpoint.last_success_at = runs[checkpoint.last_successful_run_id].finished_at
    <3>1. checkpoint.last_successful_run_id # 0
      BY <1>3, <2>2
    <3> QED
      BY <2>1, <3>1 DEF RuntimeInv, EpisodeInv, CheckpointLineageOk
  <2>4. SuccessfulRuns(longer) = SuccessfulRuns(runs)
    BY <1>3, <1>4, <1>6
  <2>5. /\ next.last_success_at = checkpoint.last_success_at
        /\ next.last_successful_run_id = checkpoint.last_successful_run_id
        /\ next.metadata_fingerprint = checkpoint.metadata_fingerprint
        /\ next.checkpoint_version = checkpoint.checkpoint_version + 1
        /\ next.last_checked_at = now + 1
    BY <1>6 DEF Generated
  <2>6. longer[next.last_successful_run_id] = runs[checkpoint.last_successful_run_id]
    BY <1>3, <2>2, <2>5
  <2>7. IsNewestOf(next.last_successful_run_id, SuccessfulRuns(longer))
    BY <2>2, <2>4, <2>5 DEF IsNewestOf
  <2> QED
    BY <1>3, <1>4, <2>2, <2>3, <2>5, <2>6, <2>7 DEF CheckpointLineageOk, longer, run
<1>7. CASE result # "error"
  <2>1. /\ next.last_success_at = now + 1
        /\ next.last_successful_run_id = n + 1
        /\ next.metadata_fingerprint = after
        /\ next.checkpoint_version = checkpoint.checkpoint_version + 1
        /\ next.last_checked_at = now + 1
    BY <1>7 DEF Generated
  <2>2. SuccessfulRuns(longer) = SuccessfulRuns(runs) \cup {n + 1}
    BY <1>3, <1>4, <1>7
  <2>3. IsNewestOf(next.last_successful_run_id, SuccessfulRuns(longer))
    BY <1>3, <1>5, <2>1, <2>2 DEF IsNewestOf
  <2> QED
    BY <1>3, <1>4, <2>1, <2>3 DEF CheckpointLineageOk, longer, run
<1> QED
  BY <1>6, <1>7 DEF longer, run

\* Its fields agree with one another.
LEMMA GeneratedRowOk ==
  ASSUME RuntimeInv, NEW result, NEW error_code, NEW after, NEW pending, NEW next,
         Legal(result, error_code, after, pending),
         Generated(result, error_code, after, pending, next), pending \in Nat
  PROVE  CheckpointRowOk(next)
<1>1. /\ checkpoint.last_success_at \in Nat /\ checkpoint.last_checked_at \in Nat
      /\ checkpoint.consecutive_error_count \in Nat /\ now \in Nat
  BY DEF RuntimeInv, TypeInv, TypeOK, MonitorCheckpoint
<1>2. next.last_success_at <= next.last_checked_at
  <2>1. next.last_checked_at = now + 1
    BY DEF Generated
  <2>2. next.last_success_at \in {now + 1, checkpoint.last_success_at}
    BY DEF Generated
  <2> QED
    BY <1>1, <2>1, <2>2 DEF RuntimeInv, ClockInv
<1>3. /\ next.target_state = TargetState(error_code, pending)
      /\ next.last_error_code = error_code
      /\ next.consecutive_error_count = NextErrorCount(checkpoint, error_code)
      /\ next.pending_change_run_id = pending
  BY DEF Generated
<1>4. (error_code # Absent) <=> (NextErrorCount(checkpoint, error_code) > 0)
  BY <1>1 DEF NextErrorCount
<1>5. Absent \notin FATAL_MONITOR_ERROR_CODES
  BY AbsentAssumption DEF FATAL_MONITOR_ERROR_CODES, ErrorCodes
<1> QED
  BY <1>2, <1>3, <1>4, <1>5 DEF CheckpointRowOk, TargetState

\* The count of one error goes on, or starts anew with another one.
LEMMA GeneratedEpisodeOk ==
  ASSUME RuntimeInv, NEW result, NEW error_code, NEW after, NEW pending, NEW next,
         Legal(result, error_code, after, pending),
         Generated(result, error_code, after, pending, next)
  PROVE  ErrorEpisodeOk(Append(runs, NewRun(result, error_code, after)), next)
<1> DEFINE run == NewRun(result, error_code, after)
           longer == Append(runs, run)
           n == Len(runs)
           old == checkpoint.consecutive_error_count
           count == NextErrorCount(checkpoint, error_code)
<1>1. /\ runs \in Seq(MonitorRun) /\ old \in Nat
  BY DEF RuntimeInv, TypeInv, TypeOK, MonitorCheckpoint
<1>2. run \in MonitorRun
  BY NewRunType DEF Legal, RuntimeInv, TypeInv
<1>3. /\ n \in Nat /\ DOMAIN runs = 1 .. n
      /\ Len(longer) = n + 1
      /\ \A i \in DOMAIN runs : longer[i] = runs[i]
      /\ longer[n + 1] = run
  BY <1>1, <1>2, AppendedRuns
<1>4. run.error_code = error_code
  BY NewRunFields
<1>5. next.last_error_code = error_code /\ next.consecutive_error_count = count
  BY DEF Generated
<1> HIDE DEF run, longer
<1>6. CASE error_code = Absent
  <2>1. count = 0
    BY <1>6 DEF NextErrorCount
  <2> QED
    BY <1>3, <1>4, <1>5, <1>6, <2>1 DEF ErrorEpisodeOk, longer, run
<1>7. CASE error_code # Absent
  <2>1. runs # <<>>
    BY <1>7 DEF Legal
  <2>2. ErrorEpisodeOk(runs, checkpoint) /\ n >= 1
    BY <1>1, <2>1 DEF RuntimeInv, EpisodeInv
  <2>3. /\ checkpoint.last_error_code = runs[n].error_code
        /\ runs[n].error_code = Absent => old = 0
        /\ runs[n].error_code # Absent =>
             /\ old \in 1 .. n
             /\ \A i \in n - old + 1 .. n : runs[i].error_code = runs[n].error_code
             /\ old < n => runs[n - old].error_code # runs[n].error_code
    BY <2>2 DEF ErrorEpisodeOk
  <2>4. CASE runs[n].error_code = error_code
    <3>1. count = old + 1 /\ old \in 1 .. n
      BY <1>7, <2>3, <2>4 DEF NextErrorCount
    <3>2. count \in 1 .. n + 1
      BY <1>3, <3>1
    <3>3. ASSUME NEW i \in n + 1 - count + 1 .. n + 1
          PROVE  longer[i].error_code = error_code
      <4>1. CASE i = n + 1
        BY <1>3, <1>4, <4>1
      <4>2. CASE i # n + 1
        <5>1. i \in n - old + 1 .. n /\ i \in 1 .. n
          BY <1>3, <3>1, <4>2
        <5> QED
          BY <1>3, <1>7, <2>3, <2>4, <5>1
      <4> QED
        BY <4>1, <4>2
    <3>4. count < n + 1 => longer[n + 1 - count].error_code # error_code
      <4> SUFFICES ASSUME count < n + 1 PROVE longer[n + 1 - count].error_code # error_code
        OBVIOUS
      <4>1. old < n /\ n + 1 - count = n - old /\ n - old \in 1 .. n
        BY <1>3, <3>1
      <4> QED
        BY <1>3, <1>7, <2>3, <2>4, <4>1
    <3> QED
      BY <1>3, <1>4, <1>5, <1>7, <3>2, <3>3, <3>4 DEF ErrorEpisodeOk, longer, run
  <2>5. CASE runs[n].error_code # error_code
    <3>1. count = 1
      BY <1>7, <2>3, <2>5 DEF NextErrorCount
    <3>2. n \in 1 .. n /\ longer[n] = runs[n]
      BY <1>3, <2>2
    <3> QED
      BY <1>3, <1>4, <1>5, <1>7, <2>5, <3>1, <3>2 DEF ErrorEpisodeOk, longer, run
  <2> QED
    BY <2>4, <2>5
<1> QED
  BY <1>6, <1>7

\* The pointer of the generated checkpoint is the newest open change.
LEMMA GeneratedPointerOk ==
  ASSUME RuntimeInv, NEW result, NEW error_code, NEW after, NEW pending, NEW next,
         Legal(result, error_code, after, pending),
         Generated(result, error_code, after, pending, next)
  PROVE  /\ PendingChangeOk(change_response, Append(runs, NewRun(result, error_code, after)),
                            resolutions, next)
         /\ pending \in Nat
         /\ pending # 0 => /\ change_response = "human_review"
                           /\ pending \in ChangeRuns(Append(runs, NewRun(result, error_code, after)))
<1> DEFINE run == NewRun(result, error_code, after)
           longer == Append(runs, run)
           n == Len(runs)
           unresolved == UnresolvedByContract(change_response, longer, resolutions)
           opened == result = "change_detected" /\ change_response = "human_review"
<1>1. runs \in Seq(MonitorRun) /\ n \in Nat /\ TypeInv /\ TypeOK
  BY DEF RuntimeInv, TypeInv, TypeOK
<1>2. run \in MonitorRun
  BY NewRunType DEF Legal, RuntimeInv, TypeInv
<1>3. /\ Len(longer) = n + 1
      /\ longer[n + 1] = run
      /\ ChangeRuns(longer) = ChangeRuns(runs) \cup
           {i \in {n + 1} : run.run_result = "change_detected"}
  BY <1>1, <1>2, AppendedRuns
<1>4. run.error_code = error_code /\ run.run_result = result
  BY NewRunFields
<1>5. /\ OpenChanges \subseteq ChangeRuns(runs) /\ ChangeRuns(runs) \subseteq 1 .. n
      /\ unresolved = OpenChanges \cup {i \in {n + 1} : opened}
  BY <1>1, <1>2, <1>4, OpenIsUnresolved DEF RuntimeInv, HistoryInv
<1>6. PendingChange \in DOMAIN runs \cup {0} /\ IsNewestOf(PendingChange, OpenChanges)
  BY <1>1, PendingChangeIsNewest
<1> HIDE DEF run, longer, unresolved
<1>7. pending = IF opened THEN n + 1 ELSE PendingChange
  BY DEF Legal
<1>8. IsNewestOf(pending, unresolved)
  <2>1. CASE opened
    BY <1>1, <1>5, <1>7, <2>1 DEF IsNewestOf
  <2>2. CASE ~opened
    BY <1>5, <1>6, <1>7, <2>2
  <2> QED
    BY <2>1, <2>2
<1>9. pending # 0 <=> unresolved # {}
  BY <1>1, <1>5, <1>8 DEF IsNewestOf
<1>10. next.pending_change_run_id = pending /\ next.target_state = TargetState(error_code, pending)
  BY DEF Generated
<1>11. PendingChangeOk(change_response, longer, resolutions, next)
  BY <1>3, <1>4, <1>8, <1>9, <1>10 DEF PendingChangeOk, TargetState, unresolved
<1>12. pending \in Nat
  BY <1>1, <1>6, <1>7
<1>13. ASSUME pending # 0
       PROVE  change_response = "human_review" /\ pending \in ChangeRuns(longer)
  <2>1. pending \in unresolved
    BY <1>9, <1>8, <1>13 DEF IsNewestOf
  <2>2. CASE opened
    BY <1>3, <1>4, <1>7, <2>2
  <2>3. CASE ~opened
    <3>1. pending \in OpenChanges
      BY <1>5, <2>1, <2>3
    <3>2. change_response = "human_review"
      BY <1>1, <3>1 DEF OpenChanges, TypeOK, ChangeResponses
    <3> QED
      BY <1>3, <1>5, <3>1, <3>2
  <2> QED
    BY <2>2, <2>3
<1> QED
  BY <1>11, <1>12, <1>13 DEF longer, run

\* A resolution that was applied stays one of the history, and a target whose
\* changes are all resolved has applied one.
LEMMA GeneratedAppliedOk ==
  ASSUME RuntimeInv, NEW result, NEW error_code, NEW after, NEW pending, NEW next,
         Legal(result, error_code, after, pending),
         Generated(result, error_code, after, pending, next)
  PROVE  LET longer == Append(runs, NewRun(result, error_code, after)) IN
         /\ AppliedResolutionOk(change_response, longer, resolutions, next)
         /\ next.resolution_applied_id \in DOMAIN resolutions \cup {0}
         /\ change_response = "human_review" /\ ChangeRuns(longer) # {} =>
              next.resolution_applied_id # 0 \/ pending # 0
<1> DEFINE run == NewRun(result, error_code, after)
           longer == Append(runs, run)
           n == Len(runs)
           applied == next.resolution_applied_id
           old == checkpoint.pending_change_run_id
<1>1. /\ runs \in Seq(MonitorRun) /\ n \in Nat /\ TypeInv /\ TypeOK
      /\ resolutions \in Seq(MonitorResolution)
  BY DEF RuntimeInv, TypeInv, TypeOK
<1>2. run \in MonitorRun
  BY NewRunType DEF Legal, RuntimeInv, TypeInv
<1>3. ChangeRuns(longer) = ChangeRuns(runs) \cup
        {i \in {n + 1} : run.run_result = "change_detected"}
  BY <1>1, <1>2, AppendedRuns
<1>4. run.run_result = result
  BY NewRunFields
<1>5. /\ AppliedResolution \in DOMAIN resolutions \cup {0}
      /\ (AppliedResolution # 0) <=> (old # 0 /\ ResolutionsOf(resolutions, old) # {})
  BY <1>1, AppliedResolutionIsRow
<1>6. applied = IF AppliedResolution # 0 THEN AppliedResolution
                ELSE checkpoint.resolution_applied_id
  BY DEF Generated
<1>7. applied \in DOMAIN resolutions \cup {0}
  BY <1>5, <1>6 DEF RuntimeInv, AppliedInv
<1>8. PendingChangeOk(change_response, longer, resolutions, next) /\ pending \in Nat
  BY GeneratedPointerOk
<1>9. next.pending_change_run_id = pending
  BY DEF Generated
<1> HIDE DEF run, longer
<1>10. ASSUME change_response = "human_review", ChangeRuns(longer) # {}, pending = 0
       PROVE  applied # 0
  <2>1. result # "change_detected" /\ ChangeRuns(runs) # {} /\ pending = PendingChange
    BY <1>1, <1>3, <1>4, <1>10 DEF Legal
  <2>2. OpenChanges = {}
    <3>1. IsNewestOf(0, OpenChanges) /\ OpenChanges \subseteq 1 .. n
      BY <1>1, <1>10, <2>1, PendingChangeIsNewest DEF OpenChanges, UnresolvedChangeIds, ChangeRuns
    <3> QED
      BY <3>1 DEF IsNewestOf
  <2>3. CASE old # 0
    <3>1. old \in ChangeRuns(runs)
      BY <2>3 DEF RuntimeInv, PendingInv
    <3>2. ResolutionsOf(resolutions, old) # {}
      BY <1>10, <2>2, <3>1 DEF OpenChanges, UnresolvedChangeIds
    <3> QED
      BY <1>5, <1>6, <2>3, <3>2
  <2>4. CASE old = 0
    BY <1>5, <1>6, <1>10, <2>1, <2>4 DEF RuntimeInv, AppliedInv
  <2> QED
    BY <2>3, <2>4
<1>11. AppliedResolutionOk(change_response, longer, resolutions, next)
  <2>1. CASE applied # 0
    <3>1. applied \in DOMAIN resolutions
      BY <1>7, <2>1
    <3>2. resolutions[applied].source_monitor_run_id \in EffectiveSources(resolutions)
      BY <1>1, <3>1, EveryRowIsEffective DEF RuntimeInv, HistoryInv
    <3> QED
      BY <2>1, <3>1, <3>2 DEF AppliedResolutionOk
  <2>2. CASE applied = 0
    <3>1. ASSUME change_response = "human_review", ChangeRuns(longer) # {},
                 UnresolvedByContract(change_response, longer, resolutions) = {}
          PROVE  FALSE
      <4>1. pending = 0
        BY <1>8, <1>9, <3>1 DEF PendingChangeOk, IsNewestOf
      <4> QED
        BY <1>10, <2>2, <3>1, <4>1
    <3> QED
      BY <2>2, <3>1 DEF AppliedResolutionOk
  <2> QED
    BY <2>1, <2>2
<1> QED
  BY <1>7, <1>10, <1>11 DEF longer, run

\* So the gate accepts what an execution generates.
LEMMA ExecutionAccepted ==
  ASSUME RuntimeInv, NEW result, NEW error_code, NEW after, NEW pending, NEW next,
         Legal(result, error_code, after, pending),
         Generated(result, error_code, after, pending, next)
  PROVE  BundleOk(change_response, Append(runs, NewRun(result, error_code, after)),
                  resolutions, next)
<1>1. NewRun(result, error_code, after) \in MonitorRun
  BY NewRunType DEF Legal, RuntimeInv, TypeInv
<1>2. pending \in Nat
  BY GeneratedPointerOk
<1> QED
  BY <1>1, <1>2, GeneratedRunOk, GeneratedRowOk, ResolutionsStayOk, GeneratedCheckpointOk,
     GeneratedPointerOk, GeneratedAppliedOk, GeneratedEpisodeOk DEF BundleOk

\* And the invariant goes on with the committed bundle.
LEMMA ExecutionKeeps ==
  ASSUME RuntimeInv, NEW result, NEW error_code, NEW after, NEW pending, NEW next,
         Legal(result, error_code, after, pending),
         Generated(result, error_code, after, pending, next),
         Executes, Gate(NewRun(result, error_code, after), next), TypeInv'
  PROVE  /\ RuntimeInv'
         /\ runs' = Append(runs, NewRun(result, error_code, after))
         /\ checkpoint' = next
<1> DEFINE longer == Append(runs, NewRun(result, error_code, after))
<1>1. BundleOk(change_response, longer, resolutions, next)
  BY ExecutionAccepted
<1>2. /\ runs' = longer /\ checkpoint' = next /\ outcome' = "committed"
      /\ now' = now + 1
      /\ UNCHANGED <<change_response, resolutions>>
  BY <1>1 DEF Gate, Executes
<1>3. longer # <<>>
  <2>1. runs \in Seq(MonitorRun) /\ NewRun(result, error_code, after) \in MonitorRun
    BY NewRunType DEF Legal, RuntimeInv, TypeInv, TypeOK
  <2> QED
    BY <2>1, AppendedRuns
<1> HIDE DEF longer
<1>4. HistoryInv' /\ EpisodeInv'
  BY <1>1, <1>2, <1>3 DEF BundleOk, HistoryInv, EpisodeInv
<1>5. ClockInv'
  BY <1>1, <1>2 DEF BundleOk, CheckpointRowOk, ClockInv, Generated, RuntimeInv, TypeInv, TypeOK
<1>6. PendingInv'
  <2>1. /\ next.pending_change_run_id = pending /\ pending \in Nat
        /\ pending # 0 => change_response = "human_review" /\ pending \in ChangeRuns(longer)
    BY GeneratedPointerOk DEF Generated, longer
  <2>2. ASSUME NEW c \in OpenChanges' PROVE c <= pending
    <3>1. change_response = "human_review" /\ c \in ChangeRuns(longer)
          /\ ResolutionsOf(resolutions, c) = {}
      BY <1>2 DEF OpenChanges, UnresolvedChangeIds, RuntimeInv, TypeInv, TypeOK, ChangeResponses
    <3>2. c \in UnresolvedByContract(change_response, longer, resolutions)
      BY <3>1, UnresolvedWithoutRow
    <3> QED
      BY <1>1, <2>1, <3>2 DEF BundleOk, PendingChangeOk, IsNewestOf
  <2> QED
    BY <1>2, <2>1, <2>2 DEF PendingInv
<1>7. AppliedInv'
  <2>1. /\ next.resolution_applied_id \in DOMAIN resolutions \cup {0}
        /\ change_response = "human_review" /\ ChangeRuns(longer) # {} =>
             next.resolution_applied_id # 0 \/ pending # 0
    BY GeneratedAppliedOk DEF longer
  <2>2. next.pending_change_run_id = pending
    BY DEF Generated
  <2> QED
    BY <1>2, <2>1, <2>2 DEF AppliedInv
<1> QED
  BY <1>2, <1>4, <1>5, <1>6, <1>7 DEF RuntimeInv, longer
-----------------------------------------------------------------------------
\* The three checkpoints the runtime builds are such generated ones.
LEMMA BuiltCheckpoints ==
  ASSUME TypeInv, NEW pending \in Nat, NEW error_code \in ErrorCodes, NEW after
  PROVE  /\ Generated("error", error_code, after, pending,
                      CheckedCheckpoint(error_code, pending))
         /\ Generated("error", "content_ambiguous", after, pending,
                      AmbiguousCheckpoint(pending, page))
         /\ \A result \in RunResults \ {"error"} :
              Generated(result, Absent, page.fingerprint, pending,
                        SucceededCheckpoint(pending, page))
<1>0. page \in SourceObservation
  BY DEF TypeInv, TypeOK
<1>1. DOMAIN checkpoint = {"checkpoint_version", "target_state", "last_checked_at",
        "last_success_at", "last_successful_run_id", "metadata_fingerprint",
        "observed_indicators", "last_error_code", "consecutive_error_count",
        "pending_change_run_id", "resolution_applied_id"}
  BY DEF TypeInv, TypeOK, MonitorCheckpoint
<1>2. ASSUME NEW code \in ErrorCodes \cup {Absent}
      PROVE  LET next == CheckedCheckpoint(code, pending) IN
             /\ next \in MonitorCheckpoint
             /\ next.checkpoint_version = checkpoint.checkpoint_version + 1
             /\ next.target_state = TargetState(code, pending)
             /\ next.last_checked_at = now + 1
             /\ next.last_error_code = code
             /\ next.consecutive_error_count = NextErrorCount(checkpoint, code)
             /\ next.pending_change_run_id = pending
             /\ next.resolution_applied_id =
                  IF AppliedResolution # 0 THEN AppliedResolution
                  ELSE checkpoint.resolution_applied_id
             /\ next.last_success_at = checkpoint.last_success_at
             /\ next.last_successful_run_id = checkpoint.last_successful_run_id
             /\ next.metadata_fingerprint = checkpoint.metadata_fingerprint
             /\ DOMAIN next = DOMAIN checkpoint
  <2> DEFINE next == CheckedCheckpoint(code, pending)
  <2>1. next \in MonitorCheckpoint
    BY CheckedCheckpointType
  <2>2. /\ next.checkpoint_version = checkpoint.checkpoint_version + 1
        /\ next.target_state = TargetState(code, pending)
        /\ next.last_checked_at = now + 1
        /\ next.last_error_code = code
    BY <1>1, Zenon DEF CheckedCheckpoint
  <2>3. /\ next.consecutive_error_count = NextErrorCount(checkpoint, code)
        /\ next.pending_change_run_id = pending
        /\ next.resolution_applied_id =
             IF AppliedResolution # 0 THEN AppliedResolution
             ELSE checkpoint.resolution_applied_id
    BY <1>1 DEF CheckedCheckpoint
  <2>4. /\ next.last_success_at = checkpoint.last_success_at
        /\ next.last_successful_run_id = checkpoint.last_successful_run_id
        /\ next.metadata_fingerprint = checkpoint.metadata_fingerprint
        /\ DOMAIN next = DOMAIN checkpoint
    BY <1>1 DEF CheckedCheckpoint
  <2> QED
    BY <2>1, <2>2, <2>3, <2>4
<1>3. Generated("error", error_code, after, pending, CheckedCheckpoint(error_code, pending))
  BY <1>2 DEF Generated
<1>4. Generated("error", "content_ambiguous", after, pending, AmbiguousCheckpoint(pending, page))
  <2> DEFINE base == CheckedCheckpoint("content_ambiguous", pending)
             next == AmbiguousCheckpoint(pending, page)
  <2>1. next \in MonitorCheckpoint
    BY <1>0, AdoptedCheckpointType
  <2>2. next = [base EXCEPT !.observed_indicators = page.indicators]
    BY DEF AmbiguousCheckpoint
  <2>3. "content_ambiguous" \in ErrorCodes \cup {Absent}
    BY DEF ErrorCodes
  <2>4. Generated("error", "content_ambiguous", after, pending, base)
        /\ DOMAIN base = DOMAIN checkpoint
    BY <1>2, <2>3 DEF Generated
  <2> HIDE DEF base, next
  <2> QED
    BY <1>1, <2>1, <2>2, <2>4 DEF Generated, next
<1>5. ASSUME NEW result \in RunResults \ {"error"}
      PROVE  Generated(result, Absent, page.fingerprint, pending,
                       SucceededCheckpoint(pending, page))
  <2> DEFINE base == CheckedCheckpoint(Absent, pending)
             next == SucceededCheckpoint(pending, page)
  <2>1. next \in MonitorCheckpoint
    BY <1>0, AdoptedCheckpointType
  <2>2. next = [base EXCEPT !.last_success_at        = now + 1,
                            !.last_successful_run_id = Len(runs) + 1,
                            !.metadata_fingerprint   = page.fingerprint,
                            !.observed_indicators    = page.indicators]
    BY DEF SucceededCheckpoint
  <2>3. Generated("error", Absent, page.fingerprint, pending, base)
        /\ DOMAIN base = DOMAIN checkpoint
    BY <1>2 DEF Generated
  <2> HIDE DEF base, next
  <2>4. /\ next.checkpoint_version = base.checkpoint_version
        /\ next.target_state = base.target_state
        /\ next.last_checked_at = base.last_checked_at
        /\ next.last_error_code = base.last_error_code
        /\ next.consecutive_error_count = base.consecutive_error_count
        /\ next.pending_change_run_id = base.pending_change_run_id
        /\ next.resolution_applied_id = base.resolution_applied_id
    BY <1>1, <2>2, <2>3
  <2>5. /\ next.last_success_at = now + 1
        /\ next.last_successful_run_id = Len(runs) + 1
        /\ next.metadata_fingerprint = page.fingerprint
    BY <1>1, <2>2, <2>3
  <2> QED
    BY <2>1, <2>3, <2>4, <2>5 DEF Generated, next
<1> QED
  BY <1>3, <1>4, <1>5

\* Every execution that generates a bundle is of the kind the gate accepts.
LEMMA ExecutionIsLegal ==
  ASSUME RuntimeInv
  PROVE  /\ Initialize =>
              /\ Legal("initialized", Absent, page.fingerprint, 0)
              /\ Generated("initialized", Absent, page.fingerprint, 0,
                           SucceededCheckpoint(0, page))
         /\ \A error_code \in SourceErrors \cup {"state_unavailable"} :
              FailObservation(error_code) =>
                /\ Legal("error", error_code, Absent, PendingChange)
                /\ Generated("error", error_code, Absent, PendingChange,
                             CheckedCheckpoint(error_code, PendingChange))
         /\ LET result == ClassifiedResult(checkpoint, page)
                fingerprint_after == IF result = "error" THEN Absent ELSE page.fingerprint
                error_code == IF result = "error" THEN "content_ambiguous" ELSE Absent
                pending == IF result = "change_detected" /\ change_response = "human_review"
                             THEN Len(runs) + 1 ELSE PendingChange
            IN  Observe =>
                  /\ Legal(result, error_code, fingerprint_after, pending)
                  /\ Generated(result, error_code, fingerprint_after, pending,
                               IF result = "error" THEN AmbiguousCheckpoint(pending, page)
                                                   ELSE SucceededCheckpoint(pending, page))
<1>1. /\ TypeInv /\ page.fingerprint \in Fingerprints /\ Len(runs) \in Nat
      /\ PendingChange \in Nat
      /\ Absent \notin ErrorCodes /\ Absent \notin Fingerprints
      /\ "content_ambiguous" \in ErrorCodes
  BY PendingChangeIsNewest, AbsentAssumption
  DEF RuntimeInv, TypeInv, TypeOK, SourceObservation, ErrorCodes
<1>2. ASSUME Initialize
      PROVE  /\ Legal("initialized", Absent, page.fingerprint, 0)
             /\ Generated("initialized", Absent, page.fingerprint, 0,
                          SucceededCheckpoint(0, page))
  <2>1. runs = <<>> /\ "initialized" \in RunResults \ {"error"}
    BY <1>2 DEF Initialize, RunResults
  <2>2. PendingChange = 0
    <3>1. OpenChanges = {}
      BY <2>1 DEF OpenChanges, UnresolvedChangeIds, ChangeRuns
    <3> QED
      BY <1>1, <3>1, PendingChangeIsNewest DEF IsNewestOf, TypeInv
  <2>3. Legal("initialized", Absent, page.fingerprint, 0)
    BY <1>1, <2>1, <2>2 DEF Legal, RunResults
  <2>4. Generated("initialized", Absent, page.fingerprint, 0, SucceededCheckpoint(0, page))
    BY <1>1, <2>1, BuiltCheckpoints
  <2> QED
    BY <2>3, <2>4
<1>3. ASSUME NEW error_code \in SourceErrors \cup {"state_unavailable"},
             FailObservation(error_code)
      PROVE  /\ Legal("error", error_code, Absent, PendingChange)
             /\ Generated("error", error_code, Absent, PendingChange,
                          CheckedCheckpoint(error_code, PendingChange))
  <2>1. error_code \in ErrorCodes /\ runs # <<>>
    BY <1>3 DEF ErrorCodes, FailObservation
  <2>2. Legal("error", error_code, Absent, PendingChange)
    BY <1>1, <2>1 DEF Legal, RunResults
  <2> QED
    BY <1>1, <2>1, <2>2, BuiltCheckpoints
<1> DEFINE result == ClassifiedResult(checkpoint, page)
           fingerprint_after == IF result = "error" THEN Absent ELSE page.fingerprint
           code == IF result = "error" THEN "content_ambiguous" ELSE Absent
           new == IF result = "change_detected" /\ change_response = "human_review"
                    THEN Len(runs) + 1 ELSE PendingChange
<1>4. ASSUME Observe
      PROVE  /\ Legal(result, code, fingerprint_after, new)
             /\ Generated(result, code, fingerprint_after, new,
                          IF result = "error" THEN AmbiguousCheckpoint(new, page)
                                              ELSE SucceededCheckpoint(new, page))
  <2>1. runs # <<>> /\ new \in Nat
    BY <1>1, <1>4 DEF Observe
  <2>2. /\ result \in {"change_detected", "error", "no_change"}
        /\ (result = "change_detected") <=> (page.fingerprint # checkpoint.metadata_fingerprint)
    BY DEF ClassifiedResult
  <2> HIDE DEF result, new
  <2>3. Legal(result, code, fingerprint_after, new)
    BY <1>1, <2>1, <2>2 DEF Legal, RunResults, new
  <2>4. CASE result = "error"
    BY <1>1, <2>1, <2>3, <2>4, BuiltCheckpoints
  <2>5. CASE result # "error"
    <3>1. result \in RunResults \ {"error"}
      BY <2>2, <2>5 DEF RunResults
    <3> QED
      BY <1>1, <2>1, <2>3, <2>5, <3>1, BuiltCheckpoints
  <2> QED
    BY <2>4, <2>5
<1> QED
  BY <1>2, <1>3, <1>4
-----------------------------------------------------------------------------
\* A history with one resolution more: the rows of its change gain one.
LEMMA RecordedRow ==
  ASSUME TypeInv, NEW source \in ChangeRuns(runs), NEW resolved_at \in {now, now + 1},
         RecordResolution(source, resolved_at)
  PROVE  LET n   == Len(resolutions) + 1
             row == resolutions'[n]
             earlier == ResolutionsOf(resolutions, source)
         IN  /\ n \in Nat \ {0} /\ DOMAIN resolutions = 1 .. n - 1
             /\ DOMAIN resolutions' = DOMAIN resolutions \cup {n}
             /\ \A k \in DOMAIN resolutions : resolutions'[k] = resolutions[k]
             /\ row.source_monitor_run_id = source
             /\ row.resolved_at >= runs[source].finished_at
             /\ IsNewestOf(row.supersedes_resolution_id, earlier)
             /\ row.supersedes_resolution_id # 0 =>
                  row.resolved_at > resolutions[row.supersedes_resolution_id].resolved_at
             /\ ResolutionsOf(resolutions', source) = earlier \cup {n}
             /\ \A c : c # source => ResolutionsOf(resolutions', c) = ResolutionsOf(resolutions, c)
<1> DEFINE n == Len(resolutions) + 1
           earlier == ResolutionsOf(resolutions, source)
           current == CHOOSE k \in DOMAIN resolutions \cup {0} : IsNewestOf(k, earlier)
           row == [source_monitor_run_id    |-> source,
                   resolved_at              |-> resolved_at,
                   supersedes_resolution_id |-> current]
<1>1. resolutions \in Seq(MonitorResolution)
  BY DEF TypeInv, TypeOK
<1>2. /\ resolutions' = Append(resolutions, row)
      /\ resolved_at >= runs[source].finished_at
      /\ current # 0 => resolved_at > resolutions[current].resolved_at
  BY DEF RecordResolution
<1>3. IsNewestOf(current, earlier)
  <2>1. Len(resolutions) \in Nat /\ DOMAIN resolutions = 1 .. Len(resolutions)
    BY <1>1
  <2>2. earlier \in SUBSET (1 .. Len(resolutions))
    BY <2>1 DEF ResolutionsOf
  <2>3. \E k \in DOMAIN resolutions \cup {0} : IsNewestOf(k, earlier)
    BY <2>1, <2>2, NewestExists
  <2> QED
    BY <2>3
<1>4. /\ row.source_monitor_run_id = source
      /\ row.resolved_at = resolved_at
      /\ row.supersedes_resolution_id = current
  OBVIOUS
<1> HIDE DEF row
<1>5. /\ n \in Nat \ {0} /\ DOMAIN resolutions = 1 .. n - 1
      /\ DOMAIN resolutions' = DOMAIN resolutions \cup {n}
      /\ \A k \in DOMAIN resolutions : resolutions'[k] = resolutions[k]
      /\ resolutions'[n] = row
  BY <1>1, <1>2
<1>6. ResolutionsOf(resolutions', source) = earlier \cup {n}
  BY <1>4, <1>5 DEF ResolutionsOf
<1>7. ASSUME NEW c, c # source
      PROVE  ResolutionsOf(resolutions', c) = ResolutionsOf(resolutions, c)
  BY <1>4, <1>5, <1>7 DEF ResolutionsOf
<1> QED
  BY <1>2, <1>3, <1>4, <1>5, <1>6, <1>7

\* A Human's row keeps the invariant: it answers a change of the history, and it
\* takes that change, and no other, out of the open ones.
LEMMA RecordingKeeps ==
  ASSUME RuntimeInv, NEW source \in ChangeRuns(runs), NEW resolved_at \in {now, now + 1},
         RecordResolution(source, resolved_at)
  PROVE  /\ RuntimeInv'
         /\ OpenChanges' = OpenChanges \ {source}
<1> DEFINE n == Len(resolutions) + 1
           row == resolutions'[n]
           earlier == ResolutionsOf(resolutions, source)
<1>1. /\ n \in Nat \ {0} /\ DOMAIN resolutions = 1 .. n - 1
      /\ DOMAIN resolutions' = DOMAIN resolutions \cup {n}
      /\ \A k \in DOMAIN resolutions : resolutions'[k] = resolutions[k]
      /\ row.source_monitor_run_id = source
      /\ row.resolved_at >= runs[source].finished_at
      /\ IsNewestOf(row.supersedes_resolution_id, earlier)
      /\ row.supersedes_resolution_id # 0 =>
           row.resolved_at > resolutions[row.supersedes_resolution_id].resolved_at
      /\ ResolutionsOf(resolutions', source) = earlier \cup {n}
      /\ \A c : c # source => ResolutionsOf(resolutions', c) = ResolutionsOf(resolutions, c)
  BY RecordedRow DEF RuntimeInv
<1>2. UNCHANGED <<page, change_response, runs, checkpoint, bundle_response, now, outcome>>
  BY DEF RecordResolution
<1>3. TypeInv'
  BY RecordResolutionTypeInv DEF RuntimeInv
<1>4. OpenChanges' = OpenChanges \ {source}
  BY <1>1, <1>2 DEF OpenChanges, UnresolvedChangeIds
<1>5. ASSUME NEW k \in DOMAIN resolutions'
      PROVE  ResolutionRowOk(runs, resolutions', k)
  <2>1. CASE k = n
    <3>1. {j \in ResolutionsOf(resolutions', source) : j < k} = earlier
      <4>1. earlier \subseteq 1 .. n - 1
        BY <1>1 DEF ResolutionsOf
      <4> QED
        BY <1>1, <2>1, <4>1
    <3>2. earlier # {} => /\ row.supersedes_resolution_id # 0
                          /\ row.supersedes_resolution_id \in DOMAIN resolutions
      BY <1>1 DEF IsNewestOf, ResolutionsOf
    <3> QED
      BY <1>1, <2>1, <3>1, <3>2 DEF ResolutionRowOk
  <2>2. CASE k \in DOMAIN resolutions
    <3> DEFINE of == resolutions[k].source_monitor_run_id
               before == {j \in ResolutionsOf(resolutions, of) : j < k}
    <3>1. ResolutionRowOk(runs, resolutions, k)
      BY <2>2 DEF RuntimeInv, HistoryInv, ResolutionLineageOk
    <3>2. resolutions'[k] = resolutions[k] /\ k \in Nat /\ k < n
      BY <1>1, <2>2
    <3>3. {j \in ResolutionsOf(resolutions', of) : j < k} = before
      <4>1. ResolutionsOf(resolutions', of) \in
              {ResolutionsOf(resolutions, of), ResolutionsOf(resolutions, of) \cup {n}}
        BY <1>1
      <4> QED
        BY <3>2, <1>1, <4>1
    <3>4. before # {} => resolutions[k].supersedes_resolution_id \in DOMAIN resolutions
      BY <3>1 DEF ResolutionRowOk, IsNewestOf, ResolutionsOf
    <3> QED
      BY <1>1, <3>1, <3>2, <3>3, <3>4 DEF ResolutionRowOk
  <2> QED
    BY <1>1, <2>1, <2>2
<1>6. HistoryInv' /\ EpisodeInv' /\ ClockInv'
  BY <1>2, <1>5 DEF HistoryInv, EpisodeInv, ClockInv, ResolutionLineageOk, RuntimeInv
<1>7. PendingInv' /\ AppliedInv'
  BY <1>1, <1>2, <1>4 DEF PendingInv, AppliedInv, RuntimeInv
<1> QED
  BY <1>2, <1>3, <1>4, <1>6, <1>7 DEF RuntimeInv

\* The empty history fulfils it.
LEMMA InitRuntimeInv == Init => RuntimeInv
<1> SUFFICES ASSUME Init PROVE RuntimeInv
  OBVIOUS
<1>1. /\ runs = <<>> /\ resolutions = <<>> /\ checkpoint = EmptyCheckpoint /\ now = 0
      /\ outcome = "none" /\ DOMAIN runs = {} /\ DOMAIN resolutions = {}
  BY DEF Init
<1>2. ChangeRuns(runs) = {} /\ OpenChanges = {}
  BY <1>1 DEF ChangeRuns, OpenChanges, UnresolvedChangeIds
<1>3. HistoryInv /\ EpisodeInv
  BY <1>1 DEF HistoryInv, EpisodeInv, RunLineageOk, ResolutionLineageOk
<1>4. /\ checkpoint.last_success_at = 0 /\ checkpoint.last_checked_at = 0
      /\ checkpoint.pending_change_run_id = 0 /\ checkpoint.resolution_applied_id = 0
  BY <1>1 DEF EmptyCheckpoint
<1>5. ClockInv /\ PendingInv /\ AppliedInv
  BY <1>1, <1>2, <1>4 DEF ClockInv, PendingInv, AppliedInv
<1> QED
  BY <1>1, <1>3, <1>5, InitTypeInv DEF RuntimeInv

\* Every step of a target whose row stays put keeps the invariant: an execution
\* commits what it generated, a Human adds a row, nothing else touches the bundle.
LEMMA RuntimeStep ==
  ASSUME RuntimeInv, [Next]_vars
  PROVE  RuntimeInv'
<1>t. TypeInv'
  BY NextTypeInv DEF RuntimeInv, EditedNext
<1>1. CASE Initialize
  BY <1>1, <1>t, ExecutionIsLegal, ExecutionKeeps DEF Initialize
<1>2. CASE Observe
  <2> DEFINE result == ClassifiedResult(checkpoint, page)
             fingerprint_after == IF result = "error" THEN Absent ELSE page.fingerprint
             code == IF result = "error" THEN "content_ambiguous" ELSE Absent
             new == IF result = "change_detected" /\ change_response = "human_review"
                      THEN Len(runs) + 1 ELSE PendingChange
             next == IF result = "error" THEN AmbiguousCheckpoint(new, page)
                                         ELSE SucceededCheckpoint(new, page)
  <2>1. Legal(result, code, fingerprint_after, new)
        /\ Generated(result, code, fingerprint_after, new, next)
    BY <1>2, ExecutionIsLegal
  <2>2. Executes /\ Gate(NewRun(result, code, fingerprint_after), next)
    BY <1>2 DEF Observe
  <2> HIDE DEF result, fingerprint_after, code, new, next
  <2> QED
    BY <1>t, <2>1, <2>2, ExecutionKeeps
<1>3. ASSUME NEW error_code \in SourceErrors \cup {"state_unavailable"},
             FailObservation(error_code)
      PROVE  RuntimeInv'
  <2>1. /\ Legal("error", error_code, Absent, PendingChange)
        /\ Generated("error", error_code, Absent, PendingChange,
                     CheckedCheckpoint(error_code, PendingChange))
    BY <1>3, ExecutionIsLegal
  <2>2. /\ Executes
        /\ Gate(NewRun("error", error_code, Absent), CheckedCheckpoint(error_code, PendingChange))
    BY <1>3 DEF FailObservation
  <2> QED
    BY <1>t, <2>1, <2>2, ExecutionKeeps
<1>4. ASSUME UNCHANGED <<change_response, runs, checkpoint, resolutions>>,
             now' \in {now, now + 1}, outcome' # "refused_by_gate"
      PROVE  RuntimeInv'
  <2>1. HistoryInv' /\ EpisodeInv'
    BY <1>4 DEF RuntimeInv, HistoryInv, EpisodeInv
  <2>2. ClockInv'
    BY <1>4 DEF RuntimeInv, ClockInv, TypeInv, TypeOK, MonitorCheckpoint
  <2>3. PendingInv' /\ AppliedInv'
    BY <1>4 DEF RuntimeInv, PendingInv, AppliedInv, OpenChanges, UnresolvedChangeIds
  <2> QED
    BY <1>t, <1>4, <2>1, <2>2, <2>3 DEF RuntimeInv
<1>5. CASE RefuseResolutionTime \/ RefuseInitialization
  BY <1>4, <1>5 DEF RefuseResolutionTime, RefuseInitialization, Executes, Raises
<1>6. CASE EditPage \/ UNCHANGED vars
  BY <1>4, <1>6 DEF EditPage, vars, RuntimeInv
<1>7. ASSUME NEW source \in ChangeRuns(runs), NEW resolved_at \in {now, now + 1},
             RecordResolution(source, resolved_at)
      PROVE  RuntimeInv'
  BY <1>7, RecordingKeeps
<1> QED
  BY <1>1, <1>2, <1>3, <1>5, <1>6, <1>7 DEF Next

\* The invariant of a target whose registry row stays as it was activated.
LEMMA RuntimeInvariant == Spec => []RuntimeInv
<1>1. RuntimeInv /\ [Next]_vars => RuntimeInv'
  BY RuntimeStep
<1> QED
  BY InitRuntimeInv, <1>1, PTL DEF Spec

\* The runtime never generates a bundle its own gate refuses, nor loses its
\* pointer, while the registry row stays put.
THEOREM AcceptsItsOwnState == Spec => []RuntimeAcceptsItsOwnState
<1>1. RuntimeInv => RuntimeAcceptsItsOwnState
  BY PointerAgrees DEF RuntimeInv, RuntimeAcceptsItsOwnState
<1> QED
  BY RuntimeInvariant, <1>1, PTL
-----------------------------------------------------------------------------
(***************************************************************************)
(* The runtime implements ChangeReview, step by step.                      *)
(***************************************************************************)

\* What an execution does to the open changes: a change under human review joins
\* them with the number of its run, and nothing leaves them.
LEMMA ExecutionOpens ==
  ASSUME RuntimeInv, NEW run \in MonitorRun, UNCHANGED <<change_response, resolutions>>,
         runs' = Append(runs, run)
  PROVE  OpenChanges' = OpenChanges \cup
           {i \in {Len(runs) + 1} :
              run.run_result = "change_detected" /\ change_response = "human_review"}
<1>1. /\ runs \in Seq(MonitorRun) /\ change_response \in ChangeResponses
      /\ resolutions \in Seq(MonitorResolution)
  BY DEF RuntimeInv, TypeInv, TypeOK
<1>2. ChangeRuns(runs') = ChangeRuns(runs) \cup
        {i \in {Len(runs) + 1} : run.run_result = "change_detected"}
  BY <1>1, AppendedRuns
<1>3. ResolutionsOf(resolutions, Len(runs) + 1) = {}
  <2>1. Len(runs) + 1 \notin ChangeRuns(runs)
    BY <1>1 DEF ChangeRuns
  <2> QED
    BY <2>1 DEF RuntimeInv, HistoryInv, ResolutionLineageOk, ResolutionRowOk, ResolutionsOf
<1> QED
  BY <1>1, <1>2, <1>3 DEF OpenChanges, UnresolvedChangeIds, ChangeResponses

\* The pending pointer of the state is set exactly when a change is open, once a
\* run without a new change has looked.
LEMMA PendingMeansOpen ==
  ASSUME RuntimeInv
  PROVE  (PendingChange # 0) <=> (OpenChanges # {})
<1>1. IsNewestOf(PendingChange, OpenChanges) /\ 0 \notin OpenChanges
  BY PendingChangeIsNewest
  DEF RuntimeInv, TypeInv, TypeOK, OpenChanges, UnresolvedChangeIds, ChangeRuns
<1> QED
  BY <1>1 DEF IsNewestOf

\* A run without a change is a look that refreshes the flag.
LEMMA QuietRunRefreshes ==
  ASSUME RuntimeInv, NEW result, NEW error_code, NEW after, NEW next,
         Legal(result, error_code, after, PendingChange),
         Generated(result, error_code, after, PendingChange, next),
         result \in {"no_change", "error"},
         Executes, Gate(NewRun(result, error_code, after), next), TypeInv'
  PROVE  Review!Refresh
<1>1. /\ runs' = Append(runs, NewRun(result, error_code, after))
      /\ checkpoint' = next
  BY ExecutionKeeps
<1>2. NewRun(result, error_code, after) \in MonitorRun
      /\ NewRun(result, error_code, after).run_result = result
  BY NewRunType, NewRunFields DEF Legal, RuntimeInv, TypeInv
<1>3. UNCHANGED <<change_response, resolutions>>
  BY DEF Executes
<1>4. OpenChanges' = OpenChanges
  BY <1>1, <1>2, <1>3, ExecutionOpens
<1>5. next.metadata_fingerprint = checkpoint.metadata_fingerprint
      /\ next.pending_change_run_id = PendingChange
  BY DEF Generated, Legal
<1> QED
  BY <1>1, <1>3, <1>4, <1>5, PendingMeansOpen DEF Review!Refresh

\* Every step of the runtime is one of ChangeReview or leaves its state alone.
LEMMA RuntimeStepRefines ==
  ASSUME RuntimeInv, [Next]_vars
  PROVE  [Review!Next]_Review!vars
<1>t. TypeInv'
  BY NextTypeInv DEF RuntimeInv, EditedNext
<1>0. /\ page.fingerprint \in Fingerprints
      /\ runs \in Seq(MonitorRun) /\ Len(runs) \in Nat
      /\ change_response \in ChangeResponses
  BY DEF RuntimeInv, TypeInv, TypeOK, SourceObservation
<1>1. CASE Initialize
  <2> DEFINE run == NewRun("initialized", Absent, page.fingerprint)
             next == SucceededCheckpoint(0, page)
  <2>1. /\ Legal("initialized", Absent, page.fingerprint, 0)
        /\ Generated("initialized", Absent, page.fingerprint, 0, next)
    BY <1>1, ExecutionIsLegal
  <2>2. Executes /\ Gate(run, next) /\ runs = <<>>
    BY <1>1 DEF Initialize
  <2>3. runs' = Append(runs, run) /\ checkpoint' = next
    BY <1>t, <2>1, <2>2, ExecutionKeeps
  <2>4. run \in MonitorRun /\ run.run_result = "initialized"
    BY <2>1, NewRunType, NewRunFields DEF Legal, RuntimeInv, TypeInv
  <2>5. UNCHANGED <<change_response, resolutions>>
    BY <2>2 DEF Executes
  <2>6. OpenChanges' = OpenChanges
    BY <2>3, <2>4, <2>5, ExecutionOpens
  <2>7. /\ checkpoint.metadata_fingerprint = Absent
        /\ checkpoint.pending_change_run_id = 0
        /\ next.metadata_fingerprint = page.fingerprint
        /\ next.pending_change_run_id = 0
    BY <2>1, <2>2, EmptyFields DEF Generated
  <2>8. Review!FirstLook(page.fingerprint)
    BY <2>3, <2>5, <2>6, <2>7 DEF Review!FirstLook
  <2> QED
    BY <1>0, <2>8 DEF Review!Next
<1>2. CASE Observe
  <2> DEFINE result == ClassifiedResult(checkpoint, page)
             fingerprint_after == IF result = "error" THEN Absent ELSE page.fingerprint
             code == IF result = "error" THEN "content_ambiguous" ELSE Absent
             new == IF result = "change_detected" /\ change_response = "human_review"
                      THEN Len(runs) + 1 ELSE PendingChange
             next == IF result = "error" THEN AmbiguousCheckpoint(new, page)
                                         ELSE SucceededCheckpoint(new, page)
             run == NewRun(result, code, fingerprint_after)
  <2>1. Legal(result, code, fingerprint_after, new)
        /\ Generated(result, code, fingerprint_after, new, next)
    BY <1>2, ExecutionIsLegal
  <2>2. Executes /\ Gate(run, next) /\ runs # <<>> /\ Len(runs) < MaxRuns
    BY <1>2 DEF Observe
  <2>3. /\ result \in {"change_detected", "error", "no_change"}
        /\ (result = "change_detected") <=> (page.fingerprint # checkpoint.metadata_fingerprint)
    BY DEF ClassifiedResult
  <2>4. new = IF result = "change_detected" /\ change_response = "human_review"
                THEN Len(runs) + 1 ELSE PendingChange
    OBVIOUS
  <2>5. result # "error" => fingerprint_after = page.fingerprint
    OBVIOUS
  <2> HIDE DEF result, fingerprint_after, code, new, next
  <2>6. runs' = Append(runs, run) /\ checkpoint' = next
    BY <1>t, <2>1, <2>2, ExecutionKeeps
  <2>7. run \in MonitorRun /\ run.run_result = result
    BY <2>1, NewRunType, NewRunFields DEF Legal, RuntimeInv, TypeInv
  <2>8. UNCHANGED <<change_response, resolutions>>
    BY <2>2 DEF Executes
  <2>9. CASE result # "change_detected"
    <3>1. Review!Refresh
      BY <1>t, <2>1, <2>2, <2>3, <2>4, <2>9, QuietRunRefreshes
    <3> QED
      BY <3>1 DEF Review!Next
  <2>10. CASE result = "change_detected"
    <3>1. /\ checkpoint.metadata_fingerprint # Absent
          /\ page.fingerprint # checkpoint.metadata_fingerprint
      BY <2>2, <2>3, <2>10, KnownFingerprint
    <3>2. /\ next.metadata_fingerprint = page.fingerprint
          /\ next.pending_change_run_id = new
      BY <2>1, <2>5, <2>10 DEF Generated
    <3>3. OpenChanges' = OpenChanges \cup
            {i \in {Len(runs) + 1} : change_response = "human_review"}
      BY <2>6, <2>7, <2>8, <2>10, ExecutionOpens
    <3>4. CASE change_response = "human_review"
      <4>1. Len(runs) + 1 \in 1 .. MaxRuns
        BY <1>0, <2>2, BoundsAssumption
      <4>2. \A c \in OpenChanges : c < Len(runs) + 1
        BY <1>0 DEF OpenChanges, UnresolvedChangeIds, ChangeRuns
      <4>3. new = Len(runs) + 1 /\ new # 0
        BY <1>0, <2>4, <2>10, <3>4
      <4>4. Review!OpenChange(page.fingerprint, Len(runs) + 1)
        BY <2>6, <2>8, <3>1, <3>2, <3>3, <3>4, <4>2, <4>3 DEF Review!OpenChange
      <4> QED
        BY <1>0, <4>1, <4>4 DEF Review!Next
    <3>5. CASE change_response # "human_review"
      <4>1. OpenChanges = {} /\ OpenChanges' = OpenChanges
        BY <1>0, <3>3, <3>5 DEF OpenChanges, ChangeResponses
      <4>2. new = 0 /\ checkpoint.pending_change_run_id = 0
        BY <2>4, <3>5, <4>1, PendingMeansOpen DEF RuntimeInv, PendingInv
      <4>3. Review!HandOver(page.fingerprint)
        BY <2>6, <2>8, <3>1, <3>2, <3>5, <4>1, <4>2 DEF Review!HandOver
      <4> QED
        BY <1>0, <4>3 DEF Review!Next
    <3> QED
      BY <3>4, <3>5
  <2> QED
    BY <2>9, <2>10
<1>3. ASSUME NEW error_code \in SourceErrors \cup {"state_unavailable"},
             FailObservation(error_code)
      PROVE  Review!Refresh
  <2>1. /\ Legal("error", error_code, Absent, PendingChange)
        /\ Generated("error", error_code, Absent, PendingChange,
                     CheckedCheckpoint(error_code, PendingChange))
    BY <1>3, ExecutionIsLegal
  <2>2. /\ Executes
        /\ Gate(NewRun("error", error_code, Absent), CheckedCheckpoint(error_code, PendingChange))
    BY <1>3 DEF FailObservation
  <2> QED
    BY <1>t, <2>1, <2>2, QuietRunRefreshes
<1>4. ASSUME UNCHANGED <<change_response, runs, checkpoint, resolutions>>
      PROVE  UNCHANGED Review!vars
  BY <1>4 DEF Review!vars, OpenChanges, UnresolvedChangeIds
<1>5. CASE RefuseResolutionTime \/ RefuseInitialization
  BY <1>4, <1>5 DEF RefuseResolutionTime, RefuseInitialization, Executes, Raises
<1>6. CASE EditPage \/ UNCHANGED vars
  BY <1>4, <1>6 DEF EditPage, vars
<1>7. ASSUME NEW source \in ChangeRuns(runs), NEW resolved_at \in {now, now + 1},
             RecordResolution(source, resolved_at)
      PROVE  [Review!Next]_Review!vars
  <2>1. OpenChanges' = OpenChanges \ {source}
    BY <1>7, RecordingKeeps
  <2>2. UNCHANGED <<change_response, checkpoint>>
    BY <1>7 DEF RecordResolution
  <2>3. CASE source \in OpenChanges
    <3>1. Review!Review(source)
      BY <2>1, <2>2, <2>3 DEF Review!Review
    <3> QED
      BY <2>3, <3>1 DEF Review!Next
  <2>4. CASE source \notin OpenChanges
    BY <2>1, <2>2, <2>4 DEF Review!vars
  <2> QED
    BY <2>3, <2>4
<1>8. (\E error_code \in SourceErrors \cup {"state_unavailable"} :
         FailObservation(error_code)) => Review!Next
  BY <1>3 DEF Review!Next
<1> QED
  BY <1>1, <1>2, <1>5, <1>6, <1>7, <1>8 DEF Next

\* The runtime keeps its promise to the reader: every new content opens a change
\* or is handed over, a change closes only by review, and the flag falls only at
\* a run that finds none open.
THEOREM RuntimeImplementsChangeReview == Spec => ImplementsChangeReview
<1>1. Init => Review!Init
  BY DEF Init, Review!Init, OpenChanges, UnresolvedChangeIds, ChangeRuns, EmptyCheckpoint
<1>2. RuntimeInv /\ [Next]_vars => [Review!Next]_Review!vars
  BY RuntimeStepRefines
<1> QED
  BY RuntimeInvariant, <1>1, <1>2, PTL DEF Spec, Review!Spec, ImplementsChangeReview
=============================================================================
