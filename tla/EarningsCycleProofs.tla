------------------------ MODULE EarningsCycleProofs ------------------------
(***************************************************************************)
(* What an earnings event promises for any clock, any number of rows and   *)
(* files, and any order of edits, disclosures and commands.                *)
(***************************************************************************)
EXTENDS EarningsCycle, FiniteSetTheorems, WellFoundedInduction, TLAPS

-----------------------------------------------------------------------------
(***************************************************************************)
(* The inductive invariant.                                                *)
(***************************************************************************)
StatusRow ==
  [status : {"scheduled", "postponed", "cancelled", "occurred"}, supersedes : Nat,
   scheduled : Nat, previous : Nat \cup {None}, occurred : Times \cup {None},
   recorded : Times]

Versions == 1 .. bounds.baselines

BaselineRow ==
  [version : Versions, status : {"draft", "locked"}, supersedes : Versions \cup {None},
   review : {"pending", "approved"}, reviewed : Times \cup {None}, asOf : Times,
   locked : Times \cup {None}]

EvidenceRow ==
  [id : Nat, baseline : Versions, seen : Times, recorded : Times, used : BOOLEAN,
   kind : {"original", "correction"}, supersedes : Nat \cup {None}]

ReviewRow == [baseline : Versions, recorded : Times]

Dataset ==
  [statuses : Seq(StatusRow), baselines : SUBSET BaselineRow,
   evidence : SUBSET EvidenceRow, reviews : SUBSET ReviewRow]

Evaluation ==
  [status : {"evaluated", "insufficient_data"}, at : Times, hypotheses : SUBSET Times]

Tracking ==
  [baseline : Versions, announced : Times,
   status : {"complete", "tracking", "not_comparable"},
   milestones : [Milestones -> {"observed", "pending", "not_comparable"}],
   window : {"calculated", "pending", "not_comparable"},
   completed : Times \cup {None}]

CycleTypes ==
  /\ bounds \in CycleScopes
  /\ now \in Times
  /\ disclosed \in Times \cup {None}
  /\ dataset \in Dataset
  /\ IsFiniteSet(dataset.baselines)
  /\ hypothesis \in [created : Times \cup {None}, invalidated : Times \cup {None}]
  /\ evaluations \in [Versions -> Evaluation \cup {None}]
  /\ trackings \subseteq Tracking

\* Nothing was disclosed, locked or withdrawn in the future.
CycleClock ==
  /\ disclosed # None => disclosed <= now
  /\ \A b \in dataset.baselines : b.locked # None => b.locked <= now
  /\ hypothesis.invalidated # None => hypothesis.invalidated <= now

\* The status rows were recorded one after another, and an occurrence is the
\* disclosure.
StatusOrder ==
  LET rows == dataset.statuses IN
  /\ \A j \in DOMAIN rows : \A i \in 1 .. j - 1 : rows[i].recorded < rows[j].recorded
  /\ \A i \in DOMAIN rows : rows[i].status = "occurred" => rows[i].occurred = disclosed

\* What an evaluation judges was there when its baseline was locked; of a baseline
\* locked before the disclosure it judges what any later evaluation would.
Judged(v) ==
  /\ evaluations[v] \in Evaluation
  /\ evaluations[v].at <= now
  /\ disclosed # None
  /\ \E b \in dataset.baselines :
       /\ b.version = v /\ Locked(b)
       /\ b.locked <= evaluations[v].at
       /\ \A h \in evaluations[v].hypotheses : h <= b.locked
       /\ b.locked < disclosed => evaluations[v].hypotheses = PreEventHypotheses(b)

EvaluationInv == \A v \in DOMAIN evaluations : evaluations[v] # None => Judged(v)

\* The status of a snapshot in terms of what the reviewer looks at.  That the close
\* before the disclosure is there for a final one follows from the next close, which
\* counts only together with it.
StatusInStages(t) ==
  /\ (t.status = "not_comparable") <=> (t.window = "not_comparable")
  /\ \A role \in Milestones :
       t.milestones[role] = "not_comparable" => t.window = "not_comparable"
  /\ (t.status = "complete") <=>
       /\ t.window = "calculated"
       /\ t.milestones["next_business_day_close"] = "observed"
       /\ t.milestones["fifth_business_day_close"] = "observed"

\* What is tracked has occurred and was evaluated.
TrackingInv ==
  \A t \in trackings :
    /\ Occurred(dataset.statuses)
    /\ t.announced = disclosed
    /\ Judged(t.baseline)
    /\ t.completed # None => t.completed <= now
    /\ StatusInStages(t)

\* A review follows what it rests on.
ReviewInv ==
  \A r \in reviews :
    /\ r.tracking \in trackings
    /\ r.supersedes \in reviews \cup {None}
    /\ r.reviewed \in Times
    /\ r.hypotheses \subseteq Times
    /\ r.status = ReviewState(MarketStages(r.tracking))
    /\ r.tracking.baseline = r.baseline
    /\ r.tracking.announced <= r.reviewed
    /\ r.tracking.completed # None => r.tracking.completed <= r.reviewed
    /\ r.supersedes # None => r.supersedes.reviewed < r.reviewed
    /\ \E b \in dataset.baselines :
         /\ b.version = r.baseline /\ Locked(b)
         /\ b.locked < r.tracking.announced
         /\ \A h \in r.hypotheses : h <= b.locked
         /\ r.hypotheses = PreEventHypotheses(b)

CarryoverInv ==
  carryover # None =>
    \A r \in carryover.reviews : r \in reviews /\ r.reviewed <= carryover.prepared

CycleInv ==
  /\ CycleTypes /\ CycleClock /\ DatasetOk(dataset) /\ StatusOrder
  /\ EvaluationInv /\ TrackingInv /\ ReviewInv /\ CarryoverInv

-----------------------------------------------------------------------------
(***************************************************************************)
(* The rules of EventDataset.                                              *)
(***************************************************************************)
\* A row after the first follows the one before it.
LEMMA StatusStep ==
  ASSUME NEW rows, StatusHistoryOk(rows), NEW i \in DOMAIN rows, i # 1,
         NEW j, j = i - 1
  PROVE  SupersedingStatusOk(rows[j], rows[i])
BY DEF StatusHistoryOk

\* An occurrence ends the history: no row can supersede it.
LEMMA OccurrenceIsFinal ==
  ASSUME NEW S, NEW rows \in Seq(S), NEW r \in S, StatusHistoryOk(Append(rows, r))
  PROVE  ~Occurred(rows)
<1> SUFFICES ASSUME Occurred(rows) PROVE FALSE
  OBVIOUS
<1> DEFINE n == Len(rows)
<1>1. /\ n \in Nat /\ n >= 1 /\ n + 1 \in DOMAIN Append(rows, r) /\ n + 1 # 1
      /\ Append(rows, r)[n + 1] = r /\ Append(rows, r)[n] = rows[n]
      /\ rows[n].status = "occurred"
  BY DEF Occurred, Last
<1>2. SupersedingStatusOk(Append(rows, r)[n], Append(rows, r)[n + 1])
  <2> DEFINE all  == Append(rows, r)
             next == n + 1
  <2>1. StatusHistoryOk(all) /\ next \in DOMAIN all /\ next # 1 /\ n = next - 1
    BY <1>1
  <2> HIDE DEF all, next, n
  <2>2. SupersedingStatusOk(all[n], all[next])
    BY <2>1, StatusStep
  <2> QED
    BY <2>2 DEF all, next
<1>3. SupersedingStatusOk(rows[n], r)
  BY <1>1, <1>2
<1> QED
  BY <1>1, <1>3 DEF SupersedingStatusOk, AllowedTransitions

\* A row is recorded after the one it supersedes.
LEMMA RecordedAfter ==
  ASSUME NEW S, NEW rows \in Seq(S), NEW r \in S, StatusHistoryOk(Append(rows, r)),
         rows # <<>>
  PROVE  r.recorded > rows[Len(rows)].recorded
<1> DEFINE n == Len(rows)
<1>1. /\ n \in Nat /\ n >= 1 /\ n + 1 \in DOMAIN Append(rows, r) /\ n + 1 # 1
      /\ Append(rows, r)[n + 1] = r /\ Append(rows, r)[n] = rows[n]
  OBVIOUS
<1>2. SupersedingStatusOk(Append(rows, r)[n], Append(rows, r)[n + 1])
  <2> DEFINE all  == Append(rows, r)
             next == n + 1
  <2>1. StatusHistoryOk(all) /\ next \in DOMAIN all /\ next # 1 /\ n = next - 1
    BY <1>1
  <2> HIDE DEF all, next, n
  <2>2. SupersedingStatusOk(all[n], all[next])
    BY <2>1, StatusStep
  <2> QED
    BY <2>2 DEF all, next
<1>3. SupersedingStatusOk(rows[n], r)
  BY <1>1, <1>2
<1> QED
  BY <1>3 DEF SupersedingStatusOk

\* The version of a baseline names it.
LEMMA BaselineIs ==
  ASSUME BaselinesOk(dataset), NEW b \in dataset.baselines
  PROVE  Baseline(b.version) = b
<1>1. \A c \in dataset.baselines : c.version = b.version => c = b
  BY DEF BaselinesOk
<1> QED
  BY <1>1 DEF Baseline

\* The types of the data, one row at a time.
LEMMA RowTypes ==
  ASSUME CycleTypes
  PROVE  /\ dataset.statuses \in Seq(StatusRow)
         /\ \A i \in DOMAIN dataset.statuses : dataset.statuses[i] \in StatusRow
         /\ dataset.baselines \subseteq BaselineRow
         /\ dataset.evidence \subseteq EvidenceRow
         /\ dataset.reviews \subseteq ReviewRow
         /\ MaxTime \in Nat /\ now \in Nat /\ bounds.baselines \in Nat
         /\ None \notin Times /\ Times \subseteq Nat
<1>1. dataset \in Dataset
  BY DEF CycleTypes
<1>2. dataset.statuses \in Seq(StatusRow)
  BY <1>1 DEF Dataset
<1>3. /\ dataset.baselines \subseteq BaselineRow /\ dataset.evidence \subseteq EvidenceRow
      /\ dataset.reviews \subseteq ReviewRow
  BY <1>1 DEF Dataset
<1>4. \A i \in DOMAIN dataset.statuses : dataset.statuses[i] \in StatusRow
  BY <1>2
<1>5. /\ MaxTime \in Nat /\ now \in Nat /\ bounds.baselines \in Nat
      /\ None \notin Times /\ Times \subseteq Nat
  BY CycleAssumption DEF CycleTypes, Times
<1> QED
  BY <1>2, <1>3, <1>4, <1>5

\* When a locked baseline was locked.
LEMMA LockedBaseline ==
  ASSUME CycleTypes, BaselinesOk(dataset), NEW b \in dataset.baselines, Locked(b)
  PROVE  /\ b.locked \in Nat /\ b.locked # None /\ b.locked \in Times
         /\ b.asOf \in Nat /\ b.asOf <= b.locked
         /\ b.reviewed \in Nat /\ b.reviewed \in Times /\ b.reviewed <= b.locked
         /\ b.review = "approved"
<1>1. LockOk(b) /\ ReviewStateOk(b)
  BY DEF BaselinesOk
<1>2. /\ b.locked \in Times \cup {None} /\ b.asOf \in Times
      /\ b.reviewed \in Times \cup {None}
  BY RowTypes DEF BaselineRow
<1>3. b.locked # None /\ b.review = "approved" /\ b.asOf <= b.locked /\ b.reviewed <= b.locked
  BY <1>1 DEF LockOk, Locked
<1>4. b.reviewed # None
  BY <1>1, <1>3 DEF ReviewStateOk
<1> QED
  BY <1>2, <1>3, <1>4, RowTypes

-----------------------------------------------------------------------------
(***************************************************************************)
(* The invariant is inductive.                                             *)
(***************************************************************************)
\* An event that was just opened.
LEMMA CycleStart == CycleInit => CycleInv
<1> SUFFICES ASSUME CycleInit PROVE CycleInv
  OBVIOUS
<1>1. 0 \in Times /\ None \notin Nat
  BY CycleAssumption DEF Times
<1>2. CycleTypes
  <2>1. dataset \in Dataset
    <3>1. <<>> \in Seq(StatusRow)
      OBVIOUS
    <3> QED
      BY <3>1 DEF CycleInit, Dataset
  <2>2. IsFiniteSet(dataset.baselines)
    BY FS_EmptySet DEF CycleInit
  <2>3. evaluations \in [Versions -> Evaluation \cup {None}]
    BY DEF CycleInit, Versions
  <2>5. hypothesis \in [created : Times \cup {None}, invalidated : Times \cup {None}]
    BY DEF CycleInit
  <2> QED
    BY <1>1, <2>1, <2>2, <2>3, <2>5 DEF CycleInit, CycleTypes
<1>3. DatasetOk(dataset)
  <2>1. /\ dataset.statuses = <<>> /\ dataset.baselines = {}
        /\ dataset.evidence = {} /\ dataset.reviews = {}
    BY DEF CycleInit
  <2> QED
    BY <2>1 DEF DatasetOk, StatusHistoryOk, LifecycleRequiredOk, BaselinesOk, EvidenceOk,
                EvidenceLineageOk, ScoredEvidenceOk, TemporalOk, ReviewsOk, PostponementGateOk,
                Occurred
<1>4. CycleClock /\ StatusOrder
  BY DEF CycleInit, CycleClock, StatusOrder
<1>5. EvaluationInv
  BY DEF CycleInit, EvaluationInv
<1>6. TrackingInv /\ ReviewInv /\ CarryoverInv
  BY DEF CycleInit, TrackingInv, ReviewInv, CarryoverInv
<1> QED
  BY <1>2, <1>3, <1>4, <1>5, <1>6 DEF CycleInv

\* An edit that validates keeps the invariant when it takes no locked row away,
\* locks nothing in the future, and appends at most one status row, with the
\* disclosure as its occurrence.
LEMMA EditKeeps ==
  ASSUME CycleInv, UNCHANGED <<now, world, hypothesis, files>>,
         dataset' \in Dataset, DatasetOk(dataset'), IsFiniteSet(dataset'.baselines),
         \A b \in dataset.baselines : Locked(b) => b \in dataset'.baselines,
         \A b \in dataset'.baselines : b.locked # None => b.locked <= now,
         \/ dataset'.statuses = dataset.statuses
         \/ \E r \in StatusRow : /\ r.status = "occurred" => r.occurred = disclosed
                               /\ dataset'.statuses = Append(dataset.statuses, r)
  PROVE  CycleInv'
<1> DEFINE rows == dataset.statuses
<1>1. /\ UNCHANGED <<now, bounds, disclosed, hypothesis>>
      /\ UNCHANGED <<evaluations, trackings, reviews, carryover>>
  BY DEF world, files
<1>2. /\ CycleTypes /\ CycleClock /\ StatusOrder /\ EvaluationInv /\ TrackingInv
      /\ ReviewInv /\ CarryoverInv /\ rows \in Seq(StatusRow)
  BY RowTypes DEF CycleInv
<1>3. CycleTypes'
  BY <1>1, <1>2 DEF CycleTypes, Dataset, Versions, Times, BaselineRow, EvidenceRow, ReviewRow,
                    StatusRow, Evaluation, Tracking
<1>4. CycleClock'
  BY <1>1, <1>2 DEF CycleClock
<1>5. StatusOrder'
  <2>1. CASE dataset'.statuses = dataset.statuses
    BY <1>1, <1>2, <2>1 DEF StatusOrder
  <2>2. ASSUME NEW r \in StatusRow, r.status = "occurred" => r.occurred = disclosed,
               dataset'.statuses = Append(rows, r)
        PROVE  StatusOrder'
    <3> DEFINE n == Len(rows)
    <3>1. StatusHistoryOk(Append(rows, r))
      BY <2>2 DEF DatasetOk
    <3>2. n \in Nat /\ DOMAIN rows = 1 .. n /\ DOMAIN Append(rows, r) = 1 .. n + 1
      BY <1>2
    <3>3. /\ \A i \in 1 .. n : Append(rows, r)[i] = rows[i]
          /\ Append(rows, r)[n + 1] = r
      BY <1>2
    <3>4. \A i \in 1 .. n : rows[i].recorded \in Nat
      <4>1. \A i \in 1 .. n : rows[i] \in StatusRow
        BY <1>2, <3>2
      <4> QED
        BY <1>2, <4>1, RowTypes DEF StatusRow
    <3>5. r.recorded \in Nat
      BY <1>2, RowTypes DEF StatusRow
    <3>6. \A i \in 1 .. n : rows[i].recorded < r.recorded
      <4>1. TAKE i \in 1 .. n
      <4>2. rows # <<>> /\ n \in 1 .. n
        BY <3>2
      <4>3. rows[n].recorded < r.recorded
        BY <1>2, <3>1, <3>4, <3>5, <4>2, RecordedAfter
      <4>4. i = n \/ rows[i].recorded < rows[n].recorded
        BY <1>2, <3>2, <4>2 DEF StatusOrder
      <4> QED
        BY <3>4, <3>5, <4>2, <4>3, <4>4
    <3>7. \A j \in 1 .. n + 1 : \A i \in 1 .. j - 1 :
            Append(rows, r)[i].recorded < Append(rows, r)[j].recorded
      <4>1. \A j \in 1 .. n : \A i \in 1 .. j - 1 : rows[i].recorded < rows[j].recorded
        BY <1>2, <3>2 DEF StatusOrder
      <4> QED
        BY <3>2, <3>3, <3>6, <4>1
    <3>8. \A i \in 1 .. n + 1 : Append(rows, r)[i].status = "occurred" =>
            Append(rows, r)[i].occurred = disclosed
      <4>1. \A i \in 1 .. n : rows[i].status = "occurred" => rows[i].occurred = disclosed
        BY <1>2, <3>2 DEF StatusOrder
      <4> QED
        BY <2>2, <3>2, <3>3, <4>1
    <3> QED
      BY <1>1, <2>2, <3>2, <3>7, <3>8 DEF StatusOrder
  <2> QED
    BY <2>1, <2>2
<1>6. Occurred(rows) => dataset'.statuses = rows
  BY <1>2, OccurrenceIsFinal DEF DatasetOk
<1>7. \A v : Judged(v) => Judged(v)'
  BY <1>1 DEF Judged, PreEventHypotheses, Evaluation, Times
<1>8. EvaluationInv' /\ TrackingInv'
  BY <1>1, <1>2, <1>6, <1>7 DEF EvaluationInv, TrackingInv
<1>9. ReviewInv' /\ CarryoverInv'
  BY <1>1, <1>2 DEF ReviewInv, CarryoverInv, PreEventHypotheses, Times
<1> QED
  BY <1>3, <1>4, <1>5, <1>8, <1>9 DEF CycleInv

\* Every bounded set of numbers with a member has a largest one.
LEMMA LargestExists ==
  ASSUME NEW S \in SUBSET Nat, NEW e \in S, NEW b \in Nat, \A x \in S : x <= b
  PROVE  Max(S) \in S /\ \A x \in S : x <= Max(S)
<1> DEFINE T == {i \in Nat : \A x \in S : x <= i}
<1>1. IsWellFoundedOn(OpToRel(<, Nat), Nat)
  BY NatLessThanWellFounded
<1>2. T \subseteq Nat /\ b \in T
  OBVIOUS
<1>3. PICK m \in T : \A y \in T : ~(<<y, m>> \in OpToRel(<, Nat))
  BY <1>1, <1>2, WFMin, Zenon
<1>4. m \in Nat /\ \A x \in S : x <= m
  OBVIOUS
<1>5. ASSUME m \notin S PROVE FALSE
  <2>1. \A x \in S : x \in Nat /\ x < m
    BY <1>4, <1>5
  <2>2. m - 1 \in T
    BY <1>4, <2>1
  <2>3. <<m - 1, m>> \in OpToRel(<, Nat)
    BY <1>4, <2>2 DEF OpToRel
  <2> QED
    BY <1>3, <2>2, <2>3
<1>6. m \in S /\ \A x \in S : m >= x
  BY <1>4, <1>5
<1>7. Max(S) \in S /\ \A x \in S : Max(S) >= x
  BY <1>6 DEF Max
<1> QED
  BY <1>4, <1>7

\* The next version is a version, as long as there is room for it.
LEMMA NextVersionType ==
  ASSUME CycleInv, NextVersion <= bounds.baselines
  PROVE  NextVersion \in Versions
<1> DEFINE S == {b.version : b \in dataset.baselines} \cup {0}
<1>1. bounds.baselines \in Nat /\ dataset.baselines \subseteq BaselineRow
  BY RowTypes DEF CycleInv
<1>2. S \in SUBSET Nat /\ 0 \in S /\ \A x \in S : x <= bounds.baselines
  BY <1>1 DEF BaselineRow, Versions
<1>3. Max(S) \in Nat
  BY <1>1, <1>2, LargestExists
<1>4. NextVersion = 1 + Max(S)
  BY DEF NextVersion
<1> QED
  BY <1>1, <1>3, <1>4 DEF Versions

\* What an author can write as a time is a time.
LEMMA ClaimsType ==
  ASSUME CycleInv
  PROVE  Claims \subseteq Times /\ now \in Times /\ \A t \in Claims : t <= now
BY RowTypes DEF CycleInv, CycleTypes, Claims, Times

\* The analyst's edits, one kind after another.
LEMMA AddStatusKeeps ==
  ASSUME CycleInv, AddStatus
  PROVE  CycleInv'
<1>1. PICK r \in StatusRows : Edit([dataset EXCEPT !.statuses = Append(@, r)])
  BY DEF AddStatus
<1> DEFINE d    == [dataset EXCEPT !.statuses = Append(@, r)]
           rows == dataset.statuses
<1>2. DatasetOk(d) /\ dataset' = d /\ UNCHANGED <<now, world, hypothesis, files>>
  BY <1>1 DEF Edit
<1>3. /\ CycleTypes /\ CycleClock /\ dataset \in Dataset /\ rows \in Seq(StatusRow)
      /\ IsFiniteSet(dataset.baselines) /\ now \in Times /\ disclosed \in Times \cup {None}
      /\ MaxTime \in Nat /\ Planned \in Nat
  BY RowTypes, CycleAssumption DEF CycleInv, CycleTypes
<1>4. /\ r.status \in {"scheduled", "postponed", "cancelled", "occurred"}
      /\ r.supersedes \in {0, Len(rows)}
      /\ r.scheduled \in Planned .. MaxTime \cup {Planned}
      /\ r.previous \in {None} \cup (IF Len(rows) = 0 THEN {} ELSE {rows[Len(rows)].scheduled})
      /\ r.occurred \in {None, disclosed} /\ r.recorded = now
      /\ (r.status = "occurred") <=> (r.occurred # None)
      /\ r = [status |-> r.status, supersedes |-> r.supersedes, scheduled |-> r.scheduled,
             previous |-> r.previous, occurred |-> r.occurred, recorded |-> r.recorded]
  BY DEF StatusRows
<1>5. r \in StatusRow
  <2>1. Len(rows) # 0 => rows[Len(rows)].scheduled \in Nat
    <3>1. Len(rows) # 0 => rows[Len(rows)] \in StatusRow
      BY <1>3
    <3> QED
      BY <3>1 DEF StatusRow
  <2>2. r.supersedes \in Nat /\ r.scheduled \in Nat
    BY <1>3, <1>4
  <2>3. r.previous \in Nat \cup {None} /\ r.occurred \in Times \cup {None} /\ r.recorded \in Times
    BY <1>3, <1>4, <2>1
  <2> QED
    BY <1>4, <2>2, <2>3 DEF StatusRow
<1>6. r.status = "occurred" => r.occurred = disclosed
  BY <1>4
<1>7. /\ d.statuses = Append(rows, r) /\ d.baselines = dataset.baselines
      /\ d \in Dataset
  <2> DEFINE longer == Append(rows, r)
  <2>1. longer \in Seq(StatusRow)
    BY <1>3, <1>5
  <2> HIDE DEF longer
  <2>2. [dataset EXCEPT !.statuses = longer] \in Dataset
    BY <1>3, <2>1 DEF Dataset
  <2>3. /\ [dataset EXCEPT !.statuses = longer].statuses = longer
        /\ [dataset EXCEPT !.statuses = longer].baselines = dataset.baselines
    BY <1>3 DEF Dataset
  <2> QED
    BY <2>2, <2>3 DEF longer
<1> HIDE DEF d
<1>8. \A b \in d.baselines : b.locked # None => b.locked <= now
  BY <1>3, <1>7 DEF CycleClock
<1>9. dataset' \in Dataset /\ DatasetOk(dataset') /\ IsFiniteSet(dataset'.baselines)
  BY <1>2, <1>3, <1>7
<1> QED
  BY <1>2, <1>5, <1>6, <1>7, <1>8, <1>9, EditKeeps

\* An edit of the other tables.
LEMMA TableEditKeeps ==
  ASSUME CycleInv, NEW d \in Dataset, Edit(d), IsFiniteSet(d.baselines),
         d.statuses = dataset.statuses,
         \A b \in dataset.baselines : Locked(b) => b \in d.baselines,
         \A b \in d.baselines : b \in dataset.baselines \/ b.locked \in {None, now}
  PROVE  CycleInv'
<1>1. DatasetOk(d) /\ dataset' = d /\ UNCHANGED <<now, world, hypothesis, files>>
  BY DEF Edit
<1>2. \A b \in d.baselines : b.locked # None => b.locked <= now
  BY RowTypes DEF CycleInv, CycleClock
<1>3. dataset' \in Dataset /\ DatasetOk(dataset') /\ IsFiniteSet(dataset'.baselines)
  BY <1>1
<1> QED
  BY <1>1, <1>2, <1>3, EditKeeps

\* Drafts come and go.
LEMMA DraftKeeps ==
  ASSUME CycleInv, AddDraft \/ DropDraft
  PROVE  CycleInv'
<1>1. dataset \in Dataset /\ IsFiniteSet(dataset.baselines) /\ now \in Times
  BY DEF CycleInv, CycleTypes
<1>2. CASE AddDraft
  <2> DEFINE b == [version |-> NextVersion, status |-> "draft", supersedes |-> None,
                   review |-> "pending", reviewed |-> None, asOf |-> now, locked |-> None]
             d == [dataset EXCEPT !.baselines = @ \cup {b}]
  <2>1. NextVersion \in Versions
    BY <1>2, NextVersionType DEF AddDraft
  <2>2. b \in BaselineRow /\ b.locked = None
    BY <1>1, <2>1 DEF BaselineRow
  <2>3. Edit(d)
    BY <1>2 DEF AddDraft
  <2> HIDE DEF b
  <2>4. d \in Dataset /\ d.statuses = dataset.statuses /\ d.baselines = dataset.baselines \cup {b}
    BY <1>1, <2>2 DEF Dataset
  <2> HIDE DEF d
  <2>5. IsFiniteSet(d.baselines)
    BY <1>1, <2>4, FS_AddElement
  <2> QED
    BY <2>2, <2>3, <2>4, <2>5, TableEditKeeps
<1>3. CASE DropDraft
  <2>1. PICK b \in dataset.baselines :
          b.status = "draft" /\ Edit([dataset EXCEPT !.baselines = @ \ {b}])
    BY <1>3 DEF DropDraft
  <2> DEFINE d == [dataset EXCEPT !.baselines = @ \ {b}]
  <2>2. d \in Dataset /\ d.statuses = dataset.statuses /\ d.baselines = dataset.baselines \ {b}
    BY <1>1 DEF Dataset
  <2>3. Edit(d)
    BY <2>1
  <2> HIDE DEF d
  <2>4. IsFiniteSet(d.baselines)
    BY <1>1, <2>2, FS_RemoveElement
  <2>5. \A c \in dataset.baselines : Locked(c) => c \in d.baselines
    BY <2>1, <2>2 DEF Locked
  <2> QED
    BY <2>2, <2>3, <2>4, <2>5, TableEditKeeps
<1> QED
  BY <1>2, <1>3

\* A locked baseline enters with its evidence.
LEMMA LockKeeps ==
  ASSUME CycleInv, LockBaseline
  PROVE  CycleInv'
<1>1. dataset \in Dataset /\ IsFiniteSet(dataset.baselines)
      /\ dataset.baselines \subseteq BaselineRow
  BY RowTypes DEF CycleInv, CycleTypes
<1>2. PICK supersedes \in {None} \cup {b.version : b \in dataset.baselines},
           review \in {"pending", "approved"}, taken \in Claims, used \in BOOLEAN :
       Edit([dataset EXCEPT
         !.baselines = @ \cup
           {[version |-> NextVersion, status |-> "locked", supersedes |-> supersedes,
             review |-> review, reviewed |-> IF review = "pending" THEN None ELSE taken,
             asOf |-> taken, locked |-> now]},
         !.evidence = @ \cup
           {[id |-> 2 * NextVersion, baseline |-> NextVersion, seen |-> taken,
             recorded |-> taken, used |-> used, kind |-> "original", supersedes |-> None]}])
  BY DEF LockBaseline
<1> DEFINE b == [version |-> NextVersion, status |-> "locked", supersedes |-> supersedes,
                 review |-> review, reviewed |-> IF review = "pending" THEN None ELSE taken,
                 asOf |-> taken, locked |-> now]
           x == [id |-> 2 * NextVersion, baseline |-> NextVersion, seen |-> taken,
                 recorded |-> taken, used |-> used, kind |-> "original", supersedes |-> None]
           d == [dataset EXCEPT !.baselines = @ \cup {b}, !.evidence = @ \cup {x}]
<1>3. NextVersion \in Versions /\ NextVersion \in Nat
  BY NextVersionType DEF LockBaseline, Versions
<1>4. taken \in Times /\ now \in Times
  BY ClaimsType
<1>5. supersedes \in Versions \cup {None}
  BY <1>1 DEF BaselineRow
<1>6. b \in BaselineRow /\ b.locked = now
  BY <1>3, <1>4, <1>5 DEF BaselineRow
<1>7. x \in EvidenceRow
  BY <1>3, <1>4 DEF EvidenceRow
<1>8. Edit(d)
  BY <1>2
<1> HIDE DEF b, x
<1>9. d \in Dataset /\ d.statuses = dataset.statuses /\ d.baselines = dataset.baselines \cup {b}
  BY <1>1, <1>6, <1>7 DEF Dataset
<1> HIDE DEF d
<1>10. IsFiniteSet(d.baselines)
  BY <1>1, <1>9, FS_AddElement
<1> QED
  BY <1>6, <1>8, <1>9, <1>10, TableEditKeeps

\* Notes add evidence and a review, and touch no baseline.
LEMMA NoteKeeps ==
  ASSUME CycleInv, AddEvidence \/ AddReview
  PROVE  CycleInv'
<1>1. /\ dataset \in Dataset /\ IsFiniteSet(dataset.baselines) /\ now \in Times
      /\ dataset.baselines \subseteq BaselineRow /\ bounds.baselines \in Nat
  BY RowTypes DEF CycleInv, CycleTypes
<1>2. CASE AddEvidence
  <2>1. PICK b \in dataset.baselines, kind \in {"original", "correction"} :
          Edit([dataset EXCEPT !.evidence = @ \cup
                 {[id |-> 2 * b.version + 1, baseline |-> b.version, seen |-> now,
                   recorded |-> now, used |-> FALSE, kind |-> kind,
                   supersedes |-> IF kind = "original" THEN None ELSE 2 * b.version]}])
    BY <1>2 DEF AddEvidence
  <2> DEFINE x == [id |-> 2 * b.version + 1, baseline |-> b.version, seen |-> now,
                   recorded |-> now, used |-> FALSE, kind |-> kind,
                   supersedes |-> IF kind = "original" THEN None ELSE 2 * b.version]
             d == [dataset EXCEPT !.evidence = @ \cup {x}]
  <2>2. b.version \in Versions /\ b.version \in Nat
    BY <1>1 DEF BaselineRow, Versions
  <2>3. x \in EvidenceRow
    BY <1>1, <2>2 DEF EvidenceRow
  <2>4. Edit(d)
    BY <2>1
  <2> HIDE DEF x
  <2>5. d \in Dataset /\ d.statuses = dataset.statuses /\ d.baselines = dataset.baselines
    BY <1>1, <2>3 DEF Dataset
  <2> HIDE DEF d
  <2> QED
    BY <1>1, <2>4, <2>5, TableEditKeeps
<1>3. CASE AddReview
  <2>1. PICK b \in dataset.baselines :
          Edit([dataset EXCEPT !.reviews = {[baseline |-> b.version, recorded |-> now]}])
    BY <1>3 DEF AddReview
  <2> DEFINE d == [dataset EXCEPT !.reviews = {[baseline |-> b.version, recorded |-> now]}]
  <2>2. [baseline |-> b.version, recorded |-> now] \in ReviewRow
    BY <1>1 DEF BaselineRow, ReviewRow
  <2>3. Edit(d)
    BY <2>1
  <2>4. d \in Dataset /\ d.statuses = dataset.statuses /\ d.baselines = dataset.baselines
    BY <1>1, <2>2 DEF Dataset
  <2> HIDE DEF d
  <2> QED
    BY <1>1, <2>3, <2>4, TableEditKeeps
<1> QED
  BY <1>2, <1>3

\* Time passes.
LEMMA CycleTickKeeps ==
  ASSUME CycleInv, Tick
  PROVE  CycleInv'
<1>1. /\ now' = now + 1 /\ now < MaxTime
      /\ UNCHANGED <<bounds, disclosed, dataset, hypothesis>>
      /\ UNCHANGED <<evaluations, trackings, reviews, carryover>>
  BY DEF Tick, world, files
<1>2. /\ CycleTypes /\ MaxTime \in Nat /\ now \in Nat /\ now' \in Times
      /\ \A t \in Times : t <= now => t <= now'
  BY <1>1, RowTypes DEF CycleInv, Times
<1>3. CycleTypes'
  BY <1>1, <1>2 DEF CycleTypes, Dataset, Versions, Times, BaselineRow, EvidenceRow, ReviewRow,
                    StatusRow, Evaluation, Tracking
<1>4. CycleClock'
  <2>1. disclosed # None => disclosed \in Times
    BY <1>2 DEF CycleTypes
  <2>2. \A b \in dataset.baselines : b.locked # None => b.locked \in Times
    BY <1>2, RowTypes DEF BaselineRow
  <2>3. hypothesis.invalidated # None => hypothesis.invalidated \in Times
    BY <1>2 DEF CycleTypes
  <2> QED
    BY <1>1, <1>2, <2>1, <2>2, <2>3 DEF CycleInv, CycleClock
<1>5. \A v : Judged(v) => Judged(v)'
  BY <1>1, <1>2 DEF Judged, PreEventHypotheses, Evaluation, Times
<1>6. EvaluationInv' /\ StatusOrder'
  BY <1>1, <1>5 DEF CycleInv, EvaluationInv, StatusOrder
<1>7. TrackingInv'
  <2>1. \A t \in trackings : t.completed # None => t.completed \in Times
    BY <1>2 DEF CycleTypes, Tracking
  <2> QED
    BY <1>1, <1>2, <1>5, <2>1 DEF CycleInv, TrackingInv
<1>8. ReviewInv' /\ CarryoverInv' /\ DatasetOk(dataset')
  BY <1>1 DEF CycleInv, ReviewInv, CarryoverInv, PreEventHypotheses, Times
<1> QED
  BY <1>3, <1>4, <1>6, <1>7, <1>8 DEF CycleInv

\* A status history without a disclosure has no occurrence.
LEMMA OccurredIsDisclosed ==
  ASSUME CycleInv
  PROVE  /\ \A i \in DOMAIN dataset.statuses :
               dataset.statuses[i].status = "occurred" => disclosed # None
         /\ Occurred(dataset.statuses) =>
               /\ disclosed # None /\ disclosed \in Nat /\ disclosed \in Times
               /\ Last(dataset.statuses).occurred = disclosed
               /\ EffectiveTime(dataset.statuses) = disclosed
<1> DEFINE rows == dataset.statuses
<1>1. StatusHistoryOk(rows) /\ rows \in Seq(StatusRow) /\ StatusOrder
  BY RowTypes DEF CycleInv, DatasetOk
<1>2. \A i \in DOMAIN rows : (rows[i].status = "occurred") <=> (rows[i].occurred # None)
  BY <1>1 DEF StatusHistoryOk
<1>3. \A i \in DOMAIN rows : rows[i].status = "occurred" => rows[i].occurred = disclosed
  BY <1>1 DEF StatusOrder
<1>4. \A i \in DOMAIN rows : rows[i].status = "occurred" => disclosed # None
  BY <1>2, <1>3
<1>5. ASSUME Occurred(rows)
      PROVE  /\ disclosed # None /\ disclosed \in Nat /\ disclosed \in Times
             /\ Last(rows).occurred = disclosed
             /\ EffectiveTime(rows) = disclosed
  <2>1. rows # <<>> /\ Len(rows) \in DOMAIN rows /\ Last(rows) = rows[Len(rows)]
    BY <1>1, <1>5 DEF Occurred, Last
  <2>2. Last(rows).occurred = disclosed /\ disclosed # None
    BY <1>3, <1>4, <1>5, <2>1 DEF Occurred
  <2>3. disclosed \in Times \cup {None}
    BY DEF CycleInv, CycleTypes
  <2>4. EffectiveTime(rows) = Last(rows).occurred
    BY <1>5, <2>1 DEF EffectiveTime
  <2> QED
    BY <2>2, <2>3, <2>4, RowTypes DEF CycleInv
<1> QED
  BY <1>4, <1>5

\* The company discloses: nothing had occurred in the rows before.
LEMMA DiscloseKeeps ==
  ASSUME CycleInv, Disclose
  PROVE  CycleInv'
<1>1. /\ disclosed = None /\ disclosed' = now
      /\ UNCHANGED <<bounds, now, dataset, hypothesis>>
      /\ UNCHANGED <<evaluations, trackings, reviews, carryover>>
  BY DEF Disclose, files
<1>2. /\ \A i \in DOMAIN dataset.statuses : dataset.statuses[i].status # "occurred"
      /\ ~Occurred(dataset.statuses)
  BY <1>1, OccurredIsDisclosed
<1>3. trackings = {} /\ reviews = {}
  BY <1>2 DEF CycleInv, TrackingInv, ReviewInv
<1>4. CycleTypes'
  BY <1>1 DEF CycleInv, CycleTypes, Dataset, Versions, Times, BaselineRow, EvidenceRow, ReviewRow,
              StatusRow, Evaluation, Tracking
<1>5. CycleClock' /\ StatusOrder'
  BY <1>1, <1>2, RowTypes DEF CycleInv, CycleClock, StatusOrder
<1>6. \A v : Judged(v) => Judged(v)'
  BY <1>1 DEF Judged, PreEventHypotheses, Evaluation, Times
<1>7. EvaluationInv' /\ TrackingInv' /\ ReviewInv'
  BY <1>1, <1>3, <1>6 DEF CycleInv, EvaluationInv, TrackingInv, ReviewInv
<1>8. CarryoverInv' /\ DatasetOk(dataset')
  BY <1>1 DEF CycleInv, CarryoverInv
<1> QED
  BY <1>4, <1>5, <1>7, <1>8 DEF CycleInv

\* A hypothesis is written or withdrawn: what is recorded stays, and what was locked
\* before the disclosure has the hypotheses it had.
LEMMA WorldKeeps ==
  ASSUME CycleInv, Hypothesize \/ Invalidate
  PROVE  CycleInv'
<1>1. /\ UNCHANGED <<bounds, now, disclosed, dataset>>
      /\ UNCHANGED <<evaluations, trackings, reviews, carryover>>
  BY DEF Hypothesize, Invalidate, world, files
<1>2. CycleTypes /\ BaselinesOk(dataset) /\ now \in Times
  BY DEF CycleInv, CycleTypes, DatasetOk
<1>3. /\ hypothesis' \in [created : Times \cup {None}, invalidated : Times \cup {None}]
      /\ hypothesis'.invalidated \in {hypothesis.invalidated, now}
      /\ \/ hypothesis'.created = hypothesis.created
         \/ hypothesis.created = None /\ hypothesis'.created = now
  BY <1>2 DEF Hypothesize, Invalidate, CycleTypes
<1>4. ASSUME NEW b \in dataset.baselines, Locked(b), disclosed # None, b.locked < disclosed
      PROVE  PreEventHypotheses(b)' = PreEventHypotheses(b)
  <2>1. b.locked \in Nat /\ disclosed \in Nat /\ now \in Nat /\ disclosed <= now
    BY <1>2, <1>4, LockedBaseline, RowTypes DEF CycleInv, CycleTypes, CycleClock
  <2>2. ~(now <= b.locked)
    BY <1>4, <2>1
  <2> QED
    BY <1>3, <2>2 DEF PreEventHypotheses
<1>5. CycleTypes'
  BY <1>1, <1>2, <1>3 DEF CycleTypes, Dataset, Versions, Times, BaselineRow, EvidenceRow,
                              ReviewRow, StatusRow, Evaluation, Tracking
<1>6. ASSUME NEW v, Judged(v) PROVE Judged(v)'
  <2>1. PICK b \in dataset.baselines :
          /\ b.version = v /\ Locked(b)
          /\ b.locked <= evaluations[v].at
          /\ \A h \in evaluations[v].hypotheses : h <= b.locked
          /\ b.locked < disclosed => evaluations[v].hypotheses = PreEventHypotheses(b)
    BY <1>6 DEF Judged
  <2>2. b.locked < disclosed => evaluations[v].hypotheses = PreEventHypotheses(b)'
    BY <1>4, <1>6, <2>1 DEF Judged
  <2> QED
    BY <1>1, <1>6, <2>1, <2>2 DEF Judged, Evaluation, Times
<1>7. EvaluationInv' /\ TrackingInv'
  BY <1>1, <1>6 DEF CycleInv, EvaluationInv, TrackingInv
<1>8. ReviewInv'
  <2>1. ASSUME NEW r \in reviews
        PROVE  \E b \in dataset.baselines :
                 /\ b.version = r.baseline /\ Locked(b)
                 /\ b.locked < r.tracking.announced
                 /\ \A h \in r.hypotheses : h <= b.locked
                 /\ r.hypotheses = PreEventHypotheses(b)'
    <3>1. r.tracking.announced = disclosed /\ disclosed # None
      BY OccurredIsDisclosed DEF CycleInv, ReviewInv, TrackingInv
    <3> QED
      BY <1>4, <3>1 DEF CycleInv, ReviewInv
  <2> QED
    BY <1>1, <2>1 DEF CycleInv, ReviewInv, Times
<1>9. CycleClock'
  BY <1>1, <1>3, RowTypes DEF CycleInv, CycleClock
<1>10. StatusOrder' /\ CarryoverInv' /\ DatasetOk(dataset')
  BY <1>1 DEF CycleInv, StatusOrder, CarryoverInv
<1> QED
  BY <1>5, <1>7, <1>8, <1>9, <1>10 DEF CycleInv

\* An evaluation takes only hypotheses from before the lock, and is made after it.
LEMMA EvaluateKeeps ==
  ASSUME CycleInv, NEW b \in dataset.baselines, Evaluate(b)
  PROVE  CycleInv'
<1>1. PICK status \in {"evaluated", "insufficient_data"} :
        evaluations' = [evaluations EXCEPT ![b.version] =
          [status |-> status, at |-> now, hypotheses |-> PreEventHypotheses(b)]]
  BY DEF Evaluate
<1> DEFINE e == [status |-> status, at |-> now, hypotheses |-> PreEventHypotheses(b)]
<1>2. /\ UNCHANGED <<bounds, now, disclosed, dataset, hypothesis>>
      /\ UNCHANGED <<trackings, reviews, carryover>> /\ Locked(b) /\ disclosed # None
  BY DEF Evaluate, Evaluable, ContextOk, world
<1>3. CycleTypes /\ BaselinesOk(dataset) /\ b \in BaselineRow /\ now \in Times
  BY RowTypes DEF CycleInv, CycleTypes, DatasetOk
<1>4. b.locked \in Nat /\ b.locked # None /\ b.locked <= now /\ b.version \in Versions
  BY <1>2, <1>3, LockedBaseline DEF BaselineRow, CycleInv, CycleClock
<1>5. PreEventHypotheses(b) \subseteq Times /\ \A h \in PreEventHypotheses(b) : h <= b.locked
  BY <1>3 DEF PreEventHypotheses, CycleTypes
<1>6. e \in Evaluation
  BY <1>3, <1>5 DEF Evaluation
<1>7. /\ evaluations' \in [Versions -> Evaluation \cup {None}]
      /\ evaluations'[b.version] = e /\ e.at = now /\ e.hypotheses = PreEventHypotheses(b)
      /\ \A v \in Versions : v # b.version => evaluations'[v] = evaluations[v]
  BY <1>1, <1>3, <1>4, <1>6 DEF CycleTypes
<1> HIDE DEF e
<1>8. Judged(b.version)'
  <2>1. evaluations'[b.version] \in Evaluation' /\ evaluations'[b.version].at <= now'
    BY <1>2, <1>3, <1>6, <1>7, RowTypes DEF Evaluation, Times
  <2>2. /\ b \in dataset'.baselines /\ b.locked <= evaluations'[b.version].at
        /\ \A h \in evaluations'[b.version].hypotheses : h <= b.locked
        /\ evaluations'[b.version].hypotheses = PreEventHypotheses(b)
        /\ PreEventHypotheses(b)' = PreEventHypotheses(b)
    BY <1>2, <1>4, <1>5, <1>7 DEF PreEventHypotheses
  <2> QED
    BY <1>2, <2>1, <2>2 DEF Judged
<1>9. \A v \in Versions : v # b.version /\ Judged(v) => Judged(v)'
  BY <1>2, <1>7 DEF Judged, PreEventHypotheses, Evaluation, Times
<1>10. CycleTypes'
  BY <1>2, <1>3, <1>7 DEF CycleTypes, Dataset, Versions, Times, BaselineRow, EvidenceRow,
                          ReviewRow, StatusRow, Evaluation, Tracking
<1>11. EvaluationInv'
  <2>1. DOMAIN evaluations = Versions /\ DOMAIN evaluations' = Versions
    BY <1>3, <1>7 DEF CycleTypes
  <2> QED
    BY <1>7, <1>8, <1>9, <2>1 DEF CycleInv, EvaluationInv
<1>12. TrackingInv'
  <2>1. \A t \in trackings : t.baseline \in Versions
    BY <1>3 DEF CycleTypes, Tracking
  <2>2. \A t \in trackings : Judged(t.baseline)'
    BY <1>8, <1>9, <2>1 DEF CycleInv, TrackingInv
  <2> QED
    BY <1>2, <2>2 DEF CycleInv, TrackingInv
<1>13. CycleClock' /\ StatusOrder' /\ ReviewInv' /\ CarryoverInv' /\ DatasetOk(dataset')
  BY <1>2 DEF CycleInv, CycleClock, StatusOrder, ReviewInv, CarryoverInv, PreEventHypotheses, Times
<1> QED
  BY <1>10, <1>11, <1>12, <1>13 DEF CycleInv

\* A snapshot has the status that the tracker derives from the bundle and the four
\* milestones, which the window and the two later closes determine.
LEMMA SnapshotStatus ==
  ASSUME NEW bundle \in [observed : SUBSET Roles, comparable : BOOLEAN], NEW v, NEW recorded
  PROVE  LET t == Snapshot(v, bundle, recorded) IN
         /\ t.milestones \in [Milestones -> {"observed", "pending", "not_comparable"}]
         /\ t.window \in {"calculated", "pending", "not_comparable"}
         /\ t.status \in {"complete", "tracking", "not_comparable"}
         /\ StatusInStages(t)
<1> DEFINE t == Snapshot(v, bundle, recorded)
           observed == bundle.observed
           reference == IF Intraday THEN "pre_announcement_reference" ELSE "pre_event_close"
<1>1. /\ t.milestones = [role \in Milestones |-> Milestone(bundle, role)]
      /\ t.window = EventWindow(bundle) /\ t.status = TrackingStatus(bundle)
  BY DEF Snapshot
<1>2. bundle.comparable \in BOOLEAN
  OBVIOUS
<1>3. ASSUME NEW role \in Milestones
      PROVE  /\ Milestone(bundle, role) \in {"observed", "pending", "not_comparable"}
             /\ Milestone(bundle, role) = "not_comparable" => ~bundle.comparable
             /\ Milestone(bundle, role) = "observed" <=>
                  role \in observed /\ bundle.comparable /\ "pre_event_close" \in observed
  BY <1>2 DEF Milestone
<1>4. /\ EventWindow(bundle) \in {"calculated", "pending", "not_comparable"}
      /\ EventWindow(bundle) = "not_comparable" <=> ~bundle.comparable
      /\ EventWindow(bundle) = "calculated" <=>
           /\ bundle.comparable
           /\ {reference, "immediate_post_announcement"} \subseteq observed
  BY <1>2 DEF EventWindow
<1>5. /\ TrackingStatus(bundle) \in {"complete", "tracking", "not_comparable"}
      /\ TrackingStatus(bundle) = "not_comparable" <=> ~bundle.comparable
      /\ TrackingStatus(bundle) = "complete" <=> bundle.comparable /\ Complete(bundle)
  BY <1>2 DEF TrackingStatus
<1>6. Complete(bundle) <=>
        /\ EventWindow(bundle) = "calculated"
        /\ Milestone(bundle, "next_business_day_close") = "observed"
        /\ Milestone(bundle, "fifth_business_day_close") = "observed"
  <2>1. /\ "next_business_day_close" \in Milestones /\ "fifth_business_day_close" \in Milestones
        /\ Milestones = {"pre_event_close", "immediate_post_announcement",
                         "next_business_day_close", "fifth_business_day_close"}
    BY DEF Milestones
  <2>2. Complete(bundle) <=>
          /\ \A role \in Milestones : Milestone(bundle, role) = "observed"
          /\ EventWindow(bundle) = "calculated"
    BY DEF Complete
  <2>3. ASSUME EventWindow(bundle) = "calculated",
               Milestone(bundle, "next_business_day_close") = "observed",
               Milestone(bundle, "fifth_business_day_close") = "observed"
        PROVE  \A role \in Milestones : Milestone(bundle, role) = "observed"
    <3>1. /\ bundle.comparable /\ "immediate_post_announcement" \in observed
          /\ "pre_event_close" \in observed /\ "next_business_day_close" \in observed
          /\ "fifth_business_day_close" \in observed
      BY <1>3, <1>4, <2>1, <2>3
    <3> QED
      BY <1>3, <2>1, <3>1
  <2> QED
    BY <2>1, <2>2, <2>3
<1>7. /\ "next_business_day_close" \in Milestones /\ "fifth_business_day_close" \in Milestones
      /\ \A role \in Milestones : t.milestones[role] = Milestone(bundle, role)
  BY <1>1 DEF Milestones
<1>8. t.milestones \in [Milestones -> {"observed", "pending", "not_comparable"}]
  BY <1>1, <1>3
<1> HIDE DEF t, observed, reference
<1>9. StatusInStages(t)
  BY <1>1, <1>3, <1>4, <1>5, <1>6, <1>7 DEF StatusInStages
<1> QED
  BY <1>1, <1>4, <1>5, <1>8, <1>9 DEF t

\* A snapshot is taken of what has occurred and was evaluated.
LEMMA TrackKeeps ==
  ASSUME CycleInv, NEW v \in DOMAIN evaluations, Track(v)
  PROVE  CycleInv'
<1>0. PICK bundle \in bounds.bundles, recorded \in Claims :
        trackings' = trackings \cup {Snapshot(v, bundle, recorded)}
  BY DEF Track
<1> DEFINE t == Snapshot(v, bundle, recorded)
<1>1. /\ UNCHANGED <<bounds, now, disclosed, dataset, hypothesis>>
      /\ UNCHANGED <<evaluations, reviews, carryover>>
      /\ trackings' = trackings \cup {t}
      /\ Occurred(dataset.statuses) /\ evaluations[v] # None
  BY <1>0 DEF Track, Trackable, world
<1>2. /\ CycleTypes /\ DOMAIN evaluations = Versions
      /\ recorded \in Times /\ recorded <= now
      /\ bundle \in [observed : SUBSET Roles, comparable : BOOLEAN]
  BY CycleAssumption, ClaimsType DEF CycleInv, CycleTypes
<1>3. disclosed \in Times /\ Last(dataset.statuses).occurred = disclosed
  BY <1>1, OccurredIsDisclosed
<1>4. Judged(v)
  BY <1>1 DEF CycleInv, EvaluationInv
<1>5. /\ t.baseline = v /\ t.announced = disclosed /\ t.completed \in {recorded, None}
      /\ StatusInStages(t)
      /\ t \in Tracking
  <2>1. /\ t.milestones \in [Milestones -> {"observed", "pending", "not_comparable"}]
        /\ t.window \in {"calculated", "pending", "not_comparable"}
        /\ t.status \in {"complete", "tracking", "not_comparable"}
        /\ StatusInStages(t)
    BY <1>2, SnapshotStatus
  <2>2. /\ t = [baseline |-> t.baseline, announced |-> t.announced, status |-> t.status,
                milestones |-> t.milestones, window |-> t.window, completed |-> t.completed]
        /\ t.baseline = v /\ t.announced = disclosed /\ t.completed \in {recorded, None}
    BY <1>3 DEF Snapshot
  <2> HIDE DEF t
  <2> QED
    BY <1>2, <1>3, <2>1, <2>2 DEF Tracking
<1> HIDE DEF t
<1>6. \A w : Judged(w) => Judged(w)'
  BY <1>1 DEF Judged, PreEventHypotheses, Evaluation, Times
<1>7. CycleTypes'
  BY <1>1, <1>2, <1>5 DEF CycleTypes, Dataset, Versions, Times, BaselineRow, EvidenceRow,
                          ReviewRow, StatusRow, Evaluation, Tracking
<1>8. TrackingInv'
  <2>1. /\ Occurred(dataset.statuses) /\ t.announced = disclosed /\ Judged(t.baseline)
        /\ t.completed # None => t.completed <= now
        /\ StatusInStages(t)
    BY <1>1, <1>2, <1>4, <1>5
  <2> QED
    BY <1>1, <1>6, <2>1 DEF CycleInv, TrackingInv
<1>9. EvaluationInv'
  BY <1>1, <1>6 DEF CycleInv, EvaluationInv
<1>10. CycleClock' /\ StatusOrder' /\ ReviewInv' /\ CarryoverInv' /\ DatasetOk(dataset')
  BY <1>1 DEF CycleInv, CycleClock, StatusOrder, ReviewInv, CarryoverInv, PreEventHypotheses, Times
<1> QED
  BY <1>7, <1>8, <1>9, <1>10 DEF CycleInv

\* The baseline a tracked evaluation was made from.
LEMMA TrackedBaseline ==
  ASSUME CycleInv, NEW t \in trackings
  PROVE  /\ t \in Tracking /\ evaluations[t.baseline] \in Evaluation
         /\ Baseline(t.baseline) \in dataset.baselines
         /\ Baseline(t.baseline).version = t.baseline
         /\ Locked(Baseline(t.baseline))
         /\ Baseline(t.baseline).locked <= evaluations[t.baseline].at
         /\ \A h \in evaluations[t.baseline].hypotheses : h <= Baseline(t.baseline).locked
         /\ Baseline(t.baseline).locked < disclosed =>
              evaluations[t.baseline].hypotheses = PreEventHypotheses(Baseline(t.baseline))
         /\ evaluations[t.baseline].at <= now
<1>1. Judged(t.baseline) /\ t \in Tracking /\ BaselinesOk(dataset)
  BY DEF CycleInv, TrackingInv, CycleTypes, DatasetOk
<1>2. PICK b \in dataset.baselines :
        /\ b.version = t.baseline /\ Locked(b)
        /\ b.locked <= evaluations[t.baseline].at
        /\ \A h \in evaluations[t.baseline].hypotheses : h <= b.locked
        /\ b.locked < disclosed =>
             evaluations[t.baseline].hypotheses = PreEventHypotheses(b)
  BY <1>1 DEF Judged
<1>3. Baseline(t.baseline) = b
  BY <1>1, <1>2, BaselineIs
<1> QED
  BY <1>1, <1>2, <1>3 DEF Judged

\* A review is written after everything it rests on.
LEMMA ReviewKeeps ==
  ASSUME CycleInv, Review
  PROVE  CycleInv'
<1>1. PICK t \in trackings, reviewed \in Claims :
        \E previous \in {None} \cup {r \in reviews : r.baseline = t.baseline} :
          ReviewFrom(t, previous, reviewed)
  BY DEF Review
<1>2. PICK previous \in {None} \cup {r \in reviews : r.baseline = t.baseline} :
        ReviewFrom(t, previous, reviewed)
  BY <1>1
<1> DEFINE e == evaluations[t.baseline]
           b == Baseline(t.baseline)
           r == [version |-> IF previous = None THEN 1 ELSE previous.version + 1,
                 supersedes |-> previous, baseline |-> t.baseline, tracking |-> t,
                 hypotheses |-> e.hypotheses, reviewed |-> reviewed,
                 status |-> ReviewState(MarketStages(t))]
<1>3. /\ UNCHANGED <<bounds, now, disclosed, dataset, hypothesis>>
      /\ UNCHANGED <<evaluations, trackings, carryover>>
  BY DEF Review, world
<1>4. /\ TimesOk(e, t, b, reviewed) /\ Follows(previous, reviewed)
      /\ \A s \in SourceTimes(e, t, b) \ {None} : s <= reviewed
      /\ reviews' = reviews \cup {r}
  BY <1>2 DEF ReviewFrom
<1>5. /\ r.supersedes = previous /\ r.baseline = t.baseline /\ r.tracking = t
      /\ r.hypotheses = e.hypotheses /\ r.reviewed = reviewed
      /\ r.status = ReviewState(MarketStages(t))
  OBVIOUS
<1> HIDE DEF r
<1>6. /\ t \in Tracking /\ e \in Evaluation /\ b \in dataset.baselines
      /\ b.version = t.baseline /\ Locked(b) /\ \A h \in e.hypotheses : h <= b.locked
      /\ b.locked < disclosed => e.hypotheses = PreEventHypotheses(b)
      /\ t.announced = disclosed
  BY TrackedBaseline DEF CycleInv, TrackingInv
<1> HIDE DEF e, b
<1>7. reviewed \in Times /\ e.hypotheses \subseteq Times /\ t.announced \in Times
      /\ Times \subseteq Nat
  BY <1>6, ClaimsType, RowTypes DEF Evaluation, Tracking, CycleInv
<1>8. /\ t.announced <= reviewed /\ b.locked < t.announced
      /\ t.completed # None => t.completed <= reviewed
  BY <1>4, <1>7 DEF TimesOk, SourceTimes
<1>9. /\ previous \in reviews \cup {None}
      /\ previous # None => previous.reviewed < reviewed
  <2>1. previous \in reviews \cup {None}
    BY <1>2
  <2>2. previous \in reviews => previous.reviewed \in Nat
    BY <1>7 DEF CycleInv, ReviewInv
  <2> QED
    BY <1>4, <1>7, <2>1, <2>2 DEF Follows
<1>10. ReviewInv'
  <2>1. /\ r.tracking \in trackings /\ r.supersedes \in reviews \cup {None}
        /\ r.reviewed \in Times /\ r.hypotheses \subseteq Times
        /\ r.status = ReviewState(MarketStages(r.tracking))
        /\ r.tracking.baseline = r.baseline
        /\ r.tracking.announced <= r.reviewed
        /\ r.tracking.completed # None => r.tracking.completed <= r.reviewed
        /\ r.supersedes # None => r.supersedes.reviewed < r.reviewed
        /\ \E c \in dataset.baselines :
             /\ c.version = r.baseline /\ Locked(c)
             /\ c.locked < r.tracking.announced
             /\ \A h \in r.hypotheses : h <= c.locked
             /\ r.hypotheses = PreEventHypotheses(c)
    BY <1>5, <1>6, <1>7, <1>8, <1>9
  <2> QED
    BY <1>3, <1>4, <2>1 DEF CycleInv, ReviewInv, PreEventHypotheses, Times
<1>11. \A w : Judged(w) => Judged(w)'
  BY <1>3 DEF Judged, PreEventHypotheses, Evaluation, Times
<1>12. EvaluationInv' /\ TrackingInv'
  BY <1>3, <1>11 DEF CycleInv, EvaluationInv, TrackingInv
<1>13. CycleTypes'
  BY <1>3 DEF CycleInv, CycleTypes, Dataset, Versions, Times, BaselineRow, EvidenceRow,
              ReviewRow, StatusRow, Evaluation, Tracking
<1>14. CycleClock' /\ StatusOrder' /\ CarryoverInv' /\ DatasetOk(dataset')
  BY <1>3, <1>4 DEF CycleInv, CycleClock, StatusOrder, CarryoverInv
<1> QED
  BY <1>10, <1>12, <1>13, <1>14 DEF CycleInv

\* The context of the next baseline is prepared from reviews of its past.
LEMMA CarryOverKeeps ==
  ASSUME CycleInv, CarryOver
  PROVE  CycleInv'
<1>1. PICK R \in SUBSET reviews, prepared \in Claims :
        /\ NotLater(R, prepared)
        /\ carryover' = [reviews |-> R, prepared |-> prepared]
  BY DEF CarryOver
<1>2. /\ UNCHANGED <<bounds, now, disclosed, dataset, hypothesis>>
      /\ UNCHANGED <<evaluations, trackings, reviews>>
  BY DEF CarryOver, world
<1>3. CarryoverInv'
  BY <1>1, <1>2 DEF CarryoverInv, NotLater
<1>4. \A w : Judged(w) => Judged(w)'
  BY <1>2 DEF Judged, PreEventHypotheses, Evaluation, Times
<1>5. EvaluationInv' /\ TrackingInv'
  BY <1>2, <1>4 DEF CycleInv, EvaluationInv, TrackingInv
<1>6. CycleTypes'
  BY <1>2 DEF CycleInv, CycleTypes, Dataset, Versions, Times, BaselineRow, EvidenceRow,
              ReviewRow, StatusRow, Evaluation, Tracking
<1>7. CycleClock' /\ StatusOrder' /\ ReviewInv' /\ DatasetOk(dataset')
  BY <1>2 DEF CycleInv, CycleClock, StatusOrder, ReviewInv, PreEventHypotheses, Times
<1> QED
  BY <1>3, <1>5, <1>6, <1>7 DEF CycleInv

\* Every step keeps the invariant.
LEMMA CycleStep == CycleInv /\ [CycleNext]_cycleVars => CycleInv'
<1> SUFFICES ASSUME CycleInv, [CycleNext]_cycleVars PROVE CycleInv'
  OBVIOUS
<1>1. CASE Tick
  BY <1>1, CycleTickKeeps
<1>2. CASE Disclose
  BY <1>2, DiscloseKeeps
<1>3. CASE Hypothesize \/ Invalidate
  BY <1>3, WorldKeeps
<1>4. CASE AddStatus
  BY <1>4, AddStatusKeeps
<1>5. CASE AddDraft \/ DropDraft
  BY <1>5, DraftKeeps
<1>6. CASE LockBaseline
  BY <1>6, LockKeeps
<1>7. CASE AddEvidence \/ AddReview
  BY <1>7, NoteKeeps
<1>8. ASSUME NEW b \in dataset.baselines, Evaluate(b) PROVE CycleInv'
  BY <1>8, EvaluateKeeps
<1>9. ASSUME NEW v \in DOMAIN evaluations, Track(v) PROVE CycleInv'
  BY <1>9, TrackKeeps
<1>10. CASE Review
  BY <1>10, ReviewKeeps
<1>11. CASE CarryOver
  BY <1>11, CarryOverKeeps
<1>12. CASE UNCHANGED cycleVars
  <2>1. /\ UNCHANGED <<bounds, now, disclosed, dataset, hypothesis>>
        /\ UNCHANGED <<evaluations, trackings, reviews, carryover>>
    BY <1>12 DEF cycleVars, world, files
  <2>2. \A w : Judged(w) => Judged(w)'
    BY <2>1 DEF Judged, PreEventHypotheses, Evaluation, Times
  <2>3. EvaluationInv' /\ TrackingInv'
    BY <2>1, <2>2 DEF CycleInv, EvaluationInv, TrackingInv
  <2>4. CycleTypes'
    BY <2>1 DEF CycleInv, CycleTypes, Dataset, Versions, Times, BaselineRow, EvidenceRow,
                ReviewRow, StatusRow, Evaluation, Tracking
  <2>5. CycleClock' /\ StatusOrder' /\ ReviewInv' /\ CarryoverInv' /\ DatasetOk(dataset')
    BY <2>1 DEF CycleInv, CycleClock, StatusOrder, ReviewInv, CarryoverInv, PreEventHypotheses, Times
  <2> QED
    BY <2>3, <2>4, <2>5 DEF CycleInv
<1> QED
  BY <1>1, <1>2, <1>3, <1>4, <1>5, <1>6, <1>7, <1>8, <1>9, <1>10, <1>11, <1>12 DEF CycleNext

-----------------------------------------------------------------------------
(***************************************************************************)
(* What follows from it.                                                   *)
(***************************************************************************)
\* The rows and files of an event have their shape, the rows pass the rules of
\* validate_dataset, and what was derived from them is still founded in them.
THEOREM CycleInvHolds == CycleSpec => []CycleInv
BY CycleStart, CycleStep, PTL DEF CycleSpec

\* Rows and files of the invariant's shape are of the property's.
LEMMA CycleInvTyped == CycleInv => CycleTypeOK
<1> SUFFICES ASSUME CycleInv PROVE CycleTypeOK
  OBVIOUS
<1>1. CycleTypes /\ BaselinesOk(dataset) /\ dataset.baselines \subseteq BaselineRow
      /\ \A k \in DOMAIN dataset.statuses : dataset.statuses[k] \in StatusRow
  BY RowTypes DEF CycleInv, DatasetOk
<1>2. \A b \in dataset.baselines :
        IF Locked(b) THEN b.locked \in Times /\ b.reviewed \in Times ELSE b.locked = None
  <2>1. TAKE b \in dataset.baselines
  <2>2. ~Locked(b) => b.status = "draft"
    BY <1>1 DEF Locked, BaselineRow
  <2>3. b.status = "draft" => b.locked = None
    BY <1>1 DEF BaselinesOk, DraftOk
  <2> QED
    BY <1>1, <2>2, <2>3, LockedBaseline
<1>3. \A v \in DOMAIN evaluations : evaluations[v] # None =>
        evaluations[v].at \in Times /\ evaluations[v].hypotheses \subseteq Times
  BY <1>1 DEF CycleTypes, Evaluation
<1>4. \A t \in trackings : DOMAIN t.milestones = Milestones /\ t.completed \in Times \cup {None}
  BY <1>1 DEF CycleTypes, Tracking
<1>5. \A r \in reviews : r.tracking \in trackings /\ r.supersedes \in reviews \cup {None}
  BY DEF CycleInv, ReviewInv
<1>6. \A k \in DOMAIN dataset.statuses : dataset.statuses[k].recorded \in Times
  BY <1>1 DEF StatusRow
<1> QED
  BY <1>1, <1>2, <1>3, <1>4, <1>5, <1>6 DEF CycleTypes, CycleTypeOK

\* Every time in a row or a file is one of the clock, and every file names rows
\* and files that are there.
THEOREM CycleTyped == CycleSpec => []CycleTypeOK
BY CycleInvTyped, CycleInvHolds, PTL

\* review-post-event and track-market-reaction: the tracker derives whether the
\* prices are final or not comparable from the bundle and all four milestones, the
\* reviewer from the window and two of them, awaited and not comparable ones mixed,
\* and they never disagree.
THEOREM ReviewAgreesWithTracking == CycleSpec => []ReviewStateMatchesTracking
<1>1. CycleInv => ReviewStateMatchesTracking
  <2> SUFFICES ASSUME CycleInv, NEW r \in reviews
               PROVE  /\ (r.status = "complete") <=> (r.tracking.status = "complete")
                      /\ (r.status = "blocked") <=> (r.tracking.status = "not_comparable")
    BY DEF ReviewStateMatchesTracking
  <2> DEFINE t      == r.tracking
             next   == t.milestones["next_business_day_close"]
             fifth  == t.milestones["fifth_business_day_close"]
             stages == MarketStages(t)
  <2>1. t \in trackings /\ t \in Tracking /\ r.status = ReviewState(stages)
    BY DEF CycleInv, ReviewInv, CycleTypes
  <2>2. StatusInStages(t)
    BY <2>1 DEF CycleInv, TrackingInv
  <2>3. /\ "next_business_day_close" \in Milestones /\ "fifth_business_day_close" \in Milestones
        /\ t.window \in {"calculated", "pending", "not_comparable"}
        /\ next \in {"observed", "pending", "not_comparable"}
        /\ fifth \in {"observed", "pending", "not_comparable"}
    BY <2>1 DEF Tracking, Milestones
  <2>4. stages = {IF x \in {"calculated", "observed"} THEN "complete" ELSE x :
                    x \in {t.window, next, fifth}}
    BY DEF MarketStages
  <2> HIDE DEF t, next, fifth, stages
  <2>5. /\ "not_comparable" \in stages <=>
             "not_comparable" \in {t.window, next, fifth}
        /\ "pending" \in stages <=> "pending" \in {t.window, next, fifth}
    BY <2>3, <2>4
  <2>6. /\ "not_comparable" \in stages => ReviewState(stages) = "blocked"
        /\ "not_comparable" \notin stages /\ "pending" \in stages =>
             ReviewState(stages) = "provisional"
        /\ "not_comparable" \notin stages /\ "pending" \notin stages =>
             ReviewState(stages) = "complete"
    BY DEF ReviewState
  <2>7. /\ "not_comparable" \in stages <=> t.status = "not_comparable"
        /\ "not_comparable" \notin stages /\ "pending" \notin stages <=> t.status = "complete"
    BY <2>2, <2>3, <2>5 DEF StatusInStages, next, fifth
  <2> QED
    BY <2>1, <2>6, <2>7 DEF t
<1> QED
  BY <1>1, CycleInvHolds, PTL

\* The baseline of a review, as it was when the review was written.
LEMMA ReviewedBaseline ==
  ASSUME CycleInv, NEW r \in reviews
  PROVE  /\ Baseline(r.baseline) \in dataset.baselines /\ Locked(Baseline(r.baseline))
         /\ Baseline(r.baseline).locked < r.tracking.announced
         /\ \A h \in r.hypotheses : h <= Baseline(r.baseline).locked
         /\ r.hypotheses = PreEventHypotheses(Baseline(r.baseline))
<1>1. PICK b \in dataset.baselines :
        /\ b.version = r.baseline /\ Locked(b) /\ b.locked < r.tracking.announced
        /\ \A h \in r.hypotheses : h <= b.locked
        /\ r.hypotheses = PreEventHypotheses(b)
  BY DEF CycleInv, ReviewInv
<1>2. Baseline(r.baseline) = b
  BY <1>1, BaselineIs DEF CycleInv, DatasetOk
<1> QED
  BY <1>1, <1>2

\* validate_dataset, evaluate-earnings and review-post-event together: a review
\* judges nothing as a forecast that was written with the disclosure at hand.
THEOREM ForecastsPrecedeDisclosure == CycleSpec => []ForecastPrecedesDisclosure
<1>1. CycleInv => ForecastPrecedesDisclosure
  <2> SUFFICES ASSUME CycleInv, NEW r \in reviews
               PROVE  LET b == Baseline(r.baseline) IN
                      /\ b.locked < disclosed
                      /\ \A x \in EvidenceOf(dataset.evidence, b) : x.recorded < disclosed
                      /\ \A h \in r.hypotheses : h < disclosed
    BY DEF ForecastPrecedesDisclosure
  <2> DEFINE b == Baseline(r.baseline)
  <2>1. /\ b \in dataset.baselines /\ Locked(b) /\ b.locked < r.tracking.announced
        /\ \A h \in r.hypotheses : h <= b.locked
    BY ReviewedBaseline
  <2>2. r.tracking \in trackings /\ r.hypotheses \subseteq Times
    BY DEF CycleInv, ReviewInv
  <2>3. r.tracking.announced = disclosed /\ disclosed \in Nat
    BY <2>2, OccurredIsDisclosed DEF CycleInv, TrackingInv
  <2> HIDE DEF b
  <2>4. b.locked \in Nat
    BY <2>1, LockedBaseline DEF CycleInv, DatasetOk
  <2>5. BaselineEvidenceOk(dataset.evidence, b)
    BY <2>1 DEF CycleInv, DatasetOk, BaselinesOk
  <2>6. \A x \in EvidenceOf(dataset.evidence, b) : x.recorded <= b.locked
    BY <2>1, <2>5 DEF BaselineEvidenceOk, Locked
  <2>7. \A x \in EvidenceOf(dataset.evidence, b) : x.recorded \in Nat
    BY RowTypes DEF EvidenceOf, EvidenceRow, CycleInv
  <2>8. Times \subseteq Nat
    BY RowTypes DEF CycleInv
  <2>9. /\ b.locked < disclosed
        /\ \A x \in EvidenceOf(dataset.evidence, b) : x.recorded < disclosed
        /\ \A h \in r.hypotheses : h < disclosed
    <3>1. b.locked < disclosed
      BY <2>1, <2>3
    <3>2. ASSUME NEW x \in EvidenceOf(dataset.evidence, b) PROVE x.recorded < disclosed
      BY <2>3, <2>4, <2>6, <2>7, <3>1
    <3>3. ASSUME NEW h \in r.hypotheses PROVE h < disclosed
      <4>1. h \in Nat /\ h <= b.locked
        BY <2>1, <2>2, <2>8
      <4> QED
        BY <2>3, <2>4, <3>1, <4>1
    <3> QED
      BY <3>1, <3>2, <3>3
  <2> QED
    BY <2>9 DEF b
<1> QED
  BY <1>1, CycleInvHolds, PTL

\* evaluate-earnings run again replaces the evaluation a review rests on, but the
\* hypotheses it judges stay: those of the time of the lock, whatever was written or
\* withdrawn since.
LEMMA RerunsJudgeTheSame ==
  ASSUME CycleInv, NEW r \in reviews
  PROVE  evaluations[r.baseline].hypotheses = r.hypotheses
<1> DEFINE t == r.tracking
<1>1. t \in trackings /\ t.baseline = r.baseline /\ t.announced = disclosed
  BY DEF CycleInv, ReviewInv, TrackingInv
<1>2. /\ Baseline(r.baseline).locked < disclosed
      /\ r.hypotheses = PreEventHypotheses(Baseline(r.baseline))
  BY <1>1, ReviewedBaseline
<1> QED
  BY <1>1, <1>2, TrackedBaseline

\* prepare-baseline-carryover: whatever versions of reviews it is given, the next
\* baseline learns only from what lies before its context, in the order forecast,
\* disclosure, prices, review; and what each review judged is what its evaluation,
\* replaced since or not, judges.
THEOREM CarryoversRestOnPast == CycleSpec => []CarryoverRestsOnPast
<1>1. CycleInv => CarryoverRestsOnPast
  <2> SUFFICES ASSUME CycleInv, carryover # None, NEW r \in carryover.reviews
               PROVE  /\ r.reviewed <= carryover.prepared
                      /\ Baseline(r.baseline).locked < r.tracking.announced
                      /\ r.tracking.announced <= r.reviewed
                      /\ r.tracking.completed # None => r.tracking.completed <= r.reviewed
                      /\ r.supersedes # None => r.supersedes.reviewed < r.reviewed
                      /\ evaluations[r.baseline].hypotheses = r.hypotheses
    BY DEF CarryoverRestsOnPast
  <2>1. r \in reviews /\ r.reviewed <= carryover.prepared
    BY DEF CycleInv, CarryoverInv
  <2> QED
    BY <2>1, ReviewedBaseline, RerunsJudgeTheSame DEF CycleInv, ReviewInv
<1> QED
  BY <1>1, CycleInvHolds, PTL

\* review-post-event accepts what evaluate-earnings and track-market-reaction made,
\* unless a hypothesis was withdrawn before the lock.
THEOREM TrackedEventsCanBeReviewed == CycleSpec => []TrackedEventCanBeReviewed
<1>1. CycleInv => TrackedEventCanBeReviewed
  <2> SUFFICES ASSUME CycleInv, NEW t \in trackings,
                      hypothesis.invalidated # None =>
                        hypothesis.invalidated > Baseline(t.baseline).locked
               PROVE  LET e == evaluations[t.baseline]
                          b == Baseline(t.baseline) IN
                      /\ TimesOk(e, t, b, now)
                      /\ ResolvedOk(e, b)
                      /\ \A s \in SourceTimes(e, t, b) \ {None} : s <= now
    BY DEF TrackedEventCanBeReviewed
  <2> DEFINE e == evaluations[t.baseline]
             b == Baseline(t.baseline)
  <2>1. /\ t \in Tracking /\ e \in Evaluation /\ b \in dataset.baselines /\ Locked(b)
        /\ b.locked <= e.at /\ e.at <= now /\ \A h \in e.hypotheses : h <= b.locked
    BY TrackedBaseline
  <2>2. hypothesis.invalidated # None => hypothesis.invalidated > b.locked
    OBVIOUS
  <2> HIDE DEF e, b
  <2>3. /\ Occurred(dataset.statuses) /\ t.announced = disclosed
        /\ t.completed # None => t.completed <= now
    BY DEF CycleInv, TrackingInv
  <2>4. /\ disclosed \in Nat /\ disclosed # None /\ disclosed <= now /\ now \in Nat
        /\ EffectiveTime(dataset.statuses) = disclosed /\ Times \subseteq Nat
    BY <2>3, OccurredIsDisclosed, RowTypes DEF CycleInv, CycleClock
  <2>5. /\ b.locked \in Nat /\ b.locked # None /\ b.asOf \in Nat /\ b.asOf <= b.locked
    BY <2>1, LockedBaseline DEF CycleInv, DatasetOk
  <2>6. b.locked < disclosed
    BY <2>1, <2>4, <2>5 DEF CycleInv, DatasetOk, TemporalOk
  <2>7. e.at \in Nat /\ e.hypotheses \subseteq Nat
    BY <2>1, <2>4 DEF Evaluation
  <2>8. TimesOk(e, t, b, now)
    BY <2>1, <2>3, <2>4, <2>6 DEF TimesOk
  <2>9. ResolvedOk(e, b)
    BY <2>1, <2>2 DEF ResolvedOk
  <2>10. \A s \in SourceTimes(e, t, b) \ {None} : s <= now
    <3>1. hypothesis.invalidated # None => hypothesis.invalidated <= now
      BY DEF CycleInv, CycleClock
    <3> QED
      BY <2>1, <2>3, <2>4, <2>5, <2>7, <3>1 DEF SourceTimes
  <2> QED
    BY <2>8, <2>9, <2>10 DEF e, b
<1> QED
  BY <1>1, CycleInvHolds, PTL

\* A history that was postponed and then occurred ends with its last postponement
\* and the occurrence.
LEMMA LastBeforeOccurrence ==
  ASSUME NEW rows \in Seq(StatusRow), StatusHistoryOk(rows), Occurred(rows),
         NEW i \in DOMAIN rows, rows[i].status = "postponed"
  PROVE  /\ Len(rows) - 1 \in DOMAIN rows
         /\ rows[Len(rows) - 1].status = "postponed"
         /\ i \in 1 .. Len(rows) - 1
<1> DEFINE n == Len(rows)
           m == n - 1
<1>1. /\ n \in Nat /\ DOMAIN rows = 1 .. n /\ rows # <<>> /\ n \in DOMAIN rows
      /\ rows[n].status = "occurred"
  BY DEF Occurred, Last
<1>2. rows[1].status = "scheduled"
  BY <1>1 DEF StatusHistoryOk, InitialStatusOk
<1>3. i # n /\ i # 1 /\ n # 1 /\ m \in DOMAIN rows /\ i \in 1 .. m /\ m \in Nat /\ m >= 2
  BY <1>1, <1>2
<1>4. SupersedingStatusOk(rows[m], rows[n])
  BY <1>1, <1>3, StatusStep
<1>5. rows[m].status \in {"scheduled", "postponed", "cancelled", "occurred"}
  <2>1. rows[m] \in StatusRow
    BY <1>3
  <2> QED
    BY <2>1 DEF StatusRow
<1>6. rows[m].status \in {"scheduled", "postponed"}
  BY <1>1, <1>4, <1>5 DEF SupersedingStatusOk, AllowedTransitions
<1>7. rows[m].status # "scheduled"
  <2> DEFINE k == m - 1
  <2>1. k \in DOMAIN rows /\ m # 1
    BY <1>1, <1>3
  <2>2. SupersedingStatusOk(rows[k], rows[m])
    <3>1. k = m - 1
      OBVIOUS
    <3> HIDE DEF k, m
    <3> QED
      BY <1>3, <2>1, <3>1, StatusStep
  <2>3. rows[k].status \in {"scheduled", "postponed", "cancelled", "occurred"}
    <3>1. rows[k] \in StatusRow
      BY <2>1
    <3> QED
      BY <3>1 DEF StatusRow
  <2> QED
    BY <2>2, <2>3 DEF SupersedingStatusOk, AllowedTransitions
<1> QED
  BY <1>3, <1>6, <1>7

\* The postponement gate of validate_dataset: an event that occurred after any number
\* of postponements had one forecast in force, approved after the last of them and
\* locked before the disclosure.
THEOREM PostponementsReviewed == CycleSpec => []PostponementReviewed
<1>1. CycleInv => PostponementReviewed
  <2> DEFINE rows  == dataset.statuses
             n     == Len(rows)
             tails == CurrentTails(dataset.baselines)
  <2> SUFFICES ASSUME CycleInv, Occurred(rows),
                      NEW p \in DOMAIN rows, rows[p].status = "postponed"
               PROVE  \E b \in dataset.baselines :
                        /\ Locked(b) /\ b.locked < disclosed
                        /\ \A c \in dataset.baselines \ {b} :
                             \E successor \in dataset.baselines : successor.supersedes = c.version
                        /\ \A i \in {k \in DOMAIN rows : rows[k].status = "postponed"} :
                             b.reviewed >= rows[i].recorded
    BY DEF PostponementReviewed
  <2>1. /\ rows \in Seq(StatusRow) /\ StatusHistoryOk(rows) /\ PostponementGateOk(dataset)
        /\ TemporalOk(dataset) /\ BaselinesOk(dataset) /\ CycleTypes
        /\ IsFiniteSet(dataset.baselines)
    BY RowTypes DEF CycleInv, DatasetOk, CycleTypes
  <2>2. n - 1 \in DOMAIN rows /\ rows[n - 1].status = "postponed"
    BY <2>1, LastBeforeOccurrence
  <2>3. /\ Cardinality(tails) = 1
        /\ \A b \in tails : b.status = "locked" /\ b.reviewed >= rows[n - 1].recorded
    BY <2>1, <2>2 DEF PostponementGateOk, ReviewedSince
  <2>4. IsFiniteSet(tails) /\ tails \subseteq dataset.baselines
    BY <2>1, FS_Subset DEF CurrentTails
  <2>5. PICK b : tails = {b}
    BY <2>3, <2>4, FS_Singleton
  <2>6. b \in dataset.baselines /\ Locked(b) /\ b.reviewed >= rows[n - 1].recorded
    BY <2>3, <2>4, <2>5 DEF Locked
  <2>7. b.locked \in Nat /\ b.locked # None /\ b.reviewed \in Nat
    BY <2>1, <2>6, LockedBaseline
  <2>8. b.locked < disclosed
    BY <2>1, <2>6, <2>7, OccurredIsDisclosed DEF TemporalOk
  <2>9. \A c \in dataset.baselines \ {b} :
          \E successor \in dataset.baselines : successor.supersedes = c.version
    BY <2>5 DEF CurrentTails
  <2>10. ASSUME NEW i \in DOMAIN rows, rows[i].status = "postponed"
         PROVE  b.reviewed >= rows[i].recorded
    <3>1. i \in 1 .. n - 1
      BY <2>1, <2>10, LastBeforeOccurrence
    <3>2. rows[i].recorded \in Nat /\ rows[n - 1].recorded \in Nat
      <4>1. rows[i] \in StatusRow /\ rows[n - 1] \in StatusRow
        BY <2>1, <2>2
      <4> QED
        BY <2>1, <4>1, RowTypes DEF StatusRow
    <3>3. i = n - 1 \/ rows[i].recorded < rows[n - 1].recorded
      <4>1. n \in Nat
        BY <2>1
      <4>2. i = n - 1 \/ i \in 1 .. (n - 1) - 1
        BY <3>1, <4>1
      <4> QED
        BY <2>2, <4>2 DEF CycleInv, StatusOrder
    <3> QED
      BY <2>6, <2>7, <3>2, <3>3
  <2> QED
    BY <2>6, <2>8, <2>9, <2>10
<1> QED
  BY <1>1, CycleInvHolds, PTL

\* The lifecycle never gets stuck: whatever the analyst recorded before, the rules of
\* validate_dataset admit a disclosure as the occurrence of the open event, when the
\* forecasts were finished before it and approved anew after a postponement.
THEOREM OpenEventsCanOccur == CycleSpec => []OpenEventCanOccur
<1>1. CycleInv => OpenEventCanOccur
  <2> DEFINE rows == dataset.statuses
             n    == Len(rows)
             last == Last(rows)
             r    == [status |-> "occurred", supersedes |-> Len(rows),
                      scheduled |-> last.scheduled, previous |-> None,
                      occurred |-> disclosed, recorded |-> now]
             d    == [dataset EXCEPT !.statuses = Append(@, r)]
  <2> SUFFICES ASSUME CycleInv, disclosed # None, rows # <<>>,
                      last.status \in {"scheduled", "postponed"}, last.recorded < now,
                      \A b \in dataset.baselines :
                        b.asOf < disclosed /\ (Locked(b) => b.locked < disclosed),
                      last.status = "postponed" =>
                        \E b \in dataset.baselines :
                          /\ CurrentTails(dataset.baselines) = {b} /\ Locked(b)
                          /\ b.reviewed >= last.recorded
               PROVE  DatasetOk(d)
    BY DEF OpenEventCanOccur
  <2>1. /\ CycleTypes /\ DatasetOk(dataset) /\ dataset \in Dataset /\ rows \in Seq(StatusRow)
        /\ disclosed \in Nat /\ disclosed <= now /\ now \in Nat /\ Times \subseteq Nat
    BY RowTypes DEF CycleInv, CycleTypes, CycleClock
  <2>2. /\ n \in Nat /\ n >= 1 /\ DOMAIN rows = 1 .. n /\ last = rows[n]
        /\ last \in StatusRow
    BY <2>1 DEF Last
  <2> DEFINE longer == Append(rows, r)
  <2>3. /\ Len(longer) = n + 1 /\ DOMAIN longer = 1 .. n + 1 /\ longer # <<>>
        /\ \A i \in 1 .. n : longer[i] = rows[i]
        /\ longer[n + 1] = r
    BY <2>1, <2>2
  <2>4. /\ d.statuses = longer /\ d.baselines = dataset.baselines
        /\ d.evidence = dataset.evidence /\ d.reviews = dataset.reviews
    BY <2>1 DEF Dataset
  <2>5. /\ r.status = "occurred" /\ r.supersedes = n /\ r.scheduled = last.scheduled
        /\ r.previous = None /\ r.occurred = disclosed /\ r.recorded = now
    OBVIOUS
  <2> HIDE DEF r, longer, d
  <2>6. StatusHistoryOk(longer)
    <3>1. ASSUME NEW i \in 1 .. n
          PROVE  LET x == longer[i] IN
                 /\ (x.status = "occurred") <=> (x.occurred # None)
                 /\ x.occurred # None => x.occurred <= x.recorded
                 /\ x.supersedes = i - 1
                 /\ IF i = 1 THEN InitialStatusOk(x) ELSE SupersedingStatusOk(longer[i - 1], x)
      <4>1. i # 1 => longer[i - 1] = rows[i - 1]
        BY <2>2, <2>3
      <4> QED
        BY <2>1, <2>2, <2>3, <4>1 DEF DatasetOk, StatusHistoryOk
    <3>2. last.status \in {"scheduled", "postponed"} => r.status \in AllowedTransitions[last.status]
      BY <2>5 DEF AllowedTransitions
    <3>3. last.recorded \in Nat
      BY <2>1, <2>2 DEF StatusRow
    <3>4. SupersedingStatusOk(rows[n], r)
      BY <2>1, <2>2, <2>5, <3>2, <3>3 DEF SupersedingStatusOk
    <3>5. /\ (r.status = "occurred") <=> (r.occurred # None)
          /\ r.occurred # None => r.occurred <= r.recorded
          /\ r.supersedes = (n + 1) - 1 /\ n + 1 # 1
          /\ longer[(n + 1) - 1] = rows[n]
      BY <2>1, <2>2, <2>3, <2>5
    <3>6. \A i \in 1 .. n + 1 : i \in 1 .. n \/ i = n + 1
      BY <2>2
    <3> QED
      BY <2>3, <3>1, <3>4, <3>5, <3>6 DEF StatusHistoryOk
  <2>7. Occurred(longer) /\ Last(longer) = r /\ EffectiveTime(longer) = disclosed
    <3>1. Last(longer) = r
      BY <2>2, <2>3 DEF Last
    <3>2. Occurred(longer)
      BY <2>3, <2>5, <3>1 DEF Occurred
    <3> QED
      BY <2>3, <2>5, <3>1, <3>2 DEF EffectiveTime
  <2>8. ~Occurred(rows) /\ EffectiveTime(rows) = last.scheduled
    <3>1. ~Occurred(rows)
      BY DEF Occurred
    <3> QED
      BY <3>1 DEF EffectiveTime
  <2>9. dataset.reviews = {}
    BY <2>1, <2>8 DEF DatasetOk, ReviewsOk
  <2>10. LifecycleRequiredOk(d) /\ BaselinesOk(d)
    BY <2>1, <2>3, <2>4 DEF DatasetOk, LifecycleRequiredOk, BaselinesOk
  <2>11. EvidenceOk(d)
    <3>1. ASSUME NEW x \in dataset.evidence, NEW b \in dataset.baselines,
                 x.used, b.version = x.baseline
          PROVE  x.seen <= b.asOf /\ x.recorded <= b.asOf /\ x.recorded < disclosed
      <4>1. x.seen <= b.asOf /\ x.recorded <= b.asOf
        BY <2>1, <3>1 DEF DatasetOk, EvidenceOk, ScoredEvidenceOk
      <4>2. x.recorded \in Nat /\ b.asOf \in Nat
        BY <2>1, RowTypes DEF EvidenceRow, BaselineRow
      <4> QED
        BY <2>1, <4>1, <4>2
    <3>2. ScoredEvidenceOk(d)
      BY <2>4, <2>7, <3>1 DEF ScoredEvidenceOk
    <3> QED
      BY <2>1, <2>4, <3>2 DEF DatasetOk, EvidenceOk
  <2>12. TemporalOk(d) /\ ReviewsOk(d)
    <3>1. ASSUME NEW b \in dataset.baselines, NEW t \in {b.asOf, b.locked} \ {None}
          PROVE  t < disclosed
      <4>1. b.locked # None => Locked(b)
        <5>1. b.status \in {"draft", "locked"} /\ DraftOk(b)
          BY <2>1, RowTypes DEF BaselineRow, DatasetOk, BaselinesOk
        <5> QED
          BY <5>1 DEF DraftOk, Locked
      <4> QED
        BY <4>1
    <3> QED
      BY <2>4, <2>7, <2>9, <3>1 DEF TemporalOk, ReviewsOk
  <2>13. PostponementGateOk(d)
    <3>1. Len(longer) - 1 = n /\ longer[n] = last
      BY <2>2, <2>3
    <3> SUFFICES ASSUME last.status = "postponed"
                 PROVE  /\ Cardinality(CurrentTails(dataset.baselines)) = 1
                        /\ \A b \in CurrentTails(dataset.baselines) :
                             /\ b.status = "locked"
                             /\ b.review = "approved"
                             /\ b.reviewed >= last.recorded
                             /\ b.locked < last.scheduled
      BY <2>4, <2>5, <2>7, <3>1 DEF PostponementGateOk, ReviewedSince
    <3>2. PICK b \in dataset.baselines :
            /\ CurrentTails(dataset.baselines) = {b} /\ Locked(b)
            /\ b.reviewed >= last.recorded
      OBVIOUS
    <3>3. b.locked \in Nat /\ b.locked # None /\ b.review = "approved"
      BY <2>1, <3>2, LockedBaseline DEF DatasetOk
    <3>4. b.locked < last.scheduled
      BY <2>1, <2>8, <3>3 DEF DatasetOk, TemporalOk
    <3> QED
      BY <3>2, <3>3, <3>4, FS_Singleton DEF Locked
  <2> QED
    BY <2>4, <2>6, <2>10, <2>11, <2>12, <2>13 DEF DatasetOk
<1> QED
  BY <1>1, CycleInvHolds, PTL
=============================================================================
