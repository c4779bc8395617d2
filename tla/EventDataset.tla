---------------------------- MODULE EventDataset ----------------------------
(***************************************************************************)
(* The rules validate_dataset puts on the rows of one earnings event: its  *)
(* status history, its baselines, the evidence of the baselines and the    *)
(* post-event review.  A dataset is [statuses, baselines, evidence,        *)
(* reviews].                                                               *)
(*                                                                         *)
(* A status row is named by its position and a baseline by its version,    *)
(* which must grow with every row.  As-of and recording times of a row     *)
(* that the rules bound alike are one field.                               *)
(***************************************************************************)
EXTENDS Naturals, Sequences, FiniteSets, FiniteSetsExt, SequencesExt

CONSTANTS
  None,     \* an absent field
  Planned   \* the announcement time in the earnings_event row

(***************************************************************************)
(* The status history.                                                     *)
(***************************************************************************)

AllowedTransitions ==
  [scheduled |-> {"postponed", "cancelled", "occurred"},
   postponed |-> {"postponed", "cancelled", "occurred"},
   cancelled |-> {}, occurred |-> {}]

InitialStatusOk(r) ==
  /\ r.status = "scheduled"
  /\ r.previous = None
  /\ r.scheduled = Planned

\* Fault: an occurrence before the schedule is refused.
NoEarlyOccurrence(parent, r) ==
  /\ r.status \in AllowedTransitions[parent.status]
  /\ r.recorded > parent.recorded
  /\ r.status = "postponed" => r.scheduled > parent.scheduled
  /\ r.previous = IF r.status = "postponed" THEN parent.scheduled ELSE None
  /\ r.status \in {"cancelled", "occurred"} => r.scheduled = parent.scheduled
  /\ r.status = "occurred" => r.occurred >= r.scheduled

SupersedingStatusOk(parent, r) ==
  /\ r.status \in AllowedTransitions[parent.status]
  /\ r.recorded > parent.recorded
  /\ r.status = "postponed" => r.scheduled > parent.scheduled
  /\ r.previous = IF r.status = "postponed" THEN parent.scheduled ELSE None
  /\ r.status \in {"cancelled", "occurred"} => r.scheduled = parent.scheduled

\* Each row supersedes the current tail: no branch, no second start.
StatusHistoryOk(rows) ==
  \A i \in DOMAIN rows :
    LET r == rows[i] IN
    /\ (r.status = "occurred") <=> (r.occurred # None)
    /\ r.occurred # None => r.occurred <= r.recorded
    /\ r.supersedes = i - 1
    /\ IF i = 1 THEN InitialStatusOk(r) ELSE SupersedingStatusOk(rows[i - 1], r)

Occurred(rows) == rows # <<>> /\ Last(rows).status = "occurred"

\* The time that counts as the announcement.
EffectiveTime(rows) ==
  CASE rows = <<>> -> Planned
    [] rows # <<>> /\ Occurred(rows) -> Last(rows).occurred
    [] rows # <<>> /\ ~Occurred(rows) -> Last(rows).scheduled

(***************************************************************************)
(* Baselines.                                                              *)
(***************************************************************************)

CurrentTails(baselines) ==
  {b \in baselines : ~\E c \in baselines : c.supersedes = b.version}

ReviewStateOk(b) == (b.review = "pending") <=> (b.reviewed = None)

DraftOk(b) == b.status = "draft" => b.locked = None /\ b.supersedes = None

\* Fault: a baseline is locked without its approval.
LockUnreviewed(b) ==
  b.status = "locked" => b.locked # None /\ b.asOf <= b.locked

LockOk(b) ==
  b.status = "locked" =>
    /\ b.locked # None
    /\ b.review = "approved"
    /\ b.asOf <= b.locked
    /\ b.reviewed <= b.locked

SupersessionOk(baselines, b) ==
  /\ b.supersedes # None =>
       /\ b.status = "locked"
       /\ \E parent \in baselines : parent.version = b.supersedes /\ parent.version < b.version
  /\ b.status = "locked" /\ b.version > 1 => b.supersedes # None

EvidenceOf(evidence, b) == {x \in evidence : x.baseline = b.version}

\* Fault: evidence that no score uses may be younger than the lock.
UsedEvidenceOk(evidence, b) ==
  LET E == EvidenceOf(evidence, b) IN
  /\ b.status = "draft" => \A x \in E : ~x.used
  /\ b.status = "locked" =>
       /\ \E x \in E : x.used
       /\ \A x \in E : x.used => x.seen <= b.locked /\ x.recorded <= b.locked

\* A draft scores nothing yet; a locked baseline scores something, and all its
\* evidence is at least as old as the lock.
BaselineEvidenceOk(evidence, b) ==
  LET E == EvidenceOf(evidence, b) IN
  /\ b.status = "draft" => \A x \in E : ~x.used
  /\ b.status = "locked" =>
       /\ \E x \in E : x.used
       /\ \A x \in E : x.seen <= b.locked /\ x.recorded <= b.locked

BaselinesOk(d) ==
  /\ \A b, c \in d.baselines : b.version = c.version => b = c
  /\ \A b \in d.baselines :
       /\ ReviewStateOk(b)
       /\ DraftOk(b)
       /\ LockOk(b)
       /\ SupersessionOk(d.baselines, b)
       /\ BaselineEvidenceOk(d.evidence, b)

(***************************************************************************)
(* Evidence.                                                               *)
(***************************************************************************)

\* A correction keeps the entity of the earlier row it supersedes.
EvidenceLineageOk(evidence) ==
  \A x \in evidence :
    /\ (x.kind = "original") <=> (x.supersedes = None)
    /\ x.supersedes # None =>
         \E y \in evidence : /\ y.id = x.supersedes /\ y.id < x.id
                             /\ y.baseline = x.baseline

\* Scored evidence was there when the baseline was taken.
ScoredEvidenceOk(d) ==
  \A x \in d.evidence : \A b \in d.baselines :
    x.used /\ b.version = x.baseline =>
      /\ x.seen <= b.asOf
      /\ x.recorded <= b.asOf
      /\ x.recorded < EffectiveTime(d.statuses)

EvidenceOk(d) ==
  /\ \A x \in d.evidence : x.seen <= x.recorded
  /\ \A x \in d.evidence : \E b \in d.baselines : b.version = x.baseline
  /\ EvidenceLineageOk(d.evidence)
  /\ ScoredEvidenceOk(d)

(***************************************************************************)
(* Rules across the tables.                                                *)
(***************************************************************************)

\* Baselines lie before the announcement, reviews after it.
TemporalOk(d) ==
  /\ \A b \in d.baselines :
       \A t \in {b.asOf, b.locked} \ {None} : t < EffectiveTime(d.statuses)
  /\ \A r \in d.reviews : r.recorded > EffectiveTime(d.statuses)

\* A review needs the confirmed occurrence and a locked baseline.
ReviewsOk(d) ==
  \A r \in d.reviews :
    /\ Occurred(d.statuses)
    /\ r.recorded >= Last(d.statuses).recorded
    /\ \E b \in d.baselines : b.version = r.baseline /\ b.status = "locked"

\* Fault: the review must follow the first row of the history, not the last postponement.
ReviewedSinceFirst(rows, b) == b.reviewed >= rows[1].recorded

\* The baseline was reviewed again after the row the occurrence supersedes.
ReviewedSince(rows, b) == b.reviewed >= rows[Len(rows) - 1].recorded

\* An event that occurred after a postponement has one current baseline, locked
\* for the new schedule and reviewed since.
PostponementGateOk(d) ==
  LET rows == d.statuses
      tails == CurrentTails(d.baselines) IN
  Occurred(rows) /\ rows[Len(rows) - 1].status = "postponed" =>
    /\ Cardinality(tails) = 1
    /\ \A b \in tails :
         /\ b.status = "locked"
         /\ b.review = "approved"
         /\ ReviewedSince(rows, b)
         /\ b.locked < Last(rows).scheduled

\* A baseline makes the event subject to the lifecycle.
LifecycleRequiredOk(d) == d.baselines # {} => d.statuses # <<>>

DatasetOk(d) ==
  /\ StatusHistoryOk(d.statuses)
  /\ LifecycleRequiredOk(d)
  /\ BaselinesOk(d)
  /\ EvidenceOk(d)
  /\ TemporalOk(d)
  /\ ReviewsOk(d)
  /\ PostponementGateOk(d)
=============================================================================
