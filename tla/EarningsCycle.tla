--------------------------- MODULE EarningsCycle ---------------------------
(***************************************************************************)
(* One earnings event from its first schedule to what is learned from it:  *)
(* an analyst keeps the dataset (EventDataset), the company discloses, and *)
(* four commands derive files from the dataset and from one another:       *)
(* evaluate-earnings, track-market-reaction, review-post-event and         *)
(* prepare-baseline-carryover.                                             *)
(*                                                                         *)
(* Every time in a row or a file is what its author wrote.  An analyst is  *)
(* honest about the disclosure and never ahead of the clock, but may be    *)
(* behind it by a lag.  A refused edit or command is no step.              *)
(***************************************************************************)
EXTENDS EventDataset

CONSTANTS
  DayLength,     \* ticks in a day
  MaxTime,       \* bound on the clock
  CycleScopes    \* bounds of the world, one of which a behaviour keeps to:
                 \*   statuses, baselines, trackings, reviews   how many
                 \*   lag       how far an author may be behind the clock
                 \*   steps     the optional kinds of step it takes
                 \*   bundles   the price bundles there are

\* The prices a bundle can hold; the first four are the milestones of a reaction.
Milestones ==
  {"pre_event_close", "immediate_post_announcement", "next_business_day_close",
   "fifth_business_day_close"}

Roles == Milestones \cup {"pre_announcement_reference"}

ASSUME CycleAssumption ==
  /\ None \notin Int
  /\ Planned \in Nat /\ DayLength \in Nat \ {0} /\ MaxTime \in Nat
  /\ \A scope \in CycleScopes :
       /\ scope.baselines \in Nat
       /\ scope.bundles \subseteq [observed : SUBSET Roles, comparable : BOOLEAN]

VARIABLES
  bounds,       \* the bounds of this behaviour
  now,          \* the clock
  disclosed,    \* when the company disclosed, or None
  dataset,
  hypothesis,   \* the pre-event hypothesis: [created, invalidated]
  evaluations,  \* baseline version -> evaluation file
  trackings,    \* market reaction snapshots
  reviews,      \* post-event learning reviews
  carryover     \* the context prepared for the next baseline, or None

world == <<bounds, disclosed>>
files == <<evaluations, trackings, reviews, carryover>>
cycleVars == <<now, world, dataset, hypothesis, files>>

DayOf(t) == t \div DayLength

\* What an author can write as the time of something done now.
Claims == {t \in 0..now : t + bounds.lag >= now}

(***************************************************************************)
(* The world.                                                              *)
(***************************************************************************)

Tick ==
  /\ now < MaxTime
  /\ now' = now + 1
  /\ UNCHANGED <<world, dataset, hypothesis, files>>

\* Early, on time or late.
Disclose ==
  /\ disclosed = None
  /\ disclosed' = now
  /\ UNCHANGED <<bounds, now, dataset, hypothesis, files>>

(***************************************************************************)
(* The analyst edits the dataset; an edit stays when it validates.         *)
(***************************************************************************)

Edit(d) ==
  /\ DatasetOk(d)
  /\ d # dataset
  /\ dataset' = d
  /\ UNCHANGED <<now, world, hypothesis, files>>

\* Any later schedule; an occurrence is the disclosure.
StatusRows ==
  LET n == Len(dataset.statuses)
      parent == IF n = 0 THEN None ELSE dataset.statuses[n] IN
  {r \in [status : {"scheduled", "postponed", "cancelled", "occurred"},
          supersedes : {0, n},
          scheduled : IF "postpone" \in bounds.steps THEN Planned..MaxTime ELSE {Planned},
          previous : {None} \cup (IF n = 0 THEN {} ELSE {parent.scheduled}),
          occurred : {None, disclosed},
          recorded : {now}] :
     (r.status = "occurred") <=> (r.occurred # None)}

AddStatus ==
  /\ Len(dataset.statuses) < bounds.statuses
  /\ \E r \in StatusRows : Edit([dataset EXCEPT !.statuses = Append(@, r)])

NextVersion == 1 + Max({b.version : b \in dataset.baselines} \cup {0})

\* A draft is a working row: it can be added and taken out again.
AddDraft ==
  /\ "draft" \in bounds.steps /\ NextVersion <= bounds.baselines
  /\ Edit([dataset EXCEPT !.baselines = @ \cup
       {[version |-> NextVersion, status |-> "draft", supersedes |-> None,
         review |-> "pending", reviewed |-> None, asOf |-> now, locked |-> None]}])

DropDraft ==
  \E b \in dataset.baselines :
    /\ b.status = "draft"
    /\ Edit([dataset EXCEPT !.baselines = @ \ {b}])

\* A locked row and its evidence enter together, because neither validates alone.
LockBaseline ==
  /\ NextVersion <= bounds.baselines
  /\ \E supersedes \in {None} \cup {b.version : b \in dataset.baselines},
        review \in {"pending", "approved"}, taken \in Claims, used \in BOOLEAN :
       Edit([dataset EXCEPT
         !.baselines = @ \cup
           {[version |-> NextVersion, status |-> "locked", supersedes |-> supersedes,
             review |-> review, reviewed |-> IF review = "pending" THEN None ELSE taken,
             asOf |-> taken, locked |-> now]},
         !.evidence = @ \cup
           {[id |-> 2 * NextVersion, baseline |-> NextVersion, seen |-> taken,
             recorded |-> taken, used |-> used, kind |-> "original", supersedes |-> None]}])

\* A later note about a baseline: a source found, or a correction of its evidence.
AddEvidence ==
  "note" \in bounds.steps /\ \E b \in dataset.baselines, kind \in {"original", "correction"} :
    LET x == [id |-> 2 * b.version + 1, baseline |-> b.version, seen |-> now,
              recorded |-> now, used |-> FALSE, kind |-> kind,
              supersedes |-> IF kind = "original" THEN None ELSE 2 * b.version] IN
    /\ \A y \in dataset.evidence : y.id # x.id
    /\ Edit([dataset EXCEPT !.evidence = @ \cup {x}])

AddReview ==
  /\ "note" \in bounds.steps /\ dataset.reviews = {}
  /\ \E b \in dataset.baselines :
       Edit([dataset EXCEPT !.reviews = {[baseline |-> b.version, recorded |-> now]}])

\* The hypothesis log is append-only: an invalidation is a row of its own.
Hypothesize ==
  /\ "hypothesis" \in bounds.steps /\ hypothesis.created = None
  /\ hypothesis' = [hypothesis EXCEPT !.created = now]
  /\ UNCHANGED <<now, world, dataset, files>>

Invalidate ==
  /\ hypothesis.created # None /\ hypothesis.invalidated = None
  /\ hypothesis' = [hypothesis EXCEPT !.invalidated = now]
  /\ UNCHANGED <<now, world, dataset, files>>

(***************************************************************************)
(* evaluate-earnings.                                                      *)
(***************************************************************************)

Locked(b) == b.status = "locked"

\* Fault: every hypothesis of the event is taken, whenever it was written.
AllHypotheses(b) == IF hypothesis.created # None THEN {hypothesis.created} ELSE {}

\* Fault: a hypothesis withdrawn by now is left out.
StandingHypotheses(b) ==
  IF hypothesis.created # None /\ hypothesis.created <= b.locked /\ hypothesis.invalidated = None
    THEN {hypothesis.created} ELSE {}

\* The hypotheses that were there when the baseline was locked.
PreEventHypotheses(b) ==
  IF hypothesis.created # None /\ hypothesis.created <= b.locked
    THEN {hypothesis.created} ELSE {}

\* The document must be of the day in the earnings_event row.
ContextOk == disclosed # None /\ DayOf(disclosed) = DayOf(Planned)

Evaluable(b) == Locked(b) /\ ContextOk /\ DayOf(b.locked) <= DayOf(disclosed)

\* The file is named by baseline and document: running it again replaces it.
Evaluate(b) ==
  /\ "learn" \in bounds.steps
  /\ Evaluable(b)
  /\ evaluations[b.version] = None \/ "rerun" \in bounds.steps
  /\ \E status \in {"evaluated", "insufficient_data"} :
       evaluations' = [evaluations EXCEPT ![b.version] =
         [status |-> status, at |-> now, hypotheses |-> PreEventHypotheses(b)]]
  /\ UNCHANGED <<now, world, dataset, hypothesis, trackings, reviews, carryover>>

(***************************************************************************)
(* track-market-reaction.                                                  *)
(***************************************************************************)

Intraday == "intraday" \in bounds.steps

\* Fault: a price after the disclosure counts without the close before it.
MilestoneWithoutClose(bundle, role) ==
  CASE role \notin bundle.observed -> "pending"
    [] role \in bundle.observed /\ ~bundle.comparable -> "not_comparable"
    [] role \in bundle.observed /\ bundle.comparable -> "observed"

\* A price that is not there is awaited even when a corporate action makes those
\* that are there not comparable.
Milestone(bundle, role) ==
  CASE role \notin bundle.observed -> "pending"
    [] role \in bundle.observed /\ ~bundle.comparable -> "not_comparable"
    [] role \in bundle.observed /\ bundle.comparable ->
         IF "pre_event_close" \in bundle.observed THEN "observed" ELSE "pending"

\* The reaction at the announcement itself, from the last price before it.
EventWindow(bundle) ==
  LET reference == IF Intraday THEN "pre_announcement_reference" ELSE "pre_event_close" IN
  CASE ~bundle.comparable -> "not_comparable"
    [] bundle.comparable /\ {reference, "immediate_post_announcement"} \subseteq bundle.observed ->
         "calculated"
    [] bundle.comparable /\ ~({reference, "immediate_post_announcement"} \subseteq bundle.observed) ->
         "pending"

Complete(bundle) ==
  /\ \A role \in Milestones : Milestone(bundle, role) = "observed"
  /\ EventWindow(bundle) = "calculated"

TrackingStatus(bundle) ==
  CASE ~bundle.comparable -> "not_comparable"
    [] bundle.comparable /\ Complete(bundle) -> "complete"
    [] bundle.comparable /\ ~Complete(bundle) -> "tracking"

\* A bundle has a price, the reference if and only if the session is intraday, and
\* no price later than its own time.
TimingOk(bundle, announced, recorded) ==
  /\ bundle.observed # {}
  /\ "pre_announcement_reference" \in bundle.observed <=> Intraday
  /\ bundle.observed \subseteq {"pre_event_close", "pre_announcement_reference"}
       \/ recorded > announced

\* The occurrence is the current status, and the evaluation came to a result.
Trackable(v) ==
  /\ Occurred(dataset.statuses)
  /\ evaluations[v] # None /\ evaluations[v].status = "evaluated"

\* A snapshot of a bundle: only a complete one carries the time it was recorded.
Snapshot(v, bundle, recorded) ==
  [baseline |-> v, announced |-> Last(dataset.statuses).occurred,
   status |-> TrackingStatus(bundle),
   milestones |-> [role \in Milestones |-> Milestone(bundle, role)],
   window |-> EventWindow(bundle),
   completed |-> IF TrackingStatus(bundle) = "complete" THEN recorded ELSE None]

Track(v) ==
  /\ Trackable(v)
  /\ Cardinality(trackings) < bounds.trackings
  /\ \E bundle \in bounds.bundles, recorded \in Claims :
       /\ TimingOk(bundle, Last(dataset.statuses).occurred, recorded)
       /\ recorded >= evaluations[v].at
       /\ trackings' = trackings \cup {Snapshot(v, bundle, recorded)}
  /\ trackings' # trackings
  /\ UNCHANGED <<now, world, dataset, hypothesis, evaluations, reviews, carryover>>

(***************************************************************************)
(* review-post-event.                                                      *)
(***************************************************************************)

Baseline(v) == CHOOSE b \in dataset.baselines : b.version = v

\* The reviewer derives its stages from the window and from two of the milestones.
MarketStages(t) ==
  LET found == {t.window, t.milestones["next_business_day_close"],
                t.milestones["fifth_business_day_close"]} IN
  {IF status \in {"calculated", "observed"} THEN "complete" ELSE status : status \in found}

ReviewState(stages) ==
  CASE "not_comparable" \in stages -> "blocked"
    [] "not_comparable" \notin stages /\ "pending" \in stages -> "provisional"
    [] "not_comparable" \notin stages /\ "pending" \notin stages -> "complete"

\* Every hypothesis the evaluation judged is a forecast, not yet withdrawn when
\* the baseline was locked.
ResolvedOk(e, b) ==
  \A h \in e.hypotheses :
    /\ h <= b.locked
    /\ hypothesis.invalidated # None => hypothesis.invalidated > b.locked

\* Fault: a review may repeat the time of the one it follows.
FollowsLoosely(previous, reviewed) == previous # None => reviewed >= previous.reviewed

Follows(previous, reviewed) == previous # None => reviewed > previous.reviewed

TimesOk(e, t, b, reviewed) ==
  /\ reviewed >= e.at
  /\ reviewed >= t.announced
  /\ b.locked < t.announced
  /\ b.locked <= e.at

\* The times of what a review rests on, the withdrawal of a hypothesis included.
SourceTimes(e, t, b) ==
  {b.asOf, e.at, t.completed} \cup e.hypotheses
    \cup (IF e.hypotheses = {} THEN {} ELSE {hypothesis.invalidated})

ReviewFrom(t, previous, reviewed) ==
  LET e == evaluations[t.baseline]
      b == Baseline(t.baseline) IN
  /\ e.status = "evaluated"
  /\ Locked(b)
  /\ TimesOk(e, t, b, reviewed)
  /\ Follows(previous, reviewed)
  /\ ResolvedOk(e, b)
  /\ \A s \in SourceTimes(e, t, b) \ {None} : s <= reviewed
  /\ reviews' = reviews \cup
       {[version |-> IF previous = None THEN 1 ELSE previous.version + 1,
         supersedes |-> previous, baseline |-> t.baseline, tracking |-> t,
         hypotheses |-> e.hypotheses, reviewed |-> reviewed,
         status |-> ReviewState(MarketStages(t))]}

Review ==
  /\ Cardinality(reviews) < bounds.reviews
  /\ \E t \in trackings, reviewed \in Claims :
       \E previous \in {None} \cup {r \in reviews : r.baseline = t.baseline} :
         ReviewFrom(t, previous, reviewed)
  /\ reviews' # reviews
  /\ UNCHANGED <<now, world, dataset, hypothesis, evaluations, trackings, carryover>>

(***************************************************************************)
(* prepare-baseline-carryover.                                             *)
(***************************************************************************)

\* Fault: a review of the future is accepted.
NotLaterUnchecked(R, prepared) == TRUE

NotLater(R, prepared) == \A r \in R : r.reviewed <= prepared

\* Counts versions of one review as reviews.
CarryOver ==
  \E R \in SUBSET reviews, prepared \in Claims :
    /\ R # {}
    /\ NotLater(R, prepared)
    /\ carryover' = [reviews |-> R, prepared |-> prepared]
    /\ UNCHANGED <<now, world, dataset, hypothesis, evaluations, trackings, reviews>>

(***************************************************************************)
(* The specification.                                                      *)
(***************************************************************************)

\* No event is ever opened.
CycleIdle ==
  /\ bounds = None
  /\ now = 0
  /\ disclosed = None
  /\ dataset = [statuses |-> <<>>, baselines |-> {}, evidence |-> {}, reviews |-> {}]
  /\ hypothesis = [created |-> None, invalidated |-> None]
  /\ evaluations = <<>>
  /\ trackings = {}
  /\ reviews = {}
  /\ carryover = None

CycleInit ==
  /\ bounds \in CycleScopes
  /\ now = 0
  /\ disclosed = None
  /\ dataset = [statuses |-> <<>>, baselines |-> {}, evidence |-> {}, reviews |-> {}]
  /\ hypothesis = [created |-> None, invalidated |-> None]
  /\ evaluations = [v \in 1..bounds.baselines |-> None]
  /\ trackings = {}
  /\ reviews = {}
  /\ carryover = None

\* A behaviour ends with the context for the next baseline.
CycleNext ==
  /\ bounds # None
  /\ carryover = None
  /\ \/ Tick
     \/ Disclose
     \/ AddStatus
     \/ AddDraft
     \/ DropDraft
     \/ LockBaseline
     \/ AddEvidence
     \/ AddReview
     \/ Hypothesize
     \/ Invalidate
     \/ \E b \in dataset.baselines : Evaluate(b)
     \/ \E v \in DOMAIN evaluations : Track(v)
     \/ Review
     \/ CarryOver

CycleSpec == CycleInit /\ [][CycleNext]_cycleVars

(***************************************************************************)
(* Properties.                                                             *)
(***************************************************************************)

Times == 0..MaxTime

\* The rows and files have their shape: a locked baseline has been reviewed, a
\* draft has not been locked, and an evaluation lists times of hypotheses.
CycleTypeOK ==
  /\ now \in Times /\ disclosed \in Times \cup {None}
  /\ \A i \in DOMAIN dataset.statuses : dataset.statuses[i].recorded \in Times
  /\ \A b \in dataset.baselines :
       IF Locked(b) THEN b.locked \in Times /\ b.reviewed \in Times ELSE b.locked = None
  /\ \A v \in DOMAIN evaluations : evaluations[v] # None =>
       evaluations[v].at \in Times /\ evaluations[v].hypotheses \subseteq Times
  /\ \A t \in trackings : DOMAIN t.milestones = Milestones /\ t.completed \in Times \cup {None}
  /\ \A r \in reviews : r.tracking \in trackings /\ r.supersedes \in reviews \cup {None}

\* An event that was postponed and then occurred had exactly one forecast in
\* force at the disclosure, approved after each of its postponements.
PostponementReviewed ==
  LET rows == dataset.statuses
      postponed == {i \in DOMAIN rows : rows[i].status = "postponed"} IN
  Occurred(rows) /\ postponed # {} =>
    \E b \in dataset.baselines :
      /\ Locked(b) /\ b.locked < disclosed
      /\ \A c \in dataset.baselines \ {b} :
           \E successor \in dataset.baselines : successor.supersedes = c.version
      /\ \A i \in postponed : b.reviewed >= rows[i].recorded

\* Nothing a learning review rests on as a forecast was written with the
\* disclosure at hand: the baseline, each piece of its evidence, scored or not,
\* and each hypothesis it judges.
ForecastPrecedesDisclosure ==
  \A r \in reviews :
    LET b == Baseline(r.baseline) IN
    /\ b.locked < disclosed
    /\ \A x \in EvidenceOf(dataset.evidence, b) : x.recorded < disclosed
    /\ \A h \in r.hypotheses : h < disclosed

\* The tracker derives how final the prices are from the bundle and from all four
\* milestones, the reviewer from the window and two of them, whose states may be
\* mixed; they agree.
ReviewStateMatchesTracking ==
  \A r \in reviews :
    /\ (r.status = "complete") <=> (r.tracking.status = "complete")
    /\ (r.status = "blocked") <=> (r.tracking.status = "not_comparable")

\* All that the next baseline learns from lies before its context, in the order
\* forecast, disclosure, prices, review; and each of its reviews goes on judging what
\* its evaluation judges, though the evaluation may have been replaced since, and
\* hypotheses written or withdrawn in between.
CarryoverRestsOnPast ==
  carryover # None =>
    \A r \in carryover.reviews :
      /\ r.reviewed <= carryover.prepared
      /\ Baseline(r.baseline).locked < r.tracking.announced
      /\ r.tracking.announced <= r.reviewed
      /\ r.tracking.completed # None => r.tracking.completed <= r.reviewed
      /\ r.supersedes # None => r.supersedes.reviewed < r.reviewed
      /\ evaluations[r.baseline].hypotheses = r.hypotheses

\* A disclosure, early, on time or late, can be recorded as the occurrence of the
\* open event, when every forecast was finished before it and, after a
\* postponement, one was approved anew.
OpenEventCanOccur ==
  LET rows == dataset.statuses
      last == Last(rows)
      forecastsInTime ==
        \A b \in dataset.baselines : b.asOf < disclosed /\ (Locked(b) => b.locked < disclosed)
      reviewedAnew ==
        \E b \in dataset.baselines :
          CurrentTails(dataset.baselines) = {b} /\ Locked(b) /\ b.reviewed >= last.recorded IN
  /\ disclosed # None
  /\ rows # <<>>
  /\ last.status \in {"scheduled", "postponed"} /\ last.recorded < now
  /\ forecastsInTime
  /\ last.status = "postponed" => reviewedAnew
  =>
  DatasetOk([dataset EXCEPT !.statuses = Append(@,
    [status |-> "occurred", supersedes |-> Len(rows), scheduled |-> last.scheduled,
     previous |-> None, occurred |-> disclosed, recorded |-> now])])

\* What was evaluated and tracked can be reviewed, and no hypothesis written
\* after the lock stands in its way.  Left out: a hypothesis withdrawn before
\* the lock, which the evaluation takes and the review refuses.
TrackedEventCanBeReviewed ==
  \A t \in trackings :
    LET e == evaluations[t.baseline]
        b == Baseline(t.baseline) IN
    /\ e.status = "evaluated"
    /\ hypothesis.invalidated # None => hypothesis.invalidated > b.locked
    =>
    /\ TimesOk(e, t, b, now)
    /\ ResolvedOk(e, b)
    /\ \A s \in SourceTimes(e, t, b) \ {None} : s <= now
=============================================================================
