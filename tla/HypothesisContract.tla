------------------------- MODULE HypothesisContract -------------------------
(***************************************************************************)
(* The rules of the prospective hypotheses as operators on records: when a *)
(* staged observation may follow the bundles of its event, which trials an *)
(* observation yields, which directories of bundles can be loaded and      *)
(* summarized, which registry may succeed another, and when a decision     *)
(* rule moved under evidence.                                              *)
(*                                                                         *)
(* A registry is [version, frozenAt, policy, hypotheses]; every registry   *)
(* here has the same registry_id, and its SHA-256 is the record itself.    *)
(* A definition is [id, version, dimension, horizon, target, stop]; its    *)
(* phase follows from its dimension.  A bundle keeps the registry it was   *)
(* scored under, which is what its three registry fields identify.         *)
(***************************************************************************)
EXTENDS Naturals, FiniteSets, Sequences, SequencesExt

CONSTANTS
  None       \* an absent optional field

Horizons == {"D1", "D5", "D20"}
Order == [h \in Horizons |-> CASE h = "D1" -> 1 [] h = "D5" -> 2 [] h = "D20" -> 3]

Key(d) == <<d.id, d.version>>

(***************************************************************************)
(* Observations and returns.                                               *)
(***************************************************************************)

ReturnAt(returns, h) == {r \in returns : r.horizon = h}

\* The validators of CompletedEventObservation.
ObservationOk(o) ==
  /\ (o.version = 1) <=> (o.supersedes = None)
  /\ \A r, s \in o.returns : r.horizon = s.horizon => r = s
  /\ \A r \in o.returns :
       /\ r.at <= o.through
       /\ Order[r.horizon] <= Order[o.stage]
  /\ ReturnAt(o.returns, o.stage) # {}

EventBundles(bundles, e) == {b \in bundles : b.schema = 2 /\ b.event = e}

\* What a later stage of an event may not change about an earlier one.
Extends(b, o) ==
  /\ o.pre = b.pre
  /\ b.reaction = None \/ o.reaction = b.reaction
  /\ Order[o.stage] > Order[b.stage]
  /\ o.through > b.through
  /\ b.returns \subseteq o.returns

ContiguousVersions(B) == {b.version : b \in B} = 1..Cardinality(B)

Latest(B) == CHOOSE b \in B : \A c \in B : c.version <= b.version

\* Fault: the stage checks are left to the author of the observation.
ObservationChainNumbersOnly(existing, o) ==
  LET B == EventBundles(existing, o.event) IN
  /\ ~\E b \in existing : b.schema = 1 /\ b.event = o.event
  /\ IF B = {}
       THEN o.version = 1 /\ o.supersedes = None
       ELSE /\ ContiguousVersions(B)
            /\ o.version = Latest(B).version + 1
            /\ o.supersedes = Latest(B).observation

\* The check made before a bundle is written.
ObservationChainOk(existing, o) ==
  LET B == EventBundles(existing, o.event) IN
  /\ ~\E b \in existing : b.schema = 1 /\ b.event = o.event
  /\ IF B = {}
       THEN o.version = 1 /\ o.supersedes = None
       ELSE /\ ContiguousVersions(B)
            /\ o.version = Latest(B).version + 1
            /\ o.supersedes = Latest(B).observation
            /\ Extends(Latest(B), o)

(***************************************************************************)
(* The check made of a whole directory whenever it is read.                *)
(***************************************************************************)

StageFollows(b, c) ==
  /\ c.supersedes = b.observation
  /\ c.pre = b.pre
  /\ b.reaction = None \/ c.reaction = b.reaction
  /\ Order[c.stage] > Order[b.stage]
  /\ c.through > b.through
  /\ b.returns \subseteq c.returns

HistoryOk(bundles) ==
  /\ \A b, c \in bundles : b.observation = c.observation => b = c
  /\ \A b \in bundles :
       b.schema = 2 =>
         LET B == EventBundles(bundles, b.event) IN
         /\ ContiguousVersions(B)
         /\ b.version = 1 => b.supersedes = None
         /\ \A c \in B : c.version = b.version + 1 => StageFollows(b, c)

(***************************************************************************)
(* Trials.                                                                 *)
(***************************************************************************)

TrialKey(d, e) == <<d.id, d.version, e, d.horizon>>

\* Fault: only the trials of the newest observation of each event are known.
TrialKeysOfLatest(bundles) ==
  UNION {{t.key : t \in b.trials} :
           b \in {c \in bundles : \A x \in EventBundles(bundles, c.event) :
                                    x.version <= c.version}}

TrialKeys(bundles) == UNION {{t.key : t \in b.trials} : b \in bundles}

Feature(o, d) == IF d.dimension = "reaction" THEN o.reaction ELSE o.pre

\* Fault: a return that is not comparable still yields a trial.
EligibilityWithoutComparability(o, d, keys) ==
  CASE Feature(o, d) = None -> "required_field_missing"
    [] Feature(o, d) # None /\ ReturnAt(o.returns, d.horizon) = {} -> "horizon_not_matured"
    [] Feature(o, d) # None /\ ReturnAt(o.returns, d.horizon) # {} ->
         IF TrialKey(d, o.event) \in keys THEN "trial_already_recorded" ELSE "eligible"

\* Why a definition gets no trial from an observation, or that it gets one.
Eligibility(o, d, keys) ==
  LET outcome == ReturnAt(o.returns, d.horizon) IN
  CASE Feature(o, d) = None -> "required_field_missing"
    [] Feature(o, d) # None /\ outcome = {} -> "horizon_not_matured"
    [] Feature(o, d) # None /\ \E r \in outcome : r.value = None ->
         "horizon_not_comparable"
    [] Feature(o, d) # None /\ \E r \in outcome : r.value # None ->
         IF TrialKey(d, o.event) \in keys THEN "trial_already_recorded" ELSE "eligible"

\* Fault: the trial carries the time of the observation, not of its outcome.
TrialOfObservation(o, d) ==
  [key |-> TrialKey(d, o.event),
   cohort |-> IF Feature(o, d) = d.target THEN "target" ELSE "non_target",
   value |-> (CHOOSE r \in ReturnAt(o.returns, d.horizon) : TRUE).value,
   at |-> o.through]

Trial(o, d) ==
  LET outcome == CHOOSE r \in ReturnAt(o.returns, d.horizon) : TRUE IN
  [key |-> TrialKey(d, o.event),
   cohort |-> IF Feature(o, d) = d.target THEN "target" ELSE "non_target",
   value |-> outcome.value,
   at |-> outcome.at]

\* The bundle of evaluate_observation, recorded at the given time.
Evaluate(r, o, keys, recorded) ==
  [schema |-> 2, registry |-> r,
   observation |-> o.id, version |-> o.version, supersedes |-> o.supersedes,
   stage |-> o.stage, event |-> o.event, through |-> o.through,
   pre |-> o.pre, reaction |-> o.reaction, returns |-> o.returns,
   recorded |-> recorded,
   trials |-> {Trial(o, d) : d \in {x \in r.hypotheses : Eligibility(o, x, keys) = "eligible"}},
   eligibility |-> [k \in {Key(d) : d \in r.hypotheses} |->
                      Eligibility(o, CHOOSE d \in r.hypotheses : Key(d) = k, keys)]]

(***************************************************************************)
(* The status summary re-derives everything a bundle claims.               *)
(***************************************************************************)

Before(b, c) == b.event = c.event /\ b.version < c.version

EligibilityOk(bundles, r, b) ==
  /\ DOMAIN b.eligibility = {Key(d) : d \in r.hypotheses}
  /\ \A d \in r.hypotheses :
       LET outcome == ReturnAt(b.returns, d.horizon) IN
       CASE b.eligibility[Key(d)] = "eligible" -> \E t \in b.trials : t.key = TrialKey(d, b.event)
         [] b.eligibility[Key(d)] = "required_field_missing" -> TRUE
         [] b.eligibility[Key(d)] = "horizon_not_matured" -> outcome = {}
         [] b.eligibility[Key(d)] = "horizon_not_comparable" ->
              \E x \in outcome : x.value = None
         [] b.eligibility[Key(d)] = "trial_already_recorded" ->
              TrialKey(d, b.event) \in TrialKeys({c \in bundles : Before(c, b)})

TrialOk(r, b, t) ==
  \E d \in r.hypotheses :
    /\ t.key = TrialKey(d, b.event)
    /\ b.schema = 2 => \E x \in ReturnAt(b.returns, d.horizon) :
                         x.value # None /\ x.value = t.value /\ x.at = t.at

\* No trial identity is in two bundles.
NoDuplicateTrial(bundles) ==
  \A b, c \in bundles : b # c => TrialKeys({b}) \cap TrialKeys({c}) = {}

\* summarize_trials accepts these bundles for this registry.
Summarizable(bundles, r) ==
  /\ HistoryOk(bundles)
  /\ \A b \in bundles :
       /\ b.registry = r
       /\ b.schema = 2 => EligibilityOk(bundles, r, b)
       /\ \A t \in b.trials : TrialOk(r, b, t)
  /\ NoDuplicateTrial(bundles)

(***************************************************************************)
(* Registries: succession, and rules that may not move under evidence.     *)
(***************************************************************************)

SuccessorOk(previous, current) ==
  /\ previous.version < current.version
  /\ \A d \in previous.hypotheses : \E c \in current.hypotheses : c.id = d.id
  /\ \A d \in previous.hypotheses, c \in current.hypotheses :
       c.id = d.id => /\ c.version >= d.version
                      /\ d.stop # None => c.stop # None

\* Fault: the promotion policy of the registry is not part of the rules.
StopRuleDigest(r, key) ==
  IF \E d \in r.hypotheses : Key(d) = key
    THEN <<(CHOOSE d \in r.hypotheses : Key(d) = key).stop>>
    ELSE None

\* The decision rules of a definition: its stop rule and the promotion policy.
RuleDigest(r, key) ==
  IF \E d \in r.hypotheses : Key(d) = key
    THEN <<(CHOOSE d \in r.hypotheses : Key(d) = key).stop, r.policy>>
    ELSE None

HasTrialFor(b, key) == \E t \in b.trials : <<t.key[1], t.key[2]>> = key

\* The bundles that hold evidence for a definition.
EvidenceFor(bundles, key) == {b \in bundles : HasTrialFor(b, key)}

\* The moment the first trial of a definition entered the record.
EvaluationStartedAt(B) == CHOOSE m \in {b.recorded : b \in B} : \A b \in B : m <= b.recorded

\* A registry frozen before evidence began is how rules are meant to change.
FrozenInTime(r, since) == r.frozenAt <= since

RuleFreezeOk(registries, bundles) ==
  /\ \A b \in bundles : b.registry \in registries
  /\ \A key \in UNION {{Key(d) : d \in r.hypotheses} : r \in registries} :
       LET B == EvidenceFor(bundles, key) IN
       B # {} =>
         LET since == EvaluationStartedAt(B)
             first == CHOOSE b \in B : b.recorded = since
             inEffect == RuleDigest(first.registry, key) IN
         /\ \A b \in B : RuleDigest(b.registry, key) = inEffect
         /\ \A r \in registries :
              \/ RuleDigest(r, key) \in {None, inEffect}
              \/ FrozenInTime(r, since)
=============================================================================
