----------------------- MODULE HypothesisLedgerProofs -----------------------
(***************************************************************************)
(* What the record of the hypotheses keeps for every registry, event and   *)
(* price: a published status stays reproducible; a definition is scored    *)
(* under one set of rules; what was recorded can be loaded and summarized, *)
(* has one trial for each outcome, and can be grown to the next stage.     *)
(***************************************************************************)
EXTENDS HypothesisLedger, FiniteSetTheorems, WellFoundedInduction, TLAPS

\* Writing to a free path adds one bundle to the directory and changes none.
LEMMA WriteNewAdds ==
  ASSUME NEW path, NEW b, WriteNew(path, b)
  PROVE  bundles' = bundles \cup {b}
<1>1. DOMAIN trialFiles' = DOMAIN trialFiles \cup {path}
  BY DEF WriteNew, Put
<1>2. \A p \in DOMAIN trialFiles : trialFiles'[p] = trialFiles[p]
  BY DEF WriteNew, Put
<1>3. trialFiles'[path] = b
  BY DEF WriteNew, Put
<1> QED
  BY <1>1, <1>2, <1>3 DEF bundles, Range

\* What a step can do to the directory, the registries and the status.
LEMMA Writes ==
  ASSUME [Next]_vars
  PROVE  \/ UNCHANGED <<trialFiles, registries, status>>
         \/ \E r \in registries, e \in Events : \E o \in Observations(e) :
              RecordEvent(r, o) \/ RecordTrials(r, o)
         \/ \E r \in registries : Summarize(r)
         \/ \E design \in scope.designs, v \in 2..MaxVersion : FreezeRegistry(design, v)
BY DEF Next, vars, Tick, ChangeStandard, WriteReview, Learn, EvaluateSourceValidity

-----------------------------------------------------------------------------
(***************************************************************************)
(* Published status.                                                       *)
(***************************************************************************)

\* A step keeps the sources of the last status, or publishes a checked one.
LEMMA NextSnapshot == SnapshotReproducible /\ [Next]_vars => SnapshotReproducible'
<1> SUFFICES ASSUME SnapshotReproducible, [Next]_vars PROVE SnapshotReproducible'
  OBVIOUS
<1>1. CASE UNCHANGED <<trialFiles, registries, status>>
  BY <1>1 DEF SnapshotReproducible, bundles
<1>2. ASSUME NEW r \in registries, NEW o, RecordEvent(r, o) PROVE SnapshotReproducible'
  <2> DEFINE b == BundleOf(r, o)
  <2>1. /\ Summarizable(bundles \cup {b}, r)
        /\ \E path \in Paths(o) : WriteNew(path, b)
        /\ status' = status \/ status' = Snapshot(r, bundles \cup {b})
    BY <1>2 DEF RecordEvent
  <2> HIDE DEF b
  <2>2. bundles' = bundles \cup {b}
    BY <2>1, WriteNewAdds
  <2>3. CASE status' = status
    BY <2>2, <2>3 DEF SnapshotReproducible
  <2>4. CASE status' = Snapshot(r, bundles \cup {b})
    <3>1. status'.sources = bundles \cup {b} /\ status'.registry = r
      BY <2>4 DEF Snapshot
    <3> QED
      BY <2>1, <2>2, <3>1 DEF SnapshotReproducible
  <2> QED
    BY <2>1, <2>3, <2>4
<1>3. ASSUME NEW r \in registries, NEW o, RecordTrials(r, o) PROVE SnapshotReproducible'
  <2> DEFINE b == BundleOf(r, o)
  <2>1. (\E path \in Paths(o) : WriteNew(path, b)) /\ status' = status
    BY <1>3 DEF RecordTrials
  <2> HIDE DEF b
  <2>2. bundles' = bundles \cup {b}
    BY <2>1, WriteNewAdds
  <2> QED
    BY <2>1, <2>2 DEF SnapshotReproducible
<1>4. ASSUME NEW r \in registries, Summarize(r) PROVE SnapshotReproducible'
  <2>1. status'.sources = bundles /\ status'.registry = r /\ bundles' = bundles
    BY <1>4 DEF Summarize, Snapshot, bundles
  <2> QED
    BY <1>4, <2>1 DEF Summarize, SnapshotReproducible
<1>5. ASSUME NEW design, NEW v, FreezeRegistry(design, v) PROVE SnapshotReproducible'
  BY <1>5 DEF FreezeRegistry, SnapshotReproducible, bundles
<1> QED
  BY <1>1, <1>2, <1>3, <1>4, <1>5, Writes

\* Whatever is recorded, frozen or edited later: the bundles a published status
\* names stay on disk and still yield it (write_trial_bundle refuses a path that
\* is taken; pipeline.py).
THEOREM SnapshotAlwaysReproducible == Spec => []SnapshotReproducible
<1>1. Init => SnapshotReproducible
  BY DEF Init, SnapshotReproducible
<1> QED
  BY <1>1, NextSnapshot, PTL DEF Spec

-----------------------------------------------------------------------------
(***************************************************************************)
(* One set of rules.                                                       *)
(***************************************************************************)

UniqueKeys(r) == \A d, x \in r.hypotheses : Key(d) = Key(x) => d = x

RulesInv ==
  /\ scope \in Scopes
  /\ \A r \in registries : UniqueKeys(r)
  /\ RuleFreezeOk(registries, bundles)

\* The bundles of the earlier implementation were scored under the first registry,
\* when it was the only one.
LEMMA InitRules == Init => RulesInv
<1> SUFFICES ASSUME Init PROVE RulesInv
  OBVIOUS
<1>1. scope \in Scopes /\ registries = {FirstRegistry}
  BY DEF Init
<1>2. UniqueKeys(FirstRegistry)
  <2>1. \A d, x \in LegacyDesign.hypotheses : Key(d) = Key(x) => d = x
    BY DesignsAssumption
  <2>2. FirstRegistry.hypotheses = LegacyDesign.hypotheses
    BY DEF FirstRegistry
  <2> QED
    BY <2>1, <2>2 DEF UniqueKeys
<1>3. \A b \in bundles : b.registry = FirstRegistry /\ b.recorded = 0
  <2>1. PICK bundle \in [Legacy -> {1, 2}] :
          trialFiles = [p \in {<<e, "D1">> : e \in Legacy} |->
                          IF bundle[p[1]] = 1 THEN LegacyBundleV1(p[1]) ELSE LegacyBundle(p[1])]
    BY DEF Init
  <2>2. ASSUME NEW e PROVE LegacyBundle(e).registry = FirstRegistry /\ LegacyBundle(e).recorded = 0
    BY DEF LegacyBundle, Evaluate
  <2>3. ASSUME NEW e
        PROVE  LegacyBundleV1(e).registry = FirstRegistry /\ LegacyBundleV1(e).recorded = 0
    BY <2>2 DEF LegacyBundleV1, LegacyBundle, Evaluate
  <2> QED
    BY <2>1, <2>2, <2>3 DEF bundles, Range
<1>4. RuleFreezeOk({FirstRegistry}, bundles)
  <2> SUFFICES ASSUME NEW key, EvidenceFor(bundles, key) # {}
      PROVE  LET B == EvidenceFor(bundles, key)
                 since == EvaluationStartedAt(B)
                 first == CHOOSE b \in B : b.recorded = since
                 inEffect == RuleDigest(first.registry, key) IN
             /\ \A b \in B : RuleDigest(b.registry, key) = inEffect
             /\ \A r \in {FirstRegistry} :
                  RuleDigest(r, key) \in {None, inEffect} \/ FrozenInTime(r, since)
    BY <1>3 DEF RuleFreezeOk
  <2> DEFINE B == EvidenceFor(bundles, key)
             since == EvaluationStartedAt(B)
             first == CHOOSE b \in B : b.recorded = since
  <2>1. B \subseteq bundles /\ B # {}
    BY DEF EvidenceFor
  <2>2. {b.recorded : b \in B} = {0} /\ \A b \in B : b.recorded = 0
    BY <1>3, <2>1
  <2> HIDE DEF B
  <2>3. since = 0
    BY <2>2 DEF EvaluationStartedAt
  <2> HIDE DEF since
  <2>4. first \in B
    BY <2>1, <2>2, <2>3
  <2> HIDE DEF first
  <2>5. first.registry = FirstRegistry /\ \A b \in B : b.registry = FirstRegistry
    BY <1>3, <2>1, <2>4
  <2> QED
    BY <2>5 DEF B, since, first
<1> QED
  BY <1>1, <1>2, <1>4 DEF RulesInv

\* CI refuses every pull request that moves a rule under evidence, and evidence
\* whose rules cannot be established.
LEMMA NextRules == RulesInv /\ [Next]_vars => RulesInv'
<1> SUFFICES ASSUME RulesInv, [Next]_vars PROVE RulesInv'
  OBVIOUS
<1>0. scope' = scope
  BY DEF Next, vars, Tick, ChangeStandard, WriteReview, Learn, EvaluateSourceValidity, Summarize,
         FreezeRegistry, RecordEvent, RecordTrials
<1>1. CASE UNCHANGED <<trialFiles, registries, status>>
  BY <1>0, <1>1 DEF RulesInv, bundles
<1>2. ASSUME NEW r \in registries, NEW o, RecordEvent(r, o) \/ RecordTrials(r, o) PROVE RulesInv'
  <2>1. /\ RuleFreezeOk(registries, bundles \cup {BundleOf(r, o)})
        /\ \E path \in Paths(o) : WriteNew(path, BundleOf(r, o))
        /\ registries' = registries
    BY <1>2 DEF RecordEvent, RecordTrials
  <2>2. bundles' = bundles \cup {BundleOf(r, o)}
    BY <2>1, WriteNewAdds
  <2> QED
    BY <1>0, <2>1, <2>2 DEF RulesInv
<1>3. ASSUME NEW r \in registries, Summarize(r) PROVE RulesInv'
  BY <1>0, <1>3 DEF Summarize, RulesInv, bundles
<1>4. ASSUME NEW design \in scope.designs, NEW v, FreezeRegistry(design, v) PROVE RulesInv'
  <2> DEFINE r == [version |-> v, frozenAt |-> today,
                   policy |-> design.policy, hypotheses |-> design.hypotheses]
             result == {x \in registries : x.version # v} \cup {r}
  <2>1. RuleFreezeOk(result, bundles) /\ registries' = result /\ bundles' = bundles
    BY <1>4 DEF FreezeRegistry, bundles
  <2>2. UniqueKeys(r)
    BY DesignsAssumption DEF UniqueKeys, RulesInv
  <2>3. \A x \in result : UniqueKeys(x)
    BY <2>2 DEF RulesInv
  <2> HIDE DEF result
  <2> QED
    BY <1>0, <2>1, <2>3 DEF RulesInv
<1> QED
  BY <1>1, <1>2, <1>3, <1>4, Writes

\* The digest of a definition that is there names its stop rule and the policy.
LEMMA DigestOfDefinition ==
  ASSUME NEW r, UniqueKeys(r), NEW d \in r.hypotheses
  PROVE  RuleDigest(r, Key(d)) = <<d.stop, r.policy>>
<1>1. (CHOOSE x \in r.hypotheses : Key(x) = Key(d)) = d
  BY DEF UniqueKeys
<1> QED
  BY <1>1 DEF RuleDigest

\* However registries are frozen and edited between trials: all trials of a
\* definition were scored under one stop rule and one promotion policy
\* (verify_rule_freeze, freeze.py).
THEOREM OneRuleAlways == Spec => []OneRulePerDefinition
<1>1. RulesInv => OneRulePerDefinition
  <2> SUFFICES ASSUME RulesInv, NEW b \in bundles, NEW c \in bundles,
                      NEW d \in b.registry.hypotheses, NEW x \in c.registry.hypotheses,
                      Key(d) = Key(x), HasTrialFor(b, Key(d)), HasTrialFor(c, Key(x))
               PROVE  d.stop = x.stop /\ b.registry.policy = c.registry.policy
    BY DEF OneRulePerDefinition
  <2>1. b.registry \in registries /\ c.registry \in registries
    BY DEF RulesInv, RuleFreezeOk
  <2>2. RuleDigest(b.registry, Key(d)) = RuleDigest(c.registry, Key(d))
    <3>1. Key(d) \in UNION {{Key(y) : y \in r.hypotheses} : r \in registries}
      BY <2>1
    <3>2. b \in EvidenceFor(bundles, Key(d)) /\ c \in EvidenceFor(bundles, Key(d))
      BY DEF EvidenceFor
    <3> QED
      BY <3>1, <3>2 DEF RulesInv, RuleFreezeOk
  <2>3. UniqueKeys(b.registry) /\ UniqueKeys(c.registry)
    BY <2>1 DEF RulesInv
  <2>4. <<d.stop, b.registry.policy>> = <<x.stop, c.registry.policy>>
    BY <2>2, <2>3, DigestOfDefinition
  <2> QED
    BY <2>4
<1> QED
  BY InitRules, NextRules, <1>1, PTL DEF Spec

-----------------------------------------------------------------------------
(***************************************************************************)
(* The chain of an event.                                                  *)
(***************************************************************************)

\* The latest of a contiguous chain is numbered by its length.
LEMMA LatestIs ==
  ASSUME NEW B, IsFiniteSet(B), B # {}, ContiguousVersions(B)
  PROVE  /\ Cardinality(B) \in Nat \ {0}
         /\ Latest(B) \in B /\ Latest(B).version = Cardinality(B)
         /\ \A b \in B : b.version \in 1..Cardinality(B)
<1> DEFINE n == Cardinality(B)
<1>1. n \in Nat /\ n # 0
  BY FS_CardinalityType, FS_EmptySet
<1> HIDE DEF n
<1>2. {b.version : b \in B} = 1..n
  BY DEF ContiguousVersions, n
<1>3. \A b \in B : b.version \in 1..n
  BY <1>2
<1>4. PICK last \in B : last.version = n
  <2>1. n \in {b.version : b \in B}
    BY <1>1, <1>2
  <2> QED
    BY <2>1
<1>5. Latest(B) \in B /\ \A c \in B : c.version <= Latest(B).version
  <2>1. \A c \in B : c.version <= last.version
    BY <1>1, <1>3, <1>4
  <2> QED
    BY <2>1 DEF Latest
<1>6. Latest(B).version = n
  BY <1>1, <1>3, <1>4, <1>5
<1> QED
  BY <1>1, <1>3, <1>5, <1>6 DEF n

\* One more version makes the chain one longer.
LEMMA ChainGrows ==
  ASSUME NEW B, IsFiniteSet(B), ContiguousVersions(B),
         NEW b, b \notin B, b.version = Cardinality(B) + 1
  PROVE  IsFiniteSet(B \cup {b}) /\ ContiguousVersions(B \cup {b})
<1> DEFINE n == Cardinality(B)
<1>1. n \in Nat /\ IsFiniteSet(B \cup {b}) /\ Cardinality(B \cup {b}) = n + 1
  BY FS_CardinalityType, FS_AddElement
<1>2. {c.version : c \in B} = 1..n
  BY DEF ContiguousVersions
<1> HIDE DEF n
<1>3. {c.version : c \in B \cup {b}} = (1..n) \cup {n + 1}
  <2>1. {c.version : c \in B \cup {b}} = {c.version : c \in B} \cup {b.version}
    OBVIOUS
  <2> QED
    BY <1>2, <2>1 DEF n
<1>4. (1..n) \cup {n + 1} = 1..(n + 1)
  BY <1>1
<1> QED
  BY <1>1, <1>3, <1>4 DEF ContiguousVersions

-----------------------------------------------------------------------------
(***************************************************************************)
(* One bundle.                                                             *)
(***************************************************************************)

\* What every observation brings to its bundle.
ObservationFits(o) ==
  /\ o.event \in Events /\ o.stage \in Horizons
  /\ o.id = <<o.event, o.stage>> /\ o.pre = Rank[o.event]
  /\ o.version \in Nat \ {0} /\ o.through \in Nat
  /\ \A x \in o.returns : x.horizon \in Horizons
  /\ ObservationOk(o)

\* The same of a bundle, and that its registry and its results name each
\* definition once.
RowInv(b) ==
  /\ b.event \in Events /\ b.stage \in Horizons /\ b.schema \in {1, 2}
  /\ b.observation = <<b.event, b.stage>> /\ b.pre = Rank[b.event]
  /\ b.version \in Nat \ {0} /\ b.through \in Nat /\ b.recorded \in Nat
  /\ UniqueKeys(b.registry)
  /\ DOMAIN b.eligibility = {Key(d) : d \in b.registry.hypotheses}
  /\ \A x \in b.returns : /\ x.horizon \in Horizons
                          /\ Order[x.horizon] <= Order[b.stage] /\ x.at <= b.through
  /\ \A x, y \in b.returns : x.horizon = y.horizon => x = y

\* A return of the bundle that a definition can be tried on.
Triable(b, d) == Feature(b, d) # None /\ \E x \in ReturnAt(b.returns, d.horizon) : x.value # None

Tried(b, d, t) ==
  /\ t.key = TrialKey(d, b.event)
  /\ Feature(b, d) # None
  /\ \E x \in ReturnAt(b.returns, d.horizon) : x.value # None /\ x.value = t.value /\ x.at = t.at

TrialsInv(b) == \A t \in b.trials : \E d \in b.registry.hypotheses : Tried(b, d, t)

TrialsDiffer(b) == \A t, u \in b.trials : t.key = u.key => t = u

\* A trial's identity names its definition, its event and its horizon.
LEMMA TrialKeyNames ==
  ASSUME NEW d, NEW e, NEW x, NEW f, TrialKey(d, e) = TrialKey(x, f)
  PROVE  e = f /\ Key(d) = Key(x) /\ d.horizon = x.horizon
BY DEF TrialKey, Key

\* An eligible definition is tried on the one return of its horizon.
LEMMA TrialOnItsReturn ==
  ASSUME NEW o, NEW d, NEW keys, \A x, y \in o.returns : x.horizon = y.horizon => x = y,
         Eligibility(o, d, keys) = "eligible"
  PROVE  /\ Feature(o, d) # None /\ TrialKey(d, o.event) \notin keys
         /\ \E x \in ReturnAt(o.returns, d.horizon) :
              x.value # None /\ x.value = Trial(o, d).value /\ x.at = Trial(o, d).at
         /\ Trial(o, d).key = TrialKey(d, o.event)
<1> DEFINE outcome == ReturnAt(o.returns, d.horizon)
<1>1. Feature(o, d) # None
  BY DEF Eligibility
<1>2. outcome # {}
  BY <1>1 DEF Eligibility
<1>3. \A x, y \in outcome : x = y
  BY DEF ReturnAt
<1>4. PICK x \in outcome : TRUE
  BY <1>2
<1>5. outcome = {x}
  BY <1>3, <1>4
<1>6. x.value # None
  BY <1>1, <1>5 DEF Eligibility
<1>7. TrialKey(d, o.event) \notin keys
  BY <1>1, <1>5, <1>6 DEF Eligibility
<1>8. (CHOOSE y \in outcome : TRUE) = x
  BY <1>5
<1>9. Trial(o, d).value = x.value /\ Trial(o, d).at = x.at /\ Trial(o, d).key = TrialKey(d, o.event)
  BY <1>8 DEF Trial
<1> QED
  BY <1>1, <1>4, <1>6, <1>7, <1>9

\* What scoring an observation writes down.
LEMMA Scored ==
  ASSUME NEW r, UniqueKeys(r), NEW o, ObservationFits(o), NEW keys, NEW time \in Nat,
         NEW b, b = Evaluate(r, o, keys, time)
  PROVE  /\ RowInv(b) /\ TrialsInv(b) /\ TrialsDiffer(b)
         /\ b.schema = 2 /\ b.registry = r /\ b.event = o.event /\ b.recorded = time
         /\ b.returns = o.returns
         /\ \A t \in b.trials : t.key \notin keys
         /\ \A d \in r.hypotheses :
              /\ Feature(b, d) = Feature(o, d)
              /\ b.eligibility[Key(d)] = Eligibility(o, d, keys)
              /\ Eligibility(o, d, keys) = "eligible" =>
                   \E t \in b.trials : t.key = TrialKey(d, b.event)
<1>1. /\ b.schema = 2 /\ b.registry = r /\ b.observation = o.id /\ b.version = o.version
      /\ b.supersedes = o.supersedes /\ b.stage = o.stage /\ b.event = o.event
      /\ b.through = o.through /\ b.pre = o.pre /\ b.reaction = o.reaction
      /\ b.returns = o.returns /\ b.recorded = time
  BY DEF Evaluate
<1>2. b.trials = {Trial(o, d) : d \in {x \in r.hypotheses : Eligibility(o, x, keys) = "eligible"}}
  BY DEF Evaluate
<1>3. b.eligibility = [k \in {Key(d) : d \in r.hypotheses} |->
                         Eligibility(o, CHOOSE d \in r.hypotheses : Key(d) = k, keys)]
  BY DEF Evaluate
<1>4. RowInv(b)
  BY <1>1, <1>3 DEF RowInv, ObservationFits, ObservationOk
<1>5. \A d : Feature(b, d) = Feature(o, d)
  BY <1>1 DEF Feature
<1>6. \A x, y \in o.returns : x.horizon = y.horizon => x = y
  BY DEF ObservationFits, ObservationOk
<1>7. TrialsInv(b)
  <2> SUFFICES ASSUME NEW t \in b.trials PROVE \E d \in r.hypotheses : Tried(b, d, t)
    BY <1>1 DEF TrialsInv
  <2>1. PICK d \in r.hypotheses : Eligibility(o, d, keys) = "eligible" /\ t = Trial(o, d)
    BY <1>2
  <2> QED
    BY <1>1, <1>5, <1>6, <2>1, TrialOnItsReturn DEF Tried
<1>8. TrialsDiffer(b)
  <2> SUFFICES ASSUME NEW t \in b.trials, NEW u \in b.trials, t.key = u.key PROVE t = u
    BY DEF TrialsDiffer
  <2>1. PICK d \in r.hypotheses : Eligibility(o, d, keys) = "eligible" /\ t = Trial(o, d)
    BY <1>2
  <2>2. PICK x \in r.hypotheses : Eligibility(o, x, keys) = "eligible" /\ u = Trial(o, x)
    BY <1>2
  <2>3. TrialKey(d, o.event) = TrialKey(x, o.event)
    BY <1>6, <2>1, <2>2, TrialOnItsReturn
  <2>4. Key(d) = Key(x)
    BY <2>3, TrialKeyNames
  <2> QED
    BY <2>1, <2>2, <2>4 DEF UniqueKeys
<1>9. \A t \in b.trials : t.key \notin keys
  BY <1>2, <1>6, TrialOnItsReturn
<1>10. ASSUME NEW d \in r.hypotheses
       PROVE  /\ b.eligibility[Key(d)] = Eligibility(o, d, keys)
              /\ Eligibility(o, d, keys) = "eligible" =>
                   \E t \in b.trials : t.key = TrialKey(d, b.event)
  <2>1. (CHOOSE x \in r.hypotheses : Key(x) = Key(d)) = d
    BY DEF UniqueKeys
  <2>2. b.eligibility[Key(d)] = Eligibility(o, d, keys)
    BY <1>3, <2>1
  <2>3. Eligibility(o, d, keys) = "eligible" => Trial(o, d) \in b.trials
    BY <1>2
  <2> QED
    BY <1>1, <1>6, <2>2, <2>3, TrialOnItsReturn
<1> QED
  BY <1>1, <1>4, <1>5, <1>7, <1>8, <1>9, <1>10

-----------------------------------------------------------------------------
(***************************************************************************)
(* A directory of bundles.                                                 *)
(***************************************************************************)

\* Why a definition has no trial in a bundle, or that it has one.
Explained(D, b) ==
  \A d \in b.registry.hypotheses :
    LET result == b.eligibility[Key(d)] IN
    \/ Feature(b, d) = None /\ result = "required_field_missing"
    \/ ReturnAt(b.returns, d.horizon) = {} /\ result = "horizon_not_matured"
    \/ /\ ~Triable(b, d) /\ \E x \in ReturnAt(b.returns, d.horizon) : x.value = None
       /\ result = "horizon_not_comparable"
    \/ /\ TrialKey(d, b.event) \in TrialKeys({c \in D : Before(c, b)})
       /\ result = "trial_already_recorded"
    \/ (\E t \in b.trials : t.key = TrialKey(d, b.event)) /\ result = "eligible"

\* A later observation of an event keeps what an earlier one reported.
Follows(b, c) ==
  /\ b.version < c.version
  /\ Order[b.stage] < Order[c.stage]
  /\ b.returns \subseteq c.returns
  /\ b.reaction = None \/ c.reaction = b.reaction

\* Two bundles of an event are both staged, and one follows the other.
OneLine(D) ==
  \A b, c \in D : b.event = c.event /\ b # c =>
    b.schema = 2 /\ c.schema = 2 /\ (Follows(b, c) \/ Follows(c, b))

NoTrialTwice(D) == \A b, c \in D : b # c => \A t \in b.trials, u \in c.trials : t.key # u.key

DirectoryInv(D) ==
  /\ HistoryOk(D)
  /\ \A b \in D : /\ RowInv(b) /\ TrialsInv(b) /\ TrialsDiffer(b)
                  /\ Explained(D, b)
  /\ OneLine(D)
  /\ NoTrialTwice(D)
  /\ \A e : IsFiniteSet(EventBundles(D, e))

\* What the check of one new observation establishes about the bundles before it.
LEMMA ChainedObservationFollows ==
  ASSUME NEW D, DirectoryInv(D), NEW o, ObservationFits(o), ObservationChainOk(D, o)
  PROVE  \A c \in D : c.event = o.event =>
           /\ c.schema = 2
           /\ EventBundles(D, o.event) # {}
           /\ c.version < o.version
           /\ Order[c.stage] < Order[o.stage]
           /\ c.returns \subseteq o.returns
           /\ c.reaction = None \/ o.reaction = c.reaction
<1> SUFFICES ASSUME NEW c \in D, c.event = o.event
             PROVE  /\ c.schema = 2
                    /\ EventBundles(D, o.event) # {}
                    /\ c.version < o.version
                    /\ Order[c.stage] < Order[o.stage]
                    /\ c.returns \subseteq o.returns
                    /\ c.reaction = None \/ o.reaction = c.reaction
  OBVIOUS
<1> DEFINE B == EventBundles(D, o.event)
           last == Latest(B)
<1>1. c.schema = 2
  BY DEF DirectoryInv, RowInv, ObservationChainOk
<1>2. c \in B /\ IsFiniteSet(B)
  BY <1>1 DEF EventBundles, DirectoryInv
<1>3. ContiguousVersions(B) /\ o.version = last.version + 1 /\ Extends(last, o)
  BY <1>2 DEF ObservationChainOk
<1>4. /\ last \in B /\ last.version = Cardinality(B) /\ Cardinality(B) \in Nat
      /\ c.version \in 1..Cardinality(B)
  BY <1>2, <1>3, LatestIs
<1>5. last \in D /\ last.event = c.event
  BY <1>4 DEF EventBundles
<1> HIDE DEF B, last
<1>6. c = last \/ Follows(c, last)
  BY <1>4, <1>5 DEF DirectoryInv, OneLine, Follows
<1>7. Order[c.stage] \in Nat /\ Order[last.stage] \in Nat /\ Order[o.stage] \in Nat
  BY <1>5 DEF DirectoryInv, RowInv, ObservationFits, Order, Horizons
<1> QED
  BY <1>1, <1>2, <1>3, <1>4, <1>6, <1>7 DEF Extends, Follows, B

\* A directory that loads still loads with the bundle of an observation that
\* passed the check of one.
LEMMA HistoryGrows ==
  ASSUME NEW D, DirectoryInv(D), NEW o, ObservationFits(o), ObservationChainOk(D, o),
         NEW n, RowInv(n), n.schema = 2, n.event = o.event, n.stage = o.stage,
         n.version = o.version, n.supersedes = o.supersedes, n.pre = o.pre,
         n.reaction = o.reaction, n.returns = o.returns, n.through = o.through
  PROVE  /\ HistoryOk(D \cup {n}) /\ OneLine(D \cup {n})
         /\ \A e : IsFiniteSet(EventBundles(D \cup {n}, e))
<1> DEFINE B == EventBundles(D, o.event)
           last == Latest(B)
<1>1. \A c \in D : c.event = n.event => c.schema = 2 /\ B # {} /\ Follows(c, n)
  BY ChainedObservationFollows DEF Follows
<1>2. n \notin D
  BY <1>1 DEF Follows, RowInv
<1>3. OneLine(D \cup {n})
  BY <1>1 DEF OneLine, DirectoryInv
<1>4. \A b, c \in D \cup {n} : b.observation = c.observation => b = c
  <2>1. ASSUME NEW c \in D PROVE c.observation # n.observation
    <3>1. c.observation = <<c.event, c.stage>> /\ n.observation = <<n.event, n.stage>>
      BY DEF DirectoryInv, RowInv
    <3>2. c.stage \in Horizons /\ n.stage \in Horizons
      BY DEF DirectoryInv, RowInv
    <3>3. ~(Order[n.stage] < Order[n.stage])
      BY <3>2 DEF Order, Horizons
    <3>4. c.event = n.event => c.stage # n.stage
      BY <1>1, <3>3 DEF Follows
    <3> QED
      BY <3>1, <3>4
  <2> QED
    BY <2>1 DEF DirectoryInv, HistoryOk
<1>5. /\ EventBundles(D \cup {n}, n.event) = B \cup {n} /\ n \notin B
      /\ \A e : e # n.event => EventBundles(D \cup {n}, e) = EventBundles(D, e)
  BY <1>2 DEF EventBundles
<1>6. IsFiniteSet(B)
  BY DEF DirectoryInv
<1>7. ContiguousVersions(B) /\ n.version = Cardinality(B) + 1
  <2>1. CASE B = {}
    <3>1. n.version = 1
      BY <2>1 DEF ObservationChainOk
    <3>2. Cardinality(B) = 0
      BY <2>1, FS_EmptySet
    <3> QED
      BY <2>1, <3>1, <3>2 DEF ContiguousVersions
  <2>2. CASE B # {}
    <3>1. ContiguousVersions(B) /\ o.version = last.version + 1
      BY <2>2 DEF ObservationChainOk
    <3>2. last.version = Cardinality(B)
      BY <1>6, <2>2, <3>1, LatestIs
    <3> QED
      BY <3>1, <3>2
  <2> QED
    BY <2>1, <2>2
<1>8. ContiguousVersions(B \cup {n}) /\ IsFiniteSet(B \cup {n})
  BY <1>5, <1>6, <1>7, ChainGrows
<1>9. ASSUME NEW b \in B \cup {n}, NEW c \in B \cup {n}, c.version = b.version + 1
      PROVE  StageFollows(b, c)
  <2>1. B # {}
    BY <1>5, <1>9 DEF RowInv
  <2>2. /\ Cardinality(B) \in Nat /\ last \in B /\ last.version = Cardinality(B)
        /\ \A x \in B : x.version \in 1..Cardinality(B)
    BY <1>6, <1>7, <2>1, LatestIs
  <2>3. CASE b \in B /\ c \in B
    <3>1. b \in D /\ b.schema = 2 /\ b.event = o.event
      BY <2>3 DEF EventBundles
    <3> QED
      BY <1>9, <2>3, <3>1 DEF DirectoryInv, HistoryOk
  <2>4. CASE b \in B /\ c = n
    <3>1. b.version = last.version
      BY <1>7, <1>9, <2>2, <2>4
    <3>2. b \in D /\ last \in D /\ b.event = last.event
      BY <2>2, <2>4 DEF EventBundles
    <3>3. b = last
      BY <2>2, <2>4, <3>1, <3>2 DEF DirectoryInv, OneLine, Follows
    <3>4. Extends(last, o) /\ o.supersedes = last.observation
      BY <2>1 DEF ObservationChainOk
    <3> HIDE DEF B, last
    <3> QED
      BY <2>4, <3>3, <3>4 DEF StageFollows, Extends
  <2>5. CASE b = n
    BY <1>7, <1>9, <2>2, <2>5
  <2> QED
    BY <2>3, <2>4, <2>5
<1>10. n.version = 1 => n.supersedes = None
  BY DEF ObservationFits, ObservationOk
<1>11. ASSUME NEW b \in D \cup {n}, b.schema = 2
       PROVE  LET E == EventBundles(D \cup {n}, b.event) IN
              /\ ContiguousVersions(E)
              /\ b.version = 1 => b.supersedes = None
              /\ \A c \in E : c.version = b.version + 1 => StageFollows(b, c)
  <2>1. CASE b.event = n.event
    <3>1. b \in B \cup {n}
      BY <1>11, <2>1 DEF EventBundles
    <3>2. b.version = 1 => b.supersedes = None
      BY <1>10, <1>11, <3>1 DEF DirectoryInv, HistoryOk, EventBundles
    <3> HIDE DEF B
    <3> QED
      BY <1>5, <1>8, <1>9, <2>1, <3>1, <3>2
  <2>2. CASE b.event # n.event
    <3>1. b \in D /\ EventBundles(D \cup {n}, b.event) = EventBundles(D, b.event)
      BY <1>5, <2>2
    <3> QED
      BY <1>11, <3>1 DEF DirectoryInv, HistoryOk
  <2> QED
    BY <2>1, <2>2
<1>12. HistoryOk(D \cup {n})
  BY <1>4, <1>11 DEF HistoryOk
<1>13. ASSUME NEW e PROVE IsFiniteSet(EventBundles(D \cup {n}, e))
  BY <1>5, <1>8 DEF DirectoryInv
<1> QED
  BY <1>3, <1>12, <1>13

\* A definition that is tried, or was tried before, or says why it is not.
LEMMA ScoredIsExplained ==
  ASSUME NEW r, UniqueKeys(r), NEW o, ObservationFits(o), NEW keys, NEW time \in Nat,
         NEW n, n = Evaluate(r, o, keys, time), NEW E,
         \A d \in r.hypotheses : TrialKey(d, n.event) \in keys =>
           TrialKey(d, n.event) \in TrialKeys({c \in E : Before(c, n)})
  PROVE  Explained(E, n)
<1>1. /\ n.registry = r /\ n.event = o.event /\ n.returns = o.returns
      /\ \A d \in r.hypotheses :
           /\ Feature(n, d) = Feature(o, d)
           /\ n.eligibility[Key(d)] = Eligibility(o, d, keys)
           /\ Eligibility(o, d, keys) = "eligible" =>
                \E t \in n.trials : t.key = TrialKey(d, n.event)
  BY Scored
<1> SUFFICES ASSUME NEW d \in r.hypotheses
      PROVE  \/ Feature(n, d) = None /\ n.eligibility[Key(d)] = "required_field_missing"
             \/ /\ ReturnAt(n.returns, d.horizon) = {}
                /\ n.eligibility[Key(d)] = "horizon_not_matured"
             \/ /\ ~Triable(n, d) /\ \E x \in ReturnAt(n.returns, d.horizon) : x.value = None
                /\ n.eligibility[Key(d)] = "horizon_not_comparable"
             \/ /\ TrialKey(d, n.event) \in TrialKeys({c \in E : Before(c, n)})
                /\ n.eligibility[Key(d)] = "trial_already_recorded"
             \/ /\ \E t \in n.trials : t.key = TrialKey(d, n.event)
                /\ n.eligibility[Key(d)] = "eligible"
  BY <1>1 DEF Explained
<1>2. /\ Feature(n, d) = Feature(o, d)
      /\ n.eligibility[Key(d)] = Eligibility(o, d, keys)
      /\ Eligibility(o, d, keys) = "eligible" => \E t \in n.trials : t.key = TrialKey(d, n.event)
  BY <1>1
<1> DEFINE outcome == ReturnAt(o.returns, d.horizon)
<1>3. \A x, y \in outcome : x = y
  BY DEF ReturnAt, ObservationFits, ObservationOk
<1>4. CASE Feature(o, d) = None
  BY <1>2, <1>4 DEF Eligibility
<1>5. CASE Feature(o, d) # None /\ outcome = {}
  BY <1>1, <1>2, <1>5 DEF Eligibility
<1>6. CASE Feature(o, d) # None /\ \E x \in outcome : x.value = None
  <2>1. PICK x \in outcome : x.value = None
    BY <1>6
  <2>2. outcome = {x}
    BY <1>3, <2>1
  <2>3. Eligibility(o, d, keys) = "horizon_not_comparable"
    BY <1>6, <2>1, <2>2 DEF Eligibility
  <2> QED
    BY <1>1, <1>2, <2>1, <2>2, <2>3 DEF Triable
<1>7. CASE Feature(o, d) # None /\ \E x \in outcome : x.value # None
  <2>1. PICK x \in outcome : x.value # None
    BY <1>7
  <2>2. outcome = {x}
    BY <1>3, <2>1
  <2>3. Eligibility(o, d, keys) = IF TrialKey(d, o.event) \in keys
                                    THEN "trial_already_recorded" ELSE "eligible"
    BY <1>7, <2>1, <2>2 DEF Eligibility
  <2> QED
    BY <1>1, <1>2, <2>3
<1> QED
  BY <1>4, <1>5, <1>6, <1>7

\* What is explained stands in the summary.
LEMMA ExplainedIsOk ==
  ASSUME NEW D, NEW b, RowInv(b), Explained(D, b)
  PROVE  EligibilityOk(D, b.registry, b)
<1>1. DOMAIN b.eligibility = {Key(d) : d \in b.registry.hypotheses}
  BY DEF RowInv
<1> QED
  BY <1>1 DEF EligibilityOk, Explained

\* What can be tried has been tried, here or at an earlier stage.
LEMMA TriableIsTried ==
  ASSUME NEW D, NEW b \in D, Explained(D, b), NEW d \in b.registry.hypotheses, Triable(b, d)
  PROVE  \E c \in D : \E t \in c.trials : t.key = TrialKey(d, b.event)
<1>1. \/ TrialKey(d, b.event) \in TrialKeys({c \in D : Before(c, b)})
      \/ \E t \in b.trials : t.key = TrialKey(d, b.event)
  BY DEF Explained, Triable
<1> QED
  BY <1>1 DEF TrialKeys

\* The keys of a set of bundles are those of its trials.
LEMMA KeyOfTrial ==
  ASSUME NEW E, NEW c \in E, NEW t \in c.trials
  PROVE  t.key \in TrialKeys(E)
BY DEF TrialKeys

\* And it keeps what is said of the trials.
LEMMA DirectoryGrows ==
  ASSUME NEW D, DirectoryInv(D), NEW r, UniqueKeys(r), NEW o, ObservationFits(o),
         ObservationChainOk(D, o), NEW time \in Nat,
         NEW n, n = Evaluate(r, o, TrialKeys(D), time)
  PROVE  DirectoryInv(D \cup {n})
<1> DEFINE keys == TrialKeys(D)
           A == D \cup {n}
<1>1. /\ RowInv(n) /\ TrialsInv(n) /\ TrialsDiffer(n)
      /\ n.schema = 2 /\ n.registry = r /\ n.event = o.event
      /\ \A t \in n.trials : t.key \notin keys
      /\ \A d \in r.hypotheses :
           /\ Feature(n, d) = Feature(o, d)
           /\ n.eligibility[Key(d)] = Eligibility(o, d, keys)
           /\ Eligibility(o, d, keys) = "eligible" =>
                \E t \in n.trials : t.key = TrialKey(d, n.event)
  BY Scored
<1>2. /\ n.stage = o.stage /\ n.version = o.version /\ n.supersedes = o.supersedes
      /\ n.pre = o.pre /\ n.reaction = o.reaction /\ n.returns = o.returns
      /\ n.through = o.through
  BY DEF Evaluate
<1>3. HistoryOk(A) /\ OneLine(A) /\ \A e : IsFiniteSet(EventBundles(A, e))
  BY <1>1, <1>2, HistoryGrows
<1>4. \A k : k \in keys <=> \E c \in D : \E t \in c.trials : t.key = k
  BY DEF TrialKeys
<1> HIDE DEF keys
<1>5. NoTrialTwice(A)
  BY <1>1, <1>4 DEF NoTrialTwice, DirectoryInv
<1>6. ASSUME NEW b \in D PROVE RowInv(b) /\ TrialsInv(b) /\ TrialsDiffer(b) /\ Explained(A, b)
  <2>1. TrialKeys({c \in D : Before(c, b)}) \subseteq TrialKeys({c \in A : Before(c, b)})
    BY DEF TrialKeys
  <2>2. RowInv(b) /\ TrialsInv(b) /\ TrialsDiffer(b) /\ Explained(D, b)
    BY DEF DirectoryInv
  <2> HIDE DEF A
  <2> QED
    BY <2>1, <2>2 DEF Explained
<1>7. ASSUME NEW d \in r.hypotheses, TrialKey(d, n.event) \in keys
      PROVE  TrialKey(d, n.event) \in TrialKeys({c \in A : Before(c, n)})
  <2>1. PICK c \in D : \E t \in c.trials : t.key = TrialKey(d, n.event)
    BY <1>4, <1>7
  <2>2. PICK t \in c.trials : t.key = TrialKey(d, n.event)
    BY <2>1
  <2>3. PICK x \in c.registry.hypotheses : t.key = TrialKey(x, c.event)
    BY DEF DirectoryInv, TrialsInv, Tried
  <2>4. TrialKey(d, n.event) = TrialKey(x, c.event)
    BY <2>2, <2>3
  <2>5. c.event = n.event
    BY <2>4, TrialKeyNames
  <2>6. Before(c, n)
    BY <1>1, <1>2, <2>5, ChainedObservationFollows DEF Before
  <2> DEFINE earlier == {b \in A : Before(b, n)}
  <2>7. c \in earlier
    BY <2>6
  <2> HIDE DEF earlier
  <2>8. TrialKey(d, n.event) \in TrialKeys(earlier)
    BY <2>2, <2>7, KeyOfTrial
  <2> QED
    BY <2>8 DEF earlier
<1>8. Explained(A, n)
  <2> HIDE DEF A
  <2> QED
    BY <1>7, ScoredIsExplained DEF keys
<1> QED
  BY <1>1, <1>3, <1>5, <1>6, <1>8 DEF DirectoryInv

-----------------------------------------------------------------------------
(***************************************************************************)
(* The record.                                                             *)
(***************************************************************************)

\* What is known has come by now, and so has what was recorded from it.
WorldInv ==
  /\ scope \in Scopes /\ today \in 0..scope.days
  /\ known \in [Events -> SUBSET Facts]
  /\ DOMAIN review = Events
  /\ \A e \in Events : review[e] # None => review[e].at \in 0..today
  /\ \A e \in Events, h \in {"D1", "D5"} : MilestoneRole[h] \in known[e] => Matures[e][h] <= today
  /\ standard \in scope.standards
  /\ \A v \in verdicts : v.standard \in scope.standards
  /\ \A r, s \in registries : r.version = s.version => r = s
  /\ \A r \in registries : r.frozenAt \in 0..today

BundlesInTime == \A b \in bundles : b.recorded \in 0..today /\ Matured(b.event, "D1")

LedgerInv == WorldInv /\ BundlesInTime /\ RulesInv /\ DirectoryInv(bundles)

\* The bundle of an earlier implementation is one that scoring could have written.
LEMMA LegacyFits ==
  ASSUME NEW e \in Legacy, NEW b \in {LegacyBundle(e), LegacyBundleV1(e)}, NEW D
  PROVE  /\ RowInv(b) /\ TrialsInv(b) /\ TrialsDiffer(b) /\ Explained(D, b)
         /\ b.event = e /\ b.recorded = 0 /\ b.observation = <<e, "D1">>
         /\ b.version = 1 /\ b.supersedes = None
<1> DEFINE o == [id |-> <<e, "D1">>, version |-> 1, supersedes |-> None, stage |-> "D1",
                 event |-> e, through |-> 0, pre |-> Rank[e],
                 reaction |-> "GU_continued", returns |-> {FirstReturn(e)}]
           a == LegacyBundle(e)
<1>1. ObservationFits(o)
  <2>1. e \in Events /\ "D1" \in Horizons
    BY ScopesAssumption DEF Horizons
  <2>2. FirstReturn(e).horizon = "D1" /\ FirstReturn(e).at = 0
    BY DEF FirstReturn
  <2>3. Order["D1"] <= Order["D1"]
    BY DEF Order, Horizons
  <2>4. ReturnAt({FirstReturn(e)}, "D1") = {FirstReturn(e)}
    BY <2>2 DEF ReturnAt
  <2>5. ObservationOk(o)
    BY <2>2, <2>3, <2>4 DEF ObservationOk
  <2> QED
    BY <2>1, <2>2, <2>5 DEF ObservationFits
<1>2. UniqueKeys(FirstRegistry)
  BY DesignsAssumption DEF UniqueKeys, FirstRegistry
<1>3. a = Evaluate(FirstRegistry, o, {}, 0)
  BY DEF LegacyBundle
<1>4. /\ RowInv(a) /\ TrialsInv(a) /\ TrialsDiffer(a) /\ Explained(D, a)
      /\ a.event = e /\ a.recorded = 0
  <2> HIDE DEF o, a
  <2>1. RowInv(a) /\ TrialsInv(a) /\ TrialsDiffer(a) /\ a.event = o.event /\ a.recorded = 0
    BY <1>1, <1>2, <1>3, Scored
  <2>2. Explained(D, a)
    BY <1>1, <1>2, <1>3, ScoredIsExplained
  <2> QED
    BY <2>1, <2>2 DEF o
<1>5. a.observation = <<e, "D1">> /\ a.version = 1 /\ a.supersedes = None
  BY <1>3 DEF Evaluate
<1>6. CASE b = a
  BY <1>4, <1>5, <1>6
<1>7. CASE b = LegacyBundleV1(e)
  <2>1. b = [a EXCEPT !.schema = 1]
    BY <1>7 DEF LegacyBundleV1
  <2>2. /\ b.schema = 1 /\ b.registry = a.registry /\ b.observation = a.observation
        /\ b.version = a.version /\ b.supersedes = a.supersedes /\ b.stage = a.stage
        /\ b.event = a.event /\ b.through = a.through /\ b.pre = a.pre
        /\ b.reaction = a.reaction /\ b.returns = a.returns /\ b.recorded = a.recorded
        /\ b.trials = a.trials /\ b.eligibility = a.eligibility
    BY <1>3, <2>1 DEF Evaluate
  <2> HIDE DEF a
  <2>3. RowInv(b)
    BY <1>4, <2>2 DEF RowInv
  <2>4. \A d : Feature(b, d) = Feature(a, d)
    BY <2>2 DEF Feature
  <2>5. TrialsInv(b) /\ TrialsDiffer(b)
    BY <1>4, <2>2, <2>4 DEF TrialsInv, TrialsDiffer, Tried
  <2>6. \A c : Before(c, b) <=> Before(c, a)
    BY <2>2 DEF Before
  <2>7. {c \in D : Before(c, b)} = {c \in D : Before(c, a)}
    BY <2>6
  <2>8. Explained(D, b)
    BY <1>4, <2>2, <2>4, <2>7 DEF Explained, Triable
  <2> QED
    BY <1>4, <1>5, <2>2, <2>3, <2>5, <2>8
<1> QED
  BY <1>6, <1>7

\* The record starts with at most one bundle for an event.
LEMMA InitLedger == Init => LedgerInv
<1> SUFFICES ASSUME Init PROVE LedgerInv
  OBVIOUS
<1>1. /\ scope \in Scopes /\ today = 0 /\ known = scope.known
      /\ review = [e \in Events |-> None] /\ standard \in scope.standards
      /\ verdicts = {} /\ registries = {FirstRegistry}
  BY DEF Init
<1>2. PICK bundle \in [Legacy -> {1, 2}] :
        trialFiles = [p \in {<<e, "D1">> : e \in Legacy} |->
                        IF bundle[p[1]] = 1 THEN LegacyBundleV1(p[1]) ELSE LegacyBundle(p[1])]
  BY DEF Init
<1>3. \A b \in bundles : \E e \in Legacy : b \in {LegacyBundle(e), LegacyBundleV1(e)}
  BY <1>2 DEF bundles, Range
<1>4. \A b \in bundles :
        /\ RowInv(b) /\ TrialsInv(b) /\ TrialsDiffer(b) /\ Explained(bundles, b)
        /\ b.event \in Legacy /\ b.recorded = 0 /\ b.observation = <<b.event, "D1">>
        /\ b.version = 1 /\ b.supersedes = None
  BY <1>3, LegacyFits
<1>5. \A b, c \in bundles : b.event = c.event => b = c
  <2>1. ASSUME NEW b \in bundles
        PROVE  b = IF bundle[b.event] = 1 THEN LegacyBundleV1(b.event) ELSE LegacyBundle(b.event)
    <3>1. PICK e \in Legacy :
            b = IF bundle[e] = 1 THEN LegacyBundleV1(e) ELSE LegacyBundle(e)
      BY <1>2 DEF bundles, Range
    <3>2. b \in {LegacyBundle(e), LegacyBundleV1(e)}
      BY <3>1
    <3>3. b.event = e
      BY <3>2, LegacyFits
    <3> QED
      BY <3>1, <3>3
  <2> QED
    BY <2>1
<1>6. scope.days \in Nat /\ scope.known \in [Events -> SUBSET Facts]
  BY <1>1, ScopesAssumption
<1>7. WorldInv
  <2>1. \A e \in Events, h \in {"D1", "D5"} : MilestoneRole[h] \in known[e] => Matures[e][h] <= today
    BY <1>1, ScopesAssumption
  <2>2. FirstRegistry.frozenAt = 0
    BY DEF FirstRegistry
  <2>3. \A r, s \in registries : r = s
    BY <1>1
  <2> QED
    BY <1>1, <1>6, <2>1, <2>2, <2>3 DEF WorldInv
<1>8. BundlesInTime
  <2>1. \A e \in Legacy : Matured(e, "D1")
    BY <1>1, ScopesAssumption DEF Matured
  <2> QED
    BY <1>1, <1>4, <2>1 DEF BundlesInTime
<1>9. HistoryOk(bundles)
  <2>1. \A b, c \in bundles : b.observation = c.observation => b = c
    BY <1>4, <1>5
  <2>2. ASSUME NEW b \in bundles, b.schema = 2
        PROVE  LET E == EventBundles(bundles, b.event) IN
               /\ ContiguousVersions(E)
               /\ b.version = 1 => b.supersedes = None
               /\ \A c \in E : c.version = b.version + 1 => StageFollows(b, c)
    <3> DEFINE E == EventBundles(bundles, b.event)
    <3>1. E = {b}
      BY <1>5, <2>2 DEF EventBundles
    <3>2. b.version = 1 /\ b.supersedes = None
      BY <1>4
    <3>3. Cardinality({b}) = 1
      BY FS_Singleton
    <3>4. ContiguousVersions({b})
      BY <3>2, <3>3 DEF ContiguousVersions
    <3> HIDE DEF E
    <3>5. \A c \in E : c.version # b.version + 1
      BY <3>1, <3>2
    <3> QED
      BY <3>1, <3>2, <3>4, <3>5 DEF E
  <2> QED
    BY <2>1, <2>2 DEF HistoryOk
<1>10. \A e : IsFiniteSet(EventBundles(bundles, e))
  <2> TAKE e
  <2>1. CASE EventBundles(bundles, e) = {}
    BY <2>1, FS_EmptySet
  <2>2. ASSUME NEW b \in EventBundles(bundles, e) PROVE IsFiniteSet(EventBundles(bundles, e))
    <3>1. EventBundles(bundles, e) = {b}
      BY <1>5 DEF EventBundles
    <3> QED
      BY <3>1, FS_Singleton
  <2> QED
    BY <2>1, <2>2
<1>11. NoTrialTwice(bundles)
  <2> SUFFICES ASSUME NEW b \in bundles, NEW c \in bundles, NEW t \in b.trials, NEW u \in c.trials,
                      t.key = u.key
               PROVE  b = c
    BY DEF NoTrialTwice
  <2>1. TrialsInv(b) /\ TrialsInv(c)
    BY <1>4
  <2>2. PICK d \in b.registry.hypotheses : t.key = TrialKey(d, b.event)
    BY <2>1 DEF TrialsInv, Tried
  <2>3. PICK x \in c.registry.hypotheses : u.key = TrialKey(x, c.event)
    BY <2>1 DEF TrialsInv, Tried
  <2>4. TrialKey(d, b.event) = TrialKey(x, c.event)
    BY <2>2, <2>3
  <2>5. b.event = c.event
    BY <2>4, TrialKeyNames
  <2> QED
    BY <1>5, <2>5
<1>12. DirectoryInv(bundles)
  <2>1. \A b \in bundles : RowInv(b) /\ TrialsInv(b) /\ TrialsDiffer(b) /\ Explained(bundles, b)
    BY <1>4
  <2> QED
    BY <1>5, <1>9, <1>10, <1>11, <2>1 DEF DirectoryInv, OneLine
<1> QED
  BY <1>7, <1>8, <1>12, InitRules DEF LedgerInv

\* A return that can be reported was there by now.
LEMMA ReturnsHaveCome ==
  ASSUME WorldInv, NEW e \in Events, NEW h \in Horizons, Matured(e, h)
  PROVE  AuthoritativeReturn(e, h).at \in Nat /\ AuthoritativeReturn(e, h).at <= today
<1>1. today \in Nat
  BY ScopesAssumption DEF WorldInv
<1>2. CASE h = "D20"
  <2>1. review[e] # None /\ AuthoritativeReturn(e, h).at = review[e].at
    BY <1>2 DEF Matured, AuthoritativeReturn
  <2>2. review[e].at \in 0..today
    BY <2>1 DEF WorldInv
  <2> QED
    BY <1>1, <2>1, <2>2
<1>3. CASE h # "D20"
  <2>1. h \in {"D1", "D5"} /\ MilestoneRole[h] \in known[e]
        /\ AuthoritativeReturn(e, h).at = Matures[e][h]
    BY <1>3 DEF Matured, AuthoritativeReturn, Horizons
  <2>2. Matures[e][h] \in Nat /\ Matures[e][h] <= today
    BY <2>1, ScopesAssumption DEF WorldInv
  <2> QED
    BY <2>1, <2>2
<1> QED
  BY <1>2, <1>3

\* What an author can submit fits the rules of an observation.
LEMMA SubmittedFits ==
  ASSUME WorldInv, DirectoryInv(bundles), NEW e \in Events, NEW o \in Observations(e),
         HistoryOk(bundles)
  PROVE  ObservationFits(o) /\ o.event = e
<1> DEFINE B == EventBundles(bundles, e)
           matured == {h \in Horizons : Matured(e, h)}
           next == IF B = {} THEN {} ELSE {<<Latest(B).version + 1, Latest(B).observation>>}
           Submitted(stage, claim, reaction, H) ==
             [id |-> <<e, stage>>, version |-> claim[1], supersedes |-> claim[2],
              stage |-> stage, event |-> e, through |-> AuthoritativeReturn(e, stage).at,
              pre |-> Rank[e], reaction |-> reaction,
              returns |-> {AuthoritativeReturn(e, h) : h \in H \cup {stage}}]
<1>10. PICK stage \in matured :
         /\ ObservationOk(o)
         /\ o \in {Submitted(stage, claim, reaction, H) :
                     claim \in {<<1, None>>} \cup next,
                     reaction \in {RecordedReaction(bundles, e), ReactionLabel(e)},
                     H \in SUBSET {h \in matured : Order[h] < Order[stage]}}
  BY DEF Observations
<1>11. PICK claim \in {<<1, None>>} \cup next,
            reaction \in {RecordedReaction(bundles, e), ReactionLabel(e)},
            H \in SUBSET {h \in matured : Order[h] < Order[stage]} :
         o = Submitted(stage, claim, reaction, H)
  BY <1>10
<1>1. /\ stage \in Horizons /\ H \subseteq Horizons
      /\ Matured(e, stage) /\ ObservationOk(o)
      /\ o.id = <<e, stage>> /\ o.version = claim[1] /\ o.stage = stage /\ o.event = e
      /\ o.through = AuthoritativeReturn(e, stage).at /\ o.pre = Rank[e]
      /\ o.returns = {AuthoritativeReturn(e, h) : h \in H \cup {stage}}
  BY <1>10, <1>11
<1> HIDE DEF Submitted
<1>2. AuthoritativeReturn(e, stage).at \in Nat
  BY <1>1, ReturnsHaveCome
<1>3. \A h : AuthoritativeReturn(e, h).horizon = h
  BY DEF AuthoritativeReturn
<1>4. \A x \in o.returns : x.horizon \in Horizons
  BY <1>1, <1>3
<1>5. o.version \in Nat \ {0}
  <2>1. CASE claim = <<1, None>>
    BY <1>1, <2>1
  <2>2. CASE B # {} /\ claim = <<Latest(B).version + 1, Latest(B).observation>>
    <3>1. Latest(B).version \in Nat
      <4>1. PICK b \in B : TRUE
        BY <2>2
      <4>2. b \in bundles /\ b.schema = 2 /\ b.event = e
        BY <4>1 DEF EventBundles
      <4>3. ContiguousVersions(B) /\ IsFiniteSet(B)
        BY <4>2 DEF HistoryOk, DirectoryInv
      <4> QED
        BY <2>2, <4>3, LatestIs
    <3> HIDE DEF B
    <3> QED
      BY <1>1, <2>2, <3>1
  <2> QED
    BY <1>1, <2>1, <2>2
<1> QED
  BY <1>1, <1>2, <1>4, <1>5 DEF ObservationFits

\* A step that records nothing keeps the record; one that does, adds a bundle to it.
LEMMA NextLedger == LedgerInv /\ [Next]_vars => LedgerInv'
<1> SUFFICES ASSUME LedgerInv, [Next]_vars PROVE LedgerInv'
  OBVIOUS
<1> USE DEF LedgerInv
<1>1. RulesInv'
  BY NextRules
<1>2. scope.days \in Nat /\ today \in Nat
  BY ScopesAssumption DEF WorldInv
<1>3. ASSUME UNCHANGED trialFiles, WorldInv', today' >= today,
             \A e : Matured(e, "D1") => Matured(e, "D1")'
      PROVE  LedgerInv'
  <2>1. bundles' = bundles
    BY <1>3 DEF bundles
  <2>2. today' \in Nat
    BY <1>2, <1>3 DEF WorldInv
  <2>3. BundlesInTime'
    BY <1>2, <1>3, <2>1, <2>2 DEF BundlesInTime
  <2> QED
    BY <1>1, <1>3, <2>1, <2>3
<1>4. CASE Tick
  <2>1. /\ today' = today + 1 /\ today + 1 \in 0..scope.days
        /\ UNCHANGED <<scope, known, review, standard, verdicts, registries, trialFiles>>
    BY <1>2, <1>4 DEF Tick, authority, WorldInv
  <2>2. \A n : n \in 0..today => n \in 0..(today + 1)
    BY <1>2
  <2>3. \A e \in Events, h \in {"D1", "D5"} :
          MilestoneRole[h] \in known[e] => Matures[e][h] <= today + 1
    BY <1>2, ScopesAssumption DEF WorldInv, Horizons
  <2>4. WorldInv'
    BY <2>1, <2>2, <2>3 DEF WorldInv
  <2> QED
    BY <1>2, <1>3, <2>1, <2>4 DEF Matured
<1>5. CASE ChangeStandard
  BY <1>2, <1>3, <1>5 DEF ChangeStandard, authority, WorldInv, Matured
<1>6. ASSUME NEW e \in Events, WriteReview(e) PROVE LedgerInv'
  <2>1. /\ UNCHANGED <<scope, today, known, standard, verdicts, registries, trialFiles>>
        /\ \E r \in scope.reviews[e] :
             review' = [review EXCEPT ![e] = [value |-> r.value, basis |-> r.basis, at |-> today]]
    BY <1>6 DEF WriteReview
  <2>2. DOMAIN review' = Events /\ review'[e].at = today
        /\ \A f \in Events : f # e => review'[f] = review[f]
    BY <2>1 DEF WorldInv
  <2>3. WorldInv'
    BY <1>2, <2>1, <2>2 DEF WorldInv
  <2> QED
    BY <1>2, <1>3, <2>1, <2>3 DEF Matured
<1>7. ASSUME NEW e \in Events, NEW fact \in Facts, Learn(e, fact) PROVE LedgerInv'
  <2>1. /\ UNCHANGED <<scope, today, review, standard, verdicts, registries, trialFiles>>
        /\ known' = [known EXCEPT ![e] = @ \cup {fact}]
        /\ \A h \in {"D1", "D5"} : fact = MilestoneRole[h] => Matures[e][h] <= today
    BY <1>2, <1>7, ScopesAssumption DEF Learn, Horizons
  <2>2. known' \in [Events -> SUBSET Facts]
    BY <2>1 DEF WorldInv
  <2>3. \A f \in Events : known'[f] = IF f = e THEN known[f] \cup {fact} ELSE known[f]
    BY <2>1 DEF WorldInv
  <2>4. WorldInv'
    BY <2>1, <2>2, <2>3 DEF WorldInv
  <2>5. \A f : Matured(f, "D1") => Matured(f, "D1")'
    <3>1. \A f : known[f] \subseteq known'[f]
      BY <2>1 DEF WorldInv
    <3> QED
      BY <3>1 DEF Matured
  <2> QED
    BY <1>2, <1>3, <2>1, <2>4, <2>5
<1>8. ASSUME NEW r \in registries, EvaluateSourceValidity(r) \/ Summarize(r) PROVE LedgerInv'
  <2>1. UNCHANGED <<scope, today, known, review, standard, registries, trialFiles>>
    BY <1>8 DEF EvaluateSourceValidity, Summarize, authority
  <2>2. \A v \in verdicts' : v.standard \in scope.standards
    BY <1>8 DEF EvaluateSourceValidity, Summarize, WorldInv
  <2>3. WorldInv'
    BY <2>1, <2>2 DEF WorldInv
  <2> QED
    BY <1>2, <1>3, <2>1, <2>3 DEF Matured
<1>9. ASSUME NEW design \in scope.designs, NEW v \in 2..MaxVersion, FreezeRegistry(design, v)
      PROVE  LedgerInv'
  <2> DEFINE r == [version |-> v, frozenAt |-> today,
                   policy |-> design.policy, hypotheses |-> design.hypotheses]
  <2>1. /\ UNCHANGED <<scope, today, known, review, standard, verdicts, trialFiles>>
        /\ registries' = {x \in registries : x.version # v} \cup {r}
    BY <1>9 DEF FreezeRegistry, authority
  <2>2. r.version = v /\ r.frozenAt = today
    OBVIOUS
  <2> HIDE DEF r
  <2>3. WorldInv'
    BY <1>2, <2>1, <2>2 DEF WorldInv
  <2> QED
    BY <1>2, <1>3, <2>1, <2>3 DEF Matured
<1>10. ASSUME NEW e \in Events, NEW o \in Observations(e), Accepted(o),
              NEW r \in registries, RecordEvent(r, o) \/ RecordTrials(r, o)
       PROVE  LedgerInv'
  <2> DEFINE n == BundleOf(r, o)
  <2>1. /\ UNCHANGED <<scope, today, known, review, standard, verdicts, registries>>
        /\ \E path \in Paths(o) : WriteNew(path, n)
    BY <1>10 DEF RecordEvent, RecordTrials, authority
  <2>2. bundles' = bundles \cup {n}
    BY <2>1, WriteNewAdds
  <2>3. ObservationFits(o) /\ o.event = e
    BY <1>10, SubmittedFits DEF Accepted
  <2>4. UniqueKeys(r) /\ ObservationChainOk(bundles, o) /\ n = Evaluate(r, o, TrialKeys(bundles), today)
    BY <1>10 DEF RulesInv, Accepted, BundleOf
  <2> HIDE DEF n
  <2>5. DirectoryInv(bundles \cup {n})
    BY <1>2, <2>3, <2>4, DirectoryGrows
  <2>6. n.recorded = today /\ n.event = e
    BY <2>3, <2>4 DEF Evaluate
  <2>7. Matured(e, "D1")
    BY <1>10, <2>3 DEF Accepted, AuthorityOk
  <2>8. WorldInv'
    BY <2>1 DEF WorldInv
  <2>9. BundlesInTime'
    BY <1>2, <2>1, <2>2, <2>6, <2>7 DEF BundlesInTime, Matured
  <2> QED
    BY <1>1, <2>2, <2>5, <2>8, <2>9
<1>11. CASE UNCHANGED vars
  BY <1>2, <1>3, <1>11 DEF vars, WorldInv, Matured
<1> QED
  BY <1>4, <1>5, <1>6, <1>7, <1>8, <1>9, <1>10, <1>11 DEF Next

\* The invariant of the record, from which the rest follows.
LEMMA LedgerAlways == Spec => []LedgerInv
  BY InitLedger, NextLedger, PTL DEF Spec

\* Whatever facts, registries, standards and reviews come, in whatever order: the
\* record is typed, and no trial lacks its number (models.py: return_value is a
\* float; evaluator.py gives no trial to a return that is not comparable).
THEOREM LedgerIsTyped == Spec => []TypeOK
<1>1. LedgerInv => TypeOK
  <2> SUFFICES ASSUME LedgerInv PROVE TypeOK
    OBVIOUS
  <2>1. WorldInv /\ BundlesInTime /\ DirectoryInv(bundles)
    BY DEF LedgerInv
  <2>2. ASSUME NEW b \in bundles
        PROVE  /\ b.recorded \in 0..scope.days
               /\ DOMAIN b.eligibility = {Key(d) : d \in b.registry.hypotheses}
               /\ \A t \in b.trials : t.value # None
    <3>1. b.recorded \in 0..scope.days
      BY <2>1, ScopesAssumption DEF WorldInv, BundlesInTime
    <3>2. RowInv(b) /\ TrialsInv(b)
      BY <2>1 DEF DirectoryInv
    <3> QED
      BY <3>1, <3>2 DEF RowInv, TrialsInv, Tried
  <2> QED
    BY <2>1, <2>2 DEF TypeOK, WorldInv
<1> QED
  BY <1>1, LedgerAlways, PTL

\* Whatever the two commands wrote, for every event, stage and correction, the
\* next command can load it (verify_observation_history, pipeline.py).
THEOREM HistoryAlwaysLoads == Spec => []HistoryLoads
<1>1. LedgerInv => HistoryLoads
  BY DEF LedgerInv, DirectoryInv, HistoryLoads
<1> QED
  BY <1>1, LedgerAlways, PTL

\* What was recorded under one registry passes every check of the summary
\* (summarize_trials, evaluator.py).
THEOREM StatusAlwaysDerivable == Spec => []StatusDerivable
<1>1. LedgerInv => StatusDerivable
  <2> SUFFICES ASSUME LedgerInv, NEW r, \A b \in bundles : b.registry = r
               PROVE  Summarizable(bundles, r)
    BY DEF StatusDerivable
  <2>1. DirectoryInv(bundles)
    BY DEF LedgerInv
  <2>2. \A b \in bundles : EligibilityOk(bundles, r, b)
    BY <2>1, ExplainedIsOk DEF DirectoryInv
  <2>3. ASSUME NEW b \in bundles, NEW t \in b.trials PROVE TrialOk(r, b, t)
    <3>1. PICK d \in r.hypotheses : Tried(b, d, t)
      BY <2>1 DEF DirectoryInv, TrialsInv
    <3> QED
      BY <3>1 DEF Tried, TrialOk
  <2>4. NoDuplicateTrial(bundles)
    BY <2>1 DEF DirectoryInv, NoTrialTwice, NoDuplicateTrial, TrialKeys
  <2> QED
    BY <2>1, <2>2, <2>3, <2>4 DEF Summarizable, DirectoryInv
<1> QED
  BY <1>1, LedgerAlways, PTL

-----------------------------------------------------------------------------
(***************************************************************************)
(* Every outcome once.                                                     *)
(***************************************************************************)

Designed ==
  /\ scope \in Scopes
  /\ \A r \in registries : \E design \in Designs : r.hypotheses = design.hypotheses

\* A registry holds what one of the designs says.
LEMMA RegistriesDesigned == Spec => []Designed
<1>1. Init => Designed
  BY DEF Init, Designed, Designs, FirstRegistry
<1>2. Designed /\ [Next]_vars => Designed'
  <2> SUFFICES ASSUME Designed, [Next]_vars PROVE Designed'
    OBVIOUS
  <2>1. scope' = scope
    BY DEF Next, vars, Tick, ChangeStandard, WriteReview, Learn, EvaluateSourceValidity, Summarize,
           FreezeRegistry, RecordEvent, RecordTrials
  <2>2. CASE registries' = registries
    BY <2>1, <2>2 DEF Designed
  <2>3. ASSUME NEW design \in scope.designs, NEW v, FreezeRegistry(design, v) PROVE Designed'
    <3> DEFINE r == [version |-> v, frozenAt |-> today,
                     policy |-> design.policy, hypotheses |-> design.hypotheses]
    <3>1. registries' = {x \in registries : x.version # v} \cup {r}
      BY <2>3 DEF FreezeRegistry
    <3>2. r.hypotheses = design.hypotheses /\ design \in Designs
      BY DEF Designed, Designs
    <3> HIDE DEF r
    <3> QED
      BY <2>1, <3>1, <3>2 DEF Designed
  <2> QED
    BY <2>2, <2>3, Writes DEF Summarize, RecordEvent, RecordTrials
<1> QED
  BY <1>1, <1>2, PTL DEF Spec

\* The latest bundle of an event follows every other.
LEMMA LatestFollows ==
  ASSUME NEW D, DirectoryInv(D), NEW e, EventBundles(D, e) # {}
  PROVE  LET last == Latest(EventBundles(D, e)) IN
         /\ last \in D /\ last.schema = 2 /\ last.event = e
         /\ last.version = Cardinality(EventBundles(D, e)) /\ last.version \in Nat
         /\ ContiguousVersions(EventBundles(D, e))
         /\ \A b \in D : b.event = e => b.schema = 2 /\ (b = last \/ Follows(b, last))
<1> DEFINE B == EventBundles(D, e)
           last == Latest(B)
<1>1. PICK b \in B : TRUE
  OBVIOUS
<1>2. b \in D /\ b.schema = 2 /\ b.event = e
  BY <1>1 DEF EventBundles
<1>3. ContiguousVersions(B) /\ IsFiniteSet(B)
  BY <1>2 DEF DirectoryInv, HistoryOk
<1>4. /\ last \in B /\ last.version = Cardinality(B) /\ Cardinality(B) \in Nat
      /\ \A c \in B : c.version \in 1..Cardinality(B)
  BY <1>1, <1>3, LatestIs
<1>5. last \in D /\ last.schema = 2 /\ last.event = e
  BY <1>4 DEF EventBundles
<1> HIDE DEF last
<1>6. ASSUME NEW c \in D, c.event = e PROVE c.schema = 2 /\ (c = last \/ Follows(c, last))
  <2>1. c.schema = 2
    BY <1>5, <1>6 DEF DirectoryInv, OneLine
  <2>2. c \in B
    BY <1>6, <2>1 DEF EventBundles
  <2> HIDE DEF B
  <2> QED
    BY <1>4, <1>5, <1>6, <2>1, <2>2 DEF DirectoryInv, OneLine, Follows
<1> QED
  BY <1>3, <1>4, <1>5, <1>6 DEF last

\* Growing an event neither loses nor repeats evidence: each outcome that can be
\* tried has one trial, any other none (evaluate_observation, evaluator.py), if a
\* version of a definition keeps its dimension.
THEOREM OutcomesTriedOnce ==
  ASSUME DimensionsStay
  PROVE  Spec => []EachOutcomeTriedOnce
<1>1. LedgerInv /\ Designed => EachOutcomeTriedOnce
  <2> SUFFICES ASSUME LedgerInv, Designed, NEW e \in Events, EventBundles(bundles, e) # {},
                      NEW d \in Latest(EventBundles(bundles, e)).registry.hypotheses
               PROVE  Cardinality({found \in UNION {{b} \X b.trials : b \in bundles} :
                                     found[2].key = TrialKey(d, e)})
                        = IF /\ Feature(Latest(EventBundles(bundles, e)), d) # None
                             /\ \E r \in ReturnAt(Latest(EventBundles(bundles, e)).returns, d.horizon) :
                                  r.value # None
                            THEN 1 ELSE 0
    BY DEF EachOutcomeTriedOnce
  <2> DEFINE last == Latest(EventBundles(bundles, e))
             Found == {found \in UNION {{b} \X b.trials : b \in bundles} :
                         found[2].key = TrialKey(d, e)}
  <2>1. DirectoryInv(bundles) /\ RulesInv
    BY DEF LedgerInv
  <2>2. /\ last \in bundles /\ last.event = e
        /\ \A b \in bundles : b.event = e => b = last \/ Follows(b, last)
    BY <2>1, LatestFollows
  <2>3. d \in last.registry.hypotheses
    OBVIOUS
  <2>4. \A f : f \in Found <=>
          \E b \in bundles : \E t \in b.trials : f = <<b, t>> /\ t.key = TrialKey(d, e)
    OBVIOUS
  <2> HIDE DEF last, Found
  <2>5. \A f, g \in Found : f = g
    <3> SUFFICES ASSUME NEW b \in bundles, NEW c \in bundles, NEW t \in b.trials, NEW u \in c.trials,
                        t.key = u.key
                 PROVE  b = c /\ t = u
      BY <2>4
    <3>1. b = c
      BY <2>1 DEF DirectoryInv, NoTrialTwice
    <3> QED
      BY <2>1, <3>1 DEF DirectoryInv, TrialsDiffer
  <2>6. CASE Triable(last, d)
    <3>1. PICK c \in bundles : \E t \in c.trials : t.key = TrialKey(d, e)
      BY <2>1, <2>2, <2>3, <2>6, TriableIsTried DEF DirectoryInv
    <3>2. PICK f \in Found : TRUE
      BY <2>4, <3>1
    <3>3. Found = {f}
      BY <2>5, <3>2
    <3>4. Cardinality(Found) = 1
      BY <3>3, FS_Singleton
    <3> QED
      BY <2>6, <3>4 DEF Triable, last, Found
  <2>7. CASE ~Triable(last, d)
    <3>1. ASSUME NEW b \in bundles, NEW t \in b.trials, t.key = TrialKey(d, e) PROVE FALSE
      <4>1. PICK x \in b.registry.hypotheses : Tried(b, x, t)
        BY <2>1 DEF DirectoryInv, TrialsInv
      <4>2. TrialKey(x, b.event) = TrialKey(d, e)
        BY <3>1, <4>1 DEF Tried
      <4>3. b.event = e /\ Key(x) = Key(d) /\ x.horizon = d.horizon
        BY <4>2, TrialKeyNames
      <4>4. b.registry \in registries /\ last.registry \in registries
        BY <2>1, <2>2 DEF RulesInv, RuleFreezeOk
      <4>5. x.dimension = d.dimension
        BY <2>3, <4>3, <4>4 DEF Designed, DimensionsStay
      <4>6. /\ b.returns \subseteq last.returns /\ b.pre = last.pre
            /\ b.reaction = None \/ last.reaction = b.reaction
        BY <2>1, <2>2, <4>3 DEF Follows, DirectoryInv, RowInv
      <4>7. Feature(last, d) # None
        BY <4>1, <4>5, <4>6 DEF Tried, Feature
      <4>8. \E r \in ReturnAt(last.returns, d.horizon) : r.value # None
        BY <4>1, <4>3, <4>6 DEF Tried, ReturnAt
      <4> QED
        BY <2>7, <4>7, <4>8 DEF Triable
    <3>2. Found = {}
      BY <2>4, <3>1
    <3>3. Cardinality(Found) = 0
      BY <3>2, FS_EmptySet
    <3> QED
      BY <2>7, <3>3 DEF Triable, last, Found
  <2> QED
    BY <2>6, <2>7
<1> QED
  BY <1>1, LedgerAlways, RegistriesDesigned, PTL

-----------------------------------------------------------------------------
(***************************************************************************)
(* Growing an event.                                                       *)
(***************************************************************************)

\* There is a least element in a set of natural numbers.
LEMMA LeastNatural ==
  ASSUME NEW T \in SUBSET Nat, T # {}
  PROVE  \E m \in T : \A x \in T : m <= x
<1>1. IsWellFoundedOn(OpToRel(<, Nat), Nat)
  BY NatLessThanWellFounded
<1>2. PICK m \in T : \A x \in T : ~(<<x, m>> \in OpToRel(<, Nat))
  BY <1>1, WFMin, Zenon
<1>3. \A x \in T : m <= x
  <2>1. \A x \in T : ~(x < m)
    BY <1>2 DEF OpToRel
  <2> QED
    BY <2>1
<1> QED
  BY <1>3

\* The first record of a set of bundles.
LEMMA StartedAt ==
  ASSUME NEW B, B # {}, \A b \in B : b.recorded \in Nat
  PROVE  /\ \E b \in B : b.recorded = EvaluationStartedAt(B)
         /\ \A b \in B : EvaluationStartedAt(B) <= b.recorded
<1> DEFINE T == {b.recorded : b \in B}
<1>1. T \in SUBSET Nat /\ T # {}
  OBVIOUS
<1>2. \E m \in T : \A x \in T : m <= x
  BY <1>1, LeastNatural
<1>3. \E m \in {b.recorded : b \in B} : \A b \in B : m <= b.recorded
  BY <1>2
<1> QED
  BY <1>3 DEF EvaluationStartedAt

\* A bundle scored by the rules in effect moves none.
LEMMA RulesStayInEffect ==
  ASSUME LedgerInv, NEW r \in registries, RulesInEffect(r), NEW o, ObservationFits(o),
         NEW n, n = BundleOf(r, o)
  PROVE  RuleFreezeOk(registries, bundles \cup {n})
<1>1. WorldInv /\ BundlesInTime /\ RulesInv /\ DirectoryInv(bundles) /\ today \in Nat
  BY ScopesAssumption DEF LedgerInv, WorldInv
<1>2. n.registry = r /\ n.recorded = today /\ TrialsInv(n)
  BY <1>1, Scored DEF BundleOf, RulesInv
<1>3. \A b \in bundles \cup {n} : b.registry \in registries /\ b.recorded \in Nat /\ b.recorded <= today
  BY <1>1, <1>2 DEF RulesInv, RuleFreezeOk, BundlesInTime
<1> SUFFICES ASSUME NEW key, EvidenceFor(bundles \cup {n}, key) # {},
                    key \in UNION {{Key(d) : d \in s.hypotheses} : s \in registries}
    PROVE  LET B == EvidenceFor(bundles \cup {n}, key)
               since == EvaluationStartedAt(B)
               first == CHOOSE b \in B : b.recorded = since
               inEffect == RuleDigest(first.registry, key) IN
           /\ \A b \in B : RuleDigest(b.registry, key) = inEffect
           /\ \A s \in registries :
                RuleDigest(s, key) \in {None, inEffect} \/ FrozenInTime(s, since)
  BY <1>3 DEF RuleFreezeOk
<1> DEFINE Old == EvidenceFor(bundles, key)
           B == EvidenceFor(bundles \cup {n}, key)
           since == EvaluationStartedAt(B)
           first == CHOOSE b \in B : b.recorded = since
<1>4. B = IF HasTrialFor(n, key) THEN Old \cup {n} ELSE Old
  BY DEF EvidenceFor
<1>5. Old \subseteq bundles /\ B \subseteq bundles \cup {n} /\ B # {}
  BY DEF EvidenceFor
<1>6. Old # {} =>
        LET start == EvaluationStartedAt(Old)
            f == CHOOSE b \in Old : b.recorded = start
            rules == RuleDigest(f.registry, key) IN
        /\ \A b \in Old : RuleDigest(b.registry, key) = rules
        /\ \A s \in registries : RuleDigest(s, key) \in {None, rules} \/ FrozenInTime(s, start)
  BY <1>1 DEF RulesInv, RuleFreezeOk
<1>7. HasTrialFor(n, key) => \E d \in r.hypotheses : key = Key(d)
  BY <1>2 DEF HasTrialFor, TrialsInv, Tried, TrialKey, Key
<1>8. HasTrialFor(n, key) => \A b \in Old : RuleDigest(b.registry, key) = RuleDigest(r, key)
  BY <1>5, <1>7 DEF RulesInEffect, EvidenceFor
<1> HIDE DEF Old, B
<1>9. /\ \E b \in B : b.recorded = since
      /\ \A b \in B : since <= b.recorded
  BY <1>3, <1>5, StartedAt
<1>10. first \in B /\ first.recorded = since
  BY <1>9
<1>11. \A b, c \in B : RuleDigest(b.registry, key) = RuleDigest(c.registry, key)
  BY <1>2, <1>4, <1>6, <1>8
<1>12. \A b \in B : RuleDigest(b.registry, key) = RuleDigest(first.registry, key)
  BY <1>10, <1>11
<1>13. ASSUME NEW s \in registries
       PROVE  RuleDigest(s, key) \in {None, RuleDigest(first.registry, key)} \/ FrozenInTime(s, since)
  <2>1. s.frozenAt \in Nat /\ s.frozenAt <= today
    BY <1>1 DEF WorldInv
  <2>2. CASE Old = {}
    <3>1. since = today
      BY <1>2, <1>4, <1>5, <1>10, <2>2
    <3> QED
      BY <2>1, <3>1 DEF FrozenInTime
  <2>3. CASE Old # {}
    <3> DEFINE start == EvaluationStartedAt(Old)
               f == CHOOSE b \in Old : b.recorded = start
    <3>1. /\ \E b \in Old : b.recorded = start
          /\ \A b \in Old : start <= b.recorded
      BY <1>3, <1>5, <2>3, StartedAt
    <3>2. f \in Old /\ f \in B
      BY <1>4, <3>1
    <3>3. RuleDigest(f.registry, key) = RuleDigest(first.registry, key)
      BY <1>12, <3>2
    <3>4. RuleDigest(s, key) \in {None, RuleDigest(f.registry, key)} \/ FrozenInTime(s, start)
      BY <1>6, <2>3
    <3>5. \A b \in B : b.recorded \in Nat /\ b.recorded <= today
      BY <1>3, <1>5
    <3> HIDE DEF start, f, since
    <3>6. start <= since
      <4>1. PICK a \in Old : a.recorded = start
        BY <3>1
      <4>2. a \in B /\ a.recorded \in Nat /\ a.recorded <= today
        BY <1>4, <3>5, <4>1
      <4>3. CASE first \in Old
        BY <1>10, <3>1, <4>3
      <4>4. CASE first = n
        BY <1>2, <1>10, <4>1, <4>2, <4>4
      <4> QED
        BY <1>4, <1>10, <4>3, <4>4
    <3>7. start \in Nat /\ since \in Nat
      BY <1>10, <3>1, <3>5, <1>4
    <3> QED
      BY <2>1, <3>3, <3>4, <3>6, <3>7 DEF FrozenInTime
  <2> QED
    BY <2>2, <2>3
<1> QED
  BY <1>12, <1>13 DEF B

\* The reaction an event was recorded with is the one of its latest bundle.
LEMMA RecordedIsLatest ==
  ASSUME NEW D, DirectoryInv(D), NEW e, EventBundles(D, e) # {},
         Latest(EventBundles(D, e)).reaction # None
  PROVE  RecordedReaction(D, e) = Latest(EventBundles(D, e)).reaction
<1> DEFINE B == EventBundles(D, e)
           last == Latest(B)
           R == {b \in B : b.reaction # None}
<1>1. /\ last \in D /\ last.schema = 2 /\ last.event = e /\ last.version \in Nat
      /\ \A b \in D : b.event = e => b.schema = 2 /\ (b = last \/ Follows(b, last))
  BY LatestFollows
<1>2. last \in R
  BY <1>1 DEF EventBundles
<1> HIDE DEF last
<1>3. \A b \in B : b.version \in Nat /\ (b = last \/ b.version < last.version)
  BY <1>1 DEF EventBundles, DirectoryInv, RowInv, Follows
<1> HIDE DEF B
<1>4. \A b \in R : b.version <= last.version /\ (b # last => ~(last.version <= b.version))
  BY <1>1, <1>3
<1>5. Latest(R) = last
  BY <1>2, <1>4 DEF Latest
<1>6. R # {}
  BY <1>2
<1> QED
  BY <1>5, <1>6 DEF RecordedReaction, B, last

\* What is recorded of an event that stands can be grown, for every registry that
\* keeps the rules in effect: the checks of an author's observation, of the chain
\* and of the frozen rules leave one way (pipeline.py, evaluator.py, freeze.py).
THEOREM EventsCanGrow == Spec => []EventCanGrow
<1>1. LedgerInv => EventCanGrow
  <2> SUFFICES ASSUME LedgerInv, NEW e \in Events, NEW h \in Horizons, NEW r \in registries,
                      MayGrow(e, h), RulesInEffect(r)
               PROVE  CanGrow(e, h, r)
    BY DEF EventCanGrow
  <2> DEFINE B == EventBundles(bundles, e)
             last == Latest(B)
             K == {x.horizon : x \in last.returns}
             label == IF ReactionLabel(e) = None /\ RecordedReaction(bundles, e) # None
                        THEN RecordedReaction(bundles, e) ELSE ReactionLabel(e)
             o == [id |-> <<e, h>>, version |-> last.version + 1, supersedes |-> last.observation,
                   stage |-> h, event |-> e, through |-> AuthoritativeReturn(e, h).at,
                   pre |-> Rank[e], reaction |-> label,
                   returns |-> {AuthoritativeReturn(e, k) : k \in K \cup {h}}]
  <2>1. WorldInv /\ BundlesInTime /\ RulesInv /\ DirectoryInv(bundles) /\ today \in Nat
    BY ScopesAssumption DEF LedgerInv, WorldInv
  <2>2. /\ B # {} /\ Uncorrected(e, last)
        /\ Order[h] > Order[last.stage]
        /\ Matured(e, h) /\ last.through < AuthoritativeReturn(e, h).at
        /\ h = "D20" => ReviewAdmissible(e)
    BY DEF MayGrow
  <2>3. /\ last \in bundles /\ last.schema = 2 /\ last.event = e
        /\ last.version = Cardinality(B) /\ last.version \in Nat
        /\ ContiguousVersions(B)
        /\ \A b \in bundles : b.event = e => b.schema = 2 /\ (b = last \/ Follows(b, last))
    BY <2>1, <2>2, LatestFollows
  <2>4. RowInv(last)
    BY <2>1, <2>3 DEF DirectoryInv
  <2>5. /\ o.id = <<e, h>> /\ o.version = last.version + 1 /\ o.supersedes = last.observation
        /\ o.stage = h /\ o.event = e /\ o.through = AuthoritativeReturn(e, h).at
        /\ o.pre = Rank[e] /\ o.reaction = label
        /\ o.returns = {AuthoritativeReturn(e, k) : k \in K \cup {h}}
    OBVIOUS
  <2>6. \A k : AuthoritativeReturn(e, k).horizon = k
    BY DEF AuthoritativeReturn
  <2>7. \A k \in K : /\ k \in Horizons /\ Matured(e, k) /\ Order[k] < Order[h]
                     /\ AuthoritativeReturn(e, k) \in last.returns
                     /\ AuthoritativeReturn(e, k).at <= last.through
    <3> SUFFICES ASSUME NEW x \in last.returns
          PROVE  /\ x.horizon \in Horizons /\ Matured(e, x.horizon) /\ Order[x.horizon] < Order[h]
                 /\ AuthoritativeReturn(e, x.horizon) \in last.returns
                 /\ AuthoritativeReturn(e, x.horizon).at <= last.through
      OBVIOUS
    <3>1. Matured(e, x.horizon) /\ x = AuthoritativeReturn(e, x.horizon)
      BY <2>2 DEF Uncorrected
    <3>2. x.horizon \in Horizons /\ Order[x.horizon] <= Order[last.stage] /\ x.at <= last.through
      BY <2>4 DEF RowInv
    <3>3. \A k \in Horizons : Order[k] \in Nat
      BY DEF Order, Horizons
    <3>4. Order[x.horizon] < Order[h]
      BY <2>2, <2>4, <3>2, <3>3 DEF RowInv
    <3> HIDE DEF last
    <3> QED
      BY <3>1, <3>2, <3>4
  <2>8. last.returns \subseteq o.returns
    <3> SUFFICES ASSUME NEW x \in last.returns PROVE x \in o.returns
      OBVIOUS
    <3>1. x = AuthoritativeReturn(e, x.horizon) /\ x.horizon \in K
      BY <2>2 DEF Uncorrected
    <3> QED
      BY <2>5, <3>1
  <2>9. o \in Observations(e)
    <3>1. K \in SUBSET {k \in {q \in Horizons : Matured(e, q)} : Order[k] < Order[h]}
      BY <2>7
    <3>2. label \in {RecordedReaction(bundles, e), ReactionLabel(e)}
      OBVIOUS
    <3>3. ObservationOk(o)
      <4> HIDE DEF o, label, K, last, B
      <4>1. o.version # 1 /\ o.supersedes # None
        <5>1. last.version \in Nat \ {0} /\ last.observation = <<e, last.stage>> /\ last.stage \in Horizons
          BY <2>3, <2>4 DEF RowInv
        <5>2. <<e, last.stage>> # None
          BY <5>1, ScopesAssumption
        <5>3. last.version + 1 # 1
          BY <5>1
        <5> QED
          BY <2>5, <5>1, <5>2, <5>3
      <4>2. \A x, y \in o.returns : x.horizon = y.horizon => x = y
        BY <2>5, <2>6
      <4>3. AuthoritativeReturn(e, h).at \in Nat /\ last.through \in Nat
        BY <2>1, <2>2, <2>4, ReturnsHaveCome DEF RowInv
      <4>4. \A x \in o.returns : x.at <= o.through /\ Order[x.horizon] <= Order[o.stage]
        <5> SUFFICES ASSUME NEW k \in K \cup {h}
              PROVE  /\ AuthoritativeReturn(e, k).at <= AuthoritativeReturn(e, h).at
                     /\ Order[k] <= Order[h]
          BY <2>5, <2>6
        <5>1. Order[h] \in Nat /\ (k \in Horizons => Order[k] \in Nat)
          BY DEF Order, Horizons
        <5>2. CASE k = h
          BY <4>3, <5>1, <5>2
        <5>3. CASE k \in K
          <6>1. /\ k \in Horizons /\ Order[k] < Order[h] /\ Matured(e, k)
                /\ AuthoritativeReturn(e, k).at <= last.through
            BY <2>7, <5>3
          <6>2. AuthoritativeReturn(e, k).at \in Nat
            BY <2>1, <6>1, ReturnsHaveCome
          <6> QED
            BY <2>2, <4>3, <5>1, <6>1, <6>2
        <5> QED
          BY <5>2, <5>3
      <4>5. ReturnAt(o.returns, o.stage) # {}
        <5>1. AuthoritativeReturn(e, h) \in o.returns
          BY <2>5
        <5> QED
          BY <2>5, <2>6, <5>1 DEF ReturnAt
      <4> QED
        BY <4>1, <4>2, <4>4, <4>5 DEF ObservationOk
    <3> DEFINE matured == {q \in Horizons : Matured(e, q)}
               claims == {<<1, None>>} \cup
                           (IF B = {} THEN {} ELSE {<<last.version + 1, last.observation>>})
               Submitted(claim, reaction, H) ==
                 [id |-> <<e, h>>, version |-> claim[1], supersedes |-> claim[2],
                  stage |-> h, event |-> e, through |-> AuthoritativeReturn(e, h).at,
                  pre |-> Rank[e], reaction |-> reaction,
                  returns |-> {AuthoritativeReturn(e, k) : k \in H \cup {h}}]
    <3>4. o \in {Submitted(claim, reaction, H) :
                   claim \in claims,
                   reaction \in {RecordedReaction(bundles, e), ReactionLabel(e)},
                   H \in SUBSET {k \in matured : Order[k] < Order[h]}}
      <4> DEFINE own == <<last.version + 1, last.observation>>
      <4>1. own \in claims /\ own[1] = last.version + 1 /\ own[2] = last.observation
        BY <2>2
      <4>2. o = Submitted(own, label, K)
        BY <4>1
      <4> HIDE DEF own, claims, Submitted, label, K, o, matured
      <4> QED
        BY <3>1, <3>2, <4>1, <4>2 DEF matured
    <3>5. h \in matured
      BY <2>2
    <3> HIDE DEF o
    <3> QED
      BY <3>3, <3>4, <3>5 DEF Observations
  <2> HIDE DEF o
  <2>10. ObservationFits(o)
    BY <2>1, <2>9, SubmittedFits DEF DirectoryInv
  <2>11. o.through <= today
    BY <2>1, <2>2, <2>5, ReturnsHaveCome
  <2>12. last.reaction = None \/ label = last.reaction
    BY <2>1, <2>2, RecordedIsLatest DEF Uncorrected
  <2>13. AuthorityOk(bundles, o)
    <3>1. BaselineOk(e) /\ Matured(e, "D1")
      BY <2>1, <2>2, <2>3 DEF Uncorrected, BundlesInTime
    <3>2. ReactionOk(bundles, o)
      BY <2>5 DEF ReactionOk
    <3>3. ReturnAt(o.returns, "D20") # {} => ReviewAdmissible(e)
      <4> SUFFICES ASSUME "D20" \in K PROVE FALSE
        BY <2>2, <2>5, <2>6 DEF ReturnAt
      <4>1. Order["D20"] < Order[h]
        BY <2>7
      <4> QED
        BY <4>1 DEF Order, Horizons
    <3> QED
      BY <2>5, <3>1, <3>2, <3>3 DEF AuthorityOk
  <2>14. ObservationChainOk(bundles, o)
    <3>1. Extends(last, o)
      BY <2>2, <2>3, <2>4, <2>5, <2>8, <2>12 DEF Extends, RowInv
    <3>2. ~\E b \in bundles : b.schema = 1 /\ b.event = o.event
      BY <2>3, <2>5
    <3> QED
      BY <2>2, <2>3, <2>5, <3>1, <3>2 DEF ObservationChainOk
  <2>15. Accepted(o)
    BY <2>1, <2>11, <2>13, <2>14 DEF Accepted, DirectoryInv
  <2>16. RuleFreezeOk(registries, bundles \cup {BundleOf(r, o)})
    BY <2>10, RulesStayInEffect
  <2> QED
    BY <2>5, <2>9, <2>15, <2>16 DEF CanGrow
<1> QED
  BY <1>1, LedgerAlways, PTL
=============================================================================
