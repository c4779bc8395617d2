-------------------------- MODULE HypothesisLedger --------------------------
(***************************************************************************)
(* The append-only record of the prospective hypotheses: registries frozen *)
(* by pull requests under CI, the source-validity ledger under a standard  *)
(* that moves, the trial bundles that the two recording commands write     *)
(* from the authoritative records of an event, and the status snapshot.    *)
(*                                                                         *)
(* One command runs at a time.  A command that is refused changes nothing  *)
(* and is no step.  Observations are built from the authoritative records, *)
(* because a return that differs from its source is always refused; their  *)
(* id, version, predecessor, stage, reaction and file name are claims.     *)
(***************************************************************************)
EXTENDS HypothesisContract

CONSTANTS
  Events,
  Session,       \* [Events -> "before_open", "intraday" or "after_close"]
  Change,        \* [Events -> [price roles -> return from its reference, in percent]]
  Matures,       \* [Events -> [Horizons -> day]]
  Rank,          \* [Events -> pre-event grade on the locked baseline, or None]
  LegacyDesign,  \* what the research file yields: the content of version 1
  Judgement,     \* [contamination rules -> [dimension -> verdict]]
  Legacy,        \* events with a bundle of an earlier implementation
  Scopes,        \* bounds of the world, one of which a behaviour keeps to:
                 \*   designs    [hypotheses, policy] a registry can be frozen with
                 \*   standards  contamination rules that can be in force
                 \*   known      [Events -> facts known at the start]
                 \*   arrivals   [Events -> facts that may still become known]
                 \*   reviews    [Events -> [value, basis] a review can state]
                 \*   days       the last day
  MaxVersion     \* bound on registry versions

\* A registry names each definition once.
ASSUME DesignsAssumption ==
  /\ \A d, x \in LegacyDesign.hypotheses : Key(d) = Key(x) => d = x
  /\ \A s \in Scopes : \A design \in s.designs :
       \A d, x \in design.hypotheses : Key(d) = Key(x) => d = x

Prices == {"pre_event_close", "pre_announcement_reference",
           "immediate_post_announcement", "next_business_day_close",
           "fifth_business_day_close"}

\* Facts about an event: the prices observed, a corporate action found in the
\* window, and a baseline version appended after the event.
Facts == Prices \cup {"corporate_action", "superseded_baseline"}

MilestoneRole == [h \in {"D1", "D5"} |->
                    IF h = "D1" THEN "next_business_day_close" ELSE "fifth_business_day_close"]

\* An id is not an absent field; what is known at the start has come by then, and
\* the price a bundle of an earlier implementation reports is known.
ASSUME ScopesAssumption ==
  /\ \A e \in Events, h \in Horizons : <<e, h>> # None
  /\ Legacy \subseteq Events
  /\ Matures \in [Events -> [Horizons -> Nat]]
  /\ \A s \in Scopes :
       /\ s.days \in Nat
       /\ s.known \in [Events -> SUBSET Facts]
       /\ \A e \in Events, h \in {"D1", "D5"} :
            MilestoneRole[h] \in s.known[e] => Matures[e][h] = 0
       /\ \A e \in Legacy : MilestoneRole["D1"] \in s.known[e]

VARIABLES
  scope,       \* the bounds of this behaviour
  today,       \* the calendar, in the unit of every recorded time
  known,       \* event -> the facts known
  review,      \* event -> the post-event review with the D20 return, or None
  standard,    \* the contamination rules in force
  verdicts,    \* the source-validity ledger
  registries,  \* the registry files
  trialFiles,  \* path -> bundle, the trials directory
  status       \* the last status snapshot, or None

authority == <<known, review>>
vars == <<scope, today, known, review, standard, verdicts, registries, trialFiles, status>>

bundles == Range(trialFiles)

(***************************************************************************)
(* The authoritative records of an event.                                  *)
(***************************************************************************)

Comparable(e) == "corporate_action" \notin known[e]

\* pending without the price or without the close it is measured from.
MilestoneStatus(e, role) ==
  CASE role \notin known[e] -> "pending"
    [] role \in known[e] /\ ~Comparable(e) -> "not_comparable"
    [] role \in known[e] /\ Comparable(e) ->
         IF "pre_event_close" \in known[e] THEN "observed" ELSE "pending"

MilestoneReturn(e, role) ==
  IF MilestoneStatus(e, role) = "observed" THEN Change[e][role] ELSE None

\* The price the immediate reaction is measured from.
ReferenceRole(e) ==
  IF Session[e] = "intraday" THEN "pre_announcement_reference" ELSE "pre_event_close"

EventWindowReturn(e) ==
  IF Comparable(e) /\ {ReferenceRole(e), "immediate_post_announcement"} \subseteq known[e]
    THEN Change[e]["immediate_post_announcement"] ELSE None

\* A horizon can be reported once its price, or its review, is there.
Matured(e, h) == IF h = "D20" THEN review[e] # None ELSE MilestoneRole[h] \in known[e]

\* A D20 value counts only on the declared basis and not before 26 days.
ReviewAdmissible(e) ==
  review[e].value # None => review[e].basis = "declared" /\ review[e].at >= Matures[e]["D20"]

AuthoritativeReturn(e, h) ==
  IF h = "D20"
    THEN [horizon |-> h, value |-> review[e].value, at |-> review[e].at]
    ELSE [horizon |-> h, value |-> MilestoneReturn(e, MilestoneRole[h]), at |-> Matures[e][h]]

\* Both returns must be measured from the close before the event.
ReactionLabel(e) ==
  LET immediate == EventWindowReturn(e)
      nextDay   == MilestoneReturn(e, "next_business_day_close") IN
  IF ReferenceRole(e) # "pre_event_close" \/ immediate \in {None, 0} \/ nextDay = None
    THEN None
    ELSE IF immediate > 0
      THEN IF nextDay >= immediate THEN "GU_continued" ELSE "GU_stalled"
      ELSE IF nextDay > immediate THEN "GD_rebound" ELSE "GD_continued"

RecordedReaction(existing, e) ==
  LET B == {b \in EventBundles(existing, e) : b.reaction # None} IN
  IF B = {} THEN None ELSE Latest(B).reaction

\* Fault: the reaction is always the one derived now.
ReactionDerivedNow(existing, o) == o.reaction = ReactionLabel(o.event)

\* A reaction recorded by an earlier implementation stands where none is derived.
ReactionOk(existing, o) ==
  IF ReactionLabel(o.event) = None /\ RecordedReaction(existing, o.event) # None
    THEN o.reaction = RecordedReaction(existing, o.event)
    ELSE o.reaction = ReactionLabel(o.event)

\* The locked baseline is still the only current tail of its event.
BaselineOk(e) == "superseded_baseline" \notin known[e]

AuthorityOk(existing, o) ==
  /\ BaselineOk(o.event)
  /\ Matured(o.event, "D1")   \* the reaction is captured at the next day's close
  /\ ReactionOk(existing, o)
  /\ ReturnAt(o.returns, "D20") # {} => ReviewAdmissible(o.event)

\* What an author can submit for an event: any stage that has matured, as the
\* first observation or as the successor of the latest, observed through its own
\* return, with any of the earlier returns, and the label derived now or the one
\* recorded.  Ids name the event and the stage.
Observations(e) ==
  LET B == EventBundles(bundles, e)
      matured == {h \in Horizons : Matured(e, h)}
      next == IF B = {} THEN {} ELSE {<<Latest(B).version + 1, Latest(B).observation>>}
      At(stage) ==
        {[id |-> <<e, stage>>, version |-> claim[1], supersedes |-> claim[2],
          stage |-> stage, event |-> e, through |-> AuthoritativeReturn(e, stage).at,
          pre |-> Rank[e], reaction |-> reaction,
          returns |-> {AuthoritativeReturn(e, h) : h \in H \cup {stage}}] :
            claim \in {<<1, None>>} \cup next,
            reaction \in {RecordedReaction(bundles, e), ReactionLabel(e)},
            H \in SUBSET {h \in matured : Order[h] < Order[stage]}} IN
  {o \in UNION {At(stage) : stage \in matured} : ObservationOk(o)}

(***************************************************************************)
(* Source validity.                                                        *)
(***************************************************************************)

VerdictKey(r, d) == <<r.version, Key(d)>>

\* The judgements recorded for a frozen definition under the rules in force.
Judgements(r, d) == {v \in verdicts : v.key = VerdictKey(r, d) /\ v.standard = standard}

Unevaluated(r) == {d \in r.hypotheses : Judgements(r, d) = {}}

IsUsable(r, d) == \E v \in Judgements(r, d) : v.verdict = "valid"

Usable(r) == \A d \in r.hypotheses : IsUsable(r, d)

EvaluateSourceValidity(r) ==
  /\ Unevaluated(r) # {}
  /\ verdicts' = verdicts \cup
       {[key |-> VerdictKey(r, d), standard |-> standard,
         verdict |-> Judgement[standard][d.dimension]] : d \in Unevaluated(r)}
  /\ UNCHANGED <<scope, today, authority, standard, registries, trialFiles, status>>

ChangeStandard ==
  /\ standard' \in scope.standards \ {standard}
  /\ UNCHANGED <<scope, today, authority, verdicts, registries, trialFiles, status>>

(***************************************************************************)
(* A pull request that adds a registry, or edits one in place, under CI.   *)
(***************************************************************************)

NewestBefore(v) ==
  CHOOSE r \in registries :
    /\ r.version < v
    /\ \A x \in registries : x.version < v => x.version <= r.version

\* A successor of the newest earlier version on the base branch.
RegistryChecksOk(r) == SuccessorOk(NewestBefore(r.version), r)

FreezeRegistry(design, v) ==
  LET r == [version |-> v, frozenAt |-> today,
            policy |-> design.policy, hypotheses |-> design.hypotheses]
      result == {x \in registries : x.version # v} \cup {r} IN
  /\ RegistryChecksOk(r)
  /\ RuleFreezeOk(result, bundles)
  /\ registries' = result
  /\ UNCHANGED <<scope, today, authority, standard, verdicts, trialFiles, status>>

(***************************************************************************)
(* Recording.                                                              *)
(***************************************************************************)

Put(path, b) == [p \in DOMAIN trialFiles \cup {path} |-> IF p = path THEN b ELSE trialFiles[p]]

\* Fault: the last writer of a path wins.
WriteOver(path, b) == trialFiles' = Put(path, b)

\* An output path is taken only once.
WriteNew(path, b) ==
  /\ path \notin DOMAIN trialFiles
  /\ trialFiles' = Put(path, b)

\* The bundle of an observation, scored with the keys already on disk.
BundleOf(r, o) == Evaluate(r, o, TrialKeys(bundles), today)

\* An observation is recorded no earlier than it was made.
Accepted(o) ==
  /\ o.through <= today
  /\ HistoryOk(bundles)
  /\ AuthorityOk(bundles, o)
  /\ ObservationChainOk(bundles, o)

Snapshot(r, B) == [registry |-> r, sources |-> B]

\* A file named after the stage, or again after the first.
Paths(o) == {<<o.event, o.stage>>, <<o.event, "D1">>}

\* evaluate-hypothesis-event: the trial file, then the status file; a run that
\* dies between the two leaves only the first.  CI refuses evidence whose rules
\* cannot be established or moved.
RecordEvent(r, o) ==
  LET b == BundleOf(r, o) IN
  /\ Summarizable(bundles \cup {b}, r)
  /\ RuleFreezeOk(registries, bundles \cup {b})
  /\ \E path \in Paths(o) : WriteNew(path, b)
  /\ status' \in {status, Snapshot(r, bundles \cup {b})}
  /\ UNCHANGED <<scope, today, authority, standard, verdicts, registries>>

\* evaluate_observation_file: gated by source validity, no summary.
RecordTrials(r, o) ==
  /\ Usable(r)
  /\ RuleFreezeOk(registries, bundles \cup {BundleOf(r, o)})
  /\ \E path \in Paths(o) : WriteNew(path, BundleOf(r, o))
  /\ UNCHANGED <<scope, today, authority, standard, verdicts, registries, status>>

Summarize(r) ==
  /\ Usable(r)
  /\ Summarizable(bundles, r)
  /\ status' = Snapshot(r, bundles)
  /\ UNCHANGED <<scope, today, authority, standard, verdicts, registries, trialFiles>>

(***************************************************************************)
(* The world.                                                              *)
(***************************************************************************)

Tick ==
  /\ today < scope.days
  /\ today' = today + 1
  /\ UNCHANGED <<scope, authority, standard, verdicts, registries, trialFiles, status>>

\* A price is observed, a corporate action found, the baseline superseded.  The
\* closes come in order of the calendar; anything else may come late.
Learn(e, fact) ==
  /\ fact \in scope.arrivals[e] \ known[e]
  /\ \A h \in {"D1", "D5"} : fact = MilestoneRole[h] =>
       /\ today >= Matures[e][h]
       /\ h = "D5" => MilestoneRole["D1"] \in known[e]
  /\ known' = [known EXCEPT ![e] = @ \cup {fact}]
  /\ UNCHANGED <<scope, today, review, standard, verdicts, registries, trialFiles, status>>

\* A review may come early, without a D20 value, or on another price basis.
WriteReview(e) ==
  /\ review[e] = None
  /\ \E r \in scope.reviews[e] :
       review' = [review EXCEPT ![e] = [value |-> r.value, basis |-> r.basis, at |-> today]]
  /\ UNCHANGED <<scope, today, known, standard, verdicts, registries, trialFiles, status>>

(***************************************************************************)
(* The specification.                                                      *)
(***************************************************************************)

FirstRegistry == [version |-> 1, frozenAt |-> 0, policy |-> LegacyDesign.policy,
                  hypotheses |-> LegacyDesign.hypotheses]

FirstReturn(e) ==
  [horizon |-> "D1", value |-> Change[e]["next_business_day_close"], at |-> 0]

\* The D1 bundle of an earlier implementation, which labelled every reaction.
LegacyBundle(e) ==
  Evaluate(FirstRegistry,
           [id |-> <<e, "D1">>, version |-> 1, supersedes |-> None, stage |-> "D1",
            event |-> e, through |-> 0, pre |-> Rank[e],
            reaction |-> "GU_continued", returns |-> {FirstReturn(e)}],
           {}, 0)

\* The same event as a bundle of the first format, which cannot be extended.
LegacyBundleV1(e) == [LegacyBundle(e) EXCEPT !.schema = 1]

Init ==
  /\ scope \in Scopes
  /\ today = 0
  /\ known = scope.known
  /\ review = [e \in Events |-> None]
  /\ standard \in scope.standards
  /\ verdicts = {}
  /\ registries = {FirstRegistry}
  /\ \E bundle \in [Legacy -> {1, 2}] :
       trialFiles = [p \in {<<e, "D1">> : e \in Legacy} |->
                       IF bundle[p[1]] = 1 THEN LegacyBundleV1(p[1]) ELSE LegacyBundle(p[1])]
  /\ status = None

Next ==
  \/ Tick
  \/ ChangeStandard
  \/ \E e \in Events : WriteReview(e) \/ \E fact \in Facts : Learn(e, fact)
  \/ \E r \in registries : EvaluateSourceValidity(r) \/ Summarize(r)
  \/ \E design \in scope.designs, v \in 2..MaxVersion : FreezeRegistry(design, v)
  \/ \E e \in Events : \E o \in Observations(e) :
       /\ Accepted(o)
       /\ \E r \in registries : RecordEvent(r, o) \/ RecordTrials(r, o)

Spec == Init /\ [][Next]_vars

(***************************************************************************)
(* Properties.                                                             *)
(***************************************************************************)

\* Types.  A trial always has a number for its return (models.py: return_value
\* is a float, never absent), and an eligibility result for each hypothesis.
TypeOK ==
  /\ today \in 0..scope.days
  /\ known \in [Events -> SUBSET Facts]
  /\ standard \in scope.standards
  /\ \A v \in verdicts : v.standard \in scope.standards
  /\ \A r, s \in registries : r.version = s.version => r = s
  /\ \A b \in bundles :
       /\ b.recorded \in 0..scope.days
       /\ DOMAIN b.eligibility = {Key(d) : d \in b.registry.hypotheses}
       /\ \A t \in b.trials : t.value # None

\* Whatever the two commands wrote, the next command can load: the check of one
\* new observation is as strict as the check of the whole directory.
HistoryLoads == HistoryOk(bundles)

\* A version of a definition means the same feature in every registry.  Nothing in
\* the code compares it between registries.
Designs == {LegacyDesign} \cup UNION {s.designs : s \in Scopes}

DimensionsStay ==
  \A a, b \in Designs : \A d \in a.hypotheses, x \in b.hypotheses :
    Key(d) = Key(x) /\ d.horizon = x.horizon => d.dimension = x.dimension

\* Over all stages of an event, a hypothesis of the registry last used has
\* exactly one trial when its return is comparable and its feature recorded,
\* and none otherwise: growing an event neither loses nor repeats evidence.
EachOutcomeTriedOnce ==
  \A e \in Events :
    LET B == EventBundles(bundles, e) IN
    B # {} =>
      \A d \in Latest(B).registry.hypotheses :
        Cardinality({found \in UNION {{b} \X b.trials : b \in bundles} :
                        found[2].key = TrialKey(d, e)})
          = IF /\ Feature(Latest(B), d) # None
               /\ \E r \in ReturnAt(Latest(B).returns, d.horizon) : r.value # None
              THEN 1 ELSE 0

\* While the directory holds bundles of one registry, the status can be derived
\* from it: what was recorded passes every check of the summary.
StatusDerivable ==
  \A r \in {b.registry : b \in bundles} :
    (\A b \in bundles : b.registry = r) => Summarizable(bundles, r)

\* All trials of one definition were scored under one stop rule and one
\* promotion policy, however registries were frozen or edited in between.
OneRulePerDefinition ==
  \A b, c \in bundles : \A d \in b.registry.hypotheses, x \in c.registry.hypotheses :
    Key(d) = Key(x) /\ HasTrialFor(b, Key(d)) /\ HasTrialFor(c, Key(x)) =>
      d.stop = x.stop /\ b.registry.policy = c.registry.policy

\* Nothing recorded about the event has been corrected since.
Uncorrected(e, b) ==
  /\ BaselineOk(e)
  /\ \A r \in b.returns : Matured(e, r.horizon) /\ r = AuthoritativeReturn(e, r.horizon)
  /\ b.reaction = None \/ ReactionLabel(e) \in {None, b.reaction}

\* An event observed up to one stage can be grown to the next matured one, by
\* what an author can submit and CI accepts under the registry.
CanGrow(e, h, r) ==
  \E o \in Observations(e) :
    o.stage = h /\ Accepted(o) /\ RuleFreezeOk(registries, bundles \cup {BundleOf(r, o)})

\* Where the latest observation stands, and there is a later return to report.
MayGrow(e, h) ==
  LET B == EventBundles(bundles, e) IN
  /\ B # {} /\ Uncorrected(e, Latest(B))
  /\ Order[h] > Order[Latest(B).stage]
  /\ Matured(e, h) /\ Latest(B).through < AuthoritativeReturn(e, h).at
  /\ h = "D20" => ReviewAdmissible(e)

\* The registry scores each definition by the rules its trials were scored by.  An
\* event that owes a trial to two definitions that began under different policies
\* has no such registry, and cannot grow (freeze.py, rule_freeze_violations).
RulesInEffect(r) ==
  \A b \in bundles : \A d \in r.hypotheses :
    HasTrialFor(b, Key(d)) => RuleDigest(b.registry, Key(d)) = RuleDigest(r, Key(d))

\* An event can be grown as long as its records stand and one registry has the
\* rules in effect (the comment in _verify_authoritative_outcomes names the event
\* that could never grow again).
EventCanGrow ==
  \A e \in Events, h \in Horizons, r \in registries :
    MayGrow(e, h) /\ RulesInEffect(r) => CanGrow(e, h, r)

\* The bundles a published status names as its sources stay on disk as they
\* were and still yield it.
SnapshotReproducible ==
  status # None =>
    /\ status.sources \subseteq bundles
    /\ Summarizable(status.sources, status.registry)

\* Trials are recorded only while every hypothesis of the registry has a valid
\* verdict under the rules in force (verify_source_validity_file: "the trial
\* commands refuse that themselves").
OnlyUsableKnowledgeIsTried ==
  [][\A b \in Range(trialFiles') \ bundles : b.trials # {} => Usable(b.registry)]_vars
=============================================================================
