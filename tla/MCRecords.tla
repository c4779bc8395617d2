----------------------------- MODULE MCRecords -----------------------------
(* The record-keeping parts beside the monitor, which share no state: a      *)
(* behaviour is one of an earnings event in one of the scopes below, of the  *)
(* disclosure sweep, of an evidence capture, of a live observation, of the   *)
(* analysis of a handoff or of the record that is explored and held back.    *)
EXTENDS EarningsCycle, DisclosureSweep, EvidenceCapture, LiveFetch, DocumentAnalysis, Holdout

Prices(observed, comparable) == [observed |-> observed, comparable |-> comparable]

\* The prices as they come in, day by day; without the close before the disclosure;
\* with a corporate action, found early or late.
MCDays ==
  { Prices({"pre_event_close", "immediate_post_announcement"}, TRUE),
    Prices(Milestones \ {"fifth_business_day_close"}, TRUE),
    Prices(Milestones, TRUE) }
MCCorporateAction ==
  MCDays \cup
  { Prices({"pre_event_close"}, TRUE),
    Prices(Milestones \ {"pre_event_close"}, TRUE),
    Prices({"pre_event_close"}, FALSE),
    Prices({"pre_event_close", "immediate_post_announcement"}, FALSE),
    Prices(Milestones, FALSE) }
MCBundles == [observed : SUBSET Roles, comparable : BOOLEAN]

Scope(s, b, t, r, l, steps, bundles) ==
  [statuses |-> s, baselines |-> b, trackings |-> t, reviews |-> r, lag |-> l, steps |-> steps,
   bundles |-> bundles]

MCCycleScopes ==
  { Scope(4, 2, 0, 0, 1, {"postpone", "draft"}, {}),                \* two postponements
    Scope(3, 3, 0, 0, 0, {"postpone"}, {}),                         \* branching baselines
    Scope(2, 1, 2, 2, 1, {"learn"}, MCDays),                        \* versions of a review
    Scope(2, 1, 1, 1, 0, {"learn", "hypothesis", "rerun"}, MCDays), \* hypotheses come and go
    Scope(2, 1, 1, 1, 1, {"learn", "note"}, MCDays),                \* evidence found later
    Scope(2, 1, 2, 2, 0, {"learn"}, MCCorporateAction),             \* a corporate action
    Scope(2, 1, 1, 1, 0, {"learn"}, MCBundles),                     \* any bundle
    Scope(2, 1, 1, 1, 0, {"learn", "intraday"}, MCBundles) }        \* of an intraday session

Tanshin(code, day, url) == [code |-> code, day |-> day, url |-> url, kind |-> "tanshin"]

\* Two documents of one company on one day and a third without an address, one
\* of a later day, one of a company outside the ledger.
MCDocuments ==
  { Tanshin("7203", 0, 1), Tanshin("7203", 0, 2), Tanshin("7203", 0, NoAddress),
    Tanshin("6758", 1, 3), Tanshin("9984", 0, 4) }

MCUniverse == {"7203", "6758"}
MCLegacyFiles == {{}, {<<"6758", 1>>}}

\* An outcome whose hash belies its status, and the two honest ones.
MCOutcomes ==
  { [status |-> "captured", hashed |-> TRUE], [status |-> "fetch_failed", hashed |-> FALSE],
    [status |-> "fetch_failed", hashed |-> TRUE] }

Url(origin, path, form) == [origin |-> origin, path |-> path, form |-> form]

\* The page, three more of its site to be redirected to besides robots.txt, another
\* site, and the three forms that are refused.
MCPage == Url("issuer", "/ir", "plain")
MCUrls ==
  { MCPage, Url("issuer", "/a", "plain"), Url("issuer", "/b", "plain"),
    Url("issuer", "/c", "plain"),
    Url("elsewhere", "/", "plain"), Url("issuer", "/", "forbidden"), Url("issuer", "/", "malformed"),
    Url("issuer", "/", "insecure") }

MCSound ==
  [enabled |-> TRUE, automated_access_permitted |-> TRUE, monitoring_level |-> "level_2",
   terms_review_completed |-> TRUE, terms_review_referenced |-> TRUE,
   automation_approved_by |-> "authorizer", activation_state |-> "activated",
   activated_at |-> TRUE, activation_approved_by |-> "authorizer",
   initialization_generation |-> 1, initialization_run_id |-> TRUE,
   window |-> "open", url |-> MCPage]

\* Every row of the page in its window, sound or not; the sound row with other
\* windows and other URLs.
MCTargets ==
  {row \in Rows : row.url = MCPage /\ row.window = "open" /\ row.initialization_run_id}
    \cup {[MCSound EXCEPT !.window = w] : w \in {"closed", "inverted"}}
    \cup {[MCSound EXCEPT !.url = u] : u \in {v \in Urls : v.form # "plain"}}
    \cup {[MCSound EXCEPT !.enabled = FALSE, !.automated_access_permitted = FALSE,
                           !.terms_review_completed = FALSE, !.terms_review_referenced = FALSE,
                           !.automation_approved_by = "none", !.activation_state = "not_activated",
                           !.activated_at = FALSE, !.activation_approved_by = "none",
                           !.initialization_generation = 0, !.initialization_run_id = FALSE]}

Link(name, authorized, https, earnings) ==
  [name |-> name, authorized |-> authorized, https |-> https, earnings |-> earnings]

\* Two publishers, a supplement, another site and one without https.
MCLinks ==
  { Link("release", TRUE, TRUE, TRUE), Link("storage", TRUE, TRUE, TRUE),
    Link("supplement", TRUE, TRUE, FALSE), Link("elsewhere", FALSE, TRUE, TRUE),
    Link("page", FALSE, TRUE, FALSE), Link("insecure", FALSE, FALSE, TRUE),
    Link("plainpage", FALSE, FALSE, FALSE) }

MCHandoffs ==
  [document : MCLinks \cup {NoDocument}, titled : BOOLEAN, index : BOOLEAN, source : MCLinks]

RecordsInit ==
  \/ CycleInit /\ SweepIdle /\ CaptureIdle /\ FetchIdle /\ DocumentIdle /\ HoldoutIdle
  \/ CycleIdle /\ SweepInit /\ CaptureIdle /\ FetchIdle /\ DocumentIdle /\ HoldoutIdle
  \/ CycleIdle /\ SweepIdle /\ CaptureInit /\ FetchIdle /\ DocumentIdle /\ HoldoutIdle
  \/ CycleIdle /\ SweepIdle /\ CaptureIdle /\ FetchInit /\ DocumentIdle /\ HoldoutIdle
  \/ CycleIdle /\ SweepIdle /\ CaptureIdle /\ FetchIdle /\ DocumentInit /\ HoldoutIdle
  \/ CycleIdle /\ SweepIdle /\ CaptureIdle /\ FetchIdle /\ DocumentIdle /\ HoldoutInit

recordsVars == <<cycleVars, sweepVars, captureVars, fetchVars, documentVars, holdoutVars>>

RecordsNext ==
  \/ CycleNext /\ UNCHANGED <<sweepVars, captureVars, fetchVars, documentVars, holdoutVars>>
  \/ SweepNext /\ UNCHANGED <<cycleVars, captureVars, fetchVars, documentVars, holdoutVars>>
  \/ CaptureNext /\ UNCHANGED <<cycleVars, sweepVars, fetchVars, documentVars, holdoutVars>>
  \/ FetchNext /\ UNCHANGED <<cycleVars, sweepVars, captureVars, documentVars, holdoutVars>>
  \/ DocumentNext /\ UNCHANGED <<cycleVars, sweepVars, captureVars, fetchVars, holdoutVars>>
  \/ HoldoutNext /\ UNCHANGED <<cycleVars, sweepVars, captureVars, fetchVars, documentVars>>

\* The types of all six.
RecordsTypeOK ==
  /\ CycleTypeOK /\ SweepTypeOK /\ CaptureTypeOK
  /\ FetchTypeOK /\ DocumentTypeOK /\ HoldoutTypeOK

RecordsSpec == RecordsInit /\ [][RecordsNext]_recordsVars
=============================================================================
