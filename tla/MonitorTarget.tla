---------------------------- MODULE MonitorTarget ----------------------------
(***************************************************************************)
(* A row of the monitor registry and the four places that decide about it, *)
(* each with conditions of its own: the registry's validator, the planner, *)
(* the run and the live adapter.  A row carries what a Human has recorded: *)
(* the review of the source's terms, the approval of automated access and  *)
(* the activation.                                                         *)
(*                                                                         *)
(* A moment is recorded or not, and the activity window is open, closed or *)
(* inverted at the time of the run.  A URL is insecure when it is not      *)
(* https or carries userinfo, forbidden for any other reason the adapter   *)
(* has.  Time zone, event and schedule source are no gate's business.      *)
(***************************************************************************)
EXTENDS Naturals

CONSTANT Urls   \* [origin, path, form]: what a row or a redirect can name

ASSUME UrlsAssumption ==
  \A u \in Urls : u.form \in {"plain", "malformed", "insecure", "forbidden"}

ActivationStates == {"not_activated", "activated", "suspended", "retired"}

Signatures == {"none", "authorizer", "other"}

Rows ==
  [enabled : BOOLEAN, automated_access_permitted : BOOLEAN,
   monitoring_level : {"level_1", "level_2"},
   terms_review_completed : BOOLEAN, terms_review_referenced : BOOLEAN,
   automation_approved_by : Signatures, activation_state : ActivationStates,
   activated_at : BOOLEAN, activation_approved_by : Signatures,
   initialization_generation : 0..1, initialization_run_id : BOOLEAN,
   window : {"open", "closed", "inverted"}, url : Urls]

Authorizer(signature) == signature = "authorizer"

TermsOk(row) ==
  /\ row.terms_review_completed => row.terms_review_referenced
  /\ row.automated_access_permitted =>
       row.terms_review_completed /\ Authorizer(row.automation_approved_by)

\* Fault: it is enough that somebody activated the row.
ActivationRecorded(row) ==
  row.activation_state # "not_activated" => row.activated_at /\ row.initialization_generation >= 1

ActivationOk(row) ==
  /\ row.activation_state = "not_activated" =>
       /\ ~row.activated_at /\ row.activation_approved_by = "none"
       /\ row.initialization_generation = 0 /\ ~row.initialization_run_id
  /\ row.activation_state # "not_activated" =>
       /\ row.activated_at /\ Authorizer(row.activation_approved_by)
       /\ row.initialization_generation >= 1

EnabledOk(row) ==
  row.enabled =>
    /\ row.monitoring_level = "level_2"
    /\ row.automated_access_permitted
    /\ row.activation_state = "activated"

\* The registry loads only when each row passes.
RowOk(row) ==
  /\ row.window # "inverted"
  /\ row.url.form # "insecure"
  /\ {row.automation_approved_by, row.activation_approved_by} \subseteq {"none", "authorizer"}
  /\ TermsOk(row)
  /\ ActivationOk(row)
  /\ EnabledOk(row)

\* What the planner asks of a row besides its being due.
PlannedRow(row) ==
  /\ row.enabled
  /\ row.activation_state = "activated"
  /\ row.monitoring_level = "level_2"
  /\ row.automated_access_permitted

Operational(row) ==
  /\ row.enabled
  /\ row.monitoring_level = "level_2"
  /\ row.automated_access_permitted
  /\ row.terms_review_completed
  /\ row.window = "open"

\* What the live adapter asks again before it contacts the source.
Approved(row) ==
  /\ row.enabled /\ row.automated_access_permitted
  /\ row.monitoring_level = "level_2"
  /\ row.terms_review_completed
  /\ Authorizer(row.automation_approved_by)
  /\ row.activation_state = "activated"
  /\ Authorizer(row.activation_approved_by)
=============================================================================
