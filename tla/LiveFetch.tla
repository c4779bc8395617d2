------------------------------ MODULE LiveFetch ------------------------------
(***************************************************************************)
(* One live observation of a target (monitoring/live.py and network.py, as *)
(* operations._observe_live calls them): once the registry, the planner    *)
(* and the run have let the row pass, read robots.txt, then the page.      *)
(* Each is a fetch of its own that follows redirects by hand: for every    *)
(* hop it looks the host up, connects to an address it has checked, and    *)
(* reads the answer within limits of time and size.                        *)
(*                                                                         *)
(* The site and the resolver answer what they like, each time anew.  Time  *)
(* passes between any two steps; it is the time of the running fetch.      *)
(***************************************************************************)
EXTENDS MonitorTarget, FiniteSets

CONSTANTS
  Targets,             \* registry rows, passed by the registry or not
  PublicAddresses,     \* what a resolver can answer
  PrivateAddresses,
  Statuses,            \* HTTP statuses a site answers with
  MAX_REDIRECT_HOPS,
  OVERALL_BUDGET,      \* in ticks
  MAX_RESPONSE_BYTES,  \* in chunks
  NoFetch              \* no fetch, no answer, no outcome, no location

RobotsOf(u) == [origin |-> u.origin, path |-> "/robots.txt", form |-> "plain"]

Places == Urls \cup {RobotsOf(u) : u \in Urls}

Fetches ==
  [purpose : {"robots", "page"}, url : Places, visited : SUBSET Places,
   hops : 0..MAX_REDIRECT_HOPS, pinned : PublicAddresses \cup {NoFetch},
   bytes : 0..MAX_RESPONSE_BYTES, stage : {"resolve", "request", "response", "body"}]

Problems ==
  {"timeout", "source_unavailable", "terms_not_approved", "unexpected_format", "http_error",
   "authentication_required", "rate_limited", "parse_error", "timestamp_parse_error"}

\* The job ends without an observation: the registry does not load, the planner
\* leaves the row out, or the run refuses it.
Refusals == {"registry_error", "not_planned", "state_unavailable"}

RobotsAnswers == [status : Statuses \cup {200}, allowed : BOOLEAN]

Ended ==
  [result : Problems \cup Refusals \cup {"observed"}, bytes : 0..MAX_RESPONSE_BYTES,
   took : 0..OVERALL_BUDGET, begun : BOOLEAN]

\* An address is public or not, and NoFetch is nothing else.
ASSUME FetchAssumption ==
  /\ PublicAddresses \cap PrivateAddresses = {}
  /\ Targets \subseteq Rows
  /\ NoFetch \notin Targets /\ NoFetch \notin Urls /\ NoFetch \notin Problems
  /\ NoFetch \notin Fetches /\ NoFetch \notin Ended /\ NoFetch \notin RobotsAnswers
  /\ Statuses \subseteq 100..599
  /\ MAX_REDIRECT_HOPS \in Nat /\ OVERALL_BUDGET \in Nat /\ MAX_RESPONSE_BYTES \in Nat

VARIABLES
  target,    \* the registry row, or NoFetch when nothing is observed
  fetch,     \* the running fetch
  elapsed,   \* ticks since it began, up to the budget
  robots,    \* [status, allowed]: the site's answer about robots
  requests,  \* [purpose, url, address, at]: every connection made
  outcome    \* [result, bytes, took, begun]: how it ended, and whether anything was fetched

fetchVars == <<target, fetch, elapsed, robots, requests, outcome>>

(***************************************************************************)
(* What is allowed.                                                        *)
(***************************************************************************)

\* Another port, a local host or a secret in the query are forbidden forms.
UrlProblem(u) ==
  CASE u.form = "malformed" -> "unexpected_format"
    [] u.form \in {"insecure", "forbidden"} -> "terms_not_approved"
    [] u.form = "plain" -> NoFetch

\* Fault: a redirect may leave the origin.
RequestUrlUnchecked(u) == UrlProblem(u)

RequestUrlProblem(u) ==
  IF UrlProblem(u) = NoFetch /\ u.origin # target.url.origin
    THEN "terms_not_approved" ELSE UrlProblem(u)

\* Fault: the tick in which the budget ends still counts.
TimeLeftLate == elapsed <= OVERALL_BUDGET

TimeLeft == elapsed < OVERALL_BUDGET

\* Fault: one redirect more.
HopsLeftLate(f) == f.hops <= MAX_REDIRECT_HOPS

HopsLeft(f) == f.hops < MAX_REDIRECT_HOPS

\* Fault: the limit is noticed one chunk late.
FitsLate(bytes) == bytes <= MAX_RESPONSE_BYTES + 1

Fits(bytes) == bytes <= MAX_RESPONSE_BYTES

\* One address that is not public condemns the whole answer.
DnsProblem(answer) ==
  CASE answer.came = "late" -> "timeout"
    [] answer.came = "error" -> "source_unavailable"
    [] answer.came = "time" /\ answer.addresses = {} -> "source_unavailable"
    [] answer.came = "time" /\ answer.addresses \cap PrivateAddresses # {} -> "terms_not_approved"
    [] OTHER -> NoFetch

\* Fault: the host is looked up again to connect.
EndpointLookedUp(f, answer) == CHOOSE a \in answer.addresses : TRUE

\* The connection goes to the checked address, whatever the resolver says by now.
Endpoint(f, answer) == f.pinned

\* Fault: an unreadable policy counts as none.
RobotsUnread(status) == status # 200

RobotsAbsent(status) == status \in {404, 410}

StatusProblem(status) ==
  CASE status \in {401, 403} -> "authentication_required"
    [] status = 429 -> "rate_limited"
    [] status = 408 -> "timeout"
    [] status = 404 \/ status \in 500..599 -> "source_unavailable"
    [] status = 200 -> NoFetch
    [] OTHER -> "http_error"

Redirects == {301, 302, 303, 307, 308}

(***************************************************************************)
(* The steps of an observation.                                            *)
(***************************************************************************)

Ends(result) ==
  /\ outcome' = [result |-> result, bytes |-> IF fetch = NoFetch THEN 0 ELSE fetch.bytes,
                 took |-> elapsed, begun |-> fetch # NoFetch]
  /\ fetch' = NoFetch

Fails(problem) == Ends(problem) /\ UNCHANGED <<target, elapsed, robots, requests>>

Begin(purpose, u) ==
  /\ fetch' = [purpose |-> purpose, url |-> u, visited |-> {}, hops |-> 0,
               pinned |-> NoFetch, bytes |-> 0, stage |-> "resolve"]
  /\ elapsed' = 0

NothingBegun == target # NoFetch /\ fetch = NoFetch /\ outcome = NoFetch

Admitted(row) == RowOk(row) /\ PlannedRow(row) /\ Operational(row)

RefuseRow ==
  /\ NothingBegun
  /\ \/ ~RowOk(target) /\ Fails("registry_error")
     \/ RowOk(target) /\ ~PlannedRow(target) /\ Fails("not_planned")
     \/ RowOk(target) /\ PlannedRow(target) /\ ~Operational(target) /\ Fails("state_unavailable")

CheckRobots ==
  /\ NothingBegun /\ Admitted(target)
  /\ \/ /\ ~Approved(target)
        /\ Fails("terms_not_approved")
     \/ /\ Approved(target) /\ UrlProblem(target.url) # NoFetch
        /\ Fails(UrlProblem(target.url))
     \/ /\ Approved(target) /\ UrlProblem(target.url) = NoFetch
        /\ Begin("robots", RobotsOf(target.url))
        /\ UNCHANGED <<target, robots, requests, outcome>>

At(stage) == fetch # NoFetch /\ fetch.stage = stage

Lookups == [came : {"time", "late", "error"}, addresses : SUBSET (PublicAddresses \cup PrivateAddresses)]

\* A hop: no URL twice, and a look-up in the time that is left.
Resolve ==
  /\ At("resolve")
  /\ \/ fetch.url \in fetch.visited /\ Fails("unexpected_format")
     \/ fetch.url \notin fetch.visited /\ ~TimeLeft /\ Fails("timeout")
     \/ /\ fetch.url \notin fetch.visited /\ TimeLeft
        /\ \E answer \in Lookups :
             \/ DnsProblem(answer) # NoFetch /\ Fails(DnsProblem(answer))
             \/ /\ DnsProblem(answer) = NoFetch
                /\ \E a \in answer.addresses :
                     fetch' = [fetch EXCEPT !.visited = @ \cup {fetch.url},
                                            !.pinned = a, !.stage = "request"]
                /\ UNCHANGED <<target, elapsed, robots, requests, outcome>>

Request ==
  /\ At("request")
  /\ \/ ~TimeLeft /\ Fails("timeout")
     \/ /\ TimeLeft
        /\ \E answer \in {a \in Lookups : a.came = "time" /\ a.addresses # {}} :
             requests' = requests \cup
               {[purpose |-> fetch.purpose, url |-> fetch.url,
                 address |-> Endpoint(fetch, answer), at |-> elapsed]}
        /\ fetch' = [fetch EXCEPT !.stage = "response"]
        /\ UNCHANGED <<target, elapsed, robots, outcome>>

\* Connecting, sending or waiting fails; so may reading, in fewer ways.
TransportFails ==
  \/ /\ At("response")
     /\ \E problem \in {"timeout", "source_unavailable", "http_error", "unexpected_format"} : Fails(problem)
  \/ /\ At("body")
     /\ \E problem \in {"timeout", "source_unavailable"} : Fails(problem)

Redirected(location) ==
  \/ location = NoFetch /\ Fails("unexpected_format")
  \/ location # NoFetch /\ ~HopsLeft(fetch) /\ Fails("unexpected_format")
  \/ /\ location # NoFetch /\ HopsLeft(fetch) /\ RequestUrlProblem(location) # NoFetch
     /\ Fails(RequestUrlProblem(location))
  \/ /\ location # NoFetch /\ HopsLeft(fetch) /\ RequestUrlProblem(location) = NoFetch
     /\ fetch' = [fetch EXCEPT !.url = location, !.hops = @ + 1, !.stage = "resolve"]
     /\ UNCHANGED <<target, elapsed, robots, requests, outcome>>

\* A type or a declared length that is refused ends it before the body.
ReadHeaders ==
  \/ Fails("unexpected_format")
  \/ /\ fetch' = [fetch EXCEPT !.stage = "body"]
     /\ UNCHANGED <<target, elapsed, robots, requests, outcome>>

RobotsAnswered(status) ==
  /\ robots' = [status |-> status, allowed |-> FALSE]
  /\ UNCHANGED <<target, requests>>
  /\ \/ /\ RobotsAbsent(status)
        /\ Begin("page", target.url)
        /\ UNCHANGED outcome
     \/ /\ ~RobotsAbsent(status)
        /\ Ends("terms_not_approved") /\ UNCHANGED elapsed

Respond ==
  /\ At("response")
  /\ \E status \in Statuses :
       \/ status \in Redirects /\ \E location \in Urls \cup {NoFetch} : Redirected(location)
       \/ status = 200 /\ ReadHeaders
       \/ status \notin Redirects \cup {200} /\ fetch.purpose = "robots" /\ RobotsAnswered(status)
       \/ /\ status \notin Redirects \cup {200} /\ fetch.purpose = "page"
          /\ Fails(StatusProblem(status))

Receive ==
  /\ At("body")
  /\ \/ ~TimeLeft /\ Fails("timeout")
     \/ TimeLeft /\ ~Fits(fetch.bytes + 1) /\ Fails("unexpected_format")
     \/ /\ TimeLeft /\ Fits(fetch.bytes + 1)
        /\ fetch' = [fetch EXCEPT !.bytes = @ + 1]
        /\ UNCHANGED <<target, elapsed, robots, requests, outcome>>

RobotsRead ==
  \E allowed \in BOOLEAN :
    /\ robots' = [status |-> 200, allowed |-> allowed]
    /\ UNCHANGED <<target, requests>>
    /\ \/ allowed /\ Begin("page", target.url) /\ UNCHANGED outcome
       \/ ~allowed /\ Ends("terms_not_approved") /\ UNCHANGED elapsed

\* The text is decoded and parsed; a page yields an observation.
EndOfBody ==
  /\ At("body")
  /\ \/ ~TimeLeft /\ Fails("timeout")
     \/ TimeLeft /\ Fails("parse_error")
     \/ TimeLeft /\ fetch.bytes > 0 /\ fetch.purpose = "robots" /\ RobotsRead
     \/ /\ TimeLeft /\ fetch.bytes > 0 /\ fetch.purpose = "page"
        /\ \E result \in {"observed", "timestamp_parse_error"} : Fails(result)

TimeGoesOn ==
  /\ fetch # NoFetch /\ elapsed < OVERALL_BUDGET
  /\ elapsed' = elapsed + 1
  /\ UNCHANGED <<target, fetch, robots, requests, outcome>>

FetchIdle ==
  /\ target = NoFetch
  /\ fetch = NoFetch /\ elapsed = 0 /\ robots = NoFetch /\ requests = {} /\ outcome = NoFetch

FetchInit ==
  /\ target \in Targets
  /\ fetch = NoFetch /\ elapsed = 0 /\ robots = NoFetch /\ requests = {} /\ outcome = NoFetch

FetchNext ==
  \/ RefuseRow
  \/ CheckRobots
  \/ Resolve
  \/ Request
  \/ TransportFails
  \/ Respond
  \/ Receive
  \/ EndOfBody
  \/ TimeGoesOn

FetchSpec == FetchInit /\ [][FetchNext]_fetchVars

(***************************************************************************)
(* Properties.                                                             *)
(***************************************************************************)

\* The running fetch keeps to its limits, and what it has read fits.
FetchTypeOK ==
  /\ elapsed \in 0..OVERALL_BUDGET
  /\ fetch \in Fetches \cup {NoFetch}
  /\ outcome \in Ended \cup {NoFetch}
  /\ robots \in RobotsAnswers \cup {NoFetch}
  /\ fetch # NoFetch /\ fetch.stage # "resolve" => fetch.url \in fetch.visited

\* The four places that read a row (validator.py, registry.py, operations.py,
\* live.py) agree: a row the first three let pass is never turned away by the
\* live adapter for want of an approval, so no target fails on every day of its
\* schedule with a row that loads.
AdmittedRowIsObservable ==
  outcome # NoFetch /\ ~outcome.begun /\ Admitted(target) => target.url.form # "plain"

\* Whatever the registry holds, wherever redirects lead and whatever the resolver
\* says when, each connection of an observation goes to a public address, for a
\* well-formed URL of the origin in a row whose terms were reviewed, with a
\* reference, and whose access and activation were signed by an authorizer.
OnlyApprovedIsContacted ==
  \A r \in requests :
    /\ target.terms_review_completed /\ target.terms_review_referenced
    /\ {target.automation_approved_by, target.activation_approved_by} = {"authorizer"}
    /\ target.activated_at /\ target.window = "open"
    /\ r.url.origin = target.url.origin /\ r.url.form = "plain"
    /\ r.address \in PublicAddresses

\* Before the page is asked for, the site's policy has been read and allows it,
\* or the site has said that it has none; a policy that could not be read, for
\* any reason, is no permission.
PageReadUnderPolicy ==
  (\E r \in requests : r.purpose = "page") =>
    robots # NoFetch /\ (robots.allowed \/ robots.status \in {404, 410})

\* A site cannot keep an observation going: at most four requests for each of
\* the two fetches, no URL twice in one, and none after its time is up.
RequestsBounded ==
  \A purpose \in {"robots", "page"} :
    LET made == {r \in requests : r.purpose = purpose} IN
    /\ Cardinality(made) <= MAX_REDIRECT_HOPS + 1
    /\ \A q, r \in made : q.url = r.url => q = r
    /\ \A r \in made : r.at < OVERALL_BUDGET

\* What counts as observed was read under the policy, whole, not empty, and
\* before its time was up.
ObservedInTime ==
  outcome # NoFetch /\ outcome.result = "observed" =>
    /\ robots # NoFetch
    /\ \E r \in requests : r.purpose = "page"
    /\ outcome.took < OVERALL_BUDGET
    /\ outcome.bytes \in 1..MAX_RESPONSE_BYTES
=============================================================================
