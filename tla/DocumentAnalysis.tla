--------------------------- MODULE DocumentAnalysis ---------------------------
(***************************************************************************)
(* The analysis of one research handoff (document_analysis/): the document *)
(* it names is retrieved from an approved publisher, redirects followed    *)
(* one at a time; a handoff that names none goes to the discovery          *)
(* pipeline, which reads the source page and every document it links,      *)
(* with a client that follows redirects by itself; an index is no page to  *)
(* discover documents on.                                                  *)
(*                                                                         *)
(* What a link leads to is part of it: whether its host is an approved     *)
(* publisher's, whether it is public https at all, and whether its title   *)
(* makes it an earnings document.                                          *)
(***************************************************************************)
EXTENDS Naturals, Sequences

CONSTANTS
  Links,               \* [name, authorized, https, earnings]
  Handoffs,            \* [document, titled, index, source]
  MAX_DOCUMENT_HOPS,
  MaxCandidates,       \* links of a source page
  NoDocument           \* no document, no handoff, no attempt, no dispatch

Attempts == [guarded : BOOLEAN, url : Links, hops : 0..MAX_DOCUMENT_HOPS]

Dispatches == {"failed", "no_target_documents", "analysis_completed"}

ASSUME DocumentAssumption ==
  /\ \A l \in Links : l.authorized => l.https
  /\ Handoffs \subseteq
       [document : Links \cup {NoDocument}, titled : BOOLEAN, index : BOOLEAN, source : Links]
  /\ MAX_DOCUMENT_HOPS \in Nat /\ MaxCandidates \in Nat
  /\ NoDocument \notin Handoffs \cup Links \cup Attempts \cup Dispatches

VARIABLES
  handoff,     \* the payload, or NoDocument
  candidates,  \* documents still to be read, or NoDocument before they are known
  attempt,     \* the document being retrieved
  asked,       \* [url, guarded, answer]: every request, in order, but for those a
               \* client makes by itself after a redirect
  analyses,    \* documents with an analysis file
  dispatch     \* dispatch_result.json, "failed" when the command ends without

documentVars == <<handoff, candidates, attempt, asked, analyses, dispatch>>

Named == handoff.document # NoDocument

\* Fault: a redirect is followed wherever it leads.
AnyRedirect(location) == location # NoDocument

RedirectAllowed(location) == location # NoDocument /\ location.authorized

HopsLeftFor(a) == a.hops < MAX_DOCUMENT_HOPS

Dispatched == dispatch # NoDocument

Fail == dispatch' = "failed" /\ attempt' = NoDocument

\* No title, an index, an unapproved publisher and a title that is no earnings
\* document end it before anything is asked for.
ReadHandoff ==
  /\ handoff # NoDocument /\ candidates = NoDocument /\ asked = <<>> /\ ~Dispatched
  /\ UNCHANGED <<handoff, asked, analyses>>
  /\ \/ /\ Named /\ handoff.titled /\ ~handoff.document.authorized
        /\ Fail /\ UNCHANGED candidates
     \/ /\ Named /\ (handoff.titled => handoff.document.authorized)
        /\ candidates' = IF handoff.titled THEN <<handoff.document>> ELSE <<>>
        /\ UNCHANGED <<attempt, dispatch>>
     \/ /\ ~Named /\ handoff.index
        /\ candidates' = <<>>
        /\ UNCHANGED <<attempt, dispatch>>
     \/ /\ ~Named /\ ~handoff.index /\ handoff.source.earnings
        /\ candidates' = <<handoff.source>>
        /\ UNCHANGED <<attempt, dispatch>>

\* What a page can link: earnings documents, each once.
Discoverable ==
  UNION { {s \in [1..n -> {l \in Links : l.earnings}] : \A i, j \in 1..n : s[i] = s[j] => i = j} :
            n \in 0..MaxCandidates }

\* The source page is read for links.
Discover ==
  /\ handoff # NoDocument /\ candidates = NoDocument /\ ~Dispatched
  /\ ~Named /\ ~handoff.index /\ ~handoff.source.earnings
  /\ UNCHANGED <<handoff, analyses>>
  /\ \/ /\ ~handoff.source.https
        /\ Fail /\ UNCHANGED <<candidates, asked>>
     \/ /\ handoff.source.https
        /\ asked' = Append(asked, [url |-> handoff.source, guarded |-> FALSE, answer |-> "page"])
        /\ \/ Fail /\ UNCHANGED candidates
           \/ /\ candidates' \in Discoverable
              /\ UNCHANGED <<attempt, dispatch>>

Reading == candidates \notin {NoDocument, <<>>} /\ attempt = NoDocument /\ ~Dispatched

Exclude ==
  /\ Reading /\ ~Head(candidates).earnings
  /\ candidates' = Tail(candidates)
  /\ UNCHANGED <<handoff, attempt, asked, analyses, dispatch>>

Retrieve ==
  /\ Reading /\ Head(candidates).earnings
  /\ UNCHANGED <<handoff, candidates, asked, analyses>>
  /\ \/ /\ ~Head(candidates).https
        /\ Fail
     \/ /\ Head(candidates).https
        /\ attempt' = [guarded |-> Named, url |-> Head(candidates), hops |-> 0]
        /\ UNCHANGED dispatch

\* What was retrieved is parsed, or recorded as not parseable.
Written ==
  /\ analyses' = analyses \cup {Head(candidates)}
  /\ candidates' = Tail(candidates)
  /\ attempt' = NoDocument
  /\ UNCHANGED dispatch

\* A refusal, another status, another type and too large a document all end the
\* command; so does a redirect that is not allowed, or one too many.
Ask ==
  /\ attempt # NoDocument
  /\ UNCHANGED handoff
  /\ \E answer \in {"refusal", "failure", "document", "redirect"} :
       /\ asked' = Append(asked, [url |-> attempt.url, guarded |-> attempt.guarded, answer |-> answer])
       /\ \/ answer \in {"refusal", "failure"} /\ Fail /\ UNCHANGED <<candidates, analyses>>
          \/ answer = "document" /\ Written
          \/ /\ answer = "redirect" /\ attempt.guarded
             /\ UNCHANGED <<candidates, analyses>>
             /\ \E location \in Links \cup {NoDocument} :
                  IF RedirectAllowed(location) /\ HopsLeftFor(attempt)
                    THEN /\ attempt' = [attempt EXCEPT !.url = location, !.hops = @ + 1]
                         /\ UNCHANGED dispatch
                    ELSE Fail

Dispatch ==
  /\ candidates = <<>> /\ ~Dispatched
  /\ dispatch' = IF analyses = {} THEN "no_target_documents" ELSE "analysis_completed"
  /\ UNCHANGED <<handoff, candidates, attempt, asked, analyses>>

DocumentIdle ==
  /\ handoff = NoDocument /\ candidates = NoDocument /\ attempt = NoDocument
  /\ asked = <<>> /\ analyses = {} /\ dispatch = NoDocument

DocumentInit ==
  /\ handoff \in Handoffs
  /\ candidates = NoDocument /\ attempt = NoDocument
  /\ asked = <<>> /\ analyses = {} /\ dispatch = NoDocument

DocumentNext ==
  \/ ReadHandoff
  \/ Discover
  \/ Exclude
  \/ Retrieve
  \/ Ask
  \/ Dispatch

DocumentSpec == DocumentInit /\ [][DocumentNext]_documentVars

(***************************************************************************)
(* Properties.                                                             *)
(***************************************************************************)

\* Every step keeps to what a handoff and an attempt can be.
DocumentTypeOK ==
  /\ handoff \in Handoffs \cup {NoDocument}
  /\ attempt \in Attempts \cup {NoDocument}
  /\ analyses \subseteq Links
  /\ dispatch \in Dispatches \cup {NoDocument}

\* The grant is narrow (acquisition.py:1-13): for a named document, whatever
\* publishers answer, only their hosts are asked, a few times, and nothing after
\* a refusal or an error; an index by itself leads to no request at all.
DocumentsStayWithPublishers ==
  handoff # NoDocument =>
    /\ Named =>
         /\ \A i \in DOMAIN asked : asked[i].guarded /\ asked[i].url.authorized
         /\ Len(asked) <= MAX_DOCUMENT_HOPS + 1
         /\ \A i \in DOMAIN asked : i < Len(asked) => asked[i].answer = "redirect"
    /\ ~Named /\ handoff.index => asked = <<>>
=============================================================================
