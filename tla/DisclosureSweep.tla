--------------------------- MODULE DisclosureSweep ---------------------------
(***************************************************************************)
(* The daily sweep that stores disclosures before the publisher drops them *)
(* (tools/capture_disclosures.py, started by launchd): it asks the index   *)
(* for today and the days before, newest first, and downloads each wanted  *)
(* document it does not hold, at most Budget of them.  A document the      *)
(* index lists without an address is passed over.                          *)
(*                                                                         *)
(* A document is written under a temporary name and renamed, so that a     *)
(* crash leaves either no file or a whole one: storing is one step.        *)
(***************************************************************************)
EXTENDS Integers, FiniteSets

CONSTANTS
  Documents,    \* [code, day, url, kind]: all that is ever disclosed
  Universe,     \* the companies of the ledger
  LegacyFiles,  \* sets of files <<code, day>> an earlier version may have left
  WindowDays,   \* --days
  Budget,       \* MAX_DOCUMENTS_PER_SWEEP
  LastDay,      \* bound on the calendar
  NoAddress,    \* the url of a document that has none
  NoSweep

\* A day is a number; a document is one company's, of one day, at one address.
ASSUME DocumentsAssumption ==
  /\ \A d \in Documents : d.day \in Nat
  /\ \A c, d \in Documents :
       c.url # NoAddress /\ c.code = d.code /\ c.day = d.day /\ c.url = d.url => c = d

ASSUME SweepBounds == WindowDays \in Nat /\ Budget \in Nat /\ LastDay \in Nat

VARIABLES
  today,        \* NoSweep when no sweep is ever run
  published,    \* documents the index lists
  legacy,       \* files of the earlier version
  store,        \* [key, document]: the files of the store
  sweep,        \* the running sweep, or NoSweep
  answered      \* documents due in a sweep that ended green, but for those it
                \* counted as expired

sweepVars == <<today, published, legacy, store, sweep, answered>>

\* A short report of a company of the ledger.
Wanted(d) == d.kind = "tanshin" /\ d.code \in Universe

Addressed(d) == d.url # NoAddress

Day(d) == <<d.code, d.day>>

\* Fault: the key forgets the document.
StorageKeyOfDay(d) == Day(d)

StorageKey(d) == <<d.code, d.day, d.url>>

Held(d) == (\E f \in store : f.key = StorageKey(d)) \/ Day(d) \in legacy

\* Fault: the limit is noticed one document late.
BudgetLeftLate(s) == s.budget >= 0

BudgetLeft(s) == s.budget > 0

\* Fault: what was left behind does not count.
ExitWithoutLeftBehind(s) == IF s.failed THEN 1 ELSE 0

ExitCode(s) == IF s.failed \/ s.left # {} THEN 1 ELSE 0

(***************************************************************************)
(* The calendar and the publisher.                                         *)
(***************************************************************************)

NextDay ==
  /\ today # NoSweep /\ today < LastDay
  /\ sweep = NoSweep
  /\ today' = today + 1
  /\ UNCHANGED <<published, legacy, store, sweep, answered>>

\* Before or after the sweep of that day, or during it.
Publish(d) ==
  /\ d.day = today /\ d \notin published
  /\ published' = published \cup {d}
  /\ UNCHANGED <<today, legacy, store, sweep, answered>>

(***************************************************************************)
(* The sweep.                                                              *)
(***************************************************************************)

StartSweep ==
  /\ today # NoSweep
  /\ sweep = NoSweep
  /\ sweep' = [back |-> 0, queue |-> {}, budget |-> Budget,
               failed |-> FALSE, expired |-> {}, left |-> {},
               due |-> {d \in published : Wanted(d) /\ today - d.day < WindowDays}]
  /\ UNCHANGED <<today, published, legacy, store, answered>>

\* The index of the next day back, when the documents of this one are done.
Listed(day) == {d \in published : Wanted(d) /\ Addressed(d) /\ d.day = day}

ReadIndex ==
  /\ sweep # NoSweep /\ sweep.queue = {} /\ sweep.back < WindowDays
  /\ \/ sweep' = [sweep EXCEPT !.back = @ + 1,
                    !.queue = Listed(today - sweep.back)]
     \/ sweep' = [sweep EXCEPT !.back = @ + 1, !.failed = TRUE]
  /\ UNCHANGED <<today, published, legacy, store, answered>>

Skip(d) ==
  /\ Held(d)
  /\ sweep' = [sweep EXCEPT !.queue = @ \ {d}]
  /\ UNCHANGED <<today, published, legacy, store, answered>>

LeaveBehind(d) ==
  /\ ~Held(d) /\ ~BudgetLeft(sweep)
  /\ sweep' = [sweep EXCEPT !.queue = @ \ {d}, !.left = @ \cup {d}]
  /\ UNCHANGED <<today, published, legacy, store, answered>>

\* The document comes, or the download fails with a message.  Any message with
\* "404" in it, the publisher's answer or another, counts it as expired.
Download(d) ==
  /\ ~Held(d) /\ BudgetLeft(sweep)
  /\ LET next == [sweep EXCEPT !.queue = @ \ {d}, !.budget = @ - 1] IN
     \/ /\ store' = store \cup {[key |-> StorageKey(d), document |-> d]}
        /\ sweep' = next
     \/ /\ sweep' \in {[next EXCEPT !.expired = @ \cup {d}], [next EXCEPT !.failed = TRUE]}
        /\ store' = store
  /\ UNCHANGED <<today, published, legacy, answered>>

EndSweep ==
  /\ sweep # NoSweep /\ sweep.queue = {} /\ sweep.back = WindowDays
  /\ answered' = IF ExitCode(sweep) = 0 THEN answered \cup (sweep.due \ sweep.expired) ELSE answered
  /\ sweep' = NoSweep
  /\ UNCHANGED <<today, published, legacy, store>>

\* The machine goes to sleep or is shut down.
Crash ==
  /\ sweep # NoSweep
  /\ sweep' = NoSweep
  /\ UNCHANGED <<today, published, legacy, store, answered>>

SweepIdle ==
  /\ today = NoSweep
  /\ published = {} /\ legacy = {} /\ store = {} /\ answered = {}
  /\ sweep = NoSweep

SweepInit ==
  /\ today = 0
  /\ legacy \in LegacyFiles
  /\ published = {} /\ store = {} /\ answered = {}
  /\ sweep = NoSweep

SweepNext ==
  \/ NextDay
  \/ \E d \in Documents : Publish(d)
  \/ StartSweep
  \/ ReadIndex
  \/ \E d \in IF sweep = NoSweep THEN {} ELSE sweep.queue : Skip(d) \/ LeaveBehind(d) \/ Download(d)
  \/ EndSweep
  \/ Crash

SweepSpec == SweepInit /\ [][SweepNext]_sweepVars

(***************************************************************************)
(* Properties.                                                             *)
(***************************************************************************)

\* A sweep never downloads more than the contract grants it, and the store
\* holds only documents of the ledger's companies.
SweepTypeOK ==
  /\ today \in 0..LastDay \cup {NoSweep}
  /\ \A f \in store : f.document \in published /\ Wanted(f.document)
  /\ sweep # NoSweep =>
       sweep.budget \in 0..Budget /\ sweep.back \in 0..WindowDays /\ sweep.queue \subseteq published

\* What a green sweep does not count as expired, it has captured: every document
\* the index could list, in the window when the sweep began, is in the store,
\* whichever sweep put it there and however often a sweep failed or crashed.  Two
\* kinds of document pass uncounted: one listed without an address, and one whose
\* day and company an earlier version stored.  That is less than the comment at
\* capture_disclosures.py:199-200 has green mean.
GreenMeansCapturedOrExpired ==
  \A d \in answered :
    (\E f \in store : f.document = d) \/ ~Addressed(d) \/ Day(d) \in legacy
=============================================================================
