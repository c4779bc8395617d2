--------------------------- MODULE EvidenceCapture ---------------------------
(***************************************************************************)
(* One evidence capture: a population fixed before anything is read, and   *)
(* an append-only ledger of what was read (evidence/store.py), changed on  *)
(* branches that are open side by side.                                    *)
(*                                                                         *)
(* CI verifies what a merge of the branch would give and compares it with  *)
(* the main branch of that moment (.github/workflows/checks.yml).  It does *)
(* not run again when main moves on, so that a branch is merged on a       *)
(* comparison with an older main; the merge is git's, of three versions.   *)
(* Checks are required of a merge (DECISIONS.md:815).                      *)
(*                                                                         *)
(* The tools write once and append; a person can also edit the files of a  *)
(* branch.  A source may have been read at any time up to now.             *)
(***************************************************************************)
EXTENDS Naturals, Sequences, SequencesExt

CONSTANTS
  Events,
  ManifestIds,
  Outcomes,     \* [status, hashed] a bundle can claim
  Branches,     \* names a branch can have
  MaxBundles,   \* bound on the ledger
  MaxEdits,     \* bound on the edits of all branches
  LastTime,     \* bound on the clock
  Missing       \* a file that is not there

ASSUME CaptureAssumption == LastTime \in Nat

VARIABLES
  time,         \* Missing when no capture is ever made
  main,         \* [manifest, ledger] on the main branch
  branches,     \* name -> Missing, or [fork, files, passed]: main where it was
                \* last in step with it, its files, whether CI passed them
  edits         \* how often branches were edited

captureVars == <<time, main, branches, edits>>

(***************************************************************************)
(* The files.                                                              *)
(***************************************************************************)

\* Fault: the hash is not tied to the status.
AnyBundleOk(b) == TRUE

\* A captured source has the hash of its body, and only it.
BundleOk(b) == (b.status = "captured") <=> b.hashed

Bundles(ledger) == IF ledger = Missing THEN {} ELSE Range(ledger)

Unattempted(m, B) == {e \in m.included : \A b \in B : b.event # e}
Foreign(m, B) == {b \in B : b.event \notin m.included}
Unhashed(B) == {b \in B : b.status = "captured" /\ ~b.hashed}
Misattributed(m, B) == {b \in B : b.manifest # m.id}

\* Fault: no bundle is compared with the time the population was fixed.
PrematureUnchecked(m, B) == {}

Premature(m, B) == {b \in B : b.retrieved < m.fixed}

\* verify-evidence-capture.
Verified(m, ledger) ==
  LET B == Bundles(ledger) IN
  /\ \A b \in B : BundleOk(b)
  /\ Unattempted(m, B) = {}
  /\ Foreign(m, B) = {}
  /\ Unhashed(B) = {}
  /\ Premature(m, B) = {}
  /\ Misattributed(m, B) = {}

(***************************************************************************)
(* The CI step.                                                            *)
(***************************************************************************)

CheckoutOk(files) ==
  \/ files.manifest = Missing /\ files.ledger = Missing
  \/ files.manifest # Missing /\ Verified(files.manifest, files.ledger)

\* Fault: a population must still be there, but may read otherwise.
PopulationThere(base, files) == base.manifest # Missing => files.manifest # Missing

PopulationKept(base, files) == base.manifest # Missing => files.manifest = base.manifest

LedgerKept(base, files) ==
  base.ledger # Missing => files.ledger # Missing /\ IsPrefix(base.ledger, files.ledger)

(***************************************************************************)
(* The merge of a branch, file by file.  A file changed on one side only   *)
(* is taken from there; two different changes of one file are a conflict.  *)
(* Git can also merge two changes of one file that lie far apart, which    *)
(* additions at the end of a ledger never do.                              *)
(***************************************************************************)

Conflict(fork, ours, theirs) == ours # fork /\ theirs # fork /\ ours # theirs

Mergeable(b) ==
  /\ ~Conflict(b.fork.manifest, b.files.manifest, main.manifest)
  /\ ~Conflict(b.fork.ledger, b.files.ledger, main.ledger)

Changed(fork, ours, theirs) == IF ours = fork THEN theirs ELSE ours

Merged(b) ==
  [manifest |-> Changed(b.fork.manifest, b.files.manifest, main.manifest),
   ledger |-> Changed(b.fork.ledger, b.files.ledger, main.ledger)]

\* What a person can keep of a file: its merge, or either side of a conflict.
Resolutions(fork, ours, theirs) ==
  IF Conflict(fork, ours, theirs) THEN {ours, theirs} ELSE {Changed(fork, ours, theirs)}

(***************************************************************************)
(* The capture.                                                            *)
(***************************************************************************)

TimePasses ==
  /\ time # Missing /\ time < LastTime
  /\ time' = time + 1
  /\ UNCHANGED <<main, branches, edits>>

OpenBranch(p) ==
  /\ time # Missing /\ branches[p] = Missing
  /\ branches' = [branches EXCEPT ![p] = [fork |-> main, files |-> main, passed |-> FALSE]]
  /\ UNCHANGED <<time, main, edits>>

\* A push: CI has yet to look at it.
Pushed(p, fork, files) ==
  /\ branches' = [branches EXCEPT ![p] = [fork |-> fork, files |-> files, passed |-> FALSE]]
  /\ UNCHANGED <<time, main>>

Edited(p, files) ==
  /\ edits < MaxEdits
  /\ edits' = edits + 1
  /\ Pushed(p, branches[p].fork, files)

\* The population is written once; every listed event is in or out.
WriteManifest(p) ==
  LET files == branches[p].files IN
  /\ files.manifest = Missing
  /\ \E id \in ManifestIds, included \in SUBSET Events :
       Edited(p, [files EXCEPT !.manifest = [id |-> id, included |-> included, fixed |-> time]])

\* The ledger is created by its first bundle, with or without a manifest.
AppendBundles(p) ==
  LET files == branches[p].files IN
  /\ files.ledger # Missing => Len(files.ledger) < MaxBundles
  /\ \E e \in Events, id \in ManifestIds, retrieved \in 0..time, o \in Outcomes :
       LET b == [event |-> e, manifest |-> id, retrieved |-> retrieved,
                 status |-> o.status, hashed |-> o.hashed] IN
       Edited(p, [files EXCEPT !.ledger = IF @ = Missing THEN <<b>> ELSE Append(@, b)])

\* By hand: the population is removed, a line of the ledger or all of it.
RemoveManifest(p) ==
  LET files == branches[p].files IN
  /\ files.manifest # Missing
  /\ Edited(p, [files EXCEPT !.manifest = Missing])

RemoveFromLedger(p) ==
  LET files == branches[p].files IN
  /\ files.ledger # Missing
  /\ \/ Edited(p, [files EXCEPT !.ledger = Missing])
     \/ \E i \in DOMAIN files.ledger : Edited(p, [files EXCEPT !.ledger = RemoveAt(@, i)])

\* Main is merged into the branch, conflicts resolved by hand.
UpdateBranch(p) ==
  LET fork == branches[p].fork
      files == branches[p].files IN
  /\ fork # main
  /\ \E m \in Resolutions(fork.manifest, files.manifest, main.manifest),
        l \in Resolutions(fork.ledger, files.ledger, main.ledger) :
       Pushed(p, main, [manifest |-> m, ledger |-> l])
  /\ UNCHANGED edits

\* CI checks out the branch as merged, and knows main as it is now.
Check(p) ==
  LET b == branches[p] IN
  /\ ~b.passed
  /\ Mergeable(b)
  /\ CheckoutOk(Merged(b))
  /\ PopulationKept(main, Merged(b))
  /\ LedgerKept(main, Merged(b))
  /\ branches' = [branches EXCEPT ![p].passed = TRUE]
  /\ UNCHANGED <<time, main, edits>>

\* On the green of an earlier moment.
Merge(p) ==
  LET b == branches[p] IN
  /\ b.passed
  /\ Mergeable(b)
  /\ main' = Merged(b)
  /\ branches' = [branches EXCEPT ![p] = Missing]
  /\ UNCHANGED <<time, edits>>

CaptureIdle ==
  /\ time = Missing
  /\ main = [manifest |-> Missing, ledger |-> Missing]
  /\ branches = [p \in Branches |-> Missing]
  /\ edits = 0

CaptureInit ==
  /\ time = 0
  /\ main = [manifest |-> Missing, ledger |-> Missing]
  /\ branches = [p \in Branches |-> Missing]
  /\ edits = 0

CaptureNext ==
  \/ TimePasses
  \/ \E p \in Branches : OpenBranch(p)
  \/ \E p \in {q \in Branches : branches[q] # Missing} :
       \/ WriteManifest(p)
       \/ AppendBundles(p)
       \/ RemoveManifest(p)
       \/ RemoveFromLedger(p)
       \/ UpdateBranch(p)
       \/ Check(p)
       \/ Merge(p)

CaptureSpec == CaptureInit /\ [][CaptureNext]_captureVars

(***************************************************************************)
(* Properties.                                                             *)
(***************************************************************************)

\* Files and times have their shape; a merged line carries a hash exactly when
\* there is a body to match it with.
CaptureTypeOK ==
  /\ time \in 0..LastTime \cup {Missing}
  /\ main.manifest # Missing =>
       /\ main.manifest.id \in ManifestIds
       /\ main.manifest.included \subseteq Events
       /\ main.manifest.fixed \in 0..LastTime
  /\ \A b \in Bundles(main.ledger) :
       b.event \in Events /\ (b.status = "captured" <=> b.hashed)

\* On the record, the choice of the events precedes the reading: what is merged,
\* also when the population came from one branch and the ledger from another, has
\* one population, an account of each of its events and of no other, and nothing
\* in it was read before the population was fixed.
SelectionPrecedesReading ==
  LET B == Bundles(main.ledger) IN
  B # {} =>
    /\ main.manifest # Missing
    /\ \A b \in B : b.manifest = main.manifest.id /\ b.retrieved >= main.manifest.fixed
    /\ {b.event : b \in B} = main.manifest.included

\* A merged population is never replaced or dropped and a merged line never lost
\* or changed, though a branch is merged on a comparison with an older main, and
\* whatever others have merged since.
CaptureNeverRewritten ==
  [][/\ main.manifest # Missing => main'.manifest = main.manifest
     /\ main.ledger # Missing => main'.ledger # Missing /\ IsPrefix(main.ledger, main'.ledger)
    ]_captureVars
=============================================================================
