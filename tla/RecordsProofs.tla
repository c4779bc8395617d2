---------------------------- MODULE RecordsProofs ----------------------------
(***************************************************************************)
(* Theorems about the record-keeping parts beside the monitor: evidence    *)
(* captures, live observations, the record that is explored and held back, *)
(* the disclosure sweep, and the analysis of handoffs.  EarningsCycleProofs*)
(* has those about an earnings event; the last section is about all six    *)
(* side by side.                                                           *)
(***************************************************************************)
EXTENDS MCRecords, EarningsCycleProofs

-----------------------------------------------------------------------------
(***************************************************************************)
(* What a merged evidence capture keeps, whoever edits the branches.  A    *)
(* branch that passed has only additions to main as it was where the two   *)
(* were last in step, and main has only additions since; so what git can   *)
(* merge is main itself or was checked as it is.                           *)
(***************************************************************************)
Bundle ==
  [event : Events, manifest : ManifestIds, retrieved : Nat,
   status : {o.status : o \in Outcomes}, hashed : {o.hashed : o \in Outcomes}]

Manifest == [id : ManifestIds, included : SUBSET Events, fixed : 0 .. LastTime]

Files == [manifest : Manifest \cup {Missing}, ledger : Seq(Bundle) \cup {Missing}]

BranchRecord == [fork : Files, files : Files, passed : BOOLEAN]

\* The files of all branches are what the tools write.
FilesInv ==
  /\ time \in 0 .. LastTime
  /\ main \in Files
  /\ branches \in [Branches -> BranchRecord \cup {Missing}]

\* What is merged has passed the checks.
MergedInv == CheckoutOk(main)

\* The later files have the population of the earlier ones, and their ledger.
Later(earlier, later) == PopulationKept(earlier, later) /\ LedgerKept(earlier, later)

\* The population a merge of these files into base would have.
PopulationOf(base, later) == IF later.manifest = Missing THEN base.manifest ELSE later.manifest

\* What CI has seen of a branch, in terms that stay true when the base moves on.
Sound(base, b) ==
  /\ Later(b.fork, b.files)
  /\ b.files.ledger # b.fork.ledger =>
       /\ PopulationOf(base, b.files) # Missing
       /\ Verified(PopulationOf(base, b.files), b.files.ledger)
  /\ b.files.ledger = b.fork.ledger /\ b.files.manifest # b.fork.manifest =>
       base.manifest # Missing \/ Verified(b.files.manifest, Missing)

BranchInv(base, b) == Later(b.fork, base) /\ (b.passed => Sound(base, b))

BranchesInv == \A p \in Branches : branches[p] # Missing => BranchInv(main, branches[p])

\* A ledger carries itself on, and so does one that carries on an earlier one.
LEMMA LedgersCarryOn ==
  /\ \A s \in Seq(Bundle) : IsPrefix(s, s)
  /\ \A s, t, u \in Seq(Bundle) : IsPrefix(s, t) /\ IsPrefix(t, u) => IsPrefix(s, u)
<1>1. ASSUME NEW s \in Seq(Bundle) PROVE IsPrefix(s, s)
  BY DEF IsPrefix
<1>2. ASSUME NEW s \in Seq(Bundle), NEW t \in Seq(Bundle), NEW u \in Seq(Bundle),
             IsPrefix(s, t), IsPrefix(t, u)
      PROVE  IsPrefix(s, u)
  <2>1. Len(s) \in Nat /\ Len(t) \in Nat /\ Len(u) \in Nat /\ Len(s) <= Len(t) /\ Len(t) <= Len(u)
    BY <1>2 DEF IsPrefix
  <2>2. \A i \in 1 .. Len(s) : s[i] = t[i]
    <3>1. \A i \in 1 .. Len(s) : SubSeq(s, 1, Len(s))[i] = s[i] /\ SubSeq(t, 1, Len(s))[i] = t[i]
      BY <2>1
    <3> QED BY <1>2, <3>1 DEF IsPrefix
  <2>3. \A i \in 1 .. Len(t) : t[i] = u[i]
    <3>1. \A i \in 1 .. Len(t) : SubSeq(t, 1, Len(t))[i] = t[i] /\ SubSeq(u, 1, Len(t))[i] = u[i]
      BY <2>1
    <3> QED BY <1>2, <3>1 DEF IsPrefix
  <2>4. \A i \in 1 .. Len(s) : s[i] = u[i]
    BY <2>1, <2>2, <2>3
  <2> QED BY <2>1, <2>4 DEF IsPrefix
<1> QED BY <1>1, <1>2

\* Files carry themselves on, and so do files that carry on earlier ones.
LEMMA FilesCarryOn ==
  /\ \A f \in Files : Later(f, f)
  /\ \A f, g, h \in Files : Later(f, g) /\ Later(g, h) => Later(f, h)
BY LedgersCarryOn DEF Later, PopulationKept, LedgerKept, Files

\* A new capture has no files.
LEMMA InitFilesInv == CaptureInit => FilesInv /\ MergedInv /\ BranchesInv
BY CaptureAssumption DEF CaptureInit, FilesInv, MergedInv, BranchesInv, CheckoutOk, Files

\* A merge of files gives files.
LEMMA MergedFiles ==
  ASSUME FilesInv, NEW b \in BranchRecord
  PROVE  Merged(b) \in Files
BY DEF FilesInv, Merged, Changed, Files, BranchRecord

\* A push of files to an open branch leaves records of files.
LEMMA PushKeepsFiles ==
  ASSUME FilesInv, NEW p \in Branches, NEW fork \in Files, NEW content \in Files,
         Pushed(p, fork, content)
  PROVE  FilesInv'
<1>1. [fork |-> fork, files |-> content, passed |-> FALSE] \in BranchRecord
  BY DEF BranchRecord
<1> QED BY <1>1 DEF Pushed, FilesInv

\* An edit by tool or by hand leaves files of the same shape.
LEMMA EditKeepsFiles ==
  ASSUME FilesInv, NEW p \in Branches, branches[p] # Missing,
         WriteManifest(p) \/ AppendBundles(p) \/ RemoveManifest(p) \/ RemoveFromLedger(p)
  PROVE  \E f \in Files : Pushed(p, branches[p].fork, f)
<1> DEFINE old == branches[p].files
<1>0. old \in Files /\ time \in 0 .. LastTime
  BY DEF FilesInv, BranchRecord
<1>f. \A m \in Manifest \cup {Missing} : [old EXCEPT !.manifest = m] \in Files
  BY <1>0 DEF Files
<1>l. \A l \in Seq(Bundle) \cup {Missing} : [old EXCEPT !.ledger = l] \in Files
  BY <1>0 DEF Files
<1>1. CASE WriteManifest(p)
  <2>1. PICK id \in ManifestIds, included \in SUBSET Events :
          Edited(p, [old EXCEPT !.manifest = [id |-> id, included |-> included, fixed |-> time]])
    BY <1>1 DEF WriteManifest
  <2>2. [id |-> id, included |-> included, fixed |-> time] \in Manifest
    BY <1>0 DEF Manifest
  <2> QED BY <2>1, <2>2, <1>f DEF Edited
<1>2. CASE AppendBundles(p)
  <2>1. PICK e \in Events, id \in ManifestIds, retrieved \in 0..time, o \in Outcomes :
          LET b == [event |-> e, manifest |-> id, retrieved |-> retrieved,
                    status |-> o.status, hashed |-> o.hashed] IN
          Edited(p, [old EXCEPT !.ledger = IF @ = Missing THEN <<b>> ELSE Append(@, b)])
    BY <1>2 DEF AppendBundles
  <2> DEFINE b == [event |-> e, manifest |-> id, retrieved |-> retrieved,
                   status |-> o.status, hashed |-> o.hashed]
  <2>2. b \in Bundle
    BY <1>0 DEF Bundle
  <2> HIDE DEF b
  <2>3. (IF old.ledger = Missing THEN <<b>> ELSE Append(old.ledger, b)) \in Seq(Bundle)
    BY <2>2, <1>0 DEF Files
  <2>4. Edited(p, [old EXCEPT !.ledger = IF old.ledger = Missing THEN <<b>> ELSE Append(old.ledger, b)])
    BY <2>1 DEF b
  <2> QED BY <2>3, <2>4, <1>l DEF Edited
<1>3. CASE RemoveManifest(p)
  BY <1>3, <1>f DEF RemoveManifest, Edited
<1>4. CASE RemoveFromLedger(p)
  <2>1. old.ledger \in Seq(Bundle)
    BY <1>0, <1>4 DEF RemoveFromLedger, Files
  <2>2. \A i \in DOMAIN old.ledger : RemoveAt(old.ledger, i) \in Seq(Bundle)
    BY <2>1 DEF RemoveAt
  <2>3. PICK l \in Seq(Bundle) \cup {Missing} : Edited(p, [old EXCEPT !.ledger = l])
    BY <1>4, <2>2 DEF RemoveFromLedger
  <2> QED BY <2>3, <1>l DEF Edited
<1> QED BY <1>1, <1>2, <1>3, <1>4

\* So does an update, to files that start from main.
LEMMA UpdateKeepsFiles ==
  ASSUME FilesInv, NEW p \in Branches, branches[p] # Missing, UpdateBranch(p)
  PROVE  \E f \in Files : Pushed(p, main, f)
<1> DEFINE fork == branches[p].fork
           old == branches[p].files
<1>1. fork \in Files /\ old \in Files /\ main \in Files
  BY DEF FilesInv, BranchRecord
<1>2. PICK m \in Resolutions(fork.manifest, old.manifest, main.manifest),
           l \in Resolutions(fork.ledger, old.ledger, main.ledger) :
        Pushed(p, main, [manifest |-> m, ledger |-> l])
  BY DEF UpdateBranch
<1>3. m \in Manifest \cup {Missing} /\ l \in Seq(Bundle) \cup {Missing}
  BY <1>1, <1>2 DEF Resolutions, Changed, Files
<1> QED BY <1>2, <1>3 DEF Files

\* What CI lets pass stays sound.
LEMMA CheckIsSound ==
  ASSUME FilesInv, MergedInv, NEW b \in BranchRecord, Later(b.fork, main), Mergeable(b),
         CheckoutOk(Merged(b)), Later(main, Merged(b))
  PROVE  Sound(main, b)
<1> DEFINE F == b.fork
           X == b.files
           R == Merged(b)
<1>0. F \in Files /\ X \in Files /\ main \in Files /\ R \in Files
  BY MergedFiles DEF FilesInv, BranchRecord
<1>1. /\ R.manifest = IF X.manifest = F.manifest THEN main.manifest ELSE X.manifest
      /\ R.ledger = IF X.ledger = F.ledger THEN main.ledger ELSE X.ledger
  BY DEF Merged, Changed
<1>2. /\ X.manifest = F.manifest \/ main.manifest = F.manifest \/ X.manifest = main.manifest
      /\ X.ledger = F.ledger \/ main.ledger = F.ledger \/ X.ledger = main.ledger
  BY DEF Mergeable, Conflict
<1>3. main.manifest = Missing => main.ledger = Missing
  BY DEF MergedInv, CheckoutOk
<1>4. \/ R.manifest = Missing /\ R.ledger = Missing
      \/ R.manifest # Missing /\ Verified(R.manifest, R.ledger)
  BY DEF CheckoutOk
<1>5. F.manifest # Missing => main.manifest = F.manifest
  BY DEF Later, PopulationKept
<1>6. main.manifest # Missing => R.manifest = main.manifest
  BY DEF Later, PopulationKept
<1> HIDE DEF F, X, R
<1>7. PopulationKept(F, X)
  BY <1>1, <1>5, <1>6 DEF PopulationKept
<1>8. LedgerKept(F, X)
  <2>1. CASE X.ledger = F.ledger
    BY <2>1, <1>0, LedgersCarryOn DEF LedgerKept, Files
  <2>2. CASE X.ledger # F.ledger
    <3>1. R.ledger = X.ledger
      BY <2>2, <1>1
    <3>2. LedgerKept(F, main) /\ LedgerKept(main, R)
      BY DEF Later, F, R
    <3> QED BY <1>0, <3>1, <3>2, LedgersCarryOn DEF LedgerKept, Files
  <2> QED BY <2>1, <2>2
<1>9. ASSUME X.ledger # F.ledger
      PROVE  PopulationOf(main, X) # Missing /\ Verified(PopulationOf(main, X), X.ledger)
  <2>1. R.ledger = X.ledger
    BY <1>1, <1>9
  <2>2. X.ledger # Missing
    BY <1>8, <1>9 DEF LedgerKept
  <2>3. R.manifest # Missing /\ Verified(R.manifest, X.ledger)
    BY <1>4, <2>1, <2>2
  <2>4. PopulationOf(main, X) = R.manifest
    BY <1>1, <1>5, <1>7 DEF PopulationOf, PopulationKept
  <2> QED BY <2>3, <2>4
<1>10. ASSUME X.ledger = F.ledger, X.manifest # F.manifest, main.manifest = Missing
       PROVE  Verified(X.manifest, Missing)
  <2>1. R.manifest = X.manifest /\ R.ledger = Missing
    BY <1>1, <1>3, <1>10
  <2>2. X.manifest # Missing
    BY <1>7, <1>10 DEF PopulationKept
  <2> QED BY <1>4, <2>1, <2>2
<1> QED BY <1>7, <1>8, <1>9, <1>10 DEF Sound, Later, X, F

\* A sound branch that git can merge gives files that pass, and that carry main on,
\* whatever main was when it passed.
LEMMA MergeIsSound ==
  ASSUME FilesInv, MergedInv, NEW b \in BranchRecord, Later(b.fork, main), Sound(main, b), Mergeable(b)
  PROVE  CheckoutOk(Merged(b)) /\ Later(main, Merged(b))
<1> DEFINE F == b.fork
           X == b.files
           R == Merged(b)
<1>0. F \in Files /\ X \in Files /\ main \in Files /\ R \in Files
  BY MergedFiles DEF FilesInv, BranchRecord
<1>1. /\ R.manifest = IF X.manifest = F.manifest THEN main.manifest ELSE X.manifest
      /\ R.ledger = IF X.ledger = F.ledger THEN main.ledger ELSE X.ledger
  BY DEF Merged, Changed
<1>2. /\ X.manifest = F.manifest \/ main.manifest = F.manifest \/ X.manifest = main.manifest
      /\ X.ledger = F.ledger \/ main.ledger = F.ledger \/ X.ledger = main.ledger
  BY DEF Mergeable, Conflict
<1>3. main.manifest = Missing => main.ledger = Missing
  BY DEF MergedInv, CheckoutOk
<1>4. PopulationKept(F, main) /\ PopulationKept(F, X) /\ LedgerKept(F, main) /\ LedgerKept(F, X)
  BY DEF Sound, Later
<1>5. /\ X.ledger # F.ledger =>
           PopulationOf(main, X) # Missing /\ Verified(PopulationOf(main, X), X.ledger)
      /\ X.ledger = F.ledger /\ X.manifest # F.manifest =>
           main.manifest # Missing \/ Verified(X.manifest, Missing)
  BY DEF Sound
<1>c. CheckoutOk(main)
  BY DEF MergedInv
<1> HIDE DEF F, X, R
<1>6. CheckoutOk(R)
  <2>1. CASE X.ledger # F.ledger
    <3>1. R.manifest = PopulationOf(main, X)
      BY <1>1, <1>4 DEF PopulationOf, PopulationKept
    <3> QED BY <1>1, <1>5, <2>1, <3>1 DEF CheckoutOk
  <2>2. CASE X.ledger = F.ledger /\ (X.manifest = F.manifest \/ main.manifest # Missing)
    <3>1. R.manifest = main.manifest /\ R.ledger = main.ledger
      BY <1>1, <1>2, <1>4, <2>2 DEF PopulationKept
    <3> QED BY <1>c, <3>1 DEF CheckoutOk
  <2>3. CASE X.ledger = F.ledger /\ X.manifest # F.manifest /\ main.manifest = Missing
    <3>1. R.manifest = X.manifest /\ R.ledger = Missing
      BY <1>1, <1>3, <2>3
    <3>2. X.manifest # Missing
      BY <1>4, <2>3 DEF PopulationKept
    <3> QED BY <1>5, <2>3, <3>1, <3>2 DEF CheckoutOk
  <2> QED BY <2>1, <2>2, <2>3
<1>7. PopulationKept(main, R)
  BY <1>1, <1>2, <1>4 DEF PopulationKept
<1>8. LedgerKept(main, R)
  BY <1>0, <1>1, <1>2, <1>4, LedgersCarryOn DEF LedgerKept, Files
<1> QED BY <1>6, <1>7, <1>8 DEF Later, R

\* What is known of a branch stays known when main carries on.
LEMMA BranchStaysSound ==
  ASSUME FilesInv, FilesInv', NEW b \in BranchRecord, BranchInv(main, b), Later(main, main')
  PROVE  BranchInv(main', b)
<1>1. main \in Files /\ main' \in Files /\ b.fork \in Files
  BY DEF FilesInv, BranchRecord
<1>2. Later(b.fork, main')
  BY <1>1, FilesCarryOn DEF BranchInv
<1>3. main.manifest # Missing => main'.manifest = main.manifest
  BY DEF Later, PopulationKept
<1>4. Sound(main, b) => Sound(main', b)
  BY <1>3 DEF Sound, PopulationOf
<1> QED BY <1>2, <1>4 DEF BranchInv

\* A new branch, or one pushed to, has yet to pass; the others stay as they were.
LEMMA PushKeeps ==
  ASSUME FilesInv, MergedInv, BranchesInv, NEW p \in Branches, NEW fork \in Files, NEW f \in Files,
         Later(fork, main), Pushed(p, fork, f)
  PROVE  FilesInv' /\ MergedInv' /\ BranchesInv' /\ main' = main
<1> DEFINE new == [fork |-> fork, files |-> f, passed |-> FALSE]
<1>1. FilesInv' /\ main' = main
  BY PushKeepsFiles DEF Pushed
<1>2. MergedInv'
  BY <1>1 DEF MergedInv
<1>3. branches' = [branches EXCEPT ![p] = new]
  BY DEF Pushed
<1>4. BranchInv(main', new)
  BY <1>1 DEF BranchInv
<1>5. ASSUME NEW q \in Branches, branches'[q] # Missing PROVE BranchInv(main', branches'[q])
  <2>1. branches'[q] = new \/ branches'[q] = branches[q]
    BY <1>3 DEF FilesInv
  <2>2. BranchInv(main, branches[q]) => BranchInv(main', branches[q])
    BY <1>1 DEF BranchInv, Sound, PopulationOf
  <2> QED BY <1>4, <1>5, <2>1, <2>2 DEF BranchesInv
<1> QED BY <1>1, <1>2, <1>5 DEF BranchesInv

CaptureFacts == FilesInv /\ MergedInv /\ BranchesInv

\* Every step keeps all that, and carries main on.
LEMMA NextCaptureFacts ==
  CaptureFacts /\ [CaptureNext]_captureVars => CaptureFacts' /\ Later(main, main')
<1> SUFFICES ASSUME CaptureFacts, [CaptureNext]_captureVars
             PROVE  CaptureFacts' /\ Later(main, main')
  OBVIOUS
<1> USE DEF CaptureFacts
<1>m. main \in Files /\ Later(main, main)
  BY FilesCarryOn DEF FilesInv
<1>1. CASE TimePasses \/ UNCHANGED captureVars
  <2>1. UNCHANGED <<main, branches>> /\ time' \in 0 .. LastTime
    BY <1>1, CaptureAssumption DEF TimePasses, captureVars, FilesInv
  <2> QED BY <2>1, <1>m DEF FilesInv, MergedInv, BranchesInv, BranchInv, Sound, PopulationOf
<1>2. ASSUME NEW p \in Branches, OpenBranch(p) PROVE CaptureFacts' /\ Later(main, main')
  <2>1. Pushed(p, main, main)
    BY <1>2 DEF OpenBranch, Pushed
  <2> QED BY <2>1, <1>m, PushKeeps
<1>3. ASSUME NEW p \in Branches, branches[p] # Missing,
             WriteManifest(p) \/ AppendBundles(p) \/ RemoveManifest(p) \/ RemoveFromLedger(p)
      PROVE  CaptureFacts' /\ Later(main, main')
  <2>1. PICK f \in Files : Pushed(p, branches[p].fork, f)
    BY <1>3, EditKeepsFiles
  <2>2. branches[p].fork \in Files /\ Later(branches[p].fork, main)
    BY <1>3 DEF FilesInv, BranchRecord, BranchesInv, BranchInv
  <2> QED BY <2>1, <2>2, <1>m, PushKeeps
<1>4. ASSUME NEW p \in Branches, branches[p] # Missing, UpdateBranch(p)
      PROVE  CaptureFacts' /\ Later(main, main')
  <2>1. PICK f \in Files : Pushed(p, main, f)
    BY <1>4, UpdateKeepsFiles
  <2> QED BY <2>1, <1>m, PushKeeps
<1>5. ASSUME NEW p \in Branches, branches[p] # Missing, Check(p)
      PROVE  CaptureFacts' /\ Later(main, main')
  <2> DEFINE b == branches[p]
             new == [b EXCEPT !.passed = TRUE]
  <2>1. b \in BranchRecord /\ BranchInv(main, b)
    BY <1>5 DEF FilesInv, BranchesInv
  <2>2. Sound(main, b)
    <3> HIDE DEF b
    <3>1. Mergeable(b) /\ CheckoutOk(Merged(b)) /\ Later(main, Merged(b))
      BY <1>5 DEF Check, Later, b
    <3> QED BY <2>1, <3>1, CheckIsSound DEF BranchInv
  <2>3. /\ UNCHANGED <<time, main>>
        /\ branches' = [branches EXCEPT ![p] = new]
    BY <1>5 DEF Check, FilesInv
  <2>4. new \in BranchRecord /\ new.fork = b.fork /\ new.files = b.files
    BY <2>1 DEF BranchRecord
  <2>5. BranchInv(main', new)
    BY <2>1, <2>2, <2>3, <2>4 DEF BranchInv, Sound, PopulationOf
  <2> HIDE DEF new
  <2>6. FilesInv' /\ MergedInv'
    BY <2>3, <2>4 DEF FilesInv, MergedInv
  <2>7. ASSUME NEW q \in Branches, branches'[q] # Missing PROVE BranchInv(main', branches'[q])
    <3>1. branches'[q] = new \/ branches'[q] = branches[q]
      BY <2>3 DEF FilesInv
    <3>2. BranchInv(main, branches[q]) => BranchInv(main', branches[q])
      BY <2>3 DEF BranchInv, Sound, PopulationOf
    <3> QED BY <2>5, <2>7, <3>1, <3>2 DEF BranchesInv
  <2> QED BY <1>m, <2>3, <2>6, <2>7 DEF BranchesInv
<1>6. ASSUME NEW p \in Branches, branches[p] # Missing, Merge(p)
      PROVE  CaptureFacts' /\ Later(main, main')
  <2> DEFINE b == branches[p]
  <2>1. b \in BranchRecord /\ Later(b.fork, main) /\ Sound(main, b) /\ Mergeable(b)
    BY <1>6 DEF Merge, FilesInv, BranchesInv, BranchInv
  <2>2. main' = Merged(b) /\ time' = time /\ branches' = [branches EXCEPT ![p] = Missing]
    BY <1>6 DEF Merge
  <2> HIDE DEF b
  <2>3. main' \in Files /\ CheckoutOk(main') /\ Later(main, main')
    BY <2>1, <2>2, MergedFiles, MergeIsSound
  <2>4. FilesInv' /\ MergedInv'
    BY <2>2, <2>3 DEF FilesInv, MergedInv
  <2>5. ASSUME NEW q \in Branches, branches'[q] # Missing PROVE BranchInv(main', branches'[q])
    <3>1. branches'[q] = branches[q]
      BY <2>2, <2>5 DEF FilesInv
    <3>2. branches[q] \in BranchRecord /\ BranchInv(main, branches[q])
      BY <2>5, <3>1 DEF FilesInv, BranchesInv
    <3> QED BY <2>3, <2>4, <3>1, <3>2, BranchStaysSound
  <2> QED BY <2>3, <2>4, <2>5 DEF BranchesInv
<1> QED BY <1>1, <1>2, <1>3, <1>4, <1>5, <1>6 DEF CaptureNext

\* Whoever edits the branches and in whatever order they are merged: what is merged
\* was chosen, on the record, before it was read, and accounts for each event of its
\* population (verify, evidence/store.py).
THEOREM SelectionPrecedesReadingAlways == CaptureSpec => []SelectionPrecedesReading
<1>1. CaptureFacts => SelectionPrecedesReading
  <2> SUFFICES ASSUME FilesInv, CheckoutOk(main), Bundles(main.ledger) # {}
               PROVE  /\ main.manifest # Missing
                      /\ \A b \in Bundles(main.ledger) :
                           b.manifest = main.manifest.id /\ b.retrieved >= main.manifest.fixed
                      /\ {b.event : b \in Bundles(main.ledger)} = main.manifest.included
    BY DEF CaptureFacts, MergedInv, SelectionPrecedesReading
  <2> DEFINE B == Bundles(main.ledger)
             m == main.manifest
  <2>1. m # Missing /\ Verified(m, main.ledger)
    BY DEF CheckoutOk, Bundles
  <2>2. B \subseteq Bundle /\ m \in Manifest
    BY <2>1 DEF FilesInv, Files, Bundles, Range
  <2>3. Unattempted(m, B) = {} /\ Foreign(m, B) = {} /\ Premature(m, B) = {}
        /\ Misattributed(m, B) = {}
    BY <2>1 DEF Verified
  <2> HIDE DEF B, m
  <2>4. \A b \in B : b.manifest = m.id /\ b.event \in m.included /\ ~(b.retrieved < m.fixed)
    BY <2>3 DEF Foreign, Premature, Misattributed
  <2>5. \A b \in B : b.retrieved >= m.fixed
    BY <2>2, <2>4 DEF Bundle, Manifest
  <2>6. \A e \in m.included : \E b \in B : b.event = e
    BY <2>3 DEF Unattempted
  <2> QED
    BY <2>1, <2>4, <2>5, <2>6 DEF B, m
<1>2. CaptureInit => CaptureFacts
  BY InitFilesInv DEF CaptureFacts
<1>3. CaptureFacts /\ [CaptureNext]_captureVars => CaptureFacts'
  BY NextCaptureFacts
<1> QED
  BY <1>1, <1>2, <1>3, PTL DEF CaptureSpec

\* Whoever edits the branches, and though a branch is merged on a comparison with an
\* older main: no merge replaces or drops the population, or loses or changes a line
\* of the ledger (checks.yml, the comparison with the base commit, and git's merge).
THEOREM CaptureNeverRewrittenAlways == CaptureSpec => CaptureNeverRewritten
<1> DEFINE kept ==
      /\ main.manifest # Missing => main'.manifest = main.manifest
      /\ main.ledger # Missing => main'.ledger # Missing /\ IsPrefix(main.ledger, main'.ledger)
<1>1. CaptureFacts /\ [CaptureNext]_captureVars => [kept]_captureVars
  BY NextCaptureFacts DEF Later, PopulationKept, LedgerKept
<1>2. CaptureInit => CaptureFacts
  BY InitFilesInv DEF CaptureFacts
<1>3. CaptureFacts /\ [CaptureNext]_captureVars => CaptureFacts'
  BY NextCaptureFacts
<1> QED
  BY <1>1, <1>2, <1>3, PTL DEF CaptureSpec, CaptureNeverRewritten

-----------------------------------------------------------------------------
(***************************************************************************)
(* What every live observation keeps to, for any site, any resolver, any   *)
(* row and any limits.                                                     *)
(***************************************************************************)
Made(purpose) == {r \in requests : r.purpose = purpose}

PolicyRead == robots # NoFetch /\ (robots.allowed \/ robots.status \in {404, 410})

Connected == {"response", "body"}

Cleared(row) == Admitted(row) /\ Approved(row)

\* The running fetch stays where it may go, and the page's is run under the policy.
FetchStays ==
  fetch # NoFetch =>
    /\ Cleared(target) /\ target.url.form = "plain"
    /\ fetch.url.form = "plain" /\ fetch.url.origin = target.url.origin
    /\ fetch.stage # "resolve" => fetch.pinned \in PublicAddresses
    /\ fetch.purpose = "robots" => Made("page") = {}
    /\ fetch.purpose = "page" => PolicyRead

\* Each request is of a URL visited before the one that is next.
FetchCounts ==
  fetch # NoFetch =>
    /\ \A r \in Made(fetch.purpose) : r.url \in fetch.visited
    /\ fetch.stage = "request" => \A r \in Made(fetch.purpose) : r.url # fetch.url
    /\ fetch.stage \in Connected => Made(fetch.purpose) # {}
    /\ IF fetch.stage \in Connected
         THEN Cardinality(Made(fetch.purpose)) <= fetch.hops + 1
         ELSE Cardinality(Made(fetch.purpose)) <= fetch.hops

FiniteMade == \A purpose \in {"robots", "page"} : IsFiniteSet(Made(purpose))

NothingYet == fetch = NoFetch /\ outcome = NoFetch => requests = {}

FetchIInv ==
  /\ target \in Targets
  /\ FetchTypeOK
  /\ FetchStays
  /\ FetchCounts
  /\ FiniteMade
  /\ NothingYet
  /\ OnlyApprovedIsContacted
  /\ PageReadUnderPolicy
  /\ RequestsBounded
  /\ ObservedInTime

\* What the four places ask of a row together.
LEMMA ClearedIsSigned ==
  ASSUME NEW row \in Rows, Cleared(row)
  PROVE  /\ row.terms_review_completed /\ row.terms_review_referenced
         /\ {row.automation_approved_by, row.activation_approved_by} = {"authorizer"}
         /\ row.activated_at /\ row.window = "open"
BY DEF Rows, Cleared, Admitted, RowOk, TermsOk, ActivationOk, Operational, Approved, Authorizer,
   ActivationStates

\* What the first three ask of a row contains what the fourth asks.
LEMMA AdmittedIsApproved ==
  ASSUME NEW row \in Rows, Admitted(row)
  PROVE  Approved(row)
BY DEF Rows, Admitted, RowOk, TermsOk, ActivationOk, PlannedRow, Operational, Approved, Authorizer,
   ActivationStates

\* Nothing is requested, running or observed in the initial states.
LEMMA InitFetchIInv == FetchInit => FetchIInv
<1> SUFFICES ASSUME FetchInit PROVE FetchIInv
  OBVIOUS
<1>1. \A purpose : {r \in requests : r.purpose = purpose} = {}
  BY DEF FetchInit
<1>2. FiniteMade
  BY <1>1, FS_EmptySet DEF FiniteMade, Made
<1>4. RequestsBounded
  <2>1. Cardinality({}) <= MAX_REDIRECT_HOPS + 1
    BY FS_EmptySet, FetchAssumption
  <2> QED
    BY <1>1, <2>1 DEF RequestsBounded
<1>3. FetchTypeOK
  BY FetchAssumption DEF FetchInit, FetchTypeOK
<1> QED
  BY <1>2, <1>3, <1>4 DEF FetchInit, FetchIInv, FetchStays, FetchCounts, NothingYet,
     OnlyApprovedIsContacted, PageReadUnderPolicy, ObservedInTime

\* A fetch that ends without an observation leaves the requests as they are.
LEMMA EndingKeeps ==
  ASSUME FetchIInv, NEW problem \in Problems \cup Refusals, Ends(problem),
         target' = target, elapsed' = elapsed, requests' = requests,
         robots' = robots \/ (robots' \in RobotsAnswers /\ Made("page") = {})
  PROVE  FetchIInv'
<1>0. problem # "observed"
  BY DEF Problems, Refusals
<1>1. FetchTypeOK'
  BY <1>0, FetchAssumption DEF FetchIInv, FetchTypeOK, Ends, Ended, Fetches
<1>2. NothingYet' /\ ObservedInTime'
  <2>1. outcome' \in Ended /\ outcome'.result = problem
    BY <1>0, FetchAssumption DEF FetchIInv, FetchTypeOK, Ends, Ended, Fetches
  <2> QED
    BY <1>0, <2>1, FetchAssumption DEF NothingYet, ObservedInTime
<1>3. FetchStays' /\ FetchCounts'
  BY DEF FetchStays, FetchCounts, Ends
<1>4. PageReadUnderPolicy'
  BY DEF FetchIInv, PageReadUnderPolicy, Made
<1> QED
  BY <1>1, <1>2, <1>3, <1>4 DEF FetchIInv, FiniteMade, Made, OnlyApprovedIsContacted, RequestsBounded

\* A fetch that ends with a problem or a refusal keeps the invariant: an ending
\* of the observation contacts nothing (live.py, every raise under _observe_live).
LEMMA FailingKeeps ==
  ASSUME FetchIInv, NEW problem \in Problems \cup Refusals, Fails(problem)
  PROVE  FetchIInv'
BY EndingKeeps DEF Fails

\* A fetch begins with nothing visited and nothing requested for its purpose.
LEMMA BeginningKeeps ==
  ASSUME FetchIInv, Cleared(target), NEW purpose \in {"robots", "page"}, NEW u \in Places,
         u.form = "plain", u.origin = target.url.origin,
         target.url.form = "plain", robots' \in RobotsAnswers \cup {NoFetch},
         Begin(purpose, u), UNCHANGED <<target, requests, outcome>>,
         Made("page") = {}, Made(purpose) = {}, ObservedInTime',
         purpose = "page" => PolicyRead'
  PROVE  FetchIInv'
<1>1. fetch' = [purpose |-> purpose, url |-> u, visited |-> {}, hops |-> 0,
                pinned |-> NoFetch, bytes |-> 0, stage |-> "resolve"]
  BY DEF Begin
<1>2. fetch' \in Fetches
  BY <1>1, FetchAssumption DEF Fetches
<1>3. fetch' # NoFetch
  BY <1>2, FetchAssumption
<1>4. FetchTypeOK'
  BY <1>1, <1>2, FetchAssumption DEF FetchIInv, FetchTypeOK, Begin
<1>5. Made("page")' = {} /\ Made(purpose)' = {}
  BY DEF Made
<1>6. FetchStays'
  BY <1>1, <1>5 DEF FetchStays
<1>7. FetchCounts'
  BY <1>1, <1>5, FS_EmptySet DEF FetchCounts, Connected
<1>8. PageReadUnderPolicy'
  BY <1>5 DEF PageReadUnderPolicy, Made
<1> QED
  BY <1>3, <1>4, <1>6, <1>7, <1>8 DEF FetchIInv, NothingYet, FiniteMade, Made,
     OnlyApprovedIsContacted, RequestsBounded

\* A look-up without a problem has only public addresses; any other is a failure.
LEMMA LookupProblem ==
  ASSUME NEW answer \in Lookups
  PROVE  /\ DnsProblem(answer) \in Problems \cup {NoFetch}
         /\ DnsProblem(answer) = NoFetch => answer.addresses \subseteq PublicAddresses
<1>1. answer.came \in {"time", "late", "error"}
      /\ answer.addresses \subseteq PublicAddresses \cup PrivateAddresses
  BY DEF Lookups
<1>2. CASE answer.came = "late"
  BY <1>2, FetchAssumption DEF DnsProblem, Problems
<1>3. CASE answer.came = "error"
  BY <1>3, FetchAssumption DEF DnsProblem, Problems
<1>4. CASE answer.came = "time"
  BY <1>1, <1>4, FetchAssumption DEF DnsProblem, Problems
<1> QED
  BY <1>1, <1>2, <1>3, <1>4

\* What is wrong with a URL is a failure.
LEMMA UrlProblemFails ==
  ASSUME NEW u \in Urls
  PROVE  /\ UrlProblem(u) \in Problems \cup {NoFetch}
         /\ UrlProblem(u) = NoFetch => u.form = "plain"
<1>1. CASE u.form = "plain"
  BY <1>1 DEF UrlProblem
<1>2. CASE u.form = "malformed"
  BY <1>2, FetchAssumption DEF UrlProblem, Problems
<1>3. CASE u.form \in {"insecure", "forbidden"}
  BY <1>3, FetchAssumption DEF UrlProblem, Problems
<1> QED
  BY <1>1, <1>2, <1>3, UrlsAssumption

\* A row that is refused is the end of it.
LEMMA RefuseRowKeeps == FetchIInv /\ RefuseRow => FetchIInv'
BY FailingKeeps DEF RefuseRow, Refusals

\* The row is approved and well formed, or nothing is fetched.
LEMMA CheckRobotsKeeps == FetchIInv /\ CheckRobots => FetchIInv'
<1> SUFFICES ASSUME FetchIInv, CheckRobots PROVE FetchIInv'
  OBVIOUS
<1>1. target.url \in Urls
  BY FetchAssumption DEF FetchIInv, Rows
<1>2. CASE Fails("terms_not_approved")
  BY <1>2, FailingKeeps DEF Problems
<1>3. CASE UrlProblem(target.url) # NoFetch /\ Fails(UrlProblem(target.url))
  BY <1>1, <1>3, UrlProblemFails, FailingKeeps
<1>4. CASE /\ Approved(target) /\ UrlProblem(target.url) = NoFetch
           /\ Begin("robots", RobotsOf(target.url))
           /\ UNCHANGED <<target, robots, requests, outcome>>
  <2>1. requests = {}
    BY DEF CheckRobots, NothingBegun, FetchIInv, NothingYet
  <2>2. Made("page") = {} /\ Made("robots") = {}
    BY <2>1 DEF Made
  <2>3. RobotsOf(target.url) \in Places
    BY <1>1 DEF Places
  <2>4. ObservedInTime'
    BY <1>4 DEF CheckRobots, NothingBegun, ObservedInTime
  <2>5. target.url.form = "plain"
    BY <1>1, <1>4, UrlProblemFails
  <2>6. robots' \in RobotsAnswers \cup {NoFetch}
    BY <1>4 DEF FetchIInv, FetchTypeOK
  <2>7. Cleared(target)
    BY <1>4 DEF CheckRobots, Cleared
  <2> QED
    BY <1>4, <2>2, <2>3, <2>4, <2>5, <2>6, <2>7, BeginningKeeps DEF RobotsOf
<1> QED
  BY <1>2, <1>3, <1>4 DEF CheckRobots

\* A hop goes to a URL not visited, and keeps an address that is public.
LEMMA ResolveKeeps == FetchIInv /\ Resolve => FetchIInv'
<1> SUFFICES ASSUME FetchIInv, Resolve PROVE FetchIInv'
  OBVIOUS
<1>1. CASE Fails("unexpected_format") \/ Fails("timeout")
  BY <1>1, FailingKeeps DEF Problems
<1>2. CASE \E answer \in Lookups : DnsProblem(answer) # NoFetch /\ Fails(DnsProblem(answer))
  BY <1>2, LookupProblem, FailingKeeps
<1>3. ASSUME NEW answer \in Lookups, NEW a \in answer.addresses,
             DnsProblem(answer) = NoFetch, fetch.url \notin fetch.visited,
             fetch' = [fetch EXCEPT !.visited = @ \cup {fetch.url},
                                    !.pinned = a, !.stage = "request"],
             UNCHANGED <<target, elapsed, robots, requests, outcome>>
      PROVE  FetchIInv'
  <2>1. fetch \in Fetches /\ fetch # NoFetch /\ fetch.stage = "resolve"
    BY DEF FetchIInv, FetchTypeOK, Resolve, At
  <2>2. a \in PublicAddresses
    BY <1>3, LookupProblem
  <2>3. fetch' \in Fetches
    BY <1>3, <2>1, <2>2 DEF Fetches
  <2>4. fetch'.url = fetch.url /\ fetch'.purpose = fetch.purpose /\ fetch'.hops = fetch.hops
        /\ fetch'.visited = fetch.visited \cup {fetch.url} /\ fetch'.stage = "request"
        /\ fetch'.pinned = a
    BY <1>3, <2>1 DEF Fetches
  <2>5. FetchTypeOK' /\ fetch' # NoFetch
    BY <1>3, <2>3, <2>4, FetchAssumption DEF FetchIInv, FetchTypeOK
  <2>6. FetchStays'
    BY <1>3, <2>1, <2>2, <2>4 DEF FetchIInv, FetchStays, Made, PolicyRead
  <2>7. FetchCounts'
    BY <1>3, <2>1, <2>4 DEF FetchIInv, FetchCounts, Made, Connected
  <2> QED
    BY <1>3, <2>5, <2>6, <2>7 DEF FetchIInv, NothingYet, FiniteMade, Made,
       OnlyApprovedIsContacted, PageReadUnderPolicy, RequestsBounded, ObservedInTime
<1> QED
  BY <1>1, <1>2, <1>3 DEF Resolve

\* A request is the first of its URL, in time, and of the checked address.
LEMMA RequestKeeps == FetchIInv /\ Request => FetchIInv'
<1> SUFFICES ASSUME FetchIInv, Request PROVE FetchIInv'
  OBVIOUS
<1>1. CASE Fails("timeout")
  BY <1>1, FailingKeeps DEF Problems
<1>2. CASE TimeLeft /\ ~Fails("timeout")
  <2> DEFINE new == [purpose |-> fetch.purpose, url |-> fetch.url,
                     address |-> fetch.pinned, at |-> elapsed]
  <2>1. /\ requests' = requests \cup {new}
        /\ fetch' = [fetch EXCEPT !.stage = "response"]
        /\ UNCHANGED <<target, elapsed, robots, outcome>>
    BY <1>2 DEF Request, Endpoint
  <2>2. fetch \in Fetches /\ fetch # NoFetch /\ fetch.stage = "request"
    BY DEF FetchIInv, FetchTypeOK, Request, At
  <2>3. fetch' \in Fetches
    BY <2>1, <2>2 DEF Fetches
  <2>4. FetchTypeOK' /\ fetch' # NoFetch
    BY <2>1, <2>2, <2>3, FetchAssumption DEF FetchIInv, FetchTypeOK, Fetches
  <2>5. fetch'.url = fetch.url /\ fetch'.purpose = fetch.purpose /\ fetch'.hops = fetch.hops
        /\ fetch'.visited = fetch.visited /\ fetch'.stage = "response"
        /\ fetch'.pinned = fetch.pinned
    BY <2>1, <2>2 DEF Fetches
  <2> PICK p \in {"robots", "page"} : p = fetch.purpose
    BY <2>2 DEF Fetches
  <2>6. Made(p)' = Made(p) \cup {new} /\ \A q : q # p => Made(q)' = Made(q)
    BY <2>1 DEF Made
  <2>7. fetch.hops \in 0..MAX_REDIRECT_HOPS /\ fetch.url \in fetch.visited
    BY <2>2 DEF Fetches, FetchIInv, FetchTypeOK
  <2>8. /\ \A r \in Made(p) : r.url \in fetch.visited /\ r.url # fetch.url
        /\ Cardinality(Made(p)) <= fetch.hops
    BY <2>2 DEF FetchIInv, FetchCounts, Connected
  <2>9. IsFiniteSet(Made(p)) /\ Cardinality(Made(p)) \in Nat
    BY FS_CardinalityType DEF FetchIInv, FiniteMade
  <2>10. IsFiniteSet(Made(p)') /\ Cardinality(Made(p)') <= fetch.hops + 1
         /\ Cardinality(Made(p)') \in Nat
    <3>1. new \notin Made(p)
      BY <2>8
    <3>2. /\ IsFiniteSet(Made(p) \cup {new})
          /\ Cardinality(Made(p) \cup {new}) = Cardinality(Made(p)) + 1
      BY <2>9, <3>1, FS_AddElement
    <3> HIDE DEF new
    <3> QED
      BY <2>6, <2>7, <2>8, <2>9, <3>2
  <2>11. FiniteMade' /\ FetchStays'
    <3>1. FiniteMade'
      BY <2>6, <2>10 DEF FetchIInv, FiniteMade
    <3>2. p = "robots" => Made("page")' = {}
      BY <2>2, <2>6 DEF FetchIInv, FetchStays
    <3>3. p = "page" => PolicyRead'
      BY <2>1, <2>2 DEF FetchIInv, FetchStays, PolicyRead
    <3>4. /\ Cleared(target') /\ target'.url.form = "plain" /\ fetch'.pinned \in PublicAddresses
          /\ fetch'.url.form = "plain" /\ fetch'.url.origin = target'.url.origin
      BY <2>1, <2>2, <2>5 DEF FetchIInv, FetchStays
    <3> QED
      BY <2>5, <3>1, <3>2, <3>3, <3>4 DEF FetchStays, Made
  <2>12. FetchCounts'
    <3>1. new.url = fetch.url
      OBVIOUS
    <3>2. (\A r \in Made(p)' : r.url \in fetch.visited) /\ Made(p)' # {}
      <4> HIDE DEF new
      <4> QED
        BY <2>6, <2>7, <2>8, <3>1
    <3> QED
      BY <2>5, <2>10, <3>2 DEF FetchCounts, Connected, Made
  <2>13. RequestsBounded'
    <3> SUFFICES ASSUME NEW purpose \in {"robots", "page"}
                 PROVE  /\ Cardinality(Made(purpose)') <= MAX_REDIRECT_HOPS + 1
                        /\ \A q, r \in Made(purpose)' : q.url = r.url => q = r
                        /\ \A r \in Made(purpose)' : r.at < OVERALL_BUDGET
      BY DEF RequestsBounded, Made
    <3>1. /\ Cardinality(Made(purpose)) <= MAX_REDIRECT_HOPS + 1
          /\ \A q, r \in Made(purpose) : q.url = r.url => q = r
          /\ \A r \in Made(purpose) : r.at < OVERALL_BUDGET
      BY DEF FetchIInv, RequestsBounded, Made
    <3>2. CASE purpose # p
      BY <2>6, <3>1, <3>2
    <3>3. CASE purpose = p
      <4>1. Cardinality(Made(p)') <= MAX_REDIRECT_HOPS + 1
        BY <2>7, <2>10, FetchAssumption
      <4>2. new.url = fetch.url /\ new.at < OVERALL_BUDGET
        BY <1>2 DEF TimeLeft
      <4> HIDE DEF new
      <4>3. Made(p)' = Made(p) \cup {new}
        BY <2>6
      <4>4. /\ \A q, r \in Made(p)' : q.url = r.url => q = r
            /\ \A r \in Made(p)' : r.at < OVERALL_BUDGET
        BY <2>8, <3>1, <3>3, <4>2, <4>3
      <4> QED
        BY <3>3, <4>1, <4>4
    <3> QED
      BY <3>2, <3>3
  <2>14. OnlyApprovedIsContacted'
    <3>1. Cleared(target) /\ target \in Rows
      BY <2>2, FetchAssumption DEF FetchIInv, FetchStays
    <3> QED
      BY <2>1, <2>2, <3>1, ClearedIsSigned DEF FetchIInv, OnlyApprovedIsContacted, FetchStays
  <2>15. PageReadUnderPolicy'
    BY <2>1, <2>2 DEF FetchIInv, PageReadUnderPolicy, FetchStays, PolicyRead
  <2>16. ObservedInTime' /\ NothingYet'
    BY <2>1, <2>4 DEF FetchIInv, ObservedInTime, NothingYet
  <2> QED
    BY <2>1, <2>4, <2>11, <2>12, <2>13, <2>14, <2>15, <2>16 DEF FetchIInv
<1> QED
  BY <1>1, <1>2 DEF Request

\* The page's fetch begins once the policy allows it, or the site has none.
LEMMA PageBegins ==
  ASSUME FetchIInv, fetch # NoFetch, fetch.purpose = "robots",
         robots' \in RobotsAnswers, robots'.allowed \/ robots'.status \in {404, 410},
         Begin("page", target.url), UNCHANGED <<target, requests, outcome>>
  PROVE  FetchIInv'
<1>1. Made("page") = {} /\ Cleared(target) /\ target.url.form = "plain"
  BY DEF FetchIInv, FetchStays
<1>2. target.url \in Places
  BY FetchAssumption DEF FetchIInv, Places, Rows
<1>3. PolicyRead'
  BY FetchAssumption DEF PolicyRead
<1>4. ObservedInTime'
  BY <1>3 DEF FetchIInv, ObservedInTime, PolicyRead
<1> QED
  BY <1>1, <1>2, <1>3, <1>4, BeginningKeeps

\* An answer that is neither a page nor a redirect is a failure.
LEMMA StatusFails ==
  ASSUME NEW status \in Statuses, status # 200
  PROVE  StatusProblem(status) \in Problems
<1>1. status \in Nat
  BY FetchAssumption
<1>2. CASE status \in {401, 403}
  BY <1>2 DEF StatusProblem, Problems
<1>3. CASE status \in {408, 429}
  BY <1>3 DEF StatusProblem, Problems
<1>4. CASE status = 404 \/ status \in 500..599
  BY <1>1, <1>4 DEF StatusProblem, Problems
<1>5. CASE status \notin {401, 403, 408, 429, 404} /\ status \notin 500..599
  BY <1>1, <1>5 DEF StatusProblem, Problems
<1> QED
  BY <1>2, <1>3, <1>4, <1>5

\* A step of the running fetch that makes no request and ends nothing keeps what
\* is said of the requests made.
LEMMA AdvancingKeeps ==
  ASSUME FetchIInv, UNCHANGED <<target, elapsed, robots, requests, outcome>>,
         fetch' # NoFetch, FetchTypeOK', FetchStays', FetchCounts'
  PROVE  FetchIInv'
<1>1. target' \in Targets
  BY DEF FetchIInv
<1>2. FiniteMade'
  BY DEF FetchIInv, FiniteMade, Made
<1>3. NothingYet'
  BY DEF NothingYet
<1>4. OnlyApprovedIsContacted'
  BY DEF FetchIInv, OnlyApprovedIsContacted
<1>5. PageReadUnderPolicy'
  BY DEF FetchIInv, PageReadUnderPolicy
<1>6. RequestsBounded'
  BY DEF FetchIInv, RequestsBounded
<1>7. ObservedInTime'
  BY DEF FetchIInv, ObservedInTime
<1> QED
  BY <1>1, <1>2, <1>3, <1>4, <1>5, <1>6, <1>7 DEF FetchIInv

\* A redirect is followed to the same origin, one hop further.
LEMMA RespondKeeps == FetchIInv /\ Respond => FetchIInv'
<1> SUFFICES ASSUME FetchIInv, Respond PROVE FetchIInv'
  OBVIOUS
<1>1. fetch \in Fetches /\ fetch # NoFetch /\ fetch.stage = "response"
  BY DEF FetchIInv, FetchTypeOK, Respond, At
<1>2. CASE \E problem \in Problems : Fails(problem)
  BY <1>2, FailingKeeps
<1>3. ASSUME NEW location \in Urls, RequestUrlProblem(location) = NoFetch, HopsLeft(fetch),
             fetch' = [fetch EXCEPT !.url = location, !.hops = @ + 1, !.stage = "resolve"],
             UNCHANGED <<target, elapsed, robots, requests, outcome>>
      PROVE  FetchIInv'
  <2>1. location.form = "plain" /\ location.origin = target.url.origin
    BY <1>3, UrlProblemFails, FetchAssumption DEF RequestUrlProblem, Problems
  <2>2. fetch' \in Fetches
    <3>1. location \in Places
      BY DEF Places
    <3>2. fetch.hops + 1 \in 0..MAX_REDIRECT_HOPS
      BY <1>1, <1>3, FetchAssumption DEF Fetches, HopsLeft
    <3> QED
      BY <1>1, <1>3, <3>1, <3>2 DEF Fetches
  <2>3. fetch'.url = location /\ fetch'.hops = fetch.hops + 1 /\ fetch'.stage = "resolve"
        /\ fetch'.visited = fetch.visited /\ fetch'.purpose = fetch.purpose
    BY <1>1, <1>3 DEF Fetches
  <2>4. fetch' # NoFetch /\ FetchTypeOK'
    BY <1>3, <2>2, <2>3, FetchAssumption DEF FetchIInv, FetchTypeOK
  <2>5. FetchStays'
    BY <1>1, <1>3, <2>1, <2>3 DEF FetchIInv, FetchStays, Made, PolicyRead
  <2>6. FetchCounts'
    BY <1>1, <1>3, <2>3 DEF FetchIInv, FetchCounts, Made, Connected
  <2> QED
    BY <1>3, <2>4, <2>5, <2>6, AdvancingKeeps
<1>4. CASE ReadHeaders
  <2>1. CASE Fails("unexpected_format")
    BY <2>1, FailingKeeps DEF Problems
  <2>2. CASE /\ fetch' = [fetch EXCEPT !.stage = "body"]
             /\ UNCHANGED <<target, elapsed, robots, requests, outcome>>
    <3>1. fetch' \in Fetches
      BY <1>1, <2>2 DEF Fetches
    <3>2. fetch'.url = fetch.url /\ fetch'.hops = fetch.hops /\ fetch'.stage = "body"
          /\ fetch'.visited = fetch.visited /\ fetch'.purpose = fetch.purpose
          /\ fetch'.pinned = fetch.pinned
      BY <1>1, <2>2 DEF Fetches
    <3>3. fetch' # NoFetch /\ FetchTypeOK'
      BY <1>1, <2>2, <3>1, <3>2, FetchAssumption DEF FetchIInv, FetchTypeOK
    <3>4. FetchStays'
      BY <1>1, <2>2, <3>2 DEF FetchIInv, FetchStays, Made, PolicyRead
    <3>5. FetchCounts'
      BY <1>1, <2>2, <3>2 DEF FetchIInv, FetchCounts, Made, Connected
    <3> QED
      BY <2>2, <3>3, <3>4, <3>5, AdvancingKeeps
  <2> QED
    BY <1>4, <2>1, <2>2 DEF ReadHeaders
<1>5. ASSUME NEW status \in Statuses, fetch.purpose = "robots", RobotsAnswered(status)
      PROVE  FetchIInv'
  <2>1. Made("page") = {}
    BY <1>1, <1>5 DEF FetchIInv, FetchStays
  <2>2. robots' = [status |-> status, allowed |-> FALSE] /\ robots' \in RobotsAnswers
    BY <1>5 DEF RobotsAnswered, RobotsAnswers
  <2>3. CASE Ends("terms_not_approved") /\ UNCHANGED elapsed
    BY <1>5, <2>1, <2>2, <2>3, EndingKeeps DEF RobotsAnswered, Problems
  <2>4. CASE RobotsAbsent(status) /\ Begin("page", target.url) /\ UNCHANGED outcome
    BY <1>1, <1>5, <2>1, <2>2, <2>4, PageBegins DEF RobotsAnswered, RobotsAbsent
  <2> QED
    BY <1>5, <2>3, <2>4 DEF RobotsAnswered
<1>6. \A status \in Statuses \ {200} : StatusProblem(status) \in Problems
  BY StatusFails
<1>7. ASSUME NEW location \in Urls \cup {NoFetch}, Redirected(location)
      PROVE  FetchIInv'
  <2>1. CASE \/ Fails("unexpected_format")
             \/ Fails(RequestUrlProblem(location)) /\ RequestUrlProblem(location) # NoFetch
                /\ location # NoFetch
    BY <1>2, <1>7, <2>1, UrlProblemFails DEF RequestUrlProblem, Problems
  <2> QED
    BY <1>3, <1>7, <2>1 DEF Redirected
<1> QED
  BY <1>2, <1>4, <1>5, <1>6, <1>7 DEF Respond

\* More of the body within the limits.
LEMMA ReceiveKeeps == FetchIInv /\ Receive => FetchIInv'
<1> SUFFICES ASSUME FetchIInv, Receive PROVE FetchIInv'
  OBVIOUS
<1>1. CASE Fails("unexpected_format") \/ Fails("timeout")
  BY <1>1, FailingKeeps DEF Problems
<1>2. CASE /\ Fits(fetch.bytes + 1)
           /\ fetch' = [fetch EXCEPT !.bytes = @ + 1]
           /\ UNCHANGED <<target, elapsed, robots, requests, outcome>>
  <2>1. fetch \in Fetches /\ fetch # NoFetch /\ fetch.stage = "body"
    BY DEF FetchIInv, FetchTypeOK, Receive, At
  <2>2. fetch.bytes + 1 \in 0..MAX_RESPONSE_BYTES
    BY <1>2, <2>1, FetchAssumption DEF Fetches, Fits
  <2>3. fetch' \in Fetches
    BY <1>2, <2>1, <2>2 DEF Fetches
  <2>4. fetch'.url = fetch.url /\ fetch'.hops = fetch.hops /\ fetch'.stage = "body"
        /\ fetch'.visited = fetch.visited /\ fetch'.purpose = fetch.purpose
        /\ fetch'.pinned = fetch.pinned
    BY <1>2, <2>1 DEF Fetches
  <2>5. fetch' # NoFetch /\ FetchTypeOK'
    BY <1>2, <2>1, <2>3, <2>4, FetchAssumption DEF FetchIInv, FetchTypeOK
  <2>6. FetchStays'
    BY <1>2, <2>1, <2>4 DEF FetchIInv, FetchStays, Made, PolicyRead
  <2>7. FetchCounts'
    BY <1>2, <2>1, <2>4 DEF FetchIInv, FetchCounts, Made, Connected
  <2> QED
    BY <1>2, <2>5, <2>6, <2>7 DEF FetchIInv, NothingYet, FiniteMade, Made,
       OnlyApprovedIsContacted, PageReadUnderPolicy, RequestsBounded, ObservedInTime
<1> QED
  BY <1>1, <1>2 DEF Receive

\* An observation ends a page's fetch: requested, under the policy, in time, not empty.
LEMMA ObservingKeeps ==
  ASSUME FetchIInv, At("body"), TimeLeft, fetch.bytes > 0, fetch.purpose = "page",
         Fails("observed")
  PROVE  FetchIInv'
<1>1. fetch \in Fetches /\ fetch # NoFetch /\ fetch.stage = "body"
  BY DEF FetchIInv, FetchTypeOK, At
<1>2. PolicyRead /\ Made("page") # {}
  BY <1>1 DEF FetchIInv, FetchStays, FetchCounts, Connected
<1>3. /\ outcome' = [result |-> "observed", bytes |-> fetch.bytes, took |-> elapsed,
                      begun |-> TRUE]
      /\ fetch' = NoFetch /\ UNCHANGED <<target, elapsed, robots, requests>>
  BY <1>1 DEF Fails, Ends
<1>4. fetch.bytes \in 1..MAX_RESPONSE_BYTES
  BY <1>1, FetchAssumption DEF Fetches
<1>5. FetchTypeOK'
  BY <1>3, <1>4, FetchAssumption DEF FetchIInv, FetchTypeOK, Ended
<1>6. ObservedInTime'
  BY <1>2, <1>3, <1>4 DEF ObservedInTime, TimeLeft, PolicyRead, Made
<1>7. NothingYet'
  <2>1. outcome' \in Ended
    BY <1>3, <1>4, FetchAssumption DEF FetchIInv, FetchTypeOK, Ended
  <2> QED
    BY <2>1, FetchAssumption DEF NothingYet
<1> QED
  BY <1>3, <1>5, <1>6, <1>7 DEF FetchIInv, FetchStays, FetchCounts, FiniteMade, Made,
     OnlyApprovedIsContacted, PageReadUnderPolicy, RequestsBounded

\* At the end of the body the policy is read, or the page is observed, or neither.
LEMMA EndOfBodyKeeps == FetchIInv /\ EndOfBody => FetchIInv'
<1> SUFFICES ASSUME FetchIInv, EndOfBody PROVE FetchIInv'
  OBVIOUS
<1>1. CASE \E problem \in {"timeout", "parse_error", "timestamp_parse_error"} : Fails(problem)
  BY <1>1, FailingKeeps DEF Problems
<1>2. CASE TimeLeft /\ fetch.bytes > 0 /\ fetch.purpose = "page" /\ Fails("observed")
  BY <1>2, ObservingKeeps DEF EndOfBody
<1>3. ASSUME fetch.purpose = "robots", NEW allowed \in BOOLEAN,
             robots' = [status |-> 200, allowed |-> allowed], UNCHANGED <<target, requests>>,
             \/ allowed /\ Begin("page", target.url) /\ UNCHANGED outcome
             \/ ~allowed /\ Ends("terms_not_approved") /\ UNCHANGED elapsed
      PROVE  FetchIInv'
  <2>1. robots' \in RobotsAnswers
    BY <1>3 DEF RobotsAnswers
  <2>2. fetch # NoFetch
    BY DEF EndOfBody, At
  <2>3. Made("page") = {}
    BY <1>3, <2>2 DEF FetchIInv, FetchStays
  <2>4. CASE allowed
    BY <1>3, <2>1, <2>2, <2>4, PageBegins
  <2>5. CASE ~allowed
    BY <1>3, <2>1, <2>3, <2>5, EndingKeeps DEF Problems
  <2> QED
    BY <2>4, <2>5
<1> QED
  BY <1>1, <1>2, <1>3 DEF EndOfBody, RobotsRead

\* Time passing changes nothing that was done in time.
LEMMA TimeKeeps ==
  ASSUME FetchIInv, UNCHANGED <<target, fetch, robots, requests, outcome>>,
         elapsed' \in 0..OVERALL_BUDGET
  PROVE  FetchIInv'
BY DEF FetchIInv, FetchTypeOK, FetchStays, FetchCounts, FiniteMade, NothingYet, Made, PolicyRead,
   Connected, OnlyApprovedIsContacted, PageReadUnderPolicy, RequestsBounded, ObservedInTime

\* Every step of an observation keeps the invariant.
LEMMA NextFetchIInv == FetchIInv /\ [FetchNext]_fetchVars => FetchIInv'
<1> SUFFICES ASSUME FetchIInv, [FetchNext]_fetchVars PROVE FetchIInv'
  OBVIOUS
<1>1. CASE TransportFails
  BY <1>1, FailingKeeps DEF TransportFails, Problems
<1>2. CASE TimeGoesOn
  <2>1. elapsed' \in 0..OVERALL_BUDGET
    BY <1>2, FetchAssumption DEF FetchIInv, FetchTypeOK, TimeGoesOn
  <2> QED
    BY <1>2, <2>1, TimeKeeps DEF TimeGoesOn
<1>3. CASE UNCHANGED fetchVars
  BY <1>3, TimeKeeps DEF fetchVars, FetchIInv, FetchTypeOK
<1> QED
  BY <1>1, <1>2, <1>3, RefuseRowKeeps, CheckRobotsKeeps, ResolveKeeps, RequestKeeps, RespondKeeps,
     ReceiveKeeps, EndOfBodyKeeps DEF FetchNext

\* The invariant holds throughout.
LEMMA FetchInvariant == FetchSpec => []FetchIInv
BY InitFetchIInv, NextFetchIInv, PTL DEF FetchSpec

\* Whatever a site answers and a resolver says, an observation connects only to
\* public addresses, for well-formed URLs of the origin of a row that is reviewed,
\* referenced and signed (live.py:257-370, 599-612, network.py:77-242,
\* validator.py:1816-1883).
THEOREM OnlyApprovedAlways == FetchSpec => []OnlyApprovedIsContacted
<1>1. FetchIInv => OnlyApprovedIsContacted
  BY DEF FetchIInv
<1> QED
  BY <1>1, FetchInvariant, PTL

\* The page is requested only under a policy that was read and allows it, or
\* that the site has said it does not have (live.py:214-242, 371-391).
THEOREM PolicyAlways == FetchSpec => []PageReadUnderPolicy
<1>1. FetchIInv => PageReadUnderPolicy
  BY DEF FetchIInv
<1> QED
  BY <1>1, FetchInvariant, PTL

\* For any limits, each fetch makes at most one request more than it may follow
\* redirects, none twice and none late: a request is of a URL not yet visited,
\* and there are no more of them than hops (live.py:257-351).
THEOREM BoundedAlways == FetchSpec => []RequestsBounded
<1>1. FetchIInv => RequestsBounded
  BY DEF FetchIInv
<1> QED
  BY <1>1, FetchInvariant, PTL

\* What counts as observed was requested under the policy and read whole, not
\* empty and in time (live.py:481-596).
THEOREM ObservedInTimeAlways == FetchSpec => []ObservedInTime
<1>1. FetchIInv => ObservedInTime
  BY DEF FetchIInv
<1> QED
  BY <1>1, FetchInvariant, PTL

\* An outcome of a step that has no fetch running is a refusal of the row, or of
\* its URL.
LEMMA NextAdmitted ==
  FetchIInv /\ AdmittedRowIsObservable /\ [FetchNext]_fetchVars => AdmittedRowIsObservable'
<1> SUFFICES ASSUME FetchIInv, AdmittedRowIsObservable, [FetchNext]_fetchVars
             PROVE  AdmittedRowIsObservable'
  OBVIOUS
<1>1. target' = target /\ target \in Targets
  BY DEF FetchIInv, FetchNext, fetchVars, RefuseRow, CheckRobots, Resolve, Request, TransportFails,
     Respond, Redirected, ReadHeaders, RobotsAnswered, Receive, EndOfBody, RobotsRead, TimeGoesOn, Fails
<1>2. CASE RefuseRow
  BY <1>1, <1>2 DEF RefuseRow, Admitted, AdmittedRowIsObservable
<1>3. CASE CheckRobots
  <2>1. Approved(target)
    BY <1>1, <1>3, AdmittedIsApproved, FetchAssumption DEF CheckRobots
  <2>2. CASE target.url.form = "plain"
    BY <1>3, <2>1, <2>2 DEF CheckRobots, NothingBegun, UrlProblem, AdmittedRowIsObservable
  <2>3. CASE target.url.form # "plain"
    BY <1>1, <2>3 DEF AdmittedRowIsObservable
  <2> QED
    BY <2>2, <2>3
<1>4. CASE outcome' = outcome
  BY <1>1, <1>4 DEF AdmittedRowIsObservable
<1>5. CASE fetch # NoFetch /\ \E result : Ends(result)
  <2>1. PICK result : Ends(result)
    BY <1>5
  <2>2. outcome' = [result |-> result, bytes |-> fetch.bytes, took |-> elapsed, begun |-> TRUE]
    BY <1>5, <2>1 DEF Ends
  <2> QED
    BY <2>2 DEF AdmittedRowIsObservable
<1>6. fetch # NoFetch \/ RefuseRow \/ CheckRobots \/ outcome' = outcome
  BY DEF FetchNext, fetchVars, Resolve, Request, TransportFails, Respond, Receive, EndOfBody,
     TimeGoesOn, At
<1>7. ASSUME fetch # NoFetch, ~RefuseRow, ~CheckRobots
      PROVE  outcome' = outcome \/ \E result : Ends(result)
  <2>1. CASE Resolve \/ Request \/ TransportFails \/ Receive \/ TimeGoesOn
    BY <2>1 DEF Resolve, Request, TransportFails, Receive, TimeGoesOn, Fails
  <2>2. CASE Respond
    BY <2>2 DEF Respond, Redirected, ReadHeaders, RobotsAnswered, Fails
  <2>3. CASE EndOfBody
    BY <2>3 DEF EndOfBody, RobotsRead, Fails
  <2> QED
    BY <1>7, <2>1, <2>2, <2>3 DEF FetchNext, fetchVars
<1> QED
  BY <1>2, <1>3, <1>4, <1>5, <1>6, <1>7

\* For every row: what the registry, the planner and the run let pass is not
\* refused by the live adapter for want of an approval (validator.py:1816-1883,
\* registry.py:57-64, operations.py:278-292, live.py:599-612).
THEOREM AdmittedAlways == FetchSpec => []AdmittedRowIsObservable
<1>1. FetchInit => AdmittedRowIsObservable
  BY DEF FetchInit, AdmittedRowIsObservable
<1> QED
  BY <1>1, NextAdmitted, FetchInvariant, PTL DEF FetchSpec

-----------------------------------------------------------------------------
(***************************************************************************)
(* TestedOnUnseen for any rows, thresholds and days.  A row a report has   *)
(* counted by the time of the freeze is dated no later than that day; what *)
(* is reserved when a test is allowed is dated later.  The second needs    *)
(* the cutoff to be a date at all, which is the first lemma.               *)
(***************************************************************************)
SeenByThen ==
  /\ definition = Absent => tested = {}
  /\ definition # Absent => definition.frozen_at \in Int
  /\ definition # Absent =>
       \A i \in definition.seen \cap Dated : dates[i] <= definition.frozen_at

HIInv == HoldoutTypeOK /\ SeenByThen /\ TestedOnUnseen

\* Among the dates of the rows there is one at the cut index.
LEMMA CutoffIsDate ==
  ASSUME HoldoutTypeOK, Dated # {}
  PROVE  Cutoff \in Int
<1> DEFINE reached == {d \in Nat : CutIndex < Cardinality(Before(d + 1))}
<1> USE HoldoutAssumption
<1>1. /\ IsFiniteSet(Dated)
      /\ \A i \in Dated : dates[i] \in Nat /\ dates[i] <= report_day
  <2>1. Dated \in SUBSET RowIds
    BY DEF Dated, Filed
  <2>2. IsFiniteSet(Dated)
    BY <2>1, FS_Subset
  <2> QED BY <2>2 DEF HoldoutTypeOK, Dated, Filed
<1>2. Cardinality(Dated) \in Nat \ {0}
  BY <1>1, FS_CardinalityType, FS_EmptySet
<1>3. CutIndex \in Nat /\ CutIndex < Cardinality(Dated)
  BY <1>2 DEF CutIndex
<1>4. Before(report_day + 1) = Dated
  BY <1>1 DEF Before, HoldoutTypeOK
<1>5. reached # {}
  BY <1>3, <1>4 DEF HoldoutTypeOK
<1>6. PICK d \in reached : \A e \in reached : ~(<<e, d>> \in OpToRel(<, Nat))
  <2>1. reached \subseteq Nat
    OBVIOUS
  <2> HIDE DEF reached
  <2> QED BY <1>5, <2>1, NatLessThanWellFounded, WFMin, Zenon
<1>7. Cardinality(Before(d)) <= CutIndex
  <2>1. CASE d = 0
    <3>1. Before(d) = {}
      BY <1>1, <2>1 DEF Before
    <3> QED BY <3>1, <1>3, FS_EmptySet
  <2>2. CASE d # 0
    <3>1. d - 1 \in Nat /\ d - 1 < d /\ (d - 1) + 1 = d
      BY <2>2
    <3>2. d - 1 \notin reached
      BY <1>6, <3>1 DEF OpToRel
    <3>3. Before(d) \in SUBSET Dated
      BY DEF Before
    <3>4. Cardinality(Before(d)) \in Nat
      BY <1>1, <3>3, FS_Subset, FS_CardinalityType
    <3>5. ~(CutIndex < Cardinality(Before(d)))
      BY <3>1, <3>2
    <3> QED BY <1>3, <3>4, <3>5
  <2> QED BY <2>1, <2>2
<1>8. d \in {dates[i] : i \in Dated}
  <2>1. Before(d) # Before(d + 1)
    <3>1. Before(d) \in SUBSET Dated /\ Before(d + 1) \in SUBSET Dated
      BY DEF Before
    <3>2. Cardinality(Before(d)) \in Nat /\ Cardinality(Before(d + 1)) \in Nat
      BY <1>1, <3>1, FS_Subset, FS_CardinalityType
    <3> QED BY <1>3, <1>7, <3>2
  <2>2. \A i \in Dated : dates[i] < d <=> (dates[i] < d + 1 /\ dates[i] # d)
    BY <1>1
  <2> QED BY <2>1, <2>2 DEF Before
<1>9. Cutoff \in {dates[i] : i \in Dated}
  BY <1>7, <1>8 DEF Cutoff
<1> QED BY <1>1, <1>9

\* A test allowed reserves only rows dated after the freeze.
LEMMA ReservedIsLater ==
  ASSUME HIInv, definition # Absent, Splits, FrozenBeforeCutoff
  PROVE  Reserved \cap definition.seen = {}
<1>1. Reserved = Dated \ Before(Cutoff)
  BY DEF Reserved
<1>2. Dated # {}
  BY DEF Splits, Before
<1>3. Cutoff \in Int
  BY <1>2, CutoffIsDate DEF HIInv
<1>4. \A i \in Dated : dates[i] \in Int
  BY HoldoutAssumption DEF HIInv, HoldoutTypeOK, Dated, Filed
<1> SUFFICES ASSUME NEW i \in Reserved \cap definition.seen
             PROVE  FALSE
  OBVIOUS
<1>5. dates[i] <= definition.frozen_at /\ definition.frozen_at \in Int
  BY <1>1 DEF HIInv, SeenByThen
<1>6. definition.frozen_at < Cutoff
  BY DEF FrozenBeforeCutoff
<1> QED BY <1>1, <1>3, <1>4, <1>5, <1>6 DEF Before

\* The empty record satisfies the invariant of the reserve.
LEMMA HInit == HoldoutInit => HIInv
BY HoldoutAssumption DEF HoldoutInit, HIInv, HoldoutTypeOK, SeenByThen, TestedOnUnseen, Filed, Dated

\* Filing a row, freezing a definition, reporting and testing on the reserve
\* keep that invariant (holdout.py and the callers of its reports).
LEMMA HNext == HIInv /\ [HoldoutNext]_holdoutVars => HIInv'
<1> SUFFICES ASSUME HIInv, [HoldoutNext]_holdoutVars PROVE HIInv'
  OBVIOUS
<1> USE HoldoutAssumption DEF HIInv
<1>1. CASE FileRow
  <2>1. PICK i \in RowIds \ Filed, d \in (0..report_day) \cup {Undated} :
          dates' = [dates EXCEPT ![i] = d]
    BY <1>1 DEF FileRow
  <2>2. /\ Filed' = Filed \cup {i}
        /\ Dated \subseteq Dated' /\ Dated' \subseteq Dated \cup {i}
        /\ \A j \in RowIds \ {i} : dates'[j] = dates[j]
    BY <2>1 DEF HoldoutTypeOK, Filed, Dated
  <2>3. HoldoutTypeOK'
    BY <1>1, <2>1, <2>2 DEF FileRow, HoldoutTypeOK
  <2>4. definition # Absent => i \notin definition.seen
    BY DEF HoldoutTypeOK
  <2>5. SeenByThen' /\ TestedOnUnseen'
    BY <1>1, <2>2, <2>4 DEF FileRow, SeenByThen, TestedOnUnseen, Dated, Filed
  <2> QED BY <2>3, <2>5
<1>2. CASE ReportDayEnds
  BY <1>2 DEF ReportDayEnds, HoldoutTypeOK, SeenByThen, TestedOnUnseen, Dated, Filed
<1>3. CASE PublishReport \/ PublishKnowledge
  <2>1. PICK rows \in SUBSET Filed : Reporting(rows)
    BY <1>3 DEF PublishReport, PublishKnowledge, Exploration
  <2> QED BY <2>1 DEF Reporting, HoldoutTypeOK, SeenByThen, TestedOnUnseen, Dated, Filed
<1>4. CASE FreezeDefinition
  <2>1. definition' = [frozen_at |-> report_day, seen |-> explored]
        /\ UNCHANGED <<report_day, dates, explored, tested>>
    BY <1>4 DEF FreezeDefinition
  <2>2. tested = {}
    BY <1>4 DEF FreezeDefinition, SeenByThen
  <2> QED BY <2>1, <2>2 DEF HoldoutTypeOK, SeenByThen, TestedOnUnseen, Dated, Filed
<1>5. CASE EvaluateReserved
  <2>1. Reserved \cap definition.seen = {}
    BY <1>5, ReservedIsLater DEF EvaluateReserved
  <2>2. Reserved \subseteq Dated
    BY DEF Reserved
  <2> QED BY <1>5, <2>1, <2>2
          DEF EvaluateReserved, HoldoutTypeOK, SeenByThen, TestedOnUnseen, Dated, Filed
<1>6. CASE UNCHANGED holdoutVars
  BY <1>6 DEF holdoutVars, HoldoutTypeOK, SeenByThen, TestedOnUnseen, Dated, Filed
<1> QED BY <1>1, <1>2, <1>3, <1>4, <1>5, <1>6 DEF HoldoutNext

\* However rows are filed and the cutoff moves, no definition is tested on a row
\* that had been shown before it was frozen (holdout.py:145-175).
THEOREM TestedOnUnseenAlways == HoldoutSpec => []TestedOnUnseen
<1>1. HIInv => TestedOnUnseen
  BY DEF HIInv
<1> QED BY <1>1, HInit, HNext, PTL DEF HoldoutSpec

-----------------------------------------------------------------------------
(***************************************************************************)
(* How disclosures are captured and read.  A green sweep has captured what *)
(* it does not count as expired, whatever is disclosed, with whatever      *)
(* window and budget; a named document is asked for at the approved        *)
(* publishers alone.                                                       *)
(***************************************************************************)
\* The document needs no further download.
Captured(d) == (\E f \in store : f.document = d) \/ ~Addressed(d) \/ Day(d) \in legacy

\* A file is named after the document it holds.
StoreInv == \A f \in store : f.document \in Documents /\ f.key = StorageKey(f.document)

CalendarInv ==
  /\ today # NoSweep => today \in Nat /\ \A d \in published : d.day <= today
  /\ published \subseteq Documents

\* A document due in the running sweep is captured, still to come, counted as
\* expired, or on the sweep's conscience.
Accounted(d) ==
  \/ Captured(d)
  \/ d \in sweep.queue
  \/ d \in sweep.expired
  \/ d \in sweep.left
  \/ sweep.failed
  \/ today - d.day >= sweep.back

SweepRecord ==
  [back : Nat, queue : SUBSET Documents, budget : Int, failed : BOOLEAN,
   expired : SUBSET Documents, left : SUBSET Documents, due : SUBSET Documents]

SweepInv ==
  sweep # NoSweep =>
    /\ today # NoSweep
    /\ sweep \in SweepRecord
    /\ \A d \in sweep.queue : Addressed(d)
    /\ \A d \in sweep.due :
         /\ d \in published /\ Wanted(d)
         /\ today - d.day < WindowDays
         /\ Accounted(d)

AnsweredInv == answered \subseteq Documents /\ \A d \in answered : Captured(d)

SweepIInv == StoreInv /\ CalendarInv /\ SweepInv /\ AnsweredInv

USE DocumentsAssumption, SweepBounds

\* Two documents never share a name, so a name that is taken holds the document.
LEMMA HeldIsCaptured ==
  ASSUME StoreInv, NEW d \in Documents, Held(d)
  PROVE  Captured(d)
BY DEF StoreInv, Held, Captured, StorageKey, Addressed

\* At first nothing is disclosed, stored or swept.
LEMMA InitSweepIInv == SweepInit => SweepIInv
BY DEF SweepInit, SweepIInv, StoreInv, CalendarInv, SweepInv, AnsweredInv

\* No step loses a captured document.
LEMMA CapturedStays ==
  ASSUME [SweepNext]_sweepVars, NEW d, Captured(d)
  PROVE  Captured(d)'
BY DEF SweepNext, sweepVars, Captured, Day, NextDay, Publish, StartSweep, ReadIndex, Skip,
       LeaveBehind, Download, EndSweep, Crash

\* Going on to the next document keeps the account, when this one is captured,
\* left behind, counted as expired or failed.
LEMMA AccountGoesOn ==
  ASSUME SweepInv, sweep # NoSweep, UNCHANGED <<today, published>>,
         \A c : Captured(c) => Captured(c)',
         NEW d \in sweep.queue, sweep' \in SweepRecord,
         sweep'.queue = sweep.queue \ {d}, sweep'.back = sweep.back, sweep'.due = sweep.due,
         sweep.left \subseteq sweep'.left, sweep.expired \subseteq sweep'.expired,
         sweep.failed => sweep'.failed,
         Captured(d)' \/ d \in sweep'.expired \/ d \in sweep'.left \/ sweep'.failed
  PROVE  SweepInv'
<1>1. ASSUME NEW c \in sweep.due PROVE Accounted(c)'
  <2>1. Accounted(c)
    BY DEF SweepInv
  <2> QED
    BY <2>1 DEF Accounted
<1> QED
  BY <1>1 DEF SweepInv

\* Each step keeps the account of the running sweep.
LEMMA NextSweepIInv == SweepIInv /\ [SweepNext]_sweepVars => SweepIInv'
<1> SUFFICES ASSUME SweepIInv, [SweepNext]_sweepVars PROVE SweepIInv'
  OBVIOUS
<1> USE DEF SweepIInv
<1>k. \A d : Captured(d) => Captured(d)'
  BY CapturedStays
<1>1. CASE NextDay
  BY <1>1, <1>k DEF NextDay, StoreInv, CalendarInv, SweepInv, AnsweredInv, Accounted
<1>2. ASSUME NEW d \in Documents, Publish(d) PROVE SweepIInv'
  <2>1. StoreInv' /\ CalendarInv' /\ AnsweredInv'
    BY <1>2, <1>k DEF Publish, StoreInv, CalendarInv, AnsweredInv
  <2>2. SweepInv'
    BY <1>2, <1>k DEF Publish, SweepInv, Accounted
  <2> QED
    BY <2>1, <2>2
<1>3. CASE StartSweep
  <2>1. StoreInv' /\ CalendarInv' /\ AnsweredInv'
    BY <1>3, <1>k DEF StartSweep, StoreInv, CalendarInv, AnsweredInv
  <2>2. today \in Nat /\ today' = today /\ published' = published /\ published \subseteq Documents
    BY <1>3 DEF StartSweep, CalendarInv
  <2>3. /\ sweep' \in SweepRecord
        /\ sweep'.back = 0
        /\ \A d \in sweep'.due : d \in published /\ Wanted(d) /\ today - d.day < WindowDays
    BY <1>3, <2>2 DEF StartSweep, SweepRecord
  <2>4. ASSUME NEW d \in sweep'.due PROVE Accounted(d)'
    <3>1. d.day \in Nat /\ d.day <= today
      BY <1>3, <2>2, <2>3 DEF StartSweep, CalendarInv
    <3> QED
      BY <2>2, <2>3, <3>1 DEF Accounted
  <2>5. SweepInv'
    BY <2>2, <2>3, <2>4, <1>3 DEF SweepInv, StartSweep
  <2> QED
    BY <2>1, <2>5
<1>4. CASE ReadIndex
  <2>1. StoreInv' /\ CalendarInv' /\ AnsweredInv'
    BY <1>4, <1>k DEF ReadIndex, StoreInv, CalendarInv, AnsweredInv
  <2>2. today \in Nat /\ today' = today /\ published' = published
    BY <1>4 DEF ReadIndex, CalendarInv, SweepInv
  <2>3. /\ sweep' \in SweepRecord
        /\ sweep'.back = sweep.back + 1 /\ sweep'.due = sweep.due /\ sweep'.left = sweep.left
        /\ sweep'.expired = sweep.expired
        /\ sweep.failed => sweep'.failed
        /\ sweep'.queue = Listed(today - sweep.back) \/ sweep'.failed
        /\ \A d \in sweep'.queue : Addressed(d)
    <3> DEFINE listed == Listed(today - sweep.back)
    <3>1. listed \subseteq Documents /\ \A d \in listed : Addressed(d)
      BY DEF CalendarInv, Listed
    <3>2. \/ sweep' = [sweep EXCEPT !.back = @ + 1, !.queue = listed]
          \/ sweep' = [sweep EXCEPT !.back = @ + 1, !.failed = TRUE]
      BY <1>4 DEF ReadIndex
    <3> HIDE DEF listed
    <3>3. sweep \in SweepRecord /\ sweep.back + 1 \in Nat
      BY <1>4 DEF ReadIndex, SweepInv, SweepRecord
    <3>4. CASE sweep' = [sweep EXCEPT !.back = @ + 1, !.queue = listed]
      <4>1. sweep'.queue = listed /\ sweep'.back = sweep.back + 1 /\ sweep'.failed = sweep.failed
            /\ sweep'.due = sweep.due /\ sweep'.left = sweep.left /\ sweep'.expired = sweep.expired
        BY <3>3, <3>4 DEF SweepRecord
      <4> QED
        <5>1. sweep' \in SweepRecord
          BY <3>1, <3>3, <3>4 DEF SweepRecord
        <5> QED
          BY <3>1, <4>1, <5>1 DEF listed
    <3>5. CASE sweep' = [sweep EXCEPT !.back = @ + 1, !.failed = TRUE]
      <4>1. sweep' \in SweepRecord
        BY <3>3, <3>5 DEF SweepRecord
      <4>2. sweep'.queue = sweep.queue /\ \A d \in sweep.queue : Addressed(d)
        BY <1>4, <3>3, <3>5 DEF ReadIndex, SweepInv, SweepRecord
      <4> QED
        BY <3>3, <3>5, <4>1, <4>2 DEF SweepRecord
    <3> QED
      BY <3>2, <3>4, <3>5
  <2>4. ASSUME NEW d \in sweep.due PROVE Accounted(d)'
    <3>1. d \in published /\ d.day \in Nat /\ Wanted(d) /\ Accounted(d)
      BY <1>4 DEF ReadIndex, SweepInv, CalendarInv
    <3>a. CASE ~Addressed(d)
      BY <3>a DEF Accounted, Captured
    <3>2. sweep.queue = {} /\ sweep.back \in Nat
      BY <1>4 DEF ReadIndex, SweepInv, SweepRecord
    <3>3. CASE today - d.day >= sweep.back /\ Addressed(d)
      BY <2>2, <2>3, <3>1, <3>2, <3>3 DEF Accounted, Listed
    <3> QED
      BY <1>k, <2>3, <3>a, <3>1, <3>2, <3>3 DEF Accounted
  <2>5. SweepInv'
    BY <1>4, <2>2, <2>3, <2>4 DEF ReadIndex, SweepInv
  <2> QED
    BY <2>1, <2>5
<1>5. ASSUME NEW d \in sweep.queue, sweep # NoSweep, Skip(d) PROVE SweepIInv'
  <2>1. d \in Documents /\ Captured(d) /\ sweep \in SweepRecord
    BY <1>5, HeldIsCaptured DEF SweepInv, SweepRecord, Skip
  <2>2. sweep' = [sweep EXCEPT !.queue = @ \ {d}]
    BY <1>5 DEF Skip
  <2>3. /\ sweep' \in SweepRecord /\ sweep'.queue = sweep.queue \ {d} /\ sweep'.left = sweep.left
        /\ sweep'.back = sweep.back /\ sweep'.due = sweep.due /\ sweep'.failed = sweep.failed
        /\ sweep'.expired = sweep.expired
    BY <2>1, <2>2 DEF SweepRecord
  <2>4. SweepInv'
    BY <1>5, <1>k, <2>1, <2>3, AccountGoesOn DEF Skip
  <2> QED
    BY <1>5, <1>k, <2>4 DEF Skip, StoreInv, CalendarInv, AnsweredInv
<1>6. ASSUME NEW d \in sweep.queue, sweep # NoSweep, LeaveBehind(d) PROVE SweepIInv'
  <2>1. d \in Documents /\ sweep \in SweepRecord
    BY <1>6 DEF SweepInv, SweepRecord
  <2>2. sweep' = [sweep EXCEPT !.queue = @ \ {d}, !.left = @ \cup {d}]
    BY <1>6 DEF LeaveBehind
  <2>3. /\ sweep' \in SweepRecord /\ sweep'.queue = sweep.queue \ {d}
        /\ sweep'.left = sweep.left \cup {d}
        /\ sweep'.back = sweep.back /\ sweep'.due = sweep.due /\ sweep'.failed = sweep.failed
        /\ sweep'.expired = sweep.expired
    BY <2>1, <2>2 DEF SweepRecord
  <2>4. SweepInv'
    BY <1>6, <1>k, <2>3, AccountGoesOn DEF LeaveBehind
  <2> QED
    BY <1>6, <1>k, <2>4 DEF LeaveBehind, StoreInv, CalendarInv, AnsweredInv
<1>7. ASSUME NEW d \in sweep.queue, sweep # NoSweep, Download(d) PROVE SweepIInv'
  <2>1. d \in Documents /\ sweep \in SweepRecord /\ sweep.budget - 1 \in Int
    BY <1>7 DEF SweepInv, SweepRecord
  <2> DEFINE next == [sweep EXCEPT !.queue = @ \ {d}, !.budget = @ - 1]
  <2>2. /\ next \in SweepRecord /\ next.queue = sweep.queue \ {d} /\ next.left = sweep.left
        /\ next.back = sweep.back /\ next.due = sweep.due /\ next.failed = sweep.failed
        /\ next.expired = sweep.expired
    BY <2>1 DEF SweepRecord
  <2>3. /\ UNCHANGED <<today, published, legacy, answered>>
        /\ \/ /\ store' = store \cup {[key |-> StorageKey(d), document |-> d]}
              /\ sweep' = next
           \/ sweep' = [next EXCEPT !.expired = @ \cup {d}] /\ store' = store
           \/ sweep' = [next EXCEPT !.failed = TRUE] /\ store' = store
    BY <1>7 DEF Download
  <2> HIDE DEF next
  <2>4. /\ sweep' \in SweepRecord /\ sweep'.queue = next.queue /\ sweep'.left = next.left
        /\ sweep'.back = next.back /\ sweep'.due = next.due
        /\ next.failed => sweep'.failed
        /\ next.expired \subseteq sweep'.expired
    <3>1. CASE sweep' = next
      BY <2>2, <3>1
    <3>2. CASE sweep' = [next EXCEPT !.expired = @ \cup {d}]
      BY <2>1, <2>2, <3>2 DEF SweepRecord
    <3>3. CASE sweep' = [next EXCEPT !.failed = TRUE]
      BY <2>1, <2>2, <3>3 DEF SweepRecord
    <3> QED
      BY <2>3, <3>1, <3>2, <3>3
  <2>5. Captured(d)' \/ d \in sweep'.expired \/ sweep'.failed
    <3>1. CASE store' = store \cup {[key |-> StorageKey(d), document |-> d]}
      <4>1. PICK f \in store' : f = [key |-> StorageKey(d), document |-> d]
        BY <3>1
      <4>2. f.document = d
        BY <4>1
      <4> QED
        BY <4>2 DEF Captured
    <3>2. CASE sweep' = [next EXCEPT !.expired = @ \cup {d}]
      BY <2>2, <3>2 DEF SweepRecord
    <3>3. CASE sweep' = [next EXCEPT !.failed = TRUE]
      BY <2>2, <3>3 DEF SweepRecord
    <3> QED
      BY <2>3, <3>1, <3>2, <3>3
  <2>6. StoreInv'
    BY <2>1, <2>3 DEF StoreInv, StorageKey
  <2>7. SweepInv'
    BY <1>7, <1>k, <2>2, <2>3, <2>4, <2>5, AccountGoesOn
  <2> QED
    BY <1>k, <2>3, <2>6, <2>7 DEF CalendarInv, AnsweredInv
<1>8. CASE EndSweep
  <2>1. ASSUME NEW d \in sweep.due \ sweep.expired, ExitCode(sweep) = 0
        PROVE  d \in Documents /\ Captured(d)
    <3>1. Accounted(d) /\ d \in Documents /\ d.day \in Nat /\ today - d.day < WindowDays
      BY <1>8 DEF EndSweep, SweepInv, SweepRecord
    <3>2. ~sweep.failed /\ sweep.left = {} /\ sweep.queue = {} /\ sweep.back = WindowDays
      BY <1>8, <2>1 DEF EndSweep, ExitCode
    <3>3. today \in Nat
      BY <1>8 DEF EndSweep, SweepInv, CalendarInv
    <3> QED
      BY <3>1, <3>2, <3>3 DEF Accounted
  <2>2. \A d \in answered' : d \in Documents /\ Captured(d)
    BY <1>8, <2>1 DEF EndSweep, AnsweredInv
  <2> QED
    BY <1>8, <1>k, <2>2 DEF EndSweep, StoreInv, CalendarInv, SweepInv, AnsweredInv
<1>9. CASE Crash
  BY <1>9, <1>k DEF Crash, StoreInv, CalendarInv, SweepInv, AnsweredInv
<1>10. CASE UNCHANGED sweepVars
  BY <1>10, <1>k DEF sweepVars, StoreInv, CalendarInv, SweepInv, AnsweredInv, Accounted
<1> QED
  BY <1>1, <1>2, <1>3, <1>4, <1>5, <1>6, <1>7, <1>8, <1>9, <1>10 DEF SweepNext

\* Whatever is disclosed and however sweeps fail: a document that was due in a
\* sweep that ended green is in the store, unless that sweep counted it as expired,
\* the index gave no address for it or a file of the earlier version covers it
\* (main's exit code, capture_disclosures.py:161-164, 199-201).
THEOREM GreenMeansCapturedOrExpiredAlways == SweepSpec => []GreenMeansCapturedOrExpired
<1>1. SweepIInv => GreenMeansCapturedOrExpired
  BY DEF SweepIInv, AnsweredInv, Captured, GreenMeansCapturedOrExpired
<1> QED
  BY InitSweepIInv, NextSweepIInv, <1>1, PTL DEF SweepSpec

-----------------------------------------------------------------------------
(***************************************************************************)
(* The analysis of a handoff.                                              *)
(***************************************************************************)

\* A named document is the only candidate, and only of a publisher.
NamedCandidates ==
  \/ candidates \in {NoDocument, <<>>}
  \/ candidates = <<handoff.document>> /\ handoff.document.authorized

Requests ==
  [url : Links, guarded : BOOLEAN, answer : {"refusal", "failure", "page", "document", "redirect"}]

\* While it is retrieved, every request so far was redirected; afterwards nothing
\* is left to be retrieved.
NamedInv ==
  /\ NamedCandidates
  /\ asked \in Seq(Requests)
  /\ attempt # NoDocument =>
       /\ attempt \in Attempts /\ attempt.guarded /\ attempt.url.authorized
       /\ attempt.hops = Len(asked) /\ candidates # NoDocument
       /\ candidates = <<handoff.document>> /\ handoff.document.authorized
       /\ \A i \in DOMAIN asked : asked[i].answer = "redirect"
  /\ attempt = NoDocument /\ asked # <<>> => Dispatched \/ candidates \in {NoDocument, <<>>}

IndexInv == candidates \in {NoDocument, <<>>} /\ attempt = NoDocument

DocumentIInv ==
  /\ handoff \in Handoffs \cup {NoDocument}
  /\ handoff = NoDocument => candidates = NoDocument /\ attempt = NoDocument
  /\ handoff # NoDocument /\ Named => NamedInv
  /\ handoff # NoDocument /\ ~Named /\ handoff.index => IndexInv
  /\ DocumentsStayWithPublishers

\* At first nothing has been asked.
LEMMA InitDocumentIInv == DocumentInit => DocumentIInv
<1> SUFFICES ASSUME DocumentInit PROVE DocumentIInv
  OBVIOUS
<1>1. /\ handoff \in Handoffs /\ handoff # NoDocument
      /\ candidates = NoDocument /\ attempt = NoDocument /\ asked = <<>>
  BY DocumentAssumption DEF DocumentInit
<1>2. NamedInv /\ IndexInv
  <2>1. asked \in Seq(Requests) /\ DOMAIN asked = {}
    BY <1>1
  <2>2. NamedCandidates
    BY <1>1 DEF NamedCandidates
  <2> QED BY <1>1, <2>1, <2>2 DEF NamedInv, IndexInv
<1>3. DocumentsStayWithPublishers
  BY <1>1, DocumentAssumption DEF DocumentsStayWithPublishers
<1> QED
  BY <1>1, <1>2, <1>3 DEF DocumentIInv

\* A request leads to the document, to a failure or to a next hop at a publisher.
LEMMA AskKeeps == DocumentIInv /\ Ask => DocumentIInv'
<1> SUFFICES ASSUME DocumentIInv, Ask PROVE DocumentIInv'
  OBVIOUS
<1> USE DocumentAssumption
<1>1. handoff # NoDocument /\ handoff \in Handoffs /\ handoff' = handoff
  BY DEF DocumentIInv, Ask
<1>2. ~(~Named /\ handoff.index)
  BY <1>1 DEF DocumentIInv, IndexInv, Ask
<1>3. CASE ~Named
  BY <1>1, <1>2, <1>3 DEF DocumentIInv, DocumentsStayWithPublishers, Named
<1>4. CASE Named
  <2>1. /\ NamedInv
        /\ attempt \in Attempts /\ attempt.guarded /\ attempt.url.authorized
        /\ attempt.url \in Links
        /\ attempt.hops = Len(asked) /\ Len(asked) <= MAX_DOCUMENT_HOPS
        /\ candidates # NoDocument
        /\ candidates = <<handoff.document>> /\ handoff.document.authorized
        /\ \A i \in DOMAIN asked : asked[i].answer = "redirect"
        /\ \A i \in DOMAIN asked : asked[i].guarded /\ asked[i].url.authorized
    <3>1. NamedInv /\ attempt # NoDocument
      BY <1>1, <1>4 DEF DocumentIInv, Ask
    <3>2. /\ attempt \in Attempts /\ attempt.guarded /\ attempt.url.authorized
          /\ attempt.hops = Len(asked) /\ candidates # NoDocument
          /\ candidates = <<handoff.document>> /\ handoff.document.authorized
          /\ \A i \in DOMAIN asked : asked[i].answer = "redirect"
      BY <3>1 DEF NamedInv
    <3>3. attempt.url \in Links /\ attempt.hops <= MAX_DOCUMENT_HOPS
      BY <3>2 DEF Attempts
    <3>4. \A i \in DOMAIN asked : asked[i].guarded /\ asked[i].url.authorized
      BY <1>1, <1>4 DEF DocumentIInv, DocumentsStayWithPublishers
    <3> QED BY <3>1, <3>2, <3>3, <3>4
  <2>2. PICK answer \in {"refusal", "failure", "document", "redirect"} :
          /\ asked' = Append(asked, [url |-> attempt.url, guarded |-> attempt.guarded, answer |-> answer])
          /\ \/ answer \in {"refusal", "failure"} /\ Fail /\ UNCHANGED <<candidates, analyses>>
             \/ answer = "document" /\ Written
             \/ /\ answer = "redirect" /\ attempt.guarded
                /\ UNCHANGED <<candidates, analyses>>
                /\ \E location \in Links \cup {NoDocument} :
                     IF RedirectAllowed(location) /\ HopsLeftFor(attempt)
                       THEN /\ attempt' = [attempt EXCEPT !.url = location, !.hops = @ + 1]
                            /\ UNCHANGED dispatch
                       ELSE Fail
    BY DEF Ask
  <2> DEFINE request == [url |-> attempt.url, guarded |-> attempt.guarded, answer |-> answer]
  <2>3. /\ asked' \in Seq(Requests)
        /\ Len(asked') = Len(asked) + 1
        /\ \A i \in DOMAIN asked' : asked'[i].guarded /\ asked'[i].url.authorized
        /\ \A i \in DOMAIN asked' : i < Len(asked') => asked'[i].answer = "redirect"
        /\ answer = "redirect" => \A i \in DOMAIN asked' : asked'[i].answer = "redirect"
    <3>1. request \in Requests
      BY <2>1, <2>2 DEF Requests, Attempts
    <3>2. /\ request.guarded /\ request.url.authorized
          /\ request.answer = answer
      BY <2>1
    <3>3. asked \in Seq(Requests) /\ asked' = Append(asked, request)
      BY <2>1, <2>2 DEF NamedInv
    <3> HIDE DEF request
    <3>4. /\ asked' \in Seq(Requests) /\ Len(asked') = Len(asked) + 1
          /\ Len(asked) \in Nat /\ DOMAIN asked = 1..Len(asked)
          /\ DOMAIN asked' = 1..(Len(asked) + 1)
          /\ \A i \in 1..Len(asked) : asked'[i] = asked[i]
          /\ asked'[Len(asked) + 1] = request
      BY <3>1, <3>3
    <3>5. \A i \in DOMAIN asked' : asked'[i].guarded /\ asked'[i].url.authorized
      BY <2>1, <3>2, <3>4
    <3>6. \A i \in DOMAIN asked' : i < Len(asked') => asked'[i].answer = "redirect"
      BY <2>1, <3>4
    <3>7. answer = "redirect" => \A i \in DOMAIN asked' : asked'[i].answer = "redirect"
      BY <2>1, <3>2, <3>4
    <3> QED BY <3>4, <3>5, <3>6, <3>7
  <2>4. DocumentsStayWithPublishers'
    BY <1>1, <1>4, <2>1, <2>3 DEF DocumentsStayWithPublishers, Named
  <2>5. NamedInv'
    <3>1. CASE Fail /\ UNCHANGED candidates
      <4>1. attempt' = NoDocument /\ Dispatched'
        BY <3>1 DEF Fail, Dispatched, Dispatches
      <4>2. NamedCandidates'
        BY <1>1, <2>1, <3>1 DEF NamedCandidates
      <4> QED BY <2>3, <4>1, <4>2 DEF NamedInv
    <3>2. CASE Written
      <4>1. candidates' = <<>> /\ attempt' = NoDocument
        BY <2>1, <3>2 DEF Written
      <4>2. NamedCandidates'
        BY <4>1 DEF NamedCandidates
      <4> QED BY <2>3, <4>1, <4>2 DEF NamedInv
    <3>3. CASE /\ answer = "redirect" /\ UNCHANGED candidates
               /\ \E location \in Links \cup {NoDocument} :
                    /\ RedirectAllowed(location) /\ HopsLeftFor(attempt)
                    /\ attempt' = [attempt EXCEPT !.url = location, !.hops = @ + 1]
      <4>1. PICK location \in Links \cup {NoDocument} :
              /\ RedirectAllowed(location) /\ HopsLeftFor(attempt)
              /\ attempt' = [attempt EXCEPT !.url = location, !.hops = @ + 1]
        BY <3>3
      <4>2. location \in Links /\ location.authorized
        BY <4>1 DEF RedirectAllowed
      <4>3. /\ attempt' \in Attempts /\ attempt'.guarded /\ attempt'.url = location
            /\ attempt'.hops = Len(asked')
        <5>1. attempt.hops \in Nat /\ attempt.hops + 1 \in 0..MAX_DOCUMENT_HOPS
          BY <2>1, <4>1 DEF HopsLeftFor, Attempts
        <5>2. /\ attempt' = [guarded |-> attempt.guarded, url |-> location, hops |-> attempt.hops + 1]
              /\ attempt.guarded \in BOOLEAN
          BY <2>1, <4>1 DEF Attempts
        <5> QED BY <2>1, <2>3, <4>2, <5>1, <5>2 DEF Attempts
      <4>4. /\ candidates' = <<handoff'.document>> /\ handoff'.document.authorized
            /\ candidates' # NoDocument
        BY <1>1, <2>1, <3>3
      <4>5. attempt' # NoDocument
        BY <4>3
      <4> QED BY <2>3, <3>3, <4>2, <4>3, <4>4, <4>5 DEF NamedInv, NamedCandidates
    <3> QED BY <2>2, <3>1, <3>2, <3>3
  <2> QED BY <1>1, <1>4, <2>4, <2>5 DEF DocumentIInv, Named
<1> QED BY <1>3, <1>4

\* Every step of the analysis of a handoff keeps the invariant of the documents.
LEMMA NextDocumentIInv == DocumentIInv /\ [DocumentNext]_documentVars => DocumentIInv'
<1> SUFFICES ASSUME DocumentIInv, [DocumentNext]_documentVars PROVE DocumentIInv'
  OBVIOUS
<1> USE DocumentAssumption
<1>1. CASE ReadHandoff
  <2>1. /\ handoff # NoDocument /\ handoff \in Handoffs /\ handoff' = handoff
        /\ asked = <<>> /\ asked' = <<>> /\ candidates = NoDocument
    BY <1>1 DEF ReadHandoff, DocumentIInv
  <2>2. <<>> \in Seq(Requests) /\ DOMAIN <<>> = {} /\ Len(<<>>) = 0
    OBVIOUS
  <2>3. DocumentsStayWithPublishers'
    BY <2>1, <2>2 DEF DocumentsStayWithPublishers, Named
  <2>4. CASE Named
    <3>1. handoff.titled \in BOOLEAN
      BY <2>1
    <3>2. attempt = NoDocument
      BY <2>1, <2>4 DEF DocumentIInv, NamedInv
    <3>3. attempt' = NoDocument
      BY <1>1, <2>4, <3>2 DEF ReadHandoff, Fail
    <3>4. NamedCandidates'
      BY <1>1, <2>1, <2>4, <3>1 DEF ReadHandoff, NamedCandidates
    <3>5. NamedInv'
      BY <2>1, <2>2, <3>3, <3>4 DEF NamedInv
    <3> QED BY <2>1, <2>3, <2>4, <3>5 DEF DocumentIInv, Named
  <2>5. CASE ~Named
    <3>1. handoff.index => IndexInv'
      BY <1>1, <2>1, <2>5 DEF ReadHandoff, DocumentIInv, IndexInv
    <3> QED BY <2>1, <2>3, <2>5, <3>1 DEF DocumentIInv, Named
  <2> QED BY <2>4, <2>5
<1>2. CASE Discover
  <2>1. /\ handoff # NoDocument /\ handoff \in Handoffs /\ handoff' = handoff
        /\ ~Named /\ ~handoff.index
    BY <1>2 DEF Discover, DocumentIInv
  <2> QED BY <2>1 DEF DocumentIInv, DocumentsStayWithPublishers, Named
<1>3. CASE Exclude
  <2>1. /\ UNCHANGED <<handoff, attempt, asked, dispatch>>
        /\ attempt = NoDocument /\ candidates \notin {NoDocument, <<>>}
        /\ candidates' = Tail(candidates)
    BY <1>3 DEF Exclude, Reading
  <2>2. handoff # NoDocument /\ handoff \in Handoffs
    BY <2>1 DEF DocumentIInv
  <2>3. DocumentsStayWithPublishers'
    BY <2>1 DEF DocumentIInv, DocumentsStayWithPublishers, Named
  <2>4. CASE Named
    <3>1. candidates = <<handoff.document>> /\ asked \in Seq(Requests)
      BY <2>1, <2>2, <2>4 DEF DocumentIInv, NamedInv, NamedCandidates
    <3>2. candidates' = <<>>
      BY <2>1, <3>1
    <3>3. NamedInv'
      BY <2>1, <3>1, <3>2 DEF NamedInv, NamedCandidates
    <3> QED BY <2>1, <2>2, <2>3, <2>4, <3>3 DEF DocumentIInv, Named
  <2>5. CASE ~Named
    <3>1. ~handoff.index
      BY <2>1, <2>2, <2>5 DEF DocumentIInv, IndexInv
    <3> QED BY <2>1, <2>2, <2>3, <2>5, <3>1 DEF DocumentIInv, Named
  <2> QED BY <2>4, <2>5
<1>4. CASE Retrieve
  <2>1. /\ UNCHANGED <<handoff, candidates, asked>> /\ attempt = NoDocument /\ ~Dispatched
        /\ candidates \notin {NoDocument, <<>>}
        /\ \/ Fail
           \/ attempt' = [guarded |-> Named, url |-> Head(candidates), hops |-> 0]
    BY <1>4 DEF Retrieve, Reading
  <2>2. handoff # NoDocument /\ handoff \in Handoffs
    BY <2>1 DEF DocumentIInv
  <2>3. DocumentsStayWithPublishers'
    BY <2>1 DEF DocumentIInv, DocumentsStayWithPublishers, Named
  <2>4. CASE Named
    <3>1. /\ candidates = <<handoff.document>> /\ handoff.document.authorized
          /\ asked = <<>> /\ asked \in Seq(Requests)
      BY <2>1, <2>2, <2>4 DEF DocumentIInv, NamedInv, NamedCandidates
    <3>2. handoff.document \in Links /\ Head(candidates) = handoff.document
      BY <2>2, <2>4, <3>1 DEF Named
    <3>3. asked' = <<>> /\ DOMAIN asked' = {} /\ Len(asked') = 0 /\ asked' \in Seq(Requests)
      BY <2>1, <3>1
    <3>4. NamedCandidates'
      BY <2>1, <3>1 DEF NamedCandidates
    <3>5. ASSUME Fail PROVE NamedInv'
      BY <3>3, <3>4, <3>5 DEF NamedInv, Fail
    <3>6. ASSUME attempt' = [guarded |-> Named, url |-> Head(candidates), hops |-> 0]
          PROVE  NamedInv'
      <4>1. attempt' = [guarded |-> TRUE, url |-> handoff.document, hops |-> 0]
        BY <2>4, <3>2, <3>6
      <4>2. attempt' \in Attempts
        BY <3>2, <4>1 DEF Attempts
      <4>3. attempt'.guarded /\ attempt'.url.authorized /\ attempt'.hops = 0
        BY <3>1, <4>1
      <4>4. /\ candidates' = <<handoff'.document>> /\ handoff'.document.authorized
            /\ candidates' # NoDocument
        BY <2>1, <3>1
      <4> QED BY <3>3, <3>4, <4>2, <4>3, <4>4 DEF NamedInv
    <3>7. NamedInv'
      BY <2>1, <3>5, <3>6
    <3> QED BY <2>1, <2>2, <2>3, <2>4, <3>7 DEF DocumentIInv, Named
  <2>5. CASE ~Named
    <3>1. ~handoff.index
      BY <2>1, <2>2, <2>5 DEF DocumentIInv, IndexInv
    <3> QED BY <2>1, <2>2, <2>3, <2>5, <3>1 DEF DocumentIInv, Named
  <2> QED BY <2>4, <2>5
<1>5. CASE Ask
  BY <1>5, AskKeeps
<1>6. CASE Dispatch
  <2>1. /\ UNCHANGED <<handoff, candidates, attempt, asked>>
        /\ candidates = <<>>
    BY <1>6 DEF Dispatch
  <2> QED BY <2>1 DEF DocumentIInv, NamedInv, NamedCandidates, IndexInv,
                      DocumentsStayWithPublishers, Named, Dispatched
<1>7. CASE UNCHANGED documentVars
  BY <1>7 DEF documentVars, DocumentIInv, NamedInv, NamedCandidates, IndexInv,
              DocumentsStayWithPublishers, Named, Dispatched
<1> QED BY <1>1, <1>2, <1>3, <1>4, <1>5, <1>6, <1>7 DEF DocumentNext

\* Whatever publishers answer and pages link: a named document is asked for only at
\* the approved publishers, at most as often as hops are allowed, and never after a
\* refusal; an index is asked for nothing (acquisition.py:1-13).
THEOREM DocumentsStayAlways == DocumentSpec => []DocumentsStayWithPublishers
<1>1. DocumentIInv => DocumentsStayWithPublishers
  BY DEF DocumentIInv
<1> QED BY <1>1, InitDocumentIInv, NextDocumentIInv, PTL DEF DocumentSpec

-----------------------------------------------------------------------------
(***************************************************************************)
(* All six side by side: in a behaviour of RecordsSpec one part runs and   *)
(* the others stand still, so each keeps its own invariant.                *)
(***************************************************************************)
\* The sweep's types and what they rest on: only wanted documents are queued.
SweepTypes ==
  /\ SweepTypeOK
  /\ sweep # NoSweep => \A d \in sweep.queue : Wanted(d)

\* A sweep and one that is never run begin with these types.
LEMMA InitSweepTypes == SweepInit \/ SweepIdle => SweepIInv /\ SweepTypes
BY DEF SweepInit, SweepIdle, SweepIInv, StoreInv, CalendarInv, SweepInv, AnsweredInv,
       SweepTypes, SweepTypeOK

\* A step of a sweep spends at most what is left and stores only what it has queued.
LEMMA NextSweepTypes ==
  SweepIInv /\ SweepTypes /\ [SweepNext]_sweepVars => SweepTypes'
<1> SUFFICES ASSUME SweepIInv, SweepTypes, [SweepNext]_sweepVars PROVE SweepTypes'
  OBVIOUS
<1> USE DEF SweepTypes, SweepTypeOK
<1>r. sweep # NoSweep => sweep \in SweepRecord
  BY DEF SweepIInv, SweepInv
<1>1. CASE NextDay
  BY <1>1 DEF NextDay
<1>2. ASSUME NEW d \in Documents, Publish(d) PROVE SweepTypes'
  BY <1>2 DEF Publish
<1>3. CASE StartSweep
  <2>1. sweep'.back = 0 /\ sweep'.queue = {} /\ sweep'.budget = Budget
    BY <1>3 DEF StartSweep
  <2> QED
    BY <1>3, <2>1 DEF StartSweep
<1>4. CASE ReadIndex
  <2> DEFINE listed == Listed(today - sweep.back)
  <2>1. listed \subseteq published /\ \A d \in listed : Wanted(d)
    BY DEF Listed
  <2>2. \/ sweep' = [sweep EXCEPT !.back = @ + 1, !.queue = listed]
        \/ sweep' = [sweep EXCEPT !.back = @ + 1, !.failed = TRUE]
    BY <1>4 DEF ReadIndex
  <2> HIDE DEF listed
  <2>3. /\ sweep'.back = sweep.back + 1 /\ sweep'.budget = sweep.budget
        /\ sweep'.queue \in {listed, sweep.queue}
    BY <1>4, <1>r, <2>2 DEF ReadIndex, SweepRecord
  <2>4. sweep.back \in Nat /\ sweep.back < WindowDays /\ sweep # NoSweep
    BY <1>4, <1>r DEF ReadIndex, SweepRecord
  <2> QED
    BY <1>4, <2>1, <2>3, <2>4 DEF ReadIndex
<1>5. ASSUME NEW d \in sweep.queue, sweep # NoSweep, Skip(d) \/ LeaveBehind(d) PROVE SweepTypes'
  <2>1. /\ sweep'.back = sweep.back /\ sweep'.budget = sweep.budget
        /\ sweep'.queue = sweep.queue \ {d}
    BY <1>5, <1>r DEF Skip, LeaveBehind, SweepRecord
  <2> QED
    BY <1>5, <2>1 DEF Skip, LeaveBehind
<1>6. ASSUME NEW d \in sweep.queue, sweep # NoSweep, Download(d) PROVE SweepTypes'
  <2> DEFINE next == [sweep EXCEPT !.queue = @ \ {d}, !.budget = @ - 1]
  <2>1. next.back = sweep.back /\ next.budget = sweep.budget - 1 /\ next.queue = sweep.queue \ {d}
    BY <1>6, <1>r DEF SweepRecord
  <2>2. sweep' \in {next, [next EXCEPT !.expired = @ \cup {d}], [next EXCEPT !.failed = TRUE]}
    BY <1>6 DEF Download
  <2>3. sweep'.back = next.back /\ sweep'.budget = next.budget /\ sweep'.queue = next.queue
    BY <1>6, <1>r, <2>2 DEF SweepRecord
  <2>4. sweep.budget \in 1 .. Budget
    BY <1>6 DEF Download, BudgetLeft
  <2>5. \A f \in store' : f.document \in published /\ Wanted(f.document)
    <3>1. store' = store \cup {[key |-> StorageKey(d), document |-> d]} \/ store' = store
      BY <1>6 DEF Download
    <3> QED
      BY <1>6, <3>1
  <2>6. UNCHANGED <<today, published>>
    BY <1>6 DEF Download
  <2> QED
    BY <1>6, <2>1, <2>3, <2>4, <2>5, <2>6
<1>7. CASE EndSweep \/ Crash
  BY <1>7 DEF EndSweep, Crash
<1>8. CASE UNCHANGED sweepVars
  BY <1>8 DEF sweepVars
<1> QED
  BY <1>1, <1>2, <1>3, <1>4, <1>5, <1>6, <1>7, <1>8 DEF SweepNext

\* What the tools write and CI lets pass has the property's types.
LEMMA CaptureTyped == CaptureFacts \/ CaptureIdle => CaptureTypeOK
<1>1. ASSUME CaptureFacts PROVE CaptureTypeOK
  <2>1. main \in Files
    BY <1>1 DEF CaptureFacts, FilesInv
  <2>2. main.manifest # Missing => main.manifest \in Manifest
    BY <2>1 DEF Files
  <2>3. ASSUME NEW b \in Bundles(main.ledger)
        PROVE  b.event \in Events /\ (b.status = "captured" <=> b.hashed)
    <3>1. main.ledger # Missing /\ b \in Range(main.ledger)
      BY <2>3 DEF Bundles
    <3>2. b \in Bundle
      BY <2>1, <3>1 DEF Files, Range
    <3>3. BundleOk(b)
      BY <1>1, <2>3, <3>1 DEF CaptureFacts, MergedInv, CheckoutOk, Verified
    <3> QED
      BY <3>2, <3>3 DEF Bundle, BundleOk
  <2> QED
    BY <1>1, <2>2, <2>3 DEF CaptureFacts, FilesInv, CaptureTypeOK, Manifest
<1>2. CaptureIdle => CaptureTypeOK
  BY DEF CaptureIdle, CaptureTypeOK, Bundles
<1> QED
  BY <1>1, <1>2

\* The documents still to be read are links, and the one being retrieved is the
\* first of them.
DocumentTypes ==
  /\ DocumentTypeOK
  /\ candidates = NoDocument \/ candidates \in Seq(Links)
  /\ attempt # NoDocument => candidates \notin {NoDocument, <<>>}

\* A handoff, or none, begins with these types.
LEMMA InitDocumentTypes == DocumentInit \/ DocumentIdle => DocumentTypes
BY DEF DocumentInit, DocumentIdle, DocumentTypes, DocumentTypeOK

\* Every step of an analysis keeps to links, and stops at the hop limit.
LEMMA NextDocumentTypes == DocumentTypes /\ [DocumentNext]_documentVars => DocumentTypes'
<1> SUFFICES ASSUME DocumentTypes, [DocumentNext]_documentVars PROVE DocumentTypes'
  OBVIOUS
<1> USE DEF DocumentTypes, DocumentTypeOK, Dispatches
<1>1. CASE ReadHandoff
  <2>1. /\ handoff \in [document : Links \cup {NoDocument}, titled : BOOLEAN, index : BOOLEAN,
                        source : Links]
        /\ attempt = NoDocument /\ UNCHANGED <<handoff, analyses>>
    BY <1>1, DocumentAssumption DEF ReadHandoff
  <2>2. CASE Fail /\ UNCHANGED candidates
    BY <2>1, <2>2 DEF Fail
  <2>l. \A l \in Links : <<l>> \in Seq(Links)
    OBVIOUS
  <2>e. <<>> \in Seq(Links)
    OBVIOUS
  <2>s. handoff.source \in Links /\ (Named => handoff.document \in Links)
    BY <2>1 DEF Named
  <2>3. CASE /\ candidates' \in {<<handoff.document>>, <<>>} /\ Named
             /\ UNCHANGED <<attempt, dispatch>>
    <3>1. candidates' \in Seq(Links)
      BY <2>3, <2>l, <2>e, <2>s
    <3> QED
      BY <2>1, <2>3, <3>1
  <2>4. CASE /\ candidates' \in {<<handoff.source>>, <<>>}
             /\ UNCHANGED <<attempt, dispatch>>
    <3>1. candidates' \in Seq(Links)
      BY <2>4, <2>l, <2>e, <2>s
    <3> QED
      BY <2>1, <2>4, <3>1
  <2> QED
    BY <1>1, <2>2, <2>3, <2>4 DEF ReadHandoff
<1>2. CASE Discover
  <2>1. Discoverable \subseteq Seq(Links)
    BY DocumentAssumption DEF Discoverable
  <2>2. UNCHANGED <<handoff, analyses>> /\ candidates = NoDocument
    BY <1>2 DEF Discover
  <2>3. attempt = NoDocument
    BY <2>2
  <2>4. CASE Fail /\ UNCHANGED candidates
    BY <2>2, <2>4 DEF Fail
  <2>5. CASE candidates' \in Discoverable /\ UNCHANGED <<attempt, dispatch>>
    BY <2>1, <2>2, <2>3, <2>5
  <2> QED
    BY <1>2, <2>4, <2>5 DEF Discover
<1>3. CASE Exclude
  <2>1. candidates \in Seq(Links) /\ candidates # <<>> /\ attempt = NoDocument
    BY <1>3 DEF Exclude, Reading
  <2> QED
    BY <1>3, <2>1 DEF Exclude
<1>4. CASE Retrieve
  <2>1. candidates \in Seq(Links) /\ candidates \notin {NoDocument, <<>>}
    BY <1>4 DEF Retrieve, Reading
  <2>2. UNCHANGED <<handoff, candidates, analyses>>
    BY <1>4 DEF Retrieve
  <2>3. [guarded |-> Named, url |-> Head(candidates), hops |-> 0] \in Attempts
    BY <2>1, DocumentAssumption DEF Attempts, Named
  <2> QED
    BY <1>4, <2>1, <2>2, <2>3 DEF Retrieve, Fail
<1>5. CASE Ask
  <2>1. /\ candidates \in Seq(Links) /\ candidates \notin {NoDocument, <<>>}
        /\ attempt \in Attempts /\ UNCHANGED handoff
    BY <1>5 DEF Ask
  <2>2. CASE Fail /\ UNCHANGED <<candidates, analyses>>
    BY <2>1, <2>2 DEF Fail
  <2>3. CASE Written
    BY <2>1, <2>3 DEF Written
  <2>4. ASSUME NEW location \in Links \cup {NoDocument},
               RedirectAllowed(location), HopsLeftFor(attempt),
               attempt' = [attempt EXCEPT !.url = location, !.hops = @ + 1],
               UNCHANGED <<dispatch, candidates, analyses>>
        PROVE  DocumentTypes'
    <3>1. location \in Links /\ attempt.hops + 1 \in 0 .. MAX_DOCUMENT_HOPS
      BY <2>1, <2>4, DocumentAssumption DEF RedirectAllowed, HopsLeftFor, Attempts
    <3>2. attempt' \in Attempts
      BY <2>1, <2>4, <3>1 DEF Attempts
    <3> QED
      BY <2>1, <2>4, <3>2
  <2> QED
    BY <1>5, <2>2, <2>3, <2>4 DEF Ask
<1>6. CASE Dispatch
  BY <1>6 DEF Dispatch
<1>7. CASE UNCHANGED documentVars
  BY <1>7 DEF documentVars
<1> QED
  BY <1>1, <1>2, <1>3, <1>4, <1>5, <1>6, <1>7 DEF DocumentNext

RecordsInv ==
  /\ CycleIdle \/ CycleInv
  /\ SweepIInv /\ SweepTypes
  /\ CaptureIdle \/ CaptureFacts
  /\ FetchIdle \/ FetchIInv
  /\ DocumentTypes
  /\ HIInv

\* Whichever part is the one that runs, all six begin as they should.
LEMMA InitRecordsInv == RecordsInit => RecordsInv
<1>1. HoldoutIdle => HIInv
  BY HoldoutAssumption DEF HoldoutIdle, HIInv, HoldoutTypeOK, SeenByThen, TestedOnUnseen
<1> QED
  BY <1>1, CycleStart, InitSweepTypes, InitFilesInv, InitFetchIInv, InitDocumentTypes, HInit
     DEF RecordsInit, RecordsInv, CaptureFacts

\* A part that is not there takes no step, and one that stands still is as it was.
LEMMA NextRecordsInv == RecordsInv /\ [RecordsNext]_recordsVars => RecordsInv'
<1> SUFFICES ASSUME RecordsInv, [RecordsNext]_recordsVars PROVE RecordsInv'
  OBVIOUS
<1>1. /\ [CycleNext]_cycleVars /\ [SweepNext]_sweepVars /\ [CaptureNext]_captureVars
      /\ [FetchNext]_fetchVars /\ [DocumentNext]_documentVars /\ [HoldoutNext]_holdoutVars
  BY DEF RecordsNext, recordsVars
<1>2. (CycleIdle \/ CycleInv)'
  <2>1. CASE CycleIdle /\ UNCHANGED cycleVars
    BY <2>1 DEF CycleIdle, cycleVars, world, files
  <2>2. CycleIdle => ~CycleNext
    BY DEF CycleIdle, CycleNext
  <2> QED
    BY <1>1, <2>1, <2>2, CycleStep DEF RecordsInv
<1>3. (SweepIInv /\ SweepTypes)'
  BY <1>1, NextSweepIInv, NextSweepTypes DEF RecordsInv
<1>4. (CaptureIdle \/ CaptureFacts)'
  <2>1. CASE CaptureIdle /\ UNCHANGED captureVars
    BY <2>1 DEF CaptureIdle, captureVars
  <2>2. CaptureIdle => ~CaptureNext
    BY DEF CaptureIdle, CaptureNext, TimePasses, OpenBranch
  <2> QED
    BY <1>1, <2>1, <2>2, NextCaptureFacts DEF RecordsInv
<1>5. (FetchIdle \/ FetchIInv)'
  <2>1. CASE FetchIdle /\ UNCHANGED fetchVars
    BY <2>1 DEF FetchIdle, fetchVars
  <2>2. FetchIdle => ~FetchNext
    BY DEF FetchIdle, FetchNext, NothingBegun, RefuseRow, CheckRobots, Resolve, Request,
           TransportFails, Respond, Receive, EndOfBody, TimeGoesOn, At
  <2> QED
    BY <1>1, <2>1, <2>2, NextFetchIInv DEF RecordsInv
<1>6. DocumentTypes' /\ HIInv'
  BY <1>1, NextDocumentTypes, HNext DEF RecordsInv
<1> QED
  BY <1>2, <1>3, <1>4, <1>5, <1>6 DEF RecordsInv

\* However the six parts run, their state keeps its types: times stay on the clock,
\* files name what is there, a sweep stays in its budget and a merged line carries a
\* hash exactly when it was captured.
THEOREM RecordsAreTyped == RecordsSpec => []RecordsTypeOK
<1>1. ASSUME CycleIdle PROVE CycleTypeOK
  <2>d. DOMAIN <<>> = {}
    OBVIOUS
  <2>1. /\ DOMAIN dataset.statuses = {} /\ dataset.baselines = {} /\ DOMAIN evaluations = {}
        /\ trackings = {} /\ reviews = {}
    BY <1>1, <2>d DEF CycleIdle
  <2>2. now \in Times /\ disclosed \in Times \cup {None}
    BY <1>1, CycleAssumption DEF CycleIdle, Times
  <2> QED
    BY <2>1, <2>2 DEF CycleTypeOK
<1>2. FetchIdle => FetchTypeOK
  BY FetchAssumption DEF FetchIdle, FetchTypeOK
<1>3. RecordsInv => RecordsTypeOK
  BY <1>1, <1>2, CycleInvTyped, CaptureTyped
     DEF RecordsInv, RecordsTypeOK, SweepTypes, FetchIInv, DocumentTypes, HIInv
<1> QED
  BY InitRecordsInv, NextRecordsInv, <1>3, PTL DEF RecordsSpec
=============================================================================
