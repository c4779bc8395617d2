----------------------- MODULE MonitorContractLemmas -----------------------
(***************************************************************************)
(* Facts about the operators of MonitorContract: a newest member exists,   *)
(* is unique and is a run or resolution number; the newest resolution of a *)
(* change is never superseded; a change without a resolution row counts as *)
(* unresolved in the contract.                                             *)
(***************************************************************************)
EXTENDS MonitorContract, WellFoundedInduction, TLAPS

\* Every set of run or resolution numbers that is not empty has a least one.
LEMMA LeastExists ==
  ASSUME NEW T, T \subseteq Nat, T # {}
  PROVE  \E x \in T : \A y \in T : x <= y
<1>1. IsWellFoundedOn(OpToRel(<, Nat), Nat)
  BY NatLessThanWellFounded
<1>2. PICK x \in T : \A y \in T : ~(<<y, x>> \in OpToRel(<, Nat))
  BY <1>1, WFMin, Zenon
<1>3. ASSUME NEW y \in T PROVE x <= y
  <2>1. x \in Nat /\ y \in Nat
    OBVIOUS
  <2>2. ~(y < x)
    BY <1>2, <2>1 DEF OpToRel
  <2> QED
    BY <2>1, <2>2
<1> QED
  BY <1>2, <1>3

\* Every set of positions up to n has a newest member, or 0 when it is empty.
LEMMA NewestExists ==
  ASSUME NEW n \in Nat, NEW S \in SUBSET (1 .. n)
  PROVE  \E k \in (1 .. n) \cup {0} : IsNewestOf(k, S)
<1>1. CASE S = {}
  BY <1>1 DEF IsNewestOf
<1>2. CASE S # {}
  <2> DEFINE T == {i \in 0 .. n : n - i \in S}
  <2>1. T \subseteq Nat
    OBVIOUS
  <2>2. PICK s \in S : TRUE
    BY <1>2
  <2>3. n - s \in T
    <3>1. s \in 1 .. n
      OBVIOUS
    <3>2. n - s \in 0 .. n /\ n - (n - s) = s
      BY <3>1
    <3> QED
      BY <3>2
  <2>4. PICK x \in T : \A y \in T : x <= y
    BY <2>1, <2>3, LeastExists
  <2>5. ASSUME NEW j \in S PROVE j <= n - x
    <3>1. j \in 1 .. n /\ x \in 0 .. n
      OBVIOUS
    <3>2. n - j \in 0 .. n /\ n - (n - j) = j
      BY <3>1
    <3>3. x <= n - j
      BY <2>4, <3>2
    <3> QED
      BY <3>1, <3>3
  <2>6. n - x \in S
    OBVIOUS
  <2> QED
    BY <2>5, <2>6, <1>2 DEF IsNewestOf
<1> QED
  BY <1>1, <1>2

\* The newest member of a set is unique.
LEMMA NewestUnique ==
  ASSUME NEW S \in SUBSET Nat, NEW a, NEW b, IsNewestOf(a, S), IsNewestOf(b, S)
  PROVE  a = b
<1>1. CASE S = {}
  BY <1>1 DEF IsNewestOf
<1>2. CASE S # {}
  <2>1. a \in S /\ b \in S /\ a <= b /\ b <= a
    BY <1>2 DEF IsNewestOf
  <2>2. a \in Nat /\ b \in Nat
    BY <2>1
  <2> QED
    BY <2>1, <2>2
<1> QED
  BY <1>1, <1>2

\* A change no row resolves is unresolved in the contract as well.
LEMMA UnresolvedWithoutRow ==
  ASSUME NEW runs, NEW resolutions, NEW c \in ChangeRuns(runs),
         ResolutionsOf(resolutions, c) = {}
  PROVE  c \in UnresolvedByContract("human_review", runs, resolutions)
<1>1. c \notin EffectiveSources(resolutions)
  BY DEF EffectiveSources, ResolutionsOf
<1> QED
  BY <1>1 DEF UnresolvedByContract

\* In a history that continues run by run, two successful observations with
\* different fingerprints have a change_detected run after the first, up to the
\* second: the first success to differ cannot have reported anything else.
LEMMA LineageReportsChanges ==
  ASSUME NEW runs \in Seq(MonitorRun),
         \A i \in DOMAIN runs : RunRowOk(runs[i]),
         RunLineageOk(runs),
         NEW a \in SuccessfulRuns(runs), NEW b \in SuccessfulRuns(runs),
         a < b, runs[a].fingerprint_after # runs[b].fingerprint_after
  PROVE  \E k \in a + 1 .. b : k \in ChangeRuns(runs)
<1> SUFFICES ASSUME \A k \in a + 1 .. b : k \notin ChangeRuns(runs) PROVE FALSE
  OBVIOUS
<1> DEFINE T == {k \in a + 1 .. b : /\ Succeeded(runs[k])
                                   /\ runs[k].fingerprint_after # runs[a].fingerprint_after}
<1>1. /\ Len(runs) \in Nat /\ DOMAIN runs = 1 .. Len(runs)
      /\ a \in DOMAIN runs /\ b \in DOMAIN runs
      /\ Succeeded(runs[a]) /\ Succeeded(runs[b])
  BY DEF SuccessfulRuns
<1>2. T \subseteq Nat /\ b \in T
  BY <1>1
<1>3. PICK k \in T : \A y \in T : k <= y
  BY <1>2, LeastExists
<1>4. k \in a + 1 .. b /\ k \in DOMAIN runs /\ k - 1 \in Nat
  BY <1>1, <1>3
<1> DEFINE S == {j \in a .. k - 1 : Succeeded(runs[j])}
<1>5. S \in SUBSET (1 .. k - 1) /\ a \in S
  BY <1>1, <1>4
<1>6. PICK j \in (1 .. k - 1) \cup {0} : IsNewestOf(j, S)
  BY <1>4, <1>5, NewestExists
<1>7. j \in S /\ \A i \in S : i <= j
  BY <1>5, <1>6 DEF IsNewestOf
<1> HIDE DEF S
<1>8. j \in a .. k - 1 /\ Succeeded(runs[j])
  BY <1>7 DEF S
<1>9. runs[j].fingerprint_after = runs[a].fingerprint_after
  <2>1. CASE j = a
    BY <2>1
  <2>2. CASE j # a
    <3>1. j \in a + 1 .. b /\ j < k
      BY <1>1, <1>4, <1>8, <2>2
    <3>2. j \notin T
      BY <1>1, <1>3, <1>4, <3>1
    <3> QED
      BY <1>8, <3>1, <3>2
  <2> QED
    BY <2>1, <2>2
<1>10. \A i \in j + 1 .. k - 1 : ~Succeeded(runs[i])
  <2> SUFFICES ASSUME NEW i \in j + 1 .. k - 1, Succeeded(runs[i]) PROVE FALSE
    OBVIOUS
  <2>1. i \in a .. k - 1
    BY <1>1, <1>4, <1>8
  <2>2. i \in S
    BY <2>1 DEF S
  <2> QED
    BY <1>1, <1>4, <1>7, <1>8, <2>2
<1>11. runs[k].run_result = "no_change"
  <2>1. k # 1 /\ runs[k].run_result # "initialized"
    BY <1>1, <1>4 DEF RunLineageOk
  <2>2. runs[k].run_result # "error" /\ runs[k].run_result # "change_detected"
    BY <1>3, <1>4 DEF Succeeded, ChangeRuns
  <2>3. runs[k] \in MonitorRun
    BY <1>4
  <2> QED
    BY <2>1, <2>2, <2>3 DEF MonitorRun, RunResults
<1>12. runs[k].fingerprint_before # Absent
       /\ runs[k].fingerprint_before = runs[k].fingerprint_after
  BY <1>4, <1>11 DEF RunRowOk
<1>13. runs[k].fingerprint_before = runs[j].fingerprint_after
  <2>1. j \in 1 .. k - 1
    BY <1>1, <1>4, <1>8
  <2> QED
    BY <1>4, <1>8, <1>10, <1>12, <2>1 DEF RunLineageOk
<1> QED
  BY <1>3, <1>9, <1>12, <1>13
=============================================================================
