------------------------------- MODULE Holdout -------------------------------
(***************************************************************************)
(* The part of the research record kept back from exploration              *)
(* (statistics/holdout.py).  Each report splits the record of its day      *)
(* anew, so the cutoff moves as rows are filed, in either direction, and   *)
(* rows change sides; a definition is frozen on what reports have shown    *)
(* so far, and tested on what is reserved at the time of the test.         *)
(*                                                                         *)
(* The share reserved is the default third, at which the cut index is      *)
(* never the number of rows.  All days are days of Tokyo.  The code drops  *)
(* the timezone of a freeze date (holdout.py:182-188), so one written in   *)
(* another zone may be taken for the day before; here none is.             *)
(***************************************************************************)
EXTENDS Integers, FiniteSets

CONSTANTS
  RowIds,
  MIN_FOR_RESERVE,
  MIN_REPORTABLE,
  LastReportDay,
  Undated,             \* a row without a usable date
  Absent               \* a row not filed, and no definition

ASSUME HoldoutAssumption ==
  /\ MIN_FOR_RESERVE \in Nat \ {0} /\ MIN_REPORTABLE \in Nat /\ LastReportDay \in Nat
  /\ Undated # Absent /\ Undated \notin Int /\ Absent \notin Int
  /\ IsFiniteSet(RowIds)

VARIABLES
  report_day,
  dates,       \* of every row: its date, Undated or Absent
  explored,    \* rows some report has counted
  definition,  \* [frozen_at, seen]: a frozen hypothesis and what had been shown by then
  tested       \* rows its test has summarised

holdoutVars == <<report_day, dates, explored, definition, tested>>

Filed == {i \in RowIds : dates[i] # Absent}

Dated == {i \in Filed : dates[i] # Undated}

Before(d) == {i \in Dated : dates[i] < d}

CutIndex == (2 * Cardinality(Dated)) \div 3

\* The date at the cut index when the dates are sorted.
Cutoff ==
  CHOOSE d \in {dates[i] : i \in Dated} :
    Cardinality(Before(d)) <= CutIndex /\ CutIndex < Cardinality(Before(d + 1))

\* Too few rows, no earlier period for ties, or too few reserved: no split.
Splits ==
  /\ Cardinality(Dated) >= MIN_FOR_RESERVE
  /\ Before(Cutoff) # {}
  /\ Cardinality(Dated \ Before(Cutoff)) >= MIN_REPORTABLE

Exploration == IF Splits THEN Filed \ (Dated \ Before(Cutoff)) ELSE Filed

Reserved == IF Splits THEN Dated \ Before(Cutoff) ELSE {}

\* Fault: a definition of the day the reserved period begins is early enough.
FrozenByCutoff == definition.frozen_at <= Cutoff

FrozenBeforeCutoff == definition.frozen_at < Cutoff

\* The record is still being kept.
Open == report_day <= LastReportDay

\* A row is filed with a date that has come, or with none.
FileRow ==
  /\ Open
  /\ \E i \in RowIds \ Filed, d \in (0..report_day) \cup {Undated} :
       dates' = [dates EXCEPT ![i] = d]
  /\ UNCHANGED <<report_day, explored, definition, tested>>

ReportDayEnds ==
  /\ report_day < LastReportDay
  /\ report_day' = report_day + 1
  /\ UNCHANGED <<dates, explored, definition, tested>>

\* A report that counts these rows.
Reporting(rows) ==
  /\ Open
  /\ explored' = explored \cup rows
  /\ UNCHANGED <<report_day, dates, definition, tested>>

\* The aggregation: every figure is of the exploration alone.
PublishReport == Reporting(Exploration)

\* The research knowledge, which keeps nothing back, as its NOTICE says.
PublishKnowledge == Reporting(Filed)

FreezeDefinition ==
  /\ Open /\ definition = Absent
  /\ definition' = [frozen_at |-> report_day, seen |-> explored]
  /\ UNCHANGED <<report_day, dates, explored, tested>>

EvaluateReserved ==
  /\ Open /\ definition # Absent
  /\ Splits /\ FrozenBeforeCutoff
  /\ tested' = tested \cup Reserved
  /\ UNCHANGED <<report_day, dates, explored, definition>>

HoldoutIdle ==
  /\ report_day = LastReportDay + 1
  /\ dates = [i \in RowIds |-> Absent]
  /\ explored = {} /\ definition = Absent /\ tested = {}

HoldoutInit ==
  /\ report_day = 0
  /\ dates = [i \in RowIds |-> Absent]
  /\ explored = {} /\ definition = Absent /\ tested = {}

HoldoutNext ==
  \/ FileRow
  \/ ReportDayEnds
  \/ PublishReport
  \/ PublishKnowledge
  \/ FreezeDefinition
  \/ EvaluateReserved

HoldoutSpec == HoldoutInit /\ [][HoldoutNext]_holdoutVars

(***************************************************************************)
(* Properties.                                                             *)
(***************************************************************************)

\* No row is of a day to come, and only filed rows are shown or tested.
HoldoutTypeOK ==
  /\ report_day \in 0..(LastReportDay + 1)
  /\ dates \in [RowIds -> (0..report_day) \cup {Undated, Absent}]
  /\ explored \subseteq Filed /\ tested \subseteq Dated
  /\ definition # Absent =>
       definition.frozen_at \in 0..report_day /\ definition.seen \subseteq explored

\* However the record grows and its cutoff moves, a definition is never tested on
\* a row that a report, also one that keeps nothing back, had counted before the
\* definition was frozen (holdout.py:1-18, 145-175).  It rests on an honest freeze
\* date and on rows that are not dated ahead.
TestedOnUnseen == definition # Absent => tested \cap definition.seen = {}
=============================================================================
