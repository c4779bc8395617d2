------------------------- MODULE MCMonitorAmbiguity -------------------------
(***************************************************************************)
(* MonitorRuntime with a record of the page the last content_ambiguous run *)
(* reported, to follow what one edit of the page costs.                    *)
(***************************************************************************)
EXTENDS MonitorRuntime

VARIABLE reported   \* the page of the latest run when that run was ambiguous

Committed == runs' # runs

ReportingInit == Init /\ reported = {}

ReportingNext ==
  /\ Next
  /\ reported' = IF ~Committed THEN reported
                 ELSE IF runs'[Len(runs')].error_code = "content_ambiguous" THEN {page}
                 ELSE {}

ReportingSpec == ReportingInit /\ [][ReportingNext]_<<vars, reported>>

\* One edit of the page is reported as ambiguous once: a run that finds the
\* very page the last run reported does not report it again.
AmbiguityReportedOnce ==
  [][(Committed /\ reported = {page}) =>
        runs'[Len(runs')].error_code # "content_ambiguous"]_<<vars, reported>>
=============================================================================
