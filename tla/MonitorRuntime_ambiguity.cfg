\* A page that carries its own correction marker.
SPECIFICATION ReportingSpec
CONSTANTS
  Fingerprints = {f1}
  IndicatorNames = {etag}
  IndicatorValues = {v1}
  SourceErrors = {"timeout"}
  Absent = Absent
  MaxRuns = 4
  MaxResolutions = 0
  MaxTime = 5
PROPERTIES
  AmbiguityReportedOnce
