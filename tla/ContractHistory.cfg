SPECIFICATION Spec
CONSTANTS
  Fingerprints = {f1, f2}
  IndicatorNames = {etag}
  IndicatorValues = {v1}
  SourceErrors = {"timeout"}
  Absent = Absent
  MaxRuns = 4
  MaxResolutions = 1
INVARIANTS
  NoSilentChange
  ReviewIsShown
