\* The registry row stays as activated.
SPECIFICATION Spec
CONSTANTS
  Fingerprints = {f1, f2}
  IndicatorNames = {etag}
  IndicatorValues = {v1}
  SourceErrors = {"timeout"}
  Absent = Absent
  MaxRuns = 4
  MaxResolutions = 2
  MaxTime = 5
INVARIANTS
  TypeOK
  RuntimeAcceptsItsOwnState
PROPERTIES
  ImplementsChangeReview
