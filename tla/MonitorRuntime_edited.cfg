\* The registry row may be edited between runs.
SPECIFICATION EditedSpec
CONSTANTS
  Fingerprints = {f1, f2}
  IndicatorNames = {etag}
  IndicatorValues = {v1}
  SourceErrors = {"timeout"}
  Absent = Absent
  MaxRuns = 4
  MaxResolutions = 2
  MaxTime = 4
INVARIANTS
  ReviewNotForgotten
PROPERTIES
  PendingLeavesOnlyByReview
