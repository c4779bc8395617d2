\* The upload of the bundle fails.
SPECIFICATION Spec
CONSTANTS
  ChangeResponses = {"human_review"}
  IssuePage = 10
  MaxRuns = 1
  MaxReruns = 0
  MaxEdits = 0
  MaxOtherIssues = 0
INVARIANTS
  DeliveryNoticeIsTrue
