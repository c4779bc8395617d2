\* More open Issues than one listing returns.
SPECIFICATION Spec
CONSTANTS
  ChangeResponses = {"human_review"}
  IssuePage = 1
  MaxRuns = 3
  MaxReruns = 0
  MaxEdits = 0
  MaxOtherIssues = 1
INVARIANTS
  OneIssuePerEpisode
