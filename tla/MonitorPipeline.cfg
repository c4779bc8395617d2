\* Both kinds of target; every artifact but the newest may expire.
SPECIFICATION FairSpec
CONSTANTS
  ChangeResponses = {"human_review", "autonomous_research_handoff"}
  IssuePage = 10
  MaxRuns = 2
  MaxReruns = 1
  MaxEdits = 1
  MaxOtherIssues = 1
INVARIANTS
  OneLineage
  GreenMeansNotified
  NoBundleNoticeIsTrue
  OneIssuePerEpisode
PROPERTIES
  ChangeSurfaces
