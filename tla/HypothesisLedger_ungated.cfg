SPECIFICATION Spec
CONSTANTS
  None = None
  new = new
  old = old
  Events = {new, old}
  Legacy = {old}
  Session <- MCSession
  Change <- MCChange
  Matures <- MCMatures
  Rank <- MCRank
  LegacyDesign <- MCLegacyDesign
  Judgement <- MCJudgement
  Scopes <- MCScopes
  MaxVersion = 2
PROPERTY
  OnlyUsableKnowledgeIsTried
CHECK_DEADLOCK FALSE
