SPECIFICATION FairSpec
CONSTANTS
  Evidence    <- DeployItems
  Category    <- MCCategory
  CategoryOf  <- MCCategoryOf
  At          <- MCAt
  Says        <- MCSays
  Negates     <- MCNegates
  EntityOf    <- NoEntity
  RowsAffected <- NoRows
  Question    <- DeploySlice
  Requires    <- PlaybookRequires
  Priority    <- PlaybookPriority
  DependsOn   <- PlaybookDependsOn
  Generates   <- PlaybookGenerates
  Dynamic     <- PlaybookDynamic
  Fires       <- PlaybookFires
  Verdict     <- PlaybookVerdict
  Proposals   <- NoProposals
  Heuristics  <- OneAssessment
  MaxResolutions <- NoVerdicts
INVARIANTS
  RollbackJudgedOnBlame
PROPERTIES
  DeployVerdictGrounded
  DeploymentSettles
