SPECIFICATION FairSpec
CONSTANTS
  Evidence    <- TimelineItems
  Category    <- MCCategory
  CategoryOf  <- MCCategoryOf
  At          <- MCAt
  Says        <- MCSays
  Negates     <- MCNegates
  EntityOf    <- NoEntity
  RowsAffected <- NoRows
  Question    <- TimelineSlice
  Requires    <- PlaybookRequires
  Priority    <- PlaybookPriority
  DependsOn   <- PlaybookDependsOn
  Generates   <- PlaybookGenerates
  Dynamic     <- PlaybookDynamic
  Fires       <- PlaybookFires
  Verdict     <- PlaybookVerdict
  Proposals   <- NoProposals
  Heuristics  <- OneAssessment
  MaxResolutions <- NoVerdicts
PROPERTIES
  EvidenceResolvesQuestions
