SPECIFICATION Spec
CONSTANTS
  Evidence    <- ConfigItems
  Category    <- MCCategory
  CategoryOf  <- MCCategoryOf
  At          <- MCAt
  Says        <- MCSays
  Negates     <- MCNegates
  EntityOf    <- NoEntity
  RowsAffected <- NoRows
  Question    <- ConfigSlice
  Requires    <- PlaybookRequires
  Priority    <- PlaybookPriority
  DependsOn   <- PlaybookDependsOn
  Generates   <- PlaybookGenerates
  Dynamic     <- PlaybookDynamic
  Fires       <- PlaybookFires
  Verdict     <- PlaybookVerdict
  Proposals   <- NoProposals
  Heuristics  <- OneAssessment
  MaxResolutions <- NoVerdicts
INVARIANTS
  ChainInOrder
  RuledOutStopsChain
