SPECIFICATION Spec
CONSTANTS
  Evidence    <- DatabaseItems
  Category    <- MCCategory
  CategoryOf  <- MCCategoryOf
  At          <- MCAt
  Says        <- MCSays
  Negates     <- MCNegates
  EntityOf    <- NoEntity
  RowsAffected <- NoRows
  Question    <- DatabaseSlice
  Requires    <- PlaybookRequires
  Priority    <- PlaybookPriority
  DependsOn   <- PlaybookDependsOn
  Generates   <- PlaybookGenerates
  Dynamic     <- PlaybookDynamic
  Fires       <- PlaybookFires
  Verdict     <- PlaybookVerdict
  Proposals   <- NoProposals
  Heuristics  <- OneAssessment
  MaxResolutions <- NoVerdicts
INVARIANTS
  DatabaseVerdictsExclusive
