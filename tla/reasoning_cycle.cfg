SPECIFICATION Spec
CONSTANTS
  Evidence     <- MCEvidence
  Category     <- MCCategory
  CategoryOf   <- MCCategoryOf
  At           <- MCAt
  Says         <- MCSays
  Negates      = {"noconfig"}
  EntityOf     <- MCEntityOf
  RowsAffected <- MCRowsAffected
  Hints        = {}
  Echoes       <- MCEchoes
  GoesWell     = {"release"}
  Service      = "checkout"
  Question     <- MCQuestion
  Requires     <- PlaybookRequires
  Priority     <- PlaybookPriority
  DependsOn    <- PlaybookDependsOn
  Generates    <- PlaybookGenerates
  Dynamic      <- PlaybookDynamic
  Fires        <- PlaybookFires
  Verdict      <- PlaybookVerdict
  Strategies   = {"sequential", "parallel"}
  Batches      <- MCBatches
  Answers      <- MCAnswers
  MaxSpoken    = 1
INVARIANTS
  TypeOK
  SharesAddUp
  GraphFaithful
  ProgressNeedsOpenQuestion
PROPERTIES
  RereadingChangesNothing
  ImplementsRuntime
