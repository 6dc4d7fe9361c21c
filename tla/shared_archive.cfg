SPECIFICATION Spec
CONSTANTS
  Session    = {s1, s2, s3}
  Evidence   <- MCEvidence
  Category   <- MCCategory
  CategoryOf <- MCCategoryOf
  Profiles   <- MCProfiles
  Batches    <- MCBatches
  Limits     = {0, 1}
  Outlook    <- MCOutlook
SYMMETRY SessionsAlike
INVARIANTS
  NovelCauseHeldBack
PROPERTIES
  PrecedentsStand
  UnrelatedHistoryUnfelt
