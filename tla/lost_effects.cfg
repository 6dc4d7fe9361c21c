SPECIFICATION Spec
CONSTANTS
  e1 = e1
  e2 = e2
  e3 = e3
  c1 = c1
  c2 = c2
  root = root
  child = child
  dyn = dyn
  Evidence   <- TwoItems
  Category   <- MCCategory
  CategoryOf <- MCCategoryOf
  Question   <- MCQuestion
  Requires   <- MCRequires
  Priority   <- MCPriority
  DependsOn  <- MCDependsOn
  Generates  <- MCGenerates
  Dynamic    <- MCDynamic
  Fires      <- MCFires
  Verdict    <- MCVerdict
  Proposals  <- NoProposals
  Heuristics  <- AnyAssessment
  MaxResolutions <- MCMaxResolutions
INVARIANT VerdictsWeighInReport
