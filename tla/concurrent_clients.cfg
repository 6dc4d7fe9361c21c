SPECIFICATION FairSpec
CONSTANTS
  s1 = s1
  s2 = s2
  i1 = i1
  i2 = i2
  Session <- MCSession
  Item    <- MCItem
  Call    <- Calls
  Tool    <- MCTool
  Target  <- MCTarget
  Batch   <- MCBatch
  Samples <- MCSamples
  NoCall  = NoCall
CHECK_DEADLOCK FALSE
INVARIANTS
  TypeOK
  OneInside
  WholeWhenFree
  NoItemTwice
  RepliesFresh
  ReportMatchesArchive
  CompletionAnnouncedLast
PROPERTIES
  AllCallsEnd
  ImplementsCaseFile
