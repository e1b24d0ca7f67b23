CONSTANT Configs <- AllCommandLines
SPECIFICATION FairSpec
INVARIANTS TypeOK RegionsDisjoint LinesDistinct NodesDescribeDevices WindowAgrees InterruptsArrive
  PhandlesUnique ReferencesResolve HartsServed ImsicFilesFound SuppliedCodeRuns
PROPERTY StartsWithClient
CHECK_DEADLOCK FALSE
