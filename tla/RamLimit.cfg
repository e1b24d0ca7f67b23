CONSTANT Configs <- LargeMemory
SPECIFICATION Spec
INVARIANT RamIsLimited
CHECK_DEADLOCK FALSE
