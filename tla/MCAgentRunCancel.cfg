SPECIFICATION Spec
CONSTANT MaxTransient = 2
PROPERTIES NoSpawnAfterCancel
CHECK_DEADLOCK FALSE
