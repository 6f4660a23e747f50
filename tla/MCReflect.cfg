CONSTANTS
  Batches <- MCBatches
  Handles = {"h", "g"}
  MaxFiles = 3
  MaxListed = 2
  Files <- MCFiles
  Older <- MCOlder
  Inputs <- MCInputs
  Buffers <- MCBuffers
  Documents <- MCDocuments
  MaxEntries = 2
  MaxBytes = 16
SPECIFICATION Spec
INVARIANTS PoolSound PoolReimports WireReadsBack 
 
CHECK_DEADLOCK FALSE
