SPECIFICATION FairSpec
CONSTANTS
  callP = callP
  callQ = callQ
  rowP1 = rowP1
  rowP2 = rowP2
  rowQ1 = rowQ1
  keyA = keyA
  Requests <- PQ
  Rows <- NarrowRows
  Owner <- NarrowOwner
  RowsOf <- NarrowRowsOf
  Adapters = {keyA}
  AdapterOf <- OneGroup
  MaxTokens <- BothTwo
  TextStop = {}
  NotifyTextStop = {}
  Controlled = {callP}
  Flaky = {callQ}
  BadOptions = {}
  PrefillChunks <- QChunk
  ChunkSize = 1
  MaxRows = 1
  EventLimit = 1
  Failing = {}
  MayStop = TRUE
  Stalled = {callP}
PROPERTIES
  EveryoneReturns
