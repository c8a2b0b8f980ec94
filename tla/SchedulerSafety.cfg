SPECIFICATION Spec
CONSTANTS
  callP = callP
  callQ = callQ
  rowP1 = rowP1
  rowP2 = rowP2
  rowQ1 = rowQ1
  keyA = keyA
  Requests <- PQ
  Rows <- WideRows
  Owner <- WideOwner
  RowsOf <- WideRowsOf
  Adapters = {keyA}
  AdapterOf <- OneGroup
  MaxTokens <- QTwo
  TextStop = {callQ}
  NotifyTextStop = {callQ}
  Controlled = {callP}
  Flaky = {callP}
  BadOptions = {}
  PrefillChunks <- NoChunks
  ChunkSize = 1
  MaxRows = 2
  EventLimit = 1
  Failing = {keyA}
  MayStop = FALSE
  Stalled = {}
INVARIANTS
  CompletionAccounting
  RowHasOneHome
  CallerOutlivesRows
  SlotCap
  OutputIsFaithful
