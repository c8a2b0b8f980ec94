----------------------------- MODULE MCScheduler -----------------------------
(***************************************************************************)
(* Instances of the scheduler: a call P of one or two rows beside a call Q  *)
(* of one row.                                                             *)
(***************************************************************************)
EXTENDS Scheduler

CONSTANTS callP, callQ, rowP1, rowP2, rowQ1, keyA

PQ      == {callP, callQ}
NoChunks == [x \in PQ |-> 0]
QChunk  == [x \in PQ |-> IF x = callQ THEN 1 ELSE 0]
BothTwo == [x \in PQ |-> 2]
QTwo    == [x \in PQ |-> IF x = callQ THEN 2 ELSE 1]

WideRows   == {rowP1, rowP2, rowQ1}
WideOwner  == [r \in WideRows |-> IF r = rowQ1 THEN callQ ELSE callP]
WideRowsOf == [x \in PQ |-> IF x = callP THEN <<rowP1, rowP2>> ELSE <<rowQ1>>]

NarrowRows   == {rowP1, rowQ1}
NarrowOwner  == [r \in NarrowRows |-> IF r = rowQ1 THEN callQ ELSE callP]
NarrowRowsOf == [x \in PQ |-> IF x = callP THEN <<rowP1>> ELSE <<rowQ1>>]

OneGroup  == [x \in PQ |-> keyA]
=============================================================================
