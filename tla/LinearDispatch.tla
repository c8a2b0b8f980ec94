--------------------------- MODULE LinearDispatch ---------------------------
(***************************************************************************)
(* linear_orig_layout_launch (src/src/backend/rwkv7_fast_v4.cu): which     *)
(* kernel multiplies by a weight of the model.  The choice is a table of   *)
(* measurements by kind of weight, inner dimension and rows; it is written *)
(* against `path.rows` while the kernel gets M, and it names tiles that    *)
(* must be among the instantiated ones (those of LinearKernels).           *)
(***************************************************************************)
EXTENDS Integers, Sequences

CONSTANTS
  Channels,             \* C of the models served, which is also K of these products
  Vocab,                \* V
  Batches, Lengths,     \* B and T of a forward
  WeightKinds,          \* how the weight is stored: f16, int8, int4
  RowsTiles, RowsCfgTiles, ExactTiles,  \* the tiles of the kernels
  ExactShape(_, _, _)   \* the shapes the exact kernels take

\* A model's width is whole heads of 64.
DispatchAssumption ==
  /\ \A c \in Channels : c \in Nat /\ c > 0 /\ c % 64 = 0
  /\ Batches \cup Lengths \subseteq Nat \ {0}
  /\ WeightKinds \subseteq {"f16", "int8", "int4"}

VARIABLES
  run,                  \* the forward: its batch, the length of a lane, the model
  call                  \* the launch made last: the product and the choice

vars == <<run, call>>

-----------------------------------------------------------------------------
\* The launches a table can name.
exact(threads, out_tile, use4) ==
  [kernel |-> "rows_exact", threads |-> threads, row |-> 0, out |-> out_tile,
   use4 |-> use4, mb |-> 0, algo |-> 0]
rows(row_tile, out_tile) ==
  [kernel |-> "rows", threads |-> 128, row |-> row_tile, out |-> out_tile,
   use4 |-> FALSE, mb |-> 0, algo |-> 0]
cfg(threads, row_tile, out_tile) ==
  [rows(row_tile, out_tile) EXCEPT !.kernel = "rows_cfg", !.threads = threads]
lt(workspace_mb, algo) ==
  [rows(0, 0) EXCEPT !.kernel = "lt", !.mb = workspace_mb, !.algo = algo]
orig == [rows(0, 0) EXCEPT !.kernel = "orig"]

\* A line of a table: for kmin <= K <= kmax and lo <= path.rows < hi.
Infinity == 2147483647
Line(kmin, kmax, lo, hi, choice) ==
  [kmin |-> kmin, kmax |-> kmax, lo |-> lo, hi |-> hi, choice |-> choice]
Only(K, lo, hi, choice) == Line(K, K, lo, hi, choice)
From(lo, choice) == Line(0, Infinity, lo, Infinity, choice)
Exactly(kmin, kmax, n, choice) == Line(kmin, kmax, n, n + 1, choice)

\* One row and two rows: kernels without bounds tests.
OneRow(group) ==
  CASE group = "FfnKey" -> << Exactly(2560, 2560, 1, exact(128, 2, TRUE)),
                              Exactly(0, 1024, 1, exact(128, 2, TRUE)),
                              Exactly(0, Infinity, 1, exact(128, 2, FALSE)) >>
    [] group = "AttC2C" -> << Exactly(0, 2047, 1, exact(128, 2, TRUE)),
                              Exactly(0, Infinity, 1, exact(128, 2, FALSE)) >>
    [] group = "Head"   -> << Exactly(0, Infinity, 1, exact(128, 2, TRUE)) >>

TwoRows(group) ==
  CASE group = "AttC2C" -> << Exactly(0, Infinity, 2, exact(64, 2, TRUE)) >>
    [] group = "FfnKey" -> << Exactly(2560, 2560, 2, exact(128, 2, FALSE)),
                              Exactly(0, 4095, 2, exact(64, 2, TRUE)),
                              Exactly(0, Infinity, 2, exact(128, 2, FALSE)) >>
    [] group = "Head"   -> << Exactly(2560, 2560, 2, exact(128, 2, FALSE)),
                              Exactly(0, Infinity, 2, exact(64, 2, TRUE)) >>

ThreeRows(group) ==
  CASE group = "Head"   -> << Exactly(0, 2048, 3, orig), Exactly(2560, 2560, 3, orig),
                              Exactly(0, Infinity, 3, rows(3, 2)) >>
    [] group = "FfnKey" -> << Exactly(0, 1024, 3, cfg(64, 3, 4)), Exactly(2048, 2048, 3, orig),
                              Exactly(2560, 2560, 3, orig), Exactly(0, Infinity, 3, lt(0, 0)) >>
    [] group = "AttC2C" -> << Exactly(768, 768, 3, rows(1, 2)), Exactly(1024, 1024, 3, rows(2, 2)),
                              Exactly(2048, 2048, 3, rows(3, 4)), Exactly(2560, 2560, 3, rows(3, 2)),
                              Exactly(0, Infinity, 3, lt(0, 2)) >>

FourRows(group) ==
  CASE group = "FfnKey" -> << Exactly(0, 1024, 4, cfg(64, 2, 4)), Exactly(2048, 2048, 4, orig),
                              Exactly(2560, 2560, 4, orig), Exactly(0, Infinity, 4, lt(0, 0)) >>
    [] group = "AttC2C" -> << Exactly(0, 1024, 4, rows(2, 2)), Exactly(2048, 2048, 4, rows(4, 2)),
                              Exactly(2560, 2560, 4, rows(4, 2)), Exactly(0, Infinity, 4, lt(0, 2)) >>
    [] group = "Head"   -> << >>

\* From here on a line is first of its width, then of any.
HeadTable ==
  << Only(768, 192, 256, lt(128, 3)), Only(768, 96, 160, lt(0, 1)),
     Only(1024, 256, 384, orig), Only(1024, 192, 256, lt(0, 2)), Only(1024, 96, 160, lt(32, 1)),
     Only(2048, 256, 384, lt(32, 0)), Only(2048, 192, 256, lt(32, 6)),
     Only(2048, 128, 160, lt(0, 1)), Only(2048, 96, 112, lt(0, 0)),
     Only(2560, 128, 160, lt(0, 1)), Only(2560, 80, Infinity, lt(0, 0)),
     Only(2560, 72, Infinity, lt(32, 1)),
     From(1024, lt(128, 0)), From(512, lt(0, 2)), From(384, lt(128, 2)), From(256, lt(0, 1)),
     From(192, lt(128, 0)), From(160, lt(32, 0)), From(128, lt(128, 0)), From(112, lt(32, 0)),
     From(96, lt(32, 1)), From(80, lt(32, 2)), From(72, lt(128, 2)) >>

AttC2CTable ==
  << Only(768, 256, 384, lt(128, 1)), Only(768, 96, 112, lt(32, 3)),
     Only(1024, 256, 384, lt(128, 0)), Only(1024, 96, 112, lt(32, 6)),
     Only(2048, 256, 384, lt(32, 3)), Only(2048, 192, 256, lt(128, 0)),
     Only(2048, 96, 112, lt(32, 4)),
     Only(2560, 128, 160, lt(128, 2)), Only(2560, 112, Infinity, lt(128, 3)),
     Only(2560, 72, Infinity, lt(128, 2)), Only(2560, 5, Infinity, orig),
     From(1024, lt(32, 4)), From(768, lt(32, 0)), From(512, lt(32, 1)), From(384, lt(128, 2)),
     From(256, lt(128, 0)), From(192, lt(0, 0)), From(160, lt(128, 1)), From(128, lt(128, 0)),
     From(112, orig), From(96, lt(0, 5)), From(72, lt(32, 0)), From(48, lt(32, 6)),
     From(32, lt(0, 0)), From(24, lt(0, 6)), From(12, lt(0, 0)), From(5, lt(0, 2)) >>

FfnKeyTable ==
  << Only(768, 256, 384, orig), Only(768, 96, 112, orig),
     Only(1024, 256, 384, lt(32, 2)), Only(1024, 192, 256, lt(0, 0)),
     Only(1024, 96, 160, lt(32, 2)), Only(2048, 128, 160, lt(0, 3)),
     Only(2560, 128, 160, lt(32, 5)), Only(2560, 112, Infinity, lt(128, 4)),
     Only(2560, 80, Infinity, lt(0, 3)), Only(2560, 72, Infinity, lt(32, 4)),
     Only(2560, 3, Infinity, orig),
     From(1024, lt(0, 0)), From(768, lt(32, 1)), From(512, lt(128, 3)), From(384, lt(32, 0)),
     From(256, lt(0, 0)), From(192, lt(0, 3)), From(160, lt(0, 2)), From(128, lt(32, 0)),
     From(112, lt(32, 3)), From(96, lt(32, 1)), From(72, lt(128, 1)), From(64, lt(0, 0)),
     From(12, lt(0, 0)), Line(0, Infinity, 5, 7, lt(0, 1)) >>

RowsTable(group) ==
  CASE group = "Head" -> HeadTable [] group = "AttC2C" -> AttC2CTable
    [] group = "FfnKey" -> FfnKeyTable

\* The tables in the order in which the function tries them; the last line
\* is the call that ends it.
LinearTable(group) ==
  OneRow(group) \o TwoRows(group) \o ThreeRows(group) \o FourRows(group)
    \o RowsTable(group) \o << From(0, orig) >>

Tables == [group \in {"AttC2C", "FfnKey", "Head"} |-> LinearTable(group)]

Applies(line, K, n) == line.kmin <= K /\ K <= line.kmax /\ line.lo <= n /\ n < line.hi

FirstApplicable(table, K, n) ==
  LET i == CHOOSE j \in DOMAIN table :
             /\ Applies(table[j], K, n)
             /\ \A h \in 1..(j - 1) : ~ Applies(table[h], K, n)
  IN  table[i].choice

\* A quantized weight goes to the kernel of its format, whatever the rows.
linear_orig_layout_launch(path_rows, group, M, K, N, kind) ==
  [group |-> group, M |-> M, K |-> K, N |-> N,
   choice |-> IF kind = "f16" THEN FirstApplicable(Tables[group], K, path_rows)
              ELSE [orig EXCEPT !.kernel = kind]]

NoCall == [group |-> "none", M |-> 0, K |-> 0, N |-> 0, choice |-> orig]

\* Only the last token of a lane reaches the head, and head_path says so.
HeadCall(B, T, C, kind) == linear_orig_layout_launch(B, "Head", B, C, Vocab, kind)

AttCall(B, T, C, kind) == linear_orig_layout_launch(B * T, "AttC2C", B * T, C, C, kind)
FfnKeyCall(B, T, C, kind) == linear_orig_layout_launch(B * T, "FfnKey", B * T, C, 4 * C, kind)

LtWorkspaceMb == 128

\* A forward of B lanes and T tokens each: the products of a layer, then the
\* head (the other layers repeat the first).
Init ==
  /\ run \in [B : Batches, T : Lengths, C : Channels, kind : WeightKinds]
  /\ call = NoCall

AttProduct == call = NoCall /\ call' = AttCall(run.B, run.T, run.C, run.kind)

FfnKeyProduct == call.group = "AttC2C" /\ call' = FfnKeyCall(run.B, run.T, run.C, run.kind)

HeadProduct == call.group = "FfnKey" /\ call' = HeadCall(run.B, run.T, run.C, run.kind)

Next == (AttProduct \/ FfnKeyProduct \/ HeadProduct) /\ UNCHANGED run

Spec == Init /\ [][Next]_vars

-----------------------------------------------------------------------------
\* The launch function accepts what the tables chose: the tile is one that is
\* instantiated, for this number of rows, and the kernels that test no bounds
\* get a product their tiles divide.  (A refused launch throws out of the
\* forward, after earlier layers have changed the state.)
TableNamesAKernel ==
  LET c == call.choice IN
  CASE c.kernel = "rows_exact" ->
         /\ <<call.M, c.threads, c.out, c.use4>> \in ExactTiles
         /\ ExactShape(c.out, c.use4, [N |-> call.N, K |-> call.K])
    [] c.kernel = "rows" -> <<c.row, c.out>> \in RowsTiles
    [] c.kernel = "rows_cfg" -> <<c.threads, c.row, c.out>> \in RowsCfgTiles
    [] OTHER -> TRUE

\* The cublasLt workspace a table asks for is there: run_backend_forward
\* allocates lt_workspace before it knows which lines apply, and the process
\* exits when one asks for more.
WorkspaceSuffices == call.choice.mb <= LtWorkspaceMb
=============================================================================
