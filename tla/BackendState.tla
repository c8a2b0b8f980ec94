---------------------------- MODULE BackendState ----------------------------
(***************************************************************************)
(* The state of a generation on the device, and who it belongs to          *)
(* (src/src/backend/rwkv7_fast_v4.cu, create_state to copy_logits_slice;   *)
(* pack, export_row and rebuild of the decode scheduler, and the chunked   *)
(* prefill, in src/src/inference/rwkv_inference_engine.cpp).               *)
(*                                                                         *)
(* A state holds B lanes in flat arrays: per layer the B lanes of shift0   *)
(* and then those of shift1, and the B lanes of the recurrence; and one    *)
(* number of elapsed tokens per lane.  A cell is one lane's share of one   *)
(* array, and holds what was computed into it: which part of which layer   *)
(* it is, the state it started from and the tokens it has seen, each with  *)
(* the adapter that was applied.  `hist` is a history variable: the lane's *)
(* true past, however it was moved.                                        *)
(***************************************************************************)
EXTENDS Integers, Sequences

CONSTANTS
  Requests,             \* the callers, each with a state of its own
  Lanes,                \* Lanes[r]: the batch size of r's state
  Adapters,             \* adapters, and "" for none
  Foreign,              \* the adapters whose base is another model
  Initials,             \* "zero" and the states loaded from a .pth file
  Layers, MaxRows,      \* dims.layers; rows of the scheduler
  MaxTokens             \* bound: tokens of a lane

BackendAssumption ==
  /\ Layers \in Nat \ {0} /\ MaxRows \in Nat \ {0} /\ MaxTokens \in Nat
  /\ Lanes \in [Requests -> Nat \ {0}]
  /\ "" \in Adapters /\ Foreign \subseteq Adapters \ {""} /\ "zero" \in Initials

VARIABLES
  st,                   \* the states: of a request, of the group, and the group's spare
  lg,                   \* DeviceLogits: rows, and the tokens each row was computed from
  rows,                 \* group.rows: the rows <<request, lane>> decoded together
  hist,                 \* hist[id][lane]: where the lane started and its tokens
  refused               \* decodes that were refused

vars == <<st, lg, rows, hist, refused>>

Group == "group"
Spare == "spare"
Ids == Requests \cup {Group, Spare}

MaxB == MaxRows + Layers    \* no state has more lanes
Cells == 0..(Layers * 2 * MaxB - 1)

-----------------------------------------------------------------------------
\* The arrays.

Shift0At(B, l, b) == l * 2 * B + b
Shift1At(B, l, b) == l * 2 * B + B + b
WkvAt(B, l, b) == l * B + b

Cell(part, l, init, toks) == <<part, l, init, toks>>
Blank == Cell("blank", 0, "", <<>>)
NoLane == [init |-> "zero", toks |-> <<>>]

Empty ==
  [B |-> 0, shift |-> [i \in Cells |-> Blank], wkv |-> [i \in Cells |-> Blank],
   elapsed |-> [i \in Cells |-> 0], adapter |-> "", adapter_identity |-> "", effective_key |-> <<>>,
   initial |-> "zero", advanced |-> FALSE]

NoLogits == [rows |-> 0, values |-> [i \in Cells |-> <<>>]]

\* Where the cells of a state of B lanes are, by layer and lane.
ByLane(B) == (0..(Layers - 1)) \X (0..(B - 1))
Shift0Cells(B) == [x \in ByLane(B) |-> Shift0At(B, x[1], x[2])]
Shift1Cells(B) == [x \in ByLane(B) |-> Shift1At(B, x[1], x[2])]
WkvCells(B) == [x \in ByLane(B) |-> WkvAt(B, x[1], x[2])]

\* Cells of a zeroed state.
Zeroed(at0, at1, part0, part1, B, init) ==
  [i \in Cells |->
     LET hit0 == {l \in 0..(Layers - 1) : \E b \in 0..(B - 1) : at0[l, b] = i}
         hit1 == {l \in 0..(Layers - 1) : \E b \in 0..(B - 1) : at1[l, b] = i}
     IN  CASE hit0 # {} -> Cell(part0, CHOOSE l \in hit0 : TRUE, init, <<>>)
           [] hit0 = {} /\ hit1 # {} -> Cell(part1, CHOOSE l \in hit1 : TRUE, init, <<>>)
           [] OTHER -> Blank]

create_state(B) ==
  [Empty EXCEPT !.B = B,
     !.shift = Zeroed(Shift0Cells(B), Shift1Cells(B), "shift0", "shift1", B, "zero"),
     !.wkv = Zeroed(WkvCells(B), WkvCells(B), "wkv", "wkv", B, "zero")]

\* Every lane of every layer gets the file's recurrence; the shifts stay zero.
load_state_from_pth(initial, B) ==
  [create_state(B) EXCEPT
     !.initial = initial,
     !.wkv = Zeroed(WkvCells(B), WkvCells(B), "wkv", "wkv", B, initial)]

effective_model_key(s) == <<s.adapter, s.initial>>

\* What forward_prefill and forward_decode refuse before they change anything.
Refuses(s) ==
  \/ s.advanced /\ s.effective_key # effective_model_key(s)
  \/ s.adapter \in Foreign

\* run_backend_forward on toks[b] for every lane b: the cells at the offsets
\* it computes from s.B.
Advanced(s, c, t) == Cell(c[1], c[2], c[3], Append(c[4], [tok |-> t, adapter |-> s.adapter]))

forward(s, toks) ==
  LET lane(i, B) == CHOOSE b \in 0..(B - 1) : \E l \in 0..(Layers - 1) :
                      i \in {Shift0At(B, l, b), Shift1At(B, l, b)}
  IN  [s EXCEPT
        !.effective_key = effective_model_key(s), !.advanced = TRUE, !.adapter_identity = s.adapter,
        !.shift = [i \in Cells |-> IF i < Layers * 2 * s.B THEN Advanced(s, @[i], toks[lane(i, s.B)])
                                   ELSE @[i]],
        !.wkv = [i \in Cells |-> IF i < Layers * s.B THEN Advanced(s, @[i], toks[i % s.B]) ELSE @[i]],
        !.elapsed = [i \in Cells |-> IF i < s.B THEN @[i] + 1 ELSE @[i]]]

\* The logits of the last token of every lane.
LogitsOf(s) ==
  [rows |-> s.B,
   values |-> [i \in Cells |-> IF i < s.B THEN s.wkv[WkvAt(s.B, Layers - 1, i)][4] ELSE <<>>]]

-----------------------------------------------------------------------------
\* copy_state_slice.

CopyCells(dst, src, pairs) ==
  [i \in Cells |-> IF \E p \in pairs : p[1] = i THEN src[(CHOOSE p \in pairs : p[1] = i)[2]]
                   ELSE dst[i]]

Slices(count) == (0..(Layers - 1)) \X (0..(count - 1))

\* Mutant: shift1 of the destination is found with the source's batch size.
ShiftPairsWrongBatch(S, so, D, do, count) ==
  {<<Shift0At(D, x[1], do + x[2]), Shift0At(S, x[1], so + x[2])>> : x \in Slices(count)}
    \cup {<<x[1] * 2 * D + S + do + x[2], Shift1At(S, x[1], so + x[2])>> : x \in Slices(count)}

ShiftPairs(S, so, D, do, count) ==
  {<<Shift0At(D, x[1], do + x[2]), Shift0At(S, x[1], so + x[2])>> : x \in Slices(count)}
    \cup {<<Shift1At(D, x[1], do + x[2]), Shift1At(S, x[1], so + x[2])>> : x \in Slices(count)}

WkvPairs(S, so, D, do, count) ==
  {<<WkvAt(D, x[1], do + x[2]), WkvAt(S, x[1], so + x[2])>> : x \in Slices(count)}

SliceRefused(src, so, dst, do, count) ==
  \/ src.B <= 0 \/ dst.B <= 0
  \/ so + count > src.B \/ do + count > dst.B
  \/ dst.advanced /\ (src.effective_key # dst.effective_key
                        \/ src.adapter_identity # dst.adapter_identity)

copy_state_slice(src, so, dst, do, count) ==
  [dst EXCEPT
     !.adapter = src.adapter, !.effective_key = src.effective_key,
     !.adapter_identity = src.adapter_identity, !.initial = src.initial, !.advanced = src.advanced,
     !.shift = CopyCells(@, src.shift, ShiftPairs(src.B, so, dst.B, do, count)),
     !.wkv = CopyCells(@, src.wkv, WkvPairs(src.B, so, dst.B, do, count)),
     !.elapsed = CopyCells(@, src.elapsed, {<<do + j, so + j>> : j \in 0..(count - 1)})]

copy_logits_slice(src, so, dst, do, count) ==
  [dst EXCEPT !.values = CopyCells(@, src.values, {<<do + j, so + j>> : j \in 0..(count - 1)})]

\* Rows of different requests share an execution state: the check of the
\* identities is bypassed by clearing `advanced`.
pack(src, from, dst, to) == copy_state_slice(src, from, [dst EXCEPT !.advanced = FALSE], to, 1)

\* The lane goes back and the request keeps its own identity.
export_row(own, slot, index) ==
  [pack(st[Group], slot, own, index) EXCEPT
     !.effective_key = own.effective_key, !.initial = own.initial,
     !.adapter_identity = own.adapter_identity, !.adapter = own.adapter]

-----------------------------------------------------------------------------
InGroup(r) == \E i \in DOMAIN rows : rows[i][1] = r
LaneIds(r) == 0..(Lanes[r] - 1)
Room(h) == Len(h.toks) < MaxTokens
Token(h, s, t) == [h EXCEPT !.toks = Append(@, [tok |-> t, adapter |-> s.adapter])]
NoLanes == [b \in Cells |-> NoLane]

Init ==
  /\ st = [id \in Ids |-> Empty] /\ lg = [id \in Ids |-> NoLogits]
  /\ rows = <<>> /\ hist = [id \in Ids |-> NoLanes] /\ refused = 0

\* A request makes its state (a zero one or one from a file) and binds the
\* adapter it asks for.
Create(r, initial, adapter) ==
  /\ st[r].B = 0
  /\ LET s == IF initial = "zero" THEN create_state(Lanes[r]) ELSE load_state_from_pth(initial, Lanes[r])
     IN  st' = [st EXCEPT ![r] = [s EXCEPT !.adapter = adapter, !.adapter_identity = adapter]]
  /\ hist' = [hist EXCEPT ![r] = [b \in Cells |-> [init |-> initial, toks |-> <<>>]]]
  /\ lg' = [lg EXCEPT ![r] = NoLogits]
  /\ UNCHANGED <<rows, refused>>

\* bind_adapter on a kept state, when a later turn names another adapter.
Bind(r, adapter) ==
  /\ st[r].B > 0 /\ ~ InGroup(r)
  /\ ~ (st[r].advanced /\ st[r].adapter_identity # adapter)
  /\ st' = [st EXCEPT ![r].adapter = adapter, ![r].adapter_identity = adapter]
  /\ UNCHANGED <<lg, rows, hist, refused>>

\* One chunk of the prompts: all lanes at once, or only the first n, whose
\* prompts are longer, through a state of their own.
Prefill(r, n) ==
  /\ st[r].B > 0 /\ ~ InGroup(r) /\ n \in 1..Lanes[r]
  /\ \A b \in LaneIds(r) : Room(hist[r][b])
  /\ ~ Refuses(st[r])
  /\ n < Lanes[r] => lg[r].rows = Lanes[r]
  /\ LET toks == [b \in Cells |-> <<r, b>>]
         sub  == forward(copy_state_slice(st[r], 0, create_state(n), 0, n), toks)
         full == forward(st[r], toks)
     IN  /\ n < Lanes[r] => ~ SliceRefused(sub, 0, st[r], 0, n)
         /\ st' = [st EXCEPT ![r] = IF n = Lanes[r] THEN full ELSE copy_state_slice(sub, 0, @, 0, n)]
         /\ lg' = [lg EXCEPT ![r] = IF n = Lanes[r] THEN LogitsOf(full)
                                    ELSE copy_logits_slice(LogitsOf(sub), 0, @, 0, n)]
  /\ hist' = [hist EXCEPT ![r] = [b \in Cells |-> IF b < n THEN Token(@[b], st[r], <<r, b>>) ELSE @[b]]]
  /\ UNCHANGED <<rows, refused>>

\* A prefill that throws, or a request that ends: its state is freed.
Release(r) ==
  /\ st[r].B > 0 /\ ~ InGroup(r)
  /\ st' = [st EXCEPT ![r] = Empty] /\ lg' = [lg EXCEPT ![r] = NoLogits]
  /\ hist' = [hist EXCEPT ![r] = NoLanes]
  /\ UNCHANGED <<rows, refused>>

\* rebuild: the rows that remain and those that join are packed into the spare.
LiveRows(i, joining) ==
  SubSeq(rows, 1, i - 1) \o SubSeq(rows, i + 1, Len(rows)) \o joining

Reused(n) == [st[Spare] EXCEPT !.B = n]

Packed(live) ==
  LET base == IF st[Group].B = 0 THEN create_state(Len(live)) ELSE Reused(Len(live))
      slot(row) == (CHOOSE i \in DOMAIN rows : rows[i] = row) - 1
      IsOld(row) == \E i \in DOMAIN rows : rows[i] = row
      from[k \in 0..Len(live)] ==
        IF k = 0 THEN base
        ELSE IF IsOld(live[k]) THEN pack(st[Group], slot(live[k]), from[k - 1], k - 1)
        ELSE pack(st[live[k][1]], live[k][2], from[k - 1], k - 1)
      source(k) == IF IsOld(live[k]) THEN <<Group, slot(live[k])>> ELSE live[k]
  IN  [state |-> from[Len(live)],
       logits |-> [rows |-> Len(live),
                   values |-> [i \in Cells |-> IF i < Len(live)
                                 THEN lg[source(i + 1)[1]].values[source(i + 1)[2]] ELSE <<>>]],
       hist |-> [i \in Cells |-> IF i < Len(live) THEN hist[source(i + 1)[1]][source(i + 1)[2]] ELSE NoLane]]

Install(live, s, l, h) ==
  /\ rows' = live
  /\ IF live = <<>>
     THEN /\ st' = [s EXCEPT ![Group] = Empty] /\ lg' = [l EXCEPT ![Group] = NoLogits]
          /\ hist' = [h EXCEPT ![Group] = NoLanes]
     ELSE LET p == Packed(live) IN
          /\ st' = [s EXCEPT ![Group] = p.state, ![Spare] = st[Group]]
          /\ lg' = [l EXCEPT ![Group] = p.logits]
          /\ hist' = [h EXCEPT ![Group] = p.hist, ![Spare] = hist[Group]]

\* A row leaves the group.
Leave(i) ==
  /\ i \in DOMAIN rows
  /\ LET r == rows[i][1]
         b == rows[i][2]
     IN  Install(LiveRows(i, <<>>),
                 [st EXCEPT ![r] = export_row(@, i - 1, b)],
                 [lg EXCEPT ![r] = copy_logits_slice(lg[Group], i - 1, @, b, 1)],
                 [hist EXCEPT ![r][b] = hist[Group][i - 1]])
  /\ UNCHANGED refused

\* A row joins: its request has been prefilled, and its adapter is the group's.
Join(r, b) ==
  /\ st[r].B > 0 /\ lg[r].rows = Lanes[r] /\ b \in LaneIds(r)
  /\ Len(rows) < MaxRows /\ <<r, b>> \notin {rows[i] : i \in DOMAIN rows}
  /\ \A i \in DOMAIN rows : st[rows[i][1]].adapter_identity = st[r].adapter_identity
  /\ Install(LiveRows(Len(rows) + 1, << <<r, b>> >>), st, lg, hist)
  /\ UNCHANGED refused

\* One token for every row of the group.
Decode ==
  /\ rows # <<>>
  /\ \A i \in DOMAIN rows : Room(hist[Group][i - 1])
  /\ LET toks == [b \in Cells |-> IF b + 1 \in DOMAIN rows THEN rows[b + 1] ELSE <<>>]
         s    == forward(st[Group], toks)
     IN  IF Refuses(st[Group])
         THEN refused' = 1 /\ UNCHANGED <<st, lg, hist>>
         ELSE /\ st' = [st EXCEPT ![Group] = s] /\ lg' = [lg EXCEPT ![Group] = LogitsOf(s)]
              /\ hist' = [hist EXCEPT ![Group] =
                   [b \in Cells |-> IF b < s.B THEN Token(@[b], st[Group], toks[b]) ELSE @[b]]]
              /\ UNCHANGED refused
  /\ UNCHANGED rows

Next ==
  \/ \E r \in Requests, initial \in Initials, a \in Adapters : Create(r, initial, a)
  \/ \E r \in Requests, a \in Adapters : Bind(r, a)
  \/ \E r \in Requests : Release(r) \/ \E n \in 1..Lanes[r] : Prefill(r, n)
  \/ \E r \in Requests : \E b \in LaneIds(r) : Join(r, b)
  \/ \E i \in DOMAIN rows : Leave(i)
  \/ Decode

Spec == Init /\ [][Next]_vars

-----------------------------------------------------------------------------
LiveIds == {id \in Requests \cup {Group} : st[id].B > 0}

TypeOK ==
  /\ \A r \in Requests : st[r].B \in {0, Lanes[r]} /\ st[r].advanced \in BOOLEAN
  /\ st[Group].B = Len(rows) /\ lg[Group].rows = Len(rows)
  /\ \A i \in DOMAIN rows : rows[i][1] \in Requests /\ rows[i][2] \in LaneIds(rows[i][1])
  /\ refused \in {0, 1}

\* A lane is one history: however often it was copied between states of
\* different batch sizes, the cells found at its offsets (both shifts and the
\* recurrence of every layer, the elapsed tokens) are all its own and all of
\* the same moment.
LaneIsOneHistory ==
  \A id \in LiveIds : \A b \in 0..(st[id].B - 1) :
    LET h == hist[id][b] IN
    /\ \A l \in 0..(Layers - 1) :
         /\ st[id].shift[Shift0At(st[id].B, l, b)] = Cell("shift0", l, "zero", h.toks)
         /\ st[id].shift[Shift1At(st[id].B, l, b)] = Cell("shift1", l, "zero", h.toks)
         /\ st[id].wkv[WkvAt(st[id].B, l, b)] = Cell("wkv", l, h.init, h.toks)
    /\ st[id].elapsed[b] = Len(h.toks)

\* "Identity remains attached to each request, never to a physical slot": the
\* key a request's state carries names the initial state and the adapter every
\* one of its tokens was computed from, after any number of turns in a group
\* with requests that started from other states.
KeyNamesHistory ==
  \A r \in Requests : st[r].B > 0 /\ st[r].advanced =>
    /\ st[r].effective_key = <<st[r].adapter_identity, st[r].initial>>
    /\ \A b \in LaneIds(r) :
         /\ hist[r][b].init = st[r].initial
         /\ \A i \in DOMAIN hist[r][b].toks : hist[r][b].toks[i].adapter = st[r].adapter_identity

\* The rows of a state and of its logits are of the same moment: what is
\* sampled next continues what the state has seen.
LogitsFollowState ==
  \A id \in LiveIds : lg[id].rows > 0 =>
    \A b \in 0..(st[id].B - 1) : lg[id].values[b] = hist[id][b].toks

\* Packing never leaves the group with a key its own forward refuses, which
\* would fail every request in it.
DecodeIsAccepted == refused = 0
=============================================================================
