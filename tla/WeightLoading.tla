--------------------------- MODULE WeightLoading ---------------------------
(***************************************************************************)
(* Loading a checkpoint to the device (src/src/backend/rwkv7_fast_v4.cu).  *)
(*                                                                         *)
(* The host thread runs a straight line of calls: it allocates tensors,    *)
(* sends them through a pipeline of two slots (pinned host buffer, device  *)
(* staging buffer, a copy stream, a compute stream, two events), launches  *)
(* the derived transposed copies on the default stream, and publishes the  *)
(* layers.  That line is data here: program is the sequence of calls that  *)
(* load_model_weights makes, pc the next one.  The streams run beside      *)
(* the host: each is a queue whose head the device may carry out at any    *)
(* time, so a buffer that is used again too early is read too late.        *)
(*                                                                         *)
(* A tensor's element is abstracted to the place it was read from, <<tensor*)
(* , index>>; converting bfloat16 to half keeps the place.  One tensor of  *)
(* each kind stands for the thirty of a layer.                             *)
(***************************************************************************)
EXTENDS Integers, Sequences, FiniteSets, FiniteSetsExt, SequencesExt

CONSTANTS
  Layers,               \* ModelDims::layers
  ChunkLoadLayerBatch,  \* kChunkLoadLayerBatch
  ChunkElems,           \* kWeightLoadChunkBytes / sizeof(uint16_t)
  Vocab, Channels, Ffn, \* the other dimensions
  Modes,                \* the kinds of archive: "mmap", "chunk", "quant"
  Damages,              \* what can be wrong with one tensor's record
  NONE

DimsAssumption ==
  /\ {Layers, ChunkLoadLayerBatch, ChunkElems, Vocab, Channels, Ffn}
       \subseteq Nat \ {0}
  /\ Modes \subseteq {"mmap", "chunk", "quant"}
  /\ Damages \subseteq {"missing", "dtype", "stride", "entry", "range", "read"}

-----------------------------------------------------------------------------
\* Tensors: <<layer, suffix>>, the global ones under layer Layers.

Required == <<"ln1.weight", "att.key.weight", "att.w1", "ffn.value.weight">>

Globals == <<<<Layers, "ln_out.weight">>, <<Layers, "head.weight">>>>

\* The records a layer must have, in the order they are visited.
for_each_layer_source_tensor(layer) ==
  LET suffixes == (IF layer = 0 THEN <<"ln0.weight">> ELSE <<>>)
                    \o Required
                    \o (IF layer > 0 THEN <<"att.v1">> ELSE <<>>)
  IN  [i \in 1..Len(suffixes) |-> <<layer, suffixes[i]>>]

\* The low-rank matrices of a layer that get a transposed copy.
for_each_layer_t_copy(layer) ==
  <<<<layer, "att.w1">>>>
    \o (IF layer > 0 THEN <<<<layer, "att.v1">>>> ELSE <<>>)

Shape(t) ==
  CASE t[2] \in {"ln0.weight", "ln1.weight", "ln_out.weight"} -> <<Channels>>
    [] t[2] = "att.key.weight"             -> <<Channels, Channels>>
    [] t[2] \in {"att.w1", "att.v1"}       -> <<Channels, 1>>
    [] t[2] = "ffn.value.weight"           -> <<Channels, Ffn>>
    [] OTHER                               -> <<Vocab, Channels>>

numel(shape) == IF Len(shape) = 1 THEN shape[1] ELSE shape[1] * shape[2]

\* Of the matrices only ffn.value.weight is kept transposed: the att, ffn.key
\* and head matrices keep the layout of the file.
should_transpose(t) == t[2] = "ffn.value.weight"

\* How a quantized archive of scheme "i8" or "i4" stores each tensor: the
\* large matrices quantized, the others as bfloat16.
QuantDType(q, t) ==
  IF t[2] \in {"ffn.value.weight", "head.weight", "att.key.weight"}
  THEN q ELSE "bf16"

LayersFrom(first, last) == [i \in 1..(last - first) |-> first + i - 1]

AllTensors == ToSet(Globals) \cup
  UNION {ToSet(for_each_layer_source_tensor(l)) : l \in 0..(Layers - 1)}

\* The transposed copy of a tensor has a name of its own.
TCopy(t) == <<t[1], t[2], "t">>

TCopies == {TCopy(t) : t \in UNION {ToSet(for_each_layer_t_copy(l)) :
                                      l \in 0..(Layers - 1)}}

EmbTensor == <<Layers, "emb.weight">>

-----------------------------------------------------------------------------
\* Contents.  Element i of the file's tensor is <<t, i>>.

\* The file's elements first .. first + n - 1 (0-based).
Range0(t, first, n) == [i \in 1..n |-> <<t, first + i - 1>>]

\* Where element i (0-based, of a rows x cols matrix) lands when transposed.
TransposedIndex(i, rows, cols) == (i % cols) * rows + (i \div cols)

\* What a buffer holds at place i; nothing beyond what was written to it.
At(buffer, i) == IF i \in DOMAIN buffer THEN buffer[i] ELSE NONE

\* `mem' with what one preprocess kernel writes from a staging buffer: at an
\* offset, or, transposing, `n' elements that start at row `row'.
Preprocess(mem, k, staging) ==
  LET shape == Shape(k.t)
  IN  [j \in DOMAIN mem |->
         IF k.transpose
         THEN LET src == {i \in 0..(k.n - 1) :
                            TransposedIndex(i + k.off, shape[1], shape[2]) = j}
              IN  IF src = {} THEN mem[j]
                  ELSE At(staging, (CHOOSE i \in src : TRUE) + 1)
         ELSE IF j >= k.off /\ j < k.off + k.n
              THEN At(staging, j - k.off + 1) ELSE mem[j]]

\* rwkv7_v4_f16_transpose_launch: dst from src, rows x cols of src.
TransposeInto(src, rows, cols) ==
  [j \in DOMAIN src |->
     src[CHOOSE i \in DOMAIN src : TransposedIndex(i, rows, cols) = j]]

-----------------------------------------------------------------------------
\* The host's program.

Call(op, t, off, n) == [op |-> op, t |-> t, off |-> off, n |-> n]

Simple(op) == Call(op, <<0, "">>, 0, 0)

MaxOf(a, b) == IF a > b THEN a ELSE b
MinOf(a, b) == IF a < b THEN a ELSE b

\* Cut `total' rows (or elements) into pieces of at most `step'.
Pieces(total, step) ==
  [i \in 1..((total + step - 1) \div step) |->
     [off |-> (i - 1) * step, n |-> MinOf(step, total - (i - 1) * step)]]

\* The calls F makes for each of a sequence's members, one after another.
ForEach(F(_), seq) == FoldLeft(LAMBDA calls, x : calls \o F(x), <<>>, seq)

\* upload_tensor_f16_like_v3a: one call per chunk, whole rows of a matrix that
\* is transposed, elements of one that is not; the whole tensor when the file
\* is mapped.
upload_tensor(m, t) ==
  LET shape == Shape(t)
      all   == numel(shape)
      cols  == shape[Len(shape)]
  IN  IF m # "chunk" THEN <<Call("upload", t, 0, all)>>
      ELSE IF should_transpose(t)
      THEN ForEach(LAMBDA p : <<Call("upload", t, p.off * cols, p.n * cols)>>,
                   Pieces(shape[1], MaxOf(1, ChunkElems \div cols)))
      ELSE ForEach(LAMBDA p : <<Call("upload", t, p.off, p.n)>>,
                   Pieces(all, ChunkElems))

Each(op, ts) == ForEach(LAMBDA t : <<Call(op, t, 0, 0)>>, ts)

UploadEach(m, ts) == ForEach(LAMBDA t : upload_tensor(m, t), ts)

load_globals(m) ==
  IF m = "mmap"
  THEN ForEach(LAMBDA t : Each("allocate", <<t>>) \o UploadEach(m, <<t>>),
               Globals)
  ELSE Each("allocate", Globals) \o UploadEach(m, Globals)

\* Mutant: the copies are launched without waiting for the pipeline.
LayerBatchWithoutSync(m, ls) ==
  Each("allocate", ForEach(for_each_layer_source_tensor, ls))
    \o UploadEach(m, ForEach(for_each_layer_source_tensor, ls))
    \o Each("allocate_t", ForEach(for_each_layer_t_copy, ls))
    \o Each("launch_t", ForEach(for_each_layer_t_copy, ls))
    \o <<Simple("device_sync")>>
    \o ForEach(LAMBDA l : <<Call("push_view", <<l, "">>, 0, 0)>>, ls)

\* One batch of layers.
LayerBatch(m, ls) ==
  Each("allocate", ForEach(for_each_layer_source_tensor, ls))
    \o UploadEach(m, ForEach(for_each_layer_source_tensor, ls))
    \o (IF m = "quant" THEN <<>> ELSE <<Simple("sync")>>)
    \o Each("allocate_t", ForEach(for_each_layer_t_copy, ls))
    \o Each("launch_t", ForEach(for_each_layer_t_copy, ls))
    \o <<Simple("device_sync")>>
    \o ForEach(LAMBDA l : <<Call("push_view", <<l, "">>, 0, 0)>>, ls)

\* The embedding rows, normalised by ln0 and brought back to the host.
build_cpu_emb_ln0(m) ==
  LET step == IF m = "mmap" THEN Vocab
                ELSE MaxOf(1, ChunkElems \div Channels)
  IN  ForEach(LAMBDA p : <<Call("emb", EmbTensor, p.off, p.n)>>,
              Pieces(Vocab, step))

LayerBatches(m) ==
  LET step == IF m = "chunk" THEN ChunkLoadLayerBatch ELSE 1
  IN  ForEach(LAMBDA p : LayerBatch(m, LayersFrom(p.off, p.off + p.n)),
              Pieces(Layers, step))

load_model_weights(m) ==
  (IF m = "mmap" THEN load_globals(m) ELSE <<>>)
    \o LayerBatches(m)
    \o (IF m = "chunk" THEN load_globals(m) ELSE <<>>)
    \o <<Simple("sync"), Simple("release_buffers"), Simple("device_sync"),
         Simple("build_global_view")>>
    \o build_cpu_emb_ln0(m)

load_quantized_model_weights(m) ==
  load_globals(m) \o LayerBatches(m) \o <<Simple("build_global_view")>>
    \o build_cpu_emb_ln0(m)

Program(m) ==
  (IF m = "quant" THEN load_quantized_model_weights(m) ELSE load_model_weights(m))
    \o <<Simple("return")>>

-----------------------------------------------------------------------------
\* The state: the host's place in its program, the tensors it owns, the two
\* slots, and the streams.

Slots == 0..1

VARIABLES
  mode, scheme, damage,   \* the archive: its kind, its quantization, its defect
  program,                \* the calls the host makes for it
  pc, status,             \* the host: the next call; loading, loaded, exited
  tensors,                \* CudaWeights::tensors
  layers,                 \* CudaWeights::layers: the layers published so far
  emb,                    \* CudaWeights::cpu_emb_ln0_f16, by row
  next, slot,             \* WeightLoadPipeline
  copyq, computeq,        \* the slots' streams
  defaultq                \* the default stream

vars == <<mode, scheme, damage, program, pc, status, tensors, layers, emb, next, slot,
          copyq, computeq, defaultq>>

archive == <<mode, scheme, damage, program>>
streams == <<copyq, computeq, defaultq>>

EmptySlot(cap) == [host |-> <<>>, staging |-> <<>>, cap |-> cap,
                   in_flight |-> FALSE, issued |-> 0, copied |-> 0]

Init ==
  /\ mode \in Modes
  /\ scheme \in (IF mode = "quant" THEN {"i8", "i4"} ELSE {"i8"})
  /\ damage \in {NONE} \cup (AllTensors \X
       (IF mode = "quant" THEN Damages \cap {"missing", "read"} ELSE Damages))
  /\ program = Program(mode)
  /\ pc = 1
  /\ status = "loading"
  /\ tensors = [t \in AllTensors \cup TCopies |-> NONE]
  /\ layers = <<>>
  /\ emb = [r \in 0..(Vocab - 1) |-> NONE]
  /\ next = 0
  /\ slot = [s \in Slots |-> EmptySlot(IF mode = "chunk" THEN ChunkElems ELSE 0)]
  /\ copyq = [s \in Slots |-> <<>>]
  /\ computeq = [s \in Slots |-> <<>>]
  /\ defaultq = <<>>

Reached(op) == status = "loading" /\ program[pc].op = op

Cur == program[pc]

Done == pc' = pc + 1 /\ UNCHANGED <<archive, status>>

\* std::exit(1): the process and its device context are gone.
Exit ==
  /\ status' = "exited"
  /\ UNCHANGED <<archive, pc, tensors, layers, emb, next, slot, streams>>

\* The streams have nothing left to do.
PipelineIdle == \A s \in Slots : slot[s].in_flight => computeq[s] = <<>>

DeviceIdle ==
  /\ \A s \in Slots : copyq[s] = <<>> /\ computeq[s] = <<>>
  /\ defaultq = <<>>

\* The shape a tensor is given: that of its transposed layout, if the loader
\* will transpose it.
RuntimeShape(t) ==
  LET kept == mode = "quant" /\ QuantDType(scheme, t) = "i4"
  IN  IF should_transpose(t) /\ ~kept
      THEN <<Shape(t)[2], Shape(t)[1]>> ELSE Shape(t)

Blank(shape) == [j \in 0..(numel(shape) - 1) |-> NONE]

Tensor(shape, data) == [shape |-> shape, data |-> data]

\* CudaWeights::allocate.
Allocate ==
  /\ Reached("allocate")
  /\ \/ /\ damage = <<Cur.t, "missing">>
        /\ Exit
     \/ /\ damage # <<Cur.t, "missing">>
        /\ tensors' = [tensors EXCEPT ![Cur.t] =
                         Tensor(RuntimeShape(Cur.t), Blank(Shape(Cur.t)))]
        /\ Done
        /\ UNCHANGED <<layers, emb, next, slot, streams>>

\* tensor_storage_source refuses a record; a record with a bad range of the
\* file may also be found out by the read itself.
Refused(t) == damage # NONE /\ damage[1] = t /\ damage[2] # "read"

ReadMayFail(t) == damage = <<t, "read">>

\* WeightLoadPipeline::acquire: the slot the call may use once the work that
\* was given to it is done, its buffers grown to n elements.
acquire(s, n) ==
  [slot[s] EXCEPT !.in_flight = FALSE, !.cap = MaxOf(slot[s].cap, n)]

CanAcquire(s) == slot[s].in_flight => computeq[s] = <<>>

\* What one upload call leaves on the slot's streams: a copy to the staging
\* buffer, and a kernel that waits for that copy.
Issue(s, t, off, n) ==
  /\ copyq' = [copyq EXCEPT ![s] = Append(@, [t |-> t, off |-> off, n |-> n])]
  /\ computeq' = [computeq EXCEPT ![s] =
       Append(@, [t |-> t, off |-> off, n |-> n,
                  transpose |-> should_transpose(t),
                  after |-> slot[s].issued + 1])]
  /\ next' = 1 - next
  /\ UNCHANGED defaultq

\* A chunk of a tensor: read into the slot's pinned buffer and sent on.
UploadChunk ==
  /\ Reached("upload") /\ mode = "chunk"
  /\ ~Refused(Cur.t)
  /\ CanAcquire(next)
  /\ LET s == acquire(next, Cur.n)
     IN  slot' = [slot EXCEPT ![next] =
           [s EXCEPT !.host = Range0(Cur.t, Cur.off, Cur.n),
                     !.in_flight = TRUE, !.issued = @ + 1]]
  /\ Issue(next, Cur.t, Cur.off, Cur.n)
  /\ Done
  /\ UNCHANGED <<tensors, layers, emb>>

\* A whole tensor, copied straight from the mapped file.
UploadMapped ==
  /\ Reached("upload") /\ mode = "mmap"
  /\ ~Refused(Cur.t)
  /\ CanAcquire(next)
  /\ slot' = [slot EXCEPT ![next] =
       [acquire(next, Cur.n) EXCEPT !.in_flight = TRUE, !.issued = @ + 1]]
  /\ Issue(next, Cur.t, Cur.off, Cur.n)
  /\ Done
  /\ UNCHANGED <<tensors, layers, emb>>

\* load_quantized_tensor: copies on the default stream and synchronizes before
\* it returns.  INT4 keeps the file's layout, INT8 and floats are transposed.
UploadQuantized ==
  /\ Reached("upload") /\ mode = "quant"
  /\ ~Refused(Cur.t)
  /\ defaultq = <<>>
  /\ LET file == Range0(Cur.t, 0, Cur.n)
         k    == [t |-> Cur.t, off |-> 0, n |-> Cur.n,
                  transpose |-> should_transpose(Cur.t)
                                  /\ QuantDType(scheme, Cur.t) # "i4"]
     IN  tensors' = [tensors EXCEPT ![Cur.t].data = Preprocess(@, k, file)]
  /\ Done
  /\ UNCHANGED <<layers, emb, next, slot, streams>>

\* A record the loader refuses, or a read that fails, ends the process.
UploadRefused ==
  /\ Reached("upload")
  /\ Refused(Cur.t) \/ ReadMayFail(Cur.t)
  /\ Exit

\* WeightLoadPipeline::sync.
Sync ==
  /\ Reached("sync")
  /\ PipelineIdle
  /\ slot' = [s \in Slots |-> [slot[s] EXCEPT !.in_flight = FALSE]]
  /\ Done
  /\ UNCHANGED <<tensors, layers, emb, next, streams>>

\* WeightLoadPipeline::release_buffers.
ReleaseBuffers ==
  /\ Reached("release_buffers")
  /\ PipelineIdle
  /\ slot' = [s \in Slots |-> [slot[s] EXCEPT !.in_flight = FALSE, !.cap = 0,
                                             !.host = <<>>, !.staging = <<>>]]
  /\ Done
  /\ UNCHANGED <<tensors, layers, emb, next, streams>>

AllocateTCopy ==
  /\ Reached("allocate_t")
  /\ LET shape == tensors[Cur.t].shape
     IN  tensors' = [tensors EXCEPT ![TCopy(Cur.t)] =
                       Tensor(<<shape[2], shape[1]>>, Blank(shape))]
  /\ Done
  /\ UNCHANGED <<layers, emb, next, slot, streams>>

LaunchTCopy ==
  /\ Reached("launch_t")
  /\ defaultq' = Append(defaultq, Cur.t)
  /\ Done
  /\ UNCHANGED <<tensors, layers, emb, next, slot, copyq, computeq>>

\* cudaDeviceSynchronize.
DeviceSync ==
  /\ Reached("device_sync")
  /\ DeviceIdle
  /\ Done
  /\ UNCHANGED <<tensors, layers, emb, next, slot, streams>>

\* layer_view: pointers to the layer's tensors, all of which must be there.
PushView ==
  /\ Reached("push_view")
  /\ \A t \in ToSet(for_each_layer_source_tensor(Cur.t[1])) : tensors[t] # NONE
  /\ \A t \in ToSet(for_each_layer_t_copy(Cur.t[1])) : tensors[TCopy(t)] # NONE
  /\ layers' = Append(layers, Cur.t[1])
  /\ Done
  /\ UNCHANGED <<tensors, emb, next, slot, streams>>

BuildGlobalView ==
  /\ Reached("build_global_view")
  /\ \A i \in DOMAIN Globals : tensors[Globals[i]] # NONE
  /\ Done
  /\ UNCHANGED <<tensors, layers, emb, next, slot, streams>>

\* One chunk of embedding rows; every copy is synchronous on the default stream.
EmbChunk ==
  /\ Reached("emb")
  /\ defaultq = <<>>
  /\ emb' = [r \in DOMAIN emb |->
               IF r >= Cur.off /\ r < Cur.off + Cur.n
               THEN <<EmbTensor, r>> ELSE emb[r]]
  /\ Done
  /\ UNCHANGED <<tensors, layers, next, slot, streams>>

Return ==
  /\ Reached("return")
  /\ status' = "loaded"
  /\ UNCHANGED <<archive, pc, tensors, layers, emb, next, slot, streams>>

-----------------------------------------------------------------------------
\* The device.

\* The copy engine moves the pinned buffer, or the mapped file, to staging.
CopyStep(s) ==
  /\ status = "loading" /\ copyq[s] # <<>>
  /\ LET c    == Head(copyq[s])
         from == IF mode = "chunk" THEN slot[s].host ELSE Range0(c.t, c.off, c.n)
     IN  slot' = [slot EXCEPT ![s].copied = @ + 1,
                              ![s].staging = [i \in 1..c.n |-> At(from, i)]]
  /\ copyq' = [copyq EXCEPT ![s] = Tail(@)]
  /\ UNCHANGED <<archive, pc, status, tensors, layers, emb, next, computeq, defaultq>>

\* A preprocess kernel, once the event it waits for has happened.
ComputeReady(s) == Head(computeq[s]).after <= slot[s].copied

ComputeStep(s) ==
  /\ status = "loading" /\ computeq[s] # <<>>
  /\ ComputeReady(s)
  /\ LET k == Head(computeq[s])
     IN  tensors' = [tensors EXCEPT ![k.t].data =
                       Preprocess(@, k, slot[s].staging)]
  /\ computeq' = [computeq EXCEPT ![s] = Tail(@)]
  /\ UNCHANGED <<archive, pc, status, layers, emb, next, slot, copyq, defaultq>>

\* A transposed copy, on the default stream: the slots' streams are created
\* non-blocking, so it does not wait for them.
DefaultStep ==
  /\ status = "loading" /\ defaultq # <<>>
  /\ LET t   == Head(defaultq)
         src == tensors[t]
     IN  tensors' = [tensors EXCEPT ![TCopy(t)].data =
                       TransposeInto(src.data, src.shape[1], src.shape[2])]
  /\ defaultq' = Tail(defaultq)
  /\ UNCHANGED <<archive, pc, status, layers, emb, next, slot, copyq, computeq>>

-----------------------------------------------------------------------------
Host ==
  \/ Allocate \/ UploadChunk \/ UploadMapped \/ UploadQuantized
  \/ UploadRefused \/ Sync \/ ReleaseBuffers \/ AllocateTCopy \/ LaunchTCopy
  \/ DeviceSync \/ PushView \/ BuildGlobalView \/ EmbChunk \/ Return

Device ==
  \/ \E s \in Slots : CopyStep(s) \/ ComputeStep(s)
  \/ DefaultStep

\* The process ends with the load returned or given up.
Ended == status # "loading" /\ UNCHANGED vars

Next == Host \/ Device \/ Ended

\* The host thread keeps running and the device makes progress on each stream.
Fairness ==
  /\ WF_vars(Host)
  /\ WF_vars(DefaultStep)
  /\ \A s \in Slots : WF_vars(CopyStep(s)) /\ WF_vars(ComputeStep(s))

Spec == Init /\ [][Next]_vars /\ Fairness

-----------------------------------------------------------------------------
\* Properties.

TypeOK ==
  /\ mode \in Modes
  /\ status \in {"loading", "loaded", "exited"}
  /\ pc \in 1..Len(program)
  /\ next \in Slots
  /\ \A s \in Slots : slot[s].in_flight \in BOOLEAN /\ slot[s].cap \in Nat
  /\ \A i \in DOMAIN layers : layers[i] \in 0..(Layers - 1)

\* What a finished tensor holds: the file's elements, in the file's order or
\* transposed, as its shape says.
IsWhole(t) ==
  /\ tensors[t] # NONE
  /\ LET shape == Shape(t)
     IN  \A i \in 0..(numel(shape) - 1) :
           LET j == IF tensors[t].shape = shape THEN i
                    ELSE TransposedIndex(i, shape[1], shape[2])
           IN  tensors[t].data[j] = <<t, i>>

IsTransposedCopy(t) ==
  /\ tensors[TCopy(t)] # NONE
  /\ \A i \in 0..(numel(Shape(t)) - 1) :
       tensors[TCopy(t)].data[TransposedIndex(i, Shape(t)[1], Shape(t)[2])]
         = <<t, i>>

\* A layer is published (layer_view, weights.layers.push_back) only when each
\* of its tensors, and each derived copy, is complete on the device, and stays
\* so: no chunk was overwritten in its slot before it was converted, no copy was
\* made of a tensor still in flight.
PublishedLayerIsWhole ==
  \A l \in ToSet(layers) :
    /\ \A t \in ToSet(for_each_layer_source_tensor(l)) : IsWhole(t)
    /\ \A t \in ToSet(for_each_layer_t_copy(l)) : IsTransposedCopy(t)

\* When load_model_weights returns, every layer was published once, in order,
\* the global tensors are complete, every row of the embedding table was
\* written, and no stream still has work.
LoadedModelIsWhole ==
  status = "loaded" =>
    /\ layers = LayersFrom(0, Layers)
    /\ \A i \in DOMAIN Globals : IsWhole(Globals[i])
    /\ \A r \in DOMAIN emb : emb[r] = <<EmbTensor, r>>
    /\ DeviceIdle

\* No copy is issued into a pinned or staging buffer smaller than it: a row wider
\* than a chunk makes acquire_chunk grow the slot.
CopiesFitTheSlot ==
  \A s \in Slots : \A i \in DOMAIN copyq[s] : copyq[s][i].n <= slot[s].cap

\* A checkpoint with a missing or unusable tensor never yields a loaded model.
DamagedNeverLoads ==
  (damage # NONE /\ damage[2] # "read") => status # "loaded"

=============================================================================
