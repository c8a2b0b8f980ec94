------------------------------ MODULE MCEngine ------------------------------
(***************************************************************************)
(* A generation through the engine: its admission to prefill, the draw of a*)
(* token, the text and stops of its output; and the device side: how weights*)
(* are loaded, which kernel a product takes, what a forward pass does with *)
(* its buffers, and the kernels themselves. Each part is a behaviour of its*)
(* own; Parts names those of a run.                                        *)
(***************************************************************************)
EXTENDS PrefillAdmission, TLC

CONSTANTS Parts, None

VARIABLES
  part,
  chunk_size, text, pending, buffered_tokens, stop_tail, matched, text_out,
  finished,
  sampler_kernel, probs, top_k, top_p, left, right, cnt, mass, rounds,
  sampler_pc, weight, cumu, idxt, sampler_out,
  mode, scheme, damage, program, load_pc, status, tensors, layers, emb, next,
  slot, copyq, computeq, defaultq,
  case, T, mem, ptr, pre_mix_ready, layer, forward_pc, calls,
  linear_call, refused, linear_out, linear_faults,
  run, dispatch_call,
  shape, shift, last, done, kind, norm_out, norm_faults,
  reduce_pc, arrived, reduce_call, x, partial, returned,
  w8_call, w8_launch,
  pipe_launch, phase, todo, block, pipe_warp, stages, reduction, scratch,
  pipe_y,
  tile_kernel, tile_warp, x_tile, weight_tile, q_storage, output_tile, tile_y

\* A request of two that excludes the others, and two that fit beside each other,
\* one of them for no rows, which counts as one.
AdmissionBatch == [big |-> 2, small |-> 1, empty |-> 0]
AdmissionCapacities == {-1, 1, 2}

\* "A", a lead byte of two, those of three and four with a rule of their own,
\* two continuation bytes on either side of those rules, and no byte of UTF-8.
TextBytes == {65, 195, 224, 237, 240, 244, 143, 160, 255}
\* Within a character, over several, and one that hides a longer one.
TextStops == <<<<160, 65, 65>>, <<65, 65>>, <<195, 160, 195>>>>

\* A model of three layers at the widths where the paths part.
ForwardAdapters ==
  {{}, (0..2) \X (0..5), {<<1, 5>>, <<0, 2>>}, {<<0, 5>>, <<1, 0>>, <<1, 1>>}}
ForwardCases ==
  [C : {768, 2048, 4096}, kind : {"f16", "int8", "int4"}, wkv32 : BOOLEAN,
   cmix_sparse : {"no-fc", "off"}, adapter : ForwardAdapters, by_layer : {<<>>, <<16>>},
   max_rows : {2}]

\* Batches on either side of every bound of the dispatch.
DispatchBatches ==
  {1, 2, 3, 4, 5, 6, 7, 8, 11, 12, 24, 32, 48, 63, 64, 72, 80, 96, 111, 112,
   127, 128, 160, 192, 256, 384, 512, 768, 1024}

\* Tokens of one or two bytes of every kind that utf8.hpp tells apart.
Text == INSTANCE TextAssembly WITH
  Bytes <- TextBytes, Stops <- TextStops, ChunkSizes <- {0, 1, 2},
  MaxToken <- 2, MaxText <- 5, out <- text_out
ASSUME Text!TextAssumption

textVars ==
  <<chunk_size, text, pending, buffered_tokens, stop_tail, matched, text_out,
    finished>>
textOff ==
  /\ chunk_size = None /\ text = None /\ pending = None /\ buffered_tokens = None
  /\ stop_tail = None /\ matched = None /\ text_out = None /\ finished = None

\* Exact sums; limits on either side of every boundary.
Draw == INSTANCE Sampler WITH
  WarpSize <- 2, Threads <- 4, Vec <- 2, V <- 10, Values <- {0, 6, 18},
  One <- 24, Slack <- 0, Mantissa <- 16, TopKs <- {0, 1, 3, 11},
  TopPs <- {0, 5, 20, 25}, Kernels <- {"rows", "topk", "topp"},
  kernel <- sampler_kernel, pc <- sampler_pc, out <- sampler_out
ASSUME Draw!SamplerAssumption
ASSUME Draw!WarpSizeAssumption

\* Sums of two bits, of probabilities that do not quite add up.
Rounding == INSTANCE Sampler WITH
  WarpSize <- 4, Threads <- 8, Vec <- 1, V <- 8, Values <- {0, 1, 5},
  One <- 9, Slack <- 2, Mantissa <- 2, TopKs <- {3, 8}, TopPs <- {4, 8},
  Kernels <- {"rows"}, kernel <- sampler_kernel, pc <- sampler_pc,
  out <- sampler_out
ASSUME Rounding!SamplerAssumption
ASSUME Rounding!WarpSizeAssumption

samplerVars ==
  <<sampler_kernel, probs, top_k, top_p, left, right, cnt, mass, rounds,
    sampler_pc, weight, cumu, idxt, sampler_out>>
samplerOff ==
  /\ sampler_kernel = None /\ probs = None /\ top_k = None /\ top_p = None
  /\ left = None /\ right = None /\ cnt = None /\ mass = None /\ rounds = None
  /\ sampler_pc = None /\ weight = None /\ cumu = None /\ idxt = None
  /\ sampler_out = None

\* Tensors longer than a chunk and a last batch of layers that is not full.
Load == INSTANCE WeightLoading WITH
  Layers <- 3, ChunkLoadLayerBatch <- 2, ChunkElems <- 2, Vocab <- 3,
  Channels <- 2, Ffn <- 3, Modes <- {"mmap", "chunk", "quant"},
  Damages <- {"missing", "range", "read"}, NONE <- None, pc <- load_pc
ASSUME Load!DimsAssumption

loadVars ==
  <<mode, scheme, damage, program, load_pc, status, tensors, layers, emb,
    next, slot, copyq, computeq, defaultq>>
loadOff ==
  /\ mode = None /\ scheme = None /\ damage = None /\ program = None /\ load_pc = None
  /\ status = None /\ tensors = None /\ layers = None /\ emb = None /\ next = None
  /\ slot = None /\ copyq = None /\ computeq = None /\ defaultq = None

\* Two forward passes of one state.
Forward == INSTANCE ForwardPass WITH
  Layers <- 3, Cases <- ForwardCases, Batches <- {1, 3},
  Lengths <- {1, 2, 5, 17}, MaxCalls <- 2, LowrankInRowsT <- 7,
  LowrankOutRowsT <- 4, LowrankFusedMinC <- 1024, LowrankMax <- 512,
  Vocab <- 65536, ShortSequence <- 16, pc <- forward_pc
ASSUME Forward!ForwardAssumption

forwardVars ==
  <<case, T, mem, ptr, pre_mix_ready, layer, forward_pc, calls>>
forwardOff ==
  /\ case = None /\ T = None /\ mem = None /\ ptr = None /\ pre_mix_ready = None
  /\ layer = None /\ forward_pc = None /\ calls = None

\* K below, at and above one pass of a block's threads, odd and even; N that
\* a tile divides and does not.
Linear == INSTANCE LinearKernels WITH
  WarpSize <- 8, Ms <- {1, 2, 3}, Ks <- {3, 6, 67, 132}, Ns <- {1, 4, 6},
  Ranks <- {<<1, 3, 2, 4>>, <<35, 2, 33, 5>>}, ShortK <- 67, WideN <- 6,
  LongK <- 100, LowrankInRowsT <- 2, LowrankOutRowsT <- 2,
  LowrankFusedMinC <- 6, call <- linear_call, out <- linear_out,
  faults <- linear_faults
ASSUME Linear!ShapesAssumption
ASSUME Linear!WarpSizeAssumption

linearVars == <<linear_call, refused, linear_out, linear_faults>>
linearOff ==
  /\ linear_call = None /\ refused = None /\ linear_out = None /\ linear_faults = None

\* The widths of the released models.
Dispatch == INSTANCE LinearDispatch WITH
  Channels <- {512, 768, 1024, 1536, 2048, 2560, 4096}, Vocab <- 65536,
  Batches <- DispatchBatches, Lengths <- {1, 2, 3, 4, 5, 6, 7, 16, 17},
  WeightKinds <- {"f16", "int8", "int4"}, RowsTiles <- Linear!RowsTiles,
  RowsCfgTiles <- Linear!RowsCfgTiles, ExactTiles <- Linear!ExactTiles,
  ExactShape <- Linear!ExactShape, call <- dispatch_call
ASSUME Dispatch!DispatchAssumption

dispatchVars == <<run, dispatch_call>>
dispatchOff ==
  /\ run = None /\ dispatch_call = None

\* Fewer channels than threads, more, an odd number, and LN_SMALL_C.
Norm == INSTANCE NormKernels WITH
  WarpSize <- 4, LN_THREADS <- 8, LN_SMALL_THREADS <- 16,
  LN_SMALL512_THREADS <- 8, LN_SMALL_C <- 32, ManyRows <- 3, SomeRows <- 2,
  Rows <- {1, 2, 3}, Lengths <- {1, 2}, Channels <- {2, 7, 18, 32},
  Launches <- 2, out <- norm_out, faults <- norm_faults
ASSUME Norm!NormAssumption
ASSUME Norm!WarpSizeAssumption

normVars == <<shape, shift, last, done, kind, norm_out, norm_faults>>
normOff ==
  /\ shape = None /\ shift = None /\ last = None /\ done = None /\ kind = None
  /\ norm_out = None /\ norm_faults = None

\* Two warps of two threads, three reductions in a row.
Reduce == INSTANCE BlockReduction WITH
  WarpSize <- 2, Threads <- 4, Calls <- 3, pc <- reduce_pc,
  call <- reduce_call
ASSUME Reduce!ThreadsAssumption
ASSUME Reduce!WarpSizeAssumption

reduceVars == <<reduce_pc, arrived, reduce_call, x, partial, returned>>
reduceOff ==
  /\ reduce_pc = None /\ arrived = None /\ reduce_call = None /\ x = None
  /\ partial = None /\ returned = None

\* Shapes on either side of every bound, tuned and forced splits.
W8 == INSTANCE W8Dispatch WITH
  Ms <- {1, 2, 3, 4, 5, 8, 16, 17, 32, 33, 64, 65, 128, 129, 1024},
  Ks <- {64, 128, 192, 4096, 4160, 16384},
  Ns <- {64, 100, 128, 4096, 4160, 65536}, Majors <- {7, 8},
  SmCounts <- {0, 16, 108}, Tuned <- {0, 1, 3, 4}, Forced <- {0, 2},
  call <- w8_call, launch <- w8_launch
ASSUME W8!DispatchAssumption

w8Vars == <<w8_call, w8_launch>>
w8Off ==
  /\ w8_call = None /\ w8_launch = None

\* More tiles than stages, and fewer.
Pipe == INSTANCE W8Pipeline WITH
  Warps <- 2, MaxTiles <- 5, Kernels <- {"mma", "bm64_bn128", "bm128"},
  launch <- pipe_launch, warp <- pipe_warp, y <- pipe_y
ASSUME Pipe!PipelineAssumption

pipeVars ==
  <<pipe_launch, phase, todo, block, pipe_warp, stages, reduction, scratch,
    pipe_y>>
pipeOff ==
  /\ pipe_launch = None /\ phase = None /\ todo = None /\ block = None
  /\ pipe_warp = None /\ stages = None /\ reduction = None /\ scratch = None
  /\ pipe_y = None

\* Four warps, of which two write a half of the output each.
Tile == INSTANCE W8TileLoop WITH
  Warps <- 4, MaxTiles <- 3, kernel <- tile_kernel, warp <- tile_warp,
  y <- tile_y
ASSUME Tile!TileLoopAssumption

tileVars ==
  <<tile_kernel, tile_warp, x_tile, weight_tile, q_storage, output_tile,
    tile_y>>
tileOff ==
  /\ tile_kernel = None /\ tile_warp = None /\ x_tile = None /\ weight_tile = None
  /\ q_storage = None /\ output_tile = None /\ tile_y = None

-----------------------------------------------------------------------------
\* The behaviour is about one part; the variables of the others stay None,
\* those of PrefillAdmission as they are at first.
SuiteInit ==
  /\ part \in Parts
  /\ Init
  /\ part # "admission" => vram = 2
  /\ CASE part = "text" -> Text!Init [] OTHER -> textOff
  /\ CASE part = "draw" -> Draw!Init
          [] part = "rounding" -> Rounding!Init
          [] OTHER -> samplerOff
  /\ CASE part = "load" -> Load!Init [] OTHER -> loadOff
  /\ CASE part = "forward" -> Forward!Init [] OTHER -> forwardOff
  /\ CASE part = "linear" -> Linear!Init [] OTHER -> linearOff
  /\ CASE part = "dispatch" -> Dispatch!Init [] OTHER -> dispatchOff
  /\ CASE part = "norm" -> Norm!Init [] OTHER -> normOff
  /\ CASE part = "reduce" -> Reduce!Init [] OTHER -> reduceOff
  /\ CASE part = "w8" -> W8!Init [] OTHER -> w8Off
  /\ CASE part = "pipe" -> Pipe!Init [] OTHER -> pipeOff
  /\ CASE part = "tile" -> Tile!Init [] OTHER -> tileOff

\* The free VRAM changes twice, and a query of it may fail.
AdmissionStep ==
  /\ part = "admission" /\ Next
  /\ UNCHANGED <<part, textVars, samplerVars, loadVars, forwardVars, linearVars,
         dispatchVars, normVars, reduceVars, w8Vars, pipeVars, tileVars>>

TextStep ==
  /\ part = "text" /\ Text!Next
  /\ UNCHANGED <<part, vars, samplerVars, loadVars, forwardVars, linearVars,
         dispatchVars, normVars, reduceVars, w8Vars, pipeVars, tileVars>>

DrawStep ==
  /\ part = "draw" /\ Draw!Next
  /\ UNCHANGED <<part, vars, textVars, loadVars, forwardVars, linearVars,
         dispatchVars, normVars, reduceVars, w8Vars, pipeVars, tileVars>>

RoundingStep ==
  /\ part = "rounding" /\ Rounding!Next
  /\ UNCHANGED <<part, vars, textVars, loadVars, forwardVars, linearVars,
         dispatchVars, normVars, reduceVars, w8Vars, pipeVars, tileVars>>

LoadStep ==
  /\ part = "load" /\ Load!Next
  /\ UNCHANGED <<part, vars, textVars, samplerVars, forwardVars, linearVars,
         dispatchVars, normVars, reduceVars, w8Vars, pipeVars, tileVars>>

ForwardStep ==
  /\ part = "forward" /\ Forward!Next
  /\ UNCHANGED <<part, vars, textVars, samplerVars, loadVars, linearVars,
         dispatchVars, normVars, reduceVars, w8Vars, pipeVars, tileVars>>

LinearStep ==
  /\ part = "linear" /\ Linear!Next
  /\ UNCHANGED <<part, vars, textVars, samplerVars, loadVars, forwardVars,
         dispatchVars, normVars, reduceVars, w8Vars, pipeVars, tileVars>>

DispatchStep ==
  /\ part = "dispatch" /\ Dispatch!Next
  /\ UNCHANGED <<part, vars, textVars, samplerVars, loadVars, forwardVars, linearVars,
         normVars, reduceVars, w8Vars, pipeVars, tileVars>>

NormStep ==
  /\ part = "norm" /\ Norm!Next
  /\ UNCHANGED <<part, vars, textVars, samplerVars, loadVars, forwardVars, linearVars,
         dispatchVars, reduceVars, w8Vars, pipeVars, tileVars>>

ReduceStep ==
  /\ part = "reduce" /\ Reduce!Next
  /\ UNCHANGED <<part, vars, textVars, samplerVars, loadVars, forwardVars, linearVars,
         dispatchVars, normVars, w8Vars, pipeVars, tileVars>>

W8Step ==
  /\ part = "w8" /\ W8!Next
  /\ UNCHANGED <<part, vars, textVars, samplerVars, loadVars, forwardVars, linearVars,
         dispatchVars, normVars, reduceVars, pipeVars, tileVars>>

PipeStep ==
  /\ part = "pipe" /\ Pipe!Next
  /\ UNCHANGED <<part, vars, textVars, samplerVars, loadVars, forwardVars, linearVars,
         dispatchVars, normVars, reduceVars, w8Vars, tileVars>>

TileStep ==
  /\ part = "tile" /\ Tile!Next
  /\ UNCHANGED <<part, vars, textVars, samplerVars, loadVars, forwardVars, linearVars,
         dispatchVars, normVars, reduceVars, w8Vars, pipeVars>>

SuiteNext ==
  \/ AdmissionStep
  \/ TextStep
  \/ DrawStep
  \/ RoundingStep
  \/ LoadStep
  \/ ForwardStep
  \/ LinearStep
  \/ DispatchStep
  \/ NormStep
  \/ ReduceStep
  \/ W8Step
  \/ PipeStep
  \/ TileStep

suiteVars == <<part, vars, textVars, samplerVars, loadVars, forwardVars,
          linearVars, dispatchVars, normVars, reduceVars, w8Vars, pipeVars,
          tileVars>>

\* Callers poll every 100 ms and give their permit back in the end (the calls
\* they make end); nothing obliges a request to be stopped or a query to fail.
\* The host thread and the streams of the loader go on; the threads of a block
\* and of a launch are scheduled.
SuiteFairness ==
  /\ \A c \in Callers :
       /\ WF_vars(part = "admission" /\ Acquire(c))
       /\ WF_vars(part = "admission" /\ Release(c))
       /\ WF_vars(part = "admission" /\ Poll(c) /\ stage'[c] # "threw")
  /\ WF_loadVars(part = "load" /\ Load!Host)
  /\ WF_loadVars(part = "load" /\ Load!DefaultStep)
  /\ \A s \in Load!Slots :
       /\ WF_loadVars(part = "load" /\ Load!CopyStep(s))
       /\ WF_loadVars(part = "load" /\ Load!ComputeStep(s))
  /\ WF_reduceVars(part = "reduce" /\ Reduce!Release)
  /\ \A t \in Reduce!Tids :
       WF_reduceVars(part = "reduce" /\ \/ Reduce!Arrive(t) \/ Reduce!Store(t) \/ Reduce!Load(t)
                                        \/ Reduce!Publish(t) \/ Reduce!Return(t))
  /\ \A w \in Reduce!Warps : WF_reduceVars(part = "reduce" /\ Reduce!Shuffle(w))
  /\ WF_pipeVars(part = "pipe" /\ \/ Pipe!ZeroScratch \/ Pipe!StartBlock \/ Pipe!EndBlock)
  /\ \A w \in Pipe!Wids : WF_pipeVars(part = "pipe" /\ Pipe!Step(w))

SuiteSpec == SuiteInit /\ [][SuiteNext]_suiteVars /\ SuiteFairness

-----------------------------------------------------------------------------
\* Once enough VRAM is free for good every request is served in turn, so a
\* large request at the head is not starved and blocks nobody for ever.
EveryoneServed ==
  [](part = "admission" => running) /\ <>[](part = "admission" => vram >= hard_max)
    => \A c \in Callers : <>(part = "admission" => stage[c] \in Ended)

\* However the bytes of the tokens are cut into chunks, what a client has
\* received is well-formed text, the same as without chunks, up to the first
\* stop and not beyond it.
TextIsTheOutput ==
  /\ part = "text" => /\ Text!TypeOK
                      /\ Text!OutputWellFormed
                      /\ Text!ChunksDoNotShow
                      /\ Text!TextArrives
                      /\ Text!StopsWhereItShould

\* The sampling kernels draw each token in proportion to its probability
\* within the nucleus that top-k and top-p leave, and never one outside it;
\* with rounded sums the search for the threshold still brackets it, ends,
\* and draws a kept token.
DrawIsProportional ==
  /\ part = "draw" => /\ Draw!TypeOK
                      /\ Draw!SearchBrackets
                      /\ Draw!WeightsAreNucleus
                      /\ Draw!DrawIsKept
                      /\ Draw!DrawIsProportional
                      /\ Draw!SearchIsShort
  /\ part = "rounding" => /\ Rounding!TypeOK
                          /\ Rounding!SearchBrackets
                          /\ Rounding!DrawIsKept
                          /\ Rounding!SearchIsShort

\* What the loader publishes is the file's tensors, whole and converted,
\* though copies and conversions of several layers overlap in two slots; a
\* damaged file never becomes a model.
WeightsAreWhole ==
  /\ part = "load" => /\ Load!TypeOK
                      /\ Load!PublishedLayerIsWhole
                      /\ Load!LoadedModelIsWhole
                      /\ Load!CopiesFitTheSlot
                      /\ Load!DamagedNeverLoads

\* Every launch is one its kernel accepts: a kernel is named, the workspace,
\* the arena and the shared memory suffice, vector loads are aligned and
\* within their rows, and tiles cover the product.
KernelsFit ==
  /\ part = "dispatch" => /\ Dispatch!TableNamesAKernel
                          /\ Dispatch!WorkspaceSuffices
  /\ part = "forward" => Forward!ArenaSuffices
  /\ part = "linear" => Linear!LoadsAreLegal
  /\ part = "norm" => Norm!LoadsAreLegal
  /\ part = "w8" => /\ W8!TilesCoverProduct
                    /\ W8!SharedMemoryFits
                    /\ W8!NeverExits

\* Whatever path the shapes select, the result is the model's: each buffer of
\* a forward pass holds what the layer defines and a state advances once, a
\* product has every term once, a reduction gives every thread the whole sum
\* though warps run apart, and a pipelined tile is read after it was copied
\* and before it is replaced.
ComputesTheModel ==
  /\ part = "forward" => /\ Forward!ComputesTheModel
                         /\ Forward!StateAdvancesOnce
  /\ part = "linear" => /\ Linear!OneBlockPerOutput
                        /\ Linear!ComputesProduct
  /\ part = "norm" => /\ Norm!OneThreadPerOutput
                      /\ Norm!ShiftIsLastToken
  /\ part = "reduce" => /\ Reduce!TypeOK
                        /\ Reduce!EveryThreadGetsTheSum
  /\ part = "pipe" => /\ Pipe!TypeOK
                      /\ Pipe!MmaReadsItsTile
                      /\ Pipe!ProductIsComplete
  /\ part = "tile" => /\ Tile!TypeOK
                      /\ Tile!TilesInOrder
                      /\ Tile!OutputsHaveTheirSums

\* A load ends, every thread of a reducing block returns, and a pipelined
\* launch completes: no barrier, event or copy group waits for ever.
EveryLaunchEnds ==
  []<>(/\ part = "load" => status # "loading"
       /\ part = "reduce" => \A t \in Reduce!Tids : reduce_pc[t] = "done"
       /\ part = "pipe" => phase = "done")

\* Whatever kernel serves a shape, every call fills its outputs with the norm
\* of the whole row (for the last token, of the row of that token), mixed
\* with what the previous token left in the shift state, not with what this
\* one leaves.
CallsStoreTheNorm ==
  [][part = "norm" => Norm!CallsStoreTheNormStep]_normVars
=============================================================================
