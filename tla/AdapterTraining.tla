--------------------------- MODULE AdapterTraining ---------------------------
(***************************************************************************)
(* Offline adapter training (MISS and NoRA): the loop of                   *)
(* src/src/bf16_training/main.cpp, and update, checkpoint, resume and      *)
(* export of the Trainer in trainer.cpp.  One process at a time trains; it *)
(* may be killed at any step, and is started anew or from a checkpoint,    *)
(* into any output directory and with any configuration.                   *)
(*                                                                         *)
(* Tensors are kept as what they were computed from: master and the Adam   *)
(* moments as the sequence of updates applied to them, an update with the  *)
(* samples it sums, a sample with the weights its gradient was taken at.   *)
(* Two runs with equal histories have equal tensors.                       *)
(***************************************************************************)
EXTENDS Integers, Sequences, SequencesExt, FiniteSets

CONSTANTS
  Rows,                 \* the data: a sequence, TRUE: a row with a trained target
  Configs,              \* configurations; they differ in batch_size
  Epochs,               \* --epochs
  SaveEvery,            \* values of --save-every, 0: no checkpoint
  MaxSteps,             \* values of --max-steps, 0: no limit
  Outputs,              \* output directories
  MaxRuns,              \* bound: processes started
  MaxCuts               \* bound: checkpoints that power losses damage

TrainingAssumption ==
  /\ Rows \in Seq(BOOLEAN) /\ Rows # <<>>
  /\ Configs \subseteq Nat \ {0}
  /\ Epochs \in Nat \ {0}
  /\ SaveEvery \subseteq Nat /\ MaxSteps \subseteq Nat
  /\ MaxRuns \in Nat /\ MaxCuts \in Nat

VARIABLES
  run,                  \* the process: pc, options and the loop's variables
  trainer,              \* master_, m_ and v_, gradient_, forward_
  disk,                 \* checkpoint-<step>[.tmp] of each output directory
  final,                \* adapter-final.pth of each output directory
  runs                  \* processes started so far

vars == <<run, trainer, disk, final, runs>>

\* A file of the output directory: missing, cut by a power loss, or whole.
NoFile == [kind |-> "none"]
Torn == [kind |-> "torn"]
File(d) == [kind |-> "whole", data |-> d]

Trained == SelectSeq([i \in 1..Len(Rows) |-> i], LAMBDA i : Rows[i])
\* Updates of one epoch: batches are full but for the last one.
PerEpoch(size) == (Len(Trained) + size - 1) \div size
Steps == 1..(Epochs * Len(Trained))

(***************************************************************************)
(* What training computes, stated without the loop: update k sums the      *)
(* samples of one batch, each with the weights after k - 1 updates.        *)
(***************************************************************************)
Reference(size) ==
  [k \in 1..(Epochs * PerEpoch(size)) |->
    LET e == ((k - 1) \div PerEpoch(size)) + 1
        j == ((k - 1) % PerEpoch(size)) * size
        batch == SubSeq(Trained, j + 1,
                        IF j + size < Len(Trained) THEN j + size ELSE Len(Trained))
    IN [step |-> k, moments |-> k - 1,
        samples |-> [i \in DOMAIN batch |->
                      [epoch |-> e, row |-> batch[i], weights |-> k - 1]]]]

Idle == [pc |-> "off", config |-> 0, output |-> "", save_every |-> 0,
         max_steps |-> 0, global_step |-> 0, epoch |-> 0, data_row |-> 0,
         batch |-> <<>>, exhausted |-> FALSE, finite |-> TRUE]

Fresh == [master |-> <<>>, moments |-> <<>>, gradient |-> <<>>, forward |-> <<>>]

NoCheckpoint == [at |-> "absent", tensors |-> NoFile, meta |-> NoFile]

Init ==
  /\ run = Idle
  /\ trainer = Fresh
  /\ disk = [o \in Outputs |-> [s \in Steps |-> NoCheckpoint]]
  /\ final = [o \in Outputs |-> NoFile]
  /\ runs = 0

-----------------------------------------------------------------------------
\* The process is gone, and its tensors with it.
Ended == run' = Idle /\ trainer' = Fresh

\* A process starts without --resume: epoch 1, row 0, tensors as constructed.
Started(c, o, save, limit) ==
  [Idle EXCEPT !.pc = "read", !.config = c, !.output = o, !.save_every = save,
               !.max_steps = limit, !.epoch = 1]

Begin(c, o, save, limit) ==
  /\ run.pc = "off" /\ runs < MaxRuns
  /\ runs' = runs + 1
  /\ run' = Started(c, o, save, limit)
  /\ trainer' = Fresh
  /\ UNCHANGED <<disk, final>>

\* Trainer::resume accepts the directory: checkpoint.json parses, its config
\* is that of this process, and training.pth has the digest it names.
Resumable(ckpt, c) ==
  /\ ckpt.meta.kind = "whole"
  /\ ckpt.meta.data.config = c
  /\ ckpt.tensors = ckpt.meta.data.digest

\* Mutant: the BF16 factors are not derived again from the loaded master.
LoadedNoCast(t) == [t EXCEPT !.forward = <<>>]

\* The tensors of training.pth; forward_ is cast from master_.
Loaded(t) == [t EXCEPT !.forward = t.master]

\* --resume: step, epoch and row from checkpoint.json; the first epoch skips
\* the rows already read.  A limit already reached stops before any row.
Resume(c, o, save, limit, from, s) ==
  /\ run.pc = "off" /\ runs < MaxRuns
  /\ runs' = runs + 1
  /\ disk[from][s].at # "absent"
  /\ IF Resumable(disk[from][s], c)
     THEN LET meta == disk[from][s].meta.data IN
          /\ run' = [Started(c, o, save, limit) EXCEPT
                       !.pc = IF limit # 0 /\ meta.step >= limit THEN "export" ELSE "read",
                       !.global_step = meta.step, !.epoch = meta.epoch,
                       !.data_row = meta.row]
          /\ trainer' = Loaded(disk[from][s].tensors.data)
     ELSE UNCHANGED <<run, trainer>>
  /\ UNCHANGED <<disk, final>>

-----------------------------------------------------------------------------
\* dataset.next(): one more row.  data_row counts the rows without a trained
\* target too; those never enter a batch.
ReadRow ==
  /\ run.pc = "read" /\ Len(run.batch) < run.config
  /\ run.data_row < Len(Rows)
  /\ LET row == run.data_row + 1
     IN run' = [run EXCEPT !.data_row = row,
                           !.batch = IF Rows[row] THEN Append(@, row) ELSE @]
  /\ UNCHANGED <<trainer, disk, final, runs>>

\* The next epoch opens the file anew; after the last one comes the export.
NextEpoch(r) ==
  [r EXCEPT !.epoch = @ + 1, !.data_row = 0, !.exhausted = FALSE, !.batch = <<>>,
            !.pc = IF r.epoch + 1 <= Epochs THEN "read" ELSE "export"]

\* The data end: what the batch has is trained, an empty one ends the epoch.
EndOfData ==
  /\ run.pc = "read" /\ Len(run.batch) < run.config /\ ~run.exhausted
  /\ run.data_row = Len(Rows)
  /\ run' = IF run.batch = <<>> THEN NextEpoch(run)
            ELSE [run EXCEPT !.exhausted = TRUE]
  /\ UNCHANGED <<trainer, disk, final, runs>>

\* executor.backward of each sample adds to gradient_; the sum may overflow.
Backward ==
  /\ run.pc = "read" /\ (Len(run.batch) = run.config \/ run.exhausted)
  /\ \E ok \in BOOLEAN :
       run' = [run EXCEPT !.batch = <<>>, !.finite = ok, !.pc = "update"]
  /\ trainer' = [trainer EXCEPT !.gradient = @ \o
       [i \in DOMAIN run.batch |-> [epoch |-> run.epoch, row |-> run.batch[i],
                                   weights |-> Len(trainer.forward)]]]
  /\ UNCHANGED <<disk, final, runs>>

\* adam_update_state_f32 (which zeroes the gradient), then cast_master.
Applied(t, step) ==
  LET u == [step |-> step, moments |-> Len(t.moments), samples |-> t.gradient]
  IN [master |-> Append(t.master, u), moments |-> Append(t.moments, u),
      gradient |-> <<>>, forward |-> Append(t.master, u)]

\* A gradient that is not finite ends the process before any tensor changes.
Update ==
  /\ run.pc = "update"
  /\ IF run.finite
     THEN LET step == run.global_step + 1 IN
          /\ trainer' = Applied(trainer, step)
          /\ run' = [run EXCEPT !.global_step = step,
               !.pc = IF run.save_every # 0 /\ step % run.save_every = 0
                      THEN "mkdir" ELSE "limit"]
     ELSE Ended
  /\ UNCHANGED <<disk, final, runs>>

-----------------------------------------------------------------------------
Dir == disk[run.output][run.global_step]

\* Trainer::checkpoint refuses a destination that exists, finished or not.
MakeDirectory ==
  /\ run.pc = "mkdir"
  /\ IF Dir.at # "absent"
     THEN Ended /\ UNCHANGED disk
     ELSE /\ run' = [run EXCEPT !.pc = "tensors"]
          /\ disk' = [disk EXCEPT ![run.output][run.global_step].at = "tmp"]
          /\ UNCHANGED trainer
  /\ UNCHANGED <<final, runs>>

\* write_pth: training.pth appears whole, by a rename of its own.
WriteTensors ==
  /\ run.pc = "tensors"
  /\ run' = [run EXCEPT !.pc = "meta"]
  /\ disk' = [disk EXCEPT ![run.output][run.global_step].tensors = File(trainer)]
  /\ UNCHANGED <<trainer, final, runs>>

Meta(r, t) ==
  [config |-> r.config, step |-> r.global_step, epoch |-> r.epoch, digest |-> t,
   row |-> r.data_row]

WriteMeta ==
  /\ run.pc = "meta"
  /\ run' = [run EXCEPT !.pc = "publish"]
  /\ disk' = [disk EXCEPT ![run.output][run.global_step].meta =
                File(Meta(run, Dir.tensors))]
  /\ UNCHANGED <<trainer, final, runs>>

Publish ==
  /\ run.pc = "publish"
  /\ run' = [run EXCEPT !.pc = "limit"]
  /\ disk' = [disk EXCEPT ![run.output][run.global_step].at = "final"]
  /\ UNCHANGED <<trainer, final, runs>>

\* --max-steps stops the loop; a partial batch was the epoch's last.
AfterUpdate ==
  /\ run.pc = "limit"
  /\ run' = IF run.max_steps # 0 /\ run.global_step >= run.max_steps
            THEN [run EXCEPT !.pc = "export"]
            ELSE IF run.exhausted THEN NextEpoch(run) ELSE [run EXCEPT !.pc = "read"]
  /\ UNCHANGED <<trainer, disk, final, runs>>

\* export_adapter: the BF16 factors; an existing file is an error.
Export ==
  /\ run.pc = "export"
  /\ Ended
  /\ final' = [final EXCEPT ![run.output] =
       IF @ # NoFile THEN @
       ELSE File([forward |-> trainer.forward, config |-> run.config,
                  limit |-> run.max_steps])]
  /\ UNCHANGED <<disk, runs>>

-----------------------------------------------------------------------------
\* The process is killed, or one of its calls throws (disk full, CUDA error).
Kill ==
  /\ run.pc # "off"
  /\ Ended
  /\ UNCHANGED <<disk, final, runs>>

\* Nothing is synced: a file written so far may be cut by a power loss.
PowerLoss(o, s) ==
  /\ run.pc # "off"
  /\ Cardinality({d \in Outputs \X Steps : \E f \in {"tensors", "meta"} :
                    disk[d[1]][d[2]][f] = Torn}) < MaxCuts
  /\ disk[o][s].at # "absent"
  /\ Ended
  /\ \E cut \in (SUBSET {"tensors", "meta"}) \ {{}} :
       disk' = [disk EXCEPT ![o][s] =
         [f \in DOMAIN @ |-> IF f \in cut /\ @[f] # NoFile THEN Torn ELSE @[f]]]
  /\ UNCHANGED <<final, runs>>

Loop ==
  \/ ReadRow \/ EndOfData \/ Backward \/ Update
  \/ MakeDirectory \/ WriteTensors \/ WriteMeta \/ Publish \/ AfterUpdate
  \/ Export

Next ==
  \/ \E c \in Configs, o \in Outputs, save \in SaveEvery, limit \in MaxSteps :
       \/ Begin(c, o, save, limit)
       \/ \E from \in Outputs, s \in Steps : Resume(c, o, save, limit, from, s)
  \/ Loop
  \/ Kill
  \/ \E o \in Outputs, s \in Steps : PowerLoss(o, s)

\* The loop is one thread of a program that waits for nobody: it goes on.
Spec == Init /\ [][Next]_vars /\ WF_vars(Loop)

-----------------------------------------------------------------------------
Files == {"none", "torn", "whole"}

\* Types: an update count never passes what the data and the epochs give, so
\* no step is numbered beyond the schedule's plan.
TypeOK ==
  /\ run.pc \in {"off", "read", "update", "mkdir", "tensors", "meta",
                 "publish", "limit", "export"}
  /\ run.global_step \in 0..(Epochs * Len(Trained)) /\ run.epoch \in 0..(Epochs + 1)
  /\ run.pc = "read" => run.epoch \in 1..Epochs
  /\ run.data_row \in 0..Len(Rows) /\ run.exhausted \in BOOLEAN
  /\ run.batch \in Seq(1..Len(Rows)) /\ run.finite \in BOOLEAN
  /\ \A o \in Outputs, s \in Steps :
       /\ disk[o][s].at \in {"absent", "tmp", "final"}
       /\ disk[o][s].tensors.kind \in Files /\ disk[o][s].meta.kind \in Files
  /\ runs \in 0..MaxRuns

\* However often training is killed and resumed, and from whichever of its
\* checkpoints, its weights and moments are those of one run without a break:
\* every update sums the right rows, at the right weights, in order (main.cpp
\* 397-404, Trainer::resume).
ResumeIsExact ==
  run.pc # "off" =>
    /\ Len(trainer.master) = run.global_step
    /\ trainer.master = SubSeq(Reference(run.config), 1, run.global_step)
    /\ trainer.moments = trainer.master
    /\ trainer.forward = trainer.master

\* "Checkpoints are published at update boundaries, where accumulated
\* gradients have been cleared" (src/src/miss/README.md:117): what resume would accept
\* is such a boundary, and its row is where the next batch begins.
CheckpointAtBoundary ==
  \A o \in Outputs, s \in Steps, c \in Configs :
    Resumable(disk[o][s], c) =>
      LET t == disk[o][s].tensors.data
          meta == disk[o][s].meta.data
      IN /\ t.gradient = <<>>
         /\ meta.step = s /\ Len(t.master) = s
         /\ LET last == Last(t.master).samples
            IN meta.epoch = Last(last).epoch /\ meta.row >= Last(last).row

\* adapter-final.pth holds the whole training of its configuration, or what
\* --max-steps or the checkpoint it was resumed from allow; never a prefix
\* that a failure cut short (main.cpp 537-547).
FinalIsComplete ==
  \A o \in Outputs : final[o].kind = "whole" =>
    LET f == final[o].data
        all == Reference(f.config)
    IN f.forward = all \/ (f.limit # 0 /\ Len(f.forward) >= f.limit
                             /\ f.forward = SubSeq(all, 1, Len(f.forward)))

=============================================================================
