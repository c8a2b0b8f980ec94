------------------------------ MODULE TuneCache ------------------------------
(***************************************************************************)
(* The W8A16 tuning table and its cache file: configure_w8a16_tuning and   *)
(* what it calls in src/src/backend/rwkv7_fast_v4.cu.  A process loads the *)
(* file when it starts, or measures every shape and replaces the file by   *)
(* way of path.tmp.  Processes may be killed at any step; after a power    *)
(* loss a file that was not synced is cut anywhere.  Processes with the    *)
(* same cache path, of one model or of several, are on one GPU.            *)
(***************************************************************************)
EXTENDS Integers, Sequences, SequencesExt, FiniteSets

CONSTANTS
  Procs,                \* processes
  Models,               \* models they may be started with
  Shapes,               \* shape x M bucket pairs, of all models
  collect_shapes,       \* [Models -> Seq(Shapes)], those of a model in order
  Candidates,           \* the splits measured ({1, 2, 4} in the code)
  MaxStarts,            \* bound: starts of a process
  MaxPowerLosses        \* bound

TuneCacheAssumption ==
  /\ \A m \in Models : ToSet(collect_shapes[m]) \subseteq Shapes
  /\ Candidates \subseteq 1..4 /\ Candidates # {}
  /\ MaxStarts \in Nat /\ MaxPowerLosses \in Nat

VARIABLES
  proc,                 \* a process: pc, model, table (g_tuning_splits), fd
  path, tmp,            \* the inodes that the two names have, 0: no file
  data,                 \* what each inode holds, a sequence of lines
  losses                \* power losses so far

vars == <<proc, path, tmp, data, losses>>

\* One inode for path and one for every open that creates path.tmp.
Inodes == 1..Cardinality(Procs) + 1
NoFile == 0

(***************************************************************************)
(* The lines of the file: the key lines up to sparse_layer_rows as one, a  *)
(* `split` line per shape and bucket, and what remains of a line that was  *)
(* cut or overwritten in its middle, which the reader skips.               *)
(***************************************************************************)
Header(m) == [key |-> "header", model |-> m, shape |-> "", split_k |-> 0]
Record(s, k) == [key |-> "split", model |-> "", shape |-> s, split_k |-> k]
Torn == [key |-> "torn", model |-> "", shape |-> "", split_k |-> 0]

NoTable == [s \in Shapes |-> 0]

Init ==
  /\ proc = [p \in Procs |-> [pc |-> "stopped", model |-> "", table |-> NoTable,
                              fd |-> NoFile, starts |-> 0]]
  /\ path = NoFile /\ tmp = NoFile
  /\ data = [i \in Inodes |-> <<>>]
  /\ losses = 0

-----------------------------------------------------------------------------

\* The header is this model's and every shape has a record with 1 to 4 splits.
load_w8a16_tune_cache(lines, m) ==
  /\ Len(lines) > 0 /\ lines[1] = Header(m)
  /\ \A s \in ToSet(collect_shapes[m]) :
       \E i \in DOMAIN lines : lines[i].key = "split" /\ lines[i].shape = s
                               /\ lines[i].split_k \in 1..4

Lines(i) == IF i = NoFile THEN <<>> ELSE data[i]

\* rwkv7_w8a16_tuning_set, record by record: the last one of a shape counts.
TableOf(lines) ==
  [s \in Shapes |->
     LET is == {i \in DOMAIN lines : lines[i].key = "split" /\ lines[i].shape = s}
     IN  IF is = {} THEN 0
         ELSE lines[CHOOSE i \in is : \A j \in is : j <= i].split_k]

\* A process starts: a hit fills the table and it serves, a miss is tuned.
configure_w8a16_tuning(p, m, retune) ==
  /\ proc[p].pc = "stopped" /\ proc[p].starts < MaxStarts
  /\ LET hit == ~retune /\ path # NoFile
                /\ load_w8a16_tune_cache(Lines(path), m)
     IN  proc' = [proc EXCEPT ![p] =
           [pc |-> IF hit THEN "serving" ELSE "tuning", model |-> m,
            table |-> IF hit THEN TableOf(Lines(path)) ELSE NoTable,
            fd |-> NoFile, starts |-> proc[p].starts + 1]]
  /\ UNCHANGED <<path, tmp, data, losses>>

\* The timings: which candidate is the fastest is up to the device.
tune_linear_median(ss) == [ss -> Candidates]

\* Every shape and bucket of the model gets the fastest of the candidates.
tune_w8a16_model(p) ==
  /\ proc[p].pc = "tuning"
  /\ \E best \in tune_linear_median(ToSet(collect_shapes[proc[p].model])) :
       proc' = [proc EXCEPT ![p].pc = "open",
                  ![p].table = [s \in Shapes |-> IF s \in DOMAIN best
                                                 THEN best[s] ELSE 0]]
  /\ UNCHANGED <<path, tmp, data, losses>>

Content(p) ==
  <<Header(proc[p].model)>> \o
  [i \in DOMAIN collect_shapes[proc[p].model] |->
     Record(collect_shapes[proc[p].model][i],
            proc[p].table[collect_shapes[proc[p].model][i]])]

\* An inode that no name and no open file has.
FreeInodes ==
  Inodes \ ({path, tmp} \cup {proc[q].fd : q \in Procs})

\* std::ofstream(path.tmp, trunc): an existing file is emptied, whoever made it.
OpenTmp(p) ==
  /\ proc[p].pc = "open"
  /\ \E i \in IF tmp = NoFile THEN FreeInodes ELSE {tmp} :
       /\ tmp' = i
       /\ data' = [data EXCEPT ![i] = <<>>]
       /\ proc' = [proc EXCEPT ![p].fd = i, ![p].pc = "write"]
  /\ UNCHANGED <<path, losses>>

\* It cannot be opened: a warning, and the table is used as it is.
OpenFails(p) ==
  /\ proc[p].pc = "open"
  /\ proc' = [proc EXCEPT ![p].pc = "serving"]
  /\ UNCHANGED <<path, tmp, data, losses>>

(***************************************************************************)
(* The stream's buffer holds the whole file and goes out at the flush, at  *)
(* the start of whatever the inode holds by now: a longer text of another  *)
(* process shows behind it, its first line cut or whole.                   *)
(***************************************************************************)
Over(new, old) ==
  LET rest == SubSeq(old, Len(new) + 1, Len(old))
  IN  IF rest = <<>> THEN {new} ELSE {new \o rest, new \o <<Torn>> \o Tail(rest)}

Flush(p) ==
  /\ proc[p].pc = "write"
  /\ \E lines \in Over(Content(p), data[proc[p].fd]) :
       data' = [data EXCEPT ![proc[p].fd] = lines]
  /\ proc' = [proc EXCEPT ![p].pc = "rename"]
  /\ UNCHANGED <<path, tmp, losses>>

\* A write that ends early, anywhere.
PartlyOver(new, old) ==
  {old} \cup {SubSeq(new, 1, n) \o <<Torn>> \o SubSeq(old, n + 2, Len(old)) :
               n \in 0..Len(new) - 1}

\* The disk is full: part of it is written, path.tmp is removed.
FlushFails(p) ==
  /\ proc[p].pc = "write"
  /\ \E lines \in PartlyOver(Content(p), data[proc[p].fd]) :
       data' = [data EXCEPT ![proc[p].fd] = lines]
  /\ tmp' = NoFile
  /\ proc' = [proc EXCEPT ![p].pc = "serving", ![p].fd = NoFile]
  /\ UNCHANGED <<path, losses>>

\* rename(path.tmp, path). It may fail, and does without a path.tmp: then
\* there is a warning, and path.tmp is removed.
Rename(p) ==
  /\ proc[p].pc = "rename"
  /\ path' \in {path, IF tmp = NoFile THEN path ELSE tmp}
  /\ tmp' = NoFile
  /\ proc' = [proc EXCEPT ![p].pc = "serving", ![p].fd = NoFile]
  /\ UNCHANGED <<data, losses>>

-----------------------------------------------------------------------------
Stopped(p) == [proc[p] EXCEPT !.pc = "stopped", !.model = "",
                              !.table = NoTable, !.fd = NoFile]

\* A process ends or is killed; its files stay.
Kill(p) ==
  /\ proc[p].pc # "stopped"
  /\ proc' = [proc EXCEPT ![p] = Stopped(p)]
  /\ UNCHANGED <<path, tmp, data, losses>>

\* The machine goes down. Nothing was synced: any file may have been cut.
PowerLoss ==
  /\ losses < MaxPowerLosses
  /\ losses' = losses + 1
  /\ proc' = [p \in Procs |-> Stopped(p)]
  /\ \E n \in [{path, tmp} \ {NoFile} -> 0..5] :
       data' = [i \in Inodes |->
                  IF i \in DOMAIN n /\ n[i] < Len(data[i])
                  THEN SubSeq(data[i], 1, n[i]) \o <<Torn>> ELSE data[i]]
  /\ UNCHANGED <<path, tmp>>

Next ==
  \/ PowerLoss
  \/ \E p \in Procs :
       \/ \E m \in Models, retune \in BOOLEAN : configure_w8a16_tuning(p, m, retune)
       \/ tune_w8a16_model(p) \/ OpenTmp(p) \/ OpenFails(p) \/ Flush(p)
       \/ FlushFails(p) \/ Rename(p) \/ Kill(p)

Spec == Init /\ [][Next]_vars

-----------------------------------------------------------------------------
TypeOK ==
  /\ path \in Inodes \cup {NoFile} /\ tmp \in Inodes \cup {NoFile}
  /\ path # NoFile => path # tmp
  /\ \A p \in Procs :
       /\ proc[p].table \in [Shapes -> 0..4]
       /\ proc[p].fd \in Inodes \cup {NoFile}
       /\ proc[p].pc \in {"write", "rename"} <=> proc[p].fd # NoFile

(***************************************************************************)
(* A process that serves has a split of 1 to 4 for every shape and bucket  *)
(* of its model, whether it measured them or found them in a file that     *)
(* another process was writing, had left half done, or that was cut.       *)
(***************************************************************************)
ServesWholeTable ==
  \A p \in Procs : proc[p].pc = "serving" =>
    \A s \in ToSet(collect_shapes[proc[p].model]) : proc[p].table[s] \in 1..4

Usable == \E m \in Models : path # NoFile /\ load_w8a16_tune_cache(Lines(path), m)

(***************************************************************************)
(* One process at a time: a cache file that some model can use stays       *)
(* usable through every step of a retune, every failure of the disk and    *)
(* every kill. Only a power loss may cut it.                               *)
(***************************************************************************)
CacheSurvivesStep ==
  Usable => Usable' \/ losses' > losses
=============================================================================
