----------------------------- MODULE MCAdapters -----------------------------
(***************************************************************************)
(* What clients upload and processes share: the adapters in RAM and on the *)
(* GPU, the uploaded states and their files, and the file of tuned kernels *)
(* that two processes write. Each part is a behaviour of its own; Parts    *)
(* names those of a run.                                                   *)
(***************************************************************************)
EXTENDS AdapterCache, TLC

CONSTANTS Parts

VARIABLES
  part,
  made, states, file, upload, drawn, call, answer, reused, running,
  proc, path, tmp, data, losses

\* Three versions of which the largest fits the GPU only alone.
VersionSize == [small |-> 1, medium |-> 2, large |-> 3]

\* Uploads whose ids the server draws.
Direct == INSTANCE UploadedStateStore WITH
  ClientIds <- {}, RandomIds <- {"r1", "r2"}, Names <- {"n1"},
  Contents <- {"b1", "b2", "broken"}, Valid <- {"b1", "b2"},
  Calls <- {"c1", "c2"}, MaxUploads <- 3
ASSUME Direct!StoreAssumption

\* An id that the client gives may be uploaded again.
Client == INSTANCE UploadedStateStore WITH
  ClientIds <- {"u1"}, RandomIds <- {"r1"}, Names <- {"n1", "n2"},
  Contents <- {"b1", "b2", "broken"}, Valid <- {"b1", "b2"}, Calls <- {"c1", "c2"},
  MaxUploads <- 3
ASSUME Client!StoreAssumption

uploadVars ==
  <<made, states, file, upload, drawn, call, answer, reused, running>>
uploadOff ==
  /\ made = None /\ states = None /\ file = None /\ upload = None /\ drawn = None
  /\ call = None /\ answer = None /\ reused = None /\ running = None

\* Two processes that tune two models which share a shape.
Shared == INSTANCE TuneCache WITH
  Procs <- {"p1", "p2"}, Models <- {"m1", "m2"}, Shapes <- {"a", "b"},
  collect_shapes <- [m1 |-> <<"a", "b">>, m2 |-> <<"b">>], Candidates <- {2},
  MaxStarts <- 2, MaxPowerLosses <- 1
ASSUME Shared!TuneCacheAssumption

tuneVars == <<proc, path, tmp, data, losses>>
tuneOff ==
  /\ proc = None /\ path = None /\ tmp = None /\ data = None /\ losses = None

-----------------------------------------------------------------------------
\* The behaviour is about one part; the variables of the others stay None,
\* those of AdapterCache as they are at first.
SuiteInit ==
  /\ part \in Parts
  /\ Init
  /\ CASE part = "direct" -> Direct!Init
          [] part = "client" -> Client!Init
          [] OTHER -> uploadOff
  /\ CASE part = "shared" -> Shared!Init [] OTHER -> tuneOff

\* Budgets that not every pair of versions fits.
AdapterStep ==
  /\ part = "adapter" /\ Next
  /\ UNCHANGED <<part, uploadVars, tuneVars>>

DirectStep ==
  /\ part = "direct" /\ Direct!Next
  /\ UNCHANGED <<part, vars, tuneVars>>

ClientStep ==
  /\ part = "client" /\ Client!Next
  /\ UNCHANGED <<part, vars, tuneVars>>

SharedStep ==
  /\ part = "shared" /\ Shared!Next
  /\ UNCHANGED <<part, vars, uploadVars>>

SuiteNext ==
  \/ AdapterStep
  \/ DirectStep
  \/ ClientStep
  \/ SharedStep

suiteVars == <<part, vars, uploadVars, tuneVars>>

SuiteSpec == SuiteInit /\ [][SuiteNext]_suiteVars

-----------------------------------------------------------------------------
\* A generation loads the bytes its state had when it was acquired and a listed
\* state keeps its file, unless the client has uploaded the id again while a
\* request still held the state it had deleted; every file belongs to an entry
\* or an upload in progress, a client is answered with its own upload and a
\* retry never rewrites the first copy; and two processes that write one tuning
\* file each read a whole table or none.
UploadsAreTrue ==
  /\ [](/\ part = "direct" => /\ Direct!TypeOK
                              /\ Direct!LoadsWhatItAcquired
                              /\ Direct!NoOrphanFile
        /\ part = "client" => /\ Client!TypeOK
                              /\ Client!LoadsWhatItAcquired
                              /\ Client!NoOrphanFile
                              /\ Client!AnsweredWithItsUpload
        /\ part = "shared" => /\ Shared!TypeOK
                              /\ Shared!ServesWholeTable)
  /\ [][part = "client" => Client!FirstCopyStaysStep]_uploadVars
=============================================================================
