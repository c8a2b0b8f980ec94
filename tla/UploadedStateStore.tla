-------------------------- MODULE UploadedStateStore --------------------------
(***************************************************************************)
(* UploadedStateStore: initial states uploaded as files, one file per id in *)
(* a temporary directory, deleted by the destructor of the last reference   *)
(* to the entry.  mutex_ is held by upload, acquire and erase, but not by   *)
(* the load of an acquired file and not by the destructor of a handle.      *)
(*                                                                         *)
(* An id is <stem>-<uuid>.  The uuid comes from the client (the router's     *)
(* X-RWKV-State-Upload-UUID) or is drawn at random and then never repeats.   *)
(* Uploads refused before the lock (empty, too large) and by the name and    *)
(* uuid checks change nothing and are left out.                             *)
(***************************************************************************)
EXTENDS Naturals, Sequences, FiniteSets

CONSTANTS
  ClientIds,     \* ids a client may choose, again and again
  RandomIds,     \* ids drawn by uuid_v7(), each at most once
  Names,         \* original file names
  Contents,      \* uploaded bytes; a digest tells them apart
  Valid,         \* contents that validate_state_pth accepts
  Calls,         \* generation requests with a state_id
  MaxUploads,    \* bound: uploads that reach the disk
  None

StateIds == ClientIds \cup RandomIds

StoreAssumption ==
  /\ ClientIds \cap RandomIds = {} /\ Valid \subseteq Contents
  /\ None \notin Contents /\ MaxUploads \in Nat

VARIABLES
  made,          \* the entries made so far, in order of creation
  states,        \* states_[id]: index in made, or 0
  file,          \* directory_/id: its bytes, or None
  upload,        \* the upload that holds mutex_, or None
  drawn,         \* random ids already drawn
  call,          \* call[c]: stage, entry of its handle, bytes it has loaded
  answer,        \* history: the last upload answered, what was sent and the entry returned
  reused,        \* history: ids whose newest upload began while a request held an older
                 \* entry of the id
  running

vars == <<made, states, file, upload, drawn, call, answer, reused, running>>

Entry  == [id : StateIds, name : Names, bytes : Contents]
Upload == [id : StateIds, name : Names, bytes : Contents, checked : BOOLEAN]

TypeOK ==
  /\ made \in Seq(Entry) /\ states \in [StateIds -> 0 .. Len(made)]
  /\ file \in [StateIds -> Contents \cup {None}]
  /\ upload \in Upload \cup {None} /\ drawn \subseteq RandomIds
  /\ reused \subseteq StateIds /\ running \in BOOLEAN
  /\ answer \in [sent : Entry, entry : 1 .. Len(made)] \cup {None}
  /\ call \in [Calls -> [stage : {"idle", "acquired", "loaded", "done", "missing"},
                         entry : 0 .. Len(made), read : Contents \cup {None}]]

Init ==
  /\ made = <<>> /\ states = [id \in StateIds |-> 0] /\ file = [id \in StateIds |-> None]
  /\ upload = None /\ drawn = {} /\ reused = {}
  /\ running = TRUE /\ answer = None
  /\ call = [c \in Calls |-> [stage |-> "idle", entry |-> 0, read |-> None]]

Unlocked == upload = None /\ running

(* Entries that a handle keeps alive.                                      *)
Holders(e) == {c \in Calls : call[c].stage \in {"acquired", "loaded"} /\ call[c].entry = e}
Held(id) == \E e \in 1 .. Len(made) : made[e].id = id /\ Holders(e) # {}

-----------------------------------------------------------------------------
(* upload(): a client id that is listed is a retry (same name and bytes),     *)
(* answered with the first entry, or a conflict, answered with an error.     *)
SameUpload(id, sent) == id \in ClientIds /\ made[states[id]] = sent

Retry(id, name, bytes) ==
  LET sent == [id |-> id, name |-> name, bytes |-> bytes]
  IN  /\ Unlocked /\ states[id] # 0 /\ SameUpload(id, sent)
      /\ answer' = [sent |-> sent, entry |-> states[id]]
      /\ UNCHANGED <<made, states, file, upload, drawn, call, reused, running>>

NotListed(id) == states[id] = 0

BeginUpload(id, name, bytes) ==
  /\ Unlocked /\ NotListed(id) /\ Len(made) < MaxUploads
  /\ id \in ClientIds \/ id \in RandomIds \ drawn
  /\ upload' = [id |-> id, name |-> name, bytes |-> bytes, checked |-> FALSE]
  /\ file' = [file EXCEPT ![id] = bytes]
  /\ drawn' = drawn \cup ({id} \cap RandomIds)
  /\ reused' = IF Held(id) THEN reused \cup {id} ELSE reused \ {id}
  /\ UNCHANGED <<made, states, call, answer, running>>

(* validate_state_pth() reads the file it finds under the path.             *)
Validate ==
  /\ upload # None /\ ~upload.checked /\ file[upload.id] \in Valid
  /\ upload' = [upload EXCEPT !.checked = TRUE]
  /\ UNCHANGED <<made, states, file, drawn, call, answer, reused, running>>

RemoveFile(id) == [file EXCEPT ![id] = None]

FailUpload ==
  /\ upload # None /\ ~upload.checked /\ file[upload.id] \notin Valid
  /\ upload' = None /\ file' = RemoveFile(upload.id)
  /\ UNCHANGED <<made, states, drawn, call, answer, reused, running>>

Commit ==
  /\ upload # None /\ upload.checked
  /\ LET sent == [id |-> upload.id, name |-> upload.name, bytes |-> upload.bytes]
     IN  made' = Append(made, sent) /\ answer' = [sent |-> sent, entry |-> Len(made) + 1]
  /\ states' = [states EXCEPT ![upload.id] = Len(made) + 1]
  /\ upload' = None
  /\ UNCHANGED <<file, drawn, call, reused, running>>

(* ~Entry() when the last of states_ and the handles lets go.               *)
DestroyAtOnce(id, held) == RemoveFile(id)
Destroyed(id, held) == IF held THEN file ELSE RemoveFile(id)

Erase(id) ==
  /\ Unlocked /\ states[id] # 0
  /\ states' = [states EXCEPT ![id] = 0]
  /\ file' = Destroyed(id, Holders(states[id]) # {})
  /\ UNCHANGED <<made, upload, drawn, call, answer, reused, running>>

(* create_request_state(): acquire under the lock, then load, then drop.    *)
Acquire(c, id) ==
  /\ Unlocked /\ call[c].stage = "idle"
  /\ call' = [call EXCEPT ![c].stage = IF states[id] = 0 THEN "missing" ELSE "acquired",
                          ![c].entry = states[id]]
  /\ UNCHANGED <<made, states, file, upload, drawn, answer, reused, running>>

Load(c) ==
  /\ running /\ call[c].stage = "acquired"
  /\ call' = [call EXCEPT ![c].stage = "loaded", ![c].read = file[made[call[c].entry].id]]
  /\ UNCHANGED <<made, states, file, upload, drawn, answer, reused, running>>

Drop(c) ==
  /\ running /\ call[c].stage = "loaded"
  /\ call' = [call EXCEPT ![c].stage = "done"]
  /\ LET e == call[c].entry
     IN  file' = Destroyed(made[e].id, states[made[e].id] = e \/ Holders(e) # {c})
  /\ UNCHANGED <<made, states, upload, drawn, answer, reused, running>>

(* The workers have been joined and the HTTP loop has ended.                *)
Shutdown ==
  /\ Unlocked /\ \A e \in 1 .. Len(made) : Holders(e) = {}
  /\ running' = FALSE
  /\ states' = [id \in StateIds |-> 0] /\ file' = [id \in StateIds |-> None]
  /\ UNCHANGED <<made, upload, drawn, call, answer, reused>>

Next ==
  \/ \E id \in StateIds, name \in Names, bytes \in Contents :
       Retry(id, name, bytes) \/ BeginUpload(id, name, bytes)
  \/ Validate \/ FailUpload \/ Commit \/ Shutdown
  \/ \E id \in StateIds : Erase(id)
  \/ \E c \in Calls, id \in StateIds : Acquire(c, id)
  \/ \E c \in Calls : Load(c) \/ Drop(c)

Spec == Init /\ [][Next]_vars

-----------------------------------------------------------------------------
(* Acquired states and listed states keep their bytes, whatever is erased,   *)
(* uploaded or dropped in the meantime: a generation loads the bytes of the  *)
(* entry it acquired, and the file of a listed id holds what was uploaded    *)
(* under it.  The entries of one id share a path, so neither is so for an id *)
(* uploaded again after a deletion that a request reading it has survived:   *)
(* the upload writes over the file being read, and the request's end then    *)
(* removes the new one.                                                    *)
LoadsWhatItAcquired ==
  /\ \A c \in Calls : call[c].stage = "loaded" =>
       LET e == made[call[c].entry] IN e.id \in reused \/ call[c].read = e.bytes
  /\ \A id \in StateIds : states[id] # 0 =>
       id \in reused \/ file[id] = made[states[id]].bytes

(* Every file in the directory belongs to an upload in progress, a listed    *)
(* entry or an entry some request still reads: nothing is left on disk by    *)
(* refused uploads and by deletions.                                       *)
NoOrphanFile ==
  \A id \in StateIds : file[id] # None =>
    \/ upload # None /\ upload.id = id
    \/ \E e \in 1 .. Len(made) : made[e].id = id /\ (states[id] = e \/ Holders(e) # {})

(* An upload is never answered with an entry that holds something else: a    *)
(* retry is recognised by name and digest, not by its id alone.              *)
AnsweredWithItsUpload == answer # None => made[answer.entry] = answer.sent

(* A listed id stands for its first upload until it is deleted: retries and   *)
(* conflicting uploads return or keep the first copy and its time.           *)
FirstCopyStaysStep ==
  \A id \in StateIds : states[id] # 0 /\ states'[id] # 0 => states'[id] = states[id]
==============================================================================
