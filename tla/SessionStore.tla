----------------------------- MODULE SessionStore -----------------------------
(***************************************************************************)
(* What the session cache promises: a map from keys to conversation states  *)
(* in which every turn reads the last state written and writes its own.     *)
(* A state is the sequence of turns it has been through.  Orderly shutdown  *)
(* and restart lose nothing.  A crash may bring back an earlier state of a  *)
(* key or none, but never one from before the key was deleted.             *)
(***************************************************************************)
EXTENDS Naturals, Sequences

CONSTANTS
  Turns,     \* requests that advance a conversation
  Keys,      \* session ids with their model namespace
  KeyOf,     \* KeyOf[r]: the key r reads and writes
  Fresh,     \* turns that start from another state than the stored one
  None       \* no state

VARIABLES
  store,     \* store[k]: the state of k, or None
  past,      \* past[k]: the states k has had since it was last deleted
  held,      \* held[r]: the state turn r works on
  open,      \* between initialize() and shutdown()
  crashes    \* crashes so far

vars == <<store, past, held, open, crashes>>

Init ==
  /\ store = [k \in Keys |-> None] /\ past = [k \in Keys |-> {}]
  /\ held = [r \in Turns |-> <<>>]
  /\ open = TRUE /\ crashes = 0

Read(r) ==
  /\ held' = [held EXCEPT ![r] =
       IF r \notin Fresh /\ open /\ store[KeyOf[r]] # None THEN store[KeyOf[r]] ELSE <<>>]
  /\ UNCHANGED <<store, past, open, crashes>>

Write(r) ==
  /\ open
  /\ LET k == KeyOf[r]
         s == Append(held[r], r)
     IN  /\ store' = [store EXCEPT ![k] = s]
         /\ past' = [past EXCEPT ![k] = @ \cup {s}]
  /\ UNCHANGED <<held, open, crashes>>

Delete(k) ==
  /\ open
  /\ store' = [store EXCEPT ![k] = None]
  /\ past' = [past EXCEPT ![k] = {}]
  /\ UNCHANGED <<held, open, crashes>>

Close == open /\ open' = FALSE /\ UNCHANGED <<store, past, held, crashes>>
Open  == ~open /\ open' = TRUE /\ UNCHANGED <<store, past, held, crashes>>

Crash ==
  /\ crashes' = crashes + 1 /\ open' = FALSE
  /\ DOMAIN store' = Keys
  /\ \A k \in Keys : store'[k] \in past[k] \cup {None}
  /\ UNCHANGED <<past, held>>

Next == \/ \E r \in Turns : Read(r) \/ Write(r)
        \/ \E k \in Keys : Delete(k)
        \/ Close \/ Open \/ Crash

Spec == Init /\ [][Next]_vars
=============================================================================
