------------------------------ MODULE FcfsLock ------------------------------
(***************************************************************************)
(* What a bakery lock promises: mutual exclusion, granted first come first *)
(* served.  A CPU that calls the get function first arrives (it announces  *)
(* that it is taking a ticket), then queues (it has its ticket), then holds*)
(* the lock.  ahead[c] is the set of CPUs that were queueing, or held the  *)
(* lock, before c arrived and have not released it since: c may hold the   *)
(* lock only when all of them are gone.                                    *)
(***************************************************************************)
CONSTANT CPU

VARIABLES phase, ahead

vars == <<phase, ahead>>

Phases == {"idle", "arriving", "queued", "held"}

TypeOK ==
  /\ phase \in [CPU -> Phases]
  /\ ahead \in [CPU -> SUBSET CPU]

Init ==
  /\ phase = [c \in CPU |-> "idle"]
  /\ ahead = [c \in CPU |-> {}]

Arrive(c) ==
  /\ phase[c] = "idle"
  /\ phase' = [phase EXCEPT ![c] = "arriving"]
  /\ ahead' = [ahead EXCEPT ![c] = {d \in CPU : phase[d] \in {"queued", "held"}}]

Queue(c) ==
  /\ phase[c] = "arriving"
  /\ phase' = [phase EXCEPT ![c] = "queued"]
  /\ UNCHANGED ahead

Hold(c) ==
  /\ phase[c] = "queued"
  /\ ahead[c] = {}
  /\ \A d \in CPU : phase[d] # "held"
  /\ phase' = [phase EXCEPT ![c] = "held"]
  /\ UNCHANGED ahead

Release(c) ==
  /\ phase[c] = "held"
  /\ phase' = [phase EXCEPT ![c] = "idle"]
  /\ ahead' = [d \in CPU |-> ahead[d] \ {c}]

Next == \E c \in CPU : Arrive(c) \/ Queue(c) \/ Hold(c) \/ Release(c)

Spec == Init /\ [][Next]_vars
=============================================================================
