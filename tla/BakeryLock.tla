----------------------------- MODULE BakeryLock -----------------------------
(***************************************************************************)
(* The bakery lock that guards the PSCI power domains, as the algorithm of *)
(* lib/locks/bakery: one action for every load or store of shared lock     *)
(* data, the CPUs interleaved in any order.  Here a load returns the last  *)
(* value stored, as in bakery_lock_coherent.c; BakeryLockNormal models the *)
(* cache maintenance that bakery_lock_normal.c does around these accesses. *)
(*                                                                         *)
(* A CPU that has to wait sits in WFE until an event arrives, and a release*)
(* ends with SEV: the event register of each CPU is part of the state, so  *)
(* that a lost wake-up would show.                                         *)
(*                                                                         *)
(* Tickets are bounded by MaxTicket in the guard of the action that starts *)
(* an acquisition: a CPU does not contend while a larger ticket is out.    *)
(***************************************************************************)
EXTENDS BakeryTicket

CONSTANT MaxTicket      \* bound: no acquisition starts above this ticket

ASSUME MaxTicketAssumption == MaxTicket \in Nat

VARIABLES
  pc,        \* where each CPU is in bakery_lock_get/bakery_lock_release
  choosing,  \* the choosing bit of each CPU's lock_data
  number,    \* the ticket field of each CPU's lock_data
  they,      \* loop index of each CPU
  ticket,    \* my_ticket of each CPU
  theirs,    \* their_ticket of each CPU
  event,     \* the event register of each CPU, set by SEV, cleared by WFE
  ahead      \* history: who was queueing or held the lock when c arrived

vars == <<pc, choosing, number, they, ticket, theirs, event, ahead>>

Locations == {"idle", "scan", "check", "wfe", "reread", "held", "sev"}

(* The CPUs that have a ticket.                                            *)
Chosen == {"check", "wfe", "reread", "held"}

TypeOK ==
  /\ pc \in [CPU -> Locations]
  /\ choosing \in [CPU -> BOOLEAN]
  /\ number \in [CPU -> Nat]
  /\ they \in [CPU -> Nat]
  /\ ticket \in [CPU -> Nat]
  /\ theirs \in [CPU -> Nat]
  /\ event \in [CPU -> BOOLEAN]
  /\ ahead \in [CPU -> SUBSET CPU]

Init ==
  /\ pc = [c \in CPU |-> "idle"]
  /\ choosing = [c \in CPU |-> FALSE]
  /\ number = [c \in CPU |-> 0]
  /\ they = [c \in CPU |-> 0]
  /\ ticket = [c \in CPU |-> 0]
  /\ theirs = [c \in CPU |-> 0]
  /\ event = [c \in CPU |-> FALSE]
  /\ ahead = [c \in CPU |-> {}]

-----------------------------------------------------------------------------
(* bakery_get_ticket *)

(* Store (CHOOSING_TICKET, 0) and start the scan for the highest ticket.   *)
StartChoosing(c) ==
  /\ pc[c] = "idle"
  /\ \A d \in CPU : ticket[d] <= MaxTicket
  /\ choosing' = [choosing EXCEPT ![c] = TRUE]
  /\ number' = [number EXCEPT ![c] = 0]
  /\ ticket' = [ticket EXCEPT ![c] = 0]
  /\ they' = [they EXCEPT ![c] = First(c)]
  /\ ahead' = [ahead EXCEPT ![c] = {d \in CPU : pc[d] \in Chosen}]
  /\ pc' = [pc EXCEPT ![c] = "scan"]
  /\ UNCHANGED <<theirs, event>>

(* Faulty variant: keeps the last ticket seen, not the highest.            *)
ReadTicketLast(c) ==
  /\ pc[c] = "scan"
  /\ they[c] < N
  /\ ticket' = [ticket EXCEPT ![c] = number[they[c]]]
  /\ they' = [they EXCEPT ![c] = Following(c, @)]
  /\ UNCHANGED <<pc, choosing, number, theirs, event, ahead>>

(* Load the ticket of the next contender and keep the highest seen.        *)
ReadTicket(c) ==
  /\ pc[c] = "scan"
  /\ they[c] < N
  /\ ticket' = [ticket EXCEPT ![c] =
                  IF number[they[c]] > @ THEN number[they[c]] ELSE @]
  /\ they' = [they EXCEPT ![c] = Following(c, @)]
  /\ UNCHANGED <<pc, choosing, number, theirs, event, ahead>>

(* ++my_ticket; store (CHOSEN_TICKET, my_ticket).                          *)
ChooseTicket(c) ==
  /\ pc[c] = "scan"
  /\ they[c] >= N
  /\ ticket' = [ticket EXCEPT ![c] = @ + 1]
  /\ choosing' = [choosing EXCEPT ![c] = FALSE]
  /\ number' = [number EXCEPT ![c] = Field(ticket[c] + 1)]
  /\ they' = [they EXCEPT ![c] = First(c)]
  /\ pc' = [pc EXCEPT ![c] = "check"]
  /\ UNCHANGED <<theirs, event, ahead>>

-----------------------------------------------------------------------------
(* bakery_lock_get, after the ticket is taken *)

(* Faulty variant: compares the tickets and forgets the positions.         *)
HasPriorityByTicket(c, d) == number[d] # 0 /\ number[d] < ticket[c]

(* d contends and goes before c.                                           *)
HasPriority(c, d) ==
  number[d] # 0 /\ Priority(number[d], d) < Priority(ticket[c], c)

(* The contender is not choosing, and goes after us or does not contend.   *)
Pass(c) ==
  /\ pc[c] = "check"
  /\ they[c] < N
  /\ ~ choosing[they[c]]
  /\ ~ HasPriority(c, they[c])
  /\ they' = [they EXCEPT ![c] = Following(c, @)]
  /\ UNCHANGED <<pc, choosing, number, ticket, theirs, event, ahead>>

(* The contender is not choosing and goes first: wait for it.              *)
Yield(c) ==
  /\ pc[c] = "check"
  /\ they[c] < N
  /\ ~ choosing[they[c]]
  /\ HasPriority(c, they[c])
  /\ theirs' = [theirs EXCEPT ![c] = number[they[c]]]
  /\ pc' = [pc EXCEPT ![c] = "wfe"]
  /\ UNCHANGED <<choosing, number, they, ticket, event, ahead>>

Wfe(c) ==
  /\ pc[c] = "wfe"
  /\ event[c]
  /\ event' = [event EXCEPT ![c] = FALSE]
  /\ pc' = [pc EXCEPT ![c] = "reread"]
  /\ UNCHANGED <<choosing, number, they, ticket, theirs, ahead>>

(* Faulty variant: waits until the contender has no ticket at all.         *)
RereadUntilFree(c) ==
  /\ pc[c] = "reread"
  /\ IF number[they[c]] # 0
       THEN /\ pc' = [pc EXCEPT ![c] = "wfe"]
            /\ UNCHANGED they
       ELSE /\ pc' = [pc EXCEPT ![c] = "check"]
            /\ they' = [they EXCEPT ![c] = Following(c, @)]
  /\ UNCHANGED <<choosing, number, ticket, theirs, event, ahead>>

(* Load the contender's ticket again: go on once it has changed.           *)
Reread(c) ==
  /\ pc[c] = "reread"
  /\ IF number[they[c]] = theirs[c]
       THEN /\ pc' = [pc EXCEPT ![c] = "wfe"]
            /\ UNCHANGED they
       ELSE /\ pc' = [pc EXCEPT ![c] = "check"]
            /\ they' = [they EXCEPT ![c] = Following(c, @)]
  /\ UNCHANGED <<choosing, number, ticket, theirs, event, ahead>>

(* The loop is over: lock acquired.                                        *)
Acquired(c) ==
  /\ pc[c] = "check"
  /\ they[c] >= N
  /\ pc' = [pc EXCEPT ![c] = "held"]
  /\ UNCHANGED <<choosing, number, they, ticket, theirs, event, ahead>>

-----------------------------------------------------------------------------
(* bakery_lock_release *)

(* lock_data = 0, before the barrier.  The locals are out of scope.        *)
Release(c) ==
  /\ pc[c] = "held"
  /\ choosing' = [choosing EXCEPT ![c] = FALSE]
  /\ number' = [number EXCEPT ![c] = 0]
  /\ ahead' = [d \in CPU |-> ahead[d] \ {c}]
  /\ they' = [they EXCEPT ![c] = 0]
  /\ ticket' = [ticket EXCEPT ![c] = 0]
  /\ theirs' = [theirs EXCEPT ![c] = 0]
  /\ pc' = [pc EXCEPT ![c] = "sev"]
  /\ UNCHANGED event

(* SEV, after the barrier: an event for every CPU.                         *)
Sev(c) ==
  /\ pc[c] = "sev"
  /\ event' = [d \in CPU |-> TRUE]
  /\ pc' = [pc EXCEPT ![c] = "idle"]
  /\ UNCHANGED <<choosing, number, they, ticket, theirs, ahead>>

-----------------------------------------------------------------------------
(* Everything a CPU does once it has called bakery_lock_get.               *)
Step(c) ==
  \/ ReadTicket(c)
  \/ ChooseTicket(c)
  \/ Pass(c)
  \/ Yield(c)
  \/ Wfe(c)
  \/ Reread(c)
  \/ Acquired(c)
  \/ Release(c)
  \/ Sev(c)

Next == \E c \in CPU : StartChoosing(c) \/ Step(c)

Spec == Init /\ [][Next]_vars

(* A CPU in EL3 runs with interrupts masked and releases what it took, so  *)
(* it keeps taking the steps it can take.  Nothing makes it call the lock. *)
FairSpec == Spec /\ \A c \in CPU : WF_vars(Step(c))

-----------------------------------------------------------------------------
(* Properties *)

(* At most one CPU is between bakery_lock_get and bakery_lock_release.     *)
MutualExclusion ==
  \A c, d \in CPU : pc[c] = "held" /\ pc[d] = "held" => c = d

(* c has visited d in the loop of bakery_lock_get.                         *)
Passed(c, d) == pc[c] = "held" \/ (pc[c] \in Chosen /\ d < they[c])

(* d will not enter before c: it is out, or still has c's ticket to read,  *)
(* or has seen it, or took a ticket that yields to c's.                    *)
Behind(d, c) ==
  \/ pc[d] \in {"idle", "sev"}
  \/ pc[d] = "scan" /\ (they[d] <= c \/ ticket[d] >= number[c])
  \/ pc[d] \in Chosen /\ Priority(number[c], c) < Priority(number[d], d)

(* lock_data and my_ticket say where their CPU is.                         *)
LockDataOK ==
  \A c \in CPU :
    /\ choosing[c] <=> pc[c] = "scan"
    /\ pc[c] \in Chosen => number[c] = ticket[c] /\ number[c] > 0
    /\ pc[c] \notin Chosen => number[c] = 0
    /\ pc[c] \in {"scan", "check", "wfe", "reread"} => they[c] # c
    /\ pc[c] \in {"wfe", "reread"} => they[c] < N
    /\ pc[c] = "held" => they[c] >= N

(* Whoever c has visited is behind it, and the CPU that c waits for has    *)
(* the ticket that c saw, or has given it up and is behind.                *)
Ordered(c, d) ==
  /\ Passed(c, d) => Behind(d, c)
  /\ pc[c] \in {"wfe", "reread"} /\ they[c] = d =>
       \/ Behind(d, c)
       \/ pc[d] \in Chosen /\ number[d] = theirs[c]

OrderOK == \A c, d \in CPU : c # d => Ordered(c, d)

(* Whoever arrived after c had its ticket is behind c.                     *)
Preceded(d, c) ==
  pc[c] \in Chosen /\ (pc[d] \in Chosen \cup {"scan"} => Behind(d, c))

AheadOK == \A c, d \in CPU : c \in ahead[d] => Preceded(d, c)

(* The strengthening of MutualExclusion that every step preserves.         *)
IInv == TypeOK /\ LockDataOK /\ OrderOK /\ AheadOK

(* A ticket that is about to be stored fits the 15 bits of its field.      *)
NoWrap == \A c \in CPU : pc[c] = "scan" => ticket[c] + 1 < TicketLimit

(* The lock implements FcfsLock: mutual exclusion, first come first served.*)
Phase == [c \in CPU |->
           CASE pc[c] \in {"idle", "sev"} -> "idle"
             [] pc[c] = "scan" -> "arriving"
             [] pc[c] \in {"check", "wfe", "reread"} -> "queued"
             [] OTHER -> "held"]

Fcfs == INSTANCE FcfsLock WITH phase <- Phase, ahead <- ahead

RefinesFcfs == Fcfs!Spec

(* Every call of bakery_lock_get ends with the lock held: no CPU starves,  *)
(* none waits for an event that has already been missed.                   *)
EventuallyHeld == \A c \in CPU : pc[c] = "scan" ~> pc[c] = "held"
=============================================================================
