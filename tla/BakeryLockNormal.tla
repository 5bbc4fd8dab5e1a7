-------------------------- MODULE BakeryLockNormal --------------------------
(***************************************************************************)
(* The bakery lock of bakery_lock_normal.c, the one an A3700 build uses    *)
(* (USE_COHERENT_MEM=0): lock data lives in cacheable memory, and the CPUs *)
(* that contend may have their data cache on or off.  A CPU that powers    *)
(* down takes the lock with its cache on and releases it with the cache    *)
(* off; a CPU that comes back from reset does the opposite.                *)
(*                                                                         *)
(* The lock data of a CPU has a cache line of its own.  The caches that are*)
(* on are coherent with each other, so each line has at most one cached    *)
(* value.  A CPU whose cache is off reads and writes memory and sees none  *)
(* of it.  Lines are filled speculatively and evicted at any time.         *)
(***************************************************************************)
EXTENDS BakeryTicket

CONSTANT MaxTicket      \* bound: no acquisition starts above this ticket

ASSUME MaxTicketAssumption == MaxTicket \in Nat

VARIABLES
  pc,       \* where each CPU is in bakery_lock_get/bakery_lock_release
  mem,      \* lock_data of each CPU as main memory has it
  line,     \* lock_data of each CPU as the caches that are on have it
  dcache,   \* SCTLR_EL3.C of each CPU
  cached,   \* is_cached of each CPU, read when the function was entered
  they,     \* loop index of each CPU
  ticket,   \* my_ticket of each CPU
  theirs    \* their_ticket of each CPU

vars == <<pc, mem, line, dcache, cached, they, ticket, theirs>>
lockVars == <<pc, dcache, cached, they, ticket, theirs>>

Data(choosing, number) == [choosing |-> choosing, number |-> number]

Free == Data(FALSE, 0)

Absent == [state |-> "absent", data |-> Free]
Clean(d) == [state |-> "clean", data |-> d]
Dirty(d) == [state |-> "dirty", data |-> d]

(* Between a store to lock_data and its write_cache_op().                  *)
Storing == {"announced", "chosen", "released"}

(* Before the read_cache_op() of a load, and between it and the load.      *)
Loading == {"scan", "check", "wait"}
AfterOp == [scan |-> "scan load", check |-> "check load", wait |-> "wait load"]

Locations ==
  {"idle", "held"} \cup Storing \cup Loading \cup {AfterOp[l] : l \in Loading}

TypeOK ==
  LET Word == [choosing : BOOLEAN, number : Nat]
  IN /\ pc \in [CPU -> Locations]
     /\ mem \in [CPU -> Word]
     /\ line \in [CPU -> [state : {"absent", "clean", "dirty"}, data : Word]]
     /\ dcache \in [CPU -> BOOLEAN]
     /\ cached \in [CPU -> BOOLEAN]
     /\ they \in [CPU -> 0..N]
     /\ ticket \in [CPU -> Nat]
     /\ theirs \in [CPU -> Nat]

(* The primary CPU boots with its cache on, the others come from reset.    *)
Init ==
  /\ pc = [c \in CPU |-> "idle"]
  /\ mem = [c \in CPU |-> Free]
  /\ line = [c \in CPU |-> Absent]
  /\ dcache = [c \in CPU |-> c = 0]
  /\ cached = [c \in CPU |-> FALSE]
  /\ they = [c \in CPU |-> 0]
  /\ ticket = [c \in CPU |-> 0]
  /\ theirs = [c \in CPU |-> 0]

-----------------------------------------------------------------------------
(* Memory accesses and cache maintenance *)

Goto(c, l) == pc' = [pc EXCEPT ![c] = l]

(* What a load of d's lock data returns.                                   *)
Value(d, viaCache) ==
  IF viaCache /\ line[d].state # "absent" THEN line[d].data ELSE mem[d]

(* A load of d's lock data fills the line when it goes through the cache.  *)
Load(d, viaCache) ==
  /\ line' = IF viaCache /\ line[d].state = "absent"
               THEN [line EXCEPT ![d] = Clean(mem[d])]
               ELSE line
  /\ UNCHANGED mem

(* A store by c to its own lock data.                                      *)
Store(c, data, viaCache) ==
  IF viaCache
    THEN line' = [line EXCEPT ![c] = Dirty(data)] /\ UNCHANGED mem
    ELSE mem' = [mem EXCEPT ![c] = data] /\ UNCHANGED line

WriteBack(d) ==
  mem' = IF line[d].state = "dirty" THEN [mem EXCEPT ![d] = line[d].data] ELSE mem

(* dccvac: clean the line.                                                 *)
Dccvac(d) ==
  /\ WriteBack(d)
  /\ line' = IF line[d].state = "dirty"
               THEN [line EXCEPT ![d] = Clean(line[d].data)]
               ELSE line

(* dcivac: invalidate the line, losing what it holds.  The operation of a  *)
(* CPU that left coherency may not reach the other caches.                 *)
Dcivac(d) ==
  /\ line' \in {[line EXCEPT ![d] = Absent], line}
  /\ UNCHANGED mem

(* dccivac: clean and invalidate the line.                                 *)
Dccivac(d) ==
  /\ WriteBack(d)
  /\ line' = [line EXCEPT ![d] = Absent]

-----------------------------------------------------------------------------
(* write_cache_op() and read_cache_op() *)

(* Faulty variant: invalidates after a cached store too.                   *)
WriteCacheOpInvalidate(c) == Dcivac(c)

WriteCacheOp(c) == IF cached[c] THEN Dccvac(c) ELSE Dcivac(c)

(* Faulty variant: loads without removing a stale line first.              *)
ReadCacheOpNone(c) == UNCHANGED <<mem, line>>

ReadCacheOp(c) == IF cached[c] THEN Dccivac(they[c]) ELSE UNCHANGED <<mem, line>>

(* The maintenance of the line is a step of its own, before each load ...  *)
BeforeLoad(c) ==
  /\ pc[c] \in Loading
  /\ they[c] < N
  /\ ReadCacheOp(c)
  /\ Goto(c, AfterOp[pc[c]])
  /\ UNCHANGED <<dcache, cached, they, ticket, theirs>>

(* ... and after each store.                                               *)
AfterStore(c) ==
  /\ pc[c] \in Storing
  /\ WriteCacheOp(c)
  /\ Goto(c, CASE pc[c] = "announced" -> "scan"
               [] pc[c] = "chosen" -> "check"
               [] pc[c] = "released" -> "idle")
  /\ UNCHANGED <<dcache, cached, they, ticket, theirs>>

-----------------------------------------------------------------------------
(* bakery_lock_get *)

(* Enter the function and store (CHOOSING_TICKET, 0).                      *)
StartChoosing(c) ==
  /\ pc[c] = "idle"
  /\ \A d \in CPU : \A t \in {ticket[d], mem[d].number, line[d].data.number} :
       t <= MaxTicket
  /\ cached' = [cached EXCEPT ![c] = dcache[c]]
  /\ Store(c, Data(TRUE, 0), dcache[c])
  /\ they' = [they EXCEPT ![c] = First(c)]
  /\ Goto(c, "announced")
  /\ UNCHANGED <<dcache, ticket, theirs>>

ReadTicket(c) ==
  LET number == Value(they[c], cached[c]).number
  IN /\ pc[c] = "scan load"
     /\ Load(they[c], cached[c])
     /\ ticket' = [ticket EXCEPT ![c] = IF number > @ THEN number ELSE @]
     /\ they' = [they EXCEPT ![c] = Following(c, @)]
     /\ Goto(c, "scan")
     /\ UNCHANGED <<dcache, cached, theirs>>

(* ++my_ticket; store (CHOSEN_TICKET, my_ticket).                          *)
ChooseTicket(c) ==
  /\ pc[c] = "scan"
  /\ they[c] >= N
  /\ ticket' = [ticket EXCEPT ![c] = @ + 1]
  /\ Store(c, Data(FALSE, Field(ticket[c] + 1)), cached[c])
  /\ they' = [they EXCEPT ![c] = First(c)]
  /\ Goto(c, "chosen")
  /\ UNCHANGED <<dcache, cached, theirs>>

(* Load a contender's lock data: load it again while it is choosing, wait  *)
(* for it if it goes first, else visit the next one.                       *)
Check(c) ==
  LET data == Value(they[c], cached[c])
      goesFirst == /\ data.number # 0
                   /\ Priority(data.number, they[c]) < Priority(ticket[c], c)
  IN /\ pc[c] = "check load"
     /\ Load(they[c], cached[c])
     /\ \/ /\ data.choosing
           /\ Goto(c, "check")
           /\ UNCHANGED <<they, theirs>>
        \/ /\ ~ data.choosing /\ goesFirst
           /\ Goto(c, "wait")
           /\ theirs' = [theirs EXCEPT ![c] = data.number]
           /\ UNCHANGED they
        \/ /\ ~ data.choosing /\ ~ goesFirst
           /\ Goto(c, "check")
           /\ they' = [they EXCEPT ![c] = Following(c, @)]
           /\ UNCHANGED theirs
     /\ UNCHANGED <<dcache, cached, ticket>>

(* After WFE, load the contender's ticket again until it has changed; from *)
(* then on their_ticket is not used.                                       *)
Wait(c) ==
  LET same == Value(they[c], cached[c]).number = theirs[c]
  IN /\ pc[c] = "wait load"
     /\ Load(they[c], cached[c])
     /\ Goto(c, IF same THEN "wait" ELSE "check")
     /\ they' = IF same THEN they ELSE [they EXCEPT ![c] = Following(c, @)]
     /\ theirs' = IF same THEN theirs ELSE [theirs EXCEPT ![c] = 0]
     /\ UNCHANGED <<dcache, cached, ticket>>

Acquired(c) ==
  /\ pc[c] = "check"
  /\ they[c] >= N
  /\ Goto(c, "held")
  /\ UNCHANGED <<mem, line, dcache, cached, they, ticket, theirs>>

(* bakery_lock_release: is_cached is read again.  A CPU that took the lock *)
(* on its way back from reset has turned its cache on by then.             *)
Release(c) ==
  /\ pc[c] = "held"
  /\ cached[c] \/ dcache[c]
  /\ cached' = [cached EXCEPT ![c] = dcache[c]]
  /\ Store(c, Free, dcache[c])
  /\ they' = [they EXCEPT ![c] = 0]
  /\ ticket' = [ticket EXCEPT ![c] = 0]
  /\ theirs' = [theirs EXCEPT ![c] = 0]
  /\ Goto(c, "released")
  /\ UNCHANGED dcache

-----------------------------------------------------------------------------
(* The holder and the hardware *)

(* psci_do_pwrdown_sequence: the cache of the holder is flushed and off.   *)
CacheOff(c) ==
  /\ pc[c] = "held"
  /\ cached[c] /\ dcache[c]
  /\ dcache' = [dcache EXCEPT ![c] = FALSE]
  /\ Dccivac(c)
  /\ UNCHANGED <<pc, cached, they, ticket, theirs>>

(* psci_do_pwrup_cache_maintenance: the cache of the holder is on again.   *)
CacheOn(c) ==
  /\ pc[c] = "held"
  /\ ~ cached[c] /\ ~ dcache[c]
  /\ dcache' = [dcache EXCEPT ![c] = TRUE]
  /\ UNCHANGED <<pc, mem, line, cached, they, ticket, theirs>>

(* A speculative fill, by any CPU whose cache is on.                       *)
Fill(d) ==
  /\ line[d].state = "absent"
  /\ \E c \in CPU : dcache[c]
  /\ line' = [line EXCEPT ![d] = Clean(mem[d])]
  /\ UNCHANGED <<mem, lockVars>>

Evict(d) ==
  /\ line[d].state # "absent"
  /\ Dccivac(d)
  /\ UNCHANGED lockVars

Next ==
  \E c \in CPU :
    \/ StartChoosing(c)
    \/ AfterStore(c)
    \/ BeforeLoad(c)
    \/ ReadTicket(c)
    \/ ChooseTicket(c)
    \/ Check(c)
    \/ Wait(c)
    \/ Acquired(c)
    \/ Release(c)
    \/ CacheOff(c)
    \/ CacheOn(c)
    \/ Fill(c)
    \/ Evict(c)

Spec == Init /\ [][Next]_vars

-----------------------------------------------------------------------------
(* Properties *)

(* At most one CPU holds the lock, whoever has its cache on or off.        *)
MutualExclusion ==
  \A c, d \in CPU : pc[c] = "held" /\ pc[d] = "held" => c = d

(* What c last stored in its lock_data.                                    *)
LastStored(c) ==
  CASE pc[c] \in {"idle", "released"} -> Free
    [] pc[c] \in {"announced", "scan", "scan load"} -> Data(TRUE, 0)
    [] OTHER -> Data(FALSE, ticket[c])

(* Once its write_cache_op() is done, what a CPU stored is in main memory, *)
(* for contenders whose cache is off, and no dirty line can overwrite it.  *)
(* So the assertions of bakery_get_ticket ("Prevent recursive acquisition")*)
(* and bakery_lock_release hold, also when the cache was turned off or on  *)
(* between them: the ticket is 0 before, and is not while the lock is held.*)
StoresReachMemory ==
  /\ TypeOK
  /\ \A c \in CPU :
       /\ pc[c] \notin Storing => mem[c] = LastStored(c) /\ line[c].state # "dirty"
       /\ pc[c] = "held" => ticket[c] # 0

-----------------------------------------------------------------------------
(* The inductive invariant *)

(* The ticket of the CPU is in memory, where every contender sees it.      *)
Visible == {"check", "check load", "wait", "wait load", "held"}
Chosen == Visible \cup {"chosen"}

(* my_ticket and the loops say where their CPU is.                         *)
ControlOK(c) ==
  /\ pc[c] \in Chosen => ticket[c] > 0
  /\ pc[c] \in {"idle", "announced", "released"} => ticket[c] = 0
  /\ pc[c] \in {"announced", "chosen"} => they[c] = First(c)
  /\ pc[c] \notin {"idle", "held", "released"} => they[c] # c
  /\ pc[c] \in {"scan load", "check load", "wait", "wait load"} => they[c] < N

(* Where the last store of c is: in a dirty line until its write_cache_op()*)
(* or an eviction, and the one before it in memory, else in memory.        *)
MemoryOK(c) ==
  /\ line[c].state = "dirty" =>
       /\ pc[c] \in Storing /\ cached[c] /\ line[c].data = LastStored(c)
       /\ pc[c] = "announced" => mem[c] = Free
       /\ pc[c] = "chosen" => mem[c] = Data(TRUE, 0)
  /\ line[c].state # "dirty" => mem[c] = LastStored(c)

(* c has visited d and found that it does not go first.                    *)
Passed(c, d) == pc[c] = "held" \/ (pc[c] \in Visible /\ d < they[c])

(* d will not enter before c: it is out, or has yet to load c's ticket, or *)
(* is about to and will not find an older one, or has seen it, or took a   *)
(* ticket that yields to c's.                                              *)
Behind(d, c) ==
  \/ pc[d] \in {"idle", "announced", "released"}
  \/ /\ pc[d] \in {"scan", "scan load"}
     /\ \/ they[d] < c \/ ticket[d] >= ticket[c]
        \/ they[d] = c /\ (pc[d] = "scan load" => Value(c, cached[d]).number >= ticket[c])
  \/ pc[d] \in Chosen /\ Priority(ticket[c], c) < Priority(ticket[d], d)

(* What c makes of it when it loads v as the lock data of d is true now,   *)
(* although v may be what d had stored some time ago.                      *)
Verdict(c, d, v) ==
  \/ v.choosing
  \/ Behind(d, c)
  \/ /\ v.number # 0 /\ Priority(v.number, d) < Priority(ticket[c], c)
     /\ pc[d] \in Chosen /\ ticket[d] = v.number

(* c passes only those that are behind it; the CPU it waits for has the    *)
(* ticket that c saw, and c will see it again, or is behind; and a line    *)
(* that was filled after c's read_cache_op() does not mislead c.           *)
Ordered(c, d) ==
  /\ Passed(c, d) => Behind(d, c)
  /\ pc[c] \in {"wait", "wait load"} /\ they[c] = d =>
       \/ Behind(d, c)
       \/ /\ pc[d] \in Chosen /\ ticket[d] = theirs[c]
          /\ cached[c] \/ mem[d].number = theirs[c]
  /\ they[c] = d /\ cached[c] /\ line[d].state = "clean" =>
       /\ pc[c] = "check load" => Verdict(c, d, line[d].data)
       /\ pc[c] = "wait load" => line[d].data.number = theirs[c] \/ Behind(d, c)

(* The strengthening of MutualExclusion that every step preserves.         *)
IInv ==
  /\ TypeOK
  /\ \A c \in CPU : ControlOK(c) /\ MemoryOK(c)
  /\ \A c, d \in CPU : c # d => Ordered(c, d)

(* A ticket that is about to be stored fits the 15 bits of its field.      *)
NoWrap == \A c \in CPU : pc[c] = "scan" => ticket[c] + 1 < TicketLimit
=============================================================================
