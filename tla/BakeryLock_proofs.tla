------------------------- MODULE BakeryLock_proofs --------------------------
(***************************************************************************)
(* Proofs about BakeryLock, for every number of CPUs up to 256: IInv is an *)
(* invariant, hence mutual exclusion, and the lock implements FcfsLock.    *)
(* The tickets must not outgrow the 15 bits of their field (NoWrap).       *)
(***************************************************************************)
EXTENDS BakeryLock, TLAPS

(* CPU positions are the naturals below N, all of them below 256.          *)
LEMMA CPUFacts ==
  /\ N \in Nat
  /\ \A c \in CPU : c \in Nat /\ c < N /\ c < 256
  /\ \A t \in Nat : t < N => t \in CPU
BY NAssumption DEF CPU

(* A ticket that fits its field is stored unchanged.                       *)
LEMMA FieldFits ==
  ASSUME NEW t \in Nat, t < TicketLimit
  PROVE  Field(t) = t
BY TicketLimitAssumption DEF Field

(* The loops visit every other CPU, in the order of their positions.       *)
LEMMA VisitingOrder ==
  ASSUME NEW c \in Nat, NEW t \in Nat, NEW d \in Nat, d # c, d # t
  PROVE  Following(c, t) \in Nat /\ (d < Following(c, t) <=> d < t)
BY DEF Following

(* The initial state: nobody contends.                                     *)
LEMMA InitInv == Init => IInv
<1> SUFFICES ASSUME Init PROVE IInv
  OBVIOUS
<1>1. TypeOK
  BY DEF Init, TypeOK, Locations
<1>2. LockDataOK /\ OrderOK /\ AheadOK
  BY DEF Init, LockDataOK, OrderOK, Ordered, AheadOK, Passed, Behind, Chosen
<1> QED
  BY <1>1, <1>2 DEF IInv

(* A CPU that arrives is behind every CPU that has a ticket. *)
LEMMA StartChoosingInv ==
  ASSUME IInv, NoWrap, NEW c \in CPU, StartChoosing(c)
  PROVE  IInv'
<1> USE CPUFacts DEF IInv, TypeOK, StartChoosing, Chosen
<1>1. TypeOK'
  BY DEF Locations, First
<1>2. LockDataOK'
  BY DEF LockDataOK, First
<1>3. OrderOK'
  <2> SUFFICES ASSUME NEW i \in CPU, NEW j \in CPU, i # j
               PROVE  Ordered(i, j)'
    BY DEF OrderOK
  <2> USE DEF Ordered
  <2> QED
    BY DEF LockDataOK, OrderOK, Passed, Behind, First
<1>4. AheadOK'
  <2> SUFFICES ASSUME NEW i \in CPU, NEW j \in CPU, (i \in ahead[j])'
               PROVE  Preceded(j, i)'
    BY DEF AheadOK
  <2> USE DEF Preceded
  <2> QED
    BY DEF LockDataOK, AheadOK, Behind, First
<1> QED
  BY <1>1, <1>2, <1>3, <1>4

(* A CPU that reads a ticket gets one above it. *)
LEMMA ReadTicketInv ==
  ASSUME IInv, NoWrap, NEW c \in CPU, ReadTicket(c)
  PROVE  IInv'
<1> USE CPUFacts DEF IInv, TypeOK, ReadTicket, Chosen
<1>0. ASSUME NEW i \in CPU, i # c, they[c] <= i \/ ticket[c] >= number[i]
      PROVE  they'[c] <= i \/ ticket'[c] >= number[i]
  <2>1. CASE they[c] = i
    BY <2>1
  <2>2. CASE they[c] # i
    <3>1. they[c] <= i => Following(c, they[c]) <= i
      <4>1. c \in Nat /\ they[c] \in Nat /\ i \in Nat
        OBVIOUS
      <4> QED
        BY ONLY <4>1, <1>0, <2>2 DEF Following
    <3>2. ticket'[c] >= ticket[c] /\ they'[c] = Following(c, they[c])
      OBVIOUS
    <3> QED
      BY <1>0, <3>1, <3>2
  <2> QED
    BY <2>1, <2>2
<1>1. TypeOK'
  BY DEF Locations, Following
<1>2. LockDataOK'
  BY DEF LockDataOK, Following
<1>3. OrderOK'
  <2> SUFFICES ASSUME NEW i \in CPU, NEW j \in CPU, i # j
               PROVE  Ordered(i, j)'
    BY DEF OrderOK
  <2> USE DEF Ordered
  <2>1. CASE j = c
    BY <2>1, <1>0 DEF OrderOK, Passed, Behind
  <2>2. CASE i = c
    BY <2>2 DEF Passed
  <2>3. CASE i # c /\ j # c
    BY <2>3 DEF OrderOK, Passed, Behind
  <2> QED
    BY <2>1, <2>2, <2>3
<1>4. AheadOK'
  <2> SUFFICES ASSUME NEW i \in CPU, NEW j \in CPU, (i \in ahead[j])'
               PROVE  Preceded(j, i)'
    BY DEF AheadOK
  <2> USE DEF Preceded
  <2>1. CASE j = c
    <3>1. i # c /\ (they[c] <= i \/ ticket[c] >= number[i])
      BY <2>1 DEF AheadOK, Behind
    <3> QED
      BY <2>1, <3>1, <1>0 DEF AheadOK, Behind
  <2>2. CASE j # c
    BY <2>2 DEF AheadOK, Behind
  <2> QED
    BY <2>1, <2>2
<1> QED
  BY <1>1, <1>2, <1>3, <1>4

(* A new ticket yields to all the tickets its CPU has read, and nobody has
   visited its CPU yet. *)
LEMMA ChooseTicketInv ==
  ASSUME IInv, NoWrap, NEW c \in CPU, ChooseTicket(c)
  PROVE  IInv'
<1> USE CPUFacts DEF IInv, TypeOK, ChooseTicket, Chosen
<1>0. number' = [number EXCEPT ![c] = ticket[c] + 1]
  <2>1. ticket[c] + 1 \in Nat /\ ticket[c] + 1 < TicketLimit
    BY DEF NoWrap
  <2>2. Field(ticket[c] + 1) = ticket[c] + 1
    BY <2>1, FieldFits
  <2> QED
    BY <2>2
<1> USE <1>0
<1> HIDE DEF ChooseTicket
<1>a. /\ pc[c] = "scan" /\ they[c] >= N
      /\ ticket' = [ticket EXCEPT ![c] = ticket[c] + 1]
      /\ choosing' = [choosing EXCEPT ![c] = FALSE]
      /\ they' = [they EXCEPT ![c] = First(c)]
      /\ pc' = [pc EXCEPT ![c] = "check"]
      /\ UNCHANGED <<theirs, event, ahead>>
  BY DEF ChooseTicket
<1> USE <1>a
<1>1. TypeOK'
  BY DEF Locations, First
<1>2. LockDataOK'
  BY DEF LockDataOK, First
<1>3. OrderOK'
  <2> SUFFICES ASSUME NEW i \in CPU, NEW j \in CPU, i # j
               PROVE  Ordered(i, j)'
    BY DEF OrderOK
  <2> USE DEF Ordered
  <2> QED
    BY DEF LockDataOK, OrderOK, Passed, Behind, First, Priority
<1>4. AheadOK'
  <2> SUFFICES ASSUME NEW i \in CPU, NEW j \in CPU, (i \in ahead[j])'
               PROVE  Preceded(j, i)'
    BY DEF AheadOK
  <2> USE DEF Preceded
  <2> QED
    BY DEF LockDataOK, AheadOK, Behind, First, Priority
<1> QED
  BY <1>1, <1>2, <1>3, <1>4

(* A contender that is visited and does not go first is behind. *)
LEMMA PassInv ==
  ASSUME IInv, NoWrap, NEW c \in CPU, Pass(c)
  PROVE  IInv'
<1> USE CPUFacts DEF IInv, TypeOK, Pass, Chosen
<1>1. TypeOK'
  BY DEF Locations, Following
<1>2. LockDataOK'
  BY DEF LockDataOK, Following
<1>3. OrderOK'
  <2> SUFFICES ASSUME NEW i \in CPU, NEW j \in CPU, i # j
               PROVE  Ordered(i, j)'
    BY DEF OrderOK
  <2> USE DEF Ordered
  <2>1. CASE i = c /\ j = they[c]
    <3>1. pc[j] # "scan" /\ ~ HasPriority(c, j)
      BY <2>1 DEF LockDataOK
    <3>2. Behind(j, c)
      BY <2>1, <3>1 DEF LockDataOK, Behind, HasPriority, Priority, Locations
    <3> QED
      BY <2>1, <3>2 DEF Behind
  <2>2. CASE i = c /\ j # they[c]
    <3>1. j < Following(c, they[c]) => j < they[c]
      BY <2>2, VisitingOrder
    <3>2. Passed(c, j)' => Passed(c, j)
      BY <2>2, <3>1 DEF Passed
    <3> QED
      BY <2>2, <3>2 DEF OrderOK, Behind
  <2>3. CASE i # c
    BY <2>3 DEF OrderOK, Passed, Behind
  <2> QED
    BY <2>1, <2>2, <2>3
<1>4. AheadOK'
  <2> SUFFICES ASSUME NEW i \in CPU, NEW j \in CPU, (i \in ahead[j])'
               PROVE  Preceded(j, i)'
    BY DEF AheadOK
  <2> USE DEF Preceded
  <2> QED
    BY DEF LockDataOK, AheadOK, Behind
<1> QED
  BY <1>1, <1>2, <1>3, <1>4

(* A contender that goes first has the ticket that is waited for. *)
LEMMA YieldInv ==
  ASSUME IInv, NoWrap, NEW c \in CPU, Yield(c)
  PROVE  IInv'
<1> USE CPUFacts DEF IInv, TypeOK, Yield, Chosen
<1>1. TypeOK'
  BY DEF Locations
<1>2. LockDataOK'
  BY DEF LockDataOK
<1>3. OrderOK'
  <2> SUFFICES ASSUME NEW i \in CPU, NEW j \in CPU, i # j
               PROVE  Ordered(i, j)'
    BY DEF OrderOK
  <2> USE DEF Ordered
  <2> QED
    BY DEF LockDataOK, OrderOK, Passed, Behind, HasPriority
<1>4. AheadOK'
  <2> SUFFICES ASSUME NEW i \in CPU, NEW j \in CPU, (i \in ahead[j])'
               PROVE  Preceded(j, i)'
    BY DEF AheadOK
  <2> USE DEF Preceded
  <2> QED
    BY DEF LockDataOK, AheadOK, Behind
<1> QED
  BY <1>1, <1>2, <1>3, <1>4

(* Waking up changes no lock data. *)
LEMMA WfeInv ==
  ASSUME IInv, NoWrap, NEW c \in CPU, Wfe(c)
  PROVE  IInv'
<1> USE CPUFacts DEF IInv, TypeOK, Wfe, Chosen
<1>1. TypeOK'
  BY DEF Locations
<1>2. LockDataOK'
  BY DEF LockDataOK
<1>3. OrderOK'
  <2> SUFFICES ASSUME NEW i \in CPU, NEW j \in CPU, i # j
               PROVE  Ordered(i, j)'
    BY DEF OrderOK
  <2> USE DEF Ordered
  <2> QED
    BY DEF LockDataOK, OrderOK, Passed, Behind
<1>4. AheadOK'
  <2> SUFFICES ASSUME NEW i \in CPU, NEW j \in CPU, (i \in ahead[j])'
               PROVE  Preceded(j, i)'
    BY DEF AheadOK
  <2> USE DEF Preceded
  <2> QED
    BY DEF LockDataOK, AheadOK, Behind
<1> QED
  BY <1>1, <1>2, <1>3, <1>4

(* A contender whose ticket has changed since it was read is behind. *)
LEMMA RereadInv ==
  ASSUME IInv, NoWrap, NEW c \in CPU, Reread(c)
  PROVE  IInv'
<1> USE CPUFacts DEF IInv, TypeOK, Reread, Chosen
<1>1. TypeOK'
  BY DEF Locations, Following
<1>2. LockDataOK'
  BY DEF LockDataOK, Following
<1>3. OrderOK'
  <2> SUFFICES ASSUME NEW i \in CPU, NEW j \in CPU, i # j
               PROVE  Ordered(i, j)'
    BY DEF OrderOK
  <2> USE DEF Ordered
  <2> QED
    BY DEF LockDataOK, OrderOK, Passed, Behind, Following
<1>4. AheadOK'
  <2> SUFFICES ASSUME NEW i \in CPU, NEW j \in CPU, (i \in ahead[j])'
               PROVE  Preceded(j, i)'
    BY DEF AheadOK
  <2> USE DEF Preceded
  <2> QED
    BY DEF LockDataOK, AheadOK, Behind, Following
<1> QED
  BY <1>1, <1>2, <1>3, <1>4

(* The loop is over: all the others are behind. *)
LEMMA AcquiredInv ==
  ASSUME IInv, NoWrap, NEW c \in CPU, Acquired(c)
  PROVE  IInv'
<1> USE CPUFacts DEF IInv, TypeOK, Acquired, Chosen
<1>1. TypeOK'
  BY DEF Locations
<1>2. LockDataOK'
  BY DEF LockDataOK
<1>3. OrderOK'
  <2> SUFFICES ASSUME NEW i \in CPU, NEW j \in CPU, i # j
               PROVE  Ordered(i, j)'
    BY DEF OrderOK
  <2> USE DEF Ordered
  <2> QED
    BY DEF LockDataOK, OrderOK, Passed, Behind
<1>4. AheadOK'
  <2> SUFFICES ASSUME NEW i \in CPU, NEW j \in CPU, (i \in ahead[j])'
               PROVE  Preceded(j, i)'
    BY DEF AheadOK
  <2> USE DEF Preceded
  <2> QED
    BY DEF LockDataOK, AheadOK, Behind
<1> QED
  BY <1>1, <1>2, <1>3, <1>4

(* A CPU without a ticket is behind everybody. *)
LEMMA ReleaseInv ==
  ASSUME IInv, NoWrap, NEW c \in CPU, Release(c)
  PROVE  IInv'
<1> USE CPUFacts DEF IInv, TypeOK, Release, Chosen
<1>1. TypeOK'
  BY DEF Locations
<1>2. LockDataOK'
  BY DEF LockDataOK
<1>3. OrderOK'
  <2> SUFFICES ASSUME NEW i \in CPU, NEW j \in CPU, i # j
               PROVE  Ordered(i, j)'
    BY DEF OrderOK
  <2> USE DEF Ordered
  <2> QED
    BY DEF LockDataOK, OrderOK, Passed, Behind
<1>4. AheadOK'
  <2> SUFFICES ASSUME NEW i \in CPU, NEW j \in CPU, (i \in ahead[j])'
               PROVE  Preceded(j, i)'
    BY DEF AheadOK
  <2> USE DEF Preceded
  <2> QED
    BY DEF LockDataOK, AheadOK, Behind
<1> QED
  BY <1>1, <1>2, <1>3, <1>4

(* Waking the others up changes no lock data. *)
LEMMA SevInv ==
  ASSUME IInv, NoWrap, NEW c \in CPU, Sev(c)
  PROVE  IInv'
<1> USE CPUFacts DEF IInv, TypeOK, Sev, Chosen
<1>1. TypeOK'
  BY DEF Locations
<1>2. LockDataOK'
  BY DEF LockDataOK
<1>3. OrderOK'
  <2> SUFFICES ASSUME NEW i \in CPU, NEW j \in CPU, i # j
               PROVE  Ordered(i, j)'
    BY DEF OrderOK
  <2> USE DEF Ordered
  <2> QED
    BY DEF LockDataOK, OrderOK, Passed, Behind
<1>4. AheadOK'
  <2> SUFFICES ASSUME NEW i \in CPU, NEW j \in CPU, (i \in ahead[j])'
               PROVE  Preceded(j, i)'
    BY DEF AheadOK
  <2> USE DEF Preceded
  <2> QED
    BY DEF LockDataOK, AheadOK, Behind
<1> QED
  BY <1>1, <1>2, <1>3, <1>4

(* The inductive step: whatever a CPU does keeps IInv.                     *)
LEMMA NextInv == IInv /\ NoWrap /\ [Next]_vars => IInv'
<1> SUFFICES ASSUME IInv, NoWrap, [Next]_vars PROVE IInv'
  OBVIOUS
<1>1. CASE UNCHANGED vars
  BY <1>1 DEF vars, IInv, TypeOK, LockDataOK, OrderOK, Ordered, AheadOK, Preceded, Passed,
     Behind
<1>2. ASSUME NEW c \in CPU, StartChoosing(c) \/ Step(c)
      PROVE  IInv'
  BY <1>2, StartChoosingInv, ReadTicketInv, ChooseTicketInv, PassInv, YieldInv, WfeInv,
     RereadInv, AcquiredInv, ReleaseInv, SevInv DEF Step
<1> QED
  BY <1>1, <1>2 DEF Next

(* IInv holds in every state of a run in which no ticket outgrows its      *)
(* 15-bit field, whatever the number of CPUs.                              *)
THEOREM InductiveInvariant == Spec /\ []NoWrap => []IInv
BY InitInv, NextInv, PTL DEF Spec

(* bakery_lock_get lets one CPU in at a time, for every number of CPUs and *)
(* every interleaving of their loads and stores.                           *)
THEOREM MutualExclusionHolds == Spec /\ []NoWrap => []MutualExclusion
<1>1. IInv => MutualExclusion
  <2> SUFFICES ASSUME IInv, NEW c \in CPU, NEW d \in CPU, pc[c] = "held", pc[d] = "held",
                      c # d
               PROVE  FALSE
    BY DEF MutualExclusion
  <2>1. Behind(d, c) /\ Behind(c, d)
    BY DEF IInv, OrderOK, Ordered, Passed
  <2> QED
    BY <2>1, CPUFacts DEF IInv, TypeOK, Behind, Chosen, Priority
<1> QED
  BY <1>1, InductiveInvariant, PTL

(* Whoever holds the lock has nobody ahead of it, and is alone.            *)
LEMMA HeldFirst ==
  ASSUME IInv, NEW c \in CPU, Acquired(c)
  PROVE  ahead[c] = {} /\ \A d \in CPU : pc[d] # "held"
<1> USE CPUFacts DEF IInv, TypeOK, Acquired
<1>1. ASSUME NEW d \in CPU PROVE d \notin ahead[c]
  <2> SUFFICES ASSUME d \in ahead[c] PROVE FALSE
    OBVIOUS
  <2>1. pc[d] \in Chosen /\ Behind(c, d)
    BY DEF AheadOK, Preceded, Chosen
  <2>2. c # d
    BY <2>1 DEF Behind, Chosen, Priority
  <2>3. Behind(d, c)
    BY <2>2 DEF OrderOK, Ordered, Passed, Chosen
  <2> QED
    BY <2>1, <2>3 DEF Behind, Chosen, Priority
<1>2. ASSUME NEW d \in CPU PROVE pc[d] # "held"
  <2> SUFFICES ASSUME pc[d] = "held" PROVE FALSE
    OBVIOUS
  <2>1. Behind(d, c) /\ Behind(c, d)
    BY DEF OrderOK, Ordered, Passed, Chosen
  <2> QED
    BY <2>1 DEF Behind, Chosen, Priority
<1> QED
  BY <1>1, <1>2

(* Every step of the lock is a step of FcfsLock, or leaves it alone.       *)
LEMMA NextRefines == IInv /\ [Next]_vars => [Fcfs!Next]_(Fcfs!vars)
<1> SUFFICES ASSUME IInv, [Next]_vars PROVE [Fcfs!Next]_(Fcfs!vars)
  OBVIOUS
<1> USE DEF IInv, TypeOK, Phase, Chosen, Locations, Fcfs!vars
<1>1. CASE UNCHANGED vars
  BY <1>1 DEF vars
<1>2. ASSUME NEW c \in CPU, StartChoosing(c) PROVE Fcfs!Arrive(c)
  BY <1>2 DEF StartChoosing, Fcfs!Arrive
<1>3. ASSUME NEW c \in CPU, ReadTicket(c) \/ Pass(c) \/ Yield(c) \/ Wfe(c) \/ Reread(c) \/ Sev(c)
      PROVE  UNCHANGED Fcfs!vars
  BY <1>3 DEF ReadTicket, Pass, Yield, Wfe, Reread, Sev
<1>4. ASSUME NEW c \in CPU, ChooseTicket(c) PROVE Fcfs!Queue(c)
  BY <1>4 DEF ChooseTicket, Fcfs!Queue
<1>5. ASSUME NEW c \in CPU, Acquired(c) PROVE Fcfs!Hold(c)
  BY <1>5, HeldFirst DEF Acquired, Fcfs!Hold
<1>6. ASSUME NEW c \in CPU, Release(c) PROVE Fcfs!Release(c)
  BY <1>6 DEF Release, Fcfs!Release
<1> QED
  BY <1>1, <1>2, <1>3, <1>4, <1>5, <1>6 DEF Next, Step, Fcfs!Next

(* The bakery lock implements the first-come-first-served lock: mutual     *)
(* exclusion, and no CPU enters before one that had its ticket first.      *)
THEOREM ImplementsFcfs == Spec /\ []NoWrap => RefinesFcfs
<1>1. Init => Fcfs!Init
  BY DEF Init, Fcfs!Init, Phase
<1> QED
  BY <1>1, InductiveInvariant, NextRefines, PTL DEF Spec, RefinesFcfs, Fcfs!Spec

=============================================================================
