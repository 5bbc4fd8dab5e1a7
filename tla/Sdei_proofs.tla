----------------------------- MODULE Sdei_proofs ----------------------------
(***************************************************************************)
(* Proofs about Sdei, for every number of PEs, of events and of interrupts *)
(* and every client.  SerialInv and PreemptInv hold as long as no          *)
(* completion has collided with a call, and CarefulInv as long as nothing  *)
(* that raced records has gone wrong.                                      *)
(***************************************************************************)
EXTENDS Sdei, Integers, TLAPS, FiniteSetTheorems, SequenceTheorems, WellFoundedInduction

-----------------------------------------------------------------------------
(* Events, interrupts, entries and lines                                   *)

LEMMA ConstantFacts ==
  /\ N \in Nat /\ MaxReg \in Nat
  /\ \A p \in PE : p \in Nat /\ p # 0
  /\ \A e \in Event : e \in Nat
  /\ \A i \in Interrupt : i \in Nat /\ i # DynIrq
  /\ DynIrq \in Nat
  /\ \A e \in Event : e \in Private <=> e \notin Shared
  /\ Private \subseteq Event /\ Shared \subseteq Event /\ Dynamic \subseteq Event
  /\ \A e \in Event : e \in Static <=> e \notin Dynamic
  /\ Static \subseteq Event /\ Static \subseteq Interrupt /\ Ppi \cup Spi \subseteq Interrupt
  /\ \A i \in Ppi \cup Spi : i \notin Event /\ i # 0
  /\ 0 \notin Shared /\ 0 \notin Dynamic /\ 0 \notin Critical /\ Critical \subseteq Static
BY SizeAssumption, EventAssumption, InterruptAssumption, ClientAssumption
   DEF PE, Event, Static, Interrupt

LEMMA EntryFacts ==
  /\ \A e \in Event, p \in PE : Entry(e, p) \in Entries /\ Entry(e, p)[1] = e
                                /\ Entry(e, p)[2] = (IF e \in Shared THEN 0 ELSE p)
  /\ \A e, f \in Event : \A p, q \in PE :
       Entry(e, p) = Entry(f, q) <=> e = f /\ (e \in Shared \/ p = q)
  /\ \A k \in Entries : \E e \in Event, p \in PE : k = Entry(e, p)
BY ConstantFacts DEF Entry, Entries

LEMMA LineFacts ==
  /\ \A i \in Interrupt, p \in PE : Line(i, p) \in Lines /\ Line(i, p)[1] = i
                                    /\ Line(i, p)[2] = (IF IsSpi(i) THEN 0 ELSE p)
  /\ \A i, j \in Interrupt : \A p, q \in PE :
       Line(i, p) = Line(j, q) <=> i = j /\ (IsSpi(i) \/ p = q)
  /\ \A k \in Lines : \E i \in Interrupt, p \in PE : k = Line(i, p)
BY ConstantFacts DEF Line, Lines

(* A set of numbers that is not empty has a least element.                 *)
LEMMA LeastExists ==
  ASSUME NEW S, S \subseteq Nat, S # {}
  PROVE  \E e \in S : \A f \in S : e <= f
<1> DEFINE R == OpToRel(<, Nat)
<1>1. IsWellFoundedOn(R, Nat)
  BY NatLessThanWellFounded
<1>2. \E e \in S : \A f \in S : ~ (<<f, e>> \in R)
  <2> HIDE DEF R
  <2> QED
    BY <1>1, WFMin
<1>3. PICK e \in S : \A f \in S : ~ (f < e)
  BY <1>2 DEF OpToRel
<1>4. \A f \in S : e <= f
  BY <1>3
<1> QED
  BY <1>4

(* What a PE is doing has a type.                                          *)
LEMMA OwnTypes ==
  ASSUME Types, NEW p \in PE
  PROVE  /\ call[p] \in CallType /\ call[p].event \in Event \cup {0} /\ call[p].arg \in Nat
         /\ call[p].todo \subseteq Shared /\ old[p] \in StateType
         /\ \A e \in Event : se[Entry(e, p)] \in EntryType /\ se[Entry(e, p)].state \in StateType
         /\ \A i \in Interrupt : gic[Line(i, p)] \in LineType /\ gic[Line(i, p)].active \in PE \cup {0}
<1>1. call[p] \in CallType /\ old[p] \in StateType
  BY DEF Types
<1>2. \A e \in Event : se[Entry(e, p)] \in EntryType
  BY EntryFacts DEF Types
<1>3. \A i \in Interrupt : gic[Line(i, p)] \in LineType
  BY LineFacts DEF Types
<1> QED
  BY <1>1, <1>2, <1>3 DEF CallType, EntryType, LineType

LEMMA IdleType == Idle \in CallType
BY ConstantFacts DEF Idle, Doing, CallType

(* A call that begins.                                                     *)
LEMMA CallRecord ==
  ASSUME NEW op \in StateCalls \cup {"none", "BIND", "UNMASK", "INTR", "COMPLETE"},
         NEW e \in Event \cup {0}, NEW r \in Nat
  PROVE  /\ Doing(op, e, r) \in CallType /\ Doing(op, e, r).op = op /\ Doing(op, e, r).event = e
         /\ Doing(op, e, r).arg = r /\ Doing(op, e, r).todo = {}
BY DEF CallType, Doing

(* A PE that is done with a call.                                          *)
LEMMA ReturnTypes ==
  ASSUME Types, NEW p \in PE, Return(p)
  PROVE  pc' \in [PE -> PcType] /\ call' \in [PE -> CallType] /\ old' \in [PE -> StateType]
         /\ lock' \in [Event -> PE \cup {0}]
<1>1. pc' \in [PE -> PcType]
  BY DEF Types, Return, PcType
<1>2. call' \in [PE -> CallType]
  BY IdleType DEF Types, Return
<1>3. old' \in [PE -> StateType]
  BY DEF Types, Return, StateType
<1>4. lock' \in [Event -> PE \cup {0}]
  BY DEF Types, Return, Unlock
<1> QED
  BY <1>1, <1>2, <1>3, <1>4

LEMMA UnlockType ==
  ASSUME Types, NEW p \in PE, Unlock(p)
  PROVE  lock' \in [Event -> PE \cup {0}]
BY DEF Types, Unlock

(* The entries of an event, and how many of them are registered.           *)
LEMMA EntriesFinite ==
  ASSUME NEW e \in Event
  PROVE  IsFiniteSet({k \in Entries : k[1] = e})
<1> DEFINE f == [p \in PE |-> Entry(e, p)]
           S == {k \in Entries : k[1] = e}
<1>1. IsFiniteSet(PE)
  BY SizeAssumption, FS_Interval DEF PE
<1>2. f \in Surjection(PE, S)
  BY EntryFacts DEF Surjection
<1> QED
  BY <1>1, <1>2, FS_Surjection

LEMMA RegisteredFinite ==
  ASSUME NEW e \in Event
  PROVE  IsFiniteSet(RegisteredEntries(e)) /\ Cardinality(RegisteredEntries(e)) \in Nat
<1>1. RegisteredEntries(e) \subseteq {k \in Entries : k[1] = e}
  BY DEF RegisteredEntries
<1> QED
  BY <1>1, EntriesFinite, FS_Subset, FS_CardinalityType

LEMMA RegisteredCounts ==
  ASSUME SerialInv, NEW e \in Event, NEW p \in PE, "registered" \in se[Entry(e, p)].state
  PROVE  regCount[e] \in Nat /\ regCount[e] >= 1
<1>1. Entry(e, p) \in RegisteredEntries(e)
  BY EntryFacts DEF RegisteredEntries
<1>2. Cardinality(RegisteredEntries(e)) # 0
  BY <1>1, RegisteredFinite, FS_EmptySet
<1>3. Cardinality(RegisteredEntries(e)) <= regCount[e] /\ regCount[e] \in Nat
  BY DEF SerialInv, Types, CountOK
<1> QED
  BY <1>2, <1>3, RegisteredFinite

-----------------------------------------------------------------------------
(* What a step of PE p keeps of the state that others go by.               *)

(* The other PEs stay where they are.                                      *)
OthersAlike(p) ==
  /\ clients' = clients
  /\ \A q \in PE \ {p} :
       pc'[q] = pc[q] /\ call'[q] = call[q] /\ old'[q] = old[q] /\ stack'[q] = stack[q]

(* No event begins or ends to run.                                         *)
RunningKept ==
  \A e \in Event, q \in PE :
    "running" \in se'[Entry(e, q)].state <=> "running" \in se[Entry(e, q)].state

(* The state that another PE has loaded is not changed.                    *)
LoadedKept(p) ==
  \A e \in Event, q \in PE \ {p} :
    pc[q] = "locked" /\ call[q].event = e =>
      se'[Entry(e, q)].state = se[Entry(e, q)].state

(* Nor is what is active on another PE.                                    *)
ActiveElsewhereKept(p) ==
  \A i \in Interrupt, q \in PE \ {p} : gic'[Line(i, q)].active = q <=> gic[Line(i, q)].active = q

LEMMA OthersOld ==
  ASSUME SerialInv, NEW p \in PE, OthersAlike(p), LoadedKept(p)
  PROVE  \A q \in PE \ {p} : OldOK(q)'
<1> SUFFICES ASSUME NEW q \in PE \ {p} PROVE OldOK(q)'
  OBVIOUS
<1>0. OldOK(q) /\ CallOK(q)
  BY DEF SerialInv
<1>1. CASE pc[q] = "locked"
  <2>1. PICK e \in Event : e = call[q].event
    BY <1>0, <1>1 DEF CallOK, Fits
  <2>2. se'[Entry(e, q)].state = se[Entry(e, q)].state
    BY <1>1, <2>1 DEF LoadedKept
  <2> QED
    BY <1>0, <1>1, <2>1, <2>2 DEF OldOK, OthersAlike
<1>2. CASE pc[q] # "locked"
  BY <1>0, <1>2 DEF OldOK, OthersAlike
<1> QED
  BY <1>1, <1>2

LEMMA OthersKept ==
  ASSUME SerialInv, NEW p \in PE, OthersAlike(p), ActiveElsewhereKept(p)
  PROVE  \A q \in PE \ {p} : CallOK(q)' /\ StackOK(q)' /\ ActiveOK(q)'
<1> SUFFICES ASSUME NEW q \in PE \ {p} PROVE CallOK(q)' /\ StackOK(q)' /\ ActiveOK(q)'
  OBVIOUS
<1>0. CallOK(q) /\ StackOK(q) /\ ActiveOK(q)
  BY DEF SerialInv
<1>1. CallOK(q)'
  BY <1>0 DEF CallOK, OthersAlike, Calls, About
<1>2. StackOK(q)'
  BY <1>0 DEF StackOK, OthersAlike, Top
<1>3. /\ \A n \in DOMAIN stack[q] : stack[q][n].intr \in Interrupt
      /\ call[q].op \in {"INTR", "COMPLETE"} => call[q].arg \in Interrupt
  BY <1>0 DEF CallOK, Fits
<1>4. ActiveOK(q)'
  BY <1>0, <1>3 DEF ActiveOK, OthersAlike, ActiveElsewhereKept
<1> QED
  BY <1>1, <1>2, <1>4

(* What remains to be shown of a step of p.                                *)
LEMMA OwnStep ==
  ASSUME SerialInv, NEW p \in PE, OthersAlike(p), ActiveElsewhereKept(p),
         Types', LockOK', RunOK', \A q \in PE \ {p} : OldOK(q)',
         CallOK(p)', OldOK(p)', StackOK(p)', ActiveOK(p)',
         \A e \in Event : CountOK(e)' /\ MapOK(e)'
  PROVE  SerialInv'
<1>1. \A q \in PE \ {p} : CallOK(q)' /\ StackOK(q)' /\ ActiveOK(q)'
  BY OthersKept
<1>2. \A q \in PE : CallOK(q)' /\ StackOK(q)' /\ ActiveOK(q)' /\ OldOK(q)'
  BY <1>1
<1> QED
  BY <1>2 DEF SerialInv

LEMMA RunKept ==
  ASSUME SerialInv, NEW p \in PE, OthersAlike(p), RunningKept, stack'[p] = stack[p],
         pc[p] # "push", pc'[p] # "push"
  PROVE  RunOK'
<1>1. ASSUME NEW e \in Event, NEW q \in PE PROVE Handling(e, q)' <=> Handling(e, q)
  <2>1. CASE q = p
    BY <2>1 DEF Handling
  <2>2. CASE q # p
    BY <2>2 DEF Handling, OthersAlike
  <2> QED
    BY <2>1, <2>2
<1>2. RunOK
  BY DEF SerialInv
<1> QED
  BY <1>1, <1>2, ConstantFacts DEF RunOK, RunningKept

-----------------------------------------------------------------------------
(* Counts *)

Registering(e) == {p \in PE : call[p].op = "REGISTER" /\ call[p].event = e}

LEMMA PEFinite ==
  \A S : S \subseteq PE => IsFiniteSet(S) /\ Cardinality(S) \in Nat /\ Cardinality(S) <= N
<1>1. IsFiniteSet(PE) /\ Cardinality(PE) = N
  BY SizeAssumption, FS_Interval DEF PE
<1> QED
  BY <1>1, FS_Subset, FS_CardinalityType

LEMMA RegisteringKept ==
  ASSUME SerialInv, NEW p \in PE, OthersAlike(p), NEW e \in Event, regCount'[e] = regCount[e],
         call'[p].op = "REGISTER" /\ call'[p].event = e =>
           \/ call[p].op = "REGISTER" /\ call[p].event = e
           \/ regCount[e] < MaxReg
  PROVE  regCount'[e] + Cardinality(Registering(e)') <= MaxReg + N
<1>0. regCount[e] \in Nat /\ regCount[e] + Cardinality(Registering(e)) <= MaxReg + N
  BY DEF SerialInv, Types, CountOK, Registering
<1>1. Registering(e)' \subseteq PE /\ Registering(e) \subseteq PE
  BY DEF Registering
<1>2. CASE regCount[e] < MaxReg
  BY <1>0, <1>1, <1>2, PEFinite, ConstantFacts
<1>3. CASE ~ (regCount[e] < MaxReg)
  <2>1. Registering(e)' \subseteq Registering(e)
    BY <1>3 DEF Registering, OthersAlike
  <2>2. Cardinality(Registering(e)') <= Cardinality(Registering(e))
    BY <1>1, <2>1, PEFinite, FS_Subset
  <2> QED
    BY <1>0, <1>1, <2>2, PEFinite, ConstantFacts
<1> QED
  BY <1>2, <1>3

(* A step that registers nothing.                                          *)
LEMMA CountKept ==
  ASSUME SerialInv, NEW p \in PE, OthersAlike(p), NEW e \in Event, regCount'[e] = regCount[e],
         call'[p].op = "REGISTER" /\ call'[p].event = e =>
           \/ call[p].op = "REGISTER" /\ call[p].event = e
           \/ regCount[e] < MaxReg,
         \A q \in PE : "registered" \in se'[Entry(e, q)].state <=> "registered" \in se[Entry(e, q)].state
  PROVE  CountOK(e)'
<1>1. RegisteredEntries(e)' = RegisteredEntries(e)
  BY EntryFacts DEF RegisteredEntries
<1>2. CountOK(e)
  BY DEF SerialInv
<1> QED
  BY <1>1, <1>2, RegisteringKept DEF CountOK, Registering, OthersAlike, Calls

-----------------------------------------------------------------------------
(* Steps that change no state of an event and no map.                      *)

LEMMA QuietStep ==
  ASSUME SerialInv, NEW p \in PE, OthersAlike(p), UNCHANGED <<se, maps, stack>>, Types', LockOK',
         \A i \in Interrupt, q \in PE : gic'[Line(i, q)].active = gic[Line(i, q)].active,
         CallOK(p)', OldOK(p)', pc[p] # "push", pc'[p] \notin {"push", "complete"},
         call'[p].op = "COMPLETE" => pc[p] # "complete",
         call'[p].op \in {"INTR", "COMPLETE"} => call'[p] = call[p],
         call'[p].op \in StateCalls =>
           \/ call'[p] = call[p]
           \/ call'[p].op = "REGISTER" => regCount[call'[p].event] < MaxReg
  PROVE  SerialInv'
<1>0. Types /\ StackOK(p) /\ ActiveOK(p) /\ \A e \in Event : MapOK(e)
  BY DEF SerialInv
<1>2. RunOK'
  BY RunKept DEF RunningKept
<1>3. \A q \in PE \ {p} : OldOK(q)'
  BY OthersOld DEF LoadedKept
<1>4. StackOK(p)'
  <2>1. call'[p].op \in {"INTR", "COMPLETE"} => call'[p] = call[p] /\ pc[p] # "complete"
    BY DEF SerialInv, CallOK
  <2> QED
    BY <1>0, <2>1 DEF StackOK
<1>5. ActiveOK(p)'
  <2>1. \A n \in DOMAIN stack[p] : stack[p][n].intr \in Interrupt
    BY DEF SerialInv, CallOK, Fits
  <2>2. call[p].op \in {"INTR", "COMPLETE"} => call[p].arg \in Interrupt
    BY DEF SerialInv, CallOK, Fits
  <2> QED
    BY <1>0, <2>1, <2>2 DEF ActiveOK
<1>6. ASSUME NEW e \in Event PROVE CountOK(e)' /\ MapOK(e)'
  <2>1. call'[p].op = "REGISTER" /\ call'[p].event = e =>
          \/ call[p].op = "REGISTER" /\ call[p].event = e
          \/ regCount[e] < MaxReg
    BY DEF StateCalls
  <2>2. CountOK(e)'
    BY <2>1, CountKept DEF maps
  <2> QED
    BY <1>0, <2>2 DEF MapOK, maps, OthersAlike, About
<1>7. ActiveElsewhereKept(p)
  BY DEF ActiveElsewhereKept
<1> QED
  BY <1>2, <1>3, <1>4, <1>5, <1>6, <1>7, OwnStep

(* The locks of a step that does not take or release one.                  *)
LEMMA LocksKept ==
  ASSUME SerialInv, NEW p \in PE, OthersAlike(p), lock' = lock,
         pc[p] \notin {"locked", "panic"}, pc'[p] \notin {"locked", "panic"}
  PROVE  LockOK'
<1>0. LockOK
  BY DEF SerialInv
<1> QED
  BY <1>0 DEF LockOK, Holds, OthersAlike

LEMMA LocksReleased ==
  ASSUME SerialInv, NEW p \in PE, OthersAlike(p), Unlock(p), pc[p] = "locked",
         pc'[p] \notin {"locked", "panic"}
  PROVE  LockOK'
<1>0. Types /\ LockOK
  BY DEF SerialInv
<1> SUFFICES ASSUME NEW e \in Event, NEW q \in PE PROVE lock'[e] = q <=> Holds(q, e)'
  BY DEF LockOK
<1>1. lock[e] = q <=> Holds(q, e)
  BY <1>0 DEF LockOK
<1>2. lock'[e] = IF e = call[p].event /\ NeedsLock(call[p]) THEN 0 ELSE lock[e]
  BY <1>0 DEF Unlock, Types
<1>3. e = call[p].event /\ NeedsLock(call[p]) <=> lock[e] = p
  BY <1>0 DEF LockOK, Holds
<1>4. CASE q = p
  BY <1>2, <1>3, <1>4, ConstantFacts DEF Holds
<1>5. CASE q # p
  BY <1>1, <1>2, <1>3, <1>5, ConstantFacts DEF Holds, OthersAlike
<1> QED
  BY <1>4, <1>5

-----------------------------------------------------------------------------
(* The steps of the code *)

LEMMA ReturnFacts ==
  ASSUME SerialInv, NEW p \in PE, pc[p] = "locked", Return(p), UNCHANGED <<clients, stack>>
  PROVE  /\ pc'[p] = "ns" /\ call'[p] = Idle /\ OthersAlike(p) /\ LockOK'
         /\ CallOK(p)' /\ OldOK(p)' /\ StackOK(p)'
<1>0. Types /\ CallOK(p) /\ StackOK(p)
  BY DEF SerialInv
<1>1. pc'[p] = "ns" /\ call'[p] = Idle /\ OthersAlike(p)
  BY <1>0 DEF Types, Return, OthersAlike
<1>2. LockOK'
  BY <1>1, LocksReleased DEF Return
<1>3. CallOK(p)' /\ StackOK(p)'
  BY <1>0, <1>1 DEF CallOK, StackOK, Idle, Doing, StateCalls, Calls, About
<1>4. OldOK(p)'
  BY <1>1 DEF OldOK
<1> QED
  BY <1>1, <1>2, <1>3, <1>4

(* A call that returns, whose effects on states and interrupts no other    *)
(* PE goes by.                                                             *)
LEMMA ReturnStep ==
  ASSUME SerialInv, NEW p \in PE, pc[p] = "locked", Return(p), UNCHANGED <<clients, stack>>,
         Types', RunningKept, LoadedKept(p), ActiveElsewhereKept(p),
         \A i \in Interrupt :
           /\ gic'[Line(i, p)].active = p => gic[Line(i, p)].active = p
           /\ call[p].op \notin {"INTR", "COMPLETE"} \/ i # call[p].arg =>
                (gic[Line(i, p)].active = p => gic'[Line(i, p)].active = p),
         \A e \in Event : CountOK(e)' /\ MapOK(e)'
  PROVE  SerialInv'
<1>1. /\ pc'[p] = "ns" /\ call'[p] = Idle /\ OthersAlike(p) /\ LockOK'
      /\ CallOK(p)' /\ OldOK(p)' /\ StackOK(p)'
  BY ReturnFacts
<1>2. RunOK'
  BY <1>1, RunKept
<1>3. ActiveOK(p)'
  <2>1. /\ \A n \in DOMAIN stack[p] : stack[p][n].intr \in Interrupt /\ gic[Line(stack[p][n].intr, p)].active = p
        /\ \A i, j \in Interrupt :
             i # j /\ gic[Line(i, p)].active = p /\ gic[Line(j, p)].active = p => ~ (i \in Critical <=> j \in Critical)
    BY DEF SerialInv, ActiveOK, CallOK, Fits
  <2>2. \A n \in DOMAIN stack[p] : call[p].op \notin {"INTR", "COMPLETE"} \/ stack[p][n].intr # call[p].arg
    BY DEF SerialInv, StackOK
  <2>3. \A n \in DOMAIN stack[p] : gic'[Line(stack[p][n].intr, p)].active = p
    BY <2>1, <2>2
  <2> QED
    BY <1>1, <2>1, <2>3 DEF ActiveOK, Idle, Doing
<1>4. \A q \in PE \ {p} : OldOK(q)'
  BY <1>1, OthersOld
<1> QED
  BY <1>1, <1>2, <1>3, <1>4, OwnStep

(* Calls that begin, a mask call and the steps between locks.              *)
LEMMA BeginStep ==
  ASSUME SerialInv, NEW p \in PE, Call(p)
  PROVE  SerialInv'
<1>0. Types /\ CallOK(p)
  BY DEF SerialInv
<1>1. PICK e \in Event \cap About :
        \/ \E op \in {"UNREGISTER", "ENABLE", "DISABLE"} : Begin(p, op, e, 0)
        \/ \E r \in IF e \in Shared THEN PE \cup {0} ELSE {p} : Begin(p, "REGISTER", e, r)
        \/ e \in Shared /\ \E r \in PE \cup {0} : Begin(p, "ROUTING", e, r)
        \/ e \in Dynamic /\ Begin(p, "RELEASE", e, 0)
  BY DEF Call
<1>2. PICK op \in StateCalls, r \in PE \cup {0} :
        /\ Begin(p, op, e, r)
        /\ op = "REGISTER" => (e \in Private => r = p)
        /\ op = "ROUTING" => e \in Shared
        /\ op = "RELEASE" => e \in Dynamic
  <2>1. CASE \E op \in {"UNREGISTER", "ENABLE", "DISABLE"} : Begin(p, op, e, 0)
    BY <2>1, Zenon DEF StateCalls
  <2>2. CASE \E r \in IF e \in Shared THEN PE \cup {0} ELSE {p} : Begin(p, "REGISTER", e, r)
    <3>1. PICK r \in IF e \in Shared THEN PE \cup {0} ELSE {p} : Begin(p, "REGISTER", e, r)
      BY <2>2
    <3>2. r \in PE \cup {0} /\ (e \in Private => r = p)
      BY ConstantFacts
    <3> QED
      BY <3>1, <3>2, Zenon DEF StateCalls
  <2>3. CASE e \in Shared /\ \E r \in PE \cup {0} : Begin(p, "ROUTING", e, r)
    BY <2>3, Zenon DEF StateCalls
  <2>4. CASE e \in Dynamic /\ Begin(p, "RELEASE", e, 0)
    BY <2>4, Zenon DEF StateCalls
  <2> QED
    BY <1>1, <2>1, <2>2, <2>3, <2>4, Zenon
<1> DEFINE c == Doing(op, e, r)
<1>3. /\ pc[p] = "ns" /\ op \in Calls /\ (op = "REGISTER" => regCount[e] < MaxReg)
      /\ call' = [call EXCEPT ![p] = c]
      /\ pc' = [pc EXCEPT ![p] = "lock"]
      /\ UNCHANGED <<clients, se, maps, lock, cpu, ic, old>>
  BY <1>2, Zenon DEF Begin
<1>4. c \in CallType /\ c.op = op /\ c.event = e /\ c.arg = r
  <2>1. r \in Nat /\ op \in StateCalls \cup {"none", "BIND", "UNMASK", "INTR", "COMPLETE"} /\ e \in Event \cup {0}
    BY ConstantFacts
  <2> QED
    BY <2>1, CallRecord
<1> HIDE DEF c
<1>5. Types'
  BY <1>0, <1>3, <1>4 DEF Types, maps, cpu, ic, PcType
<1>6. OthersAlike(p) /\ call'[p] = c /\ pc'[p] = "lock"
  BY <1>0, <1>3 DEF Types, OthersAlike, cpu
<1>7. CallOK(p)'
  BY <1>0, <1>2, <1>3, <1>4, <1>6 DEF CallOK, StateCalls, Calls, About, cpu
<1>8. OldOK(p)'
  BY <1>6 DEF OldOK
<1>9. LockOK'
  BY <1>3, <1>6, LocksKept
<1> QED
  BY <1>3, <1>4, <1>5, <1>6, <1>7, <1>8, <1>9, QuietStep DEF cpu, ic, StateCalls

LEMMA LockStep ==
  ASSUME SerialInv, NEW p \in PE, Lock(p)
  PROVE  SerialInv'
<1>0. Types /\ CallOK(p) /\ LockOK
  BY DEF SerialInv
<1>1. PICK e \in Event : e = call[p].event
  BY <1>0 DEF CallOK, Lock
<1>2. /\ pc[p] = "lock" /\ (NeedsLock(call[p]) => lock[e] = 0)
      /\ lock' = [lock EXCEPT ![e] = IF NeedsLock(call[p]) THEN p ELSE @]
      /\ old' = [old EXCEPT ![p] = se[Entry(e, p)].state]
      /\ pc' = [pc EXCEPT ![p] = "locked"]
      /\ UNCHANGED <<clients, se, maps, cpu, ic, call>>
  BY <1>1 DEF Lock
<1>3. se[Entry(e, p)].state \in StateType
  BY <1>0, OwnTypes
<1>4. Types'
  BY <1>0, <1>2, <1>3 DEF Types, maps, cpu, ic, PcType
<1>5. OthersAlike(p) /\ pc'[p] = "locked" /\ old'[p] = se[Entry(e, p)].state
  BY <1>0, <1>2 DEF Types, OthersAlike, cpu
<1>6. CallOK(p)'
  BY <1>0, <1>2, <1>5 DEF CallOK, Calls, About, cpu
<1>7. OldOK(p)'
  BY <1>1, <1>2, <1>5 DEF OldOK
<1>8. LockOK'
  <2> SUFFICES ASSUME NEW f \in Event, NEW q \in PE PROVE lock'[f] = q <=> Holds(q, f)'
    BY DEF LockOK
  <2>1. lock[f] = q <=> Holds(q, f)
    BY <1>0 DEF LockOK
  <2>2. lock'[f] = IF f = e /\ NeedsLock(call[p]) THEN p ELSE lock[f]
    BY <1>0, <1>2 DEF Types
  <2>3. CASE q = p
    BY <1>1, <1>2, <1>5, <2>1, <2>2, <2>3, ConstantFacts DEF Holds
  <2>4. CASE q # p
    BY <1>1, <1>2, <1>5, <2>1, <2>2, <2>4, ConstantFacts DEF Holds, OthersAlike
  <2> QED
    BY <2>3, <2>4
<1> QED
  BY <1>2, <1>4, <1>5, <1>6, <1>7, <1>8, QuietStep DEF cpu, ic

(* A call that is refused.                                                 *)
LEMMA DenyStep ==
  ASSUME SerialInv, NEW p \in PE, Deny(p)
  PROVE  SerialInv'
<1>0. Types
  BY DEF SerialInv
<1>1. pc[p] = "locked" /\ Return(p) /\ UNCHANGED <<clients, se, maps, cpu, ic>>
  BY DEF Deny, Denied, Body
<1>2. /\ pc'[p] = "ns" /\ call'[p] = Idle /\ OthersAlike(p) /\ LockOK' /\ CallOK(p)' /\ OldOK(p)'
  BY <1>1, ReturnFacts DEF cpu
<1>3. Types'
  BY <1>0, <1>1, ReturnTypes DEF Types, maps, cpu, ic
<1> QED
  BY <1>1, <1>2, <1>3, QuietStep DEF cpu, ic, Idle, Doing, StateCalls

(* sdei_pe_mask, and sdei_signal.                                          *)
LEMMA MaskStep ==
  ASSUME SerialInv, NEW p \in PE, Mask(p)
  PROVE  SerialInv'
<1>0. Types /\ CallOK(p) /\ OldOK(p)
  BY DEF SerialInv
<1>1. /\ pc[p] = "ns" /\ masked' = [masked EXCEPT ![p] = TRUE]
      /\ UNCHANGED <<clients, se, maps, lock, pendingEnables, stack, ic, pc, call, old>>
  BY DEF Mask
<1>2. Types'
  BY <1>0, <1>1 DEF Types, maps, ic
<1>3. OthersAlike(p)
  BY <1>1 DEF OthersAlike
<1>4. CallOK(p)' /\ OldOK(p)' /\ LockOK'
  BY <1>0, <1>1, <1>3, LocksKept DEF CallOK, OldOK, Calls, About
<1> QED
  BY <1>1, <1>2, <1>3, <1>4, QuietStep DEF ic

LEMMA PendingStep ==
  ASSUME SerialInv, NEW k \in Lines, NEW b \in BOOLEAN, gic' = [gic EXCEPT ![k].pending = b],
         UNCHANGED <<clients, se, maps, lock, cpu, route, pc, call, old>>
  PROVE  SerialInv'
<1> USE DEF maps, cpu
<1>0. /\ Types /\ LockOK /\ RunOK
      /\ \A p \in PE : CallOK(p) /\ OldOK(p) /\ StackOK(p) /\ ActiveOK(p)
      /\ \A e \in Event : CountOK(e) /\ MapOK(e)
  BY DEF SerialInv
<1>1. /\ gic' \in [Lines -> LineType]
      /\ \A l \in Lines : gic'[l].active = gic[l].active
  BY <1>0 DEF Types, LineType
<1>2. Types'
  BY <1>0, <1>1 DEF Types
<1>6. LockOK'
  BY <1>0 DEF LockOK, Holds
<1>7. RunOK'
  BY <1>0 DEF RunOK, Handling
<1>3. ASSUME NEW p \in PE PROVE CallOK(p)' /\ OldOK(p)' /\ StackOK(p)'
  BY <1>0 DEF CallOK, Calls, About, OldOK, StackOK, Top
<1>4. ASSUME NEW p \in PE PROVE ActiveOK(p)'
  <2>1. /\ \A n \in DOMAIN stack[p] : stack[p][n].intr \in Interrupt
        /\ call[p].op \in {"INTR", "COMPLETE"} => call[p].arg \in Interrupt
    BY <1>0 DEF CallOK, Fits
  <2>2. \A i \in Interrupt : gic'[Line(i, p)].active = gic[Line(i, p)].active
    BY <1>1, LineFacts
  <2> QED
    BY <1>0, <2>1, <2>2 DEF ActiveOK
<1>5. ASSUME NEW e \in Event PROVE CountOK(e)' /\ MapOK(e)'
  BY <1>0 DEF CountOK, MapOK, RegisteredEntries, Calls, About
<1> QED
  BY <1>2, <1>3, <1>4, <1>5, <1>6, <1>7 DEF SerialInv

(* sdei_interrupt_bind, up to the lock.                                    *)
LEMMA BindBeginStep ==
  ASSUME SerialInv, NEW p \in PE, NEW i \in (Ppi \cup Spi) \cap About, Bind(p, i)
  PROVE  SerialInv'
<1>0. Types /\ CallOK(p)
  BY DEF SerialInv
<1> DEFINE c == Doing("BIND", 0, i)
<1>1. /\ pc[p] = "ns" /\ call' = [call EXCEPT ![p] = c]
      /\ pc' = [pc EXCEPT ![p] = "bind"]
      /\ UNCHANGED <<clients, se, maps, lock, cpu, ic, old>>
  BY DEF Bind
<1>2. c \in CallType /\ c.op = "BIND" /\ c.event = 0 /\ c.arg = i
  <2>1. i \in Nat
    BY ConstantFacts
  <2> QED
    BY <2>1 DEF CallType, Doing
<1> HIDE DEF c
<1>3. Types'
  BY <1>0, <1>1, <1>2 DEF Types, maps, cpu, ic, PcType
<1>4. OthersAlike(p) /\ call'[p] = c /\ pc'[p] = "bind"
  BY <1>0, <1>1 DEF Types, OthersAlike, cpu
<1>5. CallOK(p)'
  BY <1>0, <1>1, <1>2, <1>4 DEF CallOK, StateCalls, Calls, About, cpu
<1>6. OldOK(p)' /\ LockOK'
  BY <1>1, <1>4, LocksKept DEF OldOK
<1> QED
  BY <1>1, <1>2, <1>3, <1>4, <1>5, <1>6, QuietStep DEF cpu, ic, StateCalls

LEMMA BindReturnStep ==
  ASSUME SerialInv, NEW p \in PE, pc[p] \in {"bind", "free", "owner"}, BindReturn(p),
         UNCHANGED <<clients, se, maps, lock, cpu, ic, old>>
  PROVE  SerialInv'
<1>0. Types /\ CallOK(p)
  BY DEF SerialInv
<1>1. Types'
  BY <1>0, IdleType DEF BindReturn, Types, maps, cpu, ic, PcType
<1>2. OthersAlike(p) /\ call'[p] = Idle /\ pc'[p] = "ns"
  BY <1>0 DEF BindReturn, Types, OthersAlike, cpu
<1>3. CallOK(p)' /\ OldOK(p)' /\ LockOK'
  BY <1>0, <1>2, LocksKept DEF CallOK, OldOK, Idle, Doing, StateCalls, Calls, About, cpu
<1> QED
  BY <1>1, <1>2, <1>3, QuietStep DEF cpu, ic, Idle, Doing, StateCalls

LEMMA BindSearchStep ==
  ASSUME SerialInv, NEW p \in PE, BindSearch(p)
  PROVE  SerialInv'
<1>0. Types /\ CallOK(p)
  BY DEF SerialInv
<1>1. /\ pc[p] = "bind" /\ call[p].op = "BIND"
      /\ UNCHANGED <<clients, se, maps, lock, cpu, ic, old>>
      /\ BindReturn(p) \/ (pc' = [pc EXCEPT ![p] = "free"] /\ call' = call)
  BY <1>0 DEF BindSearch, CallOK
<1>2. CASE pc' = [pc EXCEPT ![p] = "free"] /\ call' = call
  <2>1. Types'
    BY <1>0, <1>1, <1>2 DEF Types, maps, cpu, ic, PcType
  <2>2. OthersAlike(p) /\ pc'[p] = "free"
    BY <1>0, <1>1, <1>2 DEF Types, OthersAlike, cpu
  <2>3. CallOK(p)' /\ OldOK(p)' /\ LockOK'
    BY <1>0, <1>1, <1>2, <2>2, LocksKept DEF CallOK, OldOK, StateCalls, Calls, About, cpu
  <2> QED
    BY <1>1, <1>2, <2>1, <2>2, <2>3, QuietStep DEF cpu, ic, StateCalls
<1> QED
  BY <1>1, <1>2, BindReturnStep

LEMMA BindFreeStep ==
  ASSUME SerialInv, NEW p \in PE, BindFree(p)
  PROVE  SerialInv'
<1>0. Types /\ CallOK(p)
  BY DEF SerialInv
<1>1. PICK i : i = call[p].arg
  OBVIOUS
<1> DEFINE free == FreeMaps(i)
           e == CHOOSE e \in free : \A f \in free : e <= f
<1>2. /\ pc[p] = "free" /\ call[p].op = "BIND" /\ i \in (Ppi \cup Spi) \cap About
      /\ UNCHANGED <<clients, se, maps, lock, cpu, ic, old>>
  BY <1>0, <1>1 DEF BindFree, CallOK
<1>3. CASE BindReturn(p)
  BY <1>2, <1>3, BindReturnStep
<1>4. CASE free # {} /\ call' = [call EXCEPT ![p].event = e] /\ pc' = [pc EXCEPT ![p] = "owner"]
  <2>1. free \subseteq Nat
    BY ConstantFacts DEF FreeMaps
  <2>2. e \in free
    BY <1>4, <2>1, LeastExists
  <2>3. e \in Dynamic /\ Fits(e, i)
    BY <1>2, <2>2, ConstantFacts DEF FreeMaps, Fits
  <2> HIDE DEF e
  <2>4. call[p] \in CallType
    BY <1>0, OwnTypes
  <2>5. [call[p] EXCEPT !.event = e] \in CallType
    BY <2>3, <2>4, ConstantFacts DEF CallType
  <2>6. Types'
    BY <1>0, <1>2, <1>4, <2>5 DEF Types, maps, cpu, ic, PcType
  <2>7. /\ OthersAlike(p) /\ pc'[p] = "owner"
        /\ call'[p].op = "BIND" /\ call'[p].event = e /\ call'[p].arg = i
    BY <1>0, <1>1, <1>2, <1>4, <2>4 DEF Types, CallType, OthersAlike, cpu
  <2>8. CallOK(p)' /\ OldOK(p)' /\ LockOK'
    BY <1>0, <1>2, <2>3, <2>7, LocksKept, ConstantFacts DEF CallOK, OldOK, StateCalls, Calls, About, cpu
  <2> QED
    BY <1>2, <2>6, <2>7, <2>8, QuietStep DEF cpu, ic, StateCalls
<1> QED
  BY <1>1, <1>3, <1>4 DEF BindFree

LEMMA BindOwnerStep ==
  ASSUME SerialInv, NEW p \in PE, BindOwner(p)
  PROVE  SerialInv'
<1>0. Types /\ CallOK(p)
  BY DEF SerialInv
<1>1. /\ pc[p] = "owner" /\ call[p].op = "BIND" /\ call[p].event \in Event
      /\ UNCHANGED <<clients, se, maps, lock, cpu, ic, old>>
      /\ BindReturn(p) \/ (pc' = [pc EXCEPT ![p] = "lock"] /\ call' = call)
  BY <1>0, ConstantFacts DEF BindOwner, CallOK
<1>2. CASE pc' = [pc EXCEPT ![p] = "lock"] /\ call' = call
  <2>1. Types'
    BY <1>0, <1>1, <1>2 DEF Types, maps, cpu, ic, PcType
  <2>2. OthersAlike(p) /\ pc'[p] = "lock"
    BY <1>0, <1>1, <1>2 DEF Types, OthersAlike, cpu
  <2>3. CallOK(p)' /\ OldOK(p)' /\ LockOK'
    BY <1>0, <1>1, <1>2, <2>2, LocksKept DEF CallOK, OldOK, StateCalls, Calls, About, cpu
  <2> QED
    BY <1>1, <1>2, <2>1, <2>2, <2>3, QuietStep DEF cpu, ic, StateCalls
<1> QED
  BY <1>1, <1>2, BindReturnStep

(* An assertion that fails.                                                *)
LEMMA AssertFailsStep ==
  ASSUME SerialInv, NEW p \in PE, AssertFails(p)
  PROVE  SerialInv'
<1>0. Types /\ CallOK(p) /\ LockOK
  BY DEF SerialInv
<1>1. /\ pc[p] = "locked" /\ call[p].op \in {"REGISTER", "UNREGISTER", "INTR"}
      /\ pc' = [pc EXCEPT ![p] = "panic"]
      /\ UNCHANGED <<clients, se, maps, lock, cpu, ic, call, old>>
  BY DEF AssertFails, Asserts
<1>2. Types'
  BY <1>0, <1>1 DEF Types, maps, cpu, ic, PcType
<1>3. OthersAlike(p) /\ pc'[p] = "panic"
  BY <1>0, <1>1 DEF Types, OthersAlike, cpu
<1>4. CallOK(p)' /\ OldOK(p)'
  BY <1>0, <1>1, <1>3 DEF CallOK, OldOK, Calls, About, cpu
<1>5. LockOK'
  BY <1>0, <1>1, <1>3 DEF LockOK, Holds, OthersAlike
<1> QED
  BY <1>1, <1>2, <1>3, <1>4, <1>5, QuietStep DEF cpu, ic

LEMMA BindRetryStep ==
  ASSUME SerialInv, NEW p \in PE, BindRetry(p)
  PROVE  SerialInv'
<1>0. Types /\ CallOK(p)
  BY DEF SerialInv
<1>1. /\ pc[p] = "locked" /\ call[p].op = "BIND" /\ Unlock(p)
      /\ pc' = [pc EXCEPT ![p] = "bind"] /\ old' = [old EXCEPT ![p] = {}]
      /\ UNCHANGED <<clients, se, maps, cpu, ic, call>>
  BY DEF BindRetry, Body
<1>2. Types'
  BY <1>0, <1>1, UnlockType DEF Types, maps, cpu, ic, PcType, StateType
<1>3. OthersAlike(p) /\ pc'[p] = "bind"
  BY <1>0, <1>1 DEF Types, OthersAlike, cpu
<1>4. CallOK(p)' /\ OldOK(p)' /\ LockOK'
  BY <1>0, <1>1, <1>3, LocksReleased DEF CallOK, OldOK, StateCalls, Calls, About, cpu
<1> QED
  BY <1>1, <1>2, <1>3, <1>4, QuietStep DEF cpu, ic, StateCalls

(* sdei_pe_unmask.                                                         *)
LEMMA UnmaskStep ==
  ASSUME SerialInv, NEW p \in PE, Unmask(p)
  PROVE  SerialInv'
<1>0. Types /\ CallOK(p)
  BY DEF SerialInv
<1> DEFINE c == [op |-> "UNMASK", event |-> 0, arg |-> 0,
                 todo |-> IF pendingEnables[p] THEN Shared ELSE {}]
<1>1. /\ pc[p] = "ns"
      /\ gic' = [k \in Lines |-> [gic[k] EXCEPT !.enabled =
                   @ \/ (pendingEnables[p] /\ k \in Reenable(p))]]
      /\ call' = [call EXCEPT ![p] = c]
      /\ pc' = [pc EXCEPT ![p] = "unmask"]
      /\ UNCHANGED <<clients, se, maps, lock, cpu, route, old>>
  BY DEF Unmask
<1>2. gic' \in [Lines -> LineType] /\ \A k \in Lines : gic'[k].active = gic[k].active
  BY <1>0, <1>1 DEF Types, LineType
<1>3. c \in CallType /\ c.op = "UNMASK"
  BY DEF CallType
<1> HIDE DEF c
<1>4. Types'
  BY <1>0, <1>1, <1>2, <1>3 DEF Types, maps, cpu, PcType
<1>5. OthersAlike(p) /\ call'[p] = c /\ pc'[p] = "unmask"
  BY <1>0, <1>1 DEF Types, OthersAlike, cpu
<1>6. CallOK(p)' /\ OldOK(p)' /\ LockOK'
  BY <1>0, <1>1, <1>3, <1>5, LocksKept DEF CallOK, OldOK, StateCalls, Calls, About, cpu
<1>7. \A i \in Interrupt, q \in PE : gic'[Line(i, q)].active = gic[Line(i, q)].active
  BY <1>2, LineFacts
<1> QED
  BY <1>1, <1>3, <1>4, <1>5, <1>6, <1>7, QuietStep DEF cpu, StateCalls

LEMMA UnmaskNextStep ==
  ASSUME SerialInv, NEW p \in PE, UnmaskNext(p)
  PROVE  SerialInv'
<1>0. Types /\ CallOK(p)
  BY DEF SerialInv
<1> DEFINE todo == call[p].todo
           e == CHOOSE e \in todo : \A f \in todo : e <= f
<1>1. /\ pc[p] = "unmask" /\ todo # {} /\ call[p].op = "UNMASK"
      /\ call' = [call EXCEPT ![p].event = e, ![p].todo = @ \ {e}]
      /\ pc' = [pc EXCEPT ![p] = "lock"]
      /\ UNCHANGED <<clients, se, maps, lock, cpu, ic, old>>
  BY <1>0 DEF UnmaskNext, CallOK
<1>2. call[p] \in CallType /\ todo \subseteq Shared
  BY <1>0, OwnTypes
<1>3. e \in todo
  <2>1. todo \subseteq Nat
    BY <1>2, ConstantFacts
  <2> QED
    BY <1>1, <2>1, LeastExists
<1> HIDE DEF e
<1>4. Types'
  BY <1>0, <1>1, <1>2, <1>3, ConstantFacts DEF Types, CallType, maps, cpu, ic, PcType
<1>5. /\ OthersAlike(p) /\ pc'[p] = "lock"
      /\ call'[p].op = "UNMASK" /\ call'[p].event = e
  BY <1>0, <1>1, <1>2 DEF Types, CallType, OthersAlike, cpu
<1>6. CallOK(p)' /\ OldOK(p)' /\ LockOK'
  BY <1>0, <1>1, <1>2, <1>3, <1>5, LocksKept, ConstantFacts DEF CallOK, OldOK, StateCalls, Calls, About, cpu
<1> QED
  BY <1>1, <1>4, <1>5, <1>6, QuietStep DEF cpu, ic, StateCalls

LEMMA UnmaskSharedStep ==
  ASSUME SerialInv, NEW p \in PE, UnmaskShared(p)
  PROVE  SerialInv'
<1>0. Types /\ CallOK(p)
  BY DEF SerialInv
<1>1. PICK e \in Event : e = call[p].event
  BY <1>0 DEF CallOK, UnmaskShared, Body
<1>2. PICK i : i = intr[e]
  OBVIOUS
<1>3. /\ pc[p] = "locked" /\ call[p].op = "UNMASK" /\ Unlock(p)
      /\ pc' = [pc EXCEPT ![p] = "unmask"] /\ old' = [old EXCEPT ![p] = {}]
      /\ UNCHANGED <<clients, se, maps, cpu, route, call>>
  BY DEF UnmaskShared, Body
<1>4. gic' = gic \/ (i \in Interrupt /\ gic' = [gic EXCEPT ![Line(i, p)].enabled = TRUE])
  <2>1. bound[e] => i \in Interrupt
    BY <1>2, ConstantFacts DEF SerialInv, MapOK, Fits
  <2> QED
    BY <1>1, <1>2, <2>1 DEF UnmaskShared
<1>5. gic' \in [Lines -> LineType] /\ \A k \in Lines : gic'[k].active = gic[k].active
  <2>1. CASE gic' = gic
    BY <1>0, <2>1 DEF Types
  <2>2. CASE i \in Interrupt /\ gic' = [gic EXCEPT ![Line(i, p)].enabled = TRUE]
    <3>1. Line(i, p) \in Lines
      BY <2>2, LineFacts
    <3> QED
      BY <1>0, <2>2, <3>1 DEF Types, LineType
  <2> QED
    BY <1>4, <2>1, <2>2
<1>6. Types'
  BY <1>0, <1>3, <1>5, UnlockType DEF Types, maps, cpu, PcType, StateType
<1>7. OthersAlike(p) /\ pc'[p] = "unmask"
  BY <1>0, <1>3 DEF Types, OthersAlike, cpu
<1>8. CallOK(p)' /\ OldOK(p)' /\ LockOK'
  BY <1>0, <1>3, <1>7, LocksReleased DEF CallOK, OldOK, StateCalls, Calls, About, cpu
<1>9. \A j \in Interrupt, q \in PE : gic'[Line(j, q)].active = gic[Line(j, q)].active
  BY <1>5, LineFacts
<1> QED
  BY <1>3, <1>6, <1>7, <1>8, <1>9, QuietStep DEF cpu, StateCalls

LEMMA UnmaskedStep ==
  ASSUME SerialInv, NEW p \in PE, Unmasked(p)
  PROVE  SerialInv'
<1>0. Types /\ CallOK(p)
  BY DEF SerialInv
<1>1. /\ pc[p] = "unmask"
      /\ masked' = [masked EXCEPT ![p] = FALSE]
      /\ pendingEnables' = [pendingEnables EXCEPT ![p] = FALSE]
      /\ pc' = [pc EXCEPT ![p] = "ns"]
      /\ call' = [call EXCEPT ![p] = Idle]
      /\ old' = [old EXCEPT ![p] = {}]
      /\ UNCHANGED <<clients, se, maps, lock, stack, ic>>
  BY DEF Unmasked
<1>2. Types'
  BY <1>0, <1>1, IdleType DEF Types, maps, ic, PcType, StateType
<1>3. OthersAlike(p) /\ call'[p] = Idle /\ pc'[p] = "ns"
  BY <1>0, <1>1 DEF Types, OthersAlike
<1>4. CallOK(p)' /\ OldOK(p)' /\ LockOK'
  BY <1>0, <1>1, <1>3, LocksKept DEF CallOK, OldOK, Idle, Doing, StateCalls, Calls, About
<1> QED
  BY <1>1, <1>2, <1>3, <1>4, QuietStep DEF ic, Idle, Doing, StateCalls

-----------------------------------------------------------------------------
(* The calls of clients.  The PE that changes the state of an event has    *)
(* its lock.                                                               *)

LEMMA LoadedElsewhere ==
  ASSUME SerialInv, NEW p \in PE, NEW e \in Event, pc[p] = "locked", call[p].event = e,
         call[p].op \in StateCalls,
         \A k \in Entries : k # Entry(e, p) => se'[k].state = se[k].state
  PROVE  LoadedKept(p)
<1> SUFFICES ASSUME NEW f \in Event, NEW q \in PE \ {p},
                    pc[q] = "locked", call[q].event = f
             PROVE  se'[Entry(f, q)].state = se[Entry(f, q)].state
  BY DEF LoadedKept
<1>0. LockOK /\ CallOK(q)
  BY DEF SerialInv
<1>1. CASE Entry(f, q) # Entry(e, p)
  BY <1>1, EntryFacts
<1>2. CASE Entry(f, q) = Entry(e, p)
  <2>1. f = e /\ e \in Shared
    BY <1>2, EntryFacts
  <2>2. Holds(p, e) /\ Holds(q, e)
    BY <2>1 DEF Holds, NeedsLock
  <2> QED
    BY <1>0, <2>2 DEF LockOK
<1> QED
  BY <1>1, <1>2

LEMMA ActiveAsBefore ==
  ASSUME \A k \in Lines : gic'[k].active = gic[k].active, NEW p \in PE
  PROVE  /\ ActiveElsewhereKept(p)
         /\ \A i \in Interrupt : gic'[Line(i, p)].active = gic[Line(i, p)].active
BY LineFacts DEF ActiveElsewhereKept

LEMMA MapsKept ==
  ASSUME SerialInv, NEW e \in Event, clients' = clients, intr' = intr, bound' = bound
  PROVE  MapOK(e)'
BY DEF SerialInv, MapOK, About

LEMMA BoundInterrupt ==
  ASSUME SerialInv, NEW e \in Event, bound[e]
  PROVE  intr[e] \in Interrupt /\ Fits(e, intr[e])
<1>1. MapOK(e)
  BY DEF SerialInv
<1>2. CASE e \in Static
  BY <1>1, <1>2, ConstantFacts DEF MapOK, Fits, IsSpi
<1>3. CASE e \notin Static
  BY <1>1, <1>3, ConstantFacts DEF MapOK, Fits
<1> QED
  BY <1>2, <1>3

(* sdei_event_register.                                                    *)
LEMMA RegisterStep ==
  ASSUME SerialInv, NEW p \in PE, Register(p)
  PROVE  SerialInv'
<1>0. Types /\ CallOK(p) /\ OldOK(p)
  BY DEF SerialInv
<1>1. PICK e \in Event : e = call[p].event
  BY <1>0 DEF CallOK, Register, Body
<1>2. PICK r \in PE \cup {0} : r = call[p].arg
  BY <1>0 DEF CallOK, Register, Body
<1>3. PICK i : i = intr[e]
  OBVIOUS
<1> DEFINE k == Entry(e, p)
           entry == [state |-> {"registered"}, flags |-> IF r = 0 THEN "ANY" ELSE "PE", aff |-> r]
           line == [owner |-> "EL3", enabled |-> FALSE, pending |-> FALSE, active |-> 0]
<1>4. /\ pc[p] = "locked" /\ call[p].op = "REGISTER" /\ call[p].op \in StateCalls
      /\ old[p] = {} /\ Return(p)
      /\ se' = [se EXCEPT ![k] = entry]
      /\ regCount' = [regCount EXCEPT ![e] = @ + 1]
      /\ UNCHANGED <<clients, intr, bound, cpu>>
  BY <1>1, <1>2 DEF Register, Body, MayRegister, Allowed, Transition, StateCalls
<1>5. \/ UNCHANGED ic
      \/ /\ i \in Interrupt /\ gic[Line(i, p)].active = 0
         /\ gic' = [gic EXCEPT ![Line(i, p)] = line]
         /\ route' = [route EXCEPT ![i] = IF e \in Shared THEN r ELSE @]
  <2>1. bound[e] => i \in Interrupt
    BY <1>3, BoundInterrupt
  <2> QED
    BY <1>1, <1>2, <1>3, <2>1 DEF Register, MayRegister
<1>6. k \in Entries /\ se[k].state = {}
  BY <1>0, <1>1, <1>4, EntryFacts DEF OldOK
<1>7. entry \in EntryType /\ entry.state = {"registered"} /\ line \in LineType /\ line.active = 0
  BY DEF EntryType, StateType, LineType
<1> HIDE DEF k, entry, line
<1>8. /\ se' \in [Entries -> EntryType] /\ se'[k].state = {"registered"}
      /\ \A l \in Entries : l # k => se'[l].state = se[l].state
  BY <1>0, <1>4, <1>6, <1>7 DEF Types
<1>9. /\ gic' \in [Lines -> LineType] /\ route' \in [Interrupt -> PE \cup {0}]
      /\ \A l \in Lines : gic'[l].active = gic[l].active
  <2>1. CASE UNCHANGED ic
    BY <1>0, <2>1 DEF Types, ic
  <2>2. CASE /\ i \in Interrupt /\ gic[Line(i, p)].active = 0
             /\ gic' = [gic EXCEPT ![Line(i, p)] = line]
             /\ route' = [route EXCEPT ![i] = IF e \in Shared THEN r ELSE @]
    BY <1>0, <1>7, <2>2, LineFacts DEF Types
  <2> QED
    BY <1>5, <2>1, <2>2
<1>10. regCount[e] \in Nat /\ regCount' \in [Event -> Nat] /\ regCount'[e] = regCount[e] + 1
       /\ \A f \in Event : f # e => regCount'[f] = regCount[f]
  BY <1>0, <1>4 DEF Types
<1>11. Types'
  BY <1>0, <1>4, <1>8, <1>9, <1>10, ReturnTypes DEF Types, cpu
<1>12. call'[p] = Idle /\ OthersAlike(p)
  BY <1>4, ReturnFacts DEF cpu
<1>13. RunningKept
  <2> SUFFICES ASSUME NEW f \in Event, NEW q \in PE
               PROVE  "running" \in se'[Entry(f, q)].state <=> "running" \in se[Entry(f, q)].state
    BY DEF RunningKept
  <2>1. Entry(f, q) \in Entries
    BY EntryFacts
  <2> QED
    BY <1>6, <1>8, <2>1
<1>14. LoadedKept(p)
  BY <1>1, <1>4, <1>8, LoadedElsewhere DEF k
<1>15. ASSUME NEW f \in Event PROVE CountOK(f)'
  <2>0. call'[p].op # "REGISTER"
    BY <1>12 DEF Idle, Doing
  <2>1. CASE f = e
    <3>1. RegisteredEntries(e)' = RegisteredEntries(e) \cup {k} /\ k \notin RegisteredEntries(e)
      <4>1. k[1] = e
        BY EntryFacts DEF k
      <4> QED
        BY <1>6, <1>8, <4>1 DEF RegisteredEntries
    <3>2. Cardinality(RegisteredEntries(e)') = Cardinality(RegisteredEntries(e)) + 1
      BY <3>1, RegisteredFinite, FS_AddElement
    <3>3. Registering(e)' = Registering(e) \ {p} /\ p \in Registering(e) /\ Registering(e) \subseteq PE
      BY <1>1, <1>4, <1>12, <2>0 DEF Registering, OthersAlike
    <3>4. Cardinality(Registering(e)') = Cardinality(Registering(e)) - 1
      BY <3>3, PEFinite, FS_RemoveElement
    <3>5. CountOK(e)
      BY DEF SerialInv
    <3>6. Cardinality(Registering(e)) \in Nat /\ Cardinality(RegisteredEntries(e)) \in Nat
      BY <3>3, PEFinite, RegisteredFinite
    <3> QED
      BY <1>10, <2>1, <3>2, <3>4, <3>5, <3>6, <1>12, ConstantFacts DEF CountOK, Registering, OthersAlike, Calls
  <2>2. CASE f # e
    <3>1. \A q \in PE : Entry(f, q) # k /\ Entry(f, q) \in Entries
      BY <2>2, EntryFacts DEF k
    <3> QED
      BY <1>8, <1>10, <1>12, <2>0, <2>2, <3>1, CountKept
  <2> QED
    BY <2>1, <2>2
<1>16. \A f \in Event : MapOK(f)'
  BY <1>4, MapsKept
<1> QED
  BY <1>4, <1>9, <1>11, <1>13, <1>14, <1>15, <1>16, ReturnStep, ActiveAsBefore DEF cpu

(* sdei_event_unregister.                                                  *)
LEMMA UnregisterStep ==
  ASSUME SerialInv, NEW p \in PE, Unregister(p)
  PROVE  SerialInv'
<1>0. Types /\ CallOK(p) /\ OldOK(p)
  BY DEF SerialInv
<1>1. PICK e \in Event : e = call[p].event
  BY <1>0 DEF CallOK, Unregister, Body
<1>2. PICK i : i = intr[e]
  OBVIOUS
<1> DEFINE k == Entry(e, p)
           new == old[p] \ {"registered", "enabled"}
           entry == [Unregistered EXCEPT !.state = new]
<1>3. /\ pc[p] = "locked" /\ call[p].op = "UNREGISTER" /\ call[p].op \in StateCalls
      /\ "registered" \in old[p] /\ Return(p)
      /\ se' = [se EXCEPT ![k] = entry]
      /\ regCount' = [regCount EXCEPT ![e] = @ - 1]
      /\ UNCHANGED <<clients, intr, bound, cpu, route>>
  BY <1>1 DEF Unregister, Body, Allowed, Transition, StateCalls
<1>4. \/ gic' = gic
      \/ /\ i \in Interrupt
         /\ gic' = [gic EXCEPT ![Line(i, p)] =
                      [@ EXCEPT !.owner = "NS", !.enabled = FALSE, !.pending = FALSE]]
  <2>1. bound[e] => i \in Interrupt
    BY <1>2, BoundInterrupt
  <2> QED
    BY <1>1, <1>2, <2>1 DEF Unregister
<1>5. k \in Entries /\ k[1] = e /\ se[k].state = old[p] /\ old[p] \in StateType
  BY <1>0, <1>1, <1>3, EntryFacts, OwnTypes DEF OldOK
<1>6. Unregistered \in EntryType
  BY DEF Unregistered, EntryType, StateType
<1>7. entry \in EntryType /\ entry.state = new
  BY <1>5, <1>6 DEF EntryType, StateType
<1> HIDE DEF k, entry
<1>8. /\ se' \in [Entries -> EntryType] /\ se'[k].state = new
      /\ \A l \in Entries : l # k => se'[l].state = se[l].state
  BY <1>0, <1>3, <1>5, <1>7 DEF Types
<1>9. gic' \in [Lines -> LineType] /\ \A l \in Lines : gic'[l].active = gic[l].active
  <2>1. CASE gic' = gic
    BY <1>0, <2>1 DEF Types
  <2>2. CASE /\ i \in Interrupt
             /\ gic' = [gic EXCEPT ![Line(i, p)] =
                          [@ EXCEPT !.owner = "NS", !.enabled = FALSE, !.pending = FALSE]]
    <3>1. Line(i, p) \in Lines
      BY <2>2, LineFacts
    <3> QED
      BY <1>0, <2>2, <3>1 DEF Types, LineType
  <2> QED
    BY <1>4, <2>1, <2>2
<1>10. regCount[e] \in Nat /\ regCount[e] >= 1
  BY <1>3, <1>5, RegisteredCounts DEF k
<1>11. /\ regCount' \in [Event -> Nat] /\ regCount'[e] = regCount[e] - 1
       /\ \A f \in Event : f # e => regCount'[f] = regCount[f]
  BY <1>0, <1>3, <1>10 DEF Types
<1>12. Types'
  BY <1>0, <1>3, <1>8, <1>9, <1>11, ReturnTypes DEF Types, cpu
<1>13. call'[p] = Idle /\ OthersAlike(p)
  BY <1>3, ReturnFacts DEF cpu
<1>14. RunningKept
  <2> SUFFICES ASSUME NEW f \in Event, NEW q \in PE
               PROVE  "running" \in se'[Entry(f, q)].state <=> "running" \in se[Entry(f, q)].state
    BY DEF RunningKept
  <2>1. Entry(f, q) \in Entries
    BY EntryFacts
  <2> QED
    BY <1>5, <1>8, <2>1
<1>15. LoadedKept(p)
  BY <1>1, <1>3, <1>8, LoadedElsewhere DEF k
<1>16. ASSUME NEW f \in Event PROVE CountOK(f)'
  <2>0. call'[p].op # "REGISTER"
    BY <1>13 DEF Idle, Doing
  <2>1. CASE f = e
    <3>1. RegisteredEntries(e)' = RegisteredEntries(e) \ {k} /\ k \in RegisteredEntries(e)
      BY <1>3, <1>5, <1>8 DEF RegisteredEntries
    <3>2. Cardinality(RegisteredEntries(e)') = Cardinality(RegisteredEntries(e)) - 1
      BY <3>1, RegisteredFinite, FS_RemoveElement
    <3>3. Registering(e)' = Registering(e) /\ Registering(e) \subseteq PE
      BY <1>1, <1>3, <1>13, <2>0 DEF Registering, OthersAlike
    <3>4. CountOK(e)
      BY DEF SerialInv
    <3>5. Cardinality(Registering(e)) \in Nat /\ Cardinality(RegisteredEntries(e)) \in Nat
      BY <3>3, PEFinite, RegisteredFinite
    <3>6. Cardinality(Registering(e)') = Cardinality(Registering(e))
      BY <3>3
    <3>7. clients' = clients
      BY <1>13 DEF OthersAlike
    <3> QED
      BY <1>10, <1>11, <2>1, <3>2, <3>4, <3>5, <3>6, <3>7, ConstantFacts
         DEF CountOK, Registering, Calls
  <2>2. CASE f # e
    <3>1. \A q \in PE : Entry(f, q) # k /\ Entry(f, q) \in Entries
      BY <2>2, EntryFacts DEF k
    <3> QED
      BY <1>8, <1>11, <1>13, <2>0, <2>2, <3>1, CountKept
  <2> QED
    BY <2>1, <2>2
<1>17. \A f \in Event : MapOK(f)'
  BY <1>3, MapsKept
<1> QED
  BY <1>3, <1>9, <1>12, <1>14, <1>15, <1>16, <1>17, ReturnStep, ActiveAsBefore DEF cpu

(* A call that returns and registers nothing.                              *)
LEMMA CountsKept ==
  ASSUME SerialInv, NEW p \in PE, OthersAlike(p), call'[p] = Idle, regCount' = regCount,
         \A k \in Entries : "registered" \in se'[k].state <=> "registered" \in se[k].state
  PROVE  \A e \in Event : CountOK(e)'
<1>1. call'[p].op # "REGISTER"
  BY DEF Idle, Doing
<1>2. ASSUME NEW e \in Event
      PROVE  \A q \in PE : "registered" \in se'[Entry(e, q)].state <=> "registered" \in se[Entry(e, q)].state
  BY EntryFacts
<1> QED
  BY <1>1, <1>2, CountKept

(* sdei_event_enable and sdei_event_disable.                               *)
LEMMA SwitchStep ==
  ASSUME SerialInv, NEW p \in PE, NEW op \in {"ENABLE", "DISABLE"}, NEW on \in BOOLEAN,
         Switch(p, op, on)
  PROVE  SerialInv'
<1>0. Types /\ CallOK(p) /\ OldOK(p)
  BY DEF SerialInv
<1>1. PICK e \in Event : e = call[p].event
  BY <1>0 DEF CallOK, Switch, Body
<1>2. PICK i : i = intr[e]
  OBVIOUS
<1>3. PICK new : new = Transition(old[p], op)
  OBVIOUS
<1> DEFINE k == Entry(e, p)
<1>4. /\ pc[p] = "locked" /\ call[p].op = op /\ call[p].op \in StateCalls /\ Return(p)
      /\ se' = [se EXCEPT ![k].state = new]
      /\ UNCHANGED <<clients, maps, cpu, route>>
  BY <1>1, <1>3 DEF Switch, Body, SetState, StateCalls
<1>5. \/ gic' = gic
      \/ i \in Interrupt /\ gic' = [gic EXCEPT ![Line(i, p)].enabled = on]
  <2>1. bound[e] => i \in Interrupt
    BY <1>2, BoundInterrupt
  <2> QED
    BY <1>1, <1>2, <2>1 DEF Switch
<1>6. k \in Entries /\ se[k].state = old[p] /\ old[p] \in StateType
  BY <1>0, <1>1, <1>4, EntryFacts, OwnTypes DEF OldOK
<1>7. /\ new \in StateType
      /\ "running" \in new <=> "running" \in old[p]
      /\ "registered" \in new <=> "registered" \in old[p]
  BY <1>3, <1>6 DEF Transition, StateType
<1> HIDE DEF k
<1>8. /\ se' \in [Entries -> EntryType] /\ se'[k].state = new
      /\ \A l \in Entries : l # k => se'[l].state = se[l].state
  BY <1>0, <1>4, <1>6, <1>7 DEF Types, EntryType
<1>9. gic' \in [Lines -> LineType] /\ \A l \in Lines : gic'[l].active = gic[l].active
  <2>1. CASE gic' = gic
    BY <1>0, <2>1 DEF Types
  <2>2. CASE i \in Interrupt /\ gic' = [gic EXCEPT ![Line(i, p)].enabled = on]
    <3>1. Line(i, p) \in Lines
      BY <2>2, LineFacts
    <3> QED
      BY <1>0, <2>2, <3>1 DEF Types, LineType
  <2> QED
    BY <1>5, <2>1, <2>2
<1>10. Types'
  BY <1>0, <1>4, <1>8, <1>9, ReturnTypes DEF Types, cpu, maps
<1>11. call'[p] = Idle /\ OthersAlike(p)
  BY <1>4, ReturnFacts DEF cpu
<1>12. \A l \in Entries : /\ "running" \in se'[l].state <=> "running" \in se[l].state
                          /\ "registered" \in se'[l].state <=> "registered" \in se[l].state
  BY <1>6, <1>7, <1>8
<1>13. RunningKept
  BY <1>12, EntryFacts DEF RunningKept
<1>14. LoadedKept(p)
  BY <1>1, <1>4, <1>8, LoadedElsewhere DEF k
<1>15. \A f \in Event : CountOK(f)' /\ MapOK(f)'
  BY <1>4, <1>11, <1>12, CountsKept, MapsKept DEF maps
<1> QED
  BY <1>4, <1>9, <1>10, <1>13, <1>14, <1>15, ReturnStep, ActiveAsBefore DEF cpu

(* sdei_event_routing_set.                                                 *)
LEMMA RoutingSetStep ==
  ASSUME SerialInv, NEW p \in PE, RoutingSet(p)
  PROVE  SerialInv'
<1>0. Types /\ CallOK(p)
  BY DEF SerialInv
<1>1. PICK e \in Event : e = call[p].event
  BY <1>0 DEF CallOK, RoutingSet, Body
<1>2. PICK r \in PE \cup {0} : r = call[p].arg
  BY <1>0 DEF CallOK, RoutingSet, Body
<1>3. PICK i \in Interrupt : i = intr[e]
  BY <1>1, BoundInterrupt DEF RoutingSet
<1> DEFINE k == Entry(e, p)
           flags == IF r = 0 THEN "ANY" ELSE "PE"
<1>4. /\ pc[p] = "locked" /\ call[p].op = "ROUTING" /\ Return(p)
      /\ se' = [se EXCEPT ![k].flags = flags]
      /\ route' = [route EXCEPT ![i] = r]
      /\ UNCHANGED <<clients, maps, cpu, gic>>
  BY <1>1, <1>2, <1>3 DEF RoutingSet, Body
<1>5. k \in Entries /\ flags \in {"PE", "ANY"}
  BY EntryFacts
<1> HIDE DEF k, flags
<1>6. /\ se' \in [Entries -> EntryType]
      /\ \A l \in Entries : se'[l].state = se[l].state
  BY <1>0, <1>4, <1>5 DEF Types, EntryType
<1>7. Types'
  BY <1>0, <1>4, <1>6, ReturnTypes DEF Types, cpu, maps
<1>8. call'[p] = Idle /\ OthersAlike(p)
  BY <1>4, ReturnFacts DEF cpu
<1>9. RunningKept /\ LoadedKept(p)
  BY <1>6, EntryFacts DEF RunningKept, LoadedKept
<1>10. \A f \in Event : CountOK(f)' /\ MapOK(f)'
  BY <1>4, <1>6, <1>8, CountsKept, MapsKept DEF maps
<1> QED
  BY <1>4, <1>7, <1>9, <1>10, ReturnStep, ActiveAsBefore DEF cpu

(* sdei_interrupt_release, and the end of sdei_interrupt_bind.             *)
LEMMA ReleaseStep ==
  ASSUME SerialInv, NEW p \in PE, Release(p)
  PROVE  SerialInv'
<1>0. Types /\ CallOK(p)
  BY DEF SerialInv
<1>1. PICK e \in Event : e = call[p].event /\ e \in Dynamic
  BY <1>0 DEF CallOK, Release, Body
<1>2. /\ pc[p] = "locked" /\ Return(p)
      /\ intr' = [intr EXCEPT ![e] = DynIrq]
      /\ bound' = [bound EXCEPT ![e] = FALSE]
      /\ UNCHANGED <<clients, se, regCount, cpu, ic>>
  BY <1>1 DEF Release, Body
<1>3. Types'
  BY <1>0, <1>2, ReturnTypes DEF Types, cpu, ic
<1>4. call'[p] = Idle /\ OthersAlike(p)
  BY <1>2, ReturnFacts DEF cpu
<1>5. RunningKept /\ LoadedKept(p)
  BY <1>2 DEF RunningKept, LoadedKept
<1>6. \A f \in Event : CountOK(f)'
  BY <1>2, <1>4, CountsKept
<1>7. ASSUME NEW f \in Event PROVE MapOK(f)'
  <2>1. MapOK(f)
    BY DEF SerialInv
  <2>2. CASE f = e
    BY <1>0, <1>1, <1>2, <2>2, ConstantFacts DEF MapOK, Types
  <2>3. CASE f # e
    BY <1>0, <1>2, <2>1, <2>3 DEF MapOK, Types, About
  <2> QED
    BY <2>2, <2>3
<1> QED
  BY <1>2, <1>3, <1>5, <1>6, <1>7, ReturnStep, ActiveAsBefore DEF cpu, ic

LEMMA BindTakeStep ==
  ASSUME SerialInv, NEW p \in PE, BindTake(p)
  PROVE  SerialInv'
<1>0. Types /\ CallOK(p)
  BY DEF SerialInv
<1>1. PICK e \in Event : e = call[p].event
  BY <1>0 DEF CallOK, BindTake, Body
<1>2. PICK i : i = call[p].arg
  OBVIOUS
<1>3. /\ pc[p] = "locked" /\ Return(p)
      /\ intr' = [intr EXCEPT ![e] = i]
      /\ bound' = [bound EXCEPT ![e] = TRUE]
      /\ UNCHANGED <<clients, se, regCount, cpu, ic>>
  BY <1>1, <1>2 DEF BindTake, Body
<1>4. e \in Dynamic /\ i \in (Ppi \cup Spi) \cap About /\ i \in Interrupt /\ Fits(e, i)
  BY <1>0, <1>1, <1>2, ConstantFacts DEF CallOK, BindTake, Body
<1>5. Types'
  BY <1>0, <1>3, <1>4, ReturnTypes DEF Types, cpu, ic
<1>6. call'[p] = Idle /\ OthersAlike(p)
  BY <1>3, ReturnFacts DEF cpu
<1>7. RunningKept /\ LoadedKept(p)
  BY <1>3 DEF RunningKept, LoadedKept
<1>8. \A f \in Event : CountOK(f)'
  BY <1>3, <1>6, CountsKept
<1>9. ASSUME NEW f \in Event PROVE MapOK(f)'
  <2>1. MapOK(f)
    BY DEF SerialInv
  <2>2. CASE f = e
    <3>1. bound'[f] /\ intr'[f] = i /\ f \notin Static
      BY <1>0, <1>3, <1>4, <2>2, ConstantFacts DEF Types
    <3> QED
      BY <1>3, <1>4, <2>2, <3>1 DEF MapOK, About
  <2>3. CASE f # e
    BY <1>0, <1>3, <2>1, <2>3 DEF MapOK, Types, About
  <2> QED
    BY <2>2, <2>3
<1> QED
  BY <1>3, <1>5, <1>7, <1>8, <1>9, ReturnStep, ActiveAsBefore DEF cpu, ic

-----------------------------------------------------------------------------
(* Interrupts *)

(* The interrupt that the PE handles is ended.                             *)
LEMMA LineEnded ==
  ASSUME SerialInv, NEW p \in PE, NEW i \in Interrupt, gic[Line(i, p)].active = p,
         NEW l \in LineType, l.active = 0, gic' = [gic EXCEPT ![Line(i, p)] = l]
  PROVE  /\ gic' \in [Lines -> LineType]
         /\ ActiveElsewhereKept(p)
         /\ \A j \in Interrupt :
              /\ gic'[Line(j, p)].active = p => gic[Line(j, p)].active = p
              /\ j # i => (gic[Line(j, p)].active = p => gic'[Line(j, p)].active = p)
<1>0. Types /\ Line(i, p) \in Lines
  BY LineFacts DEF SerialInv
<1>1. /\ gic' \in [Lines -> LineType]
      /\ \A k \in Lines : gic'[k] = IF k = Line(i, p) THEN l ELSE gic[k]
  BY <1>0 DEF Types
<1>2. ActiveElsewhereKept(p)
  <2> SUFFICES ASSUME NEW j \in Interrupt, NEW q \in PE \ {p}
               PROVE  gic'[Line(j, q)].active = q <=> gic[Line(j, q)].active = q
    BY DEF ActiveElsewhereKept
  <2>1. Line(j, q) \in Lines
    BY LineFacts
  <2> QED
    BY <1>1, <2>1, ConstantFacts
<1>3. ASSUME NEW j \in Interrupt
      PROVE  /\ gic'[Line(j, p)].active = p => gic[Line(j, p)].active = p
             /\ j # i => (gic[Line(j, p)].active = p => gic'[Line(j, p)].active = p)
  BY <1>1, LineFacts, ConstantFacts
<1> QED
  BY <1>1, <1>2, <1>3

(* A PE that handles interrupt i.                                          *)
LEMMA HandlerFacts ==
  ASSUME SerialInv, NEW p \in PE, call[p].op \in {"INTR", "COMPLETE"}
  PROVE  /\ call[p].event \in Event /\ call[p].arg \in Interrupt
         /\ Fits(call[p].event, call[p].arg)
         /\ gic[Line(call[p].arg, p)].active = p /\ gic[Line(call[p].arg, p)] \in LineType
<1>1. call[p].event \in Event /\ call[p].arg \in Interrupt /\ gic[Line(call[p].arg, p)].active = p
      /\ Fits(call[p].event, call[p].arg)
  BY DEF SerialInv, CallOK, ActiveOK, Fits
<1>2. Types
  BY DEF SerialInv
<1> QED
  BY <1>1, <1>2, OwnTypes

(* What remains to be shown of the end of an interrupt.                    *)
LEMMA EndStep ==
  ASSUME SerialInv, NEW p \in PE, pc[p] = "locked", call[p].op \in {"INTR", "COMPLETE"},
         Return(p), UNCHANGED <<clients, se, maps, masked, stack, route>>,
         pendingEnables' \in [PE -> BOOLEAN],
         \/ gic' = gic
         \/ \E l \in LineType : l.active = 0 /\ gic' = [gic EXCEPT ![Line(call[p].arg, p)] = l]
  PROVE  SerialInv'
<1>0. Types
  BY DEF SerialInv
<1>1. PICK i \in Interrupt : i = call[p].arg /\ gic[Line(i, p)].active = p
  BY HandlerFacts
<1>2. /\ gic' \in [Lines -> LineType] /\ ActiveElsewhereKept(p)
      /\ \A j \in Interrupt :
           /\ gic'[Line(j, p)].active = p => gic[Line(j, p)].active = p
           /\ j # i => (gic[Line(j, p)].active = p => gic'[Line(j, p)].active = p)
  <2>1. CASE gic' = gic
    BY <1>0, <2>1 DEF Types, ActiveElsewhereKept
  <2>2. CASE \E l \in LineType : l.active = 0 /\ gic' = [gic EXCEPT ![Line(call[p].arg, p)] = l]
    <3>1. PICK l \in LineType : l.active = 0 /\ gic' = [gic EXCEPT ![Line(i, p)] = l]
      BY <1>1, <2>2
    <3> QED
      BY <1>1, <3>1, LineEnded
  <2> QED
    BY <2>1, <2>2
<1>3. Types'
  BY <1>0, <1>2, ReturnTypes DEF Types, maps
<1>4. call'[p] = Idle /\ OthersAlike(p)
  BY ReturnFacts
<1>5. RunningKept /\ LoadedKept(p)
  BY DEF RunningKept, LoadedKept
<1>6. \A f \in Event : CountOK(f)' /\ MapOK(f)'
  BY <1>4, CountsKept, MapsKept DEF maps
<1> QED
  BY <1>1, <1>2, <1>3, <1>5, <1>6, ReturnStep

LEMMA MaskedTriggerStep ==
  ASSUME SerialInv, NEW p \in PE, MaskedTrigger(p)
  PROVE  SerialInv'
<1>0. Types /\ pc[p] = "locked" /\ call[p].op = "INTR"
  BY DEF SerialInv, MaskedTrigger, Body
<1> DEFINE here == call[p].event \in Private \/ se[Entry(call[p].event, p)].flags = "PE"
           g == gic[Line(call[p].arg, p)]
           l == [g EXCEPT !.active = 0, !.pending = TRUE, !.enabled = @ /\ ~ here]
           k == Line(call[p].arg, p)
<1>1. /\ Return(p) /\ UNCHANGED <<clients, se, maps, masked, stack, route>>
      /\ \/ UNCHANGED <<gic, pendingEnables>>
         \/ /\ gic' = [gic EXCEPT ![k].active = 0, ![k].pending = TRUE, ![k].enabled = @ /\ ~ here]
            /\ pendingEnables' = [pendingEnables EXCEPT ![p] = @ \/ here]
  BY DEF MaskedTrigger
<1>2. here \in BOOLEAN /\ g \in LineType
  BY <1>0, HandlerFacts
<1>3. \/ gic' = gic
      \/ gic' = [gic EXCEPT ![Line(call[p].arg, p)] = l]
  BY <1>1
<1> HIDE DEF here, g
<1>4. l \in LineType /\ l.active = 0
  BY <1>2 DEF LineType
<1> HIDE DEF l
<1>5. pendingEnables' \in [PE -> BOOLEAN]
  BY <1>0, <1>1, <1>2 DEF Types
<1> QED
  BY <1>0, <1>1, <1>3, <1>4, <1>5, EndStep

LEMMA NotDispatchedStep ==
  ASSUME SerialInv, NEW p \in PE, NotDispatched(p)
  PROVE  SerialInv'
<1>0. Types /\ pc[p] = "locked" /\ call[p].op = "INTR"
  BY DEF SerialInv, NotDispatched, Body
<1> DEFINE again == "registered" \in old[p] /\ call[p].event # 0
           g == gic[Line(call[p].arg, p)]
           l == [g EXCEPT !.active = 0, !.pending = @ \/ again]
           k == Line(call[p].arg, p)
<1>1. /\ Return(p) /\ UNCHANGED <<clients, se, maps, cpu, route>>
      /\ gic' = [gic EXCEPT ![k].active = 0, ![k].pending = @ \/ again]
  BY DEF NotDispatched
<1>2. again \in BOOLEAN /\ g \in LineType
  BY <1>0, HandlerFacts
<1>3. gic' = [gic EXCEPT ![Line(call[p].arg, p)] = l]
  BY <1>1
<1> HIDE DEF again, g
<1>4. l \in LineType /\ l.active = 0
  BY <1>2 DEF LineType
<1> HIDE DEF l
<1>5. pendingEnables' \in [PE -> BOOLEAN]
  BY <1>0, <1>1 DEF Types, cpu
<1> QED
  BY <1>0, <1>1, <1>3, <1>4, <1>5, EndStep DEF cpu

(* The end of sdei_event_complete.                                         *)
LEMMA CompletedStep ==
  ASSUME SerialInv, NEW p \in PE, Completed(p)
  PROVE  SerialInv'
<1>0. /\ Types /\ LockOK /\ CallOK(p) /\ pc[p] = "locked" /\ call[p].op = "COMPLETE"
      /\ UNCHANGED <<clients, se, maps, cpu, route>>
  BY DEF SerialInv, Completed, Body
<1>1. PICK g : g = gic[Line(call[p].arg, p)]
  OBVIOUS
<1> DEFINE l == [g EXCEPT !.active = 0]
<1>2. CASE Return(p) /\ gic' = [gic EXCEPT ![Line(call[p].arg, p)].active = 0]
  <2>1. g \in LineType
    BY <1>0, <1>1, HandlerFacts
  <2>2. l \in LineType /\ l.active = 0
    BY <2>1 DEF LineType
  <2>3. gic' = [gic EXCEPT ![Line(call[p].arg, p)] = l]
    BY <1>1, <1>2
  <2>4. pendingEnables' \in [PE -> BOOLEAN]
    BY <1>0 DEF Types, cpu
  <2> HIDE DEF l
  <2> QED
    BY <1>0, <1>2, <2>2, <2>3, <2>4, EndStep DEF cpu
<1>3. CASE pc' = [pc EXCEPT ![p] = "panic"] /\ UNCHANGED <<gic, lock, call, old>>
  <2>1. Types'
    BY <1>0, <1>3 DEF Types, maps, cpu, PcType
  <2>2. OthersAlike(p) /\ pc'[p] = "panic"
    BY <1>0, <1>3 DEF Types, OthersAlike, cpu
  <2>3. CallOK(p)' /\ OldOK(p)'
    BY <1>0, <1>3, <2>2 DEF CallOK, OldOK, StateCalls, Calls, About, cpu
  <2>4. LockOK'
    BY <1>0, <1>3, <2>2 DEF LockOK, Holds, OthersAlike
  <2> QED
    BY <1>0, <1>3, <2>1, <2>2, <2>3, <2>4, QuietStep DEF cpu
<1> QED
  BY <1>2, <1>3 DEF Completed

(* ehf_el3_interrupt_handler.                                              *)
LEMMA AcknowledgeLine ==
  ASSUME SerialInv, NEW p \in PE, NEW i \in Interrupt, Signalled(p, i),
         gic' = [gic EXCEPT ![Line(i, p)].active = p, ![Line(i, p)].pending = FALSE]
  PROVE  /\ gic' \in [Lines -> LineType] /\ ActiveElsewhereKept(p)
         /\ gic'[Line(i, p)].active = p /\ gic[Line(i, p)].active = 0
         /\ \A j \in Interrupt : j # i => gic'[Line(j, p)].active = gic[Line(j, p)].active
<1>0. Types /\ Line(i, p) \in Lines
  BY LineFacts DEF SerialInv
<1>1. gic[Line(i, p)].active = 0
  BY DEF Signalled
<1>2. /\ gic' \in [Lines -> LineType] /\ gic'[Line(i, p)].active = p
      /\ \A k \in Lines : k # Line(i, p) => gic'[k] = gic[k]
  BY <1>0 DEF Types, LineType
<1>3. ActiveElsewhereKept(p)
  <2> SUFFICES ASSUME NEW j \in Interrupt, NEW q \in PE \ {p}
               PROVE  gic'[Line(j, q)].active = q <=> gic[Line(j, q)].active = q
    BY DEF ActiveElsewhereKept
  <2>1. Line(j, q) \in Lines
    BY LineFacts
  <2> QED
    BY <1>1, <1>2, <2>1, ConstantFacts
<1>4. \A j \in Interrupt : j # i => gic'[Line(j, p)].active = gic[Line(j, p)].active
  BY <1>2, LineFacts
<1> QED
  BY <1>1, <1>2, <1>3, <1>4

(* The map that find_event_map_by_intr finds is of that interrupt.         *)
LEMMA MapFits ==
  ASSUME SerialInv, NEW i \in Interrupt, NEW e \in MapsOf(i)
  PROVE  Fits(e, i)
<1>1. e \in Event /\ (IsSpi(i) <=> e \in Shared) /\ intr[e] = i
  BY DEF MapsOf
<1>2. MapOK(e)
  BY <1>1 DEF SerialInv
<1>3. e \in Static \/ bound[e]
  BY <1>1, <1>2, ConstantFacts DEF MapOK
<1>4. CASE e \in Static
  BY <1>1, <1>2, <1>4 DEF MapOK, Fits
<1>5. CASE e \notin Static
  BY <1>1, <1>2, <1>3, <1>5 DEF MapOK, Fits
<1> QED
  BY <1>4, <1>5

LEMMA AcknowledgeStep ==
  ASSUME SerialInv, NEW p \in PE, NEW i \in Interrupt, Acknowledge(p, i)
  PROVE  SerialInv'
<1>0. /\ Types /\ LockOK /\ CallOK(p) /\ StackOK(p) /\ ActiveOK(p)
      /\ \A e \in Event : MapOK(e)
  BY DEF SerialInv
<1> DEFINE e == CHOOSE e \in MapsOf(i) : \A f \in MapsOf(i) : e <= f
<1>1. /\ pc[p] = "ns" /\ Signalled(p, i)
      /\ gic' = [gic EXCEPT ![Line(i, p)].active = p, ![Line(i, p)].pending = FALSE]
      /\ UNCHANGED <<clients, se, maps, lock, cpu, route, old>>
  BY DEF Acknowledge
<1>2. PICK c \in CallType, l \in {"panic", "lock"} :
        /\ call' = [call EXCEPT ![p] = c] /\ pc' = [pc EXCEPT ![p] = l]
        /\ l = "panic" => c.op = "none" /\ c.event = 0
        /\ l = "lock" => c.op = "INTR" /\ c.arg = i /\ Fits(c.event, i)
  <2>1. CASE MapsOf(i) = {}
    <3>1. call' = [call EXCEPT ![p] = Idle] /\ pc' = [pc EXCEPT ![p] = "panic"]
      BY <1>0, <1>1, <2>1 DEF Acknowledge, CallOK, Types
    <3>2. Idle.op = "none" /\ Idle.event = 0
      BY DEF Idle, Doing
    <3> QED
      BY <3>1, <3>2, IdleType
  <2>2. CASE MapsOf(i) # {}
    <3>1. /\ call' = [call EXCEPT ![p] = Doing("INTR", e, i)]
          /\ pc' = [pc EXCEPT ![p] = "lock"]
      BY <2>2 DEF Acknowledge
    <3>2. e \in MapsOf(i)
      <4>1. MapsOf(i) \subseteq Nat
        BY ConstantFacts DEF MapsOf
      <4> QED
        BY <2>2, <4>1, LeastExists
    <3>3. e \in Event /\ i \in Nat /\ Fits(e, i)
      BY <3>2, MapFits, ConstantFacts DEF MapsOf
    <3> HIDE DEF e
    <3>4. /\ Doing("INTR", e, i) \in CallType /\ Doing("INTR", e, i).op = "INTR"
          /\ Doing("INTR", e, i).event = e /\ Doing("INTR", e, i).arg = i
      BY <3>3 DEF Doing, CallType
    <3> QED
      BY <3>1, <3>3, <3>4
  <2> QED
    BY <2>1, <2>2
<1>3. /\ gic' \in [Lines -> LineType] /\ ActiveElsewhereKept(p)
      /\ gic'[Line(i, p)].active = p /\ gic[Line(i, p)].active = 0
      /\ \A j \in Interrupt : j # i => gic'[Line(j, p)].active = gic[Line(j, p)].active
  BY <1>1, AcknowledgeLine
<1>4. Types'
  BY <1>0, <1>1, <1>2, <1>3 DEF Types, maps, cpu, PcType
<1>5. OthersAlike(p) /\ call'[p] = c /\ pc'[p] = l /\ stack'[p] = stack[p]
  BY <1>0, <1>1, <1>2 DEF Types, OthersAlike, cpu
<1>6. \A n \in DOMAIN stack[p] :
        /\ stack[p][n].intr \in Interrupt /\ gic[Line(stack[p][n].intr, p)].active = p
        /\ stack[p][n].intr # i
  BY <1>0, <1>3, ConstantFacts DEF CallOK, Fits, ActiveOK
<1>7. CallOK(p)' /\ OldOK(p)'
  BY <1>0, <1>1, <1>2, <1>5 DEF CallOK, OldOK, StateCalls, Calls, About, cpu, Idle, Doing, Fits
<1>8. StackOK(p)'
  BY <1>0, <1>2, <1>5, <1>6 DEF StackOK
<1>9. ActiveOK(p)'
  <2>1. \A n \in DOMAIN stack[p] : gic'[Line(stack[p][n].intr, p)].active = p
    BY <1>3, <1>6
  <2>2. ASSUME NEW j \in Interrupt, NEW k \in Interrupt, j # k,
               gic'[Line(j, p)].active = p, gic'[Line(k, p)].active = p
        PROVE  ~ (j \in Critical <=> k \in Critical)
    <3>1. \A m \in Interrupt : m # i /\ gic'[Line(m, p)].active = p => Preempts(i, m)
      BY <1>1, <1>3 DEF Signalled
    <3>2. CASE j = i \/ k = i
      BY <2>2, <3>1, <3>2 DEF Preempts
    <3>3. CASE j # i /\ k # i
      BY <1>0, <1>3, <2>2, <3>3 DEF ActiveOK
    <3> QED
      BY <3>2, <3>3
  <2> QED
    BY <1>2, <1>3, <1>5, <2>1, <2>2 DEF ActiveOK
<1>10. LockOK'
  <2>1. \A f \in Event : ~ Holds(p, f) /\ ~ Holds(p, f)'
    BY <1>1, <1>2, <1>5, ConstantFacts DEF Holds, NeedsLock
  <2>2. \A f \in Event, q \in PE \ {p} : Holds(q, f)' <=> Holds(q, f)
    BY <1>5 DEF Holds, OthersAlike
  <2> QED
    BY <1>0, <1>1, <2>1, <2>2 DEF LockOK
<1>12. RunOK' /\ \A q \in PE \ {p} : OldOK(q)'
  BY <1>1, <1>2, <1>5, RunKept, OthersOld DEF RunningKept, LoadedKept
<1>13. \A f \in Event : CountOK(f)' /\ MapOK(f)'
  <2>1. call'[p].op # "REGISTER"
    BY <1>2, <1>5
  <2> QED
    BY <1>1, <1>5, <2>1, CountKept, MapsKept DEF maps
<1> QED
  BY <1>3, <1>4, <1>5, <1>7, <1>8, <1>9, <1>10, <1>12, <1>13, OwnStep

(* The dispatch of an event: the state that was loaded is its state, and   *)
(* no PE handles it.                                                       *)
LEMMA DispatchFacts ==
  ASSUME SerialInv, NEW p \in PE, NEW e \in Event, call[p].event = e, pc[p] = "locked",
         old[p] = {"registered", "enabled"}
  PROVE  /\ se[Entry(e, p)].state = {"registered", "enabled"}
         /\ \A q \in PE : e \in Shared \/ q = p => ~ Handling(e, q)
<1>1. OldOK(p) /\ RunOK /\ Types
  BY DEF SerialInv
<1>2. se[Entry(e, p)].state \in StateType
  BY <1>1, OwnTypes
<1>3. se[Entry(e, p)].state = {"registered", "enabled"}
  BY <1>1, <1>2 DEF OldOK, StateType
<1>4. "running" \notin se[Entry(e, p)].state
  BY <1>3
<1> QED
  BY <1>1, <1>3, <1>4 DEF RunOK

LEMMA DispatchStep ==
  ASSUME SerialInv, NEW p \in PE, Dispatch(p)
  PROVE  SerialInv'
<1>0. Types /\ CallOK(p) /\ LockOK /\ RunOK /\ StackOK(p) /\ ActiveOK(p)
  BY DEF SerialInv
<1>1. PICK e \in Event : e = call[p].event
  BY HandlerFacts DEF Dispatch, Body
<1> DEFINE k == Entry(e, p)
           new == {"registered", "enabled", "running"}
<1>2. /\ pc[p] = "locked" /\ call[p].op = "INTR" /\ old[p] = {"registered", "enabled"}
      /\ Unlock(p) /\ pc' = [pc EXCEPT ![p] = "push"] /\ old' = [old EXCEPT ![p] = {}]
      /\ UNCHANGED <<clients, maps, cpu, ic, call>>
  BY DEF Dispatch, Body, Allowed
<1>3. se' = [se EXCEPT ![k].state = new]
  <2>1. Transition(old[p], "DISPATCH") = new
    BY <1>2 DEF Transition
  <2> QED
    BY <1>1, <2>1 DEF Dispatch, SetState
<1>4. /\ se[k].state = {"registered", "enabled"} /\ k \in Entries
      /\ \A q \in PE : e \in Shared \/ q = p => ~ Handling(e, q)
  BY <1>1, <1>2, DispatchFacts, EntryFacts
<1>5. /\ new \in StateType /\ "running" \in new /\ "registered" \in new
      /\ "running" \notin se[k].state /\ "registered" \in se[k].state
  BY <1>4 DEF StateType
<1> HIDE DEF k, new
<1>5a. /\ se' \in [Entries -> EntryType] /\ se'[k].state = new
       /\ \A l \in Entries : l # k => se'[l].state = se[l].state
  <2>1. k \in Entries /\ se \in [Entries -> EntryType]
    BY <1>0, <1>4 DEF Types
  <2> QED
    BY <1>3, <1>5, <2>1 DEF EntryType
<1>6. Types'
  BY <1>0, <1>2, <1>5, <1>5a, UnlockType DEF Types, maps, cpu, ic, PcType, StateType
<1>7. OthersAlike(p) /\ pc'[p] = "push" /\ stack'[p] = stack[p] /\ call' = call
  BY <1>0, <1>2 DEF Types, OthersAlike, cpu
<1>8. CallOK(p)' /\ OldOK(p)'
  BY <1>0, <1>2, <1>7 DEF CallOK, OldOK, StateCalls, Calls, About
<1>9. StackOK(p)'
  <2>1. \A n \in DOMAIN stack[p] : stack[p][n].event # e
    BY <1>4 DEF Handling
  <2> QED
    BY <1>0, <1>1, <1>2, <1>7, <2>1 DEF StackOK
<1>10. ActiveOK(p)' /\ ActiveElsewhereKept(p)
  BY <1>0, <1>2, <1>7 DEF ActiveOK, ActiveElsewhereKept, ic
<1>11. LockOK'
  BY <1>2, <1>7, LocksReleased
<1>12. RunOK'
  <2>1. \A f \in Event, q \in PE : Handling(f, q)' <=> Handling(f, q) \/ (f = e /\ q = p)
    <3> TAKE f \in Event, q \in PE
    <3>1. CASE q = p
      BY <1>1, <1>2, <1>7, <3>1 DEF Handling
    <3>2. CASE q # p
      BY <1>7, <3>2 DEF Handling, OthersAlike
    <3> QED
      BY <3>1, <3>2
  <2>2. ASSUME NEW f \in Event, NEW q \in PE
        PROVE  "running" \in se'[Entry(f, q)].state <=>
                 \E r \in PE : Handling(f, r)' /\ (f \in Shared \/ r = q)
    <3>1. Entry(f, q) \in Entries /\ (Entry(f, q) = k <=> f = e /\ (e \in Shared \/ q = p))
      <4>1. Entry(f, q) = Entry(e, p) <=> f = e /\ (f \in Shared \/ q = p)
        BY ConstantFacts DEF Entry
      <4>2. Entry(f, q) \in Entries
        BY EntryFacts
      <4> QED
        BY <4>1, <4>2 DEF k
    <3>2. CASE Entry(f, q) = k
      BY <1>5, <1>5a, <2>1, <3>1, <3>2
    <3>3. CASE Entry(f, q) # k
      <4>1. se'[Entry(f, q)].state = se[Entry(f, q)].state
        BY <1>5, <1>5a, <3>1, <3>3
      <4>2. \A r \in PE : f \in Shared \/ r = q => (Handling(f, r)' <=> Handling(f, r))
        BY <2>1, <3>1, <3>3
      <4> QED
        BY <1>0, <4>1, <4>2 DEF RunOK
    <3> QED
      BY <3>2, <3>3
  <2>3. ASSUME NEW f \in Shared, NEW q \in PE, NEW r \in PE, Handling(f, q)', Handling(f, r)'
        PROVE  q = r
    <3>1. f \in Event
      BY ConstantFacts
    <3> QED
      BY <1>0, <1>4, <2>1, <2>3, <3>1 DEF RunOK
  <2> QED
    BY <2>2, <2>3 DEF RunOK
<1>13. LoadedKept(p)
  <2> SUFFICES ASSUME NEW f \in Event, NEW q \in PE \ {p},
                      pc[q] = "locked", call[q].event = f
               PROVE  Entry(f, q) # k
    <3>1. \A f \in Event, q \in PE : Entry(f, q) \in Entries
      BY EntryFacts
    <3> QED
      BY <1>5a, <3>1 DEF LoadedKept
  <2> SUFFICES ASSUME f = e, e \in Shared PROVE FALSE
    BY EntryFacts DEF k
  <2>1. Holds(p, e) /\ Holds(q, e)
    BY <1>1, <1>2 DEF Holds, NeedsLock
  <2> QED
    BY <1>0, <2>1 DEF LockOK
<1>14. \A q \in PE \ {p} : OldOK(q)'
  BY <1>7, <1>13, OthersOld
<1>15. \A f \in Event : CountOK(f)' /\ MapOK(f)'
  <2>1. ASSUME NEW f \in Event
        PROVE  \A q \in PE : "registered" \in se'[Entry(f, q)].state <=> "registered" \in se[Entry(f, q)].state
    <3>1. ASSUME NEW l \in Entries
          PROVE  "registered" \in se'[l].state <=> "registered" \in se[l].state
      BY <1>4, <1>5, <1>5a
    <3> QED
      BY <3>1, EntryFacts
  <2>2. call'[p].op # "REGISTER"
    BY <1>2, <1>7
  <2> QED
    BY <1>2, <1>7, <2>1, <2>2, CountKept, MapsKept DEF maps
<1> QED
  BY <1>6, <1>7, <1>8, <1>9, <1>10, <1>11, <1>12, <1>14, <1>15, OwnStep

(* setup_ns_dispatch.                                                      *)
LEMMA PushStep ==
  ASSUME SerialInv, NEW p \in PE, Push(p)
  PROVE  SerialInv'
<1>0. Types /\ CallOK(p) /\ RunOK /\ StackOK(p) /\ ActiveOK(p)
  BY DEF SerialInv
<1>1. call[p].op = "INTR"
  BY <1>0 DEF Push, CallOK
<1>2. PICK e \in Event, i \in Interrupt :
        e = call[p].event /\ i = call[p].arg /\ Fits(e, i) /\ gic[Line(i, p)].active = p
  BY <1>1, HandlerFacts
<1> DEFINE d == [event |-> e, intr |-> i]
<1>3. /\ pc[p] = "push"
      /\ stack' = [stack EXCEPT ![p] = Append(@, d)]
      /\ pc' = [pc EXCEPT ![p] = "ns"]
      /\ call' = [call EXCEPT ![p] = Idle]
      /\ old' = [old EXCEPT ![p] = {}]
      /\ UNCHANGED <<clients, se, maps, lock, masked, pendingEnables, ic>>
  BY <1>2 DEF Push
<1>4. d \in [event : Event, intr : Interrupt] /\ d.event = e /\ d.intr = i
  OBVIOUS
<1> HIDE DEF d
<1>5. stack[p] \in Seq([event : Event, intr : Interrupt])
  BY <1>0 DEF Types
<1>6. stack' \in [PE -> Seq([event : Event, intr : Interrupt])] /\ stack'[p] = Append(stack[p], d)
  <2>1. stack \in [PE -> Seq([event : Event, intr : Interrupt])]
    BY <1>0 DEF Types
  <2>2. Append(stack[p], d) \in Seq([event : Event, intr : Interrupt])
    BY <1>4, <1>5
  <2> QED
    BY <1>3, <2>1, <2>2
<1>7. /\ Len(stack[p]) \in Nat /\ DOMAIN stack[p] = 1 .. Len(stack[p])
      /\ DOMAIN stack'[p] = 1 .. Len(stack[p]) + 1
      /\ stack'[p][Len(stack[p]) + 1] = d
      /\ \A n \in DOMAIN stack[p] : n \in DOMAIN stack'[p] /\ stack'[p][n] = stack[p][n]
      /\ \A n \in DOMAIN stack'[p] : n \in DOMAIN stack[p] \/ n = Len(stack[p]) + 1
  BY <1>4, <1>5, <1>6
<1>8. Types'
  BY <1>0, <1>3, <1>6, IdleType DEF Types, maps, ic, PcType, StateType
<1>9. OthersAlike(p) /\ pc'[p] = "ns" /\ call'[p] = Idle
  BY <1>0, <1>3 DEF Types, OthersAlike
<1>10. \A n \in DOMAIN stack[p] : stack[p][n].event # e /\ stack[p][n].intr # i
  BY <1>0, <1>1, <1>2, <1>3 DEF StackOK
<1>11. CallOK(p)' /\ OldOK(p)'
  BY <1>0, <1>2, <1>3, <1>4, <1>7, <1>9 DEF CallOK, OldOK, StateCalls, Calls, About, Idle, Doing
<1>12. StackOK(p)'
  BY <1>0, <1>3, <1>4, <1>7, <1>9, <1>10 DEF StackOK, Idle, Doing
<1>13. ActiveOK(p)' /\ ActiveElsewhereKept(p)
  BY <1>0, <1>2, <1>3, <1>4, <1>7, <1>9 DEF ActiveOK, ActiveElsewhereKept, ic, Idle, Doing
<1>14. LockOK'
  BY <1>3, <1>9, LocksKept
<1>15. RunOK'
  <2>1. \A f \in Event, q \in PE : Handling(f, q)' <=> Handling(f, q)
    <3> TAKE f \in Event, q \in PE
    <3>1. CASE q = p
      <4>1. Handling(f, p)' <=> \E n \in DOMAIN stack'[p] : stack'[p][n].event = f
        BY <1>9 DEF Handling
      <4>2. Handling(f, p) <=> e = f \/ \E n \in DOMAIN stack[p] : stack[p][n].event = f
        BY <1>2, <1>3 DEF Handling
      <4>3. Len(stack[p]) + 1 \in DOMAIN stack'[p]
        BY <1>7
      <4> QED
        BY <1>4, <1>7, <3>1, <4>1, <4>2, <4>3
    <3>2. CASE q # p
      BY <1>9, <3>2 DEF Handling, OthersAlike
    <3> QED
      BY <3>1, <3>2
  <2> QED
    BY <1>0, <1>3, <2>1, ConstantFacts DEF RunOK
<1>16. \A q \in PE \ {p} : OldOK(q)'
  BY <1>3, <1>9, OthersOld DEF LoadedKept
<1>17. \A f \in Event : CountOK(f)' /\ MapOK(f)'
  BY <1>3, <1>9, CountsKept, MapsKept DEF maps
<1> QED
  BY <1>8, <1>9, <1>11, <1>12, <1>13, <1>14, <1>15, <1>16, <1>17, OwnStep

(* sdei_event_complete.                                                    *)
LEMMA CompleteStep ==
  ASSUME SerialInv, NEW p \in PE, Complete(p)
  PROVE  SerialInv'
<1>0. Types /\ CallOK(p) /\ RunOK /\ StackOK(p) /\ ActiveOK(p)
  BY DEF SerialInv
<1>1. pc[p] = "ns" /\ stack[p] # << >>
  BY Zenon DEF Complete
<1>2. Len(stack[p]) \in DOMAIN stack[p]
  BY <1>0, <1>1 DEF Types
<1>3. PICK e \in Event, i \in Interrupt :
        /\ e = Top(p).event /\ i = Top(p).intr /\ Fits(e, i) /\ gic[Line(i, p)].active = p
  BY <1>0, <1>2 DEF CallOK, ActiveOK, Fits, Top
<1> DEFINE c == Doing("COMPLETE", e, i)
<1>4. /\ call' = [call EXCEPT ![p] = c]
      /\ old' = [old EXCEPT ![p] = se[Entry(e, p)].state]
      /\ pc' = [pc EXCEPT ![p] = "complete"]
      /\ UNCHANGED <<clients, se, maps, lock, cpu, ic>>
  BY <1>3 DEF Complete
<1>5. c \in CallType /\ c.op = "COMPLETE" /\ c.event = e /\ c.arg = i
  BY ConstantFacts DEF Doing, CallType
<1> HIDE DEF c
<1>6. se[Entry(e, p)].state \in StateType /\ "running" \in se[Entry(e, p)].state
  <2>1. Handling(e, p)
    BY <1>2, <1>3 DEF Handling, Top
  <2> QED
    BY <1>0, <2>1, OwnTypes DEF RunOK
<1>7. Types'
  BY <1>0, <1>4, <1>5, <1>6 DEF Types, maps, cpu, ic, PcType
<1>8. /\ OthersAlike(p) /\ pc'[p] = "complete" /\ call'[p] = c /\ stack'[p] = stack[p]
      /\ old'[p] = se[Entry(e, p)].state
  BY <1>0, <1>4 DEF Types, OthersAlike, cpu
<1>9. CallOK(p)' /\ OldOK(p)'
  BY <1>0, <1>3, <1>4, <1>5, <1>6, <1>8 DEF CallOK, OldOK, StateCalls, Calls, About, cpu
<1>10. StackOK(p)'
  BY <1>0, <1>1, <1>3, <1>5, <1>8 DEF StackOK, Top
<1>11. ActiveOK(p)' /\ ActiveElsewhereKept(p)
  BY <1>0, <1>3, <1>4, <1>5, <1>8 DEF ActiveOK, ActiveElsewhereKept, ic
<1>12. LockOK'
  BY <1>1, <1>4, <1>8, LocksKept
<1>14. RunOK' /\ \A q \in PE \ {p} : OldOK(q)'
  BY <1>1, <1>4, <1>8, RunKept, OthersOld DEF RunningKept, LoadedKept
<1>15. \A f \in Event : CountOK(f)' /\ MapOK(f)'
  <2>1. call'[p].op # "REGISTER"
    BY <1>5, <1>8
  <2> QED
    BY <1>4, <1>8, <2>1, CountKept, MapsKept DEF maps
<1> QED
  BY <1>7, <1>8, <1>9, <1>10, <1>11, <1>12, <1>14, <1>15, OwnStep

(* A PE that completes an event handles it, and no other does.             *)
LEMMA CompletingFacts ==
  ASSUME SerialInv, NEW p \in PE, pc[p] = "complete"
  PROVE  /\ call[p].op = "COMPLETE" /\ call[p].event \in Event
         /\ Len(stack[p]) \in DOMAIN stack[p] /\ Top(p).event = call[p].event
         /\ Handling(call[p].event, p) /\ "running" \in old[p]
<1>0. Types /\ CallOK(p) /\ RunOK /\ StackOK(p) /\ OldOK(p)
  BY DEF SerialInv
<1>1. call[p].op = "COMPLETE" /\ call[p].event \in Event
  BY <1>0 DEF CallOK, Fits
<1>2. Len(stack[p]) \in DOMAIN stack[p] /\ Top(p).event = call[p].event
  BY <1>0 DEF StackOK, Types
<1>3. Handling(call[p].event, p)
  BY <1>2 DEF Handling, Top
<1>4. "running" \in old[p]
  BY <1>0 DEF OldOK
<1> QED
  BY <1>1, <1>2, <1>3, <1>4

(* The dispatch that was on top of the stack is gone.                      *)
LEMMA PopFacts ==
  ASSUME Types, NEW p \in PE, Len(stack[p]) \in DOMAIN stack[p],
         stack' = [stack EXCEPT ![p] = SubSeq(@, 1, Len(@) - 1)]
  PROVE  /\ stack' \in [PE -> Seq([event : Event, intr : Interrupt])]
         /\ \A n \in DOMAIN stack'[p] :
              n \in DOMAIN stack[p] /\ n # Len(stack[p]) /\ stack'[p][n] = stack[p][n]
         /\ \A n \in DOMAIN stack[p] : n # Len(stack[p]) => n \in DOMAIN stack'[p]
         /\ \A q \in PE \ {p} : stack'[q] = stack[q]
<1>1. PICK s \in Seq([event : Event, intr : Interrupt]) : s = stack[p]
  BY DEF Types
<1>2. Len(s) \in Nat /\ Len(s) \in 1 .. Len(s) /\ DOMAIN s = 1 .. Len(s)
  BY <1>1
<1>3. PICK t : t = SubSeq(s, 1, Len(s) - 1)
  OBVIOUS
<1>4. t \in Seq([event : Event, intr : Interrupt])
  <2> DEFINE D == [event : Event, intr : Interrupt]
  <2>1. \A n \in 1 .. Len(s) - 1 : s[n] \in D
    <3> HIDE DEF D
    <3>1. s \in Seq(D)
      BY DEF D
    <3> QED
      BY <1>2, <3>1, ElementOfSeq
  <2> HIDE DEF D
  <2>2. SubSeq(s, 1, Len(s) - 1) \in Seq(D)
    BY <1>2, <2>1, SubSeqProperties
  <2> QED
    BY <1>3, <2>2 DEF D
<1>5. DOMAIN t = 1 .. Len(s) - 1 /\ \A n \in 1 .. Len(s) - 1 : t[n] = s[n]
  BY <1>1, <1>2, <1>3
<1>6. stack'[p] = t /\ stack' \in [PE -> Seq([event : Event, intr : Interrupt])]
      /\ \A q \in PE \ {p} : stack'[q] = stack[q]
  BY <1>1, <1>3, <1>4 DEF Types
<1> QED
  BY <1>1, <1>2, <1>5, <1>6

LEMMA CompleteStateStep ==
  ASSUME SerialInv, NEW p \in PE, CompleteState(p), ~ Collides(p)
  PROVE  SerialInv'
<1>0. Types /\ CallOK(p) /\ RunOK /\ StackOK(p) /\ ActiveOK(p)
  BY DEF SerialInv
<1>1. pc[p] = "complete"
  BY DEF CompleteState
<1>2. PICK e \in Event : e = call[p].event
  BY <1>1, CompletingFacts
<1> DEFINE k == Entry(e, p)
           new == old[p] \ {"running"}
<1>3. /\ call[p].op = "COMPLETE" /\ Len(stack[p]) \in DOMAIN stack[p] /\ Top(p).event = e
      /\ Handling(e, p) /\ "running" \in old[p] /\ old[p] = se[k].state
  BY <1>1, <1>2, CompletingFacts DEF Collides
<1>4. /\ se' = [se EXCEPT ![k].state = new]
      /\ stack' = [stack EXCEPT ![p] = SubSeq(@, 1, Len(@) - 1)]
      /\ pc' = [pc EXCEPT ![p] = "lock"] /\ old' = [old EXCEPT ![p] = {}]
      /\ UNCHANGED <<clients, maps, masked, pendingEnables, ic, lock, call>>
  BY <1>2, <1>3 DEF CompleteState, Allowed, Transition, SetState
<1>5. k \in Entries /\ old[p] \in StateType
  BY <1>0, EntryFacts, OwnTypes
<1>6. new \in StateType /\ "running" \notin new /\ ("registered" \in new <=> "registered" \in old[p])
  BY <1>5 DEF StateType
<1> HIDE DEF k
<1>7. /\ se' \in [Entries -> EntryType] /\ se'[k].state = new
      /\ \A l \in Entries : l # k => se'[l].state = se[l].state
  <2> HIDE DEF new
  <2>1. se \in [Entries -> EntryType]
    BY <1>0 DEF Types
  <2> QED
    BY <1>4, <1>5, <1>6, <2>1 DEF EntryType
<1>8. /\ stack' \in [PE -> Seq([event : Event, intr : Interrupt])]
      /\ \A n \in DOMAIN stack'[p] :
           n \in DOMAIN stack[p] /\ n # Len(stack[p]) /\ stack'[p][n] = stack[p][n]
      /\ \A n \in DOMAIN stack[p] : n # Len(stack[p]) => n \in DOMAIN stack'[p]
      /\ \A q \in PE \ {p} : stack'[q] = stack[q]
  BY <1>0, <1>3, <1>4, PopFacts
<1>9. Types'
  BY <1>0, <1>4, <1>7, <1>8 DEF Types, maps, ic, PcType, StateType
<1>10. OthersAlike(p) /\ pc'[p] = "lock" /\ call' = call
  BY <1>0, <1>4, <1>8 DEF Types, OthersAlike
<1>11. CallOK(p)' /\ OldOK(p)'
  BY <1>0, <1>2, <1>3, <1>4, <1>8, <1>10 DEF CallOK, OldOK, StateCalls, Calls, About
<1>12. StackOK(p)'
  <2>1. call[p].arg = stack[p][Len(stack[p])].intr
    BY <1>0, <1>1 DEF StackOK, Top
  <2>2. \A n \in DOMAIN stack'[p] : stack'[p][n].intr # call[p].arg
    BY <1>0, <1>3, <1>8, <2>1 DEF StackOK
  <2>3. \A m, n \in DOMAIN stack'[p] :
          m # n => stack'[p][m].event # stack'[p][n].event /\ stack'[p][m].intr # stack'[p][n].intr
    BY <1>0, <1>8 DEF StackOK
  <2> QED
    BY <1>10, <2>2, <2>3 DEF StackOK
<1>13. ActiveOK(p)' /\ ActiveElsewhereKept(p)
  BY <1>0, <1>4, <1>8, <1>10 DEF ActiveOK, ActiveElsewhereKept, ic
<1>14. LockOK'
  BY <1>1, <1>4, <1>10, LocksKept
<1>15. RunOK'
  <2>1. \A f \in Event, q \in PE : Handling(f, q)' <=> Handling(f, q) /\ ~ (f = e /\ q = p)
    <3> TAKE f \in Event, q \in PE
    <3>1. CASE q = p
      <4>1. Handling(f, p)' <=> \E n \in DOMAIN stack'[p] : stack'[p][n].event = f
        BY <1>10 DEF Handling
      <4>2. Handling(f, p) <=> \E n \in DOMAIN stack[p] : stack[p][n].event = f
        BY <1>1 DEF Handling
      <4>3. \A n \in DOMAIN stack[p] : n # Len(stack[p]) <=> stack[p][n].event # e
        BY <1>0, <1>3 DEF StackOK, Top
      <4> QED
        BY <1>8, <3>1, <4>1, <4>2, <4>3
    <3>2. CASE q # p
      BY <1>10, <3>2 DEF Handling, OthersAlike
    <3> QED
      BY <3>1, <3>2
  <2>2. ASSUME NEW f \in Event, NEW q \in PE
        PROVE  "running" \in se'[Entry(f, q)].state <=>
                 \E r \in PE : Handling(f, r)' /\ (f \in Shared \/ r = q)
    <3>1. Entry(f, q) \in Entries /\ (Entry(f, q) = k <=> f = e /\ (e \in Shared \/ q = p))
      <4>1. Entry(f, q) = Entry(e, p) <=> f = e /\ (f \in Shared \/ q = p)
        BY ConstantFacts DEF Entry
      <4>2. Entry(f, q) \in Entries
        BY EntryFacts
      <4> QED
        BY <4>1, <4>2 DEF k
    <3>2. CASE Entry(f, q) = k
      <4>1. "running" \notin se'[Entry(f, q)].state
        BY <1>6, <1>7, <3>2
      <4>2. \A r \in PE : Handling(f, r) /\ (f \in Shared \/ r = q) => r = p
        BY <1>0, <1>3, <3>1, <3>2 DEF RunOK
      <4> QED
        BY <2>1, <3>1, <3>2, <4>1, <4>2
    <3>3. CASE Entry(f, q) # k
      <4>1. se'[Entry(f, q)].state = se[Entry(f, q)].state
        BY <1>7, <3>1, <3>3
      <4>2. \A r \in PE : f \in Shared \/ r = q => (Handling(f, r)' <=> Handling(f, r))
        BY <2>1, <3>1, <3>3
      <4> QED
        BY <1>0, <4>1, <4>2 DEF RunOK
    <3> QED
      BY <3>2, <3>3
  <2>3. ASSUME NEW f \in Shared, NEW q \in PE, NEW r \in PE, Handling(f, q)', Handling(f, r)'
        PROVE  q = r
    <3>1. f \in Event
      BY ConstantFacts
    <3> QED
      BY <1>0, <2>1, <2>3, <3>1 DEF RunOK
  <2> QED
    BY <2>2, <2>3 DEF RunOK
<1>16. ASSUME NEW q \in PE \ {p} PROVE OldOK(q)'
  <2>0. OldOK(q) /\ CallOK(q)
    BY DEF SerialInv
  <2>1. CASE pc[q] = "locked"
    <3>1. PICK f \in Event : f = call[q].event
      BY <2>0, <2>1 DEF CallOK
    <3>2. CASE Entry(f, q) = k
      <4>1. f = e /\ e \in Shared
        BY <3>2, EntryFacts DEF k
      <4>2. call[q].op \notin StateCalls
        BY <1>2, <2>1, <3>1, <4>1 DEF Collides
      <4>3. se[k].state \subseteq old[q] /\ old[q] \subseteq se[k].state \cup {"running"}
        BY <2>0, <2>1, <3>1, <3>2 DEF OldOK
      <4>4. se'[k].state \subseteq old[q] /\ old[q] \subseteq se'[k].state \cup {"running"}
        BY <1>3, <1>7, <4>3
      <4> QED
        BY <1>4, <1>10, <2>1, <3>1, <3>2, <4>2, <4>4 DEF OldOK, OthersAlike
    <3>3. CASE Entry(f, q) # k
      <4>1. se'[Entry(f, q)].state = se[Entry(f, q)].state
        BY <1>7, <3>3, EntryFacts
      <4> QED
        BY <1>10, <2>0, <2>1, <3>1, <4>1 DEF OldOK, OthersAlike
    <3> QED
      BY <3>2, <3>3
  <2>2. CASE pc[q] # "locked"
    BY <1>10, <2>0, <2>2 DEF OldOK, OthersAlike
  <2> QED
    BY <2>1, <2>2
<1>17. \A f \in Event : CountOK(f)' /\ MapOK(f)'
  <2>1. ASSUME NEW f \in Event
        PROVE  \A q \in PE : "registered" \in se'[Entry(f, q)].state <=> "registered" \in se[Entry(f, q)].state
    <3>1. ASSUME NEW l \in Entries
          PROVE  "registered" \in se'[l].state <=> "registered" \in se[l].state
      BY <1>3, <1>6, <1>7
    <3> QED
      BY <3>1, EntryFacts
  <2>2. call'[p].op # "REGISTER"
    BY <1>3, <1>10
  <2> QED
    BY <1>4, <1>10, <2>1, <2>2, CountKept, MapsKept DEF maps
<1> QED
  BY <1>9, <1>10, <1>11, <1>12, <1>13, <1>14, <1>15, <1>16, <1>17, OwnStep

(* sdei_cpu_on_init.                                                       *)
LEMMA CpuOnStep ==
  ASSUME SerialInv, NEW p \in PE, CpuOn(p)
  PROVE  SerialInv'
<1>0. Types /\ CallOK(p) /\ RunOK /\ StackOK(p) /\ ActiveOK(p) /\ OldOK(p)
  BY DEF SerialInv
<1>1. /\ pc[p] = "ns" /\ "CPU_ON" \in Calls /\ stack[p] = << >>
      /\ se' = [k \in Entries |-> IF k[2] = p THEN Unregistered ELSE se[k]]
      /\ masked' = [masked EXCEPT ![p] = TRUE]
      /\ gic' = [k \in Lines |-> IF k[2] = p /\ k[1] # 0 THEN Unused ELSE gic[k]]
      /\ UNCHANGED <<clients, maps, lock, pendingEnables, stack, route, pc, call, old>>
  BY DEF CpuOn
<1>2. /\ Unregistered \in EntryType /\ Unregistered.state = {}
      /\ Unused \in LineType /\ Unused.active = 0
  BY DEF Unregistered, Unused, EntryType, LineType, StateType
<1>3. /\ se' \in [Entries -> EntryType] /\ gic' \in [Lines -> LineType]
      /\ \A k \in Entries : se'[k].state = IF k[2] = p THEN {} ELSE se[k].state
      /\ \A k \in Lines : gic'[k].active = IF k[2] = p /\ k[1] # 0 THEN 0 ELSE gic[k].active
  BY <1>0, <1>1, <1>2 DEF Types
<1>4. Types'
  BY <1>0, <1>1, <1>3 DEF Types, maps
<1>5. OthersAlike(p)
  BY <1>1 DEF OthersAlike
<1>6. CallOK(p)' /\ OldOK(p)' /\ StackOK(p)'
  BY <1>0, <1>1 DEF CallOK, OldOK, StackOK, Calls, About, Top
<1>7. \A i \in Interrupt : gic'[Line(i, p)].active = p => gic[Line(i, p)].active = p
  BY <1>3, LineFacts, ConstantFacts
<1>8. ActiveOK(p)'
  <2>1. call[p].op \notin {"INTR", "COMPLETE"} /\ DOMAIN stack[p] = {}
    BY <1>0, <1>1 DEF CallOK, Idle, Doing
  <2> QED
    BY <1>0, <1>1, <1>7, <2>1 DEF ActiveOK
<1>9. ActiveElsewhereKept(p)
  <2> SUFFICES ASSUME NEW i \in Interrupt, NEW q \in PE \ {p}
               PROVE  gic'[Line(i, q)].active = gic[Line(i, q)].active
    BY DEF ActiveElsewhereKept
  <2>1. Line(i, q) \in Lines /\ Line(i, q)[2] # p
    BY LineFacts, ConstantFacts
  <2> QED
    BY <1>3, <2>1
<1>10. ASSUME NEW f \in Event, NEW q \in PE
       PROVE  se'[Entry(f, q)].state = IF f \notin Shared /\ q = p THEN {} ELSE se[Entry(f, q)].state
  BY <1>3, EntryFacts, ConstantFacts
<1>11. RunOK'
  <2>1. \A f \in Event, q \in PE : Handling(f, q)' <=> Handling(f, q)
    BY <1>1 DEF Handling
  <2>2. \A f \in Event : ~ Handling(f, p)
    BY <1>1 DEF Handling
  <2>3. ASSUME NEW f \in Event, NEW q \in PE
        PROVE  "running" \in se'[Entry(f, q)].state <=>
                 \E r \in PE : Handling(f, r)' /\ (f \in Shared \/ r = q)
    <3>1. CASE f \notin Shared /\ q = p
      BY <1>10, <2>1, <2>2, <3>1
    <3>2. CASE ~ (f \notin Shared /\ q = p)
      <4>1. se'[Entry(f, q)].state = se[Entry(f, q)].state
        BY <1>10, <3>2
      <4> QED
        BY <1>0, <2>1, <4>1 DEF RunOK
    <3> QED
      BY <3>1, <3>2
  <2> QED
    BY <1>0, <2>1, <2>3, ConstantFacts DEF RunOK
<1>12. \A q \in PE \ {p} : OldOK(q)'
  <2>1. LoadedKept(p)
    BY <1>10 DEF LoadedKept
  <2> QED
    BY <1>5, <2>1, OthersOld
<1>13. LockOK'
  BY <1>1, <1>5, LocksKept
<1>14. ASSUME NEW f \in Event PROVE CountOK(f)'
  <2>1. CountOK(f) /\ regCount[f] \in Nat
    BY <1>0 DEF SerialInv, Types
  <2>2. RegisteredEntries(f)' \subseteq RegisteredEntries(f)
    <3>1. \A k \in Entries : "registered" \in se'[k].state => "registered" \in se[k].state
      BY <1>3
    <3> QED
      BY <3>1 DEF RegisteredEntries
  <2>3. /\ Cardinality(RegisteredEntries(f)') <= Cardinality(RegisteredEntries(f))
        /\ Cardinality(RegisteredEntries(f)') \in Nat /\ Cardinality(RegisteredEntries(f)) \in Nat
    BY <2>2, RegisteredFinite, FS_Subset, FS_CardinalityType
  <2>4. Cardinality(RegisteredEntries(f)') <= regCount[f]
    BY <2>1, <2>3 DEF CountOK
  <2>5. ASSUME f \in Shared PROVE RegisteredEntries(f)' = RegisteredEntries(f)
    <3>1. \A k \in Entries : k[1] = f => se'[k].state = se[k].state
      BY <1>3, <2>5, ConstantFacts DEF Entries, Entry
    <3> QED
      BY <3>1 DEF RegisteredEntries
  <2> QED
    BY <1>1, <2>1, <2>4, <2>5 DEF CountOK, Calls, maps
<1>15. \A f \in Event : MapOK(f)'
  BY <1>1, MapsKept DEF maps
<1> QED
  BY <1>4, <1>5, <1>6, <1>8, <1>9, <1>11, <1>12, <1>13, <1>14, <1>15, OwnStep

-----------------------------------------------------------------------------

LEMMA InitSerial == Init => SerialInv
<1> SUFFICES ASSUME Init PROVE SerialInv
  OBVIOUS
<1>1. /\ Unregistered \in EntryType /\ Unregistered.state = {}
      /\ Unused \in LineType /\ Unused.active = 0
  BY DEF Unregistered, Unused, EntryType, LineType, StateType
<1>2. [Unused EXCEPT !.owner = "EL3", !.enabled = TRUE] \in LineType
      /\ [Unused EXCEPT !.owner = "EL3", !.enabled = TRUE].active = 0
  BY <1>1 DEF LineType
<1>3. /\ gic \in [Lines -> LineType] /\ \A k \in Lines : gic[k].active = 0
      /\ se \in [Entries -> EntryType] /\ \A k \in Entries : se[k].state = {}
  BY <1>1, <1>2 DEF Init
<1>4. Types
  <2>1. call \in [PE -> CallType]
    BY IdleType DEF Init
  <2>2. /\ intr \in [Event -> Interrupt \cup {DynIrq}] /\ bound \in [Event -> BOOLEAN]
        /\ regCount \in [Event -> Nat] /\ lock \in [Event -> PE \cup {0}]
    BY ConstantFacts DEF Init
  <2>3. stack \in [PE -> Seq([event : Event, intr : Interrupt])]
    BY DEF Init
  <2>4. /\ masked \in [PE -> BOOLEAN] /\ pendingEnables \in [PE -> BOOLEAN]
        /\ route \in [Interrupt -> PE \cup {0}]
        /\ pc \in [PE -> PcType] /\ old \in [PE -> StateType] /\ clients \in Clients
    BY DEF Init, PcType, StateType
  <2> QED
    BY <1>3, <2>1, <2>2, <2>3, <2>4 DEF Types
<1>5. /\ \A p \in PE : pc[p] = "ns" /\ call[p] = Idle /\ stack[p] = << >>
      /\ Idle.op = "none" /\ \A e \in Event : lock[e] = 0
  BY DEF Init, Idle, Doing
<1>6. LockOK
  BY <1>5, ConstantFacts DEF LockOK, Holds
<1>7. RunOK
  <2>1. \A e \in Event, p \in PE : ~ Handling(e, p)
    BY <1>5 DEF Handling
  <2>2. \A e \in Event, p \in PE : "running" \notin se[Entry(e, p)].state
    BY <1>3, EntryFacts
  <2> QED
    BY <2>1, <2>2, ConstantFacts DEF RunOK
<1>8. ASSUME NEW p \in PE PROVE CallOK(p) /\ OldOK(p) /\ StackOK(p) /\ ActiveOK(p)
  <2>1. \A i \in Interrupt : gic[Line(i, p)].active # p
    BY <1>3, LineFacts, ConstantFacts
  <2> QED
    BY <1>5, <2>1 DEF CallOK, OldOK, StackOK, ActiveOK, StateCalls
<1>9. ASSUME NEW e \in Event PROVE CountOK(e) /\ MapOK(e)
  <2>1. RegisteredEntries(e) = {}
    BY <1>3 DEF RegisteredEntries
  <2>2. Cardinality(RegisteredEntries(e)) = 0
    BY <2>1, FS_EmptySet
  <2>3. Registering(e) \subseteq PE
    BY DEF Registering
  <2>4. Cardinality(Registering(e)) \in Nat /\ Cardinality(Registering(e)) <= N
    BY <2>3, PEFinite
  <2>5. regCount[e] = 0
    BY DEF Init
  <2>6. CountOK(e)
    BY <2>2, <2>4, <2>5, ConstantFacts DEF CountOK, Registering
  <2>7. MapOK(e)
    BY ConstantFacts DEF MapOK, Init
  <2> QED
    BY <2>6, <2>7
<1> QED
  BY <1>4, <1>6, <1>7, <1>8, <1>9 DEF SerialInv

LEMMA StutterSerial ==
  ASSUME SerialInv, UNCHANGED vars
  PROVE  SerialInv'
<1>1. UNCHANGED <<clients, se, intr, bound, regCount, lock, masked, pendingEnables, stack, gic, route, pc, call, old>>
  BY DEF vars, maps, cpu, ic
<1>2. Types' /\ LockOK' /\ RunOK'
  <2>1. Types /\ LockOK /\ RunOK
    BY DEF SerialInv
  <2>2. Types'
    BY <1>1, <2>1 DEF Types
  <2>3. LockOK'
    BY <1>1, <2>1 DEF LockOK, Holds
  <2>4. RunOK'
    BY <1>1, <2>1 DEF RunOK, Handling
  <2> QED
    BY <2>2, <2>3, <2>4
<1>3. ASSUME NEW p \in PE PROVE CallOK(p)' /\ OldOK(p)' /\ StackOK(p)' /\ ActiveOK(p)'
  <2>1. CallOK(p) /\ OldOK(p) /\ StackOK(p) /\ ActiveOK(p)
    BY DEF SerialInv
  <2> QED
    BY <1>1, <2>1 DEF CallOK, OldOK, StackOK, ActiveOK, Calls, About, Top
<1>4. ASSUME NEW e \in Event PROVE CountOK(e)' /\ MapOK(e)'
  <2>1. CountOK(e) /\ MapOK(e)
    BY DEF SerialInv
  <2> QED
    BY <1>1, <2>1 DEF CountOK, RegisteredEntries, MapOK, Calls, About
<1> QED
  BY <1>2, <1>3, <1>4 DEF SerialInv

LEMMA DispatcherSerial ==
  ASSUME SerialInv, NEW p \in PE, Step(p), "complete" \notin raced'
  PROVE  SerialInv'
<1>1. CASE Switch(p, "ENABLE", TRUE) \/ Switch(p, "DISABLE", FALSE)
  BY <1>1, SwitchStep
<1>2. CASE CompleteState(p)
  <2>1. ~ Collides(p)
    BY <1>2 DEF CompleteState
  <2> QED
    BY <1>2, <2>1, CompleteStateStep
<1> QED
  BY <1>1, <1>2, DenyStep, RegisterStep, UnregisterStep, RoutingSetStep, ReleaseStep,
     BindSearchStep, BindFreeStep, BindOwnerStep, AssertFailsStep, BindTakeStep, BindRetryStep, UnmaskNextStep, UnmaskSharedStep, UnmaskedStep,
     MaskedTriggerStep, NotDispatchedStep, DispatchStep, PushStep, CompletedStep, Zenon
     DEF Step

LEMMA NextSerial ==
  ASSUME SerialInv, [Next]_vars, "complete" \notin raced'
  PROVE  SerialInv'
<1>1. CASE UNCHANGED vars
  BY <1>1, StutterSerial
<1>2. ASSUME NEW p \in clients.pes,
             \/ Call(p) \/ \E i \in (Ppi \cup Spi) \cap About : Bind(p, i)
             \/ \E t \in PE : Signal(p, t)
             \/ Mask(p) \/ Unmask(p) \/ CpuOn(p)
      PROVE  SerialInv'
  <2>1. p \in PE
    BY ClientAssumption DEF SerialInv, Types
  <2>2. ASSUME NEW t \in PE, Signal(p, t) PROVE SerialInv'
    <3>1. Line(0, t) \in Lines
      BY <2>2, LineFacts, ConstantFacts DEF Signal
    <3> QED
      BY <2>2, <3>1, PendingStep DEF Signal
  <2> QED
    BY <1>2, <2>1, <2>2, BeginStep, BindBeginStep, MaskStep, UnmaskStep, CpuOnStep
<1>3. ASSUME NEW p \in PE,
             \/ Complete(p)
             \/ \E i \in Interrupt : Acknowledge(p, i)
             \/ Lock(p) \/ Step(p) \/ Panicked(p)
      PROVE  SerialInv'
  BY <1>3, CompleteStep, AcknowledgeStep, LockStep, DispatcherSerial, StutterSerial DEF Panicked
<1>4. ASSUME NEW k \in Lines, Trigger(k) PROVE SerialInv'
  BY <1>4, PendingStep DEF Trigger
<1> QED
  BY <1>1, <1>2, <1>3, <1>4 DEF Next

(* What has gone wrong is not forgotten.                                   *)
LEMMA RacedGrows ==
  ASSUME [Next]_vars
  PROVE  raced \subseteq raced' /\ (raced' \subseteq raced \cup {"complete", "bind", "release"})
<1>1. ASSUME NEW p \in PE, Step(p)
      PROVE  raced \subseteq raced' /\ (raced' \subseteq raced \cup {"complete", "bind", "release"})
  <2>1. CASE Release(p) \/ BindTake(p) \/ CompleteState(p)
    BY <2>1 DEF Release, BindTake, CompleteState
  <2>2. CASE ~ (Release(p) \/ BindTake(p) \/ CompleteState(p))
    BY <1>1, <2>2 DEF Step, Deny, Denied, Register, Unregister, RoutingSet, Switch, BindSearch,
       BindFree, BindOwner, BindRetry, UnmaskNext, UnmaskShared, Unmasked, MaskedTrigger,
       NotDispatched, Dispatch, Push, Completed, AssertFails
  <2> QED
    BY <2>1, <2>2
<1>2. ASSUME NEW p \in clients.pes,
             \/ Call(p) \/ \E i \in (Ppi \cup Spi) \cap About : Bind(p, i)
             \/ \E t \in PE : Signal(p, t)
             \/ Mask(p) \/ Unmask(p) \/ CpuOn(p)
      PROVE  raced' = raced
  BY <1>2 DEF Call, Begin, Bind, Signal, Mask, Unmask, CpuOn
<1>3. ASSUME NEW p \in PE,
             \/ Complete(p)
             \/ \E i \in Interrupt : Acknowledge(p, i)
             \/ Lock(p) \/ Panicked(p)
      PROVE  raced' = raced
  BY <1>3 DEF Complete, Acknowledge, Lock, Panicked, vars
<1>4. ASSUME NEW k \in Lines, Trigger(k) PROVE raced' = raced
  BY <1>4 DEF Trigger
<1>5. CASE UNCHANGED vars
  BY <1>5 DEF vars
<1> QED
  BY <1>1, <1>2, <1>3, <1>4, <1>5 DEF Next

(* Locks, the state that was loaded, dispatches and counts agree as long   *)
(* as no completion has collided with a call (get_event_entry,             *)
(* sdei_map_lock and sdei_event_complete).                                 *)
THEOREM SerialInvariant == Spec => []("complete" \notin raced => SerialInv)
<1>1. Init => ("complete" \notin raced => SerialInv)
  BY InitSerial
<1>2. ("complete" \notin raced => SerialInv) /\ [Next]_vars => ("complete" \notin raced => SerialInv)'
  BY NextSerial, RacedGrows
<1> QED
  BY <1>1, <1>2, PTL DEF Spec

(* Of three dispatches two would be of the same priority.                  *)
LEMMA StackBound ==
  ASSUME SerialInv, NEW p \in PE
  PROVE  Len(stack[p]) <= 2
<1>0. Types /\ CallOK(p) /\ StackOK(p) /\ ActiveOK(p)
  BY DEF SerialInv
<1>1. Len(stack[p]) \in Nat /\ DOMAIN stack[p] = 1 .. Len(stack[p])
  BY <1>0 DEF Types
<1> SUFFICES ASSUME Len(stack[p]) >= 3 PROVE FALSE
  BY <1>1
<1>2. 1 \in DOMAIN stack[p] /\ 2 \in DOMAIN stack[p] /\ 3 \in DOMAIN stack[p]
  BY <1>1
<1>3. PICK a, b, c \in Interrupt :
        a = stack[p][1].intr /\ b = stack[p][2].intr /\ c = stack[p][3].intr
  BY <1>0, <1>2 DEF CallOK, Fits
<1>4. a # b /\ b # c /\ a # c
  BY <1>0, <1>2, <1>3 DEF StackOK
<1>5. /\ gic[Line(a, p)].active = p /\ gic[Line(b, p)].active = p
      /\ gic[Line(c, p)].active = p
  BY <1>0, <1>2, <1>3 DEF ActiveOK
<1> QED
  BY <1>0, <1>4, <1>5 DEF ActiveOK

LEMMA RacedType == Spec => [](raced \subseteq {"complete", "bind", "release"})
<1>1. Init => raced \subseteq {"complete", "bind", "release"}
  BY DEF Init
<1>2. raced \subseteq {"complete", "bind", "release"} /\ [Next]_vars =>
        (raced \subseteq {"complete", "bind", "release"})'
  BY RacedGrows
<1> QED
  BY <1>1, <1>2, PTL DEF Spec

LEMMA SerialTypeOK ==
  ASSUME SerialInv, raced \subseteq {"complete", "bind", "release"}
  PROVE  TypeOK
<1>0. Types
  BY DEF SerialInv
<1>1. regCount \in [Event -> 0 .. MaxReg + N]
  <2>1. ASSUME NEW e \in Event PROVE regCount[e] \in 0 .. MaxReg + N
    <3>1. regCount[e] \in Nat /\ regCount[e] + Cardinality(Registering(e)) <= MaxReg + N
      BY DEF SerialInv, Types, CountOK, Registering
    <3>2. Registering(e) \subseteq PE
      BY DEF Registering
    <3>3. Cardinality(Registering(e)) \in Nat
      BY <3>2, PEFinite
    <3> QED
      BY <3>1, <3>3, ConstantFacts
  <2> QED
    BY <1>0, <2>1 DEF Types
<1>2. \A p \in PE : Len(stack[p]) <= 2
  BY StackBound
<1>3. \A p \in PE : call[p].event \in Event \cup {0} /\ call[p].todo \subseteq Shared
  BY <1>0, OwnTypes
<1>4. /\ se \in [Entries -> [state : SUBSET {"registered", "enabled", "running"},
                             flags : {"PE", "ANY"}, aff : PE \cup {0}]]
      /\ gic \in [Lines -> [owner : {"NS", "EL3"}, enabled : BOOLEAN, pending : BOOLEAN,
                            active : PE \cup {0}]]
  BY <1>0 DEF Types, EntryType, StateType, LineType
<1> QED
  BY <1>0, <1>1, <1>2, <1>3, <1>4 DEF TypeOK, Types, PcType, StateType

LEMMA SerialRunning ==
  ASSUME SerialInv, raced \subseteq {"complete", "bind", "release"}
  PROVE  TypeOK /\ RunningAgrees
<1>0. TypeOK /\ RunOK
  BY SerialTypeOK DEF SerialInv
<1>1. ASSUME NEW e \in Event, NEW p \in PE
      PROVE  LET here == {q \in PE : Handling(e, q) /\ (e \in Shared \/ q = p)}
             IN  /\ "running" \in se[Entry(e, p)].state <=> here # {}
                 /\ Cardinality(here) <= 1
  <2> DEFINE here == {q \in PE : Handling(e, q) /\ (e \in Shared \/ q = p)}
  <2>1. "running" \in se[Entry(e, p)].state <=> here # {}
    BY <1>0 DEF RunOK
  <2>2. \A q, r \in here : q = r
    BY <1>0 DEF RunOK
  <2>3. here = {} \/ \E q \in PE : here = {q}
    BY <2>2
  <2> HIDE DEF here
  <2>4. Cardinality(here) <= 1
    BY <2>3, FS_EmptySet, FS_Singleton
  <2> QED
    BY <2>1, <2>4 DEF here
<1> QED
  BY <1>0, <1>1 DEF RunningAgrees

(* An event is running exactly while a PE handles it, and only one does,   *)
(* as long as no completion has collided with a call of another PE about   *)
(* the event (sdei_intr_handler, sdei_event_complete).                     *)
THEOREM RunningIsAlwaysDispatched == Spec => []RunningIsDispatched
<1>1. /\ "complete" \notin raced => SerialInv
      /\ raced \subseteq {"complete", "bind", "release"}
      => RunningIsDispatched
  BY SerialRunning DEF RunningIsDispatched
<1> QED
  BY <1>1, SerialInvariant, RacedType, PTL

-----------------------------------------------------------------------------
(* CarefulInv relates the maps, the entries of events, the interrupt       *)
(* controller and what each PE handles.                                    *)

LEMMA CarefulParts ==
  ASSUME CarefulInv
  PROVE  /\ SerialInv /\ Types /\ OneEventPerInterrupt /\ OwnerOK /\ RouteOK /\ EnableOK
         /\ \A p \in PE : CallOK(p) /\ HandledOK(p) /\ pc[p] # "panic"
BY DEF CarefulInv, SerialInv

(* The interrupts of different events that are bound are different lines.  *)
LEMMA LinesDiffer ==
  ASSUME CarefulInv, NEW e \in Event, NEW f \in Event, bound[e], bound[f],
         NEW p \in PE, NEW q \in PE
  PROVE  /\ Line(intr[e], p) \in Lines
         /\ Line(intr[e], p) = Line(intr[f], q) <=> e = f /\ (e \in Shared \/ p = q)
         /\ Line(intr[e], p) = Line(intr[f], q) <=> Entry(e, p) = Entry(f, q)
<1>1. /\ intr[e] \in Interrupt /\ intr[f] \in Interrupt
      /\ IsSpi(intr[e]) <=> e \in Shared
  BY CarefulParts, BoundInterrupt DEF Fits
<1>2. e # f => intr[e] # intr[f]
  BY CarefulParts DEF OneEventPerInterrupt
<1>3. Line(intr[e], p) = Line(intr[f], q) <=> intr[e] = intr[f] /\ (IsSpi(intr[e]) \/ p = q)
  BY <1>1, ConstantFacts DEF Line
<1>4. Entry(e, p) = Entry(f, q) <=> e = f /\ (e \in Shared \/ p = q)
  BY ConstantFacts DEF Entry
<1> QED
  BY <1>1, <1>2, <1>3, <1>4, LineFacts

(* A handler is registered only for an event that is bound.                *)
LEMMA RegisteredIsBound ==
  ASSUME CarefulInv, NEW e \in Event \ {0}, NEW p \in PE,
         "registered" \in se[Entry(e, p)].state \/ "enabled" \in se[Entry(e, p)].state
  PROVE  bound[e]
BY CarefulParts DEF OwnerOK, EnableOK, EnabledOK

(* An affinity is a PE.                                                    *)
LEMMA AffinityIsPE ==
  ASSUME CarefulInv, NEW e \in Shared, NEW p \in PE, "ROUTING" \notin Calls,
         "registered" \in se[Entry(e, p)].state, se[Entry(e, p)].flags = "PE"
  PROVE  se[Entry(e, p)].aff \in PE /\ se[Entry(e, p)].aff = route[intr[e]]
<1>1. e \in Event /\ e # 0
  BY ConstantFacts
<1>2. bound[e]
  BY <1>1, RegisteredIsBound
<1>3. route[intr[e]] # 0 /\ se[Entry(e, p)].aff = route[intr[e]]
  BY <1>2, CarefulParts DEF RouteOK
<1>4. se[Entry(e, p)] \in EntryType
  BY <1>1, CarefulParts, OwnTypes
<1> QED
  BY <1>3, <1>4 DEF EntryType

-----------------------------------------------------------------------------
(* What a step keeps of it.                                                *)

RegistrationsKept ==
  \A k \in Entries :
    /\ "registered" \in se'[k].state <=> "registered" \in se[k].state
    /\ se'[k].flags = se[k].flags /\ se'[k].aff = se[k].aff

EntriesKept ==
  \A k \in Entries :
    /\ "registered" \in se'[k].state <=> "registered" \in se[k].state
    /\ "enabled" \in se'[k].state <=> "enabled" \in se[k].state
    /\ se'[k].flags = se[k].flags /\ se'[k].aff = se[k].aff

LEMMA OthersCareful ==
  ASSUME CarefulInv, NEW p \in PE, OthersAlike(p), ActiveElsewhereKept(p), UNCHANGED <<maps, route>>,
         \A e \in Shared, q \in PE :
           "registered" \in se'[Entry(e, q)].state <=> "registered" \in se[Entry(e, q)].state
  PROVE  \A q \in PE \ {p} : HandledOK(q)' /\ pc'[q] # "panic"
<1> SUFFICES ASSUME NEW q \in PE \ {p} PROVE HandledOK(q)' /\ pc'[q] # "panic"
  OBVIOUS
<1>0. HandledOK(q) /\ pc[q] # "panic" /\ CallOK(q)
  BY CarefulParts
<1>2. HandledOK(q)'
  BY <1>0 DEF HandledOK, OthersAlike, ActiveElsewhereKept, maps, Calls
<1> QED
  BY <1>0, <1>2 DEF OthersAlike

LEMMA AgreementKept ==
  ASSUME CarefulInv, UNCHANGED <<clients, maps, route>>, RegistrationsKept,
         \A k \in Lines : gic'[k].owner = gic[k].owner
  PROVE  OneEventPerInterrupt' /\ OwnerOK' /\ RouteOK'
<1>0. OneEventPerInterrupt /\ OwnerOK /\ RouteOK
  BY CarefulParts
<1>1. OneEventPerInterrupt'
  BY <1>0 DEF OneEventPerInterrupt, maps
<1>2. OwnerOK'
  <2>1. ASSUME NEW e \in Event \ {0}, NEW p \in PE
        PROVE  IF bound'[e]
               THEN "registered" \in se'[Entry(e, p)].state <=> gic'[Line(intr'[e], p)].owner = "EL3"
               ELSE "registered" \notin se'[Entry(e, p)].state
    <3>1. Entry(e, p) \in Entries
      BY EntryFacts
    <3>2. "registered" \in se'[Entry(e, p)].state <=> "registered" \in se[Entry(e, p)].state
      BY <3>1 DEF RegistrationsKept
    <3>3. CASE bound[e]
      <4>1. gic'[Line(intr[e], p)].owner = gic[Line(intr[e], p)].owner
        BY <3>3, CarefulParts, BoundInterrupt, LineFacts
      <4> QED
        BY <1>0, <3>2, <3>3, <4>1 DEF OwnerOK, maps
    <3>4. CASE ~ bound[e]
      BY <1>0, <3>2, <3>4 DEF OwnerOK, maps
    <3> QED
      BY <3>3, <3>4
  <2>2. ASSUME NEW i \in Ppi \cup Spi, \A e \in Event : bound'[e] => intr'[e] # i, NEW p \in PE
        PROVE  gic'[Line(i, p)].owner = "NS"
    <3>1. gic'[Line(i, p)].owner = gic[Line(i, p)].owner
      BY LineFacts, ConstantFacts
    <3> QED
      BY <1>0, <2>2, <3>1 DEF OwnerOK, maps
  <2> QED
    BY <2>1, <2>2 DEF OwnerOK
<1>3. RouteOK'
  <2>1. ASSUME NEW e \in Shared, NEW p \in PE
        PROVE  /\ "registered" \in se'[Entry(e, p)].state <=> "registered" \in se[Entry(e, p)].state
               /\ se'[Entry(e, p)].flags = se[Entry(e, p)].flags
               /\ se'[Entry(e, p)].aff = se[Entry(e, p)].aff
    BY EntryFacts, ConstantFacts DEF RegistrationsKept
  <2> QED
    BY <1>0, <2>1 DEF RouteOK, maps, Calls
<1> QED
  BY <1>1, <1>2, <1>3

LEMMA EnabledKept ==
  ASSUME CarefulInv, UNCHANGED <<clients, intr, bound>>, NEW e \in Event, NEW p \in PE,
         "enabled" \in se'[Entry(e, p)].state <=> "enabled" \in se[Entry(e, p)].state,
         "registered" \in se'[Entry(e, p)].state <=> "registered" \in se[Entry(e, p)].state,
         se'[Entry(e, p)].flags = se[Entry(e, p)].flags, se'[Entry(e, p)].aff = se[Entry(e, p)].aff,
         bound[e] => (gic[Line(intr[e], p)].enabled => gic'[Line(intr[e], p)].enabled),
         \A t \in PE, f \in Event : WillEnable(t, f) => WillEnable(t, f)'
  PROVE  EnabledOK(e, p)'
<1>0. EnabledOK(e, p)
  BY CarefulParts DEF EnableOK
<1>1. PICK a : a = se[Entry(e, p)].aff
  OBVIOUS
<1>2. /\ "enabled" \in se'[Entry(e, p)].state <=> "enabled" \in se[Entry(e, p)].state
      /\ "registered" \in se'[Entry(e, p)].state <=> "registered" \in se[Entry(e, p)].state
      /\ se'[Entry(e, p)].flags = se[Entry(e, p)].flags /\ se'[Entry(e, p)].aff = a
  BY <1>1
<1>3. CASE "enabled" \notin se[Entry(e, p)].state
  BY <1>2, <1>3 DEF EnabledOK
<1>4. CASE "enabled" \in se[Entry(e, p)].state
  <2>1. "registered" \in se[Entry(e, p)].state
    BY <1>0, <1>4 DEF EnabledOK
  <2>2. CASE e = 0 \/ "ROUTING" \in Calls
    BY <1>2, <2>1, <2>2 DEF EnabledOK, Calls
  <2>3. CASE e # 0 /\ "ROUTING" \notin Calls
    <3>1. \/ gic[Line(intr[e], p)].enabled
          \/ e \in Private /\ WillEnable(p, e)
          \/ e \in Shared /\ se[Entry(e, p)].flags = "PE" /\ WillEnable(a, e)
      BY <1>0, <1>1, <1>4, <2>3 DEF EnabledOK
    <3>2. gic[Line(intr[e], p)].enabled => gic'[Line(intr[e], p)].enabled
      BY <1>4, <2>3, RegisteredIsBound
    <3>3. e \in Shared /\ se[Entry(e, p)].flags = "PE" => a \in PE
      BY <1>1, <2>1, <2>3, AffinityIsPE
    <3>4. \/ gic'[Line(intr[e], p)].enabled
          \/ e \in Private /\ WillEnable(p, e)'
          \/ e \in Shared /\ se[Entry(e, p)].flags = "PE" /\ WillEnable(a, e)'
      BY <3>1, <3>2, <3>3
    <3> QED
      BY <1>2, <2>1, <3>4 DEF EnabledOK, WillEnable
  <2> QED
    BY <2>2, <2>3
<1> QED
  BY <1>3, <1>4

LEMMA EnableKept ==
  ASSUME CarefulInv, UNCHANGED <<clients, maps>>, EntriesKept,
         \A k \in Lines : gic[k].enabled => gic'[k].enabled,
         \A t \in PE, e \in Event : WillEnable(t, e) => WillEnable(t, e)'
  PROVE  EnableOK'
<1> SUFFICES ASSUME NEW e \in Event, NEW p \in PE PROVE EnabledOK(e, p)'
  BY DEF EnableOK
<1>1. Entry(e, p) \in Entries /\ (bound[e] => Line(intr[e], p) \in Lines)
  BY EntryFacts, LinesDiffer
<1> QED
  BY <1>1, EnabledKept DEF EntriesKept, maps

(* The PEs that will enable an interrupt still will.                       *)
LEMMA WillKept ==
  ASSUME CarefulInv, NEW p \in PE, OthersAlike(p), call'[p].op # "UNMASK",
         \A t \in PE : masked[t] /\ pendingEnables[t] => masked'[t] /\ pendingEnables'[t]
  PROVE  \A t \in PE, e \in Event : WillEnable(t, e) => WillEnable(t, e)'
BY DEF WillEnable, OthersAlike

(* A step that leaves the maps and the registrations as they are.          *)
LEMMA CarefulAgreed ==
  ASSUME CarefulInv, SerialInv', NEW p \in PE, OthersAlike(p), ActiveElsewhereKept(p),
         UNCHANGED <<maps, route>>, RegistrationsKept, \A k \in Lines : gic'[k].owner = gic[k].owner,
         EnableOK', HandledOK(p)', pc'[p] # "panic"
  PROVE  CarefulInv'
<1>1. \A e \in Shared, q \in PE :
        "registered" \in se'[Entry(e, q)].state <=> "registered" \in se[Entry(e, q)].state
  BY EntryFacts, ConstantFacts DEF RegistrationsKept
<1>2. \A q \in PE \ {p} : HandledOK(q)' /\ pc'[q] # "panic"
  BY <1>1, OthersCareful
<1>3. OneEventPerInterrupt' /\ OwnerOK' /\ RouteOK'
  BY AgreementKept DEF OthersAlike
<1> QED
  BY <1>2, <1>3 DEF CarefulInv

LEMMA CarefulQuiet ==
  ASSUME CarefulInv, SerialInv', NEW p \in PE, OthersAlike(p), ActiveElsewhereKept(p),
         UNCHANGED <<maps, route>>, EntriesKept, \A k \in Lines : gic'[k].owner = gic[k].owner,
         EnableOK', HandledOK(p)', pc'[p] # "panic"
  PROVE  CarefulInv'
<1>1. RegistrationsKept
  BY DEF RegistrationsKept, EntriesKept
<1> QED
  BY <1>1, CarefulAgreed

(* A PE that is done.                                                      *)
LEMMA HandledReturn ==
  ASSUME CarefulInv, NEW p \in PE, stack'[p] = stack[p], call'[p] = Idle, UNCHANGED <<intr, bound>>,
         \A i \in Interrupt \ {0} :
           gic'[Line(i, p)].active = p =>
             /\ gic[Line(i, p)].active = p
             /\ call[p].op \in {"INTR", "COMPLETE"} => i # call[p].arg
  PROVE  HandledOK(p)'
<1>1. HandledOK(p)
  BY CarefulParts
<1> QED
  BY <1>1 DEF HandledOK, Idle, Doing

(* A step in which the PE neither begins nor ends to handle an interrupt.  *)
LEMMA CarefulStill ==
  ASSUME CarefulInv, SerialInv', NEW p \in PE, OthersAlike(p), UNCHANGED <<se, maps, ic, stack>>,
         call[p].op \in {"INTR", "COMPLETE"} \/ call'[p].op \in {"INTR", "COMPLETE"} => call'[p] = call[p],
         \A t \in PE, e \in Event : WillEnable(t, e) => WillEnable(t, e)',
         pc'[p] # "panic"
  PROVE  CarefulInv'
<1>1. EntriesKept /\ ActiveElsewhereKept(p) /\ clients' = clients
  BY DEF EntriesKept, ActiveElsewhereKept, ic, OthersAlike
<1>2. EnableOK'
  BY <1>1, EnableKept DEF ic
<1>3. HandledOK(p)'
  <2>1. HandledOK(p)
    BY CarefulParts
  <2>2. CASE call'[p] = call[p]
    BY <1>1, <2>1, <2>2 DEF HandledOK, maps, ic, Calls
  <2>3. CASE call[p].op \notin {"INTR", "COMPLETE"} /\ call'[p].op \notin {"INTR", "COMPLETE"}
    BY <2>1, <2>3 DEF HandledOK, maps, ic
  <2> QED
    BY <2>2, <2>3
<1> QED
  BY <1>1, <1>2, <1>3, CarefulQuiet DEF ic

LEMMA CarefulCall ==
  ASSUME CarefulInv, NEW p \in PE, Call(p)
  PROVE  CarefulInv'
<1>0. SerialInv /\ SerialInv' /\ Types /\ CallOK(p)
  BY CarefulParts, BeginStep
<1>1. PICK e \in Event, op \in StateCalls, r \in PE \cup {0} : Begin(p, op, e, r)
  <2>1. PICK e \in Event \cap About :
          \/ \E op \in {"UNREGISTER", "ENABLE", "DISABLE"} : Begin(p, op, e, 0)
          \/ \E r \in IF e \in Shared THEN PE \cup {0} ELSE {p} : Begin(p, "REGISTER", e, r)
          \/ e \in Shared /\ \E r \in PE \cup {0} : Begin(p, "ROUTING", e, r)
          \/ e \in Dynamic /\ Begin(p, "RELEASE", e, 0)
    BY DEF Call
  <2> QED
    BY <2>1, Zenon DEF StateCalls
<1>2. /\ pc[p] = "ns" /\ call' = [call EXCEPT ![p] = Doing(op, e, r)]
      /\ pc' = [pc EXCEPT ![p] = "lock"]
      /\ UNCHANGED <<clients, se, maps, lock, cpu, ic, old>>
  BY <1>1, Zenon DEF Begin
<1>3. call'[p].op = op /\ pc'[p] = "lock" /\ OthersAlike(p)
  BY <1>0, <1>2 DEF Types, OthersAlike, Doing, cpu
<1>4. call[p].op = "none" /\ op \notin {"INTR", "COMPLETE", "UNMASK", "BIND"}
  BY <1>0, <1>2 DEF CallOK, Idle, Doing, StateCalls
<1>5. \A t \in PE, f \in Event : WillEnable(t, f) => WillEnable(t, f)'
  BY <1>2, <1>3, <1>4, WillKept DEF cpu
<1> QED
  BY <1>0, <1>2, <1>3, <1>4, <1>5, CarefulStill DEF cpu

LEMMA CarefulLock ==
  ASSUME CarefulInv, NEW p \in PE, Lock(p)
  PROVE  CarefulInv'
<1>0. SerialInv /\ SerialInv' /\ Types
  BY CarefulParts, LockStep
<1>1. /\ pc[p] = "lock" /\ pc' = [pc EXCEPT ![p] = "locked"]
      /\ UNCHANGED <<clients, se, maps, cpu, ic, call>>
      /\ \A q \in PE \ {p} : old'[q] = old[q]
  BY <1>0 DEF Lock, Types
<1>2. pc'[p] = "locked" /\ OthersAlike(p)
  BY <1>0, <1>1 DEF Types, OthersAlike, cpu
<1>3. \A t \in PE, f \in Event : WillEnable(t, f) => WillEnable(t, f)'
  BY <1>1, <1>2 DEF WillEnable, OthersAlike, cpu
<1> QED
  BY <1>0, <1>1, <1>2, <1>3, CarefulStill DEF cpu

(* A call that returns and has changed nothing.                            *)
LEMMA CarefulDeny ==
  ASSUME CarefulInv, NEW p \in PE, Deny(p)
  PROVE  CarefulInv'
<1>0. SerialInv /\ SerialInv'
  BY CarefulParts, DenyStep
<1>1. /\ pc[p] = "locked" /\ Return(p) /\ UNCHANGED <<clients, se, maps, cpu, ic>>
      /\ call[p].op \notin {"INTR", "COMPLETE"}
  BY DEF Deny, Denied, Body
<1>2. pc'[p] = "ns" /\ call'[p] = Idle /\ OthersAlike(p)
  BY <1>0, <1>1, ReturnFacts DEF cpu
<1>3. call'[p].op = "none"
  BY <1>2 DEF Idle, Doing
<1>4. \A t \in PE, f \in Event : WillEnable(t, f) => WillEnable(t, f)'
  BY <1>1, <1>2, <1>3, WillKept DEF cpu
<1> QED
  BY <1>0, <1>1, <1>2, <1>3, <1>4, CarefulStill DEF cpu

LEMMA CarefulMask ==
  ASSUME CarefulInv, NEW p \in PE, Mask(p)
  PROVE  CarefulInv'
<1>0. SerialInv /\ SerialInv' /\ Types /\ CallOK(p)
  BY CarefulParts, MaskStep
<1>1. /\ pc[p] = "ns" /\ masked' = [masked EXCEPT ![p] = TRUE]
      /\ UNCHANGED <<clients, se, maps, lock, pendingEnables, stack, ic, pc, call, old>>
  BY DEF Mask
<1>2. OthersAlike(p)
  BY <1>1 DEF OthersAlike
<1>3. \A t \in PE, f \in Event : WillEnable(t, f) => WillEnable(t, f)'
  BY <1>0, <1>1 DEF WillEnable, Types
<1> QED
  BY <1>0, <1>1, <1>2, <1>3, CarefulStill

LEMMA CarefulBind ==
  ASSUME CarefulInv, NEW p \in PE, NEW i \in (Ppi \cup Spi) \cap About, Bind(p, i)
  PROVE  CarefulInv'
<1>0. SerialInv /\ SerialInv' /\ Types /\ CallOK(p)
  BY CarefulParts, BindBeginStep
<1>1. /\ pc[p] = "ns" /\ call' = [call EXCEPT ![p] = Doing("BIND", 0, i)]
      /\ pc' = [pc EXCEPT ![p] = "bind"]
      /\ UNCHANGED <<clients, se, maps, lock, cpu, ic, old>>
  BY DEF Bind
<1>2. call'[p].op = "BIND" /\ pc'[p] = "bind" /\ OthersAlike(p)
  BY <1>0, <1>1 DEF Types, OthersAlike, Doing, cpu
<1>3. call[p].op = "none"
  BY <1>0, <1>1 DEF CallOK, Idle, Doing
<1>4. \A t \in PE, f \in Event : WillEnable(t, f) => WillEnable(t, f)'
  BY <1>1, <1>2, WillKept DEF cpu
<1> QED
  BY <1>0, <1>1, <1>2, <1>3, <1>4, CarefulStill DEF cpu

LEMMA CarefulBindRetry ==
  ASSUME CarefulInv, NEW p \in PE, BindRetry(p)
  PROVE  CarefulInv'
<1>0. SerialInv /\ SerialInv' /\ Types
  BY CarefulParts, BindRetryStep
<1>1. /\ pc[p] = "locked" /\ call[p].op = "BIND"
      /\ pc' = [pc EXCEPT ![p] = "bind"] /\ old' = [old EXCEPT ![p] = {}]
      /\ UNCHANGED <<clients, se, maps, cpu, ic, call>>
  BY DEF BindRetry, Body
<1>2. pc'[p] = "bind" /\ OthersAlike(p)
  BY <1>0, <1>1 DEF Types, OthersAlike, cpu
<1>3. \A t \in PE, f \in Event : WillEnable(t, f) => WillEnable(t, f)'
  BY <1>1, <1>2, WillKept DEF cpu
<1> QED
  BY <1>0, <1>1, <1>2, <1>3, CarefulStill DEF cpu

(* sdei_interrupt_bind looks for a map.                                    *)
LEMMA CarefulBindFinds ==
  ASSUME CarefulInv, NEW p \in PE, BindSearch(p) \/ BindFree(p) \/ BindOwner(p)
  PROVE  CarefulInv'
<1>0. SerialInv /\ SerialInv' /\ Types /\ CallOK(p)
  BY CarefulParts, BindSearchStep, BindFreeStep, BindOwnerStep
<1>1. /\ pc[p] \in {"bind", "free", "owner"} /\ call[p].op = "BIND"
      /\ UNCHANGED <<clients, se, maps, lock, cpu, ic, old>>
  BY <1>0 DEF BindSearch, BindFree, BindOwner, CallOK
<1>2. \E l \in {"ns", "free", "owner", "lock"} : pc' = [pc EXCEPT ![p] = l]
  BY DEF BindSearch, BindFree, BindOwner, BindReturn
<1>3. /\ \A q \in PE \ {p} : call'[q] = call[q]
      /\ call'[p].op \in {"BIND", "none"}
  <2>1. \/ call' = [call EXCEPT ![p] = Idle] \/ call' = call
        \/ \E e : call' = [call EXCEPT ![p].event = e]
    BY DEF BindSearch, BindFree, BindOwner, BindReturn
  <2>2. call \in [PE -> CallType] /\ Idle.op = "none"
    BY <1>0 DEF Types, Idle, Doing
  <2> QED
    BY <1>1, <2>1, <2>2 DEF CallType
<1>4. OthersAlike(p) /\ pc'[p] # "panic"
  BY <1>0, <1>1, <1>2, <1>3 DEF Types, OthersAlike, cpu
<1>5. \A t \in PE, f \in Event : WillEnable(t, f) => WillEnable(t, f)'
  BY <1>1, <1>3, <1>4, WillKept DEF cpu
<1> QED
  BY <1>0, <1>1, <1>3, <1>4, <1>5, CarefulStill DEF cpu

(* sdei_pe_unmask.  What the PE has to enable it enables at once, if the   *)
(* event is private, and in the course of the call if it is shared.        *)
LEMMA CarefulUnmask ==
  ASSUME CarefulInv, NEW p \in PE, Unmask(p)
  PROVE  CarefulInv'
<1>0. SerialInv /\ SerialInv' /\ Types /\ CallOK(p) /\ EnableOK /\ HandledOK(p)
  BY CarefulParts, UnmaskStep
<1> DEFINE c == [op |-> "UNMASK", event |-> 0, arg |-> 0,
                 todo |-> IF pendingEnables[p] THEN Shared ELSE {}]
<1>1. /\ pc[p] = "ns"
      /\ gic' = [k \in Lines |-> [gic[k] EXCEPT !.enabled =
                   @ \/ (pendingEnables[p] /\ k \in Reenable(p))]]
      /\ call' = [call EXCEPT ![p] = c]
      /\ pc' = [pc EXCEPT ![p] = "unmask"]
      /\ UNCHANGED <<clients, se, maps, lock, cpu, route, old>>
  BY DEF Unmask
<1>2. /\ \A k \in Lines : gic'[k].owner = gic[k].owner /\ gic'[k].active = gic[k].active
      /\ \A k \in Lines : gic[k].enabled => gic'[k].enabled
      /\ pendingEnables[p] => \A k \in Reenable(p) \cap Lines : gic'[k].enabled
  <2>1. gic \in [Lines -> LineType]
    BY <1>0 DEF Types
  <2>2. ASSUME NEW k \in Lines
        PROVE  /\ gic'[k].owner = gic[k].owner /\ gic'[k].active = gic[k].active
               /\ gic[k].enabled => gic'[k].enabled
               /\ pendingEnables[p] /\ k \in Reenable(p) => gic'[k].enabled
    BY <1>1, <2>1 DEF LineType
  <2> QED
    BY <2>2
<1>3. /\ OthersAlike(p) /\ pc'[p] = "unmask" /\ call'[p].op = "UNMASK" /\ stack'[p] = stack[p]
      /\ pendingEnables[p] => call'[p].todo = Shared
  BY <1>0, <1>1 DEF Types, OthersAlike, cpu
<1>4. call[p].op = "none"
  BY <1>0, <1>1 DEF CallOK, Idle, Doing
<1>5. EntriesKept /\ ActiveElsewhereKept(p)
  BY <1>1, <1>2, LineFacts DEF EntriesKept, ActiveElsewhereKept
<1>6. HandledOK(p)'
  <2>1. \A i \in Interrupt : gic'[Line(i, p)].active = gic[Line(i, p)].active
    BY <1>2, LineFacts
  <2> QED
    BY <1>0, <1>1, <1>3, <1>4, <2>1 DEF HandledOK, maps
<1>8. EnableOK'
  <2> SUFFICES ASSUME NEW e \in Event, NEW q \in PE PROVE EnabledOK(e, q)'
    BY DEF EnableOK
  <2>1. EnabledOK(e, q)
    BY <1>0 DEF EnableOK
  <2>2. PICK a : a = se[Entry(e, q)].aff
    OBVIOUS
  <2>3. CASE "enabled" \notin se[Entry(e, q)].state
    BY <1>1, <2>3 DEF EnabledOK
  <2>4. CASE "enabled" \in se[Entry(e, q)].state
    <3>1. "registered" \in se[Entry(e, q)].state
      BY <2>1, <2>4 DEF EnabledOK
    <3>2. CASE e = 0 \/ "ROUTING" \in Calls
      BY <1>1, <3>1, <3>2 DEF EnabledOK, Calls
    <3>3. CASE e # 0 /\ "ROUTING" \notin Calls
      <4>1. \/ gic[Line(intr[e], q)].enabled
            \/ e \in Private /\ WillEnable(q, e)
            \/ e \in Shared /\ se[Entry(e, q)].flags = "PE" /\ WillEnable(a, e)
        BY <2>1, <2>2, <2>4, <3>3 DEF EnabledOK
      <4>2. bound[e] /\ Line(intr[e], q) \in Lines
        BY <2>4, <3>3, RegisteredIsBound, LinesDiffer
      <4>3. CASE gic[Line(intr[e], q)].enabled
        <5>1. gic'[Line(intr'[e], q)].enabled
          BY <1>1, <1>2, <4>2, <4>3 DEF maps
        <5> QED
          BY <1>1, <3>1, <5>1 DEF EnabledOK
      <4>4. CASE e \in Private /\ WillEnable(q, e)
        <5>1. CASE q = p
          <6>1. Line(intr[e], p) \in Reenable(p) /\ pendingEnables[p]
            BY <2>4, <4>2, <4>4, <5>1 DEF Reenable, WillEnable
          <6>2. gic'[Line(intr'[e], q)].enabled
            BY <1>1, <1>2, <4>2, <5>1, <6>1 DEF maps
          <6> QED
            BY <1>1, <3>1, <6>2 DEF EnabledOK
        <5>2. CASE q # p
          <6>1. WillEnable(q, e)'
            BY <1>1, <1>3, <4>4, <5>2 DEF WillEnable, OthersAlike, cpu
          <6> QED
            BY <1>1, <3>1, <4>4, <6>1 DEF EnabledOK
        <5> QED
          BY <5>1, <5>2
      <4>5. CASE e \in Shared /\ se[Entry(e, q)].flags = "PE" /\ WillEnable(a, e)
        <5>1. a \in PE
          BY <2>2, <3>1, <3>3, <4>5, AffinityIsPE
        <5>2. WillEnable(a, e)'
          BY <1>1, <1>3, <4>5, <5>1 DEF WillEnable, OthersAlike, cpu
        <5> QED
          BY <1>1, <2>2, <3>1, <4>5, <5>2 DEF EnabledOK, WillEnable
      <4> QED
        BY <4>1, <4>3, <4>4, <4>5
    <3> QED
      BY <3>2, <3>3
  <2> QED
    BY <2>3, <2>4
<1> QED
  BY <1>0, <1>1, <1>2, <1>3, <1>5, <1>6, <1>8, CarefulQuiet

LEMMA CarefulUnmaskNext ==
  ASSUME CarefulInv, NEW p \in PE, UnmaskNext(p)
  PROVE  CarefulInv'
<1>0. SerialInv /\ SerialInv' /\ Types /\ CallOK(p)
  BY CarefulParts, UnmaskNextStep
<1>1. PICK e :
        /\ pc[p] = "unmask"
        /\ call' = [call EXCEPT ![p].event = e, ![p].todo = @ \ {e}]
        /\ pc' = [pc EXCEPT ![p] = "lock"]
        /\ UNCHANGED <<clients, se, maps, lock, cpu, ic, old>>
  BY DEF UnmaskNext
<1>2. call[p] \in CallType /\ call[p].op = "UNMASK"
  BY <1>0, <1>1, OwnTypes DEF CallOK
<1>3. /\ OthersAlike(p) /\ pc'[p] = "lock"
      /\ call'[p].op = "UNMASK" /\ call'[p].event = e /\ call'[p].todo = call[p].todo \ {e}
  BY <1>0, <1>1, <1>2 DEF Types, CallType, OthersAlike, cpu
<1>4. \A t \in PE, f \in Event : WillEnable(t, f) => WillEnable(t, f)'
  BY <1>1, <1>2, <1>3 DEF WillEnable, OthersAlike, cpu
<1> QED
  BY <1>0, <1>1, <1>2, <1>3, <1>4, CarefulStill DEF cpu

LEMMA CarefulUnmasked ==
  ASSUME CarefulInv, NEW p \in PE, Unmasked(p)
  PROVE  CarefulInv'
<1>0. SerialInv /\ SerialInv' /\ Types /\ CallOK(p)
  BY CarefulParts, UnmaskedStep
<1>1. /\ pc[p] = "unmask" /\ call[p].op = "UNMASK" /\ call[p].todo = {}
      /\ masked' = [masked EXCEPT ![p] = FALSE]
      /\ pendingEnables' = [pendingEnables EXCEPT ![p] = FALSE]
      /\ pc' = [pc EXCEPT ![p] = "ns"]
      /\ call' = [call EXCEPT ![p] = Idle]
      /\ old' = [old EXCEPT ![p] = {}]
      /\ UNCHANGED <<clients, se, maps, lock, stack, ic>>
  BY <1>0 DEF Unmasked, CallOK
<1>2. OthersAlike(p) /\ call'[p].op = "none" /\ pc'[p] = "ns"
  BY <1>0, <1>1 DEF Types, OthersAlike, Idle, Doing
<1>3. \A t \in PE, f \in Event : WillEnable(t, f) => WillEnable(t, f)'
  <2>1. \A f \in Event : ~ WillEnable(p, f)
    BY <1>1 DEF WillEnable
  <2>2. \A t \in PE \ {p} : masked'[t] = masked[t] /\ pendingEnables'[t] = pendingEnables[t]
    BY <1>0, <1>1 DEF Types
  <2> QED
    BY <1>2, <2>1, <2>2 DEF WillEnable, OthersAlike
<1> QED
  BY <1>0, <1>1, <1>2, <1>3, CarefulStill

(* The shared event that the PE has come to is enabled, if the PE has to.  *)
LEMMA CarefulUnmaskShared ==
  ASSUME CarefulInv, NEW p \in PE, UnmaskShared(p)
  PROVE  CarefulInv'
<1>0. SerialInv /\ SerialInv' /\ Types /\ CallOK(p) /\ EnableOK /\ HandledOK(p) /\ OldOK(p)
  BY CarefulParts, UnmaskSharedStep DEF SerialInv
<1>1. PICK e \in Event : e = call[p].event /\ e \in Shared
  BY <1>0, ConstantFacts DEF CallOK, UnmaskShared, Body
<1>2. /\ pc[p] = "locked" /\ call[p].op = "UNMASK"
      /\ pc' = [pc EXCEPT ![p] = "unmask"] /\ old' = [old EXCEPT ![p] = {}]
      /\ UNCHANGED <<clients, se, maps, cpu, route, call>>
  BY DEF UnmaskShared, Body
<1> DEFINE mine == /\ bound[e] /\ "enabled" \in old[p]
                   /\ se[Entry(e, p)].flags = "PE" /\ se[Entry(e, p)].aff = p
<1>3. gic' = IF mine THEN [gic EXCEPT ![Line(intr[e], p)].enabled = TRUE] ELSE gic
  BY <1>1 DEF UnmaskShared
<1>4. /\ \A k \in Lines : gic'[k].owner = gic[k].owner /\ gic'[k].active = gic[k].active
      /\ \A k \in Lines : gic[k].enabled => gic'[k].enabled
      /\ mine => gic'[Line(intr[e], p)].enabled
  <2>1. gic \in [Lines -> LineType] /\ (bound[e] => Line(intr[e], p) \in Lines)
    BY <1>0, BoundInterrupt, LineFacts DEF Types
  <2>2. CASE mine
    BY <1>3, <2>1, <2>2 DEF LineType
  <2>3. CASE ~ mine
    BY <1>3, <2>3
  <2> QED
    BY <2>2, <2>3
<1>5. OthersAlike(p) /\ pc'[p] = "unmask" /\ call'[p] = call[p] /\ stack'[p] = stack[p]
  BY <1>0, <1>2 DEF Types, OthersAlike, cpu
<1>6. EntriesKept /\ ActiveElsewhereKept(p)
  BY <1>2, <1>4, LineFacts DEF EntriesKept, ActiveElsewhereKept
<1>7. HandledOK(p)'
  <2>1. \A i \in Interrupt : gic'[Line(i, p)].active = gic[Line(i, p)].active
    BY <1>4, LineFacts
  <2> QED
    BY <1>0, <1>2, <1>5, <2>1 DEF HandledOK, maps
<1>9. \A t \in PE, f \in Event : WillEnable(t, f) => WillEnable(t, f)' \/ (t = p /\ f = e)
  BY <1>1, <1>2, <1>5 DEF WillEnable, OthersAlike, cpu
<1>10. EnableOK'
  <2> SUFFICES ASSUME NEW f \in Event, NEW q \in PE PROVE EnabledOK(f, q)'
    BY DEF EnableOK
  <2>1. EnabledOK(f, q)
    BY <1>0 DEF EnableOK
  <2>2. PICK a : a = se[Entry(f, q)].aff
    OBVIOUS
  <2>3. CASE "enabled" \notin se[Entry(f, q)].state
    BY <1>2, <2>3 DEF EnabledOK
  <2>4. CASE "enabled" \in se[Entry(f, q)].state
    <3>1. "registered" \in se[Entry(f, q)].state
      BY <2>1, <2>4 DEF EnabledOK
    <3>2. CASE f = 0 \/ "ROUTING" \in Calls
      BY <1>2, <3>1, <3>2 DEF EnabledOK, Calls
    <3>3. CASE f # 0 /\ "ROUTING" \notin Calls
      <4>1. \/ gic[Line(intr[f], q)].enabled
            \/ f \in Private /\ WillEnable(q, f)
            \/ f \in Shared /\ se[Entry(f, q)].flags = "PE" /\ WillEnable(a, f)
        BY <2>1, <2>2, <2>4, <3>3 DEF EnabledOK
      <4>2. bound[f] /\ Line(intr[f], q) \in Lines
        BY <2>4, <3>3, RegisteredIsBound, LinesDiffer
      <4>3. CASE gic[Line(intr[f], q)].enabled
        <5>1. gic'[Line(intr'[f], q)].enabled
          BY <1>2, <1>4, <4>2, <4>3 DEF maps
        <5> QED
          BY <1>2, <3>1, <5>1 DEF EnabledOK
      <4>4. CASE f \in Private /\ WillEnable(q, f)
        <5>1. WillEnable(q, f)'
          BY <1>1, <1>9, <4>4, ConstantFacts
        <5> QED
          BY <1>2, <3>1, <4>4, <5>1 DEF EnabledOK
      <4>5. CASE f \in Shared /\ se[Entry(f, q)].flags = "PE" /\ WillEnable(a, f)
        <5>1. a \in PE
          BY <2>2, <3>1, <3>3, <4>5, AffinityIsPE
        <5>2. CASE WillEnable(a, f)'
          BY <1>2, <2>2, <3>1, <4>5, <5>2 DEF EnabledOK, WillEnable
        <5>3. CASE a = p /\ f = e
          <6>1. Entry(e, q) = Entry(e, p) /\ Line(intr[e], q) = Line(intr[e], p)
            BY <1>1, <4>2, <5>3, LinesDiffer
          <6>2. "enabled" \in old[p]
            BY <1>0, <1>1, <1>2, <2>4, <5>3, <6>1 DEF OldOK
          <6>3. mine
            BY <2>2, <4>2, <4>5, <5>3, <6>1, <6>2
          <6>4. gic'[Line(intr'[f], q)].enabled
            BY <1>2, <1>4, <5>3, <6>1, <6>3 DEF maps
          <6> QED
            BY <1>2, <3>1, <6>4 DEF EnabledOK
        <5> QED
          BY <1>9, <4>5, <5>1, <5>2, <5>3
      <4> QED
        BY <4>1, <4>3, <4>4, <4>5
    <3> QED
      BY <3>2, <3>3
  <2> QED
    BY <2>3, <2>4
<1> QED
  BY <1>0, <1>2, <1>4, <1>5, <1>6, <1>7, <1>10, CarefulQuiet

(* The end of an interrupt.                                                *)
LEMMA CarefulEnd ==
  ASSUME CarefulInv, SerialInv', NEW p \in PE, pc[p] = "locked", call[p].op \in {"INTR", "COMPLETE"},
         Return(p), UNCHANGED <<clients, se, maps, stack, route>>, EnableOK',
         \/ gic' = gic /\ call[p].event = 0
         \/ \E l \in LineType :
              /\ l.active = 0 /\ l.owner = gic[Line(call[p].arg, p)].owner
              /\ gic' = [gic EXCEPT ![Line(call[p].arg, p)] = l]
  PROVE  CarefulInv'
<1>0. SerialInv /\ Types
  BY CarefulParts
<1>1. PICK i \in Interrupt : i = call[p].arg /\ gic[Line(i, p)].active = p /\ Fits(call[p].event, i)
  BY <1>0, HandlerFacts
<1>2. pc'[p] = "ns" /\ call'[p] = Idle /\ OthersAlike(p)
  BY <1>0, ReturnFacts
<1>3. /\ ActiveElsewhereKept(p) /\ \A k \in Lines : gic'[k].owner = gic[k].owner
      /\ \A j \in Interrupt \ {0} :
           gic'[Line(j, p)].active = p => gic[Line(j, p)].active = p /\ j # i
  <2>1. CASE gic' = gic /\ call[p].event = 0
    <3>1. i = 0
      BY <1>1, <2>1, ConstantFacts DEF Fits
    <3> QED
      BY <2>1, <3>1 DEF ActiveElsewhereKept
  <2>2. CASE \E l \in LineType :
               /\ l.active = 0 /\ l.owner = gic[Line(call[p].arg, p)].owner
               /\ gic' = [gic EXCEPT ![Line(call[p].arg, p)] = l]
    <3>1. PICK l \in LineType : /\ l.active = 0 /\ l.owner = gic[Line(i, p)].owner
                                /\ gic' = [gic EXCEPT ![Line(i, p)] = l]
      BY <1>1, <2>2
    <3>2. Line(i, p) \in Lines /\ gic \in [Lines -> LineType]
      BY <1>0, LineFacts DEF Types
    <3>3. gic'[Line(i, p)] = l /\ \A k \in Lines : k # Line(i, p) => gic'[k] = gic[k]
      BY <3>1, <3>2
    <3>4. ActiveElsewhereKept(p) /\ \A j \in Interrupt : gic'[Line(j, p)].active = p => gic[Line(j, p)].active = p
      BY <1>0, <1>1, <3>1, LineEnded
    <3>5. \A k \in Lines : gic'[k].owner = gic[k].owner
      BY <3>1, <3>3
    <3>6. gic'[Line(i, p)].active # p
      BY <3>1, <3>3, ConstantFacts
    <3> QED
      BY <3>4, <3>5, <3>6
  <2> QED
    BY <2>1, <2>2
<1>4. HandledOK(p)'
  BY <1>1, <1>2, <1>3, HandledReturn DEF maps
<1>5. EntriesKept
  BY <1>2 DEF EntriesKept
<1> QED
  BY <1>2, <1>3, <1>4, <1>5, CarefulQuiet

(* The interrupts that are enabled, and the PEs that will enable others,   *)
(* are as before.                                                          *)
LEMMA EnableReturn ==
  ASSUME CarefulInv, NEW p \in PE, OthersAlike(p), call'[p] = Idle, UNCHANGED <<se, maps, cpu>>,
         \A k \in Lines : gic[k].enabled => gic'[k].enabled
  PROVE  EnableOK'
<1>1. call'[p].op # "UNMASK"
  BY DEF Idle, Doing
<1>2. \A t \in PE, e \in Event : WillEnable(t, e) => WillEnable(t, e)'
  BY <1>1, WillKept DEF cpu
<1>3. EntriesKept /\ clients' = clients
  BY DEF EntriesKept, OthersAlike
<1> QED
  BY <1>2, <1>3, EnableKept

LEMMA CarefulNotDispatched ==
  ASSUME CarefulInv, NEW p \in PE, NotDispatched(p)
  PROVE  CarefulInv'
<1>0. /\ SerialInv /\ SerialInv' /\ Types
      /\ pc[p] = "locked" /\ call[p].op = "INTR" /\ Return(p)
  BY CarefulParts, NotDispatchedStep DEF NotDispatched, Body
<1> DEFINE again == "registered" \in old[p] /\ call[p].event # 0
           g == gic[Line(call[p].arg, p)]
           l == [g EXCEPT !.active = 0, !.pending = @ \/ again]
           k == Line(call[p].arg, p)
<1>1. /\ UNCHANGED <<clients, se, maps, cpu, route>>
      /\ gic' = [gic EXCEPT ![k].active = 0, ![k].pending = @ \/ again]
  BY DEF NotDispatched
<1>2. again \in BOOLEAN /\ g \in LineType /\ k \in Lines
  BY <1>0, HandlerFacts, LineFacts
<1>3. gic' = [gic EXCEPT ![k] = l]
  BY <1>1
<1> HIDE DEF again, k
<1>4. l \in LineType /\ l.active = 0 /\ l.owner = g.owner /\ l.enabled = g.enabled
  BY <1>2 DEF LineType
<1> HIDE DEF l
<1>5. \A j \in Lines : gic[j].enabled => gic'[j].enabled
  BY <1>0, <1>2, <1>3, <1>4 DEF Types, k
<1>6. call'[p] = Idle /\ OthersAlike(p)
  BY <1>0, <1>1, ReturnFacts DEF cpu
<1>7. EnableOK'
  BY <1>1, <1>5, <1>6, EnableReturn
<1>8. \E m \in LineType :
        /\ m.active = 0 /\ m.owner = gic[Line(call[p].arg, p)].owner
        /\ gic' = [gic EXCEPT ![Line(call[p].arg, p)] = m]
  BY <1>3, <1>4 DEF k
<1> QED
  BY <1>0, <1>1, <1>7, <1>8, CarefulEnd DEF cpu

(* sdei_event_complete ends the interrupt: its event is still bound.       *)
LEMMA CarefulCompleted ==
  ASSUME CarefulInv, NEW p \in PE, Completed(p)
  PROVE  CarefulInv'
<1>0. /\ SerialInv /\ SerialInv' /\ Types /\ HandledOK(p)
      /\ pc[p] = "locked" /\ call[p].op = "COMPLETE"
      /\ UNCHANGED <<clients, se, maps, cpu, route>>
  BY CarefulParts, CompletedStep DEF Completed, Body
<1> DEFINE g == gic[Line(call[p].arg, p)]
           l == [g EXCEPT !.active = 0]
           k == Line(call[p].arg, p)
<1>1. call[p].event = 0 \/ bound[call[p].event]
  BY <1>0 DEF HandledOK
<1>2. Return(p) /\ gic' = [gic EXCEPT ![k] = l]
  BY <1>1 DEF Completed
<1>3. g \in LineType /\ k \in Lines
  BY <1>0, HandlerFacts, LineFacts
<1> HIDE DEF k
<1>4. l \in LineType /\ l.active = 0 /\ l.owner = g.owner /\ l.enabled = g.enabled
  BY <1>3 DEF LineType
<1> HIDE DEF l
<1>5. \A j \in Lines : gic[j].enabled => gic'[j].enabled
  BY <1>0, <1>2, <1>3, <1>4 DEF Types, k
<1>6. call'[p] = Idle /\ OthersAlike(p)
  BY <1>0, <1>2, ReturnFacts DEF cpu
<1>7. EnableOK'
  BY <1>0, <1>5, <1>6, EnableReturn
<1>8. \E m \in LineType :
        /\ m.active = 0 /\ m.owner = gic[Line(call[p].arg, p)].owner
        /\ gic' = [gic EXCEPT ![Line(call[p].arg, p)] = m]
  BY <1>2, <1>4 DEF k
<1> QED
  BY <1>0, <1>2, <1>7, <1>8, CarefulEnd DEF cpu

(* handle_masked_trigger: the PE that disables an interrupt is the one     *)
(* that will enable it.                                                    *)
LEMMA CarefulMaskedTrigger ==
  ASSUME CarefulInv, NEW p \in PE, MaskedTrigger(p)
  PROVE  CarefulInv'
<1>0. /\ SerialInv /\ SerialInv' /\ Types /\ HandledOK(p) /\ EnableOK
      /\ pc[p] = "locked" /\ call[p].op = "INTR" /\ masked[p] /\ Return(p)
      /\ UNCHANGED <<clients, se, maps, masked, stack, route>>
  BY CarefulParts, MaskedTriggerStep DEF MaskedTrigger, Body
<1>1. PICK e \in Event : e = call[p].event
  BY <1>0, HandlerFacts
<1> DEFINE here == e \in Private \/ se[Entry(e, p)].flags = "PE"
           g == gic[Line(call[p].arg, p)]
           l == [g EXCEPT !.active = 0, !.pending = TRUE, !.enabled = @ /\ ~ here]
           k == Line(call[p].arg, p)
<1>2. IF e = 0 THEN UNCHANGED <<gic, pendingEnables>>
      ELSE /\ gic' = [gic EXCEPT ![k].active = 0, ![k].pending = TRUE, ![k].enabled = @ /\ ~ here]
           /\ pendingEnables' = [pendingEnables EXCEPT ![p] = @ \/ here]
  BY <1>1 DEF MaskedTrigger
<1>3. g \in LineType /\ k \in Lines
  BY <1>0, HandlerFacts, LineFacts
<1>4. call'[p] = Idle /\ OthersAlike(p) /\ call'[p].op = "none"
  BY <1>0, ReturnFacts DEF Idle, Doing
<1>5. CASE e = 0
  <2>1. EnableOK'
    BY <1>0, <1>2, <1>4, <1>5, EnableReturn DEF cpu
  <2> QED
    BY <1>0, <1>1, <1>2, <1>5, <2>1, CarefulEnd
<1>6. CASE e # 0
  <2>1. gic' = [gic EXCEPT ![k] = l]
    BY <1>2, <1>6
  <2>2. l \in LineType /\ l.active = 0 /\ l.owner = g.owner /\ (~ here => l.enabled = g.enabled)
    <3> HIDE DEF here, g
    <3> QED
      BY <1>3 DEF LineType
  <2> HIDE DEF l, k
  <2>3. \A j \in Lines : j # k \/ ~ here => (gic[j].enabled => gic'[j].enabled)
    BY <1>0, <1>3, <2>1, <2>2 DEF Types, k
  <2>4. \E m \in LineType :
          /\ m.active = 0 /\ m.owner = gic[Line(call[p].arg, p)].owner
          /\ gic' = [gic EXCEPT ![Line(call[p].arg, p)] = m]
    BY <2>1, <2>2 DEF k
  <2>5. bound[e] /\ k = Line(intr[e], p)
    BY <1>0, <1>1, <1>6 DEF HandledOK, k
  <2>6. /\ here => pendingEnables'[p]
        /\ \A t \in PE : pendingEnables[t] => pendingEnables'[t]
    <3>1. pendingEnables' = [pendingEnables EXCEPT ![p] = @ \/ here]
      BY <1>2, <1>6
    <3> QED
      BY <1>0, <3>1 DEF Types
  <2>7. \A t \in PE, f \in Event : WillEnable(t, f) => WillEnable(t, f)'
    BY <1>0, <1>4, <2>6, WillKept
  <2>8. EnableOK'
    <3> SUFFICES ASSUME NEW f \in Event, NEW q \in PE PROVE EnabledOK(f, q)'
      BY DEF EnableOK
    <3>1. EnabledOK(f, q)
      BY <1>0 DEF EnableOK
    <3>2. PICK a : a = se[Entry(f, q)].aff
      OBVIOUS
    <3>3. CASE "enabled" \notin se[Entry(f, q)].state
      BY <1>0, <3>3 DEF EnabledOK
    <3>4. CASE "enabled" \in se[Entry(f, q)].state
      <4>1. "registered" \in se[Entry(f, q)].state
        BY <3>1, <3>4 DEF EnabledOK
      <4>2. CASE f = 0 \/ "ROUTING" \in Calls
        BY <1>0, <4>1, <4>2 DEF EnabledOK, Calls
      <4>3. CASE f # 0 /\ "ROUTING" \notin Calls
        <5>1. \/ gic[Line(intr[f], q)].enabled
              \/ f \in Private /\ WillEnable(q, f)
              \/ f \in Shared /\ se[Entry(f, q)].flags = "PE" /\ WillEnable(a, f)
          BY <3>1, <3>2, <3>4, <4>3 DEF EnabledOK
        <5>2. bound[f] /\ Line(intr[f], q) \in Lines
          BY <3>4, <4>3, RegisteredIsBound, LinesDiffer
        <5>3. f \in Shared /\ se[Entry(f, q)].flags = "PE" => a \in PE /\ a = route[intr[f]]
          BY <3>2, <4>1, <4>3, AffinityIsPE
        <5>4. \/ gic'[Line(intr[f], q)].enabled
              \/ f \in Private /\ WillEnable(q, f)'
              \/ f \in Shared /\ se[Entry(f, q)].flags = "PE" /\ WillEnable(a, f)'
          <6>1. CASE f \in Private /\ WillEnable(q, f)
            BY <2>7, <6>1
          <6>2. CASE f \in Shared /\ se[Entry(f, q)].flags = "PE" /\ WillEnable(a, f)
            BY <2>7, <5>3, <6>2
          <6>3. CASE gic[Line(intr[f], q)].enabled /\ (Line(intr[f], q) # k \/ ~ here)
            BY <2>3, <5>2, <6>3
          <6>4. CASE Line(intr[f], q) = k /\ here
            <7>1. f = e /\ (e \in Shared \/ q = p) /\ Entry(f, q) = Entry(e, p)
              BY <2>5, <5>2, <6>4, LinesDiffer
            <7>2. WillEnable(p, e)'
              BY <1>0, <1>4, <2>6, <6>4 DEF WillEnable
            <7>3. CASE e \in Private
              BY <7>1, <7>2, <7>3, ConstantFacts
            <7>4. CASE e \in Shared
              <8>1. se[Entry(e, p)].flags = "PE"
                BY <6>4, <7>4, ConstantFacts
              <8>2. route[intr[e]] \in {0, p}
                BY <1>0, <1>1, <1>6, <4>1, <4>3, <7>1, <7>4 DEF HandledOK
              <8>3. a = p
                BY <5>3, <7>1, <7>4, <8>1, <8>2, ConstantFacts
              <8> QED
                BY <7>1, <7>2, <7>4, <8>1, <8>3
            <7> QED
              BY <7>3, <7>4, ConstantFacts
          <6> QED
            BY <5>1, <6>1, <6>2, <6>3, <6>4
        <5> QED
          BY <1>0, <3>2, <4>1, <5>4 DEF EnabledOK, WillEnable, maps
      <4> QED
        BY <4>2, <4>3
    <3> QED
      BY <3>3, <3>4
  <2> QED
    BY <1>0, <2>4, <2>8, CarefulEnd
<1> QED
  BY <1>5, <1>6

(* An interrupt of EL3 is that of an event.                                *)
LEMMA OwnedIsMapped ==
  ASSUME CarefulInv, NEW i \in Interrupt, NEW p \in PE, gic[Line(i, p)].owner = "EL3"
  PROVE  MapsOf(i) # {}
<1>0. SerialInv /\ OwnerOK /\ \A e \in Event : MapOK(e)
  BY CarefulParts DEF SerialInv
<1>1. CASE i \in Static
  <2>1. i \in Event /\ intr[i] = i /\ (IsSpi(i) <=> i \in Shared)
    BY <1>0, <1>1, ConstantFacts DEF MapOK, IsSpi
  <2> QED
    BY <2>1 DEF MapsOf, IsSpi
<1>2. CASE i \notin Static
  <2>1. i \in Ppi \cup Spi
    BY <1>2 DEF Interrupt
  <2>2. PICK e \in Event : bound[e] /\ intr[e] = i
    BY <1>0, <2>1 DEF OwnerOK
  <2>3. IsSpi(i) <=> e \in Shared
    BY <1>0, <2>2, BoundInterrupt DEF Fits
  <2> QED
    BY <2>2, <2>3 DEF MapsOf, IsSpi
<1> QED
  BY <1>1, <1>2

LEMMA CarefulAcknowledge ==
  ASSUME CarefulInv, NEW p \in PE, NEW i \in Interrupt, Acknowledge(p, i)
  PROVE  CarefulInv'
<1>0. /\ SerialInv /\ SerialInv' /\ Types /\ HandledOK(p) /\ CallOK(p)
      /\ \A f \in Event : MapOK(f)
  BY CarefulParts, AcknowledgeStep DEF SerialInv
<1> DEFINE e == CHOOSE e \in MapsOf(i) : \A f \in MapsOf(i) : e <= f
<1>1. /\ pc[p] = "ns" /\ Signalled(p, i)
      /\ gic' = [gic EXCEPT ![Line(i, p)].active = p, ![Line(i, p)].pending = FALSE]
      /\ UNCHANGED <<clients, se, maps, lock, cpu, route, old>>
  BY DEF Acknowledge
<1>2. MapsOf(i) # {}
  BY <1>1, OwnedIsMapped DEF Signalled
<1>3. /\ call' = [call EXCEPT ![p] = Doing("INTR", e, i)]
      /\ pc' = [pc EXCEPT ![p] = "lock"]
  BY <1>2 DEF Acknowledge
<1>4. e \in MapsOf(i)
  <2>1. MapsOf(i) \subseteq Nat
    BY ConstantFacts DEF MapsOf
  <2> QED
    BY <1>2, <2>1, LeastExists
<1> HIDE DEF e
<1>5. e \in Event /\ intr[e] = i /\ (IsSpi(i) <=> e \in Shared)
  BY <1>4 DEF MapsOf
<1>6. e # 0 => bound[e]
  BY <1>0, <1>5, ConstantFacts DEF MapOK
<1>7. /\ OthersAlike(p) /\ pc'[p] = "lock" /\ stack'[p] = stack[p]
      /\ call'[p].op = "INTR" /\ call'[p].event = e /\ call'[p].arg = i
  BY <1>0, <1>1, <1>3 DEF Types, OthersAlike, cpu, Doing
<1>8. /\ ActiveElsewhereKept(p)
      /\ \A j \in Interrupt : j # i => gic'[Line(j, p)].active = gic[Line(j, p)].active
  BY <1>0, <1>1, AcknowledgeLine
<1>9. /\ \A k \in Lines : gic'[k].owner = gic[k].owner
      /\ \A k \in Lines : gic[k].enabled => gic'[k].enabled
  <2>1. Line(i, p) \in Lines /\ gic \in [Lines -> LineType]
    BY <1>0, LineFacts DEF Types
  <2> QED
    BY <1>1, <2>1 DEF LineType
<1>10. EntriesKept
  BY <1>1 DEF EntriesKept
<1>11. EnableOK'
  <2>1. \A t \in PE, f \in Event : WillEnable(t, f) => WillEnable(t, f)'
    BY <1>1, <1>7, WillKept DEF cpu
  <2> QED
    BY <1>1, <1>9, <1>10, <2>1, EnableKept
<1>13. HandledOK(p)'
  <2>1. \A n \in DOMAIN stack'[p] :
          stack'[p][n].event # 0 => bound'[stack'[p][n].event] /\ intr'[stack'[p][n].event] = stack'[p][n].intr
    BY <1>0, <1>1, <1>7 DEF HandledOK, maps
  <2>2. e # 0 => bound'[e] /\ intr'[e] = i
    BY <1>1, <1>5, <1>6 DEF maps
  <2>3. e \in Shared => route'[i] \in {0, p}
    BY <1>1, <1>5 DEF Signalled
  <2>4. ASSUME NEW j \in Interrupt \ {0}, gic'[Line(j, p)].active = p, j # i
        PROVE  \E n \in DOMAIN stack'[p] : stack'[p][n].intr = j
    <3>1. gic[Line(j, p)].active = p
      BY <1>8, <2>4
    <3>2. call[p].op = "none"
      BY <1>0, <1>1 DEF CallOK, Idle, Doing
    <3> QED
      BY <1>0, <1>7, <3>1, <3>2 DEF HandledOK
  <2> QED
    BY <1>7, <2>1, <2>2, <2>3, <2>4 DEF HandledOK
<1> QED
  BY <1>0, <1>1, <1>7, <1>8, <1>9, <1>10, <1>11, <1>13, CarefulQuiet

(* sdei_intr_handler and setup_ns_dispatch.                                *)
LEMMA CarefulDispatch ==
  ASSUME CarefulInv, NEW p \in PE, Dispatch(p)
  PROVE  CarefulInv'
<1>0. SerialInv /\ SerialInv' /\ Types /\ HandledOK(p)
  BY CarefulParts, DispatchStep
<1>1. PICK e \in Event : e = call[p].event
  BY <1>0, HandlerFacts DEF Dispatch, Body
<1> DEFINE k == Entry(e, p)
           new == {"registered", "enabled", "running"}
<1>2. /\ pc[p] = "locked" /\ call[p].op = "INTR" /\ old[p] = {"registered", "enabled"}
      /\ pc' = [pc EXCEPT ![p] = "push"] /\ old' = [old EXCEPT ![p] = {}]
      /\ UNCHANGED <<clients, maps, cpu, ic, call>>
  BY DEF Dispatch, Body, Allowed
<1>3. se' = [se EXCEPT ![k].state = new]
  <2>1. Transition(old[p], "DISPATCH") = new
    BY <1>2 DEF Transition
  <2> QED
    BY <1>1, <2>1 DEF Dispatch, SetState
<1>4. se[k].state = {"registered", "enabled"} /\ k \in Entries
  BY <1>0, <1>1, <1>2, DispatchFacts, EntryFacts
<1>5. /\ "registered" \in new /\ "enabled" \in new
      /\ "registered" \in se[k].state /\ "enabled" \in se[k].state
  BY <1>4
<1> HIDE DEF k, new
<1>6. EntriesKept
  <2>1. se \in [Entries -> EntryType]
    BY <1>0 DEF Types
  <2>2. ASSUME NEW j \in Entries
        PROVE  /\ j = k => se'[j].state = new
               /\ j # k => se'[j].state = se[j].state
               /\ se'[j].flags = se[j].flags /\ se'[j].aff = se[j].aff
    BY <1>3, <1>4, <2>1 DEF EntryType
  <2> QED
    BY <1>5, <2>2 DEF EntriesKept
<1>7. OthersAlike(p) /\ pc'[p] = "push" /\ stack'[p] = stack[p] /\ call' = call
  BY <1>0, <1>2 DEF Types, OthersAlike, cpu
<1>8. EnableOK'
  <2>1. \A t \in PE, f \in Event : WillEnable(t, f) => WillEnable(t, f)'
    BY <1>2, <1>7, WillKept DEF cpu
  <2> QED
    BY <1>2, <1>6, <2>1, EnableKept DEF ic
<1>9. ActiveElsewhereKept(p)
  BY <1>2, <1>7 DEF ActiveElsewhereKept, ic
<1>10. HandledOK(p)'
  <2>1. "registered" \in se'[k].state => "registered" \in se[k].state
    BY <1>4, <1>6 DEF EntriesKept
  <2> QED
    BY <1>0, <1>1, <1>2, <1>7, <2>1 DEF HandledOK, maps, ic, Calls, k
<1> QED
  BY <1>0, <1>2, <1>6, <1>7, <1>8, <1>9, <1>10, CarefulQuiet DEF ic

LEMMA CarefulPush ==
  ASSUME CarefulInv, NEW p \in PE, Push(p)
  PROVE  CarefulInv'
<1>0. SerialInv /\ SerialInv' /\ Types /\ HandledOK(p) /\ CallOK(p)
  BY CarefulParts, PushStep
<1>1. call[p].op = "INTR"
  BY <1>0 DEF Push, CallOK
<1>2. PICK e \in Event, i \in Interrupt :
        e = call[p].event /\ i = call[p].arg
  BY <1>0, <1>1, HandlerFacts
<1> DEFINE d == [event |-> e, intr |-> i]
<1>3. /\ pc[p] = "push"
      /\ stack' = [stack EXCEPT ![p] = Append(@, d)]
      /\ pc' = [pc EXCEPT ![p] = "ns"]
      /\ call' = [call EXCEPT ![p] = Idle]
      /\ old' = [old EXCEPT ![p] = {}]
      /\ UNCHANGED <<clients, se, maps, lock, masked, pendingEnables, ic>>
  BY <1>2 DEF Push
<1>4. d.event = e /\ d.intr = i
  OBVIOUS
<1> HIDE DEF d
<1>5. stack[p] \in Seq([event : Event, intr : Interrupt])
  BY <1>0 DEF Types
<1>6. stack'[p] = Append(stack[p], d)
  BY <1>0, <1>3 DEF Types
<1>7. /\ \A n \in DOMAIN stack[p] : n \in DOMAIN stack'[p] /\ stack'[p][n] = stack[p][n]
      /\ \A n \in DOMAIN stack'[p] : stack'[p][n] = d \/ (n \in DOMAIN stack[p] /\ stack'[p][n] = stack[p][n])
      /\ \E n \in DOMAIN stack'[p] : stack'[p][n] = d
  BY <1>5, <1>6
<1>8. OthersAlike(p) /\ pc'[p] = "ns" /\ call'[p] = Idle /\ call'[p].op = "none"
  BY <1>0, <1>3 DEF Types, OthersAlike, Idle, Doing
<1>9. EntriesKept /\ ActiveElsewhereKept(p)
  BY <1>3, <1>8 DEF EntriesKept, ActiveElsewhereKept, ic
<1>10. EnableOK'
  <2>1. \A t \in PE, f \in Event : WillEnable(t, f) => WillEnable(t, f)'
    BY <1>3, <1>8, WillKept
  <2> QED
    BY <1>3, <1>9, <2>1, EnableKept DEF ic
<1>11. HandledOK(p)'
  <2>1. e # 0 => bound[e] /\ intr[e] = i
    BY <1>0, <1>1, <1>2 DEF HandledOK
  <2>2. \A n \in DOMAIN stack[p] :
          stack[p][n].event # 0 => bound[stack[p][n].event] /\ intr[stack[p][n].event] = stack[p][n].intr
    BY <1>0 DEF HandledOK
  <2>3. \A n \in DOMAIN stack'[p] :
          stack'[p][n].event # 0 => bound[stack'[p][n].event] /\ intr[stack'[p][n].event] = stack'[p][n].intr
    BY <1>4, <1>7, <2>1, <2>2
  <2>4. ASSUME NEW j \in Interrupt \ {0}, gic[Line(j, p)].active = p
        PROVE  \E n \in DOMAIN stack'[p] : stack'[p][n].intr = j
    <3>1. (\E n \in DOMAIN stack[p] : stack[p][n].intr = j) \/ i = j
      BY <1>0, <1>1, <1>2, <2>4 DEF HandledOK
    <3> QED
      BY <1>4, <1>7, <3>1
  <2> QED
    BY <1>3, <1>8, <2>3, <2>4 DEF HandledOK, maps, ic
<1> QED
  BY <1>0, <1>3, <1>8, <1>9, <1>10, <1>11, CarefulQuiet DEF ic

(* sdei_event_complete.                                                    *)
LEMMA CarefulComplete ==
  ASSUME CarefulInv, NEW p \in PE, Complete(p)
  PROVE  CarefulInv'
<1>0. SerialInv /\ SerialInv' /\ Types /\ HandledOK(p) /\ CallOK(p)
  BY CarefulParts, CompleteStep
<1>1. pc[p] = "ns" /\ stack[p] # << >> /\ call[p].op = "none"
  BY <1>0 DEF Complete, CallOK, Idle, Doing
<1>2. Len(stack[p]) \in DOMAIN stack[p]
  BY <1>0, <1>1 DEF Types
<1>3. PICK e, i : e = Top(p).event /\ i = Top(p).intr
  OBVIOUS
<1>4. /\ call' = [call EXCEPT ![p] = Doing("COMPLETE", e, i)]
      /\ pc' = [pc EXCEPT ![p] = "complete"]
      /\ UNCHANGED <<clients, se, maps, lock, cpu, ic>>
      /\ \A q \in PE \ {p} : old'[q] = old[q]
  BY <1>0, <1>3 DEF Complete, Types
<1>5. /\ OthersAlike(p) /\ pc'[p] = "complete" /\ stack' = stack
      /\ call'[p].op = "COMPLETE" /\ call'[p].event = e /\ call'[p].arg = i
  BY <1>0, <1>4 DEF Types, OthersAlike, cpu, Doing
<1>6. EntriesKept /\ ActiveElsewhereKept(p)
  BY <1>4, <1>5 DEF EntriesKept, ActiveElsewhereKept, ic
<1>7. EnableOK'
  <2>1. \A t \in PE, f \in Event : WillEnable(t, f) => WillEnable(t, f)'
    BY <1>4, <1>5, WillKept DEF cpu
  <2> QED
    BY <1>4, <1>6, <2>1, EnableKept DEF ic
<1>8. HandledOK(p)'
  <2>1. e # 0 => bound[e] /\ intr[e] = i
    BY <1>0, <1>2, <1>3 DEF HandledOK, Top
  <2> QED
    BY <1>0, <1>1, <1>4, <1>5, <2>1 DEF HandledOK, maps, ic
<1> QED
  BY <1>0, <1>4, <1>5, <1>6, <1>7, <1>8, CarefulQuiet DEF ic

LEMMA CarefulCompleteState ==
  ASSUME CarefulInv, NEW p \in PE, CompleteState(p), ~ Collides(p)
  PROVE  CarefulInv'
<1>0. SerialInv /\ SerialInv' /\ Types /\ HandledOK(p) /\ StackOK(p)
  BY CarefulParts, CompleteStateStep DEF SerialInv
<1>1. pc[p] = "complete"
  BY DEF CompleteState
<1>2. PICK e \in Event : e = call[p].event
  BY <1>0, <1>1, CompletingFacts
<1> DEFINE k == Entry(e, p)
           new == old[p] \ {"running"}
<1>3. /\ call[p].op = "COMPLETE" /\ Len(stack[p]) \in DOMAIN stack[p]
      /\ "running" \in old[p] /\ old[p] = se[k].state
  BY <1>0, <1>1, <1>2, CompletingFacts DEF Collides
<1>4. /\ se' = [se EXCEPT ![k].state = new]
      /\ stack' = [stack EXCEPT ![p] = SubSeq(@, 1, Len(@) - 1)]
      /\ pc' = [pc EXCEPT ![p] = "lock"] /\ old' = [old EXCEPT ![p] = {}]
      /\ UNCHANGED <<clients, maps, masked, pendingEnables, ic, lock, call>>
  BY <1>2, <1>3 DEF CompleteState, Allowed, Transition, SetState
<1>5. /\ k \in Entries /\ ("registered" \in new <=> "registered" \in se[k].state)
      /\ "enabled" \in new <=> "enabled" \in se[k].state
  BY <1>3, EntryFacts
<1> HIDE DEF k, new
<1>6. EntriesKept
  <2>1. se \in [Entries -> EntryType]
    BY <1>0 DEF Types
  <2>2. ASSUME NEW j \in Entries
        PROVE  /\ j = k => se'[j].state = new
               /\ j # k => se'[j].state = se[j].state
               /\ se'[j].flags = se[j].flags /\ se'[j].aff = se[j].aff
    BY <1>4, <1>5, <2>1 DEF EntryType
  <2> QED
    BY <1>5, <2>2 DEF EntriesKept
<1>7. /\ \A n \in DOMAIN stack'[p] :
           n \in DOMAIN stack[p] /\ n # Len(stack[p]) /\ stack'[p][n] = stack[p][n]
      /\ \A n \in DOMAIN stack[p] : n # Len(stack[p]) => n \in DOMAIN stack'[p]
      /\ \A q \in PE \ {p} : stack'[q] = stack[q]
  BY <1>0, <1>3, <1>4, PopFacts
<1>8. OthersAlike(p) /\ pc'[p] = "lock" /\ call' = call
  BY <1>0, <1>4, <1>7 DEF Types, OthersAlike
<1>9. EnableOK'
  <2>1. \A t \in PE, f \in Event : WillEnable(t, f) => WillEnable(t, f)'
    BY <1>3, <1>4, <1>8, WillKept
  <2> QED
    BY <1>4, <1>6, <2>1, EnableKept DEF ic
<1>10. ActiveElsewhereKept(p)
  BY <1>3, <1>4, <1>8 DEF ActiveElsewhereKept, ic
<1>11. HandledOK(p)'
  <2>1. call[p].arg = stack[p][Len(stack[p])].intr
    BY <1>0, <1>1 DEF StackOK, Top
  <2>2. \A n \in DOMAIN stack'[p] :
          stack'[p][n].event # 0 => bound[stack'[p][n].event] /\ intr[stack'[p][n].event] = stack'[p][n].intr
    BY <1>0, <1>7 DEF HandledOK
  <2>3. ASSUME NEW j \in Interrupt \ {0}, gic[Line(j, p)].active = p
        PROVE  (\E n \in DOMAIN stack'[p] : stack'[p][n].intr = j) \/ call[p].arg = j
    <3>1. (\E n \in DOMAIN stack[p] : stack[p][n].intr = j) \/ call[p].arg = j
      BY <1>0, <2>3 DEF HandledOK
    <3> QED
      BY <1>7, <2>1, <3>1
  <2>4. e # 0 => bound[e] /\ intr[e] = call[p].arg
    BY <1>0, <1>2, <1>3 DEF HandledOK
  <2> QED
    BY <1>2, <1>3, <1>4, <1>8, <2>2, <2>3, <2>4 DEF HandledOK, maps, ic
<1> QED
  BY <1>0, <1>4, <1>6, <1>8, <1>9, <1>10, <1>11, CarefulQuiet DEF ic

-----------------------------------------------------------------------------
(* Calls that change an entry and its interrupt *)

(* The interrupt of an event that is bound, or of event 0, is of no other. *)
LEMMA OwnInterrupt ==
  ASSUME CarefulInv, NEW e \in Event, bound[e] \/ e = 0
  PROVE  /\ intr[e] \in Interrupt /\ (IsSpi(intr[e]) <=> e \in Shared)
         /\ \A f \in Event : bound[f] /\ f # e => intr[f] # intr[e]
         /\ \A i \in Ppi \cup Spi : i = intr[e] => bound[e]
<1>0. SerialInv /\ OneEventPerInterrupt /\ \A f \in Event : MapOK(f)
  BY CarefulParts DEF SerialInv
<1>1. CASE bound[e]
  BY <1>0, <1>1, BoundInterrupt DEF OneEventPerInterrupt, Fits
<1>2. CASE e = 0
  <2>1. e \in Static /\ intr[e] = 0 /\ e \notin Shared
    BY <1>0, <1>2, ConstantFacts DEF MapOK
  <2>2. ~ IsSpi(0) /\ 0 \in Interrupt
    BY <1>2, <2>1, ConstantFacts DEF IsSpi
  <2>3. ASSUME NEW f \in Event, bound[f], f # e PROVE intr[f] # 0
    BY <1>0, <1>2, <2>3, ConstantFacts DEF MapOK
  <2>4. \A i \in Ppi \cup Spi : i # 0
    BY ConstantFacts
  <2> QED
    BY <2>1, <2>2, <2>3, <2>4
<1> QED
  BY <1>1, <1>2

LEMMA OthersHandled ==
  ASSUME CarefulInv, NEW p \in PE, OthersAlike(p), ActiveElsewhereKept(p), UNCHANGED <<intr, bound>>,
         \A q \in PE \ {p} :
           LET f == call[q].event IN
           call[q].op = "INTR" /\ f \in Shared /\ "ROUTING" \notin Calls
             /\ "registered" \in se'[Entry(f, q)].state =>
               "registered" \in se[Entry(f, q)].state /\ route'[call[q].arg] = route[call[q].arg]
  PROVE  \A q \in PE \ {p} : HandledOK(q)' /\ pc'[q] # "panic"
<1> SUFFICES ASSUME NEW q \in PE \ {p} PROVE HandledOK(q)' /\ pc'[q] # "panic"
  OBVIOUS
<1>0. HandledOK(q) /\ pc[q] # "panic" /\ CallOK(q)
  BY CarefulParts
<1>2. HandledOK(q)'
  BY <1>0 DEF HandledOK, OthersAlike, ActiveElsewhereKept, Calls
<1> QED
  BY <1>0, <1>2 DEF OthersAlike

(* A call that changes the entry of event e on PE p, and its interrupt.    *)
LEMMA EntryChanged ==
  ASSUME CarefulInv, SerialInv', NEW p \in PE, NEW e \in Event, bound[e] \/ e = 0,
         OthersAlike(p), call'[p] = Idle, pc'[p] = "ns", UNCHANGED <<clients, intr, bound, cpu>>,
         call[p].op \notin {"INTR", "COMPLETE"},
         \A l \in Entries : l # Entry(e, p) => se'[l] = se[l],
         \A l \in Lines : gic'[l].active = gic[l].active,
         \A l \in Lines : l # Line(intr[e], p) => gic'[l] = gic[l],
         \A j \in Interrupt : j # intr[e] => route'[j] = route[j],
         e # 0 => ("registered" \in se'[Entry(e, p)].state <=> gic'[Line(intr[e], p)].owner = "EL3"),
         e \in Shared /\ "registered" \in se'[Entry(e, p)].state =>
           /\ se'[Entry(e, p)].flags = "ANY" <=> route'[intr[e]] = 0
           /\ "ROUTING" \notin Calls => se'[Entry(e, p)].aff = route'[intr[e]],
         EnabledOK(e, p)',
         \A q \in PE \ {p} :
           call[q].op = "INTR" /\ call[q].event = e /\ e \in Shared /\ "ROUTING" \notin Calls
             /\ "registered" \in se'[Entry(e, p)].state =>
               "registered" \in se[Entry(e, p)].state /\ route'[intr[e]] = route[intr[e]]
  PROVE  CarefulInv'
<1>0. /\ SerialInv /\ Types /\ OneEventPerInterrupt /\ OwnerOK /\ RouteOK
      /\ \A q \in PE : CallOK(q) /\ HandledOK(q)
  BY CarefulParts
<1>1. PICK i \in Interrupt : i = intr[e] /\ (IsSpi(i) <=> e \in Shared)
  BY OwnInterrupt
<1>2. /\ \A f \in Event : bound[f] /\ f # e => intr[f] # i
      /\ \A j \in Ppi \cup Spi : j = i => bound[e]
  BY <1>1, OwnInterrupt
<1>3. \A f \in Event, q \in PE :
        /\ Entry(f, q) \in Entries
        /\ Entry(f, q) = Entry(e, p) <=> f = e /\ (e \in Shared \/ q = p)
  <2>1. ASSUME NEW f \in Event, NEW q \in PE
        PROVE  Entry(f, q) = Entry(e, p) <=> f = e /\ (e \in Shared \/ q = p)
    BY ConstantFacts DEF Entry
  <2> QED
    BY <2>1, EntryFacts
<1>4. ASSUME NEW f \in Event, bound[f], NEW q \in PE
      PROVE  /\ intr[f] \in Interrupt /\ Line(intr[f], q) \in Lines
             /\ Line(intr[f], q) = Line(i, p) <=> Entry(f, q) = Entry(e, p)
  <2>1. intr[f] \in Interrupt
    BY <1>0, <1>4, BoundInterrupt
  <2>2. Line(intr[f], q) = Line(i, p) <=> intr[f] = i /\ (IsSpi(i) \/ p = q)
    BY <2>1, ConstantFacts DEF Line
  <2> QED
    BY <1>1, <1>2, <1>3, <1>4, <2>1, <2>2, LineFacts
<1>5. OneEventPerInterrupt'
  BY <1>0 DEF OneEventPerInterrupt
<1>6. OwnerOK'
  <2>1. ASSUME NEW f \in Event \ {0}, NEW q \in PE
        PROVE  IF bound[f]
               THEN "registered" \in se'[Entry(f, q)].state <=> gic'[Line(intr[f], q)].owner = "EL3"
               ELSE "registered" \notin se'[Entry(f, q)].state
    <3>1. CASE Entry(f, q) = Entry(e, p)
      <4>1. f = e /\ bound[f]
        BY <1>3, <3>1
      <4>2. Line(intr[f], q) = Line(i, p)
        BY <1>4, <3>1, <4>1
      <4> QED
        BY <1>1, <3>1, <4>1, <4>2
    <3>2. CASE Entry(f, q) # Entry(e, p)
      <4>1. se'[Entry(f, q)] = se[Entry(f, q)]
        BY <1>3, <3>2
      <4>2. bound[f] => gic'[Line(intr[f], q)] = gic[Line(intr[f], q)]
        BY <1>1, <1>4, <3>2
      <4> QED
        BY <1>0, <4>1, <4>2 DEF OwnerOK
    <3> QED
      BY <3>1, <3>2
  <2>2. ASSUME NEW j \in Ppi \cup Spi, \A f \in Event : bound[f] => intr[f] # j, NEW q \in PE
        PROVE  gic'[Line(j, q)].owner = "NS"
    <3>1. j # i /\ j \in Interrupt
      BY <1>1, <1>2, <2>2, ConstantFacts
    <3>2. Line(j, q) \in Lines /\ Line(j, q) # Line(i, p)
      BY <3>1, LineFacts
    <3> QED
      BY <1>0, <1>1, <2>2, <3>2 DEF OwnerOK
  <2> QED
    BY <2>1, <2>2 DEF OwnerOK
<1>7. RouteOK'
  <2> SUFFICES ASSUME NEW f \in Shared, NEW q \in PE, bound[f], "registered" \in se'[Entry(f, q)].state
               PROVE  /\ se'[Entry(f, q)].flags = "ANY" <=> route'[intr[f]] = 0
                      /\ "ROUTING" \notin Calls => se'[Entry(f, q)].aff = route'[intr[f]]
    BY DEF RouteOK, Calls
  <2>0. f \in Event
    BY ConstantFacts
  <2>1. CASE f = e
    <3>1. Entry(f, q) = Entry(e, p)
      BY <1>3, <2>0, <2>1
    <3> QED
      BY <2>1, <3>1
  <2>2. CASE f # e
    <3>1. se'[Entry(f, q)] = se[Entry(f, q)]
      BY <1>3, <2>0, <2>2
    <3>2. route'[intr[f]] = route[intr[f]]
      BY <1>1, <1>2, <1>4, <2>0, <2>2
    <3> QED
      BY <1>0, <3>1, <3>2 DEF RouteOK
  <2> QED
    BY <2>1, <2>2
<1>8. EnableOK'
  <2> SUFFICES ASSUME NEW f \in Event, NEW q \in PE PROVE EnabledOK(f, q)'
    BY DEF EnableOK
  <2>1. CASE Entry(f, q) = Entry(e, p)
    <3>1. f = e /\ (e \in Shared \/ q = p)
      BY <1>3, <2>1
    <3>2. CASE q = p
      BY <3>1, <3>2
    <3>3. CASE e \in Shared
      <4>1. Line(intr[e], q) = Line(intr[e], p)
        BY <1>1, <3>3 DEF Line
      <4>2. e \notin Private
        BY <3>3, ConstantFacts
      <4>3. PICK a : a = se'[Entry(e, p)].aff
        OBVIOUS
      <4> QED
        BY <2>1, <3>1, <4>1, <4>2, <4>3 DEF EnabledOK
    <3> QED
      BY <3>1, <3>2, <3>3
  <2>2. CASE Entry(f, q) # Entry(e, p)
    <3>1. se'[Entry(f, q)] = se[Entry(f, q)]
      BY <1>3, <2>2
    <3>2. bound[f] => gic'[Line(intr[f], q)] = gic[Line(intr[f], q)]
      BY <1>1, <1>4, <2>2
    <3>3. call'[p].op # "UNMASK"
      BY DEF Idle, Doing
    <3>4. \A t \in PE, g \in Event : WillEnable(t, g) => WillEnable(t, g)'
      BY <3>3, WillKept DEF cpu
    <3> QED
      BY <3>1, <3>2, <3>4, EnabledKept
  <2> QED
    BY <2>1, <2>2
<1>9. \A q \in PE \ {p} : HandledOK(q)' /\ pc'[q] # "panic"
  <2>1. ActiveElsewhereKept(p)
    BY ActiveAsBefore
  <2>2. ASSUME NEW q \in PE \ {p}, NEW f, f = call[q].event, call[q].op = "INTR", f \in Shared,
               "ROUTING" \notin Calls, "registered" \in se'[Entry(f, q)].state
        PROVE  "registered" \in se[Entry(f, q)].state /\ route'[call[q].arg] = route[call[q].arg]
    <3>1. f \in Event /\ f # 0
      BY <2>2, ConstantFacts
    <3>2. bound[f] /\ intr[f] = call[q].arg
      BY <1>0, <2>2, <3>1 DEF HandledOK
    <3>3. CASE f = e
      <4>1. Entry(f, q) = Entry(e, p)
        BY <1>3, <2>2, <3>1, <3>3
      <4> QED
        BY <2>2, <3>2, <3>3, <4>1
    <3>4. CASE f # e
      <4>1. se'[Entry(f, q)] = se[Entry(f, q)]
        BY <1>3, <3>1, <3>4
      <4>2. route'[intr[f]] = route[intr[f]]
        BY <1>1, <1>2, <1>4, <3>1, <3>2, <3>4
      <4> QED
        BY <2>2, <3>2, <4>1, <4>2
    <3> QED
      BY <3>3, <3>4
  <2> QED
    BY <2>1, <2>2, OthersHandled
<1>10. HandledOK(p)' /\ pc'[p] # "panic"
  <2>1. \A j \in Interrupt : gic'[Line(j, p)].active = gic[Line(j, p)].active
    BY ActiveAsBefore
  <2>2. HandledOK(p)'
    BY <2>1, HandledReturn DEF cpu
  <2> QED
    BY <2>2
<1> QED
  BY <1>5, <1>6, <1>7, <1>8, <1>9, <1>10 DEF CarefulInv

(* sdei_event_register.                                                    *)
LEMMA CarefulRegister ==
  ASSUME CarefulInv, NEW p \in PE, Register(p)
  PROVE  CarefulInv'
<1>0. /\ SerialInv /\ SerialInv' /\ Types /\ CallOK(p) /\ OldOK(p)
      /\ \A f \in Event : MapOK(f)
      /\ \A q \in PE : HandledOK(q)
  BY CarefulParts, RegisterStep DEF SerialInv
<1>1. PICK e \in Event : e = call[p].event
  BY <1>0 DEF CallOK, Register, Body
<1>2. PICK r \in PE \cup {0} : r = call[p].arg
  BY <1>0 DEF CallOK, Register, Body
<1>3. PICK i : i = intr[e]
  OBVIOUS
<1> DEFINE k == Entry(e, p)
           entry == [state |-> {"registered"}, flags |-> IF r = 0 THEN "ANY" ELSE "PE", aff |-> r]
           line == [owner |-> "EL3", enabled |-> FALSE, pending |-> FALSE, active |-> 0]
<1>4. /\ pc[p] = "locked" /\ call[p].op = "REGISTER" /\ Return(p)
      /\ se' = [se EXCEPT ![k] = entry]
      /\ UNCHANGED <<clients, intr, bound, cpu>>
      /\ e \in Dynamic => bound[e]
      /\ bound[e] => gic[Line(i, p)].active = 0
  BY <1>1, <1>2, <1>3 DEF Register, Body, MayRegister, Allowed, Transition
<1>5. \/ ~ bound[e] /\ UNCHANGED ic
      \/ /\ bound[e]
         /\ gic' = [gic EXCEPT ![Line(i, p)] = line]
         /\ route' = [route EXCEPT ![i] = IF e \in Shared THEN r ELSE @]
  BY <1>1, <1>2, <1>3 DEF Register
<1>6. bound[e] \/ e = 0
  BY <1>0, <1>4, ConstantFacts DEF MapOK
<1>7. i \in Interrupt /\ Line(i, p) \in Lines /\ (IsSpi(i) <=> e \in Shared) /\ k \in Entries
  BY <1>3, <1>6, OwnInterrupt, LineFacts, EntryFacts
<1>8. /\ entry.state = {"registered"} /\ entry.flags = (IF r = 0 THEN "ANY" ELSE "PE")
      /\ entry.aff = r /\ line.owner = "EL3" /\ line.active = 0
  OBVIOUS
<1> HIDE DEF k, entry, line
<1>9. se'[k] = entry /\ \A l \in Entries : l # k => se'[l] = se[l]
  BY <1>0, <1>4, <1>7 DEF Types
<1>10. /\ bound[e] => gic'[Line(i, p)] = line /\ (e \in Shared => route'[i] = r)
       /\ \A l \in Lines : l # Line(i, p) => gic'[l] = gic[l]
       /\ \A j \in Interrupt : j # i => route'[j] = route[j]
       /\ \A l \in Lines : gic'[l].active = gic[l].active
  <2>1. CASE ~ bound[e] /\ UNCHANGED ic
    BY <2>1 DEF ic
  <2>2. CASE /\ bound[e]
             /\ gic' = [gic EXCEPT ![Line(i, p)] = line]
             /\ route' = [route EXCEPT ![i] = IF e \in Shared THEN r ELSE @]
    BY <1>0, <1>4, <1>7, <1>8, <2>2 DEF Types
  <2> QED
    BY <1>5, <2>1, <2>2
<1>11. call'[p] = Idle /\ pc'[p] = "ns" /\ OthersAlike(p)
  BY <1>0, <1>4, ReturnFacts DEF cpu
<1>12. e \in Shared => bound[e]
  BY <1>6, ConstantFacts
<1>13. EnabledOK(e, p)'
  BY <1>8, <1>9 DEF EnabledOK, k
<1>14. ASSUME NEW q \in PE \ {p}, call[q].op = "INTR", call[q].event = e, e \in Shared
       PROVE  FALSE
  <2>1. gic[Line(call[q].arg, q)].active = q
    BY <1>0, <1>14, HandlerFacts
  <2>2. intr[e] = call[q].arg
    BY <1>0, <1>14, ConstantFacts DEF HandledOK
  <2>3. Line(i, p) = Line(i, q)
    BY <1>7, <1>14 DEF Line
  <2> QED
    BY <1>3, <1>4, <1>12, <1>14, <2>1, <2>2, <2>3, ConstantFacts
<1>15. e # 0 => ("registered" \in se'[k].state <=> gic'[Line(i, p)].owner = "EL3")
  BY <1>6, <1>8, <1>9, <1>10
<1>16. e \in Shared => /\ se'[k].flags = "ANY" <=> route'[i] = 0
                       /\ se'[k].aff = route'[i]
  BY <1>8, <1>9, <1>10, <1>12
<1> QED
  BY <1>0, <1>3, <1>4, <1>6, <1>9, <1>10, <1>11, <1>13, <1>14, <1>15, <1>16, EntryChanged DEF k

(* sdei_event_unregister.                                                  *)
LEMMA CarefulUnregister ==
  ASSUME CarefulInv, NEW p \in PE, Unregister(p)
  PROVE  CarefulInv'
<1>0. SerialInv /\ SerialInv' /\ Types /\ CallOK(p) /\ OldOK(p)
  BY CarefulParts, UnregisterStep DEF SerialInv
<1>1. PICK e \in Event : e = call[p].event
  BY <1>0 DEF CallOK, Unregister, Body
<1>2. PICK i : i = intr[e]
  OBVIOUS
<1> DEFINE k == Entry(e, p)
           new == old[p] \ {"registered", "enabled"}
           entry == [Unregistered EXCEPT !.state = new]
           line == [gic[Line(i, p)] EXCEPT !.owner = "NS", !.enabled = FALSE, !.pending = FALSE]
<1>3. /\ pc[p] = "locked" /\ call[p].op = "UNREGISTER" /\ "registered" \in old[p] /\ Return(p)
      /\ se' = [se EXCEPT ![k] = entry]
      /\ UNCHANGED <<clients, intr, bound, cpu, route>>
  BY <1>1 DEF Unregister, Body, Allowed, Transition
<1>4. se[k].state = old[p] /\ k \in Entries
  BY <1>0, <1>1, <1>3, EntryFacts DEF OldOK, StateCalls
<1>5. bound[e] \/ e = 0
  BY <1>3, <1>4, RegisteredIsBound
<1>6. i \in Interrupt /\ Line(i, p) \in Lines
  BY <1>2, <1>5, OwnInterrupt, LineFacts
<1>7. \/ ~ bound[e] /\ gic' = gic
      \/ bound[e] /\ gic' = [gic EXCEPT ![Line(i, p)] = line]
  BY <1>0, <1>1, <1>2, <1>6 DEF Unregister, Types
<1>8. entry.state = new
  BY DEF Unregistered
<1>9. line.owner = "NS" /\ line.active = gic[Line(i, p)].active
  <2>1. gic[Line(i, p)] \in LineType
    BY <1>0, <1>6 DEF Types
  <2> QED
    BY <2>1 DEF LineType
<1> HIDE DEF k, entry, line
<1>10. se'[k] = entry /\ \A l \in Entries : l # k => se'[l] = se[l]
  BY <1>0, <1>3, <1>4 DEF Types
<1>11. /\ bound[e] => gic'[Line(i, p)] = line
       /\ \A l \in Lines : l # Line(i, p) => gic'[l] = gic[l]
       /\ \A l \in Lines : gic'[l].active = gic[l].active
  BY <1>0, <1>6, <1>7, <1>9 DEF Types
<1>12. call'[p] = Idle /\ pc'[p] = "ns" /\ OthersAlike(p)
  BY <1>0, <1>3, ReturnFacts DEF cpu
<1>13. "registered" \notin se'[k].state /\ "enabled" \notin se'[k].state
  BY <1>8, <1>10
<1>14. EnabledOK(e, p)'
  BY <1>13 DEF EnabledOK, k
<1>15. e # 0 => gic'[Line(i, p)].owner # "EL3"
  BY <1>5, <1>9, <1>11
<1> QED
  BY <1>0, <1>2, <1>3, <1>5, <1>10, <1>11, <1>12, <1>13, <1>14, <1>15, EntryChanged DEF k

(* sdei_event_enable and sdei_event_disable.                               *)
LEMMA CarefulSwitch ==
  ASSUME CarefulInv, NEW p \in PE, NEW op \in {"ENABLE", "DISABLE"}, NEW on \in BOOLEAN,
         on <=> op = "ENABLE", Switch(p, op, on)
  PROVE  CarefulInv'
<1>0. /\ SerialInv /\ SerialInv' /\ Types /\ CallOK(p) /\ OldOK(p) /\ OwnerOK /\ RouteOK
      /\ EnabledOK(call[p].event, p)
  <2>1. Types /\ CallOK(p)
    BY CarefulParts
  <2>2. call[p].event \in Event
    BY <2>1 DEF CallOK, Switch, Body
  <2> QED
    BY <2>2, CarefulParts, SwitchStep DEF SerialInv, EnableOK
<1>1. PICK e \in Event : e = call[p].event
  BY <1>0 DEF CallOK, Switch, Body
<1>2. PICK i : i = intr[e]
  OBVIOUS
<1>3. PICK new : new = Transition(old[p], op)
  OBVIOUS
<1> DEFINE k == Entry(e, p)
<1>4. /\ pc[p] = "locked" /\ call[p].op = op /\ Return(p) /\ "registered" \in old[p]
      /\ se' = [se EXCEPT ![k].state = new]
      /\ UNCHANGED <<clients, intr, bound, cpu, route>>
  BY <1>1, <1>3 DEF Switch, Body, SetState, Allowed, maps
<1>5. k \in Entries /\ se[k].state = old[p] /\ se[k] \in EntryType /\ old[p] \in StateType
  BY <1>0, <1>1, <1>4, EntryFacts, OwnTypes DEF OldOK, StateCalls
<1>6. bound[e] \/ e = 0
  BY <1>4, <1>5, RegisteredIsBound
<1>7. i \in Interrupt /\ Line(i, p) \in Lines
  BY <1>2, <1>6, OwnInterrupt, LineFacts
<1>8. \/ (~ bound[e] \/ new = old[p]) /\ gic' = gic
      \/ bound[e] /\ gic' = [gic EXCEPT ![Line(i, p)].enabled = on]
  BY <1>1, <1>2, <1>3 DEF Switch
<1>9. /\ "registered" \in new
      /\ on \/ "enabled" \notin new
  BY <1>3, <1>4 DEF Transition
<1> HIDE DEF k
<1>10. /\ se'[k].state = new /\ se'[k].flags = se[k].flags /\ se'[k].aff = se[k].aff
       /\ \A l \in Entries : l # k => se'[l] = se[l]
  BY <1>0, <1>4, <1>5 DEF Types, EntryType
<1>11. /\ \A l \in Lines : l # Line(i, p) => gic'[l] = gic[l]
       /\ \A l \in Lines : gic'[l].active = gic[l].active /\ gic'[l].owner = gic[l].owner
       /\ on /\ gic[Line(i, p)].enabled => gic'[Line(i, p)].enabled
       /\ on /\ bound[e] /\ new # old[p] => gic'[Line(i, p)].enabled
  <2>1. CASE (~ bound[e] \/ new = old[p]) /\ gic' = gic
    BY <2>1
  <2>2. CASE bound[e] /\ gic' = [gic EXCEPT ![Line(i, p)].enabled = on]
    BY <1>0, <1>7, <2>2 DEF Types, LineType
  <2> QED
    BY <1>8, <2>1, <2>2
<1>12. call'[p] = Idle /\ pc'[p] = "ns" /\ OthersAlike(p)
  BY <1>0, <1>4, ReturnFacts DEF cpu
<1>13. EnabledOK(e, p)'
  <2>1. CASE "enabled" \notin new
    BY <1>10, <2>1 DEF EnabledOK, k
  <2>2. CASE e = 0 /\ "enabled" \in new
    BY <1>9, <1>10, <2>2 DEF EnabledOK, k
  <2>3. CASE e # 0 /\ new # old[p] /\ "enabled" \in new
    <3>1. gic'[Line(intr'[e], p)].enabled
      BY <1>2, <1>4, <1>6, <1>9, <1>11, <2>3
    <3> QED
      BY <1>9, <1>10, <3>1 DEF EnabledOK, k
  <2>4. CASE new = old[p] /\ "enabled" \in new
    <3>1. call'[p].op # "UNMASK"
      BY <1>12 DEF Idle, Doing
    <3>2. \A t \in PE, g \in Event : WillEnable(t, g) => WillEnable(t, g)'
      BY <1>4, <1>12, <3>1, WillKept DEF cpu
    <3>3. gic[Line(i, p)].enabled => gic'[Line(i, p)].enabled
      BY <1>9, <1>11, <2>4
    <3>4. /\ se'[Entry(e, p)].state = se[Entry(e, p)].state
          /\ se'[Entry(e, p)].flags = se[Entry(e, p)].flags /\ se'[Entry(e, p)].aff = se[Entry(e, p)].aff
      BY <1>5, <1>10, <2>4 DEF k
    <3> QED
      BY <1>2, <1>4, <3>2, <3>3, <3>4, EnabledKept
  <2> QED
    BY <2>1, <2>2, <2>3, <2>4
<1>14. e # 0 => ("registered" \in se'[k].state <=> gic'[Line(i, p)].owner = "EL3")
  BY <1>0, <1>2, <1>4, <1>5, <1>6, <1>7, <1>9, <1>10, <1>11 DEF OwnerOK, k
<1>15. e \in Shared =>
         /\ se'[k].flags = "ANY" <=> route'[i] = 0
         /\ "ROUTING" \notin Calls => se'[k].aff = route'[i]
  <2>1. e \in Shared => bound[e]
    BY <1>6, ConstantFacts
  <2> QED
    BY <1>0, <1>2, <1>4, <1>5, <1>10, <2>1 DEF RouteOK, k
<1>16. call[p].op \notin {"INTR", "COMPLETE"} /\ "registered" \in se[k].state
  BY <1>4, <1>5
<1> QED
  BY <1>0, <1>2, <1>4, <1>6, <1>10, <1>11, <1>12, <1>13, <1>14, <1>15, <1>16, EntryChanged DEF k

(* sdei_event_routing_set.                                                 *)
LEMMA CarefulRoutingSet ==
  ASSUME CarefulInv, NEW p \in PE, RoutingSet(p)
  PROVE  CarefulInv'
<1>0. /\ SerialInv /\ SerialInv' /\ Types /\ CallOK(p) /\ OldOK(p) /\ OwnerOK
  BY CarefulParts, RoutingSetStep DEF SerialInv
<1>1. PICK e \in Event : e = call[p].event
  BY <1>0 DEF CallOK, RoutingSet, Body
<1>2. PICK r \in PE \cup {0} : r = call[p].arg
  BY <1>0 DEF CallOK, RoutingSet, Body
<1>3. PICK i : i = intr[e]
  OBVIOUS
<1> DEFINE k == Entry(e, p)
           flags == IF r = 0 THEN "ANY" ELSE "PE"
<1>4. /\ pc[p] = "locked" /\ call[p].op = "ROUTING" /\ Return(p)
      /\ bound[e] /\ old[p] = {"registered"}
      /\ se' = [se EXCEPT ![k].flags = flags]
      /\ route' = [route EXCEPT ![i] = r]
      /\ UNCHANGED <<clients, intr, bound, cpu, gic>>
  BY <1>1, <1>2, <1>3 DEF RoutingSet, Body, Allowed, maps
<1>5. i \in Interrupt /\ "ROUTING" \in Calls
  BY <1>0, <1>3, <1>4, BoundInterrupt DEF CallOK, StateCalls
<1>6. k \in Entries /\ se[k] \in EntryType /\ se[k].state = {"registered"}
  BY <1>0, <1>1, <1>4, EntryFacts, OwnTypes DEF OldOK, StateCalls
<1>7. flags = "ANY" <=> r = 0
  OBVIOUS
<1> HIDE DEF k, flags
<1>8. /\ se'[k].flags = flags /\ se'[k].state = {"registered"}
      /\ \A l \in Entries : l # k => se'[l] = se[l]
  BY <1>0, <1>4, <1>6 DEF Types, EntryType
<1>9. route'[i] = r /\ \A j \in Interrupt : j # i => route'[j] = route[j]
  BY <1>0, <1>4, <1>5 DEF Types
<1>10. call'[p] = Idle /\ pc'[p] = "ns" /\ OthersAlike(p)
  BY <1>0, <1>4, ReturnFacts DEF cpu
<1>11. EnabledOK(e, p)'
  BY <1>8 DEF EnabledOK, k
<1>12. e # 0 => ("registered" \in se'[k].state <=> gic'[Line(i, p)].owner = "EL3")
  BY <1>0, <1>3, <1>4, <1>6, <1>8 DEF OwnerOK, k
<1>13. e \in Shared => (se'[k].flags = "ANY" <=> route'[i] = 0)
  BY <1>7, <1>8, <1>9
<1> QED
  BY <1>0, <1>3, <1>4, <1>5, <1>8, <1>9, <1>10, <1>11, <1>12, <1>13, EntryChanged DEF k

-----------------------------------------------------------------------------
(* Calls that change a map *)

(* The map of an event that is not registered and not handled changes.     *)
LEMMA MapChanged ==
  ASSUME CarefulInv, NEW p \in PE, NEW e \in Dynamic, OthersAlike(p), call'[p] = Idle,
         UNCHANGED <<clients, se, cpu, ic>>, call[p].op \notin {"INTR", "COMPLETE"},
         \A f \in Event : f # e => intr'[f] = intr[f] /\ bound'[f] = bound[f],
         \A q \in PE : "registered" \notin se[Entry(e, q)].state,
         \A q \in PE : call[q].op \in {"INTR", "COMPLETE"} => call[q].event # e,
         \A q \in PE : \A n \in DOMAIN stack[q] : stack[q][n].event # e
  PROVE  RouteOK' /\ EnableOK' /\ \A q \in PE : HandledOK(q)'
<1>0. Types /\ RouteOK /\ EnableOK /\ \A q \in PE : CallOK(q) /\ HandledOK(q)
  BY CarefulParts
<1>1. RouteOK'
  <2> SUFFICES ASSUME NEW f \in Shared, NEW q \in PE, bound'[f], "registered" \in se[Entry(f, q)].state
               PROVE  /\ se[Entry(f, q)].flags = "ANY" <=> route[intr'[f]] = 0
                      /\ "ROUTING" \notin Calls => se[Entry(f, q)].aff = route[intr'[f]]
    BY DEF RouteOK, ic, Calls
  <2>1. f # e /\ f \in Event
    BY ConstantFacts
  <2> QED
    BY <1>0, <2>1 DEF RouteOK
<1>2. EnableOK'
  <2> SUFFICES ASSUME NEW f \in Event, NEW q \in PE PROVE EnabledOK(f, q)'
    BY DEF EnableOK
  <2>0. EnabledOK(f, q)
    BY <1>0 DEF EnableOK
  <2>1. CASE f = e
    BY <2>0, <2>1 DEF EnabledOK
  <2>2. CASE f # e
    <3>1. call'[p].op # "UNMASK"
      BY DEF Idle, Doing
    <3>2. \A t \in PE, g \in Event : WillEnable(t, g) => WillEnable(t, g)'
      BY <3>1, WillKept DEF cpu
    <3>3. PICK a : a = se[Entry(f, q)].aff
      OBVIOUS
    <3>4. CASE "enabled" \notin se[Entry(f, q)].state
      BY <3>4 DEF EnabledOK
    <3>5. CASE "enabled" \in se[Entry(f, q)].state
      <4>1. "registered" \in se[Entry(f, q)].state
        BY <2>0, <3>5 DEF EnabledOK
      <4>2. CASE f = 0 \/ "ROUTING" \in Calls
        BY <4>1, <4>2 DEF EnabledOK, Calls
      <4>3. CASE f # 0 /\ "ROUTING" \notin Calls
        <5>1. \/ gic[Line(intr[f], q)].enabled
              \/ f \in Private /\ WillEnable(q, f)
              \/ f \in Shared /\ se[Entry(f, q)].flags = "PE" /\ WillEnable(a, f)
          BY <2>0, <3>3, <3>5, <4>3 DEF EnabledOK
        <5>2. f \in Shared /\ se[Entry(f, q)].flags = "PE" => a \in PE
          BY <3>3, <4>1, <4>3, AffinityIsPE
        <5>3. \/ gic[Line(intr[f], q)].enabled
              \/ f \in Private /\ WillEnable(q, f)'
              \/ f \in Shared /\ se[Entry(f, q)].flags = "PE" /\ WillEnable(a, f)'
          BY <3>2, <5>1, <5>2
        <5>4. intr'[f] = intr[f] /\ gic' = gic
          BY <2>2 DEF ic
        <5> QED
          BY <3>3, <4>1, <5>3, <5>4 DEF EnabledOK, WillEnable
      <4> QED
        BY <4>2, <4>3
    <3> QED
      BY <3>4, <3>5
  <2> QED
    BY <2>1, <2>2
<1>3. ASSUME NEW q \in PE PROVE HandledOK(q)'
  <2>0. HandledOK(q) /\ CallOK(q)
    BY <1>0
  <2>1. ASSUME NEW n \in DOMAIN stack[q], NEW f, f = stack[q][n].event, f # 0
        PROVE  bound'[f] /\ intr'[f] = stack[q][n].intr
    <3>1. f # e /\ f \in Event
      BY <2>0, <2>1 DEF CallOK, Fits
    <3> QED
      BY <2>0, <2>1, <3>1 DEF HandledOK
  <2>2. ASSUME call[q].op \in {"INTR", "COMPLETE"}, NEW f, f = call[q].event, f # 0
        PROVE  bound'[f] /\ intr'[f] = call[q].arg
    <3>1. f # e /\ f \in Event
      BY <2>0, <2>2 DEF CallOK, Fits
    <3> QED
      BY <2>0, <2>2, <3>1 DEF HandledOK
  <2>3. stack'[q] = stack[q] /\ gic' = gic /\ route' = route
    BY DEF cpu, ic
  <2>4. CASE q = p
    <3>1. call'[q].op = "none"
      BY <2>4 DEF Idle, Doing
    <3> QED
      BY <2>0, <2>1, <2>3, <2>4, <3>1 DEF HandledOK
  <2>5. CASE q # p
    <3>1. call'[q] = call[q]
      BY <2>5 DEF OthersAlike
    <3> QED
      BY <2>0, <2>1, <2>2, <2>3, <3>1 DEF HandledOK, Calls
  <2> QED
    BY <2>4, <2>5
<1> QED
  BY <1>1, <1>2, <1>3

(* sdei_interrupt_release of an event that no PE handles.                  *)
LEMMA CarefulRelease ==
  ASSUME CarefulInv, NEW p \in PE, Release(p), ~ ActiveElsewhere(call[p].event)
  PROVE  CarefulInv'
<1>0. /\ SerialInv /\ SerialInv' /\ Types /\ OneEventPerInterrupt /\ OwnerOK
      /\ \A q \in PE : CallOK(q) /\ ActiveOK(q) /\ HandledOK(q) /\ pc[q] # "panic"
      /\ \A f \in Event : MapOK(f)
  BY CarefulParts, ReleaseStep DEF SerialInv
<1>1. PICK e \in Event : e = call[p].event /\ e \in Dynamic \cap About
  BY <1>0 DEF CallOK, Release, Body
<1>2. /\ pc[p] = "locked" /\ call[p].op = "RELEASE" /\ Return(p) /\ regCount[e] = 0 /\ bound[e]
      /\ gic[Line(intr[e], p)].active = 0
      /\ intr' = [intr EXCEPT ![e] = DynIrq]
      /\ bound' = [bound EXCEPT ![e] = FALSE]
      /\ UNCHANGED <<clients, se, regCount, cpu, ic>>
  BY <1>1 DEF Release, Body, MayRelease
<1>3. e # 0
  BY <1>1, ConstantFacts
<1>4. PICK i \in Interrupt : i = intr[e] /\ (IsSpi(i) <=> e \in Shared)
  BY <1>0, <1>2, BoundInterrupt DEF Fits
<1>5. ~ bound'[e] /\ \A f \in Event : f # e => intr'[f] = intr[f] /\ bound'[f] = bound[f]
  BY <1>0, <1>2 DEF Types
<1>6. \A q \in PE : gic[Line(i, q)].active = 0 /\ "registered" \notin se[Entry(e, q)].state
  <2>1. ASSUME NEW q \in PE PROVE gic[Line(i, q)].active = 0
    <3>1. CASE e \in Shared
      BY <1>2, <1>4, <3>1 DEF Line
    <3>2. CASE e \notin Shared
      BY <1>1, <1>4, <3>2 DEF ActiveElsewhere, Event
    <3> QED
      BY <3>1, <3>2
  <2>2. ASSUME NEW q \in PE, "registered" \in se[Entry(e, q)].state PROVE FALSE
    BY <1>0, <1>2, <2>2, RegisteredCounts
  <2> QED
    BY <2>1, <2>2
<1>7. ASSUME NEW q \in PE, call[q].op \in {"INTR", "COMPLETE"} PROVE call[q].event # e
  <2>1. gic[Line(call[q].arg, q)].active = q
    BY <1>0, <1>7 DEF ActiveOK
  <2>2. call[q].event = e => call[q].arg = i
    BY <1>0, <1>3, <1>4, <1>7 DEF HandledOK
  <2> QED
    BY <1>6, <2>1, <2>2, ConstantFacts
<1>8. ASSUME NEW q \in PE, NEW n \in DOMAIN stack[q] PROVE stack[q][n].event # e
  <2>1. gic[Line(stack[q][n].intr, q)].active = q
    BY <1>0, <1>8 DEF ActiveOK
  <2>2. stack[q][n].event = e => stack[q][n].intr = i
    BY <1>0, <1>3, <1>4, <1>8 DEF HandledOK
  <2> QED
    BY <1>6, <2>1, <2>2, ConstantFacts
<1>9. call'[p] = Idle /\ pc'[p] = "ns" /\ OthersAlike(p)
  BY <1>0, <1>2, ReturnFacts DEF cpu
<1>10. RouteOK' /\ EnableOK' /\ \A q \in PE : HandledOK(q)'
  <2>1. call[p].op \notin {"INTR", "COMPLETE"} /\ e \in Dynamic
    BY <1>1, <1>2
  <2> QED
    BY <1>2, <1>5, <1>6, <1>7, <1>8, <1>9, <2>1, MapChanged
<1>11. OneEventPerInterrupt'
  BY <1>0, <1>5 DEF OneEventPerInterrupt
<1>12. OwnerOK'
  <2>1. ASSUME NEW f \in Event \ {0}, NEW q \in PE
        PROVE  IF bound'[f]
               THEN "registered" \in se[Entry(f, q)].state <=> gic[Line(intr'[f], q)].owner = "EL3"
               ELSE "registered" \notin se[Entry(f, q)].state
    <3>1. CASE f = e
      BY <1>5, <1>6, <3>1
    <3>2. CASE f # e
      BY <1>0, <1>5, <3>2 DEF OwnerOK
    <3> QED
      BY <3>1, <3>2
  <2>2. ASSUME NEW j \in Ppi \cup Spi, \A f \in Event : bound'[f] => intr'[f] # j, NEW q \in PE
        PROVE  gic[Line(j, q)].owner = "NS"
    <3>1. CASE j = i
      <4>1. gic[Line(i, q)].owner # "EL3"
        BY <1>0, <1>2, <1>3, <1>4, <1>6 DEF OwnerOK
      <4>2. gic[Line(i, q)] \in LineType
        BY <1>0, OwnTypes
      <4> QED
        BY <3>1, <4>1, <4>2 DEF LineType
    <3>2. CASE j # i
      <4>1. \A f \in Event : bound[f] => intr[f] # j
        BY <1>4, <1>5, <2>2, <3>2
      <4> QED
        BY <1>0, <4>1 DEF OwnerOK
    <3> QED
      BY <3>1, <3>2
  <2>3. gic' = gic /\ se' = se
    BY <1>2 DEF ic
  <2> QED
    BY <2>1, <2>2, <2>3 DEF OwnerOK
<1>13. \A q \in PE : pc'[q] # "panic"
  BY <1>0, <1>9 DEF OthersAlike
<1> QED
  BY <1>0, <1>10, <1>11, <1>12, <1>13 DEF CarefulInv

(* The end of sdei_interrupt_bind: a map that is free is taken.            *)
LEMMA CarefulBindTake ==
  ASSUME CarefulInv, NEW p \in PE, BindTake(p), ~ BoundTwice(call[p].arg)
  PROVE  CarefulInv'
<1>0. /\ SerialInv /\ SerialInv' /\ Types /\ OneEventPerInterrupt /\ OwnerOK
      /\ \A q \in PE : CallOK(q) /\ HandledOK(q) /\ pc[q] # "panic"
  BY CarefulParts, BindTakeStep DEF SerialInv
<1>1. PICK e \in Dynamic, i \in (Ppi \cup Spi) \cap About :
        e = call[p].event /\ i = call[p].arg /\ Fits(e, i)
  BY <1>0 DEF CallOK, BindTake, Body
<1>2. /\ pc[p] = "locked" /\ call[p].op = "BIND" /\ Return(p) /\ ~ bound[e]
      /\ intr' = [intr EXCEPT ![e] = i]
      /\ bound' = [bound EXCEPT ![e] = TRUE]
      /\ UNCHANGED <<clients, se, regCount, cpu, ic>>
  BY <1>1 DEF BindTake, Body
<1>3. e \in Event /\ e # 0 /\ e \in Nat /\ i \in Interrupt
  BY <1>1, ConstantFacts
<1>4. /\ bound'[e] /\ intr'[e] = i
      /\ \A f \in Event : f # e => intr'[f] = intr[f] /\ bound'[f] = bound[f]
  BY <1>0, <1>2, <1>3 DEF Types
<1>5. \A f \in Event : bound[f] => intr[f] # i
  BY <1>1 DEF BoundTwice
<1>6. \A q \in PE : "registered" \notin se[Entry(e, q)].state
  BY <1>2, <1>3, RegisteredIsBound
<1>7. /\ \A q \in PE : call[q].op \in {"INTR", "COMPLETE"} => call[q].event # e
      /\ \A q \in PE : \A n \in DOMAIN stack[q] : stack[q][n].event # e
  BY <1>0, <1>2, <1>3 DEF HandledOK
<1>8. call'[p] = Idle /\ pc'[p] = "ns" /\ OthersAlike(p)
  BY <1>0, <1>2, ReturnFacts DEF cpu
<1>9. RouteOK' /\ EnableOK' /\ \A q \in PE : HandledOK(q)'
  <2>1. call[p].op \notin {"INTR", "COMPLETE"}
    BY <1>2
  <2> QED
    BY <1>2, <1>4, <1>6, <1>7, <1>8, <2>1, MapChanged
<1>10. OneEventPerInterrupt'
  <2>1. ASSUME NEW f \in Event, NEW g \in Event, f # g, bound'[f], bound'[g]
        PROVE  intr'[f] # intr'[g]
    <3>1. CASE f = e
      BY <1>4, <1>5, <2>1, <3>1
    <3>2. CASE g = e
      BY <1>4, <1>5, <2>1, <3>2
    <3>3. CASE f # e /\ g # e
      BY <1>0, <1>4, <2>1, <3>3 DEF OneEventPerInterrupt
    <3> QED
      BY <3>1, <3>2, <3>3
  <2> QED
    BY <2>1 DEF OneEventPerInterrupt
<1>11. OwnerOK'
  <2>1. ASSUME NEW f \in Event \ {0}, NEW q \in PE
        PROVE  IF bound'[f]
               THEN "registered" \in se[Entry(f, q)].state <=> gic[Line(intr'[f], q)].owner = "EL3"
               ELSE "registered" \notin se[Entry(f, q)].state
    <3>1. CASE f = e
      <4>1. gic[Line(i, q)].owner = "NS"
        BY <1>0, <1>1, <1>5 DEF OwnerOK
      <4> QED
        BY <1>4, <1>6, <3>1, <4>1
    <3>2. CASE f # e
      BY <1>0, <1>4, <3>2 DEF OwnerOK
    <3> QED
      BY <3>1, <3>2
  <2>2. ASSUME NEW j \in Ppi \cup Spi, \A f \in Event : bound'[f] => intr'[f] # j, NEW q \in PE
        PROVE  gic[Line(j, q)].owner = "NS"
    <3>1. \A f \in Event : bound[f] => intr[f] # j
      BY <1>2, <1>4, <2>2
    <3> QED
      BY <1>0, <3>1 DEF OwnerOK
  <2>3. gic' = gic /\ se' = se
    BY <1>2 DEF ic
  <2> QED
    BY <2>1, <2>2, <2>3 DEF OwnerOK
<1>12. \A q \in PE : pc'[q] # "panic"
  BY <1>0, <1>8 DEF OthersAlike
<1> QED
  BY <1>0, <1>9, <1>10, <1>11, <1>12 DEF CarefulInv

-----------------------------------------------------------------------------
(* Steps that are not calls *)

(* sdei_cpu_on_init: what PE p had registered is forgotten, and so are its *)
(* interrupts.                                                             *)
LEMMA CarefulCpuOn ==
  ASSUME CarefulInv, NEW p \in PE, CpuOn(p)
  PROVE  CarefulInv'
<1>0. /\ SerialInv /\ SerialInv' /\ Types /\ OneEventPerInterrupt /\ OwnerOK /\ RouteOK
      /\ CallOK(p) /\ HandledOK(p) /\ pc[p] # "panic"
      /\ \A f \in Event : MapOK(f)
  BY CarefulParts, CpuOnStep DEF SerialInv
<1>1. /\ pc[p] = "ns" /\ call[p] = Idle
      /\ se' = [k \in Entries |-> IF k[2] = p THEN Unregistered ELSE se[k]]
      /\ masked' = [masked EXCEPT ![p] = TRUE]
      /\ gic' = [k \in Lines |-> IF k[2] = p /\ k[1] # 0 THEN Unused ELSE gic[k]]
      /\ UNCHANGED <<clients, maps, lock, pendingEnables, stack, route, pc, call, old>>
  BY <1>0 DEF CpuOn, CallOK
<1>2. /\ Unregistered.state = {} /\ Unused.active = 0 /\ Unused.owner = "NS"
  BY DEF Unregistered, Unused
<1>3. ASSUME NEW f \in Event, NEW q \in PE
      PROVE  /\ f \notin Shared /\ q = p => se'[Entry(f, q)].state = {}
             /\ f \in Shared \/ q # p => se'[Entry(f, q)] = se[Entry(f, q)]
  BY <1>1, <1>2, EntryFacts, ConstantFacts
<1>4. ASSUME NEW i \in Interrupt, i # 0, NEW q \in PE
      PROVE  /\ ~ IsSpi(i) /\ q = p => gic'[Line(i, q)] = Unused
             /\ IsSpi(i) \/ q # p => gic'[Line(i, q)] = gic[Line(i, q)]
  BY <1>1, <1>4, LineFacts, ConstantFacts
<1>5. ASSUME NEW f \in Event, f # 0, bound[f]
      PROVE  intr[f] \in Interrupt /\ intr[f] # 0 /\ (IsSpi(intr[f]) <=> f \in Shared)
  <2>1. intr[f] \in Interrupt /\ Fits(f, intr[f])
    BY <1>0, <1>5, BoundInterrupt
  <2> QED
    BY <1>5, <2>1, ConstantFacts DEF Fits, Interrupt
<1>6. OthersAlike(p) /\ intr' = intr /\ bound' = bound /\ Calls' = Calls
  BY <1>1 DEF OthersAlike, maps, Calls
<1>7. OneEventPerInterrupt'
  BY <1>0, <1>6 DEF OneEventPerInterrupt
<1>8. OwnerOK'
  <2>1. ASSUME NEW f \in Event \ {0}, NEW q \in PE
        PROVE  IF bound[f]
               THEN "registered" \in se'[Entry(f, q)].state <=> gic'[Line(intr[f], q)].owner = "EL3"
               ELSE "registered" \notin se'[Entry(f, q)].state
    <3>1. CASE f \notin Shared /\ q = p
      <4>1. "registered" \notin se'[Entry(f, q)].state
        BY <1>3, <3>1
      <4>2. bound[f] => gic'[Line(intr[f], q)].owner # "EL3"
        BY <1>2, <1>4, <1>5, <3>1
      <4> QED
        BY <4>1, <4>2
    <3>2. CASE f \in Shared \/ q # p
      <4>1. se'[Entry(f, q)] = se[Entry(f, q)]
        BY <1>3, <3>2
      <4>2. bound[f] => gic'[Line(intr[f], q)] = gic[Line(intr[f], q)]
        BY <1>4, <1>5, <3>2
      <4> QED
        BY <1>0, <4>1, <4>2 DEF OwnerOK
    <3> QED
      BY <3>1, <3>2
  <2>2. ASSUME NEW j \in Ppi \cup Spi, \A f \in Event : bound[f] => intr[f] # j, NEW q \in PE
        PROVE  gic'[Line(j, q)].owner = "NS"
    <3>1. j \in Interrupt /\ j # 0
      BY ConstantFacts
    <3> QED
      BY <1>0, <1>2, <1>4, <2>2, <3>1 DEF OwnerOK
  <2> QED
    BY <1>6, <2>1, <2>2 DEF OwnerOK
<1>9. RouteOK'
  <2>1. \A f \in Shared, q \in PE : se'[Entry(f, q)] = se[Entry(f, q)]
    BY <1>3, ConstantFacts
  <2>2. route' = route
    BY <1>1
  <2> QED
    BY <1>0, <1>6, <2>1, <2>2 DEF RouteOK
<1>10. EnableOK'
  <2> SUFFICES ASSUME NEW f \in Event, NEW q \in PE PROVE EnabledOK(f, q)'
    BY DEF EnableOK
  <2>1. CASE f \notin Shared /\ q = p
    BY <1>3, <2>1 DEF EnabledOK
  <2>2. CASE f \in Shared \/ q # p
    <3>1. \A t \in PE, g \in Event : WillEnable(t, g) => WillEnable(t, g)'
      BY <1>0, <1>1 DEF WillEnable, Types
    <3>2. se'[Entry(f, q)] = se[Entry(f, q)]
      BY <1>3, <2>2
    <3>3. bound[f] => gic'[Line(intr[f], q)] = gic[Line(intr[f], q)]
      <4>1. bound[f] => f # 0
        BY <1>0, ConstantFacts DEF MapOK
      <4> QED
        BY <1>4, <1>5, <2>2, <4>1
    <3> QED
      BY <1>1, <1>6, <3>1, <3>2, <3>3, EnabledKept
  <2> QED
    BY <2>1, <2>2
<1>11. ActiveElsewhereKept(p)
  <2> SUFFICES ASSUME NEW i \in Interrupt, NEW q \in PE \ {p}
               PROVE  gic'[Line(i, q)].active = gic[Line(i, q)].active
    BY DEF ActiveElsewhereKept
  <2>1. Line(i, q) \in Lines /\ Line(i, q)[2] # p
    BY LineFacts, ConstantFacts
  <2> QED
    BY <1>1, <2>1
<1>12. \A q \in PE \ {p} : HandledOK(q)' /\ pc'[q] # "panic"
  <2>1. \A f \in Shared, q \in PE : se'[Entry(f, q)] = se[Entry(f, q)]
    BY <1>3, ConstantFacts
  <2> QED
    BY <1>1, <1>6, <1>11, <2>1, OthersHandled
<1>13. HandledOK(p)' /\ pc'[p] # "panic"
  <2>1. ASSUME NEW i \in Interrupt \ {0}, gic'[Line(i, p)].active = p
        PROVE  gic[Line(i, p)].active = p
    BY <1>2, <1>4, <2>1, ConstantFacts
  <2>2. call[p].op = "none" /\ call'[p] = Idle /\ stack'[p] = stack[p] /\ pc'[p] = "ns"
    BY <1>1 DEF Idle, Doing
  <2>3. HandledOK(p)'
    BY <1>6, <2>1, <2>2, HandledReturn
  <2> QED
    BY <2>2, <2>3
<1> QED
  BY <1>0, <1>7, <1>8, <1>9, <1>10, <1>12, <1>13 DEF CarefulInv

(* sdei_signal, and a device that raises an interrupt.                     *)
LEMMA CarefulPending ==
  ASSUME CarefulInv, NEW k \in Lines, NEW b \in BOOLEAN, gic' = [gic EXCEPT ![k].pending = b],
         UNCHANGED <<clients, se, maps, lock, cpu, route, pc, call, old>>
  PROVE  CarefulInv'
<1>0. SerialInv /\ SerialInv' /\ Types
  BY CarefulParts, PendingStep
<1>1. PICK p \in PE : TRUE
  BY SizeAssumption DEF PE
<1>2. /\ \A l \in Lines : gic'[l].active = gic[l].active /\ gic'[l].owner = gic[l].owner
      /\ \A l \in Lines : gic[l].enabled => gic'[l].enabled
  BY <1>0 DEF Types, LineType
<1>3. OthersAlike(p) /\ EntriesKept
  BY DEF OthersAlike, EntriesKept, cpu
<1>4. ActiveElsewhereKept(p) /\ \A i \in Interrupt : gic'[Line(i, p)].active = gic[Line(i, p)].active
  BY <1>2, ActiveAsBefore
<1>5. EnableOK'
  <2>1. \A t \in PE, e \in Event : WillEnable(t, e) => WillEnable(t, e)'
    BY DEF WillEnable, cpu
  <2> QED
    BY <1>2, <1>3, <2>1, EnableKept
<1>6. HandledOK(p)' /\ pc'[p] # "panic"
  <2>1. HandledOK(p) /\ pc[p] # "panic"
    BY CarefulParts
  <2>2. HandledOK(p)'
    BY <1>4, <2>1 DEF HandledOK, maps, cpu, Calls
  <2> QED
    BY <2>1, <2>2
<1> QED
  BY <1>0, <1>2, <1>3, <1>4, <1>5, <1>6, CarefulQuiet

LEMMA CarefulStutter ==
  ASSUME CarefulInv, UNCHANGED vars
  PROVE  CarefulInv'
<1>0. SerialInv'
  BY CarefulParts, StutterSerial
<1>1. UNCHANGED <<clients, se, intr, bound, regCount, lock, masked, pendingEnables, stack, gic, route, pc, call, old>>
  BY DEF vars, maps, cpu, ic
<1>2. PICK p \in PE : TRUE
  BY SizeAssumption DEF PE
<1>3. OthersAlike(p) /\ \A t \in PE, e \in Event : WillEnable(t, e) => WillEnable(t, e)'
  BY <1>1 DEF OthersAlike, WillEnable
<1>4. pc'[p] # "panic"
  BY <1>1, CarefulParts
<1> QED
  BY <1>0, <1>1, <1>3, <1>4, CarefulStill DEF maps, ic

LEMMA CarefulInit == Init => CarefulInv
<1> SUFFICES ASSUME Init PROVE CarefulInv
  OBVIOUS
<1>0. SerialInv
  BY InitSerial
<1>1. /\ \A k \in Entries : se[k].state = {}
      /\ \A k \in Lines : gic[k].active = 0 /\ (k[1] # 0 => gic[k].owner = "NS")
  BY DEF Init, Unregistered, Unused
<1>2. \A e \in Event, p \in PE : se[Entry(e, p)].state = {}
  BY <1>1, EntryFacts
<1>3. \A i \in Interrupt, p \in PE : gic[Line(i, p)].active = 0 /\ (i # 0 => gic[Line(i, p)].owner = "NS")
  BY <1>1, LineFacts
<1>4. \A e \in Event : bound[e] => e \in Static /\ e # 0 /\ intr[e] = e
  BY DEF Init
<1>5. OneEventPerInterrupt
  BY <1>4, ConstantFacts DEF OneEventPerInterrupt
<1>6. OwnerOK
  BY <1>2, <1>3, <1>4, ConstantFacts DEF OwnerOK
<1>7. RouteOK /\ EnableOK
  BY <1>2, ConstantFacts DEF RouteOK, EnableOK, EnabledOK
<1>8. ASSUME NEW p \in PE PROVE HandledOK(p) /\ pc[p] # "panic"
  <2>1. pc[p] = "ns" /\ call[p].op = "none" /\ stack[p] = << >>
    BY DEF Init, Idle, Doing
  <2>2. \A i \in Interrupt : gic[Line(i, p)].active # p
    BY <1>3, ConstantFacts
  <2> QED
    BY <2>1, <2>2 DEF HandledOK
<1> QED
  BY <1>0, <1>5, <1>6, <1>7, <1>8 DEF CarefulInv

-----------------------------------------------------------------------------
(* Preemption *)

(* A PE acknowledges an interrupt when it preempts all that are active;    *)
(* while it handles it nothing else changes its dispatches.                *)
LEMMA PreemptKept ==
  ASSUME PreemptInv,
         \A q \in PE : call'[q].op = "INTR" => call[q].op = "INTR" /\ stack'[q] = stack[q]
  PROVE  PreemptInv'
BY DEF PreemptInv

(* A step after which the PE does something else than handle an interrupt. *)
LEMMA PreemptReturn ==
  ASSUME PreemptInv, SerialInv, NEW p \in PE, NEW c, c.op # "INTR", call' = [call EXCEPT ![p] = c],
         \A q \in PE \ {p} : stack'[q] = stack[q]
  PROVE  PreemptInv'
<1>1. call'[p] = c /\ \A q \in PE \ {p} : call'[q] = call[q]
  BY DEF SerialInv, Types
<1> QED
  BY <1>1, PreemptKept

LEMMA PreemptDispatcher ==
  ASSUME PreemptInv, SerialInv, NEW p \in PE, Step(p)
  PROVE  PreemptInv'
<1>0. Types /\ CallOK(p) /\ Idle.op = "none"
  BY DEF SerialInv, Idle, Doing
<1>1. CASE call' = [call EXCEPT ![p] = Idle] /\ stack' = stack
  BY <1>0, <1>1, PreemptReturn
<1>2. CASE UNCHANGED <<call, stack>>
  BY <1>2, PreemptKept
<1>3. CASE \/ Deny(p) \/ Register(p) \/ Unregister(p) \/ RoutingSet(p) \/ Release(p)
           \/ Switch(p, "ENABLE", TRUE) \/ Switch(p, "DISABLE", FALSE) \/ BindTake(p)
           \/ Unmasked(p) \/ MaskedTrigger(p) \/ NotDispatched(p)
  <2>1. call' = [call EXCEPT ![p] = Idle] /\ stack' = stack
    BY <1>3 DEF Deny, Denied, Register, Unregister, RoutingSet, Release, Switch, BindTake,
                Unmasked, MaskedTrigger, NotDispatched, Return, cpu
  <2> QED
    BY <1>1, <2>1
<1>4. CASE BindRetry(p) \/ UnmaskShared(p) \/ Dispatch(p) \/ AssertFails(p)
  <2>1. UNCHANGED <<call, stack>>
    BY <1>4 DEF BindRetry, UnmaskShared, Dispatch, AssertFails, cpu
  <2> QED
    BY <1>2, <2>1
<1>5. CASE Completed(p)
  <2>1. \/ call' = [call EXCEPT ![p] = Idle] /\ stack' = stack
        \/ UNCHANGED <<call, stack>>
    BY <1>5 DEF Completed, Return, cpu
  <2> QED
    BY <1>1, <1>2, <2>1
<1>6. CASE Push(p)
  <2>1. call' = [call EXCEPT ![p] = Idle] /\ \A q \in PE \ {p} : stack'[q] = stack[q]
    BY <1>0, <1>6 DEF Push, Types
  <2> QED
    BY <1>0, <2>1, PreemptReturn
<1>7. CASE CompleteState(p)
  <2>1. call[p].op = "COMPLETE"
    BY <1>0, <1>7 DEF CompleteState, CallOK
  <2>2. \A q \in PE \ {p} : stack'[q] = stack[q]
    BY <1>0, <1>7 DEF CompleteState, Types
  <2>3. call' = call \/ call' = [call EXCEPT ![p] = Idle]
    BY <1>7 DEF CompleteState, Return
  <2>4. CASE call' = call
    BY <2>1, <2>2, <2>4, PreemptKept
  <2>5. CASE call' = [call EXCEPT ![p] = Idle]
    BY <1>0, <2>2, <2>5, PreemptReturn
  <2> QED
    BY <2>3, <2>4, <2>5
<1>8. CASE BindSearch(p) \/ BindFree(p) \/ BindOwner(p) \/ UnmaskNext(p)
  <2>1. call[p].op # "INTR" /\ stack' = stack
    BY <1>0, <1>8 DEF BindSearch, BindFree, BindOwner, UnmaskNext, CallOK, cpu
  <2>2. call[p] \in CallType
    BY <1>0 DEF Types
  <2>3. call'[p].op # "INTR" /\ \A q \in PE \ {p} : call'[q] = call[q]
    <3>1. CASE BindSearch(p) \/ BindFree(p) \/ BindOwner(p)
      <4>1. \/ call' = [call EXCEPT ![p] = Idle] \/ call' = call
            \/ \E e : call' = [call EXCEPT ![p].event = e]
        BY <3>1 DEF BindSearch, BindFree, BindOwner, BindReturn
      <4> QED
        BY <1>0, <2>1, <2>2, <4>1 DEF Types, CallType
    <3>2. CASE UnmaskNext(p)
      BY <1>0, <2>1, <2>2, <3>2 DEF UnmaskNext, Types, CallType
    <3> QED
      BY <1>8, <3>1, <3>2
  <2> QED
    BY <2>1, <2>3, PreemptKept
<1> QED
  BY <1>3, <1>4, <1>5, <1>6, <1>7, <1>8, Zenon DEF Step

LEMMA PreemptAcknowledge ==
  ASSUME PreemptInv, SerialInv, NEW p \in PE, NEW i \in Interrupt, Acknowledge(p, i)
  PROVE  PreemptInv'
<1>0. Types /\ CallOK(p) /\ ActiveOK(p)
  BY DEF SerialInv
<1>1. stack' = stack /\ \A q \in PE \ {p} : call'[q] = call[q]
  BY <1>0 DEF Acknowledge, Types, cpu
<1>2. ASSUME NEW n \in DOMAIN stack[p] PROVE stack[p][n].intr \notin Critical
  <2>1. stack[p][n].intr \in Interrupt
    BY <1>0 DEF CallOK, Fits
  <2>2. gic[Line(stack[p][n].intr, p)].active = p
    BY <1>0 DEF ActiveOK
  <2> QED
    BY <2>1, <2>2 DEF Acknowledge, Signalled, Preempts
<1> QED
  BY <1>1, <1>2 DEF PreemptInv

LEMMA PreemptNext ==
  ASSUME PreemptInv, SerialInv, [Next]_vars
  PROVE  PreemptInv'
<1>1. CASE UNCHANGED <<call, stack>>
  BY <1>1, PreemptKept
<1>2. CASE UNCHANGED vars
  BY <1>1, <1>2 DEF vars, cpu
<1>3. ASSUME NEW p \in clients.pes,
             \/ Call(p) \/ \E i \in (Ppi \cup Spi) \cap About : Bind(p, i)
             \/ \E t \in PE : Signal(p, t)
             \/ Mask(p) \/ Unmask(p) \/ CpuOn(p)
      PROVE  PreemptInv'
  <2>0. p \in PE
    BY ClientAssumption DEF SerialInv, Types
  <2>1. CASE Call(p)
    <3>1. PICK op \in StateCalls, e \in Event, r \in PE \cup {0} : Begin(p, op, e, r)
      BY <2>0, <2>1, Zenon DEF Call, StateCalls
    <3>2. call' = [call EXCEPT ![p] = Doing(op, e, r)] /\ stack' = stack
      BY <3>1 DEF Begin, cpu
    <3>3. Doing(op, e, r).op # "INTR"
      BY DEF Doing, StateCalls
    <3> QED
      BY <2>0, <3>2, <3>3, PreemptReturn
  <2>2. ASSUME NEW i, Bind(p, i) PROVE PreemptInv'
    <3>1. call' = [call EXCEPT ![p] = Doing("BIND", 0, i)] /\ stack' = stack
      BY <2>2 DEF Bind, cpu
    <3>2. Doing("BIND", 0, i).op # "INTR"
      BY DEF Doing
    <3> QED
      BY <2>0, <3>1, <3>2, PreemptReturn
  <2>3. CASE Unmask(p)
    <3> DEFINE c == [op |-> "UNMASK", event |-> 0, arg |-> 0,
                     todo |-> IF pendingEnables[p] THEN Shared ELSE {}]
    <3>1. c.op # "INTR"
      OBVIOUS
    <3>2. call' = [call EXCEPT ![p] = c] /\ stack' = stack
      BY <2>3 DEF Unmask, cpu
    <3> HIDE DEF c
    <3> QED
      BY <2>0, <3>1, <3>2, PreemptReturn
  <2>4. CASE (\E t \in PE : Signal(p, t)) \/ Mask(p) \/ CpuOn(p)
    <3>1. UNCHANGED <<call, stack>>
      BY <2>4 DEF Signal, Mask, CpuOn, cpu
    <3> QED
      BY <1>1, <3>1
  <2> QED
    BY <1>3, <2>1, <2>2, <2>3, <2>4
<1>4. ASSUME NEW p \in PE,
             \/ Complete(p)
             \/ \E i \in Interrupt : Acknowledge(p, i)
             \/ Lock(p) \/ Step(p) \/ Panicked(p)
      PROVE  PreemptInv'
  <2>1. CASE Complete(p)
    <3>1. PICK e, i : call' = [call EXCEPT ![p] = Doing("COMPLETE", e, i)] /\ stack' = stack
      BY <2>1 DEF Complete, cpu
    <3>2. Doing("COMPLETE", e, i).op # "INTR"
      BY DEF Doing
    <3> QED
      BY <3>1, <3>2, PreemptReturn
  <2>2. CASE Lock(p)
    BY <1>1, <2>2 DEF Lock, cpu
  <2> QED
    BY <1>2, <1>4, <2>1, <2>2, PreemptAcknowledge, PreemptDispatcher DEF Panicked
<1>5. ASSUME NEW k \in Lines, Trigger(k) PROVE PreemptInv'
  BY <1>1, <1>5 DEF Trigger, cpu
<1> QED
  BY <1>2, <1>3, <1>4, <1>5 DEF Next

LEMMA PreemptInvariant == Spec => []("complete" \notin raced => PreemptInv)
<1>1. Init => PreemptInv
  BY DEF Init, PreemptInv, Idle, Doing
<1>2. /\ "complete" \notin raced => SerialInv
      /\ "complete" \notin raced => PreemptInv
      /\ [Next]_vars
      => ("complete" \notin raced => PreemptInv)'
  BY PreemptNext, RacedGrows
<1> QED
  BY <1>1, <1>2, SerialInvariant, PTL DEF Spec

-----------------------------------------------------------------------------
(* The assertions *)

(* A shared event is counted once if its entry is registered.              *)
LEMMA SharedCount ==
  ASSUME SerialInv, NEW e \in Shared, NEW p \in PE
  PROVE  regCount[e] = IF "registered" \in se[Entry(e, p)].state THEN 1 ELSE 0
<1>1. e \in Event /\ CountOK(e)
  BY ConstantFacts DEF SerialInv
<1>2. ASSUME NEW k \in Entries PROVE k[1] = e <=> k = Entry(e, p)
  <2>1. PICK f \in Event, q \in PE : k = Entry(f, q)
    BY DEF Entries
  <2>2. k[1] = f /\ Entry(e, p)[1] = e
    BY <2>1 DEF Entry
  <2>3. Entry(e, q) = Entry(e, p)
    BY DEF Entry
  <2> QED
    BY <2>1, <2>2, <2>3
<1>3. Entry(e, p) \in Entries
  BY <1>1, EntryFacts
<1>4. RegisteredEntries(e) = IF "registered" \in se[Entry(e, p)].state THEN {Entry(e, p)} ELSE {}
  BY <1>2, <1>3 DEF RegisteredEntries
<1>5. regCount[e] = Cardinality(RegisteredEntries(e))
  BY <1>1 DEF CountOK
<1> QED
  BY <1>4, <1>5, FS_EmptySet, FS_Singleton

(* A PE that handles an interrupt has preempted those on its stack.        *)
LEMMA NestingAsserted ==
  ASSUME SerialInv, PreemptInv, NEW p \in PE, pc[p] = "locked", call[p].op = "INTR", stack[p] # << >>
  PROVE  call[p].event \in Critical /\ Top(p).event \notin Critical
<1>0. Types /\ CallOK(p) /\ StackOK(p) /\ ActiveOK(p)
  BY DEF SerialInv
<1>1. PICK n : n = Len(stack[p]) /\ n \in DOMAIN stack[p]
  <2>1. stack[p] \in Seq([event : Event, intr : Interrupt])
    BY <1>0 DEF Types
  <2> QED
    BY <2>1
<1>2. PICK i, j \in Interrupt : i = call[p].arg /\ j = stack[p][n].intr
  BY <1>0, <1>1 DEF CallOK, Fits
<1>3. /\ gic[Line(i, p)].active = p /\ gic[Line(j, p)].active = p /\ i # j
      /\ Fits(call[p].event, i) /\ Fits(stack[p][n].event, j)
  BY <1>0, <1>1, <1>2 DEF ActiveOK, StackOK, CallOK
<1>4. j \notin Critical
  BY <1>1, <1>2 DEF PreemptInv
<1>5. i \in Critical
  BY <1>0, <1>3, <1>4 DEF ActiveOK
<1>6. Critical \subseteq Static
  BY ConstantFacts
<1> QED
  BY <1>1, <1>3, <1>4, <1>5, <1>6 DEF Fits, Top

LEMMA AssertionsHold ==
  ASSUME CarefulInv, PreemptInv, NEW p \in PE, pc[p] = "locked"
  PROVE  Asserts(p)
<1>0. SerialInv /\ Types /\ CallOK(p) /\ OldOK(p) /\ OwnerOK
  BY CarefulParts DEF SerialInv
<1>1. PICK e \in Event : e = call[p].event
  BY <1>0 DEF CallOK
<1>2. regCount[e] \in Nat
  BY <1>0 DEF Types
<1>3. call[p].op \in StateCalls => old[p] = se[Entry(e, p)].state
  BY <1>0, <1>1 DEF OldOK
<1>4. ASSUME call[p].op = "REGISTER", Allowed(old[p], "REGISTER"), e \in Shared
      PROVE  regCount[e] = 0
  <2>1. se[Entry(e, p)].state = {}
    BY <1>3, <1>4 DEF Allowed, StateCalls
  <2> QED
    BY <1>0, <1>4, <2>1, SharedCount
<1>5. ASSUME call[p].op = "UNREGISTER", Allowed(old[p], "UNREGISTER")
      PROVE  /\ regCount[e] >= 1 /\ (e \in Shared => regCount[e] = 1)
             /\ bound[e] => gic[Line(intr[e], p)].owner = "EL3"
  <2>1. "registered" \in se[Entry(e, p)].state
    BY <1>3, <1>5 DEF Allowed, StateCalls
  <2>2. regCount[e] # 0
    BY <1>0, <2>1, RegisteredCounts
  <2>3. e \in Shared => regCount[e] = 1
    BY <1>0, <2>1, SharedCount
  <2>4. bound[e] => e # 0
    BY <1>0, ConstantFacts DEF SerialInv, MapOK
  <2>5. bound[e] => gic[Line(intr[e], p)].owner = "EL3"
    BY <1>0, <2>1, <2>4 DEF OwnerOK
  <2> QED
    BY <1>2, <2>2, <2>3, <2>5
<1>6. call[p].op = "INTR" /\ stack[p] # << >> => e \in Critical /\ Top(p).event \notin Critical
  BY <1>0, <1>1, NestingAsserted
<1> QED
  BY <1>1, <1>4, <1>5, <1>6 DEF Asserts

-----------------------------------------------------------------------------
(* The invariant *)

LEMMA CarefulDispatcher ==
  ASSUME CarefulInv, PreemptInv, NEW p \in PE, Step(p), raced' = {}
  PROVE  CarefulInv'
<1>1. CASE Switch(p, "ENABLE", TRUE)
  BY <1>1, CarefulSwitch
<1>2. CASE Switch(p, "DISABLE", FALSE)
  BY <1>2, CarefulSwitch
<1>3. CASE BindSearch(p) \/ BindFree(p) \/ BindOwner(p)
  BY <1>3, CarefulBindFinds
<1>4. CASE CompleteState(p)
  <2>1. ~ Collides(p)
    BY <1>4 DEF CompleteState
  <2> QED
    BY <1>4, <2>1, CarefulCompleteState
<1>5. CASE Release(p)
  <2>1. ~ ActiveElsewhere(call[p].event)
    BY <1>5 DEF Release
  <2> QED
    BY <1>5, <2>1, CarefulRelease
<1>6. CASE BindTake(p)
  <2>1. ~ BoundTwice(call[p].arg)
    BY <1>6 DEF BindTake
  <2> QED
    BY <1>6, <2>1, CarefulBindTake
<1>7. ~ AssertFails(p)
  BY AssertionsHold DEF AssertFails
<1> QED
  BY <1>1, <1>2, <1>3, <1>4, <1>5, <1>6, <1>7, CarefulDeny, CarefulRegister, CarefulUnregister,
     CarefulRoutingSet, CarefulBindRetry, CarefulUnmaskNext, CarefulUnmaskShared,
     CarefulUnmasked, CarefulMaskedTrigger, CarefulNotDispatched, CarefulDispatch, CarefulPush,
     CarefulCompleted, Zenon
     DEF Step

LEMMA CarefulNext ==
  ASSUME CarefulInv, PreemptInv, [Next]_vars, raced' = {}
  PROVE  CarefulInv'
<1>1. CASE UNCHANGED vars
  BY <1>1, CarefulStutter
<1>2. ASSUME NEW p \in clients.pes,
             \/ Call(p) \/ \E i \in (Ppi \cup Spi) \cap About : Bind(p, i)
             \/ \E t \in PE : Signal(p, t)
             \/ Mask(p) \/ Unmask(p) \/ CpuOn(p)
      PROVE  CarefulInv'
  <2>1. p \in PE
    BY CarefulParts, ClientAssumption DEF Types
  <2>2. ASSUME NEW t \in PE, Signal(p, t) PROVE CarefulInv'
    <3>1. Line(0, t) \in Lines
      BY <2>2, LineFacts, ConstantFacts DEF Signal
    <3> QED
      BY <2>2, <3>1, CarefulPending DEF Signal
  <2> QED
    BY <1>2, <2>1, <2>2, CarefulCall, CarefulBind, CarefulMask, CarefulUnmask, CarefulCpuOn
<1>3. ASSUME NEW p \in PE,
             \/ Complete(p)
             \/ \E i \in Interrupt : Acknowledge(p, i)
             \/ Lock(p) \/ Step(p) \/ Panicked(p)
      PROVE  CarefulInv'
  BY <1>1, <1>3, CarefulComplete, CarefulAcknowledge, CarefulLock, CarefulDispatcher DEF Panicked
<1>4. ASSUME NEW k \in Lines, Trigger(k) PROVE CarefulInv'
  BY <1>4, CarefulPending DEF Trigger
<1> QED
  BY <1>1, <1>2, <1>3, <1>4 DEF Next

(* As long as nothing has gone wrong the maps, the entries, the interrupt  *)
(* controller and the dispatches agree, whatever the clients call on       *)
(* whichever PEs.                                                          *)
THEOREM CarefulInvariant == Spec => [](raced = {} => CarefulInv)
<1>1. Init => CarefulInv
  BY CarefulInit
<1>2. /\ "complete" \notin raced => PreemptInv
      /\ raced = {} => CarefulInv
      /\ [Next]_vars
      => (raced = {} => CarefulInv)'
  BY CarefulNext, RacedGrows
<1> QED
  BY <1>1, <1>2, PreemptInvariant, PTL DEF Spec

-----------------------------------------------------------------------------
(* The properties                                                          *)

LEMMA CarefulRegistration ==
  ASSUME CarefulInv
  PROVE  RegistrationAgrees
<1>0. OwnerOK /\ RouteOK /\ \A e \in Event : CountOK(e)
  BY CarefulParts DEF SerialInv
<1> SUFFICES ASSUME NEW e \in Event
             PROVE  /\ e # 0 /\ bound[e] => \A p \in PE :
                         LET entry == se[Entry(e, p)] IN
                         /\ "registered" \in entry.state <=> gic[Line(intr[e], p)].owner = "EL3"
                         /\ e \in Shared /\ "registered" \in entry.state =>
                              (entry.flags = "ANY" <=> route[intr[e]] = 0)
                    /\ "CPU_ON" \notin Calls =>
                         regCount[e] = Cardinality({k \in Entries : k[1] = e /\ "registered" \in se[k].state})
  BY DEF RegistrationAgrees
<1>1. ASSUME e # 0, bound[e], NEW p \in PE
      PROVE  /\ "registered" \in se[Entry(e, p)].state <=> gic[Line(intr[e], p)].owner = "EL3"
             /\ e \in Shared /\ "registered" \in se[Entry(e, p)].state =>
                  (se[Entry(e, p)].flags = "ANY" <=> route[intr[e]] = 0)
  BY <1>0, <1>1 DEF OwnerOK, RouteOK
<1>2. "CPU_ON" \notin Calls =>
        regCount[e] = Cardinality({k \in Entries : k[1] = e /\ "registered" \in se[k].state})
  BY <1>0 DEF CountOK, RegisteredEntries
<1> QED
  BY <1>1, <1>2

LEMMA CarefulEnabled ==
  ASSUME CarefulInv
  PROVE  NoEventForgotten
<1> SUFFICES ASSUME "ROUTING" \notin Calls, NEW e \in Event \ {0}, NEW p \in PE,
                    NEW a, a = se[Entry(e, p)].aff, "enabled" \in se[Entry(e, p)].state
             PROVE  LET target == IF e \in Private THEN p ELSE a IN
                    \/ gic[Line(intr[e], p)].enabled
                    \/ /\ e \in Private \/ se[Entry(e, p)].flags = "PE"
                       /\ masked[target] /\ pendingEnables[target]
  BY DEF NoEventForgotten
<1>1. \/ gic[Line(intr[e], p)].enabled
      \/ e \in Private /\ WillEnable(p, e)
      \/ e \in Shared /\ se[Entry(e, p)].flags = "PE" /\ WillEnable(a, e)
  BY CarefulParts DEF EnableOK, EnabledOK
<1> QED
  BY <1>1, ConstantFacts DEF WillEnable

LEMMA CarefulHandled ==
  ASSUME CarefulInv
  PROVE  ActiveIsHandled
<1>1. \A p \in PE : HandledOK(p)
  BY CarefulParts
<1> QED
  BY <1>1 DEF HandledOK, ActiveIsHandled

(* While nobody holds the lock of an event, its interrupt belongs to EL3   *)
(* exactly if a handler is registered and is routed as the entry says, and *)
(* the map counts the entries that are registered (sdei_event_register,    *)
(* sdei_event_unregister), as long as no completion has collided with a    *)
(* call, no interrupt was bound twice and no private event was released    *)
(* while another PE handled it.                                            *)
THEOREM RegistrationAlwaysAgrees == Spec => []RegistrationAgrees
<1>1. (raced = {} => CarefulInv) => RegistrationAgrees
  BY CarefulRegistration DEF RegistrationAgrees
<1> QED
  BY <1>1, CarefulInvariant, PTL

(* The interrupt of an event that is enabled is enabled too, or its PE has *)
(* masked events and will enable it (handle_masked_trigger and             *)
(* sdei_pe_unmask), on the same conditions.                                *)
THEOREM NoEventEverForgotten == Spec => []NoEventForgotten
<1>1. (raced = {} => CarefulInv) => NoEventForgotten
  BY CarefulEnabled DEF NoEventForgotten
<1> QED
  BY <1>1, CarefulInvariant, PTL

(* An interrupt is active only while its event is handled, and the event   *)
(* stays bound to it until it is ended (sdei_intr_handler and              *)
(* sdei_event_complete), on the same conditions.                           *)
THEOREM ActiveIsAlwaysHandled == Spec => []ActiveIsHandled
<1>1. (raced = {} => CarefulInv) => ActiveIsHandled
  BY CarefulHandled DEF ActiveIsHandled
<1> QED
  BY <1>1, CarefulInvariant, PTL

(* No PE panics, and the assertions on counts, on owners and on nested     *)
(* dispatches hold (sdei_event_register, sdei_event_unregister and         *)
(* sdei_intr_handler), on the same conditions.                             *)
THEOREM NeverPanics == Spec => []NoPanic
<1>1. (raced = {} => CarefulInv) => NoPanic
  BY CarefulParts DEF NoPanic
<1> QED
  BY <1>1, CarefulInvariant, PTL
=============================================================================
