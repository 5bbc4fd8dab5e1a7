----------------------------- MODULE Psci_proofs ----------------------------
(***************************************************************************)
(* Proofs about Psci, for every number of CPUs, every tree of power        *)
(* domains and every set of power states, in two parts.  CoordInv: the     *)
(* power domains of a CPU that runs are on.  OnInv: CPU_ON and the boot of *)
(* its target agree; with it IInv is an invariant, and with that           *)
(* SettledInv: a domain nobody is at work on is in a state that one of its *)
(* CPUs asked for.  The theorems follow.                                   *)
(***************************************************************************)
EXTENDS Psci, TLAPS, WellFoundedInduction

(* What the assumptions say of CPUs, levels and domains.                   *)
LEMMA TreeFacts ==
  /\ MaxLvl \in Nat \ {0}
  /\ \A c \in CPU : c \in Nat /\ c \in 0..N /\ c # NoCpu
  /\ \A l \in Lvl : l \in Nat /\ l \in 0..MaxLvl /\ 1 <= l /\ l <= MaxLvl
  /\ \A c \in CPU : \A l \in Lvl : Anc[c][l] \in Node
  /\ \A c, d \in CPU : \A l, m \in Lvl : Anc[c][l] = Anc[d][m] => l = m
BY SizeAssumption, TreeAssumption DEF CPU, Lvl, Node, NoCpu

(* Levels are positive numbers.                                            *)
LEMMA LvlFacts == MaxLvl \in Nat /\ \A l \in Lvl : l \in Nat /\ 1 <= l /\ l <= MaxLvl
BY SizeAssumption DEF Lvl

(* plat_get_target_pwr_state returns the least of the states it is given.  *)
LEMMA TargetStateIsLeast ==
  ASSUME NEW S, S \subseteq LocalState, S # {}
  PROVE  TargetState(S) \in S /\ \A r \in S : TargetState(S) <= r
<1>1. \E s \in S : \A r \in S : s <= r
  <2>1. CASE 0 \in S
    BY <2>1 DEF LocalState, RUN, OFF
  <2>2. CASE 0 \notin S /\ 1 \in S
    BY <2>2 DEF LocalState, RUN, OFF
  <2>3. CASE 0 \notin S /\ 1 \notin S
    <3>1. PICK s \in S : s \in 0..2
      BY DEF LocalState, RUN, OFF
    <3>2. \A r \in S : r = 2
      BY <2>3 DEF LocalState, RUN, OFF
    <3> QED
      BY <3>1, <3>2
  <2> QED
    BY <2>1, <2>2, <2>3
<1> QED
  BY <1>1 DEF TargetState

(* A set of levels that is not empty has a highest one.                    *)
LEMMA HighestLvlExists ==
  ASSUME NEW S, S \subseteq 0..MaxLvl, S # {}
  PROVE  HighestLvl(S) \in S
<1> DEFINE R == OpToRel(<, Nat)
           T == {n \in Nat : n <= MaxLvl /\ MaxLvl - n \in S}
<1>1. IsWellFoundedOn(R, Nat)
  BY NatLessThanWellFounded
<1>2. T \subseteq Nat /\ T # {}
  <2>1. PICK l \in S : l \in 0..MaxLvl
    OBVIOUS
  <2>2. MaxLvl - l \in T
    BY <2>1, TreeFacts
  <2> QED
    BY <2>2
<1>3. \E x \in T : \A y \in T : ~ (<<y, x>> \in R)
  <2> HIDE DEF R, T
  <2> QED
    BY <1>1, <1>2, WFMin
<1>4. PICK x \in T : \A y \in T : ~ (y < x)
  BY <1>3 DEF OpToRel
<1>5. \A m \in S : m <= MaxLvl - x
  <2> SUFFICES ASSUME NEW m \in S PROVE m <= MaxLvl - x
    OBVIOUS
  <2>1. m \in 0..MaxLvl /\ MaxLvl - m \in T
    BY TreeFacts
  <2> QED
    BY <1>4, <2>1, TreeFacts
<1> QED
  BY <1>5 DEF HighestLvl

(* The initial state: CPU 0 and its domains run, everything else is OFF.   *)
LEMMA InitInv == Init => CoordInv
<1> SUFFICES ASSUME Init PROVE CoordInv
  OBVIOUS
<1> USE TreeFacts DEF Init, RUN, RET, OFF, LocalState, NoLvl, NoCpu
<1>1. TypeOK
  <2>1. pc \in [CPU -> Locations] /\ after \in [CPU -> Locations] /\ handler \in [CPU -> Handlers]
    BY DEF Locations, Handlers
  <2>2. /\ aff \in [CPU -> {"ON", "OFF", "ON_PENDING"}]
        /\ cpuState \in [CPU -> LocalState]
        /\ context \in [CPU -> {"none", "on", "resume"}]
        /\ powerOn \in [CPU -> BOOLEAN]
    OBVIOUS
  <2>3. req \in [CPU -> [Lvl -> LocalState]]
    OBVIOUS
  <2>4. pdState \in [Node -> LocalState]
    OBVIOUS
  <2>5. /\ owner \in [Node -> CPU \cup {NoCpu}]
        /\ cpuLock \in [CPU -> CPU \cup {NoCpu}]
        /\ suspLvl \in [CPU -> {NoLvl} \cup 0..MaxLvl]
    OBVIOUS
  <2>6. /\ end \in [CPU -> 0..MaxLvl]
        /\ lvl \in [CPU -> 0..(MaxLvl + 1)]
        /\ target \in [CPU -> 0..N]
    BY SizeAssumption
  <2>7. info \in [CPU -> PowerState]
    BY DEF Idle, PowerState
  <2> QED
    BY <2>1, <2>2, <2>3, <2>4, <2>5, <2>6, <2>7 DEF TypeOK
<1>2. LocksOK
  BY DEF LocksOK, Holds
<1>3. ASSUME NEW c \in CPU PROVE ControlOK(c)
  BY DEF ControlOK
<1>4. RequestsOK
  BY DEF RequestsOK, RunLevels, Running, NormalWorld
<1>5. NoDeeperThanRequested
  BY DEF NoDeeperThanRequested
<1>6. ResultsOK
  BY DEF ResultsOK, Computed
<1> QED
  BY <1>1, <1>2, <1>3, <1>4, <1>5, <1>6 DEF CoordInv

(* Nothing that the invariant says of the other CPUs changes.              *)
OthersUnchanged(c) ==
  \A d \in CPU \ {c} :
    UNCHANGED <<pc[d], end[d], lvl[d], info[d], handler[d], after[d], suspLvl[d]>>

(* A step of c that touches no domain keeps the invariant if c holds the   *)
(* same locks and does not claim more than before.                         *)
LEMMA ControlStep ==
  ASSUME CoordInv, NEW c \in CPU, TypeOK', OthersUnchanged(c),
         UNCHANGED <<req, pdState, owner>>,
         \A l \in Lvl : Holds(c, l)' <=> Holds(c, l),
         ControlOK(c)',
         RunLevels(c)' \subseteq RunLevels(c),
         Computed(c)' \subseteq Computed(c),
         Computed(c)' # {} => info'[c] = info[c]
  PROVE  CoordInv'
<1> USE DEF OthersUnchanged
<1>1. LocksOK'
  <2> SUFFICES ASSUME NEW d \in CPU, NEW l \in Lvl
               PROVE  (owner[Anc[d][l]] = d <=> Holds(d, l))'
    BY DEF LocksOK
  <2>1. owner[Anc[d][l]] = d <=> Holds(d, l)
    BY DEF CoordInv, LocksOK
  <2>2. Holds(d, l)' <=> Holds(d, l)
    BY DEF Holds
  <2> QED
    BY <2>1, <2>2
<1>2. ASSUME NEW d \in CPU PROVE ControlOK(d)'
  <2>1. CASE d = c
    BY <2>1
  <2>2. CASE d # c
    <3>1. ControlOK(d)
      BY DEF CoordInv
    <3> QED
      BY <2>2, <3>1 DEF ControlOK
  <2> QED
    BY <2>1, <2>2
<1>3. RequestsOK'
  <2> SUFFICES ASSUME NEW d \in CPU, NEW l \in RunLevels(d)'
               PROVE  (req[d][l] = RUN)'
    BY DEF RequestsOK
  <2>1. l \in RunLevels(d)
    BY DEF RunLevels, Running
  <2> QED
    BY <2>1 DEF CoordInv, RequestsOK
<1>4. ResultsOK'
  <2> SUFFICES ASSUME NEW e \in CPU, NEW l \in Computed(e)', NEW d \in CPU, Anc[d][l] = Anc[e][l]
               PROVE  (info[e][l] <= req[d][l])'
    BY DEF ResultsOK
  <2>1. l \in Computed(e) /\ info'[e] = info[e]
    BY DEF Computed
  <2> QED
    BY <2>1 DEF CoordInv, ResultsOK
<1>5. NoDeeperThanRequested'
  BY DEF CoordInv, NoDeeperThanRequested
<1> QED
  BY <1>1, <1>2, <1>3, <1>4, <1>5 DEF CoordInv

(* A step within the normal world and the calls that touch no domain.      *)
LEMMA NormalWorldStep ==
  ASSUME CoordInv, NEW c \in CPU, TypeOK',
         pc[c] \in NormalWorld, pc'[c] \in NormalWorld, OthersUnchanged(c),
         UNCHANGED <<req, pdState, owner, suspLvl>>
  PROVE  CoordInv'
<1>1. ControlOK(c)
  BY DEF CoordInv
<1>2. ControlOK(c)' /\ Computed(c)' = {}
  BY <1>1 DEF ControlOK, Computed, NormalWorld
<1>3. \A l \in Lvl : Holds(c, l)' <=> Holds(c, l)
  BY DEF Holds, NormalWorld
<1>4. RunLevels(c)' \subseteq RunLevels(c)
  BY DEF RunLevels, Running
<1> QED
  BY <1>2, <1>3, <1>4, ControlStep

(* A step of a CPU that is down, or about to be.                           *)
LEMMA DownStep ==
  ASSUME CoordInv, NEW c \in CPU, TypeOK',
         pc[c] \in {"off", "dying", "down", "boot"},
         pc'[c] \in {"dying", "down", "boot", "panic"},
         suspLvl[c] # NoLvl => pc'[c] \in {"down", "boot", "panic"},
         OthersUnchanged(c), UNCHANGED <<req, pdState, owner, suspLvl>>
  PROVE  CoordInv'
<1>1. ControlOK(c)
  BY DEF CoordInv
<1>2. ControlOK(c)' /\ Computed(c)' = {}
  BY <1>1 DEF ControlOK, Computed
<1>3. \A l \in Lvl : Holds(c, l)' <=> Holds(c, l)
  BY DEF Holds
<1>4. RunLevels(c)' \subseteq RunLevels(c)
  BY DEF RunLevels, Running, NormalWorld
<1> QED
  BY <1>2, <1>3, <1>4, ControlStep

(* A call, a boot or a wake-up that asks for the domain locks.             *)
LEMMA StartAcquireStep ==
  ASSUME CoordInv, NEW c \in CPU, TypeOK', NEW e \in 0..MaxLvl, NEW s, NEW h,
         StartAcquire(c, e, s, h),
         UNCHANGED <<req, pdState, owner, suspLvl, after>>,
         \/ pc[c] \in NormalWorld /\ h \in {"off", "suspend", "pwrdown"}
         \/ pc[c] = "wfi" /\ e = end[c] /\ h = "standby_finish"
         \/ pc[c] = "boot" /\ h = "boot" /\ (suspLvl[c] = NoLvl => e = MaxLvl)
                          /\ (suspLvl[c] # NoLvl => e = suspLvl[c])
  PROVE  CoordInv'
<1>1. ControlOK(c) /\ TypeOK
  BY DEF CoordInv
<1>2. /\ pc'[c] = "acquire" /\ lvl'[c] = 1 /\ end'[c] = e /\ handler'[c] = h
      /\ OthersUnchanged(c)
  BY <1>1 DEF TypeOK, OthersUnchanged, StartAcquire, Goto
<1>3. ControlOK(c)' /\ Computed(c)' = {}
  BY <1>1, <1>2, LvlFacts DEF ControlOK, Computed, NormalWorld, NoLvl
<1>4. \A l \in Lvl : Holds(c, l)' <=> Holds(c, l)
  BY <1>2, LvlFacts DEF Holds, NormalWorld
<1>5. RunLevels(c)' \subseteq RunLevels(c)
  BY <1>1, <1>2, LvlFacts DEF RunLevels, Running, NormalWorld, ControlOK
<1> QED
  BY <1>2, <1>3, <1>4, <1>5, ControlStep

(* The work of a handler is done and it starts to release its locks.       *)
LEMMA StartReleaseStep ==
  ASSUME CoordInv, NEW c \in CPU, TypeOK', NEW w \in {"ns", "off", "down", "wfi"},
         StartRelease(c, w),
         UNCHANGED <<req, pdState, owner, end, info, handler>>,
         \A d \in CPU \ {c} : suspLvl'[d] = suspLvl[d],
         pc[c] \in {"acquire", "set_target", "run"}, lvl[c] > end[c],
         w = "down" => suspLvl'[c] = end[c],
         w # "down" => suspLvl'[c] = NoLvl,
         w = "ns" => (pc[c] = "run" \/ Running(c))
  PROVE  CoordInv'
<1>1. ControlOK(c) /\ TypeOK
  BY DEF CoordInv
<1>2. /\ pc'[c] = "release" /\ lvl'[c] = end[c] /\ end'[c] = end[c] /\ after'[c] = w
      /\ OthersUnchanged(c)
  BY <1>1 DEF TypeOK, OthersUnchanged, StartRelease, Goto
<1>3. end[c] \in 0..MaxLvl /\ end[c] # NoLvl
  BY <1>1, SizeAssumption DEF TypeOK, NoLvl
<1>4. ControlOK(c)' /\ Computed(c)' = {}
  BY <1>1, <1>2, <1>3, LvlFacts DEF ControlOK, Computed
<1>5. lvl[c] = end[c] + 1
  BY <1>1, <1>3 DEF ControlOK
<1>6. \A l \in Lvl : Holds(c, l)' <=> Holds(c, l)
  BY <1>2, <1>3, <1>5, LvlFacts DEF Holds
<1>7. RunLevels(c)' \subseteq RunLevels(c)
  BY <1>1, <1>2, <1>3, <1>5, LvlFacts DEF RunLevels, Running, NormalWorld, ControlOK
<1> QED
  BY <1>2, <1>4, <1>6, <1>7, ControlStep

(* CPU_ON, the CPU's own standby and the check of SYSTEM_SUSPEND.          *)
LEMMA NormalWorldInv ==
  ASSUME CoordInv, NEW c \in CPU,
         \/ \E t \in CPU : CpuOn(c, t)
         \/ OnLock(c) \/ OnCheck(c) \/ OnPending(c) \/ OnPower(c) \/ OnFail(c) \/ OnContext(c)
         \/ OnUnlock(c)
         \/ \E s \in PowerStates : CpuStandby(c, s)
         \/ StandbyExit(c) \/ SystemSuspend(c) \/ LastOnCheck(c)
  PROVE  CoordInv'
<1> USE SizeAssumption DEF CoordInv, TypeOK, Goto, Locations, shared, locals
<1>1. CASE \E t \in CPU : CpuOn(c, t)
  <2>1. TypeOK'
    <3>1. target' \in [CPU -> 0..N]
      BY <1>1, TreeFacts DEF CpuOn
    <3> QED
      BY <1>1, <3>1 DEF CpuOn
  <2>2. /\ pc[c] \in NormalWorld /\ pc'[c] \in NormalWorld /\ OthersUnchanged(c)
        /\ UNCHANGED <<req, pdState, owner, suspLvl>>
    BY <1>1 DEF CpuOn, NormalWorld, OthersUnchanged
  <2> QED
    BY <2>1, <2>2, NormalWorldStep
<1>2. CASE OnLock(c)
  <2>1. TypeOK'
    BY <1>2 DEF OnLock
  <2>2. /\ pc[c] \in NormalWorld /\ pc'[c] \in NormalWorld /\ OthersUnchanged(c)
        /\ UNCHANGED <<req, pdState, owner, suspLvl>>
    BY <1>2 DEF OnLock, NormalWorld, OthersUnchanged
  <2> QED
    BY <2>1, <2>2, NormalWorldStep
<1>3. CASE OnCheck(c)
  <2>1. TypeOK'
    BY <1>3 DEF OnCheck
  <2>2. /\ pc[c] \in NormalWorld /\ pc'[c] \in NormalWorld /\ OthersUnchanged(c)
        /\ UNCHANGED <<req, pdState, owner, suspLvl>>
    BY <1>3 DEF OnCheck, NormalWorld, OthersUnchanged
  <2> QED
    BY <2>1, <2>2, NormalWorldStep
<1>4. CASE OnPending(c)
  <2>1. TypeOK'
    BY <1>4 DEF OnPending
  <2>2. /\ pc[c] \in NormalWorld /\ pc'[c] \in NormalWorld /\ OthersUnchanged(c)
        /\ UNCHANGED <<req, pdState, owner, suspLvl>>
    BY <1>4 DEF OnPending, NormalWorld, OthersUnchanged
  <2> QED
    BY <2>1, <2>2, NormalWorldStep
<1>5. CASE OnPower(c)
  <2>1. TypeOK'
    BY <1>5 DEF OnPower
  <2>2. /\ pc[c] \in NormalWorld /\ pc'[c] \in NormalWorld /\ OthersUnchanged(c)
        /\ UNCHANGED <<req, pdState, owner, suspLvl>>
    BY <1>5 DEF OnPower, NormalWorld, OthersUnchanged
  <2> QED
    BY <2>1, <2>2, NormalWorldStep
<1>6. CASE OnFail(c)
  <2>1. TypeOK'
    BY <1>6 DEF OnFail
  <2>2. /\ pc[c] \in NormalWorld /\ pc'[c] \in NormalWorld /\ OthersUnchanged(c)
        /\ UNCHANGED <<req, pdState, owner, suspLvl>>
    BY <1>6 DEF OnFail, NormalWorld, OthersUnchanged
  <2> QED
    BY <2>1, <2>2, NormalWorldStep
<1>7. CASE OnContext(c)
  <2>1. TypeOK'
    BY <1>7 DEF OnContext
  <2>2. /\ pc[c] \in NormalWorld /\ pc'[c] \in NormalWorld /\ OthersUnchanged(c)
        /\ UNCHANGED <<req, pdState, owner, suspLvl>>
    BY <1>7 DEF OnContext, NormalWorld, OthersUnchanged
  <2> QED
    BY <2>1, <2>2, NormalWorldStep
<1>8. CASE OnUnlock(c)
  <2>1. TypeOK'
    <3>1. target' \in [CPU -> 0..N]
      BY <1>8 DEF OnUnlock
    <3> QED
      BY <1>8, <3>1 DEF OnUnlock
  <2>2. /\ pc[c] \in NormalWorld /\ pc'[c] \in NormalWorld /\ OthersUnchanged(c)
        /\ UNCHANGED <<req, pdState, owner, suspLvl>>
    BY <1>8 DEF OnUnlock, NormalWorld, OthersUnchanged
  <2> QED
    BY <2>1, <2>2, NormalWorldStep
<1>9. CASE \E s \in PowerStates : CpuStandby(c, s)
  <2>1. TypeOK'
    BY <1>9, PowerStatesAssumption DEF CpuStandby, PowerState, LocalState, RUN, OFF
  <2>2. /\ pc[c] \in NormalWorld /\ pc'[c] \in NormalWorld /\ OthersUnchanged(c)
        /\ UNCHANGED <<req, pdState, owner, suspLvl>>
    BY <1>9 DEF CpuStandby, NormalWorld, OthersUnchanged
  <2> QED
    BY <2>1, <2>2, NormalWorldStep
<1>10. CASE StandbyExit(c)
  <2>1. TypeOK'
    BY <1>10 DEF StandbyExit, LocalState, RUN, OFF
  <2>2. /\ pc[c] \in NormalWorld /\ pc'[c] \in NormalWorld /\ OthersUnchanged(c)
        /\ UNCHANGED <<req, pdState, owner, suspLvl>>
    BY <1>10 DEF StandbyExit, NormalWorld, OthersUnchanged
  <2> QED
    BY <2>1, <2>2, NormalWorldStep
<1>11. CASE SystemSuspend(c)
  <2>1. TypeOK'
    BY <1>11 DEF SystemSuspend
  <2>2. /\ pc[c] \in NormalWorld /\ pc'[c] \in NormalWorld /\ OthersUnchanged(c)
        /\ UNCHANGED <<req, pdState, owner, suspLvl>>
    BY <1>11 DEF SystemSuspend, NormalWorld, OthersUnchanged
  <2> QED
    BY <2>1, <2>2, NormalWorldStep
<1>12. CASE LastOnCheck(c)
  <2>1. TypeOK'
    <3>1. target' \in [CPU -> 0..N]
      BY <1>12 DEF LastOnCheck
    <3> QED
      BY <1>12, <3>1 DEF LastOnCheck
  <2>2. /\ pc[c] \in NormalWorld /\ pc'[c] \in NormalWorld /\ OthersUnchanged(c)
        /\ UNCHANGED <<req, pdState, owner, suspLvl>>
    BY <1>12 DEF LastOnCheck, NormalWorld, OthersUnchanged
  <2> QED
    BY <2>1, <2>2, NormalWorldStep
<1> QED
  BY <1>1, <1>2, <1>3, <1>4, <1>5, <1>6, <1>7, <1>8, <1>9, <1>10, <1>11, <1>12

(* The last steps of CPU_OFF, and the power controller.                    *)
LEMMA DownInv ==
  ASSUME CoordInv, NEW c \in CPU,
         OffSetAffinity(c) \/ PowerDownWfi(c) \/ PowerUp(c) \/ WakeUp(c)
  PROVE  CoordInv'
<1> USE DEF CoordInv, TypeOK, Goto, Locations, shared, locals
<1>0. ControlOK(c)
  OBVIOUS
<1>1. CASE OffSetAffinity(c)
  <2>1. TypeOK'
    BY <1>1 DEF OffSetAffinity
  <2>2. /\ pc[c] \in {"off", "dying", "down", "boot"}
        /\ pc'[c] \in {"dying", "down", "boot", "panic"}
        /\ suspLvl[c] # NoLvl => pc'[c] \in {"down", "boot", "panic"}
        /\ OthersUnchanged(c) /\ UNCHANGED <<req, pdState, owner, suspLvl>>
    BY <1>0, <1>1 DEF OffSetAffinity, ControlOK, OthersUnchanged
  <2> QED
    BY <2>1, <2>2, DownStep
<1>2. CASE PowerDownWfi(c)
  <2>1. TypeOK'
    BY <1>2 DEF PowerDownWfi
  <2>2. /\ pc[c] \in {"off", "dying", "down", "boot"}
        /\ pc'[c] \in {"dying", "down", "boot", "panic"}
        /\ suspLvl[c] # NoLvl => pc'[c] \in {"down", "boot", "panic"}
        /\ OthersUnchanged(c) /\ UNCHANGED <<req, pdState, owner, suspLvl>>
    BY <1>0, <1>2 DEF PowerDownWfi, ControlOK, OthersUnchanged
  <2> QED
    BY <2>1, <2>2, DownStep
<1>3. CASE PowerUp(c)
  <2>1. TypeOK'
    BY <1>3 DEF PowerUp
  <2>2. /\ pc[c] \in {"off", "dying", "down", "boot"}
        /\ pc'[c] \in {"dying", "down", "boot", "panic"}
        /\ suspLvl[c] # NoLvl => pc'[c] \in {"down", "boot", "panic"}
        /\ OthersUnchanged(c) /\ UNCHANGED <<req, pdState, owner, suspLvl>>
    BY <1>0, <1>3 DEF PowerUp, ControlOK, OthersUnchanged
  <2> QED
    BY <2>1, <2>2, DownStep
<1>4. CASE WakeUp(c)
  <2>1. TypeOK'
    BY <1>4 DEF WakeUp
  <2>2. /\ pc[c] \in {"off", "dying", "down", "boot"}
        /\ pc'[c] \in {"dying", "down", "boot", "panic"}
        /\ suspLvl[c] # NoLvl => pc'[c] \in {"down", "boot", "panic"}
        /\ OthersUnchanged(c) /\ UNCHANGED <<req, pdState, owner, suspLvl>>
    BY <1>0, <1>4 DEF WakeUp, ControlOK, OthersUnchanged
  <2> QED
    BY <2>1, <2>2, DownStep
<1> QED
  BY <1>1, <1>2, <1>3, <1>4

(* TargetSuspendLvl is a level of the topology, if there is one at all.    *)
LEMMA TargetSuspendLvlType ==
  ASSUME NEW s, TargetSuspendLvl(s) # NoLvl
  PROVE  TargetSuspendLvl(s) \in 0..MaxLvl
<1> DEFINE S == {l \in 0..MaxLvl : s[l] # RUN}
<1>1. S # {}
  BY DEF TargetSuspendLvl, HighestLvl
<1>2. HighestLvl(S) \in S
  BY <1>1, HighestLvlExists
<1> QED
  BY <1>2 DEF TargetSuspendLvl

(* The calls, the boot and the wake-up that ask for the domain locks.      *)
LEMMA StartAcquireInv ==
  ASSUME CoordInv, NEW c \in CPU,
         \/ CpuOff(c) \/ \E s \in PowerStates : CpuSuspend(c, s)
         \/ LastOn(c) \/ WakeStandby(c) \/ WarmBoot(c)
  PROVE  CoordInv'
<1> USE SizeAssumption DEF CoordInv
<1>0. TypeOK /\ ControlOK(c)
  OBVIOUS
<1>a. ASSUME NEW e \in 0..MaxLvl, NEW s \in PowerState, NEW h \in Handlers,
             StartAcquire(c, e, s, h),
             UNCHANGED <<shared, after>>, target' \in [CPU -> 0..N]
      PROVE  TypeOK'
  BY <1>0, <1>a DEF TypeOK, StartAcquire, Goto, Locations, shared
<1>1. CASE CpuOff(c)
  <2>1. [l \in 0..MaxLvl |-> OFF] \in PowerState /\ MaxLvl \in 0..MaxLvl
    BY DEF PowerState, LocalState, RUN, OFF
  <2>2. /\ pc[c] \in NormalWorld /\ target' = target /\ UNCHANGED <<shared, after>>
        /\ StartAcquire(c, MaxLvl, [l \in 0..MaxLvl |-> OFF], "off")
    BY <1>1 DEF CpuOff, NormalWorld
  <2>3. TypeOK'
    <3>1. target' \in [CPU -> 0..N] /\ "off" \in Handlers
      BY <1>0, <2>2 DEF TypeOK, Handlers
    <3> QED
      BY <1>a, <2>1, <2>2, <3>1
  <2> QED
    BY <2>2, <2>3, StartAcquireStep DEF shared
<1>2. CASE \E s \in PowerStates : CpuSuspend(c, s)
  <2>1. PICK s \in PowerStates : CpuSuspend(c, s)
    BY <1>2
  <2>2. PICK h \in {"pwrdown", "suspend"} :
          /\ pc[c] \in NormalWorld /\ target' = target /\ UNCHANGED <<shared, after>>
          /\ StartAcquire(c, TargetSuspendLvl(s), s, h)
    BY <2>1 DEF CpuSuspend, NormalWorld
  <2>3. TargetSuspendLvl(s) \in 0..MaxLvl
    BY <2>1, TargetSuspendLvlType DEF CpuSuspend, ValidSuspendReq
  <2>4. TypeOK'
    BY <1>0, <1>a, <2>2, <2>3, PowerStatesAssumption DEF TypeOK, Handlers
  <2> QED
    BY <2>2, <2>3, <2>4, StartAcquireStep DEF shared
<1>3. CASE LastOn(c)
  <2>1. [l \in 0..MaxLvl |-> OFF] \in PowerState /\ MaxLvl \in 0..MaxLvl
    BY DEF PowerState, LocalState, RUN, OFF
  <2>2. /\ pc[c] \in NormalWorld /\ UNCHANGED <<shared, after>>
        /\ StartAcquire(c, MaxLvl, [l \in 0..MaxLvl |-> OFF], "pwrdown")
    BY <1>3 DEF LastOn, NormalWorld
  <2>3. target' \in [CPU -> 0..N]
    BY <1>0, <1>3 DEF LastOn, TypeOK
  <2>4. TypeOK'
    BY <1>a, <2>1, <2>2, <2>3 DEF Handlers
  <2> QED
    BY <2>2, <2>4, StartAcquireStep DEF shared
<1>4. CASE WakeStandby(c)
  <2>1. Idle \in PowerState /\ end[c] \in 0..MaxLvl
    BY <1>0 DEF Idle, PowerState, LocalState, RUN, OFF, TypeOK
  <2>2. /\ pc[c] = "wfi" /\ target' = target /\ UNCHANGED <<shared, after>>
        /\ StartAcquire(c, end[c], Idle, "standby_finish")
    BY <1>4 DEF WakeStandby
  <2>3. TypeOK'
    BY <1>0, <1>a, <2>1, <2>2 DEF TypeOK, Handlers
  <2> QED
    BY <2>1, <2>2, <2>3, StartAcquireStep DEF shared
<1>5. CASE WarmBoot(c)
  <2>1. CASE aff[c] = "OFF"
    <3>1. TypeOK'
      BY <1>0, <1>5, <2>1 DEF TypeOK, WarmBoot, Goto, Locations, shared
    <3>2. /\ pc[c] = "boot" /\ pc'[c] = "panic" /\ OthersUnchanged(c)
          /\ UNCHANGED <<req, pdState, owner, suspLvl>>
      BY <1>0, <1>5, <2>1 DEF TypeOK, WarmBoot, Goto, OthersUnchanged, shared
    <3> QED
      BY <3>1, <3>2, DownStep
  <2>2. CASE aff[c] # "OFF"
    <3>1. PICK e \in 0..MaxLvl :
            /\ suspLvl[c] = NoLvl => e = MaxLvl
            /\ suspLvl[c] # NoLvl => e = suspLvl[c]
            /\ StartAcquire(c, e, Idle, "boot")
      BY <1>0, <1>5, <2>2 DEF TypeOK, WarmBoot
    <3>2. pc[c] = "boot" /\ target' = target /\ UNCHANGED <<shared, after>>
      BY <1>5 DEF WarmBoot
    <3>3. Idle \in PowerState
      BY DEF Idle, PowerState, LocalState, RUN, OFF
    <3>4. TypeOK'
      BY <1>0, <1>a, <3>1, <3>2, <3>3 DEF TypeOK, Handlers
    <3> QED
      BY <3>1, <3>2, <3>4, StartAcquireStep DEF shared
  <2> QED
    BY <2>1, <2>2
<1> QED
  BY <1>1, <1>2, <1>3, <1>4, <1>5

(* The handlers that are done, and release their locks.                    *)
LEMMA StartReleaseInv ==
  ASSUME CoordInv, NEW c \in CPU,
         \/ OffDenied(c) \/ SuspendAbandon(c) \/ OffRelease(c) \/ PwrDownRelease(c)
         \/ StandbyRelease(c) \/ RunCpu(c)
  PROVE  CoordInv'
<1> USE SizeAssumption DEF CoordInv
<1>0. TypeOK /\ ControlOK(c)
  OBVIOUS
<1>1. CASE OffDenied(c)
  <2>1. TypeOK'
    BY <1>0, <1>1 DEF OffDenied, Locked, TypeOK, StartRelease, Goto, Locations, shared
  <2>2. /\ StartRelease(c, "ns") /\ UNCHANGED <<req, pdState, owner, end, info, handler>>
        /\ pc[c] \in {"acquire", "set_target", "run"} /\ lvl[c] > end[c]
    BY <1>1 DEF OffDenied, Locked, shared
  <2>3. /\ \A d \in CPU \ {c} : suspLvl'[d] = suspLvl[d]
        /\ "ns" = "down" => suspLvl'[c] = end[c]
        /\ "ns" # "down" => suspLvl'[c] = NoLvl
        /\ "ns" = "ns" => (pc[c] = "run" \/ Running(c))
    BY <1>0, <1>1 DEF OffDenied, TypeOK, ControlOK, shared, Locked, Running
  <2> QED
    BY <2>1, <2>2, <2>3, StartReleaseStep
<1>2. CASE SuspendAbandon(c)
  <2>1. TypeOK'
    BY <1>0, <1>2 DEF SuspendAbandon, Locked, TypeOK, StartRelease, Goto, Locations, shared
  <2>2. /\ StartRelease(c, "ns") /\ UNCHANGED <<req, pdState, owner, end, info, handler>>
        /\ pc[c] \in {"acquire", "set_target", "run"} /\ lvl[c] > end[c]
    BY <1>2 DEF SuspendAbandon, Locked, shared
  <2>3. /\ \A d \in CPU \ {c} : suspLvl'[d] = suspLvl[d]
        /\ "ns" = "down" => suspLvl'[c] = end[c]
        /\ "ns" # "down" => suspLvl'[c] = NoLvl
        /\ "ns" = "ns" => (pc[c] = "run" \/ Running(c))
    BY <1>0, <1>2 DEF SuspendAbandon, TypeOK, ControlOK, shared, Locked, Running
  <2> QED
    BY <2>1, <2>2, <2>3, StartReleaseStep
<1>3. CASE OffRelease(c)
  <2>1. TypeOK'
    BY <1>0, <1>3 DEF OffRelease, TypeOK, StartRelease, Goto, Locations, shared
  <2>2. /\ StartRelease(c, "off") /\ UNCHANGED <<req, pdState, owner, end, info, handler>>
        /\ pc[c] \in {"acquire", "set_target", "run"} /\ lvl[c] > end[c]
    BY <1>3 DEF OffRelease, shared
  <2>3. /\ \A d \in CPU \ {c} : suspLvl'[d] = suspLvl[d]
        /\ "off" = "down" => suspLvl'[c] = end[c]
        /\ "off" # "down" => suspLvl'[c] = NoLvl
        /\ "off" = "ns" => (pc[c] = "run" \/ Running(c))
    BY <1>0, <1>3 DEF OffRelease, TypeOK, ControlOK, shared
  <2> QED
    BY <2>1, <2>2, <2>3, StartReleaseStep
<1>4. CASE PwrDownRelease(c)
  <2>1. TypeOK'
    BY <1>0, <1>4 DEF PwrDownRelease, TypeOK, StartRelease, Goto, Locations, shared
  <2>2. /\ StartRelease(c, "down") /\ UNCHANGED <<req, pdState, owner, end, info, handler>>
        /\ pc[c] \in {"acquire", "set_target", "run"} /\ lvl[c] > end[c]
    BY <1>4 DEF PwrDownRelease, shared
  <2>3. /\ \A d \in CPU \ {c} : suspLvl'[d] = suspLvl[d]
        /\ "down" = "down" => suspLvl'[c] = end[c]
        /\ "down" # "down" => suspLvl'[c] = NoLvl
        /\ "down" = "ns" => (pc[c] = "run" \/ Running(c))
    BY <1>0, <1>4 DEF PwrDownRelease, TypeOK, ControlOK, shared
  <2> QED
    BY <2>1, <2>2, <2>3, StartReleaseStep
<1>5. CASE StandbyRelease(c)
  <2>1. TypeOK'
    BY <1>0, <1>5 DEF StandbyRelease, TypeOK, StartRelease, Goto, Locations, shared
  <2>2. /\ StartRelease(c, "wfi") /\ UNCHANGED <<req, pdState, owner, end, info, handler>>
        /\ pc[c] \in {"acquire", "set_target", "run"} /\ lvl[c] > end[c]
    BY <1>5 DEF StandbyRelease, shared
  <2>3. /\ \A d \in CPU \ {c} : suspLvl'[d] = suspLvl[d]
        /\ "wfi" = "down" => suspLvl'[c] = end[c]
        /\ "wfi" # "down" => suspLvl'[c] = NoLvl
        /\ "wfi" = "ns" => (pc[c] = "run" \/ Running(c))
    BY <1>0, <1>5 DEF StandbyRelease, TypeOK, ControlOK, shared
  <2> QED
    BY <2>1, <2>2, <2>3, StartReleaseStep
<1>6. CASE RunCpu(c)
  <2>1. TypeOK'
    BY <1>0, <1>6 DEF RunCpu, TypeOK, StartRelease, Goto, Locations, shared, LocalState, RUN, OFF
  <2>2. /\ StartRelease(c, "ns") /\ UNCHANGED <<req, pdState, owner, end, info, handler>>
        /\ pc[c] \in {"acquire", "set_target", "run"} /\ lvl[c] > end[c]
    BY <1>6 DEF RunCpu, shared
  <2>3. /\ \A d \in CPU \ {c} : suspLvl'[d] = suspLvl[d]
        /\ "ns" = "down" => suspLvl'[c] = end[c]
        /\ "ns" # "down" => suspLvl'[c] = NoLvl
        /\ "ns" = "ns" => (pc[c] = "run" \/ Running(c))
    BY <1>0, <1>6 DEF RunCpu, TypeOK, ControlOK, shared
  <2> QED
    BY <2>1, <2>2, <2>3, StartReleaseStep
<1> QED
  BY <1>1, <1>2, <1>3, <1>4, <1>5, <1>6

(* The last lock is released.                                              *)
LEMMA ReleasedInv ==
  ASSUME CoordInv, NEW c \in CPU, Released(c)
  PROVE  CoordInv'
<1>0. TypeOK /\ ControlOK(c)
  BY DEF CoordInv
<1>1. TypeOK'
  <2>1. end' \in [CPU -> 0..MaxLvl] /\ info' \in [CPU -> PowerState]
    BY <1>0, SizeAssumption DEF Released, TypeOK, Idle, PowerState, LocalState, RUN, OFF
  <2> QED
    BY <1>0, <2>1 DEF Released, TypeOK, Goto, Locations, Handlers, shared
<1>2. OthersUnchanged(c) /\ UNCHANGED <<req, pdState, owner, suspLvl>>
  BY <1>0 DEF Released, TypeOK, Goto, OthersUnchanged, shared
<1>3. /\ pc[c] = "release" /\ lvl[c] = 0 /\ pc'[c] = after[c]
      /\ after[c] = "wfi" => end'[c] = end[c]
  BY <1>0 DEF Released, TypeOK, Goto
<1>4. ControlOK(c)' /\ Computed(c)' = {}
  BY <1>0, <1>2, <1>3 DEF ControlOK, Computed
<1>5. \A l \in Lvl : Holds(c, l)' <=> Holds(c, l)
  BY <1>0, <1>3, LvlFacts DEF Holds, ControlOK
<1>6. RunLevels(c)' \subseteq RunLevels(c)
  BY <1>0, <1>2, <1>3 DEF RunLevels, Running, NormalWorld, ControlOK
<1> QED
  BY <1>1, <1>2, <1>4, <1>5, <1>6, ControlStep

(* With the locks taken the handlers start to coordinate.                  *)
LEMMA StartCoordinationInv ==
  ASSUME CoordInv, NEW c \in CPU, OffCoordinate(c) \/ SuspendCoordinate(c)
  PROVE  CoordInv'
<1> USE DEF OffCoordinate, SuspendCoordinate, StartCoordination, Locked, Goto, shared
<1>0. TypeOK /\ ControlOK(c)
  BY DEF CoordInv
<1>1. TypeOK'
  <2>1. lvl' \in [CPU -> 0..(MaxLvl + 1)]
    BY <1>0, SizeAssumption DEF TypeOK
  <2> QED
    BY <1>0, <2>1 DEF TypeOK, Locations
<1>2. OthersUnchanged(c) /\ UNCHANGED <<req, pdState, owner, suspLvl, end>>
  BY <1>0 DEF TypeOK, OthersUnchanged
<1>3. /\ pc[c] = "acquire" /\ lvl[c] > end[c] /\ handler[c] \in {"off", "suspend", "pwrdown"}
      /\ pc'[c] = "coordinate" /\ lvl'[c] = 1
  BY <1>0 DEF TypeOK
<1> HIDE DEF OffCoordinate, SuspendCoordinate, StartCoordination, Locked, Goto, shared
<1>e. end[c] \in 0..MaxLvl /\ lvl[c] = end[c] + 1
  <2>1. end[c] \in 0..MaxLvl
    BY <1>0 DEF TypeOK
  <2> QED
    BY <1>0, <1>3, <2>1, SizeAssumption DEF ControlOK
<1>4. ControlOK(c)' /\ Computed(c)' = {}
  BY <1>0, <1>2, <1>3, <1>e, LvlFacts DEF ControlOK, Computed
<1>5. \A l \in Lvl : Holds(c, l)' <=> Holds(c, l)
  BY <1>2, <1>3, <1>e, LvlFacts DEF Holds
<1>6. RunLevels(c)' \subseteq RunLevels(c)
  BY <1>2, <1>3 DEF RunLevels, Running
<1> QED
  BY <1>1, <1>2, <1>4, <1>5, <1>6, ControlStep

(* The coordination is over: the results are about to be stored.           *)
LEMMA CoordinatedInv ==
  ASSUME CoordInv, NEW c \in CPU, Coordinated(c)
  PROVE  CoordInv'
<1>0. TypeOK /\ ControlOK(c)
  BY DEF CoordInv
<1>1. TypeOK'
  BY <1>0, SizeAssumption DEF TypeOK, PowerState, Coordinated, Goto, Locations
<1>2. OthersUnchanged(c) /\ UNCHANGED <<req, pdState, owner, suspLvl, end, info>>
  BY <1>0 DEF TypeOK, OthersUnchanged, Coordinated, Goto
<1>3. pc[c] = "coordinate" /\ lvl[c] > end[c] /\ pc'[c] = "set_target" /\ lvl'[c] = 1
  BY <1>0 DEF TypeOK, Coordinated, Goto
<1>e. end[c] \in 0..MaxLvl /\ lvl[c] = end[c] + 1
  <2>1. end[c] \in 0..MaxLvl
    BY <1>0 DEF TypeOK
  <2> QED
    BY <1>0, <1>3, <2>1, SizeAssumption DEF ControlOK
<1>4. ControlOK(c)'
  BY <1>0, <1>2, <1>3, <1>e, LvlFacts DEF ControlOK
<1>5. \A l \in Lvl : Holds(c, l)' <=> Holds(c, l)
  BY <1>2, <1>3 DEF Holds
<1>6. RunLevels(c)' \subseteq RunLevels(c)
  BY <1>2, <1>3 DEF RunLevels, Running, NormalWorld
<1>7. Computed(c)' \subseteq Computed(c)
  BY <1>2, <1>3, <1>e, LvlFacts DEF Computed
<1> QED
  BY <1>1, <1>2, <1>4, <1>5, <1>6, <1>7, ControlStep

(* The finishers of a boot or a wake-up, up to psci_set_pwr_domains_to_run. *)
LEMMA FinishInv ==
  ASSUME CoordInv, NEW c \in CPU, aff[c] = "ON_PENDING" => suspLvl[c] = NoLvl,
         OnFinish(c) \/ OnFinishSync(c) \/ SuspendFinish(c) \/ StandbyFinish(c)
  PROVE  CoordInv'
<1> USE DEF OnFinish, OnFinishSync, SuspendFinish, StandbyFinish, StartRun, Locked, Goto, shared, locals
<1>0. TypeOK /\ ControlOK(c)
  BY DEF CoordInv
<1>1. TypeOK'
  <2>0. lvl \in [CPU -> 0..(MaxLvl + 1)] /\ (lvl' = lvl \/ lvl' = [lvl EXCEPT ![c] = 1])
    BY <1>0 DEF TypeOK
  <2>1. lvl' \in [CPU -> 0..(MaxLvl + 1)]
    BY <2>0, SizeAssumption
  <2>2. CASE OnFinish(c)
    BY <1>0, <2>2 DEF TypeOK, Locations
  <2>3. CASE OnFinishSync(c)
    BY <1>0, <2>1, <2>3 DEF TypeOK, Locations, Handlers
  <2>4. CASE SuspendFinish(c)
    BY <1>0, <2>1, <2>4 DEF TypeOK, Locations, Handlers
  <2>5. CASE StandbyFinish(c)
    BY <1>0, <2>1, <2>5 DEF TypeOK, Locations, Handlers
  <2> QED
    BY <2>2, <2>3, <2>4, <2>5
<1>2. OthersUnchanged(c) /\ UNCHANGED <<req, pdState, owner, end>>
  BY <1>0 DEF TypeOK, OthersUnchanged
<1>3. /\ pc[c] = "sync" \/ (pc[c] = "acquire" /\ lvl[c] > end[c])
      /\ pc'[c] = "sync" \/ (pc'[c] = "run" /\ lvl'[c] = 1)
  BY <1>0 DEF TypeOK
<1>s. suspLvl'[c] = NoLvl
  BY <1>0 DEF TypeOK, ControlOK
<1> HIDE DEF OnFinish, OnFinishSync, SuspendFinish, StandbyFinish, StartRun, Locked, Goto, shared, locals
<1>e. end[c] \in 0..MaxLvl /\ (pc[c] = "acquire" => lvl[c] = end[c] + 1)
  <2>1. end[c] \in 0..MaxLvl
    BY <1>0 DEF TypeOK
  <2> QED
    BY <1>0, <1>3, <2>1, SizeAssumption DEF ControlOK
<1>4. ControlOK(c)' /\ Computed(c)' = {}
  BY <1>0, <1>2, <1>3, <1>s, <1>e, LvlFacts DEF ControlOK, Computed
<1>5. \A l \in Lvl : Holds(c, l)' <=> Holds(c, l)
  BY <1>2, <1>3, <1>e, LvlFacts DEF Holds
<1>6. RunLevels(c)' \subseteq RunLevels(c)
  BY <1>0, <1>2, <1>3, <1>s, LvlFacts DEF RunLevels, Running, NormalWorld, ControlOK
<1> QED
  BY <1>1, <1>2, <1>4, <1>5, <1>6, ControlStep

(* A lock is taken: nobody held it.                                        *)
LEMMA AcquireLockInv ==
  ASSUME CoordInv, NEW c \in CPU, AcquireLock(c)
  PROVE  CoordInv'
<1>0. TypeOK /\ ControlOK(c) /\ end[c] \in 0..MaxLvl /\ lvl[c] \in Nat
  BY SizeAssumption DEF CoordInv, TypeOK
<1> DEFINE k == lvl[c]
           n == Anc[c][k]
<1>1. /\ pc[c] = "acquire" /\ k \in Lvl /\ k <= end[c] /\ n \in Node
      /\ owner[n] = NoCpu /\ owner' = [owner EXCEPT ![n] = c] /\ lvl'[c] = k + 1
  BY <1>0, TreeFacts, SizeAssumption DEF AcquireLock, ControlOK, TypeOK, Lvl
<1>2. /\ UNCHANGED <<pc, req, pdState, suspLvl, end, info, handler, after>>
      /\ \A d \in CPU \ {c} : lvl'[d] = lvl[d]
  BY <1>0 DEF AcquireLock, TypeOK
<1> HIDE DEF k, n
<1>3. TypeOK'
  <2>1. lvl' \in [CPU -> 0..(MaxLvl + 1)]
    BY <1>0, <1>1, SizeAssumption DEF AcquireLock, TypeOK, k
  <2>2. owner' \in [Node -> CPU \cup {NoCpu}]
    BY <1>0, <1>1 DEF TypeOK
  <2> QED
    BY <1>0, <2>1, <2>2 DEF AcquireLock, TypeOK
<1>4. LocksOK'
  <2> SUFFICES ASSUME NEW d \in CPU, NEW l \in Lvl
               PROVE  (owner[Anc[d][l]] = d <=> Holds(d, l))'
    BY DEF LocksOK
  <2>1. owner[Anc[d][l]] = d <=> Holds(d, l)
    BY DEF CoordInv, LocksOK
  <2>2. CASE d = c
    <3>1. Anc[c][l] = n <=> l = k
      BY <1>1, TreeFacts DEF n
    <3>2. Holds(c, l)' <=> (Holds(c, l) \/ l = k)
      BY <1>1, <1>2, LvlFacts DEF Holds, k
    <3> QED
      BY <1>0, <1>1, <2>1, <2>2, <3>1, <3>2, TreeFacts DEF TypeOK
  <2>3. CASE d # c
    <3>1. Holds(d, l)' <=> Holds(d, l)
      BY <1>2, <2>3 DEF Holds
    <3> QED
      BY <1>0, <1>1, <2>1, <2>3, <3>1, TreeFacts DEF TypeOK
  <2> QED
    BY <2>2, <2>3
<1>5. ASSUME NEW d \in CPU PROVE ControlOK(d)'
  <2>1. ControlOK(d)
    BY DEF CoordInv
  <2>2. CASE d = c
    BY <1>0, <1>1, <1>2, <2>1, <2>2, SizeAssumption DEF ControlOK, k
  <2>3. CASE d # c
    BY <1>2, <2>1, <2>3 DEF ControlOK
  <2> QED
    BY <2>2, <2>3
<1>6. RequestsOK'
  <2> SUFFICES ASSUME NEW d \in CPU, NEW l \in RunLevels(d)' PROVE req[d][l] = RUN
    BY <1>2 DEF RequestsOK
  <2>1. l \in RunLevels(d)
    BY <1>1, <1>2 DEF RunLevels, Running
  <2> QED
    BY <2>1 DEF CoordInv, RequestsOK
<1>7. ResultsOK'
  <2> SUFFICES ASSUME NEW e \in CPU, NEW l \in Computed(e)', NEW d \in CPU, Anc[d][l] = Anc[e][l]
               PROVE  info[e][l] <= req[d][l]
    BY <1>2 DEF ResultsOK
  <2>1. l \in Computed(e)
    BY <1>1, <1>2 DEF Computed
  <2> QED
    BY <2>1 DEF CoordInv, ResultsOK
<1>8. NoDeeperThanRequested'
  BY <1>2 DEF CoordInv, NoDeeperThanRequested
<1> QED
  BY <1>3, <1>4, <1>5, <1>6, <1>7, <1>8 DEF CoordInv

(* A lock is released, by the CPU that holds it.                           *)
LEMMA ReleaseLockInv ==
  ASSUME CoordInv, NEW c \in CPU, ReleaseLock(c)
  PROVE  CoordInv'
<1>0. TypeOK /\ ControlOK(c) /\ end[c] \in 0..MaxLvl /\ lvl[c] \in Nat
  BY SizeAssumption DEF CoordInv, TypeOK
<1> DEFINE k == lvl[c]
           n == Anc[c][k]
<1>1. /\ pc[c] = "release" /\ k \in Lvl /\ k <= end[c] /\ n \in Node
      /\ owner' = [owner EXCEPT ![n] = NoCpu] /\ lvl'[c] = k - 1
  BY <1>0, TreeFacts, SizeAssumption DEF ReleaseLock, ControlOK, TypeOK, Lvl
<1>2. /\ UNCHANGED <<pc, req, pdState, suspLvl, end, info, handler, after>>
      /\ \A d \in CPU \ {c} : lvl'[d] = lvl[d]
  BY <1>0 DEF ReleaseLock, TypeOK
<1> HIDE DEF k, n
<1>o. owner[n] = c
  BY <1>1, LvlFacts DEF CoordInv, LocksOK, Holds, k, n
<1>3. TypeOK'
  <2>1. lvl' \in [CPU -> 0..(MaxLvl + 1)]
    BY <1>0, <1>1, SizeAssumption DEF ReleaseLock, TypeOK, k
  <2>2. owner' \in [Node -> CPU \cup {NoCpu}]
    BY <1>0, <1>1 DEF TypeOK
  <2> QED
    BY <1>0, <2>1, <2>2 DEF ReleaseLock, TypeOK
<1>4. LocksOK'
  <2> SUFFICES ASSUME NEW d \in CPU, NEW l \in Lvl
               PROVE  (owner[Anc[d][l]] = d <=> Holds(d, l))'
    BY DEF LocksOK
  <2>1. owner[Anc[d][l]] = d <=> Holds(d, l)
    BY DEF CoordInv, LocksOK
  <2>2. CASE d = c
    <3>1. Anc[c][l] = n <=> l = k
      BY <1>1, TreeFacts DEF n
    <3>2. Holds(c, l)' <=> (Holds(c, l) /\ l # k)
      BY <1>1, <1>2, LvlFacts DEF Holds, k
    <3> QED
      BY <1>0, <1>1, <2>1, <2>2, <3>1, <3>2, TreeFacts DEF TypeOK
  <2>3. CASE d # c
    <3>1. Holds(d, l)' <=> Holds(d, l)
      BY <1>2, <2>3 DEF Holds
    <3> QED
      BY <1>0, <1>1, <1>o, <2>1, <2>3, <3>1, TreeFacts DEF TypeOK
  <2> QED
    BY <2>2, <2>3
<1>5. ASSUME NEW d \in CPU PROVE ControlOK(d)'
  <2>1. ControlOK(d)
    BY DEF CoordInv
  <2>2. CASE d = c
    BY <1>0, <1>1, <1>2, <2>1, <2>2, SizeAssumption DEF ControlOK, k
  <2>3. CASE d # c
    BY <1>2, <2>1, <2>3 DEF ControlOK
  <2> QED
    BY <2>2, <2>3
<1>6. RequestsOK'
  <2> SUFFICES ASSUME NEW d \in CPU, NEW l \in RunLevels(d)' PROVE req[d][l] = RUN
    BY <1>2 DEF RequestsOK
  <2>1. l \in RunLevels(d)
    BY <1>1, <1>2 DEF RunLevels, Running
  <2> QED
    BY <2>1 DEF CoordInv, RequestsOK
<1>7. ResultsOK'
  <2> SUFFICES ASSUME NEW e \in CPU, NEW l \in Computed(e)', NEW d \in CPU, Anc[d][l] = Anc[e][l]
               PROVE  info[e][l] <= req[d][l]
    BY <1>2 DEF ResultsOK
  <2>1. l \in Computed(e)
    BY <1>1, <1>2 DEF Computed
  <2> QED
    BY <2>1 DEF CoordInv, ResultsOK
<1>8. NoDeeperThanRequested'
  BY <1>2 DEF CoordInv, NoDeeperThanRequested
<1> QED
  BY <1>3, <1>4, <1>5, <1>6, <1>7, <1>8 DEF CoordInv

(* Two CPUs do not hold the lock of the same domain.                       *)
LEMMA LockExcludes ==
  ASSUME CoordInv, NEW c \in CPU, NEW d \in CPU, c # d, NEW l \in Lvl, Anc[c][l] = Anc[d][l],
         Holds(c, l)
  PROVE  ~Holds(d, l)
BY DEF CoordInv, LocksOK

(* Who has computed the state of a domain holds its lock.                  *)
LEMMA ComputedIsHeld ==
  ASSUME CoordInv, NEW c \in CPU, NEW l \in Computed(c)
  PROVE  Holds(c, l) /\ l \in Lvl
<1>1. ControlOK(c) /\ end[c] \in 0..MaxLvl /\ lvl[c] \in Nat
  BY SizeAssumption DEF CoordInv, TypeOK
<1> QED
  BY <1>1, LvlFacts, SizeAssumption DEF Computed, Holds, ControlOK

(* The request of one level is stored and its target state computed.       *)
LEMMA CoordinateLevelInv ==
  ASSUME CoordInv, NEW c \in CPU, CoordinateLevel(c)
  PROVE  CoordInv'
<1>0. TypeOK /\ ControlOK(c) /\ end[c] \in 0..MaxLvl /\ lvl[c] \in Nat
  BY SizeAssumption DEF CoordInv, TypeOK
<1> DEFINE k == lvl[c]
           n == Anc[c][k]
           requests == [req EXCEPT ![c][k] = info[c][k]]
           states == {requests[d][k] : d \in Domain(n, k)}
<1>1. pc[c] = "coordinate" /\ k \in Lvl /\ k <= end[c] /\ n \in Node /\ lvl'[c] = k + 1
  BY <1>0, TreeFacts, SizeAssumption DEF CoordinateLevel, ControlOK, TypeOK, Lvl
<1>2. /\ UNCHANGED <<pc, owner, pdState, suspLvl, end, handler, after>>
      /\ \A d \in CPU \ {c} : lvl'[d] = lvl[d] /\ info'[d] = info[d]
  BY <1>0 DEF CoordinateLevel, TypeOK
<1>3. /\ req' = requests
      /\ \A l \in Lvl \ {k} : info'[c][l] = info[c][l]
      /\ info'[c][k] = RUN \/ info'[c][k] = TargetState(states)
  <2>1. req' = requests
    BY DEF CoordinateLevel
  <2>2. PICK r : info' = [info EXCEPT ![c][k] = r] /\ (r = RUN \/ r = TargetState(states))
    BY DEF CoordinateLevel
  <2>3. k \in 0..MaxLvl
    BY <1>1, TreeFacts
  <2> QED
    BY <1>0, <2>1, <2>2, <2>3, TreeFacts DEF TypeOK, PowerState
<1>4. requests \in [CPU -> [Lvl -> LocalState]]
  <2>1. info[c][k] \in LocalState
    BY <1>0, <1>1, TreeFacts DEF TypeOK, PowerState
  <2> QED
    BY <1>0, <1>1, <2>1 DEF TypeOK
<1> HIDE DEF k, requests
<1>5. info'[c][k] \in LocalState /\ \A d \in CPU : Anc[d][k] = n => info'[c][k] <= requests[d][k]
  <2>1. states \subseteq LocalState /\ requests[c][k] \in states
    BY <1>1, <1>4 DEF Domain
  <2>2. TargetState(states) \in states /\ \A r \in states : TargetState(states) <= r
    <3> HIDE DEF states
    <3> QED
      BY <2>1, TargetStateIsLeast
  <2>3. \A d \in CPU : Anc[d][k] = n => requests[d][k] \in states
    BY DEF Domain
  <2>4. \A d \in CPU : requests[d][k] \in LocalState
    BY <1>1, <1>4
  <2> HIDE DEF states, n
  <2>5. CASE info'[c][k] = RUN
    BY <2>4, <2>5 DEF LocalState, RUN, OFF
  <2>6. CASE info'[c][k] = TargetState(states)
    BY <2>1, <2>2, <2>3, <2>6
  <2> QED
    BY <1>3, <2>5, <2>6
<1>6. /\ \A d \in CPU : \A l \in Lvl : (d # c \/ l # k) => req'[d][l] = req[d][l]
      /\ req'[c][k] = info[c][k]
  BY <1>0, <1>1, <1>3 DEF TypeOK, requests
<1>7. TypeOK'
  <2>1. lvl' \in [CPU -> 0..(MaxLvl + 1)]
    BY <1>0, <1>1, SizeAssumption DEF CoordinateLevel, TypeOK, k
  <2>2. info' \in [CPU -> PowerState]
    <3>1. PICK r : info' = [info EXCEPT ![c][k] = r]
      BY DEF CoordinateLevel, k
    <3>2. k \in 0..MaxLvl /\ info[c] \in PowerState
      BY <1>0, <1>1, TreeFacts DEF TypeOK
    <3>3. r \in LocalState
      BY <1>0, <1>5, <3>1, <3>2 DEF TypeOK, PowerState
    <3>4. [info[c] EXCEPT ![k] = r] \in PowerState
      BY <3>2, <3>3 DEF PowerState
    <3> QED
      BY <1>0, <3>1, <3>4 DEF TypeOK
  <2> QED
    BY <1>0, <1>3, <1>4, <2>1, <2>2 DEF CoordinateLevel, TypeOK
<1>h. Holds(c, k)
  BY <1>1 DEF Holds
<1>8. LocksOK'
  <2> SUFFICES ASSUME NEW d \in CPU, NEW l \in Lvl
               PROVE  (owner[Anc[d][l]] = d <=> Holds(d, l))'
    BY DEF LocksOK
  <2>1. owner[Anc[d][l]] = d <=> Holds(d, l)
    BY DEF CoordInv, LocksOK
  <2>2. Holds(d, l)' <=> Holds(d, l)
    BY <1>1, <1>2 DEF Holds
  <2> QED
    BY <1>2, <2>1, <2>2
<1>9. ASSUME NEW d \in CPU PROVE ControlOK(d)'
  <2>1. ControlOK(d)
    BY DEF CoordInv
  <2>2. CASE d = c
    BY <1>0, <1>1, <1>2, <2>1, <2>2, SizeAssumption DEF ControlOK, k
  <2>3. CASE d # c
    BY <1>2, <2>1, <2>3 DEF ControlOK
  <2> QED
    BY <2>2, <2>3
<1>10. RequestsOK'
  <2> SUFFICES ASSUME NEW d \in CPU, NEW l \in RunLevels(d)' PROVE req'[d][l] = RUN
    BY DEF RequestsOK
  <2>1. l \in RunLevels(d) /\ (d # c \/ l # k) /\ l \in Lvl
    <3>1. CASE d = c
      BY <1>0, <1>1, <1>2, <3>1, LvlFacts, SizeAssumption DEF RunLevels, Running, NormalWorld, ControlOK, k
    <3>2. CASE d # c
      BY <1>2, <3>2 DEF RunLevels, Running
    <3> QED
      BY <3>1, <3>2
  <2> QED
    BY <1>6, <2>1 DEF CoordInv, RequestsOK
<1>11. ResultsOK'
  <2> SUFFICES ASSUME NEW e \in CPU, NEW l \in Computed(e)', NEW d \in CPU, Anc[d][l] = Anc[e][l]
               PROVE  info'[e][l] <= req'[d][l]
    BY DEF ResultsOK
  <2>1. CASE e = c /\ l = k
    BY <1>3, <1>5, <2>1 DEF n
  <2>2. CASE e = c /\ l # k
    <3>1. l \in Computed(c)
      BY <1>1, <1>2, <2>2, LvlFacts DEF Computed, k
    <3> QED
      BY <1>3, <1>6, <2>2, <3>1, ComputedIsHeld DEF CoordInv, ResultsOK
  <2>3. CASE e # c
    <3>1. l \in Computed(e)
      BY <1>2, <2>3 DEF Computed
    <3>2. ~(d = c /\ l = k)
      BY <1>h, <2>3, <3>1, ComputedIsHeld, LockExcludes
    <3> QED
      BY <1>2, <1>6, <2>3, <3>1, <3>2, ComputedIsHeld DEF CoordInv, ResultsOK
  <2> QED
    BY <2>1, <2>2, <2>3
<1>12. NoDeeperThanRequested'
  <2> SUFFICES ASSUME NEW d \in CPU, NEW l \in Lvl PROVE pdState[Anc[d][l]] <= req'[d][l]
    BY <1>2 DEF NoDeeperThanRequested
  <2>1. pdState[Anc[d][l]] <= req[d][l] /\ pdState[Anc[d][l]] \in LocalState
    BY <1>0, TreeFacts DEF CoordInv, NoDeeperThanRequested, TypeOK
  <2>2. CASE d = c /\ l = k
    <3>1. k \in RunLevels(c)
      BY <1>0, <1>1 DEF RunLevels, k
    <3>2. req[c][k] = RUN
      BY <3>1 DEF CoordInv, RequestsOK
    <3>3. info[c][k] \in LocalState
      BY <1>0, <1>1, TreeFacts DEF TypeOK, PowerState
    <3> QED
      BY <1>6, <2>1, <2>2, <3>2, <3>3 DEF LocalState, RUN, OFF
  <2>3. CASE d # c \/ l # k
    BY <1>6, <2>1, <2>3
  <2> QED
    BY <2>2, <2>3
<1> QED
  BY <1>7, <1>8, <1>9, <1>10, <1>11, <1>12 DEF CoordInv

(* The computed state of one level is stored.                              *)
LEMMA SetTargetLevelInv ==
  ASSUME CoordInv, NEW c \in CPU, SetTargetLevel(c)
  PROVE  CoordInv'
<1>0. TypeOK /\ ControlOK(c) /\ end[c] \in 0..MaxLvl /\ lvl[c] \in Nat
  BY SizeAssumption DEF CoordInv, TypeOK
<1> DEFINE k == lvl[c]
           n == Anc[c][k]
<1>1. /\ pc[c] = "set_target" /\ k \in Lvl /\ k <= end[c] /\ n \in Node /\ lvl'[c] = k + 1
      /\ pdState' = [pdState EXCEPT ![n] = info[c][k]]
  BY <1>0, TreeFacts, SizeAssumption DEF SetTargetLevel, ControlOK, TypeOK, Lvl
<1>2. /\ UNCHANGED <<pc, owner, req, suspLvl, end, info, handler, after>>
      /\ \A d \in CPU \ {c} : lvl'[d] = lvl[d]
  BY <1>0 DEF SetTargetLevel, TypeOK
<1> HIDE DEF k
<1>3. TypeOK'
  <2>1. lvl' \in [CPU -> 0..(MaxLvl + 1)]
    BY <1>0, <1>1, SizeAssumption DEF SetTargetLevel, TypeOK, k
  <2>2. info[c][k] \in LocalState
    BY <1>0, <1>1, TreeFacts DEF TypeOK, PowerState
  <2>3. pdState' \in [Node -> LocalState]
    BY <1>0, <1>1, <2>2 DEF TypeOK
  <2> QED
    BY <1>0, <2>1, <2>3 DEF SetTargetLevel, TypeOK
<1>4. LocksOK'
  <2> SUFFICES ASSUME NEW d \in CPU, NEW l \in Lvl
               PROVE  (owner[Anc[d][l]] = d <=> Holds(d, l))'
    BY DEF LocksOK
  <2>1. owner[Anc[d][l]] = d <=> Holds(d, l)
    BY DEF CoordInv, LocksOK
  <2>2. Holds(d, l)' <=> Holds(d, l)
    BY <1>1, <1>2 DEF Holds
  <2> QED
    BY <1>2, <2>1, <2>2
<1>5. ASSUME NEW d \in CPU PROVE ControlOK(d)'
  <2>1. ControlOK(d)
    BY DEF CoordInv
  <2>2. CASE d = c
    BY <1>0, <1>1, <1>2, <2>1, <2>2, SizeAssumption DEF ControlOK, k
  <2>3. CASE d # c
    BY <1>2, <2>1, <2>3 DEF ControlOK
  <2> QED
    BY <2>2, <2>3
<1>6. RequestsOK'
  <2> SUFFICES ASSUME NEW d \in CPU, NEW l \in RunLevels(d)' PROVE req[d][l] = RUN
    BY <1>2 DEF RequestsOK
  <2>1. l \in RunLevels(d)
    BY <1>1, <1>2 DEF RunLevels, Running
  <2> QED
    BY <2>1 DEF CoordInv, RequestsOK
<1>7. ResultsOK'
  <2> SUFFICES ASSUME NEW e \in CPU, NEW l \in Computed(e)', NEW d \in CPU, Anc[d][l] = Anc[e][l]
               PROVE  info[e][l] <= req[d][l]
    BY <1>2 DEF ResultsOK
  <2>1. l \in Computed(e)
    BY <1>1, <1>2 DEF Computed
  <2> QED
    BY <2>1 DEF CoordInv, ResultsOK
<1>8. NoDeeperThanRequested'
  <2> SUFFICES ASSUME NEW d \in CPU, NEW l \in Lvl PROVE pdState'[Anc[d][l]] <= req[d][l]
    BY <1>2 DEF NoDeeperThanRequested
  <2>1. CASE Anc[d][l] = n
    <3>1. l = k /\ k \in Computed(c)
      BY <1>1, <2>1, TreeFacts DEF Computed
    <3>2. info[c][k] <= req[d][k]
      BY <2>1, <3>1 DEF CoordInv, ResultsOK
    <3> QED
      BY <1>0, <1>1, <2>1, <3>1, <3>2 DEF TypeOK
  <2>2. CASE Anc[d][l] # n
    <3>1. pdState'[Anc[d][l]] = pdState[Anc[d][l]]
      BY <1>0, <1>1, <2>2, TreeFacts DEF TypeOK
    <3> QED
      BY <3>1 DEF CoordInv, NoDeeperThanRequested
  <2> QED
    BY <2>1, <2>2
<1> QED
  BY <1>3, <1>4, <1>5, <1>6, <1>7, <1>8 DEF CoordInv

(* A domain of a CPU that starts to run, and its request, are set to RUN.  *)
LEMMA RunLevelInv ==
  ASSUME CoordInv, NEW c \in CPU, RunLevel(c)
  PROVE  CoordInv'
<1>0. TypeOK /\ ControlOK(c) /\ end[c] \in 0..MaxLvl /\ lvl[c] \in Nat
  BY SizeAssumption DEF CoordInv, TypeOK
<1> DEFINE k == lvl[c]
           n == Anc[c][k]
<1>1. /\ pc[c] = "run" /\ k \in Lvl /\ k <= end[c] /\ n \in Node /\ lvl'[c] = k + 1
      /\ pdState' = [pdState EXCEPT ![n] = RUN] /\ req' = [req EXCEPT ![c][k] = RUN]
  BY <1>0, TreeFacts, SizeAssumption DEF RunLevel, ControlOK, TypeOK, Lvl
<1>2. /\ UNCHANGED <<pc, owner, suspLvl, end, info, handler, after>>
      /\ \A d \in CPU \ {c} : lvl'[d] = lvl[d]
  BY <1>0 DEF RunLevel, TypeOK
<1> HIDE DEF k
<1>3. /\ \A d \in CPU : \A l \in Lvl : (d # c \/ l # k) => req'[d][l] = req[d][l]
      /\ req'[c][k] = RUN
  BY <1>0, <1>1 DEF TypeOK
<1>4. TypeOK'
  <2>1. lvl' \in [CPU -> 0..(MaxLvl + 1)]
    BY <1>0, <1>1, SizeAssumption DEF RunLevel, TypeOK, k
  <2>2. pdState' \in [Node -> LocalState] /\ req' \in [CPU -> [Lvl -> LocalState]]
    BY <1>0, <1>1 DEF TypeOK, LocalState, RUN, OFF
  <2> QED
    BY <1>0, <2>1, <2>2 DEF RunLevel, TypeOK
<1>h. Holds(c, k)
  BY <1>1 DEF Holds
<1>5. LocksOK'
  <2> SUFFICES ASSUME NEW d \in CPU, NEW l \in Lvl
               PROVE  (owner[Anc[d][l]] = d <=> Holds(d, l))'
    BY DEF LocksOK
  <2>1. owner[Anc[d][l]] = d <=> Holds(d, l)
    BY DEF CoordInv, LocksOK
  <2>2. Holds(d, l)' <=> Holds(d, l)
    BY <1>1, <1>2 DEF Holds
  <2> QED
    BY <1>2, <2>1, <2>2
<1>6. ASSUME NEW d \in CPU PROVE ControlOK(d)'
  <2>1. ControlOK(d)
    BY DEF CoordInv
  <2>2. CASE d = c
    BY <1>0, <1>1, <1>2, <2>1, <2>2, SizeAssumption DEF ControlOK, k
  <2>3. CASE d # c
    BY <1>2, <2>1, <2>3 DEF ControlOK
  <2> QED
    BY <2>2, <2>3
<1>7. RequestsOK'
  <2> SUFFICES ASSUME NEW d \in CPU, NEW l \in RunLevels(d)' PROVE req'[d][l] = RUN
    BY DEF RequestsOK
  <2>1. CASE d = c /\ l = k
    BY <1>3, <2>1
  <2>2. CASE d # c \/ l # k
    <3>1. l \in RunLevels(d) /\ l \in Lvl
      BY <1>1, <1>2, <2>2, LvlFacts DEF RunLevels, Running, k
    <3> QED
      BY <1>3, <2>2, <3>1 DEF CoordInv, RequestsOK
  <2> QED
    BY <2>1, <2>2
<1>8. ResultsOK'
  <2> SUFFICES ASSUME NEW e \in CPU, NEW l \in Computed(e)', NEW d \in CPU, Anc[d][l] = Anc[e][l]
               PROVE  info[e][l] <= req'[d][l]
    BY <1>2 DEF ResultsOK
  <2>1. l \in Computed(e) /\ e # c
    BY <1>1, <1>2 DEF Computed
  <2>2. ~(d = c /\ l = k)
    BY <1>h, <2>1, ComputedIsHeld, LockExcludes
  <2> QED
    BY <1>3, <2>1, <2>2, ComputedIsHeld DEF CoordInv, ResultsOK
<1>9. NoDeeperThanRequested'
  <2> SUFFICES ASSUME NEW d \in CPU, NEW l \in Lvl PROVE pdState'[Anc[d][l]] <= req'[d][l]
    BY DEF NoDeeperThanRequested
  <2>0. req'[d][l] \in LocalState
    BY <1>4 DEF TypeOK
  <2>1. CASE Anc[d][l] = n
    BY <1>0, <1>1, <2>0, <2>1 DEF TypeOK, LocalState, RUN, OFF
  <2>2. CASE Anc[d][l] # n
    <3>1. pdState'[Anc[d][l]] = pdState[Anc[d][l]] /\ (d # c \/ l # k)
      BY <1>0, <1>1, <2>2, TreeFacts DEF TypeOK
    <3> QED
      BY <1>3, <3>1 DEF CoordInv, NoDeeperThanRequested
  <2> QED
    BY <2>1, <2>2
<1> QED
  BY <1>4, <1>5, <1>6, <1>7, <1>8, <1>9 DEF CoordInv

(* Every step keeps the invariant of the coordination.                     *)
LEMMA CoordNext ==
  ASSUME CoordInv, [Next]_vars,
         \A c \in CPU : aff[c] = "ON_PENDING" => suspLvl[c] = NoLvl
  PROVE  CoordInv'
<1>1. CASE UNCHANGED vars
  <2>1. /\ TypeOK' /\ LocksOK' /\ RequestsOK' /\ ResultsOK' /\ NoDeeperThanRequested'
        /\ \A c \in CPU : ControlOK(c)'
    <3> USE <1>1 DEF CoordInv, vars, shared, locals
    <3>1. TypeOK'
      BY DEF TypeOK
    <3>2. LocksOK' /\ RequestsOK' /\ ResultsOK' /\ NoDeeperThanRequested'
      BY DEF LocksOK, Holds, RequestsOK, RunLevels, Running, ResultsOK, Computed, NoDeeperThanRequested
    <3>3. ASSUME NEW c \in CPU PROVE ControlOK(c)'
      BY DEF ControlOK
    <3> QED
      BY <3>1, <3>2, <3>3
  <2> QED
    BY <2>1 DEF CoordInv
<1>2. ASSUME NEW c \in CPU,
             Firmware(c) \/ OnLock(c) \/ OnFinishSync(c) \/ AcquireLock(c) \/ PowerUp(c)
             \/ Call(c) \/ Wake(c)
      PROVE  CoordInv'
  BY <1>2, NormalWorldInv, DownInv, StartAcquireInv, StartReleaseInv, ReleasedInv,
     StartCoordinationInv, CoordinatedInv, FinishInv, AcquireLockInv, ReleaseLockInv,
     CoordinateLevelInv, SetTargetLevelInv, RunLevelInv
     DEF Firmware, Call, Wake
<1> QED
  BY <1>1, <1>2 DEF Next

-----------------------------------------------------------------------------
(* CPU_ON and the boot of its target, settled domains, and the theorems.   *)

(* Initially only CPU 0 runs.                                              *)
LEMMA InitOn == Init => OnInv
<1> SUFFICES ASSUME Init PROVE OnInv
  OBVIOUS
<1> USE TreeFacts DEF Init, RUN, RET, OFF, NoLvl, NoCpu
<1>1. SpinLocksOK
  BY DEF SpinLocksOK, TurningOn
<1>2. ASSUME NEW c \in CPU PROVE TargetOK(c) /\ AffInfoOK(c) /\ SuspendedOK(c) /\ ContextOK(c)
  BY DEF TargetOK, AffInfoOK, Booting, SuspendedOK, ContextOK
<1> QED
  BY <1>1, <1>2 DEF OnInv

(* The state of the CPUs other than c, as far as OnInv is about it.        *)
OthersAlike(c) ==
  \A d \in CPU \ {c} :
    UNCHANGED <<pc[d], handler[d], target[d], aff[d], powerOn[d], suspLvl[d], context[d], cpuState[d],
                info[d]>>

(* A step of c outside psci_cpu_on_start keeps the invariant if it keeps   *)
(* what the invariant says of c, and of c as the target of a CPU_ON.       *)
LEMMA OwnStep ==
  ASSUME IInv, NEW c \in CPU, OthersAlike(c), cpuLock' = cpuLock,
         ~TurningOn(c), ~TurningOn(c)', pc'[c] = "on_lock" => target'[c] \in CPU,
         \A d \in CPU \ {c} : TurningOn(d) /\ target[d] = c => TargetOK(d)',
         AffInfoOK(c)', SuspendedOK(c)', ContextOK(c)'
  PROVE  OnInv'
<1> USE DEF OthersAlike
<1>1. SpinLocksOK'
  <2> SUFFICES ASSUME NEW d \in CPU
               PROVE  /\ (pc'[d] = "on_lock" \/ TurningOn(d)') => target'[d] \in CPU
                      /\ \A t \in CPU : cpuLock[t] = d <=> (TurningOn(d)' /\ target'[d] = t)
    BY DEF SpinLocksOK
  <2>0. /\ (pc[d] = "on_lock" \/ TurningOn(d)) => target[d] \in CPU
        /\ \A t \in CPU : cpuLock[t] = d <=> (TurningOn(d) /\ target[d] = t)
    BY DEF IInv, OnInv, SpinLocksOK
  <2>1. CASE d = c
    BY <2>0, <2>1
  <2>2. CASE d # c
    BY <2>0, <2>2 DEF TurningOn
  <2> QED
    BY <2>1, <2>2
<1>2. ASSUME NEW d \in CPU PROVE TargetOK(d)'
  <2>0. TargetOK(d) /\ (TurningOn(d) => target[d] \in CPU)
    BY DEF IInv, OnInv, SpinLocksOK
  <2>1. CASE ~TurningOn(d)'
    BY <2>1 DEF TurningOn, TargetOK
  <2>2. CASE TurningOn(d)' /\ d # c /\ target[d] = c
    BY <2>2 DEF TurningOn
  <2>3. CASE TurningOn(d)' /\ d # c /\ target[d] # c
    BY <2>0, <2>3 DEF TurningOn, TargetOK
  <2> QED
    BY <2>1, <2>2, <2>3
<1>3. ASSUME NEW d \in CPU PROVE AffInfoOK(d)' /\ SuspendedOK(d)' /\ ContextOK(d)'
  <2>1. CASE d = c
    BY <2>1
  <2>2. CASE d # c
    <3>0. AffInfoOK(d) /\ SuspendedOK(d) /\ ContextOK(d)
      BY DEF IInv, OnInv
    <3>1. AffInfoOK(d)' /\ SuspendedOK(d)'
      BY <2>2, <3>0 DEF AffInfoOK, Booting, SuspendedOK
    <3>2. cpuLock[d] # c
      BY DEF IInv, OnInv, SpinLocksOK
    <3>3. ContextOK(d)'
      BY <2>2, <3>0, <3>2 DEF ContextOK
    <3> QED
      BY <3>1, <3>3
  <2> QED
    BY <2>1, <2>2
<1> QED
  BY <1>1, <1>2, <1>3 DEF OnInv

(* A step of psci_cpu_on_start, of c for its target t, touches no other    *)
(* CPU, since c has the spin lock of t or is about to get it.              *)
LEMMA CallerStep ==
  ASSUME IInv, NEW c \in CPU, NEW t \in CPU, target[c] = t,
         pc[c] \in NormalWorld, pc'[c] \in NormalWorld,
         \A d \in CPU \ {c} : UNCHANGED <<pc[d], target[d]>>,
         \A d \in CPU \ {t} : UNCHANGED <<aff[d], powerOn[d], context[d], cpuLock[d]>>,
         UNCHANGED <<handler, suspLvl, cpuState, info>>,
         cpuLock[t] \in {c, NoCpu},
         TurningOn(c)' => (target'[c] = t /\ cpuLock'[t] = c),
         ~TurningOn(c)' => (pc'[c] # "on_lock" /\ cpuLock'[t] = NoCpu),
         TargetOK(c)', AffInfoOK(t)', SuspendedOK(t)', ContextOK(t)'
  PROVE  OnInv'
<1>0. /\ \A d \in CPU : (pc[d] = "on_lock" \/ TurningOn(d)) => target[d] \in CPU
      /\ \A d, e \in CPU : cpuLock[e] = d <=> (TurningOn(d) /\ target[d] = e)
  BY DEF IInv, OnInv, SpinLocksOK
<1>1. \A d \in CPU \ {c} : TurningOn(d) => target[d] # t
  BY <1>0, TreeFacts
<1>2. SpinLocksOK'
  <2> SUFFICES ASSUME NEW d \in CPU
               PROVE  /\ (pc'[d] = "on_lock" \/ TurningOn(d)') => target'[d] \in CPU
                      /\ \A e \in CPU : cpuLock'[e] = d <=> (TurningOn(d)' /\ target'[d] = e)
    BY DEF SpinLocksOK
  <2>1. CASE d = c
    <3>1. \A e \in CPU \ {t} : cpuLock'[e] # c
      BY <1>0
    <3> QED
      BY <2>1, <3>1, TreeFacts DEF TurningOn
  <2>2. CASE d # c
    <3>1. TurningOn(d)' <=> TurningOn(d)
      BY <2>2 DEF TurningOn
    <3>2. cpuLock'[t] # d /\ cpuLock[t] # d
      BY <2>2, TreeFacts
    <3> QED
      BY <1>0, <1>1, <2>2, <3>1, <3>2
  <2> QED
    BY <2>1, <2>2
<1>3. ASSUME NEW d \in CPU PROVE TargetOK(d)'
  <2>0. TargetOK(d)
    BY DEF IInv, OnInv
  <2>1. CASE d = c
    BY <2>1
  <2>2. CASE d # c /\ ~TurningOn(d)
    BY <2>2 DEF TargetOK, TurningOn
  <2>3. CASE d # c /\ TurningOn(d)
    <3> DEFINE e == target[d]
    <3>1. e \in CPU /\ e # t /\ target'[d] = e /\ pc'[d] = pc[d]
      BY <1>0, <1>1, <2>3
    <3>a. aff'[e] = aff[e] /\ powerOn'[e] = powerOn[e]
      BY <3>1
    <3>2. pc'[e] = pc[e] \/ (pc[e] \in NormalWorld /\ pc'[e] \in NormalWorld)
      BY <3>1
    <3> HIDE DEF e
    <3>3. /\ pc[d] = "on_pending" => aff[e] = "OFF"
          /\ pc[d] = "on_power" =>
               aff[e] = "ON_PENDING" /\ ~powerOn[e] /\ pc[e] \in {"dying", "down"}
          /\ pc[d] = "on_context" => aff[e] = "ON_PENDING" /\ pc[e] # "run"
      BY <2>0 DEF TargetOK, e
    <3> QED
      BY <3>1, <3>a, <3>2, <3>3 DEF TargetOK, NormalWorld
  <2> QED
    BY <2>1, <2>2, <2>3
<1>4. ASSUME NEW d \in CPU PROVE AffInfoOK(d)' /\ SuspendedOK(d)' /\ ContextOK(d)'
  <2>0. AffInfoOK(d) /\ SuspendedOK(d) /\ ContextOK(d)
    BY DEF IInv, OnInv
  <2>1. CASE d = t
    BY <2>1
  <2>2. CASE d # t
    <3>1. pc'[d] = pc[d] \/ (pc[d] \in NormalWorld /\ pc'[d] \in NormalWorld)
      OBVIOUS
    <3>2. AffInfoOK(d)' /\ SuspendedOK(d)'
      BY <2>0, <2>2, <3>1 DEF AffInfoOK, Booting, SuspendedOK, NormalWorld
    <3>3. cpuLock'[d] = cpuLock[d] /\ cpuLock[d] # c
      BY <1>0, <2>2
    <3>4. ContextOK(d)'
      BY <2>0, <2>2, <3>1, <3>3 DEF ContextOK, NormalWorld
    <3> QED
      BY <3>2, <3>4
  <2> QED
    BY <2>1, <2>2
<1> QED
  BY <1>2, <1>3, <1>4 DEF OnInv

(* A step that changes nothing OnInv is about.                             *)
LEMMA UnaffectedStep ==
  ASSUME IInv,
         UNCHANGED <<pc, handler, target, aff, powerOn, suspLvl, context, cpuState, cpuLock>>,
         \A d \in CPU : info'[d][0] = info[d][0]
  PROVE  OnInv'
<1>1. SpinLocksOK'
  BY DEF IInv, OnInv, SpinLocksOK, TurningOn
<1>2. ASSUME NEW d \in CPU PROVE TargetOK(d)' /\ AffInfoOK(d)' /\ SuspendedOK(d)' /\ ContextOK(d)'
  <2>1. TargetOK(d) /\ AffInfoOK(d) /\ SuspendedOK(d) /\ ContextOK(d)
    BY DEF IInv, OnInv
  <2> QED
    BY <2>1 DEF TargetOK, AffInfoOK, Booting, SuspendedOK, ContextOK
<1> QED
  BY <1>1, <1>2 DEF OnInv

(* A CPU that is neither down nor booting is ON.                           *)
LEMMA AwakeIsOn ==
  ASSUME IInv, NEW c \in CPU, pc[c] \notin {"dying", "down", "sync", "run"}, ~Booting(c)
  PROVE  aff[c] = "ON"
<1>1. AffInfoOK(c) /\ aff[c] \in {"ON", "OFF", "ON_PENDING"}
  BY DEF IInv, OnInv, CoordInv, TypeOK
<1> QED
  BY <1>1 DEF AffInfoOK

(* A step of a CPU that is ON, and stays ON: no CPU_ON has got hold of it. *)
LEMMA AwakeStep ==
  ASSUME IInv, NEW c \in CPU, OthersAlike(c), UNCHANGED <<cpuLock, aff, powerOn>>,
         aff[c] = "ON", ~TurningOn(c), ~TurningOn(c)', pc'[c] = "on_lock" => target'[c] \in CPU,
         pc'[c] \notin {"dying", "sync", "panic"},
         pc'[c] = "run" => handler'[c] = "standby_finish",
         (pc'[c] = "down" \/ Booting(c)') => suspLvl'[c] # NoLvl,
         SuspendedOK(c)'
  PROVE  OnInv'
<1>0. AffInfoOK(c) /\ \A d \in CPU : TargetOK(d)
  BY DEF IInv, OnInv
<1>1. \A d \in CPU \ {c} : TurningOn(d) /\ target[d] = c => TargetOK(d)'
  <2> SUFFICES ASSUME NEW d \in CPU \ {c}, TurningOn(d), target[d] = c PROVE TargetOK(d)'
    OBVIOUS
  <2>1. pc'[d] = pc[d] /\ pc[d] \notin {"on_pending", "on_power", "on_context"}
    BY <1>0 DEF TargetOK, OthersAlike
  <2> QED
    BY <2>1 DEF TargetOK
<1>2. AffInfoOK(c)'
  BY <1>0 DEF AffInfoOK
<1>3. ContextOK(c)'
  BY DEF ContextOK
<1> QED
  BY <1>1, <1>2, <1>3, OwnStep

(* The steps of a CPU that is ON: the calls, up to the last WFI.           *)
LEMMA AwakeInv ==
  ASSUME IInv, NEW c \in CPU,
         \/ \E t \in CPU : CpuOn(c, t)
         \/ \E s \in PowerStates : CpuStandby(c, s) \/ CpuSuspend(c, s)
         \/ StandbyExit(c) \/ SystemSuspend(c)
         \/ LastOnCheck(c) \/ LastOn(c) \/ CpuOff(c) \/ OffDenied(c) \/ OffCoordinate(c)
         \/ OffRelease(c) \/ SuspendAbandon(c) \/ SuspendCoordinate(c) \/ Coordinated(c)
         \/ PwrDownRelease(c) \/ StandbyRelease(c) \/ Released(c) \/ WakeStandby(c)
         \/ StandbyFinish(c)
  PROVE  OnInv'
<1>0. TypeOK /\ ControlOK(c) /\ SuspendedOK(c)
  BY DEF IInv, CoordInv, OnInv
<1> USE DEF Goto, StartAcquire, StartRelease, StartCoordination, StartRun, Locked, shared, locals
<1>1. CASE \E t \in CPU : CpuOn(c, t)
  <2>1. /\ pc[c] \notin {"dying", "down", "sync", "run"} /\ ~Booting(c)
        /\ ~TurningOn(c) /\ ~TurningOn(c)' /\ (pc'[c] = "on_lock" => target'[c] \in CPU)
        /\ pc'[c] \notin {"dying", "sync", "panic"}
    BY <1>0, <1>1 DEF CpuOn, TypeOK, ControlOK, Booting, TurningOn
  <2>2. OthersAlike(c) /\ UNCHANGED <<cpuLock, aff, powerOn>>
    BY <1>0, <1>1 DEF CpuOn, TypeOK, OthersAlike
  <2>3. /\ pc'[c] = "run" => handler'[c] = "standby_finish"
        /\ (pc'[c] = "down" \/ Booting(c)') => suspLvl'[c] # NoLvl
    BY <1>0, <1>1, SizeAssumption DEF CpuOn, TypeOK, ControlOK, Booting, NoLvl
  <2>4. SuspendedOK(c)'
    BY <1>0, <1>1, SizeAssumption DEF CpuOn, TypeOK, ControlOK, SuspendedOK, Booting, PowerState
  <2> QED
    BY <2>1, <2>2, <2>3, <2>4, AwakeIsOn, AwakeStep
<1>2. CASE \E s \in PowerStates : CpuStandby(c, s)
  <2>1. /\ pc[c] \notin {"dying", "down", "sync", "run"} /\ ~Booting(c)
        /\ ~TurningOn(c) /\ ~TurningOn(c)' /\ (pc'[c] = "on_lock" => target'[c] \in CPU)
        /\ pc'[c] \notin {"dying", "sync", "panic"}
    BY <1>0, <1>2 DEF CpuStandby, TypeOK, ControlOK, Booting, TurningOn
  <2>2. OthersAlike(c) /\ UNCHANGED <<cpuLock, aff, powerOn>>
    BY <1>0, <1>2 DEF CpuStandby, TypeOK, OthersAlike
  <2>3. /\ pc'[c] = "run" => handler'[c] = "standby_finish"
        /\ (pc'[c] = "down" \/ Booting(c)') => suspLvl'[c] # NoLvl
    BY <1>0, <1>2, SizeAssumption DEF CpuStandby, TypeOK, ControlOK, Booting, NoLvl
  <2>4. SuspendedOK(c)'
    BY <1>0, <1>2, SizeAssumption DEF CpuStandby, TypeOK, ControlOK, SuspendedOK, Booting, PowerState
  <2> QED
    BY <2>1, <2>2, <2>3, <2>4, AwakeIsOn, AwakeStep
<1>3. CASE \E s \in PowerStates : CpuSuspend(c, s)
  <2>1. /\ pc[c] \notin {"dying", "down", "sync", "run"} /\ ~Booting(c)
        /\ ~TurningOn(c) /\ ~TurningOn(c)' /\ (pc'[c] = "on_lock" => target'[c] \in CPU)
        /\ pc'[c] \notin {"dying", "sync", "panic"}
    BY <1>0, <1>3 DEF CpuSuspend, TypeOK, ControlOK, Booting, TurningOn
  <2>2. OthersAlike(c) /\ UNCHANGED <<cpuLock, aff, powerOn>>
    BY <1>0, <1>3 DEF CpuSuspend, TypeOK, OthersAlike
  <2>3. /\ pc'[c] = "run" => handler'[c] = "standby_finish"
        /\ (pc'[c] = "down" \/ Booting(c)') => suspLvl'[c] # NoLvl
    BY <1>0, <1>3, SizeAssumption DEF CpuSuspend, TypeOK, ControlOK, Booting, NoLvl
  <2>4. SuspendedOK(c)'
    BY <1>0, <1>3, SizeAssumption DEF CpuSuspend, TypeOK, ControlOK, SuspendedOK, Booting, PowerState
  <2> QED
    BY <2>1, <2>2, <2>3, <2>4, AwakeIsOn, AwakeStep
<1>4. CASE StandbyExit(c)
  <2>1. /\ pc[c] \notin {"dying", "down", "sync", "run"} /\ ~Booting(c)
        /\ ~TurningOn(c) /\ ~TurningOn(c)' /\ (pc'[c] = "on_lock" => target'[c] \in CPU)
        /\ pc'[c] \notin {"dying", "sync", "panic"}
    BY <1>0, <1>4 DEF StandbyExit, TypeOK, ControlOK, Booting, TurningOn
  <2>2. OthersAlike(c) /\ UNCHANGED <<cpuLock, aff, powerOn>>
    BY <1>0, <1>4 DEF StandbyExit, TypeOK, OthersAlike
  <2>3. /\ pc'[c] = "run" => handler'[c] = "standby_finish"
        /\ (pc'[c] = "down" \/ Booting(c)') => suspLvl'[c] # NoLvl
    BY <1>0, <1>4, SizeAssumption DEF StandbyExit, TypeOK, ControlOK, Booting, NoLvl
  <2>4. SuspendedOK(c)'
    BY <1>0, <1>4, SizeAssumption DEF StandbyExit, TypeOK, ControlOK, SuspendedOK, Booting, PowerState
  <2> QED
    BY <2>1, <2>2, <2>3, <2>4, AwakeIsOn, AwakeStep
<1>5. CASE SystemSuspend(c)
  <2>1. /\ pc[c] \notin {"dying", "down", "sync", "run"} /\ ~Booting(c)
        /\ ~TurningOn(c) /\ ~TurningOn(c)' /\ (pc'[c] = "on_lock" => target'[c] \in CPU)
        /\ pc'[c] \notin {"dying", "sync", "panic"}
    BY <1>0, <1>5 DEF SystemSuspend, TypeOK, ControlOK, Booting, TurningOn
  <2>2. OthersAlike(c) /\ UNCHANGED <<cpuLock, aff, powerOn>>
    BY <1>0, <1>5 DEF SystemSuspend, TypeOK, OthersAlike
  <2>3. /\ pc'[c] = "run" => handler'[c] = "standby_finish"
        /\ (pc'[c] = "down" \/ Booting(c)') => suspLvl'[c] # NoLvl
    BY <1>0, <1>5, SizeAssumption DEF SystemSuspend, TypeOK, ControlOK, Booting, NoLvl
  <2>4. SuspendedOK(c)'
    BY <1>0, <1>5, SizeAssumption DEF SystemSuspend, TypeOK, ControlOK, SuspendedOK, Booting, PowerState
  <2> QED
    BY <2>1, <2>2, <2>3, <2>4, AwakeIsOn, AwakeStep
<1>6. CASE LastOnCheck(c)
  <2>1. /\ pc[c] \notin {"dying", "down", "sync", "run"} /\ ~Booting(c)
        /\ ~TurningOn(c) /\ ~TurningOn(c)' /\ (pc'[c] = "on_lock" => target'[c] \in CPU)
        /\ pc'[c] \notin {"dying", "sync", "panic"}
    BY <1>0, <1>6 DEF LastOnCheck, TypeOK, ControlOK, Booting, TurningOn
  <2>2. OthersAlike(c) /\ UNCHANGED <<cpuLock, aff, powerOn>>
    BY <1>0, <1>6 DEF LastOnCheck, TypeOK, OthersAlike
  <2>3. /\ pc'[c] = "run" => handler'[c] = "standby_finish"
        /\ (pc'[c] = "down" \/ Booting(c)') => suspLvl'[c] # NoLvl
    BY <1>0, <1>6, SizeAssumption DEF LastOnCheck, TypeOK, ControlOK, Booting, NoLvl
  <2>4. SuspendedOK(c)'
    BY <1>0, <1>6, SizeAssumption DEF LastOnCheck, TypeOK, ControlOK, SuspendedOK, Booting, PowerState
  <2> QED
    BY <2>1, <2>2, <2>3, <2>4, AwakeIsOn, AwakeStep
<1>7. CASE LastOn(c)
  <2>1. /\ pc[c] \notin {"dying", "down", "sync", "run"} /\ ~Booting(c)
        /\ ~TurningOn(c) /\ ~TurningOn(c)' /\ (pc'[c] = "on_lock" => target'[c] \in CPU)
        /\ pc'[c] \notin {"dying", "sync", "panic"}
    BY <1>0, <1>7 DEF LastOn, TypeOK, ControlOK, Booting, TurningOn
  <2>2. OthersAlike(c) /\ UNCHANGED <<cpuLock, aff, powerOn>>
    BY <1>0, <1>7 DEF LastOn, TypeOK, OthersAlike
  <2>3. /\ pc'[c] = "run" => handler'[c] = "standby_finish"
        /\ (pc'[c] = "down" \/ Booting(c)') => suspLvl'[c] # NoLvl
    BY <1>0, <1>7, SizeAssumption DEF LastOn, TypeOK, ControlOK, Booting, NoLvl
  <2>4. SuspendedOK(c)'
    BY <1>0, <1>7, SizeAssumption DEF LastOn, TypeOK, ControlOK, SuspendedOK, Booting, PowerState
  <2> QED
    BY <2>1, <2>2, <2>3, <2>4, AwakeIsOn, AwakeStep
<1>8. CASE CpuOff(c)
  <2>1. /\ pc[c] \notin {"dying", "down", "sync", "run"} /\ ~Booting(c)
        /\ ~TurningOn(c) /\ ~TurningOn(c)' /\ (pc'[c] = "on_lock" => target'[c] \in CPU)
        /\ pc'[c] \notin {"dying", "sync", "panic"}
    BY <1>0, <1>8 DEF CpuOff, TypeOK, ControlOK, Booting, TurningOn
  <2>2. OthersAlike(c) /\ UNCHANGED <<cpuLock, aff, powerOn>>
    BY <1>0, <1>8 DEF CpuOff, TypeOK, OthersAlike
  <2>3. /\ pc'[c] = "run" => handler'[c] = "standby_finish"
        /\ (pc'[c] = "down" \/ Booting(c)') => suspLvl'[c] # NoLvl
    BY <1>0, <1>8, SizeAssumption DEF CpuOff, TypeOK, ControlOK, Booting, NoLvl
  <2>4. SuspendedOK(c)'
    BY <1>0, <1>8, SizeAssumption DEF CpuOff, TypeOK, ControlOK, SuspendedOK, Booting, PowerState
  <2> QED
    BY <2>1, <2>2, <2>3, <2>4, AwakeIsOn, AwakeStep
<1>9. CASE OffDenied(c)
  <2>1. /\ pc[c] \notin {"dying", "down", "sync", "run"} /\ ~Booting(c)
        /\ ~TurningOn(c) /\ ~TurningOn(c)' /\ (pc'[c] = "on_lock" => target'[c] \in CPU)
        /\ pc'[c] \notin {"dying", "sync", "panic"}
    BY <1>0, <1>9 DEF OffDenied, TypeOK, ControlOK, Booting, TurningOn
  <2>2. OthersAlike(c) /\ UNCHANGED <<cpuLock, aff, powerOn>>
    BY <1>0, <1>9 DEF OffDenied, TypeOK, OthersAlike
  <2>3. /\ pc'[c] = "run" => handler'[c] = "standby_finish"
        /\ (pc'[c] = "down" \/ Booting(c)') => suspLvl'[c] # NoLvl
    BY <1>0, <1>9, SizeAssumption DEF OffDenied, TypeOK, ControlOK, Booting, NoLvl
  <2>4. SuspendedOK(c)'
    BY <1>0, <1>9, SizeAssumption DEF OffDenied, TypeOK, ControlOK, SuspendedOK, Booting, PowerState
  <2> QED
    BY <2>1, <2>2, <2>3, <2>4, AwakeIsOn, AwakeStep
<1>10. CASE OffCoordinate(c)
  <2>1. /\ pc[c] \notin {"dying", "down", "sync", "run"} /\ ~Booting(c)
        /\ ~TurningOn(c) /\ ~TurningOn(c)' /\ (pc'[c] = "on_lock" => target'[c] \in CPU)
        /\ pc'[c] \notin {"dying", "sync", "panic"}
    BY <1>0, <1>10 DEF OffCoordinate, TypeOK, ControlOK, Booting, TurningOn
  <2>2. OthersAlike(c) /\ UNCHANGED <<cpuLock, aff, powerOn>>
    BY <1>0, <1>10 DEF OffCoordinate, TypeOK, OthersAlike
  <2>3. /\ pc'[c] = "run" => handler'[c] = "standby_finish"
        /\ (pc'[c] = "down" \/ Booting(c)') => suspLvl'[c] # NoLvl
    BY <1>0, <1>10, SizeAssumption DEF OffCoordinate, TypeOK, ControlOK, Booting, NoLvl
  <2>4. SuspendedOK(c)'
    BY <1>0, <1>10, SizeAssumption DEF OffCoordinate, TypeOK, ControlOK, SuspendedOK, Booting, PowerState
  <2> QED
    BY <2>1, <2>2, <2>3, <2>4, AwakeIsOn, AwakeStep
<1>11. CASE OffRelease(c)
  <2>1. /\ pc[c] \notin {"dying", "down", "sync", "run"} /\ ~Booting(c)
        /\ ~TurningOn(c) /\ ~TurningOn(c)' /\ (pc'[c] = "on_lock" => target'[c] \in CPU)
        /\ pc'[c] \notin {"dying", "sync", "panic"}
    BY <1>0, <1>11 DEF OffRelease, TypeOK, ControlOK, Booting, TurningOn
  <2>2. OthersAlike(c) /\ UNCHANGED <<cpuLock, aff, powerOn>>
    BY <1>0, <1>11 DEF OffRelease, TypeOK, OthersAlike
  <2>3. /\ pc'[c] = "run" => handler'[c] = "standby_finish"
        /\ (pc'[c] = "down" \/ Booting(c)') => suspLvl'[c] # NoLvl
    BY <1>0, <1>11, SizeAssumption DEF OffRelease, TypeOK, ControlOK, Booting, NoLvl
  <2>4. SuspendedOK(c)'
    BY <1>0, <1>11, SizeAssumption DEF OffRelease, TypeOK, ControlOK, SuspendedOK, Booting, PowerState
  <2> QED
    BY <2>1, <2>2, <2>3, <2>4, AwakeIsOn, AwakeStep
<1>12. CASE SuspendAbandon(c)
  <2>1. /\ pc[c] \notin {"dying", "down", "sync", "run"} /\ ~Booting(c)
        /\ ~TurningOn(c) /\ ~TurningOn(c)' /\ (pc'[c] = "on_lock" => target'[c] \in CPU)
        /\ pc'[c] \notin {"dying", "sync", "panic"}
    BY <1>0, <1>12 DEF SuspendAbandon, TypeOK, ControlOK, Booting, TurningOn
  <2>2. OthersAlike(c) /\ UNCHANGED <<cpuLock, aff, powerOn>>
    BY <1>0, <1>12 DEF SuspendAbandon, TypeOK, OthersAlike
  <2>3. /\ pc'[c] = "run" => handler'[c] = "standby_finish"
        /\ (pc'[c] = "down" \/ Booting(c)') => suspLvl'[c] # NoLvl
    BY <1>0, <1>12, SizeAssumption DEF SuspendAbandon, TypeOK, ControlOK, Booting, NoLvl
  <2>4. SuspendedOK(c)'
    BY <1>0, <1>12, SizeAssumption DEF SuspendAbandon, TypeOK, ControlOK, SuspendedOK, Booting, PowerState
  <2> QED
    BY <2>1, <2>2, <2>3, <2>4, AwakeIsOn, AwakeStep
<1>13. CASE SuspendCoordinate(c)
  <2>1. /\ pc[c] \notin {"dying", "down", "sync", "run"} /\ ~Booting(c)
        /\ ~TurningOn(c) /\ ~TurningOn(c)' /\ (pc'[c] = "on_lock" => target'[c] \in CPU)
        /\ pc'[c] \notin {"dying", "sync", "panic"}
    BY <1>0, <1>13 DEF SuspendCoordinate, TypeOK, ControlOK, Booting, TurningOn
  <2>2. OthersAlike(c) /\ UNCHANGED <<cpuLock, aff, powerOn>>
    BY <1>0, <1>13 DEF SuspendCoordinate, TypeOK, OthersAlike
  <2>3. /\ pc'[c] = "run" => handler'[c] = "standby_finish"
        /\ (pc'[c] = "down" \/ Booting(c)') => suspLvl'[c] # NoLvl
    BY <1>0, <1>13, SizeAssumption DEF SuspendCoordinate, TypeOK, ControlOK, Booting, NoLvl
  <2>4. SuspendedOK(c)'
    BY <1>0, <1>13, SizeAssumption DEF SuspendCoordinate, TypeOK, ControlOK, SuspendedOK, Booting, PowerState
  <2> QED
    BY <2>1, <2>2, <2>3, <2>4, AwakeIsOn, AwakeStep
<1>14. CASE Coordinated(c)
  <2>1. /\ pc[c] \notin {"dying", "down", "sync", "run"} /\ ~Booting(c)
        /\ ~TurningOn(c) /\ ~TurningOn(c)' /\ (pc'[c] = "on_lock" => target'[c] \in CPU)
        /\ pc'[c] \notin {"dying", "sync", "panic"}
    BY <1>0, <1>14 DEF Coordinated, TypeOK, ControlOK, Booting, TurningOn
  <2>2. OthersAlike(c) /\ UNCHANGED <<cpuLock, aff, powerOn>>
    BY <1>0, <1>14 DEF Coordinated, TypeOK, OthersAlike
  <2>3. /\ pc'[c] = "run" => handler'[c] = "standby_finish"
        /\ (pc'[c] = "down" \/ Booting(c)') => suspLvl'[c] # NoLvl
    BY <1>0, <1>14, SizeAssumption DEF Coordinated, TypeOK, ControlOK, Booting, NoLvl
  <2>4. SuspendedOK(c)'
    BY <1>0, <1>14, SizeAssumption DEF Coordinated, TypeOK, ControlOK, SuspendedOK, Booting, PowerState
  <2> QED
    BY <2>1, <2>2, <2>3, <2>4, AwakeIsOn, AwakeStep
<1>15. CASE PwrDownRelease(c)
  <2>1. /\ pc[c] \notin {"dying", "down", "sync", "run"} /\ ~Booting(c)
        /\ ~TurningOn(c) /\ ~TurningOn(c)' /\ (pc'[c] = "on_lock" => target'[c] \in CPU)
        /\ pc'[c] \notin {"dying", "sync", "panic"}
    BY <1>0, <1>15 DEF PwrDownRelease, TypeOK, ControlOK, Booting, TurningOn
  <2>2. OthersAlike(c) /\ UNCHANGED <<cpuLock, aff, powerOn>>
    BY <1>0, <1>15 DEF PwrDownRelease, TypeOK, OthersAlike
  <2>3. /\ pc'[c] = "run" => handler'[c] = "standby_finish"
        /\ (pc'[c] = "down" \/ Booting(c)') => suspLvl'[c] # NoLvl
    BY <1>0, <1>15, SizeAssumption DEF PwrDownRelease, TypeOK, ControlOK, Booting, NoLvl
  <2>4. SuspendedOK(c)'
    BY <1>0, <1>15, SizeAssumption DEF PwrDownRelease, TypeOK, ControlOK, SuspendedOK, Booting, PowerState
  <2> QED
    BY <2>1, <2>2, <2>3, <2>4, AwakeIsOn, AwakeStep
<1>16. CASE StandbyRelease(c)
  <2>1. /\ pc[c] \notin {"dying", "down", "sync", "run"} /\ ~Booting(c)
        /\ ~TurningOn(c) /\ ~TurningOn(c)' /\ (pc'[c] = "on_lock" => target'[c] \in CPU)
        /\ pc'[c] \notin {"dying", "sync", "panic"}
    BY <1>0, <1>16 DEF StandbyRelease, TypeOK, ControlOK, Booting, TurningOn
  <2>2. OthersAlike(c) /\ UNCHANGED <<cpuLock, aff, powerOn>>
    BY <1>0, <1>16 DEF StandbyRelease, TypeOK, OthersAlike
  <2>3. /\ pc'[c] = "run" => handler'[c] = "standby_finish"
        /\ (pc'[c] = "down" \/ Booting(c)') => suspLvl'[c] # NoLvl
    BY <1>0, <1>16, SizeAssumption DEF StandbyRelease, TypeOK, ControlOK, Booting, NoLvl
  <2>4. SuspendedOK(c)'
    BY <1>0, <1>16, SizeAssumption DEF StandbyRelease, TypeOK, ControlOK, SuspendedOK, Booting, PowerState
  <2> QED
    BY <2>1, <2>2, <2>3, <2>4, AwakeIsOn, AwakeStep
<1>17. CASE Released(c)
  <2>1. /\ pc[c] \notin {"dying", "down", "sync", "run"} /\ ~Booting(c)
        /\ ~TurningOn(c) /\ ~TurningOn(c)' /\ (pc'[c] = "on_lock" => target'[c] \in CPU)
        /\ pc'[c] \notin {"dying", "sync", "panic"}
    BY <1>0, <1>17 DEF Released, TypeOK, ControlOK, Booting, TurningOn
  <2>2. OthersAlike(c) /\ UNCHANGED <<cpuLock, aff, powerOn>>
    BY <1>0, <1>17 DEF Released, TypeOK, OthersAlike
  <2>3. /\ pc'[c] = "run" => handler'[c] = "standby_finish"
        /\ (pc'[c] = "down" \/ Booting(c)') => suspLvl'[c] # NoLvl
    BY <1>0, <1>17, SizeAssumption DEF Released, TypeOK, ControlOK, Booting, NoLvl
  <2>4. SuspendedOK(c)'
    BY <1>0, <1>17, SizeAssumption DEF Released, TypeOK, ControlOK, SuspendedOK, Booting, PowerState
  <2> QED
    BY <2>1, <2>2, <2>3, <2>4, AwakeIsOn, AwakeStep
<1>18. CASE WakeStandby(c)
  <2>1. /\ pc[c] \notin {"dying", "down", "sync", "run"} /\ ~Booting(c)
        /\ ~TurningOn(c) /\ ~TurningOn(c)' /\ (pc'[c] = "on_lock" => target'[c] \in CPU)
        /\ pc'[c] \notin {"dying", "sync", "panic"}
    BY <1>0, <1>18 DEF WakeStandby, TypeOK, ControlOK, Booting, TurningOn
  <2>2. OthersAlike(c) /\ UNCHANGED <<cpuLock, aff, powerOn>>
    BY <1>0, <1>18 DEF WakeStandby, TypeOK, OthersAlike
  <2>3. /\ pc'[c] = "run" => handler'[c] = "standby_finish"
        /\ (pc'[c] = "down" \/ Booting(c)') => suspLvl'[c] # NoLvl
    BY <1>0, <1>18, SizeAssumption DEF WakeStandby, TypeOK, ControlOK, Booting, NoLvl
  <2>4. SuspendedOK(c)'
    BY <1>0, <1>18, SizeAssumption DEF WakeStandby, TypeOK, ControlOK, SuspendedOK, Booting, PowerState
  <2> QED
    BY <2>1, <2>2, <2>3, <2>4, AwakeIsOn, AwakeStep
<1>19. CASE StandbyFinish(c)
  <2>1. /\ pc[c] \notin {"dying", "down", "sync", "run"} /\ ~Booting(c)
        /\ ~TurningOn(c) /\ ~TurningOn(c)' /\ (pc'[c] = "on_lock" => target'[c] \in CPU)
        /\ pc'[c] \notin {"dying", "sync", "panic"}
    BY <1>0, <1>19 DEF StandbyFinish, TypeOK, ControlOK, Booting, TurningOn
  <2>2. OthersAlike(c) /\ UNCHANGED <<cpuLock, aff, powerOn>>
    BY <1>0, <1>19 DEF StandbyFinish, TypeOK, OthersAlike
  <2>3. /\ pc'[c] = "run" => handler'[c] = "standby_finish"
        /\ (pc'[c] = "down" \/ Booting(c)') => suspLvl'[c] # NoLvl
    BY <1>0, <1>19, SizeAssumption DEF StandbyFinish, TypeOK, ControlOK, Booting, NoLvl
  <2>4. SuspendedOK(c)'
    BY <1>0, <1>19, SizeAssumption DEF StandbyFinish, TypeOK, ControlOK, SuspendedOK, Booting, PowerState
  <2> QED
    BY <2>1, <2>2, <2>3, <2>4, AwakeIsOn, AwakeStep
<1> QED
  BY <1>1, <1>2, <1>3, <1>4, <1>5, <1>6, <1>7, <1>8, <1>9, <1>10, <1>11, <1>12, <1>13, <1>14, <1>15, <1>16, <1>17, <1>18, <1>19

(* The loops over the levels change nothing OnInv is about.                *)
LEMMA LevelLoopInv ==
  ASSUME IInv, NEW c \in CPU,
         AcquireLock(c) \/ ReleaseLock(c) \/ CoordinateLevel(c) \/ SetTargetLevel(c) \/ RunLevel(c)
  PROVE  OnInv'
<1>1. CASE CoordinateLevel(c)
  <2>1. lvl[c] # 0 /\ info \in [CPU -> PowerState]
    BY <1>1 DEF IInv, CoordInv, ControlOK, CoordinateLevel, TypeOK
  <2>2. PICK r : info' = [info EXCEPT ![c][lvl[c]] = r]
    BY <1>1 DEF CoordinateLevel
  <2>3. \A d \in CPU : info'[d][0] = info[d][0]
    BY <2>1, <2>2, SizeAssumption DEF PowerState
  <2> QED
    BY <1>1, <2>3, UnaffectedStep DEF CoordinateLevel
<1>2. CASE AcquireLock(c) \/ ReleaseLock(c) \/ SetTargetLevel(c) \/ RunLevel(c)
  BY <1>2, UnaffectedStep DEF AcquireLock, ReleaseLock, SetTargetLevel, RunLevel
<1> QED
  BY <1>1, <1>2

(* The end of CPU_OFF, and the boot.                                       *)
LEMMA BootInv ==
  ASSUME IInv, NEW c \in CPU,
         \/ OffSetAffinity(c) \/ PowerDownWfi(c) \/ PowerUp(c) \/ WakeUp(c) \/ WarmBoot(c)
         \/ OnFinish(c) \/ OnFinishSync(c) \/ SuspendFinish(c) \/ RunCpu(c)
  PROVE  OnInv'
<1>0. /\ TypeOK /\ ControlOK(c) /\ SuspendedOK(c) /\ AffInfoOK(c) /\ ContextOK(c)
      /\ \A d \in CPU : TargetOK(d)
      /\ \A d \in CPU : TurningOn(d) /\ target[d] = c => cpuLock[c] = d
      /\ aff[c] \in {"ON", "OFF", "ON_PENDING"}
  BY DEF IInv, CoordInv, OnInv, SpinLocksOK, TypeOK
<1> USE DEF StartAcquire, StartRelease, StartRun, Locked, Goto, shared, locals
<1>1. CASE OffSetAffinity(c)
  <2>1. /\ OthersAlike(c) /\ cpuLock' = cpuLock /\ ~TurningOn(c) /\ ~TurningOn(c)'
        /\ pc'[c] # "on_lock"
    BY <1>0, <1>1 DEF OffSetAffinity, TypeOK, OthersAlike, TurningOn
  <2>2. AffInfoOK(c)'
    BY <1>0, <1>1 DEF OffSetAffinity, TypeOK, ControlOK, AffInfoOK, Booting
  <2>3. SuspendedOK(c)'
    BY <1>0, <1>1 DEF OffSetAffinity, TypeOK, ControlOK, AffInfoOK, Booting, SuspendedOK
  <2>4. ContextOK(c)'
    BY <1>0, <1>1, TreeFacts DEF OffSetAffinity, TypeOK, AffInfoOK, ContextOK, Booting, TurningOn
  <2>5. ASSUME NEW d \in CPU \ {c}, TurningOn(d), target[d] = c PROVE TargetOK(d)'
    <3>1. /\ TargetOK(d) /\ pc'[d] = pc[d] /\ target'[d] = c /\ cpuLock[c] # NoCpu
      BY <1>0, <1>1, <2>5, TreeFacts DEF OffSetAffinity, TypeOK
    <3> QED
      BY <1>0, <1>1, <2>5, <3>1 DEF OffSetAffinity, TypeOK, TargetOK, AffInfoOK, Booting
  <2> QED
    BY <2>1, <2>2, <2>3, <2>4, <2>5, OwnStep
<1>2. CASE PowerDownWfi(c)
  <2>1. /\ OthersAlike(c) /\ cpuLock' = cpuLock /\ ~TurningOn(c) /\ ~TurningOn(c)'
        /\ pc'[c] # "on_lock"
    BY <1>0, <1>2 DEF PowerDownWfi, TypeOK, OthersAlike, TurningOn
  <2>2. AffInfoOK(c)'
    BY <1>0, <1>2 DEF PowerDownWfi, TypeOK, ControlOK, AffInfoOK, Booting
  <2>3. SuspendedOK(c)'
    BY <1>0, <1>2 DEF PowerDownWfi, TypeOK, ControlOK, AffInfoOK, Booting, SuspendedOK
  <2>4. ContextOK(c)'
    BY <1>0, <1>2, TreeFacts DEF PowerDownWfi, TypeOK, AffInfoOK, ContextOK, Booting, TurningOn
  <2>5. ASSUME NEW d \in CPU \ {c}, TurningOn(d), target[d] = c PROVE TargetOK(d)'
    <3>1. /\ TargetOK(d) /\ pc'[d] = pc[d] /\ target'[d] = c /\ cpuLock[c] # NoCpu
      BY <1>0, <1>2, <2>5, TreeFacts DEF PowerDownWfi, TypeOK
    <3> QED
      BY <1>0, <1>2, <2>5, <3>1 DEF PowerDownWfi, TypeOK, TargetOK, AffInfoOK, Booting
  <2> QED
    BY <2>1, <2>2, <2>3, <2>4, <2>5, OwnStep
<1>3. CASE PowerUp(c)
  <2>1. /\ OthersAlike(c) /\ cpuLock' = cpuLock /\ ~TurningOn(c) /\ ~TurningOn(c)'
        /\ pc'[c] # "on_lock"
    BY <1>0, <1>3 DEF PowerUp, TypeOK, OthersAlike, TurningOn
  <2>2. AffInfoOK(c)'
    BY <1>0, <1>3 DEF PowerUp, TypeOK, ControlOK, AffInfoOK, Booting
  <2>3. SuspendedOK(c)'
    BY <1>0, <1>3 DEF PowerUp, TypeOK, ControlOK, AffInfoOK, Booting, SuspendedOK
  <2>4. ContextOK(c)'
    BY <1>0, <1>3, TreeFacts DEF PowerUp, TypeOK, AffInfoOK, ContextOK, Booting, TurningOn
  <2>5. ASSUME NEW d \in CPU \ {c}, TurningOn(d), target[d] = c PROVE TargetOK(d)'
    <3>1. /\ TargetOK(d) /\ pc'[d] = pc[d] /\ target'[d] = c /\ cpuLock[c] # NoCpu
      BY <1>0, <1>3, <2>5, TreeFacts DEF PowerUp, TypeOK
    <3> QED
      BY <1>0, <1>3, <2>5, <3>1 DEF PowerUp, TypeOK, TargetOK, AffInfoOK, Booting
  <2> QED
    BY <2>1, <2>2, <2>3, <2>4, <2>5, OwnStep
<1>4. CASE WakeUp(c)
  <2>1. /\ OthersAlike(c) /\ cpuLock' = cpuLock /\ ~TurningOn(c) /\ ~TurningOn(c)'
        /\ pc'[c] # "on_lock"
    BY <1>0, <1>4 DEF WakeUp, TypeOK, OthersAlike, TurningOn
  <2>2. AffInfoOK(c)'
    BY <1>0, <1>4 DEF WakeUp, TypeOK, ControlOK, AffInfoOK, Booting
  <2>3. SuspendedOK(c)'
    BY <1>0, <1>4 DEF WakeUp, TypeOK, ControlOK, AffInfoOK, Booting, SuspendedOK
  <2>4. ContextOK(c)'
    BY <1>0, <1>4, TreeFacts DEF WakeUp, TypeOK, AffInfoOK, ContextOK, Booting, TurningOn
  <2>5. ASSUME NEW d \in CPU \ {c}, TurningOn(d), target[d] = c PROVE TargetOK(d)'
    <3>1. /\ TargetOK(d) /\ pc'[d] = pc[d] /\ target'[d] = c /\ cpuLock[c] # NoCpu
      BY <1>0, <1>4, <2>5, TreeFacts DEF WakeUp, TypeOK
    <3> QED
      BY <1>0, <1>4, <2>5, <3>1 DEF WakeUp, TypeOK, TargetOK, AffInfoOK, Booting
  <2> QED
    BY <2>1, <2>2, <2>3, <2>4, <2>5, OwnStep
<1>5. CASE WarmBoot(c)
  <2>1. /\ OthersAlike(c) /\ cpuLock' = cpuLock /\ ~TurningOn(c) /\ ~TurningOn(c)'
        /\ pc'[c] # "on_lock"
    BY <1>0, <1>5 DEF WarmBoot, TypeOK, OthersAlike, TurningOn
  <2>2. AffInfoOK(c)'
    BY <1>0, <1>5 DEF WarmBoot, TypeOK, ControlOK, AffInfoOK, Booting
  <2>3. SuspendedOK(c)'
    BY <1>0, <1>5 DEF WarmBoot, TypeOK, ControlOK, AffInfoOK, Booting, SuspendedOK
  <2>4. ContextOK(c)'
    BY <1>0, <1>5, TreeFacts DEF WarmBoot, TypeOK, AffInfoOK, ContextOK, Booting, TurningOn
  <2>5. ASSUME NEW d \in CPU \ {c}, TurningOn(d), target[d] = c PROVE TargetOK(d)'
    <3>1. /\ TargetOK(d) /\ pc'[d] = pc[d] /\ target'[d] = c /\ cpuLock[c] # NoCpu
      BY <1>0, <1>5, <2>5, TreeFacts DEF WarmBoot, TypeOK
    <3> QED
      BY <1>0, <1>5, <2>5, <3>1 DEF WarmBoot, TypeOK, TargetOK, AffInfoOK, Booting
  <2> QED
    BY <2>1, <2>2, <2>3, <2>4, <2>5, OwnStep
<1>6. CASE OnFinish(c)
  <2>1. /\ OthersAlike(c) /\ cpuLock' = cpuLock /\ ~TurningOn(c) /\ ~TurningOn(c)'
        /\ pc'[c] # "on_lock"
    BY <1>0, <1>6 DEF OnFinish, TypeOK, OthersAlike, TurningOn
  <2>2. AffInfoOK(c)'
    BY <1>0, <1>6 DEF OnFinish, TypeOK, ControlOK, AffInfoOK, Booting
  <2>3. SuspendedOK(c)'
    BY <1>0, <1>6 DEF OnFinish, TypeOK, ControlOK, AffInfoOK, Booting, SuspendedOK
  <2>4. ContextOK(c)'
    BY <1>0, <1>6, TreeFacts DEF OnFinish, TypeOK, AffInfoOK, ContextOK, Booting, TurningOn
  <2>5. ASSUME NEW d \in CPU \ {c}, TurningOn(d), target[d] = c PROVE TargetOK(d)'
    <3>1. /\ TargetOK(d) /\ pc'[d] = pc[d] /\ target'[d] = c /\ cpuLock[c] # NoCpu
      BY <1>0, <1>6, <2>5, TreeFacts DEF OnFinish, TypeOK
    <3> QED
      BY <1>0, <1>6, <2>5, <3>1 DEF OnFinish, TypeOK, TargetOK, AffInfoOK, Booting
  <2> QED
    BY <2>1, <2>2, <2>3, <2>4, <2>5, OwnStep
<1>7. CASE OnFinishSync(c)
  <2>1. /\ OthersAlike(c) /\ cpuLock' = cpuLock /\ ~TurningOn(c) /\ ~TurningOn(c)'
        /\ pc'[c] # "on_lock"
    BY <1>0, <1>7 DEF OnFinishSync, TypeOK, OthersAlike, TurningOn
  <2>2. AffInfoOK(c)'
    BY <1>0, <1>7 DEF OnFinishSync, TypeOK, ControlOK, AffInfoOK, Booting
  <2>3. SuspendedOK(c)'
    BY <1>0, <1>7 DEF OnFinishSync, TypeOK, ControlOK, AffInfoOK, Booting, SuspendedOK
  <2>4. ContextOK(c)'
    BY <1>0, <1>7, TreeFacts DEF OnFinishSync, TypeOK, AffInfoOK, ContextOK, Booting, TurningOn
  <2>5. ASSUME NEW d \in CPU \ {c}, TurningOn(d), target[d] = c PROVE TargetOK(d)'
    <3>1. /\ TargetOK(d) /\ pc'[d] = pc[d] /\ target'[d] = c /\ cpuLock[c] # NoCpu
      BY <1>0, <1>7, <2>5, TreeFacts DEF OnFinishSync, TypeOK
    <3> QED
      BY <1>0, <1>7, <2>5, <3>1 DEF OnFinishSync, TypeOK, TargetOK, AffInfoOK, Booting
  <2> QED
    BY <2>1, <2>2, <2>3, <2>4, <2>5, OwnStep
<1>8. CASE SuspendFinish(c)
  <2>1. /\ OthersAlike(c) /\ cpuLock' = cpuLock /\ ~TurningOn(c) /\ ~TurningOn(c)'
        /\ pc'[c] # "on_lock"
    BY <1>0, <1>8 DEF SuspendFinish, TypeOK, OthersAlike, TurningOn
  <2>2. AffInfoOK(c)'
    BY <1>0, <1>8 DEF SuspendFinish, TypeOK, ControlOK, AffInfoOK, Booting
  <2>3. SuspendedOK(c)'
    BY <1>0, <1>8 DEF SuspendFinish, TypeOK, ControlOK, AffInfoOK, Booting, SuspendedOK
  <2>4. ContextOK(c)'
    BY <1>0, <1>8 DEF SuspendFinish, TypeOK, AffInfoOK, ContextOK, SuspendedOK, Booting
  <2>5. ASSUME NEW d \in CPU \ {c}, TurningOn(d), target[d] = c PROVE TargetOK(d)'
    <3>1. /\ TargetOK(d) /\ pc'[d] = pc[d] /\ target'[d] = c /\ cpuLock[c] # NoCpu
      BY <1>0, <1>8, <2>5, TreeFacts DEF SuspendFinish, TypeOK
    <3> QED
      BY <1>0, <1>8, <2>5, <3>1 DEF SuspendFinish, TypeOK, TargetOK, AffInfoOK, Booting
  <2> QED
    BY <2>1, <2>2, <2>3, <2>4, <2>5, OwnStep
<1>9. CASE RunCpu(c)
  <2>1. /\ OthersAlike(c) /\ cpuLock' = cpuLock /\ ~TurningOn(c) /\ ~TurningOn(c)'
        /\ pc'[c] # "on_lock"
    BY <1>0, <1>9 DEF RunCpu, TypeOK, OthersAlike, TurningOn
  <2>2. AffInfoOK(c)'
    BY <1>0, <1>9 DEF RunCpu, TypeOK, ControlOK, AffInfoOK, Booting
  <2>3. SuspendedOK(c)'
    BY <1>0, <1>9 DEF RunCpu, TypeOK, ControlOK, AffInfoOK, Booting, SuspendedOK
  <2>4. ContextOK(c)'
    BY <1>0, <1>9, TreeFacts DEF RunCpu, TypeOK, AffInfoOK, ContextOK, Booting, TurningOn
  <2>5. ASSUME NEW d \in CPU \ {c}, TurningOn(d), target[d] = c PROVE TargetOK(d)'
    <3>1. /\ TargetOK(d) /\ pc'[d] = pc[d] /\ target'[d] = c /\ cpuLock[c] # NoCpu
      BY <1>0, <1>9, <2>5, TreeFacts DEF RunCpu, TypeOK
    <3> QED
      BY <1>0, <1>9, <2>5, <3>1 DEF RunCpu, TypeOK, TargetOK, AffInfoOK, Booting
  <2> QED
    BY <2>1, <2>2, <2>3, <2>4, <2>5, OwnStep
<1> QED
  BY <1>1, <1>2, <1>3, <1>4, <1>5, <1>6, <1>7, <1>8, <1>9

(* The steps of psci_cpu_on_start.                                         *)
LEMMA CallerInv ==
  ASSUME IInv, NEW c \in CPU,
         \/ OnLock(c) \/ OnCheck(c) \/ OnPending(c) \/ OnPower(c) \/ OnFail(c) \/ OnContext(c)
         \/ OnUnlock(c)
  PROVE  OnInv'
<1>p. target[c] \in CPU
  BY DEF OnLock, OnCheck, OnPending, OnPower, OnFail, OnContext, OnUnlock,
         IInv, OnInv, SpinLocksOK, TurningOn
<1> SUFFICES ASSUME NEW t \in CPU, target[c] = t PROVE OnInv'
  BY <1>p
<1>0. /\ pc[c] \in NormalWorld /\ pc[c] # "ns"
      /\ TypeOK /\ TargetOK(c) /\ AffInfoOK(t) /\ SuspendedOK(t) /\ ContextOK(t) /\ AffInfoOK(c)
      /\ TurningOn(c) => cpuLock[t] = c
      /\ aff[t] \in {"ON", "OFF", "ON_PENDING"}
  <2>1. pc[c] \in NormalWorld /\ pc[c] # "ns" /\ (TurningOn(c) => cpuLock[t] = c)
    BY DEF OnLock, OnCheck, OnPending, OnPower, OnFail, OnContext, OnUnlock, NormalWorld,
           IInv, OnInv, SpinLocksOK, TurningOn
  <2> QED
    BY <2>1 DEF IInv, CoordInv, OnInv, TypeOK
<1>t. /\ TargetOK(c) => /\ pc[c] = "on_pending" => aff[t] = "OFF"
                        /\ pc[c] = "on_power" => /\ aff[t] = "ON_PENDING" /\ ~powerOn[t]
                                                 /\ pc[t] \in {"dying", "down"}
                        /\ pc[c] = "on_context" => aff[t] = "ON_PENDING" /\ pc[t] # "run"
  BY DEF TargetOK
<1> USE DEF Goto, shared, locals
<1>1. CASE OnLock(c)
  <2>1. /\ pc'[c] \in NormalWorld
        /\ \A d \in CPU \ {c} : UNCHANGED <<pc[d], target[d]>>
        /\ \A d \in CPU \ {t} : UNCHANGED <<aff[d], powerOn[d], context[d], cpuLock[d]>>
        /\ UNCHANGED <<handler, suspLvl, cpuState, info>>
    BY <1>0, <1>1 DEF OnLock, TypeOK, NormalWorld
  <2>2. /\ cpuLock[t] \in {c, NoCpu}
        /\ TurningOn(c)' => (target'[c] = t /\ cpuLock'[t] = c)
        /\ ~TurningOn(c)' => (pc'[c] # "on_lock" /\ cpuLock'[t] = NoCpu)
    BY <1>0, <1>1 DEF OnLock, TypeOK, TurningOn
  <2>3. AffInfoOK(t)' /\ SuspendedOK(t)'
    BY <1>0, <1>t, <1>1 DEF OnLock, TypeOK, AffInfoOK, Booting, SuspendedOK, NormalWorld
  <2>4. TargetOK(c)'
    BY <1>0, <1>t, <1>1 DEF OnLock, TypeOK, TargetOK, AffInfoOK, NormalWorld
  <2>5. ContextOK(t)'
    BY <1>0, <1>t, <1>1, TreeFacts DEF OnLock, TypeOK, ContextOK, AffInfoOK, TurningOn, NormalWorld
  <2> QED
    BY <1>0, <2>1, <2>2, <2>3, <2>4, <2>5, CallerStep
<1>2. CASE OnCheck(c)
  <2>1. /\ pc'[c] \in NormalWorld
        /\ \A d \in CPU \ {c} : UNCHANGED <<pc[d], target[d]>>
        /\ \A d \in CPU \ {t} : UNCHANGED <<aff[d], powerOn[d], context[d], cpuLock[d]>>
        /\ UNCHANGED <<handler, suspLvl, cpuState, info>>
    BY <1>0, <1>2 DEF OnCheck, TypeOK, NormalWorld
  <2>2. /\ cpuLock[t] \in {c, NoCpu}
        /\ TurningOn(c)' => (target'[c] = t /\ cpuLock'[t] = c)
        /\ ~TurningOn(c)' => (pc'[c] # "on_lock" /\ cpuLock'[t] = NoCpu)
    BY <1>0, <1>2 DEF OnCheck, TypeOK, TurningOn
  <2>3. AffInfoOK(t)' /\ SuspendedOK(t)'
    BY <1>0, <1>t, <1>2 DEF OnCheck, TypeOK, AffInfoOK, Booting, SuspendedOK, NormalWorld
  <2>4. TargetOK(c)'
    BY <1>0, <1>t, <1>2 DEF OnCheck, TypeOK, TargetOK, AffInfoOK, NormalWorld
  <2>5. ContextOK(t)'
    BY <1>0, <1>t, <1>2, TreeFacts DEF OnCheck, TypeOK, ContextOK, AffInfoOK, TurningOn, NormalWorld
  <2> QED
    BY <1>0, <2>1, <2>2, <2>3, <2>4, <2>5, CallerStep
<1>3. CASE OnPending(c)
  <2>1. /\ pc'[c] \in NormalWorld
        /\ \A d \in CPU \ {c} : UNCHANGED <<pc[d], target[d]>>
        /\ \A d \in CPU \ {t} : UNCHANGED <<aff[d], powerOn[d], context[d], cpuLock[d]>>
        /\ UNCHANGED <<handler, suspLvl, cpuState, info>>
    BY <1>0, <1>3 DEF OnPending, TypeOK, NormalWorld
  <2>2. /\ cpuLock[t] \in {c, NoCpu}
        /\ TurningOn(c)' => (target'[c] = t /\ cpuLock'[t] = c)
        /\ ~TurningOn(c)' => (pc'[c] # "on_lock" /\ cpuLock'[t] = NoCpu)
    BY <1>0, <1>3 DEF OnPending, TypeOK, TurningOn
  <2>3. AffInfoOK(t)' /\ SuspendedOK(t)'
    BY <1>0, <1>t, <1>3 DEF OnPending, TypeOK, AffInfoOK, Booting, SuspendedOK, NormalWorld
  <2>4. TargetOK(c)'
    BY <1>0, <1>t, <1>3 DEF OnPending, TypeOK, TargetOK, AffInfoOK, NormalWorld
  <2>5. ContextOK(t)'
    BY <1>0, <1>t, <1>3, TreeFacts DEF OnPending, TypeOK, ContextOK, AffInfoOK, TurningOn, NormalWorld
  <2> QED
    BY <1>0, <2>1, <2>2, <2>3, <2>4, <2>5, CallerStep
<1>4. CASE OnPower(c)
  <2>1. /\ pc'[c] \in NormalWorld
        /\ \A d \in CPU \ {c} : UNCHANGED <<pc[d], target[d]>>
        /\ \A d \in CPU \ {t} : UNCHANGED <<aff[d], powerOn[d], context[d], cpuLock[d]>>
        /\ UNCHANGED <<handler, suspLvl, cpuState, info>>
    BY <1>0, <1>4 DEF OnPower, TypeOK, NormalWorld
  <2>2. /\ cpuLock[t] \in {c, NoCpu}
        /\ TurningOn(c)' => (target'[c] = t /\ cpuLock'[t] = c)
        /\ ~TurningOn(c)' => (pc'[c] # "on_lock" /\ cpuLock'[t] = NoCpu)
    BY <1>0, <1>4 DEF OnPower, TypeOK, TurningOn
  <2>3. AffInfoOK(t)' /\ SuspendedOK(t)'
    BY <1>0, <1>t, <1>4 DEF OnPower, TypeOK, AffInfoOK, Booting, SuspendedOK, NormalWorld
  <2>4. TargetOK(c)'
    BY <1>0, <1>t, <1>4 DEF OnPower, TypeOK, TargetOK, AffInfoOK, NormalWorld
  <2>5. ContextOK(t)'
    BY <1>0, <1>t, <1>4, TreeFacts DEF OnPower, TypeOK, ContextOK, AffInfoOK, TurningOn, NormalWorld
  <2> QED
    BY <1>0, <2>1, <2>2, <2>3, <2>4, <2>5, CallerStep
<1>5. CASE OnFail(c)
  <2>1. /\ pc'[c] \in NormalWorld
        /\ \A d \in CPU \ {c} : UNCHANGED <<pc[d], target[d]>>
        /\ \A d \in CPU \ {t} : UNCHANGED <<aff[d], powerOn[d], context[d], cpuLock[d]>>
        /\ UNCHANGED <<handler, suspLvl, cpuState, info>>
    BY <1>0, <1>5 DEF OnFail, TypeOK, NormalWorld
  <2>2. /\ cpuLock[t] \in {c, NoCpu}
        /\ TurningOn(c)' => (target'[c] = t /\ cpuLock'[t] = c)
        /\ ~TurningOn(c)' => (pc'[c] # "on_lock" /\ cpuLock'[t] = NoCpu)
    BY <1>0, <1>5 DEF OnFail, TypeOK, TurningOn
  <2>3. AffInfoOK(t)' /\ SuspendedOK(t)'
    BY <1>0, <1>t, <1>5 DEF OnFail, TypeOK, AffInfoOK, Booting, SuspendedOK, NormalWorld
  <2>4. TargetOK(c)'
    BY <1>0, <1>t, <1>5 DEF OnFail, TypeOK, TargetOK, AffInfoOK, NormalWorld
  <2>5. ContextOK(t)'
    BY <1>0, <1>t, <1>5, TreeFacts DEF OnFail, TypeOK, ContextOK, AffInfoOK, TurningOn, NormalWorld
  <2> QED
    BY <1>0, <2>1, <2>2, <2>3, <2>4, <2>5, CallerStep
<1>6. CASE OnContext(c)
  <2>1. /\ pc'[c] \in NormalWorld
        /\ \A d \in CPU \ {c} : UNCHANGED <<pc[d], target[d]>>
        /\ \A d \in CPU \ {t} : UNCHANGED <<aff[d], powerOn[d], context[d], cpuLock[d]>>
        /\ UNCHANGED <<handler, suspLvl, cpuState, info>>
    BY <1>0, <1>6 DEF OnContext, TypeOK, NormalWorld
  <2>2. /\ cpuLock[t] \in {c, NoCpu}
        /\ TurningOn(c)' => (target'[c] = t /\ cpuLock'[t] = c)
        /\ ~TurningOn(c)' => (pc'[c] # "on_lock" /\ cpuLock'[t] = NoCpu)
    BY <1>0, <1>6 DEF OnContext, TypeOK, TurningOn
  <2>3. AffInfoOK(t)' /\ SuspendedOK(t)'
    BY <1>0, <1>t, <1>6 DEF OnContext, TypeOK, AffInfoOK, Booting, SuspendedOK, NormalWorld
  <2>4. TargetOK(c)'
    BY <1>0, <1>t, <1>6 DEF OnContext, TypeOK, TargetOK, AffInfoOK, NormalWorld
  <2>5. ContextOK(t)'
    BY <1>0, <1>t, <1>6, TreeFacts DEF OnContext, TypeOK, ContextOK, AffInfoOK, TurningOn, NormalWorld
  <2> QED
    BY <1>0, <2>1, <2>2, <2>3, <2>4, <2>5, CallerStep
<1>7. CASE OnUnlock(c)
  <2>1. /\ pc'[c] \in NormalWorld
        /\ \A d \in CPU \ {c} : UNCHANGED <<pc[d], target[d]>>
        /\ \A d \in CPU \ {t} : UNCHANGED <<aff[d], powerOn[d], context[d], cpuLock[d]>>
        /\ UNCHANGED <<handler, suspLvl, cpuState, info>>
    BY <1>0, <1>7 DEF OnUnlock, TypeOK, NormalWorld
  <2>2. /\ cpuLock[t] \in {c, NoCpu}
        /\ TurningOn(c)' => (target'[c] = t /\ cpuLock'[t] = c)
        /\ ~TurningOn(c)' => (pc'[c] # "on_lock" /\ cpuLock'[t] = NoCpu)
    BY <1>0, <1>7 DEF OnUnlock, TypeOK, TurningOn
  <2>3. AffInfoOK(t)' /\ SuspendedOK(t)'
    BY <1>0, <1>t, <1>7 DEF OnUnlock, TypeOK, AffInfoOK, Booting, SuspendedOK, NormalWorld
  <2>4. TargetOK(c)'
    BY <1>0, <1>t, <1>7 DEF OnUnlock, TypeOK, TargetOK, AffInfoOK, NormalWorld
  <2>5. ContextOK(t)'
    BY <1>0, <1>t, <1>7, TreeFacts DEF OnUnlock, TypeOK, ContextOK, AffInfoOK, TurningOn, NormalWorld
  <2> QED
    BY <1>0, <2>1, <2>2, <2>3, <2>4, <2>5, CallerStep
<1> QED
  BY <1>1, <1>2, <1>3, <1>4, <1>5, <1>6, <1>7

(* Every step keeps both halves of the invariant.                          *)
LEMMA NextInv ==
  ASSUME IInv, [Next]_vars
  PROVE  IInv'
<1>1. \A c \in CPU : aff[c] = "ON_PENDING" => suspLvl[c] = NoLvl
  BY DEF IInv, OnInv, AffInfoOK
<1>2. CoordInv'
  BY <1>1, CoordNext DEF IInv
<1>3. CASE UNCHANGED vars
  <2>1. OnInv'
    BY <1>3, UnaffectedStep DEF vars, shared, locals
  <2> QED
    BY <1>2, <2>1 DEF IInv
<1>4. ASSUME NEW c \in CPU,
             Firmware(c) \/ OnLock(c) \/ OnFinishSync(c) \/ AcquireLock(c) \/ PowerUp(c)
             \/ Call(c) \/ Wake(c)
      PROVE  OnInv'
  <2>1. CASE Firmware(c)
    BY <2>1, AwakeInv, LevelLoopInv, BootInv, CallerInv DEF Firmware
  <2>2. CASE Call(c)
    BY <2>2, AwakeInv DEF Call
  <2>3. CASE Wake(c)
    BY <2>3, AwakeInv, BootInv DEF Wake
  <2> QED
    BY <1>4, <2>1, <2>2, <2>3, CallerInv, BootInv, LevelLoopInv
<1> QED
  BY <1>2, <1>3, <1>4 DEF Next, IInv

(* The invariant of the PSCI library, on any topology and with any number  *)
(* of CPUs: domain locks, requests and domain states are consistent, and   *)
(* so are CPU_ON calls and boots.                                          *)
THEOREM InductiveInvariant == Spec => []IInv
<1>1. Init => IInv
  BY InitInv, InitOn DEF IInv
<1>2. IInv /\ [Next]_vars => IInv'
  BY NextInv
<1> QED
  BY <1>1, <1>2, PTL DEF Spec

(* The domains of a running CPU are on: its requests are RUN, and a domain *)
(* is never deeper than a request.                                         *)
THEOREM RunningDomainsStayOn == Spec => []RunningDomainsOn
<1>1. IInv => RunningDomainsOn
  <2> SUFFICES ASSUME IInv, NEW c \in CPU, Running(c), NEW l \in Lvl
               PROVE  pdState[Anc[c][l]] = RUN
    BY DEF RunningDomainsOn
  <2>1. req[c][l] = RUN
    BY DEF IInv, CoordInv, RequestsOK, RunLevels
  <2>2. pdState[Anc[c][l]] <= req[c][l] /\ pdState[Anc[c][l]] \in LocalState
    BY TreeFacts DEF IInv, CoordInv, NoDeeperThanRequested, TypeOK
  <2> QED
    BY <2>1, <2>2 DEF LocalState, RUN, OFF
<1> QED
  BY <1>1, InductiveInvariant, PTL

(* No boot panics or fails the assertions of its finisher.                 *)
THEOREM BootsAreExpected == Spec => []BootStateOK
<1>1. IInv => BootStateOK
  <2> SUFFICES ASSUME IInv, NEW c \in CPU
               PROVE  /\ pc[c] # "panic"
                      /\ Locked(c) /\ handler[c] = "boot" /\ aff[c] # "ON_PENDING" =>
                           aff[c] = "ON" /\ cpuState[c] = OFF
                      /\ pc[c] = "run" /\ handler[c] = "on_finish" => aff[c] = "ON_PENDING"
    BY DEF BootStateOK
  <2>1. AffInfoOK(c) /\ SuspendedOK(c) /\ aff[c] \in {"ON", "OFF", "ON_PENDING"}
    BY DEF IInv, OnInv, CoordInv, TypeOK
  <2> QED
    BY <2>1 DEF AffInfoOK, SuspendedOK, Booting, Locked
<1> QED
  BY <1>1, InductiveInvariant, PTL

(* A CPU that boots finds the context of this very boot.                   *)
THEOREM ContextIsReady == Spec => []ContextReady
<1>1. IInv => ContextReady
  <2> SUFFICES ASSUME IInv, NEW c \in CPU, pc[c] = "run", handler[c] # "standby_finish"
               PROVE  context[c] = IF handler[c] = "on_finish" THEN "on" ELSE "resume"
    BY DEF ContextReady
  <2>1. ContextOK(c)
    BY DEF IInv, OnInv
  <2> QED
    BY <2>1 DEF ContextOK
<1> QED
  BY <1>1, InductiveInvariant, PTL

-----------------------------------------------------------------------------
(* What the domains settle at *)

LEMMA InitSettled == Init => SettledInv
<1> SUFFICES ASSUME Init PROVE SettledInv
  OBVIOUS
<1> USE TreeFacts DEF Init, RUN, RET, OFF, NoLvl, NoCpu
<1>1. OwnersOK
  BY DEF OwnersOK
<1>2. ASSUME NEW c \in CPU PROVE WithdrawnOK(c) /\ NestedOK(c)
  BY DEF WithdrawnOK, OffLevels, Asks, NestedOK, StateType
<1>3. ResultsRequested
  BY DEF ResultsRequested, Computed
<1>4. StatesRequested
  <2> SUFFICES ASSUME NEW c \in CPU, NEW l \in Lvl
               PROVE  \E d \in CPU : Anc[d][l] = Anc[c][l] /\ pdState[Anc[c][l]] = req[d][l]
    BY DEF StatesRequested
  <2>1. 0 \in CPU /\ Anc[c][l] \in Node
    BY SizeAssumption DEF CPU
  <2>2. CASE \E m \in Lvl : Anc[c][l] = Anc[0][m]
    BY <2>1, <2>2
  <2>3. CASE ~ \E m \in Lvl : Anc[c][l] = Anc[0][m]
    BY <2>1, <2>3
  <2> QED
    BY <2>2, <2>3
<1> QED
  BY <1>1, <1>2, <1>3, <1>4 DEF SettledInv

(* A step of c that touches no domain keeps the invariant if c has         *)
(* computed no more and settled no more than before.                       *)
LEMMA QuietStep ==
  ASSUME SettledInv, NEW c \in CPU, OthersUnchanged(c), UNCHANGED <<req, pdState>>,
         OwnersOK', WithdrawnOK(c)', NestedOK(c)',
         Unsettled(c) \subseteq Unsettled(c)',
         Computed(c)' \subseteq Computed(c),
         Computed(c)' # {} => info'[c] = info[c]
  PROVE  SettledInv'
<1> USE DEF OthersUnchanged
<1>1. ASSUME NEW d \in CPU PROVE WithdrawnOK(d)' /\ NestedOK(d)'
  <2>1. CASE d = c
    BY <2>1
  <2>2. CASE d # c
    <3>1. WithdrawnOK(d) /\ NestedOK(d)
      BY DEF SettledInv
    <3>2. \A l \in Lvl : Asks(d, l)' <=> Asks(d, l)
      BY <2>2 DEF Asks
    <3>3. WithdrawnOK(d)'
      BY <2>2, <3>1, <3>2 DEF WithdrawnOK, OffLevels
    <3>4. NestedOK(d)'
      BY <2>2, <3>1, <3>2 DEF NestedOK
    <3> QED
      BY <3>3, <3>4
  <2> QED
    BY <2>1, <2>2
<1>2. ResultsRequested'
  <2> SUFFICES ASSUME NEW e \in CPU, NEW l \in Computed(e)'
               PROVE  \E d \in CPU : Anc[d][l] = Anc[e][l] /\ info'[e][l] = req[d][l]
    BY DEF ResultsRequested
  <2>1. l \in Computed(e) /\ info'[e] = info[e]
    BY DEF Computed
  <2> QED
    BY <2>1 DEF SettledInv, ResultsRequested
<1>3. StatesRequested'
  <2> SUFFICES ASSUME NEW e \in CPU, NEW l \in Lvl,
                      \A d \in CPU : Anc[d][l] = Anc[e][l] => l \notin Unsettled(d)'
               PROVE  \E d \in CPU : Anc[d][l] = Anc[e][l] /\ pdState[Anc[e][l]] = req[d][l]
    BY DEF StatesRequested
  <2>1. ASSUME NEW d \in CPU, l \in Unsettled(d) PROVE l \in Unsettled(d)'
    BY <2>1 DEF Unsettled
  <2> QED
    BY <2>1 DEF SettledInv, StatesRequested
<1> QED
  BY <1>1, <1>2, <1>3 DEF SettledInv

(* A step to or from a place where c is not at work on its requests.       *)
LEMMA PlainStep ==
  ASSUME IInv, IInv', SettledInv, NEW c \in CPU,
         OthersUnchanged(c), UNCHANGED <<req, pdState, owner>>,
         pc[c] # "coordinate", pc[c] = "set_target" => lvl[c] > end[c],
         pc[c] = "run" => Running(c)',
         pc'[c] \notin {"coordinate", "set_target"},
         pc'[c] = "acquire" => handler'[c] \in {"boot", "standby_finish"},
         OffLevels(c)' \subseteq OffLevels(c)
  PROVE  SettledInv'
<1>1. WithdrawnOK(c) /\ NestedOK(c) /\ TypeOK
  BY DEF SettledInv, IInv, CoordInv
<1>2. Unsettled(c) = {} /\ Computed(c)' = {}
  <2>1. lvl[c] \in Nat /\ end[c] \in Nat
    BY <1>1, SizeAssumption DEF TypeOK
  <2> QED
    BY <2>1, LvlFacts DEF Unsettled, Computed
<1>3. \A l \in Lvl : ~ Asks(c, l)'
  BY DEF Asks
<1>4. WithdrawnOK(c)'
  BY <1>1, <1>3 DEF WithdrawnOK
<1>5. NestedOK(c)'
  <2>1. CASE pc[c] # "run"
    BY <1>1, <1>3, <2>1 DEF NestedOK
  <2>2. CASE pc[c] = "run"
    <3>1. \A l \in Lvl : req'[c][l] = RUN
      BY <2>2 DEF IInv, CoordInv, RequestsOK, RunLevels
    <3> QED
      BY <1>3, <3>1 DEF NestedOK, StateType
  <2> QED
    BY <2>1, <2>2
<1>6. OwnersOK'
  BY DEF SettledInv, OwnersOK
<1> QED
  BY <1>2, <1>4, <1>5, <1>6, QuietStep

LEMMA PlainSettled ==
  ASSUME IInv, IInv', SettledInv, NEW c \in CPU,
         \/ \E t \in CPU : CpuOn(c, t)
         \/ OnLock(c) \/ OnCheck(c) \/ OnPending(c) \/ OnPower(c) \/ OnFail(c) \/ OnContext(c)
         \/ OnUnlock(c)
         \/ \E s \in PowerStates : CpuStandby(c, s)
         \/ StandbyExit(c) \/ SystemSuspend(c) \/ LastOnCheck(c)
         \/ OffSetAffinity(c) \/ PowerDownWfi(c) \/ PowerUp(c) \/ WakeUp(c)
         \/ Released(c) \/ OffDenied(c) \/ SuspendAbandon(c)
         \/ OffRelease(c) \/ PwrDownRelease(c) \/ StandbyRelease(c)
         \/ WakeStandby(c) \/ WarmBoot(c)
         \/ OnFinish(c) \/ OnFinishSync(c) \/ SuspendFinish(c) \/ StandbyFinish(c) \/ RunCpu(c)
  PROVE  SettledInv'
<1>0. TypeOK /\ ControlOK(c) /\ AffInfoOK(c)
  BY DEF IInv, CoordInv, OnInv
<1> USE <1>0 DEF TypeOK, Goto, shared, locals, OthersUnchanged
<1>1. CASE \/ \E t \in CPU : CpuOn(c, t)
           \/ OnLock(c) \/ OnCheck(c) \/ OnPending(c) \/ OnPower(c) \/ OnFail(c) \/ OnContext(c)
           \/ OnUnlock(c)
  <2>1. /\ pc[c] \in NormalWorld /\ pc'[c] \in NormalWorld /\ OthersUnchanged(c)
        /\ UNCHANGED <<req, pdState, owner>>
    BY <1>1 DEF CpuOn, OnLock, OnCheck, OnPending, OnPower, OnFail, OnContext, OnUnlock, NormalWorld
  <2>2. OffLevels(c)' = {}
    BY <2>1 DEF OffLevels, NormalWorld
  <2> QED
    BY <2>1, <2>2, PlainStep DEF NormalWorld
<1>2. CASE \/ \E s \in PowerStates : CpuStandby(c, s)
           \/ StandbyExit(c) \/ SystemSuspend(c) \/ LastOnCheck(c)
  <2>1. /\ pc[c] \in NormalWorld /\ pc'[c] \in NormalWorld /\ OthersUnchanged(c)
        /\ UNCHANGED <<req, pdState, owner>>
    BY <1>2 DEF CpuStandby, StandbyExit, SystemSuspend, LastOnCheck, NormalWorld
  <2>2. OffLevels(c)' = {}
    BY <2>1 DEF OffLevels, NormalWorld
  <2> QED
    BY <2>1, <2>2, PlainStep DEF NormalWorld
<1>3. CASE OffSetAffinity(c) \/ PowerDownWfi(c) \/ PowerUp(c) \/ WakeUp(c)
  <2>1. /\ pc[c] \in {"off", "dying", "down"} /\ pc'[c] \in {"dying", "down", "boot"}
        /\ pc'[c] = "dying" => pc[c] = "off"
        /\ pc'[c] = "down" => pc[c] = "dying"
        /\ OthersUnchanged(c) /\ UNCHANGED <<req, pdState, owner, suspLvl>>
    BY <1>3 DEF OffSetAffinity, PowerDownWfi, PowerUp, WakeUp
  <2>2. OffLevels(c)' \subseteq OffLevels(c)
    BY <2>1 DEF OffLevels
  <2> QED
    BY <2>1, <2>2, PlainStep
<1>4. CASE Released(c)
  <2>1. /\ pc[c] = "release" /\ pc'[c] = after[c]
        /\ OthersUnchanged(c) /\ UNCHANGED <<req, pdState, owner, suspLvl>>
    BY <1>4 DEF Released
  <2>2. /\ after[c] \in {"ns", "off", "down", "wfi"}
        /\ after[c] = "down" => suspLvl[c] # NoLvl
    BY <2>1, SizeAssumption DEF ControlOK, NoLvl
  <2>3. OffLevels(c)' \subseteq OffLevels(c)
    BY <2>1, <2>2 DEF OffLevels
  <2> QED
    BY <2>1, <2>2, <2>3, PlainStep
<1>5. CASE OffDenied(c) \/ SuspendAbandon(c) \/ PwrDownRelease(c) \/ StandbyRelease(c)
  <2>1. /\ pc[c] \in {"acquire", "set_target"} /\ lvl[c] > end[c]
        /\ pc'[c] = "release" /\ after'[c] \in {"ns", "down", "wfi"}
        /\ OthersUnchanged(c) /\ UNCHANGED <<req, pdState, owner>>
    BY <1>5 DEF OffDenied, SuspendAbandon, PwrDownRelease, StandbyRelease, StartRelease, Locked
  <2>2. OffLevels(c)' = {}
    BY <2>1 DEF OffLevels
  <2> QED
    BY <2>1, <2>2, PlainStep
<1>6. CASE OffRelease(c)
  <2>1. /\ pc[c] = "set_target" /\ lvl[c] > end[c] /\ handler[c] = "off"
        /\ pc'[c] = "release" /\ OthersUnchanged(c) /\ UNCHANGED <<req, pdState, owner>>
    BY <1>6 DEF OffRelease, StartRelease
  <2>2. OffLevels(c)' \subseteq OffLevels(c)
    BY <2>1 DEF OffLevels
  <2> QED
    BY <2>1, <2>2, PlainStep
<1>7. CASE WakeStandby(c) \/ WarmBoot(c)
  <2>1. /\ pc[c] \in {"wfi", "boot"} /\ pc'[c] \in {"acquire", "panic"}
        /\ pc'[c] = "acquire" => handler'[c] \in {"boot", "standby_finish"}
        /\ OthersUnchanged(c) /\ UNCHANGED <<req, pdState, owner>>
    BY <1>7 DEF WakeStandby, WarmBoot, StartAcquire
  <2>2. OffLevels(c)' = {}
    BY <2>1 DEF OffLevels
  <2> QED
    BY <2>1, <2>2, PlainStep
<1>8. CASE OnFinish(c) \/ OnFinishSync(c) \/ SuspendFinish(c) \/ StandbyFinish(c)
  <2>1. /\ pc[c] \in {"acquire", "sync"} /\ pc'[c] \in {"sync", "run"}
        /\ OthersUnchanged(c) /\ UNCHANGED <<req, pdState, owner>>
    BY <1>8 DEF OnFinish, OnFinishSync, SuspendFinish, StandbyFinish, StartRun, Locked
  <2>2. OffLevels(c)' = {}
    BY <2>1 DEF OffLevels
  <2> QED
    BY <2>1, <2>2, PlainStep
<1>9. CASE RunCpu(c)
  <2>1. /\ pc[c] = "run" /\ pc'[c] = "release" /\ after'[c] = "ns"
        /\ OthersUnchanged(c) /\ UNCHANGED <<req, pdState, owner>>
    BY <1>9 DEF RunCpu, StartRelease
  <2>2. OffLevels(c)' = {} /\ Running(c)'
    BY <2>1 DEF OffLevels, Running
  <2> QED
    BY <2>1, <2>2, PlainStep
<1> QED
  BY <1>1, <1>2, <1>3, <1>4, <1>5, <1>6, <1>7, <1>8, <1>9

(* A call asks for the locks of its domains, on behalf of a valid request. *)
LEMMA CallSettled ==
  ASSUME IInv, IInv', SettledInv, NEW c \in CPU,
         CpuOff(c) \/ LastOn(c) \/ \E s \in PowerStates : CpuSuspend(c, s)
  PROVE  SettledInv'
<1>0. TypeOK /\ WithdrawnOK(c) /\ NestedOK(c)
  BY DEF IInv, CoordInv, SettledInv
<1>1. PICK e, s, h :
        /\ StartAcquire(c, e, s, h) /\ pc[c] \in NormalWorld
        /\ h \in {"off", "suspend", "pwrdown"}
        /\ h = "off" => e = MaxLvl /\ \A l \in Lvl : s[l] = OFF
        /\ \A l \in Lvl : l + 1 <= e => StateType(s[l]) >= StateType(s[l+1])
        /\ UNCHANGED <<shared, after>>
  <2>1. CASE CpuOff(c) \/ LastOn(c)
    <3> DEFINE S == [l \in 0..MaxLvl |-> OFF]
    <3>1. PICK h \in {"off", "pwrdown"} : StartAcquire(c, MaxLvl, S, h) /\ UNCHANGED <<shared, after>>
      BY <2>1 DEF CpuOff, LastOn
    <3>2. \A l \in 0..MaxLvl : S[l] = OFF
      OBVIOUS
    <3>3. \A l \in Lvl : l \in 0..MaxLvl /\ (l + 1 <= MaxLvl => l + 1 \in 0..MaxLvl)
      BY LvlFacts
    <3>4. StateType(OFF) \in Int
      BY DEF StateType, OFF, RUN, RET
    <3>5. pc[c] \in NormalWorld
      BY <2>1 DEF CpuOff, LastOn, NormalWorld
    <3> HIDE DEF S
    <3>6. \A l \in Lvl : l + 1 <= MaxLvl => StateType(S[l]) >= StateType(S[l+1])
      BY <3>2, <3>3, <3>4
    <3> QED
      BY <3>1, <3>2, <3>3, <3>5, <3>6
  <2>2. ASSUME NEW s \in PowerStates, CpuSuspend(c, s)
        PROVE  /\ pc[c] \in NormalWorld /\ UNCHANGED <<shared, after>>
               /\ \E h \in {"suspend", "pwrdown"} : StartAcquire(c, TargetSuspendLvl(s), s, h)
               /\ \A l \in Lvl : l + 1 <= TargetSuspendLvl(s) => StateType(s[l]) >= StateType(s[l+1])
    <3>1. /\ ValidSuspendReq(s, s[0] = OFF) /\ UNCHANGED <<shared, after>>
          /\ StartAcquire(c, TargetSuspendLvl(s), s, IF s[0] = OFF THEN "pwrdown" ELSE "suspend")
          /\ pc[c] \in NormalWorld
      BY <2>2 DEF CpuSuspend, NormalWorld
    <3>2. \A l \in 0..(TargetSuspendLvl(s) - 1) : StateType(s[l]) >= StateType(s[l+1])
      BY <3>1 DEF ValidSuspendReq
    <3>3. TargetSuspendLvl(s) \in 0..MaxLvl
      BY <3>1, TargetSuspendLvlType, PowerStatesAssumption DEF ValidSuspendReq
    <3>4. \A l \in Lvl : l + 1 <= TargetSuspendLvl(s) => l \in 0..(TargetSuspendLvl(s) - 1)
      BY <3>3, LvlFacts
    <3> QED
      BY <3>1, <3>2, <3>4
  <2> QED
    BY <2>1, <2>2
<1>2. /\ pc'[c] = "acquire" /\ end'[c] = e /\ info'[c] = s /\ handler'[c] = h
      /\ OthersUnchanged(c) /\ UNCHANGED <<req, pdState, owner, suspLvl>>
  BY <1>0, <1>1 DEF TypeOK, StartAcquire, Goto, OthersUnchanged, shared
<1>3. OffLevels(c)' = {} /\ Unsettled(c) = {} /\ Computed(c)' = {}
  BY <1>1, <1>2 DEF OffLevels, Unsettled, Computed, NormalWorld
<1>4. WithdrawnOK(c)'
  BY <1>1, <1>2, <1>3 DEF WithdrawnOK
<1>5. NestedOK(c)'
  BY <1>0, <1>1, <1>2 DEF NestedOK, NormalWorld
<1>6. OwnersOK'
  BY <1>2 DEF SettledInv, OwnersOK
<1> QED
  BY <1>2, <1>3, <1>4, <1>5, <1>6, QuietStep

(* The locks are taken and coordination starts; it is over.                *)
LEMMA CoordinationSettled ==
  ASSUME IInv, SettledInv, NEW c \in CPU,
         OffCoordinate(c) \/ SuspendCoordinate(c) \/ Coordinated(c)
  PROVE  SettledInv'
<1>0. TypeOK /\ ControlOK(c) /\ WithdrawnOK(c) /\ NestedOK(c)
  BY DEF IInv, CoordInv, SettledInv
<1>1. lvl[c] \in Nat /\ end[c] \in Nat
  BY <1>0, SizeAssumption DEF TypeOK
<1>2. OwnersOK'
  BY DEF SettledInv, OwnersOK, OffCoordinate, SuspendCoordinate, Coordinated, shared
<1>3. CASE OffCoordinate(c) \/ SuspendCoordinate(c)
  <2>1. /\ pc[c] = "acquire" /\ handler[c] \in {"off", "suspend", "pwrdown"}
        /\ pc'[c] = "coordinate" /\ lvl'[c] = 1 /\ OthersUnchanged(c)
        /\ UNCHANGED <<req, pdState, end, info, handler>>
    BY <1>0, <1>3 DEF OffCoordinate, SuspendCoordinate, StartCoordination, Locked, Goto, TypeOK,
                      OthersUnchanged, shared
  <2>2. OffLevels(c)' = {} /\ Unsettled(c) = {} /\ Computed(c)' = {}
    BY <2>1, LvlFacts DEF OffLevels, Unsettled, Computed
  <2>3. \A l \in Lvl : Asks(c, l)
    BY <2>1 DEF Asks
  <2>4. WithdrawnOK(c)'
    BY <1>0, <2>1, <2>2, <2>3 DEF WithdrawnOK
  <2>5. NestedOK(c)'
    BY <1>0, <2>1, <2>3, LvlFacts DEF NestedOK
  <2> QED
    BY <1>2, <2>1, <2>2, <2>4, <2>5, QuietStep
<1>4. CASE Coordinated(c)
  <2>1. /\ pc[c] = "coordinate" /\ lvl[c] = end[c] + 1 /\ pc'[c] = "set_target" /\ lvl'[c] = 1
        /\ OthersUnchanged(c) /\ UNCHANGED <<req, pdState, end, info, handler>>
    BY <1>0, <1>1, <1>4 DEF Coordinated, Goto, TypeOK, OthersUnchanged, ControlOK
  <2>2. Unsettled(c)' = Unsettled(c) /\ Computed(c)' = Computed(c)
    BY <1>1, <2>1, LvlFacts DEF Unsettled, Computed
  <2>3. OffLevels(c)' \subseteq OffLevels(c)
    BY <1>0, <1>1, <2>1, LvlFacts DEF OffLevels, WithdrawnOK
  <2>4. \A l \in Lvl : ~ Asks(c, l)'
    BY <2>1 DEF Asks
  <2>5. WithdrawnOK(c)'
    BY <1>0, <2>1, <2>3, <2>4 DEF WithdrawnOK
  <2>6. NestedOK(c)'
    BY <1>0, <2>1, <2>4 DEF NestedOK
  <2> QED
    BY <1>2, <2>1, <2>2, <2>5, <2>6, QuietStep
<1> QED
  BY <1>3, <1>4

(* The domain locks.                                                       *)
LEMMA LockSettled ==
  ASSUME IInv, IInv', SettledInv, NEW c \in CPU, AcquireLock(c) \/ ReleaseLock(c)
  PROVE  SettledInv'
<1>0. TypeOK /\ ControlOK(c) /\ WithdrawnOK(c) /\ NestedOK(c)
  BY DEF IInv, CoordInv, SettledInv
<1>1. /\ pc[c] \in {"acquire", "release"} /\ OthersUnchanged(c)
      /\ UNCHANGED <<pc, req, pdState, end, info, handler, after, suspLvl>>
  BY <1>0 DEF AcquireLock, ReleaseLock, TypeOK, OthersUnchanged
<1>2. Unsettled(c) = {} /\ Computed(c)' = {} /\ OffLevels(c)' = OffLevels(c)
  BY <1>1 DEF Unsettled, Computed, OffLevels
<1>3. \A l \in Lvl : Asks(c, l)' <=> Asks(c, l)
  BY <1>1 DEF Asks
<1>4. WithdrawnOK(c)'
  BY <1>0, <1>1, <1>2, <1>3 DEF WithdrawnOK
<1>5. NestedOK(c)'
  BY <1>0, <1>1, <1>3 DEF NestedOK
<1>6. OwnersOK'
  <2>1. lvl[c] \in Lvl
    BY <1>0, SizeAssumption DEF AcquireLock, ReleaseLock, ControlOK, TypeOK, Lvl
  <2>2. PICK x \in {c, NoCpu} : owner' = [owner EXCEPT ![Anc[c][lvl[c]]] = x]
    BY DEF AcquireLock, ReleaseLock
  <2> QED
    BY <1>0, <2>1, <2>2 DEF OwnersOK, SettledInv, TypeOK
<1> QED
  BY <1>1, <1>2, <1>4, <1>5, <1>6, QuietStep

(* The outcome of a level is stored.                                       *)
LEMMA SetTargetSettled ==
  ASSUME IInv, IInv', SettledInv, NEW c \in CPU, SetTargetLevel(c)
  PROVE  SettledInv'
<1>0. TypeOK /\ ControlOK(c) /\ end[c] \in 0..MaxLvl /\ lvl[c] \in Nat
  BY SizeAssumption DEF IInv, CoordInv, TypeOK
<1> DEFINE k == lvl[c]
           n == Anc[c][k]
<1>1. /\ pc[c] = "set_target" /\ k \in Lvl /\ k <= end[c] /\ n \in Node /\ lvl'[c] = k + 1
      /\ pdState' = [pdState EXCEPT ![n] = info[c][k]]
  BY <1>0, TreeFacts, SizeAssumption DEF SetTargetLevel, ControlOK, TypeOK, Lvl
<1>2. /\ UNCHANGED <<pc, owner, req, suspLvl, end, info, handler, after>>
      /\ \A d \in CPU \ {c} : lvl'[d] = lvl[d]
  BY <1>0 DEF SetTargetLevel, TypeOK
<1> HIDE DEF k
<1>3. ASSUME NEW d \in CPU PROVE WithdrawnOK(d)' /\ NestedOK(d)'
  <2>1. WithdrawnOK(d) /\ NestedOK(d)
    BY DEF SettledInv
  <2>2. \A l \in Lvl : Asks(d, l)' <=> Asks(d, l)
    BY <1>1, <1>2 DEF Asks
  <2>3. OffLevels(d)' = OffLevels(d)
    BY <1>1, <1>2 DEF OffLevels
  <2>4. WithdrawnOK(d)'
    BY <1>2, <2>1, <2>2, <2>3 DEF WithdrawnOK
  <2>5. NestedOK(d)'
    BY <1>1, <1>2, <2>1, <2>2 DEF NestedOK
  <2> QED
    BY <2>4, <2>5
<1>4. ResultsRequested'
  <2>1. \A d \in CPU : Computed(d)' = Computed(d)
    BY <1>1, <1>2 DEF Computed
  <2> QED
    BY <1>2, <2>1 DEF SettledInv, ResultsRequested
<1>5. StatesRequested'
  <2> SUFFICES ASSUME NEW e \in CPU, NEW l \in Lvl,
                      \A d \in CPU : Anc[d][l] = Anc[e][l] => l \notin Unsettled(d)'
               PROVE  \E d \in CPU : Anc[d][l] = Anc[e][l] /\ pdState'[Anc[e][l]] = req[d][l]
    BY <1>2 DEF StatesRequested
  <2>1. CASE Anc[e][l] = n
    <3>1. l = k /\ k \in Computed(c)
      BY <1>1, <2>1, TreeFacts DEF Computed
    <3>2. PICK d \in CPU : Anc[d][k] = Anc[c][k] /\ info[c][k] = req[d][k]
      BY <3>1 DEF SettledInv, ResultsRequested
    <3> QED
      BY <1>0, <1>1, <2>1, <3>1, <3>2 DEF TypeOK
  <2>2. CASE Anc[e][l] # n
    <3>1. pdState'[Anc[e][l]] = pdState[Anc[e][l]]
      BY <1>0, <1>1, <2>2, TreeFacts DEF TypeOK
    <3>2. ASSUME NEW d \in CPU, Anc[d][l] = Anc[e][l], l \in Unsettled(d) PROVE l \in Unsettled(d)'
      <4>1. CASE d = c
        <5>1. l # k
          BY <2>2, <3>2, <4>1
        <5> QED
          BY <1>0, <1>1, <1>2, <3>2, <4>1, <5>1, LvlFacts DEF Unsettled, k
      <4>2. CASE d # c
        BY <1>2, <3>2, <4>2 DEF Unsettled
      <4> QED
        BY <4>1, <4>2
    <3> QED
      BY <3>1, <3>2 DEF SettledInv, StatesRequested
  <2> QED
    BY <2>1, <2>2
<1>6. OwnersOK'
  BY <1>2 DEF SettledInv, OwnersOK
<1> QED
  BY <1>3, <1>4, <1>5, <1>6 DEF SettledInv

(* A CPU that wakes up takes a level to RUN.                               *)
LEMMA RunLevelSettled ==
  ASSUME IInv, IInv', SettledInv, NEW c \in CPU, RunLevel(c)
  PROVE  SettledInv'
<1>0. TypeOK /\ ControlOK(c) /\ end[c] \in 0..MaxLvl /\ lvl[c] \in Nat
  BY SizeAssumption DEF IInv, CoordInv, TypeOK
<1> DEFINE k == lvl[c]
           n == Anc[c][k]
<1>1. /\ pc[c] = "run" /\ k \in Lvl /\ k <= end[c] /\ n \in Node /\ lvl'[c] = k + 1
      /\ pdState' = [pdState EXCEPT ![n] = RUN] /\ req' = [req EXCEPT ![c][k] = RUN]
  BY <1>0, TreeFacts, SizeAssumption DEF RunLevel, ControlOK, TypeOK, Lvl
<1>2. /\ UNCHANGED <<pc, owner, suspLvl, end, info, handler, after>>
      /\ \A d \in CPU \ {c} : lvl'[d] = lvl[d]
  BY <1>0 DEF RunLevel, TypeOK
<1> HIDE DEF k
<1>3. /\ \A d \in CPU : \A l \in Lvl : (d # c \/ l # k) => req'[d][l] = req[d][l]
      /\ req'[c][k] = RUN
  BY <1>0, <1>1 DEF TypeOK
<1>4. ASSUME NEW d \in CPU PROVE WithdrawnOK(d)' /\ NestedOK(d)'
  <2>1. WithdrawnOK(d) /\ NestedOK(d)
    BY DEF SettledInv
  <2>2. \A l \in Lvl : Asks(d, l)' <=> Asks(d, l)
    BY <1>1, <1>2 DEF Asks
  <2>3. OffLevels(d)' = OffLevels(d) /\ OffLevels(c) = {}
    BY <1>1, <1>2 DEF OffLevels
  <2>4. WithdrawnOK(d)'
    <3>1. \A l \in OffLevels(d) : l \in Lvl /\ d # c
      BY <2>3 DEF OffLevels
    <3> QED
      BY <1>2, <1>3, <2>1, <2>2, <2>3, <3>1 DEF WithdrawnOK
  <2>5. NestedOK(d)'
    <3>1. CASE d = c
      <4> SUFFICES ASSUME NEW l \in Lvl, l + 1 \in Lvl, l + 1 # k + 1
                   PROVE  StateType(req'[c][l]) >= StateType(req'[c][l+1])
        BY <1>1, <1>2, <3>1 DEF NestedOK, Asks
      <4>1. l # k
        OBVIOUS
      <4>2. req'[c][l] = req[c][l] /\ req[c][l] \in LocalState
        BY <1>0, <1>3, <4>1 DEF TypeOK
      <4>3. CASE l + 1 = k
        BY <1>3, <4>2, <4>3 DEF StateType, LocalState, RUN, RET, OFF
      <4>4. CASE l + 1 # k
        BY <1>1, <1>3, <2>1, <3>1, <4>2, <4>4 DEF NestedOK, k
      <4> QED
        BY <4>3, <4>4
    <3>2. CASE d # c
      BY <1>2, <1>3, <2>1, <2>2, <3>2 DEF NestedOK
    <3> QED
      BY <3>1, <3>2
  <2> QED
    BY <2>4, <2>5
<1>h. Holds(c, k)
  BY <1>1 DEF Holds
<1>5. ResultsRequested'
  <2> SUFFICES ASSUME NEW e \in CPU, NEW l \in Computed(e)'
               PROVE  \E d \in CPU : Anc[d][l] = Anc[e][l] /\ info[e][l] = req'[d][l]
    BY <1>2 DEF ResultsRequested
  <2>1. l \in Computed(e) /\ e # c /\ l \in Lvl
    BY <1>1, <1>2 DEF Computed
  <2>2. PICK d \in CPU : Anc[d][l] = Anc[e][l] /\ info[e][l] = req[d][l]
    BY <2>1 DEF SettledInv, ResultsRequested
  <2>3. Holds(e, l)
    BY <2>1, ComputedIsHeld DEF IInv, CoordInv
  <2>4. d # c \/ l # k
    BY <1>1, <1>h, <2>1, <2>2, <2>3, LockExcludes DEF IInv
  <2> QED
    BY <1>3, <2>1, <2>2, <2>4
<1>6. StatesRequested'
  <2> SUFFICES ASSUME NEW e \in CPU, NEW l \in Lvl,
                      \A d \in CPU : Anc[d][l] = Anc[e][l] => l \notin Unsettled(d)'
               PROVE  \E d \in CPU : Anc[d][l] = Anc[e][l] /\ pdState'[Anc[e][l]] = req'[d][l]
    BY DEF StatesRequested
  <2>1. CASE Anc[e][l] = n
    <3>1. l = k /\ pdState'[n] = RUN
      BY <1>0, <1>1, <2>1, TreeFacts DEF TypeOK
    <3> QED
      BY <1>3, <2>1, <3>1
  <2>2. CASE Anc[e][l] # n
    <3>1. pdState'[Anc[e][l]] = pdState[Anc[e][l]]
      BY <1>0, <1>1, <2>2, TreeFacts DEF TypeOK
    <3>2. \A d \in CPU : Unsettled(d)' = Unsettled(d)
      BY <1>1, <1>2 DEF Unsettled
    <3>3. PICK d \in CPU : Anc[d][l] = Anc[e][l] /\ pdState[Anc[e][l]] = req[d][l]
      BY <3>2 DEF SettledInv, StatesRequested
    <3>4. d # c \/ l # k
      BY <2>2, <3>3
    <3> QED
      BY <1>3, <3>1, <3>3, <3>4
  <2> QED
    BY <2>1, <2>2
<1>7. OwnersOK'
  BY <1>2 DEF SettledInv, OwnersOK
<1> QED
  BY <1>4, <1>5, <1>6, <1>7 DEF SettledInv

(* A request is stored and the state of its domain computed: where the     *)
(* domain below stays in RUN so does this one, because the CPU that keeps  *)
(* the one below in RUN asks for RUN here too.                             *)
LEMMA CoordinateLevelSettled ==
  ASSUME IInv, IInv', SettledInv, NEW c \in CPU, CoordinateLevel(c)
  PROVE  SettledInv'
<1>0. /\ TypeOK /\ ControlOK(c) /\ end[c] \in 0..MaxLvl /\ lvl[c] \in Nat
      /\ WithdrawnOK(c) /\ NestedOK(c)
  BY SizeAssumption DEF IInv, CoordInv, TypeOK, SettledInv
<1> DEFINE k == lvl[c]
           n == Anc[c][k]
           requests == [req EXCEPT ![c][k] = info[c][k]]
           states == {requests[d][k] : d \in Domain(n, k)}
<1>1. pc[c] = "coordinate" /\ k \in Lvl /\ k <= end[c] /\ n \in Node /\ lvl'[c] = k + 1
  BY <1>0, TreeFacts, SizeAssumption DEF CoordinateLevel, ControlOK, TypeOK, Lvl
<1>2. /\ UNCHANGED <<pc, owner, pdState, suspLvl, end, handler, after>>
      /\ \A d \in CPU \ {c} : lvl'[d] = lvl[d] /\ info'[d] = info[d]
  BY <1>0 DEF CoordinateLevel, TypeOK
<1>3. /\ req' = requests
      /\ \A l \in Lvl \ {k} : info'[c][l] = info[c][l]
      /\ \/ k > 1 /\ info[c][k-1] = RUN /\ info'[c][k] = RUN
         \/ info'[c][k] = TargetState(states)
  <2>1. req' = requests
    BY DEF CoordinateLevel
  <2>2. PICK r : /\ info' = [info EXCEPT ![c][k] = r]
                 /\ (k > 1 /\ info[c][k-1] = RUN /\ r = RUN) \/ r = TargetState(states)
    BY DEF CoordinateLevel
  <2>3. k \in 0..MaxLvl
    BY <1>1, TreeFacts
  <2> QED
    BY <1>0, <2>1, <2>2, <2>3, TreeFacts DEF TypeOK, PowerState
<1>4. requests \in [CPU -> [Lvl -> LocalState]] /\ info[c][k] \in LocalState
  <2>1. info[c][k] \in LocalState
    BY <1>0, <1>1, TreeFacts DEF TypeOK, PowerState
  <2> QED
    BY <1>0, <1>1, <2>1 DEF TypeOK
<1>5. /\ \A d \in CPU : \A l \in Lvl : (d # c \/ l # k) => req'[d][l] = req[d][l]
      /\ req'[c][k] = info[c][k]
  BY <1>0, <1>1, <1>3 DEF TypeOK
<1> HIDE DEF k, requests
<1>h. /\ \A l \in Lvl : l <= end[c] => Holds(c, l)
      /\ Asks(c, k)
  BY <1>0, <1>1 DEF Holds, Asks, k
<1>n. \A x, y \in LocalState : x <= y => StateType(x) <= StateType(y)
  BY DEF LocalState, StateType, RUN, RET, OFF
<1>r. \A x \in LocalState : StateType(x) \in 0..2 /\ (StateType(x) <= 0 <=> x = RUN)
  BY DEF LocalState, StateType, RUN, RET, OFF
<1>6. \A d \in CPU : \A l \in Lvl : req[d][l] \in LocalState /\ StateType(req[d][l]) >= StateType(RUN)
  BY <1>0 DEF TypeOK, LocalState, StateType, RUN, RET, OFF
<1>7. ASSUME k > 1
      PROVE  k - 1 \in Lvl /\ (k - 1) + 1 = k /\ StateType(req[c][k-1]) >= StateType(info[c][k])
  <2>1. k - 1 \in Lvl /\ (k - 1) + 1 = k
    BY <1>1, <1>7, SizeAssumption DEF Lvl
  <2> QED
    BY <1>0, <1>1, <2>1 DEF NestedOK, k
<1>8. \E d \in CPU : Anc[d][k] = n /\ info'[c][k] = req'[d][k]
  <2>1. CASE info'[c][k] = TargetState(states)
    <3>1. states \subseteq LocalState /\ requests[c][k] \in states
      BY <1>1, <1>4 DEF Domain
    <3>2. TargetState(states) \in states
      <4> HIDE DEF states
      <4> QED
        BY <3>1, TargetStateIsLeast
    <3> QED
      BY <1>3, <2>1, <3>2 DEF Domain
  <2>2. CASE k > 1 /\ info[c][k-1] = RUN /\ info'[c][k] = RUN
    <3>1. k - 1 \in Lvl /\ (k - 1) + 1 = k /\ StateType(req[c][k-1]) >= StateType(info[c][k])
      BY <1>7, <2>2
    <3>2. k - 1 \in Computed(c)
      BY <1>1, <3>1, LvlFacts DEF Computed, k
    <3>3. PICK d \in CPU : Anc[d][k-1] = Anc[c][k-1] /\ info[c][k-1] = req[d][k-1]
      BY <3>2 DEF SettledInv, ResultsRequested
    <3>4. Anc[d][k] = n
      BY <1>1, <3>1, <3>3, LvlFacts, TreeAssumption
    <3>5. CASE d = c
      <4>1. info[c][k] = RUN
        BY <1>4, <1>r, <2>2, <3>1, <3>3, <3>5 DEF StateType
      <4> QED
        BY <1>5, <2>2, <4>1
    <3>6. CASE d # c
      <4>1. k - 1 <= end[c]
        BY <1>0, <1>1, <3>1, LvlFacts
      <4>2. ~ Holds(d, k - 1)
        BY <1>h, <3>1, <3>3, <3>6, <4>1, LockExcludes DEF IInv
      <4>3. ControlOK(d) /\ end[d] \in 0..MaxLvl /\ lvl[d] \in Nat /\ NestedOK(d)
        BY SizeAssumption DEF IInv, CoordInv, TypeOK, SettledInv
      <4>4. ~ (pc[d] = "run" /\ lvl[d] = k)
        BY <3>1, <4>2, <4>3, LvlFacts DEF ControlOK, Holds
      <4>5. StateType(req[d][k-1]) >= StateType(req[d][k])
        BY <1>1, <3>1, <4>3, <4>4 DEF NestedOK
      <4>6. req[d][k] \in LocalState
        BY <1>1, <1>6
      <4>7. req[d][k] = RUN
        BY <1>r, <2>2, <3>3, <4>5, <4>6 DEF StateType
      <4> QED
        BY <1>1, <1>5, <2>2, <3>4, <3>6, <4>7
    <3> QED
      BY <3>5, <3>6
  <2> QED
    BY <1>3, <2>1, <2>2
<1>9. ASSUME NEW d \in CPU PROVE WithdrawnOK(d)' /\ NestedOK(d)'
  <2>1. WithdrawnOK(d) /\ NestedOK(d)
    BY DEF SettledInv
  <2>2. CASE d # c
    <3>1. \A l \in Lvl : Asks(d, l)' <=> Asks(d, l)
      BY <1>2, <2>2 DEF Asks
    <3>2. OffLevels(d)' = OffLevels(d) /\ OffLevels(d) \subseteq Lvl
      BY <1>2, <2>2 DEF OffLevels
    <3>3. WithdrawnOK(d)'
      BY <1>2, <1>5, <2>1, <2>2, <3>1, <3>2 DEF WithdrawnOK
    <3>4. NestedOK(d)'
      BY <1>2, <1>5, <2>1, <2>2, <3>1 DEF NestedOK
    <3> QED
      BY <3>3, <3>4
  <2>3. CASE d = c
    <3>1. \A l \in Lvl : Asks(c, l)' => l # k /\ l > k /\ Asks(c, l)
      BY <1>0, <1>1, <1>2, LvlFacts DEF Asks, k
    <3>2. WithdrawnOK(c)'
      <4>1. \A l \in OffLevels(c)' : l = k \/ l \in OffLevels(c)
        BY <1>0, <1>1, <1>2, LvlFacts DEF OffLevels, k
      <4>2. OffLevels(c)' # {} => handler[c] = "off"
        BY <1>1, <1>2 DEF OffLevels
      <4>3. \A l \in OffLevels(c)' : req'[c][l] = OFF
        BY <1>0, <1>1, <1>5, <1>h, <4>1, <4>2 DEF WithdrawnOK, OffLevels
      <4>4. \A l \in Lvl : handler'[c] = "off" /\ Asks(c, l)' => info'[c][l] = OFF
        BY <1>0, <1>2, <1>3, <3>1 DEF WithdrawnOK
      <4> QED
        BY <1>0, <1>1, <1>2, <4>3, <4>4 DEF WithdrawnOK
    <3>3. NestedOK(c)'
      <4> SUFFICES ASSUME NEW l \in Lvl, l + 1 \in Lvl
                   PROVE  /\ StateType(req'[c][l]) >= StateType(req'[c][l+1])
                          /\ l + 1 <= end[c] /\ Asks(c, l)' =>
                               StateType(info'[c][l]) >= StateType(info'[c][l+1])
                          /\ k + 1 = l + 1 /\ l + 1 <= end[c] =>
                               StateType(req'[c][l]) >= StateType(info'[c][l+1])
        BY <1>1, <1>2 DEF NestedOK
      <4>0. l \in Nat /\ k \in Nat /\ l # l + 1
        BY <1>1, LvlFacts
      <4>1. StateType(req'[c][l]) >= StateType(req'[c][l+1])
        <5>1. CASE l = k
          <6>1. l + 1 \in RunLevels(c)
            BY <1>1, <4>0, <5>1 DEF RunLevels, k
          <6>2. req'[c][l+1] = RUN
            BY <1>5, <4>0, <5>1, <6>1 DEF IInv, CoordInv, RequestsOK
          <6> QED
            BY <1>4, <1>5, <1>r, <5>1, <6>2 DEF StateType
        <5>2. CASE l + 1 = k
          <6>1. k > 1 /\ l = k - 1
            BY <4>0, <5>2, LvlFacts
          <6> QED
            BY <1>5, <1>7, <4>0, <5>2, <6>1
        <5>3. CASE l # k /\ l + 1 # k
          BY <1>0, <1>1, <1>5, <5>3 DEF NestedOK
        <5> QED
          BY <5>1, <5>2, <5>3
      <4>2. ASSUME l + 1 <= end[c], Asks(c, l)'
            PROVE  StateType(info'[c][l]) >= StateType(info'[c][l+1])
        <5>1. l # k /\ l + 1 # k /\ Asks(c, l)
          BY <3>1, <4>0, <4>2
        <5> QED
          BY <1>0, <1>3, <4>2, <5>1 DEF NestedOK
      <4>3. ASSUME k + 1 = l + 1, l + 1 <= end[c]
            PROVE  StateType(req'[c][l]) >= StateType(info'[c][l+1])
        <5>1. l = k
          BY <4>0, <4>3
        <5>2. StateType(info[c][k]) >= StateType(info[c][k+1])
          BY <1>0, <1>1, <1>h, <4>3, <5>1 DEF NestedOK
        <5> QED
          BY <1>3, <1>5, <4>0, <5>1, <5>2
      <4> QED
        BY <4>1, <4>2, <4>3
    <3> QED
      BY <2>3, <3>2, <3>3
  <2> QED
    BY <2>2, <2>3
<1>10. ResultsRequested'
  <2> SUFFICES ASSUME NEW e \in CPU, NEW l \in Computed(e)'
               PROVE  \E d \in CPU : Anc[d][l] = Anc[e][l] /\ info'[e][l] = req'[d][l]
    BY DEF ResultsRequested
  <2>1. CASE e = c /\ l = k
    BY <1>8, <2>1
  <2>2. CASE e # c \/ l # k
    <3>1. l \in Computed(e) /\ l \in Lvl /\ info'[e][l] = info[e][l]
      <4>1. l \in Lvl
        BY DEF Computed
      <4>2. CASE e = c
        BY <1>0, <1>1, <1>2, <1>3, <2>2, <4>1, <4>2, LvlFacts DEF Computed, k
      <4>3. CASE e # c
        BY <1>2, <4>1, <4>3 DEF Computed
      <4> QED
        BY <4>2, <4>3
    <3>2. PICK d \in CPU : Anc[d][l] = Anc[e][l] /\ info[e][l] = req[d][l]
      BY <3>1 DEF SettledInv, ResultsRequested
    <3>3. d # c \/ l # k
      <4>1. CASE e = c
        BY <2>2, <4>1
      <4>2. CASE e # c
        <5>1. Holds(e, l)
          BY <3>1, ComputedIsHeld DEF IInv, CoordInv
        <5> QED
          BY <1>1, <1>h, <3>1, <3>2, <4>2, <5>1, LockExcludes DEF IInv
      <4> QED
        BY <4>1, <4>2
    <3> QED
      BY <1>5, <3>1, <3>2, <3>3
  <2> QED
    BY <2>1, <2>2
<1>11. StatesRequested'
  <2> SUFFICES ASSUME NEW e \in CPU, NEW l \in Lvl,
                      \A d \in CPU : Anc[d][l] = Anc[e][l] => l \notin Unsettled(d)'
               PROVE  \E d \in CPU : Anc[d][l] = Anc[e][l] /\ pdState[Anc[e][l]] = req'[d][l]
    BY <1>2 DEF StatesRequested
  <2>1. ~ (Anc[c][l] = Anc[e][l] /\ l = k)
    BY <1>1, <1>2, LvlFacts DEF Unsettled
  <2>2. ASSUME NEW d \in CPU, l \in Unsettled(d) PROVE l \in Unsettled(d)'
    <3>1. CASE d = c
      BY <1>0, <1>1, <1>2, <2>2, <3>1, LvlFacts DEF Unsettled, k
    <3>2. CASE d # c
      BY <1>2, <2>2, <3>2 DEF Unsettled
    <3> QED
      BY <3>1, <3>2
  <2>3. PICK d \in CPU : Anc[d][l] = Anc[e][l] /\ pdState[Anc[e][l]] = req[d][l]
    BY <2>2 DEF SettledInv, StatesRequested
  <2> QED
    BY <1>5, <2>1, <2>3
<1>12. OwnersOK'
  BY <1>2 DEF SettledInv, OwnersOK
<1> QED
  BY <1>9, <1>10, <1>11, <1>12 DEF SettledInv

LEMMA SettledNext == IInv /\ IInv' /\ SettledInv /\ [Next]_vars => SettledInv'
<1> SUFFICES ASSUME IInv, IInv', SettledInv, [Next]_vars PROVE SettledInv'
  OBVIOUS
<1>1. CASE UNCHANGED vars
  <2> USE <1>1 DEF vars, shared, locals
  <2>1. OwnersOK' /\ ResultsRequested' /\ StatesRequested'
    BY DEF SettledInv, OwnersOK, ResultsRequested, Computed, StatesRequested, Unsettled
  <2>2. ASSUME NEW c \in CPU PROVE WithdrawnOK(c)' /\ NestedOK(c)'
    BY DEF SettledInv, WithdrawnOK, OffLevels, NestedOK, Asks
  <2> QED
    BY <2>1, <2>2 DEF SettledInv
<1>2. ASSUME NEW c \in CPU,
             Firmware(c) \/ OnLock(c) \/ OnFinishSync(c) \/ AcquireLock(c) \/ PowerUp(c)
             \/ Call(c) \/ Wake(c)
      PROVE  SettledInv'
  BY <1>2, PlainSettled, CallSettled, CoordinationSettled, LockSettled, SetTargetSettled,
     RunLevelSettled, CoordinateLevelSettled
     DEF Firmware, Call, Wake
<1> QED
  BY <1>1, <1>2 DEF Next

LEMMA AlwaysSettled == Spec => [](IInv /\ SettledInv)
<1>1. Init => SettledInv
  BY InitSettled
<1>2. IInv /\ IInv' /\ SettledInv /\ [Next]_vars => SettledInv'
  BY SettledNext
<1> QED
  BY <1>1, <1>2, InductiveInvariant, PTL DEF Spec

(* When nobody is at work on a power domain it is in the shallowest state  *)
(* that its CPUs requested, neither deeper nor shallower, and no domain is *)
(* in a shallower kind of state than its parent, on any tree of domains.   *)
THEOREM DomainsAreCoordinated == Spec => []DomainsCoordinated
<1>1. IInv /\ SettledInv => DomainsCoordinated
  <2> SUFFICES ASSUME IInv, SettledInv, NEW c \in CPU, NEW l \in Lvl, owner[Anc[c][l]] = NoCpu
               PROVE  /\ pdState[Anc[c][l]] = TargetState({req[d][l] : d \in Domain(Anc[c][l], l)})
                      /\ l + 1 \in Lvl /\ owner[Anc[c][l+1]] = NoCpu =>
                           StateType(pdState[Anc[c][l]]) >= StateType(pdState[Anc[c][l+1]])
    BY DEF DomainsCoordinated
  <2> DEFINE n == Anc[c][l]
             S == {req[d][l] : d \in Domain(n, l)}
  <2>1. TypeOK /\ n \in Node
    BY TreeFacts DEF IInv, CoordInv
  <2>2. ASSUME NEW d \in CPU, Anc[d][l] = n PROVE ~ Holds(d, l) /\ l \notin Unsettled(d)
    <3>1. ~ Holds(d, l) /\ ControlOK(d) /\ end[d] \in 0..MaxLvl /\ lvl[d] \in Nat
      BY <2>1, <2>2, TreeFacts, SizeAssumption DEF IInv, CoordInv, LocksOK, TypeOK
    <3> QED
      BY <3>1, LvlFacts DEF Unsettled, Holds, ControlOK
  <2>3. PICK d \in CPU : Anc[d][l] = n /\ pdState[n] = req[d][l]
    BY <2>2 DEF SettledInv, StatesRequested
  <2>4. pdState[n] \in S /\ \A r \in S : pdState[n] <= r
    BY <2>3 DEF Domain, IInv, CoordInv, NoDeeperThanRequested
  <2>5. S \subseteq LocalState /\ S # {}
    <3>1. \A e \in CPU : req[e][l] \in LocalState
      BY <2>1 DEF TypeOK
    <3> QED
      BY <2>4, <3>1 DEF Domain
  <2> HIDE DEF S
  <2>6. TargetState(S) \in S /\ \A r \in S : TargetState(S) <= r
    BY <2>5, TargetStateIsLeast
  <2>7. pdState[n] = TargetState(S)
    <3>1. /\ pdState[n] \in LocalState /\ TargetState(S) \in LocalState
          /\ pdState[n] <= TargetState(S) /\ TargetState(S) <= pdState[n]
      BY <2>4, <2>5, <2>6
    <3>2. \A x, y \in LocalState : x <= y /\ y <= x => x = y
      BY DEF LocalState, RUN, OFF
    <3> QED
      BY <3>1, <3>2
  <2>8. ASSUME l + 1 \in Lvl PROVE StateType(pdState[n]) >= StateType(pdState[Anc[c][l+1]])
    <3>1. Anc[d][l+1] = Anc[c][l+1] /\ Anc[c][l+1] \in Node
      BY <2>3, <2>8, LvlFacts, TreeFacts, TreeAssumption
    <3>2. ControlOK(d) /\ end[d] \in 0..MaxLvl /\ lvl[d] \in Nat /\ NestedOK(d)
      BY SizeAssumption DEF IInv, CoordInv, TypeOK, SettledInv
    <3>3. ~ (pc[d] = "run" /\ lvl[d] = l + 1)
      BY <2>2, <2>3, <3>2, LvlFacts DEF ControlOK, Holds
    <3>4. StateType(req[d][l]) >= StateType(req[d][l+1])
      BY <2>8, <3>2, <3>3 DEF NestedOK
    <3>5. /\ pdState[Anc[c][l+1]] <= req[d][l+1]
          /\ pdState[Anc[c][l+1]] \in LocalState /\ req[d][l+1] \in LocalState
      BY <2>1, <2>8, <3>1 DEF IInv, CoordInv, NoDeeperThanRequested, TypeOK
    <3>6. StateType(req[d][l+1]) >= StateType(pdState[Anc[c][l+1]])
      BY <3>5 DEF LocalState, StateType, RUN, RET, OFF
    <3>7. req[d][l] \in LocalState
      BY <2>1 DEF TypeOK
    <3>8. \A x \in LocalState : StateType(x) \in Int
      BY DEF StateType
    <3> QED
      BY <2>3, <3>4, <3>5, <3>6, <3>7, <3>8
  <2> QED
    BY <2>7, <2>8 DEF S
<1> QED
  BY <1>1, AlwaysSettled, PTL

(* A CPU that AFFINITY_INFO reports as OFF holds no lock of a domain and   *)
(* keeps no domain on.                                                     *)
THEOREM OffIsAlwaysQuiet == Spec => []OffIsQuiet
<1>1. IInv /\ SettledInv => OffIsQuiet
  <2> SUFFICES ASSUME IInv, SettledInv, NEW c \in CPU, aff[c] = "OFF"
               PROVE  /\ pc[c] \in {"dying", "down"}
                      /\ \A l \in Lvl : req[c][l] = OFF
                      /\ \A n \in Node : owner[n] # c
    BY DEF OffIsQuiet
  <2>1. pc[c] \in {"dying", "down"} /\ suspLvl[c] = NoLvl
    BY DEF IInv, OnInv, AffInfoOK
  <2>2. \A l \in Lvl : req[c][l] = OFF
    BY <2>1 DEF SettledInv, WithdrawnOK, OffLevels
  <2>3. ASSUME NEW n \in Node, owner[n] = c PROVE FALSE
    <3>1. PICK l \in Lvl : n = Anc[c][l]
      BY <2>3, TreeFacts DEF SettledInv, OwnersOK
    <3> QED
      BY <2>1, <2>3, <3>1 DEF IInv, CoordInv, LocksOK, Holds
  <2> QED
    BY <2>1, <2>2, <2>3
<1> QED
  BY <1>1, AlwaysSettled, PTL

(* What a CPU that is down does, and how a CPU gets to look at the others. *)
LEMMA StepFrom ==
  ASSUME IInv, NEW e \in CPU,
         Firmware(e) \/ OnLock(e) \/ OnFinishSync(e) \/ AcquireLock(e) \/ PowerUp(e)
         \/ Call(e) \/ Wake(e)
  PROVE  /\ \A d \in CPU \ {e} : pc'[d] = pc[d] /\ target'[d] = target[d]
         /\ pc[e] \in {"dying", "down"} => aff' = aff
         /\ pc'[e] = "last_on" => SystemSuspend(e) \/ LastOnCheck(e)
<1>0. TypeOK /\ ControlOK(e)
  BY DEF IInv, CoordInv
<1> USE <1>0 DEF TypeOK, Goto, shared, locals
<1>1. CASE OnLock(e) \/ OnCheck(e) \/ OnPending(e) \/ OnPower(e) \/ OnFail(e) \/ OnContext(e) \/ OnUnlock(e)
  BY <1>1 DEF OnLock, OnCheck, OnPending, OnPower, OnFail, OnContext, OnUnlock
<1>2. CASE AcquireLock(e) \/ ReleaseLock(e) \/ CoordinateLevel(e) \/ SetTargetLevel(e) \/ RunLevel(e)
  BY <1>2 DEF AcquireLock, ReleaseLock, CoordinateLevel, SetTargetLevel, RunLevel
<1>3. CASE Released(e)
  BY <1>3 DEF Released, ControlOK
<1>4. CASE Coordinated(e) \/ OffDenied(e) \/ OffCoordinate(e) \/ OffRelease(e)
  BY <1>4 DEF Coordinated, OffDenied, OffCoordinate, OffRelease, Locked, StartRelease, StartCoordination
<1>5. CASE OffSetAffinity(e) \/ PowerDownWfi(e) \/ PowerUp(e) \/ WakeUp(e)
  BY <1>5 DEF OffSetAffinity, PowerDownWfi, PowerUp, WakeUp
<1>6. CASE SuspendAbandon(e) \/ SuspendCoordinate(e) \/ PwrDownRelease(e) \/ StandbyRelease(e)
  BY <1>6 DEF SuspendAbandon, SuspendCoordinate, PwrDownRelease, StandbyRelease, Locked,
              StartRelease, StartCoordination
<1>7. CASE WarmBoot(e) \/ OnFinish(e) \/ OnFinishSync(e) \/ SuspendFinish(e) \/ StandbyFinish(e)
  BY <1>7 DEF WarmBoot, OnFinish, OnFinishSync, SuspendFinish, StandbyFinish, Locked,
              StartAcquire, StartRun
<1>8. CASE RunCpu(e) \/ LastOn(e) \/ LastOnCheck(e) \/ CpuOff(e) \/ SystemSuspend(e)
  BY <1>8 DEF RunCpu, LastOn, LastOnCheck, CpuOff, SystemSuspend, StartAcquire, StartRelease
<1>9. CASE \/ \E t \in CPU : CpuOn(e, t)
           \/ \E s \in PowerStates : CpuSuspend(e, s) \/ CpuStandby(e, s)
  BY <1>9 DEF CpuOn, CpuSuspend, CpuStandby, StartAcquire
<1>10. CASE StandbyExit(e) \/ WakeStandby(e)
  BY <1>10 DEF StandbyExit, WakeStandby, StartAcquire
<1> QED
  BY <1>1, <1>2, <1>3, <1>4, <1>5, <1>6, <1>7, <1>8, <1>9, <1>10 DEF Firmware, Call, Wake

(* What psci_is_last_on_cpu has found of the other CPU, when there is one  *)
(* other: nobody else is left to turn it on.                               *)
OthersSeenOff ==
  \A c \in CPU : pc[c] = "last_on" => \A d \in CPU \ {c} : d < target[c] => aff[d] = "OFF"

(* With the two CPUs of the A3700, psci_is_last_on_cpu is right although   *)
(* it takes no lock.  (With three it may be wrong: a CPU that it has seen  *)
(* OFF is turned on by the third.)                                         *)
THEOREM LastOnOfTwo ==
  ASSUME N = 2
  PROVE  Spec => []LastOnIsLast
<1>0. CPU = {0, 1}
  BY DEF CPU
<1>1. Init => OthersSeenOff
  BY DEF Init, OthersSeenOff
<1>2. IInv /\ OthersSeenOff /\ [Next]_vars => OthersSeenOff'
  <2> SUFFICES ASSUME IInv, OthersSeenOff, [Next]_vars,
                      NEW c \in CPU, pc'[c] = "last_on", NEW d \in CPU \ {c}, d < target'[c]
               PROVE  aff'[d] = "OFF"
    BY DEF OthersSeenOff
  <2>1. TypeOK /\ AffInfoOK(d) /\ target[c] \in 0..N
    <3>1. TypeOK /\ AffInfoOK(d)
      BY DEF IInv, CoordInv, OnInv
    <3> QED
      BY <3>1 DEF TypeOK
  <2>2. CASE UNCHANGED vars
    <3>1. UNCHANGED <<pc, aff, target>>
      BY <2>2 DEF vars, shared, locals
    <3> QED
      BY <3>1 DEF OthersSeenOff
  <2>3. ASSUME NEW e \in CPU,
               Firmware(e) \/ OnLock(e) \/ OnFinishSync(e) \/ AcquireLock(e) \/ PowerUp(e)
               \/ Call(e) \/ Wake(e)
        PROVE  aff'[d] = "OFF"
    <3>1. CASE e = c
      <4>1. SystemSuspend(c) \/ LastOnCheck(c)
        BY <2>3, <3>1, StepFrom
      <4>2. CASE SystemSuspend(c)
        <5>1. target'[c] = 0
          BY <2>1, <4>2 DEF SystemSuspend, TypeOK
        <5> QED
          BY <1>0, <5>1
      <4>3. CASE LastOnCheck(c)
        <5>1. aff' = aff /\ pc[c] = "last_on"
          BY <4>3 DEF LastOnCheck, shared
        <5>2. target'[c] = target[c] + 1 /\ (target[c] = c \/ aff[target[c]] = "OFF")
          BY <2>1, <4>3 DEF LastOnCheck, TypeOK, Goto
        <5>3. d = target[c] \/ d < target[c]
          BY <1>0, <2>1, <5>2
        <5> QED
          BY <5>1, <5>2, <5>3 DEF OthersSeenOff
      <4> QED
        BY <4>1, <4>2, <4>3
    <3>2. CASE e = d
      <4>1. pc[c] = "last_on" /\ target'[c] = target[c]
        BY <2>3, <3>2, StepFrom
      <4>2. aff[d] = "OFF"
        BY <4>1 DEF OthersSeenOff
      <4>3. pc[d] \in {"dying", "down"}
        BY <2>1, <4>2 DEF AffInfoOK
      <4> QED
        BY <2>3, <3>2, <4>2, <4>3, StepFrom
    <3> QED
      BY <1>0, <3>1, <3>2
  <2> QED
    BY <2>2, <2>3 DEF Next
<1>3. OthersSeenOff => LastOnIsLast
  BY <1>0 DEF OthersSeenOff, LastOnIsLast
<1> QED
  BY <1>1, <1>2, <1>3, InductiveInvariant, PTL DEF Spec
=============================================================================
