-------------------------------- MODULE Psci --------------------------------
(***************************************************************************)
(* The PSCI library of ARM Trusted Firmware (lib/psci): CPU_ON, CPU_OFF,   *)
(* CPU_SUSPEND and SYSTEM_SUSPEND calls of all the CPUs, interleaved with  *)
(* each other and with the warm boots of the CPUs that wake up.            *)
(*                                                                         *)
(* The power domains form a tree with the CPUs as leaves.  A call that     *)
(* changes the state of domains takes their locks, level by level, then    *)
(* reads and writes the requested and the local state of one level per     *)
(* step, then releases the locks.  A domain lock is the bakery lock, taken *)
(* and released here in one step each (BakeryLock shows what it promises). *)
(*                                                                         *)
(* The platform hooks appear by what PSCI relies on: pwr_domain_on() may   *)
(* fail, or powers the target on; svc_off() of a secure payload dispatcher *)
(* may deny CPU_OFF; a pending interrupt may abandon a suspend.            *)
(***************************************************************************)
EXTENDS Integers

CONSTANTS
  N,             \* PLATFORM_CORE_COUNT
  MaxLvl,        \* PLAT_MAX_PWR_LVL
  Anc,           \* Anc[c][l]: the power domain of level l that CPU c is in
  PowerStates,   \* the states of CPU_SUSPEND that the platform accepts
  Calls          \* the PSCI calls that the normal world makes

CPU == 0..(N-1)
Lvl == 1..MaxLvl        \* the levels above the CPU level

(* PLAT_MAX_RET_STATE and PLAT_MAX_OFF_STATE of the A3700.                 *)
RUN == 0
RET == 1
OFF == 2
LocalState == RUN..OFF

(* psci_power_state_t: a local state for each level, the CPU's included.   *)
PowerState == [0..MaxLvl -> LocalState]

Node == {Anc[c][l] : c \in CPU, l \in Lvl}

NoCpu == -1
NoLvl == -1             \* PSCI_INVALID_PWR_LVL

ASSUME SizeAssumption == N \in Nat \ {0} /\ MaxLvl \in Nat \ {0}

(* The domains form a tree: a domain has one level, and CPUs that share a  *)
(* domain share those above it.                                            *)
ASSUME TreeAssumption ==
  /\ \A c \in CPU : DOMAIN Anc[c] = Lvl
  /\ \A c, d \in CPU : \A l, m \in Lvl : Anc[c][l] = Anc[d][m] => l = m
  /\ \A c, d \in CPU : \A l, m \in Lvl :
       Anc[c][l] = Anc[d][l] /\ l <= m => Anc[c][m] = Anc[d][m]

ASSUME PowerStatesAssumption == PowerStates \subseteq PowerState

VARIABLES
  pc,        \* where each CPU is
  aff,       \* psci_svc_cpu_data.aff_info_state of each CPU
  cpuState,  \* psci_svc_cpu_data.local_state of each CPU
  suspLvl,   \* psci_svc_cpu_data.target_pwrlvl of each CPU
  req,       \* psci_req_local_pwr_states, by CPU and level
  pdState,   \* local_state of each power domain
  owner,     \* who holds the lock of each power domain
  cpuLock,   \* who holds the spin lock of each CPU
  context,   \* what the saved normal world context of each CPU is for
  powerOn,   \* the platform was asked to power the CPU on
  end,       \* end_pwrlvl of each CPU
  lvl,       \* level loop index of each CPU
  info,      \* state_info of each CPU
  target,    \* the CPU that each CPU's call is looking at
  handler,   \* the function that called for the domain locks
  after      \* where each CPU goes when its locks are released

shared == <<aff, cpuState, suspLvl, req, pdState, owner, cpuLock, context, powerOn>>
locals == <<end, lvl, info, target, handler, after>>
vars == <<pc, shared, locals>>

Locations ==
  {"ns", "on_lock", "on_check", "on_pending", "on_power", "on_context", "on_unlock", "last_on",
   "acquire", "coordinate", "set_target", "run", "sync", "release",
   "off", "dying", "down", "wfi", "standby", "boot", "panic"}

Handlers ==
  {"none", "off", "suspend", "pwrdown", "boot", "on_finish", "suspend_finish", "standby_finish"}

Idle == [l \in 0..MaxLvl |-> RUN]

TypeOK ==
  /\ pc \in [CPU -> Locations]
  /\ aff \in [CPU -> {"ON", "OFF", "ON_PENDING"}]
  /\ cpuState \in [CPU -> LocalState]
  /\ suspLvl \in [CPU -> {NoLvl} \cup 0..MaxLvl]
  /\ req \in [CPU -> [Lvl -> LocalState]]
  /\ pdState \in [Node -> LocalState]
  /\ owner \in [Node -> CPU \cup {NoCpu}]
  /\ cpuLock \in [CPU -> CPU \cup {NoCpu}]
  /\ context \in [CPU -> {"none", "on", "resume"}]
  /\ powerOn \in [CPU -> BOOLEAN]
  /\ end \in [CPU -> 0..MaxLvl]
  /\ lvl \in [CPU -> 0..(MaxLvl + 1)]
  /\ info \in [CPU -> PowerState]
  /\ target \in [CPU -> 0..N]
  /\ handler \in [CPU -> Handlers]
  /\ after \in [CPU -> Locations]

(* psci_setup, on CPU 0: everything is OFF, then the domains of the        *)
(* primary CPU are set to RUN.                                             *)
Init ==
  /\ pc = [c \in CPU |-> IF c = 0 THEN "ns" ELSE "down"]
  /\ aff = [c \in CPU |-> IF c = 0 THEN "ON" ELSE "OFF"]
  /\ cpuState = [c \in CPU |-> IF c = 0 THEN RUN ELSE OFF]
  /\ suspLvl = [c \in CPU |-> NoLvl]
  /\ req = [c \in CPU |-> [l \in Lvl |-> IF c = 0 THEN RUN ELSE OFF]]
  /\ pdState = [n \in Node |-> IF \E l \in Lvl : n = Anc[0][l] THEN RUN ELSE OFF]
  /\ owner = [n \in Node |-> NoCpu]
  /\ cpuLock = [c \in CPU |-> NoCpu]
  /\ context = [c \in CPU |-> "none"]
  /\ powerOn = [c \in CPU |-> FALSE]
  /\ end = [c \in CPU |-> 0]
  /\ lvl = [c \in CPU |-> 0]
  /\ info = [c \in CPU |-> Idle]
  /\ target = [c \in CPU |-> 0]
  /\ handler = [c \in CPU |-> "none"]
  /\ after = [c \in CPU |-> "ns"]

Goto(c, l) == pc' = [pc EXCEPT ![c] = l]

-----------------------------------------------------------------------------
(* CPU_ON: psci_cpu_on and psci_cpu_on_start *)

CpuOn(c, t) ==
  /\ pc[c] = "ns" /\ "CPU_ON" \in Calls
  /\ target' = [target EXCEPT ![c] = t]
  /\ Goto(c, "on_lock")
  /\ UNCHANGED <<shared, end, lvl, info, handler, after>>

OnLock(c) ==
  /\ pc[c] = "on_lock"
  /\ cpuLock[target[c]] = NoCpu
  /\ cpuLock' = [cpuLock EXCEPT ![target[c]] = c]
  /\ Goto(c, "on_check")
  /\ UNCHANGED <<aff, cpuState, suspLvl, req, pdState, owner, context, powerOn, locals>>

(* Faulty variant: the target is powered on before it is marked pending.   *)
OnCheckPowersFirst(c) ==
  /\ pc[c] = "on_check"
  /\ IF aff[target[c]] = "OFF"
       THEN powerOn' = [powerOn EXCEPT ![target[c]] = TRUE] /\ Goto(c, "on_pending")
       ELSE UNCHANGED powerOn /\ Goto(c, "on_unlock")
  /\ UNCHANGED <<aff, cpuState, suspLvl, req, pdState, owner, cpuLock, context, locals>>

(* cpu_on_validate_state: only a CPU that is OFF is turned on.             *)
OnCheck(c) ==
  /\ pc[c] = "on_check"
  /\ Goto(c, IF aff[target[c]] = "OFF" THEN "on_pending" ELSE "on_unlock")
  /\ UNCHANGED <<shared, locals>>

OnPending(c) ==
  /\ pc[c] = "on_pending"
  /\ aff' = [aff EXCEPT ![target[c]] = "ON_PENDING"]
  /\ Goto(c, "on_power")
  /\ UNCHANGED <<cpuState, suspLvl, req, pdState, owner, cpuLock, context, powerOn, locals>>

(* pwr_domain_on succeeds: the target may run from now on ...              *)
OnPower(c) ==
  /\ pc[c] = "on_power"
  /\ powerOn' = [powerOn EXCEPT ![target[c]] = TRUE]
  /\ Goto(c, "on_context")
  /\ UNCHANGED <<aff, cpuState, suspLvl, req, pdState, owner, cpuLock, context, locals>>

(* ... or fails with PSCI_E_INTERN_FAIL: restore the state.                *)
OnFail(c) ==
  /\ pc[c] = "on_power"
  /\ aff' = [aff EXCEPT ![target[c]] = "OFF"]
  /\ Goto(c, "on_unlock")
  /\ UNCHANGED <<cpuState, suspLvl, req, pdState, owner, cpuLock, context, powerOn, locals>>

(* Faulty variant: returns with the spin lock held.                        *)
OnContextKeepsLock(c) ==
  /\ pc[c] = "on_context"
  /\ context' = [context EXCEPT ![target[c]] = "on"]
  /\ Goto(c, "ns")
  /\ UNCHANGED <<aff, cpuState, suspLvl, req, pdState, owner, cpuLock, powerOn, locals>>

(* cm_init_context_by_index: where the target enters the normal world.     *)
OnContext(c) ==
  /\ pc[c] = "on_context"
  /\ context' = [context EXCEPT ![target[c]] = "on"]
  /\ Goto(c, "on_unlock")
  /\ UNCHANGED <<aff, cpuState, suspLvl, req, pdState, owner, cpuLock, powerOn, locals>>

OnUnlock(c) ==
  /\ pc[c] = "on_unlock"
  /\ cpuLock' = [cpuLock EXCEPT ![target[c]] = NoCpu]
  /\ target' = [target EXCEPT ![c] = 0]
  /\ Goto(c, "ns")
  /\ UNCHANGED <<aff, cpuState, suspLvl, req, pdState, owner, context, powerOn,
                 end, lvl, info, handler, after>>

-----------------------------------------------------------------------------
(* psci_acquire_pwr_domain_locks and psci_release_pwr_domain_locks *)

(* c calls for the locks up to level e, on behalf of h with state_info s.  *)
StartAcquire(c, e, s, h) ==
  /\ end' = [end EXCEPT ![c] = e]
  /\ lvl' = [lvl EXCEPT ![c] = 1]
  /\ info' = [info EXCEPT ![c] = s]
  /\ handler' = [handler EXCEPT ![c] = h]
  /\ Goto(c, "acquire")

(* Faulty variant: does not wait for the lock.                             *)
AcquireLockNoWait(c) ==
  /\ pc[c] = "acquire" /\ lvl[c] <= end[c]
  /\ owner' = [owner EXCEPT ![Anc[c][lvl[c]]] = c]
  /\ lvl' = [lvl EXCEPT ![c] = @ + 1]
  /\ UNCHANGED <<pc, aff, cpuState, suspLvl, req, pdState, cpuLock, context, powerOn,
                 end, info, target, handler, after>>

AcquireLock(c) ==
  /\ pc[c] = "acquire" /\ lvl[c] <= end[c]
  /\ owner[Anc[c][lvl[c]]] = NoCpu
  /\ owner' = [owner EXCEPT ![Anc[c][lvl[c]]] = c]
  /\ lvl' = [lvl EXCEPT ![c] = @ + 1]
  /\ UNCHANGED <<pc, aff, cpuState, suspLvl, req, pdState, cpuLock, context, powerOn,
                 end, info, target, handler, after>>

(* All the locks are taken.                                                *)
Locked(c) == pc[c] = "acquire" /\ lvl[c] > end[c]

(* Release the locks from level `end' down, then go to `where'.            *)
StartRelease(c, where) ==
  /\ lvl' = [lvl EXCEPT ![c] = end[c]]
  /\ after' = [after EXCEPT ![c] = where]
  /\ Goto(c, "release")

(* Faulty variant: the loop ends before level 1.                           *)
ReleaseLockAboveFirst(c) ==
  /\ pc[c] = "release" /\ lvl[c] > 0
  /\ owner' = [owner EXCEPT ![Anc[c][lvl[c]]] = IF lvl[c] > 1 THEN NoCpu ELSE @]
  /\ lvl' = [lvl EXCEPT ![c] = @ - 1]
  /\ UNCHANGED <<pc, aff, cpuState, suspLvl, req, pdState, cpuLock, context, powerOn,
                 end, info, target, handler, after>>

ReleaseLock(c) ==
  /\ pc[c] = "release" /\ lvl[c] > 0
  /\ owner' = [owner EXCEPT ![Anc[c][lvl[c]]] = NoCpu]
  /\ lvl' = [lvl EXCEPT ![c] = @ - 1]
  /\ UNCHANGED <<pc, aff, cpuState, suspLvl, req, pdState, cpuLock, context, powerOn,
                 end, info, target, handler, after>>

(* The locks are released.  What a CPU keeps across WFI is end_pwrlvl.     *)
Released(c) ==
  /\ pc[c] = "release" /\ lvl[c] = 0
  /\ Goto(c, after[c])
  /\ end' = [end EXCEPT ![c] = IF after[c] = "wfi" THEN @ ELSE 0]
  /\ info' = [info EXCEPT ![c] = Idle]
  /\ handler' = [handler EXCEPT ![c] = "none"]
  /\ after' = [after EXCEPT ![c] = "ns"]
  /\ UNCHANGED <<shared, lvl, target>>

-----------------------------------------------------------------------------
(* psci_do_state_coordination *)

(* plat_get_target_pwr_state: the shallowest of the requested states.      *)
TargetState(S) == CHOOSE s \in S : \A r \in S : s <= r

Domain(n, l) == {d \in CPU : Anc[d][l] = n}

(* One level: store the request, then coordinate with the other CPUs of    *)
(* the domain.  Above a domain that stays in RUN every domain does.        *)
CoordinateLevel(c) ==
  LET l == lvl[c]
      requests == [req EXCEPT ![c][l] = info[c][l]]
      result == IF l > 1 /\ info[c][l-1] = RUN
                  THEN RUN
                  ELSE TargetState({requests[d][l] : d \in Domain(Anc[c][l], l)})
  IN /\ pc[c] = "coordinate" /\ l <= end[c]
     /\ req' = requests
     /\ info' = [info EXCEPT ![c][l] = result]
     /\ lvl' = [lvl EXCEPT ![c] = l + 1]
     /\ UNCHANGED <<pc, aff, cpuState, suspLvl, pdState, owner, cpuLock, context, powerOn,
                    end, target, handler, after>>

(* psci_set_target_local_pwr_states: first the CPU ...                     *)
Coordinated(c) ==
  /\ pc[c] = "coordinate" /\ lvl[c] > end[c]
  /\ cpuState' = [cpuState EXCEPT ![c] = info[c][0]]
  /\ lvl' = [lvl EXCEPT ![c] = 1]
  /\ Goto(c, "set_target")
  /\ UNCHANGED <<aff, suspLvl, req, pdState, owner, cpuLock, context, powerOn,
                 end, info, target, handler, after>>

(* ... then its domains, one level per step.                               *)
SetTargetLevel(c) ==
  /\ pc[c] = "set_target" /\ lvl[c] <= end[c]
  /\ pdState' = [pdState EXCEPT ![Anc[c][lvl[c]]] = info[c][lvl[c]]]
  /\ lvl' = [lvl EXCEPT ![c] = @ + 1]
  /\ UNCHANGED <<pc, aff, cpuState, suspLvl, req, owner, cpuLock, context, powerOn,
                 end, info, target, handler, after>>

StartCoordination(c) ==
  /\ lvl' = [lvl EXCEPT ![c] = 1]
  /\ Goto(c, "coordinate")

-----------------------------------------------------------------------------
(* CPU_OFF: psci_cpu_off and psci_do_cpu_off *)

CpuOff(c) ==
  /\ pc[c] = "ns" /\ "CPU_OFF" \in Calls
  /\ StartAcquire(c, MaxLvl, [l \in 0..MaxLvl |-> OFF], "off")
  /\ UNCHANGED <<shared, target, after>>

(* The secure payload dispatcher denies the request.                       *)
OffDenied(c) ==
  /\ Locked(c) /\ handler[c] = "off"
  /\ StartRelease(c, "ns")
  /\ UNCHANGED <<shared, end, info, target, handler>>

OffCoordinate(c) ==
  /\ Locked(c) /\ handler[c] = "off"
  /\ StartCoordination(c)
  /\ UNCHANGED <<shared, end, info, target, handler, after>>

(* Faulty variant: the affinity info state is set with the locks held.     *)
OffReleaseEarlyOff(c) ==
  /\ pc[c] = "set_target" /\ lvl[c] > end[c] /\ handler[c] = "off"
  /\ aff' = [aff EXCEPT ![c] = "OFF"]
  /\ StartRelease(c, "off")
  /\ UNCHANGED <<cpuState, suspLvl, req, pdState, owner, cpuLock, context, powerOn,
                 end, info, target, handler>>

(* The power down sequence and pwr_domain_off are done.                    *)
OffRelease(c) ==
  /\ pc[c] = "set_target" /\ lvl[c] > end[c] /\ handler[c] = "off"
  /\ StartRelease(c, "off")
  /\ UNCHANGED <<shared, end, info, target, handler>>

(* The affinity info state is set after the locks are released ...         *)
OffSetAffinity(c) ==
  /\ pc[c] = "off"
  /\ aff' = [aff EXCEPT ![c] = "OFF"]
  /\ Goto(c, "dying")
  /\ UNCHANGED <<cpuState, suspLvl, req, pdState, owner, cpuLock, context, powerOn, locals>>

(* ... and then the CPU gets to its last WFI.                              *)
PowerDownWfi(c) ==
  /\ pc[c] = "dying"
  /\ Goto(c, "down")
  /\ UNCHANGED <<shared, locals>>

-----------------------------------------------------------------------------
(* CPU_SUSPEND: psci_cpu_suspend and psci_cpu_suspend_start *)

(* find_local_state_type *)
StateType(s) == IF s = RUN THEN 0 ELSE IF s > RET THEN 2 ELSE 1

HighestLvl(S) == IF S = {} THEN NoLvl ELSE CHOOSE l \in S : \A m \in S : m <= l

MaxOffLvl(s) == HighestLvl({l \in 0..MaxLvl : s[l] > RET})

TargetSuspendLvl(s) == HighestLvl({l \in 0..MaxLvl : s[l] # RUN})

(* psci_validate_suspend_req *)
ValidSuspendReq(s, pwrdown) ==
  LET tl == TargetSuspendLvl(s)
  IN /\ tl # NoLvl
     /\ \A l \in 0..(tl - 1) : StateType(s[l]) >= StateType(s[l+1])
     /\ pwrdown \/ MaxOffLvl(s) = NoLvl

(* The platform's power state is for power down exactly when it turns the  *)
(* CPU off; a CPU standby request takes no lock.                           *)
CpuSuspend(c, s) ==
  LET pwrdown == s[0] = OFF
  IN /\ pc[c] = "ns" /\ "CPU_SUSPEND" \in Calls
     /\ ValidSuspendReq(s, pwrdown)
     /\ pwrdown \/ TargetSuspendLvl(s) > 0
     /\ StartAcquire(c, TargetSuspendLvl(s), s, IF pwrdown THEN "pwrdown" ELSE "suspend")
     /\ UNCHANGED <<shared, target, after>>

CpuStandby(c, s) ==
  /\ pc[c] = "ns" /\ "CPU_SUSPEND" \in Calls
  /\ ValidSuspendReq(s, FALSE)
  /\ s[0] # OFF /\ TargetSuspendLvl(s) = 0
  /\ cpuState' = [cpuState EXCEPT ![c] = s[0]]
  /\ Goto(c, "standby")
  /\ UNCHANGED <<aff, suspLvl, req, pdState, owner, cpuLock, context, powerOn, locals>>

StandbyExit(c) ==
  /\ pc[c] = "standby"
  /\ cpuState' = [cpuState EXCEPT ![c] = RUN]
  /\ Goto(c, "ns")
  /\ UNCHANGED <<aff, suspLvl, req, pdState, owner, cpuLock, context, powerOn, locals>>

(* An interrupt is pending: return to the caller.                          *)
SuspendAbandon(c) ==
  /\ Locked(c) /\ handler[c] \in {"suspend", "pwrdown"}
  /\ StartRelease(c, "ns")
  /\ UNCHANGED <<shared, end, info, target, handler>>

SuspendCoordinate(c) ==
  /\ Locked(c) /\ handler[c] \in {"suspend", "pwrdown"}
  /\ StartCoordination(c)
  /\ UNCHANGED <<shared, end, info, target, handler, after>>

(* psci_suspend_to_pwrdown_start, then pwr_domain_suspend.                 *)
PwrDownRelease(c) ==
  /\ pc[c] = "set_target" /\ lvl[c] > end[c] /\ handler[c] = "pwrdown"
  /\ suspLvl' = [suspLvl EXCEPT ![c] = end[c]]
  /\ context' = [context EXCEPT ![c] = "resume"]
  /\ StartRelease(c, "down")
  /\ UNCHANGED <<aff, cpuState, req, pdState, owner, cpuLock, powerOn, end, info, target, handler>>

StandbyRelease(c) ==
  /\ pc[c] = "set_target" /\ lvl[c] > end[c] /\ handler[c] = "suspend"
  /\ StartRelease(c, "wfi")
  /\ UNCHANGED <<shared, end, info, target, handler>>

(* Wake up from retention: psci_suspend_to_standby_finisher.               *)
WakeStandby(c) ==
  /\ pc[c] = "wfi"
  /\ StartAcquire(c, end[c], Idle, "standby_finish")
  /\ UNCHANGED <<shared, target, after>>

-----------------------------------------------------------------------------
(* SYSTEM_SUSPEND: psci_system_suspend and psci_is_last_on_cpu *)

SystemSuspend(c) ==
  /\ pc[c] = "ns" /\ "SYSTEM_SUSPEND" \in Calls
  /\ target' = [target EXCEPT ![c] = 0]
  /\ Goto(c, "last_on")
  /\ UNCHANGED <<shared, end, lvl, info, handler, after>>

(* Faulty variant: a CPU that is being turned on counts as off.            *)
LastOnCheckOn(c) ==
  /\ pc[c] = "last_on" /\ target[c] < N
  /\ IF target[c] = c \/ aff[target[c]] # "ON"
       THEN target' = [target EXCEPT ![c] = @ + 1] /\ UNCHANGED pc
       ELSE target' = [target EXCEPT ![c] = 0] /\ Goto(c, "ns")
  /\ UNCHANGED <<shared, end, lvl, info, handler, after>>

(* The affinity info state of one CPU after the other, without a lock.     *)
LastOnCheck(c) ==
  /\ pc[c] = "last_on" /\ target[c] < N
  /\ IF target[c] = c \/ aff[target[c]] = "OFF"
       THEN target' = [target EXCEPT ![c] = @ + 1] /\ UNCHANGED pc
       ELSE target' = [target EXCEPT ![c] = 0] /\ Goto(c, "ns")
  /\ UNCHANGED <<shared, end, lvl, info, handler, after>>

(* Every other CPU was seen OFF: suspend with every level OFF.             *)
LastOn(c) ==
  /\ pc[c] = "last_on" /\ target[c] = N
  /\ StartAcquire(c, MaxLvl, [l \in 0..MaxLvl |-> OFF], "pwrdown")
  /\ target' = [target EXCEPT ![c] = 0]
  /\ UNCHANGED <<shared, after>>

-----------------------------------------------------------------------------
(* Power up: psci_warmboot_entrypoint *)

(* The power controller starts a CPU that was asked for by CPU_ON, even    *)
(* one that is still on its way to the last WFI ...                        *)
PowerUp(c) ==
  /\ powerOn[c] /\ pc[c] \in {"dying", "down"}
  /\ powerOn' = [powerOn EXCEPT ![c] = FALSE]
  /\ Goto(c, "boot")
  /\ UNCHANGED <<aff, cpuState, suspLvl, req, pdState, owner, cpuLock, context, locals>>

(* ... and a CPU that is suspended, when a wake-up event arrives.          *)
WakeUp(c) ==
  /\ pc[c] = "down" /\ suspLvl[c] # NoLvl
  /\ Goto(c, "boot")
  /\ UNCHANGED <<shared, locals>>

WarmBoot(c) ==
  /\ pc[c] = "boot"
  /\ IF aff[c] = "OFF"
       THEN Goto(c, "panic") /\ UNCHANGED <<end, lvl, info, handler>>
       ELSE StartAcquire(c, IF suspLvl[c] = NoLvl THEN MaxLvl ELSE suspLvl[c], Idle, "boot")
  /\ UNCHANGED <<shared, target, after>>

StartRun(c, h) ==
  /\ lvl' = [lvl EXCEPT ![c] = 1]
  /\ handler' = [handler EXCEPT ![c] = h]
  /\ Goto(c, "run")

(* psci_cpu_on_finish, up to the spin lock.                                *)
OnFinish(c) ==
  /\ Locked(c) /\ handler[c] = "boot"
  /\ aff[c] = "ON_PENDING"
  /\ Goto(c, "sync")
  /\ UNCHANGED <<shared, locals>>

(* Faulty variant: does not wait for the CPU_ON call to be over.           *)
OnFinishNoSync(c) ==
  /\ pc[c] = "sync"
  /\ StartRun(c, "on_finish")
  /\ UNCHANGED <<shared, end, info, target, after>>

(* Take and release the spin lock: the CPU_ON call that woke us is over.   *)
OnFinishSync(c) ==
  /\ pc[c] = "sync"
  /\ cpuLock[c] = NoCpu
  /\ StartRun(c, "on_finish")
  /\ UNCHANGED <<shared, end, info, target, after>>

(* psci_cpu_suspend_finish *)
SuspendFinish(c) ==
  /\ Locked(c) /\ handler[c] = "boot"
  /\ aff[c] # "ON_PENDING"
  /\ suspLvl' = [suspLvl EXCEPT ![c] = NoLvl]
  /\ StartRun(c, "suspend_finish")
  /\ UNCHANGED <<aff, cpuState, req, pdState, owner, cpuLock, context, powerOn,
                 end, info, target, after>>

(* psci_suspend_to_standby_finisher, with the locks.                       *)
StandbyFinish(c) ==
  /\ Locked(c) /\ handler[c] = "standby_finish"
  /\ StartRun(c, "standby_finish")
  /\ UNCHANGED <<shared, end, info, target, after>>

(* Faulty variant: the request of the CPU is not reset.                    *)
RunLevelKeepsRequest(c) ==
  /\ pc[c] = "run" /\ lvl[c] <= end[c]
  /\ pdState' = [pdState EXCEPT ![Anc[c][lvl[c]]] = RUN]
  /\ lvl' = [lvl EXCEPT ![c] = @ + 1]
  /\ UNCHANGED <<pc, aff, cpuState, suspLvl, req, owner, cpuLock, context, powerOn,
                 end, info, target, handler, after>>

(* psci_set_pwr_domains_to_run: first the domains, one level per step ...  *)
RunLevel(c) ==
  /\ pc[c] = "run" /\ lvl[c] <= end[c]
  /\ pdState' = [pdState EXCEPT ![Anc[c][lvl[c]]] = RUN]
  /\ req' = [req EXCEPT ![c][lvl[c]] = RUN]
  /\ lvl' = [lvl EXCEPT ![c] = @ + 1]
  /\ UNCHANGED <<pc, aff, cpuState, suspLvl, owner, cpuLock, context, powerOn,
                 end, info, target, handler, after>>

(* ... then the CPU.  It returns to the normal world with its context.     *)
RunCpu(c) ==
  /\ pc[c] = "run" /\ lvl[c] > end[c]
  /\ aff' = [aff EXCEPT ![c] = "ON"]
  /\ cpuState' = [cpuState EXCEPT ![c] = RUN]
  /\ context' = [context EXCEPT ![c] = "none"]
  /\ StartRelease(c, "ns")
  /\ UNCHANGED <<suspLvl, req, pdState, owner, cpuLock, powerOn, end, info, target, handler>>

-----------------------------------------------------------------------------

(* What c does in the firmware once it is there.                           *)
Firmware(c) ==
  \/ OnCheck(c) \/ OnPending(c) \/ OnPower(c) \/ OnFail(c) \/ OnContext(c) \/ OnUnlock(c)
  \/ ReleaseLock(c) \/ Released(c)
  \/ CoordinateLevel(c) \/ Coordinated(c) \/ SetTargetLevel(c)
  \/ OffDenied(c) \/ OffCoordinate(c) \/ OffRelease(c) \/ OffSetAffinity(c) \/ PowerDownWfi(c)
  \/ SuspendAbandon(c) \/ SuspendCoordinate(c) \/ PwrDownRelease(c) \/ StandbyRelease(c)
  \/ LastOnCheck(c) \/ LastOn(c)
  \/ WarmBoot(c) \/ OnFinish(c) \/ SuspendFinish(c) \/ StandbyFinish(c)
  \/ RunLevel(c) \/ RunCpu(c)

(* The normal world of c makes a call.                                     *)
Call(c) ==
  \/ \E t \in CPU : CpuOn(c, t)
  \/ CpuOff(c)
  \/ \E s \in PowerStates : CpuSuspend(c, s) \/ CpuStandby(c, s)
  \/ SystemSuspend(c)

(* An interrupt or another wake-up event.                                  *)
Wake(c) == StandbyExit(c) \/ WakeStandby(c) \/ WakeUp(c)

Next ==
  \E c \in CPU :
    Firmware(c) \/ OnLock(c) \/ OnFinishSync(c) \/ AcquireLock(c) \/ PowerUp(c)
    \/ Call(c) \/ Wake(c)

Spec == Init /\ [][Next]_vars

(* The firmware runs on, and the power controller starts what it is asked  *)
(* to.  The domain locks are first come first served (BakeryLock), so a    *)
(* CPU that wants one gets it; the spin locks promise only that one of the *)
(* waiting CPUs gets in.  Nothing obliges the normal world to call, or an  *)
(* event to wake a CPU up.                                                 *)
Fairness ==
  \A c \in CPU :
    /\ WF_vars(Firmware(c)) /\ WF_vars(OnLock(c)) /\ WF_vars(OnFinishSync(c))
    /\ SF_vars(AcquireLock(c))
    /\ WF_vars(PowerUp(c))

FairSpec == Spec /\ Fairness

-----------------------------------------------------------------------------
(* The inductive invariant *)

(* c holds the lock of its domain of level l.                              *)
Holds(c, l) ==
  \/ pc[c] = "acquire" /\ l < lvl[c]
  \/ pc[c] \in {"coordinate", "set_target", "sync", "run"} /\ l <= end[c]
  \/ pc[c] = "release" /\ l <= lvl[c]

LocksOK == \A c \in CPU : \A l \in Lvl : owner[Anc[c][l]] = c <=> Holds(c, l)

(* The loops stay within the levels of the call, the locks are taken on    *)
(* behalf of a known handler, and the suspend level is set exactly from    *)
(* the power down to the wake-up.                                          *)
ControlOK(c) ==
  /\ pc[c] \in {"acquire", "coordinate", "set_target", "run"} => lvl[c] \in 1..(end[c] + 1)
  /\ pc[c] = "release" => lvl[c] <= end[c] /\ after[c] \in {"ns", "off", "down", "wfi"}
  /\ pc[c] = "acquire" => handler[c] \in {"off", "suspend", "pwrdown", "boot", "standby_finish"}
  /\ pc[c] = "release" /\ after[c] = "down" => suspLvl[c] = end[c]
  /\ suspLvl[c] # NoLvl =>
       \/ pc[c] = "release" /\ after[c] = "down"
       \/ pc[c] \in {"down", "boot", "panic"}
       \/ pc[c] = "acquire" /\ handler[c] = "boot" /\ suspLvl[c] = end[c]

(* The normal world, and the calls that change the state of no domain.     *)
NormalWorld ==
  {"ns", "on_lock", "on_check", "on_pending", "on_power", "on_context", "on_unlock",
   "last_on", "standby"}

(* c is in the normal world or in a call that has requested nothing yet.   *)
Running(c) ==
  \/ pc[c] \in NormalWorld
  \/ pc[c] = "acquire" /\ handler[c] \in {"off", "suspend", "pwrdown"}
  \/ pc[c] = "release" /\ after[c] = "ns"

(* The levels at which c has certainly requested nothing but RUN.          *)
RunLevels(c) ==
  {l \in Lvl :
    \/ Running(c)
    \/ pc[c] = "coordinate" /\ l >= lvl[c]
    \/ pc[c] = "run" /\ l < lvl[c]
    \/ pc[c] \in {"acquire", "coordinate", "set_target", "sync", "run", "release", "wfi"} /\ l > end[c]
    \/ suspLvl[c] # NoLvl /\ l > suspLvl[c]}

RequestsOK == \A c \in CPU : \A l \in RunLevels(c) : req[c][l] = RUN

(* The levels whose state c has computed and is about to store: it is no   *)
(* deeper than any request.                                                *)
Computed(c) ==
  {l \in Lvl :
    \/ pc[c] = "coordinate" /\ l < lvl[c]
    \/ pc[c] = "set_target" /\ l <= end[c]}

ResultsOK ==
  \A c \in CPU : \A l \in Computed(c) : \A d \in CPU :
    Anc[d][l] = Anc[c][l] => info[c][l] <= req[d][l]

(* A domain is never in a deeper state than one of its CPUs allows.        *)
NoDeeperThanRequested ==
  \A c \in CPU : \A l \in Lvl : pdState[Anc[c][l]] <= req[c][l]

(* A domain's state never gets deeper than what each of its CPUs has       *)
(* requested, because whoever coordinates it holds its lock.               *)
CoordInv ==
  /\ TypeOK
  /\ LocksOK
  /\ \A c \in CPU : ControlOK(c)
  /\ RequestsOK
  /\ ResultsOK
  /\ NoDeeperThanRequested

(* c is in psci_cpu_on_start, and holds the spin lock of its target.       *)
TurningOn(c) == pc[c] \in {"on_check", "on_pending", "on_power", "on_context", "on_unlock"}

SpinLocksOK ==
  \A c \in CPU :
    /\ (pc[c] = "on_lock" \/ TurningOn(c)) => target[c] \in CPU
    /\ \A t \in CPU : cpuLock[t] = c <=> (TurningOn(c) /\ target[c] = t)

(* The target is where the CPU_ON call believes it to be.                  *)
TargetOK(c) ==
  /\ pc[c] = "on_pending" => aff[target[c]] = "OFF"
  /\ pc[c] = "on_power" =>
       /\ aff[target[c]] = "ON_PENDING" /\ ~powerOn[target[c]]
       /\ pc[target[c]] \in {"dying", "down"}
  /\ pc[c] = "on_context" => aff[target[c]] = "ON_PENDING" /\ pc[target[c]] # "run"

(* c boots after a CPU_ON or a suspend, before psci_set_pwr_domains_to_run. *)
Booting(c) == pc[c] = "boot" \/ (pc[c] = "acquire" /\ handler[c] = "boot")

(* The affinity info state, the suspend level and the power controller     *)
(* agree on how c was powered down and will boot.                          *)
AffInfoOK(c) ==
  /\ pc[c] # "panic"
  /\ aff[c] = "OFF" => pc[c] \in {"dying", "down"} /\ suspLvl[c] = NoLvl /\ ~powerOn[c]
  /\ aff[c] = "ON_PENDING" =>
       /\ suspLvl[c] = NoLvl
       /\ \/ pc[c] \in {"dying", "down"}
          \/ ~powerOn[c] /\ (Booting(c) \/ pc[c] = "sync")
          \/ ~powerOn[c] /\ pc[c] = "run" /\ handler[c] = "on_finish"
  /\ aff[c] = "ON" =>
       /\ ~powerOn[c] /\ pc[c] \notin {"dying", "sync"}
       /\ pc[c] = "run" => handler[c] # "on_finish"
       /\ (pc[c] = "down" \/ Booting(c)) => suspLvl[c] # NoLvl

(* A suspended CPU has its state and its context saved.                    *)
SuspendedOK(c) ==
  /\ pc[c] \in {"acquire", "coordinate", "set_target"} /\ handler[c] = "pwrdown" => info[c][0] = OFF
  /\ pc[c] = "set_target" => cpuState[c] = info[c][0]
  /\ suspLvl[c] # NoLvl => cpuState[c] = OFF /\ context[c] = "resume"

(* Once the CPU_ON call is over the context of its target is there.        *)
ContextOK(c) ==
  /\ /\ aff[c] = "ON_PENDING"
     /\ cpuLock[c] \in CPU => pc[cpuLock[c]] \in {"on_check", "on_unlock"}
     => context[c] = "on"
  /\ pc[c] = "run" /\ handler[c] = "on_finish" => context[c] = "on"
  /\ pc[c] = "run" /\ handler[c] = "suspend_finish" => context[c] = "resume"
  /\ pc[c] = "run" => handler[c] \in {"on_finish", "suspend_finish", "standby_finish"}

(* CPU_ON and the boot of its target agree, because the affinity info      *)
(* state changes hands: the caller writes it while it is OFF, the target   *)
(* once it is ON_PENDING, and the spin lock keeps other callers away.      *)
OnInv ==
  /\ SpinLocksOK
  /\ \A c \in CPU : TargetOK(c) /\ AffInfoOK(c) /\ SuspendedOK(c) /\ ContextOK(c)

(* The inductive invariant of the library: its domains are never deeper    *)
(* than requested, and each CPU boots the way it was powered down.         *)
IInv == CoordInv /\ OnInv

(* Whoever holds the lock of a domain is in it.                            *)
OwnersOK == \A n \in Node : owner[n] # NoCpu => \E l \in Lvl : n = Anc[owner[n]][l]

(* The levels at which CPU_OFF has withdrawn the requests of c for good.   *)
OffLevels(c) ==
  {l \in Lvl :
    \/ pc[c] = "coordinate" /\ handler[c] = "off" /\ l < lvl[c]
    \/ pc[c] = "set_target" /\ handler[c] = "off"
    \/ pc[c] = "release" /\ after[c] = "off"
    \/ pc[c] \in {"off", "dying"}
    \/ pc[c] = "down" /\ suspLvl[c] = NoLvl}

(* c is in a call that has yet to request info[c][l].                      *)
Asks(c, l) ==
  \/ pc[c] = "acquire" /\ handler[c] \in {"off", "suspend", "pwrdown"}
  \/ pc[c] = "coordinate" /\ lvl[c] <= l

(* CPU_OFF asks for every level and gets what it asks for.                 *)
WithdrawnOK(c) ==
  /\ handler[c] = "off" /\ pc[c] \in {"acquire", "coordinate", "set_target"} => end[c] = MaxLvl
  /\ \A l \in Lvl : handler[c] = "off" /\ Asks(c, l) => info[c][l] = OFF
  /\ \A l \in OffLevels(c) : req[c][l] = OFF

(* What c asks for, and what it has requested, is no shallower at a level  *)
(* than at the next, but for the level that its wake-up has got to.        *)
NestedOK(c) ==
  \A l \in Lvl :
    l + 1 \in Lvl =>
      /\ ~ (pc[c] = "run" /\ lvl[c] = l + 1) => StateType(req[c][l]) >= StateType(req[c][l+1])
      /\ l + 1 <= end[c] /\ Asks(c, l) => StateType(info[c][l]) >= StateType(info[c][l+1])
      /\ pc[c] = "coordinate" /\ lvl[c] = l + 1 /\ l + 1 <= end[c] =>
           StateType(req[c][l]) >= StateType(info[c][l+1])

(* The levels for which c has stored a request and not the outcome.        *)
Unsettled(c) ==
  {l \in Lvl :
    \/ pc[c] = "coordinate" /\ l < lvl[c]
    \/ pc[c] = "set_target" /\ lvl[c] <= l /\ l <= end[c]}

(* Some CPU of the domain has asked for the state computed for it ...      *)
ResultsRequested ==
  \A c \in CPU : \A l \in Computed(c) :
    \E d \in CPU : Anc[d][l] = Anc[c][l] /\ info[c][l] = req[d][l]

(* ... and for the state it is in.                                         *)
StatesRequested ==
  \A c \in CPU : \A l \in Lvl :
    (\A d \in CPU : Anc[d][l] = Anc[c][l] => l \notin Unsettled(d)) =>
      \E d \in CPU : Anc[d][l] = Anc[c][l] /\ pdState[Anc[c][l]] = req[d][l]

(* The domains are as deep as their CPUs allow: besides being no deeper    *)
(* than each request, every settled state is one of the requests.          *)
SettledInv ==
  /\ OwnersOK
  /\ \A c \in CPU : WithdrawnOK(c) /\ NestedOK(c)
  /\ ResultsRequested
  /\ StatesRequested

-----------------------------------------------------------------------------
(* Correctness *)

(* The power domains of a CPU that runs are on: no CPU_OFF or CPU_SUSPEND  *)
(* of a sibling takes them down, in whatever order the calls interleave.   *)
RunningDomainsOn ==
  \A c \in CPU : Running(c) => \A l \in Lvl : pdState[Anc[c][l]] = RUN

(* The outcome of psci_do_state_coordination, whoever did it last: when    *)
(* nobody is at work on a domain it is exactly in the shallowest state     *)
(* that its CPUs requested, so it goes down as soon as it may, and it is   *)
(* not in a shallower kind of state than its parent, as                    *)
(* psci_validate_suspend_req asks of each request.                         *)
DomainsCoordinated ==
  \A c \in CPU : \A l \in Lvl :
    owner[Anc[c][l]] = NoCpu =>
      /\ pdState[Anc[c][l]] = TargetState({req[d][l] : d \in Domain(Anc[c][l], l)})
      /\ l + 1 \in Lvl /\ owner[Anc[c][l+1]] = NoCpu =>
           StateType(pdState[Anc[c][l]]) >= StateType(pdState[Anc[c][l+1]])

(* psci_warmboot_entrypoint does not panic, and the assertions of          *)
(* psci_cpu_on_finish and psci_cpu_suspend_finish hold: a CPU that starts  *)
(* was turned on, or was suspended to power down.                          *)
BootStateOK ==
  \A c \in CPU :
    /\ pc[c] # "panic"
    /\ Locked(c) /\ handler[c] = "boot" /\ aff[c] # "ON_PENDING" =>
         aff[c] = "ON" /\ cpuState[c] = OFF
    /\ pc[c] = "run" /\ handler[c] = "on_finish" => aff[c] = "ON_PENDING"

(* A CPU that boots enters the normal world with the context stored for    *)
(* this boot: psci_cpu_on_finish waits for cm_init_context_by_index, which *)
(* psci_cpu_on_start calls only after the CPU is already powered on.       *)
ContextReady ==
  \A c \in CPU :
    pc[c] = "run" /\ handler[c] # "standby_finish" =>
      context[c] = IF handler[c] = "on_finish" THEN "on" ELSE "resume"

(* When AFFINITY_INFO reports a CPU as OFF it has released its locks and   *)
(* withdrawn its requests, so it can be powered on at any moment.          *)
OffIsQuiet ==
  \A c \in CPU :
    aff[c] = "OFF" =>
      /\ pc[c] \in {"dying", "down"}
      /\ \A l \in Lvl : req[c][l] = OFF
      /\ \A n \in Node : owner[n] # c

(* psci_is_last_on_cpu "verifies that the all the other cores in the       *)
(* system have been turned OFF": so it is when SYSTEM_SUSPEND goes ahead,  *)
(* on a platform with two CPUs such as the A3700.  With three it is not: a *)
(* CPU that has been passed as OFF is turned on by the third one, which    *)
(* turns itself off before it is looked at, and no lock is held.           *)
LastOnIsLast ==
  \A c \in CPU :
    pc[c] = "last_on" /\ target[c] = N => \A d \in CPU \ {c} : aff[d] = "OFF"

(* Only finitely many CPU_ON calls are made: a spin lock may be taken by   *)
(* others again and again.                                                 *)
CallsStop == <>[][\A c, t \in CPU : ~CpuOn(c, t)]_vars

(* A CPU in the firmware gets back to the normal world or to sleep: the    *)
(* domain locks, taken bottom up, and the spin lock that psci_cpu_on_finish *)
(* takes with domain locks held, never make CPUs wait for each other.      *)
EventuallyReturns ==
  CallsStop =>
    \A c \in CPU :
      pc[c] \notin {"ns", "standby", "wfi", "down"} ~> pc[c] \in {"ns", "standby", "wfi", "down"}

(* A CPU that was powered on by CPU_ON gets to the normal world.           *)
OnEventuallyRuns == CallsStop => \A c \in CPU : powerOn[c] ~> pc[c] = "ns"
=============================================================================
