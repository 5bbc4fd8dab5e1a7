-------------------------------- MODULE Ehf ---------------------------------
(***************************************************************************)
(* The exception handling framework at EL3 of ARM Trusted Firmware         *)
(* (bl31/ehf.c) on one CPU, with its callers: the context management,      *)
(* which announces that the CPU leaves or enters the normal world, TSPD,   *)
(* which lets the normal world preempt a yielding call, and the SDEI       *)
(* dispatcher, which delegates interrupts and other exceptions to a        *)
(* handler in the normal world.                                            *)
(*                                                                         *)
(* A smaller number is a higher priority, as in the interrupt controller.  *)
(***************************************************************************)
EXTENDS Naturals, Sequences, FiniteSets

CONSTANTS
  L,            \* number of secure priorities, 1 .. L
  NsMasks,      \* priority masks that the normal world sets
  Idle,         \* the running priority when no interrupt is active
  MaxDepth,     \* bound on exceptions and calls that are under way
  MaxSync       \* bound on priorities that are activated at a time

Secure == 1 .. L
HighestNs == L + 1

ASSUME PriorityAssumption == L \in Nat \ {0} /\ Idle \in Nat
ASSUME MaskAssumption == NsMasks \subseteq HighestNs .. Idle - 1 /\ NsMasks # {}
ASSUME BoundAssumption == MaxDepth \in Nat /\ MaxSync \in Nat

VARIABLES
  active,       \* active_pri_bits, as a set
  initMask,     \* init_pri_mask
  nsMask,       \* ns_pri_mask, 0 if none is stashed
  pmr,          \* the priority mask of the interrupt controller
  work,         \* what is under way: calls of the secure world, and dispatches
  own,          \* the mask that the normal world has set
  panic         \* the code has called panic(), or an assertion has failed

ehf == <<active, initMask, nsMask, pmr>>
ehfVars == <<ehf, work, own, panic>>

Top == work[Len(work)]
InSecure == work # << >> /\ Top.kind = "smc"
Pop == work' = SubSeq(work, 1, Len(work) - 1)

Dispatches(kind) == {work[n].pri : n \in {k \in DOMAIN work : work[k].kind = kind}}
Least(S) == CHOOSE x \in S : \A y \in S : x <= y

EhfTypeOK ==
  /\ active \subseteq Secure
  /\ initMask \in 0 .. Idle /\ nsMask \in {0} \cup HighestNs .. Idle /\ pmr \in 1 .. Idle
  /\ Len(work) <= MaxDepth
  /\ own \in NsMasks /\ panic \in BOOLEAN

-----------------------------------------------------------------------------
(* ehf.c.  Each operator gives the new data of the framework.              *)

RunningPriority == Least(Dispatches("intr") \cup {Idle})

(* An interrupt of the normal world would be signalled to the CPU.         *)
NsSignalled == \E p \in HighestNs .. Idle - 1 : p < pmr /\ p < RunningPriority

Mask(m) == pmr' = m
Keep == UNCHANGED ehf /\ panic' = panic

(* ehf_activate_priority.                                                  *)
ActivatePriority(p) ==
  /\ active' = active \cup {p}
  /\ Mask(p)
  /\ initMask' = IF active = {} THEN pmr ELSE initMask
  /\ nsMask' = nsMask
  /\ panic' = \/ panic
              \/ p >= RunningPriority
              \/ active # {} /\ p >= Least(active)
              \/ p >= pmr

(* Faulty variant: the mask of the activated priority stays.               *)
DeactivatePriorityKeepsMask(p) ==
  /\ active' = active \ {p}
  /\ panic' = (panic \/ p >= RunningPriority \/ active = {} \/ p # Least(active) \/ pmr > p)
  /\ UNCHANGED <<initMask, nsMask, pmr>>

(* ehf_deactivate_priority.                                                *)
DeactivatePriority(p) ==
  LET rest == active \ {p} IN
  /\ active' = rest
  /\ Mask(IF rest = {} THEN initMask ELSE p)
  /\ panic' = \/ panic
              \/ p >= RunningPriority
              \/ active = {} \/ p # Least(active)
              \/ pmr > p
  /\ UNCHANGED <<initMask, nsMask>>

(* Faulty variant: stashes the mask even when an interrupt is handled.     *)
ExitedNormalWorldAlways ==
  /\ nsMask' = pmr /\ Mask(HighestNs)
  /\ panic' = (panic \/ nsMask # 0 \/ pmr \in Secure)
  /\ UNCHANGED <<active, initMask>>

(* ehf_exited_normal_world.                                                *)
ExitedNormalWorld ==
  IF RunningPriority \in Secure \/ active # {} THEN Keep
  ELSE /\ nsMask' = pmr /\ Mask(HighestNs)
       /\ panic' = (panic \/ nsMask # 0 \/ pmr \in Secure)
       /\ UNCHANGED <<active, initMask>>

(* Faulty variant: restores the mask while an interrupt is handled.        *)
EnteringNormalWorldAlways ==
  IF nsMask = 0 THEN Keep
  ELSE /\ Mask(nsMask) /\ nsMask' = 0
       /\ panic' = (panic \/ pmr \notin {HighestNs, nsMask})
       /\ UNCHANGED <<active, initMask>>

(* ehf_entering_normal_world.                                              *)
EnteringNormalWorld ==
  IF RunningPriority \in Secure \/ active # {} \/ nsMask = 0 THEN Keep
  ELSE /\ Mask(nsMask) /\ nsMask' = 0
       /\ panic' = (panic \/ pmr \notin {HighestNs, nsMask})
       /\ UNCHANGED <<active, initMask>>

(* ehf_is_ns_preemption_allowed.                                           *)
NsPreemptionAllowed == RunningPriority \notin Secure /\ active = {} /\ nsMask = 0

-----------------------------------------------------------------------------
(* The callers *)

Enter(frame) == Len(work) < MaxDepth /\ work' = Append(work, frame)

(* The normal world calls the secure world and runs to completion.         *)
FastSmc ==
  /\ ~ InSecure
  /\ Enter([kind |-> "smc", pri |-> 0, yields |-> FALSE])
  /\ ExitedNormalWorld
  /\ UNCHANGED own

(* A yielding call (tspd_smc_handler): after ehf_exited_normal_world comes *)
(* ehf_allow_ns_preemption, which asserts that a mask is stashed.  Clients *)
(* do not make one from the handler of an event.                           *)
YieldingSmc ==
  /\ work = << >>
  /\ Enter([kind |-> "smc", pri |-> 0, yields |-> TRUE])
  /\ nsMask' = 0 /\ Mask(pmr)
  /\ panic' = (panic \/ nsMask # 0 \/ pmr \in Secure \/ active # {})
  /\ UNCHANGED <<active, initMask, own>>

(* The secure world returns, ...                                           *)
SmcReturn ==
  /\ InSecure
  /\ Pop
  /\ EnteringNormalWorld
  /\ UNCHANGED own

(* ... or is preempted by an interrupt of the normal world.                *)
Preempt ==
  /\ InSecure /\ Top.yields
  /\ NsSignalled
  /\ Pop
  /\ EnteringNormalWorld
  /\ UNCHANGED own

(* The normal world sets its mask.                                         *)
SetMask(m) ==
  /\ work = << >>
  /\ Mask(m) /\ own' = m
  /\ UNCHANGED <<active, initMask, nsMask, work, panic>>

(* ehf_el3_interrupt_handler: an interrupt of EL3 is delegated to the      *)
(* normal world (sdei_intr_handler).  Entering it changes nothing: the     *)
(* running priority is secure.                                             *)
Interrupt(p) ==
  /\ p < pmr /\ p < RunningPriority
  /\ Enter([kind |-> "intr", pri |-> p, yields |-> FALSE])
  /\ UNCHANGED <<ehf, own, panic>>

(* sdei_dispatch_event: another exception is delegated from the secure     *)
(* world, with a priority above all that are under way.                    *)
DispatchEvent(p) ==
  /\ InSecure
  /\ Cardinality(Dispatches("sync")) < MaxSync
  /\ \A q \in Dispatches("intr") \cup Dispatches("sync") : p < q
  /\ Enter([kind |-> "sync", pri |-> p, yields |-> FALSE])
  /\ ActivatePriority(p)
  /\ UNCHANGED own

(* sdei_event_complete: the end of the interrupt, or the deactivation.  A  *)
(* dispatch from the secure world returns there, unless the normal world   *)
(* could have preempted it, which is asked before the end of the           *)
(* interrupt; the call that was preempted is then over.                    *)
Complete ==
  /\ work # << >> /\ Top.kind # "smc"
  /\ LET below == SubSeq(work, 1, Len(work) - 1)
         fromSecure == below # << >> /\ below[Len(below)].kind = "smc"
         preempted == fromSecure /\ NsPreemptionAllowed
     IN  work' = IF preempted THEN SubSeq(below, 1, Len(below) - 1) ELSE below
  /\ IF Top.kind = "sync" THEN DeactivatePriority(Top.pri) ELSE Keep
  /\ UNCHANGED own

-----------------------------------------------------------------------------

EhfInit ==
  /\ active = {} /\ initMask = 0 /\ nsMask = 0
  /\ own \in NsMasks /\ pmr = own
  /\ work = << >> /\ panic = FALSE

EhfNext ==
  \/ FastSmc \/ YieldingSmc \/ SmcReturn \/ Preempt \/ Complete
  \/ \E m \in NsMasks : SetMask(m)
  \/ \E p \in Secure : Interrupt(p) \/ DispatchEvent(p)

EhfSpec == EhfInit /\ [][EhfNext]_ehfVars

-----------------------------------------------------------------------------
(* Correctness *)

(* Whatever interrupts, exceptions and calls are nested, a check of ehf.c  *)
(* (its panic() calls and assertions) fails in one case only: priorities   *)
(* are active and the mask is above the highest of them.  That happens:    *)
(* ehf_deactivate_priority is to "restore priority mask corresponding to   *)
(* the next priority", but leaves that of the deactivated one, which then  *)
(* cannot be activated again.                                              *)
OnlyStaleMaskPanics ==
  [][panic' => panic \/ (active # {} /\ pmr < Least(active))]_ehfVars

(* When nothing is under way, the normal world has the mask that it set    *)
(* (ehf_exited_normal_world, ehf_entering_normal_world,                    *)
(* ehf_allow_ns_preemption).                                               *)
NsMaskRestored ==
  EhfTypeOK /\ (work = << >> => pmr = own /\ nsMask = 0 /\ active = {})

(* An interrupt of the normal world cannot preempt a call of the secure    *)
(* world that does not yield, nor a dispatch.                              *)
SecureIsProtected ==
  (InSecure /\ ~ Top.yields) \/ Dispatches("sync") # {} => ~ NsSignalled

-----------------------------------------------------------------------------
(* The inductive invariant *)

Frames == [kind : {"smc", "intr", "sync"}, pri : 0 .. L, yields : BOOLEAN]

(* A dispatch preempts lower priorities only, and a call comes from the    *)
(* normal world: it is the first that is under way or made by a handler.   *)
(* Only the first one yields.                                              *)
WorkOK ==
  /\ work \in Seq(Frames)
  /\ \A n \in 1 .. Len(work) :
       /\ work[n].kind # "smc" => work[n].pri \in Secure
       /\ work[n].yields => n = 1 /\ work[n].kind = "smc"
  /\ \A n \in 2 .. Len(work) : work[n].kind = "smc" => work[n - 1].kind # "smc"
  /\ \A m, n \in 1 .. Len(work) :
       m < n /\ work[m].kind # "smc" /\ work[n].kind # "smc" => work[n].pri < work[m].pri

(* The mask while no priority is activated.                                *)
BaseMask == IF nsMask = 0 THEN own ELSE HighestNs

(* The normal world's mask is stashed as long as a call that does not yield*)
(* is the first thing under way; the mask below the activated priorities is*)
(* kept, and they are masked.                                              *)
MasksOK ==
  /\ active = Dispatches("sync")
  /\ nsMask \in {0, own}
  /\ nsMask # 0 <=> work # << >> /\ work[1].kind = "smc" /\ ~ work[1].yields
  /\ active = {} => pmr = BaseMask
  /\ active # {} => initMask = BaseMask /\ \A p \in active : pmr <= p

(* The strengthening of NsMaskRestored that every step preserves.          *)
EhfIInv == EhfTypeOK /\ WorkOK /\ MasksOK
=============================================================================
