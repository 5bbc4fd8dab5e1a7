-------------------------------- MODULE Sdei --------------------------------
(***************************************************************************)
(* The dispatcher of software delegated exceptions of ARM Trusted Firmware *)
(* (services/std_svc/sdei): events bound to interrupts of EL3 that are     *)
(* delegated to a handler in the normal world.                             *)
(*                                                                         *)
(* A call of a client, or an interrupt, runs on its PE in steps: take the  *)
(* lock of the event and load its state, then the body and the unlock.     *)
(* PEs interleave.  The interrupt controller is external: what the code    *)
(* asks it and relies on, pending, enabled and active interrupts, their    *)
(* owner and routing, and priorities.                                      *)
(*                                                                         *)
(* Three steps of the code rely on what another PE may have changed: the   *)
(* store of sdei_event_complete, and what sdei_interrupt_bind and          *)
(* sdei_interrupt_release do.  A history variable records when one of them *)
(* has gone wrong.                                                         *)
(*                                                                         *)
(* A statically bound event has the number of its interrupt.  Explicit     *)
(* dispatch is left out: sdei_class_init() binds every static event, so    *)
(* sdei_dispatch_event() refuses them all.                                 *)
(***************************************************************************)
EXTENDS Naturals, Sequences, FiniteSets

CONSTANTS
  N,            \* number of PEs
  Private,      \* private events; 0 is the one that can be signalled
  Shared,       \* shared events
  Dynamic,      \* those of them that a client binds
  Critical,     \* those of critical priority
  Ppi,          \* private interrupts that a client may bind
  Spi,          \* shared interrupts that a client may bind
  DynIrq,       \* SDEI_DYN_IRQ: the interrupt of a map that is not bound
  Clients,      \* what clients may do: on which PEs, which calls, about what
  MaxReg        \* bound on reg_count

PE == 1 .. N
Event == Private \cup Shared
Static == Event \ Dynamic
Interrupt == Static \cup Ppi \cup Spi
IsSpi(i) == i \in Spi \cup (Shared \ Dynamic)

ASSUME SizeAssumption == N \in Nat \ {0}
ASSUME EventAssumption ==
  /\ Event \subseteq Nat /\ Private \cap Shared = {} /\ 0 \notin Shared \cup Dynamic \cup Critical
  /\ Dynamic \subseteq Event /\ Critical \subseteq Static
ASSUME InterruptAssumption ==
  /\ Ppi \cup Spi \subseteq Nat \ {0} /\ Ppi \cap Spi = {} /\ (Ppi \cup Spi) \cap Event = {}
  /\ DynIrq \in Nat \ Interrupt
ASSUME ClientAssumption ==
  /\ \A c \in Clients :
       /\ c.pes \subseteq PE /\ c.about \subseteq Event \cup Interrupt
       /\ c.calls \subseteq {"REGISTER", "UNREGISTER", "ENABLE", "DISABLE", "ROUTING", "BIND",
                             "RELEASE", "MASK", "UNMASK", "SIGNAL", "CPU_ON"}
  /\ MaxReg \in Nat

(* There is one entry of a shared event, and one interrupt of its kind; of *)
(* the private ones, one for each PE.                                      *)
Entry(e, p) == <<e, IF e \in Shared THEN 0 ELSE p>>
Line(i, p) == <<i, IF IsSpi(i) THEN 0 ELSE p>>
Entries == {Entry(e, p) : e \in Event, p \in PE}
Lines == {Line(i, p) : i \in Interrupt, p \in PE}

VARIABLES
  clients,      \* one of Clients, for good
  se,           \* sdei_entry_t: state, reg_flags ("PE" or "ANY") and affinity
  intr,         \* map->intr
  bound,        \* SDEI_MAPF_BOUND
  regCount,     \* map->reg_count
  lock,         \* map->lock: the PE that holds it, or 0
  masked,       \* pe_masked of each PE
  pendingEnables, \* pending_enables of each PE
  stack,        \* dispatch_stack of each PE: event and interrupt
  gic,          \* the interrupt controller
  route,        \* where it sends a shared interrupt, 0 for any PE
  pc,           \* where each PE is
  call,         \* what it is doing there
  old,          \* the state it has loaded
  raced         \* history: what has gone wrong, see Collides, BoundTwice, ActiveElsewhere

maps == <<intr, bound, regCount>>
cpu == <<masked, pendingEnables, stack>>
ic == <<gic, route>>
vars == <<clients, raced, se, maps, lock, cpu, ic, pc, call, old>>

Calls == clients.calls
About == clients.about          \* the events and interrupts that are used

Doing(op, e, arg) == [op |-> op, event |-> e, arg |-> arg, todo |-> {}]
Idle == Doing("none", 0, 0)
Unregistered == [state |-> {}, flags |-> "ANY", aff |-> 0]
Unused == [owner |-> "NS", enabled |-> FALSE, pending |-> FALSE, active |-> 0]

TypeOK ==
  /\ se \in [Entries -> [state : SUBSET {"registered", "enabled", "running"},
                         flags : {"PE", "ANY"}, aff : PE \cup {0}]]
  /\ intr \in [Event -> Interrupt \cup {DynIrq}]
  /\ bound \in [Event -> BOOLEAN]
  /\ regCount \in [Event -> 0 .. MaxReg + N]
  /\ lock \in [Event -> PE \cup {0}]
  /\ masked \in [PE -> BOOLEAN] /\ pendingEnables \in [PE -> BOOLEAN]
  /\ \A p \in PE : Len(stack[p]) <= 2           \* MAX_EVENT_NESTING
  /\ gic \in [Lines -> [owner : {"NS", "EL3"}, enabled : BOOLEAN, pending : BOOLEAN,
                        active : PE \cup {0}]]
  /\ route \in [Interrupt -> PE \cup {0}]
  /\ pc \in [PE -> {"ns", "complete", "lock", "locked", "push", "unmask", "bind", "free", "owner",
                     "panic"}]
  /\ \A p \in PE : call[p].event \in Event \cup {0} /\ call[p].todo \subseteq Shared
  /\ old \in [PE -> SUBSET {"registered", "enabled", "running"}]
  /\ raced \subseteq {"complete", "bind", "release"}

-----------------------------------------------------------------------------
(* Faulty variant: an event that still runs can be registered again.       *)
AllowedRegister(s, act) ==
  CASE act = "REGISTER" -> "registered" \notin s
    [] act = "RELEASE" -> s = {}
    [] act \in {"ENABLE", "DISABLE", "UNREGISTER"} -> "registered" \in s
    [] act = "ROUTING" -> s = {"registered"}
    [] act = "COMPLETE" -> "running" \in s
    [] act = "DISPATCH" -> s = {"registered", "enabled"}

(* can_sdei_state_trans: the state table.  An action that a state forbids  *)
(* is denied; one that leaves the state as it is is allowed.               *)
Allowed(s, act) ==
  CASE act \in {"REGISTER", "RELEASE"} -> s = {}
    [] act \in {"ENABLE", "DISABLE", "UNREGISTER"} -> "registered" \in s
    [] act = "ROUTING" -> s = {"registered"}
    [] act = "COMPLETE" -> "running" \in s
    [] act = "DISPATCH" -> s = {"registered", "enabled"}

(* Faulty variant: an event that is unregistered is not disabled.          *)
TransitionKeepsEnabled(s, act) ==
  CASE act = "REGISTER" -> {"registered"}
    [] act = "ENABLE" -> s \cup {"enabled"}
    [] act = "DISABLE" -> s \ {"enabled"}
    [] act = "UNREGISTER" -> s
    [] act = "COMPLETE" -> s \ {"running"}
    [] act = "DISPATCH" -> s \cup {"running"}
    [] OTHER -> s

Transition(s, act) ==
  CASE act = "REGISTER" -> {"registered"}
    [] act = "ENABLE" -> s \cup {"enabled"}
    [] act = "DISABLE" -> s \ {"enabled"}
    [] act = "UNREGISTER" -> s \ {"registered", "enabled"}
    [] act = "COMPLETE" -> s \ {"running"}
    [] act = "DISPATCH" -> s \cup {"running"}
    [] OTHER -> s

SetState(k, s) == se' = [se EXCEPT ![k].state = s]

-----------------------------------------------------------------------------
(* A call *)

Top(p) == stack[p][Len(stack[p])]

(* The calls that change the state of an event or go by it.                *)
StateCalls == {"REGISTER", "UNREGISTER", "ENABLE", "DISABLE", "ROUTING", "RELEASE"}

Begin(p, op, e, arg) ==
  /\ pc[p] = "ns" /\ op \in Calls
  /\ op = "REGISTER" => regCount[e] < MaxReg
  /\ call' = [call EXCEPT ![p] = Doing(op, e, arg)]
  /\ pc' = [pc EXCEPT ![p] = "lock"]
  /\ UNCHANGED <<clients, raced, se, maps, lock, cpu, ic, old>>

(* The arguments that the code lets pass: a route is a PE, or 0 for any.   *)
Call(p) ==
  \E e \in Event \cap About :
    \/ \E op \in {"UNREGISTER", "ENABLE", "DISABLE"} : Begin(p, op, e, 0)
    \/ \E r \in IF e \in Shared THEN PE \cup {0} ELSE {p} : Begin(p, "REGISTER", e, r)
    \/ e \in Shared /\ \E r \in PE \cup {0} : Begin(p, "ROUTING", e, r)
    \/ e \in Dynamic /\ Begin(p, "RELEASE", e, 0)

NeedsLock(c) == c.event \in Shared \/ c.op \in {"REGISTER", "UNREGISTER", "RELEASE", "BIND"}

(* sdei_map_lock, where the code takes it, and the load of the state.      *)
Lock(p) ==
  LET e == call[p].event IN
  /\ pc[p] = "lock"
  /\ NeedsLock(call[p]) => lock[e] = 0
  /\ lock' = [lock EXCEPT ![e] = IF NeedsLock(call[p]) THEN p ELSE @]
  /\ old' = [old EXCEPT ![p] = se[Entry(e, p)].state]
  /\ pc' = [pc EXCEPT ![p] = "locked"]
  /\ UNCHANGED <<clients, raced, se, maps, cpu, ic, call>>

(* sdei_map_unlock, and what follows.                                      *)
Unlock(p) ==
  lock' = [lock EXCEPT ![call[p].event] = IF NeedsLock(call[p]) THEN 0 ELSE @]

Return(p) ==
  /\ Unlock(p)
  /\ pc' = [pc EXCEPT ![p] = "ns"]
  /\ call' = [call EXCEPT ![p] = Idle]
  /\ old' = [old EXCEPT ![p] = {}]

(* The assertions under the lock: how many have registered the event, that *)
(* its interrupt belongs to EL3, and which event may preempt which.  (That *)
(* on the affinity, which fails after a ROUTING_SET to another PE, is left *)
(* out: a release build goes on.)                                          *)
Asserts(p) ==
  LET e == call[p].event
      op == call[p].op
  IN  /\ op = "REGISTER" /\ Allowed(old[p], op) /\ (e \in Dynamic => bound[e]) =>
           (e \in Shared => regCount[e] = 0)
      /\ op = "UNREGISTER" /\ Allowed(old[p], op) =>
           /\ regCount[e] >= 1 /\ (e \in Shared => regCount[e] = 1)
           /\ bound[e] => gic[Line(intr[e], p)].owner = "EL3"
      /\ op = "INTR" /\ ~ masked[p] /\ Allowed(old[p], "DISPATCH") /\ stack[p] # << >> =>
           e \in Critical /\ Top(p).event \notin Critical

Body(p, op) == pc[p] = "locked" /\ call[p].op = op /\ Asserts(p)

AssertFails(p) ==
  /\ pc[p] = "locked" /\ ~ Asserts(p)
  /\ pc' = [pc EXCEPT ![p] = "panic"]
  /\ UNCHANGED <<clients, raced, se, maps, lock, cpu, ic, call, old>>

(* The call returns an error.                                              *)
Denied(p, op) ==
  /\ Body(p, op)
  /\ Return(p)
  /\ UNCHANGED <<clients, raced, se, maps, cpu, ic>>

-----------------------------------------------------------------------------
(* The calls of sdei_main.c *)

MayRegister(p) ==
  LET e == call[p].event
      line == Line(intr[e], p)
  IN  /\ Allowed(old[p], "REGISTER")
      /\ e \in Dynamic => bound[e]
      /\ bound[e] => gic[line].active = 0 /\ gic[line].owner = "NS"

(* sdei_event_register.                                                    *)
Register(p) ==
  LET e == call[p].event
      arg == call[p].arg
      i == intr[e]
  IN  /\ Body(p, "REGISTER") /\ MayRegister(p)
      /\ IF bound[e]
         THEN /\ gic' = [gic EXCEPT ![Line(i, p)] =
                           [owner |-> "EL3", enabled |-> FALSE, pending |-> FALSE, active |-> 0]]
              /\ route' = [route EXCEPT ![i] = IF e \in Shared THEN arg ELSE @]
         ELSE UNCHANGED ic
      /\ se' = [se EXCEPT ![Entry(e, p)] =
                  [state |-> Transition(old[p], "REGISTER"),
                   flags |-> IF arg = 0 THEN "ANY" ELSE "PE", aff |-> arg]]
      /\ regCount' = [regCount EXCEPT ![e] = @ + 1]
      /\ Return(p)
      /\ UNCHANGED <<clients, raced, intr, bound, cpu>>

(* sdei_event_unregister.                                                  *)
Unregister(p) ==
  LET e == call[p].event IN
  /\ Body(p, "UNREGISTER") /\ Allowed(old[p], "UNREGISTER")
  /\ regCount' = [regCount EXCEPT ![e] = @ - 1]
  /\ gic' = IF ~ bound[e] THEN gic
            ELSE [gic EXCEPT ![Line(intr[e], p)] =
                    [@ EXCEPT !.owner = "NS", !.enabled = FALSE, !.pending = FALSE]]
  /\ se' = [se EXCEPT ![Entry(e, p)] =
              [Unregistered EXCEPT !.state = Transition(old[p], "UNREGISTER")]]
  /\ Return(p)
  /\ UNCHANGED <<clients, raced, intr, bound, cpu, route>>

(* sdei_event_enable and sdei_event_disable: the interrupt follows only    *)
(* when the state changes.                                                 *)
Switch(p, op, on) ==
  LET e == call[p].event
      new == Transition(old[p], op)
  IN  /\ Body(p, op) /\ Allowed(old[p], op)
      /\ SetState(Entry(e, p), new)
      /\ gic' = IF ~ bound[e] \/ new = old[p] THEN gic
                ELSE [gic EXCEPT ![Line(intr[e], p)].enabled = on]
      /\ Return(p)
      /\ UNCHANGED <<clients, raced, maps, cpu, route>>

(* sdei_event_routing_set.                                                 *)
RoutingSet(p) ==
  LET e == call[p].event IN
  /\ Body(p, "ROUTING") /\ bound[e] /\ Allowed(old[p], "ROUTING")
  /\ se' = [se EXCEPT ![Entry(e, p)].flags = IF call[p].arg = 0 THEN "ANY" ELSE "PE"]
  /\ route' = [route EXCEPT ![intr[e]] = call[p].arg]
  /\ Return(p)
  /\ UNCHANGED <<clients, raced, maps, cpu, gic>>

(* Faulty variant: does not ask whether the interrupt is active.           *)
MayReleaseActive(p) ==
  LET e == call[p].event IN
  regCount[e] = 0 /\ bound[e]

MayRelease(p) ==
  LET e == call[p].event IN
  /\ regCount[e] = 0
  /\ Allowed(old[p], "RELEASE")
  /\ bound[e]
  /\ gic[Line(intr[e], p)].active = 0

(* A PE knows of a private interrupt only whether it is active here.       *)
ActiveElsewhere(e) == e \in Private /\ \E q \in PE : gic[Line(intr[e], q)].active # 0

(* sdei_interrupt_release.                                                 *)
Release(p) ==
  LET e == call[p].event IN
  /\ Body(p, "RELEASE") /\ MayRelease(p)
  /\ intr' = [intr EXCEPT ![e] = DynIrq]
  /\ bound' = [bound EXCEPT ![e] = FALSE]
  /\ raced' = raced \cup (IF ActiveElsewhere(e) THEN {"release"} ELSE {})
  /\ Return(p)
  /\ UNCHANGED <<clients, se, regCount, cpu, ic>>

(* What each of them refuses.                                              *)
Deny(p) ==
  \/ Denied(p, "REGISTER") /\ ~ MayRegister(p)
  \/ \E op \in {"UNREGISTER", "ENABLE", "DISABLE"} : Denied(p, op) /\ ~ Allowed(old[p], op)
  \/ Denied(p, "ROUTING") /\ (bound[call[p].event] => ~ Allowed(old[p], "ROUTING"))
  \/ Denied(p, "RELEASE") /\ ~ MayRelease(p)

(* find_event_map_by_intr, without a lock.                                 *)
MapsOf(i) == {e \in Event : IsSpi(i) = (e \in Shared) /\ intr[e] = i}
FreeMaps(i) == {e \in Dynamic : IsSpi(i) = (e \in Shared) /\ intr[e] = DynIrq}

(* sdei_interrupt_bind: is there an event of the interrupt already, is     *)
(* there a free map, whose is the interrupt ...                            *)
Bind(p, i) ==
  /\ pc[p] = "ns" /\ "BIND" \in Calls
  /\ call' = [call EXCEPT ![p] = Doing("BIND", 0, i)]
  /\ pc' = [pc EXCEPT ![p] = "bind"]
  /\ UNCHANGED <<clients, raced, se, maps, lock, cpu, ic, old>>

BindReturn(p) ==
  /\ call' = [call EXCEPT ![p] = Idle]
  /\ pc' = [pc EXCEPT ![p] = "ns"]

BindSearch(p) ==
  /\ pc[p] = "bind"
  /\ \/ (\E e \in MapsOf(call[p].arg) : bound[e]) /\ BindReturn(p)
     \/ /\ \A e \in MapsOf(call[p].arg) : ~ bound[e]
        /\ pc' = [pc EXCEPT ![p] = "free"]
        /\ UNCHANGED call
  /\ UNCHANGED <<clients, raced, se, maps, lock, cpu, ic, old>>

BindFree(p) ==
  LET free == FreeMaps(call[p].arg) IN
  /\ pc[p] = "free"
  /\ \/ free = {} /\ BindReturn(p)
     \/ /\ free # {}
        /\ call' = [call EXCEPT ![p].event = CHOOSE e \in free : \A f \in free : e <= f]
        /\ pc' = [pc EXCEPT ![p] = "owner"]
  /\ UNCHANGED <<clients, raced, se, maps, lock, cpu, ic, old>>

BindOwner(p) ==
  /\ pc[p] = "owner"
  /\ \/ gic[Line(call[p].arg, p)].owner # "NS" /\ BindReturn(p)
     \/ /\ gic[Line(call[p].arg, p)].owner = "NS"
        /\ pc' = [pc EXCEPT ![p] = "lock"]
        /\ UNCHANGED call
  /\ UNCHANGED <<clients, raced, se, maps, lock, cpu, ic, old>>

(* ... and take the map, if it is still free.  Another event may have been *)
(* bound to the interrupt since.                                           *)
BoundTwice(i) == \E f \in Event : bound[f] /\ intr[f] = i

BindTake(p) ==
  LET e == call[p].event IN
  /\ Body(p, "BIND") /\ ~ bound[e]
  /\ intr' = [intr EXCEPT ![e] = call[p].arg]
  /\ bound' = [bound EXCEPT ![e] = TRUE]
  /\ raced' = raced \cup (IF BoundTwice(call[p].arg) THEN {"bind"} ELSE {})
  /\ Return(p)
  /\ UNCHANGED <<clients, se, regCount, cpu, ic>>

BindRetry(p) ==
  /\ Body(p, "BIND") /\ bound[call[p].event]
  /\ Unlock(p)
  /\ pc' = [pc EXCEPT ![p] = "bind"]
  /\ old' = [old EXCEPT ![p] = {}]
  /\ UNCHANGED <<clients, raced, se, maps, cpu, ic, call>>

(* sdei_signal.                                                            *)
Signal(p, t) ==
  /\ pc[p] = "ns" /\ "SIGNAL" \in Calls /\ 0 \in Private
  /\ gic' = [gic EXCEPT ![Line(0, t)].pending = TRUE]
  /\ UNCHANGED <<clients, raced, se, maps, lock, cpu, route, pc, call, old>>

-----------------------------------------------------------------------------
(* Masking *)

(* sdei_pe_mask.                                                           *)
Mask(p) ==
  /\ pc[p] = "ns" /\ "MASK" \in Calls
  /\ masked' = [masked EXCEPT ![p] = TRUE]
  /\ UNCHANGED <<clients, raced, se, maps, lock, pendingEnables, stack, ic, pc, call, old>>

(* The private events whose interrupts sdei_pe_unmask enables.             *)
Reenable(p) == {Line(intr[e], p) : e \in {d \in Private : bound[d] /\ "enabled" \in se[Entry(d, p)].state}}

(* sdei_pe_unmask: the private events at once, then the shared ones, each  *)
(* under its lock.                                                         *)
Unmask(p) ==
  /\ pc[p] = "ns" /\ "UNMASK" \in Calls
  /\ gic' = [k \in Lines |-> [gic[k] EXCEPT !.enabled =
               @ \/ (pendingEnables[p] /\ k \in Reenable(p))]]
  /\ call' = [call EXCEPT ![p] = [op |-> "UNMASK", event |-> 0, arg |-> 0,
                                  todo |-> IF pendingEnables[p] THEN Shared ELSE {}]]
  /\ pc' = [pc EXCEPT ![p] = "unmask"]
  /\ UNCHANGED <<clients, raced, se, maps, lock, cpu, route, old>>

UnmaskNext(p) ==
  /\ pc[p] = "unmask" /\ call[p].todo # {}
  /\ LET e == CHOOSE e \in call[p].todo : \A f \in call[p].todo : e <= f
     IN  call' = [call EXCEPT ![p].event = e, ![p].todo = @ \ {e}]
  /\ pc' = [pc EXCEPT ![p] = "lock"]
  /\ UNCHANGED <<clients, raced, se, maps, lock, cpu, ic, old>>

UnmaskShared(p) ==
  LET e == call[p].event
      entry == se[Entry(e, p)]
  IN  /\ Body(p, "UNMASK")
      /\ gic' = IF bound[e] /\ "enabled" \in old[p] /\ entry.flags = "PE" /\ entry.aff = p
                THEN [gic EXCEPT ![Line(intr[e], p)].enabled = TRUE]
                ELSE gic
      /\ Unlock(p)
      /\ pc' = [pc EXCEPT ![p] = "unmask"]
      /\ old' = [old EXCEPT ![p] = {}]
      /\ UNCHANGED <<clients, raced, se, maps, cpu, route, call>>

Unmasked(p) ==
  /\ pc[p] = "unmask" /\ call[p].todo = {}
  /\ masked' = [masked EXCEPT ![p] = FALSE]
  /\ pendingEnables' = [pendingEnables EXCEPT ![p] = FALSE]
  /\ pc' = [pc EXCEPT ![p] = "ns"]
  /\ call' = [call EXCEPT ![p] = Idle]
  /\ old' = [old EXCEPT ![p] = {}]
  /\ UNCHANGED <<clients, raced, se, maps, lock, stack, ic>>

(* The PE is turned off and on again: sdei_cpu_on_init, and the set-up of  *)
(* its part of the interrupt controller.                                   *)
CpuOn(p) ==
  /\ pc[p] = "ns" /\ "CPU_ON" \in Calls
  /\ stack[p] = << >>
  /\ se' = [k \in Entries |-> IF k[2] = p THEN Unregistered ELSE se[k]]
  /\ masked' = [masked EXCEPT ![p] = TRUE]
  /\ gic' = [k \in Lines |-> IF k[2] = p /\ k[1] # 0 THEN Unused ELSE gic[k]]
  /\ UNCHANGED <<clients, raced, maps, lock, pendingEnables, stack, route, pc, call, old>>

-----------------------------------------------------------------------------
(* Interrupts and the dispatch *)

(* A device raises an interrupt.                                           *)
Trigger(k) ==
  /\ k[1] # 0 /\ k[1] \in About /\ ~ gic[k].pending
  /\ gic' = [gic EXCEPT ![k].pending = TRUE]
  /\ UNCHANGED <<clients, raced, se, maps, lock, cpu, route, pc, call, old>>

(* Interrupt i preempts the handling of j.                                 *)
Preempts(i, j) == i \in Critical /\ j \notin Critical

Signalled(p, i) ==
  LET k == Line(i, p) IN
  /\ gic[k].owner = "EL3" /\ gic[k].enabled /\ gic[k].pending /\ gic[k].active = 0
  /\ IsSpi(i) => route[i] \in {0, p}
  /\ \A j \in Interrupt : gic[Line(j, p)].active = p => Preempts(i, j)

(* ehf_el3_interrupt_handler: acknowledge, and look for the event.         *)
Acknowledge(p, i) ==
  /\ pc[p] = "ns"
  /\ Signalled(p, i)
  /\ gic' = [gic EXCEPT ![Line(i, p)].active = p, ![Line(i, p)].pending = FALSE]
  /\ IF MapsOf(i) = {}
     THEN pc' = [pc EXCEPT ![p] = "panic"] /\ UNCHANGED call
     ELSE /\ pc' = [pc EXCEPT ![p] = "lock"]
          /\ LET e == CHOOSE e \in MapsOf(i) : \A f \in MapsOf(i) : e <= f
             IN  call' = [call EXCEPT ![p] = Doing("INTR", e, i)]
  /\ UNCHANGED <<clients, raced, se, maps, lock, cpu, route, old>>

(* Faulty variant: does not remember that it has disabled the interrupt.   *)
MaskedTriggerForgets(p) ==
  LET e == call[p].event IN
  /\ Body(p, "INTR") /\ masked[p]
  /\ gic' = [gic EXCEPT ![Line(call[p].arg, p)] = [@ EXCEPT !.active = 0, !.pending = TRUE, !.enabled = FALSE]]
  /\ Return(p)
  /\ UNCHANGED <<clients, raced, se, maps, cpu, route>>

(* handle_masked_trigger: the interrupt is left pending.                   *)
MaskedTrigger(p) ==
  LET e == call[p].event
      k == Line(call[p].arg, p)
      here == e \in Private \/ se[Entry(e, p)].flags = "PE"
  IN  /\ Body(p, "INTR") /\ masked[p]
      /\ IF e = 0 THEN UNCHANGED <<gic, pendingEnables>>
         ELSE /\ gic' = [gic EXCEPT ![k].active = 0, ![k].pending = TRUE, ![k].enabled = @ /\ ~ here]
              /\ pendingEnables' = [pendingEnables EXCEPT ![p] = @ \/ here]
      /\ Return(p)
      /\ UNCHANGED <<clients, raced, se, maps, masked, stack, route>>

(* sdei_intr_handler: the event was disabled or unregistered meanwhile.    *)
(* It is left pending if it is registered (not an SGI, as that of event 0) *)
(* ...                                                                     *)
NotDispatched(p) ==
  LET k == Line(call[p].arg, p)
      again == "registered" \in old[p] /\ call[p].event # 0
  IN  /\ Body(p, "INTR") /\ ~ masked[p] /\ ~ Allowed(old[p], "DISPATCH")
      /\ gic' = [gic EXCEPT ![k].active = 0, ![k].pending = @ \/ again]
      /\ Return(p)
      /\ UNCHANGED <<clients, raced, se, maps, cpu, route>>

(* ... or it is dispatched.                                                *)
Dispatch(p) ==
  /\ Body(p, "INTR") /\ ~ masked[p] /\ Allowed(old[p], "DISPATCH")
  /\ SetState(Entry(call[p].event, p), Transition(old[p], "DISPATCH"))
  /\ Unlock(p)
  /\ pc' = [pc EXCEPT ![p] = "push"]
  /\ old' = [old EXCEPT ![p] = {}]
  /\ UNCHANGED <<clients, raced, maps, cpu, ic, call>>

(* setup_ns_dispatch, after the unlock: the handler of the client is       *)
(* called.                                                                 *)
Push(p) ==
  /\ pc[p] = "push"
  /\ stack' = [stack EXCEPT ![p] =
                 Append(@, [event |-> call[p].event, intr |-> call[p].arg])]
  /\ pc' = [pc EXCEPT ![p] = "ns"]
  /\ call' = [call EXCEPT ![p] = Idle]
  /\ old' = [old EXCEPT ![p] = {}]
  /\ UNCHANGED <<clients, raced, se, maps, lock, masked, pendingEnables, ic>>

(* sdei_event_complete: load the state of the event, without its lock ...  *)
Complete(p) ==
  /\ pc[p] = "ns" /\ stack[p] # << >>
  /\ call' = [call EXCEPT ![p] = Doing("COMPLETE", Top(p).event, Top(p).intr)]
  /\ old' = [old EXCEPT ![p] = se[Entry(Top(p).event, p)].state]
  /\ pc' = [pc EXCEPT ![p] = "complete"]
  /\ UNCHANGED <<clients, raced, se, maps, lock, cpu, ic>>

(* ... store the new one, and pop the dispatch.  When this is not allowed, *)
(* the lock is released that was not taken.  It goes wrong if another PE   *)
(* has changed the state since, or has loaded it and is about to.          *)
Collides(p) ==
  LET e == call[p].event IN
  \/ se[Entry(e, p)].state # old[p]
  \/ e \in Shared /\ \E q \in PE \ {p} :
       pc[q] = "locked" /\ call[q].event = e /\ call[q].op \in StateCalls

CompleteState(p) ==
  /\ pc[p] = "complete"
  /\ IF Allowed(old[p], "COMPLETE")
     THEN /\ SetState(Entry(call[p].event, p), Transition(old[p], "COMPLETE"))
          /\ stack' = [stack EXCEPT ![p] = SubSeq(@, 1, Len(@) - 1)]
          /\ pc' = [pc EXCEPT ![p] = "lock"]
          /\ old' = [old EXCEPT ![p] = {}]
          /\ UNCHANGED <<lock, call>>
     ELSE Return(p) /\ UNCHANGED <<se, stack>>
  /\ raced' = raced \cup (IF Collides(p) THEN {"complete"} ELSE {})
  /\ UNCHANGED <<clients, maps, masked, pendingEnables, ic>>

(* Faulty variant: the interrupt stays active.                             *)
CompletedNoEoi(p) ==
  /\ Body(p, "COMPLETE")
  /\ Return(p)
  /\ UNCHANGED <<clients, raced, se, maps, cpu, ic>>

(* Under the lock: end of interrupt, or ehf_deactivate_priority, which     *)
(* panics, for no event has been dispatched explicitly.                    *)
Completed(p) ==
  LET e == call[p].event IN
  /\ Body(p, "COMPLETE")
  /\ IF e = 0 \/ bound[e]
     THEN /\ gic' = [gic EXCEPT ![Line(call[p].arg, p)].active = 0]
          /\ Return(p)
     ELSE /\ pc' = [pc EXCEPT ![p] = "panic"]
          /\ UNCHANGED <<gic, lock, call, old>>
  /\ UNCHANGED <<clients, raced, se, maps, cpu, route>>

-----------------------------------------------------------------------------

(* sdei_init.  The interrupt of event 0 belongs to EL3 from the beginning. *)
Init ==
  /\ clients \in Clients
  /\ se = [k \in Entries |-> Unregistered]
  /\ intr = [e \in Event |-> IF e \in Static THEN e ELSE DynIrq]
  /\ bound = [e \in Event |-> e \in Static /\ e # 0]
  /\ regCount = [e \in Event |-> 0]
  /\ lock = [e \in Event |-> 0]
  /\ masked = [p \in PE |-> TRUE] /\ pendingEnables = [p \in PE |-> FALSE]
  /\ stack = [p \in PE |-> << >>]
  /\ gic = [k \in Lines |-> IF k[1] = 0 THEN [Unused EXCEPT !.owner = "EL3", !.enabled = TRUE]
                            ELSE Unused]
  /\ route = [i \in Interrupt |-> 0]
  /\ pc = [p \in PE |-> "ns"]
  /\ call = [p \in PE |-> Idle]
  /\ old = [p \in PE |-> {}]
  /\ raced = {}

(* A step of the dispatcher, other than to take a lock.                    *)
Step(p) ==
  \/ Deny(p)
  \/ Register(p) \/ Unregister(p) \/ RoutingSet(p) \/ Release(p)
  \/ Switch(p, "ENABLE", TRUE) \/ Switch(p, "DISABLE", FALSE)
  \/ BindSearch(p) \/ BindFree(p) \/ BindOwner(p) \/ BindTake(p) \/ BindRetry(p)
  \/ UnmaskNext(p) \/ UnmaskShared(p) \/ Unmasked(p)
  \/ MaskedTrigger(p) \/ NotDispatched(p) \/ Dispatch(p) \/ Push(p)
  \/ CompleteState(p) \/ Completed(p)
  \/ AssertFails(p)

(* panic() does not return.                                                *)
Panicked(p) == pc[p] = "panic" /\ UNCHANGED vars

Next ==
  \/ \E p \in clients.pes :
       \/ Call(p) \/ \E i \in (Ppi \cup Spi) \cap About : Bind(p, i)
       \/ \E t \in PE : Signal(p, t)
       \/ Mask(p) \/ Unmask(p) \/ CpuOn(p)
  \/ \E p \in PE :
       \/ Complete(p)
       \/ \E i \in Interrupt : Acknowledge(p, i)
       \/ Lock(p) \/ Step(p) \/ Panicked(p)
  \/ \E k \in Lines : Trigger(k)

Spec == Init /\ [][Next]_vars

-----------------------------------------------------------------------------
(* Correctness *)

Handling(e, p) ==
  \/ pc[p] = "push" /\ call[p].event = e
  \/ \E n \in DOMAIN stack[p] : stack[p][n].event = e

(* An event is running exactly while a PE handles it, for a private event  *)
(* its own PE, and only one does.                                          *)
RunningAgrees ==
  \A e \in Event, p \in PE :
    LET here == {q \in PE : Handling(e, q) /\ (e \in Shared \/ q = p)}
    IN  /\ "running" \in se[Entry(e, p)].state <=> here # {}
        /\ Cardinality(here) <= 1

(* The state of an event says whether it is handled (sdei_intr_handler and *)
(* sdei_event_complete), as long as no completion has collided with a call *)
(* of another PE about the event.  Such a collision breaks it: for         *)
(* sdei_event_complete "no locking is required for the Running status"     *)
(* (sdei_intr_mgmt.c:675), and so it stores a state that another PE may    *)
(* have changed since it was loaded (line 572).                            *)
RunningIsDispatched == "complete" \notin raced => TypeOK /\ RunningAgrees

(* While nobody holds the lock of an event, its interrupt belongs to EL3   *)
(* exactly if a handler is registered, and is routed as the entry says;    *)
(* and as many entries are registered as the map counts, unless a PE was   *)
(* turned off, which forgets its entries and not the count.  So it is as   *)
(* long as no completion has collided with a call, no interrupt was bound  *)
(* to two events, and no private event was released that another PE still  *)
(* handles.                                                                *)
RegistrationAgrees ==
  raced = {} =>
  \A e \in Event : lock[e] = 0 =>
    /\ e # 0 /\ bound[e] => \A p \in PE :
         LET entry == se[Entry(e, p)] IN
         /\ "registered" \in entry.state <=> gic[Line(intr[e], p)].owner = "EL3"
         /\ e \in Shared /\ "registered" \in entry.state =>
              (entry.flags = "ANY" <=> route[intr[e]] = 0)
    /\ "CPU_ON" \notin Calls =>
         regCount[e] = Cardinality({k \in Entries : k[1] = e /\ "registered" \in se[k].state})

(* The interrupt of an event that is enabled is enabled too, unless its PE *)
(* has masked events and will enable it when it unmasks them.  So it is on *)
(* the conditions of RegistrationAgrees and without ROUTING_SET, which     *)
(* leaves an affinity in the entry that is not the one of the route.       *)
NoEventForgotten ==
  raced = {} /\ "ROUTING" \notin Calls =>
  \A e \in Event \ {0}, p \in PE :
    LET entry == se[Entry(e, p)]
        target == IF e \in Private THEN p ELSE entry.aff
    IN  lock[e] = 0 /\ bound[e] /\ "enabled" \in entry.state =>
          \/ gic[Line(intr[e], p)].enabled
          \/ (e \in Private \/ entry.flags = "PE") /\ masked[target] /\ pendingEnables[target]

(* An interrupt is active only while its event is handled, and an event    *)
(* that is handled stays bound to the interrupt that has to be ended when  *)
(* it completes.  So it is on the conditions of RegistrationAgrees.  (The  *)
(* interrupt of event 0 stays active for good when it comes while events   *)
(* are masked.)                                                            *)
ActiveIsHandled ==
  raced = {} =>
  \A p \in PE :
    /\ \A i \in Interrupt \ {0} :
         gic[Line(i, p)].active = p =>
           \/ \E n \in DOMAIN stack[p] : stack[p][n].intr = i
           \/ call[p].op \in {"INTR", "COMPLETE"} /\ call[p].arg = i
    /\ \A n \in DOMAIN stack[p] :
         LET e == stack[p][n].event IN e # 0 => bound[e] /\ intr[e] = stack[p][n].intr

(* No PE panics, in particular when it completes an event or finds none    *)
(* for an interrupt, and the assertions hold on the count of registrations *)
(* and the owner of the interrupt (sdei_event_register and                 *)
(* sdei_event_unregister) and on nested dispatches (sdei_intr_handler): a  *)
(* critical event preempts a normal one, and a normal event none.  So it   *)
(* is on the conditions of RegistrationAgrees.                             *)
NoPanic == raced = {} => \A p \in PE : pc[p] # "panic"

-----------------------------------------------------------------------------
(* The inductive invariant *)

PcType ==
  {"ns", "complete", "lock", "locked", "push", "unmask", "bind", "free", "owner", "panic"}
CallType ==
  [op : StateCalls \cup {"none", "BIND", "UNMASK", "INTR", "COMPLETE"},
   event : Event \cup {0}, arg : Nat, todo : SUBSET Shared]
StateType == SUBSET {"registered", "enabled", "running"}
EntryType == [state : StateType, flags : {"PE", "ANY"}, aff : PE \cup {0}]
LineType == [owner : {"NS", "EL3"}, enabled : BOOLEAN, pending : BOOLEAN, active : PE \cup {0}]

Types ==
  /\ clients \in Clients
  /\ se \in [Entries -> EntryType]
  /\ intr \in [Event -> Interrupt \cup {DynIrq}] /\ bound \in [Event -> BOOLEAN]
  /\ regCount \in [Event -> Nat] /\ lock \in [Event -> PE \cup {0}]
  /\ masked \in [PE -> BOOLEAN] /\ pendingEnables \in [PE -> BOOLEAN]
  /\ stack \in [PE -> Seq([event : Event, intr : Interrupt])]
  /\ gic \in [Lines -> LineType] /\ route \in [Interrupt -> PE \cup {0}]
  /\ pc \in [PE -> PcType] /\ call \in [PE -> CallType] /\ old \in [PE -> StateType]

(* No two events are bound to the same interrupt.                          *)
OneEventPerInterrupt ==
  \A e, f \in Event : e # f /\ bound[e] /\ bound[f] => intr[e] # intr[f]

(* Event e may be bound to interrupt i.                                    *)
Fits(e, i) ==
  /\ e \in Event /\ i \in Interrupt /\ (IsSpi(i) <=> e \in Shared)
  /\ e \in Static \/ i \in Static => e = i

(* What a PE is doing is a call with its arguments.                        *)
CallOK(p) ==
  LET c == call[p] IN
  /\ pc[p] = "ns" => c = Idle
  /\ pc[p] \in {"bind", "free", "owner"} => c.op = "BIND"
  /\ pc[p] = "unmask" => c.op = "UNMASK"
  /\ pc[p] = "complete" => c.op = "COMPLETE"
  /\ pc[p] = "push" => c.op = "INTR"
  /\ pc[p] = "panic" => c.op \in {"none", "COMPLETE", "REGISTER", "UNREGISTER", "INTR"}
  /\ pc[p] \in {"lock", "locked"} => c.op # "none" /\ c.event \in Event
  /\ c.op \in StateCalls => c.op \in Calls /\ pc[p] \in {"lock", "locked", "panic"}
  /\ c.op = "REGISTER" => c.arg \in PE \cup {0} /\ (c.event \in Private => c.arg = p)
  /\ c.op = "ROUTING" => c.event \in Shared /\ c.arg \in PE \cup {0}
  /\ c.op = "RELEASE" => c.event \in Dynamic \cap About
  /\ c.op = "UNMASK" /\ pc[p] \in {"lock", "locked"} => c.event \in Shared
  /\ c.op = "BIND" =>
       /\ c.arg \in (Ppi \cup Spi) \cap About
       /\ pc[p] \in {"owner", "lock", "locked"} => c.event \in Dynamic /\ Fits(c.event, c.arg)
  /\ c.op \in {"INTR", "COMPLETE"} => Fits(c.event, c.arg)
  /\ \A n \in DOMAIN stack[p] : Fits(stack[p][n].event, stack[p][n].intr)

(* A lock is held by the PE that is in its critical section.               *)
Holds(p, e) == pc[p] \in {"locked", "panic"} /\ call[p].event = e /\ NeedsLock(call[p])
LockOK == \A e \in Event, p \in PE : lock[e] = p <=> Holds(p, e)

(* The state that was loaded under the lock is the state, but for a        *)
(* completion elsewhere.                                                   *)
OldOK(p) ==
  LET s == se[Entry(call[p].event, p)].state IN
  /\ pc[p] = "locked" =>
       /\ s \subseteq old[p] /\ old[p] \subseteq s \cup {"running"}
       /\ call[p].op \in StateCalls => old[p] = s
  /\ pc[p] = "complete" => "running" \in old[p]

RunOK ==
  /\ \A e \in Event, p \in PE :
       "running" \in se[Entry(e, p)].state <=>
         \E q \in PE : Handling(e, q) /\ (e \in Shared \/ q = p)
  /\ \A e \in Shared : \A p, q \in PE : Handling(e, p) /\ Handling(e, q) => p = q

(* The dispatches of a PE are of different events and interrupts.          *)
StackOK(p) ==
  /\ pc[p] = "complete" =>
       stack[p] # << >> /\ call[p].event = Top(p).event /\ call[p].arg = Top(p).intr
  /\ \A m, n \in DOMAIN stack[p] :
       m # n => stack[p][m].event # stack[p][n].event /\ stack[p][m].intr # stack[p][n].intr
  /\ \A n \in DOMAIN stack[p] :
       /\ pc[p] = "push" => stack[p][n].event # call[p].event
       /\ call[p].op \in {"INTR", "COMPLETE"} /\ pc[p] # "complete" =>
            stack[p][n].intr # call[p].arg

(* Their interrupts are active, and of those one preempts the other.       *)
ActiveOK(p) ==
  /\ \A n \in DOMAIN stack[p] : gic[Line(stack[p][n].intr, p)].active = p
  /\ call[p].op \in {"INTR", "COMPLETE"} => gic[Line(call[p].arg, p)].active = p
  /\ \A i, j \in Interrupt :
       i # j /\ gic[Line(i, p)].active = p /\ gic[Line(j, p)].active = p =>
         ~ (i \in Critical <=> j \in Critical)

RegisteredEntries(e) == {k \in Entries : k[1] = e /\ "registered" \in se[k].state}

(* The count is that of the entries registered, or more when a PE was      *)
(* turned off, which has no part in shared events.  Register calls that    *)
(* have begun may exceed its bound.                                        *)
CountOK(e) ==
  /\ Cardinality(RegisteredEntries(e)) <= regCount[e]
  /\ "CPU_ON" \notin Calls \/ e \in Shared => regCount[e] = Cardinality(RegisteredEntries(e))
  /\ regCount[e] + Cardinality({p \in PE : call[p].op = "REGISTER" /\ call[p].event = e})
       <= MaxReg + N

MapOK(e) ==
  IF e \in Static THEN intr[e] = e /\ (bound[e] <=> e # 0)
  ELSE IF bound[e] THEN intr[e] \in (Ppi \cup Spi) \cap About /\ Fits(e, intr[e])
  ELSE intr[e] = DynIrq

(* What holds as long as no completion has collided with a call.           *)
SerialInv ==
  /\ Types /\ LockOK /\ RunOK
  /\ \A p \in PE : CallOK(p) /\ OldOK(p) /\ StackOK(p) /\ ActiveOK(p)
  /\ \A e \in Event : CountOK(e) /\ MapOK(e)

(* The interrupts of handlers that are registered belong to EL3, and no    *)
(* others.                                                                 *)
OwnerOK ==
  /\ \A e \in Event \ {0}, p \in PE :
       IF bound[e]
       THEN "registered" \in se[Entry(e, p)].state <=> gic[Line(intr[e], p)].owner = "EL3"
       ELSE "registered" \notin se[Entry(e, p)].state
  /\ \A i \in Ppi \cup Spi :
       (\A e \in Event : bound[e] => intr[e] # i) =>
         \A p \in PE : gic[Line(i, p)].owner = "NS"

RouteOK ==
  \A e \in Shared, p \in PE :
    LET entry == se[Entry(e, p)] IN
    bound[e] /\ "registered" \in entry.state =>
      /\ entry.flags = "ANY" <=> route[intr[e]] = 0
      /\ "ROUTING" \notin Calls => entry.aff = route[intr[e]]

(* An interrupt that is handled is that of its event, and was routed here. *)
HandledOK(p) ==
  /\ \A n \in DOMAIN stack[p] :
       LET e == stack[p][n].event IN e # 0 => bound[e] /\ intr[e] = stack[p][n].intr
  /\ LET e == call[p].event IN
     /\ call[p].op \in {"INTR", "COMPLETE"} /\ e # 0 => bound[e] /\ intr[e] = call[p].arg
     /\ call[p].op = "INTR" /\ e \in Shared /\ "ROUTING" \notin Calls =>
          ("registered" \in se[Entry(e, p)].state => route[call[p].arg] \in {0, p})
  /\ \A i \in Interrupt \ {0} :
       gic[Line(i, p)].active = p =>
         \/ \E n \in DOMAIN stack[p] : stack[p][n].intr = i
         \/ call[p].op \in {"INTR", "COMPLETE"} /\ call[p].arg = i

(* PE t will enable the interrupt of event e when it unmasks events, or    *)
(* later in the call that does.                                            *)
WillEnable(t, e) ==
  /\ masked[t] /\ pendingEnables[t]
  /\ call[t].op = "UNMASK" =>
       e \in call[t].todo \/ (pc[t] \in {"lock", "locked"} /\ call[t].event = e)

EnabledOK(e, p) ==
  LET entry == se[Entry(e, p)] IN
  "enabled" \in entry.state =>
    /\ "registered" \in entry.state
    /\ e # 0 /\ "ROUTING" \notin Calls =>
         \/ gic[Line(intr[e], p)].enabled
         \/ e \in Private /\ WillEnable(p, e)
         \/ e \in Shared /\ entry.flags = "PE" /\ WillEnable(entry.aff, e)

EnableOK == \A e \in Event, p \in PE : EnabledOK(e, p)

(* What holds as long as nothing has gone wrong.                           *)
CarefulInv ==
  /\ SerialInv /\ OneEventPerInterrupt /\ OwnerOK /\ RouteOK /\ EnableOK
  /\ \A p \in PE : HandledOK(p) /\ pc[p] # "panic"

(* What a PE handles when it acknowledges an interrupt is not critical.    *)
PreemptInv ==
  \A p \in PE :
    call[p].op = "INTR" => \A n \in DOMAIN stack[p] : stack[p][n].intr \notin Critical
=============================================================================
