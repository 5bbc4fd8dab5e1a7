---------------------------- MODULE PsciAffInfo -----------------------------
(***************************************************************************)
(* aff_info_state of one CPU, the target, as caches and memory have it.    *)
(* Psci takes the variable as one coherent word.  It is not: the target    *)
(* writes OFF with its cache off (psci_do_cpu_off) and reads it back with  *)
(* its cache off when it boots, while the callers of CPU_ON use it with    *)
(* their caches on.  The code makes up for that with cache maintenance,    *)
(* and with a retry when the target's own maintenance undoes an update.    *)
(*                                                                         *)
(* The caches that are on are coherent, so the line has one cached value.  *)
(* It is filled speculatively and evicted at any time.  The maintenance of *)
(* a target that has left coherency may not reach the other caches, as the *)
(* comment in psci_cpu_on_start warns.                                     *)
(***************************************************************************)
CONSTANTS
  Caller        \* the CPUs that call CPU_ON and AFFINITY_INFO for the target

ASSUME CallerAssumption == Caller # {} /\ "free" \notin Caller

VARIABLES
  mem,      \* aff_info_state in main memory
  line,     \* the cache line of it: its value, or "absent"
  dirty,    \* the line has been written and not cleaned
  lock,     \* psci_spin_lock_cpu of the target: its holder, or "free"
  powerOn,  \* the power controller was told to start the target
  call,     \* where each caller is in psci_cpu_on_start or psci_affinity_info
  boot,     \* where the target is, from CPU_OFF to psci_set_pwr_domains_to_run
  failed,   \* history: whether pwr_domain_on has failed
  late      \* history: the calls that flushed the line since the target is down

vars == <<mem, line, dirty, lock, powerOn, call, boot, late, failed>>
word == <<mem, line, dirty>>

Aff == {"ON", "OFF", "ON_PENDING"}

CallAt ==
  {"ns", "info_flush", "info_read", "flush", "validate", "write", "clean", "reread",
   "rewrite", "reclean", "confirm", "power", "restore", "restore_clean", "unlock", "assert"}
BootAt ==
  {"on", "off_flush", "off_write", "off_inv", "down", "entry", "kind", "sync", "run",
   "run_flush", "resume", "panic", "assert"}

TypeOK ==
  /\ mem \in Aff
  /\ line \in Aff \cup {"absent"}
  /\ dirty \in BOOLEAN /\ (dirty => line # "absent")
  /\ lock \in Caller \cup {"free"}
  /\ powerOn \in BOOLEAN
  /\ call \in [Caller -> CallAt]
  /\ boot \in BootAt
  /\ late \subseteq Caller
  /\ failed \in BOOLEAN

(* psci_init_pwr_domain_node, cleaned to memory: the target is off.        *)
Init ==
  /\ mem = "OFF" /\ line = "absent" /\ dirty = FALSE
  /\ lock = "free" /\ powerOn = FALSE
  /\ call = [c \in Caller |-> "ns"]
  /\ boot = "down"
  /\ late = {} /\ failed = FALSE

-----------------------------------------------------------------------------
(* The word *)

(* What a load with the cache on returns; it fills the line.               *)
Value == IF line = "absent" THEN mem ELSE line
Load == line' = Value /\ UNCHANGED <<mem, dirty>>

(* A store with the cache on.                                              *)
Store(v) == line' = v /\ dirty' = TRUE /\ UNCHANGED mem

(* A store with the cache off, which the line does not see.                *)
StoreUncached(v) == mem' = v /\ UNCHANGED <<line, dirty>>

(* flush_dcache_range: clean and invalidate, in every cache that is on.    *)
Flush ==
  /\ mem' = IF dirty THEN line ELSE mem
  /\ line' = "absent" /\ dirty' = FALSE

(* inv_dcache_range: what the line held is lost.                           *)
Invalidate == line' = "absent" /\ dirty' = FALSE /\ UNCHANGED mem

(* A cache that is on fetches the line on its own ...                      *)
Fill ==
  /\ line = "absent"
  /\ line' = mem
  /\ UNCHANGED <<mem, dirty, lock, powerOn, call, boot, late, failed>>

(* ... and makes room, writing the line back if it is dirty.               *)
Evict ==
  /\ line # "absent"
  /\ Flush
  /\ UNCHANGED <<lock, powerOn, call, boot, late, failed>>

-----------------------------------------------------------------------------
(* psci_cpu_on_start and psci_affinity_info *)

Goto(c, l) == call' = [call EXCEPT ![c] = l]

(* psci_spin_lock_cpu.                                                     *)
OnLock(c) ==
  /\ call[c] = "ns" /\ lock = "free"
  /\ lock' = c
  /\ Goto(c, "flush")
  /\ UNCHANGED <<word, powerOn, boot, late, failed>>

(* The call of c begins, as far as the target is concerned.                *)
Flushed(c) == late' = IF boot = "down" THEN late \cup {c} ELSE late

(* Faulty variant: reads a line that may be stale.                         *)
OnFlushNone(c) ==
  /\ call[c] = "flush"
  /\ Flushed(c)
  /\ Goto(c, "validate")
  /\ UNCHANGED <<word, lock, powerOn, boot, failed>>

(* The line may be stale: flush it before it is read.                      *)
OnFlush(c) ==
  /\ call[c] = "flush"
  /\ Flush /\ Flushed(c)
  /\ Goto(c, "validate")
  /\ UNCHANGED <<lock, powerOn, boot, failed>>

(* Faulty variant: turns on a CPU that has not finished turning off.       *)
OnValidateAny(c) ==
  /\ call[c] = "validate"
  /\ Load
  /\ Goto(c, IF Value = "ON_PENDING" THEN "unlock" ELSE "write")
  /\ UNCHANGED <<lock, powerOn, boot, late, failed>>

(* cpu_on_validate_state: only a CPU that is OFF can be turned on.         *)
OnValidate(c) ==
  /\ call[c] = "validate"
  /\ Load
  /\ Goto(c, IF Value = "OFF" THEN "write" ELSE "unlock")
  /\ UNCHANGED <<lock, powerOn, boot, late, failed>>

(* psci_set_aff_info_state_by_idx(ON_PENDING), at first or again.          *)
OnWrite(c) ==
  /\ \/ call[c] = "write" /\ Goto(c, "clean")
     \/ call[c] = "rewrite" /\ Goto(c, "reclean")
  /\ Store("ON_PENDING")
  /\ UNCHANGED <<lock, powerOn, boot, late, failed>>

(* flush_cpu_data_by_index, for the target reads memory when it boots.     *)
OnClean(c) ==
  /\ \/ call[c] = "clean" /\ Goto(c, "reread")
     \/ call[c] = "reclean" /\ Goto(c, "confirm")
     \/ call[c] = "restore_clean" /\ Goto(c, "unlock")
  /\ Flush
  /\ UNCHANGED <<lock, powerOn, boot, late, failed>>

(* Faulty variant: takes the update for granted.                           *)
OnRereadNone(c) ==
  /\ call[c] = "reread"
  /\ Goto(c, "power")
  /\ UNCHANGED <<word, lock, powerOn, boot, late, failed>>

(* Did the invalidation by the target undo the update?  Then once more.    *)
OnReread(c) ==
  /\ call[c] = "reread"
  /\ Load
  /\ Goto(c, CASE Value = "ON_PENDING" -> "power"
               [] Value = "OFF" -> "rewrite"
               [] OTHER -> "assert")
  /\ UNCHANGED <<lock, powerOn, boot, late, failed>>

(* The second update must have worked: assert.                             *)
OnConfirm(c) ==
  /\ call[c] = "confirm"
  /\ Load
  /\ Goto(c, IF Value = "ON_PENDING" THEN "power" ELSE "assert")
  /\ UNCHANGED <<lock, powerOn, boot, late, failed>>

(* pwr_domain_on succeeds ...                                              *)
OnPower(c) ==
  /\ call[c] = "power"
  /\ powerOn' = TRUE
  /\ Goto(c, "unlock")
  /\ UNCHANGED <<word, lock, boot, late, failed>>

(* ... or fails with PSCI_E_INTERN_FAIL, and the state is restored.        *)
OnFail(c) ==
  /\ call[c] = "power"
  /\ failed' = TRUE
  /\ Goto(c, "restore")
  /\ UNCHANGED <<word, lock, powerOn, boot, late>>

OnRestore(c) ==
  /\ call[c] = "restore"
  /\ Store("OFF")
  /\ Goto(c, "restore_clean")
  /\ UNCHANGED <<lock, powerOn, boot, late, failed>>

OnUnlock(c) ==
  /\ call[c] = "unlock"
  /\ lock' = "free"
  /\ Goto(c, "ns")
  /\ UNCHANGED <<word, powerOn, boot, late, failed>>

(* psci_affinity_info flushes the line and reads it, without the lock.     *)
AffinityInfo(c) ==
  /\ call[c] = "ns"
  /\ Goto(c, "info_flush")
  /\ UNCHANGED <<word, lock, powerOn, boot, late, failed>>

InfoFlush(c) ==
  /\ call[c] = "info_flush"
  /\ Flush /\ Flushed(c)
  /\ Goto(c, "info_read")
  /\ UNCHANGED <<lock, powerOn, boot, failed>>

InfoRead(c) ==
  /\ call[c] = "info_read"
  /\ Load
  /\ Goto(c, "ns")
  /\ UNCHANGED <<lock, powerOn, boot, late, failed>>

-----------------------------------------------------------------------------
(* The target *)

(* CPU_OFF, up to psci_do_pwrdown_sequence: from here the cache is off.    *)
CpuOff ==
  /\ boot = "on"
  /\ boot' = "off_flush"
  /\ UNCHANGED <<word, lock, powerOn, call, late, failed>>

(* psci_flush_cpu_data: no dirty line may be written back later on.        *)
OffFlush ==
  /\ boot = "off_flush"
  /\ Flush \/ UNCHANGED word
  /\ boot' = "off_write"
  /\ UNCHANGED <<lock, powerOn, call, late, failed>>

(* psci_set_aff_info_state(OFF), to memory; psci_dsbish.                   *)
OffWrite ==
  /\ boot = "off_write"
  /\ StoreUncached("OFF")
  /\ boot' = "off_inv"
  /\ UNCHANGED <<lock, powerOn, call, late, failed>>

(* psci_inv_cpu_data, and the last WFI.                                    *)
OffInv ==
  /\ boot = "off_inv"
  /\ Invalidate \/ UNCHANGED word
  /\ boot' = "down"
  /\ UNCHANGED <<lock, powerOn, call, late, failed>>

(* The power controller starts the target, even before the last WFI.       *)
PowerUp ==
  /\ powerOn /\ boot \in {"off_inv", "down"}
  /\ powerOn' = FALSE
  /\ boot' = "entry"
  /\ late' = {}
  /\ UNCHANGED <<word, lock, call, failed>>

(* psci_warmboot_entrypoint panics if the state is OFF ...                 *)
WarmBoot ==
  /\ boot = "entry"
  /\ boot' = IF mem = "OFF" THEN "panic" ELSE "kind"
  /\ UNCHANGED <<word, lock, powerOn, call, late, failed>>

(* ... and, with the domain locks, takes any but ON_PENDING for a resume.  *)
WarmBootKind ==
  /\ boot = "kind"
  /\ boot' = IF mem = "ON_PENDING" THEN "sync" ELSE "resume"
  /\ UNCHANGED <<word, lock, powerOn, call, late, failed>>

(* psci_cpu_on_finish turns the cache on, waits for the caller, asserts.   *)
OnFinish ==
  /\ boot = "sync" /\ lock = "free"
  /\ Load
  /\ boot' = IF Value = "ON_PENDING" THEN "run" ELSE "assert"
  /\ UNCHANGED <<lock, powerOn, call, late, failed>>

(* psci_set_pwr_domains_to_run.                                            *)
SetToRun ==
  /\ boot = "run"
  /\ Store("ON")
  /\ boot' = "run_flush"
  /\ UNCHANGED <<lock, powerOn, call, late, failed>>

(* Faulty variant: leaves ON in the cache only.                            *)
RunFlushNone ==
  /\ boot = "run_flush"
  /\ boot' = "on"
  /\ UNCHANGED <<word, lock, powerOn, call, late, failed>>

RunFlush ==
  /\ boot = "run_flush"
  /\ Flush
  /\ boot' = "on"
  /\ UNCHANGED <<lock, powerOn, call, late, failed>>

-----------------------------------------------------------------------------
Next ==
  \/ Fill \/ Evict
  \/ CpuOff \/ OffFlush \/ OffWrite \/ OffInv
  \/ PowerUp \/ WarmBoot \/ WarmBootKind \/ OnFinish \/ SetToRun \/ RunFlush
  \/ \E c \in Caller :
       \/ OnLock(c) \/ OnFlush(c) \/ OnValidate(c) \/ OnWrite(c) \/ OnClean(c) \/ OnReread(c)
       \/ OnConfirm(c) \/ OnPower(c) \/ OnFail(c) \/ OnRestore(c) \/ OnUnlock(c)
       \/ AffinityInfo(c) \/ InfoFlush(c) \/ InfoRead(c)

Spec == Init /\ [][Next]_vars

-----------------------------------------------------------------------------
(* The inductive invariant *)

(* A caller of CPU_ON between its validation and its unlock.               *)
Changing ==
  {"write", "clean", "reread", "rewrite", "reclean", "confirm", "power", "restore", "restore_clean"}

(* The spin lock says who is in psci_cpu_on_start.                         *)
LockOK ==
  \A c \in Caller : lock = c <=> call[c] \in Changing \cup {"flush", "validate", "unlock"}

(* A clean line is as memory, but for the ON that the target has just      *)
(* overwritten in memory and not invalidated.  A dirty one is about to be  *)
(* cleaned.                                                                *)
LineOK ==
  /\ ~dirty => line \in {"absent", mem} \/ (boot \in {"off_inv", "down"} /\ line = "ON" /\ mem = "OFF")
  /\ dirty => \/ boot = "run_flush"
              \/ lock \in Caller /\ call[lock] \in {"clean", "reclean", "restore_clean"}

(* The target owns the word unless it is off and not being started.        *)
BootOK ==
  /\ boot \in {"on", "off_flush", "off_write"} => mem = "ON" /\ ~dirty
  /\ boot = "run_flush" => (line = "ON" /\ dirty) \/ (mem = "ON" /\ ~dirty)
  /\ boot \in {"off_inv", "down"} => mem # "ON" /\ (dirty => line # "ON")
  /\ boot \in {"entry", "kind", "sync", "run"} \/ powerOn => mem = "ON_PENDING" /\ ~dirty
  /\ powerOn => boot \in {"off_inv", "down"}
  /\ late # {} => boot = "down" /\ line # "ON"

(* Where an update of CPU_ON is: in the line until it is cleaned, unless   *)
(* the target has invalidated it, which it does once.                      *)
CallOK(c) ==
  /\ call[c] \in Changing => boot \in {"off_inv", "down"} /\ ~powerOn /\ line # "ON"
  /\ call[c] \in {"write", "rewrite"} => mem = "OFF"
  /\ call[c] = "rewrite" => boot = "down"
  /\ call[c] = "clean" /\ boot = "off_inv" => dirty \/ mem = "ON_PENDING"
  /\ call[c] \in {"clean", "reclean"} /\ dirty => line = "ON_PENDING"
  /\ call[c] = "reread" /\ boot = "off_inv" => mem = "ON_PENDING"
  /\ call[c] = "reclean" => boot = "down" /\ (dirty \/ mem = "ON_PENDING")
  /\ call[c] \in {"confirm", "power", "restore"} => mem = "ON_PENDING"
  /\ call[c] \in {"restore", "restore_clean"} => failed

(* A CPU is left ON_PENDING only by a CPU_ON that failed.                  *)
PendingOK ==
  mem = "ON_PENDING" /\ boot \in {"off_inv", "down"} /\ ~powerOn /\ ~failed =>
    lock \in Caller /\ call[lock] \in Changing

(* With it the target boots as it should and the updates of CPU_ON last,   *)
(* for any number of callers.                                              *)
IInv ==
  /\ TypeOK /\ LockOK /\ LineOK /\ BootOK /\ PendingOK
  /\ \A c \in Caller : CallOK(c) /\ call[c] # "assert"
  /\ boot \notin {"panic", "resume", "assert"}

-----------------------------------------------------------------------------
(* Correctness *)

(* A target that is powered on finds ON_PENDING in memory with its cache   *)
(* off, and again with its cache on: it neither panics, nor takes the      *)
(* power on for a resume, nor fails the assertion of psci_cpu_on_finish.   *)
(* This is what the cleaning and the retry of psci_cpu_on_start are for.   *)
BootFindsPending == boot \notin {"panic", "resume", "assert"}

(* The assertions of the retry hold: an update of psci_cpu_on_start that   *)
(* is undone leaves OFF, and it is undone at most once.                    *)
RetrySucceeds == \A c \in Caller : call[c] # "assert"

(* CPU_ON and AFFINITY_INFO calls that begin after the CPU has turned off  *)
(* do not find it ON, although a stale line may still say so: they flush   *)
(* the line first, and nothing brings the old value back.                  *)
OffIsSeen ==
  \A c \in late : call[c] \in {"validate", "info_read"} => Value # "ON"

(* When nobody turns the CPU on and it has turned off, it can be turned    *)
(* on: its state in memory is OFF, and no line can undo that.  This is so  *)
(* until a pwr_domain_on fails, which that of the A3700 never does: the    *)
(* OFF that psci_cpu_on_start then restores may be lost.                   *)
OffIsRestored ==
  boot = "down" /\ lock = "free" /\ ~powerOn /\ ~failed => mem = "OFF" /\ ~dirty
=============================================================================
