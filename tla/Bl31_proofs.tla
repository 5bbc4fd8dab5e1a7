----------------------------- MODULE Bl31_proofs ----------------------------
(***************************************************************************)
(* Proofs about two parts of BL31 that have no state in common.  First     *)
(* PsciAffInfo, for any number of callers: IInv is an invariant, and with  *)
(* it the properties of the protocol on aff_info_state.  Then Ehf, for     *)
(* every number of priorities, every nesting of interrupts, exceptions and *)
(* calls, and every mask of the normal world.                              *)
(***************************************************************************)
EXTENDS PsciAffInfo, Ehf, FiniteSetTheorems, SequenceTheorems, TLAPS

-----------------------------------------------------------------------------
(* PsciAffInfo                                                             *)

(* Initially the target is off and nobody calls.                           *)
LEMMA InitInv == Init => IInv
BY CallerAssumption DEF Init, IInv, TypeOK, LockOK, LineOK, BootOK, PendingOK, CallOK, Aff, CallAt,
   BootAt, Changing

(* The caches, on their own.                                              *)
LEMMA CacheInv ==
  ASSUME IInv, 
         \/ Fill \/ Evict
  PROVE  IInv'
<1> USE CallerAssumption DEF IInv, TypeOK, Changing, Aff, CallAt, BootAt
<1> USE DEF Load, Value, Store, StoreUncached, Flush, Invalidate, Flushed, Goto, word
<1>1. CASE Fill
  <2> USE <1>1 DEF Fill
  <2>1. TypeOK' /\ boot' \notin {"panic", "resume", "assert"}
    BY DEF LineOK, BootOK
  <2>2. LockOK'
    BY DEF LockOK
  <2>3. LineOK'
    BY DEF LockOK, LineOK, BootOK, CallOK
  <2>4. BootOK'
    BY DEF LockOK, LineOK, BootOK, CallOK
  <2>5. PendingOK'
    BY DEF LockOK, LineOK, BootOK, CallOK, PendingOK
  <2>6. ASSUME NEW d \in Caller PROVE CallOK(d)' /\ call'[d] # "assert"
    BY DEF LockOK, LineOK, BootOK, CallOK
  <2> QED
    BY <2>1, <2>2, <2>3, <2>4, <2>5, <2>6
<1>2. CASE Evict
  <2> USE <1>2 DEF Evict
  <2>1. TypeOK' /\ boot' \notin {"panic", "resume", "assert"}
    BY DEF LineOK, BootOK
  <2>2. LockOK'
    BY DEF LockOK
  <2>3. LineOK'
    BY DEF LockOK, LineOK, BootOK, CallOK
  <2>4. BootOK'
    BY DEF LockOK, LineOK, BootOK, CallOK
  <2>5. PendingOK'
    BY DEF LockOK, LineOK, BootOK, CallOK, PendingOK
  <2>6. ASSUME NEW d \in Caller PROVE CallOK(d)' /\ call'[d] # "assert"
    BY DEF LockOK, LineOK, BootOK, CallOK
  <2> QED
    BY <2>1, <2>2, <2>3, <2>4, <2>5, <2>6
<1> QED
  BY <1>1, <1>2

(* The steps of the target.                                                *)
LEMMA TargetInv ==
  ASSUME IInv, 
         \/ CpuOff \/ OffFlush \/ OffWrite \/ OffInv \/ PowerUp \/ WarmBoot
         \/ WarmBootKind \/ OnFinish \/ SetToRun \/ RunFlush
  PROVE  IInv'
<1> USE CallerAssumption DEF IInv, TypeOK, Changing, Aff, CallAt, BootAt
<1> USE DEF Load, Value, Store, StoreUncached, Flush, Invalidate, Flushed, Goto, word
<1>1. CASE CpuOff
  <2> USE <1>1 DEF CpuOff
  <2>1. TypeOK' /\ boot' \notin {"panic", "resume", "assert"}
    BY DEF LineOK, BootOK
  <2>2. LockOK'
    BY DEF LockOK
  <2>3. LineOK'
    BY DEF LockOK, LineOK, BootOK, CallOK
  <2>4. BootOK'
    BY DEF LockOK, LineOK, BootOK, CallOK
  <2>5. PendingOK'
    BY DEF LockOK, LineOK, BootOK, CallOK, PendingOK
  <2>6. ASSUME NEW d \in Caller PROVE CallOK(d)' /\ call'[d] # "assert"
    BY DEF LockOK, LineOK, BootOK, CallOK
  <2> QED
    BY <2>1, <2>2, <2>3, <2>4, <2>5, <2>6
<1>2. CASE OffFlush
  <2> USE <1>2 DEF OffFlush
  <2>1. TypeOK' /\ boot' \notin {"panic", "resume", "assert"}
    <3>1. CASE Flush
      BY <3>1
    <3>2. CASE UNCHANGED word
      BY <3>2
    <3> QED
      BY <3>1, <3>2
  <2>2. LockOK'
    BY DEF LockOK
  <2>3. LineOK'
    BY DEF LockOK, LineOK, BootOK, CallOK
  <2>4. BootOK'
    BY DEF LockOK, LineOK, BootOK, CallOK
  <2>5. PendingOK'
    BY DEF LockOK, LineOK, BootOK, CallOK, PendingOK
  <2>6. ASSUME NEW d \in Caller PROVE CallOK(d)' /\ call'[d] # "assert"
    BY DEF LockOK, LineOK, BootOK, CallOK
  <2> QED
    BY <2>1, <2>2, <2>3, <2>4, <2>5, <2>6
<1>3. CASE OffWrite
  <2> USE <1>3 DEF OffWrite
  <2>1. TypeOK' /\ boot' \notin {"panic", "resume", "assert"}
    BY DEF LineOK, BootOK
  <2>2. LockOK'
    BY DEF LockOK
  <2>3. LineOK'
    BY DEF LockOK, LineOK, BootOK, CallOK
  <2>4. BootOK'
    BY DEF LockOK, LineOK, BootOK, CallOK
  <2>5. PendingOK'
    BY DEF LockOK, LineOK, BootOK, CallOK, PendingOK
  <2>6. ASSUME NEW d \in Caller PROVE CallOK(d)' /\ call'[d] # "assert"
    BY DEF LockOK, LineOK, BootOK, CallOK
  <2> QED
    BY <2>1, <2>2, <2>3, <2>4, <2>5, <2>6
<1>4. CASE OffInv
  <2> USE <1>4 DEF OffInv
  <2>1. TypeOK' /\ boot' \notin {"panic", "resume", "assert"}
    <3>1. CASE Invalidate
      BY <3>1
    <3>2. CASE UNCHANGED word
      BY <3>2
    <3> QED
      BY <3>1, <3>2
  <2>2. LockOK'
    BY DEF LockOK
  <2>3. LineOK'
    BY DEF LockOK, LineOK, BootOK, CallOK
  <2>4. BootOK'
    BY DEF LockOK, LineOK, BootOK, CallOK
  <2>5. PendingOK'
    BY DEF LockOK, LineOK, BootOK, CallOK, PendingOK
  <2>6. ASSUME NEW d \in Caller PROVE CallOK(d)' /\ call'[d] # "assert"
    BY DEF LockOK, LineOK, BootOK, CallOK
  <2> QED
    BY <2>1, <2>2, <2>3, <2>4, <2>5, <2>6
<1>5. CASE PowerUp
  <2> USE <1>5 DEF PowerUp
  <2>1. TypeOK' /\ boot' \notin {"panic", "resume", "assert"}
    BY DEF LineOK, BootOK
  <2>2. LockOK'
    BY DEF LockOK
  <2>3. LineOK'
    BY DEF LockOK, LineOK, BootOK, CallOK
  <2>4. BootOK'
    BY DEF LockOK, LineOK, BootOK, CallOK
  <2>5. PendingOK'
    BY DEF LockOK, LineOK, BootOK, CallOK, PendingOK
  <2>6. ASSUME NEW d \in Caller PROVE CallOK(d)' /\ call'[d] # "assert"
    BY DEF LockOK, LineOK, BootOK, CallOK
  <2> QED
    BY <2>1, <2>2, <2>3, <2>4, <2>5, <2>6
<1>6. CASE WarmBoot
  <2> USE <1>6 DEF WarmBoot
  <2>1. TypeOK' /\ boot' \notin {"panic", "resume", "assert"}
    BY DEF LineOK, BootOK
  <2>2. LockOK'
    BY DEF LockOK
  <2>3. LineOK'
    BY DEF LockOK, LineOK, BootOK, CallOK
  <2>4. BootOK'
    BY DEF LockOK, LineOK, BootOK, CallOK
  <2>5. PendingOK'
    BY DEF LockOK, LineOK, BootOK, CallOK, PendingOK
  <2>6. ASSUME NEW d \in Caller PROVE CallOK(d)' /\ call'[d] # "assert"
    BY DEF LockOK, LineOK, BootOK, CallOK
  <2> QED
    BY <2>1, <2>2, <2>3, <2>4, <2>5, <2>6
<1>7. CASE WarmBootKind
  <2> USE <1>7 DEF WarmBootKind
  <2>1. TypeOK' /\ boot' \notin {"panic", "resume", "assert"}
    BY DEF LineOK, BootOK
  <2>2. LockOK'
    BY DEF LockOK
  <2>3. LineOK'
    BY DEF LockOK, LineOK, BootOK, CallOK
  <2>4. BootOK'
    BY DEF LockOK, LineOK, BootOK, CallOK
  <2>5. PendingOK'
    BY DEF LockOK, LineOK, BootOK, CallOK, PendingOK
  <2>6. ASSUME NEW d \in Caller PROVE CallOK(d)' /\ call'[d] # "assert"
    BY DEF LockOK, LineOK, BootOK, CallOK
  <2> QED
    BY <2>1, <2>2, <2>3, <2>4, <2>5, <2>6
<1>8. CASE OnFinish
  <2> USE <1>8 DEF OnFinish
  <2>1. TypeOK' /\ boot' \notin {"panic", "resume", "assert"}
    BY DEF LineOK, BootOK
  <2>2. LockOK'
    BY DEF LockOK
  <2>3. LineOK'
    BY DEF LockOK, LineOK, BootOK, CallOK
  <2>4. BootOK'
    BY DEF LockOK, LineOK, BootOK, CallOK
  <2>5. PendingOK'
    BY DEF LockOK, LineOK, BootOK, CallOK, PendingOK
  <2>6. ASSUME NEW d \in Caller PROVE CallOK(d)' /\ call'[d] # "assert"
    BY DEF LockOK, LineOK, BootOK, CallOK
  <2> QED
    BY <2>1, <2>2, <2>3, <2>4, <2>5, <2>6
<1>9. CASE SetToRun
  <2> USE <1>9 DEF SetToRun
  <2>1. TypeOK' /\ boot' \notin {"panic", "resume", "assert"}
    BY DEF LineOK, BootOK
  <2>2. LockOK'
    BY DEF LockOK
  <2>3. LineOK'
    BY DEF LockOK, LineOK, BootOK, CallOK
  <2>4. BootOK'
    BY DEF LockOK, LineOK, BootOK, CallOK
  <2>5. PendingOK'
    BY DEF LockOK, LineOK, BootOK, CallOK, PendingOK
  <2>6. ASSUME NEW d \in Caller PROVE CallOK(d)' /\ call'[d] # "assert"
    BY DEF LockOK, LineOK, BootOK, CallOK
  <2> QED
    BY <2>1, <2>2, <2>3, <2>4, <2>5, <2>6
<1>10. CASE RunFlush
  <2> USE <1>10 DEF RunFlush
  <2>1. TypeOK' /\ boot' \notin {"panic", "resume", "assert"}
    BY DEF LineOK, BootOK
  <2>2. LockOK'
    BY DEF LockOK
  <2>3. LineOK'
    BY DEF LockOK, LineOK, BootOK, CallOK
  <2>4. BootOK'
    BY DEF LockOK, LineOK, BootOK, CallOK
  <2>5. PendingOK'
    BY DEF LockOK, LineOK, BootOK, CallOK, PendingOK
  <2>6. ASSUME NEW d \in Caller PROVE CallOK(d)' /\ call'[d] # "assert"
    BY DEF LockOK, LineOK, BootOK, CallOK
  <2> QED
    BY <2>1, <2>2, <2>3, <2>4, <2>5, <2>6
<1> QED
  BY <1>1, <1>2, <1>3, <1>4, <1>5, <1>6, <1>7, <1>8, <1>9, <1>10

(* The steps of a caller.                                                  *)
LEMMA CallerInv ==
  ASSUME IInv, NEW c \in Caller,
         \/ OnLock(c) \/ OnFlush(c) \/ OnValidate(c) \/ OnWrite(c) \/ OnClean(c)
         \/ OnReread(c) \/ OnConfirm(c) \/ OnPower(c) \/ OnFail(c) \/ OnRestore(c)
         \/ OnUnlock(c) \/ AffinityInfo(c) \/ InfoFlush(c) \/ InfoRead(c)
  PROVE  IInv'
<1> USE CallerAssumption DEF IInv, TypeOK, Changing, Aff, CallAt, BootAt
<1> USE DEF Load, Value, Store, StoreUncached, Flush, Invalidate, Flushed, Goto, word
<1>1. CASE OnLock(c)
  <2> USE <1>1 DEF OnLock
  <2>1. TypeOK' /\ boot' \notin {"panic", "resume", "assert"}
    BY DEF LineOK, BootOK
  <2>2. LockOK'
    BY DEF LockOK
  <2>3. LineOK'
    BY DEF LockOK, LineOK, BootOK, CallOK
  <2>4. BootOK'
    BY DEF LockOK, LineOK, BootOK, CallOK
  <2>5. PendingOK'
    BY DEF LockOK, LineOK, BootOK, CallOK, PendingOK
  <2>6. ASSUME NEW d \in Caller PROVE CallOK(d)' /\ call'[d] # "assert"
    BY DEF LockOK, LineOK, BootOK, CallOK
  <2> QED
    BY <2>1, <2>2, <2>3, <2>4, <2>5, <2>6
<1>2. CASE OnFlush(c)
  <2> USE <1>2 DEF OnFlush
  <2>1. TypeOK' /\ boot' \notin {"panic", "resume", "assert"}
    BY DEF LineOK, BootOK
  <2>2. LockOK'
    BY DEF LockOK
  <2>3. LineOK'
    BY DEF LockOK, LineOK, BootOK, CallOK
  <2>4. BootOK'
    BY DEF LockOK, LineOK, BootOK, CallOK
  <2>5. PendingOK'
    BY DEF LockOK, LineOK, BootOK, CallOK, PendingOK
  <2>6. ASSUME NEW d \in Caller PROVE CallOK(d)' /\ call'[d] # "assert"
    BY DEF LockOK, LineOK, BootOK, CallOK
  <2> QED
    BY <2>1, <2>2, <2>3, <2>4, <2>5, <2>6
<1>3. CASE OnValidate(c)
  <2> USE <1>3 DEF OnValidate
  <2>1. TypeOK' /\ boot' \notin {"panic", "resume", "assert"}
    BY DEF LineOK, BootOK
  <2>2. LockOK'
    BY DEF LockOK
  <2>3. LineOK'
    BY DEF LockOK, LineOK, BootOK, CallOK
  <2>4. BootOK'
    BY DEF LockOK, LineOK, BootOK, CallOK
  <2>5. PendingOK'
    BY DEF LockOK, LineOK, BootOK, CallOK, PendingOK
  <2>6. ASSUME NEW d \in Caller PROVE CallOK(d)' /\ call'[d] # "assert"
    BY DEF LockOK, LineOK, BootOK, CallOK
  <2> QED
    BY <2>1, <2>2, <2>3, <2>4, <2>5, <2>6
<1>4. CASE OnWrite(c)
  <2> USE <1>4 DEF OnWrite
  <2>1. TypeOK' /\ boot' \notin {"panic", "resume", "assert"}
    BY DEF LineOK, BootOK
  <2>2. LockOK'
    BY DEF LockOK
  <2>3. LineOK'
    BY DEF LockOK, LineOK, BootOK, CallOK
  <2>4. BootOK'
    BY DEF LockOK, LineOK, BootOK, CallOK
  <2>5. PendingOK'
    BY DEF LockOK, LineOK, BootOK, CallOK, PendingOK
  <2>6. ASSUME NEW d \in Caller PROVE CallOK(d)' /\ call'[d] # "assert"
    BY DEF LockOK, LineOK, BootOK, CallOK
  <2> QED
    BY <2>1, <2>2, <2>3, <2>4, <2>5, <2>6
<1>5. CASE OnClean(c)
  <2> USE <1>5 DEF OnClean
  <2>1. TypeOK' /\ boot' \notin {"panic", "resume", "assert"}
    BY DEF LineOK, BootOK
  <2>2. LockOK'
    BY DEF LockOK
  <2>3. LineOK'
    BY DEF LockOK, LineOK, BootOK, CallOK
  <2>4. BootOK'
    BY DEF LockOK, LineOK, BootOK, CallOK
  <2>5. PendingOK'
    BY DEF LockOK, LineOK, BootOK, CallOK, PendingOK
  <2>6. ASSUME NEW d \in Caller PROVE CallOK(d)' /\ call'[d] # "assert"
    BY DEF LockOK, LineOK, BootOK, CallOK
  <2> QED
    BY <2>1, <2>2, <2>3, <2>4, <2>5, <2>6
<1>6. CASE OnReread(c)
  <2> USE <1>6 DEF OnReread
  <2>1. TypeOK' /\ boot' \notin {"panic", "resume", "assert"}
    BY DEF LineOK, BootOK
  <2>2. LockOK'
    BY DEF LockOK, LineOK, BootOK, CallOK
  <2>3. LineOK'
    BY DEF LockOK, LineOK, BootOK, CallOK
  <2>4. BootOK'
    BY DEF LockOK, LineOK, BootOK, CallOK
  <2>5. PendingOK'
    BY DEF LockOK, LineOK, BootOK, CallOK, PendingOK
  <2>6. ASSUME NEW d \in Caller PROVE CallOK(d)' /\ call'[d] # "assert"
    BY DEF LockOK, LineOK, BootOK, CallOK
  <2> QED
    BY <2>1, <2>2, <2>3, <2>4, <2>5, <2>6
<1>7. CASE OnConfirm(c)
  <2> USE <1>7 DEF OnConfirm
  <2>1. TypeOK' /\ boot' \notin {"panic", "resume", "assert"}
    BY DEF LineOK, BootOK
  <2>2. LockOK'
    BY DEF LockOK, LineOK, BootOK, CallOK
  <2>3. LineOK'
    BY DEF LockOK, LineOK, BootOK, CallOK
  <2>4. BootOK'
    BY DEF LockOK, LineOK, BootOK, CallOK
  <2>5. PendingOK'
    BY DEF LockOK, LineOK, BootOK, CallOK, PendingOK
  <2>6. ASSUME NEW d \in Caller PROVE CallOK(d)' /\ call'[d] # "assert"
    BY DEF LockOK, LineOK, BootOK, CallOK
  <2> QED
    BY <2>1, <2>2, <2>3, <2>4, <2>5, <2>6
<1>8. CASE OnPower(c)
  <2> USE <1>8 DEF OnPower
  <2>1. TypeOK' /\ boot' \notin {"panic", "resume", "assert"}
    BY DEF LineOK, BootOK
  <2>2. LockOK'
    BY DEF LockOK
  <2>3. LineOK'
    BY DEF LockOK, LineOK, BootOK, CallOK
  <2>4. BootOK'
    BY DEF LockOK, LineOK, BootOK, CallOK
  <2>5. PendingOK'
    BY DEF LockOK, LineOK, BootOK, CallOK, PendingOK
  <2>6. ASSUME NEW d \in Caller PROVE CallOK(d)' /\ call'[d] # "assert"
    BY DEF LockOK, LineOK, BootOK, CallOK
  <2> QED
    BY <2>1, <2>2, <2>3, <2>4, <2>5, <2>6
<1>9. CASE OnFail(c)
  <2> USE <1>9 DEF OnFail
  <2>1. TypeOK' /\ boot' \notin {"panic", "resume", "assert"}
    BY DEF LineOK, BootOK
  <2>2. LockOK'
    BY DEF LockOK
  <2>3. LineOK'
    BY DEF LockOK, LineOK, BootOK, CallOK
  <2>4. BootOK'
    BY DEF LockOK, LineOK, BootOK, CallOK
  <2>5. PendingOK'
    BY DEF LockOK, LineOK, BootOK, CallOK, PendingOK
  <2>6. ASSUME NEW d \in Caller PROVE CallOK(d)' /\ call'[d] # "assert"
    BY DEF LockOK, LineOK, BootOK, CallOK
  <2> QED
    BY <2>1, <2>2, <2>3, <2>4, <2>5, <2>6
<1>10. CASE OnRestore(c)
  <2> USE <1>10 DEF OnRestore
  <2>1. TypeOK' /\ boot' \notin {"panic", "resume", "assert"}
    BY DEF LineOK, BootOK
  <2>2. LockOK'
    BY DEF LockOK
  <2>3. LineOK'
    BY DEF LockOK, LineOK, BootOK, CallOK
  <2>4. BootOK'
    BY DEF LockOK, LineOK, BootOK, CallOK
  <2>5. PendingOK'
    BY DEF LockOK, LineOK, BootOK, CallOK, PendingOK
  <2>6. ASSUME NEW d \in Caller PROVE CallOK(d)' /\ call'[d] # "assert"
    BY DEF LockOK, LineOK, BootOK, CallOK
  <2> QED
    BY <2>1, <2>2, <2>3, <2>4, <2>5, <2>6
<1>11. CASE OnUnlock(c)
  <2> USE <1>11 DEF OnUnlock
  <2>1. TypeOK' /\ boot' \notin {"panic", "resume", "assert"}
    BY DEF LineOK, BootOK
  <2>2. LockOK'
    BY DEF LockOK
  <2>3. LineOK'
    BY DEF LockOK, LineOK, BootOK, CallOK
  <2>4. BootOK'
    BY DEF LockOK, LineOK, BootOK, CallOK
  <2>5. PendingOK'
    BY DEF LockOK, LineOK, BootOK, CallOK, PendingOK
  <2>6. ASSUME NEW d \in Caller PROVE CallOK(d)' /\ call'[d] # "assert"
    BY DEF LockOK, LineOK, BootOK, CallOK
  <2> QED
    BY <2>1, <2>2, <2>3, <2>4, <2>5, <2>6
<1>12. CASE AffinityInfo(c)
  <2> USE <1>12 DEF AffinityInfo
  <2>1. TypeOK' /\ boot' \notin {"panic", "resume", "assert"}
    BY DEF LineOK, BootOK
  <2>2. LockOK'
    BY DEF LockOK
  <2>3. LineOK'
    BY DEF LockOK, LineOK, BootOK, CallOK
  <2>4. BootOK'
    BY DEF LockOK, LineOK, BootOK, CallOK
  <2>5. PendingOK'
    BY DEF LockOK, LineOK, BootOK, CallOK, PendingOK
  <2>6. ASSUME NEW d \in Caller PROVE CallOK(d)' /\ call'[d] # "assert"
    BY DEF LockOK, LineOK, BootOK, CallOK
  <2> QED
    BY <2>1, <2>2, <2>3, <2>4, <2>5, <2>6
<1>13. CASE InfoFlush(c)
  <2> USE <1>13 DEF InfoFlush
  <2>1. TypeOK' /\ boot' \notin {"panic", "resume", "assert"}
    BY DEF LineOK, BootOK
  <2>2. LockOK'
    BY DEF LockOK
  <2>3. LineOK'
    BY DEF LockOK, LineOK, BootOK, CallOK
  <2>4. BootOK'
    BY DEF LockOK, LineOK, BootOK, CallOK
  <2>5. PendingOK'
    BY DEF LockOK, LineOK, BootOK, CallOK, PendingOK
  <2>6. ASSUME NEW d \in Caller PROVE CallOK(d)' /\ call'[d] # "assert"
    BY DEF LockOK, LineOK, BootOK, CallOK
  <2> QED
    BY <2>1, <2>2, <2>3, <2>4, <2>5, <2>6
<1>14. CASE InfoRead(c)
  <2> USE <1>14 DEF InfoRead
  <2>1. TypeOK' /\ boot' \notin {"panic", "resume", "assert"}
    BY DEF LineOK, BootOK
  <2>2. LockOK'
    BY DEF LockOK
  <2>3. LineOK'
    BY DEF LockOK, LineOK, BootOK, CallOK
  <2>4. BootOK'
    BY DEF LockOK, LineOK, BootOK, CallOK
  <2>5. PendingOK'
    BY DEF LockOK, LineOK, BootOK, CallOK, PendingOK
  <2>6. ASSUME NEW d \in Caller PROVE CallOK(d)' /\ call'[d] # "assert"
    BY DEF LockOK, LineOK, BootOK, CallOK
  <2> QED
    BY <2>1, <2>2, <2>3, <2>4, <2>5, <2>6
<1> QED
  BY <1>1, <1>2, <1>3, <1>4, <1>5, <1>6, <1>7, <1>8, <1>9, <1>10, <1>11, <1>12, <1>13, <1>14

(* IInv is an invariant, for any number of callers.                        *)
THEOREM InductiveInvariant == Spec => []IInv
<1>1. IInv /\ [Next]_vars => IInv'
  <2>1. IInv /\ Next => IInv'
    BY CacheInv, TargetInv, CallerInv DEF Next
  <2>2. IInv /\ UNCHANGED vars => IInv'
    BY DEF vars, IInv, TypeOK, LockOK, LineOK, BootOK, PendingOK, CallOK, Changing
  <2> QED
    BY <2>1, <2>2
<1> QED
  BY <1>1, InitInv, PTL DEF Spec

(* A target that is powered on always finds ON_PENDING.                    *)
THEOREM BootsFindPending == Spec => []BootFindsPending
<1>1. IInv => BootFindsPending
  BY DEF IInv, BootFindsPending
<1> QED
  BY <1>1, InductiveInvariant, PTL

(* The assertions of the retry in psci_cpu_on_start never fail.            *)
THEOREM RetriesSucceed == Spec => []RetrySucceeds
<1>1. IInv => RetrySucceeds
  BY DEF IInv, RetrySucceeds
<1> QED
  BY <1>1, InductiveInvariant, PTL

(* A call that begins once the CPU has turned off does not find it ON.     *)
THEOREM OffStaysSeen == Spec => []OffIsSeen
<1>1. IInv => OffIsSeen
  BY DEF IInv, OffIsSeen, BootOK, Value
<1> QED
  BY <1>1, InductiveInvariant, PTL

(* While pwr_domain_on has not failed, and on the A3700 it never does, a   *)
(* CPU that is off and that nobody turns on can be turned on.              *)
THEOREM OffStaysRestored == Spec => []OffIsRestored
<1>1. IInv => OffIsRestored
  BY CallerAssumption DEF IInv, TypeOK, Aff, OffIsRestored, PendingOK, LineOK, BootOK, Value, Changing
<1> QED
  BY <1>1, InductiveInvariant, PTL

-----------------------------------------------------------------------------
(* Ehf                                                                     *)

LEMMA Priorities ==
  /\ L \in Nat /\ L > 0 /\ HighestNs = L + 1 /\ Idle \in Nat /\ HighestNs < Idle
  /\ \A p \in Secure : p \in Nat /\ 1 <= p /\ p <= L
  /\ \A m \in NsMasks : m \in Nat /\ HighestNs <= m /\ m < Idle
  /\ \A p \in Nat : 1 <= p /\ p <= L => p \in Secure
<1>1. L \in Nat /\ L > 0 /\ HighestNs = L + 1 /\ Idle \in Nat
  BY PriorityAssumption DEF HighestNs
<1>2. \A m \in NsMasks : m \in Nat /\ HighestNs <= m /\ m < Idle
  BY <1>1, MaskAssumption
<1>3. PICK m \in NsMasks : TRUE
  BY MaskAssumption
<1> QED
  BY <1>1, <1>2, <1>3 DEF Secure

(* A set of numbers that is not empty has a least one.                     *)
LEMMA LeastIs ==
  ASSUME NEW S, S \subseteq Nat, S # {}
  PROVE  Least(S) \in S /\ \A y \in S : Least(S) <= y
<1> DEFINE R == OpToRel(<, Nat)
<1>1. IsWellFoundedOn(R, Nat)
  BY NatLessThanWellFounded
<1>2. \E x \in S : \A y \in S : ~ (<<y, x>> \in R)
  <2> HIDE DEF R
  <2> QED
    BY <1>1, WFMin
<1>3. PICK x \in S : \A y \in S : ~ (y < x)
  BY <1>2 DEF OpToRel
<1>4. \A y \in S : x <= y
  BY <1>3
<1> QED
  BY <1>4 DEF Least

LEMMA DispatchesAre ==
  ASSUME WorkOK, NEW k \in {"intr", "sync"}
  PROVE  /\ Dispatches(k) \subseteq Secure /\ Dispatches(k) \subseteq Nat
         /\ \A n \in 1 .. Len(work) : work[n].kind = k => work[n].pri \in Dispatches(k)
         /\ \A p \in Dispatches(k) : \E n \in 1 .. Len(work) : work[n].kind = k /\ work[n].pri = p
<1>1. DOMAIN work = 1 .. Len(work)
  BY DEF WorkOK
<1>2. \A n \in 1 .. Len(work) : work[n].kind = k => work[n].pri \in Secure
  BY DEF WorkOK
<1> QED
  BY <1>1, <1>2, Priorities DEF Dispatches

(* The running priority is that of an interrupt, or idle.                  *)
LEMMA Running ==
  ASSUME WorkOK
  PROVE  /\ RunningPriority \in Nat /\ RunningPriority <= Idle
         /\ \A p \in Dispatches("intr") : RunningPriority <= p
         /\ RunningPriority \in Dispatches("intr") \cup {Idle}
         /\ RunningPriority \in Secure <=> Dispatches("intr") # {}
<1> DEFINE S == Dispatches("intr") \cup {Idle}
<1>1. Dispatches("intr") \subseteq Secure /\ Dispatches("intr") \subseteq Nat
  BY DispatchesAre
<1>2. S \subseteq Nat /\ S # {}
  BY <1>1, Priorities
<1>3. Least(S) \in S /\ \A y \in S : Least(S) <= y
  BY <1>2, LeastIs
<1>4. RunningPriority = Least(S)
  BY DEF RunningPriority
<1> HIDE DEF S
<1>5. Idle \notin Secure /\ \A p \in Dispatches("intr") : p < Idle
  BY <1>1, Priorities
<1>6. RunningPriority \in Nat /\ RunningPriority <= Idle /\ RunningPriority \in S
  BY <1>2, <1>3, <1>4 DEF S
<1>7. RunningPriority \in Secure => Dispatches("intr") # {}
  BY <1>5, <1>6 DEF S
<1>8. ASSUME NEW p \in Dispatches("intr")
      PROVE  RunningPriority <= p /\ RunningPriority \in Secure
  <2>1. RunningPriority <= p /\ p < Idle /\ p \in Nat
    BY <1>1, <1>3, <1>4, <1>5 DEF S
  <2>2. RunningPriority # Idle
    BY <1>6, <2>1, Priorities
  <2> QED
    BY <1>1, <1>6, <2>1, <2>2 DEF S
<1> QED
  BY <1>6, <1>7, <1>8 DEF S

(* Nothing is dispatched: at most one call is under way.                   *)
LEMMA Quiet ==
  ASSUME EhfIInv, RunningPriority \notin Secure, active = {}
  PROVE  /\ \A n \in 1 .. Len(work) : work[n].kind = "smc"
         /\ Len(work) \in {0, 1}
<1>1. WorkOK /\ Dispatches("sync") = {} /\ Dispatches("intr") = {} /\ Len(work) \in Nat
  BY Running DEF EhfIInv, MasksOK, WorkOK
<1>2. ASSUME NEW n \in 1 .. Len(work)
      PROVE  work[n].kind = "smc"
  <2>1. work[n] \in Frames
    BY <1>1, <1>2 DEF WorkOK
  <2>2. work[n].kind \in {"smc", "intr", "sync"}
    BY <2>1 DEF Frames
  <2> QED
    BY <1>1, <2>2, DispatchesAre
<1>3. ~ (Len(work) >= 2)
  <2> SUFFICES ASSUME Len(work) >= 2
               PROVE  FALSE
    OBVIOUS
  <2>1. 2 \in 2 .. Len(work) /\ 1 \in 1 .. Len(work) /\ 2 \in 1 .. Len(work) /\ 2 - 1 = 1
    BY <1>1
  <2> QED
    BY <1>1, <1>2, <2>1 DEF WorkOK
<1>4. Len(work) \in {0, 1}
  <2> DEFINE k == Len(work)
  <2>1. k \in Nat /\ ~ (k >= 2)
    BY <1>1, <1>3
  <2> HIDE DEF k
  <2>2. k \in {0, 1}
    BY <2>1
  <2> QED
    BY <2>2 DEF k
<1> QED
  BY <1>2, <1>4

-----------------------------------------------------------------------------
(* What comes and goes *)

(* A frame comes: a call that no other call is making, or a dispatch of a  *)
(* higher priority than those before.                                      *)
LEMMA Pushed ==
  ASSUME WorkOK, NEW f \in Frames, work' = Append(work, f),
         f.kind # "smc" => f.pri \in Secure,
         f.yields => work = << >> /\ f.kind = "smc",
         f.kind = "smc" => work = << >> \/ Top.kind # "smc",
         f.kind # "smc" =>
           \A n \in 1 .. Len(work) : work[n].kind # "smc" => f.pri < work[n].pri
  PROVE  /\ WorkOK'
         /\ Len(work') = Len(work) + 1 /\ work'[Len(work) + 1] = f
         /\ \A n \in 1 .. Len(work) : work'[n] = work[n]
<1>1. work \in Seq(Frames) /\ Len(work) \in Nat
  BY DEF WorkOK
<1>2. /\ work' \in Seq(Frames)
      /\ Len(work') = Len(work) + 1 /\ work'[Len(work) + 1] = f
      /\ \A n \in 1 .. Len(work) : work'[n] = work[n]
  BY <1>1
<1>3. ASSUME NEW n \in 1 .. Len(work')
      PROVE  /\ work'[n].kind # "smc" => work'[n].pri \in Secure
             /\ work'[n].yields => n = 1 /\ work'[n].kind = "smc"
  <2>1. CASE n \in 1 .. Len(work)
    BY <1>2, <2>1 DEF WorkOK
  <2>2. CASE n = Len(work) + 1
    BY <1>2, <2>2
  <2> QED
    BY <1>1, <1>2, <2>1, <2>2
<1>4. ASSUME NEW n \in 2 .. Len(work'), work'[n].kind = "smc"
      PROVE  work'[n - 1].kind # "smc"
  <2>1. CASE n \in 2 .. Len(work)
    <3>1. n \in 1 .. Len(work) /\ n - 1 \in 1 .. Len(work)
      BY <1>1, <2>1
    <3> QED
      BY <1>2, <1>4, <2>1, <3>1 DEF WorkOK
  <2>2. CASE n = Len(work) + 1
    <3>1. n - 1 = Len(work) /\ Len(work) \in 1 .. Len(work) /\ work # << >>
      BY <1>1, <1>4, <2>2
    <3> QED
      BY <1>2, <1>4, <2>2, <3>1 DEF Top
  <2> QED
    BY <1>1, <1>2, <2>1, <2>2
<1>5. ASSUME NEW m \in 1 .. Len(work'), NEW n \in 1 .. Len(work'), m < n,
             work'[m].kind # "smc", work'[n].kind # "smc"
      PROVE  work'[n].pri < work'[m].pri
  <2>1. CASE n \in 1 .. Len(work)
    <3>1. m \in 1 .. Len(work)
      BY <1>1, <1>5, <2>1
    <3> QED
      BY <1>2, <1>5, <2>1, <3>1 DEF WorkOK
  <2>2. CASE n = Len(work) + 1
    <3>1. m \in 1 .. Len(work)
      BY <1>1, <1>5, <2>2
    <3> QED
      BY <1>2, <1>5, <2>2, <3>1
  <2> QED
    BY <1>1, <1>2, <2>1, <2>2
<1> QED
  BY <1>2, <1>3, <1>4, <1>5 DEF WorkOK

(* The frame on top goes.                                                  *)
LEMMA Popped ==
  ASSUME WorkOK, work # << >>, Pop
  PROVE  /\ WorkOK'
         /\ Len(work) \in 1 .. Len(work) /\ Len(work') = Len(work) - 1
         /\ \A n \in 1 .. Len(work') : n \in 1 .. Len(work) /\ work'[n] = work[n]
<1>1. work \in Seq(Frames) /\ Len(work) \in Nat /\ Len(work) > 0
  BY DEF WorkOK
<1>2. \A n \in 1 .. Len(work) - 1 : work[n] \in Frames
  BY <1>1
<1>3. /\ work' \in Seq(Frames) /\ Len(work') = Len(work) - 1
      /\ \A n \in 1 .. Len(work) - 1 : work'[n] = work[n]
  <2> DEFINE k == Len(work) - 1
             t == SubSeq(work, 1, k)
  <2>1. k \in Nat /\ k \in Int /\ 1 \in Int
    BY <1>1
  <2>2. \A n \in 1 .. k : work[n] \in Frames
    BY <1>2
  <2> HIDE DEF k
  <2>3. /\ t \in Seq(Frames) /\ Len(t) = IF 1 <= k THEN k - 1 + 1 ELSE 0
        /\ \A n \in 1 .. k - 1 + 1 : t[n] = work[1 + n - 1]
    BY <2>1, <2>2, SubSeqProperties
  <2> HIDE DEF t
  <2>4. Len(t) = k /\ \A n \in 1 .. k : t[n] = work[n]
    BY <2>1, <2>3
  <2>5. work' = t
    BY DEF Pop, t, k
  <2> QED
    BY <2>3, <2>4, <2>5 DEF k
<1>4. \A n \in 1 .. Len(work') : n \in 1 .. Len(work) /\ work'[n] = work[n]
  BY <1>1, <1>3
<1>5. \A n \in 2 .. Len(work') : n \in 2 .. Len(work) /\ n - 1 \in 1 .. Len(work')
  BY <1>1, <1>3
<1>6. WorkOK'
  <2>1. \A n \in 1 .. Len(work') :
          /\ work'[n].kind # "smc" => work'[n].pri \in Secure
          /\ work'[n].yields => n = 1 /\ work'[n].kind = "smc"
    BY <1>4 DEF WorkOK
  <2>2. \A n \in 2 .. Len(work') : work'[n].kind = "smc" => work'[n - 1].kind # "smc"
    <3> SUFFICES ASSUME NEW n \in 2 .. Len(work'), work'[n].kind = "smc"
                 PROVE  work'[n - 1].kind # "smc"
      OBVIOUS
    <3>1. n \in 2 .. Len(work) /\ n - 1 \in 1 .. Len(work') /\ n \in 1 .. Len(work')
      BY <1>5
    <3>2. work'[n] = work[n] /\ work'[n - 1] = work[n - 1]
      BY <1>4, <3>1
    <3> QED
      BY <3>1, <3>2 DEF WorkOK
  <2>3. \A m, n \in 1 .. Len(work') :
          m < n /\ work'[m].kind # "smc" /\ work'[n].kind # "smc" => work'[n].pri < work'[m].pri
    BY <1>4 DEF WorkOK
  <2> QED
    BY <1>3, <2>1, <2>2, <2>3 DEF WorkOK
<1> QED
  BY <1>1, <1>3, <1>4, <1>6
LEMMA DispatchesPushed ==
  ASSUME WorkOK, WorkOK', NEW f \in Frames, NEW k \in {"intr", "sync"},
         Len(work') = Len(work) + 1, work'[Len(work) + 1] = f,
         \A n \in 1 .. Len(work) : work'[n] = work[n]
  PROVE  Dispatches(k)' = IF f.kind = k THEN Dispatches(k) \cup {f.pri} ELSE Dispatches(k)
<1>1. DOMAIN work = 1 .. Len(work) /\ DOMAIN work' = 1 .. Len(work') /\ Len(work) \in Nat
  BY DEF WorkOK
<1>2. \A n \in 1 .. Len(work') : n \in 1 .. Len(work) \/ n = Len(work) + 1
  BY <1>1
<1>3. \A n \in 1 .. Len(work) : n \in 1 .. Len(work')
  BY <1>1
<1>4. Len(work) + 1 \in 1 .. Len(work')
  BY <1>1
<1> QED
  BY <1>1, <1>2, <1>3, <1>4 DEF Dispatches

LEMMA DispatchesPopped ==
  ASSUME WorkOK, work # << >>, Pop, NEW k \in {"intr", "sync"}
  PROVE  Dispatches(k)' = IF Top.kind = k THEN Dispatches(k) \ {Top.pri} ELSE Dispatches(k)
<1>1. /\ WorkOK' /\ Len(work) \in 1 .. Len(work) /\ Len(work') = Len(work) - 1
      /\ \A n \in 1 .. Len(work') : n \in 1 .. Len(work) /\ work'[n] = work[n]
  BY Popped
<1>2. DOMAIN work = 1 .. Len(work) /\ DOMAIN work' = 1 .. Len(work') /\ Len(work) \in Nat
  BY <1>1 DEF WorkOK
<1>3. \A n \in 1 .. Len(work) : n \in 1 .. Len(work') \/ n = Len(work)
  BY <1>1, <1>2
<1>4. Top = work[Len(work)]
  BY DEF Top
<1>5. CASE Top.kind = k
  <2>1. \A n \in 1 .. Len(work') : work[n].kind = k => work[n].pri # Top.pri
    <3> SUFFICES ASSUME NEW n \in 1 .. Len(work'), work[n].kind = k
                 PROVE  work[n].pri # Top.pri
      OBVIOUS
    <3>1. n \in 1 .. Len(work) /\ n < Len(work)
      BY <1>1, <1>2
    <3>2. Top.pri < work[n].pri /\ Top.pri \in Secure /\ work[n].pri \in Secure
      BY <1>1, <1>4, <1>5, <3>1 DEF WorkOK
    <3> QED
      BY <3>2, Priorities
  <2>2. ASSUME NEW x \in Dispatches(k)'
        PROVE  x \in Dispatches(k) /\ x # Top.pri
    <3>1. PICK n \in 1 .. Len(work') : work'[n].kind = k /\ work'[n].pri = x
      BY <1>2 DEF Dispatches
    <3> QED
      BY <1>1, <1>2, <2>1, <3>1 DEF Dispatches
  <2>3. ASSUME NEW x \in Dispatches(k), x # Top.pri
        PROVE  x \in Dispatches(k)'
    <3>1. PICK n \in 1 .. Len(work) : work[n].kind = k /\ work[n].pri = x
      BY <1>2 DEF Dispatches
    <3>2. n \in 1 .. Len(work')
      BY <1>3, <1>4, <2>3, <3>1
    <3> QED
      BY <1>1, <1>2, <3>1, <3>2 DEF Dispatches
  <2> QED
    BY <1>5, <2>2, <2>3
<1>6. CASE Top.kind # k
  BY <1>1, <1>2, <1>3, <1>4, <1>6 DEF Dispatches
<1> QED
  BY <1>5, <1>6

(* A handler is running, or has been interrupted, and the call on top is   *)
(* one it made: the framework leaves the masks alone.                      *)
LEMMA Dispatching ==
  ASSUME EhfIInv, NEW n \in 1 .. Len(work), work[n].kind # "smc"
  PROVE  /\ RunningPriority \in Secure \/ active # {}
         /\ ~ NsPreemptionAllowed
         /\ ExitedNormalWorld => Keep
         /\ EnteringNormalWorld => Keep
<1>1. RunningPriority \in Secure \/ active # {}
  BY Quiet
<1> QED
  BY <1>1 DEF NsPreemptionAllowed, ExitedNormalWorld, EnteringNormalWorld

LEMMA Stashed ==
  ASSUME EhfIInv
  PROVE  /\ own \in Nat /\ own > 0 /\ HighestNs > 0 /\ HighestNs \in Nat
         /\ nsMask = 0 => BaseMask = own
         /\ nsMask # 0 => BaseMask = HighestNs /\ nsMask = own
         /\ BaseMask \in Nat /\ HighestNs <= BaseMask /\ BaseMask < Idle
         /\ pmr \in Nat /\ pmr > 0
         /\ work \in Seq(Frames) /\ Len(work) \in Nat
         /\ work # << >> => Len(work) \in 1 .. Len(work) /\ 1 \in 1 .. Len(work)
<1>1. EhfTypeOK /\ MasksOK /\ WorkOK
  BY DEF EhfIInv
<1>2. /\ own \in Nat /\ own > 0 /\ HighestNs > 0 /\ HighestNs \in Nat
      /\ HighestNs <= own /\ own < Idle /\ HighestNs < Idle
  BY <1>1, Priorities DEF EhfTypeOK
<1>3. /\ nsMask = 0 => BaseMask = own
      /\ nsMask # 0 => BaseMask = HighestNs /\ nsMask = own
  BY <1>1 DEF BaseMask, MasksOK
<1>4. BaseMask \in Nat /\ HighestNs <= BaseMask /\ BaseMask < Idle
  BY <1>2, <1>3
<1>5. pmr \in Nat /\ pmr > 0
  BY <1>1, Priorities DEF EhfTypeOK
<1>6. /\ work \in Seq(Frames) /\ Len(work) \in Nat
      /\ work # << >> => Len(work) \in 1 .. Len(work) /\ 1 \in 1 .. Len(work)
  BY <1>1 DEF WorkOK
<1> QED
  BY <1>2, <1>3, <1>4, <1>5, <1>6

(* Nothing is under way.                                                   *)
LEMMA NothingUnderWay ==
  ASSUME EhfIInv, work = << >>
  PROVE  /\ active = {} /\ RunningPriority = Idle /\ RunningPriority \notin Secure
         /\ nsMask = 0 /\ pmr = own
<1>1. WorkOK /\ MasksOK /\ Len(work) = 0
  BY DEF EhfIInv
<1>2. Dispatches("sync") = {} /\ Dispatches("intr") = {}
  <2>1. \A n \in 1 .. Len(work) : FALSE
    BY <1>1
  <2> QED
    BY <1>1, <2>1, DispatchesAre
<1> QED
  BY <1>1, <1>2, Running, Stashed DEF MasksOK
-----------------------------------------------------------------------------
(* The steps *)

(* A call that does not yield is the first thing under way.                *)
FirstIsFast == work # << >> /\ work[1].kind = "smc" /\ ~ work[1].yields

LEMMA KeepStep ==
  ASSUME EhfIInv, Keep, UNCHANGED own, WorkOK', Len(work') <= MaxDepth,
         Dispatches("sync")' = Dispatches("sync"), FirstIsFast' <=> FirstIsFast
  PROVE  EhfIInv'
<1>1. EhfTypeOK /\ MasksOK
  BY DEF EhfIInv
<1>2. UNCHANGED <<active, initMask, nsMask, pmr, own, panic>>
  BY DEF Keep, ehf
<1>3. EhfTypeOK'
  BY <1>1, <1>2 DEF EhfTypeOK
<1>4. BaseMask' = BaseMask
  BY <1>2 DEF BaseMask
<1>5. MasksOK'
  BY <1>1, <1>2, <1>4 DEF MasksOK, FirstIsFast
<1> QED
  BY <1>3, <1>5 DEF EhfIInv

(* A frame comes on top of others, which stay.                             *)
LEMMA FirstStays ==
  ASSUME WorkOK, WorkOK', work # << >>, Len(work') > 0,
         \A n \in 1 .. Len(work) : n \in 1 .. Len(work') => work'[n] = work[n]
  PROVE  FirstIsFast' <=> FirstIsFast
<1>1. 1 \in 1 .. Len(work) /\ 1 \in 1 .. Len(work') /\ work' # << >>
  BY DEF WorkOK
<1> QED
  BY <1>1 DEF FirstIsFast

LEMMA FastSmcStep ==
  ASSUME EhfIInv, FastSmc
  PROVE  EhfIInv'
<1> DEFINE f == [kind |-> "smc", pri |-> 0, yields |-> FALSE]
<1>1. EhfTypeOK /\ WorkOK /\ MasksOK
  BY DEF EhfIInv
<1>2. f \in Frames /\ f.kind = "smc" /\ ~ f.yields
  BY Priorities DEF Frames
<1>3. /\ work' = Append(work, f) /\ Len(work) < MaxDepth /\ ExitedNormalWorld
      /\ UNCHANGED own /\ (work = << >> \/ Top.kind # "smc")
  BY DEF FastSmc, Enter, InSecure
<1> HIDE DEF f
<1>4. /\ WorkOK' /\ Len(work') = Len(work) + 1 /\ work'[Len(work) + 1] = f
      /\ \A n \in 1 .. Len(work) : work'[n] = work[n]
  BY <1>1, <1>2, <1>3, Pushed
<1>5. Dispatches("sync")' = Dispatches("sync")
  BY <1>1, <1>2, <1>4, DispatchesPushed
<1>6. Len(work') <= MaxDepth
  BY <1>3, <1>4, Stashed, BoundAssumption
<1>7. CASE work = << >>
  <2>1. /\ active = {} /\ RunningPriority \notin Secure /\ nsMask = 0 /\ pmr = own
    BY <1>7, NothingUnderWay
  <2>2. /\ nsMask' = own /\ pmr' = HighestNs /\ active' = {} /\ initMask' = initMask
        /\ panic' \in BOOLEAN /\ own' = own
    BY <1>1, <1>3, <2>1 DEF ExitedNormalWorld, Mask, EhfTypeOK
  <2>3. own \in NsMasks /\ own # 0 /\ HighestNs \in 1 .. Idle /\ own \in HighestNs .. Idle
    BY <1>1, Priorities DEF EhfTypeOK
  <2>4. EhfTypeOK'
    BY <1>1, <1>6, <2>2, <2>3 DEF EhfTypeOK
  <2>5. work' # << >> /\ work'[1] = f
    BY <1>4, <1>7 DEF WorkOK
  <2>6. BaseMask' = HighestNs
    BY <2>2, <2>3 DEF BaseMask
  <2>7. MasksOK'
    BY <1>1, <1>2, <1>5, <2>1, <2>2, <2>3, <2>5, <2>6 DEF MasksOK
  <2> QED
    BY <1>4, <2>4, <2>7 DEF EhfIInv
<1>8. CASE work # << >>
  <2>1. Len(work) \in 1 .. Len(work) /\ work[Len(work)].kind # "smc"
    BY <1>3, <1>8, Stashed DEF Top
  <2>2. Keep
    BY <1>3, <2>1, Dispatching
  <2>3. FirstIsFast' <=> FirstIsFast
    <3>1. Len(work') > 0
      BY <1>4, Stashed
    <3> QED
      BY <1>1, <1>4, <1>8, <3>1, FirstStays
  <2> QED
    BY <1>3, <1>4, <1>5, <1>6, <2>2, <2>3, KeepStep
<1> QED
  BY <1>7, <1>8

LEMMA YieldingSmcStep ==
  ASSUME EhfIInv, YieldingSmc
  PROVE  EhfIInv'
<1> DEFINE f == [kind |-> "smc", pri |-> 0, yields |-> TRUE]
<1>1. EhfTypeOK /\ WorkOK /\ MasksOK
  BY DEF EhfIInv
<1>2. f \in Frames /\ f.kind = "smc" /\ f.yields
  BY Priorities DEF Frames
<1>3. /\ work' = Append(work, f) /\ Len(work) < MaxDepth /\ work = << >>
      /\ nsMask' = 0 /\ pmr' = pmr /\ UNCHANGED <<active, initMask, own>>
  BY DEF YieldingSmc, Enter, Mask
<1> HIDE DEF f
<1>4. /\ WorkOK' /\ Len(work') = Len(work) + 1 /\ work'[Len(work) + 1] = f
      /\ \A n \in 1 .. Len(work) : work'[n] = work[n]
  BY <1>1, <1>2, <1>3, Pushed
<1>5. Dispatches("sync")' = Dispatches("sync")
  BY <1>1, <1>2, <1>4, DispatchesPushed
<1>6. Len(work') <= MaxDepth
  BY <1>3, <1>4, Stashed, BoundAssumption
<1>7. active = {} /\ nsMask = 0 /\ pmr = own
  BY <1>3, NothingUnderWay
<1>8. EhfTypeOK'
  <2>1. panic' \in BOOLEAN
    BY <1>1 DEF YieldingSmc, EhfTypeOK
  <2> QED
    BY <1>1, <1>3, <1>6, <2>1 DEF EhfTypeOK
<1>9. work' # << >> /\ work'[1] = f
  BY <1>3, <1>4 DEF WorkOK
<1>10. MasksOK'
  BY <1>1, <1>2, <1>3, <1>5, <1>7, <1>9 DEF MasksOK, BaseMask
<1> QED
  BY <1>4, <1>8, <1>10 DEF EhfIInv

(* SmcReturn and Preempt: a call ends.                                     *)
LEMMA LeaveStep ==
  ASSUME EhfIInv, InSecure, Pop, EnteringNormalWorld, UNCHANGED own
  PROVE  EhfIInv'
<1>1. EhfTypeOK /\ WorkOK /\ MasksOK /\ work # << >> /\ work[Len(work)].kind = "smc"
  BY DEF EhfIInv, InSecure, Top
<1>2. /\ WorkOK' /\ Len(work') = Len(work) - 1
      /\ \A n \in 1 .. Len(work') : n \in 1 .. Len(work) /\ work'[n] = work[n]
  BY <1>1, Popped
<1>3. Len(work) \in Nat /\ Len(work) > 0 /\ Len(work) \in 1 .. Len(work)
  BY <1>1, Stashed
<1>4. Dispatches("sync")' = Dispatches("sync") /\ Dispatches("intr")' = Dispatches("intr")
  BY <1>1, DispatchesPopped DEF Top
<1>5. Len(work') <= MaxDepth
  BY <1>1, <1>2, <1>3, BoundAssumption DEF EhfTypeOK
<1>6. CASE Len(work) = 1
  <2>1. work' = << >> /\ Len(work') = 0
    BY <1>2, <1>6 DEF WorkOK
  <2>2. Dispatches("sync") = {} /\ Dispatches("intr") = {}
    BY <1>1, <1>6, DispatchesAre
  <2>3. active = {} /\ RunningPriority \notin Secure /\ pmr = BaseMask
    BY <1>1, <2>2, Running DEF MasksOK
  <2>4. CASE nsMask = 0
    <3>1. Keep /\ pmr = own
      BY <2>3, <2>4, Stashed DEF EnteringNormalWorld
    <3>2. ~ FirstIsFast /\ ~ FirstIsFast'
      BY <1>1, <2>1, <2>4 DEF MasksOK, FirstIsFast
    <3> QED
      BY <1>2, <1>4, <1>5, <3>1, <3>2, KeepStep
  <2>5. CASE nsMask # 0
    <3>1. /\ pmr' = own /\ nsMask' = 0 /\ active' = {} /\ initMask' = initMask
          /\ panic' \in BOOLEAN /\ own' = own
      BY <1>1, <2>3, <2>5, Stashed DEF EnteringNormalWorld, Mask, EhfTypeOK
    <3>2. own \in 1 .. Idle
      BY <1>1, Priorities DEF EhfTypeOK
    <3>3. EhfTypeOK'
      BY <1>1, <1>5, <3>1, <3>2 DEF EhfTypeOK
    <3>4. MasksOK'
      BY <1>4, <2>1, <2>2, <3>1 DEF MasksOK, BaseMask
    <3> QED
      BY <1>2, <3>3, <3>4 DEF EhfIInv
  <2> QED
    BY <2>4, <2>5
<1>7. CASE Len(work) # 1
  <2>1. Len(work) \in 2 .. Len(work) /\ Len(work) - 1 \in 1 .. Len(work) /\ Len(work') > 0
    BY <1>2, <1>3, <1>7
  <2>2. work[Len(work) - 1].kind # "smc"
    BY <1>1, <2>1 DEF WorkOK
  <2>3. Keep
    BY <2>1, <2>2, Dispatching
  <2>4. FirstIsFast' <=> FirstIsFast
    BY <1>1, <1>2, <2>1, FirstStays
  <2> QED
    BY <1>2, <1>4, <1>5, <2>3, <2>4, KeepStep
<1> QED
  BY <1>6, <1>7

LEMMA SetMaskStep ==
  ASSUME EhfIInv, NEW m \in NsMasks, SetMask(m)
  PROVE  EhfIInv'
<1>1. EhfTypeOK /\ WorkOK /\ MasksOK /\ work = << >>
  BY DEF EhfIInv, SetMask
<1>2. pmr' = m /\ own' = m /\ UNCHANGED <<active, initMask, nsMask, work, panic>>
  BY DEF SetMask, Mask
<1>3. active = {} /\ nsMask = 0
  BY <1>1, NothingUnderWay
<1>4. m \in 1 .. Idle
  BY Priorities
<1>5. EhfTypeOK'
  BY <1>1, <1>2, <1>4 DEF EhfTypeOK
<1>6. WorkOK' /\ Dispatches("sync")' = Dispatches("sync")
  BY <1>1, <1>2 DEF WorkOK, Dispatches
<1>7. MasksOK'
  BY <1>1, <1>2, <1>3, <1>6 DEF MasksOK, BaseMask
<1> QED
  BY <1>5, <1>6, <1>7 DEF EhfIInv
(* A dispatch of priority p comes: it is above all that are under way.     *)
LEMMA DispatchPushed ==
  ASSUME EhfIInv, NEW p \in Secure, NEW k \in {"intr", "sync"},
         Enter([kind |-> k, pri |-> p, yields |-> FALSE]),
         \A q \in Dispatches("intr") \cup Dispatches("sync") : p < q
  PROVE  /\ WorkOK' /\ Len(work') <= MaxDepth
         /\ Dispatches("sync")' = IF k = "sync" THEN Dispatches("sync") \cup {p}
                                  ELSE Dispatches("sync")
         /\ FirstIsFast' <=> FirstIsFast
<1> DEFINE f == [kind |-> k, pri |-> p, yields |-> FALSE]
<1>1. WorkOK /\ Len(work) \in Nat
  BY Stashed DEF EhfIInv
<1>2. f \in Frames /\ f.kind = k /\ f.kind # "smc" /\ f.pri = p /\ ~ f.yields
  BY Priorities DEF Frames
<1>3. work' = Append(work, f) /\ Len(work) < MaxDepth
  BY DEF Enter
<1> HIDE DEF f
<1>4. \A n \in 1 .. Len(work) : work[n].kind # "smc" => p < work[n].pri
  <2> SUFFICES ASSUME NEW n \in 1 .. Len(work), work[n].kind # "smc"
               PROVE  p < work[n].pri
    OBVIOUS
  <2>1. work[n] \in Frames
    BY <1>1 DEF WorkOK
  <2>2. work[n].kind \in {"intr", "sync"}
    BY <2>1 DEF Frames
  <2> QED
    BY <1>1, <2>2, DispatchesAre
<1>5. /\ WorkOK' /\ Len(work') = Len(work) + 1 /\ work'[Len(work) + 1] = f
      /\ \A n \in 1 .. Len(work) : work'[n] = work[n]
  BY <1>1, <1>2, <1>3, <1>4, Pushed
<1>6. Dispatches("sync")' = IF k = "sync" THEN Dispatches("sync") \cup {p}
                            ELSE Dispatches("sync")
  BY <1>1, <1>2, <1>5, DispatchesPushed
<1>7. Len(work') <= MaxDepth /\ Len(work') > 0
  BY <1>1, <1>3, <1>5, BoundAssumption
<1>8. FirstIsFast' <=> FirstIsFast
  <2>1. CASE work # << >>
    BY <1>1, <1>5, <1>7, <2>1, FirstStays
  <2>2. CASE work = << >>
    <3>1. work'[1] = f
      BY <1>5, <2>2
    <3> QED
      BY <1>2, <2>2, <3>1 DEF FirstIsFast
  <2> QED
    BY <2>1, <2>2
<1> QED
  BY <1>5, <1>6, <1>7, <1>8

LEMMA InterruptStep ==
  ASSUME EhfIInv, NEW p \in Secure, Interrupt(p)
  PROVE  EhfIInv'
<1>1. EhfTypeOK /\ WorkOK /\ MasksOK /\ p < pmr /\ p < RunningPriority
  BY DEF EhfIInv, Interrupt
<1>2. ASSUME NEW q \in Dispatches("intr") \cup Dispatches("sync")
      PROVE  p < q
  <2>1. p \in Nat /\ q \in Nat /\ pmr \in Nat /\ RunningPriority \in Nat
    BY <1>1, DispatchesAre, Priorities, Stashed, Running
  <2>2. CASE q \in Dispatches("intr")
    BY <1>1, <2>1, <2>2, Running
  <2>3. CASE q \in Dispatches("sync")
    <3>1. pmr <= q
      BY <1>1, <2>3 DEF MasksOK
    <3> QED
      BY <1>1, <2>1, <3>1
  <2> QED
    BY <2>2, <2>3
<1>3. /\ WorkOK' /\ Len(work') <= MaxDepth /\ Dispatches("sync")' = Dispatches("sync")
      /\ FirstIsFast' <=> FirstIsFast
  BY <1>2, DispatchPushed DEF Interrupt
<1>4. Keep /\ UNCHANGED own
  BY DEF Interrupt, Keep
<1> QED
  BY <1>3, <1>4, KeepStep

LEMMA DispatchEventStep ==
  ASSUME EhfIInv, NEW p \in Secure, DispatchEvent(p)
  PROVE  EhfIInv'
<1>1. EhfTypeOK /\ WorkOK /\ MasksOK
  BY DEF EhfIInv
<1>2. /\ WorkOK' /\ Len(work') <= MaxDepth
      /\ Dispatches("sync")' = Dispatches("sync") \cup {p}
      /\ FirstIsFast' <=> FirstIsFast
  BY DispatchPushed DEF DispatchEvent
<1>3. /\ active' = active \cup {p} /\ pmr' = p /\ nsMask' = nsMask /\ own' = own
      /\ initMask' = IF active = {} THEN pmr ELSE initMask
  BY DEF DispatchEvent, ActivatePriority, Mask
<1>4. initMask' = BaseMask /\ BaseMask' = BaseMask
  BY <1>1, <1>3 DEF MasksOK, BaseMask
<1>5. EhfTypeOK'
  <2>1. panic' \in BOOLEAN
    BY DEF DispatchEvent, ActivatePriority
  <2>2. p \in 1 .. Idle
    BY Priorities
  <2>3. initMask' \in 0 .. Idle
    BY <1>4, Stashed, Priorities
  <2> QED
    BY <1>1, <1>2, <1>3, <2>1, <2>2, <2>3 DEF EhfTypeOK
<1>6. \A q \in active' : pmr' <= q
  <2> SUFFICES ASSUME NEW q \in active'
               PROVE  p <= q
    BY <1>3
  <2>1. CASE q = p
    BY <2>1, Priorities
  <2>2. CASE q \in active
    <3>1. p < q /\ q \in Nat /\ p \in Nat
      BY <1>1, <2>2, DispatchesAre, Priorities DEF DispatchEvent, MasksOK
    <3> QED
      BY <3>1
  <2> QED
    BY <1>3, <2>1, <2>2
<1>7. MasksOK'
  BY <1>1, <1>2, <1>3, <1>4, <1>6 DEF MasksOK, FirstIsFast
<1> QED
  BY <1>2, <1>5, <1>7 DEF EhfIInv

(* The handler on top is above all others, and was not dispatched in a     *)
(* state in which the normal world may preempt.                            *)
LEMMA Completes ==
  ASSUME EhfIInv, Complete
  PROVE  /\ work # << >> /\ Top.kind \in {"intr", "sync"} /\ Top.pri \in Secure
         /\ \A q \in Dispatches("intr") \cup Dispatches("sync") : Top.pri <= q
         /\ Top.pri \in Dispatches(Top.kind)
         /\ Top.kind = "sync" => Top.pri \notin Dispatches("intr")
         /\ Pop
<1>1. WorkOK /\ work # << >> /\ Top.kind # "smc" /\ Top = work[Len(work)]
  BY DEF EhfIInv, Complete, Top
<1>2. Len(work) \in Nat /\ Len(work) \in 1 .. Len(work)
  BY <1>1, Stashed
<1>3. Top \in Frames /\ Top.pri \in Secure
  BY <1>1, <1>2 DEF WorkOK
<1>4. Top.kind \in {"intr", "sync"}
  BY <1>1, <1>3 DEF Frames
<1>5. ~ NsPreemptionAllowed
  BY <1>1, <1>2, Dispatching
<1>6. Pop
  BY <1>5 DEF Complete, Pop
<1>7. ASSUME NEW k \in {"intr", "sync"}, NEW q \in Dispatches(k)
      PROVE  Top.pri < q \/ (Top.pri = q /\ Top.kind = k)
  <2>1. PICK n \in 1 .. Len(work) : work[n].kind = k /\ work[n].pri = q
    BY <1>1, DispatchesAre
  <2>2. n < Len(work) \/ n = Len(work)
    BY <1>2
  <2> QED
    BY <1>1, <1>2, <2>1, <2>2 DEF WorkOK
<1>8. \A q \in Dispatches("intr") \cup Dispatches("sync") : Top.pri <= q
  <2> SUFFICES ASSUME NEW q \in Dispatches("intr") \cup Dispatches("sync")
               PROVE  Top.pri <= q
    OBVIOUS
  <2>1. q \in Nat /\ Top.pri \in Nat
    BY <1>1, <1>3, DispatchesAre, Priorities
  <2> QED
    BY <1>7, <2>1
<1>9. Top.kind = "sync" => Top.pri \notin Dispatches("intr")
  <2> SUFFICES ASSUME Top.kind = "sync", Top.pri \in Dispatches("intr")
               PROVE  FALSE
    OBVIOUS
  <2>1. Top.pri < Top.pri
    BY <1>7
  <2> QED
    BY <1>3, <2>1, Priorities
<1> QED
  BY <1>1, <1>2, <1>3, <1>4, <1>6, <1>8, <1>9, DispatchesAre

LEMMA CompleteStep ==
  ASSUME EhfIInv, Complete
  PROVE  EhfIInv'
<1> DEFINE p == Top.pri
<1>1. EhfTypeOK /\ WorkOK /\ MasksOK /\ UNCHANGED own
  BY DEF EhfIInv, Complete
<1>2. /\ work # << >> /\ Top.kind \in {"intr", "sync"} /\ p \in Secure /\ Pop
      /\ \A q \in Dispatches("intr") \cup Dispatches("sync") : p <= q
      /\ p \in Dispatches(Top.kind)
  BY Completes
<1>3. /\ WorkOK' /\ Len(work') = Len(work) - 1 /\ Len(work) \in 1 .. Len(work)
      /\ \A n \in 1 .. Len(work') : n \in 1 .. Len(work) /\ work'[n] = work[n]
  BY <1>1, <1>2, Popped
<1>4. Dispatches("sync")' = IF Top.kind = "sync" THEN Dispatches("sync") \ {p}
                            ELSE Dispatches("sync")
  BY <1>1, <1>2, DispatchesPopped
<1>5. Len(work) \in Nat
  BY Stashed
<1>6. Len(work') <= MaxDepth
  BY <1>1, <1>3, <1>5, BoundAssumption DEF EhfTypeOK
<1>7. FirstIsFast' <=> FirstIsFast
  <2>1. CASE Len(work) = 1
    <3>1. work' = << >>
      BY <1>3, <2>1 DEF WorkOK
    <3> QED
      BY <1>2, <2>1, <3>1 DEF FirstIsFast, Top
  <2>2. CASE Len(work) # 1
    <3>1. Len(work') > 0
      BY <1>3, <1>5, <2>2
    <3> QED
      BY <1>1, <1>2, <1>3, <3>1, FirstStays
  <2> QED
    BY <2>1, <2>2
<1>8. CASE Top.kind # "sync"
  BY <1>1, <1>3, <1>4, <1>6, <1>7, <1>8, KeepStep DEF Complete
<1>9. CASE Top.kind = "sync"
  <2>1. /\ active' = active \ {p} /\ pmr' = IF active' = {} THEN initMask ELSE p
        /\ UNCHANGED <<initMask, nsMask>> /\ panic' \in BOOLEAN
    BY <1>9 DEF Complete, DeactivatePriority, Mask
  <2>2. active # {} /\ initMask = BaseMask /\ BaseMask' = BaseMask
    BY <1>1, <1>2, <1>9, <2>1 DEF MasksOK, BaseMask
  <2> HIDE DEF p
  <2>3. EhfTypeOK'
    <3>1. p \in 1 .. Idle
      BY <1>2, Priorities
    <3>2. initMask \in 1 .. Idle
      BY <2>2, Stashed, Priorities
    <3> QED
      BY <1>1, <1>6, <2>1, <3>1, <3>2 DEF EhfTypeOK
  <2>4. active' # {} => \A q \in active' : pmr' <= q
    BY <1>1, <1>2, <2>1 DEF MasksOK
  <2>5. MasksOK'
    BY <1>1, <1>4, <1>7, <1>9, <2>1, <2>2, <2>4 DEF MasksOK, FirstIsFast
  <2> QED
    BY <1>3, <2>3, <2>5 DEF EhfIInv
<1> QED
  BY <1>8, <1>9

-----------------------------------------------------------------------------
(* The theorems *)

LEMMA InitIInv == EhfInit => EhfIInv
<1> SUFFICES ASSUME EhfInit
             PROVE  EhfIInv
  OBVIOUS
<1>1. own \in NsMasks /\ own \in 1 .. Idle /\ 0 \in 0 .. Idle
  BY Priorities DEF EhfInit
<1>2. EhfTypeOK
  <2>1. Len(work) <= MaxDepth
    BY BoundAssumption DEF EhfInit
  <2> QED
    BY <1>1, <2>1 DEF EhfInit, EhfTypeOK
<1>3. WorkOK
  BY DEF EhfInit, WorkOK
<1>4. Dispatches("sync") = {}
  BY DEF EhfInit, Dispatches
<1> QED
  BY <1>2, <1>3, <1>4 DEF EhfInit, EhfIInv, MasksOK, BaseMask

LEMMA NextIInv == EhfIInv /\ [EhfNext]_ehfVars => EhfIInv'
<1> SUFFICES ASSUME EhfIInv, [EhfNext]_ehfVars
             PROVE  EhfIInv'
  OBVIOUS
<1>1. CASE UNCHANGED ehfVars
  BY <1>1 DEF ehfVars, ehf, EhfIInv, EhfTypeOK, WorkOK, MasksOK, BaseMask, Dispatches
<1>2. CASE SmcReturn \/ Preempt
  BY <1>2, LeaveStep DEF SmcReturn, Preempt
<1>3. CASE \E m \in NsMasks : SetMask(m)
  BY <1>3, SetMaskStep
<1>4. CASE \E p \in Secure : Interrupt(p) \/ DispatchEvent(p)
  BY <1>4, InterruptStep, DispatchEventStep
<1> QED
  BY <1>1, <1>2, <1>3, <1>4, FastSmcStep, YieldingSmcStep, CompleteStep DEF EhfNext

(* The masks are in order in every state, however priorities are nested.   *)
THEOREM EhfInvariant == EhfSpec => []EhfIInv
BY InitIInv, NextIInv, PTL DEF EhfSpec

(* The normal world gets the mask back that it set, for every number of    *)
(* priorities that are activated at a time: ehf_deactivate_priority and    *)
(* ehf_entering_normal_world undo what was done since.                     *)
THEOREM MaskAlwaysRestored == EhfSpec => []NsMaskRestored
<1>1. EhfIInv => NsMaskRestored
  BY NothingUnderWay DEF EhfIInv, NsMaskRestored
<1> QED
  BY <1>1, EhfInvariant, PTL

(* An interrupt of the normal world is not signalled while a call that does*)
(* not yield, or a handler of a synchronous exception, is under way: the   *)
(* mask of ehf_exited_normal_world or ehf_activate_priority is in force, or*)
(* an interrupt of higher priority is active.                              *)
THEOREM SecureIsAlwaysProtected == EhfSpec => []SecureIsProtected
<1>1. EhfIInv => SecureIsProtected
  <2> SUFFICES ASSUME EhfIInv, (InSecure /\ ~ Top.yields) \/ Dispatches("sync") # {},
                      NEW p \in HighestNs .. Idle - 1, p < pmr, p < RunningPriority
               PROVE  FALSE
    BY DEF SecureIsProtected, NsSignalled
  <2>1. WorkOK /\ MasksOK /\ p \in Nat /\ p > L
    BY Priorities DEF EhfIInv
  <2>2. active = {}
    <3> SUFFICES ASSUME NEW q \in active
                 PROVE  FALSE
      OBVIOUS
    <3>1. pmr <= q /\ q \in Secure
      BY <2>1, DispatchesAre DEF MasksOK
    <3>2. pmr \in Nat /\ q \in Nat /\ q <= L /\ L \in Nat
      BY <3>1, Priorities, Stashed
    <3> QED
      BY <2>1, <3>1, <3>2
  <2>3. RunningPriority \notin Secure
    <3> SUFFICES ASSUME RunningPriority \in Secure
                 PROVE  FALSE
      OBVIOUS
    <3>1. RunningPriority \in Nat /\ RunningPriority <= L /\ L \in Nat
      BY Priorities
    <3> QED
      BY <2>1, <3>1
  <2>4. Len(work) = 1 /\ Top = work[1] /\ Top.kind = "smc" /\ ~ Top.yields /\ work # << >>
    <3>1. Len(work) \in {0, 1} /\ InSecure /\ ~ Top.yields
      BY <2>1, <2>2, <2>3, Quiet DEF MasksOK
    <3>2. work # << >> /\ Len(work) \in 1 .. Len(work) /\ Top.kind = "smc"
      BY <3>1, Stashed DEF InSecure
    <3>3. Len(work) = 1
      BY <3>1, <3>2
    <3> QED
      BY <3>1, <3>2, <3>3 DEF Top
  <2>5. nsMask # 0
    BY <2>1, <2>4 DEF MasksOK
  <2>6. pmr = HighestNs
    BY <2>1, <2>2, <2>5, Stashed DEF MasksOK
  <2> QED
    BY <2>6, Priorities
<1> QED
  BY <1>1, EhfInvariant, PTL

(* The one step that can set panic, and where: an activation below the     *)
(* mask that a nested deactivation has left.                               *)
LEMMA NoPanicNext ==
  ASSUME EhfIInv, ~ panic, [EhfNext]_ehfVars, ~ (active # {} /\ pmr < Least(active))
  PROVE  ~ panic'
<1>1. EhfTypeOK /\ WorkOK /\ MasksOK /\ panic = FALSE
  BY DEF EhfIInv, EhfTypeOK
<1>2. CASE UNCHANGED ehfVars
  BY <1>1, <1>2 DEF ehfVars
<1>3. CASE FastSmc
  <2>1. CASE Keep
    BY <1>1, <2>1 DEF Keep
  <2>2. CASE ~ Keep
    <3>1. ExitedNormalWorld /\ RunningPriority \notin Secure /\ active = {}
      BY <1>3, <2>2 DEF FastSmc, ExitedNormalWorld
    <3>2. Len(work) \in {0, 1} /\ \A n \in 1 .. Len(work) : work[n].kind = "smc"
      BY <3>1, Quiet
    <3>3. work = << >>
      BY <1>3, <3>2, Stashed DEF FastSmc, InSecure, Top
    <3>4. nsMask = 0 /\ pmr = own /\ pmr \notin Secure
      BY <1>1, <3>3, NothingUnderWay, Priorities DEF EhfTypeOK
    <3> QED
      BY <1>1, <3>1, <3>4 DEF ExitedNormalWorld
  <2> QED
    BY <2>1, <2>2
<1>4. CASE YieldingSmc
  <2>1. nsMask = 0 /\ pmr = own /\ active = {}
    BY <1>4, NothingUnderWay DEF YieldingSmc
  <2>2. pmr \notin Secure
    BY <1>1, <2>1, Priorities DEF EhfTypeOK
  <2> QED
    BY <1>1, <1>4, <2>1, <2>2 DEF YieldingSmc
<1>5. CASE SmcReturn \/ Preempt
  <2>1. EnteringNormalWorld
    BY <1>5 DEF SmcReturn, Preempt
  <2>2. CASE Keep
    BY <1>1, <2>2 DEF Keep
  <2>3. CASE ~ Keep
    <3>1. active = {} /\ nsMask # 0
      BY <2>1, <2>3 DEF EnteringNormalWorld
    <3>2. pmr = HighestNs
      BY <1>1, <3>1, Stashed DEF MasksOK
    <3> QED
      BY <1>1, <2>1, <2>3, <3>2 DEF EnteringNormalWorld
  <2> QED
    BY <2>2, <2>3
<1>6. CASE \E m \in NsMasks : SetMask(m)
  BY <1>1, <1>6 DEF SetMask
<1>7. ASSUME NEW p \in Secure, Interrupt(p)
      PROVE  ~ panic'
  BY <1>1, <1>7 DEF Interrupt
<1>8. ASSUME NEW p \in Secure, DispatchEvent(p)
      PROVE  ~ panic'
  <2>1. active \subseteq Nat /\ \A q \in active : p < q
    BY <1>1, <1>8, DispatchesAre DEF DispatchEvent, MasksOK
  <2>2. ASSUME active = {}
        PROVE  ~ (p >= pmr)
    <3>1. pmr = BaseMask
      BY <1>1, <2>2 DEF MasksOK
    <3> QED
      BY <3>1, <2>2, Priorities, Stashed
  <2>4. ASSUME active # {}
        PROVE  ~ (p >= pmr) /\ ~ (p >= Least(active))
    <3>1. Least(active) \in active
      BY <2>1, <2>4, LeastIs
    <3>2. p \in Nat /\ pmr \in Nat /\ Least(active) \in Nat /\ p < Least(active)
      BY <1>1, <2>1, <3>1, Stashed, Priorities
    <3>3. ~ (pmr < Least(active))
      BY <2>4
    <3> QED
      BY <3>2, <3>3
  <2>5. ~ (p >= pmr) /\ (active # {} => ~ (p >= Least(active)))
    BY <2>2, <2>4
  <2>3. ~ (p >= RunningPriority)
    <3>1. RunningPriority \in Nat /\ RunningPriority \in Dispatches("intr") \cup {Idle}
      BY <1>1, Running
    <3>2. p < RunningPriority
      BY <1>8, <3>1, Priorities DEF DispatchEvent
    <3> QED
      BY <3>1, <3>2, Priorities
  <2> QED
    BY <1>1, <1>8, <2>3, <2>5 DEF DispatchEvent, ActivatePriority
<1>9. CASE Complete
  <2>1. CASE Top.kind # "sync"
    BY <1>1, <1>9, <2>1 DEF Complete, Keep
  <2>2. CASE Top.kind = "sync"
    <3> DEFINE p == Top.pri
    <3>1. /\ p \in Secure /\ p \in Dispatches("sync") /\ p \notin Dispatches("intr")
          /\ \A q \in Dispatches("intr") \cup Dispatches("sync") : p <= q
      BY <1>9, <2>2, Completes
    <3>2. DeactivatePriority(p)
      BY <1>9, <2>2 DEF Complete
    <3> HIDE DEF p
    <3>3. ~ (p >= RunningPriority)
      <4>1. RunningPriority \in Nat /\ RunningPriority \in Dispatches("intr") \cup {Idle}
        BY <1>1, Running
      <4>2. p \in Nat /\ p <= RunningPriority /\ p # RunningPriority
        BY <3>1, <4>1, Priorities
      <4> QED
        BY <4>1, <4>2
    <3>4. active # {} /\ p \in active /\ \A q \in active : p <= q
      BY <1>1, <3>1 DEF MasksOK
    <3>5. p = Least(active)
      <4>1. active \subseteq Nat
        BY <1>1, DispatchesAre DEF MasksOK
      <4>2. Least(active) \in active /\ Least(active) <= p
        BY <3>4, <4>1, LeastIs
      <4>3. /\ Least(active) \in Nat /\ p \in Nat
            /\ p <= Least(active)
        BY <3>4, <4>1, <4>2
      <4> QED
        BY <4>2, <4>3
    <3>6. ~ (pmr > p)
      <4>1. pmr <= p /\ pmr \in Nat /\ p \in Nat
        BY <1>1, <3>1, <3>4, Stashed, Priorities DEF MasksOK
      <4> QED
        BY <4>1
    <3> QED
      BY <1>1, <3>2, <3>3, <3>4, <3>5, <3>6 DEF DeactivatePriority
  <2> QED
    BY <2>1, <2>2
<1> QED
  BY <1>2, <1>3, <1>4, <1>5, <1>6, <1>7, <1>8, <1>9 DEF EhfNext

(* However deep activations, interrupts and calls are nested, a check of   *)
(* ehf.c fails only where an activation finds the mask above the active    *)
(* priorities, which is what ehf_deactivate_priority leaves behind when it *)
(* ends a nested activation.                                               *)
THEOREM PanicsOnlyOnStaleMask == EhfSpec => OnlyStaleMaskPanics
<1>1. EhfIInv /\ [EhfNext]_ehfVars
        => [panic' => panic \/ (active # {} /\ pmr < Least(active))]_ehfVars
  <2>1. SUFFICES ASSUME EhfIInv, [EhfNext]_ehfVars,
                        ~ panic, ~ (active # {} /\ pmr < Least(active))
                 PROVE  ~ panic'
    OBVIOUS
  <2> QED
    BY <2>1, NoPanicNext
<1> QED
  BY <1>1, EhfInvariant, PTL DEF EhfSpec, OnlyStaleMaskPanics
=============================================================================
