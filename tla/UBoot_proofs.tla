---------------------------- MODULE UBoot_proofs ----------------------------
(***************************************************************************)
(* Proofs about three parts of U-Boot that have no state in common: EnvSf, *)
(* for every set of values, one copy or two, and every set of faults;      *)
(* TftpPut, for files of every length, and every loss, repetition and      *)
(* delay of packets; and NetLoop, for every number of interfaces, retries  *)
(* and timeouts.                                                           *)
(***************************************************************************)
EXTENDS EnvSf, TftpPut, NetLoop, Integers, FiniteSetTheorems, SequenceTheorems, WellFoundedInduction,
        TLAPS

-----------------------------------------------------------------------------
(* EnvSf                                                                   *)

(* Two copies, of which env_valid names one and a save writes the other.   *)
LEMMA CopyFacts ==
  ASSUME TypeOK
  PROVE  /\ New \in Copy /\ 3 - New \in Copy /\ New # 3 - New
         /\ Redundant => New # envValid /\ 3 - New = envValid /\ New = 3 - envValid
         /\ Copy = {New, 3 - New}
  BY DEF TypeOK, New, Copy

LEMMA InitInv == Init => IInv
  BY ValueAssumption
  DEF Init, IInv, TypeOK, Copy, Contents, Default, Bad, Saving, RedundantOK, SingleOK, Found,
      Loaded, Selected, Erased, Builds, Redundant

(* What is loaded is a content, and it is found if every copy's may be.    *)
LEMMA LoadedFacts ==
  ASSUME TypeOK
  PROVE  /\ Selected \in {0} \cup Copy
         /\ \A c \in {0} \cup Copy : Loaded(c) \in Contents
         /\ UnreadOK => Found \in {stored} \cup maybe
  BY DEF TypeOK, Loaded, Selected, Newer, Contents, Copy, UnreadOK, Found

(* A boot takes what was found, or no one knows what it takes.             *)
LEMMA LoadInv == ASSUME IInv, Load PROVE IInv'
<1> USE ValueAssumption DEF Copy, Erased, ACTIVE_FLAG, OBSOLETE_FLAG
<1>1. /\ UNCHANGED <<build, data, flags>> /\ pc' = "prompt"
      /\ LoadGood \/ Unread
      /\ ~ Redundant => envValid' = 1
  BY DEF Load, LoadGood, LoadNone, LoadOther, flash, Selected
<1>2. TypeOK'
  <2>1. env' \in Contents /\ envValid' \in Copy
    BY LoadedFacts DEF IInv, TypeOK, Load, LoadGood, LoadNone, LoadOther, Contents
  <2>2. stored' \in Contents /\ maybe' \subseteq Contents
    BY <1>1, <2>1, LoadedFacts DEF IInv, TypeOK, LoadGood, Unread, Contents
  <2> QED
    BY <1>1, <2>1, <2>2 DEF IInv, TypeOK
<1>3. /\ Redundant' = Redundant /\ Found' = Found /\ Selected' = Selected
      /\ \A c \in Copy : Loaded(c)' = Loaded(c)
  BY <1>1 DEF Redundant, Found, Loaded, Selected, Newer
<1>4. CASE LoadGood
  <2>1. maybe' = {} /\ stored' = Found /\ envValid' = (IF Selected = 0 THEN 1 ELSE Selected)
    BY <1>4 DEF LoadGood, Found
  <2>2. CASE Redundant
    <3>1. Loaded(envValid)' = Found
      BY <1>1, <2>1, <2>2 DEF Found, Loaded, Selected, Newer
    <3>2. RedundantOK'
      BY <1>1, <1>3, <2>1, <3>1 DEF RedundantOK, Saving
    <3> QED
      BY <1>1, <1>2, <1>3, <2>2, <3>2 DEF IInv, Saving
  <2>3. CASE ~ Redundant
    BY <1>1, <1>2, <1>3, <2>1, <2>3 DEF IInv, SingleOK, Saving
  <2> QED
    BY <2>2, <2>3
<1>5. CASE Unread
  <2>1. maybe' = maybe \cup {Default} \cup {Loaded(c) : c \in Copy} /\ stored' = stored
    BY <1>5 DEF Unread
  <2>2. CASE Redundant
    <3>1. UnreadOK'
      BY <1>3, <2>1 DEF UnreadOK
    <3> QED
      BY <1>1, <1>2, <1>3, <2>2, <3>1 DEF IInv, Saving
  <2>3. CASE ~ Redundant
    BY <1>1, <1>2, <1>3, <2>1, <2>3 DEF IInv, SingleOK, Saving
  <2> QED
    BY <2>2, <2>3
<1> QED
  BY <1>1, <1>4, <1>5

(* Steps that leave the flash alone.                                       *)
LEMMA QuietInv ==
  ASSUME IInv,
         \/ (\E v \in Value : SetEnv(v)) \/ Save \/ Setup \/ Export
         \/ Backup /\ ~ SucceededUnwritten
  PROVE  IInv'
<1> USE ValueAssumption
    DEF Copy, SetEnv, Save, Setup, Backup, Export, Goto, Failed, Succeeded, flash, history
<1>1. UNCHANGED <<build, data, flags, stored, envValid>> /\ maybe \subseteq maybe'
  OBVIOUS
<1>2. /\ Redundant' = Redundant /\ Found' = Found /\ Selected' = Selected /\ New' = New
      /\ Loaded(envValid)' = Loaded(envValid)
      /\ \A c \in Copy : Loaded(c)' = Loaded(c)
  BY <1>1 DEF Redundant, Found, Loaded, Selected, Newer, New
<1>3. TypeOK'
  BY DEF IInv, TypeOK, Contents, Saving
<1>4. /\ pc' \in {"prompt", "setup", "backup", "export", "erase"}
      /\ pc' \in Saving => env' \in maybe'
  BY DEF IInv, Saving
<1>5. CASE Redundant
  <2>1. pc \in {"prompt", "setup", "backup", "export"} /\ (pc' = "prompt" => pc = "prompt")
    BY <1>5 DEF Saving
  <2>2. ASSUME RedundantOK PROVE RedundantOK'
    BY <1>1, <1>2, <1>4, <2>1, <2>2 DEF RedundantOK, Saving
  <2>3. ASSUME UnreadOK PROVE UnreadOK'
    BY <1>1, <1>2, <2>3 DEF UnreadOK
  <2> QED
    BY <1>1, <1>2, <1>3, <1>4, <1>5, <2>2, <2>3 DEF IInv
<1>6. CASE ~ Redundant
  <2>1. pc' \in Saving => Default \in maybe'
    BY <1>1, <1>6 DEF IInv, SingleOK, Saving
  <2>2. pc' = "prompt" /\ maybe' = {} => pc = "prompt" /\ maybe = {}
    BY <1>1, <1>6 DEF IInv, SingleOK, Saving
  <2> QED
    BY <1>1, <1>2, <1>3, <1>4, <1>6, <2>1, <2>2 DEF IInv, SingleOK
<1> QED
  BY <1>5, <1>6

(* A success that wrote nothing leaves what was stored to be found.        *)
LEMMA UnwrittenInv ==
  ASSUME IInv, Backup, SucceededUnwritten, ~ Redundant
  PROVE  IInv'
<1> USE ValueAssumption DEF Copy, Saving
<1>1. /\ UNCHANGED <<build, data, flags, env, envValid>> /\ pc = "backup" /\ pc' = "prompt"
      /\ stored' = env /\ maybe' = maybe \cup {stored}
  BY DEF Backup, SucceededUnwritten, flash
<1>2. Redundant' = Redundant /\ Found' = Found
  BY <1>1 DEF Redundant, Found, Loaded, Selected, Newer
<1>3. TypeOK'
  BY <1>1 DEF IInv, TypeOK
<1> QED
  BY <1>1, <1>2, <1>3 DEF IInv, SingleOK

(* What an operation on the flash may do: nothing, or a step of its work.  *)
FlashStep ==
  \/ UNCHANGED flash
  \/ pc = "erase" /\ EraseNew
  \/ pc = "write" /\ (EraseNew \/ WriteNew)
  \/ pc = "obsolete" /\ MarkOld

FlashOK ==
  /\ data \in [Copy -> Contents \cup {Bad}]
  /\ flags \in [Copy -> {Erased, ACTIVE_FLAG, OBSOLETE_FLAG}]
  /\ \A c \in Copy : flags[c] = Erased => data[c] = Bad

(* A save touches the data of the copy it writes only.                     *)
LEMMA FlashFacts ==
  ASSUME IInv, FlashStep, pc \in Saving
  PROVE  /\ FlashOK'
         /\ data'[3 - New] = data[3 - New]
         /\ data'[New] \in {data[New], Bad, env}
<1> USE ValueAssumption DEF Copy, Erased, ACTIVE_FLAG, OBSOLETE_FLAG, IInv, TypeOK, Contents, FlashOK
<1>1. New \in Copy /\ 3 - New \in Copy /\ New # 3 - New /\ env \in Contents
  BY CopyFacts
<1>2. CASE UNCHANGED flash
  BY <1>1, <1>2 DEF flash
<1>3. CASE EraseNew
  BY <1>1, <1>3 DEF EraseNew
<1>4. CASE WriteNew
  BY <1>1, <1>4 DEF WriteNew
<1>5. CASE MarkOld
  BY <1>1, <1>5 DEF MarkOld
<1> QED
  BY <1>2, <1>3, <1>4, <1>5 DEF FlashStep

(* With two copies the one in use is kept, and the other one is bad or     *)
(* holds what is being saved.                                              *)
LEMMA RedundantFlash ==
  ASSUME IInv, RedundantOK, Redundant, pc \in Saving, FlashStep, UNCHANGED <<build, envValid>>
  PROVE  /\ Found' \in {stored} \cup maybe
         /\ Selected' \in {0, envValid} \/ data'[New] \in {Bad} \cup maybe
<1> USE ValueAssumption
    DEF Copy, Erased, ACTIVE_FLAG, OBSOLETE_FLAG, IInv, TypeOK, Contents
<1>1. /\ New \in Copy /\ envValid \in Copy /\ New = 3 - envValid /\ 3 - New = envValid
      /\ New # envValid
  BY CopyFacts
<1>2. /\ data \in [Copy -> Contents \cup {Bad}] /\ env \in Contents /\ env \in maybe
      /\ Loaded(envValid) = stored /\ Redundant' = Redundant
  BY DEF RedundantOK, Saving, Redundant
<1>3. CASE UNCHANGED flash
  <2>1. Found' = Found /\ Selected' = Selected
    BY <1>2, <1>3 DEF flash, Found, Loaded, Selected, Newer
  <2> QED
    BY <1>3, <2>1 DEF flash, RedundantOK
<1>4. CASE EraseNew
  <2>1. data'[New] = Bad /\ data'[envValid] = data[envValid]
    BY <1>4, <1>1, <1>2 DEF EraseNew
  <2>2. Selected' \in {0, envValid}
    BY <2>1, <1>1, <1>2 DEF Selected, Newer
  <2>3. Found' = Loaded(envValid)
    BY <2>1, <2>2, <1>1, <1>2 DEF Found, Loaded, Selected, Newer
  <2> QED
    BY <1>2, <2>2, <2>3
<1>5. CASE WriteNew
  <2>1. data'[New] = env /\ data'[envValid] = data[envValid]
    BY <1>5, <1>1, <1>2 DEF WriteNew
  <2>2. Selected' \in {New, envValid}
    BY <2>1, <1>1, <1>2 DEF Selected, Newer, Bad, Default
  <2>3. Found' \in {env, Loaded(envValid)}
    BY <2>1, <2>2, <1>1, <1>2 DEF Found, Loaded, Bad, Default
  <2> QED
    BY <1>2, <2>1, <2>3
<1>6. CASE pc = "obsolete" /\ MarkOld
  <2>1. data' = data /\ data[New] = env /\ flags'[New] = ACTIVE_FLAG /\ flags'[envValid] = OBSOLETE_FLAG
    BY <1>6, <1>1, <1>2 DEF MarkOld
  <2>2. Selected' = New
    BY <2>1, <1>1, <1>2 DEF Selected, Newer, Bad, Default
  <2>3. Found' = env
    BY <2>1, <2>2, <1>1, <1>2 DEF Found, Loaded, Bad, Default
  <2> QED
    BY <1>2, <2>1, <2>3
<1> QED
  BY <1>3, <1>4, <1>5, <1>6 DEF FlashStep

(* After a load that could not read, every copy still holds something that *)
(* may be found.                                                           *)
LEMMA UnreadFlash ==
  ASSUME IInv, UnreadOK, pc \in Saving, FlashStep, UNCHANGED <<stored, maybe>>
  PROVE  UnreadOK'
<1>1. /\ New \in Copy /\ 3 - New \in Copy /\ Copy = {New, 3 - New}
  BY CopyFacts DEF IInv
<1>2. env \in maybe /\ Default \in maybe /\ \A c \in Copy : Loaded(c) \in {stored} \cup maybe
  BY DEF IInv, UnreadOK
<1>3. data'[3 - New] = data[3 - New] /\ data'[New] \in {data[New], Bad, env}
  BY FlashFacts
<1>4. ASSUME NEW c \in Copy PROVE Loaded(c)' \in {stored} \cup maybe
  BY <1>1, <1>2, <1>3 DEF Loaded, Copy
<1> QED
  BY <1>2, <1>4 DEF UnreadOK

(* The same for one copy, which a save that is cut short may destroy.      *)
LEMMA SingleFlash ==
  ASSUME IInv, ~ Redundant, pc \in Saving, FlashStep, UNCHANGED build
  PROVE  /\ Found' \in {stored} \cup maybe
         /\ WriteNew => Found' = env
<1> USE ValueAssumption DEF Copy, IInv, TypeOK, Contents, New
<1>1. /\ Default \in maybe /\ env \in maybe /\ env \in Contents /\ Bad \notin Contents
      /\ Redundant' = Redundant
  BY DEF SingleOK, Bad, Default, Redundant
<1>2. CASE UNCHANGED flash
  <2>1. Found' = Found
    BY <1>1, <1>2 DEF flash, Found, Loaded, Selected
  <2>2. Found \in {stored} \cup maybe
    BY DEF SingleOK
  <2>3. WriteNew => Found' = env
    BY <1>1, <1>2 DEF flash, WriteNew, Found, Loaded, Selected
  <2> QED
    BY <2>1, <2>2, <2>3
<1>3. CASE EraseNew
  BY <1>1, <1>3 DEF EraseNew, WriteNew, Found, Loaded, Selected
<1>4. CASE WriteNew
  BY <1>1, <1>4 DEF WriteNew, Found, Loaded, Selected
<1> QED
  BY <1>2, <1>3, <1>4 DEF FlashStep, SingleOK

(* Steps of a save that touch the flash, with two copies.                  *)
LEMMA RedundantSaveInv ==
  ASSUME IInv, Redundant, Erase \/ Write \/ Obsolete PROVE IInv'
<1> USE ValueAssumption DEF Copy, Saving
<1>1. /\ New \in Copy /\ envValid \in Copy /\ New = 3 - envValid /\ 3 - New = envValid
      /\ New # envValid /\ UNCHANGED build /\ Redundant' = Redundant
  BY CopyFacts DEF IInv, TypeOK, Erase, Write, Obsolete, Redundant
<1>2. pc \in Saving /\ FlashStep
  BY DEF Erase, Write, Obsolete, Partly, FlashStep
<1>3. FlashOK' /\ data'[envValid] = data[envValid]
  BY <1>1, <1>2, FlashFacts
<1>4. ASSUME NEW l \in {"setup", "write", "obsolete"}, Goto(l)
      PROVE  /\ UNCHANGED <<env, envValid, stored, maybe>> /\ pc' = l /\ New' = New
             /\ TypeOK' /\ env' \in maybe' /\ (RedundantOK \/ UnreadOK)'
  <2>1. UNCHANGED <<env, envValid, stored, maybe>> /\ pc' = l
    BY <1>4 DEF Goto, history
  <2>2. New' = New /\ Loaded(envValid)' = Loaded(envValid)
    BY <1>1, <1>3, <2>1 DEF New, Loaded
  <2>3. TypeOK' /\ env' \in maybe'
    BY <1>1, <1>2, <1>3, <2>1 DEF IInv, TypeOK, FlashOK
  <2>4. ASSUME RedundantOK PROVE RedundantOK'
    <3>1. /\ Found' \in {stored} \cup maybe
          /\ Selected' \in {0, envValid} \/ data'[New] \in {Bad} \cup maybe
      BY <1>1, <1>2, <2>1, <2>4, RedundantFlash
    <3> QED
      BY <1>2, <2>1, <2>2, <2>4, <3>1 DEF RedundantOK
  <2>5. ASSUME UnreadOK PROVE UnreadOK'
    BY <1>2, <2>1, <2>5, UnreadFlash
  <2> QED
    BY <2>1, <2>2, <2>3, <2>4, <2>5 DEF IInv
<1>5. CASE Goto("setup")
  BY <1>1, <1>3, <1>4, <1>5 DEF IInv, FlashOK
<1>6. CASE pc = "erase" /\ EraseNew /\ Goto("write")
  <2>1. data'[New] = Bad
    BY <1>1, <1>6 DEF EraseNew, IInv, TypeOK
  <2> QED
    BY <1>1, <1>3, <1>4, <1>6, <2>1 DEF IInv, FlashOK
<1>7. CASE pc = "write" /\ WriteNew /\ Goto("obsolete")
  <2>1. data'[New] = env /\ flags'[New] = ACTIVE_FLAG
    BY <1>1, <1>7 DEF WriteNew, IInv, TypeOK
  <2> QED
    BY <1>1, <1>3, <1>4, <1>7, <2>1 DEF IInv, FlashOK
<1>8. CASE pc = "obsolete" /\ MarkOld /\ Succeeded /\ envValid' = (IF envValid = 2 THEN 1 ELSE 2)
  <2>1. /\ envValid' = New /\ pc' = "prompt" /\ maybe' = {} /\ stored' = env /\ env' = env
        /\ data' = data
    BY <1>1, <1>8 DEF Succeeded, MarkOld
  <2>2. /\ flags'[New] = ACTIVE_FLAG /\ flags'[3 - New] = OBSOLETE_FLAG
        /\ data[New] = env /\ env \in Contents /\ env # Bad
    BY <1>1, <1>8 DEF MarkOld, IInv, TypeOK, Contents, Bad, Default
  <2>3. Selected' = New
    BY <1>1, <2>1, <2>2 DEF Selected, Newer, ACTIVE_FLAG, OBSOLETE_FLAG
  <2>4. Found' = env /\ Loaded(envValid)' = env
    BY <1>1, <2>1, <2>2, <2>3 DEF Found, Loaded
  <2>5. RedundantOK'
    BY <2>1, <2>3, <2>4 DEF RedundantOK
  <2>6. TypeOK'
    BY <1>1, <1>3, <2>1, <2>2 DEF IInv, TypeOK, FlashOK
  <2> QED
    BY <1>1, <1>3, <2>1, <2>5, <2>6 DEF IInv, FlashOK
<1> QED
  BY <1>5, <1>6, <1>7, <1>8 DEF Erase, Write, Obsolete, Failed

(* Steps of a save that touch the flash, with one copy.                    *)
LEMMA SingleSaveInv ==
  ASSUME IInv, ~ Redundant, Erase \/ Write \/ Obsolete PROVE IInv'
<1> USE ValueAssumption DEF Copy, Saving
<1>1. pc \in {"erase", "write"} /\ UNCHANGED build /\ Redundant' = Redundant
  BY DEF Erase, Write, Obsolete, IInv, SingleOK, Redundant
<1>2. FlashStep
  BY DEF Erase, Write, Obsolete, Partly, FlashStep
<1>3. FlashOK' /\ Found' \in {stored} \cup maybe /\ (WriteNew => Found' = env)
  BY <1>1, <1>2, FlashFacts, SingleFlash
<1>4. \/ Goto("setup") \/ Goto("write")
      \/ WriteNew /\ Succeeded /\ UNCHANGED envValid
  BY <1>1 DEF Erase, Write, Obsolete, Failed
<1>5. CASE Goto("setup") \/ Goto("write")
  BY <1>1, <1>3, <1>5 DEF Goto, history, IInv, TypeOK, SingleOK, FlashOK
<1>6. CASE WriteNew /\ Succeeded /\ UNCHANGED envValid
  BY <1>1, <1>3, <1>6 DEF Succeeded, IInv, TypeOK, SingleOK, FlashOK
<1> QED
  BY <1>4, <1>5, <1>6

(* Power is lost, in the middle of an operation on the flash or not.       *)
LEMMA PowerLossInv == ASSUME IInv, PowerLoss PROVE IInv'
<1> USE ValueAssumption DEF Copy, Saving
<1>1. /\ UNCHANGED <<build, envValid, stored, maybe>> /\ env' = Default /\ pc' = "boot"
      /\ FlashStep /\ Redundant' = Redundant
  BY DEF PowerLoss, history, Partly, FlashStep, Redundant
<1>2. FlashOK' /\ (pc \notin Saving => UNCHANGED <<data, flags>>)
  BY <1>1, FlashFacts DEF FlashStep, flash, IInv, TypeOK, FlashOK
<1>3. TypeOK'
  BY <1>1, <1>2 DEF IInv, TypeOK, FlashOK, Contents
<1>4. pc \notin Saving => /\ Found' = Found /\ \A c \in Copy : Loaded(c)' = Loaded(c)
  BY <1>1, <1>2 DEF Found, Loaded, Selected, Newer
<1>5. CASE Redundant
  <2>1. ASSUME RedundantOK PROVE RedundantOK'
    BY <1>1, <1>4, <1>5, <2>1, RedundantFlash DEF RedundantOK
  <2>2. ASSUME UnreadOK PROVE UnreadOK'
    <3>1. CASE pc \in Saving
      BY <1>1, <2>2, <3>1, UnreadFlash
    <3>2. CASE pc \notin Saving
      BY <1>1, <1>4, <2>2, <3>2 DEF UnreadOK
    <3> QED
      BY <3>1, <3>2
  <2> QED
    BY <1>1, <1>2, <1>3, <1>5, <2>1, <2>2 DEF IInv, FlashOK
<1>6. CASE ~ Redundant
  BY <1>1, <1>2, <1>3, <1>4, <1>6, SingleFlash DEF IInv, FlashOK, SingleOK
<1> QED
  BY <1>5, <1>6

(* IInv is an invariant, whatever fails.                                   *)
THEOREM InductiveInvariant == Spec => []IInv
<1>1. IInv /\ Next => IInv'
  <2> SUFFICES ASSUME IInv, Next PROVE IInv'
    OBVIOUS
  <2>1. CASE Backup
    <3>1. CASE SucceededUnwritten /\ ~ Redundant
      BY <2>1, <3>1, UnwrittenInv
    <3>2. CASE SucceededUnwritten /\ Redundant
      BY <2>1, <3>2 DEF Backup, SucceededUnwritten, Failed, Goto
    <3> QED
      BY <2>1, <3>1, <3>2, QuietInv
  <2>2. CASE Setup \/ Export \/ Save \/ \E v \in Value : SetEnv(v)
    BY <2>2, QuietInv
  <2> QED
    BY <2>1, <2>2, LoadInv, RedundantSaveInv, SingleSaveInv, PowerLossInv DEF Next, SaveStep
<1>2. IInv /\ UNCHANGED vars => IInv'
  <2> SUFFICES ASSUME IInv, UNCHANGED vars PROVE IInv'
    OBVIOUS
  <2>1. UNCHANGED <<build, data, flags, env, envValid, pc, stored, maybe>>
    BY DEF vars, flash, history
  <2> QED
    BY <2>1 DEF IInv, TypeOK, SingleOK, RedundantOK, Found, Loaded, Selected, Newer, New, UnreadOK, Redundant
<1> QED
  BY <1>1, <1>2, InitInv, PTL DEF Spec

(* At every moment a boot finds what was loaded or saved last, or what a   *)
(* save that did not succeed was saving: two copies never lose both.       *)
THEOREM NothingIsLost == Spec => []NothingLost
<1>1. IInv => NothingLost
  BY LoadedFacts DEF IInv, NothingLost, RedundantOK, SingleOK
<1> QED
  BY <1>1, InductiveInvariant, PTL

(* Every step of the environment in flash is a step of the store.          *)
LEMMA NextRefines ==
  ASSUME IInv, [Next]_vars PROVE [Store!Next]_(Store!vars)
<1> USE ValueAssumption DEF Store!vars, Store!Next
<1> DEFINE held == {data[c] : c \in Copy} \ {Bad}
<1>1. CASE UNCHANGED vars
  BY <1>1 DEF vars, flash, history, Redundant, Phase
<1> SUFFICES ASSUME Next PROVE [Store!Next]_(Store!vars)
  BY <1>1
<1>2. Redundant' = Redundant
  BY DEF Next, Load, LoadGood, LoadNone, LoadOther, SetEnv, Save, SaveStep, Setup, Backup, Export,
         Erase, Write, Obsolete, PowerLoss, Redundant
<1>3. CASE LoadGood
  <2>1. Found \in {stored} \cup maybe /\ Found \in held \cup {Default}
    BY LoadedFacts DEF IInv, RedundantOK, SingleOK, Found, Loaded
  <2>2. Phase = "boot" /\ Phase' = "prompt" /\ UNCHANGED data
    BY <1>3 DEF LoadGood, Phase, Saving, flash
  <2> QED
    BY <1>2, <1>3, <2>1, <2>2 DEF LoadGood, Store!Load, Found
<1>4. CASE LoadNone \/ \E c \in Copy : LoadOther(c)
  <2>1. Phase = "boot" /\ Phase' = "prompt" /\ UNCHANGED data /\ Unread
    BY <1>4 DEF LoadNone, LoadOther, Phase, Saving, flash
  <2>2. \A c \in Copy : Loaded(c) \in held \cup {Default}
    BY DEF Loaded, Copy
  <2>3. env' \in held \cup {Default}
    BY <1>4, <2>2 DEF LoadNone, LoadOther
  <2>4. {Loaded(c) : c \in Copy} \cup {Default} = held \cup {Default}
    BY DEF Loaded, Copy
  <2>5. maybe' = maybe \cup held \cup {Default} /\ stored' = stored
    BY <2>1, <2>4 DEF Unread
  <2> QED
    BY <1>2, <2>1, <2>3, <2>5 DEF Store!Misread
<1>5. ASSUME NEW v \in Value, SetEnv(v) PROVE Store!Set(v) /\ v \in Contents
  BY <1>2, <1>5 DEF SetEnv, Store!Set, flash, history, Contents, Phase, Saving
<1>6. CASE Save
  BY <1>2, <1>6 DEF Save, Store!BeginSave, flash, Phase, Saving
<1>7. CASE Setup \/ Backup \/ Export
  <2>1. UNCHANGED data /\ Phase = "save"
    BY <1>7 DEF Setup, Backup, Export, flash, Phase, Saving
  <2>2. CASE Phase' = "save" /\ UNCHANGED <<env, stored, maybe>>
    BY <1>2, <2>1, <2>2
  <2>3. CASE Backup /\ SucceededUnwritten /\ ~ Redundant
    BY <1>2, <2>1, <2>3 DEF Backup, SucceededUnwritten, Store!Pretend, Phase, Saving
  <2>4. CASE Phase' = "save" /\ env' = Default /\ maybe' = maybe \cup {Default} /\ stored' = stored
    BY <1>2, <2>1, <2>4 DEF Store!Reset
  <2> QED
    BY <1>7, <2>2, <2>3, <2>4 DEF Setup, Backup, Export, Goto, Failed, history, Phase, Saving
<1>8. CASE Erase \/ Write \/ Obsolete
  <2>1. env \in maybe /\ Phase = "save"
    BY <1>8 DEF Erase, Write, Obsolete, IInv, Saving, Phase
  <2>2. FlashStep
    BY <1>8 DEF Erase, Write, Obsolete, Partly, FlashStep
  <2>3. held' \in SUBSET (held \cup {env})
    BY <2>2, CopyFacts DEF FlashStep, EraseNew, WriteNew, MarkOld, flash, Copy, IInv, TypeOK
  <2>4. CASE Succeeded
    <3>1. env \in held'
      <4>0. env # Bad /\ New \in Copy
        BY CopyFacts DEF IInv, TypeOK, Contents, Bad, Default
      <4>1. CASE Write /\ WriteNew
        <5>1. data'[New] = env
          BY <4>0, <4>1 DEF WriteNew, IInv, TypeOK
        <5> QED
          BY <4>0, <5>1
      <4>2. CASE Obsolete
        <5>1. Redundant /\ data'[New] = env
          BY <2>4, <4>2 DEF Obsolete, Succeeded, Failed, Goto, MarkOld, IInv, SingleOK
        <5> QED
          BY <4>0, <5>1
      <4> QED
        BY <1>8, <2>4, <4>1, <4>2 DEF Erase, Write, Failed, Goto, Succeeded
    <3> QED
      BY <1>2, <2>1, <2>3, <2>4, <3>1 DEF Succeeded, Store!Commit, Store!Change, Phase, Saving
  <2>5. CASE Phase' = "save" /\ UNCHANGED <<env, stored, maybe>>
    BY <1>2, <2>1, <2>3, <2>5 DEF Store!Work, Store!Change
  <2> QED
    BY <1>8, <2>4, <2>5 DEF Erase, Write, Obsolete, Goto, Failed, history, Phase, Saving
<1>9. CASE PowerLoss
  <2>1. /\ Phase # "boot" /\ Phase' = "boot" /\ env' = Default /\ UNCHANGED <<stored, maybe>>
        /\ FlashStep /\ (Phase # "save" => UNCHANGED data)
    BY <1>9 DEF PowerLoss, Partly, FlashStep, history, Phase, Saving, flash, IInv, TypeOK
  <2>2. held' \in SUBSET (held \cup {env})
    BY <2>1, CopyFacts DEF FlashStep, EraseNew, WriteNew, MarkOld, flash, Copy, IInv, TypeOK
  <2> QED
    BY <1>2, <2>1, <2>2 DEF Store!Lose, Store!Change
<1> QED
  BY <1>3, <1>4, <1>5, <1>6, <1>7, <1>8, <1>9 DEF Next, Load, SaveStep

(* The environment in flash implements EnvStore, whatever fails: it is     *)
(* atomic with two copies, and only a save changes what it holds.          *)
THEOREM StoreIsImplemented == Spec => ImplementsStore
<1>1. Init => Store!Init
  BY DEF Init, Store!Init, Builds, Redundant, Phase, Saving, Copy
<1>2. IInv /\ [Next]_vars => [Store!Next]_(Store!vars)
  BY NextRefines
<1> QED
  BY <1>1, <1>2, InductiveInvariant, PTL DEF Spec, ImplementsStore, Store!Spec

-----------------------------------------------------------------------------
(* TftpPut                                                                 *)

LEMMA PutFacts ==
  /\ FileBlocks \in Nat /\ FileBlocks > 0 /\ SequenceSize \in Nat /\ SequenceSize > 1
  /\ 0 \in Num
BY SizeAssumption DEF Num

LEMMA BlockNumber ==
  /\ \A n \in Nat : n % SequenceSize \in Num
  /\ \A n \in Nat : n < SequenceSize => n % SequenceSize = n
BY SizeAssumption DEF Num

(* A packet leaves the network or stays, and those that answer it come.    *)
LEMMA ArrivesPackets ==
  ASSUME PutInv, NEW m \in packets, NEW answer, PacketArrives(m, answer), \A a \in answer : PacketOK(a)
  PROVE  (\A a \in packets' : PacketOK(a)) /\ repeats' \in 0 .. MaxRepeat
<1>1. packets' \subseteq packets \cup answer
  BY DEF PacketArrives
<1>2. repeats' \in 0 .. MaxRepeat
  BY SizeAssumption DEF PacketArrives, PutInv, ReceivedIsPrefix, PutTypeOK
<1> QED
  BY <1>1, <1>2 DEF PutInv

(* The packets that are sent, whatever was received.                       *)
LEMMA PacketsOK ==
  /\ PacketOK(Wrq) /\ PacketOK(Unreachable)
  /\ \A n \in Nat : PacketOK(ServerAnswer(n))
  /\ \A num \in Num : PacketOK(Packet(num))
<1>1. PacketOK(Wrq) /\ PacketOK(Unreachable)
  BY DEF PacketOK, Wrq, Unreachable
<1>2. ASSUME NEW n \in Nat PROVE PacketOK(ServerAnswer(n))
  BY BlockNumber DEF PacketOK, ServerAnswer, Oack, Ack
<1>3. ASSUME NEW num \in Num PROVE PacketOK(Packet(num))
  BY <1>1 DEF PacketOK, Packet, Data
<1> QED
  BY <1>1, <1>2, <1>3

(* tftp_send counts what it sends.                                         *)
LEMMA SendTypes ==
  ASSUME PutTypeOK, NEW num, Send(num)
  PROVE  finalSent' \in BOOLEAN /\ sends' \in Nat
<1>1. finalSent' \in BOOLEAN
  BY Zenon DEF PutTypeOK, Send
<1>2. sends' \in Nat
  BY DEF PutTypeOK, Send
<1> QED
  BY <1>1, <1>2

(* A step of the client that leaves the server alone.                      *)
LEMMA ClientInv ==
  ASSUME PutInv, NEW m \in packets,
         ReceiveOack(m) \/ ReceiveAck(m) \/ ReceiveLastAck(m) \/ ReceiveIcmp(m)
  PROVE  PutInv'
<1>0. PutTypeOK /\ PacketOK(m) /\ curBlock \in Nat
  BY SizeAssumption DEF PutInv, ReceivedIsPrefix, PutTypeOK, Num
<1>1. received' = received /\ open' = open /\ timeouts' = timeouts /\ putResult' = putResult
  BY DEF ReceiveOack, ReceiveAck, ReceiveLastAck, ReceiveIcmp
<1>2. /\ (\A a \in packets' : PacketOK(a)) /\ repeats' \in 0 .. MaxRepeat
      /\ curBlock' \in Num /\ finalSent' \in BOOLEAN /\ sends' \in Nat
      /\ state' \in {"SEND_WRQ", "DATA"} /\ netState' \in {"CONTINUE", "SUCCESS", "FAIL", "returned"}
  <2>1. CASE ReceiveOack(m)
    <3>1. /\ state' = "DATA" /\ curBlock' = (curBlock + 1) % SequenceSize /\ Send(curBlock')
          /\ PacketArrives(m, {Packet(curBlock')}) /\ netState' = netState
      BY <2>1 DEF ReceiveOack
    <3>2. curBlock' \in Num
      BY <1>0, <3>1, BlockNumber
    <3>3. \A a \in {Packet(curBlock')} : PacketOK(a)
      BY <3>2, PacketsOK
    <3> QED
      BY <1>0, <3>1, <3>2, <3>3, ArrivesPackets, SendTypes DEF PutTypeOK
  <2>2. CASE ReceiveAck(m)
    <3>1. /\ curBlock' = (m.num + 1) % SequenceSize /\ netState' = netState /\ state' = state
          /\ m.num \in Num
      BY <1>0, <2>2 DEF ReceiveAck, ForClient, PacketOK
    <3>2. curBlock' \in Num
      BY <3>1, PutFacts, BlockNumber DEF Num
    <3>3. \A a \in {Packet(curBlock')} : PacketOK(a)
      BY <3>2, PacketsOK
    <3>4. CASE Send(curBlock') /\ PacketArrives(m, {Packet(curBlock')})
      BY <1>0, <3>1, <3>2, <3>3, <3>4, ArrivesPackets, SendTypes DEF PutTypeOK
    <3>5. CASE PacketArrives(m, {}) /\ UNCHANGED <<finalSent, sends>>
      BY <1>0, <3>1, <3>2, <3>5, ArrivesPackets DEF PutTypeOK
    <3> QED
      BY <2>2, <3>4, <3>5 DEF ReceiveAck
  <2>3. CASE ReceiveLastAck(m) \/ ReceiveIcmp(m)
    <3>1. PacketArrives(m, {}) /\ UNCHANGED <<state, curBlock, finalSent, sends>>
          /\ netState' \in {"SUCCESS", "FAIL"}
      BY <2>3 DEF ReceiveLastAck, ReceiveIcmp
    <3> QED
      BY <1>0, <3>1, ArrivesPackets DEF PutTypeOK
  <2> QED
    BY <2>1, <2>2, <2>3
<1> QED
  BY <1>0, <1>1, <1>2 DEF PutInv, ReceivedIsPrefix, PutTypeOK

(* The server stores the block that it expects: while the numbers do not   *)
(* wrap, the packet with its number carries it.                            *)
LEMMA ServeDataInv ==
  ASSUME PutInv, FileBlocks < SequenceSize, NEW m \in packets, ServeData(m)
  PROVE  PutInv'
<1>0. PutTypeOK /\ PacketOK(m) /\ UNCHANGED <<client, open>> /\ m.type = "DATA"
  BY DEF PutInv, ReceivedIsPrefix, ServeData
<1> DEFINE n == Len(received)
<1>1. n \in Nat /\ received \in Seq(Block \cup {0}) /\ n <= FileBlocks
  BY <1>0 DEF PutTypeOK, PutInv
<1>2. CASE m.num = (n + 1) % SequenceSize /\ ~ Complete
           /\ received' = Append(received, m.content) /\ PacketArrives(m, {ServerAnswer(n + 1)})
  <2>1. n < FileBlocks
    <3>1. CASE n = 0
      BY <3>1, PutFacts
    <3>2. CASE n > 0
      <4>1. n \in DOMAIN received
        BY <1>1, <3>2
      <4> QED
        BY <1>1, <1>2, <3>2, <4>1, PutFacts DEF PutInv, ReceivedIsPrefix, Complete
    <3> QED
      BY <1>1, <3>1, <3>2
  <2>2. m.num = n + 1
    <3>1. n + 1 \in Nat /\ n + 1 < SequenceSize
      BY <1>1, <2>1, PutFacts
    <3> QED
      BY <1>2, <3>1, BlockNumber
  <2>3. m.content = n + 1 /\ n + 1 \in Block
    <3>1. n + 1 \in Block
      BY <1>1, <2>1, PutFacts DEF Block
    <3>2. m.content = Content(n + 1)
      BY <1>0, <2>2 DEF PacketOK
    <3> QED
      BY <3>1, <3>2 DEF Content
  <2>4. /\ received' \in Seq(Block \cup {0}) /\ Len(received') = n + 1
        /\ \A i \in DOMAIN received' : received'[i] = i
    BY <1>1, <1>2, <2>3 DEF PutInv, ReceivedIsPrefix
  <2>5. \A a \in {ServerAnswer(n + 1)} : PacketOK(a)
    BY <1>1, PacketsOK
  <2>6. (\A a \in packets' : PacketOK(a)) /\ repeats' \in 0 .. MaxRepeat
    <3> HIDE DEF n
    <3> QED
      BY <1>2, <2>5, ArrivesPackets
  <2>7. PutTypeOK'
    BY <1>0, <2>4, <2>6 DEF PutTypeOK, client
  <2>8. Len(received') <= FileBlocks
    BY <1>1, <2>1, <2>4, PutFacts
  <2> QED
    BY <2>4, <2>6, <2>7, <2>8 DEF PutInv, ReceivedIsPrefix
<1>3. CASE UNCHANGED received /\ \E a \in {ServerAnswer(n), Unreachable} : PacketArrives(m, {a})
  <2>1. (\A a \in packets' : PacketOK(a)) /\ repeats' \in 0 .. MaxRepeat
    <3>1. PICK a \in {ServerAnswer(n), Unreachable} : PacketArrives(m, {a})
      BY <1>3
    <3>2. \A b \in {a} : PacketOK(b)
      BY <1>1, <3>1, PacketsOK
    <3> QED
      BY <3>1, <3>2, ArrivesPackets
  <2> QED
    BY <1>0, <1>1, <1>3, <2>1 DEF PutInv, ReceivedIsPrefix, PutTypeOK, client
<1> QED
  BY <1>2, <1>3 DEF ServeData

(* The steps that concern no packet, or the request alone.                 *)
LEMMA QuietPut ==
  ASSUME PutInv, (\E m \in packets : ServeWrq(m)) \/ Retransmit \/ PutTimeout \/ Loop
  PROVE  PutInv'
<1>0. PutTypeOK /\ Len(received) \in Nat
  BY DEF PutInv, ReceivedIsPrefix, PutTypeOK
<1>1. ASSUME NEW m \in packets, ServeWrq(m) PROVE PutInv'
  <2>1. \A a \in {ServerAnswer(0)} : PacketOK(a)
    BY PacketsOK
  <2>2. (\A a \in packets' : PacketOK(a)) /\ repeats' \in 0 .. MaxRepeat
    BY <1>1, <2>1, ArrivesPackets DEF ServeWrq
  <2> QED
    BY <1>0, <1>1, <2>2 DEF PutInv, ReceivedIsPrefix, PutTypeOK, client, ServeWrq
<1>2. CASE Retransmit
  <2>1. \A a \in packets' : PacketOK(a)
    BY <1>0, <1>2, PacketsOK DEF PutInv, Retransmit
  <2> QED
    BY <1>0, <1>2, <2>1, SizeAssumption DEF PutInv, ReceivedIsPrefix, PutTypeOK, client, Retransmit
<1>3. CASE PutTimeout
  <2>0. /\ UNCHANGED <<putResult, state, curBlock, open, received, repeats>>
        /\ timeouts' \in 0 .. TimeoutCountMax + 1
    BY <1>0, <1>3, SizeAssumption DEF PutTypeOK, PutTimeout
  <2>1. /\ \A a \in packets' : PacketOK(a)
        /\ finalSent' \in BOOLEAN /\ sends' \in Nat
        /\ netState' \in {"CONTINUE", "SUCCESS", "FAIL", "returned"}
    <3>1. CASE netState' = "FAIL" /\ UNCHANGED <<finalSent, sends, packets>>
      BY <1>0, <3>1 DEF PutInv, PutTypeOK
    <3>2. CASE Send(curBlock) /\ packets' = packets \cup {Packet(curBlock)} /\ UNCHANGED netState
      <4>1. curBlock \in Num /\ PacketOK(Packet(curBlock))
        BY <1>0, PacketsOK DEF PutTypeOK
      <4> QED
        BY <1>0, <3>2, <4>1, SendTypes DEF PutInv, PutTypeOK
    <3> QED
      BY <1>3, <3>1, <3>2 DEF PutTimeout
  <2> QED
    BY <1>0, <2>0, <2>1 DEF PutInv, ReceivedIsPrefix, PutTypeOK
<1>4. CASE Loop
  BY <1>0, <1>4 DEF PutInv, ReceivedIsPrefix, PutTypeOK, Loop
<1> QED
  BY <1>1, <1>2, <1>3, <1>4

LEMMA PutInitInv == PutInit => PutInv
<1> SUFFICES ASSUME PutInit PROVE PutInv
  OBVIOUS
<1>1. received \in Seq(Block \cup {0}) /\ Len(received) = 0 /\ DOMAIN received = {}
  BY DEF PutInit
<1>2. \A m \in packets : PacketOK(m)
  BY PacketsOK DEF PutInit
<1>3. PutTypeOK
  <2>1. curBlock \in Num /\ sends \in Nat
    BY PutFacts DEF PutInit
  <2>2. timeouts \in 0 .. TimeoutCountMax + 1 /\ repeats \in 0 .. MaxRepeat
    BY SizeAssumption DEF PutInit
  <2> QED
    BY <1>1, <2>1, <2>2 DEF PutInit, PutTypeOK
<1> QED
  BY <1>1, <1>2, <1>3, PutFacts DEF PutInv, ReceivedIsPrefix

LEMMA PutNextInv ==
  ASSUME FileBlocks < SequenceSize, PutInv, [PutNext]_putVars
  PROVE  PutInv'
<1>1. CASE UNCHANGED putVars
  BY <1>1 DEF PutInv, ReceivedIsPrefix, PutTypeOK, PacketOK, putVars, client
<1>2. CASE PutNext
  BY <1>2, ClientInv, ServeDataInv, QuietPut DEF PutNext
<1> QED
  BY <1>1, <1>2

-----------------------------------------------------------------------------
(* SendsBounded *)

Counts ==
  /\ Len(received) \in Nat /\ Len(received) <= FileBlocks
  /\ curBlock \in Nat /\ finalSent \in BOOLEAN
  /\ sends \in Nat /\ timeouts \in Nat /\ repeats \in Nat /\ repeats <= MaxRepeat
  /\ OackAgain \in {0, 1} /\ IsFiniteSet(UsefulPackets) /\ Cardinality(UsefulPackets) \in Nat

Armed == ArmedAt(Len(received), curBlock, finalSent)
Tokens == Cardinality(UsefulPackets)
Paid == sends + Potential <= FileBlocks + 3 * (timeouts + repeats)

LEMMA CountsNow ==
  ASSUME PutInv, IsFiniteSet(packets)
  PROVE  Counts
<1>1. IsFiniteSet(UsefulPackets) /\ Cardinality(UsefulPackets) \in Nat
  BY FS_Subset, FS_CardinalityType DEF UsefulPackets
<1>2. /\ Len(received) \in Nat /\ Len(received) <= FileBlocks /\ curBlock \in Nat
      /\ sends \in Nat /\ timeouts \in Nat /\ repeats \in Nat /\ repeats <= MaxRepeat
  BY SizeAssumption DEF PutInv, ReceivedIsPrefix, PutTypeOK, Num
<1>3. finalSent \in BOOLEAN
  BY DEF PutInv, ReceivedIsPrefix, PutTypeOK
<1> QED
  BY <1>1, <1>2, <1>3 DEF Counts, OackAgain

LEMMA CountsNext ==
  ASSUME PutInv', IsFiniteSet(packets')
  PROVE  Counts'
<1>1. UsefulPackets' \subseteq packets'
  BY DEF UsefulPackets
<1>2. IsFiniteSet(UsefulPackets') /\ Cardinality(UsefulPackets') \in Nat
  BY <1>1, FS_Subset, FS_CardinalityType
<1>3. /\ Len(received') \in Nat /\ Len(received') <= FileBlocks /\ curBlock' \in Nat
      /\ sends' \in Nat /\ timeouts' \in Nat /\ repeats' \in Nat /\ repeats' <= MaxRepeat
  BY SizeAssumption DEF PutInv, ReceivedIsPrefix, PutTypeOK, Num
<1>4. finalSent' \in BOOLEAN
  BY DEF PutInv, ReceivedIsPrefix, PutTypeOK
<1> QED
  BY <1>2, <1>3, <1>4 DEF Counts, OackAgain

(* What is armed, as a number.                                             *)
LEMMA ArmedIs ==
  ASSUME NEW n \in Nat, n <= FileBlocks, NEW cur \in Nat, NEW final \in BOOLEAN
  PROVE  LET a == ArmedAt(n, cur, final) IN
         /\ a \in 0 .. 3 /\ (n = FileBlocks => a >= 1)
         /\ n < FileBlocks \/ cur # FileBlocks \/ final => a <= 2
         /\ cur > n /\ n < FileBlocks /\ (cur # FileBlocks \/ final) => a = 0
         /\ cur > n /\ n = FileBlocks => a = 1
         /\ cur = n /\ n < FileBlocks => a = 1
         /\ cur = n /\ n = FileBlocks => a = IF final THEN 1 ELSE 2
         /\ cur < n => a >= 2
<1>1. FileBlocks \in Nat
  BY PutFacts
<1>2. CASE cur = FileBlocks /\ ~ final
  BY <1>1, <1>2 DEF ArmedAt
<1>3. CASE ~ (cur = FileBlocks /\ ~ final)
  BY <1>1, <1>3 DEF ArmedAt
<1> QED
  BY <1>2, <1>3

(* It grows by one when a block is stored, and does not when the client    *)
(* goes on to the next block or sends the last one.                        *)
LEMMA ArmedStored ==
  ASSUME NEW n \in Nat, n < FileBlocks, NEW cur \in Nat, NEW final \in BOOLEAN
  PROVE  ArmedAt(n + 1, cur, final) <= ArmedAt(n, cur, final) + 1
<1>1. FileBlocks \in Nat
  BY PutFacts
<1>2. CASE cur = FileBlocks /\ ~ final
  BY <1>1, <1>2 DEF ArmedAt
<1>3. CASE ~ (cur = FileBlocks /\ ~ final)
  BY <1>1, <1>3 DEF ArmedAt
<1> QED
  BY <1>2, <1>3

LEMMA ArmedSent ==
  ASSUME NEW n \in Nat, n <= FileBlocks, NEW cur \in Nat, NEW final \in BOOLEAN,
         NEW num \in {cur, cur + 1}, NEW f \in BOOLEAN, f <=> num = FileBlocks
  PROVE  /\ ArmedAt(n, num, f) <= ArmedAt(n, cur, final)
         /\ num = cur + 1 /\ cur \in {n, n - 1} =>
              (n = FileBlocks /\ cur = n /\ final) \/ ArmedAt(n, num, f) = ArmedAt(n, cur, final) - 1
<1>1. FileBlocks \in Nat
  BY PutFacts
<1>2. CASE cur = FileBlocks /\ ~ final
  BY <1>1, <1>2 DEF ArmedAt
<1>3. CASE ~ (cur = FileBlocks /\ ~ final)
  BY <1>1, <1>3 DEF ArmedAt
<1> QED
  BY <1>2, <1>3

LEMMA AllowanceIs ==
  ASSUME NEW n \in Nat, n <= FileBlocks, NEW k \in Nat, NEW a \in Nat, NEW o \in Nat
  PROVE  /\ k > 0 => Allowance(n, k, a, o) = FileBlocks - n + a - 1 + 2 * (k - 1) + o
         /\ k = 0 /\ n = FileBlocks => Allowance(n, k, a, o) = 0
         /\ k = 0 /\ n < FileBlocks => Allowance(n, k, a, o) = FileBlocks - n - 1
         /\ (n = FileBlocks => a >= 1) =>
              /\ Allowance(n, k, a, o) >= 0
              /\ \A t \in Nat : k <= t /\ t >= 1 =>
                   Allowance(n, k, a, o) <= FileBlocks - n + a - 1 + 2 * (t - 1) + o
BY PutFacts DEF Allowance

(* The arithmetic of a step: n, t, a and o are the blocks stored, the      *)
(* useful packets, what is armed and the OACK, s what is sent, c the bound *)
(* and r the packet that is repeated.                                      *)
LEMMA PayOne ==
  ASSUME NEW n \in Nat, NEW np \in Nat, n <= FileBlocks, np <= FileBlocks,
         NEW t \in Nat, NEW tp \in Nat, NEW a \in Nat, NEW ap \in Nat, NEW o \in Nat, NEW op \in Nat,
         NEW s \in Nat, NEW sp \in Nat, NEW c \in Nat, NEW r \in {0, 1},
         np = FileBlocks => ap >= 1, t >= 1,
         s + Allowance(n, t, a, o) <= c, tp <= t + r,
         sp - np + ap + op <= s - n + a + o + r
  PROVE  sp + Allowance(np, tp, ap, op) <= c + 3 * r
<1>0. FileBlocks \in Nat
  BY PutFacts
<1>1. Allowance(n, t, a, o) = FileBlocks - n + a - 1 + 2 * (t - 1) + o
  BY AllowanceIs
<1>2. t + r \in Nat /\ t + r >= 1
  OBVIOUS
<1>3. /\ Allowance(np, tp, ap, op) >= 0
      /\ \A u \in Nat : tp <= u /\ u >= 1 =>
           Allowance(np, tp, ap, op) <= FileBlocks - np + ap - 1 + 2 * (u - 1) + op
  BY AllowanceIs
<1>4. Allowance(np, tp, ap, op) <= FileBlocks - np + ap - 1 + 2 * (t + r - 1) + op
  BY <1>2, <1>3
<1>5. Allowance(np, tp, ap, op) \in Int
  BY <1>0 DEF Allowance
<1> HIDE DEF Allowance
<1> QED
  BY <1>0, <1>1, <1>4, <1>5

LEMMA PayNone ==
  ASSUME NEW n \in Nat, n <= FileBlocks,
         NEW t \in Nat, NEW tp \in Nat, NEW a \in Nat, NEW ap \in Nat, NEW o \in Nat, NEW op \in Nat,
         NEW s \in Nat, NEW sp \in Nat, NEW c \in Nat, NEW r \in {0, 1},
         n = FileBlocks => a >= 1 /\ ap >= 1, t >= 1,
         s + Allowance(n, t, a, o) <= c, tp <= t - 1 + r,
         sp + ap + op <= s + a + o + 2 + r, sp = s \/ (sp = s + 1 /\ a + o >= 2)
  PROVE  sp + Allowance(n, tp, ap, op) <= c + 3 * r
<1>0. FileBlocks \in Nat
  BY PutFacts
<1>1. Allowance(n, t, a, o) = FileBlocks - n + a - 1 + 2 * (t - 1) + o
  BY AllowanceIs
<1>2. Allowance(n, tp, ap, op) \in Int
  BY <1>0 DEF Allowance
<1>3. CASE t - 1 + r >= 1
  <2>1. t - 1 + r \in Nat
    BY <1>3
  <2>2. \A u \in Nat : tp <= u /\ u >= 1 =>
          Allowance(n, tp, ap, op) <= FileBlocks - n + ap - 1 + 2 * (u - 1) + op
    BY AllowanceIs
  <2> DEFINE v == t - 1 + r
  <2>3. Allowance(n, tp, ap, op) <= FileBlocks - n + ap - 1 + 2 * (v - 1) + op
    <3>1. v \in Nat /\ v >= 1 /\ tp <= v
      BY <1>3, <2>1
    <3> HIDE DEF v
    <3> QED
      BY <2>2, <3>1
  <2> QED
    BY <1>0, <1>1, <1>2, <2>3
<1>4. CASE t - 1 + r = 0
  <2>1. tp = 0 /\ t = 1 /\ r = 0
    BY <1>4
  <2>2. CASE n = FileBlocks
    <3>1. Allowance(n, tp, ap, op) = 0
      BY <2>1, <2>2, AllowanceIs
    <3> QED
      BY <1>0, <1>1, <2>1, <2>2, <3>1
  <2>3. CASE n < FileBlocks
    <3>1. Allowance(n, tp, ap, op) = FileBlocks - n - 1
      BY <2>1, <2>3, AllowanceIs
    <3> QED
      BY <1>0, <1>1, <2>1, <2>3, <3>1
  <2> QED
    BY <1>0, <2>2, <2>3
<1> QED
  BY <1>3, <1>4

(* A timeout, or a packet that is repeated.                                *)
LEMMA PayMore ==
  ASSUME NEW n \in Nat, n <= FileBlocks,
         NEW t \in Nat, NEW tp \in Nat, NEW a \in Nat, NEW ap \in Nat, NEW o \in Nat, NEW op \in Nat,
         NEW s \in Nat, NEW sp \in Nat, NEW c \in Nat,
         n = FileBlocks => ap >= 1, n < FileBlocks => ap <= 2, ap <= 3, ap <= a,
         s + Allowance(n, t, a, o) <= c, tp <= t + 1,
         sp + op <= s + o + 1, t = 0 => o = 0
  PROVE  sp + Allowance(n, tp, ap, op) <= c + 3
<1>0. FileBlocks \in Nat
  BY PutFacts
<1>1. /\ t > 0 => Allowance(n, t, a, o) = FileBlocks - n + a - 1 + 2 * (t - 1) + o
      /\ t = 0 /\ n = FileBlocks => Allowance(n, t, a, o) = 0
      /\ t = 0 /\ n < FileBlocks => Allowance(n, t, a, o) = FileBlocks - n - 1
  BY AllowanceIs
<1>2. Allowance(n, tp, ap, op) \in Int
  BY <1>0 DEF Allowance
<1>3. \A u \in Nat : tp <= u /\ u >= 1 =>
        Allowance(n, tp, ap, op) <= FileBlocks - n + ap - 1 + 2 * (u - 1) + op
  BY AllowanceIs
<1>4. Allowance(n, tp, ap, op) <= FileBlocks - n + ap - 1 + 2 * t + op
  <2> DEFINE v == t + 1
  <2>1. v \in Nat /\ v >= 1 /\ tp <= v /\ v - 1 = t
    OBVIOUS
  <2> HIDE DEF v
  <2> QED
    BY <1>3, <2>1
<1>5. CASE t > 0
  BY <1>0, <1>1, <1>2, <1>4, <1>5
<1>6. CASE t = 0 /\ n = FileBlocks
  BY <1>0, <1>1, <1>2, <1>4, <1>6
<1>7. CASE t = 0 /\ n < FileBlocks
  BY <1>0, <1>1, <1>2, <1>4, <1>7
<1> QED
  BY <1>0, <1>5, <1>6, <1>7

(* What is counted, before and after a step.                               *)
LEMMA Numbers ==
  ASSUME Counts
  PROVE  /\ Len(received) \in Nat /\ Len(received) <= FileBlocks /\ Armed \in 0 .. 3 /\ Armed \in Nat
         /\ (Len(received) = FileBlocks => Armed >= 1) /\ (Len(received) < FileBlocks => Armed <= 2)
         /\ Tokens \in Nat /\ OackAgain \in Nat /\ sends \in Nat
         /\ timeouts \in Nat /\ repeats \in Nat
         /\ Potential = Allowance(Len(received), Tokens, Armed, OackAgain)
<1>1. /\ Len(received) \in Nat /\ Len(received) <= FileBlocks /\ curBlock \in Nat /\ finalSent \in BOOLEAN
      /\ Tokens \in Nat /\ OackAgain \in Nat /\ sends \in Nat /\ timeouts \in Nat /\ repeats \in Nat
  BY DEF Counts, Tokens
<1>2. /\ Armed \in 0 .. 3 /\ (Len(received) = FileBlocks => Armed >= 1)
      /\ (Len(received) < FileBlocks => Armed <= 2)
  BY <1>1, ArmedIs DEF Armed
<1>3. Potential = Allowance(Len(received), Tokens, Armed, OackAgain)
  BY DEF Potential, Tokens, Armed
<1> QED
  BY <1>1, <1>2, <1>3

LEMMA NumbersNext ==
  ASSUME Counts'
  PROVE  /\ Len(received') \in Nat /\ Len(received') <= FileBlocks /\ Armed' \in 0 .. 3 /\ Armed' \in Nat
         /\ (Len(received') = FileBlocks => Armed' >= 1) /\ (Len(received') < FileBlocks => Armed' <= 2)
         /\ Tokens' \in Nat /\ OackAgain' \in Nat /\ sends' \in Nat
         /\ timeouts' \in Nat /\ repeats' \in Nat
         /\ Potential' = Allowance(Len(received'), Tokens', Armed', OackAgain')
<1>1. /\ Len(received') \in Nat /\ Len(received') <= FileBlocks /\ curBlock' \in Nat /\ finalSent' \in BOOLEAN
      /\ Tokens' \in Nat /\ OackAgain' \in Nat /\ sends' \in Nat /\ timeouts' \in Nat /\ repeats' \in Nat
  BY DEF Counts, Tokens
<1>2. Armed' = ArmedAt(Len(received'), curBlock', finalSent')
  BY DEF Armed
<1>3. /\ Armed' \in 0 .. 3 /\ (Len(received') = FileBlocks => Armed' >= 1)
      /\ (Len(received') < FileBlocks => Armed' <= 2)
  BY <1>1, <1>2, ArmedIs
<1>4. Potential' = Allowance(Len(received'), Tokens', Armed', OackAgain')
  BY <1>2 DEF Potential, Tokens
<1> QED
  BY <1>1, <1>3, <1>4

(* The same for the state: a step in which a packet arrives ...            *)
LEMMA PaysOne ==
  ASSUME Counts, Paid, Counts', Tokens >= 1, timeouts' = timeouts, NEW r \in {0, 1},
         repeats' = repeats + r, Tokens' <= Tokens + r,
         sends' - Len(received') + Armed' + OackAgain' <= sends - Len(received) + Armed + OackAgain + r
  PROVE  Paid'
<1> DEFINE c == FileBlocks + 3 * (timeouts + repeats)
<1>1. /\ Len(received) \in Nat /\ Len(received) <= FileBlocks /\ Armed \in Nat
      /\ Tokens \in Nat /\ OackAgain \in Nat /\ sends \in Nat
      /\ Len(received') \in Nat /\ Len(received') <= FileBlocks /\ Armed' \in Nat
      /\ (Len(received') = FileBlocks => Armed' >= 1)
      /\ Tokens' \in Nat /\ OackAgain' \in Nat /\ sends' \in Nat
  BY Numbers, NumbersNext
<1>2a. timeouts \in Nat /\ repeats \in Nat /\ FileBlocks \in Nat
  BY Numbers, PutFacts
<1>2. c \in Nat /\ timeouts \in Nat /\ repeats \in Nat /\ FileBlocks \in Nat
  BY <1>2a
<1>3. sends + Allowance(Len(received), Tokens, Armed, OackAgain) <= c
  BY Numbers DEF Paid
<1>4. FileBlocks + 3 * (timeouts' + repeats') = c + 3 * r
  BY <1>2
<1>5. sends' + Allowance(Len(received'), Tokens', Armed', OackAgain') <= c + 3 * r
  <2> HIDE DEF c
  <2> QED
    BY <1>1, <1>2, <1>3, PayOne
<1> QED
  BY <1>4, <1>5, NumbersNext DEF Paid

LEMMA PaysNone ==
  ASSUME Counts, Paid, Counts', Tokens >= 1, timeouts' = timeouts, NEW r \in {0, 1},
         repeats' = repeats + r, received' = received, Tokens' <= Tokens - 1 + r,
         sends' + Armed' + OackAgain' <= sends + Armed + OackAgain + 2 + r,
         sends' = sends \/ (sends' = sends + 1 /\ Armed + OackAgain >= 2)
  PROVE  Paid'
<1> DEFINE c == FileBlocks + 3 * (timeouts + repeats)
<1>1. /\ Len(received) \in Nat /\ Len(received) <= FileBlocks /\ Armed \in Nat
      /\ Tokens \in Nat /\ OackAgain \in Nat /\ sends \in Nat
      /\ (Len(received) = FileBlocks => Armed >= 1 /\ Armed' >= 1)
      /\ Armed' \in Nat /\ Tokens' \in Nat /\ OackAgain' \in Nat /\ sends' \in Nat
  BY Numbers, NumbersNext
<1>2a. timeouts \in Nat /\ repeats \in Nat /\ FileBlocks \in Nat
  BY Numbers, PutFacts
<1>2. c \in Nat /\ timeouts \in Nat /\ repeats \in Nat /\ FileBlocks \in Nat
  BY <1>2a
<1>3. sends + Allowance(Len(received), Tokens, Armed, OackAgain) <= c
  BY Numbers DEF Paid
<1>4. FileBlocks + 3 * (timeouts' + repeats') = c + 3 * r
  BY <1>2
<1>5. sends' + Allowance(Len(received), Tokens', Armed', OackAgain') <= c + 3 * r
  <2> HIDE DEF c
  <2> QED
    BY <1>1, <1>2, <1>3, PayNone
<1>6. Potential' = Allowance(Len(received), Tokens', Armed', OackAgain')
  BY NumbersNext
<1> QED
  BY <1>4, <1>5, <1>6 DEF Paid

(* ... and a timeout, of the client or of the server.                      *)
LEMMA PaysMore ==
  ASSUME Counts, Paid, Counts', timeouts' + repeats' = timeouts + repeats + 1,
         received' = received, Tokens' <= Tokens + 1, Armed' <= Armed,
         sends' + OackAgain' <= sends + OackAgain + 1, Tokens = 0 => OackAgain = 0
  PROVE  Paid'
<1> DEFINE c == FileBlocks + 3 * (timeouts + repeats)
<1>1. /\ Len(received) \in Nat /\ Len(received) <= FileBlocks /\ Armed \in Nat
      /\ Tokens \in Nat /\ OackAgain \in Nat /\ sends \in Nat
      /\ (Len(received) = FileBlocks => Armed' >= 1) /\ (Len(received) < FileBlocks => Armed' <= 2)
      /\ Armed' \in Nat /\ Armed' <= 3 /\ Tokens' \in Nat /\ OackAgain' \in Nat /\ sends' \in Nat
  <2>1. Armed' \in 0 .. 3 /\ Tokens' \in Nat /\ OackAgain' \in Nat /\ sends' \in Nat
    BY NumbersNext
  <2>2. (Len(received) = FileBlocks => Armed' >= 1) /\ (Len(received) < FileBlocks => Armed' <= 2)
    BY NumbersNext
  <2>3. /\ Len(received) \in Nat /\ Len(received) <= FileBlocks /\ Armed \in Nat
        /\ Tokens \in Nat /\ OackAgain \in Nat /\ sends \in Nat
    BY Numbers
  <2>4. Armed' \in Nat /\ Armed' <= 3
    BY <2>1
  <2> QED
    BY <2>1, <2>2, <2>3, <2>4
<1>2a. timeouts \in Nat /\ repeats \in Nat /\ FileBlocks \in Nat
  BY Numbers, PutFacts
<1>2. c \in Nat /\ timeouts \in Nat /\ repeats \in Nat /\ FileBlocks \in Nat
  BY <1>2a
<1>3. sends + Allowance(Len(received), Tokens, Armed, OackAgain) <= c
  BY Numbers DEF Paid
<1>4. FileBlocks + 3 * (timeouts' + repeats') = c + 3
  BY <1>2
<1>5. sends' + Allowance(Len(received), Tokens', Armed', OackAgain') <= c + 3
  <2> HIDE DEF c
  <2> QED
    BY <1>1, <1>2, <1>3, PayMore
<1>6. Potential' = Allowance(Len(received), Tokens', Armed', OackAgain')
  BY NumbersNext
<1> QED
  BY <1>4, <1>5, <1>6 DEF Paid

(* A set that loses an element and gains another is no larger.             *)
LEMMA CountAdded ==
  ASSUME NEW T, IsFiniteSet(T), NEW a, NEW U, U \subseteq T \cup {a}
  PROVE  Cardinality(U) <= Cardinality(T) + 1
<1>1. IsFiniteSet(T \cup {a}) /\ Cardinality(T \cup {a}) <= Cardinality(T) + 1
  <2>1. Cardinality(T) \in Nat
    BY FS_CardinalityType
  <2>2. CASE a \in T
    <3>1. T \cup {a} = T
      BY <2>2
    <3>2. IsFiniteSet(T \cup {a}) /\ Cardinality(T \cup {a}) = Cardinality(T)
      BY <3>1, Zenon
    <3> QED
      BY <2>1, <3>2
  <2>3. CASE a \notin T
    <3>1. IsFiniteSet(T \cup {a}) /\ Cardinality(T \cup {a}) = Cardinality(T) + 1
      BY <2>3, FS_AddElement
    <3> QED
      BY <2>1, <3>1
  <2> QED
    BY <2>2, <2>3
<1>2. Cardinality(U) <= Cardinality(T \cup {a}) /\ Cardinality(U) \in Nat
  BY <1>1, FS_Subset, FS_CardinalityType
<1> QED
  BY <1>1, <1>2, FS_CardinalityType

LEMMA CountRemoved ==
  ASSUME NEW T, IsFiniteSet(T), NEW m \in T, NEW a, NEW U
  PROVE  /\ Cardinality(T) >= 1
         /\ U \subseteq (T \ {m}) => Cardinality(U) <= Cardinality(T) - 1
         /\ U \subseteq (T \ {m}) \cup {a} => Cardinality(U) <= Cardinality(T)
<1>1. IsFiniteSet(T \ {m}) /\ Cardinality(T \ {m}) = Cardinality(T) - 1
  BY FS_RemoveElement
<1>2. Cardinality(T) \in Nat /\ Cardinality(T \ {m}) \in Nat
  BY <1>1, FS_CardinalityType
<1>3. U \subseteq (T \ {m}) => Cardinality(U) <= Cardinality(T) - 1
  BY <1>1, FS_Subset
<1>4. U \subseteq (T \ {m}) \cup {a} => Cardinality(U) <= Cardinality(T \ {m}) + 1
  BY <1>1, CountAdded
<1> QED
  BY <1>1, <1>2, <1>3, <1>4

LEMMA CountKept ==
  ASSUME NEW T, IsFiniteSet(T), NEW U, U \subseteq T
  PROVE  Cardinality(U) <= Cardinality(T)
BY FS_Subset

(* The packets that a step takes from the network and puts on it.          *)
LEMMA Kinds ==
  /\ Oack.type = "OACK" /\ Wrq.type = "WRQ" /\ Unreachable.type = "ICMP"
  /\ Options => ServerAnswer(0) = Oack
  /\ \A n \in Nat : n > 0 \/ ~ Options =>
       ServerAnswer(n).type = "ACK" /\ ServerAnswer(n).num = n % SequenceSize
  /\ \A num : IF state' = "SEND_WRQ" THEN Packet(num) = Wrq
              ELSE Packet(num).type = "DATA" /\ Packet(num).num = num
<1>1. Oack.type = "OACK" /\ Wrq.type = "WRQ" /\ Unreachable.type = "ICMP"
  BY DEF Oack, Wrq, Unreachable
<1>2. Options => ServerAnswer(0) = Oack
  BY DEF ServerAnswer
<1>3. ASSUME NEW n \in Nat, n > 0 \/ ~ Options
      PROVE  ServerAnswer(n).type = "ACK" /\ ServerAnswer(n).num = n % SequenceSize
  BY <1>3 DEF ServerAnswer, Ack
<1>4. ASSUME NEW num
      PROVE  IF state' = "SEND_WRQ" THEN Packet(num) = Wrq
             ELSE Packet(num).type = "DATA" /\ Packet(num).num = num
  BY DEF Packet, Data
<1> QED
  BY <1>1, <1>2, <1>3, <1>4

LEMMA Moves ==
  ASSUME SendsInv, NEW m \in packets, NEW answer, PacketArrives(m, answer)
  PROVE  \E r \in {0, 1} : /\ repeats' = repeats + r
                           /\ packets' \subseteq packets \cup answer
                           /\ m \in packets' => r = 1 \/ m \in answer
<1>1. repeats \in Nat
  BY CountsNow DEF SendsInv, Counts
<1>2. CASE packets' = (packets \ {m}) \cup answer /\ UNCHANGED repeats
  BY <1>1, <1>2
<1>3. CASE packets' = packets \cup answer /\ repeats' = repeats + 1
  BY <1>1, <1>3
<1> QED
  BY <1>2, <1>3 DEF PacketArrives

(* A useful packet arrives and one packet, or none, answers it.            *)
LEMMA Exchange ==
  ASSUME SendsInv, NEW m \in packets, Useful(m), NEW a, NEW answer, answer \in {{}, {a}},
         PacketArrives(m, answer), Len(received') \in Nat, Len(received) <= Len(received')
  PROVE  /\ IsFiniteSet(packets') /\ Tokens >= 1
         /\ Tokens' <= Tokens + (repeats' - repeats)
         /\ answer = {} \/ ~ Useful(a)' => Tokens' <= Tokens - 1 + (repeats' - repeats)
<1>0. /\ IsFiniteSet(packets) /\ IsFiniteSet(UsefulPackets) /\ repeats \in Nat /\ m \in UsefulPackets
      /\ Len(received) \in Nat /\ Tokens \in Nat /\ FileBlocks \in Nat
  BY CountsNow, PutFacts DEF SendsInv, Counts, UsefulPackets, Tokens
<1>1. IsFiniteSet(answer)
  <2>1. IsFiniteSet({}) /\ IsFiniteSet({a})
    BY FS_EmptySet, FS_Singleton
  <2> QED
    BY <2>1
<1>2. IsFiniteSet(packets')
  <2>1. IsFiniteSet(packets \cup answer)
    BY <1>0, <1>1, FS_Union
  <2>2. packets' \subseteq packets \cup answer
    BY DEF PacketArrives
  <2> QED
    BY <2>1, <2>2, FS_Subset
<1>3. ASSUME NEW x, Useful(x)' PROVE Useful(x)
  <2>1. CASE x.type = "DATA"
    <3>1. x.num \in Len(received') .. FileBlocks
      BY <1>3, <2>1 DEF Useful
    <3> QED
      BY <1>0, <3>1 DEF Useful
  <2>2. CASE x.type # "DATA"
    BY <2>2 DEF Useful
  <2> QED
    BY <2>1, <2>2
<1>4. UsefulPackets' = {x \in packets' : Useful(x)'}
  BY DEF UsefulPackets
<1>5. CASE packets' = (packets \ {m}) \cup answer /\ UNCHANGED repeats
  <2>1. UsefulPackets' \subseteq (UsefulPackets \ {m}) \cup {a}
    BY <1>3, <1>4, <1>5 DEF UsefulPackets
  <2>2. answer = {} \/ ~ Useful(a)' => UsefulPackets' \subseteq (UsefulPackets \ {m})
    BY <1>3, <1>4, <1>5 DEF UsefulPackets
  <2>3. /\ Tokens >= 1 /\ Tokens' <= Tokens
        /\ answer = {} \/ ~ Useful(a)' => Tokens' <= Tokens - 1
    BY <1>0, <2>1, <2>2, CountRemoved DEF Tokens
  <2>4. repeats' - repeats = 0
    BY <1>0, <1>5
  <2>5. Tokens' \in Nat
    BY <1>2, <1>4, FS_Subset, FS_CardinalityType DEF Tokens
  <2> QED
    BY <1>0, <1>2, <2>3, <2>4, <2>5
<1>6. CASE packets' = packets \cup answer /\ repeats' = repeats + 1
  <2>1. UsefulPackets' \subseteq UsefulPackets \cup {a}
    BY <1>3, <1>4, <1>6 DEF UsefulPackets
  <2>2. answer = {} \/ ~ Useful(a)' => UsefulPackets' \subseteq UsefulPackets
    BY <1>3, <1>4, <1>6 DEF UsefulPackets
  <2>3. /\ Tokens >= 1 /\ Tokens' <= Tokens + 1
        /\ answer = {} \/ ~ Useful(a)' => Tokens' <= Tokens
    BY <1>0, <2>1, <2>2, CountRemoved, CountAdded, CountKept DEF Tokens
  <2>4. repeats' - repeats = 1
    BY <1>0, <1>6
  <2>5. Tokens' \in Nat
    BY <1>2, <1>4, FS_Subset, FS_CardinalityType DEF Tokens
  <2> QED
    BY <1>0, <1>2, <2>3, <2>4, <2>5
<1> QED
  BY <1>5, <1>6 DEF PacketArrives

LEMMA InvFacts ==
  ASSUME SendsInv
  PROVE  /\ Counts /\ (Options => Paid) /\ RequestOK /\ NumbersOK /\ PutInv /\ IsFiniteSet(packets)
         /\ Len(received) \in Nat /\ Len(received) <= FileBlocks /\ FileBlocks \in Nat /\ FileBlocks > 0
         /\ curBlock \in Nat /\ finalSent \in BOOLEAN /\ OackAgain \in {0, 1}
         /\ repeats \in Nat /\ repeats <= MaxRepeat /\ MaxRepeat \in Nat /\ sends \in Nat
         /\ \A m \in packets : PacketOK(m)
<1>1. Counts /\ PutInv /\ MaxRepeat \in Nat
  BY CountsNow, SizeAssumption DEF SendsInv
<1> QED
  BY <1>1, PutFacts DEF SendsInv, PutInv, Counts, Paid

(* An OACK that no step sends is not there after it.                       *)
LEMMA OackKept ==
  ASSUME Oack \in packets' => Oack \in packets, state' = state
  PROVE  OackAgain' <= OackAgain /\ OackAgain' \in {0, 1} /\ OackAgain \in {0, 1}
BY DEF OackAgain

(* The parts of the invariant, put together.                               *)
LEMMA SendsNow ==
  ASSUME PutInv', IsFiniteSet(packets'), RequestOK', NumbersOK', Options => Paid'
  PROVE  SendsInv'
BY DEF SendsInv, Paid

(* The server answers the request.                                         *)
LEMMA WrqSends ==
  ASSUME SendsInv, PutInv', NEW m \in packets, ServeWrq(m)
  PROVE  SendsInv'
<1>0. /\ m.type = "WRQ" /\ ~ open /\ open' = TRUE /\ PacketArrives(m, {ServerAnswer(0)})
      /\ received' = received /\ state' = state /\ curBlock' = curBlock /\ finalSent' = finalSent
      /\ timeouts' = timeouts /\ sends' = sends
  BY DEF ServeWrq, client
<1>1. PICK r \in {0, 1} : repeats' = repeats + r /\ packets' \subseteq packets \cup {ServerAnswer(0)}
  BY <1>0, Moves
<1>2. state # "DATA" /\ state = "SEND_WRQ"
  BY <1>0, InvFacts DEF RequestOK, SendsInv, PutInv, ReceivedIsPrefix, PutTypeOK
<1>3. OackAgain' = 0 /\ OackAgain = 0
  BY <1>0, <1>2 DEF OackAgain
<1>4. Useful(m)
  BY <1>0 DEF Useful
<1>5. /\ IsFiniteSet(packets') /\ Tokens >= 1 /\ Tokens' <= Tokens + (repeats' - repeats)
  <2>1. Len(received) \in Nat /\ Len(received') \in Nat /\ Len(received) <= Len(received')
    BY <1>0, InvFacts
  <2> QED
    BY <1>0, <1>4, <2>1, Exchange
<1>6. \/ ServerAnswer(0) = Oack /\ Options
      \/ ServerAnswer(0).type = "ACK" /\ ServerAnswer(0).num = 0 /\ ~ Options
  <2>1. 0 % SequenceSize = 0
    BY BlockNumber, PutFacts
  <2>2. CASE Options
    BY <2>2, Kinds, Zenon
  <2>3. CASE ~ Options
    <3>1. ServerAnswer(0).type = "ACK" /\ ServerAnswer(0).num = 0 % SequenceSize
      BY <2>3, Kinds
    <3> QED
      BY <2>1, <2>3, <3>1
  <2> QED
    BY <2>2, <2>3
<1>7. RequestOK'
  BY <1>0, <1>1, <1>2, <1>6, Kinds, InvFacts DEF RequestOK
<1>8. NumbersOK'
  <2>1. ASSUME NEW x \in packets', x.type = "ACK" PROVE x.num <= Len(received') /\ (Options => x.num >= 1)
    BY <1>0, <1>1, <1>6, <2>1, Kinds, InvFacts DEF NumbersOK
  <2>2. finalSent' => curBlock' = FileBlocks
    BY <1>0, InvFacts DEF NumbersOK
  <2>3. OackAgain' <= repeats' /\ curBlock' + OackAgain' <= FileBlocks + 1 + repeats'
    BY <1>0, <1>1, <1>3, InvFacts DEF NumbersOK
  <2> QED
    BY <2>1, <2>2, <2>3 DEF NumbersOK
<1>9. ASSUME Options PROVE Paid'
  <2>1. Counts /\ Counts' /\ Paid
    BY <1>5, <1>9, CountsNext, InvFacts
  <2>2. Armed' = Armed
    BY <1>0 DEF Armed
  <2>3. repeats \in Nat /\ Tokens' <= Tokens + r
    BY <1>1, <1>5, InvFacts
  <2>4. sends' - Len(received') + Armed' + OackAgain' <= sends - Len(received) + Armed + OackAgain + r
    BY <1>0, <1>3, <2>1, <2>2, Numbers
  <2> QED
    BY <1>0, <1>1, <1>5, <2>1, <2>3, <2>4, PaysOne
<1> QED
  BY <1>5, <1>7, <1>8, <1>9, SendsNow

(* The server answers a block with an acknowledgement of what it has.      *)
LEMMA DataSends ==
  ASSUME SendsInv, FewBlocks, PutInv', NEW m \in packets, ServeData(m)
  PROVE  SendsInv'
<1> DEFINE n == Len(received)
           np == Len(received')
<1>0. /\ m.type = "DATA" /\ open /\ open' = open /\ state' = state /\ curBlock' = curBlock
      /\ finalSent' = finalSent /\ timeouts' = timeouts /\ sends' = sends
  BY DEF ServeData, client
<1>1. n \in Nat /\ n <= FileBlocks /\ FileBlocks \in Nat /\ FileBlocks > 0 /\ FileBlocks + 1 < SequenceSize
  BY InvFacts, PutFacts DEF FewBlocks
<1>2. state = "DATA"
  BY <1>0, InvFacts DEF RequestOK, SendsInv, PutInv, ReceivedIsPrefix, PutTypeOK
<1>3. PICK a : /\ PacketArrives(m, {a})
               /\ (a.type = "ACK" /\ a.num = np /\ np > 0) \/ a.type = "ICMP"
               /\ np = n \/ (np = n + 1 /\ n < FileBlocks)
               /\ m.num \in n .. FileBlocks
  <2>1. CASE /\ m.num = (n + 1) % SequenceSize /\ ~ Complete
             /\ received' = Append(received, m.content) /\ PacketArrives(m, {ServerAnswer(n + 1)})
    <3>1. np = n + 1 /\ np <= FileBlocks
      BY <1>1, <2>1 DEF PutInv, ReceivedIsPrefix, PutTypeOK, SendsInv
    <3>2. (n + 1) % SequenceSize = n + 1
      <4>1. n + 1 \in Nat /\ n + 1 < SequenceSize
        BY <1>1, <3>1, PutFacts
      <4> QED
        BY <4>1, BlockNumber, Zenon
    <3>3. ServerAnswer(n + 1).type = "ACK" /\ ServerAnswer(n + 1).num = n + 1
      BY <1>1, <3>2, Kinds
    <3> HIDE DEF n, np
    <3> WITNESS ServerAnswer(n + 1)
    <3> QED
      BY <1>1, <2>1, <3>1, <3>2, <3>3
  <2>2. CASE n > 0 /\ m.num = n % SequenceSize /\ PacketArrives(m, {ServerAnswer(n)}) /\ received' = received
    <3>0. n \in Nat /\ n < SequenceSize /\ np = n
      BY <1>1, <2>2, PutFacts
    <3>1. n % SequenceSize = n /\ np = n
      BY <3>0, BlockNumber, Zenon
    <3>2. ServerAnswer(n).type = "ACK" /\ ServerAnswer(n).num = n
      BY <1>1, <2>2, <3>1, Kinds
    <3>3. m.num \in n .. FileBlocks
      BY <1>1, <2>2, <3>1
    <3>4. PacketArrives(m, {ServerAnswer(n)}) /\ np > 0
      BY <2>2, <3>1
    <3> WITNESS ServerAnswer(n)
    <3> QED
      BY <3>1, <3>2, <3>3, <3>4
  <2>3. CASE n > 0 /\ m.num = n % SequenceSize /\ PacketArrives(m, {Unreachable}) /\ received' = received
    <3>0. n \in Nat /\ n < SequenceSize /\ np = n
      BY <1>1, <2>3, PutFacts
    <3>1. n % SequenceSize = n /\ np = n
      BY <3>0, BlockNumber, Zenon
    <3>3. m.num \in n .. FileBlocks
      BY <1>1, <2>3, <3>1
    <3>4. PacketArrives(m, {Unreachable}) /\ Unreachable.type = "ICMP"
      BY <2>3, Kinds
    <3> WITNESS Unreachable
    <3> QED
      BY <3>1, <3>3, <3>4
  <2> QED
    BY <2>1, <2>2, <2>3 DEF ServeData
<1>4. PICK r \in {0, 1} : repeats' = repeats + r /\ packets' \subseteq packets \cup {a}
  BY <1>3, Moves
<1>5. Useful(m)
  BY <1>3 DEF Useful
<1>6. /\ IsFiniteSet(packets') /\ Tokens >= 1 /\ Tokens' <= Tokens + (repeats' - repeats)
  <2>1. Len(received) \in Nat /\ Len(received') \in Nat /\ Len(received) <= Len(received')
    BY <1>1, <1>3
  <2> QED
    BY <1>3, <1>5, <2>1, Exchange
<1>7. /\ Oack \in packets' => Oack \in packets
      /\ OackAgain' <= OackAgain /\ OackAgain' \in {0, 1} /\ OackAgain \in {0, 1}
  BY <1>0, <1>3, <1>4, Kinds, OackKept
<1>8. RequestOK'
  BY <1>0, <1>2, <1>7, InvFacts DEF RequestOK
<1>9. NumbersOK'
  <2>1. ASSUME NEW x \in packets', x.type = "ACK" PROVE x.num <= np /\ (Options => x.num >= 1)
    <3>1. CASE x = a
      BY <1>1, <1>3, <2>1, <3>1
    <3>2. CASE x \in packets
      <4>1. x.num <= n /\ (Options => x.num >= 1) /\ x.num \in Num
        BY <2>1, <3>2, InvFacts DEF NumbersOK, PacketOK
      <4> QED
        BY <1>1, <1>3, <4>1, PutFacts DEF Num
    <3> QED
      BY <1>4, <3>1, <3>2
  <2>2. finalSent' => curBlock' = FileBlocks
    BY <1>0, InvFacts DEF NumbersOK
  <2>3. OackAgain' <= repeats' /\ curBlock' + OackAgain' <= FileBlocks + 1 + repeats'
    BY <1>0, <1>4, <1>7, InvFacts DEF NumbersOK
  <2> QED
    BY <2>1, <2>2, <2>3 DEF NumbersOK
<1>10. ASSUME Options PROVE Paid'
  <2>1. Counts /\ Counts' /\ Paid
    BY <1>6, <1>10, CountsNext, InvFacts
  <2>2. Armed' - np <= Armed - n /\ Armed \in Nat /\ Armed' \in Nat
    <3>1. Armed' = ArmedAt(np, curBlock, finalSent) /\ Armed = ArmedAt(n, curBlock, finalSent)
      BY <1>0 DEF Armed
    <3>2. Armed \in Nat /\ Armed' \in Nat /\ curBlock \in Nat /\ finalSent \in BOOLEAN
      BY <2>1, Numbers, NumbersNext, InvFacts
    <3> HIDE DEF n, np
    <3>3. CASE np = n
      BY <1>1, <3>1, <3>2, <3>3
    <3>4. CASE np = n + 1 /\ n < FileBlocks
      <4>1. ArmedAt(n + 1, curBlock, finalSent) <= ArmedAt(n, curBlock, finalSent) + 1
        BY <1>1, <3>2, <3>4, ArmedStored
      <4> QED
        BY <1>1, <3>1, <3>2, <3>4, <4>1
    <3> QED
      BY <1>3, <3>3, <3>4
  <2>3. repeats \in Nat /\ Tokens' <= Tokens + r /\ sends \in Nat
    BY <1>4, <1>6, InvFacts
  <2>4. sends' - Len(received') + Armed' + OackAgain' <= sends - Len(received) + Armed + OackAgain + r
    BY <1>0, <1>1, <1>3, <1>7, <2>2, <2>3
  <2> QED
    BY <1>0, <1>4, <1>6, <2>1, <2>3, <2>4, PaysOne
<1> QED
  BY <1>6, <1>8, <1>9, <1>10, SendsNow

(* tftp_send, when the state is DATA.                                      *)
LEMMA SendData ==
  ASSUME NEW num, Send(num), state' = "DATA", sends \in Nat
  PROVE  sends' = sends + 1 /\ finalSent' \in BOOLEAN /\ (finalSent' <=> num = FileBlocks)
<1>1. sends' = sends + 1
  BY DEF Send
<1>2. finalSent' = (num = FileBlocks)
  BY DEF Send
<1>3. finalSent' \in BOOLEAN
  BY <1>2
<1> QED
  BY <1>1, <1>2, <1>3, Zenon

(* Sums, for the leaves in which the summands are those of two states.     *)
LEMMA AddLe ==
  ASSUME NEW a \in Int, NEW b \in Int, NEW c \in Int, NEW d \in Int, a <= b, c <= d
  PROVE  a + c <= b + d
OBVIOUS

LEMMA SendSum ==
  ASSUME NEW n \in Int, NEW np \in Int, NEW a \in Int, NEW ap \in Int, NEW o \in Int, NEW op \in Int,
         NEW s \in Int, NEW sp \in Int, NEW r \in Int, np = n, sp = s + 1,
         \/ op <= r /\ o = 1 /\ ap <= a
         \/ op <= r + o /\ ap = a - 1
  PROVE  sp - np + ap + op <= s - n + a + o + r
OBVIOUS

(* The first OACK starts the transfer; another one sends the block after   *)
(* the current one.                                                        *)
LEMMA OackSends ==
  ASSUME SendsInv, FewBlocks, PutInv', NEW m \in packets, ReceiveOack(m)
  PROVE  SendsInv'
<1> DEFINE n == Len(received)
           a == Packet(curBlock')
<1>0. /\ m.type = "OACK" /\ state' = "DATA" /\ curBlock' = (curBlock + 1) % SequenceSize
      /\ Send(curBlock') /\ PacketArrives(m, {a})
      /\ received' = received /\ open' = open /\ timeouts' = timeouts
  BY DEF ReceiveOack, ForClient
<1>1. m = Oack /\ Options /\ open
  BY <1>0, InvFacts DEF PacketOK, RequestOK
<1>2. /\ n \in Nat /\ n <= FileBlocks /\ FileBlocks \in Nat /\ FileBlocks > 0 /\ sends \in Nat
      /\ curBlock \in Nat /\ finalSent \in BOOLEAN /\ repeats \in Nat
  BY InvFacts
<1>2a. curBlock \in Int /\ repeats \in Int /\ FileBlocks \in Int /\ sends \in Int /\ n \in Int
  BY <1>2
<1>3. \/ state = "DATA" /\ OackAgain = 1
      \/ state = "SEND_WRQ" /\ OackAgain = 0 /\ n = 0 /\ curBlock = 0
  BY <1>1, InvFacts DEF OackAgain, RequestOK, PutInv, ReceivedIsPrefix, PutTypeOK
<1>4. curBlock + 1 \in Nat /\ curBlock + 1 < SequenceSize /\ curBlock + 1 <= FileBlocks + 1 + repeats
  <2>1. /\ repeats <= MaxRepeat /\ MaxRepeat \in Nat /\ SequenceSize \in Nat
        /\ FileBlocks + 1 + MaxRepeat < SequenceSize
    BY InvFacts, PutFacts DEF FewBlocks
  <2>2. CASE state = "DATA" /\ OackAgain = 1
    BY <1>2, <2>1, <2>2, InvFacts DEF NumbersOK
  <2>3. CASE curBlock = 0
    BY <1>2, <2>1, <2>3
  <2> QED
    BY <1>3, <2>2, <2>3
<1>5. curBlock' = curBlock + 1
  BY <1>0, <1>4, BlockNumber, Zenon
<1>6. sends' = sends + 1 /\ finalSent' \in BOOLEAN /\ (finalSent' <=> curBlock' = FileBlocks)
  BY <1>0, <1>2, SendData
<1>7. a.type = "DATA" /\ Oack.type = "OACK"
  BY <1>0, Kinds
<1>8. Useful(m)
  BY <1>0 DEF Useful
<1> HIDE DEF a
<1>9. PICK r \in {0, 1} : /\ repeats' = repeats + r /\ packets' \subseteq packets \cup {a}
                          /\ m \in packets' => r = 1 \/ m \in {a}
  BY <1>0, Moves
<1>10. /\ IsFiniteSet(packets') /\ Tokens >= 1 /\ Tokens' <= Tokens + (repeats' - repeats)
  <2>1. Len(received) \in Nat /\ Len(received') \in Nat /\ Len(received) <= Len(received')
    BY <1>0, <1>2
  <2> QED
    BY <1>0, <1>8, <2>1, Exchange
<1>11. OackAgain' <= r /\ OackAgain' \in Nat /\ r \in Nat
  <2>1. Oack \in packets' => r = 1
    BY <1>1, <1>7, <1>9
  <2> QED
    BY <2>1 DEF OackAgain
<1>12. RequestOK'
  BY <1>0, <1>1 DEF RequestOK
<1>13. NumbersOK'
  <2>1. ASSUME NEW x \in packets', x.type = "ACK" PROVE x.num <= Len(received') /\ (Options => x.num >= 1)
    BY <1>0, <1>7, <1>9, <2>1, InvFacts DEF NumbersOK
  <2>2. OackAgain' <= repeats' /\ curBlock' + OackAgain' <= FileBlocks + 1 + repeats'
    <3>1. repeats' = repeats + r /\ r <= repeats'
      BY <1>2, <1>9, <1>11
    <3>2. curBlock' \in Int /\ curBlock' <= FileBlocks + 1 + repeats
      BY <1>4, <1>5
    <3>3. FileBlocks + 1 + repeats \in Int /\ OackAgain' \in Int /\ r \in Int
      BY <1>2, <1>11
    <3>4. curBlock' + OackAgain' <= FileBlocks + 1 + repeats + r
      BY <1>11, <3>2, <3>3, AddLe, Zenon
    <3>5. FileBlocks + 1 + repeats + r = FileBlocks + 1 + repeats'
      BY <1>2, <1>11, <3>1
    <3> QED
      BY <1>2, <1>11, <3>1, <3>4, <3>5
  <2> QED
    BY <1>6, <2>1, <2>2 DEF NumbersOK
<1>14. Paid'
  <2>1. Counts /\ Counts' /\ Paid
    BY <1>1, <1>10, CountsNext, InvFacts
  <2>2. Armed' = ArmedAt(n, curBlock + 1, finalSent') /\ Armed = ArmedAt(n, curBlock, finalSent)
    BY <1>0, <1>5 DEF Armed
  <2>3. /\ ArmedAt(n, curBlock + 1, finalSent') <= ArmedAt(n, curBlock, finalSent)
        /\ curBlock \in {n, n - 1} =>
             \/ n = FileBlocks /\ curBlock = n /\ finalSent
             \/ ArmedAt(n, curBlock + 1, finalSent') = ArmedAt(n, curBlock, finalSent) - 1
    BY <1>2, <1>4, <1>5, <1>6, ArmedSent
  <2>4. /\ Armed' <= Armed /\ Armed' \in Nat /\ Armed \in Nat
        /\ curBlock = n /\ n < FileBlocks => Armed' = Armed - 1
    BY <1>2, <2>1, <2>2, <2>3, Numbers, NumbersNext
  <2>5. repeats \in Nat /\ Tokens' <= Tokens + r
    BY <1>2, <1>9, <1>10
  <2>6. /\ Len(received) \in Int /\ Len(received') \in Int /\ Len(received') = Len(received)
        /\ Armed \in Int /\ Armed' \in Int /\ OackAgain \in Int /\ OackAgain' \in Int
        /\ sends \in Int /\ sends' \in Int /\ r \in Int /\ sends' = sends + 1
    BY <1>0, <1>2, <1>3, <1>6, <1>11, <2>4
  <2>6a. \/ OackAgain' <= r /\ OackAgain = 1 /\ Armed' <= Armed
         \/ OackAgain' <= r + OackAgain /\ Armed' = Armed - 1
    <3>1. CASE OackAgain = 1
      BY <1>11, <2>4, <3>1
    <3>2. CASE OackAgain = 0 /\ n = 0 /\ curBlock = 0
      <4>1. Armed' = Armed - 1
        BY <1>2, <2>4, <3>2
      <4>2. r + OackAgain = r
        BY <1>11, <3>2
      <4> QED
        BY <1>11, <4>1, <4>2
    <3> QED
      BY <1>3, <3>1, <3>2
  <2>7. sends' - Len(received') + Armed' + OackAgain' <= sends - Len(received) + Armed + OackAgain + r
    BY <2>6, <2>6a, SendSum, Zenon
  <2> QED
    BY <1>0, <1>9, <1>10, <2>1, <2>5, <2>7, PaysOne
<1> QED
  BY <1>10, <1>12, <1>13, <1>14, SendsNow

LEMMA StaleSum ==
  ASSUME NEW a \in Int, NEW ap \in Int, NEW o \in Int, NEW op \in Int,
         NEW s \in Int, NEW sp \in Int, NEW r \in Int, op <= o, r >= 0,
         sp <= s + 1, ap <= a + 1 \/ (sp = s /\ ap <= a + 2)
  PROVE  sp + ap + op <= s + a + o + 2 + r
OBVIOUS

(* An acknowledgement of the current block sends the next one; another one *)
(* only sets the current block back.                                       *)
LEMMA AckSends ==
  ASSUME SendsInv, FewBlocks, PutInv', NEW m \in packets, ReceiveAck(m)
  PROVE  SendsInv'
<1> DEFINE n == Len(received)
<1>a. PICK a : a = Packet(curBlock')
  OBVIOUS
<1>0. /\ m.type = "ACK" /\ ~ finalSent /\ curBlock' = (m.num + 1) % SequenceSize /\ state' = state
      /\ received' = received /\ open' = open /\ timeouts' = timeouts
  BY DEF ReceiveAck, ForClient
<1>1. PICK answer \in {{}, {a}} :
        /\ PacketArrives(m, answer)
        /\ m.num = curBlock => answer = {a} /\ Send(curBlock')
        /\ m.num # curBlock => answer = {} /\ finalSent' = finalSent /\ sends' = sends
  BY <1>a DEF ReceiveAck
<1>2. /\ n \in Nat /\ n <= FileBlocks /\ FileBlocks \in Nat /\ FileBlocks > 0 /\ sends \in Nat
      /\ curBlock \in Nat /\ finalSent \in BOOLEAN /\ repeats \in Nat
  BY InvFacts
<1>3. m.num \in Nat /\ m.num <= n /\ (Options => m.num >= 1)
  BY <1>0, InvFacts, PutFacts DEF NumbersOK, PacketOK, Num
<1>4. curBlock' = m.num + 1 /\ m.num + 1 \in Nat
  <2>1. m.num + 1 \in Nat /\ m.num + 1 < SequenceSize
    BY <1>2, <1>3, InvFacts, PutFacts DEF FewBlocks
  <2> QED
    BY <1>0, <2>1, BlockNumber, Zenon
<1>5. \/ state = "DATA" /\ Options /\ open /\ a.type = "DATA" /\ a.num = curBlock'
      \/ state = "SEND_WRQ" /\ ~ Options /\ a = Wrq /\ a.type = "WRQ"
  <2>1. CASE state = "DATA"
    BY <1>0, <1>a, <2>1, Kinds, InvFacts DEF RequestOK
  <2>2. CASE state = "SEND_WRQ"
    <3>1. n = 0
      BY <2>2, InvFacts DEF RequestOK
    <3>2. ~ Options
      BY <1>3, <3>1
    <3> QED
      BY <1>0, <1>a, <2>2, <3>2, Kinds
  <2> QED
    BY <2>1, <2>2 DEF SendsInv, PutInv, ReceivedIsPrefix, PutTypeOK
<1>6. /\ (finalSent' => curBlock' = FileBlocks) /\ (state = "SEND_WRQ" => finalSent' = finalSent /\ sends' = sends)
      /\ (state = "DATA" /\ m.num = curBlock =>
            sends' = sends + 1 /\ finalSent' \in BOOLEAN /\ (finalSent' <=> curBlock' = FileBlocks))
  <2>1. CASE m.num # curBlock
    BY <1>0, <1>1, <2>1
  <2>2. CASE m.num = curBlock /\ state = "DATA"
    <3>1. sends' = sends + 1 /\ finalSent' \in BOOLEAN /\ (finalSent' <=> curBlock' = FileBlocks)
      BY <1>0, <1>1, <1>2, <2>2, SendData
    <3> QED
      BY <2>2, <3>1
  <2>3. CASE m.num = curBlock /\ state = "SEND_WRQ"
    <3>1. finalSent' = finalSent /\ sends' = sends
      BY <1>0, <1>1, <2>3 DEF Send
    <3> QED
      BY <1>0, <2>3, <3>1
  <2> QED
    BY <1>5, <2>1, <2>2, <2>3
<1>7. PICK r \in {0, 1} : repeats' = repeats + r /\ packets' \subseteq packets \cup answer
  BY <1>1, Moves
<1>8. packets' \subseteq packets \cup {a} /\ r \in Nat
  BY <1>1, <1>7
<1>9. /\ IsFiniteSet(packets') /\ Tokens >= 1 /\ Tokens' <= Tokens + (repeats' - repeats)
      /\ answer = {} \/ ~ Useful(a)' => Tokens' <= Tokens - 1 + (repeats' - repeats)
  <2>1. Len(received) \in Nat /\ Len(received') \in Nat /\ Len(received) <= Len(received')
    BY <1>0, <1>2
  <2>2. Useful(m)
    BY <1>0 DEF Useful
  <2> QED
    BY <1>1, <2>1, <2>2, Exchange
<1>10. /\ Oack \in packets' => Oack \in packets
       /\ OackAgain' <= OackAgain /\ OackAgain' \in {0, 1} /\ OackAgain \in {0, 1}
  BY <1>0, <1>5, <1>8, Kinds, OackKept
<1>11. RequestOK'
  <2>1. CASE state = "DATA"
    BY <1>0, <1>5, <1>10, <2>1, InvFacts DEF RequestOK
  <2>2. CASE state = "SEND_WRQ"
    BY <1>0, <1>5, <1>6, <1>8, <1>10, <2>2, InvFacts DEF RequestOK
  <2> QED
    BY <1>5, <2>1, <2>2
<1>12. NumbersOK'
  <2>1. ASSUME NEW x \in packets', x.type = "ACK" PROVE x.num <= Len(received') /\ (Options => x.num >= 1)
    BY <1>0, <1>5, <1>8, <2>1, InvFacts DEF NumbersOK
  <2>2. OackAgain' \in Nat /\ OackAgain' <= repeats' /\ repeats' \in Nat
    <3>1. OackAgain' <= repeats
      BY <1>2, <1>10, InvFacts DEF NumbersOK
    <3> QED
      BY <1>2, <1>7, <1>8, <1>10, <3>1
  <2>3. curBlock' + OackAgain' <= FileBlocks + 1 + repeats'
    <3>1. curBlock' \in Int /\ FileBlocks + 1 \in Int /\ curBlock' <= FileBlocks + 1
      BY <1>2, <1>3, <1>4
    <3>2. OackAgain' \in Int /\ repeats' \in Int
      BY <2>2
    <3> QED
      BY <2>2, <3>1, <3>2, AddLe, Zenon
  <2> QED
    BY <1>6, <2>1, <2>2, <2>3 DEF NumbersOK
<1>13. ASSUME Options PROVE Paid'
  <2>0. state = "DATA" /\ a.type = "DATA" /\ a.num = m.num + 1
    BY <1>4, <1>5, <1>13
  <2>1. Counts /\ Counts' /\ Paid
    BY <1>9, <1>13, CountsNext, InvFacts
  <2>2. /\ Armed' = ArmedAt(n, m.num + 1, finalSent') /\ Armed = ArmedAt(n, curBlock, finalSent)
        /\ Armed \in Int /\ Armed' \in Int /\ Armed \in Nat /\ Armed' \in Nat
    BY <1>0, <1>4, <2>1, Numbers, NumbersNext DEF Armed
  <2>3. /\ repeats \in Nat /\ Tokens' <= Tokens + r
        /\ answer = {} \/ ~ Useful(a)' => Tokens' <= Tokens - 1 + r
    BY <1>2, <1>7, <1>8, <1>9
  <2>4. /\ OackAgain' <= OackAgain /\ OackAgain' \in Int /\ OackAgain \in Int
        /\ sends \in Int /\ sends' \in Int /\ r \in Int /\ r >= 0
        /\ Len(received) \in Int /\ Len(received') \in Int /\ Len(received') = Len(received)
    BY <1>0, <1>2, <1>8, <1>10, <2>1, NumbersNext
  <2>5. CASE m.num = curBlock
    <3>1. sends' = sends + 1 /\ finalSent' \in BOOLEAN /\ (finalSent' <=> m.num + 1 = FileBlocks)
      BY <1>4, <1>6, <2>0, <2>5
    <3>2. /\ ArmedAt(n, m.num + 1, finalSent') <= ArmedAt(n, m.num, finalSent)
          /\ m.num \in {n, n - 1} =>
               \/ n = FileBlocks /\ m.num = n /\ finalSent
               \/ ArmedAt(n, m.num + 1, finalSent') = ArmedAt(n, m.num, finalSent) - 1
      BY <1>2, <1>3, <1>4, <3>1, ArmedSent
    <3>3. Armed' <= Armed /\ (m.num \in {n, n - 1} => Armed' = Armed - 1)
      BY <1>0, <2>2, <2>5, <3>2
    <3>4. CASE m.num \in {n, n - 1}
      <4>1. Armed' = Armed - 1
        BY <3>3, <3>4
      <4>2. OackAgain' <= r + OackAgain
        BY <2>4
      <4>3. sends' - Len(received') + Armed' + OackAgain' <= sends - Len(received) + Armed + OackAgain + r
        BY <2>2, <2>4, <3>1, <4>1, <4>2, SendSum, Zenon
      <4> QED
        BY <1>0, <1>7, <1>9, <2>1, <2>3, <4>3, PaysOne
    <3>5. CASE m.num \notin {n, n - 1}
      <4>1. m.num < n - 1
        BY <1>2, <1>3, <3>5
      <4>2. ~ Useful(a)'
        <5>1. a.num \notin Len(received') .. FileBlocks
          BY <1>0, <1>2, <1>3, <2>0, <4>1
        <5> QED
          BY <2>0, <5>1 DEF Useful
      <4>3. Armed >= 2
        BY <1>2, <1>3, <2>2, <2>5, <4>1, ArmedIs
      <4>4. Armed + OackAgain >= 2
        BY <1>10, <2>2, <4>3
      <4>5. Armed' <= Armed + 1
        BY <2>2, <3>3
      <4>6. sends' <= sends + 1
        BY <2>4, <3>1
      <4>7. sends' + Armed' + OackAgain' <= sends + Armed + OackAgain + 2 + r
        BY <2>2, <2>4, <4>5, <4>6, StaleSum, Zenon
      <4> QED
        BY <1>0, <1>7, <1>9, <2>1, <2>3, <3>1, <4>2, <4>4, <4>7, PaysNone
    <3> QED
      BY <3>4, <3>5
  <2>6. CASE m.num # curBlock
    <3>1. answer = {} /\ sends' = sends
      BY <1>1, <2>6
    <3>2. Armed' <= Armed + 2
      <4>1. n = FileBlocks => Armed >= 1
        BY <2>1, Numbers
      <4>2. Armed' <= 3 /\ (n < FileBlocks => Armed' <= 2)
        BY <1>0, <2>1, NumbersNext
      <4> QED
        BY <1>2, <2>2, <4>1, <4>2
    <3>3. sends' <= sends + 1
      BY <2>4, <3>1
    <3>4. sends' + Armed' + OackAgain' <= sends + Armed + OackAgain + 2 + r
      BY <2>2, <2>4, <3>1, <3>2, <3>3, StaleSum, Zenon
    <3> QED
      BY <1>0, <1>7, <1>9, <2>1, <2>3, <3>1, <3>4, PaysNone
  <2> QED
    BY <2>5, <2>6
<1> QED
  BY <1>9, <1>11, <1>12, <1>13, SendsNow

(* The last acknowledgement and the ICMP message send nothing.             *)
LEMMA EndSends ==
  ASSUME SendsInv, PutInv', NEW m \in packets, ReceiveLastAck(m) \/ ReceiveIcmp(m)
  PROVE  SendsInv'
<1>0. /\ m.type # "DATA" /\ PacketArrives(m, {}) /\ state' = state /\ curBlock' = curBlock
      /\ finalSent' = finalSent /\ timeouts' = timeouts /\ sends' = sends
      /\ open' = open /\ received' = received
  BY DEF ReceiveLastAck, ReceiveIcmp, ForClient
<1>1. PICK r \in {0, 1} : repeats' = repeats + r /\ packets' \subseteq packets \cup {}
  BY <1>0, Moves
<1>2. packets' \subseteq packets /\ r \in Nat /\ r \in Int /\ r >= 0
  BY <1>1
<1>3. /\ IsFiniteSet(packets') /\ Tokens >= 1
      /\ Tokens' <= Tokens - 1 + (repeats' - repeats)
  <2>1. Len(received) \in Nat /\ Len(received') \in Nat /\ Len(received) <= Len(received')
    BY <1>0, InvFacts
  <2>2. Useful(m)
    BY <1>0 DEF Useful
  <2>3. {} \in {{}, {m}}
    OBVIOUS
  <2> QED
    BY <1>0, <2>1, <2>2, <2>3, Exchange
<1>4. /\ Oack \in packets' => Oack \in packets
      /\ OackAgain' <= OackAgain /\ OackAgain' \in {0, 1} /\ OackAgain \in {0, 1}
  BY <1>0, <1>2, OackKept
<1>5. RequestOK'
  BY <1>0, <1>2, <1>4, InvFacts DEF RequestOK
<1>6. NumbersOK'
  <2>1. /\ \A x \in packets' : x.type = "ACK" => x.num <= Len(received') /\ (Options => x.num >= 1)
        /\ finalSent' => curBlock' = FileBlocks
    BY <1>0, <1>2, InvFacts DEF NumbersOK
  <2>2. OackAgain' <= repeats' /\ curBlock' + OackAgain' <= FileBlocks + 1 + repeats'
    BY <1>0, <1>1, <1>4, InvFacts DEF NumbersOK
  <2> QED
    BY <2>1, <2>2 DEF NumbersOK
<1>7. ASSUME Options PROVE Paid'
  <2>1. Counts /\ Counts' /\ Paid
    BY <1>3, <1>7, CountsNext, InvFacts
  <2>2. Armed' = Armed /\ Armed \in Int /\ Armed' \in Int
    BY <1>0, <2>1, Numbers DEF Armed
  <2>3. repeats \in Nat /\ Tokens' <= Tokens - 1 + r
    BY <1>1, <1>2, <1>3, InvFacts
  <2>4. /\ OackAgain' \in Int /\ OackAgain \in Int /\ sends \in Int /\ sends' \in Int
        /\ OackAgain' <= OackAgain /\ sends' <= sends + 1 /\ Armed' <= Armed + 1
    BY <1>0, <1>4, <2>2, InvFacts
  <2>5. sends' + Armed' + OackAgain' <= sends + Armed + OackAgain + 2 + r
    BY <1>2, <2>2, <2>4, StaleSum, Zenon
  <2> QED
    BY <1>0, <1>1, <1>3, <2>1, <2>3, <2>5, PaysNone
<1> QED
  BY <1>3, <1>5, <1>6, <1>7, SendsNow

(* A packet is sent again, and none arrives.                               *)
LEMMA Adds ==
  ASSUME SendsInv, received' = received, NEW a, packets' \subseteq packets \cup {a}
  PROVE  /\ IsFiniteSet(packets') /\ Tokens' <= Tokens + 1
         /\ Tokens = 0 => OackAgain = 0
<1>0. IsFiniteSet(packets) /\ IsFiniteSet(UsefulPackets)
  BY CountsNow DEF SendsInv, Counts
<1>1. IsFiniteSet(packets')
  <2>1. IsFiniteSet({a})
    BY FS_Singleton
  <2>2. IsFiniteSet(packets \cup {a})
    BY <1>0, <2>1, FS_Union
  <2> QED
    BY <2>2, FS_Subset
<1>2. UsefulPackets' \subseteq UsefulPackets \cup {a}
  BY DEF UsefulPackets, Useful
<1>3. Tokens' <= Tokens + 1
  BY <1>0, <1>2, CountAdded DEF Tokens
<1>4. Tokens = 0 => OackAgain = 0
  <2>1. ASSUME Tokens = 0 PROVE Oack \notin packets
    <3>1. UsefulPackets = {}
      BY <1>0, <2>1, FS_EmptySet DEF Tokens
    <3>2. Useful(Oack)
      BY Kinds DEF Useful
    <3> QED
      BY <3>1, <3>2 DEF UsefulPackets
  <2> QED
    BY <2>1 DEF OackAgain
<1> QED
  BY <1>1, <1>3, <1>4

(* The timeout of the server.                                              *)
LEMMA RetransmitSends ==
  ASSUME SendsInv, FewBlocks, PutInv', Retransmit
  PROVE  SendsInv'
<1> DEFINE n == Len(received)
<1>0. /\ open /\ repeats' = repeats + 1 /\ packets' = packets \cup {ServerAnswer(n)}
      /\ state' = state /\ curBlock' = curBlock /\ finalSent' = finalSent /\ timeouts' = timeouts
      /\ sends' = sends /\ open' = open /\ received' = received
  BY DEF Retransmit, client
<1>1. /\ n \in Nat /\ n <= FileBlocks /\ FileBlocks \in Nat /\ n < SequenceSize /\ repeats \in Nat
      /\ curBlock \in Nat /\ sends \in Nat /\ timeouts \in Nat
  BY InvFacts, PutFacts DEF FewBlocks, Counts
<1>2. \/ ServerAnswer(n) = Oack /\ Options
      \/ ServerAnswer(n).type = "ACK" /\ ServerAnswer(n).num = n /\ (Options => n >= 1)
  <2>1. n % SequenceSize = n
    BY <1>1, BlockNumber, Zenon
  <2>2. CASE n > 0 \/ ~ Options
    <3>1. ServerAnswer(n).type = "ACK" /\ ServerAnswer(n).num = n % SequenceSize
      BY <1>1, <2>2, Kinds
    <3> QED
      BY <1>1, <2>1, <2>2, <3>1
  <2>3. CASE n = 0 /\ Options
    <3>1. ServerAnswer(0) = Oack
      BY <2>3, Kinds
    <3> HIDE DEF n
    <3> QED
      BY <2>3, <3>1
  <2> QED
    BY <1>1, <2>2, <2>3
<1>3. /\ IsFiniteSet(packets') /\ Tokens' <= Tokens + 1 /\ (Tokens = 0 => OackAgain = 0)
  BY <1>0, Adds
<1>4. OackAgain' \in Nat /\ OackAgain' <= 1 /\ OackAgain \in Nat
  BY DEF OackAgain
<1>5. RequestOK'
  BY <1>0, <1>2, Kinds, InvFacts DEF RequestOK
<1>6. NumbersOK'
  <2>1. ASSUME NEW x \in packets', x.type = "ACK" PROVE x.num <= Len(received') /\ (Options => x.num >= 1)
    BY <1>0, <1>1, <1>2, <2>1, Kinds, InvFacts DEF NumbersOK
  <2>2. finalSent' => curBlock' = FileBlocks
    BY <1>0, InvFacts DEF NumbersOK
  <2>3. OackAgain' <= repeats'
    BY <1>0, <1>1, <1>4
  <2>4. curBlock' + OackAgain' <= FileBlocks + 1 + repeats'
    <3>1. curBlock <= FileBlocks + 1 + repeats
      BY <1>1, <1>4, InvFacts DEF NumbersOK
    <3>2. curBlock \in Int /\ FileBlocks + 1 + repeats \in Int /\ OackAgain' \in Int /\ 1 \in Int
      BY <1>1, <1>4
    <3>3. curBlock + OackAgain' <= FileBlocks + 1 + repeats + 1
      BY <1>4, <3>1, <3>2, AddLe, Zenon
    <3>4. FileBlocks + 1 + repeats + 1 = FileBlocks + 1 + repeats'
      BY <1>0, <1>1
    <3> QED
      BY <1>0, <3>3, <3>4
  <2> QED
    BY <2>1, <2>2, <2>3, <2>4 DEF NumbersOK
<1>7. ASSUME Options PROVE Paid'
  <2>1. Counts /\ Counts' /\ Paid
    BY <1>3, <1>7, CountsNext, InvFacts
  <2>2. Armed' = Armed /\ Armed \in Int /\ Armed' <= Armed
    BY <1>0, <2>1, Numbers DEF Armed
  <2>3. sends' + OackAgain' <= sends + OackAgain + 1
    <3>1. 0 <= OackAgain /\ 0 \in Int /\ sends \in Int /\ OackAgain' \in Int /\ OackAgain + 1 \in Int
      BY <1>1, <1>4
    <3>2. OackAgain' <= OackAgain + 1
      BY <1>4
    <3>3. sends <= sends
      BY <1>1
    <3>4. sends + OackAgain' <= sends + (OackAgain + 1)
      BY <3>1, <3>2, <3>3, AddLe, Zenon
    <3>5. sends + (OackAgain + 1) = sends + OackAgain + 1
      BY <1>1, <1>4
    <3> QED
      BY <1>0, <3>4, <3>5
  <2>4. timeouts' + repeats' = timeouts + repeats + 1
    BY <1>0, <1>1
  <2> QED
    BY <1>0, <1>3, <2>1, <2>2, <2>3, <2>4, PaysMore
<1> QED
  BY <1>3, <1>5, <1>6, <1>7, SendsNow

(* The timeout of the client.                                              *)
LEMMA TimeoutSends ==
  ASSUME SendsInv, PutInv', PutTimeout
  PROVE  SendsInv'
<1> DEFINE n == Len(received)
<1>a. PICK a : a = Packet(curBlock)
  OBVIOUS
<1>0. /\ timeouts' = timeouts + 1 /\ state' = state /\ curBlock' = curBlock /\ open' = open
      /\ received' = received /\ repeats' = repeats
      /\ \/ finalSent' = finalSent /\ sends' = sends /\ packets' = packets
         \/ Send(curBlock) /\ packets' = packets \cup {a}
  BY <1>a DEF PutTimeout
<1>1. /\ n \in Nat /\ n <= FileBlocks /\ FileBlocks \in Nat /\ repeats \in Nat /\ timeouts \in Nat
      /\ curBlock \in Nat /\ sends \in Nat /\ finalSent \in BOOLEAN
  BY InvFacts DEF Counts
<1>2. \/ state = "DATA" /\ a.type = "DATA"
      \/ state = "SEND_WRQ" /\ a.type = "WRQ"
  BY <1>a, <1>0, Kinds DEF SendsInv, PutInv, ReceivedIsPrefix, PutTypeOK
<1>3. /\ IsFiniteSet(packets') /\ Tokens' <= Tokens + 1 /\ (Tokens = 0 => OackAgain = 0)
  <2>1. packets' \subseteq packets \cup {a}
    BY <1>0
  <2> QED
    BY <1>0, <2>1, Adds
<1>4. /\ Oack \in packets' => Oack \in packets
      /\ OackAgain' <= OackAgain /\ OackAgain' \in {0, 1} /\ OackAgain \in {0, 1}
  BY <1>0, <1>2, Kinds, OackKept
<1>5. \/ finalSent' = finalSent /\ sends' = sends
      \/ /\ state = "DATA" /\ sends' = sends + 1
         /\ finalSent' \in BOOLEAN /\ (finalSent' <=> curBlock = FileBlocks)
  <2>1. CASE Send(curBlock) /\ state = "DATA"
    BY <1>0, <1>1, <2>1, SendData
  <2>2. CASE Send(curBlock) /\ state = "SEND_WRQ"
    BY <1>0, <2>2 DEF Send
  <2> QED
    BY <1>0, <1>2, <2>1, <2>2
<1>6. RequestOK'
  <2>1. CASE state = "DATA"
    BY <1>0, <1>4, <2>1, InvFacts DEF RequestOK
  <2>2. CASE state = "SEND_WRQ"
    BY <1>0, <1>2, <1>4, <1>5, <2>2, InvFacts DEF RequestOK
  <2> QED
    BY <1>2, <2>1, <2>2
<1>7. NumbersOK'
  <2>1. ASSUME NEW x \in packets', x.type = "ACK" PROVE x.num <= Len(received') /\ (Options => x.num >= 1)
    BY <1>0, <1>2, <2>1, InvFacts DEF NumbersOK
  <2>2. finalSent' => curBlock' = FileBlocks
    BY <1>0, <1>5, InvFacts DEF NumbersOK
  <2>3. OackAgain' <= repeats' /\ curBlock' + OackAgain' <= FileBlocks + 1 + repeats'
    BY <1>0, <1>4, InvFacts DEF NumbersOK
  <2> QED
    BY <2>1, <2>2, <2>3 DEF NumbersOK
<1>8. ASSUME Options PROVE Paid'
  <2>1. Counts /\ Counts' /\ Paid
    BY <1>3, <1>8, CountsNext, InvFacts
  <2>2. Armed' <= Armed
    <3>1. Armed' = ArmedAt(n, curBlock, finalSent') /\ Armed = ArmedAt(n, curBlock, finalSent)
      BY <1>0 DEF Armed
    <3>2. CASE finalSent' = finalSent
      BY <2>1, <3>1, <3>2, Numbers
    <3>3. CASE finalSent' \in BOOLEAN /\ (finalSent' <=> curBlock = FileBlocks)
      <4>1. ArmedAt(n, curBlock, finalSent') <= ArmedAt(n, curBlock, finalSent)
        BY <1>1, <3>3, ArmedSent
      <4> QED
        BY <3>1, <4>1
    <3> QED
      BY <1>5, <3>2, <3>3
  <2>3. sends' + OackAgain' <= sends + OackAgain + 1
    <3>1. sends' \in Int /\ sends' <= sends + 1 /\ sends + 1 \in Int /\ OackAgain' \in Int /\ OackAgain \in Int
      BY <1>1, <1>4, <1>5
    <3>2. sends' + OackAgain' <= (sends + 1) + OackAgain
      BY <1>4, <3>1, AddLe, Zenon
    <3>3. (sends + 1) + OackAgain = sends + OackAgain + 1
      BY <1>1, <3>1
    <3> QED
      BY <3>2, <3>3
  <2>4. timeouts' + repeats' = timeouts + repeats + 1
    BY <1>0, <1>1
  <2> QED
    BY <1>0, <1>3, <2>1, <2>2, <2>3, <2>4, PaysMore
<1> QED
  BY <1>3, <1>6, <1>7, <1>8, SendsNow

LEMMA SendsInitInv == PutInit => SendsInv
<1> SUFFICES ASSUME PutInit PROVE SendsInv
  OBVIOUS
<1>0. /\ state = "SEND_WRQ" /\ curBlock = 0 /\ finalSent = FALSE /\ timeouts = 0 /\ sends = 0
      /\ packets = {Wrq} /\ received = << >> /\ repeats = 0
  BY DEF PutInit
<1>1. IsFiniteSet(packets)
  BY <1>0, FS_Singleton
<1>2. PutInv /\ Counts
  BY <1>1, PutInitInv, CountsNow
<1>3. Oack \notin packets /\ OackAgain = 0
  BY <1>0, Kinds DEF OackAgain
<1>4. RequestOK
  BY <1>0, <1>3, Kinds DEF RequestOK
<1>5. NumbersOK
  BY <1>0, <1>3, Kinds, PutFacts DEF NumbersOK
<1>6. Paid
  <2>1. UsefulPackets = packets
    BY <1>0, Kinds DEF UsefulPackets, Useful
  <2>2. Tokens = 1
    BY <1>0, <2>1, FS_Singleton DEF Tokens
  <2>3. Len(received) = 0 /\ Armed = 1
    <3>1. Len(received) = 0
      BY <1>0
    <3>2. ArmedAt(0, 0, FALSE) = 1
      BY PutFacts DEF ArmedAt
    <3> QED
      BY <1>0, <3>1, <3>2 DEF Armed
  <2>4. Potential = Allowance(0, 1, 1, 0)
    BY <1>2, <1>3, <2>2, <2>3, Numbers
  <2>5. Allowance(0, 1, 1, 0) = FileBlocks
    BY AllowanceIs, PutFacts
  <2> QED
    BY <1>0, <2>4, <2>5, PutFacts DEF Paid
<1> QED
  BY <1>1, <1>2, <1>4, <1>5, <1>6 DEF SendsInv, Paid

LEMMA SendsNextInv ==
  ASSUME FewBlocks, SendsInv, [PutNext]_putVars
  PROVE  SendsInv'
<1>0. PutInv'
  <2>1. FileBlocks < SequenceSize
    BY SizeAssumption DEF FewBlocks
  <2> QED
    BY <2>1, PutNextInv, InvFacts
<1>1. CASE UNCHANGED <<state, curBlock, finalSent, timeouts, sends, packets, open, received, repeats>>
  <2>1. Potential' = Potential
    BY <1>1 DEF Potential, UsefulPackets, Useful, OackAgain
  <2>2. RequestOK'
    BY <1>1, InvFacts DEF RequestOK
  <2>3. NumbersOK'
    <3>1. OackAgain' = OackAgain
      BY <1>1 DEF OackAgain
    <3> QED
      BY <1>1, <3>1, InvFacts DEF NumbersOK
  <2>4. Options => Paid'
    BY <1>1, <2>1, InvFacts DEF Paid
  <2>5. IsFiniteSet(packets')
    BY <1>1, InvFacts
  <2> QED
    BY <1>0, <2>2, <2>3, <2>4, <2>5, SendsNow
<1>2. CASE PutNext
  <2>1. CASE Loop
    BY <1>1, <2>1 DEF Loop
  <2> QED
    BY <1>0, <1>2, <2>1, WrqSends, DataSends, OackSends, AckSends, EndSends, RetransmitSends,
       TimeoutSends DEF PutNext
<1>3. CASE UNCHANGED putVars
  BY <1>1, <1>3 DEF putVars, client
<1> QED
  BY <1>2, <1>3

(* An acknowledgement that arrives twice costs three DATA packets, and     *)
(* does not make tftp_handler send the rest of the file twice, for files   *)
(* of any length whose blocks have different numbers.                      *)
THEOREM SendsAlwaysBounded == FewBlocks /\ PutSpec => []SendsBounded
<1> SUFFICES ASSUME FewBlocks PROVE PutSpec => []SendsBounded
  OBVIOUS
<1>1. SendsInv /\ [PutNext]_putVars => SendsInv'
  BY SendsNextInv
<1>2. SendsInv => SendsBounded
  <2> SUFFICES ASSUME SendsInv PROVE SendsBounded
    OBVIOUS
  <2>1. /\ Counts /\ (Options => Paid) /\ RequestOK /\ FileBlocks \in Nat
        /\ sends \in Nat /\ timeouts \in Nat /\ repeats \in Nat /\ PutTypeOK
    BY InvFacts DEF Counts, SendsInv, PutInv
  <2>2. CASE Options
    <3>1. /\ Len(received) \in Nat /\ Len(received) <= FileBlocks /\ Tokens \in Nat /\ Armed \in Nat
          /\ OackAgain \in Nat /\ (Len(received) = FileBlocks => Armed >= 1)
          /\ Potential = Allowance(Len(received), Tokens, Armed, OackAgain)
      BY <2>1, Numbers
    <3>2. Potential >= 0
      BY <3>1, AllowanceIs
    <3>3. Potential \in Int
      BY <2>1, <3>1 DEF Allowance
    <3> QED
      BY <2>1, <2>2, <3>2, <3>3 DEF Paid, SendsBounded
  <2>3. CASE ~ Options
    <3>1. sends = 0
      BY <2>1, <2>3 DEF RequestOK, SendsInv, PutInv, ReceivedIsPrefix, PutTypeOK
    <3> QED
      BY <2>1, <3>1 DEF SendsBounded
  <2> QED
    BY <2>2, <2>3
<1> QED
  BY <1>1, <1>2, SendsInitInv, PTL DEF PutSpec

-----------------------------------------------------------------------------
(* NetLoop                                                                 *)

(* A set of numbers that is not empty has a least one.                     *)
LEMMA HasLeast ==
  ASSUME NEW S, S \subseteq Nat, S # {}
  PROVE  \E x \in S : \A y \in S : x <= y
<1> DEFINE R == OpToRel(<, Nat)
<1>1. IsWellFoundedOn(R, Nat)
  BY NatLessThanWellFounded
<1>2. \E x \in S : \A y \in S : ~ (<<y, x>> \in R)
  <2> HIDE DEF R
  <2> QED
    BY <1>1, WFMin
<1>3. PICK x \in S : \A y \in S : ~ (y < x)
  BY <1>2 DEF OpToRel
<1> QED
  BY <1>3

LEMMA SettingsFacts ==
  ASSUME settings \in Settings
  PROVE  /\ settings.commands \subseteq {"PING", "RARP"}
         /\ Up \subseteq Interface /\ Up # {} /\ Reach \subseteq Interface
         /\ Interfaces \in Nat /\ Interfaces > 0 /\ \A i \in Interface : i \in Nat /\ 1 <= i /\ i <= Interfaces
         /\ \A i \in Nat : 1 <= i /\ i <= Interfaces => i \in Interface
         /\ RetryCnt \in Nat /\ Rotate \in BOOLEAN
         /\ ~ RetryForever => settings.netretry = RetryCnt
<1>1. settings.netretry \in Nat \cup {Forever} /\ Forever \notin Nat
  BY SettingsAssumption, CountAssumption
<1>2. RetryCnt \in Nat /\ (~ RetryForever => settings.netretry = RetryCnt)
  BY <1>1 DEF RetryCnt, RetryForever
<1>3. settings.commands \subseteq {"PING", "RARP"} /\ Up \subseteq Interface /\ Up # {} /\ Rotate \in BOOLEAN
  BY SettingsAssumption, Zenon DEF Up, Rotate
<1>4. /\ Interfaces \in Nat /\ Interfaces > 0 /\ Reach \subseteq Interface
      /\ \A i \in Interface : i \in Nat /\ 1 <= i /\ i <= Interfaces
      /\ \A i \in Nat : 1 <= i /\ i <= Interfaces => i \in Interface
  BY InterfaceAssumption DEF Interface
<1> QED
  BY <1>2, <1>3, <1>4

(* From every interface eth_init() finds one that can be started.          *)
LEMMA NextUp ==
  ASSUME settings \in Settings, NEW i \in Interface, i \notin Up
  PROVE  \E j \in Up : Way(i, j) \cap Up = {j}
<1>0. Up \subseteq Interface /\ Up # {} /\ \A k \in Interface : k \in Nat
  BY SettingsFacts
<1>1. CASE \E k \in Up : k > i
  <2>1. PICK j \in {k \in Up : k > i} : \A k \in {k \in Up : k > i} : j <= k
    <3>1. {k \in Up : k > i} \subseteq Nat /\ {k \in Up : k > i} # {}
      BY <1>0, <1>1
    <3> QED
      BY <3>1, HasLeast
  <2> QED
    BY <1>0, <2>1 DEF Way
<1>2. CASE ~ \E k \in Up : k > i
  <2>1. PICK j \in Up : \A k \in Up : j <= k
    BY <1>0, HasLeast
  <2>2. j < i
    BY <1>0, <1>2, <2>1
  <2> QED
    BY <1>0, <1>2, <2>1, <2>2 DEF Way
<1> QED
  BY <1>1, <1>2

LEMMA EthInitFacts ==
  ASSUME settings \in Settings, NEW l \in LoopState
  PROVE  /\ EthInit(l) \in LoopState
         /\ EthInit(l).state = l.state /\ EthInit(l).tries = l.tries /\ EthInit(l).handler = l.handler
         /\ EthInit(l).firstFailed = l.firstFailed
         /\ ~ Rotate \/ l.current \in Up => EthInit(l) = l
         /\ Rotate => EthInit(l).current \in Up
         /\ Rotate /\ l.current \notin Up =>
              Way(l.current, EthInit(l).current) \cap Up = {EthInit(l).current}
<1>1. CASE ~ Rotate \/ l.current \in Up
  BY <1>1 DEF EthInit
<1>2. CASE Rotate /\ l.current \notin Up
  <2> DEFINE j == CHOOSE j \in Up : Way(l.current, j) \cap Up = {j}
             w == l.wrap \/ l.firstFailed \in Way(l.current, j)
  <2>0. l.current \in Interface
    BY DEF LoopState
  <2>1. j \in Up /\ Way(l.current, j) \cap Up = {j}
    BY <1>2, <2>0, NextUp
  <2>2. EthInit(l) = [l EXCEPT !.current = j, !.wrap = w]
    BY <1>2 DEF EthInit
  <2>3. w \in BOOLEAN
    <3>1. l.wrap \in BOOLEAN
      BY DEF LoopState
    <3> HIDE DEF j
    <3> QED
      BY <3>1, Zenon
  <2>4. j \in Interface
    BY <2>1, SettingsFacts
  <2> HIDE DEF j, w
  <2> QED
    BY <1>2, <2>1, <2>2, <2>3, <2>4 DEF LoopState
<1> QED
  BY <1>1, <1>2

LEMMA AfterFacts ==
  ASSUME settings \in Settings, NEW i \in Interface
  PROVE  After(i) \in Interface /\ (After(i) = i + 1 \/ (i = Interfaces /\ After(i) = 1))
BY SettingsFacts DEF After, Interface

LEMMA TryFacts ==
  ASSUME settings \in Settings, NEW l \in LoopState, NEW first \in BOOLEAN
  PROVE  LET t == EthTryAnother(l, first)
             failed == IF first THEN l.current ELSE l.firstFailed
         IN  /\ t \in LoopState
             /\ t.state = l.state /\ t.tries = l.tries /\ t.handler = l.handler
             /\ ~ Rotate => t = l
             /\ Rotate => /\ t.current = After(l.current) /\ t.firstFailed = failed
                          /\ l.wrap => t.wrap
                          /\ ~ l.wrap => (t.wrap <=> After(l.current) = failed)
<1>1. CASE ~ Rotate
  BY <1>1 DEF EthTryAnother
<1>2. CASE Rotate
  <2> DEFINE failed == IF first THEN l.current ELSE l.firstFailed
             w == l.wrap \/ After(l.current) = failed
  <2>1. EthTryAnother(l, first) = [l EXCEPT !.firstFailed = failed, !.current = After(l.current), !.wrap = w]
    BY <1>2 DEF EthTryAnother
  <2>2. failed \in Interface \cup {0} /\ l.current \in Interface /\ l.wrap \in BOOLEAN
    BY DEF LoopState
  <2>3. After(l.current) \in Interface
    BY <2>2, AfterFacts
  <2>4. w \in BOOLEAN /\ (l.wrap => w) /\ (~ l.wrap => (w <=> After(l.current) = failed))
    <3> HIDE DEF failed
    <3> QED
      BY <2>2, Zenon
  <2>5. LET t == [l EXCEPT !.firstFailed = failed, !.current = After(l.current), !.wrap = w]
        IN  /\ t \in LoopState /\ t.state = l.state /\ t.tries = l.tries /\ t.handler = l.handler
            /\ t.current = After(l.current) /\ t.firstFailed = failed /\ t.wrap = w
    <3> HIDE DEF failed, w
    <3> QED
      BY <2>2, <2>3, <2>4 DEF LoopState
  <2> HIDE DEF w
  <2> QED
    BY <1>2, <2>1, <2>4, <2>5
<1> QED
  BY <1>1, <1>2

(* What net_start_again() does when it does not give up.                   *)
LEMMA StartAgain ==
  ASSUME settings \in Settings, NEW l \in LoopState, restarted \in BOOLEAN
  PROVE  LET counted == [l EXCEPT !.tries = IF RetryForever THEN @ ELSE @ + 1]
             next == EthInit(EthTryAnother(counted, ~ restarted))
         IN  /\ NetStartAgain(l) \in LoopState
             /\ ~ GivesUp(l) =>
                  /\ counted \in LoopState /\ next \in LoopState
                  /\ next.state = l.state /\ next.handler = l.handler
                  /\ next.tries = IF RetryForever THEN l.tries ELSE l.tries + 1
<1> DEFINE n == IF RetryForever THEN l.tries ELSE l.tries + 1
           counted == [l EXCEPT !.tries = n]
           next == EthInit(EthTryAnother(counted, ~ restarted))
<1>0. [l EXCEPT !.tries = IF RetryForever THEN @ ELSE @ + 1] = counted
  BY DEF LoopState
<1>1. CASE GivesUp(l)
  <2>1. NetStartAgain(l) \in LoopState
    BY <1>1 DEF NetStartAgain, LoopState
  <2> QED
    BY <1>1, <2>1
<1>2. CASE ~ GivesUp(l)
  <2>1. n \in {1} \cup 1 .. RetryCnt
    BY <1>2, SettingsFacts DEF GivesUp, LoopState
  <2>2. counted \in LoopState /\ counted.state = l.state /\ counted.handler = l.handler /\ counted.tries = n
    <3> HIDE DEF n
    <3> QED
      BY <2>1 DEF LoopState
  <2>3. /\ next \in LoopState /\ next.state = l.state /\ next.handler = l.handler /\ next.tries = n
    <3> HIDE DEF n, counted
    <3> DEFINE t == EthTryAnother(counted, ~ restarted)
    <3>1. /\ t \in LoopState /\ t.state = l.state /\ t.tries = n /\ t.handler = l.handler
      BY <2>2, TryFacts
    <3>2. next = EthInit(t)
      OBVIOUS
    <3> HIDE DEF t, next
    <3> QED
      BY <3>1, <3>2, EthInitFacts
  <2>4. NetStartAgain(l) \in {[next EXCEPT !.wrap = FALSE, !.handler = "again"], [next EXCEPT !.state = "RESTART"]}
    BY <1>0, <1>2 DEF NetStartAgain
  <2>5. NetStartAgain(l) \in LoopState
    <3> HIDE DEF next
    <3> QED
      BY <2>3, <2>4 DEF LoopState
  <2> QED
    BY <1>0, <2>2, <2>3, <2>5
<1> QED
  BY <1>1, <1>2

(* The beginning of an operation, at "restart".                            *)
LEMMA StartFacts ==
  ASSUME LoopTypeOK, settings \in Settings, UNCHANGED settings, NEW o \in {"PING", "RARP"},
         NEW l \in LoopState, Start(o, l)
  PROVE  /\ at' = "arp" /\ fresh' \in BOOLEAN
         /\ loop' = [l EXCEPT !.state = "CONTINUE", !.handler = o] /\ loop' \in LoopState
         /\ rarpTry' \in 0 .. TimeoutCount /\ arpWait' \in BOOLEAN /\ arpTry' \in 0 .. ArpTimeoutCount - 1
         /\ netIp' \in BOOLEAN
         /\ net' \subseteq net \cup {<<IF o = "PING" THEN "arp" ELSE "rarp", l.current>>}
         /\ net' \subseteq {"arp", "echo", "rarp"} \X Interface
         /\ o = "RARP" => arpWait' = arpWait
<1>0. l.current \in Interface
  BY DEF LoopState
<1>1. CASE o = "PING"
  <2>1. StartPing(l)
    BY <1>1 DEF Start
  <2>2. net' \subseteq net \cup {<<"arp", l.current>>}
    BY <2>1 DEF StartPing, Answer
  <2>3. loop' = [l EXCEPT !.state = "CONTINUE", !.handler = "PING"] /\ loop' \in LoopState
    BY <2>1 DEF StartPing, LoopState
  <2>4. /\ arpWait' = TRUE /\ arpTry' = 1 /\ UNCHANGED <<rarpTry, netIp>>
        /\ at' = "arp" /\ fresh' = FALSE
    BY <2>1 DEF Start, StartPing
  <2>5. 1 \in 0 .. ArpTimeoutCount - 1
    BY CountAssumption
  <2>6. net' \subseteq {"arp", "echo", "rarp"} \X Interface
    BY <1>0, <2>2 DEF LoopTypeOK
  <2> QED
    BY <1>1, <2>2, <2>3, <2>4, <2>5, <2>6 DEF LoopTypeOK
<1>2. CASE o = "RARP"
  <2>1. StartRarp(l)
    BY <1>2 DEF Start
  <2>2. net' \subseteq net \cup {<<"rarp", l.current>>}
    BY <2>1 DEF StartRarp, Answer
  <2>3. loop' = [l EXCEPT !.state = "CONTINUE", !.handler = "RARP"] /\ loop' \in LoopState
    BY <2>1 DEF StartRarp, LoopState
  <2>4. /\ UNCHANGED <<arpWait, arpTry>> /\ rarpTry' = 1 /\ netIp' = FALSE
        /\ at' = "arp" /\ fresh' = FALSE
    BY <2>1 DEF Start, StartRarp, arp
  <2>5. 1 \in 0 .. TimeoutCount
    BY CountAssumption
  <2>6. net' \subseteq {"arp", "echo", "rarp"} \X Interface
    BY <1>0, <2>2 DEF LoopTypeOK
  <2> QED
    BY <1>2, <2>2, <2>3, <2>4, <2>5, <2>6 DEF LoopTypeOK
<1> QED
  BY <1>1, <1>2

LEMMA CheckedType ==
  ASSUME LoopTypeOK, settings \in Settings
  PROVE  Checked \in LoopState
<1>1. NetStartAgain(loop) \in LoopState
  BY StartAgain DEF LoopTypeOK
<1> QED
  BY <1>1 DEF Checked, LoopTypeOK

(* The types, and the command that runs.                                   *)
LoopTyped ==
  /\ LoopTypeOK /\ settings \in Settings
  /\ at # "prompt" => operation \in settings.commands

LEMMA TypedCommand ==
  ASSUME LoopTyped, NEW o \in settings.commands, NEW i \in Interface, NetLoop(o, i)
  PROVE  /\ LoopTyped'
         /\ EthInit([loop EXCEPT !.tries = 1, !.current = i]) \in LoopState
<1> DEFINE entered == EthInit([loop EXCEPT !.tries = 1, !.current = i])
<1>0. LoopTypeOK /\ settings \in Settings /\ UNCHANGED settings /\ o \in {"PING", "RARP"}
  BY SettingsFacts DEF LoopTyped, NetLoop
<1>1. entered \in LoopState
  <2>1. [loop EXCEPT !.tries = 1, !.current = i] \in LoopState
    BY <1>0 DEF LoopTypeOK, LoopState
  <2> QED
    BY <1>0, <2>1, EthInitFacts
<1>2. entered.current \in Interface
  BY <1>1 DEF LoopState
<1>3. LoopState' = LoopState
  BY <1>0 DEF LoopState, RetryCnt, RetryForever
<1>4. at = "prompt" /\ operation' = o /\ restarted' = FALSE /\ answered' = FALSE
  BY DEF NetLoop
<1>5. CASE /\ result' = "error" /\ tried' = {} /\ loop' = entered
           /\ UNCHANGED <<at, rarpTry, arp, fresh, netIp, net>>
  <2> HIDE DEF entered
  <2>1. /\ loop' \in LoopState' /\ tried' \subseteq Interface /\ restarted' \in BOOLEAN /\ answered' \in BOOLEAN
        /\ operation' \in settings.commands /\ result' \in {"none", "ok", "error", "aborted"}
        /\ UNCHANGED <<settings, at, rarpTry, arpWait, arpTry, fresh, netIp, net>>
    BY <1>0, <1>1, <1>3, <1>4, <1>5 DEF arp
  <2>2. LoopTypeOK'
    BY <1>0, <2>1 DEF LoopTypeOK
  <2>3. settings' \in Settings /\ operation' \in settings'.commands
    BY <1>0, <2>1
  <2> QED
    BY <1>1, <2>2, <2>3 DEF LoopTyped, entered
<1>6. CASE result' = "none" /\ tried' = {entered.current} /\ Start(o, entered)
  <2> HIDE DEF entered
  <2>1. /\ at' = "arp" /\ fresh' \in BOOLEAN /\ loop' \in LoopState
        /\ rarpTry' \in 0 .. TimeoutCount /\ arpWait' \in BOOLEAN /\ arpTry' \in 0 .. ArpTimeoutCount - 1
        /\ netIp' \in BOOLEAN /\ net' \subseteq {"arp", "echo", "rarp"} \X Interface
    BY <1>0, <1>1, <1>6, StartFacts
  <2>2. /\ loop' \in LoopState' /\ tried' \subseteq Interface /\ restarted' \in BOOLEAN /\ answered' \in BOOLEAN
        /\ operation' \in settings.commands /\ result' \in {"none", "ok", "error", "aborted"}
        /\ UNCHANGED settings
    BY <1>0, <1>2, <1>3, <1>4, <1>6, <2>1
  <2> QED
    BY <1>0, <1>1, <2>1, <2>2 DEF LoopTyped, LoopTypeOK, entered
<1>7. \/ /\ result' = "error" /\ tried' = {} /\ loop' = entered
         /\ UNCHANGED <<at, rarpTry, arp, fresh, netIp, net>>
      \/ result' = "none" /\ tried' = {entered.current} /\ Start(o, entered)
  BY Zenon DEF NetLoop
<1> QED
  BY <1>1, <1>5, <1>6, <1>7

LEMMA TypedArp ==
  ASSUME LoopTyped, ArpTimeoutCheck
  PROVE  LoopTyped'
<1>0. LoopTypeOK /\ settings \in Settings /\ at = "arp" /\ at' = "rx"
      /\ UNCHANGED <<settings, operation, result, restarted, rarpTry, arpWait, netIp, answered, tried>>
      /\ fresh' = arpWait
  BY DEF LoopTyped, ArpTimeoutCheck
<1>1. LoopState' = LoopState
  BY <1>0 DEF LoopState, RetryCnt, RetryForever
<1>2. /\ loop' \in LoopState /\ arpTry' \in 0 .. ArpTimeoutCount - 1
      /\ net' \subseteq {"arp", "echo", "rarp"} \X Interface
  <2>1. CASE UNCHANGED <<arpTry, loop, net>>
    BY <1>0, <2>1 DEF LoopTypeOK
  <2>2. CASE arpTry' = 0 /\ loop' = [loop EXCEPT !.state = "FAIL"] /\ UNCHANGED net
    BY <1>0, <2>2, CountAssumption DEF LoopTypeOK, LoopState
  <2>3. CASE /\ ~ (arpTry + 1 >= ArpTimeoutCount) /\ arpTry' = arpTry + 1 /\ UNCHANGED loop
             /\ net' = net \cup (IF netIp THEN Answer("arp", loop.current) ELSE {})
    <3>1. loop.current \in Interface
      BY <1>0 DEF LoopTypeOK, LoopState
    <3> QED
      BY <1>0, <2>3, <3>1, CountAssumption DEF LoopTypeOK, Answer
  <2> QED
    BY <2>1, <2>2, <2>3 DEF ArpTimeoutCheck
<1> QED
  BY <1>0, <1>1, <1>2 DEF LoopTyped, LoopTypeOK

LEMMA TypedReceive ==
  ASSUME LoopTyped, Receive
  PROVE  LoopTyped'
<1>0. LoopTypeOK /\ settings \in Settings /\ loop.current \in Interface
  BY DEF LoopTyped, LoopTypeOK, LoopState
<1>1. UNCHANGED <<settings, at, operation, result, restarted, arpTry, fresh, tried, rarpTry>>
  BY DEF Receive, ArpReceive, PingReceive, RarpReceive, Arrives
<1>2. LoopState' = LoopState
  BY <1>1 DEF LoopState, RetryCnt, RetryForever
<1>3. loop' \in LoopState /\ arpWait' \in BOOLEAN /\ netIp' \in BOOLEAN
  BY <1>0 DEF Receive, ArpReceive, PingReceive, RarpReceive, LoopTypeOK, LoopState
<1>4. answered' \in BOOLEAN
  BY <1>0, Zenon DEF Receive, ArpReceive, PingReceive, RarpReceive, LoopTypeOK
<1>5. net' \subseteq net \cup {<<"echo", loop.current>>}
  BY DEF Receive, ArpReceive, PingReceive, RarpReceive, Arrives, Answer
<1> QED
  BY <1>0, <1>1, <1>2, <1>3, <1>4, <1>5 DEF LoopTyped, LoopTypeOK

LEMMA TypedTimer ==
  ASSUME LoopTyped, NoTimeout \/ Timeout
  PROVE  LoopTyped'
<1>0. LoopTypeOK /\ settings \in Settings /\ loop.current \in Interface
  BY DEF LoopTyped, LoopTypeOK, LoopState
<1>1. at = "timer" /\ at' = "check"
      /\ UNCHANGED <<settings, operation, result, restarted, arpWait, arpTry, fresh, netIp, answered, tried>>
  BY DEF NoTimeout, Timeout, PingTimeout, AgainTimeout, RarpTimeout, Expires, arp
<1>2. LoopState' = LoopState
  BY <1>1 DEF LoopState, RetryCnt, RetryForever
<1>3. /\ loop' \in LoopState /\ rarpTry' \in 0 .. TimeoutCount
      /\ net' \subseteq {"arp", "echo", "rarp"} \X Interface
  <2>1. CASE NoTimeout \/ PingTimeout \/ AgainTimeout
    BY <1>0, <2>1 DEF NoTimeout, PingTimeout, AgainTimeout, LoopTypeOK, LoopState
  <2>2. CASE RarpTimeout
    <3>1. CASE loop' = NetStartAgain([loop EXCEPT !.handler = "none"]) /\ UNCHANGED <<rarpTry, net>>
      <4>1. [loop EXCEPT !.handler = "none"] \in LoopState
        BY <1>0 DEF LoopTypeOK, LoopState
      <4>2. loop' \in LoopState
        BY <1>0, <3>1, <4>1, StartAgain DEF LoopTypeOK
      <4> QED
        BY <1>0, <3>1, <4>2 DEF LoopTypeOK
    <3>2. CASE /\ ~ (rarpTry >= TimeoutCount) /\ rarpTry' = rarpTry + 1 /\ UNCHANGED loop
               /\ net' = net \cup Answer("rarp", loop.current)
      BY <1>0, <3>2, CountAssumption DEF LoopTypeOK, Answer
    <3> QED
      BY <2>2, <3>1, <3>2 DEF RarpTimeout
  <2> QED
    BY <2>1, <2>2 DEF Timeout
<1> QED
  BY <1>0, <1>1, <1>2, <1>3 DEF LoopTyped, LoopTypeOK

LEMMA TypedCheck ==
  ASSUME LoopTyped, Continue \/ Restart \/ Return
  PROVE  LoopTyped'
<1>0. LoopTypeOK /\ settings \in Settings /\ Checked \in LoopState
  BY CheckedType DEF LoopTyped
<1>1. at = "check" /\ UNCHANGED <<settings, operation, answered>>
  BY DEF Continue, Restart, Return
<1>2. LoopState' = LoopState
  BY <1>1 DEF LoopState, RetryCnt, RetryForever
<1>3. CASE Continue
  BY <1>0, <1>1, <1>2, <1>3 DEF Continue, LoopTyped, LoopTypeOK, arp
<1>4. CASE Restart
  <2>1. operation \in {"PING", "RARP"} /\ Start(operation, Checked) /\ restarted' = TRUE
        /\ tried' = tried \cup {Checked.current} /\ result' = result
    BY <1>0, <1>1, <1>4, SettingsFacts DEF Restart, LoopTyped
  <2>2. /\ at' = "arp" /\ fresh' \in BOOLEAN /\ loop' \in LoopState
        /\ rarpTry' \in 0 .. TimeoutCount /\ arpWait' \in BOOLEAN /\ arpTry' \in 0 .. ArpTimeoutCount - 1
        /\ netIp' \in BOOLEAN /\ net' \subseteq {"arp", "echo", "rarp"} \X Interface
    BY <1>0, <1>1, <2>1, StartFacts
  <2>3. Checked.current \in Interface
    BY <1>0 DEF LoopState
  <2> QED
    BY <1>0, <1>1, <1>2, <2>1, <2>2, <2>3 DEF LoopTyped, LoopTypeOK
<1>5. CASE Return
  <2>1. loop' \in LoopState /\ at' = "prompt" /\ result' \in {"ok", "error"}
        /\ UNCHANGED <<restarted, rarpTry, arpWait, arpTry, fresh, netIp, net, tried>>
    BY <1>0, <1>5 DEF Return, LoopState, arp
  <2> QED
    BY <1>0, <1>1, <1>2, <2>1 DEF LoopTyped, LoopTypeOK
<1> QED
  BY <1>3, <1>4, <1>5

LEMMA TypedNext ==
  ASSUME LoopTyped, [LoopNext]_loopVars
  PROVE  LoopTyped'
<1>1. ASSUME NEW o \in settings.commands, NEW i \in Interface, NetLoop(o, i) PROVE LoopTyped'
  BY <1>1, TypedCommand
<1>2. CASE SetIp \/ RxDone \/ CtrlC \/ UNCHANGED loopVars
  <2>1. UNCHANGED <<settings, operation, rarpTry, arpTry, net, answered, tried, restarted, fresh>>
    BY <1>2 DEF SetIp, RxDone, CtrlC, loopVars, arp
  <2>2. LoopState' = LoopState
    BY <2>1 DEF LoopState, RetryCnt, RetryForever
  <2>3. /\ at' \in {at, "timer", "prompt"} /\ (at = "prompt" => at' = "prompt")
        /\ result' \in {result, "aborted"} /\ arpWait' \in {arpWait, FALSE} /\ netIp' \in {netIp, TRUE}
        /\ loop' \in {loop, [loop EXCEPT !.handler = "none"]}
    BY <1>2 DEF SetIp, RxDone, CtrlC, loopVars, arp
  <2>4. loop' \in LoopState
    BY <2>3 DEF LoopTyped, LoopTypeOK, LoopState
  <2> QED
    BY <2>1, <2>2, <2>3, <2>4 DEF LoopTyped, LoopTypeOK
<1> QED
  BY <1>1, <1>2, TypedArp, TypedReceive, TypedTimer, TypedCheck DEF LoopNext

-----------------------------------------------------------------------------
(* AliveIsAnswered.  The rotation does not come back to the interface that *)
(* failed first, so that net_start_again() restarts or gives up.           *)

LEMMA PingFewFacts ==
  ASSUME LoopTyped, PingFew
  PROVE  /\ settings.commands = {"PING"} /\ (at # "prompt" => operation = "PING")
         /\ RetryCnt \in Nat /\ (\A l : GivesUp(l) <=> l.tries >= RetryCnt)
         /\ \A l \in LoopState : l.current \in Up /\ EthInit(l) = l
<1>1. settings.commands = {"PING"} /\ (at # "prompt" => operation = "PING")
  BY DEF LoopTyped, PingFew
<1>2. RetryCnt \in Nat /\ (\A l : GivesUp(l) <=> l.tries >= RetryCnt)
  BY SettingsFacts DEF LoopTyped, PingFew, GivesUp
<1>3. ASSUME NEW l \in LoopState PROVE l.current \in Up /\ EthInit(l) = l
  <2>1. l.current \in Up
    BY DEF LoopState, PingFew
  <2> QED
    BY <2>1, EthInitFacts DEF LoopTyped
<1> QED
  BY <1>1, <1>2, <1>3

LEMMA AliveAgain ==
  ASSUME LoopTyped, PingFew, AliveOK, at # "prompt", loop.state = "FAIL", ~ GivesUp(loop)
  PROVE  LET c == NetStartAgain(loop) IN
         /\ c \in LoopState /\ c.state = "RESTART" /\ c.handler = loop.handler /\ c.tries = loop.tries + 1
         /\ ~ c.wrap
         /\ Rotate => /\ c.firstFailed # 0
                      /\ c.firstFailed + loop.tries \in {c.current, c.current + Interfaces}
<1> DEFINE counted == [loop EXCEPT !.tries = loop.tries + 1]
           t == EthTryAnother(counted, ~ restarted)
           failed == IF restarted THEN loop.firstFailed ELSE loop.current
<1>0. /\ settings \in Settings /\ loop \in LoopState /\ restarted \in BOOLEAN /\ ~ RetryForever
      /\ ~ loop.wrap /\ loop.tries < RetryCnt /\ RetryCnt \in Nat /\ loop.tries \in Nat /\ loop.tries >= 1
  <2>1. /\ settings \in Settings /\ loop \in LoopState /\ restarted \in BOOLEAN /\ ~ RetryForever
        /\ ~ loop.wrap
    BY DEF LoopTyped, LoopTypeOK, PingFew, AliveOK
  <2>2. RetryCnt \in Nat /\ ~ (loop.tries >= RetryCnt)
    BY PingFewFacts
  <2>3. loop.tries \in Nat /\ loop.tries >= 1
    BY <2>1, <2>2 DEF LoopState
  <2> QED
    BY <2>1, <2>2, <2>3
<1>1. /\ counted \in LoopState /\ counted.state = "FAIL" /\ counted.handler = loop.handler
      /\ counted.tries = loop.tries + 1 /\ counted.current = loop.current
      /\ counted.firstFailed = loop.firstFailed /\ counted.wrap = loop.wrap
  BY <1>0 DEF LoopState
<1>2. [loop EXCEPT !.tries = IF RetryForever THEN @ ELSE @ + 1] = counted
  BY <1>0 DEF LoopState
<1>3. /\ t \in LoopState /\ t.state = "FAIL" /\ t.tries = loop.tries + 1 /\ t.handler = loop.handler
      /\ ~ Rotate => t = counted
      /\ Rotate => /\ t.current = After(loop.current) /\ t.firstFailed = failed
                   /\ t.wrap <=> After(loop.current) = failed
  <2> HIDE DEF counted
  <2>1. ~ counted.wrap
    BY <1>0, <1>1
  <2>2. (~ restarted) \in BOOLEAN /\ failed = IF ~ restarted THEN counted.current ELSE counted.firstFailed
    BY <1>0, <1>1
  <2> QED
    BY <1>0, <1>1, <2>1, <2>2, TryFacts
<1>4. EthInit(t) = t
  BY <1>3, PingFewFacts
<1>5. Rotate => /\ After(loop.current) # failed /\ failed # 0
                /\ failed + loop.tries \in {After(loop.current), After(loop.current) + Interfaces}
  <2> SUFFICES ASSUME Rotate PROVE /\ After(loop.current) # failed /\ failed # 0
                /\ failed + loop.tries \in {After(loop.current), After(loop.current) + Interfaces}
    OBVIOUS
  <2> DEFINE k == loop.current
             r == loop.tries
             f == loop.firstFailed
  <2>1. /\ k \in Nat /\ 1 <= k /\ k <= Interfaces /\ f \in Nat /\ f <= Interfaces
        /\ Interfaces \in Nat /\ r \in Nat /\ r >= 1 /\ r < Interfaces
    <3>1. k \in Interface /\ f \in Interface \cup {0}
      BY <1>0 DEF LoopState
    <3>2. RetryCnt <= Interfaces
      BY DEF PingFew
    <3> QED
      BY <1>0, <3>1, <3>2, SettingsFacts
  <2>2. After(k) = IF k = Interfaces THEN 1 ELSE k + 1
    BY DEF After
  <2>3. CASE restarted
    <3>1. f # 0 /\ f + r - 1 \in {k, k + Interfaces} /\ failed = f
      BY <2>3 DEF AliveOK
    <3> QED
      BY <2>1, <2>2, <3>1
  <2>4. CASE ~ restarted
    <3>1. r = 1 /\ failed = k
      BY <1>0, <2>4 DEF AliveOK
    <3> QED
      BY <2>1, <2>2, <3>1
  <2> QED
    BY <2>3, <2>4
<1>6. ~ t.wrap
  BY <1>0, <1>1, <1>3, <1>5
<1>7. NetStartAgain(loop) = [t EXCEPT !.state = "RESTART"]
  <2> HIDE DEF t
  <2>1. EthInit(EthTryAnother(counted, ~ restarted)) = t
    BY <1>4 DEF t
  <2> QED
    BY <1>2, <1>6, <2>1 DEF NetStartAgain
<1> HIDE DEF t, failed
<1> QED
  BY <1>3, <1>5, <1>6, <1>7 DEF LoopState

LEMMA AliveStart ==
  ASSUME LoopTyped, PingFew, AliveOK, NEW l \in LoopState, Start("PING", l), UNCHANGED settings,
         ~ l.wrap, restarted' <=> l.tries > 1,
         Rotate /\ restarted' =>
           l.firstFailed # 0 /\ l.firstFailed + l.tries - 1 \in {l.current, l.current + Interfaces}
  PROVE  AliveOK'
<1>1. /\ at' = "arp" /\ loop' = [l EXCEPT !.state = "CONTINUE", !.handler = "PING"]
      /\ net' \subseteq net \cup {<<"arp", l.current>>}
  BY StartFacts DEF LoopTyped
<1>2. \A i \in Interface : <<"rarp", i>> \notin net'
  BY <1>1 DEF AliveOK
<1>3. /\ loop'.state = "CONTINUE" /\ loop'.handler = "PING" /\ loop'.tries = l.tries /\ loop'.wrap = l.wrap
      /\ loop'.current = l.current /\ loop'.firstFailed = l.firstFailed
  BY <1>1 DEF LoopState
<1>4. Rotate' = Rotate
  BY DEF Rotate
<1> QED
  BY <1>1, <1>2, <1>3, <1>4 DEF AliveOK

LEMMA AliveCommand ==
  ASSUME LoopTyped, PingFew, AliveOK, NEW o \in settings.commands, NEW i \in Interface, NetLoop(o, i)
  PROVE  AliveOK'
<1> DEFINE e == [loop EXCEPT !.tries = 1, !.current = i]
<1>0. /\ o = "PING" /\ at = "prompt" /\ restarted' = FALSE /\ UNCHANGED settings /\ loop \in LoopState
      /\ ~ loop.wrap /\ loop.handler \in {"none", "PING"}
  BY PingFewFacts DEF NetLoop, LoopTyped, LoopTypeOK, AliveOK
<1>1. e \in LoopState /\ e.wrap = loop.wrap /\ e.handler = loop.handler /\ e.tries = 1
  BY <1>0 DEF LoopState
<1>2. EthInit(e) = e
  BY <1>1, PingFewFacts
<1>3. \/ result' = "error" /\ loop' = EthInit(e) /\ UNCHANGED <<at, net>>
      \/ Start(o, EthInit(e))
  BY Zenon DEF NetLoop
<1>4. CASE result' = "error" /\ loop' = e /\ UNCHANGED <<at, net>>
  <2> HIDE DEF e
  <2> QED
    BY <1>0, <1>1, <1>4 DEF AliveOK
<1>5. CASE Start("PING", e)
  <2> HIDE DEF e
  <2>1. restarted' <=> e.tries > 1
    BY <1>0, <1>1
  <2> QED
    BY <1>0, <1>1, <1>5, <2>1, AliveStart
<1> QED
  BY <1>0, <1>2, <1>3, <1>4, <1>5

LEMMA AliveNext ==
  ASSUME LoopTyped, PingFew, AliveOK, [LoopNext]_loopVars
  PROVE  AliveOK'
<1>0. /\ loop \in LoopState /\ loop.current \in Interface /\ settings' = settings /\ Rotate' = Rotate
      /\ \A s, h : LET l == [loop EXCEPT !.state = s, !.handler = h]
                   IN  /\ l.wrap = loop.wrap /\ l.tries = loop.tries /\ l.current = loop.current
                       /\ l.firstFailed = loop.firstFailed /\ l.state = s /\ l.handler = h
  <2>1. settings' = settings
    BY DEF LoopNext, NetLoop, SetIp, ArpTimeoutCheck, Receive, ArpReceive, PingReceive, RarpReceive,
           RxDone, CtrlC, NoTimeout, Timeout, PingTimeout, AgainTimeout, RarpTimeout, Continue, Restart,
           Return, loopVars
  <2>2. loop \in LoopState /\ loop.current \in Interface
    BY DEF LoopTyped, LoopTypeOK, LoopState
  <2> QED
    BY <2>1, <2>2 DEF Rotate, LoopState
<1>1. ASSUME NEW o \in settings.commands, NEW i \in Interface, NetLoop(o, i) PROVE AliveOK'
  BY <1>1, AliveCommand
<1>2. CASE SetIp \/ RxDone \/ NoTimeout \/ Continue \/ UNCHANGED loopVars
  <2>1. /\ UNCHANGED <<loop, net, result, restarted, answered>>
        /\ at' = at \/ (at # "prompt" /\ at' # "prompt")
    BY <1>2 DEF SetIp, RxDone, NoTimeout, Continue, loopVars
  <2> QED
    BY <1>0, <2>1 DEF AliveOK
<1>3. CASE ArpTimeoutCheck
  <2>1. /\ at = "arp" /\ at' = "rx" /\ UNCHANGED <<result, restarted, answered>>
        /\ loop' \in {loop, [loop EXCEPT !.state = "FAIL"]}
        /\ net' \subseteq net \cup {<<"arp", loop.current>>}
    BY <1>3 DEF ArpTimeoutCheck, Answer
  <2>2. /\ loop'.wrap = loop.wrap /\ loop'.tries = loop.tries /\ loop'.current = loop.current
        /\ loop'.firstFailed = loop.firstFailed /\ loop'.handler = loop.handler
        /\ loop'.state \in {loop.state, "FAIL"}
    BY <1>0, <2>1 DEF LoopState
  <2>3. \A i \in Interface : <<"rarp", i>> \notin net'
    BY <2>1 DEF AliveOK
  <2> QED
    BY <1>0, <2>1, <2>2, <2>3 DEF AliveOK
<1>4. CASE ArpReceive \/ PingReceive
  <2>1. /\ at = "rx" /\ at' = at /\ UNCHANGED <<result, restarted>>
        /\ \/ loop' = loop /\ answered' = answered
           \/ loop' = [loop EXCEPT !.state = "SUCCESS"] /\ answered'
        /\ net' \subseteq net \cup {<<"echo", loop.current>>}
    <3>1. at = "rx" => operation = "PING"
      BY PingFewFacts
    <3> QED
      BY <1>4, <3>1 DEF ArpReceive, PingReceive, Arrives, Answer
  <2>2. /\ loop'.wrap = loop.wrap /\ loop'.tries = loop.tries /\ loop'.current = loop.current
        /\ loop'.firstFailed = loop.firstFailed /\ loop'.handler = loop.handler
        /\ loop'.state # "RESTART" /\ (loop'.state = "SUCCESS" => answered')
    <3>1. CASE loop' = loop /\ answered' = answered
      BY <2>1, <3>1 DEF AliveOK
    <3>2. CASE loop' = [loop EXCEPT !.state = "SUCCESS"] /\ answered'
      BY <1>0, <3>2 DEF LoopState
    <3> QED
      BY <2>1, <3>1, <3>2
  <2>3. \A i \in Interface : <<"rarp", i>> \notin net'
    BY <2>1 DEF AliveOK
  <2> QED
    BY <1>0, <2>1, <2>2, <2>3 DEF AliveOK
<1>5. CASE RarpReceive
  BY <1>0, <1>5 DEF RarpReceive, Arrives, AliveOK
<1>6. CASE CtrlC
  <2>1. loop'.wrap = loop.wrap /\ loop'.handler = "none" /\ at' = "prompt" /\ result' = "aborted"
        /\ net' = net
    BY <1>0, <1>6 DEF CtrlC, LoopState
  <2> QED
    BY <2>1 DEF AliveOK
<1>7. CASE Timeout
  <2>1. PingTimeout
    BY <1>7 DEF Timeout, AgainTimeout, RarpTimeout, AliveOK
  <2>2. at = "timer" /\ at' = "check" /\ UNCHANGED <<result, restarted, net, answered>>
        /\ loop' = [loop EXCEPT !.handler = "none", !.state = "FAIL"]
    BY <2>1 DEF PingTimeout, Expires
  <2>3. /\ loop'.wrap = loop.wrap /\ loop'.tries = loop.tries /\ loop'.current = loop.current
        /\ loop'.firstFailed = loop.firstFailed /\ loop'.handler = "none" /\ loop'.state = "FAIL"
    BY <1>0, <2>2 DEF LoopState
  <2> QED
    BY <1>0, <2>2, <2>3 DEF AliveOK
<1>8. CASE Restart
  <2>0. at = "check" /\ Checked.state = "RESTART" /\ restarted' = TRUE /\ Start("PING", Checked)
    BY <1>8, PingFewFacts DEF Restart
  <2>1. loop.state = "FAIL" /\ Checked = NetStartAgain(loop)
    BY <2>0 DEF Checked, AliveOK
  <2>2. ~ GivesUp(loop)
    BY <1>0, <2>0, <2>1 DEF NetStartAgain, LoopState
  <2> DEFINE c == Checked
  <2>3. /\ c \in LoopState /\ c.tries = loop.tries + 1 /\ ~ c.wrap
        /\ Rotate => /\ c.firstFailed # 0
                     /\ c.firstFailed + loop.tries \in {c.current, c.current + Interfaces}
    BY <2>0, <2>1, <2>2, AliveAgain
  <2>4. loop.tries \in Nat /\ loop.tries >= 1
    <3>1. RetryCnt \in Nat
      BY PingFewFacts
    <3> QED
      BY <1>0, <3>1 DEF LoopState
  <2>5. c.tries > 1 /\ c.tries - 1 = loop.tries /\ c.firstFailed \in Nat
    BY <2>3, <2>4, SettingsFacts DEF LoopState, LoopTyped
  <2>6. c.firstFailed + c.tries - 1 = c.firstFailed + loop.tries
    BY <2>3, <2>4, <2>5
  <2> HIDE DEF c
  <2>7. Start("PING", c)
    BY <2>0 DEF c
  <2> QED
    BY <1>0, <2>0, <2>3, <2>5, <2>6, <2>7, AliveStart
<1>9. CASE Return
  <2>0. /\ at = "check" /\ Checked.state \in {"SUCCESS", "FAIL"} /\ at' = "prompt"
        /\ result' = IF Checked.state = "FAIL" /\ GivesUp(loop) THEN "error" ELSE "ok"
        /\ loop' = [Checked EXCEPT !.handler = "none"] /\ UNCHANGED <<net, answered>>
    BY <1>9 DEF Return
  <2>1. CASE loop.state = "FAIL"
    <3>1. GivesUp(loop) /\ Checked = [loop EXCEPT !.state = "FAIL"]
      <4>1. Checked = NetStartAgain(loop)
        BY <2>1 DEF Checked
      <4>2. GivesUp(loop)
        BY <2>0, <2>1, <4>1, AliveAgain
      <4> QED
        BY <4>1, <4>2 DEF NetStartAgain
    <3>2. result' = "error" /\ loop'.wrap = loop.wrap /\ loop'.handler = "none"
      BY <1>0, <2>0, <3>1 DEF LoopState
    <3> QED
      BY <2>0, <3>2 DEF AliveOK
  <2>2. CASE loop.state # "FAIL"
    <3>1. Checked = loop
      BY <2>2 DEF Checked
    <3>2. loop.state = "SUCCESS" /\ loop'.wrap = loop.wrap /\ loop'.handler = "none"
      BY <1>0, <2>0, <2>2, <3>1 DEF LoopState
    <3> QED
      BY <2>0, <3>2 DEF AliveOK
  <2> QED
    BY <2>1, <2>2
<1> QED
  BY <1>1, <1>2, <1>3, <1>4, <1>5, <1>6, <1>7, <1>8, <1>9 DEF LoopNext, Receive

-----------------------------------------------------------------------------
(* TriesAll.  The interfaces that were visited are those met from the      *)
(* first on; the next one is new, or all that work were visited.           *)

LEMMA RotateNext ==
  ASSUME settings \in Settings, NEW c \in Up, NEW n \in Up,
         IF After(c) \in Up THEN n = After(c) ELSE Way(After(c), n) \cap Up = {n}
  PROVE  Way(c, n) \cap Up = {n}
<1>0. /\ Up \subseteq Interface /\ Interfaces \in Nat
      /\ \A i \in Interface : i \in Nat /\ 1 <= i /\ i <= Interfaces
  BY SettingsFacts
<1>1. After(c) = IF c = Interfaces THEN 1 ELSE c + 1
  BY DEF After
<1>2. CASE After(c) \in Up
  BY <1>0, <1>1, <1>2 DEF Way
<1>3. CASE After(c) \notin Up
  <2>1. n # After(c)
    BY <1>3
  <2>2. n \in Way(c, n)
    BY <1>0 DEF Way
  <2>3. ASSUME NEW k \in Way(c, n) \cap Up PROVE k \in Way(After(c), n)
    <3>1. k \in Interface /\ k # After(c)
      BY <1>3, <2>3 DEF Way
    <3>2. CASE c = Interfaces
      BY <1>0, <1>1, <2>1, <2>3, <3>1, <3>2 DEF Way
    <3>3. CASE c # Interfaces
      BY <1>0, <1>1, <2>1, <2>3, <3>1, <3>3 DEF Way
    <3> QED
      BY <3>2, <3>3
  <2> QED
    BY <1>3, <2>2, <2>3
<1> QED
  BY <1>2, <1>3

LEMMA ArcNext ==
  ASSUME settings \in Settings, NEW s \in Up, NEW c \in Up, NEW n \in Up, Way(c, n) \cap Up = {n}
  PROVE  \/ Up \subseteq Arc(Up, s, c)
         \/ n \notin Arc(Up, s, c) /\ Arc(Up, s, c) \cup {n} = Arc(Up, s, n)
<1>0. Up \subseteq Interface /\ \A i \in Interface : i \in Nat
  BY SettingsFacts
<1>1. \A k \in Up : (IF c < n THEN c < k /\ k <= n ELSE k > c \/ k <= n) => k = n
  BY <1>0 DEF Way
<1>2. CASE s <= c
  BY <1>0, <1>1, <1>2 DEF Arc
<1>3. CASE c < s
  BY <1>0, <1>1, <1>3 DEF Arc
<1> QED
  BY <1>0, <1>2, <1>3

LEMMA RarpManyFacts ==
  ASSUME LoopTyped, RarpMany
  PROVE  /\ settings.commands = {"RARP"} /\ (at # "prompt" => operation = "RARP") /\ Rotate
         /\ IsFiniteSet(Up) /\ Cardinality(Up) \in Nat /\ RetryCnt >= Cardinality(Up)
         /\ \A s : s \subseteq Interface => IsFiniteSet(s)
         /\ ~ RetryForever /\ RetryCnt \in Nat /\ \A l : GivesUp(l) <=> l.tries >= RetryCnt
<1>1. settings.commands = {"RARP"} /\ (at # "prompt" => operation = "RARP") /\ Rotate
  BY DEF LoopTyped, RarpMany
<1>2. \A s : s \subseteq Interface => IsFiniteSet(s)
  <2>1. IsFiniteSet(Interface)
    BY InterfaceAssumption, FS_Interval DEF Interface
  <2> QED
    BY <2>1, FS_Subset
<1>3. IsFiniteSet(Up) /\ Cardinality(Up) \in Nat /\ Cardinality(Up) # 0
  BY <1>2, SettingsFacts, FS_CardinalityType, FS_EmptySet DEF LoopTyped
<1>4. RetryCnt >= Cardinality(Up) /\ RetryCnt \in Nat
  BY SettingsFacts DEF LoopTyped, RarpMany
<1>5. ~ RetryForever
  BY <1>3, <1>4 DEF RetryCnt
<1>6. \A l : GivesUp(l) <=> l.tries >= RetryCnt
  BY <1>5 DEF GivesUp
<1> QED
  BY <1>1, <1>2, <1>3, <1>4, <1>5, <1>6

(* eth_try_another() moves to the next interface.                          *)
LEMMA TryRotates ==
  ASSUME settings \in Settings, Rotate, NEW l \in LoopState, NEW first \in BOOLEAN
  PROVE  EthTryAnother(l, first) \in LoopState /\ EthTryAnother(l, first).current = After(l.current)
BY TryFacts

(* net_start_again() visits the next interface that works.                 *)
LEMMA TriesAgain ==
  ASSUME LoopTyped, RarpMany, NEW l \in LoopState, l.current \in Up, ~ GivesUp(l)
  PROVE  LET c == NetStartAgain(l) IN
         /\ c.tries = l.tries + 1 /\ c.current \in Up /\ Way(l.current, c.current) \cap Up = {c.current}
         /\ \/ c.state = "RESTART" /\ c.handler = l.handler
            \/ c.state = l.state /\ c.handler = "again"
<1> DEFINE counted == [l EXCEPT !.tries = l.tries + 1]
           t == EthTryAnother(counted, ~ restarted)
           next == EthInit(t)
<1>0. /\ settings \in Settings /\ restarted \in BOOLEAN /\ ~ RetryForever /\ Rotate
      /\ l.tries < RetryCnt /\ l.tries \in Nat
  <2>1. settings \in Settings /\ restarted \in BOOLEAN /\ ~ RetryForever /\ Rotate
    BY RarpManyFacts DEF LoopTyped, LoopTypeOK
  <2>2. RetryCnt \in Nat /\ ~ (l.tries >= RetryCnt)
    BY RarpManyFacts
  <2>3. l.tries \in Nat
    BY <2>2 DEF LoopState
  <2> QED
    BY <2>1, <2>2, <2>3
<1>1. [l EXCEPT !.tries = IF RetryForever THEN @ ELSE @ + 1] = counted
  BY <1>0 DEF LoopState
<1>2. counted \in LoopState /\ counted.current = l.current /\ l.current \in Interface
  BY <1>0, StartAgain DEF LoopState
<1>3. /\ next \in LoopState /\ next.state = l.state /\ next.handler = l.handler /\ next.tries = l.tries + 1
  BY <1>0, <1>1, StartAgain
<1>4. t \in LoopState /\ t.current = After(l.current)
  <2> HIDE DEF counted
  <2>1. (~ restarted) \in BOOLEAN
    BY <1>0
  <2>2. t \in LoopState /\ t.current = After(counted.current)
    BY <1>0, <1>2, <2>1, TryRotates, Zenon
  <2> QED
    BY <1>2, <2>2
<1>5. /\ next.current \in Up
      /\ IF After(l.current) \in Up THEN next.current = After(l.current)
         ELSE Way(After(l.current), next.current) \cap Up = {next.current}
  <2> HIDE DEF t
  <2> QED
    BY <1>0, <1>4, EthInitFacts
<1>6. Way(l.current, next.current) \cap Up = {next.current}
  <2> HIDE DEF next
  <2> QED
    BY <1>0, <1>5, RotateNext
<1>7. NetStartAgain(l) \in {[next EXCEPT !.wrap = FALSE, !.handler = "again"], [next EXCEPT !.state = "RESTART"]}
  BY <1>1 DEF NetStartAgain
<1> HIDE DEF next
<1> QED
  BY <1>3, <1>5, <1>6, <1>7 DEF LoopState

LEMMA TriesStart ==
  ASSUME LoopTyped, RarpMany, TriesOK, NEW l \in LoopState, Start("RARP", l), UNCHANGED settings,
         l.current \in tried', l.current \in Up,
         \/ Up \subseteq tried'
         \/ /\ \E i \in Up : tried' = Arc(Up, i, l.current)
            /\ Cardinality(tried') = l.tries
  PROVE  TriesOK'
<1>1. /\ at' = "arp" /\ loop' = [l EXCEPT !.state = "CONTINUE", !.handler = "RARP"] /\ arpWait' = arpWait
  BY StartFacts DEF LoopTyped
<1>2. /\ loop'.state = "CONTINUE" /\ loop'.handler = "RARP" /\ loop'.tries = l.tries
      /\ loop'.current = l.current
  BY <1>1 DEF LoopState
<1>3. Up' = Up /\ Visited' = tried'
  BY <1>2 DEF Up, Visited
<1> QED
  BY <1>1, <1>2, <1>3 DEF TriesOK, Moved

LEMMA TriesCommand ==
  ASSUME LoopTyped, RarpMany, TriesOK, NEW o \in settings.commands, NEW i \in Interface, NetLoop(o, i)
  PROVE  TriesOK'
<1> DEFINE e == EthInit([loop EXCEPT !.tries = 1, !.current = i])
<1>0. o = "RARP" /\ Rotate /\ UNCHANGED settings /\ settings \in Settings
  BY RarpManyFacts DEF NetLoop, LoopTyped
<1>1. tried' = {e.current} /\ Start("RARP", e)
  BY <1>0, Zenon DEF NetLoop
<1>2. e \in LoopState /\ e.current \in Up /\ e.tries = 1
  <2>1. [loop EXCEPT !.tries = 1, !.current = i] \in LoopState
        /\ [loop EXCEPT !.tries = 1, !.current = i].tries = 1
    BY DEF LoopTyped, LoopTypeOK, LoopState
  <2> QED
    BY <1>0, <2>1, EthInitFacts
<1> HIDE DEF e
<1>3. Arc(Up, e.current, e.current) = {e.current}
  BY <1>0, <1>2, SettingsFacts DEF Arc
<1>4. Cardinality({e.current}) = 1
  BY FS_Singleton
<1> QED
  BY <1>0, <1>1, <1>2, <1>3, <1>4, TriesStart

LEMMA TriesRarpTimeout ==
  ASSUME LoopTyped, RarpMany, TriesOK, RarpTimeout
  PROVE  TriesOK'
<1>0. /\ at = "timer" /\ at' = "check" /\ loop.handler = "RARP" /\ arpWait' = arpWait
      /\ UNCHANGED <<settings, tried>> /\ loop \in LoopState /\ settings \in Settings
  BY DEF RarpTimeout, Expires, LoopTyped, LoopTypeOK, arp
<1>1. Up' = Up /\ RetryCnt' = RetryCnt /\ RetryForever' = RetryForever
  BY <1>0 DEF Up, RetryCnt, RetryForever
<1>2. CASE UNCHANGED loop
  BY <1>0, <1>1, <1>2 DEF TriesOK, Moved, Visited, GivesUp
<1>3. CASE loop' = NetStartAgain([loop EXCEPT !.handler = "none"])
  <2> DEFINE l == [loop EXCEPT !.handler = "none"]
  <2>1. /\ l \in LoopState /\ l.handler = "none" /\ l.state = loop.state /\ l.tries = loop.tries
        /\ l.current = loop.current
    BY <1>0 DEF LoopState
  <2>2. /\ loop.state # "RESTART" /\ loop.current \in Up /\ loop.current \in tried /\ Visited = tried
    BY <1>0 DEF TriesOK, Moved, Visited
  <2> HIDE DEF l
  <2>3. CASE GivesUp(l)
    <3>1. loop' = [l EXCEPT !.state = "FAIL"]
      BY <1>3, <2>3 DEF NetStartAgain, l
    <3>2. /\ loop'.handler = "none" /\ loop'.state = "FAIL" /\ loop'.tries = loop.tries
          /\ loop'.current = loop.current
      BY <2>1, <3>1 DEF LoopState
    <3>3. GivesUp(loop)' /\ ~ Moved' /\ Visited' = Visited
      BY <1>0, <1>1, <2>1, <2>3, <3>2 DEF GivesUp, Moved, Visited
    <3> QED
      BY <1>0, <1>1, <2>2, <3>2, <3>3 DEF TriesOK
  <2>4. CASE ~ GivesUp(l)
    <3>0. loop.state # "FAIL"
      <4>1. GivesUp(loop) => GivesUp(l)
        BY <2>1 DEF GivesUp
      <4> QED
        BY <1>0, <2>4, <4>1 DEF TriesOK
    <3>1. /\ loop'.tries = loop.tries + 1 /\ loop'.current \in Up
          /\ Way(loop.current, loop'.current) \cap Up = {loop'.current}
          /\ \/ loop'.state = "RESTART" /\ loop'.handler = "none"
             \/ loop'.state = loop.state /\ loop'.handler = "again"
      BY <1>3, <2>1, <2>2, <2>4, TriesAgain DEF l
    <3>2. Visited' = Visited \cup {loop'.current} /\ Moved'
      BY <1>0, <2>2, <3>1 DEF Visited, Moved
    <3>3. \/ Up \subseteq Visited'
          \/ /\ \E i \in Up : Visited' = Arc(Up, i, loop'.current)
             /\ Cardinality(Visited') = loop'.tries
      <4>1. CASE Up \subseteq Visited
        BY <3>2, <4>1
      <4>2. ASSUME NEW i \in Up, Visited = Arc(Up, i, loop.current), Cardinality(Visited) = loop.tries
            PROVE  \/ Up \subseteq Visited'
                   \/ /\ \E j \in Up : Visited' = Arc(Up, j, loop'.current)
                      /\ Cardinality(Visited') = loop'.tries
        <5>1. CASE Up \subseteq Arc(Up, i, loop.current)
          BY <3>2, <4>2, <5>1
        <5>2. CASE /\ loop'.current \notin Arc(Up, i, loop.current)
                   /\ Arc(Up, i, loop.current) \cup {loop'.current} = Arc(Up, i, loop'.current)
          <6>1. IsFiniteSet(Visited)
            BY <2>2, RarpManyFacts DEF LoopTyped, LoopTypeOK
          <6>2. Cardinality(Visited') = Cardinality(Visited) + 1
            BY <3>2, <4>2, <5>2, <6>1, FS_AddElement
          <6> QED
            BY <3>1, <3>2, <4>2, <5>2, <6>2
        <5> QED
          BY <1>0, <2>2, <3>1, <5>1, <5>2, ArcNext
      <4> QED
        BY <1>0, <4>1, <4>2 DEF TriesOK
    <3> QED
      BY <1>0, <1>1, <2>2, <3>0, <3>1, <3>2, <3>3 DEF TriesOK
  <2> QED
    BY <2>3, <2>4
<1> QED
  BY <1>2, <1>3 DEF RarpTimeout

(* When there have been as many tries as interfaces work, all were tried.  *)
LEMMA GaveUpAfterAll ==
  ASSUME LoopTyped, RarpMany, TriesOK, at # "prompt", loop.state = "FAIL"
  PROVE  GivesUp(loop) /\ Up \subseteq tried
<1>0. GivesUp(loop) /\ Visited = tried /\ loop \in LoopState
  BY DEF TriesOK, Visited, LoopTyped, LoopTypeOK
<1>1. CASE Up \subseteq Visited
  BY <1>0, <1>1
<1>2. ASSUME NEW i \in Up, Visited = Arc(Up, i, loop.current), Cardinality(Visited) = loop.tries
      PROVE  Up \subseteq tried
  <2>1. Visited \subseteq Up
    BY <1>2 DEF Arc
  <2>2. Cardinality(Visited) >= Cardinality(Up)
    <3>1. loop.tries >= RetryCnt /\ RetryCnt >= Cardinality(Up) /\ RetryCnt \in Nat /\ Cardinality(Up) \in Nat
      BY <1>0, RarpManyFacts
    <3>2. loop.tries \in Nat
      BY <1>0, <3>1 DEF LoopState
    <3> QED
      BY <1>2, <3>1, <3>2
  <2>3. /\ IsFiniteSet(Up) /\ Cardinality(Visited) <= Cardinality(Up)
        /\ Cardinality(Up) = Cardinality(Visited) => Visited = Up
    BY <2>1, RarpManyFacts, FS_Subset
  <2>4. Cardinality(Visited) \in Nat /\ Cardinality(Up) \in Nat
    BY <2>1, <2>3, FS_Subset, FS_CardinalityType
  <2> QED
    BY <1>0, <2>2, <2>3, <2>4
<1> QED
  BY <1>0, <1>1, <1>2 DEF TriesOK

LEMMA TriesNext ==
  ASSUME LoopTyped, RarpMany, TriesOK, [LoopNext]_loopVars
  PROVE  TriesOK'
<1>0. loop \in LoopState /\ settings' = settings /\ Up' = Up /\ RetryCnt' = RetryCnt /\ RetryForever' = RetryForever
  <2>1. settings' = settings
    BY DEF LoopNext, NetLoop, SetIp, ArpTimeoutCheck, Receive, ArpReceive, PingReceive, RarpReceive,
           RxDone, CtrlC, NoTimeout, Timeout, PingTimeout, AgainTimeout, RarpTimeout, Continue, Restart,
           Return, loopVars
  <2> QED
    BY <2>1 DEF LoopTyped, LoopTypeOK, Up, RetryCnt, RetryForever
<1>1. ASSUME NEW o \in settings.commands, NEW i \in Interface, NetLoop(o, i) PROVE TriesOK'
  BY <1>1, TriesCommand
<1>2. CASE SetIp \/ ArpTimeoutCheck \/ RxDone \/ NoTimeout \/ Continue \/ UNCHANGED loopVars
  <2>1. /\ UNCHANGED <<loop, tried, result, arpWait>>
        /\ at' = at \/ (at # "prompt" /\ at' # "prompt")
        /\ at = "check" => at' = "check" \/ loop.state # "RESTART"
    BY <1>2 DEF SetIp, ArpTimeoutCheck, RxDone, NoTimeout, Continue, Checked, loopVars, arp, TriesOK
  <2> QED
    BY <1>0, <2>1 DEF TriesOK, Visited, Moved, GivesUp
<1>3. CASE Receive
  <2>1. /\ at = "rx" /\ at' = at /\ UNCHANGED <<result, arpWait, tried>>
        /\ loop' = [loop EXCEPT !.state = "SUCCESS"]
    BY <1>3 DEF Receive, ArpReceive, PingReceive, RarpReceive, Arrives, TriesOK
  <2>2. /\ loop'.state = "SUCCESS" /\ loop'.handler = loop.handler /\ loop'.tries = loop.tries
        /\ loop'.current = loop.current
    BY <1>0, <2>1 DEF LoopState
  <2> QED
    BY <1>0, <2>1, <2>2 DEF TriesOK, Visited, Moved
<1>4. CASE CtrlC
  <2>1. loop'.handler = "none" /\ at' = "prompt" /\ result' = "aborted" /\ arpWait' = FALSE
    BY <1>0, <1>4 DEF CtrlC, LoopState
  <2> QED
    BY <2>1 DEF TriesOK
<1>5. CASE AgainTimeout
  <2>1. /\ at = "timer" /\ at' = "check" /\ UNCHANGED <<result, arpWait, tried>> /\ loop.handler = "again"
        /\ loop' = [loop EXCEPT !.handler = "none", !.state = "RESTART"]
    BY <1>5 DEF AgainTimeout, Expires, arp
  <2>2. /\ loop'.state = "RESTART" /\ loop'.handler = "none" /\ loop'.tries = loop.tries
        /\ loop'.current = loop.current
    BY <1>0, <2>1 DEF LoopState
  <2> QED
    BY <1>0, <2>1, <2>2 DEF TriesOK, Visited, Moved
<1>6. CASE PingTimeout
  BY <1>6 DEF PingTimeout, TriesOK
<1>7. CASE Restart
  <2>0. /\ at = "check" /\ Checked.state = "RESTART" /\ tried' = tried \cup {Checked.current}
        /\ Start("RARP", Checked)
    BY <1>7, RarpManyFacts DEF Restart
  <2>1. Checked = loop
    <3>1. CASE loop.state = "FAIL"
      <4>1. GivesUp(loop)
        BY <2>0, <3>1, GaveUpAfterAll
      <4> QED
        BY <1>0, <2>0, <3>1, <4>1 DEF Checked, NetStartAgain, LoopState
    <3>2. CASE loop.state # "FAIL"
      BY <3>2 DEF Checked
    <3> QED
      BY <3>1, <3>2
  <2>2. tried' = Visited /\ loop.current \in Up /\ loop.current \in tried'
    BY <2>0, <2>1 DEF TriesOK, Visited
  <2>3. \/ Up \subseteq tried'
        \/ /\ \E i \in Up : tried' = Arc(Up, i, loop.current)
           /\ Cardinality(tried') = loop.tries
    BY <2>0, <2>2 DEF TriesOK
  <2> QED
    BY <1>0, <2>0, <2>1, <2>2, <2>3, TriesStart
<1>8. CASE Return
  <2>0. /\ at = "check" /\ at' = "prompt" /\ UNCHANGED <<tried, arpWait>>
        /\ result' = IF Checked.state = "FAIL" /\ GivesUp(loop) THEN "error" ELSE "ok"
        /\ loop' = [Checked EXCEPT !.handler = "none"] /\ Checked \in LoopState
    BY <1>8, CheckedType DEF Return, arp, LoopTyped
  <2>1. loop'.handler = "none"
    BY <2>0 DEF LoopState
  <2>2. result' = "error" => Up \subseteq tried
    <3>1. CASE loop.state = "FAIL"
      BY <2>0, <3>1, GaveUpAfterAll
    <3>2. CASE loop.state # "FAIL"
      BY <2>0, <3>2 DEF Checked
    <3> QED
      BY <3>1, <3>2
  <2> QED
    BY <1>0, <2>0, <2>1, <2>2 DEF TriesOK
<1> QED
  BY <1>1, <1>2, <1>3, <1>4, <1>5, <1>6, <1>7, <1>8, TriesRarpTimeout DEF LoopNext, Timeout

-----------------------------------------------------------------------------
(* The invariant holds under every setting: the conditions of its two      *)
(* parts are on the settings, which never change (net_loop and             *)
(* net_start_again).                                                       *)
THEOREM LoopInvariant == LoopSpec => []LoopInv
<1>1. LoopInit => LoopInv
  <2> SUFFICES ASSUME LoopInit PROVE LoopInv
    OBVIOUS
  <2>1. LoopTypeOK /\ settings \in Settings
    <3>1. 0 \in 0 .. TimeoutCount /\ 0 \in 0 .. ArpTimeoutCount - 1
      BY CountAssumption
    <3> QED
      BY <3>1 DEF LoopInit, LoopTypeOK
  <2>2. ~ loop.wrap /\ loop.handler = "none" /\ at = "prompt" /\ result = "none" /\ net = {} /\ ~ arpWait
    BY DEF LoopInit
  <2> QED
    BY <2>1, <2>2 DEF LoopInv, AliveOK, TriesOK
<1>2. LoopInv /\ [LoopNext]_loopVars => LoopInv'
  <2> SUFFICES ASSUME LoopInv, [LoopNext]_loopVars PROVE LoopInv'
    OBVIOUS
  <2>0. LoopTyped
    BY DEF LoopInv, LoopTyped
  <2>1. LoopTyped'
    BY <2>0, TypedNext
  <2>2. settings' = settings
    BY DEF LoopNext, NetLoop, SetIp, ArpTimeoutCheck, Receive, ArpReceive, PingReceive, RarpReceive,
           RxDone, CtrlC, NoTimeout, Timeout, PingTimeout, AgainTimeout, RarpTimeout, Continue, Restart,
           Return, loopVars
  <2>3. (PingFew' => PingFew) /\ (RarpMany' => RarpMany)
    BY <2>2 DEF PingFew, RarpMany, RetryForever, RetryCnt, Rotate, Up
  <2>4. PingFew => AliveOK'
    BY <2>0, AliveNext DEF LoopInv
  <2>5. RarpMany => TriesOK'
    BY <2>0, TriesNext DEF LoopInv
  <2> QED
    BY <2>1, <2>3, <2>4, <2>5 DEF LoopInv, LoopTyped
<1> QED
  BY <1>1, <1>2, PTL DEF LoopSpec

(* ping says that a host is alive only if it answered, for any number of   *)
(* interfaces and of retries that does not exceed it (ping_receive and     *)
(* net_start_again).                                                       *)
THEOREM AliveIsAlwaysAnswered == LoopSpec => []AliveIsAnswered
<1>1. LoopInv => AliveIsAnswered
  BY DEF LoopInv, AliveOK, AliveIsAnswered
<1> QED
  BY <1>1, LoopInvariant, PTL

(* An operation that fails has been tried on every interface that works,   *)
(* whichever these are (eth_try_another and eth_init).                     *)
THEOREM AlwaysTriesAll == LoopSpec => []TriesAll
<1>1. LoopInv => TriesAll
  BY DEF LoopInv, TriesOK, TriesAll
<1> QED
  BY <1>1, LoopInvariant, PTL
=============================================================================
