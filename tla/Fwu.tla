-------------------------------- MODULE Fwu ---------------------------------
(***************************************************************************)
(* The firmware update calls of BL1 (bl1/bl1_fwu.c): the normal world has  *)
(* secure images copied, authenticated and executed, and a secure image    *)
(* runs until it is done or gives the CPU back.                            *)
(*                                                                         *)
(* One CPU; each call is one step.  A call that is refused and changes     *)
(* nothing is left out.  The contents of the secure memory are the images  *)
(* whose bytes it holds.  External are the platform's checks of memory and *)
(* its hook before a load, which may fail, and the authentication.         *)
(***************************************************************************)
EXTENDS Integers, FiniteSets

CONSTANTS
  Image,        \* images
  Secure,       \* those of the secure world
  Executable,   \* those of them that can be executed
  Base,         \* image_base of each image
  MaxSize,      \* image_max_size of each image
  Sizes,        \* sizes of images and blocks that the normal world offers
  Slots,        \* FWU_MAX_SIMULTANEOUS_IMAGES
  None,         \* INVALID_IMAGE_ID
  Faults        \* what may fail: "map" and "pre"

Bytes(i, n) == Base[i] .. Base[i] + n - 1
Address == UNION {Bytes(i, MaxSize[i]) : i \in Secure}

ASSUME ImageAssumption ==
  /\ Executable \subseteq Secure /\ Secure \subseteq Image /\ None \notin Image
  /\ Base \in [Image -> Nat] /\ MaxSize \in [Image -> Nat \ {0}]
ASSUME SizeAssumption == Sizes \subseteq Nat \ {0} /\ Slots \in Nat \ {0}
ASSUME EnvironmentAssumption == Faults \subseteq {"map", "pre"}

VARIABLES
  state,        \* image_desc->state
  size,         \* image_info.image_size
  copied,       \* copied_size
  loaded,       \* bl1_fwu_loaded_ids, as a set
  secExec,      \* sec_exec_image_id
  mem,          \* the secure memory: whose bytes, or None for zeroes
  world,        \* who runs: "NS", "S", or "assert" after an assertion has failed
  here          \* the images that are in their place in the secure memory

vars == <<state, size, copied, loaded, secExec, mem, world, here>>

States == {"RESET", "COPYING", "COPIED", "AUTHENTICATED", "EXECUTED", "INTERRUPTED"}

TypeOK ==
  /\ state \in [Image -> States]
  /\ size \in [Image -> Nat] /\ copied \in [Image -> Nat]
  /\ loaded \subseteq Image /\ Cardinality(loaded) <= Slots
  /\ secExec \in Executable \cup {None}
  /\ mem \in [Address -> Image \cup {None}]
  /\ world \in {"NS", "S", "assert"}
  /\ here \subseteq Secure

Set(i, s) == state' = [state EXCEPT ![i] = s]
Fill(a, x) == mem' = [b \in Address |-> IF b \in a THEN x ELSE mem[b]]

(* An assertion fails.                                                     *)
AssertFails ==
  /\ world' = "assert"
  /\ UNCHANGED <<state, size, copied, loaded, secExec, mem, here>>

-----------------------------------------------------------------------------
(* bl1_fwu_image_copy *)

(* Faulty variant: the end of an image is not part of it.                  *)
OverlapShort(i, n, j) ==
  size[j] > 1 /\ n > 1 /\ Bytes(i, n - 1) \cap Bytes(j, size[j] - 1) # {}

(* bl1_fwu_image_check_overlaps goes through the images that are loaded,   *)
(* in the order of their slots, which is left open here.  It compares the  *)
(* image with each other one ...                                           *)
Overlap(i, n, j) == Bytes(i, n) \cap Bytes(j, size[j]) # {}

(* ... after assertions on the other one's state and end.                  *)
AssertsHold(j) == state[j] # "RESET" /\ (size[j] # 0 => size[j] > 1)

NoOverlap(i, n) == \A j \in loaded \ {i} : AssertsHold(j) /\ ~ Overlap(i, n, j)

(* bl1_fwu_add_loaded_id.                                                  *)
CanAdd(i) == i \in loaded \/ Cardinality(loaded) < Slots

(* The block b of an image of size n is copied: the next one of the image, *)
(* clipped to what remains of it.                                          *)
CopyBlock(i, n, from, b) ==
  LET block == IF b > n - from THEN n - from ELSE b IN
  /\ size' = [size EXCEPT ![i] = n]
  /\ copied' = [copied EXCEPT ![i] = from + block]
  /\ loaded' = loaded \cup {i}
  /\ Fill(Bytes(i, from + block) \ Bytes(i, from), i)
  /\ Set(i, IF block = n - from THEN "COPIED" ELSE "COPYING")
  /\ here' = here \cup {i}
  /\ UNCHANGED <<secExec, world>>

(* A first block, of an image that does not overlap another one ...        *)
FirstBlock(i, n, b) ==
  /\ world = "NS" /\ i \in Secure /\ state[i] = "RESET"
  /\ n <= MaxSize[i]
  /\ NoOverlap(i, n) /\ CanAdd(i)
  /\ CopyBlock(i, n, 0, b)

(* ... or of one that does, the size of which is forgotten ...             *)
CopyOverlap(i, n) ==
  /\ world = "NS" /\ i \in Secure /\ state[i] = "RESET"
  /\ n <= MaxSize[i]
  /\ \E j \in loaded \ {i} : AssertsHold(j) /\ Overlap(i, n, j)
  /\ size' = [size EXCEPT ![i] = 0]
  /\ UNCHANGED <<state, copied, loaded, secExec, mem, world, here>>

(* ... or the source is not mapped, or there is no slot ...                *)
CopyUnmapped(i, n) ==
  /\ world = "NS" /\ i \in Secure /\ state[i] = "RESET"
  /\ n <= MaxSize[i]
  /\ NoOverlap(i, n)
  /\ "map" \in Faults \/ ~ CanAdd(i)
  /\ size' = [size EXCEPT ![i] = n]
  /\ copied' = [copied EXCEPT ![i] = 0]
  /\ UNCHANGED <<state, loaded, secExec, mem, world, here>>

(* ... or bl1_plat_handle_pre_image_load fails ...                         *)
CopyNotPrepared(i, n) ==
  /\ world = "NS" /\ i \in Secure /\ state[i] = "RESET" /\ "pre" \in Faults
  /\ n <= MaxSize[i]
  /\ NoOverlap(i, n) /\ CanAdd(i)
  /\ size' = [size EXCEPT ![i] = n]
  /\ copied' = [copied EXCEPT ![i] = 0]
  /\ loaded' = loaded \cup {i}
  /\ UNCHANGED <<state, secExec, mem, world, here>>

(* ... or an assertion fails first.                                        *)
CopyAsserts(i, n) ==
  /\ world = "NS" /\ i \in Secure /\ state[i] = "RESET"
  /\ n <= MaxSize[i]
  /\ \E j \in loaded \ {i} : ~ AssertsHold(j)
  /\ AssertFails

(* A further block.                                                        *)
NextBlock(i, b) ==
  /\ world = "NS" /\ state[i] = "COPYING" /\ CanAdd(i)
  /\ CopyBlock(i, size[i], copied[i], b)

-----------------------------------------------------------------------------
(* bl1_fwu_image_auth *)

(* An image that has been copied: what fails is cleared.                   *)
AuthCopied(i, ok) ==
  /\ world = "NS" /\ state[i] = "COPIED"
  /\ IF ok THEN Set(i, "AUTHENTICATED") /\ UNCHANGED <<loaded, mem, here>>
     ELSE /\ Fill(Bytes(i, size[i]), None)
          /\ Set(i, "RESET") /\ here' = here \ {i}
          /\ loaded' = loaded \ {i}
  /\ UNCHANGED <<size, copied, secExec, world>>

(* An image of size n, in the place where the caller has it.  copied_size  *)
(* stays what an earlier copy of the image has left.                       *)
AuthInPlace(i, n, ok) ==
  /\ world = "S" \/ (world = "NS" /\ i \notin Secure)
  /\ state[i] = "RESET" /\ CanAdd(i)
  /\ size' = [size EXCEPT ![i] = n]
  /\ IF ok THEN Set(i, "AUTHENTICATED") /\ loaded' = loaded \cup {i}
     ELSE loaded' = loaded \ {i} /\ UNCHANGED state
  /\ UNCHANGED <<copied, secExec, mem, world, here>>

-----------------------------------------------------------------------------
(* Execution *)

(* Faulty variant: any image that has been copied.                         *)
ExecuteCopied(i) ==
  /\ world = "NS" /\ i \in Executable /\ state[i] \in {"COPIED", "COPYING", "AUTHENTICATED"}
  /\ Set(i, "EXECUTED")
  /\ secExec' = i /\ world' = "S"
  /\ UNCHANGED <<size, copied, loaded, mem, here>>

(* bl1_fwu_image_execute.                                                  *)
Execute(i) ==
  /\ world = "NS" /\ i \in Executable /\ state[i] = "AUTHENTICATED"
  /\ Set(i, "EXECUTED")
  /\ secExec' = i /\ world' = "S"
  /\ UNCHANGED <<size, copied, loaded, mem, here>>

(* bl1_fwu_image_resume, from the secure world ...                         *)
Yield ==
  /\ world = "S"
  /\ IF secExec # None /\ state[secExec] = "EXECUTED"
     THEN /\ Set(secExec, "INTERRUPTED") /\ world' = "NS"
          /\ UNCHANGED <<size, copied, loaded, secExec, mem, here>>
     ELSE AssertFails

(* Faulty variant: takes any state of the image for an interruption.       *)
ResumeAny ==
  /\ world = "NS" /\ secExec # None
  /\ world' = "S"
  /\ UNCHANGED <<state, size, copied, loaded, secExec, mem, here>>

(* ... and from the normal world.                                          *)
Resume ==
  /\ world = "NS" /\ secExec # None
  /\ IF state[secExec] = "INTERRUPTED"
     THEN /\ Set(secExec, "EXECUTED") /\ world' = "S"
          /\ UNCHANGED <<size, copied, loaded, secExec, mem, here>>
     ELSE AssertFails

(* bl1_fwu_sec_image_done: neither the memory nor copied_size is cleared.  *)
Done ==
  /\ world = "S"
  /\ IF secExec # None /\ state[secExec] = "EXECUTED" /\ secExec \in loaded
     THEN /\ loaded' = loaded \ {secExec} /\ here' = here \ {secExec}
          /\ Set(secExec, "RESET") /\ secExec' = None /\ world' = "NS"
          /\ UNCHANGED <<size, copied, mem>>
     ELSE AssertFails

(* bl1_fwu_image_reset clears as many bytes of the image's place as were   *)
(* ever copied there, also when the image has been authenticated elsewhere.*)
Reset(i) ==
  /\ world = "NS" /\ state[i] # "RESET"
  /\ IF state[i] = "EXECUTED" \/ (copied[i] # 0 /\ i \notin Secure)
     THEN AssertFails
     ELSE /\ i \in loaded
          /\ loaded' = loaded \ {i}
          /\ Fill(Bytes(i, copied[i]), None)
          /\ copied' = [copied EXCEPT ![i] = 0] /\ size' = [size EXCEPT ![i] = 0]
          /\ Set(i, "RESET") /\ here' = here \ {i}
          /\ UNCHANGED <<secExec, world>>

-----------------------------------------------------------------------------

Init ==
  /\ state = [i \in Image |-> "RESET"]
  /\ size = [i \in Image |-> 0] /\ copied = [i \in Image |-> 0]
  /\ loaded = {} /\ secExec = None
  /\ mem = [a \in Address |-> None]
  /\ world = "NS" /\ here = {}

Next ==
  \/ \E i \in Image :
       \/ \E n \in Sizes :
            \/ \E b \in Sizes : FirstBlock(i, n, b)
            \/ CopyOverlap(i, n) \/ CopyUnmapped(i, n) \/ CopyNotPrepared(i, n)
            \/ CopyAsserts(i, n)
            \/ NextBlock(i, n)
            \/ \E ok \in BOOLEAN : AuthInPlace(i, n, ok)
       \/ \E ok \in BOOLEAN : AuthCopied(i, ok)
       \/ Execute(i) \/ Reset(i)
  \/ Yield \/ Resume \/ Done

Spec == Init /\ [][Next]_vars

-----------------------------------------------------------------------------
(* Correctness *)

(* Every image that is loaded or being loaded is in bl1_fwu_loaded_ids, so *)
(* that bl1_fwu_image_check_overlaps compares a new one with all of them.  *)
(* (An image that bl1_plat_handle_pre_image_load refuses stays there too.) *)
LoadedIsTracked == \A i \in Image : state[i] # "RESET" => i \in loaded

(* No copy of another image, no clearing after a failed authentication and *)
(* no reset touches the memory that an image has been copied to, as long   *)
(* as it stays loaded, but for one case.  Another secure image is reset    *)
(* which is not in its place, because the secure world had it              *)
(* authenticated elsewhere, and an earlier copy of it had been there:      *)
(* FWU_SMC_IMAGE_RESET "zeroes the memory used by" an image                *)
(* (firmware-update.rst) and goes by the copied_size of that copy.         *)
OnlyStaleResetClears ==
  [][\A i \in here \cap here' : \A a \in Bytes(i, copied[i]) :
       \/ mem'[a] = mem[a]
       \/ \E j \in Secure \ here :
            a \in Bytes(j, copied[j]) /\ state[j] # "RESET" /\ state'[j] = "RESET"]_vars

(* What is executed in the secure memory has been copied to the end.       *)
ExecutedIsComplete ==
  /\ TypeOK
  /\ \A i \in here :
       state[i] \in {"AUTHENTICATED", "EXECUTED", "INTERRUPTED"} => copied[i] = size[i]

(* While the secure world runs, sec_exec_image_id names an image that is   *)
(* executed and tracked: the assertions of bl1_fwu_image_resume for this   *)
(* caller, and of bl1_fwu_sec_image_done.  (Those for the normal world may *)
(* fail: it may reset an image that is interrupted.)                       *)
SecureIsExecuted ==
  world = "S" => secExec # None /\ state[secExec] = "EXECUTED" /\ secExec \in loaded
=============================================================================
