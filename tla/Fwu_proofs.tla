----------------------------- MODULE Fwu_proofs -----------------------------
(***************************************************************************)
(* Proofs about Fwu.  That nothing but a stale reset touches a copied image*)
(* needs more than itself: that BL1 keeps track of the images which are in *)
(* memory, so that a further one is checked against each, that what is     *)
(* being copied is in memory, and that the bytes given to images are       *)
(* disjoint.                                                               *)
(***************************************************************************)
EXTENDS Fwu, FiniteSetTheorems, TLAPS

Typed ==
  /\ state \in [Image -> States]
  /\ size \in [Image -> Nat] /\ copied \in [Image -> Nat]
  /\ loaded \subseteq Image
  /\ secExec \in Executable \cup {None}
  /\ mem \in [Address -> Image \cup {None}]
  /\ here \subseteq Secure

(* The images in memory are tracked and not reset; those that are being    *)
(* copied or have just been are in memory.                                 *)
HereIsLoaded ==
  /\ \A i \in here : i \in loaded /\ state[i] # "RESET"
  /\ \A i \in Secure : state[i] \in {"COPYING", "COPIED"} => i \in here

(* Nothing is copied of an image of the normal world.                      *)
NormalIsNotCopied ==
  \A i \in Image \ Secure : copied[i] = 0 /\ state[i] \in {"RESET", "AUTHENTICATED"}

CopiedInSize ==
  /\ \A i \in here : copied[i] <= size[i] /\ size[i] <= MaxSize[i]
  /\ \A i \in Secure : copied[i] <= MaxSize[i]

Disjoint == \A i, j \in here : i # j => Bytes(i, size[i]) \cap Bytes(j, size[j]) = {}

IInv == Typed /\ HereIsLoaded /\ NormalIsNotCopied /\ CopiedInSize /\ Disjoint

(* What OnlyStaleResetClears says of a step.                               *)
Spared ==
  \A i \in here \cap here' : \A a \in Bytes(i, copied[i]) :
    \/ mem'[a] = mem[a]
    \/ \E j \in Secure \ here :
         a \in Bytes(j, copied[j]) /\ state[j] # "RESET" /\ state'[j] = "RESET"

-----------------------------------------------------------------------------

LEMMA BytesAreInBytes ==
  ASSUME NEW i \in Image, NEW m \in Nat, NEW n \in Nat, m <= n
  PROVE  Bytes(i, m) \subseteq Bytes(i, n)
BY ImageAssumption DEF Bytes

LEMMA BytesAreAddresses ==
  ASSUME NEW i \in Secure, NEW n \in Nat, n <= MaxSize[i]
  PROVE  Bytes(i, n) \subseteq Address
<1>1. Bytes(i, n) \subseteq Bytes(i, MaxSize[i])
  BY BytesAreInBytes, ImageAssumption
<1> QED BY <1>1 DEF Address

LEMMA NoBytes == ASSUME NEW i \in Image PROVE Bytes(i, 0) = {}
BY ImageAssumption DEF Bytes

(* What the images in memory rest on stays when their sizes do.            *)
LEMMA Undisturbed ==
  ASSUME IInv, here' \subseteq here,
         \A i \in here' : size'[i] = size[i] /\ copied'[i] = copied[i],
         \A i \in Secure : copied'[i] = copied[i] \/ copied'[i] = 0
  PROVE  CopiedInSize' /\ Disjoint'
<1>1. CopiedInSize'
  <2>1. \A i \in Secure : MaxSize[i] \in Nat /\ 0 <= MaxSize[i]
    BY ImageAssumption
  <2> QED BY <2>1 DEF IInv, CopiedInSize
<1>2. Disjoint'
  BY DEF IInv, Disjoint
<1> QED BY <1>1, <1>2

(* The bytes that an image has been copied to are its own.                 *)
LEMMA OwnBytes ==
  ASSUME IInv, NEW j \in here, NEW x \in Bytes(j, copied[j])
  PROVE  /\ x \in Address /\ x \in Bytes(j, size[j])
         /\ \A i \in here : i # j => x \notin Bytes(i, size[i])
<1>1. /\ j \in Secure /\ j \in Image /\ copied[j] \in Nat /\ size[j] \in Nat
      /\ copied[j] <= size[j] /\ size[j] <= MaxSize[j] /\ MaxSize[j] \in Nat
  BY ImageAssumption DEF IInv, Typed, CopiedInSize
<1>2. x \in Bytes(j, size[j]) /\ x \in Address
  BY <1>1, BytesAreInBytes, BytesAreAddresses
<1> QED BY <1>2 DEF IInv, Disjoint

(* Clearing memory of an image that goes away disturbs no other image.     *)
LEMMA Leaves ==
  ASSUME IInv, NEW i \in here, NEW A, A \subseteq Bytes(i, size[i]), Fill(A, None), here' = here \ {i}
  PROVE  Spared
<1>1. ASSUME NEW j \in here', NEW x \in Bytes(j, copied[j]) PROVE mem'[x] = mem[x]
  <2>1. x \in Address /\ x \notin A
    BY <1>1, OwnBytes
  <2> QED BY <2>1 DEF Fill
<1> QED BY <1>1 DEF Spared

(* A block is copied to the range that the image was given.                *)
LEMMA CopyBlockInv ==
  ASSUME IInv, NEW i \in Secure, NEW n \in Nat, NEW from \in Nat, NEW b \in Nat \ {0},
         n <= MaxSize[i], from <= n,
         i \in here => size[i] = n /\ copied[i] = from,
         i \notin here => from = 0,
         \A j \in here \ {i} : Bytes(i, n) \cap Bytes(j, size[j]) = {},
         CopyBlock(i, n, from, b)
  PROVE  IInv' /\ Spared
<1> DEFINE block == IF b > n - from THEN n - from ELSE b
           new == from + block
<1>1. new \in Nat /\ new <= n /\ from <= new /\ i \in Image
  BY ImageAssumption
<1>2. /\ size' = [size EXCEPT ![i] = n] /\ copied' = [copied EXCEPT ![i] = new]
      /\ loaded' = loaded \cup {i} /\ here' = here \cup {i}
      /\ Fill(Bytes(i, new) \ Bytes(i, from), i)
      /\ state' = [state EXCEPT ![i] = IF block = n - from THEN "COPIED" ELSE "COPYING"]
      /\ secExec' = secExec
  BY DEF CopyBlock, Set
<1>3. Typed'
  <2>1. size' \in [Image -> Nat] /\ copied' \in [Image -> Nat]
    BY <1>1, <1>2 DEF IInv, Typed
  <2>2. state' \in [Image -> States]
    BY <1>1, <1>2 DEF IInv, Typed, States
  <2>3. mem' \in [Address -> Image \cup {None}]
    BY <1>1, <1>2 DEF IInv, Typed, Fill
  <2> QED BY <1>1, <1>2, <2>1, <2>2, <2>3 DEF IInv, Typed
<1>4. HereIsLoaded'
  <2>1. state'[i] # "RESET"
    BY <1>1, <1>2 DEF IInv, Typed
  <2>2. \A j \in Secure : j # i => state'[j] = state[j]
    BY <1>2, ImageAssumption DEF IInv, Typed
  <2> QED BY <1>2, <2>1, <2>2 DEF IInv, HereIsLoaded
<1>5. NormalIsNotCopied'
  BY <1>1, <1>2 DEF IInv, Typed, NormalIsNotCopied
<1>6. \A j \in here : j # i => size'[j] = size[j] /\ copied'[j] = copied[j]
  BY <1>2, ImageAssumption DEF IInv, Typed
<1>7. size'[i] = n /\ copied'[i] = new
  BY <1>1, <1>2 DEF IInv, Typed
<1>8. CopiedInSize'
  <2>1. \A j \in Secure : j # i => copied'[j] = copied[j]
    BY <1>2, ImageAssumption DEF IInv, Typed
  <2>2. new <= MaxSize[i] /\ MaxSize[i] \in Nat
    BY <1>1, ImageAssumption
  <2> QED BY <1>1, <1>2, <1>6, <1>7, <2>1, <2>2 DEF IInv, CopiedInSize
<1>9. Disjoint'
  BY <1>2, <1>6, <1>7 DEF IInv, Disjoint
<1>10. Spared
  <2> SUFFICES ASSUME NEW j \in here, NEW x \in Bytes(j, copied[j]) PROVE mem'[x] = mem[x]
    BY DEF Spared
  <2>1. x \in Address
    BY OwnBytes
  <2>2. x \notin Bytes(i, new) \ Bytes(i, from)
    <3>1. CASE j = i
      BY <3>1
    <3>2. CASE j # i
      BY <1>1, <3>2, OwnBytes, BytesAreInBytes
    <3> QED BY <3>1, <3>2
  <2> QED BY <1>2, <2>1, <2>2 DEF Fill
<1> QED BY <1>3, <1>4, <1>5, <1>8, <1>9, <1>10 DEF IInv

-----------------------------------------------------------------------------
(* The steps *)

LEMMA FirstBlockInv ==
  ASSUME IInv, NEW i \in Image, NEW n \in Sizes, NEW b \in Sizes, FirstBlock(i, n, b)
  PROVE  IInv' /\ Spared
<1>1. /\ i \in Secure /\ state[i] = "RESET" /\ n <= MaxSize[i] /\ NoOverlap(i, n)
      /\ CopyBlock(i, n, 0, b)
  BY DEF FirstBlock
<1>2. i \notin here /\ \A j \in here \ {i} : Bytes(i, n) \cap Bytes(j, size[j]) = {}
  BY <1>1 DEF IInv, HereIsLoaded, NoOverlap, Overlap
<1>3. n \in Nat /\ 0 <= n /\ 0 \in Nat /\ b \in Nat \ {0}
  BY SizeAssumption
<1> QED BY <1>1, <1>2, <1>3, CopyBlockInv

LEMMA NextBlockInv ==
  ASSUME IInv, NEW i \in Image, NEW b \in Sizes, NextBlock(i, b)
  PROVE  IInv' /\ Spared
<1>1. state[i] = "COPYING" /\ CopyBlock(i, size[i], copied[i], b)
  BY DEF NextBlock
<1>2. i \in Secure /\ i \in here
  BY <1>1 DEF IInv, NormalIsNotCopied, HereIsLoaded
<1>3. /\ size[i] \in Nat /\ copied[i] \in Nat /\ copied[i] <= size[i] /\ size[i] <= MaxSize[i]
      /\ \A j \in here \ {i} : Bytes(i, size[i]) \cap Bytes(j, size[j]) = {}
  BY <1>2 DEF IInv, Typed, CopiedInSize, Disjoint
<1> QED BY <1>1, <1>2, <1>3, SizeAssumption, CopyBlockInv

(* A copy that is refused concerns an image that is not in memory.         *)
LEMMA RefusedInv ==
  ASSUME IInv, NEW i \in Image, NEW n \in Sizes,
         CopyOverlap(i, n) \/ CopyUnmapped(i, n) \/ CopyNotPrepared(i, n)
  PROVE  IInv' /\ Spared
<1>1. /\ i \in Secure /\ state[i] = "RESET" /\ n \in Nat
      /\ \E m \in Nat : size' = [size EXCEPT ![i] = m]
      /\ copied' = copied \/ copied' = [copied EXCEPT ![i] = 0]
      /\ loaded' = loaded \/ loaded' = loaded \cup {i}
      /\ UNCHANGED <<state, secExec, mem, here>>
  BY SizeAssumption DEF CopyOverlap, CopyUnmapped, CopyNotPrepared
<1>2. Typed'
  BY <1>1 DEF IInv, Typed
<1>3. i \notin here
  BY <1>1 DEF IInv, HereIsLoaded
<1>4. \A j \in here : size'[j] = size[j] /\ copied'[j] = copied[j]
  BY <1>1, <1>3, ImageAssumption DEF IInv, Typed
<1>5. CopiedInSize' /\ Disjoint'
  <2>1. \A j \in Secure : copied'[j] = copied[j] \/ copied'[j] = 0
    BY <1>1, ImageAssumption DEF IInv, Typed
  <2> QED BY <1>1, <1>4, <2>1, Undisturbed
<1>7. Spared
  BY <1>1 DEF Spared
<1>6. HereIsLoaded' /\ NormalIsNotCopied'
  BY <1>1 DEF IInv, Typed, HereIsLoaded, NormalIsNotCopied
<1> QED BY <1>2, <1>5, <1>6, <1>7 DEF IInv

LEMMA AuthCopiedInv ==
  ASSUME IInv, NEW i \in Image, NEW ok \in BOOLEAN, AuthCopied(i, ok)
  PROVE  IInv' /\ Spared
<1>1. state[i] = "COPIED" /\ i \in Secure /\ i \in here
  BY DEF AuthCopied, IInv, NormalIsNotCopied, HereIsLoaded
<1>2. CASE ok
  <2>1. /\ state' = [state EXCEPT ![i] = "AUTHENTICATED"]
        /\ UNCHANGED <<size, copied, loaded, secExec, mem, here>>
    BY <1>2 DEF AuthCopied, Set
  <2>2. Typed' /\ HereIsLoaded' /\ NormalIsNotCopied'
    BY <1>1, <2>1 DEF IInv, Typed, States, HereIsLoaded, NormalIsNotCopied
  <2> QED BY <2>1, <2>2, Undisturbed DEF IInv, Spared
<1>3. CASE ~ ok
  <2>1. /\ state' = [state EXCEPT ![i] = "RESET"] /\ here' = here \ {i} /\ loaded' = loaded \ {i}
        /\ Fill(Bytes(i, size[i]), None)
        /\ UNCHANGED <<size, copied, secExec>>
    BY <1>3 DEF AuthCopied, Set
  <2>2. Spared
    BY <1>1, <2>1, Leaves
  <2>3. CopiedInSize' /\ Disjoint' /\ mem' \in [Address -> Image \cup {None}]
    BY <2>1, Undisturbed DEF Fill, IInv, Typed
  <2>4. Typed' /\ HereIsLoaded' /\ NormalIsNotCopied'
    BY <1>1, <2>1, <2>3 DEF IInv, Typed, States, HereIsLoaded, NormalIsNotCopied
  <2> QED BY <2>2, <2>3, <2>4 DEF IInv
<1> QED BY <1>2, <1>3

(* The size of an image that is not in its place changes.                  *)
LEMMA AuthInPlaceInv ==
  ASSUME IInv, NEW i \in Image, NEW n \in Sizes, NEW ok \in BOOLEAN,
         AuthInPlace(i, n, ok)
  PROVE  IInv' /\ Spared
<1>1. /\ state[i] = "RESET" /\ i \notin here /\ n \in Nat /\ size' = [size EXCEPT ![i] = n]
      /\ \/ state' = [state EXCEPT ![i] = "AUTHENTICATED"] /\ loaded' = loaded \cup {i}
         \/ state' = state /\ loaded' = loaded \ {i}
      /\ UNCHANGED <<copied, secExec, mem, here>>
  BY SizeAssumption DEF AuthInPlace, Set, IInv, HereIsLoaded
<1>2. Typed' /\ HereIsLoaded' /\ NormalIsNotCopied'
  <2>1. Typed'
    BY <1>1 DEF IInv, Typed, States
  <2>2. /\ \A j \in Image : j # i => state'[j] = state[j]
        /\ state'[i] \in {"RESET", "AUTHENTICATED"}
    BY <1>1, ImageAssumption DEF IInv, Typed
  <2>3. HereIsLoaded'
    BY <1>1, <2>2, ImageAssumption DEF IInv, Typed, HereIsLoaded
  <2>4. NormalIsNotCopied'
    BY <1>1 DEF IInv, Typed, NormalIsNotCopied
  <2> QED BY <2>1, <2>3, <2>4
<1>3. \A j \in here : size'[j] = size[j] /\ copied'[j] = copied[j]
  BY <1>1, ImageAssumption DEF IInv, Typed
<1> QED BY <1>1, <1>2, <1>3, Undisturbed DEF IInv, Spared

LEMMA ExecutionInv ==
  ASSUME IInv, (\E i \in Image : Execute(i)) \/ Yield \/ Resume \/ AssertFails
  PROVE  IInv' /\ Spared
<1>1. UNCHANGED <<size, copied, loaded, mem, here>>
  BY DEF Execute, Yield, Resume, AssertFails
<1>2. CASE AssertFails
  <2>1. UNCHANGED <<state, secExec>>
    BY <1>2 DEF AssertFails
  <2> QED BY <1>1, <2>1, Undisturbed DEF IInv, Typed, HereIsLoaded, NormalIsNotCopied, Spared
<1>3. CASE ~ AssertFails
  <2>1. PICK i \in Executable, s \in States \ {"RESET"} :
          /\ state[i] # "RESET" /\ state' = [state EXCEPT ![i] = s]
          /\ s \notin {"COPYING", "COPIED"} /\ secExec' \in Executable \cup {None}
    BY <1>3 DEF Execute, Yield, Resume, Set, States, IInv, Typed
  <2>2. Typed' /\ HereIsLoaded' /\ NormalIsNotCopied'
    BY <1>1, <2>1, ImageAssumption DEF IInv, Typed, States, HereIsLoaded, NormalIsNotCopied
  <2> QED BY <1>1, <2>2, Undisturbed DEF IInv, Spared
<1> QED BY <1>2, <1>3

LEMMA DoneInv == ASSUME IInv, Done PROVE IInv' /\ Spared
<1>1. CASE AssertFails
  BY <1>1, ExecutionInv
<1>2. CASE ~ AssertFails
  <2>1. /\ secExec \in Secure /\ secExec \in Image /\ here' = here \ {secExec}
        /\ loaded' = loaded \ {secExec} /\ secExec' = None
        /\ state' = [state EXCEPT ![secExec] = "RESET"]
        /\ UNCHANGED <<size, copied, mem>>
    BY <1>2, ImageAssumption DEF Done, Set, IInv, Typed
  <2>2. Typed' /\ HereIsLoaded' /\ NormalIsNotCopied'
    BY <2>1, ImageAssumption DEF IInv, Typed, States, HereIsLoaded, NormalIsNotCopied
  <2> QED BY <2>1, <2>2, Undisturbed DEF IInv, Spared
<1> QED BY <1>1, <1>2

LEMMA ResetInv == ASSUME IInv, NEW i \in Image, Reset(i) PROVE IInv' /\ Spared
<1>1. CASE AssertFails
  BY <1>1, ExecutionInv
<1>2. CASE ~ AssertFails
  <2>1. /\ state[i] # "RESET" /\ loaded' = loaded \ {i} /\ here' = here \ {i}
        /\ Fill(Bytes(i, copied[i]), None)
        /\ copied' = [copied EXCEPT ![i] = 0] /\ size' = [size EXCEPT ![i] = 0]
        /\ state' = [state EXCEPT ![i] = "RESET"] /\ secExec' = secExec
    BY <1>2 DEF Reset, Set
  <2>2. state'[i] = "RESET" /\ copied[i] \in Nat /\ size[i] \in Nat
    BY <2>1 DEF IInv, Typed
  <2>3. /\ \A j \in here : j # i => copied'[j] = copied[j] /\ size'[j] = size[j]
        /\ \A j \in Secure : copied'[j] = copied[j] \/ copied'[j] = 0
    BY <2>1, ImageAssumption DEF IInv, Typed
  <2>4. CopiedInSize' /\ Disjoint' /\ mem' \in [Address -> Image \cup {None}]
    BY <2>1, <2>3, Undisturbed DEF Fill, IInv, Typed
  <2>6. Spared
    <3>1. CASE i \in here
      <4>1. Bytes(i, copied[i]) \subseteq Bytes(i, size[i])
        BY <2>2, <3>1, BytesAreInBytes DEF IInv, CopiedInSize
      <4> QED BY <2>1, <3>1, <4>1, Leaves
    <3>2. CASE i \in Secure \ here
      <4>1. \A j \in here : \A x \in Bytes(j, copied[j]) : x \notin Bytes(i, copied[i]) => mem'[x] = mem[x]
        BY <2>1, OwnBytes DEF Fill
      <4> QED BY <2>1, <2>2, <3>2, <4>1 DEF Spared
    <3>3. CASE i \notin Secure
      <4>1. Bytes(i, copied[i]) = {}
        BY <3>3, NoBytes DEF IInv, NormalIsNotCopied
      <4>2. \A j \in here : \A x \in Bytes(j, copied[j]) : mem'[x] = mem[x]
        BY <2>1, <4>1, OwnBytes DEF Fill
      <4> QED BY <4>2 DEF Spared
    <3> QED BY <3>1, <3>2, <3>3
  <2>5. Typed' /\ HereIsLoaded' /\ NormalIsNotCopied'
    BY <2>1, <2>4 DEF IInv, Typed, States, HereIsLoaded, NormalIsNotCopied
  <2> QED BY <2>4, <2>5, <2>6 DEF IInv
<1> QED BY <1>1, <1>2

-----------------------------------------------------------------------------

LEMMA StepInv ==
  ASSUME IInv, [Next]_vars
  PROVE  IInv' /\ Spared
<1>1. CASE UNCHANGED vars
  BY <1>1, Undisturbed DEF vars, IInv, Typed, HereIsLoaded, NormalIsNotCopied, Spared
<1>2. CASE \E i \in Image, n \in Sizes, b \in Sizes : FirstBlock(i, n, b)
  BY <1>2, FirstBlockInv
<1>3. CASE \E i \in Image, n \in Sizes :
               CopyOverlap(i, n) \/ CopyUnmapped(i, n) \/ CopyNotPrepared(i, n)
  BY <1>3, RefusedInv
<1>4. CASE \E i \in Image, n \in Sizes : CopyAsserts(i, n)
  BY <1>4, ExecutionInv DEF CopyAsserts
<1>5. CASE \E i \in Image, n \in Sizes : NextBlock(i, n)
  BY <1>5, NextBlockInv
<1>6. CASE \E i \in Image, n \in Sizes, ok \in BOOLEAN : AuthInPlace(i, n, ok)
  BY <1>6, AuthInPlaceInv
<1>7. CASE \E i \in Image, ok \in BOOLEAN : AuthCopied(i, ok)
  BY <1>7, AuthCopiedInv
<1>8. CASE (\E i \in Image : Execute(i)) \/ Yield \/ Resume
  BY <1>8, ExecutionInv
<1>9. CASE \E i \in Image : Reset(i)
  BY <1>9, ResetInv
<1>10. CASE Done
  BY <1>10, DoneInv
<1> QED
  BY <1>1, <1>2, <1>3, <1>4, <1>5, <1>6, <1>7, <1>8, <1>9, <1>10 DEF Next

(* The memory of a copied image that stays loaded is touched by nothing but*)
(* the reset of an image which the secure world had authenticated elsewhere*)
(* and of which an earlier copy had been there, whatever the images, their *)
(* places and sizes, the calls of both worlds, and the failures of the     *)
(* platform.                                                               *)
THEOREM CopyIsSpared == Spec => OnlyStaleResetClears
<1>1. Init => IInv
  BY ImageAssumption
  DEF Init, IInv, Typed, States, HereIsLoaded, NormalIsNotCopied, CopiedInSize, Disjoint
<1>2. IInv /\ [Next]_vars => IInv' /\ [Spared]_vars
  BY StepInv
<1>3. [][Spared]_vars => OnlyStaleResetClears
  BY DEF Spared, OnlyStaleResetClears
<1> QED BY <1>1, <1>2, <1>3, PTL DEF Spec

(* What BL1 knows of the images, whatever the calls and failures: which    *)
(* are loaded, and which one runs.                                         *)
Known ==
  /\ state \in [Image -> States] /\ loaded \subseteq Image
  /\ secExec \in Executable \cup {None}
  /\ LoadedIsTracked /\ SecureIsExecuted

LEMMA KnownInv == Known /\ [Next]_vars => Known'
<1> SUFFICES ASSUME Known, [Next]_vars PROVE Known'
  OBVIOUS
<1> USE ImageAssumption DEF Known, States, LoadedIsTracked, SecureIsExecuted, Set
<1>1. CASE UNCHANGED vars
  BY <1>1 DEF vars
<1>2. ASSUME NEW i \in Image, NEW n \in Sizes, NEW b \in Sizes, FirstBlock(i, n, b) PROVE Known'
  BY <1>2 DEF FirstBlock, CopyBlock
<1>3. ASSUME NEW i \in Image, NEW n \in Sizes, CopyOverlap(i, n) \/ CopyUnmapped(i, n) PROVE Known'
  BY <1>3 DEF CopyOverlap, CopyUnmapped
<1>4. ASSUME NEW i \in Image, NEW n \in Sizes, CopyNotPrepared(i, n) PROVE Known'
  BY <1>4 DEF CopyNotPrepared
<1>5. CASE AssertFails
  BY <1>5 DEF AssertFails
<1>6. ASSUME NEW i \in Image, NEW b \in Sizes, NextBlock(i, b) PROVE Known'
  BY <1>6 DEF NextBlock, CopyBlock
<1>7. ASSUME NEW i \in Image, NEW n \in Sizes, NEW ok \in BOOLEAN, AuthInPlace(i, n, ok)
      PROVE  Known'
  BY <1>7 DEF AuthInPlace
<1>8. ASSUME NEW i \in Image, NEW ok \in BOOLEAN, AuthCopied(i, ok) PROVE Known'
  BY <1>8 DEF AuthCopied
<1>9. ASSUME NEW i \in Image, Execute(i) PROVE Known'
  BY <1>9 DEF Execute
<1>10. CASE Yield \/ Resume
  BY <1>5, <1>10 DEF Yield, Resume
<1>11. CASE Done
  BY <1>5, <1>11 DEF Done
<1>12. ASSUME NEW i \in Image, Reset(i) PROVE Known'
  BY <1>5, <1>12 DEF Reset
<1> HIDE DEF Known
<1>13. ASSUME NEW i \in Image, NEW n \in Sizes, CopyAsserts(i, n) PROVE Known'
  BY <1>5, <1>13 DEF CopyAsserts
<1> QED
  BY <1>1, <1>2, <1>3, <1>4, <1>6, <1>7, <1>8, <1>9, <1>10, <1>11, <1>12, <1>13 DEF Next

LEMMA KnownAlways == Spec => []Known
<1>1. Init => Known
  BY DEF Init, Known, States, LoadedIsTracked, SecureIsExecuted
<1> QED BY <1>1, KnownInv, PTL DEF Spec

(* Every image that is not in RESET state is in bl1_fwu_loaded_ids, for    *)
(* any images, sizes and number of slots, whatever calls are made and      *)
(* whatever the platform refuses.                                          *)
THEOREM LoadedIsAlwaysTracked == Spec => []LoadedIsTracked
<1>1. Known => LoadedIsTracked
  BY DEF Known
<1> QED BY <1>1, KnownAlways, PTL

(* The secure world never runs but as the image sec_exec_image_id names,   *)
(* so that the assertions on its calls hold.                               *)
THEOREM SecureIsAlwaysExecuted == Spec => []SecureIsExecuted
<1>1. Known => SecureIsExecuted
  BY DEF Known
<1> QED BY <1>1, KnownAlways, PTL

-----------------------------------------------------------------------------
(* What is executed is complete *)

(* An image that is in memory is complete as soon as the last block has    *)
(* been copied, which is what bl1_fwu_image_auth waits for.                *)
CompleteAfterCopy ==
  /\ \A i \in here : state[i] # "RESET" /\ (state[i] = "COPYING" \/ copied[i] = size[i])
  /\ \A i \in Image : state[i] = "COPYING" => i \in Secure

CInv == TypeOK /\ IsFiniteSet(loaded) /\ CompleteAfterCopy

(* bl1_fwu_add_loaded_id and bl1_fwu_remove_loaded_id keep within the      *)
(* slots.                                                                  *)
LEMMA SlotsAreEnough ==
  ASSUME IsFiniteSet(loaded), Cardinality(loaded) <= Slots, NEW i,
         \/ loaded' = loaded
         \/ loaded' = loaded \ {i}
         \/ CanAdd(i) /\ loaded' = loaded \cup {i}
  PROVE  IsFiniteSet(loaded') /\ Cardinality(loaded') <= Slots
<1>1. Cardinality(loaded) \in Nat /\ Slots \in Nat
  BY FS_CardinalityType, SizeAssumption
<1>2. CASE loaded' = loaded
  BY <1>2
<1>3. CASE loaded' = loaded \ {i}
  BY <1>1, <1>3, FS_RemoveElement
<1>4. CASE CanAdd(i) /\ loaded' = loaded \cup {i}
  BY <1>1, <1>4, FS_AddElement DEF CanAdd
<1> QED BY <1>2, <1>3, <1>4

LEMMA CopyBlockComplete ==
  ASSUME CInv, NEW i \in Secure, NEW n \in Nat, NEW from \in Nat, NEW b \in Nat \ {0},
         CanAdd(i), CopyBlock(i, n, from, b)
  PROVE  CInv'
<1> DEFINE block == IF b > n - from THEN n - from ELSE b
           new == from + block
<1>1. new \in Nat /\ (block = n - from => new = n) /\ i \in Image
  BY ImageAssumption
<1>2. /\ size' = [size EXCEPT ![i] = n] /\ copied' = [copied EXCEPT ![i] = new]
      /\ loaded' = loaded \cup {i} /\ here' = here \cup {i}
      /\ Fill(Bytes(i, new) \ Bytes(i, from), i)
      /\ state' = [state EXCEPT ![i] = IF block = n - from THEN "COPIED" ELSE "COPYING"]
      /\ secExec' = secExec /\ world' = world
  BY DEF CopyBlock, Set
<1>3. IsFiniteSet(loaded') /\ Cardinality(loaded') <= Slots
  BY <1>2, SlotsAreEnough DEF CInv, TypeOK
<1>4. mem' \in [Address -> Image \cup {None}]
  BY <1>1, <1>2 DEF CInv, TypeOK, Fill
<1>5. size' \in [Image -> Nat] /\ copied' \in [Image -> Nat] /\ state' \in [Image -> States]
  BY <1>1, <1>2 DEF CInv, TypeOK, States
<1>6. TypeOK'
  BY <1>1, <1>2, <1>3, <1>4, <1>5 DEF CInv, TypeOK
<1>7. CompleteAfterCopy'
  <2>1. state'[i] = "COPYING" \/ (state'[i] = "COPIED" /\ copied'[i] = size'[i])
    BY <1>1, <1>2 DEF CInv, TypeOK
  <2>2. \A j \in Image : j # i => state'[j] = state[j] /\ copied'[j] = copied[j] /\ size'[j] = size[j]
    BY <1>1, <1>2 DEF CInv, TypeOK
  <2>3. here \subseteq Image
    BY ImageAssumption DEF CInv, TypeOK
  <2> QED BY <1>1, <1>2, <2>1, <2>2, <2>3 DEF CInv, CompleteAfterCopy
<1> QED BY <1>3, <1>6, <1>7 DEF CInv

LEMMA CompleteInv == CInv /\ [Next]_vars => CInv'
<1> SUFFICES ASSUME CInv, [Next]_vars PROVE CInv'
  OBVIOUS
<1>1. CASE UNCHANGED vars
  BY <1>1 DEF vars, CInv, TypeOK, CompleteAfterCopy
<1>2. ASSUME NEW i \in Image, NEW n \in Sizes, NEW b \in Sizes, FirstBlock(i, n, b) PROVE CInv'
  <2>1. i \in Secure /\ CanAdd(i) /\ CopyBlock(i, n, 0, b)
    BY <1>2 DEF FirstBlock
  <2> QED BY <2>1, SizeAssumption, CopyBlockComplete
<1>3. ASSUME NEW i \in Image, NEW n \in Sizes,
             CopyOverlap(i, n) \/ CopyUnmapped(i, n) \/ CopyNotPrepared(i, n)
      PROVE  CInv'
  <2>1. /\ state[i] = "RESET"
        /\ \E m \in Nat : size' = [size EXCEPT ![i] = m]
        /\ copied' = copied \/ copied' = [copied EXCEPT ![i] = 0]
        /\ loaded' = loaded \/ (CanAdd(i) /\ loaded' = loaded \cup {i})
        /\ UNCHANGED <<state, secExec, mem, world, here>>
    BY <1>3, SizeAssumption DEF CopyOverlap, CopyUnmapped, CopyNotPrepared
  <2>2. IsFiniteSet(loaded') /\ Cardinality(loaded') <= Slots
    BY <2>1, SlotsAreEnough DEF CInv, TypeOK
  <2>3. TypeOK'
    BY <2>1, <2>2 DEF CInv, TypeOK
  <2>4. CompleteAfterCopy'
    BY <2>1, ImageAssumption DEF CInv, TypeOK, CompleteAfterCopy
  <2> QED BY <2>2, <2>3, <2>4 DEF CInv
<1>4. CASE AssertFails
  BY <1>4 DEF AssertFails, CInv, TypeOK, CompleteAfterCopy
<1>5. ASSUME NEW i \in Image, NEW b \in Sizes, NextBlock(i, b) PROVE CInv'
  <2>1. i \in Secure /\ CanAdd(i) /\ CopyBlock(i, size[i], copied[i], b)
    BY <1>5 DEF NextBlock, CInv, CompleteAfterCopy
  <2>2. size[i] \in Nat /\ copied[i] \in Nat
    BY DEF CInv, TypeOK
  <2> QED BY <2>1, <2>2, SizeAssumption, CopyBlockComplete
<1>6. ASSUME NEW i \in Image, NEW n \in Sizes, NEW ok \in BOOLEAN, AuthInPlace(i, n, ok)
      PROVE  CInv'
  <2>1. /\ state[i] = "RESET" /\ n \in Nat /\ size' = [size EXCEPT ![i] = n]
        /\ \/ /\ state' = [state EXCEPT ![i] = "AUTHENTICATED"]
              /\ CanAdd(i) /\ loaded' = loaded \cup {i}
           \/ state' = state /\ loaded' = loaded \ {i}
        /\ UNCHANGED <<copied, secExec, mem, world, here>>
    BY <1>6, SizeAssumption DEF AuthInPlace, Set
  <2>2. IsFiniteSet(loaded') /\ Cardinality(loaded') <= Slots
    BY <2>1, SlotsAreEnough DEF CInv, TypeOK
  <2>3. TypeOK'
    BY <2>1, <2>2 DEF CInv, TypeOK, States
  <2>4. i \notin here
    BY <2>1 DEF CInv, CompleteAfterCopy
  <2>5. CompleteAfterCopy'
    BY <2>1, <2>4, ImageAssumption DEF CInv, TypeOK, CompleteAfterCopy
  <2> QED BY <2>2, <2>3, <2>5 DEF CInv
<1>7. ASSUME NEW i \in Image, NEW ok \in BOOLEAN, AuthCopied(i, ok) PROVE CInv'
  <2>1. /\ state[i] = "COPIED"
        /\ \/ /\ state' = [state EXCEPT ![i] = "AUTHENTICATED"]
              /\ UNCHANGED <<loaded, mem, here>>
           \/ /\ state' = [state EXCEPT ![i] = "RESET"] /\ Fill(Bytes(i, size[i]), None)
              /\ here' = here \ {i} /\ loaded' = loaded \ {i}
        /\ UNCHANGED <<size, copied, secExec, world>>
    BY <1>7 DEF AuthCopied, Set
  <2>2. IsFiniteSet(loaded') /\ Cardinality(loaded') <= Slots
    BY <2>1, SlotsAreEnough DEF CInv, TypeOK
  <2>3. mem' \in [Address -> Image \cup {None}]
    BY <2>1 DEF CInv, TypeOK, Fill
  <2>4. TypeOK'
    BY <2>1, <2>2, <2>3 DEF CInv, TypeOK, States
  <2>5. CompleteAfterCopy'
    BY <2>1, ImageAssumption DEF CInv, TypeOK, CompleteAfterCopy
  <2> QED BY <2>2, <2>4, <2>5 DEF CInv
<1>8. CASE (\E i \in Image : Execute(i)) \/ Yield \/ Resume
  <2>1. CASE ~ AssertFails
    <3>1. PICK i \in Executable, s \in {"EXECUTED", "INTERRUPTED"} :
            /\ state[i] \in {"AUTHENTICATED", "EXECUTED", "INTERRUPTED"}
            /\ state' = [state EXCEPT ![i] = s]
            /\ secExec' \in Executable \cup {None} /\ world' \in {"NS", "S"}
            /\ UNCHANGED <<size, copied, loaded, mem, here>>
      BY <1>8, <2>1 DEF Execute, Yield, Resume, Set, CInv, TypeOK
    <3>2. TypeOK' /\ CompleteAfterCopy'
      BY <3>1, ImageAssumption DEF CInv, TypeOK, States, CompleteAfterCopy
    <3> QED BY <3>1, <3>2 DEF CInv
  <2> QED BY <1>4, <2>1
<1>9. CASE Done
  <2>1. CASE ~ AssertFails
    <3>1. /\ secExec \in Image /\ here' = here \ {secExec}
          /\ loaded' = loaded \ {secExec} /\ secExec' = None /\ world' = "NS"
          /\ state' = [state EXCEPT ![secExec] = "RESET"]
          /\ UNCHANGED <<size, copied, mem>>
      BY <1>9, <2>1, ImageAssumption DEF Done, Set, CInv, TypeOK
    <3>2. IsFiniteSet(loaded') /\ Cardinality(loaded') <= Slots
      BY <3>1, SlotsAreEnough DEF CInv, TypeOK
    <3>3. TypeOK' /\ CompleteAfterCopy'
      BY <3>1, <3>2, ImageAssumption DEF CInv, TypeOK, States, CompleteAfterCopy
    <3> QED BY <3>2, <3>3 DEF CInv
  <2> QED BY <1>4, <2>1
<1>10. ASSUME NEW i \in Image, Reset(i) PROVE CInv'
  <2>1. CASE ~ AssertFails
    <3>1. /\ loaded' = loaded \ {i} /\ here' = here \ {i}
          /\ Fill(Bytes(i, copied[i]), None)
          /\ copied' = [copied EXCEPT ![i] = 0] /\ size' = [size EXCEPT ![i] = 0]
          /\ state' = [state EXCEPT ![i] = "RESET"] /\ secExec' = secExec /\ world' = world
      BY <1>10, <2>1 DEF Reset, Set
    <3>2. IsFiniteSet(loaded') /\ Cardinality(loaded') <= Slots
      BY <3>1, SlotsAreEnough DEF CInv, TypeOK
    <3>3. mem' \in [Address -> Image \cup {None}]
      BY <3>1 DEF CInv, TypeOK, Fill
    <3>4. TypeOK'
      BY <3>1, <3>2, <3>3 DEF CInv, TypeOK, States
    <3>5. CompleteAfterCopy'
      BY <3>1, ImageAssumption DEF CInv, TypeOK, CompleteAfterCopy
    <3> QED BY <3>2, <3>4, <3>5 DEF CInv
  <2> QED BY <1>4, <2>1
<1>11. ASSUME NEW i \in Image, NEW n \in Sizes, CopyAsserts(i, n) PROVE CInv'
  BY <1>4, <1>11 DEF CopyAsserts
<1> QED
  BY <1>1, <1>2, <1>3, <1>5, <1>6, <1>7, <1>8, <1>9, <1>10, <1>11 DEF Next

(* What runs in the secure memory has been copied to its end, and no more  *)
(* images are loaded than BL1 has slots for, for any images, sizes, number *)
(* of slots, calls (authentication in place by the secure world included)  *)
(* and failures.                                                           *)
THEOREM ExecutedIsAlwaysComplete == Spec => []ExecutedIsComplete
<1>1. Init => CInv
  BY FS_EmptySet, SizeAssumption DEF Init, CInv, TypeOK, States, CompleteAfterCopy
<1>2. CInv => ExecutedIsComplete
  BY DEF CInv, CompleteAfterCopy, ExecutedIsComplete
<1> QED BY <1>1, <1>2, CompleteInv, PTL DEF Spec
=============================================================================
