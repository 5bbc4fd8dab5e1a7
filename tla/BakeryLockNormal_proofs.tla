----------------------- MODULE BakeryLockNormal_proofs ----------------------
(***************************************************************************)
(* Proofs about BakeryLockNormal, for every number of CPUs, whichever have *)
(* their cache on: as long as tickets fit their field, at most one CPU     *)
(* holds the lock and every store reaches memory.                          *)
(*                                                                         *)
(* A CPU may load what another one stored some time ago: from a stale line *)
(* that was filled after its read_cache_op().  The invariant therefore     *)
(* says that whatever a CPU may load leads it to a conclusion that is true *)
(* when it loads it, as the contender that has moved on since is behind.   *)
(***************************************************************************)
EXTENDS BakeryLockNormal, TLAPS

Word == [choosing : BOOLEAN, number : Nat]

LEMMA CPUFacts ==
  /\ N \in Nat /\ N > 0 /\ N <= 256
  /\ \A c \in CPU : c \in Nat /\ c < N /\ c < 256
BY NAssumption DEF CPU

LEMMA Types ==
  ASSUME TypeOK, NEW c \in CPU
  PROVE  /\ pc[c] \in Locations /\ they[c] \in 0..N
         /\ ticket[c] \in Nat /\ theirs[c] \in Nat
         /\ dcache[c] \in BOOLEAN /\ cached[c] \in BOOLEAN
         /\ mem[c] \in Word /\ line[c].data \in Word
         /\ line[c] \in [state : {"absent", "clean", "dirty"}, data : Word]
         /\ line[c].state \in {"absent", "clean", "dirty"}
BY DEF TypeOK, Word

LEMMA AfterOps ==
  /\ AfterOp["scan"] = "scan load"
  /\ AfterOp["check"] = "check load"
  /\ AfterOp["wait"] = "wait load"
BY DEF AfterOp

LEMMA Places ==
  /\ Locations = {"idle", "announced", "released", "scan", "scan load"} \cup Chosen
  /\ Chosen = {"chosen", "check", "check load", "wait", "wait load", "held"}
  /\ Visible = {"check", "check load", "wait", "wait load", "held"}
BY AfterOps DEF Locations, Storing, Loading, Chosen, Visible

(* The index of a loop that is not over is the one of a CPU.               *)
LEMMA Visited ==
  ASSUME TypeOK, NEW c \in CPU, they[c] < N
  PROVE  they[c] \in CPU
BY NAssumption DEF TypeOK, CPU

(* The order in which a contender visits the others.                       *)
LEMMA VisitingOrder ==
  ASSUME NEW c \in CPU
  PROVE  /\ First(c) \in 0..N /\ First(c) # c
         /\ \A d \in CPU : d # c => First(c) <= d
         /\ \A t \in 0..N : t < N /\ t # c =>
              /\ Following(c, t) \in 0..N /\ Following(c, t) # c /\ t < Following(c, t)
              /\ \A d \in CPU : d # c =>
                   /\ d < Following(c, t) => d <= t
                   /\ t < d => Following(c, t) <= d
BY CPUFacts DEF First, Following, CPU

(* Priorities order contenders by ticket, and by position if it is equal.  *)
LEMMA PriorityOrder ==
  ASSUME NEW c \in CPU, NEW d \in CPU, c # d, NEW s \in Nat, NEW t \in Nat
  PROVE  /\ Priority(s, c) < Priority(t, d) \/ Priority(t, d) < Priority(s, c)
         /\ ~ (Priority(s, c) < Priority(t, d) /\ Priority(t, d) < Priority(s, c))
         /\ s < t => Priority(s, c) < Priority(t, d)
BY CPUFacts DEF Priority

LEMMA FieldFits ==
  ASSUME NEW t \in Nat, t < TicketLimit
  PROVE  Field(t) = t
BY TicketLimitAssumption DEF Field

LEMMA Words ==
  /\ Free \in Word /\ ~ Free.choosing /\ Free.number = 0
  /\ \A n \in Nat : Data(FALSE, n) \in Word
  /\ \A n \in Nat : ~ Data(FALSE, n).choosing /\ Data(FALSE, n).number = n
  /\ Data(TRUE, 0) \in Word /\ Data(TRUE, 0).choosing /\ Data(TRUE, 0).number = 0
  /\ Absent.state = "absent" /\ Absent \in [state : {"absent", "clean", "dirty"}, data : Word]
  /\ \A w \in Word :
       /\ Clean(w).state = "clean" /\ Clean(w).data = w
       /\ Dirty(w).state = "dirty" /\ Dirty(w).data = w
       /\ Clean(w) \in [state : {"absent", "clean", "dirty"}, data : Word]
       /\ Dirty(w) \in [state : {"absent", "clean", "dirty"}, data : Word]
BY DEF Free, Data, Absent, Clean, Dirty, Word

LEMMA AbsentState ==
  Absent.state = "absent"
BY Words

LEMMA CleanData ==
  \A w : Clean(w).data = w /\ Clean(w).state = "clean"
BY DEF Clean

(* What a CPU last stored says where it is.                                *)
LEMMA Stored ==
  ASSUME TypeOK, NEW c \in CPU
  PROVE  /\ LastStored(c) \in Word
         /\ pc[c] \in {"idle", "released"} => LastStored(c) = Free
         /\ pc[c] \in {"announced", "scan", "scan load"} =>
              /\ LastStored(c) = Data(TRUE, 0)
              /\ LastStored(c).choosing /\ LastStored(c).number = 0
         /\ pc[c] \in Chosen =>
              /\ LastStored(c) = Data(FALSE, ticket[c])
              /\ ~ LastStored(c).choosing /\ LastStored(c).number = ticket[c]
<1>1. ticket[c] \in Nat /\ pc[c] \in Locations
  BY Types
<1>2. CASE pc[c] \in {"idle", "released"}
  BY <1>2, Words, Places DEF LastStored
<1>3. CASE pc[c] \in {"announced", "scan", "scan load"}
  <2>1. LastStored(c) = Data(TRUE, 0)
    BY <1>3 DEF LastStored
  <2> QED
    BY <1>3, <2>1, Words, Places
<1>4. CASE pc[c] \in Chosen
  <2>1. LastStored(c) = Data(FALSE, ticket[c])
    BY <1>4, Places DEF LastStored
  <2>2. pc[c] \notin {"idle", "released", "announced", "scan", "scan load"}
    BY <1>4, Places
  <2>3. Data(FALSE, ticket[c]) \in Word /\ ~ Data(FALSE, ticket[c]).choosing
        /\ Data(FALSE, ticket[c]).number = ticket[c]
    BY <1>1, Words
  <2> QED
    BY <2>1, <2>2, <2>3
<1> QED
  BY <1>1, <1>2, <1>3, <1>4, Places

(* The value that is loaded, once more.                                    *)
LEMMA ValueIs ==
  ASSUME TypeOK, NEW d \in CPU, NEW b \in BOOLEAN
  PROVE  /\ ~ b \/ line[d].state = "absent" => Value(d, b) = mem[d]
         /\ b /\ line[d].state # "absent" => Value(d, b) = line[d].data
         /\ Value(d, b) \in Word /\ Value(d, b).number \in Nat
BY Types DEF Value, Word

(* What d last stored leads c to the truth ...                             *)
LEMMA FreshVerdict ==
  ASSUME IInv, NEW c \in CPU, NEW d \in CPU, c # d
  PROVE  Verdict(c, d, LastStored(d))
<1>1. TypeOK /\ ControlOK(d)
  BY DEF IInv
<1>2. CASE pc[d] \in {"idle", "announced", "released"}
  BY <1>2 DEF Verdict, Behind
<1>3. CASE pc[d] \in {"scan", "scan load"}
  BY <1>1, <1>3, Stored DEF Verdict
<1>4. CASE pc[d] \in Chosen
  <2>1. ticket[d] \in Nat /\ ticket[c] \in Nat
    BY <1>1, Types
  <2>a. LastStored(d).number = ticket[d]
    BY <1>1, <1>4, Stored
  <2>b. ticket[d] # 0
    <3>1. ticket[d] > 0
      BY <1>1, <1>4 DEF ControlOK
    <3> QED
      BY <2>1, <3>1
  <2>2. \/ Priority(ticket[d], d) < Priority(ticket[c], c)
        \/ Priority(ticket[c], c) < Priority(ticket[d], d)
    BY <2>1, PriorityOrder
  <2> QED
    BY <1>4, <2>1, <2>a, <2>b, <2>2 DEF Verdict, Behind
<1> QED
  BY <1>1, <1>2, <1>3, <1>4, Types, Places

(* ... and so does what memory has ...                                     *)
LEMMA MemoryVerdict ==
  ASSUME IInv, NEW c \in CPU, NEW d \in CPU, c # d
  PROVE  Verdict(c, d, mem[d])
<1>1. TypeOK /\ MemoryOK(d)
  BY DEF IInv
<1>2. CASE line[d].state # "dirty"
  BY <1>1, <1>2, FreshVerdict DEF MemoryOK
<1>3. CASE line[d].state = "dirty"
  <2>1. CASE pc[d] = "chosen"
    <3>1. mem[d] = Data(TRUE, 0)
      BY <1>1, <1>3, <2>1 DEF MemoryOK
    <3> QED
      BY <3>1, Words DEF Verdict
  <2>2. CASE pc[d] \in {"announced", "released"}
    BY <2>2 DEF Verdict, Behind
  <2> QED
    BY <1>1, <1>3, <2>1, <2>2 DEF MemoryOK, Storing
<1> QED
  BY <1>2, <1>3

(* ... and what c loads.                                                   *)
LEMMA LoadedVerdict ==
  ASSUME IInv, NEW c \in CPU, pc[c] = "check load"
  PROVE  /\ they[c] \in CPU /\ they[c] # c
         /\ Verdict(c, they[c], Value(they[c], cached[c]))
<1> DEFINE d == they[c]
<1>1. TypeOK /\ ControlOK(c) /\ cached[c] \in BOOLEAN
  BY Types DEF IInv
<1>2. d \in CPU /\ d # c
  BY <1>1, Visited DEF ControlOK
<1> HIDE DEF d
<1>3. MemoryOK(d) /\ Ordered(c, d) /\ line[d].state \in {"absent", "clean", "dirty"}
  BY <1>1, <1>2, Types DEF IInv
<1>4. CASE ~ cached[c] \/ line[d].state = "absent"
  BY <1>1, <1>2, <1>4, ValueIs, MemoryVerdict DEF d
<1>5. CASE cached[c] /\ line[d].state = "dirty"
  BY <1>1, <1>2, <1>3, <1>5, ValueIs, FreshVerdict DEF MemoryOK, d
<1>6. CASE cached[c] /\ line[d].state = "clean"
  BY <1>1, <1>2, <1>3, <1>6, ValueIs DEF Ordered, d
<1> QED
  BY <1>2, <1>3, <1>4, <1>5, <1>6 DEF d
-----------------------------------------------------------------------------
(* What a step leaves in order *)

(* x does not move.                                                        *)
SameControl(x) ==
  /\ pc'[x] = pc[x] /\ cached'[x] = cached[x] /\ they'[x] = they[x]
  /\ ticket'[x] = ticket[x] /\ theirs'[x] = theirs[x]

(* The lock data of x stays as it is, or is written back to memory: all    *)
(* that a load, a fill, an eviction or the cache maintenance of a CPU does.*)
KeptOrWritten(x) ==
  \/ line'[x] = line[x] /\ mem'[x] = mem[x]
  \/ mem'[x] = LastStored(x) /\ line'[x] \in {Absent, Clean(LastStored(x))}

(* d remains behind c when d does not move ...                             *)
LEMMA BehindKept ==
  ASSUME TypeOK, NEW c \in CPU, NEW d \in CPU, pc[c] \in Visible,
         SameControl(d), ticket'[c] = ticket[c], KeptOrWritten(c), Behind(d, c)
  PROVE  Behind(d, c)'
<1>1. LastStored(c).number = ticket[c] /\ LastStored(c) \in Word /\ ticket[c] \in Nat
  BY Stored, Types DEF Chosen
<1>2. Value(c, cached[d])' = Value(c, cached[d]) \/ Value(c, cached[d])' = LastStored(c)
  <2>1. CASE line'[c] = line[c] /\ mem'[c] = mem[c]
    BY <2>1 DEF Value, SameControl
  <2>2. CASE mem'[c] = LastStored(c) /\ line'[c] = Absent
    BY <2>2, Words DEF Value
  <2>3. CASE mem'[c] = LastStored(c) /\ line'[c] = Clean(LastStored(c))
    BY <2>3, <1>1, Words DEF Value
  <2> QED
    BY <2>1, <2>2, <2>3 DEF KeptOrWritten
<1>3. Value(c, cached[d])'.number >= ticket[c] \/ Value(c, cached[d])' = Value(c, cached[d])
  BY <1>1, <1>2
<1> QED
  BY <1>3 DEF Behind, SameControl

(* ... and when it moves on with the ticket it has.                        *)
LEMMA BehindChosen ==
  ASSUME NEW c \in CPU, NEW d \in CPU, pc[d] \in Chosen, pc'[d] \in Chosen,
         ticket'[d] = ticket[d], ticket'[c] = ticket[c], Behind(d, c)
  PROVE  Behind(d, c)'
BY Places DEF Behind

(* c does not move, and d remains behind it if it was: what c has seen of  *)
(* d and what it may still load stay true.                                 *)
LEMMA OrderedKept ==
  ASSUME IInv, NEW c \in CPU, NEW d \in CPU, c # d, SameControl(c),
         pc[c] \in Visible /\ Behind(d, c) => Behind(d, c)',
         \/ Behind(d, c)'
         \/ KeptOrWritten(d) /\ (pc[d] \in Chosen => pc'[d] \in Chosen /\ ticket'[d] = ticket[d])
         \/ pc[d] \notin Chosen /\ (line'[d] = line[d] \/ line'[d].state # "clean")
  PROVE  Ordered(c, d)'
<1> USE DEF SameControl
<1>1. TypeOK /\ MemoryOK(d) /\ Ordered(c, d) /\ Verdict(c, d, LastStored(d))
  BY FreshVerdict DEF IInv
<1>2. CASE Behind(d, c)'
  BY <1>2 DEF Ordered, Verdict
<1>3. CASE /\ ~ Behind(d, c)' /\ KeptOrWritten(d)
           /\ pc[d] \in Chosen => pc'[d] \in Chosen /\ ticket'[d] = ticket[d]
  <2>1. Passed(c, d)' => Behind(d, c)'
    BY <1>1 DEF Ordered, Passed, Visible
  <2>2. ASSUME pc'[c] \in {"wait", "wait load"}, they'[c] = d
        PROVE  /\ pc[d] \in Chosen /\ ticket[d] = theirs[c] /\ LastStored(d).number = theirs[c]
               /\ cached[c] \/ mem'[d].number = theirs[c]
    <3>1. /\ pc[d] \in Chosen /\ ticket[d] = theirs[c]
          /\ cached[c] \/ mem[d].number = theirs[c]
      BY <1>1, <1>3, <2>2 DEF Ordered, Visible
    <3>2. LastStored(d).number = theirs[c]
      BY <1>1, <3>1, Stored
    <3> QED
      BY <1>3, <3>1, <3>2 DEF KeptOrWritten
  <2>3. ASSUME they'[c] = d, cached'[c], line'[d].state = "clean", pc'[c] = "check load"
        PROVE  Verdict(c, d, line[d].data)'
    <3>1. Verdict(c, d, line'[d].data)
      <4>1. CASE line'[d] = line[d]
        BY <1>1, <2>3, <4>1 DEF Ordered
      <4>2. CASE line'[d] # line[d]
        <5>1. line'[d] = Clean(LastStored(d))
          BY <1>3, <2>3, <4>2, AbsentState DEF KeptOrWritten
        <5> QED
          BY <1>1, <5>1, CleanData
      <4> QED
        BY <4>1, <4>2
    <3>2. pc[c] \in Visible
      BY <2>3 DEF Visible
    <3> QED
      BY <1>3, <3>1, <3>2 DEF Verdict
  <2>4. ASSUME they'[c] = d, cached'[c], line'[d].state = "clean", pc'[c] = "wait load"
        PROVE  line'[d].data.number = theirs'[c]
    <3>1. LastStored(d).number = theirs[c]
      BY <2>2, <2>4
    <3>2. CASE line'[d] = line[d]
      BY <1>1, <1>3, <2>4, <3>2 DEF Ordered, Visible
    <3>3. CASE line'[d] # line[d]
      <4>1. line'[d] = Clean(LastStored(d))
        BY <1>3, <2>4, <3>3, AbsentState DEF KeptOrWritten
      <4> QED
        BY <3>1, <4>1, CleanData
    <3> QED
      BY <3>2, <3>3
  <2> QED
    BY <1>3, <2>1, <2>2, <2>3, <2>4 DEF Ordered
<1>4. CASE /\ ~ Behind(d, c)' /\ pc[d] \notin Chosen
           /\ line'[d] = line[d] \/ line'[d].state # "clean"
  BY <1>1, <1>4 DEF Ordered, Passed, Verdict, Visible
<1> QED
  BY <1>2, <1>3, <1>4
(* The lock data of a CPU that does not move stays in order ...            *)
LEMMA MemoryKept ==
  ASSUME TypeOK, NEW x \in CPU, SameControl(x), KeptOrWritten(x), MemoryOK(x)
  PROVE  MemoryOK(x)'
<1>1. LastStored(x)' = LastStored(x)
  BY DEF LastStored, SameControl
<1>2. CASE line'[x] = line[x] /\ mem'[x] = mem[x]
  BY <1>1, <1>2 DEF MemoryOK, SameControl
<1>3. CASE mem'[x] = LastStored(x) /\ line'[x] \in {Absent, Clean(LastStored(x))}
  <2>1. line'[x].state # "dirty"
    BY <1>3, AbsentState, CleanData
  <2> QED
    BY <1>1, <1>3, <2>1 DEF MemoryOK
<1> QED
  BY <1>2, <1>3 DEF KeptOrWritten

(* ... and that of one that moves on without a store, if it is written.    *)
LEMMA MemoryWritten ==
  ASSUME NEW x \in CPU, KeptOrWritten(x), MemoryOK(x),
         LastStored(x)' = LastStored(x), line'[x].state # "dirty"
  PROVE  MemoryOK(x)'
BY DEF MemoryOK, KeptOrWritten

(* A step in which only c moves preserves the invariant if it keeps c and  *)
(* its lock data in order, leaves c behind those it was behind, and what c *)
(* concludes is true.                                                      *)
LEMMA StepOrdered ==
  ASSUME IInv, TypeOK', NEW c \in CPU, ControlOK(c)', MemoryOK(c)',
         \A x \in CPU : x # c => SameControl(x) /\ KeptOrWritten(x),
         \A x \in CPU : x # c /\ pc[x] \in Visible /\ Behind(c, x) => Behind(c, x)',
         \A x \in CPU : x # c =>
           \/ Behind(c, x)'
           \/ KeptOrWritten(c) /\ (pc[c] \in Chosen => pc'[c] \in Chosen /\ ticket'[c] = ticket[c])
           \/ pc[c] \notin Chosen /\ (line'[c] = line[c] \/ line'[c].state # "clean"),
         \A x \in CPU : x # c => Ordered(c, x)'
  PROVE  IInv'
<1>1. TypeOK
  BY DEF IInv
<1>2. ASSUME NEW x \in CPU
      PROVE  ControlOK(x)' /\ MemoryOK(x)'
  <2>1. CASE x = c
    BY <2>1
  <2>2. CASE x # c
    <3>1. SameControl(x) /\ KeptOrWritten(x) /\ ControlOK(x) /\ MemoryOK(x)
      BY <2>2 DEF IInv
    <3>2. ControlOK(x)'
      BY <3>1 DEF ControlOK, SameControl
    <3> QED
      BY <1>1, <3>1, <3>2, MemoryKept
  <2> QED
    BY <2>1, <2>2
<1>3. ASSUME NEW x \in CPU, NEW y \in CPU, x # y
      PROVE  Ordered(x, y)'
  <2>1. CASE x = c
    BY <1>3, <2>1
  <2>2. CASE x # c /\ y = c
    <3>1. SameControl(x)
      BY <2>2
    <3> QED
      BY <1>3, <2>2, <3>1, OrderedKept
  <2>3. CASE x # c /\ y # c
    <3>1. /\ SameControl(x) /\ KeptOrWritten(x)
          /\ SameControl(y) /\ KeptOrWritten(y)
      BY <2>3
    <3>2. pc[x] \in Visible /\ Behind(y, x) => Behind(y, x)'
      BY <1>1, <3>1, BehindKept DEF SameControl
    <3>3. pc'[y] = pc[y] /\ ticket'[y] = ticket[y]
      BY <3>1 DEF SameControl
    <3> QED
      BY <1>3, <3>1, <3>2, <3>3, OrderedKept
  <2> QED
    BY <2>1, <2>2, <2>3
<1> QED
  BY <1>2, <1>3 DEF IInv

-----------------------------------------------------------------------------
(* What the accesses and the maintenance do to lock data *)

Lines == [state : {"absent", "clean", "dirty"}, data : Word]

(* The CPUs' lock data is kept or written back, and has its type.          *)
MemoryStep ==
  /\ mem' \in [CPU -> Word] /\ line' \in [CPU -> Lines]
  /\ \A x \in CPU : KeptOrWritten(x)

LEMMA MemoryTypes ==
  ASSUME IInv
  PROVE  /\ mem \in [CPU -> Word] /\ line \in [CPU -> Lines]
         /\ \A x \in CPU : /\ MemoryOK(x) /\ LastStored(x) \in Word
                           /\ Clean(LastStored(x)) \in Lines /\ Clean(mem[x]) \in Lines
         /\ Absent \in Lines
<1>1. TypeOK /\ \A x \in CPU : MemoryOK(x)
  BY DEF IInv
<1>2. mem \in [CPU -> Word] /\ line \in [CPU -> Lines]
  BY <1>1 DEF TypeOK, Word, Lines
<1>3. \A x \in CPU : LastStored(x) \in Word
  BY <1>1, Stored
<1> QED
  BY <1>1, <1>2, <1>3, Words DEF Lines

LEMMA Unchanged ==
  ASSUME IInv, UNCHANGED <<mem, line>>
  PROVE  MemoryStep
BY MemoryTypes DEF MemoryStep, KeptOrWritten

LEMMA Filled ==
  ASSUME IInv, NEW d \in CPU, line[d].state = "absent",
         line' = [line EXCEPT ![d] = Clean(mem[d])], UNCHANGED mem
  PROVE  MemoryStep
<1>1. mem[d] = LastStored(d)
  BY MemoryTypes DEF MemoryOK
<1> QED
  BY <1>1, MemoryTypes DEF MemoryStep, KeptOrWritten

LEMMA Loaded ==
  ASSUME IInv, NEW d \in CPU, NEW b \in BOOLEAN, Load(d, b)
  PROVE  MemoryStep /\ UNCHANGED mem
<1>1. CASE b /\ line[d].state = "absent"
  BY <1>1, Filled DEF Load
<1>2. CASE ~ (b /\ line[d].state = "absent")
  BY <1>2, Unchanged DEF Load
<1> QED
  BY <1>1, <1>2 DEF Load

LEMMA Flushed ==
  ASSUME IInv, NEW d \in CPU, Dccivac(d)
  PROVE  MemoryStep /\ line'[d] = Absent /\ mem'[d] = LastStored(d)
<1>1. line' = [line EXCEPT ![d] = Absent]
  BY DEF Dccivac
<1>2. CASE line[d].state = "dirty"
  <2>1. mem' = [mem EXCEPT ![d] = LastStored(d)]
    BY <1>2, MemoryTypes DEF Dccivac, WriteBack, MemoryOK
  <2> QED
    BY <1>1, <2>1, MemoryTypes DEF MemoryStep, KeptOrWritten
<1>3. CASE line[d].state # "dirty"
  <2>1. mem' = mem /\ mem[d] = LastStored(d)
    BY <1>3, MemoryTypes DEF Dccivac, WriteBack, MemoryOK
  <2> QED
    BY <1>1, <2>1, MemoryTypes DEF MemoryStep, KeptOrWritten
<1> QED
  BY <1>2, <1>3

LEMMA Maintained ==
  ASSUME IInv, NEW c \in CPU, WriteCacheOp(c)
  PROVE  MemoryStep /\ line'[c].state # "dirty"
<1>1. CASE cached[c] /\ line[c].state = "dirty"
  <2>1. /\ mem' = [mem EXCEPT ![c] = LastStored(c)]
        /\ line' = [line EXCEPT ![c] = Clean(LastStored(c))]
    BY <1>1, MemoryTypes DEF WriteCacheOp, Dccvac, WriteBack, MemoryOK
  <2> QED
    BY <2>1, CleanData, MemoryTypes DEF MemoryStep, KeptOrWritten
<1>2. CASE cached[c] /\ line[c].state # "dirty"
  BY <1>2, Unchanged DEF WriteCacheOp, Dccvac, WriteBack
<1>3. CASE ~ cached[c] /\ line' = line
  <2>1. line[c].state # "dirty"
    BY <1>3, MemoryTypes DEF MemoryOK
  <2> QED
    BY <1>3, <2>1, Unchanged DEF WriteCacheOp, Dcivac
<1>4. CASE ~ cached[c] /\ line' = [line EXCEPT ![c] = Absent]
  <2>1. mem' = mem /\ mem[c] = LastStored(c)
    BY <1>4, MemoryTypes DEF WriteCacheOp, Dcivac, MemoryOK
  <2> QED
    BY <1>4, <2>1, AbsentState, MemoryTypes DEF MemoryStep, KeptOrWritten
<1> QED
  BY <1>1, <1>2, <1>3, <1>4 DEF WriteCacheOp, Dcivac
-----------------------------------------------------------------------------
(* The steps *)

LEMMA TypesNext ==
  ASSUME pc' \in [CPU -> Locations], mem' \in [CPU -> Word], line' \in [CPU -> Lines],
         dcache' \in [CPU -> BOOLEAN], cached' \in [CPU -> BOOLEAN],
         they' \in [CPU -> 0..N], ticket' \in [CPU -> Nat], theirs' \in [CPU -> Nat]
  PROVE  TypeOK'
BY DEF TypeOK, Word, Lines

(* A move between a store and the next one.                                *)
LEMMA SameStored ==
  ASSUME NEW c \in CPU,
         \/ pc[c] \in {"idle", "released"} /\ pc'[c] \in {"idle", "released"}
         \/ /\ pc[c] \in {"announced", "scan", "scan load"}
            /\ pc'[c] \in {"announced", "scan", "scan load"}
         \/ pc[c] \in Chosen /\ pc'[c] \in Chosen /\ ticket'[c] = ticket[c]
  PROVE  LastStored(c)' = LastStored(c)
<1>1. CASE pc[c] \in {"idle", "released"} /\ pc'[c] \in {"idle", "released"}
  BY <1>1 DEF LastStored
<1>2. CASE /\ pc[c] \in {"announced", "scan", "scan load"}
           /\ pc'[c] \in {"announced", "scan", "scan load"}
  BY <1>2 DEF LastStored
<1>3. CASE pc[c] \in Chosen /\ pc'[c] \in Chosen /\ ticket'[c] = ticket[c]
  <2>1. /\ pc[c] \notin {"idle", "released"}
        /\ pc[c] \notin {"announced", "scan", "scan load"}
        /\ pc'[c] \notin {"idle", "released"}
        /\ pc'[c] \notin {"announced", "scan", "scan load"}
    BY <1>3, Places
  <2> QED
    BY <1>3, <2>1 DEF LastStored
<1> QED
  BY <1>1, <1>2, <1>3

LEMMA NonStoreStep ==
  ASSUME IInv, TypeOK', NEW c \in CPU, MemoryStep, ControlOK(c)',
         pc[c] \notin Storing \/ line'[c].state # "dirty",
         \/ pc[c] \in {"idle", "released"} /\ pc'[c] \in {"idle", "released"}
         \/ /\ pc[c] \in {"announced", "scan", "scan load"}
            /\ pc'[c] \in {"announced", "scan", "scan load"}
         \/ pc[c] \in Chosen /\ pc'[c] \in Chosen /\ ticket'[c] = ticket[c],
         \A x \in CPU : x # c => SameControl(x),
         \A x \in CPU : x # c /\ pc[x] \in Visible /\ Behind(c, x) => Behind(c, x)',
         \A x \in CPU : x # c => Ordered(c, x)'
  PROVE  IInv'
<1>1. MemoryOK(c) /\ KeptOrWritten(c) /\ \A x \in CPU : KeptOrWritten(x)
  BY DEF IInv, MemoryStep
<1>2. LastStored(c)' = LastStored(c)
  BY SameStored
<1>3. line'[c].state # "dirty"
  <2>1. CASE line'[c].state # "dirty"
    BY <2>1
  <2>2. CASE pc[c] \notin Storing
    <3>1. line[c].state # "dirty"
      BY <1>1, <2>2 DEF MemoryOK
    <3> QED
      BY <1>1, <3>1, AbsentState, CleanData DEF KeptOrWritten
  <2> QED
    BY <2>1, <2>2
<1>4. MemoryOK(c)'
  BY <1>1, <1>2, <1>3, MemoryWritten
<1>5. pc[c] \in Chosen => pc'[c] \in Chosen /\ ticket'[c] = ticket[c]
  BY Places
<1> QED
  BY <1>1, <1>4, <1>5, StepOrdered

LEMMA AfterStoreStep ==
  ASSUME IInv, NEW c \in CPU, AfterStore(c)
  PROVE  IInv'
<1>1. TypeOK /\ ControlOK(c) /\ pc[c] \in Storing
  BY DEF IInv, AfterStore
<1>2. MemoryStep /\ line'[c].state # "dirty"
  BY Maintained DEF AfterStore
<1> DEFINE l == CASE pc[c] = "announced" -> "scan"
                  [] pc[c] = "chosen" -> "check"
                  [] pc[c] = "released" -> "idle"
<1>3. \/ pc[c] = "announced" /\ l = "scan"
      \/ pc[c] = "chosen" /\ l = "check"
      \/ pc[c] = "released" /\ l = "idle"
  BY <1>1 DEF Storing
<1>4. pc' = [pc EXCEPT ![c] = l] /\ UNCHANGED <<dcache, cached, they, ticket, theirs>>
  BY DEF AfterStore, Goto
<1> HIDE DEF l
<1>5. TypeOK'
  <2>1. l \in Locations
    BY <1>3, Places
  <2> QED
    BY <1>1, <1>2, <1>4, <2>1, TypesNext DEF TypeOK, MemoryStep
<1>6. pc'[c] = l /\ they'[c] = they[c] /\ ticket'[c] = ticket[c]
  BY <1>1, <1>4 DEF TypeOK
<1>7. \A x \in CPU : x # c => SameControl(x)
  BY <1>1, <1>4 DEF TypeOK, SameControl
<1>8. they[c] \in 0..N /\ First(c) # c /\ \A x \in CPU : x # c => First(c) <= x
  BY <1>1, Types, VisitingOrder
<1>9. ControlOK(c)'
  BY <1>1, <1>3, <1>6, <1>8, Places DEF ControlOK
<1>10. ASSUME NEW x \in CPU, x # c, Behind(c, x)
       PROVE  Behind(c, x)'
  <2>1. ticket'[x] = ticket[x] /\ x \in Nat
    BY <1>7, <1>10, CPUFacts DEF SameControl
  <2>2. CASE pc[c] = "announced"
    <3>1. they'[c] = First(c) /\ they'[c] \in Nat /\ they'[c] <= x
      BY <1>1, <1>6, <1>8, <1>10, <2>2, CPUFacts DEF ControlOK
    <3>2. they'[c] < x \/ they'[c] = x
      BY <2>1, <3>1
    <3>3. pc'[c] = "scan"
      BY <1>3, <1>6, <2>2
    <3> QED
      BY <3>2, <3>3 DEF Behind
  <2>3. CASE pc[c] = "chosen"
    BY <1>3, <1>6, <1>10, <2>1, <2>3, BehindChosen, Places
  <2>4. CASE pc[c] = "released"
    BY <1>3, <1>6, <2>4 DEF Behind
  <2> QED
    BY <1>3, <2>2, <2>3, <2>4
<1>11. ASSUME NEW x \in CPU, x # c
       PROVE  Ordered(c, x)'
  <2>1. CASE pc[c] = "chosen"
    <3>1. pc'[c] = "check" /\ ~ (x < they'[c])
      BY <1>1, <1>3, <1>6, <1>8, <1>11, <2>1, CPUFacts DEF ControlOK
    <3> QED
      BY <3>1 DEF Ordered, Passed
  <2>2. CASE pc[c] # "chosen"
    <3>1. pc'[c] \in {"scan", "idle"}
      BY <1>3, <1>6, <2>2
    <3> QED
      BY <3>1 DEF Ordered, Passed, Visible
  <2> QED
    BY <2>1, <2>2
<1>12. \/ pc[c] \in {"idle", "released"} /\ pc'[c] \in {"idle", "released"}
       \/ /\ pc[c] \in {"announced", "scan", "scan load"}
          /\ pc'[c] \in {"announced", "scan", "scan load"}
       \/ pc[c] \in Chosen /\ pc'[c] \in Chosen /\ ticket'[c] = ticket[c]
  BY <1>3, <1>6, Places
<1> QED
  BY <1>2, <1>5, <1>7, <1>9, <1>10, <1>11, <1>12, NonStoreStep

LEMMA BeforeLoadStep ==
  ASSUME IInv, NEW c \in CPU, BeforeLoad(c)
  PROVE  IInv'
<1> DEFINE d == they[c]
           l == AfterOp[pc[c]]
<1>1. TypeOK /\ ControlOK(c) /\ pc[c] \in Loading
  BY DEF IInv, BeforeLoad
<1>2. \/ pc[c] = "scan" /\ l = "scan load"
      \/ pc[c] = "check" /\ l = "check load"
      \/ pc[c] = "wait" /\ l = "wait load"
  BY <1>1, AfterOps DEF Loading
<1>3. pc' = [pc EXCEPT ![c] = l] /\ UNCHANGED <<dcache, cached, they, ticket, theirs>>
  BY DEF BeforeLoad, Goto
<1>4. d \in CPU /\ d # c
  BY <1>1, <1>2, Visited DEF BeforeLoad, ControlOK
<1> HIDE DEF l, d
<1>5. /\ MemoryStep
      /\ cached[c] => line'[d] = Absent /\ mem'[d] = LastStored(d)
      /\ ~ cached[c] => UNCHANGED <<mem, line>>
  <2>1. CASE cached[c]
    BY <1>4, <2>1, Flushed DEF BeforeLoad, ReadCacheOp, d
  <2>2. CASE ~ cached[c]
    BY <2>2, Unchanged DEF BeforeLoad, ReadCacheOp
  <2> QED
    BY <2>1, <2>2
<1>6. TypeOK'
  <2>1. l \in Locations
    BY <1>2, Places
  <2> QED
    BY <1>1, <1>3, <1>5, <2>1, TypesNext DEF TypeOK, MemoryStep
<1>7. /\ pc'[c] = l /\ they'[c] = d /\ they[c] = d /\ ticket'[c] = ticket[c]
      /\ theirs'[c] = theirs[c] /\ cached'[c] = cached[c]
  BY <1>1, <1>3 DEF TypeOK, d
<1>8. \A x \in CPU : x # c => SameControl(x)
  BY <1>1, <1>3 DEF TypeOK, SameControl
<1>9. ControlOK(c)'
  <2>1. they[c] < N
    BY DEF BeforeLoad
  <2> QED
    BY <1>1, <1>2, <1>4, <1>7, <2>1, Places DEF ControlOK
<1>10. ASSUME NEW x \in CPU, x # c, pc[x] \in Visible, Behind(c, x)
       PROVE  Behind(c, x)'
  <2>1. ticket'[x] = ticket[x] /\ ticket[x] \in Nat
    BY <1>1, <1>8, <1>10, Types DEF SameControl
  <2>2. CASE pc[c] = "scan" /\ d = x
    <3>1. MemoryOK(x) /\ LastStored(x).number = ticket[x] /\ pc[x] \notin Storing
      BY <1>1, <1>10, Stored, Places DEF IInv, Storing
    <3>2. mem'[x] = LastStored(x) /\ (cached[c] => line'[x] = Absent)
      BY <1>5, <2>2, <3>1 DEF MemoryOK
    <3>3. Value(x, cached[c])' = LastStored(x)
      BY <1>7, <3>2, AbsentState DEF Value
    <3>4. Value(x, cached[c])'.number >= ticket'[x]
      BY <2>1, <3>1, <3>3
    <3> QED
      BY <1>2, <1>7, <2>2, <3>4 DEF Behind
  <2>3. CASE pc[c] = "scan" /\ d # x
    BY <1>2, <1>7, <1>10, <2>1, <2>3, Places DEF Behind
  <2>4. CASE pc[c] # "scan"
    BY <1>2, <1>7, <1>10, <2>1, <2>4, BehindChosen, Places
  <2> QED
    BY <2>2, <2>3, <2>4
<1>11. ASSUME NEW x \in CPU, x # c
       PROVE  Ordered(c, x)'
  <2>1. CASE pc[c] = "scan"
    <3>1. pc'[c] = "scan load"
      BY <1>2, <1>7, <2>1
    <3> QED
      BY <3>1, Places DEF Ordered, Passed
  <2>2. CASE pc[c] # "scan"
    <3>1. Ordered(c, x) /\ KeptOrWritten(x) /\ KeptOrWritten(c) /\ SameControl(x)
      BY <1>5, <1>8, <1>11 DEF IInv, MemoryStep
    <3>2. pc[c] \in Visible /\ pc'[c] \in Visible /\ pc[c] # "held" /\ pc'[c] # "held"
      BY <1>2, <1>7, <2>2, Places
    <3>3. Behind(x, c) => Behind(x, c)'
      BY <1>1, <1>7, <3>1, <3>2, BehindKept
    <3>4. Passed(c, x)' => Behind(x, c)'
      BY <1>7, <3>1, <3>2, <3>3 DEF Ordered, Passed
    <3>5. ASSUME pc'[c] \in {"wait", "wait load"}, they'[c] = x
          PROVE  \/ Behind(x, c)'
                 \/ /\ pc'[x] \in Chosen /\ ticket'[x] = theirs'[c]
                    /\ cached'[c] \/ mem'[x].number = theirs'[c]
      <4>1. \/ Behind(x, c)'
            \/ /\ pc[x] \in Chosen /\ ticket[x] = theirs[c]
               /\ cached[c] \/ mem[x].number = theirs[c]
        BY <1>2, <1>7, <3>1, <3>3, <3>5 DEF Ordered
      <4>2. pc[x] \in Chosen => LastStored(x).number = ticket[x]
        BY <1>1, Stored
      <4> QED
        BY <1>7, <3>1, <4>1, <4>2 DEF KeptOrWritten, SameControl
    <3>6. they'[c] = x /\ cached'[c] => line'[x].state # "clean"
      BY <1>5, <1>7, AbsentState
    <3> QED
      BY <3>4, <3>5, <3>6 DEF Ordered
  <2> QED
    BY <2>1, <2>2
<1>12. \/ /\ pc[c] \in {"announced", "scan", "scan load"}
          /\ pc'[c] \in {"announced", "scan", "scan load"}
       \/ pc[c] \in Chosen /\ pc'[c] \in Chosen /\ ticket'[c] = ticket[c]
  BY <1>2, <1>7, Places
<1>13. pc[c] \notin Storing
  BY <1>2 DEF Storing
<1> QED
  BY <1>5, <1>6, <1>8, <1>9, <1>10, <1>11, <1>12, <1>13, NonStoreStep
LEMMA Larger ==
  ASSUME NEW s \in Nat, NEW t \in Nat
  PROVE  LET l == IF s > t THEN s ELSE t IN l \in Nat /\ l >= t /\ l >= s
OBVIOUS

LEMMA ReadTicketStep ==
  ASSUME IInv, NEW c \in CPU, ReadTicket(c)
  PROVE  IInv'
<1> DEFINE d == they[c]
           n == Value(d, cached[c]).number
           t == IF n > ticket[c] THEN n ELSE ticket[c]
<1>1. TypeOK /\ ControlOK(c) /\ pc[c] = "scan load" /\ cached[c] \in BOOLEAN /\ ticket[c] \in Nat
  BY Types DEF IInv, ReadTicket
<1>2. d \in CPU /\ d # c /\ d < N /\ d \in 0..N
  BY <1>1, Visited, Types DEF ControlOK
<1>3. n \in Nat
  BY <1>1, <1>2, ValueIs
<1>4. MemoryStep
  BY <1>1, <1>2, Loaded DEF ReadTicket
<1>5. /\ Following(c, d) \in 0..N /\ Following(c, d) # c
      /\ \A x \in CPU : x # c /\ d < x => Following(c, d) <= x
  BY <1>2, VisitingOrder
<1>6. /\ pc' = [pc EXCEPT ![c] = "scan"] /\ they' = [they EXCEPT ![c] = Following(c, d)]
      /\ ticket' = [ticket EXCEPT ![c] = t] /\ UNCHANGED <<dcache, cached, theirs>>
  BY <1>1 DEF ReadTicket, Goto, TypeOK
<1> HIDE DEF d, n
<1>7. t \in Nat /\ t >= ticket[c] /\ t >= n
  BY <1>1, <1>3, Larger
<1> HIDE DEF t
<1>8. TypeOK'
  BY <1>1, <1>4, <1>5, <1>6, <1>7, TypesNext, Places DEF TypeOK, MemoryStep
<1>9. pc'[c] = "scan" /\ they'[c] = Following(c, d) /\ ticket'[c] = t
  BY <1>1, <1>6 DEF TypeOK
<1>10. \A x \in CPU : x # c => SameControl(x)
  BY <1>1, <1>6 DEF TypeOK, SameControl
<1>11. ControlOK(c)'
  BY <1>5, <1>9, Places DEF ControlOK
<1>12. ASSUME NEW x \in CPU, x # c, pc[x] \in Visible, Behind(c, x)
       PROVE  Behind(c, x)'
  <2>1. ticket'[x] = ticket[x] /\ ticket[x] \in Nat /\ x \in Nat
    BY <1>1, <1>10, <1>12, Types, CPUFacts DEF SameControl
  <2>2. \/ d < x
        \/ ticket[c] >= ticket[x]
        \/ d = x /\ n >= ticket[x]
    BY <1>1, <1>12, Places DEF Behind, d, n
  <2>3. CASE d < x
    <3>1. they'[c] <= x /\ they'[c] \in Nat
      BY <1>5, <1>9, <1>12, <2>3, CPUFacts
    <3>2. they'[c] < x \/ they'[c] = x
      BY <2>1, <3>1
    <3> QED
      BY <1>9, <3>2 DEF Behind
  <2>4. CASE ticket[c] >= ticket[x] \/ n >= ticket[x]
    <3>1. ticket[c] \in Nat
      BY <1>1
    <3>2. t >= ticket[x]
      BY <1>3, <1>7, <2>1, <2>4, <3>1
    <3> QED
      BY <1>9, <2>1, <3>2 DEF Behind
  <2> QED
    BY <2>2, <2>3, <2>4
<1>13. \A x \in CPU : x # c => Ordered(c, x)'
  BY <1>9, Places DEF Ordered, Passed
<1>14. pc[c] \notin Storing
  BY <1>1 DEF Storing
<1>15. /\ pc[c] \in {"announced", "scan", "scan load"}
       /\ pc'[c] \in {"announced", "scan", "scan load"}
  BY <1>1, <1>9
<1> QED
  BY <1>4, <1>8, <1>10, <1>11, <1>12, <1>13, <1>14, <1>15, NonStoreStep

(* A contender that moves on with its ticket, and is still to acquire.     *)
LEMMA ChosenStep ==
  ASSUME IInv, NEW c \in CPU, MemoryStep, pc[c] \in Visible, pc'[c] \in Visible,
         ticket' = ticket, cached' = cached, dcache' \in [CPU -> BOOLEAN],
         pc' = [pc EXCEPT ![c] = pc'[c]], they' = [they EXCEPT ![c] = they'[c]],
         theirs' = [theirs EXCEPT ![c] = theirs'[c]],
         they'[c] \in 0..N, theirs'[c] \in Nat,
         pc'[c] # "held" => they'[c] # c,
         pc'[c] \in {"wait", "wait load", "check load"} => they'[c] < N,
         \A x \in CPU : /\ x # c
                        /\ KeptOrWritten(x) /\ SameControl(x)
                        /\ Behind(x, c) => Behind(x, c)'
                        => Ordered(c, x)'
  PROVE  IInv'
<1>1. TypeOK /\ ControlOK(c)
  BY DEF IInv
<1>2. TypeOK'
  <2>1. pc'[c] \in Locations
    BY Places
  <2>2. pc' \in [CPU -> Locations] /\ they' \in [CPU -> 0..N] /\ theirs' \in [CPU -> Nat]
    BY <1>1, <2>1 DEF TypeOK
  <2>3. ticket' \in [CPU -> Nat] /\ cached' \in [CPU -> BOOLEAN]
    BY <1>1 DEF TypeOK
  <2> QED
    BY <2>2, <2>3, TypesNext DEF MemoryStep
<1>3. \A x \in CPU : x # c => SameControl(x)
  BY <1>1 DEF TypeOK, SameControl
<1>4. ControlOK(c)'
  BY <1>1, Places DEF ControlOK
<1>5. pc[c] \in Chosen /\ pc'[c] \in Chosen /\ ticket'[c] = ticket[c]
  BY DEF Chosen
<1>6. \A x \in CPU : x # c /\ pc[x] \in Visible /\ Behind(c, x) => Behind(c, x)'
  BY <1>5, BehindChosen
<1>7. ASSUME NEW x \in CPU, x # c
      PROVE  Ordered(c, x)'
  <2>1. SameControl(x) /\ KeptOrWritten(x) /\ KeptOrWritten(c)
    BY <1>3, <1>7 DEF MemoryStep
  <2>2. Behind(x, c) => Behind(x, c)'
    BY <1>1, <2>1, BehindKept
  <2> QED
    BY <1>7, <2>1, <2>2
<1>8. pc[c] \notin Storing
  BY Places DEF Storing
<1> QED
  BY <1>2, <1>3, <1>4, <1>5, <1>6, <1>7, <1>8, NonStoreStep
LEMMA CheckStep ==
  ASSUME IInv, NEW c \in CPU, Check(c)
  PROVE  IInv'
<1> DEFINE d == they[c]
           v == Value(d, cached[c])
           goesFirst == v.number # 0 /\ Priority(v.number, d) < Priority(ticket[c], c)
<1>1. TypeOK /\ ControlOK(c) /\ pc[c] = "check load" /\ cached[c] \in BOOLEAN
  BY Types DEF IInv, Check
<1>2. d \in CPU /\ d # c /\ d < N /\ d \in 0..N /\ theirs[c] \in Nat
  BY <1>1, Visited, Types DEF ControlOK
<1>3. v.number \in Nat /\ Verdict(c, d, v) /\ (~ cached[c] => v = mem[d])
  BY <1>1, <1>2, ValueIs, LoadedVerdict
<1>4. MemoryStep /\ UNCHANGED mem
  BY <1>1, <1>2, Loaded DEF Check
<1>5. /\ Following(c, d) \in 0..N /\ Following(c, d) # c
      /\ \A x \in CPU : x # c /\ x < Following(c, d) => x <= d
  BY <1>2, VisitingOrder
<1>6. /\ UNCHANGED <<dcache, cached, ticket>>
      /\ \/ v.choosing /\ Goto(c, "check") /\ UNCHANGED <<they, theirs>>
         \/ /\ ~ v.choosing /\ goesFirst /\ Goto(c, "wait")
            /\ theirs' = [theirs EXCEPT ![c] = v.number] /\ UNCHANGED they
         \/ /\ ~ v.choosing /\ ~ goesFirst /\ Goto(c, "check")
            /\ they' = [they EXCEPT ![c] = Following(c, d)] /\ UNCHANGED theirs
  BY <1>1 DEF Check, TypeOK
<1>7. pc[c] \in Visible /\ dcache' \in [CPU -> BOOLEAN] /\ ticket' = ticket /\ cached' = cached
  BY <1>1, <1>6, Places DEF TypeOK
<1> HIDE DEF v, goesFirst, d
<1>8. they[c] = d
  BY DEF d
<1>9. \A x \in CPU : x # c => Ordered(c, x)
  BY DEF IInv
<1>10. CASE v.choosing /\ Goto(c, "check") /\ UNCHANGED <<they, theirs>>
  <2>1. /\ pc' = [pc EXCEPT ![c] = pc'[c]] /\ they' = [they EXCEPT ![c] = they'[c]]
        /\ theirs' = [theirs EXCEPT ![c] = theirs'[c]]
        /\ pc'[c] = "check" /\ they'[c] = d /\ theirs'[c] \in Nat
    BY <1>1, <1>2, <1>8, <1>10 DEF TypeOK, Goto
  <2>2. ASSUME NEW x \in CPU, x # c, Behind(x, c) => Behind(x, c)'
        PROVE  Ordered(c, x)'
    BY <1>7, <1>8, <1>9, <2>1, <2>2 DEF Ordered, Passed
  <2>3. pc'[c] \in Visible
    BY <2>1, Places
  <2> QED
    BY <1>2, <1>4, <1>7, <2>1, <2>2, <2>3, ChosenStep
<1>11. CASE /\ ~ v.choosing /\ goesFirst /\ Goto(c, "wait")
            /\ theirs' = [theirs EXCEPT ![c] = v.number] /\ UNCHANGED they
  <2>1. /\ pc' = [pc EXCEPT ![c] = pc'[c]] /\ they' = [they EXCEPT ![c] = they'[c]]
        /\ theirs' = [theirs EXCEPT ![c] = theirs'[c]]
        /\ pc'[c] = "wait" /\ they'[c] = d /\ theirs'[c] = v.number
    BY <1>1, <1>8, <1>11 DEF TypeOK, Goto
  <2>2. ASSUME NEW x \in CPU, x # c, SameControl(x), Behind(x, c) => Behind(x, c)'
        PROVE  Ordered(c, x)'
    <3>1. Passed(c, x)' => Behind(x, c)'
      BY <1>7, <1>8, <1>9, <2>1, <2>2, Places DEF Ordered, Passed
    <3>2. ASSUME d = x, ~ Behind(x, c)'
          PROVE  /\ pc'[x] \in Chosen /\ ticket'[x] = theirs'[c]
                 /\ cached'[c] \/ mem'[x].number = theirs'[c]
      <4>1. pc[x] \in Chosen /\ ticket[x] = v.number
        BY <1>3, <1>11, <2>2, <3>2 DEF Verdict
      <4>2. cached'[c] \/ mem'[x].number = v.number
        BY <1>3, <1>4, <1>7, <3>2
      <4> QED
        BY <2>1, <2>2, <4>1, <4>2 DEF SameControl
    <3> QED
      BY <2>1, <3>1, <3>2 DEF Ordered
  <2>3. pc'[c] \in Visible
    BY <2>1, Places
  <2> QED
    BY <1>2, <1>3, <1>4, <1>7, <2>1, <2>2, <2>3, ChosenStep
<1>12. CASE /\ ~ v.choosing /\ ~ goesFirst /\ Goto(c, "check")
            /\ they' = [they EXCEPT ![c] = Following(c, d)] /\ UNCHANGED theirs
  <2>1. /\ pc' = [pc EXCEPT ![c] = pc'[c]] /\ they' = [they EXCEPT ![c] = they'[c]]
        /\ theirs' = [theirs EXCEPT ![c] = theirs'[c]]
        /\ pc'[c] = "check" /\ they'[c] = Following(c, d) /\ theirs'[c] \in Nat
    BY <1>1, <1>2, <1>12 DEF TypeOK, Goto
  <2>2. ASSUME NEW x \in CPU, x # c, Behind(x, c) => Behind(x, c)'
        PROVE  Ordered(c, x)'
    <3>1. ASSUME x < they'[c]
          PROVE  Behind(x, c)
      <4>1. x < d \/ x = d
        BY <1>2, <1>5, <2>1, <2>2, <3>1, CPUFacts
      <4>2. CASE x < d
        BY <1>7, <1>8, <1>9, <2>2, <4>2 DEF Ordered, Passed
      <4>3. CASE x = d
        BY <1>3, <1>12, <4>3 DEF Verdict, goesFirst
      <4> QED
        BY <4>1, <4>2, <4>3
    <3> QED
      BY <2>1, <2>2, <3>1 DEF Ordered, Passed
  <2>3. pc'[c] \in Visible
    BY <2>1, Places
  <2> QED
    BY <1>4, <1>5, <1>7, <2>1, <2>2, <2>3, ChosenStep
<1> QED
  BY <1>6, <1>10, <1>11, <1>12

LEMMA WaitStep ==
  ASSUME IInv, NEW c \in CPU, Wait(c)
  PROVE  IInv'
<1> DEFINE d == they[c]
           v == Value(d, cached[c])
<1>1. TypeOK /\ ControlOK(c) /\ pc[c] = "wait load" /\ cached[c] \in BOOLEAN
  BY Types DEF IInv, Wait
<1>2. d \in CPU /\ d # c /\ d < N /\ d \in 0..N /\ theirs[c] \in Nat
  BY <1>1, Visited, Types DEF ControlOK
<1>3. MemoryStep /\ UNCHANGED mem
  BY <1>1, <1>2, Loaded DEF Wait
<1>4. /\ Following(c, d) \in 0..N /\ Following(c, d) # c
      /\ \A x \in CPU : x # c /\ x < Following(c, d) => x <= d
  BY <1>2, VisitingOrder
<1>5. /\ UNCHANGED <<dcache, cached, ticket>>
      /\ v.number = theirs[c] => Goto(c, "wait") /\ UNCHANGED <<they, theirs>>
      /\ v.number # theirs[c] => /\ Goto(c, "check")
                                 /\ they' = [they EXCEPT ![c] = Following(c, d)]
                                 /\ theirs' = [theirs EXCEPT ![c] = 0]
  BY <1>1 DEF Wait, TypeOK
<1>6. v.number = theirs[c] \/ Behind(d, c)
  <2>1. Ordered(c, d) /\ MemoryOK(d) /\ line[d].state \in {"absent", "clean", "dirty"}
    BY <1>1, <1>2, Types DEF IInv
  <2>2. \/ Behind(d, c)
        \/ /\ pc[d] \in Chosen /\ ticket[d] = theirs[c]
           /\ cached[c] \/ mem[d].number = theirs[c]
    BY <1>1, <2>1 DEF Ordered
  <2>3. pc[d] \in Chosen => LastStored(d).number = ticket[d]
    BY <1>1, <1>2, Stored
  <2>4. CASE ~ cached[c]
    BY <1>1, <1>2, <2>2, <2>4, ValueIs
  <2>5. CASE cached[c] /\ line[d].state = "clean"
    BY <1>1, <1>2, <2>1, <2>5, ValueIs DEF Ordered
  <2>6. CASE cached[c] /\ line[d].state # "clean"
    <3>1. v = LastStored(d)
      BY <1>1, <1>2, <2>1, <2>6, ValueIs DEF MemoryOK
    <3> QED
      BY <2>2, <2>3, <3>1
  <2> QED
    BY <2>4, <2>5, <2>6
<1>7. pc[c] \in Visible /\ dcache' \in [CPU -> BOOLEAN] /\ ticket' = ticket /\ cached' = cached
  BY <1>1, <1>5, Places DEF TypeOK
<1> HIDE DEF v, d
<1>8. they[c] = d
  BY DEF d
<1>9. \A x \in CPU : x # c => Ordered(c, x)
  BY DEF IInv
<1>10. CASE v.number = theirs[c]
  <2>1. /\ pc' = [pc EXCEPT ![c] = pc'[c]] /\ they' = [they EXCEPT ![c] = they'[c]]
        /\ theirs' = [theirs EXCEPT ![c] = theirs'[c]]
        /\ pc'[c] = "wait" /\ they'[c] = d /\ theirs'[c] = theirs[c]
    BY <1>1, <1>5, <1>8, <1>10 DEF TypeOK, Goto
  <2>2. ASSUME NEW x \in CPU, x # c, SameControl(x), Behind(x, c) => Behind(x, c)'
        PROVE  Ordered(c, x)'
    <3>1. Passed(c, x)' => Behind(x, c)'
      BY <1>7, <1>8, <1>9, <2>1, <2>2, Places DEF Ordered, Passed
    <3>2. ASSUME d = x, ~ Behind(x, c)'
          PROVE  /\ pc'[x] \in Chosen /\ ticket'[x] = theirs'[c]
                 /\ cached'[c] \/ mem'[x].number = theirs'[c]
      <4>1. /\ pc[x] \in Chosen /\ ticket[x] = theirs[c]
            /\ cached[c] \/ mem[x].number = theirs[c]
        BY <1>1, <1>8, <1>9, <2>2, <3>2 DEF Ordered
      <4> QED
        BY <1>3, <1>7, <2>1, <2>2, <4>1 DEF SameControl
    <3> QED
      BY <2>1, <3>1, <3>2 DEF Ordered
  <2>3. pc'[c] \in Visible
    BY <2>1, Places
  <2> QED
    BY <1>2, <1>3, <1>7, <2>1, <2>2, <2>3, ChosenStep
<1>11. CASE v.number # theirs[c]
  <2>1. /\ pc' = [pc EXCEPT ![c] = pc'[c]] /\ they' = [they EXCEPT ![c] = they'[c]]
        /\ theirs' = [theirs EXCEPT ![c] = theirs'[c]]
        /\ pc'[c] = "check" /\ they'[c] = Following(c, d) /\ theirs'[c] \in Nat
    <3>1. /\ pc' = [pc EXCEPT ![c] = "check"]
          /\ they' = [they EXCEPT ![c] = Following(c, d)]
          /\ theirs' = [theirs EXCEPT ![c] = 0]
      BY <1>5, <1>11 DEF Goto
    <3> QED
      BY <1>1, <3>1 DEF TypeOK
  <2>2. ASSUME NEW x \in CPU, x # c, Behind(x, c) => Behind(x, c)'
        PROVE  Ordered(c, x)'
    <3>1. ASSUME x < they'[c]
          PROVE  Behind(x, c)
      <4>1. x < d \/ x = d
        BY <1>2, <1>4, <2>1, <2>2, <3>1, CPUFacts
      <4>2. CASE x < d
        BY <1>7, <1>8, <1>9, <2>2, <4>2 DEF Ordered, Passed
      <4>3. CASE x = d
        BY <1>6, <1>11, <4>3
      <4> QED
        BY <4>1, <4>2, <4>3
    <3> QED
      BY <2>1, <2>2, <3>1 DEF Ordered, Passed
  <2>3. pc'[c] \in Visible
    BY <2>1, Places
  <2> QED
    BY <1>3, <1>4, <1>7, <2>1, <2>2, <2>3, ChosenStep
<1> QED
  BY <1>10, <1>11
LEMMA AcquiredStep ==
  ASSUME IInv, NEW c \in CPU, Acquired(c)
  PROVE  IInv'
<1>1. TypeOK /\ pc[c] = "check" /\ they[c] >= N /\ they[c] \in 0..N /\ theirs[c] \in Nat
  BY Types DEF IInv, Acquired
<1>2. MemoryStep
  BY Unchanged DEF Acquired
<1>3. /\ pc' = [pc EXCEPT ![c] = pc'[c]] /\ pc'[c] = "held"
      /\ they' = [they EXCEPT ![c] = they'[c]] /\ they'[c] = they[c]
      /\ theirs' = [theirs EXCEPT ![c] = theirs'[c]] /\ theirs'[c] = theirs[c]
      /\ ticket' = ticket /\ cached' = cached /\ dcache' \in [CPU -> BOOLEAN]
  BY <1>1 DEF Acquired, Goto, TypeOK
<1>4. pc[c] \in Visible /\ pc'[c] \in Visible
  BY <1>1, <1>3, Places
<1>5. ASSUME NEW x \in CPU, x # c, Behind(x, c) => Behind(x, c)'
      PROVE  Ordered(c, x)'
  <2>1. Ordered(c, x)
    BY <1>5 DEF IInv
  <2>2. x < they[c]
    BY <1>1, CPUFacts
  <2> QED
    BY <1>3, <1>4, <1>5, <2>1, <2>2 DEF Ordered, Passed
<1> QED
  BY <1>1, <1>2, <1>3, <1>4, <1>5, ChosenStep

(* The holder turns its cache off or on.                                   *)
LEMMA CacheStep ==
  ASSUME IInv, NEW c \in CPU, CacheOff(c) \/ CacheOn(c)
  PROVE  IInv'
<1>1. TypeOK /\ pc[c] = "held" /\ they[c] \in 0..N /\ theirs[c] \in Nat
  BY Types DEF IInv, CacheOff, CacheOn
<1>2. MemoryStep
  BY Unchanged, Flushed DEF CacheOff, CacheOn
<1>3. /\ pc' = [pc EXCEPT ![c] = pc'[c]] /\ pc'[c] = "held"
      /\ they' = [they EXCEPT ![c] = they'[c]] /\ they'[c] = they[c]
      /\ theirs' = [theirs EXCEPT ![c] = theirs'[c]] /\ theirs'[c] = theirs[c]
      /\ ticket' = ticket /\ cached' = cached /\ dcache' \in [CPU -> BOOLEAN]
  BY <1>1 DEF CacheOff, CacheOn, TypeOK
<1>4. pc[c] \in Visible /\ pc'[c] \in Visible
  BY <1>1, <1>3, Places
<1>5. ASSUME NEW x \in CPU, x # c, Behind(x, c) => Behind(x, c)'
      PROVE  Ordered(c, x)'
  <2>1. Ordered(c, x)
    BY <1>5 DEF IInv
  <2> QED
    BY <1>1, <1>3, <1>5, <2>1 DEF Ordered, Passed
<1> QED
  BY <1>1, <1>2, <1>3, <1>4, <1>5, ChosenStep

(* Nobody moves, but lines may be filled or evicted behind the CPUs' backs.*)
LEMMA StillStep ==
  ASSUME IInv, UNCHANGED lockVars, MemoryStep
  PROVE  IInv'
<1>1. TypeOK /\ \A x \in CPU : ControlOK(x) /\ MemoryOK(x)
  BY DEF IInv
<1>2. TypeOK'
  BY <1>1, TypesNext DEF TypeOK, MemoryStep, lockVars
<1>3. \A x \in CPU : SameControl(x) /\ KeptOrWritten(x)
  BY DEF SameControl, MemoryStep, lockVars
<1>4. \A x \in CPU : ControlOK(x)' /\ MemoryOK(x)'
  <2>1. \A x \in CPU : ControlOK(x)'
    BY <1>1 DEF ControlOK, lockVars
  <2> QED
    BY <1>1, <1>3, <2>1, MemoryKept
<1>5. \A x, y \in CPU : pc[x] \in Visible /\ Behind(y, x) => Behind(y, x)'
  BY <1>1, <1>3, BehindKept DEF SameControl
<1>6. \A x \in CPU : pc'[x] = pc[x] /\ ticket'[x] = ticket[x]
  BY <1>3 DEF SameControl
<1>7. \A x, y \in CPU : x # y => Ordered(x, y)'
  BY <1>3, <1>5, <1>6, OrderedKept
<1> QED
  BY <1>2, <1>4, <1>7 DEF IInv

LEMMA HardwareStep ==
  ASSUME IInv, NEW c \in CPU, Fill(c) \/ Evict(c)
  PROVE  IInv'
<1>1. CASE Fill(c)
  BY <1>1, Filled, StillStep DEF Fill
<1>2. CASE Evict(c)
  BY <1>2, Flushed, StillStep DEF Evict
<1> QED
  BY <1>1, <1>2

(* A store: c is in none of the loops, and its lock data is in a dirty line*)
(* or in memory.                                                           *)
LEMMA StoreStep ==
  ASSUME IInv, NEW c \in CPU, NEW w \in Word, NEW b \in BOOLEAN, Store(c, w, b),
         pc'[c] \in Storing, cached'[c] = b, LastStored(c)' = w,
         pc[c] \notin Storing,
         pc'[c] = "announced" => pc[c] = "idle",
         pc'[c] = "chosen" => pc[c] = "scan",
         pc' = [pc EXCEPT ![c] = pc'[c]], they' = [they EXCEPT ![c] = they'[c]],
         ticket' = [ticket EXCEPT ![c] = ticket'[c]],
         theirs' = [theirs EXCEPT ![c] = theirs'[c]],
         cached' = [cached EXCEPT ![c] = b], dcache' = dcache,
         they'[c] \in 0..N, ticket'[c] \in Nat, theirs'[c] \in Nat,
         ControlOK(c)',
         pc'[c] = "chosen" =>
           \A x \in CPU : x # c /\ pc[x] \in Visible /\ Behind(c, x) => Behind(c, x)'
  PROVE  IInv'
<1>1. TypeOK /\ MemoryOK(c) /\ \A x \in CPU : Dirty(w) \in Lines
  BY Words DEF IInv, Lines
<1>2. /\ mem' \in [CPU -> Word] /\ line' \in [CPU -> Lines]
      /\ \A x \in CPU : x # c => line'[x] = line[x] /\ mem'[x] = mem[x]
      /\ b => line'[c] = Dirty(w) /\ mem'[c] = mem[c]
      /\ ~ b => line'[c] = line[c] /\ mem'[c] = w
  <2>1. CASE b
    BY <1>1, <2>1, MemoryTypes DEF Store
  <2>2. CASE ~ b
    BY <1>1, <2>2, MemoryTypes DEF Store
  <2> QED
    BY <2>1, <2>2
<1>3. TypeOK'
  <2>1. pc'[c] \in Locations
    BY Places DEF Storing
  <2>2. pc' \in [CPU -> Locations] /\ they' \in [CPU -> 0..N]
    BY <1>1, <2>1 DEF TypeOK
  <2>3. ticket' \in [CPU -> Nat] /\ theirs' \in [CPU -> Nat]
    BY <1>1 DEF TypeOK
  <2>4. cached' \in [CPU -> BOOLEAN] /\ dcache' \in [CPU -> BOOLEAN]
    BY <1>1 DEF TypeOK
  <2> QED
    BY <1>2, <2>2, <2>3, <2>4, TypesNext
<1>4. \A x \in CPU : x # c => SameControl(x) /\ KeptOrWritten(x)
  BY <1>1, <1>2 DEF TypeOK, SameControl, KeptOrWritten
<1>5. MemoryOK(c)'
  <2>1. mem[c] = LastStored(c) /\ line[c].state # "dirty"
    BY <1>1 DEF MemoryOK
  <2>2. /\ pc'[c] = "announced" => mem[c] = Free
        /\ pc'[c] = "chosen" => mem[c] = Data(TRUE, 0)
    BY <1>1, <2>1, Stored
  <2>3. CASE b
    <3>1. line'[c].state = "dirty" /\ line'[c].data = w
      BY <1>2, <2>3, Words
    <3> QED
      BY <1>2, <2>2, <2>3, <3>1 DEF MemoryOK
  <2>4. CASE ~ b
    BY <1>2, <2>1, <2>4 DEF MemoryOK
  <2> QED
    BY <2>3, <2>4
<1>6. line'[c] = line[c] \/ line'[c].state # "clean"
  BY <1>2, Words
<1>7. ASSUME NEW x \in CPU, x # c
      PROVE  /\ pc[x] \in Visible /\ Behind(c, x) => Behind(c, x)'
             /\ Behind(c, x)' \/ pc[c] \notin Chosen
  <2>1. CASE pc'[c] = "chosen"
    BY <1>7, <2>1, Places
  <2>2. CASE pc'[c] \in {"announced", "released"}
    BY <2>2 DEF Behind
  <2> QED
    BY <2>1, <2>2 DEF Storing
<1>8. \A x \in CPU : x # c => Ordered(c, x)'
  BY Places DEF Ordered, Passed, Storing
<1> QED
  BY <1>3, <1>4, <1>5, <1>6, <1>7, <1>8, StepOrdered
LEMMA StartChoosingStep ==
  ASSUME IInv, NEW c \in CPU, StartChoosing(c)
  PROVE  IInv'
<1>1. TypeOK /\ ControlOK(c) /\ pc[c] = "idle"
  BY DEF IInv, StartChoosing
<1>2. ticket[c] = 0 /\ dcache[c] \in BOOLEAN /\ theirs[c] \in Nat
  BY <1>1, Types DEF ControlOK
<1>3. First(c) \in 0..N /\ First(c) # c
  BY VisitingOrder
<1>4. /\ pc' = [pc EXCEPT ![c] = pc'[c]] /\ pc'[c] = "announced"
      /\ they' = [they EXCEPT ![c] = they'[c]] /\ they'[c] = First(c)
      /\ ticket' = [ticket EXCEPT ![c] = ticket'[c]] /\ ticket'[c] = 0
      /\ theirs' = [theirs EXCEPT ![c] = theirs'[c]] /\ theirs'[c] = theirs[c]
      /\ cached' = [cached EXCEPT ![c] = dcache[c]] /\ dcache' = dcache
  BY <1>1, <1>2 DEF StartChoosing, Goto, TypeOK
<1>5. LastStored(c)' = Data(TRUE, 0)
  BY <1>4 DEF LastStored
<1>6. ControlOK(c)'
  BY <1>3, <1>4, Places DEF ControlOK
<1>7. Store(c, Data(TRUE, 0), dcache[c]) /\ Data(TRUE, 0) \in Word
  BY Words DEF StartChoosing
<1>8. pc'[c] \in Storing /\ pc[c] \notin Storing /\ pc'[c] # "chosen"
  BY <1>1, <1>4 DEF Storing
<1>9. cached'[c] = dcache[c] /\ ticket'[c] \in Nat
  BY <1>1, <1>4 DEF TypeOK
<1> QED
  BY <1>1, <1>2, <1>3, <1>4, <1>5, <1>6, <1>7, <1>8, <1>9, StoreStep

(* The scan is over, so c has a larger ticket than those it was behind.    *)
LEMMA ChooseTicketStep ==
  ASSUME IInv, NoWrap, NEW c \in CPU, ChooseTicket(c)
  PROVE  IInv'
<1>1. TypeOK /\ ControlOK(c) /\ pc[c] = "scan"
  BY DEF IInv, ChooseTicket
<1>2. /\ ticket[c] \in Nat /\ cached[c] \in BOOLEAN /\ theirs[c] \in Nat
      /\ they[c] \in 0..N /\ they[c] >= N
  BY <1>1, Types DEF ChooseTicket
<1>3. First(c) \in 0..N /\ First(c) # c
  BY VisitingOrder
<1>4. ticket[c] + 1 < TicketLimit
  BY <1>1 DEF NoWrap
<1>5. Field(ticket[c] + 1) = ticket[c] + 1
  BY <1>2, <1>4, FieldFits
<1>6. /\ pc' = [pc EXCEPT ![c] = pc'[c]] /\ pc'[c] = "chosen"
      /\ they' = [they EXCEPT ![c] = they'[c]] /\ they'[c] = First(c)
      /\ ticket' = [ticket EXCEPT ![c] = ticket'[c]] /\ ticket'[c] = ticket[c] + 1
      /\ theirs' = [theirs EXCEPT ![c] = theirs'[c]] /\ theirs'[c] = theirs[c]
      /\ cached' = [cached EXCEPT ![c] = cached[c]] /\ dcache' = dcache
  BY <1>1 DEF ChooseTicket, Goto, TypeOK
<1>7. LastStored(c)' = Data(FALSE, ticket[c] + 1)
  <2>1. /\ pc'[c] \notin {"idle", "released"}
        /\ pc'[c] \notin {"announced", "scan", "scan load"}
    BY <1>6
  <2> QED
    BY <1>6, <2>1 DEF LastStored
<1>8. ticket'[c] > 0 /\ ticket'[c] \in Nat
  BY <1>2, <1>6
<1>9. ControlOK(c)'
  BY <1>3, <1>6, <1>8, Places DEF ControlOK
<1>10. Store(c, Data(FALSE, ticket[c] + 1), cached[c]) /\ Data(FALSE, ticket[c] + 1) \in Word
  <2>1. ticket[c] + 1 \in Nat
    BY <1>2
  <2>2. Data(FALSE, ticket[c] + 1) \in Word
    BY <2>1, Words
  <2> QED
    BY <1>5, <2>2 DEF ChooseTicket
<1>11. pc'[c] \in Storing /\ pc[c] \notin Storing /\ pc'[c] # "announced"
  BY <1>1, <1>6 DEF Storing
<1>12. ASSUME NEW x \in CPU, x # c, Behind(c, x)
       PROVE  Behind(c, x)'
  <2>1. ticket'[x] = ticket[x] /\ ticket[x] \in Nat
    BY <1>1, <1>6, <1>12, Types DEF TypeOK
  <2>2. ~ (they[c] < x) /\ they[c] # x
    BY <1>2, CPUFacts
  <2>3. ticket[c] >= ticket[x]
    BY <1>1, <1>12, <2>2, Places DEF Behind
  <2>4. ticket'[x] < ticket'[c]
    BY <1>2, <1>6, <2>1, <2>3
  <2>5. Priority(ticket'[x], x) < Priority(ticket'[c], c)
    BY <1>8, <1>12, <2>1, <2>4, PriorityOrder
  <2> QED
    BY <1>6, <2>5, Places DEF Behind, Priority
<1>13. cached'[c] = cached[c]
  BY <1>1, <1>6 DEF TypeOK
<1> QED
  BY <1>1, <1>2, <1>3, <1>6, <1>7, <1>8, <1>9, <1>10, <1>11, <1>12, <1>13, StoreStep

LEMMA ReleaseStep ==
  ASSUME IInv, NEW c \in CPU, Release(c)
  PROVE  IInv'
<1>1. TypeOK /\ pc[c] = "held" /\ dcache[c] \in BOOLEAN
  BY Types DEF IInv, Release
<1>2. /\ pc' = [pc EXCEPT ![c] = pc'[c]] /\ pc'[c] = "released"
      /\ they' = [they EXCEPT ![c] = they'[c]] /\ they'[c] = 0
      /\ ticket' = [ticket EXCEPT ![c] = ticket'[c]] /\ ticket'[c] = 0
      /\ theirs' = [theirs EXCEPT ![c] = theirs'[c]] /\ theirs'[c] = 0
      /\ cached' = [cached EXCEPT ![c] = dcache[c]] /\ dcache' = dcache
  BY <1>1 DEF Release, Goto, TypeOK
<1>3. LastStored(c)' = Free
  BY <1>2 DEF LastStored
<1>4. ControlOK(c)'
  BY <1>2, Places DEF ControlOK
<1>5. Store(c, Free, dcache[c]) /\ Free \in Word
  BY Words DEF Release
<1>6. /\ pc'[c] \in Storing /\ pc[c] \notin Storing
      /\ pc'[c] # "announced" /\ pc'[c] # "chosen"
  BY <1>1, <1>2 DEF Storing
<1>7. cached'[c] = dcache[c]
  BY <1>1, <1>2 DEF TypeOK
<1>8. they'[c] \in 0..N /\ ticket'[c] \in Nat /\ theirs'[c] \in Nat
  BY <1>2, CPUFacts
<1> QED
  BY <1>1, <1>2, <1>3, <1>4, <1>5, <1>6, <1>7, <1>8, StoreStep

-----------------------------------------------------------------------------
(* The theorems *)

LEMMA InitIInv ==
  Init => IInv
<1> SUFFICES ASSUME Init
             PROVE  IInv
  OBVIOUS
<1>1. TypeOK
  <2>1. "idle" \in Locations /\ Free \in Word /\ Absent \in Lines /\ 0 \in 0..N
    <3>1. "idle" \in Locations
      BY Places
    <3>2. Free \in Word /\ Absent \in Lines
      BY Words DEF Lines
    <3>3. 0 \in 0..N
      BY CPUFacts
    <3> QED
      BY <3>1, <3>2, <3>3
  <2>2. pc \in [CPU -> Locations] /\ mem \in [CPU -> Word] /\ line \in [CPU -> Lines]
    BY <2>1 DEF Init
  <2>3. /\ they \in [CPU -> 0..N] /\ ticket \in [CPU -> Nat] /\ theirs \in [CPU -> Nat]
        /\ cached \in [CPU -> BOOLEAN]
    BY <2>1 DEF Init
  <2>4. dcache \in [CPU -> BOOLEAN]
    <3>1. dcache = [c \in CPU |-> c = 0]
      BY DEF Init
    <3>2. \A c \in CPU : (c = 0) = TRUE \/ (c = 0) = FALSE
      OBVIOUS
    <3>3. \A c \in CPU : (c = 0) \in BOOLEAN
      BY <3>2
    <3> QED
      BY <3>1, <3>3, Zenon
  <2> QED
    BY <2>2, <2>3, <2>4 DEF TypeOK, Word, Lines
<1>2. ASSUME NEW c \in CPU
      PROVE  ControlOK(c) /\ MemoryOK(c)
  <2>1. pc[c] = "idle" /\ ticket[c] = 0 /\ mem[c] = Free /\ line[c] = Absent
    BY DEF Init
  <2>2. LastStored(c) = Free
    BY <1>1, <2>1, Stored
  <2> QED
    BY <2>1, <2>2, AbsentState, Places DEF ControlOK, MemoryOK
<1>3. ASSUME NEW c \in CPU, NEW d \in CPU
      PROVE  Ordered(c, d)
  <2>1. pc[c] = "idle"
    BY DEF Init
  <2> QED
    BY <2>1, Places DEF Ordered, Passed
<1> QED
  BY <1>1, <1>2, <1>3 DEF IInv

LEMMA NextIInv ==
  IInv /\ NoWrap /\ [Next]_vars => IInv'
<1> SUFFICES ASSUME IInv, NoWrap, [Next]_vars
             PROVE  IInv'
  OBVIOUS
<1>1. CASE UNCHANGED vars
  BY <1>1, Unchanged, StillStep DEF vars, lockVars
<1>2. CASE Next
  <2> PICK c \in CPU :
        \/ StartChoosing(c) \/ AfterStore(c) \/ BeforeLoad(c) \/ ReadTicket(c)
        \/ ChooseTicket(c) \/ Check(c) \/ Wait(c) \/ Acquired(c) \/ Release(c)
        \/ CacheOff(c) \/ CacheOn(c) \/ Fill(c) \/ Evict(c)
    BY <1>2 DEF Next
  <2> QED
    BY StartChoosingStep, AfterStoreStep, BeforeLoadStep, ReadTicketStep,
       ChooseTicketStep, CheckStep, WaitStep, AcquiredStep, ReleaseStep,
       CacheStep, HardwareStep
<1> QED
  BY <1>1, <1>2

(* The invariant holds in every state of a run in which no ticket outgrows *)
(* its 15-bit field, whatever the number of CPUs, whichever cache is on.   *)
THEOREM InductiveInvariant == Spec /\ []NoWrap => []IInv
BY InitIInv, NextIInv, PTL DEF Spec

(* bakery_lock_get lets one CPU in at a time, also when those that contend *)
(* have their caches on and off and load stale lines.                      *)
THEOREM MutualExclusionHolds == Spec /\ []NoWrap => []MutualExclusion
<1>1. IInv => MutualExclusion
  <2> SUFFICES ASSUME IInv, NEW c \in CPU, NEW d \in CPU, pc[c] = "held", pc[d] = "held",
                      c # d
               PROVE  FALSE
    BY DEF MutualExclusion
  <2>1. Behind(d, c) /\ Behind(c, d)
    BY DEF IInv, Ordered, Passed
  <2>2. /\ Priority(ticket[c], c) < Priority(ticket[d], d)
        /\ Priority(ticket[d], d) < Priority(ticket[c], c)
    BY <2>1 DEF Behind
  <2>3. ticket[c] \in Nat /\ ticket[d] \in Nat
    BY Types DEF IInv
  <2> QED
    BY <2>2, <2>3, PriorityOrder
<1> QED
  BY <1>1, InductiveInvariant, PTL

(* After its write_cache_op() what a CPU stored is in main memory, and the *)
(* assertions on tickets in bakery_get_ticket and bakery_lock_release hold,*)
(* in every run in which no ticket outgrows its field.                     *)
THEOREM StoresAlwaysReachMemory == Spec /\ []NoWrap => []StoresReachMemory
<1>1. IInv => StoresReachMemory
  <2> SUFFICES ASSUME IInv
               PROVE  StoresReachMemory
    OBVIOUS
  <2>1. TypeOK /\ \A c \in CPU : ControlOK(c) /\ MemoryOK(c) /\ ticket[c] \in Nat
    BY Types DEF IInv
  <2>2. \A c \in CPU : pc[c] \notin Storing => mem[c] = LastStored(c) /\ line[c].state # "dirty"
    BY <2>1 DEF MemoryOK
  <2>3. ASSUME NEW c \in CPU, pc[c] = "held"
        PROVE  ticket[c] # 0
    <3>1. ticket[c] > 0 /\ ticket[c] \in Nat
      BY <2>1, <2>3, Places DEF ControlOK
    <3> QED
      BY <3>1
  <2> QED
    BY <2>1, <2>2, <2>3 DEF StoresReachMemory
<1> QED
  BY <1>1, InductiveInvariant, PTL
=============================================================================
