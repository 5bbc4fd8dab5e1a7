----------------------------- MODULE Tftp_proofs -----------------------------
(***************************************************************************)
(* A file is received whole: theorems about Tftp, for files of any length, *)
(* any number of sessions, attempts, timeouts and repeated packets.        *)
(***************************************************************************)
EXTENDS Tftp, Integers, TLAPS

-----------------------------------------------------------------------------
(* Block numbers *)

(* The quotient and the remainder are unique.                              *)
LEMMA RemainderUnique ==
  ASSUME NEW q \in Int, NEW p \in Int,
         NEW r \in 0 .. SequenceSize - 1, NEW t \in 0 .. SequenceSize - 1,
         SequenceSize * q + r = SequenceSize * p + t
  PROVE  r = t
<1> DEFINE d == p - q
<1>1. SequenceSize * d = r - t
  BY SizeAssumption
<1>2. d \in Int /\ SequenceSize * d < SequenceSize /\ SequenceSize * d > - SequenceSize
  BY <1>1, SizeAssumption
<1> HIDE DEF d
<1>3. ASSUME d >= 1 PROVE SequenceSize * d >= SequenceSize
  BY <1>2, <1>3, SizeAssumption
<1>4. ASSUME d <= -1 PROVE SequenceSize * d <= - SequenceSize
  BY <1>2, <1>4, SizeAssumption
<1>5. d = 0
  BY <1>2, <1>3, <1>4, SizeAssumption
<1> QED
  BY <1>1, <1>5, SizeAssumption

(* The number in a packet is what is left of the block.                    *)
LEMMA NumRange ==
  \A b \in Nat : Num(b) \in 0 .. SequenceSize - 1 /\ \E q \in Int : b = SequenceSize * q + Num(b)
<1>1. \A b \in Int : /\ b \div SequenceSize \in Int
                     /\ b = SequenceSize * (b \div SequenceSize) + (b % SequenceSize)
                     /\ b % SequenceSize \in 0 .. SequenceSize - 1
  BY SizeAssumption, Z3
<1> QED
  BY <1>1 DEF Num

LEMMA NumIs ==
  ASSUME NEW b \in Nat, NEW q \in Int, NEW r \in 0 .. SequenceSize - 1, b = SequenceSize * q + r
  PROVE  Num(b) = r
<1>1. PICK p \in Int : b = SequenceSize * p + Num(b)
  BY NumRange
<1>2. Num(b) \in 0 .. SequenceSize - 1
  BY NumRange
<1> QED
  BY <1>1, <1>2, RemainderUnique

(* The number of a block is one more than that of the block before it, or  *)
(* 0 after the highest one.                                                *)
LEMMA NumNext ==
  \A b \in Nat : Num(b + 1) = IF Num(b) = SequenceSize - 1 THEN 0 ELSE Num(b) + 1
<1> TAKE b \in Nat
<1>1. PICK q \in Int : b = SequenceSize * q + Num(b)
  BY NumRange
<1>2. Num(b) \in 0 .. SequenceSize - 1
  BY NumRange
<1>3. CASE Num(b) = SequenceSize - 1
  <2>1. b + 1 = SequenceSize * (q + 1) + 0
    BY <1>1, <1>3, SizeAssumption
  <2> QED
    BY <1>3, <2>1, NumIs, SizeAssumption
<1>4. CASE Num(b) # SequenceSize - 1
  <2>1. b + 1 = SequenceSize * q + (Num(b) + 1) /\ Num(b) + 1 \in 0 .. SequenceSize - 1
    BY <1>1, <1>2, <1>4, SizeAssumption
  <2> QED
    BY <1>4, <2>1, NumIs, SizeAssumption
<1> QED
  BY <1>3, <1>4

(* Blocks less than a wrap apart with the same number are the same.        *)
LEMMA NumSame ==
  ASSUME NEW b \in Nat, NEW c \in Nat, b <= c, c < b + SequenceSize, Num(b) = Num(c)
  PROVE  b = c
<1>1. PICK q \in Int : b = SequenceSize * q + Num(b)
  BY NumRange
<1>2. PICK p \in Int : c = SequenceSize * p + Num(c)
  BY NumRange
<1>3. Num(b) \in 0 .. SequenceSize - 1
  BY NumRange
<1> DEFINE d == p - q
<1>4. d \in Int /\ SequenceSize * d = c - b
  BY <1>1, <1>2, <1>3, SizeAssumption
<1> HIDE DEF d
<1>5. ASSUME d >= 1 PROVE SequenceSize * d >= SequenceSize
  BY <1>4, <1>5, SizeAssumption
<1>6. ASSUME d <= -1 PROVE SequenceSize * d <= - SequenceSize
  BY <1>4, <1>6, SizeAssumption
<1>7. d = 0
  BY <1>4, <1>5, <1>6, SizeAssumption
<1> QED
  BY <1>4, <1>7, SizeAssumption

(* The block where the number of block k was 0 last.                       *)
LEMMA NumEra ==
  ASSUME NEW k \in Nat, NEW w \in Nat, w + Num(k) = k
  PROVE  /\ Num(w) = 0
         /\ \A b \in Nat : w <= b /\ b <= k => Num(b) = b - w
<1>1. PICK q \in Int : k = SequenceSize * q + Num(k)
  BY NumRange
<1>2. Num(k) \in 0 .. SequenceSize - 1
  BY NumRange
<1>3. w = SequenceSize * q
  BY <1>1, <1>2, SizeAssumption
<1>4. Num(w) = 0
  <2>1. w = SequenceSize * q + 0 /\ 0 \in 0 .. SequenceSize - 1
    BY <1>3, SizeAssumption
  <2> QED
    BY <2>1, NumIs
<1>5. ASSUME NEW b \in Nat, w <= b, b <= k PROVE Num(b) = b - w
  <2>1. b - w \in 0 .. SequenceSize - 1 /\ b = SequenceSize * q + (b - w)
    BY <1>2, <1>3, <1>5, SizeAssumption
  <2> QED
    BY <2>1, NumIs
<1> QED
  BY <1>4, <1>5

LEMMA NumFacts ==
  /\ \A b \in Nat : Num(b) \in 0 .. SequenceSize - 1 /\ Num(b + 1) # Num(b)
  /\ \A b \in Nat : b < SequenceSize => Num(b) = b
  /\ Num(0) = 0 /\ Num(1) = 1 /\ Num(SequenceSize) = 0
<1>1. \A b \in Nat : b < SequenceSize => Num(b) = b
  BY SizeAssumption DEF Num
<1>2. \A b \in Nat : Num(b) \in 0 .. SequenceSize - 1
  BY NumRange
<1>3. \A b \in Nat : Num(b + 1) # Num(b)
  BY <1>2, NumNext, SizeAssumption
<1>4. Num(0) = 0 /\ Num(1) = 1
  BY <1>1, SizeAssumption
<1>5. Num(SequenceSize) = 0
  <2>1. SequenceSize = SequenceSize * 1 + 0 /\ 0 \in 0 .. SequenceSize - 1
    BY SizeAssumption
  <2> QED
    BY <2>1, NumIs, SizeAssumption
<1> QED
  BY <1>1, <1>2, <1>3, <1>4, <1>5

-----------------------------------------------------------------------------
(* Types *)

LEMMA SetupFacts ==
  ASSUME setup \in Setups
  PROVE  /\ FileBlocks \in Nat \ {0} /\ RetryCnt \in Nat /\ Window \in Nat
         /\ Options \in BOOLEAN
BY SetupAssumption DEF FileBlocks, RetryCnt, Window, Options

LEMMA SetupStays ==
  ASSUME setup' = setup
  PROVE  /\ FileBlocks' = FileBlocks /\ RetryCnt' = RetryCnt /\ Window' = Window
         /\ Options' = Options /\ Errors' = Errors
         /\ Block' = Block /\ Attempt' = Attempt /\ Message' = Message
         /\ SessionState' = SessionState
BY DEF SessionState, FileBlocks, RetryCnt, Window, Options, Errors, Block, Attempt, Message, Rrq, Ack, Data,
       Oack, Error

(* Attempts and blocks are numbers.                                        *)
LEMMA Numbers ==
  ASSUME TypeOK
  PROVE  /\ FileBlocks \in Nat \ {0} /\ RetryCnt \in Nat
         /\ (\A b \in Block : b \in Nat /\ b # 0) /\ (\A a \in Attempt : a \in Nat /\ a # 0)
         /\ attempt \in Nat \ {0} /\ tries \in Nat
         /\ \A s \in Session : sessions[s].attempt \in Nat /\ sessions[s].block \in 0 .. FileBlocks
<1>1. /\ setup \in Setups /\ attempt \in Attempt /\ tries \in Attempt
      /\ sessions \in [Session -> SessionState]
  BY DEF TypeOK
<1>2. FileBlocks \in Nat \ {0} /\ RetryCnt \in Nat
  BY <1>1, SetupFacts
<1>3. (\A b \in Block : b \in Nat /\ b # 0) /\ (\A a \in Attempt : a \in Nat /\ a # 0)
  BY <1>2 DEF Block, Attempt
<1>4. \A s \in Session : sessions[s].attempt \in Nat /\ sessions[s].block \in 0 .. FileBlocks
  <2> SUFFICES ASSUME NEW s \in Session
               PROVE  sessions[s].attempt \in Nat /\ sessions[s].block \in 0 .. FileBlocks
    OBVIOUS
  <2>1. sessions[s].attempt \in Attempt \cup {0} /\ sessions[s].block \in Block \cup {0}
    BY <1>1 DEF SessionState
  <2> QED
    BY <1>2, <1>3, <2>1 DEF Block
<1> QED
  BY <1>1, <1>2, <1>3, <1>4

(* The fields of packets.                                                  *)
LEMMA Fields ==
  ASSUME NEW m \in Message
  PROVE  /\ m.type \in {"RRQ", "ACK", "DATA", "OACK", "ERROR"}
         /\ m.type # "ACK" => m.port \in ClientPort
         /\ m.type # "RRQ" => m.session \in Session
         /\ m.type = "ACK" => m.num \in 0 .. SequenceSize - 1 /\ m.block \in Block \cup {0}
         /\ m.type = "DATA" => m.block \in Block
         /\ m.type = "OACK" => m.block = 0
BY DEF Message, Rrq, Ack, Data, Oack, Error

LEMMA Packets ==
  /\ \A p \in ClientPort : Rrq(p) \in Message
  /\ \A s \in Session, n \in 0 .. SequenceSize - 1, b \in Block \cup {0} : Ack(s, n, b) \in Message
  /\ \A s \in Session, p \in ClientPort, b \in Block : Data(s, p, b) \in Message
  /\ \A s \in Session, p \in ClientPort : Oack(s, p) \in Message
  /\ \A s \in Session, p \in ClientPort, e \in Errors : Error(s, p, e) \in Message
BY DEF Message

LEMMA ArrivesOK ==
  ASSUME NEW m, NEW answer, Arrives(m, answer), TypeOK
  PROVE  /\ m \in net /\ InTime(m)
         /\ net' \subseteq net \cup answer
         /\ repeats' \in 0 .. MaxRepeat
<1>1. repeats \in 0 .. MaxRepeat
  BY DEF TypeOK
<1> QED
  BY <1>1, SizeAssumption DEF Arrives

(* What the server sends and what the client acknowledges are packets.     *)
LEMMA SentOK ==
  ASSUME TypeOK, NEW s \in Session
  PROVE  /\ \A p \in ClientPort, b \in Block \cup {0} : Sent(s, p, b) \in Message
         /\ \A n \in 0 .. SequenceSize - 1 : Acknowledge(s, n) \in Message
         /\ sessions[s].block \in Block \cup {0}
<1>1. sessions[s].block \in Block \cup {0}
  BY DEF TypeOK, SessionState
<1> QED
  BY <1>1, Packets DEF Sent, Acknowledge

(* Giving up an attempt.                                                   *)
LEMMA StartAgainType ==
  ASSUME TypeOK, UNCHANGED result,
         IF tries >= RetryCnt
         THEN netState' = "FAIL" /\ UNCHANGED tries
         ELSE netState' = "RESTART" /\ tries' = tries + 1
  PROVE  /\ netState' \in {"FAIL", "RESTART"} /\ result' = result
         /\ tries' \in Attempt /\ tries <= tries'
         /\ netState' = "RESTART" => tries < tries'
<1>1. tries \in 1 .. RetryCnt + 1 /\ RetryCnt \in Nat
  BY SetupFacts DEF TypeOK, Attempt
<1> QED
  BY <1>1 DEF Attempt

(* A step of the server keeps the types.                                   *)
LEMMA ServerType ==
  ASSUME TypeOK, PacketsOK, Server
  PROVE  TypeOK'
<1>0. setup' = setup /\ UNCHANGED <<client, loop>> /\ setup \in Setups
  BY DEF Server, ServeAck, ServeRrq, Retransmit, TypeOK
<1>1. FileBlocks \in Nat \ {0} /\ Block' = Block /\ Attempt' = Attempt /\ Message' = Message
      /\ SessionState' = SessionState /\ attempt \in Attempt
  BY <1>0, SetupFacts, SetupStays DEF TypeOK
<1> DEFINE Kept == /\ net' \subseteq Message
                   /\ sessions' \in [Session -> SessionState]
                   /\ repeats' \in 0 .. MaxRepeat
<1>2. SUFFICES Kept
  BY <1>0, <1>1 DEF TypeOK, client, loop, Port
<1>3. /\ net \subseteq Message
      /\ sessions \in [Session -> SessionState]
      /\ repeats \in 0 .. MaxRepeat
  BY DEF TypeOK
<1>4. ASSUME NEW m \in net, ServeAck(m) PROVE Kept
  <2> DEFINE s == m.session
             next == sessions[s].block + 1
  <2>1. s \in Session /\ sessions[s].port \in ClientPort
    <3>1. s \in Session /\ m.type = "ACK"
      BY <1>3, <1>4, Fields DEF ServeAck
    <3> QED
      BY <3>1, <1>4 DEF PacketsOK, PacketOK
  <2>2. CASE m.num = Num(sessions[s].block) /\ next \in Block
    <3>1. /\ sessions' = [sessions EXCEPT ![s].block = next]
          /\ Arrives(m, {Data(s, sessions[s].port, next)})
      BY <1>4, <2>2 DEF ServeAck
    <3>2. Data(s, sessions[s].port, next) \in Message
      BY <2>1, <2>2, Packets
    <3> QED
      BY <1>3, <2>1, <2>2, <3>1, <3>2, ArrivesOK DEF SessionState
  <2>3. CASE ~ (m.num = Num(sessions[s].block) /\ next \in Block)
    <3>1. sessions' = sessions /\ Arrives(m, {})
      BY <1>4, <2>3 DEF ServeAck
    <3> QED
      BY <1>3, <3>1, ArrivesOK
  <2> QED
    BY <2>2, <2>3
<1>5. ASSUME NEW m \in net, NEW s \in Session, ServeRrq(m, s) PROVE Kept
  <2> DEFINE first == IF Options THEN 0 ELSE 1
  <2>1. m.port \in ClientPort /\ first \in Block \cup {0}
    BY <1>1, <1>3, <1>5, Fields DEF ServeRrq, Block
  <2>2. CASE /\ sessions' = [sessions EXCEPT ![s] = [port |-> m.port, attempt |-> attempt, block |-> first]]
             /\ Arrives(m, {Sent(s, m.port, first)})
    <3>1. Sent(s, m.port, first) \in Message
      BY <2>1, SentOK
    <3> QED
      BY <1>1, <1>3, <2>1, <2>2, <3>1, ArrivesOK DEF SessionState
  <2>3. CASE (\E e \in Errors : Arrives(m, {Error(s, m.port, e)})) /\ UNCHANGED sessions
    BY <1>3, <2>1, <2>3, ArrivesOK, Packets
  <2> QED
    BY <1>5, <2>2, <2>3 DEF ServeRrq
<1>6. ASSUME NEW s \in Session, Retransmit(s) PROVE Kept
  <2>1. sessions[s].port \in ClientPort /\ sessions[s].block \in Block \cup {0}
    BY <1>3, <1>6 DEF Retransmit, PacketsOK, SessionState
  <2>2. Sent(s, sessions[s].port, sessions[s].block) \in Message
    BY <2>1, SentOK
  <2> QED
    BY <1>3, <1>6, <2>2, SizeAssumption DEF Retransmit
<1> QED
  BY <1>4, <1>5, <1>6 DEF Server

(* The types of what a step of the client changes.                         *)
ClientTypeOK ==
  /\ netState \in {"CONTINUE", "RESTART", "SUCCESS", "FAIL", "returned"}
  /\ tries \in Attempt
  /\ result \in {"none", "SUCCESS", "FAIL"}
  /\ state \in {"SEND_RRQ", "OACK", "DATA"}
  /\ remotePort \in Port
  /\ ourPort \in ClientPort
  /\ curBlock \in 0 .. SequenceSize - 1 /\ prevBlock \in 0 .. SequenceSize - 1
  /\ wrapOffset \in Nat
  /\ timeouts \in 0 .. TimeoutCountMax + 1 /\ timer \in BOOLEAN
  /\ DOMAIN memory \subseteq Nat /\ \A o \in DOMAIN memory : memory[o] \in Block
  /\ why \in {"none", "timeouts", "first block", "error"}
  /\ attempt \in Attempt /\ stray \in BOOLEAN

(* A packet that the client handles.                                       *)
LEMMA ForClientFacts ==
  ASSUME TypeOK, PacketsOK, NEW m \in net, NEW type \in {"DATA", "OACK"}, ForClient(m, type)
  PROVE  /\ m.type = type /\ m.session \in Session /\ IsOpen(m.session)
         /\ m.block \in Block \cup {0} /\ (type = "DATA" => m.block \in Block)
         /\ (type = "OACK" => m.block = 0)
         /\ m.block <= sessions[m.session].block
         /\ netState # "returned"
         /\ state = "SEND_RRQ" \/ m.session = remotePort
<1>1. m \in Message /\ m.type = type
  BY DEF TypeOK, ForClient
<1>2. netState # "returned" /\ (state = "SEND_RRQ" \/ m.session = remotePort)
  BY DEF ForClient
<1>3. CASE type = "DATA"
  BY <1>1, <1>2, <1>3, Fields DEF PacketsOK, PacketOK
<1>4. CASE type = "OACK"
  BY <1>1, <1>2, <1>4, Fields DEF PacketsOK, PacketOK
<1> QED
  BY <1>3, <1>4

LEMMA StoreType ==
  ASSUME NEW offset \in Nat, NEW block \in Block, Store(offset, block),
         DOMAIN memory \subseteq Nat, \A o \in DOMAIN memory : memory[o] \in Block
  PROVE  /\ DOMAIN memory' = DOMAIN memory \cup {offset}
         /\ memory'[offset] = block
         /\ \A o \in DOMAIN memory \ {offset} : memory'[o] = memory[o]
         /\ DOMAIN memory' \subseteq Nat /\ \A o \in DOMAIN memory' : memory'[o] \in Block
BY DEF Store

LEMMA UpdateType ==
  ASSUME TypeOK, NEW b \in Nat, UpdateBlockNumber(Num(b))
  PROVE  curBlock' = Num(b) /\ curBlock' \in 0 .. SequenceSize - 1
         /\ timeouts' \in 0 .. TimeoutCountMax + 1
<1>1. timeouts \in 0 .. TimeoutCountMax + 1 /\ Num(b) \in 0 .. SequenceSize - 1
  BY NumFacts DEF TypeOK
<1>2. curBlock' = Num(b) /\ timeouts' \in {0, timeouts}
  BY DEF UpdateBlockNumber
<1> QED
  BY <1>1, <1>2, SizeAssumption

(* A step of the client keeps the types.                                   *)
LEMMA ClientType ==
  ASSUME TypeOK, PacketsOK, AttemptOK, RemoteOK, Client
  PROVE  TypeOK'
<1>0. setup' = setup /\ UNCHANGED sessions /\ setup \in Setups
  BY DEF Client, ReceiveOack, FirstIsNotOne, SameAgain, ReceiveData, ReceiveError, Timeout, Loop,
         Restart, TypeOK, server
<1>1. FileBlocks \in Nat \ {0} /\ Block' = Block /\ Attempt' = Attempt /\ Message' = Message
      /\ Block \subseteq Nat
  BY <1>0, SetupFacts, SetupStays DEF Block
<1>2. SUFFICES ClientTypeOK' /\ net' \subseteq Message /\ repeats' \in 0 .. MaxRepeat
  BY <1>0, <1>1, SetupStays DEF TypeOK, ClientTypeOK
<1>3. ClientTypeOK /\ net \subseteq Message /\ repeats \in 0 .. MaxRepeat
  BY DEF TypeOK, ClientTypeOK
<1>4. \A s \in Session : s \in Port
  BY DEF Port
<1>5. ASSUME NEW m \in net, ReceiveOack(m)
      PROVE  ClientTypeOK' /\ net' \subseteq Message /\ repeats' \in 0 .. MaxRepeat
  <2>1. m.session \in Session
    BY <1>5, ForClientFacts DEF ReceiveOack
  <2>2. Acknowledge(m.session, curBlock) \in Message
    BY <1>3, <2>1, SentOK DEF ClientTypeOK
  <2>3. net' \subseteq Message /\ repeats' \in 0 .. MaxRepeat
    BY <1>3, <1>5, <2>2, ArrivesOK DEF ReceiveOack
  <2>4. ClientTypeOK'
    <3>1. stray' \in BOOLEAN
      BY <1>5 DEF ReceiveOack
    <3> QED
      BY <1>1, <1>3, <1>4, <1>5, <2>1, <3>1 DEF ClientTypeOK, ReceiveOack, loop, Port
  <2> QED
    BY <2>3, <2>4
<1>6. ASSUME NEW m \in net, FirstIsNotOne(m)
      PROVE  ClientTypeOK' /\ net' \subseteq Message /\ repeats' \in 0 .. MaxRepeat
  <2>1. m.session \in Session /\ m.block \in Nat
    BY <1>1, <1>6, ForClientFacts DEF FirstIsNotOne
  <2>2. net' \subseteq Message /\ repeats' \in 0 .. MaxRepeat
    <3>1. Arrives(m, {})
      BY <1>6 DEF FirstIsNotOne
    <3> QED
      BY <1>3, <3>1, ArrivesOK
  <2>3. netState' \in {"FAIL", "RESTART"} /\ why' = "first block" /\ result' = result
        /\ tries' \in Attempt
    BY <1>6, StartAgainType DEF FirstIsNotOne, NetStartAgain
  <2>4. curBlock' \in 0 .. SequenceSize - 1 /\ timeouts' \in 0 .. TimeoutCountMax + 1
    BY <1>6, <2>1, UpdateType DEF FirstIsNotOne
  <2>5. ClientTypeOK'
    <3>1. state' = "DATA" /\ remotePort' = m.session /\ prevBlock' = 0 /\ wrapOffset' = 0
          /\ UNCHANGED <<ourPort, timer, memory, attempt, stray>>
      BY <1>6 DEF FirstIsNotOne
    <3>2. 0 \in 0 .. SequenceSize - 1 /\ 0 \in Nat
      BY SizeAssumption
    <3> QED
      BY <1>1, <1>3, <1>4, <2>1, <2>3, <2>4, <3>1, <3>2 DEF ClientTypeOK, Port
  <2> QED
    BY <2>2, <2>5
<1>7. ASSUME NEW m \in net, SameAgain(m)
      PROVE  ClientTypeOK' /\ net' \subseteq Message /\ repeats' \in 0 .. MaxRepeat
  <2>1. m.block \in Nat
    BY <1>1, <1>7, ForClientFacts DEF SameAgain
  <2>2. net' \subseteq Message /\ repeats' \in 0 .. MaxRepeat
    BY <1>3, <1>7, ArrivesOK DEF SameAgain
  <2>3. curBlock' \in 0 .. SequenceSize - 1 /\ timeouts' \in 0 .. TimeoutCountMax + 1
    BY <1>7, <2>1, UpdateType DEF SameAgain
  <2>4. ClientTypeOK'
    BY <1>1, <1>3, <1>7, <2>3 DEF ClientTypeOK, SameAgain, loop, Port
  <2> QED
    BY <2>2, <2>4
<1>8. ASSUME NEW m \in net, ReceiveData(m)
      PROVE  ClientTypeOK' /\ net' \subseteq Message /\ repeats' \in 0 .. MaxRepeat
  <2> DEFINE num == Num(m.block)
             offset == IF IsFirst THEN 0 ELSE wrapOffset + (IF Wraps(num) THEN SequenceSize ELSE 0)
  <2>1. m.session \in Session /\ m.block \in Block /\ num \in 0 .. SequenceSize - 1
    BY <1>1, <1>8, ForClientFacts, NumFacts DEF ReceiveData
  <2>2. Acknowledge(m.session, num) \in Message
    BY <2>1, SentOK
  <2>3. net' \subseteq Message /\ repeats' \in 0 .. MaxRepeat
    BY <1>3, <1>8, <2>2, ArrivesOK DEF ReceiveData
  <2>4. curBlock' \in 0 .. SequenceSize - 1 /\ timeouts' \in 0 .. TimeoutCountMax + 1
    BY <1>1, <1>8, <2>1, UpdateType DEF ReceiveData
  <2>5. offset \in Nat /\ Offset(num, offset) \in Nat
    <3>1. IF IsFirst THEN num = 1 ELSE num # prevBlock
      BY <1>8 DEF ReceiveData
    <3>2. wrapOffset \in Nat /\ prevBlock \in 0 .. SequenceSize - 1
      BY <1>3 DEF ClientTypeOK
    <3> QED
      BY <2>1, <3>1, <3>2, SizeAssumption DEF Offset, Wraps
  <2>6. DOMAIN memory' \subseteq Nat /\ \A o \in DOMAIN memory' : memory'[o] \in Block
    <3>1. Store(Offset(num, offset), m.block)
      BY <1>8 DEF ReceiveData
    <3>2. DOMAIN memory \subseteq Nat /\ \A o \in DOMAIN memory : memory[o] \in Block
      BY <1>3 DEF ClientTypeOK
    <3> QED
      BY <2>1, <2>5, <3>1, <3>2, StoreType
  <2>7. /\ state' = "DATA" /\ remotePort' = m.session /\ prevBlock' = num /\ wrapOffset' = offset
        /\ netState' \in {"SUCCESS", netState}
        /\ UNCHANGED <<setup, ourPort, timer, attempt, tries, result, why, sessions>>
    BY <1>8 DEF ReceiveData
  <2>9. stray' \in BOOLEAN
    BY <1>8 DEF ReceiveData
  <2> HIDE DEF num, offset
  <2>8. ClientTypeOK'
    BY <1>1, <1>3, <1>4, <2>1, <2>4, <2>5, <2>6, <2>7, <2>9 DEF ClientTypeOK, Port
  <2> QED
    BY <2>3, <2>8
<1>9. ASSUME NEW m \in net, ReceiveError(m)
      PROVE  ClientTypeOK' /\ net' \subseteq Message /\ repeats' \in 0 .. MaxRepeat
  <2>1. net' \subseteq Message /\ repeats' \in 0 .. MaxRepeat
    <3>1. Arrives(m, {})
      BY <1>9 DEF ReceiveError
    <3> QED
      BY <1>3, <3>1, ArrivesOK
  <2>2. netState' \in {"FAIL", "RESTART"} /\ why' = "error" /\ result' = result
        /\ tries' \in Attempt
    <3>1. CASE NetStartAgain("error")
      BY <3>1, StartAgainType DEF NetStartAgain
    <3>2. CASE netState' = "FAIL" /\ why' = "error" /\ UNCHANGED <<tries, result>>
      BY <1>3, <3>2 DEF ClientTypeOK
    <3> QED
      BY <1>9, <3>1, <3>2 DEF ReceiveError
  <2>3. ClientTypeOK'
    BY <1>1, <1>3, <1>9, <2>2 DEF ClientTypeOK, ReceiveError, client, Port
  <2> QED
    BY <2>1, <2>3
<1>10. ASSUME Timeout
       PROVE  ClientTypeOK' /\ net' \subseteq Message /\ repeats' \in 0 .. MaxRepeat
  <2>0. timeouts \in 0 .. TimeoutCountMax /\ timer' \in BOOLEAN
    <3>1. timer /\ timer' = (netState' = "CONTINUE")
      BY <1>10 DEF Timeout
    <3>2. timeouts <= TimeoutCountMax /\ timer' \in BOOLEAN
      BY <3>1 DEF AttemptOK
    <3>3. timeouts \in 0 .. TimeoutCountMax + 1
      BY <1>3 DEF ClientTypeOK
    <3> QED
      BY <3>2, <3>3, SizeAssumption
  <2>a. timeouts' = timeouts + 1 /\ repeats' = repeats
        /\ UNCHANGED <<state, remotePort, ourPort, curBlock, prevBlock, wrapOffset, memory, attempt, stray>>
    BY <1>10 DEF Timeout, server
  <2>b. timeouts' \in 0 .. TimeoutCountMax + 1
    BY <2>0, <2>a, SizeAssumption
  <2>1. CASE timeouts' > TimeoutCountMax /\ NetStartAgain("timeouts") /\ UNCHANGED net
    <3>1. netState' \in {"FAIL", "RESTART"} /\ why' = "timeouts" /\ result' = result
          /\ tries' \in Attempt
      BY <2>1, StartAgainType DEF NetStartAgain
    <3>2. ClientTypeOK'
      BY <1>1, <1>3, <2>0, <2>a, <2>b, <3>1 DEF ClientTypeOK, Port
    <3> QED
      BY <1>3, <2>0, <2>a, <2>1, <3>2
  <2>2. CASE timeouts' <= TimeoutCountMax /\ UNCHANGED loop
             /\ net' = net \cup {IF state = "SEND_RRQ" THEN Rrq(ourPort)
                                 ELSE Acknowledge(remotePort, curBlock)}
    <3>1. net' \subseteq Message
      BY <1>3, <2>2, Packets, SentOK DEF RemoteOK, ClientTypeOK
    <3>2. ClientTypeOK'
      BY <1>1, <1>3, <2>0, <2>a, <2>b, <2>2 DEF ClientTypeOK, loop, Port
    <3> QED
      BY <1>3, <2>a, <3>1, <3>2
  <2> QED
    BY <1>10, <2>1, <2>2 DEF Timeout
<1>11. ASSUME Loop
       PROVE  ClientTypeOK' /\ net' \subseteq Message /\ repeats' \in 0 .. MaxRepeat
  <2>1. ASSUME NEW n \in Attempt, Restart(n)
        PROVE  ClientTypeOK' /\ net' \subseteq Message /\ repeats' \in 0 .. MaxRepeat
    <3>1. net' \subseteq Message /\ repeats' \in 0 .. MaxRepeat
      BY <1>3, <2>1, Packets DEF Restart, server
    <3>2. ClientTypeOK'
      <4>1. DOMAIN memory' = {}
        BY <2>1 DEF Restart
      <4>2. 0 \in 0 .. SequenceSize - 1 /\ 0 \in 0 .. TimeoutCountMax + 1
        BY SizeAssumption
      <4> QED
        BY <1>1, <1>3, <2>1, <4>1, <4>2 DEF ClientTypeOK, Restart, Port
    <3> QED
      BY <3>1, <3>2
  <2>2. tries \in Attempt /\ (tries < RetryCnt => tries + 1 \in Attempt)
    <3>1. tries \in Attempt /\ RetryCnt \in Nat
      BY <1>0, <1>3, SetupFacts DEF ClientTypeOK
    <3> QED
      BY <3>1 DEF Attempt
  <2>3. ASSUME netState \in {"SUCCESS", "FAIL"}, result' = netState, netState' = "returned",
               UNCHANGED <<setup, client, tries, why, net, server>>
        PROVE  ClientTypeOK' /\ net' \subseteq Message /\ repeats' \in 0 .. MaxRepeat
    BY <1>1, <1>3, <2>3 DEF ClientTypeOK, client, server, Port
  <2> QED
    BY <1>11, <2>1, <2>2, <2>3 DEF Loop
<1> QED
  BY <1>5, <1>6, <1>7, <1>8, <1>9, <1>10, <1>11 DEF Client

-----------------------------------------------------------------------------
(* Packets and sessions *)

(* Sessions only go on, so what holds of a packet stays true.              *)
LEMMA PacketsKept ==
  ASSUME TypeOK, PacketsOK, TypeOK', setup' = setup,
         \A s \in Session :
           /\ IsOpen(s) => IsOpen(s)' /\ sessions[s].block <= sessions'[s].block
           /\ sessions'[s].attempt <= attempt' /\ (IsOpen(s)' => sessions'[s].port \in ClientPort),
         \A a \in net' : a \in net \/ PacketOK(a)'
  PROVE  PacketsOK'
<1>0. /\ Block' = Block /\ SessionState' = SessionState /\ (\A b \in Block : b \in Nat)
      /\ \A s \in Session : sessions[s].block \in Nat
  BY Numbers, SetupStays
<1>1. \A s \in Session : sessions'[s].block \in Nat
  <2>1. sessions' \in [Session -> SessionState]
    BY <1>0 DEF TypeOK
  <2> QED
    BY <1>0, <2>1 DEF SessionState
<1>2. ASSUME NEW m \in net PROVE PacketOK(m)'
  <2>1. m \in Message /\ PacketOK(m)
    BY DEF TypeOK, PacketsOK
  <2>2. CASE m.type \in {"DATA", "OACK", "ACK"}
    <3>1. m.session \in Session /\ m.block \in Nat
      BY <1>0, <2>1, <2>2, Fields
    <3>2. IsOpen(m.session) /\ m.block <= sessions[m.session].block
      BY <2>1, <2>2 DEF PacketOK
    <3>3. m.block <= sessions'[m.session].block
      BY <1>0, <1>1, <3>1, <3>2
    <3> QED
      BY <3>1, <3>2, <3>3 DEF PacketOK
  <2>3. CASE m.type \notin {"DATA", "OACK", "ACK"}
    BY <2>3 DEF PacketOK
  <2> QED
    BY <2>2, <2>3
<1> QED
  BY <1>2 DEF PacketsOK

(* Nothing about the sessions changes.                                     *)
LEMMA PacketsStay ==
  ASSUME TypeOK, PacketsOK, TypeOK', setup' = setup, UNCHANGED <<attempt, sessions>>,
         \A a \in net' : a \in net \/ PacketOK(a)'
  PROVE  PacketsOK'
<1>1. \A s \in Session : sessions[s].block \in Nat
  BY Numbers
<1>2. \A s \in Session :
        /\ IsOpen(s) => IsOpen(s)' /\ sessions[s].block <= sessions'[s].block
        /\ sessions'[s].attempt <= attempt' /\ (IsOpen(s)' => sessions'[s].port \in ClientPort)
  BY <1>1 DEF PacketsOK, IsOpen
<1> QED
  BY <1>2, PacketsKept

(* The client and its session stay as they are, and no acknowledgement is  *)
(* sent.                                                                   *)
LEMMA ClientUntouched ==
  ASSUME TypeOK, PacketsOK, RemoteOK, ProgressOK, setup' = setup,
         UNCHANGED <<state, remotePort, attempt, stray, curBlock, prevBlock, wrapOffset, memory, why>>,
         netState' \in {netState, "returned"},
         \A m \in net' : m.type = "ACK" => m \in net,
         \A s \in Session : sessions[s].attempt = attempt => sessions'[s] = sessions[s],
         \A s \in Session : IsOpen(s) => IsOpen(s)',
         \A s \in Session : sessions[s].attempt # attempt /\ sessions'[s].attempt = attempt =>
           sessions'[s].block <= 1 /\ \A m \in net : ~ (m.type = "ACK" /\ m.session = s)
  PROVE  RemoteOK' /\ ProgressOK'
<1>0. UNCHANGED <<state, remotePort, attempt, stray, curBlock, prevBlock, wrapOffset, memory, why>>
  OBVIOUS
<1>1. RemoteOK'
  BY <1>0 DEF RemoteOK
<1>2. FileBlocks' = FileBlocks /\ Window' = Window
  BY SetupStays
<1>3. ASSUME NEW k \in 0 .. FileBlocks, Progress(k) PROVE Progress(k)'
  <2>1. state # "SEND_RRQ" => sessions'[remotePort] = sessions[remotePort]
    BY <1>3 DEF RemoteOK, Progress
  <2>2. Last' = Last /\ Received(k)' = Received(k)
    BY <1>0 DEF Last, Received
  <2>3. ASSUME NEW m \in net', m.type = "ACK", m.session = remotePort'
        PROVE  AckOK(m, k)'
    <3>1. m \in net /\ m.session = remotePort
      BY <1>0, <2>3
    <3>2. AckOK(m, k)
      BY <1>3, <2>3, <3>1 DEF Progress
    <3> QED
      BY <1>2, <3>2 DEF AckOK
  <2> QED
    BY <1>0, <1>2, <1>3, <2>1, <2>2, <2>3 DEF Progress
<1> QED
  BY <1>0, <1>1, <1>2, <1>3 DEF ProgressOK

-----------------------------------------------------------------------------
(* Steps of the server *)

(* An acknowledgement asks for the next block only when the client has the *)
(* last one.                                                               *)
LEMMA AckIsTrue ==
  ASSUME IInv, WrapsInTime, NEW m \in net, m.type = "ACK", m.session = remotePort, InTime(m),
         m.num = Num(sessions[m.session].block), NEW k \in 0 .. FileBlocks, Progress(k)
  PROVE  k = sessions[remotePort].block
<1>1. TypeOK /\ RemoteOK /\ m \in Message
  BY DEF IInv, TypeOK
<1>2. m.session \in Session /\ m.block \in Block \cup {0} /\ AckOK(m, k)
  BY <1>1, Fields DEF Progress
<1>3. state # "SEND_RRQ"
  BY <1>1, <1>2, SessionAssumption DEF RemoteOK
<1> DEFINE B == sessions[remotePort].block
<1>4. B \in 0 .. FileBlocks /\ FileBlocks \in Nat /\ m.block \in Nat /\ k <= B /\ k \in Nat
      /\ B <= m.block + Window /\ Window \in Nat
  <2>1. B <= m.block + Window
    BY DEF InTime
  <2>2. Window \in Nat
    BY <1>1, SetupFacts DEF TypeOK
  <2> QED
    BY <1>1, <1>2, <1>3, <2>1, <2>2, Numbers DEF Progress
<1>5. PICK j \in 0 .. k : m.num = Num(j) /\ (FileBlocks < SequenceSize \/ m.block <= j + Window + 1)
  BY <1>2 DEF AckOK
<1>6. B < j + SequenceSize
  <2>1. CASE FileBlocks < SequenceSize
    BY <1>4, <2>1, SizeAssumption
  <2>2. CASE ~ (FileBlocks < SequenceSize)
    <3>1. 2 * Window + 1 < SequenceSize
      BY <1>1, <2>2 DEF WrapsInTime, TypeOK, FileBlocks, Window
    <3> QED
      BY <1>4, <1>5, <2>2, <3>1, SizeAssumption
  <2> QED
    BY <2>1, <2>2
<1>7. j = B
  <2>1. j \in Nat /\ B \in Nat /\ j <= B /\ Num(j) = Num(B)
    BY <1>4, <1>5
  <2> QED
    BY <1>6, <2>1, NumSame
<1> QED
  BY <1>4, <1>7

LEMMA ServeAckStep ==
  ASSUME IInv, WrapsInTime, TypeOK', NEW m \in net, ServeAck(m)
  PROVE  PacketsOK' /\ RemoteOK' /\ ProgressOK'
<1> DEFINE s == m.session
           B == sessions[s].block
           d == Data(s, sessions[s].port, B + 1)
<1>0. /\ TypeOK /\ PacketsOK /\ RemoteOK /\ ProgressOK
      /\ setup' = setup
      /\ UNCHANGED <<state, remotePort, attempt, stray, curBlock, prevBlock, wrapOffset, memory, why>>
      /\ netState' \in {netState, "returned"}
  BY DEF IInv, ServeAck, client, loop
<1>1. m \in Message /\ m.type = "ACK" /\ s \in Session /\ PacketOK(m)
  BY <1>0, Fields DEF ServeAck, TypeOK, PacketsOK
<1>2. /\ UNCHANGED <<state, remotePort, attempt, stray, curBlock, prevBlock, wrapOffset, memory, netState, why>>
      /\ FileBlocks' = FileBlocks /\ Window' = Window
  BY <1>0, SetupStays DEF ServeAck, loop
<1>3. B \in 0 .. FileBlocks /\ FileBlocks \in Nat
      /\ \A x \in Session : sessions[x].block \in 0 .. FileBlocks
  BY <1>0, <1>1, Numbers
<1>4. CASE m.num = Num(B) /\ B + 1 \in Block
  <2>1. sessions' = [sessions EXCEPT ![s].block = B + 1] /\ Arrives(m, {d})
    BY <1>4 DEF ServeAck
  <2>2. InTime(m) /\ net' \subseteq net \cup {d}
    BY <1>0, <2>1, ArrivesOK
  <2>3. /\ sessions'[s].block = B + 1 /\ sessions'[s].port = sessions[s].port
        /\ sessions'[s].attempt = sessions[s].attempt
        /\ \A x \in Session \ {s} : sessions'[x] = sessions[x]
    <3>1. sessions \in [Session -> SessionState]
      BY <1>0 DEF TypeOK
    <3> QED
      BY <1>1, <2>1, <3>1 DEF SessionState
  <2>4. IsOpen(s) /\ IsOpen(s)'
    BY <1>1, <2>3 DEF PacketOK, IsOpen
  <2>5. PacketsOK'
    <3>1. \A x \in Session :
            /\ IsOpen(x) => IsOpen(x)' /\ sessions[x].block <= sessions'[x].block
            /\ sessions'[x].attempt <= attempt' /\ (IsOpen(x)' => sessions'[x].port \in ClientPort)
      <4> SUFFICES ASSUME NEW x \in Session
                   PROVE  /\ IsOpen(x) => IsOpen(x)' /\ sessions[x].block <= sessions'[x].block
                          /\ sessions'[x].attempt <= attempt'
                          /\ IsOpen(x)' => sessions'[x].port \in ClientPort
        OBVIOUS
      <4>1. sessions[x].attempt <= attempt /\ (IsOpen(x) => sessions[x].port \in ClientPort)
        BY <1>0 DEF PacketsOK
      <4>2. CASE x = s
        BY <1>2, <1>3, <2>3, <2>4, <4>1, <4>2
      <4>3. CASE x # s
        BY <1>2, <1>3, <2>3, <4>1, <4>3 DEF IsOpen
      <4> QED
        BY <4>2, <4>3
    <3>2. ASSUME NEW a \in {d} PROVE PacketOK(a)'
      <4>1. a.type = "DATA" /\ a.session = s /\ a.block = B + 1
        BY <3>2 DEF Data
      <4> QED
        BY <1>3, <2>3, <2>4, <4>1 DEF PacketOK
    <3> HIDE DEF d
    <3>4. \A a \in net' : a \in net \/ PacketOK(a)'
      BY <2>2, <3>2
    <3> QED
      BY <1>0, <3>1, <3>4, PacketsKept
  <2>6. \A x \in net' : x.type = "ACK" => x \in net
    BY <2>2 DEF Data
  <2>7. CASE s # remotePort
    <3>1. sessions[s].attempt # attempt
      BY <1>0, <1>1, <2>7 DEF RemoteOK
    <3>2. \A x \in Session : IsOpen(x) => IsOpen(x)'
      BY <2>3, <2>4 DEF IsOpen
    <3> QED
      BY <1>0, <2>3, <2>5, <2>6, <3>1, <3>2, ClientUntouched
  <2>8. CASE s = remotePort
    <3>1. RemoteOK'
      BY <1>0, <1>1, <1>2, <2>3, <2>4, <2>6, <2>8, SessionAssumption DEF RemoteOK
    <3>2. ASSUME NEW k \in 0 .. FileBlocks, Progress(k)
          PROVE  Progress(k)'
      <4>1. k = B
        BY <1>1, <1>4, <2>2, <2>8, <3>2, AckIsTrue
      <4>2. Last' = Last /\ Received(k)' = Received(k)
        BY <1>2 DEF Last, Received
      <4>3. ASSUME NEW x \in net', x.type = "ACK", x.session = remotePort'
            PROVE  AckOK(x, k)'
        <5>1. AckOK(x, k)
          BY <1>0, <2>6, <3>2, <4>3 DEF Progress
        <5> QED
          BY <1>2, <5>1 DEF AckOK
      <4>4. state' # "SEND_RRQ" /\ k <= sessions'[remotePort'].block
            /\ sessions'[remotePort'].block <= k + 1
        BY <1>0, <1>1, <1>2, <1>3, <2>3, <2>8, <4>1, SessionAssumption DEF RemoteOK
      <4>5. sessions'[remotePort'].attempt = attempt'
        <5>1. state # "SEND_RRQ"
          BY <1>2, <4>4
        <5> QED
          BY <1>2, <2>3, <2>8, <3>2, <5>1 DEF Progress
      <4> QED
        BY <1>2, <3>2, <4>2, <4>3, <4>4, <4>5 DEF Progress
    <3>3. ProgressOK'
      BY <1>0, <1>2, <3>2 DEF ProgressOK
    <3> QED
      BY <2>5, <3>1, <3>3
  <2> QED
    BY <2>5, <2>7, <2>8
<1>5. CASE ~ (m.num = Num(B) /\ B + 1 \in Block)
  <2>1. sessions' = sessions /\ Arrives(m, {})
    BY <1>5 DEF ServeAck
  <2>2. net' \subseteq net
    BY <1>0, <2>1, ArrivesOK
  <2>3. PacketsOK'
    BY <1>0, <1>2, <2>1, <2>2, PacketsStay
  <2>4. \A x \in Session : IsOpen(x) => IsOpen(x)'
    BY <2>1 DEF IsOpen
  <2> QED
    BY <1>0, <2>1, <2>2, <2>3, <2>4, ClientUntouched
<1> QED
  BY <1>4, <1>5

LEMMA ServeRrqStep ==
  ASSUME IInv, TypeOK', NEW m \in net, NEW s \in Session, ServeRrq(m, s)
  PROVE  PacketsOK' /\ RemoteOK' /\ ProgressOK'
<1> DEFINE first == IF Options THEN 0 ELSE 1
<1>0. /\ TypeOK /\ PacketsOK /\ RemoteOK /\ ProgressOK
      /\ setup' = setup
      /\ UNCHANGED <<state, remotePort, attempt, stray, curBlock, prevBlock, wrapOffset, memory, why>>
      /\ netState' \in {netState, "returned"}
  BY DEF IInv, ServeRrq, client, loop
<1>1. m.port \in ClientPort /\ ~ IsOpen(s)
  <2>1. m.type = "RRQ" /\ m \in Message /\ ~ IsOpen(s)
    BY <1>0 DEF ServeRrq, TypeOK
  <2> QED
    BY <2>1, Fields
<1>2. \A x \in net : ~ (x.type = "ACK" /\ x.session = s)
  BY <1>0, <1>1 DEF PacketsOK, PacketOK
<1>3. attempt \in Nat /\ attempt # 0 /\ \A x \in Session : sessions[x].block \in Nat
  BY <1>0, Numbers
<1>4. CASE /\ sessions' = [sessions EXCEPT ![s] = [port |-> m.port, attempt |-> attempt, block |-> first]]
           /\ Arrives(m, {Sent(s, m.port, first)})
  <2>1. net' \subseteq net \cup {Sent(s, m.port, first)}
    BY <1>0, <1>4, ArrivesOK
  <2>2. /\ sessions'[s] = [port |-> m.port, attempt |-> attempt, block |-> first]
        /\ \A x \in Session \ {s} : sessions'[x] = sessions[x]
    <3>1. sessions \in [Session -> SessionState]
      BY <1>0 DEF TypeOK
    <3> QED
      BY <1>4, <3>1
  <2>3. ASSUME NEW a, a = Sent(s, m.port, first)
        PROVE  a.type \in {"OACK", "DATA"} /\ a.session = s /\ a.block = first
    <3>1. CASE Options
      BY <2>3, <3>1 DEF Sent, Oack
    <3>2. CASE ~ Options
      BY <2>3, <3>2 DEF Sent, Data
    <3> QED
      BY <3>1, <3>2
  <2>4. first \in {0, 1}
    OBVIOUS
  <2> HIDE DEF first
  <2>5. PacketsOK'
    <3>1. \A x \in Session :
            /\ IsOpen(x) => IsOpen(x)' /\ sessions[x].block <= sessions'[x].block
            /\ sessions'[x].attempt <= attempt' /\ (IsOpen(x)' => sessions'[x].port \in ClientPort)
      <4> SUFFICES ASSUME NEW x \in Session
                   PROVE  /\ IsOpen(x) => IsOpen(x)' /\ sessions[x].block <= sessions'[x].block
                          /\ sessions'[x].attempt <= attempt'
                          /\ IsOpen(x)' => sessions'[x].port \in ClientPort
        OBVIOUS
      <4>1. sessions[x].attempt <= attempt /\ (IsOpen(x) => sessions[x].port \in ClientPort)
        BY <1>0 DEF PacketsOK
      <4>2. CASE x = s
        BY <1>0, <1>1, <1>3, <2>2, <4>2 DEF IsOpen
      <4>3. CASE x # s
        BY <1>0, <1>3, <2>2, <4>1, <4>3 DEF IsOpen
      <4> QED
        BY <4>2, <4>3
    <3>2. \A a \in net' : a \in net \/ PacketOK(a)'
      <4> SUFFICES ASSUME NEW a \in net', a \notin net PROVE PacketOK(a)'
        OBVIOUS
      <4>1. a.type \in {"OACK", "DATA"} /\ a.session = s /\ a.block = first
        BY <2>1, <2>3
      <4> QED
        BY <1>0, <1>3, <2>2, <2>4, <4>1 DEF PacketOK, IsOpen
    <3> QED
      BY <1>0, <3>1, <3>2, PacketsKept
  <2>6. \A x \in net' : x.type = "ACK" => x \in net
    BY <2>1, <2>3
  <2>7. /\ \A x \in Session : sessions[x].attempt = attempt => sessions'[x] = sessions[x]
        /\ \A x \in Session : IsOpen(x) => IsOpen(x)'
    BY <1>1, <1>3, <2>2 DEF IsOpen
  <2>8. \A x \in Session : sessions[x].attempt # attempt /\ sessions'[x].attempt = attempt =>
          sessions'[x].block <= 1 /\ \A y \in net : ~ (y.type = "ACK" /\ y.session = x)
    BY <1>2, <2>2, <2>4
  <2> QED
    BY <1>0, <2>5, <2>6, <2>7, <2>8, ClientUntouched
<1>5. CASE (\E e \in Errors : Arrives(m, {Error(s, m.port, e)})) /\ UNCHANGED sessions
  <2>1. PICK e \in Errors : Arrives(m, {Error(s, m.port, e)})
    BY <1>5
  <2>2. \A a \in net' : a \in net \/ a.type = "ERROR"
    BY <1>0, <2>1, ArrivesOK DEF Error
  <2>3. PacketsOK'
    BY <1>0, <1>5, <2>2, PacketsStay DEF PacketOK
  <2> QED
    BY <1>0, <1>5, <2>2, <2>3, ClientUntouched DEF IsOpen
<1> QED
  BY <1>4, <1>5 DEF ServeRrq

LEMMA RetransmitStep ==
  ASSUME IInv, TypeOK', NEW s \in Session, Retransmit(s)
  PROVE  PacketsOK' /\ RemoteOK' /\ ProgressOK'
<1> DEFINE packet == Sent(s, sessions[s].port, sessions[s].block)
<1>0. /\ TypeOK /\ PacketsOK /\ RemoteOK /\ ProgressOK /\ net' = net \cup {packet}
      /\ setup' = setup /\ UNCHANGED sessions
      /\ UNCHANGED <<state, remotePort, attempt, stray, curBlock, prevBlock, wrapOffset, memory, why>>
      /\ netState' \in {netState, "returned"}
  BY DEF IInv, Retransmit, client, loop
<1>1. ASSUME NEW a, a = packet
      PROVE  a.type \in {"OACK", "DATA"} /\ a.session = s /\ a.block = sessions[s].block
  BY <1>1 DEF Sent, Oack, Data
<1> HIDE DEF packet
<1>2. sessions[s].block \in Nat
  BY <1>0, Numbers
<1>3. \A a \in net' : a \in net \/ PacketOK(a)'
  <2> SUFFICES ASSUME NEW a \in net', a \notin net PROVE PacketOK(a)'
    OBVIOUS
  <2>1. a.type \in {"OACK", "DATA"} /\ a.session = s /\ a.block = sessions[s].block
    BY <1>0, <1>1
  <2> QED
    BY <1>0, <1>2, <2>1 DEF PacketOK, Retransmit, IsOpen
<1>4. \A a \in net' : a.type = "ACK" => a \in net
  BY <1>0, <1>1
<1>5. PacketsOK'
  BY <1>0, <1>3, PacketsStay
<1> QED
  BY <1>0, <1>4, <1>5, ClientUntouched DEF IsOpen

(* What the server does, and the network.                                  *)
LEMMA ServerStep ==
  ASSUME IInv, WrapsInTime, Server
  PROVE  IInv'
<1>1. TypeOK'
  BY ServerType DEF IInv
<1>2. PacketsOK' /\ RemoteOK' /\ ProgressOK'
  BY <1>1, ServeAckStep, ServeRrqStep, RetransmitStep DEF Server
<1>3. setup' = setup /\ UNCHANGED <<client, loop>>
  BY DEF Server, ServeAck, ServeRrq, Retransmit
<1>4. AttemptOK'
  BY <1>3 DEF IInv, AttemptOK, client, loop
<1>5. FileReceived'
  BY <1>3, SetupStays DEF IInv, FileReceived, FileInMemory, client, loop
<1> QED
  BY <1>1, <1>2, <1>4, <1>5 DEF IInv

-----------------------------------------------------------------------------
(* Steps of the client *)

(* The session that the client hears, and the others.                      *)
LEMMA Heard ==
  ASSUME IInv, NEW m \in net, NEW type \in {"DATA", "OACK"}, ForClient(m, type), ~ Stray(m),
         NEW k \in 0 .. FileBlocks, Progress(k)
  PROVE  /\ k <= sessions[m.session].block /\ sessions[m.session].block <= k + 1
         /\ sessions[m.session].attempt = attempt
         /\ \A a \in net : a.type = "ACK" /\ a.session = m.session => AckOK(a, k)
<1>0. TypeOK /\ PacketsOK /\ RemoteOK
  BY DEF IInv
<1>1. /\ m.type = type /\ m.session \in Session
      /\ state = "SEND_RRQ" \/ m.session = remotePort
  BY <1>0, ForClientFacts
<1>2. sessions[m.session].block \in Nat /\ sessions[m.session].attempt = attempt
  BY <1>0, <1>1, Numbers DEF Stray
<1>3. CASE state = "SEND_RRQ"
  <2>1. m.session \in Session \ {remotePort} /\ k = 0
    BY <1>0, <1>1, <1>3, SessionAssumption DEF RemoteOK, Progress
  <2> QED
    BY <1>0, <1>1, <1>2, <2>1 DEF RemoteOK
<1>4. CASE state # "SEND_RRQ"
  BY <1>1, <1>2, <1>4 DEF Progress
<1> QED
  BY <1>3, <1>4

(* The client acknowledges what its session has sent, or sends nothing.    *)
LEMMA AckStep ==
  ASSUME IInv, TypeOK', setup' = setup, UNCHANGED <<attempt, sessions>>,
         NEW s \in Session, IsOpen(s), state = "SEND_RRQ" \/ s = remotePort,
         remotePort' = s, state' # "SEND_RRQ",
         NEW num, \A a \in net' : a \in net \/ a = Acknowledge(s, num)
  PROVE  PacketsOK' /\ RemoteOK'
<1>0. TypeOK /\ PacketsOK /\ RemoteOK
  BY DEF IInv
<1>1. sessions[s].block \in Nat
  BY <1>0, Numbers
<1>3. ASSUME NEW a \in net', a \notin net
      PROVE  a.type = "ACK" /\ a.session = s /\ a.block = sessions[s].block
  BY <1>3 DEF Acknowledge, Ack
<1>4. PacketsOK'
  <2>1. \A a \in net' : a \in net \/ PacketOK(a)'
    <3> SUFFICES ASSUME NEW a \in net', a \notin net PROVE PacketOK(a)'
      OBVIOUS
    <3> QED
      BY <1>1, <1>3 DEF PacketOK, IsOpen
  <2> QED
    BY <1>0, <2>1, PacketsStay
<1>5. RemoteOK'
  <2>1. \A x \in Session \ {s} : sessions[x].attempt = attempt =>
          sessions[x].block <= 1 /\ \A a \in net : ~ (a.type = "ACK" /\ a.session = x)
    BY <1>0, SessionAssumption DEF RemoteOK
  <2> QED
    BY <1>3, <2>1 DEF RemoteOK, IsOpen
<1> QED
  BY <1>4, <1>5

(* With l the last block for the client, its acknowledgement is not taken  *)
(* for that of a block it does not have; nor are those sent before.        *)
LEMMA AcksStay ==
  ASSUME TypeOK, setup' = setup, UNCHANGED sessions, NEW s \in Session,
         NEW k \in 0 .. FileBlocks, NEW j \in 0 .. FileBlocks, NEW l \in 0 .. j, k <= j,
         FileBlocks < SequenceSize \/ sessions[s].block <= l + Window + 1,
         \A a \in net : a.type = "ACK" /\ a.session = s => AckOK(a, k),
         \A a \in net' : a \in net \/ a = Acknowledge(s, Num(l))
  PROVE  \A a \in net' : a.type = "ACK" /\ a.session = s => AckOK(a, j)'
<1> SUFFICES ASSUME NEW a \in net', a.type = "ACK", a.session = s
             PROVE  AckOK(a, j)'
  OBVIOUS
<1>0. FileBlocks \in Nat /\ FileBlocks' = FileBlocks /\ Window' = Window
  BY Numbers, SetupStays
<1>1. CASE a \in net
  <2>1. AckOK(a, k) /\ 0 .. k \subseteq 0 .. j
    BY <1>0, <1>1
  <2> QED
    BY <1>0, <2>1 DEF AckOK
<1>2. CASE a = Acknowledge(s, Num(l))
  <2>1. a.num = Num(l) /\ a.block = sessions[s].block
    BY <1>2 DEF Acknowledge, Ack
  <2> QED
    BY <1>0, <2>1 DEF AckOK
<1> QED
  BY <1>1, <1>2

(* A step that does not end the attempt has not returned before.           *)
LEMMA NotReturned ==
  ASSUME IInv, netState # "returned", UNCHANGED result
  PROVE  result = "none" /\ FileReceived'
BY DEF IInv, AttemptOK, FileReceived

LEMMA ReceiveOackStep ==
  ASSUME IInv, TypeOK', NEW m \in net, ReceiveOack(m)
  PROVE  IInv'
<1> DEFINE s == m.session
           B == sessions[s].block
<1>0. /\ TypeOK /\ PacketsOK /\ AttemptOK /\ RemoteOK /\ ProgressOK
      /\ ForClient(m, "OACK") /\ state' = "OACK" /\ remotePort' = s
      /\ Arrives(m, {Acknowledge(s, curBlock)}) /\ stray' = (stray \/ Stray(m))
      /\ UNCHANGED <<setup, attempt, curBlock, prevBlock, wrapOffset, timeouts, timer, memory, sessions>>
      /\ UNCHANGED <<netState, tries, result, why>>
  BY DEF IInv, ReceiveOack, loop
<1>1. /\ s \in Session /\ IsOpen(s) /\ m.block = 0
      /\ netState # "returned" /\ (state = "SEND_RRQ" \/ s = remotePort)
  BY <1>0, ForClientFacts
<1>2. \A a \in net' : a \in net \/ a = Acknowledge(s, curBlock)
  BY <1>0, ArrivesOK
<1>3. PacketsOK' /\ RemoteOK'
  BY <1>0, <1>1, <1>2, AckStep
<1>4. AttemptOK' /\ FileReceived'
  BY <1>0, <1>1, NotReturned DEF AttemptOK
<1>5. /\ FileBlocks' = FileBlocks /\ Window' = Window /\ Window \in Nat
      /\ FileBlocks \in Nat /\ B \in 0 .. FileBlocks
      /\ curBlock \in 0 .. SequenceSize - 1
  <2>1. curBlock \in 0 .. SequenceSize - 1 /\ Window \in Nat
    BY <1>0, SetupFacts DEF TypeOK
  <2> QED
    BY <1>0, <1>1, <2>1, Numbers, SetupStays
<1>6. ASSUME NEW k \in 0 .. FileBlocks, Progress(k), ~ Stray(m) PROVE Progress(k)'
  <2>1. /\ k <= B /\ B <= k + 1 /\ sessions[s].attempt = attempt
        /\ \A a \in net : a.type = "ACK" /\ a.session = s => AckOK(a, k)
    BY <1>0, <1>6, Heard
  <2>2. k < SequenceSize
    <3> SUFFICES ASSUME k >= SequenceSize PROVE FALSE
      BY <1>5, SizeAssumption
    <3>1. SequenceSize \in Block /\ k - 1 \in 0 .. k - 1
      BY <1>5, SizeAssumption DEF Block
    <3>2. k - 1 \in DOMAIN memory /\ memory[k - 1] = k
      BY <1>5, <1>6, <3>1 DEF Progress, Received
    <3>3. m.block < k /\ m.block <= SequenceSize /\ SequenceSize <= k
      BY <1>1, <1>5, SizeAssumption
    <3> QED
      BY <1>6, <3>1, <3>2, <3>3, NumFacts DEF Stray
  <2>3. Last = curBlock
    <3>1. CASE state = "DATA"
      <4>1. wrapOffset + Num(k) = k /\ prevBlock = curBlock /\ wrapOffset \in Nat
        BY <1>0, <1>6, <3>1 DEF Progress, TypeOK
      <4>2. k \in Nat /\ Num(k) = k
        BY <1>5, <2>2, NumFacts
      <4> QED
        BY <1>5, <3>1, <4>1, <4>2, SizeAssumption DEF Last
    <3>2. CASE state # "DATA"
      BY <3>2 DEF Last
    <3> QED
      BY <3>1, <3>2
  <2>4. /\ Received(k) /\ (netState = "SUCCESS" => k = FileBlocks)
        /\ curBlock <= k /\ curBlock = Num(curBlock)
        /\ FileBlocks < SequenceSize \/ k <= curBlock + Window
    BY <1>6, <2>3 DEF Progress
  <2>5. \A a \in net' : a.type = "ACK" /\ a.session = s => AckOK(a, k)'
    <3>1. \A a \in net' : a \in net \/ a = Acknowledge(s, Num(curBlock))
      BY <1>2, <2>4
    <3>2. curBlock \in 0 .. k /\ k <= k
      BY <1>5, <2>4, SizeAssumption
    <3>3. FileBlocks < SequenceSize \/ B <= curBlock + Window + 1
      BY <1>5, <2>1, <2>4, SizeAssumption
    <3> QED
      BY <1>0, <1>1, <1>5, <2>1, <3>1, <3>2, <3>3, AcksStay
  <2>6. Received(k)' = Received(k) /\ Last' = curBlock
    BY <1>0 DEF Received, Last
  <2> QED
    BY <1>0, <1>5, <2>1, <2>2, <2>4, <2>5, <2>6 DEF Progress
<1>7. ProgressOK'
  BY <1>0, <1>5, <1>6 DEF ProgressOK
<1> QED
  BY <1>3, <1>4, <1>7 DEF IInv

LEMMA SameAgainStep ==
  ASSUME IInv, TypeOK', NEW m \in net, SameAgain(m)
  PROVE  IInv'
<1>0. /\ TypeOK /\ PacketsOK /\ AttemptOK /\ RemoteOK /\ ProgressOK
      /\ ForClient(m, "DATA") /\ ~ IsFirst /\ Num(m.block) = prevBlock
      /\ UpdateBlockNumber(Num(m.block)) /\ Arrives(m, {})
      /\ UNCHANGED <<setup, state, remotePort, attempt, stray, prevBlock, wrapOffset, timer, memory, sessions>>
      /\ UNCHANGED <<netState, tries, result, why>>
  BY DEF IInv, SameAgain, loop
<1>1. netState # "returned"
  BY <1>0, ForClientFacts
<1>2. net' \subseteq net
  BY <1>0, ArrivesOK
<1>3. PacketsOK'
  BY <1>0, <1>2, PacketsStay
<1>4. RemoteOK'
  BY <1>0, <1>2 DEF RemoteOK, IsOpen
<1>5. ProgressOK'
  <2>1. CASE why = "none" /\ ~ stray
    <3>1. PICK k \in 0 .. FileBlocks : Progress(k)
      BY <1>0, <2>1 DEF ProgressOK
    <3>2. state = "DATA"
      BY <1>0 DEF TypeOK, IsFirst
    <3>3. curBlock' = curBlock
      BY <1>0, <3>1, <3>2 DEF Progress, UpdateBlockNumber
    <3> QED
      BY <1>0, <1>2, <3>3, ClientUntouched DEF IsOpen
  <2>2. CASE ~ (why = "none" /\ ~ stray)
    BY <1>0, <2>2 DEF ProgressOK
  <2> QED
    BY <2>1, <2>2
<1>6. timer => timeouts' <= TimeoutCountMax
  <2>1. timeouts' \in {0, timeouts} /\ (timer => timeouts <= TimeoutCountMax)
    BY <1>0 DEF UpdateBlockNumber, AttemptOK
  <2>2. 0 <= TimeoutCountMax
    BY SizeAssumption
  <2> QED
    BY <2>1, <2>2
<1>7. AttemptOK' /\ FileReceived'
  BY <1>0, <1>1, <1>6, NotReturned DEF AttemptOK
<1> QED
  BY <1>3, <1>4, <1>5, <1>7 DEF IInv

(* The attempt is given up: what the server has is of no interest any more.*)
LEMMA GivenUp ==
  ASSUME IInv, netState # "returned", why' # "none",
         UNCHANGED <<result, attempt>>,
         \/ netState' = "FAIL" /\ UNCHANGED tries
         \/ IF tries >= RetryCnt
            THEN netState' = "FAIL" /\ UNCHANGED tries
            ELSE netState' = "RESTART" /\ tries' = tries + 1,
         timer' => timeouts' <= TimeoutCountMax
  PROVE  AttemptOK' /\ ProgressOK' /\ FileReceived'
<1>1. attempt <= tries /\ attempt \in Nat /\ tries \in Nat /\ result = "none"
  BY Numbers DEF IInv, AttemptOK
<1>2. attempt' <= tries' /\ (netState' = "RESTART" => attempt' < tries')
      /\ netState' \in {"FAIL", "RESTART"}
  BY <1>1
<1>3. AttemptOK'
  BY <1>1, <1>2 DEF AttemptOK
<1>4. ProgressOK' /\ FileReceived'
  BY <1>1 DEF ProgressOK, FileReceived
<1> QED
  BY <1>3, <1>4

LEMMA FirstIsNotOneStep ==
  ASSUME IInv, TypeOK', NEW m \in net, FirstIsNotOne(m)
  PROVE  IInv'
<1>0. /\ TypeOK /\ PacketsOK /\ AttemptOK /\ RemoteOK
      /\ ForClient(m, "DATA") /\ UpdateBlockNumber(Num(m.block)) /\ Arrives(m, {})
      /\ state' = "DATA" /\ remotePort' = m.session
      /\ UNCHANGED <<setup, attempt, timer, memory, sessions>>
  BY DEF IInv, FirstIsNotOne
<1>1. /\ m.session \in Session /\ IsOpen(m.session)
      /\ netState # "returned" /\ (state = "SEND_RRQ" \/ m.session = remotePort)
  BY <1>0, ForClientFacts
<1>2. net' \subseteq net
  BY <1>0, ArrivesOK
<1>3. PacketsOK' /\ RemoteOK'
  <2>1. \A a \in net' : a \in net \/ a = Acknowledge(m.session, 0)
    BY <1>2
  <2> QED
    BY <1>0, <1>1, <2>1, AckStep
<1>4. timer' => timeouts' <= TimeoutCountMax
  <2>1. timeouts' \in {0, timeouts} /\ timer' = timer /\ (timer => timeouts <= TimeoutCountMax)
    BY <1>0 DEF UpdateBlockNumber, AttemptOK
  <2>2. 0 <= TimeoutCountMax
    BY SizeAssumption
  <2> QED
    BY <2>1, <2>2
<1>5. AttemptOK' /\ ProgressOK' /\ FileReceived'
  <2>1. /\ why' = "first block" /\ UNCHANGED result
        /\ IF tries >= RetryCnt
           THEN netState' = "FAIL" /\ UNCHANGED tries
           ELSE netState' = "RESTART" /\ tries' = tries + 1
    BY DEF FirstIsNotOne, NetStartAgain
  <2> QED
    BY <1>0, <1>1, <1>4, <2>1, GivenUp
<1> QED
  BY <1>3, <1>5 DEF IInv

(* A block goes to its place: the client counts the wraps right.           *)
LEMMA DataInPlace ==
  ASSUME IInv, NEW m \in net, ForClient(m, "DATA"), ~ Stray(m),
         IF IsFirst THEN Num(m.block) = 1 ELSE Num(m.block) # prevBlock,
         NEW k \in 0 .. FileBlocks, Progress(k), NEW offset,
         offset = IF IsFirst THEN 0
                  ELSE wrapOffset + (IF Wraps(Num(m.block)) THEN SequenceSize ELSE 0)
  PROVE  /\ offset \in Nat /\ offset + Num(m.block) = m.block
         /\ m.block <= k => offset + Num(k) = k
<1> DEFINE b == m.block
           B == sessions[m.session].block
<1>0. TypeOK /\ PacketsOK
  BY DEF IInv
<1>1. /\ m.session \in Session /\ b \in Block /\ b <= B /\ k <= B /\ B <= k + 1
  BY <1>0, ForClientFacts, Heard
<1>2. /\ b \in Nat /\ b # 0 /\ B \in 0 .. FileBlocks /\ FileBlocks \in Nat /\ k \in Nat
      /\ b <= k + 1
  BY <1>0, <1>1, Numbers
<1>3. /\ state \in {"SEND_RRQ", "OACK", "DATA"} /\ wrapOffset \in Nat
      /\ prevBlock \in 0 .. SequenceSize - 1 /\ Num(b) \in 0 .. SequenceSize - 1
  BY <1>0, <1>2, NumFacts DEF TypeOK
<1>4. CASE IsFirst
  <2>1. k < SequenceSize /\ offset = 0 /\ Num(b) = 1
    BY <1>3, <1>4 DEF IsFirst, Progress
  <2>2. b = 1
    <3>1. CASE b < SequenceSize
      BY <1>2, <2>1, <3>1, NumFacts
    <3>2. CASE b = SequenceSize
      BY <2>1, <3>2, NumFacts
    <3> QED
      BY <1>2, <2>1, <3>1, <3>2, SizeAssumption
  <2>3. Num(k) = k
    BY <1>2, <2>1, NumFacts
  <2> QED
    BY <1>2, <2>1, <2>2, <2>3
<1>5. CASE ~ IsFirst
  <2>1. /\ state = "DATA" /\ wrapOffset + Num(k) = k /\ Num(b) # prevBlock
        /\ wrapOffset + prevBlock <= k
    BY <1>3, <1>5 DEF IsFirst, Progress, Last
  <2>2. /\ Wraps(Num(b)) <=> Num(b) = 0
        /\ Wraps(Num(b)) => offset = wrapOffset + SequenceSize
        /\ ~ Wraps(Num(b)) => offset = wrapOffset
    BY <1>3, <1>5, <2>1 DEF Wraps
  <2>3. CASE b = k + 1
    <3>1. Num(b) = IF Num(k) = SequenceSize - 1 THEN 0 ELSE Num(k) + 1
      BY <1>2, <2>3, NumNext
    <3>2. Num(k) \in 0 .. SequenceSize - 1
      BY <1>2, NumFacts
    <3> QED
      BY <1>2, <1>3, <2>1, <2>2, <2>3, <3>1, <3>2, SizeAssumption
  <2>4. CASE b <= k
    <3>1. wrapOffset <= b /\ (b < k => wrapOffset < b)
      <4>1. wrapOffset <= k
        <5>1. Num(k) \in 0 .. SequenceSize - 1
          BY <1>2, NumFacts
        <5> QED
          BY <1>2, <1>3, <2>1, <5>1, SizeAssumption
      <4>2. ASSUME b < k, b <= wrapOffset PROVE FALSE
        <5>1. wrapOffset \in Block /\ k - 1 \in 0 .. k - 1
          BY <1>2, <1>3, <4>1, <4>2 DEF Block
        <5>2. k - 1 \in DOMAIN memory /\ memory[k - 1] = k
          BY <1>2, <5>1 DEF Progress, Received
        <5>3. Num(wrapOffset) = 0
          BY <1>2, <1>3, <2>1, NumEra
        <5> QED
          BY <4>1, <4>2, <5>1, <5>2, <5>3 DEF Stray
      <4> QED
        BY <1>2, <1>3, <2>4, <4>1, <4>2
    <3>2. Num(b) = b - wrapOffset
      BY <1>2, <1>3, <2>1, <2>4, <3>1, NumEra
    <3>3. Num(b) # 0
      BY <1>2, <1>3, <2>1, <2>4, <3>1, <3>2
    <3> QED
      BY <1>2, <1>3, <2>1, <2>2, <3>2, <3>3
  <2> QED
    BY <1>2, <2>3, <2>4
<1> QED
  BY <1>4, <1>5

LEMMA ReceiveDataStep ==
  ASSUME IInv, TypeOK', NEW m \in net, ReceiveData(m)
  PROVE  IInv'
<1> DEFINE s == m.session
           B == sessions[s].block
           b == m.block
           num == Num(b)
           offset == IF IsFirst THEN 0 ELSE wrapOffset + (IF Wraps(num) THEN SequenceSize ELSE 0)
<1>0. /\ TypeOK /\ PacketsOK /\ AttemptOK /\ RemoteOK /\ ProgressOK
      /\ ForClient(m, "DATA") /\ (IF IsFirst THEN num = 1 ELSE num # prevBlock)
      /\ UpdateBlockNumber(num) /\ state' = "DATA" /\ remotePort' = s
      /\ prevBlock' = num /\ wrapOffset' = offset
      /\ Store(Offset(num, offset), b)
      /\ Arrives(m, {Acknowledge(s, num)})
      /\ netState' = IF b = FileBlocks THEN "SUCCESS" ELSE netState
      /\ stray' = (stray \/ Stray(m))
      /\ UNCHANGED <<setup, attempt, timer, tries, result, why, sessions>>
  BY DEF IInv, ReceiveData
<1>1. /\ s \in Session /\ IsOpen(s) /\ b \in Block /\ b <= B
      /\ netState # "returned" /\ (state = "SEND_RRQ" \/ s = remotePort)
  BY <1>0, ForClientFacts
<1>2. InTime(m) /\ \A a \in net' : a \in net \/ a = Acknowledge(s, num)
  BY <1>0, ArrivesOK
<1> HIDE DEF num, offset
<1>3. PacketsOK' /\ RemoteOK'
  BY <1>0, <1>1, <1>2, AckStep
<1>4. AttemptOK' /\ FileReceived'
  <2>1. timer' => timeouts' <= TimeoutCountMax
    <3>1. timeouts' \in {0, timeouts} /\ timer' = timer /\ (timer => timeouts <= TimeoutCountMax)
      BY <1>0 DEF UpdateBlockNumber, AttemptOK
    <3>2. 0 <= TimeoutCountMax
      BY SizeAssumption
    <3> QED
      BY <3>1, <3>2
  <2>2. FileReceived' /\ result = "none"
    BY <1>0, <1>1, NotReturned
  <2>3. netState' = "RESTART" => netState = "RESTART"
    BY <1>0
  <2> QED
    BY <1>0, <2>1, <2>2, <2>3 DEF AttemptOK
<1>5. /\ FileBlocks' = FileBlocks /\ FileBlocks \in Nat /\ B \in 0 .. FileBlocks
      /\ b \in Nat /\ b # 0 /\ Window' = Window /\ Window \in Nat /\ B <= b + Window
  <2>1. Window \in Nat /\ m.type # "RRQ"
    BY <1>0, SetupFacts DEF TypeOK, ForClient
  <2>2. B <= b + Window
    BY <1>2, <2>1 DEF InTime
  <2> QED
    BY <1>0, <1>1, <2>1, <2>2, Numbers, SetupStays
<1>6. curBlock' = num /\ num \in 0 .. SequenceSize - 1 /\ num = Num(b)
  BY <1>0, <1>5, NumFacts DEF UpdateBlockNumber, num
<1>7. ASSUME NEW k \in 0 .. FileBlocks, Progress(k), ~ Stray(m)
      PROVE  \E j \in 0 .. FileBlocks : Progress(j)'
  <2>1. /\ k <= B /\ B <= k + 1 /\ sessions[s].attempt = attempt
        /\ \A a \in net : a.type = "ACK" /\ a.session = s => AckOK(a, k)
    BY <1>0, <1>7, Heard
  <2>2. /\ offset \in Nat /\ offset + num = b
        /\ b <= k => offset + Num(k) = k
    BY <1>0, <1>7, DataInPlace DEF num, offset
  <2>3. PICK j \in 0 .. FileBlocks : j = IF b = k + 1 THEN k + 1 ELSE k
    BY <1>1, <1>5, <2>1
  <2>4. /\ k \in Nat /\ j \in Nat /\ k <= j /\ j <= B /\ B <= j + 1 /\ b \in 0 .. j
        /\ j <= b + Window /\ offset + Num(j) = j
    BY <1>1, <1>5, <1>6, <2>1, <2>2, <2>3
  <2>5. Received(j)'
    <3>1. Received(k) /\ DOMAIN memory \subseteq Nat /\ \A o \in DOMAIN memory : memory[o] \in Block
      BY <1>0, <1>7 DEF Progress, TypeOK
    <3>2. Offset(num, offset) = b - 1 /\ b - 1 \in Nat
      BY <1>5, <1>6, <2>2, SizeAssumption DEF Offset
    <3>3. /\ DOMAIN memory' = DOMAIN memory \cup {b - 1}
          /\ memory'[b - 1] = b
          /\ \A o \in DOMAIN memory \ {b - 1} : memory'[o] = memory[o]
      BY <1>0, <1>1, <3>1, <3>2, StoreType
    <3>4. DOMAIN memory = 0 .. k - 1 /\ \A o \in 0 .. k - 1 : memory[o] = o + 1
      BY <3>1 DEF Received
    <3>5. DOMAIN memory' = 0 .. j - 1
      BY <1>1, <1>5, <2>1, <2>4, <2>3, <3>3, <3>4
    <3>6. ASSUME NEW o \in 0 .. j - 1 PROVE memory'[o] = o + 1
      <4>1. CASE o = b - 1
        BY <1>5, <3>3, <4>1
      <4>2. CASE o # b - 1
        <5>1. o \in DOMAIN memory
          BY <3>3, <3>5, <4>2
        <5> QED
          BY <3>3, <3>4, <4>2, <5>1
      <4> QED
        BY <4>1, <4>2
    <3> QED
      BY <3>5, <3>6 DEF Received
  <2>6. netState' = "SUCCESS" => j = FileBlocks
    <3>1. netState = "SUCCESS" => k = FileBlocks
      BY <1>7 DEF Progress
    <3> QED
      BY <1>0, <1>5, <2>4, <3>1
  <2>7. \A a \in net' : a.type = "ACK" /\ a.session = s => AckOK(a, j)'
    <3>1. \A a \in net' : a \in net \/ a = Acknowledge(s, Num(b))
      BY <1>2, <1>6
    <3>2. B <= b + Window + 1
      BY <1>5
    <3> QED
      BY <1>0, <1>1, <2>1, <2>4, <3>1, <3>2, AcksStay
  <2>8. Last' = b
    BY <1>0, <2>2 DEF Last
  <2>9. Progress(j)'
    <3>1. b <= j
      BY <2>4
    <3> QED
      BY <1>0, <1>5, <1>6, <2>1, <2>4, <2>5, <2>6, <2>7, <2>8, <3>1 DEF Progress
  <2> QED
    BY <2>9
<1>8. ProgressOK'
  BY <1>0, <1>5, <1>7 DEF ProgressOK
<1> QED
  BY <1>3, <1>4, <1>8 DEF IInv

LEMMA ReceiveErrorStep ==
  ASSUME IInv, TypeOK', NEW m \in net, ReceiveError(m)
  PROVE  IInv'
<1>0. /\ TypeOK /\ PacketsOK /\ AttemptOK /\ RemoteOK /\ Arrives(m, {})
      /\ netState # "returned"
      /\ UNCHANGED <<setup, state, remotePort, attempt, timeouts, timer, sessions>>
  BY DEF IInv, ReceiveError, ForClient, client
<1>1. net' \subseteq net
  BY <1>0, ArrivesOK
<1>2. PacketsOK'
  BY <1>0, <1>1, PacketsStay
<1>3. RemoteOK'
  BY <1>0, <1>1 DEF RemoteOK, IsOpen
<1>4. timer' => timeouts' <= TimeoutCountMax
  BY <1>0 DEF AttemptOK
<1>5. AttemptOK' /\ ProgressOK' /\ FileReceived'
  <2>1. /\ why' = "error" /\ UNCHANGED result
        /\ \/ netState' = "FAIL" /\ UNCHANGED tries
           \/ IF tries >= RetryCnt
              THEN netState' = "FAIL" /\ UNCHANGED tries
              ELSE netState' = "RESTART" /\ tries' = tries + 1
    BY DEF ReceiveError, NetStartAgain
  <2> QED
    BY <1>0, <1>4, <2>1, GivenUp
<1> QED
  BY <1>2, <1>3, <1>5 DEF IInv

LEMMA TimeoutStep ==
  ASSUME IInv, TypeOK', Timeout
  PROVE  IInv'
<1>0. /\ TypeOK /\ PacketsOK /\ AttemptOK /\ RemoteOK /\ ProgressOK
      /\ netState # "returned"
      /\ UNCHANGED <<setup, state, remotePort, attempt, stray, curBlock, prevBlock, wrapOffset, memory, sessions>>
  BY DEF IInv, Timeout, server
<1>1. CASE /\ timeouts' > TimeoutCountMax
           /\ NetStartAgain("timeouts")
           /\ UNCHANGED net
  <2>1. /\ why' = "timeouts" /\ UNCHANGED result /\ UNCHANGED net
        /\ IF tries >= RetryCnt
           THEN netState' = "FAIL" /\ UNCHANGED tries
           ELSE netState' = "RESTART" /\ tries' = tries + 1
    BY <1>1 DEF NetStartAgain
  <2>2. netState' # "CONTINUE" /\ ~ timer'
    <3>1. timer' = (netState' = "CONTINUE")
      BY DEF Timeout
    <3>2. netState' # "CONTINUE"
      BY <2>1
    <3> QED
      BY <3>1, <3>2
  <2>3. PacketsOK'
    BY <1>0, <2>1, PacketsStay
  <2>4. RemoteOK'
    BY <1>0, <2>1 DEF RemoteOK, IsOpen
  <2>5. AttemptOK' /\ ProgressOK' /\ FileReceived'
    BY <1>0, <2>1, <2>2, GivenUp
  <2> QED
    BY <2>3, <2>4, <2>5 DEF IInv
<1>2. CASE /\ timeouts' <= TimeoutCountMax
           /\ net' = net \cup {IF state = "SEND_RRQ" THEN Rrq(ourPort)
                               ELSE Acknowledge(remotePort, curBlock)}
           /\ UNCHANGED loop
  <2>0. UNCHANGED <<netState, tries, result, why>> /\ timeouts' <= TimeoutCountMax
    BY <1>2 DEF loop
  <2>1. AttemptOK' /\ FileReceived'
    BY <1>0, <2>0, NotReturned DEF AttemptOK
  <2>2. CASE state = "SEND_RRQ"
    <3>1. \A a \in net' : a \in net \/ a.type = "RRQ"
      BY <1>2, <2>2 DEF Rrq
    <3>3. PacketsOK'
      <4>1. \A a \in net' : a \in net \/ PacketOK(a)'
        BY <1>0, <3>1 DEF PacketOK
      <4> QED
        BY <1>0, <4>1, PacketsStay
    <3>4. RemoteOK' /\ ProgressOK'
      BY <1>0, <2>0, <3>1, ClientUntouched DEF IsOpen
    <3> QED
      BY <2>1, <3>3, <3>4 DEF IInv
  <2>3. CASE state # "SEND_RRQ"
    <3>1. remotePort \in Session /\ IsOpen(remotePort)
      BY <1>0, <2>3 DEF RemoteOK
    <3>2. PICK s \in Session : s = remotePort
      BY <3>1
    <3>3. \A a \in net' : a \in net \/ a = Acknowledge(s, curBlock)
      BY <1>2, <2>3, <3>2
    <3>4. PacketsOK' /\ RemoteOK'
      BY <1>0, <2>3, <3>1, <3>2, <3>3, AckStep
    <3>5. FileBlocks' = FileBlocks /\ FileBlocks \in Nat /\ Window' = Window /\ Window \in Nat
          /\ sessions[s].block \in Nat
      <4>1. Window \in Nat
        BY <1>0, SetupFacts DEF TypeOK
      <4> QED
        BY <1>0, <4>1, Numbers, SetupStays
    <3>6. ASSUME NEW k \in 0 .. FileBlocks, Progress(k) PROVE Progress(k)'
      <4>1. /\ curBlock = Num(Last) /\ Last <= k /\ k <= sessions[s].block /\ sessions[s].block <= k + 1
            /\ FileBlocks < SequenceSize \/ k <= Last + Window
            /\ \A a \in net : a.type = "ACK" /\ a.session = s => AckOK(a, k)
        BY <2>3, <3>2, <3>6 DEF Progress
      <4>2. Last \in 0 .. k
        <5>1. /\ wrapOffset \in Nat /\ prevBlock \in 0 .. SequenceSize - 1
              /\ curBlock \in 0 .. SequenceSize - 1
          BY <1>0 DEF TypeOK
        <5>2. Last \in Nat
          BY <5>1, SizeAssumption DEF Last
        <5> QED
          BY <3>5, <4>1, <5>2
      <4>3. PICK l \in 0 .. k : l = Last
        BY <4>2
      <4>4. \A a \in net' : a.type = "ACK" /\ a.session = s => AckOK(a, k)'
        <5>1. \A a \in net' : a \in net \/ a = Acknowledge(s, Num(l))
          BY <3>3, <4>1, <4>3
        <5>2. k <= k /\ (FileBlocks < SequenceSize \/ sessions[s].block <= l + Window + 1)
          BY <3>5, <4>1, <4>3
        <5> QED
          BY <1>0, <4>1, <5>1, <5>2, AcksStay
      <4>5. Received(k)' = Received(k) /\ Last' = Last
        BY <1>0 DEF Received, Last
      <4> QED
        BY <1>0, <2>0, <3>2, <3>5, <3>6, <4>4, <4>5 DEF Progress
    <3>7. ProgressOK'
      BY <1>0, <2>0, <3>5, <3>6 DEF ProgressOK
    <3> QED
      BY <2>1, <3>4, <3>7 DEF IInv
  <2> QED
    BY <2>2, <2>3
<1> QED
  BY <1>1, <1>2 DEF Timeout

(* A new attempt starts from nothing, and no session was opened in it.     *)
LEMMA RestartStep ==
  ASSUME IInv, TypeOK', netState \in {"RESTART", "FAIL"}, NEW n \in Nat, attempt < n, Restart(n)
  PROVE  IInv'
<1>0. /\ TypeOK /\ PacketsOK /\ AttemptOK /\ RemoteOK
      /\ netState' = "CONTINUE" /\ tries' = n /\ why' = "none" /\ state' = "SEND_RRQ"
      /\ remotePort' = "69" /\ attempt' = n /\ curBlock' = 0 /\ timeouts' = 0
      /\ memory' = << >> /\ net' = net \cup {Rrq(ourPort')}
      /\ UNCHANGED <<setup, result, prevBlock, wrapOffset, sessions>>
  BY DEF IInv, Restart, server
<1>1. attempt \in Nat /\ \A s \in Session : sessions[s].attempt \in Nat /\ sessions[s].block \in Nat
  BY <1>0, Numbers
<1>2. \A s \in Session : sessions[s].attempt <= attempt /\ (IsOpen(s) => sessions[s].port \in ClientPort)
  BY <1>0 DEF PacketsOK
<1>3. \A a \in net' : a \in net \/ a.type = "RRQ"
  BY <1>0 DEF Rrq
<1>4. PacketsOK'
  <2>1. \A s \in Session :
          /\ IsOpen(s) => IsOpen(s)' /\ sessions[s].block <= sessions'[s].block
          /\ sessions'[s].attempt <= attempt' /\ (IsOpen(s)' => sessions'[s].port \in ClientPort)
    BY <1>0, <1>1, <1>2 DEF IsOpen
  <2>2. \A a \in net' : a \in net \/ PacketOK(a)'
    BY <1>3 DEF PacketOK
  <2> QED
    BY <1>0, <2>1, <2>2, PacketsKept
<1>5. RemoteOK'
  <2>1. \A s \in Session : sessions[s].attempt # n
    BY <1>1, <1>2
  <2> QED
    BY <1>0, <2>1 DEF RemoteOK
<1>6. AttemptOK' /\ FileReceived'
  <2>1. result = "none" /\ FileReceived'
    BY <1>0, NotReturned
  <2>2. n <= n /\ 0 <= TimeoutCountMax
    BY SizeAssumption
  <2> QED
    BY <1>0, <2>1, <2>2 DEF AttemptOK
<1>7. Progress(0)'
  <2>1. Received(0)'
    <3>1. DOMAIN memory' = {}
      BY <1>0
    <3>2. 0 .. 0 - 1 = {}
      OBVIOUS
    <3> QED
      BY <3>1, <3>2 DEF Received
  <2>2. Last' = 0 /\ Num(0) = 0
    BY <1>0, NumFacts DEF Last
  <2>3. \A a \in net' : ~ (a.type = "ACK" /\ a.session = "69")
    <3>1. \A a \in net : a.type = "ACK" => a.session \in Session
      BY <1>0, Fields DEF TypeOK
    <3> QED
      BY <1>3, <3>1, SessionAssumption
  <2>4. 0 <= 0 + Window' /\ 0 < SequenceSize /\ netState' # "SUCCESS"
    <3>1. Window' \in Nat
      BY <1>0, SetupFacts, SetupStays DEF TypeOK
    <3>2. PICK w \in Nat : w = Window'
      BY <3>1
    <3>4. 0 <= 0 + w /\ 0 < SequenceSize
      BY SizeAssumption
    <3>3. netState' # "SUCCESS"
      BY <1>0
    <3> QED
      BY <3>2, <3>3, <3>4, Zenon
  <2> QED
    BY <1>0, <2>1, <2>2, <2>3, <2>4 DEF Progress
<1>8. ProgressOK'
  <2>1. 0 \in 0 .. FileBlocks'
    BY <1>0, Numbers, SetupStays
  <2> QED
    BY <1>7, <2>1 DEF ProgressOK
<1> QED
  BY <1>4, <1>5, <1>6, <1>8 DEF IInv

LEMMA LoopStep ==
  ASSUME IInv, TypeOK', Loop
  PROVE  IInv'
<1>0. TypeOK /\ PacketsOK /\ AttemptOK /\ RemoteOK /\ ProgressOK /\ FileReceived
  BY DEF IInv
<1>1. attempt \in Nat /\ tries \in Nat /\ attempt <= tries
  BY <1>0, Numbers DEF AttemptOK
<1>2. CASE netState = "RESTART" /\ Restart(tries)
  <2>1. PICK n \in Nat : n = tries
    BY <1>1
  <2>2. attempt < n
    BY <1>0, <1>2, <2>1 DEF AttemptOK
  <2> QED
    BY <1>2, <2>1, <2>2, RestartStep
<1>3. CASE netState = "FAIL" /\ tries < RetryCnt /\ Restart(tries + 1)
  <2>1. PICK n \in Nat : n = tries + 1
    BY <1>1
  <2>2. attempt < n
    BY <1>1, <2>1
  <2> QED
    BY <1>3, <2>1, <2>2, RestartStep
<1>4. CASE /\ netState = "SUCCESS" \/ (netState = "FAIL" /\ tries >= RetryCnt)
           /\ result' = netState
           /\ netState' = "returned"
           /\ UNCHANGED <<setup, client, tries, why, net, server>>
  <2>1. UNCHANGED <<setup, state, remotePort, attempt, stray, curBlock, prevBlock, wrapOffset, timeouts,
                    timer, memory, tries, why, net, sessions>>
    BY <1>4 DEF client, server
  <2>2. PacketsOK'
    BY <1>0, <2>1, PacketsStay
  <2>3. RemoteOK' /\ ProgressOK'
    BY <1>0, <1>4, <2>1, ClientUntouched DEF IsOpen
  <2>4. AttemptOK'
    BY <1>0, <1>4, <2>1 DEF AttemptOK
  <2>5. FileReceived'
    <3>1. FileBlocks' = FileBlocks /\ memory' = memory
      BY <2>1, SetupStays
    <3>2. CASE netState = "SUCCESS" /\ why = "none" /\ ~ stray
      <4>1. PICK k \in 0 .. FileBlocks : Progress(k)
        BY <1>0, <3>2 DEF ProgressOK
      <4>2. Received(FileBlocks)
        BY <3>2, <4>1 DEF Progress
      <4> QED
        BY <3>1, <4>2 DEF FileReceived, FileInMemory, Received
    <3>3. CASE ~ (netState = "SUCCESS" /\ why = "none" /\ ~ stray)
      BY <1>4, <2>1, <3>3 DEF FileReceived
    <3> QED
      BY <3>2, <3>3
  <2> QED
    BY <2>2, <2>3, <2>4, <2>5 DEF IInv
<1> QED
  BY <1>2, <1>3, <1>4 DEF Loop

-----------------------------------------------------------------------------
(* Theorems *)

LEMMA InitIInv == Init => IInv
<1> SUFFICES ASSUME Init PROVE IInv
  OBVIOUS
<1>0. /\ setup \in Setups
      /\ netState = "CONTINUE" /\ tries = 1 /\ result = "none" /\ why = "none"
      /\ state = "SEND_RRQ" /\ remotePort = "69" /\ ourPort \in ClientPort
      /\ curBlock = 0 /\ prevBlock = 0 /\ wrapOffset = 0
      /\ timeouts = 0 /\ timer = TRUE /\ memory = << >> /\ net = {Rrq(ourPort)}
      /\ attempt = 1 /\ stray = FALSE
      /\ sessions = [s \in Session |-> Unused] /\ repeats = 0
  BY DEF Init
<1>1. FileBlocks \in Nat \ {0} /\ RetryCnt \in Nat
  BY <1>0, SetupFacts
<1>2. 1 \in Attempt /\ 0 \in 0 .. SequenceSize - 1 /\ 0 \in 0 .. TimeoutCountMax + 1
      /\ 0 \in 0 .. MaxRepeat
  BY <1>1, SizeAssumption DEF Attempt
<1>3. DOMAIN memory = {}
  BY <1>0
<1>4. \A m \in net : m.type = "RRQ" /\ m \in Message
  BY <1>0, <1>2, Packets DEF Rrq
<1>5. \A s \in Session : sessions[s] = Unused
  BY <1>0
<1>6. TypeOK
  <2>1. sessions \in [Session -> SessionState]
    BY <1>0 DEF Unused, SessionState
  <2>2. net \subseteq Message
    BY <1>4
  <2> QED
    BY <1>0, <1>2, <1>3, <2>1, <2>2 DEF TypeOK, Port
<1>7. PacketsOK
  BY <1>0, <1>4, <1>5 DEF PacketsOK, PacketOK, IsOpen, Unused
<1>8. AttemptOK /\ FileReceived
  BY <1>0, SizeAssumption DEF AttemptOK, FileReceived
<1>9. RemoteOK
  BY <1>0, <1>4, <1>5 DEF RemoteOK, Unused
<1>10. Progress(0)
  <2>1. Received(0)
    <3>1. 0 .. 0 - 1 = {}
      OBVIOUS
    <3> QED
      BY <1>3, <3>1 DEF Received
  <2>2. Last = 0 /\ Num(0) = 0 /\ 0 <= 0
    BY <1>0, NumFacts DEF Last
  <2>3. ~ \E m \in net : m.type = "ACK"
    BY <1>4
  <2>4. 0 <= 0 + Window /\ 0 < SequenceSize
    BY <1>0, SetupFacts, SizeAssumption
  <2> QED
    BY <1>0, <2>1, <2>2, <2>3, <2>4 DEF Progress
<1>11. ProgressOK
  BY <1>1, <1>10 DEF ProgressOK
<1> QED
  BY <1>6, <1>7, <1>8, <1>9, <1>11 DEF IInv

LEMMA NextIInv ==
  ASSUME WrapsInTime, IInv, [Next]_vars
  PROVE  IInv'
<1>1. CASE Server
  BY <1>1, ServerStep
<1>2. CASE Client
  <2>1. TypeOK'
    BY <1>2, ClientType DEF IInv
  <2> QED
    BY <1>2, <2>1, ReceiveOackStep, FirstIsNotOneStep, SameAgainStep, ReceiveDataStep,
       ReceiveErrorStep, TimeoutStep, LoopStep DEF Client
<1>3. CASE UNCHANGED vars
  <2>1. /\ UNCHANGED <<setup, netState, tries, result, why, net, sessions, repeats>>
        /\ UNCHANGED <<state, remotePort, ourPort, curBlock, prevBlock, wrapOffset, timeouts, timer, memory>>
        /\ UNCHANGED <<attempt, stray>>
    BY <1>3 DEF vars, client, loop, server
  <2>2. TypeOK /\ PacketsOK /\ AttemptOK /\ RemoteOK /\ ProgressOK /\ FileReceived
    BY DEF IInv
  <2>3. TypeOK'
    <3>1. Block' = Block /\ Attempt' = Attempt /\ Message' = Message /\ SessionState' = SessionState
      BY <2>1, SetupStays
    <3> QED
      BY <2>1, <2>2, <3>1 DEF TypeOK, Port
  <2>4. PacketsOK'
    BY <2>1, <2>2, <2>3, PacketsStay
  <2>5. RemoteOK' /\ ProgressOK'
    BY <2>1, <2>2, ClientUntouched DEF IsOpen
  <2>6. AttemptOK'
    BY <2>1, <2>2 DEF AttemptOK
  <2>7. FileReceived'
    BY <2>1, <2>2, SetupStays DEF FileReceived, FileInMemory
  <2> QED
    BY <2>3, <2>4, <2>5, <2>6, <2>7 DEF IInv
<1> QED
  BY <1>1, <1>2, <1>3 DEF Next

(* What the client has stored, the session it talks to, and the packets on *)
(* their way agree in every behaviour of tftp_handler,                     *)
(* tftp_timeout_handler and net_loop, for every file, server, network and  *)
(* number of attempts, until the client takes a stray packet or gives the  *)
(* attempt up.  Where block numbers wrap packets may be late by less than  *)
(* half of the numbers.                                                    *)
THEOREM InductiveInvariant ==
  ASSUME WrapsInTime
  PROVE  Spec => []IInv
<1>1. Init => IInv
  BY InitIInv
<1>2. IInv /\ [Next]_vars => IInv'
  BY NextIInv
<1> QED
  BY <1>1, <1>2, PTL DEF Spec

(* When net_loop() returns success and no packet was stray, tftp_handler   *)
(* has stored every block of the file at its place, and nothing after it:  *)
(* lost and repeated packets, late ones that do not cross a wrap of        *)
(* tftp_cur_block, repeated requests and wraps do no harm.                 *)
THEOREM FileIsReceived ==
  ASSUME WrapsInTime
  PROVE  Spec => []FileReceived
<1>1. IInv => FileReceived
  BY DEF IInv
<1> QED
  BY <1>1, InductiveInvariant, PTL

(* The server goes on to the next block only when store_block() has stored *)
(* the last one, as long as no packet was stray, and of the sessions that  *)
(* repeated requests open only the one at tftp_remote_port goes on at all. *)
THEOREM ServerIsNotAhead ==
  ASSUME WrapsInTime
  PROVE  Spec => []ServerNotAhead
<1>1. IInv => ServerNotAhead
  <2> SUFFICES ASSUME IInv PROVE ServerNotAhead
    OBVIOUS
  <2>0. TypeOK /\ RemoteOK /\ ProgressOK
    BY DEF IInv
  <2>1. ASSUME NEW s \in Session, sessions[s].attempt = attempt
        PROVE  /\ why = "none" /\ ~ stray =>
                    \A b \in 1 .. sessions[s].block - 1 :
                      b - 1 \in DOMAIN memory /\ memory[b - 1] = b
               /\ sessions[s].block > 1 => remotePort = s
    <3>0. sessions[s].block \in Nat
      BY <2>0, Numbers
    <3>1. CASE s = remotePort
      <4> SUFFICES ASSUME why = "none", ~ stray, NEW b \in 1 .. sessions[s].block - 1
                   PROVE  b - 1 \in DOMAIN memory /\ memory[b - 1] = b
        BY <3>1
      <4>1. PICK k \in 0 .. FileBlocks : Progress(k)
        BY <2>0 DEF ProgressOK
      <4>2. state # "SEND_RRQ"
        BY <2>0, <3>1, SessionAssumption DEF RemoteOK
      <4>3. sessions[s].block <= k + 1 /\ Received(k) /\ k \in Nat
        BY <2>0, <3>1, <4>1, <4>2, Numbers DEF Progress
      <4>4. b - 1 \in 0 .. k - 1 /\ b = (b - 1) + 1
        BY <3>0, <4>3
      <4> QED
        BY <4>3, <4>4 DEF Received
    <3>2. CASE s # remotePort
      <4>1. sessions[s].block <= 1
        BY <2>0, <2>1, <3>2 DEF RemoteOK
      <4> QED
        BY <3>0, <4>1
    <3> QED
      BY <3>1, <3>2
  <2> QED
    BY <2>0, <2>1 DEF ServerNotAhead
<1> QED
  BY <1>1, InductiveInvariant, PTL
=============================================================================
