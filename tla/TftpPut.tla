------------------------------ MODULE TftpPut -------------------------------
(***************************************************************************)
(* U-Boot sends a file with TFTP (net/tftp.c, CONFIG_CMD_TFTPPUT), with    *)
(* netretry not set.  The network is the one of Tftp.  The file is its     *)
(* blocks 1..FileBlocks, of which the last one is short.                   *)
(***************************************************************************)
EXTENDS Integers, Sequences, FiniteSets

CONSTANTS
  FileBlocks,           \* length of the file
  SequenceSize,         \* TFTP_SEQUENCE_SIZE
  Options,              \* whether the server answers options with an OACK
  TimeoutCountMax,      \* tftp_timeout_count_max
  MaxRepeat,            \* bound: packets that the network or the server repeats
  Window                \* bound: blocks by which a packet may be late

ASSUME SizeAssumption ==
  /\ FileBlocks \in Nat \ {0} /\ SequenceSize \in Nat \ {0, 1}
  /\ TimeoutCountMax \in Nat /\ MaxRepeat \in Nat /\ Window \in Nat
ASSUME OptionAssumption == Options \in BOOLEAN

VARIABLES
  netState,     \* net_state, and "returned" when net_loop() is left
  putResult,    \* what net_loop() returned
  state,        \* tftp_state: "SEND_WRQ" or "DATA"
  curBlock,     \* tftp_cur_block
  finalSent,    \* tftp_put_final_block_sent
  timeouts,     \* timeout_count
  sends,        \* history: DATA packets sent
  packets,      \* packets on their way
  open,         \* whether the server has taken the request
  received,     \* the blocks that the server has stored
  repeats       \* packets repeated so far

client == <<netState, putResult, state, curBlock, finalSent, timeouts, sends>>
putVars == <<client, packets, open, received, repeats>>

Block == 1 .. FileBlocks
Num == 0 .. SequenceSize - 1

(* "content" is the block of the file a DATA packet carries, and 0 what is *)
(* not of the file.  "at" is how many blocks the server had then.          *)
Wrq == [type |-> "WRQ", at |-> 0]
Data(num, content) ==
  [type |-> "DATA", num |-> num, content |-> content, at |-> Len(received)]
Oack == [type |-> "OACK", at |-> 0]
Ack(num, at) == [type |-> "ACK", num |-> num, at |-> at]
Unreachable == [type |-> "ICMP", at |-> FileBlocks]

Complete == Len(received) > 0 /\ received[Len(received)] = FileBlocks

PutTypeOK ==
  /\ netState \in {"CONTINUE", "SUCCESS", "FAIL", "returned"}
  /\ putResult \in {"none", "SUCCESS", "FAIL"}
  /\ state \in {"SEND_WRQ", "DATA"}
  /\ curBlock \in Num
  /\ finalSent \in BOOLEAN
  /\ timeouts \in 0 .. TimeoutCountMax + 1
  /\ sends \in Nat
  /\ open \in BOOLEAN
  /\ received \in Seq(Block \cup {0})
  /\ repeats \in 0 .. MaxRepeat

-----------------------------------------------------------------------------
(* The network and the server, as RFC 1350 and RFC 2347 describe it *)

PacketArrives(m, answer) ==
  /\ m \in packets /\ Len(received) <= m.at + Window
  /\ \/ packets' = (packets \ {m}) \cup answer /\ UNCHANGED repeats
     \/ repeats < MaxRepeat /\ packets' = packets \cup answer /\ repeats' = repeats + 1

ServerAnswer(n) == IF n = 0 /\ Options THEN Oack ELSE Ack(n % SequenceSize, n)

ServeWrq(m) ==
  /\ m.type = "WRQ" /\ ~ open
  /\ open' = TRUE
  /\ PacketArrives(m, {ServerAnswer(0)})
  /\ UNCHANGED <<client, received>>

(* The block that is expected is stored.  The last one again is answered,  *)
(* or, when the server is done and gone, cannot be delivered.              *)
ServeData(m) ==
  /\ m.type = "DATA" /\ open
  /\ LET n == Len(received)
     IN  \/ /\ m.num = (n + 1) % SequenceSize /\ ~ Complete
            /\ received' = Append(received, m.content)
            /\ PacketArrives(m, {ServerAnswer(n + 1)})
         \/ /\ n > 0 /\ m.num = n % SequenceSize
            /\ \/ PacketArrives(m, {ServerAnswer(n)})
               \/ Complete /\ PacketArrives(m, {Unreachable})
            /\ UNCHANGED received
  /\ UNCHANGED <<client, open>>

(* The server's timeout.                                                   *)
Retransmit ==
  /\ open /\ ~ Complete
  /\ repeats < MaxRepeat
  /\ repeats' = repeats + 1
  /\ packets' = packets \cup {ServerAnswer(Len(received))}
  /\ UNCHANGED <<client, open, received>>

-----------------------------------------------------------------------------
(* The client *)

(* load_block.  tftp_prev_block stays 0 in a put, so that    *)
(* update_block_number() never counts a wrap: the offset of a block is     *)
(* that of its number.                                                     *)
Content(num) == IF num \in Block THEN num ELSE 0

(* tftp_send: the request, or block num of the file.                       *)
Packet(num) == IF state' = "SEND_WRQ" THEN Wrq ELSE Data(num, Content(num))

Send(num) ==
  IF state' = "SEND_WRQ" THEN UNCHANGED <<finalSent, sends>>
  ELSE finalSent' = (num = FileBlocks) /\ sends' = sends + 1

ForClient(m, type) == netState \in {"CONTINUE", "SUCCESS"} /\ m.type = type

(* tftp_handler: TFTP_OACK.  "Get ready to send the first block".          *)
ReceiveOack(m) ==
  /\ ForClient(m, "OACK")
  /\ state' = "DATA"
  /\ curBlock' = (curBlock + 1) % SequenceSize
  /\ Send(curBlock')
  /\ PacketArrives(m, {Packet(curBlock')})
  /\ UNCHANGED <<netState, putResult, timeouts, open, received>>

(* Faulty variant: sends the next block for every acknowledgement.         *)
ReceiveAckAny(m) ==
  /\ ForClient(m, "ACK") /\ ~ finalSent
  /\ curBlock' = (m.num + 1) % SequenceSize
  /\ UNCHANGED <<netState, putResult, state, timeouts, open, received>>
  /\ Send(curBlock')
  /\ PacketArrives(m, {Packet(curBlock')})

(* tftp_handler: TFTP_ACK.                                                 *)
ReceiveAck(m) ==
  /\ ForClient(m, "ACK") /\ ~ finalSent
  /\ curBlock' = (m.num + 1) % SequenceSize
  /\ UNCHANGED <<netState, putResult, state, timeouts, open, received>>
  /\ IF m.num = curBlock
     THEN Send(curBlock') /\ PacketArrives(m, {Packet(curBlock')})
     ELSE PacketArrives(m, {}) /\ UNCHANGED <<finalSent, sends>>

(* The same once the last block is sent: tftp_complete.                    *)
ReceiveLastAck(m) ==
  /\ ForClient(m, "ACK") /\ finalSent
  /\ netState' = "SUCCESS"
  /\ PacketArrives(m, {})
  /\ UNCHANGED <<putResult, state, curBlock, finalSent, timeouts, sends, open, received>>

(* icmp_handler: "TFTP server died".                                       *)
ReceiveIcmp(m) ==
  /\ ForClient(m, "ICMP")
  /\ netState' = "FAIL"
  /\ PacketArrives(m, {})
  /\ UNCHANGED <<putResult, state, curBlock, finalSent, timeouts, sends, open, received>>

(* tftp_timeout_handler.  Nothing but a start and a timeout sets the timer *)
(* in a put, so that a timeout says nothing about what was received.       *)
PutTimeout ==
  /\ netState \in {"CONTINUE", "SUCCESS"}
  /\ timeouts <= TimeoutCountMax
  /\ timeouts' = timeouts + 1
  /\ UNCHANGED <<putResult, state, curBlock, open, received, repeats>>
  /\ \/ /\ timeouts' > TimeoutCountMax
        /\ netState' = "FAIL"
        /\ UNCHANGED <<finalSent, sends, packets>>
     \/ /\ timeouts' <= TimeoutCountMax
        /\ Send(curBlock)
        /\ packets' = packets \cup {Packet(curBlock)}
        /\ UNCHANGED netState

Loop ==
  /\ netState \in {"SUCCESS", "FAIL"}
  /\ putResult' = netState
  /\ netState' = "returned"
  /\ UNCHANGED <<state, curBlock, finalSent, timeouts, sends, packets, open, received, repeats>>

PutInit ==
  /\ netState = "CONTINUE" /\ putResult = "none"
  /\ state = "SEND_WRQ" /\ curBlock = 0 /\ finalSent = FALSE /\ timeouts = 0
  /\ sends = 0
  /\ packets = {Wrq} /\ open = FALSE /\ received = << >> /\ repeats = 0

PutNext ==
  \/ \E m \in packets :
       \/ ServeWrq(m) \/ ServeData(m)
       \/ ReceiveOack(m) \/ ReceiveAck(m) \/ ReceiveLastAck(m) \/ ReceiveIcmp(m)
  \/ Retransmit \/ PutTimeout \/ Loop

PutSpec == PutInit /\ [][PutNext]_putVars

-----------------------------------------------------------------------------
(* Correctness *)

(* An acknowledgement that arrives twice does not make the client send     *)
(* every later block twice: a timeout or a packet that is repeated costs   *)
(* three DATA packets at most.  For a file of FewBlocks blocks.            *)
SendsBounded == PutTypeOK /\ sends <= FileBlocks + 3 * (timeouts + repeats)

-----------------------------------------------------------------------------
(* The inductive invariant *)

(* No number of a block that is sent wraps, not even of those beyond the   *)
(* file that an OACK that is repeated makes the client send.               *)
FewBlocks == FileBlocks + 1 + MaxRepeat < SequenceSize

(* A DATA packet carries the block that has its number.                    *)
PacketOK(m) ==
  /\ m.type \in {"DATA", "ACK"} => m.num \in Num
  /\ m.type = "DATA" => m.content = Content(m.num)
  /\ m.type = "OACK" => m = Oack

(* What the server has stored is the beginning of the file.  A file whose  *)
(* numbers wrap breaks it: tftp_handler lets "our block count" wrap "just  *)
(* like the other end", and load_block then reads what is not of the file, *)
(* and the file's beginning again.                                         *)
ReceivedIsPrefix == \A i \in DOMAIN received : received[i] = i

PutInv ==
  /\ PutTypeOK /\ ReceivedIsPrefix /\ Len(received) <= FileBlocks
  /\ \A m \in packets : PacketOK(m)

(* The packets that can still make somebody send: a DATA packet is of no   *)
(* use once the server has the block after it, and beyond the file.        *)
Useful(m) == m.type = "DATA" => m.num \in Len(received) .. FileBlocks
UsefulPackets == {m \in packets : Useful(m)}

(* How many blocks one useful packet can make the client send before the   *)
(* server, which has n blocks, stores another.                             *)
ArmedAt(n, cur, final) ==
  LET behind == IF n + 1 - cur > 2 THEN 2 ELSE n + 1 - cur
      least == IF n = FileBlocks THEN 1 ELSE 0
      past == IF cur = FileBlocks /\ ~ final THEN 1 ELSE 0
  IN  past + (IF behind > least THEN behind ELSE least)

(* Whether an OACK that is on its way was received before.                 *)
OackAgain == IF Oack \in packets /\ state = "DATA" THEN 1 ELSE 0

(* What may still be sent without a timeout or a packet repeated: a block  *)
(* for each that is not stored, and two for each useful packet but one,    *)
(* which an acknowledgement out of order uses up.                          *)
Allowance(n, tokens, armed, again) ==
  LET left == FileBlocks - n IN
  IF tokens > 0 THEN left + armed - 1 + 2 * (tokens - 1) + again
  ELSE IF left = 0 THEN 0 ELSE left - 1

Potential ==
  LET n == Len(received)
  IN  Allowance(n, Cardinality(UsefulPackets), ArmedAt(n, curBlock, finalSent), OackAgain)

RequestOK ==
  /\ state = "SEND_WRQ" =>
       /\ sends = 0 /\ ~ finalSent /\ \A m \in packets : m.type # "DATA"
       /\ received = << >> /\ (Options => curBlock = 0)
  /\ state = "DATA" => Options /\ open
  /\ Oack \in packets => Options /\ open

NumbersOK ==
  /\ \A m \in packets : m.type = "ACK" => m.num <= Len(received) /\ (Options => m.num >= 1)
  /\ finalSent => curBlock = FileBlocks
  /\ OackAgain <= repeats /\ curBlock + OackAgain <= FileBlocks + 1 + repeats

SendsInv ==
  /\ PutInv /\ IsFiniteSet(packets) /\ RequestOK /\ NumbersOK
  /\ Options => sends + Potential <= FileBlocks + 3 * (timeouts + repeats)
=============================================================================
