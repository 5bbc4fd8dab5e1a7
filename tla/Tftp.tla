-------------------------------- MODULE Tftp --------------------------------
(***************************************************************************)
(* U-Boot loads a file with TFTP (net/tftp.c, on the loop of net/net.c).   *)
(* The network loses, duplicates and reorders packets, and the server may  *)
(* take a repeated request for a second client: it opens a port for each.  *)
(*                                                                         *)
(* The file is its blocks 1..FileBlocks, of which the last one is short.   *)
(* Block numbers in packets are cut to the sequence size, 2^16 in the code.*)
(* In packets and sessions "block" is the block of the file, which only    *)
(* the network and the server know.                                        *)
(***************************************************************************)
EXTENDS Naturals

CONSTANTS
  SequenceSize,         \* TFTP_SEQUENCE_SIZE
  TimeoutCountMax,      \* tftp_timeout_count_max
  Session,              \* ports of the server, each good for one session
  ClientPort,           \* 1024 + get_timer() % 3072
  Setups,               \* files, servers and environments to consider
  MaxRepeat             \* bound: packets that the network or the server repeats

ASSUME SizeAssumption ==
  SequenceSize \in Nat \ {0, 1} /\ TimeoutCountMax \in Nat /\ MaxRepeat \in Nat
ASSUME SetupAssumption ==
  \A x \in Setups :
    /\ x.blocks \in Nat \ {0} /\ x.options \in BOOLEAN /\ x.netretry \in Nat /\ x.window \in Nat
    /\ x.errors \subseteq {"not found", "undefined"}
ASSUME SessionAssumption == "69" \notin Session

VARIABLES
  setup,        \* the one that is considered; never changes
  netState,     \* net_state, and "returned" when net_loop() is left
  tries,        \* net_try_count
  result,       \* what net_loop() returned
  state,        \* tftp_state: "SEND_RRQ", "OACK" or "DATA"
  remotePort,   \* tftp_remote_port
  ourPort,      \* tftp_our_port
  curBlock,     \* tftp_cur_block
  prevBlock,    \* tftp_prev_block
  wrapOffset,   \* tftp_block_wrap_offset, in blocks
  timeouts,     \* timeout_count
  timer,        \* whether time_handler may run before net_loop() looks at net_state
  memory,       \* the block at each offset from load_addr, as far as stored in this attempt
  why,          \* history: why the attempt was given up
  attempt,      \* history: the number of the attempt
  stray,        \* history: whether the client took a packet it should not, see Stray
  net,          \* packets on their way
  sessions,     \* what the server has sent last on each port
  repeats       \* packets repeated so far

client == <<state, remotePort, ourPort, curBlock, prevBlock, wrapOffset, timeouts, timer, memory,
            attempt, stray>>
loop == <<netState, tries, result, why>>
server == <<sessions, repeats>>
vars == <<setup, client, loop, net, server>>

FileBlocks == setup.blocks              \* length of the file
Options == setup.options                \* whether the server answers options with an OACK
Errors == setup.errors                  \* error packets that the server may answer with
RetryCnt == setup.netretry              \* the environment's netretry, as a number
Window == setup.window                  \* bound: blocks by which a packet may be late

Block == 1 .. FileBlocks
Attempt == 1 .. RetryCnt + 1
Port == Session \cup {"69"}             \* WELL_KNOWN_PORT

(* A session of the server: for which port of the client it is, in which   *)
(* attempt it was opened, and the block it has sent last, 0 for the OACK.  *)
Unused == [port |-> 0, attempt |-> 0, block |-> 0]
IsOpen(s) == sessions[s].attempt # 0

Rrq(p) == [type |-> "RRQ", port |-> p]
Ack(s, num, block) == [type |-> "ACK", session |-> s, num |-> num, block |-> block]
Data(s, p, block) == [type |-> "DATA", session |-> s, port |-> p, block |-> block]
Oack(s, p) == [type |-> "OACK", session |-> s, port |-> p, block |-> 0]
Error(s, p, code) == [type |-> "ERROR", session |-> s, port |-> p, block |-> 0, code |-> code]

Num(block) == block % SequenceSize

Message ==
  {Rrq(p) : p \in ClientPort}
  \cup {Ack(s, n, b) : s \in Session, n \in 0 .. SequenceSize - 1, b \in Block \cup {0}}
  \cup {Data(s, p, b) : s \in Session, p \in ClientPort, b \in Block}
  \cup {Oack(s, p) : s \in Session, p \in ClientPort}
  \cup {Error(s, p, e) : s \in Session, p \in ClientPort, e \in Errors}

SessionState ==
  [port : ClientPort \cup {0}, attempt : Attempt \cup {0}, block : Block \cup {0}]

TypeOK ==
  /\ setup \in Setups
  /\ netState \in {"CONTINUE", "RESTART", "SUCCESS", "FAIL", "returned"}
  /\ tries \in Attempt
  /\ result \in {"none", "SUCCESS", "FAIL"}
  /\ state \in {"SEND_RRQ", "OACK", "DATA"}
  /\ remotePort \in Port
  /\ ourPort \in ClientPort
  /\ curBlock \in 0 .. SequenceSize - 1 /\ prevBlock \in 0 .. SequenceSize - 1
  /\ wrapOffset \in Nat
  /\ timeouts \in 0 .. TimeoutCountMax + 1 /\ timer \in BOOLEAN
  /\ DOMAIN memory \subseteq Nat /\ \A o \in DOMAIN memory : memory[o] \in Block
  /\ why \in {"none", "timeouts", "first block", "error"}
  /\ attempt \in Attempt /\ stray \in BOOLEAN
  /\ net \subseteq Message
  /\ sessions \in [Session -> SessionState]
  /\ repeats \in 0 .. MaxRepeat

-----------------------------------------------------------------------------
(* The network *)

(* No packet is late by more than Window blocks.                           *)
InTime(m) == m.type # "RRQ" => sessions[m.session].block <= m.block + Window

(* A packet arrives, for the last time or not, and is answered.  One that  *)
(* never arrives is lost.                                                  *)
Arrives(m, answer) ==
  /\ m \in net /\ InTime(m)
  /\ \/ net' = (net \ {m}) \cup answer /\ UNCHANGED repeats
     \/ repeats < MaxRepeat /\ net' = net \cup answer /\ repeats' = repeats + 1

-----------------------------------------------------------------------------
(* The server, as RFC 1350 and RFC 2347 describe it *)

Sent(s, p, block) == IF block = 0 THEN Oack(s, p) ELSE Data(s, p, block)

(* A request opens a session, or is refused.                               *)
ServeRrq(m, s) ==
  /\ m.type = "RRQ"
  /\ ~ IsOpen(s)
  /\ LET first == IF Options THEN 0 ELSE 1
     IN  \/ /\ sessions' = [sessions EXCEPT ![s] = [port |-> m.port, attempt |-> attempt, block |-> first]]
            /\ Arrives(m, {Sent(s, m.port, first)})
         \/ /\ \E e \in Errors : Arrives(m, {Error(s, m.port, e)})
            /\ UNCHANGED sessions
  /\ UNCHANGED <<setup, client, loop>>

(* The acknowledgement of the last block sent asks for the next one.       *)
ServeAck(m) ==
  /\ m.type = "ACK"
  /\ LET s == m.session
         next == sessions[s].block + 1
     IN  IF m.num = Num(sessions[s].block) /\ next \in Block
         THEN /\ sessions' = [sessions EXCEPT ![s].block = next]
              /\ Arrives(m, {Data(s, sessions[s].port, next)})
         ELSE Arrives(m, {}) /\ UNCHANGED sessions
  /\ UNCHANGED <<setup, client, loop>>

(* The server's timeout.                                                   *)
Retransmit(s) ==
  /\ IsOpen(s)
  /\ repeats < MaxRepeat
  /\ repeats' = repeats + 1
  /\ net' = net \cup {Sent(s, sessions[s].port, sessions[s].block)}
  /\ UNCHANGED <<setup, client, loop, sessions>>

-----------------------------------------------------------------------------
(* The client *)

(* tftp_send for the states in which it acknowledges.                      *)
Acknowledge(s, num) == Ack(s, num, sessions[s].block)

(* net_start_again with ethrotate=no: the interface stays.  NetLoop models *)
(* the rotation.                                                           *)
NetStartAgain(reason) ==
  /\ why' = reason
  /\ IF tries >= RetryCnt
     THEN netState' = "FAIL" /\ UNCHANGED tries
     ELSE netState' = "RESTART" /\ tries' = tries + 1
  /\ UNCHANGED result

(* A packet for the client.  eth_rx() takes up to 32 at a time, so one may *)
(* be handled after the transfer is complete or given up and before        *)
(* net_loop() sees it, but none after the timeout.  Once the client has    *)
(* chosen a port it hears only this one.                                   *)
ForClient(m, type) ==
  /\ netState # "returned" /\ timer
  /\ m.type = type
  /\ m.port = ourPort
  /\ state = "SEND_RRQ" \/ m.session = remotePort

(* What the client cannot tell from a packet that it waits for: one of a   *)
(* session that was opened in an earlier attempt from the same port, and   *)
(* one that is late across a wrap, when the client has already stored a    *)
(* later block and one of the blocks from it to that one has the number 0. *)
Stray(m) ==
  \/ sessions[m.session].attempt # attempt
  \/ \E o \in DOMAIN memory, z \in Block :
       m.block < memory[o] /\ m.block <= z /\ z <= memory[o] /\ Num(z) = 0

(* tftp_handler: TFTP_OACK.                                                *)
ReceiveOack(m) ==
  /\ ForClient(m, "OACK")
  /\ state' = "OACK"
  /\ remotePort' = m.session
  /\ Arrives(m, {Acknowledge(m.session, curBlock)})
  /\ stray' = (stray \/ Stray(m))
  /\ UNCHANGED <<setup, ourPort, curBlock, prevBlock, wrapOffset, timeouts, timer, memory, attempt,
                 loop, sessions>>

(* Faulty variant: does not notice.                                        *)
WrapsNever(num) == FALSE

(* update_block_number: a block number of 0 says that the number wrapped.  *)
Wraps(num) == num = 0 /\ prevBlock # 0

UpdateBlockNumber(num) ==
  /\ curBlock' = num
  /\ timeouts' = IF Wraps(num) THEN 0 ELSE timeouts

(* Faulty variant: stores a block after the last one, whatever its number. *)
OffsetNext(num, offset) == offset + prevBlock

(* store_block: where block num goes, in blocks from load_addr.            *)
Offset(num, offset) == offset + num - 1

Store(offset, block) ==
  memory' = [o \in DOMAIN memory \cup {offset} |-> IF o = offset THEN block ELSE memory[o]]

(* tftp_handler: TFTP_DATA.  "first block received".                       *)
IsFirst == state \in {"SEND_RRQ", "OACK"}

FirstIsNotOne(m) ==
  /\ ForClient(m, "DATA") /\ IsFirst
  /\ Num(m.block) # 1
  /\ UpdateBlockNumber(Num(m.block))
  /\ state' = "DATA"
  /\ remotePort' = m.session
  /\ prevBlock' = 0 /\ wrapOffset' = 0          \* new_transfer
  /\ NetStartAgain("first block")
  /\ Arrives(m, {})
  /\ UNCHANGED <<setup, ourPort, timer, memory, attempt, stray, sessions>>

(* "Same block again; ignore it."                                          *)
SameAgain(m) ==
  /\ ForClient(m, "DATA") /\ ~ IsFirst
  /\ Num(m.block) = prevBlock
  /\ UpdateBlockNumber(Num(m.block))
  /\ Arrives(m, {})
  /\ UNCHANGED <<setup, state, remotePort, ourPort, prevBlock, wrapOffset, timer, memory, attempt,
                 stray, loop, sessions>>

(* The block is stored and acknowledged.  A short one is the last.         *)
ReceiveData(m) ==
  LET num == Num(m.block)
      offset == IF IsFirst THEN 0 ELSE wrapOffset + (IF Wraps(num) THEN SequenceSize ELSE 0)
  IN  /\ ForClient(m, "DATA")
      /\ IF IsFirst THEN num = 1 ELSE num # prevBlock
      /\ UpdateBlockNumber(num)
      /\ state' = "DATA"
      /\ remotePort' = m.session
      /\ prevBlock' = num
      /\ wrapOffset' = offset
      /\ Store(Offset(num, offset), m.block)
      /\ Arrives(m, {Acknowledge(m.session, num)})
      /\ netState' = IF m.block = FileBlocks THEN "SUCCESS" ELSE netState
      /\ stray' = (stray \/ Stray(m))
      /\ UNCHANGED <<setup, ourPort, timer, attempt, tries, result, why, sessions>>

(* tftp_handler: TFTP_ERROR.                                               *)
ReceiveError(m) ==
  /\ ForClient(m, "ERROR")
  /\ \/ /\ m.code = "not found"
        /\ netState' = "FAIL"
        /\ why' = "error"
        /\ UNCHANGED <<tries, result>>
     \/ m.code = "undefined" /\ NetStartAgain("error")
  /\ Arrives(m, {})
  /\ UNCHANGED <<setup, client, sessions>>

(* Faulty variant: does not set the handler again.                         *)
TimeoutOnce ==
  /\ netState \notin {"SUCCESS", "returned"}
  /\ timer
  /\ timer' = FALSE
  /\ timeouts' = timeouts + 1
  /\ net' = net \cup {IF state = "SEND_RRQ" THEN Rrq(ourPort)
                      ELSE Acknowledge(remotePort, curBlock)}
  /\ UNCHANGED <<setup, state, remotePort, ourPort, curBlock, prevBlock, wrapOffset, memory, attempt,
                 stray, server, loop>>

(* tftp_timeout_handler.  net_loop() receives packets, then calls this, and *)
(* then looks at net_state.  A transfer that is complete has just set the  *)
(* timer.                                                                  *)
Timeout ==
  /\ netState \notin {"SUCCESS", "returned"}
  /\ timer
  /\ timeouts' = timeouts + 1
  /\ \/ /\ timeouts' > TimeoutCountMax
        /\ NetStartAgain("timeouts")
        /\ UNCHANGED net
     \/ /\ timeouts' <= TimeoutCountMax
        /\ net' = net \cup {IF state = "SEND_RRQ" THEN Rrq(ourPort)
                            ELSE Acknowledge(remotePort, curBlock)}
        /\ UNCHANGED loop
  /\ timer' = (netState' = "CONTINUE")
  /\ UNCHANGED <<setup, state, remotePort, ourPort, curBlock, prevBlock, wrapOffset, memory, attempt,
                 stray, server>>

(* net_loop() starts the transfer again, with tftp_start.  The port may be *)
(* one that was used before.                                               *)
Restart(n) ==
  /\ netState' = "CONTINUE"
  /\ tries' = n
  /\ why' = "none"
  /\ state' = "SEND_RRQ"
  /\ remotePort' = "69"
  /\ ourPort' \in ClientPort
  /\ curBlock' = 0
  /\ timeouts' = 0
  /\ timer' = TRUE
  /\ memory' = << >>
  /\ attempt' = n /\ stray' = FALSE
  /\ net' = net \cup {Rrq(ourPort')}
  /\ UNCHANGED <<setup, result, prevBlock, wrapOffset, server>>

(* net_loop() looks at net_state, and when that is FAIL tries once more to *)
(* start again.                                                            *)
Loop ==
  \/ netState = "RESTART" /\ Restart(tries)
  \/ netState = "FAIL" /\ tries < RetryCnt /\ Restart(tries + 1)
  \/ /\ netState = "SUCCESS" \/ (netState = "FAIL" /\ tries >= RetryCnt)
     /\ result' = netState
     /\ netState' = "returned"
     /\ UNCHANGED <<setup, client, tries, why, net, server>>

Init ==
  /\ setup \in Setups
  /\ netState = "CONTINUE" /\ tries = 1 /\ result = "none" /\ why = "none"
  /\ state = "SEND_RRQ" /\ remotePort = "69" /\ ourPort \in ClientPort
  /\ curBlock = 0 /\ prevBlock = 0 /\ wrapOffset = 0
  /\ timeouts = 0 /\ timer = TRUE
  /\ memory = << >> /\ attempt = 1 /\ stray = FALSE
  /\ net = {Rrq(ourPort)}
  /\ sessions = [s \in Session |-> Unused] /\ repeats = 0

Server ==
  \/ \E m \in net : ServeAck(m) \/ \E s \in Session : ServeRrq(m, s)
  \/ \E s \in Session : Retransmit(s)

Client ==
  \/ \E m \in net :
       ReceiveOack(m) \/ FirstIsNotOne(m) \/ SameAgain(m) \/ ReceiveData(m) \/ ReceiveError(m)
  \/ Timeout
  \/ Loop

Next == Server \/ Client

Spec == Init /\ [][Next]_vars

(* net_loop() polls the clock and net_state for ever.                      *)
FairSpec == Spec /\ WF_vars(Timeout) /\ WF_vars(Loop)

-----------------------------------------------------------------------------
(* Correctness *)

(* Memory holds the file, every block of it at its place and received in   *)
(* this attempt, and nothing after it.                                     *)
FileInMemory ==
  /\ DOMAIN memory = 0 .. FileBlocks - 1
  /\ \A o \in DOMAIN memory : memory[o] = o + 1

(* When net_loop() returns success, memory holds the file, if the client   *)
(* took no stray packet and none that ends the transfer after it was given *)
(* up.  A stray one spoils it: update_block_number() has it that a number  *)
(* of 0 "means that there was a wrap around", also for a block 0 that is   *)
(* late.                                                                   *)
FileReceived == result = "SUCCESS" /\ why = "none" /\ ~ stray => FileInMemory

(* The server is never ahead of the client by more than the block that it  *)
(* sends: what it takes for acknowledged is in memory, until the attempt   *)
(* is given up or the client takes a stray packet.  The client talks to    *)
(* one session only: the others that a repeated request has opened stay    *)
(* where they began.                                                       *)
ServerNotAhead ==
  /\ TypeOK
  /\ \A s \in Session :
       sessions[s].attempt = attempt =>
         /\ why = "none" /\ ~ stray =>
              \A b \in 1 .. sessions[s].block - 1 : b - 1 \in DOMAIN memory /\ memory[b - 1] = b
         /\ sessions[s].block > 1 => remotePort = s

(* The command returns, whatever is lost.                                  *)
Returns == <>(netState = "returned")

-----------------------------------------------------------------------------
(* The inductive invariant *)

(* In a file whose block numbers wrap no packet is late by half of the     *)
(* numbers.                                                                *)
WrapsInTime == \A x \in Setups : x.blocks < SequenceSize \/ 2 * x.window + 1 < SequenceSize

(* A packet comes from a session that has got so far.                      *)
PacketOK(m) ==
  m.type \in {"DATA", "OACK", "ACK"} => IsOpen(m.session) /\ m.block <= sessions[m.session].block

PacketsOK ==
  /\ \A s \in Session :
       sessions[s].attempt <= attempt /\ (IsOpen(s) => sessions[s].port \in ClientPort)
  /\ \A m \in net : PacketOK(m)

(* The next attempt has a number that was not used before.                 *)
AttemptOK ==
  /\ attempt <= tries
  /\ netState = "RESTART" => attempt < tries
  /\ result # "none" => netState = "returned"
  /\ timer => timeouts <= TimeoutCountMax

(* The client talks to one session.                                        *)
RemoteOK ==
  /\ IF state = "SEND_RRQ"
     THEN remotePort = "69"
     ELSE remotePort \in Session /\ IsOpen(remotePort)
  /\ \A s \in Session \ {remotePort} :
       sessions[s].attempt = attempt =>
         sessions[s].block <= 1 /\ \A m \in net : ~ (m.type = "ACK" /\ m.session = s)

(* The blocks 1..k are in memory, each in its place.                       *)
Received(k) == DOMAIN memory = 0 .. k - 1 /\ \A o \in 0 .. k - 1 : memory[o] = o + 1

(* The block that the client takes for the last one.                       *)
Last == IF state = "DATA" THEN wrapOffset + prevBlock ELSE curBlock

(* An acknowledgement is of a block that the client has, and in a file     *)
(* whose numbers wrap not of one too far behind the server.                *)
AckOK(m, k) ==
  \E j \in 0 .. k : m.num = Num(j) /\ (FileBlocks < SequenceSize \/ m.block <= j + Window + 1)

(* With k blocks received the server is at this block or the next one, and *)
(* the client has counted the wraps up to k.                               *)
Progress(k) ==
  /\ Received(k)
  /\ netState = "SUCCESS" => k = FileBlocks
  /\ Last <= k /\ curBlock = Num(Last) /\ (state = "DATA" => prevBlock = curBlock)
  /\ IF state = "SEND_RRQ"
     THEN k = 0
     ELSE LET session == sessions[remotePort]
          IN  session.attempt = attempt /\ k <= session.block /\ session.block <= k + 1
  /\ FileBlocks < SequenceSize \/ k <= Last + Window
  /\ IF state = "DATA" THEN wrapOffset + Num(k) = k ELSE k < SequenceSize
  /\ \A m \in net : m.type = "ACK" /\ m.session = remotePort => AckOK(m, k)

ProgressOK == why = "none" /\ ~ stray => \E k \in 0 .. FileBlocks : Progress(k)

(* The strengthening of FileReceived and ServerNotAhead that every step    *)
(* preserves.                                                              *)
IInv ==
  /\ TypeOK
  /\ PacketsOK
  /\ AttemptOK
  /\ RemoteOK
  /\ ProgressOK
  /\ FileReceived
=============================================================================
