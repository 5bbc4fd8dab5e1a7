------------------------------- MODULE NetLoop ------------------------------
(***************************************************************************)
(* The network loop of U-Boot (net/net.c) with its retries, the choice of  *)
(* the interface (net/eth_common.c, net/eth-uclass.c), ARP (net/arp.c) and *)
(* two operations that run on it: PING (net/ping.c), which waits for ARP   *)
(* before its request goes out, and RARP (net/rarp.c, autoload=no), which  *)
(* broadcasts.                                                             *)
(*                                                                         *)
(* A pass of the loop is four steps, in the order of the code: the ARP     *)
(* timeout, the packets received, the timeout handler, a look at net_state.*)
(***************************************************************************)
EXTENDS Naturals, FiniteSets

CONSTANTS
  Interfaces,           \* number of interfaces
  Reach,                \* those from which the other host can be reached
  Forever,              \* netretry=yes
  Settings,             \* how the user may have set up U-Boot, see below
  ArpTimeoutCount,      \* ARP_TIMEOUT_COUNT
  TimeoutCount          \* TIMEOUT_COUNT of rarp.c

Interface == 1 .. Interfaces

ASSUME InterfaceAssumption ==
  /\ Interfaces \in Nat \ {0}
  /\ Reach \subseteq Interface
ASSUME CountAssumption ==
  ArpTimeoutCount \in Nat \ {0, 1} /\ TimeoutCount \in Nat \ {0} /\ Forever \notin Nat

(* The commands that are used, the environment variables netretry, 0 for   *)
(* "no" and 1 for "once", and ethrotate, and the interfaces that           *)
(* eth_init() can start.                                                   *)
ASSUME SettingsAssumption ==
  \A s \in Settings :
    /\ s.commands \subseteq {"PING", "RARP"}
    /\ s.up \subseteq Interface /\ Reach \subseteq s.up /\ s.up # {}
    /\ s.netretry \in Nat \cup {Forever} /\ s.ethrotate \in BOOLEAN

VARIABLES
  settings,     \* one of Settings, for good
  at,           \* the step of net_loop(), or "prompt"
  operation,    \* its argument
  result,       \* the sign of what the last net_loop() returned
  loop,         \* the globals that net_start_again() changes, see LoopState
  restarted,    \* net_restarted
  rarpTry,      \* rarp_try
  arpWait,      \* whether net_arp_wait_packet_ip is set
  arpTry,       \* arp_wait_try
  fresh,        \* whether time_start was set in this pass
  netIp,        \* whether net_ip is set
  net,          \* replies on their way, with the interface they arrive at
  answered,     \* history: whether this net_loop() got the reply it is for
  tried         \* history: the interfaces that it has sent on

arp == <<arpWait, arpTry>>
loopVars == <<settings, at, operation, result, loop, restarted, rarpTry, arp, fresh, netIp, net, answered, tried>>

RetryForever == settings.netretry = Forever
RetryCnt == IF RetryForever THEN 0 ELSE settings.netretry
Rotate == settings.ethrotate
Up == settings.up

LoopState == [
  state : {"CONTINUE", "RESTART", "SUCCESS", "FAIL"},           \* net_state
  tries : {1} \cup 1 .. RetryCnt,                              \* net_try_count
  handler : {"none", "PING", "RARP", "again"},                  \* time_handler
  current : Interface,                                          \* the current interface
  firstFailed : Interface \cup {0},                             \* of eth_try_another
  wrap : BOOLEAN ]                                              \* net_restart_wrap

LoopTypeOK ==
  /\ at \in {"prompt", "arp", "rx", "timer", "check"}
  /\ operation \in settings.commands \cup {"none"}
  /\ result \in {"none", "ok", "error", "aborted"}
  /\ loop \in LoopState
  /\ restarted \in BOOLEAN
  /\ rarpTry \in 0 .. TimeoutCount
  /\ arpWait \in BOOLEAN /\ arpTry \in 0 .. ArpTimeoutCount - 1
  /\ fresh \in BOOLEAN
  /\ netIp \in BOOLEAN
  /\ net \subseteq {"arp", "echo", "rarp"} \X Interface
  /\ answered \in BOOLEAN
  /\ tried \subseteq Interface

-----------------------------------------------------------------------------
(* The interface *)

(* Faulty variant: stays where it is.                                      *)
AfterSame(i) == i

(* eth_set_current_to_next.                                                *)
After(i) == IF i = Interfaces THEN 1 ELSE i + 1

(* The interfaces met on the way from i, without it, to j.                 *)
Way(i, j) == {k \in Interface : IF i < j THEN i < k /\ k <= j ELSE k > i \/ k <= j}

(* eth_init: starts the interface, or with rotation the next one that can  *)
(* be started.  eth_try_another, by which it gets there, notices that it   *)
(* is back at the interface that failed first.                             *)
EthInit(l) ==
  IF ~ Rotate \/ l.current \in Up THEN l
  ELSE LET j == CHOOSE j \in Up : Way(l.current, j) \cap Up = {j}
       IN  [l EXCEPT !.current = j,
                     !.wrap = @ \/ l.firstFailed \in Way(l.current, j)]

(* eth_try_another(first).                                                 *)
EthTryAnother(l, first) ==
  IF ~ Rotate THEN l
  ELSE LET failed == IF first THEN l.current ELSE l.firstFailed
       IN  [l EXCEPT !.firstFailed = failed,
                     !.current = After(l.current),
                     !.wrap = @ \/ After(l.current) = failed]

-----------------------------------------------------------------------------
(* net_start_again *)

(* Faulty variant: one retry more.                                         *)
GivesUpLate(l) == ~ RetryForever /\ l.tries > RetryCnt

GivesUp(l) == ~ RetryForever /\ l.tries >= RetryCnt

(* It fails; or goes on at the next interface, at once or, when every      *)
(* interface has failed, after ten seconds.  In the last case it leaves    *)
(* net_state as it is.                                                     *)
NetStartAgain(l) ==
  IF GivesUp(l) THEN [l EXCEPT !.state = "FAIL"]
  ELSE LET counted == [l EXCEPT !.tries = IF RetryForever THEN @ ELSE @ + 1]
           next == EthInit(EthTryAnother(counted, ~ restarted))
       IN  IF next.wrap THEN [next EXCEPT !.wrap = FALSE, !.handler = "again"]
           ELSE [next EXCEPT !.state = "RESTART"]

-----------------------------------------------------------------------------
(* net_loop *)

(* What the other host answers, if it can be reached.                      *)
Answer(reply, i) == IF i \in Reach THEN {<<reply, i>>} ELSE {}

(* From "restart" to the loop: ping_start or rarp_request.                 *)
StartPing(l) ==
  /\ loop' = [l EXCEPT !.state = "CONTINUE", !.handler = "PING"]
  /\ arpWait' = TRUE /\ arpTry' = 1
  /\ net' = net \cup Answer("arp", l.current)
  /\ UNCHANGED <<rarpTry, netIp>>

StartRarp(l) ==
  /\ loop' = [l EXCEPT !.state = "CONTINUE", !.handler = "RARP"]
  /\ rarpTry' = 1
  /\ netIp' = FALSE
  /\ net' = net \cup Answer("rarp", l.current)
  /\ UNCHANGED arp

Start(o, l) ==
  /\ at' = "arp"
  /\ fresh' = FALSE
  /\ o = "PING" => StartPing(l)
  /\ o = "RARP" => StartRarp(l)

(* The command: the user may have chosen another interface (ethact).       *)
NetLoop(o, i) ==
  LET entered == EthInit([loop EXCEPT !.tries = 1, !.current = i])
  IN  /\ at = "prompt"
      /\ UNCHANGED settings
      /\ operation' = o
      /\ restarted' = FALSE
      /\ answered' = FALSE
      /\ IF (~ Rotate /\ i \notin Up) \/ (o = "PING" /\ ~ netIp)    \* net_check_prereq
         THEN /\ result' = "error" /\ tried' = {}
              /\ loop' = entered
              /\ UNCHANGED <<at, rarpTry, arp, fresh, netIp, net>>
         ELSE /\ result' = "none" /\ tried' = {entered.current}
              /\ Start(o, entered)

(* arp_timeout_check, and the timer that it sets back.                     *)
ArpTimeoutCheck ==
  /\ at = "arp" /\ at' = "rx"
  /\ fresh' = arpWait
  /\ \/ UNCHANGED <<arpTry, loop, net>>
     \/ /\ arpWait
        /\ IF arpTry + 1 >= ArpTimeoutCount
           THEN arpTry' = 0 /\ loop' = [loop EXCEPT !.state = "FAIL"] /\ UNCHANGED net
           ELSE /\ arpTry' = arpTry + 1
                /\ net' = net \cup (IF netIp THEN Answer("arp", loop.current) ELSE {})
                /\ UNCHANGED loop
  /\ UNCHANGED <<settings, operation, result, restarted, rarpTry, arpWait, netIp, answered, tried>>

(* A reply arrives, for the last time or not.                              *)
Arrives(reply, answer) ==
  /\ at = "rx"
  /\ <<reply, loop.current>> \in net
  /\ net' \in {net \cup answer, (net \ {<<reply, loop.current>>}) \cup answer}
  /\ UNCHANGED <<settings, at, operation, result, restarted, arpTry, fresh, tried>>

(* arp_receive: the packet that waits is sent.                             *)
ArpReceive ==
  /\ netIp /\ arpWait
  /\ arpWait' = FALSE
  /\ Arrives("arp", IF operation = "PING" THEN Answer("echo", loop.current) ELSE {})
  /\ UNCHANGED <<settings, loop, rarpTry, netIp, answered>>

(* ping_receive, whatever the operation.                                   *)
PingReceive ==
  /\ Arrives("echo", {})
  /\ loop' = [loop EXCEPT !.state = "SUCCESS"]
  /\ answered' = (answered \/ operation = "PING")
  /\ UNCHANGED <<settings, rarpTry, arpWait, netIp>>

(* rarp_receive and net_auto_load, whatever the operation.                 *)
RarpReceive ==
  /\ Arrives("rarp", {})
  /\ loop' = [loop EXCEPT !.state = "SUCCESS"]
  /\ netIp' = TRUE
  /\ answered' = (answered \/ operation = "RARP")
  /\ UNCHANGED <<settings, rarpTry, arpWait>>

(* eth_rx has no more packets and ctrl-c is not pressed.                   *)
RxDone ==
  /\ at = "rx" /\ at' = "timer"
  /\ UNCHANGED <<settings, operation, result, loop, restarted, rarpTry, arp, fresh, netIp, net, answered, tried>>

CtrlC ==
  /\ at = "rx" /\ at' = "prompt"
  /\ result' = "aborted"
  /\ arpWait' = FALSE
  /\ loop' = [loop EXCEPT !.handler = "none"]
  /\ UNCHANGED <<settings, operation, restarted, rarpTry, arpTry, fresh, netIp, net, answered, tried>>

Expires == at = "timer" /\ at' = "check" /\ ~ fresh

NoTimeout ==
  /\ at = "timer" /\ at' = "check"
  /\ UNCHANGED <<settings, operation, result, loop, restarted, rarpTry, arp, fresh, netIp, net, answered, tried>>

(* ping_timeout_handler and start_again_timeout_handler.                   *)
PingTimeout ==
  /\ Expires /\ loop.handler = "PING"
  /\ loop' = [loop EXCEPT !.handler = "none", !.state = "FAIL"]
  /\ UNCHANGED <<settings, operation, result, restarted, rarpTry, arp, fresh, netIp, net, answered, tried>>

AgainTimeout ==
  /\ Expires /\ loop.handler = "again"
  /\ loop' = [loop EXCEPT !.handler = "none", !.state = "RESTART"]
  /\ UNCHANGED <<settings, operation, result, restarted, rarpTry, arp, fresh, netIp, net, answered, tried>>

(* Faulty variant: asks for ever.                                          *)
RarpTimeoutForever ==
  /\ Expires /\ loop.handler = "RARP"
  /\ UNCHANGED <<settings, operation, result, loop, restarted, rarpTry, arp, fresh, netIp, net, answered, tried>>

(* rarp_timeout_handler.                                                   *)
RarpTimeout ==
  /\ Expires /\ loop.handler = "RARP"
  /\ IF rarpTry >= TimeoutCount
     THEN /\ loop' = NetStartAgain([loop EXCEPT !.handler = "none"])
          /\ UNCHANGED <<rarpTry, net>>
     ELSE /\ rarpTry' = rarpTry + 1
          /\ net' = net \cup Answer("rarp", loop.current)
          /\ UNCHANGED loop
  /\ UNCHANGED <<settings, operation, result, restarted, arp, fresh, netIp, answered, tried>>

(* The end of a pass.                                                      *)
Checked == IF loop.state = "FAIL" THEN NetStartAgain(loop) ELSE loop

Continue ==
  /\ at = "check" /\ Checked.state = "CONTINUE"
  /\ at' = "arp"
  /\ UNCHANGED <<settings, operation, result, loop, restarted, rarpTry, arp, fresh, netIp, net, answered, tried>>

Restart ==
  /\ at = "check" /\ Checked.state = "RESTART"
  /\ restarted' = TRUE
  /\ tried' = tried \cup {Checked.current}
  /\ Start(operation, Checked)
  /\ UNCHANGED <<settings, operation, result, answered>>

(* The value returned on FAIL is the one of net_start_again: an error only *)
(* when it gave up.                                                        *)
Return ==
  /\ at = "check" /\ Checked.state \in {"SUCCESS", "FAIL"}
  /\ at' = "prompt"
  /\ result' = IF Checked.state = "FAIL" /\ GivesUp(loop) THEN "error" ELSE "ok"
  /\ loop' = [Checked EXCEPT !.handler = "none"]
  /\ UNCHANGED <<settings, operation, restarted, rarpTry, arp, fresh, netIp, net, answered, tried>>

(* setenv ipaddr.                                                          *)
SetIp ==
  /\ at = "prompt" /\ ~ netIp
  /\ netIp' = TRUE
  /\ UNCHANGED <<settings, at, operation, result, loop, restarted, rarpTry, arp, fresh, net, answered, tried>>

LoopInit ==
  /\ settings \in Settings
  /\ at = "prompt" /\ operation = "none" /\ result = "none"
  /\ loop \in {l \in LoopState :
                 /\ l.state = "CONTINUE" /\ l.tries = 1 /\ l.handler = "none"
                 /\ l.firstFailed = 0 /\ ~ l.wrap}
  /\ restarted = FALSE /\ rarpTry = 0
  /\ arpWait = FALSE /\ arpTry = 0 /\ fresh = FALSE
  /\ netIp \in BOOLEAN
  /\ net = {}
  /\ answered = FALSE /\ tried = {}

Receive == ArpReceive \/ PingReceive \/ RarpReceive

Timeout == PingTimeout \/ AgainTimeout \/ RarpTimeout

LoopNext ==
  \/ \E o \in settings.commands, i \in Interface : NetLoop(o, i)
  \/ SetIp
  \/ ArpTimeoutCheck \/ Receive \/ RxDone \/ CtrlC
  \/ NoTimeout \/ Timeout
  \/ Continue \/ Restart \/ Return

LoopSpec == LoopInit /\ [][LoopNext]_loopVars

(* The loop polls for ever, and time passes: an ARP wait and a timeout     *)
(* that stays armed expire.                                                *)
FairSpec ==
  /\ LoopSpec
  /\ WF_loopVars(RxDone) /\ WF_loopVars(NoTimeout) /\ WF_loopVars(Continue \/ Restart \/ Return)
  /\ WF_loopVars(ArpTimeoutCheck) /\ SF_loopVars(ArpTimeoutCheck /\ arpTry' # arpTry)
  /\ SF_loopVars(Timeout)

(* And where the client asks for ever, the network is not so bad that it   *)
(* loses every reply to RARP, or delivers each in the very pass of the     *)
(* loop in which the timeout expires.                                      *)
GoodNetwork ==
  /\ FairSpec
  /\ SF_loopVars(RetryForever /\ RarpReceive)
  /\ SF_loopVars(RetryForever /\ loop.state = "SUCCESS" /\ NoTimeout)

-----------------------------------------------------------------------------
(* Correctness *)

(* ping prints "host is alive" when net_loop(PING) does not fail: then the *)
(* host has answered.  This is not so with netretry=yes, with interfaces   *)
(* that cannot be started, with more retries than interfaces to rotate, or *)
(* with replies to RARP that are late.                                     *)
PingFew ==
  /\ settings.commands = {"PING"} /\ ~ RetryForever /\ Up = Interface
  /\ Rotate => RetryCnt <= Interfaces

AliveIsAnswered == PingFew => (at = "prompt" /\ result = "ok" => answered)

(* An operation that fails has been tried on every interface that works,   *)
(* if netretry allows that many tries: net_start_again() counts interfaces *)
(* and passes over those that eth_init() cannot start.                     *)
RarpMany == settings.commands = {"RARP"} /\ Rotate /\ RetryCnt >= Cardinality(Up)

TriesAll ==
  /\ LoopTypeOK
  /\ RarpMany => (at = "prompt" /\ result = "error" => Up \subseteq tried)

(* Unless it is to try for ever, the command returns.                      *)
Returns == at # "prompt" /\ ~ RetryForever ~> at = "prompt"

(* With netretry=yes, RARP ends at the interface from which the server can *)
(* be reached, unless the user gives up.                                   *)
FindsServer ==
  at # "prompt" /\ settings.commands = {"RARP"} /\ RetryForever /\ Rotate
    ~> at = "prompt" /\ result \in {"ok", "aborted"}

-----------------------------------------------------------------------------
(* The inductive invariant *)

(* The interface follows the one that failed first as many steps as there  *)
(* were retries, which are too few to come back to it.                     *)
AliveOK ==
  /\ ~ loop.wrap /\ loop.handler \in {"none", "PING"}
  /\ \A i \in Interface : <<"rarp", i>> \notin net
  /\ at # "prompt" =>
       /\ loop.state # "RESTART" /\ (loop.state = "SUCCESS" => answered)
       /\ restarted <=> loop.tries > 1
       /\ Rotate /\ restarted =>
            LET reached == loop.firstFailed + loop.tries - 1
            IN  loop.firstFailed # 0 /\ reached \in {loop.current, loop.current + Interfaces}
  /\ at = "prompt" /\ result = "ok" => answered

(* The interfaces of s that are met from i on, with it, up to j.           *)
Arc(s, i, j) == {k \in s : IF i <= j THEN i <= k /\ k <= j ELSE k >= i \/ k <= j}

(* The loop has gone on to an interface that it has not sent on.           *)
Moved == loop.state = "RESTART" \/ loop.handler = "again"
Visited == tried \cup {loop.current}

(* There is a try for every interface until all that work are visited.     *)
TriesOK ==
  /\ ~ arpWait /\ loop.handler # "PING"
  /\ at # "prompt" =>
       /\ loop.current \in Up /\ (~ Moved => loop.current \in tried)
       /\ \/ Up \subseteq Visited
          \/ /\ \E i \in Up : Visited = Arc(Up, i, loop.current)
             /\ Cardinality(Visited) = loop.tries
       /\ loop.state = "RESTART" => at = "check"
       /\ loop.state = "FAIL" => GivesUp(loop) /\ ~ Moved
  /\ at = "prompt" /\ result = "error" => Up \subseteq tried

LoopInv ==
  /\ LoopTypeOK /\ settings \in Settings
  /\ at # "prompt" => operation \in settings.commands
  /\ PingFew => AliveOK
  /\ RarpMany => TriesOK
=============================================================================
