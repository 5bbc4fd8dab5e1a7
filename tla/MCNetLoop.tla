------------------------------ MODULE MCNetLoop -----------------------------
(* NetLoop for TLC.                                                        *)
EXTENDS NetLoop

Setting(commands, netretry, ethrotate, up) ==
  [commands |-> commands, netretry |-> netretry, ethrotate |-> ethrotate, up |-> up]

MCSettings == {
  Setting({"PING", "RARP"}, 2, TRUE, {1, 4}),
  Setting({"PING", "RARP"}, 2, FALSE, {1, 4}),
  Setting({"PING"}, 4, TRUE, Interface),
  Setting({"RARP"}, 3, TRUE, {1, 2, 4}),
  Setting({"RARP"}, Forever, TRUE, {1, 2, 4}) }
=============================================================================
