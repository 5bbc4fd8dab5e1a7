\* Four interfaces, of which the last leads to the other host, and five ways to set U-Boot up.
CONSTANTS
  Interfaces = 4
  Reach = {4}
  Forever = Forever
  Settings <- MCSettings
  ArpTimeoutCount = 3
  TimeoutCount = 2
SPECIFICATION GoodNetwork
INVARIANTS AliveIsAnswered TriesAll
PROPERTIES Returns FindsServer
