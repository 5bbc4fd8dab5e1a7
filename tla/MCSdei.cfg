\* Two PEs, and seven kinds of clients: of the events of the platform and of those that
\* are bound.
CONSTANTS
  N = 2
  Private = {0, 1, 3, 4}
  Shared = {2, 5}
  Dynamic = {3, 4, 5}
  Critical = {2}
  Ppi = {12, 13}
  Spi = {11}
  DynIrq = 99
  Clients <- MCClients
  MaxReg = 2
SPECIFICATION Spec
INVARIANTS RunningIsDispatched RegistrationAgrees NoEventForgotten ActiveIsHandled NoPanic
