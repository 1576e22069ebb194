\* Both experiments of experiments.c, so that a gate in use is changed too.
\* The tick of init_timer(180) is five milliseconds and a half, and the
\* time-out half a millisecond.
CONSTANTS
  Experiments = {0, 1}
  F = 8
  interrupt_millis = 5
  interrupt_millis_fractions = 5
  TIMEOUT_MSF = 4
  TickBound = 4
\* After a panic the machine stands still.
CHECK_DEADLOCK FALSE
SPECIFICATION MachineSpec
INVARIANTS
  DeliveredIsHandled
  HandlersDoNotNest
  IretFindsItsFrame
  DeadlineIsSound
  NoEarlyTimeout
  HandlerSendsInTime
PROPERTIES
  RequestIsServed
  RestartUndisturbed
  WaitEnds
