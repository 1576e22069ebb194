SPECIFICATION BootSpec
CONSTANTS
  PID_MAX = 16
  ProcessSize = 98
  NodeSize = 108
INVARIANT NodesFitReservation
