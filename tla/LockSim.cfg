\* A session and a command of the UART service.
CONSTANTS
  Callers = {session, command}
SPECIFICATION SimSpec
INVARIANTS
  MovementEnds
  CallbackHearsLast
PROPERTIES
  AutoRelocks
