\* Enough buffers for two answers to be lost, and one restart of the server.
SPECIFICATION Spec
CONSTANTS
  Clients = {c1}
  MaxRequest = 1
  MaxFrame = 3
  MaxChange = 8
CHECK_DEADLOCK FALSE
INVARIANTS StreamsAgain
