\* One client, whose second request is already one too many, over a server that
\* goes through its state changes once in full and half way again.
SPECIFICATION Spec
CONSTANTS
  Clients = {c1}
  MaxRequest = 1
  MaxFrame = 5
  MaxChange = 12
CHECK_DEADLOCK FALSE
INVARIANTS  ServerReady
PROPERTIES AnswersInOrder
