SPECIFICATION QueueSpec
CONSTANTS
  Producers = {p1, p2}
  Consumer = c
  Nobody = nobody
  NoMsg = noMsg
  MaxMsgs = 2
  NodeSize = 2
  TornSizes = {0, 3}
INVARIANTS EveryGetDelivers AtMostOneTimeout
PROPERTIES ImplementsChannel
