SPECIFICATION MCSpec
CONSTANTS
  MAX_PAYLOAD_SIZE = 100
  Scrambles <- MCScrambles
  Cuts = {0, 30, 54, 55}
  MaxConnections = 2
  MaxLines = 3
INVARIANTS CubeArrives MovesArrive LineIsObeyed
CHECK_DEADLOCK FALSE
