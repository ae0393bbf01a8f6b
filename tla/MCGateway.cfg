SPECIFICATION GatewaySpec
CONSTANTS
  boss = boss
  ann = ann
  bob = bob
  People = {boss, ann, bob}
  Bootstrap = {boss, ann}
  None = None
  Starts <- MCStarts
  Seats = 2
  Calls = 2
  MaxFaults = 1
  Word = 8
  Scale = 4
  Prices <- MCPrices
  Requests <- MCRequests
  Answers <- MCAnswers
  Asked = {0, 1, 86}
  Second = 3
  DefaultWindow = 1
  MaxWindow = 3
  MaxNow = 2
INVARIANTS CallsAreAccounted
PROPERTIES AccountsChangeForAReason CredentialsFade LeaversStayOut
CHECK_DEADLOCK FALSE
