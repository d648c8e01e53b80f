SPECIFICATION Spec
CONSTANTS
  t = t
  u = u
  s = s
  sender = sender
  Sender <- sender
  Calls = {u}
  Kind <- MCKind
  Amount <- MCAmount
  Received <- MCReceived
  History = 2
  Attempts = 1
  MaxLedger = 2
  MaxCalls = 1
VIEW View
INVARIANTS NothingForgotten
