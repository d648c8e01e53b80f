SPECIFICATION PromptSpec
CONSTANTS
  t = t
  u = u
  s = s
  sender = sender
  Sender <- sender
  Calls = {t, u, s}
  Kind <- MCKind
  Amount <- MCAmount
  Received <- MCReceived
  History = 1
  Attempts = 2
  MaxLedger = 2
  MaxCalls = 2
VIEW View
INVARIANTS ListMatchesChain PaysOnce
