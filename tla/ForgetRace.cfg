\* An agent returns while the forget hook for it is running.
SPECIFICATION Spec
CONSTANTS
  a1 = a1
  a2 = a2
  r1 = r1
  r2 = r2
  m1 = m1
  m2 = m2
  NoAgent = NoAgent
  NoMessage = NoMessage
  Agents = {a1, a2}
  Requests = {r1, r2}
  Messages = {m1}
  TTL = 1
  ForgetAfter = 2
  HandlerMax = 1
  MaxLives = 2
SYMMETRY Symmetry
CHECK_DEADLOCK FALSE
INVARIANTS MemberMailKept
