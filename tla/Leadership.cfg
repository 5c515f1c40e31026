\* Two agents, two concurrent handlers, the sweeper and restarts.
SPECIFICATION Spec
CONSTANTS
  a1 = a1
  a2 = a2
  r1 = r1
  r2 = r2
  Agents = {a1, a2}
  Requests = {r1, r2}
  TTL = 1
  ForgetAfter = 2
  NoAgent = NoAgent
INVARIANTS TypeOK OfflineLeaderReplaced AutoHeirOnline
PROPERTY LeaderRecovers
