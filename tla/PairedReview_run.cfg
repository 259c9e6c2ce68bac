SPECIFICATION Spec
CONSTANTS
  u1 = u1
  u2 = u2
  r1 = r1
  r2 = r2
  r3 = r3
  a1 = a1
  a2 = a2
  Units = {u1, u2}
  Rules = {r1, r2, r3}
  Agents = {a1, a2}
  NoAgent = NoAgent
  Worlds <- MCWorlds
INVARIANTS EachPlanAccounted NoDisagreementLost SuspendedStaysSilent AmendedOrSaid
CHECK_DEADLOCK FALSE
