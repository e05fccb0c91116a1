\* Three connections and two agents: a server-wide cap of 2, agent a1 capped at
\* 1 below it, agent a2 without a cap of its own.  No symmetry: liveness is checked.
SPECIFICATION FairSpec
CONSTANTS
  Requests = {r1, r2, r3}
  a1 = a1
  a2 = a2
  Agents <- MCAgents
  Global = Global
  GlobalCap = 2
  Cap1 = 1
  Cap2 = 0
  Limit <- MCLimit
INVARIANTS
  TypeOK
  SlotAccounting
  CapsRespected
PROPERTIES
  RejectionsJustified
  SlotsReturned
  ImplementsAdmission
