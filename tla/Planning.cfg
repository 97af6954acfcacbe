SPECIFICATION PlanSpec
CONSTANTS
  k1 = k1
  k2 = k2
  k3 = k3
  k4 = k4
  k5 = k5
  requester = requester
  collaborator = collaborator
  stranger = stranger
  Keys = {k1, k2, k3, k4, k5}
  NoKey = NoKey
  People = {requester, collaborator}
  Roles = {requester, collaborator}
  Params = {"text", "material"}
  Requests <- Asked
  Candidates <- Answer
  TravelPlan <- Trip
INVARIANTS
  AgentsAnswerToPeople
  TravelRestsOnSources
CHECK_DEADLOCK FALSE
