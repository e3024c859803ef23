CONSTANTS
  Roles = {"sender"}
  Connections = {TRUE}
  Risks = {}
  NoData = NoData
  Null = Null
  MaxGofs = 2
SPECIFICATION Spec
INVARIANTS ReturnsDocumented
