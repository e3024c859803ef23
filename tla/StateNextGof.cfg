CONSTANTS
  Roles = {"sender"}
  Connections = {TRUE}
  Risks = {"next_gof at the end"}
  NoData = NoData
  Null = Null
  MaxGofs = 2
SPECIFICATION Spec
INVARIANTS NextGofDefined
