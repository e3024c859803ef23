CONSTANTS
  Roles = {"sender", "receiver"}
  Connections = {TRUE, FALSE}
  Risks <- RiskNames
  NoData = NoData
  Null = Null
  MaxGofs = 3
SPECIFICATION Spec
INVARIANTS TypeOK ItSound NavigationHonest ErrorsFlagged
PROPERTIES FlagSticky PositionKept
