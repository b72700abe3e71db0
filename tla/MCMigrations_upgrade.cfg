SPECIFICATION FairSpec
CONSTANTS
  c1 = c1
  c2 = c2
  c3 = c3
  Container = {c1, c2, c3}
  Service = {"inventory", "order", "fulfillment"}
  Scripts <- AlembicScripts
  VersionTable <- AlembicVersion
  MaxKills = 1
  MaxRollbacks = 1
INVARIANTS
  TypeOK
  VersionMeansSchema
  ServersHaveTheirSchema
  OneInsideAScript
  UndisturbedSchemaIsItsVersion
PROPERTIES
  UndisturbedContainersServe
