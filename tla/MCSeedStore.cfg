SPECIFICATION Spec
CONSTANTS
  s1 = s1
  s2 = s2
  Seeders = {s1, s2}
  Servers = {v1, v2}
  Repos <- MCRepos
  Tags <- MCTags
  Contents <- MCContents
  Artifacts <- MCArtifacts
  EmptyConfig = "{}"
  Hex <- MCHex
  Marshal <- MCMarshal
  NoFile = NoFile
  NoBlob = NoBlob
INVARIANTS
  TypeOK
  TagsResolve
  ReachableIntact
  AllOrNothing
  QuietMeansPublished
PROPERTIES
  StableSnapshot
  ImplementsSnapshots
