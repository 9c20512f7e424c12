SPECIFICATION SpecPull
CONSTANTS
  s1 = s1
  s2 = s2
  Seeders = {s1, s2}
  Servers = {v1}
  Repos <- MCRepos
  Tags <- MCTags
  Contents <- MCContents
  Artifacts <- MCArtifacts
  EmptyConfig = "{}"
  Hex <- MCHex
  Marshal <- MCMarshal
  NoFile = NoFile
  NoBlob = NoBlob
  Clients = {c1}
  NoServer = NoServer
  IsHex <- MCIsHex
INVARIANTS
  TypeOKPull
  SessionConsistent
  NoBrokenPull
  ListingsMatchSeed
PROPERTIES
  PinnedManifest
