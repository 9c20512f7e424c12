SPECIFICATION FairSpec
CONSTANTS
  s1 = s1
  s2 = s2
  Seeders = {s1, s2}
  Servers = {v1}
  Repos <- MCRepos
  Tags <- MCTags
  Contents <- MCContents
  Artifacts <- MCArtifacts
  EmptyConfig = "{}"
  Hex <- MCHex
  Marshal <- MCMarshal
  NoFile = NoFile
  NoBlob = NoBlob
  Settings <- MCGoodSettings
  NoSetting = NoSetting
PROPERTIES
  StartDecides
  SeedEnds
