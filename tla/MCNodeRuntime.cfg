SPECIFICATION FairSpec
CONSTANTS
  h1 = h1
  h2 = h2
  r1 = r1
  r2 = r2
  Hosts = {h1, h2}
  Releases = {"a", "a2", "b"}
  Artifacts = {"A", "B"}
  ArtifactOf <- MCArtifactOf
  Environments <- MCEnvironments
  Replicas = {1, 2, 3, 4, 5, 6}
  Ports = {1, 2, 3, 4}
  Requests = {r1, r2}
INVARIANTS LaterHostWins
PROPERTIES DrainedBeforeStop ServingIsKept NodeSettles AcceptedRestartHappens
CHECK_DEADLOCK FALSE
