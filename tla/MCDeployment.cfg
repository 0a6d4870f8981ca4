CONSTANTS
  Deployments <- MCDeployments
  Roots <- MCRoots
  KeyLengths <- MCKeyLengths
  Suffix = 24
  MaxPath = 1024
  Reserve = 256
SPECIFICATION DeploymentSpec
INVARIANTS
  HostFaultNotBlamed
  NothingSilentlyRelaxed
PROPERTIES
  StartEnds
