SPECIFICATION FairSpec
CONSTANTS
  r1 = r1 r2 = r2 c1 = c1 c2 = c2 c3 = c3 k1 = k1 k2 = k2 f1 = f1
  None = None
  Runtimes <- TwoRuntimes
  Callers <- ThreeCallers
  RuntimeOf <- TwoShareOne
  Containers <- TwoContainers
  Files <- OneFile
  Faults <- TrueLookups
INVARIANTS SandboxInv OneSandbox NoLeak FilesAreThere
PROPERTIES HandleOutlivesItsContainer CallsEnd
