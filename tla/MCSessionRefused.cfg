SPECIFICATION Spec
CONSTANTS
  Unit <- MCUnit
  Groups <- MCGroups
  Settings <- InterruptedSettings
INVARIANT ReplaysTheChain
