SPECIFICATION Spec
CONSTANTS
  Parts   <- MCParts
  Bits    <- MCBits
  Calls   <- MCCalls
  Noise   <- MCNoise
INVARIANTS
  TypeOK
  Harmless
  SuccessMeansDone
