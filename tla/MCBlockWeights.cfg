CONSTANTS
  BaseBlock = 5
  BaseExtrinsic = 1
  ExtrinsicWeights = {9, 14, 40}
  InitWeights = {0, 30}
  MaxExtrinsics = 5
SPECIFICATION Spec
INVARIANT NonMandatoryWithinMax
