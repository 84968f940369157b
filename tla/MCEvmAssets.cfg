CONSTANTS
  a1 = a1
  a2 = a2
  a3 = a3
  a4 = a4
  a5 = a5
  AssetIds <- MCAssetIds
  Addresses <- MCAddresses
  AssetAddress <- MCAssetAddress
SPECIFICATION Spec
INVARIANT RevertCodeExactlyAtLiveAssets
