CONSTANTS
  MaxParents = 1
  Interiors = {"Here", "Parachain"}
  AllowedOrigins <- MCAllowedOrigins
  MaxLen = 2
SPECIFICATION Spec
INVARIANT NoReserveTransferToRelayAdmitted
