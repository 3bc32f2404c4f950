SPECIFICATION Spec
CONSTANTS
  Nobody = Nobody
  Levels = {1, 2}
  Offset = 1
  FillCap = 2
  Latent = TRUE
  MaxContracts = 4
  Tickets <- Scaled
  Abilities = {"protect"}
  MaxOrders = 4
INVARIANT SoleBracketCovers
CHECK_DEADLOCK FALSE
