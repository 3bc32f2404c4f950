SPECIFICATION Spec
CONSTANTS
  Nobody = Nobody
  Levels = {1, 2, 3}
  Offset = 1
  FillCap = 2
  Latent = FALSE
  MaxContracts = 4
  Tickets <- Scaled
  Abilities = {"protect", "breach"}
  MaxOrders = 4
INVARIANT OcoExclusive
PROPERTY ExitsOnlyReduce FailedOnlyLiquidates
CHECK_DEADLOCK FALSE
