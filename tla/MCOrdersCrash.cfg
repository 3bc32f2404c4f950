SPECIFICATION Spec
CONSTANTS
  Nobody = Nobody
  Levels = {1, 2}
  Offset = 1
  FillCap = Nobody
  Latent = FALSE
  MaxContracts = 2
  Tickets <- Doubled
  Abilities = {"breach", "crash", "cancel", "flatten", "reverse", "modify"}
  MaxOrders = 4
PROPERTY FailedGoesFlat
CHECK_DEADLOCK FALSE
