SPECIFICATION Spec
CONSTANTS
  Nobody = Nobody
  Levels = {1, 2, 3}
  Offset = 1
  FillCap = Nobody
  Latent = FALSE
  MaxContracts = 2
  Tickets <- Doubled
  Abilities = {"double"}
  MaxOrders = 7
PROPERTY ExitsOnlyReduce
CHECK_DEADLOCK FALSE
