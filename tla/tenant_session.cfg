SPECIFICATION Spec
CONSTANTS
  acme = acme
  globex = globex
  keyA = keyA
  keyG = keyG
  placeholder = placeholder
  NoTenant = NoTenant
  Tenants <- MCTenants
  Keys <- MCKeys
  Owner <- MCOwner
  Pages <- MCPages
  MaxActs = 2
  MaxLoads = 2
INVARIANTS ShownIsKeyedInTurn SelectedOnly GuestSeesNothing
PROPERTY LoadingEnds
CHECK_DEADLOCK FALSE
