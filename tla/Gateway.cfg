SPECIFICATION Spec
CONSTANTS
  phone = phone
  laptop = laptop
  other = other
  ann = ann
  bob = bob
  acme = acme
  umbra = umbra
  Conns = {c1, c2, c3}
  Sessions = {phone, laptop, other}
  Nobody = Nobody
  Keys = {ann, bob}
  keyOf <- Devices
  Tenants = {acme, umbra}
  tenantOf <- TwoTenants
  MaxConnections = 2
  MaxPerPrincipal = 2
  MaxHellos = 3
SYMMETRY Symmetry
INVARIANTS SlotsAccounted TenantsAccounted
