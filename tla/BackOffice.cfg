SPECIFICATION Spec
CONSTANTS
  c1 = c1
  c2 = c2
  c3 = c3
  x1 = x1
  x2 = x2
  own = own
  sub = sub
  free = free
  pro = pro
  gold = gold
  l1 = l1
  l2 = l2
  l3 = l3
  l4 = l4
  l5 = l5
  t1 = t1
  t2 = t2
  tenantRole = tenantRole
  r1 = r1
  p1 = p1
  p2 = p2
  u0 = u0
  n1 = n1
  n2 = n2
  w1 = w1
  shop = shop
  s1 = s1
  QuotaUsers = {own, sub}
  OwnerOf <- QuotaOwners
  Nobody = Nobody
  Buyers = {own}
  Plans = {free, pro, gold}
  FreePlan = free
  SeedPlans = {free, pro}
  SystemPlans = {}
  PlanSlugs = {"free", "other"}
  Settings = {"nothing", "other"}
  FreeSlug = "free"
  Kept = Kept
  FirstLimits <- SeedLimits
  Resources = {"boards", "demo"}
  EndpointOf <- Guarded
  PatternOf <- Routes
  Wishes <- PlanWishes
  LimitIds = {l1, l2, l3, l4, l5}
  NoLimit = NoLimit
  Gated = {x1, x2}
  Purchases = {x1, x2}
  Edits = {x1, x2}
  QuotaFaults = TRUE
  MaxOps = 3
  MaxSubs = 2
  Instances = {i1, i2}
  Tenants = {t1, t2}
  Roles = {tenantRole, r1}
  SeedRoles = {tenantRole}
  SeedGrants <- TenantGrants
  SeedMembers <- TenantMember
  Permissions = {p1, p2}
  EndpointFor <- TheEndpoints
  Patterns = {"/boards", "/boards/{id}"}
  WithSlash <- Slashed
  KeyMatch2 <- Matches
  Grantings <- RoleWishes
  Keep = Keep
  RoleCalls = {x1, x2}
  PolicyFaults = TRUE
  MaxRestarts = 1
  Ids = {u0, x1, x2}
  Emails = {m1, m2}
  Root = u0
  RootEmail = m1
  FirstLink = FirstLink
  Nil = Nil
  Requests = {c1, c2, c3}
  AccountFaults = TRUE
  MaxSecond = 1
  Owners = {t1, t2}
  Boards = {n1, n2, x1, x2}
  Items = {w1, x1, x2}
  Bases = {shop}
  Suffixes = {s1}
  Attempts = 2
  FirstBoards <- TwoBoards
  FirstItems <- OneWidget
  Files <- CsvFiles
  Nothing = Nothing
  CatalogCalls = {x1, x2}
  CatalogFaults = TRUE
INVARIANTS
  QuotaTypeOK UsedWithinLimit CounterUnlessRaced ChargesWithinLimit FreePlanOnceUnlessRaced QuotaShown
  PolicyTypeOK GrantsReplaced SettledMirrors AccessFollowsGrants
  AccountsTypeOK OneAccountUnlessRaced ResetOnceUnlessRaced ResetEndsSessions EndedStaysEnded TenantsWhole
  CatalogTypeOK WidgetOnOwnBoard SlugConflictOnlyIfRaced
PROPERTY OnlyOwnersChange
SYMMETRY Alike
CHECK_DEADLOCK FALSE
