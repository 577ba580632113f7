SPECIFICATION Spec
CONSTANTS
  ann = ann
  bob = bob
  adm = adm
  r1 = r1
  manage = manage
  toggle = toggle
  extra = extra
  plat = plat
  Users = {ann, bob}
  Calls = {c1, c2}
  Global = {Sys, Member, adm}
  Sys = Sys
  Member = Member
  Custom = {r1}
  Perms = {manage, toggle, extra, plat}
  Platform = {plat}
  Elsewhere = {ann}
  Needs <- RouteNeeds
  Requests <- RequestsAsked
  FirstRoles <- RolesAtFirst
  FirstGrants <- GrantsAtFirst
  MaxCalls = 3
  None = None
SYMMETRY Symmetries
INVARIANTS PlatformConfined BuiltInsKept RolesNeedMember
PROPERTY NothingFromNowhere
CHECK_DEADLOCK FALSE
