SPECIFICATION MCSpec
CONSTANTS
  NoOne = NoOne
  boss = boss
  ann = ann
  bob = bob
  t1 = t1
  t2 = t2
  Users = {boss, ann, bob, new, other}
  Orgs = {o1}
  Teams = {t1, t2}
  Keys = {k1, k2}
  SPs = {s1}
  Invites = {i1}
  Procs = {p1, p2}
  Admins = {boss}
  Existing = {boss, ann, bob}
  TeamMapping <- MCMapping
  MaxRejoin = 1
CONSTRAINT MCBound
SYMMETRY Sym
CHECK_DEADLOCK FALSE
INVARIANTS AuthorityKept TeamsKept
PROPERTY RolesGranted
