CONSTANTS
  u1 = u1
  p1 = p1
  p2 = p2
  c1 = c1
  c2 = c2
  NoUser = NoUser
  NoRow = NoRow
  NoPassword = NoPassword
  Users = {u1}
  Passwords = {p1, p2}
  Clients = {c1, c2}
  max_failed_nr = 3
  failed_time_span = 1
  ban_duration = 1
  jwt_exp = 2
  MaxTime = 6
  MaxEdits = 1
SPECIFICATION Spec
SYMMETRY Symmetry
CHECK_DEADLOCK FALSE
INVARIANTS
  TypeOK
  BanPolicy
  AcceptedRightly
PROPERTIES
  HeaderIsSenders
