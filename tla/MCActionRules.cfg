SPECIFICATION Spec
CONSTANTS
  Rules = {r1}
  Urls = {u1, u2}
  Companies = {c1, c2}
  CompanyOf <- AllOfFirst
  Requests = {q1, q2}
  MaxSecrets = 3
  NoUrl = NoUrl
  NoCompany = NoCompany
SYMMETRY Symmetric
INVARIANTS PrivateUrlApproved SignedBySharedSecret
CHECK_DEADLOCK FALSE
