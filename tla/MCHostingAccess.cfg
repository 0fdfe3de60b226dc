SPECIFICATION Spec
CONSTANTS
  Apps = {a1, a2, a3}
  Tokens = {t1}
  Requests = {q1, q2}
  MaxApps = 1
  PreviewTTL = 1
  Null = Null
SYMMETRY Symmetric
INVARIANTS OverQuotaBounded NoBarePreview
PROPERTIES GrantedByStaff RevokedStays
