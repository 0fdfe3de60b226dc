SPECIFICATION Spec
CONSTANTS
  q1 = q1
  q2 = q2
  p1 = p1
  p2 = p2
  Deployments = {d1, d2}
  Requests = {q1, q2}
  Processes = {p1}
  ProcessOf <- OneProcess
  Archives = {"site"}
  MaxDeployments = 2
  CacheTTL = 1
  PreviewTTL = 1
  MayCrash = FALSE
  Exclusive = FALSE
  Null = Null
PROPERTIES ActiveTakesNoUpload
CHECK_DEADLOCK FALSE
