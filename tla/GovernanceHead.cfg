SPECIFICATION Spec
CONSTANTS
  r1 = r1
  r2 = r2
  c1 = c1
  m1 = m1
  k1 = k1
  q1 = q1
  Reviews = {r1, r2}
  Rechecks = {c1}
  Dismissals = {m1}
  Checks = {k1}
  Questions = {q1}
  Outcomes <- AnyOutcome
  Target = "F-001"
  CheckStates = {"success", "failure"}
  Cfg <- DefaultCfg
  AutoApprove = TRUE
  MaxAttempts = 2
  Loads <- PushedCheck
  Matches <- NoMatches
INVARIANTS
  ApprovalIsOfHead
