SPECIFICATION Spec
CONSTANTS
  alpha = alpha  beta = beta
  Node = {alpha, beta}  AutoApprove = {beta}
  MaxRequests = 2  MaxRevokes = 1  MaxUpsets = 1
INVARIANTS TrustIsConsent DecisionsHold
