SPECIFICATION Spec
CONSTANTS
    c1 = c1
    c2 = c2
    c3 = c3
    cust = cust
    stranger = stranger
    k1 = k1
    k2 = k2
    k3 = k3
    k4 = k4
    plan50 = plan50
    planMax = planMax
    planGone = planGone
    None = None
    EmptyKey = EmptyKey
    Keys = {k1, k2, EmptyKey}
    Customers = {cust}
    Offers = {plan50, planMax, planGone}
    Catalog <- MCCatalog
    AutoApproveDelta = 1500
    Calls = {c1, c2}
    Rows <- OneRow
    Requests <- KeyRequests
    Faults = {"timeout"}
    Overlap = FALSE
INVARIANTS
    NoOrphanOrder
CHECK_DEADLOCK FALSE
