SPECIFICATION Spec
CONSTANTS
    c1 = c1
    c2 = c2
    c3 = c3
    cust = cust
    stranger = stranger
    k1 = k1
    k2 = k2
    k3 = k3
    k4 = k4
    plan50 = plan50
    planMax = planMax
    planGone = planGone
    None = None
    EmptyKey = EmptyKey
    Keys = {k1, k2, k3, k4, EmptyKey}
    Customers = {cust}
    Offers = {plan50, planMax, planGone}
    Catalog <- MCCatalog
    AutoApproveDelta = 1500
    Calls = {c1, c2, c3}
    Rows <- OneRow
    Requests <- AllRequests
    Faults = {"read", "post"}
    Overlap = FALSE
SYMMETRY CallSymmetry
INVARIANTS
    OneOrderPerKey
    NoOrphanOrder
    SuccessFitsRequest
CHECK_DEADLOCK FALSE
