SPECIFICATION Spec
CONSTANTS
    h1 = h1
    h2 = h2
    h3 = h3
    a1 = a1
    a2 = a2
    p1 = p1
    p2 = p2
    s1 = s1
    s2 = s2
    None = None
    Chats = {h1, h2}
    Approvals = {a1, a2}
    Proposals = {p1, p2}
    Calls = {s1, s2}
    Faults = {"request", "submit", "propose", "restart"}
SYMMETRY MCSymmetry
INVARIANTS
    TypeOK
    OrdersWereApproved
    ApprovalsAgree
    ReportsAreReal
CHECK_DEADLOCK FALSE
