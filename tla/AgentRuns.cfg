SPECIFICATION Spec
CONSTANTS
    r1 = r1
    r2 = r2
    p1 = p1
    cust = cust
    stranger = stranger
    plan = plan
    None = None
    Runs = {r1, r2}
    Calls <- MCCalls
    Casts <- ScriptedAndAny
    Proposal <- MCProposal
    Customers = {cust, stranger}
    OrderIds = {r1}
    Known = {cust}
    Offered = {plan}
    FreeSlots = {"sync"}
    Faults = {"read", "post", "timeout", "audit", "crash", "submit"}
INVARIANTS
    TypeOK
    ResultsOnRecord
    RecordedCasesExist
    FollowUpIsReal
    FollowUpsAgree
PROPERTIES
    FollowUpStands
    ScriptEnds
CHECK_DEADLOCK FALSE
