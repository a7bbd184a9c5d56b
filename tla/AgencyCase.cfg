CONSTANTS
    buyer = buyer
    boss = boss
    approver = approver
    clerk = clerk
    auditor = auditor
    k1 = k1
    q1 = q1
    Nobody = Nobody
    People <- Staff
    Customers <- OneCustomer
    Quotes <- OneQuote
    OldOrders <- OneQuote
    CustomerOf <- MCCustomerOf
    UserOf <- MCUserOf
    Roles <- MCRoles
    MaxRecords = 3
SPECIFICATION Spec
INVARIANTS OrderFollowsCase StatusIsProgress CompletedIsVerified NoSecondSuccess ReviewDecidable InactiveIsSettled
PROPERTIES EndedOrdersStay ReviewDiesWithRelationship ImplementsGuards

