CONSTANTS
    Payments = {p1, p2}
    Users = {u1, u2}
    Handlers = {h1, h2}
    NoPayment = NoPayment
    NoOrder = NoOrder
    Invited = {u1, u2}
    Capacity = 2
    Term = 2
    OnSale = {"pass", "seat"}
    MaxTime = 1
    MaxFaults = 1
SPECIFICATION Spec
SYMMETRY Alike
INVARIANTS OneTermPerPayment GrantsArePaid NotOversold OneSeatPerPayment CommissionIsEarned
