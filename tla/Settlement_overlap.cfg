CONSTANTS
    Payments = {p1, p2}
    Users = {u1}
    Handlers = {h1, h2}
    NoPayment = NoPayment
    NoOrder = NoOrder
    Invited = {u1}
    Capacity = 1
    Term = 2
    OnSale = {"membership", "pass"}
    MaxTime = 0
    MaxFaults = 0
SPECIFICATION Spec
INVARIANT TermsDoNotOverlap
