SPECIFICATION Spec
CONSTANTS
    one = one
    two = two
    u1 = u1
    u2 = u2
    r1 = r1
    r2 = r2
    None = None
    Lost = Lost
    Worker = {one, two}
    User = {u1, u2}
    Request = {r1, r2}
    Deployments <- Servers
    MaxServed = 4
    MaxKills = 1
INVARIANTS
    TypeOK
    Exclusive
    TicketFound
    KeptOpen
    Consistent
PROPERTIES
    ClosedOrKept
    EndsUnlessStuck
CHECK_DEADLOCK FALSE
