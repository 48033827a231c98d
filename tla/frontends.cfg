\* One frontend call after the other; two threads with one set of handles; three
\* workers that change privileges; a CUSE daemon; two readers of a proc file; or
\* a server that starts beside what an earlier or another one left.
SPECIFICATION AllSpec
CONSTANTS
    MaxData = 3
    SeedSize = 2
    Lens = {0, 1, 2, 5}
    Sizes = {0, 1, 5}
    MaxMsg = 4
    Invokes = 1
    Users = {g1, g2}
    NoUser = NoUser
    Workers = {k1, k2, k3}
    Opens = 3
    MAX_WAIT_SEC = 3
    Readers = {r1, r2}
    MaxLen = 2
INVARIANTS
    Delivered
    
    HandleKept
    
    MountRemoved
    
    StartOrdered
    
    
CHECK_DEADLOCK FALSE
