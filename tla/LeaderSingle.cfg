CONSTANTS
    n1 = n1
    n2 = n2
    Node = {n1, n2}
    NoNode = NoNode
    MaxLease = 2
    BackoffMax = 1
SPECIFICATION Spec
INVARIANT SingleActiveProbing
