SPECIFICATION Spec
CONSTANTS
    NoNode = NoNode
    Nodes = {n1, n2, n3}
    Lease = 1
    Deadline = 0
    DesiredTimeout = 1
    Contenders = {n1, n2}
    Lossy = {}
    Commanded = {n1}
    Targets = {n2}
    MaxTerm = 2
    OneTerm = {n2}
    MaxLate = 0
PROPERTIES ObeysCommand LeaseIsExclusive NewLeaderHoldsQuorum
