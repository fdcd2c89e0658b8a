SPECIFICATION Spec
CONSTANTS
    NoNode = NoNode
    Nodes = {n1, n2, n3}
    Lease = 2
    Deadline = 1
    DesiredTimeout = 2
    Contenders = {n1}
    Lossy = {n2}
    Commanded = {n1}
    Targets = {n1, n2}
    MaxTerm = 3
    OneTerm = {}
    MaxLate = 1
INVARIANT TypeOK
PROPERTIES FeedsRoles NoStalePingRoutine
