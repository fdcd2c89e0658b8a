SPECIFICATION Spec
CONSTANTS
    NoNode = NoNode
    Nodes = {n1, n2, n3}
    Lease = 2
    Deadline = 1
    DesiredTimeout = 2
    Contenders = {n1, n2}
    Lossy = {}
    Commanded = {}
    Targets = {}
    MaxTerm = 2
    OneTerm = {}
    MaxLate = 0
SYMMETRY Symmetry
INVARIANT OneLeaderPerTerm
