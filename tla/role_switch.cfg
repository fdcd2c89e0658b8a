SPECIFICATION FairSpec
CONSTANTS
    Self = n1
    Others = {n2}
    NoNode = NoNode
    Namespaces = {a, b}
    MaxChanges = 5
CHECK_DEADLOCK FALSE
INVARIANTS TypeOK SettledRole
PROPERTIES FreshLeadership OneSync RoleIsTaken
