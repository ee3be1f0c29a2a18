SPECIFICATION Spec
CONSTANTS
    n1 = n1
    n2 = n2
    e1 = e1
    E1 = E1
    None = None
    Names = {n1, n2}
    Emails = {e1, E1}
    Lower <- MCLower
    MaxCalls = 4
    MaxNow = 1
    Limit = 2
SYMMETRY Sym
INVARIANTS AnswersAgree
PROPERTIES ImplementsDatabase
CHECK_DEADLOCK FALSE
