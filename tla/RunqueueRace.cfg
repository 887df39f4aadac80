SPECIFICATION Spec
CONSTANTS
    n1 = n1
    n2 = n2
    n3 = n3
    h = h
    r = r
    Runqueue = Runqueue
    Null = Null
    Home <- h
    Nodes <- MCNodes
    Others <- MCOthers
INVARIANT
    ListValidate
