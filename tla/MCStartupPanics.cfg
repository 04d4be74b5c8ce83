CONSTANTS
    n1 = n1
    n2 = n2
    Name = {n1, n2}
    Field <- MCField
    Tree <- MCTree
    File <- MCFile
SPECIFICATION Spec
INVARIANT AcceptedNeverPanics
\* The process may end: nothing follows.
CHECK_DEADLOCK FALSE
