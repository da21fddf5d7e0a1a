CONSTANTS
    c1 = c1
    c2 = c2
    c3 = c3
    Clusters = {c1, c2}
    Routings <- MCRoutings
    Keys <- MCKeys
    Refused = Refused
    Rest = Rest
    Late = 3
    NULL = NULL
SPECIFICATION Spec
PROPERTIES LookupAnswers
\* A crash ends the program.
CHECK_DEADLOCK FALSE
