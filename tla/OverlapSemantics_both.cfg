\* two accessing ranks of four; the network card's atomicity reaches over all
\* windows of the memory, or ends at each
SPECIFICATION Spec
CONSTANTS
    Size = 4
    ITERATIONS = 3
    Scopes = {"memory", "window"}
    Garbage = {0, 7}
INVARIANTS
    AfterIsExact
PROPERTIES
    Termination
    ImplementsCounter
