CONSTANTS
    f1 = f1
    f2 = f2
    None = None
    Calls <- MCCalls
    ControllerSupplied = FALSE
SPECIFICATION Spec
SYMMETRY MCSymmetry
\* Every invocation settles and stays settled: the final state has no step.
CHECK_DEADLOCK FALSE
PROPERTIES
    ImplementsSignInContract
