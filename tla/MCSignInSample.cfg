CONSTANTS
    f1 = f1
    f2 = f2
    None = None
    Calls <- MCCalls
    ControllerSupplied = FALSE
SPECIFICATION SampleSpec
SYMMETRY MCSymmetry
\* Every invocation of signin returns or rejects, and then takes no step.
CHECK_DEADLOCK FALSE
INVARIANTS
    SampleUsesIssuedAccount
