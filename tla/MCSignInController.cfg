CONSTANTS
    f1 = f1
    f2 = f2
    None = None
    Calls <- MCCalls
    ControllerSupplied = TRUE
SPECIFICATION Spec
SYMMETRY MCSymmetry
CHECK_DEADLOCK FALSE
INVARIANTS
    SignInUsesGivenController
