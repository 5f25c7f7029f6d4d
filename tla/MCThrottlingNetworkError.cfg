CONSTANTS
    c1 = c1
    c2 = c2
    t1 = t1
    e1 = e1
    e2 = e2
    None = None
    Callers <- MCCallers
    Thumbprints <- MCThumbprints
    Errors <- MCErrors
    RetryAfters <- MCRetryAfters
    DefaultThrottleTime = 2
    HasTelemetryManager = TRUE
    MaxTime = 4
SPECIFICATION Spec
SYMMETRY MCSymmetry
PROPERTIES
    NetworkErrorBackoffHonoured
