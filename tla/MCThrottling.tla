---------------------------- MODULE MCThrottling ----------------------------
(* Model-checking instance of Throttling: two concurrent requests for one  *)
(* thumbprint (every interaction is between requests of the same          *)
(* thumbprint; entries of distinct thumbprints are independent), two      *)
(* server errors, Retry-After of 1 or 3 seconds, a default backoff of 2    *)
(* seconds and a clock running to 4 seconds, so that windows expire,       *)
(* overlap and are overwritten within the bound.                           *)
EXTENDS Throttling, TLC

CONSTANTS c1, c2, t1, e1, e2

MCCallers == {c1, c2}
MCThumbprints == {t1}
MCErrors == {e1, e2}
MCRetryAfters == {1, 3}

(* The liveness run uses one error and one Retry-After value: settling    *)
(* does not depend on them, and the temporal check runs without symmetry.  *)
MCErrorsOne == {e1}
MCRetryAftersOne == {1}

(* Callers are interchangeable model values.                               *)
MCSymmetry == Permutations(MCCallers)
=============================================================================
