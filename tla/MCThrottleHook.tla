---------------------------- MODULE MCThrottleHook ----------------------------
(* Small instances of ThrottleHook for TLC. *)
EXTENDS ThrottleHook, TLC

CONSTANTS safe, universalRouter

\* One amount of each kind: an exact input, an exact output, none at all, one above
\* the cap, and one that does not fit and is cut to 1.
MCAmounts == {-3, 2, 0, Cap + 1, UintRange + 1}

Interchangeable == Permutations(Pool)
===============================================================================
