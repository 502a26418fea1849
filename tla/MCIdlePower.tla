------------------------------ MODULE MCIdlePower ------------------------------
(* TLC instances of IdlePower. *)
EXTENDS IdlePower, TLC

CONSTANTS c1, c2

TwoContacts == {c1, c2}
ContactSymmetry == Permutations(TwoContacts)

MCPolicies == { [dim |-> 1, blank |-> 3], [dim |-> 3, blank |-> 2],
                [dim |-> 1, blank |-> None], [dim |-> None, blank |-> 2] }

\* In eighths of the backlight: off, dimmer than the dim level, and brighter.
MCUserLevels == {0, 5}
==============================================================================
