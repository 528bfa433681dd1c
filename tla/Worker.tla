------------------------------- MODULE Worker -------------------------------
(***************************************************************************)
(* What the models of the worker's callers share: the clock of its tokens, *)
(* budgets and headers, and the value of what is absent.                   *)
(***************************************************************************)
CONSTANTS
    None,       \* absent value
    MaxNow      \* bound: the clock stops here

VARIABLE now

=============================================================================
