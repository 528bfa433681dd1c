----------------------------- MODULE MCAudience -----------------------------
(***************************************************************************)
(* Audience for TLC: every route, and the groups of routes the runs take.  *)
(***************************************************************************)
EXTENDS Audience

AllRoutes == CustodialRoutes \cup RawRoutes
CustodialKeyRoutes == {"invite", "rotate"}

=============================================================================
