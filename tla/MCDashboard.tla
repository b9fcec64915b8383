----------------------------- MODULE MCDashboard -----------------------------
(* One page and one or two submissions, with a colleague who may decide too. *)
EXTENDS Dashboard
=============================================================================
