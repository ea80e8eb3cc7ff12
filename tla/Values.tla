------------------------------- MODULE Values -------------------------------
(* What is Given to a body is computed once, and not where the body uses it. *)
Given(value, Body(_)) == CHOOSE result \in {Body(v) : v \in {value}} : TRUE
=============================================================================
