----------------------------- MODULE MCUserStore -----------------------------
(* UserStore for TLC. *)
EXTENDS UserStore
=============================================================================
