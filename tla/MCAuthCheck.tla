---------------------------- MODULE MCAuthCheck ----------------------------
(* Model values for AuthCheck: two resources and two role keys. *)
EXTENDS AuthCheck

CONSTANTS r1, r2, minter, burner
====
