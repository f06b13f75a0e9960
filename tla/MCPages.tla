------------------------------ MODULE MCPages ------------------------------
(* Pages for TLC. *)
EXTENDS Pages, TLC

MCFirstDue == <<"a", "b">>
=============================================================================
