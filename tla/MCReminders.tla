---------------------------- MODULE MCReminders ----------------------------
(* Reminders for TLC. *)
EXTENDS Reminders

MCFirstTypes == [id \in {"r1", "r2"} |-> "ONCE"]
=============================================================================
