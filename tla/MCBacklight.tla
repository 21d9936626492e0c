---------------------------- MODULE MCBacklight -----------------------------
(* Backlight with a state directory as tmpfiles creates it (empty), or     *)
(* holding the level an earlier generation of the system left in it.       *)
EXTENDS Backlight

Missing      == -1
AnythingLeft == {Missing, 50}
=============================================================================
