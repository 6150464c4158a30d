----------------------------- MODULE MCSignals ------------------------------
(* Values for the constants that a .cfg cannot write.                      *)
EXTENDS Signals

UserAndSystem == <<"user", "system">>

=============================================================================
