--------------------------- MODULE MCMultitasking ---------------------------
(* Values for the constants that a .cfg cannot write.                      *)
EXTENDS Multitasking

SystemAndUser == <<"system", "user">>
TwoUsers == <<"user", "user">>

=============================================================================
