----------------------------- MODULE MCDrivers ------------------------------
(* Values for the constants that a .cfg cannot write.                      *)
EXTENDS Drivers

\* The keyboard driver, and the processes that call it.
DriverAndUsers == <<"system", "user", "user">>
UserAndDriver == <<"user", "system">>
TwoSystem == <<"system", "system">>
KeyboardFirst == 1 :> 1
KeyboardSecond == 1 :> 2
KeyboardAndMouse == 1 :> 1 @@ 12 :> 2

=============================================================================
