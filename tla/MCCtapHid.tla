------------------------------ MODULE MCCtapHid ------------------------------
(***************************************************************************)
(* CtapHid on the three platforms, each with all that can go wrong there.   *)
(***************************************************************************)
EXTENDS CtapHid

Windows == {"error", "timeout", "lost", "write", "die"}
MacOS == {"error", "timeout", "latest", "write", "die"}
Linux == {"error", "foreign", "write", "die"}

AllPlatforms == {Windows, MacOS, Linux}
=============================================================================
