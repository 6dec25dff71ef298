------------------------------ MODULE MCDiscovery ------------------------------
(***************************************************************************)
(* Discovery with two FIDO keys and a keyboard, on every platform.         *)
(***************************************************************************)
EXTENDS Discovery

CONSTANTS k1, k2, keyboard

MCDevices == {k1, k2, keyboard}
MCFido == {k1, k2}
AllPlatforms == {"linux", "windows", "darwin", "other"}
=============================================================================
