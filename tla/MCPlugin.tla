------------------------------ MODULE MCPlugin ------------------------------
(***************************************************************************)
(* Three releases of two plugins, of which the second is a DXSETUP archive *)
(* and the third repeats the first plugin, and one SDK.  One file of the   *)
(* plugin lies in DXSETUP and is not validated; the data of the SDK give   *)
(* no MD5, of its archive or of its file.                                  *)
(***************************************************************************)
EXTENDS PluginInstall

Release(p, dx) == [id |-> p, dx |-> dx]
TheReleases    == <<Release("gme", FALSE), Release("dx", TRUE), Release("gme", FALSE)>>
TheSdks        == <<Release("sdk", FALSE)>>
TheOwner       == [f \in Files |-> IF f = "sdk.dll" THEN "sdk" ELSE "gme"]
=============================================================================
