------------------------------- MODULE MCExec -------------------------------
(***************************************************************************)
(* Instances of Exec: codes and signals on both sides of what a process    *)
(* can exit with.                                                          *)
(***************************************************************************)
EXTENDS Exec

EdgeCodes == {-1, 0, 1, 255, 256}
EdgeSignals == {1, 9, 127, 128}
=============================================================================
