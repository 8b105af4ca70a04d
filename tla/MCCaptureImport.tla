---------------------------- MODULE MCCaptureImport ----------------------------
(* Small instances of CaptureImport for TLC. *)
EXTENDS CaptureImport

CONSTANTS capture, evidence
=============================================================================
