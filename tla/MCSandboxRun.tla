---------------------------- MODULE MCSandboxRun ----------------------------
(* Two runs of any kinds, which interact when both are retained. *)
EXTENDS SandboxRun

CONSTANTS a, b
=============================================================================
