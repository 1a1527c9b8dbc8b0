-------------------------- MODULE MCPatcherLogger --------------------------
(* A small instance of PatcherLogger: one patch to report, two ranks. *)
EXTENDS PatcherLogger
CONSTANT info
=============================================================================
