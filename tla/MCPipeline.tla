---------------------------- MODULE MCPipeline ----------------------------
(* The pipeline with the VM names and the bound its cfg gives. *)
EXTENDS Pipeline

AllCommands == OtherCommands
=============================================================================
