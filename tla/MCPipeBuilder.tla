---------------------------- MODULE MCPipeBuilder ----------------------------
(***************************************************************************)
(* PipeBuilder for TLC.                                                    *)
(***************************************************************************)
EXTENDS PipeBuilder

=============================================================================
