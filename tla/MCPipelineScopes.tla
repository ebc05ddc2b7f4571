-------------------------- MODULE MCPipelineScopes --------------------------
(* PipelineScopes for TLC.                                                  *)
EXTENDS PipelineScopes

=============================================================================
