-------------------------- MODULE PreviewPipelineMC --------------------------
(* Model-checking instance of PreviewPipeline. *)
EXTENDS PreviewPipeline
=============================================================================
