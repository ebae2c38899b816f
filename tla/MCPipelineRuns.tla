--------------------------- MODULE MCPipelineRuns ---------------------------
(* PipelineRuns for TLC: a file_upload pipeline, which behaves like any other
   once it has files. *)
EXTENDS PipelineRuns, TLC

CONSTANTS upload, u1, u2

OneUpload == {upload}
TwoUsers == {u1, u2}

=============================================================================
