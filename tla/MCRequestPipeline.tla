------------------------- MODULE MCRequestPipeline -------------------------
(* The pipeline on small instances; the bounds are in the .cfg files.        *)
EXTENDS RequestPipeline
=============================================================================
