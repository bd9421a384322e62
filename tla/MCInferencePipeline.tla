------------------------ MODULE MCInferencePipeline ------------------------
(* Constants for model checking InferencePipeline.                         *)
EXTENDS InferencePipeline

\* The images of a session of five that show an object.  The second does not, so that
\* both kinds of result of the bounding box mode occur in a batch.
MCDetected == {1, 3, 4}
=============================================================================
