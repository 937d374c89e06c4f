------------------------ MODULE MCRequestPipeline ------------------------
(* Values for RequestPipeline's constants that a .cfg cannot write.        *)
EXTENDS RequestPipeline

CONSTANTS r1, r2

\* An answer and an error stand for all: the writers compare statuses only with
\* 504, 200 and each other.
MCStatuses == {200, 404}
==========================================================================
