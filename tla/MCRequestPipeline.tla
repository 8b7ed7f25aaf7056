------------------------- MODULE MCRequestPipeline -------------------------
(* Small instances of RequestPipeline for TLC.                             *)
EXTENDS RequestPipeline

CONSTANTS r1, r2, getSchema, nodeUpsert, schemaResource

Plain == [mode |-> "none", readOnly |-> FALSE, retries |-> 0, rate |-> 0,
          burst |-> 0, cache |-> FALSE]

\* Three requests in ten seconds.
SlowRate == {[Plain EXCEPT !.rate = 3]}
=============================================================================
