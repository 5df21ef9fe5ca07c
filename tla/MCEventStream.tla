--------------------------- MODULE MCEventStream ---------------------------
(* Instances of EventStream for TLC.  Liveness forbids the symmetry of its  *)
(* writers.                                                                 *)
EXTENDS EventStream
=============================================================================
