------------------------- MODULE MCTranscodePipeline -------------------------
(* Small instances of TranscodePipeline for TLC.                            *)
EXTENDS TranscodePipeline, TLC

\* Workers, dispatchers and task ids are interchangeable.
Symmetry == Permutations(Workers) \cup Permutations(Tasks)
=============================================================================
