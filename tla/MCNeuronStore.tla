--------------------------- MODULE MCNeuronStore ---------------------------
(* NeuronStore for TLC. *)
EXTENDS NeuronStore, TLC

MCRevIds == 1 .. 5
WorkerSymmetry == Permutations(Workers)
=============================================================================
