--------------------------- MODULE MCNeuronEditor ---------------------------
(* NeuronEditor for TLC. *)
EXTENDS NeuronEditor, TLC
=============================================================================
