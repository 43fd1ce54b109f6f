----------------------------- MODULE WhispersMC -----------------------------
(* Three batches and two processes, any of which stands for any other. *)
EXTENDS Whispers, TLC

MCSymmetry == Permutations(Batch) \cup Permutations(Proc)
=============================================================================
