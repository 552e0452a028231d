----------------------------- MODULE MCMarshal -----------------------------
(* TLC instances of Marshal.                                               *)
EXTENDS Marshal, SequencesExt

MCStr == SeqOf({Nul, Text, Bad}, 4)

=============================================================================
