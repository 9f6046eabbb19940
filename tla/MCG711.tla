------------------------------- MODULE MCG711 -------------------------------
EXTENDS G711

(* Every sample of 16 bits.                                                *)
AllSamples == -32768..32767
=============================================================================
