------------------------------ MODULE MCAdpcm ------------------------------
(* Every entry of the step table, quiet, moderate and extreme signals, and *)
(* frames with even and odd numbers of samples.  A frame may claim an      *)
(* index at either end of the table, beside it, or far from it.            *)
EXTENDS Adpcm

MCSamples == {-32768, -1000, -20, 0, 3, 100, 32767}
MCStarts == [valprev : {-32768, 0, 32767}, index : 0..88]
MCMisstarts == [valprev : {0}, index : {-128, -1, 0, 88, 89, 127}]
MCJunkSteps == {-1073741824, -9, 0, 1073741824}
=============================================================================
