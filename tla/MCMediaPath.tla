----------------------------- MODULE MCMediaPath -----------------------------
(* The sizes of the program divided by 256: an encoder frame of 4 samples   *)
(* and 8 bytes for the PCM of one frame, the staging buffer of twice that.  *)
(* Audio frames have no sample, some, as many as fit, and too many or, with *)
(* ADPCM, less than its 8 bytes of state.                                   *)
EXTENDS MediaPath

MCFrames ==
  {[media |-> "video", coding |-> "eH264", len |-> 1],
   [media |-> "audio", coding |-> "eH264", len |-> 2]}
    \cup [media : {"audio"}, coding : {"eG711A"}, len : {0, 1, 3, 4, 5}]
    \cup [media : {"audio"}, coding : {"eAdpcm"}, len : {7, 8, 9, 10, 11}]

MCAudioLens == 0..8
=============================================================================
