------------------------------- MODULE MCG726 -------------------------------
(* Signals for the coder: silence, two loud periodic ones that drive the   *)
(* poles of the predictor to their limits, a click in silence and a        *)
(* jumble.                                                                 *)
EXTENDS G726

MCSignals == {<<0>>,
              <<16000, 16000, -16000, -16000>>,
              <<-32768, 23637>>,
              <<32767, 0, 0, 0, 0, 0, 0, 0, 0, 0, 0>>,
              <<12000, -31000, 500, 500, 29000, -7, -20000, 16000, -3000>>}

=============================================================================
