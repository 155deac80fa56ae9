------------------------------ MODULE MCRecording ------------------------------
(* One slider position doubles every threshold; the shipped gate, and one     *)
(* that only notes the gyroscope's opinion.  A sample may have two votes of   *)
(* the other statistics, so that the held peak decides where it has none of   *)
(* its own.  ReplayInterleaves reads recordings without an annotation, too.   *)
EXTENDS Recording

MCScale(s) == IF s = "low" THEN 2 ELSE 1
Shipped ==
    [sensitivity |-> "mid", highpass_g |-> 1, micro_g |-> 1, medium_g |-> 2, major_g |-> 3,
     gyro_ratio_min |-> 1, gyro_peak_min |-> 2, gyro_mode |-> "require",
     cooldown_s |-> 2, min_votes |-> 2]
MCSettings == {Shipped, [Shipped EXCEPT !.sensitivity = "low", !.gyro_mode = "annotate"]}
MCLabels == {"slap-left"}
MCExpects == {2}
MCMetas == {{<<"model", "Mac16,5">>, <<"rate_hz", "805.0">>}}
=============================================================================
