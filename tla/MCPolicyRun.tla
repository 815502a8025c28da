---------------------------- MODULE MCPolicyRun ----------------------------
(***************************************************************************)
(* Windows for the controller: the four latencies are 0.4%, 1% and 6%      *)
(* apart, on either side of each threshold of the code; the feedback has a *)
(* late but highly useful window, a fully timely one, one between the two  *)
(* thresholds, one below the lower, one just too small to be both late and *)
(* highly useful, and one too small to judge.                              *)
(***************************************************************************)
EXTENDS PolicyRun

MCLatencies == {1000, 1004, 1010, 1060}

MCFeedback ==
    {[consumed |-> 10, useful |-> 9,  late |-> 1],
     [consumed |-> 8,  useful |-> 8,  late |-> 0],
     [consumed |-> 10, useful |-> 7,  late |-> 3],
     [consumed |-> 10, useful |-> 5,  late |-> 5],
     [consumed |-> 9,  useful |-> 8,  late |-> 1],
     [consumed |-> 1,  useful |-> 0,  late |-> 1]}
=============================================================================
