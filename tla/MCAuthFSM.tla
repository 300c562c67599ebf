----------------------------- MODULE MCAuthFSM -----------------------------
(* AuthFSM against an upstream that may send anything: one opportunistic   *)
(* capability, the three rungs of the real ladder, a floor of 4 and a      *)
(* ceiling of 6 in place of 9 and 30.                                      *)
EXTENDS AuthFSM

MCLadder == <<1, 3, 3>>

=============================================================================
