---------------------------- MODULE MCScanOrder ----------------------------
(* Small instances of ScanOrder: one or two checkout requests at a time, one *)
(* run of the timeout job.                                                   *)
EXTENDS ScanOrderInvariants

CONSTANTS r1, r2, w1

OneRequest == {r1}
TwoRequests == {r1, r2}
OneJob == {w1}
=============================================================================
