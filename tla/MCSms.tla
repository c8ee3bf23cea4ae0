------------------------------- MODULE MCSms -------------------------------
(***************************************************************************)
(* An instance of Sms: two numbers at one fen each.  The recharge pays for *)
(* one broadcast; the platform reclaims everything at some point.  Two     *)
(* rounds of sending exhaust the task.  The two scheduled jobs take turns  *)
(* (Recovery = Reconcile), one request and the job overlap.  A refund      *)
(* batch is one row, so that two failed numbers need two runs and one      *)
(* row of an earlier task is enough to stop the scan.                      *)
(***************************************************************************)
EXTENDS Sms

MCRecipients  == {1, 2}
MCRequests    == {"request"}
MCAdjustments == {-5}
=============================================================================
