--------------------------- MODULE MCSmsRefusals ---------------------------
(***************************************************************************)
(* An instance of SmsRefusals: two numbers, one request and the jobs, no   *)
(* crash and no adjustment.                                                *)
(***************************************************************************)
EXTENDS SmsRefusals

MCRecipients  == {1, 2}
MCRequests    == {"request"}
MCAdjustments == {}
=============================================================================
