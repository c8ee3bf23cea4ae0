--------------------------- MODULE MCClubPayment ---------------------------
(***************************************************************************)
(* Instances of ClubPayment.  The worker, the scan and one verification    *)
(* compete for the order; two tries exhaust the job.                       *)
(***************************************************************************)
EXTENDS ClubPayment

MCKinds    == {"recharge", "voucher", "service"}
MCService  == {"service"}
MCAccounts == {"same", "other"}
MCVerifiers == {"verify"}
MCSlow      == MCVerifiers \union {"worker"}
MCNoneSlow  == {}
=============================================================================
