-------------------------------- MODULE Sms --------------------------------
(***************************************************************************)
(* The SMS wallet of a store with all that changes it: a recharge, the     *)
(* adjustments of the platform, and a broadcast with its refunds.          *)
(***************************************************************************)
EXTENDS SmsRecharge, SmsBroadcast

vars == <<walletVars, rechargeVars, broadcastVars>>

TypeOK == WalletTypeOK /\ RechargeTypeOK /\ BroadcastTypeOK

Init == WalletInit /\ RechargeInit /\ BroadcastInit

Next ==
  \/ (\E amount \in Adjustments : Adjust(amount)) /\ UNCHANGED <<rechargeVars, broadcastVars>>
  \/ RechargeNext /\ UNCHANGED broadcastVars
  \/ BroadcastNext /\ UNCHANGED rechargeVars

\* WeChat Pay repeats its callback.  The clock moves.  The recovery job runs every
\* minute and the refund scan every day, each from a queue of its own, and
\* neither stops in the middle for good; the starts are strongly fair so that the
\* jobs also get their turns in an instance where one process runs both.  That
\* the scan runs does not mean that it gets to a row: its batch may be full of
\* older ones (OlderRowStuck), and no fairness keeps them away.
\* Nothing says that a request goes on, or that anybody asks again.
Fairness ==
  /\ WF_vars(PaidCallback /\ UNCHANGED broadcastVars)
  /\ WF_vars(GoStale /\ UNCHANGED rechargeVars)
  /\ SF_vars(StartRecovery /\ UNCHANGED rechargeVars)
  /\ SF_vars(StartReconcile /\ UNCHANGED rechargeVars)
  /\ WF_vars(Step(Recovery) /\ UNCHANGED rechargeVars)
  /\ WF_vars(Step(Reconcile) /\ UNCHANGED rechargeVars)

Spec == Init /\ [][Next]_vars /\ Fairness

-----------------------------------------------------------------------------
(* Properties.                                                             *)

\* The balance is the sum of the wallet's log and never negative, and what
\* counts as consumed is what the broadcast keeps: across recharges, grants,
\* reclaims, the charge and every kind of refund.
WalletAddsUp ==
  /\ balance = recharged + adjusted - consumed
  /\ balance >= 0
  /\ consumed = IF status = "none" THEN 0 ELSE Charge - refunded

\* What the store may rely on, without any of the machinery.
Promise == INSTANCE SmsPromise WITH
             Cost <- Charge, funds <- balance, kept <- consumed,
             ordered <- status # "none"

KeepsPromise == Promise!Spec
=============================================================================
