----------------------------- MODULE SmsWallet -----------------------------
(***************************************************************************)
(* The SMS wallet of one store: a balance in fen, its running totals, and  *)
(* the adjustments the platform makes to it.  Recharges, broadcasts and    *)
(* refunds change it inside transactions of their own, with the three      *)
(* operators Credit, Consume and GiveBack.  sentSmsCount, a figure of the  *)
(* reports, is left out.                                                   *)
(***************************************************************************)
EXTENDS Integers

CONSTANTS
  Adjustments,   \* amounts the platform grants (positive) or reclaims (negative)
  MaxAdjusts     \* bound on the number of adjustments

ASSUME WalletAssumption ==
  /\ Adjustments \subseteq Int
  /\ MaxAdjusts \in Nat

VARIABLES
  balance,     \* balanceFen
  recharged,   \* totalRechargedFen
  consumed,    \* totalConsumedFen
  adjusted,    \* sum of the grants and reclaims in the wallet's log
  adjusts

walletVars == <<balance, recharged, consumed, adjusted, adjusts>>

WalletTypeOK ==
  /\ balance \in Int /\ recharged \in Int
  /\ consumed \in Int /\ adjusted \in Int
  /\ adjusts \in 0..MaxAdjusts

WalletInit ==
  /\ balance = 0 /\ recharged = 0 /\ consumed = 0 /\ adjusted = 0
  /\ adjusts = 0

Credit(amount) ==
  /\ balance' = balance + amount
  /\ recharged' = recharged + amount
  /\ UNCHANGED <<consumed, adjusted, adjusts>>

\* The balance is compared by the database in the same statement.
Affords(amount) == balance >= amount

Consume(amount) ==
  /\ balance' = balance - amount
  /\ consumed' = consumed + amount
  /\ UNCHANGED <<recharged, adjusted, adjusts>>

GiveBack(amount) ==
  /\ balance' = balance + amount
  /\ consumed' = consumed - amount
  /\ UNCHANGED <<recharged, adjusted, adjusts>>

\* mutant: the log of a reclaim holds what was asked for
Requested(amount) == amount

\* A reclaim of more than the balance takes the balance.
Actual(amount) == IF balance + amount < 0 THEN -balance ELSE amount

Adjust(amount) ==
  /\ adjusts < MaxAdjusts
  /\ adjusts' = adjusts + 1
  /\ amount >= 0 \/ Affords(-amount) \/ balance > 0
  /\ balance' = IF balance + amount < 0 THEN 0 ELSE balance + amount
  /\ adjusted' = adjusted + Actual(amount)
  /\ UNCHANGED <<recharged, consumed>>
=============================================================================
