----------------------------- MODULE SmsPromise ----------------------------
(***************************************************************************)
(* What the SMS wallet promises a store: it is never overdrawn, a          *)
(* broadcast is paid for once, and the money kept for it can only shrink.  *)
(***************************************************************************)
EXTENDS Integers

CONSTANT Cost   \* of the broadcast

VARIABLES
  funds,    \* what the wallet holds
  kept,     \* what is kept for the broadcast
  ordered   \* whether the broadcast was paid for

Init == funds = 0 /\ kept = 0 /\ ordered = FALSE

\* A recharge, a grant or a reclaim.
Fund ==
  /\ funds' \in Int /\ funds' >= 0
  /\ UNCHANGED <<kept, ordered>>

Order ==
  /\ ~ordered
  /\ funds >= Cost
  /\ funds' = funds - Cost
  /\ kept' = Cost
  /\ ordered' = TRUE

GiveBack ==
  /\ ordered
  /\ kept' \in 0..kept
  /\ funds' = funds + kept - kept'
  /\ UNCHANGED ordered

Next == Fund \/ Order \/ GiveBack

Spec == Init /\ [][Next]_<<funds, kept, ordered>>
=============================================================================
