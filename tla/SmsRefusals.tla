---------------------------- MODULE SmsRefusals ----------------------------
(***************************************************************************)
(* Sms with a history of the numbers that the provider refused in so many  *)
(* words, to tell them from those whose request failed: the rows of both   *)
(* are written as failed, with another code.                               *)
(***************************************************************************)
EXTENDS Sms

VARIABLE refused   \* history: numbers for which an answer other than Ok came back

RefusalsInit == Init /\ refused = {}

\* An answer of the provider is remembered; every other step leaves the history.
RefusalsNext ==
  \/ \E s \in Sessions, a \in [Recipients -> Answers] :
       /\ Told(s, a) /\ UNCHANGED rechargeVars
       /\ refused' = refused \union {r \in Recipients : a[r] = "failed"}
  \/ /\ Next
     /\ \A s \in Sessions : pc[s] = "send" => pc'[s] # "persist"
     /\ UNCHANGED refused

RefusalsSpec == RefusalsInit /\ [][RefusalsNext]_<<vars, refused>>

-----------------------------------------------------------------------------
(* Properties.                                                             *)

\* sms-refund.service.ts, lines 36 and 37: what is not certain is not refunded; a
\* number without a clear result is sent again, and only when the attempts are
\* used up is it certain that it was not sent.  A failed request gives no result
\* (sendChunk, catch), and is refunded at once.
UncertainNotRefunded ==
  \A r \in Recipients : returned[r] => r \in refused \/ attempts >= MaxAttempts
=============================================================================
