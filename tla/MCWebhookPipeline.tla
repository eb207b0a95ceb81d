-------------------------- MODULE MCWebhookPipeline --------------------------
(* Small instances of WebhookPipeline for TLC. *)
EXTENDS WebhookPipeline, TLC

CONSTANTS u1, u2, t1, m1, m2, s1, usd, c1, i1, i2,
          paidEv, paidAgainEv, riskyEv, clearEv, refundEv, disputeEv, topupEv, topupBackEv,
          forgedEv, ignoredEv, garbledEv, paid2Ev, elevatedEv, shortEv

MCOwner    == [o \in Orders |-> IF o = m2 THEN u2 ELSE u1]
MCAmount   == [o \in Orders |-> 2]
MCCurrency == [o \in Orders |-> usd]
MCMembers  == [o \in Orders |-> IF o \in Topups THEN <<>> ELSE <<s1>>]

Says(type, about, echo, mor, risk) ==
  [type |-> type, about |-> about, echo |-> echo, mor |-> mor, fp |-> None,
   risk |-> risk, covers |-> TRUE]

\* A success and one of another account with the same card, a success with another
\* provider id (the dev provider's envelope is free to carry one), two risky ones,
\* one that does not cover the price, the review's approval (no echo), reversals
\* with and without echo, a top-up, and mail that is not the
\* provider's, not for us or not to be parsed.
AllEvents ==
     paidEv      :> [Says("succeeded", m1, TRUE, i1, "normal") EXCEPT !.fp = c1]
  @@ paidAgainEv :> Says("succeeded", m1, TRUE, i2, "normal")
  @@ riskyEv     :> Says("succeeded", m1, TRUE, i1, "highest")
  @@ clearEv     :> Says("cleared", m1, FALSE, i1, "normal")
  @@ refundEv    :> Says("refunded", m1, FALSE, i1, "normal")
  @@ disputeEv   :> Says("chargeback", m1, TRUE, None, "normal")
  @@ topupEv     :> Says("succeeded", t1, TRUE, None, "normal")
  @@ topupBackEv :> Says("chargeback", t1, TRUE, None, "normal")
  @@ forgedEv    :> Says("forged", m1, TRUE, None, "normal")
  @@ garbledEv   :> Says("garbled", m1, TRUE, None, "normal")
  @@ ignoredEv   :> Says("ignored", m1, FALSE, None, "normal")
  @@ elevatedEv  :> Says("succeeded", m1, TRUE, i1, "elevated")
  @@ shortEv     :> [Says("succeeded", m1, TRUE, i1, "normal") EXCEPT !.covers = FALSE]
  @@ paid2Ev     :> [Says("succeeded", m2, TRUE, i2, "normal") EXCEPT !.fp = c1]

MCEvent == [e \in Events |-> AllEvents[e]]

RowSymmetry == Permutations(Rows) \cup Permutations(Workers)
===============================================================================
