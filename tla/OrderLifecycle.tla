---------------------------- MODULE OrderLifecycle ----------------------------
(***************************************************************************)
(* What the money path of the backend promises about one order, without    *)
(* webhooks, wallets, ledgers or transactions: an order delivers its       *)
(* skills at most once, after it was opened, and a reversed order never    *)
(* delivers anything again.  A top-up delivers no skill, but its reversal  *)
(* may take back skills that other orders of the same account delivered.   *)
(* Settlement implements this specification.                               *)
(***************************************************************************)
CONSTANTS Orders,      \* order ids
          Skills,      \* skill ids
          Owner,       \* the account of each order
          Contents        \* the set of skills each order is for

VARIABLES phase,       \* where each order stands
          live         \* the skills each order entitles its owner to now

vars == <<phase, live>>

Phases == {"none", "pending", "held", "delivered", "reversed"}

TypeOK ==
  /\ phase \in [Orders -> Phases]
  /\ live \in [Orders -> SUBSET Skills]

Init ==
  /\ phase = [o \in Orders |-> "none"]
  /\ live = [o \in Orders |-> {}]

Open(o) ==
  /\ phase[o] = "none"
  /\ phase' = [phase EXCEPT ![o] = "pending"]
  /\ UNCHANGED live

Hold(o) ==
  /\ phase[o] = "pending"
  /\ phase' = [phase EXCEPT ![o] = "held"]
  /\ UNCHANGED live

\* A wallet purchase opens and delivers in one transaction.
Deliver(o) ==
  /\ phase[o] \in {"none", "pending", "held"}
  /\ phase' = [phase EXCEPT ![o] = "delivered"]
  /\ live' = [live EXCEPT ![o] = Contents[o]]

\* Other orders of the account may shrink: the claw-back of a top-up.
Reverse(o) ==
  /\ phase[o] \in {"pending", "held", "delivered"}
  /\ phase' = [phase EXCEPT ![o] = "reversed"]
  /\ live' \in [Orders -> SUBSET Skills]
  /\ live'[o] = {}
  /\ \A x \in Orders \ {o} :
       IF Owner[x] = Owner[o] THEN live'[x] \subseteq live[x]
                              ELSE live'[x] = live[x]

Next == \E o \in Orders : Open(o) \/ Hold(o) \/ Deliver(o) \/ Reverse(o)

Spec == Init /\ [][Next]_vars
===============================================================================
