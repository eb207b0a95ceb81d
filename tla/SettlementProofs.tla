--------------------------- MODULE SettlementProofs ---------------------------
(***************************************************************************)
(* What holds of Settlement for every set of accounts, orders, skills,     *)
(* currencies, checkout requests and keys; and that the loop of            *)
(* GrantService.revokeWalletGrantsMostRecentFirst revokes what Clawbacks   *)
(* allows, and anything Clawbacks allows in some order of the query.       *)
(***************************************************************************)
EXTENDS ClawbackWalk, FiniteSetTheorems, WellFoundedInduction, TLAPS

\* The order of a checkout request in flight is written by nobody else: its id was
\* made for this request, and the request has not written it yet.
RequestsFresh ==
  \A p \in Requests : request[p].pc # "idle" =>
    /\ request[p].order \in Orders
    /\ orderStatus[request[p].order] = "none"
    /\ \A q \in Requests \ {p} : request[q].order # request[p].order

IInv == TypeOK /\ GrantsBacked /\ NothingBeforeDelivery /\ RequestsFresh

\* A user without a wallet and a request that does nothing are well typed.
LEMMA IdleType == NoWallet \in WalletType /\ Idle \in RequestType
BY DEF NoWallet, Idle, WalletType, RequestType

\* The two ways an existing wallet changes: a debit, and a claw-back that freezes it.
LEMMA WalletChange ==
  ASSUME NEW w \in WalletType, NEW d \in Nat
  PROVE  /\ [w EXCEPT !.balance = @ - d] \in WalletType
         /\ [w EXCEPT !.balance = @ - d, !.status = "frozen"] \in WalletType
<1>1. w.balance - d \in Int
  BY DEF WalletType
<1>2. [w EXCEPT !.balance = @ - d] \in WalletType
  BY <1>1 DEF WalletType
<1>3. ASSUME NEW b \in Int
      PROVE  [w EXCEPT !.balance = b, !.status = "frozen"] \in WalletType
  BY DEF WalletType
<1>4. [w EXCEPT !.balance = @ - d, !.status = "frozen"] \in WalletType
  BY <1>1, <1>3
<1> QED
  BY <1>2, <1>4

\* The empty collections, with no request in flight, satisfy the invariant.
THEOREM InitIInv == Init => IInv
<1> SUFFICES ASSUME Init PROVE IInv
  OBVIOUS
<1> USE DEF Init
<1>1. TypeOK
  BY IdleType DEF TypeOK, Reversed
<1>2. GrantsBacked
  BY DEF GrantsBacked
<1>3. NothingBeforeDelivery
  BY DEF NothingBeforeDelivery
<1>4. RequestsFresh
  BY DEF RequestsFresh, Idle
<1> QED
  BY <1>1, <1>2, <1>3, <1>4 DEF IInv

-------------------------------------------------------------------------------
(* Checkout and the wallet purchase *)

\* The gate reserves an order id that no other request holds.
LEMMA GateKeeps ==
  ASSUME IInv, NEW p \in Requests, NEW o \in Orders, NEW k \in Keys \cup {None}, GateCheckout(p, o, k)
  PROVE  IInv'
<1> USE DEF IInv
<1>1. TypeOK'
  BY IdleType DEF TypeOK, GateCheckout, RequestType, orderVars, ownVars, moneyVars
<1>2. GrantsBacked'
  <2> SUFFICES ASSUME NEW x \in Orders, NEW s \in Skills, grants'[x][s] = "active"
               PROVE  /\ s \in Goods(x) /\ orderStatus'[x] = "paid"
                      /\ ~grantHeld'[x] /\ settled'[x] # "absent"
    BY DEF GrantsBacked
  <2> QED
    BY DEF TypeOK, GrantsBacked, NothingBeforeDelivery, GateCheckout, orderVars, ownVars,
       moneyVars
<1>3. NothingBeforeDelivery'
  BY DEF TypeOK, Reversed, NothingBeforeDelivery, GateCheckout, orderVars, ownVars, moneyVars
<1>4. RequestsFresh'
  BY NoneAssumption DEF TypeOK, RequestType, RequestsFresh, GateCheckout, orderVars, ownVars,
     moneyVars
<1> QED
  BY <1>1, <1>2, <1>3, <1>4 DEF IInv

\* A provider-paid order is written as pending.
LEMMA InsertKeeps ==
  ASSUME IInv, NEW p \in Requests, InsertMorOrder(p)
  PROVE  IInv'
<1> USE DEF IInv
<1>1. TypeOK'
  BY IdleType DEF TypeOK, RequestsFresh, InsertMorOrder, orderVars, ownVars, moneyVars
<1>2. GrantsBacked'
  <2> SUFFICES ASSUME NEW x \in Orders, NEW s \in Skills, grants'[x][s] = "active"
               PROVE  /\ s \in Goods(x) /\ orderStatus'[x] = "paid"
                      /\ ~grantHeld'[x] /\ settled'[x] # "absent"
    BY DEF GrantsBacked
  <2> QED
    BY DEF TypeOK, GrantsBacked, RequestsFresh, InsertMorOrder, orderVars, ownVars, moneyVars
<1>3. NothingBeforeDelivery'
  BY DEF TypeOK, Reversed, NothingBeforeDelivery, RequestsFresh, InsertMorOrder, orderVars,
     ownVars, moneyVars
<1>4. RequestsFresh'
  BY NoneAssumption DEF TypeOK, RequestType, RequestsFresh, InsertMorOrder, Idle, orderVars,
     ownVars, moneyVars
<1> QED
  BY <1>1, <1>2, <1>3, <1>4 DEF IInv

\* A failed request leaves nothing behind.
LEMMA AbandonKeeps ==
  ASSUME IInv, NEW p \in Requests, AbandonRequest(p)
  PROVE  IInv'
<1> USE DEF IInv
<1>1. TypeOK'
  BY IdleType DEF TypeOK, AbandonRequest, orderVars, ownVars, moneyVars
<1>2. GrantsBacked'
  <2> SUFFICES ASSUME NEW x \in Orders, NEW s \in Skills, grants'[x][s] = "active"
               PROVE  /\ s \in Goods(x) /\ orderStatus'[x] = "paid"
                      /\ ~grantHeld'[x] /\ settled'[x] # "absent"
    BY DEF GrantsBacked
  <2> QED
    BY DEF TypeOK, GrantsBacked, NothingBeforeDelivery, AbandonRequest, orderVars, ownVars,
       moneyVars
<1>3. NothingBeforeDelivery'
  BY DEF TypeOK, Reversed, NothingBeforeDelivery, AbandonRequest, orderVars, ownVars, moneyVars
<1>4. RequestsFresh'
  BY NoneAssumption DEF TypeOK, RequestType, RequestsFresh, AbandonRequest, Idle, orderVars,
     ownVars, moneyVars
<1> QED
  BY <1>1, <1>2, <1>3, <1>4 DEF IInv

\* The snapshot only reads.
LEMMA BeginKeeps ==
  ASSUME IInv, NEW p \in Requests, BeginWalletPurchase(p)
  PROVE  IInv'
<1> USE DEF IInv
<1>1. TypeOK'
  <2>1. request[p].order \in Orders
    BY DEF RequestsFresh, BeginWalletPurchase
  <2>2. wallet[Owner[request[p].order]] \in WalletType
    BY <2>1, OrderAssumption DEF TypeOK
  <2>3. [request[p] EXCEPT !.pc = "begun", !.seen = wallet[Owner[request[p].order]]] \in RequestType
    BY <2>2 DEF TypeOK, RequestType
  <2>4. request' = [request EXCEPT ![p] =
                      [request[p] EXCEPT !.pc = "begun", !.seen = wallet[Owner[request[p].order]]]]
    BY DEF BeginWalletPurchase
  <2>5. request' \in [Requests -> RequestType]
    BY <2>3, <2>4 DEF TypeOK
  <2> QED
    BY <2>5 DEF TypeOK, BeginWalletPurchase, orderVars, ownVars, moneyVars
<1>2. GrantsBacked'
  <2> SUFFICES ASSUME NEW x \in Orders, NEW s \in Skills, grants'[x][s] = "active"
               PROVE  /\ s \in Goods(x) /\ orderStatus'[x] = "paid"
                      /\ ~grantHeld'[x] /\ settled'[x] # "absent"
    BY DEF GrantsBacked
  <2> QED
    BY DEF TypeOK, GrantsBacked, NothingBeforeDelivery, BeginWalletPurchase, orderVars,
       ownVars, moneyVars
<1>3. NothingBeforeDelivery'
  BY DEF TypeOK, Reversed, NothingBeforeDelivery, BeginWalletPurchase, orderVars, ownVars,
     moneyVars
<1>4. RequestsFresh'
  BY DEF TypeOK, RequestType, RequestsFresh, BeginWalletPurchase, orderVars, ownVars, moneyVars
<1> QED
  BY <1>1, <1>2, <1>3, <1>4 DEF IInv

\* The commit writes an order that was not written, so there is nothing to overwrite.
LEMMA CommitKeeps ==
  ASSUME IInv, NEW p \in Requests, CommitWalletPurchase(p)
  PROVE  IInv'
<1> USE OrderAssumption DEF IInv
<1>1. TypeOK'
  <2> DEFINE o == request[p].order
             u == Owner[o]
  <2>1. o \in Orders /\ u \in Users /\ Amount[o] \in Nat
    BY DEF TypeOK, RequestsFresh, CommitWalletPurchase
  <2>2. funded' \in Seq(Orders) /\ settled' \in [Orders -> {"absent", "clean", "blocked"}]
    BY <2>1 DEF TypeOK, CommitWalletPurchase, RecordAndGrant, CreateGrants
  <2>3. grants' \in [Orders -> [Skills -> {"none", "active"} \cup Reversed]]
    BY <2>1 DEF TypeOK, CommitWalletPurchase, RecordAndGrant, CreateGrants
  <2>4. wallet' \in [Users -> WalletType]
    <3>1. wallet' = [wallet EXCEPT ![u] = [wallet[u] EXCEPT !.balance = @ - Amount[o]]]
      BY DEF CommitWalletPurchase
    <3>2. wallet[u] \in WalletType
      BY <2>1 DEF TypeOK
    <3>3. [wallet[u] EXCEPT !.balance = @ - Amount[o]] \in WalletType
      BY <2>1, <3>2, WalletChange
    <3> QED
      BY <3>1, <3>3 DEF TypeOK
  <2>5. ledger' \subseteq LedgerType
    BY <2>1 DEF TypeOK, CommitWalletPurchase, AppendLedger, RequestType, LedgerType, LedgerKeys
  <2> QED
    BY <2>1, <2>2, <2>3, <2>4, <2>5, IdleType DEF TypeOK, CommitWalletPurchase
<1>2. GrantsBacked'
  <2> SUFFICES ASSUME NEW x \in Orders, NEW s \in Skills, grants'[x][s] = "active"
               PROVE  /\ s \in Goods(x) /\ orderStatus'[x] = "paid"
                      /\ ~grantHeld'[x] /\ settled'[x] # "absent"
    BY DEF GrantsBacked
  <2>1. request[p].order \in Orders /\ orderStatus[request[p].order] = "none"
    BY DEF RequestsFresh, CommitWalletPurchase
  <2>2. CASE x = request[p].order
    <3>1. grants[x][s] = "none" /\ ~grantHeld[x]
      BY <2>1, <2>2 DEF Reversed, NothingBeforeDelivery
    <3> QED
      BY <3>1, <2>1, <2>2 DEF TypeOK, CommitWalletPurchase, RecordAndGrant, CreateGrants
  <2>3. CASE x # request[p].order
    BY <2>1, <2>3 DEF TypeOK, GrantsBacked, CommitWalletPurchase, RecordAndGrant, CreateGrants
  <2> QED
    BY <2>2, <2>3
<1>3. NothingBeforeDelivery'
  BY DEF TypeOK, Reversed, NothingBeforeDelivery, RequestsFresh, CommitWalletPurchase,
     RecordAndGrant, CreateGrants
<1>4. RequestsFresh'
  BY NoneAssumption DEF TypeOK, RequestType, RequestsFresh, CommitWalletPurchase, Idle
<1> QED
  BY <1>1, <1>2, <1>3, <1>4 DEF IInv

-------------------------------------------------------------------------------
(* The webhook transactions *)

\* A success settles a pending order.
LEMMA SettleKeeps ==
  ASSUME IInv, NEW o \in Orders \ (Topups \cup WalletOrders),
         NEW mor \in ProviderIds \cup {None}, NEW fp \in Fingerprints \cup {None}, SettleSkillOrBundle(o, mor, fp)
  PROVE  IInv'
<1> USE DEF IInv
<1>1. TypeOK'
  BY DEF TypeOK, Reversed, SettleSkillOrBundle, PaidUpdate, Flip, RecordAndGrant,
     CreateGrants, moneyVars
<1>2. GrantsBacked'
  <2> SUFFICES ASSUME NEW x \in Orders, NEW s \in Skills, grants'[x][s] = "active"
               PROVE  /\ s \in Goods(x) /\ orderStatus'[x] = "paid"
                      /\ ~grantHeld'[x] /\ settled'[x] # "absent"
    BY DEF GrantsBacked
  <2>1. CASE x = o
    <3>1. orderStatus[o] = "pending" /\ orderStatus'[o] = "paid"
      BY DEF TypeOK, SettleSkillOrBundle, PaidUpdate, Flip
    <3>3. ~grantHeld'[o]
      BY <3>1 DEF NothingBeforeDelivery, SettleSkillOrBundle, Reversed
    <3>2. s \in Goods(o) /\ settled'[o] # "absent"
      BY <2>1, <3>1 DEF TypeOK, Reversed, NothingBeforeDelivery, SettleSkillOrBundle, RecordAndGrant,
         CreateGrants
    <3> QED
      BY <2>1, <3>1, <3>2, <3>3
  <2>2. CASE x # o
    BY <2>2 DEF TypeOK, GrantsBacked, SettleSkillOrBundle, PaidUpdate, Flip, RecordAndGrant,
       CreateGrants, moneyVars
  <2> QED
    BY <2>1, <2>2
<1>3. NothingBeforeDelivery'
  BY DEF TypeOK, Reversed, NothingBeforeDelivery, SettleSkillOrBundle, PaidUpdate, Flip,
     RecordAndGrant,
     CreateGrants, moneyVars
<1>4. RequestsFresh'
  BY DEF TypeOK, RequestsFresh, SettleSkillOrBundle, PaidUpdate, Flip, RecordAndGrant,
     CreateGrants, moneyVars
<1> QED
  BY <1>1, <1>2, <1>3, <1>4 DEF IInv

\* A risky success is paid and withheld.
LEMMA HoldKeeps ==
  ASSUME IInv, NEW o \in Orders \ (Topups \cup WalletOrders),
         NEW mor \in ProviderIds \cup {None}, NEW fp \in Fingerprints \cup {None}, SettleOnHold(o, mor, fp)
  PROVE  IInv'
<1> USE DEF IInv
<1>1. TypeOK'
  BY DEF TypeOK, Reversed, SettleOnHold, PaidUpdate, Flip, ownVars, moneyVars
<1>2. GrantsBacked'
  <2> SUFFICES ASSUME NEW x \in Orders, NEW s \in Skills, grants'[x][s] = "active"
               PROVE  /\ s \in Goods(x) /\ orderStatus'[x] = "paid"
                      /\ ~grantHeld'[x] /\ settled'[x] # "absent"
    BY DEF GrantsBacked
  <2> QED
    BY DEF TypeOK, GrantsBacked, NothingBeforeDelivery, SettleOnHold, PaidUpdate, Flip,
       ownVars, moneyVars
<1>3. NothingBeforeDelivery'
  BY DEF TypeOK, Reversed, NothingBeforeDelivery, SettleOnHold, PaidUpdate, Flip, ownVars,
     moneyVars
<1>4. RequestsFresh'
  BY DEF TypeOK, RequestsFresh, SettleOnHold, PaidUpdate, Flip, ownVars, moneyVars
<1> QED
  BY <1>1, <1>2, <1>3, <1>4 DEF IInv

\* A cleared review delivers an order whose hold left no trace.
LEMMA ClearKeeps ==
  ASSUME IInv, NEW o \in Orders, ClearHeldOrder(o)
  PROVE  IInv'
<1> USE DEF IInv
<1>1. TypeOK'
  BY DEF TypeOK, Reversed, ClearHeldOrder, RecordAndGrant, CreateGrants, moneyVars
<1>2. GrantsBacked'
  <2> SUFFICES ASSUME NEW x \in Orders, NEW s \in Skills, grants'[x][s] = "active"
               PROVE  /\ s \in Goods(x) /\ orderStatus'[x] = "paid"
                      /\ ~grantHeld'[x] /\ settled'[x] # "absent"
    BY DEF GrantsBacked
  <2> QED
    BY DEF TypeOK, GrantsBacked, NothingBeforeDelivery, ClearHeldOrder, RecordAndGrant,
       CreateGrants, moneyVars
<1>3. NothingBeforeDelivery'
  BY DEF TypeOK, Reversed, NothingBeforeDelivery, ClearHeldOrder, RecordAndGrant,
     CreateGrants, moneyVars
<1>4. RequestsFresh'
  BY DEF TypeOK, RequestsFresh, ClearHeldOrder, RecordAndGrant, CreateGrants, moneyVars
<1> QED
  BY <1>1, <1>2, <1>3, <1>4 DEF IInv

\* A refund takes every active grant of the order.
LEMMA RefundKeeps ==
  ASSUME IInv, NEW o \in Orders, RefundOrder(o)
  PROVE  IInv'
<1> USE DEF IInv
<1>1. TypeOK'
  BY DEF TypeOK, Reversed, RefundOrder, Flip, FlipGrants, moneyVars
<1>2. GrantsBacked'
  <2> SUFFICES ASSUME NEW x \in Orders, NEW s \in Skills, grants'[x][s] = "active"
               PROVE  /\ s \in Goods(x) /\ orderStatus'[x] = "paid"
                      /\ ~grantHeld'[x] /\ settled'[x] # "absent"
    BY DEF GrantsBacked
  <2> QED
    BY DEF TypeOK, GrantsBacked, NothingBeforeDelivery, RefundOrder, Flip, FlipGrants,
       moneyVars
<1>3. NothingBeforeDelivery'
  BY DEF TypeOK, Reversed, NothingBeforeDelivery, RefundOrder, Flip, FlipGrants, moneyVars
<1>4. RequestsFresh'
  BY DEF TypeOK, RequestsFresh, RefundOrder, Flip, FlipGrants, moneyVars
<1> QED
  BY <1>1, <1>2, <1>3, <1>4 DEF IInv

\* A chargeback takes them too, and blocks the rows that exist.
LEMMA ChargebackKeeps ==
  ASSUME IInv, NEW o \in Orders, ChargebackOrder(o)
  PROVE  IInv'
<1> USE DEF IInv
<1>1. TypeOK'
  BY DEF TypeOK, Reversed, ChargebackOrder, Flip, FlipGrants, BlockAccount, moneyVars
<1>2. GrantsBacked'
  <2> SUFFICES ASSUME NEW x \in Orders, NEW s \in Skills, grants'[x][s] = "active"
               PROVE  /\ s \in Goods(x) /\ orderStatus'[x] = "paid"
                      /\ ~grantHeld'[x] /\ settled'[x] # "absent"
    BY DEF GrantsBacked
  <2> QED
    BY DEF TypeOK, GrantsBacked, NothingBeforeDelivery, ChargebackOrder, Flip, FlipGrants,
       BlockAccount, moneyVars
<1>3. NothingBeforeDelivery'
  BY DEF TypeOK, Reversed, NothingBeforeDelivery, ChargebackOrder, Flip, FlipGrants,
     BlockAccount, moneyVars
<1>4. RequestsFresh'
  BY DEF TypeOK, RequestsFresh, ChargebackOrder, Flip, FlipGrants, BlockAccount, moneyVars
<1> QED
  BY <1>1, <1>2, <1>3, <1>4 DEF IInv

\* A top-up is credited: no grant is touched.
LEMMA TopupKeeps ==
  ASSUME IInv, NEW o \in Topups, SettleTopup(o)
  PROVE  IInv'
<1> USE OrderAssumption DEF IInv
<1>1. TypeOK'
  <2>1. o \in Orders /\ Owner[o] \in Users /\ Amount[o] \in Nat /\ Currency[o] \in Currencies
    OBVIOUS
  <2>2. wallet' \in [Users -> WalletType]
    BY <2>1 DEF TypeOK, SettleTopup, WalletType
  <2>3. ledger' \subseteq LedgerType
    BY <2>1 DEF TypeOK, SettleTopup, AppendLedger, LedgerType, LedgerKeys
  <2> QED
    BY <2>1, <2>2, <2>3 DEF TypeOK, SettleTopup, Flip, ownVars
<1>2. GrantsBacked'
  <2> SUFFICES ASSUME NEW x \in Orders, NEW s \in Skills, grants'[x][s] = "active"
               PROVE  /\ s \in Goods(x) /\ orderStatus'[x] = "paid"
                      /\ ~grantHeld'[x] /\ settled'[x] # "absent"
    BY DEF GrantsBacked
  <2> QED
    BY DEF TypeOK, GrantsBacked, NothingBeforeDelivery, SettleTopup, Flip, ownVars
<1>3. NothingBeforeDelivery'
  BY DEF TypeOK, Reversed, NothingBeforeDelivery, SettleTopup, Flip, ownVars
<1>4. RequestsFresh'
  BY DEF TypeOK, RequestsFresh, SettleTopup, Flip, ownVars
<1> QED
  BY <1>1, <1>2, <1>3, <1>4 DEF IInv

\* A reversed top-up claws back grants of other orders, never of a withheld one.
LEMMA ReverseKeeps ==
  ASSUME IInv, NEW o \in Topups, NEW to \in Reversed, ReverseTopup(o, to)
  PROVE  IInv'
<1> USE OrderAssumption DEF IInv
<1>1. TypeOK'
  <2>1. o \in Orders /\ Owner[o] \in Users /\ Amount[o] \in Nat
    OBVIOUS
  <2>2. wallet' \in [Users -> WalletType]
    <3> DEFINE w == wallet[Owner[o]]
    <3>1. wallet' = [wallet EXCEPT ![Owner[o]] =
                       [w EXCEPT !.balance = @ - Amount[o], !.status = "frozen"]]
      BY DEF ReverseTopup
    <3>2. w \in WalletType
      BY <2>1 DEF TypeOK
    <3>3. [w EXCEPT !.balance = @ - Amount[o], !.status = "frozen"] \in WalletType
      BY <2>1, <3>2, WalletChange
    <3> QED
      BY <3>1, <3>3 DEF TypeOK
  <2>3. ledger' \subseteq LedgerType
    BY <2>1 DEF TypeOK, ReverseTopup, AppendLedger, LedgerType, LedgerKeys
  <2>4. grants' \in [Orders -> [Skills -> {"none", "active"} \cup Reversed]]
    BY DEF TypeOK, ReverseTopup, RevokeGrants, Reversed
  <2>5. settled' \in [Orders -> {"absent", "clean", "blocked"}]
    BY DEF TypeOK, ReverseTopup, BlockAccount
  <2> QED
    BY <2>1, <2>2, <2>3, <2>4, <2>5 DEF TypeOK, ReverseTopup, Flip
<1>2. GrantsBacked'
  <2> SUFFICES ASSUME NEW x \in Orders, NEW s \in Skills, grants'[x][s] = "active"
               PROVE  /\ s \in Goods(x) /\ orderStatus'[x] = "paid"
                      /\ ~grantHeld'[x] /\ settled'[x] # "absent"
    BY DEF GrantsBacked
  <2>1. grants[x][s] = "active"
    BY DEF ReverseTopup, RevokeGrants
  <2>2. x # o
    BY <2>1 DEF GrantsBacked, Goods
  <2>3. settled'[x] # "absent"
    BY <2>1 DEF GrantsBacked, ReverseTopup, BlockAccount
  <2> QED
    BY <2>1, <2>2, <2>3 DEF TypeOK, GrantsBacked, ReverseTopup, Flip
<1>3. NothingBeforeDelivery'
  <2>1. ASSUME NEW x \in Orders, NEW s \in Skills, grants[x][s] = "none"
        PROVE  grants'[x][s] = "none"
    BY <2>1 DEF TypeOK, ReverseTopup, Clawbacks, WalletGrants, RevokeGrants
  <2>2. ASSUME NEW x \in Orders, settled[x] = "absent"
        PROVE  settled'[x] = "absent"
    BY <2>2 DEF ReverseTopup, BlockAccount
  <2> QED
    BY <2>1, <2>2 DEF TypeOK, NothingBeforeDelivery, ReverseTopup, Flip, Reversed
<1>4. RequestsFresh'
  BY DEF TypeOK, RequestsFresh, ReverseTopup, Flip
<1> QED
  BY <1>1, <1>2, <1>3, <1>4 DEF IInv

-------------------------------------------------------------------------------

\* Every checkout step and every settlement transaction preserves the invariant.
THEOREM NextIInv == IInv /\ [Next]_vars => IInv'
<1> SUFFICES ASSUME IInv, [Next]_vars PROVE IInv'
  OBVIOUS
<1>1. CASE Checkout
  BY <1>1, GateKeeps, InsertKeeps, AbandonKeeps, BeginKeeps, CommitKeeps DEF Checkout
<1>2. CASE Settle
  BY <1>2, SettleKeeps, HoldKeeps, ClearKeeps, RefundKeeps, ChargebackKeeps DEF Settle
<1>3. CASE SettleWallet
  BY <1>3, TopupKeeps, ReverseKeeps DEF SettleWallet
<1>4. CASE UNCHANGED vars
  BY <1>4 DEF vars, orderVars, ownVars, moneyVars, IInv, TypeOK, GrantsBacked,
     NothingBeforeDelivery, RequestsFresh
<1> QED
  BY <1>1, <1>2, <1>3, <1>4 DEF Next

\* Whatever is interleaved, grants, settlement rows, orders and requests agree.
THEOREM Invariance == Spec => []IInv
BY InitIInv, NextIInv, PTL DEF Spec

\* Whatever is interleaved, every document keeps its type.
THEOREM TypeCorrect == Spec => []TypeOK
BY Invariance, PTL DEF IInv

\* Licenses are issued from active grants: every active grant stands on an order
\* that is paid, not withheld and in the settlement log.
THEOREM GrantsAreBacked == Spec => []GrantsBacked
BY Invariance, PTL DEF IInv

\* A withheld or unpaid order has no grant and no settlement-log row.
THEOREM NothingIsDeliveredEarly == Spec => []NothingBeforeDelivery
BY Invariance, PTL DEF IInv

\* Both together: what is delivered was paid and cleared, and stands.
THEOREM DeliverySafety == Spec => []DeliveryIsSafe
BY GrantsAreBacked, NothingIsDeliveredEarly, PTL DEF DeliveryIsSafe

-------------------------------------------------------------------------------
(* Debt *)

\* A balance goes below zero only by a claw-back, and then nobody spends it.
THEOREM DebtFreezes == Spec => []DebtIsFrozen
<1>1. Init => DebtIsFrozen
  BY DEF Init, DebtIsFrozen, NoWallet
<1>2. ASSUME IInv, DebtIsFrozen, [Next]_vars PROVE DebtIsFrozen'
  <2> USE <1>2, OrderAssumption DEF IInv, TypeOK, DebtIsFrozen
  <2>1. CASE Checkout
    <3> SUFFICES ASSUME NEW p \in Requests, CommitWalletPurchase(p) PROVE DebtIsFrozen'
      BY <2>1 DEF Checkout, GateCheckout, InsertMorOrder, AbandonRequest, BeginWalletPurchase,
         moneyVars
    <3>1. request[p].order \in Orders
      BY DEF RequestsFresh, CommitWalletPurchase
    <3> QED
      BY <3>1 DEF CommitWalletPurchase, Spendable, WalletType
  <2>2. CASE Settle
    BY <2>2 DEF Settle, SettleSkillOrBundle, SettleOnHold, ClearHeldOrder, RefundOrder,
       ChargebackOrder, moneyVars
  <2>3. CASE SettleWallet
    <3>1. ASSUME NEW o \in Topups, SettleTopup(o) PROVE DebtIsFrozen'
      BY <3>1 DEF SettleTopup, WalletType
    <3>2. ASSUME NEW o \in Topups, NEW to \in Reversed, ReverseTopup(o, to) PROVE DebtIsFrozen'
      BY <3>2 DEF ReverseTopup, WalletType
    <3> QED
      BY <2>3, <3>1, <3>2 DEF SettleWallet
  <2>4. CASE UNCHANGED vars
    BY <2>4 DEF vars, moneyVars
  <2> QED
    BY <2>1, <2>2, <2>3, <2>4 DEF Next
<1> QED
  BY <1>1, <1>2, Invariance, PTL DEF Spec

-------------------------------------------------------------------------------
(* The settlement log *)

\* recordSettled saves a clean row over whatever is there, yet never over a blocked
\* one, because each caller settles an order that left no row so far.
THEOREM BlocksStick == Spec => BlockIsSticky
<1>1. ASSUME IInv, [Next]_vars, NEW x \in Orders, settled[x] = "blocked"
      PROVE  settled'[x] = "blocked"
  <2> USE <1>1 DEF IInv, TypeOK
  <2>1. ASSUME NEW o \in Orders, RecordAndGrant(o), settled[o] = "absent"
        PROVE  settled'[x] = "blocked"
    BY <2>1 DEF RecordAndGrant
  <2>2. ASSUME NEW u, BlockAccount(u) PROVE settled'[x] = "blocked"
    BY <2>2 DEF BlockAccount
  <2>3. CASE Checkout
    <3> SUFFICES ASSUME NEW p \in Requests, CommitWalletPurchase(p) PROVE settled'[x] = "blocked"
      BY <2>3 DEF Checkout, GateCheckout, InsertMorOrder, AbandonRequest, BeginWalletPurchase,
         ownVars
    <3>1. request[p].order \in Orders /\ settled[request[p].order] = "absent"
      BY DEF RequestsFresh, NothingBeforeDelivery, CommitWalletPurchase
    <3> QED
      BY <3>1, <2>1 DEF CommitWalletPurchase
  <2>4. CASE Settle
    <3>1. ASSUME NEW o \in Orders, NEW mor, NEW fp, SettleSkillOrBundle(o, mor, fp)
          PROVE  settled'[x] = "blocked"
      BY <3>1, <2>1 DEF SettleSkillOrBundle, PaidUpdate, Flip, NothingBeforeDelivery
    <3>2. ASSUME NEW o \in Orders, ClearHeldOrder(o) PROVE settled'[x] = "blocked"
      BY <3>2, <2>1 DEF ClearHeldOrder, NothingBeforeDelivery
    <3> QED
      BY <2>4, <3>1, <3>2, <2>2 DEF Settle, SettleOnHold, RefundOrder, ChargebackOrder, ownVars
  <2>5. CASE SettleWallet
    BY <2>5, <2>2 DEF SettleWallet, SettleTopup, ReverseTopup, ownVars
  <2>6. CASE UNCHANGED vars
    BY <2>6 DEF vars, ownVars
  <2> QED
    BY <2>3, <2>4, <2>5, <2>6 DEF Next
<1>2. IInv /\ [Next]_vars =>
        [\A o \in Orders : settled[o] = "blocked" => settled'[o] = "blocked"]_vars
  BY <1>1
<1> QED
  BY <1>2, Invariance, PTL DEF Spec, BlockIsSticky

\* Nobody loses a skill but by the reversal of an order of that account, and only a
\* claw-back takes a skill that another order of the account still covers.
THEOREM LossesAreReversals == Spec => LossNeedsReversal
<1> DEFINE Reverses(o) == orderStatus[o] \notin Reversed /\ orderStatus'[o] \in Reversed
           Loss == \A u \in Users, s \in Skills : Owns(u, s) /\ ~Owns(u, s)' =>
                     \E o \in OrdersOf(u) :
                       /\ Reverses(o)
                       /\ o \in Topups \/ \A x \in OrdersOf(u) \ {o} : grants[x][s] # "active"
<1>1. ASSUME IInv, [Next]_vars, NEW u \in Users, NEW s \in Skills, Owns(u, s), ~Owns(u, s)'
      PROVE  \E o \in OrdersOf(u) :
               /\ Reverses(o)
               /\ o \in Topups \/ \A x \in OrdersOf(u) \ {o} : grants[x][s] # "active"
  <2> USE <1>1 DEF IInv, TypeOK
  <2>1. PICK a \in OrdersOf(u) : grants[a][s] = "active" /\ grants'[a][s] # "active"
    BY DEF Owns
  <2>2. \A x \in OrdersOf(u) : grants'[x][s] # "active"
    BY DEF Owns
  <2>3. a \in Orders /\ Owner[a] = u
    BY <2>1 DEF OrdersOf
  <2>4. ASSUME NEW o \in Orders, RecordAndGrant(o) PROVE FALSE
    BY <2>1, <2>3, <2>4 DEF RecordAndGrant, CreateGrants
  <2>5. ASSUME NEW o \in Orders, NEW to \in Reversed, Flip(o, {"pending", "paid"}, to)
        PROVE  Reverses(o)
    BY <2>5 DEF Flip, Reversed
  <2>6. ASSUME NEW o \in Orders, NEW to \in Reversed, Flip(o, {"pending", "paid"}, to),
               FlipGrants(o, to)
        PROVE  \E x \in OrdersOf(u) :
                 Reverses(x) /\ \A y \in OrdersOf(u) \ {x} : grants[y][s] # "active"
    <3>1. \A x \in Orders \ {o} : grants'[x] = grants[x]
      BY <2>6 DEF FlipGrants
    <3>2. a = o
      BY <2>1, <2>3, <3>1
    <3>3. \A y \in OrdersOf(u) \ {o} : grants[y][s] # "active"
      BY <2>2, <3>1 DEF OrdersOf
    <3> QED
      BY <2>1, <2>5, <2>6, <3>2, <3>3
  <2>7. ASSUME NEW o \in Topups, NEW to \in Reversed, ReverseTopup(o, to)
        PROVE  \E x \in OrdersOf(u) : Reverses(x) /\ x \in Topups
    <3>1. o \in Orders
      BY OrderAssumption
    <3>2. PICK R \in Clawbacks(Owner[o], Amount[o]) : RevokeGrants(R)
      BY <2>7 DEF ReverseTopup
    <3>3. <<a, s>> \in R
      BY <2>1, <2>3, <3>2 DEF RevokeGrants
    <3>4. Owner[a] = Owner[o]
      BY <3>2, <3>3 DEF Clawbacks, WalletGrants, OrdersOf
    <3>5. Reverses(o)
      BY <2>5, <2>7, <3>1 DEF ReverseTopup
    <3> QED
      BY <2>3, <3>1, <3>4, <3>5 DEF OrdersOf
  <2>8. CASE Checkout
    <3>1. UNCHANGED grants \/ \E p \in Requests : CommitWalletPurchase(p)
      BY <2>8 DEF Checkout, GateCheckout, InsertMorOrder, AbandonRequest, BeginWalletPurchase,
         ownVars
    <3> QED
      BY <2>1, <3>1, <2>4 DEF CommitWalletPurchase, RequestsFresh
  <2>9. CASE Settle
    BY <2>9, <2>1, <2>4, <2>6 DEF Settle, SettleSkillOrBundle, SettleOnHold, ClearHeldOrder,
       RefundOrder, ChargebackOrder, ownVars, Reversed
  <2>10. CASE SettleWallet
    BY <2>10, <2>1, <2>7 DEF SettleWallet, SettleTopup, ownVars
  <2>11. CASE UNCHANGED vars
    BY <2>11, <2>1 DEF vars, ownVars
  <2> QED
    BY <2>8, <2>9, <2>10, <2>11 DEF Next
<1>2. IInv /\ [Next]_vars => [Loss]_vars
  BY <1>1
<1>3. Spec => [][Loss]_vars
  <2> HIDE DEF Loss
  <2> QED
    BY <1>2, Invariance, PTL DEF Spec
<1> QED
  BY <1>3 DEF LossNeedsReversal

-------------------------------------------------------------------------------
(* The sum of ledger lines.  A recursive function is the CHOOSE of one that satisfies *)
(* its equation, so that there is one has to be proved first.                          *)

\* A set of numbers has a least one.  What is proved of every finite set of ledger
\* lines below supposes a smallest set that breaks it and looks at a smaller one.
LEMMA LeastNat ==
  ASSUME NEW S \in SUBSET Nat, S # {}
  PROVE  \E n \in S : \A m \in S : n <= m
<1>1. PICK x \in S : \A y \in S : ~ (<<y, x>> \in OpToRel(<, Nat))
  BY NatLessThanWellFounded, WFMin
<1>2. ASSUME NEW y \in S PROVE x <= y
  <2>1. SUFFICES ASSUME y < x PROVE FALSE
    OBVIOUS
  <2>2. <<y, x>> \in Nat \X Nat /\ <<y, x>>[1] < <<y, x>>[2]
    BY <2>1
  <2>3. <<y, x>> \in OpToRel(<, Nat)
    BY <2>2 DEF OpToRel
  <2> QED  BY <1>1, <2>3
<1> QED  BY <1>2

\* The element that a sum takes out of a set next.
AnyOf(s) == CHOOSE x \in s : TRUE

\* g adds up the weights of every set in D the way MapThenSumSet does.
AddsUp(g, D, w) ==
  g = [s \in D |-> IF s = {} THEN 0 ELSE w[AnyOf(s)] + g[s \ {AnyOf(s)}]]

\* The sums over all sets of elements of L.
Total(L, w) == CHOOSE g : AddsUp(g, SUBSET L, w)

\* The sets of at most n elements.
UpTo(L, n) == {s \in SUBSET L : Cardinality(s) <= n}

\* Taking one element out of a non-empty set leaves a smaller one.
LEMMA RemoveAny ==
  ASSUME NEW L, IsFiniteSet(L), NEW s \in SUBSET L, s # {}
  PROVE  /\ AnyOf(s) \in s
         /\ IsFiniteSet(s) /\ s \ {AnyOf(s)} \in SUBSET L
         /\ Cardinality(s) \in Nat /\ Cardinality(s \ {AnyOf(s)}) = Cardinality(s) - 1
         /\ Cardinality(s) > 0
<1>1. AnyOf(s) \in s
  BY DEF AnyOf
<1>2. IsFiniteSet(s)
  BY FS_Subset
<1>3. Cardinality(s) \in Nat /\ Cardinality(s) # 0
  BY <1>2, FS_CardinalityType, FS_EmptySet
<1>4. Cardinality(s \ {AnyOf(s)}) = Cardinality(s) - 1
  BY <1>1, <1>2, FS_RemoveElement
<1> QED
  BY <1>1, <1>2, <1>3, <1>4

\* There is a function that adds up all sets of at most n elements: from the one for
\* n - 1, one more is added.
LEMMA SomeSum ==
  ASSUME NEW L, IsFiniteSet(L), NEW w
  PROVE  \A n \in Nat : \E g : AddsUp(g, UpTo(L, n), w)
<1> DEFINE Bad == {n \in Nat : ~ \E g : AddsUp(g, UpTo(L, n), w)}
<1> SUFFICES ASSUME Bad # {} PROVE FALSE
  OBVIOUS
<1>1. PICK n \in Bad : \A m \in Bad : n <= m
  <2>1. Bad \in SUBSET Nat
    OBVIOUS
  <2> HIDE DEF Bad
  <2> QED
    BY <2>1, LeastNat
<1>2. n \in Nat /\ ~ \E g : AddsUp(g, UpTo(L, n), w)
  OBVIOUS
<1>3. \E g : \A s \in UpTo(L, n) : s # {} =>
        g[s \ {AnyOf(s)}] = IF s \ {AnyOf(s)} = {} THEN 0 ELSE
           w[AnyOf(s \ {AnyOf(s)})] + g[(s \ {AnyOf(s)}) \ {AnyOf(s \ {AnyOf(s)})}]
  <2>1. CASE n = 0
    <3>1. ASSUME NEW s \in UpTo(L, n), s # {} PROVE FALSE
      <4>1. s \in SUBSET L /\ Cardinality(s) <= n
        BY DEF UpTo
      <4>2. Cardinality(s) > 0 /\ Cardinality(s) \in Nat
        BY <3>1, <4>1, RemoveAny
      <4> QED
        BY <2>1, <4>1, <4>2
    <3> QED
      BY <3>1
  <2>2. CASE n # 0
    <3>1. n - 1 \in Nat /\ n - 1 \notin Bad
      BY <1>1, <2>2
    <3>2. PICK g : AddsUp(g, UpTo(L, n - 1), w)
      BY <3>1
    <3>3. ASSUME NEW s \in UpTo(L, n), s # {} PROVE s \ {AnyOf(s)} \in UpTo(L, n - 1)
      BY <3>3, <1>2, RemoveAny DEF UpTo
    <3> QED
      BY <3>2, <3>3 DEF AddsUp
  <2> QED
    BY <2>1, <2>2
<1>4. PICK g : \A s \in UpTo(L, n) : s # {} =>
        g[s \ {AnyOf(s)}] = IF s \ {AnyOf(s)} = {} THEN 0 ELSE
           w[AnyOf(s \ {AnyOf(s)})] + g[(s \ {AnyOf(s)}) \ {AnyOf(s \ {AnyOf(s)})}]
  BY <1>3
<1> DEFINE h == [s \in UpTo(L, n) |-> IF s = {} THEN 0 ELSE w[AnyOf(s)] + g[s \ {AnyOf(s)}]]
<1>5. ASSUME NEW s \in UpTo(L, n), s # {} PROVE s \ {AnyOf(s)} \in UpTo(L, n)
  BY <1>5, <1>2, RemoveAny DEF UpTo
<1>6. ASSUME NEW s \in UpTo(L, n), s # {} PROVE h[s \ {AnyOf(s)}] = g[s \ {AnyOf(s)}]
  BY <1>4, <1>5, <1>6
<1>7. h = [s \in UpTo(L, n) |-> IF s = {} THEN 0 ELSE w[AnyOf(s)] + h[s \ {AnyOf(s)}]]
  BY <1>6
<1> HIDE DEF h
<1>8. AddsUp(h, UpTo(L, n), w)
  BY <1>7 DEF AddsUp
<1> QED
  BY <1>2, <1>8

\* So the recursion that defines a sum has a solution.
LEMMA TotalAddsUp ==
  ASSUME NEW L, IsFiniteSet(L), NEW w
  PROVE  AddsUp(Total(L, w), SUBSET L, w)
<1>1. Cardinality(L) \in Nat
  BY FS_CardinalityType
<1>2. UpTo(L, Cardinality(L)) = SUBSET L
  BY FS_Subset DEF UpTo
<1>3. \E g : AddsUp(g, UpTo(L, Cardinality(L)), w)
  BY <1>1, SomeSum
<1> QED
  BY <1>2, <1>3 DEF Total

\* Among subsets of a finite set there is one with the fewest elements.
LEMMA Smallest ==
  ASSUME NEW L, IsFiniteSet(L), NEW B \in SUBSET SUBSET L, B # {}
  PROVE  \E s \in B : \A t \in B : Cardinality(s) <= Cardinality(t)
<1> DEFINE N == {Cardinality(s) : s \in B}
<1>1. N \in SUBSET Nat /\ N # {}
  BY FS_Subset, FS_CardinalityType
<1> HIDE DEF N
<1>2. PICK n \in N : \A m \in N : n <= m
  BY <1>1, LeastNat
<1> QED
  BY <1>2 DEF N

\* What a set sums up to depends on the weights of its elements only.
LEMMA SameSum ==
  ASSUME NEW L, NEW S \in SUBSET L, IsFiniteSet(S), NEW v, NEW w, NEW g, NEW h,
         AddsUp(g, SUBSET S, v), AddsUp(h, SUBSET L, w), \A x \in S : v[x] = w[x]
  PROVE  \A s \in SUBSET S : g[s] = h[s]
<1> DEFINE Bad == {s \in SUBSET S : g[s] # h[s]}
<1>2. SUFFICES ASSUME Bad # {} PROVE FALSE
  OBVIOUS
<1>3. PICK s \in Bad : \A t \in Bad : Cardinality(s) <= Cardinality(t)
  <2>1. Bad \in SUBSET SUBSET S
    OBVIOUS
  <2> HIDE DEF Bad
  <2> QED
    BY <2>1, <1>2, Smallest
<1>4. s \in SUBSET S /\ g[s] # h[s]
  OBVIOUS
<1>5. s # {}
  BY <1>4 DEF AddsUp
<1> DEFINE t == s \ {AnyOf(s)}
<1>6. /\ t \in SUBSET S /\ AnyOf(s) \in s
      /\ Cardinality(t) = Cardinality(s) - 1 /\ Cardinality(s) \in Nat
  BY <1>4, <1>5, RemoveAny
<1>7. t \notin Bad
  <2> HIDE DEF Bad, t
  <2> QED
    BY <1>3, <1>6
<1>8. g[t] = h[t]
  BY <1>6, <1>7
<1>9. g[s] = v[AnyOf(s)] + g[t] /\ h[s] = w[AnyOf(s)] + h[t]
  BY <1>4, <1>5 DEF AddsUp
<1> QED
  BY <1>4, <1>6, <1>8, <1>9

\* Elements that weigh a whole amount.
Weighs(L, w) == \A l \in L : w[l] \in Int

\* Amounts sum up to an amount.
LEMMA SumType ==
  ASSUME NEW L, IsFiniteSet(L), NEW w, Weighs(L, w)
  PROVE  \A s \in SUBSET L : Total(L, w)[s] \in Int
<1> DEFINE Bad == {s \in SUBSET L : Total(L, w)[s] \notin Int}
<1>1. AddsUp(Total(L, w), SUBSET L, w)
  BY TotalAddsUp
<1>2. SUFFICES ASSUME Bad # {} PROVE FALSE
  OBVIOUS
<1>3. PICK s \in Bad : \A t \in Bad : Cardinality(s) <= Cardinality(t)
  <2>1. Bad \in SUBSET SUBSET L
    OBVIOUS
  <2> HIDE DEF Bad
  <2> QED
    BY <2>1, <1>2, Smallest
<1>4. s \in SUBSET L /\ Total(L, w)[s] \notin Int
  OBVIOUS
<1>5. s # {}
  BY <1>1, <1>4 DEF AddsUp
<1> DEFINE t == s \ {AnyOf(s)}
<1>6. t \in SUBSET L /\ AnyOf(s) \in s /\ Cardinality(t) = Cardinality(s) - 1 /\ Cardinality(s) \in Nat
  BY <1>4, <1>5, RemoveAny
<1>7. t \notin Bad
  <2> HIDE DEF Bad, t
  <2> QED
    BY <1>3, <1>6
<1>8. Total(L, w)[s] = w[AnyOf(s)] + Total(L, w)[t]
  BY <1>1, <1>4, <1>5 DEF AddsUp
<1>9. w[AnyOf(s)] \in Int
  BY <1>4, <1>6 DEF Weighs
<1> QED
  BY <1>4, <1>6, <1>7, <1>8, <1>9

\* A sum may take its elements out in any order.
LEMMA TakeOneOut ==
  ASSUME NEW L, IsFiniteSet(L), NEW w, Weighs(L, w)
  PROVE  \A s \in SUBSET L : \A x \in s : Total(L, w)[s] = w[x] + Total(L, w)[s \ {x}]
<1> DEFINE T(s) == Total(L, w)[s]
           Bad == {s \in SUBSET L : \E x \in s : T(s) # w[x] + T(s \ {x})}
<1>1. AddsUp(Total(L, w), SUBSET L, w)
  BY TotalAddsUp
<1>2. SUFFICES ASSUME Bad # {} PROVE FALSE
  OBVIOUS
<1>3. PICK s \in Bad : \A t \in Bad : Cardinality(s) <= Cardinality(t)
  <2>1. Bad \in SUBSET SUBSET L
    OBVIOUS
  <2> HIDE DEF Bad
  <2> QED
    BY <2>1, <1>2, Smallest
<1>4. PICK x \in s : T(s) # w[x] + T(s \ {x})
  OBVIOUS
<1>5. s \in SUBSET L
  OBVIOUS
<1> DEFINE c == AnyOf(s)
<1>6. /\ c \in s /\ IsFiniteSet(s)
      /\ Cardinality(s) \in Nat /\ Cardinality(s \ {c}) = Cardinality(s) - 1
  BY <1>4, <1>5, RemoveAny
<1>7. Cardinality(s \ {x}) = Cardinality(s) - 1
  BY <1>4, <1>6, FS_RemoveElement
<1>8. T(s) = w[c] + T(s \ {c})
  BY <1>1, <1>4, <1>5 DEF AddsUp
<1>9. c # x
  BY <1>4, <1>8
<1>10. s \ {c} \notin Bad /\ s \ {x} \notin Bad
  <2> HIDE DEF Bad, c
  <2> QED
    BY <1>3, <1>6, <1>7
<1>11. T(s \ {c}) = w[x] + T((s \ {c}) \ {x})
  BY <1>4, <1>5, <1>9, <1>10
<1>12. T(s \ {x}) = w[c] + T((s \ {x}) \ {c})
  BY <1>5, <1>6, <1>9, <1>10
<1>13. (s \ {c}) \ {x} = (s \ {x}) \ {c}
  OBVIOUS
<1>14. T((s \ {x}) \ {c}) \in Int
  BY <1>5, SumType
<1>15. w[x] \in Int /\ w[c] \in Int
  BY <1>4, <1>5, <1>6 DEF Weighs
<1> HIDE DEF T, c, Bad
<1>16. T(s) = w[c] + (w[x] + T((s \ {x}) \ {c}))
  BY <1>8, <1>11, <1>13
<1>17. T(s) = w[x] + (w[c] + T((s \ {x}) \ {c}))
  BY <1>14, <1>15, <1>16
<1> QED
  BY <1>4, <1>12, <1>17

\* Of two sets of elements that differ by one, the totals differ by its weight, each
\* computed from its own elements.
LEMMA TotalAddOne ==
  ASSUME NEW L, IsFiniteSet(L), NEW w, Weighs(L, w), NEW x \in L
  PROVE  /\ Total(L, w)[L] = Total(L \ {x}, w)[L \ {x}] + w[x]
         /\ Total(L \ {x}, w)[L \ {x}] \in Int
<1> DEFINE M == L \ {x}
<1>1. M \in SUBSET L /\ IsFiniteSet(M) /\ L \in SUBSET L /\ M \in SUBSET M
  <2>1. M \in SUBSET L
    OBVIOUS
  <2> QED
    BY <2>1, FS_Subset
<1>2. Total(L, w)[L] = w[x] + Total(L, w)[M] /\ Total(L, w)[M] \in Int /\ w[x] \in Int
  BY <1>1, TakeOneOut, SumType DEF Weighs
<1>3. AddsUp(Total(L, w), SUBSET L, w) /\ AddsUp(Total(M, w), SUBSET M, w)
  BY <1>1, TotalAddsUp
<1>4. Total(M, w)[M] = Total(L, w)[M]
  <2> HIDE DEF M
  <2> QED
    BY <1>1, <1>3, SameSum
<1> QED
  BY <1>2, <1>4

\* The sum over no elements.
LEMMA TotalOfNone == ASSUME NEW w PROVE Total({}, w)[{}] = 0
<1>1. AddsUp(Total({}, w), SUBSET {}, w)
  BY FS_EmptySet, TotalAddsUp
<1> QED
  BY <1>1 DEF AddsUp

\* The sum that BalanceIsLedger is about.
SumOf(S) == MapThenSumSet(LAMBDA l : l.delta, S)
Deltas(S) == [l \in S |-> l.delta]

\* The sum over S that the library computes.
LEMMA SumIsTotal ==
  ASSUME NEW L, IsFiniteSet(L), NEW S \in SUBSET L
  PROVE  SumOf(S) = Total(S, Deltas(L))[S]
<1> DEFINE Is(g) == g = [s \in SUBSET S |->
                           IF s = {} THEN 0 ELSE AnyOf(s).delta + g[s \ {AnyOf(s)}]]
           iter == CHOOSE g : Is(g)
<1>1. SumOf(S) = iter[S]
  BY DEF SumOf, MapThenSumSet, MapThenFoldSet, AnyOf
<1>2. IsFiniteSet(S)
  BY FS_Subset
<1>3. ASSUME NEW s \in SUBSET S, s # {} PROVE AnyOf(s).delta = Deltas(L)[AnyOf(s)]
  BY <1>3 DEF Deltas, AnyOf
<1>4. ASSUME NEW g PROVE Is(g) <=> AddsUp(g, SUBSET S, Deltas(L))
  BY <1>3 DEF AddsUp
<1>5. AddsUp(Total(S, Deltas(L)), SUBSET S, Deltas(L))
  BY <1>2, TotalAddsUp
<1>6. Is(iter)
  <2>1. \E g : Is(g)
    BY <1>4, <1>5
  <2> HIDE DEF Is
  <2> QED
    BY <2>1
<1>7. AddsUp(iter, SUBSET S, Deltas(L))
  <2> HIDE DEF Is, iter
  <2> QED
    BY <1>4, <1>6
<1>8. S \in SUBSET S
  OBVIOUS
<1> HIDE DEF iter
<1> QED
  BY <1>1, <1>2, <1>5, <1>7, <1>8, SameSum

\* Lines that change a balance by a whole amount.
Lines(L) == \A l \in L : l.delta \in Int

\* The sum over some lines when one is added.
LEMMA AddLine ==
  ASSUME NEW L, IsFiniteSet(L), Lines(L), NEW x, x \notin L, x.delta \in Int
  PROVE  SumOf(L \cup {x}) = SumOf(L) + x.delta
<1> DEFINE M == L \cup {x}
<1>1. IsFiniteSet(M) /\ Lines(M) /\ M \in SUBSET M /\ L \in SUBSET M /\ x \in M /\ M \ {x} = L
  BY FS_AddElement DEF Lines
<1> HIDE DEF M
<1>2. Weighs(M, Deltas(M)) /\ Deltas(M)[x] = x.delta
  BY <1>1 DEF Weighs, Deltas, Lines
<1>3. Total(M, Deltas(M))[M] = Total(L, Deltas(M))[L] + x.delta
  BY <1>1, <1>2, TotalAddOne
<1>4. SumOf(L) = Total(L, Deltas(M))[L] /\ SumOf(M) = Total(M, Deltas(M))[M]
  BY <1>1, SumIsTotal
<1>5. SumOf(M) = SumOf(L) + x.delta
  BY <1>3, <1>4
<1> QED
  BY <1>5 DEF M

\* No lines, no balance.
LEMMA NoLines == SumOf({}) = 0
BY FS_EmptySet, SumIsTotal, TotalOfNone

\* BalanceIsLedger, with the sum named.
LEMMA BalanceIsSum == BalanceIsLedger <=> \A u \in Users : wallet[u].balance = SumOf(LedgerOf(u))
BY DEF BalanceIsLedger, SumOf

-------------------------------------------------------------------------------
(* The wallet *)

\* Only a wallet order is ever bought in the two steps of payWithWallet.
BegunIsWallet ==
  \A p \in Requests : request[p].pc = "begun" => request[p].order \in WalletOrders

\* The balance of every wallet is the sum of its ledger lines.
Books == \A u \in Users : wallet[u].balance = SumOf(LedgerOf(u))

\* WalletIsSound but for the freeze of debts, with what keeps it.
WInv == /\ IInv /\ BegunIsWallet /\ IsFiniteSet(ledger)
        /\ Books /\ LedgerFollowsOrders

\* Without orders and ledger lines the books are right.
LEMMA InitWInv == Init => WInv
<1> SUFFICES ASSUME Init PROVE WInv
  OBVIOUS
<1>1. IInv
  BY InitIInv
<1>2. BegunIsWallet
  BY DEF Init, BegunIsWallet, Idle
<1>3. IsFiniteSet(ledger)
  BY FS_EmptySet DEF Init
<1>4. Books
  BY NoLines DEF Init, Books, LedgerOf, NoWallet
<1>5. LedgerFollowsOrders
  BY OrderAssumption DEF Init, LedgerFollowsOrders, KeyUsed, Reversed
<1> QED
  BY <1>1, <1>2, <1>3, <1>4, <1>5 DEF WInv

\* A ledger line and the change of the balance it tells of, written together.
LEMMA BooksKept ==
  ASSUME TypeOK, IsFiniteSet(ledger), Books,
         NEW k, NEW u \in Users, NEW o, NEW d \in Int, AppendLedger(k, u, o, d),
         \A v \in Users : wallet'[v].balance = IF v = u THEN wallet[v].balance + d
                                                        ELSE wallet[v].balance
  PROVE  Books' /\ IsFiniteSet(ledger')
<1> DEFINE line == [key |-> k, user |-> u, order |-> o, delta |-> d]
<1>1. line \notin ledger /\ ledger' = ledger \cup {line}
  BY DEF AppendLedger, KeyUsed
<1>2. line.user = u /\ line.delta = d
  OBVIOUS
<1> HIDE DEF line
<1>3. IsFiniteSet(ledger')
  BY <1>1, FS_AddElement
<1>4. ASSUME NEW v \in Users PROVE wallet'[v].balance = SumOf(LedgerOf(v)')
  <2>1. CASE v = u
    <3>1. LedgerOf(v)' = LedgerOf(v) \cup {line} /\ line \notin LedgerOf(v)
      BY <1>1, <1>2, <2>1 DEF LedgerOf
    <3>2. IsFiniteSet(LedgerOf(v))
      BY FS_Subset DEF LedgerOf
    <3>3. Lines(LedgerOf(v))
      BY DEF Lines, LedgerOf, TypeOK, LedgerType
    <3>4. SumOf(LedgerOf(v) \cup {line}) = SumOf(LedgerOf(v)) + d
      BY <1>2, <3>1, <3>2, <3>3, AddLine
    <3> QED
      BY <2>1, <3>1, <3>4 DEF Books
  <2>2. CASE v # u
    <3>1. LedgerOf(v)' = LedgerOf(v)
      BY <1>1, <1>2, <2>2 DEF LedgerOf
    <3> QED
      BY <2>2, <3>1 DEF Books
  <2> QED
    BY <2>1, <2>2
<1>5. Books'
  BY <1>4 DEF Books
<1> QED
  BY <1>3, <1>5

\* A step that touches neither wallet nor ledger.
LEMMA MoneyAlone ==
  ASSUME IsFiniteSet(ledger), Books, UNCHANGED moneyVars
  PROVE  Books' /\ IsFiniteSet(ledger')
BY DEF Books, LedgerOf, moneyVars

\* ... nor turns an order that money moved for.
LEMMA StoryAlone ==
  ASSUME LedgerFollowsOrders, UNCHANGED ledger,
         \A o \in Topups : /\ orderStatus'[o] = "paid" <=> orderStatus[o] = "paid"
                           /\ orderStatus'[o] \in Reversed <=> orderStatus[o] \in Reversed,
         \A o \in WalletOrders : orderStatus'[o] = "paid" <=> orderStatus[o] = "paid"
  PROVE  LedgerFollowsOrders'
<1>1. \A k : KeyUsed(k)' <=> KeyUsed(k)
  BY DEF KeyUsed
<1> QED
  BY <1>1 DEF LedgerFollowsOrders

\* A new line uses its key and no other.
LEMMA KeyAdded ==
  ASSUME LedgerFollowsOrders, NEW k, NEW u, NEW o, NEW d, AppendLedger(k, u, o, d)
  PROVE  /\ ~KeyUsed(k)
         /\ \A x : KeyUsed(x)' <=> KeyUsed(x) \/ x = k
         /\ \A l, m \in ledger' : l.key = m.key => l = m
<1> DEFINE line == [key |-> k, user |-> u, order |-> o, delta |-> d]
<1>1. ledger' = ledger \cup {line} /\ ~KeyUsed(k)
  BY DEF AppendLedger
<1>2. line.key = k /\ line.order = o /\ line.delta = d
  OBVIOUS
<1> HIDE DEF line
<1>3. \A x : KeyUsed(x)' <=> KeyUsed(x) \/ x = k
  BY <1>1, <1>2 DEF KeyUsed
<1>4. ASSUME NEW l \in ledger', NEW m \in ledger', l.key = m.key PROVE l = m
  <2>1. l \in ledger /\ m \in ledger => l = m
    BY <1>4 DEF LedgerFollowsOrders
  <2> QED
    BY <1>1, <1>2, <1>4, <2>1 DEF KeyUsed
<1> QED
  BY <1>1, <1>3, <1>4

\* A wallet order was debited for its price.
Debited(x) == \E l \in ledger : l.order = x /\ l.delta = 0 - Amount[x]

\* A new line debits no order but its own.
LEMMA LineAdded ==
  ASSUME NEW k, NEW u, NEW o, NEW d, AppendLedger(k, u, o, d), NEW x
  PROVE  Debited(x)' <=> Debited(x) \/ (x = o /\ d = 0 - Amount[x])
<1> DEFINE line == [key |-> k, user |-> u, order |-> o, delta |-> d]
<1>1. ledger' = ledger \cup {line}
  BY DEF AppendLedger
<1>2. line.order = o /\ line.delta = d
  OBVIOUS
<1> HIDE DEF line
<1> QED
  BY <1>1, <1>2 DEF Debited

\* A top-up is credited when its order is paid.
LEMMA CreditTold ==
  ASSUME WInv, NEW o \in Topups, SettleTopup(o)
  PROVE  LedgerFollowsOrders'
<1> USE OrderAssumption DEF WInv, IInv, TypeOK
<1> DEFINE k == <<"credit", o>>
<1>1. AppendLedger(k, Owner[o], o, Amount[o])
  BY DEF SettleTopup
<1>0. \A x : <<"clawback", x>> # k /\ (<<"credit", x>> = k <=> x = o)
  OBVIOUS
<1> HIDE DEF k
<1>2. /\ orderStatus[o] = "pending" /\ orderStatus'[o] = "paid"
      /\ \A x \in Orders \ {o} : orderStatus'[x] = orderStatus[x]
  BY DEF SettleTopup, Flip
<1>3. ASSUME NEW x \in Topups
      PROVE  /\ orderStatus'[x] = "paid" <=>
                  KeyUsed(<<"credit", x>>)' /\ ~KeyUsed(<<"clawback", x>>)'
             /\ orderStatus'[x] \in Reversed <=> KeyUsed(<<"clawback", x>>)'
  <2> DEFINE c == <<"clawback", x>>
             d == <<"credit", x>>
  <2>1. c # k /\ (d = k <=> x = o)
    BY <1>0
  <2> HIDE DEF c, d
  <2>2. (KeyUsed(c)' <=> KeyUsed(c)) /\ (KeyUsed(d)' <=> KeyUsed(d) \/ x = o)
    BY <1>1, <2>1, KeyAdded
  <2>3. /\ orderStatus[x] = "paid" <=> KeyUsed(d) /\ ~KeyUsed(c)
        /\ orderStatus[x] \in Reversed <=> KeyUsed(c)
    BY DEF LedgerFollowsOrders, c, d
  <2>4. /\ orderStatus'[x] = "paid" <=> KeyUsed(d)' /\ ~KeyUsed(c)'
        /\ orderStatus'[x] \in Reversed <=> KeyUsed(c)'
    BY <1>2, <2>2, <2>3 DEF Reversed
  <2> QED
    BY <2>4 DEF c, d
<1>4. ASSUME NEW x \in WalletOrders
      PROVE  orderStatus'[x] = "paid" <=> Debited(x)'
  <2>1. x # o /\ x \in Orders
    OBVIOUS
  <2>2. Debited(x)' <=> Debited(x)
    BY <1>1, <2>1, LineAdded
  <2> QED
    BY <1>2, <2>1, <2>2 DEF LedgerFollowsOrders, Debited
<1> QED
  BY <1>1, <1>3, <1>4, KeyAdded DEF LedgerFollowsOrders, Debited

\* ... and clawed back when it is reversed.
LEMMA ClawbackTold ==
  ASSUME WInv, NEW o \in Topups, NEW to \in Reversed, ReverseTopup(o, to)
  PROVE  LedgerFollowsOrders'
<1> USE OrderAssumption DEF WInv, IInv, TypeOK
<1> DEFINE k == <<"clawback", o>>
<1>1. AppendLedger(k, Owner[o], o, 0 - Amount[o])
  BY DEF ReverseTopup
<1>0. \A x : <<"credit", x>> # k /\ (<<"clawback", x>> = k <=> x = o)
  OBVIOUS
<1> HIDE DEF k
<1>2. /\ orderStatus'[o] \in Reversed
      /\ \A x \in Orders \ {o} : orderStatus'[x] = orderStatus[x]
  BY DEF ReverseTopup, Flip
<1>3. ASSUME NEW x \in Topups
      PROVE  /\ orderStatus'[x] = "paid" <=>
                  KeyUsed(<<"credit", x>>)' /\ ~KeyUsed(<<"clawback", x>>)'
             /\ orderStatus'[x] \in Reversed <=> KeyUsed(<<"clawback", x>>)'
  <2> DEFINE c == <<"clawback", x>>
             d == <<"credit", x>>
  <2>1. d # k /\ (c = k <=> x = o)
    BY <1>0
  <2> HIDE DEF c, d
  <2>2. (KeyUsed(c)' <=> KeyUsed(c) \/ x = o) /\ (KeyUsed(d)' <=> KeyUsed(d))
    BY <1>1, <2>1, KeyAdded
  <2>3. /\ orderStatus[x] = "paid" <=> KeyUsed(d) /\ ~KeyUsed(c)
        /\ orderStatus[x] \in Reversed <=> KeyUsed(c)
    BY DEF LedgerFollowsOrders, c, d
  <2>4. /\ orderStatus'[x] = "paid" <=> KeyUsed(d)' /\ ~KeyUsed(c)'
        /\ orderStatus'[x] \in Reversed <=> KeyUsed(c)'
    BY <1>2, <2>2, <2>3 DEF Reversed
  <2> QED
    BY <2>4 DEF c, d
<1>4. ASSUME NEW x \in WalletOrders
      PROVE  orderStatus'[x] = "paid" <=> Debited(x)'
  <2>1. x # o /\ x \in Orders
    OBVIOUS
  <2>2. Debited(x)' <=> Debited(x)
    BY <1>1, <2>1, LineAdded
  <2> QED
    BY <1>2, <2>1, <2>2 DEF LedgerFollowsOrders, Debited
<1> QED
  BY <1>1, <1>3, <1>4, KeyAdded DEF LedgerFollowsOrders, Debited

\* A wallet order is debited when it is written.
LEMMA DebitTold ==
  ASSUME WInv, NEW p \in Requests, CommitWalletPurchase(p)
  PROVE  LedgerFollowsOrders'
<1> USE OrderAssumption DEF WInv, IInv, TypeOK
<1> DEFINE o == request[p].order
           k == <<"client", request[p].key>>
<1>1. AppendLedger(k, Owner[o], o, 0 - Amount[o])
  BY DEF CommitWalletPurchase
<1>2. /\ o \in WalletOrders /\ orderStatus'[o] = "paid"
      /\ \A x \in Orders \ {o} : orderStatus'[x] = orderStatus[x]
  BY DEF CommitWalletPurchase, BegunIsWallet
<1>3. k[1] = "client"
  OBVIOUS
<1> HIDE DEF o, k
<1>4. ASSUME NEW x \in Topups
      PROVE  /\ orderStatus'[x] = "paid" <=>
                  KeyUsed(<<"credit", x>>)' /\ ~KeyUsed(<<"clawback", x>>)'
             /\ orderStatus'[x] \in Reversed <=> KeyUsed(<<"clawback", x>>)'
  <2>1. <<"clawback", x>> # k /\ <<"credit", x>> # k
    BY <1>3
  <2>2. /\ KeyUsed(<<"clawback", x>>)' <=> KeyUsed(<<"clawback", x>>)
        /\ KeyUsed(<<"credit", x>>)' <=> KeyUsed(<<"credit", x>>)
    BY <1>1, <2>1, KeyAdded
  <2> QED
    BY <1>2, <2>2 DEF LedgerFollowsOrders
<1>5. ASSUME NEW x \in WalletOrders
      PROVE  orderStatus'[x] = "paid" <=> Debited(x)'
  <2>1. Debited(x)' <=> Debited(x) \/ x = o
    BY <1>1, LineAdded
  <2> QED
    BY <1>2, <2>1 DEF LedgerFollowsOrders, Debited
<1> QED
  BY <1>1, <1>4, <1>5, KeyAdded DEF LedgerFollowsOrders, Debited

\* An order that the checkout has not written was never paid nor reversed.
LEMMA OtherOrdersTold ==
  ASSUME WInv, NEW o \in Orders \ (Topups \cup WalletOrders), UNCHANGED ledger,
         \A x \in Orders \ {o} : orderStatus'[x] = orderStatus[x]
  PROVE  LedgerFollowsOrders'
BY StoryAlone, OrderAssumption DEF WInv

\* Every transaction keeps the books.
LEMMA NextWInv ==
  ASSUME WInv, [Next]_vars
  PROVE  WInv'
<1> USE OrderAssumption DEF WInv
<1>1. IInv'
  BY NextIInv
<1>2. BegunIsWallet'
  <2> USE DEF IInv, TypeOK, RequestType, BegunIsWallet
  <2>1. CASE Checkout
    <3>1. ASSUME NEW p \in Requests, BeginWalletPurchase(p) PROVE BegunIsWallet'
      <4>1. request[p].order \in WalletOrders
        BY <3>1 DEF BeginWalletPurchase
      <4>2. request'[p].order = request[p].order /\ \A q \in Requests \ {p} : request'[q] = request[q]
        BY <3>1 DEF BeginWalletPurchase
      <4> QED
        BY <4>1, <4>2
    <3>2. ASSUME NEW p \in Requests, request' = [request EXCEPT ![p] = Idle] PROVE BegunIsWallet'
      BY <3>2 DEF Idle
    <3>3. ASSUME NEW p \in Requests, NEW o \in Orders, NEW k \in Keys \cup {None},
                 GateCheckout(p, o, k)
          PROVE  BegunIsWallet'
      BY <3>3 DEF GateCheckout
    <3> QED
      BY <2>1, <3>1, <3>2, <3>3 DEF Checkout, InsertMorOrder, AbandonRequest,
         CommitWalletPurchase
  <2>2. CASE Settle
    BY <2>2 DEF Settle, SettleSkillOrBundle, SettleOnHold, ClearHeldOrder, RefundOrder,
       ChargebackOrder
  <2>3. CASE SettleWallet
    BY <2>3 DEF SettleWallet, SettleTopup, ReverseTopup
  <2>4. CASE UNCHANGED vars
    BY <2>4 DEF vars
  <2> QED
    BY <2>1, <2>2, <2>3, <2>4 DEF Next
<1>3. Books' /\ IsFiniteSet(ledger')
  <2>1. ASSUME NEW p \in Requests, CommitWalletPurchase(p)
        PROVE  Books' /\ IsFiniteSet(ledger')
    <3> DEFINE o == request[p].order
    <3>1. o \in Orders /\ Owner[o] \in Users /\ Amount[o] \in Nat
      BY <2>1 DEF CommitWalletPurchase, IInv, RequestsFresh
    <3>2. AppendLedger(<<"client", request[p].key>>, Owner[o], o, 0 - Amount[o])
      BY <2>1 DEF CommitWalletPurchase
    <3>3. wallet' = [wallet EXCEPT ![Owner[o]].balance = @ - Amount[o]]
      BY <2>1 DEF CommitWalletPurchase
    <3> HIDE DEF o
    <3>4. \A v \in Users : /\ wallet[v].balance \in Int
                           /\ wallet'[v].balance = IF v = Owner[o] THEN wallet[v].balance - Amount[o]
                                                                   ELSE wallet[v].balance
      BY <3>1, <3>3 DEF IInv, TypeOK, WalletType
    <3>5. \A v \in Users : wallet'[v].balance =
             IF v = Owner[o] THEN wallet[v].balance + (0 - Amount[o]) ELSE wallet[v].balance
      BY <3>1, <3>4
    <3>6. 0 - Amount[o] \in Int
      BY <3>1
    <3> QED
      BY <3>1, <3>2, <3>5, <3>6, BooksKept DEF IInv
  <2>2. ASSUME NEW o \in Topups, SettleTopup(o) PROVE Books' /\ IsFiniteSet(ledger')
    <3>1. Owner[o] \in Users /\ Amount[o] \in Int
      OBVIOUS
    <3>2. AppendLedger(<<"credit", o>>, Owner[o], o, Amount[o])
      BY <2>2 DEF SettleTopup
    <3>3. \A v \in Users : wallet'[v].balance =
             IF v = Owner[o] THEN wallet[v].balance + Amount[o] ELSE wallet[v].balance
      BY <2>2, <3>1 DEF SettleTopup, IInv, TypeOK, WalletType
    <3> QED
      BY <3>1, <3>2, <3>3, BooksKept DEF IInv
  <2>3. ASSUME NEW o \in Topups, NEW to \in Reversed, ReverseTopup(o, to)
        PROVE  Books' /\ IsFiniteSet(ledger')
    <3>1. Owner[o] \in Users /\ Amount[o] \in Nat /\ 0 - Amount[o] \in Int
      OBVIOUS
    <3>2. AppendLedger(<<"clawback", o>>, Owner[o], o, 0 - Amount[o])
      BY <2>3 DEF ReverseTopup
    <3>5. ASSUME NEW w \in WalletType, NEW d \in Nat
          PROVE  [w EXCEPT !.balance = @ - d, !.status = "frozen"].balance = w.balance - d
      BY DEF WalletType
    <3>6. /\ wallet' = [wallet EXCEPT ![Owner[o]] =
                          [wallet[Owner[o]] EXCEPT !.balance = @ - Amount[o], !.status = "frozen"]]
          /\ wallet \in [Users -> WalletType]
      BY <2>3 DEF ReverseTopup, IInv, TypeOK
    <3>3. ASSUME NEW v \in Users
          PROVE  /\ wallet[v].balance \in Int
                 /\ wallet'[v].balance = IF v = Owner[o] THEN wallet[v].balance - Amount[o]
                                                         ELSE wallet[v].balance
      <4>1. wallet[v] \in WalletType /\ wallet[v].balance \in Int
        BY <3>6 DEF WalletType
      <4>2. CASE v = Owner[o]
        <5>1. wallet'[v] = [wallet[v] EXCEPT !.balance = @ - Amount[o], !.status = "frozen"]
          BY <3>6, <4>2
        <5> QED
          BY <3>1, <3>5, <4>1, <4>2, <5>1
      <4>3. CASE v # Owner[o]
        BY <3>6, <4>1, <4>3
      <4> QED
        BY <4>1, <4>2, <4>3
    <3>4. ASSUME NEW v \in Users
          PROVE  wallet'[v].balance = IF v = Owner[o] THEN wallet[v].balance + (0 - Amount[o])
                                                      ELSE wallet[v].balance
      <4>1. /\ wallet[v].balance \in Int
            /\ wallet'[v].balance = IF v = Owner[o] THEN wallet[v].balance - Amount[o]
                                                    ELSE wallet[v].balance
        BY <3>3
      <4>2. Amount[o] \in Int
        BY <3>1
      <4> DEFINE b == wallet[v].balance
                 a == Amount[o]
      <4> HIDE DEF a, b
      <4>3. b \in Int /\ a \in Int /\ wallet'[v].balance = IF v = Owner[o] THEN b - a ELSE b
        BY <4>1, <4>2 DEF a, b
      <4>4. wallet'[v].balance = IF v = Owner[o] THEN b + (0 - a) ELSE b
        BY <4>3
      <4> QED
        BY <4>4 DEF a, b
    <3> QED
      BY <3>1, <3>2, <3>4, BooksKept DEF IInv
  <2>4. CASE UNCHANGED moneyVars
    BY <2>4, MoneyAlone
  <2>5. CASE Checkout
    BY <2>5, <2>1, <2>4 DEF Checkout, GateCheckout, InsertMorOrder, AbandonRequest,
       BeginWalletPurchase
  <2>6. CASE Settle
    BY <2>6, <2>4 DEF Settle, SettleSkillOrBundle, SettleOnHold, ClearHeldOrder, RefundOrder,
       ChargebackOrder
  <2>7. CASE SettleWallet
    BY <2>7, <2>2, <2>3 DEF SettleWallet
  <2>8. CASE UNCHANGED vars
    BY <2>8, <2>4 DEF vars
  <2> QED
    BY <2>5, <2>6, <2>7, <2>8 DEF Next
<1>4. LedgerFollowsOrders'
  <2>1. CASE UNCHANGED <<orderStatus, ledger>>
    BY <2>1, StoryAlone
  <2>2. CASE Checkout
    <3>1. ASSUME NEW p \in Requests, InsertMorOrder(p) PROVE LedgerFollowsOrders'
      <4> DEFINE o == request[p].order
      <4>1. /\ o \in Orders /\ orderStatus[o] = "none" /\ orderStatus'[o] = "pending"
            /\ \A x \in Orders \ {o} : orderStatus'[x] = orderStatus[x]
        BY <3>1 DEF InsertMorOrder, IInv, TypeOK, RequestsFresh
      <4> HIDE DEF o
      <4>2. \A x \in Orders : /\ orderStatus'[x] = "paid" <=> orderStatus[x] = "paid"
                              /\ orderStatus'[x] \in Reversed <=> orderStatus[x] \in Reversed
        BY <4>1 DEF Reversed
      <4> QED
        BY <3>1, <4>2, StoryAlone DEF InsertMorOrder, moneyVars
    <3> QED
      BY <2>1, <2>2, <3>1, DebitTold DEF Checkout, GateCheckout, AbandonRequest,
         BeginWalletPurchase, orderVars, moneyVars
  <2>3. CASE Settle
    <3> PICK o \in Orders \ (Topups \cup WalletOrders) :
           \/ \E mor \in ProviderIds \cup {None}, fp \in Fingerprints \cup {None} :
                SettleSkillOrBundle(o, mor, fp) \/ SettleOnHold(o, mor, fp)
           \/ ClearHeldOrder(o) \/ RefundOrder(o) \/ ChargebackOrder(o)
      BY <2>3 DEF Settle
    <3>1. UNCHANGED ledger
      BY DEF SettleSkillOrBundle, SettleOnHold, ClearHeldOrder, RefundOrder, ChargebackOrder,
         moneyVars
    <3>2. \A x \in Orders \ {o} : orderStatus'[x] = orderStatus[x]
      BY DEF SettleSkillOrBundle, SettleOnHold, ClearHeldOrder, RefundOrder, ChargebackOrder,
         PaidUpdate, Flip, IInv, TypeOK
    <3> QED
      BY <3>1, <3>2, OtherOrdersTold
  <2>4. CASE SettleWallet
    BY <2>4, CreditTold, ClawbackTold DEF SettleWallet
  <2>5. CASE UNCHANGED vars
    BY <2>5, <2>1 DEF vars, orderVars, moneyVars
  <2> QED
    BY <2>2, <2>3, <2>4, <2>5 DEF Next
<1> QED
  BY <1>1, <1>2, <1>3, <1>4

\* After any sequence of credits, debits and claw-backs, over any number of accounts
\* and orders, balance, ledger, orders and the freeze of each wallet tell one story.
THEOREM WalletSound == Spec => []WalletIsSound
<1>1. WInv => BalanceIsLedger /\ LedgerFollowsOrders
  BY BalanceIsSum DEF WInv, Books
<1>2. WInv /\ [Next]_vars => WInv'
  BY NextWInv
<1>3. Spec => []WInv
  BY InitWInv, <1>2, PTL DEF Spec
<1>4. BalanceIsLedger /\ LedgerFollowsOrders /\ DebtIsFrozen => WalletIsSound
  BY DEF WalletIsSound
<1> QED
  BY <1>1, <1>3, <1>4, DebtFreezes, PTL

-------------------------------------------------------------------------------
(* Settlement implements OrderLifecycle *)

\* What Phase says of an order, one line per status.
LEMMA PhaseOf ==
  ASSUME NEW x \in Orders, TypeOK
  PROVE  /\ orderStatus[x] = "none" => Phase(x) = "none"
         /\ orderStatus[x] = "pending" => Phase(x) = "pending"
         /\ orderStatus[x] \in Reversed => Phase(x) = "reversed"
         /\ orderStatus[x] = "paid" /\ grantHeld[x] => Phase(x) = "held"
         /\ orderStatus[x] = "paid" /\ ~grantHeld[x] => Phase(x) = "delivered"
BY DEF Phase, Reversed, TypeOK

\* The same of an order after a step, which has left "none".
LEMMA NextPhaseOf ==
  ASSUME NEW x \in Orders, TypeOK'
  PROVE  /\ orderStatus'[x] = "pending" => Phase(x)' = "pending"
         /\ orderStatus'[x] \in Reversed => Phase(x)' = "reversed"
         /\ orderStatus'[x] = "paid" /\ grantHeld'[x] => Phase(x)' = "held"
         /\ orderStatus'[x] = "paid" /\ ~grantHeld'[x] => Phase(x)' = "delivered"
BY DEF Phase, Reversed, TypeOK

\* A step that changes the status and the hold of one order moves one phase.
LEMMA OnePhase ==
  ASSUME TypeOK, TypeOK', NEW o \in Orders,
         \A x \in Orders \ {o} : /\ orderStatus'[x] = orderStatus[x]
                                 /\ grantHeld'[x] = grantHeld[x]
  PROVE  abstractPhase' = [abstractPhase EXCEPT ![o] = Phase(o)']
<1>1. ASSUME NEW x \in Orders \ {o} PROVE Phase(x)' = Phase(x)
  BY DEF Phase
<1> QED
  BY <1>1 DEF abstractPhase

\* Delivering an order that left no trace entitles its owner to all of its skills.
LEMMA Delivers ==
  ASSUME IInv, IInv', NEW o \in Orders, RecordAndGrant(o),
         \A s \in Skills : grants[o][s] = "none"
  PROVE  abstractLive' = [abstractLive EXCEPT ![o] = contents[o]]
<1> USE DEF IInv, TypeOK
<1>1. ASSUME NEW x \in Orders \ {o}, NEW s \in Skills PROVE grants'[x][s] = grants[x][s]
  BY DEF RecordAndGrant, CreateGrants
<1>2. Goods(o) \subseteq Skills
  BY OrderAssumption DEF Goods
<1>3. ASSUME NEW s \in Skills PROVE grants'[o][s] = "active" <=> s \in Goods(o)
  BY DEF RecordAndGrant, CreateGrants
<1>4. {s \in Skills : grants'[o][s] = "active"} = Goods(o)
  BY <1>2, <1>3
<1>5. ASSUME NEW x \in Orders \ {o}
      PROVE  {s \in Skills : grants'[x][s] = "active"} = {s \in Skills : grants[x][s] = "active"}
  BY <1>1
<1>6. ASSUME NEW x \in Orders
      PROVE  abstractLive'[x] = [abstractLive EXCEPT ![o] = contents[o]][x]
  BY <1>4, <1>5 DEF abstractLive, contents
<1> QED
  BY <1>6 DEF abstractLive

\* Taking every active grant of an order leaves its owner nothing of it.
LEMMA TakesBack ==
  ASSUME IInv, NEW o \in Orders, NEW to \in Reversed, FlipGrants(o, to)
  PROVE  /\ abstractLive' \in [Orders -> SUBSET Skills]
         /\ abstractLive'[o] = {}
         /\ \A x \in Orders \ {o} : abstractLive'[x] = abstractLive[x]
<1> USE DEF IInv, TypeOK, FlipGrants, Reversed
<1>1. ASSUME NEW s \in Skills PROVE grants'[o][s] # "active"
  OBVIOUS
<1>2. ASSUME NEW x \in Orders \ {o} PROVE grants'[x] = grants[x]
  OBVIOUS
<1> QED
  BY <1>1, <1>2 DEF abstractLive

\* Orders that are not written are abstract orders not yet opened.
THEOREM InitLifecycle == Init => Lifecycle!Init
<1> SUFFICES ASSUME Init PROVE Lifecycle!Init
  OBVIOUS
<1>1. ASSUME NEW o \in Orders PROVE Phase(o) = "none"
  BY DEF Init, Phase, Reversed
<1>2. abstractPhase = [o \in Orders |-> "none"]
  BY <1>1 DEF abstractPhase
<1>3. abstractLive = [o \in Orders |-> {}]
  BY DEF Init, abstractLive
<1> QED
  BY <1>2, <1>3 DEF Lifecycle!Init

\* Each transaction is one step of the abstract order, and a step of a checkout
\* request that writes nothing is a stutter.
THEOREM NextLifecycle ==
  ASSUME IInv, IInv', [Next]_vars
  PROVE  [Lifecycle!Next]_(Lifecycle!vars)
<1> DEFINE Goal == Lifecycle!Next \/ UNCHANGED Lifecycle!vars
<1> USE DEF IInv
<1>1. ASSUME UNCHANGED <<orderStatus, grantHeld, grants>> PROVE Goal
  BY <1>1 DEF Lifecycle!vars, abstractPhase, abstractLive, Phase
<1>2. ASSUME NEW p \in Requests, InsertMorOrder(p) PROVE Goal
  <2> PICK o \in Orders : o = request[p].order
    BY <1>2 DEF RequestsFresh, InsertMorOrder
  <2>1. orderStatus[o] = "none" /\ orderStatus'[o] = "pending"
    BY <1>2 DEF RequestsFresh, InsertMorOrder, TypeOK
  <2>2. abstractPhase[o] = "none" /\ abstractPhase' = [abstractPhase EXCEPT ![o] = "pending"]
    <3>1. Phase(o) = "none" /\ Phase(o)' = "pending"
      BY <2>1, PhaseOf, NextPhaseOf
    <3>2. \A x \in Orders \ {o} : orderStatus'[x] = orderStatus[x] /\ grantHeld'[x] = grantHeld[x]
      BY <1>2 DEF InsertMorOrder, TypeOK
    <3> QED
      BY <3>1, <3>2, OnePhase DEF abstractPhase
  <2>3. UNCHANGED abstractLive
    BY <1>2 DEF abstractLive, InsertMorOrder, ownVars
  <2> QED
    BY <2>1, <2>2, <2>3 DEF Lifecycle!Open, Lifecycle!Next
<1>3. ASSUME NEW p \in Requests, CommitWalletPurchase(p) PROVE Goal
  <2> PICK o \in Orders : o = request[p].order
    BY <1>3 DEF RequestsFresh, CommitWalletPurchase
  <2>1. orderStatus[o] = "none" /\ orderStatus'[o] = "paid"
    BY <1>3 DEF RequestsFresh, CommitWalletPurchase, TypeOK
  <2>2. ~grantHeld'[o] /\ \A s \in Skills : grants[o][s] = "none"
    BY <1>3, <2>1 DEF NothingBeforeDelivery, CommitWalletPurchase, Reversed
  <2>3. abstractPhase[o] = "none" /\ abstractPhase' = [abstractPhase EXCEPT ![o] = "delivered"]
    <3>1. Phase(o) = "none" /\ Phase(o)' = "delivered"
      BY <2>1, <2>2, PhaseOf, NextPhaseOf
    <3>2. \A x \in Orders \ {o} : orderStatus'[x] = orderStatus[x] /\ grantHeld'[x] = grantHeld[x]
      BY <1>3 DEF CommitWalletPurchase, TypeOK
    <3> QED
      BY <3>1, <3>2, OnePhase DEF abstractPhase
  <2>4. abstractLive' = [abstractLive EXCEPT ![o] = contents[o]]
    BY <1>3, <2>1, <2>2, Delivers DEF CommitWalletPurchase
  <2> QED
    BY <2>1, <2>3, <2>4 DEF Lifecycle!Deliver, Lifecycle!Next
<1>4. ASSUME NEW o \in Orders, NEW mor, NEW fp, SettleSkillOrBundle(o, mor, fp) PROVE Goal
  <2>1. orderStatus[o] = "pending" /\ orderStatus'[o] = "paid"
    BY <1>4 DEF SettleSkillOrBundle, PaidUpdate, Flip, TypeOK
  <2>2. ~grantHeld'[o] /\ \A s \in Skills : grants[o][s] = "none"
    BY <1>4, <2>1 DEF NothingBeforeDelivery, SettleSkillOrBundle, Reversed
  <2>3. abstractPhase[o] = "pending" /\ abstractPhase' = [abstractPhase EXCEPT ![o] = "delivered"]
    <3>1. Phase(o) = "pending" /\ Phase(o)' = "delivered"
      BY <2>1, <2>2, PhaseOf, NextPhaseOf
    <3>2. \A x \in Orders \ {o} : orderStatus'[x] = orderStatus[x] /\ grantHeld'[x] = grantHeld[x]
      BY <1>4 DEF SettleSkillOrBundle, PaidUpdate, Flip, TypeOK
    <3> QED
      BY <3>1, <3>2, OnePhase DEF abstractPhase
  <2>4. abstractLive' = [abstractLive EXCEPT ![o] = contents[o]]
    BY <1>4, <2>2, Delivers DEF SettleSkillOrBundle
  <2> QED
    BY <2>3, <2>4 DEF Lifecycle!Deliver, Lifecycle!Next
<1>5. ASSUME NEW o \in Orders, NEW mor, NEW fp, SettleOnHold(o, mor, fp) PROVE Goal
  <2>1. orderStatus[o] = "pending" /\ orderStatus'[o] = "paid" /\ grantHeld'[o]
    BY <1>5 DEF SettleOnHold, PaidUpdate, Flip, TypeOK
  <2>2. abstractPhase[o] = "pending" /\ abstractPhase' = [abstractPhase EXCEPT ![o] = "held"]
    <3>1. Phase(o) = "pending" /\ Phase(o)' = "held"
      BY <2>1, PhaseOf, NextPhaseOf
    <3>2. \A x \in Orders \ {o} : orderStatus'[x] = orderStatus[x] /\ grantHeld'[x] = grantHeld[x]
      BY <1>5 DEF SettleOnHold, PaidUpdate, Flip, TypeOK
    <3> QED
      BY <3>1, <3>2, OnePhase DEF abstractPhase
  <2>3. UNCHANGED abstractLive
    BY <1>5 DEF abstractLive, SettleOnHold, ownVars
  <2> QED
    BY <2>2, <2>3 DEF Lifecycle!Hold, Lifecycle!Next
<1>6. ASSUME NEW o \in Orders, ClearHeldOrder(o) PROVE Goal
  <2>1. /\ orderStatus[o] = "paid" /\ grantHeld[o]
        /\ orderStatus'[o] = "paid" /\ ~grantHeld'[o]
        /\ \A s \in Skills : grants[o][s] = "none"
    BY <1>6 DEF ClearHeldOrder, NothingBeforeDelivery, TypeOK
  <2>2. abstractPhase[o] = "held" /\ abstractPhase' = [abstractPhase EXCEPT ![o] = "delivered"]
    <3>1. Phase(o) = "held" /\ Phase(o)' = "delivered"
      BY <2>1, PhaseOf, NextPhaseOf
    <3>2. \A x \in Orders \ {o} : orderStatus'[x] = orderStatus[x] /\ grantHeld'[x] = grantHeld[x]
      BY <1>6 DEF ClearHeldOrder, TypeOK
    <3> QED
      BY <3>1, <3>2, OnePhase DEF abstractPhase
  <2>3. abstractLive' = [abstractLive EXCEPT ![o] = contents[o]]
    BY <1>6, <2>1, Delivers DEF ClearHeldOrder
  <2> QED
    BY <2>2, <2>3 DEF Lifecycle!Deliver, Lifecycle!Next
<1>7. ASSUME NEW o \in Orders, NEW to \in Reversed, Flip(o, {"pending", "paid"}, to),
             UNCHANGED grantHeld
      PROVE  /\ abstractPhase[o] \in {"pending", "held", "delivered"}
             /\ abstractPhase' = [abstractPhase EXCEPT ![o] = "reversed"]
  <2>1. orderStatus[o] \in {"pending", "paid"} /\ orderStatus'[o] \in Reversed
    BY <1>7 DEF Flip, TypeOK
  <2>2. Phase(o) \in {"pending", "held", "delivered"}
    BY <2>1, PhaseOf DEF TypeOK
  <2>3. Phase(o)' = "reversed"
    BY <2>1, NextPhaseOf
  <2> QED
    BY <1>7, <2>2, <2>3, OnePhase DEF abstractPhase, Flip, TypeOK
<1>8. ASSUME NEW o \in Orders, NEW to \in Reversed, Flip(o, {"pending", "paid"}, to),
             UNCHANGED grantHeld, FlipGrants(o, to)
      PROVE  Goal
  BY <1>7, <1>8, TakesBack DEF Lifecycle!Reverse, Lifecycle!Next
<1>9. ASSUME NEW o \in Topups, NEW to \in Reversed, ReverseTopup(o, to) PROVE Goal
  <2> USE OrderAssumption
  <2>1. ASSUME NEW x \in Orders, NEW s \in Skills, grants'[x][s] = "active"
        PROVE  grants[x][s] = "active"
    BY <1>9, <2>1 DEF ReverseTopup, RevokeGrants
  <2>2. ASSUME NEW x \in Orders, Owner[x] # Owner[o] PROVE grants'[x] = grants[x]
    BY <1>9, <2>2 DEF ReverseTopup, RevokeGrants, Clawbacks, WalletGrants, OrdersOf, TypeOK
  <2>3. ASSUME NEW s \in Skills PROVE grants'[o][s] # "active"
    BY <2>1 DEF GrantsBacked, Goods
  <2>4. /\ abstractLive' \in [Orders -> SUBSET Skills]
        /\ abstractLive'[o] = {}
        /\ \A x \in Orders \ {o} :
             IF Owner[x] = Owner[o] THEN abstractLive'[x] \subseteq abstractLive[x]
                                    ELSE abstractLive'[x] = abstractLive[x]
    BY <2>1, <2>2, <2>3 DEF abstractLive
  <2> QED
    BY <1>7, <1>9, <2>4 DEF ReverseTopup, Lifecycle!Reverse, Lifecycle!Next
<1>10. ASSUME NEW o \in Topups, SettleTopup(o) PROVE Goal
  <2> o \in Orders
    BY OrderAssumption
  <2>1. orderStatus[o] = "pending" /\ orderStatus'[o] = "paid" /\ ~grantHeld'[o]
    <3>1. Flip(o, {"pending"}, "paid") /\ UNCHANGED grantHeld
      BY <1>10 DEF SettleTopup
    <3>2. ~grantHeld[o]
      BY <3>1 DEF Flip, NothingBeforeDelivery, Reversed
    <3> QED
      BY <3>1, <3>2 DEF Flip, TypeOK
  <2>2. abstractPhase[o] = "pending" /\ abstractPhase' = [abstractPhase EXCEPT ![o] = "delivered"]
    BY <1>10, <2>1, OnePhase, PhaseOf, NextPhaseOf DEF abstractPhase, SettleTopup, Flip, TypeOK
  <2>3. contents[o] = {}
    BY <2>1, OrderAssumption DEF contents, Goods
  <2>4. abstractLive[o] = {} /\ UNCHANGED abstractLive
    BY <1>10, <2>1 DEF abstractLive, SettleTopup, ownVars, NothingBeforeDelivery
  <2>5. abstractLive' = [abstractLive EXCEPT ![o] = contents[o]]
    BY <2>3, <2>4 DEF abstractLive
  <2> QED
    BY <2>1, <2>2, <2>5 DEF Lifecycle!Deliver, Lifecycle!Next
<1>11. CASE Checkout
  BY <1>11, <1>1, <1>2, <1>3 DEF Checkout, GateCheckout, AbandonRequest, BeginWalletPurchase,
     orderVars, ownVars
<1>12. CASE Settle
  BY <1>12, <1>4, <1>5, <1>6, <1>8 DEF Settle, RefundOrder, ChargebackOrder, Reversed
<1>13. CASE SettleWallet
  BY <1>13, <1>9, <1>10 DEF SettleWallet
<1>14. CASE UNCHANGED vars
  BY <1>14, <1>1 DEF vars, orderVars, ownVars
<1> QED
  BY <1>11, <1>12, <1>13, <1>14 DEF Next

\* Whatever sequence of transactions runs, over any number of orders, each order
\* delivers its skills at most once and a reversed one delivers nothing any more.
THEOREM Refinement == Spec => ImplementsLifecycle
<1>1. IInv /\ IInv' /\ [Next]_vars => [Lifecycle!Next]_(Lifecycle!vars)
  BY NextLifecycle
<1> QED
  BY <1>1, InitLifecycle, Invariance, PTL DEF Spec, ImplementsLifecycle, Lifecycle!Spec

-------------------------------------------------------------------------------
(* Prices.                                                                   *)

Prices(G) == [g \in G |-> GrantPrice(g[1], g[2])]

\* The price of a set of grants that the library computes.
LEMMA PriceIsTotal ==
  ASSUME NEW L, IsFiniteSet(L), NEW S \in SUBSET L
  PROVE  PriceOf(S) = Total(S, Prices(L))[S]
<1> DEFINE Is(g) == g = [s \in SUBSET S |->
                           IF s = {} THEN 0
                           ELSE GrantPrice(AnyOf(s)[1], AnyOf(s)[2]) + g[s \ {AnyOf(s)}]]
           iter == CHOOSE g : Is(g)
<1>1. PriceOf(S) = iter[S]
  BY DEF PriceOf, MapThenSumSet, MapThenFoldSet, AnyOf
<1>2. IsFiniteSet(S)
  BY FS_Subset
<1>3. ASSUME NEW s \in SUBSET S, s # {}
      PROVE  GrantPrice(AnyOf(s)[1], AnyOf(s)[2]) = Prices(L)[AnyOf(s)]
  BY <1>3 DEF Prices, AnyOf
<1>4. ASSUME NEW g PROVE Is(g) <=> AddsUp(g, SUBSET S, Prices(L))
  BY <1>3 DEF AddsUp
<1>5. AddsUp(Total(S, Prices(L)), SUBSET S, Prices(L))
  BY <1>2, TotalAddsUp
<1>6. Is(iter)
  <2>1. \E g : Is(g)
    BY <1>4, <1>5
  <2> HIDE DEF Is
  <2> QED
    BY <2>1
<1>7. AddsUp(iter, SUBSET S, Prices(L))
  <2> HIDE DEF Is, iter
  <2> QED
    BY <1>4, <1>6
<1>8. S \in SUBSET S
  OBVIOUS
<1> HIDE DEF iter
<1> QED
  BY <1>1, <1>2, <1>5, <1>7, <1>8, SameSum

\* Grants with a price.
Priced(G) == \A g \in G : GrantPrice(g[1], g[2]) \in Nat

\* The price of some grants when one of them is left out.
LEMMA PriceOfOne ==
  ASSUME NEW G, IsFiniteSet(G), Priced(G), NEW x \in G
  PROVE  /\ PriceOf(G) = PriceOf(G \ {x}) + GrantPrice(x[1], x[2])
         /\ PriceOf(G \ {x}) \in Int /\ GrantPrice(x[1], x[2]) \in Nat
<1>1. Weighs(G, Prices(G)) /\ Prices(G)[x] = GrantPrice(x[1], x[2])
  BY DEF Weighs, Prices, Priced
<1>2. G \in SUBSET G /\ G \ {x} \in SUBSET G
  OBVIOUS
<1>3. PriceOf(G) = Total(G, Prices(G))[G] /\ PriceOf(G \ {x}) = Total(G \ {x}, Prices(G))[G \ {x}]
  BY <1>2, PriceIsTotal
<1> QED
  BY <1>1, <1>3, TotalAddOne DEF Priced

\* No grants cost nothing.
LEMMA PriceOfNone == PriceOf({}) = 0
BY FS_EmptySet, PriceIsTotal, TotalOfNone

\* More grants never cost less.
LEMMA PriceGrows ==
  ASSUME NEW G, IsFiniteSet(G), Priced(G), NEW A \in SUBSET G
  PROVE  PriceOf(A) \in Int /\ PriceOf(A) <= PriceOf(G)
<1>1. ASSUME NEW s \in SUBSET G PROVE PriceOf(s) \in Int
  <2>1. IsFiniteSet(s) /\ Priced(s)
    BY FS_Subset DEF Priced
  <2>2. CASE s = {}
    BY <2>2, PriceOfNone
  <2>3. CASE s # {}
    <3> PICK x \in s : TRUE
      BY <2>3
    <3>1. /\ PriceOf(s) = PriceOf(s \ {x}) + GrantPrice(x[1], x[2])
          /\ PriceOf(s \ {x}) \in Int /\ GrantPrice(x[1], x[2]) \in Nat
      BY <2>1, PriceOfOne
    <3> QED
      BY <3>1
  <2> QED
    BY <2>2, <2>3
<1> DEFINE Bad == {s \in SUBSET G : A \subseteq s /\ ~ (PriceOf(A) <= PriceOf(s))}
<1>2. SUFFICES ASSUME Bad # {} PROVE FALSE
  <2>1. G \notin Bad
    BY <1>2
  <2> QED
    BY <1>1, <2>1
<1>3. PICK s \in Bad : \A t \in Bad : Cardinality(s) <= Cardinality(t)
  <2>1. Bad \in SUBSET SUBSET G
    OBVIOUS
  <2> HIDE DEF Bad
  <2> QED
    BY <2>1, <1>2, Smallest
<1>4. s \in SUBSET G /\ A \subseteq s /\ ~ (PriceOf(A) <= PriceOf(s))
  OBVIOUS
<1>5. PICK x \in s : x \notin A
  BY <1>1, <1>4
<1>6. /\ IsFiniteSet(s) /\ Priced(s) /\ Cardinality(s) \in Nat
      /\ Cardinality(s \ {x}) = Cardinality(s) - 1
  BY <1>4, FS_Subset, FS_RemoveElement, FS_CardinalityType DEF Priced
<1>7. s \ {x} \notin Bad
  <2> HIDE DEF Bad
  <2> QED
    BY <1>3, <1>6
<1>8. PriceOf(A) <= PriceOf(s \ {x})
  BY <1>4, <1>5, <1>7
<1>9. /\ PriceOf(s) = PriceOf(s \ {x}) + GrantPrice(x[1], x[2])
      /\ PriceOf(s \ {x}) \in Int /\ GrantPrice(x[1], x[2]) \in Nat
  BY <1>6, PriceOfOne
<1>10. PriceOf(A) \in Int
  BY <1>1
<1> QED
  BY <1>4, <1>8, <1>9, <1>10

-------------------------------------------------------------------------------
(* The loop, turn by turn.                                                   *)

\* The greatest of some numbers up to n.
LEMMA Greatest ==
  ASSUME NEW n \in Nat, NEW S \in SUBSET (1..n), S # {}
  PROVE  Max(S) \in S /\ \A y \in S : Max(S) >= y
<1> DEFINE T == {n - x : x \in S}
<1>1. T \in SUBSET Nat /\ T # {}
  <2>1. ASSUME NEW x \in S PROVE n - x \in Nat
    OBVIOUS
  <2> QED
    BY <2>1
<1>2. PICK z \in T : \A y \in T : z <= y
  <2> HIDE DEF T
  <2> QED
    BY <1>1, LeastNat
<1>3. PICK x \in S : z = n - x
  OBVIOUS
<1>4. ASSUME NEW y \in S PROVE x >= y
  <2>1. n - y \in T
    OBVIOUS
  <2>3. z <= n - y
    <3> HIDE DEF T
    <3> QED
      BY <1>2, <2>1
  <2>2. x \in 1..n /\ y \in 1..n
    OBVIOUS
  <2> QED
    BY <1>3, <2>2, <2>3
<1>5. \E m \in S : \A y \in S : m >= y
  BY <1>4
<1> QED
  BY <1>5 DEF Max

\* g walks the elements of q at every set of indices in D the way FoldLeft does.
Walks(g, D, q, amount) ==
  g = [s \in D |-> IF s = {} THEN [revoked |-> {}, remaining |-> amount]
                   ELSE Step(g[s \ {Max(s)}], q[Max(s)])]

\* The result of the loop over the elements of q at the indices s.
Results(q, amount) == CHOOSE g : Walks(g, SUBSET DOMAIN q, q, amount)

\* The walk of the code ends with these results.
LEMMA WalkIsResults ==
  ASSUME NEW q, NEW amount
  PROVE  Walk(q, amount) = Results(q, amount)[DOMAIN q].revoked
BY DEF Walk, FoldLeft, MapThenFoldSet, Results, Walks

\* Taking the greatest index out of a non-empty set of indices leaves a smaller set.
LEMMA RemoveMax ==
  ASSUME NEW n \in Nat, NEW s \in SUBSET (1..n), s # {}
  PROVE  /\ s \ {Max(s)} \in SUBSET (1..n)
         /\ Cardinality(s) \in Nat /\ Cardinality(s \ {Max(s)}) = Cardinality(s) - 1
         /\ Cardinality(s) > 0
<1>1. Max(s) \in s
  BY Greatest
<1>2. IsFiniteSet(s)
  <2>1. IsFiniteSet(1..n)
    BY FS_Interval
  <2> QED
    BY <2>1, FS_Subset
<1>3. Cardinality(s) \in Nat /\ Cardinality(s) # 0
  BY <1>2, FS_CardinalityType, FS_EmptySet
<1>4. Cardinality(s \ {Max(s)}) = Cardinality(s) - 1
  BY <1>1, <1>2, FS_RemoveElement
<1>5. Cardinality(s) > 0
  BY <1>3
<1>6. s \ {Max(s)} \in SUBSET (1..n)
  OBVIOUS
<1> QED
  BY <1>3, <1>4, <1>5, <1>6

\* There is a function that walks all sets of at most k indices.
LEMMA SomeWalk ==
  ASSUME NEW n \in Nat, NEW q, NEW amount
  PROVE  \A k \in Nat : \E g : Walks(g, UpTo(1..n, k), q, amount)
<1> DEFINE Bad == {k \in Nat : ~ \E g : Walks(g, UpTo(1..n, k), q, amount)}
           base == [revoked |-> {}, remaining |-> amount]
           Less(s) == s \ {Max(s)}
<1> SUFFICES ASSUME Bad # {} PROVE FALSE
  OBVIOUS
<1>1. PICK k \in Bad : \A m \in Bad : k <= m
  <2>1. Bad \in SUBSET Nat
    OBVIOUS
  <2> HIDE DEF Bad
  <2> QED
    BY <2>1, LeastNat
<1>2. k \in Nat /\ ~ \E g : Walks(g, UpTo(1..n, k), q, amount)
  OBVIOUS
<1>3. \E g : \A s \in UpTo(1..n, k) : s # {} =>
        g[Less(s)] = IF Less(s) = {} THEN base ELSE Step(g[Less(Less(s))], q[Max(Less(s))])
  <2>1. CASE k = 0
    <3>1. ASSUME NEW s \in UpTo(1..n, k), s # {} PROVE FALSE
      <4>1. s \in SUBSET (1..n) /\ Cardinality(s) <= k
        BY DEF UpTo
      <4>2. Cardinality(s) > 0 /\ Cardinality(s) \in Nat
        BY <3>1, <4>1, RemoveMax
      <4> QED
        BY <2>1, <4>1, <4>2
    <3> QED
      BY <3>1
  <2>2. CASE k # 0
    <3>1. k - 1 \in Nat /\ k - 1 \notin Bad
      BY <1>1, <2>2
    <3>2. PICK g : Walks(g, UpTo(1..n, k - 1), q, amount)
      BY <3>1
    <3>3. ASSUME NEW s \in UpTo(1..n, k), s # {} PROVE Less(s) \in UpTo(1..n, k - 1)
      BY <3>3, <1>2, RemoveMax DEF UpTo
    <3> QED
      BY <3>2, <3>3 DEF Walks
  <2> QED
    BY <2>1, <2>2
<1>4. PICK g : \A s \in UpTo(1..n, k) : s # {} =>
        g[Less(s)] = IF Less(s) = {} THEN base ELSE Step(g[Less(Less(s))], q[Max(Less(s))])
  BY <1>3
<1> DEFINE h == [s \in UpTo(1..n, k) |-> IF s = {} THEN base ELSE Step(g[Less(s)], q[Max(s)])]
<1>5. ASSUME NEW s \in UpTo(1..n, k), s # {} PROVE Less(s) \in UpTo(1..n, k)
  BY <1>5, <1>2, RemoveMax DEF UpTo
<1>6. ASSUME NEW s \in UpTo(1..n, k), s # {} PROVE h[Less(s)] = g[Less(s)]
  BY <1>4, <1>5, <1>6
<1>7. h = [s \in UpTo(1..n, k) |-> IF s = {} THEN base ELSE Step(h[Less(s)], q[Max(s)])]
  BY <1>6
<1> HIDE DEF h
<1>8. Walks(h, UpTo(1..n, k), q, amount)
  BY <1>7 DEF Walks
<1> QED
  BY <1>2, <1>8

\* The results over the first k elements, and one turn of the loop.
LEMMA WalkTurns ==
  ASSUME NEW n \in Nat, NEW q, DOMAIN q = 1..n, NEW amount
  PROVE  /\ Results(q, amount)[1..0] = [revoked |-> {}, remaining |-> amount]
         /\ \A k \in 1..n : Results(q, amount)[1..k] = Step(Results(q, amount)[1..(k - 1)], q[k])
<1>1. UpTo(1..n, n) = SUBSET (1..n)
  <2>0. 1 \in Int /\ n \in Int
    OBVIOUS
  <2>3. Cardinality(1..n) = IF 1 > n THEN 0 ELSE n - 1 + 1
    BY <2>0, FS_Interval
  <2>1. IsFiniteSet(1..n) /\ Cardinality(1..n) = n
    BY <2>0, <2>3, FS_Interval
  <2>2. ASSUME NEW s \in SUBSET (1..n) PROVE Cardinality(s) <= n
    <3> DEFINE D == 1..n
    <3>1. IsFiniteSet(D) /\ Cardinality(D) = n /\ s \in SUBSET D
      BY <2>1
    <3> HIDE DEF D
    <3>2. Cardinality(s) <= Cardinality(D)
      BY <3>1, FS_Subset
    <3> QED
      BY <3>1, <3>2
  <2>4. UpTo(1..n, n) = {s \in SUBSET (1..n) : Cardinality(s) <= n}
    BY DEF UpTo
  <2> QED
    BY <2>2, <2>4
<1>2. \E g : Walks(g, SUBSET (1..n), q, amount)
  <2>1. \E g : Walks(g, UpTo(1..n, n), q, amount)
    BY SomeWalk
  <2> QED
    BY <1>1, <2>1, Zenon
<1>3. Walks(Results(q, amount), SUBSET (1..n), q, amount)
  BY <1>2 DEF Results
<1>4. Results(q, amount)[1..0] = [revoked |-> {}, remaining |-> amount]
  <2>1. 1..0 = {} /\ {} \in SUBSET (1..n)
    OBVIOUS
  <2> QED
    BY <1>3, <2>1 DEF Walks
<1>5. ASSUME NEW k \in 1..n
      PROVE  Results(q, amount)[1..k] = Step(Results(q, amount)[1..(k - 1)], q[k])
  <2>1. 1..k \in SUBSET (1..n) /\ k \in 1..k /\ (1..k) \ {k} = 1..(k - 1)
    OBVIOUS
  <2>2. Max(1..k) \in 1..k /\ Max(1..k) >= k
    BY <2>1, Greatest
  <2>3. Max(1..k) = k
    BY <2>2
  <2> QED
    BY <1>3, <2>1, <2>3 DEF Walks
<1> QED
  BY <1>4, <1>5

-------------------------------------------------------------------------------
(* The orders of the query.                                                  *)

\* q lists every element of S once.
Lists(q, S) ==
  /\ q \in [1..Cardinality(S) -> S]
  /\ \A i, j \in 1..Cardinality(S) : i # j => q[i] # q[j]

\* q lists the elements of S, the greatest age first.
Sorted(q, S, age) ==
  /\ Lists(q, S)
  /\ \A i, j \in 1..Cardinality(S) : i < j => age[q[i]] >= age[q[j]]

\* The first k elements of q.
First(q, k) == {q[i] : i \in 1..k}

\* A list of a finite set has all its elements.
LEMMA ListsAll ==
  ASSUME NEW S, IsFiniteSet(S), NEW q, Lists(q, S)
  PROVE  /\ Cardinality(S) \in Nat
         /\ \A x \in S : \E i \in 1..Cardinality(S) : q[i] = x
         /\ First(q, Cardinality(S)) = S
<1> DEFINE n == Cardinality(S)
<1>1. n \in Nat
  BY FS_CardinalityType
<1>2. ASSUME NEW x \in S, \A i \in 1..n : q[i] # x PROVE FALSE
  <2> DEFINE D == 1..n
             T == S \ {x}
  <2>1. IsFiniteSet(T) /\ Cardinality(T) = n - 1
    BY FS_RemoveElement
  <2>2. IsFiniteSet(D) /\ Cardinality(D) = n
    <3>1. 1 \in Int /\ n \in Int
      BY <1>1
    <3>2. IsFiniteSet(1..n) /\ Cardinality(1..n) = IF 1 > n THEN 0 ELSE n - 1 + 1
      BY <3>1, FS_Interval
    <3> QED
      BY <3>2, <1>1
  <2>3. q \in [D -> T]
    BY <1>2 DEF Lists
  <2>4. Cardinality(T) < Cardinality(D)
    BY <2>1, <2>2, <1>1
  <2>5. ASSUME NEW i \in D, NEW j \in D, i # j PROVE q[i] # q[j]
    BY <2>5 DEF Lists
  <2> HIDE DEF D, T
  <2> QED
    BY <2>1, <2>2, <2>3, <2>4, <2>5, FS_PigeonHole
<1>3. First(q, n) = S
  BY <1>2 DEF First, Lists
<1> QED
  BY <1>1, <1>2, <1>3

\* The elements of a finite set can be listed by age.
LEMMA SomeSorted ==
  ASSUME NEW L, IsFiniteSet(L), NEW age \in [L -> Nat]
  PROVE  \A S \in SUBSET L : \E q : Sorted(q, S, age)
<1> DEFINE Bad == {S \in SUBSET L : ~ \E q : Sorted(q, S, age)}
<1>1. SUFFICES ASSUME Bad # {} PROVE FALSE
  OBVIOUS
<1>2. PICK S \in Bad : \A T \in Bad : Cardinality(S) <= Cardinality(T)
  <2>1. Bad \in SUBSET SUBSET L
    OBVIOUS
  <2> HIDE DEF Bad
  <2> QED
    BY <2>1, <1>1, Smallest
<1>3. S \in SUBSET L /\ ~ \E q : Sorted(q, S, age)
  OBVIOUS
<1>4. S # {}
  <2>1. SUFFICES ASSUME S = {} PROVE FALSE
    OBVIOUS
  <2>2. Cardinality(S) = 0
    BY <2>1, FS_EmptySet
  <2>3. Sorted(<<>>, S, age)
    BY <2>1, <2>2 DEF Sorted, Lists
  <2> QED
    BY <1>3, <2>3
<1>5. PICK x \in S : \A y \in S : age[x] <= age[y]
  <2> DEFINE N == {age[y] : y \in S}
  <2>1. N \in SUBSET Nat /\ N # {}
    BY <1>3, <1>4
  <2>2. PICK a \in N : \A b \in N : a <= b
    <3> HIDE DEF N
    <3> QED
      BY <2>1, LeastNat
  <2> QED
    BY <2>2
<1> DEFINE T == S \ {x}
           n == Cardinality(S)
<1>6. IsFiniteSet(S) /\ n \in Nat /\ n > 0 /\ T \in SUBSET L /\ Cardinality(T) = n - 1
  <2>1. IsFiniteSet(S)
    BY <1>3, FS_Subset
  <2>2. n \in Nat /\ n # 0
    BY <2>1, <1>4, FS_CardinalityType, FS_EmptySet
  <2>3. Cardinality(T) = n - 1
    BY <2>1, FS_RemoveElement
  <2>4. T \in SUBSET L
    BY <1>3
  <2> HIDE DEF T, n
  <2> QED
    BY <2>1, <2>2, <2>3, <2>4
<1>7. T \notin Bad
  <2> HIDE DEF Bad, T
  <2> QED
    BY <1>2, <1>6
<1>8. PICK p : Sorted(p, T, age)
  BY <1>6, <1>7
<1> DEFINE q == [i \in 1..n |-> IF i < n THEN p[i] ELSE x]
<1>9. ASSUME NEW i \in 1..n
      PROVE  /\ i < n => q[i] = p[i] /\ p[i] \in T /\ q[i] \in S /\ q[i] # x /\ i \in 1..(n - 1)
             /\ ~ (i < n) => i = n /\ q[i] = x
  <2>1. p \in [1..(n - 1) -> T]
    BY <1>6, <1>8 DEF Sorted, Lists
  <2> HIDE DEF n
  <2>2. i < n => i \in 1..(n - 1)
    BY <1>6
  <2>3. ~ (i < n) => i = n
    BY <1>6
  <2> QED
    BY <2>1, <2>2, <2>3
<1>10. q \in [1..n -> S]
  BY <1>9
<1>11. ASSUME NEW i \in 1..n, NEW j \in 1..n, i # j PROVE q[i] # q[j]
  <2>1. \A k, l \in 1..(n - 1) : k # l => p[k] # p[l]
    BY <1>6, <1>8 DEF Sorted, Lists
  <2> HIDE DEF q, n, T
  <2>2. CASE i < n /\ j < n
    BY <1>9, <1>11, <2>1, <2>2
  <2> QED
    BY <1>9, <1>11, <2>2
<1>12. ASSUME NEW i \in 1..n, NEW j \in 1..n, i < j PROVE age[q[i]] >= age[q[j]]
  <2>1. \A k, l \in 1..(n - 1) : k < l => age[p[k]] >= age[p[l]]
    BY <1>6, <1>8 DEF Sorted
  <2>2. CASE j < n
    <3>1. i < n
      BY <1>6, <1>12, <2>2
    <3>2. q[i] = p[i] /\ q[j] = p[j] /\ i \in 1..(n - 1) /\ j \in 1..(n - 1)
      BY <1>9, <2>2, <3>1
    <3> HIDE DEF q, n
    <3> QED
      BY <1>12, <2>1, <3>2
  <2>3. CASE ~ (j < n)
    <3>1. q[j] = x /\ q[i] \in S
      BY <1>9, <1>10, <2>3
    <3>2. age[x] \in Nat /\ age[q[i]] \in Nat /\ age[x] <= age[q[i]]
      BY <1>3, <1>5, <3>1
    <3> HIDE DEF q
    <3> QED
      BY <3>1, <3>2
  <2> QED
    BY <2>2, <2>3
<1>13. Sorted(q, S, age)
  <2> HIDE DEF q
  <2> QED
    BY <1>10, <1>11, <1>12 DEF Sorted, Lists
<1> QED
  BY <1>3, <1>13

-------------------------------------------------------------------------------
(* What the loop revokes.                                                    *)

\* One more element of a list.
LEMMA FirstGrows ==
  ASSUME NEW W, IsFiniteSet(W), NEW q, Lists(q, W), NEW k \in 1..Cardinality(W)
  PROVE  /\ First(q, k) = First(q, k - 1) \cup {q[k]}
         /\ First(q, k - 1) = First(q, k) \ {q[k]}
         /\ q[k] \in First(q, k) /\ First(q, k) \in SUBSET W
<1>1. Cardinality(W) \in Nat
  BY FS_CardinalityType
<1>2. ASSUME NEW i \in 1..k PROVE i \in 1..Cardinality(W) /\ (i = k \/ i \in 1..(k - 1))
  BY <1>1
<1>3. ASSUME NEW i \in 1..(k - 1) PROVE i \in 1..k /\ i # k /\ i \in 1..Cardinality(W)
  BY <1>1
<1>4. k \in 1..k
  BY <1>1
<1>5. First(q, k) = First(q, k - 1) \cup {q[k]}
  BY <1>2, <1>3, <1>4, Zenon DEF First
<1>6. q[k] \notin First(q, k - 1)
  BY <1>3, Zenon DEF First, Lists
<1>7. q[k] \in W /\ \A i \in 1..k : q[i] \in W
  BY <1>2 DEF Lists
<1> QED
  BY <1>5, <1>6, <1>7 DEF First

\* The loop revokes the shortest beginning of its list that covers the amount, or all.
LEMMA LoopRevokes ==
  ASSUME NEW W, IsFiniteSet(W), Priced(W), NEW q, Lists(q, W), NEW amount \in Nat
  PROVE  \E j \in 0..Cardinality(W) :
           /\ Walk(q, amount) = First(q, j)
           /\ \A i \in 0..(j - 1) : PriceOf(First(q, i)) < amount
           /\ j = Cardinality(W) \/ PriceOf(First(q, j)) >= amount
<1> DEFINE n == Cardinality(W)
           R(k) == Results(q, amount)[1..k]
           Stops(k, j) == /\ j \in 0..k
                          /\ R(k) = [revoked |-> First(q, j), remaining |-> amount - PriceOf(First(q, j))]
                          /\ \A i \in 0..(j - 1) : PriceOf(First(q, i)) < amount
                          /\ j = k \/ PriceOf(First(q, j)) >= amount
           Bad == {k \in 0..n : ~ \E j \in 0..k : Stops(k, j)}
<1>1. n \in Nat /\ DOMAIN q = 1..n
  BY FS_CardinalityType DEF Lists
<1>2. /\ R(0) = [revoked |-> {}, remaining |-> amount]
      /\ \A k \in 1..n : R(k) = Step(R(k - 1), q[k])
  BY <1>1, WalkTurns
<1>3. \A j \in 0..n : First(q, j) \in SUBSET W /\ PriceOf(First(q, j)) \in Int
  <2>1. ASSUME NEW j \in 0..n PROVE First(q, j) \in SUBSET W
    <3>1. \A i \in 1..j : i \in 1..n
      BY <1>1
    <3> QED
      BY <3>1 DEF First, Lists
  <2> QED
    BY <2>1, PriceGrows
<1>4. First(q, 0) = {}
  BY DEF First
<1>5. Bad = {}
  <2> SUFFICES ASSUME Bad # {} PROVE FALSE
    OBVIOUS
  <2>1. PICK k \in Bad : \A m \in Bad : k <= m
    <3>1. Bad \in SUBSET Nat
      BY <1>1
    <3> HIDE DEF Bad
    <3> QED
      BY <3>1, LeastNat
  <2>2. k \in 0..n /\ ~ \E j \in 0..k : Stops(k, j)
    OBVIOUS
  <2>3. k # 0
    <3>1. SUFFICES ASSUME k = 0 PROVE FALSE
      OBVIOUS
    <3>2. Stops(0, 0)
      <4>1. PriceOf(First(q, 0)) = 0
        BY <1>4, PriceOfNone, Zenon
      <4>3. amount - 0 = amount
        OBVIOUS
      <4>2. 0 \in 0..0 /\ 0..(0 - 1) = {}
        OBVIOUS
      <4> HIDE DEF R
      <4> QED
        BY <1>2, <1>4, <4>1, <4>2, <4>3
    <3> QED
      BY <2>2, <3>1, <3>2
  <2>4. k \in 1..n /\ k - 1 \in 0..n /\ k - 1 \notin Bad
    <3>1. k \in 1..n /\ k - 1 \in 0..n /\ k - 1 < k
      BY <1>1, <2>2, <2>3
    <3> HIDE DEF Bad
    <3> QED
      BY <2>1, <3>1
  <2>5. PICK j \in 0..(k - 1) : Stops(k - 1, j)
    BY <2>4
  <2> DEFINE price == PriceOf(First(q, j))
  <2>6. /\ j \in 0..n /\ price \in Int
        /\ R(k) = Step([revoked |-> First(q, j), remaining |-> amount - price], q[k])
    BY <1>1, <1>2, <1>3, <2>4, <2>5
  <2>7. CASE price >= amount
    <3>1. R(k) = [revoked |-> First(q, j), remaining |-> amount - price]
      BY <2>6, <2>7 DEF Step
    <3>2. j \in 0..k
      BY <2>4, <2>5
    <3>3. Stops(k, j)
      BY <2>5, <2>7, <3>1, <3>2
    <3> QED
      BY <2>2, <3>2, <3>3
  <2>8. CASE ~ (price >= amount)
    <3>1. j = k - 1 /\ price < amount
      BY <2>5, <2>6, <2>8
    <3>2. R(k) = [revoked |-> First(q, j) \cup {q[k]},
                  remaining |-> (amount - price) - GrantPrice(q[k][1], q[k][2])]
      BY <2>6, <3>1 DEF Step
    <3>3. /\ First(q, k) = First(q, j) \cup {q[k]} /\ First(q, j) = First(q, k) \ {q[k]}
          /\ q[k] \in First(q, k) /\ First(q, k) \in SUBSET W
      BY <2>4, <3>1, FirstGrows
    <3>4. IsFiniteSet(First(q, k)) /\ Priced(First(q, k))
      BY <3>3, FS_Subset DEF Priced
    <3>5. /\ PriceOf(First(q, k)) = price + GrantPrice(q[k][1], q[k][2])
          /\ GrantPrice(q[k][1], q[k][2]) \in Nat
      BY <3>3, <3>4, PriceOfOne
    <3>6. R(k) = [revoked |-> First(q, k), remaining |-> amount - PriceOf(First(q, k))]
      <4> DEFINE g == GrantPrice(q[k][1], q[k][2])
                 f == PriceOf(First(q, k))
      <4> HIDE DEF price, R, g, f
      <4>1. price \in Int /\ g \in Nat /\ f = price + g
        BY <2>6, <3>5 DEF f, g
      <4>2. (amount - price) - g = amount - f
        BY <4>1
      <4> QED
        BY <3>2, <3>3, <4>2 DEF f, g
    <3>7. ASSUME NEW i \in 0..(k - 1) PROVE PriceOf(First(q, i)) < amount
      <4>1. i = j \/ i \in 0..(j - 1)
        BY <3>1, <3>7, <2>4
      <4> QED
        BY <2>5, <3>1, <4>1
    <3>8. k \in 0..k
      BY <2>4
    <3>9. Stops(k, k)
      <4> HIDE DEF R
      <4> QED
        BY <3>6, <3>7, <3>8
    <3> QED
      BY <2>2, <3>8, <3>9
  <2> QED
    BY <2>7, <2>8
<1>6. n \in 0..n /\ n \notin Bad
  BY <1>1, <1>5
<1>7. PICK j \in 0..n : Stops(n, j)
  BY <1>6
<1>8. Walk(q, amount) = R(n).revoked
  BY <1>1, WalkIsResults
<1> QED
  BY <1>7, <1>8

-------------------------------------------------------------------------------
(* The loop and what Clawbacks allows.                                       *)

Ages(u) == [g \in WalletGrants(u) |-> GrantAge(g)]

\* What the loop works on: finitely many grants, each with a price and a purchase.
Walkable(u) ==
  /\ IsFiniteSet(WalletGrants(u)) /\ Priced(WalletGrants(u))
  /\ \A g \in WalletGrants(u) : GrantAge(g) \in Nat

\* The orders of the query are the lists by age.
LEMMA OrdersAreSorted ==
  ASSUME NEW u, NEW q, Walkable(u)
  PROVE  q \in WalkOrders(u) <=> Sorted(q, WalletGrants(u), Ages(u))
<1> DEFINE W == WalletGrants(u)
<1>1. q \in SetToSeqs(W) <=> Lists(q, W)
  BY DEF SetToSeqs, Lists
<1>2. ASSUME Lists(q, W)
      PROVE  (\A i, j \in DOMAIN q : i < j => GrantAge(q[i]) >= GrantAge(q[j]))
               <=> (\A i, j \in 1..Cardinality(W) : i < j => Ages(u)[q[i]] >= Ages(u)[q[j]])
  <2>1. DOMAIN q = 1..Cardinality(W)
    BY <1>2 DEF Lists
  <2>2. ASSUME NEW i \in 1..Cardinality(W) PROVE Ages(u)[q[i]] = GrantAge(q[i])
    BY <1>2 DEF Lists, Ages
  <2> QED
    BY <2>1, <2>2
<1>3. q \in WalkOrders(u) <=>
        q \in SetToSeqs(W) /\ \A i, j \in DOMAIN q : i < j => GrantAge(q[i]) >= GrantAge(q[j])
  BY DEF WalkOrders
<1> HIDE DEF W
<1>4. Sorted(q, W, Ages(u)) <=>
        Lists(q, W) /\ \A i, j \in 1..Cardinality(W) : i < j => Ages(u)[q[i]] >= Ages(u)[q[j]]
  BY DEF Sorted
<1> QED
  BY <1>1, <1>2, <1>3, <1>4 DEF W

\* Whatever order the query returns, the loop revokes what Clawbacks allows.
LEMMA WalkIsAllowed ==
  ASSUME NEW u, Walkable(u), NEW amount \in Nat, NEW q \in WalkOrders(u)
  PROVE  Walk(q, amount) \in Clawbacks(u, amount)
<1> DEFINE W == WalletGrants(u)
           n == Cardinality(W)
<1>1. Sorted(q, W, Ages(u)) /\ Lists(q, W)
  BY OrdersAreSorted DEF Sorted
<1>2. n \in Nat /\ (\A x \in W : \E i \in 1..n : q[i] = x) /\ First(q, n) = W
  BY <1>1, ListsAll DEF Walkable
<1>3. PICK j \in 0..n :
        /\ Walk(q, amount) = First(q, j)
        /\ \A i \in 0..(j - 1) : PriceOf(First(q, i)) < amount
        /\ j = n \/ PriceOf(First(q, j)) >= amount
  BY <1>1, LoopRevokes DEF Walkable
<1> DEFINE R == First(q, j)
<1>4. \A i \in 1..j : i \in 1..n /\ q[i] \in W
  BY <1>1, <1>2 DEF Lists
<1>5. R \in SUBSET W
  BY <1>4 DEF First
<1>6. \A i \in 1..n : Ages(u)[q[i]] = GrantAge(q[i]) /\ GrantAge(q[i]) \in Nat
  BY <1>1 DEF Lists, Ages, Walkable
<1>7. ASSUME NEW g \in R, NEW h \in W, GrantAge(h) > GrantAge(g) PROVE h \in R
  <2>1. PICK i \in 1..j : q[i] = g
    BY DEF First
  <2>2. PICK m \in 1..n : q[m] = h
    BY <1>2
  <2>3. CASE m \in 1..j
    BY <2>2, <2>3 DEF First
  <2>4. CASE m \notin 1..j
    <3>1. i \in 1..n /\ i < m
      BY <1>2, <2>1, <2>4
    <3>2. Ages(u)[q[i]] >= Ages(u)[q[m]]
      BY <1>1, <3>1 DEF Sorted
    <3>3. GrantAge(g) >= GrantAge(h) /\ GrantAge(g) \in Nat /\ GrantAge(h) \in Nat
      BY <1>6, <2>1, <2>2, <3>1, <3>2
    <3> QED
      BY <1>7, <3>3
  <2> QED
    BY <2>3, <2>4
<1>8. PriceOf(R) >= amount \/ R = W
  BY <1>2, <1>3
<1>9. ASSUME R # {}
      PROVE  \E last \in R : /\ \A g \in R : GrantAge(last) <= GrantAge(g)
                             /\ PriceOf(R \ {last}) < amount
  <2>1. j \in 1..n
    <3>1. j # 0
      BY <1>9 DEF First
    <3> QED
      BY <1>2, <3>1
  <2>2. q[j] \in R /\ R \ {q[j]} = First(q, j - 1)
    BY <1>1, <2>1, FirstGrows DEF Walkable
  <2>3. ASSUME NEW g \in R PROVE GrantAge(q[j]) <= GrantAge(g)
    <3>1. PICK i \in 1..j : q[i] = g
      BY DEF First
    <3>2. i \in 1..n /\ (i = j \/ i < j)
      BY <1>4, <2>1
    <3>3. i < j => Ages(u)[q[i]] >= Ages(u)[q[j]]
      BY <1>1, <2>1, <3>2 DEF Sorted
    <3> QED
      BY <1>6, <2>1, <3>1, <3>2, <3>3
  <2>4. j - 1 \in 0..(j - 1)
    BY <1>2, <2>1
  <2>5. PriceOf(R \ {q[j]}) < amount
    BY <1>3, <2>2, <2>4
  <2> QED
    BY <2>2, <2>3, <2>5
<1> HIDE DEF R
<1>10. R \in Clawbacks(u, amount)
  BY <1>5, <1>7, <1>8, <1>9 DEF Clawbacks
<1> QED
  BY <1>3, <1>10 DEF R

\* Two lists make one, when no grant of the second is newer than one of the first.
LEMMA Concatenated ==
  ASSUME NEW A, IsFiniteSet(A), NEW B, IsFiniteSet(B), A \cap B = {}, NEW age,
         \A x \in A \cup B : age[x] \in Nat,
         NEW p, Sorted(p, A, age), NEW r, Sorted(r, B, age),
         \A x \in A, y \in B : age[x] >= age[y]
  PROVE  \E q : /\ Sorted(q, A \cup B, age)
                /\ \A i \in 1..Cardinality(A) : q[i] = p[i]
<1> DEFINE m == Cardinality(A)
           n == Cardinality(B)
           q == [i \in 1..(m + n) |-> IF i <= m THEN p[i] ELSE r[i - m]]
<1>1. m \in Nat /\ n \in Nat /\ Cardinality(A \cup B) = m + n
  <2>1. m \in Nat /\ n \in Nat
    BY FS_CardinalityType
  <2>2. Cardinality(A \cup B) = m + n - Cardinality(A \cap B)
    BY FS_Union
  <2>3. Cardinality(A \cap B) = 0
    BY FS_EmptySet
  <2> HIDE DEF m, n
  <2> QED
    BY <2>1, <2>2, <2>3
<1>2. p \in [1..m -> A] /\ r \in [1..n -> B]
  BY DEF Sorted, Lists
<1>3. /\ \A i, j \in 1..m : i # j => p[i] # p[j]
      /\ \A i, j \in 1..n : i # j => r[i] # r[j]
      /\ \A i, j \in 1..m : i < j => age[p[i]] >= age[p[j]]
      /\ \A i, j \in 1..n : i < j => age[r[i]] >= age[r[j]]
  BY DEF Sorted, Lists
<1> HIDE DEF m, n
<1>4. ASSUME NEW i \in 1..(m + n)
      PROVE  \/ i \in 1..m /\ q[i] = p[i] /\ q[i] \in A
             \/ i > m /\ i - m \in 1..n /\ q[i] = r[i - m] /\ q[i] \in B
  <2>1. i <= m => i \in 1..m
    BY <1>1
  <2>2. ~ (i <= m) => i > m /\ i - m \in 1..n
    BY <1>1
  <2> QED
    BY <1>2, <2>1, <2>2
<1>5. \A i \in 1..m : i \in 1..(m + n) /\ ~ (i > m)
  BY <1>1
<1> HIDE DEF q
<1>6. q \in [1..(m + n) -> A \cup B]
  BY <1>4 DEF q
<1>7. ASSUME NEW i \in 1..(m + n), NEW j \in 1..(m + n), i # j PROVE q[i] # q[j]
  <2>1. i - m # j - m
    BY <1>1, <1>7
  <2> QED
    BY <1>3, <1>4, <1>7, <2>1
<1>8. ASSUME NEW i \in 1..(m + n), NEW j \in 1..(m + n), i < j PROVE age[q[i]] >= age[q[j]]
  <2>1. CASE i > m
    <3>1. j > m /\ i - m < j - m
      BY <1>1, <1>8, <2>1
    <3>2. i \notin 1..m /\ j \notin 1..m
      BY <1>1, <2>1, <3>1
    <3> QED
      BY <1>3, <1>4, <3>1, <3>2
  <2>2. CASE ~ (i > m)
    <3>1. i \in 1..m /\ q[i] = p[i] /\ q[i] \in A
      BY <1>4, <2>2
    <3>2. CASE j \in 1..m /\ q[j] = p[j]
      BY <1>3, <1>8, <3>1, <3>2
    <3>3. CASE q[j] \in B
      BY <3>1, <3>3
    <3> QED
      BY <1>4, <3>2, <3>3
  <2> QED
    BY <2>1, <2>2
<1>9. Sorted(q, A \cup B, age)
  BY <1>1, <1>6, <1>7, <1>8 DEF Sorted, Lists
<1>10. \A i \in 1..m : q[i] = p[i]
  BY <1>5 DEF q
<1> QED
  BY <1>9, <1>10 DEF m

\* Whatever Clawbacks allows, the loop revokes in some order of the query.
LEMMA AllowedIsWalked ==
  ASSUME NEW u, Walkable(u), NEW amount \in Nat, amount > 0, NEW R \in Clawbacks(u, amount)
  PROVE  \E q \in WalkOrders(u) : Walk(q, amount) = R
<1> DEFINE W == WalletGrants(u)
           n == Cardinality(W)
           age == Ages(u)
<1>1. /\ R \in SUBSET W
      /\ \A g \in R, h \in W : GrantAge(h) > GrantAge(g) => h \in R
      /\ PriceOf(R) >= amount \/ R = W
      /\ R # {} => \E last \in R : /\ \A g \in R : GrantAge(last) <= GrantAge(g)
                                   /\ PriceOf(R \ {last}) < amount
  BY DEF Clawbacks
<1>2. IsFiniteSet(W) /\ Priced(W) /\ n \in Nat /\ IsFiniteSet(R) /\ Cardinality(R) \in Nat
  BY <1>1, FS_Subset, FS_CardinalityType DEF Walkable
<1>3. age \in [W -> Nat] /\ \A g \in W : age[g] = GrantAge(g)
  BY DEF Ages, Walkable
<1>4. \A S \in SUBSET W : \E q : Sorted(q, S, age)
  BY <1>2, <1>3, SomeSorted
<1>5. CASE R = {}
  <2>1. W = {}
    BY <1>1, <1>5, PriceOfNone
  <2>2. PICK q : Sorted(q, W, age)
    BY <1>4
  <2>3. q \in WalkOrders(u) /\ Lists(q, W)
    BY <2>2, OrdersAreSorted DEF Sorted
  <2>4. n = 0
    BY <2>1, FS_EmptySet
  <2>5. Walk(q, amount) = First(q, 0)
    <3>1. 0..n = {0}
      BY <2>4
    <3> QED
      BY <3>1, <1>2, <2>3, LoopRevokes
  <2>6. First(q, 0) = {}
    BY DEF First
  <2> QED
    BY <1>5, <2>3, <2>5, <2>6
<1>6. CASE R # {}
  <2>1. PICK last \in R : /\ \A g \in R : GrantAge(last) <= GrantAge(g)
                          /\ PriceOf(R \ {last}) < amount
    BY <1>1, <1>6
  <2> DEFINE A == R \ {last}
             B == W \ R
             r == Cardinality(R)
  <2>2. /\ A \in SUBSET W /\ B \in SUBSET W /\ {last} \in SUBSET W
        /\ A \cup {last} = R /\ R \cup B = W /\ A \cap {last} = {} /\ R \cap B = {}
    BY <1>1
  <2>3. IsFiniteSet(A) /\ IsFiniteSet(B) /\ IsFiniteSet({last}) /\ r \in Nat /\ Cardinality(A) = r - 1
    <3>1. Cardinality(A) = r - 1
      BY <1>2, FS_RemoveElement
    <3> HIDE DEF A, B
    <3> QED
      BY <1>2, <2>2, <3>1, FS_Subset
  <2>4. PICK p : Sorted(p, A, age)
    BY <1>4, <2>2
  <2>5. PICK one : Sorted(one, {last}, age)
    BY <1>4, <2>2
  <2>6. PICK rest : Sorted(rest, B, age)
    BY <1>4, <2>2
  <2>7. \A x \in A, y \in {last} : age[x] >= age[y]
    BY <1>1, <1>3, <2>1
  <2>8. \A x \in R, y \in B : age[x] >= age[y]
    <3>1. ASSUME NEW x \in R, NEW y \in B PROVE age[x] >= age[y]
      <4>1. ~ (GrantAge(y) > GrantAge(x)) /\ GrantAge(x) \in Nat /\ GrantAge(y) \in Nat
        BY <1>1 DEF Walkable
      <4> QED
        BY <1>1, <1>3, <4>1
    <3> QED
      BY <3>1
  <2> HIDE DEF A, B, r, age, W, n
  <2>9. \A x \in W : age[x] \in Nat
    BY <1>3
  <2>10. PICK first : Sorted(first, R, age) /\ \A i \in 1..(r - 1) : first[i] = p[i]
    <3>1. \A x \in A \cup {last} : age[x] \in Nat
      BY <1>1, <2>2, <2>9
    <3>2. \E q : Sorted(q, A \cup {last}, age) /\ \A i \in 1..Cardinality(A) : q[i] = p[i]
      BY <2>2, <2>3, <2>4, <2>5, <2>7, <3>1, Concatenated
    <3> QED
      BY <2>2, <2>3, <3>2
  <2>11. PICK q : Sorted(q, W, age) /\ \A i \in 1..r : q[i] = first[i]
    <3>1. \A x \in R \cup B : age[x] \in Nat
      BY <1>1, <2>2, <2>9
    <3>2. \E q : Sorted(q, R \cup B, age) /\ \A i \in 1..Cardinality(R) : q[i] = first[i]
      BY <1>2, <2>2, <2>3, <2>6, <2>8, <2>10, <3>1, Concatenated
    <3> QED
      BY <2>2, <3>2 DEF r
  <2>12. First(q, r) = R
    <3>1. First(first, r) = R
      BY <1>2, <2>10, ListsAll DEF Sorted, r
    <3> QED
      BY <2>11, <3>1 DEF First
  <2>13. First(q, r - 1) = A
    <3>1. First(p, r - 1) = A
      BY <2>3, <2>4, ListsAll DEF Sorted
    <3>2. \A i \in 1..(r - 1) : i \in 1..r
      BY <2>3
    <3>3. \A i \in 1..(r - 1) : q[i] = p[i]
      BY <2>10, <2>11, <3>2
    <3> QED
      BY <3>1, <3>3 DEF First
  <2>14. PICK j \in 0..n :
           /\ Walk(q, amount) = First(q, j)
           /\ \A i \in 0..(j - 1) : PriceOf(First(q, i)) < amount
           /\ j = n \/ PriceOf(First(q, j)) >= amount
    BY <1>2, <2>11, LoopRevokes DEF Sorted, n
  <2>15. r <= n /\ (R = W => r = n)
    BY <1>1, <1>2, FS_Subset DEF r, n
  <2>16. ~ (j < r)
    <3>1. SUFFICES ASSUME j < r PROVE FALSE
      OBVIOUS
    <3>2. j # n /\ \A i \in 1..j : i \in 1..(r - 1)
      BY <1>2, <2>3, <2>15, <3>1
    <3>3. First(q, j) \in SUBSET A
      BY <2>13, <3>2 DEF First
    <3>4. IsFiniteSet(A) /\ Priced(A)
      BY <1>2, <2>2, <2>3 DEF Priced
    <3>5. PriceOf(First(q, j)) \in Int /\ PriceOf(First(q, j)) <= PriceOf(A) /\ PriceOf(A) \in Int
      <4>1. A \in SUBSET A
        OBVIOUS
      <4> QED
        BY <3>3, <3>4, <4>1, PriceGrows
    <3>6. PriceOf(A) < amount
      BY <2>1 DEF A
    <3> QED
      BY <2>14, <3>2, <3>5, <3>6
  <2>17. ~ (j > r)
    <3>1. SUFFICES ASSUME j > r PROVE FALSE
      OBVIOUS
    <3>2. r \in 0..(j - 1)
      BY <1>2, <2>3, <3>1
    <3>3. PriceOf(R) < amount
      BY <2>12, <2>14, <3>2
    <3>4. PriceOf(R) \in Int
      <4>1. R \in SUBSET W
        BY <1>1
      <4> QED
        BY <1>2, <4>1, PriceGrows
    <3>5. R = W
      BY <1>1, <3>3, <3>4
    <3> QED
      BY <1>2, <2>15, <3>1, <3>5
  <2>18. j = r
    BY <1>2, <2>3, <2>16, <2>17
  <2>19. q \in WalkOrders(u)
    BY <2>11, OrdersAreSorted DEF W, age
  <2> QED
    BY <2>12, <2>14, <2>18, <2>19
<1> QED
  BY <1>5, <1>6

-------------------------------------------------------------------------------
(* The grants of every reachable state.                                      *)

\* An active grant of a wallet purchase has its place in the order of purchases.
Dated ==
  \A o \in WalletOrders, s \in Skills : grants[o][s] = "active" => \E i \in DOMAIN funded : funded[i] = o

\* An order keeps its place when others are added.
LEMMA FundedGrows ==
  ASSUME IInv, Dated,
         NEW x \in Orders, CreateGrants(x)
  PROVE  Dated'
<1> SUFFICES ASSUME NEW o \in WalletOrders, NEW s \in Skills, grants'[o][s] = "active"
             PROVE  \E i \in DOMAIN funded' : funded'[i] = o
  BY DEF Dated
<1>1. funded \in Seq(Orders) /\ o \in Orders
  BY OrderAssumption DEF IInv, TypeOK
<1>2. CASE o = x
  <2>1. funded' = Append(funded, o)
    BY <1>2 DEF CreateGrants
  <2>2. Len(funded) + 1 \in DOMAIN funded' /\ funded'[Len(funded) + 1] = o
    BY <1>1, <2>1
  <2> QED
    BY <2>2
<1>3. CASE o # x
  <2>1. grants'[o][s] = grants[o][s]
    BY <1>1, <1>3 DEF CreateGrants, IInv, TypeOK
  <2>2. PICK i \in DOMAIN funded : funded[i] = o
    BY <2>1 DEF Dated
  <2>3. funded' = funded \/ funded' = Append(funded, x)
    BY DEF CreateGrants
  <2>4. i \in DOMAIN funded' /\ funded'[i] = o
    BY <1>1, <2>2, <2>3
  <2> QED
    BY <2>4
<1> QED
  BY <1>2, <1>3

\* No other transaction adds an active grant or forgets a purchase.
LEMMA NextDated == IInv /\ Dated /\ [Next]_vars => Dated'
<1> SUFFICES ASSUME IInv, Dated, [Next]_vars PROVE Dated'
  OBVIOUS
<1>1. ASSUME UNCHANGED funded,
             \A o \in Orders, s \in Skills : grants'[o][s] = "active" => grants[o][s] = "active"
      PROVE  Dated'
  BY <1>1, OrderAssumption DEF Dated
<1>2. ASSUME UNCHANGED ownVars PROVE Dated'
  BY <1>2 DEF Dated, ownVars
<1>3. CASE Checkout
  <2>1. ASSUME NEW p \in Requests, CommitWalletPurchase(p) PROVE Dated'
    <3>1. request[p].order \in Orders /\ CreateGrants(request[p].order)
      BY <2>1 DEF CommitWalletPurchase, RecordAndGrant, IInv, RequestsFresh
    <3> QED
      BY <3>1, FundedGrows
  <2> QED
    BY <1>2, <1>3, <2>1 DEF Checkout, GateCheckout, InsertMorOrder, AbandonRequest,
       BeginWalletPurchase
<1>4. CASE Settle
  <2> PICK o \in Orders \ (Topups \cup WalletOrders) :
         \/ \E mor \in ProviderIds \cup {None}, fp \in Fingerprints \cup {None} :
              SettleSkillOrBundle(o, mor, fp) \/ SettleOnHold(o, mor, fp)
         \/ ClearHeldOrder(o) \/ RefundOrder(o) \/ ChargebackOrder(o)
    BY <1>4 DEF Settle
  <2>1. CASE \/ \E mor \in ProviderIds \cup {None}, fp \in Fingerprints \cup {None} :
                  SettleSkillOrBundle(o, mor, fp)
             \/ ClearHeldOrder(o)
    BY <2>1, FundedGrows DEF SettleSkillOrBundle, ClearHeldOrder, RecordAndGrant
  <2>2. CASE \E mor \in ProviderIds \cup {None}, fp \in Fingerprints \cup {None} :
               SettleOnHold(o, mor, fp)
    BY <2>2, <1>2 DEF SettleOnHold
  <2>3. CASE RefundOrder(o)
    BY <2>3, <1>1 DEF RefundOrder, FlipGrants, IInv, TypeOK
  <2>4. CASE ChargebackOrder(o)
    BY <2>4, <1>1 DEF ChargebackOrder, FlipGrants, IInv, TypeOK
  <2> QED
    BY <2>1, <2>2, <2>3, <2>4
<1>5. CASE SettleWallet
  <2>1. ASSUME NEW o \in Topups, SettleTopup(o) PROVE Dated'
    BY <2>1, <1>2 DEF SettleTopup
  <2>2. ASSUME NEW o \in Topups, NEW to \in Reversed, ReverseTopup(o, to) PROVE Dated'
    BY <2>2, <1>1 DEF ReverseTopup, RevokeGrants
  <2> QED
    BY <1>5, <2>1, <2>2 DEF SettleWallet
<1>6. CASE UNCHANGED vars
  BY <1>6, <1>2 DEF vars
<1> QED
  BY <1>3, <1>4, <1>5, <1>6 DEF Next

\* Every purchase has finitely many grants, each of them with a part of its price.
LEMMA GrantsAreWalkable ==
  ASSUME IInv, Dated, NEW u \in Users
  PROVE  Walkable(u)
<1> DEFINE W == WalletGrants(u)
           Bought == {funded[i] : i \in DOMAIN funded}
           Pairs(o) == {o} \X Goods(o)
           All == UNION {Pairs(o) : o \in Bought}
<1>1. funded \in Seq(Orders) /\ Bought \in SUBSET Orders /\ DOMAIN funded = 1..Len(funded)
      /\ Len(funded) \in Nat
  BY DEF IInv, TypeOK
<1>2. ASSUME NEW q, NEW S, q \in Seq(S) PROVE IsFiniteSet({q[i] : i \in DOMAIN q})
  <2> DEFINE D == DOMAIN q
             T == {q[i] : i \in D}
  <2>1. IsFiniteSet(D)
    <3>1. D = 1..Len(q) /\ 1 \in Int /\ Len(q) \in Int
      BY <1>2
    <3> QED
      BY <3>1, FS_Interval
  <2>2. [i \in D |-> q[i]] \in Surjection(D, T)
    BY DEF Surjection
  <2> HIDE DEF D, T
  <2> QED
    BY <2>1, <2>2, FS_Surjection DEF D, T
<1>3. IsFiniteSet(Bought)
  BY <1>1, <1>2
<1>4. ASSUME NEW o \in Bought PROVE IsFiniteSet(Pairs(o))
  <2>1. o \in Orders /\ Members[o] \in Seq(Skills)
    BY <1>1, OrderAssumption
  <2>2. IsFiniteSet(Goods(o))
    BY <1>2, <2>1 DEF Goods
  <2> QED
    BY <2>2, FS_Singleton, FS_Product
<1>5. IsFiniteSet(All)
  <2> DEFINE T == {Pairs(o) : o \in Bought}
  <2>1. [o \in Bought |-> Pairs(o)] \in Surjection(Bought, T)
    BY DEF Surjection
  <2>2. \A P \in T : IsFiniteSet(P)
    BY <1>4
  <2> HIDE DEF T, Bought
  <2> QED
    BY <1>3, <2>1, <2>2, FS_Surjection, FS_UNION DEF T
<1>6. ASSUME NEW g \in W
      PROVE  /\ g[1] \in Orders /\ g[2] \in Skills /\ g = <<g[1], g[2]>>
             /\ g[1] \in WalletOrders /\ g[2] \in Goods(g[1])
             /\ \E i \in DOMAIN funded : funded[i] = g[1]
  <2>1. /\ g \in OrdersOf(u) \X Skills /\ g[1] \in WalletOrders /\ grants[g[1]][g[2]] = "active"
    BY DEF WalletGrants
  <2>2. g[1] \in Orders /\ g[2] \in Skills /\ g = <<g[1], g[2]>>
    BY <2>1 DEF OrdersOf
  <2> QED
    BY <2>1, <2>2 DEF Dated, IInv, GrantsBacked
<1>7. W \in SUBSET All
  <2>1. ASSUME NEW g \in W PROVE g \in All
    <3>1. g[1] \in Bought /\ g \in Pairs(g[1])
      BY <1>6
    <3> HIDE DEF W, Bought, Pairs
    <3> QED
      BY <3>1
  <2> HIDE DEF W, All
  <2> QED
    BY <2>1
<1>8. IsFiniteSet(W)
  <2> HIDE DEF W, All
  <2> QED
    BY <1>5, <1>7, FS_Subset
<1>9. ASSUME NEW g \in W PROVE GrantPrice(g[1], g[2]) \in Nat
  <2> DEFINE n == Len(Members[g[1]])
             a == Amount[g[1]]
  <2>1. Members[g[1]] \in Seq(Skills) /\ Members[g[1]] # <<>> /\ a \in Nat
    BY <1>6, OrderAssumption
  <2>2. n \in Nat /\ n > 0
    BY <2>1
  <2> HIDE DEF n, a
  <2>3. a \div n \in Nat /\ a % n \in Nat
    BY <2>1, <2>2
  <2>4. GrantPrice(g[1], g[2]) = (a \div n) + (IF g[2] = Members[g[1]][1] THEN a % n ELSE 0)
    BY DEF GrantPrice, n, a
  <2> QED
    BY <2>3, <2>4
<1>10. ASSUME NEW g \in W PROVE GrantAge(g) \in Nat
  <2>1. \E i \in DOMAIN funded : funded[i] = g[1]
    BY <1>6
  <2>2. GrantAge(g) \in DOMAIN funded
    BY <2>1 DEF GrantAge
  <2> QED
    BY <1>1, <2>2
<1> QED
  BY <1>8, <1>9, <1>10 DEF Walkable, Priced

\* In every reachable state, for every account and top-up, the sets of grants that the
\* settlement model lets a claw-back revoke are exactly those the loop of the code
\* revokes, whatever order the query returns among grants of one purchase.
THEOREM ClawbackTheorem == Spec => []ClawbackIsWalk
<1>1. Init => IInv /\ Dated
  <2>1. Init => Dated
    BY OrderAssumption DEF Init, Dated
  <2> QED
    BY <2>1, InitIInv
<1>2. IInv /\ Dated /\ [Next]_vars => (IInv /\ Dated)'
  BY NextIInv, NextDated
<1>3. IInv /\ Dated => ClawbackIsWalk
  <2> SUFFICES ASSUME IInv, Dated, NEW u \in Users, NEW amount \in {Amount[o] : o \in Topups}
               PROVE  Clawbacks(u, amount) = {Walk(q, amount) : q \in WalkOrders(u)}
    BY DEF ClawbackIsWalk
  <2>1. amount \in Nat /\ amount > 0
    BY OrderAssumption
  <2>2. Walkable(u)
    BY GrantsAreWalkable
  <2> QED
    BY <2>1, <2>2, WalkIsAllowed, AllowedIsWalked
<1> QED
  BY <1>1, <1>2, <1>3, PTL DEF Spec

===============================================================================
