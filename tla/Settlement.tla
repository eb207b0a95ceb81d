------------------------------ MODULE Settlement ------------------------------
(***************************************************************************)
(* The money and ownership documents of the backend (orders,               *)
(* settled_orders, grants, wallet_accounts, wallet_transactions) and the   *)
(* operations that change them.                                            *)
(*                                                                         *)
(* The @Transactional methods of SettlementService are one action each:    *)
(* MongoTransactionManager runs them as snapshot transactions, and every   *)
(* one writes the order document it is about (and the wallet document when *)
(* money moves), so two that touch the same order or wallet conflict.      *)
(* The exception is a wallet purchase: it also READS the account block and *)
(* the order count, which nothing it writes protects, so it is two steps,  *)
(* the snapshot and the commit.  The checkout gate on the public edge runs *)
(* outside any transaction and is a step of its own as well.               *)
(*                                                                         *)
(* What an order id is for (owner, price, skills) never changes once the   *)
(* order is written, so these are constants indexed by the order id.       *)
(***************************************************************************)
EXTENDS Integers, Sequences, FiniteSets, FiniteSetsExt

CONSTANTS
  Users,         \* accounts
  Orders,        \* order ids
  Skills,        \* skill ids
  Currencies,
  Requests,      \* checkout requests in flight at the public edge
  Keys,          \* Idempotency-Key values of wallet purchases
  ProviderIds,   \* order ids of the payment provider (payment intents)
  Fingerprints,  \* hashes of funding instruments
  None,          \* an absent value

  Topups,        \* the orders that buy wallet credit
  WalletOrders,  \* the orders paid from the wallet
  Owner, Amount, Currency, Members,   \* what an order is for

  VerifiedUsers, \* accounts with a verified e-mail address
  HighValue,     \* AntiFraudService.HIGH_VALUE_MINOR
  MaxPurchases   \* max-purchases-per-user-per-day; the model spans one day

ASSUME OrderAssumption ==
  /\ Topups \subseteq Orders
  /\ WalletOrders \subseteq Orders \ Topups
  /\ Owner \in [Orders -> Users]
  /\ Amount \in [Orders -> Nat]
  /\ Currency \in [Orders -> Currencies]
  /\ Members \in [Orders -> Seq(Skills)]
  /\ \A o \in Topups : Members[o] = <<>> /\ Amount[o] > 0
  /\ \A o \in Orders \ Topups : Members[o] # <<>>

ASSUME NoneAssumption ==
  /\ None \notin Currencies \cup ProviderIds \cup Fingerprints \cup Orders \cup Keys
  /\ MaxPurchases \in Nat /\ HighValue \in Nat

-------------------------------------------------------------------------------
VARIABLES
  orderStatus,   \* orders.status, "none" while the order is not written
  grantHeld,     \* orders.grant_held
  morOrderId,    \* orders.mor_order_id
  fingerprint,   \* orders.payment_fingerprint
  settled,       \* settled_orders: no row, a clean row, a chargeback_blocked row
  grants,        \* grants.status of each (order_id, skill_id)
  funded,        \* wallet orders, oldest grants first (grants.granted_at)
  wallet,        \* wallet_accounts of each user
  ledger,        \* wallet_transactions
  request        \* what each checkout request in flight remembers

orderVars == <<orderStatus, grantHeld, morOrderId, fingerprint>>
ownVars   == <<settled, grants, funded>>
moneyVars == <<wallet, ledger>>
vars      == <<orderVars, ownVars, moneyVars, request>>

Reversed == {"refunded", "charged_back"}

NoWallet == [status |-> "none", balance |-> 0, currency |-> None]
Idle     == [pc |-> "idle", order |-> None, key |-> None, seen |-> NoWallet]

WalletType == [status   : {"none", "active", "frozen"},
               balance  : Int,
               currency : Currencies \cup {None}]

\* wallet_transactions.idempotency_key, unique over the collection.
LedgerKeys == ({"credit", "clawback"} \X Orders) \cup ({"client"} \X (Keys \cup {None}))

LedgerType == [key : LedgerKeys, user : Users, order : Orders, delta : Int]

RequestType == [pc    : {"idle", "gated", "begun"},
                order : Orders \cup {None},
                key   : Keys \cup {None},
                seen  : WalletType]

TypeOK ==
  /\ orderStatus \in [Orders -> {"none", "pending", "paid"} \cup Reversed]
  /\ grantHeld \in [Orders -> BOOLEAN]
  /\ morOrderId \in [Orders -> ProviderIds \cup {None}]
  /\ fingerprint \in [Orders -> Fingerprints \cup {None}]
  /\ settled \in [Orders -> {"absent", "clean", "blocked"}]
  /\ grants \in [Orders -> [Skills -> {"none", "active"} \cup Reversed]]
  /\ funded \in Seq(Orders)
  /\ wallet \in [Users -> WalletType]
  /\ ledger \subseteq LedgerType
  /\ request \in [Requests -> RequestType]

Init ==
  /\ orderStatus = [o \in Orders |-> "none"]
  /\ grantHeld = [o \in Orders |-> FALSE]
  /\ morOrderId = [o \in Orders |-> None]
  /\ fingerprint = [o \in Orders |-> None]
  /\ settled = [o \in Orders |-> "absent"]
  /\ grants = [o \in Orders |-> [s \in Skills |-> "none"]]
  /\ funded = <<>>
  /\ wallet = [u \in Users |-> NoWallet]
  /\ ledger = {}
  /\ request = [p \in Requests |-> Idle]

-------------------------------------------------------------------------------
(* Reads *)

OrdersOf(u) == {o \in Orders : Owner[o] = u}

Goods(o) == {Members[o][i] : i \in DOMAIN Members[o]}

\* SettlementLogService.isAccountChargebackBlocked
AccountBlocked(u) == \E o \in OrdersOf(u) : settled[o] = "blocked"

\* SettlementLogService.hasCleanSettledPayment
HasCleanPayment(u) == \E o \in OrdersOf(u) : settled[o] = "clean"

\* AntiFraudService.priorOrderCount and, within the model's one day, ordersInLastDay
OrderCount(u) == Cardinality({o \in OrdersOf(u) : orderStatus[o] # "none"})

\* AntiFraudService.assertNotBlockedAndUnderVelocity
MayPurchase(u) == ~AccountBlocked(u) /\ OrderCount(u) < MaxPurchases

\* The purchase-eligibility gate of AntiFraudService.assertPurchaseAllowed.
Eligible(o) ==
  LET u == Owner[o] IN
    \/ o \in Topups
    \/ OrderCount(u) = 0 /\ Amount[o] < HighValue
    \/ u \in VerifiedUsers
    \/ HasCleanPayment(u)

\* GrantService.createGrants: the order's price split over its skills, the
\* remainder on the first one.
GrantPrice(o, s) ==
  LET n == Len(Members[o]) IN
    (Amount[o] \div n) + (IF s = Members[o][1] THEN Amount[o] % n ELSE 0)

-------------------------------------------------------------------------------
(* Writes shared by several transactions *)

(* A definition whose name begins with Mutant is the next one with a plausible
   bug.  No specification uses it: it shows which property the bug breaks.     *)

\* The conditional update forgets its condition on the status.
MutantFlipUnguarded(o, from, to) ==
  /\ orderStatus[o] # "none"
  /\ orderStatus' = [orderStatus EXCEPT ![o] = to]

\* SettlementService.flip: the guarded conditional update of orders.status.
Flip(o, from, to) ==
  /\ orderStatus[o] \in from
  /\ orderStatus' = [orderStatus EXCEPT ![o] = to]

\* A bundle grants its first member only.
MutantGrantsFirstOnly(o) ==
  /\ grants' = [grants EXCEPT ![o][Members[o][1]] = IF @ = "none" THEN "active" ELSE @]
  /\ funded' = IF o \in WalletOrders THEN Append(funded, o) ELSE funded

CreateGrants(o) ==
  /\ grants' = [grants EXCEPT ![o] = [s \in Skills |->
       IF s \in Goods(o) /\ grants[o][s] = "none" THEN "active" ELSE grants[o][s]]]
  /\ funded' = IF o \in WalletOrders THEN Append(funded, o) ELSE funded

\* mongo.save replaces the row, whatever it said.
RecordAndGrant(o) ==
  /\ settled' = [settled EXCEPT ![o] = "clean"]
  /\ CreateGrants(o)

\* The update matches the skills of the order, on whatever order they were bought.
MutantFlipBySkill(o, to) ==
  grants' = [x \in Orders |-> [s \in Skills |->
    IF Owner[x] = Owner[o] /\ s \in Goods(o) /\ grants[x][s] = "active"
    THEN to ELSE grants[x][s]]]

FlipGrants(o, to) ==
  grants' = [grants EXCEPT ![o] = [s \in Skills |->
    IF grants[o][s] = "active" THEN to ELSE grants[o][s]]]

BlockAccount(u) ==
  settled' = [o \in Orders |->
    IF Owner[o] = u /\ settled[o] # "absent" THEN "blocked" ELSE settled[o]]

KeyUsed(k) == \E l \in ledger : l.key = k

AppendLedger(k, u, o, d) ==
  /\ ~KeyUsed(k)
  /\ ledger' = ledger \cup {[key |-> k, user |-> u, order |-> o, delta |-> d]}

\* The active wallet-funded grants of an account, as <<order, skill>> pairs.
WalletGrants(u) ==
  {g \in OrdersOf(u) \X Skills : g[1] \in WalletOrders /\ grants[g[1]][g[2]] = "active"}

GrantAge(g) == CHOOSE i \in DOMAIN funded : funded[i] = g[1]

PriceOf(G) == MapThenSumSet(LAMBDA g : GrantPrice(g[1], g[2]), G)

\* What GrantService.revokeWalletGrantsMostRecentFirst may revoke: it walks the
\* account's active wallet grants from the newest purchase to the oldest (the
\* grants of one purchase share granted_at and are told apart by random id
\* bits, so in any order) and revokes whole grants until the amount is covered.
Clawbacks(u, amount) ==
  {R \in SUBSET WalletGrants(u) :
     /\ \A g \in R, h \in WalletGrants(u) : GrantAge(h) > GrantAge(g) => h \in R
     /\ PriceOf(R) >= amount \/ R = WalletGrants(u)
     /\ R # {} => \E last \in R :
          /\ \A g \in R : GrantAge(last) <= GrantAge(g)
          /\ PriceOf(R \ {last}) < amount}

RevokeGrants(R) ==
  grants' = [o \in Orders |-> [s \in Skills |->
    IF <<o, s>> \in R THEN "charged_back" ELSE grants[o][s]]]

-------------------------------------------------------------------------------
(* Checkout, on the public edge *)

\* OrderService.checkout and payWallet up to the gate: nothing is written, the
\* decision is carried to a later step.  The order id is generated afterwards,
\* so no two requests share one.
GateCheckout(p, o, k) ==
  LET u == Owner[o] IN
    /\ request[p].pc = "idle"
    /\ orderStatus[o] = "none"
    /\ o \notin WalletOrders => k = None    \* only the wallet debit uses the key
    /\ \A q \in Requests : request[q].order # o
    /\ MayPurchase(u) /\ Eligible(o)
    /\ o \in Topups => wallet[u].status = "none" \/ wallet[u].currency = Currency[o]
    /\ request' = [request EXCEPT ![p] =
                     [pc |-> "gated", order |-> o, key |-> k, seen |-> NoWallet]]
    /\ UNCHANGED <<orderVars, ownVars, moneyVars>>

\* OrderService.createMorOrder
InsertMorOrder(p) ==
  LET o == request[p].order IN
    /\ request[p].pc = "gated" /\ o \notin WalletOrders
    /\ orderStatus' = [orderStatus EXCEPT ![o] = "pending"]
    /\ request' = [request EXCEPT ![p] = Idle]
    /\ UNCHANGED <<grantHeld, morOrderId, fingerprint, ownVars, moneyVars>>

\* The request fails at any point: a rejected gate or debit, a write conflict,
\* a lost connection.  The transaction, if one is open, rolls back.
AbandonRequest(p) ==
  /\ request[p].pc # "idle"
  /\ request' = [request EXCEPT ![p] = Idle]
  /\ UNCHANGED <<orderVars, ownVars, moneyVars>>

-------------------------------------------------------------------------------
(* SettlementService.payWithWallet, one transaction in two steps *)

\* The snapshot: the account gate is decided on it and the wallet is read.
BeginWalletPurchase(p) ==
  LET o == request[p].order IN
    /\ request[p].pc = "gated" /\ o \in WalletOrders
    /\ MayPurchase(Owner[o])
    /\ request' = [request EXCEPT ![p].pc = "begun", ![p].seen = wallet[Owner[o]]]
    /\ UNCHANGED <<orderVars, ownVars, moneyVars>>

\* WalletService.debitForOrder: what the wallet must be for the order to be paid.
Spendable(w, o) ==
  w.status = "active" /\ w.currency = Currency[o] /\ w.balance >= Amount[o]

\* The commit: the wallet document must be the one of the snapshot (a write
\* conflict aborts), and the debit guards itself.
CommitWalletPurchase(p) ==
  LET o == request[p].order
      u == Owner[o]
  IN
    /\ request[p].pc = "begun"
    /\ wallet[u] = request[p].seen
    /\ Spendable(wallet[u], o)
    /\ orderStatus' = [orderStatus EXCEPT ![o] = "paid"]
    /\ AppendLedger(<<"client", request[p].key>>, u, o, 0 - Amount[o])
    /\ wallet' = [wallet EXCEPT ![u].balance = @ - Amount[o]]
    /\ RecordAndGrant(o)
    /\ request' = [request EXCEPT ![p] = Idle]
    /\ UNCHANGED <<grantHeld, morOrderId, fingerprint>>

-------------------------------------------------------------------------------
(* The webhook transactions of SettlementService.  Each is written as the     *)
(* transaction that takes effect; when its guarded flip matches no document   *)
(* the method changes nothing.                                                *)

\* paidUpdate: the pending -> paid flip, stamping what the event carries.
PaidUpdate(o, mor, fp) ==
  /\ Flip(o, {"pending"}, "paid")
  /\ morOrderId' = IF mor = None THEN morOrderId ELSE [morOrderId EXCEPT ![o] = mor]
  /\ fingerprint' = IF fp = None THEN fingerprint ELSE [fingerprint EXCEPT ![o] = fp]

SettleSkillOrBundle(o, mor, fp) ==
  /\ PaidUpdate(o, mor, fp)
  /\ RecordAndGrant(o)
  /\ UNCHANGED <<grantHeld, moneyVars, request>>

\* The hold withholds the grants but writes the settlement row.
MutantHoldRecords(o, mor, fp) ==
  /\ PaidUpdate(o, mor, fp)
  /\ grantHeld' = [grantHeld EXCEPT ![o] = TRUE]
  /\ settled' = [settled EXCEPT ![o] = "clean"]
  /\ UNCHANGED <<grants, funded, moneyVars, request>>

SettleOnHold(o, mor, fp) ==
  /\ PaidUpdate(o, mor, fp)
  /\ grantHeld' = [grantHeld EXCEPT ![o] = TRUE]
  /\ UNCHANGED <<ownVars, moneyVars, request>>

ClearHeldOrder(o) ==
  /\ orderStatus[o] = "paid" /\ grantHeld[o]
  /\ grantHeld' = [grantHeld EXCEPT ![o] = FALSE]
  /\ RecordAndGrant(o)
  /\ UNCHANGED <<orderStatus, morOrderId, fingerprint, moneyVars, request>>

\* WalletService.creditSettledTopup throws on a wallet of another currency.
CreditThrows(o) ==
  LET w == wallet[Owner[o]] IN w.status # "none" /\ w.currency # Currency[o]

SettleTopup(o) ==
  LET u == Owner[o] IN
    /\ Flip(o, {"pending"}, "paid")
    /\ ~CreditThrows(o)
    /\ AppendLedger(<<"credit", o>>, u, o, Amount[o])
    /\ wallet' = [wallet EXCEPT ![u] =
         [status   |-> IF @.status = "none" THEN "active" ELSE @.status,
          balance  |-> @.balance + Amount[o],
          currency |-> Currency[o]]]
    /\ UNCHANGED <<grantHeld, morOrderId, fingerprint, ownVars, request>>

RefundOrder(o) ==
  /\ Flip(o, {"pending", "paid"}, "refunded")
  /\ FlipGrants(o, "refunded")
  /\ UNCHANGED <<grantHeld, morOrderId, fingerprint, settled, funded, moneyVars, request>>

ChargebackOrder(o) ==
  /\ Flip(o, {"pending", "paid"}, "charged_back")
  /\ FlipGrants(o, "charged_back")
  /\ BlockAccount(Owner[o])
  /\ UNCHANGED <<grantHeld, morOrderId, fingerprint, funded, moneyVars, request>>

\* WalletService.clawbackTopup throws when the account has no wallet.
ClawbackThrows(o) == wallet[Owner[o]].status = "none"

ReverseTopup(o, to) ==
  LET u == Owner[o] IN
    /\ Flip(o, {"pending", "paid"}, to)
    /\ ~ClawbackThrows(o)
    /\ AppendLedger(<<"clawback", o>>, u, o, 0 - Amount[o])
    /\ wallet' = [wallet EXCEPT ![u].balance = @ - Amount[o], ![u].status = "frozen"]
    /\ \E R \in Clawbacks(u, Amount[o]) : RevokeGrants(R)
    /\ IF to = "charged_back" THEN BlockAccount(u) ELSE UNCHANGED settled
    /\ UNCHANGED <<grantHeld, morOrderId, fingerprint, funded, request>>

-------------------------------------------------------------------------------
Checkout ==
  \E p \in Requests :
    \/ \E o \in Orders, k \in Keys \cup {None} : GateCheckout(p, o, k)
    \/ InsertMorOrder(p)
    \/ AbandonRequest(p)
    \/ BeginWalletPurchase(p)
    \/ CommitWalletPurchase(p)

\* Top-ups and other provider-paid orders take different transactions.
Settle ==
  \E o \in Orders \ (Topups \cup WalletOrders) :
    \/ \E mor \in ProviderIds \cup {None}, fp \in Fingerprints \cup {None} :
         SettleSkillOrBundle(o, mor, fp) \/ SettleOnHold(o, mor, fp)
    \/ ClearHeldOrder(o)
    \/ RefundOrder(o)
    \/ ChargebackOrder(o)

SettleWallet ==
  \E o \in Topups : SettleTopup(o) \/ \E to \in Reversed : ReverseTopup(o, to)

Next == Checkout \/ Settle \/ SettleWallet

Spec == Init /\ [][Next]_vars

-------------------------------------------------------------------------------
(* Safety *)

\* An active grant, which is what licenses are issued from, always stands on an
\* order that is paid, not on hold, not reversed, and in the settlement log; and
\* it is for a skill of that order.
GrantsBacked ==
  \A o \in Orders, s \in Skills : grants[o][s] = "active" =>
    /\ s \in Goods(o)
    /\ orderStatus[o] = "paid"
    /\ ~grantHeld[o]
    /\ settled[o] # "absent"

\* settleSkillOrBundleOnHold withholds everything, and so does an order that was
\* not paid: until the goods are delivered there is no settlement-log row and no
\* grant of any status, so a reversal of a held order has nothing to undo and
\* recordSettled, which saves over whatever row is there, finds none.
NothingBeforeDelivery ==
  \A o \in Orders :
    /\ grantHeld[o] => orderStatus[o] \in {"paid"} \cup Reversed
    /\ grantHeld[o] \/ orderStatus[o] \in {"none", "pending"} =>
         /\ settled[o] = "absent"
         /\ \A s \in Skills : grants[o][s] = "none"

\* Nothing is delivered before its order is paid and cleared, and nothing stays
\* delivered on an order that no longer stands.
DeliveryIsSafe == GrantsBacked /\ NothingBeforeDelivery

LedgerOf(u) == {l \in ledger : l.user = u}

\* The ledger insert and the balance update commit together: the balance of a
\* wallet is always the sum of its ledger lines, also after claw-backs that
\* drive it below zero.
BalanceIsLedger ==
  \A u \in Users : wallet[u].balance = MapThenSumSet(LAMBDA l : l.delta, LedgerOf(u))

\* The ledger tells the same story as the orders: a top-up was credited and not
\* clawed back exactly while its order is paid, a reversed one was clawed back,
\* a wallet order was debited exactly when it exists, and no Idempotency-Key
\* paid for two orders.
LedgerFollowsOrders ==
  /\ \A o \in Topups :
       /\ orderStatus[o] = "paid" <=> KeyUsed(<<"credit", o>>) /\ ~KeyUsed(<<"clawback", o>>)
       /\ orderStatus[o] \in Reversed <=> KeyUsed(<<"clawback", o>>)
  /\ \A o \in WalletOrders :
       orderStatus[o] = "paid" <=> \E l \in ledger : l.order = o /\ l.delta = 0 - Amount[o]
  /\ \A l, m \in ledger : l.key = m.key => l = m

\* Only a claw-back may take a balance below zero, and it freezes the wallet, so
\* nobody spends from a wallet in debt.
DebtIsFrozen == \A u \in Users : wallet[u].balance < 0 => wallet[u].status = "frozen"

\* Money is never made, lost or spent from debt: balance, ledger, orders and the freeze
\* of a wallet tell one story, whatever order credits, debits and claw-backs come in.
WalletIsSound == BalanceIsLedger /\ LedgerFollowsOrders /\ DebtIsFrozen

(* What a step may never do *)

\* A settled row that a chargeback blocked is never made clean again, although
\* recordSettled saves over whatever row is there.
BlockIsSticky == [][\A o \in Orders : settled[o] = "blocked" => settled'[o] = "blocked"]_vars

Owns(u, s) == \E o \in OrdersOf(u) : grants[o][s] = "active"

\* A user loses a skill only in a step that reverses an order of that same user,
\* and a reversal takes away no skill that another active grant still covers
\* unless it is a top-up's claw-back.
LossNeedsReversal ==
  [][\A u \in Users, s \in Skills : Owns(u, s) /\ ~Owns(u, s)' =>
       \E o \in OrdersOf(u) :
         /\ orderStatus[o] \notin Reversed /\ orderStatus'[o] \in Reversed
         /\ o \in Topups \/
              \A x \in OrdersOf(u) \ {o} : grants[x][s] # "active"]_vars

(* Implementation of the abstract order *)

Phase(o) ==
  CASE orderStatus[o] = "none"      -> "none"
    [] orderStatus[o] = "pending"   -> "pending"
    [] orderStatus[o] \in Reversed  -> "reversed"
    [] orderStatus[o] = "paid"      -> IF grantHeld[o] THEN "held" ELSE "delivered"

abstractPhase == [o \in Orders |-> Phase(o)]
abstractLive  == [o \in Orders |-> {s \in Skills : grants[o][s] = "active"}]
contents      == [o \in Orders |-> Goods(o)]

Lifecycle == INSTANCE OrderLifecycle WITH
  phase <- abstractPhase, live <- abstractLive, Contents <- contents

\* Every order delivers its skills at most once and a reversed order delivers
\* nothing any more, whatever sequence of transactions runs.
ImplementsLifecycle == Lifecycle!Spec
===============================================================================
