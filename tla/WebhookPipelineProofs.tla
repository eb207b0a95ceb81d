------------------------ MODULE WebhookPipelineProofs ------------------------
(***************************************************************************)
(* For any number of workers, rows and events: the webhook path changes the *)
(* documents only by the transactions of Settlement, and no delivery       *)
(* vanishes.                                                               *)
(***************************************************************************)
EXTENDS WebhookPipeline, SettlementProofs

USE DEF LetGo

\* A stored delivery is about an order that was written, and the event id that a row
\* claimed is the one in its body; only events that lead to a transaction are claimed.
RowsSound ==
  \A r \in Rows :
    /\ rowStatus[r] # "absent" =>
         rowBody[r] \in Events /\ orderStatus[Event[rowBody[r]].about] # "none"
    /\ rowStatus[r] = "absent" => rowEvent[r] = None
    /\ rowEvent[r] # None =>
         rowEvent[r] = rowBody[r] /\ Event[rowBody[r]].type \notin {"forged", "garbled", "ignored"}

\* The delivery of row r needs no transaction: nobody is interested in it, or another
\* row has claimed its event id.
NothingToDo(r) ==
  /\ rowEvent[r] = None
  /\ \/ Event[rowBody[r]].type = "ignored"
     \/ \E x \in Rows \ {r} : rowEvent[x] = rowBody[r]

\* The delivery of row r has taken effect.
Done(r) == Event[rowBody[r]].echo => Applied(Event[rowBody[r]], Event[rowBody[r]].about)

\* The transactions that dispatch may pick for an event.
TodosOf(type) ==
  CASE type = "succeeded"  -> {"settle", "hold"}
    [] type = "cleared"    -> {"clear"}
    [] type = "refunded"   -> {"refunded"}
    [] type = "chargeback" -> {"charged_back"}
    [] OTHER -> {}

\* What a worker holds stays right while others write: a row that exists, from the
\* dedupe on with its event id, and from the checks on an order that the webhook
\* transactions may touch.
HoldingSound(w) ==
  LET r  == worker[w].row
      ev == Event[rowBody[r]]
      o  == worker[w].order
  IN
    /\ worker[w].pc # "idle" => r \in Rows /\ rowStatus[r] # "absent"
    /\ worker[w].pc \in {"deduped", "checked"} => rowEvent[r] # None
    /\ worker[w].pc = "checked" =>
         /\ o \in Orders \ WalletOrders
         /\ ev.echo => o = ev.about
         /\ worker[w].todo \in TodosOf(ev.type)
         /\ worker[w].todo = "hold" => o \notin Topups
    /\ worker[w].pc = "processed" => NothingToDo(r) \/ (rowEvent[r] # None /\ Done(r))

\* A row that finished as processed was applied or needed no transaction.
RowsDone ==
  \A r \in Rows : rowStatus[r] = "processed" =>
    NothingToDo(r) \/ (rowEvent[r] # None /\ Done(r))

\* Only the webhook transactions of skills and bundles store a provider order id.
MorNeverOnWallet == \A o \in WalletOrders : morOrderId[o] = None

\* The workers that may still return row r for a retry.
Pending(r) == {w \in Workers : worker[w].row = r /\ worker[w].attempts + 1 < MaxAttempts}

\* Whoever holds the row with few attempts will add one at most once.
RetriesLeft ==
  \A r \in Rows : attempts[r] + Cardinality(Pending(r)) <= MaxAttempts + Cardinality(Workers) - 2

\* The inductive invariant.
PInv == /\ IInv /\ PipelineTypeOK /\ RowsSound /\ RowsDone /\ MorNeverOnWallet /\ RetriesLeft
        /\ \A w \in Workers : HoldingSound(w)

-------------------------------------------------------------------------------
(* What the transactions of Settlement never do to an order *)

\* An order that was written stays written, a paid one is only reversed, and a reversed
\* one stays reversed.
LEMMA StatusMoves ==
  ASSUME IInv, [Next]_vars, NEW o \in Orders
  PROVE  /\ orderStatus[o] # "none" => orderStatus'[o] # "none"
         /\ orderStatus[o] \in {"paid"} \cup Reversed => orderStatus'[o] \in {"paid"} \cup Reversed
         /\ orderStatus[o] \in Reversed => orderStatus'[o] \in Reversed
<1> DEFINE Goal == /\ orderStatus[o] # "none" => orderStatus'[o] # "none"
                   /\ orderStatus[o] \in {"paid"} \cup Reversed =>
                        orderStatus'[o] \in {"paid"} \cup Reversed
                   /\ orderStatus[o] \in Reversed => orderStatus'[o] \in Reversed
<1> USE DEF IInv, TypeOK
<1>1. ASSUME UNCHANGED orderStatus PROVE Goal
  BY <1>1
<1>2. ASSUME NEW x \in Orders, Flip(x, {"pending"}, "paid") PROVE Goal
  BY <1>2 DEF Flip, Reversed
<1>3. ASSUME NEW x \in Orders, NEW to \in Reversed, Flip(x, {"pending", "paid"}, to) PROVE Goal
  BY <1>3 DEF Flip, Reversed
<1>4. ASSUME NEW x \in Orders, orderStatus[x] = "none", NEW to \in {"pending", "paid"},
             orderStatus' = [orderStatus EXCEPT ![x] = to]
      PROVE  Goal
  BY <1>4 DEF Reversed
<1>5. CASE Checkout
  <2>1. ASSUME NEW p \in Requests, InsertMorOrder(p) \/ CommitWalletPurchase(p) PROVE Goal
    BY <2>1, <1>4 DEF InsertMorOrder, CommitWalletPurchase, RequestsFresh
  <2> QED
    BY <1>5, <1>1, <2>1 DEF Checkout, GateCheckout, AbandonRequest, BeginWalletPurchase, orderVars
<1>6. CASE Settle
  BY <1>6, <1>1, <1>2, <1>3 DEF Settle, SettleSkillOrBundle, SettleOnHold, ClearHeldOrder,
     RefundOrder, ChargebackOrder, PaidUpdate, Reversed
<1>7. CASE SettleWallet
  BY <1>7, <1>2, <1>3, OrderAssumption DEF SettleWallet, SettleTopup, ReverseTopup
<1>8. CASE UNCHANGED vars
  BY <1>8, <1>1 DEF vars, orderVars
<1> QED
  BY <1>5, <1>6, <1>7, <1>8 DEF Next

\* A wallet order never carries an order id of the provider.
LEMMA MorKept ==
  ASSUME IInv, MorNeverOnWallet, [Next]_vars
  PROVE  MorNeverOnWallet'
<1> USE OrderAssumption DEF IInv, TypeOK, MorNeverOnWallet
<1>1. ASSUME UNCHANGED morOrderId PROVE MorNeverOnWallet'
  BY <1>1
<1>2. ASSUME NEW o \in Orders \ (Topups \cup WalletOrders), NEW mor, NEW fp, PaidUpdate(o, mor, fp)
      PROVE  MorNeverOnWallet'
  BY <1>2 DEF PaidUpdate
<1>3. CASE Checkout
  BY <1>3, <1>1 DEF Checkout, GateCheckout, InsertMorOrder, AbandonRequest, BeginWalletPurchase,
     CommitWalletPurchase, orderVars
<1>4. CASE Settle
  BY <1>4, <1>1, <1>2 DEF Settle, SettleSkillOrBundle, SettleOnHold, ClearHeldOrder, RefundOrder,
     ChargebackOrder
<1>5. CASE SettleWallet
  BY <1>5, <1>1 DEF SettleWallet, SettleTopup, ReverseTopup
<1>6. CASE UNCHANGED vars
  BY <1>6, <1>1 DEF vars, orderVars
<1> QED
  BY <1>3, <1>4, <1>5, <1>6 DEF Next

-------------------------------------------------------------------------------
(* Refinement, step by step *)

\* The transaction of a checked worker is one of Settlement.
LEMMA ApplyIsSettlement ==
  ASSUME PInv, NEW w \in Workers, ApplyRow(w)
  PROVE  [Next]_vars
<1> DEFINE r == worker[w].row
           o == worker[w].order
           ev == Event[rowBody[r]]
           todo == worker[w].todo
<1>1. r \in Rows /\ rowBody[r] \in Events /\ ev \in EventType
  BY PipelineAssumption DEF PInv, HoldingSound, RowsSound, ApplyRow
<1>2. /\ o \in Orders \ WalletOrders
      /\ todo = "hold" => o \notin Topups
  BY DEF PInv, HoldingSound, ApplyRow
<1>3. ev.mor \in ProviderIds \cup {None} /\ ev.fp \in Fingerprints \cup {None}
  BY <1>1 DEF EventType
<1>4. Transaction(todo, o, ev) \/ UNCHANGED vars
  BY DEF ApplyRow
<1> HIDE DEF r, o, ev, todo
<1>5. CASE o \in Topups
  BY <1>2, <1>4, <1>5 DEF Transaction, Next, SettleWallet
<1>6. CASE o \notin Topups
  <2>1. o \in Orders \ (Topups \cup WalletOrders)
    BY <1>2, <1>6
  <2> QED
    BY <1>3, <1>4, <1>6, <2>1 DEF Transaction, Next, Settle
<1> QED
  BY <1>5, <1>6

\* Every step of the path is a step of Settlement or leaves the documents alone.
LEMMA StepIsSettlement ==
  ASSUME PInv, [PipelineNext]_pipeVars
  PROVE  [Next]_vars
<1>1. CASE Checkout
  BY <1>1 DEF Next
<1>2. ASSUME NEW w \in Workers, ApplyRow(w) PROVE [Next]_vars
  BY <1>2, ApplyIsSettlement
<1>3. CASE UNCHANGED pipeVars
  BY <1>3 DEF pipeVars
<1> QED
  BY <1>1, <1>2, <1>3 DEF PipelineNext, WorkerStep, Receive, ClaimRow, DedupeRow, CheckRow,
     FinishRow, TransientFailure, Crash, Expire

-------------------------------------------------------------------------------
(* What every step leaves alone *)

\* A stored body stays, an event id once claimed stays with its row, and a row that has
\* nothing to do claims none.
Quiet ==
  \A r \in Rows :
    /\ rowStatus[r] # "absent" => rowStatus'[r] # "absent" /\ rowBody'[r] = rowBody[r]
    /\ rowEvent[r] # None => rowEvent'[r] = rowEvent[r]
    /\ rowStatus[r] # "absent" /\ NothingToDo(r) => rowEvent'[r] = None

\* Of all steps only the dedupe writes an event id, and never over another one.
LEMMA AlwaysQuiet ==
  ASSUME PInv, [PipelineNext]_pipeVars
  PROVE  Quiet
<1> USE DEF PInv, PipelineTypeOK
<1>1. ASSUME UNCHANGED <<rowStatus, rowBody, rowEvent>> PROVE Quiet
  BY <1>1 DEF Quiet, NothingToDo
<1>2. ASSUME NEW r \in Rows, NEW e \in Events, Receive(r, e) PROVE Quiet
  BY <1>2 DEF Quiet, NothingToDo, Receive
<1>3. ASSUME NEW w \in Workers, NEW r \in Rows, ClaimRow(w, r) PROVE Quiet
  BY <1>3 DEF Quiet, NothingToDo, ClaimRow
<1>4. ASSUME NEW w \in Workers, FinishRow(w) PROVE Quiet
  <2>1. rowBody' = rowBody /\ rowEvent' = rowEvent
    BY <1>4 DEF FinishRow
  <2>2. \A r \in Rows : rowStatus[r] # "absent" => rowStatus'[r] # "absent"
    BY <1>4 DEF FinishRow
  <2> QED
    BY <2>1, <2>2 DEF Quiet, NothingToDo
<1>5. ASSUME NEW w \in Workers, DedupeRow(w) PROVE Quiet
  <2> DEFINE r == worker[w].row
             e == rowBody[r]
  <2>1. CASE UNCHANGED rowEvent
    BY <1>5, <2>1, <1>1 DEF DedupeRow
  <2>2. CASE rowEvent # rowEvent'
    <3>1. /\ Event[e].type \notin {"forged", "ignored"} /\ ~Duplicate(r, e)
          /\ rowEvent' = [rowEvent EXCEPT ![r] = e]
          /\ UNCHANGED <<rowStatus, rowBody>>
      BY <1>5, <2>2 DEF DedupeRow
    <3>2. r \in Rows
      BY <1>5 DEF HoldingSound, DedupeRow
    <3>3. rowEvent[r] # None => rowEvent[r] = e
      BY <3>2 DEF RowsSound
    <3>4. ~NothingToDo(r) \/ rowEvent[r] # None
      BY <3>1 DEF NothingToDo, Duplicate
    <3> HIDE DEF r, e
    <3>5. \A x \in Rows : rowEvent[x] # None => rowEvent'[x] = rowEvent[x]
      BY <3>1, <3>2, <3>3
    <3>6. \A x \in Rows : NothingToDo(x) => rowEvent'[x] = None
      BY <3>1, <3>2, <3>4 DEF NothingToDo
    <3> QED
      BY <3>1, <3>5, <3>6 DEF Quiet
  <2> QED
    BY <2>1, <2>2
<1>6. ASSUME NEW w \in Workers, CheckRow(w) \/ ApplyRow(w) \/ TransientFailure(w) \/ Crash(w)
      PROVE  Quiet
  BY <1>6, <1>1 DEF CheckRow, ApplyRow, TransientFailure, Crash, rowVars
<1>7. ASSUME NEW r \in Rows, Expire(r) PROVE Quiet
  BY <1>7, <1>1 DEF Expire
<1> QED
  BY <1>1, <1>2, <1>3, <1>4, <1>5, <1>6, <1>7 DEF PipelineNext, WorkerStep, pipeVars, rowVars

\* What is known of a stored row stays true, whatever happens to the orders.
LEMMA RowStays ==
  ASSUME PInv, [Next]_vars, Quiet, NEW r \in Rows, rowStatus[r] # "absent"
  PROVE  /\ rowStatus'[r] # "absent" /\ rowBody'[r] = rowBody[r] /\ rowBody[r] \in Events
         /\ orderStatus'[Event[rowBody[r]].about] # "none"
         /\ Done(r) => Done(r)'
         /\ NothingToDo(r) \/ (rowEvent[r] # None /\ Done(r)) =>
              NothingToDo(r)' \/ (rowEvent'[r] # None /\ Done(r)')
<1> PICK e \in Events : e = rowBody[r]
  BY DEF PInv, RowsSound
<1>1. /\ rowStatus'[r] # "absent" /\ rowBody'[r] = e /\ e = rowBody[r]
      /\ orderStatus[Event[e].about] # "none"
      /\ rowEvent[r] # None => rowEvent'[r] = rowEvent[r]
      /\ NothingToDo(r) => rowEvent'[r] = None
  BY DEF PInv, RowsSound, Quiet
<1>2. Event[e] \in EventType /\ Event[e].about \in Orders
  BY <1>1, PipelineAssumption DEF EventType
<1>3. orderStatus'[Event[e].about] # "none"
  BY <1>1, <1>2, StatusMoves DEF PInv
<1>4. Done(r) => Done(r)'
  <2>1. ASSUME NEW ev, NEW o \in Orders, Applied(ev, o) PROVE Applied(ev, o)'
    <3>1. /\ orderStatus[o] \in {"paid"} \cup Reversed => orderStatus'[o] \in {"paid"} \cup Reversed
          /\ orderStatus[o] \in Reversed => orderStatus'[o] \in Reversed
      BY StatusMoves DEF PInv
    <3> QED
      BY <2>1, <3>1 DEF Applied
  <2> QED
    BY <1>1, <1>2, <2>1 DEF Done
<1>5. NothingToDo(r) => NothingToDo(r)'
  <2>1. ASSUME NEW x \in Rows \ {r}, NothingToDo(r), rowEvent[x] = e PROVE rowEvent'[x] = rowBody'[r]
    <3>1. rowEvent[x] # None
      BY <1>1, <2>1, PipelineAssumption
    <3> QED
      BY <1>1, <2>1, <3>1 DEF Quiet
  <2> QED
    BY <1>1, <2>1 DEF NothingToDo
<1> QED
  BY <1>1, <1>3, <1>4, <1>5

\* A worker that does not step holds what it held.
LEMMA HoldingStays ==
  ASSUME PInv, [Next]_vars, Quiet, NEW w \in Workers, worker'[w] = worker[w]
  PROVE  HoldingSound(w)'
<1>1. HoldingSound(w)
  BY DEF PInv
<1>2. CASE worker[w].pc = "idle"
  BY <1>2 DEF HoldingSound
<1>3. CASE worker[w].pc # "idle"
  <2> PICK r \in Rows : r = worker[w].row /\ rowStatus[r] # "absent"
    BY <1>1, <1>3 DEF HoldingSound
  <2>2. /\ rowStatus'[r] # "absent" /\ rowBody'[r] = rowBody[r]
        /\ NothingToDo(r) \/ (rowEvent[r] # None /\ Done(r)) =>
             NothingToDo(r)' \/ (rowEvent'[r] # None /\ Done(r)')
    BY RowStays
  <2>3. rowEvent[r] # None => rowEvent'[r] # None
    BY DEF Quiet
  <2>4. worker[w].pc \in {"deduped", "checked"} => rowEvent'[r] # None
    BY <1>1, <2>3 DEF HoldingSound
  <2>5. worker[w].pc = "processed" => NothingToDo(r)' \/ (rowEvent'[r] # None /\ Done(r)')
    BY <1>1, <2>2 DEF HoldingSound
  <2> QED
    BY <1>1, <2>2, <2>4, <2>5 DEF HoldingSound
<1> QED
  BY <1>2, <1>3

-------------------------------------------------------------------------------
(* The count of retries *)

\* There are no more workers to return a row than there are workers.
LEMMA PendingCount ==
  ASSUME NEW r \in Rows
  PROVE  /\ IsFiniteSet(Pending(r)) /\ Cardinality(Pending(r)) \in Nat
         /\ Cardinality(Pending(r)) <= Cardinality(Workers)
         /\ Cardinality(Workers) \in Nat /\ Cardinality(Workers) > 0
<1>1. Pending(r) \in SUBSET Workers
  BY DEF Pending
<1>2. IsFiniteSet(Workers) /\ Workers # {}
  BY PipelineAssumption
<1>3. Cardinality(Workers) \in Nat /\ Cardinality(Workers) # 0
  BY <1>2, FS_CardinalityType, FS_EmptySet
<1>4. IsFiniteSet(Pending(r)) /\ Cardinality(Pending(r)) <= Cardinality(Workers)
  BY <1>1, <1>2, FS_Subset
<1> QED
  BY <1>3, <1>4, FS_CardinalityType

\* A part of a finite set is not larger, and smaller when it lacks an element.
LEMMA PendingShrinks ==
  ASSUME NEW P, IsFiniteSet(P), NEW Q \in SUBSET P
  PROVE  /\ Cardinality(Q) \in Nat /\ Cardinality(P) \in Nat /\ Cardinality(Q) <= Cardinality(P)
         /\ \A w \in P \ Q : Cardinality(Q) + 1 <= Cardinality(P)
<1>1. IsFiniteSet(Q) /\ Cardinality(Q) \in Nat /\ Cardinality(P) \in Nat
  BY FS_Subset, FS_CardinalityType
<1>2. Cardinality(Q) <= Cardinality(P)
  BY FS_Subset
<1>3. ASSUME NEW w \in P \ Q PROVE Cardinality(Q) + 1 <= Cardinality(P)
  <2>1. Q \in SUBSET (P \ {w}) /\ w \in P
    OBVIOUS
  <2>2. IsFiniteSet(P \ {w}) /\ Cardinality(P \ {w}) = Cardinality(P) - 1
    BY <2>1, FS_RemoveElement
  <2>3. Cardinality(Q) <= Cardinality(P \ {w})
    BY <2>1, <2>2, FS_Subset
  <2> QED
    BY <1>1, <2>2, <2>3
<1> QED
  BY <1>1, <1>2, <1>3

\* A step in which no worker comes to hold a row and no count changes.
LEMMA RetriesStay ==
  ASSUME PInv, UNCHANGED attempts, \A r \in Rows : Pending(r)' \subseteq Pending(r)
  PROVE  RetriesLeft'
<1> SUFFICES ASSUME NEW r \in Rows
             PROVE  attempts[r] + Cardinality(Pending(r)') <= MaxAttempts + Cardinality(Workers) - 2
  BY DEF RetriesLeft
<1>1. Cardinality(Pending(r)') \in Nat /\ Cardinality(Pending(r)) \in Nat
      /\ Cardinality(Pending(r)') <= Cardinality(Pending(r)) /\ Cardinality(Workers) \in Nat
  BY PendingCount, PendingShrinks
<1>2. attempts[r] + Cardinality(Pending(r)) <= MaxAttempts + Cardinality(Workers) - 2
      /\ attempts[r] \in Nat /\ MaxAttempts \in Nat
  BY PipelineAssumption DEF PInv, RetriesLeft, PipelineTypeOK
<1> QED
  BY <1>1, <1>2

\* A claim that may end in a retry finds a count below the limit.
LEMMA RetriesClaimed ==
  ASSUME PInv, NEW w \in Workers, NEW r \in Rows, ClaimRow(w, r)
  PROVE  RetriesLeft'
<1> USE DEF PInv, PipelineTypeOK
<1>1. /\ \A v \in Workers \ {w} : worker'[v] = worker[v]
      /\ worker'[w].row = r /\ worker'[w].attempts = attempts[r]
      /\ UNCHANGED attempts /\ attempts[r] \in Nat /\ MaxAttempts \in Nat
  BY PipelineAssumption DEF ClaimRow, Resting
<1>2. ASSUME NEW x \in Rows, x # r PROVE Pending(x)' \subseteq Pending(x)
  BY <1>1, <1>2 DEF Pending
<1>3. CASE attempts[r] + 1 < MaxAttempts
  <2> SUFFICES ASSUME NEW x \in Rows
               PROVE  attempts[x] + Cardinality(Pending(x)') <= MaxAttempts + Cardinality(Workers) - 2
    BY <1>1 DEF RetriesLeft
  <2>1. CASE x = r
    <3>1. /\ Cardinality(Pending(x)') \in Nat /\ Cardinality(Pending(x)') <= Cardinality(Workers)
          /\ Cardinality(Workers) \in Nat
      <4>1. Pending(x)' \in SUBSET Workers
        BY DEF Pending
      <4> QED
        BY <4>1, PendingShrinks, PipelineAssumption
    <3> QED
      BY <1>1, <1>3, <2>1, <3>1
  <2>2. CASE x # r
    <3>1. Cardinality(Pending(x)') \in Nat /\ Cardinality(Pending(x)) \in Nat
          /\ Cardinality(Pending(x)') <= Cardinality(Pending(x)) /\ Cardinality(Workers) \in Nat
      BY <1>2, <2>2, PendingCount, PendingShrinks
    <3>2. attempts[x] + Cardinality(Pending(x)) <= MaxAttempts + Cardinality(Workers) - 2
          /\ attempts[x] \in Nat
      BY DEF RetriesLeft
    <3> QED
      BY <1>1, <3>1, <3>2
  <2> QED
    BY <2>1, <2>2
<1>4. CASE ~(attempts[r] + 1 < MaxAttempts)
  <2>1. \A x \in Rows : Pending(x)' \subseteq Pending(x)
    BY <1>1, <1>4 DEF Pending
  <2> QED
    BY <1>1, <2>1, RetriesStay
<1> QED
  BY <1>3, <1>4

\* A retry adds one and takes its worker out of those that may add one.
LEMMA RetriesFinished ==
  ASSUME PInv, NEW w \in Workers, FinishRow(w)
  PROVE  RetriesLeft'
<1> USE DEF PInv, PipelineTypeOK
<1> PICK r \in Rows : r = worker[w].row
  BY DEF HoldingSound, FinishRow, Outcomes
<1>1. /\ \A v \in Workers \ {w} : worker'[v] = worker[v]
      /\ worker'[w].row = None /\ None \notin Rows
  BY PipelineAssumption DEF FinishRow, Resting
<1>2. \A x \in Rows : Pending(x)' \subseteq Pending(x) \ {w}
  BY <1>1 DEF Pending
<1>3. CASE Retries(w)
  <2>1. w \in Pending(r)
    BY <1>3 DEF Retries, Pending
  <2>2. attempts' = [attempts EXCEPT ![r] = @ + 1]
    BY <1>3 DEF FinishRow
  <2> SUFFICES ASSUME NEW x \in Rows
               PROVE  attempts'[x] + Cardinality(Pending(x)') <= MaxAttempts + Cardinality(Workers) - 2
    BY DEF RetriesLeft
  <2>3. attempts[x] + Cardinality(Pending(x)) <= MaxAttempts + Cardinality(Workers) - 2
        /\ attempts[x] \in Nat /\ MaxAttempts \in Nat
    BY PipelineAssumption DEF RetriesLeft
  <2>4. /\ Cardinality(Pending(x)') \in Nat /\ Cardinality(Pending(x)) \in Nat
        /\ Cardinality(Pending(x)') <= Cardinality(Pending(x)) /\ Cardinality(Workers) \in Nat
        /\ x = r => Cardinality(Pending(x)') + 1 <= Cardinality(Pending(x))
    BY <1>2, <2>1, PendingCount, PendingShrinks
  <2>5. CASE x = r
    BY <2>2, <2>3, <2>4, <2>5
  <2>6. CASE x # r
    BY <2>2, <2>3, <2>4, <2>6
  <2> QED
    BY <2>5, <2>6
<1>4. CASE ~Retries(w)
  <2>1. UNCHANGED attempts
    BY <1>4 DEF FinishRow
  <2> QED
    BY <1>2, <2>1, RetriesStay
<1> QED
  BY <1>3, <1>4

\* No step takes a row past its retries.
LEMMA RetriesKept ==
  ASSUME PInv, [PipelineNext]_pipeVars
  PROVE  RetriesLeft'
<1> USE DEF PInv, PipelineTypeOK
<1>1. ASSUME UNCHANGED <<attempts, worker>> PROVE RetriesLeft'
  BY <1>1, RetriesStay DEF Pending
<1>2. ASSUME NEW w \in Workers, UNCHANGED attempts,
             \A v \in Workers \ {w} : worker'[v] = worker[v],
             (worker'[w].row = worker[w].row /\ worker'[w].attempts = worker[w].attempts)
               \/ worker'[w].row = None
      PROVE  RetriesLeft'
  <2>1. \A r \in Rows : Pending(r)' \subseteq Pending(r)
    BY <1>2, PipelineAssumption DEF Pending
  <2> QED
    BY <1>2, <2>1, RetriesStay
<1>3. ASSUME NEW w \in Workers, NEW pc, GoTo(w, pc)
      PROVE  /\ \A v \in Workers \ {w} : worker'[v] = worker[v]
             /\ worker'[w].row = worker[w].row /\ worker'[w].attempts = worker[w].attempts
  BY <1>3 DEF GoTo, WorkerType
<1>4. ASSUME NEW w \in Workers, DedupeRow(w) PROVE RetriesLeft'
  <2>1. CASE LetGo(w)
    BY <1>2, <1>4, <2>1 DEF DedupeRow, Resting
  <2> QED
    BY <1>2, <1>3, <1>4, <2>1 DEF DedupeRow
<1>5. ASSUME NEW w \in Workers, CheckRow(w) PROVE RetriesLeft'
  <2>1. UNCHANGED attempts
    BY <1>5 DEF CheckRow, rowVars
  <2>2. ASSUME NEW o, NEW todo,
               worker' = [worker EXCEPT ![w].pc = "checked", ![w].order = o, ![w].todo = todo]
        PROVE  /\ \A v \in Workers \ {w} : worker'[v] = worker[v]
               /\ worker'[w].row = worker[w].row /\ worker'[w].attempts = worker[w].attempts
    BY <2>2 DEF WorkerType
  <2> QED
    BY <1>2, <1>3, <1>5, <2>1, <2>2 DEF CheckRow
<1>6. ASSUME NEW w \in Workers, ApplyRow(w) PROVE RetriesLeft'
  BY <1>2, <1>3, <1>6 DEF ApplyRow, rowVars
<1>7. ASSUME NEW w \in Workers, TransientFailure(w) PROVE RetriesLeft'
  BY <1>2, <1>3, <1>7 DEF TransientFailure, rowVars
<1>8. ASSUME NEW w \in Workers, Crash(w) PROVE RetriesLeft'
  BY <1>2, <1>8 DEF Crash, rowVars, Resting
<1> QED
  BY <1>1, <1>4, <1>5, <1>6, <1>7, <1>8, RetriesClaimed, RetriesFinished
     DEF PipelineNext, WorkerStep, pipeVars, rowVars, Receive, Expire

-------------------------------------------------------------------------------
(* Types *)

\* A worker that holds nothing is well typed.
LEMMA RestingType ==
  Resting \in WorkerType
BY DEF Resting, WorkerType, Todos

\* What a worker becomes by moving on, and by deciding on a transaction.
LEMMA WorkerMoves ==
  ASSUME NEW s \in WorkerType
  PROVE  /\ \A pc \in {"idle", "claimed", "deduped", "checked"} \cup Outcomes :
              [s EXCEPT !.pc = pc] \in WorkerType
         /\ \A o \in Orders, todo \in Todos :
              [s EXCEPT !.pc = "checked", !.order = o, !.todo = todo] \in WorkerType
BY DEF WorkerType

\* The order an event is correlated with is never paid from a wallet, and it is the one
\* the event echoes.
LEMMA CorrelatedOrders ==
  ASSUME PInv, NEW e \in Events
  PROVE  /\ Event[e] \in EventType
         /\ Correlated(Event[e]) \subseteq Orders \ WalletOrders
         /\ Event[e].echo => Correlated(Event[e]) = {Event[e].about}
<1>1. Event[e] \in EventType /\ Event[e].about \in Orders \ WalletOrders
  BY PipelineAssumption DEF EventType
<1>2. ASSUME NEW o \in Orders, Event[e].mor # None, morOrderId[o] = Event[e].mor
      PROVE  o \notin WalletOrders
  BY <1>2 DEF PInv, MorNeverOnWallet
<1> QED
  BY <1>1, <1>2 DEF Correlated

\* What the checks of a worker come to.
LEMMA CheckOutcome ==
  ASSUME NEW w \in Workers, CheckRow(w), NEW e \in Events, e = rowBody[worker[w].row]
  PROVE  \/ GoTo(w, "dead_lettered")
         \/ \E o \in Correlated(Event[e]), todo \in TodosOf(Event[e].type) :
              /\ todo = "hold" => o \notin Topups
              /\ worker' = [worker EXCEPT ![w].pc = "checked", ![w].order = o, ![w].todo = todo]
<1> DEFINE Decide(o, todo) ==
             worker' = [worker EXCEPT ![w].pc = "checked", ![w].order = o, ![w].todo = todo]
           ev == Event[e]
<1> SUFFICES ASSUME ~GoTo(w, "dead_lettered")
             PROVE  \E o \in Correlated(ev), todo \in TodosOf(ev.type) :
                      (todo = "hold" => o \notin Topups) /\ Decide(o, todo)
  OBVIOUS
<1>1. PICK o \in Correlated(ev) :
        \/ ev.type = "succeeded" /\ o \in Topups /\ Decide(o, "settle")
        \/ ev.type = "succeeded" /\ o \notin Topups /\
             Decide(o, IF HighRisk(o, ev) THEN "hold" ELSE "settle")
        \/ ev.type = "cleared" /\ Decide(o, "clear")
        \/ ev.type = "refunded" /\ Decide(o, "refunded")
        \/ ev.type = "chargeback" /\ Decide(o, "charged_back")
  BY DEF CheckRow
<1> HIDE DEF Decide
<1>2. \E todo \in {"settle", "hold", "clear", "refunded", "charged_back"} :
         (todo = "hold" => o \notin Topups) /\ todo \in TodosOf(ev.type) /\ Decide(o, todo)
  <2>1. CASE ev.type = "succeeded" /\ o \in Topups /\ Decide(o, "settle")
    BY <2>1 DEF TodosOf
  <2>2. CASE ev.type = "succeeded" /\ o \notin Topups /\
               Decide(o, IF HighRisk(o, ev) THEN "hold" ELSE "settle")
    <3>1. Decide(o, "hold") \/ Decide(o, "settle")
      BY <2>2
    <3> QED
      BY <2>2, <3>1 DEF TodosOf
  <2>3. CASE ev.type = "cleared" /\ Decide(o, "clear")
    BY <2>3 DEF TodosOf
  <2>4. CASE ev.type = "refunded" /\ Decide(o, "refunded")
    BY <2>4 DEF TodosOf
  <2>5. CASE ev.type = "chargeback" /\ Decide(o, "charged_back")
    BY <2>5 DEF TodosOf
  <2> QED
    BY <1>1, <2>1, <2>2, <2>3, <2>4, <2>5
<1> QED
  BY <1>2

\* Rows and workers keep their shape.
LEMMA TypesKept ==
  ASSUME PInv, [PipelineNext]_pipeVars
  PROVE  PipelineTypeOK'
<1> USE PipelineAssumption DEF PInv, PipelineTypeOK
<1>1. ASSUME NEW r \in Rows, NEW e \in Events, Receive(r, e) PROVE PipelineTypeOK'
  BY <1>1 DEF Receive
<1>2. ASSUME NEW w \in Workers, NEW r \in Rows, ClaimRow(w, r) PROVE PipelineTypeOK'
  <2>1. [Resting EXCEPT !.pc = "claimed", !.row = r, !.attempts = attempts[r]] \in WorkerType
    BY DEF Resting, WorkerType, Todos
  <2> QED
    BY <1>2, <2>1 DEF ClaimRow
<1>3. ASSUME NEW w \in Workers, NEW pc \in {"deduped", "checked"} \cup Outcomes, GoTo(w, pc)
      PROVE  worker' \in [Workers -> WorkerType]
  <2>1. worker' = [worker EXCEPT ![w] = [worker[w] EXCEPT !.pc = pc]]
    BY <1>3 DEF GoTo
  <2> QED
    BY <2>1, WorkerMoves
<1>4. ASSUME NEW w \in Workers, DedupeRow(w) PROVE PipelineTypeOK'
  <2>1. worker' \in [Workers -> WorkerType]
    BY <1>3, <1>4, RestingType DEF DedupeRow, Outcomes
  <2>2. rowEvent' \in [Rows -> Events \cup {None}]
    BY <1>4 DEF DedupeRow, HoldingSound, RowsSound
  <2> QED
    BY <1>4, <2>1, <2>2 DEF DedupeRow
<1>5. ASSUME NEW w \in Workers, CheckRow(w) PROVE PipelineTypeOK'
  <2>1. PICK e \in Events : e = rowBody[worker[w].row]
    BY <1>5 DEF CheckRow, HoldingSound, RowsSound
  <2>2. ASSUME NEW o \in Orders, NEW todo \in Todos,
               worker' = [worker EXCEPT ![w].pc = "checked", ![w].order = o, ![w].todo = todo]
        PROVE  worker' \in [Workers -> WorkerType]
    <3>1. worker' = [worker EXCEPT ![w] =
                       [worker[w] EXCEPT !.pc = "checked", !.order = o, !.todo = todo]]
      BY <2>2
    <3> QED
      BY <3>1, WorkerMoves
  <2>3. Correlated(Event[e]) \subseteq Orders
    BY CorrelatedOrders
  <2>5. \/ GoTo(w, "dead_lettered")
        \/ \E o \in Orders, todo \in Todos :
             worker' = [worker EXCEPT ![w].pc = "checked", ![w].order = o, ![w].todo = todo]
    <3>1. TodosOf(Event[e].type) \subseteq Todos
      BY DEF TodosOf, Todos
    <3>2. \/ GoTo(w, "dead_lettered")
          \/ \E o \in Correlated(Event[e]), todo \in TodosOf(Event[e].type) :
               /\ todo = "hold" => o \notin Topups
               /\ worker' = [worker EXCEPT ![w].pc = "checked", ![w].order = o, ![w].todo = todo]
      <4> HIDE PipelineAssumption
      <4> HIDE DEF PInv, PipelineTypeOK
      <4> QED
        BY <1>5, <2>1, CheckOutcome
    <3>3. /\ \A o \in Correlated(Event[e]) : o \in Orders
          /\ \A todo \in TodosOf(Event[e].type) : todo \in Todos
      BY <2>3, <3>1
    <3> QED
      BY <3>2, <3>3, Zenon
  <2>4. worker' \in [Workers -> WorkerType]
    BY <1>3, <2>2, <2>5 DEF Outcomes
  <2> QED
    BY <1>5, <2>4 DEF CheckRow, rowVars
<1>6. ASSUME NEW w \in Workers, ApplyRow(w) PROVE PipelineTypeOK'
  BY <1>3, <1>6 DEF ApplyRow, rowVars, Outcomes
<1>7. ASSUME NEW w \in Workers, TransientFailure(w) PROVE PipelineTypeOK'
  BY <1>3, <1>7 DEF TransientFailure, rowVars, Outcomes
<1>8. ASSUME NEW w \in Workers, FinishRow(w) PROVE PipelineTypeOK'
  <2>1. rowStatus' \in [Rows -> {"absent", "received", "processing"} \cup Finished]
    BY <1>8 DEF FinishRow, Finished
  <2>2. attempts' \in [Rows -> Nat]
    <3> PICK r \in Rows : r = worker[w].row
      BY <1>8 DEF HoldingSound, FinishRow, Outcomes
    <3>1. attempts' = attempts \/ attempts' = [attempts EXCEPT ![r] = @ + 1]
      BY <1>8 DEF FinishRow
    <3> QED
      BY <3>1
  <2> QED
    BY <1>8, <2>1, <2>2, RestingType DEF FinishRow
<1>9. ASSUME NEW w \in Workers, Crash(w) PROVE PipelineTypeOK'
  BY <1>9, RestingType DEF Crash, rowVars
<1>10. ASSUME NEW r \in Rows, Expire(r) PROVE PipelineTypeOK'
  BY <1>10 DEF Expire
<1>11. CASE UNCHANGED <<rowVars, worker, faults>>
  BY <1>11 DEF rowVars
<1> QED
  BY <1>1, <1>2, <1>4, <1>5, <1>6, <1>7, <1>8, <1>9, <1>10, <1>11
     DEF PipelineNext, WorkerStep, pipeVars

-------------------------------------------------------------------------------
(* Rows and workers *)

\* Rows stay sound: only a delivery makes one, only the dedupe writes its event id.
LEMMA RowsSoundKept ==
  ASSUME PInv, [PipelineNext]_pipeVars
  PROVE  RowsSound'
<1> USE DEF PInv, PipelineTypeOK
<1>0. [Next]_vars /\ Quiet
  BY StepIsSettlement, AlwaysQuiet
<1> DEFINE Sound(r) ==
      /\ rowStatus[r] # "absent" =>
           rowBody[r] \in Events /\ orderStatus[Event[rowBody[r]].about] # "none"
      /\ rowStatus[r] = "absent" => rowEvent[r] = None
      /\ rowEvent[r] # None =>
           rowEvent[r] = rowBody[r] /\ Event[rowBody[r]].type \notin {"forged", "garbled", "ignored"}
<1>1. ASSUME NEW r \in Rows, rowStatus[r] # "absent", rowEvent'[r] = rowEvent[r]
      PROVE  Sound(r)'
  BY <1>0, <1>1, RowStays DEF RowsSound
<1>2. ASSUME NEW r \in Rows, rowStatus[r] = "absent", rowStatus'[r] = "absent",
             rowEvent'[r] = rowEvent[r]
      PROVE  Sound(r)'
  BY <1>2 DEF RowsSound
<1>3. ASSUME UNCHANGED rowEvent, \A r \in Rows : rowStatus[r] = "absent" => rowStatus'[r] = "absent"
      PROVE  RowsSound'
  BY <1>1, <1>2, <1>3 DEF RowsSound
<1>4. ASSUME NEW r \in Rows, NEW e \in Events, Receive(r, e) PROVE RowsSound'
  <2>1. Sound(r)'
    <3>1. /\ rowStatus'[r] = "received" /\ rowBody'[r] = e /\ rowEvent'[r] = None
          /\ orderStatus'[Event[e].about] # "none"
      BY <1>4 DEF Receive, RowsSound, vars, orderVars
    <3> QED
      BY <3>1
  <2>2. ASSUME NEW x \in Rows, x # r PROVE Sound(x)'
    <3>1. rowStatus'[x] = rowStatus[x] /\ rowEvent'[x] = rowEvent[x]
      BY <1>4, <2>2 DEF Receive
    <3> QED
      BY <3>1, <1>1, <1>2
  <2> QED
    BY <2>1, <2>2 DEF RowsSound
<1>5. ASSUME NEW w \in Workers, DedupeRow(w) PROVE RowsSound'
  <2> PICK r \in Rows : r = worker[w].row /\ rowStatus[r] # "absent"
    BY <1>5 DEF HoldingSound, DedupeRow
  <2>1. \/ UNCHANGED rowEvent
        \/ /\ rowEvent' = [rowEvent EXCEPT ![r] = rowBody[r]]
           /\ Event[rowBody[r]].type \notin {"forged", "garbled", "ignored"}
    BY <1>5 DEF DedupeRow
  <2>2. ASSUME NEW x \in Rows, x # r PROVE Sound(x)'
    <3>1. rowStatus'[x] = rowStatus[x] /\ rowEvent'[x] = rowEvent[x]
      BY <1>5, <2>1, <2>2 DEF DedupeRow
    <3> QED
      BY <3>1, <1>1, <1>2
  <2>3. Sound(r)'
    <3>1. CASE rowEvent'[r] = rowEvent[r]
      BY <3>1, <1>1
    <3>2. CASE rowEvent'[r] # rowEvent[r]
      <4>1. rowEvent'[r] = rowBody[r] /\ Event[rowBody[r]].type \notin {"forged", "garbled", "ignored"}
        BY <2>1, <3>2
      <4> QED
        BY <1>0, <4>1, RowStays
    <3> QED
      BY <3>1, <3>2
  <2> QED
    BY <2>2, <2>3 DEF RowsSound
<1>6. ASSUME NEW w \in Workers, FinishRow(w) PROVE RowsSound'
  <2> PICK r \in Rows : r = worker[w].row /\ rowStatus[r] # "absent"
    BY <1>6 DEF HoldingSound, FinishRow, Outcomes
  <2> QED
    BY <1>3, <1>6 DEF FinishRow
<1>7. ASSUME NEW w \in Workers, NEW r \in Rows, ClaimRow(w, r) PROVE RowsSound'
  BY <1>3, <1>7 DEF ClaimRow, Claimable
<1>8. CASE UNCHANGED <<rowStatus, rowEvent>>
  BY <1>3, <1>8
<1> QED
  BY <1>4, <1>5, <1>6, <1>7, <1>8 DEF PipelineNext, WorkerStep, CheckRow, ApplyRow,
     TransientFailure, Crash, Expire, pipeVars, rowVars

\* After its transaction, or when that matched nothing, an event has taken effect.
LEMMA TransactionApplies ==
  ASSUME IInv, NEW ev, NEW o \in Orders, orderStatus[o] # "none", NEW todo \in TodosOf(ev.type),
         todo = "hold" => o \notin Topups,
         Transaction(todo, o, ev) \/ (~TransactionMatches(todo, o) /\ UNCHANGED vars)
  PROVE  Applied(ev, o)'
<1> USE DEF IInv, TypeOK
<1>1. ASSUME NEW from, NEW to, Flip(o, from, to) PROVE orderStatus'[o] = to
  BY <1>1 DEF Flip
<1>2. CASE ev.type = "succeeded"
  <2>1. todo \in {"settle", "hold"}
    BY <1>2 DEF TodosOf
  <2>2. orderStatus'[o] \in {"paid"} \cup Reversed
    <3>1. CASE Transaction(todo, o, ev)
      BY <2>1, <3>1, <1>1 DEF Transaction, SettleTopup, SettleSkillOrBundle, SettleOnHold,
         PaidUpdate, Reversed
    <3>2. CASE ~TransactionMatches(todo, o) /\ UNCHANGED vars
      BY <2>1, <3>2 DEF TransactionMatches, vars, orderVars
    <3> QED
      BY <3>1, <3>2
  <2> QED
    BY <1>2, <2>2 DEF Applied
<1>3. CASE ev.type \in {"refunded", "chargeback"}
  <2>1. todo \in Reversed
    BY <1>3 DEF TodosOf, Reversed
  <2>2. orderStatus'[o] \in Reversed
    <3>1. CASE Transaction(todo, o, ev)
      BY <2>1, <3>1, <1>1 DEF Transaction, ReverseTopup, RefundOrder, ChargebackOrder, Reversed
    <3>2. CASE ~TransactionMatches(todo, o) /\ UNCHANGED vars
      BY <2>1, <3>2 DEF TransactionMatches, vars, orderVars
    <3> QED
      BY <3>1, <3>2
  <2> QED
    BY <1>3, <2>2 DEF Applied
<1>4. CASE ev.type \notin {"succeeded", "refunded", "chargeback"}
  BY <1>4 DEF Applied
<1> QED
  BY <1>2, <1>3, <1>4

\* What a worker holds stays sound, in its own steps and in those of the others.
LEMMA HoldingKept ==
  ASSUME PInv, [PipelineNext]_pipeVars, NEW v \in Workers
  PROVE  HoldingSound(v)'
<1> USE PipelineAssumption DEF PInv, PipelineTypeOK
<1>0. [Next]_vars /\ Quiet
  BY StepIsSettlement, AlwaysQuiet
<1>1. CASE worker'[v] = worker[v]
  BY <1>0, <1>1, HoldingStays
<1>2. ASSUME NEW r \in Rows, NEW e \in Events, e = rowBody[r], rowStatus[r] # "absent"
      PROVE  rowStatus'[r] # "absent" /\ rowBody'[r] = e
  BY <1>0, <1>2 DEF Quiet
<1>3. ASSUME NEW r \in Rows, worker'[v].row = r, rowStatus'[r] # "absent",
             worker'[v].pc \in {"claimed", "retry", "dead_lettered"}
      PROVE  HoldingSound(v)'
  BY <1>3 DEF HoldingSound
<1>4. ASSUME worker'[v].pc = "idle" PROVE HoldingSound(v)'
  BY <1>4 DEF HoldingSound
<1>5. ASSUME NEW pc, GoTo(v, pc)
      PROVE  worker'[v].pc = pc /\ worker'[v].row = worker[v].row
             /\ worker'[v].order = worker[v].order /\ worker'[v].todo = worker[v].todo
  BY <1>5 DEF GoTo, WorkerType
<1>6. ASSUME NEW r \in Rows, ClaimRow(v, r) PROVE HoldingSound(v)'
  <2>1. worker'[v].row = r /\ worker'[v].pc = "claimed" /\ rowStatus'[r] # "absent"
    BY <1>6 DEF ClaimRow, Resting
  <2> QED
    BY <2>1, <1>3
<1>7. ASSUME FinishRow(v) \/ Crash(v) PROVE HoldingSound(v)'
  BY <1>7, <1>4 DEF FinishRow, Crash, Resting
<1>8. ASSUME worker[v].pc # "idle"
      PROVE  \E r \in Rows : r = worker[v].row /\ rowStatus[r] # "absent" /\ rowBody[r] \in Events
                             /\ rowStatus'[r] # "absent" /\ rowBody'[r] = rowBody[r]
  BY <1>2, <1>8 DEF HoldingSound, RowsSound
<1>9. ASSUME TransientFailure(v) PROVE HoldingSound(v)'
  BY <1>3, <1>5, <1>8, <1>9 DEF TransientFailure
<1>10. ASSUME DedupeRow(v) PROVE HoldingSound(v)'
  <2> PICK r \in Rows : r = worker[v].row /\ rowStatus[r] # "absent" /\ rowBody[r] \in Events
                        /\ rowStatus'[r] # "absent" /\ rowBody'[r] = rowBody[r]
    BY <1>8, <1>10 DEF DedupeRow
  <2>1. CASE GoTo(v, "dead_lettered")
    BY <2>1, <1>3, <1>5
  <2>2. CASE GoTo(v, "deduped") /\ rowEvent' = [rowEvent EXCEPT ![r] = rowBody[r]]
    <3>1. worker'[v].pc = "deduped" /\ worker'[v].row = r
      BY <2>2, <1>5
    <3>2. rowEvent'[r] # None
      BY <2>2
    <3> QED
      BY <3>1, <3>2 DEF HoldingSound
  <2>3. CASE GoTo(v, "processed") /\ UNCHANGED rowEvent /\ NothingToDo(r)
    <3>1. worker'[v].pc = "processed" /\ worker'[v].row = r
      BY <2>3, <1>5
    <3>2. NothingToDo(r)'
      BY <1>0, <2>3, RowStays DEF NothingToDo
    <3> QED
      BY <3>1, <3>2 DEF HoldingSound
  <2>4. Event[rowBody[r]].type = "ignored" \/ Duplicate(r, rowBody[r]) => NothingToDo(r)
    BY DEF Duplicate, NothingToDo, RowsSound
  <2>5. CASE LetGo(v)
    BY <2>5, <1>0 DEF HoldingSound, Resting
  <2> QED
    BY <1>10, <2>1, <2>2, <2>3, <2>4, <2>5 DEF DedupeRow
<1>11. ASSUME CheckRow(v) PROVE HoldingSound(v)'
  <2> PICK r \in Rows : r = worker[v].row /\ rowStatus[r] # "absent" /\ rowBody[r] \in Events
                        /\ rowStatus'[r] # "absent" /\ rowBody'[r] = rowBody[r]
    BY <1>8, <1>11 DEF CheckRow
  <2> PICK e \in Events : e = rowBody[r]
    OBVIOUS
  <2>1. CASE GoTo(v, "dead_lettered")
    BY <2>1, <1>3, <1>5
  <2>2. ASSUME NEW o \in Correlated(Event[e]), NEW todo \in TodosOf(Event[e].type),
               todo = "hold" => o \notin Topups,
               worker' = [worker EXCEPT ![v].pc = "checked", ![v].order = o, ![v].todo = todo]
        PROVE  HoldingSound(v)'
    <3>1. worker'[v].pc = "checked" /\ worker'[v].row = r /\ worker'[v].order = o
          /\ worker'[v].todo = todo
      BY <2>2 DEF WorkerType
    <3>2. rowEvent'[r] # None
      BY <1>11 DEF CheckRow, rowVars, HoldingSound
    <3>3. o \in Orders \ WalletOrders /\ (Event[e].echo => o = Event[e].about)
      BY CorrelatedOrders
    <3> QED
      BY <2>2, <3>1, <3>2, <3>3 DEF HoldingSound
  <2>3. \/ GoTo(v, "dead_lettered")
        \/ \E o \in Correlated(Event[e]), todo \in TodosOf(Event[e].type) :
             /\ todo = "hold" => o \notin Topups
             /\ worker' = [worker EXCEPT ![v].pc = "checked", ![v].order = o, ![v].todo = todo]
    <3>1. e = rowBody[worker[v].row]
      OBVIOUS
    <3> QED
      BY <1>11, <3>1, CheckOutcome
  <2> QED
    BY <2>1, <2>2, <2>3
<1>12. ASSUME ApplyRow(v) PROVE HoldingSound(v)'
  <2> PICK r \in Rows : r = worker[v].row /\ rowStatus[r] # "absent" /\ rowBody[r] \in Events
                        /\ rowStatus'[r] # "absent" /\ rowBody'[r] = rowBody[r]
    BY <1>8, <1>12 DEF ApplyRow
  <2> PICK e \in Events : e = rowBody[r]
    OBVIOUS
  <2>1. CASE GoTo(v, "retry")
    BY <2>1, <1>3, <1>5
  <2>2. CASE GoTo(v, "processed")
    <3>1. worker'[v].pc = "processed" /\ worker'[v].row = r
      BY <2>2, <1>5
    <3>2. rowEvent'[r] # None
      BY <1>12 DEF ApplyRow, rowVars, HoldingSound
    <3>3. PICK o \in Orders : o = worker[v].order /\ (Event[e].echo => o = Event[e].about)
      BY <1>12 DEF ApplyRow, HoldingSound
    <3>4. PICK todo \in TodosOf(Event[e].type) :
            todo = worker[v].todo /\ (todo = "hold" => o \notin Topups)
      BY <1>12, <3>3 DEF ApplyRow, HoldingSound
    <3>5. Transaction(todo, o, Event[e]) \/ (~TransactionMatches(todo, o) /\ UNCHANGED vars)
      <4>1. ~GoTo(v, "retry")
        BY <3>1, <1>5
      <4> QED
        BY <1>12, <3>3, <3>4, <4>1 DEF ApplyRow
    <3>6. Event[e].echo => Applied(Event[e], Event[e].about)'
      <4>1. ASSUME Event[e].echo PROVE orderStatus[o] # "none"
        BY <3>3, <4>1 DEF RowsSound
      <4>2. ASSUME NEW ev, ev = Event[e], ev.echo PROVE Applied(ev, o)'
        BY <3>4, <3>5, <4>1, <4>2, TransactionApplies
      <4>3. Event[e].echo => Applied(Event[e], o)'
        BY <4>2
      <4> QED
        BY <3>3, <4>3
    <3>7. Done(r)'
      BY <3>6 DEF Done
    <3> QED
      BY <3>1, <3>2, <3>7 DEF HoldingSound
  <2> QED
    BY <1>12, <2>1, <2>2 DEF ApplyRow
<1>13. ASSUME NEW w \in Workers, w # v,
              DedupeRow(w) \/ CheckRow(w) \/ ApplyRow(w) \/ FinishRow(w)
                \/ TransientFailure(w) \/ Crash(w) \/ \E r \in Rows : ClaimRow(w, r)
       PROVE  HoldingSound(v)'
  <2>1. worker'[v] = worker[v]
    BY <1>13 DEF DedupeRow, CheckRow, ApplyRow, FinishRow, TransientFailure, Crash, ClaimRow, GoTo
  <2> QED
    BY <2>1, <1>1
<1>14. CASE UNCHANGED worker
  BY <1>14, <1>1
<1> QED
  BY <1>6, <1>7, <1>9, <1>10, <1>11, <1>12, <1>13, <1>14 DEF PipelineNext, WorkerStep,
     Receive, Expire, pipeVars

\* A row is marked processed only by a worker that has seen its event take effect.
LEMMA RowsDoneKept ==
  ASSUME PInv, [PipelineNext]_pipeVars
  PROVE  RowsDone'
<1> USE DEF PInv, PipelineTypeOK
<1>0. [Next]_vars /\ Quiet
  BY StepIsSettlement, AlwaysQuiet
<1> SUFFICES ASSUME NEW r \in Rows, rowStatus'[r] = "processed"
             PROVE  NothingToDo(r)' \/ (rowEvent'[r] # None /\ Done(r)')
  BY DEF RowsDone
<1>1. CASE rowStatus[r] = "processed"
  BY <1>0, <1>1, RowStays DEF RowsDone
<1>2. CASE rowStatus[r] # "processed"
  <2>1. PICK w \in Workers : FinishRow(w)
    BY <1>2 DEF PipelineNext, WorkerStep, Receive, ClaimRow, DedupeRow, CheckRow, ApplyRow,
       TransientFailure, Crash, Expire, pipeVars, rowVars
  <2>2. worker[w].row = r /\ worker[w].pc = "processed"
    BY <1>2, <2>1 DEF FinishRow
  <2>3. rowStatus[r] # "absent" /\ (NothingToDo(r) \/ (rowEvent[r] # None /\ Done(r)))
    BY <2>2 DEF HoldingSound
  <2> QED
    BY <1>0, <2>3, RowStays
<1> QED
  BY <1>1, <1>2

-------------------------------------------------------------------------------
(* The theorems *)

\* An empty queue is sound.
LEMMA InitPInv ==
  PipelineInit => PInv
<1> SUFFICES ASSUME PipelineInit PROVE PInv
  OBVIOUS
<1> USE PipelineAssumption DEF PipelineInit
<1>1. IInv
  BY InitIInv
<1>2. PipelineTypeOK
  BY RestingType DEF PipelineTypeOK, Finished
<1>3. RowsSound /\ RowsDone
  BY DEF RowsSound, RowsDone
<1>4. MorNeverOnWallet
  BY OrderAssumption DEF Init, MorNeverOnWallet
<1>5. RetriesLeft
  <2> SUFFICES ASSUME NEW r \in Rows
               PROVE  attempts[r] + Cardinality(Pending(r)) <= MaxAttempts + Cardinality(Workers) - 2
    BY DEF RetriesLeft
  <2>1. Pending(r) = {}
    BY DEF Pending, Resting
  <2>2. Cardinality(Pending(r)) = 0
    BY <2>1, FS_EmptySet
  <2> QED
    BY <2>2, PendingCount
<1>6. \A w \in Workers : HoldingSound(w)
  BY DEF HoldingSound, Resting
<1> QED
  BY <1>1, <1>2, <1>3, <1>4, <1>5, <1>6 DEF PInv

\* Every step keeps the whole of it.
LEMMA NextPInv ==
  ASSUME PInv, [PipelineNext]_pipeVars
  PROVE  PInv'
<1>1. [Next]_vars
  BY StepIsSettlement
<1>2. IInv' /\ MorNeverOnWallet'
  BY <1>1, NextIInv, MorKept DEF PInv
<1> QED
  BY <1>2, TypesKept, RowsSoundKept, RowsDoneKept, RetriesKept, HoldingKept DEF PInv

\* What the path keeps, for any number of workers, rows, events and faults.
THEOREM PipelineInvariance == PipelineSafety => []PInv
<1>1. PInv /\ [PipelineNext]_pipeVars => PInv'
  BY NextPInv
<1> QED
  BY InitPInv, <1>1, PTL DEF PipelineSafety

\* Whatever the workers do, late, twice or after a crash, the documents change only by
\* the transactions of Settlement.
THEOREM PipelineRefinesSettlement == PipelineSafety => ImplementsSettlement
<1>1. PipelineInit => Init
  BY DEF PipelineInit
<1>2. PInv /\ [PipelineNext]_pipeVars => [Next]_vars
  BY StepIsSettlement
<1> QED
  BY <1>1, <1>2, PipelineInvariance, PTL DEF PipelineSafety, ImplementsSettlement, Spec

\* So what is proved of Settlement holds of the path: its documents are never wrong.
THEOREM PipelineKeepsDocuments == PipelineSafety => [](DeliveryIsSafe /\ WalletIsSound)
<1>1. Spec => [](DeliveryIsSafe /\ WalletIsSound)
  BY DeliverySafety, WalletSound, PTL
<1> QED
  BY <1>1, PipelineRefinesSettlement, PTL DEF ImplementsSettlement

\* No delivery vanishes and none is counted as done that was not: a row that ends as
\* processed has been applied, or is of no interest, or another row has its event.
THEOREM DeliveriesSurvive == PipelineSafety => []NoDeliveryVanishes
<1>1. PInv => ProcessedMeansApplied
  <2> SUFFICES ASSUME PInv, NEW r \in Rows, rowStatus[r] = "processed", rowEvent[r] # None,
                      Event[rowEvent[r]].echo
               PROVE  Applied(Event[rowEvent[r]], Event[rowEvent[r]].about)
    BY DEF ProcessedMeansApplied
  <2>1. rowEvent[r] = rowBody[r]
    BY DEF PInv, RowsSound
  <2>2. Done(r)
    BY DEF PInv, RowsDone, NothingToDo
  <2> QED
    BY <2>1, <2>2 DEF Done
<1>2. PInv => DuplicatesHaveAnOriginal
  <2> SUFFICES ASSUME PInv, NEW r \in Rows, rowStatus[r] = "processed", rowEvent[r] = None,
                      Event[rowBody[r]].type # "ignored"
               PROVE  \E x \in Rows \ {r} : rowEvent[x] = rowBody[r] /\ rowStatus[x] # "absent"
    BY DEF DuplicatesHaveAnOriginal
  <2>1. NothingToDo(r) /\ rowBody[r] \in Events
    BY DEF PInv, RowsDone, RowsSound
  <2>2. PICK x \in Rows \ {r} : rowEvent[x] = rowBody[r]
    BY <2>1 DEF NothingToDo
  <2>3. rowStatus[x] # "absent"
    BY <2>1, <2>2, PipelineAssumption DEF PInv, RowsSound
  <2> QED
    BY <2>2, <2>3
<1>3. PInv => RetriesBounded
  <2> SUFFICES ASSUME PInv, NEW r \in Rows
               PROVE  attempts[r] <= MaxAttempts + Cardinality(Workers) - 2
    BY DEF RetriesBounded
  <2>1. attempts[r] \in Nat /\ MaxAttempts \in Nat
        /\ attempts[r] + Cardinality(Pending(r)) <= MaxAttempts + Cardinality(Workers) - 2
    BY PipelineAssumption DEF PInv, PipelineTypeOK, RetriesLeft
  <2> QED
    BY <2>1, PendingCount
<1>4. PInv => NoDeliveryVanishes
  BY <1>1, <1>2, <1>3 DEF PInv, NoDeliveryVanishes
<1> QED
  BY <1>4, PipelineInvariance, PTL
===============================================================================
