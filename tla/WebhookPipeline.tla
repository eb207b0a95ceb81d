--------------------------- MODULE WebhookPipeline ---------------------------
(***************************************************************************)
(* The webhook path: the public edge stores what the payment provider      *)
(* sends (WebhookController), settlement workers claim the stored rows,     *)
(* dedupe, correlate and check them, and run the transactions of           *)
(* Settlement (SettlementWorker).  Several workers poll the same           *)
(* collection; each database call of a worker is a step, so anything may   *)
(* happen between two of them, a crash included.                           *)
(*                                                                         *)
(* The provider may deliver an event late, twice, or before another one    *)
(* that happened earlier.                                                  *)
(***************************************************************************)
EXTENDS Settlement

CONSTANTS
  Rows,          \* ids of webhook_events rows
  Workers,       \* worker instances
  Events,        \* provider event ids
  Event,         \* what each event says, see EventType
  MaxAttempts,   \* hydropark.worker.max-attempts
  MaxAccountsPerFingerprint,
  SlowWorkers,   \* whether a live worker may hold a row past stale-processing-ms
  MaxFaults      \* bound of the model on crashes and transient failures

\* about: the order the event is really about; echo: it carries our order id;
\* covers: the amount covers the order's price, in the higher of the two regions.
\* A forged body fails the signature check; a garbled one makes the provider's parser
\* throw something else than a WebhookVerificationException.
EventType == [type   : {"succeeded", "cleared", "refunded", "chargeback", "ignored",
                        "forged", "garbled"},
              about  : Orders,
              echo   : BOOLEAN,
              mor    : ProviderIds \cup {None},
              fp     : Fingerprints \cup {None},
              risk   : {"normal", "elevated", "highest"},
              covers : BOOLEAN]

ASSUME PipelineAssumption ==
  /\ Event \in [Events -> EventType]
  /\ None \notin Events \cup Rows
  /\ MaxAttempts \in Nat \ {0} /\ MaxFaults \in Nat /\ MaxAccountsPerFingerprint \in Nat
  /\ SlowWorkers \in BOOLEAN
  /\ IsFiniteSet(Workers) /\ Workers # {}
  /\ \A e \in Events : Event[e].about \notin WalletOrders

VARIABLES
  rowStatus,   \* webhook_events.status
  rowBody,     \* the event in raw_body
  rowEvent,    \* webhook_events.provider_event_id, unique where present
  attempts,    \* webhook_events.attempts
  stale,       \* processing_at is older than the cutoff
  worker,      \* what each worker holds in memory
  faults

rowVars  == <<rowStatus, rowBody, rowEvent, attempts, stale>>
pipeVars == <<vars, rowVars, worker, faults>>

Resting == [pc |-> "idle", row |-> None, attempts |-> 0, todo |-> "none", order |-> None]

Outcomes == {"processed", "dead_lettered", "retry"}
Todos == {"none", "settle", "hold", "clear", "refunded", "charged_back"}

WorkerType == [pc       : {"idle", "claimed", "deduped", "checked"} \cup Outcomes,
               row      : Rows \cup {None},
               attempts : Nat,
               todo     : Todos,
               order    : Orders \cup {None}]

Finished == {"processed", "dead_lettered"}

PipelineTypeOK ==
  /\ rowStatus \in [Rows -> {"absent", "received", "processing"} \cup Finished]
  /\ rowBody \in [Rows -> Events \cup {None}]
  /\ rowEvent \in [Rows -> Events \cup {None}]
  /\ attempts \in [Rows -> Nat]
  /\ stale \in [Rows -> BOOLEAN]
  /\ worker \in [Workers -> WorkerType]
  /\ faults \in 0..MaxFaults

PipelineInit ==
  /\ Init
  /\ rowStatus = [r \in Rows |-> "absent"]
  /\ rowBody = [r \in Rows |-> None]
  /\ rowEvent = [r \in Rows |-> None]
  /\ attempts = [r \in Rows |-> 0]
  /\ stale = [r \in Rows |-> FALSE]
  /\ worker = [w \in Workers |-> Resting]
  /\ faults = 0

-------------------------------------------------------------------------------
(* The public edge *)

\* WebhookController.receive: any delivery becomes a row of its own.  The
\* provider speaks only of orders it was given.
Receive(r, e) ==
  /\ rowStatus[r] = "absent"
  /\ orderStatus[Event[e].about] # "none"
  /\ rowStatus' = [rowStatus EXCEPT ![r] = "received"]
  /\ rowBody' = [rowBody EXCEPT ![r] = e]
  /\ UNCHANGED <<vars, rowEvent, attempts, stale, worker, faults>>

-------------------------------------------------------------------------------
(* A worker *)

(* As in Settlement, a definition whose name begins with Mutant is the next
   one with a plausible bug, and no specification uses it.                  *)

\* Rows that stay in processing are not picked up again.
MutantClaimsReceivedOnly(r) == rowStatus[r] = "received"

Claimable(r) == rowStatus[r] = "received" \/ (rowStatus[r] = "processing" /\ stale[r])

\* SettlementWorker.claimRow, one findAndModify.
ClaimRow(w, r) ==
  /\ worker[w].pc = "idle"
  /\ Claimable(r)
  /\ rowStatus' = [rowStatus EXCEPT ![r] = "processing"]
  /\ stale' = [stale EXCEPT ![r] = FALSE]
  /\ worker' = [worker EXCEPT ![w] =
                  [Resting EXCEPT !.pc = "claimed", !.row = r, !.attempts = attempts[r]]]
  /\ UNCHANGED <<vars, rowBody, rowEvent, attempts, faults>>

GoTo(w, pc) == worker' = [worker EXCEPT ![w].pc = pc]
LetGo(w)    == worker' = [worker EXCEPT ![w] = Resting]

\* The row meets its own claim when it is processed a second time.
MutantDuplicateOfItself(r, e) == \E x \in Rows : rowEvent[x] = e

\* claimEventId: the row does not have the id yet and the unique index refuses it.
Duplicate(r, e) == rowEvent[r] = None /\ \E x \in Rows \ {r} : rowEvent[x] = e

\* processOne up to the dedupe: the signature is checked before anything else, an
\* event of no interest is acknowledged, and claimEventId writes the event id
\* unless this row already has it; the unique index refuses a second row.  Only a
\* WebhookVerificationException is caught there: what a garbled body throws ends the
\* tick, and the row stays in processing with its attempts uncounted.
DedupeRow(w) ==
  LET r == worker[w].row
      e == rowBody[r]
  IN
    /\ worker[w].pc = "claimed"
    /\ UNCHANGED <<vars, rowStatus, rowBody, attempts, stale, faults>>
    /\ \/ Event[e].type = "forged" /\ GoTo(w, "dead_lettered") /\ UNCHANGED rowEvent
       \/ Event[e].type = "garbled" /\ LetGo(w) /\ UNCHANGED rowEvent
       \/ Event[e].type = "ignored" /\ GoTo(w, "processed") /\ UNCHANGED rowEvent
       \/ /\ Event[e].type \notin {"forged", "garbled", "ignored"}
          /\ IF Duplicate(r, e)
             THEN GoTo(w, "processed") /\ UNCHANGED rowEvent
             ELSE GoTo(w, "deduped") /\ rowEvent' = [rowEvent EXCEPT ![r] = e]

\* correlate: our echoed order id, else the provider id stored at settlement.
Correlated(ev) ==
  IF ev.echo THEN {ev.about}
  ELSE {o \in Orders : ev.mor # None /\ morOrderId[o] = ev.mor}

\* AntiFraudService.isPaymentFingerprintOverVelocity
OverVelocity(u, fp) ==
  /\ fp # None
  /\ Cardinality({Owner[o] : o \in {x \in Orders : fingerprint[x] = fp}} \ {u})
       >= MaxAccountsPerFingerprint

\* AntiFraudService.isHighRisk
HighRisk(o, ev) ==
  \/ ev.risk = "highest"
  \/ ev.risk = "elevated" /\ ~HasCleanPayment(Owner[o])

\* correlate, and the checks of dispatch that run before the transaction.
CheckRow(w) ==
  LET ev == Event[rowBody[worker[w].row]]
      Decide(o, todo) ==
        worker' = [worker EXCEPT ![w].pc = "checked", ![w].order = o, ![w].todo = todo]
  IN
    /\ worker[w].pc = "deduped"
    /\ UNCHANGED <<vars, rowVars, faults>>
    /\ \/ Correlated(ev) = {} /\ GoTo(w, "dead_lettered")
       \/ \E o \in Correlated(ev) :
            \/ /\ ev.type = "succeeded"
               /\ IF o \in Topups THEN Decide(o, "settle")
                  ELSE IF ~ev.covers \/ OverVelocity(Owner[o], ev.fp)
                  THEN GoTo(w, "dead_lettered")
                  ELSE Decide(o, IF HighRisk(o, ev) THEN "hold" ELSE "settle")
            \/ ev.type = "cleared" /\ Decide(o, "clear")
            \/ ev.type = "refunded" /\ Decide(o, "refunded")
            \/ ev.type = "chargeback" /\ Decide(o, "charged_back")

\* A top-up's success is settled like a skill's.
MutantTransactionOfSkill(todo, o, ev) ==
  \/ todo = "settle" /\ SettleSkillOrBundle(o, ev.mor, ev.fp)
  \/ todo = "hold" /\ SettleOnHold(o, ev.mor, ev.fp)

\* The transaction dispatch picks; it takes effect only from these order states.
Transaction(todo, o, ev) ==
  \/ todo = "settle" /\ o \in Topups /\ SettleTopup(o)
  \/ todo = "settle" /\ o \notin Topups /\ SettleSkillOrBundle(o, ev.mor, ev.fp)
  \/ todo = "hold" /\ SettleOnHold(o, ev.mor, ev.fp)
  \/ todo = "clear" /\ o \notin Topups /\ ClearHeldOrder(o)
  \/ todo \in Reversed /\ o \in Topups /\ ReverseTopup(o, todo)
  \/ todo = "refunded" /\ o \notin Topups /\ RefundOrder(o)
  \/ todo = "charged_back" /\ o \notin Topups /\ ChargebackOrder(o)

TransactionMatches(todo, o) ==
  \/ todo \in {"settle", "hold"} /\ orderStatus[o] = "pending"
  \/ todo = "clear" /\ o \notin Topups /\ orderStatus[o] = "paid" /\ grantHeld[o]
  \/ todo \in Reversed /\ orderStatus[o] \in {"pending", "paid"}

TransactionThrows(todo, o) ==
  /\ o \in Topups
  /\ TransactionMatches(todo, o)
  /\ \/ todo = "settle" /\ CreditThrows(o)
     \/ todo \in Reversed /\ ClawbackThrows(o)

ApplyRow(w) ==
  LET o == worker[w].order
      todo == worker[w].todo
      ev == Event[rowBody[worker[w].row]]
  IN
    /\ worker[w].pc = "checked"
    /\ UNCHANGED <<rowVars, faults>>
    /\ \/ Transaction(todo, o, ev) /\ GoTo(w, "processed")
       \/ ~TransactionMatches(todo, o) /\ UNCHANGED vars /\ GoTo(w, "processed")
       \/ TransactionThrows(todo, o) /\ UNCHANGED vars /\ GoTo(w, "retry")

\* A write conflict, a timeout or any other exception inside dispatch, or of the
\* markProcessed that follows it in the same try: the transaction is committed then.
TransientFailure(w) ==
  /\ \/ worker[w].pc = "checked"
     \/ worker[w].pc = "processed" /\ worker[w].todo # "none"
  /\ faults < MaxFaults
  /\ faults' = faults + 1
  /\ GoTo(w, "retry")
  /\ UNCHANGED <<vars, rowVars>>

\* releaseForRetry: the attempt count tested is the one read at the claim.
Retries(w) == worker[w].pc = "retry" /\ worker[w].attempts + 1 < MaxAttempts

\* markProcessed, deadLetter and releaseForRetry update the row by id, whatever
\* its status has become.
FinishRow(w) ==
  LET r == worker[w].row
      again == Retries(w)
  IN
    /\ worker[w].pc \in Outcomes
    /\ rowStatus' = [rowStatus EXCEPT ![r] =
         IF again THEN "received"
         ELSE IF worker[w].pc = "processed" THEN "processed" ELSE "dead_lettered"]
    /\ attempts' = IF again THEN [attempts EXCEPT ![r] = @ + 1] ELSE attempts
    /\ stale' = [stale EXCEPT ![r] = FALSE]
    /\ LetGo(w)
    /\ UNCHANGED <<vars, rowBody, rowEvent, faults>>

\* The instance dies, or an exception escapes to drain(): the row stays processing.
Crash(w) ==
  /\ worker[w].pc # "idle"
  /\ faults < MaxFaults
  /\ faults' = faults + 1
  /\ LetGo(w)
  /\ UNCHANGED <<vars, rowVars>>

\* stale-processing-ms pass since the row was claimed.
Expire(r) ==
  /\ rowStatus[r] = "processing" /\ ~stale[r]
  /\ SlowWorkers \/ \A w \in Workers : worker[w].row # r
  /\ stale' = [stale EXCEPT ![r] = TRUE]
  /\ UNCHANGED <<vars, rowStatus, rowBody, rowEvent, attempts, worker, faults>>

-------------------------------------------------------------------------------
WorkerStep(w) == DedupeRow(w) \/ CheckRow(w) \/ ApplyRow(w) \/ FinishRow(w)

PipelineNext ==
  \/ Checkout /\ UNCHANGED <<rowVars, worker, faults>>
  \/ \E r \in Rows, e \in Events : Receive(r, e)
  \/ \E w \in Workers, r \in Rows : ClaimRow(w, r)
  \/ \E w \in Workers : WorkerStep(w) \/ TransientFailure(w) \/ Crash(w)
  \/ \E r \in Rows : Expire(r)

\* drain() runs at a fixed delay and walks every claimable row of the batch, so a
\* row that stays claimable is claimed; a worker that holds a row goes on unless
\* it crashes; time passes.  (A garbled row ends the tick that claims it, for the
\* rows behind it too; it is claimable once per stale window, so the others get
\* their turn as long as there are fewer garbled rows than ticks in a window.)
Fairness ==
  /\ \A w \in Workers : WF_pipeVars(WorkerStep(w))
  /\ \A r \in Rows : SF_pipeVars(\E w \in Workers : ClaimRow(w, r))
  /\ \A r \in Rows : WF_pipeVars(Expire(r))

PipelineSafety == PipelineInit /\ [][PipelineNext]_pipeVars
PipelineSpec == PipelineSafety /\ Fairness

-------------------------------------------------------------------------------
(* Properties *)

\* Whatever the workers do, the documents change only by the transactions of
\* Settlement, each taking effect at most once per order state.
ImplementsSettlement == Spec

Applied(ev, o) ==
  CASE ev.type = "succeeded" -> orderStatus[o] \in {"paid"} \cup Reversed
    [] ev.type \in {"refunded", "chargeback"} -> orderStatus[o] \in Reversed
    [] OTHER -> TRUE

\* A row marked processed under an event id of its own has been applied to its
\* order, whatever crashes, stale re-claims and late markings there were.
ProcessedMeansApplied ==
  \A r \in Rows : rowStatus[r] = "processed" /\ rowEvent[r] # None =>
    LET ev == Event[rowEvent[r]] IN ev.echo => Applied(ev, ev.about)

\* A row marked processed without an event id of its own is a duplicate (or of no
\* interest), and then another row carries the id: no delivery vanishes.
DuplicatesHaveAnOriginal ==
  \A r \in Rows : rowStatus[r] = "processed" /\ rowEvent[r] = None
                    /\ Event[rowBody[r]].type # "ignored" =>
    \E x \in Rows \ {r} : rowEvent[x] = rowBody[r] /\ rowStatus[x] # "absent"

\* releaseForRetry tests the count read at the claim but increments the stored one, so
\* workers that hold the same stale row each add to it: a row can be retried past
\* maxAttempts, but only once more for every further worker.
RetriesBounded == \A r \in Rows : attempts[r] <= MaxAttempts + Cardinality(Workers) - 2

\* No delivery vanishes, none is counted as done that was not and none is retried
\* without end, in rows that keep their shape.
NoDeliveryVanishes ==
  PipelineTypeOK /\ RetriesBounded /\ ProcessedMeansApplied /\ DuplicatesHaveAnOriginal

\* SettlementWorker: a failing event "is retried until maxAttempts, then
\* dead-lettered", and WebhookEventStatus: a row "finishes as processed or
\* dead_lettered": every stored delivery the provider's parser can read reaches one
\* end and stays there, also with garbled rows in the queue, which themselves are
\* claimed again for ever.
RowsFinish ==
  \A r \in Rows :
    rowStatus[r] = "received" /\ Event[rowBody[r]].type # "garbled"
      ~> \E end \in Finished : [](rowStatus[r] = end)
===============================================================================
