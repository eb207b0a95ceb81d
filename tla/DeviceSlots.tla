----------------------------- MODULE DeviceSlots -----------------------------
(***************************************************************************)
(* The device slots of one account: DeviceService (register, deauthorize), *)
(* the per-account counter DeviceSlotCounters keeps, the reconciler that   *)
(* recomputes it, and the step-up gate with its trust on first use.        *)
(* Accounts share nothing here, so one account is enough.                  *)
(*                                                                         *)
(* None of these methods is transactional: every database call is a step,  *)
(* requests interleave at will, and an instance may die between two calls. *)
(* A device row is named by its fingerprint, unique within the account.    *)
(***************************************************************************)
EXTENDS Integers, FiniteSets

CONSTANTS
  Fingerprints,    \* the fingerprints that register
  Requests,        \* register and deauthorize calls in flight
  Savers,          \* calls that read the user document, change it and save it whole
  MaxActiveSlots,  \* hydropark.devices.max-active-slots
  MaxCalls,        \* bound of the model on register and deauthorize calls
  MaxCrashes,      \* bound of the model on requests that die half-way
  None

ASSUME SlotsAssumption ==
  /\ MaxActiveSlots \in Nat \ {0} /\ MaxCalls \in Nat /\ MaxCrashes \in Nat
  /\ None \notin Fingerprints
  /\ IsFiniteSet(Fingerprints) /\ IsFiniteSet(Requests)

VARIABLES
  device,         \* devices.status by fingerprint
  activeSlots,    \* device_slot_counters.active_slots
  everHadDevice,  \* users.has_ever_had_device
  request,        \* the calls in flight
  saver,          \* the user document as a saving call read it
  reconciler,     \* the counter and the count the reconciler read
  calls, crashes,
  \* Only the properties read the next two:
  raced,          \* a slot was claimed, or in other hands, since the reconciler counted
  outdated        \* the reconciler has written a count it was raced on

bounds == <<calls, crashes>>
ghosts == <<raced, outdated>>
vars == <<device, activeSlots, everHadDevice, request, saver, reconciler, bounds, ghosts>>

Idle == [pc |-> "idle", fp |-> None, proof |-> FALSE]

\* A request that holds a claim (the counter has counted it) and no device yet, or
\* that flipped its device and has not yet given the slot back.
Holding == {"insert", "flip", "releaseNew", "releaseOld", "release"}

Pcs == {"idle", "stepUp", "find", "claimNew", "claimOld", "count", "deauthorize"} \cup Holding

Init ==
  /\ device = [f \in Fingerprints |-> "absent"]
  /\ activeSlots = 0
  /\ everHadDevice = FALSE
  /\ request = [p \in Requests |-> Idle]
  /\ saver = [v \in Savers |-> [pc |-> "idle", had |-> FALSE]]
  /\ reconciler = [pc |-> "idle", seen |-> 0, actual |-> 0]
  /\ calls = 0 /\ crashes = 0
  /\ raced = FALSE /\ outdated = FALSE

Active == {f \in Fingerprints : device[f] = "active"}
InFlight == Cardinality({p \in Requests : request[p].pc \in Holding})

GoTo(p, pc) == request' = [request EXCEPT ![p].pc = pc]
Finish(p) == request' = [request EXCEPT ![p] = Idle]

-------------------------------------------------------------------------------
(* DeviceService.register *)

\* A proof is valid (an unconsumed challenge, or the recovery code) or missing.
CallRegister(p, f, proof) ==
  /\ request[p].pc = "idle" /\ calls < MaxCalls
  /\ calls' = calls + 1
  /\ request' = [request EXCEPT ![p] = [pc |-> "stepUp", fp |-> f, proof |-> proof]]
  /\ UNCHANGED <<device, activeSlots, everHadDevice, saver, reconciler, crashes, ghosts>>

\* StepUpService.assertStepUp for device.register: the guarded flip of the user
\* document grants trust on first use, else the proof decides.
StepUp(p) ==
  /\ request[p].pc = "stepUp"
  /\ IF ~everHadDevice
     THEN everHadDevice' = TRUE /\ GoTo(p, "find")
     ELSE /\ UNCHANGED everHadDevice
          /\ IF request[p].proof THEN GoTo(p, "find") ELSE Finish(p)
  /\ UNCHANGED <<device, activeSlots, saver, reconciler, bounds, ghosts>>

\* The lookup by fingerprint: an active device is reclaimed without the counter.
Find(p) ==
  /\ request[p].pc = "find"
  /\ \/ device[request[p].fp] = "active" /\ Finish(p)
     \/ device[request[p].fp] = "deauthorized" /\ GoTo(p, "claimOld")
     \/ device[request[p].fp] = "absent" /\ GoTo(p, "claimNew")
  /\ UNCHANGED <<device, activeSlots, everHadDevice, saver, reconciler, bounds, ghosts>>

(* A definition whose name begins with Mutant is the next one with a plausible
   bug.  No specification uses it: it shows which property the bug breaks.     *)

\* The cap is off by one.
MutantClaimsOneMore(p) ==
  /\ request[p].pc \in {"claimNew", "claimOld"}
  /\ IF activeSlots <= MaxActiveSlots
     THEN /\ activeSlots' = activeSlots + 1
          /\ raced' = (raced \/ reconciler.pc = "counted")
          /\ GoTo(p, IF request[p].pc = "claimNew" THEN "insert" ELSE "flip")
     ELSE UNCHANGED <<activeSlots, raced>> /\ Finish(p)
  /\ UNCHANGED <<device, everHadDevice, saver, reconciler, bounds, outdated>>

\* DeviceSlotCounters.tryClaim, the conditional increment.
TryClaim(p) ==
  /\ request[p].pc \in {"claimNew", "claimOld"}
  /\ IF activeSlots < MaxActiveSlots
     THEN /\ activeSlots' = activeSlots + 1
          /\ raced' = (raced \/ reconciler.pc = "counted")
          /\ GoTo(p, IF request[p].pc = "claimNew" THEN "insert" ELSE "flip")
     ELSE UNCHANGED <<activeSlots, raced>> /\ Finish(p)
  /\ UNCHANGED <<device, everHadDevice, saver, reconciler, bounds, outdated>>

\* createNew: the unique (user_id, fingerprint) index lets one insert win.
Insert(p) ==
  /\ request[p].pc = "insert"
  /\ IF device[request[p].fp] = "absent"
     THEN device' = [device EXCEPT ![request[p].fp] = "active"] /\ Finish(p)
     ELSE UNCHANGED device /\ GoTo(p, "releaseNew")
  /\ UNCHANGED <<activeSlots, everHadDevice, saver, reconciler, bounds, ghosts>>

\* reactivate: the flip is guarded on status deauthorized.
Reactivate(p) ==
  /\ request[p].pc = "flip"
  /\ IF device[request[p].fp] = "deauthorized"
     THEN device' = [device EXCEPT ![request[p].fp] = "active"] /\ Finish(p)
     ELSE UNCHANGED device /\ GoTo(p, "releaseOld")
  /\ UNCHANGED <<activeSlots, everHadDevice, saver, reconciler, bounds, ghosts>>

\* DeviceSlotCounters.release.  A create that lost the race looks the winner up
\* again afterwards, which is Find; the others are done.
Release(p) ==
  /\ request[p].pc \in {"releaseNew", "releaseOld", "release"}
  /\ activeSlots' = IF activeSlots > 0 THEN activeSlots - 1 ELSE activeSlots
  /\ IF request[p].pc = "releaseNew" THEN GoTo(p, "find") ELSE Finish(p)
  /\ UNCHANGED <<device, everHadDevice, saver, reconciler, bounds, ghosts>>

-------------------------------------------------------------------------------
(* DeviceService.deauthorize *)

CallDeauthorize(p, f, proof) ==
  /\ request[p].pc = "idle" /\ calls < MaxCalls
  /\ device[f] = "active"
  /\ calls' = calls + 1
  /\ request' = [request EXCEPT ![p] = [pc |-> "count", fp |-> f, proof |-> proof]]
  /\ UNCHANGED <<device, activeSlots, everHadDevice, saver, reconciler, crashes, ghosts>>

\* The count that decides whether this is the last device and needs a proof.
CountActive(p) ==
  /\ request[p].pc = "count"
  /\ IF Cardinality(Active) <= 1 /\ ~request[p].proof THEN Finish(p) ELSE GoTo(p, "deauthorize")
  /\ UNCHANGED <<device, activeSlots, everHadDevice, saver, reconciler, bounds, ghosts>>

Deauthorize(p) ==
  /\ request[p].pc = "deauthorize"
  /\ IF device[request[p].fp] = "active"
     THEN device' = [device EXCEPT ![request[p].fp] = "deauthorized"] /\ GoTo(p, "release")
     ELSE UNCHANGED device /\ Finish(p)
  /\ UNCHANGED <<activeSlots, everHadDevice, saver, reconciler, bounds, ghosts>>

\* The instance dies between two calls.
Crash(p) ==
  /\ request[p].pc # "idle" /\ crashes < MaxCrashes
  /\ crashes' = crashes + 1
  /\ Finish(p)
  /\ UNCHANGED <<device, activeSlots, everHadDevice, saver, reconciler, calls, ghosts>>

-------------------------------------------------------------------------------
(* DeviceSlotReconciler.reconcile: read the counter, count, write *)

ReconcileRead ==
  /\ reconciler.pc = "idle"
  /\ reconciler' = [pc |-> "read", seen |-> activeSlots, actual |-> 0]
  /\ UNCHANGED <<device, activeSlots, everHadDevice, request, saver, bounds, ghosts>>

ReconcileCount ==
  /\ reconciler.pc = "read"
  /\ reconciler' = [reconciler EXCEPT !.pc = "counted", !.actual = Cardinality(Active)]
  /\ raced' = (InFlight # 0)
  /\ UNCHANGED <<device, activeSlots, everHadDevice, request, saver, bounds, outdated>>

Reconciled(value) ==
  /\ reconciler.pc = "counted"
  /\ activeSlots' = value
  /\ reconciler' = [pc |-> "idle", seen |-> 0, actual |-> 0]
  /\ raced' = FALSE
  /\ outdated' = (outdated \/ (raced /\ reconciler.actual # reconciler.seen))
  /\ UNCHANGED <<device, everHadDevice, request, saver, bounds>>

\* The reconciler only ever raises the counter.
MutantReconcileRaises ==
  Reconciled(IF reconciler.actual > reconciler.seen THEN reconciler.actual ELSE activeSlots)

\* A difference is written over what the counter is by now.
ReconcileWrite ==
  Reconciled(IF reconciler.actual # reconciler.seen THEN reconciler.actual ELSE activeSlots)

-------------------------------------------------------------------------------
(* AuthService.verifyEmail and resetPassword: users.findById ... users.save *)

ReadUser(v) ==
  /\ saver[v].pc = "idle"
  /\ saver' = [saver EXCEPT ![v] = [pc |-> "read", had |-> everHadDevice]]
  /\ UNCHANGED <<device, activeSlots, everHadDevice, request, reconciler, bounds, ghosts>>

SaveUser(v) ==
  /\ saver[v].pc = "read"
  /\ everHadDevice' = saver[v].had
  /\ saver' = [saver EXCEPT ![v] = [pc |-> "idle", had |-> FALSE]]
  /\ UNCHANGED <<device, activeSlots, request, reconciler, bounds, ghosts>>

-------------------------------------------------------------------------------
RequestStep(p) ==
  \/ StepUp(p) \/ Find(p) \/ TryClaim(p) \/ Insert(p) \/ Reactivate(p) \/ Release(p)
  \/ CountActive(p) \/ Deauthorize(p)

Reconcile == ReconcileRead \/ ReconcileCount \/ ReconcileWrite

Next ==
  \/ \E p \in Requests :
       \/ \E f \in Fingerprints, proof \in BOOLEAN :
            CallRegister(p, f, proof) \/ CallDeauthorize(p, f, proof)
       \/ RequestStep(p)
       \/ Crash(p)
  \/ Reconcile
  \/ \E v \in Savers : ReadUser(v) \/ SaveUser(v)

Spec == Init /\ [][Next]_vars

\* Calls that started run on unless their instance dies; the reconciler is @Scheduled.
FairSpec == Spec /\ WF_vars(Reconcile) /\ \A p \in Requests : WF_vars(RequestStep(p))

-------------------------------------------------------------------------------
(* Properties *)

\* Every active device and every claim in flight is in the counter: neither a race of
\* requests nor a crash opens a slot, a crash can only leak one.  The reconciler can
\* open one: it writes the count of a moment ago, and a claim taken since then, or
\* not yet a device at that moment, is not in it.
CounterCovers == ~outdated => activeSlots >= Cardinality(Active) + InFlight

\* The five-slot cap, the one hard limit on devices, with the reconciler running all
\* the time: nothing exceeds it before the reconciler has written a count that a
\* claim raced.
CapHolds == ~outdated => Cardinality(Active) <= MaxActiveSlots

\* DeviceSlotReconciler: the counter is "self-healing rather than permanently
\* wrong": when requests stop, it ends up equal to the number of active devices,
\* an outdated count included.
CounterHeals == <>[](activeSlots = Cardinality(Active))
===============================================================================
