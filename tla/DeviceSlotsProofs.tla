-------------------------- MODULE DeviceSlotsProofs --------------------------
(***************************************************************************)
(* The device cap holds for any number of fingerprints, of requests in     *)
(* flight and of slots, with the reconciler running all the time: only a   *)
(* count the reconciler was raced on can break it.                         *)
(***************************************************************************)
EXTENDS DeviceSlots, FiniteSetTheorems, TLAPS

Holders == {p \in Requests : request[p].pc \in Holding}

\* What the counter has to cover.
Load == Cardinality(Active) + Cardinality(Holders)

\* A call in flight names a fingerprint.
RequestTyped ==
  /\ request \in [Requests -> [pc : Pcs, fp : Fingerprints \cup {None}, proof : BOOLEAN]]
  /\ \A p \in Requests : request[p].pc # "idle" => request[p].fp \in Fingerprints

SlotsTyped ==
  /\ device \in [Fingerprints -> {"absent", "active", "deauthorized"}]
  /\ RequestTyped
  /\ activeSlots \in Nat
  /\ reconciler \in [pc : {"idle", "read", "counted"}, seen : Nat, actual : Nat]
  /\ raced \in BOOLEAN /\ outdated \in BOOLEAN

\* What the counter says, and what the reconciler is about to make it say: as long
\* as nothing was claimed since the count, the count covers the account.
CounterSound ==
  /\ outdated \/ (activeSlots <= MaxActiveSlots /\ Load <= activeSlots)
  /\ reconciler.pc = "counted" =>
       /\ raced \/ Load <= reconciler.actual
       /\ outdated \/ reconciler.actual <= MaxActiveSlots

SlotsInv == SlotsTyped /\ CounterSound

\* Both sets the counter covers are finite, so they can be counted.
LEMMA Countable ==
  /\ IsFiniteSet(Active) /\ Cardinality(Active) \in Nat
  /\ IsFiniteSet(Holders) /\ Cardinality(Holders) \in Nat
  /\ Load \in Nat
<1>1. Active \subseteq Fingerprints /\ Holders \subseteq Requests
  BY DEF Active, Holders
<1>2. /\ IsFiniteSet(Active) /\ Cardinality(Active) \in Nat
      /\ IsFiniteSet(Holders) /\ Cardinality(Holders) \in Nat
  BY <1>1, SlotsAssumption, FS_Subset, FS_CardinalityType
<1> QED
  BY <1>2 DEF Load

\* The load after a step that leaves the active devices and the holders as A and H.
LEMMA LoadOf ==
  ASSUME NEW A, NEW H, Active' = A, Holders' = H
  PROVE  Load' = Cardinality(A) + Cardinality(H)
BY DEF Load

\* A step that touches no device and takes no claim.
LEMMA Quiet ==
  ASSUME UNCHANGED device, Holders' \subseteq Holders
  PROVE  Load' \in Nat /\ Load' <= Load
<1>1. IsFiniteSet(Holders') /\ Cardinality(Holders') <= Cardinality(Holders)
  BY Countable, FS_Subset
<1>2. Active' = Active /\ Cardinality(Holders') \in Nat
  BY <1>1, FS_CardinalityType DEF Active
<1> QED
  BY <1>1, <1>2, Countable, LoadOf DEF Load

\* tryClaim: a claim in flight more.
LEMMA Claims ==
  ASSUME NEW p \in Requests \ Holders, UNCHANGED device, Holders' = Holders \cup {p}
  PROVE  Load' = Load + 1
<1>1. Active' = Active
  BY DEF Active
<1>2. Cardinality(Holders \cup {p}) = Cardinality(Holders) + 1
  BY Countable, FS_AddElement
<1> QED
  BY <1>1, <1>2, Countable, LoadOf DEF Load

\* An insert or a reactivation turns a claim into a device.
LEMMA Activates ==
  ASSUME NEW p \in Holders, NEW f \in Fingerprints \ Active,
         Active' = Active \cup {f}, Holders' = Holders \ {p}
  PROVE  Load' = Load
<1>1. Cardinality(Active \cup {f}) = Cardinality(Active) + 1
  BY Countable, FS_AddElement
<1>2. Cardinality(Holders \ {p}) = Cardinality(Holders) - 1
  BY Countable, FS_RemoveElement
<1> QED
  BY <1>1, <1>2, Countable, LoadOf DEF Load

\* A deauthorization turns a device into a slot to be released.
LEMMA Deactivates ==
  ASSUME NEW p \in Requests \ Holders, NEW f \in Active,
         Active' = Active \ {f}, Holders' = Holders \cup {p}
  PROVE  Load' = Load
<1>1. Cardinality(Active \ {f}) = Cardinality(Active) - 1
  BY Countable, FS_RemoveElement
<1>2. Cardinality(Holders \cup {p}) = Cardinality(Holders) + 1
  BY Countable, FS_AddElement
<1> QED
  BY <1>1, <1>2, Countable, LoadOf DEF Load

\* A release gives one slot back, and the releaser was counted.
LEMMA Releases ==
  ASSUME NEW p \in Holders, UNCHANGED device, Holders' = Holders \ {p}
  PROVE  Load' = Load - 1 /\ Load > 0
<1>1. Active' = Active
  BY DEF Active
<1>2. IsFiniteSet(Holders \ {p}) /\ Cardinality(Holders \ {p}) = Cardinality(Holders) - 1
  BY Countable, FS_RemoveElement
<1>3. Cardinality(Holders \ {p}) \in Nat
  BY <1>2, FS_CardinalityType
<1> QED
  BY <1>1, <1>2, <1>3, Countable, LoadOf DEF Load

-------------------------------------------------------------------------------
\* A new account has a counter of zero, no devices and no claims.
THEOREM InitSlots == Init => SlotsInv
<1> SUFFICES ASSUME Init PROVE SlotsInv
  OBVIOUS
<1>1. SlotsTyped
  BY SlotsAssumption DEF Init, SlotsTyped, RequestTyped, Idle, Pcs
<1>2. Active = {} /\ Holders = {}
  BY DEF Init, Active, Holders, Idle, Holding
<1>3. Load = 0
  BY <1>2, FS_EmptySet DEF Load
<1> QED
  BY <1>1, <1>3, SlotsAssumption DEF SlotsInv, CounterSound, Init

\* A call that goes on or returns keeps the fingerprint it was made for.
LEMMA Moves ==
  ASSUME RequestTyped, NEW p \in Requests, request[p].pc # "idle", NEW pc \in Pcs,
         GoTo(p, pc) \/ Finish(p)
  PROVE  RequestTyped'
<1>1. Idle \in [pc : Pcs, fp : Fingerprints \cup {None}, proof : BOOLEAN] /\ Idle.pc = "idle"
  BY DEF Idle, Pcs
<1>2. ASSUME NEW r \in [pc : Pcs, fp : Fingerprints \cup {None}, proof : BOOLEAN]
      PROVE  /\ [r EXCEPT !.pc = pc] \in [pc : Pcs, fp : Fingerprints \cup {None}, proof : BOOLEAN]
             /\ [r EXCEPT !.pc = pc].fp = r.fp
  OBVIOUS
<1>3. CASE GoTo(p, pc)
  <2>1. request' = [request EXCEPT ![p] = [request[p] EXCEPT !.pc = pc]]
    BY <1>3 DEF GoTo
  <2> QED
    BY <1>2, <2>1 DEF RequestTyped
<1>4. CASE Finish(p)
  BY <1>1, <1>4 DEF RequestTyped, Finish
<1> QED
  BY <1>3, <1>4

\* Every step keeps the types.
THEOREM NextTyped ==
  ASSUME SlotsTyped, [Next]_vars
  PROVE  SlotsTyped'
<1> USE SlotsAssumption DEF SlotsTyped, ghosts
<1>1. ASSUME NEW p \in Requests, NEW f \in Fingerprints, NEW proof \in BOOLEAN,
             CallRegister(p, f, proof) \/ CallDeauthorize(p, f, proof)
      PROVE  SlotsTyped'
  BY <1>1 DEF CallRegister, CallDeauthorize, RequestTyped, Pcs
<1>2. ASSUME NEW p \in Requests, RequestStep(p) PROVE SlotsTyped'
  <2>1. request[p].pc # "idle" /\ reconciler' = reconciler /\ outdated' = outdated
        /\ raced' \in BOOLEAN
    BY <1>2 DEF RequestStep, StepUp, Find, TryClaim, Insert, Reactivate, Release, CountActive,
       Deauthorize
  <2>2. RequestTyped'
    <3>1. PICK pc \in Pcs : GoTo(p, pc) \/ Finish(p)
      BY <1>2 DEF RequestStep, StepUp, Find, TryClaim, Insert, Reactivate, Release, CountActive,
         Deauthorize, Pcs, Holding
    <3> QED
      BY <2>1, <3>1, Moves
  <2>3. device' \in [Fingerprints -> {"absent", "active", "deauthorized"}]
    BY <1>2 DEF RequestStep, StepUp, Find, TryClaim, Insert, Reactivate, Release, CountActive,
       Deauthorize
  <2>4. activeSlots' \in Nat
    BY <1>2 DEF RequestStep, StepUp, Find, TryClaim, Insert, Reactivate, Release, CountActive,
       Deauthorize
  <2> QED
    BY <2>1, <2>2, <2>3, <2>4
<1>3. ASSUME NEW p \in Requests, Crash(p) PROVE SlotsTyped'
  BY <1>3, Moves DEF Crash, Pcs
<1>4. CASE Reconcile
  <2>1. RequestTyped' /\ device' = device
    BY <1>4 DEF Reconcile, ReconcileRead, ReconcileCount, ReconcileWrite, Reconciled, RequestTyped
  <2>2. raced' \in BOOLEAN /\ outdated' \in BOOLEAN
    BY <1>4 DEF Reconcile, ReconcileRead, ReconcileCount, ReconcileWrite, Reconciled
  <2>3. CASE ReconcileRead
    BY <2>1, <2>2, <2>3 DEF ReconcileRead
  <2>4. CASE ReconcileCount
    BY <2>1, <2>2, <2>4, Countable DEF ReconcileCount
  <2>5. CASE ReconcileWrite
    BY <2>1, <2>2, <2>5 DEF ReconcileWrite, Reconciled
  <2> QED
    BY <1>4, <2>3, <2>4, <2>5 DEF Reconcile
<1>5. ASSUME NEW v \in Savers, ReadUser(v) \/ SaveUser(v) PROVE SlotsTyped'
  BY <1>5 DEF ReadUser, SaveUser, RequestTyped
<1>6. CASE UNCHANGED vars
  BY <1>6 DEF vars, RequestTyped, bounds
<1> QED
  BY <1>1, <1>2, <1>3, <1>4, <1>5, <1>6 DEF Next

\* What a step of anyone but the reconciler does to the load and the counter: it
\* claims, it releases, or it leaves the counter alone and adds nothing to the load.
Claimed ==
  /\ Load' = Load + 1 /\ activeSlots < MaxActiveSlots /\ activeSlots' = activeSlots + 1
  /\ raced' = (raced \/ reconciler.pc = "counted") /\ UNCHANGED <<reconciler, outdated>>

Released ==
  /\ Load' = Load - 1 /\ Load > 0
  /\ activeSlots' = IF activeSlots > 0 THEN activeSlots - 1 ELSE activeSlots
  /\ UNCHANGED <<reconciler, raced, outdated>>

Kept == Load' \in Nat /\ Load' <= Load /\ UNCHANGED <<activeSlots, reconciler, raced, outdated>>

\* Every step is of one of these kinds, or is the reconciler's.
LEMMA Kinds ==
  ASSUME SlotsTyped, [Next]_vars
  PROVE  Claimed \/ Released \/ Kept \/ Reconcile
<1> USE DEF SlotsTyped, RequestTyped, GoTo, Finish, ghosts
<1>1. ASSUME UNCHANGED <<device, activeSlots, reconciler, ghosts>>, Holders' \subseteq Holders
      PROVE  Kept
  BY <1>1, Quiet DEF Kept
<1>2. ASSUME NEW p \in Requests, NEW f \in Fingerprints, NEW proof \in BOOLEAN,
             CallRegister(p, f, proof) \/ CallDeauthorize(p, f, proof)
      PROVE  Kept
  BY <1>1, <1>2 DEF CallRegister, CallDeauthorize, Holders, Holding
<1>3. ASSUME NEW p \in Requests, RequestStep(p) PROVE Claimed \/ Released \/ Kept
  <2>1. CASE StepUp(p) \/ Find(p) \/ CountActive(p)
    BY <1>1, <2>1 DEF StepUp, Find, CountActive, Holders, Holding, Idle
  <2>2. CASE TryClaim(p)
    <3>1. CASE activeSlots < MaxActiveSlots
      <4>1. p \notin Holders /\ Holders' = Holders \cup {p}
        BY <2>2, <3>1 DEF TryClaim, Holders, Holding
      <4> QED
        BY <2>2, <3>1, <4>1, Claims DEF TryClaim, Claimed
    <3>2. CASE ~(activeSlots < MaxActiveSlots)
      BY <1>1, <2>2, <3>2 DEF TryClaim, Holders, Holding, Idle
    <3> QED
      BY <3>1, <3>2
  <2>3. CASE Insert(p) \/ Reactivate(p)
    <3> DEFINE f == request[p].fp
    <3>1. f \in Fingerprints /\ p \in Holders
      BY <2>3 DEF Insert, Reactivate, Holders, Holding
    <3>2. CASE device'[f] # device[f]
      <4>1. f \notin Active /\ Active' = Active \cup {f}
        BY <2>3, <3>1, <3>2 DEF Insert, Reactivate, Active
      <4>2. Holders' = Holders \ {p} /\ UNCHANGED <<activeSlots, reconciler, ghosts>>
        BY <2>3, <3>1, <3>2 DEF Insert, Reactivate, Holders, Holding, Idle
      <4> QED
        BY <3>1, <4>1, <4>2, Activates, Countable DEF Kept
    <3>3. CASE UNCHANGED device
      BY <1>1, <2>3, <3>1, <3>3 DEF Insert, Reactivate, Holders, Holding, Idle
    <3> QED
      BY <2>3, <3>1, <3>2, <3>3 DEF Insert, Reactivate
  <2>4. CASE Release(p)
    <3>1. p \in Holders /\ Holders' = Holders \ {p}
      BY <2>4 DEF Release, Holders, Holding, Idle
    <3> QED
      BY <2>4, <3>1, Releases DEF Release, Released
  <2>5. CASE Deauthorize(p)
    <3> DEFINE f == request[p].fp
    <3>1. f \in Fingerprints /\ p \notin Holders
      BY <2>5 DEF Deauthorize, Holders, Holding
    <3>2. CASE f \in Active
      <4>1. /\ Active' = Active \ {f} /\ Holders' = Holders \cup {p}
            /\ UNCHANGED <<activeSlots, reconciler, ghosts>>
        BY <2>5, <3>1, <3>2 DEF Deauthorize, Active, Holders, Holding
      <4> QED
        BY <3>1, <3>2, <4>1, Deactivates, Countable DEF Kept
    <3>3. CASE f \notin Active
      BY <1>1, <2>5, <3>1, <3>3 DEF Deauthorize, Active, Holders, Holding, Idle
    <3> QED
      BY <3>2, <3>3
  <2> QED
    BY <1>3, <2>1, <2>2, <2>3, <2>4, <2>5 DEF RequestStep
<1>4. ASSUME NEW p \in Requests, Crash(p) PROVE Kept
  BY <1>1, <1>4 DEF Crash, Holders, Holding, Idle
<1>5. ASSUME NEW v \in Savers, ReadUser(v) \/ SaveUser(v) PROVE Kept
  BY <1>1, <1>5 DEF ReadUser, SaveUser, Holders
<1>6. CASE UNCHANGED vars
  BY <1>1, <1>6 DEF vars, Holders, bounds
<1> QED
  BY <1>2, <1>3, <1>4, <1>5, <1>6 DEF Next

\* No step of a request, nor its crash, makes the counter fall short of the active
\* devices and the claims in flight; the reconciler's write does only if it was raced.
THEOREM NextCovers ==
  ASSUME SlotsInv, [Next]_vars
  PROVE  CounterSound'
<1> USE SlotsAssumption, Countable DEF SlotsInv, SlotsTyped, CounterSound
<1>1. CASE Claimed
  <2>1. reconciler.pc = "counted" => raced'
    BY <1>1 DEF Claimed
  <2>2. outdated' = outdated
    BY <1>1 DEF Claimed
  <2> QED
    BY <1>1, <2>1, <2>2 DEF Claimed
<1>2. CASE Released
  BY <1>2 DEF Released
<1>3. CASE Kept
  BY <1>3 DEF Kept
<1>4. CASE Reconcile
  <2>1. Load' = Load
    BY <1>4 DEF Reconcile, ReconcileRead, ReconcileCount, ReconcileWrite, Reconciled, Load,
       Active, Holders
  <2>2. CASE ReconcileRead
    BY <2>1, <2>2 DEF ReconcileRead, ghosts
  <2>3. CASE ReconcileCount
    <3>1. reconciler'.actual = Cardinality(Active) /\ UNCHANGED <<activeSlots, outdated>>
      BY <2>3 DEF ReconcileCount
    <3>2. raced' \/ Cardinality(Holders) = 0
      BY <2>3, Zenon DEF ReconcileCount, InFlight, Holders
    <3>3. Load = Cardinality(Active) + Cardinality(Holders)
      BY DEF Load
    <3> QED
      BY <2>1, <3>1, <3>2, <3>3
  <2>4. CASE ReconcileWrite
    BY <2>1, <2>4 DEF ReconcileWrite, Reconciled
  <2> QED
    BY <1>4, <2>2, <2>3, <2>4 DEF Reconcile
<1> QED
  BY <1>1, <1>2, <1>3, <1>4, Kinds

\* Whatever requests and the reconciler interleave and wherever requests die, the
\* counter covers the account and the cap holds until the reconciler has written a
\* count that a claim raced.
THEOREM CapTheorem ==
  Spec => [](CounterCovers /\ CapHolds)
<1>1. SlotsInv /\ [Next]_vars => SlotsInv'
  BY NextTyped, NextCovers DEF SlotsInv
<1>2. SlotsInv => CounterCovers /\ CapHolds
  <2> SUFFICES ASSUME SlotsInv, ~outdated
               PROVE  /\ activeSlots >= Cardinality(Active) + InFlight
                      /\ Cardinality(Active) <= MaxActiveSlots
    BY DEF CounterCovers, CapHolds
  <2>1. /\ activeSlots \in Nat /\ activeSlots <= MaxActiveSlots
        /\ Cardinality(Active) + Cardinality(Holders) <= activeSlots
    BY DEF SlotsInv, SlotsTyped, CounterSound, Load
  <2> QED
    BY <2>1, Countable, SlotsAssumption DEF InFlight, Holders
<1> QED
  BY InitSlots, <1>1, <1>2, PTL DEF Spec
===============================================================================
