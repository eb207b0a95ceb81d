------------------------------ MODULE ToolProofs ------------------------------
(***************************************************************************)
(* A timer has one task at most and the list never gives an id away twice, *)
(* alone and in use by both doors and by the turn loop; an answer is exact *)
(* and the same at both doors; what is shown of a text is clean; the turn  *)
(* loop ends, never runs one call twice in a row and obeys a cancel.  For  *)
(* any number of timers, items, requests, texts, sessions, jobs and hops.  *)
(***************************************************************************)
EXTENDS TurnEngine, ToolRuntime, FiniteSetTheorems, SequenceTheorems,
        WellFoundedInduction, TLAPS

-------------------------------------------------------------------------------
(* The timers.                                                               *)

\* The records of the timers and the counts of their tasks have the declared shape.
TimersTyped ==
  /\ timer \in [Timers -> TimerType]
  /\ tickers \in [Timers -> Nat]
  /\ spawning \in [Timers -> Nat]

\* A uuid that no timer has is free of tasks, so start_timer may add one; a timer
\* with seconds left has its task, so a resume need not spawn one.
SecondsHaveTask ==
  \A t \in Timers :
    /\ timer[t].alive => timer[t].exists
    /\ timer[t].exists /\ timer[t].remaining > 0 => timer[t].alive

TimersInv == TimersTyped /\ OneTicker /\ SecondsHaveTask

\* The parts that are not about types, for one timer.
Sound(t) ==
  /\ tickers[t] + spawning[t] = IF timer[t].alive THEN 1 ELSE 0
  /\ timer[t].running => timer[t].alive /\ timer[t].remaining > 0
  /\ timer[t].alive => timer[t].exists
  /\ timer[t].exists /\ timer[t].remaining > 0 => timer[t].alive

LEMMA SoundIsEnough == TimersTyped /\ (\A t \in Timers : Sound(t)) <=> TimersInv
  BY DEF TimersInv, OneTicker, SecondsHaveTask, Sound

LEMMA TimersInit == ToolStateInit => TimersInv
<1> SUFFICES ASSUME ToolStateInit PROVE TimersInv
  OBVIOUS
<1> USE DEF ToolStateInit
<1>1. NoTimer \in TimerType
  BY DurationAssumption DEF NoTimer, TimerType
<1>2. TimersTyped
  BY <1>1 DEF TimersTyped
<1>3. \A t \in Timers : Sound(t)
  BY DEF Sound, NoTimer
<1> QED  BY <1>2, <1>3, SoundIsEnough

\* Every step on a timer t leaves the other timers alone.
LEMMA OthersAreLeftAlone ==
  ASSUME TimersInv, NEW t \in Timers, NEW u \in Timers, u # t,
         timer'[u] = timer[u], tickers'[u] = tickers[u], spawning'[u] = spawning[u]
  PROVE  Sound(u)'
  BY DEF TimersInv, OneTicker, SecondsHaveTask, Sound

\* start_timer takes a uuid without tasks, and decides on one.
LEMMA StartKeepsTimers ==
  ASSUME TimersInv, NEW t \in Timers, NEW d \in 1..MaxDuration, StartTimer(t, d)
  PROVE  TimersInv'
<1> USE DurationAssumption
<1>1. TimersTyped /\ timer[t] \in TimerType /\ Sound(t)
  BY SoundIsEnough DEF TimersTyped
<1>2. TimersTyped'
  BY <1>1 DEF StartTimer, TimersTyped, TimerType
<1>3. ~timer[t].alive
  BY <1>1 DEF StartTimer, Sound
<1>4. Sound(t)'
  <2>1. timer'[t].running /\ timer'[t].alive /\ timer'[t].exists /\ timer'[t].remaining = d
    BY <1>1 DEF StartTimer, TimersTyped
  <2>2. tickers'[t] = tickers[t] /\ spawning'[t] = spawning[t] + 1
    BY <1>1 DEF StartTimer, TimersTyped
  <2>3. tickers[t] + spawning[t] = 0
    BY <1>1, <1>3 DEF Sound
  <2>4. tickers[t] \in Nat /\ spawning[t] \in Nat
    BY <1>1 DEF TimersTyped
  <2> QED  BY <2>1, <2>2, <2>3, <2>4 DEF Sound
<1>5. \A u \in Timers \ {t} : Sound(u)'
  BY <1>1, OthersAreLeftAlone DEF StartTimer, TimersTyped
<1> QED  BY <1>2, <1>4, <1>5, SoundIsEnough DEF TimersInv, OneTicker, SecondsHaveTask, Sound

\* The task that had been decided on is spawned: one count goes over to the other.
LEMMA SpawnKeepsTimers ==
  ASSUME TimersInv, NEW t \in Timers, SpawnTask(t)
  PROVE  TimersInv'
<1>1. TimersTyped /\ tickers[t] \in Nat /\ spawning[t] \in Nat /\ Sound(t)
  BY SoundIsEnough DEF TimersTyped
<1>2. TimersTyped'
  BY <1>1 DEF SpawnTask, Spawned, TimersTyped
<1>3. tickers'[t] + spawning'[t] = tickers[t] + spawning[t] /\ timer' = timer
  BY <1>1 DEF SpawnTask, Spawned, TimersTyped
<1>4. Sound(t)'
  BY <1>1, <1>3 DEF Sound
<1>5. \A u \in Timers \ {t} : Sound(u)'
  BY <1>1, OthersAreLeftAlone DEF SpawnTask, TimersTyped
<1> QED  BY <1>2, <1>4, <1>5, SoundIsEnough DEF TimersInv, OneTicker, SecondsHaveTask, Sound

\* The tick that reaches zero ends the task and clears task_alive in one step.
LEMMA TickKeepsTimers ==
  ASSUME TimersInv, NEW t \in Timers, Tick(t)
  PROVE  TimersInv'
<1>1. /\ TimersTyped /\ timer[t] \in TimerType /\ Sound(t)
      /\ tickers[t] \in Nat /\ spawning[t] \in Nat
  BY SoundIsEnough DEF TimersTyped
<1>2. timer[t].remaining \in 1..MaxDuration /\ timer[t].alive /\ timer[t].exists
  BY <1>1, DurationAssumption DEF Tick, Sound, TimerType
<1>3. tickers[t] = 1 /\ spawning[t] = 0 /\ spawning' = spawning
  BY <1>1, <1>2 DEF Sound, Tick
<1>4. ASSUME timer[t].remaining = 1 PROVE TimersTyped' /\ Sound(t)'
  <2>1. /\ timer' = [timer EXCEPT ![t] = timer'[t]]
        /\ timer'[t] = [timer[t] EXCEPT !.remaining = 0, !.running = FALSE, !.alive = FALSE]
        /\ tickers' = [tickers EXCEPT ![t] = 0]
    BY <1>1, <1>3, <1>4 DEF Tick, TimersTyped
  <2>2. 0 \in 0..MaxDuration /\ timer[t] \in TimerType
    BY <1>1, DurationAssumption
  <2>3. timer'[t] \in TimerType
    BY <2>1, <2>2 DEF TimerType
  <2>4. timer'[t].remaining = 0 /\ ~timer'[t].running /\ ~timer'[t].alive
    BY <2>1, <2>2 DEF TimerType
  <2>5. TimersTyped'
    BY <1>1, <1>3, <2>1, <2>3 DEF TimersTyped
  <2> QED  BY <1>1, <1>3, <2>1, <2>3, <2>4, <2>5 DEF Sound, TimersTyped
<1>5. ASSUME timer[t].remaining # 1 PROVE TimersTyped' /\ Sound(t)'
  <2> DEFINE left == timer[t].remaining - 1
  <2>1. left \in 1..MaxDuration
    BY <1>2, <1>5, DurationAssumption
  <2>2. /\ timer' = [timer EXCEPT ![t] = timer'[t]]
        /\ timer'[t] = [timer[t] EXCEPT !.remaining = left]
        /\ tickers' = tickers
    BY <1>1, <1>5 DEF Tick, TimersTyped
  <2> HIDE DEF left
  <2>3. /\ timer'[t] \in TimerType /\ timer'[t].remaining = left
        /\ timer'[t].exists /\ timer'[t].alive
    BY <1>1, <1>2, <2>1, <2>2, DurationAssumption DEF TimerType
  <2>4. TimersTyped'
    BY <1>1, <1>3, <2>2, <2>3 DEF TimersTyped
  <2> QED  BY <1>3, <2>1, <2>2, <2>3, <2>4, DurationAssumption DEF Sound
<1>6. \A u \in Timers \ {t} : Sound(u)'
  BY <1>1, <1>4, <1>5, OthersAreLeftAlone DEF Tick, TimersTyped
<1> QED  BY <1>4, <1>5, <1>6, SoundIsEnough DEF TimersInv, OneTicker, SecondsHaveTask, Sound

\* A timer resumes only with seconds left, and then its task is still there: the
\* last tick leaves none.
LEMMA PauseKeepsTimers ==
  ASSUME TimersInv, NEW t \in Timers, NEW running \in BOOLEAN, SetTimerRunning(t, running)
  PROVE  TimersInv'
<1> DEFINE run == running /\ timer[t].remaining > 0
           next == [timer[t] EXCEPT !.running = run]
<1>1. TimersTyped /\ timer[t] \in TimerType /\ Sound(t) /\ timer[t].exists
  BY SoundIsEnough DEF TimersTyped, SetTimerRunning
<1>2. timer' = [timer EXCEPT ![t] = next] /\ UNCHANGED <<tickers, spawning>>
  BY <1>1 DEF SetTimerRunning, TimersTyped
<1>3. next \in TimerType
  BY <1>1 DEF TimerType
<1>4. TimersTyped'
  BY <1>1, <1>2, <1>3 DEF TimersTyped
<1>5. Sound(t)'
  <2> HIDE DEF run
  <2>1. timer'[t] = next
    BY <1>1, <1>2 DEF TimersTyped
  <2>2. /\ next.exists = timer[t].exists /\ next.alive = timer[t].alive
        /\ next.remaining = timer[t].remaining /\ next.running = run
    BY <1>1 DEF TimerType
  <2>3. run => timer[t].alive /\ timer[t].remaining > 0
    BY <1>1 DEF run, Sound
  <2> HIDE DEF next
  <2> QED  BY <1>1, <1>2, <2>1, <2>2, <2>3 DEF Sound
<1>6. \A u \in Timers \ {t} : Sound(u)'
  BY <1>1, <1>2, OthersAreLeftAlone DEF TimersTyped
<1> QED  BY <1>4, <1>5, <1>6, SoundIsEnough DEF TimersInv, OneTicker, SecondsHaveTask, Sound

\* A reset spawns a task exactly when the old one has left its loop.
LEMMA ResetKeepsTimers ==
  ASSUME TimersInv, NEW t \in Timers, ResetTimer(t)
  PROVE  TimersInv'
<1>1. /\ TimersTyped /\ timer[t] \in TimerType /\ Sound(t) /\ timer[t].exists
      /\ tickers[t] \in Nat /\ spawning[t] \in Nat
  BY SoundIsEnough DEF TimersTyped, ResetTimer
<1>2. /\ timer' = [timer EXCEPT ![t] = timer'[t]] /\ tickers' = tickers
      /\ timer'[t] = [timer[t] EXCEPT !.remaining = timer[t].duration, !.running = FALSE,
                                     !.alive = TRUE]
  BY <1>1 DEF ResetTimer, TimersTyped
<1>3. spawning' = [spawning EXCEPT ![t] = @ + (IF timer[t].alive THEN 0 ELSE 1)]
  BY <1>1 DEF ResetTimer, NeedsSpawn
<1>4. /\ timer'[t] \in TimerType /\ timer'[t].exists /\ timer'[t].alive
      /\ ~timer'[t].running
  BY <1>1, <1>2 DEF TimerType
<1>5. TimersTyped'
  BY <1>1, <1>2, <1>3, <1>4 DEF TimersTyped
<1>6. Sound(t)'
  <2>1. tickers'[t] + spawning'[t] = 1
    BY <1>1, <1>2, <1>3 DEF TimersTyped, Sound
  <2> QED  BY <1>4, <2>1 DEF Sound
<1>7. \A u \in Timers \ {t} : Sound(u)'
  BY <1>1, <1>2, <1>3, OthersAreLeftAlone DEF TimersTyped
<1> QED  BY <1>5, <1>6, <1>7, SoundIsEnough DEF TimersInv, OneTicker, SecondsHaveTask, Sound

\* Calls that only change the list, and stutters.
LEMMA RestKeepsTimers ==
  ASSUME TimersInv, UNCHANGED <<timer, tickers, spawning>>
  PROVE  TimersInv'
  BY DEF TimersInv, TimersTyped, OneTicker, SecondsHaveTask

LEMMA NextKeepsTimers == TimersInv /\ [ToolStateNext]_toolVars => TimersInv'
<1> SUFFICES ASSUME TimersInv, [ToolStateNext]_toolVars PROVE TimersInv'
  OBVIOUS
<1>1. CASE \E t \in Timers, d \in 1..MaxDuration : StartTimer(t, d)
  BY <1>1, StartKeepsTimers
<1>2. CASE \E t \in Timers : SpawnTask(t)
  BY <1>2, SpawnKeepsTimers
<1>3. CASE \E t \in Timers : Tick(t)
  BY <1>3, TickKeepsTimers
<1>4. CASE \E t \in Timers : ResetTimer(t)
  BY <1>4, ResetKeepsTimers
<1>5. CASE \E t \in Timers, running \in BOOLEAN : SetTimerRunning(t, running)
  BY <1>5, PauseKeepsTimers
<1>6. CASE \E op \in ListRequests : ManageList(op)
  BY <1>6, RestKeepsTimers DEF ManageList
<1>7. CASE UNCHANGED toolVars
  BY <1>7, RestKeepsTimers DEF toolVars
<1> QED  BY <1>1, <1>2, <1>3, <1>4, <1>5, <1>6, <1>7 DEF ToolStateNext

\* A timer has one countdown task while task_alive is set and none otherwise, and
\* runs only with one, in every behaviour of the commands, the tasks and their
\* spawns, however many timers there are.
THEOREM OneTickerTheorem == ToolStateSpec => []OneTicker
<1>1. TimersInv => OneTicker
  BY DEF TimersInv
<1> QED  BY <1>1, TimersInit, NextKeepsTimers, PTL DEF ToolStateSpec

-------------------------------------------------------------------------------
(* The elements that are kept of a sequence.                                 *)

\* A set of numbers has a least one.
LEMMA LeastNat ==
  ASSUME NEW S \in SUBSET Nat, S # {}
  PROVE  \E n \in S : \A m \in S : n <= m
<1>1. PICK x \in S : \A y \in S : ~ (<<y, x>> \in OpToRel(<, Nat))
  BY NatLessThanWellFounded, WFMin
<1>2. ASSUME NEW y \in S PROVE x <= y
  <2>1. SUFFICES ASSUME y < x PROVE FALSE
    OBVIOUS
  <2>2. <<y, x>> \in Nat \X Nat /\ <<y, x>>[1] < <<y, x>>[2]
    BY <2>1
  <2>3. <<y, x>> \in OpToRel(<, Nat)
    BY <2>2 DEF OpToRel
  <2> QED  BY <1>1, <2>3
<1> QED  BY <1>2

\* How many numbers of I there are up to i.
Rank(I, i) == Cardinality({j \in I : j <= i})

\* A greater number of I has a higher rank.
LEMMA RankGrows ==
  ASSUME NEW I \in SUBSET Nat, IsFiniteSet(I), NEW i \in I, NEW j \in I, i < j
  PROVE  Rank(I, i) < Rank(I, j)
<1> DEFINE low == {x \in I : x <= i}
           high == {x \in I : x <= j}
<1>0. low \in SUBSET I /\ high \in SUBSET I
  OBVIOUS
<1>1. IsFiniteSet(low) /\ IsFiniteSet(high)
  BY <1>0, FS_Subset
<1>2. low \subseteq high /\ j \in high /\ j \notin low
  <2>1. i \in Nat /\ j \in Nat /\ \A x \in I : x \in Nat
    OBVIOUS
  <2>2. \A x \in I : x <= i => x <= j
    BY <2>1
  <2>3. j <= j /\ ~(j <= i)
    BY <2>1
  <2> QED  BY <2>2, <2>3
<1>3. Cardinality(low) <= Cardinality(high)
  BY <1>1, <1>2, FS_Subset
<1>4. Cardinality(low) # Cardinality(high)
  BY <1>1, <1>2, FS_Subset
<1>5. Cardinality(low) \in Nat /\ Cardinality(high) \in Nat
  BY <1>1, FS_CardinalityType
<1> QED  BY <1>3, <1>4, <1>5 DEF Rank

\* The numbers of a finite set are numbered without a gap: there is a k-th one.
LEMMA NthIsThere ==
  ASSUME NEW I \in SUBSET Nat, IsFiniteSet(I), NEW k \in 1..Cardinality(I)
  PROVE  Nth(I, k) \in I /\ Rank(I, Nth(I, k)) = k
<1> DEFINE n == Cardinality(I)
           rank == [i \in I |-> Rank(I, i)]
<1>1. n \in Nat
  BY FS_CardinalityType
<1>2. ASSUME NEW i \in I PROVE Rank(I, i) \in 1..n
  <2> DEFINE low == {j \in I : j <= i}
  <2>1. IsFiniteSet(low) /\ Cardinality(low) <= n
    BY FS_Subset
  <2>2. i \in low
    OBVIOUS
  <2>3. Cardinality(low) \in Nat /\ Cardinality(low) # 0
    BY <2>1, <2>2, FS_CardinalityType, FS_EmptySet
  <2> QED  BY <1>1, <2>1, <2>3 DEF Rank
<1>3. ASSUME NEW i \in I, NEW j \in I, Rank(I, i) = Rank(I, j) PROVE i = j
  <2>1. i \in Nat /\ j \in Nat /\ Rank(I, i) \in Nat /\ Rank(I, j) \in Nat
    BY <1>2
  <2>2. ~(i < j) /\ ~(j < i)
    BY <1>3, <2>1, RankGrows
  <2> QED  BY <2>1, <2>2
<1>4. rank \in Injection(I, 1..n)
  BY <1>2, <1>3 DEF Injection, IsInjective
<1>5. IsFiniteSet(1..n) /\ Cardinality(1..n) = n
  BY <1>1, FS_Interval
<1>6. rank \in Surjection(I, 1..n)
  BY <1>4, <1>5, FS_Injection
<1>7. PICK i \in I : rank[i] = k
  BY <1>6 DEF Surjection
<1>8. Rank(I, i) = k
  BY <1>7
<1> QED  BY <1>8 DEF Nth, Rank

\* What is kept of s are elements of s, no two of them from one place.
LEMMA RetainedElements ==
  ASSUME NEW S, NEW s \in Seq(S), NEW I \in SUBSET (1..Len(s)),
         NEW r, r = Retained(s, I)
  PROVE  /\ r \in Seq(S)
         /\ \A k \in 1..Len(r) : Nth(I, k) \in 1..Len(s) /\ r[k] = s[Nth(I, k)]
         /\ \A j, k \in 1..Len(r) : Nth(I, j) = Nth(I, k) => j = k
<1>1. Len(s) \in Nat /\ IsFiniteSet(1..Len(s))
  BY FS_Interval
<1>2. I \in SUBSET Nat /\ IsFiniteSet(I) /\ Cardinality(I) \in Nat
  <2>1. I \in SUBSET Nat
    BY <1>1
  <2>2. IsFiniteSet(I)
    BY <1>1, FS_Subset
  <2> QED  BY <2>1, <2>2, FS_CardinalityType
<1>3. \A k \in 1..Cardinality(I) : Nth(I, k) \in 1..Len(s) /\ Rank(I, Nth(I, k)) = k
  BY <1>2, NthIsThere
<1>4. r = [k \in 1..Cardinality(I) |-> s[Nth(I, k)]]
  BY DEF Retained
<1>5. \A k \in 1..Cardinality(I) : s[Nth(I, k)] \in S
  BY <1>3
<1>6. r \in Seq(S) /\ Len(r) = Cardinality(I)
  BY <1>2, <1>4, <1>5
<1>7. \A k \in 1..Len(r) : Nth(I, k) \in 1..Len(s) /\ r[k] = s[Nth(I, k)]
  BY <1>3, <1>4, <1>6
<1>8. \A j, k \in 1..Len(r) : Nth(I, j) = Nth(I, k) => j = k
  BY <1>3, <1>6
<1> QED  BY <1>6, <1>7, <1>8

\* Of two neighbours that are both kept, the second one comes next.
LEMMA RankOfNext ==
  ASSUME NEW I \in SUBSET Nat, IsFiniteSet(I), NEW i \in I, i + 1 \in I
  PROVE  Rank(I, i + 1) = Rank(I, i) + 1
<1> DEFINE low == {x \in I : x <= i}
           high == {x \in I : x <= i + 1}
<1>1. low \in SUBSET I /\ high \in SUBSET I
  OBVIOUS
<1>2. IsFiniteSet(low)
  BY <1>1, FS_Subset
<1>3. \A x \in I : x \in Nat
  OBVIOUS
<1>4. i \in Nat /\ i + 1 \notin low
  BY <1>3
<1>5. \A x \in I : x <= i + 1 <=> x <= i \/ x = i + 1
  BY <1>3, <1>4
<1>6. high = low \cup {i + 1}
  BY <1>5
<1>7. Cardinality(high) = Cardinality(low) + 1
  BY <1>2, <1>4, <1>6, FS_AddElement
<1> QED  BY <1>7 DEF Rank

\* What is kept of s, place by place: the order stays, nothing kept is lost, and
\* neighbours stay neighbours.
LEMMA RetainedPlaces ==
  ASSUME NEW S, NEW s \in Seq(S), NEW I \in SUBSET (1..Len(s)),
         NEW r, r = Retained(s, I)
  PROVE  /\ r \in Seq(S) /\ Len(r) \in Nat /\ Len(r) = Cardinality(I)
         /\ \A k \in 1..Len(r) : Nth(I, k) \in I /\ Rank(I, Nth(I, k)) = k /\ r[k] = s[Nth(I, k)]
         /\ \A i \in I : Rank(I, i) \in 1..Len(r) /\ r[Rank(I, i)] = s[i]
         /\ \A i, j \in I : i < j <=> Rank(I, i) < Rank(I, j)
         /\ \A i \in I : i + 1 \in I => Rank(I, i + 1) = Rank(I, i) + 1
<1>1. Len(s) \in Nat /\ IsFiniteSet(1..Len(s))
  BY FS_Interval
<1>2. I \in SUBSET Nat /\ IsFiniteSet(I) /\ Cardinality(I) \in Nat
  <2>1. I \in SUBSET Nat
    BY <1>1
  <2>2. IsFiniteSet(I)
    BY <1>1, FS_Subset
  <2> QED  BY <2>1, <2>2, FS_CardinalityType
<1>3. r \in Seq(S) /\ \A k \in 1..Len(r) : r[k] = s[Nth(I, k)]
  BY RetainedElements
<1>4. r = [k \in 1..Cardinality(I) |-> s[Nth(I, k)]]
  BY DEF Retained
<1>5. Len(r) = Cardinality(I)
  BY <1>2, <1>3, <1>4
<1>6. ASSUME NEW k \in 1..Len(r)
      PROVE  Nth(I, k) \in I /\ Rank(I, Nth(I, k)) = k
  BY <1>2, <1>5, NthIsThere
<1>7. ASSUME NEW i \in I PROVE Rank(I, i) \in 1..Len(r)
  <2> DEFINE low == {j \in I : j <= i}
  <2>1. low \in SUBSET I /\ i \in low
    BY <1>2
  <2>2. IsFiniteSet(low) /\ Cardinality(low) <= Cardinality(I)
    BY <1>2, <2>1, FS_Subset
  <2>3. Cardinality(low) \in Nat /\ Cardinality(low) # 0
    BY <2>1, <2>2, FS_CardinalityType, FS_EmptySet
  <2> QED  BY <1>2, <1>5, <2>2, <2>3 DEF Rank
<1>8. ASSUME NEW i \in I, NEW j \in I PROVE i < j <=> Rank(I, i) < Rank(I, j)
  <2>1. i \in Nat /\ j \in Nat
    BY <1>2
  <2>2. Rank(I, i) \in Nat /\ Rank(I, j) \in Nat
    BY <1>5, <1>7
  <2>3. i < j => Rank(I, i) < Rank(I, j)
    BY <1>2, RankGrows
  <2>4. j < i => Rank(I, j) < Rank(I, i)
    BY <1>2, RankGrows
  <2> QED  BY <2>1, <2>2, <2>3, <2>4
<1>9. ASSUME NEW i \in I PROVE r[Rank(I, i)] = s[i]
  <2> DEFINE k == Rank(I, i)
  <2>1. k \in 1..Len(r)
    BY <1>7
  <2>2. Nth(I, k) \in I /\ Rank(I, Nth(I, k)) = k
    BY <1>6, <2>1
  <2>3. i \in Nat /\ Nth(I, k) \in Nat /\ k \in Nat
    <3>1. k \in Nat
      BY <1>2, <1>5, <2>1
    <3>2. \A x \in I : x \in Nat
      BY <1>2
    <3> HIDE DEF k
    <3> QED  BY <2>2, <3>1, <3>2
  <2>4. ~(i < Nth(I, k)) /\ ~(Nth(I, k) < i)
    BY <1>8, <2>2, <2>3
  <2>5. Nth(I, k) = i
    BY <2>3, <2>4
  <2> QED  BY <1>3, <2>1, <2>5
<1>10. \A i \in I : i + 1 \in I => Rank(I, i + 1) = Rank(I, i) + 1
  BY <1>2, RankOfNext
<1> QED  BY <1>2, <1>3, <1>5, <1>6, <1>7, <1>8, <1>9, <1>10

-------------------------------------------------------------------------------
(* The ids of the list.                                                      *)

\* The ids that list_manage has made are at most item_seq, and no two are one.
Numbered(list, seq) ==
  /\ list \in Seq(ItemType) /\ seq \in Nat
  /\ \A i \in 1..Len(list) : list[i].generated => list[i].id <= seq
  /\ \A i, j \in 1..Len(list) :
       list[i].generated /\ list[j].generated /\ list[i].id = list[j].id => i = j

LEMMA ItemsOf ==
  ASSUME NEW list \in Seq(ItemType)
  PROVE  Len(list) \in Nat /\ \A i \in 1..Len(list) : list[i] \in ItemType /\ list[i].id \in Nat
<1>1. Len(list) \in Nat /\ \A i \in 1..Len(list) : list[i] \in ItemType
  OBVIOUS
<1>2. \A x \in ItemType : x.id \in Nat
  BY DEF ItemType
<1> QED  BY <1>1, <1>2

Request == [id : Nat, checked : BOOLEAN, named : BOOLEAN]

\* An item that is added takes the next number.
LEMMA AddNumbers ==
  ASSUME NEW list, NEW seq, Numbered(list, seq)
  PROVE  Numbered(Append(list, Item(seq + 1, FALSE, TRUE)), seq + 1)
<1> DEFINE it == Item(seq + 1, FALSE, TRUE)
           n == Len(list)
           new == Append(list, it)
<1>1. list \in Seq(ItemType) /\ seq \in Nat /\ n \in Nat
  BY DEF Numbered
<1>2. it \in ItemType /\ it.id = seq + 1 /\ it.generated = TRUE
  BY <1>1 DEF Item, ItemType
<1> HIDE DEF it
<1>3. new \in Seq(ItemType) /\ Len(new) = n + 1 /\ new[n + 1] = it
      /\ \A i \in 1..n : new[i] = list[i]
  BY <1>1, <1>2
<1> HIDE DEF new
<1>4. \A i \in 1..n : list[i] \in ItemType /\ list[i].id \in Nat
  BY <1>1, ItemsOf
<1>5. ASSUME NEW i \in 1..(n + 1), new[i].generated PROVE new[i].id <= seq + 1
  <2>1. CASE i = n + 1
    BY <1>1, <1>2, <1>3, <2>1
  <2>2. CASE i # n + 1
    <3>1. i \in 1..n
      BY <1>1, <2>2
    <3> QED  BY <1>1, <1>3, <1>4, <1>5, <3>1 DEF Numbered
  <2> QED  BY <2>1, <2>2
<1>6. ASSUME NEW i \in 1..n, new[i].generated PROVE new[i].id # new[n + 1].id
  BY <1>1, <1>2, <1>3, <1>4, <1>6 DEF Numbered
<1>7. ASSUME NEW i \in 1..(n + 1), NEW j \in 1..(n + 1),
             new[i].generated, new[j].generated, new[i].id = new[j].id
      PROVE  i = j
  <2>1. CASE i = n + 1 /\ j = n + 1
    BY <2>1
  <2>2. CASE i # n + 1 /\ j = n + 1
    <3>1. i \in 1..n
      BY <1>1, <2>2
    <3> QED  BY <1>6, <1>7, <2>2, <3>1
  <2>3. CASE i = n + 1 /\ j # n + 1
    <3>1. j \in 1..n
      BY <1>1, <2>3
    <3> QED  BY <1>6, <1>7, <2>3, <3>1
  <2>4. CASE i # n + 1 /\ j # n + 1
    <3>1. i \in 1..n /\ j \in 1..n
      BY <1>1, <2>4
    <3> QED  BY <1>3, <1>7, <3>1 DEF Numbered
  <2> QED  BY <2>1, <2>2, <2>3, <2>4
<1>8. seq + 1 \in Nat
  BY <1>1
<1>9. Numbered(new, seq + 1)
  BY <1>3, <1>5, <1>7, <1>8 DEF Numbered
<1> QED  BY <1>9 DEF new, it

\* Items that are removed leave no gap that could be filled twice.
LEMMA RemoveNumbers ==
  ASSUME NEW list, NEW seq, Numbered(list, seq), NEW I \in SUBSET (1..Len(list))
  PROVE  Numbered(Retained(list, I), seq)
<1>1. PICK new : new = Retained(list, I)
  OBVIOUS
<1>2. list \in Seq(ItemType)
  BY DEF Numbered
<1>3. /\ new \in Seq(ItemType)
      /\ \A k \in 1..Len(new) : Nth(I, k) \in 1..Len(list) /\ new[k] = list[Nth(I, k)]
      /\ \A j, k \in 1..Len(new) : Nth(I, j) = Nth(I, k) => j = k
  BY <1>1, <1>2, RetainedElements
<1>4. \A k \in 1..Len(new) : new[k].generated => new[k].id <= seq
  BY <1>3 DEF Numbered
<1>5. ASSUME NEW j \in 1..Len(new), NEW k \in 1..Len(new),
             new[j].generated, new[k].generated, new[j].id = new[k].id
      PROVE  j = k
  <2>1. Nth(I, j) \in 1..Len(list) /\ Nth(I, k) \in 1..Len(list)
        /\ new[j] = list[Nth(I, j)] /\ new[k] = list[Nth(I, k)]
    BY <1>3
  <2>2. Nth(I, j) = Nth(I, k)
    BY <1>5, <2>1 DEF Numbered
  <2> QED  BY <1>3, <2>2
<1>6. Numbered(new, seq)
  BY <1>3, <1>4, <1>5 DEF Numbered
<1> QED  BY <1>1, <1>6

\* A mark changes no id.
LEMMA MarkNumbers ==
  ASSUME NEW list, NEW seq, Numbered(list, seq), NEW k, NEW checked \in BOOLEAN
  PROVE  Numbered([list EXCEPT ![k].checked = checked], seq)
<1> DEFINE new == [list EXCEPT ![k].checked = checked]
<1>1. list \in Seq(ItemType) /\ Len(list) \in Nat /\ DOMAIN list = 1..Len(list)
  BY DEF Numbered
<1>2. ASSUME NEW i \in 1..Len(list)
      PROVE  new[i] \in ItemType /\ new[i].id = list[i].id /\ new[i].generated = list[i].generated
  <2>1. list[i] \in ItemType
    BY <1>1
  <2>2. CASE i = k
    <3>1. new[i] = [list[i] EXCEPT !.checked = checked]
      BY <1>1, <2>2
    <3> HIDE DEF new
    <3> QED  BY <2>1, <3>1 DEF ItemType
  <2>3. CASE i # k
    <3>1. new[i] = list[i]
      BY <1>1, <2>3
    <3> HIDE DEF new
    <3> QED  BY <2>1, <3>1
  <2> QED  BY <2>2, <2>3
<1>3. new = [i \in 1..Len(list) |-> new[i]]
  BY <1>1
<1> HIDE DEF new
<1>4. new \in Seq(ItemType) /\ Len(new) = Len(list)
  BY <1>1, <1>2, <1>3
<1>5. Numbered(new, seq)
  BY <1>2, <1>4 DEF Numbered
<1> QED  BY <1>5 DEF new

\* Of two items of a request without an id the later one has more of them up to it.
LEMMA UnnamedGrows ==
  ASSUME NEW items \in Seq(Request), NEW i \in 1..Len(items), items[i].id = 0,
         NEW j \in 0..Len(items), j < i
  PROVE  Unnamed(items, j) < Unnamed(items, i)
<1> DEFINE low == {x \in 1..j : items[x].id = 0}
           high == {x \in 1..i : items[x].id = 0}
<1>1. Len(items) \in Nat /\ IsFiniteSet(1..i) /\ IsFiniteSet(1..j)
  BY FS_Interval
<1>2. IsFiniteSet(low) /\ IsFiniteSet(high)
  BY <1>1, FS_Subset
<1>3. low \subseteq high /\ i \in high /\ i \notin low
  BY <1>1
<1>4. Cardinality(low) <= Cardinality(high) /\ Cardinality(low) # Cardinality(high)
  BY <1>2, <1>3, FS_Subset
<1>5. Cardinality(low) \in Nat /\ Cardinality(high) \in Nat
  BY <1>2, FS_CardinalityType
<1> QED  BY <1>4, <1>5 DEF Unnamed

LEMMA UnnamedIsNat ==
  ASSUME NEW items, NEW n \in Nat
  PROVE  Unnamed(items, n) \in Nat
<1>1. IsFiniteSet(1..n)
  BY FS_Interval
<1> QED  BY <1>1, FS_Subset, FS_CardinalityType DEF Unnamed

LEMMA UnnamedIsMonotone ==
  ASSUME NEW items, NEW n \in Nat, NEW i \in 1..n
  PROVE  Unnamed(items, i) <= Unnamed(items, n)
<1> DEFINE low == {x \in 1..i : items[x].id = 0}
           high == {x \in 1..n : items[x].id = 0}
<1>1. IsFiniteSet(high)
  <2>1. high \in SUBSET (1..n) /\ IsFiniteSet(1..n)
    BY FS_Interval
  <2> QED  BY <2>1, FS_Subset
<1>2. low \in SUBSET high
  OBVIOUS
<1> QED  BY <1>1, <1>2, FS_Subset DEF Unnamed

\* A new list numbers the items without an id one after the other.
LEMMA SetAllNumbers ==
  ASSUME NEW items \in Seq(Request), itemSeq \in Nat
  PROVE  Numbered(NewItems(items), itemSeq + Unnamed(items, Len(items)))
<1> DEFINE n == Len(items)
           used(i) == Unnamed(items, i)
           new == NewItems(items)
<1>1. n \in Nat /\ \A i \in 1..n : items[i] \in Request
  OBVIOUS
<1>2. \A i \in 1..n : used(i) \in Nat /\ used(i) <= used(n)
  BY <1>1, UnnamedIsNat, UnnamedIsMonotone
<1>3. used(n) \in Nat
  BY <1>1, UnnamedIsNat
<1>4. \A i \in 1..n : items[i].id = 0 => used(i) > 0
  <2>1. SUFFICES ASSUME NEW i \in 1..n, items[i].id = 0 PROVE used(i) > 0
    OBVIOUS
  <2>2. used(0) < used(i) /\ used(0) \in Nat
    BY <1>1, <2>1, UnnamedGrows, UnnamedIsNat
  <2> QED  BY <1>2, <2>2
<1>5. \A i, j \in 1..n : items[i].id = 0 /\ items[j].id = 0 /\ used(i) = used(j) => i = j
  <2>1. SUFFICES ASSUME NEW i \in 1..n, NEW j \in 1..n, items[i].id = 0, items[j].id = 0,
                        used(i) = used(j), i # j
                 PROVE  FALSE
    OBVIOUS
  <2>2. CASE i < j
    <3>1. used(i) < used(j)
      BY <1>1, <2>1, <2>2, UnnamedGrows
    <3> QED  BY <1>2, <2>1, <3>1
  <2>3. CASE j < i
    <3>1. used(j) < used(i)
      BY <1>1, <2>1, <2>3, UnnamedGrows
    <3> QED  BY <1>2, <2>1, <3>1
  <2> QED  BY <1>1, <2>1, <2>2, <2>3
<1> HIDE DEF used
<1>6. new = [i \in 1..n |-> new[i]]
  BY DEF NewItems
<1>7. ASSUME NEW i \in 1..n, items[i].id # 0
      PROVE  new[i] \in ItemType /\ new[i].generated = FALSE
  <2>1. new[i] = [id |-> items[i].id, checked |-> items[i].checked, generated |-> FALSE]
    BY <1>7 DEF NewItems, Item
  <2> HIDE DEF new
  <2> QED  BY <1>1, <2>1 DEF ItemType, Request
<1>8. ASSUME NEW i \in 1..n, items[i].id = 0
      PROVE  new[i] \in ItemType /\ new[i].generated = TRUE /\ new[i].id = itemSeq + used(i)
  <2>1. new[i] = [id |-> itemSeq + 1 + used(i) - 1, checked |-> items[i].checked,
                  generated |-> TRUE]
    BY <1>8 DEF NewItems, Item, NextId, used
  <2>2. itemSeq + 1 + used(i) - 1 = itemSeq + used(i) /\ itemSeq + used(i) \in Nat
    BY <1>2
  <2> HIDE DEF new
  <2> QED  BY <1>1, <2>1, <2>2 DEF ItemType, Request
<1> HIDE DEF new
<1>9. \A i \in 1..n : new[i] \in ItemType
  BY <1>7, <1>8
<1>10. new \in Seq(ItemType) /\ Len(new) = n
  BY <1>1, <1>6, <1>9
<1>11. \A i \in 1..n : new[i].generated => items[i].id = 0 /\ new[i].id = itemSeq + used(i)
  BY <1>7, <1>8
<1>12. \A i \in 1..n : new[i].generated => new[i].id <= itemSeq + used(n)
  BY <1>2, <1>3, <1>11
<1>13. ASSUME NEW i \in 1..n, NEW j \in 1..n, new[i].generated, new[j].generated,
              new[i].id = new[j].id
       PROVE  i = j
  <2>1. used(i) = used(j)
    BY <1>2, <1>11, <1>13
  <2> QED  BY <1>5, <1>11, <1>13, <2>1
<1>14. itemSeq + used(n) \in Nat
  BY <1>3
<1>15. Numbered(new, itemSeq + used(n))
  BY <1>10, <1>12, <1>13, <1>14 DEF Numbered
<1> QED  BY <1>15 DEF new, used

\* A higher item_seq does no harm.
LEMMA MoreNumbers ==
  ASSUME NEW list, NEW seq, Numbered(list, seq), NEW k \in Nat
  PROVE  Numbered(list, seq + k)
<1>1. \A i \in 1..Len(list) : list[i].id \in Nat
  BY ItemsOf DEF Numbered
<1>2. seq \in Nat /\ seq + k \in Nat
  BY DEF Numbered
<1> QED  BY <1>1, <1>2 DEF Numbered

\* The first item without a name is one of the items.
LEMMA FirstBadIsIndex ==
  ASSUME NEW op, op.items \in Seq(Request)
  PROVE  FirstBad(op) \in 0..Len(op.items)
<1> DEFINE bad == {i \in 1..Len(op.items) : ~op.items[i].named}
<1>1. FirstBad(op) = IF bad # {} THEN Min(bad) ELSE 0
  BY Zenon DEF FirstBad, SelectInSeq
<1>2. CASE bad = {}
  BY <1>1, <1>2
<1>3. CASE bad # {}
  <2>1. bad \in SUBSET Nat
    OBVIOUS
  <2>2. Min(bad) \in bad
    BY <1>3, <2>1, LeastNat DEF Min
  <2> QED  BY <1>1, <1>3, <2>2
<1> QED  BY <1>2, <1>3

\* list_manage, whatever it is asked.
LEMMA ListKeeps ==
  ASSUME Numbered(ingredients, itemSeq), NEW op \in ListRequests, ManageList(op)
  PROVE  Numbered(ingredients', itemSeq')
<1>1. itemSeq \in Nat /\ itemSeq + 0 = itemSeq
  BY DEF Numbered
<1>2. /\ op.op \in {"add", "remove", "check", "uncheck", "set_all"}
      /\ op.items \in Seq(Request)
  BY ListAssumption DEF Request
<1>3. CASE op.op = "add"
  <2>1. itemSeq' = itemSeq + 1 /\ ingredients' = Append(ingredients, Item(itemSeq + 1, FALSE, TRUE))
    BY <1>3 DEF ManageList, IdsUsed, NextId
  <2> QED  BY <2>1, AddNumbers
<1>4. CASE op.op = "remove"
  <2> DEFINE I == {i \in 1..Len(ingredients) : ~Matches(op, ingredients[i])}
  <2>1. itemSeq' = itemSeq /\ ingredients' = Retained(ingredients, I)
    BY <1>1, <1>4 DEF ManageList, IdsUsed
  <2>2. I \in SUBSET (1..Len(ingredients))
    OBVIOUS
  <2> HIDE DEF I
  <2> QED  BY <2>1, <2>2, RemoveNumbers
<1>5. CASE op.op \in {"check", "uncheck"}
  <2>1. PICK checked \in BOOLEAN : itemSeq' = itemSeq /\ ingredients' = Marks(op, checked)
    BY <1>1, <1>5 DEF ManageList, IdsUsed
  <2>2. Marks(op, checked) = ingredients
        \/ \E k : Marks(op, checked) = [ingredients EXCEPT ![k].checked = checked]
    BY Zenon DEF Marks
  <2> QED  BY <2>1, <2>2, MarkNumbers
<1>6. CASE op.op = "set_all"
  <2>1. CASE FirstBad(op) = 0
    <3>1. itemSeq' = itemSeq + Unnamed(op.items, Len(op.items)) /\ ingredients' = NewItems(op.items)
      BY <1>6, <2>1 DEF ManageList, IdsUsed
    <3> QED  BY <1>1, <1>2, <3>1, SetAllNumbers
  <2>2. CASE FirstBad(op) # 0
    <3>1. itemSeq' = itemSeq + Unnamed(op.items, FirstBad(op)) /\ ingredients' = ingredients
      BY <1>6, <2>2 DEF ManageList, IdsUsed
    <3>2. FirstBad(op) \in Nat
      BY <1>2, FirstBadIsIndex
    <3>3. Unnamed(op.items, FirstBad(op)) \in Nat
      BY <3>2, UnnamedIsNat
    <3> QED  BY <3>1, <3>3, MoreNumbers
  <2> QED  BY <2>1, <2>2
<1> QED  BY <1>2, <1>3, <1>4, <1>5, <1>6

\* The commands and the tasks of timers leave the list alone.
LEMMA TimersLeaveList ==
  ASSUME NEW t \in Timers,
         \/ \E d \in 1..MaxDuration : StartTimer(t, d)
         \/ SpawnTask(t) \/ Tick(t) \/ ResetTimer(t)
         \/ \E running \in BOOLEAN : SetTimerRunning(t, running)
  PROVE  UNCHANGED <<ingredients, itemSeq>>
  BY DEF StartTimer, SpawnTask, Tick, ResetTimer, SetTimerRunning

LEMMA ListAlways == ToolStateSpec => []Numbered(ingredients, itemSeq)
<1>1. ToolStateInit => Numbered(ingredients, itemSeq)
  BY DEF ToolStateInit, Numbered
<1>2. Numbered(ingredients, itemSeq) /\ [ToolStateNext]_toolVars
        => Numbered(ingredients, itemSeq)'
  <2> SUFFICES ASSUME Numbered(ingredients, itemSeq), [ToolStateNext]_toolVars
               PROVE  Numbered(ingredients', itemSeq')
    OBVIOUS
  <2>1. CASE UNCHANGED <<ingredients, itemSeq>>
    BY <2>1
  <2>2. CASE \E op \in ListRequests : ManageList(op)
    BY <2>2, ListKeeps
  <2> QED  BY <2>1, <2>2, TimersLeaveList DEF ToolStateNext, toolVars
<1> QED  BY <1>1, <1>2, PTL DEF ToolStateSpec

\* The state has the declared shape, however often the tools are called.
THEOREM ToolStateTypeTheorem == ToolStateSpec => []ToolStateTypeOK
<1>1. TimersInv /\ Numbered(ingredients, itemSeq) => ToolStateTypeOK
  BY DEF TimersInv, TimersTyped, Numbered, ToolStateTypeOK
<1> QED  BY <1>1, TimersInit, NextKeepsTimers, ListAlways, PTL DEF ToolStateSpec

\* list_manage never gives an id away twice, whatever adds, removals, marks and
\* set_alls come, those that fail half-way included, in lists of any length.
THEOREM GeneratedIdsTheorem == ToolStateSpec => []GeneratedIdsDistinct
<1>1. Numbered(ingredients, itemSeq) => GeneratedIdsDistinct
  BY DEF Numbered, GeneratedIdsDistinct
<1> QED  BY <1>1, ListAlways, PTL

-------------------------------------------------------------------------------
(* What is shown.                                                            *)

Halves == Heads \cup Tails

\* w is what is left of a text whose tags are whole: its tags are whole too, and no two
\* of them are a span that was none before.
TagsStay(text, w) ==
  ~Split(text) => ~Split(w) /\ \A tail \in Tails : Span(w, tail) => Span(text, tail)
Leakless(text) == \A i \in 1..Len(text) : ~Leak(text, i)

\* A tag goes or stays as a whole.
KeepsTags(s, I) ==
  \A x \in 1..Len(s) :
    x < Len(s) /\ s[x] \in Heads /\ s[x + 1] \in Tails => (x \in I <=> x + 1 \in I)

\* Where tags go as a whole, and none is in two parts, what is left is in no two parts
\* and its tags are tags that were there.
LEMMA RetainedTags ==
  ASSUME NEW s \in Seq(Tokens), NEW I \in SUBSET (1..Len(s)), KeepsTags(s, I), ~Split(s),
         NEW r, r = Retained(s, I)
  PROVE  /\ ~Split(r)
         /\ \A p \in 1..Len(r) : p < Len(r) /\ r[p] \in Heads /\ r[p + 1] \in Tails =>
              Nth(I, p + 1) = Nth(I, p) + 1
<1>1. /\ Len(r) \in Nat
      /\ \A k \in 1..Len(r) : Nth(I, k) \in I /\ Rank(I, Nth(I, k)) = k /\ r[k] = s[Nth(I, k)]
      /\ \A i \in I : Rank(I, i) \in 1..Len(r) /\ r[Rank(I, i)] = s[i]
      /\ \A i, j \in I : i < j <=> Rank(I, i) < Rank(I, j)
      /\ \A i \in I : i + 1 \in I => Rank(I, i + 1) = Rank(I, i) + 1
  BY RetainedPlaces
<1>2. Len(s) \in Nat /\ \A x \in I : x \in Nat /\ x \in 1..Len(s)
  OBVIOUS
<1>3. ASSUME NEW p \in 1..Len(r), NEW q \in 1..Len(r), p < q, r[p] \in Heads, r[q] \in Tails
      PROVE  LET x == Nth(I, p)
                 y == Nth(I, q)
             IN /\ x \in I /\ y \in I /\ x < y /\ s[x] \in Heads /\ s[y] \in Tails
                /\ s[x + 1] \in Tails => x + 1 \in I /\ Rank(I, x + 1) = p + 1
                /\ s[y - 1] \in Heads => y - 1 \in I /\ Rank(I, y - 1) = q - 1
  <2> DEFINE x == Nth(I, p)
             y == Nth(I, q)
  <2>1. x \in I /\ y \in I /\ s[x] \in Heads /\ s[y] \in Tails /\ Rank(I, x) = p /\ Rank(I, y) = q
    BY <1>1, <1>3
  <2> HIDE DEF x, y
  <2>2. x < y /\ x \in Nat /\ y \in Nat
    BY <1>1, <1>2, <1>3, <2>1
  <2>3. ASSUME s[x + 1] \in Tails PROVE x + 1 \in I /\ Rank(I, x + 1) = p + 1
    <3>1. x \in 1..Len(s) /\ x < Len(s)
      BY <1>2, <2>1, <2>2
    <3>2. x + 1 \in I
      BY <2>1, <2>3, <3>1 DEF KeepsTags
    <3> QED  BY <1>1, <2>1, <3>2
  <2>4. ASSUME s[y - 1] \in Heads PROVE y - 1 \in I /\ Rank(I, y - 1) = q - 1
    <3>1. y - 1 \in 1..Len(s) /\ y - 1 < Len(s) /\ (y - 1) + 1 = y
      BY <1>2, <2>1, <2>2
    <3>2. y - 1 \in I
      BY <2>1, <2>4, <3>1 DEF KeepsTags
    <3>3. Rank(I, y) = Rank(I, y - 1) + 1 /\ Rank(I, y - 1) \in 1..Len(r)
      BY <1>1, <2>1, <3>1, <3>2
    <3> QED  BY <1>1, <2>1, <3>2, <3>3
  <2> QED  BY <2>1, <2>2, <2>3, <2>4 DEF x, y
<1>4. ~Split(r)
  <2> SUFFICES ASSUME NEW p \in 1..Len(r), NEW q \in 1..Len(r), p < q, r[p] \in Heads,
                      r[q] \in Tails, r[p + 1] \notin Tails, r[q - 1] \notin Heads
               PROVE  FALSE
    BY DEF Split
  <2> DEFINE x == Nth(I, p)
             y == Nth(I, q)
  <2>1. /\ x \in I /\ y \in I /\ x < y /\ s[x] \in Heads /\ s[y] \in Tails
        /\ s[x + 1] \in Tails => x + 1 \in I /\ Rank(I, x + 1) = p + 1
        /\ s[y - 1] \in Heads => y - 1 \in I /\ Rank(I, y - 1) = q - 1
    BY <1>3
  <2> HIDE DEF x, y
  <2>2. ASSUME s[x + 1] \in Tails PROVE FALSE
    <3>1. x + 1 \in I /\ Rank(I, x + 1) = p + 1
      BY <2>1, <2>2
    <3>2. r[Rank(I, x + 1)] = s[x + 1]
      BY <1>1, <3>1, Zenon
    <3> QED  BY <2>2, <3>1, <3>2
  <2>3. ASSUME s[y - 1] \in Heads PROVE FALSE
    <3>1. y - 1 \in I /\ Rank(I, y - 1) = q - 1
      BY <2>1, <2>3
    <3>2. r[Rank(I, y - 1)] = s[y - 1]
      BY <1>1, <3>1, Zenon
    <3> QED  BY <2>3, <3>1, <3>2
  <2> QED  BY <1>2, <2>1, <2>2, <2>3 DEF Split
<1>5. ASSUME NEW p \in 1..Len(r), p < Len(r), r[p] \in Heads, r[p + 1] \in Tails
      PROVE  Nth(I, p + 1) = Nth(I, p) + 1
  <2> DEFINE x == Nth(I, p)
             y == Nth(I, p + 1)
  <2>1. p + 1 \in 1..Len(r) /\ p \in Nat
    BY <1>1, <1>5
  <2>2. /\ x \in I /\ y \in I /\ x < y /\ s[x] \in Heads /\ s[y] \in Tails
        /\ s[x + 1] \in Tails => x + 1 \in I /\ Rank(I, x + 1) = p + 1
        /\ s[y - 1] \in Heads => y - 1 \in I /\ Rank(I, y - 1) = p
    BY <1>3, <1>5, <2>1
  <2>3. Rank(I, x) = p /\ Rank(I, y) = p + 1
    BY <1>1, <2>1
  <2> HIDE DEF x, y
  <2>4. CASE s[x + 1] \in Tails
    <3>1. ~(x + 1 < y) /\ ~(y < x + 1)
      BY <1>1, <2>1, <2>2, <2>3, <2>4
    <3>2. x \in Int /\ y \in Int
      BY <1>2, <2>2
    <3>3. y = x + 1
      BY <3>1, <3>2
    <3> QED  BY <3>3 DEF x, y
  <2>5. CASE s[y - 1] \in Heads
    <3>1. ~(x < y - 1) /\ ~(y - 1 < x)
      BY <1>1, <2>1, <2>2, <2>3, <2>5
    <3>2. x \in Int /\ y \in Int
      BY <1>2, <2>2
    <3>3. y = x + 1
      BY <3>1, <3>2
    <3> QED  BY <3>3 DEF x, y
  <2>6. CASE s[x + 1] \notin Tails /\ s[y - 1] \notin Heads
    BY <1>2, <2>2, <2>6 DEF Split
  <2> QED  BY <2>4, <2>5, <2>6
<1> QED  BY <1>4, <1>5

\* A tag that is left was there.
LEMMA RetainedTag ==
  ASSUME NEW s \in Seq(Tokens), NEW I \in SUBSET (1..Len(s)), KeepsTags(s, I), ~Split(s),
         NEW r, r = Retained(s, I), NEW p \in 1..Len(r), NEW head \in Heads, NEW tail \in Tails,
         Tag(r, p, head, tail)
  PROVE  Nth(I, p) \in I /\ Tag(s, Nth(I, p), head, tail)
<1>1. /\ Len(r) \in Nat
      /\ \A k \in 1..Len(r) : Nth(I, k) \in I /\ r[k] = s[Nth(I, k)]
  BY RetainedPlaces
<1>2. p < Len(r) /\ r[p] = head /\ r[p + 1] = tail /\ p + 1 \in 1..Len(r)
  BY <1>1 DEF Tag
<1>3. Nth(I, p + 1) = Nth(I, p) + 1
  BY <1>2, RetainedTags
<1>4. /\ Nth(I, p) \in I /\ Nth(I, p) + 1 \in I
      /\ s[Nth(I, p)] = head /\ s[Nth(I, p) + 1] = tail
  BY <1>1, <1>2, <1>3
<1>5. Len(s) \in Nat /\ \A x \in I : x \in 1..Len(s)
  OBVIOUS
<1>6. Nth(I, p) \in 1..Len(s) /\ Nth(I, p) + 1 \in 1..Len(s)
  BY <1>4, <1>5, Zenon
<1>7. Nth(I, p) < Len(s)
  BY <1>5, <1>6
<1> QED  BY <1>4, <1>7 DEF Tag

\* Of a span that is left, both tags were there, in that order.
LEMMA RetainedSpan ==
  ASSUME NEW s \in Seq(Tokens), NEW I \in SUBSET (1..Len(s)), KeepsTags(s, I), ~Split(s),
         NEW r, r = Retained(s, I), NEW tail \in Tails, Span(r, tail)
  PROVE  \E x, y \in I : x < y /\ Tag(s, x, "<", tail) /\ Tag(s, y, "</", tail)
<1>1. PICK p, q \in 1..Len(r) : p < q /\ Tag(r, p, "<", tail) /\ Tag(r, q, "</", tail)
  BY DEF Span
<1>2. "<" \in Heads /\ "</" \in Heads
  BY DEF Heads
<1>3. Nth(I, p) \in I /\ Tag(s, Nth(I, p), "<", tail)
  BY <1>1, <1>2, RetainedTag
<1>4. Nth(I, q) \in I /\ Tag(s, Nth(I, q), "</", tail)
  BY <1>1, <1>2, RetainedTag
<1>5. Nth(I, p) < Nth(I, q)
  <2>1. /\ \A k \in 1..Len(r) : Nth(I, k) \in I /\ Rank(I, Nth(I, k)) = k
        /\ \A i, j \in I : i < j <=> Rank(I, i) < Rank(I, j)
    BY RetainedPlaces
  <2> QED  BY <1>1, <2>1
<1> QED  BY <1>3, <1>4, <1>5

\* Tags stay where only whole ones go.
LEMMA RetainedStay ==
  ASSUME NEW s \in Seq(Tokens), NEW I \in SUBSET (1..Len(s)), KeepsTags(s, I)
  PROVE  TagsStay(s, Retained(s, I))
<1> SUFFICES ASSUME ~Split(s)
             PROVE  /\ ~Split(Retained(s, I))
                    /\ \A tail \in Tails : Span(Retained(s, I), tail) => Span(s, tail)
  BY DEF TagsStay
<1>1. ~Split(Retained(s, I))
  BY RetainedTags
<1>2. ASSUME NEW tail \in Tails, Span(Retained(s, I), tail) PROVE Span(s, tail)
  <2>1. \E x, y \in I : x < y /\ Tag(s, x, "<", tail) /\ Tag(s, y, "</", tail)
    BY <1>2, RetainedSpan
  <2> QED  BY <2>1 DEF Span
<1> QED  BY <1>1, <1>2

\* Step by step.
LEMMA StayOn ==
  ASSUME NEW r, NEW s, NEW t, TagsStay(r, s), TagsStay(s, t) PROVE TagsStay(r, t)
<1> SUFFICES ASSUME ~Split(r)
             PROVE  ~Split(t) /\ \A tail \in Tails : Span(t, tail) => Span(r, tail)
  BY DEF TagsStay
<1>1. ~Split(s) /\ \A tail \in Tails : Span(s, tail) => Span(r, tail)
  BY DEF TagsStay
<1>2. ~Split(t) /\ \A tail \in Tails : Span(t, tail) => Span(s, tail)
  BY <1>1 DEF TagsStay
<1> QED  BY <1>1, <1>2
LEMMA StayAtFirst == ASSUME NEW r PROVE TagsStay(r, r)
BY DEF TagsStay

\* So they do where nothing of a tag goes.
LEMMA OthersGo ==
  ASSUME NEW s \in Seq(Tokens), NEW I \in SUBSET (1..Len(s)),
         \A x \in 1..Len(s) : x \notin I => s[x] \notin Halves
  PROVE  TagsStay(s, Retained(s, I))
<1>1. Len(s) \in Nat
  OBVIOUS
<1>2. KeepsTags(s, I)
  BY <1>1 DEF KeepsTags, Halves
<1> QED  BY <1>2, RetainedStay

\* Taking line ends and objects on a line of their own away leaves the others as they
\* stand: none of them becomes alone, and no name gets an object that it did not have.
LEMMA RetainedClean ==
  ASSUME NEW s \in Seq(Tokens), NEW I \in SUBSET (1..Len(s)), Echoes(s) = {},
         \A i \in 1..Len(s) : i \notin I => s[i] = "nl" \/ Leak(s, i),
         \A i \in I : ~Leak(s, i)
  PROVE  Leakless(Retained(s, I)) /\ Echoes(Retained(s, I)) = {}
<1> DEFINE r == Retained(s, I)
<1>1. /\ Len(r) \in Nat
      /\ \A k \in 1..Len(r) : Nth(I, k) \in I /\ Rank(I, Nth(I, k)) = k /\ r[k] = s[Nth(I, k)]
      /\ \A i \in I : Rank(I, i) \in 1..Len(r) /\ r[Rank(I, i)] = s[i]
      /\ \A i, j \in I : i < j <=> Rank(I, i) < Rank(I, j)
      /\ \A i \in I : i + 1 \in I => Rank(I, i + 1) = Rank(I, i) + 1
  BY RetainedPlaces
<1>2. Len(s) \in Nat /\ \A i \in 1..Len(s) : i \in Int
  OBVIOUS
<1> HIDE DEF r
<1>3. ASSUME NEW i \in 1..Len(s), s[i] # "nl", i + 1 \in 1..Len(s), s[i + 1] # "nl"
      PROVE  i \in I /\ i + 1 \in I
  <2>1. ~Leak(s, i)
    BY <1>2, <1>3 DEF Leak, AloneOnLine
  <2>2. ~Leak(s, i + 1)
    BY <1>2, <1>3 DEF Leak, AloneOnLine
  <2> QED  BY <1>3, <2>1, <2>2
<1>4. ASSUME NEW k \in 1..Len(r) PROVE ~Leak(r, k)
  <2> DEFINE i == Nth(I, k)
  <2>1. i \in I /\ Rank(I, i) = k /\ r[k] = s[i] /\ i \in 1..Len(s) /\ k \in Int
    <3>1. i \in I /\ Rank(I, i) = k /\ r[k] = s[i]
      BY <1>1
    <3> HIDE DEF i
    <3> QED  BY <1>1, <3>1
  <2> HIDE DEF i
  <2>2. SUFFICES ASSUME Leak(r, k) PROVE FALSE
    OBVIOUS
  <2>3. s[i] = "object" /\ (k = 1 \/ r[k - 1] = "nl") /\ (k = Len(r) \/ r[k + 1] = "nl")
    BY <2>1, <2>2 DEF Leak, AloneOnLine
  <2>4. ~AloneOnLine(s, i)
    BY <2>1, <2>3 DEF Leak
  <2>5. CASE i # 1 /\ s[i - 1] # "nl"
    <3>1. i - 1 \in 1..Len(s) /\ (i - 1) + 1 = i
      BY <1>2, <2>1, <2>5
    <3>2. i - 1 \in I
      BY <1>3, <2>1, <2>3, <2>5, <3>1
    <3>3. Rank(I, i - 1) \in 1..Len(r) /\ r[Rank(I, i - 1)] = s[i - 1] /\ k = Rank(I, i - 1) + 1
      BY <1>1, <2>1, <3>1, <3>2
    <3>4. k # 1 /\ r[k - 1] # "nl"
      BY <1>1, <2>5, <3>3
    <3> QED  BY <2>3, <3>4
  <2>6. CASE i # Len(s) /\ s[i + 1] # "nl"
    <3>1. i + 1 \in 1..Len(s)
      BY <1>2, <2>1, <2>6
    <3>2. i + 1 \in I
      BY <1>3, <2>1, <2>3, <2>6, <3>1
    <3>3. Rank(I, i + 1) \in 1..Len(r) /\ r[Rank(I, i + 1)] = s[i + 1] /\ Rank(I, i + 1) = k + 1
      BY <1>1, <2>1, <3>2
    <3>4. k # Len(r) /\ r[k + 1] # "nl"
      BY <1>1, <2>1, <2>6, <3>3
    <3> QED  BY <2>3, <3>4
  <2> QED  BY <2>4, <2>5, <2>6 DEF AloneOnLine
<1>5. ASSUME NEW a \in 1..Len(r), NEW b \in 1..Len(r), IsEcho(r, a, b) PROVE FALSE
  <2> DEFINE i == Nth(I, a)
             j == Nth(I, b)
             X == {x \in 1..Len(s) : i < x /\ s[x] # "nl"}
  <2>1. /\ i \in I /\ Rank(I, i) = a /\ r[a] = s[i] /\ i \in 1..Len(s)
        /\ j \in I /\ Rank(I, j) = b /\ r[b] = s[j] /\ j \in 1..Len(s)
    BY <1>1
  <2>2. /\ a < b /\ r[a] = "name:" /\ r[b] \in JsonObjects /\ \A k \in a + 1..b - 1 : r[k] = "nl"
        /\ (b < Len(r) => r[b + 1] = "nl")
    BY <1>5 DEF IsEcho
  <2> HIDE DEF i, j
  <2>3. i < j /\ r[b] # "nl"
    BY <1>1, <2>1, <2>2 DEF JsonObjects
  <2>4. j \in X /\ X \in SUBSET Nat
    BY <1>2, <2>1, <2>3
  <2>5. PICK x \in X : \A y \in X : x <= y
    BY <2>4, LeastNat
  <2>6. x \in 1..Len(s) /\ i < x /\ s[x] # "nl" /\ x <= j
    BY <2>4, <2>5
  <2>7. \A y \in i + 1..x - 1 : s[y] = "nl"
    <3>1. SUFFICES ASSUME NEW y \in i + 1..x - 1, s[y] # "nl" PROVE FALSE
      OBVIOUS
    <3>2. i \in Nat /\ x \in Nat /\ y \in Nat /\ y \in 1..Len(s) /\ i < y /\ y < x
      BY <1>2, <2>1, <2>6
    <3>3. y \in X
      BY <3>1, <3>2
    <3> QED  BY <2>5, <3>2, <3>3
  <2>8. s[i] = "name:"
    BY <2>1, <2>2
  <2>9. x \in I
    <3>1. SUFFICES ASSUME x \notin I PROVE FALSE
      OBVIOUS
    <3>2. Leak(s, x)
      BY <2>6, <3>1
    <3>3. s[x] = "object" /\ (x < Len(s) => s[x + 1] = "nl")
      BY <1>2, <2>6, <3>2 DEF Leak, AloneOnLine
    <3>4. IsEcho(s, i, x)
      BY <2>6, <2>7, <2>8, <3>3 DEF IsEcho, JsonObjects
    <3>5. <<i, x>> \in Echoes(s)
      BY <2>1, <2>6, <3>4 DEF Echoes
    <3> QED  BY <3>5
  <2>10. x = j
    <3> DEFINE k == Rank(I, x)
    <3>1. k \in 1..Len(r) /\ r[k] = s[x] /\ a < k
      BY <1>1, <2>1, <2>6, <2>9
    <3>2. ~(x < j)
      <4>1. SUFFICES ASSUME x < j PROVE FALSE
        OBVIOUS
      <4>2. k < b
        BY <1>1, <2>1, <2>9, <4>1
      <4>3. k \in a + 1..b - 1
        BY <3>1, <4>2
      <4> QED  BY <2>2, <2>6, <3>1, <4>3
    <3> QED  BY <1>2, <2>1, <2>6, <3>2
  <2>11. ASSUME j < Len(s) PROVE s[j + 1] = "nl"
    <3>1. SUFFICES ASSUME s[j + 1] # "nl" PROVE FALSE
      OBVIOUS
    <3>2. j + 1 \in 1..Len(s)
      BY <1>2, <2>1, <2>11
    <3>3. j + 1 \in I
      BY <1>3, <2>1, <2>3, <3>1, <3>2
    <3>4. Rank(I, j + 1) = b + 1 /\ b + 1 \in 1..Len(r) /\ r[b + 1] = s[j + 1]
      BY <1>1, <2>1, <3>3
    <3>5. b < Len(r)
      BY <1>1, <3>4
    <3> QED  BY <2>2, <3>1, <3>4, <3>5
  <2>12. IsEcho(s, i, j)
    BY <2>1, <2>2, <2>3, <2>7, <2>8, <2>10, <2>11 DEF IsEcho
  <2>13. <<i, j>> \in Echoes(s)
    BY <2>1, <2>12 DEF Echoes
  <2> QED  BY <2>13
<1>6. ASSUME NEW e \in Echoes(r) PROVE FALSE
  BY <1>5, <1>6 DEF Echoes
<1> QED  BY <1>4, <1>6 DEF Leakless, r

\* j is the first place of a tag from i on, or 0 if there is none.
FirstFrom(text, i, head, tail, j) ==
  \/ j = 0 /\ \A k \in i..Len(text) : ~Tag(text, k, head, tail)
  \/ j \in i..Len(text) /\ Tag(text, j, head, tail) /\ \A k \in i..j - 1 : ~Tag(text, k, head, tail)

\* The next tag is the first one.
LEMMA NextIsFirst ==
  ASSUME NEW text \in Seq(Tokens), NEW i \in Nat, NEW head, NEW tail
  PROVE  FirstFrom(text, i, head, tail, NextTag(text, i, head, tail))
<1> DEFINE j == NextTag(text, i, head, tail)
           places == {k \in i..Len(text) : Tag(text, k, head, tail)}
<1>1. j = IF places = {} THEN 0 ELSE CHOOSE x \in places : \A k \in places : x <= k
  BY DEF NextTag
<1>2. Len(text) \in Nat
  OBVIOUS
<1>3. places \in SUBSET Nat
  BY <1>2
<1> HIDE DEF j
<1>4. CASE places = {}
  BY <1>1, <1>4 DEF FirstFrom, j
<1>5. CASE places # {}
  <2>1. \E x \in places : \A k \in places : x <= k
    BY <1>3, <1>5, LeastNat
  <2>2. j \in places /\ \A k \in places : j <= k
    BY <1>1, <1>5, <2>1
  <2>3. j \in i..Len(text) /\ Tag(text, j, head, tail)
    BY <2>2
  <2>4. ASSUME NEW k \in i..j - 1 PROVE ~Tag(text, k, head, tail)
    <3>1. k \in i..Len(text) /\ ~(j <= k)
      BY <1>2, <2>3
    <3>2. k \notin places
      BY <2>2, <3>1
    <3> QED  BY <3>1, <3>2
  <2> QED  BY <2>3, <2>4 DEF FirstFrom, j
<1> QED  BY <1>4, <1>5

\* What one look ahead from i keeps, given what g keeps from later places on.
KeptAt(g, i, text, tail) ==
  LET open == NextTag(text, i, "<", tail)
      close == NextTag(text, open + 2, "</", tail)
  IN IF open = 0 \/ close = 0 THEN i..Len(text) ELSE (i..open - 1) \cup g[close + 2]

\* g is what strip_spans keeps from each of the last n places on.
KeptBy(g, n, text, tail) ==
  g = [i \in Len(text) + 2 - n..Len(text) + 1 |-> KeptAt(g, i, text, tail)]

\* Where the look ahead from i finds a span, and where it goes on.
LEMMA SpanAhead ==
  ASSUME NEW text \in Seq(Tokens), NEW i \in Nat, i >= 1, NEW tail \in Tails,
         NEW open, open = NextTag(text, i, "<", tail),
         NEW close, close = NextTag(text, open + 2, "</", tail)
  PROVE  /\ FirstFrom(text, i, "<", tail, open) /\ open \in Nat
         /\ FirstFrom(text, open + 2, "</", tail, close) /\ close \in Nat
         /\ open # 0 /\ close # 0 =>
              /\ i <= open /\ open + 2 <= close /\ close + 2 <= Len(text) + 1
              /\ Tag(text, open, "<", tail) /\ Tag(text, close, "</", tail)
<1>1. Len(text) \in Nat
  OBVIOUS
<1>2. FirstFrom(text, i, "<", tail, open)
  BY NextIsFirst
<1>3. open \in Nat
  BY <1>1, <1>2 DEF FirstFrom
<1>4. open + 2 \in Nat
  BY <1>3
<1>5. FirstFrom(text, open + 2, "</", tail, close)
  BY <1>4, NextIsFirst
<1>6. close \in Nat
  BY <1>1, <1>4, <1>5 DEF FirstFrom
<1>7. ASSUME open # 0, close # 0
      PROVE  /\ open \in i..Len(text) /\ close \in open + 2..Len(text)
             /\ Tag(text, open, "<", tail) /\ Tag(text, close, "</", tail)
  BY <1>2, <1>5, <1>7 DEF FirstFrom
<1>8. ASSUME open # 0, close # 0
      PROVE  i <= open /\ open + 2 <= close /\ close + 2 <= Len(text) + 1
  <2>1. close < Len(text)
    BY <1>7, <1>8 DEF Tag
  <2> QED  BY <1>1, <1>3, <1>6, <1>7, <1>8, <2>1
<1> QED  BY <1>2, <1>3, <1>5, <1>6, <1>7, <1>8

\* What strip_spans keeps exists, of a text of any length.
LEMMA SomeKept ==
  ASSUME NEW text \in Seq(Tokens), NEW tail \in Tails, NEW n \in Nat, n <= Len(text) + 1
  PROVE  \E g : KeptBy(g, n, text, tail)
<1> DEFINE L == Len(text)
           Bad == {m \in Nat : m <= L + 1 /\ ~ \E g : KeptBy(g, m, text, tail)}
<1>0. L \in Nat
  OBVIOUS
<1> SUFFICES ASSUME Bad # {} PROVE FALSE
  OBVIOUS
<1>1. PICK m \in Bad : \A x \in Bad : m <= x
  BY LeastNat
<1>2. m \in Nat /\ m <= L + 1 /\ ~ \E g : KeptBy(g, m, text, tail)
  OBVIOUS
<1> HIDE DEF L
<1>3. CASE m = 0
  <2> DEFINE g == [i \in L + 2..L + 1 |-> {}]
  <2>1. L + 2..L + 1 = {} /\ L + 2 - 0 = L + 2
    BY <1>0
  <2>2. g = [i \in L + 2 - 0..L + 1 |-> KeptAt(g, i, text, tail)]
    BY <2>1
  <2> HIDE DEF g
  <2> QED  BY <1>2, <1>3, <2>2 DEF KeptBy, L
<1>4. CASE m # 0
  <2>1. m - 1 \in Nat /\ ~(m <= m - 1) /\ m - 1 <= L + 1
    BY <1>0, <1>2, <1>4
  <2>2. m - 1 \notin Bad
    BY <1>1, <2>1
  <2>3. PICK h : KeptBy(h, m - 1, text, tail)
    BY <2>1, <2>2
  <2> DEFINE g == [i \in L + 2 - m..L + 1 |-> KeptAt(h, i, text, tail)]
  <2>4. h = [i \in L + 2 - (m - 1)..L + 1 |-> KeptAt(h, i, text, tail)]
    BY <2>3 DEF KeptBy, L
  <2>5. ASSUME NEW i \in L + 2 - (m - 1)..L + 1 PROVE h[i] = g[i]
    <3>1. i \in L + 2 - m..L + 1
      BY <1>0, <1>2, <2>5
    <3> QED  BY <2>4, <3>1
  <2>6. ASSUME NEW i \in L + 2 - m..L + 1
        PROVE  KeptAt(h, i, text, tail) = KeptAt(g, i, text, tail)
    <3> DEFINE open == NextTag(text, i, "<", tail)
               close == NextTag(text, open + 2, "</", tail)
    <3>1. i \in Nat /\ i >= 1
      BY <1>0, <1>2, <2>6
    <3>2. open # 0 /\ close # 0 => i <= open /\ open + 2 <= close /\ close + 2 <= L + 1
      BY <3>1, SpanAhead DEF L
    <3>3. open \in Nat /\ close \in Nat
      BY <3>1, SpanAhead
    <3> HIDE DEF open, close, g
    <3>4. ASSUME open # 0, close # 0 PROVE h[close + 2] = g[close + 2]
      <4>1. close + 2 \in L + 2 - (m - 1)..L + 1
        BY <1>0, <1>2, <2>6, <3>2, <3>3, <3>4
      <4> QED  BY <2>5, <4>1
    <3>5. CASE open = 0 \/ close = 0
      BY <3>5 DEF KeptAt, open, close
    <3>6. CASE open # 0 /\ close # 0
      <4>1. KeptAt(h, i, text, tail) = (i..open - 1) \cup h[close + 2]
        BY <3>6 DEF KeptAt, open, close
      <4>2. KeptAt(g, i, text, tail) = (i..open - 1) \cup g[close + 2]
        BY <3>6 DEF KeptAt, open, close
      <4> QED  BY <3>4, <3>6, <4>1, <4>2
    <3> QED  BY <3>5, <3>6
  <2>7. g = [i \in L + 2 - m..L + 1 |-> KeptAt(g, i, text, tail)]
    <3> DEFINE f == [i \in L + 2 - m..L + 1 |-> KeptAt(g, i, text, tail)]
    <3>1. \A i \in L + 2 - m..L + 1 : g[i] = f[i]
      <4> TAKE i \in L + 2 - m..L + 1
      <4>1. g[i] = KeptAt(h, i, text, tail)
        OBVIOUS
      <4> HIDE DEF g
      <4>2. f[i] = KeptAt(g, i, text, tail)
        OBVIOUS
      <4> QED  BY <2>6, <4>1, <4>2 DEF g
    <3>2. f = [i \in L + 2 - m..L + 1 |-> f[i]] /\ g = [i \in L + 2 - m..L + 1 |-> g[i]]
      OBVIOUS
    <3> HIDE DEF g, f
    <3>3. g = f
      BY <3>1, <3>2
    <3> QED  BY <3>3 DEF f
  <2> HIDE DEF g
  <2> QED  BY <1>2, <2>7 DEF KeptBy, L
<1> QED  BY <1>3, <1>4

\* What a pass that resumes at i keeps: places from i on, whole tags, and no span.
KeptWell(K, i, text, tail) ==
  /\ K \subseteq i..Len(text)
  /\ \A x \in i..Len(text) :
       x < Len(text) /\ text[x] \in Heads /\ text[x + 1] \in Tails => (x \in K <=> x + 1 \in K)
  /\ ~ \E x, y \in K : x < y /\ Tag(text, x, "<", tail) /\ Tag(text, y, "</", tail)

\* If what is kept after the span is kept well, all is.
LEMMA LookAhead ==
  ASSUME NEW text \in Seq(Tokens), NEW i \in Nat, i >= 1, NEW tail \in Tails, NEW g,
         \A j \in Nat : j > i /\ j <= Len(text) + 1 => KeptWell(g[j], j, text, tail)
  PROVE  KeptWell(KeptAt(g, i, text, tail), i, text, tail)
<1> DEFINE open == NextTag(text, i, "<", tail)
           close == NextTag(text, open + 2, "</", tail)
           K == KeptAt(g, i, text, tail)
<1>1. Len(text) \in Nat
  OBVIOUS
<1>2. /\ FirstFrom(text, i, "<", tail, open) /\ open \in Nat
      /\ FirstFrom(text, open + 2, "</", tail, close) /\ close \in Nat
      /\ open # 0 /\ close # 0 =>
           /\ i <= open /\ open + 2 <= close /\ close + 2 <= Len(text) + 1
           /\ Tag(text, open, "<", tail) /\ Tag(text, close, "</", tail)
  BY SpanAhead
<1>3. K = IF open = 0 \/ close = 0 THEN i..Len(text) ELSE (i..open - 1) \cup g[close + 2]
  BY DEF KeptAt
<1>4. "<" \in Heads /\ "</" \in Heads /\ tail \notin Heads /\ \A h \in Heads : h \notin Tails
  BY DEF Heads, Tails
<1> HIDE DEF open, close, K
<1>5. CASE open = 0 \/ close = 0
  <2>1. K = i..Len(text)
    BY <1>3, <1>5
  <2>2. \A x \in i..Len(text) : x < Len(text) => x + 1 \in i..Len(text)
    BY <1>1
  <2>3. ASSUME NEW x \in i..Len(text), NEW y \in i..Len(text), x < y,
               Tag(text, x, "<", tail), Tag(text, y, "</", tail)
        PROVE  FALSE
    <3>1. open \in i..Len(text) /\ \A k \in i..open - 1 : ~Tag(text, k, "<", tail)
      BY <1>2, <1>5, <2>3 DEF FirstFrom
    <3>2. x \in Nat /\ y \in Nat /\ ~(x < open)
      BY <1>1, <1>2, <2>3, <3>1
    <3>3. Tag(text, open, "<", tail)
      BY <1>2, <3>1 DEF FirstFrom
    <3>4. y # open + 1
      BY <1>4, <2>3, <3>3 DEF Tag
    <3>5. y \in open + 2..Len(text)
      BY <1>1, <1>2, <2>3, <3>2, <3>4
    <3>6. close # 0
      BY <1>2, <2>3, <3>5 DEF FirstFrom
    <3> QED  BY <1>5, <3>1, <3>6
  <2> QED  BY <2>1, <2>2, <2>3 DEF KeptWell, K
<1>6. CASE open # 0 /\ close # 0
  <2> DEFINE j == close + 2
             R == g[j]
  <2>1. K = (i..open - 1) \cup R
    BY <1>3, <1>6
  <2>2. j \in Nat /\ j > i /\ j <= Len(text) + 1 /\ i <= open /\ open + 4 <= j
    BY <1>1, <1>2, <1>6
  <2>3. KeptWell(R, j, text, tail)
    BY <2>2
  <2>4. /\ text[open] = "<" /\ text[open + 1] = tail
        /\ text[close] = "</" /\ text[close + 1] = tail
    BY <1>2, <1>6 DEF Tag
  <2>5. j - 1 = close + 1
    BY <1>2
  <2> HIDE DEF j, R
  <2>6. R \subseteq j..Len(text)
    BY <2>3 DEF KeptWell
  <2>7. K \subseteq i..Len(text)
    BY <1>1, <1>2, <2>1, <2>2, <2>6
  <2>8. ASSUME NEW x \in i..Len(text), x < Len(text), text[x] \in Heads, text[x + 1] \in Tails
        PROVE  x \in K <=> x + 1 \in K
    <3>1. x \in Nat /\ x + 1 # open
      BY <1>1, <1>4, <2>4, <2>8
    <3>2. x # j - 1
      BY <1>4, <2>4, <2>5, <2>8
    <3>3. CASE x < open
      <4>1. x \in i..open - 1 /\ x + 1 \in i..open - 1
        BY <1>2, <2>8, <3>1, <3>3
      <4> QED  BY <2>1, <4>1
    <3>4. CASE open <= x /\ x < j
      <4>1. x \notin i..open - 1 /\ x + 1 \notin i..open - 1
        BY <1>2, <3>1, <3>4
      <4>2. x \notin j..Len(text) /\ x + 1 \notin j..Len(text)
        BY <1>1, <2>2, <3>1, <3>2, <3>4
      <4> QED  BY <2>1, <2>6, <4>1, <4>2
    <3>5. CASE j <= x
      <4>1. x \in j..Len(text)
        BY <1>1, <2>2, <2>8, <3>1, <3>5
      <4>2. x \in R <=> x + 1 \in R
        BY <2>3, <2>8, <4>1 DEF KeptWell
      <4>3. x \notin i..open - 1 /\ x + 1 \notin i..open - 1
        BY <1>2, <2>2, <3>1, <3>5
      <4> QED  BY <2>1, <4>2, <4>3
    <3> QED  BY <1>2, <2>2, <3>1, <3>3, <3>4, <3>5
  <2>9. ASSUME NEW x \in K, NEW y \in K, x < y, Tag(text, x, "<", tail), Tag(text, y, "</", tail)
        PROVE  FALSE
    <3>1. x \notin i..open - 1
      BY <1>2, <1>6, <2>9 DEF FirstFrom
    <3>2. x \in R
      BY <2>1, <2>9, <3>1
    <3>3. y \in R
      <4>1. x \in j..Len(text) /\ y \in i..Len(text)
        BY <2>6, <2>7, <2>9, <3>2
      <4>2. y \notin i..open - 1
        BY <1>1, <1>2, <2>2, <2>9, <4>1
      <4> QED  BY <2>1, <2>9, <4>2
    <3> QED  BY <2>3, <2>9, <3>2, <3>3 DEF KeptWell
  <2> QED  BY <2>7, <2>8, <2>9 DEF KeptWell, K
<1> QED  BY <1>5, <1>6

\* A pass over the whole text keeps it well.
LEMMA PassKeeps ==
  ASSUME NEW text \in Seq(Tokens), NEW tail \in Tails
  PROVE  KeptWell(KeptFrom(text, tail)[1], 1, text, tail)
<1> DEFINE L == Len(text)
           kept == KeptFrom(text, tail)
<1>1. L \in Nat
  OBVIOUS
<1>2. kept = CHOOSE g : g = [i \in 1..L + 1 |-> KeptAt(g, i, text, tail)]
  BY DEF KeptFrom, KeptAt
<1>3. \E g : g = [i \in 1..L + 1 |-> KeptAt(g, i, text, tail)]
  <2>1. L + 1 \in Nat /\ L + 2 - (L + 1) = 1
    BY <1>1
  <2>2. \E g : KeptBy(g, L + 1, text, tail)
    BY <1>1, <2>1, SomeKept
  <2> QED  BY <2>1, <2>2 DEF KeptBy
<1>4. kept = [i \in 1..L + 1 |-> KeptAt(kept, i, text, tail)]
  BY <1>2, <1>3
<1> DEFINE Bad == {d \in Nat : d <= L /\ ~KeptWell(kept[L + 1 - d], L + 1 - d, text, tail)}
<1> HIDE DEF kept
<1>5. SUFFICES ASSUME L \in Bad PROVE FALSE
  <2>1. L + 1 - L = 1
    BY <1>1
  <2> QED  BY <1>1, <2>1 DEF kept
<1>6. PICK d \in Bad : \A x \in Bad : d <= x
  BY <1>5, LeastNat
<1>7. d \in Nat /\ d <= L /\ ~KeptWell(kept[L + 1 - d], L + 1 - d, text, tail)
  BY <1>6
<1>8. ASSUME NEW j \in Nat, j > L + 1 - d, j <= L + 1 PROVE KeptWell(kept[j], j, text, tail)
  <2>1. L + 1 - j \in Nat /\ ~(d <= L + 1 - j) /\ L + 1 - j <= L /\ L + 1 - (L + 1 - j) = j
    BY <1>1, <1>7, <1>8
  <2>2. L + 1 - j \notin Bad
    BY <1>6, <2>1
  <2> QED  BY <2>1, <2>2
<1>9. L + 1 - d \in Nat /\ L + 1 - d >= 1 /\ L + 1 - d \in 1..L + 1
  BY <1>1, <1>7
<1>10. kept[L + 1 - d] = KeptAt(kept, L + 1 - d, text, tail)
  BY <1>4, <1>9
<1>11. KeptWell(KeptAt(kept, L + 1 - d, text, tail), L + 1 - d, text, tail)
  BY <1>8, <1>9, LookAhead
<1> QED  BY <1>7, <1>10, <1>11

\* Of a text whose tags are whole, strip_spans leaves no span of its tags and makes none
\* of others.
LEMMA SpansGo ==
  ASSUME NEW text \in Seq(Tokens), NEW tail \in Tails, NEW w, w = StripSpans(text, tail)
  PROVE  /\ w \in Seq(Tokens) /\ TagsStay(text, w)
         /\ ~Split(text) => ~Span(w, tail)
<1> DEFINE K == KeptFrom(text, tail)[1]
<1>1. w = Retained(text, K)
  BY DEF StripSpans
<1>2. KeptWell(K, 1, text, tail)
  BY PassKeeps
<1> HIDE DEF K
<1>3. K \in SUBSET (1..Len(text)) /\ KeepsTags(text, K)
  BY <1>2 DEF KeptWell, KeepsTags
<1>4. w \in Seq(Tokens)
  BY <1>1, <1>3, RetainedPlaces
<1>5. TagsStay(text, w)
  BY <1>1, <1>3, RetainedStay
<1>6. ASSUME ~Split(text), Span(w, tail) PROVE FALSE
  <2>1. \E x, y \in K : x < y /\ Tag(text, x, "<", tail) /\ Tag(text, y, "</", tail)
    BY <1>1, <1>3, <1>6, RetainedSpan
  <2> QED  BY <1>2, <2>1 DEF KeptWell
<1> QED  BY <1>4, <1>5, <1>6

\* Of a text some places are cut out that hold nothing of a tag: it gets shorter, and
\* its tags stay.
LEMMA CutOut ==
  ASSUME NEW text \in Seq(Tokens), NEW i \in 1..Len(text), NEW j, i <= j, j \in Int,
         \A k \in i..j : k \in 1..Len(text) => text[k] \notin Halves,
         NEW w, w = Retained(text, 1..Len(text) \ i..j)
  PROVE  w \in Seq(Tokens) /\ Len(w) < Len(text) /\ TagsStay(text, w)
<1> DEFINE I == 1..Len(text) \ i..j
<1>1. Len(text) \in Nat /\ i \in Nat /\ i \in i..j
  OBVIOUS
<1>2. I \in SUBSET (1..Len(text)) /\ i \notin I
  BY <1>1
<1>3. IsFiniteSet(1..Len(text)) /\ Cardinality(1..Len(text)) = Len(text)
  BY <1>1, FS_Interval
<1>4. IsFiniteSet(I) /\ Cardinality(I) <= Len(text) /\ Cardinality(I) # Len(text)
  <2>1. I # 1..Len(text)
    BY <1>2
  <2> QED  BY <1>2, <1>3, <2>1, FS_Subset
<1>5. w \in Seq(Tokens) /\ Len(w) = Cardinality(I) /\ Len(w) \in Nat
  BY <1>2, RetainedPlaces
<1>6. TagsStay(text, w)
  <2>1. \A x \in 1..Len(text) : x \notin I => text[x] \notin Halves
    OBVIOUS
  <2> QED  BY <1>2, <2>1, OthersGo
<1>7. Len(w) < Len(text)
  <2> HIDE DEF I
  <2> QED  BY <1>1, <1>4, <1>5
<1> QED  BY <1>5, <1>6, <1>7

-------------------------------------------------------------------------------
(* Echoes of a result.                                                      *)

\* The first echo goes, if there is one.
LEMMA EchoRound ==
  ASSUME NEW text \in Seq(Tokens), NEW w, w = WithoutEcho(text)
  PROVE  /\ w \in Seq(Tokens)
         /\ Echoes(text) = {} => w = text
         /\ Echoes(text) # {} => Len(w) < Len(text)
         /\ TagsStay(text, w)
<1>1. CASE Echoes(text) = {}
  BY <1>1, StayAtFirst DEF WithoutEcho
<1>2. CASE Echoes(text) # {}
  <2> DEFINE P(e) == \A f \in Echoes(text) : e[1] <= f[1]
             e == CHOOSE e \in Echoes(text) : P(e)
             starts == {f[1] : f \in Echoes(text)}
  <2>1. \A f \in Echoes(text) : f[1] \in 1..Len(text) /\ f[2] \in 1..Len(text) /\ f[1] < f[2]
    BY DEF Echoes, IsEcho
  <2>2. Len(text) \in Nat
    OBVIOUS
  <2>3. starts \in SUBSET Nat /\ starts # {}
    BY <1>2, <2>1, <2>2
  <2>4. PICK x \in starts : \A y \in starts : x <= y
    BY <2>3, LeastNat
  <2>5. \E f \in Echoes(text) : P(f)
    BY <2>4
  <2>6. e \in Echoes(text)
    BY <2>5
  <2>7. w = Retained(text, 1..Len(text) \ e[1]..e[2])
    BY <1>2 DEF WithoutEcho
  <2> HIDE DEF e
  <2>8. e[1] \in 1..Len(text) /\ e[1] <= e[2] /\ e[2] \in Int
    BY <2>1, <2>2, <2>6
  <2>9. ASSUME NEW k \in e[1]..e[2], k \in 1..Len(text) PROVE text[k] \notin Halves
    <3>1. IsEcho(text, e[1], e[2])
      BY <2>6 DEF Echoes
    <3>2. k = e[1] \/ k = e[2] \/ k \in e[1] + 1..e[2] - 1
      BY <2>2, <2>8, <2>9
    <3>3. text[k] = "name:" \/ text[k] \in JsonObjects \/ text[k] = "nl"
      BY <3>1, <3>2 DEF IsEcho
    <3> QED  BY <3>3 DEF JsonObjects, Halves, Heads, Tails
  <2> QED  BY <1>2, <2>7, <2>8, <2>9, CutOut
<1> QED  BY <1>1, <1>2

\* g is what is left after each of n rounds.
EchoRounds(g, n, text) ==
  g = [k \in 0..n |-> IF k = 0 THEN text ELSE WithoutEcho(g[k - 1])]

\* The rounds of the loop over echoes exist, however many.
LEMMA SomeEchoRounds ==
  ASSUME NEW text, NEW n \in Nat
  PROVE  \E g : EchoRounds(g, n, text)
<1> DEFINE Bad == {m \in Nat : ~ \E g : EchoRounds(g, m, text)}
<1> SUFFICES ASSUME Bad # {} PROVE FALSE
  OBVIOUS
<1>1. PICK m \in Bad : \A x \in Bad : m <= x
  BY LeastNat
<1>2. m \in Nat /\ ~ \E g : EchoRounds(g, m, text)
  OBVIOUS
<1>3. CASE m = 0
  <2> DEFINE g == [k \in 0..0 |-> text]
  <2>1. \A k \in 0..0 : k = 0
    OBVIOUS
  <2>2. g = [k \in 0..0 |-> IF k = 0 THEN text ELSE WithoutEcho(g[k - 1])]
    BY <2>1
  <2> HIDE DEF g
  <2> QED  BY <1>2, <1>3, <2>2 DEF EchoRounds
<1>4. CASE m # 0
  <2>1. m - 1 \in Nat /\ ~(m <= m - 1)
    BY <1>2, <1>4
  <2>2. m - 1 \notin Bad
    BY <1>1, <2>1
  <2>3. PICK h : EchoRounds(h, m - 1, text)
    BY <2>1, <2>2
  <2> DEFINE E(k) == IF k = 0 THEN text ELSE WithoutEcho(h[k - 1])
             g == [k \in 0..m |-> E(k)]
  <2>4. h = [k \in 0..m - 1 |-> E(k)]
    BY <2>3 DEF EchoRounds
  <2>5. ASSUME NEW k \in 0..m, k # 0 PROVE h[k - 1] = g[k - 1]
    <3>1. k - 1 \in 0..m - 1 /\ k - 1 \in 0..m
      BY <1>2, <2>5
    <3> HIDE DEF E
    <3> QED  BY <2>4, <3>1
  <2>6. g = [k \in 0..m |-> IF k = 0 THEN text ELSE WithoutEcho(g[k - 1])]
    BY <2>5
  <2> HIDE DEF g
  <2> QED  BY <1>2, <2>6 DEF EchoRounds
<1> QED  BY <1>3, <1>4

\* The loop leaves no echo, and makes no span.
LEMMA EchoesGo ==
  ASSUME NEW text \in Seq(Tokens)
  PROVE  /\ StripEchoes(text) \in Seq(Tokens) /\ Echoes(StripEchoes(text)) = {}
         /\ TagsStay(text, StripEchoes(text))
<1> DEFINE n == Len(text)
           left == EchoesLeft(text)
<1>1. n \in Nat
  OBVIOUS
<1>2. left = CHOOSE g : EchoRounds(g, n, text)
  BY DEF EchoesLeft, EchoRounds
<1>3. EchoRounds(left, n, text)
  BY <1>1, <1>2, SomeEchoRounds
<1>4. left = [k \in 0..n |-> IF k = 0 THEN text ELSE WithoutEcho(left[k - 1])]
  BY <1>3 DEF EchoRounds
<1> DEFINE Good(k) == /\ left[k] \in Seq(Tokens)
                      /\ Echoes(left[k]) = {} \/ Len(left[k]) <= n - k
                      /\ TagsStay(text, left[k])
           Bad == {k \in 0..n : ~Good(k)}
<1> HIDE DEF left, n
<1>5. Good(n)
  <2>0. n \in 0..n
    BY <1>1
  <2> SUFFICES ASSUME n \in Bad PROVE FALSE
    BY <2>0
  <2>1. Bad \in SUBSET Nat /\ Bad # {}
    <3> HIDE DEF Good
    <3> QED  BY <1>1
  <2>2. PICK k \in Bad : \A x \in Bad : k <= x
    BY <2>1, LeastNat
  <2>3. k \in 0..n /\ k \in Nat /\ ~Good(k)
    BY <2>1, <2>2
  <2>4. CASE k = 0
    <3>1. left[k] = text
      BY <1>4, <2>3, <2>4
    <3>2. Len(text) <= n - 0
      BY <1>1 DEF n
    <3>3. TagsStay(text, left[k])
      BY <3>1, StayAtFirst
    <3> QED  BY <2>3, <2>4, <3>1, <3>2, <3>3
  <2>5. CASE k # 0
    <3>1. k - 1 \in 0..n /\ ~(k <= k - 1)
      BY <1>1, <2>3, <2>5
    <3>2. Good(k - 1)
      BY <2>2, <3>1
    <3>3. left[k] = WithoutEcho(left[k - 1])
      BY <1>4, <2>3, <2>5
    <3>4. /\ left[k] \in Seq(Tokens)
          /\ Echoes(left[k - 1]) = {} => left[k] = left[k - 1]
          /\ Echoes(left[k - 1]) # {} => Len(left[k]) < Len(left[k - 1])
          /\ TagsStay(left[k - 1], left[k])
      BY <3>2, <3>3, EchoRound
    <3>5. Echoes(left[k - 1]) = {} \/ Len(left[k - 1]) <= n - (k - 1)
      BY <3>2
    <3>6. Len(left[k - 1]) \in Nat /\ Len(left[k]) \in Nat
      BY <3>2, <3>4
    <3>7. Echoes(left[k]) = {} \/ Len(left[k]) <= n - k
      <4>1. CASE Echoes(left[k - 1]) = {}
        BY <3>4, <4>1
      <4>2. CASE Echoes(left[k - 1]) # {}
        BY <1>1, <2>3, <3>4, <3>5, <3>6, <4>2
      <4> QED  BY <4>1, <4>2
    <3>8. TagsStay(text, left[k])
      BY <3>2, <3>4, StayOn
    <3> QED  BY <2>3, <3>4, <3>7, <3>8
  <2> QED  BY <2>4, <2>5
<1>6. Echoes(left[n]) = {}
  <2>1. SUFFICES ASSUME Len(left[n]) <= n - n PROVE Echoes(left[n]) = {}
    BY <1>5
  <2>2. Len(left[n]) = 0
    BY <1>1, <1>5, <2>1
  <2>3. 1..Len(left[n]) = {}
    BY <2>2
  <2> QED  BY <2>3 DEF Echoes
<1>7. StripEchoes(text) = left[n]
  BY DEF StripEchoes, left, n
<1> QED  BY <1>5, <1>6, <1>7

-------------------------------------------------------------------------------
(* Lines that are nothing but an object, and line ends.                      *)

\* The lines that are nothing but an object go with their line ends, and leave no
\* echo, no span and no such line behind.
LEMMA LeaksGo ==
  ASSUME NEW text \in Seq(Tokens), Echoes(text) = {}
  PROVE  /\ DropLeaks(text) \in Seq(Tokens)
         /\ Leakless(DropLeaks(text)) /\ Echoes(DropLeaks(text)) = {}
         /\ TagsStay(text, DropLeaks(text))
<1> DEFINE I == {i \in 1..Len(text) : ~Leak(text, i) /\ (i > 1 => ~Leak(text, i - 1))}
<1>1. DropLeaks(text) = Retained(text, I) /\ I \in SUBSET (1..Len(text))
  BY DEF DropLeaks
<1>2. \A i \in I : ~Leak(text, i)
  OBVIOUS
<1>3. ASSUME NEW i \in 1..Len(text), i \notin I PROVE text[i] = "nl" \/ Leak(text, i)
  <2>1. SUFFICES ASSUME ~Leak(text, i) PROVE text[i] = "nl"
    OBVIOUS
  <2>2. Len(text) \in Nat /\ i \in Nat /\ i > 1 /\ Leak(text, i - 1)
    BY <1>3, <2>1
  <2>3. i - 1 # Len(text) /\ (i - 1) + 1 = i
    BY <2>2
  <2> QED  BY <2>2, <2>3 DEF Leak, AloneOnLine
<1> HIDE DEF I
<1>4. \A i \in 1..Len(text) : i \notin I => text[i] \notin Halves
  BY <1>3 DEF Leak, Halves, Heads, Tails
<1>5. Leakless(DropLeaks(text)) /\ Echoes(DropLeaks(text)) = {}
  BY <1>1, <1>2, <1>3, RetainedClean
<1>6. TagsStay(text, DropLeaks(text))
  BY <1>1, <1>4, OthersGo
<1> QED  BY <1>1, <1>5, <1>6, RetainedPlaces

\* A filter that takes only line ends away keeps a clean text clean.
LEMMA LineEndsGo ==
  ASSUME NEW text \in Seq(Tokens), Leakless(text), Echoes(text) = {},
         NEW I \in SUBSET (1..Len(text)), \A i \in 1..Len(text) : i \notin I => text[i] = "nl",
         NEW w, w = Retained(text, I)
  PROVE  /\ w \in Seq(Tokens) /\ Leakless(w) /\ Echoes(w) = {}
         /\ TagsStay(text, w)
<1>1. \A i \in I : ~Leak(text, i)
  BY DEF Leakless
<1>2. Leakless(w) /\ Echoes(w) = {}
  BY <1>1, RetainedClean
<1>3. TagsStay(text, w)
  BY OthersGo DEF Halves, Heads, Tails
<1> QED  BY <1>2, <1>3, RetainedPlaces

\* trim takes line ends away at both ends.
LEMMA TrimmedClean ==
  ASSUME NEW text \in Seq(Tokens), Leakless(text), Echoes(text) = {}
  PROVE  /\ Trim(text) \in Seq(Tokens) /\ Leakless(Trim(text)) /\ Echoes(Trim(text)) = {}
         /\ TagsStay(text, Trim(text))
<1> DEFINE I == {i \in 1..Len(text) : /\ \E j \in 1..i : text[j] # "nl"
                                      /\ \E j \in i..Len(text) : text[j] # "nl"}
<1>1. Trim(text) = Retained(text, I) /\ I \in SUBSET (1..Len(text))
  BY DEF Trim
<1>2. ASSUME NEW i \in 1..Len(text), i \notin I PROVE text[i] = "nl"
  <2>1. i \in 1..i /\ i \in i..Len(text)
    OBVIOUS
  <2> QED  BY <1>2, <2>1
<1> HIDE DEF I
<1> QED  BY <1>1, <1>2, LineEndsGo

\* collapse_blank_lines takes line ends away that follow two others.
LEMMA CollapsedClean ==
  ASSUME NEW text \in Seq(Tokens), Leakless(text), Echoes(text) = {}
  PROVE  LET w == CollapseBlankLines(text) IN
         /\ w \in Seq(Tokens) /\ Leakless(w) /\ Echoes(w) = {}
         /\ TagsStay(text, w)
<1> DEFINE I == {i \in 1..Len(text) : i > 2 => \E j \in i - 2..i : text[j] # "nl"}
           w == Retained(text, I)
<1>1. CollapseBlankLines(text) = Trim(w) /\ I \in SUBSET (1..Len(text))
  BY DEF CollapseBlankLines
<1>2. ASSUME NEW i \in 1..Len(text), i \notin I PROVE text[i] = "nl"
  <2>1. i > 2 /\ i \in i - 2..i
    BY <1>2
  <2> QED  BY <1>2, <2>1
<1> HIDE DEF I
<1>3. /\ w \in Seq(Tokens) /\ Leakless(w) /\ Echoes(w) = {}
      /\ TagsStay(text, w)
  BY <1>1, <1>2, LineEndsGo
<1> HIDE DEF w
<1>4. /\ Trim(w) \in Seq(Tokens) /\ Leakless(Trim(w)) /\ Echoes(Trim(w)) = {}
      /\ TagsStay(w, Trim(w))
  BY <1>3, TrimmedClean
<1> QED  BY <1>1, <1>3, <1>4, StayOn

\* What sanitize_prose shows.
LEMMA SanitizedIsClean ==
  ASSUME NEW text \in Seq(Tokens)
  PROVE  LET w == SanitizeProse(text) IN
         /\ Leakless(w) /\ Echoes(w) = {}
         /\ ~Split(text) => \A tail \in Tails : ~Span(w, tail)
<1> DEFINE a == StripSpans(text, "tool_result>")
           b == StripSpans(a, "tool_call>")
           c == StripEchoes(b)
           d == DropLeaks(c)
           w == CollapseBlankLines(d)
<1>0. Tails = {"tool_result>", "tool_call>"}
  BY DEF Tails
<1>1. SanitizeProse(text) = w
  BY DEF SanitizeProse, Unspanned
<1>2. a \in Seq(Tokens) /\ TagsStay(text, a) /\ (~Split(text) => ~Span(a, "tool_result>"))
  BY <1>0, SpansGo
<1> HIDE DEF a
<1>3. b \in Seq(Tokens) /\ TagsStay(a, b) /\ (~Split(a) => ~Span(b, "tool_call>"))
  BY <1>0, <1>2, SpansGo
<1> HIDE DEF b
<1>4. c \in Seq(Tokens) /\ Echoes(c) = {} /\ TagsStay(b, c)
  BY <1>3, EchoesGo
<1> HIDE DEF c
<1>5. d \in Seq(Tokens) /\ Echoes(d) = {} /\ Leakless(d) /\ TagsStay(c, d)
  BY <1>4, LeaksGo
<1> HIDE DEF d
<1>6. Leakless(w) /\ Echoes(w) = {} /\ TagsStay(d, w)
  BY <1>5, CollapsedClean
<1> HIDE DEF w
<1>7. TagsStay(b, w)
  BY <1>4, <1>5, <1>6, StayOn
<1>8. ASSUME ~Split(text), NEW tail \in Tails, Span(w, tail) PROVE FALSE
  <2>1. ~Split(a) /\ ~Split(b)
    BY <1>2, <1>3, <1>8 DEF TagsStay
  <2>2. Span(b, tail)
    BY <1>7, <1>8, <2>1 DEF TagsStay
  <2>3. Span(a, tail)
    BY <1>3, <2>1, <2>2 DEF TagsStay
  <2> QED  BY <1>0, <1>2, <1>3, <1>8, <2>1, <2>2, <2>3
<1> QED  BY <1>1, <1>6, <1>8

-------------------------------------------------------------------------------
(* Calculations.                                                             *)

\* g is the accumulator, h the number without bounds, after each of n operands.
AccumulatorTo(g, n, a) ==
  g = [i \in 1..n |-> IF i = 1 THEN Number(a.operands[1]) ELSE Calc(a.op, g[i - 1], a.operands[i])]
ExactStep(op, r, x) ==
  CASE op = "add" -> r + x [] op = "sub" -> r - x [] op = "mul" -> r * x [] OTHER -> r \div x
ExactTo(h, n, a) ==
  h = [i \in 1..n |-> IF i = 1 THEN a.operands[1] ELSE ExactStep(a.op, h[i - 1], a.operands[i])]

\* The accumulator of run_calculate exists after any number of operands,
LEMMA SomeAccumulator ==
  ASSUME NEW a, NEW n \in Nat
  PROVE  \E g : AccumulatorTo(g, n, a)
<1> DEFINE Bad == {m \in Nat : ~ \E g : AccumulatorTo(g, m, a)}
<1> SUFFICES ASSUME Bad # {} PROVE FALSE
  OBVIOUS
<1>1. PICK m \in Bad : \A x \in Bad : m <= x
  BY LeastNat
<1>2. m \in Nat /\ ~ \E g : AccumulatorTo(g, m, a)
  OBVIOUS
<1> DEFINE E(f, i) == IF i = 1 THEN Number(a.operands[1]) ELSE Calc(a.op, f[i - 1], a.operands[i])
<1>3. ASSUME NEW h, \A i \in 1..m - 1 : h[i] = E(h, i) PROVE FALSE
  <2> DEFINE g == [i \in 1..m |-> E(h, i)]
  <2>1. ASSUME NEW i \in 1..m, i # 1 PROVE h[i - 1] = g[i - 1]
    <3>1. i - 1 \in 1..m - 1 /\ i - 1 \in 1..m
      BY <1>2, <2>1
    <3> HIDE DEF E
    <3> QED  BY <1>3, <3>1
  <2>2. g = [i \in 1..m |-> E(g, i)]
    BY <2>1
  <2> HIDE DEF g
  <2> QED  BY <1>2, <2>2 DEF AccumulatorTo
<1>4. CASE m = 0
  <2>1. 1..m - 1 = {}
    BY <1>4
  <2> QED  BY <1>3, <2>1
<1>5. CASE m # 0
  <2>1. m - 1 \in Nat /\ ~(m <= m - 1)
    BY <1>2, <1>5
  <2>2. PICK h : AccumulatorTo(h, m - 1, a)
    BY <1>1, <2>1
  <2>3. \A i \in 1..m - 1 : h[i] = E(h, i)
    BY <2>2 DEF AccumulatorTo
  <2> HIDE DEF E
  <2> QED  BY <1>3, <2>3
<1> QED  BY <1>4, <1>5

\* and so does the number without bounds.
LEMMA SomeExact ==
  ASSUME NEW a, NEW n \in Nat
  PROVE  \E h : ExactTo(h, n, a)
<1> DEFINE Bad == {m \in Nat : ~ \E h : ExactTo(h, m, a)}
<1> SUFFICES ASSUME Bad # {} PROVE FALSE
  OBVIOUS
<1>1. PICK m \in Bad : \A x \in Bad : m <= x
  BY LeastNat
<1>2. m \in Nat /\ ~ \E h : ExactTo(h, m, a)
  OBVIOUS
<1> DEFINE E(f, i) == IF i = 1 THEN a.operands[1] ELSE ExactStep(a.op, f[i - 1], a.operands[i])
<1>3. ASSUME NEW h, \A i \in 1..m - 1 : h[i] = E(h, i) PROVE FALSE
  <2> DEFINE g == [i \in 1..m |-> E(h, i)]
  <2>1. ASSUME NEW i \in 1..m, i # 1 PROVE h[i - 1] = g[i - 1]
    <3>1. i - 1 \in 1..m - 1 /\ i - 1 \in 1..m
      BY <1>2, <2>1
    <3> HIDE DEF E
    <3> QED  BY <1>3, <3>1
  <2>2. g = [i \in 1..m |-> E(g, i)]
    BY <2>1
  <2> HIDE DEF g
  <2> QED  BY <1>2, <2>2 DEF ExactTo
<1>4. CASE m = 0
  <2>1. 1..m - 1 = {}
    BY <1>4
  <2> QED  BY <1>3, <2>1
<1>5. CASE m # 0
  <2>1. m - 1 \in Nat /\ ~(m <= m - 1)
    BY <1>2, <1>5
  <2>2. PICK h : ExactTo(h, m - 1, a)
    BY <1>1, <2>1
  <2>3. \A i \in 1..m - 1 : h[i] = E(h, i)
    BY <2>2 DEF ExactTo
  <2> HIDE DEF E
  <2> QED  BY <1>3, <2>3
<1> QED  BY <1>4, <1>5

\* A call of calculate whose operands are numbers.
Calculation(a) ==
  /\ a.op \in {"add", "sub", "mul", "div"} /\ a.operands \in Seq(Int)
  /\ \A i \in 1..Len(a.operands) : Fits(a.operands[i])

\* While the accumulator is finite it is exact, and so it has been all the time.
LEMMA FiniteIsExact ==
  ASSUME NEW a, Calculation(a), ~DividesByZero(a), NEW i \in 1..Len(a.operands),
         Accumulated(a)[i].finite
  PROVE  /\ Accumulated(a)[i].n = Exact(a)[i]
         /\ \A k \in 1..i : Fits(Exact(a)[k])
<1> DEFINE n == Len(a.operands)
           g == Accumulated(a)
           h == Exact(a)
           Good(k) == g[k].finite => g[k].n = h[k] /\ \A x \in 1..k : Fits(h[x])
           Bad == {k \in 1..n : ~Good(k)}
<1>1. n \in Nat
  BY DEF Calculation
<1>2. g = CHOOSE f : AccumulatorTo(f, n, a)
  BY DEF Accumulated, AccumulatorTo
<1>3. AccumulatorTo(g, n, a)
  BY <1>1, <1>2, SomeAccumulator
<1>4. h = CHOOSE f : ExactTo(f, n, a)
  BY DEF Exact, ExactTo, ExactStep
<1>5. ExactTo(h, n, a)
  BY <1>1, <1>4, SomeExact
<1> HIDE DEF g, h
<1>6. ASSUME NEW k \in 1..n, k # 1
      PROVE  g[k] = Calc(a.op, g[k - 1], a.operands[k]) /\ h[k] = ExactStep(a.op, h[k - 1], a.operands[k])
  BY <1>3, <1>5, <1>6 DEF AccumulatorTo, ExactTo
<1>7. 1 \in 1..n => g[1] = Number(a.operands[1]) /\ h[1] = a.operands[1]
  BY <1>3, <1>5 DEF AccumulatorTo, ExactTo
<1>8. ASSUME i \in Bad PROVE FALSE
  <2>1. Bad \in SUBSET Nat
    <3> HIDE DEF Good
    <3> QED  BY <1>1
  <2>2. PICK k \in Bad : \A x \in Bad : k <= x
    BY <1>8, <2>1, LeastNat
  <2>3. k \in 1..n /\ k \in Nat /\ ~Good(k)
    BY <2>1, <2>2
  <2>4. CASE k = 1
    <3>1. g[1].n = h[1] /\ Fits(h[1])
      BY <1>7, <2>3, <2>4 DEF Number, Calculation
    <3>2. \A x \in 1..k : x = 1
      BY <2>4
    <3> QED  BY <2>3, <2>4, <3>1, <3>2
  <2>5. CASE k # 1
    <3>1. k - 1 \in 1..n /\ ~(k <= k - 1)
      BY <1>1, <2>3, <2>5
    <3>2. Good(k - 1)
      BY <2>2, <3>1
    <3>3. SUFFICES ASSUME g[k].finite PROVE g[k].n = h[k] /\ \A x \in 1..k : Fits(h[x])
      BY <2>3
    <3> DEFINE x == a.operands[k]
               op == a.op
    <3>4. op \in {"add", "sub", "mul", "div"} /\ ~(op = "div" /\ x = 0)
      <4>1. k \in 2..n
        BY <2>3, <2>5
      <4> QED  BY <4>1 DEF Calculation, DividesByZero
    <3>5. g[k] = Calc(op, g[k - 1], x) /\ h[k] = ExactStep(op, h[k - 1], x)
      BY <1>6, <2>3, <2>5
    <3> HIDE DEF x, op
    <3>6. /\ g[k - 1].finite /\ Fits(ExactStep(op, g[k - 1].n, x))
          /\ g[k] = Number(ExactStep(op, g[k - 1].n, x))
      <4> DEFINE r == CASE op = "add" -> g[k - 1].n + x [] op = "sub" -> g[k - 1].n - x
                        [] op = "mul" -> g[k - 1].n * x [] op = "div" /\ x # 0 -> g[k - 1].n \div x
      <4>1. g[k] = IF g[k - 1].finite /\ Fits(r) THEN Number(r) ELSE Infinite
        BY <3>5 DEF Calc
      <4>2. r = ExactStep(op, g[k - 1].n, x)
        BY <3>4 DEF ExactStep
      <4> HIDE DEF r
      <4>3. Infinite.finite = FALSE
        BY DEF Infinite
      <4> QED  BY <3>3, <4>1, <4>2, <4>3
    <3>7. g[k - 1].n = h[k - 1] /\ \A y \in 1..k - 1 : Fits(h[y])
      BY <3>2, <3>6
    <3>8. g[k].n = h[k] /\ Fits(h[k])
      BY <3>5, <3>6, <3>7 DEF Number
    <3>9. ASSUME NEW y \in 1..k PROVE y = k \/ y \in 1..k - 1
      BY <2>3
    <3> QED  BY <3>7, <3>8, <3>9
  <2> QED  BY <2>4, <2>5
<1>9. Good(i)
  BY <1>8
<1>10. g[i].finite
  BY DEF g
<1> QED  BY <1>9, <1>10 DEF g, h

-------------------------------------------------------------------------------
(* The doors.                                                                *)

\* ans answers r at a door: with the failure of its check, or with what was computed.
Served(ans, door, r, check, computed) ==
  /\ ans.door = door /\ ans.request = r
  /\ check # "ok" => ans.result = Failed(check)
  /\ check = "ok" /\ r.tool \notin Stateful => ans.result = computed

AtInterface(ans, r) ==
  Served(ans, "interface", r, UiParse(r.tool, r.args), UiExecute(r.tool, r.args))
AtModel(ans, r) ==
  Served(ans, "model", r, ValidateAndParse(r.tool, r.args), Execute(r.tool, r.args))

\* What may stand in `answer`.
AnswerSound(ans) ==
  \/ ans = Unanswered
  \/ \E text \in Texts : ans = Shown(text)
  \/ \E r \in Requests : r.tool \in ToolNames /\ AtInterface(ans, r)
  \/ \E r \in Requests : AtModel(ans, r)

\* A door answers the request as Served says.
LEMMA ServeAnswers ==
  ASSUME NEW door, NEW r, NEW check, NEW computed, Serve(door, r, check, computed)
  PROVE  Served(answer', door, r, check, computed)
<1>1. CASE check # "ok"
  BY <1>1 DEF Serve, Served, Answer
<1>2. CASE check = "ok" /\ r.tool = "start_timer"
  <2>1. answer' = Answer(door, r, Ok(<<>>))
    BY <1>2 DEF Serve
  <2> QED  BY <1>2, <2>1 DEF Served, Answer, Stateful
<1>3. CASE check = "ok" /\ r.tool # "start_timer" /\ r.tool = "list_manage"
  <2>1. answer' = Answer(door, r, ListResult(r.args))
    BY <1>3 DEF Serve
  <2> QED  BY <1>3, <2>1 DEF Served, Answer, Stateful
<1>4. CASE check = "ok" /\ r.tool # "start_timer" /\ r.tool # "list_manage"
  <2>1. answer' = Answer(door, r, computed)
    BY <1>4 DEF Serve
  <2> QED  BY <1>4, <2>1 DEF Served, Answer, Stateful
<1> QED  BY <1>1, <1>2, <1>3, <1>4

\* Whatever is answered, a door has computed it or sanitize_prose has shown it.
LEMMA AnswersAreSound == RuntimeInit /\ [][RuntimeNext]_runtimeVars => []AnswerSound(answer)
<1>1. RuntimeInit => AnswerSound(answer)
  BY DEF RuntimeInit, AnswerSound
<1>2. AnswerSound(answer) /\ [RuntimeNext]_runtimeVars => AnswerSound(answer)'
  <2> SUFFICES ASSUME AnswerSound(answer), [RuntimeNext]_runtimeVars PROVE AnswerSound(answer')
    OBVIOUS
  <2>1. ASSUME NEW r \in Requests, ToolCall(r) PROVE AnswerSound(answer')
    <3>1. r.tool \in ToolNames /\ AtInterface(answer', r)
      BY <2>1, ServeAnswers DEF ToolCall, AtInterface
    <3> QED  BY <3>1 DEF AnswerSound
  <2>2. ASSUME NEW r \in Requests, ModelCall(r) PROVE AnswerSound(answer')
    <3>1. AtModel(answer', r)
      BY <2>2, ServeAnswers DEF ModelCall, AtModel
    <3> QED  BY <3>1 DEF AnswerSound
  <2>3. ASSUME NEW text \in Texts, ModelSays(text) PROVE AnswerSound(answer')
    BY <2>3 DEF ModelSays, AnswerSound
  <2>4. CASE ReadAnswer
    BY <2>4 DEF ReadAnswer, AnswerSound
  <2>5. ASSUME NEW t \in Timers, Commands(t) PROVE AnswerSound(answer')
    <3>1. answer' = answer
      BY <2>5 DEF Commands
    <3> QED  BY <3>1
  <2>6. CASE UNCHANGED runtimeVars
    <3>1. answer' = answer
      BY <2>6 DEF runtimeVars
    <3> QED  BY <3>1
  <2> QED  BY <2>1, <2>2, <2>3, <2>4, <2>5, <2>6 DEF RuntimeNext
<1> QED  BY <1>1, <1>2, PTL

\* The two tables of units are one.
LEMMA OneTable == ASSUME NEW a PROVE UiConvert(a) = RunConvertUnits(a)
BY DEF UiConvert, RunConvertUnits, UiGrams, UiMl, MassToGrams, VolumeToMl

\* Both doors compute the same for a tool without state.
LEMMA SameResult == ASSUME NEW tool, NEW a PROVE UiExecute(tool, a) = Execute(tool, a)
BY OneTable DEF UiExecute, Execute

\* What one door lets through, the other does, if it is an object.
LEMMA SameCheck ==
  ASSUME NEW tool \in ToolNames, NEW a
  PROVE  /\ ValidateAndParse(tool, a) = "ok" => UiParse(tool, a) = "ok"
         /\ a.form = "object" /\ UiParse(tool, a) = "ok" => ValidateAndParse(tool, a) = "ok"
<1>1. UiFieldsOk(tool, a) <=> FieldsOk(tool, a)
  BY DEF ToolNames, UiFieldsOk, FieldsOk, ReqString, DurationOk
<1>2. "object" \in UiForms(tool) /\ "ok" # "invalid_args"
  BY DEF UiForms
<1> QED  BY <1>1, <1>2 DEF ValidateAndParse, UiParse

\* The door that an answer tells.
LEMMA AnsweredAt ==
  ASSUME NEW ans, AnswerSound(ans)
  PROVE  /\ ans.door = "interface" =>
              ans.request \in Requests /\ ans.request.tool \in ToolNames /\ AtInterface(ans, ans.request)
         /\ ans.door = "model" => ans.request \in Requests /\ AtModel(ans, ans.request)
         /\ ans.door = "chat" => \E text \in Texts : ans = Shown(text)
<1>1. CASE ans = Unanswered
  BY <1>1 DEF Unanswered
<1>2. CASE \E text \in Texts : ans = Shown(text)
  <2>1. ans.door = "chat"
    BY <1>2 DEF Shown
  <2> QED  BY <1>2, <2>1
<1>3. ASSUME NEW r \in Requests, r.tool \in ToolNames, AtInterface(ans, r)
      PROVE  ans.door = "interface" /\ ans.request = r
  BY <1>3 DEF AtInterface, Served
<1>4. ASSUME NEW r \in Requests, AtModel(ans, r)
      PROVE  ans.door = "model" /\ ans.request = r
  BY <1>4 DEF AtModel, Served
<1> QED  BY <1>1, <1>2, <1>3, <1>4 DEF AnswerSound

\* An answer of one door is what the other would have answered.
LEMMA DoorsDoAgree == ASSUME AnswerSound(answer) PROVE DoorsAgree
<1> DEFINE r == answer.request
           tool == r.tool
           a == r.args
<1>1. ASSUME answer.door = "model", tool \in ToolNames, ValidateAndParse(tool, a) = "ok"
      PROVE  UiParse(tool, a) = "ok" /\ (tool \in ToolNames \ Stateful => answer.result = UiExecute(tool, a))
  <2>1. AtModel(answer, r)
    BY <1>1, AnsweredAt
  <2>2. tool \notin Stateful => answer.result = Execute(tool, a)
    BY <1>1, <2>1 DEF AtModel, Served
  <2> HIDE DEF tool, a
  <2> QED  BY <1>1, <2>2, SameCheck, SameResult
<1>2. ASSUME answer.door = "interface", a.form = "object", UiParse(tool, a) = "ok"
      PROVE  ValidateAndParse(tool, a) = "ok" /\ (tool \in ToolNames \ Stateful => answer.result = Execute(tool, a))
  <2>1. AtInterface(answer, r) /\ tool \in ToolNames
    BY <1>2, AnsweredAt
  <2>2. tool \notin Stateful => answer.result = UiExecute(tool, a)
    BY <1>2, <2>1 DEF AtInterface, Served
  <2> HIDE DEF tool, a
  <2> QED  BY <1>2, <2>1, <2>2, SameCheck, SameResult
<1> QED  BY <1>1, <1>2 DEF DoorsAgree, Answered

\* The result of a call of a stateless tool that passed.
LEMMA ComputedResult ==
  ASSUME AnswerSound(answer), NEW tool \in ToolNames \ Stateful, Computed({tool})
  PROVE  /\ answer.request \in Requests /\ answer.request.tool = tool
         /\ FieldsOk(tool, answer.request.args)
         /\ answer.result = Execute(tool, answer.request.args) /\ answer.result.code = "ok"
<1> DEFINE r == answer.request
           a == r.args
<1>1. answer.door \in {"interface", "model"} /\ r.tool = tool /\ answer.result.code = "ok"
  BY DEF Computed, Answered
<1>2. ASSUME NEW check, check # "ok" PROVE answer.result # Failed(check)
  BY <1>1, <1>2 DEF Failed
<1>3. CASE answer.door = "interface"
  <2>1. r \in Requests /\ AtInterface(answer, r)
    BY <1>3, AnsweredAt
  <2>2. UiParse(tool, a) = "ok" /\ answer.result = UiExecute(tool, a)
    BY <1>1, <1>2, <2>1 DEF AtInterface, Served
  <2>3. FieldsOk(tool, a)
    BY <2>2 DEF UiParse, UiFieldsOk, FieldsOk, ReqString, DurationOk, Stateful
  <2> HIDE DEF r, a
  <2> QED  BY <1>1, <2>1, <2>2, <2>3, SameResult DEF r, a
<1>4. CASE answer.door = "model"
  <2>1. r \in Requests /\ AtModel(answer, r)
    BY <1>4, AnsweredAt
  <2>2. ValidateAndParse(tool, a) = "ok" /\ answer.result = Execute(tool, a)
    BY <1>1, <1>2, <2>1 DEF AtModel, Served
  <2>3. FieldsOk(tool, a)
    BY <2>2 DEF ValidateAndParse
  <2> QED  BY <1>1, <2>1, <2>2, <2>3
<1> QED  BY <1>1, <1>3, <1>4

\* Overflow on the way, a division by zero or a date out of range is a failure, so
\* a result that is answered is the exact one.
LEMMA AnswersAreExact == ASSUME AnswerSound(answer) PROVE AnswerIsExact
<1> DEFINE a == answer.request.args
<1>1. ASSUME Computed({"calculate"})
      PROVE  /\ answer.result.value = <<Exact(a)[Len(a.operands)]>>
             /\ \A i \in 1..Len(a.operands) : Fits(Exact(a)[i])
  <2> DEFINE n == Len(a.operands)
  <2>1. /\ answer.request \in Requests /\ answer.request.tool = "calculate"
        /\ FieldsOk("calculate", a) /\ answer.result = Execute("calculate", a)
        /\ answer.result.code = "ok"
    BY <1>1, ComputedResult DEF ToolNames, Stateful
  <2>2. Calculation(a)
    BY <2>1, RequestsAssumption DEF Calculation
  <2>3. n \in 1..n
    BY <2>1, <2>2 DEF FieldsOk, ReqOperands, Calculation
  <2>4. answer.result = RunCalculate(a)
    BY <2>1 DEF Execute
  <2> HIDE DEF a
  <2>5. /\ ~DividesByZero(a) /\ Accumulated(a)[n].finite
        /\ answer.result = Ok(<<Accumulated(a)[n].n>>)
    BY <2>1, <2>4 DEF RunCalculate, IsFinite, Failed
  <2>6. /\ Accumulated(a)[n].n = Exact(a)[n]
        /\ \A i \in 1..n : Fits(Exact(a)[i])
    BY <2>2, <2>3, <2>5, FiniteIsExact
  <2> QED  BY <2>5, <2>6 DEF Ok
<1>2. ASSUME Computed({"date_math"})
      PROVE  LET delta == 1440 * a.days + 60 * a.hours + a.minutes IN
             /\ answer.result.value = <<IF a.op = "add" THEN a.base + delta ELSE a.base - delta>>
             /\ answer.result.value[1] \in 0..DateMax
  <2> DEFINE total == DeltaSteps(a)[4]
             delta == 1440 * a.days + 60 * a.hours + a.minutes
             out == IF a.op = "add" THEN a.base + total ELSE a.base - total
  <2>1. /\ answer.request \in Requests /\ answer.request.tool = "date_math"
        /\ answer.result = Execute("date_math", a) /\ answer.result.code = "ok"
    BY <1>2, ComputedResult DEF ToolNames, Stateful
  <2>2. a.base \in Int /\ a.days \in Int /\ a.hours \in Int /\ a.minutes \in Int
    BY <2>1, RequestsAssumption
  <2>3. answer.result = RunDateMath(a)
    BY <2>1 DEF Execute
  <2>4. total = delta
    BY <2>2 DEF DeltaSteps
  <2> HIDE DEF a, total, delta
  <2>5. answer.result = Ok(<<out>>) /\ out \in 0..DateMax
    BY <2>1, <2>3 DEF RunDateMath, Failed, total
  <2>6. answer.result.value = <<out>> /\ answer.result.value[1] = out
    BY <2>5 DEF Ok
  <2> QED  BY <2>4, <2>5, <2>6 DEF delta
<1> HIDE DEF a
<1> QED  BY <1>1, <1>2 DEF AnswerIsExact, a

\* trim keeps tokens and tags.
LEMMA TrimIsText ==
  ASSUME NEW text \in Seq(Tokens)
  PROVE  Trim(text) \in Seq(Tokens) /\ TagsStay(text, Trim(text))
<1> DEFINE I == {i \in 1..Len(text) : /\ \E j \in 1..i : text[j] # "nl"
                                      /\ \E j \in i..Len(text) : text[j] # "nl"}
<1>1. Trim(text) = Retained(text, I) /\ I \in SUBSET (1..Len(text))
  BY DEF Trim
<1>2. ASSUME NEW i \in 1..Len(text), i \notin I PROVE text[i] \notin Halves
  <2>1. i \in 1..i /\ i \in i..Len(text)
    OBVIOUS
  <2>2. text[i] = "nl"
    BY <1>2, <2>1
  <2> QED  BY <2>2 DEF Halves, Heads, Tails
<1> HIDE DEF I
<1> QED  BY <1>1, <1>2, OthersGo, RetainedPlaces

\* A text that is shown has been through sanitize_prose.
LEMMA ShownAreClean == ASSUME AnswerSound(answer) PROVE ShownIsClean
<1> SUFFICES ASSUME answer.door = "chat"
             PROVE  LET text == answer.text IN
                    /\ \A i \in 1..Len(text) : ~Leak(text, i)
                    /\ Echoes(text) = {}
                    /\ (\E tail \in Tails : Span(text, tail)) => Split(answer.written)
  BY DEF ShownIsClean
<1>1. PICK written \in Texts : answer = Shown(written)
  BY AnsweredAt
<1> DEFINE w == SanitizeProse(Trim(written))
<1>2. answer.text = w /\ answer.written = written
  BY <1>1 DEF Shown
<1>3. Trim(written) \in Seq(Tokens) /\ TagsStay(written, Trim(written))
  BY TextsAssumption, TrimIsText
<1>4. /\ Leakless(w) /\ Echoes(w) = {}
      /\ ~Split(Trim(written)) => \A tail \in Tails : ~Span(w, tail)
  BY <1>3, SanitizedIsClean
<1>5. ~Split(written) => ~Split(Trim(written))
  BY <1>3 DEF TagsStay
<1> HIDE DEF w
<1> QED  BY <1>2, <1>4, <1>5 DEF Leakless

\* No calculation that left the range of numbers on its way and no date out of range is
\* answered with a value, for any operands and any range (run_calculate, run_date_math).
THEOREM ExactTheorem == RuntimeSpec => []AnswerIsExact
BY AnswersAreSound, AnswersAreExact, PTL DEF RuntimeSpec

\* What the model may call the interface may call, with the same answer, and the
\* other way round for a JSON object, for any request (tool_call, validate_and_parse).
THEOREM DoorsTheorem == RuntimeSpec => []DoorsAgree
BY AnswersAreSound, DoorsDoAgree, PTL DEF RuntimeSpec

\* Of no text of any length is an echo of a result shown, or a line that is nothing but
\* an object; and a whole span only of a text with a tag in two parts, which a cut can
\* join behind the pass (sanitize_prose, strip_spans).
THEOREM CleanTheorem == RuntimeSpec => []ShownIsClean
BY AnswersAreSound, ShownAreClean, PTL DEF RuntimeSpec

-------------------------------------------------------------------------------
(* The tools in use.                                                         *)

\* A step of the tools, however many ids it uses.
ToolStep ==
  \/ \E t \in Timers :
       \/ \E d \in 1..MaxDuration : StartTimer(t, d)
       \/ SpawnTask(t) \/ Tick(t) \/ ResetTimer(t)
       \/ \E running \in BOOLEAN : SetTimerRunning(t, running)
  \/ \E op \in ListRequests : ManageList(op)

ToolsInv == TimersInv /\ Numbered(ingredients, itemSeq)

LEMMA ToolStepKeeps == ToolsInv /\ [ToolStep]_toolVars => ToolsInv'
<1> SUFFICES ASSUME TimersInv, Numbered(ingredients, itemSeq), [ToolStep]_toolVars
             PROVE  TimersInv' /\ Numbered(ingredients', itemSeq')
  BY DEF ToolsInv
<1>1. CASE \E t \in Timers, d \in 1..MaxDuration : StartTimer(t, d)
  BY <1>1, StartKeepsTimers, TimersLeaveList
<1>2. CASE \E t \in Timers : SpawnTask(t)
  BY <1>2, SpawnKeepsTimers, TimersLeaveList
<1>3. CASE \E t \in Timers : Tick(t)
  BY <1>3, TickKeepsTimers, TimersLeaveList
<1>4. CASE \E t \in Timers : ResetTimer(t)
  BY <1>4, ResetKeepsTimers, TimersLeaveList
<1>5. CASE \E t \in Timers, running \in BOOLEAN : SetTimerRunning(t, running)
  BY <1>5, PauseKeepsTimers, TimersLeaveList
<1>6. CASE \E op \in ListRequests : ManageList(op)
  BY <1>6, RestKeepsTimers, ListKeeps DEF ManageList
<1>7. CASE UNCHANGED toolVars
  BY <1>7, RestKeepsTimers DEF toolVars
<1> QED  BY <1>1, <1>2, <1>3, <1>4, <1>5, <1>6, <1>7 DEF ToolStep

LEMMA ToolsInvInit == ToolStateInit => ToolsInv
BY TimersInit DEF ToolStateInit, Numbered, ToolsInv

LEMMA ToolsInvSuffices == ToolsInv => ToolStateTypeOK /\ OneTicker /\ GeneratedIdsDistinct
BY DEF ToolsInv, TimersInv, TimersTyped, Numbered, ToolStateTypeOK, GeneratedIdsDistinct

\* A call that has passed a door is a step of the tools.
LEMMA ServeUsesTools ==
  ASSUME NEW door, NEW r \in Requests, NEW check, NEW computed, Serve(door, r, check, computed),
         check = "ok" /\ r.tool = "start_timer" => r.args.seconds > 0,
         check = "ok" /\ r.tool = "list_manage" => ListArgsOk(r.args)
  PROVE  [ToolStep]_toolVars
<1>1. CASE check = "ok" /\ r.tool = "start_timer"
  <2>1. PICK t \in Timers : StartTimer(t, r.args.seconds)
    BY <1>1 DEF Serve
  <2>2. r.args.seconds \in 1..MaxDuration
    BY <1>1, RequestsAssumption, DurationAssumption
  <2> QED  BY <2>1, <2>2 DEF ToolStep
<1>2. CASE check = "ok" /\ r.tool = "list_manage" /\ r.tool # "start_timer"
  <2>1. ManageList(r.args)
    BY <1>2 DEF Serve
  <2>2. r.args \in ListRequests
    BY <1>2, RequestsAssumption
  <2> QED  BY <2>1, <2>2 DEF ToolStep
<1>3. CASE check # "ok" \/ r.tool \notin {"start_timer", "list_manage"}
  BY <1>3 DEF Serve
<1> QED  BY <1>1, <1>2, <1>3

LEMMA RuntimeUsesTools == [RuntimeNext]_runtimeVars => [ToolStep]_toolVars
<1> SUFFICES ASSUME [RuntimeNext]_runtimeVars PROVE [ToolStep]_toolVars
  OBVIOUS
<1>1. ASSUME NEW r \in Requests, ToolCall(r) PROVE [ToolStep]_toolVars
  <2>1. Serve("interface", r, UiParse(r.tool, r.args), UiExecute(r.tool, r.args))
    BY <1>1 DEF ToolCall
  <2>2. /\ UiParse(r.tool, r.args) = "ok" /\ r.tool = "start_timer" => r.args.seconds > 0
        /\ UiParse(r.tool, r.args) = "ok" /\ r.tool = "list_manage" => ListArgsOk(r.args)
    BY DEF UiParse, UiFieldsOk
  <2> QED  BY <2>1, <2>2, ServeUsesTools
<1>2. ASSUME NEW r \in Requests, ModelCall(r) PROVE [ToolStep]_toolVars
  <2>1. Serve("model", r, ValidateAndParse(r.tool, r.args), Execute(r.tool, r.args))
    BY <1>2 DEF ModelCall
  <2>2. /\ ValidateAndParse(r.tool, r.args) = "ok" /\ r.tool = "start_timer" => r.args.seconds > 0
        /\ ValidateAndParse(r.tool, r.args) = "ok" /\ r.tool = "list_manage" => ListArgsOk(r.args)
    BY DEF ValidateAndParse, FieldsOk, DurationOk
  <2> QED  BY <2>1, <2>2, ServeUsesTools
<1>3. ASSUME NEW t \in Timers, Commands(t) PROVE [ToolStep]_toolVars
  BY <1>3 DEF Commands, ToolStep
<1>4. ASSUME NEW text \in Texts, ModelSays(text) PROVE UNCHANGED toolVars
  BY <1>4 DEF ModelSays
<1>5. CASE ReadAnswer
  BY <1>5 DEF ReadAnswer
<1>6. CASE UNCHANGED runtimeVars
  BY <1>6 DEF runtimeVars
<1> QED  BY <1>1, <1>2, <1>3, <1>4, <1>5, <1>6 DEF RuntimeNext

\* Through both doors, in any order and with any arguments, also those that a door
\* refuses: a timer has one task, and no generated id is given away twice.
THEOREM RuntimeKeepsTools ==
  RuntimeSpec => [](ToolStateTypeOK /\ OneTicker /\ GeneratedIdsDistinct)
<1>1. RuntimeInit => ToolsInv
  BY ToolsInvInit DEF RuntimeInit
<1> QED  BY <1>1, RuntimeUsesTools, ToolStepKeeps, ToolsInvSuffices, PTL DEF RuntimeSpec

-------------------------------------------------------------------------------
(* The turn.                                                                 *)

\* The parts of TurnTypeOK that the worker's steps depend on.
WorkerTyped ==
  /\ queue \in Seq([job : Jobs, session : Sessions])
  /\ sent \in Nat
  /\ worker \in WorkerType

\* What a transcript may hold at each point of a turn: a hop is at most a repair, a
\* nudge, another repair, and the call with its outcome.
Repairs == IF worker.repairing THEN 1 ELSE 0
Budget ==
  /\ worker.pc \in {"idle", "load"} =>
       /\ worker.steps = <<>> /\ worker.hops = 0 /\ worker.nudges = 0
       /\ worker.last = None /\ ~worker.repairing
  /\ worker.pc \in {"decode", "interpret"} =>
       /\ worker.hops <= MaxToolHops /\ worker.nudges <= 1
       /\ worker.hops = 0 => /\ worker.nudges = 0 /\ worker.last = None
                             /\ Len(worker.steps) <= Repairs
       /\ worker.hops > 0 => Len(worker.steps) <= 5 * worker.hops - 2 + 2 * worker.nudges + Repairs
  /\ worker.pc = "execute" =>
       /\ worker.hops <= MaxToolHops /\ worker.nudges = 0
       /\ Len(worker.steps) <= 5 * worker.hops + 1
  /\ worker.pc = "emit" => Len(worker.steps) <= 5 * MaxToolHops + 2

\* A tool that ran after the cancel ran last: the cancel stays, and what follows
\* is prose.
LateIsLast ==
  /\ worker.late <= 1
  /\ worker.pc \in {"idle", "load", "execute"} => worker.late = 0
  /\ worker.late = 1 => Cancelled
  /\ worker.late = 1 /\ worker.pc = "interpret" => worker.out = "prose"

\* The last call of a transcript.
IsLastCall(steps, i) == Ran(steps, i) /\ \A k \in i + 1..Len(steps) : ~Ran(steps, k)

\* It is the one the worker remembers, and not the one it is about to execute.
LastCallKnown ==
  /\ worker.pc = "interpret" /\ worker.out = "valid" => worker.call \in Calls
  /\ worker.pc = "execute" => worker.call \in Calls /\ worker.last = worker.call
  /\ \A i \in 1..Len(worker.steps) :
       IsLastCall(worker.steps, i) =>
         /\ worker.pc \in {"decode", "interpret"} => worker.steps[i].call = worker.last
         /\ worker.pc = "execute" => worker.steps[i].call # worker.call

TurnInv == WorkerTyped /\ Budget /\ LateIsLast /\ LastCallKnown /\ NoRepeatedCall

-------------------------------------------------------------------------------
(* Transcripts.                                                              *)

LEMMA StepsAppended ==
  ASSUME NEW s \in Seq(StepType), NEW x \in StepType
  PROVE  /\ s \o <<x>> \in Seq(StepType) /\ Len(s \o <<x>>) = Len(s) + 1
         /\ \A i \in 1..Len(s) : (s \o <<x>>)[i] = s[i]
         /\ (s \o <<x>>)[Len(s) + 1] = x
<1>1. <<x>> \in Seq(StepType) /\ Len(<<x>>) = 1 /\ <<x>>[1] = x
  OBVIOUS
<1> QED  BY <1>1, ConcatProperties, LenProperties

LEMMA StepTypes ==
  ASSUME NEW c \in Calls \cup {None}, NEW kind \in {"prose", "giveup", "tool_call", "tool_result", "tool_error", "repair_attempt",
           "fallback_widget", "fallback_question", "duplicate_call_skipped", "hop_limit_reached"}
  PROVE  Prose(kind) \in StepType /\ CallStep(kind, c) \in StepType
  BY DEF Prose, CallStep, StepType

\* A longer transcript agrees with a shorter one on the steps they share.
LEMMA CallsDifferInPrefix ==
  ASSUME NEW s, NEW t, Len(s) \in Nat, CallsDiffer(s),
         \A i \in 1..Len(s) : t[i] = s[i] /\ (Ran(t, i) <=> Ran(s, i)),
         NEW i \in 1..Len(s), NEW j \in 1..Len(s), i < j, Ran(t, i), Ran(t, j),
         \A k \in i + 1..j - 1 : ~Ran(t, k)
  PROVE  t[i].call # t[j].call
<1>1. \A k \in i + 1..j - 1 : k \in 1..Len(s)
  OBVIOUS
<1>2. Ran(s, i) /\ Ran(s, j) /\ \A k \in i + 1..j - 1 : ~Ran(s, k)
  BY <1>1
<1>3. s[i].call # s[j].call
  BY <1>2 DEF CallsDiffer
<1> QED  BY <1>3

\* A step that is no call changes nothing about the calls.
LEMMA NoCallAdded ==
  ASSUME NEW s \in Seq(StepType), NEW x \in StepType, x.kind # "tool_call", CallsDiffer(s)
  PROVE  /\ CallsDiffer(s \o <<x>>)
         /\ \A i \in 1..Len(s \o <<x>>) :
              IsLastCall(s \o <<x>>, i) => i \in 1..Len(s) /\ IsLastCall(s, i) /\ (s \o <<x>>)[i] = s[i]
<1> DEFINE t == s \o <<x>>
<1>1. /\ Len(t) = Len(s) + 1 /\ Len(s) \in Nat
      /\ \A i \in 1..Len(s) : t[i] = s[i] /\ (Ran(t, i) <=> Ran(s, i))
      /\ ~Ran(t, Len(s) + 1)
  BY StepsAppended, LenProperties DEF Ran
<1> HIDE DEF t
<1>2. CallsDiffer(t)
  <2> SUFFICES ASSUME NEW i \in 1..Len(t), NEW j \in 1..Len(t), i < j, Ran(t, i), Ran(t, j),
                      \A k \in i + 1..j - 1 : ~Ran(t, k)
               PROVE  t[i].call # t[j].call
    BY DEF CallsDiffer
  <2>1. i \in 1..Len(s) /\ j \in 1..Len(s)
    BY <1>1
  <2> QED  BY <1>1, <2>1, CallsDifferInPrefix
<1>3. ASSUME NEW i \in 1..Len(t), IsLastCall(t, i)
      PROVE  i \in 1..Len(s) /\ IsLastCall(s, i) /\ t[i] = s[i]
  <2>1. Ran(t, i) /\ \A k \in i + 1..Len(t) : ~Ran(t, k)
    BY <1>3 DEF IsLastCall
  <2>2. i \in 1..Len(s)
    BY <1>1, <2>1
  <2>3. \A k \in i + 1..Len(s) : ~Ran(s, k)
    BY <1>1, <2>1, <2>2
  <2> QED  BY <1>1, <2>1, <2>2, <2>3 DEF IsLastCall
<1> QED  BY <1>2, <1>3 DEF t

\* A call other than the last one may follow.
LEMMA CallAdded ==
  ASSUME NEW s \in Seq(StepType), NEW c \in Calls, NEW outcome \in {"tool_result", "tool_error"},
         CallsDiffer(s),
         \A i \in 1..Len(s) : IsLastCall(s, i) => s[i].call # c
  PROVE  LET t == s \o <<CallStep("tool_call", c), CallStep(outcome, c)>> IN
         /\ t \in Seq(StepType) /\ Len(t) = Len(s) + 2
         /\ CallsDiffer(t)
         /\ \A i \in 1..Len(t) : IsLastCall(t, i) => t[i].call = c
<1> DEFINE x == CallStep("tool_call", c)
           y == CallStep(outcome, c)
           t == s \o <<x, y>>
<1>1. x \in StepType /\ y \in StepType /\ x.kind = "tool_call" /\ y.kind # "tool_call" /\ x.call = c
  BY DEF CallStep, StepType
<1> HIDE DEF x, y
<1>2. <<x, y>> \in Seq(StepType) /\ Len(<<x, y>>) = 2 /\ <<x, y>>[1] = x /\ <<x, y>>[2] = y
  BY <1>1
<1>3. /\ t \in Seq(StepType) /\ Len(t) = Len(s) + 2 /\ Len(s) \in Nat
      /\ \A i \in 1..Len(s) : t[i] = s[i]
      /\ t[Len(s) + 1] = x /\ t[Len(s) + 2] = y
  BY <1>2, ConcatProperties, LenProperties
<1> HIDE DEF t
<1>4. /\ \A i \in 1..Len(s) : Ran(t, i) <=> Ran(s, i)
      /\ Ran(t, Len(s) + 1) /\ ~Ran(t, Len(s) + 2) /\ t[Len(s) + 1].call = c
  BY <1>1, <1>3 DEF Ran
<1>5. CallsDiffer(t)
  <2> SUFFICES ASSUME NEW i \in 1..Len(t), NEW j \in 1..Len(t), i < j, Ran(t, i), Ran(t, j),
                      \A k \in i + 1..j - 1 : ~Ran(t, k)
               PROVE  t[i].call # t[j].call
    BY DEF CallsDiffer
  <2>1. CASE j \in 1..Len(s)
    <3>1. i \in 1..Len(s)
      BY <1>3, <2>1
    <3>2. \A k \in 1..Len(s) : t[k] = s[k] /\ (Ran(t, k) <=> Ran(s, k))
      BY <1>3, <1>4
    <3> QED  BY <1>3, <2>1, <3>1, <3>2, CallsDifferInPrefix
  <2>2. CASE j = Len(s) + 1
    <3>1. i \in 1..Len(s) /\ IsLastCall(s, i)
      BY <1>3, <1>4, <2>2 DEF IsLastCall
    <3> QED  BY <1>3, <1>4, <2>2, <3>1
  <2> QED  BY <1>3, <1>4, <2>1, <2>2
<1>6. ASSUME NEW i \in 1..Len(t), IsLastCall(t, i) PROVE t[i].call = c
  <2>1. Ran(t, i) /\ \A k \in i + 1..Len(t) : ~Ran(t, k)
    BY <1>6 DEF IsLastCall
  <2>2. i \notin 1..Len(s)
    <3> SUFFICES ASSUME i \in 1..Len(s) PROVE FALSE
      OBVIOUS
    <3> QED  BY <1>3, <1>4, <2>1, Len(s) + 1 \in i + 1..Len(t)
  <2>3. i = Len(s) + 1
    BY <1>3, <1>4, <2>1, <2>2
  <2> QED  BY <1>4, <2>3
<1> QED  BY <1>3, <1>5, <1>6 DEF t, x, y

LEMMA CallsDifferInTail ==
  ASSUME NEW s \in Seq(StepType), s # <<>>, CallsDiffer(s)
  PROVE  Tail(s) \in Seq(StepType) /\ Len(Tail(s)) = Len(s) - 1 /\ CallsDiffer(Tail(s))
<1>1. /\ Tail(s) \in Seq(StepType) /\ Len(Tail(s)) = Len(s) - 1 /\ Len(s) \in Nat
      /\ \A i \in 1..Len(s) - 1 : Tail(s)[i] = s[i + 1]
  BY HeadTailProperties, LenProperties
<1> DEFINE t == Tail(s)
<1>2. \A i \in 1..Len(t) : i + 1 \in 1..Len(s) /\ t[i] = s[i + 1] /\ (Ran(t, i) <=> Ran(s, i + 1))
  BY <1>1 DEF Ran
<1> HIDE DEF t
<1>3. CallsDiffer(t)
  <2> SUFFICES ASSUME NEW i \in 1..Len(t), NEW j \in 1..Len(t), i < j, Ran(t, i), Ran(t, j),
                      \A k \in i + 1..j - 1 : ~Ran(t, k)
               PROVE  t[i].call # t[j].call
    BY DEF CallsDiffer
  <2>1. \A k \in (i + 1) + 1..(j + 1) - 1 : ~Ran(s, k)
    <3> SUFFICES ASSUME NEW k \in (i + 1) + 1..(j + 1) - 1 PROVE ~Ran(s, k)
      OBVIOUS
    <3>1. k - 1 \in i + 1..j - 1 /\ k - 1 \in 1..Len(t) /\ (k - 1) + 1 = k
      BY <1>1 DEF t
    <3> QED  BY <1>2, <3>1
  <2> QED  BY <1>1, <1>2, <2>1 DEF CallsDiffer
<1> QED  BY <1>1, <1>3 DEF t

-------------------------------------------------------------------------------
(* The steps.                                                                *)

LEMMA TurnInvInit == TurnInit => TurnInv
<1> SUFFICES ASSUME TurnInit PROVE TurnInv
  OBVIOUS
<1> USE TurnAssumption DEF TurnInit, Idle
<1>1. WorkerTyped
  BY DEF WorkerTyped, WorkerType
<1>2. Budget /\ LateIsLast
  BY DEF Budget, LateIsLast
<1>3. Len(worker.steps) = 0
  OBVIOUS
<1>4. LastCallKnown /\ NoRepeatedCall
  BY <1>3 DEF LastCallKnown, NoRepeatedCall, CallsDiffer
<1> QED  BY <1>1, <1>2, <1>4 DEF TurnInv

\* The commands and the timers leave the worker alone; a cancel can only be added.
LEMMA CommandKeeps ==
  ASSUME TurnInv, worker' = worker, cancelled \subseteq cancelled',
         queue' \in Seq([job : Jobs, session : Sessions]), sent' \in Nat
  PROVE  TurnInv'
<1> USE DEF TurnInv
<1>1. WorkerTyped' /\ Budget'
  BY DEF WorkerTyped, Budget, Repairs
<1>2. LateIsLast'
  BY DEF LateIsLast, Cancelled
<1>3. LastCallKnown' /\ NoRepeatedCall'
  BY DEF LastCallKnown, NoRepeatedCall
<1> QED  BY <1>1, <1>2, <1>3

LEMMA StartKeeps == ASSUME TurnInv, NEW s \in Sessions, InferenceStart(s) PROVE TurnInv'
<1>1. sent + 1 \in Jobs /\ sent' = sent + 1 /\ queue \in Seq([job : Jobs, session : Sessions])
  BY TurnAssumption DEF TurnInv, WorkerTyped, InferenceStart, Jobs
<1>2. [job |-> sent + 1, session |-> s] \in [job : Jobs, session : Sessions]
  BY <1>1
<1>3. queue' \in Seq([job : Jobs, session : Sessions])
  BY <1>1, <1>2 DEF InferenceStart
<1> QED  BY <1>1, <1>3, CommandKeeps DEF InferenceStart, TurnInv, WorkerTyped

LEMMA TakeJobKeeps == ASSUME TurnInv, TakeJob PROVE TurnInv'
<1>1. /\ Head(queue) \in [job : Jobs, session : Sessions]
      /\ queue' \in Seq([job : Jobs, session : Sessions])
  <2> DEFINE Job == [job : Jobs, session : Sessions]
  <2>1. queue \in Seq(Job) /\ queue # <<>> /\ queue' = Tail(queue)
    BY DEF TurnInv, WorkerTyped, TakeJob
  <2> HIDE DEF Job
  <2>2. Head(queue) \in Job /\ queue' \in Seq(Job)
    BY <2>1, HeadTailProperties
  <2> QED  BY <2>2 DEF Job
<1>2. /\ worker' \in WorkerType /\ worker'.pc = "load" /\ worker'.steps = worker.steps
      /\ worker'.hops = worker.hops /\ worker'.nudges = worker.nudges /\ worker'.last = worker.last
      /\ worker'.repairing = worker.repairing /\ worker'.late = worker.late
  BY <1>1 DEF TurnInv, WorkerTyped, WorkerType, TakeJob
<1>3. worker.pc = "idle"
  BY DEF TakeJob, At
<1>4. WorkerTyped'
  BY <1>1, <1>2 DEF TurnInv, WorkerTyped, TakeJob
<1>5. Budget' /\ LateIsLast'
  BY <1>2, <1>3 DEF TurnInv, Budget, LateIsLast
<1>6. LastCallKnown' /\ NoRepeatedCall'
  BY <1>2, <1>3 DEF TurnInv, LastCallKnown, NoRepeatedCall
<1> QED  BY <1>4, <1>5, <1>6 DEF TurnInv

\* The turn begins, and the cancels of earlier turns are forgotten: none was late.
LEMMA RunJobKeeps == ASSUME TurnInv, RunJob PROVE TurnInv'
<1>1. /\ worker' \in WorkerType /\ worker'.pc = "decode" /\ worker'.steps = worker.steps
      /\ worker'.hops = worker.hops /\ worker'.nudges = worker.nudges /\ worker'.last = worker.last
      /\ worker'.repairing = worker.repairing /\ worker'.late = worker.late
  BY DEF TurnInv, WorkerTyped, WorkerType, RunJob
<1>2. /\ worker.pc = "load" /\ worker.steps = <<>> /\ worker.hops = 0 /\ worker.nudges = 0
      /\ worker.last = None /\ ~worker.repairing /\ worker.late = 0
  BY DEF RunJob, At, TurnInv, Budget, LateIsLast
<1>3. WorkerTyped'
  BY <1>1 DEF TurnInv, WorkerTyped, RunJob
<1>4. Budget'
  BY <1>1, <1>2, TurnAssumption DEF Budget, Repairs
<1>5. LateIsLast'
  BY <1>1, <1>2 DEF LateIsLast
<1>6. LastCallKnown' /\ NoRepeatedCall'
  BY <1>1, <1>2 DEF TurnInv, LastCallKnown, NoRepeatedCall
<1> QED  BY <1>3, <1>4, <1>5, <1>6 DEF TurnInv

\* Idle again, whatever the turn has shown.
LEMMA RestKeeps ==
  ASSUME TurnInv, worker' = Idle, UNCHANGED <<queue, sent>>
  PROVE  TurnInv'
<1> USE TurnAssumption DEF Idle
<1>1. WorkerTyped'
  BY DEF TurnInv, WorkerTyped, WorkerType
<1>2. Budget' /\ LateIsLast'
  BY DEF Budget, LateIsLast
<1>3. Len(worker'.steps) = 0
  OBVIOUS
<1>4. LastCallKnown' /\ NoRepeatedCall'
  BY <1>3 DEF LastCallKnown, NoRepeatedCall, CallsDiffer
<1> QED  BY <1>1, <1>2, <1>4 DEF TurnInv

\* A generation changes the output in hand alone; after a cancel it is prose.
LEMMA OutputKeeps ==
  ASSUME TurnInv, NEW out \in {"prose", "valid"} \cup Reasons, NEW c \in Calls \cup {None},
         NEW stopped \in {"no", "cancelled", "error"},
         At("decode"), out = "valid" => c \in Calls, out = "prose" \/ ~Cancelled,
         worker' = [worker EXCEPT !.pc = "interpret", !.out = out, !.call = c,
                                  !.stopped = stopped],
         UNCHANGED <<queue, sent, cancelled>>
  PROVE  TurnInv'
<1>1. /\ worker' \in WorkerType /\ worker'.pc = "interpret" /\ worker'.steps = worker.steps
      /\ worker'.hops = worker.hops /\ worker'.nudges = worker.nudges /\ worker'.last = worker.last
      /\ worker'.repairing = worker.repairing /\ worker'.late = worker.late
      /\ worker'.out = out /\ worker'.call = c /\ worker'.session = worker.session
  BY DEF TurnInv, WorkerTyped, WorkerType
<1>2. worker.pc = "decode"
  BY DEF At
<1>3. WorkerTyped'
  BY <1>1 DEF TurnInv, WorkerTyped
<1>4. Budget'
  BY <1>1, <1>2 DEF TurnInv, Budget, Repairs
<1>5. LateIsLast'
  BY <1>1, <1>2 DEF TurnInv, LateIsLast, Cancelled
<1>6. LastCallKnown' /\ NoRepeatedCall'
  BY <1>1, <1>2 DEF TurnInv, LastCallKnown, NoRepeatedCall
<1> QED  BY <1>3, <1>4, <1>5, <1>6 DEF TurnInv

\* A turn that ends adds one step, prose or its like, and shows the transcript.
LEMMA StopKeeps ==
  ASSUME TurnInv, NEW x \in StepType, x.kind # "tool_call", worker.pc \in {"interpret", "execute"},
         worker' = Stop(worker, <<x>>), UNCHANGED <<queue, sent, cancelled>>
  PROVE  TurnInv'
<1> DEFINE steps == worker.steps \o <<x>>
<1>1. worker.steps \in Seq(StepType) /\ CallsDiffer(worker.steps)
  BY DEF TurnInv, WorkerTyped, WorkerType, NoRepeatedCall
<1>2. steps \in Seq(StepType) /\ Len(steps) = Len(worker.steps) + 1 /\ CallsDiffer(steps)
  BY <1>1, StepsAppended, NoCallAdded
<1>3. worker' = [worker EXCEPT !.pc = "emit", !.out = "none", !.call = None, !.steps = steps]
  BY DEF Stop
<1> HIDE DEF steps
<1>4. /\ worker' \in WorkerType /\ worker'.pc = "emit" /\ worker'.steps = steps
      /\ worker'.late = worker.late /\ worker'.session = worker.session
  BY <1>2, <1>3 DEF TurnInv, WorkerTyped, WorkerType
<1>5. WorkerTyped'
  BY <1>4 DEF TurnInv, WorkerTyped
<1>6. Budget'
  <2>1. worker.hops \in Nat /\ worker.nudges \in Nat /\ Len(worker.steps) \in Nat /\ Repairs \in 0..1
    BY <1>1, LenProperties DEF TurnInv, WorkerTyped, WorkerType, Repairs
  <2>2. CASE worker.pc = "execute"
    <3>1. worker.hops <= MaxToolHops /\ Len(worker.steps) <= 5 * worker.hops + 1
      BY <2>2 DEF TurnInv, Budget
    <3>2. Len(steps) <= 5 * MaxToolHops + 2
      BY <1>2, <2>1, <3>1, TurnAssumption
    <3> QED  BY <1>4, <3>2 DEF Budget
  <2>3. CASE worker.pc = "interpret" /\ worker.hops = 0
    <3>1. Len(worker.steps) <= Repairs
      BY <2>3 DEF TurnInv, Budget
    <3> QED  BY <1>2, <1>4, <2>1, <3>1, TurnAssumption DEF Budget
  <2>4. CASE worker.pc = "interpret" /\ worker.hops > 0
    <3>1. /\ worker.hops <= MaxToolHops /\ worker.nudges <= 1
          /\ Len(worker.steps) <= 5 * worker.hops - 2 + 2 * worker.nudges + Repairs
      BY <2>4 DEF TurnInv, Budget
    <3>2. 5 * worker.hops <= 5 * MaxToolHops
      BY <2>1, <3>1, TurnAssumption
    <3>3. Len(worker.steps) <= 5 * worker.hops + 1
      <4>1. ASSUME NEW l \in Nat, NEW h \in Nat, NEW n \in 0..1, NEW r \in 0..1,
                   l <= 5 * h - 2 + 2 * n + r
            PROVE  l <= 5 * h + 1
        BY <4>1
      <4>2. worker.nudges \in 0..1
        BY <2>1, <3>1
      <4> QED  BY <2>1, <3>1, <4>1, <4>2
    <3>4. Len(steps) <= 5 * MaxToolHops + 2
      BY <1>2, <2>1, <3>2, <3>3, TurnAssumption
    <3> QED  BY <1>4, <3>4 DEF Budget
  <2> QED  BY <2>1, <2>2, <2>3, <2>4
<1>7. LateIsLast'
  BY <1>4 DEF TurnInv, LateIsLast, Cancelled
<1>8. LastCallKnown' /\ NoRepeatedCall'
  BY <1>2, <1>4 DEF LastCallKnown, NoRepeatedCall
<1> QED  BY <1>5, <1>6, <1>7, <1>8 DEF TurnInv

LEMMA ProseKeeps == ASSUME TurnInv, InterpretProse PROVE TurnInv'
<1>1. Prose("prose") \in StepType /\ Prose("prose").kind # "tool_call"
  BY DEF Prose, StepType
<1> QED  BY <1>1, StopKeeps DEF InterpretProse, At

LEMMA HopLimitKeeps == ASSUME TurnInv, HopLimit PROVE TurnInv'
<1>1. Prose("hop_limit_reached") \in StepType /\ Prose("hop_limit_reached").kind # "tool_call"
  BY DEF Prose, StepType
<1> QED  BY <1>1, StopKeeps DEF HopLimit, At

LEMMA FallbackKeeps == ASSUME TurnInv, InterpretInvalid, worker.repairing PROVE TurnInv'
<1> DEFINE kind == IF worker.out = "invalid_args" THEN "fallback_widget" ELSE "fallback_question"
<1>1. Prose(kind) \in StepType /\ Prose(kind).kind # "tool_call"
  BY DEF Prose, StepType
<1>2. worker' = Stop(worker, <<Prose(kind)>>)
  BY DEF InterpretInvalid
<1> HIDE DEF kind
<1> QED  BY <1>1, <1>2, StopKeeps DEF InterpretInvalid, At

LEMMA GiveUpKeeps == ASSUME TurnInv, HandleDuplicate, GivesUp PROVE TurnInv'
<1>1. Prose("giveup") \in StepType /\ Prose("giveup").kind # "tool_call"
  BY DEF Prose, StepType
<1> QED  BY <1>1, StopKeeps DEF HandleDuplicate, At

\* A step that is no call, before the next generation.
LEMMA ContinueKeeps ==
  ASSUME TurnInv, NEW x \in StepType, x.kind # "tool_call", At("interpret"),
         worker.out # "prose", UNCHANGED <<queue, sent, cancelled>>,
         worker' \in WorkerType, worker'.pc = "decode", worker'.steps = worker.steps \o <<x>>,
         worker'.hops = worker.hops, worker'.last = worker.last, worker'.late = worker.late,
         worker'.session = worker.session,
         \/ ~worker.repairing /\ worker'.repairing /\ worker'.nudges = worker.nudges
         \/ worker.nudges = 0 /\ worker.last # None /\ worker'.nudges = 1 /\ ~worker'.repairing
  PROVE  TurnInv'
<1> DEFINE steps == worker.steps \o <<x>>
<1>1. worker.steps \in Seq(StepType) /\ CallsDiffer(worker.steps)
  BY DEF TurnInv, WorkerTyped, WorkerType, NoRepeatedCall
<1>2. steps \in Seq(StepType) /\ Len(steps) = Len(worker.steps) + 1 /\ CallsDiffer(steps)
  BY <1>1, StepsAppended, NoCallAdded
<1>3. \A i \in 1..Len(steps) :
        IsLastCall(steps, i) => /\ i \in 1..Len(worker.steps) /\ IsLastCall(worker.steps, i)
                                /\ steps[i] = worker.steps[i]
  BY <1>1, NoCallAdded
<1> HIDE DEF steps
<1>4. worker.pc = "interpret" /\ worker'.steps = steps
  BY DEF At, steps
<1>5. WorkerTyped'
  BY DEF TurnInv, WorkerTyped
<1>6. Budget'
  <2>1. /\ worker.hops \in Nat /\ worker.nudges \in Nat /\ Len(worker.steps) \in Nat
        /\ worker.repairing \in BOOLEAN
    BY <1>1, LenProperties DEF TurnInv, WorkerTyped, WorkerType
  <2>2. CASE ~worker.repairing /\ worker'.repairing /\ worker'.nudges = worker.nudges
    BY <1>2, <1>4, <2>1, <2>2 DEF TurnInv, Budget, Repairs
  <2>3. CASE worker.nudges = 0 /\ worker.last # None /\ worker'.nudges = 1 /\ ~worker'.repairing
    BY <1>2, <1>4, <2>1, <2>3 DEF TurnInv, Budget, Repairs
  <2> QED  BY <2>2, <2>3
<1>7. LateIsLast'
  BY <1>4 DEF TurnInv, LateIsLast, Cancelled
<1>8. LastCallKnown'
  BY <1>3, <1>4 DEF TurnInv, LastCallKnown
<1>9. NoRepeatedCall'
  BY <1>2, <1>4 DEF NoRepeatedCall
<1> QED  BY <1>5, <1>6, <1>7, <1>8, <1>9 DEF TurnInv

LEMMA RepairKeeps ==
  ASSUME TurnInv, InterpretInvalid, ~worker.repairing
  PROVE  TurnInv'
<1> DEFINE x == Prose("repair_attempt")
<1>1. x \in StepType /\ x.kind # "tool_call"
  BY DEF Prose, StepType
<1> HIDE DEF x
<1>2. worker.steps \o <<x>> \in Seq(StepType)
  BY <1>1, StepsAppended DEF TurnInv, WorkerTyped, WorkerType
<1>3. worker' = [worker EXCEPT !.pc = "decode", !.out = "none", !.call = None,
                               !.repairing = TRUE, !.steps = worker.steps \o <<x>>]
  BY DEF InterpretInvalid, Continue, TurnInv, WorkerTyped, WorkerType, x
<1>4. /\ worker' \in WorkerType /\ worker'.pc = "decode" /\ worker'.steps = worker.steps \o <<x>>
      /\ worker'.hops = worker.hops /\ worker'.last = worker.last /\ worker'.late = worker.late
      /\ worker'.session = worker.session /\ worker'.repairing /\ worker'.nudges = worker.nudges
  BY <1>2, <1>3 DEF TurnInv, WorkerTyped, WorkerType
<1>5. worker.out # "prose" /\ At("interpret") /\ UNCHANGED <<queue, sent, cancelled>>
  BY DEF InterpretInvalid, Reasons
<1> QED  BY <1>1, <1>4, <1>5, ContinueKeeps

\* A nudge: something has run before, or no call could repeat it.
LEMMA NudgeKeeps ==
  ASSUME TurnInv, HandleDuplicate, ~GivesUp
  PROVE  TurnInv'
<1> DEFINE x == CallStep("duplicate_call_skipped", worker.call)
<1>1. worker.call \in Calls /\ worker.last # None
  BY TurnAssumption DEF TurnInv, LastCallKnown, HandleDuplicate, At, IsDuplicate
<1>2. x \in StepType /\ x.kind # "tool_call"
  BY <1>1 DEF CallStep, StepType
<1> HIDE DEF x
<1>3. worker.steps \o <<x>> \in Seq(StepType)
  BY <1>2, StepsAppended DEF TurnInv, WorkerTyped, WorkerType
<1>4. worker.nudges = 0
  BY DEF GivesUp, MaxDuplicateNudges, TurnInv, WorkerTyped, WorkerType
<1> DEFINE next == Continue(worker, <<x>>)
<1>5. /\ next \in WorkerType /\ next.pc = "decode" /\ next.steps = worker.steps \o <<x>>
      /\ next.hops = worker.hops /\ next.last = worker.last /\ next.late = worker.late
      /\ next.session = worker.session /\ ~next.repairing /\ next.nudges = 0
  BY <1>3, <1>4 DEF Continue, TurnInv, WorkerTyped, WorkerType
<1>6. /\ worker' \in WorkerType /\ worker'.pc = "decode" /\ worker'.steps = worker.steps \o <<x>>
      /\ worker'.hops = worker.hops /\ worker'.last = worker.last /\ worker'.late = worker.late
      /\ worker'.session = worker.session /\ ~worker'.repairing /\ worker'.nudges = 1
  <2>1. worker' = [next EXCEPT !.nudges = next.nudges + 1]
    BY DEF HandleDuplicate, x
  <2> HIDE DEF next
  <2>2. worker' = [next EXCEPT !.nudges = 1]
    BY <1>5, <2>1
  <2> QED  BY <1>5, <2>2 DEF WorkerType
<1>7. worker.out # "prose" /\ At("interpret") /\ UNCHANGED <<queue, sent, cancelled>>
  BY DEF HandleDuplicate
<1> QED  BY <1>1, <1>2, <1>4, <1>6, <1>7, ContinueKeeps

\* A call that will run is not the one that ran last.
LEMMA ValidKeeps == ASSUME TurnInv, HandleValid PROVE TurnInv'
<1>1. /\ worker.pc = "interpret" /\ worker.out = "valid" /\ worker.last # worker.call
      /\ worker.call \in Calls
  BY DEF TurnInv, LastCallKnown, HandleValid, At, IsDuplicate
<1>2. worker' = [worker EXCEPT !.pc = "execute", !.last = worker.call, !.nudges = 0]
  BY DEF HandleValid
<1>3. /\ worker' \in WorkerType /\ worker'.pc = "execute" /\ worker'.steps = worker.steps
      /\ worker'.hops = worker.hops /\ worker'.nudges = 0 /\ worker'.call = worker.call
      /\ worker'.last = worker.call /\ worker'.late = worker.late /\ worker'.session = worker.session
  BY <1>1, <1>2 DEF TurnInv, WorkerTyped, WorkerType
<1>4. WorkerTyped'
  BY <1>3 DEF TurnInv, WorkerTyped, HandleValid
<1>5. Budget'
  <2>1. /\ worker.hops \in Nat /\ worker.nudges \in Nat /\ Len(worker.steps) \in Nat /\ Repairs \in 0..1
    BY LenProperties DEF TurnInv, WorkerTyped, WorkerType, Repairs
  <2>2. worker.hops <= MaxToolHops
    BY <1>1 DEF TurnInv, Budget
  <2>3. CASE worker.hops = 0
    <3>1. Len(worker.steps) <= Repairs
      BY <1>1, <2>3 DEF TurnInv, Budget
    <3>2. Len(worker.steps) <= 5 * worker.hops + 1
      BY <2>1, <2>3, <3>1
    <3> QED  BY <1>3, <2>2, <3>2 DEF Budget
  <2>4. CASE worker.hops > 0
    <3>1. worker.nudges <= 1 /\ Len(worker.steps) <= 5 * worker.hops - 2 + 2 * worker.nudges + Repairs
      BY <1>1, <2>4 DEF TurnInv, Budget
    <3>2. ASSUME NEW l \in Nat, NEW h \in Nat, NEW n \in 0..1, NEW r \in 0..1,
                 l <= 5 * h - 2 + 2 * n + r
          PROVE  l <= 5 * h + 1
      BY <3>2
    <3>3. worker.nudges \in 0..1
      BY <2>1, <3>1
    <3>4. Len(worker.steps) <= 5 * worker.hops + 1
      BY <2>1, <3>1, <3>2, <3>3
    <3> QED  BY <1>3, <2>2, <3>4 DEF Budget
  <2> QED  BY <2>1, <2>3, <2>4
<1>6. LateIsLast'
  <2>1. worker.late # 1
    BY <1>1 DEF TurnInv, LateIsLast
  <2>2. worker.late = 0
    BY <2>1 DEF TurnInv, LateIsLast, WorkerTyped, WorkerType
  <2> QED  BY <1>3, <2>2 DEF LateIsLast
<1>7. LastCallKnown' /\ NoRepeatedCall'
  BY <1>1, <1>3 DEF TurnInv, LastCallKnown, NoRepeatedCall
<1> QED  BY <1>4, <1>5, <1>6, <1>7 DEF TurnInv

LEMMA ExecuteKeeps == ASSUME TurnInv, ExecuteValidated PROVE TurnInv'
<1>1. PICK outcome \in {"tool_result", "tool_error"} : Executed(outcome)
  BY DEF ExecuteValidated
<1> DEFINE steps == worker.steps \o <<CallStep("tool_call", worker.call), CallStep(outcome, worker.call)>>
           next == Continue(worker, <<CallStep("tool_call", worker.call), CallStep(outcome, worker.call)>>)
<1>2. /\ worker.pc = "execute" /\ worker.hops < MaxToolHops /\ UNCHANGED <<queue, sent, cancelled>>
      /\ worker.call \in Calls /\ worker.last = worker.call
  BY DEF ExecuteValidated, At, TurnInv, LastCallKnown
<1>3. /\ worker.steps \in Seq(StepType) /\ worker.hops \in Nat /\ worker.late = 0
      /\ Len(worker.steps) \in Nat /\ worker.nudges = 0
      /\ Len(worker.steps) <= 5 * worker.hops + 1
  BY <1>2, LenProperties DEF TurnInv, WorkerTyped, WorkerType, LateIsLast, Budget
<1>4. /\ steps \in Seq(StepType) /\ Len(steps) = Len(worker.steps) + 2
      /\ CallsDiffer(steps)
      /\ \A i \in 1..Len(steps) : IsLastCall(steps, i) => steps[i].call = worker.call
  BY <1>2, <1>3, CallAdded DEF TurnInv, LastCallKnown, NoRepeatedCall
<1>5. /\ next \in WorkerType /\ next.pc = "decode" /\ next.steps = steps /\ next.late = 0
      /\ next.hops = worker.hops /\ next.nudges = 0 /\ next.last = worker.call
      /\ next.session = worker.session /\ ~next.repairing
  <2> HIDE DEF steps
  <2>1. next = [worker EXCEPT !.pc = "decode", !.out = "none", !.call = None,
                              !.repairing = FALSE, !.steps = steps]
    BY DEF Continue, steps
  <2> HIDE DEF next
  <2> QED  BY <1>2, <1>3, <1>4, <2>1 DEF TurnInv, WorkerTyped, WorkerType
<1> DEFINE late == IF Cancelled THEN 1 ELSE 0
<1>6. worker' = [next EXCEPT !.hops = worker.hops + 1, !.late = late]
  <2>1. worker' = [next EXCEPT !.hops = next.hops + 1,
                               !.late = IF Cancelled THEN next.late + 1 ELSE next.late]
    BY <1>1 DEF Executed
  <2> HIDE DEF next
  <2> QED  BY <1>5, <2>1
<1>7. /\ worker' \in WorkerType /\ worker'.pc = "decode" /\ worker'.steps = steps
      /\ worker'.hops = worker.hops + 1 /\ worker'.nudges = 0 /\ worker'.last = worker.call
      /\ worker'.late = late /\ worker'.session = worker.session /\ ~worker'.repairing
  <2>1. late \in Nat /\ worker.hops + 1 \in Nat
    BY <1>3
  <2> HIDE DEF next, steps, late
  <2> QED  BY <1>5, <1>6, <2>1 DEF WorkerType
<1> HIDE DEF next, steps
<1>8. WorkerTyped'
  BY <1>2, <1>7 DEF TurnInv, WorkerTyped
<1>9. Budget'
  <2>1. /\ worker'.hops <= MaxToolHops /\ worker'.hops > 0
        /\ Len(steps) <= 5 * worker'.hops - 2
    BY <1>2, <1>3, <1>4, <1>7, TurnAssumption
  <2>2. Repairs' = 0
    BY <1>7 DEF Repairs
  <2> QED  BY <1>3, <1>7, <2>1, <2>2 DEF Budget
<1>10. LateIsLast'
  BY <1>2, <1>7 DEF LateIsLast, Cancelled
<1>11. LastCallKnown' /\ NoRepeatedCall'
  BY <1>4, <1>7 DEF LastCallKnown, NoRepeatedCall
<1> QED  BY <1>8, <1>9, <1>10, <1>11 DEF TurnInv

LEMMA EmitKeeps == ASSUME TurnInv, EmitStep PROVE TurnInv'
<1>1. /\ worker.pc = "emit" /\ worker.steps # <<>> /\ UNCHANGED <<queue, sent, cancelled>>
      /\ worker' = [worker EXCEPT !.steps = Tail(worker.steps)]
      /\ worker.steps \in Seq(StepType) /\ CallsDiffer(worker.steps) /\ Len(worker.steps) \in Nat
  BY LenProperties DEF EmitStep, EndsTurn, At, TurnInv, WorkerTyped, WorkerType, NoRepeatedCall
<1>2. /\ Tail(worker.steps) \in Seq(StepType) /\ Len(Tail(worker.steps)) = Len(worker.steps) - 1
      /\ CallsDiffer(Tail(worker.steps))
  BY <1>1, CallsDifferInTail
<1>3. /\ worker' \in WorkerType /\ worker'.pc = "emit" /\ worker'.steps = Tail(worker.steps)
      /\ worker'.late = worker.late /\ worker'.session = worker.session
  BY <1>1, <1>2 DEF TurnInv, WorkerTyped, WorkerType
<1>4. WorkerTyped'
  BY <1>1, <1>3 DEF TurnInv, WorkerTyped
<1>5. Budget'
  <2>1. Len(worker.steps) <= 5 * MaxToolHops + 2
    BY <1>1 DEF TurnInv, Budget
  <2>2. Len(Tail(worker.steps)) <= 5 * MaxToolHops + 2
    BY <1>1, <1>2, <2>1, TurnAssumption
  <2> QED  BY <1>3, <2>2 DEF Budget
<1>6. LateIsLast'
  BY <1>1, <1>3 DEF TurnInv, LateIsLast, Cancelled
<1>7. LastCallKnown' /\ NoRepeatedCall'
  BY <1>2, <1>3 DEF LastCallKnown, NoRepeatedCall
<1> QED  BY <1>4, <1>5, <1>6, <1>7 DEF TurnInv

LEMMA WorkerKeeps == ASSUME TurnInv, WorkerStep PROVE TurnInv'
<1>1. CASE TakeJob
  BY <1>1, TakeJobKeeps
<1>2. CASE LoadFails \/ EmitDone \/ EmitError
  BY <1>2, RestKeeps DEF LoadFails, AfterFailure, EmitDone, EmitError
<1>3. CASE RunJob
  BY <1>3, RunJobKeeps
<1>4. CASE Generate
  <2>1. CASE Output("prose", None)
    <3>1. worker' = [worker EXCEPT !.pc = "interpret", !.out = "prose", !.call = None,
                                   !.stopped = worker.stopped]
      BY <2>1 DEF Output, TurnInv, WorkerTyped, WorkerType
    <3> QED  BY <1>4, <3>1, OutputKeeps DEF Generate, TurnInv, WorkerTyped, WorkerType
  <2>2. CASE \E c \in Calls : Output("valid", c)
    <3>1. PICK c \in Calls : Output("valid", c)
      BY <2>2
    <3>2. worker' = [worker EXCEPT !.pc = "interpret", !.out = "valid", !.call = c,
                                   !.stopped = worker.stopped]
      BY <3>1 DEF Output, TurnInv, WorkerTyped, WorkerType
    <3> QED  BY <1>4, <3>2, OutputKeeps DEF Generate, Observes, TurnInv, WorkerTyped, WorkerType
  <2>3. CASE \E r \in Reasons : Output(r, None)
    <3>1. PICK r \in Reasons : Output(r, None)
      BY <2>3
    <3>2. worker' = [worker EXCEPT !.pc = "interpret", !.out = r, !.call = None,
                                   !.stopped = worker.stopped]
      BY <3>1 DEF Output, TurnInv, WorkerTyped, WorkerType
    <3>3. r # "valid"
      BY DEF Reasons
    <3> QED  BY <1>4, <3>2, <3>3, OutputKeeps DEF Generate, Observes, TurnInv, WorkerTyped, WorkerType
  <2> QED  BY <1>4, <2>1, <2>2, <2>3 DEF Generate
<1>5. CASE GenerateCancelled
  <2> DEFINE stopped == IF worker.stopped = "no" THEN "cancelled" ELSE worker.stopped
  <2>1. stopped \in {"no", "cancelled", "error"}
    BY DEF TurnInv, WorkerTyped, WorkerType
  <2>2. worker' = [worker EXCEPT !.pc = "interpret", !.out = "prose", !.call = None,
                                 !.stopped = stopped]
    BY <1>5 DEF GenerateCancelled
  <2> HIDE DEF stopped
  <2> QED  BY <1>5, <2>1, <2>2, OutputKeeps DEF GenerateCancelled
<1>6. CASE GenerateFails
  BY <1>6, OutputKeeps DEF GenerateFails
<1>7. CASE InterpretProse \/ HopLimit
  BY <1>7, ProseKeeps, HopLimitKeeps
<1>8. CASE InterpretInvalid
  <2>1. CASE worker.repairing
    BY <1>8, <2>1, FallbackKeeps
  <2>2. CASE ~worker.repairing
    BY <1>8, <2>2, RepairKeeps
  <2> QED  BY <2>1, <2>2
<1>9. CASE HandleDuplicate
  BY <1>9, GiveUpKeeps, NudgeKeeps
<1>10. CASE HandleValid
  BY <1>10, ValidKeeps
<1>11. CASE ExecuteValidated
  BY <1>11, ExecuteKeeps
<1>12. CASE EmitStep
  BY <1>12, EmitKeeps
<1> QED
  BY <1>1, <1>2, <1>3, <1>4, <1>5, <1>6, <1>7, <1>8, <1>9, <1>10, <1>11, <1>12 DEF WorkerStep

LEMMA TurnNextKeeps == TurnInv /\ [TurnNext]_allVars => TurnInv'
<1> SUFFICES ASSUME TurnInv, [TurnNext]_allVars PROVE TurnInv'
  OBVIOUS
<1>1. CASE WorkerStep
  BY <1>1, WorkerKeeps
<1>2. CASE \E s \in Sessions : InferenceStart(s)
  BY <1>2, StartKeeps
<1>3. CASE \E s \in Sessions : InferenceCancel(s)
  BY <1>3, CommandKeeps DEF InferenceCancel, TurnInv, WorkerTyped
<1>4. CASE UNCHANGED turnVars
  BY <1>4, CommandKeeps DEF turnVars, TurnInv, WorkerTyped
<1> QED  BY <1>1, <1>2, <1>3, <1>4 DEF TurnNext, DirectCommand, TimerTask, allVars

-------------------------------------------------------------------------------
(* The theorems.                                                             *)

LEMMA TurnInvAlways == TurnSpec => []TurnInv
  BY TurnInvInit, TurnNextKeeps, PTL DEF TurnSpec

\* However the model repeats itself, no call runs twice in a row (handle_valid).
THEOREM NoRepeatedCallTheorem == TurnSpec => []NoRepeatedCall
<1>1. TurnInv => NoRepeatedCall
  BY DEF TurnInv
<1> QED  BY <1>1, TurnInvAlways, PTL

\* Whatever the model writes, a turn ends: the hop limit, the nudge and the repair
\* bound the transcript for every limit (run_turn).
THEOREM TurnIsBoundedTheorem == TurnSpec => []TurnIsBounded
<1>1. TurnInv => TurnIsBounded
  <2> SUFFICES ASSUME TurnInv PROVE Len(worker.steps) <= 5 * MaxToolHops + 2
    BY DEF TurnIsBounded
  <2>1. /\ worker.pc \in {"idle", "load", "decode", "interpret", "execute", "emit"}
        /\ worker.hops \in Nat /\ worker.nudges \in Nat /\ Len(worker.steps) \in Nat
        /\ Repairs \in 0..1 /\ 5 * MaxToolHops + 2 \in Nat
    BY LenProperties, TurnAssumption DEF TurnInv, WorkerTyped, WorkerType, Repairs
  <2>2. CASE worker.pc \in {"idle", "load"}
    <3>1. Len(worker.steps) = 0
      BY <2>2 DEF TurnInv, Budget
    <3> QED  BY <2>1, <3>1
  <2>3. CASE worker.pc \in {"decode", "interpret"} /\ worker.hops = 0
    <3>1. Len(worker.steps) <= Repairs
      BY <2>3 DEF TurnInv, Budget
    <3> QED  BY <2>1, <3>1, TurnAssumption
  <2>4. CASE worker.pc \in {"decode", "interpret"} /\ worker.hops > 0
    <3>1. /\ worker.hops <= MaxToolHops /\ worker.nudges <= 1
          /\ Len(worker.steps) <= 5 * worker.hops - 2 + 2 * worker.nudges + Repairs
      BY <2>4 DEF TurnInv, Budget
    <3>2. ASSUME NEW l \in Nat, NEW h \in Nat, NEW m \in Nat, NEW n \in 0..1, NEW r \in 0..1,
                 h <= m, l <= 5 * h - 2 + 2 * n + r
          PROVE  l <= 5 * m + 2
      BY <3>2
    <3>3. worker.nudges \in 0..1
      BY <2>1, <3>1
    <3> QED  BY <2>1, <3>1, <3>2, <3>3, TurnAssumption
  <2>5. CASE worker.pc = "execute"
    <3>1. worker.hops <= MaxToolHops /\ Len(worker.steps) <= 5 * worker.hops + 1
      BY <2>5 DEF TurnInv, Budget
    <3> QED  BY <2>1, <3>1, TurnAssumption
  <2>6. CASE worker.pc = "emit"
    BY <2>6 DEF TurnInv, Budget
  <2> QED  BY <2>1, <2>2, <2>3, <2>4, <2>5, <2>6
<1> QED  BY <1>1, TurnInvAlways, PTL

\* A cancelled turn runs at most the tool it had already chosen (generate_stream).
THEOREM CancelStopsToolsTheorem == TurnSpec => []CancelStopsTools
<1>1. TurnInv => CancelStopsTools
  BY DEF TurnInv, LateIsLast, CancelStopsTools
<1> QED  BY <1>1, TurnInvAlways, PTL

\* The worker's tools and the commands beside it are steps of the tools too.
LEMMA TurnsUseTools == TurnInv /\ [TurnNext]_allVars => [ToolStep]_toolVars
<1> SUFFICES ASSUME TurnInv, [TurnNext]_allVars PROVE [ToolStep]_toolVars
  OBVIOUS
<1>1. CASE ExecuteValidated
  <2>1. worker.call \in Calls
    BY <1>1 DEF ExecuteValidated, At, TurnInv, LastCallKnown
  <2>2. CASE worker.call.tool = "start_timer" /\ \E t \in Timers : StartTimer(t, worker.call.seconds)
    BY <2>1, <2>2, CallsAssumption DEF ToolStep
  <2>3. CASE worker.call.tool = "list_manage" /\ ManageList(worker.call.op)
    BY <2>1, <2>3, CallsAssumption DEF ToolStep
  <2>4. CASE UNCHANGED toolVars
    BY <2>4
  <2> QED  BY <1>1, <2>2, <2>3, <2>4 DEF ExecuteValidated
<1>2. CASE DirectCommand
  <2>1. ASSUME NEW t \in Timers, NEW c \in Calls, c.tool = "start_timer", StartTimer(t, c.seconds)
        PROVE  ToolStep
    BY <2>1, CallsAssumption DEF ToolStep
  <2>2. ASSUME NEW t \in Timers, NEW running \in BOOLEAN, SetTimerRunning(t, running)
        PROVE  ToolStep
    BY <2>2 DEF ToolStep
  <2>3. ASSUME NEW t \in Timers, ResetTimer(t) PROVE ToolStep
    BY <2>3 DEF ToolStep
  <2>4. ASSUME NEW op \in ListRequests, ManageList(op) PROVE ToolStep
    BY <2>4 DEF ToolStep
  <2> QED  BY <1>2, <2>1, <2>2, <2>3, <2>4 DEF DirectCommand
<1>3. ASSUME NEW t \in Timers, TimerTask(t) PROVE [ToolStep]_toolVars
  BY <1>3 DEF TimerTask, ToolStep
<1>4. ASSUME NEW s \in Sessions, InferenceStart(s) \/ InferenceCancel(s) PROVE UNCHANGED toolVars
  BY <1>4 DEF InferenceStart, InferenceCancel
<1>5. CASE TakeJob \/ LoadFails \/ RunJob \/ Generate \/ GenerateCancelled \/ GenerateFails
  BY <1>5 DEF TakeJob, LoadFails, RunJob, Generate, GenerateCancelled, GenerateFails
<1>6. CASE InterpretProse \/ InterpretInvalid \/ HandleDuplicate \/ HandleValid \/ HopLimit
  BY <1>6 DEF InterpretProse, InterpretInvalid, HandleDuplicate, HandleValid, HopLimit
<1>7. CASE EmitStep \/ EmitDone \/ EmitError
  BY <1>7 DEF EmitStep, EmitDone, EmitError
<1>8. CASE UNCHANGED allVars
  BY <1>8 DEF allVars
<1> QED  BY <1>1, <1>2, <1>3, <1>4, <1>5, <1>6, <1>7, <1>8 DEF TurnNext, WorkerStep

\* The variables that the invariant of the turn says nothing about.
RestTyped ==
  /\ sent \in 0..MaxJobs
  /\ cancelled \subseteq Sessions
  /\ loaded \in BOOLEAN
  /\ ended \in [Jobs -> {"no", "done", "error"}]

LEMMA RestTypedKeeps == RestTyped /\ [TurnNext]_allVars => RestTyped'
<1> SUFFICES ASSUME RestTyped, [TurnNext]_allVars PROVE RestTyped'
  OBVIOUS
<1> USE DEF RestTyped
<1>1. CASE \E s \in Sessions : InferenceStart(s) \/ InferenceCancel(s)
  BY <1>1, TurnAssumption DEF InferenceStart, InferenceCancel
<1>2. CASE LoadFails \/ RunJob \/ EmitDone \/ EmitError
  BY <1>2 DEF LoadFails, RunJob, EmitDone, EmitError
<1>3. CASE TakeJob \/ Generate \/ GenerateCancelled \/ GenerateFails \/ EmitStep
  BY <1>3 DEF TakeJob, Generate, GenerateCancelled, GenerateFails, EmitStep
<1>4. CASE InterpretProse \/ InterpretInvalid \/ HandleDuplicate \/ HandleValid
  BY <1>4 DEF InterpretProse, InterpretInvalid, HandleDuplicate, HandleValid
<1>5. CASE HopLimit \/ ExecuteValidated
  BY <1>5 DEF HopLimit, ExecuteValidated
<1>6. CASE UNCHANGED turnVars
  BY <1>6 DEF turnVars
<1> QED
  BY <1>1, <1>2, <1>3, <1>4, <1>5, <1>6 DEF TurnNext, WorkerStep, DirectCommand, TimerTask, allVars

LEMMA TurnKeepsToolsInv == TurnSpec => []ToolsInv
<1>1. TurnInit => ToolsInv
  BY ToolsInvInit DEF TurnInit
<1> QED  BY <1>1, TurnInvAlways, TurnsUseTools, ToolStepKeeps, PTL DEF TurnSpec

\* Worker and commands, in any interleaving, keep the timers and the list as they
\* are kept alone (CatalogToolRunner.run and tool_call on one state).
THEOREM TurnKeepsTools == TurnSpec => [](OneTicker /\ GeneratedIdsDistinct)
BY TurnKeepsToolsInv, ToolsInvSuffices, PTL

\* The queue, the worker, the cancels and the endings keep their declared shape, and
\* the tools that the worker shares with the commands keep theirs (run_job, tools.rs).
THEOREM TurnTypeTheorem == TurnSpec => []TurnTypeOK
<1>1. TurnInit => RestTyped
  <2> SUFFICES ASSUME TurnInit PROVE RestTyped
    OBVIOUS
  <2>1. sent = 0 /\ cancelled = {} /\ loaded = FALSE /\ ended = [j \in Jobs |-> "no"]
    BY Zenon DEF TurnInit
  <2>2. 0 \in 0..MaxJobs
    BY TurnAssumption
  <2> QED  BY <2>1, <2>2 DEF RestTyped
<1>2. TurnInv /\ RestTyped /\ ToolStateTypeOK => TurnTypeOK
  BY DEF TurnInv, WorkerTyped, RestTyped, TurnTypeOK
<1>3. TurnSpec => []RestTyped
  BY <1>1, RestTypedKeeps, PTL DEF TurnSpec
<1>4. ToolsInv => ToolStateTypeOK
  BY ToolsInvSuffices
<1> QED
  BY <1>2, <1>3, <1>4, TurnInvAlways, TurnKeepsToolsInv, PTL
===============================================================================
