------------------------------- MODULE ToolState -------------------------------
(***************************************************************************)
(* The stateful tools (tools.rs): kitchen timers and the ingredient list,  *)
(* behind one mutex.  A timer that counts has a task of its own that ticks *)
(* once a second; the task is spawned after the lock that decided to spawn *)
(* it has been released, so a spawn may be pending.  Remaining seconds are *)
(* kept, labels are not.  An item is the number N of its id item_N.        *)
(***************************************************************************)
EXTENDS SequencesExt, Subsequences

CONSTANTS
  Timers,       \* uuids of timers
  MaxDuration,  \* bound: seconds of the longest timer
  MaxItemSeq,   \* bound: ids generated
  ListRequests  \* arguments of list_manage, records [op, items]

ASSUME DurationAssumption == MaxDuration \in Nat \ {0}
ASSUME ListAssumption ==
  \A op \in ListRequests :
    /\ op.op \in {"add", "remove", "check", "uncheck", "set_all"}
    /\ op.items \in Seq([id : Nat, checked : BOOLEAN, named : BOOLEAN])

VARIABLES
  timer,       \* the TimerRecord of each uuid
  tickers,     \* countdown tasks of each timer that have not left their loop
  spawning,    \* countdown tasks of each timer that are still to be spawned
  ingredients, \* the list
  itemSeq      \* item_seq

toolVars == <<timer, tickers, spawning, ingredients, itemSeq>>

TimerType == [exists : BOOLEAN, duration : 0..MaxDuration, remaining : 0..MaxDuration,
              running : BOOLEAN, alive : BOOLEAN]
NoTimer == [exists |-> FALSE, duration |-> 0, remaining |-> 0, running |-> FALSE, alive |-> FALSE]

\* generated: whether list_manage made the id itself.
ItemType == [id : Nat, checked : BOOLEAN, generated : BOOLEAN]

ToolStateInit ==
  /\ timer = [t \in Timers |-> NoTimer]
  /\ tickers = [t \in Timers |-> 0]
  /\ spawning = [t \in Timers |-> 0]
  /\ ingredients = <<>>
  /\ itemSeq = 0

-------------------------------------------------------------------------------
(* Timers.                                                                   *)

\* start_timer: the record is inserted under the lock, the task spawned after it.
StartTimer(t, d) ==
  /\ ~timer[t].exists
  /\ timer' = [timer EXCEPT ![t] = [exists |-> TRUE, duration |-> d, remaining |-> d,
                                    running |-> TRUE, alive |-> TRUE]]
  /\ spawning' = [spawning EXCEPT ![t] = @ + 1]
  /\ UNCHANGED <<tickers, ingredients, itemSeq>>

(* A definition whose name begins with Mutant is the next one with a plausible
   bug.  No specification uses it: it shows which property the bug breaks. *)
MutantSpawned(t) == 0
\* The task that has been decided on.
Spawned(t) == 1

\* spawn_timer_task.
SpawnTask(t) ==
  /\ spawning[t] > 0
  /\ spawning' = [spawning EXCEPT ![t] = @ - 1]
  /\ tickers' = [tickers EXCEPT ![t] = @ + Spawned(t)]
  /\ UNCHANGED <<timer, ingredients, itemSeq>>

\* One turn of a task's loop: an idle timer is left alone, one that reaches zero
\* stops and its task leaves the loop.
Tick(t) ==
  /\ tickers[t] > 0 /\ timer[t].running /\ timer[t].remaining > 0
  /\ IF timer[t].remaining = 1
       THEN /\ timer' = [timer EXCEPT ![t] = [@ EXCEPT !.remaining = 0, !.running = FALSE,
                                                       !.alive = FALSE]]
            /\ tickers' = [tickers EXCEPT ![t] = @ - 1]
       ELSE timer' = [timer EXCEPT ![t].remaining = @ - 1] /\ UNCHANGED tickers
  /\ UNCHANGED <<spawning, ingredients, itemSeq>>

\* set_timer_running: pause and resume.
SetTimerRunning(t, running) ==
  /\ timer[t].exists
  /\ timer' = [timer EXCEPT ![t].running = running /\ timer[t].remaining > 0]
  /\ UNCHANGED <<tickers, spawning, ingredients, itemSeq>>

MutantNeedsSpawn(t) == TRUE
NeedsSpawn(t) == ~timer[t].alive

\* reset_timer: a task is spawned again only when the old one has finished.
ResetTimer(t) ==
  /\ timer[t].exists
  /\ timer' = [timer EXCEPT ![t].remaining = timer[t].duration, ![t].running = FALSE,
                            ![t].alive = TRUE]
  /\ spawning' = [spawning EXCEPT ![t] = @ + (IF NeedsSpawn(t) THEN 1 ELSE 0)]
  /\ UNCHANGED <<tickers, ingredients, itemSeq>>

-------------------------------------------------------------------------------
(* The ingredient list.                                                      *)

Item(id, checked, generated) == [id |-> id, checked |-> checked, generated |-> generated]

\* How many of the first n items of a request have no id of their own.
Unnamed(items, n) == Cardinality({i \in 1..n : items[i].id = 0})

MutantNextId == Len(ingredients) + 1
\* The number of the next generated id.
NextId == itemSeq + 1

NewItems(items) ==
  [i \in 1..Len(items) |->
     IF items[i].id # 0 THEN Item(items[i].id, items[i].checked, FALSE)
     ELSE Item(NextId + Unnamed(items, i) - 1, items[i].checked, TRUE)]

Matches(op, item) == op.items # <<>> /\ op.items[1].id = item.id

\* The first item with that id takes the mark.
Marks(op, checked) ==
  IF \E i \in 1..Len(ingredients) : Matches(op, ingredients[i])
    THEN [ingredients EXCEPT ![SelectInSeq(ingredients, LAMBDA it : Matches(op, it))].checked
            = checked]
    ELSE ingredients

\* The first item of a request without a name, or 0.
FirstBad(op) == SelectInSeq(op.items, LAMBDA it : ~it.named)

\* How many ids a request uses up: a set_all that fails has used some too.
IdsUsed(op) ==
  CASE op.op = "add" -> 1
    [] op.op = "set_all" ->
         Unnamed(op.items, IF FirstBad(op) = 0 THEN Len(op.items) ELSE FirstBad(op))
    [] OTHER -> 0

\* list_manage.  A set_all with an item that has no name fails at that item: the
\* list stays, the ids generated before it are gone.
ManageList(op) ==
  /\ itemSeq' = itemSeq + IdsUsed(op)
  /\ ingredients' =
       CASE op.op = "add" -> Append(ingredients, Item(NextId, FALSE, TRUE))
         [] op.op = "remove" ->
              Retained(ingredients, {i \in 1..Len(ingredients) : ~Matches(op, ingredients[i])})
         [] op.op = "check" -> Marks(op, TRUE)
         [] op.op = "uncheck" -> Marks(op, FALSE)
         [] op.op = "set_all" -> IF FirstBad(op) = 0 THEN NewItems(op.items) ELSE ingredients
  /\ UNCHANGED <<timer, tickers, spawning>>

-------------------------------------------------------------------------------
ToolStateNext ==
  \/ \E t \in Timers :
       \/ \E d \in 1..MaxDuration : StartTimer(t, d)
       \/ SpawnTask(t) \/ Tick(t) \/ ResetTimer(t)
       \/ \E running \in BOOLEAN : SetTimerRunning(t, running)
  \/ \E op \in ListRequests : itemSeq + IdsUsed(op) <= MaxItemSeq /\ ManageList(op)

\* The runtime polls every task it has been given.
ToolStateFairness == \A t \in Timers : WF_toolVars(SpawnTask(t)) /\ WF_toolVars(Tick(t))

ToolStateSpec == ToolStateInit /\ [][ToolStateNext]_toolVars /\ ToolStateFairness

\* The state has the declared shape.
ToolStateTypeOK ==
  /\ timer \in [Timers -> TimerType]
  /\ tickers \in [Timers -> Nat]
  /\ spawning \in [Timers -> Nat]
  /\ ingredients \in Seq(ItemType)
  /\ itemSeq \in Nat

\* Nothing counts a timer down twice as fast: start, pause, resume and reset in
\* any order, and resets that race the last tick, never leave a timer two tasks,
\* and a timer that runs has one (spawn_timer_task, task_alive).
OneTicker ==
  \A t \in Timers :
    /\ tickers[t] + spawning[t] = IF timer[t].alive THEN 1 ELSE 0
    /\ timer[t].running => timer[t].alive /\ timer[t].remaining > 0

\* Two entries of the list that were both given an id by list_manage never
\* share it, whatever adds, removals and set_alls (failed ones too) came between.
\* An id that a request names itself may collide with one of these.
GeneratedIdsDistinct ==
  \A i, j \in 1..Len(ingredients) :
    ingredients[i].generated /\ ingredients[j].generated /\ ingredients[i].id = ingredients[j].id
      => i = j

\* A running timer comes to rest, at zero or at a pause or a reset: it never
\* hangs in "running" without the task that would finish it.
RunningTimerRests == \A t \in Timers : timer[t].running ~> ~timer[t].running
===============================================================================
