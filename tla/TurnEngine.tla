------------------------------ MODULE TurnEngine ------------------------------
(***************************************************************************)
(* One worker thread answers user messages (inference.rs): it takes a job  *)
(* from its channel, loads the model if there is none, drives the turn     *)
(* state machine (turn.rs) with the model's output and then shows the      *)
(* transcript as events.  Commands run beside it on the main thread: they  *)
(* start and cancel turns, and use the tools and the timers directly.      *)
(*                                                                         *)
(* What the model writes is a choice: prose, a call of the tool catalogue  *)
(* or something that does not validate.  A call stands for a tool and its  *)
(* arguments.  One decoding is two steps, so that a cancel can fall before *)
(* or during it.                                                           *)
(***************************************************************************)
EXTENDS ToolState

CONSTANTS
  Sessions,
  Calls,        \* valid calls: records [tool, seconds, op]; equal calls are the same call
  MaxToolHops,  \* TurnConfig.max_tool_hops
  MaxJobs,      \* bound: messages sent
  None

ASSUME TurnAssumption == MaxToolHops \in Nat /\ MaxJobs \in Nat /\ None \notin Calls
ASSUME CallsAssumption ==
  \A c \in Calls : /\ c.tool = "start_timer" => c.seconds \in 1..MaxDuration
                   /\ c.tool = "list_manage" => c.op \in ListRequests

VARIABLES
  queue,     \* the channel of jobs
  sent,      \* jobs sent so far
  cancelled, \* CancelRegistry: sessions with a cancel request
  loaded,    \* whether the worker holds a model
  worker,    \* the worker thread and its turn
  ended      \* how each finished job ended: "done" or "error"

turnVars == <<queue, sent, cancelled, loaded, worker, ended>>
allVars == <<toolVars, turnVars>>

Jobs == 1..MaxJobs
MaxDuplicateNudges == 1

\* Output that does not validate: no call of the catalogue can be made out
\* (malformed JSON, unknown tool), or the tool is known and its arguments are bad.
Reasons == {"no_tool", "invalid_args"}
Prose(kind) == [kind |-> kind, call |-> None]
CallStep(kind, call) == [kind |-> kind, call |-> call]
StepType ==
  [kind : {"prose", "giveup", "tool_call", "tool_result", "tool_error", "repair_attempt",
           "fallback_widget", "fallback_question", "duplicate_call_skipped", "hop_limit_reached"},
   call : Calls \cup {None}]

\* out: the model's output in hand.  stopped: RealEngine's cancelled and error.
\* late: tools run since the session was cancelled.
WorkerType ==
  [pc : {"idle", "load", "decode", "interpret", "execute", "emit"},
   job : Jobs \cup {0}, session : Sessions \cup {None},
   out : {"none", "prose", "valid"} \cup Reasons, call : Calls \cup {None},
   repairing : BOOLEAN, hops : Nat, last : Calls \cup {None}, nudges : Nat,
   stopped : {"no", "cancelled", "error"}, steps : Seq(StepType), late : Nat]
Idle == [pc |-> "idle", job |-> 0, session |-> None, out |-> "none", call |-> None,
         repairing |-> FALSE, hops |-> 0, last |-> None, nudges |-> 0, stopped |-> "no",
         steps |-> <<>>, late |-> 0]

TurnInit ==
  /\ ToolStateInit
  /\ queue = <<>> /\ sent = 0 /\ cancelled = {} /\ loaded = FALSE
  /\ worker = Idle /\ ended = [j \in Jobs |-> "no"]

At(pc) == worker.pc = pc
Cancelled == worker.session \in cancelled

-------------------------------------------------------------------------------
(* Commands.                                                                 *)

\* inference_start.
InferenceStart(s) ==
  /\ sent < MaxJobs
  /\ sent' = sent + 1
  /\ queue' = Append(queue, [job |-> sent + 1, session |-> s])
  /\ UNCHANGED <<cancelled, loaded, worker, ended, toolVars>>

\* inference_cancel: only a note; nothing tells whether the session has a turn.
InferenceCancel(s) ==
  /\ cancelled' = cancelled \cup {s}
  /\ UNCHANGED <<queue, sent, loaded, worker, ended, toolVars>>

\* tool_call with a stateful tool, and timer_pause, timer_resume and timer_reset.
DirectCommand ==
  /\ \/ \E t \in Timers : \/ \E c \in Calls : c.tool = "start_timer" /\ StartTimer(t, c.seconds)
                          \/ \E running \in BOOLEAN : SetTimerRunning(t, running)
                          \/ ResetTimer(t)
     \/ \E op \in ListRequests : itemSeq + IdsUsed(op) <= MaxItemSeq /\ ManageList(op)
  /\ UNCHANGED turnVars

\* The countdown tasks.
TimerTask(t) == (SpawnTask(t) \/ Tick(t)) /\ UNCHANGED turnVars

-------------------------------------------------------------------------------
(* The worker: taking a job.                                                 *)

TakeJob ==
  /\ At("idle") /\ queue # <<>>
  /\ worker' = [worker EXCEPT !.pc = "load", !.job = Head(queue).job,
                              !.session = Head(queue).session]
  /\ queue' = Tail(queue)
  /\ UNCHANGED <<sent, cancelled, loaded, ended, toolVars>>

(* A definition whose name begins with Mutant is the next one with a plausible
   bug.  No specification uses it: it shows which property the bug breaks.     *)

\* The worker ends with the job that failed.
MutantAfterFailure == [Idle EXCEPT !.pc = "gone"]

\* The worker keeps serving.
AfterFailure == Idle

\* A load that fails ends the job with an error event; the next one tries again.
LoadFails ==
  /\ At("load") /\ ~loaded
  /\ ended' = [ended EXCEPT ![worker.job] = "error"]
  /\ worker' = AfterFailure
  /\ UNCHANGED <<queue, sent, cancelled, loaded, toolVars>>

\* run_job starts by forgetting a cancel of the session, whichever turn it was for.
RunJob ==
  /\ At("load")
  /\ loaded' = TRUE
  /\ cancelled' = cancelled \ {worker.session}
  /\ worker' = [worker EXCEPT !.pc = "decode"]
  /\ UNCHANGED <<queue, sent, ended, toolVars>>

-------------------------------------------------------------------------------
(* The worker: one generation.                                               *)

Output(kind, call) ==
  worker' = [worker EXCEPT !.pc = "interpret", !.out = kind, !.call = call]

MutantObserves == FALSE
\* generate_stream asks before every token; a stopped engine answers empty prose.
Observes == Cancelled \/ worker.stopped # "no"

\* The decoding ends before its session is cancelled.
Generate ==
  /\ At("decode") /\ ~Observes
  /\ \/ Output("prose", None)
     \/ \E c \in Calls : Output("valid", c)
     \/ \E r \in Reasons : Output(r, None)
  /\ UNCHANGED <<queue, sent, cancelled, loaded, ended, toolVars>>

\* It is cut short: what has been decoded is prose, and the turn ends with it.
GenerateCancelled ==
  /\ At("decode") /\ Observes
  /\ worker' = [worker EXCEPT !.pc = "interpret", !.out = "prose", !.call = None,
                              !.stopped = IF @ = "no" THEN "cancelled" ELSE @]
  /\ UNCHANGED <<queue, sent, cancelled, loaded, ended, toolVars>>

\* The context, the tokens or a decode step fail.
GenerateFails ==
  /\ At("decode") /\ worker.stopped = "no"
  /\ worker' = [worker EXCEPT !.pc = "interpret", !.out = "prose", !.call = None,
                              !.stopped = "error"]
  /\ UNCHANGED <<queue, sent, cancelled, loaded, ended, toolVars>>

-------------------------------------------------------------------------------
(* The worker: run_turn.                                                     *)

\* Push steps and go on with the turn, or end it and show the transcript.
Continue(w, steps) == [w EXCEPT !.pc = "decode", !.out = "none", !.call = None,
                                !.repairing = FALSE, !.steps = @ \o steps]
Stop(w, steps) == [w EXCEPT !.pc = "emit", !.out = "none", !.call = None, !.steps = @ \o steps]

InterpretProse ==
  /\ At("interpret") /\ worker.out = "prose"
  /\ worker' = Stop(worker, <<Prose("prose")>>)
  /\ UNCHANGED <<queue, sent, cancelled, loaded, ended, toolVars>>

\* One repair, then the fallback: a widget for a known tool, else a question.
InterpretInvalid ==
  /\ At("interpret") /\ worker.out \in Reasons
  /\ worker' =
       IF worker.repairing
         THEN Stop(worker, <<Prose(IF worker.out = "invalid_args" THEN "fallback_widget"
                                   ELSE "fallback_question")>>)
         ELSE [Continue(worker, <<Prose("repair_attempt")>>) EXCEPT !.repairing = TRUE]
  /\ UNCHANGED <<queue, sent, cancelled, loaded, ended, toolVars>>

MutantIsDuplicate == worker.last = worker.call /\ ~worker.repairing
\* The same call as the one executed last, whatever it returned.
IsDuplicate == worker.last = worker.call

MutantGivesUp == FALSE
\* The model has been told already that the call will not run again.
GivesUp == worker.nudges >= MaxDuplicateNudges

HandleDuplicate ==
  /\ At("interpret") /\ worker.out = "valid" /\ IsDuplicate
  /\ worker' =
       IF GivesUp
         THEN Stop(worker, <<Prose("giveup")>>)
         ELSE [Continue(worker, <<CallStep("duplicate_call_skipped", worker.call)>>)
                 EXCEPT !.nudges = @ + 1]
  /\ UNCHANGED <<queue, sent, cancelled, loaded, ended, toolVars>>

HandleValid ==
  /\ At("interpret") /\ worker.out = "valid" /\ ~IsDuplicate
  /\ worker' = [worker EXCEPT !.pc = "execute", !.last = worker.call, !.nudges = 0]
  /\ UNCHANGED <<queue, sent, cancelled, loaded, ended, toolVars>>

HopLimit ==
  /\ At("execute") /\ worker.hops >= MaxToolHops
  /\ worker' = Stop(worker, <<Prose("hop_limit_reached")>>)
  /\ UNCHANGED <<queue, sent, cancelled, loaded, ended, toolVars>>

\* The outcome is recorded and fed back, and the model goes on.
Executed(outcome) ==
  worker' = [Continue(worker, <<CallStep("tool_call", worker.call),
                                CallStep(outcome, worker.call)>>)
               EXCEPT !.hops = @ + 1, !.late = IF Cancelled THEN @ + 1 ELSE @]

\* CatalogToolRunner.run: the stateful tools through tools::execute, the others
\* as pure functions that may fail (a division by zero, a date out of range).
\* A timer past the bound on timers is answered and not tracked.
ExecuteValidated ==
  /\ At("execute") /\ worker.hops < MaxToolHops
  /\ \/ /\ worker.call.tool = "start_timer"
        /\ \/ \E t \in Timers : StartTimer(t, worker.call.seconds)
           \/ (\A t \in Timers : timer[t].exists) /\ UNCHANGED toolVars
        /\ Executed("tool_result")
     \/ /\ worker.call.tool = "list_manage"
        /\ ManageList(worker.call.op)
        /\ Executed(IF \A i \in 1..Len(worker.call.op.items) : worker.call.op.items[i].named
                      THEN "tool_result" ELSE "tool_error")
     \/ /\ worker.call.tool = "stateless"
        /\ \E outcome \in {"tool_result", "tool_error"} : Executed(outcome)
        /\ UNCHANGED toolVars
  /\ UNCHANGED <<queue, sent, cancelled, loaded, ended>>

-------------------------------------------------------------------------------
(* The worker: the events.                                                   *)

\* emit_steps has shown everything, or sees the cancel and skips the rest.
EndsTurn == worker.steps = <<>> \/ Cancelled

EmitStep ==
  /\ At("emit") /\ worker.stopped # "error" /\ ~EndsTurn
  /\ worker' = [worker EXCEPT !.steps = Tail(@)]
  /\ UNCHANGED <<queue, sent, cancelled, loaded, ended, toolVars>>

EmitDone ==
  /\ At("emit") /\ worker.stopped # "error" /\ EndsTurn
  /\ ended' = [ended EXCEPT ![worker.job] = "done"]
  /\ worker' = Idle
  /\ UNCHANGED <<queue, sent, cancelled, loaded, toolVars>>

\* After an engine error the error event is all there is.
EmitError ==
  /\ At("emit") /\ worker.stopped = "error"
  /\ ended' = [ended EXCEPT ![worker.job] = "error"]
  /\ worker' = Idle
  /\ UNCHANGED <<queue, sent, cancelled, loaded, toolVars>>

-------------------------------------------------------------------------------
WorkerStep ==
  \/ TakeJob \/ LoadFails \/ RunJob
  \/ Generate \/ GenerateCancelled \/ GenerateFails
  \/ InterpretProse \/ InterpretInvalid \/ HandleDuplicate \/ HandleValid
  \/ HopLimit \/ ExecuteValidated
  \/ EmitStep \/ EmitDone \/ EmitError

TurnNext ==
  \/ WorkerStep
  \/ \E s \in Sessions : InferenceStart(s) \/ InferenceCancel(s)
  \/ DirectCommand
  \/ \E t \in Timers : TimerTask(t)

\* The worker thread and the timer tasks run; nobody has to send anything.
TurnFairness ==
  /\ WF_allVars(WorkerStep)
  /\ \A t \in Timers : WF_allVars(SpawnTask(t) /\ UNCHANGED turnVars)
                       /\ WF_allVars(Tick(t) /\ UNCHANGED turnVars)

TurnSpec == TurnInit /\ [][TurnNext]_allVars /\ TurnFairness

-------------------------------------------------------------------------------
(* Properties.                                                               *)

\* The state has the declared shape.
TurnTypeOK ==
  /\ ToolStateTypeOK
  /\ queue \in Seq([job : Jobs, session : Sessions])
  /\ sent \in 0..MaxJobs
  /\ cancelled \subseteq Sessions
  /\ loaded \in BOOLEAN
  /\ worker \in WorkerType
  /\ ended \in [Jobs -> {"no", "done", "error"}]

\* Two calls of a transcript with no other call between them are not the same.
Ran(steps, i) == steps[i].kind = "tool_call"
CallsDiffer(steps) ==
  \A i, j \in 1..Len(steps) :
    i < j /\ Ran(steps, i) /\ Ran(steps, j) /\ (\A k \in i + 1..j - 1 : ~Ran(steps, k))
      => steps[i].call # steps[j].call

\* A small model that repeats itself never runs one call twice in a row, however
\* it gets there: at once, after a nudge, or by way of a repair (handle_valid,
\* last_executed).
NoRepeatedCall == CallsDiffer(worker.steps)

\* No output of the model keeps a turn going: repairs, nudges and hops together
\* bound the transcript, and with it the generations (run_turn, handle_valid,
\* execute_validated).
TurnIsBounded == Len(worker.steps) <= 5 * MaxToolHops + 2

\* Once a running turn is cancelled, at most the call already in hand still runs:
\* the next generation sees the cancel before its first token (run_job,
\* generate_stream).
CancelStopsTools == worker.late <= 1

\* Every message sent is answered with done or with an error: jobs queue behind
\* one worker, the model may fail to load, a turn may be cancelled at any moment.
JobsEnd == \A j \in Jobs : sent >= j ~> ended[j] # "no"
===============================================================================
