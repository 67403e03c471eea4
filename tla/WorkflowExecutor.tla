--------------------------- MODULE WorkflowExecutor ---------------------------
(***************************************************************************)
(* The workflow engine (crates/hom-workflow): `execute_inner` drives a DAG *)
(* of steps batch by batch, `execute_step` runs one step as a spawned task *)
(* with retries and an optional fallback, and the outcomes are collected,  *)
(* in the order the tasks finish, into the maps the conditions and prompt  *)
(* templates of later steps read and the checkpoint store persists.        *)
(*                                                                         *)
(* A step is the index of its definition: `ready_steps` walks the graph's  *)
(* nodes in that order.  Prompts and outputs are abstracted to what later  *)
(* steps can tell apart.  The runtime (panes, event loop) is seen through  *)
(* the replies of its three calls; MODULE EventLoop models it.             *)
(***************************************************************************)
EXTENDS Naturals, FiniteSets

CONSTANTS NumSteps,     \* number of steps of the workflow
          Outputs,      \* what a harness may answer (texts, never "")
          Definitions,  \* the workflow definitions considered
          StoreMayFail  \* whether the checkpoint store may return errors

Steps == 1 .. NumSteps
Unknown == 0                    \* a step id that names no step
Ids == Steps \cup {Unknown}
Nothing == ""                   \* no output, no status

(* One comparison of a condition.  `contains` and `==` differ only in the  *)
(* texts they accept, so both are "==" over the abstract texts.            *)
Literal == [step : Ids, field : {"status", "output"}, op : {"==", "!="}, value : STRING]

(* What a YAML file says of its steps.  `cond` is a disjunction of         *)
(* conjunctions; {} is "no condition".  `uses` holds the ids whose output  *)
(* the prompt template refers to.  A missing `on_failure` is "abort".      *)
IsDefinition(d) ==
    /\ d.deps \in [Steps -> SUBSET Ids]
    /\ d.uses \in [Steps -> SUBSET Ids]
    /\ \A s \in Steps : \A clause \in d.cond[s] : clause \subseteq Literal
    /\ d.onFailure \in [Steps -> {"abort", "skip", "fallback"}]
    /\ d.fallback \in [Steps -> Ids]
    /\ d.maxAttempts \in [Steps -> Nat]

ASSUME StepsAssumption == NumSteps \in Nat
ASSUME StoreAssumption == StoreMayFail \in BOOLEAN
ASSUME OutputsAssumption == Nothing \notin Outputs
ASSUME DefinitionsAssumption == \A d \in Definitions : IsDefinition(d)

VARIABLES
    def,         \* the definition being executed
    pc,          \* where execute_inner is
    verdict,     \* the WorkflowResult (or Err) it returned
    ready,       \* rest of the batch's ready steps, still to be looked at
    runnable,    \* runnable_steps of the batch
    results,     \* step_results; its status field is also step_statuses
    outputs,     \* step_outputs
    completed,   \* the ids pushed on `completed` ...
    pushes,      \* ... and how many pushes there were (its len)
    joined,      \* the step whose success is being persisted
    task,        \* the task of each step
    reported,    \* last status sent with report_step_status
    checkpoint,  \* the checkpoint in the store (all NoResult: none)
    saved        \* steps with a row written by save_step_result

batchVars == <<ready, runnable>>
stepVars == <<results, outputs, completed, pushes, joined>>
storeVars == <<checkpoint, saved>>
vars == <<def, pc, verdict, batchVars, stepVars, task, reported, storeVars>>

-------------------------------------------------------------------------------
NoResult == [status |-> Nothing, attempt |-> 0]
Status(s) == results[s].status

Task(phase) == [phase |-> phase, attempt |-> 0, fallback |-> FALSE, output |-> Nothing]
NoTask == Task("idle")
InFlight(s) == task[s].phase \in {"started", "backoff", "spawning", "waiting", "killing", "finished"}

(* toposort succeeds: every nonempty set of steps has one that depends on  *)
(* none of the set.                                                        *)
Acyclic(d) == \A S \in SUBSET Steps : S # {} => \E s \in S : d.deps[s] \cap S = {}

Valid_NoToposort(d) == \A s \in Steps : d.deps[s] \subseteq Steps    \* mutant

Valid(d) == /\ \A s \in Steps : d.deps[s] \subseteq Steps
            /\ Acyclic(d)

ReadySteps_AnyDep ==                                                 \* mutant
    {s \in Steps : s \notin completed /\ (def.deps[s] = {} \/ def.deps[s] \cap completed # {})}
ReadySteps_Again == {s \in Steps : def.deps[s] \subseteq completed}    \* mutant

(* WorkflowDag::ready_steps *)
ReadySteps == {s \in Steps : s \notin completed /\ def.deps[s] \subseteq completed}

(* resolve_value: an id without an entry reads as "". *)
Resolve(lit) == IF lit.step \notin Steps THEN Nothing
                ELSE IF lit.field = "status" THEN Status(lit.step)
                ELSE outputs[lit.step]

Holds(lit) == IF lit.op = "==" THEN Resolve(lit) = lit.value
              ELSE Resolve(lit) # lit.value

(* evaluate_condition: an empty clause next to an operator makes the whole *)
(* condition false.                                                        *)
ConditionMet(s) == \/ def.cond[s] = {}
                   \/ /\ {} \notin def.cond[s]
                      /\ \E clause \in def.cond[s] : \A lit \in clause : Holds(lit)

Renders_Strict(s) == \A x \in def.uses[s] : x \in Steps /\ outputs[x] # Nothing   \* mutant

(* `{{ steps.x.output }}` is an attribute of an undefined value, an error, *)
(* unless x has an entry in the template context.                          *)
Renders(s) == \A x \in def.uses[s] : x \in Steps /\ Status(x) # Nothing

(* fallback_info: only a fallback id that names a step counts. *)
HasFallback(s) == def.onFailure[s] = "fallback" /\ def.fallback[s] \in Steps

-------------------------------------------------------------------------------
Init == /\ def \in Definitions
        /\ pc = "validate"
        /\ verdict = [kind |-> "none", step |-> Unknown]
        /\ ready = {}
        /\ runnable = {}
        /\ results = [s \in Steps |-> NoResult]
        /\ outputs = [s \in Steps |-> Nothing]
        /\ completed = {}
        /\ pushes = 0
        /\ joined = Unknown
        /\ task = [s \in Steps |-> NoTask]
        /\ reported = [s \in Steps |-> Nothing]
        /\ checkpoint = [s \in Steps |-> NoResult]
        /\ saved = {}

Return_Detached(kind, s) ==                                          \* mutant
    pc' = "done" /\ verdict' = [kind |-> kind, step |-> s] /\ UNCHANGED task

(* Returning drops the JoinSet, which aborts the tasks still in it, also   *)
(* those that finished and were not joined.                                *)
Return(kind, s) ==
    /\ pc' = "done"
    /\ verdict' = [kind |-> kind, step |-> s]
    /\ task' = [t \in Steps |-> IF InFlight(t) THEN [task[t] EXCEPT !.phase = "dropped"]
                                ELSE task[t]]

Validate ==
    /\ pc = "validate"
    /\ \/ /\ Valid(def)
          /\ pc' = "loop"
          /\ UNCHANGED <<verdict, task>>
       \/ /\ ~Valid(def)
          /\ Return("invalid", Unknown)
    /\ UNCHANGED <<def, batchVars, stepVars, reported, storeVars>>

NextBatch_LengthFirst ==                                             \* mutant
    /\ pc = "loop"
    /\ \/ /\ pushes = NumSteps
          /\ Return("completed", Unknown)
          /\ UNCHANGED batchVars
       \/ /\ pushes # NumSteps
          /\ ready' = ReadySteps
          /\ runnable' = {}
          /\ pc' = "plan"
          /\ UNCHANGED <<verdict, task>>
    /\ UNCHANGED <<def, stepVars, reported, storeVars>>

(* Top of the loop: take the ready steps, or leave it when there are none. *)
NextBatch ==
    /\ pc = "loop"
    /\ \/ /\ ReadySteps # {}
          /\ ready' = ReadySteps
          /\ runnable' = {}
          /\ pc' = "plan"
          /\ UNCHANGED <<verdict, task>>
       \/ /\ ReadySteps = {}
          /\ pushes = NumSteps \/ Steps \subseteq completed
          /\ Return("completed", Unknown)
          /\ UNCHANGED batchVars
       \/ /\ ReadySteps = {}
          /\ pushes # NumSteps /\ ~(Steps \subseteq completed)
          /\ Return("unreachable", Unknown)
          /\ UNCHANGED batchVars
    /\ UNCHANGED <<def, stepVars, reported, storeVars>>

(* The batch is looked at in definition order; a step skipped earlier in   *)
(* it is already visible to the conditions and templates of a later one.   *)
Looking(s) == pc = "plan" /\ s \in ready /\ \A t \in ready : s <= t

SkipStep(s) ==
    /\ Looking(s)
    /\ ~ConditionMet(s)
    /\ ready' = ready \ {s}
    /\ results' = [results EXCEPT ![s] = [status |-> "skipped", attempt |-> 0]]
    /\ reported' = [reported EXCEPT ![s] = "skipped"]
    /\ completed' = completed \cup {s}
    /\ pushes' = pushes + 1
    /\ UNCHANGED <<def, pc, verdict, runnable, outputs, joined, task, storeVars>>

PlanStep(s) ==
    /\ Looking(s)
    /\ ConditionMet(s)
    /\ \/ /\ Renders(s)
          /\ ready' = ready \ {s}
          /\ runnable' = runnable \cup {s}
          /\ UNCHANGED <<pc, verdict, task>>
       \/ /\ ~Renders(s)
          /\ Return("template", s)
          /\ UNCHANGED batchVars
    /\ UNCHANGED <<def, stepVars, reported, storeVars>>

Launch ==
    /\ pc = "plan"
    /\ ready = {}
    /\ pc' = "collect"
    /\ task' = [s \in Steps |-> IF s \in runnable THEN Task("started") ELSE task[s]]
    /\ UNCHANGED <<def, verdict, batchVars, stepVars, reported, storeVars>>

-------------------------------------------------------------------------------
(* execute_step: the tasks.  Each phase is an await of the code. *)

Exhausted_OffByOne(s) == task[s].attempt > def.maxAttempts[s]        \* mutant

(* Entering the retry loop, or going round it after a failed attempt. *)
Exhausted(s) == task[s].attempt >= def.maxAttempts[s]

Retry(s) ==
    IF ~Exhausted(s)
    THEN [phase |-> IF task[s].attempt = 0 THEN "spawning" ELSE "backoff",
          attempt |-> task[s].attempt + 1, fallback |-> FALSE, output |-> Nothing]
    ELSE [phase |-> IF HasFallback(s) THEN "spawning" ELSE "finished",
          attempt |-> task[s].attempt, fallback |-> HasFallback(s), output |-> Nothing]

executeInnerVars == <<def, pc, verdict, batchVars, stepVars, storeVars>>

GoRound(s) ==
    /\ task' = [task EXCEPT ![s] = Retry(s)]
    /\ reported' = IF Exhausted(s) THEN [reported EXCEPT ![s] = "failed"]
                   ELSE IF task[s].attempt = 0 THEN [reported EXCEPT ![s] = "running"]
                   ELSE reported

Begin(s) == /\ task[s].phase = "started"
            /\ GoRound(s)
            /\ UNCHANGED executeInnerVars

Wake(s) == /\ task[s].phase = "backoff"
           /\ task' = [task EXCEPT ![s].phase = "spawning"]
           /\ UNCHANGED <<executeInnerVars, reported>>

(* spawn_pane returns; a failed spawn is a failed attempt. *)
Spawned(s) ==
    /\ task[s].phase = "spawning"
    /\ \/ /\ task' = [task EXCEPT ![s].phase = "waiting"]
          /\ UNCHANGED reported
       \/ /\ ~task[s].fallback
          /\ GoRound(s)
       \/ /\ task[s].fallback
          /\ task' = [task EXCEPT ![s].phase = "finished"]
          /\ UNCHANGED reported
    /\ UNCHANGED executeInnerVars

(* send_and_wait returns an output, or an error or timeout (Nothing); the  *)
(* success of the step itself is reported before its pane is killed, that  *)
(* of a fallback is not reported.                                          *)
Answered(s) ==
    /\ task[s].phase = "waiting"
    /\ \E o \in Outputs \cup {Nothing} :
         /\ task' = [task EXCEPT ![s].phase = "killing", ![s].output = o]
         /\ reported' = IF o # Nothing /\ ~task[s].fallback
                        THEN [reported EXCEPT ![s] = "completed"] ELSE reported
    /\ UNCHANGED executeInnerVars

(* kill_pane returns; its error is ignored. *)
Killed(s) ==
    /\ task[s].phase = "killing"
    /\ \/ /\ task[s].fallback \/ task[s].output # Nothing
          /\ task' = [task EXCEPT ![s].phase = "finished"]
          /\ UNCHANGED reported
       \/ /\ ~task[s].fallback /\ task[s].output = Nothing
          /\ GoRound(s)
    /\ UNCHANGED executeInnerVars

-------------------------------------------------------------------------------
(* Collecting the outcomes with join_next. *)

Succeeded_AnyOutput(s) == task[s].output # Nothing                   \* mutant

Succeeded(s) == ~task[s].fallback /\ task[s].output # Nothing
FallbackSucceeded(s) == task[s].fallback /\ task[s].output # Nothing

Joining(s) == pc = "collect" /\ task[s].phase = "finished"

JoinSuccess(s) ==
    /\ Joining(s)
    /\ Succeeded(s)
    /\ results' = [results EXCEPT ![s] = [status |-> "completed", attempt |-> task[s].attempt]]
    /\ completed' = completed \cup {s}
    /\ pushes' = pushes + 1
    /\ joined' = s
    /\ task' = [task EXCEPT ![s].phase = "joined"]
    /\ pc' = "saveCheckpoint"
    /\ UNCHANGED <<def, verdict, batchVars, outputs, reported, storeVars>>

(* Both writes are awaited while the other tasks run; an error is only     *)
(* logged.  Without a store both have no effect, as when they fail.        *)
SaveCheckpoint ==
    /\ pc = "saveCheckpoint"
    /\ \/ checkpoint' = results
       \/ StoreMayFail /\ UNCHANGED checkpoint
    /\ pc' = "saveResult"
    /\ UNCHANGED <<def, verdict, batchVars, stepVars, task, reported, saved>>

SaveStepResult_GivesUp ==                                            \* mutant
    /\ pc = "saveResult"
    /\ \/ /\ saved' = saved \cup {joined}
          /\ outputs' = [outputs EXCEPT ![joined] = task[joined].output]
       \/ StoreMayFail /\ UNCHANGED <<saved, outputs>>
    /\ pc' = "collect"
    /\ UNCHANGED <<def, verdict, batchVars, results, completed, pushes, joined, task, reported,
                   checkpoint>>

SaveStepResult ==
    /\ pc = "saveResult"
    /\ \/ saved' = saved \cup {joined}
       \/ StoreMayFail /\ UNCHANGED saved
    /\ outputs' = [outputs EXCEPT ![joined] = task[joined].output]
    /\ pc' = "collect"
    /\ UNCHANGED <<def, verdict, batchVars, results, completed, pushes, joined, task, reported,
                   checkpoint>>

ResultsAfterFailure_StandInOnly(s) ==                                \* mutant
    IF FallbackSucceeded(s)
    THEN [results EXCEPT ![def.fallback[s]] = [status |-> "completed", attempt |-> 1]]
    ELSE [results EXCEPT ![s] = [status |-> "failed", attempt |-> def.maxAttempts[s]]]

(* The result of the step, then that of the fallback that ran in its place. *)
ResultsAfterFailure(s) ==
    LET failed == [results EXCEPT ![s] = [status |-> "failed", attempt |-> def.maxAttempts[s]]]
    IN  IF FallbackSucceeded(s)
        THEN [failed EXCEPT ![def.fallback[s]] = [status |-> "completed", attempt |-> 1]]
        ELSE failed

(* `completed` gets the step and, if it ran, its fallback. *)
SettledBy(s) == IF FallbackSucceeded(s) THEN {s, def.fallback[s]} ELSE {s}

JoinFailure(s) ==
    /\ Joining(s)
    /\ ~Succeeded(s)
    /\ results' = ResultsAfterFailure(s)
    /\ outputs' = IF FallbackSucceeded(s)
                  THEN [outputs EXCEPT ![def.fallback[s]] = task[s].output] ELSE outputs
    /\ \/ /\ def.onFailure[s] = "abort"
          /\ Return("failed", s)
          /\ UNCHANGED <<completed, pushes>>
       \/ /\ def.onFailure[s] # "abort"
          /\ task' = [task EXCEPT ![s].phase = "joined"]
          /\ completed' = completed \cup SettledBy(s)
          /\ pushes' = pushes + (IF FallbackSucceeded(s) THEN 2 ELSE 1)
          /\ UNCHANGED <<pc, verdict>>
    /\ UNCHANGED <<def, batchVars, joined, reported, storeVars>>

BatchDone_TryJoin ==                                                 \* mutant
    /\ pc = "collect"
    /\ \A s \in Steps : ~Joining(s)
    /\ pc' = "loop"
    /\ UNCHANGED <<def, verdict, batchVars, stepVars, task, reported, storeVars>>

(* join_next yields None: the batch is over. *)
BatchDone ==
    /\ pc = "collect"
    /\ \A s \in Steps : ~InFlight(s)
    /\ pc' = "loop"
    /\ UNCHANGED <<def, verdict, batchVars, stepVars, task, reported, storeVars>>

-------------------------------------------------------------------------------
ExecuteInner ==
    \/ Validate \/ NextBatch \/ Launch \/ BatchDone \/ SaveCheckpoint \/ SaveStepResult
    \/ \E s \in Steps : SkipStep(s) \/ PlanStep(s) \/ JoinSuccess(s) \/ JoinFailure(s)

ExecuteStep(s) == Begin(s) \/ Wake(s) \/ Spawned(s) \/ Answered(s) \/ Killed(s)

Returned == pc = "done" /\ UNCHANGED vars

Next == ExecuteInner \/ (\E s \in Steps : ExecuteStep(s)) \/ Returned

(* The executor and each task are polled whenever they can make progress,  *)
(* and every call is answered: send_and_wait carries a timeout, and the    *)
(* event loop replies to each request it takes.                            *)
Fairness == WF_vars(ExecuteInner) /\ \A s \in Steps : WF_vars(ExecuteStep(s))

Spec == Init /\ [][Next]_vars
FairSpec == Spec /\ Fairness

-------------------------------------------------------------------------------
(* Properties.  A step that is the fallback of another can be run both by  *)
(* the DAG and in place of the other, and the later outcome overwrites the *)
(* earlier; the properties about one step's record leave such steps out.   *)

StandIns == {def.fallback[s] : s \in {t \in Steps : HasFallback(t)}}

Phases == {"idle", "started", "backoff", "spawning", "waiting", "killing", "finished",
           "joined", "dropped"}
TaskType == [phase : Phases, attempt : Nat, fallback : BOOLEAN,
             output : Outputs \cup {Nothing}]
ResultType == [status : {Nothing, "skipped", "completed", "failed"}, attempt : Nat]

(* Every variable has its type, and no task is ever beyond the attempts    *)
(* its retry policy allows.                                                *)
TypeOK ==
    /\ IsDefinition(def)
    /\ pc \in {"validate", "loop", "plan", "collect", "saveCheckpoint", "saveResult", "done"}
    /\ verdict \in [kind : {"none", "invalid", "completed", "unreachable", "template", "failed"},
                    step : Ids]
    /\ ready \subseteq Steps /\ runnable \subseteq Steps
    /\ results \in [Steps -> ResultType]
    /\ outputs \in [Steps -> Outputs \cup {Nothing}]
    /\ completed \subseteq Steps
    /\ pushes \in Nat
    /\ joined \in Ids
    /\ task \in [Steps -> TaskType]
    /\ reported \in [Steps -> {Nothing, "running", "skipped", "completed", "failed"}]
    /\ checkpoint \in [Steps -> ResultType]
    /\ saved \subseteq Steps
    /\ \A s \in Steps : task[s].attempt <= def.maxAttempts[s]

(* A task exists only for a step whose dependencies have all settled,      *)
(* whatever the order outcomes and fallbacks arrive in.                    *)
DependenciesSettled ==
    \A s \in Steps : task[s].phase # "idle" => def.deps[s] \subseteq completed

(* "completed" is concluded only when every step has settled with a result *)
(* and no task is left, although `completed` may hold an id twice and so   *)
(* reach the number of steps early.                                        *)
CompletedCoversAll ==
    verdict.kind = "completed" =>
        \A s \in Steps : s \in completed /\ Status(s) # Nothing /\ ~InFlight(s)

(* A workflow that passed validation never ends in "DAG has unreachable    *)
(* steps": while a step remains, some step is ready.                       *)
NeverUnreachable == verdict.kind # "unreachable"

(* A failure that aborts is final: it is the failure of a step with that   *)
(* policy, nothing that depends on it has been touched, and no sibling     *)
(* task survives it.                                                       *)
AbortIsFinal ==
    verdict.kind = "failed" =>
        /\ def.onFailure[verdict.step] = "abort"
        /\ Status(verdict.step) = "failed"
        /\ \A s \in Steps : ~InFlight(s)
        /\ \A s \in Steps \ StandIns : verdict.step \in def.deps[s] =>
                task[s] = NoTask /\ Status(s) = Nothing

(* Once settled, a step is not run again and its result does not change. *)
SettledOnce ==
    [][\A s \in completed \ StandIns :
          /\ s \in completed'
          /\ results'[s] = results[s]
          /\ task'[s].phase \in {task[s].phase, "joined"}]_vars

(* When the workflow completes, the progress shown for a step is the       *)
(* status in its result: no late or missing report.                        *)
ReportsAgree ==
    verdict.kind = "completed" => \A s \in Steps \ StandIns : reported[s] = Status(s)

(* What is persisted as a success is one, in memory too, and at most one   *)
(* step is persisted without its output being visible to later steps.      *)
PersistedIsTrue ==
    \A s \in Steps \ StandIns :
        s \in saved \/ checkpoint[s].status = "completed" =>
            /\ Status(s) = "completed"
            /\ outputs[s] # Nothing \/ (s = joined /\ pc = "saveResult")

(* A checkpoint is closed under dependencies: a step recorded in it has    *)
(* all its dependencies recorded, so that execution could restart from it. *)
CheckpointClosed ==
    \A s \in Steps \ StandIns :
        checkpoint[s].status # Nothing =>
            \A d \in def.deps[s] : checkpoint[d].status # Nothing

(* Whenever conditions and templates are evaluated, every completed step   *)
(* has its output in step_outputs, though the output is inserted only      *)
(* after the two awaits of its persistence.                                *)
OutputsVisible ==
    pc \in {"loop", "plan"} => \A s \in Steps : Status(s) = "completed" => outputs[s] # Nothing

(* A prompt that refers only to outputs of the step's own dependencies     *)
(* always renders, even when they were skipped or failed.                  *)
OwnInputsRender ==
    verdict.kind = "template" => ~(def.uses[verdict.step] \subseteq def.deps[verdict.step])

(* A condition about the step's own dependencies is decided once and for   *)
(* all: at any later time it still evaluates to what was decided, even     *)
(* while outcomes of the same and of later batches come in.                *)
AboutOwnDependencies(s) ==
    \A clause \in def.cond[s] : \A lit \in clause : lit.step \in def.deps[s] \ StandIns

DecisionsStand ==
    \A s \in Steps \ StandIns :
        Status(s) # Nothing /\ AboutOwnDependencies(s) =>
            (Status(s) = "skipped" <=> ~ConditionMet(s))

(* The workflow returns, under the fairness of the scheduler. *)
Termination == <>(pc = "done")

(* SKILL.md:111: on_failure skip marks the failed step as skipped. *)
SkipMarksSkipped ==
    \A s \in Steps \ StandIns :
        s \in completed /\ def.onFailure[s] = "skip" => Status(s) # "failed"

(* executor.rs:109: the store is called after each successful step: when   *)
(* the workflow is over, every step that succeeded has its row.            *)
SuccessIsPersisted ==
    pc = "done" => \A s \in Steps :
        Status(s) = "completed" \/ reported[s] = "completed" => s \in saved

-------------------------------------------------------------------------------
(* The inductive invariant behind the safety properties.  Its parts: *)

(* outside "collect" and the two saves no task is in flight; *)
QuietBetweenBatches ==
    pc \in {"validate", "loop", "plan", "done"} => \A s \in Steps : ~InFlight(s)

(* what a batch still holds is unsettled and has settled dependencies; *)
BatchIsReady ==
    pc = "plan" => /\ ready \cap runnable = {}
                   /\ \A s \in ready \cup runnable :
                        s \notin completed /\ def.deps[s] \subseteq completed

(* only a validated definition is executed; *)
ValidatedFirst == pc \notin {"validate", "done"} => Valid(def)

(* whatever settled has a result; *)
SettledHaveResults == \A s \in completed : Status(s) # Nothing

(* a task runs a fallback only if its step declares one that exists; *)
StandInsDeclared == \A s \in Steps : task[s].fallback => HasFallback(s)

(* a completed step has its output, or is the one being persisted, whose   *)
(* task still holds it;                                                    *)
OutputsArrive ==
    /\ pc \in {"saveCheckpoint", "saveResult"} =>
           joined \in Steps /\ task[joined].phase = "joined" /\ task[joined].output # Nothing
    /\ \A s \in Steps : Status(s) = "completed" =>
           \/ outputs[s] # Nothing
           \/ s = joined /\ pc \in {"saveCheckpoint", "saveResult"}

(* the verdict comes with the return, and says what it says of the steps.  *)
VerdictIsEarned ==
    /\ verdict.kind = "none" <=> pc # "done"
    /\ verdict.kind # "unreachable"
    /\ verdict.kind = "completed" => completed = Steps

IInv == /\ TypeOK
        /\ QuietBetweenBatches
        /\ BatchIsReady
        /\ ValidatedFirst
        /\ DependenciesSettled
        /\ SettledHaveResults
        /\ StandInsDeclared
        /\ OutputsArrive
        /\ VerdictIsEarned

(* The second invariant, about what is recorded of the steps that stand in *)
(* for no other.  Its parts:                                               *)
Own == Steps \ StandIns
Saving == pc \in {"saveCheckpoint", "saveResult"}
Aborted(s) == verdict.kind = "failed" /\ verdict.step = s

(* a status comes from the skip or the join that settled the step, after   *)
(* its dependencies, or from the failure that ended the workflow;          *)
RecordsFollowTasks ==
    \A s \in Own :
        /\ Status(s) # Nothing => (s \in completed \/ Aborted(s))
        /\ s \in completed => def.deps[s] \subseteq completed
        /\ task[s].phase = "idle" => task[s] = NoTask /\ Status(s) \in {Nothing, "skipped"}
        /\ task[s].phase # "idle" => Status(s) # "skipped"
        /\ InFlight(s) => Status(s) = Nothing
        /\ task[s].phase = "joined" => s \in completed

(* nothing is known of a step while one it depends on runs or is saved;    *)
OpenStepsBlock ==
    \A t \in Steps : (InFlight(t) \/ (Saving /\ t = joined)) =>
        \A s \in Own : t \in def.deps[s] => task[s].phase = "idle" /\ Status(s) = Nothing

(* what is being saved is a success, and only a failed or refused workflow *)
(* leaves tasks behind;                                                    *)
SavesAreSuccesses == Saving /\ joined \in Own => Status(joined) = "completed"

DroppedAtTheEnd ==
    \A s \in Steps : task[s].phase = "dropped" => pc = "done" /\ verdict.kind # "completed"

(* a task reports its outcome before it is joined: the success before the  *)
(* pane is killed, the failure before a fallback runs;                     *)
ReportsFollowTasks ==
    \A s \in Own :
        /\ task[s].phase \in {"idle", "joined"} => reported[s] = Status(s)
        /\ task[s].phase \in {"killing", "finished"} /\ Succeeded(s) => reported[s] = "completed"
        /\ (task[s].fallback \/ (task[s].phase = "finished" /\ ~Succeeded(s)))
                => reported[s] = "failed"

(* and the decision to run or to skip still stands.                        *)
DecisionsHold ==
    \A s \in Own : AboutOwnDependencies(s) =>
        /\ ((pc = "plan" /\ s \in runnable) \/ task[s].phase # "idle") => ConditionMet(s)
        /\ Status(s) = "skipped" => ~ConditionMet(s)

RecordsInv == /\ RecordsFollowTasks
              /\ OpenStepsBlock
              /\ SavesAreSuccesses
              /\ DroppedAtTheEnd
              /\ ReportsFollowTasks
              /\ DecisionsHold
              /\ AbortIsFinal
              /\ PersistedIsTrue
              /\ CheckpointClosed
              /\ OwnInputsRender

(* The executor implements the scheduling it promises. *)
Running == {s \in Steps : InFlight(s)}
Conclusion == IF verdict.kind \in {"none", "completed"} THEN verdict.kind ELSE "stopped"

Schedule == INSTANCE WorkflowSchedule WITH
    deps <- def.deps, settled <- completed, running <- Running, verdict <- Conclusion

ImplementsSchedule == Schedule!Spec
===============================================================================
