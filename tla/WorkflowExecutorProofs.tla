------------------------ MODULE WorkflowExecutorProofs ------------------------
(***************************************************************************)
(* Proofs about WorkflowExecutor, for every number of steps, every set of  *)
(* outputs and every set of definitions.                                   *)
(***************************************************************************)
EXTENDS WorkflowExecutor, TLAPS

(* Acyclicity is what keeps the loop of execute_inner from getting stuck:  *)
(* if no step is ready, every step has settled.                            *)
LEMMA NoReadyMeansAllSettled ==
    ASSUME Valid(def), completed \subseteq Steps, ReadySteps = {}
    PROVE  completed = Steps
<1> DEFINE Rest == Steps \ completed
<1>1. SUFFICES ASSUME Rest # {} PROVE FALSE
  OBVIOUS
<1>2. PICK s \in Rest : def.deps[s] \cap Rest = {}
  BY <1>1 DEF Valid, Acyclic
<1>3. def.deps[s] \subseteq completed
  BY <1>2 DEF Valid
<1>4. s \in ReadySteps
  BY <1>3 DEF ReadySteps
<1>5. QED
  BY <1>4

(* A task stays well typed, within its attempts and with its outputs, when *)
(* it goes round the retry loop.                                           *)
LEMMA RetryType ==
    ASSUME TypeOK, NEW s \in Steps
    PROVE  /\ Retry(s) \in TaskType
           /\ Retry(s).attempt <= def.maxAttempts[s]
           /\ Retry(s).phase \in {"spawning", "backoff", "finished"}
           /\ Retry(s).fallback => HasFallback(s)
<1>1. def.maxAttempts[s] \in Nat /\ task[s] \in TaskType /\ task[s].attempt <= def.maxAttempts[s]
  BY DEF TypeOK, IsDefinition
<1>2. HasFallback(s) \in BOOLEAN
  BY DEF HasFallback
<1>3. CASE Exhausted(s)
  BY <1>1, <1>2, <1>3 DEF Retry, TaskType, Phases
<1>4. CASE ~Exhausted(s)
  BY <1>1, <1>4 DEF Retry, TaskType, Phases, Exhausted
<1>5. QED
  BY <1>3, <1>4

(* Nothing has run before validation. *)
LEMMA InitInv == Init => IInv
<1> SUFFICES ASSUME Init PROVE IInv
  OBVIOUS
<1>1. IsDefinition(def)
  BY DefinitionsAssumption DEF Init
<1>2. /\ results \in [Steps -> ResultType]
      /\ checkpoint \in [Steps -> ResultType]
  BY DEF Init, NoResult, ResultType, Nothing
<1>3. /\ task \in [Steps -> TaskType]
      /\ \A s \in Steps : task[s].attempt = 0 /\ task[s].phase = "idle" /\ ~task[s].fallback
  BY DEF Init, NoTask, Task, TaskType, Phases
<1>4. \A s \in Steps : task[s].attempt <= def.maxAttempts[s]
  BY <1>1, <1>3 DEF IsDefinition
<1>5. TypeOK
  BY <1>1, <1>2, <1>3, <1>4 DEF Init, TypeOK, Ids, Unknown, Nothing
<1>6. /\ \A s \in Steps : ~InFlight(s)
      /\ \A s \in Steps : Status(s) = Nothing
  BY <1>3 DEF Init, InFlight, Status, NoResult
<1>7. QED
  BY <1>3, <1>5, <1>6 DEF Init, IInv, QuietBetweenBatches, BatchIsReady, ValidatedFirst,
     DependenciesSettled, SettledHaveResults, StandInsDeclared, HasFallback, OutputsArrive, VerdictIsEarned, Nothing

-------------------------------------------------------------------------------
(* Returning leaves the tasks well typed and none in flight. *)
LEMMA ReturnDrops ==
    ASSUME TypeOK, NEW k, NEW t \in Ids, Return(k, t)
    PROVE  /\ task' \in [Steps -> TaskType]
           /\ \A s \in Steps : /\ ~InFlight(s)'
                               /\ task'[s].attempt = task[s].attempt
                               /\ task'[s].output = task[s].output
                               /\ task'[s].fallback = task[s].fallback
                               /\ task'[s].phase # "idle" => task[s].phase # "idle"
<1>1. \A s \in Steps : task[s] \in TaskType
  BY DEF TypeOK
<1>2. task' = [s \in Steps |-> IF InFlight(s) THEN [task[s] EXCEPT !.phase = "dropped"] ELSE task[s]]
  BY DEF Return
<1>3. ASSUME NEW s \in Steps
      PROVE  /\ task'[s] \in TaskType
             /\ ~InFlight(s)'
             /\ task'[s].attempt = task[s].attempt
             /\ task'[s].output = task[s].output
             /\ task'[s].fallback = task[s].fallback
             /\ task'[s].phase # "idle" => task[s].phase # "idle"
  <2>1. CASE InFlight(s)
    <3>1. task'[s] = [task[s] EXCEPT !.phase = "dropped"]
      BY <1>2, <2>1
    <3>2. task[s].phase # "idle"
      BY <2>1 DEF InFlight
    <3>3. QED
      BY <1>1, <3>1, <3>2 DEF TaskType, Phases, InFlight
  <2>2. CASE ~InFlight(s)
    <3>1. task'[s] = task[s]
      BY <1>2, <2>2
    <3>2. QED
      BY <1>1, <2>2, <3>1 DEF InFlight
  <2>3. QED
    BY <2>1, <2>2
<1>4. QED
  BY <1>2, <1>3

(* Validation lets only graphs without cycles pass. *)
LEMMA ValidateInv == IInv /\ Validate => IInv'
<1> SUFFICES ASSUME IInv, Validate PROVE IInv'
  OBVIOUS
<1>0. TypeOK /\ Unknown \in Ids
  BY DEF IInv, Ids
<1>1. CASE Valid(def) /\ pc' = "loop" /\ UNCHANGED <<verdict, task>>
  BY <1>1 DEF IInv, Validate, TypeOK, QuietBetweenBatches, BatchIsReady, ValidatedFirst,
     DependenciesSettled, SettledHaveResults, StandInsDeclared, HasFallback, OutputsArrive, VerdictIsEarned, batchVars, stepVars,
     storeVars, Status, InFlight, Valid, Acyclic
<1>2. CASE Return("invalid", Unknown)
  <2>1. /\ pc' = "done" /\ verdict' = [kind |-> "invalid", step |-> Unknown]
        /\ UNCHANGED <<def, batchVars, stepVars, reported, storeVars>>
    BY <1>2 DEF Validate, Return
  <2>2. /\ task' \in [Steps -> TaskType]
        /\ \A s \in Steps : /\ ~InFlight(s)'
                            /\ task'[s].attempt = task[s].attempt
                            /\ task'[s].fallback = task[s].fallback
                            /\ task'[s].phase # "idle" => task[s].phase # "idle"
    BY <1>0, <1>2, ReturnDrops
  <2>3. TypeOK'
    BY <1>0, <2>1, <2>2 DEF TypeOK, batchVars, stepVars, storeVars
  <2>4. QED
    BY <2>1, <2>2, <2>3 DEF IInv, QuietBetweenBatches, BatchIsReady, Validate,
       ValidatedFirst, DependenciesSettled, SettledHaveResults, StandInsDeclared, HasFallback, OutputsArrive, VerdictIsEarned,
       batchVars, stepVars, storeVars, Status
<1>3. QED
  BY <1>1, <1>2 DEF Validate

(* A batch is what the graph calls ready. *)
LEMMA NextBatchInv == IInv /\ NextBatch => IInv'
<1> SUFFICES ASSUME IInv, NextBatch PROVE IInv'
  OBVIOUS
<1>0. /\ TypeOK /\ Unknown \in Ids /\ Valid(def)
      /\ UNCHANGED <<def, stepVars, reported, storeVars>>
  BY DEF IInv, Ids, ValidatedFirst, NextBatch
<1>1. CASE ReadySteps # {} /\ ready' = ReadySteps /\ runnable' = {} /\ pc' = "plan"
           /\ UNCHANGED <<verdict, task>>
  <2>1. /\ ready' \subseteq Steps
        /\ \A s \in ready' : s \notin completed /\ def.deps[s] \subseteq completed
    BY <1>1 DEF ReadySteps
  <2>2. pc = "loop"
    BY DEF NextBatch
  <2>3. QED
    BY <1>0, <1>1, <2>1, <2>2 DEF IInv, TypeOK, QuietBetweenBatches, BatchIsReady, ValidatedFirst,
       DependenciesSettled, SettledHaveResults, StandInsDeclared, HasFallback, OutputsArrive, VerdictIsEarned, stepVars,
       storeVars, Status, InFlight, Valid, Acyclic
<1>2. CASE ReadySteps = {}
  <2>1. completed = Steps
    BY <1>0, <1>2, NoReadyMeansAllSettled DEF TypeOK
  <2>2. Return("completed", Unknown) /\ UNCHANGED batchVars
    BY <1>2, <2>1 DEF NextBatch
  <2>3. pc = "loop" /\ pc' = "done" /\ verdict' = [kind |-> "completed", step |-> Unknown]
    BY <2>2 DEF Return, NextBatch
  <2>4. QED
    BY <1>0, <2>1, <2>2, <2>3, ReturnDrops DEF IInv, TypeOK, QuietBetweenBatches, BatchIsReady,
       ValidatedFirst, DependenciesSettled, SettledHaveResults, StandInsDeclared, HasFallback, OutputsArrive, VerdictIsEarned,
       batchVars, stepVars, storeVars, Status
<1>3. QED
  BY <1>1, <1>2 DEF NextBatch

(* A step whose condition fails settles without a task. *)
LEMMA SkipStepInv == ASSUME IInv, NEW s \in Steps, SkipStep(s) PROVE IInv'
<1>1. /\ results' \in [Steps -> ResultType]
      /\ results'[s].status = "skipped"
      /\ \A t \in Steps : t # s => results'[t] = results[t]
  BY DEF SkipStep, IInv, TypeOK, ResultType
<1>2. s \in ready /\ pc = "plan"
  BY DEF SkipStep, Looking
<1>3. TypeOK'
  BY <1>1 DEF SkipStep, IInv, TypeOK, storeVars
<1>4. BatchIsReady'
  BY <1>2 DEF SkipStep, IInv, BatchIsReady
<1>5. SettledHaveResults'
  BY <1>1, <1>2 DEF SkipStep, IInv, TypeOK, SettledHaveResults, Status, Nothing
<1>6. OutputsArrive'
  BY <1>1, <1>2 DEF SkipStep, IInv, OutputsArrive, Status
<1>7. QED
  BY <1>2, <1>3, <1>4, <1>5, <1>6 DEF SkipStep, IInv, QuietBetweenBatches, InFlight,
     ValidatedFirst, Valid, Acyclic, DependenciesSettled, StandInsDeclared, HasFallback,
     VerdictIsEarned

(* A planned step is still one of the batch. *)
LEMMA PlanStepInv == ASSUME IInv, NEW s \in Steps, PlanStep(s) PROVE IInv'
<1>1. /\ pc = "plan" /\ s \in ready /\ s \in Ids /\ TypeOK
      /\ UNCHANGED <<def, stepVars, reported, storeVars>>
  BY DEF PlanStep, Looking, IInv, Ids
<1>2. CASE /\ ready' = ready \ {s} /\ runnable' = runnable \cup {s}
           /\ UNCHANGED <<pc, verdict, task>>
  BY <1>1, <1>2 DEF IInv, TypeOK, QuietBetweenBatches, BatchIsReady, ValidatedFirst,
     DependenciesSettled, SettledHaveResults, StandInsDeclared, HasFallback, OutputsArrive, VerdictIsEarned, stepVars,
     storeVars, Status, InFlight, Valid, Acyclic
<1>3. CASE Return("template", s) /\ UNCHANGED batchVars
  <2>1. pc' = "done" /\ verdict' = [kind |-> "template", step |-> s]
    BY <1>3 DEF Return
  <2>2. /\ task' \in [Steps -> TaskType]
        /\ \A t \in Steps : /\ ~InFlight(t)'
                            /\ task'[t].attempt = task[t].attempt
                            /\ task'[t].fallback = task[t].fallback
                            /\ task'[t].phase # "idle" => task[t].phase # "idle"
    BY <1>1, <1>3, ReturnDrops
  <2>3. TypeOK'
    BY <1>1, <1>3, <2>1, <2>2 DEF TypeOK, batchVars, stepVars, storeVars
  <2>4. QED
    BY <1>1, <1>3, <2>1, <2>2, <2>3 DEF IInv, QuietBetweenBatches, BatchIsReady,
       ValidatedFirst, DependenciesSettled, SettledHaveResults, StandInsDeclared, HasFallback, OutputsArrive, VerdictIsEarned,
       batchVars, stepVars, storeVars, Status
<1>4. QED
  BY <1>2, <1>3 DEF PlanStep

(* The tasks of a batch start together, each with its dependencies         *)
(* settled.                                                                *)
LEMMA LaunchInv == IInv /\ Launch => IInv'
<1> SUFFICES ASSUME IInv, Launch PROVE IInv'
  OBVIOUS
<1>1. /\ pc = "plan" /\ pc' = "collect" /\ ready = {}
      /\ UNCHANGED <<def, verdict, batchVars, stepVars, reported, storeVars>>
  BY DEF Launch
<1>3. ASSUME NEW s \in Steps
      PROVE  /\ task'[s] \in TaskType
             /\ task'[s].attempt <= def.maxAttempts[s]
             /\ task'[s].phase # "idle" => s \in runnable \/ task[s].phase # "idle"
             /\ task'[s].fallback => task[s].fallback
  <2>1. task[s] \in TaskType /\ task[s].attempt <= def.maxAttempts[s] /\ def.maxAttempts[s] \in Nat
    BY DEF IInv, TypeOK, IsDefinition
  <2>2. CASE s \in runnable
    BY <2>1, <2>2 DEF Launch, Task, TaskType, Phases
  <2>3. CASE s \notin runnable
    BY <2>1, <2>3 DEF Launch
  <2>4. QED
    BY <2>2, <2>3
<1>4. TypeOK'
  <2>1. task' \in [Steps -> TaskType]
    BY <1>3 DEF Launch
  <2>2. QED
    BY <1>1, <1>3, <2>1 DEF IInv, TypeOK, batchVars, stepVars, storeVars
<1>5. DependenciesSettled'
  BY <1>1, <1>3 DEF IInv, DependenciesSettled, BatchIsReady, stepVars
<1>6. QED
  BY <1>1, <1>3, <1>4, <1>5 DEF IInv, QuietBetweenBatches, BatchIsReady, ValidatedFirst, Valid, Acyclic,
     SettledHaveResults, StandInsDeclared, HasFallback, OutputsArrive, VerdictIsEarned, stepVars, Status

(* A batch ends when no task is in flight. *)
LEMMA BatchDoneInv == IInv /\ BatchDone => IInv'
BY DEF BatchDone, IInv, TypeOK, QuietBetweenBatches, BatchIsReady, ValidatedFirst, Valid, Acyclic,
   DependenciesSettled, SettledHaveResults, StandInsDeclared, HasFallback, OutputsArrive, VerdictIsEarned, batchVars, stepVars,
   storeVars, Status, InFlight

(* Writing the checkpoint changes the store only. *)
LEMMA SaveCheckpointInv == IInv /\ SaveCheckpoint => IInv'
BY DEF SaveCheckpoint, IInv, TypeOK, QuietBetweenBatches, BatchIsReady, ValidatedFirst, Valid,
   Acyclic, DependenciesSettled, SettledHaveResults, StandInsDeclared, HasFallback, OutputsArrive, VerdictIsEarned, batchVars,
   stepVars, Status, InFlight

(* The output of a completed step arrives before the next is taken. *)
LEMMA SaveStepResultInv == IInv /\ SaveStepResult => IInv'
<1> SUFFICES ASSUME IInv, SaveStepResult PROVE IInv'
  OBVIOUS
<1>1. /\ pc = "saveResult" /\ joined \in Steps /\ task[joined].output # Nothing
      /\ task[joined] \in TaskType
  BY DEF SaveStepResult, IInv, OutputsArrive, TypeOK
<1>2. /\ outputs' \in [Steps -> Outputs \cup {Nothing}]
      /\ outputs'[joined] # Nothing
      /\ \A s \in Steps : s # joined => outputs'[s] = outputs[s]
  BY <1>1 DEF SaveStepResult, IInv, TypeOK, TaskType
<1>3. TypeOK'
  BY <1>1, <1>2 DEF SaveStepResult, IInv, TypeOK, batchVars
<1>4. OutputsArrive'
  BY <1>1, <1>2 DEF SaveStepResult, IInv, OutputsArrive, Status
<1>5. QED
  BY <1>1, <1>3, <1>4 DEF SaveStepResult, IInv, QuietBetweenBatches, BatchIsReady, ValidatedFirst,
     Valid, Acyclic, DependenciesSettled, SettledHaveResults, StandInsDeclared, HasFallback, VerdictIsEarned, batchVars, Status

-------------------------------------------------------------------------------
(* The steps of a task change only that task and what it reports.  What    *)
(* the invariant needs of them: the task was in flight, stays well typed   *)
(* and within its attempts.                                                *)
LEMMA TaskStepInv ==
    ASSUME IInv, NEW s \in Steps, NEW t \in TaskType, InFlight(s),
           t.attempt <= def.maxAttempts[s], t.phase # "idle", t.fallback => HasFallback(s),
           task' = [task EXCEPT ![s] = t], UNCHANGED executeInnerVars,
           reported' \in [Steps -> {Nothing, "running", "skipped", "completed", "failed"}]
    PROVE  IInv'
<1>1. TypeOK'
  BY DEF IInv, TypeOK, executeInnerVars, batchVars, stepVars, storeVars
<1>2. pc \notin {"validate", "loop", "plan", "done"}
  BY DEF IInv, QuietBetweenBatches
<1>3. task[s].phase # "idle" /\ task[s].phase # "joined"
  BY DEF InFlight
<1>4. pc \in {"saveCheckpoint", "saveResult"} => joined # s /\ task'[joined] = task[joined]
  BY <1>3 DEF IInv, OutputsArrive, TypeOK
<1>5. DependenciesSettled'
  BY <1>3 DEF IInv, DependenciesSettled, executeInnerVars, stepVars, TypeOK
<1>6. OutputsArrive'
  BY <1>2, <1>4 DEF IInv, OutputsArrive, executeInnerVars, stepVars, Status
<1>7. StandInsDeclared'
  BY DEF IInv, StandInsDeclared, HasFallback, executeInnerVars, TypeOK
<1>8. QED
  BY <1>1, <1>2, <1>5, <1>6, <1>7 DEF IInv, QuietBetweenBatches, BatchIsReady, ValidatedFirst, Valid,
     Acyclic, SettledHaveResults, StandInsDeclared, HasFallback, VerdictIsEarned, executeInnerVars, stepVars, Status

(* Another attempt is within the budget. *)
LEMMA GoRoundInv ==
    ASSUME IInv, NEW s \in Steps, InFlight(s), GoRound(s), UNCHANGED executeInnerVars
    PROVE  IInv'
<1>1. /\ Retry(s) \in TaskType
      /\ Retry(s).attempt <= def.maxAttempts[s]
      /\ Retry(s).phase \in {"spawning", "backoff", "finished"}
      /\ Retry(s).fallback => HasFallback(s)
  BY RetryType DEF IInv
<1>2. reported' \in [Steps -> {Nothing, "running", "skipped", "completed", "failed"}]
  BY DEF GoRound, IInv, TypeOK
<1>3. task' = [task EXCEPT ![s] = Retry(s)] /\ Retry(s).phase # "idle"
  BY <1>1 DEF GoRound
<1>4. QED
  BY <1>1, <1>2, <1>3, TaskStepInv

(* A task that moves to another phase, with or without a new output. *)
LEMMA PhaseStepInv ==
    ASSUME IInv, NEW s \in Steps, InFlight(s), UNCHANGED executeInnerVars,
           NEW p \in {"spawning", "waiting", "killing", "finished"},
           NEW o \in Outputs \cup {Nothing},
           \/ task' = [task EXCEPT ![s].phase = p]
           \/ task' = [task EXCEPT ![s].phase = p, ![s].output = o],
           reported' \in [Steps -> {Nothing, "running", "skipped", "completed", "failed"}]
    PROVE  IInv'
<1>1. /\ task[s] \in TaskType /\ task[s].attempt <= def.maxAttempts[s]
      /\ task \in [Steps -> TaskType]
  BY DEF IInv, TypeOK
<1> DEFINE t1 == [task[s] EXCEPT !.phase = p]
           t2 == [task[s] EXCEPT !.phase = p, !.output = o]
<1>2. t1 \in TaskType /\ t1.attempt <= def.maxAttempts[s] /\ t1.phase # "idle"
  BY <1>1 DEF TaskType, Phases
<1>3. t2 \in TaskType /\ t2.attempt <= def.maxAttempts[s] /\ t2.phase # "idle"
  BY <1>1 DEF TaskType, Phases
<1>f. t1.fallback = task[s].fallback /\ t2.fallback = task[s].fallback
  BY <1>1 DEF TaskType
<1>4. task' = [task EXCEPT ![s] = t1] \/ task' = [task EXCEPT ![s] = t2]
  BY <1>1
<1> HIDE DEF t1, t2
<1>5. QED
  BY <1>2, <1>3, <1>f, <1>4, TaskStepInv DEF IInv, StandInsDeclared

(* What a task does between awaits changes its own record only. *)
LEMMA ExecuteStepInv == ASSUME IInv, NEW s \in Steps, ExecuteStep(s) PROVE IInv'
<1>0. /\ reported \in [Steps -> {Nothing, "running", "skipped", "completed", "failed"}]
      /\ Nothing \in Outputs \cup {Nothing}
  BY DEF IInv, TypeOK
<1>1. CASE Begin(s)
  BY <1>1, GoRoundInv DEF Begin, InFlight
<1>2. CASE Wake(s)
  <2>1. InFlight(s) /\ UNCHANGED executeInnerVars /\ task' = [task EXCEPT ![s].phase = "spawning"]
    BY <1>2 DEF Wake, InFlight, executeInnerVars
  <2>2. reported' \in [Steps -> {Nothing, "running", "skipped", "completed", "failed"}]
    BY <1>0, <1>2 DEF Wake
  <2>3. QED
    BY <1>0, <2>1, <2>2, PhaseStepInv
<1>3. CASE Spawned(s)
  <2>1. InFlight(s) /\ UNCHANGED executeInnerVars
    BY <1>3 DEF Spawned, InFlight
  <2>2. CASE GoRound(s)
    BY <2>1, <2>2, GoRoundInv
  <2>3. CASE task' = [task EXCEPT ![s].phase = "waiting"] /\ UNCHANGED reported
    BY <1>0, <2>1, <2>3, PhaseStepInv
  <2>4. CASE task' = [task EXCEPT ![s].phase = "finished"] /\ UNCHANGED reported
    BY <1>0, <2>1, <2>4, PhaseStepInv
  <2>5. QED
    BY <1>3, <2>2, <2>3, <2>4 DEF Spawned
<1>4. CASE Answered(s)
  <2>1. PICK o \in Outputs \cup {Nothing} :
          /\ task' = [task EXCEPT ![s].phase = "killing", ![s].output = o]
          /\ reported' = IF o # Nothing /\ ~task[s].fallback
                         THEN [reported EXCEPT ![s] = "completed"] ELSE reported
    BY <1>4 DEF Answered
  <2>2. InFlight(s) /\ UNCHANGED executeInnerVars
    BY <1>4 DEF Answered, InFlight
  <2>3. reported' \in [Steps -> {Nothing, "running", "skipped", "completed", "failed"}]
    BY <1>0, <2>1
  <2>4. QED
    BY <2>1, <2>2, <2>3, PhaseStepInv
<1>5. CASE Killed(s)
  <2>1. InFlight(s) /\ UNCHANGED executeInnerVars
    BY <1>5 DEF Killed, InFlight
  <2>2. CASE GoRound(s)
    BY <2>1, <2>2, GoRoundInv
  <2>3. CASE task' = [task EXCEPT ![s].phase = "finished"] /\ UNCHANGED reported
    BY <1>0, <2>1, <2>3, PhaseStepInv
  <2>4. QED
    BY <1>5, <2>2, <2>3 DEF Killed
<1>6. QED
  BY <1>1, <1>2, <1>3, <1>4, <1>5 DEF ExecuteStep

-------------------------------------------------------------------------------
(* A joined success settles its step. *)
LEMMA JoinSuccessInv == ASSUME IInv, NEW s \in Steps, JoinSuccess(s) PROVE IInv'
<1>1. /\ pc = "collect" /\ task[s] \in TaskType /\ task \in [Steps -> TaskType]
      /\ task[s].phase = "finished" /\ task[s].output # Nothing
      /\ task' = [task EXCEPT ![s].phase = "joined"]
  BY DEF JoinSuccess, Joining, Succeeded, IInv, TypeOK
<1>2. /\ task' \in [Steps -> TaskType]
      /\ task'[s].phase = "joined" /\ task'[s].output # Nothing
      /\ \A t \in Steps : /\ task'[t].attempt = task[t].attempt
                          /\ task'[t].fallback = task[t].fallback
                          /\ task'[t].phase # "idle" => task[t].phase # "idle"
  BY <1>1 DEF TaskType, Phases
<1>3. /\ results' \in [Steps -> ResultType]
      /\ results'[s].status = "completed"
      /\ \A t \in Steps : t # s => results'[t] = results[t]
  BY <1>1 DEF JoinSuccess, IInv, TypeOK, ResultType, TaskType
<1>4. TypeOK'
  BY <1>2, <1>3 DEF JoinSuccess, IInv, TypeOK, Ids, batchVars, storeVars
<1>5. OutputsArrive'
  BY <1>1, <1>2, <1>3 DEF JoinSuccess, IInv, OutputsArrive, Status
<1>6. SettledHaveResults'
  BY <1>3 DEF JoinSuccess, IInv, TypeOK, SettledHaveResults, Status, Nothing
<1>7. DependenciesSettled' /\ StandInsDeclared'
  BY <1>2 DEF JoinSuccess, IInv, DependenciesSettled, StandInsDeclared, HasFallback
<1>8. QED
  BY <1>1, <1>4, <1>5, <1>6, <1>7 DEF JoinSuccess, IInv, QuietBetweenBatches, BatchIsReady,
     ValidatedFirst, Valid, Acyclic, VerdictIsEarned

(* A joined failure ends the execution, or settles its step and perhaps a  *)
(* stand-in.                                                               *)
LEMMA JoinFailureInv == ASSUME IInv, NEW s \in Steps, JoinFailure(s) PROVE IInv'
<1>1. /\ pc = "collect" /\ TypeOK /\ s \in Ids /\ task[s] \in TaskType
      /\ task \in [Steps -> TaskType] /\ task[s].phase = "finished"
      /\ UNCHANGED <<def, batchVars, joined, reported, storeVars>>
  BY DEF JoinFailure, Joining, IInv, TypeOK, Ids
<1>2. FallbackSucceeded(s) => def.fallback[s] \in Steps /\ task[s].output # Nothing
  BY DEF FallbackSucceeded, IInv, StandInsDeclared, HasFallback
<1>3. /\ results' \in [Steps -> ResultType]
      /\ results'[s].status # Nothing
      /\ FallbackSucceeded(s) => results'[def.fallback[s]].status = "completed"
      /\ ~FallbackSucceeded(s) => results'[s].status = "failed"
      /\ FallbackSucceeded(s) /\ s # def.fallback[s] => results'[s].status = "failed"
      /\ \A t \in Steps : t = s \/ (FallbackSucceeded(s) /\ t = def.fallback[s])
                          \/ results'[t] = results[t]
  <2>1. def.maxAttempts[s] \in Nat /\ results \in [Steps -> ResultType]
    BY <1>1 DEF TypeOK, IsDefinition
  <2>2. CASE FallbackSucceeded(s)
    BY <1>2, <2>1, <2>2 DEF JoinFailure, ResultsAfterFailure, ResultType, Nothing
  <2>3. CASE ~FallbackSucceeded(s)
    BY <2>1, <2>3 DEF JoinFailure, ResultsAfterFailure, ResultType, Nothing
  <2>4. QED
    BY <2>2, <2>3
<1>4. /\ outputs' \in [Steps -> Outputs \cup {Nothing}]
      /\ FallbackSucceeded(s) => outputs'[def.fallback[s]] # Nothing
      /\ \A t \in Steps : (FallbackSucceeded(s) /\ t = def.fallback[s])
                          \/ outputs'[t] = outputs[t]
  BY <1>1, <1>2 DEF JoinFailure, TypeOK, TaskType
<1>5. \A t \in Steps : results'[t].status = "completed" => outputs'[t] # Nothing
  BY <1>1, <1>3, <1>4 DEF IInv, OutputsArrive, Status
<1>6. CASE Return("failed", s) /\ UNCHANGED <<completed, pushes>>
  <2>1. pc' = "done" /\ verdict' = [kind |-> "failed", step |-> s]
    BY <1>6 DEF Return
  <2>2. /\ task' \in [Steps -> TaskType]
        /\ \A t \in Steps : /\ ~InFlight(t)'
                            /\ task'[t].attempt = task[t].attempt
                            /\ task'[t].fallback = task[t].fallback
                            /\ task'[t].phase # "idle" => task[t].phase # "idle"
    BY <1>1, <1>6, ReturnDrops
  <2>3. TypeOK'
    BY <1>1, <1>3, <1>4, <1>6, <2>1, <2>2 DEF TypeOK, batchVars, storeVars
  <2>4. SettledHaveResults'
    BY <1>3, <1>6 DEF IInv, TypeOK, SettledHaveResults, Status, Nothing
  <2>5. DependenciesSettled' /\ StandInsDeclared' /\ QuietBetweenBatches'
    BY <1>1, <1>6, <2>2 DEF IInv, DependenciesSettled, StandInsDeclared, HasFallback,
       QuietBetweenBatches
  <2>6. QED
    BY <1>5, <2>1, <2>3, <2>4, <2>5 DEF IInv, BatchIsReady, ValidatedFirst, OutputsArrive,
       VerdictIsEarned, Status
<1>7. CASE /\ task' = [task EXCEPT ![s].phase = "joined"]
           /\ completed' = completed \cup SettledBy(s)
           /\ pushes' = pushes + (IF FallbackSucceeded(s) THEN 2 ELSE 1)
           /\ UNCHANGED <<pc, verdict>>
  <2>1. /\ task' \in [Steps -> TaskType]
        /\ \A t \in Steps : /\ task'[t].attempt = task[t].attempt
                            /\ task'[t].fallback = task[t].fallback
                            /\ task'[t].phase # "idle" => task[t].phase # "idle"
    BY <1>1, <1>7 DEF TaskType, Phases
  <2>2. completed' \subseteq Steps /\ completed \subseteq completed'
    BY <1>1, <1>2, <1>7 DEF TypeOK, SettledBy
  <2>3. TypeOK'
    BY <1>1, <1>3, <1>4, <1>7, <2>1, <2>2 DEF TypeOK, batchVars, storeVars
  <2>4. \A t \in completed' : t \in completed \/ t = s \/ (FallbackSucceeded(s) /\ t = def.fallback[s])
    BY <1>7 DEF SettledBy
  <2>5. SettledHaveResults'
    BY <1>1, <1>3, <2>2, <2>4 DEF IInv, SettledHaveResults, Status, Nothing
  <2>6. DependenciesSettled' /\ StandInsDeclared'
    BY <1>1, <2>1, <2>2 DEF IInv, DependenciesSettled, StandInsDeclared, HasFallback
  <2>7. QED
    BY <1>1, <1>5, <1>7, <2>3, <2>5, <2>6 DEF IInv, QuietBetweenBatches, BatchIsReady,
       ValidatedFirst, Valid, Acyclic, OutputsArrive, VerdictIsEarned, Status
<1>8. QED
  BY <1>6, <1>7 DEF JoinFailure

(* A step that changes nothing keeps the invariant. *)
LEMMA StutterInv == IInv /\ UNCHANGED vars => IInv'
BY DEF vars, batchVars, stepVars, storeVars, IInv, TypeOK, QuietBetweenBatches, BatchIsReady,
   ValidatedFirst, Valid, Acyclic, DependenciesSettled, SettledHaveResults, StandInsDeclared,
   HasFallback, OutputsArrive, VerdictIsEarned, Status, InFlight

(* Every step keeps the invariant. *)
LEMMA NextInv == IInv /\ [Next]_vars => IInv'
<1> SUFFICES ASSUME IInv, [Next]_vars PROVE IInv'
  OBVIOUS
<1>1. CASE ExecuteInner
  BY <1>1, ValidateInv, NextBatchInv, LaunchInv, BatchDoneInv, SaveCheckpointInv,
     SaveStepResultInv, SkipStepInv, PlanStepInv, JoinSuccessInv, JoinFailureInv DEF ExecuteInner
<1>2. CASE \E s \in Steps : ExecuteStep(s)
  BY <1>2, ExecuteStepInv
<1>3. CASE UNCHANGED vars
  BY <1>3, StutterInv
<1>4. QED
  BY <1>1, <1>2, <1>3 DEF Next, Returned

-------------------------------------------------------------------------------
(* The inductive invariant holds in every reachable state. *)
THEOREM Invariance == Spec => []IInv
BY InitInv, NextInv, PTL DEF Spec

(* Every variable keeps its type and no task exceeds its retry budget. *)
THEOREM TypeCorrect == Spec => []TypeOK
<1>1. IInv => TypeOK
  BY DEF IInv
<1>2. QED
  BY <1>1, Invariance, PTL

(* No step is ever started before everything it depends on has settled. *)
THEOREM DependencyOrder == Spec => []DependenciesSettled
<1>1. IInv => DependenciesSettled
  BY DEF IInv
<1>2. QED
  BY <1>1, Invariance, PTL

(* "DAG has unreachable steps" is never returned: the code's error branch  *)
(* is dead once validation has accepted the graph.                         *)
THEOREM NoStuckWorkflow == Spec => []NeverUnreachable
<1>1. IInv => NeverUnreachable
  BY DEF IInv, VerdictIsEarned, NeverUnreachable
<1>2. QED
  BY <1>1, Invariance, PTL

(* A workflow reported as completed has settled every step, with a result, *)
(* and has no task left.                                                   *)
THEOREM CompletionIsComplete == Spec => []CompletedCoversAll
<1>1. IInv => CompletedCoversAll
  BY DEF IInv, VerdictIsEarned, SettledHaveResults, QuietBetweenBatches, CompletedCoversAll
<1>2. QED
  BY <1>1, Invariance, PTL

(* Conditions and templates always see the output of every completed step. *)
THEOREM OutputsAreVisible == Spec => []OutputsVisible
<1>1. IInv => OutputsVisible
  BY DEF IInv, OutputsArrive, OutputsVisible
<1>2. QED
  BY <1>1, Invariance, PTL

-------------------------------------------------------------------------------
(* The refinement: each step of the executor is a step of WorkflowSchedule *)
(* or leaves its variables alone.                                          *)

(* A return is a conclusion: what still runs is dropped. *)
LEMMA ReturnConcludes ==
    ASSUME IInv, NEW s \in Ids, NEW k \in {"invalid", "completed", "unreachable", "template", "failed"},
           Return(k, s), pc # "done", UNCHANGED <<def, completed>>,
           k = "completed" => completed = Steps /\ Running = {}
    PROVE  Schedule!Next
<1>1. verdict.kind = "none"
  BY DEF IInv, VerdictIsEarned
<1>2. Running' = {}
  BY ReturnDrops DEF IInv, Running
<1>3. verdict'.kind = k
  BY DEF Return
<1>4. CASE k = "completed"
  BY <1>1, <1>2, <1>3, <1>4 DEF Schedule!Next, Schedule!Conclude, Conclusion
<1>5. CASE k # "completed"
  BY <1>1, <1>2, <1>3, <1>5 DEF Schedule!Next, Schedule!Conclude, Conclusion
<1>6. QED
  BY <1>4, <1>5

(* Launching a batch starts ready steps of the schedule. *)
LEMMA LaunchStarts == IInv /\ Launch => Schedule!Next
<1> SUFFICES ASSUME IInv, Launch PROVE Schedule!Next
  OBVIOUS
<1>1. verdict.kind = "none" /\ \A s \in Steps : ~InFlight(s)
  BY DEF IInv, VerdictIsEarned, QuietBetweenBatches, Launch
<1>2. \A s \in runnable : s \in Steps /\ s \notin completed /\ def.deps[s] \subseteq completed
  BY DEF IInv, TypeOK, BatchIsReady, Launch
<1>3. \A s \in Steps : InFlight(s)' <=> s \in runnable
  BY <1>1 DEF Launch, Task, InFlight
<1>4. Running' = Running \cup runnable
  BY <1>1, <1>2, <1>3 DEF Running
<1>5. UNCHANGED <<def, completed, verdict>>
  BY DEF Launch, stepVars
<1>6. Schedule!Start
  <2>1. \A s \in runnable : Schedule!Ready(s) /\ s \notin Running
    BY <1>1, <1>2 DEF Schedule!Ready, Running
  <2>2. runnable \in SUBSET Steps
    BY <1>2
  <2>3. QED
    BY <1>1, <1>4, <1>5, <2>1, <2>2 DEF Schedule!Start, Conclusion
<1>7. QED
  BY <1>6 DEF Schedule!Next

(* Skipping a step is the skip of the schedule. *)
LEMMA SkipSettles == ASSUME IInv, NEW s \in Steps, SkipStep(s) PROVE Schedule!Next
<1>1. verdict.kind = "none"
  BY DEF IInv, VerdictIsEarned, SkipStep, Looking
<1>2. s \notin completed /\ def.deps[s] \subseteq completed
  BY DEF IInv, BatchIsReady, SkipStep, Looking
<1>3. /\ completed' = completed \cup {s} /\ Running' = Running
      /\ UNCHANGED <<def, verdict>>
  BY DEF SkipStep, Running, InFlight
<1>4. QED
  BY <1>1, <1>2, <1>3 DEF Schedule!Next, Schedule!Skip, Schedule!Ready, Conclusion

(* Collecting an outcome finishes a started step of the schedule. *)
LEMMA JoinFinishes ==
    ASSUME IInv, NEW s \in Steps, JoinSuccess(s) \/ JoinFailure(s)
    PROVE  Schedule!Next
<1>1. /\ pc = "collect" /\ verdict.kind = "none" /\ s \in Running /\ s \in Ids
      /\ task \in [Steps -> TaskType] /\ UNCHANGED def
  BY DEF IInv, TypeOK, VerdictIsEarned, JoinSuccess, JoinFailure, Joining, Running, InFlight, Ids
<1>2. ASSUME task' = [task EXCEPT ![s].phase = "joined"], UNCHANGED verdict,
             NEW standIn \in Steps, completed' = completed \cup {s, standIn}
      PROVE  Schedule!Next
  <2>1. task'[s].phase = "joined" /\ \A t \in Steps : t # s => task'[t] = task[t]
    BY <1>1, <1>2 DEF TaskType
  <2>2. Running' = Running \ {s}
    BY <1>1, <2>1 DEF Running, InFlight
  <2>3. QED
    BY <1>1, <1>2, <2>2 DEF Schedule!Next, Schedule!Finish, Conclusion
<1>3. CASE JoinSuccess(s)
  BY <1>2, <1>3 DEF JoinSuccess
<1>4. CASE JoinFailure(s)
  <2>1. CASE Return("failed", s) /\ UNCHANGED <<completed, pushes>>
    BY <1>1, <2>1, ReturnConcludes
  <2>2. CASE /\ task' = [task EXCEPT ![s].phase = "joined"]
             /\ completed' = completed \cup SettledBy(s)
             /\ UNCHANGED <<pc, verdict>>
    <3>1. FallbackSucceeded(s) => def.fallback[s] \in Steps
      BY DEF FallbackSucceeded, IInv, StandInsDeclared, HasFallback
    <3>2. PICK standIn \in Steps : SettledBy(s) = {s, standIn}
      BY <3>1 DEF SettledBy
    <3>3. QED
      BY <1>2, <2>2, <3>2
  <2>3. QED
    BY <1>4, <2>1, <2>2 DEF JoinFailure
<1>5. QED
  BY <1>3, <1>4

(* Between the launch of a task and its join nothing changes in the        *)
(* schedule, nor while the executor persists or plans a step.              *)
LEMMA TaskStepStutters ==
    ASSUME IInv, NEW s \in Steps, ExecuteStep(s)
    PROVE  UNCHANGED <<def, completed, verdict, Running>>
<1>1. task \in [Steps -> TaskType] /\ InFlight(s) /\ UNCHANGED executeInnerVars
  BY DEF IInv, TypeOK, ExecuteStep, Begin, Wake, Spawned, Answered, Killed, InFlight
<1>2. Retry(s).phase \in {"spawning", "backoff", "finished"}
  BY RetryType DEF IInv
<1>3. GoRound(s) => InFlight(s)'
  BY <1>1, <1>2 DEF GoRound, InFlight
<1>4. InFlight(s)'
  BY <1>1, <1>3 DEF ExecuteStep, Begin, Wake, Spawned, Answered, Killed, InFlight, TaskType
<1>5. \A t \in Steps : t # s => task'[t] = task[t]
  BY <1>1 DEF ExecuteStep, Begin, Wake, Spawned, Answered, Killed, GoRound
<1>6. Running' = Running
  BY <1>1, <1>4, <1>5 DEF Running, InFlight
<1>7. QED
  BY <1>1, <1>6 DEF executeInnerVars, stepVars

(* Every step of the executor is one of the schedule, or a stutter. *)
LEMMA NextImplements == IInv /\ [Next]_vars => [Schedule!Next]_(Schedule!vars)
<1> SUFFICES ASSUME IInv, [Next]_vars, ~UNCHANGED <<def.deps, completed, Running, Conclusion>>
             PROVE  Schedule!Next
  BY DEF Schedule!vars
<1>0. Unknown \in Ids /\ Conclusion = Conclusion
  BY DEF Ids
<1>1. CASE Validate
  <2>1. Return("invalid", Unknown) /\ UNCHANGED <<def, completed>> /\ pc # "done"
    BY <1>1 DEF Validate, stepVars, Running, InFlight, Conclusion
  <2>2. QED
    BY <1>0, <2>1, ReturnConcludes
<1>2. CASE NextBatch
  <2>1. UNCHANGED <<def, completed>> /\ pc # "done" /\ Valid(def)
    BY <1>2 DEF NextBatch, stepVars, IInv, ValidatedFirst
  <2>2. ReadySteps = {}
    BY <1>2 DEF NextBatch, stepVars, Running, InFlight, Conclusion
  <2>3. completed = Steps
    BY <2>1, <2>2, NoReadyMeansAllSettled DEF IInv, TypeOK
  <2>4. Running = {}
    BY <1>2 DEF NextBatch, IInv, QuietBetweenBatches, Running
  <2>5. Return("completed", Unknown)
    BY <1>2, <2>2, <2>3 DEF NextBatch
  <2>6. QED
    BY <1>0, <2>1, <2>3, <2>4, <2>5, ReturnConcludes
<1>3. CASE Launch
  BY <1>3, LaunchStarts
<1>4. CASE BatchDone \/ SaveCheckpoint \/ SaveStepResult
  BY <1>4 DEF BatchDone, SaveCheckpoint, SaveStepResult, stepVars, Running, InFlight, Conclusion
<1>5. ASSUME NEW s \in Steps, SkipStep(s) PROVE Schedule!Next
  BY <1>5, SkipSettles
<1>6. ASSUME NEW s \in Steps, PlanStep(s) PROVE Schedule!Next
  <2>1. Return("template", s) /\ UNCHANGED <<def, completed>> /\ pc # "done" /\ s \in Ids
    BY <1>6 DEF PlanStep, Looking, stepVars, Running, InFlight, Conclusion, Ids
  <2>2. QED
    BY <2>1, ReturnConcludes
<1>7. ASSUME NEW s \in Steps, JoinSuccess(s) \/ JoinFailure(s) PROVE Schedule!Next
  BY <1>7, JoinFinishes
<1>8. CASE \E s \in Steps : ExecuteStep(s)
  BY <1>8, TaskStepStutters DEF Conclusion
<1>9. CASE UNCHANGED vars
  BY <1>9 DEF vars, stepVars, Running, InFlight, Conclusion
<1>10. QED
  BY <1>1, <1>2, <1>3, <1>4, <1>5, <1>6, <1>7, <1>8, <1>9 DEF Next, Returned, ExecuteInner

(* The executor, with its tasks, retries, fallbacks and persistence,       *)
(* implements the scheduling it promises.                                  *)
THEOREM Refinement == Spec => ImplementsSchedule
<1>1. Init => Schedule!Init
  BY DEF Init, Schedule!Init, Running, Conclusion, InFlight, NoTask, Task
<1>2. QED
  BY <1>1, NextImplements, Invariance, PTL DEF Spec, ImplementsSchedule, Schedule!Spec
===============================================================================
