------------------------- MODULE WorkflowRecordsProofs -------------------------
(***************************************************************************)
(* Proofs about what the executor records of its steps: results, outputs,  *)
(* progress reports, the checkpoint and the rows of the store.  They rest  *)
(* on RecordsInv, which is inductive relative to the invariant IInv that   *)
(* WorkflowExecutorProofs establishes.                                     *)
(***************************************************************************)
EXTENDS WorkflowExecutorProofs

-------------------------------------------------------------------------------
(* What does not depend on the state but through the definition. *)

(* Which steps stand in for others, and which conditions look only at own  *)
(* dependencies, is fixed with the definition.                             *)
LEMMA DefinitionFixes ==
    ASSUME UNCHANGED def
    PROVE  /\ Own' = Own /\ StandIns' = StandIns
           /\ \A s \in Steps : /\ HasFallback(s)' <=> HasFallback(s)
                               /\ AboutOwnDependencies(s)' <=> AboutOwnDependencies(s)
<1>1. \A s \in Steps : HasFallback(s)' <=> HasFallback(s)
  BY DEF HasFallback
<1>2. StandIns' = StandIns
  BY <1>1 DEF StandIns
<1>3. QED
  BY <1>1, <1>2 DEF Own, AboutOwnDependencies

(* A condition about a step's own dependencies evaluates to the same as    *)
(* long as their statuses and outputs stay: evaluate_condition reads       *)
(* nothing else.                                                           *)
LEMMA ConditionFrame ==
    ASSUME NEW s \in Own, UNCHANGED def, AboutOwnDependencies(s),
           \A d \in def.deps[s] \cap Own : results'[d] = results[d] /\ outputs'[d] = outputs[d]
    PROVE  ConditionMet(s)' <=> ConditionMet(s)
<1>1. ASSUME NEW clause \in def.cond[s], NEW lit \in clause
      PROVE  Holds(lit)' <=> Holds(lit)
  <2>1. lit.step \in def.deps[s] \ StandIns
    BY <1>1 DEF AboutOwnDependencies
  <2>2. lit.step \in Steps => lit.step \in def.deps[s] \cap Own
    BY <2>1 DEF Own
  <2>3. Resolve(lit)' = Resolve(lit)
    BY <2>2 DEF Resolve, Status
  <2>4. QED
    BY <2>3 DEF Holds
<1>2. \A clause \in def.cond[s] : (\A lit \in clause : Holds(lit)') <=> (\A lit \in clause : Holds(lit))
  BY <1>1
<1>3. QED
  BY <1>2 DEF ConditionMet

(* The target of a fallback that ran is not one of the own steps. *)
LEMMA StandInsAreNotOwn ==
    ASSUME IInv, NEW s \in Steps, task[s].fallback
    PROVE  def.fallback[s] \in Steps /\ def.fallback[s] \notin Own
BY DEF IInv, StandInsDeclared, HasFallback, StandIns, Own

(* An own step that settled has a result and no running task, and so has   *)
(* everything it depends on.                                               *)
LEMMA SettledOwn ==
    ASSUME IInv, RecordsInv, NEW s \in Own, s \in completed
    PROVE  /\ Status(s) # Nothing /\ ~InFlight(s)
           /\ def.deps[s] \subseteq completed
BY DEF IInv, SettledHaveResults, RecordsInv, RecordsFollowTasks, Own

(* Nothing has run and nothing is recorded at the start. *)
LEMMA RecordsInit == Init => RecordsInv
<1> SUFFICES ASSUME Init PROVE RecordsInv
  OBVIOUS
<1>1. /\ \A s \in Steps : /\ task[s] = NoTask /\ Status(s) = Nothing /\ ~InFlight(s)
                          /\ reported[s] = Nothing /\ checkpoint[s].status = Nothing
                          /\ task[s].phase = "idle" /\ ~task[s].fallback
      /\ pc = "validate" /\ verdict.kind = "none" /\ completed = {} /\ saved = {}
      /\ ~Saving
  BY DEF Init, NoTask, Task, Status, NoResult, InFlight, Saving
<1>2. RecordsFollowTasks /\ OpenStepsBlock /\ SavesAreSuccesses /\ DroppedAtTheEnd
  BY <1>1 DEF RecordsFollowTasks, OpenStepsBlock, SavesAreSuccesses, DroppedAtTheEnd, Own
<1>3. ReportsFollowTasks /\ DecisionsHold
  BY <1>1 DEF ReportsFollowTasks, DecisionsHold, Own, Nothing
<1>4. AbortIsFinal /\ PersistedIsTrue /\ CheckpointClosed /\ OwnInputsRender
  BY <1>1 DEF AbortIsFinal, PersistedIsTrue, CheckpointClosed, OwnInputsRender, Nothing
<1>5. QED
  BY <1>2, <1>3, <1>4 DEF RecordsInv

-------------------------------------------------------------------------------
(* execute_inner between batches: only its place, its batch and its        *)
(* verdict change.                                                         *)
LEMMA FrameRecords ==
    ASSUME IInv, RecordsInv, UNCHANGED <<def, stepVars, task, reported, storeVars>>,
           ~Saving, pc # "done", ~Saving', verdict'.kind # "failed", OwnInputsRender',
           \A s \in Own : AboutOwnDependencies(s) /\ pc' = "plan" /\ s \in runnable'
                         => ConditionMet(s)
    PROVE  RecordsInv'
<1>1. UNCHANGED <<def, results, outputs, completed, joined, task, reported, checkpoint, saved>>
  BY DEF stepVars, storeVars
<1>2. Own' = Own /\ \A s \in Steps : AboutOwnDependencies(s)' <=> AboutOwnDependencies(s)
  BY <1>1, DefinitionFixes
<1>3. \A s \in Steps : ConditionMet(s)' <=> ConditionMet(s)
  BY <1>1 DEF ConditionMet, Holds, Resolve, Status
<1>4. \A s \in Steps : /\ Status(s)' = Status(s) /\ (InFlight(s)' <=> InFlight(s))
                       /\ (Succeeded(s)' <=> Succeeded(s)) /\ task[s].phase # "dropped"
  BY <1>1 DEF Status, InFlight, Succeeded, RecordsInv, DroppedAtTheEnd
<1>5. verdict.kind = "none"
  BY DEF IInv, VerdictIsEarned
<1>6. RecordsFollowTasks'
  BY <1>1, <1>2, <1>4, <1>5 DEF RecordsInv, RecordsFollowTasks, Aborted, Own
<1>7. OpenStepsBlock' /\ SavesAreSuccesses' /\ DroppedAtTheEnd'
  BY <1>1, <1>2, <1>4 DEF RecordsInv, OpenStepsBlock, SavesAreSuccesses, DroppedAtTheEnd, Own
<1>8. ReportsFollowTasks'
  BY <1>1, <1>2, <1>4 DEF RecordsInv, ReportsFollowTasks, Own
<1>9. DecisionsHold'
  BY <1>1, <1>2, <1>3, <1>4 DEF RecordsInv, DecisionsHold, Own
<1>10. PersistedIsTrue'
  BY <1>1, <1>2, <1>4 DEF RecordsInv, PersistedIsTrue, Own, Saving
<1>11. AbortIsFinal' /\ CheckpointClosed'
  BY <1>1, <1>2 DEF RecordsInv, AbortIsFinal, CheckpointClosed, Own
<1>12. QED
  BY <1>6, <1>7, <1>8, <1>9, <1>10, <1>11 DEF RecordsInv

(* Returning when no task is in flight leaves the tasks alone. *)
LEMMA QuietReturn ==
    ASSUME IInv, NEW k, NEW t \in Ids, Return(k, t), \A s \in Steps : ~InFlight(s)
    PROVE  task' = task /\ pc' = "done" /\ verdict' = [kind |-> k, step |-> t]
BY DEF Return, IInv, TypeOK

(* execute_inner's checks: a definition that is refused ends the execution *)
(* before any step has a record.                                           *)
LEMMA ValidateRecords == IInv /\ RecordsInv /\ Validate => RecordsInv'
<1> SUFFICES ASSUME IInv, RecordsInv, Validate PROVE RecordsInv'
  OBVIOUS
<1>1. /\ pc = "validate" /\ UNCHANGED <<def, stepVars, reported, storeVars>>
      /\ \A s \in Steps : ~InFlight(s)
      /\ verdict.kind = "none" /\ Unknown \in Ids
  BY DEF Validate, IInv, QuietBetweenBatches, VerdictIsEarned, Ids
<1>2. \/ pc' = "loop" /\ UNCHANGED <<verdict, task>>
      \/ pc' = "done" /\ verdict'.kind = "invalid" /\ UNCHANGED task
  BY <1>1, QuietReturn DEF Validate
<1>3. ~Saving /\ ~Saving' /\ pc # "done" /\ verdict'.kind # "failed"
  BY <1>1, <1>2 DEF Saving
<1>4. OwnInputsRender'
  BY <1>1, <1>2 DEF OwnInputsRender
<1>5. QED
  BY <1>1, <1>2, <1>3, <1>4, FrameRecords

(* Choosing the next batch reads the records and changes none. *)
LEMMA NextBatchRecords == IInv /\ RecordsInv /\ NextBatch => RecordsInv'
<1> SUFFICES ASSUME IInv, RecordsInv, NextBatch PROVE RecordsInv'
  OBVIOUS
<1>1. /\ pc = "loop" /\ UNCHANGED <<def, stepVars, reported, storeVars>>
      /\ \A s \in Steps : ~InFlight(s)
      /\ verdict.kind = "none" /\ Unknown \in Ids
  BY DEF NextBatch, IInv, QuietBetweenBatches, VerdictIsEarned, Ids
<1>2. \/ pc' = "plan" /\ runnable' = {} /\ UNCHANGED <<verdict, task>>
      \/ pc' = "done" /\ verdict'.kind \in {"completed", "unreachable"} /\ UNCHANGED task
  BY <1>1, QuietReturn DEF NextBatch
<1>3. ~Saving /\ ~Saving' /\ pc # "done" /\ verdict'.kind # "failed"
  BY <1>1, <1>2 DEF Saving
<1>4. OwnInputsRender'
  BY <1>1, <1>2 DEF OwnInputsRender
<1>5. QED
  BY <1>1, <1>2, <1>3, <1>4, FrameRecords

(* The end of a batch goes back for the next one. *)
LEMMA BatchDoneRecords == IInv /\ RecordsInv /\ BatchDone => RecordsInv'
<1> SUFFICES ASSUME IInv, RecordsInv, BatchDone PROVE RecordsInv'
  OBVIOUS
<1>1. /\ pc = "collect" /\ pc' = "loop" /\ verdict.kind = "none"
      /\ UNCHANGED <<def, verdict, stepVars, task, reported, storeVars>>
  BY DEF BatchDone, IInv, VerdictIsEarned
<1>2. ~Saving /\ ~Saving' /\ OwnInputsRender'
  BY <1>1 DEF Saving, OwnInputsRender
<1>3. QED
  BY <1>1, <1>2, FrameRecords

(* A prompt that fails to render refers to something that is not a settled *)
(* dependency.                                                             *)
LEMMA PlanStepRecords == ASSUME IInv, RecordsInv, NEW s \in Steps, PlanStep(s) PROVE RecordsInv'
<1>1. /\ pc = "plan" /\ s \in ready /\ ConditionMet(s)
      /\ UNCHANGED <<def, stepVars, reported, storeVars>>
      /\ \A t \in Steps : ~InFlight(t)
      /\ verdict.kind = "none" /\ s \in Ids
      /\ def.deps[s] \subseteq completed /\ completed \subseteq Steps
  BY DEF PlanStep, Looking, IInv, TypeOK, QuietBetweenBatches, VerdictIsEarned, BatchIsReady, Ids
<1>2. CASE runnable' = runnable \cup {s} /\ UNCHANGED <<pc, verdict, task>>
  <2>1. \A t \in Own : AboutOwnDependencies(t) /\ t \in runnable' => ConditionMet(t)
    BY <1>1, <1>2 DEF RecordsInv, DecisionsHold
  <2>2. ~Saving /\ ~Saving' /\ pc # "done" /\ verdict'.kind # "failed" /\ OwnInputsRender'
    BY <1>1, <1>2 DEF Saving, OwnInputsRender
  <2>3. QED
    BY <1>1, <1>2, <2>1, <2>2, FrameRecords
<1>3. CASE ~Renders(s) /\ Return("template", s) /\ UNCHANGED batchVars
  <2>1. pc' = "done" /\ verdict' = [kind |-> "template", step |-> s] /\ UNCHANGED task
    BY <1>1, <1>3, QuietReturn
  <2>2. PICK x \in def.uses[s] : ~(x \in Steps /\ Status(x) # Nothing)
    BY <1>3 DEF Renders
  <2>3. x \notin completed
    BY <1>1, <2>2 DEF IInv, SettledHaveResults
  <2>4. OwnInputsRender'
    BY <1>1, <2>1, <2>2, <2>3 DEF OwnInputsRender
  <2>5. ~Saving /\ ~Saving' /\ pc # "done" /\ verdict'.kind # "failed"
    BY <1>1, <2>1 DEF Saving
  <2>6. QED
    BY <1>1, <2>1, <2>4, <2>5, FrameRecords
<1>4. QED
  BY <1>2, <1>3 DEF PlanStep

-------------------------------------------------------------------------------
(* A decision stands through every step that leaves the settled results    *)
(* and outputs alone: what the step depends on has settled, and is not the *)
(* one whose output is still to be inserted.                               *)
LEMMA DecisionsStep ==
    ASSUME IInv, RecordsInv, UNCHANGED def,
           \A d \in Own : d \in completed =>
               /\ results'[d] = results[d]
               /\ outputs'[d] = outputs[d] \/ (Saving /\ d = joined),
           \A s \in Own : ((pc' = "plan" /\ s \in runnable') \/ task'[s].phase # "idle") =>
               \/ (pc = "plan" /\ s \in runnable) \/ task[s].phase # "idle"
               \/ (AboutOwnDependencies(s) => ConditionMet(s)) /\ ~Saving
                  /\ def.deps[s] \subseteq completed,
           \A s \in Own : results'[s].status = "skipped" =>
               \/ Status(s) = "skipped"
               \/ ~ConditionMet(s) /\ ~Saving /\ def.deps[s] \subseteq completed
    PROVE  DecisionsHold'
<1>1. Own' = Own /\ \A s \in Steps : AboutOwnDependencies(s)' <=> AboutOwnDependencies(s)
  BY DefinitionFixes
<1>2. Saving => joined \in Steps /\ pc # "plan"
  BY DEF Saving, IInv, OutputsArrive
<1>3. ASSUME NEW s \in Own, AboutOwnDependencies(s), def.deps[s] \subseteq completed,
             Saving => task[s].phase # "idle" \/ Status(s) # Nothing
      PROVE  ConditionMet(s)' <=> ConditionMet(s)
  <2>1. Saving => joined \notin def.deps[s]
    BY <1>2, <1>3 DEF RecordsInv, OpenStepsBlock
  <2>2. \A d \in def.deps[s] \cap Own : results'[d] = results[d] /\ outputs'[d] = outputs[d]
    BY <1>3, <2>1
  <2>3. QED
    BY <1>3, <2>2, ConditionFrame
<1>4. ASSUME NEW s \in Own, AboutOwnDependencies(s),
             (pc' = "plan" /\ s \in runnable') \/ task'[s].phase # "idle"
      PROVE  ConditionMet(s)'
  <2>1. CASE pc = "plan" /\ s \in runnable
    <3>1. def.deps[s] \subseteq completed /\ ConditionMet(s) /\ ~Saving
      BY <1>2, <1>4, <2>1 DEF IInv, BatchIsReady, RecordsInv, DecisionsHold
    <3>2. QED
      BY <1>3, <1>4, <3>1
  <2>2. CASE task[s].phase # "idle"
    <3>1. def.deps[s] \subseteq completed /\ ConditionMet(s)
      BY <1>4, <2>2 DEF IInv, DependenciesSettled, RecordsInv, DecisionsHold, Own
    <3>2. QED
      BY <1>3, <1>4, <2>2, <3>1
  <2>3. CASE ConditionMet(s) /\ ~Saving /\ def.deps[s] \subseteq completed
    BY <1>3, <1>4, <2>3
  <2>4. QED
    BY <1>4, <2>1, <2>2, <2>3
<1>5. ASSUME NEW s \in Own, AboutOwnDependencies(s), results'[s].status = "skipped"
      PROVE  ~ConditionMet(s)'
  <2>1. CASE Status(s) = "skipped"
    <3>1. ~Aborted(s)
      BY <2>1 DEF Aborted, RecordsInv, AbortIsFinal
    <3>2. def.deps[s] \subseteq completed /\ ~ConditionMet(s)
      BY <1>5, <2>1, <3>1 DEF RecordsInv, RecordsFollowTasks, DecisionsHold, Nothing
    <3>3. QED
      BY <1>3, <1>5, <2>1, <3>2 DEF Nothing
  <2>2. CASE ~ConditionMet(s) /\ ~Saving /\ def.deps[s] \subseteq completed
    BY <1>3, <1>5, <2>2
  <2>3. QED
    BY <1>5, <2>1, <2>2
<1>6. QED
  BY <1>1, <1>4, <1>5 DEF DecisionsHold, Own, Status

-------------------------------------------------------------------------------
(* The steps of execute_inner that act on tasks and records. *)

(* A step that is skipped is recorded at once: it has no task, and all it  *)
(* depends on has settled.                                                 *)
LEMMA SkipStepRecords == ASSUME IInv, RecordsInv, NEW s \in Steps, SkipStep(s) PROVE RecordsInv'
<1>1. /\ pc = "plan" /\ s \in ready /\ ~ConditionMet(s) /\ ~Saving /\ ~Saving'
      /\ s \notin completed /\ def.deps[s] \subseteq completed
      /\ completed' = completed \cup {s}
      /\ verdict.kind = "none"
      /\ UNCHANGED <<def, pc, verdict, runnable, outputs, joined, task, checkpoint, saved>>
      /\ \A t \in Steps : ~InFlight(t)
  BY DEF SkipStep, Looking, Saving, storeVars, IInv, BatchIsReady, VerdictIsEarned,
     QuietBetweenBatches
<1>2. /\ results'[s].status = "skipped" /\ reported'[s] = "skipped"
      /\ \A t \in Steps : t # s => results'[t] = results[t] /\ reported'[t] = reported[t]
  BY DEF SkipStep, IInv, TypeOK
<1>3. Own' = Own
  BY <1>1, DefinitionFixes
<1>4. s \in Own => Status(s) = Nothing
  BY <1>1 DEF RecordsInv, RecordsFollowTasks, Aborted
<1>5. s \in Own => task[s].phase = "idle"
  <2>1. task[s].phase \in Phases
    BY DEF IInv, TypeOK, TaskType
  <2>2. task[s].phase # "dropped"
    BY <1>1 DEF RecordsInv, DroppedAtTheEnd
  <2>3. QED
    BY <1>1, <2>1, <2>2 DEF RecordsInv, RecordsFollowTasks, InFlight, Phases
<1>6. \A t \in Steps : (InFlight(t)' <=> InFlight(t)) /\ (Succeeded(t)' <=> Succeeded(t))
  BY <1>1 DEF InFlight, Succeeded
<1>7. RecordsFollowTasks'
  BY <1>1, <1>2, <1>3, <1>4, <1>5, <1>6 DEF RecordsInv, RecordsFollowTasks, Status, Aborted, Own, Nothing
<1>8. OpenStepsBlock' /\ SavesAreSuccesses' /\ DroppedAtTheEnd'
  BY <1>1, <1>3, <1>6 DEF RecordsInv, OpenStepsBlock, SavesAreSuccesses, DroppedAtTheEnd
<1>9. ReportsFollowTasks'
  <2>1. s \in Own => ~task[s].fallback
    BY <1>5 DEF RecordsInv, RecordsFollowTasks, NoTask, Task
  <2>2. QED
    BY <1>1, <1>2, <1>3, <1>5, <1>6, <2>1 DEF RecordsInv, ReportsFollowTasks, Status, Own
<1>10. DecisionsHold'
  BY <1>1, <1>2, DecisionsStep DEF Own, Status
<1>11. AbortIsFinal' /\ OwnInputsRender'
  BY <1>1 DEF AbortIsFinal, OwnInputsRender
<1>12. PersistedIsTrue' /\ CheckpointClosed'
  BY <1>1, <1>2, <1>3, <1>4, DefinitionFixes DEF RecordsInv, PersistedIsTrue, CheckpointClosed,
     Status, Own, Nothing
<1>13. QED
  BY <1>7, <1>8, <1>9, <1>10, <1>11, <1>12 DEF RecordsInv

(* A launched step was ready, so nothing that is launched with it, or has  *)
(* ever run, depends on it.                                                *)
LEMMA LaunchRecords == IInv /\ RecordsInv /\ Launch => RecordsInv'
<1> SUFFICES ASSUME IInv, RecordsInv, Launch PROVE RecordsInv'
  OBVIOUS
<1>1. /\ pc = "plan" /\ pc' = "collect" /\ ~Saving /\ ~Saving' /\ verdict.kind = "none"
      /\ UNCHANGED <<def, verdict, runnable, stepVars, reported, storeVars>>
      /\ UNCHANGED <<results, outputs, completed, joined, checkpoint, saved>>
      /\ \A t \in Steps : ~InFlight(t)
      /\ runnable \subseteq Steps
  BY DEF Launch, Saving, batchVars, stepVars, storeVars, IInv, TypeOK, VerdictIsEarned,
     QuietBetweenBatches
<1>2. \A s \in runnable : s \notin completed /\ def.deps[s] \subseteq completed
  BY <1>1 DEF IInv, BatchIsReady
<1>3. Own' = Own /\ \A s \in Steps : Status(s)' = Status(s)
  BY <1>1, DefinitionFixes DEF Status
<1>4. \A s \in Steps : /\ s \in runnable => task'[s].phase = "started" /\ ~task'[s].fallback
                       /\ s \notin runnable => task'[s] = task[s]
  BY DEF Launch, Task
<1>5. \A s \in Steps : /\ InFlight(s)' <=> s \in runnable
                       /\ s \notin runnable => (Succeeded(s)' <=> Succeeded(s))
  BY <1>1, <1>4 DEF InFlight, Succeeded
<1>6. \A s \in runnable : s \in Own => Status(s) = Nothing
  BY <1>1, <1>2 DEF RecordsInv, RecordsFollowTasks, Aborted
<1>7. RecordsFollowTasks'
  BY <1>1, <1>3, <1>4, <1>5, <1>6 DEF RecordsInv, RecordsFollowTasks, Aborted, Own, Nothing
<1>8. OpenStepsBlock'
  <2>1. SUFFICES ASSUME NEW t \in runnable, NEW s \in Own, t \in def.deps[s]
                 PROVE  task'[s].phase = "idle" /\ Status(s) = Nothing
    BY <1>1, <1>3, <1>5 DEF OpenStepsBlock, Own
  <2>2. t \notin completed
    BY <1>2, <2>1
  <2>3. s \notin runnable /\ s \notin completed /\ task[s].phase = "idle"
    BY <1>2, <2>1, <2>2 DEF RecordsInv, RecordsFollowTasks, IInv, DependenciesSettled, Own
  <2>4. QED
    BY <1>1, <1>4, <2>3 DEF RecordsInv, RecordsFollowTasks, Aborted, Own
<1>9. SavesAreSuccesses' /\ DroppedAtTheEnd'
  BY <1>1, <1>4 DEF RecordsInv, SavesAreSuccesses, DroppedAtTheEnd
<1>10. ReportsFollowTasks'
  BY <1>1, <1>3, <1>4, <1>5 DEF RecordsInv, ReportsFollowTasks, Own
<1>11. DecisionsHold'
  BY <1>1, <1>3, <1>4, DecisionsStep DEF Own, Status
<1>12. AbortIsFinal' /\ OwnInputsRender'
  BY <1>1 DEF AbortIsFinal, OwnInputsRender
<1>13. PersistedIsTrue' /\ CheckpointClosed'
  BY <1>1, <1>3 DEF RecordsInv, PersistedIsTrue, CheckpointClosed, Own, Saving
<1>14. QED
  BY <1>7, <1>8, <1>9, <1>10, <1>11, <1>12, <1>13 DEF RecordsInv

(* What the checkpoint records is a state of the results in which every    *)
(* settled step has its dependencies.                                      *)
LEMMA SaveCheckpointRecords == IInv /\ RecordsInv /\ SaveCheckpoint => RecordsInv'
<1> SUFFICES ASSUME IInv, RecordsInv, SaveCheckpoint PROVE RecordsInv'
  OBVIOUS
<1>1. /\ pc = "saveCheckpoint" /\ pc' = "saveResult" /\ Saving /\ Saving' /\ verdict.kind = "none"
      /\ UNCHANGED <<def, verdict, runnable, task, reported, saved>>
      /\ UNCHANGED <<results, outputs, completed, joined>>
      /\ checkpoint' = results \/ checkpoint' = checkpoint
  BY DEF SaveCheckpoint, Saving, batchVars, stepVars, IInv, VerdictIsEarned
<1>2. /\ Own' = Own
      /\ \A s \in Steps : /\ Status(s)' = Status(s) /\ (InFlight(s)' <=> InFlight(s))
                           /\ (Succeeded(s)' <=> Succeeded(s))
  BY <1>1, DefinitionFixes DEF Status, InFlight, Succeeded
<1>3. RecordsFollowTasks' /\ OpenStepsBlock' /\ SavesAreSuccesses'
  BY <1>1, <1>2 DEF RecordsInv, RecordsFollowTasks, OpenStepsBlock, SavesAreSuccesses, Aborted, Own
<1>4. ReportsFollowTasks' /\ DroppedAtTheEnd'
  BY <1>1, <1>2 DEF RecordsInv, ReportsFollowTasks, DroppedAtTheEnd, Own
<1>5. DecisionsHold'
  BY <1>1, DecisionsStep DEF Own, Status
<1>6. AbortIsFinal' /\ OwnInputsRender'
  BY <1>1 DEF AbortIsFinal, OwnInputsRender
<1>7. PersistedIsTrue'
  <2>1. \A s \in Own : Status(s) = "completed" =>
           (outputs[s] # Nothing \/ s = joined)
    BY DEF IInv, OutputsArrive, Own
  <2>2. QED
    BY <1>1, <1>2, <2>1 DEF RecordsInv, PersistedIsTrue, Status, Own
<1>8. CheckpointClosed'
  <2>1. ASSUME NEW s \in Own, Status(s) # Nothing
        PROVE  \A d \in def.deps[s] : Status(d) # Nothing
    BY <1>1, <2>1 DEF RecordsInv, RecordsFollowTasks, Aborted, IInv, SettledHaveResults
  <2>2. QED
    BY <1>1, <1>2, <2>1 DEF RecordsInv, CheckpointClosed, Own, Status
<1>9. QED
  BY <1>3, <1>4, <1>5, <1>6, <1>7, <1>8 DEF RecordsInv

(* The output is inserted only now, but for a step whose success has been  *)
(* known since the join.                                                   *)
LEMMA SaveStepResultRecords == IInv /\ RecordsInv /\ SaveStepResult => RecordsInv'
<1> SUFFICES ASSUME IInv, RecordsInv, SaveStepResult PROVE RecordsInv'
  OBVIOUS
<1>1. /\ pc = "saveResult" /\ pc' = "collect" /\ Saving /\ ~Saving' /\ verdict.kind = "none"
      /\ UNCHANGED <<def, verdict, runnable, task, reported, checkpoint>>
      /\ UNCHANGED <<results, completed, joined>>
      /\ saved' = saved \cup {joined} \/ saved' = saved
      /\ joined \in Steps
  BY DEF SaveStepResult, Saving, batchVars, IInv, VerdictIsEarned, OutputsArrive
<1>2. /\ Own' = Own
      /\ \A s \in Steps : /\ Status(s)' = Status(s) /\ (InFlight(s)' <=> InFlight(s))
                           /\ (Succeeded(s)' <=> Succeeded(s))
  BY <1>1, DefinitionFixes DEF Status, InFlight, Succeeded
<1>3. /\ outputs'[joined] # Nothing
      /\ \A s \in Steps : s # joined => outputs'[s] = outputs[s]
  BY <1>1 DEF SaveStepResult, IInv, TypeOK, OutputsArrive
<1>4. RecordsFollowTasks' /\ OpenStepsBlock' /\ SavesAreSuccesses'
  BY <1>1, <1>2 DEF RecordsInv, RecordsFollowTasks, OpenStepsBlock, SavesAreSuccesses, Aborted, Own
<1>5. ReportsFollowTasks' /\ DroppedAtTheEnd'
  BY <1>1, <1>2 DEF RecordsInv, ReportsFollowTasks, DroppedAtTheEnd, Own
<1>6. DecisionsHold'
  BY <1>1, <1>3, DecisionsStep DEF Own, Status
<1>7. AbortIsFinal' /\ OwnInputsRender'
  BY <1>1 DEF AbortIsFinal, OwnInputsRender
<1>8. PersistedIsTrue' /\ CheckpointClosed'
  BY <1>1, <1>2, <1>3 DEF RecordsInv, PersistedIsTrue, CheckpointClosed, SavesAreSuccesses, Own
<1>9. QED
  BY <1>4, <1>5, <1>6, <1>7, <1>8 DEF RecordsInv

-------------------------------------------------------------------------------
(* The steps of the tasks. *)

(* A task that stays in flight and has reported what it must disturbs no   *)
(* record.                                                                 *)
LEMMA TaskStepRecords ==
    ASSUME IInv, RecordsInv, NEW s \in Steps, InFlight(s), InFlight(s)',
           UNCHANGED executeInnerVars,
           \A t \in Steps : t # s => task'[t] = task[t] /\ reported'[t] = reported[t],
           s \in Own =>
              /\ (task'[s].phase \in {"killing", "finished"} /\ Succeeded(s)')
                     => reported'[s] = "completed"
              /\ (task'[s].fallback \/ (task'[s].phase = "finished" /\ ~Succeeded(s)'))
                     => reported'[s] = "failed"
    PROVE  RecordsInv'
<1>1. /\ UNCHANGED <<def, pc, verdict, runnable, results, outputs, completed, joined>>
      /\ UNCHANGED <<checkpoint, saved>>
      /\ Saving' = Saving /\ pc # "done" /\ pc # "plan" /\ verdict.kind = "none"
  BY DEF executeInnerVars, batchVars, stepVars, storeVars, Saving, IInv, QuietBetweenBatches,
     VerdictIsEarned
<1>2. /\ task[s].phase \notin {"idle", "joined", "dropped"}
      /\ task'[s].phase \notin {"idle", "joined", "dropped"}
  BY DEF InFlight
<1>3. Own' = Own /\ \A t \in Steps : Status(t)' = Status(t)
  BY <1>1, DefinitionFixes DEF Status
<1>4. \A t \in Steps : /\ InFlight(t)' <=> InFlight(t)
                       /\ t # s => (Succeeded(t)' <=> Succeeded(t))
  BY DEF InFlight, Succeeded
<1>5. RecordsFollowTasks'
  BY <1>1, <1>2, <1>3, <1>4 DEF RecordsInv, RecordsFollowTasks, Aborted, Own
<1>6. OpenStepsBlock'
  BY <1>1, <1>2, <1>3, <1>4 DEF RecordsInv, OpenStepsBlock, Own
<1>7. SavesAreSuccesses' /\ DroppedAtTheEnd'
  BY <1>1, <1>2, <1>3 DEF RecordsInv, SavesAreSuccesses, DroppedAtTheEnd, Own
<1>8. ReportsFollowTasks'
  BY <1>1, <1>2, <1>3, <1>4 DEF RecordsInv, ReportsFollowTasks, Own
<1>9. DecisionsHold'
  <2>1. \A t \in Own : task'[t].phase # "idle" => task[t].phase # "idle"
    BY <1>2 DEF Own
  <2>2. QED
    BY <1>1, <2>1, DecisionsStep DEF Own, Status
<1>10. AbortIsFinal' /\ OwnInputsRender'
  BY <1>1 DEF AbortIsFinal, OwnInputsRender
<1>11. PersistedIsTrue' /\ CheckpointClosed'
  BY <1>1, <1>3 DEF RecordsInv, PersistedIsTrue, CheckpointClosed, Own
<1>12. QED
  BY <1>5, <1>6, <1>7, <1>8, <1>9, <1>10, <1>11 DEF RecordsInv

(* Going round the loop reports the start of the first attempt and, once   *)
(* the attempts are exhausted, the failure.                                *)
LEMMA GoRoundRecords ==
    ASSUME IInv, RecordsInv, NEW s \in Steps, InFlight(s), GoRound(s),
           UNCHANGED executeInnerVars
    PROVE  RecordsInv'
<1>1. /\ task' = [task EXCEPT ![s] = Retry(s)] /\ task \in [Steps -> TaskType]
      /\ reported \in [Steps -> {Nothing, "running", "skipped", "completed", "failed"}]
  BY DEF GoRound, IInv, TypeOK
<1>2. task'[s] = Retry(s) /\ \A t \in Steps : t # s => task'[t] = task[t]
  BY <1>1
<1>3. \A t \in Steps : t # s => reported'[t] = reported[t]
  BY <1>1 DEF GoRound
<1>4. CASE Exhausted(s)
  <2>1. /\ task'[s].phase \in {"spawning", "finished"} /\ task'[s].output = Nothing
        /\ reported'[s] = "failed"
    BY <1>1, <1>2, <1>4 DEF Retry, GoRound
  <2>2. InFlight(s)' /\ ~Succeeded(s)'
    BY <2>1 DEF InFlight, Succeeded
  <2>3. QED
    BY <1>2, <1>3, <2>1, <2>2, TaskStepRecords
<1>5. CASE ~Exhausted(s)
  <2>1. task'[s].phase \in {"spawning", "backoff"} /\ task'[s].fallback = FALSE
    BY <1>2, <1>5 DEF Retry
  <2>2. InFlight(s)'
    BY <2>1 DEF InFlight
  <2>3. QED
    BY <1>2, <1>3, <2>1, <2>2, TaskStepRecords
<1>6. QED
  BY <1>4, <1>5

(* What a task does between its await points changes its own record only. *)
LEMMA ExecuteStepRecords ==
    ASSUME IInv, RecordsInv, NEW s \in Steps, ExecuteStep(s)
    PROVE  RecordsInv'
<1>1. task \in [Steps -> TaskType] /\ task[s] \in TaskType /\ UNCHANGED executeInnerVars
  BY DEF IInv, TypeOK, ExecuteStep, Begin, Wake, Spawned, Answered, Killed, executeInnerVars
<1>2. /\ s \in Own /\ task[s].fallback => reported[s] = "failed"
      /\ s \in Own /\ task[s].phase \in {"killing", "finished"} /\ Succeeded(s)
             => reported[s] = "completed"
  BY DEF RecordsInv, ReportsFollowTasks
<1>3. CASE Begin(s)
  BY <1>1, <1>3, GoRoundRecords DEF Begin, InFlight
<1>4. CASE Wake(s)
  <2>1. /\ task[s].phase = "backoff" /\ task' = [task EXCEPT ![s].phase = "spawning"]
        /\ UNCHANGED reported
    BY <1>4 DEF Wake
  <2>2. /\ task'[s].phase = "spawning" /\ task'[s].fallback = task[s].fallback
        /\ \A t \in Steps : t # s => task'[t] = task[t]
    BY <1>1, <2>1 DEF TaskType
  <2>3. InFlight(s) /\ InFlight(s)'
    BY <2>1, <2>2 DEF InFlight
  <2>4. QED
    BY <1>1, <1>2, <2>1, <2>2, <2>3, TaskStepRecords
<1>5. CASE Spawned(s)
  <2>1. task[s].phase = "spawning" /\ InFlight(s)
    BY <1>5 DEF Spawned, InFlight
  <2>2. CASE GoRound(s)
    BY <1>1, <2>1, <2>2, GoRoundRecords
  <2>3. ASSUME NEW p \in {"waiting", "finished"}, p = "finished" => task[s].fallback,
               task' = [task EXCEPT ![s].phase = p], UNCHANGED reported
        PROVE  RecordsInv'
    <3>1. /\ task'[s].phase = p /\ task'[s].fallback = task[s].fallback
          /\ \A t \in Steps : t # s => task'[t] = task[t]
      BY <1>1, <2>3 DEF TaskType
    <3>2. InFlight(s)' /\ (Succeeded(s)' => ~task[s].fallback)
      BY <3>1 DEF InFlight, Succeeded
    <3>3. QED
      BY <1>1, <1>2, <2>1, <2>3, <3>1, <3>2, TaskStepRecords
  <2>4. QED
    BY <1>5, <2>2, <2>3 DEF Spawned
<1>6. CASE Answered(s)
  <2>1. task[s].phase = "waiting" /\ InFlight(s)
    BY <1>6 DEF Answered, InFlight
  <2>2. PICK o \in Outputs \cup {Nothing} :
          /\ task' = [task EXCEPT ![s].phase = "killing", ![s].output = o]
          /\ reported' = IF o # Nothing /\ ~task[s].fallback
                         THEN [reported EXCEPT ![s] = "completed"] ELSE reported
    BY <1>6 DEF Answered
  <2>3. /\ task'[s].phase = "killing" /\ task'[s].output = o
        /\ task'[s].fallback = task[s].fallback
        /\ \A t \in Steps : t # s => task'[t] = task[t]
    BY <1>1, <2>2 DEF TaskType
  <2>4. /\ InFlight(s)' /\ (Succeeded(s)' <=> (o # Nothing /\ ~task[s].fallback))
    BY <2>3 DEF InFlight, Succeeded
  <2>5. /\ \A t \in Steps : t # s => reported'[t] = reported[t]
        /\ Succeeded(s)' => reported'[s] = "completed"
        /\ ~Succeeded(s)' => reported'[s] = reported[s]
    BY <2>2, <2>4 DEF IInv, TypeOK
  <2>6. task[s].fallback \in BOOLEAN
    BY <1>1 DEF TaskType
  <2>7. QED
    BY <1>1, <1>2, <2>1, <2>3, <2>4, <2>5, <2>6, TaskStepRecords
<1>7. CASE Killed(s)
  <2>1. task[s].phase = "killing" /\ InFlight(s)
    BY <1>7 DEF Killed, InFlight
  <2>2. CASE GoRound(s)
    BY <1>1, <2>1, <2>2, GoRoundRecords
  <2>3. CASE /\ task[s].fallback \/ task[s].output # Nothing
             /\ task' = [task EXCEPT ![s].phase = "finished"]
             /\ UNCHANGED reported
    <3>1. /\ task'[s].phase = "finished" /\ task'[s].fallback = task[s].fallback
          /\ task'[s].output = task[s].output
          /\ \A t \in Steps : t # s => task'[t] = task[t]
      BY <1>1, <2>3 DEF TaskType
    <3>2. InFlight(s)' /\ (Succeeded(s)' <=> Succeeded(s)) /\ (~Succeeded(s) => task[s].fallback)
      BY <2>3, <3>1 DEF InFlight, Succeeded
    <3>3. QED
      BY <1>1, <1>2, <2>1, <2>3, <3>1, <3>2, TaskStepRecords DEF Succeeded
  <2>4. QED
    BY <1>7, <2>2, <2>3 DEF Killed
<1>8. QED
  BY <1>3, <1>4, <1>5, <1>6, <1>7 DEF ExecuteStep

-------------------------------------------------------------------------------
(* The joins.  A step in flight has no result, and nothing that depends on *)
(* it has one.                                                             *)
LEMMA JoiningStep ==
    ASSUME IInv, RecordsInv, NEW s \in Steps, Joining(s)
    PROVE  /\ InFlight(s) /\ pc = "collect" /\ ~Saving /\ verdict.kind = "none"
           /\ s \notin def.deps[s]
           /\ s \in Own => Status(s) = Nothing /\ s \notin completed
           /\ def.deps[s] \subseteq completed
           /\ \A t \in Own : s \in def.deps[t] => task[t].phase = "idle" /\ Status(t) = Nothing
<1>1. InFlight(s) /\ pc = "collect" /\ ~Saving /\ verdict.kind = "none"
  BY DEF Joining, InFlight, Saving, IInv, VerdictIsEarned
<1>2. s \in Own => Status(s) = Nothing /\ s \notin completed
  BY <1>1 DEF RecordsInv, RecordsFollowTasks, IInv, SettledHaveResults
<1>3. s \notin def.deps[s]
  <2>1. PICK t \in {s} : def.deps[t] \cap {s} = {}
    BY <1>1 DEF IInv, ValidatedFirst, Valid, Acyclic
  <2>2. QED
    BY <2>1
<1>4. def.deps[s] \subseteq completed
  BY DEF IInv, DependenciesSettled, Joining
<1>5. \A t \in Own : s \in def.deps[t] => task[t].phase = "idle" /\ Status(t) = Nothing
  BY <1>1 DEF RecordsInv, OpenStepsBlock
<1>6. QED
  BY <1>1, <1>2, <1>3, <1>4, <1>5

(* A joined success is completed first and inserted later: it is the step  *)
(* being saved.                                                            *)
LEMMA JoinSuccessRecords ==
    ASSUME IInv, RecordsInv, NEW s \in Steps, JoinSuccess(s)
    PROVE  RecordsInv'
<1>1. /\ Joining(s) /\ Succeeded(s)
      /\ UNCHANGED <<def, verdict, runnable, outputs, reported, checkpoint, saved>>
      /\ completed' = completed \cup {s} /\ joined' = s
      /\ pc' = "saveCheckpoint" /\ Saving'
      /\ task[s].phase = "finished"
  BY DEF JoinSuccess, Joining, batchVars, storeVars, Saving
<1>2. /\ InFlight(s) /\ pc = "collect" /\ ~Saving /\ verdict.kind = "none"
      /\ s \in Own => Status(s) = Nothing /\ s \notin completed
      /\ def.deps[s] \subseteq completed
      /\ \A t \in Own : s \in def.deps[t] => task[t].phase = "idle" /\ Status(t) = Nothing
      /\ s \notin def.deps[s]
  BY <1>1, JoiningStep
<1>3. /\ task'[s].phase = "joined" /\ task'[s].fallback = task[s].fallback
      /\ task'[s].output = task[s].output
      /\ \A t \in Steps : t # s => task'[t] = task[t]
  BY DEF JoinSuccess, IInv, TypeOK, TaskType
<1>4. /\ results'[s].status = "completed"
      /\ \A t \in Steps : t # s => results'[t] = results[t]
  BY DEF JoinSuccess, IInv, TypeOK
<1>5. Own' = Own
  BY <1>1, DefinitionFixes
<1>6. \A t \in Steps : /\ InFlight(t)' => InFlight(t) /\ t # s
                       /\ t # s => /\ (InFlight(t)' <=> InFlight(t))
                                   /\ (Succeeded(t)' <=> Succeeded(t))
  BY <1>3 DEF InFlight, Succeeded
<1>7. RecordsFollowTasks'
  <2> SUFFICES ASSUME NEW t \in Own
               PROVE  /\ Status(t)' # Nothing => (t \in completed' \/ Aborted(t)')
                      /\ t \in completed' => def.deps[t] \subseteq completed'
                      /\ task'[t].phase = "idle" => task'[t] = NoTask /\ Status(t)' \in {Nothing, "skipped"}
                      /\ task'[t].phase # "idle" => Status(t)' # "skipped"
                      /\ InFlight(t)' => Status(t)' = Nothing
                      /\ task'[t].phase = "joined" => t \in completed'
    BY <1>1, <1>5 DEF RecordsFollowTasks
  <2>1. t \in Steps
    BY DEF Own
  <2>2. CASE t = s
    BY <1>1, <1>2, <1>3, <1>4, <1>6, <2>1, <2>2 DEF Status, Nothing
  <2>3. CASE t # s
    <3>1. task'[t] = task[t] /\ Status(t)' = Status(t) /\ (Aborted(t)' <=> Aborted(t)) /\ (InFlight(t)' <=> InFlight(t))
      BY <1>1, <1>3, <1>4, <1>6, <2>1, <2>3 DEF Status, Aborted
    <3>2. t \in completed' <=> t \in completed
      BY <1>1, <2>3
    <3>3. completed \subseteq completed'
      BY <1>1
    <3>4. QED
      BY <3>1, <3>2, <3>3 DEF RecordsInv, RecordsFollowTasks
  <2>4. QED
    BY <2>2, <2>3
<1>8. OpenStepsBlock'
  <2>1. ASSUME NEW t \in Steps, InFlight(t)' \/ t = s, NEW u \in Own, t \in def.deps[u]
        PROVE  task'[u].phase = "idle" /\ results'[u].status = Nothing
    <3>1. InFlight(t) /\ u \in Steps
      BY <1>2, <1>6, <2>1 DEF Own
    <3>2. task[u].phase = "idle" /\ Status(u) = Nothing
      BY <2>1, <3>1 DEF RecordsInv, OpenStepsBlock
    <3>3. u # s
      BY <1>1, <3>2
    <3>4. QED
      BY <1>3, <1>4, <3>1, <3>2, <3>3 DEF Status
  <2>2. QED
    BY <1>1, <1>5, <2>1 DEF OpenStepsBlock, Status
<1>9. SavesAreSuccesses' /\ DroppedAtTheEnd'
  BY <1>1, <1>2, <1>3, <1>4, <1>5 DEF RecordsInv, SavesAreSuccesses, DroppedAtTheEnd, Status
<1>10. ReportsFollowTasks'
  BY <1>1, <1>3, <1>4, <1>5, <1>6 DEF RecordsInv, ReportsFollowTasks, Status, Own, Succeeded
<1>11. DecisionsHold'
  <2>1. \A t \in Own : task'[t].phase # "idle" => task[t].phase # "idle"
    BY <1>1, <1>3 DEF Own
  <2>2. \A d \in Own : d \in completed => results'[d] = results[d]
    BY <1>2, <1>4 DEF Own
  <2>3. \A t \in Own : results'[t].status = "skipped" => Status(t) = "skipped"
    BY <1>4 DEF Own, Status
  <2>4. QED
    BY <1>1, <2>1, <2>2, <2>3, DecisionsStep
<1>12. AbortIsFinal' /\ OwnInputsRender'
  BY <1>1, <1>2 DEF AbortIsFinal, OwnInputsRender
<1>13. PersistedIsTrue' /\ CheckpointClosed'
  BY <1>1, <1>2, <1>4, <1>5 DEF RecordsInv, PersistedIsTrue, CheckpointClosed, Status, Own, Saving,
     Nothing
<1>14. QED
  BY <1>7, <1>8, <1>9, <1>10, <1>11, <1>12, <1>13 DEF RecordsInv

(* A failure changes the result of its step and, if a fallback succeeded   *)
(* in its place, the result and the output of a step that is not its own.  *)
LEMMA FailureResults ==
    ASSUME IInv, RecordsInv, NEW s \in Steps, JoinFailure(s)
    PROVE  /\ s \in Own => results'[s].status = "failed"
           /\ def.onFailure[s] = "abort" => results'[s].status = "failed"
           /\ \A t \in Own : /\ t # s => results'[t] = results[t]
                             /\ outputs'[t] = outputs[t]
           /\ SettledBy(s) \cap Own \subseteq {s}
<1>1. results \in [Steps -> ResultType] /\ outputs \in [Steps -> Outputs \cup {Nothing}]
  BY DEF IInv, TypeOK
<1>2. CASE FallbackSucceeded(s)
  <2>1. /\ def.fallback[s] \in Steps /\ def.fallback[s] \notin Own /\ def.onFailure[s] # "abort"
    BY <1>2, StandInsAreNotOwn DEF FallbackSucceeded, IInv, StandInsDeclared, HasFallback
  <2>2. /\ results' = [[results EXCEPT ![s] = [status |-> "failed", attempt |-> def.maxAttempts[s]]]
                         EXCEPT ![def.fallback[s]] = [status |-> "completed", attempt |-> 1]]
        /\ outputs' = [outputs EXCEPT ![def.fallback[s]] = task[s].output]
    BY <1>2 DEF JoinFailure, ResultsAfterFailure
  <2>3. QED
    BY <1>1, <1>2, <2>1, <2>2 DEF Own, SettledBy
<1>3. CASE ~FallbackSucceeded(s)
  <2>1. /\ results' = [results EXCEPT ![s] = [status |-> "failed", attempt |-> def.maxAttempts[s]]]
        /\ outputs' = outputs
    BY <1>3 DEF JoinFailure, ResultsAfterFailure
  <2>2. QED
    BY <1>1, <1>3, <2>1 DEF Own, SettledBy
<1>4. QED
  BY <1>2, <1>3

(* A joined failure aborts the execution, skips the step or completes it in *)
(* the name of its fallback.                                               *)
LEMMA JoinFailureRecords ==
    ASSUME IInv, RecordsInv, NEW s \in Steps, JoinFailure(s)
    PROVE  RecordsInv'
<1>1. /\ Joining(s) /\ ~Succeeded(s)
      /\ UNCHANGED <<def, runnable, joined, reported, checkpoint, saved>>
      /\ task[s].phase = "finished"
      /\ task \in [Steps -> TaskType] /\ completed \subseteq Steps
  BY DEF JoinFailure, Joining, batchVars, storeVars, IInv, TypeOK
<1>2. /\ InFlight(s) /\ pc = "collect" /\ ~Saving /\ verdict.kind = "none"
      /\ s \in Own => Status(s) = Nothing /\ s \notin completed
      /\ def.deps[s] \subseteq completed
      /\ \A t \in Own : s \in def.deps[t] => task[t].phase = "idle" /\ Status(t) = Nothing
      /\ s \notin def.deps[s]
  BY <1>1, JoiningStep
<1>3. /\ s \in Own => results'[s].status = "failed"
      /\ def.onFailure[s] = "abort" => results'[s].status = "failed"
      /\ \A t \in Own : /\ t # s => results'[t] = results[t]
                        /\ outputs'[t] = outputs[t]
      /\ SettledBy(s) \cap Own \subseteq {s} /\ s \in SettledBy(s)
  BY FailureResults DEF SettledBy
<1>4. Own' = Own
  BY <1>1, DefinitionFixes
<1>5. CheckpointClosed'
  BY <1>1, <1>4 DEF RecordsInv, CheckpointClosed, Own
<1>6. ASSUME ~Saving', \A t \in Own : task'[t].phase # "idle" => task[t].phase # "idle"
      PROVE  PersistedIsTrue' /\ SavesAreSuccesses' /\ (pc' # "plan" => DecisionsHold')
  <2>1. PersistedIsTrue'
    BY <1>1, <1>2, <1>3, <1>4 DEF RecordsInv, PersistedIsTrue, Status, Own, Saving, Nothing
  <2>2. SavesAreSuccesses'
    BY <1>6 DEF SavesAreSuccesses
  <2>3. \A d \in Own : d \in completed => results'[d] = results[d]
    BY <1>2, <1>3
  <2>4. \A t \in Own : results'[t].status = "skipped" => Status(t) = "skipped"
    BY <1>3 DEF Status
  <2>5. pc' # "plan" => DecisionsHold'
    BY <1>1, <1>3, <1>6, <2>3, <2>4, DecisionsStep
  <2>6. QED
    BY <2>1, <2>2, <2>5
<1>7. CASE /\ def.onFailure[s] = "abort" /\ Return("failed", s)
           /\ UNCHANGED <<completed, pushes>>
  <2>1. pc' = "done" /\ verdict' = [kind |-> "failed", step |-> s] /\ ~Saving'
    BY <1>7 DEF Return, Saving
  <2>2. /\ \A t \in Steps : /\ ~InFlight(t)'
                            /\ InFlight(t) => task'[t] = [task[t] EXCEPT !.phase = "dropped"]
                            /\ ~InFlight(t) => task'[t] = task[t]
    BY <1>1, <1>2, <1>7, ReturnDrops DEF Return, IInv, Ids
  <2>3. \A t \in Steps : /\ task[t] \in TaskType
                         /\ InFlight(t) => /\ task[t].phase \notin {"idle", "joined"}
                                           /\ task'[t].phase = "dropped"
                                           /\ task'[t].fallback = task[t].fallback
                         /\ ~InFlight(t) => (Succeeded(t)' <=> Succeeded(t))
    <3> TAKE t \in Steps
    <3>1. task[t] \in TaskType
      BY <1>1
    <3>2. CASE InFlight(t)
      BY <2>2, <3>1, <3>2 DEF InFlight, TaskType
    <3>3. CASE ~InFlight(t)
      BY <2>2, <3>1, <3>3 DEF Succeeded
    <3>4. QED
      BY <3>1, <3>2, <3>3
  <2>4. RecordsFollowTasks'
    <3>1. /\ results'[s].status = "failed" /\ InFlight(s) /\ s \in Steps
          /\ completed' = completed /\ def' = def
      BY <1>1, <1>2, <1>3, <1>7
    <3>2. ASSUME NEW t \in Own, t # s
          PROVE  /\ Status(t)' = Status(t) /\ ~Aborted(t)
                 /\ task[t].phase = "idle" => ~InFlight(t)
                 /\ task'[t].phase = "joined" => task[t].phase = "joined"
      BY <1>2, <1>3, <2>2, <2>3, <3>2 DEF Own, Status, Aborted, InFlight
    <3>3. ASSUME NEW t \in Own, t # s
          PROVE  /\ Status(t)' # Nothing => t \in completed
                 /\ task'[t].phase = "idle" => task'[t] = NoTask /\ Status(t)' \in {Nothing, "skipped"}
                 /\ task'[t].phase # "idle" => Status(t)' # "skipped"
      <4>1. CASE InFlight(t)
        BY <2>3, <3>2, <3>3, <4>1 DEF RecordsInv, RecordsFollowTasks, Own, Nothing
      <4>2. CASE ~InFlight(t)
        BY <2>2, <3>2, <3>3, <4>2 DEF RecordsInv, RecordsFollowTasks, Own
      <4>3. QED
        BY <4>1, <4>2
    <3>4. \A t \in Own : /\ t \in completed => def.deps[t] \subseteq completed
                         /\ task'[t].phase = "joined" => t \in completed
      BY <2>3, <3>1, <3>2 DEF RecordsInv, RecordsFollowTasks
    <3>5. Aborted(s)' /\ ~InFlight(s)' /\ task'[s].phase = "dropped"
      BY <2>1, <2>2, <2>3, <3>1 DEF Aborted
    <3>6. ASSUME NEW t \in Own
          PROVE  /\ Status(t)' # Nothing => (t \in completed \/ Aborted(t)')
                 /\ task'[t].phase = "idle" => task'[t] = NoTask /\ Status(t)' \in {Nothing, "skipped"}
                 /\ task'[t].phase # "idle" => Status(t)' # "skipped"
                 /\ ~InFlight(t)'
      <4>1. CASE t = s
        BY <3>1, <3>5, <4>1 DEF Status
      <4>2. CASE t # s
        BY <2>2, <3>3, <4>2 DEF Own
      <4>3. QED
        BY <4>1, <4>2
    <3>7. QED
      BY <1>4, <3>1, <3>4, <3>6 DEF RecordsFollowTasks
  <2>5. OpenStepsBlock' /\ DroppedAtTheEnd'
    BY <2>1, <2>2 DEF OpenStepsBlock, DroppedAtTheEnd
  <2>6. ReportsFollowTasks'
    <3>1. ASSUME NEW t \in Own, InFlight(t)
          PROVE  /\ task'[t].phase = "dropped"
                 /\ task'[t].fallback => reported[t] = "failed"
      BY <2>3, <3>1 DEF RecordsInv, ReportsFollowTasks, Own
    <3>2. ASSUME NEW t \in Own, ~InFlight(t)
          PROVE  task'[t] = task[t] /\ Status(t)' = Status(t) /\ (Succeeded(t)' <=> Succeeded(t))
      BY <1>2, <1>3, <2>2, <2>3, <3>2 DEF Own, Status
    <3>3. ASSUME NEW t \in Own
          PROVE  /\ task'[t].phase \in {"idle", "joined"} => reported[t] = Status(t)'
                 /\ (task'[t].phase \in {"killing", "finished"} /\ Succeeded(t)')
                        => reported[t] = "completed"
                 /\ (task'[t].fallback \/ (task'[t].phase = "finished" /\ ~Succeeded(t)'))
                        => reported[t] = "failed"
      <4>1. CASE InFlight(t)
        BY <3>1, <4>1
      <4>2. CASE ~InFlight(t)
        BY <3>2, <4>2 DEF RecordsInv, ReportsFollowTasks
      <4>3. QED
        BY <4>1, <4>2
    <3>4. QED
      BY <1>1, <1>4, <3>3 DEF ReportsFollowTasks
  <2>7. AbortIsFinal'
    <3>1. \A t \in Own : s \in def.deps[t] => task'[t] = NoTask /\ results'[t].status = Nothing
      <4>1. SUFFICES ASSUME NEW t \in Own, s \in def.deps[t]
                     PROVE  task'[t] = NoTask /\ results'[t].status = Nothing
        OBVIOUS
      <4>2. t # s /\ task[t] = NoTask /\ Status(t) = Nothing /\ t \in Steps
        BY <1>2, <4>1 DEF RecordsInv, RecordsFollowTasks, Own
      <4>3. ~InFlight(t)
        BY <4>2 DEF InFlight, NoTask, Task
      <4>4. QED
        BY <1>3, <2>2, <4>2, <4>3 DEF Status
    <3>2. QED
      BY <1>1, <1>3, <1>4, <1>7, <2>1, <2>2, <3>1 DEF AbortIsFinal, Own, Status
  <2>8. OwnInputsRender'
    BY <2>1 DEF OwnInputsRender
  <2>9. \A t \in Own : task'[t].phase # "idle" => task[t].phase # "idle"
    BY <2>2, <2>3 DEF Own
  <2>10. QED
    BY <1>5, <1>6, <2>1, <2>4, <2>5, <2>6, <2>7, <2>8, <2>9 DEF RecordsInv
<1>8. CASE /\ task' = [task EXCEPT ![s].phase = "joined"]
           /\ completed' = completed \cup SettledBy(s)
           /\ UNCHANGED <<pc, verdict>>
  <2>1. /\ task'[s].phase = "joined" /\ task'[s].fallback = task[s].fallback
        /\ \A t \in Steps : t # s => task'[t] = task[t]
    BY <1>1, <1>8 DEF TaskType
  <2>2. \A t \in Steps : /\ InFlight(t)' => InFlight(t) /\ t # s
                         /\ t # s => /\ (InFlight(t)' <=> InFlight(t))
                                     /\ (Succeeded(t)' <=> Succeeded(t))
    BY <2>1 DEF InFlight, Succeeded
  <2>3. ~Saving' /\ completed \subseteq completed' /\ s \in completed'
        /\ \A t \in Own : t \in completed' => t \in completed \/ t = s
    BY <1>2, <1>3, <1>8 DEF Saving
  <2>4. RecordsFollowTasks'
    <3>1. ASSUME NEW t \in Own, t # s
          PROVE  /\ Status(t)' = Status(t) /\ task'[t] = task[t] /\ ~Aborted(t)
                 /\ (t \in completed' <=> t \in completed)
                 /\ (InFlight(t)' <=> InFlight(t))
      BY <1>2, <1>3, <2>1, <2>2, <2>3, <3>1 DEF Own, Status, Aborted
    <3>2. ASSUME NEW t \in Own
          PROVE  /\ Status(t)' # Nothing => t \in completed'
                 /\ t \in completed' => def.deps[t] \subseteq completed
                 /\ task'[t].phase = "idle" => task'[t] = NoTask /\ Status(t)' \in {Nothing, "skipped"}
                 /\ task'[t].phase # "idle" => Status(t)' # "skipped"
                 /\ InFlight(t)' => Status(t)' = Nothing
                 /\ task'[t].phase = "joined" => t \in completed'
      <4>1. CASE t = s
        <5>1. Status(t)' = "failed" /\ ~InFlight(t)' /\ t \in completed'
          BY <1>3, <2>2, <2>3, <3>2, <4>1 DEF Status
        <5>2. QED
          BY <1>2, <2>1, <4>1, <5>1
      <4>2. CASE t # s
        BY <3>1, <4>2 DEF RecordsInv, RecordsFollowTasks
      <4>3. QED
        BY <4>1, <4>2
    <3>3. QED
      BY <1>1, <1>4, <2>3, <3>2 DEF RecordsFollowTasks
  <2>5. OpenStepsBlock'
    <3>1. ASSUME NEW t \in Steps, InFlight(t)', NEW u \in Own, t \in def.deps[u]
          PROVE  task'[u].phase = "idle" /\ results'[u].status = Nothing
      <4>1. task[u].phase = "idle" /\ Status(u) = Nothing
        BY <2>2, <3>1 DEF RecordsInv, OpenStepsBlock
      <4>2. u # s
        BY <1>1, <4>1
      <4>3. QED
        BY <1>3, <2>1, <4>1, <4>2 DEF Own, Status
    <3>2. QED
      BY <1>1, <1>4, <2>3, <3>1 DEF OpenStepsBlock, Status
  <2>6. DroppedAtTheEnd'
    BY <1>8, <2>1 DEF RecordsInv, DroppedAtTheEnd
  <2>7. ReportsFollowTasks'
    BY <1>1, <1>3, <1>4, <2>1, <2>2 DEF RecordsInv, ReportsFollowTasks, Status, Own
  <2>8. AbortIsFinal' /\ OwnInputsRender'
    BY <1>2, <1>8 DEF AbortIsFinal, OwnInputsRender
  <2>9. \A t \in Own : task'[t].phase # "idle" => task[t].phase # "idle"
    BY <1>1, <2>1 DEF Own
  <2>10. QED
    BY <1>2, <1>5, <1>6, <1>8, <2>3, <2>4, <2>5, <2>6, <2>7, <2>8, <2>9 DEF RecordsInv
<1>9. QED
  BY <1>7, <1>8 DEF JoinFailure

(* A step that changes nothing keeps the records. *)
LEMMA StutterRecords == RecordsInv /\ UNCHANGED vars => RecordsInv'
<1> SUFFICES ASSUME RecordsInv, UNCHANGED vars PROVE RecordsInv'
  OBVIOUS
<1>1. /\ UNCHANGED <<def, pc, verdict, runnable, results, outputs, completed, joined>>
      /\ UNCHANGED <<task, reported, checkpoint, saved>>
  BY DEF vars, batchVars, stepVars, storeVars
<1>2. /\ Own' = Own /\ (Saving' <=> Saving)
      /\ \A s \in Steps : /\ Status(s)' = Status(s) /\ (InFlight(s)' <=> InFlight(s))
                          /\ (Succeeded(s)' <=> Succeeded(s))
                          /\ (AboutOwnDependencies(s)' <=> AboutOwnDependencies(s))
                          /\ (ConditionMet(s)' <=> ConditionMet(s))
  BY <1>1, DefinitionFixes DEF Saving, Status, InFlight, Succeeded, ConditionMet, Holds, Resolve
<1>3. RecordsFollowTasks' /\ OpenStepsBlock' /\ SavesAreSuccesses' /\ DroppedAtTheEnd'
  BY <1>1, <1>2 DEF RecordsInv, RecordsFollowTasks, OpenStepsBlock, SavesAreSuccesses,
     DroppedAtTheEnd, Aborted, Own
<1>4. ReportsFollowTasks' /\ DecisionsHold'
  BY <1>1, <1>2 DEF RecordsInv, ReportsFollowTasks, DecisionsHold, Own
<1>5. AbortIsFinal' /\ PersistedIsTrue' /\ CheckpointClosed' /\ OwnInputsRender'
  BY <1>1, <1>2 DEF RecordsInv, AbortIsFinal, PersistedIsTrue, CheckpointClosed, OwnInputsRender,
     Own, Status, InFlight
<1>6. QED
  BY <1>3, <1>4, <1>5 DEF RecordsInv

(* Every step of the executor keeps both invariants. *)
LEMMA RecordsNext == IInv /\ RecordsInv /\ [Next]_vars => RecordsInv'
<1> SUFFICES ASSUME IInv, RecordsInv, [Next]_vars PROVE RecordsInv'
  OBVIOUS
<1>1. CASE ExecuteInner
  BY <1>1, ValidateRecords, NextBatchRecords, LaunchRecords, BatchDoneRecords,
     SaveCheckpointRecords, SaveStepResultRecords, SkipStepRecords, PlanStepRecords,
     JoinSuccessRecords, JoinFailureRecords DEF ExecuteInner
<1>2. CASE \E s \in Steps : ExecuteStep(s)
  BY <1>2, ExecuteStepRecords
<1>3. CASE UNCHANGED vars
  BY <1>3, StutterRecords
<1>4. QED
  BY <1>1, <1>2, <1>3 DEF Next, Returned

-------------------------------------------------------------------------------
(* The invariant about the records holds in every reachable state. *)
THEOREM RecordsInvariance == Spec => [](IInv /\ RecordsInv)
<1>1. Init => IInv /\ RecordsInv
  BY InitInv, RecordsInit
<1>2. IInv /\ RecordsInv /\ [Next]_vars => (IInv /\ RecordsInv)'
  BY NextInv, RecordsNext
<1>3. QED
  BY <1>1, <1>2, PTL DEF Spec

(* A failure that aborts the workflow is one of a step with that policy;   *)
(* nothing that depends on it was touched, no sibling task survives it.    *)
THEOREM AbortEndsIt == Spec => []AbortIsFinal
<1>1. RecordsInv => AbortIsFinal
  BY DEF RecordsInv
<1>2. QED
  BY <1>1, RecordsInvariance, PTL

(* The checkpoint in the store can be resumed from: with a step it holds   *)
(* everything that step depends on, also when some of its writes failed.   *)
THEOREM CheckpointsAreClosed == Spec => []CheckpointClosed
<1>1. RecordsInv => CheckpointClosed
  BY DEF RecordsInv
<1>2. QED
  BY <1>1, RecordsInvariance, PTL

(* A row or a checkpoint never claims a success that memory does not hold. *)
THEOREM PersistenceIsTrue == Spec => []PersistedIsTrue
<1>1. RecordsInv => PersistedIsTrue
  BY DEF RecordsInv
<1>2. QED
  BY <1>1, RecordsInvariance, PTL

(* A template error is never about a dependency of the step itself. *)
THEOREM InputsRender == Spec => []OwnInputsRender
<1>1. RecordsInv => OwnInputsRender
  BY DEF RecordsInv
<1>2. QED
  BY <1>1, RecordsInvariance, PTL

(* What the condition of a step decided would be decided again at any      *)
(* later time, if it looks only at the step's own dependencies.            *)
THEOREM DecisionsAreStable == Spec => []DecisionsStand
<1>1. ASSUME IInv, RecordsInv, NEW s \in Own, Status(s) # Nothing, AboutOwnDependencies(s)
      PROVE  Status(s) = "skipped" <=> ~ConditionMet(s)
  <2>1. CASE task[s].phase = "idle"
    BY <1>1, <2>1 DEF RecordsInv, RecordsFollowTasks, DecisionsHold
  <2>2. CASE task[s].phase # "idle"
    BY <1>1, <2>2 DEF RecordsInv, RecordsFollowTasks, DecisionsHold
  <2>3. QED
    BY <2>1, <2>2
<1>2. IInv /\ RecordsInv => DecisionsStand
  BY <1>1 DEF DecisionsStand, Own
<1>3. QED
  BY <1>2, RecordsInvariance, PTL

(* When a workflow completes, the progress display shows of every step the *)
(* status in its result.                                                   *)
THEOREM ProgressIsTrue == Spec => []ReportsAgree
<1>1. ASSUME IInv, RecordsInv, verdict.kind = "completed", NEW s \in Own
      PROVE  reported[s] = Status(s)
  <2>1. task[s].phase \in Phases /\ s \in Steps /\ pc = "done"
    BY <1>1 DEF IInv, TypeOK, TaskType, VerdictIsEarned, Own
  <2>2. ~InFlight(s) /\ task[s].phase # "dropped"
    BY <1>1, <2>1 DEF IInv, QuietBetweenBatches, RecordsInv, DroppedAtTheEnd
  <2>3. task[s].phase \in {"idle", "joined"}
    BY <2>1, <2>2 DEF InFlight, Phases
  <2>4. QED
    BY <1>1, <2>3 DEF RecordsInv, ReportsFollowTasks
<1>2. IInv /\ RecordsInv => ReportsAgree
  BY <1>1 DEF ReportsAgree, Own
<1>3. QED
  BY <1>2, RecordsInvariance, PTL

-------------------------------------------------------------------------------
(* A settled step of its own is left alone by every step of the executor   *)
(* and of the tasks.                                                       *)
LEMMA SettledStays ==
    ASSUME IInv, RecordsInv, Next, NEW s \in completed \ StandIns
    PROVE  /\ s \in completed'
           /\ results'[s] = results[s]
           /\ task'[s].phase \in {task[s].phase, "joined"}
<1>1. /\ s \in Own /\ s \in Steps /\ s \in completed /\ ~InFlight(s)
      /\ task \in [Steps -> TaskType]
  BY SettledOwn DEF IInv, TypeOK, Own
<1>2. ASSUME NEW k, NEW t, Return(k, t) PROVE task'[s] = task[s]
  BY <1>1, <1>2 DEF Return
<1>3. CASE Validate \/ NextBatch \/ \E t \in Steps : PlanStep(t)
  BY <1>1, <1>2, <1>3 DEF Validate, NextBatch, PlanStep, stepVars
<1>4. CASE Launch
  <2>1. s \notin runnable
    BY <1>1, <1>4 DEF Launch, IInv, BatchIsReady
  <2>2. QED
    BY <1>1, <1>4, <2>1 DEF Launch, stepVars
<1>5. CASE BatchDone \/ SaveCheckpoint \/ SaveStepResult
  BY <1>5 DEF BatchDone, SaveCheckpoint, SaveStepResult, stepVars
<1>6. ASSUME NEW t \in Steps, SkipStep(t)
      PROVE  s \in completed' /\ results'[s] = results[s] /\ UNCHANGED task
  <2>1. t # s
    BY <1>1, <1>6 DEF SkipStep, Looking, IInv, BatchIsReady
  <2>2. QED
    BY <1>1, <1>6, <2>1 DEF SkipStep, IInv, TypeOK
<1>7. ASSUME NEW t \in Steps, JoinSuccess(t)
      PROVE  s \in completed' /\ results'[s] = results[s] /\ task'[s] = task[s]
  <2>1. t # s
    BY <1>1, <1>7 DEF JoinSuccess, Joining, InFlight
  <2>2. QED
    BY <1>1, <1>7, <2>1 DEF JoinSuccess, IInv, TypeOK
<1>8. ASSUME NEW t \in Steps, JoinFailure(t)
      PROVE  s \in completed' /\ results'[s] = results[s] /\ task'[s] = task[s]
  <2>1. t # s
    BY <1>1, <1>8 DEF JoinFailure, Joining, InFlight
  <2>2. results'[s] = results[s]
    BY <1>1, <1>8, <2>1, FailureResults
  <2>3. QED
    BY <1>1, <1>2, <1>8, <2>1, <2>2 DEF JoinFailure
<1>9. ASSUME NEW t \in Steps, ExecuteStep(t)
      PROVE  s \in completed' /\ results'[s] = results[s] /\ task'[s] = task[s]
  <2>1. InFlight(t) /\ UNCHANGED executeInnerVars
    BY <1>9 DEF ExecuteStep, Begin, Wake, Spawned, Answered, Killed, InFlight, executeInnerVars
  <2>2. t # s
    BY <1>1, <2>1
  <2>3. task'[s] = task[s]
    BY <1>1, <1>9, <2>2 DEF ExecuteStep, Begin, Wake, Spawned, Answered, Killed, GoRound
  <2>4. QED
    BY <1>1, <2>1, <2>3 DEF executeInnerVars, stepVars
<1>10. CASE UNCHANGED vars
  BY <1>10 DEF vars, stepVars
<1>11. QED
  BY <1>3, <1>4, <1>5, <1>6, <1>7, <1>8, <1>9, <1>10 DEF Next, ExecuteInner, Returned

(* Once settled, a step is neither run again nor given another result.     *)
THEOREM SettledForGood == Spec => SettledOnce
<1>1. IInv /\ RecordsInv /\ [Next]_vars =>
          [\A s \in completed \ StandIns :
              /\ s \in completed'
              /\ results'[s] = results[s]
              /\ task'[s].phase \in {task[s].phase, "joined"}]_vars
  BY SettledStays
<1>2. QED
  BY <1>1, RecordsInvariance, PTL DEF Spec, SettledOnce
===============================================================================
