-------------------------- MODULE MCWorkflowExecutor --------------------------
(***************************************************************************)
(* Families of small workflow definitions for TLC.  Each cfg takes one as  *)
(* Definitions; the definition a behaviour executes is chosen by Init.     *)
(***************************************************************************)
EXTENDS WorkflowExecutor

Everywhere(x) == [s \in Steps |-> x]

Definition(deps, onFailure, fallback, maxAttempts) ==
    [deps |-> deps, onFailure |-> onFailure, fallback |-> fallback, maxAttempts |-> maxAttempts,
     uses |-> Everywhere({}), cond |-> Everywhere({})]

Policies == {"abort", "skip", "fallback"}

(* Shapes: all the graphs on the steps in which edges follow the           *)
(* definition order, one edge against it, a cycle, a self-loop and an      *)
(* unknown dependency; every mix of policies; one attempt each.            *)
OrderedGraphs == {g \in [Steps -> SUBSET Steps] : \A s \in Steps : \A d \in g[s] : d < s}
OtherGraphs == {[Everywhere({}) EXCEPT ![1] = {3}], [Everywhere({}) EXCEPT ![1] = {2}, ![2] = {1}],
                [Everywhere({}) EXCEPT ![2] = {2}], [Everywhere({}) EXCEPT ![3] = {Unknown, 1}]}

ShapeDefinitions ==
    {Definition(g, p, Everywhere(f), Everywhere(1)) :
        g \in OrderedGraphs \cup OtherGraphs, p \in [Steps -> Policies], f \in {1, 3}}

(* Retries: two steps, independent or chained, with every policy, every    *)
(* fallback target (itself, the other, none) and 0 to 2 attempts.          *)
RetryDefinitions ==
    {Definition(g, p, f, m) :
        g \in {Everywhere({}), [Everywhere({}) EXCEPT ![2] = {1}]},
        p \in [Steps -> Policies], f \in [Steps -> Ids], m \in [Steps -> 0 .. 2]}

(* Conditions: conditions on the status or the output of the first two     *)
(* steps, conjunctions and disjunctions of them, and a malformed one, with *)
(* prompts that use the output of a dependency, of a sibling or of no step.*)
Completed(s) == [step |-> s, field |-> "status", op |-> "==", value |-> "completed"]
NotFailed(s) == [step |-> s, field |-> "status", op |-> "!=", value |-> "failed"]
Passes(s) == [step |-> s, field |-> "output", op |-> "==", value |-> "pass"]

SomeConditions ==
    {{}, {{Completed(1)}}, {{NotFailed(1)}, {Passes(2)}}, {{Passes(1), Completed(2)}},
     {{Completed(2)}, {}}}

ConditionDefinitions ==
    {[Definition(g, p, Everywhere(3), Everywhere(1))
        EXCEPT !.cond = [Everywhere({}) EXCEPT ![2] = c2, ![3] = c3],
               !.uses = [Everywhere({}) EXCEPT ![2] = u2, ![3] = u3]] :
        g \in {[Everywhere({}) EXCEPT ![3] = {1, 2}],
               [Everywhere({}) EXCEPT ![2] = {1}, ![3] = {1, 2}]},
        p \in {Everywhere("skip"), [Everywhere("skip") EXCEPT ![2] = "fallback"]},
        c2 \in {{}, {{Completed(1)}}, {{NotFailed(1)}}, {{Passes(1)}}},
        c3 \in SomeConditions,
        u2 \in {{}, {1}}, u3 \in {{1, 2}, {Unknown}}}

GraphDefinitions == ShapeDefinitions \cup ConditionDefinitions
===============================================================================
