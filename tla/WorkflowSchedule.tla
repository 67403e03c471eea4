--------------------------- MODULE WorkflowSchedule ---------------------------
(***************************************************************************)
(* What the workflow engine promises about scheduling, with no retries,    *)
(* tasks, panes or persistence: a step is started or skipped only when     *)
(* everything it depends on has settled, the steps running when the        *)
(* workflow concludes are dropped, and "completed" is concluded only when  *)
(* every step has settled.  WorkflowExecutor implements this               *)
(* specification.                                                          *)
(***************************************************************************)
CONSTANT Steps

VARIABLES deps,      \* the steps each step depends on
          settled,   \* steps that count as done for their dependents
          running,   \* steps being executed
          verdict    \* "none" until the workflow concludes

vars == <<deps, settled, running, verdict>>

Ready(s) == s \notin settled /\ deps[s] \subseteq settled

Init == /\ settled = {}
        /\ running = {}
        /\ verdict = "none"

(* A batch of ready steps starts at once. *)
Start == /\ verdict = "none"
         /\ \E S \in SUBSET Steps :
              /\ \A s \in S : Ready(s) /\ s \notin running
              /\ running' = running \cup S
         /\ UNCHANGED <<deps, settled, verdict>>

(* A ready step whose condition is false settles without running. *)
Skip(s) == /\ verdict = "none"
           /\ Ready(s)
           /\ settled' = settled \cup {s}
           /\ UNCHANGED <<deps, running, verdict>>

(* A running step finishes and settles, and may settle one stand-in step.  *)
Finish(s) == /\ verdict = "none"
             /\ s \in running
             /\ running' = running \ {s}
             /\ \E standIn \in Steps : settled' = settled \cup {s, standIn}
             /\ UNCHANGED <<deps, verdict>>

(* The workflow concludes; what still runs is dropped. *)
Conclude(v) == /\ verdict = "none"
               /\ v = "completed" => settled = Steps /\ running = {}
               /\ verdict' = v
               /\ running' = {}
               /\ UNCHANGED <<deps, settled>>

Next == \/ Start
        \/ \E s \in Steps : Skip(s) \/ Finish(s)
        \/ \E v \in {"completed", "stopped"} : Conclude(v)

Spec == Init /\ [][Next]_vars
===============================================================================
