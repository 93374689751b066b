------------------------------ MODULE AgentWorkflow -----------------------------
(***************************************************************************)
(* The OpenSpec workflow (engine/core/openspec/), its generator            *)
(* run_full_workflow, and what its last stage starts: the supervisor       *)
(* (engine/core/orchestrator/supervisor.py), which asks the planner for a  *)
(* plan and hands one task after another to remote agents.                 *)
(*                                                                         *)
(* What the model writes is its version: a stage that is run again writes  *)
(* another one.  A plan is any plan the language model may return.         *)
(***************************************************************************)
EXTENDS Naturals, Sequences, FiniteSets

CONSTANTS
    MaxTask,        \* bound: tasks of a plan; they are numbered in plan order
    MaxModify       \* bound: times the user asks for another version

ASSUME WorkflowBounds == MaxTask \in Nat /\ MaxModify \in Nat

\* proposal, design, tasks, apply and completed are 1 to 5; the first three have a
\* breakpoint.
Written == 1..3
Completed == 5
Version == Nat

VARIABLES
    stage,          \* current_stage, by number
    paused,         \* the generator has yielded a breakpoint
    output,         \* version of each stage's output, 0 when there is none
    basis,          \* the version of the stage before that it was made from
    rejected,       \* history: the user has said no
    declined,       \* history: <<stage, version>> the user wanted changed
    planned,        \* write_todos has returned
    plan,           \* what each task of the plan depends on
    results         \* coordinate: how the tasks ended, in the plan's order

workflowVars == <<stage, paused, output, basis, rejected, declined, planned, plan, results>>

\* Ids the plan does not have are looked up in vain, and are left out here.
Plan == UNION {[1..n -> SUBSET (1..n)] : n \in 0..MaxTask}

WorkflowTypeOK ==
    /\ stage \in 1..Completed
    /\ paused \in BOOLEAN /\ rejected \in BOOLEAN
    /\ output \in [Written -> Version] /\ basis \in [Written -> Version]
    /\ declined \subseteq Written \X Version /\ Cardinality(declined) <= MaxModify
    /\ planned \in BOOLEAN /\ plan \in Plan
    /\ results \in Seq({"completed", "failed"}) /\ Len(results) <= Len(plan)

WorkflowInit ==
    /\ stage = 1 /\ paused = FALSE
    /\ output = [s \in Written |-> 0] /\ basis = [s \in Written |-> 0]
    /\ rejected = FALSE /\ declined = {}
    /\ planned = FALSE /\ plan = <<>> /\ results = <<>>

------------------------------------------------------------------------------
\* run_stage and the generator around it, for a stage with a breakpoint.
RunStage ==
    /\ stage \in Written /\ ~paused
    /\ output' = [output EXCEPT ![stage] = @ + 1]
    /\ basis' = [basis EXCEPT ![stage] = IF stage = 1 THEN 0 ELSE output[stage - 1]]
    /\ paused' = TRUE
    /\ UNCHANGED <<stage, rejected, declined, planned, plan, results>>

\* A language model that raises ends the generator.
StageFails ==
    /\ stage \in Written /\ ~paused
    /\ stage' = Completed
    /\ UNCHANGED <<paused, output, basis, rejected, declined, planned, plan, results>>

\* Mistaken: the feedback is kept for the next stage.
MovesOn(decision) == IF decision = "reject" THEN Completed ELSE stage + 1

\* advance: whatever is neither a rejection nor a modification moves on.
Advance(decision) ==
    CASE decision = "reject" -> Completed
      [] decision = "modify" -> stage
      [] OTHER -> stage + 1

\* The caller sends an answer, or iterates without one ("none").
Answer(decision) ==
    /\ paused
    /\ decision = "modify" => Cardinality(declined) < MaxModify
    /\ stage' = Advance(decision)
    /\ paused' = FALSE
    /\ declined' = IF decision = "modify" THEN declined \union {<<stage, output[stage]>>}
                                          ELSE declined
    /\ rejected' = (rejected \/ decision = "reject")
    /\ UNCHANGED <<output, basis, planned, plan, results>>

------------------------------------------------------------------------------
\* coordinate: write_todos returns a plan, or the whole task as its only one.
WriteTodos ==
    /\ stage = 4 /\ ~planned
    /\ planned' = TRUE /\ plan' \in Plan
    /\ UNCHANGED <<stage, paused, output, basis, rejected, declined, results>>

\* _execute_subtask: what an agent does not answer in time, or answers with an
\* error, is a failed result, and the next task is executed all the same.
ExecuteSubtask(status) ==
    /\ stage = 4 /\ Len(results) < Len(plan)
    /\ results' = Append(results, status)
    /\ UNCHANGED <<stage, paused, output, basis, rejected, declined, planned, plan>>

\* _synthesize_results ends the stage, also when it raises (run_apply_stage).
Synthesize ==
    /\ stage = 4 /\ planned /\ Len(results) = Len(plan)
    /\ stage' = Completed
    /\ UNCHANGED <<paused, output, basis, rejected, declined, planned, plan, results>>

WorkflowNext ==
    \/ RunStage \/ StageFails
    \/ \E decision \in {"approve", "modify", "reject", "none"} : Answer(decision)
    \/ WriteTodos \/ Synthesize
    \/ \E status \in {"completed", "failed"} : ExecuteSubtask(status)

WorkflowSpec == WorkflowInit /\ [][WorkflowNext]_workflowVars

------------------------------------------------------------------------------
\* Tasks are planned for a workflow nobody rejected, from the versions that were
\* shown last and that nobody wanted changed, each made from the one of the stage
\* before (run_stage, advance).
ApplyFollowsDecisions ==
    planned => /\ ~rejected
               /\ \A s \in Written : output[s] > 0 /\ <<s, output[s]>> \notin declined
               /\ \A s \in {2, 3} : basis[s] = output[s - 1]
==============================================================================
