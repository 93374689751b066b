------------------------------ MODULE MCServices -------------------------------
(***************************************************************************)
(* The services beside the approval flow, for TLC.  They share no state:   *)
(* each behaviour is one of one of them, and the others are at rest, where *)
(* nothing they owe is left to be done.                                    *)
(* The sort of a plan is evaluated over every small plan.                  *)
(***************************************************************************)
EXTENDS TaskQueue, MemoryStream, ToolManager, AgentWorkflow, AtomicWrite,
        TestRunner, PlanSort

VARIABLE part

Part == {"queue", "stream", "tools", "workflow", "write", "runner"}

StreamRests ==
    /\ length = [s \in Stream |-> 0] /\ garbled = {} /\ incomplete = {} /\ spoiled = {}
    /\ sessionOf = [r \in Record |-> NoSession] /\ group = {}
    /\ delivered = [s \in Stream |-> 0] /\ unacked = {} /\ table = [r \in Record |-> 0]
    /\ job = [i \in Instance |-> Idle] /\ streamFaults = 0 /\ lostCommits = 0

ToolsRest ==
    /\ offers = [s \in Server |-> Tool] /\ health = [s \in Server |-> "full"]
    /\ provider = [t \in Tool |-> NoServer] /\ failed = {} /\ emptyJoin = {}
    /\ manager = [pc |-> "closed", todo |-> {}, done |-> {}]
    /\ call = [c \in Call |-> NoCall]
    /\ turns = 0

WriteRests ==
    /\ path = [dir |-> CHOOSE d \in Dir : TRUE, link |-> FALSE]
    /\ files = [d \in Dir |-> Absent] /\ temp = NoDir
    /\ proposal = [before |-> Absent, after |-> Absent]
    /\ issued = FALSE /\ consumed = FALSE /\ applying = NoApply
    /\ overtaken = FALSE /\ moved = FALSE /\ report = "none" /\ applies = 0 /\ turmoil = 0

RunnerRests ==
    /\ process = "seen" /\ helper = "none" /\ stubborn = FALSE
    /\ written = [p \in Pipe |-> 0] /\ unread = written /\ budget = MaxOutput
    /\ reader = [p \in Pipe |-> [NotSoFar EXCEPT !.pc = "done"]]
    /\ runner = [pc |-> "returned", why |-> "none", treeTerminated |-> TRUE, status |-> "passed"]
    /\ cancelled = FALSE

Init ==
    /\ part \in Part
    /\ QueueInit
    /\ IF part = "stream" THEN StreamInit ELSE StreamRests
    /\ IF part = "tools" THEN ToolInit ELSE ToolsRest
    /\ WorkflowInit
    /\ IF part = "write" THEN WriteInit ELSE WriteRests
    /\ IF part = "runner" THEN RunnerInit ELSE RunnerRests

Next ==
    /\ UNCHANGED part
    /\ \/ /\ part = "queue" /\ QueueNext
          /\ UNCHANGED <<streamVars, toolVars, workflowVars, writeVars, runnerVars>>
       \/ /\ part = "stream" /\ StreamNext
          /\ UNCHANGED <<queueVars, toolVars, workflowVars, writeVars, runnerVars>>
       \/ /\ part = "tools" /\ ToolNext
          /\ UNCHANGED <<queueVars, streamVars, workflowVars, writeVars, runnerVars>>
       \/ /\ part = "workflow" /\ WorkflowNext
          /\ UNCHANGED <<queueVars, streamVars, toolVars, writeVars, runnerVars>>
       \/ /\ part = "write" /\ WriteNext
          /\ UNCHANGED <<queueVars, streamVars, toolVars, workflowVars, runnerVars>>
       \/ /\ part = "runner" /\ RunnerNext
          /\ UNCHANGED <<queueVars, streamVars, toolVars, workflowVars, writeVars>>

Fairness == QueueFairness /\ StreamFairness /\ ToolFairness /\ RunnerFairness

vars == <<part, queueVars, streamVars, toolVars, workflowVars, writeVars, runnerVars>>

Spec == Init /\ [][Next]_vars /\ Fairness

\* Every plan of three tasks, also when they depend on each other in a circle.
ASSUME EveryPlanIsSorted == \A p \in [1..3 -> SUBSET (1..3)] : SortIsTopological(p)
==============================================================================
