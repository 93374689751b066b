------------------------------- MODULE AgentProofs -------------------------------
(***************************************************************************)
(* What an agent works with, for any constants: its tools (ToolManager),   *)
(* its workflow (AgentWorkflow) and its test runs (TestRunner).            *)
(***************************************************************************)
EXTENDS ToolManager, AgentWorkflow, TestRunner, SequenceTheorems, FiniteSetTheorems, TLAPS

------------------------------------------------------------------------------
(***************************************************************************)
(* ToolManager: an approved call stays with the provider that prepared it, *)
(* and a call that must not be repeated is done once.                      *)
(***************************************************************************)
\* What is known of one call: until it is executed it has done nothing, and what
\* was prepared still belongs to the provider that prepared it.
CallInv(k) ==
    /\ k.pc = "idle" => ~k.approved
    /\ k.pc \in {"idle", "prepared"} => k.tries = 0 /\ k.effects = 0
    /\ k.pc = "prepared" => k.approved /\ k.prepared = provider[k.tool] /\ k.prepared # NoServer
    /\ k.pc \in {"trying", "returned"} /\ k.approved => k.at = k.prepared
    /\ k.pc = "trying" => k.at \in Server /\ k.tries < Attempts
    /\ k.pc = "trying" /\ (k.approved \/ k.at \notin Retrying) => k.tries = 0
    /\ k.pc = "returned" /\ (k.approved \/ k.at \notin Retrying) => k.tries <= 1

ToolInv ==
    /\ ToolTypeOK
    /\ \A c \in Call : CallInv(call[c])

------------------------------------------------------------------------------
\* The registry never takes a tool from a provider (register).
LEMMA RegisterKeeps ==
    ASSUME ToolTypeOK, NEW s \in Server, NEW tools \in SUBSET offers[s]
    PROVE  LET next == Register(s, tools) IN
           /\ next \in [Tool -> Server \union {NoServer}]
           /\ \A t \in Tool : provider[t] # NoServer => next[t] = provider[t]
           /\ \A t \in Tool : next[t] # NoServer => t \in offers[next[t]]
  BY NoServerAssumption DEF Register, ToolTypeOK

\* The invariant of a call looks at the registry only for what was prepared.
LEMMA CallInvKept ==
    ASSUME ToolInv, ToolTypeOK', UNCHANGED call,
           \A t \in Tool : provider[t] # NoServer => provider'[t] = provider[t]
    PROVE  ToolInv'
<1>1. SUFFICES ASSUME NEW c \in Call PROVE CallInv(call[c])'
  BY DEF ToolInv
<1>2. call[c] \in CallState /\ CallInv(call[c]) /\ call'[c] = call[c]
  BY DEF ToolInv, ToolTypeOK
<1>3. call[c].tool \in Tool
  BY <1>2 DEF CallState
<1>4. QED
  BY <1>2, <1>3 DEF CallInv

\* A call that changes leaves the others as they are.
LEMMA OneCallMoves ==
    ASSUME ToolInv, NEW c \in Call, NEW k,
           call' = [call EXCEPT ![c] = k], k \in CallState, CallInv(k), k.effects <= k.tries,
           UNCHANGED <<offers, health, provider, failed, manager, emptyJoin, turns>>
    PROVE  ToolInv'
<1>1. call \in [Call -> CallState]
  BY DEF ToolInv, ToolTypeOK
<1>2. \A d \in Call : call'[d] = IF d = c THEN k ELSE call[d]
  BY <1>1
<1>3. call' \in [Call -> CallState]
  BY <1>1
<1>4. ToolTypeOK'
  BY <1>2, <1>3 DEF ToolInv, ToolTypeOK
<1>5. \A d \in Call : CallInv(call[d])'
  BY <1>2 DEF ToolInv, CallInv
<1> QED BY <1>4, <1>5 DEF ToolInv

------------------------------------------------------------------------------
LEMMA InitIsTyped == ToolInit => ToolInv
<1> SUFFICES ASSUME ToolInit PROVE ToolInv
  OBVIOUS
<1>1. NoCall \in CallState /\ CallInv(NoCall) /\ NoCall.effects <= NoCall.tries
  BY ToolAssumption DEF NoCall, CallState, CallInv, Attempts
<1>2. call \in [Call -> CallState] /\ \A c \in Call : call[c] = NoCall
  BY <1>1 DEF ToolInit
<1>3. manager \in Manager
  BY DEF ToolInit, Manager
<1>4. turns \in 0..MaxTurns
  BY MaxTurnsAssumption DEF ToolInit
<1>5. ToolTypeOK
  BY <1>1, <1>2, <1>3, <1>4 DEF ToolInit, ToolTypeOK
<1> QED BY <1>1, <1>2, <1>5 DEF ToolInv

LEMMA HealthInv == ASSUME ToolInv, NEW s \in Server, HealthTurns(s) PROVE ToolInv'
<1>1. ToolTypeOK'
  BY MaxTurnsAssumption DEF ToolInv, ToolTypeOK, HealthTurns
<1> QED BY <1>1, CallInvKept DEF HealthTurns

LEMMA ConnectInv == ASSUME ToolInv, NEW s \in Server, Connect(s) PROVE ToolInv'
<1> DEFINE listed == IF health[s] = "full" THEN offers[s] ELSE {}
<1>1. ToolTypeOK /\ listed \in SUBSET offers[s]
  BY DEF ToolInv, ToolTypeOK
<1>2. /\ provider' \in [Tool -> Server \union {NoServer}]
      /\ \A t \in Tool : provider[t] # NoServer => provider'[t] = provider[t]
      /\ \A t \in Tool : provider'[t] # NoServer => t \in offers[provider'[t]]
  <2>1. CASE health[s] = "down"
    BY <1>1, <2>1 DEF Connect, ToolTypeOK
  <2>2. CASE health[s] # "down"
    <3>1. provider' = Register(s, listed)
      BY <2>2 DEF Connect
    <3> QED BY <1>1, <3>1, RegisterKeeps
  <2> QED BY <2>1, <2>2
<1>3. manager' \in Manager
  <2>1. manager \in Manager /\ manager.todo \ {s} \in SUBSET Server
        /\ manager.done \union {s} \in SUBSET Server
    BY <1>1 DEF ToolTypeOK, Manager
  <2>2. \/ manager' = [manager EXCEPT !.todo = manager.todo \ {s}]
        \/ manager' = [manager EXCEPT !.todo = manager.todo \ {s}, !.done = manager.done \union {s}]
    BY DEF Connect
  <2> QED BY <2>1, <2>2 DEF Manager
<1>4. emptyJoin' \subseteq Server
  BY <1>1 DEF Connect, ToolTypeOK
<1>5. UNCHANGED <<offers, health, failed, call, turns>>
  BY DEF Connect
<1>6. ToolTypeOK'
  BY <1>1, <1>2, <1>3, <1>4, <1>5 DEF ToolTypeOK
<1> QED BY <1>2, <1>5, <1>6, CallInvKept

\* The steps of the manager that leave the registry alone.
LEMMA ManagerInv ==
    ASSUME ToolInv, InitEnds \/ Wake \/ RoundEnds \/ Shutdown
    PROVE  ToolInv'
<1>1. manager' \in Manager
  BY DEF InitEnds, Wake, RoundEnds, Shutdown, Manager, ToReconnect, ToolInv, ToolTypeOK
<1>2. failed' \subseteq Server /\ emptyJoin' \subseteq Server
  BY DEF InitEnds, Wake, RoundEnds, Shutdown, ToReconnect, Missing, ToolInv, ToolTypeOK
<1>3. UNCHANGED <<offers, health, provider, call, turns>>
  BY DEF InitEnds, Wake, RoundEnds, Shutdown
<1>4. ToolTypeOK'
  BY <1>1, <1>2, <1>3 DEF ToolInv, ToolTypeOK
<1> QED BY <1>3, <1>4, CallInvKept

LEMMA PrepareInv ==
    ASSUME ToolInv, NEW c \in Call, NEW t \in Tool, Prepare(c, t) PROVE ToolInv'
<1> DEFINE k == [call[c] EXCEPT !.pc = "prepared", !.tool = t, !.approved = TRUE,
                                !.prepared = provider[t]]
<1>1. /\ call[c] \in CallState /\ CallInv(call[c]) /\ call[c].pc = "idle"
      /\ provider[t] \in Server \union {NoServer} /\ provider[t] # NoServer
      /\ call[c].effects <= call[c].tries
  BY DEF ToolInv, ToolTypeOK, Prepare
<1>2. k \in CallState /\ CallInv(k) /\ k.effects <= k.tries
  BY <1>1 DEF CallState, CallInv, Attempts
<1>3. call' = [call EXCEPT ![c] = k]
  BY DEF Prepare
<1> QED BY <1>2, <1>3, OneCallMoves DEF Prepare

LEMMA CallToolInv ==
    ASSUME ToolInv, NEW c \in Call, NEW t \in Tool, CallTool(c, t) PROVE ToolInv'
<1> DEFINE k == [call[c] EXCEPT !.tool = t, !.at = provider[t],
                                !.pc = IF provider[t] = NoServer THEN "returned" ELSE "trying"]
<1>1. /\ call[c] \in CallState /\ CallInv(call[c])
      /\ call[c].pc = "idle" \/ (call[c].pc = "prepared" /\ call[c].tool = t)
      /\ provider[t] \in Server \union {NoServer}
      /\ call[c].effects <= call[c].tries
  BY DEF ToolInv, ToolTypeOK, CallTool
<1>2. k \in CallState
  BY <1>1 DEF CallState
<1>3. CallInv(k) /\ k.effects <= k.tries
  BY <1>1 DEF CallState, CallInv, Attempts
<1>4. call' = [call EXCEPT ![c] = k]
  BY DEF CallTool
<1> QED BY <1>2, <1>3, <1>4, OneCallMoves DEF CallTool

LEMMA AttemptInv == ASSUME ToolInv, NEW c \in Call, Attempt(c) PROVE ToolInv'
<1>1. /\ call[c] \in CallState /\ CallInv(call[c]) /\ call[c].pc = "trying"
      /\ call[c].effects <= call[c].tries
  BY DEF ToolInv, ToolTypeOK, Attempt
<1>2. PICK pc \in {"trying", "returned"}, done \in {0, 1} :
        /\ call' = [call EXCEPT ![c].pc = pc, ![c].tries = @ + 1, ![c].effects = @ + done]
        /\ pc = "trying" => TriesAgain(c)
  <2>1. CASE call' = [call EXCEPT ![c].pc = "returned", ![c].tries = @ + 1, ![c].effects = @ + 1]
    BY <2>1
  <2>2. CASE \E done \in {0, 1} :
             call' = [call EXCEPT ![c].pc = IF TriesAgain(c) THEN "trying" ELSE "returned",
                                  ![c].tries = @ + 1, ![c].effects = @ + done]
    BY <2>2
  <2> QED BY <2>1, <2>2 DEF Attempt
<1> DEFINE k == [call[c] EXCEPT !.pc = pc, !.tries = @ + 1, !.effects = @ + done]
<1>3. k \in CallState /\ k.effects <= k.tries
  <2>1. call[c].tries \in 0..2 /\ call[c].effects \in 0..2 /\ call[c].effects <= call[c].tries
    BY <1>1 DEF CallState, CallInv, Attempts
  <2>2. /\ call[c].tries + 1 \in 0..Attempts /\ call[c].effects + done \in 0..Attempts
        /\ call[c].effects + done <= call[c].tries + 1
    BY <2>1 DEF Attempts
  <2>3. pc \in {"idle", "prepared", "trying", "returned"}
    OBVIOUS
  <2>4. /\ k.tries = call[c].tries + 1 /\ k.effects = call[c].effects + done
        /\ k \in CallState
    BY <1>1, <2>2, <2>3 DEF CallState
  <2> QED BY <2>2, <2>4
<1>4. CallInv(k)
  BY <1>1, <1>2 DEF CallState, CallInv, TriesAgain, Attempts
<1>5. call' = [call EXCEPT ![c] = k]
  BY <1>2
<1> QED BY <1>3, <1>4, <1>5, OneCallMoves DEF Attempt

\* Every step of the manager, a server or a call keeps the invariant.
LEMMA StepInv == ASSUME ToolInv, [ToolNext]_toolVars PROVE ToolInv'
<1>1. CASE UNCHANGED toolVars
  <2>1. ToolTypeOK' BY <1>1 DEF toolVars, ToolInv, ToolTypeOK
  <2> QED BY <1>1, <2>1, CallInvKept DEF toolVars
<1>2. CASE ToolNext
  BY <1>2, HealthInv, ConnectInv, ManagerInv, PrepareInv, CallToolInv, AttemptInv DEF ToolNext
<1> QED BY <1>1, <1>2

------------------------------------------------------------------------------
\* The invariant of the manager, its registry and the calls of tools.
THEOREM ToolInvariance == ToolSpec => []ToolInv
  BY InitIsTyped, StepInv, PTL DEF ToolSpec

\* The manager, the registry and the calls keep to their types (MCPManager).
THEOREM ToolsTyped == ToolSpec => []ToolTypeOK
<1>1. ToolInv => ToolTypeOK
  BY DEF ToolInv
<1> QED BY <1>1, ToolInvariance, PTL

\* An approved call is executed by the provider that prepared its approval
\* (prepare_approval, call_tool, register).
THEOREM PreparedMeansExecuting == ToolSpec => []ApprovalStaysWithProvider
<1>1. ToolInv => ApprovalStaysWithProvider
  BY DEF ToolInv, CallInv, ApprovalStaysWithProvider
<1> QED BY <1>1, ToolInvariance, PTL

\* A call that is approved, or whose provider does not repeat calls, is done at
\* most once (call_tool).
THEOREM DoneOnce == ToolSpec => []DoneAtMostOnce
<1>1. ASSUME ToolInv PROVE DoneAtMostOnce
  <2> SUFFICES ASSUME NEW c \in Call, call[c].approved \/ call[c].at \notin Retrying
               PROVE  call[c].effects <= 1
    BY DEF DoneAtMostOnce
  <2>1. call[c] \in CallState /\ CallInv(call[c]) /\ call[c].effects <= call[c].tries
    BY <1>1 DEF ToolInv, ToolTypeOK
  <2> QED BY <2>1 DEF CallInv, CallState, Attempts
<1> QED BY <1>1, ToolInvariance, PTL

------------------------------------------------------------------------------
(***************************************************************************)
(* AgentWorkflow: by stage.  What lies before the current stage is settled *)
(* - written, not declined, made from the stage before - and while the     *)
(* user is asked, so is the current one.  A plan exists only once all      *)
(* three are settled and the workflow has come to its fourth stage.        *)
(***************************************************************************)
Settled(s) ==
    /\ output[s] > 0 /\ <<s, output[s]>> \notin declined
    /\ s \in {2, 3} => basis[s] = output[s - 1]

WorkflowInv ==
    /\ WorkflowTypeOK
    /\ IsFiniteSet(declined)
    /\ \A s \in Written, v \in Version : <<s, v>> \in declined => v =< output[s]
    /\ stage < Completed => ~rejected /\ \A s \in Written : s < stage => Settled(s)
    /\ paused => stage \in Written /\ Settled(stage)
    /\ planned => stage > 3 /\ ~rejected /\ \A s \in Written : Settled(s)
    /\ ~planned => Len(plan) = 0 /\ results = <<>>

LEMMA PlansAreSequences ==
    /\ <<>> \in Plan
    /\ \A p \in Plan : Len(p) \in Nat
<1>1. <<>> \in [1..0 -> SUBSET (1..0)]
  OBVIOUS
<1>2. 0 \in 0..MaxTask
  BY WorkflowBounds
<1>3. ASSUME NEW n \in 0..MaxTask, NEW p \in [1..n -> SUBSET (1..n)] PROVE Len(p) \in Nat
  <2>1. n \in Nat
    BY WorkflowBounds
  <2>2. p \in Seq(SUBSET (1..n))
    BY <2>1, SeqDef
  <2> QED BY <2>2, LenProperties
<1> QED BY <1>1, <1>2, <1>3 DEF Plan

LEMMA WorkflowStarts == WorkflowInit => WorkflowInv
<1> SUFFICES ASSUME WorkflowInit PROVE WorkflowInv
  OBVIOUS
<1>1. declined = {} /\ Cardinality({}) = 0 /\ IsFiniteSet({})
  BY FS_EmptySet DEF WorkflowInit
<1>2. <<>> \in Plan /\ <<>> \in Seq({"completed", "failed"}) /\ Len(<<>>) = 0
  BY PlansAreSequences
<1>3. WorkflowTypeOK
  <2>1. /\ output = [s \in Written |-> 0] /\ basis = [s \in Written |-> 0]
        /\ stage = 1 /\ paused = FALSE /\ rejected = FALSE /\ planned = FALSE
        /\ plan = <<>> /\ results = <<>>
    BY DEF WorkflowInit
  <2>2. output \in [Written -> Version] /\ basis \in [Written -> Version]
    BY <2>1 DEF Version
  <2>3. Cardinality(declined) =< MaxModify /\ declined \subseteq Written \X Version
    BY <1>1, WorkflowBounds
  <2>4. stage \in 1..Completed /\ paused \in BOOLEAN /\ rejected \in BOOLEAN /\ planned \in BOOLEAN
    <3>1. 1 \in 1..Completed
      BY DEF Completed
    <3> QED BY <2>1, <3>1, Zenon
  <2>5. plan \in Plan /\ results \in Seq({"completed", "failed"})
    BY <1>2, <2>1, Zenon
  <2>6. Len(plan) = 0 /\ Len(results) = 0
    BY <2>1
  <2>7. Len(results) =< Len(plan)
    BY <2>6
  <2> QED BY <2>2, <2>3, <2>4, <2>5, <2>7, Zenon DEF WorkflowTypeOK
<1>4. WorkflowInit => stage = 1 /\ ~paused /\ ~rejected /\ ~planned /\ plan = <<>> /\ results = <<>>
  BY DEF WorkflowInit
<1> QED BY <1>1, <1>2, <1>3, <1>4 DEF WorkflowInv, Written

\* A stage writes a version nobody has seen, from the one of the stage before.
LEMMA RunStageKeeps == ASSUME WorkflowInv, RunStage PROVE WorkflowInv'
<1>1. /\ stage \in Written /\ ~paused /\ paused' = TRUE /\ stage < Completed /\ ~planned
      /\ output \in [Written -> Nat] /\ basis \in [Written -> Nat]
      /\ UNCHANGED <<stage, rejected, declined, planned, plan, results>>
  BY DEF RunStage, WorkflowInv, WorkflowTypeOK, Written, Completed, Version
<1>2. /\ output' \in [Written -> Nat] /\ output'[stage] = output[stage] + 1
      /\ \A s \in Written : s # stage => output'[s] = output[s]
  BY <1>1 DEF RunStage
<1>3. /\ basis' \in [Written -> Nat]
      /\ stage \in {2, 3} => basis'[stage] = output[stage - 1]
      /\ \A s \in Written : s # stage => basis'[s] = basis[s]
  <2>1. stage = 1 \/ output[stage - 1] \in Nat
    BY <1>1 DEF Written
  <2>2. basis' = [basis EXCEPT ![stage] = IF stage = 1 THEN 0 ELSE output[stage - 1]]
    BY DEF RunStage
  <2> QED BY <1>1, <2>1, <2>2
<1>4. WorkflowTypeOK'
  BY <1>1, <1>2, <1>3 DEF WorkflowInv, WorkflowTypeOK, Version
<1>5. \A s \in Written, v \in Version : <<s, v>> \in declined => v =< output'[s]
  BY <1>1, <1>2, SMTT(30) DEF WorkflowInv, Version
<1>6. <<stage, output'[stage]>> \notin declined /\ output'[stage] > 0
  BY <1>1, <1>2 DEF WorkflowInv, Version
<1>7. Settled(stage)'
  BY <1>1, <1>2, <1>3, <1>6 DEF Settled, Written
<1>8. ASSUME NEW s \in Written, s < stage PROVE Settled(s)'
  <2>1. Settled(s) /\ s # stage /\ (s \in {2, 3} => s - 1 \in Written /\ s - 1 # stage)
    BY <1>1, <1>8 DEF WorkflowInv, Written
  <2> QED BY <1>1, <1>2, <1>3, <2>1 DEF Settled
<1> QED BY <1>1, <1>4, <1>5, <1>7, <1>8 DEF WorkflowInv

\* What the invariant says of outputs holds as long as they stay.
LEMMA SettledStays ==
    ASSUME NEW s \in Written, Settled(s), UNCHANGED <<output, basis, declined>>
    PROVE  Settled(s)'
  BY DEF Settled

LEMMA AnswerKeeps ==
    ASSUME WorkflowInv, NEW decision \in {"approve", "modify", "reject", "none"}, Answer(decision)
    PROVE  WorkflowInv'
<1>1. /\ stage \in Written /\ Settled(stage) /\ stage < Completed /\ ~planned /\ ~rejected
      /\ \A s \in Written : s < stage => Settled(s)
      /\ output \in [Written -> Nat]
      /\ paused' = FALSE /\ UNCHANGED <<output, basis, planned, plan, results>>
  BY DEF Answer, WorkflowInv, WorkflowTypeOK, Written, Completed, Version
<1>2. stage' \in 1..Completed /\ rejected' \in BOOLEAN
  BY <1>1 DEF Answer, Advance, Written, Completed, WorkflowInv, WorkflowTypeOK
<1>3. CASE decision = "modify"
  <2> DEFINE d == <<stage, output[stage]>>
  <2>1. /\ stage' = stage /\ rejected' = FALSE /\ declined' = declined \union {d}
        /\ Cardinality(declined) < MaxModify
    BY <1>1, <1>3 DEF Answer, Advance
  <2>2. d \notin declined /\ d \in Written \X Version
    BY <1>1 DEF Settled, Version
  <2>3. IsFiniteSet(declined') /\ Cardinality(declined') = Cardinality(declined) + 1
    BY <2>1, <2>2, FS_AddElement DEF WorkflowInv
  <2>4. Cardinality(declined) \in Nat
    BY FS_CardinalityType DEF WorkflowInv
  <2>5. Cardinality(declined') =< MaxModify
    BY <2>1, <2>3, <2>4, WorkflowBounds
  <2>6. ASSUME NEW s \in Written, s < stage PROVE Settled(s)'
    <3>1. Settled(s) /\ s # stage
      BY <1>1, <2>6 DEF Written
    <3>2. <<s, output[s]>> # d
      BY <3>1
    <3> HIDE DEF d
    <3> QED BY <1>1, <2>1, <3>1, <3>2 DEF Settled
  <2>7. \A s \in Written, v \in Version : <<s, v>> \in declined' => v =< output[s]
    BY <1>1, <2>1 DEF WorkflowInv, Version
  <2>8. WorkflowTypeOK'
    BY <1>1, <1>2, <2>1, <2>2, <2>5 DEF WorkflowInv, WorkflowTypeOK
  <2> QED BY <1>1, <2>1, <2>3, <2>6, <2>7, <2>8 DEF WorkflowInv
<1>4. CASE decision = "reject"
  <2>1. stage' = Completed /\ UNCHANGED declined /\ rejected' = TRUE
    BY <1>4 DEF Answer, Advance
  <2>2. WorkflowTypeOK'
    BY <1>1, <1>2, <2>1 DEF WorkflowInv, WorkflowTypeOK
  <2> QED BY <1>1, <2>1, <2>2 DEF WorkflowInv, Completed
<1>5. CASE decision \in {"approve", "none"}
  <2>1. stage' = stage + 1 /\ UNCHANGED <<declined, rejected>>
    BY <1>1, <1>5 DEF Answer, Advance, WorkflowInv, WorkflowTypeOK
  <2>2. WorkflowTypeOK'
    BY <1>1, <1>2, <2>1 DEF WorkflowInv, WorkflowTypeOK
  <2>3. \A s \in Written : s < stage' => Settled(s)'
    BY <1>1, <2>1, SettledStays DEF Written
  <2> QED BY <1>1, <2>1, <2>2, <2>3 DEF WorkflowInv, Completed
<1> QED BY <1>3, <1>4, <1>5

\* The generator ends, or the apply stage does its work.
LEMMA ApplyKeeps ==
    ASSUME WorkflowInv,
           StageFails \/ WriteTodos \/ Synthesize \/ \E status \in {"completed", "failed"} : ExecuteSubtask(status)
    PROVE  WorkflowInv'
<1>0. stage \in 1..5 /\ output \in [Written -> Nat]
  BY DEF WorkflowInv, WorkflowTypeOK, Completed, Version
<1>1. UNCHANGED <<paused, output, basis, rejected, declined>>
  BY DEF StageFails, WriteTodos, Synthesize, ExecuteSubtask
<1>2. \A s \in Written : Settled(s) => Settled(s)'
  BY <1>1, SettledStays
<1>3. CASE StageFails
  <2>1. /\ ~paused /\ ~planned /\ stage' = Completed
        /\ UNCHANGED <<planned, plan, results>>
    BY <1>3 DEF StageFails, WorkflowInv, Written
  <2>2. WorkflowTypeOK'
    BY <1>1, <2>1 DEF WorkflowInv, WorkflowTypeOK, Completed
  <2> QED BY <1>1, <2>1, <2>2 DEF WorkflowInv, Completed
<1>4. CASE WriteTodos
  <2>1. /\ stage = 4 /\ ~planned /\ planned' = TRUE /\ plan' \in Plan /\ ~paused
        /\ results = <<>> /\ UNCHANGED <<stage, results>>
    BY <1>4 DEF WriteTodos, WorkflowInv, Written
  <2>2. Len(results') = 0 /\ Len(plan') \in Nat
    BY <2>1, PlansAreSequences
  <2>3. WorkflowTypeOK'
    BY <1>1, <2>1, <2>2 DEF WorkflowInv, WorkflowTypeOK
  <2>4. ~rejected /\ \A s \in Written : Settled(s)
    BY <2>1 DEF WorkflowInv, Written, Completed
  <2> QED BY <1>1, <1>2, <2>1, <2>3, <2>4 DEF WorkflowInv
<1>5. CASE Synthesize
  <2>1. stage = 4 /\ planned /\ stage' = Completed /\ UNCHANGED <<planned, plan, results>> /\ ~paused
    BY <1>5 DEF Synthesize, WorkflowInv, Written
  <2>2. WorkflowTypeOK'
    BY <1>1, <2>1 DEF WorkflowInv, WorkflowTypeOK, Completed
  <2> QED BY <1>1, <1>2, <2>1, <2>2 DEF WorkflowInv, Completed
<1>6. ASSUME NEW status \in {"completed", "failed"}, ExecuteSubtask(status) PROVE WorkflowInv'
  <2>1. /\ stage = 4 /\ Len(results) < Len(plan) /\ results' = Append(results, status) /\ ~paused
        /\ UNCHANGED <<stage, planned, plan>>
    BY <1>6 DEF ExecuteSubtask, WorkflowInv, Written
  <2>2. results \in Seq({"completed", "failed"}) /\ Len(plan) \in Nat
    BY PlansAreSequences DEF WorkflowInv, WorkflowTypeOK
  <2>3. results' \in Seq({"completed", "failed"}) /\ Len(results') =< Len(plan)
    BY <2>1, <2>2
  <2>4. planned
    BY <2>1, <2>2 DEF WorkflowInv
  <2>5. WorkflowTypeOK'
    BY <1>1, <2>1, <2>3 DEF WorkflowInv, WorkflowTypeOK
  <2> QED BY <1>1, <1>2, <2>1, <2>4, <2>5 DEF WorkflowInv
<1> QED BY <1>3, <1>4, <1>5, <1>6

LEMMA WorkflowStep == ASSUME WorkflowInv, [WorkflowNext]_workflowVars PROVE WorkflowInv'
<1>1. CASE UNCHANGED workflowVars
  BY <1>1 DEF workflowVars, WorkflowInv, WorkflowTypeOK, Settled
<1>2. CASE WorkflowNext
  BY <1>2, RunStageKeeps, AnswerKeeps, ApplyKeeps DEF WorkflowNext
<1> QED BY <1>1, <1>2

\* The inductive invariant of a workflow.
THEOREM WorkflowInvariance == WorkflowSpec => []WorkflowInv
  BY WorkflowStarts, WorkflowStep, PTL DEF WorkflowSpec

\* Tasks are planned for a workflow nobody rejected, from versions nobody wanted
\* changed, each made from the one of the stage before (run_stage, advance).
THEOREM PlansFollowDecisions == WorkflowSpec => []ApplyFollowsDecisions
<1>1. WorkflowInv => ApplyFollowsDecisions
  BY DEF WorkflowInv, Settled, ApplyFollowsDecisions, Written
<1> QED BY <1>1, WorkflowInvariance, PTL

------------------------------------------------------------------------------
(***************************************************************************)
(* TestRunner: the two readers share one budget, so the invariant accounts *)
(* for both at once: what was kept and what remains of the budget add up,  *)
(* and either nothing was dropped or the budget is used up.  A reader that *)
(* is done was the last to see its pipe.                                   *)
(***************************************************************************)
Unread == unread["stdout"] + unread["stderr"]
Dropped == \E p \in Pipe : reader[p].cut

Accounts ==
    /\ budget + Kept = MaxOutput
    /\ ~Dropped => Kept + Unread = Produced
    /\ Dropped => budget = 0 /\ Produced > MaxOutput + Unread

DoneSawTheEnd == \A p \in Pipe : reader[p].pc = "done" => unread[p] = 0 /\ ~HeldOpen

ReturnedIsCollected == runner.pc = "returned" /\ runner.status \in Results => BothDone

RunnerInv == RunnerTypeOK /\ Accounts /\ DoneSawTheEnd /\ ReturnedIsCollected

ReaderState == [pc : {"reading", "done", "cancelled"}, kept : 0..MaxOutput, cut : BOOLEAN]

\* The counters are numbers.
LEMMA RunnerNumbers ==
  ASSUME RunnerTypeOK
  PROVE  /\ MaxOutput \in Nat /\ MaxWritten \in Nat /\ budget \in Nat /\ budget =< MaxOutput
         /\ \A p \in Pipe : /\ written[p] \in Nat /\ unread[p] \in Nat
                            /\ written[p] =< MaxWritten /\ unread[p] =< written[p]
                            /\ reader[p].kept \in Nat /\ reader[p].kept =< MaxOutput
                            /\ reader[p] \in ReaderState
BY OutputAssumption DEF RunnerTypeOK, ReaderState

LEMMA RunnerStarts == RunnerInit => RunnerInv
<1> SUFFICES ASSUME RunnerInit PROVE RunnerInv
  OBVIOUS
<1> USE OutputAssumption
<1>1. RunnerTypeOK
  <2>1. 0 \in 0..MaxWritten /\ 0 \in 0..MaxOutput /\ MaxOutput \in 0..MaxOutput
    OBVIOUS
  <2>2. /\ written \in [Pipe -> 0..MaxWritten] /\ unread \in [Pipe -> 0..MaxWritten]
        /\ \A p \in Pipe : unread[p] =< written[p]
        /\ budget \in 0..MaxOutput
    BY <2>1 DEF RunnerInit
  <2>3. reader \in [Pipe -> [pc : {"reading", "done", "cancelled"}, kept : 0..MaxOutput,
                            cut : BOOLEAN]]
    BY <2>1 DEF RunnerInit, NotSoFar
  <2>. QED
    BY <2>2, <2>3 DEF RunnerInit, RunnerTypeOK
<1>2. /\ \A p \in Pipe : written[p] = 0 /\ unread[p] = 0
      /\ \A p \in Pipe : reader[p].pc = "reading" /\ reader[p].kept = 0 /\ reader[p].cut = FALSE
      /\ runner.pc = "waiting" /\ budget = MaxOutput
  BY DEF RunnerInit, NotSoFar
<1>3. Accounts
  BY <1>2 DEF Accounts, Kept, Produced, Unread, Dropped, Pipe
<1>4. DoneSawTheEnd /\ ReturnedIsCollected
  BY <1>2 DEF DoneSawTheEnd, ReturnedIsCollected
<1>. QED
  BY <1>1, <1>3, <1>4 DEF RunnerInv

\* What is done stays done when the other readers are cancelled.
LEMMA CancelKeeps ==
  ASSUME RunnerInv, reader' = ReadersCancelled, UNCHANGED <<unread, written, budget>>,
         HeldOpen' => HeldOpen
  PROVE  /\ reader' \in [Pipe -> ReaderState]
         /\ Accounts' /\ DoneSawTheEnd'
         /\ \A p \in Pipe : reader[p].pc = "done" => reader'[p].pc = "done"
<1>1. \A p \in Pipe : reader[p] \in ReaderState
  BY RunnerNumbers DEF RunnerInv
<1>2. \A p \in Pipe : /\ reader'[p] \in ReaderState
                      /\ reader'[p].kept = reader[p].kept /\ reader'[p].cut = reader[p].cut
                      /\ reader'[p].pc = "done" <=> reader[p].pc = "done"
  BY <1>1 DEF ReadersCancelled, ReaderState
<1>3. reader' \in [Pipe -> ReaderState]
  BY <1>2 DEF ReadersCancelled
<1>4. Accounts'
  BY <1>2 DEF RunnerInv, Accounts, Kept, Produced, Unread, Dropped, Pipe
<1>5. DoneSawTheEnd'
  BY <1>2 DEF RunnerInv, DoneSawTheEnd
<1>. QED
  BY <1>2, <1>3, <1>4, <1>5

\* A step of the world, or of the runner, that touches neither pipes nor readers.
LEMMA ElsewhereKeeps ==
  ASSUME RunnerInv, UNCHANGED <<written, unread, outputVars>>, HeldOpen' => HeldOpen,
         RunnerTypeOK', ReturnedIsCollected'
  PROVE  RunnerInv'
<1>1. Accounts'
  BY DEF RunnerInv, Accounts, Kept, Produced, Unread, Dropped, outputVars
<1>2. DoneSawTheEnd'
  BY DEF RunnerInv, DoneSawTheEnd, outputVars
<1>. QED
  BY <1>1, <1>2 DEF RunnerInv

LEMMA OutputKeeps == \A p \in Pipe : RunnerInv /\ Output(p) => RunnerInv'
<1> SUFFICES ASSUME NEW p \in Pipe, RunnerInv, Output(p) PROVE RunnerInv'
  OBVIOUS
<1>1. RunnerTypeOK /\ HeldOpen
  BY DEF RunnerInv, Output
<1>2. /\ written' = [written EXCEPT ![p] = written[p] + 1]
      /\ unread' = [unread EXCEPT ![p] = unread[p] + 1]
      /\ UNCHANGED <<process, helper, stubborn, budget, reader, runner, cancelled>>
      /\ written[p] < MaxWritten
  BY DEF Output, outputVars
<1>3. /\ written'[p] = written[p] + 1 /\ unread'[p] = unread[p] + 1
      /\ \A q \in Pipe \ {p} : written'[q] = written[q] /\ unread'[q] = unread[q]
  BY <1>1, <1>2 DEF RunnerTypeOK
<1>4. RunnerTypeOK'
  <2>1. written[p] + 1 \in 0..MaxWritten /\ unread[p] + 1 \in 0..MaxWritten
    BY <1>1, <1>2, RunnerNumbers
  <2>2. written' \in [Pipe -> 0..MaxWritten] /\ unread' \in [Pipe -> 0..MaxWritten]
    BY <1>1, <1>2, <2>1 DEF RunnerTypeOK
  <2>3. \A q \in Pipe : unread'[q] =< written'[q]
    BY <1>1, <1>3, RunnerNumbers
  <2>. QED
    BY <1>1, <1>2, <2>2, <2>3 DEF RunnerTypeOK
<1>5. Accounts'
  BY <1>1, <1>2, <1>3, RunnerNumbers DEF RunnerInv, Accounts, Kept, Produced, Unread, Dropped, Pipe
<1>6. DoneSawTheEnd' /\ ReturnedIsCollected'
  BY <1>1, <1>2 DEF RunnerInv, DoneSawTheEnd, ReturnedIsCollected, HeldOpen, BothDone
<1>. QED
  BY <1>4, <1>5, <1>6 DEF RunnerInv

\* A read moves from the pipe what fits, and marks what does not.
LEMMA ReadKeeps == \A p \in Pipe : RunnerInv /\ ReadChunk(p) => RunnerInv'
<1> SUFFICES ASSUME NEW p \in Pipe, RunnerInv, ReadChunk(p) PROVE RunnerInv'
  OBVIOUS
<1>1. RunnerTypeOK
  BY DEF RunnerInv
<1>2. PICK n \in 1..unread[p] :
          /\ unread' = [unread EXCEPT ![p] = unread[p] - n]
          /\ budget' = Charge(n)
          /\ reader' = [reader EXCEPT ![p] = [reader[p] EXCEPT
                 !.kept = reader[p].kept + Min2(n, budget),
                 !.cut = reader[p].cut \/ budget < n]]
  BY <1>1, ZenonT(40) DEF ReadChunk, RunnerTypeOK
<1>3. /\ UNCHANGED <<process, helper, stubborn, written, runner, cancelled>>
      /\ reader[p].pc = "reading"
  BY DEF ReadChunk
<1>4. n \in Nat /\ n > 0 /\ n =< unread[p]
  BY <1>1, RunnerNumbers
<1>5. /\ Min2(n, budget) \in Nat /\ Min2(n, budget) =< budget /\ Min2(n, budget) =< n
      /\ budget' = budget - Min2(n, budget) /\ budget' \in Nat
      /\ budget < n => Min2(n, budget) = budget
      /\ ~(budget < n) => Min2(n, budget) = n
  BY <1>1, <1>2, <1>4, RunnerNumbers DEF Min2, Charge
<1>6. Kept =< MaxOutput - budget /\ reader[p].kept =< Kept
  BY <1>1, RunnerNumbers DEF RunnerInv, Accounts, Kept, Pipe
<1>7. /\ reader[p].kept + Min2(n, budget) \in 0..MaxOutput
      /\ unread[p] - n \in 0..MaxWritten /\ unread[p] - n =< written[p]
      /\ budget' \in 0..MaxOutput
  BY <1>1, <1>4, <1>5, <1>6, RunnerNumbers DEF Kept, Pipe
<1>8. /\ reader'[p].kept = reader[p].kept + Min2(n, budget)
      /\ reader'[p].cut = (reader[p].cut \/ budget < n)
      /\ reader'[p].pc = "reading" /\ reader'[p] \in ReaderState
      /\ unread'[p] = unread[p] - n
      /\ \A q \in Pipe \ {p} : reader'[q] = reader[q] /\ unread'[q] = unread[q]
  BY <1>1, <1>2, <1>3, <1>7, RunnerNumbers DEF RunnerTypeOK, ReaderState
<1>9. RunnerTypeOK'
  <2>1. reader' \in [Pipe -> ReaderState]
    BY <1>1, <1>2, <1>8, RunnerNumbers DEF RunnerTypeOK
  <2>2. unread' \in [Pipe -> 0..MaxWritten] /\ \A q \in Pipe : unread'[q] =< written[q]
    BY <1>1, <1>2, <1>7, <1>8 DEF RunnerTypeOK
  <2>. QED
    BY <1>1, <1>3, <1>7, <2>1, <2>2 DEF RunnerTypeOK, ReaderState
<1>10. Accounts'
  <2>1. /\ Kept' = Kept + Min2(n, budget) /\ Unread' = Unread - n /\ Produced' = Produced
        /\ Unread \in Nat /\ Produced \in Nat /\ Kept \in Nat
    BY <1>1, <1>3, <1>4, <1>5, <1>8, RunnerNumbers DEF Kept, Unread, Produced, Pipe
  <2>2. Dropped' <=> Dropped \/ budget < n
    BY <1>8 DEF Dropped
  <2>3. Accounts
    BY DEF RunnerInv
  <2>. QED
    BY <1>1, <1>4, <1>5, <2>1, <2>2, <2>3, RunnerNumbers DEF Accounts
<1>11. DoneSawTheEnd'
  BY <1>3, <1>8 DEF RunnerInv, DoneSawTheEnd, HeldOpen
<1>12. ReturnedIsCollected'
  BY <1>3 DEF RunnerInv, ReturnedIsCollected, BothDone
<1>. QED
  BY <1>9, <1>10, <1>11, <1>12 DEF RunnerInv

LEMMA ReadEndKeeps == \A p \in Pipe : RunnerInv /\ ReadEnd(p) => RunnerInv'
<1> SUFFICES ASSUME NEW p \in Pipe, RunnerInv, ReadEnd(p) PROVE RunnerInv'
  OBVIOUS
<1>1. RunnerTypeOK
  BY DEF RunnerInv
<1>2. /\ reader' = [reader EXCEPT ![p] = [reader[p] EXCEPT !.pc = "done"]]
      /\ unread[p] = 0 /\ ~HeldOpen
      /\ UNCHANGED <<process, helper, stubborn, written, unread, budget, runner, cancelled>>
  BY <1>1 DEF ReadEnd, systemVars, RunnerTypeOK
<1>3. /\ reader'[p].kept = reader[p].kept /\ reader'[p].cut = reader[p].cut
      /\ reader'[p].pc = "done" /\ reader'[p] \in ReaderState
      /\ \A q \in Pipe \ {p} : reader'[q] = reader[q]
  BY <1>1, <1>2, RunnerNumbers DEF RunnerTypeOK, ReaderState
<1>4. RunnerTypeOK'
  BY <1>1, <1>2, <1>3, RunnerNumbers DEF RunnerTypeOK, ReaderState
<1>5. Accounts'
  BY <1>2, <1>3 DEF RunnerInv, Accounts, Kept, Unread, Produced, Dropped, Pipe
<1>6. DoneSawTheEnd' /\ ReturnedIsCollected'
  BY <1>2, <1>3 DEF RunnerInv, DoneSawTheEnd, ReturnedIsCollected, HeldOpen, BothDone
<1>. QED
  BY <1>4, <1>5, <1>6 DEF RunnerInv

\* The world around the readers.
LEMMA WorldKeeps == RunnerInv /\ (ProcessEnds \/ HelperEnds \/ Noticed) => RunnerInv'
<1> SUFFICES ASSUME RunnerInv, ProcessEnds \/ HelperEnds \/ Noticed PROVE RunnerInv'
  OBVIOUS
<1>1. /\ UNCHANGED <<stubborn, written, unread, outputVars, runner, cancelled>>
      /\ process' \in {"running", "ended", "seen"} /\ helper' \in {"none", "group", "escaped"}
      /\ HeldOpen' => HeldOpen
  BY DEF ProcessEnds, HelperEnds, Noticed, HeldOpen, RunnerInv, RunnerTypeOK
<1>2. RunnerTypeOK' /\ ReturnedIsCollected'
  BY <1>1 DEF RunnerInv, RunnerTypeOK, ReturnedIsCollected, BothDone, outputVars
<1>. QED
  BY <1>1, <1>2, ElsewhereKeeps

\* The runner's own steps.
LEMMA OwnStepKeeps ==
  RunnerInv /\ (Waited \/ RunTimesOut \/ Cancel \/ KillAndReap \/ Reaped \/ ReapTimesOut) => RunnerInv'
<1> SUFFICES ASSUME RunnerInv, Waited \/ RunTimesOut \/ Cancel \/ KillAndReap \/ Reaped \/ ReapTimesOut
             PROVE RunnerInv'
  OBVIOUS
<1>1. RunnerTypeOK
  BY DEF RunnerInv
<1>2. /\ UNCHANGED <<stubborn, written, unread, outputVars>> /\ cancelled' \in BOOLEAN
  BY <1>1 DEF Waited, RunTimesOut, Cancel, KillAndReap, Reaped, ReapTimesOut, systemVars,
              RunnerTypeOK
<1>3. /\ process' \in {"running", "ended", "seen"} /\ helper' \in {"none", "group", "escaped"}
      /\ HeldOpen' => HeldOpen
  BY <1>1 DEF Waited, RunTimesOut, Cancel, KillAndReap, KillGroup, Reaped, ReapTimesOut,
              systemVars, RunnerTypeOK, HeldOpen
<1>4. runner'.pc # "returned"
  BY <1>1 DEF Waited, RunTimesOut, Cancel, KillAndReap, Reaped, ReapTimesOut, RunnerTypeOK
<1>5. RunnerTypeOK'
  BY <1>1, <1>2, <1>3 DEF Waited, RunTimesOut, Cancel, KillAndReap, Reaped, ReapTimesOut,
              RunnerTypeOK, outputVars, Results
<1>6. ReturnedIsCollected'
  BY <1>4 DEF ReturnedIsCollected
<1>. QED
  BY <1>2, <1>3, <1>5, <1>6, ElsewhereKeeps

\* Results that are reported are collected first.
LEMMA ReturnKeeps == RunnerInv /\ (AfterKill \/ Collected \/ CollectTimesOut) => RunnerInv'
<1> SUFFICES ASSUME RunnerInv, AfterKill \/ Collected \/ CollectTimesOut PROVE RunnerInv'
  OBVIOUS
<1>1. RunnerTypeOK
  BY DEF RunnerInv
<1>2. /\ UNCHANGED <<process, helper, stubborn, written, unread, budget, cancelled>>
      /\ HeldOpen' => HeldOpen
  BY DEF AfterKill, Collected, CollectTimesOut, systemVars, outputVars, HeldOpen
<1>3. runner' \in [pc : {"waiting", "killing", "reaping", "lastReap", "killed", "collecting",
                         "returned", "raised"},
                   why : {"none", "timeout", "error"},
                   treeTerminated : BOOLEAN,
                   status : Results \union {"none", "termination_failed"}]
  BY <1>1 DEF AfterKill, Collected, CollectTimesOut, RunnerTypeOK, Results
<1>4. ReturnedIsCollected'
  <2>1. CASE AfterKill
    BY <1>1, <2>1 DEF AfterKill, ReturnedIsCollected, RunnerTypeOK, Results
  <2>2. CASE Collected
    BY <2>2 DEF Collected, ReturnedIsCollected, BothDone, outputVars
  <2>3. CASE CollectTimesOut
    BY <1>1, <2>3 DEF CollectTimesOut, ReturnedIsCollected, RunnerTypeOK
  <2>. QED
    BY <2>1, <2>2, <2>3
<1>5. CASE UNCHANGED reader
  <2>1. RunnerTypeOK'
    BY <1>1, <1>2, <1>3, <1>5 DEF RunnerTypeOK
  <2>. QED
    BY <1>2, <1>4, <1>5, <2>1, ElsewhereKeeps DEF outputVars
<1>6. CASE reader' = ReadersCancelled
  <2>1. reader' \in [Pipe -> ReaderState] /\ Accounts' /\ DoneSawTheEnd'
    BY <1>2, <1>6, CancelKeeps
  <2>2. RunnerTypeOK'
    BY <1>1, <1>2, <1>3, <2>1 DEF RunnerTypeOK, ReaderState
  <2>. QED
    BY <1>4, <2>1, <2>2 DEF RunnerInv
<1>. QED
  BY <1>5, <1>6 DEF AfterKill, Collected, CollectTimesOut, outputVars

LEMMA RunnerStep == RunnerInv /\ [RunnerNext]_runnerVars => RunnerInv'
<1> SUFFICES ASSUME RunnerInv, [RunnerNext]_runnerVars PROVE RunnerInv'
  OBVIOUS
<1>1. CASE UNCHANGED runnerVars
  BY <1>1 DEF RunnerInv, RunnerTypeOK, Accounts, DoneSawTheEnd, ReturnedIsCollected, Kept, Produced,
              Unread, Dropped, HeldOpen, BothDone, runnerVars
<1>2. CASE RunnerNext
  BY <1>2, OutputKeeps, ReadKeeps, ReadEndKeeps, WorldKeeps, OwnStepKeeps, ReturnKeeps DEF RunnerNext
<1>. QED
  BY <1>1, <1>2

\* The invariant of every run of a test profile.
THEOREM RunnerInvariance == RunnerSpec => []RunnerInv
<1>. QED
  BY RunnerStarts, RunnerStep, PTL DEF RunnerSpec

LEMMA InvMakesComplete == RunnerInv => ResultIsComplete
<1> SUFFICES ASSUME RunnerInv, runner.pc = "returned", runner.status \in Results
             PROVE  /\ ~HeldOpen
                    /\ Kept = Min2(Produced, MaxOutput)
                    /\ (\E p \in Pipe : reader[p].cut) <=> Produced > MaxOutput
  BY DEF ResultIsComplete
<1>1. RunnerTypeOK /\ Accounts /\ BothDone
  BY DEF RunnerInv, ReturnedIsCollected
<1>2. ~HeldOpen /\ \A p \in Pipe : unread[p] = 0
  BY <1>1 DEF RunnerInv, DoneSawTheEnd, BothDone, Pipe
<1>3. Unread = 0 /\ Produced \in Nat /\ Kept \in Nat
  BY <1>1, <1>2, RunnerNumbers DEF Unread, Produced, Kept, Pipe
<1>4. CASE Dropped
  BY <1>1, <1>2, <1>3, <1>4, RunnerNumbers DEF Accounts, Min2, Dropped
<1>5. CASE ~Dropped
  BY <1>1, <1>2, <1>3, <1>5, RunnerNumbers DEF Accounts, Min2, Dropped
<1>. QED
  BY <1>2, <1>4, <1>5 DEF Dropped

\* A reported result is final and accounts for every byte that was written, up to
\* the limit (SafeTestRunner.run, _OutputBudget).
THEOREM ResultsAreComplete == RunnerSpec => []ResultIsComplete
<1>. QED
  BY RunnerInvariance, InvMakesComplete, PTL
==================================================================================
