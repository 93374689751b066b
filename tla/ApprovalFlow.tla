---------------------------- MODULE ApprovalFlow -----------------------------
(***************************************************************************)
(* One controlled change from preview to outcome, in one workspace with    *)
(* one repository and one target file:                                     *)
(*                                                                         *)
(*  - graph turns, one at a time per session: the agent proposes changes,  *)
(*    asks to apply them, is interrupted for approval and replayed         *)
(*    (engine/orchestrator/nodes.py, engine/core/hitl);                    *)
(*  - the resume API and its background runs (engine/api/chat.py);         *)
(*  - the change service's memory of pending proposals                     *)
(*    (engine/core/workspace/change_service.py);                           *)
(*  - the durable store, module ProposalStore, whose transactions are      *)
(*    conjuncts of the actions here;                                       *)
(*  - crashes, restarts, and an editor that does not know of any of this.  *)
(*                                                                         *)
(* The engine is one asyncio event loop: code between two awaits is one    *)
(* action, or a few that no other engine action separates (Serving) but a  *)
(* crash may.                                                              *)
(***************************************************************************)
EXTENDS ProposalStore

CONSTANTS
    Gen,            \* the workspace's generation during the behaviour
    Content,        \* texts of the target file
    NoFile,         \* the target file does not exist
    None,
    MaxCalls,       \* bound: apply calls in one model message
    MaxCrashes,     \* bound: crashes or shutdowns
    MaxEdits,       \* bound: edits by others
    MaxFaults       \* bound: checkpoint, stream and store failures

ASSUME GenAssumption == Gen \in Generation
ASSUME FlowBounds ==
    MaxCalls \in Nat /\ MaxCrashes \in Nat /\ MaxEdits \in Nat /\ MaxFaults \in Nat

VARIABLES
    file,           \* what the target file holds
    patch,          \* what a proposal would do
    mem,            \* ControlledChangeService._pending, an OrderedDict
    thread,         \* the LangGraph checkpoint of each session
    graph,          \* the turn that executes on each session, if any
    req,            \* the resume request that holds approval_runs_lock
    run,            \* app.state.approval_runs
    sweep,          \* rows reconcile_applying has still to resolve
    up,             \* is the engine running?
    crashes, edits, faults,
    granted,        \* history: proposals a human approved
    denied,         \* history: proposals a human rejected
    writes,         \* history: how often the engine wrote a proposal
    overtaken       \* history: proposals whose target changed since the preview

flowVars == <<file, patch, mem, thread, graph, req, run, sweep, up>>
countVars == <<crashes, edits, faults>>
historyVars == <<granted, denied, writes, overtaken>>
vars == <<storeVars, flowVars, countVars, historyVars>>

FileState == Content \cup {NoFile}
Answer == [id : Proposal, ok : BOOLEAN]
Patch == [before : FileState, after : Content]

ASSUME NoneAssumption ==
    None \notin Proposal \cup Patch \cup {"chat"} /\ "chat" \notin Proposal

\* _DurableResumeRun.  got: which events of its own proposal it has seen.
Run == [st : {"none", "queued", "running", "finishing"},
        by : Session \cup {None}, ok : BOOLEAN,
        got : {"nothing", "file_change", "verification"}]
NoRun == [st |-> "none", by |-> None, ok |-> FALSE, got |-> "nothing"]

\* The checkpoint: the apply calls of the last message, the resume values
\* recorded for its interrupts, and the approval the last interrupt asks for.
Checkpoint == [calls : Seq(Proposal), answers : Seq(Answer), ask : Proposal \cup {None}]
Empty == [calls |-> <<>>, answers |-> <<>>, ask |-> None]

\* A turn: who holds the session's coordinator lock ("chat" or a run), where
\* it is, the calls still to prepare or execute, and those prepared.
Turn == [by : Proposal \cup {None, "chat"},
         pc : {"idle", "agent", "remember", "tools", "prepare", "execute", "testing"},
         todo : Seq(Proposal), ready : Seq(Proposal)]
Idle == [by |-> None, pc |-> "idle", todo |-> <<>>, ready |-> <<>>]

FlowTypeOK ==
    /\ file \in FileState
    /\ patch \in [Proposal -> Patch \cup {None}]
    /\ mem \in Seq(Proposal)
    /\ thread \in [Session -> Checkpoint]
    /\ graph \in [Session -> Turn]
    /\ req \in [by : Session, id : Proposal, ok : BOOLEAN] \cup {None}
    /\ run \in [Proposal -> Run]
    /\ sweep \subseteq Proposal
    /\ up \in BOOLEAN
    /\ crashes \in 0..MaxCrashes /\ edits \in 0..MaxEdits /\ faults \in 0..MaxFaults
    /\ granted \subseteq Proposal /\ denied \subseteq Proposal
    /\ writes \in [Proposal -> Nat]
    /\ overtaken \subseteq Proposal

TypeOK == StoreTypeOK /\ FlowTypeOK

Init ==
    /\ StoreInit
    /\ file \in FileState
    /\ patch = [p \in Proposal |-> None]
    /\ mem = <<>>
    /\ thread = [s \in Session |-> Empty]
    /\ graph = [s \in Session |-> Idle]
    /\ req = None
    /\ run = [p \in Proposal |-> NoRun]
    /\ sweep = {}
    /\ up = TRUE
    /\ crashes = 0 /\ edits = 0 /\ faults = 0
    /\ granted = {} /\ denied = {}
    /\ writes = [p \in Proposal |-> 0]
    /\ overtaken = {}

Fault == faults < MaxFaults /\ faults' = faults + 1

\* No synchronous section other than session s's own is under way.
Serving(s) ==
    /\ up
    /\ sweep = {}
    /\ \A t \in Session \ {s} : graph[t].pc \notin {"remember", "prepare"}
Free == \E s \in Session : Serving(s) /\ graph[s].pc \notin {"remember", "prepare"}

\* What order holds at the given positions (SelectSeq, in a form one can prove about).
Chosen(order, at) ==
    LET upTo[n \in 0..Len(order)] ==
            IF n = 0 THEN <<>>
            ELSE IF n \in at THEN Append(upTo[n - 1], order[n]) ELSE upTo[n - 1]
    IN  upTo[Len(order)]

Without(order, gone) == Chosen(order, {i \in DOMAIN order : order[i] \notin gone})

------------------------------------------------------------------------------
\* The change service's memory.

\* _require_pending succeeds: in memory, or restored from a pending row.
Available(p) ==
    /\ p \notin lapsed
    /\ p \in Ids(mem) \/ Claimable(p, Gen)

\* The file holds another text now: previews made from what it held are overtaken.
Overtakes(text) ==
    overtaken' = overtaken \cup {p \in Proposal : patch[p] # None /\ patch[p].before # text}

\* Mistaken: apply does not compare the file with the preview.
TargetIgnored(p) == TRUE

\* _assert_expected_state: the file still holds what the preview was made from.
TargetAsPreviewed(p) == file = patch[p].before

\* What _require_pending leaves behind, whether it succeeds or not.
RequirePending(p) ==
    /\ mem' = IF p \in lapsed THEN Without(mem, {p})
              ELSE IF p \notin Ids(mem) /\ Claimable(p, Gen) THEN Append(mem, p)
              ELSE mem
    /\ \/ p \in lapsed /\ p \in Ids(mem) /\ Discard(p, Gen, "expired")
       \/ p \in lapsed /\ p \notin Ids(mem) /\ LoadExpire(p, Gen)
       \/ ~(p \in lapsed /\ Claimable(p, Gen)) /\ UNCHANGED storeVars

\* Mistaken: the row changes whatever its state.
ForgetDecided(p, state) ==
    /\ mem' = Without(mem, {p})
    /\ changes' = [changes EXCEPT ![p] = state]
    /\ UNCHANGED <<gen, saved, lapsed, outcomes, owner, settled>>

\* Mistaken: the row changes, the memory does not.
ForgetRowOnly(p, state) ==
    /\ mem' = mem
    /\ \/ Discard(p, Gen, state)
       \/ ~Claimable(p, Gen) /\ UNCHANGED storeVars

\* Drop a proposal from memory; its row only changes while it is pending.
Forget(p, state) ==
    /\ mem' = Without(mem, {p})
    /\ \/ Discard(p, Gen, state)
       \/ ~Claimable(p, Gen) /\ UNCHANGED storeVars

------------------------------------------------------------------------------
\* A graph turn.

\* The turn ends and its coordinator lock is released; a run goes on to
\* record its outcome.
EndTurn(s) ==
    /\ graph' = [graph EXCEPT ![s] = Idle]
    /\ run' = IF graph[s].by \in Proposal
              THEN [run EXCEPT ![graph[s].by].st = "finishing"] ELSE run

\* _chat_stream_once: refused while the checkpoint asks for an approval.
ChatStart(s) ==
    /\ Serving(s) /\ graph[s].by = None
    /\ thread[s].ask = None
    /\ thread' = [thread EXCEPT ![s] = Empty]
    /\ graph' = [graph EXCEPT ![s] = [Idle EXCEPT !.by = "chat", !.pc = "agent"]]
    /\ UNCHANGED <<storeVars, file, patch, mem, req, run, sweep, up,
                   countVars, historyVars>>

\* preview_replace / preview_create: the proposal is computed from the file as
\* it is now; _remember, below, stores it.
AgentPreview(s, p, text) ==
    /\ Serving(s) /\ graph[s].pc = "agent"
    /\ patch[p] = None
    /\ patch' = [patch EXCEPT ![p] = [before |-> file, after |-> text]]
    /\ graph' = [graph EXCEPT ![s].pc = "remember", ![s].todo = <<p>>]
    /\ UNCHANGED <<storeVars, file, mem, thread, req, run, sweep, up,
                   countVars, historyVars>>

\* _remember: first _prune_expired,
RememberPrune(s) ==
    /\ up /\ graph[s].pc = "remember"
    /\ \E p \in Ids(mem) \cap lapsed : Forget(p, "expired")
    /\ UNCHANGED <<file, patch, thread, graph, req, run, sweep, up,
                   countVars, historyVars>>

\* then the eviction of the oldest proposal in memory while it is full,
RememberEvict(s) ==
    /\ up /\ graph[s].pc = "remember"
    /\ Ids(mem) \cap lapsed = {}
    /\ Len(mem) >= MaxPending
    /\ Forget(Head(mem), "evicted")
    /\ UNCHANGED <<file, patch, thread, graph, req, run, sweep, up,
                   countVars, historyVars>>

\* then the save, whose evictions leave memory too.
RememberSave(s) ==
    /\ up /\ graph[s].pc = "remember"
    /\ Ids(mem) \cap lapsed = {}
    /\ Len(mem) < MaxPending
    /\ LET p == Head(graph[s].todo)
       IN  /\ Save(p, Gen)
           /\ mem' = Append(Without(mem, EvictedBy(p, Gen)), p)
    /\ graph' = [graph EXCEPT ![s].pc = "agent", ![s].todo = <<>>]
    /\ UNCHANGED <<file, patch, thread, req, run, sweep, up, countVars, historyVars>>

\* The model's message asks to apply proposals, in any order, of any session (the
\* service does not ask whose they are), one twice if it likes, and decided ones again.
AgentApply(s, calls) ==
    /\ Serving(s) /\ graph[s].pc = "agent"
    /\ \A i \in DOMAIN calls : patch[calls[i]] # None
    /\ thread' = [thread EXCEPT ![s] = [Empty EXCEPT !.calls = calls]]
    /\ graph' = [graph EXCEPT ![s].pc = "tools", ![s].todo = calls, ![s].ready = <<>>]
    /\ UNCHANGED <<storeVars, file, patch, mem, req, run, sweep, up,
                   countVars, historyVars>>

\* A final answer, the iteration limit, a failed model call, or a chat client
\* that went away.
AgentStop(s) ==
    /\ Serving(s) /\ graph[s].pc = "agent"
    /\ EndTurn(s)
    /\ UNCHANGED <<storeVars, file, patch, mem, thread, req, sweep, up,
                   countVars, historyVars>>

\* Mistaken: a call that cannot be prepared is prepared again.
ToolPrepareRetry(s) ==
    /\ Serving(s) /\ graph[s].pc \in {"tools", "prepare"}
    /\ graph[s].todo # <<>>
    /\ LET p  == Head(graph[s].todo)
           ok == Available(p) /\ TargetAsPreviewed(p)
       IN  /\ RequirePending(p)
           /\ graph' = IF ok THEN [graph EXCEPT ![s].pc = "prepare", ![s].todo = Tail(@),
                                                ![s].ready = Append(@, p)]
                       ELSE [graph EXCEPT ![s].pc = "prepare"]
    /\ UNCHANGED <<file, patch, thread, req, run, sweep, up, countVars, historyVars>>

\* tool_node, first loop: prepare_approval of the next call.
ToolPrepare(s) ==
    /\ Serving(s) /\ graph[s].pc \in {"tools", "prepare"}
    /\ graph[s].todo # <<>>
    /\ LET p  == Head(graph[s].todo)
           ok == Available(p) /\ TargetAsPreviewed(p)
       IN  /\ RequirePending(p)
           /\ graph' = [graph EXCEPT ![s].pc = "prepare", ![s].todo = Tail(@),
                                     ![s].ready = IF ok THEN Append(@, p) ELSE @]
    /\ UNCHANGED <<file, patch, thread, req, run, sweep, up, countVars, historyVars>>

\* Mistaken: the answer's id is not compared with the approval's.
ApprovedByPosition(s) ==
    LET ready == graph[s].ready
    IN  Chosen(ready, {i \in DOMAIN ready : thread[s].answers[i].ok})

\* The answers of a replay go to the interrupts by position, and
\* require_approval rejects one that names another approval.
Approved(s) ==
    LET ready == graph[s].ready
        given == thread[s].answers
    IN  Chosen(ready, {i \in DOMAIN ready : given[i] = [id |-> ready[i], ok |-> TRUE]})

\* tool_node, second loop: a prepared call without an answer interrupts ...
ToolInterrupt(s) ==
    /\ Serving(s) /\ graph[s].pc = "prepare" /\ graph[s].todo = <<>>
    /\ Len(graph[s].ready) > Len(thread[s].answers)
    /\ thread' = [thread EXCEPT ![s].ask = graph[s].ready[Len(thread[s].answers) + 1]]
    /\ EndTurn(s)
    /\ UNCHANGED <<storeVars, file, patch, mem, req, sweep, up, countVars, historyVars>>

\* ... and when every one has its answer, execution may begin.
ToolPass(s) ==
    /\ Serving(s) /\ graph[s].pc = "prepare" /\ graph[s].todo = <<>>
    /\ Len(graph[s].ready) <= Len(thread[s].answers)
    /\ graph' = [graph EXCEPT ![s].pc = "execute", ![s].todo = Approved(s)]
    /\ UNCHANGED <<storeVars, file, patch, mem, thread, req, run, sweep, up,
                   countVars, historyVars>>

Executing(s) == Serving(s) /\ graph[s].pc = "execute" /\ graph[s].todo # <<>>

\* Mistaken: the lock is released before the tests.
RepositoryUnlocked == TRUE

\* The per-repository lock covers the write and its tests.
RepositoryFree == \A s \in Session : graph[s].pc # "testing"

\* apply_approved raises before it writes: the call reports an error.
ApplyRefused(s) ==
    /\ Executing(s)
    /\ LET p == Head(graph[s].todo)
       IN  /\ ~(Available(p) /\ Consumable(p, Gen))
           /\ RequirePending(p)
    /\ graph' = [graph EXCEPT ![s].todo = Tail(@)]
    /\ UNCHANGED <<file, patch, thread, req, run, sweep, up, countVars, historyVars>>

WritesText(p) ==
    /\ file' = patch[p].after /\ Overtakes(patch[p].after)
    /\ writes' = [writes EXCEPT ![p] = @ + 1]
WritesNothing == UNCHANGED <<file, writes, overtaken>>
NextCall(s) == graph' = [graph EXCEPT ![s].todo = Tail(@)]

\* apply_approved: consume, then write if the file is still the one previewed,
\* then test.  A conflict, or an error of the file system before or after the text
\* is in place, has consumed the proposal and tests nothing.
ApplyApproved(s) ==
    /\ Executing(s) /\ RepositoryFree
    /\ LET p == Head(graph[s].todo)
       IN  /\ Available(p)
           /\ Consume(p, Gen)
           /\ mem' = Without(mem, {p})
           /\ \/ /\ TargetAsPreviewed(p) /\ WritesText(p)
                 /\ graph' = [graph EXCEPT ![s].pc = "testing"] /\ UNCHANGED faults
              \/ /\ TargetAsPreviewed(p) /\ (WritesText(p) \/ WritesNothing)
                 /\ NextCall(s) /\ Fault
              \/ /\ ~TargetAsPreviewed(p) /\ WritesNothing
                 /\ NextCall(s) /\ UNCHANGED faults
    /\ UNCHANGED <<patch, thread, req, run, sweep, up, crashes, edits, granted, denied>>

\* Mistaken: events are not filtered by proposal.
SawAnyProposal(s, event) ==
    IF graph[s].by \in Proposal
    THEN [run EXCEPT ![graph[s].by].got = event] ELSE run

\* The run that holds the session sees an event of its own proposal only.
Saw(s, event) ==
    IF graph[s].by = Head(graph[s].todo)
    THEN [run EXCEPT ![graph[s].by].got = event] ELSE run

\* The tests end and apply_approved returns; both its events are dispatched.
ApplyReturns(s) ==
    /\ Serving(s) /\ graph[s].pc = "testing"
    /\ run' = Saw(s, "verification")
    /\ graph' = [graph EXCEPT ![s].pc = "execute", ![s].todo = Tail(@)]
    /\ UNCHANGED <<storeVars, file, patch, mem, thread, req, sweep, up,
                   countVars, historyVars>>

\* The stream breaks, before or after file_change: the turn ends, its node uncommitted.
StreamBreaks(s) ==
    /\ Serving(s) /\ graph[s].pc = "testing" /\ Fault
    /\ graph' = [graph EXCEPT ![s] = Idle]
    /\ \E seen \in {run, Saw(s, "file_change")} :
          run' = [seen EXCEPT ![graph[s].by].st = "finishing"]
    /\ UNCHANGED <<storeVars, file, patch, mem, thread, req, sweep, up,
                   crashes, edits, historyVars>>

\* tool_node returns: the next checkpoint has no interrupt.
ToolsDone(s) ==
    /\ Serving(s) /\ graph[s].pc = "execute" /\ graph[s].todo = <<>>
    /\ thread' = [thread EXCEPT ![s] = Empty]
    /\ graph' = [graph EXCEPT ![s].pc = "agent", ![s].ready = <<>>]
    /\ UNCHANGED <<storeVars, file, patch, mem, req, run, sweep, up,
                   countVars, historyVars>>

------------------------------------------------------------------------------
\* The resume API.

\* Under approval_runs_lock: no run, no outcome, and the checkpoint asks for
\* this approval.  The lock is held across the await that reads it.
ResumeCheck(s, p, ok) ==
    /\ Free /\ req = None
    /\ run[p].st = "none"
    /\ outcomes[p] = "absent" \/ owner[p] # s
    /\ thread[s].ask = p
    /\ req' = [by |-> s, id |-> p, ok |-> ok]
    /\ UNCHANGED <<storeVars, file, patch, mem, thread, graph, run, sweep, up,
                   countVars, historyVars>>

\* claim_outcome succeeds: the background run is registered.
ResumeClaim ==
    /\ Free /\ req # None
    /\ ClaimOutcome(req.id, Gen, req.by)
    /\ run' = [run EXCEPT ![req.id] = [NoRun EXCEPT !.st = "queued", !.by = req.by,
                                                    !.ok = req.ok]]
    /\ IF req.ok THEN granted' = granted \cup {req.id} /\ UNCHANGED denied
                 ELSE denied' = denied \cup {req.id} /\ UNCHANGED granted
    /\ req' = None
    /\ UNCHANGED <<file, patch, mem, thread, graph, sweep, up, countVars, writes, overtaken>>

\* claim_outcome fails: 404 or 409.
ResumeRefused ==
    /\ Free /\ req # None
    /\ ~Claimable(req.id, Gen)
    /\ req' = None
    /\ UNCHANGED <<storeVars, file, patch, mem, thread, graph, run, sweep, up,
                   countVars, historyVars>>

\* Mistaken: approval_runs is not consulted.
ResumeOrphanUnchecked(p) ==
    /\ Free /\ req = None
    /\ outcomes[p] = "applying"
    /\ sweep' = Interrupted(Gen)
    /\ UNCHANGED <<storeVars, file, patch, mem, thread, graph, req, run, up,
                   countVars, historyVars>>

\* An outcome is applying but no run works on it: reconcile, do not resume.
ResumeOrphan(p) ==
    /\ Free /\ req = None
    /\ run[p].st = "none" /\ outcomes[p] = "applying"
    /\ sweep' = Interrupted(Gen)
    /\ UNCHANGED <<storeVars, file, patch, mem, thread, graph, req, run, up,
                   countVars, historyVars>>

\* reconcile_applying, one row: no engine action runs until it has resolved
\* the rows it selected.
SweepRow(p) ==
    /\ up /\ p \in sweep
    /\ Reconcile(p, Gen, file = patch[p].after)
    /\ sweep' = sweep \ {p}
    /\ UNCHANGED <<file, patch, mem, thread, graph, req, run, up,
                   countVars, historyVars>>

------------------------------------------------------------------------------
\* A background run.

\* _resume_stream_once has the session's lock: replay with the answer.
RunStart(p) ==
    LET s == run[p].by
    IN  /\ Free /\ run[p].st = "queued"
        /\ graph[s].by = None
        /\ thread[s].ask = p
        /\ thread' = [thread EXCEPT ![s].answers = Append(@, [id |-> p, ok |-> run[p].ok])]
        /\ graph' = [graph EXCEPT ![s] = [by |-> p, pc |-> "tools",
                                          todo |-> thread[s].calls, ready |-> <<>>]]
        /\ run' = [run EXCEPT ![p].st = "running"]
        /\ UNCHANGED <<storeVars, file, patch, mem, req, sweep, up,
                       countVars, historyVars>>

\* The approval is no longer pending there, or the checkpoint is unavailable.
RunDenied(p) ==
    LET s == run[p].by
    IN  /\ Free /\ run[p].st = "queued"
        /\ graph[s].by = None
        /\ IF thread[s].ask # p THEN UNCHANGED faults
                                ELSE Fault
        /\ run' = [run EXCEPT ![p].st = "finishing"]
        /\ UNCHANGED <<storeVars, file, patch, mem, thread, graph, req, sweep, up,
                       crashes, edits, historyVars>>

\* Mistaken: the last event is the outcome.
RunResultUnmapped(p) ==
    IF ~run[p].ok THEN "rejected"
    ELSE IF run[p].got = "nothing" THEN "failed" ELSE run[p].got

\* _resume_outcome_result
RunResult(p) ==
    IF ~run[p].ok THEN "rejected"
    ELSE CASE run[p].got = "nothing"      -> "failed"
           [] run[p].got = "file_change"  -> "applied_recovered"
           [] run[p].got = "verification" -> "applied"

\* complete_outcome, then the run leaves the registry.  An outcome that is
\* terminal already is read back unchanged.
RunComplete(p) ==
    /\ Free /\ req = None /\ run[p].st = "finishing"
    /\ \/ CompleteOutcome(p, Gen, run[p].by, RunResult(p))
       \/ outcomes[p] # "applying" /\ UNCHANGED storeVars
    /\ run' = [run EXCEPT ![p] = NoRun]
    /\ UNCHANGED <<file, patch, mem, thread, graph, req, sweep, up,
                   countVars, historyVars>>

\* Both attempts to persist the outcome fail.
RunUnrecorded(p) ==
    /\ Free /\ req = None /\ run[p].st = "finishing" /\ Fault
    /\ run' = [run EXCEPT ![p] = NoRun]
    /\ UNCHANGED <<storeVars, file, patch, mem, thread, graph, req, sweep, up,
                   crashes, edits, historyVars>>

------------------------------------------------------------------------------
\* The engine stops, wherever it is; only the databases and the file remain.
Down ==
    /\ up /\ crashes < MaxCrashes
    /\ crashes' = crashes + 1
    /\ up' = FALSE
    /\ mem' = <<>>
    /\ graph' = [s \in Session |-> Idle]
    /\ run' = [p \in Proposal |-> NoRun]
    /\ req' = None
    /\ sweep' = {}
    /\ UNCHANGED <<file, patch, thread, edits, faults, historyVars>>

Crash == Down /\ UNCHANGED storeVars

\* ... between the consume and the write of apply_approved.
CrashBeforeWrite(s) ==
    /\ Executing(s) /\ RepositoryFree
    /\ Available(Head(graph[s].todo))
    /\ Consume(Head(graph[s].todo), Gen)
    /\ Down

\* Mistaken: nothing is reconciled.
RestartUnreconciled ==
    /\ ~up
    /\ up' = TRUE
    /\ UNCHANGED <<storeVars, file, patch, mem, thread, graph, req, run, sweep,
                   countVars, historyVars>>

\* _runtime_lifespan: the outcomes left applying are reconciled before the
\* first request is served.
Restart ==
    /\ ~up
    /\ up' = TRUE
    /\ sweep' = Interrupted(Gen)
    /\ UNCHANGED <<storeVars, file, patch, mem, thread, graph, req, run,
                   countVars, historyVars>>

Edit(text) ==
    /\ edits < MaxEdits /\ text # file
    /\ edits' = edits + 1
    /\ file' = text /\ Overtakes(text)
    /\ UNCHANGED <<storeVars, patch, mem, thread, graph, req, run, sweep, up,
                   crashes, faults, granted, denied, writes>>

TimePasses(p) ==
    Lapse(p) /\ UNCHANGED <<flowVars, countVars, historyVars>>

------------------------------------------------------------------------------
\* What the engine does without being asked to, and must go on doing.
TurnStep(s) ==
    \/ RememberPrune(s) \/ RememberEvict(s) \/ RememberSave(s)
    \/ ToolPrepare(s) \/ ToolInterrupt(s) \/ ToolPass(s)
    \/ ApplyRefused(s) \/ ApplyApproved(s) \/ ApplyReturns(s) \/ ToolsDone(s)
RunStep(p) == RunStart(p) \/ RunDenied(p) \/ RunComplete(p)
ApiStep == ResumeClaim \/ ResumeRefused

Calls == UNION {[1..n -> Proposal] : n \in 1..MaxCalls}

Next ==
    \/ \E s \in Session :
        \/ ChatStart(s) \/ AgentStop(s) \/ TurnStep(s) \/ StreamBreaks(s)
        \/ CrashBeforeWrite(s)
        \/ \E p \in Proposal, text \in Content : AgentPreview(s, p, text)
        \/ \E calls \in Calls : AgentApply(s, calls)
        \/ \E p \in Proposal, ok \in BOOLEAN : ResumeCheck(s, p, ok)
    \/ \E p \in Proposal : \/ RunStep(p) \/ RunUnrecorded(p)
                           \/ ResumeOrphan(p) \/ SweepRow(p) \/ TimePasses(p)
    \/ ApiStep
    \/ Crash \/ Restart
    \/ \E text \in FileState : Edit(text)

Spec == Init /\ [][Next]_vars

\* The scheduling the code justifies: the event loop runs whatever is ready,
\* locks are handed on, a turn ends by its iteration limit (35) however often
\* it calls tools, and somebody restarts an engine that is down.  Users, time,
\* editors, crashes and faults owe nothing.
TurnFairness == \A s \in Session : SF_vars(TurnStep(s)) /\ SF_vars(AgentStop(s))
RunFairness ==
    /\ \A p \in Proposal : SF_vars(RunStep(p))
    /\ SF_vars(ApiStep)
    /\ WF_vars(Restart \/ \E p \in Proposal : SweepRow(p))

FairSpec == Spec /\ TurnFairness /\ RunFairness

------------------------------------------------------------------------------
\* What must hold of every change.

\* Replays, crashes, duplicate calls and repeated requests never write a
\* change twice, and never one that no human approved (tool_node, consume).
WrittenOnceAndOnlyIfApproved ==
    \A p \in Proposal : writes[p] <= (IF p \in granted THEN 1 ELSE 0)

\* What was consumed, expired or evicted has left memory too, where _require_pending
\* would hand it out again without a look at its row (apply_approved, _remember,
\* _prune_expired).  A claimed change stays, also when its claim has ended without a
\* write: DecidedIsNotAsked.
MemoryIsBacked ==
    \A p \in Ids(mem) : changes[p] \in {"pending", "claimed", "absent"}

\* An outcome stays applying only while somebody works on it: a run, a sweep,
\* or, the engine being down, the sweep of the next start (_execute_resume_run,
\* _runtime_lifespan).  A fault while persisting it is the one exception.
NoOrphan ==
    up /\ faults = 0 =>
        \A p \in Proposal :
            outcomes[p] = "applying" => run[p].st # "none" \/ p \in sweep

\* At most one turn tests at a time, and it does so with the repository still
\* as it wrote it unless somebody else edited the file (_repository_locks).
TestsSeeTheirWrite ==
    edits = 0 => \A s \in Session :
        graph[s].pc = "testing" => file = patch[Head(graph[s].todo)].after

\* An approval speaks for the text it showed: every write of the engine takes
\* the file from the text of an approved proposal's preview to the text of its
\* diff, so no edit made since the preview is overwritten (mutator.apply).
NoLostUpdate ==
    [][edits' = edits /\ file' # file =>
        \E p \in granted : /\ writes'[p] = writes[p] + 1
                           /\ file = patch[p].before
                           /\ file' = patch[p].after]_vars

\* A terminal outcome is final for the file too: nothing is written for a
\* change whose outcome is no longer applying (chat.py /outcome).
NoWriteAfterOutcome ==
    [][\A p \in Proposal : writes'[p] # writes[p] => outcomes[p] = "applying"]_vars

\* An approved change whose time has not run out, and whose file nobody changed
\* since the preview, is not refused (README: the engine may be restarted meanwhile).
FailedHasReason ==
    \A p \in Proposal : outcomes[p] = "failed" => p \in lapsed \cup overtaken

\* ... which holds as long as the engine was never restarted, no checkpoint or
\* stream failed, memory has room for every proposal, and a message asks for one
\* approval at a time (with two, the first run ends before its change is applied).
Undisturbed ==
    /\ crashes = 0 /\ faults = 0 /\ MaxCalls = 1
    /\ IsFiniteSet(Proposal) /\ Cardinality(Proposal) <= MaxPending
RefusedForAReason == Undisturbed => FailedHasReason

\* An approval the checkpoint waits for can be answered: a resume request of
\* its session would be able to claim it (resume continues the interrupted
\* graph; until then the session accepts no other message).
AskCanBeAnswered ==
    \A s \in Session : LET p == thread[s].ask IN
        up /\ sweep = {} /\ graph[s].by = None /\ p # None =>
            run[p].st # "none" \/ Claimable(p, Gen)

\* A change whose outcome is terminal is not asked for again: resume would replay
\* that outcome and leave the checkpoint, and with it the session, where it is
\* (resume; _require_pending hands out what memory holds).
DecidedIsNotAsked ==
    \A s \in Session :
        graph[s].by = None /\ thread[s].ask # None => outcomes[thread[s].ask] \notin Terminal

\* The abstract promise, under the refinement mapping.
AnswerOf(p) ==
    CASE p \in granted /\ p \notin denied -> "granted"
      [] p \in denied /\ p \notin granted -> "denied"
      [] p \in granted /\ p \in denied    -> "both"
      [] OTHER                             -> "open"
VerdictOf(p) ==
    IF outcomes[p] \in Terminal THEN outcomes[p]
    ELSE IF outcomes[p] = "absent" /\ AnswerOf(p) # "open" THEN "forgotten"
    ELSE "none"
Promise == INSTANCE ApprovalPromise WITH
    Change <- Proposal,
    answer <- [p \in Proposal |-> AnswerOf(p)],
    written <- [p \in Proposal |-> writes[p] # 0],
    verdict <- [p \in Proposal |-> VerdictOf(p)]
ImplementsPromise == Promise!PromiseSpec

\* Every change under decision gets its outcome, whatever crashes.
EveryClaimConcludes ==
    \A p \in Proposal : outcomes[p] = "applying" ~> outcomes[p] # "applying"

\* No turn goes on for ever, whatever its calls run into: the coordinator lock of
\* its session comes free again (session_coordinator, tool_node).
EveryTurnEnds ==
    \A s \in Session : graph[s].by # None ~> graph[s].by = None
==============================================================================
