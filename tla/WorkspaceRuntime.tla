--------------------------- MODULE WorkspaceRuntime ----------------------------
(***************************************************************************)
(* The runtime of one workspace (engine/api/workspaces.py): its entry in   *)
(* the registry (engine/core/workspace/registry.py), whose generation      *)
(* changes with its repositories, the manager cached for it, and the guard *)
(* that keeps approval runs (engine/api/chat.py) and changes of the        *)
(* workspace apart.  A manager is known by the generation it was built     *)
(* for, an approval by the generation of the thread that asks for it.      *)
(*                                                                         *)
(* Requests run on one event loop; an action is the code between two       *)
(* awaits.  Both locks are asyncio locks: granted in order of arrival, and *)
(* taken without yielding when nobody has or awaits them.                  *)
(***************************************************************************)
EXTENDS Naturals, SequencesExt

CONSTANTS
    Request,        \* HTTP requests that can be under way at a time
    MaxGeneration,  \* bound: generations the workspace gets
    MaxRestarts,    \* bound: crashes or shutdowns
    Fault           \* what may fail, once: "outcome", persisting one, and
                    \* "removal", deleting the directory of the workspace

ASSUME FaultAssumption == Fault \subseteq {"outcome", "removal"}
ASSUME MaxGenerationAssumption == MaxGeneration \in Nat \ {0}
ASSUME MaxRestartsAssumption == MaxRestarts \in Nat

VARIABLES
    workspace,      \* the generation registered, 0 when there is no workspace
    leftover,       \* the generation in a directory that was not deleted, or 0
    issued,         \* the last generation issued (uuid4 in the code)
    cached,         \* app.state.mcp_managers[id], 0 when there is none
    managerLock,    \* workspace_manager_lock: its holder, then those who wait
    runsLock,       \* approval_runs_lock
    req,            \* the requests under way, approval runs included
    thread,         \* the checkpoint of the session's thread in each generation
    row,            \* the generation its proposal is stored under
    outcome,        \* the outcome of that proposal
    restarts, faults

vars == <<workspace, leftover, issued, cached, managerLock, runsLock, req, thread, row,
          outcome, restarts, faults>>

Issuable == 1..MaxGeneration
Kind == {"chat", "resume", "change", "delete"}

\* pc "running" and "ending": a resume request that has become an entry of
\* approval_runs, until its task has taken the lock and removed it.
Pc == {"idle", "waiting", "building", "open", "turn", "guard", "invalidate",
       "closing", "pending", "running", "ending"}
Idle == [kind |-> "chat", pc |-> "idle", ws |-> 0, mgr |-> 0]

\* The lock is held or awaited by exactly the requests at pcs, each once.
IsQueueOf(lock, pcs) ==
    /\ lock \in Seq(Request) /\ IsInjective(lock)
    /\ ToSet(lock) = {r \in Request : req[r].pc \in pcs}

\* Types, and who is in which lock (get_ and invalidate_workspace_manager, the
\* guard, resume and _execute_resume_run take them and give them back).
TypeOK ==
    /\ workspace \in 0..MaxGeneration /\ issued \in Issuable
    /\ leftover \in 0..MaxGeneration
    /\ cached \in 0..MaxGeneration
    /\ IsQueueOf(managerLock, {"waiting", "building", "invalidate"})
    /\ IsQueueOf(runsLock, {"guard", "pending", "ending", "invalidate", "closing"})
    /\ req \in [Request -> [kind : Kind, pc : Pc, ws : 0..MaxGeneration,
                            mgr : 0..MaxGeneration]]
    /\ thread \in [Issuable -> {"fresh", "asking", "resolved"}]
    /\ row \in [Issuable -> 0..MaxGeneration]
    /\ outcome \in [Issuable -> {"absent", "applying", "terminal"}]
    /\ restarts \in 0..MaxRestarts /\ faults \subseteq Fault

Init ==
    /\ workspace = 1 /\ leftover = 0 /\ issued = 1
    /\ cached = 0
    /\ managerLock = <<>> /\ runsLock = <<>>
    /\ req = [r \in Request |-> Idle]
    /\ thread = [g \in Issuable |-> "fresh"]
    /\ row = [g \in Issuable |-> 0]
    /\ outcome = [g \in Issuable |-> "absent"]
    /\ restarts = 0 /\ faults = {}

At(r, pc) == req[r].pc = pc
Running == {r \in Request : req[r].pc \in {"running", "ending"}}
Holds(lock, r) == lock # <<>> /\ Head(lock) = r

------------------------------------------------------------------------------
\* get_workspace_manager

\* A chat or a resume of an approval the client has seen resolves its workspace
\* and takes the cached manager; if there is none, the lock decides who builds.
\* (A resume of what is decided already is answered before.)
Arrive(r, kind) ==
    /\ At(r, "idle") /\ workspace # 0
    /\ kind = "resume" =>
           thread[workspace] = "asking" /\ outcome[workspace] # "terminal"
    /\ LET resolved == [kind |-> kind, pc |-> "open", ws |-> workspace, mgr |-> cached]
       IN  IF cached # 0
           THEN /\ req' = [req EXCEPT ![r] = resolved]
                /\ UNCHANGED managerLock
           ELSE /\ req' = [req EXCEPT ![r] = [resolved EXCEPT
                              !.pc = IF managerLock = <<>> THEN "building" ELSE "waiting"]]
                /\ managerLock' = Append(managerLock, r)
    /\ UNCHANGED <<workspace, leftover, issued, cached, runsLock, thread, row, outcome,
                   restarts, faults>>

\* The lock is granted; somebody may have built the manager meanwhile.
ManagerGranted(r) ==
    /\ At(r, "waiting") /\ Holds(managerLock, r)
    /\ IF cached # 0
       THEN /\ req' = [req EXCEPT ![r].pc = "open", ![r].mgr = cached]
            /\ managerLock' = Tail(managerLock)
       ELSE /\ req' = [req EXCEPT ![r].pc = "building"]
            /\ UNCHANGED managerLock
    /\ UNCHANGED <<workspace, leftover, issued, cached, runsLock, thread, row, outcome,
                   restarts, faults>>

\* init_all returns: the manager of the workspace that was resolved is cached.
ManagerBuilt(r) ==
    /\ At(r, "building")
    /\ cached' = req[r].ws
    /\ req' = [req EXCEPT ![r].pc = "open", ![r].mgr = req[r].ws]
    /\ managerLock' = Tail(managerLock)
    /\ UNCHANGED <<workspace, leftover, issued, runsLock, thread, row, outcome, restarts, faults>>

------------------------------------------------------------------------------
\* chat

\* Refused while the thread asks for an approval, before and under the thread's
\* coordinator lock, which a run of that thread holds.
ChatOpens(r) ==
    /\ At(r, "open") /\ req[r].kind = "chat"
    /\ req' = [req EXCEPT ![r] = IF thread[req[r].ws] = "asking" THEN Idle
                                 ELSE [@ EXCEPT !.pc = "turn"]]
    /\ UNCHANGED <<workspace, leftover, issued, cached, managerLock, runsLock, thread, row,
                   outcome, restarts, faults>>

\* The turn previews a change, which its manager's change service stores, and is
\* interrupted for approval (bound: once in each generation) ...
TurnAsks(r) ==
    /\ At(r, "turn") /\ thread[req[r].ws] = "fresh"
    /\ thread' = [thread EXCEPT ![req[r].ws] = "asking"]
    /\ row' = [row EXCEPT ![req[r].ws] = req[r].mgr]
    /\ req' = [req EXCEPT ![r] = Idle]
    /\ UNCHANGED <<workspace, leftover, issued, cached, managerLock, runsLock, outcome,
                   restarts, faults>>

\* ... or ends.
TurnEnds(r) ==
    /\ At(r, "turn")
    /\ req' = [req EXCEPT ![r] = Idle]
    /\ UNCHANGED <<workspace, leftover, issued, cached, managerLock, runsLock, thread, row,
                   outcome, restarts, faults>>

------------------------------------------------------------------------------
\* resume

ResumeQueues(r) ==
    /\ At(r, "open") /\ req[r].kind = "resume"
    /\ runsLock' = Append(runsLock, r)
    /\ req' = [req EXCEPT ![r].pc = "guard"]
    /\ UNCHANGED <<workspace, leftover, issued, cached, managerLock, thread, row, outcome,
                   restarts, faults>>

\* Mistaken: the workspace is not looked up again.
ChangedUnchecked(g) == FALSE

\* current_workspace.generation != workspace.generation
Changed(g) == workspace # g

\* With the lock: give up if the workspace changed, join a run there is already,
\* reconcile an outcome without a run; else read the checkpoint.
ResumeEnters(r) ==
    LET g == req[r].ws
        joined == \E s \in Running : req[s].ws = g
    IN  /\ At(r, "guard") /\ req[r].kind = "resume" /\ Holds(runsLock, r)
        /\ IF Changed(g) \/ joined \/ outcome[g] = "applying"
           THEN /\ req' = [req EXCEPT ![r] = Idle]
                /\ runsLock' = Tail(runsLock)
                /\ outcome' = IF ~Changed(g) /\ ~joined /\ outcome[g] = "applying"
                              THEN [outcome EXCEPT ![g] = "terminal"] ELSE outcome
           ELSE /\ req' = [req EXCEPT ![r].pc = "pending"]
                /\ UNCHANGED <<runsLock, outcome>>
        /\ UNCHANGED <<workspace, leftover, issued, cached, managerLock, thread, row,
                       restarts, faults>>

\* The checkpoint still asks, and the proposal is found in the workspace's
\* generation and has no outcome: it is claimed and its run registered.
ResumeClaims(r) ==
    LET g == req[r].ws
    IN  /\ At(r, "pending")
        /\ IF thread[g] = "asking" /\ row[g] = g /\ outcome[g] = "absent"
           THEN /\ outcome' = [outcome EXCEPT ![g] = "applying"]
                /\ req' = [req EXCEPT ![r].pc = "running"]
           ELSE /\ req' = [req EXCEPT ![r] = Idle]
                /\ UNCHANGED outcome
        /\ runsLock' = Tail(runsLock)
        /\ UNCHANGED <<workspace, leftover, issued, cached, managerLock, thread, row,
                       restarts, faults>>

Fails(f) == f \in Fault \ faults /\ faults' = faults \union {f}

\* The run has replayed the node and records its outcome, or fails to.
RunConcludes(r) ==
    LET g == req[r].ws
    IN  /\ At(r, "running")
        /\ thread' = [thread EXCEPT ![g] = "resolved"]
        /\ \/ outcome' = [outcome EXCEPT ![g] = "terminal"] /\ UNCHANGED faults
           \/ Fails("outcome") /\ UNCHANGED outcome
        /\ req' = [req EXCEPT ![r].pc = "ending"]
        /\ runsLock' = Append(runsLock, r)
        /\ UNCHANGED <<workspace, leftover, issued, cached, managerLock, row, restarts>>

RunLeaves(r) ==
    /\ At(r, "ending") /\ Holds(runsLock, r)
    /\ req' = [req EXCEPT ![r] = Idle]
    /\ runsLock' = Tail(runsLock)
    /\ UNCHANGED <<workspace, leftover, issued, cached, managerLock, thread, row, outcome,
                   restarts, faults>>

------------------------------------------------------------------------------
\* create_workspace, add_repository and delete_workspace

Create ==
    /\ workspace = 0 /\ issued < MaxGeneration
    /\ workspace' = issued + 1 /\ issued' = issued + 1
    /\ leftover' = 0
    /\ UNCHANGED <<cached, managerLock, runsLock, req, thread, row, outcome,
                   restarts, faults>>

GuardQueues(r, kind) ==
    /\ At(r, "idle")
    /\ req' = [req EXCEPT ![r] = [Idle EXCEPT !.kind = kind, !.pc = "guard"]]
    /\ runsLock' = Append(runsLock, r)
    /\ UNCHANGED <<workspace, leftover, issued, cached, managerLock, thread, row, outcome,
                   restarts, faults>>

\* Mistaken: the lock alone is trusted to keep runs out.
BusyIgnored == FALSE

\* workspace_lifecycle_guard: an active run of the workspace.
Busy == Running # {}

\* 409 or 404.
GuardRefuses(r) ==
    /\ At(r, "guard") /\ req[r].kind \in {"change", "delete"} /\ Holds(runsLock, r)
    /\ Busy \/ workspace = 0
    /\ req' = [req EXCEPT ![r] = Idle]
    /\ runsLock' = Tail(runsLock)
    /\ UNCHANGED <<workspace, leftover, issued, cached, managerLock, thread, row, outcome,
                   restarts, faults>>

\* Mistaken: when the manager lock is taken, nobody waits for it.
InvalidateUnlocked(r) ==
    /\ cached' = 0
    /\ req' = [req EXCEPT ![r].pc = "closing"]
    /\ UNCHANGED managerLock

\* invalidate_workspace_manager takes the manager lock, at once or in its turn.
Invalidate(r) ==
    IF managerLock = <<>>
    THEN /\ cached' = 0
         /\ req' = [req EXCEPT ![r].pc = "closing"]
         /\ UNCHANGED managerLock
    ELSE /\ req' = [req EXCEPT ![r].pc = "invalidate"]
         /\ managerLock' = Append(managerLock, r)
         /\ UNCHANGED cached

\* The registry changes, then the manager is invalidated; both locks in order.
GuardEnters(r) ==
    /\ At(r, "guard") /\ Holds(runsLock, r)
    /\ ~Busy /\ workspace # 0
    /\ \/ /\ req[r].kind = "delete"
          /\ workspace' = 0 /\ UNCHANGED issued
       \/ /\ req[r].kind = "change" /\ issued < MaxGeneration
          /\ workspace' = issued + 1 /\ issued' = issued + 1
    /\ Invalidate(r)
    /\ UNCHANGED <<leftover, runsLock, thread, row, outcome, restarts, faults>>

\* rmtree fails: the registry has forgotten the workspace, and its manager stays.
DeleteFails(r) ==
    /\ At(r, "guard") /\ req[r].kind = "delete" /\ Holds(runsLock, r)
    /\ ~Busy /\ workspace # 0
    /\ workspace' = 0 /\ leftover' = workspace
    /\ Fails("removal")
    /\ req' = [req EXCEPT ![r] = Idle]
    /\ runsLock' = Tail(runsLock)
    /\ UNCHANGED <<issued, cached, managerLock, thread, row, outcome, restarts>>

\* add_repository rejects the repository: 409 or 422.
ChangeRejected(r) ==
    /\ At(r, "guard") /\ req[r].kind = "change" /\ Holds(runsLock, r)
    /\ ~Busy /\ workspace # 0
    /\ req' = [req EXCEPT ![r] = Idle]
    /\ runsLock' = Tail(runsLock)
    /\ UNCHANGED <<workspace, leftover, issued, cached, managerLock, thread, row, outcome,
                   restarts, faults>>

InvalidateGranted(r) ==
    /\ At(r, "invalidate") /\ Holds(managerLock, r)
    /\ cached' = 0
    /\ managerLock' = Tail(managerLock)
    /\ req' = [req EXCEPT ![r].pc = "closing"]
    /\ UNCHANGED <<workspace, leftover, issued, runsLock, thread, row, outcome, restarts, faults>>

\* Mistaken: the guard keeps its lock.
ClosedStillLocked(r) ==
    /\ At(r, "closing")
    /\ req' = [req EXCEPT ![r] = Idle]
    /\ UNCHANGED <<workspace, leftover, issued, cached, managerLock, runsLock, thread, row,
                   outcome, restarts, faults>>

\* manager.shutdown() has returned: the guard is left.
Closed(r) ==
    /\ At(r, "closing")
    /\ req' = [req EXCEPT ![r] = Idle]
    /\ runsLock' = Tail(runsLock)
    /\ UNCHANGED <<workspace, leftover, issued, cached, managerLock, thread, row, outcome,
                   restarts, faults>>

------------------------------------------------------------------------------
\* reconcile_applying, for the generation the registry has loaded.
Recover(known) ==
    [g \in Issuable |-> IF g = known /\ outcome[g] = "applying"
                          THEN "terminal" ELSE outcome[g]]

\* The engine stops, wherever it is, and starts again; a directory that was not
\* deleted may still hold the workspace.
Restart ==
    /\ restarts < MaxRestarts
    /\ restarts' = restarts + 1
    /\ cached' = 0
    /\ managerLock' = <<>> /\ runsLock' = <<>>
    /\ req' = [r \in Request |-> Idle]
    /\ workspace' \in (IF workspace # 0 THEN {workspace} ELSE {0, leftover})
    /\ leftover' = 0
    /\ outcome' = Recover(workspace')
    /\ UNCHANGED <<issued, thread, row, faults>>

\* What a request under way does next, unless it waits for a lock.
Proceeds(r) ==
    \/ ManagerGranted(r) \/ ManagerBuilt(r)
    \/ ChatOpens(r) \/ TurnEnds(r)
    \/ ResumeQueues(r) \/ ResumeEnters(r) \/ ResumeClaims(r)
    \/ RunConcludes(r) \/ RunLeaves(r)
    \/ GuardRefuses(r) \/ GuardEnters(r) \/ DeleteFails(r) \/ ChangeRejected(r)
    \/ InvalidateGranted(r) \/ Closed(r)

Next ==
    \/ Create \/ Restart
    \/ \E r \in Request :
        \/ Proceeds(r) \/ TurnAsks(r)
        \/ \E kind \in {"chat", "resume"} : Arrive(r, kind)
        \/ \E kind \in {"change", "delete"} : GuardQueues(r, kind)

Spec == Init /\ [][Next]_vars

\* The event loop serves every request that can go on.
FairSpec == Spec /\ \A r \in Request : WF_vars(Proceeds(r))

------------------------------------------------------------------------------
\* An approval run works on the workspace as it is registered, with a manager
\* built for it, until it has left: neither a change nor a deletion slips in
\* between its checks and its end (workspace_lifecycle_guard, resume).
RunIsCurrent ==
    \A r \in Running : req[r].ws = workspace /\ req[r].mgr = workspace

\* The manager that is cached is the workspace's, unless the invalidation of its
\* predecessor still waits for the lock (get_ and invalidate_workspace_manager),
\* or the deletion failed half-way, which skips it.
CacheIsCurrent ==
    cached # 0 => \/ cached = workspace
                  \/ \E r \in Request : At(r, "invalidate")
                  \/ "removal" \in faults

\* Recovery at the next start will find every undecided outcome, because the
\* generation it is stored under is the registered one (_runtime_lifespan looks
\* at no other); only an outcome that could not be persisted escapes.
OutcomeIsReachable ==
    "outcome" \notin faults => \A g \in Issuable : outcome[g] = "applying" => g = workspace

\* A request's manager serves the workspace the request has resolved: so says
\* the test of a repository added while a manager is initialised.
ManagerServesRequest ==
    \A r \in Request : req[r].mgr # 0 => req[r].mgr = req[r].ws

\* Every request is answered: the two locks, taken in both orders of arrival,
\* never leave requests waiting for each other.
EveryRequestEnds == \A r \in Request : ~At(r, "idle") ~> At(r, "idle")
==============================================================================
