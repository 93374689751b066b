------------------------------ MODULE TaskQueue --------------------------------
(***************************************************************************)
(* The pull-mode task queue (engine/core/scheduler/task_queue.py), its     *)
(* distributed lock (task_lock.py) and the HTTP interface (api/tasks.py).  *)
(*                                                                         *)
(* Redis holds a list of task ids, a lock with a time to live and a state  *)
(* for each task; every Lua script and every list command is one step.     *)
(* The engine holds an entry and a heartbeat coroutine for each task it    *)
(* has handed out.  Workers poll, work, and report; complete and fail take *)
(* a task id only, and no HTTP route offers them yet.                      *)
(*                                                                         *)
(* Time is counted in heartbeat intervals (60 s).  A lock lives for two of *)
(* them.  A period in which the engine served everything that was due is   *)
(* timely; one in which it did not is a stall, and stalls are bounded.     *)
(***************************************************************************)
EXTENDS Naturals, Sequences, FiniteSets

CONSTANTS
    Task, Worker,
    NoWorker,
    MaxSubmits,     \* bound: submissions (over HTTP, each id once)
    MaxTroubles     \* bound: intervals the engine misses, Redis commands that
                    \* fail and crashes of the engine, together

ASSUME NoWorkerAssumption == NoWorker \notin Worker
ASSUME QueueBounds == MaxSubmits \in Nat /\ MaxTroubles \in Nat

VARIABLES
    pending,        \* scheduler:queue:pending
    owner,          \* scheduler:lock:<id>, NoWorker when there is none
    ttl,            \* intervals until the lock expires
    state,          \* scheduler:state:<id>
    poll,           \* the poll request of each worker
    active,         \* _active_locks: the claim in hand, NoClaim when there is none
    beats,          \* heartbeat coroutines
    ending,         \* _finalize calls under way
    runs,           \* <<worker, task>>: told to run it and has not reported yet
    submitted, submits, claims, stalls, queueFaults, queueCrashes

queueVars == <<pending, owner, ttl, state, poll, active, beats, ending, runs,
               submitted, submits, claims, stalls, queueFaults, queueCrashes>>

submitVars == <<submitted, submits>>

TaskState == {"INIT", "CLAIMED", "RUNNING", "COMPLETED", "FAILED"}
Target == {"COMPLETED", "FAILED"}

\* A TaskLock object; each claim of a task has a number of its own.
Claim == [task : Task, by : Worker, n : Nat \ {0}]
NoClaim == [task |-> {}, by |-> NoWorker, n |-> 0]

\* _DEFAULT_LOCK_TTL_MS in heartbeat intervals.
LockTTL == 2

IdlePoll == [pc |-> "idle"]
PollStates == {IdlePoll} \union [pc : {"popped"}, task : Task]
                         \union [pc : {"claimed"}, lock : Claim]

QueueTypeOK ==
    /\ pending \in Seq(Task)
    /\ owner \in [Task -> Worker \union {NoWorker}]
    /\ ttl \in [Task -> 0..LockTTL]
    /\ \A t \in Task : owner[t] = NoWorker <=> ttl[t] = 0
    /\ state \in [Task -> TaskState]
    /\ poll \in [Worker -> PollStates]
    /\ active \in [Task -> Claim \union {NoClaim}]
    /\ beats \subseteq [lock : Claim, due : BOOLEAN]
    /\ ending \subseteq [lock : Claim, target : Target, decided : BOOLEAN]
    /\ runs \subseteq Worker \X Task
    /\ submitted \subseteq Task /\ submits \in 0..MaxSubmits
    /\ claims \in [Task -> Nat]
    /\ {stalls, queueFaults, queueCrashes} \subseteq 0..MaxTroubles

QueueInit ==
    /\ pending = <<>>
    /\ owner = [t \in Task |-> NoWorker] /\ ttl = [t \in Task |-> 0]
    /\ state = [t \in Task |-> "INIT"]
    /\ poll = [w \in Worker |-> IdlePoll]
    /\ active = [t \in Task |-> NoClaim]
    /\ beats = {} /\ ending = {} /\ runs = {}
    /\ submitted = {} /\ submits = 0 /\ claims = [t \in Task |-> 0]
    /\ stalls = 0 /\ queueFaults = 0 /\ queueCrashes = 0

------------------------------------------------------------------------------
\* The Lua scripts of task_lock.py

\* Mistaken: a worker that has work is refused, after the task was popped.
IdleMayClaim(l) == owner[l.task] = NoWorker /\ \A t \in Task : active[t].by # l.by

MayClaim(l) == owner[l.task] = NoWorker

\* Mistaken: SETNX without PEXPIRE.
ClaimForEver(l) ==
    /\ MayClaim(l)
    /\ owner' = [owner EXCEPT ![l.task] = l.by] /\ UNCHANGED ttl
    /\ state' = [state EXCEPT ![l.task] = "CLAIMED"]

\* _CLAIM_SCRIPT: takes a lock nobody holds, and resets the state.
ClaimScript(l) ==
    /\ MayClaim(l)
    /\ owner' = [owner EXCEPT ![l.task] = l.by]
    /\ ttl' = [ttl EXCEPT ![l.task] = LockTTL]
    /\ state' = [state EXCEPT ![l.task] = "CLAIMED"]

Holds(l) == owner[l.task] = l.by

\* The transitions _TRANSITION_SCRIPT lets through.
Legal(from, to) ==
    <<from, to>> \in {<<"INIT", "CLAIMED">>, <<"CLAIMED", "RUNNING">>, <<"CLAIMED", "FAILED">>,
                      <<"RUNNING", "COMPLETED">>, <<"RUNNING", "FAILED">>}

\* Otherwise transition raises: PermissionError or ValueError.
MayMove(l, target) == Holds(l) /\ Legal(state[l.task], target)

\* Mistaken: a renewal leaves the time to live as it is.
RenewsNothing(l) == ttl

\* _RENEW_SCRIPT, for the holder.
Renewed(l) == [ttl EXCEPT ![l.task] = LockTTL]

\* _RELEASE_SCRIPT: the holder deletes the lock, others leave it.
Release(l) ==
    IF Holds(l) THEN /\ owner' = [owner EXCEPT ![l.task] = NoWorker]
                     /\ ttl' = [ttl EXCEPT ![l.task] = 0]
                ELSE UNCHANGED <<owner, ttl>>

Trouble == stalls + queueFaults + queueCrashes < MaxTroubles
RedisFails == Trouble /\ queueFaults' = queueFaults + 1
RedisWorks == UNCHANGED queueFaults

------------------------------------------------------------------------------
\* POST /tasks/submit; RPUSH may fail, and nothing repeats it.
Submit(t) ==
    /\ submits < MaxSubmits
    /\ submits' = submits + 1 /\ submitted' = submitted \union {t}
    /\ \/ RedisWorks /\ pending' = Append(pending, t)
       \/ RedisFails /\ UNCHANGED pending
    /\ UNCHANGED <<owner, ttl, state, poll, active, beats, ending, runs, claims, stalls,
                   queueCrashes>>

\* poll_and_claim, three awaits: LPOP,
Pop(w) ==
    /\ poll[w] = IdlePoll /\ pending # <<>>
    /\ poll' = [poll EXCEPT ![w] = [pc |-> "popped", task |-> Head(pending)]]
    /\ pending' = Tail(pending)
    /\ UNCHANGED <<owner, ttl, state, active, beats, ending, runs, submitVars, claims, stalls,
                   queueFaults, queueCrashes>>

\* the claim (a task whose lock is held is skipped, and is no longer queued),
TryClaim(w) ==
    /\ poll[w].pc = "popped"
    /\ LET t == poll[w].task
           l == [task |-> t, by |-> w, n |-> claims[t] + 1]
       IN  \/ /\ RedisWorks /\ ClaimScript(l)
              /\ claims' = [claims EXCEPT ![t] = l.n]
              /\ poll' = [poll EXCEPT ![w] = [pc |-> "claimed", lock |-> l]]
           \/ /\ \/ RedisWorks /\ ~MayClaim(l)
                 \/ RedisFails
              /\ poll' = [poll EXCEPT ![w] = IdlePoll]
              /\ UNCHANGED <<owner, ttl, state, claims>>
    /\ UNCHANGED <<pending, active, beats, ending, runs, submitVars, stalls, queueCrashes>>

\* and the transition to RUNNING, after which the heartbeat starts.
Begin(w) ==
    /\ poll[w].pc = "claimed"
    /\ LET l == poll[w].lock
       IN  \/ /\ RedisWorks /\ MayMove(l, "RUNNING")
              /\ state' = [state EXCEPT ![l.task] = "RUNNING"]
              /\ active' = [active EXCEPT ![l.task] = l]
              /\ beats' = beats \union {[lock |-> l, due |-> FALSE]}
              /\ runs' = runs \union {<<w, l.task>>}
           \/ /\ \/ RedisWorks /\ ~MayMove(l, "RUNNING")
                 \/ RedisFails
              /\ UNCHANGED <<state, active, beats, runs>>
    /\ poll' = [poll EXCEPT ![w] = IdlePoll]
    /\ UNCHANGED <<pending, owner, ttl, ending, submitVars, claims, stalls, queueCrashes>>

------------------------------------------------------------------------------
\* _heartbeat_loop after its sleep: it goes on as long as renewals succeed, and
\* ends for good when Redis raises.
Beat(b) ==
    /\ b \in beats /\ b.due
    /\ \/ /\ RedisWorks /\ Holds(b.lock)
          /\ ttl' = Renewed(b.lock)
          /\ beats' = (beats \ {b}) \union {[b EXCEPT !.due = FALSE]}
       \/ /\ \/ RedisWorks /\ ~Holds(b.lock)
             \/ RedisFails
          /\ beats' = beats \ {b}
          /\ UNCHANGED ttl
    /\ UNCHANGED <<pending, owner, state, poll, active, ending, runs, submitVars, claims,
                   stalls, queueCrashes>>

\* _finalize: the entry of the task is taken out, whoever reports;
Report(w, t, target) ==
    /\ <<w, t>> \in runs
    /\ runs' = runs \ {<<w, t>>}
    /\ IF active[t] = NoClaim
       THEN UNCHANGED <<active, ending>>                  \* KeyError
       ELSE /\ active' = [active EXCEPT ![t] = NoClaim]
            /\ ending' = ending \union
                   {[lock |-> active[t], target |-> target, decided |-> FALSE]}
    /\ UNCHANGED <<pending, owner, ttl, state, poll, beats, submitVars, claims, stalls,
                   queueFaults, queueCrashes>>

\* the state moves, or the call ends here, with lock and heartbeat as they are;
Decide(f) ==
    /\ f \in ending /\ ~f.decided
    /\ \/ /\ RedisWorks /\ MayMove(f.lock, f.target)
          /\ state' = [state EXCEPT ![f.lock.task] = f.target]
          /\ ending' = (ending \ {f}) \union {[f EXCEPT !.decided = TRUE]}
       \/ /\ \/ RedisWorks /\ ~MayMove(f.lock, f.target)
             \/ RedisFails
          /\ ending' = ending \ {f}
          /\ UNCHANGED state
    /\ UNCHANGED <<pending, owner, ttl, poll, active, beats, runs, submitVars, claims, stalls,
                   queueCrashes>>

\* Mistaken: the lock goes, its heartbeat stays.
HeartbeatStays(l) == beats

\* hb_task.cancel()
Cancelled(l) == {b \in beats : b.lock # l}

\* the lock is released and the heartbeat cancelled.
Conclude(f) ==
    /\ f \in ending /\ f.decided
    /\ ending' = ending \ {f}
    /\ \/ RedisWorks /\ Release(f.lock) /\ beats' = Cancelled(f.lock)
       \/ RedisFails /\ UNCHANGED <<owner, ttl, beats>>
    /\ UNCHANGED <<pending, state, poll, active, runs, submitVars, claims, stalls, queueCrashes>>

------------------------------------------------------------------------------
\* Something the engine should have done within the interval.
Late == \/ \E b \in beats : b.due
        \/ \E w \in Worker : poll[w] # IdlePoll
        \/ ending # {}

\* An interval passes: locks age and expire, and heartbeats become due.
Tick ==
    /\ beats # {} \/ \E t \in Task : owner[t] # NoWorker
    /\ IF Late THEN Trouble /\ stalls' = stalls + 1 ELSE UNCHANGED stalls
    /\ ttl' = [t \in Task |-> IF ttl[t] = 0 THEN 0 ELSE ttl[t] - 1]
    /\ owner' = [t \in Task |-> IF ttl[t] = 1 THEN NoWorker ELSE owner[t]]
    /\ beats' = {[b EXCEPT !.due = TRUE] : b \in beats}
    /\ UNCHANGED <<pending, state, poll, active, ending, runs, submitVars, claims,
                   queueFaults, queueCrashes>>

\* The engine goes down and comes up again: Redis stays, and so do the workers.
EngineCrash ==
    /\ Trouble
    /\ queueCrashes' = queueCrashes + 1
    /\ poll' = [w \in Worker |-> IdlePoll]
    /\ active' = [t \in Task |-> NoClaim]
    /\ beats' = {} /\ ending' = {}
    /\ UNCHANGED <<pending, owner, ttl, state, runs, submitVars, claims, stalls, queueFaults>>

\* What the engine does without being asked.
QueueServes ==
    \/ \E w \in Worker : TryClaim(w) \/ Begin(w)
    \/ \E b \in beats : Beat(b)
    \/ \E f \in ending : Decide(f) \/ Conclude(f)

QueueNext ==
    \/ \E t \in Task : Submit(t)
    \/ \E w \in Worker : Pop(w) \/ TryClaim(w) \/ Begin(w)
    \/ \E b \in beats : Beat(b)
    \/ \E f \in ending : Decide(f) \/ Conclude(f)
    \/ \E w \in Worker, t \in Task, target \in Target : Report(w, t, target)
    \/ Tick \/ EngineCrash

\* The event loop serves what is ready and time passes; users and workers are free.
QueueFairness == WF_queueVars(QueueServes) /\ WF_queueVars(Tick)

QueueSpec == QueueInit /\ [][QueueNext]_queueVars /\ QueueFairness

------------------------------------------------------------------------------
Calm == stalls = 0 /\ queueFaults = 0 /\ queueCrashes = 0

\* While the engine keeps up and Redis answers, a task is run by one worker at a
\* time, however often it is submitted; its heartbeat keeps the lock for it and
\* ends with it (_heartbeat_loop against the time to live; _finalize).
RunsAlone ==
    Calm => /\ \A t \in Task : Cardinality({w \in Worker : <<w, t>> \in runs}) <= 1
            /\ \A b \in beats : /\ Holds(b.lock)
                                /\ \/ active[b.lock.task] = b.lock
                                   \/ \E f \in ending : f.lock = b.lock

\* A task that was submitted and never claimed still waits in the list or is in
\* the hands of a poll; only a crash or a failed command between LPOP and claim
\* loses it (poll_and_claim).
LostForAReason ==
    queueFaults = 0 /\ queueCrashes = 0 =>
        \A t \in submitted :
            \/ claims[t] > 0
            \/ \E i \in DOMAIN pending : pending[i] = t
            \/ \E w \in Worker : poll[w] = [pc |-> "popped", task |-> t]

\* A lock nobody renews is given up, whatever happened to its holder: it expires,
\* and the task can be claimed again (PEXPIRE).
AbandonedLockFrees ==
    \A t \in Task :
        LET Beaten == \E b \in beats : b.lock.task = t
        IN  (owner[t] # NoWorker /\ ~Beaten) ~> (owner[t] = NoWorker \/ Beaten)
==============================================================================
