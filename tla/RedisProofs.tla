------------------------------- MODULE RedisProofs -------------------------------
(***************************************************************************)
(* What lives in Redis: the task queue with its locks, and the memory      *)
(* streams, for any workers, tasks, instances, streams and bounds.         *)
(*                                                                         *)
(* TaskQueue: while the engine keeps up and Redis answers, a task is run   *)
(* by one worker; no submission is lost between the pop and the claim but  *)
(* for a reason.  MemoryStream: a record is stored at most once, and what  *)
(* is acknowledged is stored.                                              *)
(***************************************************************************)
EXTENDS TaskQueue, MemoryStream, FiniteSetTheorems, TLAPS

TroublesTyped == {stalls, queueFaults, queueCrashes} \subseteq 0..MaxTroubles

\* A claim whose worker has not been told: nothing else is at the task.
ClaimedInv(w, l) ==
    /\ l.by = w /\ Holds(l) /\ ttl[l.task] = LockTTL
    /\ state[l.task] = "CLAIMED" /\ active[l.task] = NoClaim
    /\ \A b \in beats : b.lock.task # l.task
    /\ \A f \in ending : f.lock.task # l.task

PollsInv == \A w \in Worker : poll[w].pc = "claimed" => ClaimedInv(w, poll[w].lock)

\* An entry of the engine: its lock is held, and nothing is ending.
ActiveInv ==
    \A t \in Task : active[t] # NoClaim =>
        /\ active[t].task = t /\ Holds(active[t]) /\ state[t] = "RUNNING"
        /\ \A f \in ending : f.lock.task # t

EndingInv ==
    \A f \in ending :
        /\ Holds(f.lock) /\ active[f.lock.task] = NoClaim
        /\ ~f.decided => state[f.lock.task] = "RUNNING"
        /\ \A g \in ending : g.lock.task = f.lock.task => g = f

\* A heartbeat keeps its lock alive, and belongs to a claim.
BeatsInv ==
    \A b \in beats :
        /\ Holds(b.lock)
        /\ b.due => ttl[b.lock.task] > 0
        /\ ~b.due => ttl[b.lock.task] = LockTTL
        /\ \/ active[b.lock.task] = b.lock
           \/ \E f \in ending : f.lock = b.lock

RunsInv == \A w \in Worker, t \in Task :
               <<w, t>> \in runs => active[t] # NoClaim /\ active[t].by = w

\* A lock that is held is renewed, or its claim is in the hands of a poll.
LocksTended ==
    \A t \in Task : owner[t] # NoWorker =>
        \/ \E b \in beats : b.lock.task = t
        \/ \E w \in Worker : poll[w].pc = "claimed" /\ poll[w].lock.task = t

CalmInv == PollsInv /\ ActiveInv /\ EndingInv /\ BeatsInv /\ RunsInv /\ LocksTended

LostInv == LostForAReason /\ \A t \in Task : owner[t] # NoWorker => claims[t] > 0

QueueInv == QueueTypeOK /\ (Calm => CalmInv) /\ LostInv

------------------------------------------------------------------------------
LEMMA PollIs ==
    ASSUME QueueTypeOK, NEW w \in Worker
    PROVE  /\ poll[w] \in PollStates
           /\ poll[w].pc = "popped" => poll[w].task \in Task
           /\ poll[w].pc = "claimed" => poll[w].lock \in Claim
           /\ poll[w].pc = "claimed" => poll[w].lock.task \in Task /\ poll[w].lock.by \in Worker
<1>1. poll[w] \in PollStates
  BY DEF QueueTypeOK
<1> QED BY <1>1 DEF PollStates, IdlePoll, Claim

LEMMA ClaimsAre ==
    /\ NoClaim \notin Claim
    /\ \A l \in Claim : l.task \in Task /\ l.by \in Worker /\ l.by # NoWorker
  BY NoWorkerAssumption DEF NoClaim, Claim

\* A step that only waits for Redis.
LEMMA RedisStep ==
    ASSUME TroublesTyped, RedisWorks \/ RedisFails, UNCHANGED <<stalls, queueCrashes>>
    PROVE  TroublesTyped' /\ (Calm' => Calm /\ RedisWorks) /\ (queueFaults' = 0 => RedisWorks)
  BY QueueBounds DEF TroublesTyped, RedisWorks, RedisFails, Trouble, Calm

LEMMA QueueStarts == QueueInit => QueueInv
<1> SUFFICES ASSUME QueueInit PROVE QueueInv
  OBVIOUS
<1>1. IdlePoll \in PollStates /\ IdlePoll.pc = "idle"
  BY DEF PollStates, IdlePoll
<1>2. QueueTypeOK
  <2>1. owner = [t \in Task |-> NoWorker] /\ ttl = [t \in Task |-> 0]
    BY DEF QueueInit
  <2> QED BY <1>1, <2>1, QueueBounds DEF QueueInit, QueueTypeOK, TaskState, LockTTL
<1>3. PollsInv /\ ActiveInv /\ LocksTended
  BY <1>1 DEF QueueInit, PollsInv, ActiveInv, LocksTended
<1>4. EndingInv /\ BeatsInv /\ RunsInv
  BY DEF QueueInit, EndingInv, BeatsInv, RunsInv
<1>5. LostInv
  BY DEF QueueInit, LostInv, LostForAReason
<1> QED BY <1>2, <1>3, <1>4, <1>5 DEF QueueInv, CalmInv

------------------------------------------------------------------------------
\* Types

LEMMA SubmitTyped == ASSUME QueueTypeOK, NEW t \in Task, Submit(t) PROVE QueueTypeOK'
<1>1. TroublesTyped'
  BY RedisStep DEF Submit, QueueTypeOK, TroublesTyped
<1>2. pending' \in Seq(Task)
  <2>1. pending \in Seq(Task) /\ Append(pending, t) \in Seq(Task)
    BY DEF QueueTypeOK
  <2>2. pending' = Append(pending, t) \/ pending' = pending
    BY DEF Submit
  <2> QED BY <2>1, <2>2
<1>3. submits' \in 0..MaxSubmits /\ submitted' \subseteq Task
  BY QueueBounds DEF Submit, QueueTypeOK
<1>4. UNCHANGED <<owner, ttl, state, poll, active, beats, ending, runs, claims>>
  BY DEF Submit
<1> QED BY <1>1, <1>2, <1>3, <1>4 DEF QueueTypeOK, TroublesTyped

LEMMA PollsTyped ==
    ASSUME QueueTypeOK, NEW w \in Worker, Pop(w) \/ TryClaim(w) \/ Begin(w)
    PROVE  QueueTypeOK'
<1>0. poll \in [Worker -> PollStates] /\ pending \in Seq(Task)
  BY DEF QueueTypeOK
<1>1. ASSUME Pop(w) PROVE QueueTypeOK'
  <2>1. pending # <<>> /\ Head(pending) \in Task /\ Tail(pending) \in Seq(Task)
    BY <1>0, <1>1 DEF Pop
  <2>2. [pc |-> "popped", task |-> Head(pending)] \in PollStates
    BY <2>1 DEF PollStates
  <2>3. pending' \in Seq(Task) /\ poll' \in [Worker -> PollStates]
    BY <1>0, <1>1, <2>1, <2>2 DEF Pop
  <2>4. UNCHANGED <<owner, ttl, state, active, beats, ending, runs, submitted, submits, claims,
                    stalls, queueFaults, queueCrashes>>
    BY <1>1 DEF Pop, submitVars
  <2> QED BY <2>3, <2>4 DEF QueueTypeOK
<1>2. ASSUME TryClaim(w) PROVE QueueTypeOK'
  <2> DEFINE t == poll[w].task
             l == [task |-> t, by |-> w, n |-> claims[t] + 1]
  <2>1. t \in Task /\ l \in Claim /\ claims[t] + 1 \in Nat /\ l.n = claims[t] + 1
        /\ l.task = t /\ l.by = w /\ w # NoWorker
    <3>1. t \in Task /\ claims \in [Task -> Nat]
      BY <1>2, PollIs DEF TryClaim, QueueTypeOK
    <3>2. claims[t] + 1 \in Nat \ {0}
      BY <3>1
    <3> QED BY <3>1, <3>2, NoWorkerAssumption DEF Claim
  <2>2. TroublesTyped'
    BY <1>2, RedisStep DEF TryClaim, QueueTypeOK, TroublesTyped
  <2>3. UNCHANGED <<pending, active, beats, ending, runs, submitted, submits>>
    BY <1>2 DEF TryClaim, submitVars
  <2>4. CASE /\ RedisWorks /\ ClaimScript(l)
             /\ claims' = [claims EXCEPT ![t] = l.n]
             /\ poll' = [poll EXCEPT ![w] = [pc |-> "claimed", lock |-> l]]
    <3>1. [pc |-> "claimed", lock |-> l] \in PollStates
      BY <2>1 DEF PollStates
    <3> HIDE DEF t, l
    <3>2. poll' \in [Worker -> PollStates]
      BY <1>0, <2>4, <3>1
    <3>3. claims' \in [Task -> Nat]
      BY <2>1, <2>4 DEF QueueTypeOK
    <3>4. /\ owner' \in [Task -> Worker \union {NoWorker}] /\ ttl' \in [Task -> 0..LockTTL]
          /\ state' \in [Task -> TaskState]
          /\ \A u \in Task : owner'[u] = NoWorker <=> ttl'[u] = 0
      BY <2>1, <2>4 DEF ClaimScript, QueueTypeOK, LockTTL, TaskState
    <3> QED BY <2>2, <2>3, <3>2, <3>3, <3>4 DEF QueueTypeOK, TroublesTyped
  <2>5. CASE poll' = [poll EXCEPT ![w] = IdlePoll] /\ UNCHANGED <<owner, ttl, state, claims>>
    <3>1. poll' \in [Worker -> PollStates]
      BY <1>0, <2>5 DEF PollStates
    <3> QED BY <2>2, <2>3, <2>5, <3>1 DEF QueueTypeOK, TroublesTyped
  <2> QED BY <1>2, <2>4, <2>5 DEF TryClaim
<1>3. ASSUME Begin(w) PROVE QueueTypeOK'
  <2> DEFINE l == poll[w].lock
  <2>1. l \in Claim /\ l.task \in Task
    BY <1>3, PollIs DEF Begin
  <2>2. TroublesTyped'
    BY <1>3, RedisStep DEF Begin, QueueTypeOK, TroublesTyped
  <2>3. /\ poll' \in [Worker -> PollStates]
        /\ UNCHANGED <<pending, owner, ttl, ending, submitted, submits, claims>>
    BY <1>0, <1>3 DEF Begin, submitVars, PollStates
  <2>4. \/ /\ state' = [state EXCEPT ![l.task] = "RUNNING"]
           /\ active' = [active EXCEPT ![l.task] = l]
           /\ beats' = beats \union {[lock |-> l, due |-> FALSE]}
           /\ runs' = runs \union {<<w, l.task>>}
        \/ UNCHANGED <<state, active, beats, runs>>
    BY <1>3 DEF Begin
  <2> HIDE DEF l
  <2>5. state' \in [Task -> TaskState] /\ active' \in [Task -> Claim \union {NoClaim}]
    BY <2>1, <2>4, ZenonT(40) DEF QueueTypeOK, TaskState
  <2>6. beats' \subseteq [lock : Claim, due : BOOLEAN] /\ runs' \subseteq Worker \X Task
    <3>1. [lock |-> l, due |-> FALSE] \in [lock : Claim, due : BOOLEAN] /\ <<w, l.task>> \in Worker \X Task
      BY <2>1
    <3>2. beats \subseteq [lock : Claim, due : BOOLEAN] /\ runs \subseteq Worker \X Task
      BY DEF QueueTypeOK
    <3> QED BY <2>4, <3>1, <3>2, Zenon
  <2> QED BY <2>2, <2>3, <2>5, <2>6 DEF QueueTypeOK, TroublesTyped
<1> QED BY <1>1, <1>2, <1>3

LEMMA BeatTyped == ASSUME QueueTypeOK, NEW b \in beats, Beat(b) PROVE QueueTypeOK'
<1>1. b \in [lock : Claim, due : BOOLEAN] /\ b.lock \in Claim /\ b.lock.task \in Task
  BY ClaimsAre DEF QueueTypeOK
<1>2. TroublesTyped'
  BY RedisStep DEF Beat, QueueTypeOK, TroublesTyped
<1>3. UNCHANGED <<pending, owner, state, poll, active, ending, runs, submitted, submits, claims>>
  BY DEF Beat, submitVars
<1>4. beats' \subseteq [lock : Claim, due : BOOLEAN]
  <2>1. [b EXCEPT !.due = FALSE] \in [lock : Claim, due : BOOLEAN]
    BY <1>1
  <2>2. beats \subseteq [lock : Claim, due : BOOLEAN]
    BY DEF QueueTypeOK
  <2>3. beats' = (beats \ {b}) \union {[b EXCEPT !.due = FALSE]} \/ beats' = beats \ {b}
    BY DEF Beat
  <2> QED BY <2>1, <2>2, <2>3, Zenon
<1>5. /\ ttl' \in [Task -> 0..LockTTL]
      /\ \A t \in Task : owner[t] = NoWorker <=> ttl'[t] = 0
  <2>1. CASE Holds(b.lock) /\ ttl' = Renewed(b.lock)
    BY <1>1, <2>1, ClaimsAre DEF Holds, Renewed, QueueTypeOK, LockTTL
  <2>2. CASE UNCHANGED ttl
    BY <2>2 DEF QueueTypeOK
  <2> QED BY <2>1, <2>2 DEF Beat
<1> QED BY <1>2, <1>3, <1>4, <1>5 DEF QueueTypeOK, TroublesTyped

LEMMA EndingTyped ==
    ASSUME QueueTypeOK, NEW f \in ending, Decide(f) \/ Conclude(f)
    PROVE  QueueTypeOK'
<1>1. /\ f \in [lock : Claim, target : Target, decided : BOOLEAN] /\ f.lock.task \in Task
      /\ f.target \in TaskState
  BY ClaimsAre DEF QueueTypeOK, Target, TaskState
<1>2. TroublesTyped'
  BY RedisStep DEF Decide, Conclude, QueueTypeOK, TroublesTyped
<1>3. UNCHANGED <<pending, poll, active, runs, submitted, submits, claims>>
  BY DEF Decide, Conclude, submitVars
<1>4. ending' \subseteq [lock : Claim, target : Target, decided : BOOLEAN]
  <2>1. [f EXCEPT !.decided = TRUE] \in [lock : Claim, target : Target, decided : BOOLEAN]
    BY <1>1
  <2>2. ending \subseteq [lock : Claim, target : Target, decided : BOOLEAN]
    BY DEF QueueTypeOK
  <2>3. \/ ending' = (ending \ {f}) \union {[f EXCEPT !.decided = TRUE]}
        \/ ending' = ending \ {f}
    BY DEF Decide, Conclude
  <2> QED BY <2>1, <2>2, <2>3, Zenon
<1>5. state' \in [Task -> TaskState] /\ beats' \subseteq [lock : Claim, due : BOOLEAN]
  BY <1>1 DEF Decide, Conclude, QueueTypeOK, Cancelled
<1>6. /\ owner' \in [Task -> Worker \union {NoWorker}] /\ ttl' \in [Task -> 0..LockTTL]
      /\ \A t \in Task : owner'[t] = NoWorker <=> ttl'[t] = 0
  <2>1. CASE UNCHANGED <<owner, ttl>>
    BY <2>1 DEF QueueTypeOK
  <2>2. CASE Release(f.lock)
    <3>1. /\ owner \in [Task -> Worker \union {NoWorker}] /\ ttl \in [Task -> 0..LockTTL]
          /\ \A t \in Task : owner[t] = NoWorker <=> ttl[t] = 0
      BY DEF QueueTypeOK
    <3>2. \/ /\ owner' = [owner EXCEPT ![f.lock.task] = NoWorker]
             /\ ttl' = [ttl EXCEPT ![f.lock.task] = 0]
          \/ owner' = owner /\ ttl' = ttl
      BY <2>2 DEF Release
    <3> QED BY <1>1, <3>1, <3>2 DEF LockTTL
  <2> QED BY <2>1, <2>2 DEF Decide, Conclude
<1> QED BY <1>2, <1>3, <1>4, <1>5, <1>6 DEF QueueTypeOK, TroublesTyped

LEMMA ReportTyped ==
    ASSUME QueueTypeOK, NEW w \in Worker, NEW t \in Task, NEW target \in Target, Report(w, t, target)
    PROVE  QueueTypeOK'
<1>1. UNCHANGED <<pending, owner, ttl, state, poll, beats, submitted, submits, claims, stalls,
                  queueFaults, queueCrashes>>
  BY DEF Report, submitVars
<1>2. /\ active' \in [Task -> Claim \union {NoClaim}]
      /\ ending' \subseteq [lock : Claim, target : Target, decided : BOOLEAN]
      /\ runs' \subseteq Worker \X Task
  <2>1. CASE active[t] = NoClaim
    BY <2>1 DEF Report, QueueTypeOK
  <2>2. CASE active[t] # NoClaim
    <3>1. active[t] \in Claim
      BY <2>2 DEF QueueTypeOK
    <3>2. /\ active' = [active EXCEPT ![t] = NoClaim] /\ runs' = runs \ {<<w, t>>}
          /\ ending' = ending \union {[lock |-> active[t], target |-> target, decided |-> FALSE]}
      BY <2>2 DEF Report
    <3>3. [lock |-> active[t], target |-> target, decided |-> FALSE]
              \in [lock : Claim, target : Target, decided : BOOLEAN]
      BY <3>1
    <3>4. /\ active \in [Task -> Claim \union {NoClaim}] /\ runs \subseteq Worker \X Task
          /\ ending \subseteq [lock : Claim, target : Target, decided : BOOLEAN]
      BY DEF QueueTypeOK
    <3>5. ending' \subseteq [lock : Claim, target : Target, decided : BOOLEAN]
      BY <3>2, <3>3, <3>4, Zenon
    <3> QED BY <3>2, <3>4, <3>5
  <2> QED BY <2>1, <2>2
<1> QED BY <1>1, <1>2 DEF QueueTypeOK

LEMMA TickTyped == ASSUME QueueTypeOK, Tick PROVE QueueTypeOK'
<1>1. UNCHANGED <<pending, state, poll, active, ending, runs, submitted, submits, claims>>
  BY DEF Tick, submitVars
<1>2. TroublesTyped'
  BY QueueBounds DEF Tick, Trouble, QueueTypeOK, TroublesTyped
<1>3. beats' \subseteq [lock : Claim, due : BOOLEAN]
  BY ZenonT(40) DEF Tick, QueueTypeOK
<1>4. /\ ttl' = [t \in Task |-> IF ttl[t] = 0 THEN 0 ELSE ttl[t] - 1]
      /\ owner' = [t \in Task |-> IF ttl[t] = 1 THEN NoWorker ELSE owner[t]]
  BY DEF Tick
<1>5. /\ ttl' \in [Task -> 0..LockTTL] /\ owner' \in [Task -> Worker \union {NoWorker}]
      /\ \A t \in Task : owner'[t] = NoWorker <=> ttl'[t] = 0
  BY <1>4 DEF QueueTypeOK, LockTTL
<1> QED BY <1>1, <1>2, <1>3, <1>5 DEF QueueTypeOK, TroublesTyped

LEMMA EngineCrashTyped == ASSUME QueueTypeOK, EngineCrash PROVE QueueTypeOK'
<1>1. UNCHANGED <<pending, owner, ttl, state, runs, submitted, submits, claims, stalls, queueFaults>>
  BY DEF EngineCrash, submitVars
<1>2. TroublesTyped'
  BY QueueBounds DEF EngineCrash, Trouble, QueueTypeOK, TroublesTyped
<1>3. /\ poll' \in [Worker -> PollStates] /\ active' \in [Task -> Claim \union {NoClaim}]
      /\ beats' = {} /\ ending' = {}
  BY DEF EngineCrash, PollStates
<1> QED BY <1>1, <1>2, <1>3 DEF QueueTypeOK, TroublesTyped

LEMMA QueueTypeStep == ASSUME QueueTypeOK, QueueNext PROVE QueueTypeOK'
  BY SubmitTyped, PollsTyped, BeatTyped, EndingTyped, ReportTyped, TickTyped, EngineCrashTyped
     DEF QueueNext

------------------------------------------------------------------------------
\* Calm

\* The types that the proofs below use.
LEMMA QueueTypes ==
    ASSUME QueueTypeOK
    PROVE  /\ owner \in [Task -> Worker \union {NoWorker}] /\ ttl \in [Task -> 0..LockTTL]
           /\ \A t \in Task : owner[t] = NoWorker <=> ttl[t] = 0
           /\ state \in [Task -> TaskState] /\ poll \in [Worker -> PollStates]
           /\ active \in [Task -> Claim \union {NoClaim}]
           /\ \A b \in beats : b.lock \in Claim /\ b.lock.task \in Task /\ b.lock.by \in Worker
           /\ \A f \in ending : f.lock \in Claim /\ f.lock.task \in Task /\ f.lock.by \in Worker
           /\ runs \subseteq Worker \X Task
           /\ TroublesTyped
  BY ClaimsAre DEF QueueTypeOK, TroublesTyped

LEMMA SubmitCalm ==
    ASSUME CalmInv, NEW t \in Task, Submit(t)
    PROVE  CalmInv'
<1>1. UNCHANGED <<owner, ttl, state, poll, active, beats, ending, runs>>
  BY DEF Submit
<1> QED BY <1>1 DEF CalmInv, PollsInv, ClaimedInv, ActiveInv, EndingInv, BeatsInv, RunsInv, LocksTended, Holds

LEMMA PopCalm ==
    ASSUME QueueTypeOK, CalmInv, NEW w \in Worker, Pop(w)
    PROVE  CalmInv'
<1>1. UNCHANGED <<owner, ttl, state, active, beats, ending, runs>>
  BY DEF Pop
<1>2. ActiveInv' /\ EndingInv' /\ BeatsInv' /\ RunsInv'
  BY <1>1 DEF CalmInv, ActiveInv, EndingInv, BeatsInv, RunsInv, Holds
<1>3. /\ poll \in [Worker -> PollStates] /\ poll[w] = IdlePoll
      /\ poll'[w] = [pc |-> "popped", task |-> Head(pending)]
      /\ \A v \in Worker : v # w => poll'[v] = poll[v]
  BY QueueTypes DEF Pop
<1>4. poll[w].pc # "claimed" /\ poll'[w].pc # "claimed"
  BY <1>3 DEF IdlePoll
<1>5. \A v \in Worker : poll'[v].pc = "claimed" => poll'[v] = poll[v]
  BY <1>3, <1>4
<1>6. PollsInv'
  BY <1>1, <1>5 DEF CalmInv, PollsInv, ClaimedInv, Holds
<1>7. LocksTended'
  BY <1>1, <1>3, <1>4 DEF CalmInv, LocksTended
<1> QED BY <1>2, <1>6, <1>7 DEF CalmInv

\* Nothing is at a task whose lock is free.
LEMMA FreeTask ==
    ASSUME QueueTypeOK, CalmInv, NEW t \in Task, owner[t] = NoWorker
    PROVE  /\ active[t] = NoClaim
           /\ \A b \in beats : b.lock.task # t
           /\ \A f \in ending : f.lock.task # t
           /\ \A w \in Worker : poll[w].pc = "claimed" => poll[w].lock.task # t
           /\ \A w \in Worker : <<w, t>> \notin runs
<1>1. \A l \in Claim : Holds(l) => l.task # t
  BY ClaimsAre DEF Holds
<1>2. active[t] = NoClaim
  <2>1. active[t] # NoClaim => active[t] \in Claim /\ Holds(active[t]) /\ active[t].task = t
    BY QueueTypes DEF CalmInv, ActiveInv
  <2> QED BY <1>1, <2>1
<1>3. /\ \A b \in beats : b.lock \in Claim /\ Holds(b.lock)
      /\ \A f \in ending : f.lock \in Claim /\ Holds(f.lock)
      /\ \A w \in Worker : poll[w].pc = "claimed" => poll[w].lock \in Claim /\ Holds(poll[w].lock)
  BY QueueTypes, PollIs DEF CalmInv, BeatsInv, EndingInv, PollsInv, ClaimedInv
<1> QED BY <1>1, <1>2, <1>3 DEF CalmInv, RunsInv

LEMMA TryClaimCalm ==
    ASSUME QueueTypeOK, CalmInv, NEW w \in Worker, TryClaim(w), RedisWorks
    PROVE  CalmInv'
<1> DEFINE t == poll[w].task
           l == [task |-> t, by |-> w, n |-> claims[t] + 1]
<1>1. UNCHANGED <<active, beats, ending, runs>>
  BY DEF TryClaim
<1>2. poll[w].pc = "popped" /\ t \in Task /\ poll \in [Worker -> PollStates]
  BY PollIs, QueueTypes DEF TryClaim
<1>3. CASE /\ poll' = [poll EXCEPT ![w] = IdlePoll] /\ UNCHANGED <<owner, ttl, state>>
  <2>1. /\ poll'[w].pc # "claimed" /\ \A v \in Worker : v # w => poll'[v] = poll[v]
    BY <1>2, <1>3 DEF IdlePoll
  <2>2. \A v \in Worker : poll'[v].pc = "claimed" => poll'[v] = poll[v]
    BY <2>1
  <2>3. ActiveInv' /\ EndingInv' /\ BeatsInv' /\ RunsInv'
    BY <1>1, <1>3 DEF CalmInv, ActiveInv, EndingInv, BeatsInv, RunsInv, Holds
  <2>4. PollsInv'
    BY <1>1, <1>3, <2>2 DEF CalmInv, PollsInv, ClaimedInv, Holds
  <2>5. LocksTended'
    BY <1>1, <1>2, <1>3, <2>1 DEF CalmInv, LocksTended
  <2> QED BY <2>3, <2>4, <2>5 DEF CalmInv
<1>4. CASE /\ ClaimScript(l) /\ poll' = [poll EXCEPT ![w] = [pc |-> "claimed", lock |-> l]]
  <2>0. l.task = t /\ l.by = w /\ owner[t] = NoWorker
    BY <1>4 DEF ClaimScript, MayClaim
  <2>1. /\ owner' = [owner EXCEPT ![t] = w] /\ ttl' = [ttl EXCEPT ![t] = LockTTL]
        /\ state' = [state EXCEPT ![t] = "CLAIMED"]
    BY <1>4, <2>0, Zenon DEF ClaimScript
  <2>2. /\ poll'[w].pc = "claimed" /\ poll'[w].lock = l
        /\ \A v \in Worker : v # w => poll'[v] = poll[v]
    BY <1>2, <1>4
  <2> HIDE DEF t, l
  <2>3. /\ owner'[t] = w /\ ttl'[t] = LockTTL /\ state'[t] = "CLAIMED"
        /\ \A u \in Task : u # t => owner'[u] = owner[u] /\ ttl'[u] = ttl[u] /\ state'[u] = state[u]
    BY <1>2, <2>1, QueueTypes
  <2>4. /\ active[t] = NoClaim
        /\ \A b \in beats : b.lock.task # t
        /\ \A f \in ending : f.lock.task # t
        /\ \A v \in Worker : poll[v].pc = "claimed" => poll[v].lock.task # t
        /\ \A v \in Worker : <<v, t>> \notin runs
    BY <1>2, <2>0, FreeTask
  <2>5. PollsInv'
    <3>1. ASSUME NEW v \in Worker, v # w, poll'[v].pc = "claimed"
          PROVE  ClaimedInv(v, poll[v].lock)'
      <4>1. poll'[v] = poll[v] /\ poll[v].lock.task \in Task /\ poll[v].lock.task # t
        BY <2>2, <2>4, <3>1, PollIs
      <4> QED BY <1>1, <2>3, <3>1, <4>1 DEF CalmInv, PollsInv, ClaimedInv, Holds
    <3> QED BY <1>1, <2>0, <2>2, <2>3, <2>4, <3>1 DEF PollsInv, ClaimedInv, Holds
  <2>6. ActiveInv'
    BY <1>1, <2>3, <2>4 DEF CalmInv, ActiveInv, Holds
  <2>7. EndingInv'
    BY <1>1, <2>3, <2>4, QueueTypes DEF CalmInv, EndingInv, Holds
  <2>8. BeatsInv'
    BY <1>1, <2>3, <2>4, QueueTypes DEF CalmInv, BeatsInv, Holds
  <2>9. RunsInv'
    BY <1>1 DEF CalmInv, RunsInv
  <2>10. LocksTended'
    BY <1>1, <1>2, <2>0, <2>2, <2>3 DEF CalmInv, LocksTended
  <2> QED BY <2>5, <2>6, <2>7, <2>8, <2>9, <2>10 DEF CalmInv
<1> QED BY <1>3, <1>4 DEF TryClaim, RedisFails, RedisWorks

LEMMA BeginCalm ==
    ASSUME QueueTypeOK, CalmInv, TroublesTyped, NEW w \in Worker, Begin(w), RedisWorks
    PROVE  CalmInv'
<1> DEFINE l == poll[w].lock
           t == l.task
           beat == [lock |-> l, due |-> FALSE]
<1>1. /\ UNCHANGED <<owner, ttl, ending>> /\ poll[w].pc = "claimed"
      /\ poll' = [poll EXCEPT ![w] = IdlePoll]
  BY DEF Begin
<1>2. /\ l \in Claim /\ t \in Task /\ l.by = w /\ Holds(l) /\ ttl[t] = LockTTL
      /\ state[t] = "CLAIMED" /\ active[t] = NoClaim
      /\ \A b \in beats : b.lock.task # t
      /\ \A f \in ending : f.lock.task # t
  BY <1>1, PollIs DEF CalmInv, PollsInv, ClaimedInv
<1>3. MayMove(l, "RUNNING")
  BY <1>2 DEF MayMove, Legal
<1>4. /\ state' = [state EXCEPT ![t] = "RUNNING"] /\ active' = [active EXCEPT ![t] = l]
      /\ beats' = beats \union {beat} /\ runs' = runs \union {<<w, t>>}
  <2>1. ~RedisFails
    BY DEF RedisFails, RedisWorks, TroublesTyped
  <2> QED BY <1>3, <2>1, Zenon DEF Begin
<1>5. beat.lock = l /\ ~beat.due
  OBVIOUS
<1>6. l # NoClaim /\ l.task = t
  BY <1>2, ClaimsAre
<1>7. \A v \in Worker : v # w /\ poll[v].pc = "claimed" => poll[v].lock.task # t
  <2> SUFFICES ASSUME NEW v \in Worker, v # w, poll[v].pc = "claimed", poll[v].lock.task = t
               PROVE FALSE
    OBVIOUS
  <2>1. poll[v].lock.by = v /\ Holds(poll[v].lock)
    BY DEF CalmInv, PollsInv, ClaimedInv
  <2> QED BY <1>2, <2>1 DEF Holds
<1>8. /\ poll'[w].pc # "claimed" /\ \A v \in Worker : v # w => poll'[v] = poll[v]
  BY <1>1, QueueTypes DEF IdlePoll
<1> HIDE DEF l, t, beat
<1>9. /\ state'[t] = "RUNNING" /\ active'[t] = l
      /\ \A u \in Task : u # t => state'[u] = state[u] /\ active'[u] = active[u]
  BY <1>2, <1>4, QueueTypes
<1>10. \A b \in beats' : b = beat \/ b \in beats
  BY <1>4
<1>11. PollsInv'
  <2> SUFFICES ASSUME NEW v \in Worker, poll'[v].pc = "claimed"
               PROVE  ClaimedInv(v, poll[v].lock)'
    BY DEF PollsInv
  <2>1. poll'[v] = poll[v] /\ poll[v].lock.task \in Task /\ poll[v].lock.task # t
    BY <1>7, <1>8, PollIs
  <2> QED BY <1>1, <1>5, <1>6, <1>9, <1>10, <2>1 DEF CalmInv, PollsInv, ClaimedInv, Holds
<1>12. ActiveInv'
  BY <1>1, <1>2, <1>6, <1>9 DEF CalmInv, ActiveInv, Holds
<1>13. EndingInv'
  BY <1>1, <1>2, <1>9, QueueTypes DEF CalmInv, EndingInv, Holds
<1>14. BeatsInv'
  <2>1. ASSUME NEW b \in beats
        PROVE  active'[b.lock.task] = active[b.lock.task]
    BY <1>2, <1>9, QueueTypes
  <2> QED BY <1>1, <1>2, <1>5, <1>6, <1>9, <1>10, <2>1 DEF CalmInv, BeatsInv, Holds
<1>15. RunsInv'
  <2> SUFFICES ASSUME NEW v \in Worker, NEW u \in Task, <<v, u>> \in runs'
               PROVE  active'[u] # NoClaim /\ active'[u].by = v
    BY DEF RunsInv
  <2>1. CASE <<v, u>> = <<w, t>>
    BY <1>2, <1>6, <1>9, <2>1
  <2>2. CASE <<v, u>> \in runs
    BY <1>2, <1>9, <2>2 DEF CalmInv, RunsInv
  <2> QED BY <1>4, <2>1, <2>2
<1>16. LocksTended'
  <2> SUFFICES ASSUME NEW u \in Task, owner[u] # NoWorker
               PROVE  \/ \E b \in beats' : b.lock.task = u
                      \/ \E v \in Worker : poll'[v].pc = "claimed" /\ poll'[v].lock.task = u
    BY <1>1 DEF LocksTended
  <2>1. CASE u = t
    BY <1>4, <1>5, <1>6, <2>1
  <2>2. CASE \E b \in beats : b.lock.task = u
    BY <1>4, <2>2
  <2>3. CASE u # t /\ \E v \in Worker : poll[v].pc = "claimed" /\ poll[v].lock.task = u
    BY <1>6, <1>8, <2>3 DEF l
  <2> QED BY <2>1, <2>2, <2>3 DEF CalmInv, LocksTended
<1> QED BY <1>11, <1>12, <1>13, <1>14, <1>15, <1>16 DEF CalmInv

LEMMA BeatCalm ==
    ASSUME QueueTypeOK, CalmInv, NEW b \in beats, Beat(b), RedisWorks
    PROVE  CalmInv'
<1> DEFINE t == b.lock.task
           beat == [b EXCEPT !.due = FALSE]
<1>1. UNCHANGED <<owner, state, poll, active, ending, runs>>
  BY DEF Beat
<1>2. b \in [lock : Claim, due : BOOLEAN] /\ t \in Task /\ beat.lock = b.lock /\ ~beat.due
  BY ClaimsAre DEF QueueTypeOK
<1>3. Holds(b.lock) /\ ttl' = [ttl EXCEPT ![t] = LockTTL] /\ beats' = (beats \ {b}) \union {beat}
  <2>1. Holds(b.lock)
    BY DEF CalmInv, BeatsInv
  <2>2. TroublesTyped
    BY QueueTypes
  <2> QED BY <2>1, <2>2 DEF Beat, Renewed, RedisFails, RedisWorks, TroublesTyped
<1> HIDE DEF beat
<1>4. ttl'[t] = LockTTL /\ \A u \in Task : u # t => ttl'[u] = ttl[u]
  BY <1>2, <1>3, QueueTypes
<1>5. \A c \in beats' : \E d \in beats : c.lock = d.lock /\ (c = d \/ c = beat)
  BY <1>2, <1>3
<1>6. \A d \in beats : \E c \in beats' : c.lock = d.lock
  BY <1>2, <1>3
<1>7. PollsInv'
  <2> SUFFICES ASSUME NEW w \in Worker, poll[w].pc = "claimed" PROVE ClaimedInv(w, poll[w].lock)'
    BY <1>1 DEF PollsInv
  <2>1. poll[w].lock.task \in Task /\ poll[w].lock.task # t /\ ClaimedInv(w, poll[w].lock)
    BY PollIs DEF CalmInv, PollsInv, ClaimedInv
  <2> QED BY <1>1, <1>4, <1>5, <2>1 DEF ClaimedInv, Holds
<1>8. ActiveInv' /\ EndingInv' /\ RunsInv'
  BY <1>1 DEF CalmInv, ActiveInv, EndingInv, RunsInv, Holds
<1>9. BeatsInv'
  <2> SUFFICES ASSUME NEW c \in beats'
               PROVE  /\ Holds(c.lock)'
                      /\ c.due => ttl'[c.lock.task] > 0
                      /\ ~c.due => ttl'[c.lock.task] = LockTTL
                      /\ active'[c.lock.task] = c.lock \/ \E f \in ending' : f.lock = c.lock
    BY DEF BeatsInv
  <2>1. PICK d \in beats : c.lock = d.lock /\ (c = d \/ c = beat)
    BY <1>5
  <2>2. /\ Holds(d.lock)
        /\ active[d.lock.task] = d.lock \/ \E f \in ending : f.lock = d.lock
    BY DEF CalmInv, BeatsInv
  <2>3. CASE c.lock.task = t
    BY <1>1, <1>4, <2>1, <2>2, <2>3 DEF Holds, LockTTL
  <2>4. CASE c.lock.task # t
    BY <1>1, <1>2, <1>4, <2>1, <2>4, QueueTypes DEF Holds, CalmInv, BeatsInv
  <2> QED BY <2>3, <2>4
<1>10. LocksTended'
  BY <1>1, <1>6 DEF CalmInv, LocksTended
<1> QED BY <1>7, <1>8, <1>9, <1>10 DEF CalmInv

LEMMA ReportCalm ==
    ASSUME QueueTypeOK, CalmInv, NEW w \in Worker, NEW t \in Task, NEW target \in Target,
           Report(w, t, target)
    PROVE  CalmInv'
<1> DEFINE g == [lock |-> active[t], target |-> target, decided |-> FALSE]
<1>1. UNCHANGED <<owner, ttl, state, poll, beats>> /\ <<w, t>> \in runs
  BY DEF Report
<1>2. /\ active[t] # NoClaim /\ active[t].by = w /\ active[t].task = t /\ Holds(active[t])
      /\ state[t] = "RUNNING" /\ active[t] \in Claim
      /\ \A f \in ending : f.lock.task # t
  BY <1>1, QueueTypes DEF CalmInv, RunsInv, ActiveInv
<1>3. /\ active' = [active EXCEPT ![t] = NoClaim] /\ ending' = ending \union {g}
      /\ runs' = runs \ {<<w, t>>}
  BY <1>2 DEF Report
<1>4. g.lock = active[t] /\ ~g.decided
  OBVIOUS
<1> HIDE DEF g
<1>5. active'[t] = NoClaim /\ \A u \in Task : u # t => active'[u] = active[u]
  BY <1>3, QueueTypes
<1>6. PollsInv'
  <2> SUFFICES ASSUME NEW v \in Worker, poll[v].pc = "claimed" PROVE ClaimedInv(v, poll[v].lock)'
    BY <1>1 DEF PollsInv
  <2>1. poll[v].lock.task \in Task /\ ClaimedInv(v, poll[v].lock)
    BY PollIs DEF CalmInv, PollsInv
  <2>2. poll[v].lock.task # t
    BY <1>2, <2>1 DEF ClaimedInv
  <2> QED BY <1>1, <1>2, <1>3, <1>4, <1>5, <2>1, <2>2 DEF ClaimedInv, Holds
<1>7. ActiveInv'
  BY <1>1, <1>2, <1>3, <1>4, <1>5 DEF CalmInv, ActiveInv, Holds
<1>8. EndingInv'
  BY <1>1, <1>2, <1>3, <1>4, <1>5, QueueTypes DEF CalmInv, EndingInv, Holds
<1>9. BeatsInv'
  <2> SUFFICES ASSUME NEW b \in beats
               PROVE  active'[b.lock.task] = b.lock \/ \E f \in ending' : f.lock = b.lock
    BY <1>1 DEF CalmInv, BeatsInv, Holds
  <2>1. active[b.lock.task] = b.lock \/ \E f \in ending : f.lock = b.lock
    BY DEF CalmInv, BeatsInv
  <2> QED BY <1>3, <1>4, <1>5, <2>1, QueueTypes
<1>10. RunsInv'
  <2> SUFFICES ASSUME NEW v \in Worker, NEW u \in Task, <<v, u>> \in runs'
               PROVE  active'[u] # NoClaim /\ active'[u].by = v
    BY DEF RunsInv
  <2>1. active[u] # NoClaim /\ active[u].by = v /\ <<v, u>> # <<w, t>>
    BY <1>3 DEF CalmInv, RunsInv
  <2>2. u # t
    BY <1>2, <2>1
  <2> QED BY <1>5, <2>1, <2>2
<1>11. LocksTended'
  BY <1>1 DEF CalmInv, LocksTended
<1> QED BY <1>6, <1>7, <1>8, <1>9, <1>10, <1>11 DEF CalmInv

LEMMA DecideCalm ==
    ASSUME QueueTypeOK, CalmInv, NEW f \in ending, Decide(f), RedisWorks
    PROVE  CalmInv'
<1> DEFINE t == f.lock.task
           g == [f EXCEPT !.decided = TRUE]
<1>1. UNCHANGED <<owner, ttl, poll, active, beats, runs>> /\ ~f.decided
  BY DEF Decide
<1>2. /\ f \in [lock : Claim, target : Target, decided : BOOLEAN] /\ t \in Task
      /\ g.lock = f.lock /\ g.decided
  BY ClaimsAre DEF QueueTypeOK
<1>3. /\ Holds(f.lock) /\ active[t] = NoClaim /\ state[t] = "RUNNING"
      /\ \A h \in ending : h.lock.task = t => h = f
  BY <1>1 DEF CalmInv, EndingInv
<1>4. /\ state' = [state EXCEPT ![t] = f.target] /\ ending' = (ending \ {f}) \union {g}
  <2>1. MayMove(f.lock, f.target)
    BY <1>2, <1>3 DEF MayMove, Legal, Target
  <2>2. ~RedisFails
    BY QueueTypes DEF RedisFails, RedisWorks, TroublesTyped
  <2> QED BY <2>1, <2>2 DEF Decide
<1> HIDE DEF g
<1>5. \A u \in Task : u # t => state'[u] = state[u]
  BY <1>2, <1>4, QueueTypes
<1>6. \A h \in ending' : h = g \/ (h \in ending /\ h.lock.task # t)
  BY <1>3, <1>4
<1>7. \A h \in ending : \E k \in ending' : h.lock = k.lock
  BY <1>2, <1>4
<1>8. PollsInv'
  <2> SUFFICES ASSUME NEW v \in Worker, poll[v].pc = "claimed" PROVE ClaimedInv(v, poll[v].lock)'
    BY <1>1 DEF PollsInv
  <2>1. poll[v].lock.task \in Task /\ ClaimedInv(v, poll[v].lock) /\ poll[v].lock.task # t
    BY PollIs DEF CalmInv, PollsInv, ClaimedInv
  <2> QED BY <1>1, <1>2, <1>5, <1>6, <2>1 DEF ClaimedInv, Holds
<1>9. ActiveInv'
  BY <1>1, <1>2, <1>3, <1>5, <1>6 DEF CalmInv, ActiveInv, Holds
<1>10. EndingInv'
  <2>1. \A h \in ending' : h.lock.task = t => h = g
    BY <1>6
  <2>2. ASSUME NEW h \in ending, h \in ending', h.lock.task # t
        PROVE  /\ Holds(h.lock)' /\ active'[h.lock.task] = NoClaim
               /\ ~h.decided => state'[h.lock.task] = "RUNNING"
               /\ \A k \in ending' : k.lock.task = h.lock.task => k = h
    BY <1>1, <1>2, <1>5, <1>6, <2>2, QueueTypes DEF CalmInv, EndingInv, Holds
  <2>3. /\ Holds(g.lock)' /\ active'[g.lock.task] = NoClaim /\ g.decided
        /\ \A k \in ending' : k.lock.task = g.lock.task => k = g
    BY <1>1, <1>2, <1>3, <2>1 DEF Holds
  <2> QED BY <1>6, <2>2, <2>3 DEF EndingInv
<1>11. BeatsInv'
  BY <1>1, <1>7 DEF CalmInv, BeatsInv, Holds
<1>12. RunsInv' /\ LocksTended'
  BY <1>1 DEF CalmInv, RunsInv, LocksTended
<1> QED BY <1>8, <1>9, <1>10, <1>11, <1>12 DEF CalmInv

LEMMA ConcludeCalm ==
    ASSUME QueueTypeOK, CalmInv, NEW f \in ending, Conclude(f), RedisWorks
    PROVE  CalmInv'
<1> DEFINE t == f.lock.task
<1>1. UNCHANGED <<state, poll, active, runs>> /\ ending' = ending \ {f}
  BY DEF Conclude
<1>2. t \in Task /\ f.lock \in Claim
  BY QueueTypes
<1>3. /\ Holds(f.lock) /\ active[t] = NoClaim
      /\ \A h \in ending : h.lock.task = t => h = f
  BY DEF CalmInv, EndingInv
<1>4. /\ owner' = [owner EXCEPT ![t] = NoWorker] /\ ttl' = [ttl EXCEPT ![t] = 0]
      /\ beats' = {b \in beats : b.lock # f.lock}
  <2>1. ~RedisFails
    BY QueueTypes DEF RedisFails, RedisWorks, TroublesTyped
  <2> QED BY <1>3, <2>1 DEF Conclude, Release, Cancelled
<1>5. /\ owner'[t] = NoWorker
      /\ \A u \in Task : u # t => owner'[u] = owner[u] /\ ttl'[u] = ttl[u]
  BY <1>2, <1>4, QueueTypes
<1>6. \A b \in beats : b.lock.task = t => b.lock = f.lock
  <2> SUFFICES ASSUME NEW b \in beats, b.lock.task = t PROVE b.lock = f.lock
    OBVIOUS
  <2>1. active[t] = b.lock \/ \E h \in ending : h.lock = b.lock
    BY DEF CalmInv, BeatsInv
  <2>2. b.lock # NoClaim
    BY QueueTypes, ClaimsAre
  <2> QED BY <1>3, <2>1, <2>2
<1>7. /\ \A b \in beats' : b \in beats /\ b.lock.task # t
      /\ \A h \in ending' : h \in ending /\ h.lock.task # t
  BY <1>1, <1>3, <1>4, <1>6
<1>8. PollsInv'
  <2> SUFFICES ASSUME NEW v \in Worker, poll[v].pc = "claimed" PROVE ClaimedInv(v, poll[v].lock)'
    BY <1>1 DEF PollsInv
  <2>1. poll[v].lock.task \in Task /\ ClaimedInv(v, poll[v].lock) /\ poll[v].lock.task # t
    BY PollIs DEF CalmInv, PollsInv, ClaimedInv
  <2> QED BY <1>1, <1>5, <1>7, <2>1 DEF ClaimedInv, Holds
<1>9. ActiveInv'
  BY <1>1, <1>3, <1>5, <1>7 DEF CalmInv, ActiveInv, Holds
<1>10. EndingInv'
  BY <1>1, <1>5, <1>7, QueueTypes DEF CalmInv, EndingInv, Holds
<1>11. BeatsInv'
  <2> SUFFICES ASSUME NEW b \in beats', b \in beats, b.lock.task # t, b.lock.task \in Task
               PROVE  /\ Holds(b.lock)'
                      /\ b.due => ttl'[b.lock.task] > 0
                      /\ ~b.due => ttl'[b.lock.task] = LockTTL
                      /\ active'[b.lock.task] = b.lock \/ \E h \in ending' : h.lock = b.lock
    BY <1>7, QueueTypes DEF BeatsInv
  <2>1. active[b.lock.task] = b.lock \/ \E h \in ending : h.lock = b.lock /\ h # f
    BY DEF CalmInv, BeatsInv
  <2> QED BY <1>1, <1>5, <2>1 DEF CalmInv, BeatsInv, Holds
<1>12. RunsInv'
  BY <1>1 DEF CalmInv, RunsInv
<1>13. LocksTended'
  <2> SUFFICES ASSUME NEW u \in Task, owner'[u] # NoWorker
               PROVE  \/ \E b \in beats' : b.lock.task = u
                      \/ \E v \in Worker : poll[v].pc = "claimed" /\ poll[v].lock.task = u
    BY <1>1 DEF LocksTended
  <2>1. u # t /\ owner[u] # NoWorker
    BY <1>5
  <2>2. \A b \in beats : b.lock.task = u => b \in beats'
    BY <1>4, <2>1
  <2> QED BY <2>1, <2>2 DEF CalmInv, LocksTended
<1> QED BY <1>8, <1>9, <1>10, <1>11, <1>12, <1>13 DEF CalmInv

\* Nothing is late, so every lock was just renewed: none of them expires.
LEMMA TickCalm ==
    ASSUME QueueTypeOK, CalmInv, Tick, ~Late
    PROVE  CalmInv'
<1>1. /\ UNCHANGED <<state, poll, active, ending, runs>> /\ ending = {}
      /\ \A w \in Worker : poll[w] = IdlePoll
      /\ \A b \in beats : ~b.due
      /\ beats' = {[b EXCEPT !.due = TRUE] : b \in beats}
  BY DEF Tick, Late
<1>2. \A w \in Worker : poll[w].pc # "claimed"
  BY <1>1 DEF IdlePoll
<1>3. \A t \in Task : ttl[t] # 1 /\ (owner[t] # NoWorker => ttl[t] = LockTTL)
  <2> SUFFICES ASSUME NEW t \in Task, owner[t] # NoWorker PROVE ttl[t] = LockTTL
    BY QueueTypes DEF LockTTL
  <2>1. PICK b \in beats : b.lock.task = t
    BY <1>2 DEF CalmInv, LocksTended
  <2> QED BY <1>1, <2>1 DEF CalmInv, BeatsInv
<1>4. owner' = owner
  BY <1>3, QueueTypes DEF Tick
<1>5. \A t \in Task : owner[t] # NoWorker => ttl'[t] > 0
  <2> SUFFICES ASSUME NEW t \in Task, owner[t] # NoWorker PROVE ttl'[t] > 0
    OBVIOUS
  <2>1. ttl'[t] = IF ttl[t] = 0 THEN 0 ELSE ttl[t] - 1
    BY DEF Tick
  <2> QED BY <1>3, <2>1 DEF LockTTL
<1>6. \A c \in beats' : c.due /\ \E b \in beats : c.lock = b.lock
  <2> SUFFICES ASSUME NEW b \in beats
               PROVE  [b EXCEPT !.due = TRUE].due /\ [b EXCEPT !.due = TRUE].lock = b.lock
    BY <1>1
  <2>1. b \in [lock : Claim, due : BOOLEAN]
    BY DEF QueueTypeOK
  <2> QED BY <2>1
<1>7. \A b \in beats : \E c \in beats' : c.lock = b.lock
  <2> SUFFICES ASSUME NEW b \in beats
               PROVE  [b EXCEPT !.due = TRUE].lock = b.lock
    BY <1>1
  <2>1. b \in [lock : Claim, due : BOOLEAN]
    BY DEF QueueTypeOK
  <2> QED BY <2>1
<1>8. PollsInv'
  BY <1>1, <1>2 DEF PollsInv
<1>9. ActiveInv' /\ EndingInv' /\ RunsInv'
  BY <1>1, <1>4 DEF CalmInv, ActiveInv, EndingInv, RunsInv, Holds
<1>10. BeatsInv'
  <2> SUFFICES ASSUME NEW c \in beats'
               PROVE  /\ Holds(c.lock)' /\ c.due /\ ttl'[c.lock.task] > 0
                      /\ active'[c.lock.task] = c.lock \/ \E f \in ending' : f.lock = c.lock
    BY DEF BeatsInv
  <2>1. PICK b \in beats : c.lock = b.lock /\ c.due
    BY <1>6
  <2>2. Holds(b.lock) /\ active[b.lock.task] = b.lock
    BY <1>1 DEF CalmInv, BeatsInv
  <2>3. owner[b.lock.task] # NoWorker /\ b.lock.task \in Task
    BY <2>2, QueueTypes, ClaimsAre DEF Holds
  <2> QED BY <1>1, <1>4, <1>5, <2>1, <2>2, <2>3 DEF Holds
<1>11. LocksTended'
  <2> SUFFICES ASSUME NEW t \in Task, owner[t] # NoWorker PROVE \E c \in beats' : c.lock.task = t
    BY <1>4 DEF LocksTended
  <2>1. PICK b \in beats : b.lock.task = t
    BY <1>2 DEF CalmInv, LocksTended
  <2> QED BY <1>7, <2>1
<1> QED BY <1>8, <1>9, <1>10, <1>11 DEF CalmInv

LEMMA QueueCalmStep ==
    ASSUME QueueTypeOK, Calm => CalmInv, QueueNext, Calm'
    PROVE  CalmInv'
<1>1. TroublesTyped
  BY QueueTypes
<1>2. ASSUME NEW t \in Task, Submit(t) PROVE CalmInv'
  <2>1. Calm
    BY <1>1, <1>2, RedisStep DEF Submit
  <2> QED BY <1>2, <2>1, SubmitCalm
<1>3. ASSUME NEW w \in Worker, Pop(w) PROVE CalmInv'
  <2>1. Calm
    BY <1>3 DEF Pop, Calm
  <2> QED BY <1>3, <2>1, PopCalm
<1>4. ASSUME NEW w \in Worker, TryClaim(w) PROVE CalmInv'
  <2>1. Calm /\ RedisWorks
    BY <1>1, <1>4, RedisStep DEF TryClaim
  <2> QED BY <1>4, <2>1, TryClaimCalm
<1>5. ASSUME NEW w \in Worker, Begin(w) PROVE CalmInv'
  <2>1. Calm /\ RedisWorks
    BY <1>1, <1>5, RedisStep DEF Begin
  <2> QED BY <1>1, <1>5, <2>1, BeginCalm
<1>6. ASSUME NEW b \in beats, Beat(b) PROVE CalmInv'
  <2>1. Calm /\ RedisWorks
    BY <1>1, <1>6, RedisStep DEF Beat
  <2> QED BY <1>6, <2>1, BeatCalm
<1>7. ASSUME NEW f \in ending, Decide(f) PROVE CalmInv'
  <2>1. Calm /\ RedisWorks
    BY <1>1, <1>7, RedisStep DEF Decide
  <2> QED BY <1>7, <2>1, DecideCalm
<1>8. ASSUME NEW f \in ending, Conclude(f) PROVE CalmInv'
  <2>1. Calm /\ RedisWorks
    BY <1>1, <1>8, RedisStep DEF Conclude
  <2> QED BY <1>8, <2>1, ConcludeCalm
<1>9. ASSUME NEW w \in Worker, NEW t \in Task, NEW target \in Target, Report(w, t, target)
      PROVE  CalmInv'
  <2>1. Calm
    BY <1>9 DEF Report, Calm
  <2> QED BY <1>9, <2>1, ReportCalm
<1>10. ASSUME Tick PROVE CalmInv'
  <2>1. Calm /\ ~Late
    BY <1>1, <1>10 DEF Tick, Calm, TroublesTyped
  <2> QED BY <1>10, <2>1, TickCalm
<1>11. ~EngineCrash
  BY <1>1 DEF EngineCrash, Calm, TroublesTyped
<1> QED BY <1>2, <1>3, <1>4, <1>5, <1>6, <1>7, <1>8, <1>9, <1>10, <1>11 DEF QueueNext

------------------------------------------------------------------------------
LEMMA SubmitKeeps ==
    ASSUME QueueTypeOK, NEW t \in Task, Submit(t), LostInv
    PROVE  LostInv'
<1>1. UNCHANGED <<owner, poll, claims, queueCrashes>> /\ submitted' = submitted \union {t}
  BY DEF Submit
<1>2. pending \in Seq(Task)
  BY DEF QueueTypeOK
<1>3. \A u \in Task : (\E i \in DOMAIN pending : pending[i] = u) => \E i \in DOMAIN pending' : pending'[i] = u
  BY <1>2 DEF Submit
<1>4. ASSUME queueFaults' = 0
      PROVE  pending' = Append(pending, t) /\ queueFaults = 0
  <2>1. RedisWorks
    BY <1>4, RedisStep, QueueTypes DEF Submit
  <2>2. ~RedisFails
    BY <2>1, QueueTypes DEF RedisFails, RedisWorks, TroublesTyped
  <2> QED BY <1>4, <2>1, <2>2 DEF Submit, RedisWorks
<1>5. queueFaults' = 0 => \E i \in DOMAIN pending' : pending'[i] = t
  BY <1>2, <1>4
<1>6. submitted \subseteq Task
  BY DEF QueueTypeOK
<1> QED BY <1>1, <1>3, <1>4, <1>5, <1>6 DEF LostInv, LostForAReason

LEMMA PopKeeps ==
    ASSUME QueueTypeOK, NEW w \in Worker, Pop(w), LostInv
    PROVE  LostInv'
<1>1. UNCHANGED <<owner, claims, submitted, queueFaults, queueCrashes>>
  BY DEF Pop, submitVars
<1>2. /\ pending \in Seq(Task) /\ pending # <<>> /\ pending' = Tail(pending)
      /\ poll \in [Worker -> PollStates] /\ poll[w] = IdlePoll
      /\ poll' = [poll EXCEPT ![w] = [pc |-> "popped", task |-> Head(pending)]]
  BY QueueTypes DEF Pop, QueueTypeOK
<1>3. ASSUME NEW i \in DOMAIN pending
      PROVE  \/ \E j \in DOMAIN pending' : pending'[j] = pending[i]
             \/ \E v \in Worker : poll'[v] = [pc |-> "popped", task |-> pending[i]]
  <2>1. CASE i = 1
    <3>1. poll'[w] = [pc |-> "popped", task |-> pending[i]]
      BY <1>2, <2>1
    <3> QED BY <3>1
  <2>2. CASE i # 1
    <3>1. i - 1 \in DOMAIN pending' /\ pending'[i - 1] = pending[i]
      BY <1>2, <1>3, <2>2
    <3> QED BY <3>1
  <2> QED BY <2>1, <2>2
<1>4. ASSUME NEW v \in Worker, NEW t, poll[v] = [pc |-> "popped", task |-> t]
      PROVE  poll'[v] = [pc |-> "popped", task |-> t]
  <2>1. v # w
    BY <1>2, <1>4 DEF IdlePoll
  <2> QED BY <1>2, <1>4, <2>1
<1> QED BY <1>1, <1>3, <1>4 DEF LostInv, LostForAReason

LEMMA TryClaimKeeps ==
    ASSUME QueueTypeOK, NEW w \in Worker, TryClaim(w), LostInv
    PROVE  LostInv'
<1> DEFINE t == poll[w].task
           l == [task |-> t, by |-> w, n |-> claims[t] + 1]
<1>1. UNCHANGED <<pending, submitted, queueCrashes>> /\ (queueFaults' = 0 => queueFaults = 0 /\ RedisWorks)
  BY RedisStep, QueueTypes DEF TryClaim, submitVars, RedisWorks
<1>2. t \in Task /\ claims \in [Task -> Nat] /\ poll \in [Worker -> PollStates] /\ l.n = claims[t] + 1
      /\ l.task = t /\ submitted \subseteq Task
  BY PollIs DEF TryClaim, QueueTypeOK
<1>3. CASE /\ ClaimScript(l) /\ claims' = [claims EXCEPT ![t] = l.n]
           /\ poll' = [poll EXCEPT ![w] = [pc |-> "claimed", lock |-> l]]
  <2>1. claims'[t] > 0 /\ \A u \in Task : u # t => claims'[u] = claims[u]
    BY <1>2, <1>3
  <2>2. \A u \in Task : u # t => owner'[u] = owner[u]
    BY <1>2, <1>3, QueueTypes DEF ClaimScript
  <2>3. ASSUME NEW v \in Worker, NEW u \in Task, u # t, poll[v] = [pc |-> "popped", task |-> u]
        PROVE  poll'[v] = [pc |-> "popped", task |-> u]
    <3>1. v # w
      BY <2>3
    <3> QED BY <1>2, <1>3, <2>3, <3>1
  <2> HIDE DEF t, l
  <2> QED BY <1>1, <1>2, <2>1, <2>2, <2>3 DEF LostInv, LostForAReason
<1>4. CASE /\ (RedisWorks /\ ~MayClaim(l)) \/ RedisFails
           /\ poll' = [poll EXCEPT ![w] = IdlePoll] /\ UNCHANGED <<owner, claims>>
  <2>1. queueFaults' = 0 => claims[t] > 0
    <3>1. SUFFICES ASSUME queueFaults' = 0, RedisWorks, ~MayClaim(l) PROVE claims[t] > 0
      BY <1>1, <1>4, QueueTypes DEF RedisFails, RedisWorks, TroublesTyped
    <3> QED BY <1>2, <3>1 DEF MayClaim, LostInv
  <2>2. ASSUME NEW v \in Worker, NEW u \in Task, u # t, poll[v] = [pc |-> "popped", task |-> u]
        PROVE  poll'[v] = [pc |-> "popped", task |-> u]
    <3>1. v # w
      BY <2>2
    <3> QED BY <1>2, <1>4, <2>2, <3>1
  <2> HIDE DEF t, l
  <2> QED BY <1>1, <1>2, <1>4, <2>1, <2>2 DEF LostInv, LostForAReason
<1> QED BY <1>3, <1>4 DEF TryClaim

\* No other step takes a task from the list or from a poll, or hands out a lock.
LEMMA OthersKeep ==
    ASSUME QueueTypeOK, LostInv, UNCHANGED <<pending, claims, submitted>>,
           \A t \in Task : owner'[t] # NoWorker => owner[t] # NoWorker,
           queueFaults' = 0 /\ queueCrashes' = 0 =>
               /\ queueFaults = 0 /\ queueCrashes = 0
               /\ \A w \in Worker : poll[w].pc = "popped" => poll'[w] = poll[w]
    PROVE  LostInv'
<1>1. \A w \in Worker, t \in Task : poll[w] = [pc |-> "popped", task |-> t] => poll[w].pc = "popped"
  OBVIOUS
<1>2. submitted \subseteq Task
  BY DEF QueueTypeOK
<1>3. LostForAReason'
  <2> SUFFICES ASSUME queueFaults' = 0, queueCrashes' = 0, NEW t \in submitted
               PROVE  \/ claims[t] > 0
                      \/ \E i \in DOMAIN pending : pending[i] = t
                      \/ \E w \in Worker : poll'[w] = [pc |-> "popped", task |-> t]
    BY DEF LostForAReason
  <2> QED BY <1>1, <1>2 DEF LostInv, LostForAReason
<1> QED BY <1>3 DEF LostInv

LEMMA LostStep ==
    ASSUME QueueTypeOK, LostInv, QueueNext
    PROVE  LostInv'
<1>1. TroublesTyped
  BY QueueTypes
<1>2. ASSUME NEW w \in Worker, Begin(w) PROVE LostInv'
  <2>1. UNCHANGED <<pending, owner, claims, submitted, queueCrashes>> /\ (queueFaults' = 0 => queueFaults = 0)
    BY <1>1, <1>2, RedisStep DEF Begin, submitVars, RedisWorks
  <2>2. \A v \in Worker : poll[v].pc = "popped" => poll'[v] = poll[v]
    BY <1>2, QueueTypes DEF Begin
  <2> QED BY <2>1, <2>2, OthersKeep
<1>3. ASSUME NEW b \in beats, Beat(b) PROVE LostInv'
  <2>1. /\ UNCHANGED <<pending, owner, claims, submitted, queueCrashes, poll>>
        /\ queueFaults' = 0 => queueFaults = 0
    BY <1>1, <1>3, RedisStep DEF Beat, submitVars, RedisWorks
  <2> QED BY <2>1, OthersKeep
<1>4. ASSUME NEW f \in ending, Decide(f) \/ Conclude(f) PROVE LostInv'
  <2>1. /\ UNCHANGED <<pending, claims, submitted, queueCrashes, poll>>
        /\ queueFaults' = 0 => queueFaults = 0
    BY <1>1, <1>4, RedisStep DEF Decide, Conclude, submitVars, RedisWorks
  <2>2. \A t \in Task : owner'[t] # NoWorker => owner[t] # NoWorker
    <3>1. owner' = owner \/ owner' = [owner EXCEPT ![f.lock.task] = NoWorker]
      BY <1>4 DEF Decide, Conclude, Release
    <3> QED BY <3>1, QueueTypes
  <2> QED BY <2>1, <2>2, OthersKeep
<1>5. ASSUME NEW w \in Worker, NEW t \in Task, NEW target \in Target, Report(w, t, target)
      PROVE  LostInv'
  <2>1. UNCHANGED <<pending, owner, claims, submitted, queueFaults, queueCrashes, poll>>
    BY <1>5 DEF Report, submitVars
  <2> QED BY <2>1, OthersKeep
<1>6. ASSUME Tick PROVE LostInv'
  <2>1. UNCHANGED <<pending, claims, submitted, queueFaults, queueCrashes, poll>>
    BY <1>6 DEF Tick, submitVars
  <2>2. \A t \in Task : owner'[t] # NoWorker => owner[t] # NoWorker
    BY <1>6 DEF Tick
  <2> QED BY <2>1, <2>2, OthersKeep
<1>7. ASSUME EngineCrash PROVE LostInv'
  <2>1. UNCHANGED <<pending, owner, claims, submitted>> /\ queueCrashes' # 0
    BY <1>1, <1>7 DEF EngineCrash, submitVars, TroublesTyped
  <2> QED BY <2>1, OthersKeep
<1> QED BY <1>2, <1>3, <1>4, <1>5, <1>6, <1>7, SubmitKeeps, PopKeeps, TryClaimKeeps DEF QueueNext

------------------------------------------------------------------------------
LEMMA QueueStep == ASSUME QueueInv, [QueueNext]_queueVars PROVE QueueInv'
<1>1. CASE UNCHANGED queueVars
  <2>1. QueueTypeOK'
    BY <1>1 DEF QueueInv, QueueTypeOK, queueVars
  <2>2. Calm' => CalmInv'
    BY <1>1 DEF QueueInv, queueVars, Calm, CalmInv, PollsInv, ClaimedInv, ActiveInv, EndingInv,
                BeatsInv, RunsInv, LocksTended, Holds
  <2>3. LostInv'
    BY <1>1 DEF QueueInv, queueVars, LostInv, LostForAReason
  <2> QED BY <2>1, <2>2, <2>3 DEF QueueInv
<1>2. CASE QueueNext
  BY <1>2, QueueTypeStep, QueueCalmStep, LostStep DEF QueueInv
<1> QED BY <1>1, <1>2

\* The inductive invariant of the queue, its locks and the engine's entries.
THEOREM QueueInvariance == QueueSpec => []QueueInv
  BY QueueStarts, QueueStep, PTL DEF QueueSpec

\* The queue, the locks and the engine's entries keep to their types.
THEOREM QueueTyped == QueueSpec => []QueueTypeOK
<1>1. QueueInv => QueueTypeOK
  BY DEF QueueInv
<1> QED BY <1>1, QueueInvariance, PTL

\* While the engine keeps up and Redis answers, a task is run by one worker, and its
\* heartbeat keeps the lock for it and ends with it (_heartbeat_loop, _finalize).
THEOREM TasksRunAlone == QueueSpec => []RunsAlone
<1>1. QueueInv => RunsAlone
  <2> SUFFICES ASSUME QueueInv, Calm PROVE RunsAlone
    BY DEF RunsAlone
  <2>1. ASSUME NEW t \in Task PROVE Cardinality({w \in Worker : <<w, t>> \in runs}) =< 1
    <3> DEFINE S == {w \in Worker : <<w, t>> \in runs}
    <3>1. \A v, w \in S : v = w
      BY DEF QueueInv, CalmInv, RunsInv
    <3> HIDE DEF S
    <3>2. ASSUME S = {} PROVE Cardinality(S) = 0
      BY <3>2, FS_EmptySet
    <3>3. ASSUME S # {} PROVE Cardinality(S) = 1
      <4>1. PICK w \in S : TRUE
        BY <3>3
      <4>2. S = {w}
        BY <3>1, <4>1
      <4> QED BY <4>2, FS_Singleton
    <3>4. Cardinality(S) =< 1
      BY <3>2, <3>3
    <3> QED BY <3>4 DEF S
  <2> QED BY <2>1 DEF QueueInv, CalmInv, BeatsInv, RunsAlone
<1> QED BY <1>1, QueueInvariance, PTL

\* Without a crash or a failed command, a task that was submitted waits, is in the
\* hands of a poll, or was claimed (poll_and_claim).
THEOREM SubmissionsAreKept == QueueSpec => []LostForAReason
<1>1. QueueInv => LostForAReason
  BY DEF QueueInv, LostInv
<1> QED BY <1>1, QueueInvariance, PTL

\* While the engine keeps up and Redis answers, no lock is left behind: whoever holds
\* one has a heartbeat that renews it, or is about to (poll_and_claim, _finalize).
THEOREM NoLockIsLeft == QueueSpec => [](Calm => LocksTended)
<1>1. QueueInv => (Calm => LocksTended)
  BY DEF QueueInv, CalmInv
<1> QED BY <1>1, QueueInvariance, PTL

------------------------------------------------------------------------------
(***************************************************************************)
(* MemoryStream                                                            *)
(***************************************************************************)
\* A record the group has been given.
Given(r) == r[2] <= delivered[r[1]]

\* A batch in hand: nothing of it is committed, and what is neither acknowledged
\* nor stored yet will be stored by the commit, unless it cannot be parsed.
BatchInv(j) ==
    /\ \A r \in j.batch : Given(r) /\ table[r] = 0
    /\ \A r \in j.rows : r \in j.batch /\ r \notin garbled
    /\ j.pc \in {"read", "inserted"} => \A r \in j.batch : r \in unacked
    /\ j.pc = "inserted" => \A r \in j.batch : r \in j.rows \/ r \in garbled
    /\ j.pc = "returning" => \A r \in j.batch : r \in unacked \/ r \in j.rows \/ r \in garbled

BatchesInv == \A i \in Instance : Busy(i) => BatchInv(job[i])

\* The group hands a record to one consumer.
BatchesApart ==
    \A i, k \in Instance : i # k /\ Busy(i) /\ Busy(k) =>
        \A r \in Record : ~(r \in job[i].batch /\ r \in job[k].batch)

TableInv ==
    \A r \in Record : /\ table[r] \in {0, 1}
                      /\ ~Given(r) => table[r] = 0
                      /\ table[r] = 1 => r \notin garbled

AckInv ==
    lostCommits = 0 =>
        \A r \in Record : Given(r) /\ r \notin unacked =>
            \/ table[r] = 1 \/ r \in garbled
            \/ \E i \in Instance : Busy(i) /\ r \in job[i].batch

StreamInv == StreamTypeOK /\ BatchesInv /\ BatchesApart /\ TableInv /\ AckInv

------------------------------------------------------------------------------
\* What an instance has in hand, as a record.
LEMMA BusyJob == ASSUME StreamTypeOK, NEW i \in Instance, Busy(i) PROVE job[i] \in Loaded
<1>1. job[i] \in Job /\ job[i] # Idle /\ job[i] # [pc |-> "starting"]
  BY DEF StreamTypeOK, Busy, Idle
<1> QED BY <1>1 DEF Job

LEMMA FaultsStayTyped ==
    ASSUME StreamTypeOK,
           \/ UNCHANGED <<streamFaults, lostCommits>>
           \/ StreamFault /\ lostCommits' \in {lostCommits, lostCommits + 1}
    PROVE  FaultsTyped'
  BY StreamAssumption DEF StreamTypeOK, FaultsTyped, StreamFault

LEMMA InitStream == StreamInit => StreamInv
<1> SUFFICES ASSUME StreamInit PROVE StreamInv
  OBVIOUS
<1>1. \A i \in Instance : job[i] = [pc |-> "starting"] /\ ~Busy(i)
  BY DEF StreamInit, Busy
<1>2. job \in [Instance -> Job]
  BY DEF StreamInit, Job
<1>3. StreamTypeOK
  BY <1>2, StreamAssumption DEF StreamInit, StreamTypeOK, FaultsTyped
<1>4. \A r \in Record : table[r] = 0 /\ ~Given(r)
  BY StreamAssumption DEF StreamInit, Given, Record
<1> QED BY <1>1, <1>3, <1>4 DEF StreamInv, BatchesInv, BatchesApart, TableInv, AckInv

LEMMA ProduceInv == ASSUME StreamInv, NEW s \in Stream, Produce(s) PROVE StreamInv'
<1> USE DEF Record
<1>1. /\ length' \in [Stream -> 0..MaxRecords]
      /\ \A q \in Stream : delivered[q] <= length'[q]
      /\ <<s, length[s] + 1>> \in Record
  BY StreamAssumption DEF StreamInv, StreamTypeOK, Produce
<1>2. StreamTypeOK'
  <2>1. /\ garbled' \subseteq Record /\ incomplete' \subseteq Record
        /\ sessionOf' \in [Record -> SessionId \union {NoSession}]
    BY <1>1 DEF StreamInv, StreamTypeOK, Produce
  <2> QED BY <1>1, <2>1 DEF StreamInv, StreamTypeOK, FaultsTyped, Produce
<1>3. \A r \in Record : Given(r)' <=> Given(r)
  BY DEF Produce, Given
<1>4. \A r \in Record : Given(r) => (r \in garbled' <=> r \in garbled)
  BY StreamAssumption DEF StreamInv, StreamTypeOK, Produce, Given
<1>5. garbled \subseteq garbled' /\ garbled' \subseteq Record
  BY <1>2 DEF Produce, StreamTypeOK
<1>6. UNCHANGED <<delivered, unacked, table, job, lostCommits>> /\ \A i \in Instance : Busy(i)' = Busy(i)
  BY DEF Produce, Busy
<1>7. ASSUME NEW i \in Instance, Busy(i) PROVE BatchInv(job[i])'
  <2>1. job[i] \in Loaded /\ BatchInv(job[i])
    BY <1>7, BusyJob DEF StreamInv, BatchesInv
  <2>2. \A r \in job[i].batch : r \in Record
    BY <2>1 DEF Loaded
  <2> QED BY <1>3, <1>4, <1>5, <1>6, <2>1, <2>2 DEF BatchInv
<1>8. TableInv'
  BY <1>3, <1>4, <1>6 DEF StreamInv, TableInv
<1>9. AckInv'
  BY <1>3, <1>5, <1>6 DEF StreamInv, AckInv
<1> QED BY <1>2, <1>6, <1>7, <1>8, <1>9 DEF StreamInv, BatchesInv, BatchesApart

\* An instance that has nothing in hand, before or after, keeps what the others have.
LEMMA IdleMoves ==
    ASSUME StreamInv, StreamTypeOK', NEW i \in Instance, ~Busy(i), ~Busy(i)',
           \A k \in Instance : k # i => job'[k] = job[k],
           UNCHANGED <<garbled, delivered, unacked, table, lostCommits>>
    PROVE  StreamInv'
<1>1. \A k \in Instance : Busy(k)' <=> Busy(k)
  BY DEF Busy
<1>2. \A k \in Instance : Busy(k) => job'[k] = job[k]
  OBVIOUS
<1>3. \A r : Given(r)' <=> Given(r)
  BY DEF Given
<1>4. BatchesInv'
  BY <1>1, <1>2, <1>3 DEF StreamInv, BatchesInv, BatchInv
<1>5. BatchesApart'
  BY <1>1, <1>2 DEF StreamInv, BatchesApart
<1>6. TableInv'
  BY <1>3 DEF StreamInv, TableInv
<1>7. AckInv'
  BY <1>1, <1>2, <1>3 DEF StreamInv, AckInv
<1> QED BY <1>4, <1>5, <1>6, <1>7 DEF StreamInv

LEMMA InitGroupsInv == ASSUME StreamInv, NEW i \in Instance, InitGroups(i) PROVE StreamInv'
<1>1. job' = [job EXCEPT ![i] = Idle] /\ job \in [Instance -> Job] /\ Idle \in Job
  BY DEF InitGroups, StreamInv, StreamTypeOK, Job
<1>2. ~Busy(i) /\ ~Busy(i)' /\ \A k \in Instance : k # i => job'[k] = job[k]
  BY <1>1 DEF InitGroups, Busy, Idle
<1>3. group' \subseteq Stream /\ FaultsTyped'
  BY FaultsStayTyped DEF InitGroups, StreamInv, StreamTypeOK
<1>4. UNCHANGED <<length, garbled, incomplete, sessionOf, delivered, unacked, table, spoiled, lostCommits>>
  BY DEF InitGroups, recordVars
<1>5. job' \in [Instance -> Job]
  BY <1>1
<1>6. StreamTypeOK'
  BY <1>3, <1>4, <1>5 DEF StreamInv, StreamTypeOK
<1> QED BY <1>2, <1>4, <1>6, IdleMoves

\* What a read delivers: records of this stream that were not given yet.
LEMMA UnreadIsNew ==
    ASSUME StreamTypeOK, NEW s \in Stream, NEW d \in 0..MaxRecords,
           d = IF delivered[s] + BatchSize < length[s] THEN delivered[s] + BatchSize ELSE length[s]
    PROVE  /\ Unread(s) \subseteq Record
           /\ delivered[s] <= d /\ d <= length[s]
           /\ \A r \in Record : r \in Unread(s) <=> r[1] = s /\ delivered[s] < r[2] /\ r[2] <= d
<1>1. delivered[s] \in 0..MaxRecords /\ length[s] \in 0..MaxRecords /\ delivered[s] <= length[s]
  BY DEF StreamTypeOK
<1>2. Unread(s) = {<<s, n>> : n \in (delivered[s] + 1)..d}
  BY <1>1, StreamAssumption DEF Unread
<1> QED BY <1>1, <1>2, StreamAssumption DEF Record

LEMMA ReadInv == ASSUME StreamInv, NEW i \in Instance, NEW s \in Stream, Read(i, s) PROVE StreamInv'
<1> DEFINE d == IF delivered[s] + BatchSize < length[s] THEN delivered[s] + BatchSize ELSE length[s]
           new == [pc |-> "read", stream |-> s, batch |-> Unread(s), rows |-> {}]
<1>1. StreamTypeOK /\ d \in 0..MaxRecords
  BY StreamAssumption DEF StreamInv, StreamTypeOK
<1>2. /\ Unread(s) \subseteq Record
      /\ delivered[s] <= d /\ d <= length[s]
      /\ \A r \in Record : r \in Unread(s) <=> r[1] = s /\ delivered[s] < r[2] /\ r[2] <= d
  BY <1>1, UnreadIsNew
<1>3. /\ delivered' = [delivered EXCEPT ![s] = d]
      /\ unacked' = unacked \union Unread(s)
      /\ UNCHANGED <<length, garbled, incomplete, sessionOf, group, table, spoiled, lostCommits>>
      /\ job[i] = Idle
  BY DEF Read, recordVars
<1> HIDE DEF d
<1>4. \A r \in Record : Given(r)' <=> Given(r) \/ r \in Unread(s)
  <2> SUFFICES ASSUME NEW r \in Record PROVE Given(r)' <=> Given(r) \/ r \in Unread(s)
    OBVIOUS
  <2>1. r[1] \in Stream /\ r[2] \in 1..MaxRecords /\ delivered \in [Stream -> 0..MaxRecords]
    BY <1>1 DEF Record, StreamTypeOK
  <2>2. CASE r[1] = s
    BY <1>1, <1>2, <1>3, <2>1, <2>2, StreamAssumption DEF Given
  <2>3. CASE r[1] # s
    BY <1>1, <1>2, <1>3, <2>1, <2>3 DEF Given
  <2> QED BY <2>2, <2>3
<1>5. \A r \in Record : r \in Unread(s) => ~Given(r) /\ table[r] = 0
  <2>1. \A r \in Record : r \in Unread(s) => ~Given(r)
    BY <1>1, <1>2, StreamAssumption DEF Given, Record, StreamTypeOK
  <2> QED BY <2>1 DEF StreamInv, TableInv
<1>6. \/ job' = [job EXCEPT ![i] = new] /\ UNCHANGED streamFaults
      \/ UNCHANGED job /\ StreamFault
  BY DEF Read
<1>7. new \in Loaded
  BY <1>2 DEF Loaded
<1> HIDE DEF new
<1>8. job \in [Instance -> Job] /\ job' \in [Instance -> Job] /\ \A k \in Instance : k # i => job'[k] = job[k]
  BY <1>1, <1>6, <1>7 DEF StreamTypeOK, Job
<1>9. StreamTypeOK'
  <2>1. delivered' \in [Stream -> 0..MaxRecords] /\ \A q \in Stream : delivered'[q] <= length'[q]
    BY <1>1, <1>2, <1>3 DEF StreamTypeOK
  <2>2. unacked' \subseteq {r \in Record : Given(r)'}
    BY <1>1, <1>2, <1>3, <1>4 DEF StreamTypeOK, Given
  <2>3. FaultsTyped'
    BY <1>1, <1>3, <1>6, FaultsStayTyped
  <2> QED BY <1>1, <1>3, <1>8, <2>1, <2>2, <2>3 DEF StreamTypeOK, Given
<1>10. ~Busy(i) /\ \A k \in Instance : k # i => (Busy(k)' <=> Busy(k))
  BY <1>3, <1>8 DEF Busy, Idle
<1>11. Busy(i)' => job'[i] = new
  BY <1>3, <1>6, <1>8 DEF Busy, Idle
<1>12. ASSUME NEW k \in Instance, k # i, Busy(k)
       PROVE /\ BatchInv(job[k])'
             /\ \A r \in job[k].batch : r \in Record /\ Given(r)
  <2>1. job[k] \in Loaded /\ BatchInv(job[k]) /\ job'[k] = job[k]
    BY <1>1, <1>8, <1>12, BusyJob DEF StreamInv, BatchesInv
  <2>2. \A r \in job[k].batch : r \in Record /\ Given(r)
    BY <2>1 DEF Loaded, BatchInv
  <2> QED BY <1>3, <1>4, <2>1, <2>2 DEF BatchInv
<1>13. ASSUME Busy(i)' PROVE BatchInv(job[i])'
  <2>1. job'[i].pc = "read" /\ job'[i].batch = Unread(s) /\ job'[i].rows = {}
    BY <1>11, <1>13 DEF new
  <2>2. \A r \in Unread(s) : r \in Record /\ Given(r)' /\ table'[r] = 0 /\ r \in unacked'
    BY <1>2, <1>3, <1>4, <1>5
  <2> QED BY <2>1, <2>2 DEF BatchInv
<1>14. BatchesInv'
  BY <1>10, <1>12, <1>13 DEF BatchesInv
<1>15. BatchesApart'
  <2>1. ASSUME NEW k \in Instance, k # i, Busy(k), Busy(i)', NEW r \in Record
        PROVE ~(r \in job'[i].batch /\ r \in job'[k].batch)
    <3>1. job'[i].batch = Unread(s)
      BY <1>11, <2>1 DEF new
    <3> QED BY <1>5, <1>8, <1>12, <2>1, <3>1
  <2>2. ASSUME NEW k \in Instance, NEW l \in Instance, k # l, k # i, l # i, Busy(k), Busy(l), NEW r \in Record
        PROVE ~(r \in job'[k].batch /\ r \in job'[l].batch)
    BY <1>8, <2>2 DEF StreamInv, BatchesApart
  <2> QED BY <1>10, <2>1, <2>2 DEF BatchesApart
<1>16. TableInv'
  BY <1>3, <1>4 DEF StreamInv, TableInv
<1>17. AckInv'
  <2> SUFFICES ASSUME lostCommits = 0, NEW r \in Record, Given(r), r \notin unacked
               PROVE \/ table[r] = 1 \/ r \in garbled
                     \/ \E k \in Instance : Busy(k)' /\ r \in job'[k].batch
    BY <1>3, <1>4 DEF AckInv
  <2>1. \/ table[r] = 1 \/ r \in garbled
        \/ \E k \in Instance : Busy(k) /\ r \in job[k].batch
    BY DEF StreamInv, AckInv
  <2> QED BY <1>8, <1>10, <2>1
<1> QED BY <1>9, <1>14, <1>15, <1>16, <1>17 DEF StreamInv

------------------------------------------------------------------------------
\* A step of an instance with a batch that keeps the batch.
LEMMA BatchMoves ==
    ASSUME StreamInv, StreamTypeOK', NEW i \in Instance, NEW j \in Loaded, Busy(i),
           job' = [job EXCEPT ![i] = j], j.batch = job[i].batch, BatchInv(job[i])',
           UNCHANGED <<garbled, delivered, table, lostCommits>>,
           unacked' = unacked \/ unacked' = unacked \ j.batch
    PROVE  StreamInv'
<1>1. job \in [Instance -> Job] /\ job'[i] = j /\ \A k \in Instance : k # i => job'[k] = job[k]
  BY DEF StreamInv, StreamTypeOK
<1>2. \A k \in Instance : Busy(k)' <=> Busy(k)
  BY <1>1 DEF Busy, Loaded
<1>3. \A k \in Instance : job'[k].batch = job[k].batch
  BY <1>1
<1>4. \A r : Given(r)' <=> Given(r)
  BY DEF Given
<1>5. ASSUME NEW k \in Instance, k # i, Busy(k) PROVE BatchInv(job[k])'
  <2>1. job[k] \in Loaded /\ BatchInv(job[k]) /\ job'[k] = job[k]
    BY <1>1, <1>5, BusyJob DEF StreamInv, BatchesInv
  <2>2. \A r \in job[k].batch : r \in Record
    BY <2>1 DEF Loaded
  <2>3. \A r \in job[k].batch : r \in unacked => r \in unacked'
    BY <1>5, <2>2 DEF StreamInv, BatchesApart
  <2> QED BY <1>4, <2>1, <2>3 DEF BatchInv
<1>6. BatchesInv'
  BY <1>2, <1>5 DEF BatchesInv
<1>7. BatchesApart'
  BY <1>2, <1>3 DEF StreamInv, BatchesApart
<1>8. TableInv'
  BY <1>4 DEF StreamInv, TableInv
<1>9. AckInv'
  <2> SUFFICES ASSUME lostCommits = 0, NEW r \in Record, Given(r), r \notin unacked'
               PROVE \/ table[r] = 1 \/ r \in garbled
                     \/ \E k \in Instance : Busy(k) /\ r \in job[k].batch
    BY <1>2, <1>3, <1>4 DEF AckInv
  <2>1. CASE r \in job[i].batch BY <2>1
  <2>2. CASE r \notin job[i].batch BY <2>2 DEF StreamInv, AckInv
  <2> QED BY <2>1, <2>2
<1> QED BY <1>6, <1>7, <1>8, <1>9 DEF StreamInv

LEMMA InsertInv == ASSUME StreamInv, NEW i \in Instance, Insert(i) PROVE StreamInv'
<1>1. StreamTypeOK /\ job \in [Instance -> Job] /\ job[i].pc = "read" /\ Busy(i)
  BY DEF StreamInv, StreamTypeOK, Insert, Busy
<1>2. job[i] \in Loaded /\ BatchInv(job[i])
  BY <1>1, BusyJob DEF StreamInv, BatchesInv
<1>3. PICK pc \in {"inserted", "returning"}, rows \in SUBSET Parsed(i) :
        /\ job' = [job EXCEPT ![i].pc = pc, ![i].rows = rows]
        /\ pc = "inserted" => rows = Parsed(i)
        /\ spoiled' \subseteq spoiled \union Parsed(i)
  <2>1. ASSUME NEW failing \in SUBSET Parsed(i), NEW rows \in StoredWithout(i, failing)
        PROVE  rows \in SUBSET Parsed(i)
    BY <2>1 DEF StoredWithout
  <2>2. CASE /\ job' = [job EXCEPT ![i].pc = "inserted", ![i].rows = Parsed(i)]
             /\ UNCHANGED spoiled
    BY <2>2
  <2>3. CASE \E rows \in StoredWithout(i, Refused(i)) :
                /\ job' = [job EXCEPT ![i].pc = "returning", ![i].rows = rows]
                /\ spoiled' = spoiled \union (Parsed(i) \ rows)
    <3>1. PICK rows \in StoredWithout(i, Refused(i)) :
                /\ job' = [job EXCEPT ![i].pc = "returning", ![i].rows = rows]
                /\ spoiled' = spoiled \union (Parsed(i) \ rows)
      BY <2>3
    <3>2. rows \in SUBSET Parsed(i)
      BY <2>1 DEF Refused
    <3> QED BY <3>1, <3>2
  <2>4. CASE /\ UNCHANGED spoiled
             /\ \E failing \in Parsed(i) : \E rows \in StoredWithout(i, Refused(i) \union {failing}) :
                   job' = [job EXCEPT ![i].pc = "returning", ![i].rows = rows]
    <3>1. PICK failing \in Parsed(i) : \E rows \in StoredWithout(i, Refused(i) \union {failing}) :
                   job' = [job EXCEPT ![i].pc = "returning", ![i].rows = rows]
      BY <2>4
    <3>2. PICK rows \in StoredWithout(i, Refused(i) \union {failing}) :
                   job' = [job EXCEPT ![i].pc = "returning", ![i].rows = rows]
      BY <3>1
    <3>3. rows \in SUBSET Parsed(i)
      BY <2>1 DEF Refused
    <3> QED BY <2>4, <3>2, <3>3
  <2> QED BY <2>2, <2>3, <2>4 DEF Insert
<1>9. Parsed(i) = job[i].batch \ garbled /\ Parsed(i) \subseteq Record
  BY <1>2 DEF Parsed, Loaded
<1> DEFINE j == [job[i] EXCEPT !.pc = pc, !.rows = rows]
<1>4. /\ j \in Loaded
      /\ j.batch = job[i].batch /\ j.rows = rows /\ j.pc = pc
  BY <1>2, <1>9 DEF Loaded
<1>5. /\ UNCHANGED <<length, garbled, incomplete, sessionOf, group, delivered, unacked, table, lostCommits>>
      /\ spoiled' \subseteq Record
  BY <1>1, <1>3, <1>9 DEF Insert, recordVars, StreamTypeOK
<1>7. job' = [job EXCEPT ![i] = j] /\ job'[i] = j
  BY <1>1, <1>3
<1> HIDE DEF j
<1>6. BatchInv(job[i])'
  BY <1>1, <1>2, <1>3, <1>4, <1>5, <1>7, <1>9 DEF BatchInv, Given
<1>8. StreamTypeOK'
  <2>1. FaultsTyped'
    BY <1>1, FaultsStayTyped DEF Insert
  <2> QED BY <1>1, <1>4, <1>5, <1>7, <2>1 DEF StreamTypeOK, Job
<1> QED BY <1>1, <1>4, <1>5, <1>6, <1>7, <1>8, BatchMoves

LEMMA AcknowledgeInv == ASSUME StreamInv, NEW i \in Instance, Acknowledge(i) PROVE StreamInv'
<1>1. StreamTypeOK /\ job \in [Instance -> Job] /\ job[i].pc = "inserted" /\ Busy(i)
  BY DEF StreamInv, StreamTypeOK, Acknowledge, Busy
<1>2. job[i] \in Loaded /\ BatchInv(job[i])
  BY <1>1, BusyJob DEF StreamInv, BatchesInv
<1> DEFINE j == [job[i] EXCEPT !.pc = "returning"]
<1>3. /\ j \in Loaded
      /\ j.batch = job[i].batch /\ j.rows = job[i].rows /\ j.pc = "returning"
  BY <1>2 DEF Loaded
<1>4. UNCHANGED <<length, garbled, incomplete, sessionOf, group, delivered, table, spoiled, lostCommits>>
  BY DEF Acknowledge, recordVars
<1>5. /\ job' = [job EXCEPT ![i] = j] /\ job'[i] = j
      /\ unacked' = unacked \/ unacked' = unacked \ j.batch
  BY <1>1, <1>3 DEF Acknowledge
<1> HIDE DEF j
<1>6. BatchInv(job[i])'
  BY <1>1, <1>2, <1>3, <1>4, <1>5 DEF BatchInv, Given
<1>7. StreamTypeOK'
  <2>1. FaultsTyped'
    BY <1>1, FaultsStayTyped DEF Acknowledge
  <2> QED BY <1>1, <1>3, <1>4, <1>5, <2>1 DEF StreamTypeOK, Job
<1> QED BY <1>1, <1>3, <1>4, <1>5, <1>6, <1>7, BatchMoves

\* A batch leaves the hand of its instance: its rows are stored, or they are lost
\* and no row of it was acknowledged, or the loss is counted.
LEMMA BatchLeaves ==
    ASSUME StreamInv, StreamTypeOK', NEW i \in Instance, NEW stored \in SUBSET Record,
           ~Busy(i)', \A k \in Instance : k # i => job'[k] = job[k],
           UNCHANGED <<garbled, delivered, unacked>>,
           \A r \in Record : table'[r] = IF r \in stored THEN table[r] + 1 ELSE table[r],
           \A r \in stored : Busy(i) /\ r \in job[i].rows,
           lostCommits' = lostCommits \/ lostCommits' # 0,
           lostCommits' = 0 => \A r \in Record :
               Busy(i) /\ r \in job[i].batch => r \in unacked \/ r \in stored \/ r \in garbled
    PROVE  StreamInv'
<1>1. \A k \in Instance : k # i => (Busy(k)' <=> Busy(k))
  BY DEF Busy
<1>2. \A r : Given(r)' <=> Given(r)
  BY DEF Given
<1>3. Busy(i) => job[i] \in Loaded /\ BatchInv(job[i])
  BY BusyJob DEF StreamInv, BatchesInv
<1>4. \A r \in stored : Busy(i) /\ r \in job[i].batch /\ table[r] = 0 /\ r \notin garbled /\ Given(r)
  BY <1>3 DEF BatchInv
<1>5. ASSUME NEW k \in Instance, k # i, Busy(k) PROVE BatchInv(job[k])'
  <2>1. job[k] \in Loaded /\ BatchInv(job[k]) /\ job'[k] = job[k]
    BY <1>5, BusyJob DEF StreamInv, BatchesInv
  <2>2. \A r \in job[k].batch : r \in Record
    BY <2>1 DEF Loaded
  <2>3. \A r \in job[k].batch : r \notin stored
    BY <1>4, <1>5, <2>2 DEF StreamInv, BatchesApart
  <2>4. \A r \in job[k].batch : table'[r] = table[r]
    BY <2>2, <2>3
  <2> QED BY <1>2, <2>1, <2>4 DEF BatchInv
<1>6. BatchesInv'
  BY <1>1, <1>5 DEF BatchesInv, BatchInv
<1>7. BatchesApart'
  BY <1>1 DEF StreamInv, BatchesApart
<1>8. TableInv'
  BY <1>2, <1>4 DEF StreamInv, TableInv
<1>9. AckInv'
  <2> SUFFICES ASSUME lostCommits' = 0, NEW r \in Record, Given(r), r \notin unacked
               PROVE \/ table'[r] = 1 \/ r \in garbled
                     \/ \E k \in Instance : Busy(k)' /\ r \in job'[k].batch
    BY <1>2 DEF AckInv
  <2>1. CASE r \in stored
    BY <1>4, <2>1
  <2>2. CASE r \notin stored
    <3>1. table'[r] = table[r] /\ lostCommits = 0
      BY <2>2
    <3>2. PICK k \in Instance : table[r] = 1 \/ r \in garbled \/ (Busy(k) /\ r \in job[k].batch)
      BY <3>1 DEF StreamInv, AckInv
    <3>3. CASE k = i
      BY <2>2, <3>1, <3>2, <3>3
    <3>4. CASE k # i
      BY <1>1, <3>1, <3>2, <3>4
    <3> QED BY <3>3, <3>4
  <2> QED BY <2>1, <2>2
<1> QED BY <1>6, <1>7, <1>8, <1>9 DEF StreamInv

LEMMA NothingStored ==
    ASSUME StreamInv, StreamTypeOK', NEW i \in Instance,
           ~Busy(i)', \A k \in Instance : k # i => job'[k] = job[k],
           UNCHANGED <<garbled, delivered, unacked, table>>,
           lostCommits' = lostCommits \/ lostCommits' # 0,
           lostCommits' = 0 => \A r \in Record : Busy(i) /\ r \in job[i].batch => r \in unacked
    PROVE  StreamInv'
<1> DEFINE stored == {}
<1>1. /\ stored \in SUBSET Record
      /\ \A r \in Record : table'[r] = IF r \in stored THEN table[r] + 1 ELSE table[r]
      /\ \A r \in stored : Busy(i) /\ r \in job[i].rows
      /\ lostCommits' = 0 => \A r \in Record :
             Busy(i) /\ r \in job[i].batch => r \in unacked \/ r \in stored \/ r \in garbled
  OBVIOUS
<1> HIDE DEF stored
<1> QED BY <1>1, BatchLeaves

LEMMA CommitInv == ASSUME StreamInv, NEW i \in Instance, Commit(i) PROVE StreamInv'
<1>1. StreamTypeOK /\ job \in [Instance -> Job] /\ job[i].pc = "returning" /\ Busy(i)
  BY DEF StreamInv, StreamTypeOK, Commit, Busy
<1>2. job[i] \in Loaded /\ BatchInv(job[i])
  BY <1>1, BusyJob DEF StreamInv, BatchesInv
<1>3. /\ job' = [job EXCEPT ![i] = Idle] /\ Idle \in Job
      /\ UNCHANGED <<length, garbled, incomplete, sessionOf, group, delivered, unacked, spoiled>>
  BY DEF Commit, Job, recordVars
<1>4. job' \in [Instance -> Job] /\ ~Busy(i)' /\ \A k \in Instance : k # i => job'[k] = job[k]
  BY <1>1, <1>3 DEF Busy, Idle
<1>5. job[i].rows \subseteq Record
  BY <1>2 DEF Loaded
<1>6. CASE /\ table' = [r \in Record |-> IF r \in job[i].rows THEN table[r] + 1 ELSE table[r]]
           /\ UNCHANGED <<streamFaults, lostCommits>>
  <2>1. \A r \in Record : table'[r] = IF r \in job[i].rows THEN table[r] + 1 ELSE table[r]
    BY <1>6
  <2>2. table' \in [Record -> 0..2]
    BY <1>6 DEF StreamInv, TableInv
  <2>3. StreamTypeOK'
    BY <1>1, <1>3, <1>4, <1>6, <2>2, FaultsStayTyped DEF StreamTypeOK
  <2>4. \A r \in job[i].batch : r \in unacked \/ r \in job[i].rows \/ r \in garbled
    BY <1>1, <1>2 DEF BatchInv
  <2> QED BY <1>1, <1>3, <1>4, <1>5, <1>6, <2>1, <2>3, <2>4, BatchLeaves
<1>7. CASE StreamFault /\ lostCommits' = lostCommits + 1 /\ UNCHANGED table
  <2>1. lostCommits' # 0
    BY <1>1, <1>7, StreamAssumption DEF StreamTypeOK, FaultsTyped
  <2>2. StreamTypeOK'
    <3>1. FaultsTyped'
      BY <1>1, <1>7, FaultsStayTyped
    <3> QED BY <1>1, <1>3, <1>4, <1>7, <3>1 DEF StreamTypeOK
  <2> QED BY <1>3, <1>4, <1>7, <2>1, <2>2, NothingStored
<1> QED BY <1>6, <1>7 DEF Commit

LEMMA CrashInv == ASSUME StreamInv, NEW i \in Instance, InstanceCrash(i) PROVE StreamInv'
<1>1. StreamTypeOK /\ job \in [Instance -> Job] /\ lostCommits \in Nat
  BY StreamAssumption DEF StreamInv, StreamTypeOK, FaultsTyped
<1>2. /\ job' = [job EXCEPT ![i] = [pc |-> "starting"]] /\ [pc |-> "starting"] \in Job
      /\ UNCHANGED <<length, garbled, incomplete, sessionOf, group, delivered, unacked, table, spoiled>>
  BY DEF InstanceCrash, Job, recordVars
<1>3. job' \in [Instance -> Job] /\ ~Busy(i)' /\ \A k \in Instance : k # i => job'[k] = job[k]
  BY <1>1, <1>2 DEF Busy
<1>4. StreamTypeOK'
  BY <1>1, <1>2, <1>3, FaultsStayTyped DEF StreamTypeOK, InstanceCrash
<1>5. lostCommits' = lostCommits \/ lostCommits' # 0
  BY <1>1 DEF InstanceCrash
<1>6. ASSUME lostCommits' = 0
      PROVE  \A r \in Record : Busy(i) /\ r \in job[i].batch => r \in unacked
  <2> SUFFICES ASSUME NEW r \in Record, Busy(i), r \in job[i].batch PROVE r \in unacked
    OBVIOUS
  <2>1. job[i].pc # "returning"
    BY <1>1, <1>6 DEF InstanceCrash
  <2>2. BatchInv(job[i]) /\ job[i].pc \in {"read", "inserted"}
    BY <2>1 DEF StreamInv, BatchesInv, Busy
  <2> QED BY <2>2 DEF BatchInv
<1> QED BY <1>2, <1>3, <1>4, <1>5, <1>6, NothingStored

\* Every step of the producer or an instance keeps the invariant.
LEMMA StreamStep == ASSUME StreamInv, [StreamNext]_streamVars PROVE StreamInv'
<1>1. CASE UNCHANGED streamVars
  BY <1>1 DEF streamVars, recordVars, StreamInv, StreamTypeOK, FaultsTyped, BatchesInv, BatchesApart,
              TableInv, AckInv, BatchInv, Busy, Given
<1>2. CASE StreamNext
  BY <1>2, ProduceInv, InitGroupsInv, ReadInv, InsertInv, AcknowledgeInv, CommitInv, CrashInv
     DEF StreamNext
<1> QED BY <1>1, <1>2

------------------------------------------------------------------------------
\* The inductive invariant of the streams, the group and the table.
THEOREM StreamInvariance == StreamSpec => []StreamInv
  BY InitStream, StreamStep, PTL DEF StreamSpec

\* The streams, the group and the table keep to their types.
THEOREM StreamTyped == StreamSpec => []StreamTypeOK
<1>1. StreamInv => StreamTypeOK
  BY DEF StreamInv
<1> QED BY <1>1, StreamInvariance, PTL

\* A record is stored at most once, whatever fails and however many instances read
\* (readFromStream, the consumer group).
THEOREM RecordsAreStoredOnce == StreamSpec => []StoredOnce
<1>1. StreamInv => StoredOnce
  BY DEF StreamInv, TableInv, StoredOnce
<1> QED BY <1>1, StreamInvariance, PTL

\* What is acknowledged is stored or about to be (consumeMemoryStream inserts before
\* it acknowledges).
THEOREM AcknowledgementsAreTrue == StreamSpec => []AcknowledgedIsStored
<1>1. StreamInv => AcknowledgedIsStored
  BY DEF StreamInv, AckInv, AcknowledgedIsStored, InHand, Given
<1> QED BY <1>1, StreamInvariance, PTL
==============================================================================
