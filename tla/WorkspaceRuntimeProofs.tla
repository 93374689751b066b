------------------------- MODULE WorkspaceRuntimeProofs -------------------------
(****************************************************************************)
(* RunIsCurrent, CacheIsCurrent and OutcomeIsReachable for any requests and *)
(* any number of generations and restarts.  They rest on the discipline of  *)
(* the two locks (TypeOK, LockHeads) and on one fact about time: managers   *)
(* are built in the order of arrival, so that once a generation's manager   *)
(* has been used nobody builds an older one (Ordered).                      *)
(****************************************************************************)
EXTENDS WorkspaceRuntime, SequenceTheorems, TLAPS

ManagerPcs == {"waiting", "building", "invalidate"}
RunsPcs == {"guard", "pending", "ending", "invalidate", "closing"}
RunPcs == {"pending", "running", "ending"}

Builds(q) == q.pc \in {"waiting", "building"}

\* Who builds has the manager lock; who decides or invalidates, the other one.
LockHeads ==
    \A r \in Request : /\ At(r, "building") => Holds(managerLock, r)
                       /\ req[r].pc \in {"pending", "invalidate", "closing"} => Holds(runsLock, r)

\* What a request of each kind comes to, and what it knows by then.
Sensible(q) ==
    /\ q.pc \in {"waiting", "building", "open"} => q.kind \in {"chat", "resume"}
    /\ q.pc \in {"turn"} => q.kind = "chat"
    /\ q.pc \in RunPcs => q.kind = "resume"
    /\ q.pc \in {"invalidate", "closing"} => q.kind \in {"change", "delete"}
    /\ q.pc = "guard" => q.kind # "chat"
    /\ q.kind = "resume" \/ q.pc \in {"waiting", "building", "open", "turn"} => q.ws # 0
    /\ q.kind = "resume" => q.pc # "idle"
    /\ q.kind = "resume" /\ ~Builds(q) => q.mgr # 0
    /\ Builds(q) => q.mgr = 0

\* The registered generation is the last one issued, and nobody knows a later one.
Known(q) == q.ws =< issued /\ q.mgr =< issued

Issued ==
    /\ workspace \in {0, issued} /\ leftover \in {0, issued} /\ cached =< issued
    /\ workspace # 0 => leftover = 0
    /\ \A r \in Request : Known(req[r])
    /\ \A g \in Issuable : row[g] =< issued

\* Nobody will serve, and nobody will build, a manager older than g.
Newer(g) ==
    /\ cached = 0 \/ g =< cached
    /\ \A r \in Request : Builds(req[r]) => g =< req[r].ws

Ordered ==
    /\ \A i, j \in 1..Len(managerLock) :
          i < j /\ Builds(req[managerLock[i]]) /\ Builds(req[managerLock[j]])
             => req[managerLock[i]].ws =< req[managerLock[j]].ws
    /\ \A r \in Request : Builds(req[r]) => cached =< req[r].ws
    /\ \A r \in Request : req[r].mgr # 0 => Newer(req[r].mgr)
    /\ \A g \in Issuable : row[g] = g => Newer(g)

\* Who resumes an approval that can be claimed has the manager that stored it.
Resumes(q) ==
    q.kind = "resume" =>
        /\ thread[q.ws] # "fresh"
        /\ q.mgr # 0 /\ row[q.ws] = q.ws => q.mgr = q.ws
        /\ q.pc \in RunPcs => q.ws = workspace
        /\ q.pc \in {"running", "ending"} => row[q.ws] = q.ws

ResumesKnow == \A r \in Request : Resumes(req[r])

\* What is being applied has its run.
OutcomeHasRun ==
    "outcome" \notin faults =>
        \A g \in Issuable : outcome[g] = "applying" =>
            \E r \in Request : At(r, "running") /\ req[r].ws = g

\* Whoever builds for a generation that is over is followed by its invalidation.
BuilderIsFollowed ==
    "removal" \notin faults =>
        \A i \in 1..Len(managerLock) :
            Builds(req[managerLock[i]]) /\ req[managerLock[i]].ws # workspace =>
                \E j \in (i + 1)..Len(managerLock) : At(managerLock[j], "invalidate")

Inv ==
    /\ TypeOK /\ LockHeads /\ (\A r \in Request : Sensible(req[r])) /\ Issued
    /\ Ordered /\ ResumesKnow /\ OutcomeHasRun /\ BuilderIsFollowed /\ CacheIsCurrent

------------------------------------------------------------------------------
\* Sequences without duplicates.

Queue(l, S) == l \in Seq(Request) /\ IsInjective(l) /\ ToSet(l) = S

\* What a step of r may do to a lock: leave it, join its queue, or give it back.
Turn(l, m, r, was, is) ==
    \/ m = l /\ (was <=> is)
    \/ m = Append(l, r) /\ ~was /\ is
    \/ m = Tail(l) /\ l # <<>> /\ Head(l) = r /\ ~is

LEMMA Positions ==
  ASSUME NEW l \in Seq(Request), NEW r \in Request
  PROVE  /\ Len(l) \in Nat /\ DOMAIN l = 1..Len(l) /\ l = <<>> <=> Len(l) = 0
         /\ \A i \in 1..Len(l) : l[i] \in Request
         /\ /\ Append(l, r) \in Seq(Request) /\ Len(Append(l, r)) = Len(l) + 1
            /\ DOMAIN Append(l, r) = 1..(Len(l) + 1)
            /\ Append(l, r)[Len(l) + 1] = r
            /\ \A i \in 1..Len(l) : Append(l, r)[i] = l[i]
         /\ l # <<>> => /\ Head(l) = l[1] /\ Tail(l) \in Seq(Request)
                        /\ Len(l) >= 1 /\ Len(Tail(l)) = Len(l) - 1
                        /\ DOMAIN Tail(l) = 1..(Len(l) - 1)
                        /\ \A i \in 1..(Len(l) - 1) : Tail(l)[i] = l[i + 1]
<1>1. Len(l) \in Nat /\ DOMAIN l = 1..Len(l) /\ (l = <<>> <=> Len(l) = 0)
      /\ \A i \in 1..Len(l) : l[i] \in Request
  BY LenProperties, EmptySeq, ElementOfSeq
<1>2. /\ Append(l, r) \in Seq(Request) /\ Len(Append(l, r)) = Len(l) + 1
      /\ Append(l, r)[Len(l) + 1] = r
      /\ \A i \in 1..Len(l) : Append(l, r)[i] = l[i]
  BY AppendProperties
<1>3. DOMAIN Append(l, r) = 1..(Len(l) + 1)
  BY <1>2, LenProperties
<1>4. ASSUME l # <<>>
      PROVE  /\ Head(l) = l[1] /\ Tail(l) \in Seq(Request)
             /\ Len(Tail(l)) = Len(l) - 1
             /\ \A i \in 1..(Len(l) - 1) : Tail(l)[i] = l[i + 1]
  <2>1. Head(l) = l[1]
    BY <1>4
  <2>2. /\ Tail(l) \in Seq(Request) /\ Len(Tail(l)) = Len(l) - 1
        /\ \A i \in 1..Len(Tail(l)) : Tail(l)[i] = l[i + 1]
    BY <1>4, HeadTailProperties
  <2>. QED
    BY <2>1, <2>2
<1>5. l # <<>> => DOMAIN Tail(l) = 1..(Len(l) - 1) /\ Len(l) >= 1
  BY <1>1, <1>4, LenProperties
<1>. QED
  BY <1>1, <1>2, <1>3, <1>4, <1>5

\* A queue stays one, and whoever else is at its head stays there.
LEMMA QueueTurns ==
  ASSUME NEW l, NEW m, NEW S, NEW r \in Request, NEW pc, NEW pcs, Queue(l, S),
         Turn(l, m, r, r \in S, pc \in pcs)
  PROVE  /\ Queue(m, IF pc \in pcs THEN S \union {r} ELSE S \ {r})
         /\ \A s \in Request \ {r} : Holds(l, s) => Holds(m, s)
<1>1. l \in Seq(Request) /\ ToSet(l) = S
      /\ \A i, j \in 1..Len(l) : l[i] = l[j] => i = j
  BY Positions DEF Queue, IsInjective
<1>2. CASE m = l /\ (r \in S <=> pc \in pcs)
  <2>1. (IF pc \in pcs THEN S \union {r} ELSE S \ {r}) = S
    BY <1>2
  <2>. QED
    BY <1>2, <2>1
<1>3. CASE m = Append(l, r) /\ r \notin S /\ pc \in pcs
  <2>1. ToSet(m) = S \union {r}
    BY <1>1, <1>3, Positions DEF ToSet
  <2>2. \A i \in 1..Len(l) : l[i] # r
    BY <1>1, <1>3, Positions DEF ToSet
  <2>3. IsInjective(m)
    BY <1>1, <1>3, <2>2, Positions DEF IsInjective
  <2>4. \A s \in Request : Holds(l, s) => Holds(m, s)
    <3>1. l # <<>> => m # <<>> /\ Head(m) = Head(l)
      BY <1>1, <1>3, Positions
    <3>. QED
      BY <3>1 DEF Holds
  <2>. QED
    BY <1>1, <1>3, <2>1, <2>3, <2>4, Positions DEF Queue
<1>4. CASE m = Tail(l) /\ l # <<>> /\ Head(l) = r /\ pc \notin pcs
  <2>1. ToSet(m) = S \ {r}
    <3>1. /\ Len(l) \in Nat /\ DOMAIN l = 1..Len(l) /\ DOMAIN m = 1..(Len(l) - 1) /\ Len(l) >= 1
          /\ l[1] = r /\ \A i \in 1..(Len(l) - 1) : m[i] = l[i + 1]
      BY <1>1, <1>4, Positions
    <3>2. ASSUME NEW i \in 1..(Len(l) - 1) PROVE m[i] \in S \ {r}
      <4>1. i + 1 \in 1..Len(l) /\ 1 \in 1..Len(l) /\ i + 1 # 1
        BY <3>1
      <4>. QED
        BY <1>1, <3>1, <4>1 DEF ToSet
    <3>3. ASSUME NEW x \in S \ {r} PROVE \E i \in 1..(Len(l) - 1) : m[i] = x
      <4>1. PICK i \in 1..Len(l) : l[i] = x
        BY <1>1, <3>1 DEF ToSet
      <4>2. i - 1 \in 1..(Len(l) - 1) /\ (i - 1) + 1 = i
        BY <3>1, <4>1
      <4>. QED
        BY <3>1, <4>1, <4>2
    <3>4. ToSet(m) = {m[i] : i \in 1..(Len(l) - 1)}
      BY <3>1 DEF ToSet
    <3>. QED
      BY <3>2, <3>3, <3>4
  <2>2. IsInjective(m)
    BY <1>1, <1>4, Positions DEF IsInjective
  <2>. QED
    BY <1>1, <1>4, <2>1, <2>2, Positions DEF Queue, Holds
<1>. QED
  BY <1>2, <1>3, <1>4 DEF Turn

------------------------------------------------------------------------------
\* A step in which one request, r, goes on and becomes q; what it may change.

ReqType == [kind : Kind, pc : Pc, ws : 0..MaxGeneration, mgr : 0..MaxGeneration]

Data ==
    /\ workspace \in 0..MaxGeneration /\ issued \in Issuable
    /\ leftover \in 0..MaxGeneration
    /\ cached \in 0..MaxGeneration
    /\ thread \in [Issuable -> {"fresh", "asking", "resolved"}]
    /\ row \in [Issuable -> 0..MaxGeneration]
    /\ outcome \in [Issuable -> {"absent", "applying", "terminal"}]
    /\ restarts \in 0..MaxRestarts /\ faults \subseteq Fault

Locked(r, q) ==
    /\ Turn(managerLock, managerLock', r, req[r].pc \in ManagerPcs, q.pc \in ManagerPcs)
    /\ Turn(runsLock, runsLock', r, req[r].pc \in RunsPcs, q.pc \in RunsPcs)
    /\ q.pc = "building" => Holds(managerLock', r)
    /\ q.pc \in {"pending", "invalidate", "closing"} => Holds(runsLock', r)

\* It learns of no generation but the last, and builds for the one it has resolved.
Timely(r, q) ==
    /\ issued =< issued' /\ workspace' \in {0, issued'} /\ leftover' \in {0, issued'}
    /\ workspace' # 0 => leftover' = 0
    /\ q.ws =< issued' /\ q.mgr =< issued'
    /\ Builds(q) => \/ Builds(req[r]) /\ q.ws = req[r].ws /\ managerLock' = managerLock
                    \/ /\ q.ws = issued /\ q.ws = workspace /\ workspace' = workspace
                       /\ managerLock' = Append(managerLock, r)
    /\ \/ cached' \in {0, cached}
       \/ /\ At(r, "building") /\ cached' = req[r].ws /\ workspace' = workspace
          /\ managerLock' = Tail(managerLock)
    /\ q.mgr \in {0, req[r].mgr, cached'}
    /\ \A g \in Issuable : row'[g] \in {row[g], req[r].mgr}

\* It changes the workspace under no run, and the row of no approval that is asked for.
Respects(r, q) ==
    /\ \A g \in Issuable : thread[g] # "fresh" => thread'[g] # "fresh" /\ row'[g] = row[g]
    /\ workspace' = workspace \/ \A s \in Request \ {r} : req[s].pc \notin RunPcs
    /\ q.kind = "resume" =>
           /\ thread'[q.ws] # "fresh"
           /\ q.mgr # 0 /\ row'[q.ws] = q.ws => q.mgr = q.ws
           /\ q.pc \in RunPcs => q.ws = workspace'
           /\ q.pc \in {"running", "ending"} => row'[q.ws] = q.ws

\* It leaves no outcome undecided but the one it goes on with.
Decides(r, q) ==
    /\ faults \subseteq faults'
    /\ "outcome" \notin faults' =>
           \A g \in Issuable : outcome'[g] = "applying" =>
               \/ outcome[g] = "applying" /\ ~(At(r, "running") /\ req[r].ws = g)
               \/ q.pc = "running" /\ q.ws = g

\* When it changes the workspace, it sees to the managers.
Invalidates(r, q) ==
    /\ \/ workspace' = workspace
       \/ q.pc = "invalidate" /\ managerLock' = Append(managerLock, r)
       \/ managerLock' = <<>> /\ cached' = 0
       \/ "removal" \in faults'
    /\ At(r, "invalidate") => cached' = 0 /\ managerLock' = Tail(managerLock) /\ managerLock # <<>>

Step(r, q) ==
    /\ req' = [req EXCEPT ![r] = q] /\ q \in ReqType /\ Sensible(q)
    /\ Data'
    /\ Locked(r, q) /\ Timely(r, q) /\ Respects(r, q) /\ Decides(r, q) /\ Invalidates(r, q)

LEMMA Unfold ==
  TypeOK <=> /\ Data /\ req \in [Request -> ReqType]
             /\ Queue(managerLock, {r \in Request : req[r].pc \in ManagerPcs})
             /\ Queue(runsLock, {r \in Request : req[r].pc \in RunsPcs})
BY DEF TypeOK, Data, ReqType, IsQueueOf, Queue, ManagerPcs, RunsPcs

LEMMA UnfoldNext ==
  TypeOK' <=> /\ Data' /\ req' \in [Request -> ReqType]
              /\ Queue(managerLock', {r \in Request : req'[r].pc \in ManagerPcs})
              /\ Queue(runsLock', {r \in Request : req'[r].pc \in RunsPcs})
BY DEF TypeOK, Data, ReqType, IsQueueOf, Queue, ManagerPcs, RunsPcs

LEMMA Moved ==
  ASSUME TypeOK, NEW r \in Request, NEW q \in ReqType, req' = [req EXCEPT ![r] = q]
  PROVE  /\ req' \in [Request -> ReqType] /\ req'[r] = q
         /\ \A s \in Request \ {r} : req'[s] = req[s]
BY Unfold

LEMMA LocksInv ==
  ASSUME Inv, NEW r \in Request, NEW q, Step(r, q)
  PROVE  TypeOK' /\ LockHeads' /\ (\A s \in Request : Sensible(req'[s]))
<1>1. /\ TypeOK /\ q \in ReqType /\ req' = [req EXCEPT ![r] = q] /\ Locked(r, q) /\ Sensible(q)
      /\ Data'
  BY DEF Inv, Step
<1>2. /\ req' \in [Request -> ReqType] /\ req'[r] = q
      /\ \A s \in Request \ {r} : req'[s] = req[s]
  BY <1>1, Moved
<1>3. ASSUME NEW pcs
      PROVE  {s \in Request : req'[s].pc \in pcs} =
                 IF q.pc \in pcs THEN {s \in Request : req[s].pc \in pcs} \union {r}
                 ELSE {s \in Request : req[s].pc \in pcs} \ {r}
  BY <1>2
<1>4. /\ Queue(managerLock', {s \in Request : req'[s].pc \in ManagerPcs})
      /\ \A s \in Request \ {r} : Holds(managerLock, s) => Holds(managerLock', s)
  <2> DEFINE S == {s \in Request : req[s].pc \in ManagerPcs}
             pc == q.pc
  <2>1. Queue(managerLock, S)
    BY <1>1, Unfold
  <2>2. Turn(managerLock, managerLock', r, r \in S, pc \in ManagerPcs)
    BY <1>1 DEF Locked, Turn
  <2>3. {s \in Request : req'[s].pc \in ManagerPcs} =
            IF pc \in ManagerPcs THEN S \union {r} ELSE S \ {r}
    BY <1>3
  <2>. HIDE DEF S, pc
  <2>4. /\ Queue(managerLock', IF pc \in ManagerPcs THEN S \union {r} ELSE S \ {r})
        /\ \A s \in Request \ {r} : Holds(managerLock, s) => Holds(managerLock', s)
    BY <2>1, <2>2, QueueTurns, Zenon
  <2>. QED
    BY <2>3, <2>4
<1>5. /\ Queue(runsLock', {s \in Request : req'[s].pc \in RunsPcs})
      /\ \A s \in Request \ {r} : Holds(runsLock, s) => Holds(runsLock', s)
  <2> DEFINE S == {s \in Request : req[s].pc \in RunsPcs}
             pc == q.pc
  <2>1. Queue(runsLock, S)
    BY <1>1, Unfold
  <2>2. Turn(runsLock, runsLock', r, r \in S, pc \in RunsPcs)
    BY <1>1 DEF Locked, Turn
  <2>3. {s \in Request : req'[s].pc \in RunsPcs} =
            IF pc \in RunsPcs THEN S \union {r} ELSE S \ {r}
    BY <1>3
  <2>. HIDE DEF S, pc
  <2>4. /\ Queue(runsLock', IF pc \in RunsPcs THEN S \union {r} ELSE S \ {r})
        /\ \A s \in Request \ {r} : Holds(runsLock, s) => Holds(runsLock', s)
    BY <2>1, <2>2, QueueTurns, Zenon
  <2>. QED
    BY <2>3, <2>4
<1>6. TypeOK'
  BY <1>1, <1>2, <1>4, <1>5, UnfoldNext
<1>7. LockHeads'
  <2>1. LockHeads
    BY DEF Inv
  <2>. QED
    BY <1>1, <1>2, <1>4, <1>5, <2>1 DEF LockHeads, At, Holds, Locked
<1>8. \A s \in Request : Sensible(req'[s])
  BY <1>1, <1>2 DEF Inv
<1>. QED
  BY <1>6, <1>7, <1>8

\* What a step leaves to be used, all in one place.
LEMMA StepFacts ==
  ASSUME Inv, NEW r \in Request, NEW q, Step(r, q)
  PROVE  /\ q \in ReqType /\ req' \in [Request -> ReqType] /\ req'[r] = q
         /\ req[r] \in ReqType
         /\ \A s \in Request \ {r} : req'[s] = req[s]
         /\ managerLock \in Seq(Request)
         /\ \A i, j \in 1..Len(managerLock) : managerLock[i] = managerLock[j] => i = j
         /\ \A s \in Request : req[s].pc \in ManagerPcs
                <=> \E i \in 1..Len(managerLock) : managerLock[i] = s
         /\ issued \in Nat /\ issued' \in Nat /\ cached \in Nat /\ cached' \in Nat
         /\ \A s \in Request : /\ req[s].ws \in Nat /\ req[s].mgr \in Nat
                               /\ req'[s].ws \in Nat /\ req'[s].mgr \in Nat
         /\ Turn(managerLock, managerLock', r, req[r].pc \in ManagerPcs, q.pc \in ManagerPcs)
<1>1. TypeOK /\ q \in ReqType /\ req' = [req EXCEPT ![r] = q] /\ Data'
  BY DEF Inv, Step
<1>2. /\ req' \in [Request -> ReqType] /\ req'[r] = q
      /\ \A s \in Request \ {r} : req'[s] = req[s]
  BY <1>1, Moved
<1>3. req \in [Request -> ReqType] /\ Data
      /\ Queue(managerLock, {s \in Request : req[s].pc \in ManagerPcs})
  BY <1>1, Unfold
<1>4. managerLock \in Seq(Request) /\ DOMAIN managerLock = 1..Len(managerLock)
  BY <1>3, Positions DEF Queue
<1>5. /\ \A i, j \in 1..Len(managerLock) : managerLock[i] = managerLock[j] => i = j
      /\ \A s \in Request : req[s].pc \in ManagerPcs
             <=> \E i \in 1..Len(managerLock) : managerLock[i] = s
  BY <1>3, <1>4 DEF Queue, IsInjective, ToSet
<1>6. issued \in Nat /\ issued' \in Nat /\ cached \in Nat /\ cached' \in Nat
  BY <1>1, <1>3, MaxGenerationAssumption DEF Data, Issuable
<1>7. \A s \in Request : /\ req[s].ws \in Nat /\ req[s].mgr \in Nat
                         /\ req'[s].ws \in Nat /\ req'[s].mgr \in Nat
  BY <1>2, <1>3, MaxGenerationAssumption DEF ReqType
<1>8. Turn(managerLock, managerLock', r, req[r].pc \in ManagerPcs, q.pc \in ManagerPcs)
  BY DEF Step, Locked, Turn
<1>. QED
  BY <1>1, <1>2, <1>3, <1>4, <1>5, <1>6, <1>7, <1>8

\* The builder is first in its queue, and the others in it came later.
LEMMA BuilderIsFirst ==
  ASSUME Inv, NEW r \in Request, NEW q, Step(r, q), At(r, "building")
  PROVE  \A s \in Request : Builds(req[s]) => req[r].ws =< req[s].ws
<1> SUFFICES ASSUME NEW s \in Request, Builds(req[s]) PROVE req[r].ws =< req[s].ws
  OBVIOUS
<1>1. managerLock # <<>> /\ managerLock[1] = r /\ 1 \in 1..Len(managerLock)
  BY StepFacts, Positions DEF Inv, LockHeads, Holds
<1>2. PICK j \in 1..Len(managerLock) : managerLock[j] = s
  BY StepFacts DEF Builds, ManagerPcs
<1>3. CASE j = 1
  BY <1>1, <1>2, <1>3, StepFacts
<1>4. CASE j # 1
  BY <1>1, <1>2, <1>4 DEF Inv, Ordered, At, Builds
<1>. QED
  BY <1>3, <1>4

LEMMA NewerStays ==
  ASSUME Inv, NEW r \in Request, NEW q, Step(r, q),
         NEW g \in Nat, g =< issued, Newer(g)
  PROVE  /\ cached' = 0 \/ g =< cached'
         /\ \A s \in Request : Builds(req'[s]) => g =< req'[s].ws
<1>1. cached' = 0 \/ g =< cached'
  <2>1. CASE cached' \in {0, cached}
    BY <2>1 DEF Newer
  <2>2. CASE At(r, "building") /\ cached' = req[r].ws
    BY <2>2 DEF Newer, Builds, At
  <2>. QED
    BY <2>1, <2>2 DEF Step, Timely
<1>2. \A s \in Request : Builds(req'[s]) => g =< req'[s].ws
  <2>1. Builds(q) => g =< q.ws
    <3>1. Builds(q) => (Builds(req[r]) /\ q.ws = req[r].ws) \/ q.ws = issued
      BY DEF Step, Timely
    <3>. QED
      BY <3>1 DEF Newer
  <2>. QED
    BY <2>1, StepFacts DEF Newer
<1>. QED
  BY <1>1, <1>2

LEMMA IssuedInv ==
  ASSUME Inv, NEW r \in Request, NEW q, Step(r, q)
  PROVE  Issued'
<1>1. Issued /\ issued =< issued'
  BY DEF Inv, Step, Timely
<1>2. workspace' \in {0, issued'} /\ leftover' \in {0, issued'} /\ (workspace' # 0 => leftover' = 0)
  BY DEF Step, Timely
<1>3. cached' =< issued'
  <2>1. cached' \in {0, cached} \/ cached' = req[r].ws
    BY DEF Step, Timely
  <2>. QED
    BY <1>1, <2>1, StepFacts DEF Issued, Known
<1>4. \A s \in Request : req'[s].ws =< issued' /\ req'[s].mgr =< issued'
  <2>1. q.ws =< issued' /\ q.mgr =< issued'
    BY DEF Step, Timely
  <2>. QED
    BY <1>1, <2>1, StepFacts, SMTT(30) DEF Issued, Known
<1>5. \A g \in Issuable : row'[g] =< issued'
  <2>1. \A g \in Issuable : row'[g] \in {row[g], req[r].mgr} /\ row[g] \in Nat
    BY Unfold DEF Inv, Step, Timely, Data
  <2>. QED
    BY <1>1, <2>1, StepFacts DEF Issued, Known
<1>. QED
  BY <1>2, <1>3, <1>4, <1>5 DEF Issued, Known

LEMMA QueueInOrder ==
  ASSUME Inv, NEW r \in Request, NEW q, Step(r, q)
  PROVE  \A i, j \in 1..Len(managerLock') :
             i < j /\ Builds(req'[managerLock'[i]]) /\ Builds(req'[managerLock'[j]])
                => req'[managerLock'[i]].ws =< req'[managerLock'[j]].ws
<1> SUFFICES ASSUME NEW i \in 1..Len(managerLock'), NEW j \in 1..Len(managerLock'), i < j,
                    Builds(req'[managerLock'[i]]), Builds(req'[managerLock'[j]])
             PROVE  req'[managerLock'[i]].ws =< req'[managerLock'[j]].ws
  OBVIOUS
<1> DEFINE n == Len(managerLock)
<1>1. /\ n \in Nat /\ \A k \in 1..n : managerLock[k] \in Request
      /\ req'[r] = q /\ \A s \in Request \ {r} : req'[s] = req[s]
  BY StepFacts, Positions
<1>2. \A k, l \in 1..n : k < l /\ Builds(req[managerLock[k]]) /\ Builds(req[managerLock[l]])
         => req[managerLock[k]].ws =< req[managerLock[l]].ws
  BY DEF Inv, Ordered
<1>3. Builds(q) => \/ Builds(req[r]) /\ q.ws = req[r].ws /\ managerLock' = managerLock
                   \/ q.ws = issued /\ managerLock' = Append(managerLock, r)
  BY DEF Step, Timely
<1>4. CASE managerLock' = managerLock
  <2>1. Len(Append(managerLock, r)) = n + 1
    BY StepFacts, Positions
  <2>2. Builds(q) => Builds(req[r]) /\ q.ws = req[r].ws
    BY <1>1, <1>3, <1>4, <2>1
  <2>. QED
    BY <1>1, <1>2, <1>4, <2>2
<1>5. CASE managerLock' = Append(managerLock, r) /\ req[r].pc \notin ManagerPcs
  <2>1. /\ Len(managerLock') = n + 1 /\ managerLock'[n + 1] = r
        /\ \A k \in 1..n : managerLock'[k] = managerLock[k]
    BY <1>5, StepFacts, Positions
  <2>2. \A k \in 1..n : managerLock[k] # r
    BY <1>5, StepFacts
  <2>3. CASE j = n + 1
    <3>1. i \in 1..n /\ ~Builds(req[r])
      BY <1>1, <1>5, <2>1, <2>3 DEF Builds, ManagerPcs
    <3>2. q.ws = issued
      BY <1>1, <1>3, <2>1, <2>3, <3>1
    <3>. QED
      BY <1>1, <2>1, <2>2, <2>3, <3>1, <3>2 DEF Inv, Issued, Known
  <2>4. CASE j # n + 1
    <3>1. i \in 1..n /\ j \in 1..n
      BY <1>1, <2>1, <2>4
    <3>. QED
      BY <1>1, <1>2, <2>1, <2>2, <3>1
  <2>. QED
    BY <2>3, <2>4
<1>6. CASE managerLock' = Tail(managerLock) /\ managerLock # <<>> /\ Head(managerLock) = r
  <2>1. /\ Len(managerLock') = n - 1 /\ managerLock[1] = r
        /\ \A k \in 1..(n - 1) : managerLock'[k] = managerLock[k + 1]
    BY <1>6, StepFacts, Positions
  <2>2. i + 1 \in 1..n /\ j + 1 \in 1..n /\ 1 \in 1..n /\ i + 1 < j + 1 /\ 1 # i + 1 /\ 1 # j + 1
    BY <1>1, <2>1
  <2>3. managerLock[i + 1] # r /\ managerLock[j + 1] # r
    BY <2>1, <2>2, StepFacts
  <2>. QED
    BY <1>1, <1>2, <2>1, <2>2, <2>3, SMTT(30)
<1>. QED
  BY <1>4, <1>5, <1>6, StepFacts DEF Turn

LEMMA OrderedInv ==
  ASSUME Inv, NEW r \in Request, NEW q, Step(r, q)
  PROVE  Ordered'
<1>1. \A s \in Request : Builds(req'[s]) => cached' =< req'[s].ws
  <2>1. CASE cached' = 0
    BY <2>1, StepFacts
  <2>2. CASE cached # 0 /\ cached' = cached
    <3>1. cached =< issued /\ Newer(cached)
      BY StepFacts DEF Inv, Issued, Ordered, Newer
    <3>. QED
      BY <2>2, <3>1, StepFacts, NewerStays
  <2>3. CASE At(r, "building") /\ cached' = req[r].ws /\ managerLock' = Tail(managerLock)
    <3>1. \A s \in Request : Builds(req[s]) => req[r].ws =< req[s].ws
      BY <2>3, BuilderIsFirst
    <3>2. ~Builds(q)
      <4>1. managerLock # <<>>
        BY <2>3 DEF Inv, LockHeads, Holds
      <4>2. Len(Tail(managerLock)) = Len(managerLock) - 1 /\ Len(managerLock) \in Nat
            /\ Len(Append(managerLock, r)) = Len(managerLock) + 1
        BY <4>1, StepFacts, Positions
      <4>3. managerLock' # managerLock /\ managerLock' # Append(managerLock, r)
        BY <2>3, <4>2
      <4>. QED
        BY <4>3 DEF Step, Timely
    <3>. QED
      BY <2>3, <3>1, <3>2, StepFacts
  <2>. QED
    BY <2>1, <2>2, <2>3 DEF Step, Timely
<1>2. ASSUME NEW s \in Request, req'[s].mgr # 0
      PROVE  /\ cached' = 0 \/ req'[s].mgr =< cached'
             /\ \A t \in Request : Builds(req'[t]) => req'[s].mgr =< req'[t].ws
  <2>1. CASE \E t \in Request : req'[s].mgr = req[t].mgr
    <3>1. PICK t \in Request : req'[s].mgr = req[t].mgr
      BY <2>1
    <3>2. req[t].mgr \in Nat /\ req[t].mgr =< issued /\ Newer(req[t].mgr)
      BY <1>2, <3>1, StepFacts DEF Inv, Issued, Known, Ordered
    <3>. QED
      BY <3>1, <3>2, NewerStays
  <2>2. CASE req'[s].mgr = cached'
    BY <1>1, <2>2, StepFacts
  <2>3. q.mgr \in {0, req[r].mgr, cached'}
    BY DEF Step, Timely
  <2>. QED
    BY <1>2, <2>1, <2>2, <2>3, StepFacts
<1>3. ASSUME NEW g \in Issuable, row'[g] = g
      PROVE  /\ cached' = 0 \/ g =< cached'
             /\ \A t \in Request : Builds(req'[t]) => g =< req'[t].ws
  <2>1. row[g] = g \/ req[r].mgr = g
    BY <1>3 DEF Step, Timely
  <2>2. g \in Nat /\ g # 0 /\ g =< issued /\ Newer(g)
    <3>1. g \in Nat /\ g # 0
      BY MaxGenerationAssumption DEF Issuable
    <3>. QED
      BY <2>1, <3>1 DEF Inv, Issued, Known, Ordered
  <2>. QED
    BY <2>2, NewerStays
<1>. QED
  BY <1>1, <1>2, <1>3, QueueInOrder DEF Ordered, Newer

LEMMA ResumesInv ==
  ASSUME Inv, NEW r \in Request, NEW q, Step(r, q)
  PROVE  ResumesKnow'
<1>1. ASSUME NEW s \in Request \ {r}, req'[s].kind = "resume"
      PROVE  /\ thread'[req[s].ws] # "fresh"
             /\ req[s].mgr # 0 /\ row'[req[s].ws] = req[s].ws => req[s].mgr = req[s].ws
             /\ req[s].pc \in RunPcs => req[s].ws = workspace'
             /\ req[s].pc \in {"running", "ending"} => row'[req[s].ws] = req[s].ws
  <2>1. req'[s] = req[s] /\ Resumes(req[s]) /\ req[s].kind = "resume"
    BY <1>1, StepFacts DEF Inv, ResumesKnow
  <2>2. req[s].ws \in Issuable
    <3>1. req[s] \in ReqType /\ req[s].ws # 0
      BY <2>1, Unfold DEF Inv, Sensible
    <3>. QED
      BY <3>1, MaxGenerationAssumption DEF ReqType, Issuable
  <2>3. thread'[req[s].ws] # "fresh" /\ row'[req[s].ws] = row[req[s].ws]
    BY <2>1, <2>2 DEF Resumes, Step, Respects
  <2>4. req[s].pc \in RunPcs => workspace' = workspace
    BY DEF Step, Respects
  <2>. QED
    BY <2>1, <2>3, <2>4 DEF Resumes
<1>2. \A s \in Request \ {r} : req'[s] = req[s] /\ req'[r] = q
  BY StepFacts
<1>3. q.kind = "resume" =>
           /\ thread'[q.ws] # "fresh"
           /\ q.mgr # 0 /\ row'[q.ws] = q.ws => q.mgr = q.ws
           /\ q.pc \in RunPcs => q.ws = workspace'
           /\ q.pc \in {"running", "ending"} => row'[q.ws] = q.ws
  BY DEF Step, Respects
<1>. QED
  BY <1>1, <1>2, <1>3, StepFacts DEF ResumesKnow, Resumes

LEMMA OutcomeInv ==
  ASSUME Inv, NEW r \in Request, NEW q, Step(r, q)
  PROVE  OutcomeHasRun'
<1> SUFFICES ASSUME "outcome" \notin faults', NEW g \in Issuable, outcome'[g] = "applying"
             PROVE  \E s \in Request : req'[s].pc = "running" /\ req'[s].ws = g
  BY DEF OutcomeHasRun, At
<1>1. CASE q.pc = "running" /\ q.ws = g
  BY <1>1, StepFacts
<1>2. CASE outcome[g] = "applying" /\ ~(At(r, "running") /\ req[r].ws = g)
  <2>1. "outcome" \notin faults
    BY DEF Step, Decides
  <2>2. PICK s \in Request : At(s, "running") /\ req[s].ws = g
    BY <1>2, <2>1 DEF Inv, OutcomeHasRun
  <2>. QED
    BY <1>2, <2>2, StepFacts DEF At
<1>. QED
  BY <1>1, <1>2 DEF Step, Decides

LEMMA FollowedInv ==
  ASSUME Inv, NEW r \in Request, NEW q, Step(r, q)
  PROVE  BuilderIsFollowed'
<1> SUFFICES ASSUME "removal" \notin faults', NEW i \in 1..Len(managerLock'),
                    Builds(req'[managerLock'[i]]), req'[managerLock'[i]].ws # workspace'
             PROVE  \E j \in (i + 1)..Len(managerLock') : req'[managerLock'[j]].pc = "invalidate"
  BY DEF BuilderIsFollowed, At
<1> DEFINE n == Len(managerLock)
<1>1. /\ n \in Nat /\ \A k \in 1..n : managerLock[k] \in Request
      /\ req'[r] = q /\ \A s \in Request \ {r} : req'[s] = req[s]
  BY StepFacts, Positions
<1>2. \A k \in 1..n : Builds(req[managerLock[k]]) /\ req[managerLock[k]].ws # workspace =>
         \E j \in (k + 1)..n : req[managerLock[j]].pc = "invalidate"
  <2>1. "removal" \notin faults
    BY DEF Step, Decides
  <2>. QED
    BY <2>1 DEF Inv, BuilderIsFollowed, At
<1>3. Builds(q) => \/ Builds(req[r]) /\ q.ws = req[r].ws /\ managerLock' = managerLock
                   \/ q.ws = workspace' /\ managerLock' = Append(managerLock, r)
  BY DEF Step, Timely
<1>4. At(r, "invalidate") => managerLock' = Tail(managerLock) /\ managerLock # <<>>
  BY DEF Step, Invalidates
<1>5. /\ Len(Append(managerLock, r)) = n + 1
      /\ managerLock # <<>> => Len(Tail(managerLock)) = n - 1
  BY StepFacts, Positions
<1>6. CASE workspace' = workspace /\ managerLock' = managerLock
  <2>1. ~At(r, "invalidate") /\ (Builds(q) => Builds(req[r]) /\ q.ws = req[r].ws)
    BY <1>1, <1>3, <1>4, <1>5, <1>6
  <2>2. Builds(req[managerLock[i]]) /\ req[managerLock[i]].ws # workspace
    BY <1>1, <1>6, <2>1
  <2>3. PICK j \in (i + 1)..n : req[managerLock[j]].pc = "invalidate"
    BY <1>2, <1>6, <2>2
  <2>4. j \in 1..n
    BY <1>1, <1>6
  <2>5. managerLock[j] # r
    BY <2>1, <2>3 DEF At
  <2>. QED
    BY <1>1, <1>6, <2>3, <2>4, <2>5
<1>7. CASE managerLock' = Append(managerLock, r) /\ req[r].pc \notin ManagerPcs
  <2>1. /\ Len(managerLock') = n + 1 /\ managerLock'[n + 1] = r
        /\ \A k \in 1..n : managerLock'[k] = managerLock[k]
    BY <1>7, StepFacts, Positions
  <2>2. \A k \in 1..n : managerLock[k] # r
    BY <1>7, StepFacts
  <2>3. i # n + 1
    <3>1. ~Builds(req[r])
      BY <1>7 DEF Builds, ManagerPcs
    <3>. QED
      BY <1>1, <1>3, <2>1, <3>1
  <2>4. i \in 1..n /\ Builds(req[managerLock[i]])
    BY <1>1, <2>1, <2>2, <2>3
  <2>5. CASE q.pc = "invalidate"
    <3>1. n + 1 \in (i + 1)..Len(managerLock')
      BY <1>1, <2>1, <2>4
    <3>. QED
      BY <1>1, <2>1, <2>5, <3>1
  <2>6. CASE workspace' = workspace
    <3>1. PICK j \in (i + 1)..n : req[managerLock[j]].pc = "invalidate"
      BY <1>1, <1>2, <2>1, <2>2, <2>4, <2>6
    <3>2. j \in 1..n /\ j \in (i + 1)..Len(managerLock')
      BY <1>1, <2>1, <2>4
    <3>. QED
      BY <1>1, <2>1, <2>2, <3>1, <3>2
  <2>7. managerLock' # <<>>
    BY <1>1, <2>1, StepFacts, Positions
  <2>. QED
    BY <2>5, <2>6, <2>7 DEF Step, Invalidates
<1>8. CASE /\ managerLock' = Tail(managerLock) /\ managerLock # <<>> /\ Head(managerLock) = r
           /\ workspace' = workspace
  <2>1. /\ Len(managerLock') = n - 1 /\ managerLock[1] = r
        /\ \A k \in 1..(n - 1) : managerLock'[k] = managerLock[k + 1]
    BY <1>8, StepFacts, Positions
  <2>2. i + 1 \in 1..n /\ 1 \in 1..n /\ \A k \in 2..n : managerLock[k] # r
    BY <1>1, <2>1, StepFacts
  <2>3. Builds(req[managerLock[i + 1]]) /\ req[managerLock[i + 1]].ws # workspace
    BY <1>1, <1>8, <2>1, <2>2
  <2>4. PICK j \in (i + 2)..n : req[managerLock[j]].pc = "invalidate"
    BY <1>2, <2>2, <2>3
  <2>5. j - 1 \in (i + 1)..Len(managerLock') /\ j \in 2..n /\ (j - 1) + 1 = j /\ j - 1 \in 1..(n - 1)
    BY <1>1, <2>1, <2>2
  <2>6. managerLock'[j - 1] = managerLock[j] /\ managerLock[j] # r
    BY <2>1, <2>2, <2>5
  <2>. QED
    BY <1>1, <2>4, <2>5, <2>6
<1>9. managerLock' # <<>>
  BY EmptySeq
<1>10. managerLock' = Append(managerLock, r) \/ workspace' = workspace
  BY <1>9 DEF Step, Invalidates
<1>11. Turn(managerLock, managerLock', r, req[r].pc \in ManagerPcs, q.pc \in ManagerPcs)
  BY StepFacts
<1>12. managerLock' # managerLock \/ managerLock' # Append(managerLock, r)
  BY <1>1, <1>5
<1>. QED
  BY <1>6, <1>7, <1>8, <1>10, <1>11, <1>12 DEF Turn

LEMMA CacheInv ==
  ASSUME Inv, NEW r \in Request, NEW q, Step(r, q)
  PROVE  CacheIsCurrent'
<1> SUFFICES ASSUME cached' # 0, "removal" \notin faults'
             PROVE  cached' = workspace' \/ \E s \in Request : req'[s].pc = "invalidate"
  BY DEF CacheIsCurrent, At
<1>1. "removal" \notin faults
  BY DEF Step, Decides
<1>2. CASE cached' = cached
  <2>1. \/ workspace' = workspace
        \/ q.pc = "invalidate"
    BY DEF Step, Invalidates
  <2>2. CASE workspace' = workspace
    <3>1. cached = workspace \/ \E s \in Request : At(s, "invalidate")
      BY <1>1, <1>2 DEF Inv, CacheIsCurrent
    <3>2. ~At(r, "invalidate")
      BY DEF Step, Invalidates
    <3>. QED
      BY <1>2, <2>2, <3>1, <3>2, StepFacts DEF At
  <2>. QED
    BY <2>1, <2>2, StepFacts
<1>3. CASE At(r, "building") /\ cached' = req[r].ws /\ workspace' = workspace
  <2>1. managerLock # <<>> /\ managerLock[1] = r /\ 1 \in 1..Len(managerLock)
    BY <1>3, StepFacts, Positions DEF Inv, LockHeads, Holds
  <2>2. CASE req[r].ws # workspace
    <3>1. PICK j \in 2..Len(managerLock) : At(managerLock[j], "invalidate")
      BY <1>1, <1>3, <2>1, <2>2 DEF Inv, BuilderIsFollowed, At, Builds
    <3>2. managerLock[j] \in Request
      BY StepFacts, Positions
    <3>3. managerLock[j] # r
      BY <1>3, <3>1 DEF At
    <3>. QED
      BY <3>1, <3>2, <3>3, StepFacts DEF At
  <2>. QED
    BY <1>3, <2>2
<1>. QED
  BY <1>2, <1>3 DEF Step, Timely

\* One request's step preserves the invariant.
LEMMA StepInv ==
  ASSUME Inv, NEW r \in Request, NEW q, Step(r, q)
  PROVE  Inv'
BY LocksInv, IssuedInv, OrderedInv, ResumesInv, OutcomeInv, FollowedInv, CacheInv DEF Inv

------------------------------------------------------------------------------
\* The steps of the program.

\* Most steps alter neither the registry nor the approvals.
LEMMA Unaltered ==
  ASSUME Inv, NEW r \in Request, NEW q \in ReqType, Sensible(q), Resumes(q),
         req' = [req EXCEPT ![r] = q],
         UNCHANGED <<workspace, leftover, issued, thread, row, restarts, faults>>,
         cached' \in 0..MaxGeneration,
         outcome' \in [Issuable -> {"absent", "applying", "terminal"}],
         \A g \in Issuable : outcome'[g] = "applying" =>
               \/ outcome[g] = "applying" /\ ~At(r, "running")
               \/ q.pc = "running" /\ q.ws = g,
         Locked(r, q),
         q.ws =< issued, q.mgr \in {0, req[r].mgr, cached'},
         Builds(q) => \/ Builds(req[r]) /\ q.ws = req[r].ws /\ managerLock' = managerLock
                      \/ q.ws = issued /\ q.ws = workspace /\ managerLock' = Append(managerLock, r),
         \/ cached' \in {0, cached}
         \/ At(r, "building") /\ cached' = req[r].ws /\ managerLock' = Tail(managerLock),
         At(r, "invalidate") => /\ cached' = 0 /\ managerLock' = Tail(managerLock)
                                /\ managerLock # <<>>
  PROVE  Inv'
<1>1. TypeOK /\ Issued /\ Data /\ req[r] \in ReqType
  BY Unfold DEF Inv
<1>2. issued \in Nat /\ q.mgr \in Nat /\ q.mgr =< issued
  <2>1. issued \in Nat /\ q.mgr \in Nat
    BY <1>1, MaxGenerationAssumption DEF Data, Issuable, ReqType
  <2>2. req[r].mgr =< issued /\ cached =< issued /\ req[r].ws =< issued
    BY <1>1 DEF Issued, Known
  <2>. QED
    BY <2>1, <2>2
<1>3. Data'
  BY <1>1 DEF Data
<1>4. Timely(r, q)
  BY <1>1, <1>2 DEF Timely, Issued
<1>5. Respects(r, q)
  BY DEF Respects, Resumes
<1>6. Decides(r, q)
  BY DEF Decides
<1>7. Invalidates(r, q)
  BY DEF Invalidates
<1>8. Step(r, q)
  BY <1>3, <1>4, <1>5, <1>6, <1>7 DEF Step
<1>. QED
  BY <1>8, StepInv

LEMMA IdleIsSensible == Idle \in ReqType /\ Sensible(Idle) /\ Resumes(Idle) /\ ~Builds(Idle)
                        /\ Idle.pc = "idle" /\ Idle.ws = 0 /\ Idle.mgr = 0 /\ Idle.kind = "chat"
BY MaxGenerationAssumption DEF Idle, ReqType, Kind, Pc, Sensible, Resumes, Builds, RunPcs

\* A request that is answered gives back the lock of the runs, if it has it.
LEMMA Answered ==
  ASSUME Inv, NEW r \in Request, req' = [req EXCEPT ![r] = Idle],
         UNCHANGED <<workspace, leftover, issued, cached, managerLock, thread, row, restarts, faults>>,
         outcome' \in [Issuable -> {"absent", "applying", "terminal"}],
         \A g \in Issuable : outcome'[g] = "applying" => outcome[g] = "applying",
         req[r].pc \notin ManagerPcs, ~At(r, "running"),
         \/ runsLock' = runsLock /\ req[r].pc \notin RunsPcs
         \/ runsLock' = Tail(runsLock) /\ Holds(runsLock, r)
  PROVE  Inv'
<1>1. Locked(r, Idle)
  BY IdleIsSensible DEF Locked, Turn, Holds, ManagerPcs, RunsPcs
<1>2. issued \in Nat /\ cached \in 0..MaxGeneration
  BY Unfold, MaxGenerationAssumption DEF Inv, Data, Issuable
<1>3. ~At(r, "invalidate")
  BY DEF ManagerPcs, At
<1> DEFINE q == Idle
<1>4. /\ q \in ReqType /\ Sensible(q) /\ Resumes(q) /\ ~Builds(q)
      /\ q.ws = 0 /\ q.mgr = 0 /\ Locked(r, q) /\ req' = [req EXCEPT ![r] = q]
  BY <1>1, IdleIsSensible
<1>. HIDE DEF q
<1>5. q.ws =< issued /\ q.mgr \in {0, req[r].mgr, cached'} /\ cached' \in {0, cached}
  BY <1>2, <1>4
<1>. QED
  BY <1>2, <1>3, <1>4, <1>5, Unaltered

\* Everything the invariant says of the request that goes on.
LEMMA Here ==
  ASSUME Inv, NEW r \in Request
  PROVE  /\ req[r] \in ReqType /\ Sensible(req[r]) /\ Resumes(req[r])
         /\ req[r].ws \in Nat /\ req[r].mgr \in Nat
         /\ req[r].ws =< issued /\ req[r].mgr =< issued /\ cached =< issued
         /\ issued \in Issuable /\ issued \in Nat /\ cached \in 0..MaxGeneration
         /\ workspace \in {0, issued} /\ Data
<1>1. TypeOK /\ Issued /\ Sensible(req[r]) /\ Resumes(req[r])
  BY DEF Inv, ResumesKnow
<1>2. Data /\ req[r] \in ReqType
  BY <1>1, Unfold
<1>. QED
  BY <1>1, <1>2, MaxGenerationAssumption DEF Data, ReqType, Issuable, Issued, Known

LEMMA AnsweredInv ==
  ASSUME Inv, NEW r \in Request,
         \/ TurnEnds(r) \/ RunLeaves(r) \/ GuardRefuses(r) \/ ChangeRejected(r) \/ Closed(r)
  PROVE  Inv'
<1>1. /\ req' = [req EXCEPT ![r] = Idle]
      /\ UNCHANGED <<workspace, leftover, issued, cached, managerLock, thread, row, outcome,
                     restarts, faults>>
  BY DEF TurnEnds, RunLeaves, GuardRefuses, ChangeRejected, Closed
<1>2. req[r].pc \notin ManagerPcs /\ ~At(r, "running")
  BY DEF TurnEnds, RunLeaves, GuardRefuses, ChangeRejected, Closed, At, ManagerPcs
<1>3. \/ runsLock' = runsLock /\ req[r].pc \notin RunsPcs
      \/ runsLock' = Tail(runsLock) /\ Holds(runsLock, r)
  BY DEF TurnEnds, RunLeaves, GuardRefuses, ChangeRejected, Closed, At, RunsPcs, Inv, LockHeads
<1>4. outcome' \in [Issuable -> {"absent", "applying", "terminal"}]
  BY <1>1, Here DEF Data
<1>. QED
  BY <1>1, <1>2, <1>3, <1>4, Answered

\* The record of a request that is the same but for its pc.
LEMMA PcMoves ==
  ASSUME NEW x \in ReqType, NEW pc \in Pc
  PROVE  /\ [x EXCEPT !.pc = pc] \in ReqType
         /\ [x EXCEPT !.pc = pc].pc = pc
         /\ [x EXCEPT !.pc = pc].kind = x.kind
         /\ [x EXCEPT !.pc = pc].ws = x.ws
         /\ [x EXCEPT !.pc = pc].mgr = x.mgr
BY DEF ReqType

LEMMA OutcomeStays ==
  ASSUME Inv, NEW r \in Request, outcome' = outcome, ~At(r, "running")
  PROVE  /\ outcome' \in [Issuable -> {"absent", "applying", "terminal"}]
         /\ \A g \in Issuable : outcome'[g] = "applying" =>
                outcome[g] = "applying" /\ ~At(r, "running")
BY Here DEF Data

\* Whoever arrives knows the last generation; nobody has its manager yet, or it
\* is the one that is cached.
LEMMA ArriveInv ==
  ASSUME Inv, NEW r \in Request, NEW kind \in {"chat", "resume"}, Arrive(r, kind)
  PROVE  Inv'
<1> DEFINE pc == IF cached # 0 THEN "open" ELSE IF managerLock = <<>> THEN "building" ELSE "waiting"
           q == [kind |-> kind, pc |-> pc, ws |-> workspace, mgr |-> cached]
<1>1. /\ At(r, "idle") /\ workspace # 0 /\ workspace = issued
      /\ UNCHANGED <<workspace, leftover, issued, cached, runsLock, thread, row, outcome,
                     restarts, faults>>
  BY Here DEF Arrive
<1>2. /\ req' = [req EXCEPT ![r] = q]
      /\ managerLock' = IF cached # 0 THEN managerLock ELSE Append(managerLock, r)
  BY DEF Arrive
<1>3. /\ q \in ReqType /\ q.kind = kind /\ q.ws = issued /\ q.mgr = cached
      /\ q.pc = pc /\ pc \in {"open", "building", "waiting"}
      /\ cached = 0 <=> pc \in {"building", "waiting"}
      /\ pc = "building" => managerLock = <<>>
  BY <1>1, Here DEF ReqType, Kind, Pc, Data, Issuable
<1>. HIDE DEF q, pc
<1>4. Sensible(q)
  BY <1>1, <1>3 DEF Sensible, Builds, RunPcs
<1>5. Resumes(q)
  <2>1. kind = "resume" => thread[issued] # "fresh"
    BY <1>1 DEF Arrive
  <2>2. cached # 0 /\ row[issued] = issued => cached = issued
    <3>1. issued \in Issuable /\ cached =< issued /\ issued \in Nat /\ cached \in Nat
      BY Here, MaxGenerationAssumption
    <3>2. cached # 0 /\ row[issued] = issued => issued =< cached
      BY <3>1 DEF Inv, Ordered, Newer
    <3>. QED
      BY <3>1, <3>2
  <2>. QED
    BY <1>3, <2>1, <2>2 DEF Resumes, RunPcs
<1>6. Locked(r, q)
  <2>1. managerLock \in Seq(Request)
    BY Unfold DEF Inv, Queue
  <2>2. ASSUME managerLock = <<>>
        PROVE  Append(managerLock, r) # <<>> /\ Head(Append(managerLock, r)) = r
    <3> DEFINE m == Append(managerLock, r)
    <3>1. Len(managerLock) = 0 /\ m \in Seq(Request) /\ Len(m) = 1 /\ m[1] = r
      BY <2>1, <2>2, Positions
    <3>. HIDE DEF m
    <3>2. m # <<>> /\ Head(m) = m[1]
      BY <3>1, Positions
    <3>. QED
      BY <3>1, <3>2 DEF m
  <2>. QED
    BY <1>1, <1>2, <1>3, <2>2 DEF Locked, Turn, ManagerPcs, RunsPcs, At, Holds
<1>7. Builds(q) => q.ws = issued /\ q.ws = workspace /\ managerLock' = Append(managerLock, r)
  BY <1>1, <1>2, <1>3 DEF Builds
<1>8. /\ q.ws =< issued /\ q.mgr \in {0, req[r].mgr, cached'} /\ cached' = cached
      /\ cached \in 0..MaxGeneration
  BY <1>1, <1>3, Here
<1>9. ~At(r, "running") /\ ~At(r, "invalidate")
  BY <1>1 DEF At
<1>10. /\ outcome' \in [Issuable -> {"absent", "applying", "terminal"}]
       /\ \A g \in Issuable : outcome'[g] = "applying" =>
              outcome[g] = "applying" /\ ~At(r, "running")
  BY <1>1, <1>9, OutcomeStays
<1>. QED
  BY <1>1, <1>2, <1>3, <1>4, <1>5, <1>6, <1>7, <1>8, <1>9, <1>10, Unaltered

\* Who waited for a manager that is there now takes it: it is as new as it needs.
LEMMA GrantedInv ==
  ASSUME Inv, NEW r \in Request, ManagerGranted(r)
  PROVE  Inv'
<1> DEFINE q == IF cached # 0 THEN [req[r] EXCEPT !.pc = "open", !.mgr = cached]
                ELSE [req[r] EXCEPT !.pc = "building"]
<1>1. /\ At(r, "waiting") /\ Holds(managerLock, r)
      /\ UNCHANGED <<workspace, leftover, issued, cached, runsLock, thread, row, outcome,
                     restarts, faults>>
      /\ managerLock' = IF cached # 0 THEN Tail(managerLock) ELSE managerLock
  BY DEF ManagerGranted
<1>2. req' = [req EXCEPT ![r] = q]
  BY Here DEF ManagerGranted, ReqType
<1>3. /\ q \in ReqType /\ q.kind = req[r].kind /\ q.ws = req[r].ws
      /\ q.pc = (IF cached # 0 THEN "open" ELSE "building")
      /\ cached # 0 => q.mgr = cached
      /\ cached = 0 => q.mgr = req[r].mgr
  BY Here DEF ReqType, Pc, Data
<1>. HIDE DEF q
<1>4. req[r].mgr = 0 /\ req[r].ws # 0 /\ req[r].kind \in {"chat", "resume"} /\ Builds(req[r])
  BY <1>1, Here DEF Sensible, Builds, At
<1>5. Sensible(q)
  BY <1>1, <1>3, <1>4 DEF Sensible, Builds, RunPcs
<1>6. Resumes(q)
  <2>1. cached # 0 /\ row[q.ws] = q.ws => cached = q.ws
    <3>1. q.ws \in Issuable /\ q.ws \in Nat /\ cached \in Nat
      BY <1>3, <1>4, Here, MaxGenerationAssumption DEF ReqType, Issuable
    <3>2. cached =< q.ws
      BY <1>3, <1>4 DEF Inv, Ordered
    <3>3. cached # 0 /\ row[q.ws] = q.ws => q.ws =< cached
      BY <3>1 DEF Inv, Ordered, Newer
    <3>. QED
      BY <3>1, <3>2, <3>3
  <2>2. q.kind = "resume" => thread[q.ws] # "fresh"
    BY <1>3, Here DEF Resumes
  <2>. QED
    BY <1>3, <1>4, <2>1, <2>2 DEF Resumes, RunPcs
<1>7. Locked(r, q)
  BY <1>1, <1>3 DEF Locked, Turn, ManagerPcs, RunsPcs, At, Holds
<1>8. Builds(q) => Builds(req[r]) /\ q.ws = req[r].ws /\ managerLock' = managerLock
  BY <1>1, <1>3, <1>4 DEF Builds
<1>9. /\ q.ws =< issued /\ q.mgr \in {0, req[r].mgr, cached'} /\ cached' = cached
      /\ cached \in 0..MaxGeneration
  BY <1>1, <1>3, Here
<1>10. ~At(r, "running") /\ ~At(r, "invalidate")
  BY <1>1 DEF At
<1>11. /\ outcome' \in [Issuable -> {"absent", "applying", "terminal"}]
       /\ \A g \in Issuable : outcome'[g] = "applying" =>
              outcome[g] = "applying" /\ ~At(r, "running")
  BY <1>1, <1>10, OutcomeStays
<1>. QED
  BY <1>1, <1>2, <1>3, <1>5, <1>6, <1>7, <1>8, <1>9, <1>10, <1>11, Unaltered

LEMMA BuiltInv ==
  ASSUME Inv, NEW r \in Request, ManagerBuilt(r)
  PROVE  Inv'
<1> DEFINE q == [req[r] EXCEPT !.pc = "open", !.mgr = req[r].ws]
<1>1. /\ At(r, "building") /\ Holds(managerLock, r) /\ cached' = req[r].ws
      /\ managerLock' = Tail(managerLock)
      /\ UNCHANGED <<workspace, leftover, issued, runsLock, thread, row, outcome, restarts, faults>>
  BY DEF ManagerBuilt, Inv, LockHeads
<1>2. req' = [req EXCEPT ![r] = q]
  BY Here DEF ManagerBuilt, ReqType
<1>3. /\ q \in ReqType /\ q.kind = req[r].kind /\ q.ws = req[r].ws
      /\ q.pc = "open" /\ q.mgr = req[r].ws
  BY Here DEF ReqType, Pc
<1>. HIDE DEF q
<1>4. req[r].ws # 0 /\ req[r].kind \in {"chat", "resume"}
  BY <1>1, Here DEF Sensible, Builds, At
<1>5. Sensible(q)
  BY <1>3, <1>4 DEF Sensible, Builds, RunPcs
<1>6. Resumes(q)
  BY <1>3, Here DEF Resumes, RunPcs
<1>7. Locked(r, q)
  BY <1>1, <1>3 DEF Locked, Turn, ManagerPcs, RunsPcs, At, Holds
<1>8. ~Builds(q) /\ q.ws =< issued /\ q.mgr \in {0, req[r].mgr, cached'}
      /\ cached' \in 0..MaxGeneration
  BY <1>1, <1>3, Here DEF Builds, ReqType
<1>9. ~At(r, "running") /\ ~At(r, "invalidate")
  BY <1>1 DEF At
<1>10. /\ outcome' \in [Issuable -> {"absent", "applying", "terminal"}]
       /\ \A g \in Issuable : outcome'[g] = "applying" =>
              outcome[g] = "applying" /\ ~At(r, "running")
  BY <1>1, <1>9, OutcomeStays
<1>. QED
  BY <1>1, <1>2, <1>3, <1>5, <1>6, <1>7, <1>8, <1>9, <1>10, Unaltered

LEMMA ChatOpensInv ==
  ASSUME Inv, NEW r \in Request, ChatOpens(r)
  PROVE  Inv'
<1>1. /\ At(r, "open") /\ req[r].kind = "chat"
      /\ UNCHANGED <<workspace, leftover, issued, cached, managerLock, runsLock, thread, row,
                     outcome, restarts, faults>>
  BY DEF ChatOpens
<1>2. req[r].pc \notin ManagerPcs /\ req[r].pc \notin RunsPcs /\ ~At(r, "running")
      /\ ~At(r, "invalidate")
  BY <1>1 DEF At, ManagerPcs, RunsPcs
<1>3. /\ outcome' \in [Issuable -> {"absent", "applying", "terminal"}]
      /\ \A g \in Issuable : outcome'[g] = "applying" =>
              outcome[g] = "applying" /\ ~At(r, "running")
  BY <1>1, <1>2, OutcomeStays
<1>4. CASE req' = [req EXCEPT ![r] = Idle]
  BY <1>1, <1>2, <1>3, <1>4, Answered
<1>5. CASE req' = [req EXCEPT ![r] = [req[r] EXCEPT !.pc = "turn"]]
  <2> DEFINE q == [req[r] EXCEPT !.pc = "turn"]
  <2>1. /\ q \in ReqType /\ q.kind = "chat" /\ q.ws = req[r].ws /\ q.pc = "turn"
        /\ q.mgr = req[r].mgr /\ req' = [req EXCEPT ![r] = q]
    BY <1>1, <1>5, Here, PcMoves DEF Pc
  <2>. HIDE DEF q
  <2>2. Sensible(q) /\ Resumes(q) /\ ~Builds(q)
    BY <1>1, <2>1, Here DEF Sensible, Resumes, Builds, RunPcs, At
  <2>3. Locked(r, q)
    BY <1>1, <1>2, <2>1 DEF Locked, Turn, ManagerPcs, RunsPcs
  <2>4. q.ws =< issued /\ q.mgr \in {0, req[r].mgr, cached'} /\ cached' = cached
        /\ cached \in 0..MaxGeneration
    BY <1>1, <2>1, Here
  <2>. QED
    BY <1>1, <1>2, <1>3, <2>1, <2>2, <2>3, <2>4, Unaltered
<1>. QED
  BY <1>4, <1>5, Here DEF ChatOpens

LEMMA ResumeQueuesInv ==
  ASSUME Inv, NEW r \in Request, ResumeQueues(r)
  PROVE  Inv'
<1> DEFINE q == [req[r] EXCEPT !.pc = "guard"]
<1>1. /\ At(r, "open") /\ req[r].kind = "resume" /\ runsLock' = Append(runsLock, r)
      /\ UNCHANGED <<workspace, leftover, issued, cached, managerLock, thread, row, outcome,
                     restarts, faults>>
  BY DEF ResumeQueues
<1>2. /\ q \in ReqType /\ q.kind = "resume" /\ q.ws = req[r].ws /\ q.pc = "guard"
      /\ q.mgr = req[r].mgr /\ req' = [req EXCEPT ![r] = q]
  BY <1>1, Here, PcMoves DEF Pc, ResumeQueues
<1>. HIDE DEF q
<1>3. Sensible(q) /\ Resumes(q) /\ ~Builds(q)
  BY <1>1, <1>2, Here DEF Sensible, Resumes, Builds, RunPcs, At
<1>4. Locked(r, q)
  BY <1>1, <1>2 DEF Locked, Turn, ManagerPcs, RunsPcs, At
<1>5. q.ws =< issued /\ q.mgr \in {0, req[r].mgr, cached'} /\ cached' = cached
      /\ cached \in 0..MaxGeneration
  BY <1>1, <1>2, Here
<1>6. ~At(r, "running") /\ ~At(r, "invalidate")
  BY <1>1 DEF At
<1>7. /\ outcome' \in [Issuable -> {"absent", "applying", "terminal"}]
      /\ \A g \in Issuable : outcome'[g] = "applying" =>
             outcome[g] = "applying" /\ ~At(r, "running")
  BY <1>1, <1>6, OutcomeStays
<1>. QED
  BY <1>1, <1>2, <1>3, <1>4, <1>5, <1>6, <1>7, Unaltered

LEMMA GuardQueuesInv ==
  ASSUME Inv, NEW r \in Request, NEW kind \in {"change", "delete"}, GuardQueues(r, kind)
  PROVE  Inv'
<1> DEFINE q == [Idle EXCEPT !.kind = kind, !.pc = "guard"]
<1>1. /\ At(r, "idle") /\ runsLock' = Append(runsLock, r) /\ req' = [req EXCEPT ![r] = q]
      /\ UNCHANGED <<workspace, leftover, issued, cached, managerLock, thread, row, outcome,
                     restarts, faults>>
  BY DEF GuardQueues
<1>2. q \in ReqType /\ q.kind = kind /\ q.ws = 0 /\ q.pc = "guard" /\ q.mgr = 0
  <2> DEFINE i == Idle
  <2>1. i \in ReqType /\ i.ws = 0 /\ i.mgr = 0 /\ q = [i EXCEPT !.kind = kind, !.pc = "guard"]
    BY IdleIsSensible
  <2>. HIDE DEF i, q
  <2>. QED
    BY <2>1 DEF ReqType, Kind, Pc
<1>. HIDE DEF q
<1>3. Sensible(q) /\ Resumes(q) /\ ~Builds(q)
  BY <1>2 DEF Sensible, Resumes, Builds, RunPcs
<1>4. Locked(r, q)
  BY <1>1, <1>2 DEF Locked, Turn, ManagerPcs, RunsPcs, At
<1>5. q.ws =< issued /\ q.mgr \in {0, req[r].mgr, cached'} /\ cached' = cached
      /\ cached \in 0..MaxGeneration
  BY <1>1, <1>2, Here
<1>6. ~At(r, "running") /\ ~At(r, "invalidate")
  BY <1>1 DEF At
<1>7. /\ outcome' \in [Issuable -> {"absent", "applying", "terminal"}]
      /\ \A g \in Issuable : outcome'[g] = "applying" =>
             outcome[g] = "applying" /\ ~At(r, "running")
  BY <1>1, <1>6, OutcomeStays
<1>. QED
  BY <1>1, <1>2, <1>3, <1>4, <1>5, <1>6, <1>7, Unaltered

LEMMA ResumeEntersInv ==
  ASSUME Inv, NEW r \in Request, ResumeEnters(r)
  PROVE  Inv'
<1>1. /\ At(r, "guard") /\ req[r].kind = "resume" /\ Holds(runsLock, r)
      /\ UNCHANGED <<workspace, leftover, issued, cached, managerLock, thread, row,
                     restarts, faults>>
  BY DEF ResumeEnters
<1>2. req[r].pc \notin ManagerPcs /\ ~At(r, "running") /\ ~At(r, "invalidate")
  BY <1>1 DEF At, ManagerPcs
<1>3. CASE req' = [req EXCEPT ![r] = Idle] /\ runsLock' = Tail(runsLock)
  <2>1. outcome' = outcome \/ outcome' = [outcome EXCEPT ![req[r].ws] = "terminal"]
    BY <1>1 DEF ResumeEnters
  <2>2. outcome \in [Issuable -> {"absent", "applying", "terminal"}]
    BY Here DEF Data
  <2>3. /\ outcome' \in [Issuable -> {"absent", "applying", "terminal"}]
        /\ \A g \in Issuable : outcome'[g] = "applying" => outcome[g] = "applying"
    BY <2>1, <2>2
  <2>. QED
    BY <1>1, <1>2, <1>3, <2>3, Answered
<1>4. CASE /\ req' = [req EXCEPT ![r] = [req[r] EXCEPT !.pc = "pending"]]
           /\ ~Changed(req[r].ws) /\ UNCHANGED <<runsLock, outcome>>
  <2> DEFINE q == [req[r] EXCEPT !.pc = "pending"]
  <2>1. /\ q \in ReqType /\ q.kind = "resume" /\ q.ws = req[r].ws /\ q.pc = "pending"
        /\ q.mgr = req[r].mgr /\ req' = [req EXCEPT ![r] = q]
    BY <1>1, <1>4, Here, PcMoves DEF Pc
  <2>. HIDE DEF q
  <2>2. Sensible(q) /\ Resumes(q) /\ ~Builds(q)
    BY <1>1, <1>4, <2>1, Here DEF Sensible, Resumes, Builds, RunPcs, At, Changed
  <2>3. Locked(r, q)
    BY <1>1, <1>4, <2>1 DEF Locked, Turn, ManagerPcs, RunsPcs, At, Holds
  <2>4. q.ws =< issued /\ q.mgr \in {0, req[r].mgr, cached'} /\ cached' = cached
        /\ cached \in 0..MaxGeneration
    BY <1>1, <2>1, Here
  <2>5. /\ outcome' \in [Issuable -> {"absent", "applying", "terminal"}]
        /\ \A g \in Issuable : outcome'[g] = "applying" =>
               outcome[g] = "applying" /\ ~At(r, "running")
    BY <1>2, <1>4, OutcomeStays
  <2>. QED
    BY <1>1, <1>2, <2>1, <2>2, <2>3, <2>4, <2>5, Unaltered
<1>. QED
  BY <1>3, <1>4 DEF ResumeEnters

\* The claim: the row says with which manager the approval was stored.
LEMMA ResumeClaimsInv ==
  ASSUME Inv, NEW r \in Request, ResumeClaims(r)
  PROVE  Inv'
<1> DEFINE g == req[r].ws
<1>1. /\ At(r, "pending") /\ runsLock' = Tail(runsLock) /\ Holds(runsLock, r)
      /\ UNCHANGED <<workspace, leftover, issued, cached, managerLock, thread, row,
                     restarts, faults>>
  BY DEF ResumeClaims, Inv, LockHeads, At
<1>2. req[r].pc \notin ManagerPcs /\ ~At(r, "running") /\ ~At(r, "invalidate")
  BY <1>1 DEF At, ManagerPcs
<1>3. CASE req' = [req EXCEPT ![r] = Idle] /\ outcome' = outcome
  <2>1. /\ outcome' \in [Issuable -> {"absent", "applying", "terminal"}]
        /\ \A h \in Issuable : outcome'[h] = "applying" => outcome[h] = "applying"
    BY <1>2, <1>3, OutcomeStays
  <2>. QED
    BY <1>1, <1>2, <1>3, <2>1, Answered
<1>4. CASE /\ row[g] = g /\ outcome' = [outcome EXCEPT ![g] = "applying"]
           /\ req' = [req EXCEPT ![r] = [req[r] EXCEPT !.pc = "running"]]
  <2> DEFINE q == [req[r] EXCEPT !.pc = "running"]
  <2>1. /\ q \in ReqType /\ q.kind = req[r].kind /\ q.ws = g /\ q.pc = "running"
        /\ q.mgr = req[r].mgr /\ req' = [req EXCEPT ![r] = q]
    BY <1>1, <1>4, Here, PcMoves DEF Pc
  <2>. HIDE DEF q
  <2>2. Sensible(q) /\ Resumes(q) /\ ~Builds(q)
    BY <1>1, <1>4, <2>1, Here DEF Sensible, Resumes, Builds, RunPcs, At
  <2>3. Locked(r, q)
    BY <1>1, <1>4, <2>1 DEF Locked, Turn, ManagerPcs, RunsPcs, At, Holds
  <2>4. q.ws =< issued /\ q.mgr \in {0, req[r].mgr, cached'} /\ cached' = cached
        /\ cached \in 0..MaxGeneration
    BY <1>1, <2>1, Here
  <2>5. outcome \in [Issuable -> {"absent", "applying", "terminal"}]
    BY Here DEF Data
  <2>6. /\ outcome' \in [Issuable -> {"absent", "applying", "terminal"}]
        /\ \A h \in Issuable : outcome'[h] = "applying" =>
               \/ outcome[h] = "applying" /\ ~At(r, "running")
               \/ q.pc = "running" /\ q.ws = h
    BY <1>2, <1>4, <2>1, <2>5
  <2>. QED
    BY <1>1, <1>2, <2>1, <2>2, <2>3, <2>4, <2>6, Unaltered
<1>. QED
  BY <1>3, <1>4, Here DEF ResumeClaims

LEMMA InvalidateGrantedInv ==
  ASSUME Inv, NEW r \in Request, InvalidateGranted(r)
  PROVE  Inv'
<1> DEFINE q == [req[r] EXCEPT !.pc = "closing"]
<1>1. /\ At(r, "invalidate") /\ Holds(managerLock, r) /\ cached' = 0
      /\ managerLock' = Tail(managerLock) /\ Holds(runsLock, r)
      /\ UNCHANGED <<workspace, leftover, issued, runsLock, thread, row, outcome, restarts, faults>>
  BY DEF InvalidateGranted, Inv, LockHeads, At
<1>2. /\ q \in ReqType /\ q.kind = req[r].kind /\ q.ws = req[r].ws /\ q.pc = "closing"
      /\ q.mgr = req[r].mgr /\ req' = [req EXCEPT ![r] = q]
  BY <1>1, Here, PcMoves DEF Pc, InvalidateGranted
<1>. HIDE DEF q
<1>3. Sensible(q) /\ Resumes(q) /\ ~Builds(q)
  BY <1>1, <1>2, Here DEF Sensible, Resumes, Builds, RunPcs, At
<1>4. Locked(r, q)
  BY <1>1, <1>2 DEF Locked, Turn, ManagerPcs, RunsPcs, At, Holds
<1>5. q.ws =< issued /\ q.mgr \in {0, req[r].mgr, cached'} /\ cached' \in 0..MaxGeneration
  BY <1>1, <1>2, Here, MaxGenerationAssumption
<1>6. ~At(r, "running") /\ managerLock # <<>>
  BY <1>1 DEF At, Holds
<1>7. /\ outcome' \in [Issuable -> {"absent", "applying", "terminal"}]
      /\ \A g \in Issuable : outcome'[g] = "applying" =>
             outcome[g] = "applying" /\ ~At(r, "running")
  BY <1>1, <1>6, OutcomeStays
<1>. QED
  BY <1>1, <1>2, <1>3, <1>4, <1>5, <1>6, <1>7, Unaltered

\* The row of an approval is written once, before anybody can resume it.
LEMMA TurnAsksInv ==
  ASSUME Inv, NEW r \in Request, TurnAsks(r)
  PROVE  Inv'
<1> DEFINE g == req[r].ws
           q == Idle
<1>1. /\ At(r, "turn") /\ thread[g] = "fresh" /\ req' = [req EXCEPT ![r] = q]
      /\ thread' = [thread EXCEPT ![g] = "asking"] /\ row' = [row EXCEPT ![g] = req[r].mgr]
      /\ UNCHANGED <<workspace, leftover, issued, cached, managerLock, runsLock, outcome,
                     restarts, faults>>
  BY DEF TurnAsks
<1>2. /\ q \in ReqType /\ Sensible(q) /\ ~Builds(q) /\ q.kind = "chat"
      /\ q.ws = 0 /\ q.mgr = 0 /\ q.pc = "idle"
  BY IdleIsSensible
<1>. HIDE DEF q
<1>3. Data'
  BY <1>1, Here DEF Data, ReqType
<1>4. Locked(r, q)
  BY <1>1, <1>2 DEF Locked, Turn, ManagerPcs, RunsPcs, At
<1>5. Timely(r, q)
  <2>1. \A h \in Issuable : row'[h] \in {row[h], req[r].mgr}
    BY <1>1, Here DEF Data
  <2>2. issued \in Nat /\ workspace \in {0, issued} /\ leftover \in {0, issued}
        /\ (workspace # 0 => leftover = 0)
    BY Here DEF Inv, Issued
  <2>. QED
    BY <1>1, <1>2, <2>1, <2>2 DEF Timely
<1>6. Respects(r, q)
  <2>1. \A h \in Issuable : thread[h] # "fresh" => thread'[h] # "fresh" /\ row'[h] = row[h]
    BY <1>1, Here DEF Data
  <2>. QED
    BY <1>1, <1>2, <2>1 DEF Respects
<1>7. Decides(r, q) /\ Invalidates(r, q)
  BY <1>1 DEF Decides, Invalidates, At
<1>8. Step(r, q)
  BY <1>1, <1>2, <1>3, <1>4, <1>5, <1>6, <1>7 DEF Step
<1>. QED
  BY <1>8, StepInv

LEMMA RunConcludesInv ==
  ASSUME Inv, NEW r \in Request, RunConcludes(r)
  PROVE  Inv'
<1> DEFINE g == req[r].ws
           q == [req[r] EXCEPT !.pc = "ending"]
<1>1. /\ At(r, "running") /\ thread' = [thread EXCEPT ![g] = "resolved"]
      /\ runsLock' = Append(runsLock, r)
      /\ UNCHANGED <<workspace, leftover, issued, cached, managerLock, row, restarts>>
  BY DEF RunConcludes
<1>2. /\ q \in ReqType /\ q.kind = req[r].kind /\ q.ws = g /\ q.pc = "ending"
      /\ q.mgr = req[r].mgr /\ req' = [req EXCEPT ![r] = q]
  BY <1>1, Here, PcMoves DEF Pc, RunConcludes
<1>. HIDE DEF q
<1>3. req[r].kind = "resume" /\ g # 0 /\ g \in Issuable
  BY <1>1, Here, MaxGenerationAssumption DEF Sensible, RunPcs, At, ReqType, Issuable
<1>4. Sensible(q) /\ ~Builds(q)
  BY <1>1, <1>2, <1>3, Here DEF Sensible, Builds, RunPcs, At
<1>5. \/ outcome' = [outcome EXCEPT ![g] = "terminal"] /\ faults' = faults
      \/ outcome' = outcome /\ "outcome" \in faults' /\ faults \subseteq faults' /\ faults' \subseteq Fault
  BY Here DEF RunConcludes, Fails, Data
<1>6. Data'
  BY <1>1, <1>5, Here DEF Data
<1>7. Locked(r, q)
  BY <1>1, <1>2 DEF Locked, Turn, ManagerPcs, RunsPcs, At
<1>8. Timely(r, q)
  <2>1. issued \in Nat /\ workspace \in {0, issued} /\ leftover \in {0, issued}
        /\ (workspace # 0 => leftover = 0) /\ q.ws =< issued /\ q.mgr =< issued
    BY <1>2, Here DEF Inv, Issued
  <2>. QED
    BY <1>1, <1>2, <1>4, <2>1 DEF Timely
<1>9. Respects(r, q)
  <2>1. \A h \in Issuable : thread[h] # "fresh" => thread'[h] # "fresh" /\ row'[h] = row[h]
    BY <1>1, Here DEF Data
  <2>2. thread'[g] = "resolved"
    BY <1>1, <1>3, Here DEF Data
  <2>3. (q.mgr # 0 /\ row[g] = g => q.mgr = g) /\ g = workspace /\ row[g] = g
    BY <1>1, <1>2, <1>3, Here DEF Resumes, RunPcs, At
  <2>. QED
    BY <1>1, <1>2, <2>1, <2>2, <2>3 DEF Respects
<1>10. Decides(r, q)
  BY <1>3, <1>5, Here DEF Decides, Data
<1>11. Invalidates(r, q)
  BY <1>1 DEF Invalidates, At
<1>12. Step(r, q)
  BY <1>2, <1>4, <1>6, <1>7, <1>8, <1>9, <1>10, <1>11 DEF Step
<1>. QED
  BY <1>12, StepInv

\* Inside the guard nobody else runs or is about to.
LEMMA GuardIsAlone ==
  ASSUME Inv, NEW r \in Request, At(r, "guard"), Holds(runsLock, r), ~Busy
  PROVE  \A s \in Request : req[s].pc \notin RunPcs
<1> SUFFICES ASSUME NEW s \in Request, req[s].pc \in RunPcs PROVE FALSE
  OBVIOUS
<1>1. At(s, "pending")
  BY DEF Busy, Running, RunPcs, At
<1>2. Holds(runsLock, s)
  BY <1>1 DEF Inv, LockHeads, At
<1>. QED
  BY <1>1, <1>2 DEF Holds, At

LEMMA GuardEntersInv ==
  ASSUME Inv, NEW r \in Request, GuardEnters(r)
  PROVE  Inv'
<1> DEFINE pc == IF managerLock = <<>> THEN "closing" ELSE "invalidate"
           q == [req[r] EXCEPT !.pc = pc]
<1>1. /\ At(r, "guard") /\ Holds(runsLock, r) /\ ~Busy /\ workspace # 0
      /\ req[r].kind \in {"change", "delete"}
      /\ UNCHANGED <<leftover, runsLock, thread, row, outcome, restarts, faults>>
  BY DEF GuardEnters
<1>2. \/ workspace' = 0 /\ issued' = issued
      \/ issued < MaxGeneration /\ workspace' = issued + 1 /\ issued' = issued + 1
  BY DEF GuardEnters
<1>3. \/ managerLock = <<>> /\ managerLock' = managerLock /\ cached' = 0 /\ pc = "closing"
      \/ managerLock' = Append(managerLock, r) /\ cached' = cached /\ pc = "invalidate"
  BY DEF GuardEnters, Invalidate
<1>4. /\ q \in ReqType /\ q.kind = req[r].kind /\ q.ws = req[r].ws /\ q.pc = pc
      /\ q.mgr = req[r].mgr /\ req' = [req EXCEPT ![r] = q] /\ pc \in {"closing", "invalidate"}
  <2>1. pc \in Pc
    BY DEF Pc
  <2>2. req' = [req EXCEPT ![r] = q]
    BY DEF GuardEnters, Invalidate
  <2>. HIDE DEF pc
  <2>3. q \in ReqType /\ q.kind = req[r].kind /\ q.ws = req[r].ws /\ q.pc = pc
        /\ q.mgr = req[r].mgr
    BY <2>1, Here, PcMoves
  <2>4. pc \in {"closing", "invalidate"}
    BY DEF pc
  <2>. QED
    BY <2>2, <2>3, <2>4
<1>. HIDE DEF q, pc
<1>5. Sensible(q) /\ ~Builds(q)
  BY <1>1, <1>4, Here DEF Sensible, Builds, RunPcs, At
<1>6. Data'
  BY <1>1, <1>2, <1>3, Here, MaxGenerationAssumption DEF Data, Issuable
<1>7. Locked(r, q)
  BY <1>1, <1>3, <1>4 DEF Locked, Turn, ManagerPcs, RunsPcs, At
<1>8. Timely(r, q)
  <2>1. issued \in Nat /\ leftover = 0 /\ req[r].ws =< issued /\ req[r].mgr =< issued
        /\ req[r].ws \in Nat /\ req[r].mgr \in Nat
    BY <1>1, Here DEF Inv, Issued
  <2>2. issued =< issued' /\ workspace' \in {0, issued'} /\ q.ws =< issued' /\ q.mgr =< issued'
    BY <1>2, <1>4, <2>1
  <2>. QED
    BY <1>1, <1>3, <1>4, <1>5, <2>1, <2>2 DEF Timely
<1>9. Respects(r, q)
  BY <1>1, <1>4, GuardIsAlone DEF Respects
<1>10. Decides(r, q)
  BY <1>1 DEF Decides, At
<1>11. Invalidates(r, q)
  BY <1>1, <1>3, <1>4 DEF Invalidates, At
<1>12. Step(r, q)
  BY <1>4, <1>5, <1>6, <1>7, <1>8, <1>9, <1>10, <1>11 DEF Step
<1>. QED
  BY <1>12, StepInv

LEMMA DeleteFailsInv ==
  ASSUME Inv, NEW r \in Request, DeleteFails(r)
  PROVE  Inv'
<1> DEFINE q == Idle
<1>1. /\ At(r, "guard") /\ Holds(runsLock, r) /\ ~Busy /\ workspace # 0
      /\ workspace' = 0 /\ leftover' = workspace /\ runsLock' = Tail(runsLock)
      /\ req' = [req EXCEPT ![r] = q]
      /\ UNCHANGED <<issued, cached, managerLock, thread, row, outcome, restarts>>
      /\ "removal" \in Fault /\ faults' = faults \union {"removal"}
  BY DEF DeleteFails, Fails
<1>2. /\ q \in ReqType /\ Sensible(q) /\ ~Builds(q) /\ q.kind = "chat"
      /\ q.ws = 0 /\ q.mgr = 0 /\ q.pc = "idle"
  BY IdleIsSensible
<1>. HIDE DEF q
<1>3. Data'
  BY <1>1, Here, MaxGenerationAssumption DEF Data
<1>4. Locked(r, q)
  BY <1>1, <1>2 DEF Locked, Turn, ManagerPcs, RunsPcs, At, Holds
<1>5. Timely(r, q)
  BY <1>1, <1>2, Here DEF Timely
<1>6. Respects(r, q)
  BY <1>1, <1>2, GuardIsAlone DEF Respects
<1>7. Decides(r, q) /\ Invalidates(r, q)
  BY <1>1 DEF Decides, Invalidates, At
<1>8. Step(r, q)
  BY <1>1, <1>2, <1>3, <1>4, <1>5, <1>6, <1>7 DEF Step
<1>. QED
  BY <1>8, StepInv

\* A workspace that is created finds nothing under way that it could disturb.
LEMMA CreateInv ==
  ASSUME Inv, Create
  PROVE  Inv'
<1>1. /\ workspace = 0 /\ issued < MaxGeneration /\ workspace' = issued + 1
      /\ issued' = issued + 1 /\ leftover' = 0
      /\ UNCHANGED <<cached, managerLock, runsLock, req, thread, row, outcome, restarts, faults>>
  BY DEF Create
<1>2. Data /\ issued \in Nat /\ req \in [Request -> ReqType]
      /\ Queue(managerLock, {s \in Request : req[s].pc \in ManagerPcs})
      /\ Queue(runsLock, {s \in Request : req[s].pc \in RunsPcs})
  BY Unfold, MaxGenerationAssumption DEF Inv, Data, Issuable
<1>3. Data'
  BY <1>1, <1>2, MaxGenerationAssumption DEF Data, Issuable
<1>4. TypeOK'
  BY <1>1, <1>2, <1>3, UnfoldNext
<1>5. LockHeads' /\ \A r \in Request : Sensible(req'[r])
  BY <1>1 DEF Inv, LockHeads, At, Holds
<1>6. Issued'
  <2>1. \A r \in Request : req[r].ws \in Nat /\ req[r].mgr \in Nat
    BY <1>2, MaxGenerationAssumption DEF ReqType
  <2>2. cached \in Nat /\ \A g \in Issuable : row[g] \in Nat
    BY <1>2, MaxGenerationAssumption DEF Data
  <2>. QED
    BY <1>1, <1>2, <2>1, <2>2 DEF Inv, Issued, Known
<1>7. Ordered'
  BY <1>1 DEF Inv, Ordered, Newer
<1>8. ResumesKnow'
  BY <1>1 DEF Inv, ResumesKnow, Resumes, Sensible, RunPcs
<1>9. OutcomeHasRun'
  BY <1>1 DEF Inv, OutcomeHasRun, At
<1>10. BuilderIsFollowed'
  <2>1. \A i \in 1..Len(managerLock) : Builds(req[managerLock[i]]) =>
            req[managerLock[i]].ws # workspace
    <3>1. \A i \in 1..Len(managerLock) : managerLock[i] \in Request
      BY <1>2, Positions DEF Queue
    <3>. QED
      BY <1>1, <3>1 DEF Inv, Sensible, Builds
  <2>. QED
    BY <1>1, <2>1 DEF Inv, BuilderIsFollowed, At
<1>11. CacheIsCurrent'
  BY <1>1 DEF Inv, CacheIsCurrent, At
<1>. QED
  BY <1>4, <1>5, <1>6, <1>7, <1>8, <1>9, <1>10, <1>11 DEF Inv

\* With nothing under way most of the invariant is vacuous.
Empty == managerLock = <<>> /\ runsLock = <<>> /\ req = [r \in Request |-> Idle] /\ cached = 0

NoneApplying == "outcome" \notin faults => \A g \in Issuable : outcome[g] # "applying"

LEMMA EmptyInv == Empty /\ Data /\ Issued /\ NoneApplying => Inv
<1> SUFFICES ASSUME Empty, Data, Issued, NoneApplying PROVE Inv
  OBVIOUS
<1>1. /\ \A r \in Request : req[r] = Idle
      /\ req \in [Request -> ReqType]
  BY IdleIsSensible DEF Empty
<1>2. Queue(<<>>, {})
  BY EmptySeq DEF Queue, IsInjective, ToSet
<1>3. /\ {r \in Request : req[r].pc \in ManagerPcs} = {}
      /\ {r \in Request : req[r].pc \in RunsPcs} = {}
  BY <1>1, IdleIsSensible DEF ManagerPcs, RunsPcs
<1>4. TypeOK
  BY <1>1, <1>2, <1>3, Unfold DEF Empty
<1>5. LockHeads /\ \A r \in Request : Sensible(req[r])
  BY <1>1, IdleIsSensible DEF LockHeads, At
<1>6. Len(managerLock) = 0
  BY DEF Empty
<1>7. Ordered /\ BuilderIsFollowed
  BY <1>1, <1>6, IdleIsSensible DEF Ordered, Newer, BuilderIsFollowed, Empty
<1>8. ResumesKnow
  BY <1>1, IdleIsSensible DEF ResumesKnow
<1>9. OutcomeHasRun /\ CacheIsCurrent
  BY DEF OutcomeHasRun, CacheIsCurrent, Empty, NoneApplying
<1>. QED
  BY <1>4, <1>5, <1>7, <1>8, <1>9 DEF Inv

LEMMA InitInv == Init => Inv
<1> SUFFICES ASSUME Init PROVE Inv
  OBVIOUS
<1>1. Empty
  BY DEF Init, Empty
<1>2. 0 \in 0..MaxGeneration /\ 1 \in 0..MaxGeneration /\ 1 \in Issuable
      /\ 0 \in 0..MaxRestarts
  BY MaxGenerationAssumption, MaxRestartsAssumption DEF Issuable
<1>3. Data
  BY <1>2 DEF Init, Data
<1>4. Issued
  BY <1>1, IdleIsSensible DEF Init, Issued, Known
<1>5. NoneApplying
  BY DEF Init, NoneApplying
<1>. QED
  BY <1>1, <1>3, <1>4, <1>5, EmptyInv

\* What is undecided when the engine stops is of the registered generation, and is
\* decided by the next start.
LEMMA RestartInv ==
  ASSUME Inv, Restart
  PROVE  Inv'
<1>1. /\ cached' = 0 /\ managerLock' = <<>> /\ runsLock' = <<>>
      /\ req' = [r \in Request |-> Idle]
      /\ workspace' \in (IF workspace # 0 THEN {workspace} ELSE {0, leftover})
      /\ leftover' = 0 /\ outcome' = Recover(workspace')
      /\ restarts' = restarts + 1 /\ restarts < MaxRestarts
      /\ UNCHANGED <<issued, thread, row, faults>>
  BY DEF Restart
<1>2. Data /\ Issued /\ issued \in Nat
  BY Unfold, MaxGenerationAssumption DEF Inv, Data, Issuable
<1>3. Data'
  <2>1. outcome' \in [Issuable -> {"absent", "applying", "terminal"}]
    BY <1>1, <1>2 DEF Recover, Data
  <2>2. restarts + 1 \in 0..MaxRestarts
    BY <1>1, <1>2, MaxRestartsAssumption DEF Data
  <2>3. workspace' \in 0..MaxGeneration /\ 0 \in 0..MaxGeneration
    BY <1>1, <1>2, MaxGenerationAssumption DEF Data
  <2>. QED
    BY <1>1, <1>2, <2>1, <2>2, <2>3 DEF Data
<1>4. Issued'
  <2>1. \A r \in Request : req'[r] = Idle
    BY <1>1
  <2>. QED
    BY <1>1, <1>2, <2>1, IdleIsSensible DEF Issued, Known
<1>5. NoneApplying'
  <2> SUFFICES ASSUME "outcome" \notin faults', NEW g \in Issuable
               PROVE  outcome'[g] # "applying"
    BY DEF NoneApplying
  <2>1. outcome[g] = "applying" => g = workspace
    BY <1>1 DEF Inv, OutcomeHasRun, ResumesKnow, Resumes, Sensible, RunPcs, At
  <2>2. g # 0
    BY MaxGenerationAssumption DEF Issuable
  <2>. QED
    BY <1>1, <2>1, <2>2 DEF Recover
<1>6. Empty'
  BY <1>1 DEF Empty
<1>. QED
  BY <1>3, <1>4, <1>5, <1>6, EmptyInv, PTL

LEMMA NextInv == Inv /\ [Next]_vars => Inv'
<1> SUFFICES ASSUME Inv, [Next]_vars PROVE Inv'
  OBVIOUS
<1>1. CASE UNCHANGED vars
  <2>1. UNCHANGED <<workspace, leftover, issued, cached, managerLock, runsLock, req, thread, row,
                    outcome, restarts, faults>>
    BY <1>1 DEF vars
  <2>2. TypeOK'
    BY <2>1 DEF Inv, TypeOK, IsQueueOf
  <2>3. LockHeads' /\ (\A r \in Request : Sensible(req'[r])) /\ Issued' /\ Ordered'
    BY <2>1 DEF Inv, LockHeads, At, Holds, Issued, Known, Ordered, Newer
  <2>4. ResumesKnow' /\ OutcomeHasRun' /\ BuilderIsFollowed' /\ CacheIsCurrent'
    BY <2>1 DEF Inv, ResumesKnow, Resumes, OutcomeHasRun, BuilderIsFollowed, CacheIsCurrent, At
  <2>. QED
    BY <2>2, <2>3, <2>4 DEF Inv
<1>2. CASE Create \/ Restart
  BY <1>2, CreateInv, RestartInv
<1>3. ASSUME NEW r \in Request, Proceeds(r) PROVE Inv'
  BY <1>3, AnsweredInv, GrantedInv, BuiltInv, ChatOpensInv, ResumeQueuesInv, ResumeEntersInv,
     ResumeClaimsInv, RunConcludesInv, GuardEntersInv, DeleteFailsInv, InvalidateGrantedInv
     DEF Proceeds
<1>4. ASSUME NEW r \in Request,
             \/ TurnAsks(r)
             \/ \E kind \in {"chat", "resume"} : Arrive(r, kind)
             \/ \E kind \in {"change", "delete"} : GuardQueues(r, kind)
      PROVE  Inv'
  BY <1>4, TurnAsksInv, ArriveInv, GuardQueuesInv
<1>. QED
  BY <1>1, <1>2, <1>3, <1>4 DEF Next

\* The invariant of every workspace, however its requests interleave.
THEOREM RuntimeInvariance == Spec => []Inv
<1>. QED
  BY InitInv, NextInv, PTL DEF Spec

\* Both locks are held and awaited by exactly the requests that should (TypeOK).
THEOREM RuntimeTyped == Spec => []TypeOK
<1>1. Inv => TypeOK
  BY DEF Inv
<1>. QED
  BY <1>1, RuntimeInvariance, PTL

LEMMA InvRunIsCurrent == Inv => RunIsCurrent
<1> SUFFICES ASSUME Inv, NEW r \in Running PROVE req[r].ws = workspace /\ req[r].mgr = workspace
  BY DEF RunIsCurrent
<1>1. r \in Request /\ req[r].pc \in {"running", "ending"}
  BY DEF Running
<1>2. Sensible(req[r]) /\ Resumes(req[r])
  BY <1>1, Here
<1>. QED
  BY <1>1, <1>2 DEF Sensible, Resumes, RunPcs, Builds

\* An approval run works on the workspace as it is registered, with its manager,
\* until it has left (workspace_lifecycle_guard, resume, _execute_resume_run).
THEOREM RunsAreCurrent == Spec => []RunIsCurrent
<1>. QED
  BY InvRunIsCurrent, RuntimeInvariance, PTL

\* An invalidated manager does not come back (get_ and invalidate_workspace_manager).
THEOREM CacheStaysCurrent == Spec => []CacheIsCurrent
<1>1. Inv => CacheIsCurrent
  BY DEF Inv
<1>. QED
  BY <1>1, RuntimeInvariance, PTL

LEMMA InvOutcomeIsReachable == Inv => OutcomeIsReachable
<1> SUFFICES ASSUME Inv, "outcome" \notin faults, NEW g \in Issuable, outcome[g] = "applying"
             PROVE  g = workspace
  BY DEF OutcomeIsReachable
<1>1. PICK r \in Request : At(r, "running") /\ req[r].ws = g
  BY DEF Inv, OutcomeHasRun
<1>2. Sensible(req[r]) /\ Resumes(req[r])
  BY Here
<1>. QED
  BY <1>1, <1>2 DEF Sensible, Resumes, RunPcs, At

\* Every outcome that is undecided is one that recovery will look at.
THEOREM OutcomesAreReachable == Spec => []OutcomeIsReachable
<1>. QED
  BY InvOutcomeIsReachable, RuntimeInvariance, PTL
=============================================================================
