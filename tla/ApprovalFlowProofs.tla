------------------------- MODULE ApprovalFlowProofs --------------------------
(***************************************************************************)
(* The approval flow, proved for any sessions, proposals, texts and        *)
(* limits, with any number of crashes, edits and faults: it uses the store *)
(* only through its transactions, so that what is proved of the store      *)
(* holds in the flow; it writes a change only once and only if approved,   *)
(* never over an update it has not seen; tests see what was written; the   *)
(* memory is backed by rows and no undecided outcome is orphaned; it       *)
(* implements ApprovalPromise; and, with one apply call in a message, an   *)
(* approved change is refused only for a reason and never written once its *)
(* outcome stands.                                                         *)
(***************************************************************************)
EXTENDS ApprovalFlow, ProposalStoreProofs

------------------------------------------------------------------------------
\* The inductive invariant.

Previewed == {p \in Proposal : patch[p] # None}
Answered == granted \cup denied

\* A turn handles proposals that were previewed, and has one at hand when it
\* remembers or tests.
TurnOK(s) ==
    /\ Ids(thread[s].calls) \subseteq Previewed
    /\ Ids(graph[s].todo) \subseteq Previewed
    /\ Ids(graph[s].ready) \subseteq Previewed
    /\ graph[s].pc \in {"remember", "testing"} => graph[s].todo # <<>>
TurnInv == \A s \in Session : TurnOK(s)

\* A run that holds a session's turn is the running one of that session; what a
\* run, a recorded answer or a turn about to apply takes for granted is granted.
TurnConsents(s) ==
    /\ graph[s].by \in Proposal => /\ run[graph[s].by].st = "running"
                                   /\ run[graph[s].by].by = s
    /\ \A a \in Ids(thread[s].answers) : a.ok => a.id \in granted
    /\ graph[s].pc \in {"execute", "testing"} => Ids(graph[s].todo) \subseteq granted
RunConsents(p) ==
    run[p].st # "none" => /\ run[p].by \in Session
                          /\ p \in (IF run[p].ok THEN granted ELSE denied)
ConsentInv ==
    /\ \A s \in Session : TurnConsents(s)
    /\ \A p \in Proposal : RunConsents(p)

\* A proposal is answered once, with the claim of its row; an outcome exists
\* only for what was answered.
AnswerInv ==
    /\ granted \cap denied = {}
    /\ \A p \in Answered : p \in Ids(saved) /\ changes[p] # "pending"
    /\ \A p \in Proposal : outcomes[p] # "absent" => p \in Answered

\* What was written had been granted and is consumed; who tests has written,
\* and so has a run that saw a verification.
WriteInv ==
    /\ \A p \in Proposal : writes[p] # 0 =>
        /\ writes[p] = 1
        /\ p \in granted /\ p \in Ids(saved)
        /\ changes[p] \in {"consumed", "absent"}
    /\ \A s \in Session : graph[s].pc = "testing" => writes[Head(graph[s].todo)] # 0
    /\ \A p \in Proposal : run[p].got = "verification" => writes[p] # 0

\* Every row is of the one generation of the behaviour.
HereInv == \A p \in Proposal : changes[p] # "absent" => gen[p] = Gen

\* One turn tests at a time.
TestInv ==
    /\ \A s, t \in Session :
        graph[s].pc = "testing" /\ graph[t].pc = "testing" => s = t
    /\ TestsSeeTheirWrite

FlowInv ==
    /\ StoreInv /\ FlowTypeOK
    /\ TurnInv /\ ConsentInv /\ AnswerInv /\ WriteInv /\ HereInv /\ TestInv
    /\ MemoryIsBacked /\ NoOrphan

------------------------------------------------------------------------------
\* Lemmas on the operators.

\* The elements of a sequence and of its parts.
LEMMA IdsOf ==
    ASSUME NEW S, NEW q \in Seq(S)
    PROVE  /\ Ids(q) \subseteq S
           /\ q # <<>> => /\ Head(q) \in Ids(q)
                          /\ Tail(q) \in Seq(S)
                          /\ Ids(Tail(q)) \subseteq Ids(q)
<1>1. Ids(q) \subseteq S
  BY DEF Ids
<1>2. ASSUME q # <<>> PROVE Head(q) \in Ids(q) /\ Tail(q) \in Seq(S)
  BY <1>2 DEF Ids
<1>3. ASSUME q # <<>> PROVE Ids(Tail(q)) \subseteq Ids(q)
  <2> SUFFICES ASSUME NEW i \in DOMAIN Tail(q) PROVE Tail(q)[i] \in Ids(q)
    BY DEF Ids
  <2>1. Tail(q)[i] = q[i + 1] /\ i + 1 \in DOMAIN q
    BY <1>3
  <2> QED BY <2>1 DEF Ids
<1> QED BY <1>1, <1>2, <1>3

LEMMA IdsOfShort ==
    /\ Ids(<<>>) = {}
    /\ \A p : Ids(<<p>>) = {p}
  BY DEF Ids

\* The sequences that the recursion of Chosen builds on the way to n.
UpTo(order, at, f, n) ==
    f = [k \in 0..n |-> IF k = 0 THEN <<>>
                        ELSE IF k \in at THEN Append(f[k - 1], order[k]) ELSE f[k - 1]]

LEMMA UpToExists ==
    ASSUME NEW order, NEW at
    PROVE  \A n \in Nat : \E f : UpTo(order, at, f, n)
<1> DEFINE Bad == {n \in Nat : ~ \E f : UpTo(order, at, f, n)}
<1> SUFFICES ASSUME Bad # {} PROVE FALSE
  OBVIOUS
<1>1. PICK n \in Bad : \A m \in Bad : n <= m
  BY FirstPosition
<1>2. CASE n = 0
  <2>1. UpTo(order, at, [k \in 0..0 |-> <<>>], 0)
    BY DEF UpTo
  <2> QED BY <1>1, <1>2, <2>1
<1>3. CASE n # 0
  <2>1. PICK f : UpTo(order, at, f, n - 1)
    BY <1>1, <1>3
  <2> DEFINE next == IF n \in at THEN Append(f[n - 1], order[n]) ELSE f[n - 1]
             g == [k \in 0..n |-> IF k # n THEN f[k] ELSE next]
  <2>2. \A k \in 0..(n - 1) : g[k] = f[k]
    BY <1>1, <1>3
  <2>3. g[n] = IF n \in at THEN Append(g[n - 1], order[n]) ELSE g[n - 1]
    BY <1>1, <1>3, <2>2
  <2>4. \A k \in 0..(n - 1) :
            f[k] = IF k = 0 THEN <<>>
                   ELSE IF k \in at THEN Append(f[k - 1], order[k]) ELSE f[k - 1]
    BY <2>1 DEF UpTo
  <2>5. DOMAIN g = 0..n /\ g = [k \in 0..n |-> g[k]]
    OBVIOUS
  <2> HIDE DEF g
  <2>6. \A k \in 0..n :
            g[k] = IF k = 0 THEN <<>>
                   ELSE IF k \in at THEN Append(g[k - 1], order[k]) ELSE g[k - 1]
    <3> TAKE k \in 0..n
    <3>1. CASE k = n
      BY <1>1, <1>3, <2>3, <3>1
    <3>2. CASE k # n
      <4>1. k \in 0..(n - 1) /\ (k # 0 => k - 1 \in 0..(n - 1))
        BY <1>1, <1>3, <3>2
      <4>2. g[k] = f[k] /\ (k # 0 => g[k - 1] = f[k - 1])
        BY <2>2, <4>1
      <4> QED BY <2>4, <4>1, <4>2
    <3> QED BY <3>1, <3>2
  <2>7. UpTo(order, at, g, n)
    BY <2>5, <2>6 DEF UpTo
  <2> QED BY <1>1, <2>7
<1> QED BY <1>2, <1>3

\* Chosen keeps only what is at the given positions.
LEMMA ChosenIsChosen ==
    ASSUME NEW T, NEW order \in Seq(T), NEW at
    PROVE  /\ Chosen(order, at) \in Seq(T)
           /\ \A x \in Ids(Chosen(order, at)) : \E k \in at \cap DOMAIN order : x = order[k]
<1> DEFINE Good(q) == /\ q \in Seq(T)
                      /\ \A x \in Ids(q) : \E k \in at \cap DOMAIN order : x = order[k]
           Bad(f) == {n \in 0..Len(order) : ~ Good(f[n])}
<1>1. Len(order) \in Nat /\ DOMAIN order = 1..Len(order) /\ Len(order) \in 0..Len(order)
  OBVIOUS
<1>2. \E f : UpTo(order, at, f, Len(order))
  BY <1>1, UpToExists
<1>3. PICK f : UpTo(order, at, f, Len(order)) /\ Chosen(order, at) = f[Len(order)]
  BY <1>2 DEF Chosen, UpTo
<1>4. f[0] = <<>>
  BY <1>1, <1>3 DEF UpTo
<1>5. \A n \in 1..Len(order) :
        f[n] = IF n \in at THEN Append(f[n - 1], order[n]) ELSE f[n - 1]
  <2> TAKE n \in 1..Len(order)
  <2>1. n \in 0..Len(order) /\ n # 0
    BY <1>1
  <2> QED BY <1>3, <2>1, Zenon DEF UpTo
<1>6. Good(<<>>)
  BY DEF Ids
<1>7. ASSUME NEW q, Good(q), NEW n \in at \cap DOMAIN order
      PROVE  Good(Append(q, order[n]))
  <2>1. Append(q, order[n]) \in Seq(T)
    BY <1>7
  <2>2. \A x \in Ids(Append(q, order[n])) : x = order[n] \/ x \in Ids(q)
    BY <1>7 DEF Ids
  <2> QED BY <1>7, <2>1, <2>2
<1> HIDE DEF Good
<1>8. Bad(f) = {}
  <2> SUFFICES ASSUME Bad(f) # {} PROVE FALSE
    OBVIOUS
  <2>1. Bad(f) \subseteq Nat
    BY <1>1
  <2>2. PICK n \in Bad(f) : \A m \in Bad(f) : n <= m
    BY <2>1, FirstPosition
  <2>3. n \in 1..Len(order) /\ n - 1 \in 0..Len(order) /\ ~ (n <= n - 1)
    BY <1>1, <1>4, <1>6, <2>2
  <2>4. Good(f[n - 1])
    BY <2>2, <2>3
  <2>5. Good(f[n])
    BY <1>1, <1>5, <1>7, <2>3, <2>4
  <2> QED BY <2>2, <2>5
<1>9. Good(f[Len(order)])
  BY <1>1, <1>8
<1> QED BY <1>3, <1>9 DEF Good

\* What is removed from an order is gone, and nothing is added.
LEMMA WithoutRemoves ==
    ASSUME NEW S, NEW order \in Seq(S), NEW gone
    PROVE  /\ Without(order, gone) \in Seq(S)
           /\ Ids(Without(order, gone)) \subseteq Ids(order) \ gone
<1> DEFINE at == {i \in DOMAIN order : order[i] \notin gone}
<1>1. Without(order, gone) = Chosen(order, at)
  BY DEF Without
<1>2. \A k \in at \cap DOMAIN order : order[k] \in Ids(order) \ gone
  BY DEF Ids
<1> HIDE DEF at
<1>3. /\ Chosen(order, at) \in Seq(S)
      /\ \A x \in Ids(Chosen(order, at)) : \E k \in at \cap DOMAIN order : x = order[k]
  BY ChosenIsChosen
<1> QED BY <1>1, <1>2, <1>3

\* A call is executed only if its approval was answered with yes.
LEMMA ApprovedAreGranted ==
    ASSUME FlowTypeOK, ConsentInv, NEW s \in Session,
           Len(graph[s].ready) <= Len(thread[s].answers)
    PROVE  /\ Approved(s) \in Seq(Proposal)
           /\ Ids(Approved(s)) \subseteq Ids(graph[s].ready) \cap granted
<1> DEFINE ready == graph[s].ready
           given == thread[s].answers
           at == {i \in DOMAIN ready : given[i] = [id |-> ready[i], ok |-> TRUE]}
<1>1. ready \in Seq(Proposal) /\ given \in Seq(Answer)
  BY DEF FlowTypeOK, Turn, Checkpoint
<1>2. Approved(s) = Chosen(ready, at)
  BY DEF Approved
<1>3. ASSUME NEW k \in at \cap DOMAIN ready
      PROVE  ready[k] \in Ids(ready) /\ ready[k] \in granted
  <2>1. k \in DOMAIN given
    BY <1>1
  <2>2. given[k] \in Ids(given) /\ given[k].id = ready[k] /\ given[k].ok
    BY <2>1 DEF Ids
  <2> QED BY <2>2 DEF ConsentInv, TurnConsents, Ids
<1> HIDE DEF ready, at
<1>4. /\ Chosen(ready, at) \in Seq(Proposal)
      /\ \A x \in Ids(Chosen(ready, at)) : \E k \in at \cap DOMAIN ready : x = ready[k]
  BY <1>1, ChosenIsChosen
<1> QED BY <1>2, <1>3, <1>4 DEF ready

------------------------------------------------------------------------------
\* The flow uses the store only through its transactions.

\* The store's transactions, as the one workspace of the flow calls them;
\* ResumeClaim calls the one that is missing here, claim_outcome.
Transaction ==
    \E p \in Proposal :
        \/ Lapse(p) \/ Save(p, Gen) \/ LoadExpire(p, Gen) \/ Consume(p, Gen)
        \/ \E state \in {"evicted", "expired"} : Discard(p, Gen, state)
        \/ \E s \in Session, state \in Terminal : CompleteOutcome(p, Gen, s, state)
        \/ \E written \in BOOLEAN : Reconcile(p, Gen, written)

LEMMA TransactionIsStoreStep == Transaction => StoreNext
  BY GenAssumption DEF Transaction, StoreNext

\* What the flow knows about the proposal a turn has at hand.
LEMMA HeadIsPreviewed ==
    ASSUME FlowTypeOK, TurnInv, NEW s \in Session, graph[s].todo # <<>>
    PROVE  /\ Head(graph[s].todo) \in Proposal
           /\ Head(graph[s].todo) \in Ids(graph[s].todo)
           /\ patch[Head(graph[s].todo)] \in Patch
           /\ Tail(graph[s].todo) \in Seq(Proposal)
           /\ Ids(Tail(graph[s].todo)) \subseteq Ids(graph[s].todo)
<1>1. graph[s].todo \in Seq(Proposal)
  BY DEF FlowTypeOK, Turn
<1>2. /\ Head(graph[s].todo) \in Ids(graph[s].todo)
      /\ Ids(graph[s].todo) \subseteq Proposal
      /\ Tail(graph[s].todo) \in Seq(Proposal)
      /\ Ids(Tail(graph[s].todo)) \subseteq Ids(graph[s].todo)
  BY <1>1, IdsOf
<1>3. Head(graph[s].todo) \in Previewed
  BY <1>2 DEF TurnInv, TurnOK
<1> QED BY <1>2, <1>3 DEF Previewed, FlowTypeOK

LEMMA RunResultIsTerminal ==
    ASSUME FlowTypeOK, NEW p \in Proposal
    PROVE  RunResult(p) \in Terminal
<1>1. run[p].got \in {"nothing", "file_change", "verification"}
  BY DEF FlowTypeOK, Run
<1> QED BY <1>1 DEF RunResult, Terminal

LEMMA TurnTransacts ==
    ASSUME FlowTypeOK, TurnInv, NEW s \in Session, TurnStep(s)
    PROVE  Transaction \/ UNCHANGED storeVars
<1>1. ASSUME RememberPrune(s) PROVE Transaction \/ UNCHANGED storeVars
  <2>1. PICK p \in Ids(mem) \cap lapsed : Forget(p, "expired")
    BY <1>1 DEF RememberPrune
  <2>2. p \in Proposal
    BY IdsOf DEF FlowTypeOK
  <2> QED BY <2>1, <2>2 DEF Forget, Transaction
<1>2. ASSUME RememberEvict(s) PROVE Transaction \/ UNCHANGED storeVars
  <2>1. mem # <<>> /\ Forget(Head(mem), "evicted")
    BY <1>2, MaxPendingAssumption DEF RememberEvict, FlowTypeOK
  <2>2. Head(mem) \in Proposal
    BY <2>1, IdsOf DEF FlowTypeOK
  <2> QED BY <2>1, <2>2 DEF Forget, Transaction
<1>3. ASSUME RememberSave(s) PROVE Transaction
  <2>1. graph[s].todo # <<>> /\ Save(Head(graph[s].todo), Gen)
    BY <1>3 DEF RememberSave, TurnInv, TurnOK
  <2> QED BY <2>1, HeadIsPreviewed DEF Transaction
<1>4. ASSUME ToolPrepare(s) \/ ApplyRefused(s) PROVE Transaction \/ UNCHANGED storeVars
  <2>1. graph[s].todo # <<>> /\ RequirePending(Head(graph[s].todo))
    BY <1>4 DEF ToolPrepare, ApplyRefused, Executing
  <2> QED BY <2>1, HeadIsPreviewed DEF RequirePending, Transaction
<1>5. ASSUME ApplyApproved(s) PROVE Transaction
  <2>1. graph[s].todo # <<>> /\ Consume(Head(graph[s].todo), Gen)
    BY <1>5 DEF ApplyApproved, Executing
  <2> QED BY <2>1, HeadIsPreviewed DEF Transaction
<1>6. ASSUME ToolInterrupt(s) \/ ToolPass(s) \/ ApplyReturns(s) \/ ToolsDone(s)
      PROVE  UNCHANGED storeVars
  BY <1>6 DEF ToolInterrupt, ToolPass, ApplyReturns, ToolsDone
<1> QED BY <1>1, <1>2, <1>3, <1>4, <1>5, <1>6 DEF TurnStep

LEMMA StepTransacts ==
    ASSUME FlowTypeOK, TurnInv, ConsentInv, Next
    PROVE  Transaction \/ ResumeClaim \/ UNCHANGED storeVars
<1>1. ASSUME NEW s \in Session, TurnStep(s) PROVE Transaction \/ UNCHANGED storeVars
  BY <1>1, TurnTransacts
<1>2. ASSUME NEW s \in Session, CrashBeforeWrite(s) PROVE Transaction
  <2>1. graph[s].todo # <<>> /\ Consume(Head(graph[s].todo), Gen)
    BY <1>2 DEF CrashBeforeWrite, Executing
  <2> QED BY <2>1, HeadIsPreviewed DEF Transaction
<1>3. ASSUME NEW s \in Session,
             \/ ChatStart(s) \/ AgentStop(s) \/ StreamBreaks(s)
             \/ \E p \in Proposal, text \in Content : AgentPreview(s, p, text)
             \/ \E calls \in Calls : AgentApply(s, calls)
             \/ \E p \in Proposal, ok \in BOOLEAN : ResumeCheck(s, p, ok)
      PROVE  UNCHANGED storeVars
  BY <1>3 DEF ChatStart, AgentStop, StreamBreaks, AgentPreview, AgentApply, ResumeCheck
<1>4. ASSUME NEW p \in Proposal, RunComplete(p) PROVE Transaction \/ UNCHANGED storeVars
  <2>1. run[p].by \in Session /\ RunResult(p) \in Terminal
    BY <1>4, RunResultIsTerminal DEF RunComplete, ConsentInv, RunConsents
  <2> QED BY <1>4, <2>1 DEF RunComplete, Transaction
<1>5. ASSUME NEW p \in Proposal, SweepRow(p) \/ TimePasses(p) PROVE Transaction
  BY <1>5 DEF SweepRow, TimePasses, Transaction
<1>6. ASSUME NEW p \in Proposal,
             RunStart(p) \/ RunDenied(p) \/ RunUnrecorded(p) \/ ResumeOrphan(p)
      PROVE  UNCHANGED storeVars
  BY <1>6 DEF RunStart, RunDenied, RunUnrecorded, ResumeOrphan
<1>7. ASSUME \/ ResumeRefused \/ Crash \/ Restart
             \/ \E text \in FileState : Edit(text)
      PROVE  UNCHANGED storeVars
  BY <1>7 DEF ResumeRefused, Crash, Restart, Edit
<1> QED BY <1>1, <1>2, <1>3, <1>4, <1>5, <1>6, <1>7 DEF Next, RunStep, ApiStep

LEMMA StepIsStoreStep ==
    FlowTypeOK /\ TurnInv /\ ConsentInv /\ [Next]_vars => [StoreNext]_storeVars
<1>1. UNCHANGED vars => UNCHANGED storeVars
  BY DEF vars
<1>2. FlowTypeOK /\ ResumeClaim => StoreNext
  BY GenAssumption DEF ResumeClaim, StoreNext, FlowTypeOK
<1> QED BY <1>1, <1>2, StepTransacts, TransactionIsStoreStep

------------------------------------------------------------------------------
\* Types.

\* The memory of the change service, after the operations that write it.
LEMMA MemoryIsTyped ==
    ASSUME FlowTypeOK, NEW p \in Proposal
    PROVE  /\ RequirePending(p) => mem' \in Seq(Proposal)
           /\ \A state : Forget(p, state) => mem' \in Seq(Proposal)
           /\ \A gone : Append(Without(mem, gone), p) \in Seq(Proposal)
<1>1. mem \in Seq(Proposal)
  BY DEF FlowTypeOK
<1>2. \A gone : Without(mem, gone) \in Seq(Proposal)
  BY <1>1, WithoutRemoves
<1>3. RequirePending(p) => mem' \in {Without(mem, {p}), Append(mem, p), mem}
  BY DEF RequirePending
<1>4. Append(mem, p) \in Seq(Proposal)
  BY <1>1
<1>5. \A gone : Append(Without(mem, gone), p) \in Seq(Proposal)
  BY <1>2
<1>6. \A state : Forget(p, state) => mem' = Without(mem, {p})
  BY DEF Forget
<1> QED BY <1>1, <1>2, <1>3, <1>4, <1>5, <1>6

\* A run of the registry, after the updates that keep its session and answer.
LEMMA RunsAreTyped ==
    ASSUME FlowTypeOK
    PROVE  /\ \A p, state : state \in {"none", "queued", "running", "finishing"} =>
                [run EXCEPT ![p].st = state] \in [Proposal -> Run]
           /\ \A p, event : event \in {"nothing", "file_change", "verification"} =>
                [run EXCEPT ![p].got = event] \in [Proposal -> Run]
           /\ \A p : [run EXCEPT ![p] = NoRun] \in [Proposal -> Run]
<1>1. run \in [Proposal -> Run]
  BY DEF FlowTypeOK
<1>2. \A f \in [Proposal -> Run] : \A p, state : state \in {"none", "queued", "running", "finishing"} =>
        [f EXCEPT ![p].st = state] \in [Proposal -> Run]
  BY ZenonT(40) DEF Run
<1>3. \A p, event : event \in {"nothing", "file_change", "verification"} =>
        [run EXCEPT ![p].got = event] \in [Proposal -> Run]
  BY <1>1 DEF Run
<1>4. \A p : [run EXCEPT ![p] = NoRun] \in [Proposal -> Run]
  BY <1>1 DEF Run, NoRun
<1> QED BY <1>1, <1>2, <1>3, <1>4

Place == {"idle", "agent", "remember", "tools", "prepare", "execute", "testing"}

\* The turns, after the updates that keep their holder.
LEMMA TurnsAreTyped ==
    ASSUME FlowTypeOK, NEW s \in Session
    PROVE  /\ [graph EXCEPT ![s] = Idle] \in [Session -> Turn]
           /\ \A pc \in Place : [graph EXCEPT ![s].pc = pc] \in [Session -> Turn]
           /\ \A todo \in Seq(Proposal) : [graph EXCEPT ![s].todo = todo] \in [Session -> Turn]
           /\ \A pc \in Place, todo \in Seq(Proposal) :
                [graph EXCEPT ![s].pc = pc, ![s].todo = todo] \in [Session -> Turn]
           /\ \A pc \in Place, ready \in Seq(Proposal) :
                [graph EXCEPT ![s].pc = pc, ![s].ready = ready] \in [Session -> Turn]
           /\ \A pc \in Place, todo, ready \in Seq(Proposal) :
                [graph EXCEPT ![s].pc = pc, ![s].todo = todo, ![s].ready = ready]
                    \in [Session -> Turn]
<1>1. Idle \in Turn
  BY DEF Idle, Turn
<1>2. graph \in [Session -> Turn] /\ graph[s] \in Turn
  BY DEF FlowTypeOK
<1>3. \A turn \in Turn : [graph EXCEPT ![s] = turn] \in [Session -> Turn]
  BY <1>2
<1>4. /\ \A pc \in Place : [graph[s] EXCEPT !.pc = pc] \in Turn
      /\ \A todo \in Seq(Proposal) : [graph[s] EXCEPT !.todo = todo] \in Turn
      /\ \A pc \in Place, todo \in Seq(Proposal) :
            [graph[s] EXCEPT !.pc = pc, !.todo = todo] \in Turn
      /\ \A pc \in Place, ready \in Seq(Proposal) :
            [graph[s] EXCEPT !.pc = pc, !.ready = ready] \in Turn
      /\ \A pc \in Place, todo, ready \in Seq(Proposal) :
            [graph[s] EXCEPT !.pc = pc, !.todo = todo, !.ready = ready] \in Turn
  BY <1>2 DEF Turn, Place
<1>5. \A pc \in Place : [graph EXCEPT ![s].pc = pc] \in [Session -> Turn]
  <2> TAKE pc \in Place
  <2>1. [graph EXCEPT ![s].pc = pc] = [graph EXCEPT ![s] = [graph[s] EXCEPT !.pc = pc]]
    BY <1>2
  <2> QED BY <1>3, <1>4, <2>1
<1>6. \A todo \in Seq(Proposal) : [graph EXCEPT ![s].todo = todo] \in [Session -> Turn]
  <2> TAKE todo \in Seq(Proposal)
  <2>1. [graph EXCEPT ![s].todo = todo] = [graph EXCEPT ![s] = [graph[s] EXCEPT !.todo = todo]]
    BY <1>2
  <2> QED BY <1>3, <1>4, <2>1
<1>7. \A pc \in Place, todo \in Seq(Proposal) :
        [graph EXCEPT ![s].pc = pc, ![s].todo = todo] \in [Session -> Turn]
  <2> TAKE pc \in Place, todo \in Seq(Proposal)
  <2>1. [graph EXCEPT ![s].pc = pc, ![s].todo = todo]
        = [graph EXCEPT ![s] = [graph[s] EXCEPT !.pc = pc, !.todo = todo]]
    BY <1>2
  <2> QED BY <1>3, <1>4, <2>1
<1>8. \A pc \in Place, ready \in Seq(Proposal) :
        [graph EXCEPT ![s].pc = pc, ![s].ready = ready] \in [Session -> Turn]
  <2> TAKE pc \in Place, ready \in Seq(Proposal)
  <2>1. [graph EXCEPT ![s].pc = pc, ![s].ready = ready]
        = [graph EXCEPT ![s] = [graph[s] EXCEPT !.pc = pc, !.ready = ready]]
    BY <1>2
  <2> QED BY <1>3, <1>4, <2>1
<1>9. \A pc \in Place, todo, ready \in Seq(Proposal) :
        [graph EXCEPT ![s].pc = pc, ![s].todo = todo, ![s].ready = ready] \in [Session -> Turn]
  <2> TAKE pc \in Place, todo, ready \in Seq(Proposal)
  <2>1. [graph EXCEPT ![s].pc = pc, ![s].todo = todo, ![s].ready = ready]
        = [graph EXCEPT ![s] = [graph[s] EXCEPT !.pc = pc, !.todo = todo, !.ready = ready]]
    BY <1>2
  <2> QED BY <1>3, <1>4, <2>1
<1> QED BY <1>1, <1>3, <1>5, <1>6, <1>7, <1>8, <1>9

LEMMA EndTurnIsTyped ==
    ASSUME FlowTypeOK, NEW s \in Session, EndTurn(s)
    PROVE  graph' \in [Session -> Turn] /\ run' \in [Proposal -> Run]
<1>1. run' \in [Proposal -> Run]
  BY RunsAreTyped DEF EndTurn, FlowTypeOK
<1> QED BY <1>1, TurnsAreTyped DEF EndTurn

LEMMA CheckpointsAreTyped ==
    ASSUME FlowTypeOK, NEW s \in Session
    PROVE  /\ [thread EXCEPT ![s] = Empty] \in [Session -> Checkpoint]
           /\ \A p \in Proposal : [thread EXCEPT ![s].ask = p] \in [Session -> Checkpoint]
           /\ \A calls \in Seq(Proposal) :
                [thread EXCEPT ![s] = [Empty EXCEPT !.calls = calls]] \in [Session -> Checkpoint]
           /\ \A p \in Proposal, ok \in BOOLEAN :
                [thread EXCEPT ![s].answers = Append(@, [id |-> p, ok |-> ok])]
                    \in [Session -> Checkpoint]
<1>1. Empty \in Checkpoint
  BY DEF Empty, Checkpoint
<1>2. \A calls \in Seq(Proposal) : [Empty EXCEPT !.calls = calls] \in Checkpoint
  <2>1. \A calls : [Empty EXCEPT !.calls = calls]
                  = [calls |-> calls, answers |-> <<>>, ask |-> None]
    BY DEF Empty
  <2>2. \A calls \in Seq(Proposal) :
            [calls |-> calls, answers |-> <<>>, ask |-> None] \in Checkpoint
    BY DEF Checkpoint
  <2> QED BY <2>1, <2>2
<1>3. \A p \in Proposal, ok \in BOOLEAN :
        Append(thread[s].answers, [id |-> p, ok |-> ok]) \in Seq(Answer)
  <2>1. thread[s].answers \in Seq(Answer)
    BY DEF FlowTypeOK, Checkpoint
  <2>2. \A p \in Proposal, ok \in BOOLEAN : [id |-> p, ok |-> ok] \in Answer
    BY DEF Answer
  <2> TAKE p \in Proposal, ok \in BOOLEAN
  <2> DEFINE answer == [id |-> p, ok |-> ok]
  <2>3. answer \in Answer
    BY <2>2
  <2> HIDE DEF answer
  <2>4. Append(thread[s].answers, answer) \in Seq(Answer)
    BY <2>1, <2>3
  <2> QED BY <2>4 DEF answer
<1>4. \A answers \in Seq(Answer) : [thread[s] EXCEPT !.answers = answers] \in Checkpoint
  BY DEF FlowTypeOK, Checkpoint
<1>5. \A p \in Proposal : [thread[s] EXCEPT !.ask = p] \in Checkpoint
  BY DEF FlowTypeOK, Checkpoint
<1>6. thread \in [Session -> Checkpoint]
  BY DEF FlowTypeOK
<1>7. \A point \in Checkpoint : [thread EXCEPT ![s] = point] \in [Session -> Checkpoint]
  BY <1>6
<1>8. \A answers : [thread EXCEPT ![s].answers = answers]
                   = [thread EXCEPT ![s] = [thread[s] EXCEPT !.answers = answers]]
  BY <1>6
<1>9. \A p : [thread EXCEPT ![s].ask = p]
             = [thread EXCEPT ![s] = [thread[s] EXCEPT !.ask = p]]
  BY <1>6
<1> QED BY <1>1, <1>2, <1>3, <1>4, <1>5, <1>7, <1>8, <1>9

LEMMA CallsAreTyped == \A calls \in Calls : calls \in Seq(Proposal)
  BY FlowBounds DEF Calls

LEMMA AgentIsTyped ==
    ASSUME FlowTypeOK, NEW s \in Session,
           \/ ChatStart(s) \/ AgentStop(s)
           \/ \E p \in Proposal, text \in Content : AgentPreview(s, p, text)
           \/ \E calls \in Calls : AgentApply(s, calls)
    PROVE  FlowTypeOK'
<1>1. ASSUME ChatStart(s) PROVE FlowTypeOK'
  <2>1. [Idle EXCEPT !.by = "chat", !.pc = "agent"] \in Turn
    <3>1. Idle \in Turn
      BY DEF Idle, Turn
    <3>2. \A turn \in Turn : [turn EXCEPT !.by = "chat", !.pc = "agent"] \in Turn
      BY DEF Turn
    <3> QED BY <3>1, <3>2
  <2>2. graph' \in [Session -> Turn] /\ thread' \in [Session -> Checkpoint]
    BY <1>1, <2>1, CheckpointsAreTyped DEF ChatStart, FlowTypeOK
  <2> QED BY <1>1, <2>2 DEF ChatStart, FlowTypeOK, countVars, historyVars
<1>2. ASSUME AgentStop(s) PROVE FlowTypeOK'
  <2>1. graph' \in [Session -> Turn] /\ run' \in [Proposal -> Run]
    BY <1>2, EndTurnIsTyped DEF AgentStop
  <2> QED BY <1>2, <2>1 DEF AgentStop, FlowTypeOK, countVars, historyVars
<1>3. ASSUME NEW p \in Proposal, NEW text \in Content, AgentPreview(s, p, text)
      PROVE  FlowTypeOK'
  <2>1. [before |-> file, after |-> text] \in Patch
    BY DEF FlowTypeOK, Patch
  <2>2. patch' \in [Proposal -> Patch \cup {None}]
    BY <1>3, <2>1 DEF AgentPreview, FlowTypeOK
  <2>3. <<p>> \in Seq(Proposal) /\ "remember" \in Place
    BY DEF Place
  <2>4. graph' \in [Session -> Turn]
    BY <1>3, <2>3, TurnsAreTyped DEF AgentPreview
  <2> QED BY <1>3, <2>2, <2>4 DEF AgentPreview, FlowTypeOK, countVars, historyVars
<1>4. ASSUME NEW calls \in Calls, AgentApply(s, calls) PROVE FlowTypeOK'
  <2>1. calls \in Seq(Proposal) /\ <<>> \in Seq(Proposal) /\ "tools" \in Place
    BY FlowBounds DEF Calls, Place
  <2>2. thread' \in [Session -> Checkpoint]
    BY <1>4, <2>1, CheckpointsAreTyped DEF AgentApply
  <2>3. graph' \in [Session -> Turn]
    BY <1>4, <2>1, TurnsAreTyped DEF AgentApply
  <2> QED BY <1>4, <2>2, <2>3 DEF AgentApply, FlowTypeOK, countVars, historyVars
<1> QED BY <1>1, <1>2, <1>3, <1>4

LEMMA RememberIsTyped ==
    ASSUME FlowTypeOK, TurnInv, NEW s \in Session,
           RememberPrune(s) \/ RememberEvict(s) \/ RememberSave(s)
    PROVE  FlowTypeOK'
<1>1. ASSUME RememberPrune(s) PROVE FlowTypeOK'
  <2>1. PICK p \in Ids(mem) \cap lapsed : Forget(p, "expired")
    BY <1>1 DEF RememberPrune
  <2>2. p \in Proposal
    BY IdsOf DEF FlowTypeOK
  <2>3. mem' \in Seq(Proposal)
    BY <2>1, <2>2, MemoryIsTyped
  <2> QED BY <1>1, <2>3 DEF RememberPrune, FlowTypeOK, countVars, historyVars
<1>2. ASSUME RememberEvict(s) PROVE FlowTypeOK'
  <2>1. mem # <<>> /\ Forget(Head(mem), "evicted")
    BY <1>2, MaxPendingAssumption DEF RememberEvict, FlowTypeOK
  <2>2. Head(mem) \in Proposal
    BY <2>1, IdsOf DEF FlowTypeOK
  <2>3. mem' \in Seq(Proposal)
    BY <2>1, <2>2, MemoryIsTyped
  <2> QED BY <1>2, <2>3 DEF RememberEvict, FlowTypeOK, countVars, historyVars
<1>3. ASSUME RememberSave(s) PROVE FlowTypeOK'
  <2>1. Head(graph[s].todo) \in Proposal
    BY <1>3, HeadIsPreviewed DEF RememberSave, TurnInv, TurnOK
  <2>2. mem' \in Seq(Proposal)
    BY <1>3, <2>1, MemoryIsTyped DEF RememberSave
  <2>3. <<>> \in Seq(Proposal) /\ "agent" \in Place
    BY DEF Place
  <2>4. graph' \in [Session -> Turn]
    BY <1>3, <2>3, TurnsAreTyped DEF RememberSave
  <2> QED BY <1>3, <2>2, <2>4 DEF RememberSave, FlowTypeOK, countVars, historyVars
<1> QED BY <1>1, <1>2, <1>3

LEMMA ToolsAreTyped ==
    ASSUME FlowTypeOK, TurnInv, ConsentInv, NEW s \in Session,
           ToolPrepare(s) \/ ToolInterrupt(s) \/ ToolPass(s) \/ ToolsDone(s)
    PROVE  FlowTypeOK'
<1>1. ASSUME ToolPrepare(s) PROVE FlowTypeOK'
  <2>1. /\ Head(graph[s].todo) \in Proposal
        /\ Tail(graph[s].todo) \in Seq(Proposal)
        /\ mem' \in Seq(Proposal)
    BY <1>1, HeadIsPreviewed, MemoryIsTyped DEF ToolPrepare
  <2>2. graph \in [Session -> Turn] /\ graph[s].ready \in Seq(Proposal) /\ "prepare" \in Place
    BY DEF FlowTypeOK, Turn, Place
  <2>3. Append(graph[s].ready, Head(graph[s].todo)) \in Seq(Proposal)
    BY <2>1, <2>2
  <2>4. PICK ready \in Seq(Proposal) :
            graph' = [graph EXCEPT ![s].pc = "prepare", ![s].todo = Tail(graph[s].todo),
                                   ![s].ready = ready]
    BY <1>1, <2>2, <2>3 DEF ToolPrepare
  <2>5. graph' \in [Session -> Turn]
    BY <2>1, <2>2, <2>4, TurnsAreTyped
  <2> QED BY <1>1, <2>1, <2>5 DEF ToolPrepare, FlowTypeOK, countVars, historyVars
<1>2. ASSUME ToolInterrupt(s) PROVE FlowTypeOK'
  <2>1. graph[s].ready[Len(thread[s].answers) + 1] \in Proposal
    BY <1>2 DEF ToolInterrupt, FlowTypeOK, Turn, Checkpoint
  <2>2. EndTurn(s) /\ thread' \in [Session -> Checkpoint]
    BY <1>2, <2>1, CheckpointsAreTyped DEF ToolInterrupt
  <2>3. graph' \in [Session -> Turn] /\ run' \in [Proposal -> Run]
    BY <2>2, EndTurnIsTyped
  <2> QED BY <1>2, <2>2, <2>3 DEF ToolInterrupt, FlowTypeOK, countVars, historyVars
<1>3. ASSUME ToolPass(s) PROVE FlowTypeOK'
  <2>1. Approved(s) \in Seq(Proposal) /\ "execute" \in Place
    BY <1>3, ApprovedAreGranted DEF ToolPass, Place
  <2>2. graph' \in [Session -> Turn]
    BY <1>3, <2>1, TurnsAreTyped DEF ToolPass
  <2> QED BY <1>3, <2>2 DEF ToolPass, FlowTypeOK, countVars, historyVars
<1>4. ASSUME ToolsDone(s) PROVE FlowTypeOK'
  <2>1. <<>> \in Seq(Proposal) /\ "agent" \in Place
    BY DEF Place
  <2>2. graph' \in [Session -> Turn] /\ thread' \in [Session -> Checkpoint]
    BY <1>4, <2>1, TurnsAreTyped, CheckpointsAreTyped DEF ToolsDone
  <2> QED BY <1>4, <2>2 DEF ToolsDone, FlowTypeOK, countVars, historyVars
<1> QED BY <1>1, <1>2, <1>3, <1>4

LEMMA ApplyIsTyped ==
    ASSUME FlowTypeOK, TurnInv, ConsentInv, NEW s \in Session,
           ApplyRefused(s) \/ ApplyApproved(s) \/ ApplyReturns(s) \/ StreamBreaks(s)
    PROVE  FlowTypeOK'
<1>0. graph \in [Session -> Turn] /\ "testing" \in Place /\ "execute" \in Place
  BY DEF FlowTypeOK, Place
<1>1. ASSUME ApplyRefused(s) PROVE FlowTypeOK'
  <2>1. Tail(graph[s].todo) \in Seq(Proposal) /\ mem' \in Seq(Proposal)
    BY <1>1, HeadIsPreviewed, MemoryIsTyped DEF ApplyRefused, Executing
  <2>2. graph' \in [Session -> Turn]
    BY <1>0, <1>1, <2>1, TurnsAreTyped DEF ApplyRefused
  <2> QED BY <1>1, <2>1, <2>2 DEF ApplyRefused, FlowTypeOK, countVars, historyVars
<1>2. ASSUME ApplyApproved(s) PROVE FlowTypeOK'
  <2> DEFINE p == Head(graph[s].todo)
  <2>1. p \in Proposal /\ patch[p].after \in FileState /\ Tail(graph[s].todo) \in Seq(Proposal)
    BY <1>2, HeadIsPreviewed DEF ApplyApproved, Executing, Patch, FileState
  <2>2. mem' \in Seq(Proposal)
    BY <1>2, WithoutRemoves DEF ApplyApproved, FlowTypeOK
  <2>3. /\ file' \in {file, patch[p].after}
        /\ writes' \in {writes, [writes EXCEPT ![p] = @ + 1]}
        /\ graph' \in {[graph EXCEPT ![s].pc = "testing"],
                       [graph EXCEPT ![s].todo = Tail(graph[s].todo)]}
        /\ faults' \in {faults, faults + 1} /\ faults' =< MaxFaults
        /\ UNCHANGED <<patch, thread, req, run, sweep, up, crashes, edits, granted, denied>>
    <3>1. faults \in Nat /\ MaxFaults \in Nat /\ faults =< MaxFaults
      BY FlowBounds DEF FlowTypeOK
    <3> QED BY <1>0, <1>2, <3>1 DEF ApplyApproved, WritesText, WritesNothing, NextCall, Fault
  <2>4. graph' \in [Session -> Turn]
    <3>1. /\ [graph EXCEPT ![s].pc = "testing"] \in [Session -> Turn]
          /\ [graph EXCEPT ![s].todo = Tail(graph[s].todo)] \in [Session -> Turn]
      BY <1>0, <2>1, TurnsAreTyped
    <3> QED BY <2>3, <3>1
  <2> HIDE DEF p
  <2>5. writes' \in [Proposal -> Nat]
    <3>1. writes \in [Proposal -> Nat]
      BY DEF FlowTypeOK
    <3>2. [writes EXCEPT ![p] = @ + 1] \in [Proposal -> Nat]
      BY <2>1, <3>1
    <3> QED BY <2>3, <3>1, <3>2
  <2>6. overtaken' \subseteq Proposal
    BY <1>2 DEF ApplyApproved, WritesText, WritesNothing, Overtakes, FlowTypeOK
  <2>7. faults' \in 0..MaxFaults
    BY <2>3, FlowBounds DEF FlowTypeOK
  <2> QED BY <2>1, <2>2, <2>3, <2>4, <2>5, <2>6, <2>7 DEF FlowTypeOK
<1>3. ASSUME ApplyReturns(s) PROVE FlowTypeOK'
  <2>1. Tail(graph[s].todo) \in Seq(Proposal)
    BY <1>3, HeadIsPreviewed DEF ApplyReturns, TurnInv, TurnOK
  <2>2. run' \in [Proposal -> Run]
    BY <1>3, RunsAreTyped DEF ApplyReturns, Saw, FlowTypeOK
  <2>3. graph' \in [Session -> Turn]
    BY <1>0, <1>3, <2>1, TurnsAreTyped DEF ApplyReturns
  <2> QED BY <1>3, <2>2, <2>3 DEF ApplyReturns, FlowTypeOK, countVars, historyVars
<1>4. ASSUME StreamBreaks(s) PROVE FlowTypeOK'
  <2>1. run' \in [Proposal -> Run]
    <3>1. Saw(s, "file_change") \in [Proposal -> Run] /\ run \in [Proposal -> Run]
      BY RunsAreTyped DEF Saw, FlowTypeOK
    <3>2. PICK seen \in {run, Saw(s, "file_change")} :
              run' = [seen EXCEPT ![graph[s].by].st = "finishing"]
      BY <1>4 DEF StreamBreaks
    <3>3. \A f \in [Proposal -> Run] : \A p : [f EXCEPT ![p].st = "finishing"] \in [Proposal -> Run]
      BY DEF Run
    <3> HIDE DEF Saw
    <3> QED BY <3>1, <3>2, <3>3
  <2>2. faults' \in 0..MaxFaults
    BY <1>4, FlowBounds DEF StreamBreaks, Fault, FlowTypeOK
  <2>3. graph' \in [Session -> Turn]
    BY <1>4, TurnsAreTyped DEF StreamBreaks
  <2> QED BY <1>4, <2>1, <2>2, <2>3 DEF StreamBreaks, FlowTypeOK, historyVars
<1> QED BY <1>1, <1>2, <1>3, <1>4

LEMMA RunIsTyped ==
    ASSUME FlowTypeOK, ConsentInv, NEW p \in Proposal,
           RunStep(p) \/ RunUnrecorded(p) \/ ResumeOrphan(p) \/ SweepRow(p) \/ TimePasses(p)
    PROVE  FlowTypeOK'
<1>1. ASSUME RunStart(p) PROVE FlowTypeOK'
  <2> DEFINE s == run[p].by
  <2>1. s \in Session /\ run[p].ok \in BOOLEAN
    BY <1>1 DEF RunStart, ConsentInv, RunConsents, FlowTypeOK, Run
  <2>2. [by |-> p, pc |-> "tools", todo |-> thread[s].calls, ready |-> <<>>] \in Turn
    BY <2>1 DEF Turn, FlowTypeOK, Checkpoint
  <2>3. thread' \in [Session -> Checkpoint]
    BY <1>1, <2>1, CheckpointsAreTyped DEF RunStart
  <2>4. graph' \in [Session -> Turn]
    BY <1>1, <2>1, <2>2 DEF RunStart, FlowTypeOK
  <2>5. run' \in [Proposal -> Run]
    BY <1>1, RunsAreTyped DEF RunStart
  <2> QED BY <1>1, <2>3, <2>4, <2>5 DEF RunStart, FlowTypeOK, countVars, historyVars
<1>2. ASSUME RunDenied(p) PROVE FlowTypeOK'
  <2>1. run' \in [Proposal -> Run]
    BY <1>2, RunsAreTyped DEF RunDenied
  <2>2. faults' \in 0..MaxFaults
    BY <1>2, FlowBounds DEF RunDenied, Fault, FlowTypeOK
  <2> QED BY <1>2, <2>1, <2>2 DEF RunDenied, FlowTypeOK, historyVars
<1>3. ASSUME RunComplete(p) PROVE FlowTypeOK'
  <2>1. run' \in [Proposal -> Run]
    BY <1>3, RunsAreTyped DEF RunComplete
  <2> QED BY <1>3, <2>1 DEF RunComplete, FlowTypeOK, countVars, historyVars
<1>4. ASSUME RunUnrecorded(p) PROVE FlowTypeOK'
  <2>1. run' \in [Proposal -> Run]
    BY <1>4, RunsAreTyped DEF RunUnrecorded
  <2>2. faults' \in 0..MaxFaults
    BY <1>4, FlowBounds DEF RunUnrecorded, Fault, FlowTypeOK
  <2> QED BY <1>4, <2>1, <2>2 DEF RunUnrecorded, FlowTypeOK, historyVars
<1>5. ASSUME ResumeOrphan(p) PROVE FlowTypeOK'
  BY <1>5 DEF ResumeOrphan, Interrupted, FlowTypeOK, countVars, historyVars
<1>6. ASSUME SweepRow(p) PROVE FlowTypeOK'
  BY <1>6 DEF SweepRow, FlowTypeOK, countVars, historyVars
<1>7. ASSUME TimePasses(p) PROVE FlowTypeOK'
  BY <1>7 DEF TimePasses, FlowTypeOK, flowVars, countVars, historyVars
<1> QED BY <1>1, <1>2, <1>3, <1>4, <1>5, <1>6, <1>7 DEF RunStep

LEMMA DownIsTyped == FlowTypeOK /\ Down => FlowTypeOK'
<1> SUFFICES ASSUME FlowTypeOK, Down PROVE FlowTypeOK'
  OBVIOUS
<1>1. graph' \in [Session -> Turn] /\ run' \in [Proposal -> Run]
  BY DEF Down, Idle, Turn, NoRun, Run
<1>2. crashes' \in 0..MaxCrashes
  BY FlowBounds DEF Down, FlowTypeOK
<1>3. mem' \in Seq(Proposal) /\ req' = None /\ sweep' = {} /\ up' = FALSE
  BY DEF Down
<1>4. UNCHANGED <<file, patch, thread, edits, faults, granted, denied, writes, overtaken>>
  BY DEF Down, historyVars
<1> QED BY <1>1, <1>2, <1>3, <1>4 DEF FlowTypeOK

LEMMA OthersAreTyped ==
    ASSUME FlowTypeOK,
           \/ \E s \in Session, p \in Proposal, ok \in BOOLEAN : ResumeCheck(s, p, ok)
           \/ \E s \in Session : CrashBeforeWrite(s)
           \/ ApiStep \/ Crash \/ Restart
           \/ \E text \in FileState : Edit(text)
    PROVE  FlowTypeOK'
<1>1. ASSUME NEW s \in Session, NEW p \in Proposal, NEW ok \in BOOLEAN, ResumeCheck(s, p, ok)
      PROVE  FlowTypeOK'
  BY <1>1 DEF ResumeCheck, FlowTypeOK, countVars, historyVars
<1>2. ASSUME ResumeClaim PROVE FlowTypeOK'
  <2>1. req.id \in Proposal /\ req.by \in Session /\ req.ok \in BOOLEAN
    BY <1>2 DEF ResumeClaim, FlowTypeOK
  <2>2. [NoRun EXCEPT !.st = "queued", !.by = req.by, !.ok = req.ok] \in Run
    BY <2>1 DEF NoRun, Run
  <2>3. run' \in [Proposal -> Run]
    BY <1>2, <2>2 DEF ResumeClaim, FlowTypeOK
  <2>4. granted' \subseteq Proposal /\ denied' \subseteq Proposal
    BY <1>2, <2>1 DEF ResumeClaim, FlowTypeOK
  <2> QED BY <1>2, <2>3, <2>4 DEF ResumeClaim, FlowTypeOK, countVars
<1>3. ASSUME ResumeRefused PROVE FlowTypeOK'
  BY <1>3 DEF ResumeRefused, FlowTypeOK, countVars, historyVars
<1>4. ASSUME Down PROVE FlowTypeOK'
  BY <1>4, DownIsTyped
<1>5. ASSUME Restart PROVE FlowTypeOK'
  BY <1>5 DEF Restart, Interrupted, FlowTypeOK, countVars, historyVars
<1>6. ASSUME NEW text \in FileState, Edit(text) PROVE FlowTypeOK'
  <2>1. edits' \in 0..MaxEdits
    BY <1>6, FlowBounds DEF Edit, FlowTypeOK
  <2> QED BY <1>6, <2>1 DEF Edit, Overtakes, FlowTypeOK, historyVars
<1> QED BY <1>1, <1>2, <1>3, <1>4, <1>5, <1>6 DEF ApiStep, Crash, CrashBeforeWrite

LEMMA StepIsTyped == FlowTypeOK /\ TurnInv /\ ConsentInv /\ Next => FlowTypeOK'
<1> SUFFICES ASSUME FlowTypeOK, TurnInv, ConsentInv, Next PROVE FlowTypeOK'
  OBVIOUS
<1>1. ASSUME NEW s \in Session, TurnStep(s) \/ StreamBreaks(s) PROVE FlowTypeOK'
  BY <1>1, RememberIsTyped, ToolsAreTyped, ApplyIsTyped DEF TurnStep
<1> QED BY <1>1, AgentIsTyped, RunIsTyped, OthersAreTyped DEF Next

------------------------------------------------------------------------------
\* Turns handle proposals that were previewed.

LEMMA RestIs ==
    /\ Idle.by = None /\ Idle.pc = "idle" /\ Idle.todo = <<>> /\ Idle.ready = <<>>
    /\ Empty.calls = <<>> /\ Empty.answers = <<>> /\ Empty.ask = None
  BY DEF Idle, Empty

LEMMA PreviewsStay ==
    FlowTypeOK /\ Next => \A p \in Proposal : patch[p] # None => patch'[p] = patch[p]
<1> SUFFICES ASSUME FlowTypeOK, Next,
                    NEW p \in Proposal, patch[p] # None
             PROVE  patch'[p] = patch[p]
  OBVIOUS
<1>1. ASSUME NEW s \in Session, NEW q \in Proposal, NEW text \in Content,
             AgentPreview(s, q, text)
      PROVE  patch'[p] = patch[p]
  BY <1>1 DEF AgentPreview, FlowTypeOK
<1>2. ASSUME NEW s \in Session, TurnStep(s) PROVE patch' = patch
  BY <1>2 DEF TurnStep, RememberPrune, RememberEvict, RememberSave, ToolPrepare, ToolInterrupt,
              ToolPass, ApplyRefused, ApplyApproved, ApplyReturns, ToolsDone
<1>3. ASSUME NEW s \in Session,
             \/ ChatStart(s) \/ AgentStop(s) \/ StreamBreaks(s) \/ CrashBeforeWrite(s)
             \/ \E calls \in Calls : AgentApply(s, calls)
             \/ \E q \in Proposal, ok \in BOOLEAN : ResumeCheck(s, q, ok)
      PROVE  patch' = patch
  BY <1>3 DEF ChatStart, AgentStop, StreamBreaks, CrashBeforeWrite, Down, AgentApply, ResumeCheck
<1>4. ASSUME NEW q \in Proposal,
             \/ RunStep(q) \/ RunUnrecorded(q) \/ ResumeOrphan(q) \/ SweepRow(q) \/ TimePasses(q)
      PROVE  patch' = patch
  BY <1>4 DEF RunStep, RunStart, RunDenied, RunComplete, RunUnrecorded, ResumeOrphan, SweepRow,
              TimePasses, flowVars
<1>5. ASSUME ApiStep \/ Crash \/ Restart \/ \E text \in FileState : Edit(text)
      PROVE  patch' = patch
  BY <1>5 DEF ApiStep, ResumeClaim, ResumeRefused, Crash, Down, Restart, Edit
<1> QED BY <1>1, <1>2, <1>3, <1>4, <1>5 DEF Next

\* It is enough to look at the session whose turn moves.
LEMMA OneTurnMoves ==
    ASSUME FlowTypeOK, TurnInv, NEW s \in Session, Previewed \subseteq Previewed',
           \A t \in Session \ {s} : graph'[t] = graph[t] /\ thread'[t] = thread[t],
           TurnOK(s)'
    PROVE  TurnInv'
<1>1. ASSUME NEW t \in Session \ {s} PROVE TurnOK(t)'
  BY <1>1 DEF TurnInv, TurnOK, Ids
<1> QED BY <1>1 DEF TurnInv

LEMMA EndingIsOK ==
    ASSUME FlowTypeOK, TurnInv, NEW s \in Session, Previewed \subseteq Previewed',
           graph' = [graph EXCEPT ![s] = Idle],
           \A t \in Session \ {s} : thread'[t] = thread[t],
           thread'[s].calls = thread[s].calls
    PROVE  TurnInv'
<1>1. graph'[s] = Idle /\ \A t \in Session \ {s} : graph'[t] = graph[t]
  BY DEF FlowTypeOK
<1>2. TurnOK(s)'
  BY <1>1, RestIs, IdsOfShort DEF TurnInv, TurnOK, Ids
<1> QED BY <1>1, <1>2, OneTurnMoves

LEMMA TurnStaysOK ==
    ASSUME FlowTypeOK, TurnInv, ConsentInv, Next, Previewed \subseteq Previewed'
    PROVE  TurnInv'
<1> USE DEF FlowTypeOK
<1>1. ASSUME NEW s \in Session, ChatStart(s) PROVE TurnInv'
  <2>1. /\ graph'[s].todo = <<>> /\ graph'[s].ready = <<>> /\ graph'[s].pc = "agent"
        /\ thread'[s].calls = <<>>
        /\ \A t \in Session \ {s} : graph'[t] = graph[t] /\ thread'[t] = thread[t]
    BY <1>1, RestIs DEF ChatStart, Idle
  <2>2. TurnOK(s)'
    BY <2>1, IdsOfShort DEF TurnOK
  <2> QED BY <2>1, <2>2, OneTurnMoves
<1>2. ASSUME NEW s \in Session, AgentStop(s) \/ ToolInterrupt(s) \/ StreamBreaks(s)
      PROVE  TurnInv'
  <2>1. /\ graph' = [graph EXCEPT ![s] = Idle]
        /\ \A t \in Session \ {s} : thread'[t] = thread[t]
        /\ thread'[s].calls = thread[s].calls
    BY <1>2 DEF AgentStop, ToolInterrupt, StreamBreaks, EndTurn, Checkpoint
  <2> QED BY <2>1, EndingIsOK
<1>3. ASSUME NEW s \in Session, NEW p \in Proposal, NEW text \in Content,
             AgentPreview(s, p, text)
      PROVE  TurnInv'
  <2>1. /\ graph'[s].todo = <<p>> /\ graph'[s].ready = graph[s].ready
        /\ thread' = thread
        /\ \A t \in Session \ {s} : graph'[t] = graph[t]
    BY <1>3 DEF AgentPreview, Turn
  <2>2. patch'[p] # None
    <3>1. [before |-> file, after |-> text] \in Patch
      BY DEF Patch
    <3> QED BY <1>3, <3>1, NoneAssumption DEF AgentPreview
  <2>3. Ids(<<p>>) \subseteq Previewed'
    BY <2>2, IdsOfShort DEF Previewed
  <2>4. Ids(graph'[s].ready) \subseteq Previewed' /\ Ids(thread'[s].calls) \subseteq Previewed'
    BY <2>1 DEF TurnInv, TurnOK
  <2>5. TurnOK(s)'
    BY <2>1, <2>3, <2>4 DEF TurnOK
  <2> QED BY <2>1, <2>5, OneTurnMoves
<1>4. ASSUME NEW s \in Session, NEW calls \in Calls, AgentApply(s, calls)
      PROVE  TurnInv'
  <2>1. /\ graph'[s].todo = calls /\ graph'[s].ready = <<>> /\ graph'[s].pc = "tools"
        /\ thread'[s].calls = calls
        /\ \A t \in Session \ {s} : graph'[t] = graph[t] /\ thread'[t] = thread[t]
    BY <1>4 DEF AgentApply, Turn, Empty
  <2>2. Ids(calls) \subseteq Previewed
    <3>1. calls \in Seq(Proposal)
      BY CallsAreTyped
    <3> QED BY <1>4, <3>1, IdsOf DEF AgentApply, Previewed, Ids
  <2>3. TurnOK(s)'
    BY <2>1, <2>2, IdsOfShort DEF TurnOK
  <2> QED BY <2>1, <2>3, OneTurnMoves
<1>5. ASSUME NEW s \in Session, RememberPrune(s) \/ RememberEvict(s) PROVE TurnInv'
  BY <1>5 DEF RememberPrune, RememberEvict, TurnInv, TurnOK, Previewed
<1>6. ASSUME NEW s \in Session, RememberSave(s) \/ ToolsDone(s) PROVE TurnInv'
  <2>1. /\ graph'[s].todo = <<>> /\ graph'[s].ready \in {graph[s].ready, <<>>}
        /\ graph'[s].pc = "agent"
        /\ thread'[s].calls \in {thread[s].calls, <<>>}
        /\ \A t \in Session \ {s} : graph'[t] = graph[t] /\ thread'[t] = thread[t]
    BY <1>6, RestIs, SMTT(30) DEF RememberSave, ToolsDone, Turn
  <2>2. TurnOK(s)'
    BY <2>1, IdsOfShort DEF TurnInv, TurnOK
  <2> QED BY <2>1, <2>2, OneTurnMoves
<1>7. ASSUME NEW s \in Session, ToolPrepare(s) PROVE TurnInv'
  <2> DEFINE p == Head(graph[s].todo)
  <2>1. graph[s].todo # <<>> /\ graph[s] \in Turn
    BY <1>7 DEF ToolPrepare
  <2>2. /\ graph'[s].todo = Tail(graph[s].todo)
        /\ graph'[s].ready \in {graph[s].ready, Append(graph[s].ready, p)}
        /\ graph'[s].pc = "prepare"
        /\ thread' = thread
        /\ \A t \in Session \ {s} : graph'[t] = graph[t]
    BY <1>7 DEF ToolPrepare, Turn
  <2>3. /\ p \in Ids(graph[s].todo) /\ p \in Proposal
        /\ Ids(Tail(graph[s].todo)) \subseteq Ids(graph[s].todo)
    BY <2>1, HeadIsPreviewed
  <2>4. Ids(Append(graph[s].ready, p)) = Ids(graph[s].ready) \cup {p}
    BY <2>1, <2>3, AppendIds DEF Turn
  <2> HIDE DEF p
  <2>5. TurnOK(s)'
    BY <2>2, <2>3, <2>4 DEF TurnInv, TurnOK
  <2> QED BY <2>2, <2>5, OneTurnMoves
<1>8. ASSUME NEW s \in Session, ToolPass(s) PROVE TurnInv'
  <2>1. Ids(Approved(s)) \subseteq Ids(graph[s].ready)
    BY <1>8, ApprovedAreGranted DEF ToolPass
  <2>2. /\ graph'[s].todo = Approved(s) /\ graph'[s].ready = graph[s].ready
        /\ graph'[s].pc = "execute" /\ thread' = thread
        /\ \A t \in Session \ {s} : graph'[t] = graph[t]
    BY <1>8 DEF ToolPass, Turn
  <2>3. TurnOK(s)'
    BY <2>1, <2>2 DEF TurnInv, TurnOK
  <2> QED BY <2>2, <2>3, OneTurnMoves
<1>9. ASSUME NEW s \in Session, ApplyRefused(s) \/ ApplyApproved(s) \/ ApplyReturns(s)
      PROVE  TurnInv'
  <2>1. graph[s].todo # <<>>
    BY <1>9 DEF ApplyRefused, ApplyApproved, ApplyReturns, Executing, TurnInv, TurnOK
  <2>2. /\ \/ graph'[s].todo = Tail(graph[s].todo) /\ graph'[s].pc = "execute"
           \/ graph'[s].todo = graph[s].todo /\ graph'[s].pc = "testing"
        /\ graph'[s].ready = graph[s].ready
        /\ thread' = thread
        /\ \A t \in Session \ {s} : graph'[t] = graph[t]
    <3>1. /\ graph[s].pc \in {"execute", "testing"} /\ thread' = thread
          /\ ApplyApproved(s) \/ ApplyRefused(s) => graph[s].pc = "execute"
          /\ \/ graph' = [graph EXCEPT ![s].pc = "testing"]
             \/ NextCall(s) /\ graph[s].pc = "execute"
             \/ graph' = [graph EXCEPT ![s].pc = "execute", ![s].todo = Tail(@)]
      BY <1>9 DEF ApplyRefused, ApplyApproved, ApplyReturns, Executing, NextCall
    <3>2. graph \in [Session -> Turn] /\ graph[s] \in Turn
      BY DEF FlowTypeOK
    <3>3. CASE graph' = [graph EXCEPT ![s].pc = "testing"]
      BY <3>1, <3>2, <3>3 DEF Turn
    <3>4. CASE NextCall(s) /\ graph[s].pc = "execute"
      BY <3>1, <3>2, <3>4 DEF NextCall, Turn
    <3>5. CASE graph' = [graph EXCEPT ![s].pc = "execute", ![s].todo = Tail(@)]
      BY <3>1, <3>2, <3>5 DEF Turn
    <3> QED BY <3>1, <3>3, <3>4, <3>5
  <2>3. Ids(Tail(graph[s].todo)) \subseteq Ids(graph[s].todo)
    BY <2>1, HeadIsPreviewed
  <2>4. TurnOK(s)'
    BY <2>1, <2>2, <2>3 DEF TurnInv, TurnOK
  <2> QED BY <2>2, <2>4, OneTurnMoves
<1>10. ASSUME NEW p \in Proposal, RunStart(p) PROVE TurnInv'
  <2>1. PICK s \in Session : s = run[p].by
    BY <1>10 DEF RunStart, ConsentInv, RunConsents
  <2>2. /\ graph'[s].todo = thread[s].calls /\ graph'[s].ready = <<>> /\ graph'[s].pc = "tools"
        /\ thread'[s].calls = thread[s].calls
        /\ \A t \in Session \ {s} : graph'[t] = graph[t] /\ thread'[t] = thread[t]
    BY <1>10, <2>1 DEF RunStart, Checkpoint
  <2>3. TurnOK(s)'
    BY <2>1, <2>2, IdsOfShort DEF TurnInv, TurnOK
  <2> QED BY <2>1, <2>2, <2>3, OneTurnMoves
<1>11. ASSUME Down PROVE TurnInv'
  <2>1. \A s \in Session : graph'[s] = Idle /\ thread'[s] = thread[s]
    BY <1>11 DEF Down
  <2> QED BY <2>1, RestIs, IdsOfShort DEF TurnInv, TurnOK
<1>12. ASSUME UNCHANGED <<graph, thread>> PROVE TurnInv'
  BY <1>12 DEF TurnInv, TurnOK
<1>13. ASSUME NEW s \in Session, NEW p \in Proposal, NEW ok \in BOOLEAN, ResumeCheck(s, p, ok)
       PROVE  TurnInv'
  BY <1>12, <1>13 DEF ResumeCheck
<1>14. ASSUME NEW p \in Proposal,
              \/ RunDenied(p) \/ RunComplete(p) \/ RunUnrecorded(p)
              \/ ResumeOrphan(p) \/ SweepRow(p) \/ TimePasses(p)
       PROVE  UNCHANGED <<graph, thread>>
  BY <1>14 DEF RunDenied, RunComplete, RunUnrecorded, ResumeOrphan, SweepRow, TimePasses, flowVars
<1>15. ASSUME ApiStep \/ Restart \/ \E text \in FileState : Edit(text)
       PROVE  UNCHANGED <<graph, thread>>
  BY <1>15 DEF ApiStep, ResumeClaim, ResumeRefused, Restart, Edit
<1> QED BY <1>1, <1>2, <1>3, <1>4, <1>5, <1>6, <1>7, <1>8, <1>9, <1>10, <1>11, <1>12, <1>13,
           <1>14, <1>15 DEF Next, TurnStep, RunStep, Crash, CrashBeforeWrite

------------------------------------------------------------------------------
\* What is taken for granted is granted.

\* Only a claim records an answer.
LEMMA OnlyClaimsAnswer ==
    Next => ResumeClaim \/ (granted' = granted /\ denied' = denied)
<1> SUFFICES ASSUME Next, ~ ResumeClaim PROVE granted' = granted /\ denied' = denied
  OBVIOUS
<1>1. ASSUME NEW s \in Session, TurnStep(s) PROVE granted' = granted /\ denied' = denied
  BY <1>1 DEF TurnStep, RememberPrune, RememberEvict, RememberSave, ToolPrepare, ToolInterrupt,
              ToolPass, ApplyRefused, ApplyApproved, ApplyReturns, ToolsDone, historyVars
<1>2. ASSUME NEW s \in Session,
             \/ ChatStart(s) \/ AgentStop(s) \/ StreamBreaks(s) \/ CrashBeforeWrite(s)
             \/ \E p \in Proposal, text \in Content : AgentPreview(s, p, text)
             \/ \E calls \in Calls : AgentApply(s, calls)
             \/ \E q \in Proposal, ok \in BOOLEAN : ResumeCheck(s, q, ok)
      PROVE  granted' = granted /\ denied' = denied
  BY <1>2 DEF ChatStart, AgentStop, StreamBreaks, CrashBeforeWrite, Down, AgentPreview,
              AgentApply, ResumeCheck, historyVars
<1>3. ASSUME NEW q \in Proposal,
             \/ RunStep(q) \/ RunUnrecorded(q) \/ ResumeOrphan(q) \/ SweepRow(q) \/ TimePasses(q)
      PROVE  granted' = granted /\ denied' = denied
  BY <1>3 DEF RunStep, RunStart, RunDenied, RunComplete, RunUnrecorded, ResumeOrphan, SweepRow,
              TimePasses, historyVars
<1>4. ASSUME ResumeRefused \/ Crash \/ Restart \/ \E text \in FileState : Edit(text)
      PROVE  granted' = granted /\ denied' = denied
  BY <1>4 DEF ResumeRefused, Crash, Down, Restart, Edit, historyVars
<1> QED BY <1>1, <1>2, <1>3, <1>4 DEF Next, ApiStep

\* It is enough to look at the session whose turn moves: the runs of other
\* sessions go on as they are.
LEMMA OneTurnConsents ==
    ASSUME FlowTypeOK, ConsentInv, NEW s \in Session,
           granted \subseteq granted', denied \subseteq denied',
           \A t \in Session \ {s} : graph'[t] = graph[t] /\ thread'[t] = thread[t],
           \A p \in Proposal : run[p].st # "none" /\ run[p].by # s => run'[p] = run[p],
           \A p \in Proposal : run'[p].st # "none" =>
                run[p].st # "none" /\ run'[p].by = run[p].by /\ run'[p].ok = run[p].ok,
           TurnConsents(s)'
    PROVE  ConsentInv'
<1>1. ASSUME NEW t \in Session \ {s} PROVE TurnConsents(t)'
  <2>1. TurnConsents(t) /\ graph'[t] = graph[t] /\ thread'[t] = thread[t]
    BY DEF ConsentInv
  <2>2. graph[t].by \in Proposal => run'[graph[t].by] = run[graph[t].by]
    BY <2>1 DEF TurnConsents
  <2> QED BY <2>1, <2>2 DEF TurnConsents, Ids
<1>2. ASSUME NEW p \in Proposal PROVE RunConsents(p)'
  BY DEF ConsentInv, RunConsents
<1> QED BY <1>1, <1>2 DEF ConsentInv

\* A turn that leaves the runs as they are.
LEMMA TurnAloneConsents ==
    ASSUME FlowTypeOK, ConsentInv, NEW s \in Session,
           UNCHANGED <<run, granted, denied>>,
           \A t \in Session \ {s} : graph'[t] = graph[t] /\ thread'[t] = thread[t],
           TurnConsents(s)'
    PROVE  ConsentInv'
  BY OneTurnConsents

\* A turn that ends hands its run over to be finished.
LEMMA EndingConsents ==
    ASSUME FlowTypeOK, ConsentInv, NEW s \in Session,
           granted' = granted, denied' = denied,
           graph' = [graph EXCEPT ![s] = Idle],
           \A t \in Session \ {s} : thread'[t] = thread[t],
           thread'[s].answers = thread[s].answers,
           \A p \in Proposal : p # graph[s].by => run'[p] = run[p],
           graph[s].by \in Proposal => /\ run'[graph[s].by].st = "finishing"
                                       /\ run'[graph[s].by].by = run[graph[s].by].by
                                       /\ run'[graph[s].by].ok = run[graph[s].by].ok
    PROVE  ConsentInv'
<1>1. graph'[s] = Idle /\ \A t \in Session \ {s} : graph'[t] = graph[t]
  BY DEF FlowTypeOK
<1>2. graph[s].by \in Proposal => run[graph[s].by].by = s /\ run[graph[s].by].st = "running"
  BY DEF ConsentInv, TurnConsents
<1>3. TurnConsents(s)'
  BY <1>1, RestIs, IdsOfShort, NoneAssumption DEF ConsentInv, TurnConsents, Ids
<1> QED BY <1>1, <1>2, <1>3, OneTurnConsents

LEMMA TurnsConsent ==
    ASSUME FlowTypeOK, TurnInv, ConsentInv, NEW s \in Session,
           granted' = granted, denied' = denied,
           \/ TurnStep(s) \/ ChatStart(s) \/ AgentStop(s) \/ StreamBreaks(s)
           \/ \E p \in Proposal, text \in Content : AgentPreview(s, p, text)
           \/ \E calls \in Calls : AgentApply(s, calls)
    PROVE  ConsentInv'
<1> USE DEF FlowTypeOK
<1>0. TurnConsents(s)
  BY DEF ConsentInv
<1>1. ASSUME ChatStart(s) PROVE ConsentInv'
  <2>1. /\ graph'[s].by = "chat" /\ graph'[s].pc = "agent" /\ thread'[s].answers = <<>>
        /\ \A t \in Session \ {s} : graph'[t] = graph[t] /\ thread'[t] = thread[t]
        /\ run' = run
    BY <1>1, RestIs DEF ChatStart, Idle
  <2>2. TurnConsents(s)'
    BY <2>1, IdsOfShort, NoneAssumption DEF TurnConsents
  <2> QED BY <2>1, <2>2, TurnAloneConsents
<1>2. ASSUME AgentStop(s) \/ ToolInterrupt(s) PROVE ConsentInv'
  <2>1. /\ graph' = [graph EXCEPT ![s] = Idle]
        /\ \A t \in Session \ {s} : thread'[t] = thread[t]
        /\ thread'[s].answers = thread[s].answers
        /\ run' = IF graph[s].by \in Proposal
                  THEN [run EXCEPT ![graph[s].by].st = "finishing"] ELSE run
    BY <1>2 DEF AgentStop, ToolInterrupt, EndTurn, Checkpoint
  <2>2. /\ \A p \in Proposal : p # graph[s].by => run'[p] = run[p]
        /\ graph[s].by \in Proposal => /\ run'[graph[s].by].st = "finishing"
                                       /\ run'[graph[s].by].by = run[graph[s].by].by
                                       /\ run'[graph[s].by].ok = run[graph[s].by].ok
    BY <2>1 DEF Run
  <2> QED BY <2>1, <2>2, EndingConsents
<1>3. ASSUME StreamBreaks(s) PROVE ConsentInv'
  <2>1. /\ graph' = [graph EXCEPT ![s] = Idle] /\ thread' = thread
        /\ \E seen \in {run, Saw(s, "file_change")} :
              run' = [seen EXCEPT ![graph[s].by].st = "finishing"]
    BY <1>3 DEF StreamBreaks
  <2>2. /\ \A p \in Proposal : p # graph[s].by => run'[p] = run[p]
        /\ graph[s].by \in Proposal => /\ run'[graph[s].by].st = "finishing"
                                       /\ run'[graph[s].by].by = run[graph[s].by].by
                                       /\ run'[graph[s].by].ok = run[graph[s].by].ok
    BY <2>1 DEF Saw, Run
  <2> QED BY <2>1, <2>2, EndingConsents
<1>4. ASSUME NEW p \in Proposal, NEW text \in Content, AgentPreview(s, p, text)
      PROVE  ConsentInv'
  <2>1. /\ graph'[s].by = graph[s].by /\ graph'[s].pc = "remember"
        /\ \A t \in Session \ {s} : graph'[t] = graph[t]
        /\ UNCHANGED <<thread, run>>
    BY <1>4 DEF AgentPreview, Turn
  <2>2. TurnConsents(s)'
    BY <1>0, <2>1 DEF TurnConsents
  <2> QED BY <2>1, <2>2, TurnAloneConsents
<1>5. ASSUME NEW calls \in Calls, AgentApply(s, calls) PROVE ConsentInv'
  <2> DEFINE message == [Empty EXCEPT !.calls = calls]
  <2>1. message.answers = <<>> /\ thread' = [thread EXCEPT ![s] = message] /\ run' = run
    BY <1>5 DEF AgentApply, Empty
  <2> HIDE DEF message
  <2>2. thread'[s].answers = <<>> /\ \A t \in Session \ {s} : thread'[t] = thread[t]
    BY <2>1
  <2>3. /\ graph'[s].by = graph[s].by /\ graph'[s].pc = "tools"
        /\ \A t \in Session \ {s} : graph'[t] = graph[t]
    <3>1. graph \in [Session -> Turn] /\ graph[s] \in Turn
      OBVIOUS
    <3>2. graph' = [graph EXCEPT ![s].pc = "tools", ![s].todo = calls, ![s].ready = <<>>]
      BY <1>5 DEF AgentApply
    <3> QED BY <3>1, <3>2 DEF Turn
  <2>4. TurnConsents(s)'
    BY <1>0, <2>1, <2>2, <2>3, IdsOfShort DEF TurnConsents
  <2> QED BY <2>1, <2>2, <2>3, <2>4, TurnAloneConsents
<1>6. ASSUME RememberPrune(s) \/ RememberEvict(s) PROVE ConsentInv'
  <2>1. UNCHANGED <<graph, thread, run>>
    BY <1>6 DEF RememberPrune, RememberEvict
  <2>2. TurnConsents(s)'
    BY <1>0, <2>1 DEF TurnConsents
  <2> QED BY <2>1, <2>2, TurnAloneConsents
<1>7. ASSUME RememberSave(s) \/ ToolPrepare(s) \/ ToolsDone(s) PROVE ConsentInv'
  <2>1. /\ graph'[s].by = graph[s].by /\ graph'[s].pc \in {"agent", "prepare"}
        /\ thread'[s].answers \in {thread[s].answers, <<>>}
        /\ \A t \in Session \ {s} : graph'[t] = graph[t] /\ thread'[t] = thread[t]
        /\ run' = run
    BY <1>7, RestIs, SMTT(30) DEF RememberSave, ToolPrepare, ToolsDone, Turn
  <2>2. TurnConsents(s)'
    BY <1>0, <2>1, IdsOfShort DEF TurnConsents
  <2> QED BY <2>1, <2>2, TurnAloneConsents
<1>8. ASSUME ToolPass(s) PROVE ConsentInv'
  <2>1. /\ graph'[s].by = graph[s].by /\ graph'[s].todo = Approved(s)
        /\ \A t \in Session \ {s} : graph'[t] = graph[t]
        /\ UNCHANGED <<thread, run>>
    BY <1>8 DEF ToolPass, Turn
  <2>2. Ids(Approved(s)) \subseteq granted
    BY <1>8, ApprovedAreGranted DEF ToolPass
  <2>3. TurnConsents(s)'
    BY <1>0, <2>1, <2>2 DEF TurnConsents
  <2> QED BY <2>1, <2>3, TurnAloneConsents
<1>9. ASSUME ApplyRefused(s) \/ ApplyApproved(s) \/ ApplyReturns(s) PROVE ConsentInv'
  <2>1. graph[s].todo # <<>> /\ graph[s].pc \in {"execute", "testing"}
    BY <1>9 DEF ApplyRefused, ApplyApproved, ApplyReturns, Executing, TurnInv, TurnOK
  <2>2. /\ graph'[s].todo \in {graph[s].todo, Tail(graph[s].todo)}
        /\ graph'[s].by = graph[s].by
        /\ thread' = thread
        /\ \A t \in Session \ {s} : graph'[t] = graph[t]
    BY <1>9 DEF ApplyRefused, ApplyApproved, ApplyReturns, Executing, NextCall, Turn
  <2>3. Ids(graph'[s].todo) \subseteq granted
    BY <1>0, <2>1, <2>2, HeadIsPreviewed DEF TurnConsents
  <2>4. \A p \in Proposal :
            /\ run'[p].st = run[p].st /\ run'[p].by = run[p].by /\ run'[p].ok = run[p].ok
            /\ p # graph[s].by => run'[p] = run[p]
    <3>1. run' = run \/ run' = [run EXCEPT ![graph[s].by].got = "verification"]
      BY <1>9 DEF ApplyRefused, ApplyApproved, ApplyReturns, Saw
    <3>2. run \in [Proposal -> Run]
      OBVIOUS
    <3> QED BY <3>1, <3>2, SMTT(30) DEF Run
  <2>5. TurnConsents(s)'
    BY <1>0, <2>2, <2>3, <2>4 DEF TurnConsents
  <2>6. \A p \in Proposal : run[p].st # "none" /\ run[p].by # s => run'[p] = run[p]
    BY <1>0, <2>4 DEF TurnConsents
  <2> QED BY <2>2, <2>4, <2>5, <2>6, OneTurnConsents
<1> QED BY <1>1, <1>2, <1>3, <1>4, <1>5, <1>6, <1>7, <1>8, <1>9 DEF TurnStep

LEMMA RunsConsent ==
    ASSUME FlowTypeOK, ConsentInv, NEW p \in Proposal,
           granted' = granted, denied' = denied,
           RunStep(p) \/ RunUnrecorded(p)
    PROVE  ConsentInv'
<1> USE DEF FlowTypeOK
<1>1. ASSUME RunStart(p) PROVE ConsentInv'
  <2>1. PICK s \in Session : s = run[p].by
    BY <1>1 DEF RunStart, ConsentInv, RunConsents
  <2>2. RunConsents(p) /\ TurnConsents(s) /\ run[p].st = "queued"
    BY <1>1 DEF ConsentInv, RunStart
  <2>3. /\ graph'[s].by = p /\ graph'[s].pc = "tools"
        /\ thread'[s].answers = Append(thread[s].answers, [id |-> p, ok |-> run[p].ok])
        /\ \A t \in Session \ {s} : graph'[t] = graph[t] /\ thread'[t] = thread[t]
    BY <1>1, <2>1 DEF RunStart, Checkpoint
  <2>4. /\ run'[p].st = "running" /\ run'[p].by = s /\ run'[p].ok = run[p].ok
        /\ \A q \in Proposal \ {p} : run'[q] = run[q]
    BY <1>1, <2>1 DEF RunStart, Run
  <2> DEFINE answer == [id |-> p, ok |-> run[p].ok]
  <2>5. answer \in Answer /\ thread[s].answers \in Seq(Answer)
    BY DEF Answer, Checkpoint, Run
  <2>6. Ids(thread'[s].answers) = Ids(thread[s].answers) \cup {answer}
    <3> HIDE DEF answer
    <3>1. thread'[s].answers = Append(thread[s].answers, answer)
      BY <2>3 DEF answer
    <3> QED BY <2>5, <3>1, AppendIds
  <2>7. answer.ok => answer.id \in granted
    BY <2>2 DEF RunConsents
  <2> HIDE DEF answer
  <2>8. TurnConsents(s)'
    BY <2>2, <2>3, <2>4, <2>6, <2>7 DEF TurnConsents
  <2>9. /\ \A q \in Proposal : run[q].st # "none" /\ run[q].by # s => run'[q] = run[q]
        /\ \A q \in Proposal : run'[q].st # "none" =>
                run[q].st # "none" /\ run'[q].by = run[q].by /\ run'[q].ok = run[q].ok
    BY <2>1, <2>2, <2>4
  <2> QED BY <2>3, <2>8, <2>9, OneTurnConsents
<1>2. ASSUME RunDenied(p) \/ RunComplete(p) \/ RunUnrecorded(p) PROVE ConsentInv'
  <2>1. /\ run[p].st \in {"queued", "finishing"}
        /\ UNCHANGED <<graph, thread>>
        /\ run' = [run EXCEPT ![p].st = "finishing"] \/ run' = [run EXCEPT ![p] = NoRun]
    BY <1>2 DEF RunDenied, RunComplete, RunUnrecorded
  <2>2. /\ \A q \in Proposal \ {p} : run'[q] = run[q]
        /\ run'[p].st # "none" => run'[p].by = run[p].by /\ run'[p].ok = run[p].ok
    BY <2>1 DEF NoRun, Run
  <2>3. ASSUME NEW s \in Session PROVE TurnConsents(s)'
    <3>1. TurnConsents(s)
      BY DEF ConsentInv
    <3>2. graph[s].by # p
      BY <2>1, <3>1 DEF TurnConsents
    <3> QED BY <2>1, <2>2, <3>1, <3>2 DEF TurnConsents
  <2>4. ASSUME NEW q \in Proposal PROVE RunConsents(q)'
    BY <2>1, <2>2 DEF ConsentInv, RunConsents
  <2> QED BY <2>3, <2>4 DEF ConsentInv
<1> QED BY <1>1, <1>2 DEF RunStep

\* A claim: nobody works on the proposal yet, since it is still pending.
LEMMA ClaimConsents ==
    ASSUME FlowTypeOK, ConsentInv, AnswerInv, ResumeClaim
    PROVE  /\ ConsentInv'
           /\ req.id \in Proposal /\ req.by \in Session /\ req.id \notin Answered
           /\ run[req.id].st = "none"
           /\ ClaimOutcome(req.id, Gen, req.by)
<1> USE DEF FlowTypeOK
<1>1. /\ req.id \in Proposal /\ req.by \in Session /\ req.ok \in BOOLEAN
      /\ ClaimOutcome(req.id, Gen, req.by)
      /\ UNCHANGED <<graph, thread>>
  BY DEF ResumeClaim
<1>2. changes[req.id] = "pending" /\ req.id \notin Answered
  BY <1>1 DEF ClaimOutcome, Claimable, AnswerInv
<1>3. run[req.id].st = "none"
  BY <1>1, <1>2 DEF ConsentInv, RunConsents, Answered
<1>4. /\ run'[req.id].st = "queued" /\ run'[req.id].by = req.by /\ run'[req.id].ok = req.ok
      /\ \A q \in Proposal \ {req.id} : run'[q] = run[q]
  BY <1>1 DEF ResumeClaim, NoRun
<1>5. /\ req.id \in (IF req.ok THEN granted' ELSE denied')
      /\ granted \subseteq granted' /\ denied \subseteq denied'
  BY <1>1 DEF ResumeClaim
<1>6. ASSUME NEW s \in Session PROVE TurnConsents(s)'
  <2>1. TurnConsents(s) /\ graph[s].by # req.id
    BY <1>1, <1>3 DEF ConsentInv, TurnConsents
  <2>2. /\ graph'[s].by \in Proposal => run'[graph'[s].by].st = "running"
                                        /\ run'[graph'[s].by].by = s
        /\ Ids(thread'[s].answers) = Ids(thread[s].answers)
        /\ Ids(graph'[s].todo) = Ids(graph[s].todo) /\ graph'[s].pc = graph[s].pc
    BY <1>1, <1>4, <2>1 DEF TurnConsents
  <2> QED BY <1>5, <2>1, <2>2 DEF TurnConsents
<1>7. ASSUME NEW q \in Proposal PROVE RunConsents(q)'
  BY <1>1, <1>4, <1>5 DEF ConsentInv, RunConsents
<1> QED BY <1>1, <1>2, <1>3, <1>6, <1>7 DEF ConsentInv

LEMMA DownConsents == FlowTypeOK /\ ConsentInv /\ Down => ConsentInv'
<1> SUFFICES ASSUME FlowTypeOK, ConsentInv, Down PROVE ConsentInv'
  OBVIOUS
<1>1. /\ \A s \in Session : graph'[s] = Idle /\ thread'[s] = thread[s]
      /\ \A p \in Proposal : run'[p].st = "none"
      /\ granted' = granted
  BY DEF Down, NoRun, historyVars
<1>2. ASSUME NEW s \in Session PROVE TurnConsents(s)'
  BY <1>1, RestIs, NoneAssumption DEF ConsentInv, TurnConsents
<1>3. ASSUME NEW p \in Proposal PROVE RunConsents(p)'
  BY <1>1 DEF RunConsents
<1> QED BY <1>2, <1>3 DEF ConsentInv

LEMMA StepConsents ==
    FlowTypeOK /\ TurnInv /\ ConsentInv /\ AnswerInv /\ Next => ConsentInv'
<1> SUFFICES ASSUME FlowTypeOK, TurnInv, ConsentInv, AnswerInv, Next PROVE ConsentInv'
  OBVIOUS
<1>1. CASE ResumeClaim
  BY <1>1, ClaimConsents
<1>2. CASE Down
  BY <1>2, DownConsents
<1>3. ASSUME UNCHANGED <<graph, thread, run, granted, denied>> PROVE ConsentInv'
  BY <1>3 DEF ConsentInv, TurnConsents, RunConsents
<1>4. CASE granted' = granted /\ denied' = denied /\ ~ Down
  <2>1. \/ UNCHANGED <<graph, thread, run>>
        \/ \E s \in Session :
            \/ TurnStep(s) \/ ChatStart(s) \/ AgentStop(s) \/ StreamBreaks(s)
            \/ \E p \in Proposal, text \in Content : AgentPreview(s, p, text)
            \/ \E calls \in Calls : AgentApply(s, calls)
        \/ \E p \in Proposal : RunStep(p) \/ RunUnrecorded(p)
        \/ ResumeClaim
    BY <1>4 DEF Next, ApiStep, ResumeRefused, ResumeCheck, ResumeOrphan, SweepRow, TimePasses,
                flowVars, Crash, CrashBeforeWrite, Restart, Edit
  <2> QED BY <1>1, <1>3, <1>4, <2>1, TurnsConsent, RunsConsent
<1> QED BY <1>1, <1>2, <1>4, OnlyClaimsAnswer

------------------------------------------------------------------------------
\* Answers, outcomes and generations.

\* Only these steps write the file, or touch an outcome or an answer.
LEMMA QuietSteps ==
    Next => \/ ResumeClaim
            \/ \E s \in Session : ApplyApproved(s)
            \/ \E p \in Proposal : RunComplete(p) \/ SweepRow(p)
            \/ UNCHANGED <<outcomes, granted, denied, writes>>
<1> DEFINE Quiet == UNCHANGED <<outcomes, granted, denied, writes>>
<1> USE DEF historyVars
<1>1. \A p, state : Discard(p, Gen, state) \/ LoadExpire(p, Gen) \/ Save(p, Gen) \/ Lapse(p)
                    \/ Consume(p, Gen) \/ UNCHANGED storeVars => outcomes' = outcomes
  BY DEF Discard, LoadExpire, Save, Lapse, Consume, storeVars
<1>2. ASSUME NEW s \in Session, TurnStep(s), ~ ApplyApproved(s) PROVE Quiet
  <2>1. outcomes' = outcomes
    BY <1>1, <1>2 DEF TurnStep, RememberPrune, RememberEvict, RememberSave, Forget, ToolPrepare,
                RequirePending, ToolInterrupt, ToolPass, ApplyRefused, ApplyReturns, ToolsDone
  <2>2. UNCHANGED historyVars
    BY <1>2 DEF TurnStep, RememberPrune, RememberEvict, RememberSave, ToolPrepare,
                ToolInterrupt, ToolPass, ApplyRefused, ApplyReturns, ToolsDone
  <2> QED BY <2>1, <2>2
<1>3. ASSUME NEW s \in Session,
             \/ ChatStart(s) \/ AgentStop(s) \/ StreamBreaks(s) \/ CrashBeforeWrite(s)
             \/ \E p \in Proposal, text \in Content : AgentPreview(s, p, text)
             \/ \E calls \in Calls : AgentApply(s, calls)
             \/ \E p \in Proposal, ok \in BOOLEAN : ResumeCheck(s, p, ok)
      PROVE  Quiet
  BY <1>1, <1>3 DEF ChatStart, AgentStop, StreamBreaks, CrashBeforeWrite, Down, AgentPreview,
                    AgentApply, ResumeCheck
<1>4. ASSUME NEW p \in Proposal,
             RunStart(p) \/ RunDenied(p) \/ RunUnrecorded(p) \/ ResumeOrphan(p) \/ TimePasses(p)
      PROVE  Quiet
  BY <1>1, <1>4 DEF RunStart, RunDenied, RunUnrecorded, ResumeOrphan, TimePasses
<1>5. ASSUME ResumeRefused \/ Crash \/ Restart \/ \E text \in FileState : Edit(text)
      PROVE  Quiet
  BY <1>1, <1>5 DEF ResumeRefused, Crash, Down, Restart, Edit
<1> QED BY <1>2, <1>3, <1>4, <1>5 DEF Next, ApiStep, RunStep

\* What one step does to a change row, whatever its transaction.
LEMMA StoreMoves ==
    ASSUME FlowInv, Next, NEW p \in Proposal
    PROVE  /\ Ids(saved) \subseteq Ids(saved')
           /\ p \in Ids(saved) /\ changes[p] # "pending" => changes'[p] # "pending"
           /\ p \in Ids(saved) /\ changes[p] \in {"consumed", "absent"} =>
                changes'[p] \in {"consumed", "absent"}
           /\ changes[p] # "absent" => p \in Ids(saved)
<1>1. [StoreNext]_storeVars /\ StoreInv
  BY StepIsStoreStep DEF FlowInv
<1>2. Ids(saved) \subseteq Ids(saved')
  <2>1. ASSUME NEW q \in Proposal, Save(q, Gen) PROVE Ids(saved) \subseteq Ids(saved')
    BY <1>1, <2>1, AppendIds DEF Save, StoreInv, StoreTypeOK
  <2>2. ASSUME ~ (\E q \in Proposal : Save(q, Gen)) PROVE saved' = saved
    <3>1. Transaction \/ ResumeClaim \/ UNCHANGED storeVars
      BY StepTransacts DEF FlowInv
    <3> QED BY <2>2, <3>1 DEF Transaction, ResumeClaim, storeVars, Lapse, LoadExpire, Consume,
                Discard, ClaimOutcome, CompleteOutcome, CompleteByApproval, Reconcile
  <2> QED BY <2>1, <2>2
<1>3. changes[p] # "absent" => p \in Ids(saved)
  BY <1>1 DEF StoreInv, UnsavedIsAbsent
<1> QED BY <1>1, <1>2, <1>3, ChangeSteps

\* A step other than a claim opens no outcome; a claim opens that of its change.
LEMMA OutcomesOpen ==
    ASSUME FlowInv, Next, NEW p \in Proposal, outcomes'[p] # "absent"
    PROVE  outcomes[p] # "absent" \/ (ResumeClaim /\ p = req.id)
<1>1. StoreInv /\ [StoreNext]_storeVars /\ GenAssumption
  BY StepIsStoreStep, GenAssumption DEF FlowInv, GenAssumption
<1>2. CASE ResumeClaim
  <2>1. req.id \in Proposal /\ req.by \in Session /\ ClaimOutcome(req.id, Gen, req.by)
    BY <1>2 DEF ResumeClaim, FlowInv, FlowTypeOK
  <2>2. \A q \in Proposal \ {req.id} : outcomes[q] = "absent" => outcomes'[q] = "absent"
    BY <1>1, <2>1, ClaimOpens, GenAssumption DEF Terminal
  <2> QED BY <1>2, <2>2
<1>3. CASE ~ ResumeClaim
  <2>1. ASSUME NEW q \in Proposal, NEW state \in Terminal, CompleteByApproval(q, Gen, state)
        PROVE  outcomes[p] # "absent"
    BY <1>1, <2>1, CompletionSettles, GenAssumption, ZenonT(40) DEF CompleteByApproval, Terminal
  <2>2. outcomes' = outcomes \/ \E q \in Proposal, state \in Terminal : CompleteByApproval(q, Gen, state)
    <3>1. Transaction \/ UNCHANGED storeVars
      BY <1>3, StepTransacts DEF FlowInv
    <3>2. {"applied_recovered", "recovery_required"} \subseteq Terminal
      BY DEF Terminal
    <3> QED BY <3>1, <3>2 DEF Transaction, Lapse, Save, LoadExpire, Consume, Discard,
                CompleteOutcome, Reconcile, storeVars
  <2> QED BY <2>1, <2>2
<1> QED BY <1>2, <1>3

LEMMA StepAnswers == FlowInv /\ Next => AnswerInv'
<1> SUFFICES ASSUME FlowInv, Next PROVE AnswerInv'
  OBVIOUS
<1>0. AnswerInv /\ FlowTypeOK /\ ConsentInv
  BY DEF FlowInv
<1>1. ASSUME NEW p \in Answered
      PROVE  p \in Ids(saved') /\ changes'[p] # "pending"
  <2>1. p \in Proposal /\ p \in Ids(saved) /\ changes[p] # "pending"
    BY <1>0 DEF AnswerInv, Answered, FlowTypeOK
  <2> QED BY <2>1, StoreMoves
<1>2. CASE ~ ResumeClaim
  <2>1. granted' = granted /\ denied' = denied
    BY <1>2, OnlyClaimsAnswer
  <2>2. \A p \in Proposal : outcomes'[p] # "absent" => p \in Answered
    BY <1>0, <1>2, OutcomesOpen DEF AnswerInv
  <2> QED BY <1>0, <1>1, <2>1, <2>2 DEF AnswerInv, Answered
<1>3. CASE ResumeClaim
  <2> DEFINE id == req.id
  <2>1. /\ id \in Proposal /\ id \notin Answered
        /\ changes[id] = "pending" /\ changes' = [changes EXCEPT ![id] = "claimed"]
    BY <1>0, <1>3, ClaimConsents DEF ClaimOutcome, Claimable
  <2>2. id \in Ids(saved') /\ changes'[id] = "claimed"
    <3>1. changes \in [Proposal -> ChangeState \cup {"absent"}]
      BY DEF FlowInv, StoreInv, StoreTypeOK
    <3> QED BY <2>1, <3>1, StoreMoves
  <2>3. \/ granted' = granted \cup {id} /\ denied' = denied
        \/ denied' = denied \cup {id} /\ granted' = granted
    BY <1>3 DEF ResumeClaim
  <2>4. \A p \in Proposal : outcomes'[p] # "absent" => p \in Answered \cup {id}
    BY <1>0, OutcomesOpen DEF AnswerInv
  <2> HIDE DEF id
  <2> QED BY <1>0, <1>1, <2>1, <2>2, <2>3, <2>4 DEF AnswerInv, Answered
<1> QED BY <1>2, <1>3

LEMMA StepStaysHere == FlowInv /\ Next => HereInv'
<1> SUFFICES ASSUME FlowInv, Next, NEW p \in Proposal, changes'[p] # "absent"
             PROVE  gen'[p] = Gen
  BY DEF HereInv
<1>0. /\ changes \in [Proposal -> ChangeState \cup {"absent"}]
      /\ gen \in [Proposal -> Generation \cup {NoGeneration}]
      /\ HereInv
  BY DEF FlowInv, StoreInv, StoreTypeOK
<1>1. Transaction \/ ResumeClaim \/ UNCHANGED storeVars
  BY StepTransacts DEF FlowInv
<1>2. ASSUME NEW q \in Proposal, Save(q, Gen) PROVE gen'[p] = Gen
  <2>1. gen' = [gen EXCEPT ![q] = Gen]
    BY <1>2 DEF Save
  <2>2. p # q => changes[p] # "absent"
    <3> DEFINE kept == [r \in Proposal |-> IF r \in EvictedBy(q, Gen) THEN "evicted"
                                           ELSE IF r = q THEN "pending" ELSE changes[r]]
               pruned == Overflow(Prunable(kept, gen', Gen), saved', MaxPending)
    <3>1. changes' = [r \in Proposal |-> IF r \in pruned THEN "absent" ELSE kept[r]]
      BY <1>2 DEF Save
    <3> HIDE DEF pruned
    <3>2. kept[p] # "absent"
      BY <3>1
    <3>3. ASSUME p # q, p \in EvictedBy(q, Gen) PROVE changes[p] = "pending"
      BY <3>3 DEF EvictedBy, Overflow, PendingIn
    <3> QED BY <3>2, <3>3
  <2> QED BY <1>0, <2>1, <2>2 DEF HereInv
<1>3. ASSUME ~ (\E q \in Proposal : Save(q, Gen)) PROVE gen' = gen /\ changes[p] # "absent"
  BY <1>0, <1>1, <1>3 DEF Transaction, ResumeClaim, storeVars, Lapse, LoadExpire, Consume, Consumable,
        Discard, ClaimOutcome, Claimable, CompleteOutcome, CompleteByApproval, Reconcile
<1> QED BY <1>0, <1>2, <1>3 DEF HereInv

------------------------------------------------------------------------------
\* The memory of the change service.

\* Whatever leaves pending for good leaves memory in the same step.
LEMMA MemoryFollows ==
    ASSUME FlowInv, NEW p \in Proposal
    PROVE  /\ RequirePending(p) => MemoryIsBacked'
           /\ \A state : Forget(p, state) => MemoryIsBacked'
           /\ Consume(p, Gen) /\ Ids(mem') \subseteq Ids(mem) \ {p} => MemoryIsBacked'
<1>0. /\ changes \in [Proposal -> ChangeState \cup {"absent"}]
      /\ mem \in Seq(Proposal) /\ Ids(mem) \subseteq Proposal
      /\ MemoryIsBacked
  BY IdsOf DEF FlowInv, StoreInv, StoreTypeOK, FlowTypeOK
<1>1. Ids(Without(mem, {p})) \subseteq Ids(mem) \ {p}
  BY <1>0, WithoutRemoves
<1>2. ASSUME Ids(mem') \subseteq Ids(mem) \ {p}, \E state : changes' = [changes EXCEPT ![p] = state]
      PROVE  MemoryIsBacked'
  BY <1>0, <1>2 DEF MemoryIsBacked
<1>3. \A state : Discard(p, Gen, state) \/ LoadExpire(p, Gen) \/ Consume(p, Gen) \/ UNCHANGED storeVars
        => \E new : changes' = [changes EXCEPT ![p] = new]
  <2>1. changes = [changes EXCEPT ![p] = changes[p]]
    BY <1>0
  <2> QED BY <2>1 DEF Discard, LoadExpire, Consume, storeVars
<1>4. ASSUME RequirePending(p) PROVE MemoryIsBacked'
  <2>1. CASE mem' = Without(mem, {p})
    BY <1>1, <1>2, <1>3, <1>4, <2>1 DEF RequirePending
  <2>2. CASE mem' # Without(mem, {p})
    <3>1. /\ changes' = changes
          /\ mem' = mem \/ (changes[p] = "pending" /\ mem' = Append(mem, p))
      BY <1>4, <2>2 DEF RequirePending, LoadExpire, storeVars, Claimable
    <3>2. Ids(Append(mem, p)) = Ids(mem) \cup {p}
      BY <1>0, AppendIds
    <3> QED BY <1>0, <3>1, <3>2 DEF MemoryIsBacked
  <2> QED BY <2>1, <2>2
<1>5. ASSUME NEW state, Forget(p, state) PROVE MemoryIsBacked'
  BY <1>1, <1>2, <1>3, <1>5 DEF Forget
<1>6. ASSUME Consume(p, Gen), Ids(mem') \subseteq Ids(mem) \ {p} PROVE MemoryIsBacked'
  BY <1>2, <1>3, <1>6
<1> QED BY <1>4, <1>5, <1>6

\* What save evicts from the table it evicts from memory too; what it remembers
\* is pending, being the latest.
LEMMA SaveIsBacked ==
    ASSUME FlowInv, NEW p \in Proposal, Save(p, Gen),
           mem' = Append(Without(mem, EvictedBy(p, Gen)), p)
    PROVE  MemoryIsBacked'
<1>0. /\ changes \in [Proposal -> ChangeState \cup {"absent"}]
      /\ mem \in Seq(Proposal) /\ Ids(mem) \subseteq Proposal
      /\ saved \in Seq(Proposal) /\ MaxPending \in Nat \ {0}
      /\ MemoryIsBacked
  BY IdsOf, MaxPendingAssumption DEF FlowInv, StoreInv, StoreTypeOK, FlowTypeOK
<1>1. Ids(mem') \subseteq (Ids(mem) \ EvictedBy(p, Gen)) \cup {p}
  <2>1. /\ Without(mem, EvictedBy(p, Gen)) \in Seq(Proposal)
        /\ Ids(Without(mem, EvictedBy(p, Gen))) \subseteq Ids(mem) \ EvictedBy(p, Gen)
    BY <1>0, WithoutRemoves
  <2> QED BY <2>1, AppendIds
<1>2. p \notin EvictedBy(p, Gen)
  BY <1>0, LatestIsKept DEF Save, EvictedBy
<1> DEFINE kept == [q \in Proposal |-> IF q \in EvictedBy(p, Gen) THEN "evicted"
                                       ELSE IF q = p THEN "pending" ELSE changes[q]]
           pruned == Overflow(Prunable(kept, gen', Gen), saved', MaxPending)
<1>3. changes' = [q \in Proposal |-> IF q \in pruned THEN "absent" ELSE kept[q]]
  BY DEF Save
<1> HIDE DEF pruned
<1>4. \A q \in Ids(mem') : changes'[q] \in {"absent", "pending", changes[q]}
  BY <1>0, <1>1, <1>2, <1>3
<1>5. \A q \in Ids(mem') \ {p} : changes[q] \in {"pending", "claimed", "absent"}
  BY <1>0, <1>1 DEF MemoryIsBacked
<1>6. changes'[p] \in {"absent", "pending"}
  BY <1>2, <1>3
<1> QED BY <1>4, <1>5, <1>6 DEF MemoryIsBacked

LEMMA StepIsBacked == FlowInv /\ Next => MemoryIsBacked'
<1> SUFFICES ASSUME FlowInv, Next PROVE MemoryIsBacked'
  OBVIOUS
<1>0. /\ FlowTypeOK /\ TurnInv /\ MemoryIsBacked
      /\ changes \in [Proposal -> ChangeState \cup {"absent"}]
  BY DEF FlowInv, StoreInv, StoreTypeOK
<1>1. ASSUME NEW s \in Session, RememberPrune(s) PROVE MemoryIsBacked'
  <2>1. PICK p \in Ids(mem) : Forget(p, "expired")
    BY <1>1 DEF RememberPrune
  <2> QED BY <1>0, <2>1, MemoryFollows, IdsOf DEF FlowTypeOK
<1>2. ASSUME NEW s \in Session, RememberEvict(s) PROVE MemoryIsBacked'
  <2>1. mem # <<>> /\ Forget(Head(mem), "evicted")
    BY <1>0, <1>2, MaxPendingAssumption DEF RememberEvict, FlowTypeOK
  <2>2. Head(mem) \in Proposal
    BY <1>0, <2>1, IdsOf DEF FlowTypeOK
  <2> QED BY <2>1, <2>2, MemoryFollows
<1>3. ASSUME NEW s \in Session, RememberSave(s) PROVE MemoryIsBacked'
  <2>1. Head(graph[s].todo) \in Proposal
    BY <1>0, <1>3, HeadIsPreviewed DEF RememberSave, TurnInv, TurnOK
  <2> QED BY <1>3, <2>1, SaveIsBacked DEF RememberSave
<1>4. ASSUME NEW s \in Session, ToolPrepare(s) \/ ApplyRefused(s) PROVE MemoryIsBacked'
  <2>1. graph[s].todo # <<>> /\ RequirePending(Head(graph[s].todo))
    BY <1>4 DEF ToolPrepare, ApplyRefused, Executing
  <2> QED BY <1>0, <2>1, HeadIsPreviewed, MemoryFollows
<1>5. ASSUME NEW s \in Session, ApplyApproved(s) PROVE MemoryIsBacked'
  <2>1. /\ graph[s].todo # <<>> /\ Consume(Head(graph[s].todo), Gen)
        /\ mem' = Without(mem, {Head(graph[s].todo)})
    BY <1>5 DEF ApplyApproved, Executing
  <2>2. Ids(mem') \subseteq Ids(mem) \ {Head(graph[s].todo)}
    BY <1>0, <2>1, WithoutRemoves DEF FlowTypeOK
  <2> QED BY <1>0, <2>1, <2>2, HeadIsPreviewed, MemoryFollows
<1>6. ASSUME Down PROVE MemoryIsBacked'
  BY <1>6, IdsOfShort DEF Down, MemoryIsBacked
<1>7. ASSUME ResumeClaim PROVE MemoryIsBacked'
  <2>1. mem' = mem /\ changes' = [changes EXCEPT ![req.id] = "claimed"]
    BY <1>7 DEF ResumeClaim, ClaimOutcome
  <2>2. Ids(mem) \subseteq Proposal
    BY <1>0, IdsOf DEF FlowTypeOK
  <2> QED BY <1>0, <2>1, <2>2 DEF MemoryIsBacked
<1>8. ASSUME UNCHANGED <<mem, changes>> PROVE MemoryIsBacked'
  BY <1>0, <1>8 DEF MemoryIsBacked
<1>9. ASSUME NEW s \in Session,
             \/ ChatStart(s) \/ AgentStop(s) \/ StreamBreaks(s)
             \/ ToolInterrupt(s) \/ ToolPass(s) \/ ApplyReturns(s) \/ ToolsDone(s)
             \/ \E p \in Proposal, text \in Content : AgentPreview(s, p, text)
             \/ \E calls \in Calls : AgentApply(s, calls)
             \/ \E p \in Proposal, ok \in BOOLEAN : ResumeCheck(s, p, ok)
      PROVE  UNCHANGED <<mem, changes>>
  BY <1>9 DEF ChatStart, AgentStop, StreamBreaks, ToolInterrupt, ToolPass, ApplyReturns, ToolsDone,
              AgentPreview, AgentApply, ResumeCheck, storeVars
<1>10. ASSUME NEW p \in Proposal,
              \/ RunStep(p) \/ RunUnrecorded(p) \/ ResumeOrphan(p) \/ SweepRow(p) \/ TimePasses(p)
       PROVE  UNCHANGED <<mem, changes>>
  BY <1>10 DEF RunStep, RunStart, RunDenied, RunComplete, RunUnrecorded, ResumeOrphan, SweepRow,
        TimePasses, CompleteOutcome, CompleteByApproval, Reconcile, Lapse, storeVars, flowVars
<1>11. ASSUME ResumeRefused \/ Restart \/ \E text \in FileState : Edit(text)
       PROVE  UNCHANGED <<mem, changes>>
  BY <1>11 DEF ResumeRefused, Restart, Edit, storeVars
<1> QED BY <1>1, <1>2, <1>3, <1>4, <1>5, <1>6, <1>7, <1>8, <1>9, <1>10, <1>11
        DEF Next, TurnStep, ApiStep, Crash, CrashBeforeWrite

------------------------------------------------------------------------------
\* Nobody is orphaned.

\* A fault is never forgotten; work on an outcome ends with its completion, with
\* a fault or with the engine.
LEMMA WorkGoesOn ==
    ASSUME FlowInv, Next, up', faults' = 0, ~ Restart, NEW p \in Proposal
    PROVE  /\ up /\ faults = 0
           /\ \/ run[p].st # "none" => run'[p].st # "none"
              \/ RunComplete(p)
           /\ \/ p \in sweep => p \in sweep'
              \/ SweepRow(p)
              \/ \E q \in Proposal : ResumeOrphan(q)
<1> USE DEF countVars
<1> DEFINE Goes == /\ up /\ faults = 0
                   /\ run[p].st # "none" => run'[p].st # "none"
                   /\ p \in sweep => p \in sweep'
<1>0. run \in [Proposal -> Run] /\ faults \in Nat
  BY FlowBounds DEF FlowInv, FlowTypeOK
<1>12. /\ \A q : [run EXCEPT ![q].got = "verification"][p].st = run[p].st
       /\ \A q : [run EXCEPT ![q].st = "running"][p].st \in {run[p].st, "running"}
       /\ \A q : [run EXCEPT ![q].st = "finishing"][p].st \in {run[p].st, "finishing"}
  BY <1>0 DEF Run
<1>1. ASSUME NEW s \in Session, TurnStep(s) PROVE Goes
  <2>1. /\ up' = up /\ faults' \in {faults, faults + 1} /\ sweep' = sweep
        /\ \/ run' = run
           \/ run' = [run EXCEPT ![graph[s].by].st = "finishing"]
           \/ run' = [run EXCEPT ![graph[s].by].got = "verification"]
    BY <1>1 DEF TurnStep, RememberPrune, RememberEvict, RememberSave, ToolPrepare, ToolInterrupt,
        ToolPass, ApplyRefused, ApplyApproved, Fault, ApplyReturns, ToolsDone, EndTurn, Saw
  <2>2. run'[p].st \in {run[p].st, "finishing"}
    BY <1>12, <2>1, ZenonT(40)
  <2> QED BY <1>0, <2>1, <2>2
<1>2. ASSUME NEW s \in Session,
             \/ ChatStart(s) \/ AgentStop(s)
             \/ \E q \in Proposal, text \in Content : AgentPreview(s, q, text)
             \/ \E calls \in Calls : AgentApply(s, calls)
             \/ \E q \in Proposal, ok \in BOOLEAN : ResumeCheck(s, q, ok)
      PROVE  Goes
  <2>1. /\ up' = up /\ faults' = faults /\ sweep' = sweep
        /\ run' = run \/ run' = [run EXCEPT ![graph[s].by].st = "finishing"]
    BY <1>2 DEF ChatStart, AgentStop, AgentPreview, AgentApply, ResumeCheck, EndTurn
  <2>2. run'[p].st \in {run[p].st, "finishing"}
    BY <1>12, <2>1, Zenon
  <2> QED BY <1>0, <2>1, <2>2
<1>3. ASSUME NEW s \in Session, StreamBreaks(s) PROVE FALSE
  BY <1>0, <1>3 DEF StreamBreaks, Fault
<1>4. ASSUME NEW q \in Proposal, RunUnrecorded(q) PROVE FALSE
  BY <1>0, <1>4 DEF RunUnrecorded, Fault
<1>5. ASSUME NEW q \in Proposal, RunStart(q) \/ RunDenied(q) PROVE Goes
  <2>1. /\ up' = up /\ sweep' = sweep
        /\ faults' = faults \/ faults' = faults + 1
        /\ \/ run' = [run EXCEPT ![q].st = "running"]
           \/ run' = [run EXCEPT ![q].st = "finishing"]
    BY <1>5 DEF RunStart, RunDenied, Fault
  <2>2. run'[p].st \in {run[p].st, "running", "finishing"}
    BY <1>12, <2>1, Zenon
  <2> QED BY <1>0, <2>1, <2>2
<1>6. ASSUME NEW q \in Proposal, RunComplete(q)
      PROVE  up /\ faults = 0 /\ sweep' = sweep /\ (q # p => run'[p].st = run[p].st)
  <2>1. up' = up /\ sweep' = sweep /\ faults' = faults /\ run' = [run EXCEPT ![q] = NoRun]
    BY <1>6 DEF RunComplete
  <2> QED BY <1>0, <2>1
<1>7. ASSUME NEW q \in Proposal, SweepRow(q)
      PROVE  up /\ faults = 0 /\ run' = run /\ (q # p /\ p \in sweep => p \in sweep')
  BY <1>7 DEF SweepRow
<1>8. ASSUME NEW q \in Proposal, ResumeOrphan(q) \/ TimePasses(q)
      PROVE  /\ up /\ faults = 0 /\ run' = run
             /\ sweep' = sweep \/ ResumeOrphan(q)
  BY <1>8 DEF ResumeOrphan, TimePasses, flowVars
<1>9. ASSUME ApiStep PROVE Goes
  <2>1. /\ up' = up /\ faults' = faults /\ sweep' = sweep
        /\ \/ run' = run
           \/ run' = [run EXCEPT ![req.id] = [NoRun EXCEPT !.st = "queued", !.by = req.by,
                                                           !.ok = req.ok]]
    BY <1>9 DEF ApiStep, ResumeClaim, ResumeRefused
  <2>2. [NoRun EXCEPT !.st = "queued", !.by = req.by, !.ok = req.ok].st = "queued"
    BY DEF NoRun
  <2> QED BY <1>0, <2>1, <2>2
<1>10. ASSUME Down PROVE FALSE
  BY <1>10 DEF Down
<1>11. ASSUME NEW text \in FileState, Edit(text) PROVE Goes
  BY <1>11 DEF Edit
<1> QED BY <1>1, <1>2, <1>3, <1>4, <1>5, <1>6, <1>7, <1>8, <1>9, <1>10, <1>11
        DEF Next, RunStep, Crash, CrashBeforeWrite

\* Every outcome that is applying is among those reconcile_applying selects.
LEMMA ApplyingIsInterrupted ==
    ASSUME FlowInv, NEW p \in Proposal, outcomes[p] = "applying"
    PROVE  p \in Interrupted(Gen)
  BY DEF FlowInv, StoreInv, ApplyingKeepsChange, HereInv, Interrupted

\* Who completes an outcome leaves it terminal.
LEMMA CompletedIsNotApplying ==
    ASSUME FlowInv, Next, NEW p \in Proposal, RunComplete(p) \/ SweepRow(p)
    PROVE  outcomes'[p] # "applying"
<1>0. StoreInv /\ Gen \in Generation
  BY GenAssumption DEF FlowInv
<1>1. ASSUME NEW state \in Terminal, CompleteByApproval(p, Gen, state)
      PROVE  outcomes'[p] # "applying"
  BY <1>0, <1>1, CompletionSettles DEF Terminal
<1>2. RunResult(p) \in Terminal /\ {"applied_recovered", "recovery_required"} \subseteq Terminal
  BY RunResultIsTerminal DEF FlowInv, Terminal
<1> QED BY <1>1, <1>2 DEF RunComplete, SweepRow, CompleteOutcome, Reconcile, storeVars

LEMMA StepOrphansNobody == FlowInv /\ Next => NoOrphan'
<1> SUFFICES ASSUME FlowInv, Next, up', faults' = 0, NEW p \in Proposal, outcomes'[p] = "applying"
             PROVE  run'[p].st # "none" \/ p \in sweep'
  BY DEF NoOrphan
<1>1. CASE Restart
  <2>1. sweep' = Interrupted(Gen) /\ outcomes' = outcomes
    BY <1>1 DEF Restart, storeVars
  <2> QED BY <2>1, ApplyingIsInterrupted
<1>2. CASE ResumeClaim /\ p = req.id
  <2>1. run'[p] = [NoRun EXCEPT !.st = "queued", !.by = req.by, !.ok = req.ok]
    BY <1>2 DEF ResumeClaim, FlowInv, FlowTypeOK
  <2> QED BY <2>1 DEF NoRun
<1>3. CASE ~ Restart /\ ~ (ResumeClaim /\ p = req.id)
  <2>1. outcomes[p] = "applying"
    <3>1. StoreInv /\ [StoreNext]_storeVars
      BY StepIsStoreStep DEF FlowInv
    <3>2. outcomes[p] # "absent" /\ outcomes[p] \notin Terminal
      BY <1>3, <3>1, OutcomesOpen, OutcomeSteps DEF Terminal
    <3> QED BY <3>1, <3>2 DEF StoreInv, StoreTypeOK, OutcomeState
  <2>2. ~ RunComplete(p) /\ ~ SweepRow(p)
    BY CompletedIsNotApplying
  <2>3. CASE \E q \in Proposal : ResumeOrphan(q)
    BY <2>1, <2>3, ApplyingIsInterrupted DEF ResumeOrphan
  <2>4. CASE ~ (\E q \in Proposal : ResumeOrphan(q))
    BY <1>3, <2>1, <2>2, <2>4, WorkGoesOn DEF FlowInv, NoOrphan
  <2> QED BY <2>3, <2>4
<1> QED BY <1>1, <1>2, <1>3

------------------------------------------------------------------------------
\* Writes and tests.

\* Who tests has just written, or goes on testing the same change.
LEMMA WhoTests ==
    ASSUME FlowTypeOK, ConsentInv, Next, NEW s \in Session, graph'[s].pc = "testing"
    PROVE  \/ ApplyApproved(s) /\ TargetAsPreviewed(Head(graph[s].todo))
           \/ graph[s].pc = "testing" /\ graph'[s].todo = graph[s].todo
<1> DEFINE Goes == graph[s].pc = "testing" /\ graph'[s].todo = graph[s].todo
<1>0. graph \in [Session -> Turn] /\ graph[s] \in Turn
  BY DEF FlowTypeOK
<1>1. ASSUME NEW t \in Session, ApplyApproved(t)
      PROVE  Goes \/ (t = s /\ TargetAsPreviewed(Head(graph[s].todo)))
  <2>1. \/ /\ TargetAsPreviewed(Head(graph[t].todo))
           /\ graph' = [graph EXCEPT ![t].pc = "testing"]
        \/ graph' = [graph EXCEPT ![t].todo = Tail(@)] /\ graph[t].pc = "execute"
    BY <1>1 DEF ApplyApproved, Executing, NextCall
  <2> QED BY <1>0, <2>1 DEF Turn
<1>2. ASSUME NEW t \in Session, TurnStep(t), ~ ApplyApproved(t) PROVE Goes
  <2>1. t # s => graph'[s] = graph[s]
    BY <1>0, <1>2 DEF TurnStep, RememberPrune, RememberEvict, RememberSave, ToolPrepare,
        ToolInterrupt, ToolPass, ApplyRefused, ApplyReturns, ToolsDone, EndTurn
  <2>2. CASE t = s
    <3>1. ~ ToolInterrupt(s)
      BY <1>0, RestIs DEF ToolInterrupt, EndTurn
    <3>2. \/ graph' = graph
          \/ graph'[s].pc \in {"agent", "prepare", "execute"}
      BY <1>0, <1>2, <2>2, <3>1 DEF TurnStep, RememberPrune, RememberEvict, RememberSave,
          ToolPrepare, ToolPass, ApplyRefused, Executing, ApplyReturns, ToolsDone, Turn
    <3> QED BY <3>2
  <2> QED BY <2>1, <2>2
<1>3. ASSUME NEW t \in Session,
             \/ ChatStart(t) \/ AgentStop(t) \/ StreamBreaks(t)
             \/ \E p \in Proposal, text \in Content : AgentPreview(t, p, text)
             \/ \E calls \in Calls : AgentApply(t, calls)
      PROVE  Goes
  <2>1. t # s => graph'[s] = graph[s]
    BY <1>0, <1>3 DEF ChatStart, AgentStop, StreamBreaks, AgentPreview, AgentApply, EndTurn
  <2>2. CASE t = s
    <3>1. ~ AgentStop(s) /\ ~ StreamBreaks(s)
      BY <1>0, RestIs DEF AgentStop, EndTurn, StreamBreaks
    <3>2. [Idle EXCEPT !.by = "chat", !.pc = "agent"].pc = "agent"
      BY DEF Idle
    <3>3. ChatStart(s) => graph'[s].pc = "agent"
      BY <1>0, <3>2 DEF ChatStart
    <3>4. \A p, text : AgentPreview(s, p, text) => graph'[s].pc = "remember"
      BY <1>0 DEF AgentPreview, Turn
    <3>5. \A calls : AgentApply(s, calls) => graph'[s].pc = "tools"
      BY <1>0 DEF AgentApply, Turn
    <3> QED BY <1>3, <2>2, <3>1, <3>3, <3>4, <3>5
  <2> QED BY <2>1, <2>2
<1>4. ASSUME NEW p \in Proposal, RunStart(p) PROVE Goes
  <2>1. PICK t \in Session : t = run[p].by
    BY <1>4 DEF RunStart, ConsentInv, RunConsents
  <2>2. graph' = [graph EXCEPT ![t] = [by |-> p, pc |-> "tools",
                                       todo |-> thread[t].calls, ready |-> <<>>]]
    BY <1>4, <2>1 DEF RunStart
  <2> QED BY <1>0, <2>2
<1>5. ASSUME Down PROVE FALSE
  BY <1>5, RestIs DEF Down
<1>6. ASSUME NEW p \in Proposal,
             \/ RunDenied(p) \/ RunComplete(p) \/ RunUnrecorded(p) \/ ResumeOrphan(p)
             \/ SweepRow(p) \/ TimePasses(p)
             \/ \E t \in Session, ok \in BOOLEAN : ResumeCheck(t, p, ok)
      PROVE  Goes
  BY <1>6 DEF RunDenied, RunComplete, RunUnrecorded, ResumeOrphan, SweepRow, TimePasses,
              ResumeCheck, flowVars
<1>7. ASSUME ApiStep \/ Restart \/ \E text \in FileState : Edit(text) PROVE Goes
  BY <1>7 DEF ApiStep, ResumeClaim, ResumeRefused, Restart, Edit
<1> QED BY <1>1, <1>2, <1>3, <1>4, <1>5, <1>6, <1>7 DEF Next, RunStep, Crash, CrashBeforeWrite

\* The file changes by a write of the engine or by somebody's edit.
LEMMA WhoWrites ==
    ASSUME Next, ~ (\E s \in Session : ApplyApproved(s))
    PROVE  /\ writes' = writes
           /\ \/ file' = file /\ edits' = edits
              \/ edits' = edits + 1
<1> USE DEF historyVars, countVars
<1> DEFINE Kept == writes' = writes /\ file' = file /\ edits' = edits
<1>1. ASSUME NEW s \in Session, TurnStep(s) PROVE Kept
  BY <1>1 DEF TurnStep, RememberPrune, RememberEvict, RememberSave, ToolPrepare,
        ToolInterrupt, ToolPass, ApplyRefused, ApplyReturns, ToolsDone
<1>2. ASSUME NEW s \in Session,
             \/ ChatStart(s) \/ AgentStop(s) \/ StreamBreaks(s) \/ CrashBeforeWrite(s)
             \/ \E p \in Proposal, text \in Content : AgentPreview(s, p, text)
             \/ \E calls \in Calls : AgentApply(s, calls)
             \/ \E p \in Proposal, ok \in BOOLEAN : ResumeCheck(s, p, ok)
      PROVE  Kept
  BY <1>2 DEF ChatStart, AgentStop, StreamBreaks, CrashBeforeWrite, Down, AgentPreview,
              AgentApply, ResumeCheck
<1>3. ASSUME NEW p \in Proposal,
             \/ RunStep(p) \/ RunUnrecorded(p) \/ ResumeOrphan(p) \/ SweepRow(p) \/ TimePasses(p)
      PROVE  Kept
  BY <1>3 DEF RunStep, RunStart, RunDenied, RunComplete, RunUnrecorded, ResumeOrphan, SweepRow,
              TimePasses, flowVars
<1>4. ASSUME ApiStep \/ Crash \/ Restart PROVE Kept
  BY <1>4 DEF ApiStep, ResumeClaim, ResumeRefused, Crash, Down, Restart
<1>5. ASSUME NEW text \in FileState, Edit(text) PROVE writes' = writes /\ edits' = edits + 1
  BY <1>5 DEF Edit
<1> QED BY <1>1, <1>2, <1>3, <1>4, <1>5 DEF Next

\* apply_approved, from the invariant: the change it handles was approved, is
\* stored and never written; consuming it is what lets it be written.
LEMMA ApplyWritesOnce ==
    ASSUME FlowInv, NEW s \in Session, ApplyApproved(s), NEW p, p = Head(graph[s].todo)
    PROVE  /\ p \in Proposal /\ patch[p] \in Patch
           /\ p \in granted /\ p \notin denied /\ p \in Ids(saved) /\ writes[p] = 0
           /\ changes'[p] = "consumed"
           /\ UNCHANGED <<patch, edits, run, granted, denied, saved, outcomes, gen>>
           /\ \A t \in Session \ {s} : graph'[t] = graph[t] /\ graph[t].pc # "testing"
           /\ \/ /\ TargetAsPreviewed(p) /\ file' = patch[p].after
                 /\ writes' = [writes EXCEPT ![p] = 1]
              \/ UNCHANGED <<file, writes>> /\ graph'[s].pc = "execute"
           /\ \/ graph'[s].pc = "testing" /\ graph'[s].todo = graph[s].todo
              \/ graph'[s].pc = "execute"
<1>0. /\ FlowTypeOK /\ TurnInv /\ ConsentInv /\ WriteInv /\ AnswerInv
      /\ UnsavedIsAbsent /\ changes \in [Proposal -> ChangeState \cup {"absent"}]
      /\ graph \in [Session -> Turn] /\ graph[s] \in Turn /\ writes \in [Proposal -> Nat]
  BY DEF FlowInv, StoreInv, StoreTypeOK, FlowTypeOK
<1>1. graph[s].todo # <<>> /\ graph[s].pc = "execute" /\ RepositoryFree
  BY DEF ApplyApproved, Executing
<1>2. p \in Proposal /\ p \in Ids(graph[s].todo) /\ patch[p] \in Patch
  BY <1>0, <1>1, HeadIsPreviewed
<1>3. p \in granted /\ p \notin denied
  BY <1>0, <1>1, <1>2 DEF ConsentInv, TurnConsents, AnswerInv
<1>4. Consume(p, Gen)
  BY DEF ApplyApproved
<1>5. p \in Ids(saved) /\ writes[p] = 0 /\ changes'[p] = "consumed"
  BY <1>0, <1>2, <1>4 DEF Consume, Consumable, UnsavedIsAbsent, WriteInv
<1>6. UNCHANGED <<patch, edits, run, granted, denied, saved, outcomes, gen>>
  BY <1>4 DEF ApplyApproved, Consume
<1>7. /\ \/ /\ TargetAsPreviewed(p) /\ file' = patch[p].after
            /\ writes' = [writes EXCEPT ![p] = @ + 1]
         \/ UNCHANGED <<file, writes>> /\ graph' = [graph EXCEPT ![s].todo = Tail(@)]
      /\ \/ graph' = [graph EXCEPT ![s].pc = "testing"]
         \/ graph' = [graph EXCEPT ![s].todo = Tail(@)]
  BY DEF ApplyApproved, WritesText, WritesNothing, NextCall
<1>8. \A t \in Session \ {s} : graph'[t] = graph[t] /\ graph[t].pc # "testing"
  BY <1>0, <1>1, <1>7 DEF RepositoryFree
<1>9. /\ \/ graph'[s].pc = "testing" /\ graph'[s].todo = graph[s].todo
         \/ graph'[s].pc = "execute"
      /\ graph' = [graph EXCEPT ![s].todo = Tail(@)] => graph'[s].pc = "execute"
  BY <1>0, <1>1, <1>7 DEF Turn
<1>10. writes' = [writes EXCEPT ![p] = @ + 1] => writes' = [writes EXCEPT ![p] = 1]
  BY <1>0, <1>2, <1>5
<1> QED BY <1>2, <1>3, <1>5, <1>6, <1>7, <1>8, <1>9, <1>10

\* Only the end of the tests tells a run of a verification.
LEMMA WhoVerifies ==
    ASSUME FlowInv, Next, NEW p \in Proposal, run'[p].got = "verification"
    PROVE  \/ run[p].got = "verification"
           \/ \E s \in Session : graph[s].pc = "testing" /\ p = Head(graph[s].todo)
<1>0. run \in [Proposal -> Run]
  BY DEF FlowInv, FlowTypeOK
<1>1. /\ \A q : [run EXCEPT ![q].st = "running"][p].got = run[p].got
      /\ \A q : [run EXCEPT ![q].st = "finishing"][p].got = run[p].got
      /\ \A q : [run EXCEPT ![q] = NoRun][p].got \in {run[p].got, "nothing"}
      /\ \A q : [run EXCEPT ![q].got = "verification"][p].got = run[p].got \/ q = p
  BY <1>0 DEF Run, NoRun
<1> DEFINE Same == run'[p].got \in {run[p].got, "nothing", "file_change"}
<1>2. ASSUME NEW s \in Session, TurnStep(s) \/ AgentStop(s), ~ ApplyReturns(s) PROVE Same
  <2>1. run' = run \/ run' = [run EXCEPT ![graph[s].by].st = "finishing"]
    BY <1>2 DEF TurnStep, RememberPrune, RememberEvict, RememberSave, ToolPrepare, ToolInterrupt,
        ToolPass, ApplyRefused, ApplyApproved, ToolsDone, AgentStop, EndTurn
  <2>2. run'[p].got = run[p].got
    BY <1>1, <2>1, ZenonT(40)
  <2> QED BY <2>2
<1>3. ASSUME NEW s \in Session, ApplyReturns(s)
      PROVE  Same \/ (graph[s].pc = "testing" /\ p = Head(graph[s].todo))
  <2>1. /\ graph[s].pc = "testing"
        /\ \/ run' = run
           \/ /\ run' = [run EXCEPT ![graph[s].by].got = "verification"]
              /\ graph[s].by = Head(graph[s].todo)
    BY <1>3 DEF ApplyReturns, Saw
  <2>2. ASSUME NEW q, run' = [run EXCEPT ![q].got = "verification"]
        PROVE  q = p \/ run'[p].got = run[p].got
    BY <1>1, <2>2, Zenon
  <2> QED BY <2>1, <2>2
<1>4. ASSUME NEW s \in Session, StreamBreaks(s) PROVE Same
  <2>1. PICK seen \in {run, Saw(s, "file_change")} :
            run' = [seen EXCEPT ![graph[s].by].st = "finishing"]
    BY <1>4 DEF StreamBreaks
  <2>2. Saw(s, "file_change") \in [Proposal -> Run]
    BY RunsAreTyped DEF Saw, FlowInv, FlowTypeOK
  <2>3. Saw(s, "file_change")[p].got \in {run[p].got, "file_change"}
    BY <1>0 DEF Saw, Run
  <2>4. seen \in [Proposal -> Run] /\ seen[p].got \in {run[p].got, "file_change"}
    BY <1>0, <2>2, <2>3
  <2>5. run'[p].got = seen[p].got
    BY <2>1, <2>4 DEF Run
  <2> QED BY <2>4, <2>5
<1>5. ASSUME NEW q \in Proposal, RunStep(q) \/ RunUnrecorded(q) PROVE Same
  <2>1. \/ run' = [run EXCEPT ![q].st = "running"]
        \/ run' = [run EXCEPT ![q].st = "finishing"]
        \/ run' = [run EXCEPT ![q] = NoRun]
    BY <1>5 DEF RunStep, RunStart, RunDenied, RunComplete, RunUnrecorded
  <2>2. run' = [run EXCEPT ![q] = NoRun] => run'[p].got \in {run[p].got, "nothing"}
    BY <1>1, Zenon
  <2>3. run' = [run EXCEPT ![q].st = "running"] => run'[p].got = run[p].got
    BY <1>1, Zenon
  <2>4. run' = [run EXCEPT ![q].st = "finishing"] => run'[p].got = run[p].got
    BY <1>1, ZenonT(40)
  <2> QED BY <2>1, <2>2, <2>3, <2>4
<1>6. ASSUME ResumeClaim PROVE Same
  <2>1. [NoRun EXCEPT !.st = "queued", !.by = req.by, !.ok = req.ok].got = "nothing"
    BY DEF NoRun
  <2> QED BY <1>0, <1>6, <2>1 DEF ResumeClaim
<1>7. ASSUME Down PROVE Same
  BY <1>7 DEF Down, NoRun
<1>8. ASSUME NEW s \in Session,
             \/ ChatStart(s)
             \/ \E q \in Proposal, text \in Content : AgentPreview(s, q, text)
             \/ \E calls \in Calls : AgentApply(s, calls)
             \/ \E q \in Proposal, ok \in BOOLEAN : ResumeCheck(s, q, ok)
      PROVE  Same
  BY <1>8 DEF ChatStart, AgentPreview, AgentApply, ResumeCheck
<1>9. ASSUME NEW q \in Proposal, ResumeOrphan(q) \/ SweepRow(q) \/ TimePasses(q) PROVE Same
  BY <1>9 DEF ResumeOrphan, SweepRow, TimePasses, flowVars
<1>10. ASSUME ResumeRefused \/ Restart \/ \E text \in FileState : Edit(text) PROVE Same
  BY <1>10 DEF ResumeRefused, Restart, Edit
<1> QED BY <1>2, <1>3, <1>4, <1>5, <1>6, <1>7, <1>8, <1>9, <1>10
        DEF Next, TurnStep, ApiStep, Crash, CrashBeforeWrite

LEMMA StepWrites == FlowInv /\ Next => WriteInv'
<1> SUFFICES ASSUME FlowInv, Next PROVE WriteInv'
  OBVIOUS
<1>0. /\ FlowTypeOK /\ TurnInv /\ ConsentInv /\ WriteInv
      /\ writes \in [Proposal -> Nat] /\ granted \subseteq granted'
  <2>1. granted \subseteq granted'
    BY OnlyClaimsAnswer DEF ResumeClaim
  <2> QED BY <2>1 DEF FlowInv, FlowTypeOK
<1>1. ASSUME NEW p \in Proposal, writes[p] # 0
      PROVE  /\ p \in granted' /\ p \in Ids(saved')
             /\ changes'[p] \in {"consumed", "absent"}
  BY <1>0, <1>1, StoreMoves DEF WriteInv
<1>2. \A p \in Proposal : writes[p] # 0 => writes[p] = 1
  BY <1>0 DEF WriteInv
<1>3. CASE ~ (\E s \in Session : ApplyApproved(s))
  <2>1. writes' = writes
    BY <1>3, WhoWrites
  <2>2. \A s \in Session : graph'[s].pc = "testing" => writes'[Head(graph'[s].todo)] # 0
    BY <1>0, <1>3, <2>1, WhoTests DEF WriteInv
  <2>3. \A p \in Proposal : run'[p].got = "verification" => writes'[p] # 0
    BY <1>0, <2>1, WhoVerifies DEF WriteInv
  <2> QED BY <1>1, <1>2, <2>1, <2>2, <2>3 DEF WriteInv
<1>4. ASSUME NEW s \in Session, ApplyApproved(s) PROVE WriteInv'
  <2> DEFINE p == Head(graph[s].todo)
  <2>1. /\ p \in Proposal /\ p \in granted /\ p \in Ids(saved)
        /\ changes'[p] = "consumed"
        /\ UNCHANGED <<run, granted, saved>>
        /\ \A t \in Session \ {s} : graph'[t] = graph[t] /\ graph[t].pc # "testing"
        /\ \/ writes' = [writes EXCEPT ![p] = 1]
           \/ writes' = writes /\ graph'[s].pc = "execute"
        /\ \/ graph'[s].pc = "testing" /\ graph'[s].todo = graph[s].todo
           \/ graph'[s].pc = "execute"
    BY <1>4, ApplyWritesOnce
  <2>2. graph'[s].pc = "testing" => p = Head(graph'[s].todo) /\ writes'[p] = 1
    BY <1>0, <2>1
  <2> HIDE DEF p
  <2>3. \A q \in Proposal : /\ writes[q] # 0 => writes'[q] = 1
                            /\ writes'[q] # 0 => writes'[q] = 1 /\ (writes[q] # 0 \/ q = p)
    BY <1>0, <1>2, <2>1
  <2>4. \A t \in Session : graph'[t].pc = "testing" => writes'[Head(graph'[t].todo)] # 0
    BY <2>1, <2>2
  <2>5. \A q \in Proposal : run'[q].got = "verification" => writes'[q] # 0
    BY <1>0, <2>1, <2>3 DEF WriteInv
  <2>6. \A q \in Proposal : writes'[q] # 0 =>
            /\ writes'[q] = 1 /\ q \in granted' /\ q \in Ids(saved')
            /\ changes'[q] \in {"consumed", "absent"}
    BY <1>1, <2>1, <2>3
  <2> QED BY <2>4, <2>5, <2>6 DEF WriteInv
<1> QED BY <1>3, <1>4

LEMMA StepTests == FlowInv /\ Next => TestInv'
<1> SUFFICES ASSUME FlowInv, Next PROVE TestInv'
  OBVIOUS
<1>0. /\ FlowTypeOK /\ TurnInv /\ ConsentInv /\ TestInv /\ edits \in Nat
      /\ \A p \in Proposal : patch[p] # None => patch'[p] = patch[p]
  BY FlowBounds, PreviewsStay DEF FlowInv, FlowTypeOK
<1>1. CASE ~ (\E s \in Session : ApplyApproved(s))
  <2>1. \A s \in Session : graph'[s].pc = "testing" =>
            graph[s].pc = "testing" /\ graph'[s].todo = graph[s].todo
    BY <1>0, <1>1, WhoTests
  <2>2. edits' = 0 => edits = 0 /\ file' = file
    BY <1>0, <1>1, WhoWrites
  <2>3. ASSUME NEW s \in Session, graph[s].pc = "testing"
        PROVE  patch'[Head(graph[s].todo)] = patch[Head(graph[s].todo)]
    <3>1. graph[s].todo # <<>>
      BY <1>0, <2>3 DEF TurnInv, TurnOK
    <3> QED BY <1>0, <3>1, HeadIsPreviewed, NoneAssumption
  <2> QED BY <1>0, <2>1, <2>2, <2>3 DEF TestInv, TestsSeeTheirWrite
<1>2. ASSUME NEW s \in Session, ApplyApproved(s) PROVE TestInv'
  <2>1. /\ UNCHANGED patch
        /\ \A t \in Session \ {s} : graph'[t] = graph[t] /\ graph[t].pc # "testing"
        /\ graph'[s].pc = "testing" => /\ file' = patch[Head(graph[s].todo)].after
                                       /\ graph'[s].todo = graph[s].todo
    BY <1>2, ApplyWritesOnce
  <2> QED BY <2>1 DEF TestInv, TestsSeeTheirWrite
<1> QED BY <1>1, <1>2

------------------------------------------------------------------------------
\* The invariant holds.

LEMMA InitEstablishesFlow == Init => FlowInv
<1> SUFFICES ASSUME Init PROVE FlowInv
  OBVIOUS
<1>1. StoreInv
  BY InitEstablishesInv DEF Init
<1>2. FlowTypeOK
  <2>1. Idle \in Turn /\ Empty \in Checkpoint /\ NoRun \in Run
    BY DEF Idle, Turn, Empty, Checkpoint, NoRun, Run
  <2>2. 0 \in 0..MaxCrashes /\ 0 \in 0..MaxEdits /\ 0 \in 0..MaxFaults
    BY FlowBounds
  <2> QED BY <2>1, <2>2 DEF Init, FlowTypeOK
<1>3. TurnInv
  BY RestIs, IdsOfShort DEF Init, TurnInv, TurnOK
<1>4. ConsentInv
  BY RestIs, IdsOfShort, NoneAssumption DEF Init, ConsentInv, TurnConsents, RunConsents, NoRun
<1>5. AnswerInv /\ HereInv
  BY DEF Init, StoreInit, AnswerInv, Answered, HereInv
<1>6. WriteInv /\ TestInv
  BY RestIs DEF Init, WriteInv, TestInv, TestsSeeTheirWrite, NoRun
<1>7. MemoryIsBacked /\ NoOrphan
  BY IdsOfShort DEF Init, StoreInit, MemoryIsBacked, NoOrphan
<1> QED BY <1>1, <1>2, <1>3, <1>4, <1>5, <1>6, <1>7 DEF FlowInv

LEMMA StepPreservesFlow == FlowInv /\ [Next]_vars => FlowInv'
<1> SUFFICES ASSUME FlowInv, [Next]_vars PROVE FlowInv'
  OBVIOUS
<1>1. StoreInv'
  BY StepIsStoreStep, StepPreservesInv DEF FlowInv
<1>2. CASE Next
  <2>1. FlowTypeOK'
    BY <1>2, StepIsTyped DEF FlowInv
  <2>2. Previewed \subseteq Previewed'
    BY <1>2, PreviewsStay DEF FlowInv, Previewed
  <2>3. TurnInv'
    BY <1>2, <2>2, TurnStaysOK DEF FlowInv
  <2>4. ConsentInv'
    BY <1>2, StepConsents DEF FlowInv
  <2> QED BY <1>1, <1>2, <2>1, <2>3, <2>4, StepAnswers, StepWrites, StepStaysHere, StepTests,
             StepIsBacked, StepOrphansNobody DEF FlowInv
<1>3. CASE UNCHANGED vars
  <2> USE <1>3 DEF vars, storeVars, flowVars, countVars, historyVars
  <2>1. FlowTypeOK'
    BY DEF FlowInv, FlowTypeOK
  <2>2. TurnInv'
    BY DEF FlowInv, TurnInv, TurnOK, Previewed
  <2>3. ConsentInv'
    BY DEF FlowInv, ConsentInv, TurnConsents, RunConsents
  <2>4. AnswerInv' /\ HereInv'
    BY DEF FlowInv, AnswerInv, Answered, HereInv
  <2>5. WriteInv'
    BY DEF FlowInv, WriteInv
  <2>6. TestInv'
    BY DEF FlowInv, TestInv, TestsSeeTheirWrite
  <2>7. MemoryIsBacked' /\ NoOrphan'
    BY DEF FlowInv, MemoryIsBacked, NoOrphan
  <2> QED BY <1>1, <2>1, <2>2, <2>3, <2>4, <2>5, <2>6, <2>7 DEF FlowInv
<1> QED BY <1>2, <1>3

\* The inductive invariant of the flow.
THEOREM FlowInvariance == Spec => []FlowInv
  BY InitEstablishesFlow, StepPreservesFlow, PTL DEF Spec

\* The flow uses the store only through its transactions, so what holds of
\* them holds here: of every session, run, sweep and crash together.
THEOREM FlowUsesStore == Spec => StoreSpec
<1>1. Init => StoreInit
  BY DEF Init
<1>2. FlowInv /\ [Next]_vars => [StoreNext]_storeVars
  BY StepIsStoreStep DEF FlowInv
<1> QED BY <1>1, <1>2, FlowInvariance, PTL DEF Spec, StoreSpec

\* Every variable of the flow keeps its type.
THEOREM FlowTyped == Spec => []TypeOK
<1>1. FlowInv => TypeOK
  BY DEF FlowInv, StoreInv, TypeOK
<1> QED BY <1>1, FlowInvariance, PTL

\* Replays, crashes, duplicate calls and repeated requests never write a change
\* twice, and never one that no human approved.
THEOREM ChangesAreWrittenOnce == Spec => []WrittenOnceAndOnlyIfApproved
<1>1. FlowInv => WrittenOnceAndOnlyIfApproved
  BY DEF FlowInv, WriteInv, FlowTypeOK, WrittenOnceAndOnlyIfApproved
<1> QED BY <1>1, FlowInvariance, PTL

\* A change that was consumed, evicted or expired does not linger in memory.
THEOREM MemoryStaysBacked == Spec => []MemoryIsBacked
<1>1. FlowInv => MemoryIsBacked
  BY DEF FlowInv
<1> QED BY <1>1, FlowInvariance, PTL

\* An outcome is applying only while a run or a sweep works on it, however often
\* the engine crashes, unless the store failed to take the outcome.
THEOREM NobodyIsOrphaned == Spec => []NoOrphan
<1>1. FlowInv => NoOrphan
  BY DEF FlowInv
<1> QED BY <1>1, FlowInvariance, PTL

\* Tests run on what was written for them.
THEOREM TestsSeeWrites == Spec => []TestsSeeTheirWrite
<1>1. FlowInv => TestsSeeTheirWrite
  BY DEF FlowInv, TestInv
<1> QED BY <1>1, FlowInvariance, PTL

\* Every write of the engine takes the file from what an approved preview showed
\* to what its diff said.
THEOREM UpdatesAreNotLost == Spec => NoLostUpdate
<1> DEFINE Honest ==
        edits' = edits /\ file' # file =>
            \E p \in granted : /\ writes'[p] = writes[p] + 1
                               /\ file = patch[p].before
                               /\ file' = patch[p].after
<1>1. FlowInv /\ [Next]_vars => [Honest]_vars
  <2> SUFFICES ASSUME FlowInv, Next, edits' = edits, file' # file
               PROVE  \E p \in granted : /\ writes'[p] = writes[p] + 1
                                         /\ file = patch[p].before
                                         /\ file' = patch[p].after
    OBVIOUS
  <2>1. edits \in Nat /\ writes \in [Proposal -> Nat]
    BY FlowBounds DEF FlowInv, FlowTypeOK
  <2>2. PICK s \in Session : ApplyApproved(s)
    BY <2>1, WhoWrites
  <2>3. PICK p : p = Head(graph[s].todo)
    OBVIOUS
  <2>4. /\ p \in granted /\ p \in Proposal /\ writes[p] = 0
        /\ TargetAsPreviewed(p) /\ file' = patch[p].after /\ writes' = [writes EXCEPT ![p] = 1]
    BY <2>2, <2>3, ApplyWritesOnce
  <2> QED BY <2>1, <2>4 DEF TargetAsPreviewed
<1> QED BY <1>1, FlowInvariance, PTL DEF Spec, NoLostUpdate

------------------------------------------------------------------------------
\* The flow implements the promise.

\* The mapping, in terms of the invariant: nobody is granted and denied, and
\* what has an outcome was answered.
LEMMA MappingIs ==
    ASSUME FlowInv, NEW p \in Proposal
    PROVE  /\ AnswerOf(p) = IF p \in granted THEN "granted"
                            ELSE IF p \in denied THEN "denied" ELSE "open"
           /\ outcomes[p] \in Terminal => VerdictOf(p) = outcomes[p]
           /\ outcomes[p] = "applying" => VerdictOf(p) = "none"
           /\ outcomes[p] = "absent" =>
                VerdictOf(p) = IF p \in Answered THEN "forgotten" ELSE "none"
           /\ outcomes[p] \in Terminal \cup {"applying", "absent"}
<1>1. outcomes[p] \in Terminal \cup {"applying", "absent"}
  BY DEF FlowInv, StoreInv, StoreTypeOK, OutcomeState
<1>2. AnswerOf(p) = IF p \in granted THEN "granted"
                    ELSE IF p \in denied THEN "denied" ELSE "open"
  BY DEF FlowInv, AnswerInv, AnswerOf
<1>3. "applying" \notin Terminal /\ "absent" \notin Terminal
  BY DEF Terminal
<1> QED BY <1>1, <1>2, <1>3 DEF VerdictOf, Answered

\* An outcome that was terminal is kept or forgotten; that is all a step does to
\* the verdicts of the changes that it neither claims nor completes.
LEMMA OthersAreForgottenOnly ==
    ASSUME FlowInv, FlowInv', NEW p \in Proposal, AnswerOf(p)' = AnswerOf(p),
           outcomes[p] \in Terminal => outcomes'[p] \in {outcomes[p], "absent"},
           outcomes[p] \notin Terminal => outcomes'[p] = outcomes[p]
    PROVE  \/ VerdictOf(p)' = VerdictOf(p)
           \/ VerdictOf(p)' = "forgotten" /\ VerdictOf(p) \in Promise!Verdicts
<1>1. Terminal = Promise!Verdicts
  BY DEF Terminal, Promise!Verdicts
<1>2. CASE outcomes'[p] = outcomes[p]
  BY <1>2 DEF VerdictOf
<1>3. CASE outcomes[p] \in Terminal /\ outcomes'[p] = "absent"
  <2>1. AnswerOf(p)' # "open"
    BY <1>3, MappingIs DEF FlowInv, AnswerInv, Answered, Terminal
  <2> QED BY <1>1, <1>3, <2>1 DEF VerdictOf, Terminal
<1> QED BY <1>2, <1>3

\* What the flow shows of the abstract specification.
Answers == [p \in Proposal |-> AnswerOf(p)]
Written == [p \in Proposal |-> writes[p] # 0]
VerdictsGiven == [p \in Proposal |-> VerdictOf(p)]

\* The verdicts always have their type.
VerdictsTyped == VerdictsGiven \in [Proposal -> Promise!Verdicts \cup {"none", "forgotten"}]

LEMMA VerdictsAreTyped == FlowInv => VerdictsTyped
<1> SUFFICES ASSUME FlowInv PROVE VerdictsTyped
  OBVIOUS
<1>1. ASSUME NEW p \in Proposal PROVE VerdictOf(p) \in Promise!Verdicts \cup {"none", "forgotten"}
  BY MappingIs DEF Terminal, Promise!Verdicts
<1> QED BY <1>1 DEF VerdictsTyped, VerdictsGiven

\* What a completed outcome may claim: rejected was denied, failed was granted,
\* and applied was written.
LEMMA VerdictIsHonest ==
    ASSUME FlowInv, NEW p \in Proposal, run[p].st # "none"
    PROVE  /\ AnswerOf(p) # "open"
           /\ RunResult(p) \in Promise!Verdicts
           /\ RunResult(p) = "rejected" => AnswerOf(p) = "denied"
           /\ RunResult(p) = "failed" => AnswerOf(p) = "granted"
           /\ RunResult(p) = "applied" => writes[p] # 0
<1>1. RunConsents(p) /\ granted \cap denied = {} /\ run[p] \in Run
      /\ (run[p].got = "verification" => writes[p] # 0)
  BY DEF FlowInv, ConsentInv, AnswerInv, WriteInv, FlowTypeOK
<1>2. AnswerOf(p) = IF run[p].ok THEN "granted" ELSE "denied"
  BY <1>1, MappingIs DEF RunConsents, Run
<1>3. RunResult(p) = IF ~ run[p].ok THEN "rejected"
                     ELSE IF run[p].got = "nothing" THEN "failed"
                     ELSE IF run[p].got = "file_change" THEN "applied_recovered" ELSE "applied"
  BY <1>1 DEF RunResult, Run
<1>4. /\ run[p].ok \in BOOLEAN
      /\ run[p].got \in {"nothing", "file_change", "verification"}
  BY <1>1 DEF Run
<1>5. RunResult(p) \in Promise!Verdicts
  BY <1>3 DEF Promise!Verdicts
<1> QED BY <1>1, <1>2, <1>3, <1>4, <1>5

LEMMA ClaimDecides ==
    ASSUME FlowInv, FlowInv', ResumeClaim
    PROVE  \E p \in Proposal, yes \in BOOLEAN : Promise!Decide(p, yes)
<1>11. PICK id : id = req.id
  OBVIOUS
<1>0. /\ id \in Proposal /\ id \notin Answered /\ req.ok \in BOOLEAN
      /\ req.by \in Session /\ ClaimOutcome(id, Gen, req.by)
      /\ StoreInv /\ Gen \in Generation
  BY <1>11, ClaimConsents, GenAssumption DEF ResumeClaim, FlowInv, FlowTypeOK
<1>1. /\ IF req.ok THEN granted' = granted \cup {id} /\ denied' = denied
                   ELSE denied' = denied \cup {id} /\ granted' = granted
      /\ writes' = writes
  BY <1>11 DEF ResumeClaim
<1>2. outcomes[id] = "absent"
  BY <1>0 DEF FlowInv, AnswerInv
<1>3. /\ outcomes'[id] = "applying"
      /\ \A q \in Proposal \ {id} :
            /\ outcomes[q] \in Terminal => outcomes'[q] \in {outcomes[q], "absent"}
            /\ outcomes[q] \notin Terminal => outcomes'[q] = outcomes[q]
  BY <1>0, <1>2, ClaimOpens
<1>4. AnswerOf(id) = "open" /\ AnswerOf(id)' = IF req.ok THEN "granted" ELSE "denied"
  BY <1>0, <1>1 DEF AnswerOf, Answered
<1>5. \A q \in Proposal \ {id} : AnswerOf(q)' = AnswerOf(q)
  BY <1>1 DEF AnswerOf
<1>6. VerdictOf(id) = "none" /\ VerdictOf(id)' = "none"
  BY <1>2, <1>3, <1>4 DEF VerdictOf, Terminal
<1>7. \A q \in Proposal : \/ VerdictOf(q)' = VerdictOf(q)
                          \/ VerdictOf(q)' = "forgotten" /\ VerdictOf(q) \in Promise!Verdicts
  BY <1>3, <1>5, <1>6, OthersAreForgottenOnly
<1>8. /\ Answers[id] = "open"
      /\ Answers' = [Answers EXCEPT ![id] = IF req.ok THEN "granted" ELSE "denied"]
      /\ Written' = Written
  BY <1>0, <1>1, <1>4, <1>5 DEF Answers, Written
<1>9. VerdictsTyped'
  BY VerdictsAreTyped, PTL
<1>10. Promise!Decide(id, req.ok)
  BY <1>7, <1>8, <1>9 DEF Promise!Decide, Promise!Forgetting, Answers, Written, VerdictsGiven,
                                 VerdictsTyped
<1> QED BY <1>0, <1>10

\* apply_approved: a write, or nothing that the promise speaks of.
LEMMA ApplyKeepsPromise ==
    ASSUME FlowInv, NEW s \in Session, ApplyApproved(s)
    PROVE  \/ \E p \in Proposal : Promise!Write(p)
           \/ Answers' = Answers /\ Written' = Written /\ VerdictsGiven' = VerdictsGiven
<1>1. PICK p : p = Head(graph[s].todo)
  OBVIOUS
<1>2. /\ p \in Proposal /\ p \in granted /\ writes[p] = 0
      /\ UNCHANGED <<granted, denied, outcomes>>
      /\ writes' = writes \/ writes' = [writes EXCEPT ![p] = 1]
  BY <1>1, ApplyWritesOnce
<1>3. writes \in [Proposal -> Nat]
  BY DEF FlowInv, FlowTypeOK
<1>4. \A q : AnswerOf(q)' = AnswerOf(q) /\ VerdictOf(q)' = VerdictOf(q)
  BY <1>2 DEF AnswerOf, VerdictOf
<1>5. Answers' = Answers /\ VerdictsGiven' = VerdictsGiven
  BY <1>4 DEF Answers, VerdictsGiven
<1>6. CASE writes' = writes
  BY <1>5, <1>6 DEF Written
<1>7. CASE writes' = [writes EXCEPT ![p] = 1]
  <2>1. Answers[p] = "granted" /\ ~ Written[p]
    BY <1>2, MappingIs DEF Answers, Written
  <2>2. Written' = [Written EXCEPT ![p] = TRUE]
    <3>1. \A q \in Proposal : (writes'[q] # 0) <=> (q = p \/ writes[q] # 0)
      BY <1>2, <1>3, <1>7
    <3>2. \A q \in Proposal : Written'[q] = IF q = p THEN TRUE ELSE Written[q]
      BY <3>1, Zenon DEF Written
    <3>3. /\ Written = [q \in Proposal |-> Written[q]]
          /\ Written' = [q \in Proposal |-> Written'[q]]
      BY Zenon DEF Written
    <3> QED BY <1>2, <3>2, <3>3, Zenon
  <2>3. Promise!Write(p)
    BY <1>5, <2>1, <2>2 DEF Promise!Write, Answers, Written, VerdictsGiven
  <2> QED BY <1>2, <2>3
<1> QED BY <1>2, <1>6, <1>7

\* A completed outcome is a verdict on its change.
LEMMA CompletionConcludes ==
    ASSUME FlowInv, FlowInv', UNCHANGED <<granted, denied, writes>>,
           NEW p \in Proposal, NEW state \in Terminal, CompleteByApproval(p, Gen, state),
           state = "rejected" => AnswerOf(p) = "denied",
           state = "failed" => AnswerOf(p) = "granted",
           state = "applied" => writes[p] # 0
    PROVE  Promise!Conclude(p)
<1>1. /\ outcomes[p] = "applying" /\ outcomes'[p] = state
      /\ \A q \in Proposal \ {p} :
            /\ outcomes[q] \in Terminal => outcomes'[q] \in {outcomes[q], "absent"}
            /\ outcomes[q] \notin Terminal => outcomes'[q] = outcomes[q]
  BY CompletionSettles, GenAssumption DEF FlowInv, CompleteByApproval
<1>2. Answers' = Answers /\ Written' = Written /\ \A q : AnswerOf(q)' = AnswerOf(q)
  BY DEF Answers, Written, AnswerOf
<1>3. p \in Answered
  BY <1>1 DEF FlowInv, AnswerInv
<1>4. AnswerOf(p) # "open" /\ VerdictOf(p) = "none" /\ VerdictOf(p)' = state
  BY <1>1, <1>3, MappingIs DEF VerdictOf, Answered
<1>5. \A q \in Proposal \ {p} :
        \/ VerdictOf(q)' = VerdictOf(q)
        \/ VerdictOf(q)' = "forgotten" /\ VerdictOf(q) \in Promise!Verdicts
  BY <1>1, <1>2, OthersAreForgottenOnly
<1>6. VerdictsTyped'
  BY VerdictsAreTyped, PTL
<1>7. state \in Promise!Verdicts
  BY DEF Terminal, Promise!Verdicts
<1>8. \A q \in Proposal :
        \/ VerdictsGiven'[q] = [VerdictsGiven EXCEPT ![p] = state][q]
        \/ VerdictsGiven'[q] = "forgotten" /\ VerdictsGiven[q] \in Promise!Verdicts
  BY <1>4, <1>5 DEF VerdictsGiven
<1>9. /\ Answers[p] # "open" /\ VerdictsGiven[p] = "none"
      /\ state = "rejected" => Answers[p] = "denied"
      /\ state = "failed" => Answers[p] = "granted"
      /\ state = "applied" => Written[p]
  BY <1>4 DEF Answers, Written, VerdictsGiven
<1> QED BY <1>2, <1>6, <1>7, <1>8, <1>9
        DEF Promise!Conclude, Promise!Forgetting, Answers, Written, VerdictsGiven, VerdictsTyped

\* Every step of the flow is one of the promise or none.
LEMMA StepKeepsPromise ==
    FlowInv /\ FlowInv' /\ [Next]_vars => [Promise!PromiseNext]_(Promise!promiseVars)
<1> SUFFICES ASSUME FlowInv, FlowInv', [Next]_vars
             PROVE  [Promise!PromiseNext]_(Promise!promiseVars)
  OBVIOUS
<1> DEFINE Still == Answers' = Answers /\ Written' = Written /\ VerdictsGiven' = VerdictsGiven
<1>1. ASSUME UNCHANGED <<outcomes, granted, denied, writes>> PROVE Still
  BY <1>1 DEF Answers, Written, VerdictsGiven, AnswerOf, VerdictOf
<1>2. Still => UNCHANGED Promise!promiseVars
  BY DEF Answers, Written, VerdictsGiven, Promise!promiseVars
<1>3. CASE ResumeClaim
  BY <1>3, ClaimDecides DEF Promise!PromiseNext
<1>4. CASE \E s \in Session : ApplyApproved(s)
  BY <1>2, <1>4, ApplyKeepsPromise DEF Promise!PromiseNext
<1>5. ASSUME NEW p \in Proposal, RunComplete(p) PROVE Promise!Conclude(p) \/ Still
  <2>1. UNCHANGED <<granted, denied, writes>> /\ run[p].st # "none"
    BY <1>5 DEF RunComplete, historyVars
  <2>2. CASE CompleteOutcome(p, Gen, run[p].by, RunResult(p))
    BY <2>1, <2>2, CompletionConcludes, VerdictIsHonest, RunResultIsTerminal
       DEF CompleteOutcome, FlowInv
  <2>3. CASE UNCHANGED storeVars
    BY <1>1, <2>1, <2>3 DEF storeVars
  <2> QED BY <1>5, <2>2, <2>3 DEF RunComplete
<1>6. ASSUME NEW p \in Proposal, SweepRow(p) PROVE Promise!Conclude(p)
  <2>1. UNCHANGED <<granted, denied, writes>>
    BY <1>6 DEF SweepRow, historyVars
  <2>2. \E state \in {"applied_recovered", "recovery_required"} : CompleteByApproval(p, Gen, state)
    BY <1>6 DEF SweepRow, Reconcile
  <2> QED BY <2>1, <2>2, CompletionConcludes DEF Terminal
<1>7. CASE UNCHANGED vars
  BY <1>1, <1>2, <1>7 DEF vars, storeVars, historyVars
<1> QED BY <1>1, <1>2, <1>3, <1>4, <1>5, <1>6, <1>7, QuietSteps DEF Promise!PromiseNext

\* What the user relies on, and all of it: one answer per change, at most one
\* write of what was approved, and a verdict that claims no more than happened
\* and is never revised.
THEOREM PromiseIsKept == Spec => ImplementsPromise
<1>1. Init => Promise!PromiseInit
  BY DEF Init, StoreInit, Promise!PromiseInit, AnswerOf, VerdictOf, Terminal
<1> QED BY <1>1, StepKeepsPromise, FlowInvariance, PTL DEF Spec, ImplementsPromise, Promise!PromiseSpec

------------------------------------------------------------------------------
\* When changes are refused.  The invariant that takes a change from its preview to
\* its write, as long as nothing disturbs it.

Distinct(order) == \A i, j \in DOMAIN order : order[i] = order[j] => i = j

\* A preview is overtaken once the file holds something else than it shows.
OvertakenInv == \A p \in Proposal : patch[p] # None /\ file # patch[p].before => p \in overtaken

\* Rows and memory hold a change once; what is remembered next is not saved yet.
OrderInv ==
    /\ Distinct(saved) /\ Distinct(mem)
    /\ Ids(mem) \subseteq Ids(saved) /\ Ids(saved) \subseteq Previewed
    /\ \A s \in Session : graph[s].pc = "remember" =>
        /\ Head(graph[s].todo) \notin Ids(saved)
        /\ \A t \in Session \ {s} : graph[t].pc # "remember"

\* With one apply call in a message a turn either replays it, its answer in the
\* checkpoint, or reaches it for the first time and executes nothing.
Replays(s) ==
    /\ graph[s].by \in Proposal /\ thread[s].ask = graph[s].by
    /\ thread[s].calls = <<graph[s].by>> /\ thread[s].answers # <<>>
Starts(s) ==
    /\ thread[s].ask = None /\ thread[s].answers = <<>>
    /\ \E p \in Proposal : thread[s].calls = <<p>>
    /\ graph[s].pc # "testing"
    /\ graph[s].pc = "execute" => graph[s].todo = <<>>

OneCall(s) ==
    /\ thread[s].ask # None => thread[s].calls = <<thread[s].ask>>
    /\ graph[s].by = None <=> graph[s].pc = "idle"
    /\ graph[s].pc \in {"agent", "remember"} => thread[s].ask = None
    /\ graph[s].pc \in {"tools", "prepare", "execute", "testing"} => Replays(s) \/ Starts(s)
    /\ graph[s].pc = "tools" => graph[s].todo = thread[s].calls /\ graph[s].ready = <<>>
    /\ graph[s].pc = "prepare" => graph[s].todo = <<>> /\ graph[s].ready \in {<<>>, thread[s].calls}
    /\ graph[s].pc \in {"execute", "testing"} => graph[s].todo \in {<<>>, <<graph[s].by>>}
RequestFits == req # None => thread[req.by].ask = req.id /\ run[req.id].st = "none"
OneCallInv == MaxCalls = 1 => (\A s \in Session : OneCall(s)) /\ RequestFits

\* Without faults a run's outcome is undecided until it ends, and no sweep meets a run.
RunsApply ==
    faults = 0 =>
        /\ \A p \in Proposal : run[p].st # "none" => outcomes[p] = "applying"
        /\ ~ up \/ sweep # {} => \A p \in Proposal : run[p].st = "none"

\* A change that was saved stays where a run will find it until it is consumed.
Kept ==
    \A p \in Ids(saved) \ lapsed :
        /\ changes[p] \in {"pending", "claimed", "consumed"}
        /\ changes[p] # "consumed" => p \in Ids(mem)

\* A checkpoint has no answer before its run starts, and then that of the run.
AnswersFit(s) ==
    thread[s].ask # None =>
        IF graph[s].by = None THEN thread[s].answers = <<>>
        ELSE thread[s].answers = <<[id |-> thread[s].ask, ok |-> run[thread[s].ask].ok]>>

\* The turn on s is about to apply p, or does.
OnItsWay(p, s) ==
    /\ thread[s].ask = p /\ graph[s].by = p
    /\ graph[s].pc \in {"tools", "prepare", "execute", "testing"}
    /\ graph[s].pc = "prepare" => graph[s].ready = <<p>>
    /\ graph[s].pc \in {"execute", "testing"} => graph[s].todo = <<p>>
    /\ graph[s].pc # "testing" => changes[p] = "claimed"

Due(p) == run[p].ok /\ run[p].got = "nothing" /\ p \notin lapsed \cup overtaken
Serves(p) ==
    Due(p) =>
        /\ run[p].st # "finishing"
        /\ run[p].st = "queued" => thread[run[p].by].ask = p /\ changes[p] = "claimed"
        /\ run[p].st = "running" => OnItsWay(p, run[p].by)

ServesInv ==
    Undisturbed =>
        /\ up /\ sweep = {} /\ Kept /\ FailedHasReason
        /\ \A s \in Session : AnswersFit(s)
        /\ \A p \in Proposal : Serves(p)

RefusalInv == OvertakenInv /\ OrderInv /\ OneCallInv /\ RunsApply /\ ServesInv

------------------------------------------------------------------------------
\* Orders without repetition.

LEMMA AppendIsDistinct ==
    ASSUME NEW S, NEW order \in Seq(S), NEW p \in S, Distinct(order), p \notin Ids(order)
    PROVE  Distinct(Append(order, p))
<1>1. /\ DOMAIN order = 1..Len(order) /\ Len(order) \in Nat
      /\ DOMAIN Append(order, p) = 1..(Len(order) + 1)
      /\ \A i \in 1..Len(order) : Append(order, p)[i] = order[i]
      /\ Append(order, p)[Len(order) + 1] = p
  OBVIOUS
<1>2. \A i \in 1..Len(order) : order[i] # p
  BY <1>1 DEF Ids
<1> QED BY <1>1, <1>2 DEF Distinct

\* What is chosen from distinct elements is distinct, and is all there is at the
\* given positions.
LEMMA ChosenIsDistinct ==
    ASSUME NEW T, NEW order \in Seq(T), Distinct(order), NEW at, at \subseteq DOMAIN order
    PROVE  /\ Distinct(Chosen(order, at))
           /\ Ids(Chosen(order, at)) = {order[k] : k \in at}
<1> DEFINE Good(q, n) == /\ q \in Seq(T) /\ Distinct(q)
                         /\ Ids(q) = {order[k] : k \in at \cap 1..n}
           Bad(f) == {n \in 0..Len(order) : ~ Good(f[n], n)}
<1>1. Len(order) \in Nat /\ DOMAIN order = 1..Len(order) /\ Len(order) \in 0..Len(order)
  OBVIOUS
<1>2. \E f : UpTo(order, at, f, Len(order))
  BY <1>1, UpToExists
<1>3. PICK f : UpTo(order, at, f, Len(order)) /\ Chosen(order, at) = f[Len(order)]
  BY <1>2 DEF Chosen, UpTo
<1>4. f[0] = <<>>
  BY <1>1, <1>3 DEF UpTo
<1>5. \A n \in 1..Len(order) :
        f[n] = IF n \in at THEN Append(f[n - 1], order[n]) ELSE f[n - 1]
  <2> TAKE n \in 1..Len(order)
  <2>1. n \in 0..Len(order) /\ n # 0
    BY <1>1
  <2> QED BY <1>3, <2>1, Zenon DEF UpTo
<1>6. Good(<<>>, 0)
  BY DEF Ids, Distinct
<1>7. ASSUME NEW q, NEW n \in 1..Len(order), Good(q, n - 1)
      PROVE  Good(IF n \in at THEN Append(q, order[n]) ELSE q, n)
  <2>1. at \cap 1..n = (at \cap 1..(n - 1)) \cup (at \cap {n})
    BY <1>1
  <2>2. CASE n \in at
    <3>1. order[n] \notin Ids(q)
      <4>1. \A k \in at \cap 1..(n - 1) : order[k] # order[n]
        BY <1>1 DEF Distinct
      <4> QED BY <1>7, <4>1
    <3>2. order[n] \in T
      BY <1>1
    <3>3. /\ Append(q, order[n]) \in Seq(T) /\ Distinct(Append(q, order[n]))
          /\ Ids(Append(q, order[n])) = Ids(q) \cup {order[n]}
      BY <1>7, <3>1, <3>2, AppendIds, AppendIsDistinct
    <3> QED BY <1>7, <2>1, <2>2, <3>3
  <2>3. CASE n \notin at
    BY <1>7, <2>1, <2>3
  <2> QED BY <2>2, <2>3
<1> HIDE DEF Good
<1>8. Bad(f) = {}
  <2> SUFFICES ASSUME Bad(f) # {} PROVE FALSE
    OBVIOUS
  <2>1. Bad(f) \subseteq Nat
    BY <1>1
  <2>2. PICK n \in Bad(f) : \A m \in Bad(f) : n <= m
    BY <2>1, FirstPosition
  <2>3. n \in 1..Len(order) /\ n - 1 \in 0..Len(order) /\ ~ (n <= n - 1)
    BY <1>1, <1>4, <1>6, <2>2
  <2>4. Good(f[n - 1], n - 1)
    BY <2>2, <2>3
  <2>5. Good(f[n], n)
    BY <1>5, <1>7, <2>3, <2>4
  <2> QED BY <2>2, <2>5
<1>9. Good(f[Len(order)], Len(order))
  BY <1>1, <1>8
<1>10. at \cap 1..Len(order) = at
  BY <1>1
<1> QED BY <1>3, <1>9, <1>10 DEF Good

LEMMA WithoutIsDistinct ==
    ASSUME NEW S, NEW order \in Seq(S), Distinct(order), NEW gone
    PROVE  /\ Distinct(Without(order, gone))
           /\ Ids(Without(order, gone)) = Ids(order) \ gone
<1> DEFINE at == {i \in DOMAIN order : order[i] \notin gone}
<1>1. Without(order, gone) = Chosen(order, at) /\ at \subseteq DOMAIN order
  BY DEF Without
<1>2. {order[k] : k \in at} = Ids(order) \ gone
  BY DEF Ids
<1> HIDE DEF at
<1> QED BY <1>1, <1>2, ChosenIsDistinct

\* Choosing from one element or from none.
LEMMA ChosenFromShort ==
    ASSUME NEW p, NEW at
    PROVE  /\ Chosen(<<>>, at) = <<>>
           /\ Chosen(<<p>>, at) = IF 1 \in at THEN <<p>> ELSE <<>>
<1>1. ASSUME NEW order \in {<<>>, <<p>>}
      PROVE  \E f : UpTo(order, at, f, Len(order)) /\ Chosen(order, at) = f[Len(order)]
  <2>1. \E f : UpTo(order, at, f, Len(order))
    BY <1>1, UpToExists
  <2> QED BY <2>1 DEF Chosen, UpTo
<1>2. Chosen(<<>>, at) = <<>>
  <2>1. PICK f : UpTo(<<>>, at, f, Len(<<>>)) /\ Chosen(<<>>, at) = f[Len(<<>>)]
    BY <1>1
  <2> QED BY <2>1 DEF UpTo
<1>3. Chosen(<<p>>, at) = IF 1 \in at THEN <<p>> ELSE <<>>
  <2>1. PICK f : UpTo(<<p>>, at, f, Len(<<p>>)) /\ Chosen(<<p>>, at) = f[Len(<<p>>)]
    BY <1>1
  <2>2. Len(<<p>>) = 1 /\ 0 \in 0..1 /\ 1 \in 0..1 /\ 1 # 0 /\ <<p>>[1] = p
    OBVIOUS
  <2>3. f[0] = <<>> /\ f[1] = IF 1 \in at THEN Append(f[1 - 1], <<p>>[1]) ELSE f[1 - 1]
    BY <2>1, <2>2 DEF UpTo
  <2>4. 1 - 1 = 0 /\ Append(<<>>, p) = <<p>>
    OBVIOUS
  <2>5. f[1] = IF 1 \in at THEN <<p>> ELSE <<>>
    BY <2>2, <2>3, <2>4
  <2> QED BY <2>1, <2>2, <2>5
<1> QED BY <1>2, <1>3

\* A finite set has room for one more than an order that lacks one of its elements.
LEMMA DistinctIsShort ==
    ASSUME NEW S, IsFiniteSet(S), NEW order \in Seq(S), Distinct(order),
           NEW x \in S, x \notin Ids(order)
    PROVE  Len(order) < Cardinality(S)
<1>1. DOMAIN order = 1..Len(order) /\ Len(order) \in Nat
  OBVIOUS
<1>2. order \in Injection(1..Len(order), S \ {x})
  <2>1. \A i \in 1..Len(order) : order[i] \in S \ {x}
    BY <1>1 DEF Ids
  <2>2. order = [i \in 1..Len(order) |-> order[i]]
    BY <1>1
  <2>3. order \in [1..Len(order) -> S \ {x}]
    BY <2>1, <2>2
  <2>4. \A i, j \in 1..Len(order) : order[i] = order[j] => i = j
    BY <1>1 DEF Distinct
  <2> QED BY <2>3, <2>4 DEF Injection, IsInjective
<1>3. IsFiniteSet(S \ {x}) /\ Cardinality(S \ {x}) = Cardinality(S) - 1
  BY FS_RemoveElement
<1>4. IsFiniteSet(1..Len(order)) /\ Cardinality(1..Len(order)) = Len(order)
  BY <1>1, FS_Interval
<1>5. Cardinality(1..Len(order)) <= Cardinality(S \ {x})
  BY <1>2, <1>3, FS_Injection
<1>6. Cardinality(S) \in Nat
  BY FS_CardinalityType
<1> QED BY <1>1, <1>3, <1>4, <1>5, <1>6

\* With room for every proposal nothing overflows.
LEMMA NothingOverflows ==
    ASSUME IsFiniteSet(Proposal), Cardinality(Proposal) <= MaxPending,
           NEW order \in Seq(Proposal), Distinct(order), NEW rows, rows \subseteq Proposal
    PROVE  Overflow(rows, order, MaxPending) = {}
<1> SUFFICES ASSUME NEW q \in rows, Cardinality(rows \cap Newer(order, q)) >= MaxPending
             PROVE  FALSE
  BY DEF Overflow
<1>1. q \notin Newer(order, q)
  BY DEF Newer, Distinct
<1>2. rows \cap Newer(order, q) \subseteq Proposal \ {q}
  BY <1>1
<1>3. /\ IsFiniteSet(Proposal \ {q})
      /\ Cardinality(Proposal \ {q}) = Cardinality(Proposal) - 1
  BY FS_RemoveElement
<1>4. Cardinality(rows \cap Newer(order, q)) <= Cardinality(Proposal \ {q})
  BY <1>2, <1>3, FS_Subset
<1>5. Cardinality(Proposal) \in Nat /\ Cardinality(rows \cap Newer(order, q)) \in Nat
  BY <1>2, <1>3, FS_Subset, FS_CardinalityType
<1> QED BY <1>3, <1>4, <1>5, MaxPendingAssumption

------------------------------------------------------------------------------
\* What the steps of a turn do to the turn, its checkpoint and its run.

OnlyTurn(s) == \A t \in Session \ {s} : graph'[t] = graph[t] /\ thread'[t] = thread[t]

\* The turn on s goes on, its checkpoint and all runs stay.
TurnGoesOn(s) ==
    /\ OnlyTurn(s) /\ graph'[s].by = graph[s].by
    /\ thread' = thread /\ run' = run

\* The turn on s ends, and its run has still to record its outcome.
TurnEnds(s) ==
    /\ OnlyTurn(s) /\ graph'[s] = Idle
    /\ \A q \in Proposal : q # graph[s].by => run'[q] = run[q]
    /\ \A q \in Proposal : q = graph[s].by =>
        /\ run'[q].st = "finishing" /\ run'[q].by = run[q].by /\ run'[q].ok = run[q].ok
        /\ run'[q].got \in {run[q].got, "file_change"}

Blank(s) == thread'[s].calls = <<>> /\ thread'[s].answers = <<>> /\ thread'[s].ask = None

LEMMA EndingEffects ==
    ASSUME FlowTypeOK, NEW s \in Session, EndTurn(s),
           \A t \in Session \ {s} : thread'[t] = thread[t]
    PROVE  TurnEnds(s)
<1>0. graph \in [Session -> Turn] /\ run \in [Proposal -> Run]
  BY DEF FlowTypeOK
<1>1. OnlyTurn(s) /\ graph'[s] = Idle
  BY <1>0 DEF EndTurn, OnlyTurn
<1>2. CASE graph[s].by \in Proposal
  <2>1. run' = [run EXCEPT ![graph[s].by].st = "finishing"]
    BY <1>2 DEF EndTurn
  <2> QED BY <1>0, <1>1, <1>2, <2>1 DEF TurnEnds, Run
<1>3. CASE graph[s].by \notin Proposal
  BY <1>1, <1>3 DEF EndTurn, TurnEnds
<1> QED BY <1>2, <1>3

LEMMA AgentEffects ==
    ASSUME FlowTypeOK, NEW s \in Session
    PROVE  /\ ChatStart(s) =>
                /\ OnlyTurn(s) /\ run' = run /\ graph[s].by = None
                /\ thread[s].ask = None /\ Blank(s)
                /\ graph'[s].by = "chat" /\ graph'[s].pc = "agent"
           /\ \A p, text : AgentPreview(s, p, text) =>
                /\ TurnGoesOn(s) /\ graph[s].pc = "agent"
                /\ graph'[s].pc = "remember" /\ graph'[s].todo = <<p>>
           /\ \A calls : AgentApply(s, calls) =>
                /\ OnlyTurn(s) /\ run' = run /\ graph[s].pc = "agent"
                /\ graph'[s].by = graph[s].by /\ graph'[s].pc = "tools"
                /\ graph'[s].todo = calls /\ graph'[s].ready = <<>>
                /\ thread'[s].calls = calls /\ thread'[s].answers = <<>> /\ thread'[s].ask = None
           /\ AgentStop(s) => TurnEnds(s) /\ graph[s].pc = "agent" /\ thread' = thread
<1>0. graph \in [Session -> Turn] /\ thread \in [Session -> Checkpoint]
  BY DEF FlowTypeOK
<1>1. ASSUME ChatStart(s)
      PROVE  /\ OnlyTurn(s) /\ run' = run /\ graph[s].by = None
             /\ thread[s].ask = None /\ Blank(s)
             /\ graph'[s].by = "chat" /\ graph'[s].pc = "agent"
  <2>1. thread' = [thread EXCEPT ![s] = Empty]
    BY <1>1 DEF ChatStart
  <2>2. /\ [Idle EXCEPT !.by = "chat", !.pc = "agent"].by = "chat"
        /\ [Idle EXCEPT !.by = "chat", !.pc = "agent"].pc = "agent"
    BY DEF Idle
  <2>3. graph' = [graph EXCEPT ![s] = [Idle EXCEPT !.by = "chat", !.pc = "agent"]]
    BY <1>1 DEF ChatStart
  <2>4. graph'[s].by = "chat" /\ graph'[s].pc = "agent"
    BY <1>0, <2>2, <2>3
  <2>5. thread'[s] = Empty
    BY <1>0, <2>1
  <2>6. run' = run /\ graph[s].by = None /\ thread[s].ask = None
    BY <1>1 DEF ChatStart
  <2> QED BY <1>0, <2>1, <2>3, <2>4, <2>5, <2>6, RestIs DEF OnlyTurn, Blank
<1>2. ASSUME NEW p, NEW text, AgentPreview(s, p, text)
      PROVE  /\ TurnGoesOn(s) /\ graph[s].pc = "agent"
             /\ graph'[s].pc = "remember" /\ graph'[s].todo = <<p>>
  BY <1>0, <1>2 DEF AgentPreview, TurnGoesOn, OnlyTurn, Turn
<1>3. ASSUME NEW calls, AgentApply(s, calls)
      PROVE  /\ OnlyTurn(s) /\ run' = run /\ graph[s].pc = "agent"
             /\ graph'[s].by = graph[s].by /\ graph'[s].pc = "tools"
             /\ graph'[s].todo = calls /\ graph'[s].ready = <<>>
             /\ thread'[s].calls = calls /\ thread'[s].answers = <<>> /\ thread'[s].ask = None
  <2>1. [Empty EXCEPT !.calls = calls] = [calls |-> calls, answers |-> <<>>, ask |-> None]
    BY DEF Empty
  <2>2. thread' = [thread EXCEPT ![s] = [Empty EXCEPT !.calls = calls]]
    BY <1>3 DEF AgentApply
  <2>3. /\ thread'[s] = [calls |-> calls, answers |-> <<>>, ask |-> None]
        /\ \A t \in Session \ {s} : thread'[t] = thread[t]
    BY <1>0, <2>1, <2>2
  <2>4. /\ run' = run /\ graph[s].pc = "agent"
        /\ graph' = [graph EXCEPT ![s].pc = "tools", ![s].todo = calls, ![s].ready = <<>>]
    BY <1>3 DEF AgentApply
  <2> QED BY <1>0, <2>3, <2>4 DEF OnlyTurn, Turn
<1>4. ASSUME AgentStop(s) PROVE TurnEnds(s) /\ graph[s].pc = "agent" /\ thread' = thread
  BY <1>4, EndingEffects DEF AgentStop
<1> QED BY <1>1, <1>2, <1>3, <1>4

LEMMA RememberEffects ==
    ASSUME FlowTypeOK, NEW s \in Session
    PROVE  /\ RememberPrune(s) \/ RememberEvict(s) => UNCHANGED <<graph, thread, run>>
           /\ RememberSave(s) =>
                /\ TurnGoesOn(s) /\ graph[s].pc = "remember"
                /\ graph'[s].pc = "agent" /\ graph'[s].todo = <<>>
<1>0. graph \in [Session -> Turn]
  BY DEF FlowTypeOK
<1> QED BY <1>0 DEF RememberPrune, RememberEvict, RememberSave, TurnGoesOn, OnlyTurn, Turn

LEMMA ToolEffects ==
    ASSUME FlowTypeOK, NEW s \in Session
    PROVE  /\ ToolPrepare(s) =>
                /\ TurnGoesOn(s) /\ graph[s].pc \in {"tools", "prepare"} /\ graph[s].todo # <<>>
                /\ graph'[s].pc = "prepare" /\ graph'[s].todo = Tail(graph[s].todo)
                /\ LET p == Head(graph[s].todo)
                   IN  graph'[s].ready = IF Available(p) /\ TargetAsPreviewed(p)
                                         THEN Append(graph[s].ready, p) ELSE graph[s].ready
           /\ ToolInterrupt(s) =>
                /\ TurnEnds(s) /\ graph[s].pc = "prepare" /\ graph[s].todo = <<>>
                /\ Len(graph[s].ready) > Len(thread[s].answers)
                /\ thread'[s].calls = thread[s].calls /\ thread'[s].answers = thread[s].answers
                /\ thread'[s].ask = graph[s].ready[Len(thread[s].answers) + 1]
           /\ ToolPass(s) =>
                /\ TurnGoesOn(s) /\ graph[s].pc = "prepare" /\ graph[s].todo = <<>>
                /\ Len(graph[s].ready) <= Len(thread[s].answers)
                /\ graph'[s].pc = "execute" /\ graph'[s].todo = Approved(s)
           /\ ToolsDone(s) =>
                /\ OnlyTurn(s) /\ run' = run /\ graph[s].pc = "execute" /\ graph[s].todo = <<>>
                /\ graph'[s].by = graph[s].by /\ graph'[s].pc = "agent" /\ Blank(s)
<1>0. graph \in [Session -> Turn] /\ thread \in [Session -> Checkpoint]
  BY DEF FlowTypeOK
<1>1. ASSUME ToolPrepare(s)
      PROVE  /\ TurnGoesOn(s) /\ graph[s].pc \in {"tools", "prepare"} /\ graph[s].todo # <<>>
             /\ graph'[s].pc = "prepare" /\ graph'[s].todo = Tail(graph[s].todo)
             /\ LET p == Head(graph[s].todo)
                IN  graph'[s].ready = IF Available(p) /\ TargetAsPreviewed(p)
                                      THEN Append(graph[s].ready, p) ELSE graph[s].ready
  BY <1>0, <1>1 DEF ToolPrepare, TurnGoesOn, OnlyTurn, Turn
<1>2. ASSUME ToolInterrupt(s)
      PROVE  /\ TurnEnds(s) /\ graph[s].pc = "prepare" /\ graph[s].todo = <<>>
             /\ Len(graph[s].ready) > Len(thread[s].answers)
             /\ thread'[s].calls = thread[s].calls /\ thread'[s].answers = thread[s].answers
             /\ thread'[s].ask = graph[s].ready[Len(thread[s].answers) + 1]
  <2>1. thread' = [thread EXCEPT ![s].ask = graph[s].ready[Len(thread[s].answers) + 1]]
    BY <1>2 DEF ToolInterrupt
  <2>2. \A t \in Session \ {s} : thread'[t] = thread[t]
    BY <1>0, <2>1
  <2>3. TurnEnds(s)
    BY <1>2, <2>2, EndingEffects DEF ToolInterrupt
  <2>4. /\ thread'[s].calls = thread[s].calls /\ thread'[s].answers = thread[s].answers
        /\ thread'[s].ask = graph[s].ready[Len(thread[s].answers) + 1]
    BY <1>0, <2>1 DEF Checkpoint
  <2> QED BY <1>2, <2>3, <2>4 DEF ToolInterrupt
<1>3. ASSUME ToolPass(s)
      PROVE  /\ TurnGoesOn(s) /\ graph[s].pc = "prepare" /\ graph[s].todo = <<>>
             /\ Len(graph[s].ready) <= Len(thread[s].answers)
             /\ graph'[s].pc = "execute" /\ graph'[s].todo = Approved(s)
  BY <1>0, <1>3 DEF ToolPass, TurnGoesOn, OnlyTurn, Turn
<1>4. ASSUME ToolsDone(s)
      PROVE  /\ OnlyTurn(s) /\ run' = run /\ graph[s].pc = "execute" /\ graph[s].todo = <<>>
             /\ graph'[s].by = graph[s].by /\ graph'[s].pc = "agent" /\ Blank(s)
  <2>1. thread'[s] = Empty /\ \A t \in Session \ {s} : thread'[t] = thread[t]
    BY <1>0, <1>4 DEF ToolsDone
  <2>2. graph' = [graph EXCEPT ![s].pc = "agent", ![s].ready = <<>>]
    BY <1>4 DEF ToolsDone
  <2>3. /\ graph'[s].by = graph[s].by /\ graph'[s].pc = "agent"
        /\ \A t \in Session \ {s} : graph'[t] = graph[t]
    BY <1>0, <2>2 DEF Turn
  <2> QED BY <1>4, <2>1, <2>3, RestIs DEF ToolsDone, OnlyTurn, Blank
<1> QED BY <1>1, <1>2, <1>3, <1>4, Zenon

LEMMA ApplyEffects ==
    ASSUME FlowTypeOK, NEW s \in Session
    PROVE  /\ ApplyRefused(s) =>
                /\ TurnGoesOn(s) /\ graph[s].pc = "execute" /\ graph[s].todo # <<>>
                /\ graph'[s].pc = "execute" /\ graph'[s].todo = Tail(graph[s].todo)
           /\ ApplyApproved(s) =>
                /\ TurnGoesOn(s) /\ graph[s].pc = "execute" /\ graph[s].todo # <<>>
                /\ \/ /\ TargetAsPreviewed(Head(graph[s].todo))
                      /\ graph'[s].pc = "testing" /\ graph'[s].todo = graph[s].todo
                   \/ /\ faults' = faults => ~ TargetAsPreviewed(Head(graph[s].todo))
                      /\ graph'[s].pc = "execute" /\ graph'[s].todo = Tail(graph[s].todo)
           /\ ApplyReturns(s) =>
                /\ OnlyTurn(s) /\ thread' = thread /\ graph[s].pc = "testing"
                /\ graph'[s].by = graph[s].by
                /\ graph'[s].pc = "execute" /\ graph'[s].todo = Tail(graph[s].todo)
                /\ \A q \in Proposal : IF q = graph[s].by /\ q = Head(graph[s].todo)
                                       THEN /\ run'[q].got = "verification"
                                            /\ run'[q].st = run[q].st
                                            /\ run'[q].by = run[q].by /\ run'[q].ok = run[q].ok
                                       ELSE run'[q] = run[q]
           /\ StreamBreaks(s) =>
                /\ TurnEnds(s) /\ thread' = thread /\ graph[s].pc = "testing"
                /\ faults' = faults + 1
<1>0. /\ graph \in [Session -> Turn] /\ thread \in [Session -> Checkpoint]
      /\ run \in [Proposal -> Run] /\ faults \in Nat
  BY FlowBounds DEF FlowTypeOK
<1>1. ASSUME ApplyRefused(s)
      PROVE  /\ TurnGoesOn(s) /\ graph[s].pc = "execute" /\ graph[s].todo # <<>>
             /\ graph'[s].pc = "execute" /\ graph'[s].todo = Tail(graph[s].todo)
  BY <1>0, <1>1 DEF ApplyRefused, Executing, TurnGoesOn, OnlyTurn, Turn
<1>2. ASSUME ApplyApproved(s)
      PROVE  /\ TurnGoesOn(s) /\ graph[s].pc = "execute" /\ graph[s].todo # <<>>
             /\ \/ /\ TargetAsPreviewed(Head(graph[s].todo))
                   /\ graph'[s].pc = "testing" /\ graph'[s].todo = graph[s].todo
                \/ /\ faults' = faults => ~ TargetAsPreviewed(Head(graph[s].todo))
                   /\ graph'[s].pc = "execute" /\ graph'[s].todo = Tail(graph[s].todo)
  <2>1. /\ \/ /\ TargetAsPreviewed(Head(graph[s].todo))
              /\ graph' = [graph EXCEPT ![s].pc = "testing"]
           \/ /\ faults' = faults => ~ TargetAsPreviewed(Head(graph[s].todo))
              /\ graph' = [graph EXCEPT ![s].todo = Tail(@)]
        /\ graph[s].pc = "execute" /\ graph[s].todo # <<>> /\ thread' = thread /\ run' = run
    <3>1. faults + 1 # faults
      BY <1>0
    <3> QED BY <1>2, <3>1 DEF ApplyApproved, Executing, NextCall, Fault
  <2> QED BY <1>0, <2>1 DEF TurnGoesOn, OnlyTurn, Turn
<1>3. ASSUME ApplyReturns(s)
      PROVE  /\ OnlyTurn(s) /\ thread' = thread /\ graph[s].pc = "testing"
             /\ graph'[s].by = graph[s].by
             /\ graph'[s].pc = "execute" /\ graph'[s].todo = Tail(graph[s].todo)
             /\ \A q \in Proposal : IF q = graph[s].by /\ q = Head(graph[s].todo)
                                    THEN /\ run'[q].got = "verification"
                                         /\ run'[q].st = run[q].st
                                         /\ run'[q].by = run[q].by /\ run'[q].ok = run[q].ok
                                    ELSE run'[q] = run[q]
  <2>1. /\ graph' = [graph EXCEPT ![s].pc = "execute", ![s].todo = Tail(@)]
        /\ graph[s].pc = "testing" /\ thread' = thread
        /\ run' = IF graph[s].by = Head(graph[s].todo)
                  THEN [run EXCEPT ![graph[s].by].got = "verification"] ELSE run
    BY <1>3 DEF ApplyReturns, Saw
  <2>2. \A q \in Proposal : IF q = graph[s].by /\ q = Head(graph[s].todo)
                            THEN /\ run'[q].got = "verification"
                                 /\ run'[q].st = run[q].st
                                 /\ run'[q].by = run[q].by /\ run'[q].ok = run[q].ok
                            ELSE run'[q] = run[q]
    BY <1>0, <2>1 DEF Run
  <2>3. /\ OnlyTurn(s) /\ graph'[s].by = graph[s].by
        /\ graph'[s].pc = "execute" /\ graph'[s].todo = Tail(graph[s].todo)
    BY <1>0, <2>1 DEF OnlyTurn, Turn
  <2> QED BY <2>1, <2>2, <2>3
<1>4. ASSUME StreamBreaks(s)
      PROVE  /\ TurnEnds(s) /\ thread' = thread /\ graph[s].pc = "testing"
             /\ faults' = faults + 1
  <2>1. /\ graph' = [graph EXCEPT ![s] = Idle] /\ thread' = thread
        /\ graph[s].pc = "testing" /\ faults' = faults + 1
    BY <1>4 DEF StreamBreaks, Fault
  <2>5. PICK seen \in {run, Saw(s, "file_change")} :
            run' = [seen EXCEPT ![graph[s].by].st = "finishing"]
    BY <1>4 DEF StreamBreaks
  <2>2. /\ seen \in [Proposal -> Run]
        /\ \A q \in Proposal : /\ seen[q].by = run[q].by /\ seen[q].ok = run[q].ok
                               /\ seen[q].got \in {run[q].got, "file_change"}
                               /\ q # graph[s].by => seen[q] = run[q]
    <3>1. [run EXCEPT ![graph[s].by].got = "file_change"] \in [Proposal -> Run]
      BY RunsAreTyped
    <3> QED BY <1>0, <3>1 DEF Saw, Run
  <2>3. \A q \in Proposal : /\ run'[q].by = seen[q].by /\ run'[q].ok = seen[q].ok
                            /\ run'[q].got = seen[q].got
                            /\ IF q = graph[s].by THEN run'[q].st = "finishing"
                                                  ELSE run'[q] = seen[q]
    BY <2>5, <2>2 DEF Run
  <2>4. OnlyTurn(s) /\ graph'[s] = Idle
    BY <1>0, <2>1 DEF OnlyTurn
  <2> QED BY <2>1, <2>2, <2>3, <2>4 DEF TurnEnds
<1> QED BY <1>1, <1>2, <1>3, <1>4, Zenon

LEMMA RunEffects ==
    ASSUME FlowTypeOK, ConsentInv, NEW p \in Proposal
    PROVE  /\ RunStart(p) =>
                /\ run[p].by \in Session /\ OnlyTurn(run[p].by)
                /\ run[p].st = "queued" /\ graph[run[p].by].by = None /\ thread[run[p].by].ask = p
                /\ thread'[run[p].by].calls = thread[run[p].by].calls
                /\ thread'[run[p].by].ask = p
                /\ thread'[run[p].by].answers =
                        Append(thread[run[p].by].answers, [id |-> p, ok |-> run[p].ok])
                /\ graph'[run[p].by] = [by |-> p, pc |-> "tools",
                                        todo |-> thread[run[p].by].calls, ready |-> <<>>]
           /\ RunDenied(p) => /\ run[p].st = "queued" /\ UNCHANGED <<graph, thread>>
                              /\ thread[run[p].by].ask = p => faults' = faults + 1
           /\ RunComplete(p) \/ RunUnrecorded(p) =>
                run[p].st = "finishing" /\ UNCHANGED <<graph, thread>>
           /\ RunStart(p) \/ RunDenied(p) =>
                /\ \A q \in Proposal \ {p} : run'[q] = run[q]
                /\ run'[p].st = (IF RunStart(p) THEN "running" ELSE "finishing")
                /\ run'[p].by = run[p].by /\ run'[p].ok = run[p].ok /\ run'[p].got = run[p].got
           /\ RunComplete(p) \/ RunUnrecorded(p) =>
                /\ \A q \in Proposal \ {p} : run'[q] = run[q]
                /\ run'[p] = NoRun
<1>0. graph \in [Session -> Turn] /\ thread \in [Session -> Checkpoint] /\ run \in [Proposal -> Run]
  BY DEF FlowTypeOK
<1>1. ASSUME RunStart(p)
      PROVE  /\ run[p].by \in Session /\ OnlyTurn(run[p].by)
             /\ run[p].st = "queued" /\ graph[run[p].by].by = None /\ thread[run[p].by].ask = p
             /\ thread'[run[p].by].calls = thread[run[p].by].calls
             /\ thread'[run[p].by].ask = p
             /\ thread'[run[p].by].answers =
                     Append(thread[run[p].by].answers, [id |-> p, ok |-> run[p].ok])
             /\ graph'[run[p].by] = [by |-> p, pc |-> "tools",
                                     todo |-> thread[run[p].by].calls, ready |-> <<>>]
  <2>1. PICK s \in Session : s = run[p].by
    BY <1>1 DEF RunStart, ConsentInv, RunConsents
  <2>2. /\ run[p].st = "queued" /\ graph[s].by = None /\ thread[s].ask = p
        /\ thread' = [thread EXCEPT ![s].answers = Append(@, [id |-> p, ok |-> run[p].ok])]
        /\ graph' = [graph EXCEPT ![s] = [by |-> p, pc |-> "tools",
                                          todo |-> thread[s].calls, ready |-> <<>>]]
    BY <1>1, <2>1 DEF RunStart
  <2>3. /\ thread'[s].calls = thread[s].calls /\ thread'[s].ask = thread[s].ask
        /\ thread'[s].answers = Append(thread[s].answers, [id |-> p, ok |-> run[p].ok])
        /\ \A t \in Session \ {s} : thread'[t] = thread[t]
    BY <1>0, <2>2 DEF Checkpoint
  <2>4. /\ graph'[s] = [by |-> p, pc |-> "tools", todo |-> thread[s].calls, ready |-> <<>>]
        /\ \A t \in Session \ {s} : graph'[t] = graph[t]
    BY <1>0, <2>2
  <2> QED BY <2>1, <2>2, <2>3, <2>4 DEF OnlyTurn
<1>2. ASSUME RunDenied(p)
      PROVE  /\ run[p].st = "queued" /\ UNCHANGED <<graph, thread>>
             /\ thread[run[p].by].ask = p => faults' = faults + 1
  BY <1>2 DEF RunDenied, Fault
<1>3. ASSUME RunComplete(p) \/ RunUnrecorded(p)
      PROVE  run[p].st = "finishing" /\ UNCHANGED <<graph, thread>>
  BY <1>3 DEF RunComplete, RunUnrecorded
<1>4. ASSUME RunStart(p) \/ RunDenied(p)
      PROVE  /\ \A q \in Proposal \ {p} : run'[q] = run[q]
             /\ run'[p].st = (IF RunStart(p) THEN "running" ELSE "finishing")
             /\ run'[p].by = run[p].by /\ run'[p].ok = run[p].ok /\ run'[p].got = run[p].got
  <2>1. run' = [run EXCEPT ![p].st = IF RunStart(p) THEN "running" ELSE "finishing"]
    BY <1>4 DEF RunStart, RunDenied
  <2> QED BY <1>0, <2>1 DEF Run
<1>5. ASSUME RunComplete(p) \/ RunUnrecorded(p)
      PROVE  (\A q \in Proposal \ {p} : run'[q] = run[q]) /\ run'[p] = NoRun
  BY <1>0, <1>5 DEF RunComplete, RunUnrecorded
<1> QED BY <1>1, <1>2, <1>3, <1>4, <1>5, Zenon

------------------------------------------------------------------------------
\* Overtaken previews and the orders.

\* A preview is made, somebody writes the file, or neither.
LEMMA WhoOvertakes ==
    Next => \/ UNCHANGED <<patch, file, overtaken>>
            \/ /\ UNCHANGED <<file, overtaken>>
               /\ \E s \in Session, p \in Proposal, text \in Content : AgentPreview(s, p, text)
            \/ patch' = patch /\ \E text : file' = text /\ Overtakes(text)
<1> DEFINE Same == UNCHANGED <<patch, file, overtaken>>
           Noted == patch' = patch /\ \E text : file' = text /\ Overtakes(text)
<1> USE DEF historyVars
<1>1. ASSUME NEW s \in Session, NEW p \in Proposal, NEW text \in Content, AgentPreview(s, p, text)
      PROVE  UNCHANGED <<file, overtaken>>
  BY <1>1 DEF AgentPreview
<1>2. ASSUME NEW s \in Session, ApplyApproved(s) PROVE Same \/ Noted
  BY <1>2 DEF ApplyApproved, WritesText, WritesNothing
<1>3. ASSUME NEW text \in FileState, Edit(text) PROVE Noted
  BY <1>3 DEF Edit
<1>4. ASSUME NEW s \in Session, TurnStep(s), ~ ApplyApproved(s) PROVE Same
  BY <1>4 DEF TurnStep, RememberPrune, RememberEvict, RememberSave, ToolPrepare,
        ToolInterrupt, ToolPass, ApplyRefused, ApplyReturns, ToolsDone
<1>5. ASSUME NEW s \in Session,
             \/ ChatStart(s) \/ AgentStop(s) \/ StreamBreaks(s) \/ CrashBeforeWrite(s)
             \/ \E calls \in Calls : AgentApply(s, calls)
             \/ \E p \in Proposal, ok \in BOOLEAN : ResumeCheck(s, p, ok)
      PROVE  Same
  BY <1>5 DEF ChatStart, AgentStop, StreamBreaks, CrashBeforeWrite, Down, AgentApply, ResumeCheck
<1>6. ASSUME NEW p \in Proposal,
             \/ RunStep(p) \/ RunUnrecorded(p) \/ ResumeOrphan(p) \/ SweepRow(p) \/ TimePasses(p)
      PROVE  Same
  BY <1>6 DEF RunStep, RunStart, RunDenied, RunComplete, RunUnrecorded, ResumeOrphan, SweepRow,
              TimePasses, flowVars
<1>7. ASSUME ApiStep \/ Crash \/ Restart PROVE Same
  BY <1>7 DEF ApiStep, ResumeClaim, ResumeRefused, Crash, Down, Restart
<1> HIDE DEF Same, Noted
<1>8. Next => \/ Same \/ Noted
              \/ /\ UNCHANGED <<file, overtaken>>
                 /\ \E s \in Session, p \in Proposal, text \in Content : AgentPreview(s, p, text)
  BY <1>1, <1>2, <1>3, <1>4, <1>5, <1>6, <1>7, Zenon DEF Next
<1> QED BY <1>8 DEF Same, Noted

LEMMA StepOvertakes == FlowTypeOK /\ OvertakenInv /\ Next => OvertakenInv'
<1> SUFFICES ASSUME FlowTypeOK, OvertakenInv, Next PROVE OvertakenInv'
  OBVIOUS
<1>1. ASSUME UNCHANGED <<file, overtaken>>,
             NEW s \in Session, NEW p \in Proposal, NEW text \in Content, AgentPreview(s, p, text)
      PROVE  OvertakenInv'
  <2>1. patch' = [patch EXCEPT ![p] = [before |-> file, after |-> text]]
    BY <1>1 DEF AgentPreview
  <2>2. patch'[p].before = file /\ \A q \in Proposal \ {p} : patch'[q] = patch[q]
    BY <2>1 DEF FlowTypeOK
  <2> QED BY <1>1, <2>2 DEF OvertakenInv
<1>2. ASSUME UNCHANGED <<patch, file, overtaken>> PROVE OvertakenInv'
  BY <1>2 DEF OvertakenInv
<1>3. ASSUME NEW text, patch' = patch, file' = text, Overtakes(text) PROVE OvertakenInv'
  BY <1>3 DEF OvertakenInv, Overtakes
<1> QED BY <1>1, <1>2, <1>3, WhoOvertakes

\* The steps that move a turn or a run, and those that move none.
LEMMA StepKinds ==
    Next => \/ \E s \in Session :
                \/ TurnStep(s) \/ ChatStart(s) \/ AgentStop(s) \/ StreamBreaks(s)
                \/ \E p \in Proposal, text \in Content : AgentPreview(s, p, text)
                \/ \E calls \in Calls : AgentApply(s, calls)
            \/ \E p \in Proposal : RunStep(p) \/ RunUnrecorded(p)
            \/ ResumeClaim
            \/ Down
            \/ UNCHANGED <<graph, thread, run>>
  BY DEF Next, ApiStep, ResumeRefused, ResumeCheck, ResumeOrphan, SweepRow, TimePasses,
         flowVars, Crash, CrashBeforeWrite, Restart, Edit

\* Who is about to remember a preview has just made it, or goes on.
LEMMA WhoRemembers ==
    ASSUME FlowTypeOK, ConsentInv, Next, NEW s \in Session, graph'[s].pc = "remember"
    PROVE  \/ \E p \in Proposal, text \in Content : AgentPreview(s, p, text)
           \/ graph[s].pc = "remember" /\ graph'[s] = graph[s] /\ ~ RememberSave(s)
<1> DEFINE Goes == graph[s].pc = "remember" /\ graph'[s] = graph[s]
<1>0. ~ RememberSave(s)
  BY RememberEffects
<1>1. ASSUME NEW t \in Session, TurnStep(t) PROVE Goes
  <2>1. graph' = graph \/ OnlyTurn(t)
    BY <1>1, RememberEffects, ToolEffects, ApplyEffects DEF TurnStep, TurnGoesOn, TurnEnds
  <2>2. t = s => graph' = graph \/ graph'[s].pc # "remember"
    BY <1>1, RememberEffects, ToolEffects, ApplyEffects, RestIs DEF TurnStep, TurnEnds
  <2> QED BY <2>1, <2>2 DEF OnlyTurn
<1>2. ASSUME NEW t \in Session,
             \/ ChatStart(t) \/ AgentStop(t) \/ StreamBreaks(t)
             \/ \E calls \in Calls : AgentApply(t, calls)
      PROVE  Goes
  <2>1. OnlyTurn(t)
    BY <1>2, AgentEffects, ApplyEffects DEF TurnEnds
  <2>2. t = s => graph'[s].pc # "remember"
    BY <1>2, AgentEffects, ApplyEffects, RestIs DEF TurnEnds
  <2> QED BY <2>1, <2>2 DEF OnlyTurn
<1>3. ASSUME NEW t \in Session, NEW p \in Proposal, NEW text \in Content, AgentPreview(t, p, text)
      PROVE  t = s \/ Goes
  <2>1. TurnGoesOn(t)
    BY <1>3, AgentEffects
  <2> QED BY <2>1 DEF TurnGoesOn, OnlyTurn
<1>4. ASSUME NEW p \in Proposal, RunStep(p) \/ RunUnrecorded(p) PROVE Goes
  <2>1. CASE RunStart(p)
    <3>1. /\ OnlyTurn(run[p].by)
          /\ graph'[run[p].by] = [by |-> p, pc |-> "tools",
                                  todo |-> thread[run[p].by].calls, ready |-> <<>>]
      BY <2>1, RunEffects
    <3>2. graph'[run[p].by].pc = "tools"
      BY <3>1
    <3> QED BY <3>1, <3>2 DEF OnlyTurn
  <2>2. CASE RunDenied(p) \/ RunComplete(p) \/ RunUnrecorded(p)
    BY <2>2, RunEffects
  <2> QED BY <1>4, <2>1, <2>2 DEF RunStep
<1>5. ASSUME ResumeClaim PROVE Goes
  BY <1>5 DEF ResumeClaim
<1>6. ASSUME Down PROVE FALSE
  BY <1>6, RestIs DEF Down
<1> QED BY <1>0, <1>1, <1>2, <1>3, <1>4, <1>5, <1>6, StepKinds

\* Only these steps touch memory, a change row or the order of the rows.
LEMMA QuietMemory ==
    Next => \/ \E s \in Session :
                \/ RememberPrune(s) \/ RememberEvict(s) \/ RememberSave(s)
                \/ ToolPrepare(s) \/ ApplyRefused(s) \/ ApplyApproved(s)
            \/ ResumeClaim
            \/ Crash \/ \E s \in Session : CrashBeforeWrite(s)
            \/ UNCHANGED <<mem, changes, saved>>
<1> DEFINE Quiet == UNCHANGED <<mem, changes, saved>>
<1>1. ASSUME NEW s \in Session,
             \/ ChatStart(s) \/ AgentStop(s) \/ StreamBreaks(s)
             \/ ToolInterrupt(s) \/ ToolPass(s) \/ ApplyReturns(s) \/ ToolsDone(s)
             \/ \E p \in Proposal, text \in Content : AgentPreview(s, p, text)
             \/ \E calls \in Calls : AgentApply(s, calls)
             \/ \E p \in Proposal, ok \in BOOLEAN : ResumeCheck(s, p, ok)
      PROVE  Quiet
  BY <1>1 DEF ChatStart, AgentStop, StreamBreaks, ToolInterrupt, ToolPass, ApplyReturns, ToolsDone,
              AgentPreview, AgentApply, ResumeCheck, storeVars
<1>2. ASSUME NEW p \in Proposal,
             \/ RunStep(p) \/ RunUnrecorded(p) \/ ResumeOrphan(p) \/ SweepRow(p) \/ TimePasses(p)
      PROVE  Quiet
  BY <1>2 DEF RunStep, RunStart, RunDenied, RunComplete, RunUnrecorded, ResumeOrphan, SweepRow,
        TimePasses, CompleteOutcome, CompleteByApproval, Reconcile, Lapse, storeVars, flowVars
<1>3. ASSUME ResumeRefused \/ Restart \/ \E text \in FileState : Edit(text) PROVE Quiet
  BY <1>3 DEF ResumeRefused, Restart, Edit, storeVars
<1> QED BY <1>1, <1>2, <1>3 DEF Next, TurnStep, ApiStep

\* Memory gains only what is saved, and holds it once.
LEMMA MemoryMoves ==
    ASSUME FlowInv, Distinct(mem), Next, ~ \E s \in Session : RememberSave(s)
    PROVE  saved' = saved /\ Distinct(mem') /\ Ids(mem') \subseteq Ids(mem) \cup Ids(saved)
<1> DEFINE Fine == Distinct(mem') /\ Ids(mem') \subseteq Ids(mem) \cup Ids(saved)
<1>0. /\ FlowTypeOK /\ TurnInv /\ mem \in Seq(Proposal) /\ Ids(mem) \subseteq Proposal
      /\ UnsavedIsAbsent
  BY IdsOf DEF FlowInv, FlowTypeOK, StoreInv
<1>1. \A gone : mem' = Without(mem, gone) => Fine
  BY <1>0, WithoutIsDistinct
<1>2. ASSUME NEW p \in Proposal, RequirePending(p) PROVE saved' = saved /\ Fine
  <2>1. saved' = saved
    BY <1>2 DEF RequirePending, Discard, LoadExpire, storeVars
  <2>2. CASE mem' = Without(mem, {p})
    BY <1>1, <2>1, <2>2
  <2>3. CASE mem' # Without(mem, {p})
    <3>1. mem' = mem \/ (p \notin Ids(mem) /\ changes[p] = "pending" /\ mem' = Append(mem, p))
      BY <1>2, <2>3 DEF RequirePending, Claimable
    <3>2. changes[p] = "pending" => p \in Ids(saved)
      BY <1>0 DEF UnsavedIsAbsent
    <3>3. p \notin Ids(mem) =>
            Distinct(Append(mem, p)) /\ Ids(Append(mem, p)) = Ids(mem) \cup {p}
      BY <1>0, AppendIsDistinct, AppendIds
    <3> QED BY <2>1, <3>1, <3>2, <3>3
  <2> QED BY <2>2, <2>3
<1>3. ASSUME NEW p, NEW state, Forget(p, state) PROVE saved' = saved /\ Fine
  BY <1>1, <1>3 DEF Forget, Discard, storeVars
<1>4. ASSUME NEW s \in Session, RememberPrune(s) \/ RememberEvict(s) PROVE saved' = saved /\ Fine
  BY <1>3, <1>4 DEF RememberPrune, RememberEvict
<1>5. ASSUME NEW s \in Session, ToolPrepare(s) \/ ApplyRefused(s) PROVE saved' = saved /\ Fine
  <2>1. graph[s].todo # <<>> /\ RequirePending(Head(graph[s].todo))
    BY <1>5 DEF ToolPrepare, ApplyRefused, Executing
  <2> QED BY <1>0, <1>2, <2>1, HeadIsPreviewed
<1>6. ASSUME NEW s \in Session, ApplyApproved(s) PROVE saved' = saved /\ Fine
  BY <1>1, <1>6 DEF ApplyApproved, Consume
<1>7. ASSUME Crash \/ \E s \in Session : CrashBeforeWrite(s) PROVE saved' = saved /\ Fine
  BY <1>7, IdsOfShort DEF Crash, CrashBeforeWrite, Down, Distinct, Consume, storeVars
<1>8. ASSUME ResumeClaim \/ UNCHANGED <<mem, changes, saved>> PROVE saved' = saved /\ mem' = mem
  BY <1>8 DEF ResumeClaim, ClaimOutcome
<1>9. mem' = mem => Fine
  OBVIOUS
<1> HIDE DEF Fine
<1>10. saved' = saved /\ Fine
  BY <1>4, <1>5, <1>6, <1>7, <1>8, <1>9, QuietMemory
<1> QED BY <1>10 DEF Fine

LEMMA StepOrders == FlowInv /\ OrderInv /\ Next => OrderInv'
<1> SUFFICES ASSUME FlowInv, OrderInv, Next PROVE OrderInv'
  OBVIOUS
<1>0. /\ FlowTypeOK /\ TurnInv /\ ConsentInv
      /\ saved \in Seq(Proposal) /\ mem \in Seq(Proposal)
      /\ Ids(saved) \subseteq Proposal /\ Ids(mem) \subseteq Proposal
  BY IdsOf DEF FlowInv, FlowTypeOK, StoreInv, StoreTypeOK
<1>1. Previewed \subseteq Previewed'
  BY <1>0, PreviewsStay DEF Previewed
<1>2. ASSUME NEW s \in Session, RememberSave(s) PROVE OrderInv'
  <2> DEFINE p == Head(graph[s].todo)
  <2>1. graph[s].pc = "remember" /\ graph[s].todo # <<>>
    BY <1>0, <1>2 DEF RememberSave, TurnInv, TurnOK
  <2>2. p \in Proposal /\ p \in Previewed /\ p \notin Ids(saved)
    BY <1>0, <2>1, HeadIsPreviewed DEF OrderInv, TurnInv, TurnOK
  <2>3. saved' = Append(saved, p) /\ \E gone : mem' = Append(Without(mem, gone), p)
    BY <1>2 DEF RememberSave, Save
  <2> HIDE DEF p
  <2>4. Distinct(saved') /\ Ids(saved') = Ids(saved) \cup {p}
    BY <1>0, <2>2, <2>3, AppendIsDistinct, AppendIds DEF OrderInv
  <2>5. PICK gone : mem' = Append(Without(mem, gone), p)
    BY <2>3
  <2>6. /\ Without(mem, gone) \in Seq(Proposal) /\ Distinct(Without(mem, gone))
        /\ Ids(Without(mem, gone)) \subseteq Ids(saved)
    BY <1>0, WithoutIsDistinct, WithoutRemoves DEF OrderInv
  <2>7. Distinct(mem') /\ Ids(mem') \subseteq Ids(saved) \cup {p}
    BY <2>2, <2>5, <2>6, AppendIsDistinct, AppendIds
  <2>8. \A t \in Session : graph'[t].pc # "remember"
    <3>1. OnlyTurn(s) /\ graph'[s].pc = "agent"
      BY <1>0, <1>2, RememberEffects DEF TurnGoesOn
    <3> QED BY <2>1, <3>1 DEF OrderInv, OnlyTurn
  <2>9. Ids(saved') \subseteq Previewed'
    BY <1>1, <2>2, <2>4 DEF OrderInv
  <2> QED BY <2>4, <2>7, <2>8, <2>9 DEF OrderInv
<1>3. CASE ~ \E s \in Session : RememberSave(s)
  <2>1. saved' = saved /\ Distinct(mem') /\ Ids(mem') \subseteq Ids(mem) \cup Ids(saved)
    BY <1>3, MemoryMoves DEF OrderInv
  <2>2. ASSUME NEW s \in Session, graph'[s].pc = "remember"
        PROVE  /\ Head(graph'[s].todo) \notin Ids(saved)
               /\ \A t \in Session \ {s} : graph[t].pc # "remember"
    <3>1. ASSUME NEW p \in Proposal, NEW text \in Content, AgentPreview(s, p, text)
          PROVE  /\ Head(graph'[s].todo) \notin Ids(saved)
                 /\ \A t \in Session \ {s} : graph[t].pc # "remember"
      <4>1. graph'[s].todo = <<p>> /\ Head(<<p>>) = p
        BY <1>0, <3>1, AgentEffects
      <4>2. patch[p] = None /\ \A t \in Session \ {s} : graph[t].pc # "remember"
        BY <3>1 DEF AgentPreview, Serving
      <4> QED BY <4>1, <4>2 DEF OrderInv, Previewed
    <3> QED BY <1>0, <2>2, <3>1, WhoRemembers DEF OrderInv
  <2>3. ASSUME NEW s \in Session, graph'[s].pc = "remember", NEW t \in Session \ {s}
        PROVE  graph'[t].pc # "remember"
    <3> SUFFICES ASSUME graph'[t].pc = "remember" PROVE FALSE
      OBVIOUS
    <3>1. graph[s].pc # "remember" /\ graph[t].pc # "remember"
      BY <2>2, <2>3
    <3>2. (\E p, text : AgentPreview(s, p, text)) /\ (\E p, text : AgentPreview(t, p, text))
      BY <1>0, <2>3, <3>1, WhoRemembers
    <3>3. graph'[t] = graph[t]
      BY <1>0, <3>2, AgentEffects DEF TurnGoesOn, OnlyTurn
    <3> QED BY <3>1, <3>3
  <2> QED BY <1>1, <2>1, <2>2, <2>3 DEF OrderInv
<1> QED BY <1>2, <1>3

------------------------------------------------------------------------------
\* One call in a message.

\* Only a claim opens a run.
LEMMA RunsOpen ==
    ASSUME FlowTypeOK, ConsentInv, Next, NEW p \in Proposal, run'[p].st # "none"
    PROVE  run[p].st # "none" \/ (ResumeClaim /\ p = req.id)
<1>0. run \in [Proposal -> Run] /\ NoRun.st = "none"
  BY DEF FlowTypeOK, NoRun
<1>1. ASSUME NEW s \in Session, TurnEnds(s) PROVE run[p].st # "none"
  BY <1>1 DEF TurnEnds, ConsentInv, TurnConsents
<1>2. ASSUME NEW s \in Session,
             \/ TurnStep(s) \/ ChatStart(s) \/ AgentStop(s) \/ StreamBreaks(s)
             \/ \E q \in Proposal, text \in Content : AgentPreview(s, q, text)
             \/ \E calls \in Calls : AgentApply(s, calls)
      PROVE  run[p].st # "none"
  <2>1. CASE AgentStop(s) \/ StreamBreaks(s) \/ ToolInterrupt(s)
    <3>1. TurnEnds(s)
      BY <2>1, AgentEffects, ApplyEffects, ToolEffects
    <3> QED BY <1>1, <3>1
  <2>2. CASE ApplyReturns(s)
    BY <2>2, ApplyEffects
  <2>3. CASE ~ (AgentStop(s) \/ StreamBreaks(s) \/ ToolInterrupt(s) \/ ApplyReturns(s))
    <3>1. run' = run
      BY <1>2, <2>3, AgentEffects, RememberEffects, ToolEffects, ApplyEffects
         DEF TurnStep, TurnGoesOn
    <3> QED BY <3>1
  <2> QED BY <2>1, <2>2, <2>3
<1>3. ASSUME NEW q \in Proposal, RunStep(q) \/ RunUnrecorded(q) PROVE run[p].st # "none"
  <2>1. run[q].st # "none" /\ \A r \in Proposal \ {q} : run'[r] = run[r]
    BY <1>3, RunEffects DEF RunStep
  <2> QED BY <2>1
<1>4. ASSUME ResumeClaim PROVE run[p].st # "none" \/ p = req.id
  BY <1>0, <1>4 DEF ResumeClaim
<1>5. ASSUME Down PROVE FALSE
  BY <1>0, <1>5 DEF Down
<1> QED BY <1>2, <1>3, <1>4, <1>5, StepKinds

LEMMA OneCallMoves ==
    ASSUME \A s \in Session : OneCall(s), NEW s \in Session, OnlyTurn(s), OneCall(s)'
    PROVE  \A t \in Session : OneCall(t)'
<1>1. ASSUME NEW t \in Session \ {s} PROVE OneCall(t)'
  <2>1. OneCall(t) /\ graph'[t] = graph[t] /\ thread'[t] = thread[t]
    BY DEF OnlyTurn
  <2> QED BY <2>1 DEF OneCall, Replays, Starts
<1> QED BY <1>1

\* A turn that ends leaves its checkpoint, or asks for the one call.
LEMMA EndingIsOneCall ==
    ASSUME NEW s \in Session, graph'[s] = Idle,
           thread'[s].ask # None => thread'[s].calls = <<thread'[s].ask>>
    PROVE  OneCall(s)'
  BY RestIs DEF OneCall, Replays, Starts

\* Who interrupts has not been answered, and asks for its one call.
LEMMA InterruptAsks ==
    ASSUME FlowTypeOK, NEW s \in Session, OneCall(s), ToolInterrupt(s)
    PROVE  /\ thread[s].ask = None /\ thread'[s].ask \in Proposal
           /\ thread[s].answers = <<>> /\ thread'[s].calls = <<thread'[s].ask>>
<1>0. /\ graph[s].pc = "prepare" /\ Len(graph[s].ready) > Len(thread[s].answers)
      /\ thread'[s].calls = thread[s].calls
      /\ thread'[s].ask = graph[s].ready[Len(thread[s].answers) + 1]
      /\ graph[s].ready \in {<<>>, thread[s].calls}
      /\ thread[s].answers \in Seq(Answer)
  BY ToolEffects DEF OneCall, FlowTypeOK, Checkpoint
<1>1. ~ Replays(s)
  <2> SUFFICES ASSUME Replays(s) PROVE FALSE
    OBVIOUS
  <2>1. /\ thread[s].calls = <<graph[s].by>> /\ Len(<<graph[s].by>>) = 1 /\ Len(<<>>) = 0
        /\ thread[s].answers # <<>>
    BY DEF Replays
  <2>2. Len(graph[s].ready) <= 1
    BY <1>0, <2>1
  <2>3. Len(thread[s].answers) >= 1
    BY <1>0, <2>1
  <2> QED BY <1>0, <2>2, <2>3
<1>2. Starts(s)
  BY <1>0, <1>1 DEF OneCall
<1>3. PICK p \in Proposal : thread[s].calls = <<p>>
  BY <1>2 DEF Starts
<1>4. thread[s].answers = <<>> /\ Len(<<>>) = 0 /\ thread[s].ask = None
  BY <1>2 DEF Starts
<1>5. graph[s].ready = <<p>>
  BY <1>0, <1>3, <1>4
<1>6. thread'[s].ask = <<p>>[0 + 1]
  BY <1>0, <1>4, <1>5
<1>7. thread'[s].ask = p
  BY <1>6
<1> QED BY <1>0, <1>3, <1>4, <1>7

\* What a pass may execute: nothing, or the call that is replayed.
LEMMA PassApproves ==
    ASSUME FlowTypeOK, NEW s \in Session, OneCall(s), ToolPass(s)
    PROVE  /\ Starts(s) => Approved(s) = <<>>
           /\ Replays(s) =>
                /\ Approved(s) \in {<<>>, <<graph[s].by>>}
                /\ graph[s].ready = <<graph[s].by>>
                   /\ thread[s].answers[1] = [id |-> graph[s].by, ok |-> TRUE] =>
                        Approved(s) = <<graph[s].by>>
<1>0. /\ graph[s].pc = "prepare" /\ Len(graph[s].ready) <= Len(thread[s].answers)
      /\ graph[s].ready \in {<<>>, thread[s].calls}
  BY ToolEffects DEF OneCall
<1> DEFINE at == {i \in DOMAIN graph[s].ready :
                    thread[s].answers[i] = [id |-> graph[s].ready[i], ok |-> TRUE]}
<1>1. Approved(s) = Chosen(graph[s].ready, at)
  BY DEF Approved
<1>2. graph[s].ready = <<graph[s].by>>
      /\ thread[s].answers[1] = [id |-> graph[s].by, ok |-> TRUE] => 1 \in at
  <2>1. 1 \in DOMAIN <<graph[s].by>> /\ <<graph[s].by>>[1] = graph[s].by
    OBVIOUS
  <2> QED BY <2>1
<1> HIDE DEF at
<1>3. ASSUME Starts(s) PROVE Approved(s) = <<>>
  <2>1. PICK p \in Proposal : thread[s].calls = <<p>>
    BY <1>3 DEF Starts
  <2>2. thread[s].answers = <<>> /\ Len(<<>>) = 0 /\ Len(<<p>>) = 1
    BY <1>3 DEF Starts
  <2>3. graph[s].ready = <<>>
    BY <1>0, <2>1, <2>2
  <2> QED BY <1>1, <2>3, ChosenFromShort
<1>4. ASSUME Replays(s)
      PROVE  Approved(s) = IF graph[s].ready = <<graph[s].by>> /\ 1 \in at
                           THEN <<graph[s].by>> ELSE <<>>
  <2>1. graph[s].ready \in {<<>>, <<graph[s].by>>} /\ <<>> # <<graph[s].by>>
    BY <1>0, <1>4 DEF Replays
  <2> QED BY <1>1, <2>1, ChosenFromShort
<1> QED BY <1>2, <1>3, <1>4

LEMMA TurnIsOneCall ==
    ASSUME FlowTypeOK, MaxCalls = 1, \A t \in Session : OneCall(t), NEW s \in Session,
           \/ TurnStep(s) \/ ChatStart(s) \/ AgentStop(s) \/ StreamBreaks(s)
           \/ \E p \in Proposal, text \in Content : AgentPreview(s, p, text)
           \/ \E calls \in Calls : AgentApply(s, calls)
    PROVE  \A t \in Session : OneCall(t)'
<1> DEFINE Fine == \A t \in Session : OneCall(t)'
<1>0. OneCall(s)
  OBVIOUS
<1>01. \A p : /\ Len(<<p>>) = 1 /\ Head(<<p>>) = p /\ Tail(<<p>>) = <<>>
              /\ Append(<<>>, p) = <<p>> /\ <<p>> # <<>>
  OBVIOUS
<1>1. ASSUME ChatStart(s) PROVE Fine
  <2>1. OneCall(s)'
    BY <1>1, AgentEffects, NoneAssumption DEF OneCall, Blank, Replays, Starts
  <2> QED BY <1>1, <2>1, AgentEffects, OneCallMoves
<1>2. ASSUME NEW p \in Proposal, NEW text \in Content, AgentPreview(s, p, text) PROVE Fine
  <2>1. /\ TurnGoesOn(s) /\ graph[s].pc = "agent" /\ graph'[s].pc = "remember"
    BY <1>2, AgentEffects
  <2>2. OneCall(s)'
    BY <1>0, <2>1 DEF OneCall, TurnGoesOn
  <2> QED BY <2>1, <2>2, OneCallMoves DEF TurnGoesOn
<1>3. ASSUME NEW calls \in Calls, AgentApply(s, calls) PROVE Fine
  <2>1. PICK p \in Proposal : calls = <<p>>
    <3>1. calls \in [1..1 -> Proposal]
      BY <1>3 DEF Calls
    <3>2. calls = <<calls[1]>> /\ calls[1] \in Proposal
      BY <3>1
    <3> QED BY <3>2
  <2>2. /\ OnlyTurn(s) /\ graph[s].pc = "agent"
        /\ graph'[s].by = graph[s].by /\ graph'[s].pc = "tools"
        /\ graph'[s].todo = calls /\ graph'[s].ready = <<>>
        /\ thread'[s].calls = calls /\ thread'[s].answers = <<>> /\ thread'[s].ask = None
    BY <1>3, AgentEffects
  <2>3. OneCall(s)'
    BY <1>0, <2>1, <2>2 DEF OneCall, Starts
  <2> QED BY <2>2, <2>3, OneCallMoves
<1>4. ASSUME AgentStop(s) \/ StreamBreaks(s) PROVE Fine
  <2>1. TurnEnds(s) /\ thread' = thread
    BY <1>4, AgentEffects, ApplyEffects
  <2>2. OneCall(s)'
    BY <1>0, <2>1, EndingIsOneCall DEF TurnEnds, OneCall
  <2> QED BY <2>1, <2>2, OneCallMoves DEF TurnEnds
<1>5. ASSUME ToolInterrupt(s) PROVE Fine
  <2>1. TurnEnds(s) /\ thread'[s].calls = <<thread'[s].ask>>
    <3>1. thread'[s].calls = thread[s].calls
      BY <1>5, ToolEffects
    <3> QED BY <1>0, <1>5, <3>1, ToolEffects, InterruptAsks
  <2>2. OneCall(s)'
    BY <2>1, EndingIsOneCall DEF TurnEnds
  <2> QED BY <2>1, <2>2, OneCallMoves DEF TurnEnds
<1>6. ASSUME RememberPrune(s) \/ RememberEvict(s) PROVE Fine
  <2>1. graph' = graph /\ thread' = thread
    BY <1>6, RememberEffects
  <2> QED BY <2>1 DEF OneCall, Replays, Starts
<1>7. ASSUME RememberSave(s) PROVE Fine
  <2>1. /\ TurnGoesOn(s) /\ graph[s].pc = "remember" /\ graph'[s].pc = "agent"
    BY <1>7, RememberEffects
  <2>2. OneCall(s)'
    BY <1>0, <2>1 DEF OneCall, TurnGoesOn
  <2> QED BY <2>1, <2>2, OneCallMoves DEF TurnGoesOn
<1>8. ASSUME ToolPrepare(s) PROVE Fine
  <2>1. /\ TurnGoesOn(s) /\ graph[s].pc \in {"tools", "prepare"} /\ graph[s].todo # <<>>
        /\ graph'[s].pc = "prepare" /\ graph'[s].todo = Tail(graph[s].todo)
        /\ graph'[s].ready \in {graph[s].ready, Append(graph[s].ready, Head(graph[s].todo))}
    BY <1>8, ToolEffects
  <2>2. graph[s].pc = "tools" /\ graph[s].todo = thread[s].calls /\ graph[s].ready = <<>>
    BY <1>0, <2>1 DEF OneCall
  <2>3. PICK p : thread[s].calls = <<p>>
    BY <1>0, <2>1 DEF OneCall, Replays, Starts
  <2>4. graph'[s].todo = <<>> /\ graph'[s].ready \in {<<>>, thread[s].calls}
    BY <1>01, <2>1, <2>2, <2>3
  <2>5. OneCall(s)'
    BY <1>0, <2>1, <2>2, <2>4 DEF OneCall, TurnGoesOn, Replays, Starts
  <2> QED BY <2>1, <2>5, OneCallMoves DEF TurnGoesOn
<1>9. ASSUME ToolPass(s) PROVE Fine
  <2>1. /\ TurnGoesOn(s) /\ graph[s].pc = "prepare"
        /\ graph'[s].pc = "execute" /\ graph'[s].todo = Approved(s)
    BY <1>9, ToolEffects
  <2>2. /\ Starts(s) => graph'[s].todo = <<>>
        /\ Replays(s) => graph'[s].todo \in {<<>>, <<graph[s].by>>}
    BY <1>0, <1>9, <2>1, PassApproves
  <2>3. OneCall(s)'
    BY <1>0, <2>1, <2>2 DEF OneCall, TurnGoesOn, Replays, Starts
  <2> QED BY <2>1, <2>3, OneCallMoves DEF TurnGoesOn
<1>10. ASSUME ApplyRefused(s) \/ ApplyApproved(s) PROVE Fine
  <2>1. /\ TurnGoesOn(s) /\ graph[s].pc = "execute" /\ graph[s].todo # <<>>
        /\ graph'[s].pc \in {"execute", "testing"}
        /\ graph'[s].todo \in {graph[s].todo, Tail(graph[s].todo)}
    BY <1>10, ApplyEffects
  <2>2. Replays(s) /\ graph[s].todo = <<graph[s].by>>
    BY <1>0, <2>1 DEF OneCall, Starts
  <2>3. graph'[s].todo \in {<<>>, <<graph[s].by>>}
    BY <1>01, <2>1, <2>2
  <2>4. OneCall(s)'
    BY <1>0, <2>1, <2>2, <2>3 DEF OneCall, TurnGoesOn, Replays
  <2> QED BY <2>1, <2>4, OneCallMoves DEF TurnGoesOn
<1>11. ASSUME ApplyReturns(s) PROVE Fine
  <2>1. /\ OnlyTurn(s) /\ thread' = thread /\ graph[s].pc = "testing"
        /\ graph'[s].by = graph[s].by
        /\ graph'[s].pc = "execute" /\ graph'[s].todo = Tail(graph[s].todo)
    BY <1>11, ApplyEffects
  <2>2. Replays(s) /\ graph[s].todo \in {<<>>, <<graph[s].by>>}
    BY <1>0, <2>1 DEF OneCall, Starts
  <2>3. graph[s].todo = <<>> => Tail(graph[s].todo) = <<>>
    OBVIOUS
  <2>4. graph'[s].todo = <<>>
    BY <1>01, <2>1, <2>2, <2>3
  <2>5. OneCall(s)'
    BY <1>0, <2>1, <2>2, <2>4 DEF OneCall, Replays
  <2> QED BY <2>1, <2>5, OneCallMoves
<1>12. ASSUME ToolsDone(s) PROVE Fine
  <2>1. /\ OnlyTurn(s) /\ graph[s].pc = "execute" /\ graph'[s].by = graph[s].by
        /\ graph'[s].pc = "agent" /\ thread'[s].ask = None
    BY <1>12, ToolEffects DEF Blank
  <2>2. OneCall(s)'
    BY <1>0, <2>1 DEF OneCall
  <2> QED BY <2>1, <2>2, OneCallMoves
<1> HIDE DEF Fine
<1>13. Fine
  BY <1>1, <1>2, <1>3, <1>4, <1>5, <1>6, <1>7, <1>8, <1>9, <1>10, <1>11, <1>12 DEF TurnStep
<1> QED BY <1>13 DEF Fine

LEMMA StepIsOneCall ==
    ASSUME FlowTypeOK, ConsentInv, MaxCalls = 1, \A s \in Session : OneCall(s), Next
    PROVE  \A s \in Session : OneCall(s)'
<1>1. ASSUME NEW p \in Proposal, RunStart(p) PROVE \A s \in Session : OneCall(s)'
  <2>1. PICK s \in Session : s = run[p].by
    BY <1>1, RunEffects
  <2>2. /\ OnlyTurn(s) /\ thread[s].ask = p
        /\ thread'[s].calls = thread[s].calls /\ thread'[s].ask = p
        /\ thread'[s].answers = Append(thread[s].answers, [id |-> p, ok |-> run[p].ok])
        /\ graph'[s] = [by |-> p, pc |-> "tools", todo |-> thread[s].calls, ready |-> <<>>]
    BY <1>1, <2>1, RunEffects
  <2>3. /\ graph'[s].by = p /\ graph'[s].pc = "tools"
        /\ graph'[s].todo = thread[s].calls /\ graph'[s].ready = <<>>
    BY <2>2
  <2>4. thread[s].calls = <<p>>
    BY <2>2, NoneAssumption DEF OneCall
  <2>5. thread'[s].answers # <<>>
    <3>1. thread[s].answers \in Seq(Answer) /\ [id |-> p, ok |-> run[p].ok] \in Answer
      BY DEF FlowTypeOK, Checkpoint, Run, Answer
    <3> QED BY <2>2, <3>1
  <2>6. OneCall(s)'
    BY <2>2, <2>3, <2>4, <2>5, NoneAssumption DEF OneCall, Replays
  <2> QED BY <2>2, <2>6, OneCallMoves
<1>2. ASSUME NEW p \in Proposal, RunStep(p) \/ RunUnrecorded(p), ~ RunStart(p)
      PROVE  UNCHANGED <<graph, thread>>
  BY <1>2, RunEffects DEF RunStep
<1>3. ASSUME Down PROVE \A s \in Session : OneCall(s)'
  <2>1. ASSUME NEW s \in Session PROVE OneCall(s)'
    <3>1. graph'[s] = Idle /\ thread'[s] = thread[s]
      BY <1>3 DEF Down
    <3> QED BY <3>1, EndingIsOneCall DEF OneCall
  <2> QED BY <2>1
<1>4. ASSUME UNCHANGED <<graph, thread>> PROVE \A s \in Session : OneCall(s)'
  BY <1>4 DEF OneCall, Replays, Starts
<1>5. ResumeClaim => UNCHANGED <<graph, thread>>
  BY DEF ResumeClaim
<1> QED BY <1>1, <1>2, <1>3, <1>4, <1>5, StepKinds, TurnIsOneCall

\* What a checkpoint asks for stays asked for, unless a run replays it.
LEMMA AsksStay ==
    ASSUME FlowTypeOK, ConsentInv, \A s \in Session : OneCall(s), Next,
           NEW s \in Session, NEW p \in Proposal, thread[s].ask = p, run[p].st # "running"
    PROVE  thread'[s].ask = p
<1>0. OneCall(s) /\ graph[s].by # p /\ p # None
  BY NoneAssumption DEF ConsentInv, TurnConsents
<1>1. ASSUME NEW t \in Session,
             \/ TurnStep(t) \/ ChatStart(t) \/ AgentStop(t) \/ StreamBreaks(t)
             \/ \E q \in Proposal, text \in Content : AgentPreview(t, q, text)
             \/ \E calls \in Calls : AgentApply(t, calls)
      PROVE  thread'[s].ask = p
  <2>1. thread' = thread \/ OnlyTurn(t)
    BY <1>1, AgentEffects, RememberEffects, ToolEffects, ApplyEffects
       DEF TurnStep, TurnGoesOn, TurnEnds
  <2>2. CASE t = s
    <3>1. ~ ChatStart(s)
      BY <1>0, AgentEffects
    <3>2. ASSUME NEW calls, AgentApply(s, calls) PROVE FALSE
      BY <1>0, <3>2, AgentEffects DEF OneCall
    <3>3. ~ ToolInterrupt(s)
      BY <1>0, InterruptAsks
    <3>4. ~ ToolsDone(s)
      BY <1>0, ToolEffects DEF OneCall, Replays, Starts
    <3>5. thread' = thread
      BY <1>1, <2>2, <3>1, <3>2, <3>3, <3>4, AgentEffects, RememberEffects, ToolEffects,
         ApplyEffects DEF TurnStep, TurnGoesOn
    <3> QED BY <3>5
  <2>3. CASE t # s
    BY <2>1, <2>3 DEF OnlyTurn
  <2> QED BY <2>2, <2>3
<1>2. ASSUME NEW q \in Proposal, RunStep(q) \/ RunUnrecorded(q) PROVE thread'[s].ask = p
  <2>1. CASE RunStart(q)
    <3>1. OnlyTurn(run[q].by) /\ thread[run[q].by].ask = q /\ thread'[run[q].by].ask = q
      BY <2>1, RunEffects
    <3> QED BY <3>1 DEF OnlyTurn
  <2>2. CASE ~ RunStart(q)
    BY <1>2, <2>2, RunEffects DEF RunStep
  <2> QED BY <2>1, <2>2
<1>3. Down \/ ResumeClaim => thread' = thread
  BY DEF Down, ResumeClaim
<1> QED BY <1>1, <1>2, <1>3, StepKinds

\* An approval that a request holds stays asked for while no run answers it.
LEMMA StepFits ==
    ASSUME FlowTypeOK, ConsentInv, \A s \in Session : OneCall(s), RequestFits, Next
    PROVE  RequestFits'
<1>1. ASSUME NEW s \in Session, NEW p \in Proposal, NEW ok \in BOOLEAN, ResumeCheck(s, p, ok)
      PROVE  RequestFits'
  <2>1. /\ req' = [by |-> s, id |-> p, ok |-> ok] /\ thread[s].ask = p /\ run[p].st = "none"
        /\ thread' = thread /\ run' = run
    BY <1>1 DEF ResumeCheck
  <2>2. req'.by = s /\ req'.id = p
    BY <2>1
  <2> QED BY <2>1, <2>2 DEF RequestFits
<1>2. ASSUME req' = None PROVE RequestFits'
  BY <1>2 DEF RequestFits
<1>3. CASE req' = req /\ req # None
  <2>1. req.by \in Session /\ req.id \in Proposal
    BY <1>3 DEF FlowTypeOK
  <2>2. thread[req.by].ask = req.id /\ run[req.id].st = "none"
    BY <1>3 DEF RequestFits
  <2>3. run'[req.id].st = "none"
    BY <1>3, <2>1, <2>2, RunsOpen DEF ResumeClaim
  <2>4. thread'[req.by].ask = req.id
    BY <2>1, <2>2, AsksStay
  <2> QED BY <1>3, <2>3, <2>4 DEF RequestFits
<1>4. \/ req' = None \/ req' = req
      \/ \E s \in Session, p \in Proposal, ok \in BOOLEAN : ResumeCheck(s, p, ok)
  <2>1. ASSUME NEW s \in Session,
               \/ TurnStep(s) \/ ChatStart(s) \/ AgentStop(s) \/ StreamBreaks(s)
               \/ \E p \in Proposal, text \in Content : AgentPreview(s, p, text)
               \/ \E calls \in Calls : AgentApply(s, calls)
        PROVE  req' = req
    BY <2>1 DEF TurnStep, RememberPrune, RememberEvict, RememberSave, ToolPrepare,
        ToolInterrupt, ToolPass, ApplyRefused, ApplyApproved, ApplyReturns, ToolsDone,
        ChatStart, AgentStop, StreamBreaks, AgentPreview, AgentApply
  <2>2. ASSUME NEW p \in Proposal,
               \/ RunStep(p) \/ RunUnrecorded(p) \/ ResumeOrphan(p) \/ SweepRow(p) \/ TimePasses(p)
        PROVE  req' = req
    BY <2>2 DEF RunStep, RunStart, RunDenied, RunComplete, RunUnrecorded, ResumeOrphan, SweepRow,
        TimePasses, flowVars
  <2>3. ASSUME \/ ApiStep \/ Down \/ Restart \/ \E text \in FileState : Edit(text)
        PROVE  req' = req \/ req' = None
    BY <2>3 DEF ApiStep, ResumeClaim, ResumeRefused, Down, Restart, Edit
  <2> QED BY <2>1, <2>2, <2>3 DEF Next, Crash, CrashBeforeWrite
<1> QED BY <1>1, <1>2, <1>3, <1>4

------------------------------------------------------------------------------
\* Outcomes while runs go on.

\* What a step does to an outcome.
LEMMA OutcomeMoves ==
    ASSUME FlowInv, Next, NEW p \in Proposal
    PROVE  \/ outcomes'[p] = outcomes[p]
           \/ outcomes[p] \in Terminal /\ outcomes'[p] = "absent"
           \/ ResumeClaim /\ p = req.id /\ outcomes'[p] = "applying"
           \/ RunComplete(p) /\ outcomes'[p] = RunResult(p)
           \/ SweepRow(p) /\ outcomes'[p] \in {"applied_recovered", "recovery_required"}
<1>0. StoreInv /\ Gen \in Generation
  BY GenAssumption DEF FlowInv
<1>1. CASE ResumeClaim
  <2>1. /\ req.id \in Proposal /\ req.by \in Session /\ req.id \notin Answered
        /\ ClaimOutcome(req.id, Gen, req.by)
    BY <1>1, ClaimConsents DEF FlowInv
  <2>2. outcomes[req.id] = "absent"
    BY <2>1 DEF FlowInv, AnswerInv
  <2>3. /\ outcomes'[req.id] = "applying"
        /\ \A q \in Proposal \ {req.id} :
              /\ outcomes[q] \in Terminal => outcomes'[q] \in {outcomes[q], "absent"}
              /\ outcomes[q] \notin Terminal => outcomes'[q] = outcomes[q]
    BY <1>0, <2>1, <2>2, ClaimOpens
  <2> QED BY <1>1, <2>3
<1>2. ASSUME NEW q \in Proposal, NEW state \in Terminal, CompleteByApproval(q, Gen, state)
      PROVE  \/ p # q /\ outcomes'[p] = outcomes[p]
             \/ p # q /\ outcomes[p] \in Terminal /\ outcomes'[p] = "absent"
             \/ p = q /\ outcomes'[p] = state
  BY <1>0, <1>2, CompletionSettles
<1>3. ASSUME NEW q \in Proposal, RunComplete(q)
      PROVE  \/ outcomes'[p] = outcomes[p]
             \/ outcomes[p] \in Terminal /\ outcomes'[p] = "absent"
             \/ RunComplete(p) /\ outcomes'[p] = RunResult(p)
  <2>1. CASE CompleteOutcome(q, Gen, run[q].by, RunResult(q))
    <3>1. RunResult(q) \in Terminal
      BY RunResultIsTerminal DEF FlowInv
    <3> QED BY <1>2, <1>3, <2>1, <3>1 DEF CompleteOutcome
  <2>2. CASE UNCHANGED storeVars
    BY <2>2 DEF storeVars
  <2> QED BY <1>3, <2>1, <2>2 DEF RunComplete
<1>4. ASSUME NEW q \in Proposal, SweepRow(q)
      PROVE  \/ outcomes'[p] = outcomes[p]
             \/ outcomes[p] \in Terminal /\ outcomes'[p] = "absent"
             \/ SweepRow(p) /\ outcomes'[p] \in {"applied_recovered", "recovery_required"}
  <2>1. PICK state \in {"applied_recovered", "recovery_required"} :
            CompleteByApproval(q, Gen, state)
    BY <1>4 DEF SweepRow, Reconcile
  <2>2. state \in Terminal
    BY DEF Terminal
  <2> QED BY <1>2, <1>4, <2>1, <2>2
<1>5. ASSUME NEW s \in Session, ApplyApproved(s) PROVE outcomes' = outcomes
  BY <1>5 DEF ApplyApproved, Consume
<1> QED BY <1>1, <1>3, <1>4, <1>5, QuietSteps

\* Crashes and faults are never forgotten.
LEMMA CountersGrow ==
    ASSUME FlowTypeOK, Next
    PROVE  /\ faults' = 0 => faults = 0
           /\ crashes' = 0 => crashes = 0 /\ ~ Down
<1>0. crashes \in Nat /\ faults \in Nat
  BY FlowBounds DEF FlowTypeOK
<1> DEFINE Fine == faults' \in {faults, faults + 1} /\ crashes' = crashes
<1> USE DEF countVars
<1>1. ASSUME NEW s \in Session, TurnStep(s) PROVE Fine
  BY <1>1 DEF TurnStep, RememberPrune, RememberEvict, RememberSave, ToolPrepare,
        ToolInterrupt, ToolPass, ApplyRefused, ApplyApproved, Fault, ApplyReturns, ToolsDone
<1>2. ASSUME NEW s \in Session,
             \/ ChatStart(s) \/ AgentStop(s) \/ StreamBreaks(s)
             \/ \E p \in Proposal, text \in Content : AgentPreview(s, p, text)
             \/ \E calls \in Calls : AgentApply(s, calls)
             \/ \E p \in Proposal, ok \in BOOLEAN : ResumeCheck(s, p, ok)
      PROVE  Fine
  BY <1>2 DEF ChatStart, AgentStop, StreamBreaks, Fault, AgentPreview, AgentApply, ResumeCheck
<1>3. ASSUME NEW p \in Proposal,
             \/ RunStep(p) \/ RunUnrecorded(p) \/ ResumeOrphan(p) \/ SweepRow(p) \/ TimePasses(p)
      PROVE  Fine
  BY <1>3 DEF RunStep, RunStart, RunDenied, RunComplete, RunUnrecorded, Fault, ResumeOrphan,
        SweepRow, TimePasses
<1>4. ASSUME ApiStep \/ Restart \/ \E text \in FileState : Edit(text) PROVE Fine
  BY <1>4 DEF ApiStep, ResumeClaim, ResumeRefused, Restart, Edit
<1>5. ASSUME Down PROVE faults' = faults /\ crashes' = crashes + 1
  BY <1>5 DEF Down
<1>6. Fine \/ Down
  BY <1>1, <1>2, <1>3, <1>4 DEF Next, Crash, CrashBeforeWrite
<1> QED BY <1>0, <1>5, <1>6

\* Unless something failed, no outcome is without a run that a request could see.
LEMMA NobodyIsSweptTwice ==
    ASSUME FlowInv, faults = 0, NEW p \in Proposal
    PROVE  ~ ResumeOrphan(p)
  BY DEF FlowInv, NoOrphan, ResumeOrphan, Free, Serving

\* Which steps stop the engine, or give it outcomes to reconcile.
LEMMA WhoSweeps ==
    ASSUME FlowInv, faults = 0, Next, ~ up' \/ sweep' # {}
    PROVE  Down \/ (run' = run /\ (~ up \/ sweep # {}))
           \/ (up' = up /\ sweep' = sweep)
<1> DEFINE Same == up' = up /\ sweep' = sweep
<1>1. ASSUME NEW s \in Session, TurnStep(s) PROVE Same
  BY <1>1 DEF TurnStep, RememberPrune, RememberEvict, RememberSave, ToolPrepare,
        ToolInterrupt, ToolPass, ApplyRefused, ApplyApproved, ApplyReturns, ToolsDone
<1>2. ASSUME NEW s \in Session,
             \/ ChatStart(s) \/ AgentStop(s) \/ StreamBreaks(s)
             \/ \E p \in Proposal, text \in Content : AgentPreview(s, p, text)
             \/ \E calls \in Calls : AgentApply(s, calls)
             \/ \E p \in Proposal, ok \in BOOLEAN : ResumeCheck(s, p, ok)
      PROVE  Same
  BY <1>2 DEF ChatStart, AgentStop, StreamBreaks, AgentPreview, AgentApply, ResumeCheck
<1>3. ASSUME NEW p \in Proposal, RunStep(p) \/ RunUnrecorded(p) \/ TimePasses(p) PROVE Same
  BY <1>3 DEF RunStep, RunStart, RunDenied, RunComplete, RunUnrecorded, TimePasses, flowVars
<1>4. ASSUME ApiStep \/ \E text \in FileState : Edit(text) PROVE Same
  BY <1>4 DEF ApiStep, ResumeClaim, ResumeRefused, Edit
<1>5. ASSUME Restart PROVE run' = run /\ ~ up
  BY <1>5 DEF Restart
<1>6. ASSUME NEW p \in Proposal, SweepRow(p) PROVE run' = run /\ sweep # {}
  BY <1>6 DEF SweepRow
<1> HIDE DEF Same
<1>7. Same \/ Down \/ (run' = run /\ (~ up \/ sweep # {}))
  BY <1>1, <1>2, <1>3, <1>4, <1>5, <1>6, NobodyIsSweptTwice DEF Next, Crash, CrashBeforeWrite
<1> QED BY <1>7 DEF Same

LEMMA StepApplies == FlowInv /\ RunsApply /\ Next => RunsApply'
<1> SUFFICES ASSUME FlowInv, RunsApply, Next, faults' = 0, NEW p \in Proposal, run'[p].st # "none"
             PROVE  outcomes'[p] = "applying" /\ up' /\ sweep' = {}
  BY DEF RunsApply
<1>0. /\ FlowTypeOK /\ ConsentInv /\ faults = 0
      /\ NoRun.st = "none"
  BY CountersGrow DEF FlowInv, NoRun
<1>1. ~ Down
  BY <1>0 DEF Down
<1>2. CASE run[p].st # "none"
  <2>1. outcomes[p] = "applying" /\ up /\ sweep = {}
    BY <1>0, <1>2 DEF RunsApply
  <2>2. ~ RunComplete(p)
    BY <1>0, RunEffects
  <2>3. ~ SweepRow(p)
    BY <2>1 DEF SweepRow
  <2>4. outcomes'[p] = "applying"
    BY <2>1, <2>2, <2>3, OutcomeMoves DEF Terminal
  <2>5. up' /\ sweep' = {}
    BY <1>0, <1>1, <2>1, WhoSweeps
  <2> QED BY <2>4, <2>5
<1>3. CASE run[p].st = "none"
  <2>1. ResumeClaim /\ p = req.id
    BY <1>0, <1>3, RunsOpen
  <2>2. up' /\ sweep' = {}
    BY <2>1 DEF ResumeClaim, Free, Serving
  <2>3. outcomes'[p] = "applying"
    <3>1. /\ req.by \in Session /\ req.id \notin Answered /\ ClaimOutcome(req.id, Gen, req.by)
      BY <2>1, ClaimConsents DEF FlowInv
    <3>2. outcomes[p] = "absent"
      BY <2>1, <3>1 DEF FlowInv, AnswerInv
    <3> QED BY <2>1, <3>1, <3>2, ClaimOpens, GenAssumption DEF FlowInv
  <2> QED BY <2>2, <2>3
<1> QED BY <1>2, <1>3

------------------------------------------------------------------------------
\* Rows, while memory has room for every proposal.

Roomy == IsFiniteSet(Proposal) /\ Cardinality(Proposal) <= MaxPending

\* What has lapsed or was overtaken stays so.
LEMMA ReasonsStay == Next => lapsed \subseteq lapsed' /\ overtaken \subseteq overtaken'
<1> SUFFICES ASSUME Next PROVE lapsed \subseteq lapsed' /\ overtaken \subseteq overtaken'
  OBVIOUS
<1>1. overtaken \subseteq overtaken'
  BY WhoOvertakes DEF Overtakes
<1>2. lapsed' = lapsed \/ \E p : Lapse(p)
  <2>1. ASSUME NEW s \in Session,
               \/ RememberPrune(s) \/ RememberEvict(s) \/ RememberSave(s)
               \/ ToolPrepare(s) \/ ApplyRefused(s) \/ ApplyApproved(s) \/ CrashBeforeWrite(s)
        PROVE  lapsed' = lapsed
    BY <2>1 DEF RememberPrune, RememberEvict, RememberSave, Forget, ToolPrepare, ApplyRefused,
          RequirePending, ApplyApproved, CrashBeforeWrite, Discard, LoadExpire, Save, Consume,
          storeVars
  <2>2. ASSUME NEW s \in Session,
               \/ ChatStart(s) \/ AgentStop(s) \/ StreamBreaks(s)
               \/ ToolInterrupt(s) \/ ToolPass(s) \/ ApplyReturns(s) \/ ToolsDone(s)
               \/ \E p \in Proposal, text \in Content : AgentPreview(s, p, text)
               \/ \E calls \in Calls : AgentApply(s, calls)
               \/ \E p \in Proposal, ok \in BOOLEAN : ResumeCheck(s, p, ok)
        PROVE  lapsed' = lapsed
    BY <2>2 DEF ChatStart, AgentStop, StreamBreaks, ToolInterrupt, ToolPass, ApplyReturns,
          ToolsDone, AgentPreview, AgentApply, ResumeCheck, storeVars
  <2>3. ASSUME NEW p \in Proposal,
               RunStep(p) \/ RunUnrecorded(p) \/ ResumeOrphan(p) \/ SweepRow(p)
        PROVE  lapsed' = lapsed
    BY <2>3 DEF RunStep, RunStart, RunDenied, RunComplete, RunUnrecorded, ResumeOrphan, SweepRow,
          CompleteOutcome, CompleteByApproval, Reconcile, storeVars
  <2>4. ASSUME ApiStep \/ Crash \/ Restart \/ \E text \in FileState : Edit(text)
        PROVE  lapsed' = lapsed
    BY <2>4 DEF ApiStep, ResumeClaim, ClaimOutcome, ResumeRefused, Crash, Restart, Edit, storeVars
  <2> QED BY <2>1, <2>2, <2>3, <2>4 DEF Next, TurnStep, TimePasses
<1> QED BY <1>1, <1>2 DEF Lapse

\* Nothing is evicted to make room.
LEMMA NothingIsEvicted ==
    ASSUME FlowInv, OrderInv, Roomy, NEW s \in Session, graph[s].pc = "remember"
    PROVE  Len(mem) < MaxPending
<1>1. graph[s].todo # <<>> /\ FlowTypeOK /\ TurnInv
  BY DEF FlowInv, TurnInv, TurnOK
<1>2. Head(graph[s].todo) \in Proposal /\ Head(graph[s].todo) \notin Ids(mem)
  BY <1>1, HeadIsPreviewed DEF OrderInv
<1>3. mem \in Seq(Proposal) /\ Distinct(mem)
  BY <1>1 DEF FlowTypeOK, OrderInv
<1>4. Len(mem) < Cardinality(Proposal)
  BY <1>2, <1>3, DistinctIsShort DEF Roomy
<1>5. Cardinality(Proposal) \in Nat /\ Len(mem) \in Nat /\ MaxPending \in Nat
  BY <1>3, FS_CardinalityType, MaxPendingAssumption DEF Roomy
<1> QED BY <1>4, <1>5 DEF Roomy

\* A save adds its row and its entry, and takes none away.
LEMMA SaveKeepsAll ==
    ASSUME FlowInv, OrderInv, Roomy, NEW s \in Session, RememberSave(s),
           NEW p, p = Head(graph[s].todo)
    PROVE  /\ p \in Proposal /\ p \notin Ids(saved) /\ changes'[p] = "pending"
           /\ \A q \in Proposal \ {p} : changes'[q] = changes[q]
           /\ Ids(mem') = Ids(mem) \cup {p} /\ Ids(saved') = Ids(saved) \cup {p}
<1>0. /\ FlowTypeOK /\ TurnInv /\ saved \in Seq(Proposal) /\ mem \in Seq(Proposal)
      /\ Distinct(saved) /\ Distinct(mem)
  BY DEF FlowInv, FlowTypeOK, StoreInv, StoreTypeOK, OrderInv
<1>1. graph[s].pc = "remember" /\ graph[s].todo # <<>>
  BY <1>0 DEF RememberSave, TurnInv, TurnOK
<1>2. p \in Proposal /\ p \notin Ids(saved)
  BY <1>0, <1>1, HeadIsPreviewed DEF OrderInv
<1>3. Save(p, Gen) /\ mem' = Append(Without(mem, EvictedBy(p, Gen)), p)
  BY DEF RememberSave
<1>4. /\ Append(saved, p) \in Seq(Proposal) /\ Distinct(Append(saved, p))
      /\ Ids(Append(saved, p)) = Ids(saved) \cup {p}
  BY <1>0, <1>2, AppendIsDistinct, AppendIds
<1>5. \A rows \in SUBSET Proposal : Overflow(rows, Append(saved, p), MaxPending) = {}
  BY <1>4, NothingOverflows DEF Roomy
<1>6. EvictedBy(p, Gen) = {}
  <2>1. \A table, scope : PendingIn(table, scope, Gen) \in SUBSET Proposal
    BY DEF PendingIn
  <2> QED BY <1>5, <2>1 DEF EvictedBy
<1> DEFINE kept == [q \in Proposal |-> IF q \in EvictedBy(p, Gen) THEN "evicted"
                                       ELSE IF q = p THEN "pending" ELSE changes[q]]
           pruned == Overflow(Prunable(kept, gen', Gen), saved', MaxPending)
<1>7. changes' = [q \in Proposal |-> IF q \in pruned THEN "absent" ELSE kept[q]]
      /\ saved' = Append(saved, p)
  BY <1>3 DEF Save
<1>8. pruned = {}
  <2>1. Prunable(kept, gen', Gen) \in SUBSET Proposal
    BY DEF Prunable
  <2> QED BY <1>5, <1>7, <2>1
<1>9. kept = [q \in Proposal |-> IF q = p THEN "pending" ELSE changes[q]]
  BY <1>6
<1> HIDE DEF kept, pruned
<1>10. changes'[p] = "pending" /\ \A q \in Proposal \ {p} : changes'[q] = changes[q]
  BY <1>2, <1>7, <1>8, <1>9
<1>11. Ids(mem') = Ids(mem) \cup {p}
  <2>1. /\ Without(mem, EvictedBy(p, Gen)) \in Seq(Proposal)
        /\ Ids(Without(mem, EvictedBy(p, Gen))) = Ids(mem) \ EvictedBy(p, Gen)
    BY <1>0, WithoutIsDistinct, WithoutRemoves
  <2>2. Ids(mem') = Ids(Without(mem, EvictedBy(p, Gen))) \cup {p}
    BY <1>2, <1>3, <2>1, AppendIds
  <2> QED BY <1>6, <2>1, <2>2
<1> QED BY <1>2, <1>4, <1>7, <1>10, <1>11

\* What a step does to the row of a change that has not lapsed, and to its entry.
LEMMA RowMoves ==
    ASSUME FlowInv, OrderInv, Roomy, Next, ~ Down, NEW p \in Proposal, p \notin lapsed
    PROVE  \/ /\ changes'[p] = changes[p] /\ (p \in Ids(mem) => p \in Ids(mem'))
              /\ p \in Ids(saved') => p \in Ids(saved)
           \/ changes'[p] = "pending" /\ p \in Ids(mem') /\ p \notin Ids(saved)
           \/ /\ \E s \in Session : ApplyApproved(s) /\ p = Head(graph[s].todo)
              /\ changes'[p] = "consumed" /\ saved' = saved
           \/ /\ ResumeClaim /\ p = req.id /\ changes[p] = "pending" /\ changes'[p] = "claimed"
              /\ mem' = mem /\ saved' = saved
<1> DEFINE Same == changes'[p] = changes[p] /\ (p \in Ids(mem) => p \in Ids(mem')) /\ saved' = saved
<1>0. /\ FlowTypeOK /\ TurnInv /\ mem \in Seq(Proposal) /\ Distinct(mem)
      /\ changes \in [Proposal -> ChangeState \cup {"absent"}]
  BY DEF FlowInv, FlowTypeOK, StoreInv, StoreTypeOK, OrderInv
<1>1. \A q : Ids(Without(mem, {q})) = Ids(mem) \ {q}
  BY <1>0, WithoutIsDistinct
<1>2. ASSUME NEW q \in Proposal, RequirePending(q) PROVE Same
  <2>1. CASE q \in lapsed
    <3>1. /\ mem' = Without(mem, {q}) /\ saved' = saved
          /\ changes' = changes \/ \E state : changes' = [changes EXCEPT ![q] = state]
      BY <1>2, <2>1 DEF RequirePending, Discard, LoadExpire, storeVars
    <3> QED BY <1>0, <1>1, <2>1, <3>1
  <2>2. CASE q \notin lapsed
    <3>1. changes' = changes /\ saved' = saved /\ mem' \in {mem, Append(mem, q)}
      BY <1>2, <2>2 DEF RequirePending, storeVars
    <3>2. Ids(Append(mem, q)) = Ids(mem) \cup {q}
      BY <1>0, AppendIds
    <3> QED BY <3>1, <3>2
  <2> QED BY <2>1, <2>2
<1>3. ASSUME NEW s \in Session, RememberPrune(s) PROVE Same
  <2>1. PICK q \in Ids(mem) \cap lapsed : Forget(q, "expired")
    BY <1>3 DEF RememberPrune
  <2>2. /\ mem' = Without(mem, {q}) /\ saved' = saved /\ q # p
        /\ changes' = changes \/ changes' = [changes EXCEPT ![q] = "expired"]
    BY <2>1 DEF Forget, Discard, storeVars
  <2> QED BY <1>0, <1>1, <2>2
<1>4. ASSUME NEW s \in Session, RememberEvict(s) PROVE FALSE
  <2>1. graph[s].pc = "remember" /\ Len(mem) >= MaxPending
    BY <1>4 DEF RememberEvict
  <2>2. Len(mem) < MaxPending /\ Len(mem) \in Nat /\ MaxPending \in Nat
    BY <1>0, <2>1, NothingIsEvicted, MaxPendingAssumption
  <2> QED BY <2>1, <2>2
<1>5. ASSUME NEW s \in Session, RememberSave(s)
      PROVE  \/ /\ changes'[p] = changes[p] /\ (p \in Ids(mem) => p \in Ids(mem'))
                /\ p \in Ids(saved') => p \in Ids(saved)
             \/ changes'[p] = "pending" /\ p \in Ids(mem') /\ p \notin Ids(saved)
  BY <1>5, SaveKeepsAll
<1>6. ASSUME NEW s \in Session, ToolPrepare(s) \/ ApplyRefused(s) PROVE Same
  <2>1. graph[s].todo # <<>> /\ RequirePending(Head(graph[s].todo))
    BY <1>6 DEF ToolPrepare, ApplyRefused, Executing
  <2> QED BY <1>0, <1>2, <2>1, HeadIsPreviewed
<1>7. ASSUME NEW s \in Session, ApplyApproved(s)
      PROVE  Same \/ (p = Head(graph[s].todo) /\ changes'[p] = "consumed" /\ saved' = saved)
  <2>1. /\ mem' = Without(mem, {Head(graph[s].todo)}) /\ saved' = saved
        /\ changes' = [changes EXCEPT ![Head(graph[s].todo)] = "consumed"]
    BY <1>7 DEF ApplyApproved, Consume
  <2> QED BY <1>0, <1>1, <2>1
<1>8. ASSUME ResumeClaim
      PROVE  \/ Same
             \/ /\ p = req.id /\ changes[p] = "pending" /\ changes'[p] = "claimed"
                /\ mem' = mem /\ saved' = saved
  <2>1. /\ changes' = [changes EXCEPT ![req.id] = "claimed"] /\ changes[req.id] = "pending"
        /\ mem' = mem /\ saved' = saved
    BY <1>8 DEF ResumeClaim, ClaimOutcome, Claimable
  <2> QED BY <1>0, <2>1
<1>9. UNCHANGED <<mem, changes, saved>> => Same
  OBVIOUS
<1> QED BY <1>3, <1>4, <1>5, <1>6, <1>7, <1>8, <1>9, QuietMemory DEF Crash, CrashBeforeWrite

------------------------------------------------------------------------------
\* Nothing disturbs a change on its way.

LEMMA CalmStep ==
    ASSUME FlowInv, Next, Undisturbed'
    PROVE  /\ Undisturbed /\ Roomy /\ ~ Down /\ crashes' = 0 /\ faults' = 0 /\ faults = 0
           /\ up /\ sweep = {} => up' /\ sweep' = {}
<1>1. /\ crashes' = 0 /\ faults' = 0 /\ MaxCalls = 1
      /\ IsFiniteSet(Proposal) /\ Cardinality(Proposal) <= MaxPending
  BY DEF Undisturbed
<1>2. crashes = 0 /\ faults = 0 /\ ~ Down
  BY <1>1, CountersGrow DEF FlowInv
<1>3. up /\ sweep = {} => up' /\ sweep' = {}
  BY <1>2, WhoSweeps
<1> QED BY <1>1, <1>2, <1>3 DEF Undisturbed, Roomy

LEMMA StepKeeps ==
    ASSUME FlowInv, FlowInv', OrderInv, Kept, Roomy, Next, ~ Down
    PROVE  Kept'
<1> SUFFICES ASSUME NEW p \in Ids(saved') \ lapsed'
             PROVE  /\ changes'[p] \in {"pending", "claimed", "consumed"}
                    /\ changes'[p] # "consumed" => p \in Ids(mem')
  BY DEF Kept
<1>1. p \in Proposal /\ p \notin lapsed
  <2>1. saved' \in Seq(Proposal)
    BY DEF FlowInv, StoreInv, StoreTypeOK
  <2> QED BY <2>1, ReasonsStay, IdsOf
<1>2. p \in Ids(saved) => /\ changes[p] \in {"pending", "claimed", "consumed"}
                          /\ changes[p] # "consumed" => p \in Ids(mem)
  BY <1>1 DEF Kept
<1> QED BY <1>1, <1>2, RowMoves

\* Only a change whose time ran out or whose file was changed is refused.
LEMMA StepReasons ==
    ASSUME FlowInv, \A p \in Proposal : Serves(p), FailedHasReason, Next
    PROVE  FailedHasReason'
<1> SUFFICES ASSUME NEW p \in Proposal, outcomes'[p] = "failed"
             PROVE  p \in lapsed' \cup overtaken'
  BY DEF FailedHasReason
<1>1. lapsed \subseteq lapsed' /\ overtaken \subseteq overtaken'
  BY ReasonsStay
<1>2. CASE outcomes[p] = "failed"
  BY <1>1, <1>2 DEF FailedHasReason
<1>3. CASE RunComplete(p) /\ RunResult(p) = "failed"
  <2>1. run[p].st = "finishing"
    BY <1>3, RunEffects DEF FlowInv
  <2>2. run[p].got \in {"nothing", "file_change", "verification"}
    BY DEF FlowInv, FlowTypeOK, Run
  <2>3. run[p].ok
    BY <1>3 DEF RunResult
  <2>4. run[p].got = "nothing"
    BY <1>3, <2>2, <2>3 DEF RunResult
  <2> QED BY <1>1, <2>1, <2>3, <2>4 DEF Serves, Due
<1> QED BY <1>2, <1>3, OutcomeMoves

\* Who holds a session whose checkpoint asks is the run that answers.
LEMMA AskedIsRun ==
    ASSUME FlowTypeOK, ConsentInv, NEW s \in Session, OneCall(s),
           thread[s].ask # None, graph[s].by # None
    PROVE  /\ graph[s].by = thread[s].ask /\ thread[s].ask \in Proposal /\ Replays(s)
           /\ run[thread[s].ask].st = "running" /\ run[thread[s].ask].by = s
<1>1. thread[s].ask \in Proposal /\ graph[s].pc \in Place
  BY DEF FlowTypeOK, Checkpoint, Turn, Place
<1>2. graph[s].pc \in {"tools", "prepare", "execute", "testing"}
  BY <1>1 DEF OneCall, Place
<1>3. Replays(s)
  BY <1>2 DEF OneCall, Starts
<1> QED BY <1>1, <1>3 DEF Replays, ConsentInv, TurnConsents

LEMMA StepAnswersFit ==
    ASSUME FlowInv, OneCallInv, MaxCalls = 1, \A s \in Session : AnswersFit(s),
           Next, ~ Down, faults = 0, faults' = 0, NEW s \in Session
    PROVE  AnswersFit(s)'
<1> SUFFICES ASSUME thread'[s].ask # None PROVE AnswersFit(s)'
  BY DEF AnswersFit
<1>0. /\ FlowTypeOK /\ ConsentInv /\ OneCall(s) /\ AnswersFit(s)
      /\ \A p \in Proposal : p # None
  BY NoneAssumption DEF FlowInv, OneCallInv
<1>1. ASSUME graph'[s].by = graph[s].by, thread'[s] = thread[s],
             thread[s].ask # None /\ graph[s].by # None =>
                run'[thread[s].ask].ok = run[thread[s].ask].ok
      PROVE  AnswersFit(s)'
  BY <1>0, <1>1 DEF AnswersFit
<1>2. ASSUME NEW t \in Session,
             \/ TurnStep(t) \/ ChatStart(t) \/ AgentStop(t) \/ StreamBreaks(t)
             \/ \E p \in Proposal, text \in Content : AgentPreview(t, p, text)
             \/ \E calls \in Calls : AgentApply(t, calls)
      PROVE  AnswersFit(s)'
  <2>1. \A p \in Proposal : run'[p].ok = run[p].ok
    <3>1. CASE AgentStop(t) \/ StreamBreaks(t) \/ ToolInterrupt(t)
      <4>1. TurnEnds(t)
        BY <1>0, <3>1, AgentEffects, ApplyEffects, ToolEffects
      <4> QED BY <4>1 DEF TurnEnds
    <3>2. CASE ApplyReturns(t)
      BY <1>0, <3>2, ApplyEffects
    <3>3. CASE ~ (AgentStop(t) \/ StreamBreaks(t) \/ ToolInterrupt(t) \/ ApplyReturns(t))
      <4>1. run' = run
        BY <1>0, <1>2, <3>3, AgentEffects, RememberEffects, ToolEffects, ApplyEffects
           DEF TurnStep, TurnGoesOn
      <4> QED BY <4>1
    <3> QED BY <3>1, <3>2, <3>3
  <2>2. \/ graph' = graph /\ thread' = thread
        \/ OnlyTurn(t)
    BY <1>0, <1>2, AgentEffects, RememberEffects, ToolEffects, ApplyEffects
       DEF TurnStep, TurnGoesOn, TurnEnds
  <2>3. thread[s].ask # None => thread[s].ask \in Proposal
    BY <1>0 DEF FlowTypeOK, Checkpoint
  <2>4. CASE t # s
    BY <1>1, <2>1, <2>2, <2>3, <2>4 DEF OnlyTurn
  <2>5. CASE t = s
    <3>1. CASE ToolInterrupt(s)
      <4>1. thread[s].answers = <<>> /\ thread'[s].answers = thread[s].answers /\ graph'[s] = Idle
        BY <1>0, <3>1, InterruptAsks, ToolEffects DEF TurnEnds
      <4> QED BY <4>1, RestIs DEF AnswersFit
    <3>2. ~ ChatStart(s) /\ ~ ToolsDone(s) /\ \A calls : ~ AgentApply(s, calls)
      BY <1>0, AgentEffects, ToolEffects DEF Blank
    <3>3. ~ AgentStop(s)
      <4> SUFFICES ASSUME AgentStop(s) PROVE FALSE
        OBVIOUS
      <4>1. thread' = thread /\ graph[s].pc = "agent"
        BY <1>0, AgentEffects
      <4> QED BY <1>0, <4>1 DEF OneCall
    <3>4. ~ StreamBreaks(s)
      BY <1>0, ApplyEffects
    <3>5. CASE ~ ToolInterrupt(s)
      <4>1. graph'[s].by = graph[s].by /\ thread' = thread
        BY <1>0, <1>2, <2>5, <3>2, <3>3, <3>4, <3>5, AgentEffects, RememberEffects, ToolEffects,
           ApplyEffects DEF TurnStep, TurnGoesOn
      <4> QED BY <1>1, <2>1, <2>3, <4>1
    <3> QED BY <3>1, <3>5
  <2> QED BY <2>4, <2>5
<1>3. ASSUME NEW p \in Proposal, RunStart(p) PROVE AnswersFit(s)'
  <2>1. /\ OnlyTurn(run[p].by) /\ graph[run[p].by].by = None /\ thread[run[p].by].ask = p
        /\ thread'[run[p].by].ask = p
        /\ thread'[run[p].by].answers =
                Append(thread[run[p].by].answers, [id |-> p, ok |-> run[p].ok])
        /\ graph'[run[p].by] = [by |-> p, pc |-> "tools",
                                todo |-> thread[run[p].by].calls, ready |-> <<>>]
    BY <1>0, <1>3, RunEffects
  <2>0. \A q \in Proposal : run'[q].ok = run[q].ok
    <3>1. run'[p].ok = run[p].ok /\ \A q \in Proposal \ {p} : run'[q] = run[q]
      BY <1>0, <1>3, RunEffects
    <3> QED BY <3>1
  <2>2. CASE s = run[p].by
    <3>1. thread[s].answers = <<>>
      BY <1>0, <2>1, <2>2 DEF AnswersFit
    <3>2. thread'[s].answers = <<[id |-> p, ok |-> run[p].ok]>>
      BY <2>1, <2>2, <3>1
    <3>3. graph'[s].by = p
      BY <2>1, <2>2
    <3> QED BY <1>0, <2>0, <2>1, <2>2, <3>2, <3>3 DEF AnswersFit
  <2>3. CASE s # run[p].by
    BY <1>0, <1>1, <2>0, <2>1, <2>3, AskedIsRun DEF OnlyTurn
  <2> QED BY <2>2, <2>3
<1>4. ASSUME NEW p \in Proposal, RunStep(p) \/ RunUnrecorded(p), ~ RunStart(p)
      PROVE  AnswersFit(s)'
  <2>1. /\ UNCHANGED <<graph, thread>> /\ run[p].st # "running"
        /\ \A q \in Proposal \ {p} : run'[q] = run[q]
    BY <1>0, <1>4, RunEffects DEF RunStep
  <2> QED BY <1>0, <1>1, <2>1, AskedIsRun
<1>5. ASSUME ResumeClaim PROVE AnswersFit(s)'
  <2>1. /\ UNCHANGED <<graph, thread>> /\ run[req.id].st = "none"
        /\ \A q \in Proposal \ {req.id} : run'[q] = run[q]
    BY <1>5, ClaimConsents DEF ResumeClaim, FlowInv, FlowTypeOK
  <2> QED BY <1>0, <1>1, <2>1, AskedIsRun
<1>6. ASSUME UNCHANGED <<graph, thread, run>> PROVE AnswersFit(s)'
  BY <1>1, <1>6
<1> QED BY <1>2, <1>3, <1>4, <1>5, <1>6, StepKinds

\* Only its own run takes a claimed change.
LEMMA ClaimedStays ==
    ASSUME FlowInv, OrderInv, Roomy, Next, ~ Down, \A s \in Session : OneCall(s),
           NEW p \in Proposal, p \notin lapsed, changes[p] = "claimed"
    PROVE  \/ changes'[p] = "claimed"
           \/ /\ run[p].st = "running"
              /\ \E s \in Session : ApplyApproved(s) /\ graph[s].by = p /\ run[p].by = s
<1>1. p \in Ids(saved)
  BY DEF FlowInv, StoreInv, UnsavedIsAbsent
<1>2. ASSUME NEW s \in Session, ApplyApproved(s), p = Head(graph[s].todo)
      PROVE  run[p].st = "running" /\ graph[s].by = p /\ run[p].by = s
  <2>1. graph[s].pc = "execute" /\ graph[s].todo # <<>>
    BY <1>2, ApplyEffects DEF FlowInv
  <2>2. graph[s].todo = <<graph[s].by>> /\ Head(<<graph[s].by>>) = graph[s].by
    BY <2>1 DEF OneCall
  <2>3. graph[s].by = p
    BY <1>2, <2>2
  <2> QED BY <2>3 DEF FlowInv, ConsentInv, TurnConsents
<1> QED BY <1>1, <1>2, RowMoves

\* A claimed change whose time has not run out and whose file is as it was can be applied.
LEMMA AtHand ==
    ASSUME FlowInv, OvertakenInv, OrderInv, Kept, NEW p \in Proposal,
           run[p].st # "none", run[p].ok, changes[p] = "claimed", p \notin lapsed \cup overtaken
    PROVE  Available(p) /\ Consumable(p, Gen) /\ TargetAsPreviewed(p)
<1>1. p \in Ids(saved)
  BY DEF FlowInv, ConsentInv, RunConsents, AnswerInv, Answered
<1>2. p \in Ids(mem) /\ patch[p] # None /\ gen[p] = Gen
  BY <1>1 DEF Kept, OrderInv, Previewed, FlowInv, HereInv
<1> QED BY <1>2 DEF Available, Consumable, TargetAsPreviewed, OvertakenInv

\* Once its run has started, a change is prepared, passes, and is applied.
LEMMA OnTheWay ==
    ASSUME FlowInv, OvertakenInv, OrderInv, Kept, Roomy, Next, ~ Down, faults = 0, faults' = 0,
           \A t \in Session : OneCall(t), NEW s \in Session, AnswersFit(s),
           NEW p \in Proposal, OnItsWay(p, s), Due(p), Due(p)',
           \/ TurnStep(s) \/ ChatStart(s) \/ AgentStop(s) \/ StreamBreaks(s)
           \/ \E q \in Proposal, text \in Content : AgentPreview(s, q, text)
           \/ \E calls \in Calls : AgentApply(s, calls)
    PROVE  OnItsWay(p, s)'
<1>0. /\ FlowTypeOK /\ OneCall(s) /\ p # None
      /\ thread[s].ask = p /\ graph[s].by = p
      /\ graph[s].pc \in {"tools", "prepare", "execute", "testing"}
      /\ run[p].st = "running" /\ run[p].by = s
  BY NoneAssumption DEF FlowInv, OnItsWay, ConsentInv, TurnConsents
<1>01. Replays(s)
  BY <1>0 DEF OneCall, Starts
<1>02. Head(<<p>>) = p /\ Append(<<>>, p) = <<p>> /\ <<p>> # <<>>
  OBVIOUS
<1>1. graph[s].pc # "testing" =>
        Available(p) /\ Consumable(p, Gen) /\ TargetAsPreviewed(p)
  BY <1>0, AtHand DEF Due, OnItsWay
<1>2. ASSUME ~ ApplyApproved(s), graph[s].pc # "testing" PROVE changes'[p] = "claimed"
  <2>1. changes[p] = "claimed" /\ p \notin lapsed
    BY <1>2 DEF OnItsWay, Due
  <2> QED BY <1>0, <1>2, <2>1, ClaimedStays
<1>3. /\ ~ ChatStart(s) /\ ~ AgentStop(s) /\ ~ RememberSave(s)
      /\ \A q, text : ~ AgentPreview(s, q, text)
      /\ \A calls : ~ AgentApply(s, calls)
  BY <1>0, AgentEffects, RememberEffects
<1>4. ~ RememberPrune(s) /\ ~ RememberEvict(s)
  BY <1>0 DEF RememberPrune, RememberEvict
<1>5. ~ StreamBreaks(s)
  BY <1>0, ApplyEffects
<1>6. ~ ToolInterrupt(s)
  BY <1>0, InterruptAsks
<1>7. ~ ToolsDone(s)
  BY <1>0, <1>02, ToolEffects DEF OnItsWay
<1>8. ~ ApplyRefused(s)
  <2> SUFFICES ASSUME ApplyRefused(s) PROVE FALSE
    OBVIOUS
  <2>1. graph[s].pc = "execute" /\ graph[s].todo = <<p>>
    BY <1>0, ApplyEffects DEF OnItsWay
  <2>2. ~ (Available(p) /\ Consumable(p, Gen))
    BY <1>02, <2>1 DEF ApplyRefused
  <2> QED BY <1>1, <2>1, <2>2
<1>9. ~ ApplyReturns(s)
  <2> SUFFICES ASSUME ApplyReturns(s) PROVE FALSE
    OBVIOUS
  <2>1. graph[s].pc = "testing" /\ graph[s].todo = <<p>>
    BY <1>0, ApplyEffects DEF OnItsWay
  <2>2. p = graph[s].by /\ p = Head(graph[s].todo)
    BY <1>0, <1>02, <2>1
  <2>3. run'[p].got = "verification"
    BY <1>0, <2>2, ApplyEffects
  <2> QED BY <2>3 DEF Due
<1>10. ASSUME ToolPrepare(s) PROVE OnItsWay(p, s)'
  <2>1. /\ TurnGoesOn(s) /\ graph[s].pc \in {"tools", "prepare"} /\ graph[s].todo # <<>>
        /\ graph'[s].pc = "prepare"
        /\ Available(Head(graph[s].todo)) /\ TargetAsPreviewed(Head(graph[s].todo)) =>
                graph'[s].ready = Append(graph[s].ready, Head(graph[s].todo))
    BY <1>0, <1>10, ToolEffects
  <2>2. graph[s].todo = <<p>> /\ graph[s].ready = <<>>
    BY <1>0, <1>01, <2>1 DEF OneCall, Replays
  <2>3. Available(p) /\ TargetAsPreviewed(p)
    BY <1>1, <2>1
  <2>4. graph'[s].ready = <<p>>
    BY <1>02, <2>1, <2>2, <2>3
  <2>5. ~ ApplyApproved(s) /\ graph[s].pc # "testing"
    BY <1>0, <2>1, ApplyEffects
  <2> QED BY <1>0, <1>2, <2>1, <2>4, <2>5 DEF TurnGoesOn, OnItsWay
<1>11. ASSUME ToolPass(s) PROVE OnItsWay(p, s)'
  <2>1. /\ TurnGoesOn(s) /\ graph[s].pc = "prepare"
        /\ graph'[s].pc = "execute" /\ graph'[s].todo = Approved(s)
    BY <1>0, <1>11, ToolEffects
  <2>2. graph[s].ready = <<graph[s].by>>
    BY <1>0, <2>1 DEF OnItsWay
  <2>3. run[p].ok = TRUE
    BY <1>0 DEF Due, FlowTypeOK, Run
  <2>4. thread[s].answers = <<[id |-> p, ok |-> TRUE]>>
    BY <1>0, <2>3 DEF AnswersFit
  <2>5. thread[s].answers[1] = [id |-> graph[s].by, ok |-> TRUE]
    <3>1. \A a : <<a>>[1] = a
      OBVIOUS
    <3> QED BY <1>0, <2>4, <3>1
  <2>6. Approved(s) = <<graph[s].by>>
    BY <1>0, <1>01, <1>11, <2>2, <2>5, PassApproves
  <2>7. ~ ApplyApproved(s) /\ graph[s].pc # "testing"
    BY <1>0, <2>1, ApplyEffects
  <2> QED BY <1>0, <1>2, <2>1, <2>6, <2>7 DEF TurnGoesOn, OnItsWay
<1>12. ASSUME ApplyApproved(s) PROVE OnItsWay(p, s)'
  <2>1. graph[s].pc = "execute" /\ graph[s].todo = <<p>>
    BY <1>0, <1>12, ApplyEffects DEF OnItsWay
  <2>2. TargetAsPreviewed(Head(graph[s].todo))
    BY <1>1, <1>02, <2>1
  <2>3. /\ TurnGoesOn(s) /\ graph'[s].pc = "testing" /\ graph'[s].todo = graph[s].todo
    BY <1>0, <1>12, <2>2, ApplyEffects
  <2> QED BY <1>0, <2>1, <2>3 DEF TurnGoesOn, OnItsWay
<1> QED BY <1>3, <1>4, <1>5, <1>6, <1>7, <1>8, <1>9, <1>10, <1>11, <1>12 DEF TurnStep

\* A run that is still due was so before, unless its request is claimed only now; it
\* stays as it was, or it starts, or is denied, or its turn ends.
LEMMA DueRuns ==
    ASSUME FlowInv, Next, ~ Down, NEW p \in Proposal, Due(p)'
    PROVE  \/ ResumeClaim /\ p = req.id
           \/ /\ Due(p)
              /\ \/ run'[p] = run[p]
                 \/ RunStart(p) \/ RunDenied(p)
                 \/ \E s \in Session :
                        /\ AgentStop(s) \/ StreamBreaks(s) \/ ToolInterrupt(s)
                        /\ TurnEnds(s) /\ graph[s].by = p
<1> DEFINE Ends == \E s \in Session :
                        /\ AgentStop(s) \/ StreamBreaks(s) \/ ToolInterrupt(s)
                        /\ TurnEnds(s) /\ graph[s].by = p
<1>0. /\ FlowTypeOK /\ ConsentInv
      /\ run'[p].ok /\ run'[p].got = "nothing" /\ p \notin lapsed \cup overtaken
  BY ReasonsStay DEF FlowInv, Due
<1>1. run'[p].ok = run[p].ok /\ run'[p].got = run[p].got => Due(p)
  BY <1>0 DEF Due
<1>2. run'[p] = run[p] => Due(p)
  BY <1>1
<1>3. ASSUME NEW s \in Session, AgentStop(s) \/ StreamBreaks(s) \/ ToolInterrupt(s)
      PROVE  run'[p] = run[p] \/ (Due(p) /\ Ends)
  <2>1. TurnEnds(s)
    BY <1>0, <1>3, AgentEffects, ApplyEffects, ToolEffects
  <2>2. CASE graph[s].by = p
    <3>1. run'[p].ok = run[p].ok /\ run'[p].got \in {run[p].got, "file_change"}
      BY <2>1, <2>2 DEF TurnEnds
    <3> QED BY <1>0, <1>1, <1>3, <2>1, <2>2, <3>1
  <2>3. CASE graph[s].by # p
    BY <2>1, <2>3 DEF TurnEnds
  <2> QED BY <2>2, <2>3
<1>4. ASSUME NEW s \in Session, ApplyReturns(s) PROVE run'[p] = run[p]
  <2>1. IF p = graph[s].by /\ p = Head(graph[s].todo)
        THEN run'[p].got = "verification" ELSE run'[p] = run[p]
    BY <1>0, <1>4, ApplyEffects
  <2> QED BY <1>0, <2>1
<1>5. ASSUME NEW s \in Session,
             ~ (AgentStop(s) \/ StreamBreaks(s) \/ ToolInterrupt(s) \/ ApplyReturns(s)),
             \/ TurnStep(s) \/ ChatStart(s)
             \/ \E q \in Proposal, text \in Content : AgentPreview(s, q, text)
             \/ \E calls \in Calls : AgentApply(s, calls)
      PROVE  run'[p] = run[p]
  <2>1. run' = run
    BY <1>0, <1>5, AgentEffects, RememberEffects, ToolEffects, ApplyEffects
       DEF TurnStep, TurnGoesOn
  <2> QED BY <2>1
<1>6. ASSUME NEW q \in Proposal, RunStep(q) \/ RunUnrecorded(q)
      PROVE  run'[p] = run[p] \/ (Due(p) /\ (RunStart(p) \/ RunDenied(p)))
  <2>1. CASE q # p
    <3>1. \A r \in Proposal \ {q} : run'[r] = run[r]
      <4>1. CASE RunStart(q) \/ RunDenied(q)
        BY <1>0, <4>1, RunEffects
      <4>2. CASE RunComplete(q) \/ RunUnrecorded(q)
        BY <1>0, <4>2, RunEffects
      <4> QED BY <1>6, <4>1, <4>2 DEF RunStep
    <3> QED BY <2>1, <3>1
  <2>2. CASE q = p /\ (RunStart(p) \/ RunDenied(p))
    <3>1. run'[p].ok = run[p].ok /\ run'[p].got = run[p].got
      BY <1>0, <2>2, RunEffects
    <3> QED BY <1>1, <2>2, <3>1
  <2>3. CASE q = p /\ ~ (RunStart(p) \/ RunDenied(p))
    <3>1. run'[p] = NoRun
      BY <1>0, <1>6, <2>3, RunEffects DEF RunStep
    <3> QED BY <1>0, <3>1 DEF NoRun
  <2> QED BY <2>1, <2>2, <2>3
<1>7. ASSUME ResumeClaim, p # req.id PROVE run'[p] = run[p]
  BY <1>0, <1>7 DEF ResumeClaim, FlowTypeOK
<1>8. run' = run => run'[p] = run[p]
  OBVIOUS
<1> HIDE DEF Ends
<1>9. \/ ResumeClaim /\ p = req.id
      \/ Due(p) /\ (run'[p] = run[p] \/ RunStart(p) \/ RunDenied(p) \/ Ends)
  BY <1>2, <1>3, <1>4, <1>5, <1>6, <1>7, <1>8, StepKinds DEF TurnStep
<1> QED BY <1>9 DEF Ends

\* The turn that serves a run moves on its way, or not at all.
LEMMA OthersStayOut ==
    ASSUME FlowInv, OvertakenInv, OrderInv, Kept, Roomy, Next, ~ Down, faults = 0, faults' = 0,
           \A t \in Session : OneCall(t), NEW s \in Session, AnswersFit(s),
           NEW p \in Proposal, OnItsWay(p, s), Due(p), Due(p)'
    PROVE  OnItsWay(p, s)'
<1>0. /\ FlowTypeOK /\ ConsentInv /\ graph[s].by = p /\ p # None
      /\ run[p].st = "running" /\ run[p].by = s
  BY NoneAssumption DEF FlowInv, OnItsWay, ConsentInv, TurnConsents
<1>1. ASSUME \/ TurnStep(s) \/ ChatStart(s) \/ AgentStop(s) \/ StreamBreaks(s)
             \/ \E q \in Proposal, text \in Content : AgentPreview(s, q, text)
             \/ \E calls \in Calls : AgentApply(s, calls)
      PROVE  OnItsWay(p, s)'
  BY <1>1, OnTheWay
<1>2. ASSUME ~ ApplyApproved(s), graph'[s] = graph[s], thread'[s] = thread[s]
      PROVE  OnItsWay(p, s)'
  <2>1. changes[p] = "claimed" => changes'[p] = "claimed"
    BY <1>0, <1>2, ClaimedStays DEF Due
  <2> QED BY <1>2, <2>1 DEF OnItsWay
<1>3. ASSUME NEW t \in Session \ {s},
             \/ TurnStep(t) \/ ChatStart(t) \/ AgentStop(t) \/ StreamBreaks(t)
             \/ \E q \in Proposal, text \in Content : AgentPreview(t, q, text)
             \/ \E calls \in Calls : AgentApply(t, calls)
      PROVE  graph'[s] = graph[s] /\ thread'[s] = thread[s]
  <2>1. UNCHANGED <<graph, thread>> \/ OnlyTurn(t)
    BY <1>0, <1>3, AgentEffects, RememberEffects, ToolEffects, ApplyEffects
       DEF TurnStep, TurnGoesOn, TurnEnds
  <2> QED BY <2>1 DEF OnlyTurn
<1>4. ASSUME NEW q \in Proposal, RunStep(q) \/ RunUnrecorded(q)
      PROVE  graph'[s] = graph[s] /\ thread'[s] = thread[s]
  <2>1. CASE RunStart(q)
    <3>1. OnlyTurn(run[q].by) /\ graph[run[q].by].by = None
      BY <1>0, <2>1, RunEffects
    <3> QED BY <1>0, <3>1 DEF OnlyTurn
  <2>2. CASE ~ RunStart(q)
    BY <1>0, <1>4, <2>2, RunEffects DEF RunStep
  <2> QED BY <2>1, <2>2
<1>5. ResumeClaim => UNCHANGED <<graph, thread>>
  BY DEF ResumeClaim
<1>6. ApplyApproved(s) => TurnStep(s)
  BY DEF TurnStep
<1> QED BY <1>1, <1>2, <1>3, <1>4, <1>5, <1>6, StepKinds

\* Every run that is due finds what it needs.
LEMMA StepServes ==
    ASSUME FlowInv, OvertakenInv, OrderInv, Kept, Roomy, Next, ~ Down, faults = 0, faults' = 0,
           \A s \in Session : OneCall(s), RequestFits, \A s \in Session : AnswersFit(s),
           NEW p \in Proposal, Serves(p)
    PROVE  Serves(p)'
<1> SUFFICES ASSUME Due(p)'
             PROVE  /\ run'[p].st # "finishing"
                    /\ run'[p].st = "queued" =>
                            thread'[run'[p].by].ask = p /\ changes'[p] = "claimed"
                    /\ run'[p].st = "running" =>
                            \E s \in Session : s = run'[p].by /\ OnItsWay(p, s)'
  <2>1. ASSUME NEW s \in Session, s = run'[p].by, OnItsWay(p, s)'
        PROVE  OnItsWay(p, run[p].by)'
    BY <2>1 DEF OnItsWay
  <2> QED BY <2>1 DEF Serves
<1>0. /\ FlowTypeOK /\ ConsentInv /\ p \notin lapsed /\ p # None
      /\ run[p].st # "none" => run[p].by \in Session
  BY ReasonsStay, NoneAssumption DEF Due, FlowInv, ConsentInv, RunConsents
<1>1. ASSUME run[p].st = "queued", Due(p)
      PROVE  thread[run[p].by].ask = p /\ thread'[run[p].by].ask = p /\ changes'[p] = "claimed"
  <2>1. run[p].by \in Session /\ thread[run[p].by].ask = p /\ changes[p] = "claimed"
    BY <1>0, <1>1 DEF Serves
  <2>2. thread'[run[p].by].ask = p
    BY <1>0, <1>1, <2>1, AsksStay
  <2>3. changes'[p] = "claimed"
    BY <1>0, <1>1, <2>1, ClaimedStays
  <2> QED BY <2>1, <2>2, <2>3
<1>2. CASE Due(p) /\ run'[p] = run[p]
  <2>1. CASE run[p].st = "running"
    <3>1. PICK s \in Session : s = run[p].by
      BY <1>0, <2>1
    <3>2. OnItsWay(p, s)
      BY <1>2, <2>1, <3>1 DEF Serves
    <3>3. OnItsWay(p, s)'
      BY <1>2, <3>2, OthersStayOut
    <3> QED BY <1>2, <2>1, <3>1, <3>3
  <2>2. CASE run[p].st # "running"
    BY <1>1, <1>2, <2>2 DEF Serves
  <2> QED BY <2>1, <2>2
<1>3. CASE Due(p) /\ RunStart(p)
  <2>1. run[p].st = "queued" /\ run'[p].st = "running" /\ run'[p].by = run[p].by
    BY <1>0, <1>3, RunEffects
  <2>2. PICK s \in Session : s = run[p].by
    BY <1>0, <2>1
  <2>3. /\ thread'[s].ask = p
        /\ graph'[s] = [by |-> p, pc |-> "tools", todo |-> thread[s].calls, ready |-> <<>>]
    BY <1>0, <1>3, <2>2, RunEffects
  <2>4. changes'[p] = "claimed"
    BY <1>1, <1>3, <2>1
  <2>5. OnItsWay(p, s)'
    BY <2>3, <2>4 DEF OnItsWay
  <2> QED BY <2>1, <2>2, <2>5
<1>4. ~ (Due(p) /\ RunDenied(p))
  <2> SUFFICES ASSUME Due(p), RunDenied(p) PROVE FALSE
    OBVIOUS
  <2>1. run[p].st = "queued" /\ (thread[run[p].by].ask = p => faults' = faults + 1)
    BY <1>0, RunEffects
  <2>2. thread[run[p].by].ask = p
    BY <1>1, <2>1
  <2> QED BY <2>1, <2>2
<1>5. ASSUME Due(p), NEW s \in Session, AgentStop(s) \/ StreamBreaks(s) \/ ToolInterrupt(s),
             TurnEnds(s), graph[s].by = p
      PROVE  FALSE
  <2>1. run[p].st = "running" /\ run[p].by = s
    BY <1>0, <1>5 DEF ConsentInv, TurnConsents
  <2>2. OnItsWay(p, s)
    BY <1>5, <2>1 DEF Serves
  <2>3. OnItsWay(p, s)'
    BY <1>5, <2>2, OthersStayOut
  <2>4. graph'[s].by = None
    BY <1>5, RestIs DEF TurnEnds
  <2> QED BY <1>0, <2>3, <2>4 DEF OnItsWay
<1>6. CASE ResumeClaim /\ p = req.id
  <2>1. /\ req.by \in Session /\ ClaimOutcome(p, Gen, req.by) /\ req # None
        /\ run'[p].st = "queued" /\ run'[p].by = req.by /\ thread' = thread
    BY <1>0, <1>6 DEF ResumeClaim, FlowTypeOK, NoRun
  <2>2. thread[req.by].ask = p
    BY <1>6, <2>1 DEF RequestFits
  <2>3. changes'[p] = "claimed"
    BY <2>1 DEF ClaimOutcome, FlowInv, StoreInv, StoreTypeOK
  <2> QED BY <2>1, <2>2, <2>3
<1> QED BY <1>2, <1>3, <1>4, <1>5, <1>6, DueRuns

------------------------------------------------------------------------------
\* The invariant.

LEMMA StepServesAll ==
    ASSUME FlowInv, FlowInv', OvertakenInv, OrderInv, OneCallInv, ServesInv, Next
    PROVE  ServesInv'
<1> SUFFICES ASSUME Undisturbed'
             PROVE  /\ up' /\ sweep' = {} /\ Kept' /\ FailedHasReason'
                    /\ \A s \in Session : AnswersFit(s)'
                    /\ \A p \in Proposal : Serves(p)'
  BY DEF ServesInv
<1>1. Undisturbed /\ Roomy /\ ~ Down /\ faults = 0 /\ faults' = 0
  BY CalmStep
<1>2. /\ up /\ sweep = {} /\ Kept /\ FailedHasReason
      /\ \A s \in Session : AnswersFit(s)
      /\ \A p \in Proposal : Serves(p)
  BY <1>1 DEF ServesInv
<1>3. MaxCalls = 1 /\ (\A s \in Session : OneCall(s)) /\ RequestFits
  BY <1>1 DEF Undisturbed, OneCallInv
<1>4. up' /\ sweep' = {}
  BY <1>2, CalmStep
<1>5. Kept'
  BY <1>1, <1>2, StepKeeps
<1>6. FailedHasReason'
  BY <1>2, StepReasons
<1>7. \A s \in Session : AnswersFit(s)'
  BY <1>1, <1>2, <1>3, StepAnswersFit
<1>8. \A p \in Proposal : Serves(p)'
  BY <1>1, <1>2, <1>3, StepServes
<1> QED BY <1>4, <1>5, <1>6, <1>7, <1>8

LEMMA InitRefuses == Init => RefusalInv
<1> SUFFICES ASSUME Init PROVE RefusalInv
  OBVIOUS
<1>1. /\ \A p \in Proposal : patch[p] = None /\ run[p] = NoRun
      /\ \A s \in Session : thread[s] = Empty /\ graph[s] = Idle
      /\ mem = <<>> /\ saved = <<>> /\ outcomes = [p \in Proposal |-> "absent"]
      /\ req = None /\ up = TRUE /\ sweep = {}
  BY DEF Init, StoreInit
<1>2. Ids(<<>>) = {} /\ Distinct(<<>>)
  BY DEF Ids, Distinct
<1>3. /\ NoRun.st = "none" /\ NoRun.ok = FALSE
      /\ Idle.by = None /\ Idle.pc = "idle" /\ Empty.ask = None
  BY RestIs DEF NoRun, Idle, Empty
<1>4. OvertakenInv /\ OrderInv
  BY <1>1, <1>2, <1>3 DEF OvertakenInv, OrderInv
<1>5. OneCallInv
  BY <1>1, <1>3 DEF OneCallInv, OneCall, RequestFits
<1>6. RunsApply
  BY <1>1, <1>3 DEF RunsApply
<1>7. ServesInv
  BY <1>1, <1>2, <1>3 DEF ServesInv, Kept, FailedHasReason, AnswersFit, Serves, Due
<1> QED BY <1>4, <1>5, <1>6, <1>7 DEF RefusalInv

LEMMA StepRefuses == FlowInv /\ FlowInv' /\ RefusalInv /\ [Next]_vars => RefusalInv'
<1> SUFFICES ASSUME FlowInv, FlowInv', RefusalInv, [Next]_vars PROVE RefusalInv'
  OBVIOUS
<1>0. FlowTypeOK /\ ConsentInv
  BY DEF FlowInv
<1>1. CASE Next
  <2>1. OvertakenInv'
    BY <1>0, <1>1, StepOvertakes DEF RefusalInv
  <2>2. OrderInv'
    BY <1>1, StepOrders DEF RefusalInv
  <2>3. OneCallInv'
    BY <1>0, <1>1, StepIsOneCall, StepFits DEF RefusalInv, OneCallInv
  <2>4. RunsApply'
    BY <1>1, StepApplies DEF RefusalInv
  <2>5. ServesInv'
    BY <1>1, StepServesAll DEF RefusalInv
  <2> QED BY <2>1, <2>2, <2>3, <2>4, <2>5 DEF RefusalInv
<1>2. CASE UNCHANGED vars
  <2> USE <1>2 DEF vars, storeVars, flowVars, countVars, historyVars
  <2>1. OvertakenInv' /\ OrderInv'
    BY DEF RefusalInv, OvertakenInv, OrderInv, Previewed
  <2>2. OneCallInv'
    BY DEF RefusalInv, OneCallInv, OneCall, RequestFits, Replays, Starts
  <2>3. RunsApply'
    BY DEF RefusalInv, RunsApply
  <2>4. ServesInv'
    BY DEF RefusalInv, ServesInv, Undisturbed, Kept, FailedHasReason, AnswersFit, Serves, Due,
           OnItsWay
  <2> QED BY <2>1, <2>2, <2>3, <2>4 DEF RefusalInv
<1> QED BY <1>1, <1>2

\* The inductive invariant holds of every behaviour: beside FlowInv, what leads a
\* change from its preview to its write as long as nothing disturbs it.
THEOREM RefusalInvariance == Spec => [](FlowInv /\ RefusalInv)
<1>1. Init => FlowInv /\ RefusalInv
  BY InitEstablishesFlow, InitRefuses
<1>2. FlowInv /\ RefusalInv /\ [Next]_vars => (FlowInv /\ RefusalInv)'
  BY StepPreservesFlow, StepRefuses
<1> QED BY <1>1, <1>2, PTL DEF Spec

\* An approved change is refused only because its time ran out or its file was changed
\* since the preview, unless a restart, a fault or a second call got in its way
\* (README; tool_node, apply_approved, _resume_outcome_result).
THEOREM RefusalsHaveReasons == Spec => []RefusedForAReason
<1>1. RefusalInv => RefusedForAReason
  BY DEF RefusalInv, ServesInv, RefusedForAReason
<1> QED BY <1>1, RefusalInvariance, PTL

\* With one apply call in a message, and no fault, nothing is written for a change
\* whose outcome is no longer applying (chat.py /outcome).
LEMMA StepWritesFirst ==
    ASSUME FlowInv, RefusalInv, FlowInv', MaxCalls = 1, MaxFaults = 0, Next,
           NEW p \in Proposal, writes'[p] # writes[p]
    PROVE  outcomes[p] = "applying"
<1>0. /\ FlowTypeOK /\ faults = 0 /\ writes \in [Proposal -> Nat]
      /\ \A s \in Session : OneCall(s)
  BY FlowBounds DEF FlowInv, FlowTypeOK, RefusalInv, OneCallInv
<1>1. PICK s \in Session : ApplyApproved(s)
  BY WhoWrites
<1>2. p = Head(graph[s].todo)
  BY <1>0, <1>1 DEF ApplyApproved, WritesText, WritesNothing
<1>3. graph[s].pc = "execute" /\ graph[s].todo # <<>>
  BY <1>0, <1>1, ApplyEffects
<1>4. graph[s].todo = <<graph[s].by>> /\ Head(<<graph[s].by>>) = graph[s].by
  BY <1>0, <1>3 DEF OneCall
<1>5. graph[s].by = p
  BY <1>2, <1>4
<1>6. run[p].st = "running"
  BY <1>5 DEF FlowInv, ConsentInv, TurnConsents
<1> QED BY <1>0, <1>6 DEF RefusalInv, RunsApply

THEOREM WritesPrecedeOutcomes ==
    ASSUME MaxCalls = 1, MaxFaults = 0
    PROVE  Spec => NoWriteAfterOutcome
<1>1. FlowInv /\ RefusalInv /\ FlowInv' /\ [Next]_vars =>
        [\A p \in Proposal : writes'[p] # writes[p] => outcomes[p] = "applying"]_vars
  <2> SUFFICES ASSUME FlowInv, RefusalInv, FlowInv', Next, NEW p \in Proposal,
                      writes'[p] # writes[p]
               PROVE  outcomes[p] = "applying"
    OBVIOUS
  <2> QED BY StepWritesFirst
<1> QED BY <1>1, RefusalInvariance, PTL DEF Spec, NoWriteAfterOutcome
==============================================================================
