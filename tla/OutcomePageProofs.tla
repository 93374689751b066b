--------------------------- MODULE OutcomePageProofs ---------------------------
(***************************************************************************)
(* OutcomePage, for any approvals and limits: its type correctness, and    *)
(* that a card which tells how a decision ended is right.  The page learns *)
(* of the outcome by four ways - a frame, the end of a stream, a query and *)
(* an answer that may be old - and the invariant follows each of them back *)
(* to the moment the outcome was recorded, after which it does not change. *)
(***************************************************************************)
EXTENDS OutcomePage, TLAPS

RunState == [pc : {"none", "talking", "recorded", "unrecorded", "last", "over"},
             base : 0..(MaxChatter + 2), frames : Seq(Frame)]
OutcomeState == {"none", "applying", "terminal"}
LinkState == [pc : {"closed", "asked", "open"}, of : Approval \union {NoApproval},
              replay : BOOLEAN, cursor : 0..(MaxChatter + 2),
              terminal : {"none", "failed", "completed"}, streamed : BOOLEAN]

\* Frames a run may have sent by now.
Allowed(pc) ==
    IF pc \in {"none", "talking"} THEN MaxChatter
    ELSE IF pc \in {"recorded", "unrecorded"} THEN MaxChatter + 1 ELSE MaxChatter + 2

\* Frames and states of a run that speak of a recorded outcome speak the truth.
RunOK(r, o) ==
    /\ Sent(r) =< Allowed(r.pc)
    /\ Len(r.frames) =< BufferLimit
    /\ r.pc = "none" => r = NoRun
    /\ o = "none" => r.pc = "none"
    /\ r.pc = "recorded" => o = "terminal"
    /\ \A i \in 1..Len(r.frames) : r.frames[i] \in {"outcome", "done"} => o = "terminal"

RunsOK == \A a \in Approval : RunOK(run[a], outcome[a])

\* So does what the page has kept of its stream: that it replays an outcome, and
\* that it has ended well.
LinkOK ==
    /\ link.pc # "closed" => link.of \in Approval
    /\ link.pc = "open" /\ (link.replay \/ link.terminal = "completed") => outcome[link.of] = "terminal"
    /\ link.pc = "open" /\ link.replay => link.cursor =< 2
    /\ link.pc = "asked" => link.terminal = "none"

RecheckOK == \A a \in Approval : recheck.seen[a] = "terminal" => outcome[a] = "terminal"

PageInv == PageTypeOK /\ RunsOK /\ LinkOK /\ RecheckOK /\ CardsAreTrue

------------------------------------------------------------------------------
\* Publishing keeps the number of frames below the limit, and adds one frame.
LEMMA PublishIs ==
    ASSUME NEW r \in RunState, NEW frame \in Frame, Len(r.frames) =< BufferLimit,
           Sent(r) =< MaxChatter + 1
    PROVE  LET next == Publish(r, frame) IN
           /\ next \in RunState /\ next.pc = r.pc
           /\ Len(next.frames) =< BufferLimit /\ Sent(next) = Sent(r) + 1
           /\ \A i \in 1..Len(next.frames) :
                 next.frames[i] = frame \/ \E j \in 1..Len(r.frames) : next.frames[i] = r.frames[j]
<1> USE PageBounds
<1>1. r.frames \in Seq(Frame) /\ r.base \in Nat /\ Len(r.frames) \in Nat
  BY DEF RunState
<1>2. CASE Len(r.frames) < BufferLimit
  <2> DEFINE longer == Append(r.frames, frame)
  <2>1. /\ longer \in Seq(Frame) /\ Len(longer) = Len(r.frames) + 1
        /\ \A i \in 1..Len(longer) : longer[i] = frame \/ \E j \in 1..Len(r.frames) : longer[i] = r.frames[j]
    BY <1>1
  <2>2. Publish(r, frame) = [r EXCEPT !.frames = longer]
    BY <1>2 DEF Publish
  <2> HIDE DEF longer
  <2>3. /\ Publish(r, frame) \in RunState /\ Publish(r, frame).pc = r.pc
        /\ Publish(r, frame).frames = longer /\ Publish(r, frame).base = r.base
    BY <2>1, <2>2 DEF RunState
  <2>4. Sent(Publish(r, frame)) = Sent(r) + 1
    <3>1. Len(longer) = Len(r.frames) + 1
      BY <2>1
    <3>2. r.base + (Len(r.frames) + 1) = (r.base + Len(r.frames)) + 1
      BY <1>1
    <3> QED BY <3>1, <3>2, <2>3, Zenon DEF Sent
  <2>5. Len(longer) =< BufferLimit
    BY <1>1, <1>2, <2>1
  <2> QED BY <2>1, <2>3, <2>4, <2>5
<1>3. CASE ~(Len(r.frames) < BufferLimit)
  <2> DEFINE shifted == Append(Tail(r.frames), frame)
  <2>1. r.frames # <<>> /\ Len(r.frames) > 0
    BY <1>1, <1>3
  <2>2. /\ Tail(r.frames) \in Seq(Frame) /\ Len(Tail(r.frames)) = Len(r.frames) - 1
        /\ \A i \in 1..Len(Tail(r.frames)) : Tail(r.frames)[i] = r.frames[i + 1]
    BY <1>1, <2>1
  <2>3. /\ shifted \in Seq(Frame) /\ Len(shifted) = Len(r.frames)
        /\ \A i \in 1..Len(shifted) : shifted[i] = frame \/ \E j \in 1..Len(r.frames) : shifted[i] = r.frames[j]
    BY <1>1, <2>1, <2>2
  <2>4. Publish(r, frame) = [r EXCEPT !.frames = shifted, !.base = r.base + 1]
    BY <1>3 DEF Publish
  <2>5. r.base + 1 \in 0..(MaxChatter + 2)
    BY <1>1, <2>1 DEF Sent
  <2> HIDE DEF shifted
  <2>6. /\ Publish(r, frame) \in RunState /\ Publish(r, frame).pc = r.pc
        /\ Publish(r, frame).frames = shifted /\ Publish(r, frame).base = r.base + 1
    BY <2>3, <2>4, <2>5 DEF RunState
  <2> QED BY <1>1, <2>3, <2>6, SMTT(30) DEF Sent
<1> QED BY <1>2, <1>3

LEMMA PageInit1 == PageInit => PageInv
<1> SUFFICES ASSUME PageInit PROVE PageInv
  OBVIOUS
<1> USE PageBounds
<1>1. NoRun \in RunState /\ Len(NoRun.frames) = 0 /\ Sent(NoRun) = 0
  BY DEF NoRun, RunState, Sent
<1>2. NoLink \in LinkState
  BY DEF NoLink, LinkState
<1>3. PageTypeOK
  BY <1>1, <1>2 DEF PageInit, PageTypeOK, RunState, LinkState, Card
<1>4. RunsOK
  <2>1. NoRun.pc = "none" /\ Allowed("none") = MaxChatter
    BY DEF NoRun, Allowed
  <2>2. RunOK(NoRun, "none")
    BY <1>1, <2>1 DEF RunOK
  <2> QED BY <2>2 DEF PageInit, RunsOK
<1>5. LinkOK /\ RecheckOK /\ CardsAreTrue
  BY DEF PageInit, LinkOK, RecheckOK, CardsAreTrue, NoLink
<1> QED BY <1>3, <1>4, <1>5 DEF PageInv

------------------------------------------------------------------------------
\* What is recorded stays recorded.
Settles == \A a \in Approval : outcome[a] = "terminal" => outcome'[a] = "terminal"

RunsTyped == run \in [Approval -> RunState]
OutcomesTyped == outcome \in [Approval -> OutcomeState]

LEMMA TypesAre ==
    ASSUME PageTypeOK
    PROVE  /\ RunsTyped /\ OutcomesTyped /\ link \in LinkState
           /\ \A a \in Approval : run[a] \in RunState /\ outcome[a] \in OutcomeState
  BY DEF PageTypeOK, RunsTyped, OutcomesTyped, RunState, LinkState, OutcomeState

\* One run and its outcome change, and both stay in order.
LEMMA OneRunMoves ==
    ASSUME RunsTyped, OutcomesTyped, RunsOK, NEW a \in Approval, NEW r \in RunState, NEW o \in OutcomeState,
           RunOK(r, o), outcome[a] = "terminal" => o = "terminal",
           run' = [run EXCEPT ![a] = r], outcome' = [outcome EXCEPT ![a] = o]
    PROVE  RunsTyped' /\ OutcomesTyped' /\ RunsOK' /\ Settles
<1>1. /\ run' \in [Approval -> RunState] /\ run'[a] = r
      /\ \A b \in Approval \ {a} : run'[b] = run[b]
  BY DEF RunsTyped
<1>2. /\ outcome' \in [Approval -> OutcomeState] /\ outcome'[a] = o
      /\ \A b \in Approval \ {a} : outcome'[b] = outcome[b]
  BY DEF OutcomesTyped
<1>3. RunsOK'
  BY <1>1, <1>2 DEF RunsOK
<1> QED BY <1>1, <1>2, <1>3 DEF RunsTyped, OutcomesTyped, Settles

\* A frame is published: it may speak of the outcome only when that is recorded.
LEMMA PublishKeepsOrder ==
    ASSUME NEW r \in RunState, NEW frame \in Frame, NEW o \in OutcomeState, NEW p \in OutcomeState,
           NEW pc \in {"talking", "recorded", "unrecorded", "last"},
           RunOK(r, o), o # "none", p # "none", o = "terminal" => p = "terminal",
           Sent(r) =< MaxChatter + 1, Sent(r) + 1 =< Allowed(pc),
           frame \in {"outcome", "done"} \/ pc = "recorded" => p = "terminal"
    PROVE  LET next == [Publish(r, frame) EXCEPT !.pc = pc]
           IN  next \in RunState /\ RunOK(next, p)
<1> DEFINE next == [Publish(r, frame) EXCEPT !.pc = pc]
<1>1. Len(r.frames) =< BufferLimit
  BY DEF RunOK
<1>2. /\ Publish(r, frame) \in RunState
      /\ Len(Publish(r, frame).frames) =< BufferLimit /\ Sent(Publish(r, frame)) = Sent(r) + 1
      /\ \A i \in 1..Len(Publish(r, frame).frames) :
            \/ Publish(r, frame).frames[i] = frame
            \/ \E j \in 1..Len(r.frames) : Publish(r, frame).frames[i] = r.frames[j]
  BY <1>1, PublishIs
<1>3. /\ next \in RunState /\ next.pc = pc
      /\ next.frames = Publish(r, frame).frames /\ next.base = Publish(r, frame).base
  BY <1>2 DEF RunState
<1>4. Sent(next) = Sent(r) + 1
  BY <1>2, <1>3, Zenon DEF Sent
<1> HIDE DEF next
<1>5. \A i \in 1..Len(next.frames) : next.frames[i] \in {"outcome", "done"} => p = "terminal"
  BY <1>2, <1>3 DEF RunOK
<1>6. RunOK(next, p)
  BY <1>2, <1>3, <1>4, <1>5 DEF RunOK
<1> QED BY <1>3, <1>6 DEF next

LEMMA RunSteps ==
    ASSUME PageInv, NEW a \in Approval, RunTalks(a) \/ RunRecords(a) \/ RunEnds(a)
    PROVE  RunsTyped' /\ OutcomesTyped' /\ RunsOK' /\ Settles
<1> USE PageBounds
<1>0. /\ RunsTyped /\ OutcomesTyped /\ run[a] \in RunState /\ outcome[a] \in OutcomeState
      /\ RunsOK /\ RunOK(run[a], outcome[a])
  BY TypesAre DEF PageInv, RunsOK
<1>1. /\ run[a].pc \in {"none", "talking", "recorded", "unrecorded", "last", "over"}
      /\ Sent(run[a]) \in Nat /\ Sent(run[a]) =< Allowed(run[a].pc)
      /\ run[a].pc # "none" => outcome[a] # "none"
      /\ run[a].pc = "recorded" => outcome[a] = "terminal"
  <2>1. run[a].base \in Nat /\ Len(run[a].frames) \in Nat
    BY <1>0 DEF RunState
  <2> QED BY <1>0, <2>1 DEF RunState, RunOK, Sent
<1>2. ASSUME RunTalks(a) PROVE RunsTyped' /\ OutcomesTyped' /\ RunsOK' /\ Settles
  <2>1. PICK frame \in {"chatter", a} \union (Approval \ issued) :
            run' = [run EXCEPT ![a] = Publish(run[a], frame)]
    BY <1>2 DEF RunTalks
  <2>2. /\ run[a].pc = "talking" /\ Sent(run[a]) < MaxChatter
        /\ outcome' = [outcome EXCEPT ![a] = outcome[a]]
    BY <1>0, <1>2 DEF RunTalks, OutcomesTyped
  <2>3. frame \in Frame /\ frame \notin {"outcome", "done"}
    <3>1. frame = "chatter" \/ frame \in Approval
      OBVIOUS
    <3>2. \A b \in Approval : b \notin {"outcome", "done"}
      BY WordAssumption DEF Word
    <3> QED BY <3>1, <3>2 DEF Frame, Word
  <2>4. /\ Sent(run[a]) =< MaxChatter + 1 /\ Sent(run[a]) + 1 =< Allowed("talking")
        /\ outcome[a] # "none"
    BY <1>1, <2>2 DEF Allowed
  <2>5. Publish(run[a], frame) = [Publish(run[a], frame) EXCEPT !.pc = "talking"]
    <3>1. Publish(run[a], frame) \in RunState /\ Publish(run[a], frame).pc = "talking"
      BY <1>0, <2>2, <2>3, <2>4, PublishIs DEF RunOK
    <3> QED BY <3>1 DEF RunState
  <2>6. /\ Publish(run[a], frame) \in RunState
        /\ RunOK(Publish(run[a], frame), outcome[a])
    <3>1. RunOK(run[a], outcome[a]) /\ run[a] \in RunState /\ outcome[a] \in OutcomeState
      BY <1>0
    <3>2. /\ [Publish(run[a], frame) EXCEPT !.pc = "talking"] \in RunState
          /\ RunOK([Publish(run[a], frame) EXCEPT !.pc = "talking"], outcome[a])
      BY <2>3, <2>4, <3>1, PublishKeepsOrder
    <3> QED BY <2>5, <3>2, Zenon
  <2> QED BY <1>0, <2>1, <2>2, <2>6, OneRunMoves
<1>3. ASSUME RunRecords(a) PROVE RunsTyped' /\ OutcomesTyped' /\ RunsOK' /\ Settles
  <2>1. PICK frame \in {"outcome", "error"}, pc \in {"recorded", "unrecorded"}, o \in OutcomeState :
          /\ run[a].pc = "talking"
          /\ run' = [run EXCEPT ![a] = [Publish(run[a], frame) EXCEPT !.pc = pc]]
          /\ outcome' = [outcome EXCEPT ![a] = o]
          /\ o \in {outcome[a], "terminal"}
          /\ frame = "outcome" \/ pc = "recorded" => o = "terminal"
    BY <1>0, <1>3 DEF RunRecords, OutcomesTyped, OutcomeState
  <2>2. /\ [Publish(run[a], frame) EXCEPT !.pc = pc] \in RunState
        /\ RunOK([Publish(run[a], frame) EXCEPT !.pc = pc], o)
    <3>1. /\ Sent(run[a]) =< MaxChatter + 1 /\ Sent(run[a]) + 1 =< Allowed(pc)
          /\ outcome[a] # "none" /\ o # "none" /\ frame \in Frame
          /\ outcome[a] = "terminal" => o = "terminal"
      BY <1>1, <2>1 DEF Allowed, Frame, Word
    <3>2. RunOK(run[a], outcome[a]) /\ run[a] \in RunState /\ outcome[a] \in OutcomeState
      BY <1>0
    <3> QED BY <2>1, <3>1, <3>2, PublishKeepsOrder
  <2> QED BY <1>0, <2>1, <2>2, OneRunMoves
<1>4. ASSUME RunEnds(a), run[a].pc \in {"recorded", "unrecorded"}
      PROVE  RunsTyped' /\ OutcomesTyped' /\ RunsOK' /\ Settles
  <2>1. PICK frame \in {"done", "failed"} :
          /\ run' = [run EXCEPT ![a] = [Publish(run[a], frame) EXCEPT !.pc = "last"]]
          /\ outcome' = [outcome EXCEPT ![a] = outcome[a]]
          /\ frame = "done" => outcome[a] = "terminal"
    BY <1>0, <1>1, <1>4 DEF RunEnds, OutcomesTyped
  <2>2. /\ [Publish(run[a], frame) EXCEPT !.pc = "last"] \in RunState
        /\ RunOK([Publish(run[a], frame) EXCEPT !.pc = "last"], outcome[a])
    <3>1. /\ Sent(run[a]) =< MaxChatter + 1 /\ Sent(run[a]) + 1 =< Allowed("last")
          /\ outcome[a] # "none" /\ frame \in Frame
      BY <1>1, <1>4, <2>1 DEF Allowed, Frame, Word
    <3>2. RunOK(run[a], outcome[a]) /\ run[a] \in RunState /\ outcome[a] \in OutcomeState
      BY <1>0
    <3> QED BY <2>1, <3>1, <3>2, PublishKeepsOrder
  <2> QED BY <1>0, <2>1, <2>2, OneRunMoves
<1>5. ASSUME RunEnds(a), run[a].pc = "last"
      PROVE  RunsTyped' /\ OutcomesTyped' /\ RunsOK' /\ Settles
  <2> DEFINE next == [run[a] EXCEPT !.pc = "over"]
  <2>1. /\ next \in RunState /\ next.pc = "over"
        /\ next.frames = run[a].frames /\ next.base = run[a].base
    BY <1>0 DEF RunState
  <2>2. run' = [run EXCEPT ![a] = next] /\ outcome' = [outcome EXCEPT ![a] = outcome[a]]
    BY <1>0, <1>5 DEF RunEnds, OutcomesTyped
  <2> HIDE DEF next
  <2>3. RunOK(next, outcome[a])
    BY <1>0, <1>1, <1>5, <2>1 DEF RunOK, Allowed, Sent
  <2> QED BY <1>0, <2>1, <2>2, <2>3, OneRunMoves
<1> QED BY <1>2, <1>3, <1>4, <1>5 DEF RunEnds

\* A resume begins a run, or settles what was left applying.
LEMMA ServedSteps ==
    ASSUME PageInv, NEW a \in Approval, Served(a)
    PROVE  /\ RunsTyped' /\ OutcomesTyped' /\ RunsOK' /\ Settles
           /\ Replayed(a) => outcome'[a] = "terminal"
<1> USE PageBounds
<1>0. /\ RunsTyped /\ OutcomesTyped /\ run[a] \in RunState /\ outcome[a] \in OutcomeState
      /\ RunsOK /\ RunOK(run[a], outcome[a])
  BY TypesAre DEF PageInv, RunsOK
<1>1. CASE outcome[a] = "none"
  <2> DEFINE next == [run[a] EXCEPT !.pc = "talking"]
  <2>1. run[a] = NoRun
    BY <1>0, <1>1 DEF RunOK
  <2>2. /\ next \in RunState /\ next.pc = "talking" /\ Sent(next) = 0
        /\ next.frames = <<>> /\ Len(next.frames) = 0
    <3>1. next = [pc |-> "talking", base |-> 0, frames |-> <<>>]
      BY <2>1 DEF NoRun
    <3> HIDE DEF next
    <3>2. next.pc = "talking" /\ next.base = 0 /\ next.frames = <<>> /\ Len(next.frames) = 0
      BY <3>1
    <3>3. next \in RunState
      BY <3>1 DEF RunState
    <3> QED BY <3>2, <3>3 DEF Sent
  <2>3. run' = [run EXCEPT ![a] = next] /\ outcome' = [outcome EXCEPT ![a] = "applying"]
    BY <1>0, <1>1 DEF Served, RunsTyped
  <2> HIDE DEF next
  <2>4. RunOK(next, "applying")
    BY <2>2 DEF RunOK, Allowed
  <2>5. RunsTyped' /\ OutcomesTyped' /\ RunsOK' /\ Settles
    BY <1>0, <1>1, <2>2, <2>3, <2>4, OneRunMoves DEF OutcomeState
  <2> QED BY <1>1, <2>5 DEF Replayed
<1>2. CASE outcome[a] # "none"
  <2>1. PICK o \in OutcomeState :
          /\ o \in {outcome[a], "terminal"} /\ (run[a].pc = "over" => o = "terminal")
          /\ outcome' = [outcome EXCEPT ![a] = o] /\ run' = [run EXCEPT ![a] = run[a]]
    BY <1>0, <1>2 DEF Served, OutcomesTyped, RunsTyped, OutcomeState
  <2>2. RunOK(run[a], o)
    BY <1>0, <1>2, <2>1 DEF RunOK
  <2>3. RunsTyped' /\ OutcomesTyped' /\ RunsOK' /\ Settles
    BY <1>0, <2>1, <2>2, OneRunMoves
  <2> QED BY <1>0, <2>1, <2>3 DEF Replayed, OutcomesTyped, Settles
<1> QED BY <1>1, <1>2
------------------------------------------------------------------------------
\* The page's own variables.
PageTyped ==
    /\ issued \subseteq Approval /\ sent \subseteq Approval /\ forgotten \subseteq Approval
    /\ card \in [Approval -> Card]
    /\ activeCard \in Approval \union {NoApproval}
    /\ link \in LinkState
    /\ query \in [Approval -> {"none", "asking", "waiting"}]
    /\ recheck \in [asked : BOOLEAN, issued : SUBSET Approval, seen : [Approval -> OutcomeState]]
    /\ pageTrouble \in 0..MaxPageTrouble

LEMMA PageTypesAre == PageInv => PageTyped
  BY DEF PageInv, PageTypeOK, PageTyped, LinkState, OutcomeState

\* A step keeps the invariant by keeping these parts of it.
LEMMA PartsMakeInv ==
    ASSUME PageTyped', RunsTyped', OutcomesTyped', RunsOK', LinkOK', RecheckOK', CardsAreTrue'
    PROVE  PageInv'
<1>1. PageTypeOK'
  BY DEF PageTypeOK, PageTyped, RunsTyped, OutcomesTyped, RunsOK, RunOK, RunState, LinkState,
         OutcomeState
<1> QED BY <1>1 DEF PageInv

\* Steps of the server leave the page alone, but for the resume that is answered.
LEMMA ServerSettles ==
    ASSUME PageInv, Settles, UNCHANGED <<card, recheck>>
    PROVE  RecheckOK' /\ CardsAreTrue'
  BY DEF PageInv, Settles, RecheckOK, CardsAreTrue

LEMMA TroubleIsTyped ==
    ASSUME PageInv, PageTrouble \/ PageCalm
    PROVE  pageTrouble' \in 0..MaxPageTrouble
<1>1. pageTrouble \in 0..MaxPageTrouble
  BY PageTypesAre DEF PageTyped
<1> QED BY <1>1, PageBounds DEF PageTrouble, PageCalm

\* Steps of the page leave the server alone.
LEMMA ServerRests ==
    ASSUME PageInv, UNCHANGED serverVars
    PROVE  RunsTyped' /\ OutcomesTyped' /\ RunsOK'
  BY TypesAre DEF PageInv, RunsTyped, OutcomesTyped, RunsOK, serverVars

LEMMA RecoverKeeps ==
    ASSUME PageInv, NEW a \in Approval, RecoverOutcome(a), UNCHANGED outcome
    PROVE  /\ activeCard' \in Approval \union {NoApproval}
           /\ card' \in [Approval -> Card]
           /\ query' \in [Approval -> {"none", "asking", "waiting"}]
           /\ CardsAreTrue'
<1>1. card \in [Approval -> Card] /\ query \in [Approval -> {"none", "asking", "waiting"}]
  BY PageTypesAre DEF PageTyped
<1>2. card' = [card EXCEPT ![a] = "applying"] /\ query' = [query EXCEPT ![a] = "asking"]
  BY DEF RecoverOutcome
<1>3. \A b \in Approval : card'[b] = card[b] \/ card'[b] = "applying"
  BY <1>1, <1>2
<1> QED BY <1>1, <1>2, <1>3 DEF RecoverOutcome, Card, PageInv, CardsAreTrue

LEMMA AbandonsIsTyped ==
    ASSUME PageInv, Abandons
    PROVE  sent' \subseteq Approval
<1>1. link.pc = "asked" => link.of \in Approval
  BY DEF PageInv, LinkOK
<1> QED BY <1>1, PageTypesAre DEF Abandons, PageTyped

LEMMA NoLinkIsOK == NoLink \in LinkState /\ (link' = NoLink => LinkOK')
  BY PageBounds DEF NoLink, LinkState, LinkOK

\* What the subscription reads is a frame of the run, and there is room for its number.
LEMMA FramesAreRead ==
    ASSUME PageInv, link.pc = "open", HasFrame
    PROVE  /\ Cursor + 1 \in 0..(MaxChatter + 2)
           /\ link.replay => Cursor + 1 =< 2
           /\ NextFrame \in Frame
           /\ NextFrame \in {"outcome", "done"} => outcome[link.of] = "terminal"
<1> USE PageBounds
<1>1. /\ link \in LinkState /\ link.of \in Approval /\ link.cursor \in Nat
      /\ run[link.of] \in RunState /\ RunOK(run[link.of], outcome[link.of])
  BY TypesAre DEF PageInv, LinkOK, RunsOK, LinkState
<1>2. CASE link.replay
  <2>1. Cursor = link.cursor /\ link.cursor \in {0, 1}
    BY <1>1, <1>2 DEF Cursor, HasFrame
  <2>2. NextFrame \in {"outcome", "done"}
    BY <1>2, <2>1 DEF NextFrame
  <2> QED BY <1>2, <2>1, <2>2 DEF PageInv, LinkOK, Frame, Word
<1>3. CASE ~link.replay
  <2> DEFINE r == run[link.of]
  <2>1. r.base \in Nat /\ r.frames \in Seq(Frame) /\ Len(r.frames) \in Nat
    BY <1>1 DEF RunState
  <2>2. Sent(r) =< MaxChatter + 2
    BY <1>1, <2>1 DEF RunOK, Allowed, Sent
  <2> HIDE DEF r
  <2>3. Cursor \in Nat /\ r.base =< Cursor /\ Cursor < Sent(r)
    BY <1>1, <1>3, <2>1 DEF Cursor, HasFrame, r
  <2>4. Cursor - r.base + 1 \in 1..Len(r.frames)
    BY <2>1, <2>3 DEF Sent
  <2>5. NextFrame = r.frames[Cursor - r.base + 1]
    BY <1>3 DEF NextFrame, r
  <2>6. Cursor + 1 \in 0..(MaxChatter + 2)
    BY <2>1, <2>2, <2>3 DEF Sent
  <2>7. \A i \in 1..Len(r.frames) : r.frames[i] \in {"outcome", "done"} => outcome[link.of] = "terminal"
    BY <1>1 DEF RunOK, r
  <2> QED BY <1>3, <2>1, <2>4, <2>5, <2>6, <2>7
<1> QED BY <1>2, <1>3
------------------------------------------------------------------------------
LEMMA RunStepsInv ==
    ASSUME PageInv, NEW a \in Approval, RunTalks(a) \/ RunRecords(a) \/ RunEnds(a)
    PROVE  PageInv'
<1>1. RunsTyped' /\ OutcomesTyped' /\ RunsOK' /\ Settles
  BY RunSteps
<1>2. /\ UNCHANGED <<sent, card, activeCard, link, query, recheck, forgotten>>
      /\ PageTrouble \/ PageCalm
  BY DEF RunTalks, RunRecords, RunEnds, PageCalm
<1> issued' \subseteq Approval
  BY PageTypesAre DEF PageTyped, RunTalks, RunRecords, RunEnds
<1>3. RecheckOK' /\ CardsAreTrue'
  BY <1>1, <1>2, ServerSettles
<1>4. LinkOK'
  BY <1>1, <1>2 DEF PageInv, LinkOK, Settles
<1>5. PageTyped'
  BY <1>2, PageTypesAre, TroubleIsTyped DEF PageTyped
<1> QED BY <1>1, <1>3, <1>4, <1>5, PartsMakeInv

LEMMA ResumeInv ==
    ASSUME PageInv, ResumeAnswers \/ \E a \in Approval : ResumeUnheard(a)
    PROVE  PageInv'
<1> USE PageBounds
<1>1. CASE ResumeAnswers
  <2> DEFINE a == link.of
  <2>1. /\ a \in Approval /\ link \in LinkState /\ link.pc = "asked" /\ link.terminal = "none"
        /\ Served(a) /\ UNCHANGED <<issued, sent, card, activeCard, query, recheck, forgotten, pageTrouble>>
    BY <1>1, PageTypesAre DEF ResumeAnswers, PageInv, LinkOK, PageTyped
  <2>2. PICK n : /\ link' = [link EXCEPT !.pc = "open", !.replay = Replayed(a), !.cursor = n]
                 /\ n = IF Replayed(a) THEN 0 ELSE run[a].base
    BY <1>1 DEF ResumeAnswers
  <2> HIDE DEF a
  <2>3. /\ RunsTyped' /\ OutcomesTyped' /\ RunsOK' /\ Settles
        /\ Replayed(a) => outcome'[a] = "terminal"
    BY <2>1, ServedSteps
  <2>4. run[a].base \in 0..(MaxChatter + 2) /\ Replayed(a) \in BOOLEAN
    BY <2>1, TypesAre DEF PageInv, RunState, Replayed
  <2>5. /\ link' \in LinkState /\ link'.pc = "open" /\ link'.of = a /\ link'.replay = Replayed(a)
        /\ link'.terminal = "none" /\ link'.cursor = n
    <3> DEFINE new(r) == [link EXCEPT !.pc = "open", !.replay = r, !.cursor = n]
    <3>1. n \in 0..(MaxChatter + 2)
      BY <2>2, <2>4
    <3>2. \A r \in BOOLEAN :
            /\ new(r) \in LinkState /\ new(r).pc = "open" /\ new(r).of = link.of
            /\ new(r).replay = r /\ new(r).terminal = link.terminal /\ new(r).cursor = n
      BY <2>1, <3>1 DEF LinkState
    <3>3. link' = new(Replayed(a))
      BY <2>2
    <3> HIDE DEF new
    <3> QED BY <2>1, <2>4, <3>2, <3>3 DEF a
  <2>6. LinkOK'
    <3>1. Replayed(a) => n =< 2
      BY <2>2
    <3> QED BY <2>1, <2>3, <2>5, <3>1 DEF LinkOK
  <2>7. PageTyped'
    BY <2>1, <2>5, PageTypesAre DEF PageTyped
  <2>8. RecheckOK' /\ CardsAreTrue'
    BY <2>1, <2>3, ServerSettles
  <2> QED BY <2>3, <2>6, <2>7, <2>8, PartsMakeInv
<1>2. ASSUME NEW a \in Approval, ResumeUnheard(a) PROVE PageInv'
  <2>1. /\ UNCHANGED <<issued, card, activeCard, link, query, recheck, forgotten, pageTrouble>>
        /\ sent' \subseteq sent
    BY <1>2 DEF ResumeUnheard
  <2>2. RunsTyped' /\ OutcomesTyped' /\ RunsOK' /\ Settles
    <3>1. CASE Served(a)
      BY <3>1, ServedSteps
    <3>2. CASE UNCHANGED serverVars
      BY <3>2, ServerRests DEF serverVars, Settles
    <3> QED BY <1>2, <3>1, <3>2 DEF ResumeUnheard
  <2>3. LinkOK'
    BY <2>1, <2>2 DEF PageInv, LinkOK, Settles
  <2>4. PageTyped'
    BY <2>1, PageTypesAre DEF PageTyped
  <2>5. RecheckOK' /\ CardsAreTrue'
    BY <2>1, <2>2, ServerSettles
  <2> QED BY <2>2, <2>3, <2>4, <2>5, PartsMakeInv
<1> QED BY <1>1, <1>2

\* A decision, a break or a stop gives up the stream there was.
LEMMA LinkGivenUpInv ==
    ASSUME PageInv, LinkBreaks \/ StopRun \/ \E a \in Approval : DecideCard(a)
    PROVE  PageInv'
<1> USE PageBounds
<1>0. PageTyped /\ RecheckOK /\ CardsAreTrue
  BY PageTypesAre DEF PageInv
<1>1. /\ UNCHANGED <<issued, outcome, run, recheck>> /\ UNCHANGED serverVars
      /\ Abandons /\ sent' \subseteq Approval /\ RecheckOK'
      /\ RunsTyped' /\ OutcomesTyped' /\ RunsOK'
  <2>1. UNCHANGED <<issued, outcome, run, recheck>> /\ Abandons
    BY DEF LinkBreaks, StopRun, DecideCard, serverVars
  <2> QED BY <1>0, <2>1, AbandonsIsTyped, ServerRests DEF serverVars, RecheckOK
<1>2. CASE LinkBreaks
  <2>1. link.of \in Approval /\ link' = NoLink /\ RecoverOutcome(link.of) /\ UNCHANGED forgotten
    BY <1>2 DEF LinkBreaks, PageInv, LinkOK
  <2>2. PageTyped' /\ CardsAreTrue'
    BY <1>0, <1>1, <1>2, <2>1, RecoverKeeps, NoLinkIsOK, TroubleIsTyped DEF LinkBreaks, PageTyped
  <2> QED BY <1>1, <2>1, <2>2, NoLinkIsOK, PartsMakeInv
<1>3. CASE StopRun
  <2>1. link.of \in Approval /\ link' = NoLink /\ forgotten' \subseteq Approval
    BY <1>0, <1>3 DEF StopRun, PageInv, LinkOK, PageTyped
  <2>2. CASE activeCard = NoApproval
    <3>1. UNCHANGED <<card, activeCard, query>>
      BY <1>3, <2>2 DEF StopRun
    <3>2. PageTyped' /\ CardsAreTrue'
      BY <1>0, <1>1, <1>3, <2>1, <3>1, NoLinkIsOK, TroubleIsTyped DEF StopRun, PageTyped, CardsAreTrue
    <3> QED BY <1>1, <2>1, <3>2, NoLinkIsOK, PartsMakeInv
  <2>3. CASE activeCard # NoApproval
    <3>1. activeCard \in Approval /\ RecoverOutcome(activeCard)
      BY <1>0, <1>3, <2>3 DEF StopRun, PageTyped
    <3>2. PageTyped' /\ CardsAreTrue'
      BY <1>0, <1>1, <1>3, <2>1, <3>1, RecoverKeeps, NoLinkIsOK, TroubleIsTyped DEF StopRun, PageTyped
    <3> QED BY <1>1, <2>1, <3>2, NoLinkIsOK, PartsMakeInv
  <2> QED BY <2>2, <2>3
<1>4. ASSUME NEW a \in Approval, DecideCard(a) PROVE PageInv'
  <2>1. /\ link' = [NoLink EXCEPT !.pc = "asked", !.of = a]
        /\ card' = [card EXCEPT ![a] = "submitting"] /\ activeCard' = a
        /\ UNCHANGED <<query, recheck, pageTrouble>> /\ forgotten' \subseteq Approval
    BY <1>0, <1>4 DEF DecideCard, PageTyped, PageInv, LinkOK
  <2>2. link' \in LinkState /\ LinkOK'
    <3>1. link' = [pc |-> "asked", of |-> a, replay |-> FALSE, cursor |-> 0,
                   terminal |-> "none", streamed |-> FALSE]
      BY <2>1 DEF NoLink
    <3> QED BY <3>1 DEF LinkState, LinkOK
  <2>3. card' \in [Approval -> Card] /\ \A b \in Approval : card'[b] \in {card[b], "submitting"}
    BY <1>0, <2>1 DEF PageTyped, Card
  <2>4. CardsAreTrue'
    BY <1>0, <1>1, <2>3 DEF CardsAreTrue
  <2>5. PageTyped'
    BY <1>0, <1>1, <2>1, <2>2, <2>3 DEF PageTyped
  <2> QED BY <1>1, <2>2, <2>4, <2>5, PartsMakeInv
<1> QED BY <1>2, <1>3, <1>4

\* A frame is delivered: what it says is true, and so is the card it is shown on.
LEMMA DeliverInv ==
    ASSUME PageInv, DeliverFrame
    PROVE  PageInv'
<1> USE PageBounds
<1>0. /\ PageTyped /\ RecheckOK /\ CardsAreTrue /\ LinkOK
      /\ UNCHANGED <<issued, outcome, run, sent, recheck, forgotten, pageTrouble>>
      /\ link.pc = "open" /\ HasFrame /\ link \in LinkState /\ link.of \in Approval
  BY PageTypesAre DEF PageInv, DeliverFrame, LinkOK, PageTyped, serverVars
<1>1. RecheckOK' /\ RunsTyped' /\ OutcomesTyped' /\ RunsOK'
  BY <1>0, ServerRests DEF serverVars, RecheckOK
<1>2. /\ Cursor + 1 \in 0..(MaxChatter + 2)
      /\ link.replay => Cursor + 1 =< 2
      /\ NextFrame \in {"outcome", "done"} => outcome[link.of] = "terminal"
  BY <1>0, FramesAreRead
<1> DEFINE n == Cursor + 1
           kind == IF link.terminal = "none" THEN NextFrame ELSE "chatter"
<1>3. /\ kind \in {"outcome", "done"} => outcome[link.of] = "terminal"
      /\ kind # "chatter" => link.terminal = "none"
  BY <1>2
<1>4. \/ /\ kind \in {"chatter", "error", "failed", "done"}
         /\ \E t \in {"none", "failed", "completed"} :
               /\ link' = [link EXCEPT !.cursor = n, !.terminal = t]
               /\ t = "completed" => link.terminal = "completed" \/ kind = "done"
         /\ UNCHANGED <<card, activeCard, query>>
      \/ /\ kind \in Approval
         /\ link' = [link EXCEPT !.cursor = n]
         /\ card' = [card EXCEPT ![kind] = "pending"]
         /\ UNCHANGED <<activeCard, query>>
      \/ /\ kind = "outcome" /\ activeCard = link.of
         /\ link' = [link EXCEPT !.cursor = n, !.streamed = TRUE]
         /\ card' = [card EXCEPT ![activeCard] = "shown"]
         /\ UNCHANGED <<activeCard, query>>
      \/ link' = NoLink /\ RecoverOutcome(link.of)
  <2>1. DeliverFrame /\ link.terminal \in {"none", "failed", "completed"}
    BY <1>0 DEF LinkState
  <2>2. \A t : [[link EXCEPT !.cursor = n] EXCEPT !.terminal = t]
                  = [link EXCEPT !.cursor = n, !.terminal = t]
    OBVIOUS
  <2>3. [[link EXCEPT !.cursor = n] EXCEPT !.streamed = TRUE]
                  = [link EXCEPT !.cursor = n, !.streamed = TRUE]
    OBVIOUS
  <2> QED BY <2>1, <2>2, <2>3 DEF DeliverFrame, Matches
<1> HIDE DEF n, kind
<1>5. n \in 0..(MaxChatter + 2) /\ (link.replay => n =< 2)
  BY <1>2 DEF n
<1>6. ASSUME kind \in {"chatter", "error", "failed", "done"},
             NEW t \in {"none", "failed", "completed"},
             link' = [link EXCEPT !.cursor = n, !.terminal = t],
             t = "completed" => link.terminal = "completed" \/ kind = "done",
             UNCHANGED <<card, activeCard, query>>
      PROVE  PageInv'
  <2>1. /\ link' \in LinkState /\ link'.pc = "open" /\ link'.of = link.of
        /\ link'.replay = link.replay /\ link'.cursor = n /\ link'.terminal = t
    BY <1>0, <1>5, <1>6 DEF LinkState
  <2>2. LinkOK'
    BY <1>0, <1>3, <1>5, <1>6, <2>1 DEF LinkOK
  <2>3. PageTyped' /\ CardsAreTrue'
    BY <1>0, <1>6, <2>1 DEF PageTyped, CardsAreTrue
  <2> QED BY <1>1, <2>2, <2>3, PartsMakeInv
<1>7. ASSUME kind = "outcome", activeCard = link.of,
             link' = [link EXCEPT !.cursor = n, !.streamed = TRUE],
             card' = [card EXCEPT ![activeCard] = "shown"],
             UNCHANGED <<activeCard, query>>
      PROVE  PageInv'
  <2>1. /\ link' \in LinkState /\ link'.pc = "open" /\ link'.of = link.of
        /\ link'.replay = link.replay /\ link'.cursor = n /\ link'.terminal = link.terminal
    BY <1>0, <1>5, <1>7 DEF LinkState
  <2>2. LinkOK'
    BY <1>0, <1>3, <1>5, <1>7, <2>1 DEF LinkOK
  <2>3. /\ card' \in [Approval -> Card]
        /\ \A b \in Approval : card'[b] = card[b] \/ b = link.of
    BY <1>0, <1>7 DEF PageTyped, Card
  <2>4. PageTyped' /\ CardsAreTrue'
    BY <1>0, <1>3, <1>7, <2>1, <2>3 DEF PageTyped, CardsAreTrue
  <2> QED BY <1>1, <2>2, <2>4, PartsMakeInv
<1>9. ASSUME kind \in Approval, link' = [link EXCEPT !.cursor = n],
             card' = [card EXCEPT ![kind] = "pending"],
             UNCHANGED <<activeCard, query>>
      PROVE  PageInv'
  <2>1. /\ link' \in LinkState /\ link'.pc = "open" /\ link'.of = link.of
        /\ link'.replay = link.replay /\ link'.cursor = n /\ link'.terminal = link.terminal
    BY <1>0, <1>5, <1>9 DEF LinkState
  <2>2. LinkOK'
    BY <1>0, <1>5, <2>1 DEF LinkOK
  <2>3. /\ card' \in [Approval -> Card]
        /\ \A b \in Approval : card'[b] \in {card[b], "pending"}
    BY <1>0, <1>9 DEF PageTyped, Card
  <2>4. PageTyped' /\ CardsAreTrue'
    BY <1>0, <1>9, <2>1, <2>3 DEF PageTyped, CardsAreTrue
  <2> QED BY <1>1, <2>2, <2>4, PartsMakeInv
<1>8. ASSUME link' = NoLink, RecoverOutcome(link.of) PROVE PageInv'
  <2>1. PageTyped' /\ CardsAreTrue'
    BY <1>0, <1>8, RecoverKeeps, NoLinkIsOK DEF PageTyped
  <2> QED BY <1>1, <1>8, <2>1, NoLinkIsOK, PartsMakeInv
<1> QED BY <1>4, <1>6, <1>7, <1>8, <1>9

\* The stream has ended: a card is guessed from an end that was well.
LEMMA AfterStreamInv ==
    ASSUME PageInv, StreamEnds \/ GatewayEnds
    PROVE  PageInv'
<1>0. /\ PageTyped /\ RecheckOK /\ CardsAreTrue /\ LinkOK
      /\ UNCHANGED <<issued, outcome, run, sent, recheck, forgotten>>
      /\ PageTrouble \/ PageCalm
      /\ link.pc = "open" /\ link.of \in Approval /\ AfterStream /\ link' = NoLink
  BY PageTypesAre DEF PageInv, StreamEnds, GatewayEnds, LinkOK, PageCalm, AfterStream, serverVars
<1>1. RecheckOK' /\ RunsTyped' /\ OutcomesTyped' /\ RunsOK' /\ LinkOK' /\ link' \in LinkState
  BY <1>0, ServerRests, NoLinkIsOK DEF serverVars, RecheckOK
<1>2. CASE ~EndTells
  <2>1. RecoverOutcome(link.of)
    BY <1>0, <1>2 DEF AfterStream
  <2>2. PageTyped' /\ CardsAreTrue'
    BY <1>0, <1>1, <2>1, RecoverKeeps, TroubleIsTyped DEF PageTyped
  <2> QED BY <1>1, <2>2, PartsMakeInv
<1>3. CASE EndTells
  <2>1. outcome[link.of] = "terminal"
    BY <1>0, <1>3 DEF EndTells, LinkOK
  <2>2. /\ activeCard' = NoApproval /\ UNCHANGED query
        /\ card' = card \/ card' = [card EXCEPT ![link.of] = "guessed"]
    BY <1>0, <1>3 DEF AfterStream
  <2>3. /\ card' \in [Approval -> Card]
        /\ \A b \in Approval : card'[b] = card[b] \/ b = link.of
    BY <1>0, <2>2 DEF PageTyped, Card
  <2>4. PageTyped' /\ CardsAreTrue'
    BY <1>0, <1>1, <2>1, <2>2, <2>3, TroubleIsTyped DEF PageTyped, CardsAreTrue
  <2> QED BY <1>1, <2>4, PartsMakeInv
<1> QED BY <1>2, <1>3

\* Queries show what is recorded, and an answer that is old what was recorded then.
LEMMA QueryInv ==
    ASSUME PageInv, \/ \E a \in Approval : QueryAnswers(a) \/ QueryAgain(a)
                    \/ AskRecheck \/ Rechecked
    PROVE  PageInv'
<1>0. /\ PageTyped /\ RecheckOK /\ CardsAreTrue /\ LinkOK
      /\ UNCHANGED <<issued, outcome, run, sent, link, forgotten>>
      /\ PageTrouble \/ PageCalm
  BY PageTypesAre DEF PageInv, QueryAnswers, QueryAgain, AskRecheck, Rechecked, PageCalm, serverVars
<1>1. RunsTyped' /\ OutcomesTyped' /\ RunsOK' /\ LinkOK' /\ pageTrouble' \in 0..MaxPageTrouble
  BY <1>0, ServerRests, TroubleIsTyped DEF serverVars, LinkOK
<1>2. ASSUME NEW a \in Approval, QueryAnswers(a) PROVE PageInv'
  <2>1. PICK c \in {"unknown", "applying", "shown"}, q \in {"none", "waiting"} :
           /\ card' = [card EXCEPT ![a] = c] /\ query' = [query EXCEPT ![a] = q]
           /\ activeCard' \in {activeCard, NoApproval} /\ UNCHANGED recheck
           /\ c = "shown" => outcome[a] = "terminal"
    BY <1>2 DEF QueryAnswers
  <2>2. /\ card' \in [Approval -> Card] /\ query' \in [Approval -> {"none", "asking", "waiting"}]
        /\ card'[a] = c /\ \A b \in Approval \ {a} : card'[b] = card[b]
    BY <1>0, <2>1 DEF PageTyped, Card
  <2>3. PageTyped' /\ CardsAreTrue' /\ RecheckOK'
    BY <1>0, <1>1, <2>1, <2>2 DEF PageTyped, CardsAreTrue, RecheckOK
  <2> QED BY <1>1, <2>3, PartsMakeInv
<1>3. ASSUME NEW a \in Approval, QueryAgain(a) PROVE PageInv'
  <2>1. RecoverOutcome(a) /\ UNCHANGED recheck
    BY <1>3 DEF QueryAgain
  <2>2. PageTyped' /\ CardsAreTrue' /\ RecheckOK'
    BY <1>0, <1>1, <2>1, RecoverKeeps DEF PageTyped, RecheckOK
  <2> QED BY <1>1, <2>2, PartsMakeInv
<1>4. CASE AskRecheck
  <2>1. recheck' = [asked |-> TRUE, issued |-> issued, seen |-> outcome] /\ UNCHANGED <<card, activeCard, query>>
    BY <1>4 DEF AskRecheck
  <2>2. outcome \in [Approval -> OutcomeState]
    BY TypesAre DEF PageInv, OutcomesTyped
  <2>3. PageTyped' /\ CardsAreTrue' /\ RecheckOK'
    BY <1>0, <1>1, <2>1, <2>2 DEF PageTyped, CardsAreTrue, RecheckOK
  <2> QED BY <1>1, <2>3, PartsMakeInv
<1>5. CASE Rechecked
  <2> DEFINE undecided == {a \in Approval : recheck.seen[a] = "applying"}
  <2>1. /\ recheck' = [asked |-> FALSE, issued |-> {}, seen |-> [a \in Approval |-> "none"]]
        /\ card' = [a \in Approval |-> CASE recheck.seen[a] = "none" ->
                                             IF a \in recheck.issued THEN "pending" ELSE "none"
                                         [] recheck.seen[a] = "applying" -> "applying"
                                         [] OTHER -> "shown"]
        /\ query' = [a \in Approval |-> IF a \in undecided THEN "asking" ELSE query[a]]
        /\ activeCard' = activeCard \/ activeCard' \in undecided
    BY <1>5 DEF Rechecked
  <2>2. recheck.seen \in [Approval -> OutcomeState]
    BY <1>0 DEF PageTyped
  <2>3. \A a \in Approval : /\ card'[a] \in Card
                            /\ card'[a] \in {"shown", "guessed"} => recheck.seen[a] = "terminal"
    <3> SUFFICES ASSUME NEW a \in Approval
                 PROVE  /\ card'[a] \in Card
                        /\ card'[a] \in {"shown", "guessed"} => recheck.seen[a] = "terminal"
      OBVIOUS
    <3>1. recheck.seen[a] \in {"none", "applying", "terminal"}
      BY <2>2 DEF OutcomeState
    <3>2. card'[a] = CASE recheck.seen[a] = "none" ->
                           IF a \in recheck.issued THEN "pending" ELSE "none"
                       [] recheck.seen[a] = "applying" -> "applying"
                       [] OTHER -> "shown"
      BY <2>1
    <3>3. \/ recheck.seen[a] = "none" /\ card'[a] \in {"pending", "none"}
          \/ recheck.seen[a] = "applying" /\ card'[a] = "applying"
          \/ recheck.seen[a] = "terminal" /\ card'[a] = "shown"
      BY <3>1, <3>2
    <3> QED BY <3>3 DEF Card
  <2>4. card' \in [Approval -> Card]
    BY <2>1, <2>3, Zenon
  <2>5. query' \in [Approval -> {"none", "asking", "waiting"}]
    BY <1>0, <2>1 DEF PageTyped
  <2>6. recheck' \in [asked : BOOLEAN, issued : SUBSET Approval, seen : [Approval -> OutcomeState]] /\ RecheckOK'
    BY <2>1 DEF OutcomeState, RecheckOK
  <2>7. CardsAreTrue'
    BY <1>0, <2>3 DEF CardsAreTrue, RecheckOK
  <2>8. PageTyped'
    BY <1>0, <1>1, <2>1, <2>4, <2>5, <2>6 DEF PageTyped
  <2> QED BY <1>1, <2>6, <2>7, <2>8, PartsMakeInv
<1> QED BY <1>2, <1>3, <1>4, <1>5

LEMMA PageNextInv ==
    ASSUME PageInv, [PageNext]_pageVars
    PROVE  PageInv'
<1>1. CASE UNCHANGED pageVars
  <2>1. PageTyped' /\ LinkOK' /\ RecheckOK' /\ CardsAreTrue'
    BY <1>1, PageTypesAre DEF pageVars, PageInv, PageTyped, LinkOK, RecheckOK, CardsAreTrue
  <2>2. RunsTyped' /\ OutcomesTyped' /\ RunsOK'
    BY <1>1, ServerRests DEF pageVars, serverVars
  <2> QED BY <2>1, <2>2, PartsMakeInv
<1>2. CASE PageNext
  BY <1>2, RunStepsInv, ResumeInv, LinkGivenUpInv, DeliverInv, AfterStreamInv, QueryInv DEF PageNext
<1> QED BY <1>1, <1>2

\* The inductive invariant of the page, its stream and the runs it follows.
THEOREM PageInvariance == PageSpec => []PageInv
<1> QED BY PageInit1, PageNextInv, PTL DEF PageSpec

\* Type correctness of the page: a run never sends more frames than it is allowed,
\* its buffer keeps its limit, and a subscription never reads past its end.
THEOREM PageTyping == PageSpec => []PageTypeOK
<1>1. PageInv => PageTypeOK
  BY DEF PageInv
<1> QED BY <1>1, PageInvariance, PTL

\* However many frames are dropped, streams broken, requests repeated and answers
\* late: a card that tells how a decision ended is right.
THEOREM CardsStayTrue == PageSpec => []CardsAreTrue
<1>1. PageInv => CardsAreTrue
  BY DEF PageInv
<1> QED BY <1>1, PageInvariance, PTL
==============================================================================
