------------------------------ MODULE OutcomePage -------------------------------
(****************************************************************************)
(* How the page learns what became of a decision: the frame buffer of a     *)
(* background run (_DurableResumeRun, engine/api/chat.py), the gateway that *)
(* relays its events (java-service), and the page's approval cards with     *)
(* their stream and their queries of the outcome (web/src/App.tsx).         *)
(*                                                                          *)
(* One session of one workspace with the approvals of one message.  What a  *)
(* run does is ApprovalFlow's subject; here it talks, records, and ends.    *)
(****************************************************************************)
EXTENDS Naturals, Sequences

CONSTANTS
    Approval, NoApproval,
    BufferLimit,        \* 256 frames, or as many as fit into a MiB
    MaxChatter,         \* bound: frames of a run before its last two
    MaxPageTrouble      \* bound: requests and streams that break, failing
                        \* persistence, and what the user does besides deciding

ASSUME NoApprovalAssumption == NoApproval \notin Approval

Word == {"chatter", "outcome", "error", "done", "failed"}

ASSUME WordAssumption == Approval \cap Word = {}

ASSUME PageBounds ==
    BufferLimit \in Nat \ {0} /\ MaxChatter \in Nat /\ MaxPageTrouble \in Nat

VARIABLES
    issued,             \* the approvals the engine has asked for so far
    outcome,            \* rows of approval_outcomes
    run,                \* the run objects
    sent,               \* resume requests on their way that nobody waits for any more
    card,               \* the approvals on the page
    activeCard,             \* activeApprovalRef
    link,               \* the page's resume stream, of generationRef
    query,              \* outcomeAbortRef and outcomeTimerRef
    recheck,            \* recoverWorkspace: the answer of /chat/pending on its way
    forgotten,          \* history: a stream was given up, and its outcome not asked for
    pageTrouble

pageVars == <<issued, outcome, run, sent, card, activeCard, link, query, recheck,
              forgotten, pageTrouble>>

\* An approval_required frame is the approval it asks for.
Frame == Word \union Approval
NoRun == [pc |-> "none", base |-> 0, frames |-> <<>>]
NoLink == [pc |-> "closed", of |-> NoApproval, replay |-> FALSE, cursor |-> 0,
           terminal |-> "none", streamed |-> FALSE]
Card == {"none", "pending", "submitting", "applying", "shown", "guessed", "unknown"}

PageTypeOK ==
    /\ issued \subseteq Approval
    /\ outcome \in [Approval -> {"none", "applying", "terminal"}]
    /\ run \in [Approval -> [pc : {"none", "talking", "recorded", "unrecorded", "last", "over"},
                             base : 0..(MaxChatter + 2), frames : Seq(Frame)]]
    /\ \A a \in Approval : Len(run[a].frames) <= BufferLimit
    /\ sent \subseteq Approval /\ forgotten \subseteq Approval
    /\ card \in [Approval -> Card]
    /\ activeCard \in Approval \union {NoApproval}
    /\ link \in [pc : {"closed", "asked", "open"}, of : Approval \union {NoApproval},
                 replay : BOOLEAN, cursor : 0..(MaxChatter + 2),
                 terminal : {"none", "failed", "completed"}, streamed : BOOLEAN]
    /\ query \in [Approval -> {"none", "asking", "waiting"}]
    /\ recheck \in [asked : BOOLEAN, issued : SUBSET Approval,
                   seen : [Approval -> {"none", "applying", "terminal"}]]
    /\ pageTrouble \in 0..MaxPageTrouble

\* The first approval is on the page; the others are asked for on the way.
PageInit ==
    /\ \E first \in Approval : issued = {first}
    /\ outcome = [a \in Approval |-> "none"] /\ run = [a \in Approval |-> NoRun]
    /\ sent = {} /\ forgotten = {}
    /\ card = [a \in Approval |-> IF a \in issued THEN "pending" ELSE "none"]
    /\ activeCard = NoApproval /\ link = NoLink
    /\ query = [a \in Approval |-> "none"]
    /\ recheck = [asked |-> FALSE, issued |-> {}, seen |-> outcome]
    /\ pageTrouble = 0

PageTrouble == pageTrouble < MaxPageTrouble /\ pageTrouble' = pageTrouble + 1
PageCalm == UNCHANGED pageTrouble
serverVars == <<issued, outcome, run>>

------------------------------------------------------------------------------
\* publish: the buffer drops its oldest frames.
Publish(r, frame) ==
    IF Len(r.frames) < BufferLimit
    THEN [r EXCEPT !.frames = Append(@, frame)]
    ELSE [r EXCEPT !.frames = Append(Tail(@), frame), !.base = @ + 1]

Sent(r) == r.base + Len(r.frames)

\* _execute_resume_run: frames as they come; the interrupt of the replayed turn may
\* ask for another approval, and for a decided one again;
RunTalks(a) ==
    /\ run[a].pc = "talking" /\ Sent(run[a]) < MaxChatter
    /\ \E frame \in {"chatter", a} \union (Approval \ issued) :
          /\ run' = [run EXCEPT ![a] = Publish(@, frame)]
          /\ issued' = issued \union ({frame} \cap Approval)
    /\ UNCHANGED <<outcome, sent, card, activeCard, link, query, recheck, forgotten, pageTrouble>>

\* the outcome is recorded and published; or an error is, with or without a record;
RunRecords(a) ==
    /\ run[a].pc = "talking"
    /\ \/ /\ PageCalm
          /\ outcome' = [outcome EXCEPT ![a] = "terminal"]
          /\ run' = [run EXCEPT ![a] = [Publish(@, "outcome") EXCEPT !.pc = "recorded"]]
       \/ /\ PageTrouble
          /\ outcome' \in {outcome, [outcome EXCEPT ![a] = "terminal"]}
          /\ run' = [run EXCEPT ![a] = [Publish(@, "error") EXCEPT !.pc = "unrecorded"]]
    /\ UNCHANGED <<issued, sent, card, activeCard, link, query, recheck, forgotten>>

\* the done frame; and finish.
RunEnds(a) ==
    /\ \/ /\ run[a].pc \in {"recorded", "unrecorded"}
          /\ LET last == IF run[a].pc = "recorded" THEN "done" ELSE "failed"
             IN  run' = [run EXCEPT ![a] = [Publish(@, last) EXCEPT !.pc = "last"]]
       \/ /\ run[a].pc = "last"
          /\ run' = [run EXCEPT ![a].pc = "over"]
    /\ UNCHANGED <<issued, outcome, sent, card, activeCard, link, query, recheck, forgotten,
                   pageTrouble>>

\* resume, for a request that somebody waits for or nobody: an outcome that is
\* there is replayed, a run that is there is followed, else there will be a run;
\* what was left applying is reconciled.
Served(a) ==
    IF outcome[a] = "none"
    THEN /\ outcome' = [outcome EXCEPT ![a] = "applying"]
         /\ run' = [run EXCEPT ![a].pc = "talking"]
    ELSE /\ outcome' = IF run[a].pc = "over" THEN [outcome EXCEPT ![a] = "terminal"] ELSE outcome
         /\ UNCHANGED run

Replayed(a) == outcome[a] = "terminal" \/ (outcome[a] = "applying" /\ run[a].pc = "over")

ResumeAnswers ==
    /\ link.pc = "asked"
    /\ Served(link.of)
    /\ link' = [link EXCEPT !.pc = "open", !.replay = Replayed(link.of),
                            !.cursor = IF Replayed(link.of) THEN 0 ELSE run[link.of].base]
    /\ UNCHANGED <<issued, sent, card, activeCard, query, recheck, forgotten, pageTrouble>>

ResumeUnheard(a) ==
    /\ a \in sent
    /\ sent' = sent \ {a}
    /\ Served(a) \/ UNCHANGED serverVars
    /\ UNCHANGED <<issued, card, activeCard, link, query, recheck, forgotten, pageTrouble>>

------------------------------------------------------------------------------
\* recoverApprovalOutcome, up to its await.
RecoverOutcome(a) ==
    /\ activeCard' = a
    /\ card' = [card EXCEPT ![a] = "applying"]
    /\ query' = [query EXCEPT ![a] = "asking"]

\* abortRef.current.abort(): the request may have left.
Abandons ==
    sent' \in {sent} \union (IF link.pc = "asked" THEN {sent \union {link.of}} ELSE {})

\* resumeApproval: any pending card that has no stream of its own, also while the
\* stream of another is open; that one is given up.
DecideCard(a) ==
    /\ card[a] = "pending"
    /\ link.pc = "closed" \/ link.of # a
    /\ Abandons
    /\ forgotten' = IF link.pc = "closed" THEN forgotten ELSE forgotten \union {link.of}
    /\ activeCard' = a
    /\ link' = [NoLink EXCEPT !.pc = "asked", !.of = a]
    /\ card' = [card EXCEPT ![a] = "submitting"]
    /\ UNCHANGED <<serverVars, query, recheck, pageTrouble>>

\* What the subscription reads next: a cursor the buffer has overtaken moves up.  A
\* replay has its own two frames and no buffer.
Cursor == IF ~link.replay /\ link.cursor < run[link.of].base THEN run[link.of].base
          ELSE link.cursor
NextFrame == IF link.replay THEN <<"outcome", "done">>[link.cursor + 1]
             ELSE run[link.of].frames[Cursor - run[link.of].base + 1]
HasFrame == IF link.replay THEN link.cursor < 2 ELSE Cursor < Sent(run[link.of])

\* Mistaken: whichever approval is active.
SomeIsActive(a) == activeCard # NoApproval

\* The outcome is parsed for the active approval, and has to be of that one.
Matches(a) == activeCard = a

\* handleAgentEvent: nothing counts after the end; an approval asked for is pending,
\* whatever its card says; an outcome counts for the active approval only, and raises
\* otherwise, which ends in recoverApprovalOutcome.
DeliverFrame ==
    /\ link.pc = "open" /\ HasFrame
    /\ LET a == link.of
           next == [link EXCEPT !.cursor = Cursor + 1]
           kind == IF link.terminal = "none" THEN NextFrame ELSE "chatter"
       IN  \/ /\ kind \in {"chatter", "error", "failed", "done"}
              /\ link' = [next EXCEPT !.terminal = CASE kind = "chatter" -> @
                                                     [] kind = "done" -> "completed"
                                                     [] OTHER -> "failed"]
              /\ UNCHANGED <<card, activeCard, query>>
           \/ /\ kind \in Approval
              /\ link' = next
              /\ card' = [card EXCEPT ![kind] = "pending"]
              /\ UNCHANGED <<activeCard, query>>
           \/ /\ kind = "outcome" /\ Matches(a)
              /\ link' = [next EXCEPT !.streamed = TRUE]
              /\ card' = [card EXCEPT ![activeCard] = "shown"]
              /\ UNCHANGED <<activeCard, query>>
           \/ /\ kind = "outcome" /\ ~Matches(a)
              /\ link' = NoLink /\ RecoverOutcome(a)
    /\ UNCHANGED <<serverVars, sent, recheck, forgotten, pageTrouble>>

\* Mistaken: a stream that breaks off without a word has ended well.
NothingFailed == link.terminal # "failed"

\* The end tells enough: there was one, and it was not a failure.
EndTells == link.terminal = "completed"

\* What resumeApproval does when its stream has ended.
AfterStream ==
    /\ link' = NoLink
    /\ IF ~EndTells THEN RecoverOutcome(link.of)
       ELSE /\ activeCard' = NoApproval
            /\ card' = IF link.streamed THEN card ELSE [card EXCEPT ![link.of] = "guessed"]
            /\ UNCHANGED query

StreamEnds ==
    /\ link.pc = "open" /\ ~HasFrame
    /\ link.replay \/ run[link.of].pc = "over"
    /\ AfterStream
    /\ UNCHANGED <<serverVars, sent, recheck, forgotten, pageTrouble>>

\* The request is refused or the connection breaks, and fetch raises.
LinkBreaks ==
    /\ link.pc # "closed" /\ PageTrouble
    /\ Abandons
    /\ link' = NoLink /\ RecoverOutcome(link.of)
    /\ UNCHANGED <<serverVars, recheck, forgotten>>

\* safelyStream: the upstream breaks after its first event; the gateway adds an
\* error and a done event.
GatewayEnds ==
    /\ link.pc = "open" /\ link.cursor > 0 /\ PageTrouble
    /\ AfterStream
    /\ UNCHANGED <<serverVars, sent, recheck, forgotten>>

------------------------------------------------------------------------------
\* The answer of /chat/outcome: none, not yet, or what it was.
QueryAnswers(a) ==
    /\ query[a] = "asking"
    /\ \/ /\ \/ outcome[a] = "none" /\ PageCalm
             \/ PageTrouble
          /\ card' = [card EXCEPT ![a] = "unknown"]
          /\ activeCard' = NoApproval /\ query' = [query EXCEPT ![a] = "none"]
       \/ /\ outcome[a] = "applying" /\ PageCalm
          /\ card' = [card EXCEPT ![a] = "applying"]
          /\ query' = [query EXCEPT ![a] = "waiting"] /\ UNCHANGED activeCard
       \/ /\ outcome[a] = "terminal" /\ PageCalm
          /\ card' = [card EXCEPT ![a] = "shown"]
          /\ activeCard' = NoApproval /\ query' = [query EXCEPT ![a] = "none"]
    /\ UNCHANGED <<serverVars, sent, link, recheck, forgotten>>

\* Mistaken: the timer is not set again after the second answer.
AsksOnce(a) == query[a] = "waiting" /\ run[a].pc = "talking"

\* The timer of an answer that was not the last.
AsksAgain(a) == query[a] = "waiting"

QueryAgain(a) ==
    /\ AsksAgain(a)
    /\ RecoverOutcome(a)
    /\ UNCHANGED <<serverVars, sent, link, recheck, forgotten, pageTrouble>>

\* The stop button: stopRun gives up the stream and asks for the active approval.
StopRun ==
    /\ link.pc # "closed" /\ PageTrouble
    /\ Abandons
    /\ link' = NoLink
    /\ forgotten' = IF activeCard = link.of THEN forgotten ELSE forgotten \union {link.of}
    /\ IF activeCard = NoApproval THEN UNCHANGED <<card, activeCard, query>>
       ELSE RecoverOutcome(activeCard)
    /\ UNCHANGED <<serverVars, recheck>>

\* The button "check again": recoverWorkspace asks /chat/pending,
AskRecheck ==
    /\ ~recheck.asked /\ PageTrouble
    /\ \E a \in Approval : card[a] = "unknown"
    /\ recheck' = [asked |-> TRUE, issued |-> issued, seen |-> outcome]
    /\ UNCHANGED <<serverVars, sent, card, activeCard, link, query, forgotten>>

\* and shows what the answer says, which may be old by now.
Rechecked ==
    /\ recheck.asked
    /\ recheck' = [asked |-> FALSE, issued |-> {}, seen |-> [a \in Approval |-> "none"]]
    /\ LET undecided == {a \in Approval : recheck.seen[a] = "applying"}
       IN  /\ card' = [a \in Approval |-> CASE recheck.seen[a] = "none" ->
                                                IF a \in recheck.issued THEN "pending" ELSE "none"
                                            [] recheck.seen[a] = "applying" -> "applying"
                                            [] OTHER -> "shown"]
           /\ query' = [a \in Approval |-> IF a \in undecided THEN "asking" ELSE query[a]]
           /\ IF undecided = {} THEN UNCHANGED activeCard ELSE activeCard' \in undecided
    /\ UNCHANGED <<serverVars, sent, link, forgotten, pageTrouble>>

PageNext ==
    \/ \E a \in Approval : \/ RunTalks(a) \/ RunRecords(a) \/ RunEnds(a) \/ ResumeUnheard(a)
                           \/ DecideCard(a) \/ QueryAnswers(a) \/ QueryAgain(a)
    \/ ResumeAnswers \/ DeliverFrame \/ StreamEnds \/ LinkBreaks \/ GatewayEnds
    \/ StopRun \/ AskRecheck \/ Rechecked

\* Runs go on and requests are answered; the user and the network are free.
PageFairness ==
    /\ \A a \in Approval : /\ WF_pageVars(RunRecords(a)) /\ WF_pageVars(RunEnds(a))
                            /\ WF_pageVars(QueryAnswers(a)) /\ WF_pageVars(QueryAgain(a))
    /\ WF_pageVars(ResumeAnswers) /\ WF_pageVars(DeliverFrame) /\ WF_pageVars(StreamEnds)

PageSpec == PageInit /\ [][PageNext]_pageVars /\ PageFairness

------------------------------------------------------------------------------
\* A card that tells how a decision ended is right: the outcome is recorded, also
\* when the page concludes it from the end of the stream alone, however many frames
\* the buffer has dropped (publish, subscribe, resumeApproval).
CardsAreTrue ==
    \A a \in Approval : card[a] \in {"shown", "guessed"} => outcome[a] = "terminal"

\* A decision that was sent ends with its outcome on the card, or with the statement
\* that it is unknown, whatever breaks on the way - the query of the outcome and what
\* follows it included - and also when an old answer or a repeated frame shows the card
\* as pending meanwhile; unless its stream was given up for another approval, or neither
\* attempt to record the outcome succeeded (recoverApprovalOutcome, recoverWorkspace).
EveryDecisionIsShown ==
    \A a \in Approval :
        card[a] \in {"submitting", "applying"} ~>
            \/ card[a] \in {"shown", "unknown"}
            \/ a \in forgotten
            \/ outcome[a] = "applying" /\ run[a].pc = "over"
==============================================================================
