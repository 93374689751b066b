------------------------------ MODULE ToolManager -------------------------------
(****************************************************************************)
(* MCPManager (engine/core/mcp/manager.py) with its ToolRegistry and the    *)
(* calls it forwards to tool providers: initialisation of all servers side  *)
(* by side, the background loop that reconnects the failed ones, retries    *)
(* of calls, and approved calls, which are prepared and executed once.      *)
(*                                                                          *)
(* A server is down, answers with no tools, or answers with what it offers. *)
(* It changes between them as it likes, MaxTurns times.                     *)
(****************************************************************************)
EXTENDS Naturals, FiniteSets

CONSTANTS
    Server, Tool, Call,
    NoServer,
    Retrying,       \* servers whose provider has retry_on_error (HTTP and mock)
    MaxTurns        \* bound: changes of a server's health

ASSUME NoServerAssumption == NoServer \notin Server
ASSUME ToolAssumption == Tool # {}
ASSUME MaxTurnsAssumption == MaxTurns \in Nat

Attempts == 3       \* len(RETRY_BACKOFFS)

VARIABLES
    offers,         \* the tools each server has when it has any
    health,         \* "down", "empty" or "full"
    provider,       \* the registry: whom a tool belongs to
    failed,         \* _failed_servers
    manager,        \* init_all, then _self_heal_loop
    call,           \* calls of tools
    emptyJoin,      \* history: servers that were connected while they had no tools
    turns

toolVars == <<offers, health, provider, failed, manager, call, emptyJoin, turns>>

Manager == [pc : {"init", "sleeping", "healing", "closed"},
            todo : SUBSET Server,           \* still to be connected
            done : SUBSET Server]           \* connected in this round
CallState == [pc : {"idle", "prepared", "trying", "returned"},
              tool : Tool, approved : BOOLEAN,
              prepared : Server \union {NoServer},      \* prepare_approval was asked of it
              at : Server \union {NoServer},            \* the provider that executes
              tries : 0..Attempts, effects : 0..Attempts]

NoCall == [pc |-> "idle", tool |-> CHOOSE t \in Tool : TRUE, approved |-> FALSE,
           prepared |-> NoServer, at |-> NoServer, tries |-> 0, effects |-> 0]

ToolTypeOK ==
    /\ offers \in [Server -> SUBSET Tool \ {{}}]
    /\ health \in [Server -> {"down", "empty", "full"}]
    /\ provider \in [Tool -> Server \union {NoServer}]
    /\ \A t \in Tool : provider[t] # NoServer => t \in offers[provider[t]]
    /\ failed \subseteq Server /\ emptyJoin \subseteq Server
    /\ manager \in Manager
    /\ call \in [Call -> CallState]
    /\ \A c \in Call : call[c].effects <= call[c].tries
    /\ turns \in 0..MaxTurns

ToolInit ==
    /\ offers \in [Server -> SUBSET Tool \ {{}}]
    /\ health \in [Server -> {"down", "empty", "full"}]
    /\ provider = [t \in Tool |-> NoServer]
    /\ failed = {} /\ emptyJoin = {}
    /\ manager = [pc |-> "init", todo |-> Server, done |-> {}]
    /\ call = [c \in Call |-> NoCall]
    /\ turns = 0

Empty == \A t \in Tool : provider[t] = NoServer

HealthTurns(s) ==
    /\ turns < MaxTurns /\ turns' = turns + 1
    /\ \E h \in {"down", "empty", "full"} \ {health[s]} : health' = [health EXCEPT ![s] = h]
    /\ UNCHANGED <<offers, provider, failed, manager, call, emptyJoin>>

------------------------------------------------------------------------------
\* Mistaken: the last to register a name owns it.
Overwrite(s, tools) == [t \in Tool |-> IF t \in tools THEN s ELSE provider[t]]

\* ToolRegistry.register, for each tool: a name that is taken is skipped.
Register(s, tools) ==
    [t \in Tool |-> IF t \in tools /\ provider[t] = NoServer THEN s ELSE provider[t]]

\* _connect_server within its timeout, and its tools are registered.  A server
\* that is down fails or does not answer in time.
Connect(s) ==
    /\ manager.pc \in {"init", "healing"} /\ s \in manager.todo
    /\ IF health[s] = "down"
       THEN /\ manager' = [manager EXCEPT !.todo = @ \ {s}]
            /\ UNCHANGED <<provider, emptyJoin>>
       ELSE LET listed == IF health[s] = "full" THEN offers[s] ELSE {}
            IN  /\ provider' = Register(s, listed)
                /\ emptyJoin' = IF health[s] = "full" THEN emptyJoin \ {s}
                                ELSE emptyJoin \union {s}
                /\ manager' = [manager EXCEPT !.todo = @ \ {s}, !.done = @ \union {s}]
    /\ UNCHANGED <<offers, health, failed, call, turns>>

\* Mistaken: what failed during initialisation is only logged.
Missed == {}

Missing == Server \ manager.done

\* The end of init_all: the heal loop starts, asleep.
InitEnds ==
    /\ manager.pc = "init" /\ manager.todo = {}
    /\ failed' = failed \union Missing
    /\ manager' = [pc |-> "sleeping", todo |-> {}, done |-> {}]
    /\ UNCHANGED <<offers, health, provider, call, emptyJoin, turns>>

\* Mistaken: no guard against an empty registry.
FailedOnly == failed

\* Whom the loop reconnects: everybody when the registry is empty.
ToReconnect == IF Empty THEN Server ELSE failed

Wake ==
    /\ manager.pc = "sleeping"
    /\ failed' = ToReconnect
    /\ emptyJoin' = emptyJoin \ ToReconnect
    /\ manager' = [pc |-> "healing", todo |-> ToReconnect, done |-> {}]
    /\ UNCHANGED <<offers, health, provider, call, turns>>

\* The end of a round; the reconnected servers leave the list together.
RoundEnds ==
    /\ manager.pc = "healing" /\ manager.todo = {}
    /\ failed' = failed \ manager.done
    /\ manager' = [pc |-> "sleeping", todo |-> {}, done |-> {}]
    /\ UNCHANGED <<offers, health, provider, call, emptyJoin, turns>>

\* shutdown: the loop is cancelled at whatever it awaits.
Shutdown ==
    /\ manager.pc \in {"sleeping", "healing"}
    /\ manager' = [pc |-> "closed", todo |-> {}, done |-> {}]
    /\ UNCHANGED <<offers, health, provider, failed, call, emptyJoin, turns>>

------------------------------------------------------------------------------
\* prepare_approval asks the owning provider; approval may take any time.
Prepare(c, t) ==
    /\ call[c].pc = "idle" /\ provider[t] # NoServer
    /\ call' = [call EXCEPT ![c].pc = "prepared", ![c].tool = t, ![c].approved = TRUE,
                            ![c].prepared = provider[t]]
    /\ UNCHANGED <<offers, health, provider, failed, manager, emptyJoin, turns>>

\* call_tool finds the provider once, before its first attempt.
CallTool(c, t) ==
    /\ \/ call[c].pc = "idle"
       \/ call[c].pc = "prepared" /\ call[c].tool = t
    /\ call' = [call EXCEPT ![c].tool = t, ![c].at = provider[t],
                            ![c].pc = IF provider[t] = NoServer THEN "returned" ELSE "trying"]
    /\ UNCHANGED <<offers, health, provider, failed, manager, emptyJoin, turns>>

\* Approved calls and providers without retry_on_error get one attempt.
TriesAgain(c) ==
    /\ ~call[c].approved /\ call[c].at \in Retrying
    /\ call[c].tries + 1 < Attempts

\* An attempt succeeds; or it fails, before or after the server has done it.
Attempt(c) ==
    /\ call[c].pc = "trying"
    /\ \/ /\ health[call[c].at] # "down"
          /\ call' = [call EXCEPT ![c].pc = "returned", ![c].tries = @ + 1, ![c].effects = @ + 1]
       \/ \E done \in {0, 1} :
             call' = [call EXCEPT ![c].pc = IF TriesAgain(c) THEN "trying" ELSE "returned",
                                  ![c].tries = @ + 1, ![c].effects = @ + done]
    /\ UNCHANGED <<offers, health, provider, failed, manager, emptyJoin, turns>>

ToolNext ==
    \/ \E s \in Server : HealthTurns(s) \/ Connect(s)
    \/ InitEnds \/ Wake \/ RoundEnds \/ Shutdown
    \/ \E c \in Call, t \in Tool : Prepare(c, t) \/ CallTool(c, t)
    \/ \E c \in Call : Attempt(c)

\* The loop wakes up and its connections end, by their timeout if need be.
ToolFairness ==
    WF_toolVars((\E s \in Server : Connect(s)) \/ InitEnds \/ Wake \/ RoundEnds)

ToolSpec == ToolInit /\ [][ToolNext]_toolVars /\ ToolFairness

------------------------------------------------------------------------------
\* A call that must not be repeated is done at most once, whatever gets lost; the
\* others at most as often as they are tried (call_tool).
DoneAtMostOnce ==
    \A c \in Call : call[c].approved \/ call[c].at \notin Retrying => call[c].effects <= 1

\* An approved call is executed by the provider that prepared the approval,
\* whoever is reconnected in between (register skips names that are taken).
ApprovalStaysWithProvider ==
    \A c \in Call : call[c].approved /\ call[c].pc \in {"trying", "returned"} =>
        call[c].at = call[c].prepared

Registered(s) == \A t \in offers[s] : provider[t] # NoServer
StaysUp(s) == <>[](health[s] = "full" /\ manager.pc # "closed")

\* A server that comes up and stays up gets its tools registered, by init_all or by
\* the loop; unless it was connected while it had none, which the loop repeats only as
\* long as the registry is empty (_self_heal_loop), and otherwise a user's request for a
\* refresh, which is not modelled.
EveryServerServes ==
    \A s \in Server : StaysUp(s) => <>[](Registered(s) \/ (s \in emptyJoin /\ ~Empty))
==============================================================================
