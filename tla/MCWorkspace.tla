------------------------------ MODULE MCWorkspace ------------------------------
(***************************************************************************)
(* A workspace for TLC: its runtime, and the store of its proposals.  They *)
(* share no state here: each behaviour is one of one of them, and the      *)
(* other is at rest.                                                       *)
(* Proposals, generations and sessions are interchangeable, so the store   *)
(* may as well save the proposals in a given order, and begin with a given *)
(* generation and a given session.                                         *)
(***************************************************************************)
EXTENDS WorkspaceRuntime, ProposalStore

CONSTANTS r1, r2, r3, p1, p2, p3, g1, g2, s1, s2

VARIABLE part

MCRequest == {r1, r2, r3}
MCProposal == {p1, p2, p3}
MCGeneration == {g1, g2}
MCSession == {s1, s2}

\* Bound: the third request comes for a chat, and while a generation can be issued.
ThirdChats == req'[r3].pc # "idle" => req'[r3].kind = "chat" /\ issued' < MaxGeneration

InOrder ==
    /\ \A p \in Ids(saved') \ Ids(saved) :
        /\ p = <<p1, p2, p3>>[Len(saved) + 1]
        /\ saved = <<>> => gen'[p] = g1
    /\ s2 \in Range(owner') => s1 \in Range(owner')

PartInit == part \in {"runtime", "store"} /\ Init /\ StoreInit

PartNext ==
    /\ UNCHANGED part
    /\ \/ part = "runtime" /\ Next /\ ThirdChats /\ UNCHANGED storeVars
       \/ part = "store" /\ StoreNext /\ InOrder /\ UNCHANGED vars

PartSpec ==
    /\ PartInit /\ [][PartNext]_<<part, vars, storeVars>>
    /\ \A r \in Request : WF_vars(Proceeds(r))
==============================================================================
