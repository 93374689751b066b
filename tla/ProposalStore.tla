---------------------------- MODULE ProposalStore ----------------------------
(***************************************************************************)
(* The durable store of prepared changes and approval outcomes             *)
(* (engine/core/workspace/proposal_store.py), one workspace of it: every   *)
(* statement of the store selects by workspace_id.                         *)
(*                                                                         *)
(* Each action is one SQLite transaction of SqliteProposalStore.  A row of *)
(* prepared_changes or approval_outcomes is the value of a function at the *)
(* proposal's id, "absent" when there is no such row.  created_at and      *)
(* updated_at matter only as orders, so they are the sequences saved and   *)
(* settled (the wall clock is taken not to run backwards).                 *)
(***************************************************************************)
EXTENDS Naturals, Sequences, FiniteSets

CONSTANTS
    Proposal,       \* proposal ids: uuid4, never issued twice
    Session,        \* session_sha256 values
    Generation,     \* generations of the workspace
    MaxPending,     \* max_pending of the change service
    MaxOutcomes     \* max_outcomes of the store

ASSUME MaxPendingAssumption == MaxPending \in Nat \ {0}
ASSUME MaxOutcomesAssumption == MaxOutcomes \in Nat \ {0}

VARIABLES
    changes,        \* prepared_changes.state
    gen,            \* the generation a proposal's rows are stored under
    saved,          \* ids in the order of created_at
    lapsed,         \* ids whose expires_at has passed
    outcomes,       \* approval_outcomes.state
    owner,          \* approval_outcomes.session_sha256
    settled         \* ids in the order in which their outcome became terminal

storeVars == <<changes, gen, saved, lapsed, outcomes, owner, settled>>

ChangeState == {"pending", "evicted", "expired", "claimed", "consumed"}

\* "applied" stands for the five applied_* states that carry a test verdict.
Terminal == {"rejected", "failed", "recovery_required", "applied",
             "applied_recovered"}
OutcomeState == {"applying"} \cup Terminal

NoGeneration == "no generation"
NoSession == "no session"

Ids(order) == {order[i] : i \in DOMAIN order}
Newer(order, p) ==
    {order[j] : j \in {k \in DOMAIN order : \E i \in 1..(k - 1) : order[i] = p}}

\* Mistaken: OFFSET keep + 1.
OverflowByOne(rows, order, keep) ==
    {p \in rows : Cardinality(rows \cap Newer(order, p)) > keep}

\* ORDER BY ... DESC LIMIT -1 OFFSET keep: the rows beyond the keep newest.
Overflow(rows, order, keep) ==
    {p \in rows : Cardinality(rows \cap Newer(order, p)) >= keep}

StoreTypeOK ==
    /\ changes \in [Proposal -> ChangeState \cup {"absent"}]
    /\ gen \in [Proposal -> Generation \cup {NoGeneration}]
    /\ saved \in Seq(Proposal)
    /\ lapsed \subseteq Proposal
    /\ outcomes \in [Proposal -> OutcomeState \cup {"absent"}]
    /\ owner \in [Proposal -> Session \cup {NoSession}]
    /\ settled \in Seq(Proposal)

StoreInit ==
    /\ changes = [p \in Proposal |-> "absent"]
    /\ gen = [p \in Proposal |-> NoGeneration]
    /\ saved = <<>>
    /\ lapsed = {}
    /\ outcomes = [p \in Proposal |-> "absent"]
    /\ owner = [p \in Proposal |-> NoSession]
    /\ settled = <<>>

------------------------------------------------------------------------------
\* The tables as the statements of one transaction leave them.

PendingIn(table, scope, g) == {q \in Proposal : table[q] = "pending" /\ scope[q] = g}

\* The pending rows that save evicts after inserting p.
EvictedBy(p, g) ==
    Overflow(PendingIn([changes EXCEPT ![p] = "pending"], [gen EXCEPT ![p] = g], g),
             Append(saved, p), MaxPending)

\* Mistaken: decided rows go whatever their outcome.
PrunableWhileApplying(table, scope, g) ==
    {q \in Proposal : table[q] \notin {"absent", "pending"} /\ scope[q] = g}

\* _prune_consumed: a decided row may go once its outcome is not applying.
Prunable(table, scope, g) ==
    {q \in Proposal : /\ table[q] \notin {"absent", "pending"}
                      /\ scope[q] = g
                      /\ outcomes[q] # "applying"}

TerminalIn(table, g) == {q \in Proposal : table[q] \in Terminal /\ gen[q] = g}

\* _prune_terminal_outcomes
PruneTerminal(table, order, g) ==
    LET old == Overflow(TerminalIn(table, g), order, MaxOutcomes)
    IN  [q \in Proposal |-> IF q \in old THEN "absent" ELSE table[q]]

\* _prune_old_terminal_generations
PruneOldGenerations(table, g) ==
    [q \in Proposal |-> IF table[q] \in Terminal /\ gen[q] # g
                        THEN "absent" ELSE table[q]]

------------------------------------------------------------------------------
\* The transactions.

\* save: insert, evict the oldest pending rows, prune the decided ones.
Save(p, g) ==
    /\ p \notin Ids(saved)
    /\ saved' = Append(saved, p)
    /\ gen' = [gen EXCEPT ![p] = g]
    /\ LET kept   == [q \in Proposal |-> IF q \in EvictedBy(p, g) THEN "evicted"
                                         ELSE IF q = p THEN "pending" ELSE changes[q]]
           pruned == Overflow(Prunable(kept, gen', g), saved', MaxPending)
       IN  changes' = [q \in Proposal |-> IF q \in pruned THEN "absent" ELSE kept[q]]
    /\ UNCHANGED <<lapsed, outcomes, owner, settled>>

\* expires_at passes.  Every proposal has the same time to live, so they
\* lapse in the order in which they were saved.
Lapse(p) ==
    /\ p \in Ids(saved) \ lapsed
    /\ \A q \in Ids(saved) \ lapsed : q = p \/ q \in Newer(saved, p)
    /\ lapsed' = lapsed \cup {p}
    /\ UNCHANGED <<changes, gen, saved, outcomes, owner, settled>>

\* load of a pending row whose time has passed marks it expired; every other
\* load only reads.
LoadExpire(p, g) ==
    /\ changes[p] = "pending" /\ gen[p] = g /\ p \in lapsed
    /\ changes' = [changes EXCEPT ![p] = "expired"]
    /\ UNCHANGED <<gen, saved, lapsed, outcomes, owner, settled>>

\* Mistaken: only a pending change can be consumed.
ConsumableUnclaimed(p, g) == changes[p] = "pending" /\ gen[p] = g /\ p \notin lapsed

Consumable(p, g) ==
    changes[p] \in {"pending", "claimed"} /\ gen[p] = g /\ p \notin lapsed

\* consume: the compare-and-set that precedes the one write of a proposal.
Consume(p, g) ==
    /\ Consumable(p, g)
    /\ changes' = [changes EXCEPT ![p] = "consumed"]
    /\ UNCHANGED <<gen, saved, lapsed, outcomes, owner, settled>>

\* discard: only a pending row is evicted or expired.
Discard(p, g, state) ==
    /\ changes[p] = "pending" /\ gen[p] = g
    /\ changes' = [changes EXCEPT ![p] = state]
    /\ UNCHANGED <<gen, saved, lapsed, outcomes, owner, settled>>

\* Mistaken: the compare-and-set accepts what is claimed already.
ClaimableAgain(p, g) == changes[p] \in {"pending", "claimed"} /\ gen[p] = g

Claimable(p, g) == changes[p] = "pending" /\ gen[p] = g

\* claim_outcome, when its compare-and-set succeeds.  Otherwise it only reads.
ClaimOutcome(p, g, s) ==
    /\ Claimable(p, g)
    /\ changes' = [changes EXCEPT ![p] = "claimed"]
    /\ LET inserted == IF outcomes[p] = "absent"
                       THEN [outcomes EXCEPT ![p] = "applying"] ELSE outcomes
       IN  outcomes' = PruneTerminal(PruneOldGenerations(inserted, g), settled, g)
    /\ owner' = IF outcomes[p] = "absent" THEN [owner EXCEPT ![p] = s] ELSE owner
    /\ UNCHANGED <<gen, saved, lapsed, settled>>

\* Mistaken: the update lacks AND state = 'applying'.
CompleteAnyOutcome(p, g, state) ==
    /\ outcomes[p] # "absent" /\ gen[p] = g
    /\ settled' = Append(SelectSeq(settled, LAMBDA q : q # p), p)
    /\ outcomes' = PruneTerminal([outcomes EXCEPT ![p] = state], settled', g)
    /\ UNCHANGED <<changes, gen, saved, lapsed, owner>>

\* _complete_outcome_by_approval, and the part it shares with complete_outcome.
CompleteByApproval(p, g, state) ==
    /\ outcomes[p] = "applying" /\ gen[p] = g
    /\ settled' = Append(settled, p)
    /\ outcomes' = PruneTerminal([outcomes EXCEPT ![p] = state], settled', g)
    /\ UNCHANGED <<changes, gen, saved, lapsed, owner>>

\* complete_outcome: only in the session that claimed.
CompleteOutcome(p, g, s, state) ==
    /\ owner[p] = s
    /\ CompleteByApproval(p, g, state)

\* reconcile_applying reads approval_outcomes joined with prepared_changes.
Interrupted(g) ==
    {p \in Proposal : outcomes[p] = "applying" /\ gen[p] = g /\ changes[p] # "absent"}

\* One row of reconcile_applying: the hash of the target decides.
Reconcile(p, g, written) ==
    /\ p \in Interrupted(g)
    /\ CompleteByApproval(p, g, IF written THEN "applied_recovered"
                                           ELSE "recovery_required")

StoreNext ==
    \/ \E p \in Proposal : Lapse(p)
    \/ \E p \in Proposal, g \in Generation :
        \/ Save(p, g)
        \/ LoadExpire(p, g)
        \/ Consume(p, g)
        \/ \E state \in {"evicted", "expired"} : Discard(p, g, state)
        \/ \E s \in Session : \/ ClaimOutcome(p, g, s)
                              \/ \E state \in Terminal : CompleteOutcome(p, g, s, state)
        \/ \E written \in BOOLEAN : Reconcile(p, g, written)

StoreSpec == StoreInit /\ [][StoreNext]_storeVars

------------------------------------------------------------------------------
\* What the store promises its callers.

\* Recovery can always be decided: while an outcome is applying, the change
\* that reconcile_applying joins it with is still stored, however many
\* previews have pruned the table since (_prune_consumed).
ApplyingKeepsChange ==
    \A p \in Proposal : outcomes[p] = "applying" => changes[p] \in {"claimed", "consumed"}

\* Both tables stay bounded: at most MaxPending undecided proposals, and at
\* most MaxOutcomes terminal outcomes, in each generation.
RetentionBounds ==
    \A g \in Generation :
        /\ Cardinality(PendingIn(changes, gen, g)) <= MaxPending
        /\ Cardinality(TerminalIn(outcomes, g)) <= MaxOutcomes

\* An outcome is decided once: it may only become terminal, a terminal one
\* never changes state or session, and only terminal ones are pruned.
OutcomeLifecycle ==
    [][\A p \in Proposal :
        /\ outcomes[p] = "applying" => outcomes'[p] # "absent"
        /\ outcomes[p] \in Terminal => outcomes'[p] \in {outcomes[p], "absent"}
        /\ outcomes[p] # "absent" => owner'[p] = owner[p]]_storeVars

\* A decision is taken at most once per proposal, even after the rows that
\* record it are pruned: what is not pending never becomes pending or applying
\* again, and a consumed change is never un-consumed (claim_outcome, consume).
DecidedStaysDecided ==
    [][\A p \in Ids(saved) :
        /\ changes[p] # "pending" => changes'[p] # "pending"
        /\ changes[p] # "pending" /\ outcomes[p] # "applying" => outcomes'[p] # "applying"
        /\ changes[p] = "consumed" => changes'[p] \in {"consumed", "absent"}]_storeVars
==============================================================================
