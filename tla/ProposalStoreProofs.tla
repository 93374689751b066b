------------------------- MODULE ProposalStoreProofs -------------------------
(***************************************************************************)
(* The store's properties, proved for any number of proposals, sessions    *)
(* and generations and any retention limits; last, that the two overflow   *)
(* queries really keep the tables within these limits.                     *)
(***************************************************************************)
EXTENDS ProposalStore, FiniteSetTheorems, WellFoundedInduction, TLAPS

\* The two facts about the rows' history that the invariants need: what was
\* never saved has no change row, and what was settled was decided and is not
\* under decision.
UnsavedIsAbsent ==
    \A p \in Proposal : p \notin Ids(saved) => changes[p] = "absent"
SettledIsDecided ==
    \A p \in Proposal :
        p \in Ids(settled) => /\ p \in Ids(saved)
                              /\ changes[p] # "pending"
                              /\ outcomes[p] # "applying"

StoreInv ==
    /\ StoreTypeOK
    /\ UnsavedIsAbsent
    /\ ApplyingKeepsChange
    /\ SettledIsDecided

------------------------------------------------------------------------------
\* Lemmas on the operators.

\* Appending to an order adds exactly the element appended.
LEMMA AppendIds ==
    ASSUME NEW S, NEW order \in Seq(S), NEW p \in S
    PROVE  /\ Append(order, p) \in Seq(S)
           /\ Ids(Append(order, p)) = Ids(order) \cup {p}
<1>1. /\ Append(order, p) \in Seq(S)
      /\ DOMAIN order = 1..Len(order)
      /\ DOMAIN Append(order, p) = 1..(Len(order) + 1)
      /\ Len(order) \in Nat
      /\ \A i \in 1..Len(order) : Append(order, p)[i] = order[i]
      /\ Append(order, p)[Len(order) + 1] = p
  OBVIOUS
<1>2. ASSUME NEW x \in Ids(Append(order, p))
      PROVE  x \in Ids(order) \cup {p}
  <2>1. PICK i \in 1..(Len(order) + 1) : x = Append(order, p)[i]
    BY <1>1, <1>2 DEF Ids
  <2>2. CASE i \in 1..Len(order)
    BY <1>1, <2>1, <2>2 DEF Ids
  <2>3. CASE i = Len(order) + 1
    BY <1>1, <2>1, <2>3
  <2> QED BY <1>1, <2>2, <2>3
<1>3. ASSUME NEW x \in Ids(order) \cup {p}
      PROVE  x \in Ids(Append(order, p))
  <2>1. CASE x = p
    BY <1>1, <2>1 DEF Ids
  <2>2. CASE x \in Ids(order)
    <3>1. PICK i \in 1..Len(order) : x = order[i]
      BY <1>1, <2>2 DEF Ids
    <3>2. i \in 1..(Len(order) + 1) /\ x = Append(order, p)[i]
      BY <1>1, <3>1
    <3> QED BY <1>1, <3>2 DEF Ids
  <2> QED BY <1>3, <2>1, <2>2
<1> QED BY <1>1, <1>2, <1>3

\* What was appended last has nothing newer, so the row beyond the keep newest
\* is never the one just written.
LEMMA LatestIsKept ==
    ASSUME NEW S, NEW order \in Seq(S), NEW p \in S, p \notin Ids(order),
           NEW rows, NEW keep \in Nat \ {0}
    PROVE  p \notin Overflow(rows, Append(order, p), keep)
<1> DEFINE longer == Append(order, p)
<1>1. /\ DOMAIN longer = 1..(Len(order) + 1)
      /\ DOMAIN order = 1..Len(order)
      /\ Len(order) \in Nat
      /\ \A i \in 1..Len(order) : longer[i] = order[i]
  OBVIOUS
<1>2. \A i \in 1..Len(order) : longer[i] # p
  BY <1>1 DEF Ids
<1>3. \A k \in DOMAIN longer : \A i \in 1..(k - 1) : i \in 1..Len(order)
  BY <1>1
<1>4. Newer(longer, p) = {}
  BY <1>2, <1>3 DEF Newer
<1>5. Cardinality(rows \cap Newer(longer, p)) = 0
  BY <1>4, FS_EmptySet
<1> QED BY <1>5 DEF Overflow

\* Pruning removes terminal outcomes and touches no other.
LEMMA PruningForgetsOnly ==
    ASSUME NEW table \in [Proposal -> OutcomeState \cup {"absent"}],
           NEW order, NEW g
    PROVE  /\ PruneTerminal(table, order, g) \in [Proposal -> OutcomeState \cup {"absent"}]
           /\ PruneOldGenerations(table, g) \in [Proposal -> OutcomeState \cup {"absent"}]
           /\ \A q \in Proposal :
                /\ table[q] \in Terminal =>
                     /\ PruneTerminal(table, order, g)[q] \in {table[q], "absent"}
                     /\ PruneOldGenerations(table, g)[q] \in {table[q], "absent"}
                /\ table[q] \notin Terminal =>
                     /\ PruneTerminal(table, order, g)[q] = table[q]
                     /\ PruneOldGenerations(table, g)[q] = table[q]
  BY DEF PruneTerminal, PruneOldGenerations, TerminalIn, Overflow

\* Every nonempty set of positions has a first one.
LEMMA FirstPosition ==
    ASSUME NEW I, I \subseteq Nat, I # {}
    PROVE  \E i \in I : \A j \in I : i <= j
<1>1. PICK i \in I : \A j \in I : ~ (<<j, i>> \in OpToRel(<, Nat))
  BY NatLessThanWellFounded, WFMin
<1>2. \A j \in I : ~ (j < i)
  BY <1>1 DEF OpToRel
<1> QED BY <1>2

------------------------------------------------------------------------------
\* The outcomes after CompleteByApproval: p has the state, no other row has
\* changed but terminal ones that were pruned.
LEMMA CompletionSettles ==
    ASSUME StoreInv, NEW p \in Proposal, NEW g \in Generation, NEW state \in Terminal,
           CompleteByApproval(p, g, state)
    PROVE  /\ outcomes' \in [Proposal -> OutcomeState \cup {"absent"}]
           /\ outcomes'[p] = state
           /\ \A q \in Proposal \ {p} :
                 /\ outcomes[q] \in Terminal => outcomes'[q] \in {outcomes[q], "absent"}
                 /\ outcomes[q] \notin Terminal => outcomes'[q] = outcomes[q]
<1> DEFINE done == [outcomes EXCEPT ![p] = state]
<1>1. done \in [Proposal -> OutcomeState \cup {"absent"}]
  BY DEF StoreInv, StoreTypeOK, OutcomeState
<1>2. p \notin Ids(settled)
  BY DEF StoreInv, SettledIsDecided, CompleteByApproval
<1>3. outcomes' = PruneTerminal(done, settled', g) /\ settled' = Append(settled, p)
  BY DEF CompleteByApproval
<1>4. outcomes'[p] = state
  <2>1. p \notin Overflow(TerminalIn(done, g), settled', MaxOutcomes)
    BY <1>2, <1>3, LatestIsKept, MaxOutcomesAssumption DEF StoreInv, StoreTypeOK
  <2> QED BY <1>3, <2>1 DEF PruneTerminal, StoreInv, StoreTypeOK
<1>5. /\ outcomes' \in [Proposal -> OutcomeState \cup {"absent"}]
      /\ \A q \in Proposal :
           /\ done[q] \in Terminal => outcomes'[q] \in {done[q], "absent"}
           /\ done[q] \notin Terminal => outcomes'[q] = done[q]
  <2> HIDE DEF done
  <2> QED BY <1>1, <1>3, PruningForgetsOnly
<1> QED BY <1>4, <1>5 DEF StoreInv, StoreTypeOK

\* The outcomes after ClaimOutcome: p is applying if it had no outcome, no
\* other row has changed but terminal ones that were pruned.
LEMMA ClaimOpens ==
    ASSUME StoreInv, NEW p \in Proposal, NEW g \in Generation, NEW s \in Session,
           ClaimOutcome(p, g, s)
    PROVE  /\ outcomes' \in [Proposal -> OutcomeState \cup {"absent"}]
           /\ outcomes[p] # "absent" => outcomes'[p] \in {outcomes[p], "absent"}
           /\ outcomes[p] = "absent" => outcomes'[p] = "applying"
           /\ \A q \in Proposal \ {p} :
                 /\ outcomes[q] \in Terminal => outcomes'[q] \in {outcomes[q], "absent"}
                 /\ outcomes[q] \notin Terminal => outcomes'[q] = outcomes[q]
<1> DEFINE inserted == IF outcomes[p] = "absent"
                       THEN [outcomes EXCEPT ![p] = "applying"] ELSE outcomes
           current == PruneOldGenerations(inserted, g)
<1>1. inserted \in [Proposal -> OutcomeState \cup {"absent"}]
  BY DEF StoreInv, StoreTypeOK, OutcomeState
<1>2. outcomes' = PruneTerminal(current, settled, g)
  BY DEF ClaimOutcome
<1>3. /\ current \in [Proposal -> OutcomeState \cup {"absent"}]
      /\ \A q \in Proposal :
           /\ inserted[q] \in Terminal => current[q] \in {inserted[q], "absent"}
           /\ inserted[q] \notin Terminal => current[q] = inserted[q]
  <2> HIDE DEF inserted
  <2> QED BY <1>1, PruningForgetsOnly
<1>4. /\ outcomes' \in [Proposal -> OutcomeState \cup {"absent"}]
      /\ \A q \in Proposal :
           /\ current[q] \in Terminal => outcomes'[q] \in {current[q], "absent"}
           /\ current[q] \notin Terminal => outcomes'[q] = current[q]
  <2> HIDE DEF current
  <2> QED BY <1>2, <1>3, PruningForgetsOnly
<1>5. /\ "absent" \notin Terminal /\ "applying" \notin Terminal
      /\ outcomes \in [Proposal -> OutcomeState \cup {"absent"}]
      /\ outcomes[p] \in Terminal \cup {"absent", "applying"}
  BY DEF StoreInv, StoreTypeOK, Terminal, OutcomeState
<1>6. \A q \in Proposal \ {p} : inserted[q] = outcomes[q]
  BY <1>5
<1>7. /\ outcomes[p] = "absent" => inserted[p] = "applying"
      /\ outcomes[p] # "absent" => inserted[p] = outcomes[p]
  BY <1>5
<1> HIDE DEF inserted, current
<1> QED BY <1>3, <1>4, <1>5, <1>6, <1>7

------------------------------------------------------------------------------
\* The invariant holds initially and every transaction preserves it.

LEMMA InitEstablishesInv == StoreInit => StoreInv
<1> SUFFICES ASSUME StoreInit PROVE StoreInv
  OBVIOUS
<1>1. Ids(saved) = {} /\ Ids(settled) = {}
  BY DEF StoreInit, Ids
<1> QED BY <1>1 DEF StoreInit, StoreInv, StoreTypeOK, UnsavedIsAbsent,
           ApplyingKeepsChange, SettledIsDecided

\* A transaction that only moves the change row of p, which is saved, to a
\* state that a decided change may have.
LEMMA MovingOneChange ==
    ASSUME StoreInv, NEW p \in Proposal, NEW state \in {"evicted", "expired", "consumed"},
           changes[p] # "absent",
           outcomes[p] = "applying" => state = "consumed",
           changes' = [changes EXCEPT ![p] = state],
           UNCHANGED <<gen, saved, lapsed, outcomes, owner, settled>>
    PROVE  StoreInv'
<1>1. changes' \in [Proposal -> ChangeState \cup {"absent"}]
  BY DEF StoreInv, StoreTypeOK, ChangeState
<1>2. p \in Ids(saved)
  BY DEF StoreInv, UnsavedIsAbsent
<1>3. \A q \in Proposal : changes'[q] = IF q = p THEN state ELSE changes[q]
  BY DEF StoreInv, StoreTypeOK
<1>4. StoreTypeOK'
  BY <1>1 DEF StoreInv, StoreTypeOK
<1>5. UnsavedIsAbsent' /\ SettledIsDecided'
  BY <1>2, <1>3 DEF StoreInv, UnsavedIsAbsent, SettledIsDecided, Ids
<1>6. ApplyingKeepsChange'
  BY <1>3 DEF StoreInv, ApplyingKeepsChange
<1> QED BY <1>4, <1>5, <1>6 DEF StoreInv

LEMMA SavePreservesInv ==
    ASSUME StoreInv, NEW p \in Proposal, NEW g \in Generation, Save(p, g)
    PROVE  StoreInv'
<1> DEFINE kept == [q \in Proposal |-> IF q \in EvictedBy(p, g) THEN "evicted"
                                       ELSE IF q = p THEN "pending" ELSE changes[q]]
           pruned == Overflow(Prunable(kept, gen', g), saved', MaxPending)
<1>1. /\ p \notin Ids(saved)
      /\ saved' = Append(saved, p)
      /\ gen' = [gen EXCEPT ![p] = g]
      /\ changes' = [q \in Proposal |-> IF q \in pruned THEN "absent" ELSE kept[q]]
      /\ UNCHANGED <<lapsed, outcomes, owner, settled>>
  BY DEF Save
<1>2. StoreTypeOK /\ changes[p] = "absent" /\ outcomes[p] # "applying"
  BY <1>1 DEF StoreInv, UnsavedIsAbsent, ApplyingKeepsChange
<1>3. saved' \in Seq(Proposal) /\ Ids(saved') = Ids(saved) \cup {p}
  BY <1>1, <1>2, AppendIds DEF StoreTypeOK
\* Only pending rows are evicted, and only rows that are not applying pruned.
<1>4. \A q \in Proposal \ {p} : q \in EvictedBy(p, g) => changes[q] = "pending"
  BY <1>2 DEF EvictedBy, Overflow, PendingIn, StoreTypeOK
<1>5. \A q \in pruned : outcomes[q] # "applying" /\ kept[q] # "absent"
  BY DEF Overflow, Prunable
<1>6. \A q \in Proposal : kept[q] \in ChangeState \cup {"absent"}
  BY <1>2 DEF StoreTypeOK, ChangeState
<1>7. \A q \in Proposal \ {p} :
        /\ changes[q] \notin {"pending"} => changes'[q] \in {changes[q], "absent"}
        /\ outcomes[q] = "applying" => changes'[q] = changes[q]
  <2> SUFFICES ASSUME NEW q \in Proposal \ {p}
               PROVE  /\ changes[q] \notin {"pending"} =>
                            changes'[q] \in {changes[q], "absent"}
                      /\ outcomes[q] = "applying" => changes'[q] = changes[q]
    OBVIOUS
  <2>1. outcomes[q] = "applying" => changes[q] # "pending"
    BY DEF StoreInv, ApplyingKeepsChange
  <2>2. changes[q] # "pending" => kept[q] = changes[q]
    BY <1>4
  <2>3. changes'[q] \in {kept[q], "absent"} /\ (q \notin pruned => changes'[q] = kept[q])
    BY <1>1
  <2> HIDE DEF kept, pruned
  <2> QED BY <1>5, <2>1, <2>2, <2>3
<1>8. StoreTypeOK'
  <2>1. changes' \in [Proposal -> ChangeState \cup {"absent"}]
    <3> HIDE DEF kept, pruned
    <3> QED BY <1>1, <1>6
  <2>2. gen' \in [Proposal -> Generation \cup {NoGeneration}]
    BY <1>1, <1>2 DEF StoreTypeOK
  <2> QED BY <1>1, <1>2, <1>3, <2>1, <2>2 DEF StoreTypeOK
<1> HIDE DEF kept, pruned
<1>9. UnsavedIsAbsent'
  BY <1>3, <1>7 DEF StoreInv, UnsavedIsAbsent
<1>10. ApplyingKeepsChange'
  BY <1>1, <1>2, <1>7 DEF StoreInv, ApplyingKeepsChange
<1>11. SettledIsDecided'
  <2>1. Ids(settled') = Ids(settled) /\ p \notin Ids(settled)
    BY <1>1 DEF StoreInv, SettledIsDecided, Ids
  <2> QED BY <1>1, <1>3, <1>7, <2>1 DEF StoreInv, SettledIsDecided
<1> QED BY <1>8, <1>9, <1>10, <1>11 DEF StoreInv

LEMMA ClaimPreservesInv ==
    ASSUME StoreInv, NEW p \in Proposal, NEW g \in Generation, NEW s \in Session,
           ClaimOutcome(p, g, s)
    PROVE  StoreInv'
<1>1. /\ changes[p] = "pending"
      /\ changes' = [changes EXCEPT ![p] = "claimed"]
      /\ owner' \in {owner, [owner EXCEPT ![p] = s]}
      /\ UNCHANGED <<gen, saved, lapsed, settled>>
  BY DEF ClaimOutcome, Claimable
<1>2. /\ outcomes' \in [Proposal -> OutcomeState \cup {"absent"}]
      /\ \A q \in Proposal \ {p} : outcomes'[q] \in {outcomes[q], "absent"}
  <2>1. \A q \in Proposal \ {p} : outcomes'[q] \in {outcomes[q], "absent"}
    BY ClaimOpens
  <2> QED BY <2>1, ClaimOpens
<1>3. \A q \in Proposal : changes'[q] = IF q = p THEN "claimed" ELSE changes[q]
  BY <1>1 DEF StoreInv, StoreTypeOK
<1>4. StoreTypeOK'
  <2>1. changes' \in [Proposal -> ChangeState \cup {"absent"}]
    BY <1>1 DEF StoreInv, StoreTypeOK, ChangeState
  <2>2. owner' \in [Proposal -> Session \cup {NoSession}]
    BY <1>1 DEF StoreInv, StoreTypeOK
  <2> QED BY <1>1, <1>2, <2>1, <2>2 DEF StoreInv, StoreTypeOK
<1>5. Ids(saved') = Ids(saved) /\ Ids(settled') = Ids(settled)
  BY <1>1 DEF Ids
<1>6. p \in Ids(saved) /\ p \notin Ids(settled)
  BY <1>1 DEF StoreInv, UnsavedIsAbsent, SettledIsDecided
<1>7. UnsavedIsAbsent'
  BY <1>3, <1>5, <1>6 DEF StoreInv, UnsavedIsAbsent
<1>8. ApplyingKeepsChange'
  BY <1>2, <1>3 DEF StoreInv, ApplyingKeepsChange
<1>9. SettledIsDecided'
  BY <1>2, <1>3, <1>5, <1>6 DEF StoreInv, SettledIsDecided
<1> QED BY <1>4, <1>7, <1>8, <1>9 DEF StoreInv

LEMMA CompletionPreservesInv ==
    ASSUME StoreInv, NEW p \in Proposal, NEW g \in Generation, NEW state \in Terminal,
           CompleteByApproval(p, g, state)
    PROVE  StoreInv'
<1>1. /\ outcomes[p] = "applying"
      /\ settled' = Append(settled, p)
      /\ UNCHANGED <<changes, gen, saved, lapsed, owner>>
  BY DEF CompleteByApproval
<1>2. /\ outcomes' \in [Proposal -> OutcomeState \cup {"absent"}]
      /\ outcomes'[p] = state
      /\ \A q \in Proposal \ {p} : outcomes'[q] \in {outcomes[q], "absent"}
  <2>1. \A q \in Proposal \ {p} : outcomes'[q] \in {outcomes[q], "absent"}
    BY CompletionSettles
  <2> QED BY <2>1, CompletionSettles
<1>3. settled' \in Seq(Proposal) /\ Ids(settled') = Ids(settled) \cup {p}
  BY <1>1, AppendIds DEF StoreInv, StoreTypeOK
<1>4. p \in Ids(saved) /\ changes[p] # "pending"
  BY <1>1 DEF StoreInv, UnsavedIsAbsent, ApplyingKeepsChange
<1>5. state # "applying" /\ Ids(saved') = Ids(saved)
  BY <1>1 DEF Terminal, Ids
<1>6. StoreTypeOK'
  BY <1>1, <1>2, <1>3 DEF StoreInv, StoreTypeOK
<1>7. UnsavedIsAbsent'
  BY <1>1, <1>5 DEF StoreInv, UnsavedIsAbsent
<1>8. ApplyingKeepsChange'
  BY <1>1, <1>2, <1>5 DEF StoreInv, ApplyingKeepsChange
<1>9. SettledIsDecided'
  BY <1>1, <1>2, <1>3, <1>4, <1>5 DEF StoreInv, SettledIsDecided
<1> QED BY <1>6, <1>7, <1>8, <1>9 DEF StoreInv

\* Every transaction preserves the invariant.
LEMMA StepPreservesInv == StoreInv /\ [StoreNext]_storeVars => StoreInv'
<1> SUFFICES ASSUME StoreInv, [StoreNext]_storeVars PROVE StoreInv'
  OBVIOUS
<1>1. ASSUME NEW p \in Proposal, Lapse(p) PROVE StoreInv'
  BY <1>1 DEF Lapse, StoreInv, StoreTypeOK, UnsavedIsAbsent, ApplyingKeepsChange,
              SettledIsDecided, Ids
<1>2. ASSUME NEW p \in Proposal, NEW g \in Generation, Save(p, g) PROVE StoreInv'
  BY <1>2, SavePreservesInv
<1>3. ASSUME NEW p \in Proposal, NEW g \in Generation, LoadExpire(p, g) PROVE StoreInv'
  <2>1. outcomes[p] # "applying"
    BY <1>3 DEF LoadExpire, StoreInv, ApplyingKeepsChange
  <2> QED BY <1>3, <2>1, MovingOneChange DEF LoadExpire
<1>4. ASSUME NEW p \in Proposal, NEW g \in Generation, Consume(p, g) PROVE StoreInv'
  BY <1>4, MovingOneChange DEF Consume, Consumable
<1>5. ASSUME NEW p \in Proposal, NEW g \in Generation,
             NEW state \in {"evicted", "expired"}, Discard(p, g, state)
      PROVE  StoreInv'
  <2>1. outcomes[p] # "applying"
    BY <1>5 DEF Discard, StoreInv, ApplyingKeepsChange
  <2> QED BY <1>5, <2>1, MovingOneChange DEF Discard
<1>6. ASSUME NEW p \in Proposal, NEW g \in Generation, NEW s \in Session,
             ClaimOutcome(p, g, s)
      PROVE  StoreInv'
  BY <1>6, ClaimPreservesInv
<1>7. ASSUME NEW p \in Proposal, NEW g \in Generation, NEW s \in Session,
             NEW state \in Terminal, CompleteOutcome(p, g, s, state)
      PROVE  StoreInv'
  BY <1>7, CompletionPreservesInv DEF CompleteOutcome
<1>8. ASSUME NEW p \in Proposal, NEW g \in Generation, NEW written \in BOOLEAN,
             Reconcile(p, g, written)
      PROVE  StoreInv'
  BY <1>8, CompletionPreservesInv DEF Reconcile, Terminal
<1>9. CASE UNCHANGED storeVars
  BY <1>9 DEF storeVars, StoreInv, StoreTypeOK, UnsavedIsAbsent, ApplyingKeepsChange,
              SettledIsDecided, Ids
<1> QED BY <1>1, <1>2, <1>3, <1>4, <1>5, <1>6, <1>7, <1>8, <1>9 DEF StoreNext

\* The store's rows and histories stay consistent under every transaction.
THEOREM StoreInvariance == StoreSpec => []StoreInv
  BY InitEstablishesInv, StepPreservesInv, PTL DEF StoreSpec

\* Every variable keeps its type.
THEOREM StoreTyped == StoreSpec => []StoreTypeOK
<1>1. StoreInv => StoreTypeOK
  BY DEF StoreInv
<1> QED BY <1>1, StoreInvariance, PTL

\* Recovery can always be decided: while an outcome is applying its change is
\* stored, claimed or consumed, and no pruning takes it.
THEOREM RecoveryIsDecidable == StoreSpec => []ApplyingKeepsChange
<1>1. StoreInv => ApplyingKeepsChange
  BY DEF StoreInv
<1> QED BY <1>1, StoreInvariance, PTL
------------------------------------------------------------------------------
\* The action properties.

\* What one transaction does to the outcomes: an applying one stays or becomes
\* terminal, a terminal one stays or is pruned, and a new one belongs to a
\* change that was pending.
LEMMA OutcomeSteps ==
    ASSUME StoreInv, [StoreNext]_storeVars, NEW p \in Proposal
    PROVE  /\ outcomes[p] = "applying" => outcomes'[p] # "absent"
           /\ outcomes[p] \in Terminal => outcomes'[p] \in {outcomes[p], "absent"}
           /\ outcomes[p] # "absent" => owner'[p] = owner[p]
           /\ outcomes'[p] = "applying" => outcomes[p] = "applying" \/ changes[p] = "pending"
<1> DEFINE Steps == /\ outcomes[p] = "applying" => outcomes'[p] # "absent"
                    /\ outcomes[p] \in Terminal => outcomes'[p] \in {outcomes[p], "absent"}
                    /\ outcomes[p] # "absent" => owner'[p] = owner[p]
                    /\ outcomes'[p] = "applying" => outcomes[p] = "applying" \/ changes[p] = "pending"
<1>1. ASSUME UNCHANGED <<outcomes, owner>>
      PROVE  Steps
  <2>1. "applying" # "absent" /\ "absent" \notin Terminal
    BY DEF Terminal
  <2> QED BY <1>1, <2>1
<1>2. ASSUME NEW q \in Proposal, NEW g \in Generation, NEW s \in Session,
             ClaimOutcome(q, g, s)
      PROVE  Steps
  <2>1. changes[q] = "pending" /\ outcomes[q] # "applying"
    BY <1>2 DEF ClaimOutcome, Claimable, StoreInv, ApplyingKeepsChange
  <2>2. outcomes[p] # "absent" => owner'[p] = owner[p]
    BY <1>2 DEF ClaimOutcome, StoreInv, StoreTypeOK
  <2>3. outcomes[p] \in Terminal \cup {"absent", "applying"} /\ "applying" \notin Terminal
    BY DEF StoreInv, StoreTypeOK, OutcomeState, Terminal
  <2>4. CASE p = q
    BY <1>2, <2>1, <2>2, <2>3, <2>4, ClaimOpens DEF Terminal
  <2>5. CASE p # q
    BY <1>2, <2>2, <2>3, <2>5, ClaimOpens
  <2> QED BY <2>4, <2>5
<1>3. ASSUME NEW q \in Proposal, NEW g \in Generation, NEW state \in Terminal,
             CompleteByApproval(q, g, state)
      PROVE  Steps
  <2>1. outcomes[q] = "applying" /\ owner' = owner
    BY <1>3 DEF CompleteByApproval
  <2>2. outcomes[p] \in Terminal \cup {"absent", "applying"}
        /\ "applying" \notin Terminal /\ "absent" \notin Terminal
    BY DEF StoreInv, StoreTypeOK, OutcomeState, Terminal
  <2>3. CASE p = q
    BY <1>3, <2>1, <2>2, <2>3, CompletionSettles
  <2>4. CASE p # q
    BY <1>3, <2>1, <2>2, <2>4, CompletionSettles
  <2> QED BY <2>3, <2>4
<1> HIDE DEF Steps
<1>4. StoreNext => \/ UNCHANGED <<outcomes, owner>>
                   \/ \E q \in Proposal, g \in Generation, s \in Session : ClaimOutcome(q, g, s)
                   \/ \E q \in Proposal, g \in Generation, state \in Terminal :
                           CompleteByApproval(q, g, state)
  BY DEF StoreNext, Lapse, Save, LoadExpire, Consume, Discard, CompleteOutcome, Reconcile,
         Terminal
<1>5. Steps
  BY <1>1, <1>2, <1>3, <1>4 DEF storeVars
<1> QED BY <1>5 DEF Steps

\* What one transaction does to a change that is stored: nothing makes it
\* pending again, a consumed one stays consumed until it is pruned, and what is
\* pruned does not come back.
LEMMA ChangeSteps ==
    ASSUME StoreInv, [StoreNext]_storeVars, NEW p \in Ids(saved), p \in Proposal
    PROVE  /\ changes[p] # "pending" => changes'[p] # "pending"
           /\ changes[p] = "consumed" => changes'[p] \in {"consumed", "absent"}
           /\ changes[p] = "absent" => changes'[p] = "absent"
<1>0. changes \in [Proposal -> ChangeState \cup {"absent"}]
  BY DEF StoreInv, StoreTypeOK
<1>1. ASSUME NEW q \in Proposal, NEW g \in Generation, Save(q, g)
      PROVE  changes[p] # "pending" => changes'[p] \in {changes[p], "absent"}
  <2>1. q \notin Ids(saved) /\ p # q
    BY <1>1 DEF Save
  <2>2. p \in EvictedBy(q, g) => changes[p] = "pending"
    BY <1>0, <2>1 DEF EvictedBy, Overflow, PendingIn
  <2> QED BY <1>1, <2>1, <2>2 DEF Save
<1>2. ASSUME NEW q \in Proposal, changes[q] \in {"pending", "claimed"},
             NEW state \in ChangeState \ {"pending"},
             changes' = [changes EXCEPT ![q] = state]
      PROVE  /\ changes[p] # "pending" => changes'[p] # "pending"
             /\ changes[p] \in {"consumed", "absent"} => changes'[p] = changes[p]
  BY <1>0, <1>2
<1>3. StoreNext => \/ UNCHANGED changes
                   \/ \E q \in Proposal, g \in Generation : Save(q, g)
                   \/ \E q \in Proposal : \E state \in ChangeState \ {"pending"} :
                        /\ changes[q] \in {"pending", "claimed"}
                        /\ changes' = [changes EXCEPT ![q] = state]
  BY DEF StoreNext, Lapse, LoadExpire, Consume, Consumable, Discard, ClaimOutcome, Claimable,
         CompleteOutcome, CompleteByApproval, Reconcile, ChangeState
<1> QED BY <1>1, <1>2, <1>3 DEF storeVars

\* An outcome is decided once: only an applying one changes state, only a
\* terminal one is forgotten, and its session never changes.
THEOREM OutcomeIsDecidedOnce == StoreSpec => OutcomeLifecycle
<1>1. StoreInv /\ [StoreNext]_storeVars =>
        [\A p \in Proposal :
            /\ outcomes[p] = "applying" => outcomes'[p] # "absent"
            /\ outcomes[p] \in Terminal => outcomes'[p] \in {outcomes[p], "absent"}
            /\ outcomes[p] # "absent" => owner'[p] = owner[p]]_storeVars
  BY OutcomeSteps
<1> QED BY <1>1, StoreInvariance, PTL DEF StoreSpec, OutcomeLifecycle

\* A change is decided once, also after its rows are pruned: what left pending
\* is never pending or applying again, what is consumed stays so.
THEOREM DecisionIsFinal == StoreSpec => DecidedStaysDecided
<1>1. StoreInv /\ [StoreNext]_storeVars =>
        [\A p \in Ids(saved) :
            /\ changes[p] # "pending" => changes'[p] # "pending"
            /\ changes[p] # "pending" /\ outcomes[p] # "applying" => outcomes'[p] # "applying"
            /\ changes[p] = "consumed" => changes'[p] \in {"consumed", "absent"}]_storeVars
  <2>1. StoreInv => \A p \in Ids(saved) : p \in Proposal
    BY DEF StoreInv, StoreTypeOK, Ids
  <2> QED BY <2>1, OutcomeSteps, ChangeSteps
<1> QED BY <1>1, StoreInvariance, PTL DEF StoreSpec, DecidedStaysDecided

------------------------------------------------------------------------------
\* The retention limits, for every value of max_pending and max_outcomes.

\* An order has finitely many elements.
LEMMA FiniteIds ==
    ASSUME NEW S, NEW order \in Seq(S)
    PROVE  IsFiniteSet(Ids(order))
<1>1. DOMAIN order = 1..Len(order) /\ Len(order) \in Nat
  OBVIOUS
<1>2. order \in Surjection(1..Len(order), Ids(order))
  BY <1>1 DEF Surjection, Ids
<1>3. IsFiniteSet(1..Len(order))
  BY <1>1, FS_Interval
<1> QED BY <1>2, <1>3, FS_Surjection

\* At most keep rows survive ORDER BY ... DESC LIMIT -1 OFFSET keep: all other
\* survivors are newer than the oldest one.
LEMMA SurvivorsAreFew ==
    ASSUME NEW S, NEW order \in Seq(S), NEW keep \in Nat,
           NEW rows, rows \subseteq Ids(order)
    PROVE  /\ IsFiniteSet(rows \ Overflow(rows, order, keep))
           /\ Cardinality(rows \ Overflow(rows, order, keep)) <= keep
<1> DEFINE kept == rows \ Overflow(rows, order, keep)
           places == {i \in DOMAIN order : order[i] \in kept}
<1>1. DOMAIN order = 1..Len(order) /\ Len(order) \in Nat
  OBVIOUS
<1>2. IsFiniteSet(rows) /\ IsFiniteSet(kept)
  BY FiniteIds, FS_Subset
<1>3. CASE kept = {}
  BY <1>3, FS_EmptySet
<1>4. CASE kept # {}
  <2>1. places \subseteq Nat /\ places # {}
    BY <1>1, <1>4 DEF Ids
  <2>2. PICK first \in places : \A j \in places : first <= j
    <3> HIDE DEF places
    <3> QED BY <2>1, FirstPosition
  <2> DEFINE oldest == order[first]
             newer == rows \cap Newer(order, oldest)
  <2>3. kept \ {oldest} \subseteq newer
    <3> SUFFICES ASSUME NEW q \in kept, q # oldest
                 PROVE  q \in newer
      OBVIOUS
    <3>1. PICK k \in DOMAIN order : order[k] = q
      BY DEF Ids
    <3>2. k \in places /\ first <= k /\ first # k
      BY <2>2, <3>1
    <3>3. first \in 1..(k - 1)
      BY <1>1, <2>2, <3>2
    <3> QED BY <3>1, <3>3 DEF Newer
  <2>4. IsFiniteSet(newer) /\ Cardinality(kept \ {oldest}) <= Cardinality(newer)
    <3>1. IsFiniteSet(newer)
      BY <1>2, FS_Subset
    <3> HIDE DEF newer
    <3> QED BY <2>3, <3>1, FS_Subset
  <2>5. oldest \in kept /\ ~ (Cardinality(newer) >= keep)
    BY <2>2 DEF Overflow
  <2>6. Cardinality(kept) = Cardinality(kept \ {oldest}) + 1
    <3> HIDE DEF kept, oldest
    <3>1. Cardinality(kept) \in Nat /\ Cardinality(kept \ {oldest}) = Cardinality(kept) - 1
      BY <1>2, <2>5, FS_RemoveElement, FS_CardinalityType
    <3> QED BY <3>1
  <2>7. Cardinality(kept \ {oldest}) \in Nat /\ Cardinality(newer) \in Nat
    <3>1. IsFiniteSet(kept \ {oldest})
      BY <1>2, FS_RemoveElement
    <3> QED BY <2>4, <3>1, FS_CardinalityType
  <2> HIDE DEF newer, kept
  <2>8. Cardinality(kept) <= keep
    BY <2>4, <2>5, <2>6, <2>7
  <2> QED BY <1>2, <2>8 DEF kept
<1> QED BY <1>3, <1>4

\* A set is no larger than a finite one that contains it.
LEMMA SmallerSet ==
    ASSUME NEW T, NEW R, IsFiniteSet(T), R \subseteq T, NEW n \in Nat, Cardinality(T) <= n
    PROVE  IsFiniteSet(R) /\ Cardinality(R) <= n
<1>1. IsFiniteSet(R) /\ Cardinality(R) <= Cardinality(T)
  BY FS_Subset
<1>2. Cardinality(R) \in Nat /\ Cardinality(T) \in Nat
  BY <1>1, FS_CardinalityType
<1> QED BY <1>1, <1>2
------------------------------------------------------------------------------
\* A terminal outcome has been settled, so the order the pruning goes by knows it.
TerminalIsSettled ==
    \A p \in Proposal : outcomes[p] \in Terminal => p \in Ids(settled)

BoundsInv == StoreInv /\ TerminalIsSettled /\ RetentionBounds

\* Both counts are counts of finite sets.
LEMMA RowsAreFinite ==
    ASSUME StoreInv, TerminalIsSettled, NEW g
    PROVE  /\ PendingIn(changes, gen, g) \subseteq Ids(saved)
           /\ TerminalIn(outcomes, g) \subseteq Ids(settled)
           /\ IsFiniteSet(PendingIn(changes, gen, g))
           /\ IsFiniteSet(TerminalIn(outcomes, g))
<1>1. /\ PendingIn(changes, gen, g) \subseteq Ids(saved)
      /\ TerminalIn(outcomes, g) \subseteq Ids(settled)
  BY DEF StoreInv, UnsavedIsAbsent, TerminalIsSettled, PendingIn, TerminalIn
<1>2. IsFiniteSet(Ids(saved)) /\ IsFiniteSet(Ids(settled))
  BY FiniteIds DEF StoreInv, StoreTypeOK
<1> QED BY <1>1, <1>2, FS_Subset

\* save leaves at most max_pending pending rows in its generation and adds
\* none to another.
LEMMA SaveKeepsPendingBound ==
    ASSUME BoundsInv, NEW p \in Proposal, NEW g \in Generation, Save(p, g),
           NEW h \in Generation
    PROVE  Cardinality(PendingIn(changes, gen, h)') <= MaxPending
<1> DEFINE rows == PendingIn([changes EXCEPT ![p] = "pending"], gen', g)
           kept == [q \in Proposal |-> IF q \in EvictedBy(p, g) THEN "evicted"
                                       ELSE IF q = p THEN "pending" ELSE changes[q]]
           pruned == Overflow(Prunable(kept, gen', g), saved', MaxPending)
<1>1. /\ p \notin Ids(saved)
      /\ saved' = Append(saved, p)
      /\ gen' = [gen EXCEPT ![p] = g]
      /\ changes' = [q \in Proposal |-> IF q \in pruned THEN "absent" ELSE kept[q]]
  BY DEF Save
<1>2. StoreTypeOK /\ UnsavedIsAbsent
  BY DEF BoundsInv, StoreInv
<1>3. saved' \in Seq(Proposal) /\ Ids(saved') = Ids(saved) \cup {p}
  BY <1>1, <1>2, AppendIds DEF StoreTypeOK
<1>4. EvictedBy(p, g) = Overflow(rows, saved', MaxPending)
  BY <1>1 DEF EvictedBy
<1>5. PendingIn(changes, gen, h)' \subseteq {q \in Proposal : kept[q] = "pending" /\ gen'[q] = h}
  <2> HIDE DEF pruned, kept
  <2> QED BY <1>1 DEF PendingIn
<1>6. CASE h = g
  <2>1. rows \subseteq Ids(saved')
    BY <1>2, <1>3 DEF PendingIn, StoreTypeOK, UnsavedIsAbsent
  <2>2. PendingIn(changes, gen, h)' \subseteq rows \ Overflow(rows, saved', MaxPending)
    BY <1>2, <1>4, <1>5, <1>6 DEF PendingIn, StoreTypeOK
  <2>3. /\ IsFiniteSet(rows \ Overflow(rows, saved', MaxPending))
        /\ Cardinality(rows \ Overflow(rows, saved', MaxPending)) <= MaxPending
    <3> HIDE DEF rows
    <3> QED BY <1>3, <2>1, SurvivorsAreFew, MaxPendingAssumption
  <2> HIDE DEF rows
  <2> QED BY <2>2, <2>3, SmallerSet, MaxPendingAssumption
<1>7. CASE h # g
  <2>1. PendingIn(changes, gen, h)' \subseteq PendingIn(changes, gen, h)
    BY <1>1, <1>2, <1>5, <1>7 DEF PendingIn, StoreTypeOK
  <2>2. /\ IsFiniteSet(PendingIn(changes, gen, h))
        /\ Cardinality(PendingIn(changes, gen, h)) <= MaxPending
    BY RowsAreFinite DEF BoundsInv, RetentionBounds
  <2> QED BY <2>1, <2>2, SmallerSet, MaxPendingAssumption
<1> QED BY <1>6, <1>7

\* complete_outcome leaves at most max_outcomes terminal rows in its generation
\* and adds none to another.
LEMMA CompletionKeepsOutcomeBound ==
    ASSUME BoundsInv, NEW p \in Proposal, NEW g \in Generation, NEW state \in Terminal,
           CompleteByApproval(p, g, state), NEW h \in Generation
    PROVE  /\ Cardinality(TerminalIn(outcomes, h)') <= MaxOutcomes
           /\ TerminalIsSettled'
<1> DEFINE done == [outcomes EXCEPT ![p] = state]
           rows == TerminalIn(done, g)
<1>1. /\ outcomes[p] = "applying" /\ gen[p] = g
      /\ settled' = Append(settled, p)
      /\ outcomes' = [q \in Proposal |-> IF q \in Overflow(rows, settled', MaxOutcomes)
                                         THEN "absent" ELSE done[q]]
      /\ gen' = gen
  BY DEF CompleteByApproval, PruneTerminal
<1>2. StoreTypeOK /\ TerminalIsSettled /\ "absent" \notin Terminal
  BY DEF BoundsInv, StoreInv, Terminal
<1>3. settled' \in Seq(Proposal) /\ Ids(settled') = Ids(settled) \cup {p}
  BY <1>1, <1>2, AppendIds DEF StoreTypeOK
<1>4. \A q \in Proposal : outcomes'[q] \in Terminal =>
         done[q] \in Terminal /\ q \notin Overflow(rows, settled', MaxOutcomes)
  <2> HIDE DEF done, rows
  <2> QED BY <1>1, <1>2
<1>5. \A q \in Proposal : done[q] \in Terminal => q \in Ids(settled')
  BY <1>2, <1>3 DEF TerminalIsSettled, StoreTypeOK
<1>6. TerminalIsSettled'
  BY <1>4, <1>5 DEF TerminalIsSettled, Ids
<1>7. CASE h = g
  <2>1. rows \subseteq Ids(settled')
    BY <1>5 DEF TerminalIn
  <2>2. TerminalIn(outcomes, h)' \subseteq rows \ Overflow(rows, settled', MaxOutcomes)
    BY <1>1, <1>4, <1>7 DEF TerminalIn
  <2>3. /\ IsFiniteSet(rows \ Overflow(rows, settled', MaxOutcomes))
        /\ Cardinality(rows \ Overflow(rows, settled', MaxOutcomes)) <= MaxOutcomes
    <3> HIDE DEF rows
    <3> QED BY <1>3, <2>1, SurvivorsAreFew, MaxOutcomesAssumption
  <2> HIDE DEF rows
  <2> QED BY <1>6, <2>2, <2>3, SmallerSet, MaxOutcomesAssumption
<1>8. CASE h # g
  <2>1. TerminalIn(outcomes, h)' \subseteq TerminalIn(outcomes, h)
    BY <1>1, <1>2, <1>4, <1>8 DEF TerminalIn, StoreTypeOK
  <2>2. /\ IsFiniteSet(TerminalIn(outcomes, h))
        /\ Cardinality(TerminalIn(outcomes, h)) <= MaxOutcomes
    BY RowsAreFinite DEF BoundsInv, RetentionBounds
  <2> QED BY <1>6, <2>1, <2>2, SmallerSet, MaxOutcomesAssumption
<1> QED BY <1>6, <1>7, <1>8
LEMMA InitEstablishesBounds == StoreInit => BoundsInv
<1> SUFFICES ASSUME StoreInit PROVE BoundsInv
  OBVIOUS
<1>1. StoreInv
  BY InitEstablishesInv
<1>2. TerminalIsSettled
  BY DEF StoreInit, TerminalIsSettled, Terminal
<1>3. ASSUME NEW g \in Generation
      PROVE  PendingIn(changes, gen, g) = {} /\ TerminalIn(outcomes, g) = {}
  BY DEF StoreInit, PendingIn, TerminalIn, Terminal
<1>4. RetentionBounds
  BY <1>3, FS_EmptySet, MaxPendingAssumption, MaxOutcomesAssumption DEF RetentionBounds
<1> QED BY <1>1, <1>2, <1>4 DEF BoundsInv

\* A transaction that adds no pending row and no terminal outcome.
LEMMA NothingAdded ==
    ASSUME BoundsInv, settled' = settled,
           \A q \in Proposal : outcomes'[q] \in Terminal => outcomes[q] \in Terminal,
           \A g \in Generation :
              /\ PendingIn(changes, gen, g)' \subseteq PendingIn(changes, gen, g)
              /\ TerminalIn(outcomes, g)' \subseteq TerminalIn(outcomes, g)
    PROVE  TerminalIsSettled' /\ RetentionBounds'
<1>1. TerminalIsSettled'
  BY DEF BoundsInv, TerminalIsSettled, Ids
<1>2. ASSUME NEW g \in Generation
      PROVE  /\ Cardinality(PendingIn(changes, gen, g)') <= MaxPending
             /\ Cardinality(TerminalIn(outcomes, g)') <= MaxOutcomes
  <2>1. /\ IsFiniteSet(PendingIn(changes, gen, g))
        /\ IsFiniteSet(TerminalIn(outcomes, g))
        /\ Cardinality(PendingIn(changes, gen, g)) <= MaxPending
        /\ Cardinality(TerminalIn(outcomes, g)) <= MaxOutcomes
    BY RowsAreFinite DEF BoundsInv, RetentionBounds
  <2>2. Cardinality(PendingIn(changes, gen, g)') <= MaxPending
    BY <2>1, SmallerSet, MaxPendingAssumption
  <2>3. Cardinality(TerminalIn(outcomes, g)') <= MaxOutcomes
    BY <2>1, SmallerSet, MaxOutcomesAssumption
  <2> QED BY <2>2, <2>3
<1> QED BY <1>1, <1>2 DEF RetentionBounds

LEMMA StepPreservesBounds == BoundsInv /\ [StoreNext]_storeVars => BoundsInv'
<1> SUFFICES ASSUME BoundsInv, [StoreNext]_storeVars PROVE BoundsInv'
  OBVIOUS
<1> DEFINE Bounded == TerminalIsSettled' /\ RetentionBounds'
<1>0. StoreInv /\ StoreInv' /\ StoreTypeOK
  BY StepPreservesInv DEF BoundsInv, StoreInv
<1>1. ASSUME UNCHANGED <<gen, outcomes, settled>>,
             \A q \in Proposal : changes'[q] = "pending" => changes[q] = "pending"
      PROVE  Bounded
  BY <1>1, NothingAdded DEF PendingIn, TerminalIn
<1>2. ASSUME NEW p \in Proposal, NEW g \in Generation, Save(p, g) PROVE Bounded
  <2>1. /\ p \notin Ids(saved)
        /\ gen' = [gen EXCEPT ![p] = g]
        /\ UNCHANGED <<outcomes, settled>>
    BY <1>2 DEF Save
  <2>2. outcomes[p] \notin Terminal
    BY <1>0, <2>1 DEF BoundsInv, StoreInv, TerminalIsSettled, SettledIsDecided
  <2>3. TerminalIsSettled'
    BY <2>1 DEF BoundsInv, TerminalIsSettled, Ids
  <2>4. ASSUME NEW h \in Generation
        PROVE  Cardinality(TerminalIn(outcomes, h)') <= MaxOutcomes
    <3>1. TerminalIn(outcomes, h)' \subseteq TerminalIn(outcomes, h)
      BY <1>0, <2>1, <2>2 DEF TerminalIn, StoreTypeOK
    <3>2. /\ IsFiniteSet(TerminalIn(outcomes, h))
          /\ Cardinality(TerminalIn(outcomes, h)) <= MaxOutcomes
      BY RowsAreFinite DEF BoundsInv, RetentionBounds
    <3> QED BY <3>1, <3>2, SmallerSet, MaxOutcomesAssumption
  <2>5. RetentionBounds'
    BY <1>2, <2>4, SaveKeepsPendingBound DEF RetentionBounds
  <2> QED BY <2>3, <2>5
<1>3. ASSUME NEW p \in Proposal, NEW g \in Generation, NEW s \in Session,
             ClaimOutcome(p, g, s)
      PROVE  Bounded
  <2>1. /\ changes' = [changes EXCEPT ![p] = "claimed"]
        /\ UNCHANGED <<gen, settled>>
    BY <1>3 DEF ClaimOutcome
  <2>2. \A q \in Proposal : outcomes'[q] \in Terminal => outcomes[q] \in Terminal
    <3>1. "applying" \notin Terminal /\ "absent" \notin Terminal
      BY DEF Terminal
    <3>2. outcomes'[p] \in {outcomes[p], "absent", "applying"}
      BY <1>0, <1>3, ClaimOpens
    <3>3. \A q \in Proposal \ {p} : outcomes'[q] \in {outcomes[q], "absent"}
      BY <1>0, <1>3, ClaimOpens
    <3> QED BY <3>1, <3>2, <3>3
  <2>3. \A q \in Proposal : changes'[q] = "pending" => changes[q] = "pending"
    BY <1>0, <2>1 DEF StoreTypeOK
  <2> QED BY <2>1, <2>2, <2>3, NothingAdded DEF PendingIn, TerminalIn
<1>4. ASSUME NEW p \in Proposal, NEW g \in Generation, NEW state \in Terminal,
             CompleteByApproval(p, g, state)
      PROVE  Bounded
  <2>1. UNCHANGED <<changes, gen>>
    BY <1>4 DEF CompleteByApproval
  <2>2. \A h \in Generation : PendingIn(changes, gen, h)' = PendingIn(changes, gen, h)
    BY <2>1 DEF PendingIn
  <2>3. RetentionBounds'
    BY <1>4, <2>2, CompletionKeepsOutcomeBound DEF BoundsInv, RetentionBounds
  <2>4. CASE Generation # {}
    BY <1>4, <2>3, CompletionKeepsOutcomeBound
  <2> QED BY <2>4
<1> HIDE DEF Bounded
<1>5. \/ /\ UNCHANGED <<gen, outcomes, settled>>
         /\ \A q \in Proposal : changes'[q] = "pending" => changes[q] = "pending"
      \/ \E p \in Proposal, g \in Generation : Save(p, g)
      \/ \E p \in Proposal, g \in Generation, s \in Session : ClaimOutcome(p, g, s)
      \/ \E p \in Proposal, g \in Generation, state \in Terminal : CompleteByApproval(p, g, state)
  BY <1>0 DEF StoreNext, storeVars, Lapse, LoadExpire, Consume, Discard, CompleteOutcome,
              Reconcile, Terminal, StoreTypeOK
<1>6. Bounded
  BY <1>1, <1>2, <1>3, <1>4, <1>5
<1> QED BY <1>0, <1>6 DEF BoundsInv, Bounded

\* Both tables stay within their limits: at most max_pending undecided changes
\* and at most max_outcomes terminal outcomes in each generation.
THEOREM TablesStayBounded == StoreSpec => []RetentionBounds
<1>1. BoundsInv => RetentionBounds
  BY DEF BoundsInv
<1> QED BY <1>1, InitEstablishesBounds, StepPreservesBounds, PTL DEF StoreSpec
==============================================================================
