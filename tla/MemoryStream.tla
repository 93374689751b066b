------------------------------ MODULE MemoryStream ------------------------------
(***************************************************************************)
(* The Java service's MemoryPersistenceService: instances read two Redis   *)
(* streams through one consumer group and store what they read in MySQL.   *)
(*                                                                         *)
(* An instance runs one scheduled method at a time.  The method reads a    *)
(* batch, inserts what it can parse, acknowledges, and its transaction is  *)
(* committed when it returns - also when it has caught an exception.       *)
(*                                                                         *)
(* The schema refuses some of what can be parsed: a record without one of  *)
(* its NOT NULL columns, and the second row of a session.  The producer is *)
(* not in the repository: records just appear, such ones too.              *)
(***************************************************************************)
EXTENDS Naturals, FiniteSets

CONSTANTS
    Instance,           \* processes of the service
    Stream,             \* the streams
    SessionStream,      \* those whose rows are unique by session_id (uk_session_id)
    SessionId, NoSession,
    MaxRecords,         \* bound: records, in all the streams together
    BatchSize,          \* BATCH_SIZE
    MaxStreamFaults     \* bound: failing commands, statements and commits, and crashes

ASSUME StreamAssumption ==
    /\ SessionStream \subseteq Stream /\ NoSession \notin SessionId
    /\ MaxRecords \in Nat /\ BatchSize \in Nat \ {0} /\ MaxStreamFaults \in Nat

VARIABLES
    length,             \* records added to each stream; they are numbered from 1
    garbled,            \* records that cannot be parsed
    incomplete,         \* records that lack a NOT NULL column
    sessionOf,          \* the session of a record, where that matters
    group,              \* streams that have their consumer group
    delivered,          \* last-delivered id of each group
    unacked,            \* the groups' pending entries
    table,              \* committed rows: how often each record is stored
    job,                \* what each instance is doing
    spoiled,            \* history: records not stored because a row of their batch was refused
    streamFaults, lostCommits

recordVars == <<length, garbled, incomplete, sessionOf>>
streamVars == <<recordVars, group, delivered, unacked, table, job, spoiled,
                streamFaults, lostCommits>>

Record == Stream \X (1..MaxRecords)
Idle == [pc |-> "idle"]
Loaded == [pc : {"read", "inserted", "returning"}, stream : Stream,
           batch : SUBSET Record, rows : SUBSET Record]
Job == {Idle, [pc |-> "starting"]} \union Loaded

FaultsTyped == streamFaults \in 0..MaxStreamFaults /\ lostCommits \in 0..streamFaults

StreamTypeOK ==
    /\ length \in [Stream -> 0..MaxRecords]
    /\ garbled \subseteq Record /\ incomplete \subseteq Record /\ spoiled \subseteq Record
    /\ sessionOf \in [Record -> SessionId \union {NoSession}]
    /\ group \subseteq Stream
    /\ delivered \in [Stream -> 0..MaxRecords]
    /\ \A s \in Stream : delivered[s] <= length[s]
    /\ unacked \subseteq {r \in Record : r[2] <= delivered[r[1]]}
    /\ table \in [Record -> 0..2]
    /\ job \in [Instance -> Job]
    /\ FaultsTyped

StreamInit ==
    /\ length = [s \in Stream |-> 0] /\ garbled = {} /\ incomplete = {} /\ spoiled = {}
    /\ sessionOf = [r \in Record |-> NoSession]
    /\ group = {} /\ delivered = [s \in Stream |-> 0] /\ unacked = {}
    /\ table = [r \in Record |-> 0]
    /\ job = [i \in Instance |-> [pc |-> "starting"]]
    /\ streamFaults = 0 /\ lostCommits = 0

StreamFault == streamFaults < MaxStreamFaults /\ streamFaults' = streamFaults + 1

------------------------------------------------------------------------------
Added(r) == length[r[1]] >= r[2]

Produce(s) ==
    /\ length[s] < MaxRecords /\ Cardinality({r \in Record : Added(r)}) < MaxRecords
    /\ length' = [length EXCEPT ![s] = @ + 1]
    /\ LET r == <<s, length[s] + 1>> IN
           \/ garbled' = garbled \union {r} /\ UNCHANGED <<incomplete, sessionOf>>
           \/ incomplete' = incomplete \union {r} /\ UNCHANGED <<garbled, sessionOf>>
           \/ /\ \E u \in IF s \in SessionStream THEN SessionId ELSE {NoSession} :
                    sessionOf' = [sessionOf EXCEPT ![r] = u]
              /\ UNCHANGED <<garbled, incomplete>>
    /\ UNCHANGED <<group, delivered, unacked, table, job, spoiled, streamFaults, lostCommits>>

\* Mistaken: a new group starts after the last record.
InitGroupsAtEnd(i) ==
    /\ job[i].pc = "starting"
    /\ group' = Stream
    /\ delivered' = [s \in Stream |-> IF s \in group THEN delivered[s] ELSE length[s]]
    /\ job' = [job EXCEPT ![i] = Idle]
    /\ UNCHANGED <<recordVars, unacked, table, spoiled, streamFaults, lostCommits>>

\* initConsumerGroups: the groups start at the first record.  A command that
\* fails is logged, and nothing repeats it until the next start.
InitGroups(i) ==
    /\ job[i].pc = "starting"
    /\ \/ group' = Stream /\ UNCHANGED streamFaults
       \/ StreamFault /\ \E created \in SUBSET Stream : group' = group \union created
    /\ job' = [job EXCEPT ![i] = Idle]
    /\ UNCHANGED <<recordVars, delivered, unacked, table, spoiled, lostCommits>>

\* Mistaken: what was not acknowledged is read again.
UnreadAndUnacked(s) == {r \in unacked : r[1] = s} \union
                       {<<s, n>> : n \in (delivered[s] + 1)..length[s]}

\* readFromStream, ReadOffset.lastConsumed(): what no consumer of the group has
\* been given.
Unread(s) == {<<s, n>> : n \in (delivered[s] + 1)..length[s]} \intersect
             {<<s, n>> : n \in (delivered[s] + 1)..(delivered[s] + BatchSize)}

\* consumeMemoryStream, consumeSessionStream.  When the reply is lost, Redis
\* has delivered the batch and nobody has it.
Read(i, s) ==
    /\ job[i] = Idle /\ s \in group /\ Unread(s) # {}
    /\ delivered' = [delivered EXCEPT ![s] = IF @ + BatchSize < length[s] THEN @ + BatchSize
                                             ELSE length[s]]
    /\ unacked' = unacked \union Unread(s)
    /\ \/ /\ job' = [job EXCEPT ![i] = [pc |-> "read", stream |-> s,
                                        batch |-> Unread(s), rows |-> {}]]
          /\ UNCHANGED streamFaults
       \/ StreamFault /\ UNCHANGED job
    /\ UNCHANGED <<recordVars, group, table, spoiled, lostCommits>>

\* Two rows the unique key keeps apart.
SameSession(q, r) == q # r /\ q[1] = r[1] /\ sessionOf[q] = sessionOf[r] /\ sessionOf[q] # NoSession

Parsed(i) == job[i].batch \ garbled

\* The schema refuses the row of r: a column is missing, or its session has a row, a
\* committed one or one of this batch.
Refused(i) ==
    {r \in Parsed(i) : \/ r \in incomplete
                       \/ \E q \in Record : /\ SameSession(q, r)
                                            /\ \/ table[q] > 0
                                               \/ q \in Parsed(i) /\ q[2] < r[2]}

\* The insert waits for a transaction that has stored a row of the same session.
Waits(i) ==
    \E k \in Instance \ {i} :
        /\ job[k].pc \in {"inserted", "returning"}
        /\ \E q \in job[k].rows, r \in Parsed(i) : SameSession(q, r)

\* What is stored of a batch when the row of some of its records cannot be: what comes
\* before the first of those; of a saveBatch, whose driver may go on with the rest,
\* any of the others besides.
StoredWithout(i, failing) ==
    LET before == {r \in Parsed(i) : \A f \in failing : r[2] < f[2]}
        others == IF job[i].stream \in SessionStream THEN {} ELSE Parsed(i) \ failing
    IN  {before \union more : more \in SUBSET others}

\* Mistaken: an insert that fails is caught where it happens.
InsertOrSkip(i) ==
    /\ job[i].pc = "read" /\ ~Waits(i)
    /\ job' = [job EXCEPT ![i].pc = "inserted", ![i].rows = Parsed(i) \ Refused(i)]
    /\ UNCHANGED <<recordVars, group, delivered, unacked, table, spoiled, streamFaults, lostCommits>>

\* saveBatch, or one insert after another: all of them, or a part when the schema
\* refuses a row or a statement fails; the exception is caught, nothing is
\* acknowledged, and nothing is read again.
Insert(i) ==
    /\ job[i].pc = "read" /\ ~Waits(i)
    /\ \/ /\ Refused(i) = {}
          /\ job' = [job EXCEPT ![i].pc = "inserted", ![i].rows = Parsed(i)]
          /\ UNCHANGED <<spoiled, streamFaults>>
       \/ /\ Refused(i) # {}
          /\ \E rows \in StoredWithout(i, Refused(i)) :
                /\ job' = [job EXCEPT ![i].pc = "returning", ![i].rows = rows]
                /\ spoiled' = spoiled \union (Parsed(i) \ rows)
          /\ UNCHANGED streamFaults
       \/ /\ StreamFault /\ UNCHANGED spoiled
          /\ \E failing \in Parsed(i) : \E rows \in StoredWithout(i, Refused(i) \union {failing}) :
                job' = [job EXCEPT ![i].pc = "returning", ![i].rows = rows]
    /\ UNCHANGED <<recordVars, group, delivered, unacked, table, lostCommits>>

\* acknowledgeMessages: also what could not be parsed.
Acknowledge(i) ==
    /\ job[i].pc = "inserted"
    /\ \/ unacked' = unacked \ job[i].batch /\ UNCHANGED streamFaults
       \/ StreamFault /\ UNCHANGED unacked
    /\ job' = [job EXCEPT ![i].pc = "returning"]
    /\ UNCHANGED <<recordVars, group, delivered, table, spoiled, lostCommits>>

\* @Transactional: the rows are committed when the method has returned.
Commit(i) ==
    /\ job[i].pc = "returning"
    /\ \/ /\ table' = [r \in Record |-> IF r \in job[i].rows THEN table[r] + 1 ELSE table[r]]
          /\ UNCHANGED <<streamFaults, lostCommits>>
       \/ StreamFault /\ lostCommits' = lostCommits + 1 /\ UNCHANGED table
    /\ job' = [job EXCEPT ![i] = Idle]
    /\ UNCHANGED <<recordVars, group, delivered, unacked, spoiled>>

\* An instance dies, with its transaction, and starts again.
InstanceCrash(i) ==
    /\ StreamFault
    /\ lostCommits' = IF job[i].pc = "returning" THEN lostCommits + 1 ELSE lostCommits
    /\ job' = [job EXCEPT ![i] = [pc |-> "starting"]]
    /\ UNCHANGED <<recordVars, group, delivered, unacked, table, spoiled>>

\* What an instance does by itself.
Consumes(i) ==
    InitGroups(i) \/ (\E s \in Stream : Read(i, s)) \/ Insert(i) \/ Acknowledge(i) \/ Commit(i)

StreamNext ==
    \/ \E s \in Stream : Produce(s)
    \/ \E i \in Instance : \/ InitGroups(i) \/ Insert(i) \/ Acknowledge(i) \/ Commit(i)
                           \/ InstanceCrash(i)
    \/ \E i \in Instance, s \in Stream : Read(i, s)

\* The scheduler calls both methods every five seconds.
StreamFairness ==
    /\ \A i \in Instance : WF_streamVars(Consumes(i))
    /\ \A s \in Stream : SF_streamVars(\E i \in Instance : Read(i, s))

StreamSpec == StreamInit /\ [][StreamNext]_streamVars /\ StreamFairness

------------------------------------------------------------------------------
Busy(i) == job[i].pc \in {"read", "inserted", "returning"}
InHand == UNION {job[i].batch : i \in {j \in Instance : Busy(j)}}

\* A record is stored at most once, and only what could be parsed, whatever fails
\* and however many instances read (consumer group, lastConsumed).
StoredOnce == \A r \in Record : table[r] <= IF r \in garbled THEN 0 ELSE 1

\* What has been acknowledged is stored, or is about to be, or cannot be parsed,
\* unless the commit itself was lost: with XPENDING an operator finds everything
\* else (Insert before Acknowledge).
AcknowledgedIsStored ==
    lostCommits = 0 =>
        \A r \in Record : r[2] <= delivered[r[1]] /\ r \notin unacked =>
            table[r] = 1 \/ r \in garbled \/ r \in InHand

\* Without faults every record that can be parsed is stored in the end - or a row of
\* its batch was refused, and then the record is still where an operator finds it, with
\* the group's pending entries (consumeMemoryStream, consumeSessionStream, schema.sql).
EveryRecordIsStored ==
    \A r \in Record : (Added(r) /\ r \notin garbled)
                      ~> \/ table[r] = 1 \/ streamFaults > 0
                         \/ r \in spoiled /\ r \in unacked

\* Nothing is lost (the consumer group's promise): without faults, a record that is
\* complete and the only one of its session is stored in the end.
Storable(r) ==
    /\ r \notin garbled \union incomplete
    /\ \A q \in Record : Added(q) => ~SameSession(q, r)
NothingIsLost ==
    \A r \in Record : (Added(r) /\ Storable(r))
                      ~> (table[r] = 1 \/ streamFaults > 0 \/ ~Storable(r))
==============================================================================
