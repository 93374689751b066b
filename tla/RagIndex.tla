------------------------------- MODULE RagIndex --------------------------------
(***************************************************************************)
(* The knowledge index of one workspace: the rows engine/core/rag/store.py *)
(* keeps in SQLite, and the job of engine/core/rag/service.py that reads   *)
(* the repositories in a thread and replaces the index.                    *)
(*                                                                         *)
(* The endpoints and the job's own steps run on the event loop, where each *)
(* use of the store is one step; the reading thread meets only people who  *)
(* edit files.  A job and the index generation it builds have one number.  *)
(***************************************************************************)
EXTENDS Naturals

CONSTANTS
    File,           \* paths the index may hold
    Text,           \* contents of a file
    MaxGeneration,  \* bound: generations of the workspace
    MaxJobs,        \* bound: rebuilds
    MaxEdits,       \* bound: edits of each file
    MaxRestarts,    \* bound: crashes or shutdowns
    MaxFaults       \* bound: uses of the store that raise and leave a job behind

ASSUME BoundsAssumption ==
    /\ MaxGeneration \in Nat \ {0}
    /\ MaxJobs \in Nat /\ MaxEdits \in Nat /\ MaxRestarts \in Nat /\ MaxFaults \in Nat

VARIABLES
    registered,     \* the workspace's generation in the registry
    disk,           \* content of each file, Absent if it is not to be indexed
    stamp,          \* identity of each file: inode, size and mtime
    status,         \* the row of rag_status
    rows,           \* rag_files with rag_chunks
    task,           \* the task and the thread of each job
    witness,        \* history: what was on disk while the index was read
    restarts, faults

vars == <<registered, disk, stamp, status, rows, task, witness, restarts, faults>>

Generation == 1..MaxGeneration
Job == 1..MaxJobs
Absent == "absent"
\* What a read gets that an edit overtakes.
Torn == "torn"
Content == Text \union {Absent}

Row == [index : Job, gen : Generation, file : File, text : Text \union {Torn}]

NotIndexed == [state |-> "not_indexed", active |-> 0, index |-> 0, job |-> 0]
Status == [state : {"not_indexed", "queued", "building", "ready", "failed"},
           active : 0..MaxGeneration, index : 0..MaxJobs, job : 0..MaxJobs]

NoTask == [pc |-> "none", gen |-> 0, todo |-> {}, open |-> {}, files |-> {},
           seen |-> [f \in File |-> {}]]
Task == [pc : {"none", "created", "collecting", "collected", "failing"},
         gen : 0..MaxGeneration,
         todo : SUBSET File,                                \* files to visit
         open : SUBSET [file : File, stamp : 0..MaxEdits],  \* the one being read
         files : SUBSET [file : File, text : Text \union {Torn}],
         seen : [File -> SUBSET Content]]                   \* history

\* Types; and the rows fit the table's key.
TypeOK ==
    /\ registered \in Generation
    /\ disk \in [File -> Content] /\ stamp \in [File -> 0..MaxEdits]
    /\ status \in Status
    /\ rows \subseteq Row
    /\ \A q, r \in rows : q.file = r.file /\ q.index = r.index => q = r
    /\ task \in [Job -> Task]
    /\ witness \in [File -> SUBSET Content]
    /\ restarts \in 0..MaxRestarts /\ faults \in 0..MaxFaults

Init ==
    /\ registered = 1
    /\ disk \in [File -> Content] /\ stamp = [f \in File |-> 0]
    /\ status = NotIndexed
    /\ rows = {}
    /\ task = [j \in Job |-> NoTask]
    /\ witness = [f \in File |-> {}]
    /\ restarts = 0 /\ faults = 0

Alive == {j \in Job : task[j].pc # "none"}

------------------------------------------------------------------------------
\* start_rebuild

\* Mistaken: a job that has not begun is not noticed.
RunningIgnoresQueued == status.state = "building"

Running == status.state \in {"queued", "building"}

\* Mistaken: the row is replaced, with the index it names.
QueuedAfresh(j) == [NotIndexed EXCEPT !.state = "queued", !.job = j]

\* ON CONFLICT DO UPDATE keeps the active index.
Queued(j) == [status EXCEPT !.state = "queued", !.job = j]

\* The job is queued and its task created, unless the row cannot be read again.
StartRebuild ==
    /\ ~Running
    /\ status.job < MaxJobs
    /\ LET j == status.job + 1
       IN  /\ status' = Queued(j)
           /\ \/ /\ task' = [task EXCEPT ![j].pc = "created", ![j].gen = registered]
                 /\ UNCHANGED faults
              \/ /\ faults < MaxFaults /\ faults' = faults + 1
                 /\ UNCHANGED task
    /\ UNCHANGED <<registered, disk, stamp, rows, witness, restarts>>

\* _run begins: the row must still be queued for this job.
MarkBuilding(j) ==
    /\ task[j].pc = "created"
    /\ IF status.job = j /\ status.state = "queued"
       THEN /\ status' = [status EXCEPT !.state = "building"]
            /\ task' = [task EXCEPT ![j].pc = "collecting", ![j].todo = File,
                           ![j].seen = [f \in File |-> {disk[f]}]]
       ELSE /\ task' = [task EXCEPT ![j].pc = "failing"]
            /\ UNCHANGED status
    /\ UNCHANGED <<registered, disk, stamp, rows, witness, restarts, faults>>

------------------------------------------------------------------------------
\* _collect

\* Task t has reached file f: it opens it, if it is there.
Reached(t, f) ==
    [t EXCEPT !.todo = @ \ {f},
              !.open = IF disk[f] = Absent THEN {}
                       ELSE {[file |-> f, stamp |-> stamp[f]]}]

\* Files are visited one by one, in no order that matters here.
OpenFile(j) ==
    /\ task[j].pc = "collecting" /\ task[j].open = {}
    /\ \E f \in task[j].todo :
        task' = [task EXCEPT ![j] = Reached(task[j], f)]
    /\ UNCHANGED <<registered, disk, stamp, status, rows, witness, restarts, faults>>

\* Mistaken: the path alone says that a file is unchanged.
ReusableByPath(f, text, gen) ==
    {r \in rows : r.file = f /\ r.gen = gen /\ r.index = status.index}

\* The indexed rows of a file whose digest is in the active manifest.
Reusable(f, text, gen) ==
    {r \in rows : r.file = f /\ r.text = text /\ r.gen = gen /\ r.index = status.index
                  /\ status.active = gen}

\* Mistaken: the identity of the file is not compared afterwards.
UnchangedAssumed(o) == TRUE

\* before_identity, opened_identity and after_identity agree.
Unchanged(o) == stamp[o.file] = o.stamp

\* Task t has an entry for file f, reused if its text is indexed already.
Collected(t, f, text) ==
    LET old == Reusable(f, text, t.gen)
    IN  [t EXCEPT !.open = {},
                  !.files = @ \union
                      {[file |-> f,
                        text |-> IF old # {} THEN (CHOOSE r \in old : TRUE).text
                                 ELSE text]}]

\* The read ends; a file that has changed meanwhile fails the job.
ReadFile(j) ==
    /\ task[j].pc = "collecting"
    /\ \E o \in task[j].open :
        LET text == IF stamp[o.file] = o.stamp THEN disk[o.file] ELSE Torn
        IN  task' = IF Unchanged(o)
                    THEN [task EXCEPT ![j] = Collected(task[j], o.file, text)]
                    ELSE [task EXCEPT ![j].pc = "failing"]
    /\ UNCHANGED <<registered, disk, stamp, status, rows, witness, restarts, faults>>

CollectEnds(j) ==
    /\ task[j].pc = "collecting" /\ task[j].todo = {} /\ task[j].open = {}
    /\ task' = [task EXCEPT ![j].pc = "collected"]
    /\ UNCHANGED <<registered, disk, stamp, status, rows, witness, restarts, faults>>

\* A budget is exceeded, a path escapes or is gone, or the store raises.
JobFails(j) ==
    /\ task[j].pc \in {"created", "collecting", "collected"}
    /\ task' = [task EXCEPT ![j].pc = "failing"]
    /\ UNCHANGED <<registered, disk, stamp, status, rows, witness, restarts, faults>>

------------------------------------------------------------------------------
\* Mistaken: the rows of the index before stay.
InstalledBesides(j) ==
    rows \union {[index |-> j, gen |-> task[j].gen, file |-> e.file, text |-> e.text] :
                 e \in task[j].files}

\* Mistaken: rows go in under the generation that is still active.
InstalledAsActive(j) ==
    {[index |-> status.index, gen |-> task[j].gen, file |-> e.file, text |-> e.text] :
     e \in task[j].files}

\* The rows install leaves: those of the new index generation.
Installed(j) ==
    {[index |-> j, gen |-> task[j].gen, file |-> e.file, text |-> e.text] :
     e \in task[j].files}

\* install, in one transaction.
Install(j) ==
    /\ task[j].pc = "collected"
    /\ IF status.job = j /\ status.state = "building"
       THEN /\ rows' = Installed(j)
            /\ status' = [status EXCEPT !.state = "ready", !.active = task[j].gen,
                                        !.index = j]
            /\ witness' = task[j].seen
            /\ task' = [task EXCEPT ![j] = NoTask]
       ELSE /\ task' = [task EXCEPT ![j].pc = "failing"]
            /\ UNCHANGED <<rows, status, witness>>
    /\ UNCHANGED <<registered, disk, stamp, restarts, faults>>

\* fail, unless it raises too.
Fail(j) ==
    /\ task[j].pc = "failing"
    /\ task' = [task EXCEPT ![j] = NoTask]
    /\ \/ /\ status' = IF status.job = j THEN [status EXCEPT !.state = "failed"] ELSE status
          /\ UNCHANGED faults
       \/ /\ faults < MaxFaults /\ faults' = faults + 1
          /\ UNCHANGED status
    /\ UNCHANGED <<registered, disk, stamp, rows, witness, restarts>>

------------------------------------------------------------------------------
\* Mistaken: only a job that has begun was interrupted.
RecoverBuilding ==
    IF status.state = "building" THEN [status EXCEPT !.state = "failed"] ELSE status

\* _recover
Recover ==
    IF status.state \in {"queued", "building"}
    THEN [status EXCEPT !.state = "failed"] ELSE status

\* The engine stops (shutdown cancels the task, which does not record it) and
\* opens the store again.
Restart ==
    /\ restarts < MaxRestarts
    /\ restarts' = restarts + 1
    /\ task' = [j \in Job |-> NoTask]
    /\ status' = Recover
    /\ UNCHANGED <<registered, disk, stamp, rows, witness, faults>>

\* A repository is added, or the workspace deleted and created again.
ChangeWorkspace ==
    /\ registered < MaxGeneration
    /\ registered' = registered + 1
    /\ UNCHANGED <<disk, stamp, status, rows, task, witness, restarts, faults>>

\* Somebody writes or deletes a file.
Edit(f) ==
    /\ stamp[f] < MaxEdits
    /\ stamp' = [stamp EXCEPT ![f] = @ + 1]
    /\ \E c \in Content : disk' = [disk EXCEPT ![f] = c]
    /\ task' = [j \in Job |-> IF task[j].pc = "collecting"
                              THEN [task[j] EXCEPT !.seen[f] = @ \union {disk'[f]}]
                              ELSE task[j]]
    /\ UNCHANGED <<registered, status, rows, witness, restarts, faults>>

JobStep(j) ==
    \/ MarkBuilding(j) \/ OpenFile(j) \/ ReadFile(j) \/ CollectEnds(j)
    \/ Install(j) \/ Fail(j)

Next ==
    \/ StartRebuild \/ Restart \/ ChangeWorkspace
    \/ \E j \in Job : JobStep(j) \/ JobFails(j)
    \/ \E f \in File : Edit(f)

Spec == Init /\ [][Next]_vars

\* The event loop and the thread run; nobody has to rebuild, edit or fail.
FairSpec == Spec /\ \A j \in Job : WF_vars(JobStep(j))

------------------------------------------------------------------------------
\* query

\* Mistaken: "stale" is taken to cover every other generation.
AnswersUnlessStale(g) ==
    ~(status.state = "ready" /\ status.active # g) /\ status.index # 0

\* The index is there, not stale, and of the generation asked for.  (stale is
\* derived from ready only, so a failed or running rebuild needs the last check.)
Answers(g) ==
    /\ ~(status.state = "ready" /\ status.active # g)
    /\ status.index # 0
    /\ status.active = g

\* The rows a query for generation g searches.
Searched(g) == {r \in rows : r.gen = g /\ r.index = status.index}

Found(g, f) ==
    IF \E r \in Searched(g) : r.file = f
    THEN (CHOOSE r \in Searched(g) : r.file = f).text ELSE Absent

\* At most one job is at work, and the row says so until it has ended, so a
\* second rebuild is refused (queue, mark_building, install, fail).
OneJob == \A j \in Alive : Running /\ status.job = j

\* A query that is answered searches all of an index built for its generation,
\* in which each file is as it was at some time while the job read the files,
\* however jobs, edits, changes of the workspace and restarts interleave.
AnswerIsHonest ==
    \A g \in Generation : Answers(g) => \A f \in File : Found(g, f) \in witness[f]

\* The tables hold one index, the one the row names: neither a replaced nor an
\* interrupted build leaves rows behind (install).
NoRowsLeftBehind == \A r \in rows : r.index = status.index /\ r.gen = status.active

\* What queries find changes only when a job succeeds: not while it is queued
\* or runs, and not when it fails or is interrupted (queue, fail, _recover).
OnlySuccessReplaces ==
    [][\A g \in Generation : Answers(g) =>
          (status'.index = status.index /\ Searched(g)' = Searched(g) /\ Answers(g)')
          \/ (status.state = "building" /\ status'.state = "ready")]_vars

\* A rebuild that was accepted comes to an end, so that another is possible,
\* unless the store cannot even record its failure.
EveryJobEnds == (Running /\ faults = 0) ~> (~Running \/ faults > 0)
==============================================================================
