---------------------------- MODULE RagIndexProofs -----------------------------
(***************************************************************************)
(* What a query answers is honest, for any files, contents, generations,   *)
(* rebuilds, edits, restarts and faults.                                   *)
(***************************************************************************)
EXTENDS RagIndex, TLAPS

\* A task that reads: each file is still to be visited, or being read, or has one
\* entry that was on disk, or was absent at some time.
Reads(t) ==
    /\ \A d, e \in t.files : d.file = e.file => d = e
    /\ \A e \in t.files : e.file \notin t.todo /\ e.text \in t.seen[e.file]
    /\ \A o \in t.open : o.file \notin t.todo /\ \A e \in t.files : e.file # o.file
    /\ \A o, p \in t.open : o = p
    /\ \A f \in File : \/ f \in t.todo \/ \E o \in t.open : o.file = f
                       \/ \E e \in t.files : e.file = f
                       \/ Absent \in t.seen[f]

\* What holds of the disk while a task reads it.
Watches(t) ==
    /\ \A f \in File : disk[f] \in t.seen[f]
    /\ \A o \in t.open : /\ o.stamp <= stamp[o.file]
                         /\ o.stamp = stamp[o.file] => disk[o.file] # Absent

TaskOK(t) ==
    /\ t.pc # "none" => t.gen \in Generation
    /\ t.pc \in {"none", "created"} => t.open = {} /\ t.files = {}
    /\ t.pc \in {"collecting", "collected"} => Reads(t)
    /\ t.pc = "collecting" => Watches(t)
    /\ t.pc = "collected" => t.todo = {} /\ t.open = {}

TaskInv == \A i \in Job : TaskOK(task[i])

\* The index that is installed was read honestly.
IndexInv ==
    status.index # 0 =>
        \A f \in File :
            /\ \A r \in rows : r.file = f => r.text \in witness[f]
            /\ (\E r \in rows : r.file = f) \/ Absent \in witness[f]

Inv == TypeOK /\ OneJob /\ NoRowsLeftBehind /\ TaskInv /\ IndexInv

------------------------------------------------------------------------------
\* A step of one task, on a disk that does not change, leaves the others as they
\* are: only the task that moves needs an argument.
LEMMA OneTaskMoves ==
    ASSUME TypeOK, TaskInv, UNCHANGED <<disk, stamp>>,
           NEW j \in Job, NEW t \in Task, task' = [task EXCEPT ![j] = t],
           TaskOK(t)
    PROVE  TaskInv' /\ task' \in [Job -> Task]
<1>1. task' \in [Job -> Task] /\ \A i \in Job : task'[i] = IF i = j THEN t ELSE task[i]
  BY DEF TypeOK
<1>2. ASSUME NEW i \in Job PROVE TaskOK(task[i])'
  <2>1. CASE i = j
    BY <1>1, <2>1 DEF TaskOK, Watches
  <2>2. CASE i # j
    BY <1>1, <2>2 DEF TaskInv, TaskOK, Watches
  <2> QED BY <2>1, <2>2
<1> QED BY <1>1, <1>2 DEF TaskInv

\* A task that has failed is typed and in order.
LEMMA FailingTask ==
    ASSUME NEW t \in Task, t.gen \in Generation
    PROVE  [t EXCEPT !.pc = "failing"] \in Task /\ TaskOK([t EXCEPT !.pc = "failing"])
<1>1. /\ [t EXCEPT !.pc = "failing"] \in Task
      /\ [t EXCEPT !.pc = "failing"].pc = "failing"
      /\ [t EXCEPT !.pc = "failing"].gen = t.gen
  BY DEF Task
<1> QED BY <1>1 DEF TaskOK

\* No task is a task, and in order.
LEMMA NoTaskTyped == NoTask \in Task /\ TaskOK(NoTask)
<1>1. [f \in File |-> {}] \in [File -> SUBSET Content]
  OBVIOUS
<1>2. NoTask.pc = "none" /\ NoTask.open = {} /\ NoTask.files = {}
  BY DEF NoTask
<1>3. NoTask \in Task
  BY <1>1, BoundsAssumption DEF NoTask, Task
<1> QED BY <1>2, <1>3 DEF TaskOK

\* A row stays typed when its state changes.
LEMMA StatusTyped ==
    ASSUME NEW s \in Status, NEW state \in {"queued", "building", "ready", "failed"}
    PROVE  [s EXCEPT !.state = state] \in Status
  BY DEF Status

\* Initially there are neither rows nor tasks.
LEMMA InitInv == Init => Inv
<1> SUFFICES ASSUME Init PROVE Inv
  OBVIOUS
<1>1. TypeOK
  BY BoundsAssumption, NoTaskTyped DEF Init, TypeOK, NotIndexed, Generation, Status
<1>2. OneJob /\ NoRowsLeftBehind /\ TaskInv /\ IndexInv
  BY NoTaskTyped DEF Init, OneJob, NoRowsLeftBehind, TaskInv, IndexInv, NotIndexed, NoTask,
     Alive
<1> QED BY <1>1, <1>2 DEF Inv

\* Nothing changes.
LEMMA StutterInv == ASSUME Inv, UNCHANGED vars PROVE Inv'
<1>1. TaskInv'
  BY DEF vars, Inv, TaskInv, TaskOK, Watches
<1> QED BY <1>1 DEF vars, Inv, TypeOK, OneJob, NoRowsLeftBehind, IndexInv, Alive, Running

\* Another generation is registered: nothing else changes.
LEMMA ChangeInv == ASSUME Inv, ChangeWorkspace PROVE Inv'
<1>1. TypeOK'
  BY BoundsAssumption DEF Inv, TypeOK, ChangeWorkspace, Generation
<1>2. TaskInv'
  BY DEF ChangeWorkspace, Inv, TaskInv, TaskOK, Watches
<1> QED BY <1>1, <1>2 DEF ChangeWorkspace, Inv, OneJob, NoRowsLeftBehind, IndexInv, Alive,
           Running

\* No task survives a restart.
LEMMA RestartInv == ASSUME Inv, Restart PROVE Inv'
<1>1. TaskInv' /\ task' \in [Job -> Task]
  BY NoTaskTyped DEF Restart, TaskInv, TaskOK, NoTask
<1>2. status' \in Status /\ status'.index = status.index /\ status'.active = status.active
  BY StatusTyped DEF Inv, TypeOK, Restart, Recover, Status
<1>3. TypeOK'
  BY <1>1, <1>2, BoundsAssumption DEF Inv, TypeOK, Restart
<1>4. OneJob' /\ NoRowsLeftBehind' /\ IndexInv'
  BY <1>2 DEF Inv, Restart, OneJob, NoRowsLeftBehind, IndexInv, Alive, NoTask
<1> QED BY <1>1, <1>3, <1>4 DEF Inv

\* A rebuild starts when no other is at work.
LEMMA StartInv == ASSUME Inv, StartRebuild PROVE Inv'
<1> DEFINE j == status.job + 1
           t == [task[j] EXCEPT !.pc = "created", !.gen = registered]
<1>1. j \in Job /\ status \in Status
  BY BoundsAssumption DEF Inv, TypeOK, StartRebuild, Status, Job
<1>2. Alive = {}
  BY DEF Inv, OneJob, StartRebuild, Alive
<1>3. /\ status' \in Status /\ Running' /\ status'.job = j
      /\ status'.index = status.index /\ status'.active = status.active
  <2>1. status' = [status EXCEPT !.state = "queued", !.job = j]
    BY DEF StartRebuild, Queued
  <2>2. j \in 0..MaxJobs
    BY <1>1, BoundsAssumption DEF Job
  <2>3. status' \in Status /\ status'.state = "queued" /\ status'.job = j
    BY <1>1, <2>1, <2>2 DEF Status
  <2>4. status'.index = status.index /\ status'.active = status.active
    BY <1>1, <2>1 DEF Status
  <2> QED BY <2>3, <2>4 DEF Running
<1>4. t \in Task /\ TaskOK(t)
  <2>1. task[j] \in Task /\ registered \in Generation /\ registered \in 0..MaxGeneration
    BY <1>1, BoundsAssumption DEF Inv, TypeOK, Generation
  <2>2. task[j].pc = "none"
    BY <1>1, <1>2 DEF Alive
  <2>3. task[j].open = {} /\ task[j].files = {}
    BY <1>1, <2>2 DEF Inv, TaskInv, TaskOK
  <2>4. t \in Task /\ t.pc = "created" /\ t.open = {} /\ t.files = {}
        /\ t.gen \in Generation
    BY <2>1, <2>3 DEF Task
  <2> QED BY <2>4 DEF TaskOK
<1>5. /\ TaskInv' /\ task' \in [Job -> Task]
      /\ \A i \in Job : i # j => task'[i] = task[i]
  <2>1. CASE task' = task
    BY <1>1, <2>1 DEF StartRebuild, Inv, TypeOK, TaskInv, TaskOK, Watches
  <2>2. CASE task' = [task EXCEPT ![j] = t]
    BY <1>1, <1>4, <2>2, OneTaskMoves DEF StartRebuild, Inv, TypeOK
  <2>3. task' = task \/ task' = [task EXCEPT ![j] = t]
    BY <1>1 DEF StartRebuild, Inv, TypeOK
  <2> QED BY <2>1, <2>2, <2>3
<1>6. TypeOK'
  BY <1>3, <1>5, BoundsAssumption DEF Inv, TypeOK, StartRebuild
<1>7. OneJob'
  BY <1>2, <1>3, <1>5 DEF OneJob, Alive
<1>8. NoRowsLeftBehind' /\ IndexInv'
  BY <1>3 DEF Inv, StartRebuild, NoRowsLeftBehind, IndexInv
<1> QED BY <1>5, <1>6, <1>7, <1>8 DEF Inv

\* A step of the job that is at work, which leaves the index as it is.
LEMMA JobMoves ==
    ASSUME Inv, NEW j \in Alive, NEW t \in Task, task' = [task EXCEPT ![j] = t],
           TaskOK(t),
           UNCHANGED <<registered, disk, stamp, rows, witness, restarts>>,
           faults' \in 0..MaxFaults, status' \in Status,
           status'.job = status.job, status'.index = status.index,
           status'.active = status.active,
           Running' \/ t.pc = "none"
    PROVE  Inv'
<1>1. j \in Job /\ status.job = j
  BY DEF Inv, OneJob, Alive
<1>2. TaskInv' /\ task' \in [Job -> Task]
  BY <1>1, OneTaskMoves DEF Inv
<1>3. \A i \in Job : task'[i] = IF i = j THEN t ELSE task[i]
  BY <1>1 DEF Inv, TypeOK
<1>4. OneJob'
  <2> SUFFICES ASSUME NEW i \in Alive' PROVE Running' /\ status'.job = i
    BY DEF OneJob
  <2>1. i = j
    BY <1>1, <1>3 DEF Inv, OneJob, Alive
  <2> QED BY <1>1, <1>3, <2>1 DEF Alive
<1>5. TypeOK'
  BY <1>2 DEF Inv, TypeOK
<1>6. NoRowsLeftBehind' /\ IndexInv'
  BY DEF Inv, NoRowsLeftBehind, IndexInv
<1> QED BY <1>2, <1>4, <1>5, <1>6 DEF Inv

\* The job at work, as every step of it finds it.
LEMMA Working ==
    ASSUME Inv, NEW j \in Job, task[j].pc # "none"
    PROVE  /\ j \in Alive /\ status.job = j /\ Running
           /\ task[j] \in Task /\ TaskOK(task[j])
           /\ status \in Status /\ faults \in 0..MaxFaults
           /\ disk \in [File -> Content] /\ stamp \in [File -> 0..MaxEdits]
           /\ rows \subseteq Row
  BY DEF Inv, TypeOK, OneJob, Alive, TaskInv

\* The job fails.
LEMMA FailingInv ==
    ASSUME Inv, NEW j \in Job, task[j].pc # "none",
           task' = [task EXCEPT ![j].pc = "failing"],
           UNCHANGED <<registered, disk, stamp, status, rows, witness, restarts, faults>>
    PROVE  Inv'
<1> DEFINE t == [task[j] EXCEPT !.pc = "failing"]
<1>1. /\ j \in Alive /\ Running /\ t \in Task /\ TaskOK(t)
      /\ status \in Status /\ faults \in 0..MaxFaults
  <2>1. task[j].gen \in Generation
    BY Working DEF TaskOK
  <2> QED BY <2>1, Working, FailingTask
<1>2. task' = [task EXCEPT ![j] = t] /\ Running'
  BY <1>1 DEF Running
<1> HIDE DEF t
<1> QED BY <1>1, <1>2, JobMoves

\* The job begins: no file has been visited.
LEMMA MarkInv == ASSUME Inv, NEW j \in Job, MarkBuilding(j) PROVE Inv'
<1> DEFINE t == [task[j] EXCEPT !.pc = "collecting", !.todo = File,
                                !.seen = [f \in File |-> {disk[f]}]]
<1>1. /\ j \in Alive /\ task[j] \in Task /\ status \in Status /\ faults \in 0..MaxFaults
      /\ disk \in [File -> Content] /\ task[j].pc = "created" /\ TaskOK(task[j])
  BY Working DEF MarkBuilding
<1>2. CASE status.job = j /\ status.state = "queued"
  <2>1. status' = [status EXCEPT !.state = "building"] /\ task' = [task EXCEPT ![j] = t]
    BY <1>1, <1>2 DEF MarkBuilding
  <2>2. [f \in File |-> {disk[f]}] \in [File -> SUBSET Content]
    BY <1>1
  <2>3. task[j].open = {} /\ task[j].files = {}
    BY <1>1 DEF TaskOK
  <2>4. /\ t \in Task /\ t.pc = "collecting" /\ t.todo = File /\ t.open = {}
        /\ t.files = {} /\ t.seen = [f \in File |-> {disk[f]}] /\ t.gen = task[j].gen
    BY <1>1, <2>2, <2>3 DEF Task
  <2> HIDE DEF t
  <2>5. TaskOK(t)
    BY <1>1, <2>4 DEF TaskOK, Reads, Watches
  <2>6. /\ status' \in Status /\ status'.state = "building" /\ status'.job = status.job
        /\ status'.index = status.index /\ status'.active = status.active
    BY <1>1, <2>1 DEF Status
  <2>7. Running'
    BY <2>6 DEF Running
  <2>8. /\ UNCHANGED <<registered, disk, stamp, rows, witness, restarts>>
        /\ faults' \in 0..MaxFaults
    BY <1>1 DEF MarkBuilding
  <2> QED BY <1>1, <2>1, <2>4, <2>5, <2>6, <2>7, <2>8, JobMoves
<1>3. CASE ~(status.job = j /\ status.state = "queued")
  BY <1>1, <1>3, FailingInv DEF MarkBuilding
<1> QED BY <1>2, <1>3

\* A step of a job that changes nothing but its task.
LEMMA CollectMoves ==
    ASSUME Inv, NEW j \in Job, task[j].pc # "none", NEW t \in Task, TaskOK(t),
           task' = [task EXCEPT ![j] = t],
           UNCHANGED <<registered, disk, stamp, status, rows, witness, restarts, faults>>
    PROVE  Inv'
<1>1. /\ j \in Alive /\ Running /\ status \in Status /\ faults \in 0..MaxFaults
  BY Working
<1>2. Running'
  BY <1>1 DEF Running
<1> QED BY <1>1, <1>2, JobMoves

\* A file is opened, or found not to be there.
LEMMA OpenInv == ASSUME Inv, NEW j \in Job, OpenFile(j) PROVE Inv'
<1>1. /\ task[j] \in Task /\ TaskOK(task[j]) /\ task[j].pc = "collecting"
      /\ task[j].open = {}
      /\ disk \in [File -> Content] /\ stamp \in [File -> 0..MaxEdits]
  BY Working DEF OpenFile
<1>2. Reads(task[j]) /\ Watches(task[j])
  BY <1>1 DEF TaskOK
<1>3. PICK f \in task[j].todo : task' = [task EXCEPT ![j] = Reached(task[j], f)]
  BY DEF OpenFile
<1> DEFINE t == Reached(task[j], f)
<1>4. f \in File /\ stamp[f] \in 0..MaxEdits
  BY <1>1 DEF Task
<1>5. /\ t \in Task /\ t.pc = "collecting" /\ t.todo = task[j].todo \ {f}
      /\ t.files = task[j].files /\ t.seen = task[j].seen /\ t.gen = task[j].gen
      /\ \A o \in t.open : o.file = f /\ o.stamp = stamp[f] /\ disk[f] # Absent
      /\ \A o, p \in t.open : o = p
      /\ disk[f] # Absent => \E o \in t.open : o.file = f
  <2>1. CASE disk[f] = Absent
    <3>1. t = [task[j] EXCEPT !.todo = @ \ {f}, !.open = {}]
      BY <2>1 DEF Reached
    <3> QED BY <1>1, <2>1, <3>1 DEF Task
  <2>2. CASE disk[f] # Absent
    <3> DEFINE o == [file |-> f, stamp |-> stamp[f]]
    <3>1. t = [task[j] EXCEPT !.todo = @ \ {f}, !.open = {o}]
      BY <2>2 DEF Reached
    <3>2. o \in [file : File, stamp : 0..MaxEdits] /\ o.file = f /\ o.stamp = stamp[f]
      BY <1>4
    <3> HIDE DEF o, t
    <3>3. /\ t \in Task /\ t.pc = "collecting" /\ t.todo = task[j].todo \ {f}
          /\ t.files = task[j].files /\ t.seen = task[j].seen /\ t.gen = task[j].gen
          /\ t.open = {o}
      BY <1>1, <3>1, <3>2 DEF Task
    <3> QED BY <2>2, <3>2, <3>3
  <2> QED BY <2>1, <2>2
<1>6. task' = [task EXCEPT ![j] = t]
  BY <1>3
<1> HIDE DEF t
<1>7. Reads(t)
  <2>1. \A d, e \in t.files : d.file = e.file => d = e
    BY <1>2, <1>5 DEF Reads
  <2>2. \A e \in t.files : e.file \notin t.todo /\ e.text \in t.seen[e.file]
    BY <1>2, <1>5 DEF Reads
  <2>3. \A o \in t.open : o.file \notin t.todo /\ \A e \in t.files : e.file # o.file
    BY <1>2, <1>5 DEF Reads
  <2>4. \A o, p \in t.open : o = p
    BY <1>5
  <2>5. ASSUME NEW g \in File
        PROVE  \/ g \in t.todo \/ \E o \in t.open : o.file = g
               \/ \E e \in t.files : e.file = g
               \/ Absent \in t.seen[g]
    BY <1>1, <1>2, <1>4, <1>5 DEF Reads, Watches
  <2> QED BY <2>1, <2>2, <2>3, <2>4, <2>5 DEF Reads
<1>8. Watches(t)
  BY <1>1, <1>2, <1>4, <1>5 DEF Watches
<1>9. TaskOK(t)
  BY <1>1, <1>5, <1>7, <1>8 DEF TaskOK
<1> QED BY <1>1, <1>5, <1>9, <1>6, CollectMoves DEF OpenFile

\* What a reused entry holds is what was read.
LEMMA ReuseIsExact ==
    ASSUME NEW f, NEW text, NEW gen, Reusable(f, text, gen) # {}
    PROVE  (CHOOSE r \in Reusable(f, text, gen) : TRUE).text = text
  BY DEF Reusable

\* A file has been read: it was on disk if it is not torn, and torn reads fail.
LEMMA ReadInv == ASSUME Inv, NEW j \in Job, ReadFile(j) PROVE Inv'
<1>1. /\ task[j] \in Task /\ TaskOK(task[j]) /\ task[j].pc = "collecting"
      /\ disk \in [File -> Content] /\ stamp \in [File -> 0..MaxEdits]
  BY Working DEF ReadFile
<1>2. Reads(task[j]) /\ Watches(task[j])
  BY <1>1 DEF TaskOK
<1>3. PICK o \in task[j].open :
        LET text == IF stamp[o.file] = o.stamp THEN disk[o.file] ELSE Torn
        IN  task' = IF Unchanged(o)
                    THEN [task EXCEPT ![j] = Collected(task[j], o.file, text)]
                    ELSE [task EXCEPT ![j].pc = "failing"]
  BY DEF ReadFile
<1>4. CASE ~Unchanged(o)
  BY <1>1, <1>3, <1>4, FailingInv DEF ReadFile
<1>5. CASE Unchanged(o)
  <2> DEFINE e == [file |-> o.file, text |-> disk[o.file]]
             t == Collected(task[j], o.file, disk[o.file])
  <2>1. stamp[o.file] = o.stamp
    BY <1>5 DEF Unchanged
  <2>2. task' = [task EXCEPT ![j] = t]
    BY <1>3, <1>5, <2>1
  <2>3. o.file \in File /\ disk[o.file] \in Text /\ disk[o.file] \in task[j].seen[o.file]
    BY <1>1, <1>2, <1>5 DEF Task, Unchanged, Watches, Content
  <2>4. /\ t \in Task /\ t.pc = "collecting" /\ t.todo = task[j].todo /\ t.open = {}
        /\ t.files = task[j].files \union {e} /\ t.seen = task[j].seen
        /\ t.gen = task[j].gen
    <3>1. t = [task[j] EXCEPT !.open = {}, !.files = @ \union {e}]
      BY ReuseIsExact DEF Collected
    <3>2. e \in [file : File, text : Text \union {Torn}]
      BY <2>3
    <3> HIDE DEF e, t
    <3> QED BY <1>1, <3>1, <3>2 DEF Task
  <2>5. e.file = o.file /\ e.text = disk[o.file]
    OBVIOUS
  <2> HIDE DEF t, e
  <2>6. Reads(t)
    BY <1>1, <1>2, <2>3, <2>4, <2>5 DEF Reads
  <2>7. TaskOK(t)
    BY <1>1, <1>2, <2>4, <2>6 DEF TaskOK, Watches
  <2> QED BY <1>1, <2>2, <2>4, <2>7, CollectMoves DEF ReadFile
<1> QED BY <1>4, <1>5

\* All files have been visited.
LEMMA CollectInv == ASSUME Inv, NEW j \in Job, CollectEnds(j) PROVE Inv'
<1> DEFINE t == [task[j] EXCEPT !.pc = "collected"]
<1>1. /\ task[j] \in Task /\ TaskOK(task[j]) /\ task[j].pc = "collecting"
      /\ task[j].todo = {} /\ task[j].open = {}
  BY Working DEF CollectEnds
<1>2. /\ t \in Task /\ t.pc = "collected" /\ t.todo = {} /\ t.open = {}
      /\ t.files = task[j].files /\ t.seen = task[j].seen
      /\ t.gen = task[j].gen
  BY <1>1 DEF Task
<1>3. task' = [task EXCEPT ![j] = t]
  BY DEF CollectEnds, Inv, TypeOK
<1> HIDE DEF t
<1>4. TaskOK(t)
  BY <1>1, <1>2 DEF TaskOK, Reads
<1> QED BY <1>1, <1>2, <1>3, <1>4, CollectMoves DEF CollectEnds

\* A job may fail at any time.
LEMMA JobFailsInv == ASSUME Inv, NEW j \in Job, JobFails(j) PROVE Inv'
  BY FailingInv DEF JobFails

\* The index is replaced as a whole, by what the job has read.
LEMMA InstallInv == ASSUME Inv, NEW j \in Job, Install(j) PROVE Inv'
<1> DEFINE t == task[j]
<1>1. /\ j \in Alive /\ status.job = j /\ t \in Task /\ TaskOK(t) /\ t.pc = "collected"
      /\ status \in Status /\ faults \in 0..MaxFaults
  BY Working DEF Install
<1>2. CASE status.job = j /\ status.state = "building"
  <2>1. /\ rows' = Installed(j) /\ witness' = t.seen /\ task' = [task EXCEPT ![j] = NoTask]
        /\ status' = [status EXCEPT !.state = "ready", !.active = t.gen, !.index = j]
        /\ UNCHANGED <<registered, disk, stamp, restarts, faults>>
    BY <1>2 DEF Install
  <2>2. TaskInv' /\ task' \in [Job -> Task]
    BY <2>1, NoTaskTyped, OneTaskMoves DEF Inv
  <2>3. /\ status' \in Status /\ status'.index = j /\ status'.active = t.gen
    BY <1>1, <2>1 DEF Status, Task, Job
  <2>4. Reads(t) /\ t.todo = {} /\ t.open = {}
    BY <1>1 DEF TaskOK
  <2>5. OneJob'
    <3> SUFFICES ASSUME NEW i \in Alive' PROVE FALSE
      BY DEF OneJob
    <3>1. i # j
      BY <2>1, NoTaskTyped DEF Alive, NoTask, Inv, TypeOK
    <3>2. i \in Alive
      BY <2>1, <3>1 DEF Alive, Inv, TypeOK
    <3> QED BY <1>1, <3>1, <3>2 DEF Inv, OneJob
  <2>6. NoRowsLeftBehind'
    BY <2>1, <2>3 DEF NoRowsLeftBehind, Installed
  <2>7. IndexInv'
    <3> SUFFICES ASSUME NEW f \in File
                 PROVE  /\ \A r \in rows' : r.file = f => r.text \in witness'[f]
                        /\ (\E r \in rows' : r.file = f) \/ Absent \in witness'[f]
      BY DEF IndexInv
    <3>1. \A r \in rows' : r.file = f => r.text \in witness'[f]
      BY <2>1, <2>4 DEF Installed, Reads
    <3>2. (\E r \in rows' : r.file = f) \/ Absent \in witness'[f]
      <4>1. CASE \E e \in t.files : e.file = f
        <5>1. PICK e \in t.files : e.file = f
          BY <4>1
        <5>2. [index |-> j, gen |-> t.gen, file |-> e.file, text |-> e.text] \in rows'
          BY <2>1 DEF Installed
        <5> QED BY <5>1, <5>2
      <4>2. CASE Absent \in t.seen[f]
        BY <2>1, <4>2
      <4> QED BY <2>4, <4>1, <4>2 DEF Reads
    <3> QED BY <3>1, <3>2
  <2>8. rows' \subseteq Row /\ \A q, r \in rows' : q.file = r.file /\ q.index = r.index => q = r
    <3>1. t.gen \in Generation
      BY <1>1 DEF TaskOK
    <3>2. rows' \subseteq Row
      BY <1>1, <2>1, <3>1 DEF Installed, Row, Task
    <3>3. \A q, r \in rows' : q.file = r.file => q = r
      BY <2>1, <2>4 DEF Installed, Reads
    <3> QED BY <3>2, <3>3
  <2>9. TypeOK'
    <3>1. witness' \in [File -> SUBSET Content]
      BY <1>1, <2>1 DEF Task
    <3> QED BY <2>1, <2>2, <2>3, <2>8, <3>1 DEF Inv, TypeOK
  <2> QED BY <2>2, <2>5, <2>6, <2>7, <2>9 DEF Inv
<1>3. CASE ~(status.job = j /\ status.state = "building")
  BY <1>1, <1>3, FailingInv DEF Install
<1> QED BY <1>2, <1>3

\* The failure is recorded, or not.
LEMMA FailInv == ASSUME Inv, NEW j \in Job, Fail(j) PROVE Inv'
<1>1. /\ j \in Alive /\ status.job = j /\ status \in Status /\ faults \in 0..MaxFaults
  BY Working DEF Fail
<1>2. /\ NoTask \in Task /\ TaskOK(NoTask) /\ NoTask.pc = "none"
      /\ task' = [task EXCEPT ![j] = NoTask]
      /\ UNCHANGED <<registered, disk, stamp, rows, witness, restarts>>
  BY NoTaskTyped DEF Fail, NoTask
<1>3. faults' \in 0..MaxFaults
  BY <1>1, BoundsAssumption DEF Fail
<1>4. /\ status' \in Status /\ status'.job = status.job
      /\ status'.index = status.index /\ status'.active = status.active
  BY <1>1 DEF Fail, Status
<1> QED BY <1>1, <1>2, <1>3, <1>4, JobMoves

\* An edit is seen by the task that reads, and outdates what it has open.
LEMMA EditInv == ASSUME Inv, NEW f \in File, Edit(f) PROVE Inv'
<1>1. /\ disk \in [File -> Content] /\ stamp \in [File -> 0..MaxEdits]
      /\ task \in [Job -> Task]
  BY DEF Inv, TypeOK
<1>2. PICK c \in Content : disk' = [disk EXCEPT ![f] = c]
  BY DEF Edit
<1>3. /\ stamp' \in [File -> 0..MaxEdits] /\ disk' \in [File -> Content]
      /\ stamp'[f] = stamp[f] + 1 /\ disk'[f] = c
      /\ \A g \in File \ {f} : stamp'[g] = stamp[g] /\ disk'[g] = disk[g]
  BY <1>1, <1>2, BoundsAssumption DEF Edit
<1>4. ASSUME NEW i \in Job
      PROVE  task'[i] \in Task /\ TaskOK(task[i])' /\ task'[i].pc = task[i].pc
  <2> DEFINE t == [task[i] EXCEPT !.seen[f] = @ \union {c}]
  <2>1. CASE task[i].pc = "collecting"
    <3>1. task'[i] = t
      BY <1>3, <2>1 DEF Edit
    <3>2. task[i] \in Task /\ Reads(task[i]) /\ Watches(task[i])
      BY <1>1, <2>1 DEF Inv, TaskInv, TaskOK
    <3>3. /\ t \in Task /\ t.pc = "collecting" /\ t.todo = task[i].todo
          /\ t.open = task[i].open /\ t.files = task[i].files
          /\ t.seen = [task[i].seen EXCEPT ![f] = @ \union {c}]
          /\ t.gen = task[i].gen
      BY <2>1, <3>2 DEF Task
    <3> HIDE DEF t
    <3>4. \A g \in File : task[i].seen[g] \subseteq t.seen[g]
      BY <3>2, <3>3 DEF Task
    <3>5. t.files \subseteq [file : File, text : Text \union {Torn}]
          /\ t.open \subseteq [file : File, stamp : 0..MaxEdits]
      BY <3>3 DEF Task
    <3>6. Reads(t)
      BY <3>2, <3>3, <3>4, <3>5 DEF Reads
    <3>7. \A g \in File : disk'[g] \in t.seen[g]
      BY <1>3, <3>2, <3>3, <3>4 DEF Watches, Task
    <3>8. \A o \in t.open : /\ o.stamp <= stamp'[o.file]
                            /\ o.stamp = stamp'[o.file] => disk'[o.file] # Absent
      BY <1>1, <1>3, <3>2, <3>3, <3>5 DEF Watches
    <3> QED BY <2>1, <3>1, <3>3, <3>6, <3>7, <3>8 DEF TaskOK, Watches, Inv, TaskInv
  <2>2. CASE task[i].pc # "collecting"
    <3>1. task'[i] = task[i]
      BY <2>2 DEF Edit
    <3> QED BY <1>1, <2>2, <3>1 DEF Inv, TaskInv, TaskOK
  <2> QED BY <2>1, <2>2
<1>5. TaskInv' /\ task' \in [Job -> Task]
  BY <1>4 DEF TaskInv, Edit
<1>6. TypeOK'
  BY <1>3, <1>5 DEF Inv, TypeOK, Edit
<1>7. OneJob' /\ NoRowsLeftBehind' /\ IndexInv'
  BY <1>4 DEF Inv, Edit, OneJob, Alive, Running, NoRowsLeftBehind, IndexInv
<1> QED BY <1>5, <1>6, <1>7 DEF Inv

------------------------------------------------------------------------------
\* The inductive invariant holds in every reachable state.
THEOREM RagInvariance == Spec => []Inv
<1>1. ASSUME Inv, [Next]_vars PROVE Inv'
  <2>1. ASSUME Next PROVE Inv'
    BY <1>1, <2>1, StartInv, RestartInv, ChangeInv, MarkInv, OpenInv, ReadInv, CollectInv,
       JobFailsInv, InstallInv, FailInv, EditInv DEF Next, JobStep
  <2> QED BY <1>1, <2>1, StutterInv
<1> QED BY <1>1, InitInv, PTL DEF Spec

\* Type correctness, and the key of the tables.
THEOREM RagTyped == Spec => []TypeOK
  BY RagInvariance, PTL DEF Inv

\* At most one job is at work, and the row of rag_status says so.
THEOREM OneJobAtATime == Spec => []OneJob
  BY RagInvariance, PTL DEF Inv

\* The tables hold the rows of the active index generation only.
THEOREM OneIndexIsKept == Spec => []NoRowsLeftBehind
  BY RagInvariance, PTL DEF Inv

\* An answered query has searched a complete index of its generation, in which
\* each file is as it was at some time while the job that built it read the files.
THEOREM AnswersAreHonest == Spec => []AnswerIsHonest
<1>1. Inv => AnswerIsHonest
  <2> SUFFICES ASSUME Inv, NEW g \in Generation, Answers(g), NEW f \in File
               PROVE  Found(g, f) \in witness[f]
    BY DEF AnswerIsHonest
  <2>1. Searched(g) = rows /\ status.index # 0
    BY DEF Inv, NoRowsLeftBehind, Answers, Searched
  <2>2. CASE \E r \in rows : r.file = f
    <3> DEFINE q == CHOOSE r \in rows : r.file = f
    <3>1. q \in rows /\ q.file = f
      BY <2>2
    <3>2. Found(g, f) = q.text
      BY <2>1, <2>2 DEF Found
    <3> HIDE DEF q
    <3> QED BY <2>1, <3>1, <3>2 DEF Inv, IndexInv
  <2>3. CASE ~ \E r \in rows : r.file = f
    BY <2>1, <2>3 DEF Found, Inv, IndexInv
  <2> QED BY <2>2, <2>3
<1> QED BY <1>1, RagInvariance, PTL

\* What a query of a generation finds is replaced by a successful job only.
THEOREM OnlySuccessReplacesAnswers == Spec => OnlySuccessReplaces
<1> DEFINE Kept ==
        \A g \in Generation : Answers(g) =>
            (status'.index = status.index /\ Searched(g)' = Searched(g) /\ Answers(g)')
            \/ (status.state = "building" /\ status'.state = "ready")
<1>1. ASSUME Inv, [Next]_vars PROVE [Kept]_vars
  <2>1. status \in Status
    BY <1>1 DEF Inv, TypeOK
  <2>2. ASSUME rows' = rows, status'.index = status.index,
               status'.active = status.active, status'.state # "ready"
        PROVE  Kept
    BY <2>2 DEF Answers, Searched
  <2>3. ASSUME UNCHANGED <<rows, status>> PROVE Kept
    BY <2>3 DEF Answers, Searched
  <2>4. ASSUME StartRebuild PROVE Kept
    <3>1. rows' = rows /\ status'.index = status.index
          /\ status'.active = status.active /\ status'.state = "queued"
      BY <2>1, <2>4 DEF StartRebuild, Queued, Status
    <3> QED BY <2>2, <3>1
  <2>5. ASSUME Restart PROVE Kept
    <3>1. rows' = rows /\ status'.index = status.index /\ status'.active = status.active
          /\ (status' = status \/ status'.state = "failed")
      BY <2>1, <2>5 DEF Restart, Recover, Status
    <3> QED BY <2>2, <2>3, <3>1
  <2>6. ASSUME NEW j \in Job, MarkBuilding(j) PROVE Kept
    <3>1. rows' = rows /\ status'.index = status.index /\ status'.active = status.active
          /\ (status' = status \/ status'.state = "building")
      BY <2>1, <2>6 DEF MarkBuilding, Status
    <3> QED BY <2>2, <2>3, <3>1
  <2>7. ASSUME NEW j \in Job, Install(j) PROVE Kept
    <3>1. CASE status.job = j /\ status.state = "building"
      <4>1. status'.state = "ready"
        BY <2>1, <2>7, <3>1 DEF Install, Status
      <4> QED BY <3>1, <4>1
    <3>2. CASE ~(status.job = j /\ status.state = "building")
      BY <2>3, <2>7, <3>2 DEF Install
    <3> QED BY <3>1, <3>2
  <2>8. ASSUME NEW j \in Job, Fail(j) PROVE Kept
    <3>1. rows' = rows /\ status'.index = status.index /\ status'.active = status.active
          /\ (status' = status \/ status'.state = "failed")
      BY <2>1, <2>8 DEF Fail, Status
    <3> QED BY <2>2, <2>3, <3>1
  <2>9. ASSUME NEW j \in Job,
               OpenFile(j) \/ ReadFile(j) \/ CollectEnds(j) \/ JobFails(j)
        PROVE  Kept
    BY <2>3, <2>9 DEF OpenFile, ReadFile, CollectEnds, JobFails
  <2>10. ASSUME ChangeWorkspace \/ \E f \in File : Edit(f) PROVE Kept
    BY <2>3, <2>10 DEF ChangeWorkspace, Edit
  <2> HIDE DEF Kept
  <2> QED BY <1>1, <2>4, <2>5, <2>6, <2>7, <2>8, <2>9, <2>10 DEF Next, JobStep
<1>2. Inv /\ [Next]_vars => [Kept]_vars
  BY <1>1
<1> QED BY <1>2, RagInvariance, PTL DEF Spec, OnlySuccessReplaces

=============================================================================
