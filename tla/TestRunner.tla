------------------------------- MODULE TestRunner -------------------------------
(***************************************************************************)
(* SafeTestRunner.run (engine/core/execution/test_runner.py): one run of a *)
(* test profile, while the repository's lock is held.  The process writes  *)
(* to two pipes, may leave a helper behind that holds them open - in its   *)
(* process group or in one of its own - and may refuse to die.             *)
(*                                                                         *)
(* Output is counted, not read.  Timers may fire whenever what they wait   *)
(* for has not happened; the timeout of the run also when it just has.     *)
(***************************************************************************)
EXTENDS Naturals

CONSTANTS
    MaxOutput,      \* max_output_bytes
    MaxWritten      \* bound: bytes written to each pipe

ASSUME OutputAssumption == MaxOutput \in Nat /\ MaxWritten \in Nat

Pipe == {"stdout", "stderr"}
Min2(a, b) == IF a < b THEN a ELSE b

VARIABLES
    process,        \* the child: running, ended, or ended and seen (returncode)
    helper,         \* what else has the pipes open
    stubborn,       \* a signal does not end the child
    written, unread,
    budget,         \* _OutputBudget.remaining
    reader,         \* the two tasks of _read_limited
    runner,         \* the coroutine run
    cancelled       \* the caller has cancelled it (once)

runnerVars == <<process, helper, stubborn, written, unread, budget, reader, runner, cancelled>>

Results == {"passed", "failed", "timed_out"}
NotSoFar == [pc |-> "reading", kept |-> 0, cut |-> FALSE]

RunnerTypeOK ==
    /\ process \in {"running", "ended", "seen"}
    /\ helper \in {"none", "group", "escaped"}
    /\ stubborn \in BOOLEAN /\ cancelled \in BOOLEAN
    /\ written \in [Pipe -> 0..MaxWritten]
    /\ unread \in [Pipe -> 0..MaxWritten]
    /\ \A p \in Pipe : unread[p] =< written[p]
    /\ budget \in 0..MaxOutput
    /\ reader \in [Pipe -> [pc : {"reading", "done", "cancelled"}, kept : 0..MaxOutput, cut : BOOLEAN]]
    /\ runner \in [pc : {"waiting", "killing", "reaping", "lastReap", "killed", "collecting",
                         "returned", "raised"},
                   why : {"none", "timeout", "error"},
                   treeTerminated : BOOLEAN,
                   status : Results \union {"none", "termination_failed"}]

RunnerInit ==
    /\ process = "running" /\ helper \in {"none", "group", "escaped"}
    /\ stubborn \in BOOLEAN
    /\ written = [p \in Pipe |-> 0] /\ unread = written
    /\ budget = MaxOutput
    /\ reader = [p \in Pipe |-> NotSoFar]
    /\ runner = [pc |-> "waiting", why |-> "none", treeTerminated |-> TRUE, status |-> "none"]
    /\ cancelled = FALSE

systemVars == <<process, helper, stubborn, written, unread>>
outputVars == <<budget, reader>>
------------------------------------------------------------------------------
\* Whoever has a pipe open can write to it, and keeps its reader from the end.
HeldOpen == process = "running" \/ helper # "none"

Output(p) ==
    /\ HeldOpen /\ written[p] < MaxWritten
    /\ written' = [written EXCEPT ![p] = @ + 1]
    /\ unread' = [unread EXCEPT ![p] = @ + 1]
    /\ UNCHANGED <<process, helper, stubborn, outputVars, runner, cancelled>>

ProcessEnds ==
    /\ process = "running"
    /\ process' = "ended"
    /\ UNCHANGED <<helper, stubborn, written, unread, outputVars, runner, cancelled>>

HelperEnds ==
    /\ helper # "none"
    /\ helper' = "none"
    /\ UNCHANGED <<process, stubborn, written, unread, outputVars, runner, cancelled>>

\* The event loop notices: process.returncode is set and wait_task ends.
Noticed ==
    /\ process = "ended"
    /\ process' = "seen"
    /\ UNCHANGED <<helper, stubborn, written, unread, outputVars, runner, cancelled>>

\* Mistaken: what is dropped is charged as well.
ChargeAll(n) == budget - n

\* retain, under the budget's lock: what remains is shared by the two readers.
Charge(n) == budget - Min2(n, budget)

ReadChunk(p) ==
    /\ reader[p].pc = "reading" /\ unread[p] > 0
    /\ \E n \in 1..unread[p] :
          /\ unread' = [unread EXCEPT ![p] = @ - n]
          /\ budget' = Charge(n)
          /\ reader' = [reader EXCEPT ![p].kept = @ + Min2(n, budget),
                                      ![p].cut = @ \/ budget < n]
    /\ UNCHANGED <<process, helper, stubborn, written, runner, cancelled>>

ReadEnd(p) ==
    /\ reader[p].pc = "reading" /\ unread[p] = 0 /\ ~HeldOpen
    /\ reader' = [reader EXCEPT ![p].pc = "done"]
    /\ UNCHANGED <<systemVars, budget, runner, cancelled>>

ReadersCancelled ==
    [p \in Pipe |-> IF reader[p].pc = "reading" THEN [reader[p] EXCEPT !.pc = "cancelled"]
                    ELSE reader[p]]

------------------------------------------------------------------------------
\* The process has ended in time; its output is collected.
Waited ==
    /\ runner.pc = "waiting" /\ process = "seen"
    /\ \E status \in {"passed", "failed"} :
          runner' = [runner EXCEPT !.pc = "collecting", !.status = status]
    /\ UNCHANGED <<systemVars, outputVars, cancelled>>

RunTimesOut ==
    /\ runner.pc = "waiting"
    /\ runner' = [runner EXCEPT !.pc = "killing", !.why = "timeout"]
    /\ UNCHANGED <<systemVars, outputVars, cancelled>>

\* Wherever it waits, the caller may cancel it.
Cancel ==
    /\ ~cancelled /\ cancelled' = TRUE
    /\ runner.pc \in {"waiting", "reaping", "lastReap", "collecting"}
    /\ runner.why # "error"
    /\ runner' = [runner EXCEPT !.pc = "killing", !.why = "error", !.status = "none"]
    /\ UNCHANGED <<systemVars, outputVars>>

\* killpg ends what is in the group.
KillGroup(after) == helper' = (IF helper = "group" THEN "none" ELSE helper) /\ process' = after

\* _kill_and_reap: nothing is signalled when the process is known to have ended;
\* when the group cannot be signalled, the process is, and the tree is given up.
KillAndReap ==
    /\ runner.pc = "killing"
    /\ LET after == IF process = "running" /\ ~stubborn THEN "ended" ELSE process
       IN  \/ /\ process = "seen"
              /\ runner' = [runner EXCEPT !.pc = "reaping", !.treeTerminated = TRUE]
              /\ UNCHANGED <<process, helper>>
           \/ /\ process # "seen" /\ KillGroup(after)
              /\ runner' = [runner EXCEPT !.pc = "reaping", !.treeTerminated = TRUE]
           \/ /\ process # "seen" /\ process' = after /\ UNCHANGED helper
              /\ runner' = [runner EXCEPT !.pc = "reaping", !.treeTerminated = FALSE]
    /\ UNCHANGED <<stubborn, written, unread, outputVars, cancelled>>

Reaped ==
    /\ runner.pc \in {"reaping", "lastReap"} /\ process = "seen"
    /\ runner' = [runner EXCEPT !.pc = "killed"]
    /\ UNCHANGED <<systemVars, outputVars, cancelled>>

\* Five seconds, another signal, one more second.
ReapTimesOut ==
    /\ process # "seen"
    /\ \/ /\ runner.pc = "reaping"
          /\ runner' = [runner EXCEPT !.pc = "lastReap"]
       \/ /\ runner.pc = "lastReap"
          /\ runner' = [runner EXCEPT !.pc = "killed", !.treeTerminated = FALSE]
    /\ process' \in {process, IF process = "running" /\ ~stubborn THEN "ended" ELSE process}
    /\ UNCHANGED <<helper, stubborn, written, unread, outputVars, cancelled>>

\* After the kill: the output of what timed out is collected, unless it may still
\* be running; otherwise the exception goes on.
AfterKill ==
    /\ runner.pc = "killed"
    /\ \/ /\ runner.why = "timeout" /\ runner.treeTerminated
          /\ runner' = [runner EXCEPT !.pc = "collecting", !.status = "timed_out"]
          /\ UNCHANGED reader
       \/ /\ runner.why = "timeout" /\ ~runner.treeTerminated
          /\ runner' = [runner EXCEPT !.pc = "returned", !.status = "termination_failed"]
          /\ reader' = ReadersCancelled
       \/ /\ runner.why = "error"
          /\ runner' = [runner EXCEPT !.pc = "raised"]
          /\ reader' = ReadersCancelled
    /\ UNCHANGED <<systemVars, budget, cancelled>>

\* Mistaken: five seconds are enough, whether the readers are done or not.
LongEnough == TRUE

BothDone == \A p \in Pipe : reader[p].pc = "done"

Collected ==
    /\ runner.pc = "collecting" /\ BothDone
    /\ runner' = [runner EXCEPT !.pc = "returned"]
    /\ UNCHANGED <<systemVars, outputVars, cancelled>>

\* Mistaken: there is no limit to how long the pipes may stay open.
NeverLate == FALSE

TooLate == \E p \in Pipe : reader[p].pc # "done"

\* _collect_readers: the pipes were not closed in five seconds, RuntimeError.
CollectTimesOut ==
    /\ runner.pc = "collecting" /\ TooLate
    /\ reader' = ReadersCancelled
    /\ runner' = [runner EXCEPT !.pc = "killing", !.why = "error", !.status = "none"]
    /\ UNCHANGED <<systemVars, budget, cancelled>>

RunnerSteps == Waited \/ KillAndReap \/ Reaped \/ AfterKill \/ Collected
RunnerTimers == RunTimesOut \/ ReapTimesOut \/ CollectTimesOut

RunnerNext ==
    \/ \E p \in Pipe : Output(p) \/ ReadChunk(p) \/ ReadEnd(p)
    \/ ProcessEnds \/ HelperEnds \/ Noticed
    \/ Waited \/ RunTimesOut \/ Cancel \/ KillAndReap \/ Reaped \/ ReapTimesOut \/ AfterKill
    \/ Collected \/ CollectTimesOut

\* The coroutine goes on when it can, and its timers fire; the tests are free.
RunnerFairness == WF_runnerVars(RunnerSteps) /\ WF_runnerVars(RunnerTimers)

RunnerSpec == RunnerInit /\ [][RunnerNext]_runnerVars /\ RunnerFairness

------------------------------------------------------------------------------
Produced == written["stdout"] + written["stderr"]
Kept == reader["stdout"].kept + reader["stderr"].kept

\* A result that is reported is final: the process has ended, nothing of it has the
\* pipes open, and what was kept is all it wrote, or as much as the limit allows and
\* marked as truncated, however the readers took turns (run, _OutputBudget).
ResultIsComplete ==
    runner.pc = "returned" /\ runner.status \in Results =>
        /\ ~HeldOpen
        /\ Kept = Min2(Produced, MaxOutput)
        /\ (\E p \in Pipe : reader[p].cut) <=> Produced > MaxOutput

\* Every run ends and gives the repository's lock back, also when the process
\* cannot be killed or somebody keeps its pipes open.
RunEndsInTime == <>(runner.pc \in {"returned", "raised"})
==============================================================================
