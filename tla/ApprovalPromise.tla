--------------------------- MODULE ApprovalPromise ---------------------------
(***************************************************************************)
(* What a user who approves or rejects changes relies on, with none of the *)
(* machinery: a change is decided by one human answer, written at most     *)
(* once and only if that answer was yes, and its verdict, once given, is   *)
(* never revised (it may be forgotten).  ApprovalFlow implements this.     *)
(***************************************************************************)
CONSTANT Change

VARIABLES answer, written, verdict

promiseVars == <<answer, written, verdict>>

Verdicts == {"rejected", "failed", "recovery_required", "applied",
             "applied_recovered"}

PromiseInit ==
    /\ answer = [c \in Change |-> "open"]
    /\ written = [c \in Change |-> FALSE]
    /\ verdict = [c \in Change |-> "none"]

\* Verdicts given earlier may be forgotten whenever one is asked for or given.
Forgetting(next) ==
    /\ \A c \in Change : \/ verdict'[c] = next[c]
                         \/ (verdict'[c] = "forgotten" /\ verdict[c] \in Verdicts)
    /\ verdict' \in [Change -> Verdicts \union {"none", "forgotten"}]

Decide(c, yes) ==
    /\ answer[c] = "open"
    /\ answer' = [answer EXCEPT ![c] = IF yes THEN "granted" ELSE "denied"]
    /\ UNCHANGED written
    /\ Forgetting(verdict)

Write(c) ==
    /\ answer[c] = "granted" /\ ~written[c]
    /\ written' = [written EXCEPT ![c] = TRUE]
    /\ UNCHANGED <<answer, verdict>>

\* A verdict claims no more than what happened; after a restart the hash of
\* the file may speak for a change nobody applied, or not know.
Conclude(c) ==
    /\ verdict[c] = "none" /\ answer[c] # "open"
    /\ UNCHANGED <<answer, written>>
    /\ \E v \in Verdicts :
          /\ v = "rejected" => answer[c] = "denied"
          /\ v = "failed" => answer[c] = "granted"
          /\ v = "applied" => written[c]
          /\ Forgetting([verdict EXCEPT ![c] = v])

PromiseNext ==
    \E c \in Change :
        \/ \E yes \in BOOLEAN : Decide(c, yes)
        \/ Write(c)
        \/ Conclude(c)

PromiseSpec == PromiseInit /\ [][PromiseNext]_promiseVars
==============================================================================
