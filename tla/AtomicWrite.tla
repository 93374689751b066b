------------------------------ MODULE AtomicWrite -------------------------------
(****************************************************************************)
(* WorkspaceMutator (engine/core/workspace/mutations.py): one proposal, its *)
(* preview, and calls of apply, against an editor that knows nothing of it. *)
(*                                                                          *)
(* Every look at the file system whose answer the write relies on is a step *)
(* of its own; Validate and PrepareParent merge looks that are repeated     *)
(* later.  The target's path names a directory, maybe through a link; the   *)
(* editor changes the file and may put another directory or a link in place *)
(* of it.  A directory that is missing is an empty one: mkdir makes it.     *)
(* The repository's root stays.                                             *)
(****************************************************************************)
EXTENDS Naturals

CONSTANTS
    Dir, NoDir,
    Text, Absent,       \* contents of the target; Absent: there is no such file
    MaxTurmoil,         \* bound: edits, moves, failing system calls and crashes
    MaxApplies          \* bound: calls of apply

ASSUME NoDirAssumption == NoDir \notin Dir
ASSUME AbsentAssumption == Absent \notin Text
ASSUME WriteBounds == MaxTurmoil \in Nat /\ MaxApplies \in Nat

VARIABLES
    path,               \* what the parent's path names
    files,              \* the target in each directory
    temp,               \* where the temporary file is, NoDir when there is none
    proposal,           \* the two texts; a new file has before = Absent, and
                        \* after = Absent stands for no proposal yet
    issued, consumed,   \* _issued and _consumed, for this proposal
    applying,               \* the call of apply under way
    overtaken, moved,   \* history: an edit since the last look at the text, a
                        \* directory changed since the last look at its identity
    report,             \* what the last call of apply has said
    applies, turmoil

writeVars == <<path, files, temp, proposal, issued, consumed, applying, overtaken, moved,
               report, applies, turmoil>>

Content == Text \union {Absent}
Apply == [pc : {"idle", "prepare", "stage", "identity", "mode", "expect", "links", "again",
                "commit", "finally"},
          parent : Dir \union {NoDir},
          committed : BOOLEAN,
          outcome : {"none", "applied", "conflict", "invalid"}]
NoApply == [pc |-> "idle", parent |-> NoDir, committed |-> FALSE, outcome |-> "none"]

WriteTypeOK ==
    /\ path \in [dir : Dir, link : BOOLEAN]
    /\ files \in [Dir -> Content]
    /\ temp \in Dir \union {NoDir}
    /\ proposal \in [before : Content, after : Content]
    /\ issued \in BOOLEAN /\ consumed \in BOOLEAN
    /\ applying \in Apply
    /\ overtaken \in BOOLEAN /\ moved \in BOOLEAN
    /\ report \in {"none", "applied", "conflict", "invalid", "lost"}
    /\ applies \in 0..MaxApplies /\ turmoil \in 0..MaxTurmoil

WriteInit ==
    /\ \E d \in Dir : path = [dir |-> d, link |-> FALSE]
    /\ files \in [Dir -> Content]
    /\ temp = NoDir
    /\ proposal = [before |-> Absent, after |-> Absent]
    /\ issued = FALSE /\ consumed = FALSE
    /\ applying = NoApply /\ overtaken = FALSE /\ moved = FALSE
    /\ report = "none" /\ applies = 0 /\ turmoil = 0

TargetText == files[path.dir]
Disturbed == turmoil < MaxTurmoil /\ turmoil' = turmoil + 1
Quiet == UNCHANGED turmoil
------------------------------------------------------------------------------
\* The editor writes, makes or removes the file,
Edit(content) ==
    /\ Disturbed
    /\ content # TargetText
    /\ files' = [files EXCEPT ![path.dir] = content]
    /\ overtaken' = TRUE
    /\ UNCHANGED <<path, temp, proposal, issued, consumed, applying, moved, report, applies>>

\* or puts another directory, or a link to one, in the parent's place.
Move(place) ==
    /\ Disturbed
    /\ place # path
    /\ path' = place
    /\ overtaken' = TRUE /\ moved' = TRUE
    /\ UNCHANGED <<files, temp, proposal, issued, consumed, applying, report, applies>>

\* preview_replace of a file that is there; preview_write of one that is not.
Preview(after) ==
    /\ proposal.after = Absent /\ ~path.link
    /\ proposal' = [before |-> TargetText, after |-> after]
    /\ issued' = TRUE
    /\ UNCHANGED <<path, files, temp, consumed, applying, overtaken, moved, report, applies, turmoil>>

\* discard; and restore, by which the service has a proposal it has kept applied
\* after a restart.
Discard ==
    /\ issued /\ applying.pc = "idle"
    /\ issued' = FALSE
    /\ UNCHANGED <<path, files, temp, proposal, consumed, applying, overtaken, moved, report,
                   applies, turmoil>>

Restore ==
    /\ ~issued /\ proposal.after # Absent
    /\ issued' = TRUE
    /\ UNCHANGED <<path, files, temp, proposal, consumed, applying, overtaken, moved, report,
                   applies, turmoil>>

------------------------------------------------------------------------------
\* The next look, or the error the call ends with.
Goes(pc) == applying' = [applying EXCEPT !.pc = pc]
Ends(outcome) == applying' = [applying EXCEPT !.pc = "finally", !.outcome = outcome]

\* Mistaken: whether it was applied before is left to the text to tell.
TextOnly == ~issued \/ path.link

\* What validate refuses, apart from the text.
NotOurs == consumed \/ ~issued \/ path.link

\* apply: validate, with the diff's read of the file and _assert_expected_state,
Validate ==
    /\ applying.pc = "idle" /\ proposal.after # Absent /\ applies < MaxApplies
    /\ applies' = applies + 1
    /\ report' = "none"
    /\ applying' = [NoApply EXCEPT
                   !.pc = IF NotOurs \/ TargetText # proposal.before THEN "finally" ELSE "prepare",
                   !.outcome = CASE NotOurs -> "invalid"
                                 [] TargetText # proposal.before /\ ~NotOurs -> "conflict"
                                 [] OTHER -> "none"]
    /\ UNCHANGED <<path, files, temp, proposal, issued, consumed, overtaken, moved, turmoil>>

\* mkdir, _assert_no_links, the parent's identity;
PrepareParent ==
    /\ applying.pc = "prepare"
    /\ \/ ~path.link /\ Quiet
          /\ applying' = [applying EXCEPT !.pc = "stage", !.parent = path.dir]
       \/ path.link /\ Quiet /\ Ends("invalid")
       \/ Disturbed /\ Ends("invalid")
    /\ UNCHANGED <<path, files, temp, proposal, issued, consumed, overtaken, moved, report, applies>>

\* the temporary file, complete and on disk, wherever the path leads now;
Stage ==
    /\ applying.pc = "stage"
    /\ \/ Quiet /\ temp' = path.dir /\ Goes("identity")
       \/ Disturbed /\ temp' \in {NoDir, path.dir} /\ Ends("invalid")
    /\ UNCHANGED <<path, files, proposal, issued, consumed, overtaken, moved, report, applies>>

\* _assert_same_identity, twice;
SameIdentity(pc, next) ==
    /\ applying.pc = pc
    /\ IF path.dir = applying.parent THEN Goes(next) ELSE Ends("conflict")
    /\ moved' = FALSE
    /\ UNCHANGED <<path, files, temp, proposal, issued, consumed, overtaken, report, applies, turmoil>>

\* chmod by path, when there is a target to take the mode from;
Mode ==
    /\ applying.pc = "mode"
    /\ IF TargetText = Absent \/ temp = path.dir
       THEN \/ Quiet /\ Goes("expect")
            \/ Disturbed /\ TargetText # Absent /\ Ends("invalid")
       ELSE Quiet /\ Ends("invalid")
    /\ UNCHANGED <<path, files, temp, proposal, issued, consumed, overtaken, moved, report, applies>>

\* Mistaken: a new file is only checked for by os.link.
ExpectedIfThere == proposal.before = Absent \/ TargetText # Absent

\* _assert_expected_state: no file, or the file that was previewed;
Expected == TargetText = proposal.before

Expect ==
    /\ applying.pc = "expect"
    /\ IF Expected THEN Goes("links") ELSE Ends("conflict")
    /\ overtaken' = FALSE
    /\ UNCHANGED <<path, files, temp, proposal, issued, consumed, moved, report, applies, turmoil>>

\* _assert_no_links again;
NoLinks ==
    /\ applying.pc = "links"
    /\ IF path.link THEN Ends("invalid") ELSE Goes("again")
    /\ UNCHANGED <<path, files, temp, proposal, issued, consumed, overtaken, moved, report,
                   applies, turmoil>>

Committed == applying' = [applying EXCEPT !.pc = "finally", !.committed = TRUE, !.outcome = "applied"]

\* os.link makes a new file and fails when there is one; os.replace overwrites.
\* Both go by path: the temporary file has to be there.
CommitWrite ==
    /\ applying.pc = "commit"
    /\ \/ /\ Quiet /\ temp = path.dir
          /\ proposal.before = Absent => TargetText = Absent
          /\ files' = [files EXCEPT ![path.dir] = proposal.after]
          /\ temp' = IF proposal.before = Absent THEN temp ELSE NoDir
          /\ Committed
       \/ /\ Quiet /\ temp = path.dir /\ proposal.before = Absent /\ TargetText # Absent
          /\ Ends("conflict") /\ UNCHANGED <<files, temp>>
       \/ /\ IF temp = path.dir THEN Disturbed ELSE Quiet
          /\ Ends("invalid") /\ UNCHANGED <<files, temp>>
    /\ UNCHANGED <<path, proposal, issued, consumed, overtaken, moved, report, applies>>

\* Mistaken: an error after the commit is reported like one before it.
ReportsErrors(failing) == IF failing THEN "invalid" ELSE applying.outcome

\* What apply says when a system call fails on the way out, or none does.
Reported(failing) == IF failing /\ ~applying.committed THEN "invalid" ELSE applying.outcome

\* The rest: the directory is synced, the temporary file removed by its path;
\* errors here change nothing any more.
Finally ==
    /\ applying.pc = "finally"
    /\ \/ Quiet /\ report' = Reported(FALSE)
          /\ temp' = IF temp = path.dir THEN NoDir ELSE temp
       \/ Disturbed /\ applying.committed /\ report' = Reported(TRUE)
          /\ temp' \in {temp, NoDir}
       \/ Disturbed /\ ~applying.committed /\ report' = Reported(FALSE) /\ UNCHANGED temp
    /\ consumed' = (consumed \/ report' = "applied")
    /\ applying' = NoApply
    /\ UNCHANGED <<path, files, proposal, issued, overtaken, moved, applies>>

\* The process dies; so do both registers.
MutatorCrash ==
    /\ Disturbed
    /\ applying' = NoApply
    /\ issued' = FALSE /\ consumed' = FALSE
    /\ report' = IF applying.pc = "idle" THEN report ELSE "lost"
    /\ UNCHANGED <<path, files, temp, proposal, overtaken, moved, applies>>

WriteNext ==
    \/ \E content \in Content : Edit(content)
    \/ \E place \in [dir : Dir, link : BOOLEAN] : Move(place)
    \/ \E after \in Text : Preview(after)
    \/ Discard \/ Restore \/ Validate \/ PrepareParent \/ Stage \/ Mode \/ Expect \/ NoLinks \/ CommitWrite \/ Finally
    \/ SameIdentity("identity", "mode") \/ SameIdentity("again", "commit")
    \/ MutatorCrash

WriteSpec == WriteInit /\ [][WriteNext]_writeVars

------------------------------------------------------------------------------
Commits == applying.pc = "commit" /\ applying'.committed
Returns == applying.pc = "finally" /\ report' # "lost" /\ applying'.pc = "idle"

CompareAndSet ==
    /\ Commits => /\ ~consumed
                  /\ TargetText = proposal.before \/ (overtaken /\ proposal.before # Absent)
                  /\ path.dir = applying.parent \/ moved
    /\ Returns => (report' = "applied" <=> applying.committed)

\* apply is a compare-and-set, whatever the editor does between its looks and
\* wherever it fails: it replaces the text that was previewed, in the directory
\* that was checked, unless the editor came in after the last look, and even then
\* it overwrites no file where there was none; it writes a proposal once; and it
\* reports success exactly when it has written (_atomic_write).
WritesLikeCompareAndSet == [][CompareAndSet]_writeVars
==============================================================================
