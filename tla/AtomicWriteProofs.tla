---------------------------- MODULE AtomicWriteProofs ----------------------------
(****************************************************************************)
(* WritesLikeCompareAndSet for every set of directories and texts, however  *)
(* often the editor comes in and the mutator is called.  The invariant says *)
(* what each look at the file system still guarantees at the steps after    *)
(* it: the identity from "mode" on, the text from "links" on.               *)
(****************************************************************************)
EXTENDS AtomicWrite, TLAPS

SawTheDirectory == {"mode", "expect", "links", "again", "commit"}
SawTheText == {"links", "again", "commit"}

ProposalExists == applying.pc # "idle" => proposal.after # Absent

InTheDirectory == applying.pc \in SawTheDirectory => path.dir = applying.parent \/ moved

TextAsPreviewed == applying.pc \in SawTheText => TargetText = proposal.before \/ overtaken

NotWrittenBefore == applying.pc \notin {"idle", "finally"} => ~consumed

SaysWhatItDid ==
    /\ applying.committed => applying.pc = "finally"
    /\ applying.pc = "finally" => (applying.outcome = "applied" <=> applying.committed)

Looked == ProposalExists /\ InTheDirectory /\ TextAsPreviewed /\ NotWrittenBefore /\ SaysWhatItDid

Inv == WriteTypeOK /\ Looked

LEMMA InitInv == WriteInit => Inv
<1> SUFFICES ASSUME WriteInit PROVE Inv
  OBVIOUS
<1>1. applying = NoApply /\ 0 \in 0..MaxApplies /\ 0 \in 0..MaxTurmoil
  BY WriteBounds DEF WriteInit
<1>2. WriteTypeOK
  <2>1. PICK d \in Dir : path = [dir |-> d, link |-> FALSE]
    BY DEF WriteInit
  <2>2. NoApply \in Apply
    BY DEF NoApply, Apply
  <2>. QED
    BY <1>1, <2>1, <2>2 DEF WriteInit, WriteTypeOK, Content
<1>3. Looked
  BY <1>1 DEF NoApply, Looked, ProposalExists, InTheDirectory, TextAsPreviewed, NotWrittenBefore,
              SaysWhatItDid, SawTheDirectory, SawTheText
<1>. QED
  BY <1>2, <1>3 DEF Inv

\* The editor leaves the call alone; what it may spoil it says it has spoilt.
LEMMA EditorInv ==
  Inv /\ ((\E content \in Content : Edit(content))
          \/ (\E place \in [dir : Dir, link : BOOLEAN] : Move(place))) => Inv'
<1>1. ASSUME Inv, NEW content \in Content, Edit(content) PROVE Inv'
  <2>1. turmoil' \in 0..MaxTurmoil
    BY <1>1, WriteBounds DEF Inv, WriteTypeOK, Edit, Disturbed
  <2>2. WriteTypeOK'
    BY <1>1, <2>1 DEF Inv, WriteTypeOK, Edit
  <2>3. Looked'
    BY <1>1 DEF Inv, Looked, Edit, ProposalExists, InTheDirectory, TextAsPreviewed,
                NotWrittenBefore, SaysWhatItDid
  <2>. QED
    BY <2>2, <2>3 DEF Inv
<1>2. ASSUME Inv, NEW place \in [dir : Dir, link : BOOLEAN], Move(place) PROVE Inv'
  <2>1. turmoil' \in 0..MaxTurmoil
    BY <1>2, WriteBounds DEF Inv, WriteTypeOK, Move, Disturbed
  <2>2. WriteTypeOK'
    BY <1>2, <2>1 DEF Inv, WriteTypeOK, Move
  <2>3. Looked'
    BY <1>2 DEF Inv, Looked, Move, ProposalExists, InTheDirectory, TextAsPreviewed,
                NotWrittenBefore, SaysWhatItDid
  <2>. QED
    BY <2>2, <2>3 DEF Inv
<1>. QED
  BY <1>1, <1>2

\* The two registers and the proposal change between calls only, or harmlessly.
LEMMA RegisterInv == Inv /\ ((\E after \in Text : Preview(after)) \/ Discard \/ Restore) => Inv'
<1>1. ASSUME Inv, NEW after \in Text, Preview(after) PROVE Inv'
  <2>1. applying.pc = "idle"
    BY <1>1 DEF Inv, Looked, ProposalExists, Preview
  <2>2. WriteTypeOK'
    BY <1>1 DEF Inv, WriteTypeOK, Preview, Content, TargetText
  <2>3. Looked'
    BY <1>1, <2>1 DEF Inv, Looked, Preview, ProposalExists, InTheDirectory, TextAsPreviewed,
                NotWrittenBefore, SaysWhatItDid, SawTheDirectory, SawTheText
  <2>. QED
    BY <2>2, <2>3 DEF Inv
<1>2. ASSUME Inv, Discard \/ Restore PROVE Inv'
  <2>1. WriteTypeOK'
    BY <1>2 DEF Inv, WriteTypeOK, Discard, Restore
  <2>2. Looked'
    BY <1>2 DEF Inv, Looked, Discard, Restore, ProposalExists, InTheDirectory, TextAsPreviewed,
                NotWrittenBefore, SaysWhatItDid, TargetText
  <2>. QED
    BY <2>1, <2>2 DEF Inv
<1>. QED
  BY <1>1, <1>2

LEMMA ValidateInv == Inv /\ Validate => Inv'
<1> SUFFICES ASSUME Inv, Validate PROVE Inv'
  OBVIOUS
<1> DEFINE passes == ~NotOurs /\ TargetText = proposal.before
           pc == IF passes THEN "prepare" ELSE "finally"
           outcome == CASE NotOurs -> "invalid"
                        [] TargetText # proposal.before /\ ~NotOurs -> "conflict"
                        [] OTHER -> "none"
<1>1. applying' = [pc |-> pc, parent |-> NoDir, committed |-> FALSE, outcome |-> outcome]
  BY DEF Validate, NoApply
<1>2. outcome \in {"none", "conflict", "invalid"}
  OBVIOUS
<1>3. applies' \in 0..MaxApplies
  BY WriteBounds DEF Inv, WriteTypeOK, Validate
<1>4. passes => ~consumed
  BY DEF NotOurs
<1>5. proposal.after # Absent /\ UNCHANGED <<path, files, temp, proposal, issued, consumed,
                                            overtaken, moved, turmoil>> /\ report' = "none"
  BY DEF Validate
<1> HIDE DEF outcome, passes
<1>6. WriteTypeOK'
  BY <1>1, <1>2, <1>3, <1>5 DEF Inv, WriteTypeOK, Apply
<1>7. Looked'
  BY <1>1, <1>2, <1>4, <1>5 DEF Inv, Looked, ProposalExists, InTheDirectory, TextAsPreviewed,
       NotWrittenBefore, SaysWhatItDid, SawTheDirectory, SawTheText
<1>. QED
  BY <1>6, <1>7 DEF Inv

\* A look that finds something wrong ends the call, and nothing was committed.
LEMMA EndsLooked ==
  ASSUME Inv, NEW outcome \in {"conflict", "invalid"}, Ends(outcome),
         applying.pc \notin {"idle", "finally"},
         UNCHANGED <<path, proposal, consumed>>
  PROVE  applying' \in Apply /\ Looked'
<1>1. /\ applying'.pc = "finally" /\ applying'.outcome = outcome
      /\ applying'.committed = FALSE /\ applying' \in Apply
  BY DEF Inv, WriteTypeOK, Apply, Ends, Looked, SaysWhatItDid
<1>2. proposal.after # Absent
  BY DEF Inv, Looked, ProposalExists
<1>. QED
  BY <1>1, <1>2 DEF Looked, ProposalExists, InTheDirectory, TextAsPreviewed, NotWrittenBefore,
                    SaysWhatItDid, SawTheDirectory, SawTheText

\* A step of the file system that fails is counted.
LEMMA Counted ==
  ASSUME Inv, Quiet \/ Disturbed
  PROVE  turmoil' \in 0..MaxTurmoil
BY WriteBounds DEF Inv, WriteTypeOK, Quiet, Disturbed

LEMMA PrepareInv == Inv /\ PrepareParent => Inv'
<1> SUFFICES ASSUME Inv, PrepareParent PROVE Inv'
  OBVIOUS
<1>1. turmoil' \in 0..MaxTurmoil
  BY Counted DEF PrepareParent
<1>2. UNCHANGED <<path, files, temp, proposal, issued, consumed, overtaken, moved, report, applies>>
      /\ applying.pc = "prepare"
  BY DEF PrepareParent
<1>3. CASE Ends("invalid")
  BY <1>1, <1>2, <1>3, EndsLooked DEF Inv, WriteTypeOK
<1>4. CASE applying' = [applying EXCEPT !.pc = "stage", !.parent = path.dir]
  <2>1. applying' \in Apply /\ applying'.pc = "stage" /\ applying'.committed = FALSE
    BY <1>2, <1>4 DEF Inv, WriteTypeOK, Apply, Looked, SaysWhatItDid
  <2>2. WriteTypeOK'
    BY <1>1, <1>2, <2>1 DEF Inv, WriteTypeOK
  <2>3. Looked'
    BY <1>2, <2>1 DEF Inv, Looked, ProposalExists, InTheDirectory, TextAsPreviewed,
         NotWrittenBefore, SaysWhatItDid, SawTheDirectory, SawTheText
  <2>. QED
    BY <2>2, <2>3 DEF Inv
<1>. QED
  BY <1>3, <1>4 DEF PrepareParent

LEMMA StageInv == Inv /\ Stage => Inv'
<1> SUFFICES ASSUME Inv, Stage PROVE Inv'
  OBVIOUS
<1>1. turmoil' \in 0..MaxTurmoil
  BY Counted DEF Stage
<1>2. UNCHANGED <<path, files, proposal, issued, consumed, overtaken, moved, report, applies>>
      /\ applying.pc = "stage" /\ temp' \in Dir \union {NoDir}
  BY DEF Stage, Inv, WriteTypeOK
<1>3. CASE Ends("invalid")
  BY <1>1, <1>2, <1>3, EndsLooked DEF Inv, WriteTypeOK
<1>4. CASE Goes("identity")
  <2>1. applying' \in Apply /\ applying'.pc = "identity" /\ applying'.committed = FALSE
    BY <1>2, <1>4 DEF Inv, WriteTypeOK, Apply, Looked, SaysWhatItDid, Goes
  <2>2. WriteTypeOK'
    BY <1>1, <1>2, <2>1 DEF Inv, WriteTypeOK
  <2>3. Looked'
    BY <1>2, <2>1 DEF Inv, Looked, ProposalExists, InTheDirectory, TextAsPreviewed,
         NotWrittenBefore, SaysWhatItDid, SawTheDirectory, SawTheText
  <2>. QED
    BY <2>2, <2>3 DEF Inv
<1>. QED
  BY <1>3, <1>4 DEF Stage

\* From here on the directory is known.
LEMMA IdentityInv ==
  Inv /\ (SameIdentity("identity", "mode") \/ SameIdentity("again", "commit")) => Inv'
<1> SUFFICES ASSUME Inv, NEW pc \in {"identity", "again"}, NEW next \in {"mode", "commit"},
                    SameIdentity(pc, next), next = "commit" => pc = "again"
             PROVE  Inv'
  OBVIOUS
<1>1. UNCHANGED <<path, files, temp, proposal, issued, consumed, overtaken, report, applies, turmoil>>
      /\ applying.pc = pc /\ moved' = FALSE
  BY DEF SameIdentity
<1>2. CASE path.dir # applying.parent
  <2>1. Ends("conflict")
    BY <1>2 DEF SameIdentity
  <2>. QED
    BY <1>1, <2>1, EndsLooked DEF Inv, WriteTypeOK
<1>3. CASE path.dir = applying.parent
  <2>1. /\ applying' \in Apply /\ applying'.pc = next /\ applying'.committed = FALSE
        /\ applying'.parent = path.dir
    BY <1>1, <1>3 DEF Inv, WriteTypeOK, Apply, Looked, SaysWhatItDid, Goes, SameIdentity
  <2>2. WriteTypeOK'
    BY <1>1, <2>1 DEF Inv, WriteTypeOK
  <2>3. Looked'
    BY <1>1, <2>1 DEF Inv, Looked, ProposalExists, InTheDirectory, TextAsPreviewed,
         NotWrittenBefore, SaysWhatItDid, SawTheDirectory, SawTheText, TargetText
  <2>. QED
    BY <2>2, <2>3 DEF Inv
<1>. QED
  BY <1>2, <1>3

LEMMA ModeInv == Inv /\ Mode => Inv'
<1> SUFFICES ASSUME Inv, Mode PROVE Inv'
  OBVIOUS
<1>1. turmoil' \in 0..MaxTurmoil
  BY Counted DEF Mode
<1>2. UNCHANGED <<path, files, temp, proposal, issued, consumed, overtaken, moved, report, applies>>
      /\ applying.pc = "mode"
  BY DEF Mode
<1>3. CASE Ends("invalid")
  BY <1>1, <1>2, <1>3, EndsLooked DEF Inv, WriteTypeOK
<1>4. CASE Goes("expect")
  <2>1. /\ applying' \in Apply /\ applying'.pc = "expect" /\ applying'.committed = FALSE
        /\ applying'.parent = applying.parent
    BY <1>2, <1>4 DEF Inv, WriteTypeOK, Apply, Looked, SaysWhatItDid, Goes
  <2>2. WriteTypeOK'
    BY <1>1, <1>2, <2>1 DEF Inv, WriteTypeOK
  <2>3. Looked'
    BY <1>2, <2>1 DEF Inv, Looked, ProposalExists, InTheDirectory, TextAsPreviewed,
         NotWrittenBefore, SaysWhatItDid, SawTheDirectory, SawTheText
  <2>. QED
    BY <2>2, <2>3 DEF Inv
<1>. QED
  BY <1>3, <1>4 DEF Mode

\* From here on the text is known.
LEMMA ExpectInv == Inv /\ Expect => Inv'
<1> SUFFICES ASSUME Inv, Expect PROVE Inv'
  OBVIOUS
<1>1. UNCHANGED <<path, files, temp, proposal, issued, consumed, moved, report, applies, turmoil>>
      /\ applying.pc = "expect" /\ overtaken' = FALSE
  BY DEF Expect
<1>2. CASE ~Expected
  BY <1>1, <1>2, EndsLooked DEF Inv, WriteTypeOK, Expect
<1>3. CASE Expected
  <2>1. /\ applying' \in Apply /\ applying'.pc = "links" /\ applying'.committed = FALSE
        /\ applying'.parent = applying.parent
    BY <1>1, <1>3 DEF Inv, WriteTypeOK, Apply, Looked, SaysWhatItDid, Goes, Expect
  <2>2. WriteTypeOK'
    BY <1>1, <2>1 DEF Inv, WriteTypeOK
  <2>3. Looked'
    BY <1>1, <1>3, <2>1 DEF Inv, Looked, ProposalExists, InTheDirectory, TextAsPreviewed,
         NotWrittenBefore, SaysWhatItDid, SawTheDirectory, SawTheText, Expected, TargetText
  <2>. QED
    BY <2>2, <2>3 DEF Inv
<1>. QED
  BY <1>2, <1>3

LEMMA LinksInv == Inv /\ NoLinks => Inv'
<1> SUFFICES ASSUME Inv, NoLinks PROVE Inv'
  OBVIOUS
<1>1. UNCHANGED <<path, files, temp, proposal, issued, consumed, overtaken, moved, report,
                  applies, turmoil>>
      /\ applying.pc = "links"
  BY DEF NoLinks
<1>2. CASE path.link
  BY <1>1, <1>2, EndsLooked DEF Inv, WriteTypeOK, NoLinks
<1>3. CASE ~path.link
  <2>1. /\ applying' \in Apply /\ applying'.pc = "again" /\ applying'.committed = FALSE
        /\ applying'.parent = applying.parent
    BY <1>1, <1>3 DEF Inv, WriteTypeOK, Apply, Looked, SaysWhatItDid, Goes, NoLinks
  <2>2. WriteTypeOK'
    BY <1>1, <2>1 DEF Inv, WriteTypeOK
  <2>3. Looked'
    BY <1>1, <2>1 DEF Inv, Looked, ProposalExists, InTheDirectory, TextAsPreviewed,
         NotWrittenBefore, SaysWhatItDid, SawTheDirectory, SawTheText, TargetText
  <2>. QED
    BY <2>2, <2>3 DEF Inv
<1>. QED
  BY <1>2, <1>3

\* The one step that writes, or does not.
LEMMA CommitInv == Inv /\ CommitWrite => Inv'
<1> SUFFICES ASSUME Inv, CommitWrite PROVE Inv'
  OBVIOUS
<1>1. turmoil' \in 0..MaxTurmoil
  BY Counted DEF CommitWrite
<1>2. UNCHANGED <<path, proposal, issued, consumed, overtaken, moved, report, applies>>
      /\ applying.pc = "commit"
      /\ temp' \in Dir \union {NoDir}
  BY DEF CommitWrite, Inv, WriteTypeOK
<1>3. files' \in [Dir -> Content]
  BY DEF CommitWrite, Inv, WriteTypeOK
<1>4. CASE Ends("invalid") \/ Ends("conflict")
  BY <1>1, <1>2, <1>3, <1>4, EndsLooked DEF Inv, WriteTypeOK
<1>5. CASE Committed
  <2>1. /\ applying' \in Apply /\ applying'.pc = "finally" /\ applying'.committed = TRUE
        /\ applying'.outcome = "applied"
    BY <1>2, <1>5 DEF Inv, WriteTypeOK, Apply, Committed
  <2>2. WriteTypeOK'
    BY <1>1, <1>2, <1>3, <2>1 DEF Inv, WriteTypeOK
  <2>3. Looked'
    BY <1>2, <2>1 DEF Inv, Looked, ProposalExists, InTheDirectory, TextAsPreviewed,
         NotWrittenBefore, SaysWhatItDid, SawTheDirectory, SawTheText
  <2>. QED
    BY <2>2, <2>3 DEF Inv
<1>. QED
  BY <1>4, <1>5 DEF CommitWrite

\* The call is over, in either way.
LEMMA OverInv == Inv /\ (Finally \/ MutatorCrash) => Inv'
<1> SUFFICES ASSUME Inv, Finally \/ MutatorCrash PROVE Inv'
  OBVIOUS
<1>1. turmoil' \in 0..MaxTurmoil
  BY Counted DEF Finally, MutatorCrash
<1>2. UNCHANGED <<path, files, proposal, overtaken, moved, applies>> /\ applying' = NoApply
      /\ temp' \in Dir \union {NoDir} /\ issued' \in BOOLEAN /\ consumed' \in BOOLEAN
  BY DEF Finally, MutatorCrash, Inv, WriteTypeOK
<1>3. report' \in {"none", "applied", "conflict", "invalid", "lost"}
  BY DEF Finally, MutatorCrash, Inv, WriteTypeOK, Reported, Apply
<1>4. NoApply \in Apply
  BY DEF NoApply, Apply
<1>5. WriteTypeOK'
  BY <1>1, <1>2, <1>3, <1>4 DEF Inv, WriteTypeOK
<1>6. Looked'
  BY <1>2 DEF NoApply, Looked, ProposalExists, InTheDirectory, TextAsPreviewed,
              NotWrittenBefore, SaysWhatItDid, SawTheDirectory, SawTheText
<1>. QED
  BY <1>5, <1>6 DEF Inv

LEMMA NextInv == Inv /\ [WriteNext]_writeVars => Inv'
<1> SUFFICES ASSUME Inv, [WriteNext]_writeVars PROVE Inv'
  OBVIOUS
<1>1. CASE UNCHANGED writeVars
  BY <1>1 DEF Inv, WriteTypeOK, Looked, ProposalExists, InTheDirectory, TextAsPreviewed,
              NotWrittenBefore, SaysWhatItDid, TargetText, writeVars
<1>2. CASE WriteNext
  BY <1>2, EditorInv, RegisterInv, ValidateInv, PrepareInv, StageInv, IdentityInv, ModeInv,
     ExpectInv, LinksInv, CommitInv, OverInv DEF WriteNext
<1>. QED
  BY <1>1, <1>2

\* The invariant of every series of calls.
THEOREM WriteInvariance == WriteSpec => []Inv
<1>. QED
  BY InitInv, NextInv, PTL DEF WriteSpec

LEMMA CommitsOnce ==
  ASSUME Inv, [WriteNext]_writeVars, Commits
  PROVE  /\ ~consumed
         /\ TargetText = proposal.before \/ (overtaken /\ proposal.before # Absent)
         /\ path.dir = applying.parent \/ moved
<1>1. applying.pc = "commit" /\ applying'.committed /\ applying.committed = FALSE
  BY DEF Commits, Inv, WriteTypeOK, Apply, Looked, SaysWhatItDid
<1>2. applying' # applying
  BY <1>1
<1>3. CommitWrite \/ MutatorCrash
  BY <1>1, <1>2 DEF WriteNext, writeVars, Edit, Move, Preview, Discard, Restore, Validate,
     PrepareParent, Stage, Mode, Expect, NoLinks, Finally, SameIdentity
<1>4. ~MutatorCrash
  BY <1>1 DEF MutatorCrash, NoApply
<1>5. ~Ends("invalid") /\ ~Ends("conflict")
  BY <1>1 DEF Ends, Inv, WriteTypeOK, Apply
<1>6. proposal.before = Absent => TargetText = Absent
  BY <1>3, <1>4, <1>5 DEF CommitWrite
<1>. QED
  BY <1>1, <1>6 DEF Inv, Looked, InTheDirectory, TextAsPreviewed, NotWrittenBefore,
                    SawTheDirectory, SawTheText

LEMMA ReturnsTruth ==
  ASSUME Inv, [WriteNext]_writeVars, Returns
  PROVE  report' = "applied" <=> applying.committed
<1>1. applying.pc = "finally" /\ report' # "lost" /\ applying'.pc = "idle"
  BY DEF Returns
<1>2. Finally \/ MutatorCrash
  BY <1>1 DEF WriteNext, writeVars, Edit, Move, Preview, Discard, Restore, Validate,
     PrepareParent, Stage, Mode, Expect, NoLinks, CommitWrite, SameIdentity
<1>3. ~MutatorCrash
  BY <1>1 DEF MutatorCrash
<1>4. applying.outcome = "applied" <=> applying.committed
  BY <1>1 DEF Inv, Looked, SaysWhatItDid
<1>. QED
  BY <1>2, <1>3, <1>4 DEF Finally, Reported

\* apply replaces the text that was previewed, in the directory that was checked,
\* unless the editor came in after the last look, makes no file that is there, writes
\* a proposal once, and says "applied" exactly when it has written (_atomic_write).
THEOREM ApplyIsCompareAndSet == WriteSpec => WritesLikeCompareAndSet
<1>1. Inv /\ [WriteNext]_writeVars => [CompareAndSet]_writeVars
  BY CommitsOnce, ReturnsTruth DEF CompareAndSet
<1>. QED
  BY <1>1, WriteInvariance, PTL DEF WriteSpec, WritesLikeCompareAndSet
=============================================================================
