---------------------------- MODULE MCIndexAndPage -----------------------------
(***************************************************************************)
(* The knowledge index and the page's approval cards, for TLC.  They share *)
(* no state: each behaviour is one of one of them, and the other is at     *)
(* rest.                                                                   *)
(* Approvals differ only in which one is asked for first, so it may as     *)
(* well be a given one.                                                    *)
(* The chunker is evaluated over every small text.                         *)
(***************************************************************************)
EXTENDS RagIndex, OutcomePage, Chunker

CONSTANT First

VARIABLE part

PartInit ==
    /\ part \in {"index", "page"}
    /\ Init /\ (part = "page" => disk = [f \in File |-> Absent])
    /\ PageInit /\ issued = {First}

PartNext ==
    /\ UNCHANGED part
    /\ \/ part = "index" /\ Next /\ UNCHANGED pageVars
       \/ part = "page" /\ PageNext /\ UNCHANGED vars

PartSpec ==
    /\ PartInit /\ [][PartNext]_<<part, vars, pageVars>>
    /\ \A j \in Job : WF_vars(JobStep(j))
    /\ PageFairness

Span(n) == {s \in (1..n) \X (1..n) : s[1] <= s[2]}

\* Texts of up to four lines, any of them blank, in which up to two spans are found.
ASSUME ChunksOfEveryText ==
    \A n \in 1..4 : \A blank \in SUBSET (1..n) :
        /\ ChunksCover(SpansOrAll({}, n), blank)
        /\ \A s, t \in Span(n) : ChunksCover({s, t}, blank)

\* One span that is cut into several parts.
ASSUME ChunksOfALongSpan ==
    \A n \in 5..7 : \A blank \in SUBSET (1..n) : ChunksCover({<<1, n>>}, blank)

ASSUME SectionsOfEveryDocument ==
    \A n \in 1..6 : \A headings \in SUBSET (1..n) : SectionsPartition(headings, n)
==============================================================================
