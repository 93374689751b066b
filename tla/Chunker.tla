--------------------------------- MODULE Chunker ---------------------------------
(***************************************************************************)
(* How a file is cut into the chunks of the index (engine/core/rag/        *)
(* chunker.py).  A text is the number of its lines and the set of those    *)
(* that are blank; what ast and the regular expressions find are spans.    *)
(***************************************************************************)
EXTENDS Naturals, Sequences, SequencesExt, FiniteSetsExt

CONSTANTS MaxChunkLines, ChunkOverlapLines

ASSUME ChunkLinesAssumption ==
    /\ MaxChunkLines \in Nat /\ ChunkOverlapLines \in Nat
    /\ ChunkOverlapLines < MaxChunkLines

\* A part of a span: the lines from its first to its last.
Lines(part) == part[1]..part[2]

\* _document_spans: a section reaches to the next heading or to the last line.
DocumentSpans(headings, n) ==
    {<<h, Min({k - 1 : k \in {i \in headings : i > h}} \union {n})>> : h \in headings}

\* chunk_source: a file in which nothing was found is one span.
SpansOrAll(spans, n) == IF spans = {} THEN {<<1, Max({1, n})>>} ELSE spans

PartEnd(cursor, end) == Min({end, cursor + MaxChunkLines - 1})

\* The loop of _materialize over one span: the next part begins inside the last.
Parts(start, end) ==
    LET from[cursor \in start..(end + 1)] ==
            IF cursor > end THEN <<>>
            ELSE <<<<cursor, PartEnd(cursor, end)>>>> \o
                 (IF PartEnd(cursor, end) = end THEN <<>>
                  ELSE from[PartEnd(cursor, end) - ChunkOverlapLines + 1])
    IN  from[start]

\* _materialize: the parts of all spans in their order, without the blank ones.
Materialize(spans, blank) ==
    LET Before(s, t) == s[1] < t[1] \/ (s[1] = t[1] /\ s[2] < t[2])
        Kept(part) == ~(Lines(part) \subseteq blank)
    IN  SelectSeq(FlattenSeq([i \in DOMAIN SetToSortSeq(spans, Before) |->
                      Parts(SetToSortSeq(spans, Before)[i][1], SetToSortSeq(spans, Before)[i][2])]),
                  Kept)

------------------------------------------------------------------------------
\* Every line of a span that has text is in a chunk within the span, every chunk is
\* of a size that can be searched and has text, and of two chunks that follow each
\* other in a span the second begins in the first and goes beyond it (_materialize).
ChunksCover(spans, blank) ==
    LET chunks == Materialize(spans, blank)
    IN  /\ \A span \in spans : \A line \in Lines(span) \ blank :
              \E i \in DOMAIN chunks : line \in Lines(chunks[i]) /\ Lines(chunks[i]) \subseteq Lines(span)
        /\ \A i \in DOMAIN chunks : /\ chunks[i][2] - chunks[i][1] < MaxChunkLines
                                    /\ ~(Lines(chunks[i]) \subseteq blank)
        /\ \A span \in spans : LET parts == Parts(span[1], span[2])
                               IN  \A i \in 1..(Len(parts) - 1) :
                                      /\ parts[i + 1][1] \in Lines(parts[i])
                                      /\ parts[i + 1][1] > parts[i][1]
                                      /\ parts[i + 1][2] > parts[i][2]

\* Sections do not overlap, and together they are the document from its first
\* heading on; what comes before it is in no section and is not indexed.
SectionsPartition(headings, n) ==
    LET sections == DocumentSpans(headings, n)
    IN  /\ \A s, t \in sections : s # t => Lines(s) \intersect Lines(t) = {}
        /\ headings # {} => UNION {Lines(s) : s \in sections} = Min(headings)..n
==============================================================================
