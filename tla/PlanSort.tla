--------------------------------- MODULE PlanSort ---------------------------------
(***************************************************************************)
(* The order in which the supervisor hands out the tasks of a plan         *)
(* (sort_tasks_by_dependency in engine/core/orchestrator/planner.py).      *)
(* Tasks are numbered in plan order; p[i] holds the tasks that i needs.    *)
(***************************************************************************)
EXTENDS Naturals, Sequences, SequencesExt

\* sort_tasks_by_dependency: depth first, each id once; st holds visited and result.
RECURSIVE Visit(_, _, _)
Visit(p, st, id) ==
    IF id \in st.visited THEN st
    ELSE LET inner == FoldLeft(LAMBDA acc, d : Visit(p, acc, d),
                               [st EXCEPT !.visited = @ \union {id}], SetToSortSeq(p[id], <))
         IN  [inner EXCEPT !.result = Append(@, id)]

SortTasks(p) ==
    FoldLeft(LAMBDA acc, id : Visit(p, acc, id), [visited |-> {}, result |-> <<>>],
             [i \in DOMAIN p |-> i]).result

------------------------------------------------------------------------------
\* Reaches(p, a, b): a depends on b, directly or not.
Reaches(p, a, b) ==
    \E path \in UNION {[1..n -> DOMAIN p] : n \in 2..(Len(p) + 1)} :
        /\ path[1] = a /\ path[Len(path)] = b
        /\ \A i \in 1..(Len(path) - 1) : path[i + 1] \in p[path[i]]

\* The topological sort keeps each task once, and puts it after what it depends on
\* unless the two depend on each other (sort_tasks_by_dependency).
SortIsTopological(p) ==
    LET sorted == SortTasks(p)
        Place(t) == CHOOSE i \in DOMAIN sorted : sorted[i] = t
    IN  /\ Len(sorted) = Len(p) /\ {sorted[i] : i \in DOMAIN sorted} = DOMAIN p
        /\ \A a \in DOMAIN p : \A b \in p[a] : Place(b) < Place(a) \/ Reaches(p, b, a)
===================================================================================
