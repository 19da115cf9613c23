------------------------------- MODULE List -------------------------------
(***************************************************************************)
(* lib/kernel/list.c at the level of its links.  A heap h maps every list  *)
(* element to its prev and next; list l is its two header elements.  The   *)
(* comparison less(a, b, aux) is val[a] < val[b] for a function val from   *)
(* elements to numbers.  An operation returns the new heap; one whose      *)
(* ASSERT fails returns Panic, which has no elements at all.               *)
(***************************************************************************)
EXTENDS Integers, Sequences, TLC

NULL == 0

\* The headers of list l; ordinary elements are positive numbers.
head(l) == -(2 * l)
tail(l) == -(2 * l) - 1

Panic == <<>>

Checked(assertion, h) == IF assertion THEN h ELSE Panic

\* struct list_elem: one pair of links, both null before the first insertion.
NoLinks == [prev |-> NULL, next |-> NULL]

is_interior(h, e) == e # NULL /\ h[e].prev # NULL /\ h[e].next # NULL

is_tail(h, e) == e # NULL /\ h[e].prev # NULL /\ h[e].next = NULL

list_init(h, l) ==
    [h EXCEPT ![head(l)] = [prev |-> NULL, next |-> tail(l)],
              ![tail(l)] = [prev |-> head(l), next |-> NULL]]

list_begin(h, l) == h[head(l)].next

list_end(l) == tail(l)

list_next(h, e) == h[e].next

list_prev(h, e) == h[e].prev

list_empty(h, l) == list_begin(h, l) = list_end(l)

list_insert(h, before, e) ==
    Checked(is_interior(h, before) \/ is_tail(h, before),
            [h EXCEPT ![e] = [prev |-> h[before].prev, next |-> before],
                      ![h[before].prev].next = e,
                      ![before].prev = e])

\* The two unlinking stores, then the two that link the range in before `before'.
list_splice(h, before, first, last) ==
    IF first = last THEN h
    ELSE LET z == h[last].prev
             cut == [h EXCEPT ![h[first].prev].next = h[z].next,
                              ![h[z].next].prev = h[first].prev]
             p == cut[before].prev
         IN  Checked(is_interior(h, first) /\ is_interior(h, z),
                     [cut EXCEPT ![first].prev = p, ![z].next = before,
                                 ![p].next = first, ![before].prev = z])

list_push_front(h, l, e) == list_insert(h, list_begin(h, l), e)

list_push_back(h, l, e) == list_insert(h, list_end(l), e)

\* The removed element keeps its stale links.
list_remove(h, e) ==
    Checked(is_interior(h, e),
            [h EXCEPT ![h[e].prev].next = h[e].next, ![h[e].next].prev = h[e].prev])

list_front(h, l) == h[head(l)].next

list_back(h, l) == h[tail(l)].prev

list_pop_front(h, l) == list_remove(h, list_front(h, l))

list_pop_back(h, l) == list_remove(h, list_back(h, l))

RECURSIVE SizeFrom(_, _, _)
SizeFrom(h, l, e) ==
    IF e = list_end(l) THEN 0 ELSE 1 + SizeFrom(h, l, list_next(h, e))

list_size(h, l) == SizeFrom(h, l, list_begin(h, l))

swap(h, e) == [h EXCEPT ![e] = [prev |-> h[e].next, next |-> h[e].prev]]

\* The loop follows prev because the swap has just turned it into next.
RECURSIVE SwapLinks(_, _, _)
SwapLinks(h, l, e) ==
    IF e = list_end(l) THEN h
    ELSE LET s == swap(h, e) IN SwapLinks(s, l, s[e].prev)

list_reverse(h, l) ==
    IF list_empty(h, l) THEN h
    ELSE LET s == SwapLinks(h, l, list_begin(h, l))
             a == s[tail(l)].prev
             b == s[head(l)].next
             t == [s EXCEPT ![head(l)].next = a, ![tail(l)].prev = b]
         IN  [t EXCEPT ![a].prev = t[b].next, ![b].next = t[a].prev]

RECURSIVE is_sorted(_, _, _, _)
is_sorted(h, val, a, b) ==
    a = b \/ LET n == list_next(h, a)
             IN  n = b \/ (val[n] >= val[a] /\ is_sorted(h, val, n, b))

RECURSIVE find_end_of_run(_, _, _, _)
find_end_of_run(h, val, a, b) ==
    LET n == list_next(h, a)
    IN  IF n # b /\ ~ (val[n] < val[list_prev(h, n)])
        THEN find_end_of_run(h, val, n, b)
        ELSE n

\* The loop of inplace_merge; a tie advances in the first run, which keeps the sort stable.
RECURSIVE MergeRuns(_, _, _, _, _)
\* Mutant: a tie takes the element of the second run.
MergeRuns_unstable(h, val, a0, a1b0, b1) ==
    IF a0 = a1b0 \/ a1b0 = b1 THEN h
    ELSE IF val[a0] < val[a1b0]
         THEN MergeRuns(h, val, list_next(h, a0), a1b0, b1)
         ELSE LET n == list_next(h, a1b0)
              IN  MergeRuns(list_splice(h, a0, a1b0, n), val, a0, n, b1)

MergeRuns(h, val, a0, a1b0, b1) ==
    IF a0 = a1b0 \/ a1b0 = b1 THEN h
    ELSE IF ~ (val[a1b0] < val[a0])
         THEN MergeRuns(h, val, list_next(h, a0), a1b0, b1)
         ELSE LET n == list_next(h, a1b0)
              IN  MergeRuns(list_splice(h, a0, a1b0, n), val, a0, n, b1)

inplace_merge(h, val, a0, a1b0, b1) ==
    IF is_sorted(h, val, a0, a1b0) /\ is_sorted(h, val, a1b0, b1)
    THEN MergeRuns(h, val, a0, a1b0, b1)
    ELSE Panic

\* One pass of list_sort from a0 on: the heap after it and output_run_cnt.
RECURSIVE SortPass(_, _, _, _, _)
SortPass(h, l, val, a0, cnt) ==
    IF a0 = list_end(l) THEN <<h, cnt>>
    ELSE LET a1b0 == find_end_of_run(h, val, a0, list_end(l))
         IN  IF a1b0 = list_end(l) THEN <<h, cnt + 1>>
             ELSE LET b1 == find_end_of_run(h, val, a1b0, list_end(l))
                  IN  SortPass(inplace_merge(h, val, a0, a1b0, b1), l, val, b1, cnt + 1)

RECURSIVE list_sort(_, _, _)
list_sort(h, l, val) ==
    LET pass == SortPass(h, l, val, list_begin(h, l), 0)
    IN  IF pass[2] > 1 THEN list_sort(pass[1], l, val)
        ELSE Checked(is_sorted(pass[1], val, list_begin(pass[1], l), list_end(l)), pass[1])

\* The first element from e on that `new' is less than, or the tail.
RECURSIVE FirstGreater(_, _, _, _, _)
\* Mutant: an equal element ends the search.
FirstGreater_or_equal(h, l, val, e, new) ==
    IF e = list_end(l) \/ val[new] <= val[e] THEN e
    ELSE FirstGreater(h, l, val, list_next(h, e), new)

FirstGreater(h, l, val, e, new) ==
    IF e = list_end(l) \/ val[new] < val[e] THEN e
    ELSE FirstGreater(h, l, val, list_next(h, e), new)

list_insert_ordered(h, l, val, new) ==
    list_insert(h, FirstGreater(h, l, val, list_begin(h, l), new), new)

RECURSIVE UniqueFrom(_, _, _, _, _)
UniqueFrom(h, l, dup, val, e) ==
    LET n == list_next(h, e)
    IN  IF n = list_end(l) THEN h
        ELSE IF val[e] = val[n]
             THEN UniqueFrom(list_push_back(list_remove(h, n), dup, n), l, dup, val, e)
             ELSE UniqueFrom(h, l, dup, val, n)

list_unique(h, l, dup, val) ==
    IF list_empty(h, l) THEN h ELSE UniqueFrom(h, l, dup, val, list_begin(h, l))

RECURSIVE MaxFrom(_, _, _, _, _)
MaxFrom(h, l, val, best, e) ==
    IF e = list_end(l) THEN best
    ELSE MaxFrom(h, l, val, IF val[best] < val[e] THEN e ELSE best, list_next(h, e))

list_max(h, l, val) ==
    LET b == list_begin(h, l)
    IN  IF b = list_end(l) THEN b ELSE MaxFrom(h, l, val, b, list_next(h, b))

\* list_min is list_max with the comparison turned round.
list_min(h, l, val) == list_max(h, l, [e \in DOMAIN val |-> -val[e]])
----------------------------------------------------------------------------
(* The reference: a list is the sequence of its elements.                   *)

RECURSIVE Forward(_, _, _)
Forward(h, l, e) == IF e = tail(l) THEN <<>> ELSE <<e>> \o Forward(h, l, h[e].next)

RECURSIVE Backward(_, _, _)
Backward(h, l, e) == IF e = head(l) THEN <<>> ELSE Append(Backward(h, l, h[e].prev), e)

Elems(h, l) == Forward(h, l, h[head(l)].next)

\* Both directions give the same sequence and the headers are intact.
Holds(h, l, s) ==
    /\ h # Panic
    /\ Elems(h, l) = s
    /\ Backward(h, l, h[tail(l)].prev) = s
    /\ h[head(l)].prev = NULL /\ h[tail(l)].next = NULL

RECURSIVE PushAll(_, _, _)
PushAll(h, l, s) ==
    IF s = <<>> THEN h ELSE PushAll(list_push_back(h, l, s[1]), l, Tail(s))

\* A heap with n elements in which list l holds s and list m is empty.
Heap(n, l, m, s) ==
    LET headers == {head(l), tail(l), head(m), tail(m)}
        blank == [e \in 1..n |-> NoLinks] @@ [e \in headers |-> NoLinks]
    IN  PushAll(list_init(list_init(blank, l), m), l, s)
=============================================================================
