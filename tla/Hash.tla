------------------------------- MODULE Hash -------------------------------
(***************************************************************************)
(* lib/kernel/hash.c: the table behind the supplemental page tables.  An   *)
(* element is a record with a key and an identity; two elements are equal  *)
(* when their keys are (neither is less than the other).  A bucket is the  *)
(* sequence of its elements.  hf is the hash of each key.                  *)
(***************************************************************************)
EXTENDS Integers, Sequences, FiniteSets, FiniteSetsExt, SequencesExt

NoElem == [key |-> -1, id |-> -1]

BEST_ELEMS_PER_BUCKET == 2

MIN_BUCKETS == 4

\* hash_init, with hash_clear emptying the four buckets.
hash_init == [elem_cnt |-> 0, buckets |-> [i \in 0..(MIN_BUCKETS - 1) |-> <<>>]]

bucket_cnt(h) == Cardinality(DOMAIN h.buckets)

\* hash & (bucket_cnt - 1), for a bucket count that is a power of two.
find_bucket(h, hf, e) == hf[e.key] % bucket_cnt(h)

find_elem(h, b, e) ==
    LET hits == {i \in DOMAIN h.buckets[b] : h.buckets[b][i].key = e.key}
    IN  IF hits = {} THEN NoElem ELSE h.buckets[b][Min(hits)]

insert_elem(h, b, e) ==
    [h EXCEPT !.elem_cnt = @ + 1, !.buckets[b] = <<e>> \o @]

\* list_remove finds the element through its links, not through a bucket.
remove_elem(h, e) ==
    [elem_cnt |-> h.elem_cnt - 1,
     buckets |-> [i \in DOMAIN h.buckets |-> SelectSeq(h.buckets[i], LAMBDA x : x # e)]]

\* x & (x - 1)
turn_off_least_1bit(x) ==
    LET low == CHOOSE p \in {2^k : k \in 0..x} : x % (2 * p) = p IN x - low

is_power_of_2(x) == x # 0 /\ turn_off_least_1bit(x) = 0

RECURSIVE RoundedDown(_)
RoundedDown(n) == IF is_power_of_2(n) THEN n ELSE RoundedDown(turn_off_least_1bit(n))

\* Moves the elements one by one, old bucket by old bucket, to the front of their new bucket.
Moved(h, hf, n) ==
    LET all == FlattenSeq([i \in 1..bucket_cnt(h) |-> h.buckets[i - 1]])
        empty == [h EXCEPT !.buckets = [i \in 0..(n - 1) |-> <<>>]]
        move(t, e) == [t EXCEPT !.buckets[find_bucket(t, hf, e)] = <<e>> \o @]
    IN  FoldLeft(move, empty, all)

\* Mutant: the bucket count follows the element count without rounding.
rehash_unrounded(h, hf, oom) ==
    LET ideal == h.elem_cnt \div BEST_ELEMS_PER_BUCKET
    IN  IF ideal <= bucket_cnt(h) \/ oom THEN h ELSE Moved(h, hf, ideal)

\* oom: malloc finds no memory for the new buckets and the table stays as it is.
rehash(h, hf, oom) ==
    LET ideal == h.elem_cnt \div BEST_ELEMS_PER_BUCKET
        n == RoundedDown(IF ideal < MIN_BUCKETS THEN MIN_BUCKETS ELSE ideal)
    IN  IF n = bucket_cnt(h) \/ oom THEN h ELSE Moved(h, hf, n)

\* A call returns the table and the element it returns to its caller.
hash_insert(h, hf, new, oom) ==
    LET b == find_bucket(h, hf, new)
        old == find_elem(h, b, new)
    IN  <<rehash(IF old = NoElem THEN insert_elem(h, b, new) ELSE h, hf, oom), old>>

hash_replace(h, hf, new, oom) ==
    LET b == find_bucket(h, hf, new)
        old == find_elem(h, b, new)
    IN  <<rehash(insert_elem(IF old = NoElem THEN h ELSE remove_elem(h, old), b, new), hf, oom),
          old>>

hash_find(h, hf, e) == <<h, find_elem(h, find_bucket(h, hf, e), e)>>

hash_delete(h, hf, e, oom) ==
    LET found == find_elem(h, find_bucket(h, hf, e), e)
    IN  IF found = NoElem THEN <<h, found>>
        ELSE <<rehash(remove_elem(h, found), hf, oom), found>>

\* With a destructor every element is popped from its bucket and handed to it, in this order.
hash_clear(h) ==
    <<[elem_cnt |-> 0, buckets |-> [i \in DOMAIN h.buckets |-> <<>>]],
      FlattenSeq([i \in 1..bucket_cnt(h) |-> h.buckets[i - 1]])>>

\* The elements hash_first and hash_next visit: an iterator is a bucket and a place in it.
RECURSIVE hash_next(_, _, _)
hash_next(h, b, i) ==
    IF i < Len(h.buckets[b])
    THEN <<h.buckets[b][i + 1]>> \o hash_next(h, b, i + 1)
    ELSE IF b + 1 >= bucket_cnt(h) THEN <<>> ELSE hash_next(h, b + 1, 0)

hash_first(h) == hash_next(h, 0, 0)

\* hash_apply visits bucket after bucket, taking the successor before the action runs.
hash_apply(h) == FlattenSeq([i \in 1..bucket_cnt(h) |-> h.buckets[i - 1]])

hash_size(h) == h.elem_cnt
=============================================================================
