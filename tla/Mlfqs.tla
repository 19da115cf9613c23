------------------------------- MODULE Mlfqs -------------------------------
(***************************************************************************)
(* threads/fixed_point.c and the formulas of the multi-level feedback      *)
(* queue scheduler in threads/thread.c, with a multiplier F (2^14 in the   *)
(* code).  Products are taken in 64 bits there, so they do not wrap.       *)
(***************************************************************************)
EXTENDS Integers, Sequences

CONSTANTS F, PRI_MIN, PRI_MAX

FIXED_POINT_MULTIPLIER == F

\* C's division truncates towards zero.
Quotient(x, y) ==
    LET q == (IF x < 0 THEN -x ELSE x) \div (IF y < 0 THEN -y ELSE y)
    IN  IF (x < 0) = (y < 0) THEN q ELSE -q

to_fp(n) == n * FIXED_POINT_MULTIPLIER

to_int(x) == Quotient(x, FIXED_POINT_MULTIPLIER)

round_fp_up(x) == Quotient(x + FIXED_POINT_MULTIPLIER \div 2, FIXED_POINT_MULTIPLIER)

round_fp(x) ==
    IF x > 0 THEN Quotient(x + FIXED_POINT_MULTIPLIER \div 2, FIXED_POINT_MULTIPLIER)
    ELSE Quotient(x - FIXED_POINT_MULTIPLIER \div 2, FIXED_POINT_MULTIPLIER)

multiply(x, y) == Quotient(x * y, FIXED_POINT_MULTIPLIER)

divide(x, y) == Quotient(x * FIXED_POINT_MULTIPLIER, y)

thread_update_mlfqs_priority(recent_cpu, nice) ==
    LET update == PRI_MAX - round_fp(Quotient(recent_cpu, 4)) - nice * 2
    IN  IF update < PRI_MIN THEN PRI_MIN ELSE IF update > PRI_MAX THEN PRI_MAX ELSE update

update_load_avg(load_avg, ready_threads) ==
    multiply(Quotient(to_fp(59), 60), load_avg) + Quotient(to_fp(1), 60) * ready_threads

update_recent_cpu(recent_cpu, nice, load_avg) ==
    LET a == divide(2 * load_avg, 2 * load_avg + to_fp(1))
    IN  multiply(recent_cpu, a) + to_fp(nice)

thread_get_load_avg(load_avg) == round_fp(multiply(to_fp(100), load_avg))

thread_get_recent_cpu(recent_cpu) == round_fp(multiply(to_fp(100), recent_cpu))
=============================================================================
