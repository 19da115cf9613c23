-------------------------- MODULE MCBufferCache ----------------------------
(* BufferCache for TLC: three processes that use one lock in every way, and  *)
(* users of a cache of two blocks, with the refresh thread or the one that   *)
(* reads ahead beside them.                                                  *)
EXTENDS BufferCache

MCSectorsOf == << {1, 2}, {2, 3}, {} >>
\* One lock, used in every way.
LockCast == [role |-> << "lock", "lock", "lock" >>, calls |-> << 3, 3, 3 >>,
             cached |-> << 0, 0 >>]
\* Two users, of an empty cache and of a full one.
EmptyCast == [role |-> << "user", "user", "lock" >>, calls |-> << 2, 1, 0 >>,
              cached |-> << 0, 0 >>]
FullCast == [EmptyCast EXCEPT !.cached = << 3, 2 >>]
\* A user, which has to evict, beside the refresh thread.
RefreshCast == [role |-> << "user", "lock", "refresh" >>, calls |-> << 2, 0, 2 >>,
                cached |-> << 3, 2 >>]
\* A user of the low sectors or of the high ones beside the thread that reads ahead.
LowCast == [EmptyCast EXCEPT !.role[3] = "ahead", !.calls = << 2, 0, 1 >>]
HighCast == [LowCast EXCEPT !.calls = << 0, 2, 1 >>]
MCCasts == {LockCast, EmptyCast, FullCast, RefreshCast, LowCast, HighCast}
LockCasts == {LockCast}
=============================================================================
