----------------------------- MODULE LockTypes -----------------------------
(* The lock levels of the lock manager and the relations between them.       *)
EXTENDS Integers, FiniteSetsExt

\* Lock states of lock_proto.h; the code relies on the order of the numbers.
LCK_none == 0
LCK_null == 1
LCK_SR == 2
LCK_PR == 3
LCK_SW == 4
LCK_PW == 5
LCK_EX == 6
LckLevels == LCK_none .. LCK_EX

\* The rows of the table "compatibility": level a asked for, level b held.
compatibility(a, b) ==
  CASE a \in {LCK_none, LCK_null} -> TRUE
    [] a = LCK_SR -> b # LCK_EX
    [] a = LCK_PR -> b \in {LCK_none, LCK_null, LCK_SR, LCK_PR}
    [] a = LCK_SW -> b \in {LCK_none, LCK_null, LCK_SR, LCK_SW}
    [] a = LCK_PW -> b \in {LCK_none, LCK_null, LCK_SR}
    [] a = LCK_EX -> b \in {LCK_none, LCK_null}

\* The highest level granted to some request, where counts[s] is the number of
\* requests granted level s: the cascade of tests of lock_state.
lock_state(counts) ==
  Max({LCK_none} \cup {s \in LCK_null .. LCK_EX : counts[s] # 0})
=============================================================================
