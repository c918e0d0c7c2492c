------------------------------ MODULE SpinLock ------------------------------
(***************************************************************************)
(* Class SpinLock: one word, and a lock() that repeats a compare-exchange  *)
(* from 0 to 1.  The operators are its atomic accesses; the module that    *)
(* uses the lock lets its threads interleave between them.                 *)
(***************************************************************************)

Unlocked == 0

\* The word after compare_exchange_weak(expected = 0, 1), whichever way it
\* ends.  It does not fail spuriously on the two architectures of the code.
CompareExchange(word) == 1

\* lock() has an empty body that it repeats while the exchange SUCCEEDS; the
\* call that takes the lock tries again, and returns when it finds it taken.
LockAgain(word) == word = Unlocked

=============================================================================
