------------------------------- MODULE Mirror --------------------------------
(***************************************************************************)
(* What the product promises: the target shows a prefix of the source's    *)
(* committed transactions, and only ever moves to a longer one.  Batches,  *)
(* crashes, failovers and snapshot rebuilds are invisible at this level.   *)
(***************************************************************************)
EXTENDS Naturals

CONSTANT MaxLsn   \* bound: last LSN the source ever commits

VARIABLES
  src,     \* LSN of the last transaction committed on the source
  mirror   \* LSNs of the transactions the target shows

Init == src = 1 /\ mirror = {}

\* The source commits a transaction.
Commit == src < MaxLsn /\ src' = src + 1 /\ UNCHANGED mirror

\* The target moves to the prefix that ends at n: by a batch, or by a
\* snapshot taken at n.
Show(n) == mirror \subseteq 1..n /\ mirror' = 1..n /\ UNCHANGED src

Next == Commit \/ \E n \in 1..src : Show(n)

Spec == Init /\ [][Next]_<<src, mirror>>
=============================================================================
