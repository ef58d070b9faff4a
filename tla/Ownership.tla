------------------------------ MODULE Ownership ------------------------------
(***************************************************************************)
(* What the leases promise to the delivery protocol: at most one job of a  *)
(* pipeline runs at a time, and every job has a larger fencing token than  *)
(* the jobs before it.  This is what the module Replication assumes of     *)
(* StartJob when its constant Exclusive is TRUE.                           *)
(***************************************************************************)
EXTENDS Naturals

CONSTANT MaxToken   \* bound: number of leases ever granted

VARIABLES
  running,  \* tokens of the jobs that run
  last      \* token of the job that started last

Init == running = {} /\ last = 0

Start(t) == running = {} /\ t > last /\ running' = {t} /\ last' = t

Stop == running # {} /\ running' = {} /\ UNCHANGED last

Next == Stop \/ \E t \in 1..MaxToken : Start(t)

Spec == Init /\ [][Next]_<<running, last>>
=============================================================================
