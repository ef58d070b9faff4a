------------------------------ MODULE MCTarget ------------------------------
(***************************************************************************)
(* Two algorithms of the target's side, checked in one run: the fold of a  *)
(* batch of rows, and the evolution of an enum type.  They share no state: *)
(* a behaviour is one of `part`, chosen at the start, while the other      *)
(* keeps an initial state.                                                 *)
(***************************************************************************)
EXTENDS Normalize, TypeEvolution, TLC

VARIABLE part

mcVars == <<part, vars, typeVars>>

MCInit ==
  /\ part \in {"fold", "types"}
  /\ Init /\ TypesInit
  /\ part = "fold" =>
       /\ Source = CHOOSE d \in Definition : TRUE
       /\ type = NoType /\ record = NoRecord
  /\ part = "types" => table = [k \in Key |-> NoRow]

MCNext ==
  /\ UNCHANGED part
  /\ \/ part = "fold" /\ Next /\ UNCHANGED typeVars
     \/ part = "types" /\ TypesNext /\ UNCHANGED vars

MCSpec == MCInit /\ [][MCNext]_mcVars

Symmetry == Permutations(Label)
=============================================================================
