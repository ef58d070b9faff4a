------------------------------ MODULE MCServer ------------------------------
(***************************************************************************)
(* Five parts of the server, checked in one run: authentication,           *)
(* definitions, one server process, migrations, and the initial snapshot   *)
(* of a generation.  They share no state: a behaviour is one of `part`,    *)
(* chosen at the start, while the others keep their initial state.         *)
(***************************************************************************)
EXTENDS Auth, Control, Runtime, Migration, InitialSnapshot

VARIABLE part

mcVars == <<part, authVars, controlVars, runtimeVars, migrationVars, initialVars>>

MCInit ==
  /\ part \in {"auth", "control", "runtime", "migration", "initial"}
  /\ AuthInit /\ ControlInit /\ RuntimeInit /\ MigrationInit /\ InitialInit
  /\ part # "migration" => builds = [m \in Migrator |-> [latest |-> 1, edited |-> 0]]
  /\ part # "initial" => catalog = [t \in Table |-> IF t = CHOOSE u \in Table : TRUE THEN 1 ELSE 0]

MCNext ==
  /\ UNCHANGED part
  /\ \/ /\ part = "auth" /\ AuthNext
        /\ UNCHANGED <<controlVars, runtimeVars, migrationVars, initialVars>>
     \/ /\ part = "control" /\ ControlNext
        /\ UNCHANGED <<authVars, runtimeVars, migrationVars, initialVars>>
     \/ /\ part = "runtime" /\ RuntimeNext
        /\ UNCHANGED <<authVars, controlVars, migrationVars, initialVars>>
     \/ /\ part = "migration" /\ MigrationNext
        /\ UNCHANGED <<authVars, controlVars, runtimeVars, initialVars>>
     \/ /\ part = "initial" /\ InitialNext
        /\ UNCHANGED <<authVars, controlVars, runtimeVars, migrationVars>>

\* The fairness of Control and of Runtime, whose reconciler takes steps in its
\* own part only.
MCSpec ==
  /\ MCInit /\ [][MCNext]_mcVars
  /\ ControlFairness
  /\ WF_runtimeVars(part = "runtime" /\ FairReconciler)
=============================================================================
