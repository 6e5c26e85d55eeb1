--------------------------- MODULE MCNodeLifecycle ---------------------------
(***************************************************************************)
(* The node lifecycle for TLC: one account in every generation, as the     *)
(* accepted scope of the fixture has it, and an account per generation     *)
(* (NewAccount) for where a sample is booked.                              *)
(***************************************************************************)
EXTENDS NodeLifecycle, TLC

OneAccount == [g \in Generation |-> CHOOSE c \in Credential : TRUE]
NewAccount == [g \in Generation |-> g]
LifecycleSymmetry == Permutations(Invocation)
=============================================================================
