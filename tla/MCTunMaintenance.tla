-------------------------- MODULE MCTunMaintenance --------------------------
(***************************************************************************)
(* TunMaintenance for TLC: two user files, so that a version can be half   *)
(* published.  Transaction First is spent: a behaviour starts from the     *)
(* state that its completed "sbc tun on" leaves, or from the one after the *)
(* "sbc tun off" that followed, and two more transactions are to come.     *)
(* Calls fail only in the second case.                                     *)
(***************************************************************************)
EXTENDS TunMaintenance, TLC

CONSTANTS First

LaterSymmetry == Permutations(Tx \ {First}) \cup Permutations(File)

MCInit == \E on \in BOOLEAN :
  /\ journal = IF on THEN [id |-> First, phase |-> "active", committed |-> TRUE]
               ELSE [id |-> NoTx, phase |-> "none", committed |-> FALSE]
  /\ blocked = on
  /\ marker = on
  /\ enabled = on
  /\ installed = IF on THEN First ELSE NoTx
  /\ service = IF on THEN [job |-> "running", gen |-> First] ELSE [job |-> "off", gen |-> NoTx]
  /\ resources = on
  /\ timer = [t \in Tx |-> "none"]
  /\ expired = {First}
  /\ holder = Free
  /\ queue = {}
  /\ reply = NoReply
  /\ used = {First}
  /\ accepted = {First}
  /\ faults = [crash |-> 0, fail |-> IF on THEN MaxFailures ELSE 0]
  /\ files = [f \in File |-> NoTx]
  /\ ustate = IF on THEN First ELSE NoTx
  /\ recovery = NoRecovery
  /\ user = Idle
  /\ maint = {}
  /\ current = NoTx

MCSpec == MCInit /\ [][Next]_vars
=============================================================================
