------------------------- MODULE CounterReplication -------------------------
(***************************************************************************)
(* What the counter export promises, without pages, requests or receipts:  *)
(* three versions of every bucket that follow one another.  The node       *)
(* appends versions, the central store catches up with some of them, and   *)
(* the node calls a bucket exported only at the moment when all three      *)
(* agree.  No version ever goes back.                                      *)
(***************************************************************************)
EXTENDS Naturals

CONSTANT Bucket     \* the replicated buckets

VARIABLES
  local,      \* [Bucket -> Nat] version in the node's ledger
  central,    \* [Bucket -> Nat] version stored centrally
  confirmed   \* [Bucket -> Nat] version the node knows to be stored

replicationVars == <<local, central, confirmed>>

ReplicationInit ==
  /\ local = [b \in Bucket |-> 0]
  /\ central = [b \in Bucket |-> 0]
  /\ confirmed = [b \in Bucket |-> 0]

(***************************************************************************)
(* One bucket of the ledger grows by one version.                          *)
(***************************************************************************)
Grow(b) ==
  /\ local' = [local EXCEPT ![b] = @ + 1]
  /\ UNCHANGED <<central, confirmed>>

(***************************************************************************)
(* A page is stored: any buckets advance, none past the ledger.            *)
(***************************************************************************)
Replicate ==
  /\ central' \in [Bucket -> Nat]
  /\ \A b \in Bucket : central[b] <= central'[b] /\ central'[b] <= local[b]
  /\ UNCHANGED <<local, confirmed>>

(***************************************************************************)
(* Receipts are accepted: every bucket that becomes confirmed is confirmed *)
(* at the one version that the ledger and the central store both have.     *)
(***************************************************************************)
Confirm ==
  /\ confirmed' \in [Bucket -> Nat]
  /\ \A b \in Bucket :
       confirmed'[b] # confirmed[b] =>
         /\ confirmed'[b] = local[b]
         /\ confirmed'[b] = central[b]
         /\ confirmed'[b] > confirmed[b]
  /\ UNCHANGED <<local, central>>

ReplicationNext == (\E b \in Bucket : Grow(b)) \/ Replicate \/ Confirm

ReplicationSpec == ReplicationInit /\ [][ReplicationNext]_replicationVars
=============================================================================
