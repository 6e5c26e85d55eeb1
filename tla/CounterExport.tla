---------------------------- MODULE CounterExport ----------------------------
(***************************************************************************)
(* The export of the counter ledger to the central store: the pending page *)
(* and the acknowledgements of accounting/export_state.go, ExportOnce of   *)
(* exporter/exporter.go and ingest_page of control_plane/traffic_ingest.py *)
(* over a network that delays, loses and replays requests.                 *)
(*                                                                         *)
(* A snapshot is the usage row it was read from.  Its digest is the hash   *)
(* of key, version and bytes, so comparing version and digest is comparing *)
(* rows.  A page maps every bucket to a row, NoRow for a bucket that the   *)
(* page does not carry.                                                    *)
(***************************************************************************)
EXTENDS Accounting

CONSTANTS
  Call,       \* concurrent calls of ExportOnce on the one store
  PageSize,   \* snapshots per request
  MaxLate     \* bound: abandoned requests still on their way

ASSUME ExportAssumption ==
  /\ PageSize \in Nat \ {0}
  /\ MaxLate \in Nat

Page == [Key -> Row]
NoPage == [k \in Key |-> NoRow]

VARIABLES
  acked,   \* [Key -> Row] counter_export_ack: version and digest
  call,    \* [Call -> [pc, page, receipts]]
  late,    \* pages whose call gave up but that may still reach the server
  server,  \* [Key -> Row] the central TrafficSnapshot rows
  bound    \* the credentials that the central store binds to this node

exportVars == <<acked, call, late, server, bound>>
vars == <<ledgerVars, exportVars>>

Idle == [pc |-> "idle", page |-> NoPage, receipts |-> NoPage]

ExportInit ==
  /\ acked = NoPage
  /\ call = [e \in Call |-> Idle]
  /\ late = {}
  /\ server = NoPage
  /\ bound \in SUBSET Credential

-----------------------------------------------------------------------------
(***************************************************************************)
(* PendingCounters: the buckets whose version is not the acknowledged one, *)
(* in the order of day and credential, at most PageSize of them.           *)
(***************************************************************************)
Pending == {k \in Key : acked[k].version # usage[k].version}

Before(k, l) == \/ k[2] < l[2]
                \/ k[2] = l[2] /\ k[1] < l[1]

\* Mutant: acknowledged rows consume page slots.
FirstRows ==
  {k \in Pending :
     Cardinality({l \in Key : usage[l].version > 0 /\ Before(l, k)}) < PageSize}

FirstPending ==
  {k \in Pending : Cardinality({l \in Pending : Before(l, k)}) < PageSize}

PendingPage == [k \in Key |-> IF k \in FirstPending THEN usage[k] ELSE NoRow]

Carries(page, k) == page[k].version > 0

(***************************************************************************)
(* ExportOnce up to the POST.  Without pending rows there is no request.   *)
(***************************************************************************)
Select(e) ==
  /\ call[e].pc = "idle"
  /\ Pending # {}
  /\ call' = [call EXCEPT ![e] = [pc |-> "sent", page |-> PendingPage,
                                  receipts |-> NoPage]]
  /\ UNCHANGED <<ledgerVars, acked, late, server, bound>>

-----------------------------------------------------------------------------
(***************************************************************************)
(* _require_owned_identities and the two refusals of _apply_snapshot.  One *)
(* refusal rolls the whole page back.                                      *)
(***************************************************************************)
Owned(page) == \A k \in Key : Carries(page, k) => k[1] \in bound

Conflict(snapshot, current) ==
  \/ snapshot.version = current.version /\ snapshot # current
  \/ snapshot.version > current.version /\ ~Leq(current.bytes, snapshot.bytes)

Accepts(page) ==
  /\ Owned(page)
  /\ \A k \in Key : Carries(page, k) => ~Conflict(page[k], server[k])

(***************************************************************************)
(* _apply_snapshot: a newer snapshot is inserted or replaces the row, an   *)
(* older or an equal one leaves it.  The receipt names the row that is     *)
(* stored afterwards.                                                      *)
(***************************************************************************)
\* Mutant: the last page wins.
StoredLast(page, k) == IF Carries(page, k) THEN page[k] ELSE server[k]

\* Mutant: a snapshot is taken for a delta.
StoredSum(page, k) ==
  IF page[k].version > server[k].version
  THEN [page[k] EXCEPT !.bytes = Plus(@, server[k].bytes)] ELSE server[k]

Stored(page, k) ==
  IF page[k].version > server[k].version THEN page[k] ELSE server[k]

Ingested(page) == [k \in Key |-> Stored(page, k)]

Receipts(page) ==
  [k \in Key |-> IF Carries(page, k) THEN Stored(page, k) ELSE NoRow]

(***************************************************************************)
(* ingest_page for a call that is still waiting: the receipts leave only   *)
(* after the commit.                                                       *)
(***************************************************************************)
Serve(e) ==
  /\ call[e].pc = "sent"
  /\ Accepts(call[e].page)
  /\ server' = Ingested(call[e].page)
  /\ call' = [call EXCEPT ![e].pc = "replied",
                          ![e].receipts = Receipts(call[e].page)]
  /\ UNCHANGED <<ledgerVars, acked, late, bound>>

(***************************************************************************)
(* A refused page is a non-2xx status: ExportOnce returns an error.        *)
(***************************************************************************)
Refuse(e) ==
  /\ call[e].pc = "sent"
  /\ ~Accepts(call[e].page)
  /\ call' = [call EXCEPT ![e] = Idle]
  /\ UNCHANGED <<ledgerVars, acked, late, server, bound>>

(***************************************************************************)
(* A timeout, a cancelled context, a transport error, an unreadable or     *)
(* invalid response, a failed acknowledgement transaction, or the end of   *)
(* the process: the call ends without an acknowledgement.  The server may  *)
(* have committed (pc = "replied"), may never see the request, or may see  *)
(* it later.                                                               *)
(***************************************************************************)
GiveUp(e) ==
  /\ call[e].pc # "idle"
  /\ late' \in {late} \cup
       (IF call[e].pc = "sent" /\ Cardinality(late) < MaxLate
        THEN {late \cup {call[e].page}} ELSE {})
  /\ call' = [call EXCEPT ![e] = Idle]
  /\ UNCHANGED <<ledgerVars, acked, server, bound>>

(***************************************************************************)
(* ingest_page for an abandoned request.  Its receipts reach nobody.  The  *)
(* page may arrive again: an intermediary or several calls may have sent   *)
(* the same one.                                                           *)
(***************************************************************************)
ServeLate(page) ==
  /\ late' \in {late, late \ {page}}
  /\ server' = IF Accepts(page) THEN Ingested(page) ELSE server
  /\ UNCHANGED <<ledgerVars, acked, call, bound>>

(***************************************************************************)
(* AcknowledgeCounters: in one transaction every receipt is compared with  *)
(* the usage row of now, not with the one that was sent.                   *)
(***************************************************************************)
\* Mutant: the receipt is compared with what was sent.
MatchesRequest(e, k) ==
  /\ Carries(call[e].page, k)
  /\ call[e].receipts[k] = call[e].page[k]
  /\ acked[k].version <= usage[k].version

Matches(e, k) ==
  /\ Carries(call[e].page, k)
  /\ call[e].receipts[k] = usage[k]
  /\ acked[k].version <= usage[k].version

Acknowledge(e) ==
  /\ call[e].pc = "replied"
  /\ acked' = [k \in Key |-> IF Matches(e, k) THEN usage[k] ELSE acked[k]]
  /\ call' = [call EXCEPT ![e] = Idle]
  /\ UNCHANGED <<ledgerVars, late, server, bound>>

(***************************************************************************)
(* The operator binds a credential to this node or takes it away.          *)
(***************************************************************************)
Rebind(c) ==
  /\ bound' \in {bound \cup {c}, bound \ {c}}
  /\ UNCHANGED <<ledgerVars, acked, call, late, server>>

-----------------------------------------------------------------------------
Collect == LedgerNext /\ UNCHANGED exportVars

ExportStep(e) == Select(e) \/ Serve(e) \/ Refuse(e) \/ GiveUp(e) \/ Acknowledge(e)

Init == LedgerInit /\ ExportInit

Next ==
  \/ Collect
  \/ \E e \in Call : ExportStep(e)
  \/ \E page \in late : ServeLate(page)
  \/ \E c \in Credential : Rebind(c)

Spec == Init /\ [][Next]_vars

(***************************************************************************)
(* The caller of ExportOnce keeps calling it, and neither the network nor  *)
(* the store fails for ever: while calls are made again and again, one is  *)
(* served at last, and while receipts arrive again and again, some are     *)
(* committed at last, of whichever call.  Nothing is assumed of the        *)
(* engine, of late requests or of the operator; what a liveness property   *)
(* needs of them is its hypothesis.                                        *)
(***************************************************************************)
Fairness ==
  /\ WF_vars(\E e \in Call : Select(e))
  /\ SF_vars(\E e \in Call : Serve(e)) /\ SF_vars(\E e \in Call : Acknowledge(e))

LiveSpec == Spec /\ Fairness
-----------------------------------------------------------------------------
(***************************************************************************)
(* The types of the node's tables, the calls and the central rows.         *)
(***************************************************************************)
CallType == [pc : {"idle", "sent", "replied"}, page : Page, receipts : Page]

TypeOK ==
  /\ LedgerTypeOK
  /\ acked \in Page
  /\ call \in [Call -> CallType]
  /\ late \subseteq Page
  /\ server \in Page
  /\ bound \subseteq Credential

(***************************************************************************)
(* A bucket that is not pending any more is stored centrally with exactly  *)
(* the node's bytes.  ExportOnce compares receipts after the network       *)
(* round trip, when Record may have moved the row, and must leave pending  *)
(* what the server does not have.                                          *)
(***************************************************************************)
ExportedMeansStored == \A k \in Key \ Pending : server[k] = usage[k]

(***************************************************************************)
(* ingest_page has no reason to raise VERSION_CONFLICT or                  *)
(* COUNTER_REGRESSION for any request of the node, first sent, repeated or *)
(* late: a page refused for its content would be selected again for ever.  *)
(***************************************************************************)
InFlight == {call[e].page : e \in {f \in Call : call[f].pc = "sent"}} \cup late

HonestPagesNeverConflict ==
  \A page \in InFlight, k \in Key :
    Carries(page, k) => ~Conflict(page[k], server[k])

(***************************************************************************)
(* The central row never claims more than the node has counted.            *)
(***************************************************************************)
CentralNeverAhead ==
  \A k \in Key : /\ server[k].version <= usage[k].version
                 /\ Leq(server[k].bytes, usage[k].bytes)
                 /\ server[k].version = usage[k].version => server[k] = usage[k]

(***************************************************************************)
(* Late and repeated pages never take a central total back, in either      *)
(* direction, and never rewrite a version with another content.            *)
(***************************************************************************)
CentralNeverRegresses ==
  [][\A k \in Key : server'[k] # server[k] =>
       /\ server'[k].version > server[k].version
       /\ Leq(server[k].bytes, server'[k].bytes)]_vars

(***************************************************************************)
(* A round trip that ends confirms every bucket of its page, unless the    *)
(* bucket grew while the page was under way: a slot is kept by growing and *)
(* by nothing else, however often a page is sent again, with other calls   *)
(* and late requests beside it.                                            *)
(***************************************************************************)
RoundTripConfirms ==
  [][\A e \in Call, k \in Key :
       Acknowledge(e) /\ Carries(call[e].page, k) =>
         \/ acked'[k].version = usage[k].version
         \/ usage[k].version > call[e].page[k].version]_vars

(***************************************************************************)
(* PendingCounters reaches k: fewer pending buckets than a page holds are  *)
(* in front of it.                                                         *)
(***************************************************************************)
HasSlot(k) == Cardinality({l \in Pending : Before(l, k)}) < PageSize

(***************************************************************************)
(* Version v of k, or a later one, is stored centrally, and k is confirmed *)
(* unless it has grown since.                                              *)
(***************************************************************************)
Arrives(k, v) ==
  server[k].version >= v /\ (k \notin Pending \/ usage[k].version > v)

(***************************************************************************)
(* Once every credential stays bound and the buckets in front of k leave   *)
(* it a slot, whatever k counts arrives: k itself may grow in every round  *)
(* trip.  Whole pages of busy buckets in front of k are excluded by the    *)
(* hypothesis and by nothing in the code: the order is fixed, a receipt of *)
(* a row that has grown confirms nothing, and so they starve k.            *)
(***************************************************************************)
EveryBucketIsExported ==
  \A k \in Key, v \in 1..MaxInt :
    <>[](bound = Credential /\ HasSlot(k)) => []<>(usage[k].version < v \/ Arrives(k, v))

(***************************************************************************)
(* The export implements the replication of versions.                      *)
(***************************************************************************)
Replication == INSTANCE CounterReplication WITH
  Bucket <- Key,
  local <- [k \in Key |-> usage[k].version],
  central <- [k \in Key |-> server[k].version],
  confirmed <- [k \in Key |-> acked[k].version]

ReplicatesVersions == Replication!ReplicationSpec
=============================================================================
