-------------------------- MODULE TrafficWireProofs --------------------------
(***************************************************************************)
(* What the node traffic wire codec promises for any credentials, names,   *)
(* dates, counts and page limits, whatever one place of a document on its  *)
(* way is changed to.                                                      *)
(***************************************************************************)
EXTENDS TrafficWire, FiniteSetTheorems, TLAPS

-----------------------------------------------------------------------------
(***************************************************************************)
(* Lists.  A document may hold values of any kind, so a list is a function *)
(* on an interval and not a member of Seq(S).                              *)
(***************************************************************************)
Listed(s) == \E n \in Nat : s = [i \in 1 .. n |-> s[i]]

\* What a list is good for.
LEMMA ListedIsSeq ==
  ASSUME NEW s, Listed(s)
  PROVE  /\ Len(s) \in Nat /\ DOMAIN s = 1 .. Len(s) /\ s = [i \in 1 .. Len(s) |-> s[i]]
         /\ s \in Seq({s[i] : i \in DOMAIN s})
BY DEF Listed

\* Sequences are lists.
LEMMA SeqIsListed ==
  ASSUME NEW S, NEW s \in Seq(S)
  PROVE  Listed(s)
<1>1. s = [i \in 1 .. Len(s) |-> s[i]] /\ Len(s) \in Nat
  OBVIOUS
<1> QED BY <1>1 DEF Listed

\* The changes of a list on its way give lists of the same members,
LEMMA ChangedLists ==
  ASSUME NEW s, Listed(s)
  PROVE  /\ Listed(Reverse(s)) /\ ToSet(Reverse(s)) \subseteq ToSet(s)
         /\ \A i \in DOMAIN s :
              /\ Listed(RemoveAt(s, i)) /\ ToSet(RemoveAt(s, i)) \subseteq ToSet(s)
              /\ Listed(Append(s, s[i])) /\ ToSet(Append(s, s[i])) \subseteq ToSet(s)
<1> DEFINE S == {s[i] : i \in DOMAIN s}
<1>1. s \in Seq(S) /\ Len(s) \in Nat /\ DOMAIN s = 1 .. Len(s)
  BY ListedIsSeq
<1>2. Listed(Reverse(s)) /\ ToSet(Reverse(s)) \subseteq ToSet(s)
  BY <1>1 DEF Reverse, Listed, ToSet
<1>3. ASSUME NEW i \in DOMAIN s
      PROVE  /\ Listed(RemoveAt(s, i)) /\ ToSet(RemoveAt(s, i)) \subseteq ToSet(s)
             /\ Listed(Append(s, s[i])) /\ ToSet(Append(s, s[i])) \subseteq ToSet(s)
  <2>1. s[i] \in S
    OBVIOUS
  <2>2. S = ToSet(s)
    BY DEF ToSet
  <2> HIDE DEF S
  <2>3. RemoveAt(s, i) \in Seq(S) /\ Append(s, s[i]) \in Seq(S)
    BY <1>1, <1>3, <2>1 DEF RemoveAt
  <2>4. \A t \in Seq(S) : ToSet(t) \subseteq S
    BY DEF ToSet
  <2> QED BY <2>2, <2>3, <2>4, SeqIsListed
<1> QED BY <1>2, <1>3

\* ... or of one more, if a member is changed.
LEMMA ReplacedIsListed ==
  ASSUME NEW s, Listed(s), NEW i \in DOMAIN s, NEW x
  PROVE  Listed([s EXCEPT ![i] = x]) /\ ToSet([s EXCEPT ![i] = x]) \subseteq ToSet(s) \cup {x}
<1>1. Len(s) \in Nat /\ DOMAIN s = 1 .. Len(s)
  BY ListedIsSeq
<1>2. [s EXCEPT ![i] = x] = [j \in 1 .. Len(s) |-> [s EXCEPT ![i] = x][j]]
  BY <1>1
<1>3. ToSet([s EXCEPT ![i] = x]) \subseteq ToSet(s) \cup {x}
  BY DEF ToSet
<1> QED BY <1>1, <1>2, <1>3 DEF Listed

-----------------------------------------------------------------------------
(***************************************************************************)
(* Order.  The number of entries before one is its place: places are taken *)
(* once, so all of them are taken, and an ordered list keeps its places.   *)
(***************************************************************************)
\* Entries whose names have an order.
EntryList(e) == Listed(e) /\ \A i \in DOMAIN e : e[i].name \in Nat
Ordered(e) == \A i, j \in DOMAIN e : i < j => e[i].name <= e[j].name

\* An entry has fewer entries before it than another exactly if it is one of those.
LEMMA BeforeIsStrict ==
  ASSUME NEW e, EntryList(e), NEW i \in DOMAIN e
  PROVE  /\ IsFiniteSet(Before(e, i)) /\ Cardinality(Before(e, i)) \in 0 .. Len(e) - 1
         /\ \A j \in DOMAIN e \ {i} :
              Cardinality(Before(e, j)) < Cardinality(Before(e, i)) <=> j \in Before(e, i)
<1> DEFINE n == Len(e)
<1>a. n \in Nat /\ DOMAIN e = 1 .. n
  BY ListedIsSeq DEF EntryList
<1> HIDE DEF n
<1>b. IsFiniteSet(1 .. n) /\ Cardinality(1 .. n) = IF 1 > n THEN 0 ELSE n - 1 + 1
  BY <1>a, FS_Interval
<1>1. n \in Nat /\ DOMAIN e = 1 .. n /\ IsFiniteSet(1 .. n) /\ Cardinality(1 .. n) = n
  BY <1>a, <1>b
<1>2. ASSUME NEW k \in 1 .. n
      PROVE  /\ Before(e, k) \subseteq (1 .. n) \ {k} /\ IsFiniteSet(Before(e, k))
             /\ Cardinality(Before(e, k)) \in 0 .. n - 1
  <2>1. Before(e, k) \subseteq (1 .. n) \ {k}
    BY <1>1, <1>2 DEF Before, EntryList
  <2>2. IsFiniteSet((1 .. n) \ {k}) /\ Cardinality((1 .. n) \ {k}) = n - 1
    BY <1>1, <1>2, FS_RemoveElement
  <2>3. IsFiniteSet(Before(e, k)) /\ Cardinality(Before(e, k)) <= n - 1
    BY <2>1, <2>2, FS_Subset
  <2> QED BY <1>1, <2>1, <2>3, FS_CardinalityType
<1>3. ASSUME NEW j \in 1 .. n, NEW k \in 1 .. n, j \in Before(e, k)
      PROVE  Cardinality(Before(e, j)) < Cardinality(Before(e, k))
  <2>1. e[j].name \in Nat /\ e[k].name \in Nat /\ \A l \in 1 .. n : e[l].name \in Nat
    BY <1>1 DEF EntryList
  <2>2. Before(e, j) \subseteq Before(e, k)
    BY <1>1, <1>3, <2>1 DEF Before
  <2>3. Before(e, j) # Before(e, k)
    BY <1>2, <1>3
  <2> QED BY <1>2, <2>2, <2>3, FS_Subset
<1>4. ASSUME NEW j \in 1 .. n, NEW k \in 1 .. n, j # k
      PROVE  j \in Before(e, k) \/ k \in Before(e, j)
  BY <1>1, <1>4 DEF Before, EntryList
<1> QED
  <2>1. ASSUME NEW j \in DOMAIN e \ {i}
        PROVE  Cardinality(Before(e, j)) < Cardinality(Before(e, i)) <=> j \in Before(e, i)
    <3>1. Cardinality(Before(e, j)) \in 0 .. n - 1 /\ Cardinality(Before(e, i)) \in 0 .. n - 1
      BY <1>1, <1>2, <2>1
    <3> QED BY <1>1, <1>3, <1>4, <2>1, <3>1
  <2> QED BY <1>1, <1>2, <2>1 DEF n

\* No two entries have the same place, and there are as many places as entries.
LEMMA EveryPlaceIsTaken ==
  ASSUME NEW e, EntryList(e), NEW k \in DOMAIN e
  PROVE  \E i \in DOMAIN e : Cardinality(Before(e, i)) = k - 1
<1> DEFINE n == Len(e)
           rank == [i \in 1 .. n |-> Cardinality(Before(e, i))]
<1>1. n \in Nat /\ DOMAIN e = 1 .. n /\ n >= 1
  BY ListedIsSeq DEF EntryList
<1>2. rank \in [1 .. n -> 0 .. n - 1]
  BY <1>1, BeforeIsStrict
<1>3. ASSUME NEW i \in 1 .. n, NEW j \in 1 .. n, i # j
      PROVE  rank[i] # rank[j]
  <2>1. rank[i] \in Int /\ rank[j] \in Int
    BY <1>2
  <2>2. j \in Before(e, i) \/ i \in Before(e, j)
    BY <1>1, <1>3 DEF Before, EntryList
  <2> QED BY <1>1, <1>3, <2>1, <2>2, BeforeIsStrict
<1> HIDE DEF rank
<1>4. rank \in Injection(1 .. n, 0 .. n - 1)
  BY <1>2, <1>3 DEF Injection, IsInjective
<1> HIDE DEF n
<1>5. /\ IsFiniteSet(1 .. n) /\ Cardinality(1 .. n) = n
      /\ IsFiniteSet(0 .. n - 1) /\ Cardinality(0 .. n - 1) = n
  <2>1. IsFiniteSet(1 .. n) /\ Cardinality(1 .. n) = IF 1 > n THEN 0 ELSE n - 1 + 1
    BY <1>1, FS_Interval
  <2>2. IsFiniteSet(0 .. n - 1)
        /\ Cardinality(0 .. n - 1) = IF 0 > n - 1 THEN 0 ELSE n - 1 - 0 + 1
    BY <1>1, FS_Interval
  <2> QED BY <1>1, <2>1, <2>2
<1>6. rank \in Surjection(1 .. n, 0 .. n - 1)
  BY <1>4, <1>5, FS_Injection
<1>7. k - 1 \in 0 .. n - 1
  BY <1>1
<1>8. PICK i \in 1 .. n : rank[i] = k - 1
  BY <1>6, <1>7 DEF Surjection
<1> QED BY <1>1, <1>8 DEF rank

\* Sorting orders the entries and makes none up.
LEMMA SortedIsOrdered ==
  ASSUME NEW e, EntryList(e)
  PROVE  /\ EntryList(Sorted(e)) /\ Ordered(Sorted(e)) /\ DOMAIN Sorted(e) = DOMAIN e
         /\ \A k \in DOMAIN e : \E i \in DOMAIN e : Sorted(e)[k] = e[i]
<1> DEFINE n == Len(e)
           at == [k \in 1 .. n |-> CHOOSE i \in DOMAIN e : Cardinality(Before(e, i)) = k - 1]
<1>1. n \in Nat /\ DOMAIN e = 1 .. n
  BY ListedIsSeq DEF EntryList
<1>2. ASSUME NEW k \in 1 .. n PROVE at[k] \in 1 .. n /\ Cardinality(Before(e, at[k])) = k - 1
  BY <1>1, EveryPlaceIsTaken
<1>3. DOMAIN Sorted(e) = 1 .. n /\ \A k \in 1 .. n : Sorted(e)[k] = e[at[k]]
  BY <1>1 DEF Sorted
<1> HIDE DEF at, n
<1>4. Listed(Sorted(e))
  BY <1>1, <1>3 DEF Sorted, Listed
<1>5. ASSUME NEW k \in 1 .. n, NEW l \in 1 .. n, k < l
      PROVE  e[at[k]].name <= e[at[l]].name
  <2>1. at[k] # at[l] /\ at[k] \in 1 .. n /\ at[l] \in 1 .. n
        /\ ~(Cardinality(Before(e, at[l])) < Cardinality(Before(e, at[k])))
    BY <1>2, <1>5
  <2>2. at[l] \notin Before(e, at[k])
    BY <1>1, <2>1, BeforeIsStrict
  <2> QED BY <1>1, <2>1, <2>2 DEF Before, EntryList
<1>6. \A k \in 1 .. n : e[at[k]].name \in Nat
  BY <1>1, <1>2 DEF EntryList
<1>7. EntryList(Sorted(e))
  BY <1>3, <1>4, <1>6 DEF EntryList
<1>8. Ordered(Sorted(e))
  BY <1>3, <1>5 DEF Ordered
<1> QED BY <1>1, <1>2, <1>3, <1>7, <1>8

\* Sorting an ordered list changes nothing, so the hash of what is sorted is stable.
LEMMA OrderedIsSorted ==
  ASSUME NEW e, EntryList(e), Ordered(e)
  PROVE  Sorted(e) = e
<1> DEFINE n == Len(e)
<1>1. n \in Nat /\ DOMAIN e = 1 .. n /\ e = [k \in 1 .. n |-> e[k]]
  BY ListedIsSeq DEF EntryList
<1>2. ASSUME NEW i \in 1 .. n PROVE Cardinality(Before(e, i)) = i - 1
  <2>1. Before(e, i) = 1 .. i - 1
    BY <1>1 DEF Before, Ordered, EntryList
  <2> QED BY <2>1, FS_Interval
<1>3. ASSUME NEW k \in 1 .. n
      PROVE  (CHOOSE i \in DOMAIN e : Cardinality(Before(e, i)) = k - 1) = k
  BY <1>1, <1>2
<1>4. Sorted(e) = [k \in 1 .. n |-> e[k]]
  BY <1>1, <1>3 DEF Sorted
<1> QED BY <1>1, <1>4

LEMMA EmptyIsSorted == Sorted(<<>>) = <<>> /\ EntryList(<<>>) /\ Ordered(<<>>)
<1>1. EntryList(<<>>) /\ Ordered(<<>>)
  BY DEF EntryList, Ordered, Listed
<1> QED BY <1>1, OrderedIsSorted

\* The type of a value is its label.
LEMMA Values ==
  /\ \A x : /\ Has(Text(x), "text") /\ Text(x).text = x
            /\ ~Has(Text(x), "number") /\ ~Has(Text(x), "array")
            /\ Has(Number(x), "number") /\ Number(x).number = x
            /\ ~Has(Number(x), "text") /\ ~Has(Number(x), "array")
            /\ Has(Array(x), "array") /\ Array(x).array = x
            /\ ~Has(Array(x), "text") /\ ~Has(Array(x), "number")
  /\ ~Has(Null, "text") /\ ~Has(Null, "number") /\ ~Has(Null, "array")
  /\ ~Has(Fraction, "text") /\ ~Has(Fraction, "number") /\ ~Has(Fraction, "array")
BY DEF Has, Text, Number, Array, Null, Fraction

LEMMA Objects ==
  ASSUME NEW fields
  PROVE  Object(fields).fields = fields /\ ~Object(fields).twice
BY DEF Object

\* What the producer's contents are: Contents after sorting.
Lawful(c) ==
  /\ c = [kind |-> c.kind, credential_id |-> c.credential_id,
          accounting_date |-> c.accounting_date, version |-> c.version,
          upload |-> c.upload, download |-> c.download, detail |-> c.detail,
          domains |-> c.domains, destinations |-> c.destinations]
  /\ c.kind \in {"counter", "attribution"}
  /\ c.version \in Int /\ c.version <= MaxCount
  /\ c.upload \in Int /\ c.upload <= MaxCount
  /\ c.download \in Int /\ c.download <= MaxCount
  /\ c.kind = "counter" => c.detail = "none" /\ c.domains = <<>> /\ c.destinations = <<>>
  /\ c.kind = "attribution" => c.upload = 0 /\ c.download = 0
  /\ EntryList(c.domains) /\ Ordered(c.domains)
  /\ EntryList(c.destinations) /\ Ordered(c.destinations)
  /\ \A f \in Lists : \A i \in DOMAIN c[f] :
       /\ c[f][i] = [name |-> c[f][i].name, upload |-> c[f][i].upload]
       /\ c[f][i].upload \in Int /\ c[f][i].upload <= MaxCount

\* The content that is hashed and the content that is sent are one.
LEMMA LawfulIsPayload ==
  ASSUME NEW c, Lawful(c)
  PROVE  Payload(c) = c
<1>1. Sorted(c.domains) = c.domains /\ Sorted(c.destinations) = c.destinations
  BY OrderedIsSorted DEF Lawful
<1>2. [c EXCEPT !.domains = c.domains, !.destinations = c.destinations] = c
  BY DEF Lawful
<1> QED BY <1>1, <1>2 DEF Payload

LEMMA ListsAreSorted ==
  ASSUME NEW e \in EntryLists \cup {<<>>, <<[name |-> 1, upload |-> 1]>>}
  PROVE  /\ EntryList(Sorted(e)) /\ Ordered(Sorted(e))
         /\ \A i \in DOMAIN Sorted(e) :
              /\ Sorted(e)[i] = [name |-> Sorted(e)[i].name, upload |-> Sorted(e)[i].upload]
              /\ Sorted(e)[i].upload \in Int /\ Sorted(e)[i].upload <= MaxCount
<1> DEFINE Entry == [name : Nat, upload : {n \in Int : n <= MaxCount}]
<1>1. Name \subseteq Nat /\ MaxCount \in Nat /\ MaxCount >= 1
  BY WireAssumption
<1>a. \A n \in Name \cup {1}, u \in {0, 1, MaxCount} : [name |-> n, upload |-> u] \in Entry
  BY <1>1
<1>b. \A x \in Entry : x.name \in Nat
  OBVIOUS
<1>c. \A x \in Entry : x = [name |-> x.name, upload |-> x.upload]
                       /\ x.upload \in Int /\ x.upload <= MaxCount
  OBVIOUS
<1> HIDE DEF Entry
<1>2. e \in Seq(Entry)
  <2>1. CASE e = <<>>
    BY <2>1
  <2>2. CASE e = <<[name |-> 1, upload |-> 1]>>
    <3>1. [name |-> 1, upload |-> 1] \in Entry
      BY <1>a
    <3> QED BY <2>2, <3>1
  <2>3. ASSUME NEW n \in Name, e = <<[name |-> n, upload |-> MaxCount]>>
        PROVE  e \in Seq(Entry)
    <3>1. [name |-> n, upload |-> MaxCount] \in Entry
      BY <1>a
    <3> QED BY <2>3, <3>1
  <2>4. ASSUME NEW n \in Name, NEW m \in Name,
               e = <<[name |-> n, upload |-> 0], [name |-> m, upload |-> MaxCount]>>
        PROVE  e \in Seq(Entry)
    <3>1. [name |-> n, upload |-> 0] \in Entry /\ [name |-> m, upload |-> MaxCount] \in Entry
      BY <1>a
    <3> QED BY <2>4, <3>1
  <2> QED BY <2>1, <2>2, <2>3, <2>4 DEF EntryLists
<1>3. EntryList(e) /\ \A i \in DOMAIN e : e[i] \in Entry
  BY <1>2, <1>b, SeqIsListed DEF EntryList
<1>4. \A i \in DOMAIN Sorted(e) : Sorted(e)[i] \in Entry
  BY <1>3, SortedIsOrdered
<1> QED BY <1>3, <1>4, <1>c, SortedIsOrdered

LEMMA ListsReplaced ==
  ASSUME NEW c, NEW d, NEW e,
         c = [kind |-> c.kind, credential_id |-> c.credential_id,
              accounting_date |-> c.accounting_date, version |-> c.version,
              upload |-> c.upload, download |-> c.download, detail |-> c.detail,
              domains |-> c.domains, destinations |-> c.destinations]
  PROVE  [c EXCEPT !.domains = d, !.destinations = e]
         = [kind |-> c.kind, credential_id |-> c.credential_id,
            accounting_date |-> c.accounting_date, version |-> c.version,
            upload |-> c.upload, download |-> c.download, detail |-> c.detail,
            domains |-> d, destinations |-> e]
<1> DEFINE m == [c EXCEPT !.domains = d]
<1>1. m = [kind |-> c.kind, credential_id |-> c.credential_id,
           accounting_date |-> c.accounting_date, version |-> c.version,
           upload |-> c.upload, download |-> c.download, detail |-> c.detail,
           domains |-> d, destinations |-> c.destinations]
  OBVIOUS
<1>2. [c EXCEPT !.domains = d, !.destinations = e] = [m EXCEPT !.destinations = e]
  OBVIOUS
<1> HIDE DEF m
<1>3. [m EXCEPT !.destinations = e]
         = [kind |-> c.kind, credential_id |-> c.credential_id,
            accounting_date |-> c.accounting_date, version |-> c.version,
            upload |-> c.upload, download |-> c.download, detail |-> c.detail,
            domains |-> d, destinations |-> e]
  BY <1>1
<1> QED BY <1>2, <1>3

\* Whatever the producer is given, its snapshot has such a content.
LEMMA MadeIsLawful ==
  ASSUME NEW c \in Contents
  PROVE  Lawful(Payload(c))
<1> DEFINE p == Payload(c)
<1>1. p = [kind |-> c.kind, credential_id |-> c.credential_id,
          accounting_date |-> c.accounting_date, version |-> c.version,
          upload |-> c.upload, download |-> c.download, detail |-> c.detail,
          domains |-> Sorted(c.domains), destinations |-> Sorted(c.destinations)]
  <2>1. c = [kind |-> c.kind, credential_id |-> c.credential_id,
             accounting_date |-> c.accounting_date, version |-> c.version,
             upload |-> c.upload, download |-> c.download, detail |-> c.detail,
             domains |-> c.domains, destinations |-> c.destinations]
    BY DEF Contents
  <2>2. Payload(c) = [c EXCEPT !.domains = Sorted(c.domains), !.destinations = Sorted(c.destinations)]
    BY <2>1 DEF Payload
  <2> QED BY <2>1, <2>2, ListsReplaced
<1>2. MaxCount \in Nat /\ MaxCount >= 1
  BY WireAssumption
<1>3. /\ c.kind \in {"counter", "attribution"} /\ c.version \in 0 .. 1
      /\ c.upload \in {-1, 0, MaxCount} /\ c.download = 0
      /\ c.kind = "counter" => c.detail = "none" /\ c.domains = <<>> /\ c.destinations = <<>>
      /\ c.kind = "attribution" => c.upload = 0
      /\ c.domains \in EntryLists \cup {<<>>, <<[name |-> 1, upload |-> 1]>>}
      /\ c.destinations \in EntryLists \cup {<<>>, <<[name |-> 1, upload |-> 1]>>}
  BY DEF Contents
<1>4. p.domains = Sorted(c.domains) /\ p.destinations = Sorted(c.destinations)
  BY <1>1
<1>5. \A f \in Lists : \A i \in DOMAIN p[f] :
       /\ p[f][i] = [name |-> p[f][i].name, upload |-> p[f][i].upload]
       /\ p[f][i].upload \in Int /\ p[f][i].upload <= MaxCount
  BY <1>3, <1>4, ListsAreSorted DEF Lists
<1>6. EntryList(p.domains) /\ Ordered(p.domains) /\ EntryList(p.destinations) /\ Ordered(p.destinations)
  BY <1>3, <1>4, ListsAreSorted
<1>7. p.kind = "counter" => p.domains = <<>> /\ p.destinations = <<>>
  BY <1>1, <1>3, EmptyIsSorted
<1>8. /\ p.kind = c.kind /\ p.version = c.version /\ p.upload = c.upload
      /\ p.download = c.download /\ p.detail = c.detail
      /\ p = [kind |-> p.kind, credential_id |-> p.credential_id,
          accounting_date |-> p.accounting_date, version |-> p.version,
          upload |-> p.upload, download |-> p.download, detail |-> p.detail,
          domains |-> p.domains, destinations |-> p.destinations]
  BY <1>1
<1> HIDE DEF p
<1>9. /\ p.kind \in {"counter", "attribution"}
      /\ p.version \in Int /\ p.version <= MaxCount
      /\ p.upload \in Int /\ p.upload <= MaxCount
      /\ p.download \in Int /\ p.download <= MaxCount
      /\ p.kind = "counter" => p.detail = "none" /\ p.domains = <<>> /\ p.destinations = <<>>
      /\ p.kind = "attribution" => p.upload = 0 /\ p.download = 0
  BY <1>2, <1>3, <1>7, <1>8
<1>10. Lawful(p)
  BY <1>5, <1>6, <1>8, <1>9 DEF Lawful
<1> QED BY <1>10 DEF p

\* An entry's object.
LEMMA EntryIs ==
  ASSUME NEW e
  PROVE  /\ ~EntryObject(e).twice /\ DOMAIN EntryObject(e).fields = EntryFields
         /\ EntryObject(e).fields["name"] = Text(e.name)
         /\ EntryObject(e).fields["upload"] = Number(e.upload)
<1> DEFINE F == [f \in EntryFields |-> IF f = "name" THEN Text(e.name) ELSE Number(e.upload)]
<1>1. EntryObject(e).fields = F /\ ~EntryObject(e).twice
  BY Objects DEF EntryObject
<1>2. DOMAIN F = EntryFields /\ F["name"] = Text(e.name) /\ F["upload"] = Number(e.upload)
  BY DEF EntryFields
<1> HIDE DEF F
<1> QED BY <1>1, <1>2

EntryObjects(entries) == [i \in DOMAIN entries |-> EntryObject(entries[i])]

\* A snapshot's object: the fields of each kind,
LEMMA SnapshotIs ==
  ASSUME NEW s, s.content.kind \in {"counter", "attribution"}
  PROVE  /\ ~SnapshotObject(s).twice
         /\ DOMAIN SnapshotObject(s).fields = FieldsOf(s.content.kind)
         /\ SnapshotObject(s).fields["kind"] = Text(s.content.kind)
         /\ SnapshotObject(s).fields["credential_id"] = Text(s.content.credential_id)
         /\ SnapshotObject(s).fields["accounting_date"] = Text(s.content.accounting_date)
         /\ SnapshotObject(s).fields["version"] = Number(s.content.version)
         /\ SnapshotObject(s).fields["digest"] = Text(s.digest)
<1> DEFINE F == [f \in FieldsOf(s.content.kind) |->
              CASE f = "digest" -> Text(s.digest)
                [] f \in Numbers -> Number(s.content[f])
                [] f \in Lists -> Array([i \in DOMAIN s.content[f] |-> EntryObject(s.content[f][i])])
                [] OTHER -> Text(s.content[f])]
<1>1. SnapshotObject(s).fields = F /\ ~SnapshotObject(s).twice
  BY Objects DEF SnapshotObject
<1>2. /\ DOMAIN F = FieldsOf(s.content.kind)
      /\ F["kind"] = Text(s.content.kind) /\ F["credential_id"] = Text(s.content.credential_id)
      /\ F["accounting_date"] = Text(s.content.accounting_date)
      /\ F["version"] = Number(s.content.version) /\ F["digest"] = Text(s.digest)
  BY DEF FieldsOf, Identity, Numbers, Lists
<1> HIDE DEF F
<1> QED BY <1>1, <1>2

\* ... of counters,
LEMMA CounterIs ==
  ASSUME NEW s, s.content.kind = "counter"
  PROVE  /\ SnapshotObject(s).fields["upload"] = Number(s.content.upload)
         /\ SnapshotObject(s).fields["download"] = Number(s.content.download)
<1> DEFINE F == [f \in FieldsOf(s.content.kind) |->
              CASE f = "digest" -> Text(s.digest)
                [] f \in Numbers -> Number(s.content[f])
                [] f \in Lists -> Array([i \in DOMAIN s.content[f] |-> EntryObject(s.content[f][i])])
                [] OTHER -> Text(s.content[f])]
<1>1. SnapshotObject(s).fields = F
  BY Objects DEF SnapshotObject
<1>2. F["upload"] = Number(s.content.upload) /\ F["download"] = Number(s.content.download)
  BY DEF FieldsOf, Identity, Numbers, Lists
<1> HIDE DEF F
<1> QED BY <1>1, <1>2

\* ... and of attributions.
LEMMA AttributionIs ==
  ASSUME NEW s, s.content.kind = "attribution"
  PROVE  /\ SnapshotObject(s).fields["detail"] = Text(s.content.detail)
         /\ SnapshotObject(s).fields["domains"] = Array(EntryObjects(s.content.domains))
         /\ SnapshotObject(s).fields["destinations"] = Array(EntryObjects(s.content.destinations))
<1> DEFINE F == [f \in FieldsOf(s.content.kind) |->
              CASE f = "digest" -> Text(s.digest)
                [] f \in Numbers -> Number(s.content[f])
                [] f \in Lists -> Array([i \in DOMAIN s.content[f] |-> EntryObject(s.content[f][i])])
                [] OTHER -> Text(s.content[f])]
<1>1. SnapshotObject(s).fields = F
  BY Objects DEF SnapshotObject
<1>2. /\ F["detail"] = Text(s.content.detail)
      /\ F["domains"] = Array(EntryObjects(s.content.domains))
      /\ F["destinations"] = Array(EntryObjects(s.content.destinations))
  BY DEF FieldsOf, Identity, Numbers, Lists, EntryObjects
<1> HIDE DEF F
<1> QED BY <1>1, <1>2

\* The entries an array of objects is read as, before they are put in order.
AsRead(objects) ==
  [i \in DOMAIN objects |-> [name |-> objects[i].fields["name"].text,
                             upload |-> Count(objects[i], "upload")]]

\* Entries on the wire are read as the entries they were.
LEMMA EntriesReadBack ==
  ASSUME NEW e, EntryList(e), Ordered(e),
         \A i \in DOMAIN e : e[i] = [name |-> e[i].name, upload |-> e[i].upload]
  PROVE  Sorted(AsRead(EntryObjects(e))) = e
<1>1. DOMAIN EntryObjects(e) = DOMAIN e
      /\ \A i \in DOMAIN e : EntryObjects(e)[i] = EntryObject(e[i])
  BY DEF EntryObjects
<1>2. \A i \in DOMAIN e : EntryObject(e[i]).fields["name"].text = e[i].name
                          /\ Count(EntryObject(e[i]), "upload") = e[i].upload
  <2>1. \A i \in DOMAIN e : /\ EntryObject(e[i]).fields["name"] = Text(e[i].name)
                            /\ EntryObject(e[i]).fields["upload"] = Number(e[i].upload)
                            /\ "upload" \in DOMAIN EntryObject(e[i]).fields
    BY EntryIs DEF EntryFields
  <2> QED BY <2>1, Values DEF Count
<1>3. AsRead(EntryObjects(e)) = [i \in DOMAIN e |-> e[i]]
  BY <1>1, <1>2 DEF AsRead
<1>4. e = [i \in DOMAIN e |-> e[i]]
  BY ListedIsSeq DEF EntryList
<1> QED BY <1>3, <1>4, OrderedIsSorted

LEMMA EntriesAre ==
  ASSUME NEW o, NEW f
  PROVE  Entries(o, f) = Sorted(AsRead(IF f \in DOMAIN o.fields THEN o.fields[f].array ELSE <<>>))
BY DEF Entries, AsRead

\* The digest is not read into the content.
LEMMA ContentReadsBack ==
  ASSUME NEW s, Lawful(s.content), NEW o,
         DOMAIN o.fields = FieldsOf(s.content.kind),
         \A f \in DOMAIN o.fields \ {"digest"} : o.fields[f] = SnapshotObject(s).fields[f]
  PROVE  Content(o) = s.content
<1> DEFINE c == s.content
<1>1. c.kind \in {"counter", "attribution"}
  BY DEF Lawful
<1>0. PICK t : t = SnapshotObject(s)
  OBVIOUS
<1>a. /\ t.fields["kind"] = Text(c.kind) /\ t.fields["credential_id"] = Text(c.credential_id)
      /\ t.fields["accounting_date"] = Text(c.accounting_date)
      /\ t.fields["version"] = Number(c.version)
      /\ c.kind = "counter" =>
           t.fields["upload"] = Number(c.upload) /\ t.fields["download"] = Number(c.download)
      /\ c.kind = "attribution" =>
           /\ t.fields["detail"] = Text(c.detail)
           /\ t.fields["domains"] = Array(EntryObjects(c.domains))
           /\ t.fields["destinations"] = Array(EntryObjects(c.destinations))
  <2>1. /\ t.fields["kind"] = Text(c.kind) /\ t.fields["credential_id"] = Text(c.credential_id)
        /\ t.fields["accounting_date"] = Text(c.accounting_date)
        /\ t.fields["version"] = Number(c.version)
    BY <1>0, <1>1, SnapshotIs
  <2>2. c.kind = "counter" =>
           t.fields["upload"] = Number(c.upload) /\ t.fields["download"] = Number(c.download)
    BY <1>0, CounterIs
  <2>3. c.kind = "attribution" =>
           /\ t.fields["detail"] = Text(c.detail)
           /\ t.fields["domains"] = Array(EntryObjects(c.domains))
           /\ t.fields["destinations"] = Array(EntryObjects(c.destinations))
    BY <1>0, AttributionIs
  <2> QED BY <2>1, <2>2, <2>3
<1>b. \A f \in DOMAIN o.fields : f # "digest" => o.fields[f] = t.fields[f]
  BY <1>0
<1>c. DOMAIN o.fields = FieldsOf(c.kind)
  OBVIOUS
<1>2. /\ o.fields["kind"] = Text(c.kind) /\ o.fields["credential_id"] = Text(c.credential_id)
      /\ o.fields["accounting_date"] = Text(c.accounting_date)
      /\ o.fields["version"] = Number(c.version)
      /\ {"kind", "credential_id", "accounting_date", "version"} \subseteq DOMAIN o.fields
  <2>1. {"kind", "credential_id", "accounting_date", "version"} \subseteq DOMAIN o.fields
    BY <1>1, <1>c DEF FieldsOf, Identity
  <2> QED BY <1>a, <1>b, <2>1
<1>3. /\ o.fields["kind"].text = c.kind /\ o.fields["credential_id"].text = c.credential_id
      /\ o.fields["accounting_date"].text = c.accounting_date /\ Count(o, "version") = c.version
  BY <1>2, Values DEF Count
<1>4. CASE c.kind = "counter"
  <2>1. /\ o.fields["upload"] = Number(c.upload) /\ o.fields["download"] = Number(c.download)
        /\ {"upload", "download"} \subseteq DOMAIN o.fields
        /\ "detail" \notin DOMAIN o.fields
        /\ "domains" \notin DOMAIN o.fields /\ "destinations" \notin DOMAIN o.fields
    <3>1. DOMAIN o.fields = Identity \cup {"upload", "download"}
      BY <1>4, <1>c DEF FieldsOf
    <3> QED BY <1>4, <1>a, <1>b, <3>1 DEF Identity
  <2>2. Count(o, "upload") = c.upload /\ Count(o, "download") = c.download
    BY <2>1, Values DEF Count
  <2>3. AsRead(<<>>) = <<>>
    BY DEF AsRead
  <2>4. Entries(o, "domains") = <<>> /\ Entries(o, "destinations") = <<>>
    BY <2>1, <2>3, EntriesAre, EmptyIsSorted
  <2> QED BY <1>3, <1>4, <2>1, <2>2, <2>4 DEF Content, Lawful
<1>5. CASE c.kind = "attribution"
  <2>1. /\ o.fields["detail"] = Text(c.detail)
        /\ {"detail", "domains", "destinations"} \subseteq DOMAIN o.fields
        /\ "upload" \notin DOMAIN o.fields /\ "download" \notin DOMAIN o.fields
        /\ o.fields["domains"] = Array(EntryObjects(c.domains))
        /\ o.fields["destinations"] = Array(EntryObjects(c.destinations))
    <3>1. DOMAIN o.fields = Identity \cup {"detail", "domains", "destinations"}
      BY <1>5, <1>c DEF FieldsOf, Lists
    <3> QED BY <1>5, <1>a, <1>b, <3>1 DEF Identity
  <2>2. Count(o, "upload") = c.upload /\ Count(o, "download") = c.download
    BY <1>5, <2>1 DEF Count, Lawful
  <2>3. o.fields["detail"].text = c.detail
        /\ o.fields["domains"].array = EntryObjects(c.domains)
        /\ o.fields["destinations"].array = EntryObjects(c.destinations)
    BY <2>1, Values
  <2>4. /\ Sorted(AsRead(EntryObjects(c.domains))) = c.domains
        /\ Sorted(AsRead(EntryObjects(c.destinations))) = c.destinations
    BY EntriesReadBack DEF Lawful, Lists
  <2>5. Entries(o, "domains") = c.domains /\ Entries(o, "destinations") = c.destinations
    BY <2>1, <2>3, <2>4, EntriesAre
  <2> QED BY <1>3, <2>1, <2>2, <2>3, <2>5 DEF Content, Lawful
<1> QED BY <1>1, <1>4, <1>5

\* o has the fields of t, and of another value at most f.
Kept(o, t, f) ==
  DOMAIN o.fields = DOMAIN t.fields /\ \A g \in DOMAIN t.fields \ {f} : o.fields[g] = t.fields[g]

\* One change adds or removes a field, or replaces one value.
LEMMA ChangesAre ==
  ASSUME NEW t, t = Object(t.fields), "extra" \notin DOMAIN t.fields, NEW o \in Changed(t)
  PROVE  \/ o.twice /\ o.fields = t.fields
         \/ /\ DOMAIN o.fields # DOMAIN t.fields
            /\ \A g \in DOMAIN o.fields \cap DOMAIN t.fields : o.fields[g] = t.fields[g]
         \/ \E f \in DOMAIN t.fields :
              \E v \in Others(f, t.fields[f]) : o.fields[f] = v /\ Kept(o, t, f)
<1> DEFINE F == t.fields
<1>1. t = [fields |-> F, twice |-> FALSE]
  BY DEF Object
<1>2. CASE o = [t EXCEPT !.twice = TRUE]
  BY <1>1, <1>2
<1>3. CASE o = Object([f \in DOMAIN F \cup {"extra"} |-> IF f = "extra" THEN Null ELSE F[f]])
  BY <1>3, Objects
<1>4. ASSUME NEW f \in DOMAIN F, o = Without(t, f)
      PROVE  /\ DOMAIN o.fields # DOMAIN F
             /\ \A g \in DOMAIN o.fields \cap DOMAIN F : o.fields[g] = F[g]
  <2>1. o.fields = [g \in DOMAIN F \ {f} |-> F[g]]
    BY <1>1, <1>4 DEF Without
  <2> QED BY <2>1
<1>5. ASSUME NEW f \in DOMAIN F, NEW v \in Others(f, F[f]), o = [t EXCEPT !.fields[f] = v]
      PROVE  o.fields[f] = v /\ Kept(o, t, f)
  <2>1. o.fields = [F EXCEPT ![f] = v]
    BY <1>1, <1>5
  <2> QED BY <2>1 DEF Kept
<1> QED BY <1>2, <1>3, <1>4, <1>5 DEF Changed

Patched(t, f, i, x) == [t EXCEPT !.fields[f].array[i] = x]

\* A change inside an array replaces one member and keeps the other fields.
LEMMA InsideIs ==
  ASSUME NEW t, t = Object(t.fields), NEW f \in DOMAIN t.fields,
         NEW s, t.fields[f] = Array(s), NEW i \in DOMAIN s, NEW x,
         NEW o, o = Patched(t, f, i, x)
  PROVE  o.fields[f] = Array([s EXCEPT ![i] = x]) /\ Kept(o, t, f)
<1> DEFINE F == t.fields
<1>1. t = [fields |-> F, twice |-> FALSE]
  BY DEF Object
<1>2. o.fields = [F EXCEPT ![f].array[i] = x]
  BY <1>1 DEF Patched
<1>3. [F EXCEPT ![f].array[i] = x][f] = [F[f] EXCEPT !.array[i] = x]
  OBVIOUS
<1>4. [Array(s) EXCEPT !.array[i] = x] = Array([s EXCEPT ![i] = x])
  BY DEF Array
<1> QED BY <1>2, <1>3, <1>4 DEF Kept

\* What the values that matter are replaced by.
LEMMA OthersAre ==
  /\ \A f \in Lists \cup {"snapshots", "receipts"} : \A s, v : v \in Others(f, Array(s)) =>
       \/ v = Null \/ v = Array(Reverse(s))
       \/ \E i \in DOMAIN s : v = Array(RemoveAt(s, i)) \/ v = Array(Append(s, s[i]))
  /\ \A x, v : v \in Others("name", Text(x)) => v = Null \/ \E n \in Nat : v = Text(n)
  /\ \A x, v : v \in Others("digest", Text(x)) =>
       \/ v = Null \/ v = Text([x EXCEPT !.hex = FALSE])
       \/ v = Text([x EXCEPT !.of.version = @ + 1])
<1>1. ASSUME NEW f \in Lists \cup {"snapshots", "receipts"}, NEW s, NEW v \in Others(f, Array(s))
      PROVE  \/ v = Null \/ v = Array(Reverse(s))
             \/ \E i \in DOMAIN s : v = Array(RemoveAt(s, i)) \/ v = Array(Append(s, s[i]))
  <2>1. Has(Array(s), "array") /\ ~Has(Array(s), "number") /\ Array(s).array = s
    BY Values
  <2>2. f \notin {"credential_id", "accounting_date", "name", "detail", "kind", "digest"}
    BY DEF Lists
  <2>3. Others(f, Array(s)) = {Null} \cup {Array(Reverse(s))}
                              \cup {Array(RemoveAt(s, i)) : i \in DOMAIN s}
                              \cup {Array(Append(s, s[i])) : i \in DOMAIN s}
    BY <2>1, <2>2 DEF Others
  <2> QED BY <1>1, <2>3
<1>2. ASSUME NEW x, NEW v \in Others("name", Text(x))
      PROVE  v = Null \/ \E n \in Nat : v = Text(n)
  <2>1. ~Has(Text(x), "array") /\ ~Has(Text(x), "number")
    BY Values
  <2> QED BY <1>2, <2>1, WireAssumption DEF Others
<1>3. ASSUME NEW x, NEW v \in Others("digest", Text(x))
      PROVE  \/ v = Null \/ v = Text([x EXCEPT !.hex = FALSE])
             \/ v = Text([x EXCEPT !.of.version = @ + 1])
  <2>1. ~Has(Text(x), "array") /\ ~Has(Text(x), "number") /\ Text(x).text = x
    BY Values
  <2> QED BY <1>3, <2>1 DEF Others
<1> QED BY <1>1, <1>2, <1>3

-----------------------------------------------------------------------------
(***************************************************************************)
(* One snapshot on the wire.                                               *)
(***************************************************************************)
Made(s) ==
  /\ s = [content |-> s.content, digest |-> s.digest] /\ s.digest = Digest(s.content)
  /\ Lawful(s.content) /\ ValidContent(s.content)

LEMMA MadeDigest ==
  ASSUME NEW s, Made(s)
  PROVE  s.digest.of = s.content /\ s.digest.hex /\ Payload(s.content) = s.content
BY LawfulIsPayload DEF Made, Digest

\* A snapshot's object is read as its content, whatever digest it names.
LEMMA MadeParses ==
  ASSUME NEW s, Made(s), NEW o, Kept(o, SnapshotObject(s), "digest")
  PROVE  Content(o) = s.content
<1>1. s.content.kind \in {"counter", "attribution"}
  BY DEF Made, Lawful
<1> QED BY <1>1, SnapshotIs, ContentReadsBack DEF Made, Kept

\* The parser takes a snapshot the producer made and makes it again.
LEMMA MadeIsRead ==
  ASSUME NEW s, Made(s)
  PROVE  Reads(SnapshotObject(s)) /\ ParsedSnapshot(SnapshotObject(s)) = s
<1> DEFINE c == s.content
<1>0. PICK o : o = SnapshotObject(s)
  OBVIOUS
<1>1. c.kind \in {"counter", "attribution"} /\ Lawful(c) /\ ValidPayload(c)
  BY DEF Made, Lawful, ValidContent
<1>2. /\ ~o.twice /\ DOMAIN o.fields = FieldsOf(c.kind)
      /\ o.fields["kind"] = Text(c.kind) /\ o.fields["credential_id"] = Text(c.credential_id)
      /\ o.fields["accounting_date"] = Text(c.accounting_date)
      /\ o.fields["version"] = Number(c.version) /\ o.fields["digest"] = Text(s.digest)
  BY <1>0, <1>1, SnapshotIs
<1>3. /\ IsText(o, "kind") /\ IsText(o, "credential_id") /\ IsText(o, "accounting_date")
      /\ IsText(o, "digest") /\ o.fields["kind"].text = c.kind
      /\ o.fields["digest"].text = s.digest
  BY <1>2, Values DEF IsText
<1>4. IsInteger(o, "version")
  BY <1>1, <1>2, Values DEF IsInteger, Lawful
<1>5. ReadsIdentity(o)
  BY <1>3, <1>4, MadeDigest DEF ReadsIdentity, Identity
<1>6. "kind" \in DOMAIN o.fields /\ Exactly(o, FieldsOf(o.fields["kind"].text))
  BY <1>2, <1>3 DEF Exactly, FieldsOf, Identity
<1>7. ASSUME c.kind = "counter" PROVE Reads(o)
  <2>1. o.fields["upload"] = Number(c.upload) /\ o.fields["download"] = Number(c.download)
    BY <1>0, <1>7, CounterIs
  <2>2. c.upload >= 0 /\ c.download >= 0 /\ c.upload <= MaxCount /\ c.download <= MaxCount
    BY <1>1, <1>7 DEF ValidPayload, Lawful
  <2>3. IsCount(o, "upload") /\ IsCount(o, "download")
    BY <2>1, <2>2, Values DEF IsCount, IsInteger
  <2>4. o.fields["kind"].text = "counter"
    BY <1>3, <1>7
  <2> QED BY <1>3, <1>5, <1>6, <2>3, <2>4 DEF Reads
<1>8. ASSUME c.kind = "attribution" PROVE Reads(o)
  <2>1. /\ o.fields["detail"] = Text(c.detail)
        /\ o.fields["domains"] = Array(EntryObjects(c.domains))
        /\ o.fields["destinations"] = Array(EntryObjects(c.destinations))
    BY <1>0, <1>8, AttributionIs
  <2>2. \A f \in Lists : o.fields[f] = Array(EntryObjects(c[f]))
    BY <2>1 DEF Lists
  <2>3. \A f \in Lists : \A i \in DOMAIN c[f] : c[f][i].upload >= 0 /\ c[f][i].upload <= MaxCount
    BY <1>1, <1>8 DEF ValidPayload, ValidEntries, Lawful, Lists
  <2>4. ASSUME NEW f \in Lists PROVE ReadsEntries(o, f)
    <3>1. IsArray(o, f) /\ o.fields[f].array = EntryObjects(c[f])
      BY <2>2, Values DEF IsArray
    <3>2. ASSUME NEW i \in DOMAIN EntryObjects(c[f])
          PROVE  LET e == EntryObjects(c[f])[i]
                 IN Exactly(e, EntryFields) /\ IsText(e, "name") /\ IsCount(e, "upload")
      <4>1. EntryObjects(c[f])[i] = EntryObject(c[f][i]) /\ i \in DOMAIN c[f]
        BY <3>2 DEF EntryObjects
      <4>2. c[f][i].upload >= 0 /\ c[f][i].upload <= MaxCount
        BY <2>3, <4>1
      <4> QED BY <4>1, <4>2, EntryIs, Values DEF Exactly, IsText, IsCount, IsInteger
    <3> QED BY <3>1, <3>2 DEF ReadsEntries
  <2>5. IsText(o, "detail")
    BY <2>1, Values DEF IsText
  <2>6. o.fields["kind"].text = "attribution"
    BY <1>3, <1>8
  <2> QED BY <1>3, <1>5, <1>6, <2>4, <2>5, <2>6 DEF Reads
<1>9. ParsedSnapshot(o) = s
  <2>1. Kept(o, SnapshotObject(s), "digest")
    BY <1>0 DEF Kept
  <2> QED BY <1>3, <2>1, MadeParses DEF ParsedSnapshot, Made
<1> QED BY <1>0, <1>1, <1>7, <1>8, <1>9

\* The names in the lists of o have an order.
HasName(e) == "name" \in DOMAIN e.fields /\ IsText(e, "name")
Nameable(o) ==
  \A f \in Lists \cap DOMAIN o.fields : IsArray(o, f) =>
    /\ Listed(o.fields[f].array)
    /\ \A e \in ToSet(o.fields[f].array) : HasName(e) => e.fields["name"].text \in Nat

\* Whatever lists an object has, what is read of them is in order.
LEMMA ReadEntriesAreOrdered ==
  ASSUME NEW o, Reads(o), Nameable(o), NEW f \in Lists
  PROVE  EntryList(Entries(o, f)) /\ Ordered(Entries(o, f))
<1>1. CASE f \notin DOMAIN o.fields
  <2>1. AsRead(<<>>) = <<>>
    BY DEF AsRead
  <2> QED BY <1>1, <2>1, EntriesAre, EmptyIsSorted
<1>2. CASE f \in DOMAIN o.fields
  <2> DEFINE objects == o.fields[f].array
  <2>1. o.fields["kind"].text = "attribution"
    BY <1>2 DEF Reads, Exactly, FieldsOf, Lists, Identity
  <2>2. ReadsEntries(o, f)
    BY <2>1 DEF Reads
  <2>3. Listed(objects) /\ IsArray(o, f)
    BY <1>2, <2>2 DEF Nameable, ReadsEntries
  <2>4. ASSUME NEW i \in DOMAIN objects PROVE objects[i].fields["name"].text \in Nat
    <3>1. HasName(objects[i])
      BY <2>2 DEF ReadsEntries, HasName, Exactly, EntryFields
    <3> QED BY <1>2, <2>3, <3>1 DEF Nameable, ToSet
  <2> HIDE DEF objects
  <2>5. DOMAIN AsRead(objects) = DOMAIN objects
        /\ \A i \in DOMAIN objects : AsRead(objects)[i].name = objects[i].fields["name"].text
    BY DEF AsRead
  <2>6. DOMAIN objects = 1 .. Len(objects) /\ Len(objects) \in Nat
    BY <2>3, ListedIsSeq
  <2>7. Listed(AsRead(objects))
    BY <2>6 DEF AsRead, Listed
  <2>8. EntryList(AsRead(objects))
    BY <2>4, <2>5, <2>7 DEF EntryList
  <2>9. Entries(o, f) = Sorted(AsRead(objects))
    BY <1>2, EntriesAre DEF objects
  <2> QED BY <2>8, <2>9, SortedIsOrdered
<1> QED BY <1>1, <1>2

\* So the digest is computed of the content as it was read.
LEMMA ReadIsPayload ==
  ASSUME NEW o, Reads(o), Nameable(o)
  PROVE  Payload(Content(o)) = Content(o)
<1> DEFINE c == Content(o)
<1>1. /\ c = [kind |-> c.kind, credential_id |-> c.credential_id,
              accounting_date |-> c.accounting_date, version |-> c.version,
              upload |-> c.upload, download |-> c.download, detail |-> c.detail,
              domains |-> c.domains, destinations |-> c.destinations]
      /\ c.domains = Entries(o, "domains") /\ c.destinations = Entries(o, "destinations")
  BY DEF Content
<1>2. "domains" \in Lists /\ "destinations" \in Lists
  BY DEF Lists
<1>3. Sorted(c.domains) = c.domains /\ Sorted(c.destinations) = c.destinations
  BY <1>1, <1>2, ReadEntriesAreOrdered, OrderedIsSorted
<1> HIDE DEF c
<1>4. [c EXCEPT !.domains = c.domains, !.destinations = c.destinations] = c
  BY <1>1
<1>5. Payload(c) = [c EXCEPT !.domains = Sorted(c.domains), !.destinations = Sorted(c.destinations)]
  BY DEF Payload
<1>6. Payload(c) = c
  BY <1>3, <1>4, <1>5
<1> QED BY <1>6 DEF c

\* Where the digest is still the producer's, so is the content.
LEMMA KeptDigestIsRead ==
  ASSUME NEW s, Made(s), NEW o, Reads(o), Nameable(o), DigestFits(ParsedSnapshot(o)),
         o.fields["digest"] = Text(s.digest)
  PROVE  ParsedSnapshot(o) = s
<1>1. ParsedSnapshot(o) = [content |-> Content(o), digest |-> s.digest]
  BY Values DEF ParsedSnapshot
<1>2. s.digest = Digest(Content(o))
  BY <1>1 DEF DigestFits
<1>3. s.content = Payload(Content(o))
  BY <1>2, MadeDigest DEF Digest
<1>4. s.content = Content(o)
  BY <1>3, ReadIsPayload
<1> QED BY <1>1, <1>4 DEF Made

\* The entries of a snapshot are objects with names.
LEMMA EntriesAreNameable ==
  ASSUME NEW c, Lawful(c), NEW f \in Lists
  PROVE  /\ Listed(EntryObjects(c[f]))
         /\ \A e \in ToSet(EntryObjects(c[f])) :
              /\ e = Object(e.fields) /\ DOMAIN e.fields = EntryFields
              /\ \E n \in Nat : e.fields["name"] = Text(n)
<1>1. EntryList(c[f])
  BY DEF Lawful, Lists
<1>2. DOMAIN EntryObjects(c[f]) = DOMAIN c[f] /\ DOMAIN c[f] = 1 .. Len(c[f]) /\ Len(c[f]) \in Nat
  BY <1>1, ListedIsSeq DEF EntryList, EntryObjects
<1>3. Listed(EntryObjects(c[f]))
  BY <1>2 DEF EntryObjects, Listed
<1>4. ASSUME NEW e \in ToSet(EntryObjects(c[f]))
      PROVE  /\ e = Object(e.fields) /\ DOMAIN e.fields = EntryFields
             /\ \E n \in Nat : e.fields["name"] = Text(n)
  <2>1. PICK i \in DOMAIN c[f] : e = EntryObject(c[f][i])
    BY <1>2 DEF ToSet, EntryObjects
  <2>2. e = Object(e.fields)
    BY <2>1, Objects DEF EntryObject
  <2> QED BY <1>1, <2>1, <2>2, EntryIs DEF EntryList
<1> QED BY <1>3, <1>4

\* A changed entry is no entry or has a name, too.
LEMMA ChangedEntryIsNameable ==
  ASSUME NEW e, e = Object(e.fields), DOMAIN e.fields = EntryFields,
         NEW n \in Nat, e.fields["name"] = Text(n),
         NEW x \in Changed(e), HasName(x)
  PROVE  x.fields["name"].text \in Nat
<1>1. "extra" \notin DOMAIN e.fields /\ "name" \in DOMAIN e.fields /\ Text(n).text = n
  BY Values DEF EntryFields
<1>2. CASE x.fields = e.fields
  BY <1>1, <1>2
<1>3. CASE \A g \in DOMAIN x.fields \cap DOMAIN e.fields : x.fields[g] = e.fields[g]
  BY <1>1, <1>3 DEF HasName
<1>4. ASSUME NEW f \in DOMAIN e.fields, NEW v \in Others(f, e.fields[f]),
             x.fields[f] = v, Kept(x, e, f)
      PROVE  x.fields["name"].text \in Nat
  <2>1. CASE f = "name"
    <3>1. v = Null \/ \E m \in Nat : v = Text(m)
      BY <1>4, <2>1, OthersAre
    <3>2. v # Null
      BY <1>4, <2>1, Values DEF HasName, IsText
    <3> QED BY <1>4, <2>1, <3>1, <3>2, Values
  <2>2. CASE f # "name"
    BY <1>1, <1>4, <2>2 DEF Kept
  <2> QED BY <2>1, <2>2
<1> QED BY <1>1, <1>2, <1>3, <1>4, ChangesAre

\* The object of a snapshot, as the changes below see it.
LEMMA MadeIsObject ==
  ASSUME NEW s, Made(s)
  PROVE  LET t == SnapshotObject(s)
         IN /\ t = Object(t.fields) /\ "extra" \notin DOMAIN t.fields
            /\ t.fields["digest"] = Text(s.digest) /\ "digest" \in DOMAIN t.fields
            /\ "kind" \in DOMAIN t.fields
            /\ DOMAIN t.fields = FieldsOf(t.fields["kind"].text)
            /\ \A f \in Lists \cap DOMAIN t.fields :
                 t.fields[f] = Array(EntryObjects(s.content[f]))
<1>1. s.content.kind \in {"counter", "attribution"}
  BY DEF Made, Lawful
<1>2. PICK t : t = SnapshotObject(s)
  OBVIOUS
<1>3. t = Object(t.fields)
  BY <1>2, Objects DEF SnapshotObject
<1>4. /\ DOMAIN t.fields = FieldsOf(s.content.kind) /\ t.fields["kind"] = Text(s.content.kind)
      /\ t.fields["digest"] = Text(s.digest)
  BY <1>1, <1>2, SnapshotIs
<1>5. DOMAIN t.fields = FieldsOf(t.fields["kind"].text)
  BY <1>4, Values
<1>6. {"digest", "kind"} \subseteq DOMAIN t.fields /\ "extra" \notin DOMAIN t.fields
  BY <1>1, <1>4 DEF FieldsOf, Identity, Lists
<1>7. ASSUME NEW f \in Lists \cap DOMAIN t.fields
      PROVE  t.fields[f] = Array(EntryObjects(s.content[f]))
  <2>1. s.content.kind = "attribution"
    BY <1>1, <1>4, <1>7 DEF FieldsOf, Identity, Lists
  <2> QED BY <1>2, <2>1, AttributionIs DEF Lists
<1> QED BY <1>2, <1>3, <1>4, <1>5, <1>6, <1>7

LEMMA MadeIsNameable ==
  ASSUME NEW s, Made(s), NEW f \in Lists
  PROVE  /\ Listed(EntryObjects(s.content[f]))
         /\ \A e \in ToSet(EntryObjects(s.content[f])) :
              HasName(e) => e.fields["name"].text \in Nat
<1>1. Lawful(s.content)
  BY DEF Made
<1> QED BY <1>1, EntriesAreNameable, Values

\* Of a changed object nothing is read but the snapshot it was made of.
LEMMA ChangedIsRead ==
  ASSUME NEW s, Made(s), NEW o \in ChangedSnapshot(SnapshotObject(s)),
         Reads(o), ParsedSnapshot(o).digest.hex, DigestFits(ParsedSnapshot(o))
  PROVE  ParsedSnapshot(o) = s
<1>0. PICK t : t = SnapshotObject(s)
  OBVIOUS
<1>1. /\ t = Object(t.fields) /\ "extra" \notin DOMAIN t.fields
      /\ t.fields["digest"] = Text(s.digest) /\ "digest" \in DOMAIN t.fields
      /\ "kind" \in DOMAIN t.fields
      /\ DOMAIN t.fields = FieldsOf(t.fields["kind"].text)
      /\ \A f \in Lists \cap DOMAIN t.fields : t.fields[f] = Array(EntryObjects(s.content[f]))
  BY <1>0, MadeIsObject
<1>2. ASSUME NEW f \in DOMAIN t.fields, f # "digest", Kept(o, t, f),
             f \in Lists /\ IsArray(o, f) =>
               /\ Listed(o.fields[f].array)
               /\ \A e \in ToSet(o.fields[f].array) : HasName(e) => e.fields["name"].text \in Nat
      PROVE  ParsedSnapshot(o) = s
  <2>1. o.fields["digest"] = Text(s.digest) /\ DOMAIN o.fields = DOMAIN t.fields
    BY <1>1, <1>2 DEF Kept
  <2>2. ASSUME NEW g \in Lists \cap DOMAIN o.fields, IsArray(o, g)
        PROVE  /\ Listed(o.fields[g].array)
               /\ \A e \in ToSet(o.fields[g].array) : HasName(e) => e.fields["name"].text \in Nat
    <3>1. CASE g = f
      BY <1>2, <2>2, <3>1
    <3>2. CASE g # f
      <4>1. o.fields[g].array = EntryObjects(s.content[g])
        BY <1>1, <1>2, <2>1, <2>2, <3>2, Values DEF Kept
      <4> QED BY <2>2, <4>1, MadeIsNameable
    <3> QED BY <3>1, <3>2
  <2>3. Nameable(o)
    BY <2>2 DEF Nameable
  <2> QED BY <2>1, <2>3, KeptDigestIsRead
<1>3. ASSUME NEW f \in DOMAIN t.fields, NEW v \in Others(f, t.fields[f]), o.fields[f] = v, Kept(o, t, f)
      PROVE  ParsedSnapshot(o) = s
  <2>1. CASE f \in Lists
    <3> DEFINE a == EntryObjects(s.content[f])
    <3>1. t.fields[f] = Array(a) /\ Listed(a)
      BY <1>1, <1>3, <2>1, MadeIsNameable
    <3>2. \A e \in ToSet(a) : HasName(e) => e.fields["name"].text \in Nat
      BY <2>1, MadeIsNameable
    <3> HIDE DEF a
    <3>3. \/ v = Null \/ v = Array(Reverse(a))
          \/ \E i \in DOMAIN a : v = Array(RemoveAt(a, i)) \/ v = Array(Append(a, a[i]))
      BY <1>3, <2>1, <3>1, OthersAre
    <3>4. IsArray(o, f) => Listed(v.array) /\ ToSet(v.array) \subseteq ToSet(a)
      BY <1>3, <3>1, <3>3, ChangedLists, Values DEF IsArray
    <3>5. f # "digest"
      BY <2>1 DEF Lists
    <3> QED BY <1>2, <1>3, <3>2, <3>4, <3>5
  <2>2. CASE f = "digest"
    <3>1. Content(o) = s.content
      BY <1>0, <1>3, <2>2, MadeParses
    <3>2. v # Null
      BY <1>3, <2>2, Values DEF Reads, ReadsIdentity, IsText, Identity
    <3>3. \/ v = Text([s.digest EXCEPT !.hex = FALSE])
          \/ v = Text([s.digest EXCEPT !.of.version = @ + 1])
      BY <1>1, <1>3, <2>2, <3>2, OthersAre
    <3>4. ParsedSnapshot(o) = [content |-> s.content, digest |-> v.text]
      BY <1>3, <2>2, <3>1 DEF ParsedSnapshot
    <3>5. v.text = Digest(s.content) /\ Digest(s.content) = s.digest
      BY <3>4 DEF DigestFits, Made
    <3> QED BY <3>4, <3>5 DEF Made
  <2> QED BY <1>2, <1>3, <2>1, <2>2
<1>4. CASE o.twice /\ o.fields = t.fields
  BY <1>4 DEF Reads, Exactly
<1>5. CASE /\ DOMAIN o.fields # DOMAIN t.fields
           /\ \A g \in DOMAIN o.fields \cap DOMAIN t.fields : o.fields[g] = t.fields[g]
  <2>1. "kind" \in DOMAIN o.fields /\ DOMAIN o.fields = FieldsOf(o.fields["kind"].text)
    BY DEF Reads, Exactly
  <2> QED BY <1>1, <1>5, <2>1
<1>6. ASSUME NEW f \in Lists \cap DOMAIN t.fields, NEW i \in DOMAIN t.fields[f].array,
             NEW x \in Changed(t.fields[f].array[i]), o = [t EXCEPT !.fields[f].array[i] = x]
      PROVE  ParsedSnapshot(o) = s
  <2> DEFINE a == EntryObjects(s.content[f])
  <2>1. t.fields[f] = Array(a) /\ t.fields[f].array = a /\ Listed(a) /\ i \in DOMAIN a
    BY <1>1, <1>6, MadeIsNameable, Values
  <2>2. Lawful(s.content) /\ a[i] \in ToSet(a)
    BY <2>1 DEF Made, ToSet
  <2>3. HasName(x) => x.fields["name"].text \in Nat
    BY <1>6, <2>1, <2>2, EntriesAreNameable, ChangedEntryIsNameable
  <2>4. \A e \in ToSet(a) : HasName(e) => e.fields["name"].text \in Nat
    BY MadeIsNameable
  <2> HIDE DEF a
  <2>5. o.fields[f] = Array([a EXCEPT ![i] = x]) /\ Kept(o, t, f)
    <3>1. t = Object(t.fields) /\ f \in DOMAIN t.fields /\ o = Patched(t, f, i, x)
      BY <1>1, <1>6 DEF Patched
    <3> QED BY <2>1, <3>1, InsideIs
  <2>6. o.fields[f].array = [a EXCEPT ![i] = x]
    BY <2>5, Values
  <2>7. Listed([a EXCEPT ![i] = x]) /\ ToSet([a EXCEPT ![i] = x]) \subseteq ToSet(a) \cup {x}
    <3>1. Listed(a) /\ i \in DOMAIN a
      BY <2>1
    <3> QED BY <3>1, ReplacedIsListed
  <2>8. f # "digest"
    BY DEF Lists
  <2>9. \A e \in ToSet(o.fields[f].array) : HasName(e) => e.fields["name"].text \in Nat
    BY <2>3, <2>4, <2>6, <2>7
  <2>10. Listed(o.fields[f].array) /\ f \in DOMAIN t.fields
    BY <1>6, <2>6, <2>7
  <2> QED BY <1>2, <2>5, <2>8, <2>9, <2>10
<1>7. CASE o \in Changed(t)
  BY <1>1, <1>3, <1>4, <1>5, <1>7, ChangesAre
<1>8. CASE o \in Inside(t, Lists, Changed)
  BY <1>6, <1>8 DEF Inside
<1> QED BY <1>0, <1>7, <1>8 DEF ChangedSnapshot

-----------------------------------------------------------------------------
(***************************************************************************)
(* Documents.                                                              *)
(***************************************************************************)
\* The document around a list.
LEMMA EnvelopeIs ==
  ASSUME NEW field \in {"snapshots", "receipts"}, NEW list
  PROVE  /\ Envelope(field, list) = Object(Envelope(field, list).fields)
         /\ ~Envelope(field, list).twice
         /\ DOMAIN Envelope(field, list).fields = {"schema", field}
         /\ Envelope(field, list).fields["schema"] = Number(1)
         /\ Envelope(field, list).fields[field] = Array(list)
<1> DEFINE F == [f \in {"schema", field} |-> IF f = "schema" THEN Number(1) ELSE Array(list)]
<1>1. Envelope(field, list) = Object(F) /\ Object(F).fields = F /\ ~Object(F).twice
  BY Objects DEF Envelope
<1>2. DOMAIN F = {"schema", field} /\ F["schema"] = Number(1) /\ F[field] = Array(list)
  OBVIOUS
<1> HIDE DEF F
<1> QED BY <1>1, <1>2

LEMMA EnvelopeOpens ==
  ASSUME NEW field \in {"snapshots", "receipts"}, NEW list
  PROVE  Opens(Envelope(field, list), field) /\ Items(Envelope(field, list), field) = list
BY EnvelopeIs, Values DEF Opens, Exactly, IsArray, Items

\* What opens after a change holds the members it had, at most one of them changed.
LEMMA MangledOpens ==
  ASSUME NEW field \in {"snapshots", "receipts"}, NEW list, Listed(list),
         NEW d \in Mangled(Envelope(field, list)), Opens(d, field)
  PROVE  /\ Listed(Items(d, field))
         /\ \A o \in ToSet(Items(d, field)) :
              o \in ToSet(list) \/ \E p \in ToSet(list) : o \in ChangedSnapshot(p)
<1>0. PICK t : t = Envelope(field, list)
  OBVIOUS
<1>1. /\ t = Object(t.fields) /\ DOMAIN t.fields = {"schema", field}
      /\ t.fields[field] = Array(list) /\ "extra" \notin DOMAIN t.fields
  BY <1>0, EnvelopeIs
<1>2. DOMAIN d.fields = {"schema", field} /\ Has(d.fields[field], "array") /\ ~d.twice
  BY DEF Opens, Exactly, IsArray
<1>3. CASE d.fields[field] = Array(list)
  <2>1. Items(d, field) = list
    BY <1>3, Values DEF Items
  <2> QED BY <2>1
<1>4. ASSUME NEW f \in DOMAIN t.fields, NEW v \in Others(f, t.fields[f]), d.fields[f] = v, Kept(d, t, f)
      PROVE  /\ Listed(Items(d, field)) /\ ToSet(Items(d, field)) \subseteq ToSet(list)
  <2>1. CASE f = field
    <3>1. \/ v = Null \/ v = Array(Reverse(list))
          \/ \E i \in DOMAIN list : v = Array(RemoveAt(list, i)) \/ v = Array(Append(list, list[i]))
      BY <1>1, <1>4, <2>1, OthersAre
    <3>2. v # Null
      BY <1>2, <1>4, <2>1, Values
    <3> QED BY <1>4, <2>1, <3>1, <3>2, ChangedLists, Values DEF Items
  <2>2. CASE f # field
    <3>1. Items(d, field) = list
      BY <1>1, <1>4, <2>2, Values DEF Kept, Items
    <3> QED BY <3>1
  <2> QED BY <2>1, <2>2
<1>5. CASE d \in Changed(t)
  <2>1. ~d.twice /\ DOMAIN d.fields = DOMAIN t.fields
    BY <1>1, <1>2
  <2>2. PICK f \in DOMAIN t.fields : \E v \in Others(f, t.fields[f]) : d.fields[f] = v /\ Kept(d, t, f)
    BY <1>1, <1>5, <2>1, ChangesAre
  <2> QED BY <1>4, <2>2
<1>6. ASSUME NEW f \in {"snapshots", "receipts"} \cap DOMAIN t.fields,
             NEW i \in DOMAIN t.fields[f].array,
             NEW x \in ChangedSnapshot(t.fields[f].array[i]), d = [t EXCEPT !.fields[f].array[i] = x]
      PROVE  /\ Listed(Items(d, field))
             /\ \A o \in ToSet(Items(d, field)) :
                  o \in ToSet(list) \/ \E p \in ToSet(list) : o \in ChangedSnapshot(p)
  <2>1. f = field /\ f \in DOMAIN t.fields /\ t.fields[f].array = list /\ i \in DOMAIN list
    BY <1>1, <1>6, Values
  <2>2. d = Patched(t, f, i, x)
    BY <1>6 DEF Patched
  <2>3. d.fields[field] = Array([list EXCEPT ![i] = x])
    BY <1>1, <2>1, <2>2, InsideIs
  <2>4. Items(d, field) = [list EXCEPT ![i] = x]
    BY <2>3, Values DEF Items
  <2>5. Listed(Items(d, field)) /\ ToSet(Items(d, field)) \subseteq ToSet(list) \cup {x}
    <3>1. Listed([list EXCEPT ![i] = x]) /\ ToSet([list EXCEPT ![i] = x]) \subseteq ToSet(list) \cup {x}
      BY <2>1, ReplacedIsListed
    <3> QED BY <2>4, <3>1
  <2>6. list[i] \in ToSet(list) /\ x \in ChangedSnapshot(list[i])
    BY <1>6, <2>1 DEF ToSet
  <2> QED BY <2>5, <2>6
<1>7. CASE d \in Inside(t, {"snapshots", "receipts"}, ChangedSnapshot)
  BY <1>6, <1>7 DEF Inside
<1> QED BY <1>0, <1>5, <1>7 DEF Mangled

-----------------------------------------------------------------------------
(***************************************************************************)
(* Pages.                                                                  *)
(***************************************************************************)
Page(page) ==
  /\ Listed(page) /\ Len(page) \in 1 .. MaxItems
  /\ \A s \in ToSet(page) : Made(s)
  /\ UniqueKeys([i \in DOMAIN page |-> page[i].content])

\* A page's document.
LEMMA PageIsEncoded ==
  ASSUME NEW page, Listed(page)
  PROVE  LET objects == [i \in DOMAIN page |-> SnapshotObject(page[i])]
         IN /\ EncodedRequest(page) = Envelope("snapshots", objects) /\ Listed(objects)
            /\ DOMAIN objects = DOMAIN page
            /\ \A o \in ToSet(objects) : \E s \in ToSet(page) : o = SnapshotObject(s)
<1> DEFINE objects == [i \in DOMAIN page |-> SnapshotObject(page[i])]
<1>1. DOMAIN page = 1 .. Len(page) /\ Len(page) \in Nat
  BY ListedIsSeq
<1>2. Listed(objects)
  BY <1>1 DEF Listed
<1>3. \A o \in ToSet(objects) : \E s \in ToSet(page) : o = SnapshotObject(s)
  BY DEF ToSet
<1> QED BY <1>2, <1>3 DEF EncodedRequest

\* The parser reads the members of a document one by one.
LEMMA ItemsAreParsed ==
  ASSUME NEW d, Listed(Items(d, "snapshots"))
  PROVE  /\ Listed(ParsedRequest(d)) /\ DOMAIN ParsedRequest(d) = DOMAIN Items(d, "snapshots")
         /\ \A i \in DOMAIN Items(d, "snapshots") :
              ParsedRequest(d)[i] = ParsedSnapshot(Items(d, "snapshots")[i])
<1> DEFINE items == Items(d, "snapshots")
<1>1. DOMAIN items = 1 .. Len(items) /\ Len(items) \in Nat
  BY ListedIsSeq
<1>2. ParsedRequest(d) = [i \in DOMAIN items |-> ParsedSnapshot(items[i])]
  BY DEF ParsedRequest
<1> HIDE DEF items
<1>3. /\ Listed(ParsedRequest(d)) /\ DOMAIN ParsedRequest(d) = DOMAIN items
      /\ \A i \in DOMAIN items : ParsedRequest(d)[i] = ParsedSnapshot(items[i])
  BY <1>1, <1>2 DEF Listed
<1> QED BY <1>3 DEF items

\* An honest page arrives.
LEMMA HonestPageArrives ==
  ASSUME NEW page, Page(page)
  PROVE  AcceptsRequest(EncodedRequest(page)) /\ ParsedRequest(EncodedRequest(page)) = page
<1> DEFINE objects == [i \in DOMAIN page |-> SnapshotObject(page[i])]
           d == EncodedRequest(page)
<1>1. Listed(page) /\ \A i \in DOMAIN page : Made(page[i])
  BY DEF Page, ToSet
<1>2. d = Envelope("snapshots", objects) /\ Listed(objects)
  BY <1>1, PageIsEncoded
<1>3. Opens(d, "snapshots") /\ Items(d, "snapshots") = objects
  BY <1>2, EnvelopeOpens
<1>4. \A i \in DOMAIN page : Reads(objects[i]) /\ ParsedSnapshot(objects[i]) = page[i]
  BY <1>1, MadeIsRead
<1>5. page = [i \in DOMAIN page |-> page[i]]
  BY <1>1, ListedIsSeq
<1>6. ParsedRequest(d) = page
  BY <1>3, <1>4, <1>5 DEF ParsedRequest
<1>7. ValidRequest(page)
  <2>1. \A i \in DOMAIN page : ValidContent(page[i].content) /\ page[i].digest.hex /\ DigestFits(page[i])
    BY <1>1, MadeDigest DEF Made, DigestFits
  <2> QED BY <2>1 DEF ValidRequest, Page
<1>8. \A i \in DOMAIN Items(d, "snapshots") : Reads(Items(d, "snapshots")[i])
  BY <1>3, <1>4
<1> QED BY <1>3, <1>6, <1>7, <1>8 DEF AcceptsRequest

\* Of a changed page nothing is accepted but snapshots it had.
LEMMA ChangedPageIsSent ==
  ASSUME NEW page, Page(page), NEW d \in Mangled(EncodedRequest(page)), AcceptsRequest(d)
  PROVE  /\ Listed(ParsedRequest(d)) /\ ToSet(ParsedRequest(d)) \subseteq ToSet(page)
         /\ UniqueKeys([i \in DOMAIN ParsedRequest(d) |-> ParsedRequest(d)[i].content])
<1> DEFINE objects == [i \in DOMAIN page |-> SnapshotObject(page[i])]
           items == Items(d, "snapshots")
<1>1. /\ EncodedRequest(page) = Envelope("snapshots", objects) /\ Listed(objects)
      /\ \A o \in ToSet(objects) : \E s \in ToSet(page) : o = SnapshotObject(s)
  BY PageIsEncoded DEF Page
<1> HIDE DEF objects
<1>2. /\ Opens(d, "snapshots") /\ \A i \in DOMAIN items : Reads(items[i])
      /\ ValidRequest(ParsedRequest(d))
  BY DEF AcceptsRequest
<1>3. /\ Listed(items)
      /\ \A o \in ToSet(items) :
           o \in ToSet(objects) \/ \E p \in ToSet(objects) : o \in ChangedSnapshot(p)
  BY <1>1, <1>2, MangledOpens
<1>4. /\ Listed(ParsedRequest(d)) /\ DOMAIN ParsedRequest(d) = DOMAIN items
      /\ \A i \in DOMAIN items : ParsedRequest(d)[i] = ParsedSnapshot(items[i])
  BY <1>3, ItemsAreParsed
<1>5. ASSUME NEW i \in DOMAIN items PROVE ParsedRequest(d)[i] \in ToSet(page)
  <2>1. /\ Reads(items[i]) /\ ParsedSnapshot(items[i]).digest.hex
        /\ DigestFits(ParsedSnapshot(items[i])) /\ items[i] \in ToSet(items)
    BY <1>2, <1>4 DEF ValidRequest, ToSet
  <2>2. PICK s \in ToSet(page) : \/ items[i] = SnapshotObject(s)
                                 \/ items[i] \in ChangedSnapshot(SnapshotObject(s))
    BY <1>1, <1>3, <2>1
  <2>3. Made(s)
    BY DEF Page
  <2>4. ParsedSnapshot(items[i]) = s
    BY <2>1, <2>2, <2>3, MadeIsRead, ChangedIsRead
  <2> QED BY <1>4, <2>4
<1>6. ToSet(ParsedRequest(d)) \subseteq ToSet(page)
  BY <1>4, <1>5 DEF ToSet
<1> QED BY <1>2, <1>4, <1>6 DEF ValidRequest

-----------------------------------------------------------------------------
(***************************************************************************)
(* Receipts.                                                               *)
(***************************************************************************)
\* r is a stored version of the snapshot s.
Stored(r, s) ==
  /\ r.content.kind = s.content.kind /\ r.content.credential_id = s.content.credential_id
  /\ r.content.accounting_date = s.content.accounting_date
  /\ r.content.version \in 1 .. MaxCount /\ r.digest.hex

\* A receipt's object.
LEMMA ReceiptIs ==
  ASSUME NEW r
  PROVE  /\ ~ReceiptObject(r).twice /\ DOMAIN ReceiptObject(r).fields = Identity
         /\ ReceiptObject(r).fields["kind"] = Text(r.content.kind)
         /\ ReceiptObject(r).fields["credential_id"] = Text(r.content.credential_id)
         /\ ReceiptObject(r).fields["accounting_date"] = Text(r.content.accounting_date)
         /\ ReceiptObject(r).fields["version"] = Number(r.content.version)
         /\ ReceiptObject(r).fields["digest"] = Text(r.digest)
<1> DEFINE F == [f \in Identity |-> CASE f = "digest" -> Text(r.digest)
                                      [] f = "version" -> Number(r.content.version)
                                      [] OTHER -> Text(r.content[f])]
<1>1. ReceiptObject(r).fields = F /\ ~ReceiptObject(r).twice
  BY Objects DEF ReceiptObject
<1>2. /\ DOMAIN F = Identity
      /\ F["kind"] = Text(r.content.kind) /\ F["credential_id"] = Text(r.content.credential_id)
      /\ F["accounting_date"] = Text(r.content.accounting_date)
      /\ F["version"] = Number(r.content.version) /\ F["digest"] = Text(r.digest)
  BY DEF Identity
<1> HIDE DEF F
<1> QED BY <1>1, <1>2

\* The receipt of a stored version is read and names the snapshot's key.
LEMMA ReceiptIsRead ==
  ASSUME NEW s, Made(s), NEW r, Stored(r, s)
  PROVE  ReadsReceipt(ReceiptObject(r)) /\ Key(Content(ReceiptObject(r))) = Key(s.content)
<1> DEFINE c == s.content
<1>0. PICK o : o = ReceiptObject(r)
  OBVIOUS
<1>1. /\ ~o.twice /\ DOMAIN o.fields = Identity
      /\ o.fields["kind"] = Text(c.kind) /\ o.fields["credential_id"] = Text(c.credential_id)
      /\ o.fields["accounting_date"] = Text(c.accounting_date)
      /\ o.fields["version"] = Number(r.content.version) /\ o.fields["digest"] = Text(r.digest)
  BY <1>0, ReceiptIs DEF Stored
<1>2. /\ IsText(o, "kind") /\ IsText(o, "credential_id") /\ IsText(o, "accounting_date")
      /\ IsText(o, "digest") /\ o.fields["kind"].text = c.kind
      /\ o.fields["credential_id"].text = c.credential_id
      /\ o.fields["accounting_date"].text = c.accounting_date
      /\ o.fields["digest"].text = r.digest
  BY <1>1, Values DEF IsText
<1>3. IsInteger(o, "version") /\ Count(o, "version") = r.content.version
  <2>1. r.content.version <= MaxCount /\ "version" \in DOMAIN o.fields
    BY <1>1 DEF Stored, Identity
  <2> QED BY <1>1, <2>1, Values DEF IsInteger, Count
<1>4. ReadsIdentity(o)
  BY <1>2, <1>3 DEF ReadsIdentity, Identity, Stored
<1>5. /\ Content(o).kind = c.kind /\ Content(o).credential_id = c.credential_id
      /\ Content(o).accounting_date = c.accounting_date /\ Content(o).version = r.content.version
  BY <1>2, <1>3 DEF Content
<1>6. c.credential_id \in Credential /\ ValidDate(c.accounting_date) /\ r.content.version >= 1
      /\ c.kind \in {"counter", "attribution"}
  BY DEF Made, ValidContent, ValidPayload, ValidIdentity, Lawful, Stored
<1>7. ValidIdentity(Content(o))
  BY <1>5, <1>6 DEF ValidIdentity
<1>8. ReadsReceipt(o)
  BY <1>1, <1>2, <1>4, <1>6, <1>7 DEF ReadsReceipt, Exactly
<1>9. Key(Content(o)) = Key(c)
  BY <1>5 DEF Key
<1> QED BY <1>0, <1>8, <1>9

\* The server may answer with the snapshot it got or with a newer version.
LEMMA NewerIsStored ==
  ASSUME NEW s, Made(s)
  PROVE  Stored(s, s) /\ Stored(Snapshot([s.content EXCEPT !.version = MaxCount]), s)
<1> DEFINE c == s.content
           n == [c EXCEPT !.version = MaxCount]
<1>1. MaxCount \in 1 .. MaxCount
  BY WireAssumption
<1>2. c.version \in 1 .. MaxCount
  BY <1>1 DEF Made, ValidContent, ValidPayload, ValidIdentity, Lawful
<1>3. Stored(s, s)
  BY <1>2, MadeDigest DEF Stored
<1>4. /\ n.kind = c.kind /\ n.credential_id = c.credential_id
      /\ n.accounting_date = c.accounting_date /\ n.version = MaxCount
  BY DEF Made, Lawful
<1> HIDE DEF n
<1>5. /\ Payload(n).kind = n.kind /\ Payload(n).credential_id = n.credential_id
      /\ Payload(n).accounting_date = n.accounting_date /\ Payload(n).version = n.version
  BY DEF Payload
<1>6. Snapshot(n).content = Payload(n) /\ Snapshot(n).digest.hex
  BY DEF Snapshot, Digest
<1>7. Stored(Snapshot(n), s)
  BY <1>1, <1>4, <1>5, <1>6 DEF Stored
<1> QED BY <1>3, <1>7 DEF n

\* Receipts for every snapshot of a page, in the page's order or in reverse, cover it.
LEMMA AnswersAreAccepted ==
  ASSUME NEW page, Page(page),
         NEW at \in [DOMAIN page -> DOMAIN page], \A i \in DOMAIN page : at[at[i]] = i,
         NEW stored, Listed(stored), DOMAIN stored = DOMAIN page,
         \A i \in DOMAIN page : Stored(stored[i], page[at[i]])
  PROVE  AcceptsReceipts(EncodedReceipts(stored), page)
<1> DEFINE objects == [i \in DOMAIN stored |-> ReceiptObject(stored[i])]
           d == EncodedReceipts(stored)
<1>1. d = Envelope("receipts", objects)
  BY DEF EncodedReceipts
<1>2. Opens(d, "receipts") /\ Items(d, "receipts") = objects
  BY <1>1, EnvelopeOpens
<1>3. ASSUME NEW i \in DOMAIN page
      PROVE  ReadsReceipt(objects[i]) /\ Key(Content(objects[i])) = Key(page[at[i]].content)
  <2>1. Made(page[at[i]])
    BY DEF Page, ToSet
  <2> QED BY <2>1, ReceiptIsRead
<1>4. Len(objects) \in 1 .. MaxItems
  <2>1. DOMAIN page = 1 .. Len(page) /\ Len(page) \in Nat /\ Len(page) \in 1 .. MaxItems
    BY ListedIsSeq DEF Page
  <2> QED BY <2>1
<1>5. /\ DOMAIN ParsedReceipts(d) = DOMAIN page
      /\ \A i \in DOMAIN page : ParsedReceipts(d)[i] = Content(objects[i])
  BY <1>2 DEF ParsedReceipts
<1>6. \A i \in DOMAIN page : Key(ParsedReceipts(d)[i]) = Key(page[at[i]].content)
  BY <1>3, <1>5
<1>7. \A i, j \in DOMAIN page : Key(page[i].content) = Key(page[j].content) => i = j
  BY DEF Page, UniqueKeys
<1>8. UniqueKeys(ParsedReceipts(d))
  <2>1. ASSUME NEW i \in DOMAIN page, NEW j \in DOMAIN page,
               Key(ParsedReceipts(d)[i]) = Key(ParsedReceipts(d)[j])
        PROVE  i = j
    <3>1. at[i] = at[j]
      BY <1>6, <1>7, <2>1
    <3> QED BY <3>1
  <2> QED BY <1>5, <2>1 DEF UniqueKeys
<1>9. {Key(ParsedReceipts(d)[i]) : i \in DOMAIN ParsedReceipts(d)}
        = {Key(page[i].content) : i \in DOMAIN page}
  BY <1>5, <1>6
<1>10. \A i \in DOMAIN Items(d, "receipts") : ReadsReceipt(Items(d, "receipts")[i])
  BY <1>2, <1>3
<1> QED BY <1>2, <1>4, <1>8, <1>9, <1>10 DEF AcceptsReceipts, Covers

\* Pages and receipts that cover each other have the same length.
LEMMA CoveringHasItsLength ==
  ASSUME NEW page, Page(page), NEW answers, Listed(answers), Covers(page, answers)
  PROVE  /\ Len(answers) = Len(page)
         /\ \A i \in DOMAIN page : \E j \in DOMAIN answers : Key(answers[j]) = Key(page[i].content)
<1> DEFINE K == {Key(answers[i]) : i \in DOMAIN answers}
           a == [i \in DOMAIN answers |-> Key(answers[i])]
           p == [i \in DOMAIN page |-> Key(page[i].content)]
<1>1. /\ DOMAIN page = 1 .. Len(page) /\ Len(page) \in Nat
      /\ DOMAIN answers = 1 .. Len(answers) /\ Len(answers) \in Nat
  BY ListedIsSeq DEF Page
<1>2. K = {Key(page[i].content) : i \in DOMAIN page}
  BY DEF Covers
<1>3. a \in Bijection(DOMAIN answers, K)
  BY DEF Covers, UniqueKeys, Bijection, Injection, Surjection, IsInjective
<1>4. p \in Bijection(DOMAIN page, K)
  BY <1>2 DEF Page, UniqueKeys, Bijection, Injection, Surjection, IsInjective
<1> HIDE DEF K, a, p
<1>5. /\ ExistsBijection(DOMAIN answers, K) /\ ExistsBijection(DOMAIN page, K)
  BY <1>3, <1>4 DEF ExistsBijection
<1>6. /\ IsFiniteSet(DOMAIN answers) /\ Cardinality(DOMAIN answers) = Len(answers)
      /\ IsFiniteSet(DOMAIN page) /\ Cardinality(DOMAIN page) = Len(page)
  <2>1. \A n \in Nat : IsFiniteSet(1 .. n) /\ Cardinality(1 .. n) = n
    <3>1. ASSUME NEW n \in Nat PROVE IsFiniteSet(1 .. n) /\ Cardinality(1 .. n) = IF 1 > n THEN 0 ELSE n - 1 + 1
      BY FS_Interval
    <3> QED BY <3>1
  <2> QED BY <1>1, <2>1
<1>7. Cardinality(K) = Len(answers) /\ Cardinality(K) = Len(page)
  BY <1>5, <1>6, FS_Bijection
<1>8. \A i \in DOMAIN page : Key(page[i].content) \in {Key(answers[j]) : j \in DOMAIN answers}
  BY <1>2 DEF K
<1> QED BY <1>7, <1>8

-----------------------------------------------------------------------------
(***************************************************************************)
(* The exchange.                                                           *)
(***************************************************************************)
\* What is on its way, at each place.
PageOnItsWay ==
  pc = "page" =>
    \/ wire = EncodedRequest(sent)
    \/ tampered /\ wire \in Mangled(EncodedRequest(sent))

PageArrived ==
  pc = "parsed" =>
    /\ Listed(got) /\ ToSet(got) \subseteq ToSet(sent)
    /\ ~tampered => got = sent
    /\ UniqueKeys([i \in DOMAIN got |-> got[i].content])

ReceiptsOnTheirWay ==
  pc = "receipts" =>
    \E list : /\ Listed(list)
              /\ \/ wire = Envelope("receipts", list) /\ (~tampered => AcceptsReceipts(wire, sent))
                 \/ tampered /\ wire \in Mangled(Envelope("receipts", list))

ReceiptsArrived == pc = "done" => Listed(receipts) /\ Covers(sent, receipts)

WireInv ==
  /\ pc \in {"start", "page", "parsed", "receipts", "done", "refused"}
  /\ ~tampered => pc # "refused"
  /\ pc # "start" => Page(sent)
  /\ PageOnItsWay /\ PageArrived /\ ReceiptsOnTheirWay /\ ReceiptsArrived

\* The producer's page is made of lawful snapshots.
LEMMA MakeKeepsInv ==
  ASSUME NEW contents, Listed(contents), \A i \in DOMAIN contents : contents[i] \in Contents,
         WireInv, Make(contents)
  PROVE  WireInv'
<1> DEFINE page == [i \in DOMAIN contents |-> Snapshot(contents[i])]
<1>1. /\ pc' = "page" /\ sent' = page /\ ValidRequest(page) /\ wire' = EncodedRequest(sent')
      /\ tampered' = tampered
  BY DEF Make
<1>2. Listed(page)
  BY ListedIsSeq DEF Listed
<1>3. ASSUME NEW i \in DOMAIN contents PROVE Made(page[i])
  <2>1. page[i] = [content |-> Payload(contents[i]), digest |-> Digest(contents[i])]
    BY DEF Snapshot
  <2>2. page[i].digest = Digest(page[i].content) /\ ValidContent(page[i].content)
    BY <1>1 DEF ValidRequest, DigestFits
  <2>3. Lawful(Payload(contents[i]))
    BY MadeIsLawful
  <2> HIDE DEF page
  <2> QED BY <2>1, <2>2, <2>3 DEF Made
<1>4. Page(page)
  <2>1. DOMAIN page = DOMAIN contents
    OBVIOUS
  <2>2. \A s \in ToSet(page) : Made(s)
    BY <1>3, <2>1 DEF ToSet
  <2> QED BY <1>1, <1>2, <2>2 DEF Page, ValidRequest
<1> HIDE DEF page
<1> QED BY <1>1, <1>4 DEF WireInv, PageOnItsWay, PageArrived, ReceiptsOnTheirWay, ReceiptsArrived

\* Only one change is made, and it is remembered.
LEMMA TamperKeepsInv == WireInv /\ Tamper => WireInv'
<1> SUFFICES ASSUME WireInv, Tamper PROVE WireInv'
  OBVIOUS
<1>1. /\ pc \in {"page", "receipts"} /\ ~tampered /\ wire' \in Mangled(wire) /\ tampered'
      /\ UNCHANGED <<sent, got, receipts, pc>>
  BY DEF Tamper
<1>2. CASE pc = "page"
  <2>1. wire' \in Mangled(EncodedRequest(sent'))
    BY <1>1, <1>2 DEF WireInv, PageOnItsWay
  <2> QED BY <1>1, <1>2, <2>1 DEF WireInv, PageOnItsWay, PageArrived, ReceiptsOnTheirWay, ReceiptsArrived
<1>3. CASE pc = "receipts"
  <2>1. PICK list : Listed(list) /\ wire = Envelope("receipts", list)
    BY <1>1, <1>3 DEF WireInv, ReceiptsOnTheirWay
  <2>2. wire' \in Mangled(Envelope("receipts", list))
    BY <1>1, <2>1
  <2> QED BY <1>1, <1>3, <2>1, <2>2 DEF WireInv, PageOnItsWay, PageArrived, ReceiptsOnTheirWay, ReceiptsArrived
<1> QED BY <1>1, <1>2, <1>3

\* What the parser takes was sent; an honest page is taken.
LEMMA ParseKeepsInv == WireInv /\ Parse => WireInv'
<1> SUFFICES ASSUME WireInv, Parse PROVE WireInv'
  OBVIOUS
<1>1. /\ pc = "page" /\ Page(sent) /\ Listed(sent)
      /\ UniqueKeys([i \in DOMAIN sent |-> sent[i].content])
      /\ sent' = sent /\ tampered' = tampered /\ UNCHANGED <<sent, wire, receipts, tampered>>
  BY DEF Parse, WireInv, Page
<1>2. CASE AcceptsRequest(wire)
  <2>1. got' = ParsedRequest(wire) /\ pc' = "parsed"
    BY <1>2 DEF Parse
  <2>2. /\ Listed(got') /\ ToSet(got') \subseteq ToSet(sent)
        /\ ~tampered => got' = sent
        /\ UniqueKeys([i \in DOMAIN got' |-> got'[i].content])
    <3>1. CASE wire = EncodedRequest(sent)
      <4>1. got' = sent
        BY <1>1, <2>1, <3>1, HonestPageArrives
      <4> QED BY <1>1, <4>1
    <3>2. CASE tampered /\ wire \in Mangled(EncodedRequest(sent))
      BY <1>1, <1>2, <2>1, <3>2, ChangedPageIsSent
    <3> QED BY <1>1, <3>1, <3>2 DEF WireInv, PageOnItsWay
  <2> QED BY <1>1, <2>1, <2>2 DEF WireInv, PageOnItsWay, PageArrived, ReceiptsOnTheirWay, ReceiptsArrived
<1>3. CASE ~AcceptsRequest(wire)
  <2>1. pc' = "refused"
    BY <1>3 DEF Parse
  <2>2. tampered
    BY <1>1, <1>3, HonestPageArrives DEF WireInv, PageOnItsWay
  <2> QED BY <1>1, <2>1, <2>2 DEF WireInv, PageOnItsWay, PageArrived, ReceiptsOnTheirWay, ReceiptsArrived
<1> QED BY <1>2, <1>3

\* The server's receipts cover an honest page, in either order.
LEMMA AnswerKeepsInv == WireInv /\ Answer => WireInv'
<1> SUFFICES ASSUME WireInv, Answer PROVE WireInv'
  OBVIOUS
<1> DEFINE Version(s, newer) ==
             IF newer THEN Snapshot([s.content EXCEPT !.version = MaxCount]) ELSE s
<1>1. PICK page \in {got, Reverse(got)}, newer \in BOOLEAN :
        wire' = EncodedReceipts([i \in DOMAIN page |-> Version(page[i], newer)])
  BY DEF Answer
<1> DEFINE stored == [i \in DOMAIN page |-> Version(page[i], newer)]
           objects == [i \in DOMAIN stored |-> ReceiptObject(stored[i])]
<1>2. /\ pc = "parsed" /\ pc' = "receipts" /\ Page(sent) /\ Listed(got)
      /\ ~tampered => got = sent
      /\ UNCHANGED <<sent, got, receipts, tampered>>
  BY DEF Answer, WireInv, PageArrived
<1>3. Listed(page)
  BY <1>2, ChangedLists
<1>4. Listed(stored) /\ DOMAIN stored = DOMAIN page
  BY <1>3, ListedIsSeq DEF Listed
<1>5. Listed(objects) /\ wire' = Envelope("receipts", objects)
  BY <1>1, <1>4, ListedIsSeq DEF Listed, EncodedReceipts
<1>6. ASSUME ~tampered PROVE AcceptsReceipts(wire', sent)
  <2> DEFINE n == Len(sent)
             at == [i \in DOMAIN sent |-> IF page = sent THEN i ELSE n - i + 1]
  <2>1. got = sent /\ DOMAIN sent = 1 .. n /\ n \in Nat
    BY <1>2, <1>6, ListedIsSeq
  <2>2. at \in [DOMAIN sent -> DOMAIN sent] /\ \A i \in DOMAIN sent : at[at[i]] = i
    BY <2>1
  <2>3. DOMAIN page = DOMAIN sent /\ \A i \in DOMAIN sent : page[i] = sent[at[i]]
    BY <2>1 DEF Reverse
  <2>4. ASSUME NEW i \in DOMAIN sent PROVE Stored(stored[i], sent[at[i]])
    <3>1. Made(sent[at[i]])
      BY <1>2, <2>2 DEF Page, ToSet
    <3>2. stored[i] = Version(sent[at[i]], newer)
      BY <2>3
    <3> HIDE DEF at, stored
    <3> QED BY <3>1, <3>2, NewerIsStored
  <2> HIDE DEF at, stored
  <2> QED BY <1>1, <1>2, <1>4, <2>2, <2>3, <2>4, AnswersAreAccepted DEF stored
<1> HIDE DEF objects
<1> QED BY <1>2, <1>5, <1>6 DEF WireInv, PageOnItsWay, PageArrived, ReceiptsOnTheirWay, ReceiptsArrived

\* Receipts are accepted if they cover the page; honest ones are.
LEMMA ParseReceiptsKeepsInv == WireInv /\ ParseReceipts => WireInv'
<1> SUFFICES ASSUME WireInv, ParseReceipts PROVE WireInv'
  OBVIOUS
<1>1. pc = "receipts" /\ Page(sent) /\ UNCHANGED <<sent, wire, got, tampered>>
  BY DEF ParseReceipts, WireInv
<1>2. PICK list :
        /\ Listed(list)
        /\ \/ wire = Envelope("receipts", list) /\ (~tampered => AcceptsReceipts(wire, sent))
           \/ tampered /\ wire \in Mangled(Envelope("receipts", list))
  BY <1>1 DEF WireInv, ReceiptsOnTheirWay
<1>3. CASE AcceptsReceipts(wire, sent)
  <2>1. pc' = "done" /\ receipts' = ParsedReceipts(wire)
    BY <1>3 DEF ParseReceipts
  <2>2. Opens(wire, "receipts") /\ Covers(sent, ParsedReceipts(wire))
    BY <1>3 DEF AcceptsReceipts
  <2>3. Listed(Items(wire, "receipts"))
    BY <1>2, <2>2, EnvelopeOpens, MangledOpens
  <2>4. Listed(ParsedReceipts(wire))
    BY <2>3, ListedIsSeq DEF ParsedReceipts, Listed
  <2> QED BY <1>1, <2>1, <2>2, <2>4 DEF WireInv, PageOnItsWay, PageArrived, ReceiptsOnTheirWay, ReceiptsArrived
<1>4. CASE ~AcceptsReceipts(wire, sent)
  <2>1. pc' = "refused" /\ tampered
    BY <1>2, <1>4 DEF ParseReceipts
  <2> QED BY <1>1, <2>1 DEF WireInv, PageOnItsWay, PageArrived, ReceiptsOnTheirWay, ReceiptsArrived
<1> QED BY <1>3, <1>4

\* Every step keeps the invariant.
LEMMA ExchangeKeepsInv == WireInv /\ [Next]_vars => WireInv'
<1> SUFFICES ASSUME WireInv, [Next]_vars PROVE WireInv'
  OBVIOUS
<1>1. ASSUME NEW c \in Contents, Make(<<c>>) PROVE WireInv'
  <2>1. <<c>> \in Seq(Contents)
    OBVIOUS
  <2>2. Listed(<<c>>) /\ \A i \in DOMAIN <<c>> : <<c>>[i] \in Contents
    <3>1. Listed(<<c>>)
      BY <2>1, SeqIsListed
    <3>2. \A i \in DOMAIN <<c>> : <<c>>[i] \in Contents
      BY <2>1
    <3> QED BY <3>1, <3>2
  <2> QED BY <1>1, <2>2, MakeKeepsInv
<1>2. ASSUME NEW c \in Contents, NEW d \in Contents, Make(<<c, d>>) PROVE WireInv'
  <2>1. <<c, d>> \in Seq(Contents)
    OBVIOUS
  <2>2. Listed(<<c, d>>) /\ \A i \in DOMAIN <<c, d>> : <<c, d>>[i] \in Contents
    <3>1. Listed(<<c, d>>)
      BY <2>1, SeqIsListed
    <3>2. \A i \in DOMAIN <<c, d>> : <<c, d>>[i] \in Contents
      BY <2>1
    <3> QED BY <3>1, <3>2
  <2> QED BY <1>2, <2>2, MakeKeepsInv
<1>3. CASE UNCHANGED vars
  BY <1>3 DEF vars, WireInv, PageOnItsWay, PageArrived, ReceiptsOnTheirWay, ReceiptsArrived
<1> QED BY <1>1, <1>2, <1>3, TamperKeepsInv, ParseKeepsInv, AnswerKeepsInv, ParseReceiptsKeepsInv DEF Next

\* What is on its way, in each step of the exchange, was made of a lawful page
\* by at most one change (MakeRequest, ParseRequest, ParseReceiptResponse).
THEOREM ExchangeInvariant == Spec => []WireInv
<1>1. Init => WireInv
  BY DEF Init, WireInv, PageOnItsWay, PageArrived, ReceiptsOnTheirWay, ReceiptsArrived
<1> QED BY <1>1, ExchangeKeepsInv, PTL DEF Spec

\* The parser accepts an honest page as it was made, and of a changed one only
\* snapshots that were made, each key once (ParseRequest, validateRequest).
THEOREM AcceptedWasMade == Spec => []AcceptedIsSent
<1>1. WireInv => AcceptedIsSent
  BY DEF WireInv, PageArrived, AcceptedIsSent
<1> QED BY <1>1, ExchangeInvariant, PTL

\* Accepted receipts answer each snapshot of the page once
\* (ValidateReceiptCoverage).
THEOREM ReceiptsCover == Spec => []ReceiptsCoverThePage
<1>1. WireInv => ReceiptsCoverThePage
  BY CoveringHasItsLength DEF WireInv, ReceiptsArrived, ReceiptsCoverThePage
<1> QED BY <1>1, ExchangeInvariant, PTL
=============================================================================
