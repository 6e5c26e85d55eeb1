-------------------------- MODULE AccountingProofs --------------------------
(***************************************************************************)
(* What holds of the ledger, alone or under any component that writes it   *)
(* by its methods, and then of its export, for all credentials, days,      *)
(* invocations and widths.                                                 *)
(***************************************************************************)
EXTENDS CounterExport, FiniteSetTheorems, TLAPS

(***************************************************************************)
(* The order of the rows one bucket goes through: x is y, or an earlier    *)
(* version of it with at most its bytes.                                   *)
(***************************************************************************)
Follows(y, x) ==
  /\ x.version <= y.version
  /\ Leq(x.bytes, y.bytes)
  /\ x.version = y.version => x = y

-----------------------------------------------------------------------------
(***************************************************************************)
(* Rows and versions.                                                      *)
(***************************************************************************)
LEMMA NoRowIsRow == NoRow \in Row
  BY AccountingAssumption DEF NoRow, Row, NoBytes, Bytes

\* The order of byte counters is reflexive
LEMMA LeqReflexive == ASSUME NEW x \in Bytes PROVE Leq(x, x)
  BY AccountingAssumption DEF Leq, Bytes

\* ... and transitive.
LEMMA LeqTransitive ==
  ASSUME NEW x \in Bytes, NEW y \in Bytes, NEW z \in Bytes,
         Leq(x, y), Leq(y, z)
  PROVE  Leq(x, z)
<1>1. ASSUME NEW dir \in Direction PROVE x[dir] <= z[dir]
  <2>1. x[dir] <= y[dir] /\ y[dir] <= z[dir]
    BY DEF Leq
  <2>2. x[dir] \in Int /\ y[dir] \in Int /\ z[dir] \in Int
    BY AccountingAssumption DEF Bytes
  <2> QED BY <2>1, <2>2
<1> QED BY <1>1 DEF Leq

\* A row follows itself.
LEMMA FollowsReflexive == ASSUME NEW x \in Row PROVE Follows(x, x)
  BY LeqReflexive, AccountingAssumption DEF Follows, Row

\* Rows that follow one another form a chain.
LEMMA FollowsTransitive ==
  ASSUME NEW x \in Row, NEW y \in Row, NEW z \in Row,
         Follows(z, y), Follows(y, x)
  PROVE  Follows(z, x)
<1>1. /\ x.version \in Int /\ y.version \in Int /\ z.version \in Int
      /\ x.bytes \in Bytes /\ y.bytes \in Bytes /\ z.bytes \in Bytes
  BY AccountingAssumption DEF Row
<1>2. Leq(x.bytes, z.bytes)
  BY <1>1, LeqTransitive DEF Follows
<1> QED BY <1>1, <1>2 DEF Follows

(***************************************************************************)
(* Record's arithmetic stays within the width, and the bucket it writes is *)
(* its old content or the next version of it.                              *)
(***************************************************************************)
LEMMA GrownBucket ==
  ASSUME NEW row \in Row, NEW last \in Bytes, NEW reading \in Bytes,
         NEW delta, delta = Minus(reading, last),
         ~Regresses(last, reading), delta # NoBytes => Fits(row, delta)
  PROVE  /\ Grown(row, delta) \in Row
         /\ Follows(Grown(row, delta), row)
         /\ Grown(row, delta) # row =>
              /\ Grown(row, delta).version = row.version + 1
              /\ Grown(row, delta).bytes # row.bytes
<1>1. CASE delta = NoBytes
  BY <1>1, FollowsReflexive DEF Grown
<1>2. CASE delta # NoBytes
  <2>1. Grown(row, delta)
          = [version |-> row.version + 1, bytes |-> Plus(row.bytes, delta)]
    BY <1>2 DEF Grown
  <2>2. row.version \in 0..MaxInt /\ row.bytes \in Bytes /\ MaxInt \in Nat
    BY AccountingAssumption DEF Row
  <2>3. ASSUME NEW dir \in Direction
        PROVE  /\ delta[dir] = reading[dir] - last[dir]
               /\ delta[dir] \in Nat
               /\ row.bytes[dir] \in Nat
               /\ row.bytes[dir] + delta[dir] <= MaxInt
    <3>1. reading[dir] \in Nat /\ last[dir] \in Nat /\ row.bytes[dir] \in Nat
      BY <2>2 DEF Bytes
    <3>2. last[dir] <= reading[dir]
      BY <3>1 DEF Regresses
    <3>3. delta[dir] = reading[dir] - last[dir]
      BY DEF Minus
    <3>4. row.bytes[dir] <= MaxInt - delta[dir]
      BY <1>2 DEF Fits
    <3> QED BY <2>2, <3>1, <3>2, <3>3, <3>4
  <2>4. Plus(row.bytes, delta) \in Bytes
    BY <2>2, <2>3 DEF Plus, Bytes
  <2>5. row.version + 1 \in 0..MaxInt
    BY <1>2, <2>2 DEF Fits
  <2>6. Grown(row, delta) \in Row
    BY <2>1, <2>4, <2>5 DEF Row
  <2>7. Leq(row.bytes, Plus(row.bytes, delta))
    BY <2>3 DEF Leq, Plus
  <2>8. PICK dir \in Direction : delta[dir] # 0
    <3>1. delta = [dir \in Direction |-> reading[dir] - last[dir]]
      BY DEF Minus
    <3> QED BY <1>2, <3>1 DEF NoBytes
  <2>9. Plus(row.bytes, delta) # row.bytes
    <3>1. Plus(row.bytes, delta)[dir] = row.bytes[dir] + delta[dir]
      BY DEF Plus
    <3>2. row.bytes[dir] + delta[dir] # row.bytes[dir]
      BY <2>3, <2>8
    <3> QED BY <3>1, <3>2
  <2> QED BY <2>1, <2>2, <2>6, <2>7, <2>9 DEF Follows
<1> QED BY <1>1, <1>2

-----------------------------------------------------------------------------
(***************************************************************************)
(* The ledger on its own.                                                  *)
(***************************************************************************)
LEMMA LastReadingType ==
  ASSUME LedgerTypeOK, NEW i \in Invocation, NEW c \in Credential
  PROVE  LastReading(i, c) \in Bytes
<1>1. NoBytes \in Bytes
  BY AccountingAssumption DEF NoBytes, Bytes
<1> QED BY <1>1 DEF LedgerTypeOK, LastReading

\* A sample gives its bucket a row that follows the old one and is one version later;
\* every other row stays (Record).
LEMMA RecordStep ==
  ASSUME LedgerTypeOK,
         NEW i \in Invocation, NEW c \in Credential, NEW d \in Day,
         NEW reading \in Bytes, Record(i, c, reading, d)
  PROVE  /\ LedgerTypeOK'
         /\ \A k \in Key :
              /\ Follows(usage'[k], usage[k])
              /\ usage'[k] # usage[k] =>
                   /\ usage'[k].version = usage[k].version + 1
                   /\ usage'[k].bytes # usage[k].bytes
<1> DEFINE last == LastReading(i, c)
           delta == Minus(reading, last)
           kk == <<c, d>>
           new == Grown(usage[kk], delta)
<1>1. kk \in Key /\ usage[kk] \in Row /\ last \in Bytes
  BY LastReadingType DEF Key, LedgerTypeOK
<1>2. ~Regresses(last, reading) /\ (delta # NoBytes => Fits(usage[kk], delta))
  BY DEF Record
<1>3. /\ new \in Row
      /\ Follows(new, usage[kk])
      /\ new # usage[kk] => /\ new.version = usage[kk].version + 1
                            /\ new.bytes # usage[kk].bytes
  <2> HIDE DEF last, kk, delta
  <2>1. delta = Minus(reading, last)
    BY DEF delta
  <2> QED BY <1>1, <1>2, <2>1, GrownBucket
<1>4. /\ usage' = [usage EXCEPT ![kk] = new]
      /\ checkpoints' = [checkpoints EXCEPT ![i][c] = reading]
      /\ finished' = finished
      /\ gaps' = gaps \cup (Sampled(c) \ ({i} \cup finished))
  BY DEF Record, Abandoned
<1>5. LedgerTypeOK'
  <2> HIDE DEF new, kk
  <2>1. usage' \in [Key -> Row]
    BY <1>1, <1>3, <1>4 DEF LedgerTypeOK
  <2>2. checkpoints' \in [Invocation -> [Credential -> Bytes \cup {NoReading}]]
    BY <1>4 DEF LedgerTypeOK
  <2>3. finished' \subseteq Invocation /\ gaps' \subseteq Invocation
    BY <1>4 DEF LedgerTypeOK, Sampled
  <2> QED BY <2>1, <2>2, <2>3 DEF LedgerTypeOK
<1>6. ASSUME NEW k \in Key
      PROVE  /\ Follows(usage'[k], usage[k])
             /\ usage'[k] # usage[k] =>
                  /\ usage'[k].version = usage[k].version + 1
                  /\ usage'[k].bytes # usage[k].bytes
  <2> HIDE DEF new, kk
  <2>1. usage[k] \in Row /\ usage \in [Key -> Row]
    BY DEF LedgerTypeOK
  <2>2. CASE k = kk
    BY <1>1, <1>3, <1>4, <2>1, <2>2
  <2>3. CASE k # kk
    BY <1>4, <2>1, <2>3, FollowsReflexive
  <2> QED BY <2>2, <2>3
<1> QED BY <1>5, <1>6

(***************************************************************************)
(* Every step of the ledger keeps its types and only appends versions.     *)
(***************************************************************************)
LEMMA LedgerStep ==
  ASSUME LedgerTypeOK, [LedgerNext]_ledgerVars
  PROVE  /\ LedgerTypeOK'
         /\ \A k \in Key :
              /\ Follows(usage'[k], usage[k])
              /\ usage'[k] # usage[k] =>
                   /\ usage'[k].version = usage[k].version + 1
                   /\ usage'[k].bytes # usage[k].bytes
<1>1. ASSUME usage' = usage
      PROVE  \A k \in Key : Follows(usage'[k], usage[k])
  BY <1>1, FollowsReflexive DEF LedgerTypeOK
<1>2. CASE UNCHANGED ledgerVars
  BY <1>1, <1>2 DEF ledgerVars, LedgerTypeOK
<1>3. ASSUME NEW i \in Invocation, NEW c \in Credential, NEW d \in Day,
             NEW reading \in Bytes, Record(i, c, reading, d)
      PROVE  /\ LedgerTypeOK'
             /\ \A k \in Key :
                  /\ Follows(usage'[k], usage[k])
                  /\ usage'[k] # usage[k] =>
                       /\ usage'[k].version = usage[k].version + 1
                       /\ usage'[k].bytes # usage[k].bytes
  BY <1>3, RecordStep
<1>4. ASSUME NEW i \in Invocation, Finish(i)
      PROVE  LedgerTypeOK' /\ usage' = usage
  BY <1>4 DEF Finish, LedgerTypeOK
<1>5. ASSUME NEW i \in Invocation, Gap(i)
      PROVE  LedgerTypeOK' /\ usage' = usage
  BY <1>5 DEF Gap, LedgerTypeOK
<1> QED BY <1>1, <1>2, <1>3, <1>4, <1>5 DEF LedgerNext

\* The empty ledger is typed.
LEMMA LedgerInitType == LedgerInit => LedgerTypeOK
  BY NoRowIsRow DEF LedgerInit, LedgerTypeOK

(***************************************************************************)
(* The ledger's tables keep their types; in particular no version and no   *)
(* byte counter passes MaxInt.                                             *)
(***************************************************************************)
THEOREM LedgerTypes == LedgerSpec => []LedgerTypeOK
<1>1. LedgerTypeOK /\ [LedgerNext]_ledgerVars => LedgerTypeOK'
  BY LedgerStep
<1> QED BY <1>1, LedgerInitType, PTL DEF LedgerSpec

(***************************************************************************)
(* A version of a bucket names one content for ever.                       *)
(***************************************************************************)
THEOREM LedgerVersions == LedgerSpec => VersionsNameContents
<1>1. LedgerTypeOK /\ [LedgerNext]_ledgerVars =>
        [\A k \in Key :
           usage'[k] # usage[k] =>
             /\ usage'[k].version = usage[k].version + 1
             /\ Leq(usage[k].bytes, usage'[k].bytes)
             /\ usage'[k].bytes # usage[k].bytes]_ledgerVars
  BY LedgerStep DEF Follows
<1> QED BY <1>1, LedgerTypes, PTL DEF LedgerSpec, VersionsNameContents

(***************************************************************************)
(* Of the invocations that sampled a credential at most one is neither     *)
(* finished nor reported as a gap.                                         *)
(***************************************************************************)
THEOREM LedgerCoverage == LedgerSpec => []OneOpenInvocation
<1>1. LedgerInit => OneOpenInvocation
  BY DEF LedgerInit, OneOpenInvocation, Sampled
<1>2. ASSUME LedgerTypeOK, OneOpenInvocation, [LedgerNext]_ledgerVars
      PROVE  OneOpenInvocation'
  <2>1. ASSUME NEW i \in Invocation, NEW c \in Credential, NEW d \in Day,
               NEW reading \in Bytes, Record(i, c, reading, d)
        PROVE  OneOpenInvocation'
    <3>1. /\ finished' = finished
          /\ gaps' = gaps \cup (Sampled(c) \ ({i} \cup finished))
          /\ checkpoints' = [checkpoints EXCEPT ![i][c] = reading]
      BY <2>1 DEF Record, Abandoned
    <3>2. Sampled(c)' \subseteq Sampled(c) \cup {i}
      BY <3>1 DEF Sampled, LedgerTypeOK
    <3>3. \A o \in Credential \ {c} : Sampled(o)' = Sampled(o)
      BY <3>1 DEF Sampled, LedgerTypeOK
    <3>4. Sampled(c)' \ (finished' \cup gaps') \subseteq {i}
      BY <3>1, <3>2
    <3>5. ASSUME NEW o \in Credential
          PROVE  \A a, b \in Sampled(o)' \ (finished' \cup gaps') : a = b
      BY <1>2, <3>1, <3>3, <3>4 DEF OneOpenInvocation
    <3> QED BY <3>5 DEF OneOpenInvocation
  <2>2. CASE UNCHANGED checkpoints /\ gaps \subseteq gaps'
                                   /\ finished \subseteq finished'
    BY <1>2, <2>2 DEF OneOpenInvocation, Sampled
  <2>3. ASSUME NEW i \in Invocation, Finish(i) \/ Gap(i)
        PROVE  OneOpenInvocation'
    BY <2>2, <2>3 DEF Finish, Gap
  <2>4. CASE UNCHANGED ledgerVars
    BY <2>2, <2>4 DEF ledgerVars
  <2> QED BY <1>2, <2>1, <2>3, <2>4 DEF LedgerNext
<1> QED BY <1>1, <1>2, LedgerTypes, PTL DEF LedgerSpec

(***************************************************************************)
(* A finished invocation without a gap never gets one, and gaps stay.      *)
(***************************************************************************)
THEOREM LedgerFinality == LedgerSpec => CoverageIsFinal
<1>1. [LedgerNext]_ledgerVars =>
        [/\ gaps \subseteq gaps'
         /\ finished \subseteq finished'
         /\ finished \cap gaps' \subseteq gaps]_ledgerVars
  BY DEF LedgerNext, Record, Abandoned, Finish, Gap
<1> QED BY <1>1, PTL DEF LedgerSpec, CoverageIsFinal
-----------------------------------------------------------------------------
(***************************************************************************)
(* Sums over a finite set.  The library's induction theorems take the      *)
(* formula as an operator; here a set of subsets stands for it, which is   *)
(* all of them because the strict order of subsets is well-founded.        *)
(***************************************************************************)
\* sums adds g over every subset of S, one chosen element after the other: what
\* MapThenSumSet chooses.
Sums(sums, S, g) ==
  sums = [s \in SUBSET S |->
            IF s = {} THEN 0
            ELSE LET x == CHOOSE x \in s : TRUE IN g[x] + sums[s \ {x}]]

\* Every subset of a finite set is good when one is as soon as all that miss one of
\* its elements are.
LEMMA SubsetInduction ==
  ASSUME NEW S, IsFiniteSet(S), NEW Good \in SUBSET SUBSET S,
         \A s \in SUBSET S : (\A x \in s : s \ {x} \in Good) => s \in Good
  PROVE  S \in Good
<1> DEFINE Bad == (SUBSET S) \ Good
<1>1. SUFFICES ASSUME Bad # {} PROVE FALSE
  OBVIOUS
<1>2. Bad \subseteq FiniteSubsetsOf(S)
  BY FS_FiniteSubsetsOfFinite
<1>3. PICK s \in Bad : \A t \in Bad : <<t, s>> \notin StrictSubsetOrdering(S)
  <2> HIDE DEF Bad
  <2>1. IsWellFoundedOn(StrictSubsetOrdering(S), FiniteSubsetsOf(S))
    BY FS_StrictSubsetOrderingWellFounded
  <2> QED BY <1>1, <1>2, <2>1, WFMin
<1>4. ASSUME NEW x \in s PROVE s \ {x} \in Good
  <2>1. <<s \ {x}, s>> \in StrictSubsetOrdering(S)
    BY DEF StrictSubsetOrdering
  <2> QED BY <1>3, <2>1
<1>5. s \in SUBSET S /\ s \notin Good
  BY <1>3
<1> QED BY <1>4, <1>5

\* Natural numbers have sums: that of g over s counts the pairs of an element and a
\* number up to its value.
LEMMA SumsExist ==
  ASSUME NEW S, IsFiniteSet(S), NEW m \in Nat, NEW g \in [S -> 0 .. m]
  PROVE  \E sums : Sums(sums, S, g)
<1> DEFINE W(s) == {p \in S \X (1 .. m) : p[1] \in s /\ p[2] <= g[p[1]]}
           it == [s \in SUBSET S |-> Cardinality(W(s))]
<1>1. \A s \in SUBSET S : IsFiniteSet(W(s))
  <2>1. IsFiniteSet(1 .. m)
    BY FS_Interval
  <2>2. IsFiniteSet(S \X (1 .. m))
    BY <2>1, FS_Product
  <2> QED BY <2>2, FS_Subset
<1>2. it[{}] = 0
  <2>1. W({}) = {} OBVIOUS
  <2> QED BY <2>1, FS_EmptySet
<1>3. ASSUME NEW s \in SUBSET S, NEW x \in s PROVE it[s] = g[x] + it[s \ {x}]
  <2> DEFINE C == {x} \X (1 .. g[x])
  <2>1. W(s) = W(s \ {x}) \cup C
    <3>1. ASSUME NEW p \in W(s) PROVE p \in W(s \ {x}) \cup C
      <4>1. p = <<p[1], p[2]>> /\ p[2] \in 1 .. m /\ p[1] \in S
        OBVIOUS
      <4> QED BY <4>1
    <3>2. ASSUME NEW p \in C PROVE p \in W(s)
      OBVIOUS
    <3> QED BY <3>1, <3>2
  <2>2. W(s \ {x}) \cap C = {}
    OBVIOUS
  <2>3. IsFiniteSet(C) /\ Cardinality(C) = g[x]
    <3>1. PICK n \in Nat : n = g[x]
      OBVIOUS
    <3>2. IsFiniteSet(1 .. n) /\ Cardinality(1 .. n) = n
      <4>1. Cardinality(1 .. n) = IF 1 > n THEN 0 ELSE n - 1 + 1
        BY FS_Interval
      <4> QED BY <4>1, FS_Interval
    <3>3. IsFiniteSet({x}) /\ Cardinality({x}) = 1
      BY FS_Singleton
    <3>4. /\ IsFiniteSet({x} \X (1 .. n))
          /\ Cardinality({x} \X (1 .. n)) = Cardinality({x}) * Cardinality(1 .. n)
      <4>1. IsFiniteSet({x}) /\ IsFiniteSet(1 .. n)
        BY <3>2, <3>3
      <4> QED BY <4>1, FS_Product, Zenon
    <3> QED BY <3>1, <3>2, <3>3, <3>4
  <2>4. IsFiniteSet(W(s \ {x})) /\ Cardinality(W(s \ {x})) \in Nat
    BY <1>1, FS_CardinalityType
  <2>5. Cardinality(W(s)) = Cardinality(W(s \ {x})) + Cardinality(C) - Cardinality({})
    BY <2>1, <2>2, <2>3, <2>4, FS_Union
  <2> QED BY <2>3, <2>4, <2>5, FS_EmptySet
<1>4. Sums(it, S, g)
  <2> HIDE DEF W
  <2>1. ASSUME NEW s \in SUBSET S
        PROVE  it[s] = IF s = {} THEN 0 ELSE LET x == CHOOSE x \in s : TRUE IN g[x] + it[s \ {x}]
    <3>1. s # {} => (CHOOSE x \in s : TRUE) \in s
      OBVIOUS
    <3> QED BY <1>2, <1>3, <3>1
  <2> QED BY <2>1 DEF Sums
<1> QED BY <1>4

\* On S, g and h are integers and differ at y, or nowhere.
DifferAt(y, S, g, h) ==
  /\ y \in S
  /\ \A x \in S : g[x] \in Int /\ h[x] \in Int
  /\ \A x \in S : x # y => h[x] = g[x]

\* The sums of two functions differ as the functions do.
LEMMA SumsDiffer ==
  ASSUME NEW S, IsFiniteSet(S), NEW g, NEW h, NEW y, NEW p, NEW q,
         DifferAt(y, S, g, h), Sums(p, S, g), Sums(q, S, h)
  PROVE  p[S] \in Int /\ q[S] = p[S] + (h[y] - g[y])
<1> DEFINE Good == {s \in SUBSET S : /\ p[s] \in Int
                                     /\ q[s] = p[s] + (IF y \in s THEN h[y] - g[y] ELSE 0)}
<1>1. ASSUME NEW s \in SUBSET S, \A x \in s : s \ {x} \in Good
      PROVE  s \in Good
  <2>1. CASE s = {}
    BY <2>1 DEF Sums
  <2>2. CASE s # {}
    <3> DEFINE x == CHOOSE x \in s : TRUE
    <3>1. x \in s
      BY <2>2
    <3>2. p[s] = g[x] + p[s \ {x}] /\ q[s] = h[x] + q[s \ {x}]
      BY <2>2 DEF Sums
    <3>3. s \ {x} \in Good
      BY <1>1, <3>1
    <3> HIDE DEF x
    <3>4. CASE x = y
      BY <3>1, <3>2, <3>3, <3>4 DEF DifferAt
    <3>5. CASE x # y
      BY <3>1, <3>2, <3>3, <3>5 DEF DifferAt
    <3> QED BY <3>4, <3>5
  <2> QED BY <2>1, <2>2
<1>2. S \in Good
  <2>1. Good \in SUBSET SUBSET S
    OBVIOUS
  <2> HIDE DEF Good
  <2> QED BY <1>1, <2>1, SubsetInduction
<1> QED BY <1>2 DEF DifferAt

\* Zeros add up to zero.
LEMMA SumOfZeros ==
  ASSUME NEW S, IsFiniteSet(S), NEW g, \A x \in S : g[x] = 0, NEW p, Sums(p, S, g)
  PROVE  p[S] = 0
<1> DEFINE Good == {s \in SUBSET S : p[s] = 0}
<1>1. ASSUME NEW s \in SUBSET S, \A x \in s : s \ {x} \in Good
      PROVE  s \in Good
  <2>1. CASE s = {}
    BY <2>1 DEF Sums
  <2>2. CASE s # {}
    <3> DEFINE x == CHOOSE x \in s : TRUE
    <3>1. x \in s
      BY <2>2
    <3>2. p[s] = g[x] + p[s \ {x}]
      BY <2>2 DEF Sums
    <3>3. s \ {x} \in Good
      BY <1>1, <3>1
    <3> HIDE DEF x
    <3> QED BY <3>1, <3>2, <3>3
  <2> QED BY <2>1, <2>2
<1>2. S \in Good
  <2>1. Good \in SUBSET SUBSET S
    OBVIOUS
  <2> HIDE DEF Good
  <2> QED BY <1>1, <2>1, SubsetInduction
<1> QED BY <1>2

-----------------------------------------------------------------------------
(***************************************************************************)
(* Every byte is counted once: a sample adds as much to the bucket that it *)
(* writes as to the last reading of its invocation.                        *)
(***************************************************************************)
\* The bytes of a credential in the buckets of table u ...
UsageSum(u, c, dir) == MapThenSumSet(LAMBDA d : u[<<c, d>>].bytes[dir], Day)

\* ... and in the last readings of checkpoint table k.
Latest(k, i, c) == IF k[i][c] = NoReading THEN NoBytes ELSE k[i][c]
ReadSum(k, c, dir) == MapThenSumSet(LAMBDA i : Latest(k, i, c)[dir], Invocation)

\* The buckets add up ...
LEMMA UsageSumAdds ==
  ASSUME NEW u \in [Key -> Row], NEW c \in Credential, NEW dir \in Direction
  PROVE  \E sums : /\ Sums(sums, Day, [d \in Day |-> u[<<c, d>>].bytes[dir]])
                   /\ UsageSum(u, c, dir) = sums[Day]
<1> DEFINE g == [d \in Day |-> u[<<c, d>>].bytes[dir]]
           F(f) == [s \in SUBSET Day |->
                    IF s = {} THEN 0
                    ELSE LET x == CHOOSE x \in s : TRUE IN u[<<c, x>>].bytes[dir] + f[s \ {x}]]
           sums == CHOOSE f : f = F(f)
<1>1. g \in [Day -> 0 .. MaxInt]
  BY DEF Key, Row, Bytes
<1>2. \E f : Sums(f, Day, g)
  BY <1>1, SumsExist, AccountingAssumption
<1>3. ASSUME NEW f PROVE Sums(f, Day, g) <=> f = F(f)
  <2>1. ASSUME NEW s \in SUBSET Day, s # {}
        PROVE  LET x == CHOOSE x \in s : TRUE IN g[x] = u[<<c, x>>].bytes[dir]
    <3>1. (CHOOSE x \in s : TRUE) \in s
      BY <2>1
    <3> QED BY <3>1
  <2>2. F(f) = [s \in SUBSET Day |->
                  IF s = {} THEN 0
                  ELSE LET x == CHOOSE x \in s : TRUE IN g[x] + f[s \ {x}]]
    BY <2>1
  <2> QED BY <2>2 DEF Sums
<1>4. \E f : f = F(f)
  <2> HIDE DEF F, g
  <2>1. PICK f : Sums(f, Day, g)
    BY <1>2
  <2>2. f = F(f)
    BY <1>3, <2>1
  <2> QED BY <2>2
<1>5. sums = F(sums)
  <2> HIDE DEF F
  <2> QED BY <1>4
<1>6. UsageSum(u, c, dir) = sums[Day]
  BY DEF UsageSum, MapThenSumSet, MapThenFoldSet
<1> QED BY <1>3, <1>5, <1>6

\* ... and grow with one of them.
LEMMA UsageSumGrows ==
  ASSUME NEW u \in [Key -> Row], NEW v \in [Key -> Row],
         NEW c \in Credential, NEW dir \in Direction,
         NEW y \in Day, NEW more \in Int, v[<<c, y>>].bytes[dir] = u[<<c, y>>].bytes[dir] + more,
         \A x \in Day \ {y} : v[<<c, x>>].bytes[dir] = u[<<c, x>>].bytes[dir]
  PROVE  UsageSum(u, c, dir) \in Int /\ UsageSum(v, c, dir) = UsageSum(u, c, dir) + more
<1> DEFINE g == [x \in Day |-> u[<<c, x>>].bytes[dir]]
           h == [x \in Day |-> v[<<c, x>>].bytes[dir]]
<1>1. g \in [Day -> Int] /\ h \in [Day -> Int]
  BY AccountingAssumption DEF Key, Row, Bytes
<1>2. h[y] = g[y] + more /\ \A x \in Day \ {y} : h[x] = g[x]
  OBVIOUS
<1>3. PICK p : Sums(p, Day, g) /\ UsageSum(u, c, dir) = p[Day]
  BY UsageSumAdds
<1>4. PICK q : Sums(q, Day, h) /\ UsageSum(v, c, dir) = q[Day]
  BY UsageSumAdds
<1>5. IsFiniteSet(Day)
  BY AccountingAssumption
<1> HIDE DEF g, h
<1>6. p[Day] \in Int /\ q[Day] = p[Day] + (h[y] - g[y])
  <2>1. DifferAt(y, Day, g, h)
    BY <1>1, <1>2 DEF DifferAt
  <2> QED BY <1>3, <1>4, <1>5, <2>1, SumsDiffer
<1> QED BY <1>1, <1>2, <1>3, <1>4, <1>6

\* The last readings add up ...
LEMMA ReadSumAdds ==
  ASSUME NEW u \in [Invocation -> [Credential -> Bytes \cup {NoReading}]],
         NEW c \in Credential, NEW dir \in Direction
  PROVE  \E sums : /\ Sums(sums, Invocation, [i \in Invocation |-> Latest(u, i, c)[dir]])
                   /\ ReadSum(u, c, dir) = sums[Invocation]
<1> DEFINE g == [i \in Invocation |-> Latest(u, i, c)[dir]]
           F(f) == [s \in SUBSET Invocation |->
                    IF s = {} THEN 0
                    ELSE LET x == CHOOSE x \in s : TRUE IN Latest(u, x, c)[dir] + f[s \ {x}]]
           sums == CHOOSE f : f = F(f)
<1>1. g \in [Invocation -> 0 .. MaxInt]
  BY AccountingAssumption DEF Latest, NoBytes, Bytes
<1>2. \E f : Sums(f, Invocation, g)
  BY <1>1, SumsExist, AccountingAssumption
<1>3. ASSUME NEW f PROVE Sums(f, Invocation, g) <=> f = F(f)
  <2>1. ASSUME NEW s \in SUBSET Invocation, s # {}
        PROVE  LET x == CHOOSE x \in s : TRUE IN g[x] = Latest(u, x, c)[dir]
    <3>1. (CHOOSE x \in s : TRUE) \in s
      BY <2>1
    <3> QED BY <3>1
  <2>2. F(f) = [s \in SUBSET Invocation |->
                  IF s = {} THEN 0
                  ELSE LET x == CHOOSE x \in s : TRUE IN g[x] + f[s \ {x}]]
    BY <2>1
  <2> QED BY <2>2 DEF Sums
<1>4. \E f : f = F(f)
  <2> HIDE DEF F, g
  <2>1. PICK f : Sums(f, Invocation, g)
    BY <1>2
  <2>2. f = F(f)
    BY <1>3, <2>1
  <2> QED BY <2>2
<1>5. sums = F(sums)
  <2> HIDE DEF F
  <2> QED BY <1>4
<1>6. ReadSum(u, c, dir) = sums[Invocation]
  BY DEF ReadSum, MapThenSumSet, MapThenFoldSet
<1> QED BY <1>3, <1>5, <1>6

\* ... and grow with one of them.
LEMMA ReadSumGrows ==
  ASSUME NEW u \in [Invocation -> [Credential -> Bytes \cup {NoReading}]],
         NEW v \in [Invocation -> [Credential -> Bytes \cup {NoReading}]],
         NEW c \in Credential, NEW dir \in Direction,
         NEW y \in Invocation, NEW more \in Int, Latest(v, y, c)[dir] = Latest(u, y, c)[dir] + more,
         \A x \in Invocation \ {y} : Latest(v, x, c)[dir] = Latest(u, x, c)[dir]
  PROVE  ReadSum(u, c, dir) \in Int /\ ReadSum(v, c, dir) = ReadSum(u, c, dir) + more
<1> DEFINE g == [x \in Invocation |-> Latest(u, x, c)[dir]]
           h == [x \in Invocation |-> Latest(v, x, c)[dir]]
<1>1. g \in [Invocation -> Int] /\ h \in [Invocation -> Int]
  BY AccountingAssumption DEF Latest, NoBytes, Bytes
<1>2. h[y] = g[y] + more /\ \A x \in Invocation \ {y} : h[x] = g[x]
  OBVIOUS
<1>3. PICK p : Sums(p, Invocation, g) /\ ReadSum(u, c, dir) = p[Invocation]
  BY ReadSumAdds
<1>4. PICK q : Sums(q, Invocation, h) /\ ReadSum(v, c, dir) = q[Invocation]
  BY ReadSumAdds
<1>5. IsFiniteSet(Invocation)
  BY AccountingAssumption
<1> HIDE DEF g, h
<1>6. p[Invocation] \in Int /\ q[Invocation] = p[Invocation] + (h[y] - g[y])
  <2>1. DifferAt(y, Invocation, g, h)
    BY <1>1, <1>2 DEF DifferAt
  <2> QED BY <1>3, <1>4, <1>5, <2>1, SumsDiffer
<1> QED BY <1>1, <1>2, <1>3, <1>4, <1>6

\* What EveryByteCountedOnce says, of the two sums by name.
SumsAgree ==
  \A c \in Credential, dir \in Direction :
    UsageSum(usage, c, dir) = ReadSum(checkpoints, c, dir)

\* The name stands for the property.
LEMMA CountedOnce == EveryByteCountedOnce <=> SumsAgree
BY DEF EveryByteCountedOnce, SumsAgree, UsageSum, ReadSum, Latest, LastReading

\* An empty ledger has counted nothing and read nothing.
LEMMA EmptySums ==
  ASSUME LedgerInit
  PROVE  SumsAgree
<1>1. ASSUME NEW c \in Credential, NEW dir \in Direction
      PROVE  UsageSum(usage, c, dir) = 0 /\ ReadSum(checkpoints, c, dir) = 0
  <2> DEFINE g == [d \in Day |-> usage[<<c, d>>].bytes[dir]]
             h == [i \in Invocation |-> Latest(checkpoints, i, c)[dir]]
  <2>1. LedgerTypeOK
    BY LedgerInitType
  <2>2. \A d \in Day : g[d] = 0
    BY DEF LedgerInit, NoRow, NoBytes, Key
  <2>3. \A i \in Invocation : h[i] = 0
    BY DEF LedgerInit, Latest, NoBytes
  <2>4. PICK p : Sums(p, Day, g) /\ UsageSum(usage, c, dir) = p[Day]
    BY <2>1, UsageSumAdds DEF LedgerTypeOK
  <2>5. PICK q : Sums(q, Invocation, h) /\ ReadSum(checkpoints, c, dir) = q[Invocation]
    BY <2>1, ReadSumAdds DEF LedgerTypeOK
  <2> HIDE DEF g, h
  <2>6. p[Day] = 0
    BY <2>2, <2>4, SumOfZeros, AccountingAssumption
  <2>7. q[Invocation] = 0
    BY <2>3, <2>5, SumOfZeros, AccountingAssumption
  <2> QED BY <2>4, <2>5, <2>6, <2>7
<1> QED BY <1>1 DEF SumsAgree

\* A sample keeps the two sums equal, of its own credential and of the others
\* (Record).
LEMMA RecordCounts ==
  ASSUME LedgerTypeOK, LedgerTypeOK', SumsAgree,
         NEW i \in Invocation, NEW c \in Credential, NEW d \in Day,
         NEW reading \in Bytes, Record(i, c, reading, d)
  PROVE  SumsAgree'
<1>1. ASSUME NEW o \in Credential, NEW dir \in Direction
      PROVE  UsageSum(usage', o, dir) = ReadSum(checkpoints', o, dir)
  <2> DEFINE last == LastReading(i, c)
             more == IF o = c THEN reading[dir] - last[dir] ELSE 0
  <2>1. /\ last = Latest(checkpoints, i, c)
        /\ last \in Bytes /\ reading[dir] \in Int /\ last[dir] \in Int
    BY LastReadingType, AccountingAssumption DEF Bytes, LastReading, Latest
  <2> DEFINE delta == Minus(reading, last)
             kk == <<c, d>>
  <2>2. /\ usage' = [usage EXCEPT ![kk] = Grown(usage[kk], delta)]
        /\ checkpoints' = [checkpoints EXCEPT ![i][c] = reading]
    BY DEF Record
  <2>3. usage[kk] \in Row /\ kk \in Key /\ usage \in [Key -> Row] /\ usage' \in [Key -> Row]
    BY DEF LedgerTypeOK, Key
  <2>4. Grown(usage[kk], delta).bytes[dir] = usage[kk].bytes[dir] + (reading[dir] - last[dir])
    <3>1. delta[dir] = reading[dir] - last[dir]
      BY DEF Minus
    <3>2. usage[kk].bytes[dir] \in Int
      BY <2>3, AccountingAssumption DEF Row, Bytes
    <3>3. CASE delta = NoBytes
      <4>1. delta[dir] = 0
        BY <3>3 DEF NoBytes
      <4> QED BY <2>1, <3>1, <3>2, <3>3, <4>1 DEF Grown
    <3>4. CASE delta # NoBytes
      BY <3>1, <3>4 DEF Grown, Plus
    <3> QED BY <3>3, <3>4
  <2>5. UsageSum(usage', o, dir) = UsageSum(usage, o, dir) + more /\ UsageSum(usage, o, dir) \in Int
    <3>1. \A x \in Day : usage[<<o, x>>].bytes[dir] \in Int /\ <<o, x>> \in Key
      BY <2>3, AccountingAssumption DEF Row, Bytes, Key
    <3>2. usage'[<<o, d>>].bytes[dir] = usage[<<o, d>>].bytes[dir] + more
      <4>1. CASE o = c
        BY <2>2, <2>3, <2>4, <4>1
      <4>2. CASE o # c
        BY <2>2, <2>3, <3>1, <4>2
      <4> QED BY <4>1, <4>2
    <3>3. \A x \in Day \ {d} : usage'[<<o, x>>].bytes[dir] = usage[<<o, x>>].bytes[dir]
      BY <2>2, <2>3, <3>1
    <3>4. more \in Int
      BY <2>1
    <3> HIDE DEF more
    <3> QED BY <2>3, <3>2, <3>3, <3>4, UsageSumGrows
  <2>6. ReadSum(checkpoints', o, dir) = ReadSum(checkpoints, o, dir) + more
    <3>1. /\ checkpoints \in [Invocation -> [Credential -> Bytes \cup {NoReading}]]
          /\ checkpoints' \in [Invocation -> [Credential -> Bytes \cup {NoReading}]]
      BY DEF LedgerTypeOK
    <3>2. Latest(checkpoints', i, o)[dir] = Latest(checkpoints, i, o)[dir] + more
      <4>1. CASE o = c
        <5>1. Latest(checkpoints', i, c) = reading
          BY <2>2, <3>1, NoReadingAssumption DEF Latest
        <5> QED BY <2>1, <4>1, <5>1
      <4>2. CASE o # c
        <5>1. Latest(checkpoints', i, o) = Latest(checkpoints, i, o)
          BY <2>2, <3>1, <4>2 DEF Latest
        <5>2. Latest(checkpoints, i, o)[dir] \in Int
          BY <3>1, AccountingAssumption DEF Latest, NoBytes, Bytes
        <5> QED BY <4>2, <5>1, <5>2
      <4> QED BY <4>1, <4>2
    <3>3. \A x \in Invocation \ {i} : Latest(checkpoints', x, o)[dir] = Latest(checkpoints, x, o)[dir]
      BY <2>2, <3>1 DEF Latest
    <3>4. more \in Int
      BY <2>1
    <3> HIDE DEF more
    <3> QED BY <3>1, <3>2, <3>3, <3>4, ReadSumGrows
  <2> QED BY <2>5, <2>6 DEF SumsAgree
<1> QED BY <1>1 DEF SumsAgree

(***************************************************************************)
(* Every observed byte is in exactly one bucket, whatever samples of       *)
(* several invocations and days, refused readings and overflows came       *)
(* before.                                                                 *)
(***************************************************************************)
THEOREM LedgerCounts == LedgerSpec => []EveryByteCountedOnce
<1>1. ASSUME LedgerTypeOK, SumsAgree, [LedgerNext]_ledgerVars
      PROVE  SumsAgree'
  <2>1. ASSUME NEW i \in Invocation, NEW c \in Credential, NEW d \in Day,
               NEW reading \in Bytes, Record(i, c, reading, d)
        PROVE  SumsAgree'
    BY <1>1, <2>1, LedgerStep, RecordCounts
  <2>2. ASSUME UNCHANGED <<checkpoints, usage>>
        PROVE  SumsAgree'
    BY <1>1, <2>2 DEF SumsAgree
  <2>3. ASSUME NEW i \in Invocation, Finish(i) \/ Gap(i)
        PROVE  SumsAgree'
    BY <2>2, <2>3 DEF Finish, Gap
  <2>4. CASE UNCHANGED ledgerVars
    BY <2>2, <2>4 DEF ledgerVars
  <2> QED BY <1>1, <2>1, <2>3, <2>4 DEF LedgerNext
<1> QED BY <1>1, EmptySums, LedgerTypes, CountedOnce, PTL DEF LedgerSpec

-----------------------------------------------------------------------------
(***************************************************************************)
(* The export of the ledger, for all page sizes and numbers of concurrent  *)
(* calls.                                                                  *)
(***************************************************************************)
(***************************************************************************)
(* Every row of bucket k that exists anywhere in the system.               *)
(***************************************************************************)
Copies(k) ==
  {NoRow, usage[k], server[k], acked[k]}
    \cup {call[e].page[k] : e \in Call}
    \cup {call[e].receipts[k] : e \in Call}
    \cup {page[k] : page \in late}

(***************************************************************************)
(* All copies of a bucket are comparable versions of one history, and the  *)
(* ledger has the last one.                                                *)
(***************************************************************************)
OneHistory ==
  \A k \in Key :
    /\ \A x \in Copies(k) : Follows(usage[k], x)
    /\ \A x, y \in Copies(k) : Follows(x, y) \/ Follows(y, x)

(***************************************************************************)
(* A receipt or an acknowledgement is never ahead of the central row.      *)
(***************************************************************************)
ReceiptsAreStored ==
  \A k \in Key :
    /\ acked[k].version <= server[k].version
    /\ \A e \in Call : call[e].receipts[k].version <= server[k].version

(***************************************************************************)
(* The inductive invariant.                                                *)
(***************************************************************************)
IInv == TypeOK /\ OneHistory /\ ReceiptsAreStored

-----------------------------------------------------------------------------
(***************************************************************************)
(* The export: types.                                                      *)
(***************************************************************************)
LEMMA NoPageIsPage == NoPage \in Page
  BY NoRowIsRow DEF NoPage, Page

\* A call that is not made is a call.
LEMMA IdleIsCall == Idle \in CallType
  BY NoPageIsPage DEF Idle, CallType

\* What the central store makes of a page is a page, and so are its receipts.
LEMMA IngestedIsPage ==
  ASSUME TypeOK, NEW page \in Page
  PROVE  Ingested(page) \in Page /\ Receipts(page) \in Page
  BY NoRowIsRow DEF TypeOK, Page, Ingested, Receipts, Stored

\* Every step keeps the types of the tables, the calls and the late requests.
LEMMA TypeStep == TypeOK /\ [Next]_vars => TypeOK'
<1> SUFFICES ASSUME TypeOK, [Next]_vars PROVE TypeOK'
  OBVIOUS
<1>1. ASSUME NEW e \in Call, Select(e) PROVE TypeOK'
  <2>1. PendingPage \in Page
    BY NoRowIsRow DEF PendingPage, Page, TypeOK, LedgerTypeOK
  <2>2. call' \in [Call -> CallType]
    BY <1>1, <2>1, NoPageIsPage DEF Select, TypeOK, CallType
  <2> QED BY <1>1, <2>2 DEF Select, TypeOK, LedgerTypeOK, ledgerVars
<1>2. ASSUME NEW e \in Call, Serve(e) PROVE TypeOK'
  <2>1. call[e] \in CallType /\ call[e].page \in Page
    BY DEF TypeOK, CallType
  <2>2. server' \in Page /\ Receipts(call[e].page) \in Page
    BY <1>2, <2>1, IngestedIsPage DEF Serve
  <2>3. call' \in [Call -> CallType]
    BY <1>2, <2>1, <2>2 DEF Serve, TypeOK, CallType
  <2> QED BY <1>2, <2>2, <2>3 DEF Serve, TypeOK, LedgerTypeOK, ledgerVars
<1>3. ASSUME NEW e \in Call, Refuse(e) PROVE TypeOK'
  BY <1>3, IdleIsCall DEF Refuse, TypeOK, LedgerTypeOK, ledgerVars
<1>4. ASSUME NEW e \in Call, GiveUp(e) PROVE TypeOK'
  <2>1. call' \in [Call -> CallType]
    BY <1>4, IdleIsCall DEF GiveUp, TypeOK
  <2>2. call[e].page \in Page
    BY DEF TypeOK, CallType
  <2>3. late' \subseteq Page
    BY <1>4, <2>2 DEF GiveUp, TypeOK
  <2> QED BY <1>4, <2>1, <2>3 DEF GiveUp, TypeOK, LedgerTypeOK, ledgerVars
<1>5. ASSUME NEW e \in Call, Acknowledge(e) PROVE TypeOK'
  <2>1. acked' \in Page
    BY <1>5 DEF Acknowledge, TypeOK, LedgerTypeOK, Page
  <2> QED BY <1>5, <2>1, IdleIsCall
        DEF Acknowledge, TypeOK, LedgerTypeOK, ledgerVars
<1>6. ASSUME NEW page \in late, ServeLate(page) PROVE TypeOK'
  <2>1. page \in Page
    BY DEF TypeOK
  <2>2. server' \in Page
    BY <1>6, <2>1, IngestedIsPage DEF ServeLate, TypeOK
  <2> QED BY <1>6, <2>2 DEF ServeLate, TypeOK, LedgerTypeOK, ledgerVars
<1>7. ASSUME NEW c \in Credential, Rebind(c) PROVE TypeOK'
  BY <1>7 DEF Rebind, TypeOK, LedgerTypeOK, ledgerVars
<1>8. CASE Collect
  <2>1. LedgerTypeOK'
    BY <1>8, LedgerStep DEF Collect, TypeOK
  <2> QED BY <1>8, <2>1 DEF Collect, TypeOK, exportVars
<1>9. CASE UNCHANGED vars
  BY <1>9 DEF vars, ledgerVars, exportVars, TypeOK, LedgerTypeOK
<1> QED BY <1>1, <1>2, <1>3, <1>4, <1>5, <1>6, <1>7, <1>8, <1>9
      DEF Next, ExportStep

\* At first nothing is counted, sent or stored.
LEMMA TypeInit == Init => TypeOK
  BY LedgerInitType, NoPageIsPage, IdleIsCall DEF Init, ExportInit, TypeOK

(***************************************************************************)
(* The tables, pages and receipts keep their types, whatever the bounds.   *)
(***************************************************************************)
THEOREM ExportTypes == Spec => []TypeOK
  BY TypeInit, TypeStep, PTL DEF Spec

(***************************************************************************)
(* The export leaves the ledger alone.                                     *)
(***************************************************************************)
LEMMA ExportLeavesLedger == [Next]_vars => [LedgerNext]_ledgerVars
  BY DEF Next, vars, Collect, ExportStep, Select, Serve, Refuse, GiveUp,
         Acknowledge, ServeLate, Rebind

(***************************************************************************)
(* So the node's ledger with its exporter is still the ledger of           *)
(* Accounting, and what is proved of LedgerSpec holds of Spec.             *)
(***************************************************************************)
THEOREM ExportImplementsLedger == Spec => LedgerSpec
  BY ExportLeavesLedger, PTL DEF Spec, LedgerSpec, Init

-----------------------------------------------------------------------------
(***************************************************************************)
(* The export: one history per bucket.                                     *)
(***************************************************************************)
LEMMA CopiesAreRows ==
  ASSUME TypeOK, NEW k \in Key, NEW x \in Copies(k) PROVE x \in Row
  BY NoRowIsRow DEF Copies, TypeOK, LedgerTypeOK, CallType, Page

(***************************************************************************)
(* The copies after a step, one place at a time.                           *)
(***************************************************************************)
LEMMA NextCopies ==
  ASSUME NEW k \in Key, NEW S, NoRow \in S,
         usage'[k] \in S, server'[k] \in S, acked'[k] \in S,
         \A e \in Call : call'[e].page[k] \in S /\ call'[e].receipts[k] \in S,
         \A page \in late' : page[k] \in S
  PROVE  Copies(k)' \subseteq S
  BY DEF Copies

\* Where copies of a bucket are.
LEMMA CopiesContain ==
  ASSUME NEW k \in Key
  PROVE  /\ {NoRow, usage[k], server[k], acked[k]} \subseteq Copies(k)
         /\ \A e \in Call : /\ call[e].page[k] \in Copies(k)
                            /\ call[e].receipts[k] \in Copies(k)
         /\ \A page \in late : page[k] \in Copies(k)
  BY DEF Copies

(***************************************************************************)
(* Copies only ever come from copies, or from the newest usage row.        *)
(***************************************************************************)
LEMMA CopiesStep ==
  ASSUME TypeOK, [Next]_vars, NEW k \in Key
  PROVE  Copies(k)' \subseteq Copies(k) \cup {usage'[k]}
<1> DEFINE S == Copies(k) \cup {usage'[k]}
<1>0. /\ NoRow \in S /\ usage[k] \in S /\ server[k] \in S /\ acked[k] \in S
      /\ \A e \in Call : call[e].page[k] \in S /\ call[e].receipts[k] \in S
      /\ \A page \in late : page[k] \in S
      /\ usage'[k] \in S
  BY CopiesContain
<1> HIDE DEF S
<1> SUFFICES Copies(k)' \subseteq S
  BY DEF S
<1>1. /\ NoPage[k] = NoRow
      /\ Idle.page = NoPage /\ Idle.receipts = NoPage
      /\ PendingPage[k] \in {NoRow, usage[k]}
      /\ \A page \in Page : Receipts(page)[k] \in {NoRow, page[k], server[k]}
      /\ \A page \in Page : Ingested(page)[k] \in {page[k], server[k]}
  BY DEF NoPage, Idle, PendingPage, Receipts, Ingested, Stored
<1>2. /\ call \in [Call -> CallType]
      /\ \A e \in Call : call[e].page \in Page
      /\ late \subseteq Page
  BY DEF TypeOK, CallType
<1>3. ASSUME NEW e \in Call, Select(e) PROVE Copies(k)' \subseteq S
  <2>1. \A f \in Call : call'[f].page[k] \in S /\ call'[f].receipts[k] \in S
    BY <1>0, <1>1, <1>2, <1>3 DEF Select
  <2> QED BY <1>0, <1>3, <2>1, NextCopies DEF Select
<1>4. ASSUME NEW e \in Call, Serve(e) PROVE Copies(k)' \subseteq S
  <2>1. \A f \in Call : call'[f].page[k] \in S /\ call'[f].receipts[k] \in S
    BY <1>0, <1>1, <1>2, <1>4 DEF Serve, CallType
  <2>2. server'[k] \in S
    BY <1>0, <1>1, <1>2, <1>4 DEF Serve
  <2> QED BY <1>0, <1>4, <2>1, <2>2, NextCopies DEF Serve, ledgerVars
<1>5. ASSUME NEW e \in Call, Refuse(e) PROVE Copies(k)' \subseteq S
  <2>1. \A f \in Call : call'[f].page[k] \in S /\ call'[f].receipts[k] \in S
    BY <1>0, <1>1, <1>2, <1>5 DEF Refuse
  <2> QED BY <1>0, <1>5, <2>1, NextCopies DEF Refuse
<1>6. ASSUME NEW e \in Call, GiveUp(e) PROVE Copies(k)' \subseteq S
  <2>1. \A f \in Call : call'[f].page[k] \in S /\ call'[f].receipts[k] \in S
    BY <1>0, <1>1, <1>2, <1>6 DEF GiveUp
  <2>2. \A page \in late' : page[k] \in S
    BY <1>0, <1>6 DEF GiveUp
  <2> QED BY <1>0, <1>6, <2>1, <2>2, NextCopies DEF GiveUp
<1>7. ASSUME NEW e \in Call, Acknowledge(e) PROVE Copies(k)' \subseteq S
  <2>1. \A f \in Call : call'[f].page[k] \in S /\ call'[f].receipts[k] \in S
    BY <1>0, <1>1, <1>2, <1>7 DEF Acknowledge
  <2>2. acked'[k] \in S
    BY <1>0, <1>7 DEF Acknowledge
  <2> QED BY <1>0, <1>7, <2>1, <2>2, NextCopies DEF Acknowledge
<1>8. ASSUME NEW page \in late, ServeLate(page) PROVE Copies(k)' \subseteq S
  <2>1. server'[k] \in S
    BY <1>0, <1>1, <1>2, <1>8 DEF ServeLate
  <2> QED BY <1>0, <1>8, <2>1, NextCopies DEF ServeLate
<1>9. ASSUME NEW c \in Credential, Rebind(c) PROVE Copies(k)' \subseteq S
  BY <1>0, <1>9, NextCopies DEF Rebind
<1>10. CASE Collect
  BY <1>0, <1>10, NextCopies DEF Collect, exportVars
<1>11. CASE UNCHANGED vars
  BY <1>0, <1>11, NextCopies DEF vars, exportVars
<1> QED BY <1>3, <1>4, <1>5, <1>6, <1>7, <1>8, <1>9, <1>10, <1>11
      DEF Next, ExportStep

\* A step copies copies, or appends a version that follows them all.
LEMMA OneHistoryStep ==
  ASSUME TypeOK, OneHistory, [Next]_vars PROVE OneHistory'
<1>1. /\ LedgerTypeOK
      /\ \A k \in Key : Follows(usage'[k], usage[k])
      /\ \A k \in Key : usage[k] \in Row /\ usage'[k] \in Row
  <2>1. LedgerTypeOK
    BY DEF TypeOK
  <2>2. LedgerTypeOK' /\ \A k \in Key : Follows(usage'[k], usage[k])
    BY <2>1, ExportLeavesLedger, LedgerStep
  <2> QED BY <2>1, <2>2 DEF LedgerTypeOK
<1>2. SUFFICES ASSUME NEW k \in Key
               PROVE  /\ \A x \in Copies(k)' : Follows(usage'[k], x)
                      /\ \A x, y \in Copies(k)' : Follows(x, y) \/ Follows(y, x)
  BY DEF OneHistory, Follows, Leq
<1>3. Copies(k)' \subseteq Copies(k) \cup {usage'[k]}
  BY CopiesStep
<1>4. ASSUME NEW x \in Copies(k) \cup {usage'[k]}
      PROVE  x \in Row /\ Follows(usage'[k], x)
  <2>1. CASE x = usage'[k]
    BY <1>1, <2>1, FollowsReflexive
  <2>2. CASE x \in Copies(k)
    <3>1. x \in Row /\ Follows(usage[k], x)
      BY <2>2, CopiesAreRows DEF OneHistory
    <3> QED BY <1>1, <3>1, FollowsTransitive
  <2> QED BY <2>1, <2>2
<1>5. ASSUME NEW x \in Copies(k) \cup {usage'[k]},
             NEW y \in Copies(k) \cup {usage'[k]}
      PROVE  Follows(x, y) \/ Follows(y, x)
  <2>1. CASE x \in Copies(k) /\ y \in Copies(k)
    BY <2>1 DEF OneHistory
  <2>2. CASE x = usage'[k] \/ y = usage'[k]
    BY <1>4, <2>2
  <2> QED BY <2>1, <2>2
<1> QED BY <1>3, <1>4, <1>5

-----------------------------------------------------------------------------
(***************************************************************************)
(* The central row only advances along that history.                       *)
(***************************************************************************)
LEMMA IngestedFollows ==
  ASSUME TypeOK, NEW page \in Page, NEW k \in Key,
         Follows(page[k], server[k]) \/ Follows(server[k], page[k])
  PROVE  Follows(Ingested(page)[k], server[k])
<1>1. server[k] \in Row /\ page[k] \in Row
  BY DEF TypeOK, Page
<1>2. page[k].version \in Int /\ server[k].version \in Int
  BY <1>1, AccountingAssumption DEF Row
<1>3. Ingested(page)[k] = Stored(page, k)
  BY DEF Ingested
<1>4. CASE page[k].version > server[k].version
  <2>1. Follows(page[k], server[k])
    BY <1>2, <1>4 DEF Follows
  <2> QED BY <1>3, <1>4, <2>1 DEF Stored
<1>5. CASE ~(page[k].version > server[k].version)
  BY <1>1, <1>3, <1>5, FollowsReflexive DEF Stored
<1> QED BY <1>4, <1>5

\* The central row only moves to a row that follows it (ingest_page).
LEMMA ServerStep ==
  ASSUME TypeOK, OneHistory, [Next]_vars, NEW k \in Key
  PROVE  Follows(server'[k], server[k])
<1>1. server[k] \in Row
  BY DEF TypeOK, Page
<1>2. CASE server' = server
  BY <1>1, <1>2, FollowsReflexive
<1>3. ASSUME NEW page \in Page, server' = Ingested(page),
             page[k] \in Copies(k)
      PROVE  Follows(server'[k], server[k])
  <2>1. Follows(page[k], server[k]) \/ Follows(server[k], page[k])
    BY <1>3, CopiesContain DEF OneHistory
  <2> QED BY <1>3, <2>1, IngestedFollows
<1>4. ASSUME NEW e \in Call, Serve(e) PROVE Follows(server'[k], server[k])
  <2>1. call[e].page \in Page /\ call[e].page[k] \in Copies(k)
    BY CopiesContain DEF TypeOK, CallType
  <2> QED BY <1>3, <1>4, <2>1 DEF Serve
<1>5. ASSUME NEW page \in late, ServeLate(page)
      PROVE  Follows(server'[k], server[k])
  <2>1. page \in Page /\ page[k] \in Copies(k)
    BY CopiesContain DEF TypeOK
  <2> QED BY <1>2, <1>3, <1>5, <2>1 DEF ServeLate
<1>6. \/ server' = server
      \/ \E e \in Call : Serve(e)
      \/ \E page \in late : ServeLate(page)
  BY DEF Next, vars, exportVars, Collect, ExportStep, Select, Refuse, GiveUp,
         Acknowledge, Rebind
<1> QED BY <1>2, <1>4, <1>5, <1>6

(***************************************************************************)
(* A matching receipt proves that ledger and central store agree: the      *)
(* receipt is not ahead of the central row, the central row is not ahead   *)
(* of the ledger, and the receipt is the ledger's row of now.              *)
(***************************************************************************)
LEMMA MatchingReceipt ==
  ASSUME IInv, NEW e \in Call, NEW k \in Key, Matches(e, k)
  PROVE  server[k] = usage[k]
<1>1. Follows(usage[k], server[k])
  BY CopiesContain DEF IInv, OneHistory
<1>2. usage[k].version <= server[k].version
  BY DEF IInv, ReceiptsAreStored, Matches
<1>3. usage[k].version \in Int /\ server[k].version \in Int
  BY AccountingAssumption DEF IInv, TypeOK, LedgerTypeOK, Page, Row
<1> QED BY <1>1, <1>2, <1>3 DEF Follows

\* A receipt is written from a central row, which never goes back.
LEMMA ReceiptsStep ==
  ASSUME IInv, [Next]_vars PROVE ReceiptsAreStored'
<1> USE DEF IInv
<1> SUFFICES ASSUME NEW k \in Key
             PROVE  /\ acked'[k].version <= server'[k].version
                    /\ \A e \in Call :
                         call'[e].receipts[k].version <= server'[k].version
  BY DEF ReceiptsAreStored
<1>1. TypeOK' BY TypeStep
<1>2. server[k].version <= server'[k].version
  BY ServerStep DEF Follows
<1>3. /\ server[k].version \in Nat /\ server'[k].version \in Nat
      /\ acked[k].version \in Nat /\ acked'[k].version \in Nat
      /\ \A e \in Call : /\ call[e].receipts[k].version \in Nat
                         /\ call'[e].receipts[k].version \in Nat
  BY <1>1, AccountingAssumption DEF TypeOK, CallType, Page, Row
<1>4. /\ acked[k].version <= server[k].version
      /\ \A e \in Call : call[e].receipts[k].version <= server[k].version
  BY DEF ReceiptsAreStored
<1>5. acked'[k].version <= server'[k].version
  <2>1. CASE acked' = acked
    BY <1>2, <1>3, <1>4, <2>1
  <2>2. ASSUME NEW e \in Call, Acknowledge(e)
        PROVE  acked'[k].version <= server'[k].version
    <3>1. acked'[k] = IF Matches(e, k) THEN usage[k] ELSE acked[k]
      BY <2>2 DEF Acknowledge
    <3>2. CASE Matches(e, k)
      BY <1>2, <1>3, <3>1, <3>2, MatchingReceipt
    <3>3. CASE ~Matches(e, k)
      BY <1>2, <1>3, <1>4, <3>1, <3>3
    <3> QED BY <3>2, <3>3
  <2>3. acked' = acked \/ \E e \in Call : Acknowledge(e)
    BY DEF Next, vars, exportVars, Collect, ExportStep, Select, Serve, Refuse,
           GiveUp, ServeLate, Rebind
  <2> QED BY <2>1, <2>2, <2>3
<1>6. ASSUME NEW e \in Call
      PROVE  call'[e].receipts[k].version <= server'[k].version
  <2>1. CASE call'[e].receipts[k] = call[e].receipts[k]
    BY <1>2, <1>3, <1>4, <2>1
  <2>2. CASE call'[e].receipts[k] = NoRow
    BY <1>3, <2>2 DEF NoRow
  <2>3. CASE call'[e].receipts[k] = server'[k]
    BY <1>3, <2>3
  <2>4. \/ call'[e].receipts[k] = call[e].receipts[k]
        \/ call'[e].receipts[k] = NoRow
        \/ call'[e].receipts[k] = server'[k]
    <3>0. /\ call \in [Call -> CallType]
          /\ Idle.receipts[k] = NoRow /\ NoPage[k] = NoRow
      BY DEF TypeOK, Idle, NoPage
    <3>1. CASE call' = call
      BY <3>1
    <3>2. ASSUME NEW f \in Call, Select(f)
          PROVE  call'[e].receipts[k] \in {call[e].receipts[k], NoRow}
      BY <3>0, <3>2 DEF Select
    <3>3. ASSUME NEW f \in Call, Refuse(f) \/ GiveUp(f) \/ Acknowledge(f)
          PROVE  call'[e].receipts[k] \in {call[e].receipts[k], NoRow}
      BY <3>0, <3>3 DEF Refuse, GiveUp, Acknowledge
    <3>4. ASSUME NEW f \in Call, Serve(f)
          PROVE  call'[e].receipts[k] \in {call[e].receipts[k], NoRow, server'[k]}
      <4>1. Receipts(call[f].page)[k] \in {NoRow, server'[k]}
        BY <3>4 DEF Serve, Receipts, Ingested
      <4> QED BY <3>0, <3>4, <4>1 DEF Serve, CallType
    <3> QED BY <3>1, <3>2, <3>3, <3>4
          DEF Next, vars, exportVars, Collect, ExportStep, ServeLate, Rebind
  <2> QED BY <2>1, <2>2, <2>3, <2>4
<1> QED BY <1>5, <1>6

-----------------------------------------------------------------------------
(***************************************************************************)
(* The inductive invariant and what follows from it.                       *)
(***************************************************************************)
LEMMA IInvInit == Init => IInv
<1> SUFFICES ASSUME Init PROVE IInv
  OBVIOUS
<1>1. TypeOK
  BY TypeInit
<1>2. ASSUME NEW k \in Key PROVE \A x \in Copies(k) : x = NoRow
  BY DEF Init, LedgerInit, ExportInit, Copies, NoPage, Idle
<1>3. OneHistory
  <2>1. \A k \in Key : usage[k] = NoRow
    BY DEF Init, LedgerInit
  <2> QED BY <1>2, <2>1, NoRowIsRow, FollowsReflexive DEF OneHistory
<1>4. ReceiptsAreStored
  <2>1. NoRow.version <= NoRow.version
    BY DEF NoRow
  <2> QED BY <2>1 DEF ReceiptsAreStored, Init, ExportInit, NoPage, Idle
<1> QED BY <1>1, <1>3, <1>4 DEF IInv

\* Every step keeps the inductive invariant.
LEMMA IInvStep == IInv /\ [Next]_vars => IInv'
  BY TypeStep, OneHistoryStep, ReceiptsStep DEF IInv

(***************************************************************************)
(* All copies of a bucket, in tables, requests and receipts, are versions  *)
(* of one history, and no receipt is ahead of the central store.           *)
(***************************************************************************)
THEOREM ExportInvariant == Spec => []IInv
  BY IInvInit, IInvStep, PTL DEF Spec

(***************************************************************************)
(* The central row never claims more than the node counted.                *)
(***************************************************************************)
THEOREM CentralBehindLedger == Spec => []CentralNeverAhead
<1>1. IInv => CentralNeverAhead
  BY CopiesContain DEF IInv, OneHistory, Follows, CentralNeverAhead
<1> QED BY <1>1, ExportInvariant, PTL

(***************************************************************************)
(* A bucket that is not pending is stored centrally with the same bytes.   *)
(***************************************************************************)
THEOREM NothingIsLost == Spec => []ExportedMeansStored
<1>1. ASSUME IInv, NEW k \in Key \ Pending PROVE server[k] = usage[k]
  <2>1. acked[k].version = usage[k].version
    BY DEF Pending
  <2>2. usage[k].version <= server[k].version
    BY <1>1, <2>1 DEF IInv, ReceiptsAreStored
  <2>3. Follows(usage[k], server[k])
    BY <1>1, CopiesContain DEF IInv, OneHistory
  <2>4. usage[k].version \in Int /\ server[k].version \in Int
    BY <1>1, AccountingAssumption DEF IInv, TypeOK, LedgerTypeOK, Page, Row
  <2> QED BY <2>2, <2>3, <2>4 DEF Follows
<1>2. IInv => ExportedMeansStored
  BY <1>1 DEF ExportedMeansStored
<1> QED BY <1>2, ExportInvariant, PTL

(***************************************************************************)
(* No request of the node is ever refused for its content.                 *)
(***************************************************************************)
THEOREM NoHonestConflict == Spec => []HonestPagesNeverConflict
<1>1. ASSUME IInv, NEW page \in InFlight, NEW k \in Key
      PROVE  ~Conflict(page[k], server[k])
  <2>1. page[k] \in Copies(k) /\ server[k] \in Copies(k)
    BY CopiesContain DEF InFlight
  <2>2. Follows(page[k], server[k]) \/ Follows(server[k], page[k])
    BY <1>1, <2>1 DEF IInv, OneHistory
  <2>3. page[k].version \in Int /\ server[k].version \in Int
    BY <1>1, <2>1, CopiesAreRows, AccountingAssumption DEF IInv, Row
  <2> QED BY <2>2, <2>3 DEF Follows, Conflict
<1>2. IInv => HonestPagesNeverConflict
  BY <1>1 DEF HonestPagesNeverConflict
<1> QED BY <1>2, ExportInvariant, PTL

(***************************************************************************)
(* Late and repeated requests never take a central total back.             *)
(***************************************************************************)
THEOREM CentralOnlyAdvances == Spec => CentralNeverRegresses
<1>1. ASSUME IInv, [Next]_vars, NEW k \in Key, server'[k] # server[k]
      PROVE  /\ server'[k].version > server[k].version
             /\ Leq(server[k].bytes, server'[k].bytes)
  <2>1. Follows(server'[k], server[k])
    BY <1>1, ServerStep DEF IInv
  <2>2. TypeOK /\ TypeOK'
    BY <1>1, TypeStep DEF IInv
  <2>3. server'[k].version \in Int /\ server[k].version \in Int
    BY <2>2, AccountingAssumption DEF TypeOK, Page, Row
  <2> QED BY <1>1, <2>1, <2>3 DEF Follows
<1>2. IInv /\ [Next]_vars =>
        [\A k \in Key : server'[k] # server[k] =>
           /\ server'[k].version > server[k].version
           /\ Leq(server[k].bytes, server'[k].bytes)]_vars
  BY <1>1
<1> QED BY <1>2, ExportInvariant, PTL DEF Spec, CentralNeverRegresses
-----------------------------------------------------------------------------
(***************************************************************************)
(* The export implements the replication of versions.                      *)
(***************************************************************************)
LEMMA RecordGrows ==
  ASSUME LedgerTypeOK, LedgerNext, UNCHANGED exportVars, usage' # usage
  PROVE  \E b \in Key : Replication!Grow(b)
<1>1. PICK i \in Invocation, c \in Credential, d \in Day, reading \in Bytes :
        Record(i, c, reading, d)
  BY DEF LedgerNext, Finish, Gap
<1>2. PICK b \in Key : \A k \in Key \ {b} : usage'[k] = usage[k]
  <2>1. <<c, d>> \in Key
    BY DEF Key
  <2> QED BY <1>1, <2>1 DEF Record, LedgerTypeOK
<1>3. usage \in [Key -> Row] /\ usage' \in [Key -> Row]
  BY LedgerStep DEF LedgerTypeOK
<1>4. usage'[b] # usage[b]
  BY <1>2, <1>3
<1>5. usage'[b].version = usage[b].version + 1
  BY <1>1, <1>4, RecordStep
<1>6. Replication!Grow(b)
  <2>1. [k \in Key |-> usage'[k].version]
          = [[k \in Key |-> usage[k].version] EXCEPT ![b] = @ + 1]
    BY <1>2, <1>5
  <2>2. server' = server /\ acked' = acked
    BY DEF exportVars
  <2> QED BY <2>1, <2>2 DEF Replication!Grow
<1> QED BY <1>6

\* A step that changes the central store alone is a step of the abstract replication.
LEMMA ServerReplicates ==
  ASSUME IInv, IInv', [Next]_vars, usage' = usage, acked' = acked
  PROVE  Replication!Replicate
<1>1. ASSUME NEW k \in Key
      PROVE  /\ server'[k].version \in Nat
             /\ server[k].version <= server'[k].version
             /\ server'[k].version <= usage[k].version
  <2>1. server'[k].version \in Nat
    BY AccountingAssumption DEF IInv, TypeOK, Page, Row
  <2>2. server[k].version <= server'[k].version
    BY ServerStep DEF IInv, Follows
  <2>3. server'[k] \in Copies(k)'
    BY DEF Copies
  <2>4. Follows(usage'[k], server'[k])
    <3>1. \A x \in Copies(k)' : Follows(usage'[k], x)
      BY DEF IInv, OneHistory, Follows, Leq
    <3> QED BY <2>3, <3>1
  <2> QED BY <2>1, <2>2, <2>4 DEF Follows
<1> QED BY <1>1 DEF Replication!Replicate

\* An acknowledgement confirms a version that both sides have.
LEMMA AcknowledgeConfirms ==
  ASSUME IInv, NEW e \in Call, Acknowledge(e)
  PROVE  Replication!Confirm
<1>1. ASSUME NEW k \in Key
      PROVE  /\ acked'[k].version \in Nat
             /\ acked'[k].version # acked[k].version =>
                  /\ acked'[k].version = usage[k].version
                  /\ acked'[k].version = server[k].version
                  /\ acked'[k].version > acked[k].version
  <2>1. acked'[k] = IF Matches(e, k) THEN usage[k] ELSE acked[k]
    BY DEF Acknowledge
  <2>2. acked[k].version \in Nat /\ usage[k].version \in Nat
    BY AccountingAssumption DEF IInv, TypeOK, LedgerTypeOK, Page, Row
  <2>3. CASE Matches(e, k)
    <3>1. server[k] = usage[k] /\ acked[k].version <= usage[k].version
      BY <2>3, MatchingReceipt DEF Matches
    <3> QED BY <2>1, <2>2, <2>3, <3>1
  <2>4. CASE ~Matches(e, k)
    BY <2>1, <2>2, <2>4
  <2> QED BY <2>3, <2>4
<1>2. usage' = usage /\ server' = server
  BY DEF Acknowledge, ledgerVars
<1> QED BY <1>1, <1>2 DEF Replication!Confirm

(***************************************************************************)
(* Every step of the export is one of the abstract steps or stutters: the  *)
(* ledger appends one version to one bucket, the central store advances    *)
(* without overtaking it, and a bucket is confirmed only when ledger and   *)
(* central store have the very version that is confirmed.                  *)
(***************************************************************************)
THEOREM ExportImplementsReplication == Spec => ReplicatesVersions
<1>1. Init => Replication!ReplicationInit
  BY DEF Init, LedgerInit, ExportInit, Replication!ReplicationInit, NoPage, NoRow
<1>2. ASSUME IInv, [Next]_vars
      PROVE  [Replication!ReplicationNext]_(Replication!replicationVars)
  <2>1. IInv' BY <1>2, IInvStep
  <2>2. CASE Collect
    <3>1. CASE usage' = usage
      BY <2>2, <3>1 DEF Collect, exportVars, Replication!replicationVars
    <3>2. CASE usage' # usage
      BY <1>2, <2>2, <3>2, RecordGrows
        DEF Collect, IInv, TypeOK, Replication!ReplicationNext
    <3> QED BY <3>1, <3>2
  <2>3. CASE \E e \in Call : Acknowledge(e)
    BY <1>2, <2>3, AcknowledgeConfirms DEF Replication!ReplicationNext
  <2>4. CASE usage' = usage /\ acked' = acked
    BY <1>2, <2>1, <2>4, ServerReplicates DEF Replication!ReplicationNext
  <2>5. \/ Collect
        \/ \E e \in Call : Acknowledge(e)
        \/ usage' = usage /\ acked' = acked
    BY <1>2 DEF Next, vars, ledgerVars, exportVars, ExportStep, Select, Serve,
                Refuse, GiveUp, ServeLate, Rebind
  <2> QED BY <2>2, <2>3, <2>4, <2>5
<1> QED BY <1>1, <1>2, ExportInvariant, PTL
      DEF Spec, ReplicatesVersions, Replication!ReplicationSpec

-----------------------------------------------------------------------------
(***************************************************************************)
(* A round trip that ends.                                                 *)
(***************************************************************************)
ReceiptsAnswer ==
  \A e \in Call, k \in Key :
    call[e].pc = "replied" /\ Carries(call[e].page, k) =>
      call[e].receipts[k].version >= call[e].page[k].version

\* ingest_page answers with the row it stored or kept, which is not older.
LEMMA ReceiptsAnswerStep ==
  ASSUME TypeOK, ReceiptsAnswer, [Next]_vars PROVE ReceiptsAnswer'
<1> SUFFICES ASSUME NEW e \in Call, NEW k \in Key,
                    call'[e].pc = "replied", Carries(call'[e].page, k)
             PROVE  call'[e].receipts[k].version >= call'[e].page[k].version
  BY DEF ReceiptsAnswer, Carries
<1>0. call \in [Call -> CallType] /\ Idle.pc = "idle"
  BY DEF TypeOK, Idle
<1>1. CASE call'[e] = call[e]
  BY <1>1 DEF ReceiptsAnswer, Carries
<1>2. ASSUME NEW f \in Call, Serve(f)
      PROVE  call'[e].receipts[k].version >= call'[e].page[k].version
  <2>1. CASE f # e
    <3>1. call'[e] = call[e]
      BY <1>0, <1>2, <2>1 DEF Serve
    <3> QED BY <1>1, <3>1
  <2>2. CASE f = e
    <3>1. /\ call'[e].page = call[e].page
          /\ call'[e].receipts = Receipts(call[e].page)
      BY <1>0, <1>2, <2>2 DEF Serve, CallType
    <3>2. call'[e].receipts[k] = Stored(call[e].page, k)
      BY <3>1 DEF Receipts
    <3>3. call[e].page[k].version \in Int /\ server[k].version \in Int
      BY AccountingAssumption DEF TypeOK, CallType, Page, Row
    <3> QED BY <3>1, <3>2, <3>3 DEF Stored
  <2> QED BY <2>1, <2>2
<1>3. ASSUME NEW f \in Call, Select(f) \/ Refuse(f) \/ GiveUp(f) \/ Acknowledge(f)
      PROVE  call'[e] = call[e]
  BY <1>0, <1>3 DEF Select, Refuse, GiveUp, Acknowledge
<1> QED BY <1>1, <1>2, <1>3
        DEF Next, vars, exportVars, Collect, ExportStep, ServeLate, Rebind

(***************************************************************************)
(* For any page size, number of calls and lateness, a round trip that ends *)
(* confirms what did not grow meanwhile (AcknowledgeCounters).             *)
(***************************************************************************)
THEOREM ConfirmedUnlessGrown == Spec => RoundTripConfirms
<1>1. Init => ReceiptsAnswer
  BY DEF Init, ExportInit, Idle, ReceiptsAnswer
<1>2. Spec => []ReceiptsAnswer
  BY <1>1, ReceiptsAnswerStep, ExportTypes, PTL DEF Spec
<1> DEFINE Confirms ==
      \A e \in Call, k \in Key :
        Acknowledge(e) /\ Carries(call[e].page, k) =>
          \/ acked'[k].version = usage[k].version
          \/ usage[k].version > call[e].page[k].version
<1>3. ASSUME IInv, ReceiptsAnswer PROVE Confirms
  <2> SUFFICES ASSUME NEW e \in Call, NEW k \in Key, Acknowledge(e), Carries(call[e].page, k),
                      ~(usage[k].version > call[e].page[k].version)
               PROVE  acked'[k].version = usage[k].version
    OBVIOUS
  <2>1. /\ usage[k].version \in Int /\ call[e].page[k].version \in Int
        /\ call[e].receipts[k].version \in Int
    BY <1>3, AccountingAssumption DEF IInv, TypeOK, LedgerTypeOK, CallType, Page, Row
  <2>2. call[e].receipts[k].version >= call[e].page[k].version
    BY <1>3 DEF ReceiptsAnswer, Acknowledge
  <2>3. Follows(usage[k], call[e].receipts[k]) /\ Follows(usage[k], acked[k])
    BY <1>3, CopiesContain DEF IInv, OneHistory
  <2>4. call[e].receipts[k] = usage[k] /\ acked[k].version <= usage[k].version
    BY <2>1, <2>2, <2>3 DEF Follows
  <2>5. Matches(e, k)
    BY <2>4 DEF Matches
  <2> QED BY <2>5 DEF Acknowledge
<1>4. IInv /\ ReceiptsAnswer /\ [Next]_vars => [Confirms]_vars
  BY <1>3
<1> QED BY <1>2, <1>4, ExportInvariant, PTL DEF Spec, RoundTripConfirms
=============================================================================
