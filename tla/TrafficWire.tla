----------------------------- MODULE TrafficWire -----------------------------
(***************************************************************************)
(* The node traffic wire codec (node-agent/internal/traffic): a producer   *)
(* makes a page of snapshots and encodes it; the other side parses what    *)
(* arrives, and the receipts that come back are parsed against the page.   *)
(*                                                                         *)
(* A document is its decoded JSON tree: an object maps the names it has to *)
(* values and says whether a name occurs twice in the text; a value is     *)
(* labelled with its type, and Fraction is a number that is no integer.    *)
(* Names stand in for the order of their bytes, 0 is the empty one.        *)
(* SHA-256 is taken for injective: a digest is the payload it hashes, and  *)
(* whether it is spelled in lowercase hex.  One identifier stands for      *)
(* source and credential, one count of an entry for its three.  What only  *)
(* refuses is left out: lengths in bytes, nesting, escapes and encoding.   *)
(***************************************************************************)
EXTENDS Integers, FiniteSets, Sequences, SequencesExt

CONSTANTS
    Credential,  \* credential identifiers that are UUIDs
    Name,        \* entry names, as numbers in byte order; 0 is not one of them
    Aggregate,   \* the reserved names of each list, which are no identities
    Dates,       \* year, month and day of what may be written as a date
    MaxCount,    \* the largest int64
    MaxItems,    \* MaxPageItems
    MaxNamed     \* MaxNamedIdentities

ASSUME WireAssumption ==
    /\ Name \subseteq Nat \ {0} /\ Aggregate \in [{"domains", "destinations"} -> SUBSET Name]
    /\ MaxCount \in Nat \ {0} /\ MaxItems \in Nat \ {0} /\ MaxNamed \in Nat

VARIABLES
    sent,     \* the page the producer made
    wire,     \* the document on its way: the page, or later its receipts
    got,      \* the page the parser made of it
    receipts, \* the receipts the producer accepted
    tampered, \* history: the document was changed on its way
    pc        \* "start", "page", "parsed", "receipts", "done" or "refused"

vars == <<sent, wire, got, receipts, tampered, pc>>

-----------------------------------------------------------------------------
(***************************************************************************)
(* What a snapshot is, and when it is valid.                               *)
(***************************************************************************)
Numbers == {"version", "upload", "download"}
Lists == {"domains", "destinations"}
Identity == {"kind", "credential_id", "accounting_date", "version", "digest"}
FieldsOf(kind) == Identity \cup (IF kind = "counter" THEN {"upload", "download"}
                                 ELSE {"detail"} \cup Lists)
EntryFields == {"name", "upload"}

Leap(year) == year % 4 = 0 /\ (year % 100 # 0 \/ year % 400 = 0)
DaysInMonth(year, month) ==
    CASE month = 2 -> IF Leap(year) THEN 29 ELSE 28
      [] month \in {4, 6, 9, 11} -> 30
      [] OTHER -> 31
ValidDate(d) == d[1] >= 1 /\ d[2] \in 1 .. 12 /\ d[3] \in 1 .. DaysInMonth(d[1], d[2])

Named(c, list) == {i \in DOMAIN c[list] : c[list][i].name \notin Aggregate[list]}

ValidEntries(entries) ==
    /\ \A i \in DOMAIN entries : entries[i].name # 0 /\ entries[i].upload >= 0
    /\ \A i, j \in DOMAIN entries : entries[i].name = entries[j].name => i = j

ValidIdentity(c) ==
    /\ c.credential_id \in Credential /\ ValidDate(c.accounting_date) /\ c.version >= 1

ValidPayload(c) ==
    /\ ValidIdentity(c)
    /\ c.kind = "counter" => c.upload >= 0 /\ c.download >= 0
    /\ c.kind = "attribution" =>
         /\ c.detail \in {"exact", "compacted", "degraded"}
         /\ ValidEntries(c.domains) /\ ValidEntries(c.destinations)

FewNames(c) == Cardinality(Named(c, "domains")) + Cardinality(Named(c, "destinations")) <= MaxNamed

ValidContent(c) == ValidPayload(c) /\ FewNames(c)

Key(c) == <<c.credential_id, c.kind, c.accounting_date>>

\* Entries go on the wire, and into the hash, in the order of their names.  (SortSeq
\* of the community modules says nothing of lists with equal names.)
Before(entries, i) ==
    {j \in DOMAIN entries : \/ entries[j].name < entries[i].name
                            \/ entries[j].name = entries[i].name /\ j < i}
Sorted(entries) ==
    [k \in DOMAIN entries |->
       entries[CHOOSE i \in DOMAIN entries : Cardinality(Before(entries, i)) = k - 1]]
Payload(c) == [c EXCEPT !.domains = Sorted(@), !.destinations = Sorted(@)]
Digest(c) == [of |-> Payload(c), hex |-> TRUE]

Snapshot(c) == [content |-> Payload(c), digest |-> Digest(c)]

UniqueKeys(contents) == \A i, j \in DOMAIN contents : Key(contents[i]) = Key(contents[j]) => i = j

\* Mutant: nobody recomputes the hash.
DigestIsHex(s) == s.digest.hex

DigestFits(s) == s.digest = Digest(s.content)

ValidRequest(page) ==
    /\ Len(page) \in 1 .. MaxItems
    /\ \A i \in DOMAIN page : ValidContent(page[i].content) /\ page[i].digest.hex /\ DigestFits(page[i])
    /\ UniqueKeys([i \in DOMAIN page |-> page[i].content])

-----------------------------------------------------------------------------
(***************************************************************************)
(* Encoding.                                                               *)
(***************************************************************************)
Text(t) == [text |-> t]
Number(n) == [number |-> n]
Fraction == [fraction |-> TRUE]
Array(s) == [array |-> s]
Null == [null |-> TRUE]
Object(fields) == [fields |-> fields, twice |-> FALSE]

EntryObject(e) == Object([f \in EntryFields |-> IF f = "name" THEN Text(e.name) ELSE Number(e.upload)])

SnapshotObject(s) ==
    Object([f \in FieldsOf(s.content.kind) |->
              CASE f = "digest" -> Text(s.digest)
                [] f \in Numbers -> Number(s.content[f])
                [] f \in Lists -> Array([i \in DOMAIN s.content[f] |-> EntryObject(s.content[f][i])])
                [] OTHER -> Text(s.content[f])])

Envelope(field, objects) ==
    Object([f \in {"schema", field} |-> IF f = "schema" THEN Number(1) ELSE Array(objects)])

EncodedRequest(page) == Envelope("snapshots", [i \in DOMAIN page |-> SnapshotObject(page[i])])

\* A receipt is the identity of a stored snapshot.
ReceiptObject(s) == Object([f \in Identity |-> CASE f = "digest" -> Text(s.digest)
                                                 [] f = "version" -> Number(s.content.version)
                                                 [] OTHER -> Text(s.content[f])])
EncodedReceipts(stored) == Envelope("receipts", [i \in DOMAIN stored |-> ReceiptObject(stored[i])])

-----------------------------------------------------------------------------
(***************************************************************************)
(* Parsing.                                                                *)
(***************************************************************************)
\* Exactly the fields of the schema, none of them twice.
Exactly(o, fields) == ~o.twice /\ DOMAIN o.fields = fields

Has(v, type) == type \in DOMAIN v
IsText(o, f) == Has(o.fields[f], "text")
IsInteger(o, f) == Has(o.fields[f], "number") /\ o.fields[f].number <= MaxCount
IsCount(o, f) == IsInteger(o, f) /\ o.fields[f].number >= 0
IsArray(o, f) == Has(o.fields[f], "array")

Opens(doc, field) ==
    /\ Exactly(doc, {"schema", field})
    /\ doc.fields["schema"] = Number(1)
    /\ IsArray(doc, field)

ReadsIdentity(o) ==
    /\ \A f \in Identity \ {"version"} : IsText(o, f)
    /\ IsInteger(o, "version") /\ o.fields["digest"].text.hex

ReadsEntries(o, f) ==
    /\ IsArray(o, f)
    /\ \A i \in DOMAIN o.fields[f].array :
         LET e == o.fields[f].array[i]
         IN Exactly(e, EntryFields) /\ IsText(e, "name") /\ IsCount(e, "upload")

Reads(o) ==
    /\ "kind" \in DOMAIN o.fields /\ IsText(o, "kind")
    /\ o.fields["kind"].text \in {"counter", "attribution"}
    /\ Exactly(o, FieldsOf(o.fields["kind"].text))
    /\ ReadsIdentity(o)
    /\ IF o.fields["kind"].text = "counter" THEN IsCount(o, "upload") /\ IsCount(o, "download")
       ELSE IsText(o, "detail") /\ \A f \in Lists : ReadsEntries(o, f)

\* The content of an object that Reads, with entries in order.
Count(o, f) == IF f \in DOMAIN o.fields THEN o.fields[f].number ELSE 0
Entries(o, f) ==
    LET objects == IF f \in DOMAIN o.fields THEN o.fields[f].array ELSE <<>>
    IN Sorted([i \in DOMAIN objects |-> [name |-> objects[i].fields["name"].text,
                                         upload |-> Count(objects[i], "upload")]])
Content(o) ==
    [kind |-> o.fields["kind"].text, credential_id |-> o.fields["credential_id"].text,
     accounting_date |-> o.fields["accounting_date"].text, version |-> Count(o, "version"),
     upload |-> Count(o, "upload"), download |-> Count(o, "download"),
     detail |-> IF "detail" \in DOMAIN o.fields THEN o.fields["detail"].text ELSE "none",
     domains |-> Entries(o, "domains"), destinations |-> Entries(o, "destinations")]

Items(doc, field) == doc.fields[field].array

ParsedSnapshot(o) == [content |-> Content(o), digest |-> o.fields["digest"].text]

ParsedRequest(doc) == [i \in DOMAIN Items(doc, "snapshots") |-> ParsedSnapshot(Items(doc, "snapshots")[i])]

AcceptsRequest(doc) ==
    /\ Opens(doc, "snapshots")
    /\ \A i \in DOMAIN Items(doc, "snapshots") : Reads(Items(doc, "snapshots")[i])
    /\ ValidRequest(ParsedRequest(doc))

ReadsReceipt(o) ==
    /\ Exactly(o, Identity) /\ ReadsIdentity(o)
    /\ o.fields["kind"].text \in {"counter", "attribution"}
    /\ ValidIdentity(Content(o))

ParsedReceipts(doc) == [i \in DOMAIN Items(doc, "receipts") |-> Content(Items(doc, "receipts")[i])]

\* Mutant: as many receipts as snapshots.
CoversByCount(page, answers) == Len(answers) = Len(page)

\* Receipts name every key of the page, no other, and none twice.
Covers(page, answers) ==
    /\ UniqueKeys(answers)
    /\ {Key(answers[i]) : i \in DOMAIN answers} = {Key(page[i].content) : i \in DOMAIN page}

AcceptsReceipts(doc, page) ==
    /\ Opens(doc, "receipts")
    /\ \A i \in DOMAIN Items(doc, "receipts") : ReadsReceipt(Items(doc, "receipts")[i])
    /\ Len(Items(doc, "receipts")) \in 1 .. MaxItems
    /\ Covers(page, ParsedReceipts(doc))

-----------------------------------------------------------------------------
(***************************************************************************)
(* What a document can become on its way: one change at one place.         *)
(***************************************************************************)
\* Any other value a field may hold, of its own type or not.
Others(f, v) ==
    {Null} \cup
    (CASE Has(v, "number") -> {Fraction} \cup {Number(n) : n \in -1 .. MaxCount + 1}
       [] Has(v, "array") -> {Array(Reverse(v.array))} \cup
                             {Array(RemoveAt(v.array, i)) : i \in DOMAIN v.array} \cup
                             {Array(Append(v.array, v.array[i])) : i \in DOMAIN v.array}
       [] f = "credential_id" -> {Text(c) : c \in Credential}
       [] f = "accounting_date" -> {Text(d) : d \in Dates}
       [] f = "name" -> {Text(n) : n \in Name \cup {0}}
       [] f = "detail" -> {Text(d) : d \in {"exact", "degraded", "other"}}
       [] f = "kind" -> {Text(k) : k \in {"counter", "attribution", "other"}}
       [] f = "digest" -> {Text([v.text EXCEPT !.hex = FALSE]),
                           Text([v.text EXCEPT !.of.version = @ + 1])})

Without(o, f) == [o EXCEPT !.fields = [g \in DOMAIN o.fields \ {f} |-> o.fields[g]]]

\* Changes of one object itself.
Changed(o) ==
    {[o EXCEPT !.twice = TRUE]}
    \cup {Object([f \in DOMAIN o.fields \cup {"extra"} |-> IF f = "extra" THEN Null ELSE o.fields[f]])}
    \cup {Without(o, f) : f \in DOMAIN o.fields}
    \cup UNION {{[o EXCEPT !.fields[f] = v] : v \in Others(f, o.fields[f])} : f \in DOMAIN o.fields}

\* Changes of one member of one of its arrays.
Inside(o, lists, Inner(_)) ==
    UNION {UNION {{[o EXCEPT !.fields[f].array[i] = x] : x \in Inner(o.fields[f].array[i])}
                    : i \in DOMAIN o.fields[f].array} : f \in lists \cap DOMAIN o.fields}

ChangedSnapshot(o) == Changed(o) \cup Inside(o, Lists, Changed)
Mangled(doc) == Changed(doc) \cup Inside(doc, {"snapshots", "receipts"}, ChangedSnapshot)

-----------------------------------------------------------------------------
(***************************************************************************)
(* The exchange.                                                           *)
(***************************************************************************)
EntryLists == {<<>>} \cup {<<[name |-> n, upload |-> MaxCount]>> : n \in Name}
              \cup {<<[name |-> n, upload |-> 0], [name |-> m, upload |-> MaxCount]>> : n, m \in Name}

Contents ==
    [kind : {"counter"}, credential_id : Credential, accounting_date : Dates,
     version : 0 .. 1, upload : {-1, 0, MaxCount}, download : {0}, detail : {"none"},
     domains : {<<>>}, destinations : {<<>>}]
    \cup
    [kind : {"attribution"}, credential_id : Credential, accounting_date : Dates,
     version : {1}, upload : {0}, download : {0}, detail : {"exact"},
     domains : EntryLists, destinations : {<<>>, <<[name |-> 1, upload |-> 1]>>}]

Init == sent = <<>> /\ wire = <<>> /\ got = <<>> /\ receipts = <<>> /\ tampered = FALSE /\ pc = "start"

\* MakeCounterSnapshot or MakeAttributionSnapshot for each, then MakeRequest:
\* an error of one ends the page.
Make(contents) ==
    /\ pc = "start"
    /\ sent' = [i \in DOMAIN contents |-> Snapshot(contents[i])]
    /\ ValidRequest(sent')
    /\ wire' = EncodedRequest(sent')
    /\ pc' = "page"
    /\ UNCHANGED <<got, receipts, tampered>>

\* The network, a proxy or a wrong implementation changes the document.
Tamper ==
    /\ pc \in {"page", "receipts"} /\ ~tampered
    /\ wire' \in Mangled(wire)
    /\ tampered' = TRUE
    /\ UNCHANGED <<sent, got, receipts, pc>>

Parse ==
    /\ pc = "page"
    /\ IF AcceptsRequest(wire) THEN got' = ParsedRequest(wire) /\ pc' = "parsed"
       ELSE pc' = "refused" /\ UNCHANGED got
    /\ UNCHANGED <<sent, wire, receipts, tampered>>

\* The server answers, in any order, with what it stores: the snapshot it
\* got, or a newer one of the same bucket.
Answer ==
    /\ pc = "parsed"
    /\ \E page \in {got, Reverse(got)}, newer \in BOOLEAN :
         wire' = EncodedReceipts([i \in DOMAIN page |->
                   IF newer THEN Snapshot([page[i].content EXCEPT !.version = MaxCount])
                   ELSE page[i]])
    /\ pc' = "receipts"
    /\ UNCHANGED <<sent, got, receipts, tampered>>

ParseReceipts ==
    /\ pc = "receipts"
    /\ IF AcceptsReceipts(wire, sent) THEN receipts' = ParsedReceipts(wire) /\ pc' = "done"
       ELSE pc' = "refused" /\ UNCHANGED receipts
    /\ UNCHANGED <<sent, wire, got, tampered>>

Next == \/ \E c \in Contents : Make(<<c>>)
        \/ \E c, d \in Contents : Make(<<c, d>>)
        \/ Tamper \/ Parse \/ Answer \/ ParseReceipts

Spec == Init /\ [][Next]_vars

-----------------------------------------------------------------------------
(***************************************************************************)
(* Properties.                                                             *)
(***************************************************************************)
\* What the parser accepts is what the producer made: an honest page arrives
\* whole and unchanged, its largest count and its reordered entries included,
\* and of a changed one nothing is accepted but snapshots that were made, each
\* key once (EncodeRequest, ParseRequest).
AcceptedIsSent ==
    /\ ~tampered => pc # "refused"
    /\ pc = "parsed" =>
         /\ ~tampered => got = sent
         /\ ToSet(got) \subseteq ToSet(sent)
         /\ UniqueKeys([i \in DOMAIN got |-> got[i].content])

\* Receipts are accepted only when they name every snapshot of the page and
\* nothing else, so that no acknowledgement rests on a row of another bucket
\* (ParseReceiptResponse, ValidateReceiptCoverage).
ReceiptsCoverThePage ==
    pc = "done" =>
        /\ Len(receipts) = Len(sent)
        /\ \A i \in DOMAIN sent : \E j \in DOMAIN receipts :
             Key(receipts[j]) = Key(sent[i].content)

=============================================================================
