--------------------------- MODULE CanonicalBundles ---------------------------
(* The append-only store of canonical objects (scripts/canonical_store.py),  *)
(* the validator every bundle passes (validate_canonical_kernel.py) and the  *)
(* deduction of duplicates and contradictions among structured claims        *)
(* (structured_semantic_dedupe.py).                                          *)
(*                                                                           *)
(* Ingesting processes share one SQLite file.  sqlite3 opens a transaction   *)
(* at the first INSERT and not at the first SELECT, so the look-ups before   *)
(* the first row that is missing are steps of their own; from there to the   *)
(* commit the process holds the write lock.                                  *)
EXTENDS Integers, FiniteSets, Sequences, SequencesExt

CONSTANTS BundleNames,     \* the bundles that are offered
          BundleSays,          \* what each of them says
          BundleIngesters, \* processes that ingest bundles
          Rebuilders       \* processes that rebuild the projection

ASSUME StoreAssumption ==
  \A b \in BundleNames : LET says == BundleSays[b] IN
    says.claims \in Seq(ToSet(says.claims)) /\ says.decisions \in Seq(ToSet(says.decisions))

VARIABLES rows,       \* the rows of all tables but the projection
          projection, \* the objects that can be searched
          storeWriter,   \* what each ingesting process is doing
          rebuilder,  \* the objects a rebuilding process has read
          accepted    \* the ingestions answered with counts

storeVars == <<rows, projection, storeWriter, rebuilder, accepted>>

-------------------------------------------------------------------------------
(* Bundles.  A claim has an id, what it is about (subjects and predicate),   *)
(* what it says, whether it excludes other values, the rest of its envelope, *)
(* and whether the checks that read it alone pass.                           *)

NoKey == [about |-> "", says |-> ""]
RowId(kind, names, key) == [kind |-> kind, names |-> names, key |-> key]
Once(id) == [n \in {id} |-> 1]
Row(table, id, content) == [table |-> table, id |-> id, content |-> content]

ClaimsAt(b, places) == {BundleSays[b].claims[i] : i \in places}
Places(b) == DOMAIN BundleSays[b].claims
Content(claim) == <<claim.about, claim.says, claim.exclusive>>

AllowedDecisions == {"RETAIN", "REJECT_FROM_PROJECTION", "MERGE", "QUARANTINE", "DEFER", "PROMOTE"}

\* validate_bundle: each claim sound, one content under one id, and decisions
\* that are allowed and about a claim of the bundle.
ValidateBundle(b) ==
  /\ \A i \in Places(b) : BundleSays[b].claims[i].sound
  /\ \A i, j \in Places(b) :
       LET c == BundleSays[b].claims[i]
           d == BundleSays[b].claims[j]
       IN  c.id = d.id => Content(c) = Content(d)
  /\ \A i \in DOMAIN BundleSays[b].decisions :
       /\ BundleSays[b].decisions[i].action \in AllowedDecisions
       /\ \E c \in ClaimsAt(b, Places(b)) : c.id = BundleSays[b].decisions[i].input

\* What is derived from the claims at some places of a bundle is named by their
\* ids, each as often as it is listed, and holds what they say; the event that
\* links it to them has the same name.
DerivedRow(table, b, derived) ==
  LET members == ClaimsAt(b, derived.places)
      listed(id) == Cardinality({i \in derived.places : BundleSays[b].claims[i].id = id})
  IN  Row(table, RowId(derived.kind, [n \in {c.id : c \in members} |-> listed(n)], derived.key), members)

Structured(b) == {i \in Places(b) : BundleSays[b].claims[i].about # "none"}

\* Two entries of a bundle with one meaning make a group, be it of one claim
\* that is listed twice.
Duplicates(b) ==
  {m \in {{j \in Structured(b) :
             /\ BundleSays[b].claims[j].about = BundleSays[b].claims[i].about
             /\ BundleSays[b].claims[j].says = BundleSays[b].claims[i].says} : i \in Structured(b)} :
     Cardinality(m) > 1}

\* Mutant: claims are compared with those that say the same only.
ContradictionsOfEqualClaims(b) ==
  {m \in Duplicates(b) : Cardinality({BundleSays[b].claims[i].says : i \in m}) > 1}

Contradictions(b) ==
  {m \in {{j \in Structured(b) :
             /\ BundleSays[b].claims[j].exclusive
             /\ BundleSays[b].claims[j].about = BundleSays[b].claims[i].about} : i \in Structured(b)} :
     Cardinality({BundleSays[b].claims[i].says : i \in m}) > 1}

\* enrich_bundle: what is derived from a bundle, in the order it is appended.
EnrichBundle(b) ==
  LET first(m) == BundleSays[b].claims[CHOOSE i \in m : TRUE]
      duplicate(m) == [kind |-> "duplicate", places |-> m, key |-> [about |-> first(m).about, says |-> first(m).says]]
      contradiction(m) == [kind |-> "contradiction", places |-> m, key |-> [about |-> first(m).about, says |-> ""]]
  IN  SetToSeq({duplicate(m) : m \in Duplicates(b)}) \o SetToSeq({contradiction(m) : m \in Contradictions(b)})

\* The rows a bundle is ingested as, enriched or not.  The tables are filled in
\* this order: objects, provenance, decisions.
RowsOf(b, enriched) ==
  LET says == BundleSays[b]
      derived == IF enriched THEN EnrichBundle(b) ELSE <<>>
      claim(c) == Row("objects", RowId("claim", Once(c.id), NoKey), {c})
      decision(d) == Row("decisions", RowId("decision", Once(d.id), NoKey), {d})
  IN  [i \in DOMAIN says.claims |-> claim(says.claims[i])]
        \o [i \in DOMAIN derived |-> DerivedRow("objects", b, derived[i])]
        \o [i \in DOMAIN derived |-> DerivedRow("provenance", b, derived[i])]
        \o [i \in DOMAIN says.decisions |-> decision(says.decisions[i])]

-------------------------------------------------------------------------------
(* The store.                                                              *)

IdleIngester == [pc |-> "idle", of |-> "none", enriched |-> FALSE, rows |-> <<>>, done |-> 0]

\* The rows an ingestion has still to look up or to insert.
Left(i) == SubSeq(storeWriter[i].rows, storeWriter[i].done + 1, Len(storeWriter[i].rows))

\* What is answered with counts.
Answered(i) ==
  accepted \union
    {[of |-> storeWriter[i].of, enriched |-> storeWriter[i].enriched, rows |-> ToSet(storeWriter[i].rows)]}

StoreInit ==
  /\ rows = {} /\ projection = {} /\ accepted = {}
  /\ storeWriter = [i \in BundleIngesters |-> IdleIngester]
  /\ rebuilder = [r \in Rebuilders |-> [pc |-> "idle", objects |-> {}]]

StoreTypeOK ==
  /\ \A r \in rows : r.table \in {"objects", "provenance", "decisions"}
  /\ \A r, s \in rows : r.table = s.table /\ r.id = s.id => r = s
  /\ projection \subseteq {r.id : r \in rows}
  /\ \A i \in BundleIngesters : storeWriter[i].pc \in {"idle", "looking", "inserting"}
  /\ \A r \in Rebuilders : rebuilder[r].pc \in {"idle", "read"}
  /\ \A a \in accepted : a.of \in BundleNames

Holds(table, r) == \E s \in table : s.table = r.table /\ s.id = r.id

\* ingest_bundle: a bundle with errors is refused before the store is touched.
OfferBundle(i, b, enriched) ==
  /\ storeWriter[i].pc = "idle" /\ ValidateBundle(b)
  /\ storeWriter' = [storeWriter EXCEPT ![i] =
       [pc |-> "looking", of |-> b, enriched |-> enriched, rows |-> RowsOf(b, enriched), done |-> 0]]
  /\ UNCHANGED <<rows, projection, rebuilder, accepted>>

\* A row that is there must be the same row; the first that is missing is
\* inserted by a later statement.
LookUp(i) ==
  /\ storeWriter[i].pc = "looking"
  /\ IF Left(i) = <<>>
     THEN /\ accepted' = Answered(i)
          /\ storeWriter' = [storeWriter EXCEPT ![i] = IdleIngester]
     ELSE /\ LET r == Head(Left(i)) IN
               storeWriter' = [storeWriter EXCEPT ![i] =
                 IF ~Holds(rows, r) THEN [@ EXCEPT !.pc = "inserting"]
                 ELSE IF r \in rows THEN [@ EXCEPT !.done = storeWriter[i].done + 1]
                 ELSE IdleIngester]
          /\ UNCHANGED accepted
  /\ UNCHANGED <<rows, projection, rebuilder>>

\* Whether the rest of the rows goes in: the row that was missing is still
\* missing, and none is there, or earlier among them, with another content.
Insertable(left) ==
  /\ ~Holds(rows, Head(left))
  /\ \A k \in DOMAIN left : \A s \in rows \union {left[j] : j \in 1..(k - 1)} :
       s.table = left[k].table /\ s.id = left[k].id => s = left[k]

\* Mutant: the rows before the one in conflict stay.
CommitWhatFits(i) ==
  LET left == Left(i)
      fits == Insertable(left)
  IN
  /\ storeWriter[i].pc = "inserting"
  /\ rows' = IF fits THEN rows \union ToSet(left)
             ELSE IF Holds(rows, Head(left)) THEN rows ELSE rows \union {Head(left)}
  /\ accepted' = IF fits THEN Answered(i) ELSE accepted
  /\ storeWriter' = [storeWriter EXCEPT ![i] = IdleIngester]
  /\ UNCHANGED <<projection, rebuilder>>

\* Mutant: a row of the same id is replaced.
CommitReplacing(i) ==
  LET left == ToSet(Left(i)) IN
  /\ storeWriter[i].pc = "inserting"
  /\ rows' = {r \in rows : ~Holds(left, r)} \union left
  /\ accepted' = Answered(i)
  /\ storeWriter' = [storeWriter EXCEPT ![i] = IdleIngester]
  /\ UNCHANGED <<projection, rebuilder>>

\* The transaction: all of the rest, or nothing of it.
CommitBundle(i) ==
  LET left == Left(i)
      fits == Insertable(left)
  IN
  /\ storeWriter[i].pc = "inserting"
  /\ rows' = IF fits THEN rows \union ToSet(left) ELSE rows
  /\ accepted' = IF fits THEN Answered(i) ELSE accepted
  /\ storeWriter' = [storeWriter EXCEPT ![i] = IdleIngester]
  /\ UNCHANGED <<projection, rebuilder>>

IngesterStops(i) ==
  /\ storeWriter[i].pc # "idle"
  /\ storeWriter' = [storeWriter EXCEPT ![i] = IdleIngester]
  /\ UNCHANGED <<rows, projection, rebuilder, accepted>>

\* rebuild_projection reads the objects before its transaction begins.
ReadObjects(r) ==
  /\ rebuilder[r].pc = "idle"
  /\ rebuilder' = [rebuilder EXCEPT ![r] =
       [pc |-> "read", objects |-> {s.id : s \in {t \in rows : t.table = "objects"}}]]
  /\ UNCHANGED <<rows, projection, storeWriter, accepted>>

WriteProjection(r) ==
  /\ rebuilder[r].pc = "read"
  /\ projection' = rebuilder[r].objects
  /\ rebuilder' = [rebuilder EXCEPT ![r] = [pc |-> "idle", objects |-> {}]]
  /\ UNCHANGED <<rows, storeWriter, accepted>>

StoreNext ==
  \/ \E i \in BundleIngesters :
       \/ \E b \in BundleNames, enriched \in BOOLEAN : OfferBundle(i, b, enriched)
       \/ LookUp(i) \/ CommitBundle(i) \/ IngesterStops(i)
  \/ \E r \in Rebuilders : ReadObjects(r) \/ WriteProjection(r)

StoreSpec == StoreInit /\ [][StoreNext]_storeVars

-------------------------------------------------------------------------------
RowsOfAccepted == UNION {a.rows : a \in accepted}

\* What was accepted stays as it was accepted, whatever other processes ingest
\* under the same names afterwards or between the look-up and the insert.
AcceptedIsKept == RowsOfAccepted \subseteq rows

\* Nothing is in the store but bundles that were accepted as a whole: a bundle
\* refused at its last row, or a process that stops, leaves nothing behind.
BundlesAreWhole == rows \subseteq RowsOfAccepted

\* Two claims accepted together that exclude each other come with the
\* contradiction that names both, and a claim has one meaning everywhere.
ContradictionsAreTold ==
  \A a \in accepted : a.enriched =>
    \A c, d \in ClaimsAt(a.of, Places(a.of)) :
      c.exclusive /\ d.exclusive /\ c.about = d.about /\ c.about # "none" /\ c.says # d.says =>
        \E r \in rows : r.table = "objects" /\ r.id.kind = "contradiction" /\ {c, d} \subseteq r.content

\* The projection is of whole bundles: it may be old, never a part of one.
ProjectionIsOfBundles ==
  \E told \in SUBSET accepted :
    projection = {r.id : r \in {s \in UNION {a.rows : a \in told} : s.table = "objects"}}
===============================================================================
