--------------------------- MODULE GovernanceBundle ---------------------------
(* centinal26/governance.py: a bundle of governance records to which the     *)
(* parties add while time passes, and validate_bundle, which accepts it only *)
(* if every record is sound by itself and with those it refers to.           *)
EXTENDS Naturals, FiniteSets

\* The records that may come into the bundle.
CONSTANTS Authorizations, Evidence, Operations, Claims, Promotions, Terminals, MaxTime

\* "sound": the fields of its schema are all there and of their types.
AuthorizationRecords ==
  [id : STRING, issuer : STRING, subject : STRING, grants : STRING, risk : 0..3, issued : Nat, expires : Nat,
   sound : BOOLEAN]
EvidenceRecords ==
  [id : STRING, kind : {"SOURCE", "DERIVED", "SUMMARY"}, created : Nat, immutable : BOOLEAN, sound : BOOLEAN]
OperationRecords ==
  [id : STRING, actor : STRING, authorization : STRING, needs : STRING, risk : 0..3, destructive : BOOLEAN,
   preserved : SUBSET STRING, sound : BOOLEAN]
ClaimRecords ==
  [id : STRING, refs : SUBSET STRING, sound : BOOLEAN,
   status : {"VERIFIED", "REPORTED", "DERIVED", "PROPOSED", "FAILED", "SUPERSEDED", "UNKNOWN"}]
PromotionRecords ==
  [id : STRING, operation : STRING, executor : STRING, verifier : STRING, gates : BOOLEAN, refs : SUBSET STRING,
   sound : BOOLEAN]
TerminalRecords ==
  [id : STRING, operation : STRING, status : {"PASS", "REVIEW", "FAIL"}, refs : SUBSET STRING, sound : BOOLEAN]

ASSUME BundleAssumption ==
  /\ Authorizations \subseteq AuthorizationRecords /\ Evidence \subseteq EvidenceRecords
  /\ Operations \subseteq OperationRecords /\ Claims \subseteq ClaimRecords
  /\ Promotions \subseteq PromotionRecords /\ Terminals \subseteq TerminalRecords
  /\ MaxTime \in Nat

VARIABLES bundle, time
bundleVars == <<bundle, time>>

Collections ==
  [authorizations |-> Authorizations, evidence |-> Evidence, operations |-> Operations, claims |-> Claims,
   promotions |-> Promotions, terminals |-> Terminals]

BundleTypeOK ==
  /\ time \in 0..MaxTime
  /\ DOMAIN bundle = DOMAIN Collections
  /\ \A name \in DOMAIN Collections : bundle[name] \subseteq Collections[name]

BundleInit == bundle = [name \in DOMAIN Collections |-> {}] /\ time = 0

AddRecord(name, record) ==
  /\ record \in Collections[name] \ bundle[name]
  /\ bundle' = [bundle EXCEPT ![name] = @ \union {record}]
  /\ UNCHANGED time

TimePasses == time < MaxTime /\ time' = time + 1 /\ UNCHANGED bundle

BundleNext ==
  \/ \E name \in DOMAIN Collections : \E record \in Collections[name] : AddRecord(name, record)
  \/ TimePasses

-------------------------------------------------------------------------------
(* validate_bundle                                                         *)

\* _index_unique
UniqueIds(records) == \A r, s \in records : r.id = s.id => r = s

\* _refs_exist
RefsExist(refs) == refs \subseteq {e.id : e \in bundle.evidence}

AuthorizationAccepted(a) ==
  /\ a.sound /\ a.issuer # a.subject
  /\ a.issued <= time /\ time < a.expires /\ a.issued < a.expires

EvidenceAccepted(e) == e.sound /\ e.immutable /\ e.created <= time

\* The capability and the scope are those granted, the risk is covered.
Authorizes(a, o) ==
  /\ a.id = o.authorization /\ a.subject = o.actor /\ a.issuer # o.actor
  /\ a.grants = o.needs /\ a.risk >= o.risk

OperationAccepted(o) ==
  /\ o.sound /\ RefsExist(o.preserved)
  /\ \E a \in bundle.authorizations : Authorizes(a, o)
  /\ o.destructive => o.preserved # {}

\* A summary alone substantiates nothing.
ClaimAccepted(c) ==
  /\ c.sound /\ RefsExist(c.refs)
  /\ c.status \in {"DERIVED", "VERIFIED"} =>
       \E e \in bundle.evidence : e.id \in c.refs /\ e.kind # "SUMMARY"

\* Mutant: the executor is taken at its word.
PromotionByDeclaration(p) ==
  /\ p.sound /\ p.executor # p.verifier /\ p.gates /\ p.refs # {} /\ RefsExist(p.refs)
  /\ \E o \in bundle.operations : o.id = p.operation

PromotionAccepted(p) ==
  /\ p.sound /\ p.executor # p.verifier /\ p.gates /\ p.refs # {} /\ RefsExist(p.refs)
  /\ \E o \in bundle.operations : o.id = p.operation /\ o.actor = p.executor

TerminalAccepted(t) ==
  /\ t.sound /\ t.refs # {} /\ RefsExist(t.refs)
  /\ \E o \in bundle.operations : o.id = t.operation

Valid ==
  /\ \A name \in DOMAIN bundle : UniqueIds(bundle[name])
  /\ \A a \in bundle.authorizations : AuthorizationAccepted(a)
  /\ \A e \in bundle.evidence : EvidenceAccepted(e)
  /\ \A o \in bundle.operations : OperationAccepted(o)
  /\ \A c \in bundle.claims : ClaimAccepted(c)
  /\ \A p \in bundle.promotions : PromotionAccepted(p)
  /\ \A t \in bundle.terminals : TerminalAccepted(t)

-------------------------------------------------------------------------------
\* In a bundle that is accepted, three different hands are behind whatever was
\* promoted: one that authorized the operation and whose authorization is in
\* force, one that carried it out, and one that verified it; and what the
\* operation destroys was preserved before.
PromotedByThreeHands ==
  Valid => \A p \in bundle.promotions :
    \E o \in bundle.operations, a \in bundle.authorizations :
      /\ o.id = p.operation /\ a.id = o.authorization
      /\ a.issuer # o.actor /\ p.verifier # o.actor
      /\ a.issued <= time /\ time < a.expires
      /\ o.destructive => \E e \in bundle.evidence : e.id \in o.preserved /\ e.created <= time
===============================================================================
