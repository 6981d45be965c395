--------------------------- MODULE MirrorAuthority ----------------------------
(* When a row of the Base44 mirror counts: centinal26/mirror_evidence.py.    *)
(* Mirror rows can be edited by anybody at any time; a row has authority     *)
(* only through a decision in the canonical log that binds its content.      *)
(* The authority that records decisions is modelled from the events the      *)
(* verifier requires of it.                                                  *)
EXTENDS Naturals, Sequences, FiniteSets

CONSTANTS MirrorRows,   \* rows of the mirror: a kind and a logical id each
          RowContents,  \* what a row may say
          BadContents,  \* the contents whose projection is refused
          Scopes,       \* authority scopes
          MaxDecisions, \* bound on events of the log
          MaxAltered    \* bound on events altered in the log

ASSUME MirrorAssumption ==
  /\ MirrorRows # {} /\ BadContents \subseteq RowContents /\ RowContents \ BadContents # {}
  /\ MaxDecisions \in Nat /\ MaxAltered \in Nat

Events == [type : {"DECISION_RECORDED", "NOTE"}, decision : {"allow", "deny", "none"}, granted : BOOLEAN,
           row : MirrorRows, content : RowContents, scope : Scopes]

VARIABLES mirror,    \* content of each row
          authority, \* the row and the content the authority decides about
          ledger,    \* events of the log
          altered,   \* events that no longer have the content of their hash
          decided,   \* what the authority allowed: <<row, content, scope>>
          relied     \* what consumers relied on: <<row, content, scope>>

mirrorVars == <<mirror, authority, ledger, altered, decided, relied>>

NoMatter == [open |-> FALSE, row |-> CHOOSE r \in MirrorRows : TRUE, content |-> CHOOSE c \in RowContents : TRUE]
Matters == MirrorRows \X RowContents \X Scopes

MirrorTypeOK ==
  /\ mirror \in [MirrorRows -> RowContents]
  /\ authority \in [open : BOOLEAN, row : MirrorRows, content : RowContents]
  /\ \A i \in DOMAIN ledger : ledger[i] \in Events
  /\ altered \subseteq DOMAIN ledger
  /\ decided \subseteq Matters /\ relied \subseteq Matters

MirrorInit ==
  /\ mirror \in [MirrorRows -> {CHOOSE c \in RowContents \ BadContents : TRUE}]
  /\ authority = NoMatter /\ ledger = <<>> /\ altered = {} /\ decided = {} /\ relied = {}

EditRow(r, c) ==
  /\ mirror[r] # c /\ mirror' = [mirror EXCEPT ![r] = c]
  /\ UNCHANGED <<authority, ledger, altered, decided, relied>>

\* canonical_mirror_projection of the row as it is now.
Projectable(c) == c \notin BadContents

ConsiderRow(r) ==
  /\ ~authority.open /\ Projectable(mirror[r])
  /\ authority' = [open |-> TRUE, row |-> r, content |-> mirror[r]]
  /\ UNCHANGED <<mirror, ledger, altered, decided, relied>>

\* The event carries the decision, the grant if there is one, and the binding
\* of the content that was considered; events of other types may carry them too.
RecordMatter(type, decision, granted, scope) ==
  /\ authority.open /\ Len(ledger) < MaxDecisions
  /\ ledger' = Append(ledger, [type |-> type, decision |-> decision, granted |-> granted,
                               row |-> authority.row, content |-> authority.content, scope |-> scope])
  /\ decided' = IF type = "DECISION_RECORDED" /\ decision # "deny" /\ granted
                THEN decided \union {<<authority.row, authority.content, scope>>} ELSE decided
  /\ authority' = NoMatter
  /\ UNCHANGED <<mirror, altered, relied>>

\* An event is altered in place: its hash is still the one that was recorded.
AlterEvent(i, e) ==
  /\ Cardinality(altered) < MaxAltered
  /\ i \in DOMAIN ledger \ altered /\ e # ledger[i]
  /\ ledger' = [ledger EXCEPT ![i] = e] /\ altered' = altered \union {i}
  /\ UNCHANGED <<mirror, authority, decided, relied>>

\* store.verify_chain()
ChainVerifies == altered = {}

\* The decision allows and grants this very row the scope that is required.
GrantMatches(e, r, scope) ==
  /\ e.type = "DECISION_RECORDED" /\ e.decision # "deny"
  /\ e.granted /\ e.row = r /\ e.scope = scope

\* Mutant: the row is not compared with the content that was bound.
BindingByRow(e, r, c, scope) == e.row = r /\ e.scope = scope

\* The binding is of the projection of the row that is presented.
BindingMatches(e, r, c, scope) == e.row = r /\ e.content = c /\ e.scope = scope

\* A consumer holds the id and the hash of an event from a trusted reference
\* and relies on the row it read.
VerifyMirror(i, r, scope) ==
  /\ i \in DOMAIN ledger /\ Projectable(mirror[r]) /\ ChainVerifies
  /\ GrantMatches(ledger[i], r, scope) /\ BindingMatches(ledger[i], r, mirror[r], scope)
  /\ relied' = relied \union {<<r, mirror[r], scope>>}
  /\ UNCHANGED <<mirror, authority, ledger, altered, decided>>

MirrorNext ==
  \/ \E r \in MirrorRows : ConsiderRow(r) \/ \E c \in RowContents : EditRow(r, c)
  \/ \E t \in {"DECISION_RECORDED", "NOTE"}, d \in {"allow", "deny", "none"}, g \in BOOLEAN, s \in Scopes :
       RecordMatter(t, d, g, s)
  \/ \E i \in 1..MaxDecisions : \/ \E e \in Events : AlterEvent(i, e)
                                \/ \E r \in MirrorRows, s \in Scopes : VerifyMirror(i, r, s)

-------------------------------------------------------------------------------
\* What a consumer relied on is a row, a content and a scope that the authority
\* allowed together: not the content an edit put there between the look of the
\* authority, its decision and the look of the consumer, not the scope or the
\* row of another decision, and not what somebody wrote into the log.
ReliedWasAllowed == relied \subseteq decided
===============================================================================
