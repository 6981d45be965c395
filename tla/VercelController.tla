--------------------------- MODULE VercelController ---------------------------
(***************************************************************************)
(* The deployed controller (automation/deployment/vercel_controller): four *)
(* HTTP handlers over a key-value store that has no transactions.  Every   *)
(* getJson and setJson is an await, so every handler is a sequence of      *)
(* actions, one per write, and handlers interleave; a function instance    *)
(* may be ended between two of them.  Each device has ONE job slot.        *)
(***************************************************************************)
EXTENDS Naturals, FiniteSets

CONSTANTS Phones,        \* device ids
          Tokens,        \* provisioning tokens
          Identities,    \* identity material: commit, enrollment digest, credential
          CommitOf,      \* source commit of each identity
          TokenCommit,   \* expected_source_commit of each token
          Provisioners,  \* handlers of /api/provision that may run at once
          Posters,       \* handlers of /api/results that may run at once
          MaxTask        \* bound: jobs enqueued

ASSUME VercelAssumption ==
  DOMAIN CommitOf = Identities /\ DOMAIN TokenCommit = Tokens /\ MaxTask \in Nat

VARIABLES tokenState,  \* frost:provision:<token>
          secretOf,    \* frost:secret:<device>: the identity whose credential it is
          phoneOf,     \* frost:device:<device>: the registered identity
          slot,        \* frost:job:<device>: the task, 0 for none
          stored,      \* frost:result:<task>
          lastTask,    \* tasks enqueued so far
          sent,        \* tasks handed to a device by /api/jobs
          usedBy,      \* devices a token registered
          provision,   \* handlers of /api/provision
          posting,     \* handlers of /api/results
          admin        \* the handler of /api/admin/enqueue

vercelVars == <<tokenState, secretOf, phoneOf, slot, stored, lastTask, sent, usedBy,
                provision, posting, admin>>
tasks == <<slot, stored, lastTask, sent, posting, admin>>
identityVars == <<tokenState, secretOf, phoneOf, usedBy, provision>>

NotProvisioning == [stage |-> "idle"]
NotPosting == [stage |-> "idle"]

VercelTypeOK ==
  /\ tokenState \in [Tokens -> {"none", "ISSUED", "CONSUMED"}]
  /\ secretOf \in [Phones -> Identities \union {"none"}]
  /\ phoneOf \in [Phones -> Identities \union {"none"}]
  /\ slot \in [Phones -> 0..MaxTask]
  /\ stored \subseteq 1..MaxTask
  /\ lastTask \in 0..MaxTask
  /\ sent \subseteq Phones \X (1..MaxTask)
  /\ usedBy \in [Tokens -> SUBSET Phones]
  /\ provision \in [Provisioners -> {NotProvisioning} \union
       [stage : {"token", "device", "secret", "registered"},
        token : Tokens, phone : Phones, id : Identities]]
  /\ posting \in [Posters -> {NotPosting} \union
       [stage : {"matched", "stored", "cleared"}, phone : Phones, task : 1..MaxTask,
        reg : Identities]]
  /\ admin \in {"none"} \union Phones

VercelInit ==
  /\ tokenState = [t \in Tokens |-> "none"]
  /\ secretOf = [d \in Phones |-> "none"] /\ phoneOf = [d \in Phones |-> "none"]
  /\ slot = [d \in Phones |-> 0]
  /\ stored = {} /\ lastTask = 0 /\ sent = {}
  /\ usedBy = [t \in Tokens |-> {}]
  /\ provision = [h \in Provisioners |-> NotProvisioning]
  /\ posting = [h \in Posters |-> NotPosting]
  /\ admin = "none"

-------------------------------------------------------------------------------
(* /api/admin/provision-token and /api/provision.                          *)

IssueToken(t) ==
  /\ tokenState[t] = "none"
  /\ tokenState' = [tokenState EXCEPT ![t] = "ISSUED"]
  /\ UNCHANGED <<secretOf, phoneOf, usedBy, provision, tasks>>

ReadToken(h, t, d, id) ==
  /\ provision[h] = NotProvisioning
  /\ tokenState[t] = "ISSUED" /\ TokenCommit[t] = CommitOf[id]
  /\ provision' = [provision EXCEPT ![h] = [stage |-> "token", token |-> t, phone |-> d, id |-> id]]
  /\ UNCHANGED <<tokenState, secretOf, phoneOf, usedBy, tasks>>

\* Mutant: a known device may be given a new identity.
ReadPhoneWithoutConflict(h) ==
  /\ provision[h].stage = "token"
  /\ provision' = [provision EXCEPT ![h].stage = "device"]
  /\ UNCHANGED <<tokenState, secretOf, phoneOf, usedBy, tasks>>

\* A device that is registered must bring the same identity.
ReadPhone(h) ==
  /\ provision[h].stage = "token"
  /\ provision' = [provision EXCEPT ![h] =
       IF phoneOf[provision[h].phone] \in {"none", provision[h].id}
       THEN [provision[h] EXCEPT !.stage = "device"] ELSE NotProvisioning]
  /\ UNCHANGED <<tokenState, secretOf, phoneOf, usedBy, tasks>>

WriteSecret(h) ==
  /\ provision[h].stage = "device"
  /\ secretOf' = [secretOf EXCEPT ![provision[h].phone] = provision[h].id]
  /\ provision' = [provision EXCEPT ![h].stage = "secret"]
  /\ UNCHANGED <<tokenState, phoneOf, usedBy, tasks>>

WritePhone(h) ==
  /\ provision[h].stage = "secret"
  /\ phoneOf' = [phoneOf EXCEPT ![provision[h].phone] = provision[h].id]
  /\ usedBy' = [usedBy EXCEPT ![provision[h].token] = @ \union {provision[h].phone}]
  /\ provision' = [provision EXCEPT ![h].stage = "registered"]
  /\ UNCHANGED <<tokenState, secretOf, tasks>>

ConsumeToken(h) ==
  /\ provision[h].stage = "registered"
  /\ tokenState' = [tokenState EXCEPT ![provision[h].token] = "CONSUMED"]
  /\ provision' = [provision EXCEPT ![h] = NotProvisioning]
  /\ UNCHANGED <<secretOf, phoneOf, usedBy, tasks>>

\* The function is ended, or the store answers with an error.
ProvisionDies(h) ==
  /\ provision[h] # NotProvisioning
  /\ provision' = [provision EXCEPT ![h] = NotProvisioning]
  /\ UNCHANGED <<tokenState, secretOf, phoneOf, usedBy, tasks>>

-------------------------------------------------------------------------------
(* /api/admin/enqueue, /api/jobs and /api/results.                         *)

Known(d) == phoneOf[d] # "none" /\ secretOf[d] # "none"

EnqueueReads(d) ==
  /\ admin = "none" /\ Known(d) /\ lastTask < MaxTask
  /\ admin' = d
  /\ UNCHANGED <<slot, stored, lastTask, sent, posting, identityVars>>

\* The slot is overwritten, whatever it held.
EnqueueWrites ==
  /\ admin # "none"
  /\ slot' = [slot EXCEPT ![admin] = lastTask + 1]
  /\ lastTask' = lastTask + 1
  /\ admin' = "none"
  /\ UNCHANGED <<stored, sent, posting, identityVars>>

\* The device answers requests with the identity it was registered with.
OfferJob(d) ==
  /\ Known(d) /\ secretOf[d] = phoneOf[d] /\ slot[d] # 0
  /\ sent' = sent \union {<<d, slot[d]>>}
  /\ UNCHANGED <<slot, stored, lastTask, posting, admin, identityVars>>

\* The key's time to live has passed.
SlotExpires(d) ==
  /\ slot[d] # 0
  /\ slot' = [slot EXCEPT ![d] = 0]
  /\ UNCHANGED <<stored, lastTask, sent, posting, admin, identityVars>>

\* The result of a task that is outstanding; any other is refused or known.
MatchResult(h, d, k) ==
  /\ posting[h] = NotPosting /\ <<d, k>> \in sent
  /\ Known(d) /\ slot[d] = k
  /\ posting' = [posting EXCEPT ![h] = [stage |-> "matched", phone |-> d, task |-> k, reg |-> phoneOf[d]]]
  /\ UNCHANGED <<slot, stored, lastTask, sent, admin, identityVars>>

StoreResult(h) ==
  /\ posting[h].stage = "matched"
  /\ stored' = stored \union {posting[h].task}
  /\ posting' = [posting EXCEPT ![h].stage = "stored"]
  /\ UNCHANGED <<slot, lastTask, sent, admin, identityVars>>

\* The slot is deleted by key: it may hold a later task by now.
ClearSlot(h) ==
  /\ posting[h].stage = "stored"
  /\ slot' = [slot EXCEPT ![posting[h].phone] = 0]
  /\ posting' = [posting EXCEPT ![h].stage = "cleared"]
  /\ UNCHANGED <<stored, lastTask, sent, admin, identityVars>>

\* The registration read at the start is written back with last_seen_at.
TouchPhone(h) ==
  /\ posting[h].stage = "cleared"
  /\ phoneOf' = [phoneOf EXCEPT ![posting[h].phone] = posting[h].reg]
  /\ posting' = [posting EXCEPT ![h] = NotPosting]
  /\ UNCHANGED <<slot, stored, lastTask, sent, admin, tokenState, secretOf, usedBy, provision>>

PosterDies(h) ==
  /\ posting[h] # NotPosting
  /\ posting' = [posting EXCEPT ![h] = NotPosting]
  /\ UNCHANGED <<slot, stored, lastTask, sent, admin, identityVars>>

VercelNext ==
  \/ \E t \in Tokens : IssueToken(t)
  \/ \E h \in Provisioners :
       \/ \E t \in Tokens, d \in Phones, id \in Identities : ReadToken(h, t, d, id)
       \/ ReadPhone(h) \/ WriteSecret(h) \/ WritePhone(h) \/ ConsumeToken(h) \/ ProvisionDies(h)
  \/ \E d \in Phones : EnqueueReads(d) \/ OfferJob(d) \/ SlotExpires(d)
  \/ EnqueueWrites
  \/ \E h \in Posters :
       \/ \E d \in Phones, k \in 1..MaxTask : MatchResult(h, d, k)
       \/ StoreResult(h) \/ ClearSlot(h) \/ TouchPhone(h) \/ PosterDies(h)

VercelSpec == VercelInit /\ [][VercelNext]_vercelVars

-------------------------------------------------------------------------------
\* The credential a registered device is verified with is the one its
\* registration names, although the two are different keys, written one after
\* the other, and a result handler writes an old registration back.  Needs
\* registrations that do not overlap.
CredentialMatchesRegistration ==
  \A d \in Phones : phoneOf[d] # "none" => secretOf[d] = phoneOf[d]

\* A provisioning token registers one device: "The provisioning endpoint accepts
\* a one-time token".
TokenRegistersOnce == \A t \in Tokens : Cardinality(usedBy[t]) <= 1
===============================================================================
