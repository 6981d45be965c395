-------------------------- MODULE ObjectiveAuthority --------------------------
(***************************************************************************)
(* From a proposed objective to a command: the canonical object store, the *)
(* objective registry that writes proposals, evaluations and authorized    *)
(* objectives into it, the evidence ingestors that write beside it, and    *)
(* the agent execution plane that reads the store before it runs a task.   *)
(* Every call of the store is a transaction of its own; the callers make   *)
(* several and may die between two.                                        *)
(***************************************************************************)
EXTENDS Naturals, FiniteSets, Sequences, SequencesExt

CONSTANTS Proposals,   \* names of objective proposals
          ProposalOf,  \* for each its objective, source, root, forbidden and verifier's verdict
          CapTokens,   \* names of capability token payloads
          TokenOf,     \* for each its task, objective, root and allowed actions
          AgentTasks,  \* names of tasks
          TaskOf,      \* for each its role, action and objective context
          Foreign,     \* objects other users of the store put, with their own provenance
          Documents,   \* documents of the ingestors: for each the values it holds, in order
          Registrars,  \* processes that call record()
          Runners,     \* processes that call run_task()
          Ingestors    \* processes that call ingest()

ASSUME AuthorityAssumption ==
  \A d \in DOMAIN Documents : d # "none" /\ Documents[d] \in Seq(ToSet(Documents[d]))

Objectives == {ProposalOf[p].objective : p \in Proposals}

\* A stored object: put() derives its identity from kind and payload, so the
\* record is its own name.  An evaluation holds the objective and the decision
\* and not the proposal; an authorized objective names its evaluation.
Object(kind, of, verdict) == [kind |-> kind, of |-> of, verdict |-> verdict]
ProposalObject(p) == Object("objective_proposal", p, "")
EvaluationObject(o, verdict) == Object("objective_evaluation", o, verdict)
AuthorizedObject(p, verdict) == Object("authorized_objective", p, verdict)
TokenObject(t) == Object("capability_token", t, "")
NoObject == Object("none", "", "")

VARIABLES objects,   \* table objects
          prov,      \* table provenance: <<object, source type, evidence class>>
          storeLinks,\* table links: <<parent, child>>
          current,   \* table aliases: objective/current/<objective>
          registrar, \* the record() call of each registrar
          runner,    \* the run_task() call of each runner
          ingestor,  \* the ingest() call of each ingestor
          ranTasks,  \* commands run: <<task, the authorized object it was checked against>>
          ingested   \* documents whose ingest() has returned

authorityVars == <<objects, prov, storeLinks, current, registrar, runner, ingestor, ranTasks, ingested>>

NoRecord == [pc |-> "idle", p |-> "none"]
NoRun == [pc |-> "idle", task |-> "none", auth |-> NoObject]
NoIngest == [doc |-> "none", done |-> 0, linked |-> TRUE]

AuthorityTypeOK ==
  /\ \A x \in prov : x[1] \in objects
  /\ \A l \in storeLinks : l[1] \in objects /\ l[2] \in objects
  /\ DOMAIN current = Objectives
  /\ \A o \in Objectives : current[o] \in objects \union {NoObject}
  /\ \A r \in Registrars : registrar[r].p \in Proposals \union {"none"}
  /\ \A r \in Runners : runner[r].task \in AgentTasks \union {"none"}
  /\ \A i \in Ingestors : ingestor[i].doc \in DOMAIN Documents \union {"none"}
  /\ ingested \subseteq DOMAIN Documents

AuthorityInit ==
  /\ objects = {} /\ prov = {} /\ storeLinks = {}
  /\ current = [o \in Objectives |-> NoObject]
  /\ registrar = [r \in Registrars |-> NoRecord]
  /\ runner = [r \in Runners |-> NoRun]
  /\ ingestor = [i \in Ingestors |-> NoIngest]
  /\ ranTasks = {} /\ ingested = {}

-------------------------------------------------------------------------------
(* The store.  put(), link() and point() each commit.                       *)

\* Mutant: the provenance is stored and the object is not.
PutProvenance(obj, source, class) ==
  /\ objects' = objects
  /\ prov' = prov \union {<<obj, source, class>>}

Put(obj, source, class) ==
  /\ objects' = objects \union {obj}
  /\ prov' = prov \union {<<obj, source, class>>}

\* link() raises for an object it does not know; the callers below pass known ones.
Link(parent, child) ==
  /\ {parent, child} \subseteq objects
  /\ storeLinks' = storeLinks \union {<<parent, child>>}

Point(o, obj) ==
  /\ obj \in objects
  /\ current' = [current EXCEPT ![o] = obj]

\* Any other user of the store, with a source type and class of its own.
PutForeign(obj) ==
  /\ Put(obj, "generated", "UNCLASSIFIED")
  /\ obj \notin objects
  /\ UNCHANGED <<storeLinks, current, registrar, runner, ingestor, ranTasks, ingested>>

\* Guardian persists a capability token.
GuardianIssues(t) ==
  /\ TokenObject(t) \notin objects
  /\ Put(TokenObject(t), "guardian", "CAPABILITY_AUTHORIZATION")
  /\ UNCHANGED <<storeLinks, current, registrar, runner, ingestor, ranTasks, ingested>>

-------------------------------------------------------------------------------
(* ObjectiveIntegrityRegistry.record().                                     *)

\* Mutant: the owner's own word is taken for the verifier's.
EvaluateTrusting(p) ==
  IF ProposalOf[p].source \notin {"OWNER", "OWNER_POLICY"} THEN "PROPOSE_ONLY"
  ELSE IF ~ProposalOf[p].rootKnown THEN "QUARANTINE"
  ELSE IF ProposalOf[p].forbidden THEN "DENY" ELSE "EXECUTE"

Evaluate(p) ==
  LET q == ProposalOf[p] IN
  CASE q.source \notin {"OWNER", "OWNER_POLICY"} -> "PROPOSE_ONLY"
    [] q.source \in {"OWNER", "OWNER_POLICY"} /\ ~q.rootKnown -> "QUARANTINE"
    [] q.source \in {"OWNER", "OWNER_POLICY"} /\ q.rootKnown /\ q.forbidden -> "DENY"
    [] OTHER -> IF q.verified THEN "EXECUTE" ELSE "QUARANTINE"

DecisionOf(p) == EvaluationObject(ProposalOf[p].objective, Evaluate(p))

RecordProposal(r, p) ==
  /\ registrar[r].pc = "idle"
  /\ Put(ProposalObject(p), ProposalOf[p].source,
         IF ProposalOf[p].source \in {"OWNER", "OWNER_POLICY"}
         THEN "OWNER_ASSERTED_PROPOSAL" ELSE "UNTRUSTED_PROPOSAL")
  /\ registrar' = [registrar EXCEPT ![r] = [pc |-> "proposed", p |-> p]]
  /\ UNCHANGED <<storeLinks, current, runner, ingestor, ranTasks, ingested>>

RecordDecision(r) ==
  /\ registrar[r].pc = "proposed"
  /\ Put(DecisionOf(registrar[r].p), "objective_integrity", "AUTHORIZATION_DECISION")
  /\ registrar' = [registrar EXCEPT ![r].pc = "decided"]
  /\ UNCHANGED <<storeLinks, current, runner, ingestor, ranTasks, ingested>>

LinkDecision(r) ==
  /\ registrar[r].pc = "decided"
  /\ Link(ProposalObject(registrar[r].p), DecisionOf(registrar[r].p))
  /\ registrar' = [registrar EXCEPT ![r] =
       IF Evaluate(registrar[r].p) = "EXECUTE" THEN [@ EXCEPT !.pc = "linked"] ELSE NoRecord]
  /\ UNCHANGED <<objects, prov, current, runner, ingestor, ranTasks, ingested>>

RecordAuthorized(r) ==
  /\ registrar[r].pc = "linked"
  /\ Put(AuthorizedObject(registrar[r].p, "EXECUTE"), "objective_integrity", "OWNER_AUTHORIZED")
  /\ registrar' = [registrar EXCEPT ![r].pc = "authorized"]
  /\ UNCHANGED <<storeLinks, current, runner, ingestor, ranTasks, ingested>>

\* Mutant: the authorized object is not linked to its decision.
LeaveUnlinked(r) ==
  /\ registrar[r].pc = "authorized"
  /\ registrar' = [registrar EXCEPT ![r].pc = "authlinked"]
  /\ UNCHANGED <<objects, prov, storeLinks, current, runner, ingestor, ranTasks, ingested>>

LinkAuthorized(r) ==
  /\ registrar[r].pc = "authorized"
  /\ Link(DecisionOf(registrar[r].p), AuthorizedObject(registrar[r].p, "EXECUTE"))
  /\ registrar' = [registrar EXCEPT ![r].pc = "authlinked"]
  /\ UNCHANGED <<objects, prov, current, runner, ingestor, ranTasks, ingested>>

\* point() and not point_if_current(): the last call wins, whichever began last.
PointCurrent(r) ==
  /\ registrar[r].pc = "authlinked"
  /\ Point(ProposalOf[registrar[r].p].objective, AuthorizedObject(registrar[r].p, "EXECUTE"))
  /\ registrar' = [registrar EXCEPT ![r] = NoRecord]
  /\ UNCHANGED <<objects, prov, storeLinks, runner, ingestor, ranTasks, ingested>>

RegistrarDies(r) ==
  /\ registrar[r].pc # "idle"
  /\ registrar' = [registrar EXCEPT ![r] = NoRecord]
  /\ UNCHANGED <<objects, prov, storeLinks, current, runner, ingestor, ranTasks, ingested>>

-------------------------------------------------------------------------------
(* run_task(): authorize_task and verify_runtime_objective_context, then    *)
(* the command.                                                             *)

Mutates(t) == TaskOf[t].writes
NeedsObjective(t) == Mutates(t) \/ TaskOf[t].consequential

\* The authority policy: role, denied operations, mutation by role, the judge.
RoleAllows(t) ==
  LET k == TaskOf[t] IN
  /\ k.roleKnown /\ ~k.rootDenied
  /\ Mutates(t) => k.roleMutates
  /\ (Mutates(t) /\ k.consequential) => k.judged

\* execution_gate.
InScope(t, tok) ==
  LET k == TaskOf[t] IN
  /\ k.action \in tok.actions
  /\ k.destructive => tok.destructive
  /\ k.network => k.destination \in tok.network
  /\ k.secret # "none" => k.secret \in tok.secrets

HasProvenance(obj, source, class) == <<obj, source, class>> \in prov

\* Mutant: the kinds and bindings of the objects are checked, not who wrote them.
ContextVerifiedByKind(t) ==
  LET k == TaskOf[t]
      q == ProposalOf[k.auth.of]
      tok == TokenOf[k.token.of]
  IN  /\ {k.auth, k.eval, k.token} \subseteq objects
      /\ k.auth.kind = "authorized_objective" /\ k.eval.kind = "objective_evaluation"
      /\ k.token.kind = "capability_token"
      /\ k.eval = EvaluationObject(q.objective, k.auth.verdict)
      /\ k.eval.verdict = "EXECUTE"
      /\ tok.objective = q.objective /\ tok.root = q.root /\ tok.task = t
      /\ InScope(t, tok)

ContextVerified(t) ==
  LET k == TaskOf[t]
      q == ProposalOf[k.auth.of]
      tok == TokenOf[k.token.of]
  IN  /\ {k.auth, k.eval, k.token} \subseteq objects
      /\ k.auth.kind = "authorized_objective" /\ k.eval.kind = "objective_evaluation"
      /\ k.token.kind = "capability_token"
      /\ k.eval = EvaluationObject(q.objective, k.auth.verdict)
      /\ k.eval.verdict = "EXECUTE"
      /\ HasProvenance(k.auth, "objective_integrity", "OWNER_AUTHORIZED")
      /\ current[q.objective] = k.auth
      /\ HasProvenance(k.token, "guardian", "CAPABILITY_AUTHORIZATION")
      /\ tok.objective = q.objective /\ tok.root = q.root /\ tok.task = t
      /\ InScope(t, tok)

AuthorizeTask(r, t) ==
  /\ runner[r].pc = "idle"
  /\ RoleAllows(t)
  /\ NeedsObjective(t) => ContextVerified(t)
  /\ runner' = [runner EXCEPT ![r] =
       [pc |-> "authorized", task |-> t,
        auth |-> IF NeedsObjective(t) THEN TaskOf[t].auth ELSE NoObject]]
  /\ UNCHANGED <<objects, prov, storeLinks, current, registrar, ingestor, ranTasks, ingested>>

\* The command passes, fails, times out or cannot start; nothing is recorded in the store.
RunCommand(r) ==
  /\ runner[r].pc = "authorized"
  /\ ranTasks' = ranTasks \union {<<runner[r].task, runner[r].auth>>}
  /\ runner' = [runner EXCEPT ![r] = NoRun]
  /\ UNCHANGED <<objects, prov, storeLinks, current, registrar, ingestor, ingested>>

-------------------------------------------------------------------------------
(* ConversationEvidenceIngestor and ExternalAIEvidenceIngestor: a root      *)
(* object, then each value put and linked below it.                         *)

RootObject(d) == Object("ingest_root", d, "")
ValueObject(d, n) == Object("ingest_value", Documents[d][n], d)

IngestRoot(i, d) ==
  /\ ingestor[i].doc = "none"
  /\ Put(RootObject(d), "chatgpt_reconciliation", "SECONDARY_RECONCILIATION")
  /\ ingestor' = [ingestor EXCEPT ![i] = [doc |-> d, done |-> 0, linked |-> TRUE]]
  /\ UNCHANGED <<storeLinks, current, registrar, runner, ranTasks, ingested>>

\* Mutant: a value the store has already is taken as ingested.
IngestNewValue(i) ==
  LET c == ingestor[i] IN
  /\ c.doc # "none" /\ c.linked /\ c.done < Len(Documents[c.doc])
  /\ Put(ValueObject(c.doc, c.done + 1), "chatgpt_reconciliation", "SECONDARY_RECONCILIATION")
  /\ ingestor' = [ingestor EXCEPT ![i].done = @ + 1,
                                  ![i].linked = ValueObject(c.doc, c.done + 1) \in objects]
  /\ UNCHANGED <<storeLinks, current, registrar, runner, ranTasks, ingested>>

IngestValue(i) ==
  LET c == ingestor[i] IN
  /\ c.doc # "none" /\ c.linked /\ c.done < Len(Documents[c.doc])
  /\ Put(ValueObject(c.doc, c.done + 1), "chatgpt_reconciliation", "SECONDARY_RECONCILIATION")
  /\ ingestor' = [ingestor EXCEPT ![i].done = @ + 1, ![i].linked = FALSE]
  /\ UNCHANGED <<storeLinks, current, registrar, runner, ranTasks, ingested>>

LinkValue(i) ==
  LET c == ingestor[i] IN
  /\ ~c.linked
  /\ Link(RootObject(c.doc), ValueObject(c.doc, c.done))
  /\ ingestor' = [ingestor EXCEPT ![i].linked = TRUE]
  /\ UNCHANGED <<objects, prov, current, registrar, runner, ranTasks, ingested>>

IngestReturns(i) ==
  LET c == ingestor[i] IN
  /\ c.doc # "none" /\ c.linked /\ c.done = Len(Documents[c.doc])
  /\ ingested' = ingested \union {c.doc}
  /\ ingestor' = [ingestor EXCEPT ![i] = NoIngest]
  /\ UNCHANGED <<objects, prov, storeLinks, current, registrar, runner, ranTasks>>

IngestorDies(i) ==
  /\ ingestor[i].doc # "none"
  /\ ingestor' = [ingestor EXCEPT ![i] = NoIngest]
  /\ UNCHANGED <<objects, prov, storeLinks, current, registrar, runner, ranTasks, ingested>>

ObjectiveNext ==
  \/ \E obj \in Foreign : PutForeign(obj)
  \/ \E t \in CapTokens : GuardianIssues(t)
  \/ \E r \in Registrars :
       \/ \E p \in Proposals : RecordProposal(r, p)
       \/ RecordDecision(r) \/ LinkDecision(r) \/ RecordAuthorized(r)
       \/ LinkAuthorized(r) \/ PointCurrent(r) \/ RegistrarDies(r)
  \/ \E r \in Runners : (\E t \in AgentTasks : AuthorizeTask(r, t)) \/ RunCommand(r)

IngestNext ==
  \E i \in Ingestors :
    \/ \E d \in DOMAIN Documents : IngestRoot(i, d)
    \/ IngestValue(i) \/ LinkValue(i) \/ IngestReturns(i) \/ IngestorDies(i)

AuthorityNext == ObjectiveNext \/ IngestNext
AuthoritySpec == AuthorityInit /\ [][AuthorityNext]_authorityVars

-------------------------------------------------------------------------------
\* A mutating or consequential command ran only for an objective of the owner
\* that the verifier approved, under a known root and without forbidden
\* capabilities, whatever other users of the store wrote into it.
RunsAreAuthorized ==
  \A x \in ranTasks : NeedsObjective(x[1]) =>
    LET q == ProposalOf[x[2].of] IN
    q.source \in {"OWNER", "OWNER_POLICY"} /\ q.verified /\ q.rootKnown /\ ~q.forbidden

\* The current objective can be traced: its alias names an authorized object
\* linked from a stored decision, itself linked from the stored proposal,
\* wherever a registrar died.
CurrentIsTraceable ==
  \A o \in Objectives : current[o] # NoObject =>
    LET p == current[o].of IN
    /\ <<ProposalObject(p), EvaluationObject(o, "EXECUTE")>> \in storeLinks
    /\ <<EvaluationObject(o, "EXECUTE"), current[o]>> \in storeLinks

\* An ingest that returned has linked every value of its document, whatever an
\* earlier call that died had already put.
IngestConverges ==
  \A d \in ingested : \A n \in DOMAIN Documents[d] :
    <<RootObject(d), ValueObject(d, n)>> \in storeLinks
===============================================================================
