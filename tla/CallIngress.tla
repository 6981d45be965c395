----------------------------- MODULE CallIngress ------------------------------
(* How outside calls become canonical tasks, by their content: the typed HSI *)
(* requests (hsi_adapter.py) are translated into frost-call envelopes        *)
(* (frost_call_adapter.py), and those into adapter requests, which           *)
(* CanonicalAdapterGateway.ingest (adapter_gateway.py) appends to the log as *)
(* a source and a task.  EventAdvance has the life of the tasks, this module *)
(* the identity of the requests.                                             *)
EXTENDS Naturals, FiniteSets

CONSTANTS Calls,    \* the calls made: a set of records, see CallType
          Ingresses \* processes that ingest

CallType ==
  [protocol : {"hsi", "frost-call"}, request : STRING, key : STRING, payload : STRING,
   typed : BOOLEAN,    \* the parameters are those the HSI operation allows
   reserved : BOOLEAN] \* the constraints use the key of the adapter itself

ASSUME IngressAssumption == Calls \subseteq CallType

VARIABLES sources,   \* request_sha256 of the source of each external id
          created,   \* request_sha256 of the task of each external id
          unreadable,\* the log holds a second TASK_CREATED of one task
          ingress,   \* each process: the request it ingests, where it is
          granted    \* calls answered with a task: <<call, digest>>

ingressVars == <<sources, created, unreadable, ingress, granted>>

\* The key of a call that gives none is its request id.
KeyOf(c) == IF c.key = "" THEN c.request ELSE c.key
ExternalIds == {KeyOf(c) : c \in Calls}

\* normalize_hsi_request refuses what is not typed, to_adapter_request what
\* takes the reserved constraint; an HSI call has constraints of its own.
Refused(c) == IF c.protocol = "hsi" THEN ~c.typed ELSE c.reserved

\* The digest is of the whole request: the request id, the caller and the
\* protocol are among its constraints.
Digest(c) == [protocol |-> c.protocol, request |-> c.request, key |-> KeyOf(c), payload |-> c.payload]

NoDigest == [protocol |-> "", request |-> "", key |-> "", payload |-> ""]
Digests == {Digest(c) : c \in Calls} \union {NoDigest}
Unoccupied == [at |-> "idle", call |-> CHOOSE c \in Calls : TRUE]

IngressTypeOK ==
  /\ sources \in [ExternalIds -> Digests] /\ created \in [ExternalIds -> Digests]
  /\ unreadable \in BOOLEAN
  /\ ingress \in [Ingresses -> [at : {"idle", "source", "add source", "task", "add task"}, call : Calls]]
  /\ granted \subseteq Calls \X Digests

IngressInit ==
  /\ sources = [k \in ExternalIds |-> NoDigest] /\ created = [k \in ExternalIds |-> NoDigest]
  /\ unreadable = FALSE /\ granted = {}
  /\ ingress = [p \in Ingresses |-> Unoccupied]

Move(p, to) == ingress' = [ingress EXCEPT ![p].at = to]
Leave(p) == ingress' = [ingress EXCEPT ![p] = Unoccupied]

\* ingest_hsi_request or ingest_frost_call; a call that is refused leaves nothing.
ReceiveCall(p, c) ==
  /\ ingress[p].at = "idle" /\ ~Refused(c)
  /\ ingress' = [ingress EXCEPT ![p] = [at |-> "source", call |-> c]]
  /\ UNCHANGED <<sources, created, unreadable, granted>>

\* The state is rebuilt; the key of another content is a conflict.
LookForSource(p) ==
  LET known == sources[KeyOf(ingress[p].call)] IN
  /\ ingress[p].at = "source" /\ ~unreadable
  /\ \/ known = NoDigest /\ Move(p, "add source")
     \/ known = Digest(ingress[p].call) /\ Move(p, "task")
     \/ known \notin {NoDigest, Digest(ingress[p].call)} /\ Leave(p)
  /\ UNCHANGED <<sources, created, unreadable, granted>>

\* SOURCE_INGESTED replaces whatever source another process appended meanwhile.
AddSource(p) ==
  LET c == ingress[p].call IN
  /\ ingress[p].at = "add source"
  /\ sources' = [sources EXCEPT ![KeyOf(c)] = Digest(c)]
  /\ Move(p, "task")
  /\ UNCHANGED <<created, unreadable, granted>>

Answer(p, digest) == granted' = granted \union {<<ingress[p].call, digest>>} /\ Leave(p)

\* Mutant: a task that is there answers the call.
TaskAssumed(p) ==
  LET known == created[KeyOf(ingress[p].call)] IN
  /\ ingress[p].at = "task" /\ ~unreadable
  /\ \/ known = NoDigest /\ Move(p, "add task") /\ UNCHANGED granted
     \/ known # NoDigest /\ Answer(p, known)
  /\ UNCHANGED <<sources, created, unreadable>>

LookForTask(p) ==
  LET known == created[KeyOf(ingress[p].call)] IN
  /\ ingress[p].at = "task" /\ ~unreadable
  /\ \/ known = NoDigest /\ Move(p, "add task") /\ UNCHANGED granted
     \/ known = Digest(ingress[p].call) /\ Answer(p, known)
     \/ known \notin {NoDigest, Digest(ingress[p].call)} /\ Leave(p) /\ UNCHANGED granted
  /\ UNCHANGED <<sources, created, unreadable>>

\* The state is rebuilt once more before the answer: a second TASK_CREATED raises.
AddTask(p) ==
  LET c == ingress[p].call IN
  /\ ingress[p].at = "add task"
  /\ IF created[KeyOf(c)] = NoDigest
     THEN /\ created' = [created EXCEPT ![KeyOf(c)] = Digest(c)]
          /\ IF unreadable THEN Leave(p) /\ UNCHANGED granted ELSE Answer(p, Digest(c))
          /\ UNCHANGED unreadable
     ELSE Leave(p) /\ unreadable' = TRUE /\ UNCHANGED <<created, granted>>
  /\ UNCHANGED sources

IngressDies(p) ==
  /\ ingress[p].at # "idle" /\ Leave(p)
  /\ UNCHANGED <<sources, created, unreadable, granted>>

IngressNext ==
  \E p \in Ingresses :
    \/ \E c \in Calls : ReceiveCall(p, c)
    \/ LookForSource(p) \/ AddSource(p) \/ LookForTask(p) \/ AddTask(p) \/ IngressDies(p)

-------------------------------------------------------------------------------
\* Whoever was answered with a task got the task of its own content, whatever
\* calls overlapped under its key and wherever earlier ones died.
AnsweredWithTheirTask ==
  \A g \in granted : g[2] = Digest(g[1]) /\ created[KeyOf(g[1])] = Digest(g[1])
===============================================================================
