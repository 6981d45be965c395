---------------------------- MODULE ExportEvidence ----------------------------
(* The neutral evidence store of provider exports: preserve_export of        *)
(* centinal26/export_evidence.py, run by several processes over one store,   *)
(* and the import of a verified export into transcripts (chat_bridge.py).    *)
(*                                                                           *)
(* Objects are written in place under the name of their hash and receipts    *)
(* under the hash of their identity, both with O_EXCL: what a death leaves   *)
(* half-written stays.  A lock covers everything but the first hash of the   *)
(* source.                                                                   *)
EXTENDS Naturals, FiniteSets, Sequences

CONSTANTS Ingesters,        \* processes that preserve an export
          MessageIds,       \* message_id; "none" is the export without one
          MaxContent,       \* contents are 1..MaxContent
          MaxSourceChanges, \* bound on changes of a source file
          MaxIngests,       \* bound on calls of a process
          MaxIngestDeaths,  \* bound on deaths in the middle of one
          Importers,        \* engines that import a preserved export
          MaxNode,          \* nodes of a conversation's tree are 1..MaxNode, in time order
          MaxImports, MaxTampers, MaxImportDeaths \* bounds

ASSUME ExportAssumption ==
  {MaxContent, MaxSourceChanges, MaxIngests, MaxIngestDeaths, MaxNode} \subseteq Nat /\ "none" \notin Ingesters

Contents == 1..MaxContent
Absent == 0
Partial == MaxContent + 1

VARIABLES exported,    \* objects/sha256: what lies under the name of each hash
          receipts,   \* receipts: <<message, content>>, with whether the file is whole
          index,      \* index/receipts.jsonl
          storeLock,  \* the holder of .ingest.lock
          ingester,   \* the processes
          sourceFile, \* content of each process's source
          results,    \* <<status, message, content>> reported
          exportCounts

storeSide == <<exported, receipts, index, storeLock, ingester, sourceFile, results, exportCounts>>

VARIABLES importDir,   \* an import's directory: the transcripts and the manifest
          importer,    \* the engines
          importCounts

importVars == <<importDir, importer, importCounts>>
exportVars == <<storeSide, importVars>>

Nodes == 1..MaxNode
Root == 0           \* no parent
Gone == MaxNode + 1 \* a node the mapping does not have
Trees == [parent : [Nodes -> Nodes \union {Root, Gone}], current : Nodes \union {Gone}]
Transcripts == 1..2 \* of the first conversation and of another one

IngesterIdle == [pc |-> "idle", message |-> "none", hash |-> 0, created |-> FALSE]
Receipt(m, c, whole) == [message |-> m, content |-> c, whole |-> whole]

ExportTypeOK ==
  /\ exported \in [Contents -> 0..Partial]
  /\ receipts \subseteq [message : MessageIds, content : Contents, whole : BOOLEAN]
  /\ index \subseteq MessageIds \X Contents
  /\ storeLock \in Ingesters \union {"none"}
  /\ \A p \in Ingesters :
       /\ ingester[p].pc \in {"idle", "lock", "scan", "object", "copy", "receipt", "write", "index"}
       /\ ingester[p].pc \in {"scan", "object", "copy", "receipt", "write", "index"} => storeLock = p
  /\ sourceFile \in [Ingesters -> Contents]
  /\ \A p \in Importers : importer[p].next \in Transcripts /\ importer[p].bad \subseteq Transcripts
  /\ exportCounts \in [changes : 0..MaxSourceChanges, ingests : [Ingesters -> 0..MaxIngests],
                       deaths : 0..MaxIngestDeaths]

ExportInit ==
  /\ exported = [c \in Contents |-> Absent] /\ receipts = {} /\ index = {} /\ results = {}
  /\ storeLock = "none" /\ ingester = [p \in Ingesters |-> IngesterIdle]
  /\ sourceFile \in [Ingesters -> Contents]
  /\ exportCounts = [changes |-> 0, ingests |-> [p \in Ingesters |-> 0], deaths |-> 0]

-------------------------------------------------------------------------------
Step(p, pc) == ingester' = [ingester EXCEPT ![p].pc = pc]

\* The call ends, with a status or an exception, and the lock is given back.
End(p, status) ==
  /\ ingester' = [ingester EXCEPT ![p] = IngesterIdle]
  /\ storeLock' = "none"
  /\ results' = results \union {<<status, ingester[p].message, ingester[p].hash>>}

\* The source is hashed before the lock is asked for.
PreserveExport(p, m) ==
  /\ ingester[p].pc = "idle" /\ exportCounts.ingests[p] < MaxIngests
  /\ ingester' = [ingester EXCEPT ![p] = [IngesterIdle EXCEPT !.pc = "lock", !.message = m, !.hash = sourceFile[p]]]
  /\ exportCounts' = [exportCounts EXCEPT !.ingests[p] = @ + 1]
  /\ UNCHANGED <<exported, receipts, index, storeLock, sourceFile, results>>

StoreLock(p) ==
  /\ ingester[p].pc = "lock" /\ storeLock = "none"
  /\ storeLock' = p /\ Step(p, "scan")
  /\ UNCHANGED <<exported, receipts, index, sourceFile, results, exportCounts>>

\* Mutant: an identity is compared within the same content only.
ConflictByContent(r, m, c) == FALSE

\* _strong_identity_conflict: the message is bound to other bytes already.
StrongIdentityConflict(r, m, c) == m # "none" /\ r.message = m /\ r.content # c

\* Every receipt is read: one that does not parse ends every call.  A receipt
\* that is there already has its object verified.
ScanReceipts(p) ==
  LET m == ingester[p].message  c == ingester[p].hash IN
  /\ ingester[p].pc = "scan"
  /\ CASE \E r \in receipts : ~r.whole -> End(p, "INVALID_RECEIPT")
       [] \E r \in receipts : StrongIdentityConflict(r, m, c) -> End(p, "SOURCE_IDENTITY_CONFLICT")
       [] Receipt(m, c, TRUE) \in receipts ->
            End(p, IF exported[c] = c THEN "DUPLICATE_SOURCE" ELSE "OBJECT_INTEGRITY_FAILURE")
       [] OTHER -> Step(p, "object") /\ UNCHANGED <<storeLock, results>>
  /\ UNCHANGED <<exported, receipts, index, sourceFile, exportCounts>>

\* _preserve_object: an object that is there is verified, a new one is created
\* under its final name.
PreserveObject(p) ==
  LET c == ingester[p].hash IN
  /\ ingester[p].pc = "object"
  /\ CASE exported[c] = Absent ->
            /\ exported' = [exported EXCEPT ![c] = Partial]
            /\ ingester' = [ingester EXCEPT ![p].pc = "copy", ![p].created = TRUE]
            /\ UNCHANGED <<storeLock, results>>
       [] exported[c] = c -> Step(p, "receipt") /\ UNCHANGED <<exported, storeLock, results>>
       [] OTHER -> End(p, "OBJECT_INTEGRITY_FAILURE") /\ UNCHANGED exported
  /\ UNCHANGED <<receipts, index, sourceFile, exportCounts>>

\* Mutant: what was copied is believed to be what was hashed.
CopyUnchecked(p) ==
  /\ ingester[p].pc = "copy"
  /\ exported' = [exported EXCEPT ![ingester[p].hash] = sourceFile[p]]
  /\ Step(p, "receipt")
  /\ UNCHANGED <<receipts, index, storeLock, sourceFile, results, exportCounts>>

\* Mutant: a copy that went wrong is left where it is.
CopyLeftBehind(p) ==
  /\ ingester[p].pc = "copy"
  /\ IF sourceFile[p] = ingester[p].hash
     THEN /\ exported' = [exported EXCEPT ![ingester[p].hash] = sourceFile[p]]
          /\ Step(p, "receipt") /\ UNCHANGED <<storeLock, results>>
     ELSE End(p, "SOURCE_CHANGED_DURING_INGEST") /\ UNCHANGED exported
  /\ UNCHANGED <<receipts, index, sourceFile, exportCounts>>

\* The copy is hashed on its way; one that differs is unlinked.
CopyObject(p) ==
  /\ ingester[p].pc = "copy"
  /\ IF sourceFile[p] = ingester[p].hash
     THEN /\ exported' = [exported EXCEPT ![ingester[p].hash] = sourceFile[p]]
          /\ Step(p, "receipt") /\ UNCHANGED <<storeLock, results>>
     ELSE /\ exported' = [exported EXCEPT ![ingester[p].hash] = Absent]
          /\ End(p, "SOURCE_CHANGED_DURING_INGEST")
  /\ UNCHANGED <<receipts, index, sourceFile, exportCounts>>

\* _write_exclusive: the receipt is created, then written.
CreateReceipt(p) ==
  /\ ingester[p].pc = "receipt"
  /\ receipts' = receipts \union {Receipt(ingester[p].message, ingester[p].hash, FALSE)}
  /\ Step(p, "write")
  /\ UNCHANGED <<exported, index, storeLock, sourceFile, results, exportCounts>>

WriteReceipt(p) ==
  LET m == ingester[p].message  c == ingester[p].hash IN
  /\ ingester[p].pc = "write"
  /\ receipts' = (receipts \ {Receipt(m, c, FALSE)}) \union {Receipt(m, c, TRUE)}
  /\ Step(p, "index")
  /\ UNCHANGED <<exported, index, storeLock, sourceFile, results, exportCounts>>

AppendIndex(p) ==
  /\ ingester[p].pc = "index"
  /\ index' = index \union {<<ingester[p].message, ingester[p].hash>>}
  /\ End(p, IF ingester[p].created THEN "PRESERVED" ELSE "REUSED_OBJECT")
  /\ UNCHANGED <<exported, receipts, sourceFile, exportCounts>>

\* verify_receipt changes nothing: it fails where the object is not what the
\* receipt says.
VerifyReceipt(r) == r.whole /\ exported[r.content] = r.content

IngesterDies(p) ==
  /\ ingester[p].pc # "idle" /\ exportCounts.deaths < MaxIngestDeaths
  /\ ingester' = [ingester EXCEPT ![p] = IngesterIdle]
  /\ storeLock' = IF storeLock = p THEN "none" ELSE storeLock
  /\ exportCounts' = [exportCounts EXCEPT !.deaths = @ + 1]
  /\ UNCHANGED <<exported, receipts, index, sourceFile, results>>

SourceChanges(p) ==
  /\ exportCounts.changes < MaxSourceChanges
  /\ \E c \in Contents \ {sourceFile[p]} : sourceFile' = [sourceFile EXCEPT ![p] = c]
  /\ exportCounts' = [exportCounts EXCEPT !.changes = @ + 1]
  /\ UNCHANGED <<exported, receipts, index, storeLock, ingester, results>>

ExportNext ==
  /\ \E p \in Ingesters :
       \/ \E m \in MessageIds : PreserveExport(p, m)
       \/ StoreLock(p) \/ ScanReceipts(p) \/ PreserveObject(p) \/ CopyObject(p)
       \/ CreateReceipt(p) \/ WriteReceipt(p) \/ AppendIndex(p)
       \/ IngesterDies(p) \/ SourceChanges(p)
  /\ UNCHANGED importVars

-------------------------------------------------------------------------------
(* The import of one receipt's export, by the engines that execute and        *)
(* verify the capability.  Its directory is named by the receipt, so all of   *)
(* them write to the same files, each by an atomic replace.                   *)

NoManifest == [by |-> "none", run |-> 0]
ImporterIdle == [pc |-> "idle", next |-> 1, hash |-> NoManifest, bad |-> {}, disturbed |-> FALSE]

\* The nodes from the current one up, and what ends the walk, again and again.
Walk(t) ==
  LET up[k \in 1..MaxNode + 1] ==
        IF k = 1 THEN t.current ELSE IF up[k - 1] \in Nodes THEN t.parent[up[k - 1]] ELSE up[k - 1]
  IN  up

\* Mutant: a walk that never reaches the root is kept as far as it went.
NodePathAnyWay(t) ==
  LET up == Walk(t)
      length == Cardinality({k \in 1..MaxNode : up[k] \in Nodes})
  IN  [i \in 1..length |-> up[length + 1 - i]]

\* _node_path_to_current: from the current node up to the root, reversed; empty
\* when a node is missing or comes back.
NodePathToCurrent(t) ==
  LET up == Walk(t)
      length == Cardinality({k \in 1..MaxNode : up[k] \in Nodes})
  IN  IF up[MaxNode + 1] # Root THEN <<>> ELSE [i \in 1..length |-> up[length + 1 - i]]

\* _messages_from_conversation: without a branch, all messages in time order.
MessagesFromConversation(t) ==
  IF NodePathToCurrent(t) = <<>> THEN [n \in Nodes |-> n] ELSE NodePathToCurrent(t)

ImportStep(p, pc) == importer' = [importer EXCEPT ![p].pc = pc, ![p].next = 1]

\* import_verified_chatgpt_export, once verify_receipt has passed.
BeginImport(p) ==
  /\ importer[p].pc \in {"idle", "passed", "failed"} /\ importCounts.runs[p] < MaxImports
  /\ importer' = [importer EXCEPT ![p] = [ImporterIdle EXCEPT !.pc = "writing"]]
  /\ importCounts' = [importCounts EXCEPT !.runs[p] = @ + 1]
  /\ UNCHANGED importDir

\* Mutant: a transcript that is there already is taken for the one to write.
WriteMissingTranscript(p) ==
  LET n == importer[p].next IN
  /\ importer[p].pc = "writing"
  /\ importDir' = [importDir EXCEPT !.transcripts[n] = IF @ = "none" THEN "whole" ELSE @]
  /\ importer' = [importer EXCEPT ![p].pc = IF n = 1 THEN @ ELSE "manifest", ![p].next = 3 - n]
  /\ UNCHANGED importCounts

WriteTranscript(p) ==
  LET n == importer[p].next
      rewritten == [q \in Importers |-> [importer[q] EXCEPT !.bad = @ \ {n}]]
  IN
  /\ importer[p].pc = "writing"
  /\ importDir' = [importDir EXCEPT !.transcripts[n] = "whole"]
  /\ importer' = [rewritten EXCEPT ![p].pc = IF n = 1 THEN @ ELSE "manifest", ![p].next = 3 - n]
  /\ UNCHANGED importCounts

\* The manifest carries the time of its import: no two are equal.
WriteImportManifest(p) ==
  /\ importer[p].pc = "manifest"
  /\ importDir' = [importDir EXCEPT !.manifest = [by |-> p, run |-> importCounts.runs[p]]]
  /\ importer' = [q \in Importers |-> IF q = p THEN [importer[p] EXCEPT !.pc = "hash"]
                                      ELSE [importer[q] EXCEPT !.disturbed = TRUE]]
  /\ UNCHANGED importCounts

\* The output names the hash of what the file has by then.
HashManifest(p) ==
  /\ importer[p].pc = "hash"
  /\ importer' = [importer EXCEPT ![p].pc = "verify", ![p].hash = importDir.manifest]
  /\ UNCHANGED <<importDir, importCounts>>

\* verify_chatgpt_import: the manifest first, then one transcript at a time.
VerifyManifest(p) ==
  /\ importer[p].pc = "verify"
  /\ importer' = [importer EXCEPT ![p].pc = IF importDir.manifest = importer[p].hash THEN "checking" ELSE "failed",
                                 ![p].next = 1,
                                 ![p].bad = {n \in Transcripts : importDir.transcripts[n] # "whole"}]
  /\ UNCHANGED <<importDir, importCounts>>

\* Mutant: the last transcript is not read.
VerifyButLast(p) ==
  LET n == importer[p].next IN
  /\ importer[p].pc = "checking"
  /\ IF n = 1 /\ importDir.transcripts[n] # "whole" THEN ImportStep(p, "failed")
     ELSE IF n = 1 THEN importer' = [importer EXCEPT ![p].next = 2] ELSE ImportStep(p, "passed")
  /\ UNCHANGED <<importDir, importCounts>>

VerifyTranscript(p) ==
  LET n == importer[p].next IN
  /\ importer[p].pc = "checking"
  /\ IF importDir.transcripts[n] # "whole" THEN ImportStep(p, "failed")
     ELSE IF n = 1 THEN importer' = [importer EXCEPT ![p].next = 2] ELSE ImportStep(p, "passed")
  /\ UNCHANGED <<importDir, importCounts>>

TamperTranscript(n) ==
  /\ importDir.transcripts[n] = "whole" /\ importCounts.tampers < MaxTampers
  /\ importDir' = [importDir EXCEPT !.transcripts[n] = "tampered"]
  /\ importer' = [q \in Importers |-> [importer[q] EXCEPT !.disturbed = TRUE]]
  /\ importCounts' = [importCounts EXCEPT !.tampers = @ + 1]

ImporterDies(p) ==
  /\ importer[p].pc \notin {"idle", "passed", "failed"} /\ importCounts.deaths < MaxImportDeaths
  /\ importer' = [importer EXCEPT ![p] = ImporterIdle]
  /\ importCounts' = [importCounts EXCEPT !.deaths = @ + 1]
  /\ UNCHANGED importDir

ImportInit ==
  /\ importDir = [transcripts |-> [n \in Transcripts |-> "none"], manifest |-> NoManifest]
  /\ importer = [p \in Importers |-> ImporterIdle]
  /\ importCounts = [runs |-> [p \in Importers |-> 0], tampers |-> 0, deaths |-> 0]

ImportNext ==
  /\ \/ \E p \in Importers :
          \/ BeginImport(p) \/ WriteTranscript(p) \/ WriteImportManifest(p) \/ HashManifest(p)
          \/ VerifyManifest(p) \/ VerifyTranscript(p) \/ ImporterDies(p)
     \/ \E n \in Transcripts : TamperTranscript(n)
  /\ UNCHANGED storeSide

-------------------------------------------------------------------------------
\* A receipt that can be read names an object that has exactly its bytes, even
\* when the source changed and a process died on the way.
ReceiptHasObject == \A r \in receipts : r.whole => VerifyReceipt(r)

\* A message of the provider is bound to one content for ever.
SourceBoundOnce ==
  \A r, s \in receipts : r.message = s.message /\ r.message # "none" => r.content = s.content

\* Nobody but a death leaves the store with something half-written, or with a
\* receipt the index does not have: a store that refuses every call, or an
\* object nobody can preserve any more, comes from a crash.
DamageIsByDeath ==
  storeLock = "none" /\ exportCounts.deaths = 0 =>
    /\ \A r \in receipts : r.whole /\ <<r.message, r.content>> \in index
    /\ \A c \in Contents : exported[c] # Partial

\* What verify_chatgpt_import passed is whole: a transcript that was missing or
\* tampered with when the verification began has been written again since.
PassedImportIsWhole ==
  \A p \in Importers : importer[p].pc = "passed" =>
    /\ \A n \in Transcripts : importDir.transcripts[n] # "none"
    /\ importer[p].bad = {}

\* An import fails its verification only when another one of the same export, or
\* somebody else, wrote to its directory meanwhile: the manifest's time makes two
\* imports of one export disagree about a file that says the same.
FailedByOthersOnly == \A p \in Importers : importer[p].pc = "failed" => importer[p].disturbed

\* The transcript of every conversation, its mapping damaged or not, is the branch
\* of its current node, from a root down to it and without its siblings, or all
\* messages when there is no such branch.
TranscriptIsSelectedBranch == \A t \in Trees :
  LET upward(S) == t.current \in S /\ \A m \in S : t.parent[m] \in Nodes => t.parent[m] \in S
      ancestors == {n \in Nodes : \A S \in SUBSET Nodes : upward(S) => n \in S}
      messages == MessagesFromConversation(t)
  IN  IF /\ t.current \in Nodes /\ \A n \in ancestors : t.parent[n] # Gone
         /\ \E n \in ancestors : t.parent[n] = Root
      THEN /\ {messages[i] : i \in DOMAIN messages} = ancestors /\ Len(messages) = Cardinality(ancestors)
           /\ t.parent[messages[1]] = Root /\ messages[Len(messages)] = t.current
           /\ \A i \in 1..Len(messages) - 1 : t.parent[messages[i + 1]] = messages[i]
      ELSE messages = [n \in Nodes |-> n]
===============================================================================
