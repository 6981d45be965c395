---------------------------- MODULE ExportRecovery ----------------------------
(* The provider export recovery of frost_core/export_recovery.py: the        *)
(* download of a signed export, and the ingestion of the parts of a Takeout  *)
(* with its derived manifest.                                                *)
(*                                                                           *)
(* Downloads of the same export share one temporary path: a file is modelled *)
(* by its inode, with two chunks, so that two downloads can write into one   *)
(* another's file.                                                           *)
(*                                                                           *)
(* Beside it the snapshots of a live SQLite database and their restoration,  *)
(* frost_core/sqlite_recovery.py, which share their temporary paths as well. *)
EXTENDS Naturals, Sequences, SequencesExt, FiniteSets

CONSTANTS Downloads,       \* processes that run chatgpt-download
          MaxVersions,     \* the provider's content under the link is 1..MaxVersions
          Ingests,         \* processes that run takeout-ingest
          PartNames,       \* file names of parts
          ExpectedParts,   \* --expected_parts
          MaxParts,        \* bound on the parts of one call
          MaxRecoveryDeaths,
          Snapshotters, Restorers, \* processes that copy and restore a database
          MaxDbVersions    \* commits to the database, its creation included

ASSUME RecoveryAssumption ==
  /\ ExpectedParts \subseteq PartNames
  /\ {MaxVersions, MaxParts, MaxRecoveryDeaths, MaxDbVersions} \subseteq Nat /\ MaxDbVersions > 0
  /\ "none" \notin Snapshotters \union Restorers

VARIABLES provider,    \* the content under the signed link
          inodes,      \* content of each file ever opened: two chunks, 0 unwritten
          tempPath,    \* the inode under the temporary path, 0 if none
          incoming,    \* the inode under incoming/<filename>, 0 if none
          raw,         \* contents in the raw store, each under its hash
          acquired,    \* evidence records: content and what the provider had sent
          download,    \* the downloads
          manifests,   \* derived/manifests: parts -> "partial" or "whole"
          ingest,      \* the ingestions
          bundles,     \* ledger bundles of ingestions
          recoveryDeaths

VARIABLES database,    \* the file at the destination: who writes it, and its content
          latest,      \* the last commit to any database
          writer,      \* a connection to the database; its sidecars exist while it is open
          preRestore,  \* <destination>.pre_restore.<hash>: content by the hash of its name
          snapshotFile, snapshotTemp, restoreTemp, \* the snapshot, and the two temporary paths
          snapshotter, restorer,
          restores     \* the replacements of the database that did harm, and of what kind

downloadVars == <<provider, inodes, tempPath, incoming, raw, acquired, download>>
ingestVars == <<manifests, ingest, bundles>>
databaseVars == <<database, latest, writer, preRestore, snapshotFile, snapshotTemp, restoreTemp, snapshotter,
                  restorer, restores>>
recoveryVars == <<downloadVars, ingestVars, databaseVars, recoveryDeaths>>

Blank == <<0, 0>>
DownloadIdle == [pc |-> "idle", inode |-> 0, sent |-> 0, next |-> 1, hash |-> Blank]
IngestIdle == [pc |-> "idle", parts |-> <<>>, omissions |-> FALSE]
Parts == [name : PartNames, good : BOOLEAN]
PartLists == UNION {[1..n -> Parts] : n \in 0..MaxParts}

DbVersions == 1..MaxDbVersions
Torn == MaxDbVersions + 1
DbContents == 0..Torn \* 0 is no file
NoFile == [by |-> "none", content |-> 0]
SnapshotterIdle == [pc |-> "idle"]
RestorerIdle == [pc |-> "idle", expected |-> 0, disturbed |-> FALSE]

Replacing == {"open", "backup", "verify", "replace", "final"}

RecoveryTypeOK ==
  /\ provider \in 1..MaxVersions
  /\ \A i \in DOMAIN inodes : inodes[i] \in (0..MaxVersions) \X (0..MaxVersions)
  /\ {tempPath, incoming} \subseteq 0..Len(inodes)
  /\ raw \subseteq (0..MaxVersions) \X (0..MaxVersions)
  /\ \A p \in Downloads : download[p].pc \in {"idle", "write", "replace", "hash", "copy", "judge", "over"}
  /\ \A p \in Ingests : ingest[p].pc \in {"idle", "create", "write", "bundle", "over"}
  /\ \A m \in manifests : m.state \in {"partial", "whole"}
  /\ {database.content, snapshotFile.content, snapshotTemp.content, restoreTemp.content} \subseteq DbContents
  /\ preRestore \in [DbVersions -> DbContents] /\ writer.version \in 0..latest
  /\ \A p \in Restorers : restorer[p].pc \in {"idle", "sidecars", "hash", "copy"} \union Replacing

RecoveryInit ==
  /\ provider = 1 /\ inodes = <<>> /\ tempPath = 0 /\ incoming = 0 /\ raw = {} /\ acquired = {}
  /\ download = [p \in Downloads |-> DownloadIdle]
  /\ manifests = {} /\ ingest = [p \in Ingests |-> IngestIdle] /\ bundles = {} /\ recoveryDeaths = 0
  /\ database = [by |-> "none", content |-> 1] /\ latest = 1
  /\ writer = [open |-> FALSE, displaced |-> FALSE, version |-> 0]
  /\ preRestore = [v \in DbVersions |-> 0] /\ restores = {}
  /\ snapshotFile = NoFile /\ snapshotTemp = NoFile /\ restoreTemp = NoFile
  /\ snapshotter = [p \in Snapshotters |-> SnapshotterIdle] /\ restorer = [p \in Restorers |-> RestorerIdle]

-------------------------------------------------------------------------------
(* download_chatgpt_signed_export.                                         *)

\* Opening for writing empties the file another download may be writing.
OpenTemp(p) ==
  /\ download[p].pc = "idle"
  /\ IF tempPath = 0
     THEN /\ inodes' = Append(inodes, Blank) /\ tempPath' = Len(inodes) + 1
     ELSE /\ inodes' = [inodes EXCEPT ![tempPath] = Blank] /\ UNCHANGED tempPath
  /\ download' = [download EXCEPT ![p] = [DownloadIdle EXCEPT !.pc = "write", !.inode = tempPath', !.sent = provider]]
  /\ UNCHANGED <<provider, incoming, raw, acquired, ingestVars, recoveryDeaths>>

WriteChunk(p) ==
  LET d == download[p] IN
  /\ d.pc = "write"
  /\ inodes' = [inodes EXCEPT ![d.inode][d.next] = d.sent]
  /\ download' = [download EXCEPT ![p] = IF d.next = 1 THEN [d EXCEPT !.next = 2] ELSE [d EXCEPT !.pc = "replace"]]
  /\ UNCHANGED <<provider, tempPath, incoming, raw, acquired, ingestVars, recoveryDeaths>>

\* The error path removes the temporary path, whoever's file is under it.
FailDownload(p) == download' = [download EXCEPT ![p].pc = "over"] /\ tempPath' = 0

ReplaceTemp(p) ==
  /\ download[p].pc = "replace"
  /\ IF tempPath = 0 THEN FailDownload(p) /\ UNCHANGED incoming
     ELSE /\ incoming' = tempPath /\ tempPath' = 0
          /\ download' = [download EXCEPT ![p].pc = "hash"]
  /\ UNCHANGED <<provider, inodes, raw, acquired, ingestVars, recoveryDeaths>>

\* preserve_raw_archive: the hash of the source names the target...
HashDownloaded(p) ==
  /\ download[p].pc = "hash"
  /\ IF incoming = 0 THEN FailDownload(p)
     ELSE /\ download' = [download EXCEPT ![p].pc = "copy", ![p].hash = inodes[incoming]]
          /\ UNCHANGED tempPath
  /\ UNCHANGED <<provider, inodes, incoming, raw, acquired, ingestVars, recoveryDeaths>>

\* ... and the copy must still have it, unless the target is there already.
CopyDownloaded(p) ==
  LET d == download[p] IN
  /\ d.pc = "copy"
  /\ IF d.hash \in raw \/ (incoming # 0 /\ inodes[incoming] = d.hash)
     THEN /\ raw' = raw \union {d.hash}
          /\ download' = [download EXCEPT ![p].pc = "judge"] /\ UNCHANGED tempPath
     ELSE FailDownload(p) /\ UNCHANGED raw
  /\ UNCHANGED <<provider, inodes, incoming, acquired, ingestVars, recoveryDeaths>>

\* Mutant: what was preserved is taken for what was received.
TrustPreserved(p) == TRUE

\* The preserved hash is that of the bytes as they were received, and both are
\* a readable archive.
MatchesReceived(p) == download[p].hash = <<download[p].sent, download[p].sent>>

JudgeDownload(p) ==
  LET d == download[p] IN
  /\ d.pc = "judge"
  /\ incoming' = 0
  /\ IF MatchesReceived(p)
     THEN /\ acquired' = acquired \union {[content |-> d.hash, sent |-> d.sent]}
          /\ download' = [download EXCEPT ![p].pc = "over"] /\ UNCHANGED tempPath
     ELSE FailDownload(p) /\ UNCHANGED acquired
  /\ UNCHANGED <<provider, inodes, raw, ingestVars, recoveryDeaths>>

\* The connection breaks, the redirect goes elsewhere, the export is empty.
DownloadBreaks(p) ==
  /\ download[p].pc = "write"
  /\ FailDownload(p)
  /\ UNCHANGED <<provider, inodes, incoming, raw, acquired, ingestVars, recoveryDeaths>>

ProviderRenews ==
  /\ provider < MaxVersions /\ provider' = provider + 1
  /\ UNCHANGED <<inodes, tempPath, incoming, raw, acquired, download, ingestVars, recoveryDeaths>>

-------------------------------------------------------------------------------
(* ingest_takeout_parts.                                                   *)

NamesOf(parts) == {parts[i].name : i \in DOMAIN parts}

\* build_multipart_manifest, without what the provider says.
MissingParts(parts) == ExpectedParts \ NamesOf(parts)
ProviderComplete(parts, omissions) ==
  parts # <<>> /\ MissingParts(parts) = {} /\ ~omissions /\ ExpectedParts # {}

\* The inspections are kept by file name: the last part of a name counts.
Inspections(parts) == {i \in DOMAIN parts : \A j \in DOMAIN parts : parts[j].name = parts[i].name => j <= i}

\* Mutant: one good part is enough.
SomePartGood(parts) == \E i \in Inspections(parts) : parts[i].good

IntegrityPass(parts) == \A i \in Inspections(parts) : parts[i].good

BundleOf(parts, omissions) ==
  [parts     |-> parts,
   complete  |-> IF omissions \/ MissingParts(parts) # {} THEN "INCOMPLETE"
                 ELSE IF ProviderComplete(parts, omissions) THEN "COMPLETE" ELSE "UNKNOWN",
   omissions |-> omissions,
   integrity |-> IntegrityPass(parts)]

Manifest(p, state) == [key |-> <<ingest[p].parts, ingest[p].omissions>>, state |-> state]

\* The raw parts are preserved, inspected and put in order of their names: the
\* manifest's digest depends on nothing else.
StartIngest(p, parts, omissions) ==
  /\ ingest[p].pc = "idle"
  /\ ingest' = [ingest EXCEPT ![p] = [pc |-> "create", parts |-> parts, omissions |-> omissions]]
  /\ UNCHANGED <<downloadVars, manifests, bundles, recoveryDeaths>>

\* write_derived_manifest: one that is there must have the same text.
CreateManifest(p) ==
  /\ ingest[p].pc = "create"
  /\ LET pc == IF Manifest(p, "whole") \in manifests THEN "bundle"
               ELSE IF Manifest(p, "partial") \in manifests THEN "over" ELSE "write" IN
     /\ ingest' = [ingest EXCEPT ![p].pc = pc]
     /\ manifests' = IF pc = "write" THEN manifests \union {Manifest(p, "partial")} ELSE manifests
  /\ UNCHANGED <<downloadVars, bundles, recoveryDeaths>>

WriteManifest(p) ==
  /\ ingest[p].pc = "write"
  /\ manifests' = (manifests \ {Manifest(p, "partial")}) \union {Manifest(p, "whole")}
  /\ ingest' = [ingest EXCEPT ![p].pc = "bundle"]
  /\ UNCHANGED <<downloadVars, bundles, recoveryDeaths>>

\* Mutant: the bundle is given out before its manifest is written.
BundleFirst(p) ==
  /\ ingest[p].pc \in {"write", "bundle"}
  /\ bundles' = bundles \union {BundleOf(ingest[p].parts, ingest[p].omissions)}
  /\ ingest' = [ingest EXCEPT ![p].pc = "over"]
  /\ UNCHANGED <<downloadVars, manifests, recoveryDeaths>>

GiveBundle(p) ==
  /\ ingest[p].pc = "bundle"
  /\ bundles' = bundles \union {BundleOf(ingest[p].parts, ingest[p].omissions)}
  /\ ingest' = [ingest EXCEPT ![p].pc = "over"]
  /\ UNCHANGED <<downloadVars, manifests, recoveryDeaths>>

-------------------------------------------------------------------------------
(* create_sqlite_snapshot and restore_sqlite_snapshot.                      *)

\* A connection in WAL mode: what it commits reaches the file when it closes,
\* or a file that is not at the path any more.
OpenDatabase ==
  /\ ~writer.open /\ database.content \in DbVersions
  /\ writer' = [open |-> TRUE, displaced |-> FALSE, version |-> database.content]
  /\ restorer' = [p \in Restorers |-> [restorer[p] EXCEPT !.disturbed = TRUE]]
  /\ UNCHANGED <<database, latest, preRestore, snapshotFile, snapshotTemp, restoreTemp, snapshotter, restores>>

CommitDatabase ==
  /\ writer.open /\ latest < MaxDbVersions
  /\ latest' = latest + 1 /\ writer' = [writer EXCEPT !.version = latest + 1]
  /\ UNCHANGED <<database, preRestore, snapshotFile, snapshotTemp, restoreTemp, snapshotter, restorer, restores>>

CloseDatabase ==
  /\ writer.open
  /\ writer' = [open |-> FALSE, displaced |-> FALSE, version |-> 0]
  /\ database' = IF writer.displaced THEN database ELSE [database EXCEPT !.content = writer.version]
  /\ UNCHANGED <<latest, preRestore, snapshotFile, snapshotTemp, restoreTemp, snapshotter, restorer, restores>>

\* What a reader of the path sees, the sidecars included.
Committed == IF writer.open /\ ~writer.displaced THEN writer.version ELSE database.content

\* The content reaches the file that was opened, under whatever path it is by then.
Fill(file, p, content) == IF file.by = p THEN [by |-> "none", content |-> content] ELSE file

OpenSnapshot(p) ==
  /\ snapshotter[p].pc = "idle"
  /\ snapshotTemp' = [by |-> p, content |-> Torn]
  /\ snapshotter' = [snapshotter EXCEPT ![p].pc = "backup"]
  /\ UNCHANGED <<database, latest, writer, preRestore, snapshotFile, restoreTemp, restorer, restores>>

BackupDatabase(p) ==
  /\ snapshotter[p].pc = "backup"
  /\ snapshotTemp' = Fill(snapshotTemp, p, Committed) /\ snapshotFile' = Fill(snapshotFile, p, Committed)
  /\ snapshotter' = [snapshotter EXCEPT ![p].pc = "verify"]
  /\ UNCHANGED <<database, latest, writer, preRestore, restoreTemp, restorer, restores>>

\* The verification of what is under the temporary path; a failure unlinks it.
VerifySnapshotTemp(p) ==
  LET whole == snapshotTemp.content \in DbVersions IN
  /\ snapshotter[p].pc = "verify"
  /\ snapshotTemp' = IF whole THEN snapshotTemp ELSE NoFile
  /\ snapshotter' = [snapshotter EXCEPT ![p].pc = IF whole THEN "replace" ELSE "idle"]
  /\ UNCHANGED <<database, latest, writer, preRestore, snapshotFile, restoreTemp, restorer, restores>>

\* The status of the last verification is not looked at.
ReplaceSnapshot(p) ==
  /\ snapshotter[p].pc = "replace"
  /\ snapshotFile' = IF snapshotTemp = NoFile THEN snapshotFile ELSE snapshotTemp
  /\ snapshotTemp' = NoFile
  /\ snapshotter' = [snapshotter EXCEPT ![p].pc = "idle"]
  /\ UNCHANGED <<database, latest, writer, preRestore, restoreTemp, restorer, restores>>

\* Another restoration touched the temporary path or the database.
Disturb(p) == [q \in Restorers |-> [restorer[q] EXCEPT !.disturbed = @ \/ q # p]]
RestoreStep(p, pc) == restorer' = [restorer EXCEPT ![p].pc = pc]
EndRestore(p) == restorer' = [restorer EXCEPT ![p] = RestorerIdle]
FailRestore(p) == restoreTemp' = NoFile /\ restorer' = [Disturb(p) EXCEPT ![p] = RestorerIdle]

\* The caller names the hash it saw last.
StartRestore(p, expected) ==
  /\ restorer[p].pc = "idle" /\ snapshotFile.content \in DbVersions
  /\ restorer' = [restorer EXCEPT ![p] =
        [pc |-> "sidecars", expected |-> expected, disturbed |-> FALSE]]
  /\ UNCHANGED <<database, latest, writer, preRestore, snapshotFile, snapshotTemp, restoreTemp, snapshotter,
                 restores>>

\* Mutant: an open connection does not stand in the way.
IgnoreSidecars(p) ==
  /\ restorer[p].pc = "sidecars"
  /\ restorer' = [restorer EXCEPT ![p].pc = "hash", ![p].disturbed = FALSE]
  /\ UNCHANGED <<database, latest, writer, preRestore, snapshotFile, snapshotTemp, restoreTemp, snapshotter,
                 restores>>

CheckSidecars(p) ==
  /\ restorer[p].pc = "sidecars"
  /\ IF writer.open THEN EndRestore(p)
     ELSE restorer' = [restorer EXCEPT ![p].pc = "hash", ![p].disturbed = FALSE]
  /\ UNCHANGED <<database, latest, writer, preRestore, snapshotFile, snapshotTemp, restoreTemp, snapshotter,
                 restores>>

\* The database must be the expected one, and not have been preserved before.
HashDatabase(p) ==
  LET expected == restorer[p].expected IN
  /\ restorer[p].pc = "hash"
  /\ IF database.content # expected \/ preRestore[expected] # 0 THEN EndRestore(p) ELSE RestoreStep(p, "copy")
  /\ UNCHANGED <<database, latest, writer, preRestore, snapshotFile, snapshotTemp, restoreTemp, snapshotter,
                 restores>>

CopyDatabase(p) ==
  /\ restorer[p].pc = "copy"
  /\ preRestore' = [preRestore EXCEPT ![restorer[p].expected] = database.content]
  /\ RestoreStep(p, "open")
  /\ UNCHANGED <<database, latest, writer, snapshotFile, snapshotTemp, restoreTemp, snapshotter, restores>>

OpenRestore(p) ==
  /\ restorer[p].pc = "open"
  /\ restoreTemp' = [by |-> p, content |-> Torn]
  /\ restorer' = [Disturb(p) EXCEPT ![p].pc = "backup"]
  /\ UNCHANGED <<database, latest, writer, preRestore, snapshotFile, snapshotTemp, snapshotter, restores>>

\* The snapshot is read again: it may be another one by now.
BackupSnapshot(p) ==
  LET content == snapshotFile.content IN
  /\ restorer[p].pc = "backup"
  /\ restoreTemp' = Fill(restoreTemp, p, content) /\ database' = Fill(database, p, content)
  /\ RestoreStep(p, "verify")
  /\ UNCHANGED <<latest, writer, preRestore, snapshotFile, snapshotTemp, snapshotter, restores>>

\* Mutant: what was verified at the start is not verified again.
TrustRestoreTemp(p) ==
  /\ restorer[p].pc = "verify" /\ RestoreStep(p, "replace")
  /\ UNCHANGED <<database, latest, writer, preRestore, snapshotFile, snapshotTemp, restoreTemp, snapshotter,
                 restores>>

VerifyRestoreTemp(p) ==
  /\ restorer[p].pc = "verify"
  /\ IF restoreTemp.content \in DbVersions THEN RestoreStep(p, "replace") /\ UNCHANGED restoreTemp
     ELSE FailRestore(p)
  /\ UNCHANGED <<database, latest, writer, preRestore, snapshotFile, snapshotTemp, snapshotter, restores>>

ReplaceDatabase(p) ==
  /\ restorer[p].pc = "replace"
  /\ IF restoreTemp = NoFile THEN FailRestore(p) /\ UNCHANGED <<database, writer, restores>>
     ELSE /\ database' = restoreTemp /\ restoreTemp' = NoFile
          /\ writer' = [writer EXCEPT !.displaced = writer.open]
          /\ LET harm == [torn |-> restoreTemp.content = Torn,
                          lost |-> Committed \in DbVersions /\ \A v \in DbVersions : preRestore[v] # Committed,
                          disturbed |-> restorer[p].disturbed]
             IN  restores' = IF harm.torn \/ harm.lost THEN restores \union {harm} ELSE restores
          /\ restorer' = [Disturb(p) EXCEPT ![p].pc = "final"]
  /\ UNCHANGED <<latest, preRestore, snapshotFile, snapshotTemp, snapshotter>>

\* RESTORE_VERIFIED, or an error that puts nothing back.
VerifyRestored(p) ==
  /\ restorer[p].pc = "final" /\ EndRestore(p)
  /\ UNCHANGED <<database, latest, writer, preRestore, snapshotFile, snapshotTemp, restoreTemp, snapshotter,
                 restores>>

SnapshotDies(p) ==
  /\ recoveryDeaths < MaxRecoveryDeaths /\ recoveryDeaths' = recoveryDeaths + 1
  /\ \/ /\ p \in Snapshotters /\ snapshotter[p].pc # "idle"
        /\ snapshotter' = [snapshotter EXCEPT ![p] = SnapshotterIdle] /\ UNCHANGED restorer
     \/ /\ p \in Restorers /\ restorer[p].pc # "idle"
        /\ EndRestore(p) /\ UNCHANGED snapshotter
  /\ database' = Fill(database, p, Torn) /\ restoreTemp' = Fill(restoreTemp, p, Torn)
  /\ snapshotFile' = Fill(snapshotFile, p, Torn) /\ snapshotTemp' = Fill(snapshotTemp, p, Torn)
  /\ UNCHANGED <<latest, writer, preRestore, restores>>

DatabaseStep ==
  \/ OpenDatabase \/ CommitDatabase \/ CloseDatabase
  \/ \E p \in Snapshotters : OpenSnapshot(p) \/ BackupDatabase(p) \/ VerifySnapshotTemp(p) \/ ReplaceSnapshot(p)
  \/ \E p \in Restorers :
       \/ \E expected \in 1..latest : StartRestore(p, expected)
       \/ CheckSidecars(p) \/ HashDatabase(p) \/ CopyDatabase(p) \/ OpenRestore(p) \/ BackupSnapshot(p)
       \/ VerifyRestoreTemp(p) \/ ReplaceDatabase(p) \/ VerifyRestored(p)

-------------------------------------------------------------------------------
RecoveryDies(p) ==
  /\ recoveryDeaths < MaxRecoveryDeaths
  /\ \/ /\ p \in Downloads /\ download[p].pc \notin {"idle", "over"}
        /\ download' = [download EXCEPT ![p] = DownloadIdle] /\ UNCHANGED ingest
     \/ /\ p \in Ingests /\ ingest[p].pc \notin {"idle", "over"}
        /\ ingest' = [ingest EXCEPT ![p] = IngestIdle] /\ UNCHANGED download
  /\ recoveryDeaths' = recoveryDeaths + 1
  /\ UNCHANGED <<provider, inodes, tempPath, incoming, raw, acquired, manifests, bundles>>

DownloadStep(p) ==
  \/ OpenTemp(p) \/ WriteChunk(p) \/ ReplaceTemp(p) \/ HashDownloaded(p) \/ CopyDownloaded(p)
  \/ JudgeDownload(p) \/ DownloadBreaks(p)

IngestStep(p) ==
  \/ \E l \in PartLists, b \in BOOLEAN : StartIngest(p, l, b)
  \/ CreateManifest(p) \/ WriteManifest(p) \/ GiveBundle(p)

DownloadNext ==
  /\ (\E p \in Downloads : DownloadStep(p) \/ RecoveryDies(p)) \/ ProviderRenews
  /\ UNCHANGED databaseVars
PreserveNext ==
  /\ \E p \in Ingests : IngestStep(p) \/ RecoveryDies(p)
  /\ UNCHANGED databaseVars
DatabaseNext ==
  /\ \/ DatabaseStep /\ UNCHANGED recoveryDeaths
     \/ \E p \in Snapshotters \union Restorers : SnapshotDies(p)
  /\ UNCHANGED <<downloadVars, ingestVars>>
RecoveryNext == DownloadNext \/ PreserveNext \/ DatabaseNext

-------------------------------------------------------------------------------
\* A record of an acquired export names bytes the provider sent as they are and
\* the raw store has them, however many downloads wrote into the same file.
AcquiredIsWhatWasSent ==
  \A a \in acquired : a.content = <<a.sent, a.sent>> /\ a.content \in raw

\* A bundle's manifest lies whole in the store, and only a death leaves one that
\* is half-written, which every later call would take for a collision.
BundleHasManifest ==
  /\ \A b \in bundles : [key |-> <<b.parts, b.omissions>>, state |-> "whole"] \in manifests
  /\ recoveryDeaths = 0 /\ (\A p \in Ingests : ingest[p].pc # "write") =>
       \A m \in manifests : m.state = "whole"

\* An export that is said to be complete and intact has all expected parts, and
\* every part is intact.  It holds as long as no two parts have one name.
CompleteIsIntact ==
  \A b \in bundles :
    b.complete = "COMPLETE" /\ b.integrity /\ Cardinality(NamesOf(b.parts)) = Len(b.parts) =>
      \A n \in ExpectedParts : \E i \in DOMAIN b.parts : b.parts[i] = [name |-> n, good |-> TRUE]

\* A restoration puts no torn database in place, and loses no commit that is not
\* under a .pre_restore name, unless the database was opened or another
\* restoration ran between its first look and its replacement: snapshots taken
\* meanwhile, their deaths and their shared temporary file do no harm to it.
RestoreHarmIsByOverlap == \A harm \in restores : harm.disturbed
===============================================================================
