---------------------------- MODULE LibraryCleaner ----------------------------
(* The library cleaner of deploy/termux/library_cleaner: the daemon that     *)
(* archives and deletes library items through the user interface             *)
(* (frost_library_cleanerd.py), and the autopilot that arms and disarms it   *)
(* (autopilot_cycle.py with qualify_and_arm.sh).                             *)
(*                                                                           *)
(* An item is a name and the number of its content.  Every user-interface    *)
(* step may fail, which ends the work on the item; what the user, the        *)
(* browser and other programs do on the device are actions of their own.     *)
EXTENDS Naturals, FiniteSets

CONSTANTS Items,              \* names of library items
          SafeItems,          \* is_safe_candidate: allowed by pattern or list, and not denied
          MaxForeign,         \* bound on downloads other programs finish
          MaxUploads,         \* bound on contents the user replaces
          MaxCleanerDeaths    \* bound on deaths of the daemon

ASSUME CleanerAssumption ==
  /\ SafeItems \subseteq Items /\ IsFiniteSet(Items)
  /\ {MaxForeign, MaxUploads, MaxCleanerDeaths} \subseteq Nat

VARIABLES shelf,       \* content of each item in the library, 0 if there is none
          lastContent, \* the last content number given out
          downloads,   \* contents of files that appeared since download_snapshot
          archived,    \* contents of the archive directory
          deletedNames, \* state.json, deleted
          deletedContents, \* what was really deleted
          cleaner,     \* the daemon: where it is, its item, the content it holds, its own configuration
          armed,       \* config.json, auto_delete
          qualified,   \* qualification-result.json is there and has no errors
          pilot,       \* autopilot_cycle.py
          counts       \* what the bounds count

libraryVars == <<shelf, lastContent, downloads, archived, deletedNames, deletedContents>>
cleanerVars == <<libraryVars, cleaner, armed, qualified, pilot, counts>>

CleanerDown == [pc |-> "down", item |-> "none", content |-> 0, armed |-> FALSE]

CleanerTypeOK ==
  /\ shelf \in [Items -> 0..lastContent] /\ lastContent \in Nat
  /\ {archived, downloads, deletedContents} \subseteq SUBSET (1..lastContent)
  /\ deletedNames \subseteq Items
  /\ cleaner \in [pc : {"down", "idle", "select", "download", "archive", "save", "delete", "confirm",
                        "verify"},
                  item : Items \union {"none"}, content : 0..lastContent, armed : BOOLEAN]
  /\ armed \in BOOLEAN /\ qualified \in BOOLEAN
  /\ pilot \in {"idle", "disarming", "qualifying", "arming"}
  /\ counts \in [foreign : 0..MaxForeign, uploads : 0..MaxUploads, deaths : 0..MaxCleanerDeaths]

CleanerInit ==
  /\ \E f \in [Items -> 1..Cardinality(Items)] :
       (\A x, y \in Items : f[x] = f[y] => x = y) /\ shelf = f
  /\ lastContent = Cardinality(Items)
  /\ downloads = {} /\ archived = {} /\ deletedNames = {} /\ deletedContents = {}
  /\ cleaner = CleanerDown /\ armed = FALSE /\ qualified = FALSE /\ pilot = "idle"
  /\ counts = [foreign |-> 0, uploads |-> 0, deaths |-> 0]

-------------------------------------------------------------------------------
(* One item through cycle(): archive_candidate, then delete_candidate.     *)

Go(pc) == cleaner' = [cleaner EXCEPT !.pc = pc]

\* The candidates are the items the searches show that are safe; one that is
\* deleted by name already is passed over, for good.
SelectItem(x) ==
  /\ cleaner.pc = "idle" /\ cleaner.armed
  /\ x \in SafeItems /\ shelf[x] # 0 /\ x \notin deletedNames
  /\ cleaner' = [cleaner EXCEPT !.pc = "select", !.item = x, !.content = 0]
  /\ UNCHANGED <<libraryVars, armed, qualified, pilot, counts>>

\* The exact name is selected, the download directories are listed and the
\* download is started.
StartDownload ==
  /\ cleaner.pc = "select" /\ shelf[cleaner.item] # 0
  /\ Go("download")
  /\ downloads' = {}
  /\ UNCHANGED <<shelf, lastContent, archived, deletedNames, deletedContents, armed, qualified,
                 pilot, counts>>

DownloadArrives ==
  /\ cleaner.pc = "download" /\ shelf[cleaner.item] # 0
  /\ downloads' = downloads \union {shelf[cleaner.item]}
  /\ UNCHANGED <<shelf, lastContent, archived, deletedNames, deletedContents, cleaner, armed,
                 qualified, pilot, counts>>

\* wait_for_download returns a file that is new or changed, whatever its name;
\* the next item lists the directories afresh.
TakeDownload(c) ==
  /\ cleaner.pc = "download" /\ c \in downloads
  /\ cleaner' = [cleaner EXCEPT !.pc = "archive", !.content = c]
  /\ downloads' = {}
  /\ UNCHANGED <<shelf, lastContent, archived, deletedNames, deletedContents, armed, qualified, pilot, counts>>

\* Mutant: the copy is left to the download directory.
LeaveInDownloads ==
  /\ cleaner.pc = "archive"
  /\ Go("save")
  /\ UNCHANGED <<shelf, lastContent, downloads, archived, deletedNames, deletedContents, armed, qualified,
                 pilot, counts>>

\* archive_download: copy, compare the hashes; nobody reads the ledger it writes.
ArchiveDownload ==
  /\ cleaner.pc = "archive"
  /\ archived' = archived \union {cleaner.content}
  /\ Go("save")
  /\ UNCHANGED <<shelf, lastContent, downloads, deletedNames, deletedContents, armed, qualified, pilot,
                 counts>>

\* save_state, then the name is searched and selected once more.
ReselectItem ==
  /\ cleaner.pc = "save" /\ shelf[cleaner.item] # 0
  /\ Go("delete")
  /\ UNCHANGED <<libraryVars, armed, qualified, pilot, counts>>

OpenConfirmation ==
  /\ cleaner.pc = "delete" /\ shelf[cleaner.item] # 0
  /\ Go("confirm")
  /\ UNCHANGED <<libraryVars, armed, qualified, pilot, counts>>

ConfirmDelete ==
  /\ cleaner.pc = "confirm" /\ shelf[cleaner.item] # 0
  /\ deletedContents' = deletedContents \union {shelf[cleaner.item]}
  /\ shelf' = [shelf EXCEPT ![cleaner.item] = 0]
  /\ Go("verify")
  /\ UNCHANGED <<lastContent, downloads, archived, deletedNames, armed, qualified, pilot, counts>>

\* The name is searched once more and must be gone; the state follows.
VerifyDeleted ==
  /\ cleaner.pc = "verify" /\ shelf[cleaner.item] = 0
  /\ deletedNames' = deletedNames \union {cleaner.item}
  /\ cleaner' = [cleaner EXCEPT !.pc = "idle", !.item = "none", !.content = 0]
  /\ UNCHANGED <<shelf, lastContent, downloads, archived, deletedContents, armed, qualified, pilot, counts>>

\* A control that is missing or ambiguous, a download that does not end: the
\* error is noted and the library is opened for the next item.
ItemFails ==
  /\ cleaner.pc \notin {"down", "idle"}
  /\ cleaner' = [cleaner EXCEPT !.pc = "idle", !.item = "none", !.content = 0]
  /\ downloads' = {}
  /\ UNCHANGED <<shelf, lastContent, archived, deletedNames, deletedContents, armed, qualified, pilot, counts>>

CleanerDies ==
  /\ cleaner.pc # "down" /\ counts.deaths < MaxCleanerDeaths
  /\ cleaner' = CleanerDown
  /\ counts' = [counts EXCEPT !.deaths = @ + 1]
  /\ UNCHANGED <<libraryVars, armed, qualified, pilot>>

CleanerStep ==
  \/ \E x \in Items : SelectItem(x)
  \/ StartDownload \/ DownloadArrives \/ (\E c \in downloads : TakeDownload(c))
  \/ ArchiveDownload \/ ReselectItem \/ OpenConfirmation \/ ConfirmDelete \/ VerifyDeleted
  \/ ItemFails \/ CleanerDies

-------------------------------------------------------------------------------
(* The device around it.                                                   *)

ForeignDownload ==
  /\ counts.foreign < MaxForeign /\ cleaner.pc = "download"
  /\ lastContent' = lastContent + 1
  /\ downloads' = downloads \union {lastContent + 1}
  /\ counts' = [counts EXCEPT !.foreign = @ + 1]
  /\ UNCHANGED <<shelf, archived, deletedNames, deletedContents, cleaner, armed, qualified, pilot>>

UserUploads(x) ==
  /\ counts.uploads < MaxUploads
  /\ lastContent' = lastContent + 1
  /\ shelf' = [shelf EXCEPT ![x] = lastContent + 1]
  /\ counts' = [counts EXCEPT !.uploads = @ + 1]
  /\ UNCHANGED <<downloads, archived, deletedNames, deletedContents, cleaner, armed, qualified, pilot>>

-------------------------------------------------------------------------------
(* The autopilot.                                                          *)

\* one_cycle: a scan or a syntax check that fails, or an armed cleaner without a
\* clean receipt, disarms; a disarmed one is put to qualification.
CycleDecides(sound) ==
  /\ pilot = "idle"
  /\ pilot' = CASE ~sound -> "disarming"
                [] sound /\ armed /\ ~qualified -> "disarming"
                [] sound /\ ~armed -> "qualifying"
                [] OTHER -> "idle"

OneCycle(sound) == CycleDecides(sound) /\ UNCHANGED <<libraryVars, cleaner, armed, qualified, counts>>

\* disarm: the configuration is written, then the service is taken down.
Disarm ==
  /\ pilot = "disarming"
  /\ IF armed THEN armed' = FALSE /\ UNCHANGED <<pilot, cleaner>>
     ELSE /\ cleaner' = CleanerDown /\ pilot' = "idle" /\ UNCHANGED armed
  /\ UNCHANGED <<libraryVars, qualified, counts>>

\* qualify_and_arm.sh: the service goes down and is disarmed, a dry run writes
\* the receipt, and a receipt without errors arms the cleaner and starts it.
Qualify(clean) ==
  /\ pilot = "qualifying"
  /\ cleaner' = CleanerDown /\ armed' = FALSE /\ qualified' = clean
  /\ pilot' = IF clean THEN "arming" ELSE "idle"
  /\ UNCHANGED <<libraryVars, counts>>

Arm ==
  /\ pilot = "arming"
  /\ armed' = TRUE /\ pilot' = "idle"
  /\ cleaner' = [CleanerDown EXCEPT !.pc = "idle", !.armed = TRUE]
  /\ UNCHANGED <<libraryVars, qualified, counts>>

\* The service supervisor or the boot hook starts an armed daemon again: it
\* reads its configuration once.
ServiceStarts ==
  /\ cleaner.pc = "down" /\ armed /\ pilot # "arming"
  /\ cleaner' = [CleanerDown EXCEPT !.pc = "idle", !.armed = armed]
  /\ UNCHANGED <<libraryVars, armed, qualified, pilot, counts>>

\* The receipt is lost or replaced by one that has errors.
ReceiptSpoils ==
  /\ qualified /\ pilot = "idle"
  /\ qualified' = FALSE
  /\ UNCHANGED <<libraryVars, cleaner, armed, pilot, counts>>

PilotStep ==
  \/ \E b \in BOOLEAN : OneCycle(b) \/ Qualify(b)
  \/ Disarm \/ Arm \/ ServiceStarts \/ ReceiptSpoils

CleanerNext == CleanerStep \/ ForeignDownload \/ (\E x \in Items : UserUploads(x)) \/ PilotStep

-------------------------------------------------------------------------------
\* What is deleted from the library has its bytes in the archive: the archive is
\* the only way back.  It holds on a device where nothing else is downloaded
\* and nothing is uploaded under the same name meanwhile.
DeletedIsArchived ==
  counts.foreign = 0 /\ counts.uploads = 0 => deletedContents \subseteq archived

\* The same without the condition, as the documentation has it.
EveryDeletedIsArchived == deletedContents \subseteq archived

\* Nothing but safe items is ever deleted, whatever was downloaded in between.
OnlySafeIsDeleted == \A x \in Items \ SafeItems : shelf[x] # 0

\* A cleaner that deletes was qualified: once the autopilot has taken its
\* authority back no daemon is left that still has it.
DisarmedIsDown == pilot = "idle" /\ ~armed => cleaner.pc = "down"

-------------------------------------------------------------------------------
(* Two jobs of the library cleaner's autopilot on the device: the watch that *)
(* tells its operator what needs action (action_watch.py), and the resumer   *)
(* that runs the enrollment of the physical gate and keeps its package       *)
(* (physical_resume.py).  GitHub and the enrollment script are modelled from *)
(* how they are used.                                                        *)

CONSTANTS Watched,       \* workflow runs and gates that are watched
          Forms,         \* conclusions of a failing run, details of a blocked gate
          MaxTurns,      \* bound on how often each comes to need action
          MaxWatchDeaths,\* bound on deaths of the watch
          Commits,       \* qualified source commits, in the order they come
          MaxPackages    \* bound on packages the enrollments make

ASSUME OperatorAssumption ==
  /\ {Forms, MaxTurns, MaxWatchDeaths, MaxPackages} \subseteq Nat
  /\ Commits = 1..Cardinality(Commits)

VARIABLES actual,  \* the form in which each of the watched needs action now; 0: none
          turns,   \* how often each became so, and how often it was told
          memory,  \* action-watch-state.json
          watch,   \* the check in progress
          watchDeaths,
          commit,  \* the qualified source commit
          gateOpen,\* the physical gate waits for the device
          zips,    \* the packages in the home directory
          markers, \* physical-resume-<commit>.json
          resumer, \* the resume in progress
          mixed    \* commits during whose resume somebody enrolled by hand

watchdogVars == <<actual, turns, memory, watch, watchDeaths>>
resumeVars == <<commit, gateOpen, zips, markers, resumer, mixed>>
operatorVars == <<watchdogVars, resumeVars>>

Quiet == [w \in Watched |-> 0]
NoCheck == [at |-> "idle", seen |-> Quiet, news |-> {}]
NoPackage == [of |-> 0, number |-> 0]
NoResume == [at |-> "idle", for |-> 0, since |-> 0]
ZipType == [of : Commits, number : 1..MaxPackages]

OperatorTypeOK ==
  /\ actual \in [Watched -> 0..Forms]
  /\ turns \in [Watched -> [failed : 0..MaxTurns, told : 0..(MaxTurns + 1)]]
  /\ memory \in [known : BOOLEAN, bad : [Watched -> 0..Forms]]
  /\ watch \in [at : {"idle", "seen", "remembered", "reported"}, seen : [Watched -> 0..Forms], news : SUBSET Watched]
  /\ watchDeaths \in 0..MaxWatchDeaths
  /\ commit \in Commits /\ gateOpen \in BOOLEAN
  /\ zips \subseteq ZipType
  /\ markers \in [Commits -> ZipType \union {NoPackage}]
  /\ resumer \in [at : {"idle", "script", "keep"}, for : Commits \union {0}, since : 0..MaxPackages]
  /\ mixed \subseteq Commits

OperatorInit ==
  /\ actual = Quiet /\ turns = [w \in Watched |-> [failed |-> 0, told |-> 0]]
  /\ memory = [known |-> FALSE, bad |-> Quiet] /\ watch = NoCheck /\ watchDeaths = 0
  /\ commit = 1 /\ gateOpen = TRUE /\ zips = {} /\ markers = [c \in Commits |-> NoPackage]
  /\ resumer = NoResume /\ mixed = {}

-------------------------------------------------------------------------------
(* The watch.                                                              *)

Turn(w, form) ==
  /\ form # actual[w] /\ (form # 0 => turns[w].failed < MaxTurns)
  /\ actual' = [actual EXCEPT ![w] = form]
  /\ turns' = [turns EXCEPT ![w].failed = IF form = 0 THEN @ ELSE @ + 1]
  /\ UNCHANGED <<memory, watch, watchDeaths, resumeVars>>

\* Mutant: an outage leaves an empty snapshot.
SnapshotOrNothing(reached) == [w \in Watched |-> IF w \in reached THEN actual[w] ELSE 0]

\* github_snapshot and canonical_gate_snapshot; what an outage hides is taken
\* from the last snapshot.
Snapshot(reached) == [w \in Watched |-> IF w \in reached THEN actual[w] ELSE memory.bad[w]]

\* actionable_changes: what needs action now and did not, or not in this form,
\* before.  There is nothing to compare the first snapshot with.
ActionableChanges(seen) ==
  IF memory.known THEN {w \in Watched : seen[w] # 0 /\ seen[w] # memory.bad[w]} ELSE {}

CheckActions(reached) ==
  LET seen == Snapshot(reached) IN
  /\ watch.at = "idle"
  /\ watch' = [at |-> "seen", seen |-> seen, news |-> ActionableChanges(seen)]
  /\ UNCHANGED <<actual, turns, memory, watchDeaths, resumeVars>>

\* STATE is replaced first, STATUS after it, and the changes are printed last.
RememberSnapshot ==
  /\ watch.at = "seen"
  /\ memory' = [known |-> TRUE, bad |-> watch.seen]
  /\ watch' = [watch EXCEPT !.at = "remembered"]
  /\ UNCHANGED <<actual, turns, watchDeaths, resumeVars>>

ReportStatus ==
  /\ watch.at = "remembered"
  /\ watch' = [watch EXCEPT !.at = "reported"]
  /\ UNCHANGED <<actual, turns, memory, watchDeaths, resumeVars>>

EmitChanges ==
  /\ watch.at = "reported"
  /\ turns' = [w \in Watched |-> [turns[w] EXCEPT !.told = IF w \in watch.news THEN @ + 1 ELSE @]]
  /\ watch' = NoCheck
  /\ UNCHANGED <<actual, memory, watchDeaths, resumeVars>>

WatchDies ==
  /\ watch.at # "idle" /\ watchDeaths < MaxWatchDeaths
  /\ watch' = NoCheck /\ watchDeaths' = watchDeaths + 1
  /\ UNCHANGED <<actual, turns, memory, resumeVars>>

WatchdogNext ==
  \/ \E w \in Watched, form \in 0..Forms : Turn(w, form)
  \/ \E r \in SUBSET Watched : CheckActions(r)
  \/ RememberSnapshot \/ ReportStatus \/ EmitChanges \/ WatchDies

-------------------------------------------------------------------------------
(* The resumer.                                                            *)

NextCommit ==
  /\ commit + 1 \in Commits /\ commit' = commit + 1
  /\ UNCHANGED <<watchdogVars, gateOpen, zips, markers, resumer, mixed>>

GateTurns == gateOpen' = ~gateOpen /\ UNCHANGED <<watchdogVars, commit, zips, markers, resumer, mixed>>

\* resume(): the gate waits, and no package of this commit is kept already.
StartResume ==
  /\ resumer.at = "idle" /\ gateOpen /\ markers[commit] = NoPackage
  /\ resumer' = [at |-> "script", for |-> commit, since |-> Cardinality(zips)]
  /\ UNCHANGED <<watchdogVars, commit, gateOpen, zips, markers, mixed>>

\* The enrollment leaves a package, or fails, or claims a success without one.
ScriptEnds(makes, succeeds) ==
  /\ resumer.at = "script"
  /\ makes => Cardinality(zips) < MaxPackages
  /\ zips' = IF makes THEN zips \union {[of |-> resumer.for, number |-> Cardinality(zips) + 1]} ELSE zips
  /\ resumer' = IF succeeds THEN [resumer EXCEPT !.at = "keep"] ELSE NoResume
  /\ UNCHANGED <<watchdogVars, commit, gateOpen, markers, mixed>>

\* Somebody enrolls the device by hand, with whatever commit.
EnrollByHand(c) ==
  /\ Cardinality(zips) < MaxPackages
  /\ zips' = zips \union {[of |-> c, number |-> Cardinality(zips) + 1]}
  /\ mixed' = IF resumer.at = "idle" THEN mixed ELSE mixed \union {resumer.for}
  /\ UNCHANGED <<watchdogVars, commit, gateOpen, markers, resumer>>

Newest(packages) == CHOOSE z \in packages : \A y \in packages : y.number <= z.number

\* Mutant: any package will do.
AnyZip == zips

\* newest_zip
FreshZips == {z \in zips : z.number > resumer.since}

\* A commissioning without a package of its time is a failure, and is tried again.
KeepPackage ==
  /\ resumer.at = "keep"
  /\ markers' = IF FreshZips = {} THEN markers ELSE [markers EXCEPT ![resumer.for] = Newest(FreshZips)]
  /\ resumer' = NoResume
  /\ UNCHANGED <<watchdogVars, commit, gateOpen, zips, mixed>>

ResumerDies ==
  /\ resumer.at # "idle" /\ resumer' = NoResume
  /\ UNCHANGED <<watchdogVars, commit, gateOpen, zips, markers, mixed>>

ResumeNext ==
  \/ NextCommit \/ GateTurns \/ StartResume \/ KeepPackage \/ ResumerDies
  \/ \E m, s \in BOOLEAN : ScriptEnds(m, s)
  \/ \E c \in Commits : EnrollByHand(c)

-------------------------------------------------------------------------------
\* The operator hears of a failure or a blocked gate at most once per time it
\* comes to need action, over outages and deaths of the watch.
FailuresToldOnce ==
  \A w \in Watched :
    turns[w].told + (IF w \in watch.news THEN 1 ELSE 0) <= turns[w].failed

\* The package kept for a commit is of that commit, unless somebody enrolled by
\* hand while the resume for it ran.
KeptIsOfCommit ==
  \A c \in Commits \ mixed : markers[c] # NoPackage => markers[c].of = c
===============================================================================
