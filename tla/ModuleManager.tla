---------------------------- MODULE ModuleManager -----------------------------
(* The module manager of deploy/automation_os: install_module with its       *)
(* dependencies, the state file of what is installed and the cache of        *)
(* installers.  Several installs may run at the same time: nothing locks the *)
(* state file or the cache.                                                  *)
(*                                                                           *)
(* A version of a module stands for the Git blob the registry names: a       *)
(* download that does not have it is refused.                                *)
EXTENDS Naturals, Sequences, SequencesExt

CONSTANTS Packages,      \* modules of the registry
          DependsOn,     \* depends_on: a sequence of modules for each
          Installers,    \* processes that run `frost-install install`
          MaxUpgrades,   \* bound on new versions of the registry
          MaxStarts,     \* bound on installs of a process
          MaxRuns        \* bound on executions of an installer

ASSUME ManagerAssumption ==
  /\ \A m \in Packages : ToSet(DependsOn[m]) \subseteq Packages \ {m}
  /\ {MaxUpgrades, MaxStarts, MaxRuns} \subseteq Nat

VARIABLES registry,    \* registry.json: the version of each module
          installed,   \* module_state.json: status and version of each
          cache,       \* version of the artifact in the cache, 0 if none
          ran,         \* <<module, version>> whose installer has exited with 0
          installer,   \* the processes
          skipped,     \* <<module, version>> reported as ALREADY_INSTALLED_VERIFIED
          managerCounts

managerVars == <<registry, installed, cache, ran, installer, skipped, managerCounts>>

NotInstalled == [status |-> "none", version |-> 0]
InstallerDown == [pc |-> "down", todo |-> <<>>, execute |-> FALSE, registry |-> [m \in Packages |-> 0],
                  value |-> [m \in Packages |-> NotInstalled], outcome |-> "none"]
Records == [status : {"none", "INSTALLED", "STAGED", "FAILED"}, version : 0..(MaxUpgrades + 1)]

ManagerTypeOK ==
  /\ registry \in [Packages -> 1..(MaxUpgrades + 1)]
  /\ installed \in [Packages -> Records]
  /\ cache \in [Packages -> 0..(MaxUpgrades + 1)]
  /\ ran \union skipped \subseteq Packages \X (1..(MaxUpgrades + 1))
  /\ \A p \in Installers :
       /\ installer[p].pc \in {"down", "check", "skip", "download", "validate", "execute", "load", "save"}
       /\ installer[p].pc # "down" => installer[p].todo # <<>>
  /\ managerCounts \in [upgrades : 0..MaxUpgrades, starts : [Installers -> 0..MaxStarts], runs : 0..MaxRuns]

ManagerInit ==
  /\ registry = [m \in Packages |-> 1]
  /\ installed = [m \in Packages |-> NotInstalled]
  /\ cache = [m \in Packages |-> 0] /\ ran = {} /\ skipped = {}
  /\ installer = [p \in Installers |-> InstallerDown]
  /\ managerCounts = [upgrades |-> 0, starts |-> [p \in Installers |-> 0], runs |-> 0]

-------------------------------------------------------------------------------
\* The order of install_module's recursion: each module after what it depends on.
InstallOrder[m \in Packages] ==
  FoldLeft(LAMBDA order, d : order \o InstallOrder[d], <<>>, DependsOn[m]) \o <<m>>

This(p) == Head(installer[p].todo)
Wanted(p) == installer[p].registry[This(p)]
To(p, pc) == installer' = [installer EXCEPT ![p].pc = pc]

\* The module is done: on to the next, or the end of the install.
NextModule(p) ==
  installer' = [installer EXCEPT ![p] =
    IF Len(@.todo) = 1 THEN InstallerDown
    ELSE [@ EXCEPT !.pc = "check", !.todo = Tail(@), !.outcome = "none"]]

StartInstall(p, m, execute) ==
  /\ installer[p].pc = "down" /\ managerCounts.starts[p] < MaxStarts
  /\ installer' = [installer EXCEPT ![p] =
       [InstallerDown EXCEPT !.pc = "check", !.todo = InstallOrder[m], !.execute = execute, !.registry = registry]]
  /\ managerCounts' = [managerCounts EXCEPT !.starts[p] = @ + 1]
  /\ UNCHANGED <<registry, installed, cache, ran, skipped>>

\* Mutant: the status is not looked at, only the artifact.
ArtifactIsThere(p) == installed[This(p)].status # "none" /\ cache[This(p)] = Wanted(p)

\* installed_identity_ok: the record says INSTALLED and the artifact has the
\* blob the registry names.
InstalledIdentityOk(p) ==
  installed[This(p)].status = "INSTALLED" /\ cache[This(p)] = Wanted(p)

CheckInstalled(p) ==
  /\ installer[p].pc = "check"
  /\ IF installer[p].execute /\ InstalledIdentityOk(p)
     THEN installer' = [installer EXCEPT ![p].pc = "skip", ![p].value = installed]
     ELSE To(p, "download")
  /\ UNCHANGED <<registry, installed, cache, ran, skipped, managerCounts>>

\* The state as it was read is saved, with one line more of history.
SkipVerified(p) ==
  /\ installer[p].pc = "skip"
  /\ installed' = installer[p].value
  /\ skipped' = skipped \union {<<This(p), Wanted(p)>>}
  /\ NextModule(p)
  /\ UNCHANGED <<registry, cache, ran, managerCounts>>

DownloadModule(p) ==
  /\ installer[p].pc = "download"
  /\ cache' = [cache EXCEPT ![This(p)] = Wanted(p)]
  /\ To(p, "validate")
  /\ UNCHANGED <<registry, installed, ran, skipped, managerCounts>>

\* Mutant: a module that is only staged is put down as installed.
StagedAsInstalled(p) ==
  /\ installer[p].pc = "validate"
  /\ IF installer[p].execute THEN To(p, "execute")
     ELSE installer' = [installer EXCEPT ![p].pc = "load", ![p].outcome = "INSTALLED"]
  /\ UNCHANGED <<registry, installed, cache, ran, skipped, managerCounts>>

ValidateShell(p) ==
  /\ installer[p].pc = "validate"
  /\ IF installer[p].execute THEN To(p, "execute")
     ELSE installer' = [installer EXCEPT ![p].pc = "load", ![p].outcome = "STAGED"]
  /\ UNCHANGED <<registry, installed, cache, ran, skipped, managerCounts>>

\* What runs is the file that is in the cache now.
Execute(p, ok) ==
  /\ installer[p].pc = "execute" /\ managerCounts.runs < MaxRuns
  /\ ran' = IF ok THEN ran \union {<<This(p), cache[This(p)]>>} ELSE ran
  /\ installer' = [installer EXCEPT ![p].pc = "load", ![p].outcome = IF ok THEN "INSTALLED" ELSE "FAILED"]
  /\ managerCounts' = [managerCounts EXCEPT !.runs = @ + 1]
  /\ UNCHANGED <<registry, installed, cache, skipped>>

\* The result goes into the state file: it is read anew and written as a whole.
LoadState(p) ==
  /\ installer[p].pc = "load"
  /\ installer' = [installer EXCEPT ![p].pc = "save", ![p].value = installed]
  /\ UNCHANGED <<registry, installed, cache, ran, skipped, managerCounts>>

SavedState(p) ==
  [installer[p].value EXCEPT ![This(p)] = [status |-> installer[p].outcome, version |-> Wanted(p)]]

\* Mutant: a failed module is recorded and the next one is taken up.
SaveAndGoOn(p) ==
  /\ installer[p].pc = "save" /\ installed' = SavedState(p) /\ NextModule(p)
  /\ UNCHANGED <<registry, cache, ran, skipped, managerCounts>>

\* A failure is recorded and raised through the whole install.
SaveState(p) ==
  /\ installer[p].pc = "save"
  /\ installed' = SavedState(p)
  /\ IF installer[p].outcome = "FAILED"
     THEN installer' = [installer EXCEPT ![p] = InstallerDown]
     ELSE NextModule(p)
  /\ UNCHANGED <<registry, cache, ran, skipped, managerCounts>>

\* A download or a syntax check that fails, and the death of the process: no
\* record is written.
InstallBreaks(p) ==
  /\ installer[p].pc # "down"
  /\ installer' = [installer EXCEPT ![p] = InstallerDown]
  /\ UNCHANGED <<registry, installed, cache, ran, skipped, managerCounts>>

RegistryUpgrade(m) ==
  /\ managerCounts.upgrades < MaxUpgrades
  /\ registry' = [registry EXCEPT ![m] = @ + 1]
  /\ managerCounts' = [managerCounts EXCEPT !.upgrades = @ + 1]
  /\ UNCHANGED <<installed, cache, ran, installer, skipped>>

ManagerNext ==
  \/ \E p \in Installers :
       \/ \E m \in Packages, b \in BOOLEAN : StartInstall(p, m, b)
       \/ CheckInstalled(p) \/ SkipVerified(p) \/ DownloadModule(p) \/ ValidateShell(p)
       \/ \E b \in BOOLEAN : Execute(p, b)
       \/ LoadState(p) \/ SaveState(p) \/ InstallBreaks(p)
  \/ \E m \in Packages : RegistryUpgrade(m)

-------------------------------------------------------------------------------
\* No installer runs before an installer of everything it depends on has
\* succeeded, whoever stages, fails and dies meanwhile.
RanAfterDependencies ==
  \A x \in ran : \A d \in ToSet(DependsOn[x[1]]) : \E v \in 1..(MaxUpgrades + 1) : <<d, v>> \in ran

\* INSTALLED is only said of a module whose installer has succeeded in some
\* version, however the state file was overwritten.
InstalledHasRun ==
  \A m \in Packages : installed[m].status = "INSTALLED" => \E v \in 1..(MaxUpgrades + 1) : <<m, v>> \in ran

\* What is skipped as installed and verified has been run in that version.  It
\* holds as long as the registry does not change.
SkippedHasRun == managerCounts.upgrades = 0 => skipped \subseteq ran

\* The same for a registry that changes: the artifact in the cache stands for
\* what was executed.
VerifiedMeansExecuted == skipped \subseteq ran
===============================================================================
