---------------------------- MODULE BluetoothGuard ----------------------------
(* The Android companion of android/bluetooth-guard: the foreground service  *)
(* that records and judges Bluetooth broadcasts (BluetoothMonitorService,    *)
(* WarningEngine), its preferences (MonitorState) and the hash-chained       *)
(* evidence file (EvidenceStore).                                            *)
(*                                                                           *)
(* Broadcasts, buttons and the boot receiver all run on the main thread: a   *)
(* handler is one step.  SharedPreferences.apply() changes the memory at     *)
(* once and the disk later, while a line of the evidence file is written     *)
(* through: a death of the process separates the three.                      *)
EXTENDS Naturals, Sequences, FiniteSets

CONSTANTS Addresses,        \* remote devices
          Window,           \* RAPID_RECONNECT_WINDOW_MS, in ticks
          RapidThreshold,   \* RAPID_RECONNECT_THRESHOLD
          MultiThreshold,   \* multiDeviceThreshold
          MaxNow,           \* bound on the clock
          MaxLines,         \* bound on lines of evidence
          MaxGuardDeaths    \* bound on deaths of the process

ASSUME GuardAssumption ==
  {Window, RapidThreshold, MultiThreshold, MaxNow, MaxLines, MaxGuardDeaths} \subseteq Nat

VARIABLES linked,      \* devices that have a link, whoever is watching
          bonded,      \* devices that are paired
          now,
          serving,     \* the foreground service has its receiver registered
          lines,       \* bluetooth_events.jsonl: how many lines, the last number, and what is amiss
          evidenceChain,       \* evidence_chain preferences, in memory and on disk
          prefs,       \* monitor_state preferences, in memory and on disk
          last,        \* the last line and the warnings of bluetooth_alerts.jsonl that name it
          times,       \* when each device really connected under the service's eyes
          watched,     \* devices whose present link began under the service's eyes
          guardDeaths

guardVars == <<linked, bonded, now, serving, lines, evidenceChain, prefs, last, times, watched, guardDeaths>>

FirstLink == [head |-> 0, seq |-> 0]
NoPrefs == [trusted |-> {}, tracked |-> {}, history |-> [a \in Addresses |-> <<>>], adapter |-> "unset"]
NoLines == [count |-> 0, seq |-> 0, forks |-> 0, gaps |-> 0]
NoEvent == [event |-> "none", addr |-> "none", at |-> 0, codes |-> {}]

GuardTypeOK ==
  /\ linked \subseteq Addresses /\ bonded \subseteq Addresses /\ watched \subseteq Addresses
  /\ now \in 0..MaxNow /\ serving \in BOOLEAN /\ guardDeaths \in 0..MaxGuardDeaths
  /\ lines \in [count : 0..MaxLines, seq : 0..MaxLines, forks : 0..MaxLines, gaps : 0..MaxLines]
  /\ \A c \in {evidenceChain.memory, evidenceChain.disk} : c.head <= lines.count /\ c.seq <= lines.count
  /\ \A p \in {prefs.memory, prefs.disk} :
       /\ p.trusted \subseteq Addresses /\ p.tracked \subseteq Addresses
       /\ \A a \in Addresses : \A i \in DOMAIN p.history[a] : p.history[a][i] \in 0..now

GuardInit ==
  /\ linked = {} /\ bonded = {} /\ now = 0 /\ serving = FALSE
  /\ lines = NoLines /\ evidenceChain = [memory |-> FirstLink, disk |-> FirstLink]
  /\ prefs = [memory |-> NoPrefs, disk |-> NoPrefs]
  /\ last = NoEvent /\ times = [a \in Addresses |-> <<>>] /\ watched = {} /\ guardDeaths = 0

-------------------------------------------------------------------------------
(* EvidenceStore and MonitorState.                                         *)

\* The file with one line more: it forks where the line does not name the line
\* before it, and has a gap where its number does not follow.
WithLine(prev, seq) ==
  [count |-> lines.count + 1, seq |-> seq,
   forks |-> lines.forks + IF prev = lines.count THEN 0 ELSE 1,
   gaps  |-> lines.gaps + IF prev = lines.count /\ seq # lines.seq + 1 THEN 1 ELSE 0]

\* Mutant: the number of the event is stored and not its hash.
SequenceOnly(event, a, codes) ==
  /\ lines.count < MaxLines
  /\ lines' = WithLine(evidenceChain.memory.head, evidenceChain.memory.seq + 1)
  /\ evidenceChain' = [evidenceChain EXCEPT !.memory.seq = @ + 1]
  /\ last' = [event |-> event, addr |-> a, at |-> now, codes |-> codes]

\* appendEvent writes one line bound to the head the preferences remember, and
\* emitWarning the warnings that name it.
AppendEvent(event, a, codes) ==
  /\ lines.count < MaxLines
  /\ lines' = WithLine(evidenceChain.memory.head, evidenceChain.memory.seq + 1)
  /\ evidenceChain' =
       [evidenceChain EXCEPT !.memory = [head |-> lines.count + 1, seq |-> evidenceChain.memory.seq + 1]]
  /\ last' = [event |-> event, addr |-> a, at |-> now, codes |-> codes]

\* Mutant: a connection at the edge of the window is forgotten.
KeptShort(a) == SelectSeq(prefs.memory.history[a], LAMBDA t : now - t < Window)

\* recordConnection keeps what is still in the window.
Kept(a) == SelectSeq(prefs.memory.history[a], LAMBDA t : now - t <= Window)

\* onConnect.  The number of tracked devices is the one after markConnected.
ConnectWarnings(a, history, count) ==
  {IF a \in prefs.memory.trusted THEN "TRUSTED_CONNECTED" ELSE "UNKNOWN_CONNECTED"}
    \union {c \in {"RAPID_RECONNECT"} : Len(history) >= RapidThreshold}
    \union {c \in {"MULTIPLE_CONNECTED"} : count > MultiThreshold /\ count > 1}

\* onBondChange.
BondWarning(was, is) == IF is /\ ~was THEN "NEW_BOND" ELSE "BOND_REMOVED"

-------------------------------------------------------------------------------
(* The broadcasts of the framework.  Without the service nobody hears.     *)

\* Mutant: the count of the devices decides, and none is added to it.
ForgetTracked(a) == prefs.memory.tracked

Tracked(a) == prefs.memory.tracked \union {a}

HearConnect(a) ==
  LET history == Append(Kept(a), now) IN
  LET codes == ConnectWarnings(a, history, Cardinality(Tracked(a))) IN
  /\ prefs' = [prefs EXCEPT !.memory.history[a] = history, !.memory.tracked = Tracked(a)]
  /\ AppendEvent("ACL_CONNECTED", a, codes)
  /\ times' = [times EXCEPT ![a] = Append(@, now)] /\ watched' = watched \union {a}

Connect(a) ==
  /\ a \notin linked
  /\ linked' = linked \union {a}
  /\ IF serving THEN HearConnect(a) ELSE UNCHANGED <<prefs, lines, evidenceChain, last, times, watched>>
  /\ UNCHANGED <<bonded, now, serving, guardDeaths>>

Disconnect(a) ==
  /\ a \in linked
  /\ linked' = linked \ {a} /\ watched' = watched \ {a}
  /\ IF serving
     THEN prefs' = [prefs EXCEPT !.memory.tracked = @ \ {a}] /\ AppendEvent("ACL_DISCONNECTED", a, {})
     ELSE UNCHANGED <<prefs, lines, evidenceChain, last>>
  /\ UNCHANGED <<bonded, now, serving, times, guardDeaths>>

BondChange(a) ==
  /\ bonded' = IF a \in bonded THEN bonded \ {a} ELSE bonded \union {a}
  /\ IF serving
     THEN AppendEvent("BOND_STATE", a, {BondWarning(a \in bonded, a \notin bonded)})
     ELSE UNCHANGED <<lines, evidenceChain, last>>
  /\ UNCHANGED <<linked, now, serving, prefs, times, watched, guardDeaths>>

\* ACTION_STATE_CHANGED carries the state before.  It ends no link in the
\* books: only the disconnections the framework broadcasts do.
AdapterChange(was, is) ==
  /\ serving /\ was # is
  /\ AppendEvent("ADAPTER_STATE", "none", {c \in {"ADAPTER_REENABLED"} : was = "off" /\ is = "on"})
  /\ prefs' = [prefs EXCEPT !.memory.adapter = is]
  /\ UNCHANGED <<linked, bonded, now, serving, times, watched, guardDeaths>>

-------------------------------------------------------------------------------
(* The buttons of MainActivity and the life of the service.                *)

\* onCreate registers the receiver; an already running service stays.  The
\* permission may be missing: the degradation is recorded.
StartService(permitted) ==
  /\ ~serving
  /\ serving' = TRUE
  /\ AppendEvent("MONITOR_STARTED", "none", {c \in {"MONITOR_DEGRADED"} : ~permitted})
  /\ UNCHANGED <<linked, bonded, now, prefs, times, watched, guardDeaths>>

StopService ==
  /\ serving /\ serving' = FALSE
  /\ AppendEvent("MONITOR_STOPPED", "none", {}) /\ watched' = {}
  /\ UNCHANGED <<linked, bonded, now, prefs, times, guardDeaths>>

\* BootReceiver: the start of the service may be refused.
BootStartFails ==
  /\ ~serving
  /\ AppendEvent("BOOT_START_FAILED", "none", {"MONITOR_DEGRADED"})
  /\ UNCHANGED <<linked, bonded, now, serving, prefs, times, watched, guardDeaths>>

TrustBonded ==
  /\ ~(bonded \subseteq prefs.memory.trusted)
  /\ prefs' = [prefs EXCEPT !.memory.trusted = @ \union bonded]
  /\ AppendEvent("TRUST_BASELINE_UPDATED", "none", {})
  /\ UNCHANGED <<linked, bonded, now, serving, times, watched, guardDeaths>>

ClearTrusted ==
  /\ prefs.memory.trusted # {}
  /\ prefs' = [prefs EXCEPT !.memory.trusted = {}]
  /\ UNCHANGED <<linked, bonded, now, serving, lines, evidenceChain, last, times, watched, guardDeaths>>

-------------------------------------------------------------------------------
(* The platform.                                                           *)

Applied == [chain |-> [memory |-> evidenceChain.memory, disk |-> evidenceChain.memory],
            prefs |-> [memory |-> prefs.memory, disk |-> prefs.memory]]

\* The preferences reach the disk, each file by itself.
FlushChain ==
  /\ evidenceChain.disk # evidenceChain.memory /\ evidenceChain' = Applied.chain
  /\ UNCHANGED <<linked, bonded, now, serving, lines, prefs, last, times, watched, guardDeaths>>

FlushPrefs ==
  /\ prefs.disk # prefs.memory /\ prefs' = Applied.prefs
  /\ UNCHANGED <<linked, bonded, now, serving, lines, evidenceChain, last, times, watched, guardDeaths>>

\* The process is killed, or a line cannot be written: the handler's exception
\* is answered by another line, and that one's ends the process.
GuardDies ==
  /\ guardDeaths < MaxGuardDeaths
  /\ guardDeaths' = guardDeaths + 1 /\ serving' = FALSE /\ watched' = {}
  /\ evidenceChain' = [evidenceChain EXCEPT !.memory = evidenceChain.disk]
  /\ prefs' = [prefs EXCEPT !.memory = prefs.disk]
  /\ UNCHANGED <<linked, bonded, now, lines, last, times>>

GuardTick ==
  /\ now < MaxNow /\ now' = now + 1
  /\ UNCHANGED <<linked, bonded, serving, lines, evidenceChain, prefs, last, times, watched, guardDeaths>>

GuardNext ==
  \/ \E a \in Addresses : Connect(a) \/ Disconnect(a) \/ BondChange(a)
  \/ \E was, is \in {"on", "off"} : AdapterChange(was, is)
  \/ \E p \in BOOLEAN : StartService(p)
  \/ StopService \/ BootStartFails \/ TrustBonded \/ ClearTrusted
  \/ FlushChain \/ FlushPrefs \/ GuardDies \/ GuardTick

-------------------------------------------------------------------------------
\* The evidence chain forks only where a death lost the head that apply() had
\* not written: every other line names the line before it, and the numbers go
\* on where they stopped.
ChainForksByDeath == lines.forks <= guardDeaths /\ lines.gaps = 0

\* RAPID_RECONNECT is raised exactly when the device connected often enough
\* within the window: what recordConnection prunes is never needed again.
RapidIsExact ==
  guardDeaths = 0 /\ last.event = "ACL_CONNECTED" =>
    (("RAPID_RECONNECT" \in last.codes) <=>
       Cardinality({i \in DOMAIN times[last.addr] : last.at - times[last.addr][i] <= Window}) >= RapidThreshold)

\* A link that began under the service's eyes is tracked as long as it lasts;
\* what is tracked beyond that are links whose end nobody heard.
LinksAreTracked == serving => watched \subseteq prefs.memory.tracked
===============================================================================
