---------------------------- MODULE ConditionWatch ----------------------------
(***************************************************************************)
(* ConditionWatchLedger of src/frost_core/condition_watch.py: the durable  *)
(* ledger of observed terminal conditions and its notification outbox,     *)
(* with the processes that open the database, the delivery workers and the *)
(* downstream recipient they notify.                                       *)
(*                                                                         *)
(* Every public method is one BEGIN IMMEDIATE transaction and one action.  *)
(* Opening the ledger is two: _migrate_v1 selects the rows to migrate      *)
(* before the first write of its transaction takes the lock.  A call that  *)
(* raises or returns False changes no table.                               *)
(*                                                                         *)
(* Abstractions.  delivery_id is a hash of target_key, so an outbox row is *)
(* named by its target.  last_state, observation_count and the history     *)
(* rows are read by no method that writes; of the history only the count   *)
(* of notify=1 rows is kept.  Timestamps are kept as NULL or not, as the   *)
(* order of created_at, and as the set of targets whose lease_until has    *)
(* passed.                                                                 *)
(***************************************************************************)
EXTENDS Naturals

CONSTANTS Targets,    \* target_key values
          States,     \* observed states
          Processes,  \* delivery processes
          Workers,    \* worker_id values
          WorkerOf,   \* the worker_id each process is configured with
          Openers,    \* processes whose _init may overlap in time
          MaxClaims,  \* bound: claims of one delivery
          None

ASSUME WatchAssumption ==
  /\ WorkerOf \in [Processes -> Workers]
  /\ MaxClaims \in Nat
  /\ None \notin States /\ None \notin Workers /\ None \notin Targets

VARIABLES watch,     \* the condition_watches table
          outbox,    \* the condition_watch_outbox table
          lapsed,    \* leased deliveries whose lease_until has passed
          inserted,  \* outbox rows observations have inserted: orders created_at
          announced, \* announced[t]: history rows of t with notify=1
          ready,     \* some process has completed _init
          opener,    \* how far each running _init is, and the rows it selected
          agent,     \* what each delivery process holds in memory
          received   \* received[t]: the states the recipient of t was told

tables == <<watch, outbox, lapsed, inserted, announced>>
vars == <<watch, outbox, lapsed, inserted, announced, ready, opener, agent, received>>

DELIVERY_STATES == {"PENDING", "DELIVERING", "DELIVERED", "FAILED_TERMINAL",
                    "LEGACY_UNCERTAIN"}

\* terminal_notified_at and terminal_enqueued_at, as the set of those not NULL.
Stamps == {"notified", "enqueued"}

\* A target never observed and one observed only in non-terminal states read
\* alike: every column kept here is NULL.
Watches == [first : States \union {None},
            stamps : SUBSET Stamps,
            delivery : DELIVERY_STATES \union {None}]
NoWatch == [first |-> None, stamps |-> {}, delivery |-> None]

NoItem == [status |-> "ABSENT", terminal |-> None, attempt |-> 0,
           owner |-> None, created |-> 0]
Items == [status : DELIVERY_STATES \union {"ABSENT"},
          terminal : States \union {None},
          attempt : Nat,
          owner : Workers \union {None},
          created : Nat]

\* A process between claims, or with the DeliveryClaim it was given.
Idle == [phase |-> "idle", target |-> None, attempt |-> 0, state |-> None]
Holding(p) == agent[p].phase \in {"claimed", "sent"}
Agents == {Idle} \union
          [phase : {"claimed", "sent"}, target : Targets, attempt : Nat, state : States]

\* A process that is not inside _init, or is between its SELECT and its writes.
NotOpening == [stage |-> "idle", found |-> {}]
Opening == [stage : {"idle", "selected"}, found : SUBSET Targets]

\* A version-1 row: the observation transaction itself set terminal_notified_at.
LegacyWatch(s) == [first |-> s, stamps |-> {"notified"}, delivery |-> None]

\* The database is new, or was left by version 1, whose callers may or may
\* not have got their notification out.
Init ==
  /\ watch \in [Targets -> {NoWatch} \union {LegacyWatch(s) : s \in States}]
  /\ outbox = [t \in Targets |-> NoItem]
  /\ lapsed = {}
  /\ inserted = 0
  /\ announced = [t \in Targets |-> 0]
  /\ ready = FALSE
  /\ opener = [o \in Openers |-> NotOpening]
  /\ agent = [p \in Processes |-> Idle]
  /\ received \in [Targets -> SUBSET States]
  /\ \A t \in Targets : received[t] \subseteq {watch[t].first}

-------------------------------------------------------------------------------
(* Opening the ledger.                                                      *)

\* The SELECT of _migrate_v1, and the rows its loop skips.
Legacy(t) == /\ "notified" \in watch[t].stamps
             /\ "enqueued" \notin watch[t].stamps
             /\ watch[t].first # None

\* A process starts, or starts again after a crash: it creates what tables
\* are missing and selects the rows to migrate.
OpenSelect(o) ==
  /\ opener' = [opener EXCEPT ![o] = [stage |-> "selected",
                                     found |-> {t \in Targets : Legacy(t)}]]
  /\ UNCHANGED <<tables, ready, agent, received>>

\* INSERT OR IGNORE INTO condition_watch_outbox: at most one row per target.
InsertOrIgnore(t, status, first, created) ==
  IF outbox[t].status # "ABSENT" THEN outbox[t]
  ELSE [NoItem EXCEPT !.status = status, !.terminal = first, !.created = created]

\* Mutant: version 1's claim of delivery is believed.
MigratedTrusting(t) == [watch[t] EXCEPT !.stamps = Stamps,
                                        !.delivery = "LEGACY_UNCERTAIN"]

\* UPDATE condition_watches: the timestamp moves, the claim of delivery goes.
Migrated(t) == [watch[t] EXCEPT !.stamps = {"enqueued"},
                                !.delivery = "LEGACY_UNCERTAIN"]

\* The selected rows are written by key, whatever became of them since.
OpenMigrate(o) ==
  LET found == opener[o].found IN
  /\ opener[o].stage = "selected"
  /\ outbox' = [t \in Targets |->
                  IF t \in found THEN InsertOrIgnore(t, "LEGACY_UNCERTAIN", watch[t].first, 0)
                  ELSE outbox[t]]
  /\ watch' = [t \in Targets |-> IF t \in found THEN Migrated(t) ELSE watch[t]]
  /\ ready' = TRUE
  /\ opener' = [opener EXCEPT ![o] = NotOpening]
  /\ UNCHANGED <<lapsed, inserted, announced, agent, received>>

-------------------------------------------------------------------------------
(* Observation.                                                             *)

\* Mutants: each terminal observation overwrites the first; INSERT OR REPLACE.
ObserveLatest(t, s) ==
  /\ ready
  /\ outbox' = [outbox EXCEPT ![t] = InsertOrIgnore(t, "PENDING", s, inserted + 1)]
  /\ watch' = [watch EXCEPT ![t] = [first |-> s, stamps |-> @.stamps \union {"enqueued"},
                                   delivery |-> outbox'[t].status]]
  /\ announced' = [announced EXCEPT ![t] = IF outbox[t].status = "ABSENT" THEN @ + 1 ELSE @]
  /\ inserted' = inserted + 1
  /\ UNCHANGED <<lapsed, ready, opener, agent, received>>

ObserveReplacing(t, s) ==
  LET first == IF watch[t].first = None THEN s ELSE watch[t].first IN
  /\ ready
  /\ outbox' = [outbox EXCEPT ![t] = [NoItem EXCEPT !.status = "PENDING",
                                      !.terminal = first, !.created = inserted + 1]]
  /\ watch' = [watch EXCEPT ![t] = [first |-> first, stamps |-> @.stamps \union {"enqueued"},
                                   delivery |-> "PENDING"]]
  /\ announced' = [announced EXCEPT ![t] = @ + 1]
  /\ inserted' = inserted + 1
  /\ UNCHANGED <<lapsed, ready, opener, agent, received>>

\* observe() of a state that is in this call's terminal_states; the argument
\* may differ from call to call, so any state may be terminal.  A non-terminal
\* observation changes no column kept here.
ObserveTerminal(t, s) ==
  LET first == IF watch[t].first = None THEN s ELSE watch[t].first
      item == InsertOrIgnore(t, "PENDING", first, inserted + 1)
      new == outbox[t].status = "ABSENT" IN
  /\ ready
  /\ outbox' = [outbox EXCEPT ![t] = item]
  /\ watch' = [watch EXCEPT ![t] = [first |-> first,
                                   stamps |-> watch[t].stamps \union {"enqueued"},
                                   delivery |-> item.status]]
  /\ announced' = [announced EXCEPT ![t] = IF new THEN @ + 1 ELSE @]
  /\ inserted' = IF new THEN inserted + 1 ELSE inserted
  /\ UNCHANGED <<lapsed, ready, opener, agent, received>>

-------------------------------------------------------------------------------
(* Delivery.                                                                *)

\* Mutant: the second UPDATE is forgotten.
SetOutboxStatus(t, item, stamps) ==
  /\ outbox' = [outbox EXCEPT ![t] = item]
  /\ UNCHANGED watch

\* The two UPDATEs with which a delivery method ends its transaction.
SetStatus(t, item, stamps) ==
  /\ outbox' = [outbox EXCEPT ![t] = item]
  /\ watch' = [watch EXCEPT ![t] = [first |-> watch[t].first, stamps |-> stamps,
                                   delivery |-> item.status]]

Become(p, a) == agent' = [agent EXCEPT ![p] = a]

\* Mutant: an expired lease is not reclaimed.
ClaimablePending(t) == outbox[t].status = "PENDING"

Claimable(t) == \/ outbox[t].status = "PENDING"
                \/ outbox[t].status = "DELIVERING" /\ t \in lapsed

\* ORDER BY created_at,delivery_id LIMIT 1
Oldest(t) ==
  Claimable(t) /\ \A u \in Targets : Claimable(u) => outbox[t].created <= outbox[u].created

\* Mutant: a reclaimed lease keeps its attempt number.
NextAttemptReused(t) == IF outbox[t].status = "PENDING" THEN outbox[t].attempt + 1
                        ELSE outbox[t].attempt

NextAttempt(t) == outbox[t].attempt + 1

Lease(p, t) ==
  /\ ready
  /\ ~Holding(p)
  /\ outbox[t].attempt < MaxClaims
  /\ SetStatus(t, [outbox[t] EXCEPT !.status = "DELIVERING", !.attempt = NextAttempt(t),
                                    !.owner = WorkerOf[p]],
               watch[t].stamps)
  /\ lapsed' = lapsed \ {t}
  /\ Become(p, [phase |-> "claimed", target |-> t, attempt |-> NextAttempt(t),
                state |-> outbox[t].terminal])
  /\ UNCHANGED <<inserted, announced, ready, opener, received>>

\* claim_delivery(worker), and claim_delivery(worker, target_key=t)
ClaimDelivery(p, t) == Oldest(t) /\ Lease(p, t)
ClaimDeliveryOf(p, t) == Claimable(t) /\ Lease(p, t)

\* The notifier reaches the recipient; its reply may be lost on the way back.
NotifierDelivers(p, replied) ==
  /\ agent[p].phase = "claimed"
  /\ received' = [received EXCEPT ![agent[p].target] = @ \union {agent[p].state}]
  /\ Become(p, [agent[p] EXCEPT !.phase = IF replied THEN "sent" ELSE "claimed"])
  /\ UNCHANGED <<tables, ready, opener>>

\* Mutant: the fence is the worker_id alone.
LeasedToWorker(p, t) == /\ outbox[t].status = "DELIVERING"
                        /\ outbox[t].owner = WorkerOf[p]

\* _require_lease, and the WHERE clause of the UPDATE it guards.
RequireLease(p, t) == /\ outbox[t].status = "DELIVERING"
                      /\ outbox[t].owner = WorkerOf[p]
                      /\ outbox[t].attempt = agent[p].attempt

\* Mutant: a claim is acknowledged before the notifier has answered.
AcknowledgeEarly(p) ==
  LET t == agent[p].target IN
  /\ Holding(p)
  /\ RequireLease(p, t)
  /\ SetStatus(t, [outbox[t] EXCEPT !.status = "DELIVERED", !.owner = None],
               watch[t].stamps \union {"notified"})
  /\ lapsed' = lapsed \ {t}
  /\ Become(p, Idle)
  /\ UNCHANGED <<inserted, announced, ready, opener, received>>

\* The caller acknowledges what the notifier has confirmed, however late.
AcknowledgeDelivery(p) ==
  LET t == agent[p].target IN
  /\ agent[p].phase = "sent"
  /\ RequireLease(p, t)
  /\ SetStatus(t, [outbox[t] EXCEPT !.status = "DELIVERED", !.owner = None],
               watch[t].stamps \union {"notified"})
  /\ lapsed' = lapsed \ {t}
  /\ Become(p, Idle)
  /\ UNCHANGED <<inserted, announced, ready, opener, received>>

FailDelivery(p, retryable) ==
  LET t == agent[p].target IN
  /\ agent[p].phase = "claimed"
  /\ RequireLease(p, t)
  /\ SetStatus(t, [outbox[t] EXCEPT !.owner = None,
                        !.status = IF retryable THEN "PENDING" ELSE "FAILED_TERMINAL"],
               watch[t].stamps)
  /\ lapsed' = lapsed \ {t}
  /\ Become(p, Idle)
  /\ UNCHANGED <<inserted, announced, ready, opener, received>>

\* A process dies, or gives up after its call raised or returned False.
ProcessStops(p) ==
  /\ Holding(p)
  /\ Become(p, Idle)
  /\ UNCHANGED <<tables, ready, opener, received>>

LeaseLapses(t) ==
  /\ outbox[t].status = "DELIVERING"
  /\ t \notin lapsed
  /\ lapsed' = lapsed \union {t}
  /\ UNCHANGED <<watch, outbox, inserted, announced, ready, opener, agent, received>>

\* Mutant: a state name DELIVERY_STATES does not list.
ResolveLegacyUnnamed(t, delivered) ==
  /\ outbox[t].status = "LEGACY_UNCERTAIN"
  /\ delivered => outbox[t].terminal \in received[t]
  /\ SetStatus(t, [outbox[t] EXCEPT !.status = IF delivered THEN "DELIVERED" ELSE "REQUEUED"],
               watch[t].stamps)
  /\ UNCHANGED <<lapsed, inserted, announced, ready, opener, agent, received>>

\* The operator confirms only what the recipient has; requeueing is always open.
ResolveLegacy(t, delivered) ==
  /\ outbox[t].status = "LEGACY_UNCERTAIN"
  /\ delivered => outbox[t].terminal \in received[t]
  /\ SetStatus(t, [outbox[t] EXCEPT !.status = IF delivered THEN "DELIVERED" ELSE "PENDING"],
               (watch[t].stamps \ {"notified"})
                 \union (IF delivered THEN {"notified"} ELSE {}))
  /\ UNCHANGED <<lapsed, inserted, announced, ready, opener, agent, received>>

-------------------------------------------------------------------------------

ProcessStep(p) ==
  \/ \E t \in Targets : ClaimDelivery(p, t) \/ ClaimDeliveryOf(p, t)
  \/ NotifierDelivers(p, TRUE) \/ NotifierDelivers(p, FALSE)
  \/ AcknowledgeDelivery(p)
  \/ FailDelivery(p, TRUE) \/ FailDelivery(p, FALSE)
  \/ ProcessStops(p)

Next ==
  \/ \E o \in Openers : OpenSelect(o) \/ OpenMigrate(o)
  \/ \E t \in Targets, s \in States : ObserveTerminal(t, s)
  \/ \E p \in Processes : ProcessStep(p)
  \/ \E t \in Targets : LeaseLapses(t) \/ ResolveLegacy(t, TRUE) \/ ResolveLegacy(t, FALSE)

Spec == Init /\ [][Next]_vars

\* The fairness a deployment owes the ledger: delivery processes keep polling
\* and every claim they take ends (acknowledged, failed or dropped), leases
\* run out, and an operator resolves what migration left uncertain.
FairSpec ==
  /\ Spec
  /\ \A p \in Processes : WF_vars(\E t \in Targets : ClaimDelivery(p, t))
  /\ \A p \in Processes : WF_vars(AcknowledgeDelivery(p) \/ FailDelivery(p, TRUE)
                                   \/ FailDelivery(p, FALSE) \/ ProcessStops(p))
  /\ \A t \in Targets : WF_vars(LeaseLapses(t))
  /\ \A t \in Targets : WF_vars(ResolveLegacy(t, TRUE) \/ ResolveLegacy(t, FALSE))

-------------------------------------------------------------------------------
(* Properties.                                                              *)

\* The tables, the processes' memory and the recipients have their types.
TypeOK ==
  /\ watch \in [Targets -> Watches]
  /\ outbox \in [Targets -> Items]
  /\ lapsed \subseteq Targets
  /\ inserted \in Nat
  /\ announced \in [Targets -> Nat]
  /\ ready \in BOOLEAN
  /\ opener \in [Openers -> Opening]
  /\ agent \in [Processes -> Agents]
  /\ received \in [Targets -> SUBSET States]

\* "One durable outbox item per immutable target_key": however often a target
\* is observed terminal, regresses and is observed again, at most one
\* observation answers notify=True, and none for a target version 1 reported.
AnnouncedOnce ==
  \A t \in Targets : /\ announced[t] <= 1
                     /\ announced[t] = 1 => outbox[t].created > 0

\* terminal_notified_at is evidence: in an opened ledger it is set only for a
\* delivery that was acknowledged, never by observing, claiming or migrating,
\* and what was acknowledged has reached its recipient.
NotifiedIsAcknowledged ==
  \A t \in Targets :
    /\ ready /\ "notified" \in watch[t].stamps => outbox[t].status = "DELIVERED"
    /\ outbox[t].status = "DELIVERED" => outbox[t].terminal \in received[t]

\* Recipients are only ever told the first terminal state: no later
\* observation, and no claim taken before or after it, tells them another.
ToldTheFirstVerdict ==
  \A t \in Targets :
    /\ received[t] \subseteq {watch[t].first}
    /\ outbox[t].status # "ABSENT" => outbox[t].terminal = watch[t].first

\* _require_lease fences by attempt: of all the processes that ever claimed a
\* delivery, those that reuse a worker_id included, at most one can complete it.
OneLeaseHolder ==
  \A p, q \in Processes :
    /\ Holding(p) /\ RequireLease(p, agent[p].target)
    /\ Holding(q) /\ RequireLease(q, agent[q].target)
    /\ agent[p].target = agent[q].target
    => p = q

\* A live lease is never taken away: while it has not lapsed, only the process
\* that holds its current attempt changes the delivery.
LiveLeaseIsExclusive ==
  [][\A t \in Targets :
       /\ outbox[t].status = "DELIVERING" /\ t \notin lapsed
       /\ outbox'[t] # outbox[t]
       => \E p \in Processes : /\ agent[p].target = t
                               /\ agent[p].attempt = outbox[t].attempt
                               /\ agent'[p] # agent[p]]_vars

\* The two tables tell one story: condition_watches.delivery_state is the
\* outbox status and terminal_notified_at is set for every acknowledged
\* delivery.  Holds when no two processes are inside _init at once.
RecordsAgree ==
  ready => \A t \in Targets :
    /\ watch[t].delivery = IF outbox[t].status = "ABSENT" THEN None ELSE outbox[t].status
    /\ outbox[t].status = "DELIVERED" => "notified" \in watch[t].stamps

Report(t) == CASE outbox[t].status = "DELIVERED" -> "delivered"
               [] outbox[t].status = "FAILED_TERMINAL" -> "abandoned"
               [] OTHER -> "open"

\* The ledger implements WatchNotice: one verdict per target, told truthfully,
\* and a final report that never runs ahead of the notification.
Abstract == INSTANCE WatchNotice
              WITH verdict <- [t \in Targets |-> watch[t].first],
                   report <- [t \in Targets |-> Report(t)]
NoticeSpec == Abstract!Spec

Settled(t) == outbox[t].status \in {"DELIVERED", "FAILED_TERMINAL"}

\* No delivery is lost: an outbox item is eventually delivered or failed for
\* good, unless it, or one ahead of it in created_at order, is retried without
\* end (MaxClaims claims and still unsettled).
DeliverySettles ==
  \A t \in Targets :
    outbox[t].status # "ABSENT"
      ~> \/ Settled(t)
         \/ \E u \in Targets : /\ outbox[u].status # "ABSENT"
                               /\ outbox[u].created <= outbox[t].created
                               /\ outbox[u].attempt = MaxClaims /\ ~Settled(u)
===============================================================================
