------------------------- MODULE ConditionWatchProofs -------------------------
(***************************************************************************)
(* Proofs about ConditionWatch, for any sets of targets, states, processes *)
(* and openers and any assignment of worker ids.                           *)
(***************************************************************************)
EXTENDS ConditionWatch, TLAPS

USE WatchAssumption

-------------------------------------------------------------------------------
(* Type correctness.                                                        *)

\* The constants the actions write have their types.
LEMMA ConstantTypes ==
  /\ NoWatch \in Watches /\ NoItem \in Items
  /\ Idle \in Agents /\ NotOpening \in Opening
  /\ \A s \in States : LegacyWatch(s) \in Watches
BY DEF NoWatch, Watches, NoItem, Items, Idle, Agents, NotOpening, Opening,
       LegacyWatch, Stamps, DELIVERY_STATES

\* The columns of an empty outbox slot.
LEMMA NoItemColumns ==
  NoItem.status = "ABSENT" /\ NoItem.attempt = 0 /\ NoItem.created = 0
BY DEF NoItem

\* The columns of a row that INSERT OR IGNORE finds or makes.
LEMMA InsertColumns ==
  ASSUME TypeOK, NEW t \in Targets, NEW st \in DELIVERY_STATES,
         NEW f \in States, NEW c \in Nat
  PROVE  LET i == InsertOrIgnore(t, st, f, c) IN
         /\ i \in Items
         /\ outbox[t].status # "ABSENT" => i = outbox[t]
         /\ outbox[t].status = "ABSENT" =>
              i.status = st /\ i.terminal = f /\ i.attempt = 0 /\ i.created = c
         /\ i.status \in DELIVERY_STATES
BY DEF TypeOK, InsertOrIgnore, Items, NoItem

\* Columns of the stored rows.
LEMMA Columns ==
  ASSUME TypeOK, NEW t \in Targets
  PROVE  /\ watch[t] \in Watches /\ outbox[t] \in Items
         /\ watch[t].first \in States \union {None}
         /\ watch[t].stamps \subseteq Stamps
         /\ outbox[t].terminal \in States \union {None}
         /\ outbox[t].status \in DELIVERY_STATES \union {"ABSENT"}
         /\ outbox[t].attempt \in Nat /\ outbox[t].created \in Nat
BY DEF TypeOK, Watches, Items

\* What the two UPDATEs of a delivery method leave behind.
LEMMA SetStatusEffect ==
  ASSUME TypeOK, NEW t \in Targets, NEW i \in Items, i.status \in DELIVERY_STATES,
         NEW st \in SUBSET Stamps, SetStatus(t, i, st)
  PROVE  /\ outbox' \in [Targets -> Items] /\ watch' \in [Targets -> Watches]
         /\ outbox'[t] = i
         /\ watch'[t].first = watch[t].first
         /\ watch'[t].stamps = st
         /\ watch'[t].delivery = i.status
         /\ \A u \in Targets \ {t} : outbox'[u] = outbox[u] /\ watch'[u] = watch[u]
BY DEF TypeOK, SetStatus, Watches

\* What a process that holds a claim knows.
LEMMA HolderColumns ==
  ASSUME TypeOK, NEW p \in Processes, Holding(p)
  PROVE  /\ agent[p].target \in Targets /\ agent[p].attempt \in Nat
         /\ agent[p].state \in States
BY DEF TypeOK, Holding, Agents, Idle

\* A process's memory changes to another process memory.
LEMMA BecomeEffect ==
  ASSUME TypeOK, NEW p \in Processes, NEW a \in Agents, Become(p, a)
  PROVE  /\ agent' \in [Processes -> Agents]
         /\ agent'[p] = a
         /\ \A q \in Processes \ {p} : agent'[q] = agent[q]
BY DEF TypeOK, Become

-------------------------------------------------------------------------------
(* What each action does, column by column.                                 *)

\* Untouched rows.
SameRow(t) == watch'[t] = watch[t] /\ outbox'[t] = outbox[t]

\* The memory of a process that stops holding its claim.
LEMMA IdleHoldsNothing == Idle.phase = "idle"
BY DEF Idle

\* claim_delivery, by queue order or by target.
LEMMA LeaseEffect ==
  ASSUME TypeOK, NEW p \in Processes, NEW t \in Targets, Claimable(t), Lease(p, t),
         outbox[t].terminal \in States
  PROVE  /\ TypeOK'
         /\ watch'[t].first = watch[t].first /\ watch'[t].stamps = watch[t].stamps
         /\ watch'[t].delivery = "DELIVERING"
         /\ outbox'[t].status = "DELIVERING" /\ outbox'[t].terminal = outbox[t].terminal
         /\ outbox'[t].attempt = outbox[t].attempt + 1
         /\ outbox'[t].created = outbox[t].created
         /\ \A u \in Targets \ {t} : SameRow(u)
         /\ agent'[p].phase = "claimed" /\ agent'[p].target = t
         /\ agent'[p].attempt = outbox[t].attempt + 1
         /\ agent'[p].state = outbox[t].terminal
         /\ \A q \in Processes \ {p} : agent'[q] = agent[q]
         /\ ~Holding(p)
         /\ UNCHANGED <<inserted, announced, ready, opener, received>>
<1>. DEFINE i == [outbox[t] EXCEPT !.status = "DELIVERING", !.attempt = NextAttempt(t),
                                   !.owner = WorkerOf[p]]
            a == [phase |-> "claimed", target |-> t, attempt |-> NextAttempt(t),
                  state |-> outbox[t].terminal]
<1>1. /\ i \in Items /\ i.status = "DELIVERING" /\ i.terminal = outbox[t].terminal
      /\ i.attempt = outbox[t].attempt + 1 /\ i.created = outbox[t].created
      /\ "DELIVERING" \in DELIVERY_STATES
  <2>1. outbox[t] \in Items /\ outbox[t].attempt + 1 \in Nat /\ WorkerOf[p] \in Workers
    BY Columns
  <2>2. "DELIVERING" \in DELIVERY_STATES
    BY DEF DELIVERY_STATES
  <2>3. \A n \in Nat, w \in Workers :
          LET j == [outbox[t] EXCEPT !.status = "DELIVERING", !.attempt = n, !.owner = w] IN
          /\ j \in Items /\ j.status = "DELIVERING" /\ j.terminal = outbox[t].terminal
          /\ j.attempt = n /\ j.created = outbox[t].created
    BY <2>1, <2>2 DEF Items
  <2>. QED
    BY <2>1, <2>2, <2>3, ZenonT(60) DEF NextAttempt
<1>2. a \in Agents
  BY Columns DEF Agents, NextAttempt
<1>3. /\ SetStatus(t, i, watch[t].stamps) /\ Become(p, a)
      /\ lapsed' = lapsed \ {t} /\ ~Holding(p)
      /\ UNCHANGED <<inserted, announced, ready, opener, received>>
  BY DEF Lease
<1>4. /\ a.phase = "claimed" /\ a.target = t /\ a.attempt = outbox[t].attempt + 1
      /\ a.state = outbox[t].terminal
  BY DEF NextAttempt
<1>. HIDE DEF i, a
<1>5. /\ agent' \in [Processes -> Agents] /\ agent'[p] = a
      /\ \A q \in Processes \ {p} : agent'[q] = agent[q]
  BY <1>2, <1>3, BecomeEffect
<1>6. /\ outbox' \in [Targets -> Items] /\ watch' \in [Targets -> Watches]
      /\ outbox'[t] = i /\ watch'[t].first = watch[t].first
      /\ watch'[t].stamps = watch[t].stamps /\ watch'[t].delivery = i.status
      /\ \A u \in Targets \ {t} : outbox'[u] = outbox[u] /\ watch'[u] = watch[u]
  BY <1>1, <1>3, SetStatusEffect, Columns
<1>7. TypeOK'
  BY <1>3, <1>5, <1>6 DEF TypeOK
<1>. QED
  BY <1>1, <1>3, <1>4, <1>5, <1>6, <1>7 DEF SameRow

\* acknowledge_delivery and fail_delivery: the end of the current attempt.
Completes(p, st, stamps) ==
  LET t == agent[p].target IN
  /\ Holding(p) /\ RequireLease(p, t)
  /\ SetStatus(t, [outbox[t] EXCEPT !.status = st, !.owner = None], stamps)
  /\ lapsed' = lapsed \ {t}
  /\ Become(p, Idle)
  /\ UNCHANGED <<inserted, announced, ready, opener, received>>

LEMMA CompletesEffect ==
  ASSUME TypeOK, NEW p \in Processes, NEW st \in DELIVERY_STATES,
         NEW stamps \in SUBSET Stamps, NEW t \in Targets, t = agent[p].target,
         Completes(p, st, stamps)
  PROVE  /\ TypeOK'
         /\ watch'[t].first = watch[t].first /\ watch'[t].stamps = stamps
         /\ watch'[t].delivery = st
         /\ outbox'[t].status = st /\ outbox'[t].terminal = outbox[t].terminal
         /\ outbox'[t].attempt = outbox[t].attempt
         /\ outbox'[t].created = outbox[t].created
         /\ \A u \in Targets \ {t} : SameRow(u)
         /\ agent'[p].phase = "idle"
         /\ \A q \in Processes \ {p} : agent'[q] = agent[q]
         /\ UNCHANGED <<inserted, announced, ready, opener, received>>
<1>. DEFINE i == [outbox[t] EXCEPT !.status = st, !.owner = None]
<1>1. /\ i \in Items /\ i.status = st /\ i.terminal = outbox[t].terminal
      /\ i.attempt = outbox[t].attempt /\ i.created = outbox[t].created
  BY Columns, ZenonT(60) DEF Items
<1>2. /\ SetStatus(t, i, stamps) /\ Become(p, Idle) /\ lapsed' = lapsed \ {t}
      /\ UNCHANGED <<inserted, announced, ready, opener, received>>
  BY DEF Completes
<1>. HIDE DEF i
<1>3. /\ agent' \in [Processes -> Agents] /\ agent'[p] = Idle
      /\ \A q \in Processes \ {p} : agent'[q] = agent[q]
  BY <1>2, BecomeEffect, ConstantTypes
<1>4. /\ outbox' \in [Targets -> Items] /\ watch' \in [Targets -> Watches]
      /\ outbox'[t] = i /\ watch'[t].first = watch[t].first
      /\ watch'[t].stamps = stamps /\ watch'[t].delivery = i.status
      /\ \A u \in Targets \ {t} : outbox'[u] = outbox[u] /\ watch'[u] = watch[u]
  BY <1>1, <1>2, SetStatusEffect
<1>5. TypeOK'
  BY <1>2, <1>3, <1>4 DEF TypeOK
<1>. QED
  BY <1>1, <1>2, <1>3, <1>4, <1>5, IdleHoldsNothing DEF SameRow

\* An observation of a terminal state.
LEMMA ObserveEffect ==
  ASSUME TypeOK, NEW t \in Targets, NEW s \in States, ObserveTerminal(t, s)
  PROVE  /\ TypeOK'
         /\ watch'[t].first = IF watch[t].first = None THEN s ELSE watch[t].first
         /\ watch'[t].stamps = watch[t].stamps \union {"enqueued"}
         /\ watch'[t].delivery = outbox'[t].status
         /\ outbox[t].status # "ABSENT" =>
              outbox'[t] = outbox[t] /\ announced'[t] = announced[t]
         /\ outbox[t].status = "ABSENT" =>
              /\ outbox'[t].status = "PENDING" /\ outbox'[t].terminal = watch'[t].first
              /\ outbox'[t].attempt = 0 /\ outbox'[t].created > 0
              /\ announced'[t] = announced[t] + 1
         /\ \A u \in Targets \ {t} : SameRow(u) /\ announced'[u] = announced[u]
         /\ ready
         /\ UNCHANGED <<ready, opener, agent, received>>
<1>. DEFINE first == IF watch[t].first = None THEN s ELSE watch[t].first
            item == InsertOrIgnore(t, "PENDING", first, inserted + 1)
<1>1. first \in States
  BY Columns
<1>2. "PENDING" \in DELIVERY_STATES /\ "enqueued" \in Stamps
  BY DEF DELIVERY_STATES, Stamps
<1>3. inserted \in Nat /\ announced[t] \in Nat
  BY DEF TypeOK
<1>4. /\ item \in Items /\ item.status \in DELIVERY_STATES
      /\ outbox[t].status # "ABSENT" => item = outbox[t]
      /\ outbox[t].status = "ABSENT" =>
           /\ item.status = "PENDING" /\ item.terminal = first
           /\ item.attempt = 0 /\ item.created > 0
  BY <1>1, <1>2, <1>3, InsertColumns
<1>5. /\ outbox' = [outbox EXCEPT ![t] = item]
      /\ watch' = [watch EXCEPT ![t] = [first |-> first,
                      stamps |-> watch[t].stamps \union {"enqueued"},
                      delivery |-> item.status]]
      /\ announced' = [announced EXCEPT ![t] = IF outbox[t].status = "ABSENT"
                                               THEN @ + 1 ELSE @]
      /\ inserted' = IF outbox[t].status = "ABSENT" THEN inserted + 1 ELSE inserted
      /\ ready
      /\ UNCHANGED <<lapsed, ready, opener, agent, received>>
  BY DEF ObserveTerminal
<1>6. first = IF watch[t].first = None THEN s ELSE watch[t].first
  OBVIOUS
<1>. HIDE DEF first, item
<1>7. /\ outbox'[t] = item
      /\ \A u \in Targets \ {t} : outbox'[u] = outbox[u]
      /\ outbox' \in [Targets -> Items]
  BY <1>4, <1>5 DEF TypeOK
<1>8. /\ watch'[t].first = first /\ watch'[t].delivery = item.status
      /\ watch'[t].stamps = watch[t].stamps \union {"enqueued"}
      /\ \A u \in Targets \ {t} : watch'[u] = watch[u]
      /\ watch' \in [Targets -> Watches]
  <2>1. [first |-> first, stamps |-> watch[t].stamps \union {"enqueued"},
         delivery |-> item.status] \in Watches
    BY <1>1, <1>2, <1>4, Columns DEF Watches
  <2>. QED
    BY <1>5, <2>1 DEF TypeOK
<1>9. /\ announced' \in [Targets -> Nat] /\ inserted' \in Nat
      /\ announced'[t] = IF outbox[t].status = "ABSENT" THEN announced[t] + 1
                         ELSE announced[t]
      /\ \A u \in Targets \ {t} : announced'[u] = announced[u]
  BY <1>3, <1>5 DEF TypeOK
<1>10. TypeOK'
  BY <1>5, <1>7, <1>8, <1>9 DEF TypeOK
<1>. QED
  BY <1>4, <1>5, <1>6, <1>7, <1>8, <1>9, <1>10 DEF SameRow

\* The writes of _migrate_v1.
LEMMA MigrateEffect ==
  ASSUME TypeOK, NEW o \in Openers, OpenMigrate(o),
         \A t \in opener[o].found : watch[t].first # None
  PROVE  /\ TypeOK'
         /\ opener[o].stage = "selected"
         /\ \A t \in Targets \ opener[o].found : SameRow(t)
         /\ \A t \in opener[o].found :
              /\ t \in Targets
              /\ watch'[t].first = watch[t].first
              /\ watch'[t].stamps = {"enqueued"}
              /\ watch'[t].delivery = "LEGACY_UNCERTAIN"
              /\ outbox[t].status # "ABSENT" => outbox'[t] = outbox[t]
              /\ outbox[t].status = "ABSENT" =>
                   /\ outbox'[t].status = "LEGACY_UNCERTAIN"
                   /\ outbox'[t].terminal = watch[t].first
                   /\ outbox'[t].attempt = 0
                   /\ outbox'[t].created = 0
         /\ ready' = TRUE
         /\ opener'[o] = NotOpening
         /\ \A r \in Openers \ {o} : opener'[r] = opener[r]
         /\ UNCHANGED <<lapsed, inserted, announced, agent, received>>
<1>. DEFINE found == opener[o].found
            item(t) == InsertOrIgnore(t, "LEGACY_UNCERTAIN", watch[t].first, 0)
<1>1. found \subseteq Targets
  BY DEF TypeOK, Opening
<1>2. "LEGACY_UNCERTAIN" \in DELIVERY_STATES /\ "enqueued" \in Stamps
  BY DEF DELIVERY_STATES, Stamps
<1>3. ASSUME NEW t \in found
      PROVE  /\ item(t) \in Items
             /\ outbox[t].status # "ABSENT" => item(t) = outbox[t]
             /\ outbox[t].status = "ABSENT" =>
                  /\ item(t).status = "LEGACY_UNCERTAIN"
                  /\ item(t).terminal = watch[t].first
                  /\ item(t).attempt = 0 /\ item(t).created = 0
  <2>1. t \in Targets /\ watch[t].first \in States
    BY <1>1, Columns
  <2>. QED
    BY <1>2, <2>1, InsertColumns
<1>4. ASSUME NEW t \in found
      PROVE  /\ Migrated(t) \in Watches
             /\ Migrated(t).first = watch[t].first
             /\ Migrated(t).stamps = {"enqueued"}
             /\ Migrated(t).delivery = "LEGACY_UNCERTAIN"
  BY <1>1, <1>2, Columns, ZenonT(60) DEF Migrated, Watches
<1>5. /\ outbox' = [t \in Targets |-> IF t \in found THEN item(t) ELSE outbox[t]]
      /\ watch' = [t \in Targets |-> IF t \in found THEN Migrated(t) ELSE watch[t]]
      /\ opener[o].stage = "selected"
      /\ ready' = TRUE
      /\ opener' = [opener EXCEPT ![o] = NotOpening]
      /\ UNCHANGED <<lapsed, inserted, announced, agent, received>>
  BY DEF OpenMigrate
<1>. HIDE DEF found, item
<1>6. /\ outbox' \in [Targets -> Items] /\ watch' \in [Targets -> Watches]
      /\ opener' \in [Openers -> Opening]
  BY <1>1, <1>3, <1>4, <1>5, ConstantTypes DEF TypeOK
<1>7. TypeOK'
  BY <1>5, <1>6 DEF TypeOK
<1>8. /\ \A t \in Targets \ found : SameRow(t)
      /\ \A t \in found : outbox'[t] = item(t) /\ watch'[t] = Migrated(t)
      /\ opener'[o] = NotOpening
      /\ \A r \in Openers \ {o} : opener'[r] = opener[r]
  BY <1>1, <1>5 DEF SameRow, TypeOK
<1>. QED
  BY <1>1, <1>3, <1>4, <1>5, <1>7, <1>8 DEF found

\* resolve_legacy.
LEMMA ResolveEffect ==
  ASSUME TypeOK, NEW t \in Targets, NEW d \in BOOLEAN, ResolveLegacy(t, d)
  PROVE  /\ TypeOK'
         /\ outbox[t].status = "LEGACY_UNCERTAIN"
         /\ watch'[t].first = watch[t].first
         /\ watch'[t].delivery = outbox'[t].status
         /\ outbox'[t].terminal = outbox[t].terminal
         /\ outbox'[t].attempt = outbox[t].attempt
         /\ outbox'[t].created = outbox[t].created
         /\ \/ /\ outbox'[t].status = "DELIVERED" /\ outbox[t].terminal \in received[t]
               /\ "notified" \in watch'[t].stamps
            \/ outbox'[t].status = "PENDING" /\ "notified" \notin watch'[t].stamps
         /\ \A u \in Targets \ {t} : SameRow(u)
         /\ UNCHANGED <<inserted, announced, ready, opener, agent, received>>
<1>. DEFINE st == IF d THEN "DELIVERED" ELSE "PENDING"
            i == [outbox[t] EXCEPT !.status = st]
            stamps == (watch[t].stamps \ {"notified"})
                        \union (IF d THEN {"notified"} ELSE {})
<1>1. st \in DELIVERY_STATES /\ stamps \in SUBSET Stamps
  BY Columns DEF DELIVERY_STATES, Stamps
<1>2. \/ d /\ st = "DELIVERED" /\ "notified" \in stamps
      \/ ~d /\ st = "PENDING" /\ "notified" \notin stamps
  OBVIOUS
<1>3. /\ SetStatus(t, i, stamps) /\ outbox[t].status = "LEGACY_UNCERTAIN"
      /\ d => outbox[t].terminal \in received[t]
      /\ UNCHANGED <<lapsed, inserted, announced, ready, opener, agent, received>>
  BY DEF ResolveLegacy
<1>. HIDE DEF st, stamps
<1>4. /\ i \in Items /\ i.status = st /\ i.terminal = outbox[t].terminal
      /\ i.attempt = outbox[t].attempt /\ i.created = outbox[t].created
  BY <1>1, Columns DEF Items
<1>. HIDE DEF i
<1>5. /\ outbox' \in [Targets -> Items] /\ watch' \in [Targets -> Watches]
      /\ outbox'[t] = i /\ watch'[t].first = watch[t].first
      /\ watch'[t].stamps = stamps /\ watch'[t].delivery = i.status
      /\ \A u \in Targets \ {t} : outbox'[u] = outbox[u] /\ watch'[u] = watch[u]
  BY <1>1, <1>3, <1>4, SetStatusEffect
<1>6. TypeOK'
  BY <1>3, <1>5 DEF TypeOK
<1>. QED
  BY <1>2, <1>3, <1>4, <1>5, <1>6 DEF SameRow

\* The notifier's call.
LEMMA DeliverEffect ==
  ASSUME TypeOK, NEW p \in Processes, NEW r \in BOOLEAN, NotifierDelivers(p, r)
  PROVE  /\ TypeOK'
         /\ Holding(p)
         /\ agent'[p].phase \in {"claimed", "sent"}
         /\ agent'[p].target = agent[p].target /\ agent'[p].attempt = agent[p].attempt
         /\ agent'[p].state = agent[p].state
         /\ \A q \in Processes \ {p} : agent'[q] = agent[q]
         /\ received'[agent[p].target] = received[agent[p].target] \union {agent[p].state}
         /\ \A u \in Targets \ {agent[p].target} : received'[u] = received[u]
         /\ UNCHANGED <<tables, ready, opener>>
<1>1. Holding(p)
  BY DEF NotifierDelivers, Holding
<1>2. agent[p].target \in Targets /\ agent[p].attempt \in Nat /\ agent[p].state \in States
  BY <1>1, HolderColumns
<1>3. agent[p] \in [phase : {"claimed", "sent"}, target : Targets, attempt : Nat,
                    state : States]
  BY <1>1 DEF TypeOK, Holding, Agents, Idle
<1>4. PICK ph \in {"claimed", "sent"} : Become(p, [agent[p] EXCEPT !.phase = ph])
  BY Zenon DEF NotifierDelivers
<1>5. /\ [agent[p] EXCEPT !.phase = ph] \in Agents
      /\ [agent[p] EXCEPT !.phase = ph].phase = ph
      /\ [agent[p] EXCEPT !.phase = ph].target = agent[p].target
      /\ [agent[p] EXCEPT !.phase = ph].attempt = agent[p].attempt
      /\ [agent[p] EXCEPT !.phase = ph].state = agent[p].state
  BY <1>3 DEF Agents
<1>6. /\ agent' \in [Processes -> Agents] /\ agent'[p] = [agent[p] EXCEPT !.phase = ph]
      /\ \A q \in Processes \ {p} : agent'[q] = agent[q]
  BY <1>4, <1>5, BecomeEffect
<1>7. /\ received' \in [Targets -> SUBSET States]
      /\ received'[agent[p].target] = received[agent[p].target] \union {agent[p].state}
      /\ \A u \in Targets \ {agent[p].target} : received'[u] = received[u]
      /\ UNCHANGED <<tables, ready, opener>>
  BY <1>2 DEF NotifierDelivers, TypeOK
<1>8. TypeOK'
  BY <1>6, <1>7 DEF TypeOK, tables
<1>. QED
  BY <1>1, <1>5, <1>6, <1>7, <1>8

-------------------------------------------------------------------------------
(* The inductive invariant.                                                 *)

\* One verdict per target, carried by the outbox item and told to recipients.
Verdicts ==
  \A t \in Targets :
    /\ received[t] \subseteq {watch[t].first}
    /\ outbox[t].status # "ABSENT" =>
         outbox[t].terminal = watch[t].first /\ watch[t].first # None
    /\ outbox[t].status = "DELIVERED" => outbox[t].terminal \in received[t]

\* A claim in a process's memory carries the verdict, and an attempt number
\* that has been issued.
Carried ==
  \A p \in Processes : Holding(p) =>
    /\ outbox[agent[p].target].status # "ABSENT"
    /\ agent[p].state = watch[agent[p].target].first
    /\ agent[p].attempt <= outbox[agent[p].target].attempt
    /\ agent[p].phase = "sent" => agent[p].state \in received[agent[p].target]

\* An attempt number is held by one process.
OneHolder ==
  \A p, q \in Processes :
    /\ Holding(p) /\ Holding(q)
    /\ agent[p].target = agent[q].target /\ agent[p].attempt = agent[q].attempt
    => p = q

\* terminal_notified_at is set for acknowledged deliveries and for version-1
\* rows that await migration; whoever is migrating has selected all of those,
\* so none is left once a ledger is open.
Migration ==
  /\ \A t \in Targets : "notified" \in watch[t].stamps =>
       \/ outbox[t].status = "DELIVERED"
       \/ outbox[t].status = "ABSENT" /\ Legacy(t) /\ ~ready
  /\ \A o \in Openers :
       /\ \A t \in opener[o].found : watch[t].first # None
       /\ opener[o].stage = "selected" =>
            \A t \in Targets : "notified" \in watch[t].stamps /\ outbox[t].status = "ABSENT"
                               => t \in opener[o].found

\* notify=1 was answered by the observation that inserted the outbox row.
Announced ==
  \A t \in Targets :
    /\ outbox[t].status = "ABSENT" => announced[t] = 0
    /\ announced[t] \in {0, 1}
    /\ announced[t] = 1 => outbox[t].created > 0

WatchInv == TypeOK /\ Verdicts /\ Carried /\ OneHolder /\ Migration /\ Announced

\* A legacy row is recognised by columns that only row writes change.
LEMMA LegacyColumns ==
  ASSUME NEW t \in Targets, watch'[t] = watch[t]
  PROVE  Legacy(t)' = Legacy(t)
BY DEF Legacy

LEMMA InitInv == Init => WatchInv
<1>. SUFFICES ASSUME Init PROVE WatchInv
  OBVIOUS
<1>1. TypeOK
  <2>1. watch \in [Targets -> Watches]
    <3>. DEFINE W == {NoWatch} \union {LegacyWatch(s) : s \in States}
    <3>1. W \subseteq Watches
      BY ConstantTypes
    <3>2. watch \in [Targets -> W]
      BY DEF Init
    <3>. HIDE DEF W
    <3>. QED
      BY <3>1, <3>2
  <2>2. outbox \in [Targets -> Items] /\ opener \in [Openers -> Opening]
        /\ agent \in [Processes -> Agents]
    BY ConstantTypes DEF Init
  <2>. QED
    BY <2>1, <2>2 DEF Init, TypeOK
<1>2. \A t \in Targets : \/ watch[t].stamps = {} /\ watch[t].first = None
                         \/ Legacy(t)
  <2>1. ASSUME NEW t \in Targets
        PROVE  watch[t] = NoWatch \/ \E s \in States : watch[t] = LegacyWatch(s)
    BY DEF Init
  <2>2. NoWatch.stamps = {} /\ NoWatch.first = None
    BY DEF NoWatch
  <2>3. \A s \in States : LegacyWatch(s).stamps = {"notified"} /\ LegacyWatch(s).first = s
    BY DEF LegacyWatch
  <2>4. ASSUME NEW t \in Targets, NEW s \in States, watch[t] = LegacyWatch(s)
        PROVE  Legacy(t)
    <3>1. watch[t].stamps = {"notified"} /\ watch[t].first # None
      BY <2>3, <2>4
    <3>. QED
      BY <3>1 DEF Legacy
  <2>. QED
    BY <2>1, <2>2, <2>4
<1>3. \A p \in Processes : ~Holding(p)
  <2>1. \A p \in Processes : agent[p] = Idle
    BY DEF Init
  <2>. QED
    BY <2>1, IdleHoldsNothing DEF Holding
<1>4. \A t \in Targets : outbox[t].status = "ABSENT" /\ announced[t] = 0
  BY NoItemColumns DEF Init
<1>5. \A o \in Openers : opener[o].stage = "idle" /\ opener[o].found = {}
  BY DEF Init, NotOpening
<1>6. Verdicts
  BY <1>4 DEF Init, Verdicts
<1>7. Migration
  BY <1>2, <1>4, <1>5 DEF Init, Migration
<1>. QED
  BY <1>1, <1>3, <1>4, <1>6, <1>7 DEF WatchInv, Carried, OneHolder, Announced

LEMMA SelectKeepsInv ==
  ASSUME WatchInv, NEW o \in Openers, OpenSelect(o)
  PROVE  WatchInv'
<1>. DEFINE legacy == {t \in Targets : Legacy(t)}
<1>1. /\ opener' = [opener EXCEPT ![o] = [stage |-> "selected", found |-> legacy]]
      /\ UNCHANGED <<watch, outbox, lapsed, inserted, announced, ready, agent, received>>
  BY DEF OpenSelect, tables
<1>2. TypeOK'
  BY <1>1 DEF WatchInv, TypeOK, Opening
<1>3. /\ opener'[o].stage = "selected" /\ opener'[o].found = legacy
      /\ \A r \in Openers \ {o} : opener'[r] = opener[r]
  BY <1>1 DEF WatchInv, TypeOK
<1>4. \A t \in Targets : Legacy(t)' = Legacy(t)
  BY <1>1 DEF Legacy
<1>5. /\ \A t \in legacy : watch[t].first # None
      /\ \A t \in Targets : "notified" \in watch[t].stamps /\ outbox[t].status = "ABSENT"
                             => t \in legacy
  BY DEF WatchInv, Migration, Legacy
<1>. HIDE DEF legacy
<1>6. Migration'
  BY <1>1, <1>3, <1>4, <1>5 DEF WatchInv, Migration
<1>. QED
  BY <1>1, <1>2, <1>6 DEF WatchInv, Verdicts, Carried, OneHolder, Announced, Holding

LEMMA MigrateKeepsInv ==
  ASSUME WatchInv, NEW o \in Openers, OpenMigrate(o)
  PROVE  WatchInv'
<1>. DEFINE found == opener[o].found
<1>1. \A t \in found : watch[t].first # None
  BY DEF WatchInv, Migration
<1>2. /\ TypeOK'
      /\ opener[o].stage = "selected"
      /\ \A t \in Targets \ found : SameRow(t)
      /\ \A t \in found :
           /\ t \in Targets
           /\ watch'[t].first = watch[t].first
           /\ watch'[t].stamps = {"enqueued"}
           /\ outbox[t].status # "ABSENT" => outbox'[t] = outbox[t]
           /\ outbox[t].status = "ABSENT" =>
                /\ outbox'[t].status = "LEGACY_UNCERTAIN"
                /\ outbox'[t].terminal = watch[t].first
                /\ outbox'[t].created = 0
      /\ ready' = TRUE
      /\ opener'[o] = NotOpening
      /\ \A r \in Openers \ {o} : opener'[r] = opener[r]
      /\ UNCHANGED <<announced, agent, received>>
  BY <1>1, MigrateEffect, ZenonT(60) DEF WatchInv
<1>3. NotOpening.stage = "idle" /\ NotOpening.found = {}
  BY DEF NotOpening
<1>4. \A r \in Openers : opener[r].found \subseteq Targets
  BY DEF WatchInv, TypeOK, Opening
<1>5. \A t \in Targets : /\ watch'[t].first = watch[t].first
                         /\ outbox[t].status # "ABSENT" => outbox'[t] = outbox[t]
  BY <1>2 DEF SameRow
<1>6. Verdicts'
  BY <1>1, <1>2, <1>5 DEF WatchInv, Verdicts, SameRow
<1>7. Carried'
  <2>1. \A p \in Processes : Holding(p)' = Holding(p) /\ agent'[p] = agent[p]
    BY <1>2 DEF Holding
  <2>2. \A p \in Processes : Holding(p) => agent[p].target \in Targets
    BY HolderColumns DEF WatchInv
  <2>. QED
    BY <1>2, <1>5, <2>1, <2>2 DEF WatchInv, Carried
<1>8. OneHolder'
  BY <1>2 DEF WatchInv, OneHolder, Holding
<1>9. Migration'
  <2>1. \A t \in Targets : "notified" \in watch'[t].stamps =>
                            t \notin found /\ outbox[t].status = "DELIVERED"
    BY <1>2 DEF WatchInv, Migration, SameRow
  <2>2. \A t \in Targets : "notified" \in watch'[t].stamps =>
                            outbox'[t].status = "DELIVERED"
    BY <1>2, <2>1 DEF SameRow
  <2>3. ASSUME NEW r \in Openers
        PROVE  \A t \in opener'[r].found : watch'[t].first # None
    <3>1. opener'[r].found \subseteq opener[r].found
      BY <1>2, <1>3
    <3>. QED
      BY <1>4, <1>5, <3>1 DEF WatchInv, Migration
  <2>. QED
    BY <2>2, <2>3 DEF Migration
<1>10. Announced'
  BY <1>2 DEF WatchInv, Announced, SameRow
<1>. QED
  BY <1>2, <1>6, <1>7, <1>8, <1>9, <1>10 DEF WatchInv

LEMMA ObserveKeepsInv ==
  ASSUME WatchInv, NEW t \in Targets, NEW s \in States, ObserveTerminal(t, s)
  PROVE  WatchInv'
<1>1. /\ TypeOK'
      /\ watch'[t].first = IF watch[t].first = None THEN s ELSE watch[t].first
      /\ watch'[t].stamps = watch[t].stamps \union {"enqueued"}
      /\ outbox[t].status # "ABSENT" =>
           outbox'[t] = outbox[t] /\ announced'[t] = announced[t]
      /\ outbox[t].status = "ABSENT" =>
           /\ outbox'[t].status = "PENDING" /\ outbox'[t].terminal = watch'[t].first
           /\ outbox'[t].created > 0 /\ announced'[t] = announced[t] + 1
      /\ \A u \in Targets \ {t} : SameRow(u) /\ announced'[u] = announced[u]
      /\ ready
      /\ UNCHANGED <<ready, opener, agent, received>>
  BY ObserveEffect DEF WatchInv
<1>2. \A u \in Targets : received[u] \subseteq States
  BY DEF WatchInv, TypeOK
<1>3. watch'[t].first # None /\ (watch[t].first # None => watch'[t].first = watch[t].first)
  BY <1>1
<1>4. Verdicts'
  <2>1. received[t] \subseteq {watch'[t].first}
    BY <1>2, <1>3 DEF WatchInv, Verdicts
  <2>. QED
    BY <1>1, <1>3, <2>1 DEF WatchInv, Verdicts, SameRow
<1>5. Carried'
  <2>1. \A p \in Processes : Holding(p)' = Holding(p) /\ agent'[p] = agent[p]
    BY <1>1 DEF Holding
  <2>2. \A p \in Processes : Holding(p) => agent[p].target \in Targets
    BY HolderColumns DEF WatchInv
  <2>3. \A u \in Targets : outbox[u].status # "ABSENT" =>
                            outbox'[u] = outbox[u] /\ watch'[u].first = watch[u].first
    BY <1>1, <1>3 DEF WatchInv, Verdicts, SameRow
  <2>. QED
    BY <1>1, <2>1, <2>2, <2>3 DEF WatchInv, Carried
<1>6. OneHolder'
  BY <1>1 DEF WatchInv, OneHolder, Holding
<1>7. Migration'
  <2>1. \A u \in Targets : "notified" \in watch'[u].stamps =>
          "notified" \in watch[u].stamps /\ outbox[u].status = "DELIVERED"
    BY <1>1 DEF WatchInv, Migration, SameRow
  <2>2. \A u \in Targets : outbox[u].status = "DELIVERED" => outbox'[u].status = "DELIVERED"
    BY <1>1 DEF SameRow
  <2>3. \A o \in Openers : opener[o].found \subseteq Targets
    BY DEF WatchInv, TypeOK, Opening
  <2>4. \A u \in Targets : watch[u].first # None => watch'[u].first # None
    BY <1>1, <1>3 DEF SameRow
  <2>. QED
    BY <1>1, <2>1, <2>2, <2>3, <2>4 DEF WatchInv, Migration
<1>8. Announced'
  BY <1>1 DEF WatchInv, Announced, SameRow
<1>. QED
  BY <1>1, <1>4, <1>5, <1>6, <1>7, <1>8 DEF WatchInv

\* The target of a claimable delivery has a verdict to tell.
LEMMA ClaimableVerdict ==
  ASSUME WatchInv, NEW t \in Targets, Claimable(t)
  PROVE  /\ outbox[t].terminal \in States
         /\ outbox[t].status \in {"PENDING", "DELIVERING"}
<1>1. outbox[t].status \in {"PENDING", "DELIVERING"}
  BY DEF Claimable
<1>. QED
  BY <1>1, Columns DEF WatchInv, Verdicts

LEMMA LeaseKeepsInv ==
  ASSUME WatchInv, NEW p \in Processes, NEW t \in Targets, Claimable(t), Lease(p, t)
  PROVE  WatchInv'
<1>1. /\ TypeOK'
      /\ watch'[t].first = watch[t].first /\ watch'[t].stamps = watch[t].stamps
      /\ outbox'[t].status = "DELIVERING" /\ outbox'[t].terminal = outbox[t].terminal
      /\ outbox'[t].attempt = outbox[t].attempt + 1
      /\ outbox'[t].created = outbox[t].created
      /\ \A u \in Targets \ {t} : SameRow(u)
      /\ agent'[p].phase = "claimed" /\ agent'[p].target = t
      /\ agent'[p].attempt = outbox[t].attempt + 1
      /\ agent'[p].state = outbox[t].terminal
      /\ \A q \in Processes \ {p} : agent'[q] = agent[q]
      /\ UNCHANGED <<announced, ready, opener, received>>
  BY ClaimableVerdict, LeaseEffect DEF WatchInv
<1>2. outbox[t].status \in {"PENDING", "DELIVERING"} /\ outbox[t].attempt \in Nat
  BY ClaimableVerdict, Columns DEF WatchInv
<1>3. Verdicts'
  BY <1>1, <1>2 DEF WatchInv, Verdicts, SameRow
<1>4. \A q \in Processes \ {p} :
        /\ Holding(q)' = Holding(q)
        /\ Holding(q) => /\ agent[q].target \in Targets /\ agent[q].attempt \in Nat
                         /\ agent[q].attempt <= outbox[agent[q].target].attempt
                         /\ outbox[agent[q].target].attempt \in Nat
  <2>1. ASSUME NEW q \in Processes, q # p
        PROVE  Holding(q)' = Holding(q)
    BY <1>1, <2>1 DEF Holding
  <2>. QED
    BY <2>1, HolderColumns, Columns DEF WatchInv, Carried
<1>5. Carried'
  <2>1. ASSUME NEW q \in Processes, q # p, Holding(q)
        PROVE  /\ outbox'[agent[q].target].status # "ABSENT"
               /\ agent[q].state = watch'[agent[q].target].first
               /\ agent[q].attempt <= outbox'[agent[q].target].attempt
               /\ agent[q].phase = "sent" => agent[q].state \in received[agent[q].target]
    BY <1>1, <1>2, <1>4, <2>1 DEF WatchInv, Carried, SameRow
  <2>2. /\ outbox'[t].status # "ABSENT" /\ agent'[p].state = watch'[t].first
        /\ agent'[p].attempt <= outbox'[t].attempt
    BY <1>1, <1>2 DEF WatchInv, Verdicts
  <2>. QED
    BY <1>1, <1>4, <2>1, <2>2 DEF Carried
<1>6. OneHolder'
  <2>1. ASSUME NEW q \in Processes, q # p, Holding(q), agent[q].target = t
        PROVE  agent[q].attempt # agent'[p].attempt
    BY <1>1, <1>2, <1>4, <2>1
  <2>2. ASSUME NEW q \in Processes, NEW r \in Processes, q # p, r # p, Holding(q), Holding(r),
               agent[q].target = agent[r].target, agent[q].attempt = agent[r].attempt
        PROVE  q = r
    BY <2>2 DEF WatchInv, OneHolder
  <2>. QED
    BY <1>1, <1>4, <2>1, <2>2 DEF OneHolder
<1>7. Migration'
  <2>1. \A u \in Targets : /\ watch'[u].first = watch[u].first
                           /\ watch'[u].stamps = watch[u].stamps
                           /\ outbox'[u].status = "ABSENT" => outbox[u].status = "ABSENT"
    BY <1>1 DEF SameRow
  <2>2. \A u \in Targets : Legacy(u)' = Legacy(u)
    BY <2>1 DEF Legacy
  <2>3. "notified" \notin watch[t].stamps
    BY <1>2 DEF WatchInv, Migration
  <2>4. \A u \in Targets : "notified" \in watch'[u].stamps => SameRow(u)
    BY <1>1, <2>3
  <2>5. \A o \in Openers : opener[o].found \subseteq Targets
    BY DEF WatchInv, TypeOK, Opening
  <2>. QED
    BY <1>1, <2>1, <2>2, <2>4, <2>5 DEF WatchInv, Migration, SameRow
<1>8. Announced'
  BY <1>1 DEF WatchInv, Announced, SameRow
<1>. QED
  BY <1>1, <1>3, <1>5, <1>6, <1>7, <1>8 DEF WatchInv

\* A process that goes idle leaves the other claims as they were.
LEMMA IdleKeepsHolders ==
  ASSUME WatchInv, NEW p \in Processes, agent'[p].phase = "idle",
         \A q \in Processes \ {p} : agent'[q] = agent[q]
  PROVE  /\ OneHolder'
         /\ \A q \in Processes : Holding(q)' => q # p /\ Holding(q) /\ agent'[q] = agent[q]
<1>1. \A q \in Processes : Holding(q)' => q # p /\ Holding(q) /\ agent'[q] = agent[q]
  BY DEF Holding
<1>2. ASSUME NEW q \in Processes, NEW r \in Processes, Holding(q)', Holding(r)',
             agent'[q].target = agent'[r].target, agent'[q].attempt = agent'[r].attempt
      PROVE  q = r
  BY <1>1, <1>2 DEF WatchInv, OneHolder
<1>. QED
  BY <1>1, <1>2 DEF OneHolder

LEMMA CompletesKeepsInv ==
  ASSUME WatchInv, NEW p \in Processes, NEW st \in {"DELIVERED", "PENDING", "FAILED_TERMINAL"},
         NEW stamps \in SUBSET Stamps, Completes(p, st, stamps),
         st = "DELIVERED" => agent[p].phase = "sent",
         st # "DELIVERED" => stamps = watch[agent[p].target].stamps
  PROVE  WatchInv'
<1>1. PICK t \in Targets : t = agent[p].target
  BY HolderColumns DEF WatchInv, Completes
<1>2. /\ TypeOK'
      /\ watch'[t].first = watch[t].first /\ watch'[t].stamps = stamps
      /\ outbox'[t].status = st /\ outbox'[t].terminal = outbox[t].terminal
      /\ outbox'[t].attempt = outbox[t].attempt
      /\ outbox'[t].created = outbox[t].created
      /\ \A u \in Targets \ {t} : SameRow(u)
      /\ agent'[p].phase = "idle"
      /\ \A q \in Processes \ {p} : agent'[q] = agent[q]
      /\ UNCHANGED <<announced, ready, opener, received>>
  BY <1>1, CompletesEffect DEF WatchInv, DELIVERY_STATES
<1>3. outbox[t].status = "DELIVERING" /\ Holding(p)
  BY <1>1 DEF Completes, RequireLease
<1>4. Verdicts'
  <2>1. st = "DELIVERED" => outbox[t].terminal \in received[t]
    BY <1>1, <1>3 DEF WatchInv, Carried, Verdicts
  <2>. QED
    BY <1>2, <1>3, <2>1 DEF WatchInv, Verdicts, SameRow
<1>5. OneHolder' /\ \A q \in Processes : Holding(q)' => Holding(q) /\ agent'[q] = agent[q]
  BY <1>2, IdleKeepsHolders
<1>6. Carried'
  <2>1. ASSUME NEW q \in Processes, Holding(q)
        PROVE  /\ agent[q].target \in Targets
               /\ outbox'[agent[q].target].status # "ABSENT"
               /\ agent[q].state = watch'[agent[q].target].first
               /\ agent[q].attempt <= outbox'[agent[q].target].attempt
               /\ agent[q].phase = "sent" => agent[q].state \in received[agent[q].target]
    <3>1. agent[q].target \in Targets
      BY <2>1, HolderColumns DEF WatchInv
    <3>. QED
      BY <1>2, <2>1, <3>1 DEF WatchInv, Carried, SameRow
  <2>. QED
    BY <1>2, <1>5, <2>1 DEF Carried
<1>7. Migration'
  <2>1. "notified" \notin watch[t].stamps
    BY <1>3 DEF WatchInv, Migration
  <2>2. "notified" \in watch'[t].stamps => outbox'[t].status = "DELIVERED"
    BY <1>1, <1>2, <2>1
  <2>3. \A u \in Targets : /\ watch'[u].first = watch[u].first
                           /\ u # t => SameRow(u)
                           /\ outbox'[u].status = "ABSENT" => u # t
    BY <1>2 DEF SameRow
  <2>4. \A u \in Targets \ {t} : Legacy(u)' = Legacy(u)
    BY <2>3 DEF Legacy, SameRow
  <2>5. \A o \in Openers : opener[o].found \subseteq Targets
    BY DEF WatchInv, TypeOK, Opening
  <2>. QED
    BY <1>2, <2>2, <2>3, <2>4, <2>5 DEF WatchInv, Migration, SameRow
<1>8. Announced'
  BY <1>2, <1>3 DEF WatchInv, Announced, SameRow
<1>. QED
  BY <1>2, <1>4, <1>5, <1>6, <1>7, <1>8 DEF WatchInv

LEMMA ResolveKeepsInv ==
  ASSUME WatchInv, NEW t \in Targets, NEW d \in BOOLEAN, ResolveLegacy(t, d)
  PROVE  WatchInv'
<1>1. /\ TypeOK'
      /\ outbox[t].status = "LEGACY_UNCERTAIN"
      /\ watch'[t].first = watch[t].first
      /\ outbox'[t].terminal = outbox[t].terminal
      /\ outbox'[t].attempt = outbox[t].attempt
      /\ outbox'[t].created = outbox[t].created
      /\ \/ /\ outbox'[t].status = "DELIVERED" /\ outbox[t].terminal \in received[t]
            /\ "notified" \in watch'[t].stamps
         \/ outbox'[t].status = "PENDING" /\ "notified" \notin watch'[t].stamps
      /\ \A u \in Targets \ {t} : SameRow(u)
      /\ UNCHANGED <<announced, ready, opener, agent, received>>
  BY ResolveEffect DEF WatchInv
<1>2. Verdicts'
  BY <1>1 DEF WatchInv, Verdicts, SameRow
<1>3. Carried'
  <2>1. \A p \in Processes : Holding(p)' = Holding(p) /\ agent'[p] = agent[p]
    BY <1>1 DEF Holding
  <2>2. \A p \in Processes : Holding(p) => agent[p].target \in Targets
    BY HolderColumns DEF WatchInv
  <2>3. \A u \in Targets : /\ outbox'[u].status = "ABSENT" => outbox[u].status = "ABSENT"
                           /\ watch'[u].first = watch[u].first
                           /\ outbox'[u].attempt = outbox[u].attempt
    BY <1>1 DEF SameRow
  <2>. QED
    BY <1>1, <2>1, <2>2, <2>3 DEF WatchInv, Carried
<1>4. OneHolder'
  BY <1>1 DEF WatchInv, OneHolder, Holding
<1>5. Migration'
  <2>1. \A u \in Targets : /\ watch'[u].first = watch[u].first
                           /\ u # t => SameRow(u)
                           /\ outbox'[u].status = "ABSENT" => u # t
    BY <1>1 DEF SameRow
  <2>2. \A u \in Targets \ {t} : Legacy(u)' = Legacy(u)
    BY <2>1 DEF Legacy, SameRow
  <2>3. \A o \in Openers : opener[o].found \subseteq Targets
    BY DEF WatchInv, TypeOK, Opening
  <2>. QED
    BY <1>1, <2>1, <2>2, <2>3 DEF WatchInv, Migration, SameRow
<1>6. Announced'
  BY <1>1 DEF WatchInv, Announced, SameRow
<1>. QED
  BY <1>1, <1>2, <1>3, <1>4, <1>5, <1>6 DEF WatchInv

\* A step that writes neither table, nor what openers have selected.
LEMMA QuietMigration ==
  ASSUME WatchInv, UNCHANGED <<watch, outbox, ready, opener>>
  PROVE  Migration'
BY DEF WatchInv, Migration, Legacy

LEMMA DeliverKeepsInv ==
  ASSUME WatchInv, NEW p \in Processes, NEW r \in BOOLEAN, NotifierDelivers(p, r)
  PROVE  WatchInv'
<1>1. /\ TypeOK'
      /\ Holding(p)
      /\ agent'[p].phase \in {"claimed", "sent"}
      /\ agent'[p].target = agent[p].target /\ agent'[p].attempt = agent[p].attempt
      /\ agent'[p].state = agent[p].state
      /\ \A q \in Processes \ {p} : agent'[q] = agent[q]
      /\ received'[agent[p].target] = received[agent[p].target] \union {agent[p].state}
      /\ \A u \in Targets \ {agent[p].target} : received'[u] = received[u]
      /\ UNCHANGED <<watch, outbox, announced, ready, opener>>
  BY DeliverEffect DEF WatchInv, tables
<1>2. \A q \in Processes : /\ Holding(q)' => Holding(q)
                           /\ agent'[q].target = agent[q].target
                           /\ agent'[q].attempt = agent[q].attempt
                           /\ agent'[q].state = agent[q].state
  <2>1. ASSUME NEW q \in Processes, q # p, Holding(q)'
        PROVE  Holding(q)
    BY <1>1, <2>1 DEF Holding
  <2>. QED
    BY <1>1, <2>1
<1>3. \A u \in Targets : received[u] \subseteq received'[u]
  BY <1>1
<1>4. Verdicts'
  <2>1. agent[p].state = watch[agent[p].target].first
    BY <1>1 DEF WatchInv, Carried
  <2>. QED
    BY <1>1, <1>3, <2>1 DEF WatchInv, Verdicts
<1>5. Carried'
  <2>1. \A q \in Processes : Holding(q) => agent[q].target \in Targets
    BY HolderColumns DEF WatchInv
  <2>2. agent[p].state \in received'[agent[p].target]
    BY <1>1
  <2>. QED
    BY <1>1, <1>2, <1>3, <2>1, <2>2 DEF WatchInv, Carried
<1>6. OneHolder'
  BY <1>2 DEF WatchInv, OneHolder
<1>. QED
  BY <1>1, <1>4, <1>5, <1>6, QuietMigration DEF WatchInv, Announced

LEMMA StopsKeepsInv ==
  ASSUME WatchInv, NEW p \in Processes, ProcessStops(p)
  PROVE  WatchInv'
<1>1. /\ agent' \in [Processes -> Agents] /\ agent'[p].phase = "idle"
      /\ \A q \in Processes \ {p} : agent'[q] = agent[q]
      /\ UNCHANGED <<watch, outbox, lapsed, inserted, announced, ready, opener, received>>
  BY BecomeEffect, ConstantTypes, IdleHoldsNothing DEF WatchInv, ProcessStops, tables
<1>2. OneHolder' /\ \A q \in Processes : Holding(q)' => Holding(q) /\ agent'[q] = agent[q]
  BY <1>1, IdleKeepsHolders
<1>3. TypeOK'
  BY <1>1 DEF WatchInv, TypeOK
<1>4. Carried'
  BY <1>1, <1>2 DEF WatchInv, Carried
<1>. QED
  BY <1>1, <1>2, <1>3, <1>4, QuietMigration DEF WatchInv, Verdicts, Announced

LEMMA QuietKeepsInv ==
  ASSUME WatchInv, lapsed' \subseteq Targets,
         UNCHANGED <<watch, outbox, inserted, announced, ready, opener, agent, received>>
  PROVE  WatchInv'
<1>1. TypeOK'
  BY DEF WatchInv, TypeOK
<1>. QED
  BY <1>1, QuietMigration DEF WatchInv, Verdicts, Carried, OneHolder, Announced, Holding

\* acknowledge_delivery and fail_delivery are completions.
LEMMA CompletionsComplete ==
  ASSUME TypeOK, NEW p \in Processes,
         \/ AcknowledgeDelivery(p) \/ FailDelivery(p, TRUE) \/ FailDelivery(p, FALSE)
  PROVE  \E st \in {"DELIVERED", "PENDING", "FAILED_TERMINAL"}, stamps \in SUBSET Stamps :
           /\ Completes(p, st, stamps)
           /\ st = "DELIVERED" => agent[p].phase = "sent"
           /\ st # "DELIVERED" => stamps = watch[agent[p].target].stamps
<1>1. Holding(p)
  BY DEF AcknowledgeDelivery, FailDelivery, Holding
<1>2. PICK t \in Targets : t = agent[p].target
  BY <1>1, HolderColumns
<1>3. /\ watch[t].stamps \in SUBSET Stamps
      /\ watch[t].stamps \union {"notified"} \in SUBSET Stamps
  BY Columns DEF Stamps
<1>4. CASE AcknowledgeDelivery(p)
  <2>1. Completes(p, "DELIVERED", watch[t].stamps \union {"notified"})
    BY <1>1, <1>2, <1>4 DEF AcknowledgeDelivery, Completes
  <2>2. agent[p].phase = "sent"
    BY <1>4 DEF AcknowledgeDelivery
  <2>. QED
    BY <1>3, <2>1, <2>2
<1>5. CASE FailDelivery(p, TRUE) \/ FailDelivery(p, FALSE)
  <2>. DEFINE failed(st) == [outbox[t] EXCEPT !.owner = None, !.status = st]
  <2>1. \A st : failed(st) = [outbox[t] EXCEPT !.status = st, !.owner = None]
    BY Columns DEF Items
  <2>2. PICK st \in {"PENDING", "FAILED_TERMINAL"} :
            SetStatus(t, failed(st), watch[t].stamps)
    BY <1>2, <1>5, Zenon DEF FailDelivery
  <2>3. SetStatus(t, [outbox[t] EXCEPT !.status = st, !.owner = None], watch[t].stamps)
    BY <2>1, <2>2
  <2>4. Completes(p, st, watch[t].stamps)
    BY <1>1, <1>2, <1>5, <2>3 DEF FailDelivery, Completes
  <2>. QED
    BY <1>2, <1>3, <2>4
<1>. QED
  BY <1>4, <1>5

\* Every step keeps the invariant.
LEMMA StepKeepsInv == WatchInv /\ [Next]_vars => WatchInv'
<1>. SUFFICES ASSUME WatchInv, [Next]_vars PROVE WatchInv'
  OBVIOUS
<1>1. CASE \E o \in Openers : OpenSelect(o) \/ OpenMigrate(o)
  BY <1>1, SelectKeepsInv, MigrateKeepsInv
<1>2. CASE \E t \in Targets, s \in States : ObserveTerminal(t, s)
  BY <1>2, ObserveKeepsInv
<1>3. ASSUME NEW p \in Processes, ProcessStep(p)
      PROVE  WatchInv'
  <2>1. CASE \E t \in Targets : ClaimDelivery(p, t) \/ ClaimDeliveryOf(p, t)
    BY <2>1, LeaseKeepsInv DEF ClaimDelivery, ClaimDeliveryOf, Oldest
  <2>2. CASE NotifierDelivers(p, TRUE) \/ NotifierDelivers(p, FALSE)
    BY <2>2, DeliverKeepsInv
  <2>3. CASE \/ AcknowledgeDelivery(p) \/ FailDelivery(p, TRUE) \/ FailDelivery(p, FALSE)
    BY <2>3, CompletionsComplete, CompletesKeepsInv DEF WatchInv
  <2>4. CASE ProcessStops(p)
    BY <2>4, StopsKeepsInv
  <2>. QED
    BY <1>3, <2>1, <2>2, <2>3, <2>4 DEF ProcessStep
<1>4. ASSUME NEW t \in Targets, LeaseLapses(t)
      PROVE  WatchInv'
  BY <1>4, QuietKeepsInv DEF LeaseLapses, WatchInv, TypeOK
<1>5. ASSUME NEW t \in Targets, ResolveLegacy(t, TRUE) \/ ResolveLegacy(t, FALSE)
      PROVE  WatchInv'
  BY <1>5, ResolveKeepsInv
<1>6. CASE UNCHANGED vars
  BY <1>6, QuietKeepsInv DEF vars, WatchInv, TypeOK
<1>. QED
  BY <1>1, <1>2, <1>3, <1>4, <1>5, <1>6 DEF Next

THEOREM WatchInvariant == Spec => []WatchInv
BY InitInv, StepKeepsInv, PTL DEF Spec

-------------------------------------------------------------------------------
(* The theorems.                                                            *)

\* The tables, the processes' memory and the recipients keep their types.
THEOREM TypeCorrect == Spec => []TypeOK
<1>1. WatchInv => TypeOK
  BY DEF WatchInv
<1>. QED
  BY <1>1, WatchInvariant, PTL

\* One durable outbox item and one notify=True per target.
THEOREM OneAnnouncement == Spec => []AnnouncedOnce
<1>1. WatchInv => AnnouncedOnce
  <2>1. ASSUME Announced, NEW t \in Targets
        PROVE  announced[t] <= 1 /\ (announced[t] = 1 => outbox[t].created > 0)
    <3>1. announced[t] = 0 \/ announced[t] = 1
      BY <2>1 DEF Announced
    <3>. QED
      BY <2>1, <3>1 DEF Announced
  <2>. QED
    BY <2>1 DEF WatchInv, AnnouncedOnce
<1>. QED
  BY <1>1, WatchInvariant, PTL

\* terminal_notified_at is set only for acknowledged deliveries, however many
\* processes open and migrate the ledger at once.
THEOREM NotifiedOnlyWhenAcknowledged == Spec => []NotifiedIsAcknowledged
<1>1. WatchInv => NotifiedIsAcknowledged
  BY DEF WatchInv, Migration, Verdicts, NotifiedIsAcknowledged
<1>. QED
  BY <1>1, WatchInvariant, PTL

\* Recipients are told the first terminal state observed and nothing else.
THEOREM FirstVerdictTold == Spec => []ToldTheFirstVerdict
<1>1. WatchInv => ToldTheFirstVerdict
  BY DEF WatchInv, Verdicts, ToldTheFirstVerdict
<1>. QED
  BY <1>1, WatchInvariant, PTL

\* At most one process can complete a delivery, whatever worker ids are reused.
THEOREM SingleLeaseHolder == Spec => []OneLeaseHolder
<1>1. WatchInv => OneLeaseHolder
  BY DEF WatchInv, OneHolder, OneLeaseHolder, RequireLease
<1>. QED
  BY <1>1, WatchInvariant, PTL

\* While a lease is live only its holder changes the delivery.
THEOREM LiveLeases == Spec => LiveLeaseIsExclusive
<1>. DEFINE Held(t) == \E p \in Processes : /\ agent[p].target = t
                                            /\ agent[p].attempt = outbox[t].attempt
                                            /\ agent'[p] # agent[p]
<1>1. ASSUME WatchInv, [Next]_vars, NEW t \in Targets,
             outbox[t].status = "DELIVERING", t \notin lapsed, outbox'[t] # outbox[t]
      PROVE  Held(t)
  <2>1. ~Claimable(t)
    BY <1>1 DEF Claimable
  <2>2. ASSUME NEW o \in Openers, OpenMigrate(o)
        PROVE  FALSE
    <3>1. \A u \in opener[o].found : watch[u].first # None
      BY <1>1 DEF WatchInv, Migration
    <3>. QED
      BY <1>1, <2>2, <3>1, MigrateEffect DEF WatchInv, SameRow
  <2>3. ASSUME NEW u \in Targets, NEW s \in States, ObserveTerminal(u, s)
        PROVE  FALSE
    BY <1>1, <2>3, ObserveEffect DEF WatchInv, SameRow
  <2>4. ASSUME NEW p \in Processes, NEW u \in Targets,
               ClaimDelivery(p, u) \/ ClaimDeliveryOf(p, u)
        PROVE  FALSE
    <3>1. Claimable(u) /\ Lease(p, u)
      BY <2>4 DEF ClaimDelivery, ClaimDeliveryOf, Oldest
    <3>2. u # t
      BY <2>1, <3>1
    <3>3. \A v \in Targets \ {u} : SameRow(v)
      BY <1>1, <3>1, ClaimableVerdict, LeaseEffect DEF WatchInv
    <3>. QED
      BY <1>1, <3>2, <3>3 DEF SameRow
  <2>5. ASSUME NEW p \in Processes,
               AcknowledgeDelivery(p) \/ FailDelivery(p, TRUE) \/ FailDelivery(p, FALSE)
        PROVE  Held(t)
    <3>1. PICK st \in {"DELIVERED", "PENDING", "FAILED_TERMINAL"}, stamps \in SUBSET Stamps :
                 Completes(p, st, stamps)
      BY <1>1, <2>5, CompletionsComplete DEF WatchInv
    <3>2. PICK u \in Targets : u = agent[p].target
      BY <1>1, <3>1, HolderColumns DEF WatchInv, Completes
    <3>3. agent'[p].phase = "idle" /\ \A v \in Targets \ {u} : SameRow(v)
      BY <1>1, <3>1, <3>2, CompletesEffect DEF WatchInv, DELIVERY_STATES
    <3>4. u = t
      BY <1>1, <3>3 DEF SameRow
    <3>5. Holding(p) /\ outbox[u].attempt = agent[p].attempt
      BY <3>1, <3>2 DEF Completes, RequireLease
    <3>6. agent'[p] # agent[p]
      BY <3>3, <3>5 DEF Holding
    <3>. QED
      BY <3>2, <3>4, <3>5, <3>6
  <2>6. ASSUME NEW u \in Targets, NEW d \in BOOLEAN, ResolveLegacy(u, d)
        PROVE  FALSE
    BY <1>1, <2>6, ResolveEffect DEF WatchInv, SameRow
  <2>7. \A o \in Openers : ~OpenSelect(o)
    BY <1>1 DEF OpenSelect, tables
  <2>8. \A u \in Targets : ~LeaseLapses(u)
    BY <1>1 DEF LeaseLapses
  <2>9. \A p \in Processes : /\ ~NotifierDelivers(p, TRUE) /\ ~NotifierDelivers(p, FALSE)
                             /\ ~ProcessStops(p)
    BY <1>1 DEF NotifierDelivers, ProcessStops, tables
  <2>10. ~(UNCHANGED vars)
    BY <1>1 DEF vars
  <2>. HIDE DEF Held
  <2>. QED
    BY <1>1, <2>2, <2>3, <2>4, <2>5, <2>6, <2>7, <2>8, <2>9, <2>10 DEF Next, ProcessStep
<1>2. WatchInv /\ [Next]_vars =>
        [\A t \in Targets :
           /\ outbox[t].status = "DELIVERING" /\ t \notin lapsed
           /\ outbox'[t] # outbox[t]
           => \E p \in Processes : /\ agent[p].target = t
                                   /\ agent[p].attempt = outbox[t].attempt
                                   /\ agent'[p] # agent[p]]_vars
  BY <1>1
<1>. QED
  BY <1>2, WatchInvariant, PTL DEF Spec, LiveLeaseIsExclusive

-------------------------------------------------------------------------------
(* One opener at a time: the two tables agree.                              *)

\* Before the first _init completes the outbox is empty; afterwards nothing
\* is left to migrate, so that no later _init writes anything.
Agreement ==
  /\ ~ready => \A t \in Targets : outbox[t].status = "ABSENT" /\ watch[t].delivery = None
  /\ ready => \A o \in Openers : opener[o].found = {}
  /\ \A t \in Targets : outbox[t].status # "ABSENT" => "enqueued" \in watch[t].stamps
  /\ RecordsAgree

OneOpener == \A o, r \in Openers : o = r

\* The invariant of a ledger opened by one process at a time.
LEMMA AgreementStep ==
  ASSUME OneOpener, WatchInv, WatchInv', Agreement, [Next]_vars
  PROVE  Agreement'
<1>1. ASSUME NEW o \in Openers, OpenSelect(o)
      PROVE  Agreement'
  <2>1. UNCHANGED <<watch, outbox, ready>>
    BY <1>1 DEF OpenSelect, tables
  <2>2. ASSUME ready
        PROVE  \A t \in Targets : ~Legacy(t)
    BY <2>2 DEF WatchInv, Migration, Agreement, Legacy
  <2>3. opener'[o].found = {t \in Targets : Legacy(t)}
    BY <1>1 DEF OpenSelect, WatchInv, TypeOK
  <2>4. ready => \A r \in Openers : opener'[r].found = {}
    BY <2>2, <2>3 DEF OneOpener
  <2>. QED
    BY <2>1, <2>4 DEF Agreement, RecordsAgree
<1>2. ASSUME NEW o \in Openers, OpenMigrate(o)
      PROVE  Agreement'
  <2>1. \A t \in opener[o].found : watch[t].first # None
    BY DEF WatchInv, Migration
  <2>2. /\ \A t \in Targets \ opener[o].found : SameRow(t)
        /\ \A t \in opener[o].found :
             /\ t \in Targets
             /\ watch'[t].stamps = {"enqueued"}
             /\ watch'[t].delivery = "LEGACY_UNCERTAIN"
             /\ outbox[t].status = "ABSENT" => outbox'[t].status = "LEGACY_UNCERTAIN"
        /\ ready' = TRUE
        /\ opener'[o] = NotOpening
    BY <1>2, <2>1, MigrateEffect, ZenonT(60) DEF WatchInv
  <2>3. \A r \in Openers : opener'[r].found = {}
    BY <2>2 DEF OneOpener, NotOpening
  <2>4. \A t \in opener[o].found : outbox[t].status = "ABSENT"
    BY <2>2 DEF Agreement
  <2>5. ASSUME NEW t \in Targets
        PROVE  /\ watch'[t].delivery = IF outbox'[t].status = "ABSENT" THEN None
                                        ELSE outbox'[t].status
               /\ outbox'[t].status = "DELIVERED" => "notified" \in watch'[t].stamps
               /\ outbox'[t].status # "ABSENT" => "enqueued" \in watch'[t].stamps
    <3>1. CASE t \in opener[o].found
      BY <2>2, <2>4, <3>1
    <3>2. CASE t \notin opener[o].found
      BY <2>2, <3>2 DEF SameRow, Agreement, RecordsAgree
    <3>. QED
      BY <3>1, <3>2
  <2>. QED
    BY <2>2, <2>3, <2>5 DEF Agreement, RecordsAgree
<1>3. ASSUME NEW t \in Targets, ready, UNCHANGED <<ready, opener>>,
             \A u \in Targets \ {t} : SameRow(u),
             watch'[t].delivery = outbox'[t].status,
             outbox'[t].status # "ABSENT", "enqueued" \in watch'[t].stamps,
             outbox'[t].status = "DELIVERED" => "notified" \in watch'[t].stamps
      PROVE  Agreement'
  BY <1>3 DEF Agreement, RecordsAgree, SameRow
<1>4. ASSUME NEW t \in Targets, NEW s \in States, ObserveTerminal(t, s)
      PROVE  Agreement'
  <2>1. /\ ready /\ UNCHANGED <<ready, opener>>
        /\ \A u \in Targets \ {t} : SameRow(u)
        /\ watch'[t].delivery = outbox'[t].status
        /\ watch'[t].stamps = watch[t].stamps \union {"enqueued"}
        /\ outbox[t].status # "ABSENT" => outbox'[t] = outbox[t]
        /\ outbox[t].status = "ABSENT" => outbox'[t].status = "PENDING"
    BY <1>4, ObserveEffect DEF WatchInv
  <2>. QED
    BY <1>3, <2>1 DEF Agreement, RecordsAgree
<1>5. ASSUME NEW p \in Processes, NEW t \in Targets,
             ClaimDelivery(p, t) \/ ClaimDeliveryOf(p, t)
      PROVE  Agreement'
  <2>1. Claimable(t) /\ Lease(p, t)
    BY <1>5 DEF ClaimDelivery, ClaimDeliveryOf, Oldest
  <2>2. outbox[t].terminal \in States /\ outbox[t].status # "ABSENT"
    BY <2>1, ClaimableVerdict
  <2>3. /\ UNCHANGED <<ready, opener>>
        /\ \A u \in Targets \ {t} : SameRow(u)
        /\ watch'[t].delivery = "DELIVERING" /\ outbox'[t].status = "DELIVERING"
        /\ watch'[t].stamps = watch[t].stamps
    BY <2>1, <2>2, LeaseEffect DEF WatchInv
  <2>. QED
    BY <1>3, <2>2, <2>3 DEF Agreement
<1>6. ASSUME NEW p \in Processes,
             AcknowledgeDelivery(p) \/ FailDelivery(p, TRUE) \/ FailDelivery(p, FALSE)
      PROVE  Agreement'
  <2>1. PICK st \in {"DELIVERED", "PENDING", "FAILED_TERMINAL"}, stamps \in SUBSET Stamps :
               Completes(p, st, stamps)
    BY <1>6, CompletionsComplete DEF WatchInv
  <2>2. PICK t \in Targets : t = agent[p].target
    BY <2>1, HolderColumns DEF WatchInv, Completes
  <2>3. /\ UNCHANGED <<ready, opener>>
        /\ \A u \in Targets \ {t} : SameRow(u)
        /\ watch'[t].delivery = outbox'[t].status /\ outbox'[t].status = st
    BY <2>1, <2>2, CompletesEffect DEF WatchInv, DELIVERY_STATES
  <2>4. outbox[t].status = "DELIVERING"
    BY <2>1, <2>2 DEF Completes, RequireLease
  <2>5. /\ "enqueued" \in watch'[t].stamps
        /\ outbox'[t].status = "DELIVERED" => "notified" \in watch'[t].stamps
    <3>1. /\ watch'[t].stamps \in {watch[t].stamps, watch[t].stamps \union {"notified"}}
          /\ AcknowledgeDelivery(p) => watch'[t].stamps = watch[t].stamps \union {"notified"}
      BY <1>6, <2>2 DEF AcknowledgeDelivery, FailDelivery, SetStatus, WatchInv, TypeOK
    <3>2. FailDelivery(p, TRUE) \/ FailDelivery(p, FALSE) => outbox'[t].status # "DELIVERED"
      <4>1. ASSUME NEW st2 \in {"PENDING", "FAILED_TERMINAL"},
                   SetStatus(t, [outbox[t] EXCEPT !.owner = None, !.status = st2],
                             watch[t].stamps)
            PROVE  outbox'[t].status # "DELIVERED"
        <5>1. outbox'[t] = [outbox[t] EXCEPT !.owner = None, !.status = st2]
          BY <4>1 DEF SetStatus, WatchInv, TypeOK
        <5>2. outbox[t] \in Items
          BY DEF WatchInv, TypeOK
        <5>. QED
          BY <5>1, <5>2 DEF Items
      <4>2. FailDelivery(p, TRUE) \/ FailDelivery(p, FALSE) =>
              \E st2 \in {"PENDING", "FAILED_TERMINAL"} :
                SetStatus(t, [outbox[t] EXCEPT !.owner = None, !.status = st2],
                          watch[t].stamps)
        BY <2>2, Zenon DEF FailDelivery
      <4>. QED
        BY <4>1, <4>2
    <3>. QED
      BY <1>6, <2>4, <3>1, <3>2 DEF Agreement
  <2>. QED
    BY <1>3, <2>3, <2>4, <2>5 DEF Agreement
<1>7. ASSUME NEW t \in Targets, NEW d \in BOOLEAN, ResolveLegacy(t, d)
      PROVE  Agreement'
  <2>1. /\ UNCHANGED <<ready, opener>>
        /\ \A u \in Targets \ {t} : SameRow(u)
        /\ watch'[t].delivery = outbox'[t].status
        /\ outbox[t].status = "LEGACY_UNCERTAIN"
        /\ \/ outbox'[t].status = "DELIVERED" /\ "notified" \in watch'[t].stamps
           \/ outbox'[t].status = "PENDING"
    BY <1>7, ResolveEffect DEF WatchInv
  <2>2. watch[t].stamps \ {"notified"} \subseteq watch'[t].stamps
    BY <1>7 DEF ResolveLegacy, SetStatus, WatchInv, TypeOK
  <2>. QED
    BY <1>3, <2>1, <2>2 DEF Agreement
<1>8. CASE UNCHANGED <<watch, outbox, ready, opener>>
  BY <1>8 DEF Agreement, RecordsAgree
<1>9. ASSUME NEW p \in Processes,
             NotifierDelivers(p, TRUE) \/ NotifierDelivers(p, FALSE) \/ ProcessStops(p)
      PROVE  UNCHANGED <<watch, outbox, ready, opener>>
  BY <1>9 DEF NotifierDelivers, ProcessStops, tables
<1>10. ASSUME NEW t \in Targets, LeaseLapses(t)
      PROVE  UNCHANGED <<watch, outbox, ready, opener>>
  BY <1>10 DEF LeaseLapses
<1>11. UNCHANGED vars => UNCHANGED <<watch, outbox, ready, opener>>
  BY DEF vars
<1>. QED
  BY <1>1, <1>2, <1>4, <1>5, <1>6, <1>7, <1>8, <1>9, <1>10, <1>11 DEF Next, ProcessStep

\* condition_watches and the outbox agree as long as no two processes are
\* inside _init at the same time.
THEOREM RecordsStayInStep == ASSUME OneOpener PROVE Spec => []RecordsAgree
<1>1. Init => Agreement
  <2>. SUFFICES ASSUME Init PROVE Agreement
    OBVIOUS
  <2>1. \A t \in Targets : outbox[t].status = "ABSENT"
    BY NoItemColumns DEF Init
  <2>2. ASSUME NEW t \in Targets
        PROVE  watch[t].delivery = None
    <3>1. watch[t] = NoWatch \/ \E s \in States : watch[t] = LegacyWatch(s)
      BY DEF Init
    <3>2. NoWatch.delivery = None /\ \A s \in States : LegacyWatch(s).delivery = None
      BY DEF NoWatch, LegacyWatch
    <3>. QED
      BY <3>1, <3>2
  <2>. QED
    BY <2>1, <2>2 DEF Init, Agreement, RecordsAgree
<1>2. WatchInv /\ WatchInv' /\ Agreement /\ [Next]_vars => Agreement'
  BY AgreementStep
<1>3. Agreement => RecordsAgree
  BY DEF Agreement
<1>. QED
  BY <1>1, <1>2, <1>3, WatchInvariant, PTL DEF Spec

-------------------------------------------------------------------------------
(* Refinement: the ledger implements WatchNotice.                           *)

\* A step that changes no first terminal state, no report and no recipient is
\* a stuttering step of WatchNotice.
LEMMA Stutters ==
  ASSUME \A t \in Targets : watch'[t].first = watch[t].first /\ Report(t)' = Report(t),
         received' = received
  PROVE  UNCHANGED Abstract!vars
BY DEF Abstract!vars

\* A step that changes only the report of one target.
LEMMA OneReport ==
  ASSUME NEW t \in Targets,
         \A u \in Targets : watch'[u].first = watch[u].first,
         \A u \in Targets \ {t} : SameRow(u)
  PROVE  /\ [u \in Targets |-> watch[u].first]' = [u \in Targets |-> watch[u].first]
         /\ [u \in Targets |-> Report(u)]' = [[u \in Targets |-> Report(u)] EXCEPT ![t] = Report(t)']
BY DEF SameRow, Report

\* Every step of the ledger is a step of WatchNotice or none.
LEMMA NoticeSteps ==
  ASSUME WatchInv, WatchInv', [Next]_vars
  PROVE  [Abstract!Next]_(Abstract!vars)
<1>. DEFINE verdict == [u \in Targets |-> watch[u].first]
            report == [u \in Targets |-> Report(u)]
<1>1. CASE UNCHANGED <<watch, outbox, received>>
  <2>1. \A t \in Targets : watch'[t].first = watch[t].first /\ Report(t)' = Report(t)
    BY <1>1 DEF Report
  <2>. QED
    BY <1>1, <2>1, Stutters
<1>2. ASSUME NEW o \in Openers, OpenMigrate(o)
      PROVE  UNCHANGED Abstract!vars
  <2>1. \A t \in opener[o].found : watch[t].first # None
    BY DEF WatchInv, Migration
  <2>2. /\ \A t \in Targets \ opener[o].found : SameRow(t)
        /\ \A t \in opener[o].found :
             /\ watch'[t].first = watch[t].first
             /\ outbox[t].status # "ABSENT" => outbox'[t] = outbox[t]
             /\ outbox[t].status = "ABSENT" => outbox'[t].status = "LEGACY_UNCERTAIN"
        /\ received' = received
    BY <1>2, <2>1, MigrateEffect, ZenonT(60) DEF WatchInv
  <2>3. ASSUME NEW t \in Targets
        PROVE  watch'[t].first = watch[t].first /\ Report(t)' = Report(t)
    BY <2>2 DEF SameRow, Report
  <2>. QED
    BY <2>2, <2>3, Stutters
<1>3. ASSUME NEW t \in Targets, NEW s \in States, ObserveTerminal(t, s)
      PROVE  [Abstract!Next]_(Abstract!vars)
  <2>1. /\ watch'[t].first = IF watch[t].first = None THEN s ELSE watch[t].first
        /\ outbox[t].status # "ABSENT" => outbox'[t] = outbox[t]
        /\ outbox[t].status = "ABSENT" => outbox'[t].status = "PENDING"
        /\ \A u \in Targets \ {t} : SameRow(u)
        /\ received' = received
    BY <1>3, ObserveEffect DEF WatchInv
  <2>2. \A u \in Targets : Report(u)' = Report(u)
    BY <2>1 DEF SameRow, Report
  <2>3. CASE watch[t].first # None
    BY <2>1, <2>2, <2>3, Stutters DEF SameRow
  <2>4. CASE watch[t].first = None
    <3>1. verdict[t] = None /\ verdict' = [verdict EXCEPT ![t] = s]
      BY <2>1, <2>4 DEF SameRow
    <3>2. report' = report
      BY <2>2
    <3>. QED
      BY <2>1, <3>1, <3>2 DEF Abstract!Next, Abstract!Decide
  <2>. QED
    BY <2>3, <2>4
<1>4. ASSUME NEW p \in Processes, NEW t \in Targets,
             ClaimDelivery(p, t) \/ ClaimDeliveryOf(p, t)
      PROVE  UNCHANGED Abstract!vars
  <2>1. Claimable(t) /\ Lease(p, t)
    BY <1>4 DEF ClaimDelivery, ClaimDeliveryOf, Oldest
  <2>2. outbox[t].terminal \in States /\ outbox[t].status \in {"PENDING", "DELIVERING"}
    BY <2>1, ClaimableVerdict
  <2>3. /\ watch'[t].first = watch[t].first /\ outbox'[t].status = "DELIVERING"
        /\ \A u \in Targets \ {t} : SameRow(u)
        /\ received' = received
    BY <2>1, <2>2, LeaseEffect DEF WatchInv
  <2>4. ASSUME NEW u \in Targets
        PROVE  watch'[u].first = watch[u].first /\ Report(u)' = Report(u)
    BY <2>2, <2>3 DEF SameRow, Report
  <2>. QED
    BY <2>3, <2>4, Stutters
<1>5. ASSUME NEW t \in Targets, received' = received,
             outbox[t].status \in {"DELIVERING", "LEGACY_UNCERTAIN"},
             outbox'[t].status \in {"DELIVERED", "PENDING", "FAILED_TERMINAL"},
             outbox'[t].status = "DELIVERED" => outbox[t].terminal \in received[t],
             watch'[t].first = watch[t].first,
             \A u \in Targets \ {t} : SameRow(u)
      PROVE  [Abstract!Next]_(Abstract!vars)
  <2>1. \A u \in Targets : watch'[u].first = watch[u].first
    BY <1>5 DEF SameRow
  <2>2. verdict' = verdict /\ report' = [report EXCEPT ![t] = Report(t)']
    BY <1>5, <2>1, OneReport
  <2>3. /\ report[t] = "open" /\ verdict[t] = watch[t].first
        /\ outbox[t].terminal = watch[t].first /\ watch[t].first # None
    BY <1>5 DEF Report, WatchInv, Verdicts
  <2>4. CASE outbox'[t].status = "DELIVERED"
    <3>1. Report(t)' = "delivered" /\ verdict[t] \in received[t]
      BY <1>5, <2>3, <2>4 DEF Report
    <3>. QED
      BY <1>5, <2>2, <2>3, <3>1 DEF Abstract!Next, Abstract!ReportDelivered
  <2>5. CASE outbox'[t].status = "FAILED_TERMINAL"
    <3>1. Report(t)' = "abandoned"
      BY <2>5 DEF Report
    <3>. QED
      BY <1>5, <2>2, <2>3, <3>1 DEF Abstract!Next, Abstract!ReportAbandoned
  <2>6. CASE outbox'[t].status = "PENDING"
    <3>1. \A u \in Targets : Report(u)' = Report(u)
      BY <1>5, <2>6 DEF Report, SameRow
    <3>. QED
      BY <1>5, <2>1, <3>1, Stutters
  <2>. QED
    BY <1>5, <2>4, <2>5, <2>6
<1>6. ASSUME NEW p \in Processes,
             AcknowledgeDelivery(p) \/ FailDelivery(p, TRUE) \/ FailDelivery(p, FALSE)
      PROVE  [Abstract!Next]_(Abstract!vars)
  <2>1. PICK st \in {"DELIVERED", "PENDING", "FAILED_TERMINAL"}, stamps \in SUBSET Stamps :
               Completes(p, st, stamps) /\ (st = "DELIVERED" => agent[p].phase = "sent")
    BY <1>6, CompletionsComplete DEF WatchInv
  <2>2. PICK t \in Targets : t = agent[p].target
    BY <2>1, HolderColumns DEF WatchInv, Completes
  <2>3. /\ \A u \in Targets \ {t} : SameRow(u)
        /\ watch'[t].first = watch[t].first /\ outbox'[t].status = st
        /\ received' = received
    BY <2>1, <2>2, CompletesEffect DEF WatchInv, DELIVERY_STATES
  <2>4. outbox[t].status = "DELIVERING" /\ Holding(p)
    BY <2>1, <2>2 DEF Completes, RequireLease
  <2>5. st = "DELIVERED" => outbox[t].terminal \in received[t]
    BY <2>1, <2>2, <2>4 DEF WatchInv, Carried, Verdicts
  <2>. QED
    BY <1>5, <2>1, <2>3, <2>4, <2>5
<1>7. ASSUME NEW t \in Targets, NEW d \in BOOLEAN, ResolveLegacy(t, d)
      PROVE  [Abstract!Next]_(Abstract!vars)
  <2>1. /\ outbox[t].status = "LEGACY_UNCERTAIN"
        /\ watch'[t].first = watch[t].first
        /\ \/ outbox'[t].status = "DELIVERED" /\ outbox[t].terminal \in received[t]
           \/ outbox'[t].status = "PENDING"
        /\ \A u \in Targets \ {t} : SameRow(u)
        /\ received' = received
    BY <1>7, ResolveEffect DEF WatchInv
  <2>. QED
    BY <1>5, <2>1
<1>8. ASSUME NEW p \in Processes, NEW r \in BOOLEAN, NotifierDelivers(p, r)
      PROVE  [Abstract!Next]_(Abstract!vars)
  <2>1. PICK t \in Targets : t = agent[p].target
    BY <1>8, DeliverEffect, HolderColumns DEF WatchInv
  <2>2. /\ Holding(p)
        /\ received'[t] = received[t] \union {agent[p].state}
        /\ \A u \in Targets \ {t} : received'[u] = received[u]
        /\ UNCHANGED <<watch, outbox>>
    BY <1>8, <2>1, DeliverEffect DEF WatchInv, tables
  <2>3. agent[p].state = watch[t].first /\ outbox[t].status # "ABSENT"
    BY <2>1, <2>2 DEF WatchInv, Carried
  <2>4. received[t] \subseteq {watch[t].first} /\ watch[t].first # None
    BY <2>3 DEF WatchInv, Verdicts
  <2>5. received' = [received EXCEPT ![t] = {verdict[t]}] /\ verdict[t] # None
    BY <2>2, <2>3, <2>4 DEF WatchInv, TypeOK
  <2>6. verdict' = verdict /\ report' = report
    BY <2>2 DEF Report
  <2>. QED
    BY <2>5, <2>6 DEF Abstract!Next, Abstract!Receive
<1>9. ASSUME \/ \E o \in Openers : OpenSelect(o)
             \/ \E p \in Processes : ProcessStops(p)
             \/ \E t \in Targets : LeaseLapses(t)
             \/ UNCHANGED vars
      PROVE  UNCHANGED <<watch, outbox, received>>
  BY <1>9 DEF OpenSelect, ProcessStops, LeaseLapses, vars, tables
<1>. HIDE DEF verdict, report
<1>. QED
  BY <1>1, <1>2, <1>3, <1>4, <1>6, <1>7, <1>8, <1>9 DEF Next, ProcessStep

\* The ledger keeps the promise WatchNotice states: one verdict, told
\* truthfully, and a final report that never runs ahead of the notification.
THEOREM Refinement == Spec => NoticeSpec
<1>1. Init => Abstract!Init
  <2>. SUFFICES ASSUME Init PROVE Abstract!Init
    OBVIOUS
  <2>1. WatchInv
    BY InitInv
  <2>2. \A t \in Targets : outbox[t].status = "ABSENT"
    BY NoItemColumns DEF Init
  <2>3. \A t \in Targets : Report(t) = "open"
    BY <2>2 DEF Report
  <2>4. /\ \A t \in Targets : watch[t].first \in States \union {None}
        /\ received \in [Targets -> SUBSET States]
        /\ \A t \in Targets : received[t] \subseteq {watch[t].first}
    BY <2>1, Columns DEF WatchInv, TypeOK, Verdicts
  <2>. QED
    BY <2>3, <2>4 DEF Abstract!Init
<1>2. WatchInv /\ WatchInv' /\ [Next]_vars => [Abstract!Next]_(Abstract!vars)
  BY NoticeSteps
<1>. QED
  BY <1>1, <1>2, WatchInvariant, PTL DEF Spec, NoticeSpec, Abstract!Spec
===============================================================================
