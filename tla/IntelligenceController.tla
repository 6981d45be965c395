------------------------- MODULE IntelligenceController -------------------------
(***************************************************************************)
(* IntelligenceController of frost_core/intelligence_controller.py: change *)
(* detection with a hash-linked event table, a leased work queue and the   *)
(* weekly review of conversations.                                         *)
(*                                                                         *)
(* observe() reads the source's snapshot and the latest event before its   *)
(* transaction; ensure_scheduled_work() asks twice for the conversation to *)
(* review.  Both are two actions.  Event and work keys are derived from    *)
(* the source and the content, so a content seen before gives the key of   *)
(* its first event, and INSERT OR IGNORE keeps that one.                   *)
(***************************************************************************)
EXTENDS Naturals, FiniteSets, Sequences

CONSTANTS Sources, Contents,  \* what is observed, and the contents it may have
          Observers,          \* processes that call observe
          Conversations,      \* the Automation conversations, by review order: a sequence
          MaxWindow           \* bound: cadence windows (each a week with one ordinary slot)

ASSUME IntelligenceAssumption == MaxWindow \in Nat \ {0} /\ IsFiniteSet(Observers)

VARIABLES snapshot,   \* source_snapshots
          chain,      \* change_events in order of seq, with prev_event_hash
          work,       \* work_items: the status of each key
          workLate,   \* running items whose lease_until has passed
          processed,  \* event_processing
          seeing,     \* the observe() each observer is in
          reviewed,   \* last_reviewed_week of each conversation, 0 for none
          window,     \* the current cadence window
          planning    \* the daemon's ensure_scheduled_work()

intelligenceVars == <<snapshot, chain, work, workLate, processed, seeing, reviewed, window, planning>>
feedVars == <<snapshot, chain, processed, seeing>>
cadenceVars == <<reviewed, window, planning>>

Talks == {Conversations[i] : i \in DOMAIN Conversations}
EventKeys == Sources \X Contents
Genesis == <<>>
\* Work is created by an event or by a window; for an ordinary review the
\* payload names the conversation chosen when the item was made.
WorkKeys == EventKeys \union ({"ORDINARY_REVIEW", "DEEP_SYNTHESIS"} \X (1..MaxWindow))
NotSeeing == [stage |-> "idle"]

IntelligenceTypeOK ==
  /\ snapshot \in [Sources -> Contents \union {"none"}]
  /\ chain \in Seq([key : EventKeys, prev : EventKeys \union {Genesis}])
  /\ work \in [WorkKeys -> {"ABSENT", "QUEUED", "RUNNING", "COMPLETE"}]
  /\ workLate \subseteq {k \in WorkKeys : work[k] = "RUNNING"}
  /\ processed \subseteq EventKeys
  /\ seeing \in [Observers -> {NotSeeing} \union
       [stage : {"read"}, key : EventKeys, prev : EventKeys \union {Genesis}]]
  /\ reviewed \in [Talks -> 0..MaxWindow]
  /\ window \in 1..MaxWindow
  /\ planning \in {"idle", "due", "stopped"}

IntelligenceInit ==
  /\ snapshot = [s \in Sources |-> "none"]
  /\ chain = <<>>
  /\ work = [k \in WorkKeys |-> "ABSENT"]
  /\ workLate = {}
  /\ processed = {}
  /\ seeing = [o \in Observers |-> NotSeeing]
  /\ reviewed = [t \in Talks |-> 0]
  /\ window = 1
  /\ planning = "idle"

-------------------------------------------------------------------------------
\* Mutant: the link is computed from the hash cached when the process started.
StartHash == Genesis

LatestHash == IF chain = <<>> THEN Genesis ELSE chain[Len(chain)].key

\* observe(), first half: unchanged content is no event.
ObserveReads(o, s, c) ==
  /\ seeing[o] = NotSeeing
  /\ snapshot[s] # c
  /\ seeing' = [seeing EXCEPT ![o] = [stage |-> "read", key |-> <<s, c>>, prev |-> LatestHash]]
  /\ UNCHANGED <<snapshot, chain, processed, work, workLate, cadenceVars>>

Recorded(key) == \E i \in DOMAIN chain : chain[i].key = key

\* Mutant: the snapshot is stored, and the work item is left to a later call.
ObserveWithoutWork(o) ==
  /\ seeing[o].stage = "read"
  /\ LET key == seeing[o].key IN
       /\ chain' = IF Recorded(key) THEN chain
                   ELSE Append(chain, [key |-> key, prev |-> seeing[o].prev])
       /\ snapshot' = [snapshot EXCEPT ![key[1]] = key[2]]
  /\ seeing' = [seeing EXCEPT ![o] = NotSeeing]
  /\ UNCHANGED <<processed, work, workLate, cadenceVars>>

\* observe(), second half: event, snapshot and work item in one transaction.
\* The policy it selects decides dispatch class and priority only.
ObserveCommits(o) ==
  /\ seeing[o].stage = "read"
  /\ LET key == seeing[o].key IN
       /\ chain' = IF Recorded(key) THEN chain
                   ELSE Append(chain, [key |-> key, prev |-> seeing[o].prev])
       /\ snapshot' = [snapshot EXCEPT ![key[1]] = key[2]]
       /\ work' = [work EXCEPT ![key] = IF @ = "ABSENT" THEN "QUEUED" ELSE @]
  /\ seeing' = [seeing EXCEPT ![o] = NotSeeing]
  /\ UNCHANGED <<processed, workLate, cadenceVars>>

ObserverDies(o) ==
  /\ seeing[o] # NotSeeing
  /\ seeing' = [seeing EXCEPT ![o] = NotSeeing]
  /\ UNCHANGED <<snapshot, chain, processed, work, workLate, cadenceVars>>

-------------------------------------------------------------------------------
\* claim_work: queued, or running with a lease that ran out.  All work is due
\* when it is created.
ClaimWork(k) ==
  /\ work[k] = "QUEUED" \/ (work[k] = "RUNNING" /\ k \in workLate)
  /\ work' = [work EXCEPT ![k] = "RUNNING"]
  /\ workLate' = workLate \ {k}
  /\ UNCHANGED <<feedVars, cadenceVars>>

WorkLeaseLapses(k) ==
  /\ work[k] = "RUNNING" /\ k \notin workLate
  /\ workLate' = workLate \union {k}
  /\ UNCHANGED <<work, feedVars, cadenceVars>>

\* Mutant: the lease stays on the row of the completed item.
CompleteKeepingLease(k) ==
  /\ work[k] \in {"QUEUED", "RUNNING"}
  /\ work' = [work EXCEPT ![k] = "COMPLETE"]
  /\ processed' = IF k \in EventKeys THEN processed \union {k} ELSE processed
  /\ UNCHANGED <<workLate, snapshot, chain, seeing, cadenceVars>>

\* complete_work asks neither who completes nor whether anybody had claimed it.
CompleteWork(k) ==
  /\ work[k] \in {"QUEUED", "RUNNING"}
  /\ work' = [work EXCEPT ![k] = "COMPLETE"]
  /\ workLate' = workLate \ {k}
  /\ processed' = IF k \in EventKeys THEN processed \union {k} ELSE processed
  /\ UNCHANGED <<snapshot, chain, seeing, cadenceVars>>

-------------------------------------------------------------------------------
\* next_conversation: the first one in review order not reviewed this week.
NextConversation == {t \in Talks : reviewed[t] # window}

\* record_review, which anybody may call at any time.
RecordReview(t) ==
  /\ reviewed[t] # window
  /\ reviewed' = [reviewed EXCEPT ![t] = window]
  /\ UNCHANGED <<work, workLate, feedVars, window, planning>>

Enqueued(classes) ==
  [k \in WorkKeys |-> IF work[k] = "ABSENT" /\ k[1] \in classes /\ k[2] = window
                      THEN "QUEUED" ELSE work[k]]

\* ensure_scheduled_work asks whether a conversation is left to review.
PlanWindow ==
  /\ planning = "idle"
  /\ IF NextConversation # {}
     THEN planning' = "due" /\ work' = work
     ELSE planning' = "idle" /\ work' = Enqueued({"DEEP_SYNTHESIS"})
  /\ UNCHANGED <<workLate, feedVars, reviewed, window>>

\* ... and asks again for its key, before it writes anything.
EnqueueWindow ==
  /\ planning = "due"
  /\ NextConversation # {}
  /\ work' = Enqueued({"ORDINARY_REVIEW", "DEEP_SYNTHESIS"})
  /\ planning' = "idle"
  /\ UNCHANGED <<workLate, feedVars, reviewed, window>>

\* The last conversation was reviewed in between: subscripting None raises,
\* and run_forever ends until the daemon is started again.
EnqueueRaises ==
  /\ planning = "due"
  /\ NextConversation = {}
  /\ planning' = "stopped"
  /\ UNCHANGED <<work, workLate, feedVars, reviewed, window>>

DaemonRestarts ==
  /\ planning = "stopped"
  /\ planning' = "idle"
  /\ UNCHANGED <<work, workLate, feedVars, reviewed, window>>

WindowPasses ==
  /\ window < MaxWindow
  /\ window' = window + 1
  /\ UNCHANGED <<work, workLate, feedVars, reviewed, planning>>

WorkStep(k) == ClaimWork(k) \/ WorkLeaseLapses(k) \/ CompleteWork(k)

\* Change events with their work, and scheduled work: they meet in one table,
\* under different keys.
FeedNext ==
  \/ \E o \in Observers :
       \/ \E s \in Sources, c \in Contents : ObserveReads(o, s, c)
       \/ ObserveCommits(o)
       \/ ObserverDies(o)
  \/ \E k \in EventKeys : WorkStep(k)

CadenceNext ==
  \/ \E k \in WorkKeys \ EventKeys : WorkStep(k)
  \/ \E t \in Talks : RecordReview(t)
  \/ PlanWindow \/ EnqueueWindow \/ EnqueueRaises \/ DaemonRestarts \/ WindowPasses

IntelligenceNext == FeedNext \/ CadenceNext

IntelligenceSpec == IntelligenceInit /\ [][IntelligenceNext]_intelligenceVars

-------------------------------------------------------------------------------
\* What a source now holds was announced by an event, and that event was given
\* to the work queue: no interleaving of observers, crash between the halves of
\* observe() or return to an earlier content leaves a current content that
\* nobody was told of.
CurrentContentAnnounced ==
  \A s \in Sources : snapshot[s] # "none" =>
    Recorded(<<s, snapshot[s]>>) /\ work[<<s, snapshot[s]>>] # "ABSENT"

\* The event table is a chain for one observer; overlapping observers fork it,
\* because the previous hash is read before the transaction, but no wider than
\* their number, and every link leads to an earlier event.
ChainForksBounded ==
  /\ \A i \in DOMAIN chain :
       chain[i].prev = Genesis \/ \E h \in 1..(i - 1) : chain[h].key = chain[i].prev
  /\ \A e \in EventKeys \union {Genesis} :
       Cardinality({i \in DOMAIN chain : chain[i].prev = e}) <= Cardinality(Observers)
===============================================================================
