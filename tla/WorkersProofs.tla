----------------------------- MODULE WorkersProofs -----------------------------
(***************************************************************************)
(* Proofs about MCWorkers, for any contracts, budgets, clients, devices,   *)
(* tokens, handlers, request files, callers, scripts, jobs, observers,     *)
(* items and projects.  A component's inductive invariant is preserved by  *)
(* its own steps and untouched by those of the other components, so that   *)
(* it holds of the suite: DoneOnceOnly from OnceInv, NothingIsLost from    *)
(* KeptInv.                                                                *)
(***************************************************************************)
EXTENDS MCWorkers, NaturalLemmas, FiniteSetTheorems, SequenceTheorems, TLAPS

-------------------------------------------------------------------------------
(* The fleet controller: the loop of claim_next.                            *)

FleetRows == [status : Statuses, owner : Roles, attempts : Nat]
Passes == [table : [ContractIds -> FleetRows], claimed : SUBSET ContractIds]

\* One pass changes the row it is at, and adds an attempt only to one that
\* showed an attempt left.
LEMMA OnePass ==
  ASSUME NEW acc \in Passes, NEW c \in ContractIds, NEW attempts \in Nat, NEW role, NEW limit,
         NEW r, r = ClaimRow(role, limit, acc, c, attempts)
  PROVE  /\ r \in Passes
         /\ \A d \in ContractIds \ {c} : r.table[d] = acc.table[d]
         /\ r.table[c].attempts = acc.table[c].attempts
              \/ (attempts <= RetryBudget[c] /\ r.table[c].attempts = acc.table[c].attempts + 1)
<1>0. /\ acc.table \in [ContractIds -> FleetRows] /\ acc.table[c] \in FleetRows
      /\ acc.claimed \subseteq ContractIds /\ acc = [table |-> acc.table, claimed |-> acc.claimed]
      /\ RetryBudget[c] \in Nat
  BY FleetAssumption DEF Passes
<1>1. CASE r = acc
  BY <1>1
<1>2. CASE r = [acc EXCEPT !.table[c].status = "FAILED_PRESERVED"]
  <2>1. [acc.table[c] EXCEPT !.status = "FAILED_PRESERVED"] \in FleetRows
    BY <1>0 DEF FleetRows, Statuses
  <2>2. r = [table |-> [acc.table EXCEPT ![c] = [acc.table[c] EXCEPT !.status = "FAILED_PRESERVED"]],
             claimed |-> acc.claimed]
    BY <1>0, <1>2
  <2>3. [acc.table[c] EXCEPT !.status = "FAILED_PRESERVED"].attempts = acc.table[c].attempts
    BY <1>0 DEF FleetRows
  <2>. QED
    BY <1>0, <2>1, <2>2, <2>3 DEF Passes
<1>3. CASE /\ attempts <= RetryBudget[c]
           /\ r = [table |-> [acc.table EXCEPT ![c].status = "RUNNING", ![c].attempts = @ + 1],
                   claimed |-> acc.claimed \union {c}]
  <2>. DEFINE row == [status |-> "RUNNING", owner |-> acc.table[c].owner,
                      attempts |-> acc.table[c].attempts + 1]
  <2>1. row \in FleetRows /\ row.attempts = acc.table[c].attempts + 1
    BY <1>0 DEF FleetRows, Statuses
  <2>2. r.table = [acc.table EXCEPT ![c] = row]
    <3>1. acc.table[c] = [status |-> acc.table[c].status, owner |-> acc.table[c].owner,
                          attempts |-> acc.table[c].attempts]
      BY <1>0 DEF FleetRows
    <3>2. r.table = [acc.table EXCEPT ![c].status = "RUNNING", ![c].attempts = @ + 1]
      BY <1>3
    <3>. QED
      BY <1>0, <3>1, <3>2
  <2>3. r = [table |-> r.table, claimed |-> r.claimed] /\ r.claimed \subseteq ContractIds
    BY <1>0, <1>3
  <2>. HIDE DEF row
  <2>. QED
    BY <1>0, <1>3, <2>1, <2>2, <2>3 DEF Passes
<1>4. ~Spent(c, attempts) => attempts <= RetryBudget[c]
  BY <1>0 DEF Spent
<1>. QED
  BY <1>1, <1>2, <1>3, <1>4 DEF ClaimRow

\* claim_next's loop, as the sequence of what each pass leaves.
Shown(ranks) == [ranks -> Nat]
IsLoop(loop, role, limit, rows) ==
  /\ loop[0] = [table |-> contract, claimed |-> {}]
  /\ \A n \in 1..Len(Contracts) :
       loop[n] = IF n \in DOMAIN rows THEN ClaimRow(role, limit, loop[n - 1], Contracts[n], rows[n])
                 ELSE loop[n - 1]

LEMMA LoopUnfolds ==
  ASSUME FleetTypeOK, NEW role, NEW limit, NEW ranks \in SUBSET DOMAIN Contracts,
         NEW rows \in Shown(ranks)
  PROVE  IsLoop(ClaimLoop(role, limit, rows), role, limit, rows)
<1>. DEFINE loop == ClaimLoop(role, limit, rows)
            N == Len(Contracts)
            base == [table |-> contract, claimed |-> {}]
            pass(acc, n) == IF n \in DOMAIN rows THEN ClaimRow(role, limit, acc, Contracts[n], rows[n])
                            ELSE acc
            step == [x \in Passes \X (1..N) |-> pass(x[1], x[2])]
<1>. USE DEF Shown
<1>1. N \in Nat /\ base \in Passes
  BY FleetAssumption DEF FleetTypeOK, Passes, FleetRows
<1>2. step \in [Passes \X (1..N) -> Passes]
  <2>. SUFFICES ASSUME NEW acc \in Passes, NEW n \in 1..N PROVE pass(acc, n) \in Passes
    OBVIOUS
  <2>1. CASE n \in DOMAIN rows
    <3>1. Contracts[n] \in ContractIds /\ rows[n] \in Nat
      BY <2>1 DEF ContractIds
    <3>. QED
      BY <2>1, <3>1, OnePass
  <2>. QED
    BY <2>1
<1>3. PICK f \in [0..N -> Passes] : f[0] = base /\ \A n \in 1..N : f[n] = step[<<f[n - 1], n>>]
  <2>. HIDE DEF N, base, step
  <2>1. step \in Steps(Passes, N)
    BY <1>2 DEF Steps
  <2>2. Loops(Passes, base, N, step) # {}
    BY <1>1, <2>1, LoopExists
  <2>. QED
    BY <2>2 DEF Loops
<1>4. f = [n \in 0..N |-> IF n = 0 THEN base ELSE pass(f[n - 1], n)]
  <2>. SUFFICES ASSUME NEW n \in 0..N, n # 0 PROVE f[n] = pass(f[n - 1], n)
    BY <1>3
  <2>1. n \in 1..N /\ n - 1 \in 0..N
    BY <1>1
  <2>2. f[n - 1] \in Passes /\ f[n] = step[<<f[n - 1], n>>]
    BY <1>3, <2>1
  <2>. QED
    BY <2>1, <2>2
<1>5. loop = [n \in 0..N |-> IF n = 0 THEN base ELSE pass(loop[n - 1], n)]
  BY <1>4 DEF ClaimLoop
<1>6. loop[0] = base /\ \A n \in 1..N : loop[n] = pass(loop[n - 1], n)
  <2>1. 0 \in 0..N /\ \A n \in 1..N : n \in 0..N /\ n # 0
    BY <1>1
  <2>. HIDE DEF N, base, pass, loop
  <2>. QED
    BY <1>5, <2>1
<1>. QED
  BY <1>6 DEF IsLoop

\* The passes leave rows, and a row gets an attempt more at most once, in the
\* pass that is at it, and only if it showed one left when it was selected.
ClaimsOnce(done, ranks, rows) ==
  /\ done \in Passes
  /\ \A c \in ContractIds :
       \/ done.table[c].attempts = contract[c].attempts
       \/ /\ done.table[c].attempts = contract[c].attempts + 1
          /\ \E i \in ranks : Contracts[i] = c /\ rows[i] <= RetryBudget[c]

LEMMA LoopClaims ==
  ASSUME FleetTypeOK, NEW role, NEW limit, NEW ranks \in SUBSET DOMAIN Contracts,
         NEW rows \in Shown(ranks), NEW loop, loop = ClaimLoop(role, limit, rows)
  PROVE  ClaimsOnce(loop[Len(Contracts)], ranks, rows)
<1>. DEFINE N == Len(Contracts)
            HadOneLeft(c, m) == \E i \in ranks : i <= m /\ Contracts[i] = c /\ rows[i] <= RetryBudget[c]
            Good(m) == /\ loop[m] \in Passes
                       /\ \A c \in ContractIds :
                            \/ loop[m].table[c].attempts = contract[c].attempts
                            \/ /\ loop[m].table[c].attempts = contract[c].attempts + 1
                               /\ HadOneLeft(c, m)
            P == {m \in 0..N : Good(m)}
<1>0. N \in Nat /\ DOMAIN Contracts = 1..N
      /\ contract \in [ContractIds -> FleetRows]
  BY FleetAssumption DEF FleetTypeOK, FleetRows
<1>. USE DEF Shown
<1>1. /\ loop[0] = [table |-> contract, claimed |-> {}]
      /\ \A n \in 1..N :
           loop[n] = IF n \in ranks THEN ClaimRow(role, limit, loop[n - 1], Contracts[n], rows[n])
                     ELSE loop[n - 1]
  <2>1. IsLoop(loop, role, limit, rows) /\ DOMAIN rows = ranks
    BY LoopUnfolds DEF Shown
  <2>. QED
    BY <2>1 DEF IsLoop
<1>2. 0 \in P
  <2>1. loop[0] = [table |-> contract, claimed |-> {}] /\ 0 \in 0..N
    BY <1>0, <1>1
  <2>. QED
    BY <1>0, <2>1 DEF Passes
<1>3. ASSUME NEW m \in 1..N, m - 1 \in P
      PROVE  m \in P
  <2>0. m \in 0..N /\ m - 1 \in 0..N /\ m # 0 /\ Good(m - 1)
    BY <1>0, <1>3
  <2>1. CASE m \notin ranks
    <3>1. loop[m] = loop[m - 1]
      BY <1>1, <2>0, <2>1
    <3>2. \A c \in ContractIds : HadOneLeft(c, m - 1) => HadOneLeft(c, m)
      BY <1>0
    <3>. QED
      BY <2>0, <3>1, <3>2
  <2>2. CASE m \in ranks
    <3>. DEFINE b == Contracts[m]
    <3>1. b \in ContractIds /\ rows[m] \in Nat /\ loop[m - 1] \in Passes
      BY <1>0, <2>0, <2>2 DEF ContractIds
    <3>2. loop[m] = ClaimRow(role, limit, loop[m - 1], b, rows[m])
      BY <1>1, <2>0, <2>2
    <3>3. /\ loop[m] \in Passes
          /\ \A d \in ContractIds \ {b} : loop[m].table[d] = loop[m - 1].table[d]
          /\ loop[m].table[b].attempts = loop[m - 1].table[b].attempts
               \/ (rows[m] <= RetryBudget[b]
                     /\ loop[m].table[b].attempts = loop[m - 1].table[b].attempts + 1)
      <4>. HIDE DEF b
      <4>. QED
        BY <3>1, <3>2, OnePass
    <3>4. ~HadOneLeft(b, m - 1)
      BY <1>0, <2>2, FleetAssumption
    <3>5. rows[m] <= RetryBudget[b] => HadOneLeft(b, m)
      BY <1>0, <2>2
    <3>6. \A c \in ContractIds : HadOneLeft(c, m - 1) => HadOneLeft(c, m)
      BY <1>0
    <3>. HIDE DEF HadOneLeft, b
    <3>7. Good(m)
      BY <2>0, <3>1, <3>3, <3>4, <3>5, <3>6
    <3>. QED
      BY <2>0, <3>7
  <2>. QED
    BY <2>1, <2>2
<1>4. N \in P
  <2>1. P \in SUBSET (0..N) /\ N \in 0..N
    BY <1>0
  <2>. HIDE DEF P, N
  <2>. QED
    BY <1>0, <1>2, <1>3, <2>1, BoundedInduction
<1>. QED
  BY <1>4 DEF ClaimsOnce

-------------------------------------------------------------------------------
(* The fleet controller: the invariant.                                     *)

ResultRows == [role : Roles, status : ReportedStatuses, verdicts : SUBSET VerdictValues]

\* The clients that are about to claim a contract and saw an attempt left.
Claimers(c) ==
  {p \in Clients : /\ call[p].op = "claim"
                   /\ \E i \in DOMAIN call[p].rows : Contracts[i] = c /\ call[p].rows[i] <= RetryBudget[c]}

\* What has been tried and what is about to be: each client adds one at most.
ClaimsCounted ==
  \A c \in ContractIds :
    contract[c].attempts + Cardinality(Claimers(c)) <= RetryBudget[c] + Cardinality(Clients)

JudgedResultExists ==
  \A p \in Clients : call[p].op = "verdict" => call[p].n \in DOMAIN results[call[p].id]

FleetInv == FleetTypeOK /\ ClaimsCounted /\ JudgedResultExists /\ JudgedOnce

LEMMA FleetColumns ==
  ASSUME FleetTypeOK
  PROVE  /\ contract \in [ContractIds -> FleetRows] /\ leaseOut \subseteq ContractIds
         /\ results \in [ContractIds -> Seq(ResultRows)]
         /\ \A c \in ContractIds : Len(results[c]) \in Nat /\ contract[c].attempts \in Nat /\ RetryBudget[c] \in Nat
         /\ contracted \in BOOLEAN
         /\ call = [p \in Clients |-> call[p]] /\ DOMAIN call = Clients
         /\ \A p \in Clients : IsCall(call[p])
<1>1. contract \in [ContractIds -> FleetRows] /\ leaseOut \subseteq ContractIds /\ contracted \in BOOLEAN
  BY DEF FleetTypeOK, FleetRows
<1>2. results \in [ContractIds -> Seq(ResultRows)]
  BY DEF FleetTypeOK, ResultRows
<1>3. ASSUME NEW c \in ContractIds
      PROVE  Len(results[c]) \in Nat /\ contract[c].attempts \in Nat /\ RetryBudget[c] \in Nat
  <2>1. results[c] \in Seq(ResultRows) /\ contract[c] \in FleetRows
    BY <1>1, <1>2
  <2>2. contract[c].attempts \in Nat
    BY <2>1 DEF FleetRows
  <2>3. Len(results[c]) \in Nat
    BY <2>1
  <2>4. RetryBudget[c] \in Nat
    BY FleetAssumption
  <2>. QED
    BY <2>2, <2>3, <2>4
<1>4. call = [p \in Clients |-> call[p]] /\ \A p \in Clients : IsCall(call[p])
  BY DEF FleetTypeOK
<1>5. DOMAIN call = Clients
  BY <1>4
<1>. QED
  BY <1>1, <1>2, <1>3, <1>4, <1>5

LEMMA ClaimersFew ==
  ASSUME NEW c
  PROVE  /\ IsFiniteSet(Claimers(c)) /\ Cardinality(Claimers(c)) \in Nat /\ Cardinality(Clients) \in Nat
         /\ Cardinality(Claimers(c)) <= Cardinality(Clients)
<1>1. Claimers(c) \subseteq Clients /\ IsFiniteSet(Clients)
  BY FleetAssumption DEF Claimers
<1>. QED
  BY <1>1, FS_Subset, FS_CardinalityType

\* Steps that claim nothing.
LEMMA NoClaim ==
  ASSUME FleetTypeOK, ClaimsCounted,
         \A c \in ContractIds : contract'[c].attempts = contract[c].attempts /\ Claimers(c)' \subseteq Claimers(c)
  PROVE  ClaimsCounted'
<1>. SUFFICES ASSUME NEW c \in ContractIds
              PROVE  contract'[c].attempts + Cardinality(Claimers(c)') <= RetryBudget[c] + Cardinality(Clients)
  BY DEF ClaimsCounted
<1>1. Cardinality(Claimers(c)') <= Cardinality(Claimers(c)) /\ Cardinality(Claimers(c)') \in Nat
  BY ClaimersFew, FS_Subset, FS_CardinalityType
<1>2. contract[c].attempts + Cardinality(Claimers(c)) <= RetryBudget[c] + Cardinality(Clients)
  BY DEF ClaimsCounted
<1>3. /\ contract[c].attempts \in Nat /\ RetryBudget[c] \in Nat /\ Cardinality(Clients) \in Nat
      /\ Cardinality(Claimers(c)) \in Nat
  BY FleetColumns, ClaimersFew
<1>. QED
  BY <1>1, <1>2, <1>3

\* A call begins that is no claim, or ends.
LEMMA OtherCall ==
  ASSUME FleetTypeOK, NEW p \in Clients, NEW k, call' = [call EXCEPT ![p] = k], k.op # "claim"
  PROVE  /\ \A c : Claimers(c)' \subseteq Claimers(c)
         /\ call' = [q \in Clients |-> call'[q]]
         /\ IsCall(k) => \A q \in Clients : IsCall(call'[q])
         /\ call'[p] = k /\ \A q \in Clients \ {p} : call'[q] = call[q]
<1>1. call'[p] = k /\ \A q \in Clients \ {p} : call'[q] = call[q]
  BY FleetColumns
<1>2. call' = [q \in Clients |-> call'[q]]
  BY FleetColumns
<1>3. \A c : Claimers(c)' \subseteq Claimers(c)
  BY <1>1 DEF Claimers
<1>4. IsCall(k) => \A q \in Clients : IsCall(call'[q])
  BY <1>1, FleetColumns
<1>. QED
  BY <1>1, <1>2, <1>3, <1>4

\* The judged result stays where it is while results are only appended to.
LEMMA ResultsStay ==
  ASSUME JudgedResultExists, UNCHANGED results,
         NEW p \in Clients, NEW k, \A q \in Clients \ {p} : call'[q] = call[q],
         call'[p] = k, k.op = "verdict" => k.n \in DOMAIN results[k.id]
  PROVE  JudgedResultExists'
BY DEF JudgedResultExists

LEMMA ClaimStart == ASSUME FleetInv, NEW p \in Clients, NEW role \in Roles, ClaimSelects(p, role) PROVE FleetInv'
<1>. DEFINE ranks == OpenRanks(role)
            rows == [i \in ranks |-> contract[Contracts[i]].attempts]
            k == [op |-> "claim", role |-> role, rows |-> rows]
<1>0. FleetTypeOK /\ UNCHANGED <<contract, leaseOut, results, contracted>>
      /\ call[p] = NoCall /\ call' = [call EXCEPT ![p] = k]
  BY DEF FleetInv, ClaimSelects
<1>1. ranks \in SUBSET DOMAIN Contracts /\ rows \in [ranks -> Nat]
  <2>1. ranks \in SUBSET DOMAIN Contracts /\ \A i \in ranks : Contracts[i] \in ContractIds
    BY DEF OpenRanks, ContractIds
  <2>. QED
    BY <1>0, <2>1, FleetColumns
<1>2. call'[p] = k /\ \A q \in Clients \ {p} : call'[q] = call[q]
  BY <1>0, FleetColumns
<1>3. IsCall(k)
  <2>. HIDE DEF ranks, rows
  <2>. QED
    BY <1>1 DEF IsCall
<1>4. FleetTypeOK'
  <2>1. call' = [q \in Clients |-> call'[q]]
    BY <1>0, FleetColumns
  <2>2. \A q \in Clients : IsCall(call'[q])
    <3>. HIDE DEF k
    <3>. QED
      BY <1>0, <1>2, <1>3, FleetColumns
  <2>. QED
    BY <1>0, <2>1, <2>2 DEF FleetTypeOK, IsCall
<1>5. ASSUME NEW c \in ContractIds
      PROVE  contract'[c].attempts + Cardinality(Claimers(c)') <= RetryBudget[c] + Cardinality(Clients)
  <2>0. /\ contract'[c].attempts = contract[c].attempts /\ contract[c].attempts \in Nat
        /\ RetryBudget[c] \in Nat /\ Cardinality(Clients) \in Nat
    BY <1>0, FleetColumns, ClaimersFew
  <2>1. CASE contract[c].attempts <= RetryBudget[c]
    <3>1. Claimers(c)' \subseteq Clients
      BY DEF Claimers
    <3>2. Cardinality(Claimers(c)') <= Cardinality(Clients) /\ Cardinality(Claimers(c)') \in Nat
      BY <3>1, FleetAssumption, FS_Subset, FS_CardinalityType
    <3>. QED
      BY <2>0, <2>1, <3>2
  <2>2. CASE ~(contract[c].attempts <= RetryBudget[c])
    <3>1. Claimers(c)' \subseteq Claimers(c)
      <4>1. ASSUME NEW i \in ranks, Contracts[i] = c
            PROVE  ~(k.rows[i] <= RetryBudget[c])
        BY <2>2, <4>1
      <4>2. p \notin Claimers(c)'
        <5>1. DOMAIN k.rows = ranks
          OBVIOUS
        <5>. HIDE DEF k
        <5>. QED
          BY <1>2, <4>1, <5>1 DEF Claimers
      <4>. QED
        BY <1>2, <4>2 DEF Claimers
    <3>2. Cardinality(Claimers(c)') <= Cardinality(Claimers(c)) /\ Cardinality(Claimers(c)') \in Nat
      BY <3>1, ClaimersFew, FS_Subset, FS_CardinalityType
    <3>3. contract[c].attempts + Cardinality(Claimers(c)) <= RetryBudget[c] + Cardinality(Clients)
      BY DEF FleetInv, ClaimsCounted
    <3>4. Cardinality(Claimers(c)) \in Nat
      BY ClaimersFew
    <3>. QED
      BY <2>0, <3>2, <3>3, <3>4
  <2>. QED
    BY <2>1, <2>2
<1>6. ClaimsCounted'
  BY <1>5 DEF ClaimsCounted
<1>7. JudgedResultExists'
  BY <1>0, <1>2 DEF FleetInv, JudgedResultExists
<1>. QED
  BY <1>0, <1>4, <1>6, <1>7 DEF FleetInv, JudgedOnce

LEMMA ClaimEnd == ASSUME FleetInv, NEW p \in Clients, NEW limit, ClaimCommits(p, limit) PROVE FleetInv'
<1>. DEFINE k == call[p]
            done == ClaimLoop(k.role, limit, k.rows)[Len(Contracts)]
<1>0. /\ FleetTypeOK /\ k.op = "claim" /\ contract' = done.table /\ leaseOut' = leaseOut \ done.claimed
      /\ call' = [call EXCEPT ![p] = NoCall] /\ UNCHANGED <<results, contracted>>
  BY DEF FleetInv, ClaimCommits
<1>1. PICK ranks \in SUBSET DOMAIN Contracts : k.rows \in [ranks -> Nat] /\ k.role \in Roles
  <2>1. IsCall(k) /\ k # NoCall /\ k \notin ResultCalls /\ k \notin VerdictCalls
    BY <1>0, FleetColumns DEF NoCall, ResultCalls, VerdictCalls
  <2>. HIDE DEF k
  <2>. QED
    BY <2>1 DEF IsCall
<1>2. /\ done \in Passes
      /\ \A c \in ContractIds :
           \/ done.table[c].attempts = contract[c].attempts
           \/ /\ done.table[c].attempts = contract[c].attempts + 1
              /\ \E i \in ranks : Contracts[i] = c /\ k.rows[i] <= RetryBudget[c]
  <2>. DEFINE role == k.role
              rows == k.rows
              loop == ClaimLoop(role, limit, rows)
  <2>1. rows \in Shown(ranks)
    BY <1>1 DEF Shown
  <2>2. done = loop[Len(Contracts)]
    OBVIOUS
  <2>. HIDE DEF k, done, role, rows, loop
  <2>3. loop = ClaimLoop(role, limit, rows)
    BY DEF loop
  <2>4. ClaimsOnce(loop[Len(Contracts)], ranks, rows)
    BY <1>0, <1>1, <2>1, <2>3, LoopClaims
  <2>. QED
    BY <2>2, <2>4 DEF rows, ClaimsOnce
<1>3. /\ \A c : Claimers(c)' \subseteq Claimers(c) /\ p \notin Claimers(c)'
      /\ call' = [q \in Clients |-> call'[q]] /\ \A q \in Clients : IsCall(call'[q])
      /\ call'[p] = NoCall /\ \A q \in Clients \ {p} : call'[q] = call[q]
  <2>1. NoCall.op # "claim" /\ IsCall(NoCall)
    BY DEF NoCall, IsCall
  <2>2. /\ \A c : Claimers(c)' \subseteq Claimers(c)
        /\ call' = [q \in Clients |-> call'[q]] /\ \A q \in Clients : IsCall(call'[q])
        /\ call'[p] = NoCall /\ \A q \in Clients \ {p} : call'[q] = call[q]
    BY <1>0, <2>1, OtherCall
  <2>. QED
    BY <2>1, <2>2 DEF Claimers
<1>4. FleetTypeOK'
  <2>1. contract' \in [ContractIds -> FleetRows] /\ leaseOut' \subseteq ContractIds
    BY <1>0, <1>2, FleetColumns DEF Passes
  <2>. QED
    BY <1>0, <1>3, <2>1 DEF FleetTypeOK, FleetRows, IsCall
<1>5. ASSUME NEW c \in ContractIds
      PROVE  contract'[c].attempts + Cardinality(Claimers(c)') <= RetryBudget[c] + Cardinality(Clients)
  <2>0. /\ contract[c].attempts \in Nat /\ RetryBudget[c] \in Nat /\ Cardinality(Clients) \in Nat
        /\ Cardinality(Claimers(c)) \in Nat /\ IsFiniteSet(Claimers(c))
        /\ contract[c].attempts + Cardinality(Claimers(c)) <= RetryBudget[c] + Cardinality(Clients)
    BY <1>0, FleetColumns, ClaimersFew DEF FleetInv, ClaimsCounted
  <2>1. Cardinality(Claimers(c)') <= Cardinality(Claimers(c)) /\ Cardinality(Claimers(c)') \in Nat
        /\ (Cardinality(Claimers(c)') = Cardinality(Claimers(c)) => Claimers(c)' = Claimers(c))
    BY <1>3, <2>0, FS_Subset, FS_CardinalityType
  <2>2. CASE contract'[c].attempts = contract[c].attempts
    BY <2>0, <2>1, <2>2
  <2>3. CASE /\ contract'[c].attempts = contract[c].attempts + 1
             /\ \E i \in ranks : Contracts[i] = c /\ k.rows[i] <= RetryBudget[c]
    <3>1. p \in Claimers(c)
      BY <1>0, <1>1, <2>3 DEF Claimers
    <3>2. Cardinality(Claimers(c)') < Cardinality(Claimers(c))
      BY <1>3, <2>0, <2>1, <3>1
    <3>. QED
      BY <2>0, <2>1, <2>3, <3>2
  <2>. QED
    BY <1>0, <1>2, <2>2, <2>3
<1>6. ClaimsCounted'
  BY <1>5 DEF ClaimsCounted
<1>7. JudgedResultExists'
  BY <1>0, <1>3 DEF FleetInv, JudgedResultExists, NoCall
<1>. QED
  BY <1>0, <1>4, <1>6, <1>7 DEF FleetInv, JudgedOnce


\* What a result or a verdict does to the contract's row: the status and the
\* owner change, never attempt_count.
LEMMA NewStatus ==
  ASSUME FleetTypeOK, NEW c \in ContractIds, NEW s \in Statuses,
         contract' = [contract EXCEPT ![c].status = s]
  PROVE  /\ contract' \in [ContractIds -> FleetRows]
         /\ \A d \in ContractIds : contract'[d].attempts = contract[d].attempts
<1>1. contract \in [ContractIds -> FleetRows]
  BY FleetColumns
<1>. QED
  BY <1>1 DEF FleetRows

LEMMA NewHolder ==
  ASSUME FleetTypeOK, NEW c \in ContractIds, NEW s \in Statuses, NEW role \in Roles,
         contract' = [contract EXCEPT ![c].status = s, ![c].owner = role]
  PROVE  /\ contract' \in [ContractIds -> FleetRows]
         /\ \A d \in ContractIds : contract'[d].attempts = contract[d].attempts
<1>1. contract \in [ContractIds -> FleetRows]
  BY FleetColumns
<1>. QED
  BY <1>1 DEF FleetRows

LEMMA HandoffRow ==
  ASSUME FleetTypeOK, NEW c \in ContractIds, NEW role \in Roles, contract' = Handoff(c, role)
  PROVE  /\ contract' \in [ContractIds -> FleetRows]
         /\ \A d \in ContractIds : contract'[d].attempts = contract[d].attempts
<1>1. contract' = [contract EXCEPT ![c].status = "READY", ![c].owner = role]
  BY DEF Handoff
<1>2. "READY" \in Statuses
  BY DEF Statuses
<1>. QED
  BY <1>1, <1>2, NewHolder

LEMMA NewStanding ==
  ASSUME FleetTypeOK, NEW c \in ContractIds, NEW status \in ReportedStatuses,
         contract' = IF status = "AWAITING" THEN Handoff(c, "JUDGE")
                     ELSE IF status = "PARTIAL" THEN [contract EXCEPT ![c].status = "READY"]
                     ELSE [contract EXCEPT ![c].status = status]
  PROVE  /\ contract' \in [ContractIds -> FleetRows]
         /\ \A d \in ContractIds : contract'[d].attempts = contract[d].attempts
<1>1. CASE status = "AWAITING"
  <2>1. contract' = Handoff(c, "JUDGE") /\ "JUDGE" \in Roles
    BY <1>1 DEF Roles
  <2>. QED
    BY <2>1, HandoffRow
<1>2. CASE status # "AWAITING"
  <2>1. PICK s \in Statuses : contract' = [contract EXCEPT ![c].status = s]
    BY <1>2 DEF ReportedStatuses, Statuses, SuccessStates
  <2>. QED
    BY <2>1, NewStatus
<1>. QED
  BY <1>1, <1>2

LEMMA NewOwner ==
  ASSUME FleetTypeOK, NEW c \in ContractIds, NEW v \in VerdictValues,
         contract' = IF v = "VERIFICATION_FAILED" THEN Handoff(c, "BUILDER")
                     ELSE IF v = "VERIFIED" /\ OnVerified[c] # "NONE" THEN Handoff(c, OnVerified[c])
                     ELSE [contract EXCEPT ![c].status = v, ![c].owner = "JUDGE"]
  PROVE  /\ contract' \in [ContractIds -> FleetRows]
         /\ \A d \in ContractIds : contract'[d].attempts = contract[d].attempts
<1>1. ASSUME NEW role \in Roles, contract' = Handoff(c, role)
      PROVE  /\ contract' \in [ContractIds -> FleetRows]
             /\ \A d \in ContractIds : contract'[d].attempts = contract[d].attempts
  BY <1>1, HandoffRow
<1>2. CASE v = "VERIFICATION_FAILED"
  BY <1>1, <1>2 DEF Roles
<1>3. CASE v = "VERIFIED" /\ OnVerified[c] # "NONE"
  BY <1>1, <1>3, FleetAssumption
<1>4. CASE v # "VERIFICATION_FAILED" /\ ~(v = "VERIFIED" /\ OnVerified[c] # "NONE")
  <2>1. contract' = [contract EXCEPT ![c].status = v, ![c].owner = "JUDGE"] /\ v \in Statuses /\ "JUDGE" \in Roles
    BY <1>4 DEF VerdictValues, Statuses, SuccessStates, Roles
  <2>. QED
    BY <2>1, NewHolder
<1>. QED
  BY <1>2, <1>3, <1>4

\* A judge is in the middle of a verdict on a result that is there.
LEMMA JudgedCall ==
  ASSUME FleetTypeOK, JudgedResultExists, NEW p \in Clients, call[p].op = "verdict"
  PROVE  call[p].id \in ContractIds /\ call[p].n \in DOMAIN results[call[p].id]
<1>. DEFINE k == call[p]
<1>1. IsCall(k) /\ k # NoCall /\ k \notin ResultCalls
  BY FleetColumns DEF NoCall, ResultCalls
<1>2. k \in VerdictCalls
  <2>. HIDE DEF k
  <2>1. k.op = "verdict"
    BY DEF k
  <2>. QED
    BY <1>1, <2>1 DEF IsCall
<1>. QED
  BY <1>2 DEF VerdictCalls, JudgedResultExists

LEMMA ResultEnd ==
  ASSUME FleetInv, NEW p \in Clients, NEW status \in ReportedStatuses, ResultCommits(p, status)
  PROVE  FleetInv'
<1>. DEFINE c == call[p].id
            row == [role |-> call[p].role, status |-> status, verdicts |-> {}]
<1>0. /\ FleetTypeOK /\ call[p].op = "result" /\ UNCHANGED contracted
      /\ results' = [results EXCEPT ![c] = Append(@, row)] /\ leaseOut' = leaseOut \ {c}
      /\ contract' = IF status = "AWAITING" THEN Handoff(c, "JUDGE")
                     ELSE IF status = "PARTIAL" THEN [contract EXCEPT ![c].status = "READY"]
                     ELSE [contract EXCEPT ![c].status = status]
      /\ call' = [call EXCEPT ![p] = NoCall]
  BY DEF FleetInv, ResultCommits
<1>1. c \in ContractIds /\ call[p].role \in Roles
  <2>. DEFINE k == call[p]
  <2>1. IsCall(k) /\ k # NoCall /\ k \notin VerdictCalls /\ k.op = "result"
    BY <1>0, FleetColumns DEF NoCall, VerdictCalls
  <2>2. k \in ResultCalls
    <3>. HIDE DEF k
    <3>. QED
      BY <2>1 DEF IsCall
  <2>. QED
    BY <2>2 DEF ResultCalls
<1>. HIDE DEF c
<1>2. /\ contract' \in [ContractIds -> FleetRows]
      /\ \A d \in ContractIds : contract'[d].attempts = contract[d].attempts
  BY <1>0, <1>1, NewStanding
<1>3. /\ \A d : Claimers(d)' \subseteq Claimers(d) /\ call' = [q \in Clients |-> call'[q]]
      /\ \A q \in Clients : IsCall(call'[q])
      /\ call'[p] = NoCall /\ \A q \in Clients \ {p} : call'[q] = call[q]
  <2>1. NoCall.op # "claim" /\ IsCall(NoCall)
    BY DEF NoCall, IsCall
  <2>. QED
    BY <1>0, <2>1, OtherCall
<1>4. row \in ResultRows /\ Cardinality(row.verdicts) = 0
  BY <1>1, FS_EmptySet DEF ResultRows
<1>. HIDE DEF row
<1>5. /\ results' \in [ContractIds -> Seq(ResultRows)]
      /\ \A d \in ContractIds \ {c} : results'[d] = results[d]
      /\ DOMAIN results[c] \subseteq DOMAIN results'[c]
      /\ \A n \in DOMAIN results'[c] : results'[c][n] = row
             \/ (n \in DOMAIN results[c] /\ results'[c][n] = results[c][n])
  <2>1. results \in [ContractIds -> Seq(ResultRows)]
    BY <1>0, FleetColumns
  <2>2. results[c] \in Seq(ResultRows) /\ results'[c] = Append(results[c], row)
    BY <1>0, <1>1, <2>1
  <2>. QED
    BY <1>0, <1>1, <1>4, <2>1, <2>2
<1>6. FleetTypeOK'
  <2>1. leaseOut' \subseteq ContractIds /\ contracted' \in BOOLEAN
    BY <1>0, FleetColumns
  <2>. QED
    BY <1>2, <1>3, <1>5, <2>1 DEF FleetTypeOK, FleetRows, ResultRows, IsCall
<1>7. ClaimsCounted'
  BY <1>0, <1>2, <1>3, NoClaim DEF FleetInv
<1>8. JudgedResultExists'
  <2>. SUFFICES ASSUME NEW q \in Clients, call'[q].op = "verdict"
                PROVE  call'[q].n \in DOMAIN results'[call'[q].id]
    BY DEF JudgedResultExists
  <2>1. q # p /\ call'[q] = call[q]
    BY <1>3 DEF NoCall
  <2>2. call[q].n \in DOMAIN results[call[q].id] /\ call[q].id \in ContractIds
    BY <1>0, <2>1, JudgedCall DEF FleetInv
  <2>. QED
    BY <1>5, <2>1, <2>2
<1>9. JudgedOnce'
  BY <1>4, <1>5 DEF FleetInv, JudgedOnce
<1>. QED
  BY <1>6, <1>7, <1>8, <1>9 DEF FleetInv

LEMMA VerdictEnd ==
  ASSUME FleetInv, NEW p \in Clients, NEW v \in VerdictValues, VerdictCommits(p, v)
  PROVE  FleetInv'
<1>. DEFINE c == call[p].id
            n == call[p].n
<1>0. /\ FleetTypeOK /\ call[p].op = "verdict" /\ results[c][n].verdicts = {}
      /\ UNCHANGED contracted /\ leaseOut' = leaseOut \ {c}
      /\ results' = [results EXCEPT ![c][n].verdicts = @ \union {v}]
      /\ contract' = IF v = "VERIFICATION_FAILED" THEN Handoff(c, "BUILDER")
                     ELSE IF v = "VERIFIED" /\ OnVerified[c] # "NONE" THEN Handoff(c, OnVerified[c])
                     ELSE [contract EXCEPT ![c].status = v, ![c].owner = "JUDGE"]
      /\ call' = [call EXCEPT ![p] = NoCall]
  BY DEF FleetInv, VerdictCommits, Insertable
<1>1. c \in ContractIds /\ n \in DOMAIN results[c]
  BY <1>0, JudgedCall DEF FleetInv
<1>. HIDE DEF c, n
<1>2. /\ contract' \in [ContractIds -> FleetRows]
      /\ \A d \in ContractIds : contract'[d].attempts = contract[d].attempts
  BY <1>0, <1>1, NewOwner
<1>3. /\ \A d : Claimers(d)' \subseteq Claimers(d) /\ call' = [q \in Clients |-> call'[q]]
      /\ \A q \in Clients : IsCall(call'[q])
      /\ call'[p] = NoCall /\ \A q \in Clients \ {p} : call'[q] = call[q]
  <2>1. NoCall.op # "claim" /\ IsCall(NoCall)
    BY DEF NoCall, IsCall
  <2>. QED
    BY <1>0, <2>1, OtherCall
<1>. DEFINE old == results[c][n]
            row == [role |-> old.role, status |-> old.status, verdicts |-> {v}]
<1>4. old \in ResultRows /\ results[c] \in Seq(ResultRows) /\ results \in [ContractIds -> Seq(ResultRows)]
  <2>1. results \in [ContractIds -> Seq(ResultRows)]
    BY <1>0, FleetColumns
  <2>2. results[c] \in Seq(ResultRows)
    BY <1>1, <2>1
  <2>. QED
    BY <1>1, <2>1, <2>2
<1>5. row \in ResultRows /\ Cardinality(row.verdicts) = 1
  BY <1>4, FS_Singleton DEF ResultRows
<1>6. results' = [results EXCEPT ![c] = [results[c] EXCEPT ![n] = row]]
  <2>1. old = [role |-> old.role, status |-> old.status, verdicts |-> {}]
    BY <1>0, <1>4 DEF ResultRows
  <2>2. [old EXCEPT !.verdicts = @ \union {v}] = row
    BY <2>1
  <2>3. results' = [results EXCEPT ![c] = [results[c] EXCEPT ![n] = [old EXCEPT !.verdicts = @ \union {v}]]]
    BY <1>0, <1>1, <1>4
  <2>. QED
    BY <2>2, <2>3
<1>. HIDE DEF row, old
<1>7. /\ results' \in [ContractIds -> Seq(ResultRows)]
      /\ \A d \in ContractIds : DOMAIN results'[d] = DOMAIN results[d]
      /\ \A d \in ContractIds : \A i \in DOMAIN results'[d] : results'[d][i] = row \/ results'[d][i] = results[d][i]
  BY <1>1, <1>4, <1>5, <1>6
<1>8. FleetTypeOK'
  <2>1. leaseOut' \subseteq ContractIds /\ contracted' \in BOOLEAN
    BY <1>0, FleetColumns
  <2>. QED
    BY <1>2, <1>3, <1>7, <2>1 DEF FleetTypeOK, FleetRows, ResultRows, IsCall
<1>9. ClaimsCounted'
  BY <1>0, <1>2, <1>3, NoClaim DEF FleetInv
<1>10. JudgedResultExists'
  <2>. SUFFICES ASSUME NEW q \in Clients, call'[q].op = "verdict"
                PROVE  call'[q].n \in DOMAIN results'[call'[q].id]
    BY DEF JudgedResultExists
  <2>1. q # p /\ call'[q] = call[q]
    BY <1>3 DEF NoCall
  <2>2. call[q].n \in DOMAIN results[call[q].id] /\ call[q].id \in ContractIds
    BY <1>0, <2>1, JudgedCall DEF FleetInv
  <2>. QED
    BY <1>7, <2>1, <2>2
<1>11. JudgedOnce'
  BY <1>5, <1>7 DEF FleetInv, JudgedOnce
<1>. QED
  BY <1>8, <1>9, <1>10, <1>11 DEF FleetInv

\* The calls that begin with no claim, and those that end without an effect.
LEMMA CallOnly ==
  ASSUME FleetInv, NEW p \in Clients, NEW k, call' = [call EXCEPT ![p] = k], IsCall(k), k.op # "claim",
         k.op = "verdict" => k.n \in DOMAIN results[k.id],
         UNCHANGED <<contract, leaseOut, results, contracted>>
  PROVE  FleetInv'
<1>1. /\ \A d : Claimers(d)' \subseteq Claimers(d) /\ call' = [q \in Clients |-> call'[q]]
      /\ \A q \in Clients : IsCall(call'[q])
      /\ call'[p] = k /\ \A q \in Clients \ {p} : call'[q] = call[q]
  BY OtherCall DEF FleetInv
<1>2. FleetTypeOK'
  BY <1>1 DEF FleetInv, FleetTypeOK, IsCall
<1>3. ClaimsCounted'
  BY <1>1, NoClaim DEF FleetInv
<1>4. JudgedResultExists'
  BY <1>1, ResultsStay DEF FleetInv
<1>. QED
  BY <1>2, <1>3, <1>4 DEF FleetInv, JudgedOnce

LEMMA FleetStep == FleetInv /\ [FleetNext]_fleetVars => FleetInv'
<1>. SUFFICES ASSUME FleetInv, [FleetNext]_fleetVars PROVE FleetInv'
  OBVIOUS
<1>0. CASE UNCHANGED fleetVars
  BY <1>0 DEF fleetVars, FleetInv, FleetTypeOK, ClaimsCounted, Claimers, JudgedResultExists, JudgedOnce, IsCall
<1>1. ASSUME NEW c \in ContractIds, CreateContract(c) PROVE FleetInv'
  <2>0. /\ FleetTypeOK /\ contract' = [contract EXCEPT ![c].status = "READY"]
        /\ UNCHANGED <<leaseOut, results, contracted, call>>
    BY <1>1 DEF FleetInv, CreateContract
  <2>1. /\ contract' \in [ContractIds -> FleetRows]
        /\ \A d \in ContractIds : contract'[d].attempts = contract[d].attempts
    BY <2>0, NewStatus DEF Statuses
  <2>2. FleetTypeOK'
    BY <2>0, <2>1 DEF FleetTypeOK, FleetRows, IsCall
  <2>3. ClaimsCounted'
    BY <2>0, <2>1, NoClaim DEF FleetInv, Claimers
  <2>. QED
    BY <2>0, <2>2, <2>3 DEF FleetInv, JudgedResultExists, JudgedOnce
<1>2. ASSUME NEW c \in ContractIds, ContractLeaseLapses(c) PROVE FleetInv'
  BY <1>2 DEF ContractLeaseLapses, FleetInv, FleetTypeOK, ClaimsCounted, Claimers, JudgedResultExists,
              JudgedOnce, IsCall
<1>3. CASE ErrorBudgetChanges
  BY <1>3 DEF ErrorBudgetChanges, FleetInv, FleetTypeOK, ClaimsCounted, Claimers, JudgedResultExists,
              JudgedOnce, IsCall
<1>4. ASSUME NEW p \in Clients, NEW c \in ContractIds, NEW role \in Roles, ResultReads(p, c, role)
      PROVE  FleetInv'
  <2>. DEFINE k == [op |-> "result", id |-> c, role |-> role]
  <2>1. IsCall(k) /\ k.op = "result"
    BY DEF IsCall, ResultCalls
  <2>2. call' = [call EXCEPT ![p] = k] /\ UNCHANGED <<contract, leaseOut, results, contracted>>
    BY <1>4 DEF ResultReads
  <2>. HIDE DEF k
  <2>. QED
    BY <2>1, <2>2, CallOnly
<1>5. ASSUME NEW p \in Clients, NEW c \in ContractIds, NEW n \in DOMAIN results[c], VerdictReads(p, c, n)
      PROVE  FleetInv'
  <2>. DEFINE k == [op |-> "verdict", id |-> c, n |-> n]
  <2>1. n \in Nat
    <3>1. results[c] \in Seq(ResultRows)
      BY FleetColumns DEF FleetInv
    <3>. QED
      BY <3>1
  <2>2. IsCall(k) /\ k.op = "verdict" /\ k.n \in DOMAIN results[k.id]
    BY <2>1 DEF IsCall, VerdictCalls
  <2>3. call' = [call EXCEPT ![p] = k] /\ UNCHANGED <<contract, leaseOut, results, contracted>>
    BY <1>5 DEF VerdictReads
  <2>. HIDE DEF k
  <2>. QED
    BY <2>2, <2>3, CallOnly
<1>6. ASSUME NEW p \in Clients, VerdictRefused(p) \/ ClientDies(p) PROVE FleetInv'
  <2>1. IsCall(NoCall) /\ NoCall.op = "none"
    BY DEF IsCall, NoCall
  <2>2. call' = [call EXCEPT ![p] = NoCall] /\ UNCHANGED <<contract, leaseOut, results, contracted>>
    BY <1>6 DEF VerdictRefused, ClientDies
  <2>. QED
    BY <2>1, <2>2, CallOnly
<1>. QED
  BY <1>0, <1>1, <1>2, <1>3, <1>4, <1>5, <1>6, ClaimStart, ClaimEnd, ResultEnd, VerdictEnd DEF FleetNext

LEMMA FleetStart == FleetInit => FleetInv
<1>. SUFFICES ASSUME FleetInit PROVE FleetInv
  OBVIOUS
<1>1. FleetTypeOK
  <2>1. contract \in [ContractIds -> [status : Statuses, owner : Roles, attempts : Nat]]
    BY DEF FleetInit, Statuses, Roles
  <2>2. call = [p \in Clients |-> call[p]] /\ \A p \in Clients : IsCall(call[p])
    BY DEF FleetInit, IsCall
  <2>. QED
    <3>1. leaseOut \subseteq ContractIds /\ contracted \in BOOLEAN
      BY DEF FleetInit
    <3>2. results \in [ContractIds ->
                        Seq([role : Roles, status : ReportedStatuses, verdicts : SUBSET VerdictValues])]
      BY DEF FleetInit
    <3>. QED
      BY <2>1, <2>2, <3>1, <3>2 DEF FleetTypeOK
<1>2. ASSUME NEW c \in ContractIds
      PROVE  contract[c].attempts + Cardinality(Claimers(c)) <= RetryBudget[c] + Cardinality(Clients)
  <2>1. contract[c].attempts = 0 /\ RetryBudget[c] \in Nat
    BY FleetAssumption DEF FleetInit
  <2>. QED
    BY <2>1, ClaimersFew
<1>3. JudgedResultExists
  BY DEF FleetInit, JudgedResultExists, NoCall
<1>. QED
  BY <1>1, <1>2, <1>3 DEF FleetInv, ClaimsCounted, FleetInit, JudgedOnce

LEMMA BudgetBound == FleetInv => RetryBudgetOverrun
<1>. SUFFICES ASSUME FleetInv, NEW c \in ContractIds
              PROVE  contract[c].attempts <= RetryBudget[c] + Cardinality(Clients)
  BY DEF RetryBudgetOverrun
<1>1. /\ contract[c].attempts \in Nat /\ RetryBudget[c] \in Nat /\ Cardinality(Clients) \in Nat
      /\ Cardinality(Claimers(c)) \in Nat
      /\ contract[c].attempts + Cardinality(Claimers(c)) <= RetryBudget[c] + Cardinality(Clients)
  BY FleetColumns, ClaimersFew DEF FleetInv, ClaimsCounted
<1>. QED
  BY <1>1


-------------------------------------------------------------------------------
(* The suite: the others' steps leave the fleet controller where it is.     *)

suiteVars == <<focus, queueSide, workerVars, watcherVars>>

LEMMA FleetFrame == [Next]_suiteVars => [FleetNext]_fleetVars
<1>. SUFFICES ASSUME [Next]_suiteVars PROVE [FleetNext]_fleetVars
  OBVIOUS
<1>1. FleetRuns \/ UNCHANGED fleetVars
  BY DEF suiteVars, Next, queueSide, IntelligenceRuns, VercelRuns, CallsRuns, MarksRuns, HermesRuns,
         ScriptsRun, CleanerRuns, OperatorRuns, GuardRuns, ManagerRuns, PairRuns
<1>. QED
  BY <1>1 DEF FleetRuns

LEMMA FleetHolds == Spec => []FleetInv
<1>1. Init => FleetInv
  BY FleetStart DEF Init
<1>2. FleetInv /\ [Next]_suiteVars => FleetInv'
  BY FleetFrame, FleetStep
<1>. QED
  BY <1>1, <1>2, PTL DEF Spec, suiteVars

\* claim_next may overrun a contract's retry budget, because it compares the
\* attempt_count it selected before its transaction, but whatever the budget and
\* however many processes overlap, by no more than one attempt of each of them.
THEOREM OverrunIsBounded == Spec => []RetryBudgetOverrun
<1>1. FleetInv => RetryBudgetOverrun
  BY BudgetBound
<1>. QED
  BY <1>1, FleetHolds, PTL

\* record_verdict looks for an existing verdict before its transaction, and yet,
\* by UNIQUE(result_id), no result gets two.
THEOREM ResultsJudgedOnce == Spec => []JudgedOnce
<1>1. FleetInv => JudgedOnce
  BY DEF FleetInv
<1>. QED
  BY <1>1, FleetHolds, PTL


-------------------------------------------------------------------------------
(* The deployed controller: the credential and the registration of a device. *)

\* A registration that got past the look at the device has the device free or
\* its own, and one that wrote the credential has it; a result handler holds the
\* registration the device still has.
RegistrationInv ==
  /\ VercelTypeOK
  /\ admin # "none" => lastTask < MaxTask
  /\ CredentialMatchesRegistration
  /\ \A h \in Provisioners :
       provision[h].stage \in {"device", "secret"} =>
         /\ phoneOf[provision[h].phone] \in {"none", provision[h].id}
         /\ provision[h].stage = "secret" => secretOf[provision[h].phone] = provision[h].id
  /\ \A h \in Posters :
       posting[h] # NotPosting => /\ phoneOf[posting[h].phone] = posting[h].reg
                                  /\ posting[h].reg # "none"

OneProvisioner == \A g, h \in Provisioners : g = h

ProvisionRows == [stage : {"token", "device", "secret", "registered"},
                  token : Tokens, phone : Phones, id : Identities]
PostingRows == [stage : {"matched", "stored", "cleared"}, phone : Phones, task : 1..MaxTask,
                reg : Identities]

LEMMA VercelColumns ==
  ASSUME VercelTypeOK
  PROVE  /\ secretOf \in [Phones -> Identities \union {"none"}]
         /\ phoneOf \in [Phones -> Identities \union {"none"}]
         /\ provision \in [Provisioners -> {NotProvisioning} \union ProvisionRows]
         /\ posting \in [Posters -> {NotPosting} \union PostingRows]
         /\ \A h \in Provisioners : provision[h].stage # "idle" => provision[h] \in ProvisionRows
         /\ \A h \in Posters : posting[h].stage # "idle" => posting[h] \in PostingRows
<1>1. /\ secretOf \in [Phones -> Identities \union {"none"}]
      /\ phoneOf \in [Phones -> Identities \union {"none"}]
      /\ provision \in [Provisioners -> {NotProvisioning} \union ProvisionRows]
      /\ posting \in [Posters -> {NotPosting} \union PostingRows]
  BY DEF VercelTypeOK, ProvisionRows, PostingRows
<1>. QED
  BY <1>1 DEF NotProvisioning, NotPosting

\* A step of the one registration.
LEMMA ProvisionMoves ==
  ASSUME OneProvisioner, VercelTypeOK, NEW h \in Provisioners, NEW row \in {NotProvisioning} \union ProvisionRows,
         provision' = [provision EXCEPT ![h] = row]
  PROVE  /\ provision' \in [Provisioners -> {NotProvisioning} \union ProvisionRows]
         /\ \A g \in Provisioners : g = h /\ provision'[g] = row
BY VercelColumns DEF OneProvisioner

LEMMA RegistrationSteps ==
  ASSUME OneProvisioner, RegistrationInv, NEW h \in Provisioners,
         \/ \E t \in Tokens, d \in Phones, id \in Identities : ReadToken(h, t, d, id)
         \/ ReadPhone(h) \/ WriteSecret(h) \/ WritePhone(h) \/ ConsumeToken(h) \/ ProvisionDies(h)
  PROVE  RegistrationInv'
<1>. DEFINE held == provision[h]
<1>0. /\ VercelTypeOK /\ CredentialMatchesRegistration
      /\ held.stage \in {"device", "secret"} =>
           /\ phoneOf[held.phone] \in {"none", held.id}
           /\ held.stage = "secret" => secretOf[held.phone] = held.id
      /\ \A g \in Posters : posting[g] # NotPosting => /\ phoneOf[posting[g].phone] = posting[g].reg
                                                      /\ posting[g].reg # "none"
  BY DEF RegistrationInv
<1>1. ASSUME NEW t \in Tokens, NEW d \in Phones, NEW id \in Identities, ReadToken(h, t, d, id)
      PROVE  RegistrationInv'
  <2>. DEFINE row == [stage |-> "token", token |-> t, phone |-> d, id |-> id]
  <2>1. row \in ProvisionRows /\ row.stage = "token"
    BY DEF ProvisionRows
  <2>2. provision' = [provision EXCEPT ![h] = row] /\ UNCHANGED <<tokenState, secretOf, phoneOf, usedBy, tasks>>
    BY <1>1 DEF ReadToken
  <2>. HIDE DEF row
  <2>3. /\ provision' \in [Provisioners -> {NotProvisioning} \union ProvisionRows]
        /\ \A g \in Provisioners : provision'[g].stage = "token"
    BY <1>0, <2>1, <2>2, ProvisionMoves
  <2>. QED
    BY <1>0, <2>2, <2>3 DEF RegistrationInv, VercelTypeOK, CredentialMatchesRegistration, tasks, ProvisionRows
<1>2. CASE ReadPhone(h)
  <2>1. held \in ProvisionRows /\ held.stage = "token"
        /\ UNCHANGED <<tokenState, secretOf, phoneOf, usedBy, tasks>>
    BY <1>0, <1>2, VercelColumns DEF ReadPhone
  <2>2. PICK row \in {NotProvisioning} \union ProvisionRows :
          /\ provision' = [provision EXCEPT ![h] = row]
          /\ row.stage \in {"device", "secret"} => row.stage = "device" /\ phoneOf[row.phone] \in {"none", row.id}
    <3>1. CASE phoneOf[held.phone] \in {"none", held.id}
      <4>. DEFINE row == [held EXCEPT !.stage = "device"]
      <4>1. row \in ProvisionRows /\ row.stage = "device" /\ row.phone = held.phone /\ row.id = held.id
        BY <2>1 DEF ProvisionRows
      <4>2. provision' = [provision EXCEPT ![h] = row]
        BY <1>2, <3>1 DEF ReadPhone
      <4>. HIDE DEF row
      <4>. QED
        BY <3>1, <4>1, <4>2
    <3>2. CASE phoneOf[held.phone] \notin {"none", held.id}
      <4>1. provision' = [provision EXCEPT ![h] = NotProvisioning]
        BY <1>2, <3>2 DEF ReadPhone
      <4>2. NotProvisioning.stage = "idle"
        BY DEF NotProvisioning
      <4>. QED
        BY <4>1, <4>2
    <3>. QED
      BY <3>1, <3>2
  <2>3. /\ provision' \in [Provisioners -> {NotProvisioning} \union ProvisionRows]
        /\ \A g \in Provisioners : provision'[g] = row
    BY <1>0, <2>2, ProvisionMoves
  <2>. QED
    BY <1>0, <2>1, <2>2, <2>3 DEF RegistrationInv, VercelTypeOK, CredentialMatchesRegistration, tasks, ProvisionRows
<1>3. CASE WriteSecret(h)
  <2>. DEFINE row == [held EXCEPT !.stage = "secret"]
  <2>1. held \in ProvisionRows /\ held.stage = "device"
    BY <1>0, <1>3, VercelColumns DEF WriteSecret
  <2>2. row \in ProvisionRows /\ row.stage = "secret" /\ row.phone = held.phone /\ row.id = held.id
    BY <2>1 DEF ProvisionRows
  <2>3. provision' = [provision EXCEPT ![h] = row]
    BY <1>3 DEF WriteSecret
  <2>4. /\ secretOf' = [secretOf EXCEPT ![held.phone] = held.id] /\ UNCHANGED <<tokenState, phoneOf, usedBy, tasks>>
        /\ held.phone \in Phones /\ held.id \in Identities
    BY <1>3, <2>1 DEF WriteSecret, ProvisionRows
  <2>. HIDE DEF row, held
  <2>5. /\ provision' \in [Provisioners -> {NotProvisioning} \union ProvisionRows]
        /\ \A g \in Provisioners : provision'[g] = row
    BY <1>0, <2>2, <2>3, ProvisionMoves
  <2>6. /\ secretOf' \in [Phones -> Identities \union {"none"}] /\ secretOf'[held.phone] = held.id
        /\ \A d \in Phones \ {held.phone} : secretOf'[d] = secretOf[d]
    BY <1>0, <2>4, VercelColumns
  <2>7. VercelTypeOK'
    BY <1>0, <2>4, <2>5, <2>6 DEF VercelTypeOK, tasks, ProvisionRows
  <2>8. CredentialMatchesRegistration'
    BY <1>0, <2>1, <2>4, <2>6 DEF CredentialMatchesRegistration
  <2>. QED
    BY <1>0, <2>1, <2>2, <2>4, <2>5, <2>6, <2>7, <2>8 DEF RegistrationInv, tasks
<1>4. CASE WritePhone(h)
  <2>. DEFINE row == [held EXCEPT !.stage = "registered"]
  <2>1. held \in ProvisionRows /\ held.stage = "secret"
    BY <1>0, <1>4, VercelColumns DEF WritePhone
  <2>2. row \in ProvisionRows /\ row.stage = "registered"
    BY <2>1 DEF ProvisionRows
  <2>3. provision' = [provision EXCEPT ![h] = row]
    BY <1>4 DEF WritePhone
  <2>4. /\ phoneOf' = [phoneOf EXCEPT ![held.phone] = held.id] /\ UNCHANGED <<tokenState, secretOf, tasks>>
        /\ usedBy' = [usedBy EXCEPT ![held.token] = @ \union {held.phone}]
        /\ held.phone \in Phones /\ held.id \in Identities
    BY <1>4, <2>1 DEF WritePhone, ProvisionRows
  <2>. HIDE DEF row, held
  <2>5. /\ provision' \in [Provisioners -> {NotProvisioning} \union ProvisionRows]
        /\ \A g \in Provisioners : provision'[g] = row
    BY <1>0, <2>2, <2>3, ProvisionMoves
  <2>6. /\ phoneOf' \in [Phones -> Identities \union {"none"}] /\ phoneOf'[held.phone] = held.id
        /\ \A d \in Phones \ {held.phone} : phoneOf'[d] = phoneOf[d]
    BY <1>0, <2>4, VercelColumns
  <2>7. usedBy' \in [Tokens -> SUBSET Phones]
    BY <1>0, <2>4 DEF VercelTypeOK
  <2>8. VercelTypeOK'
    BY <1>0, <2>4, <2>5, <2>6, <2>7 DEF VercelTypeOK, tasks, ProvisionRows
  <2>9. CredentialMatchesRegistration'
    BY <1>0, <2>1, <2>4, <2>6 DEF CredentialMatchesRegistration
  <2>10. \A g \in Posters : posting'[g] # NotPosting => /\ phoneOf'[posting'[g].phone] = posting'[g].reg
                                                       /\ posting'[g].reg # "none"
    <3>. SUFFICES ASSUME NEW g \in Posters, posting[g] # NotPosting
                  PROVE  phoneOf'[posting[g].phone] = posting[g].reg /\ posting[g].reg # "none"
      BY <2>4 DEF tasks
    <3>1. phoneOf[posting[g].phone] = posting[g].reg /\ posting[g].reg # "none" /\ posting[g].phone \in Phones
      BY <1>0, VercelColumns DEF PostingRows
    <3>. QED
      BY <1>0, <2>1, <2>6, <3>1
  <2>. QED
    BY <1>0, <2>2, <2>4, <2>5, <2>8, <2>9, <2>10 DEF RegistrationInv, tasks
<1>5. CASE ConsumeToken(h) \/ ProvisionDies(h)
  <2>1. provision' = [provision EXCEPT ![h] = NotProvisioning] /\ UNCHANGED <<secretOf, phoneOf, usedBy, tasks>>
    BY <1>5 DEF ConsumeToken, ProvisionDies
  <2>2. tokenState' \in [Tokens -> {"none", "ISSUED", "CONSUMED"}]
    BY <1>0, <1>5 DEF ConsumeToken, ProvisionDies, VercelTypeOK
  <2>3. /\ provision' \in [Provisioners -> {NotProvisioning} \union ProvisionRows]
        /\ \A g \in Provisioners : provision'[g] = NotProvisioning
    BY <1>0, <2>1, ProvisionMoves
  <2>. QED
    BY <1>0, <2>1, <2>2, <2>3 DEF RegistrationInv, VercelTypeOK, CredentialMatchesRegistration, tasks,
                                  ProvisionRows, NotProvisioning
<1>. QED
  BY <1>1, <1>2, <1>3, <1>4, <1>5

\* Steps of the tasks' side, which write no credential: what a result handler
\* holds is still the registration, and writing it back changes nothing.
LEMMA TaskSteps ==
  ASSUME RegistrationInv, NEW g \in Posters, NEW row \in {NotPosting} \union PostingRows,
         posting' = [posting EXCEPT ![g] = row], UNCHANGED <<tokenState, secretOf, phoneOf, usedBy, provision>>,
         row # NotPosting => phoneOf[row.phone] = row.reg /\ row.reg # "none"
  PROVE  /\ CredentialMatchesRegistration'
         /\ posting' \in [Posters -> {NotPosting} \union PostingRows]
         /\ \A h \in Provisioners :
              provision'[h].stage \in {"device", "secret"} =>
                /\ phoneOf'[provision'[h].phone] \in {"none", provision'[h].id}
                /\ provision'[h].stage = "secret" => secretOf'[provision'[h].phone] = provision'[h].id
         /\ \A h \in Posters :
              posting'[h] # NotPosting => /\ phoneOf'[posting'[h].phone] = posting'[h].reg
                                          /\ posting'[h].reg # "none"
<1>1. posting \in [Posters -> {NotPosting} \union PostingRows]
  BY VercelColumns DEF RegistrationInv
<1>2. \A h \in Posters : posting'[h] = IF h = g THEN row ELSE posting[h]
  BY <1>1
<1>3. posting' \in [Posters -> {NotPosting} \union PostingRows]
  BY <1>1
<1>. QED
  BY <1>2, <1>3 DEF RegistrationInv, CredentialMatchesRegistration


LEMMA PostingSteps ==
  ASSUME RegistrationInv, NEW g \in Posters,
         \/ \E d \in Phones, k \in 1..MaxTask : MatchResult(g, d, k)
         \/ StoreResult(g) \/ ClearSlot(g) \/ TouchPhone(g) \/ PosterDies(g)
  PROVE  RegistrationInv'
<1>. DEFINE held == posting[g]
            Stands(row) == row # NotPosting => phoneOf[row.phone] = row.reg /\ row.reg # "none"
<1>0. VercelTypeOK /\ MaxTask \in Nat /\ Stands(held)
  BY VercelAssumption DEF RegistrationInv
<1>1. ASSUME NEW d \in Phones, NEW k \in 1..MaxTask, MatchResult(g, d, k) PROVE RegistrationInv'
  <2>. DEFINE row == [stage |-> "matched", phone |-> d, task |-> k, reg |-> phoneOf[d]]
  <2>1. phoneOf[d] # "none" /\ phoneOf[d] \in Identities
    BY <1>0, <1>1, VercelColumns DEF MatchResult, Known
  <2>2. row \in PostingRows /\ Stands(row)
    BY <2>1 DEF PostingRows
  <2>3. posting' = [posting EXCEPT ![g] = row]
        /\ UNCHANGED <<slot, stored, lastTask, sent, admin, tokenState, secretOf, phoneOf, usedBy, provision>>
    BY <1>1 DEF MatchResult, identityVars
  <2>. HIDE DEF row
  <2>. QED
    BY <1>0, <2>2, <2>3, TaskSteps DEF RegistrationInv, VercelTypeOK, PostingRows
<1>2. CASE StoreResult(g)
  <2>. DEFINE row == [held EXCEPT !.stage = "stored"]
  <2>1. held \in PostingRows /\ held # NotPosting
    BY <1>0, <1>2, VercelColumns DEF StoreResult, NotPosting
  <2>2. row \in PostingRows /\ Stands(row) /\ held.task \in 1..MaxTask
    BY <1>0, <2>1 DEF PostingRows
  <2>3. posting' = [posting EXCEPT ![g] = row] /\ stored' = stored \union {held.task}
        /\ UNCHANGED <<slot, lastTask, sent, admin, tokenState, secretOf, phoneOf, usedBy, provision>>
    BY <1>2 DEF StoreResult, identityVars
  <2>. HIDE DEF row, held
  <2>. QED
    BY <1>0, <2>2, <2>3, TaskSteps DEF RegistrationInv, VercelTypeOK, PostingRows
<1>3. CASE ClearSlot(g)
  <2>. DEFINE row == [held EXCEPT !.stage = "cleared"]
  <2>1. held \in PostingRows /\ held # NotPosting
    BY <1>0, <1>3, VercelColumns DEF ClearSlot, NotPosting
  <2>2. row \in PostingRows /\ Stands(row)
    BY <1>0, <2>1 DEF PostingRows
  <2>3. posting' = [posting EXCEPT ![g] = row] /\ slot' = [slot EXCEPT ![held.phone] = 0]
        /\ UNCHANGED <<stored, lastTask, sent, admin, tokenState, secretOf, phoneOf, usedBy, provision>>
    BY <1>3 DEF ClearSlot, identityVars
  <2>. HIDE DEF row, held
  <2>4. slot' \in [Phones -> 0..MaxTask]
    <3>1. 0 \in 0..MaxTask
      BY <1>0
    <3>2. slot \in [Phones -> 0..MaxTask]
      BY <1>0 DEF VercelTypeOK
    <3>. QED
      BY <2>3, <3>1, <3>2
  <2>. QED
    BY <1>0, <2>2, <2>3, <2>4, TaskSteps DEF RegistrationInv, VercelTypeOK, PostingRows
<1>4. CASE TouchPhone(g)
  <2>1. held \in PostingRows /\ held # NotPosting
    BY <1>0, <1>4, VercelColumns DEF TouchPhone, NotPosting
  <2>2. phoneOf' = phoneOf
    <3>1. phoneOf' = [phoneOf EXCEPT ![held.phone] = held.reg] /\ phoneOf[held.phone] = held.reg
      BY <1>0, <1>4, <2>1 DEF TouchPhone
    <3>. QED
      BY <1>0, <3>1, VercelColumns
  <2>3. posting' = [posting EXCEPT ![g] = NotPosting]
        /\ UNCHANGED <<slot, stored, lastTask, sent, admin, tokenState, secretOf, usedBy, provision>>
    BY <1>4 DEF TouchPhone
  <2>. HIDE DEF held
  <2>. QED
    BY <1>0, <2>2, <2>3, TaskSteps DEF RegistrationInv, VercelTypeOK, PostingRows
<1>5. CASE PosterDies(g)
  <2>3. posting' = [posting EXCEPT ![g] = NotPosting]
        /\ UNCHANGED <<slot, stored, lastTask, sent, admin, tokenState, secretOf, phoneOf, usedBy, provision>>
    BY <1>5 DEF PosterDies, identityVars
  <2>. QED
    BY <1>0, <2>3, TaskSteps DEF RegistrationInv, VercelTypeOK, PostingRows
<1>. QED
  BY <1>1, <1>2, <1>3, <1>4, <1>5

LEMMA RegistrationStep ==
  ASSUME OneProvisioner PROVE RegistrationInv /\ [VercelNext]_vercelVars => RegistrationInv'
<1>. SUFFICES ASSUME RegistrationInv, [VercelNext]_vercelVars PROVE RegistrationInv'
  OBVIOUS
<1>. DEFINE Untouched == UNCHANGED <<secretOf, phoneOf, provision, posting>>
<1>0. VercelTypeOK /\ MaxTask \in Nat /\ (admin # "none" => lastTask < MaxTask)
  BY VercelAssumption DEF RegistrationInv
<1>1. ASSUME Untouched, VercelTypeOK', admin' # "none" => lastTask' < MaxTask PROVE RegistrationInv'
  BY <1>1 DEF RegistrationInv, CredentialMatchesRegistration
<1>2. CASE UNCHANGED vercelVars
  BY <1>0, <1>1, <1>2 DEF vercelVars, VercelTypeOK
<1>3. ASSUME NEW t \in Tokens, IssueToken(t) PROVE RegistrationInv'
  BY <1>0, <1>1, <1>3 DEF IssueToken, VercelTypeOK, tasks
<1>4. ASSUME NEW d \in Phones, EnqueueReads(d) PROVE RegistrationInv'
  BY <1>0, <1>1, <1>4 DEF EnqueueReads, VercelTypeOK, identityVars
<1>5. ASSUME NEW d \in Phones, OfferJob(d) PROVE RegistrationInv'
  <2>1. slot[d] \in 1..MaxTask /\ sent' = sent \union {<<d, slot[d]>>}
    BY <1>0, <1>5 DEF OfferJob, VercelTypeOK
  <2>2. sent' \subseteq Phones \X (1..MaxTask)
    BY <1>0, <2>1 DEF VercelTypeOK
  <2>. QED
    BY <1>0, <1>1, <1>5, <2>2 DEF OfferJob, VercelTypeOK, identityVars
<1>6. ASSUME NEW d \in Phones, SlotExpires(d) PROVE RegistrationInv'
  BY <1>0, <1>1, <1>6 DEF SlotExpires, VercelTypeOK, identityVars
<1>7. CASE EnqueueWrites
  <2>1. admin \in Phones /\ Untouched /\ slot' = [slot EXCEPT ![admin] = lastTask + 1] /\ lastTask' = lastTask + 1
        /\ admin' = "none" /\ UNCHANGED <<tokenState, usedBy, stored, sent>>
    BY <1>0, <1>7 DEF EnqueueWrites, VercelTypeOK, identityVars
  <2>2. lastTask + 1 \in 0..MaxTask
    BY <1>0, <1>7 DEF EnqueueWrites, VercelTypeOK
  <2>3. slot' \in [Phones -> 0..MaxTask]
    BY <1>0, <2>1, <2>2 DEF VercelTypeOK
  <2>. QED
    BY <1>0, <1>1, <2>1, <2>2, <2>3 DEF VercelTypeOK
<1>. QED
  BY <1>2, <1>3, <1>4, <1>5, <1>6, <1>7, RegistrationSteps, PostingSteps DEF VercelNext

LEMMA VercelFrame == [Next]_suiteVars => [VercelNext]_vercelVars
<1>. SUFFICES ASSUME [Next]_suiteVars PROVE [VercelNext]_vercelVars
  OBVIOUS
<1>1. VercelRuns \/ UNCHANGED vercelVars
  BY DEF suiteVars, Next, queueSide, FleetRuns, IntelligenceRuns, CallsRuns, MarksRuns, HermesRuns,
         ScriptsRun, CleanerRuns, OperatorRuns, GuardRuns, ManagerRuns, PairRuns
<1>. QED
  BY <1>1 DEF VercelRuns

LEMMA RegistrationStart == VercelInit => RegistrationInv
<1>. SUFFICES ASSUME VercelInit PROVE RegistrationInv
  OBVIOUS
<1>1. VercelTypeOK
  BY VercelAssumption DEF VercelInit, VercelTypeOK
<1>. QED
  BY <1>1 DEF VercelInit, RegistrationInv, CredentialMatchesRegistration, NotProvisioning, NotPosting

\* /api/provision writes the credential and the registration of a device under
\* two keys, and /api/results writes an old registration back; while registrations
\* do not overlap, a registered device is always verified with the credential its
\* registration names, whatever result handlers overlap and wherever one is ended.
THEOREM CredentialIsRegistered ==
  ASSUME OneProvisioner PROVE Spec => []CredentialMatchesRegistration
<1>1. Init => RegistrationInv
  BY RegistrationStart DEF Init
<1>2. RegistrationInv /\ [Next]_suiteVars => RegistrationInv'
  BY VercelFrame, RegistrationStep
<1>3. RegistrationInv => CredentialMatchesRegistration
  BY DEF RegistrationInv
<1>. QED
  BY <1>1, <1>2, <1>3, PTL DEF Spec, suiteVars

-------------------------------------------------------------------------------
(* The callable worker: the names of a plan.                                *)

\* The names of a set in order are the names of that set.
LEMMA SortedNames ==
  ASSUME NEW S \in SUBSET Nat, IsFiniteSet(S)
  PROVE  Sorted(S) \in Seq(S) /\ (S # {} => Sorted(S) # <<>>)
<1>. DEFINE n == Cardinality(S)
            Below(f) == {g \in S : g < f}
            rank == [f \in S |-> Cardinality(Below(f))]
<1>1. n \in Nat
  BY FS_CardinalityType
<1>2. ASSUME NEW f \in S
      PROVE IsFiniteSet(Below(f)) /\ Cardinality(Below(f)) \in Nat /\ Cardinality(Below(f)) < n
  <2>1. f \in Nat /\ Below(f) \in SUBSET S /\ f \notin Below(f)
    OBVIOUS
  <2>2. Below(f) # S
    BY <2>1
  <2>. HIDE DEF Below
  <2>3. IsFiniteSet(Below(f)) /\ Cardinality(Below(f)) <= n /\ Cardinality(Below(f)) # n
    BY <2>1, <2>2, FS_Subset
  <2>4. Cardinality(Below(f)) \in Nat
    BY <2>3, FS_CardinalityType
  <2>. HIDE DEF n
  <2>. QED
    BY <1>1, <2>3, <2>4
<1>3. ASSUME NEW f \in S, NEW g \in S, f < g
      PROVE Cardinality(Below(f)) # Cardinality(Below(g))
  <2>1. f \in Nat /\ g \in Nat
    OBVIOUS
  <2>2. Below(f) \in SUBSET Below(g)
    <3>. SUFFICES ASSUME NEW h \in S, h < f PROVE h < g
      OBVIOUS
    <3>. QED
      BY <1>3, <2>1
  <2>3. f \in Below(g) /\ f \notin Below(f)
    BY <1>3, <2>1
  <2>4. Below(f) # Below(g)
    BY <2>3
  <2>. HIDE DEF Below
  <2>. QED
    BY <1>2, <2>2, <2>4, FS_Subset
<1>4. rank \in [S -> 0..(n - 1)]
  <2>. SUFFICES ASSUME NEW f \in S PROVE Cardinality(Below(f)) \in 0..(n - 1)
    OBVIOUS
  <2>. HIDE DEF Below, n
  <2>. QED
    BY <1>1, <1>2
<1>5. \A f, g \in S : rank[f] = rank[g] => f = g
  <2>. SUFFICES ASSUME NEW f \in S, NEW g \in S, Cardinality(Below(f)) = Cardinality(Below(g)), f # g PROVE FALSE
    OBVIOUS
  <2>1. f \in Nat /\ g \in Nat
    OBVIOUS
  <2>. HIDE DEF Below
  <2>. QED
    BY <1>3, <2>1
<1>6. IsFiniteSet(0..(n - 1)) /\ Cardinality(0..(n - 1)) = n
  <2>. HIDE DEF n
  <2>. QED
    BY <1>1, FS_Interval
<1>. HIDE DEF rank, n
<1>7. rank \in Surjection(S, 0..(n - 1))
  <2>1. rank \in Injection(S, 0..(n - 1))
    BY <1>4, <1>5 DEF Injection, IsInjective
  <2>. QED
    BY <2>1, <1>6, FS_Injection DEF n
<1>8. ASSUME NEW i \in 1..n
      PROVE (CHOOSE f \in S : Cardinality({g \in S : g < f}) = i - 1) \in S
  <2>1. i - 1 \in 0..(n - 1)
    BY <1>1
  <2>2. PICK f \in S : rank[f] = i - 1
    BY <1>7, <2>1 DEF Surjection
  <2>. QED
    BY <2>2 DEF rank
<1>9. Sorted(S) = [i \in 1..n |-> CHOOSE f \in S : Cardinality({g \in S : g < f}) = i - 1]
  BY DEF Sorted, n
<1>10. Sorted(S) \in [1..n -> S]
  BY <1>8, <1>9
<1>11. Sorted(S) \in Seq(S) /\ Len(Sorted(S)) = n
  BY <1>1, <1>10
<1>12. S # {} => n # 0
  BY FS_EmptySet DEF n
<1>. QED
  BY <1>11, <1>12

-------------------------------------------------------------------------------
(* The callable worker: answers.                                            *)

RunFields == {"todo", "again", "result", "checked", "live", "req"}

\* The envelope of a file, committed or of the run.
Given(f) == IF f \in DOMAIN callRun.result THEN callRun.result[f] ELSE callResult[f]

\* An envelope is an error, or a response of a request that was allowed and had
\* not expired.
IsEnvelope(r) ==
  /\ r # NoEnvelope
  /\ r.ok => CallOf[r.sha].allowed /\ r.expiry # "EXPIRED"

\* A run works on files that had a request when it began; what it has answered
\* is checked and replaces nothing that was published.
RunStands ==
  /\ HasFields(callRun, RunFields)
  /\ DOMAIN callRun.result \subseteq CallFiles /\ DOMAIN callRun.result \subseteq callRun.checked
  /\ callRun.todo \in Seq({f \in CallFiles : callRun.req[f] \in CallRequests})
  /\ \A f \in DOMAIN callRun.result :
       IsEnvelope(callRun.result[f]) /\ callResult[f] \in {NoEnvelope, callRun.result[f]}

AnswersAgree ==
  \A f, g \in CallFiles : Given(f).ok /\ Given(g).ok /\ Given(f).key = Given(g).key => Given(f) = Given(g)

AnswersInv ==
  /\ callReq \in [CallFiles -> CallRequests \union {"none"}] /\ callPushed \subseteq CallFiles
  /\ DOMAIN callResult = CallFiles
  /\ \A f \in CallFiles : callResult[f] # NoEnvelope => IsEnvelope(callResult[f]) /\ f \in callChecked
  /\ RunStands /\ AnswersAgree

LEMMA IdleRun ==
  /\ HasFields(Idle, RunFields) /\ DOMAIN Idle.result = {} /\ Idle.todo = <<>>
  /\ \A S : Idle.todo \in Seq(S)
BY DEF Idle, HasFields, RunFields

LEMMA AnswersStart == CallInit => AnswersInv
<1>. SUFFICES ASSUME CallInit PROVE AnswersInv
  OBVIOUS
<1>1. RunStands
  BY IdleRun DEF CallInit, RunStands
<1>2. \A f \in CallFiles : Given(f) = NoEnvelope
  BY IdleRun DEF CallInit, Given
<1>3. AnswersAgree
  BY <1>2 DEF AnswersAgree, NoEnvelope
<1>. QED
  BY <1>1, <1>3 DEF CallInit, AnswersInv

\* The directory of the results, where the worker looks for an earlier answer.
LEMMA DirectoryIs ==
  ASSUME AnswersInv
  PROVE  /\ DOMAIN Directory = {f \in CallFiles : Given(f) # NoEnvelope}
         /\ \A f \in DOMAIN Directory : Directory[f] = Given(f) /\ IsEnvelope(Given(f))
<1>1. \A f \in DOMAIN callRun.result : f \in CallFiles /\ IsEnvelope(callRun.result[f])
  BY DEF AnswersInv, RunStands
<1>2. \A f \in DOMAIN callRun.result : Given(f) = callRun.result[f] /\ Given(f) # NoEnvelope
  BY <1>1 DEF Given, IsEnvelope
<1>3. DOMAIN Directory = {g \in CallFiles : callResult[g] # NoEnvelope} \union DOMAIN callRun.result
  BY DEF Directory
<1>4. \A f \in DOMAIN Directory : Directory[f] = Given(f)
  BY DEF Directory, Given
<1>5. \A f \in CallFiles \ DOMAIN callRun.result : Given(f) = callResult[f]
  BY DEF Given
<1>6. \A f \in DOMAIN callRun.result : callResult[f] # NoEnvelope => Given(f) # NoEnvelope
  BY <1>2
<1>7. DOMAIN Directory = {f \in CallFiles : Given(f) # NoEnvelope}
  BY <1>1, <1>2, <1>3, <1>5
<1>8. \A f \in CallFiles : Given(f) # NoEnvelope => IsEnvelope(Given(f))
  BY <1>1, <1>2, <1>5 DEF AnswersInv
<1>. QED
  BY <1>4, <1>7, <1>8

\* An earlier answer under the key of a request, if there is one.
LEMMA PriorIs ==
  ASSUME AnswersInv, NEW c, NEW f, f \notin DOMAIN Directory, NEW prior, prior = PriorResult(c, f, Directory)
  PROVE  /\ prior # NoEnvelope => \E g \in CallFiles : prior = Given(g) /\ Given(g) # NoEnvelope
         /\ prior = NoEnvelope /\ RequestKey(c) # "null" =>
              \A g \in CallFiles : Given(g) # NoEnvelope => Given(g).key # RequestKey(c)
<1>. DEFINE same == {g \in DOMAIN Directory \ {f} : Directory[g].key = RequestKey(c)}
<1>1. /\ DOMAIN Directory = {g \in CallFiles : Given(g) # NoEnvelope}
      /\ \A g \in DOMAIN Directory : Directory[g] = Given(g)
  BY DirectoryIs
<1>2. same = {g \in CallFiles : Given(g) # NoEnvelope /\ Given(g).key = RequestKey(c)}
  BY <1>1
<1>3. prior = IF RequestKey(c) = "null" \/ same = {} THEN NoEnvelope ELSE Directory[Min(same)]
  BY DEF PriorResult
<1>. HIDE DEF same
<1>4. same # {} => Min(same) \in same
  <2>1. same \in SUBSET Nat
    BY <1>2, CallAssumption
  <2>2. same # {} => \E x \in same : \A y \in same : x <= y
    BY <2>1, LeastElement
  <2>. QED
    BY <2>2 DEF Min
<1>5. CASE RequestKey(c) = "null"
  BY <1>3, <1>5
<1>6. CASE RequestKey(c) # "null" /\ same = {}
  BY <1>2, <1>3, <1>6
<1>7. CASE RequestKey(c) # "null" /\ same # {}
  <2>1. Min(same) \in CallFiles /\ Given(Min(same)) # NoEnvelope /\ prior = Given(Min(same))
    BY <1>1, <1>2, <1>3, <1>4, <1>7
  <2>. QED
    BY <2>1
<1>. QED
  BY <1>5, <1>6, <1>7

\* What processFile answers: an error, the answer there is already under the
\* key, or the first one.
LEMMA AnswerIs ==
  ASSUME AnswersInv, NEW f \in CallFiles, f \notin DOMAIN Directory, callRun.req[f] \in CallRequests,
         NEW r, r = ProcessFile(f, Directory)
  PROVE  /\ IsEnvelope(r)
         /\ \A g \in CallFiles : r.ok /\ Given(g).ok /\ Given(g).key = r.key => Given(g) = r
<1>. DEFINE c == callRun.req[f]
            prior == PriorResult(c, f, Directory)
            expiry == RequestExpiry(c)
<1>1. c \in CallRequests /\ CallOf[c] \in CallShape
  BY CallAssumption
<1>2. /\ prior # NoEnvelope => \E g \in CallFiles : prior = Given(g) /\ Given(g) # NoEnvelope
      /\ prior = NoEnvelope /\ RequestKey(c) # "null" =>
           \A g \in CallFiles : Given(g) # NoEnvelope => Given(g).key # RequestKey(c)
  BY PriorIs
<1>3. /\ \A error, e : error # "none" => /\ ErrorEnvelope(c, f, error, e) # NoEnvelope
                                         /\ ErrorEnvelope(c, f, error, e).ok = FALSE
  <2>. SUFFICES ASSUME NEW error, NEW e, error # "none"
                PROVE /\ ErrorEnvelope(c, f, error, e).error # NoEnvelope.error
                      /\ ErrorEnvelope(c, f, error, e).ok = FALSE
    OBVIOUS
  <2>. QED
    BY DEF ErrorEnvelope, NoEnvelope
<1>4. \A error, e : error # "none" /\ r = ErrorEnvelope(c, f, error, e) => IsEnvelope(r) /\ r.ok = FALSE
  BY <1>3 DEF IsEnvelope
<1>5. r = CASE CallOf[c].shape # "object" -> ErrorEnvelope(c, f, "Error", "none")
            [] prior # NoEnvelope /\ prior.sha = c -> prior
            [] prior # NoEnvelope /\ prior.sha # c -> ErrorEnvelope(c, f, "IdempotencyConflict", "none")
            [] expiry.error # "none" -> ErrorEnvelope(c, f, expiry.error, expiry.status)
            [] ~CallOf[c].allowed -> ErrorEnvelope(c, f, "SideEffectProtocolRequired", expiry.status)
            [] ~CallOf[c].supported -> ErrorEnvelope(c, f, "Error", expiry.status)
            [] OTHER -> ProcessRequest(c, f)
  BY DEF ProcessFile
<1>. HIDE DEF prior, expiry, c
<1>6. \/ \E error, e : error # "none" /\ r = ErrorEnvelope(c, f, error, e)
      \/ prior # NoEnvelope /\ r = prior
      \/ /\ CallOf[c].shape = "object" /\ prior = NoEnvelope /\ expiry.error = "none"
         /\ CallOf[c].allowed /\ r = ProcessRequest(c, f)
  <2>1. CASE CallOf[c].shape # "object" /\ r = ErrorEnvelope(c, f, "Error", "none")
    BY <2>1
  <2>2. CASE prior # NoEnvelope /\ prior.sha = c /\ r = prior
    BY <2>2
  <2>3. CASE prior # NoEnvelope /\ prior.sha # c /\ r = ErrorEnvelope(c, f, "IdempotencyConflict", "none")
    BY <2>3
  <2>4. CASE expiry.error # "none" /\ r = ErrorEnvelope(c, f, expiry.error, expiry.status)
    BY <2>4
  <2>5. CASE ~CallOf[c].allowed /\ r = ErrorEnvelope(c, f, "SideEffectProtocolRequired", expiry.status)
    BY <2>5
  <2>6. CASE ~CallOf[c].supported /\ r = ErrorEnvelope(c, f, "Error", expiry.status)
    BY <2>6
  <2>7. CASE /\ CallOf[c].shape = "object" /\ prior = NoEnvelope /\ expiry.error = "none"
             /\ CallOf[c].allowed /\ r = ProcessRequest(c, f)
    BY <2>7
  <2>. QED
    BY <1>5, <2>1, <2>2, <2>3, <2>4, <2>5, <2>6, <2>7
<1>7. CASE \E error, e : error # "none" /\ r = ErrorEnvelope(c, f, error, e)
  BY <1>4, <1>7
<1>8. CASE prior # NoEnvelope /\ r = prior
  <2>1. PICK g \in CallFiles : prior = Given(g) /\ Given(g) # NoEnvelope
    BY <1>2, <1>8
  <2>2. IsEnvelope(r)
    BY <1>8, <2>1, DirectoryIs
  <2>. QED
    BY <1>8, <2>1, <2>2 DEF AnswersInv, AnswersAgree
<1>9. CASE /\ CallOf[c].shape = "object" /\ prior = NoEnvelope /\ expiry.error = "none"
           /\ CallOf[c].allowed /\ r = ProcessRequest(c, f)
  <2>1. r.ok = TRUE /\ r.sha = c /\ r.key = RequestKey(c) /\ r.expiry = expiry.status
    BY <1>9 DEF ProcessRequest, expiry
  <2>2. expiry.status # "EXPIRED"
    BY <1>1, <1>9 DEF expiry, RequestExpiry, CallShape
  <2>3. RequestKey(c) # "null"
    BY <1>1, <1>9, CallAssumption DEF RequestKey
  <2>4. r # NoEnvelope
    BY <2>1 DEF NoEnvelope
  <2>5. NoEnvelope.ok = FALSE
    BY DEF NoEnvelope
  <2>. QED
    BY <1>2, <1>9, <2>1, <2>2, <2>3, <2>4, <2>5 DEF IsEnvelope
<1>. QED
  BY <1>6, <1>7, <1>8, <1>9

-------------------------------------------------------------------------------
(* The callable worker: the steps.                                          *)

\* A run that ends without a commit, or a new one, leaves what is published.
LEMMA AnswersReset ==
  ASSUME AnswersInv, HasFields(callRun', RunFields), DOMAIN callRun'.result = {},
         callRun'.todo \in Seq({f \in CallFiles : callRun'.req[f] \in CallRequests}),
         UNCHANGED <<callResult, callChecked>>,
         callReq' \in [CallFiles -> CallRequests \union {"none"}], callPushed' \subseteq CallFiles
  PROVE  AnswersInv'
<1>1. RunStands'
  BY DEF RunStands
<1>2. \A f \in CallFiles : Given(f)' = callResult[f] /\ (callResult[f].ok => Given(f) = callResult[f])
  <2>. SUFFICES ASSUME NEW f \in CallFiles
                PROVE Given(f)' = callResult[f] /\ (callResult[f].ok => Given(f) = callResult[f])
    OBVIOUS
  <2>1. Given(f)' = callResult[f]
    BY DEF Given
  <2>2. callResult[f].ok => callResult[f] # NoEnvelope
    BY DEF NoEnvelope
  <2>. QED
    BY <2>1, <2>2 DEF Given, AnswersInv, RunStands
<1>3. AnswersAgree'
  BY <1>2 DEF AnswersAgree, AnswersInv
<1>. QED
  BY <1>1, <1>3 DEF AnswersInv

LEMMA PlanStep == ASSUME AnswersInv, NEW push \in BOOLEAN, BuildPlan(push) PROVE AnswersInv'
<1>. DEFINE candidates == IF push THEN callPushed ELSE CallFiles
            plan == ClassifyCandidates(candidates, push)
            Asked == {f \in CallFiles : callReq[f] \in CallRequests}
<1>1. /\ callRun' = [Idle EXCEPT !.live = TRUE, !.req = callReq, !.todo = plan.todo, !.again = plan.again]
      /\ callPushed' = IF push THEN {} ELSE callPushed
      /\ UNCHANGED <<callReq, callResult, callChecked>>
  BY DEF BuildPlan
<1>2. candidates \subseteq CallFiles
  BY DEF AnswersInv
<1>3. plan.todo \in Seq(Asked)
  <2>. DEFINE present == {f \in candidates : callReq[f] # "none"}
              has == {f \in present : callResult[f] # NoEnvelope}
              fresh == Sorted(present \ has)
              old == Sorted(has \ callChecked)
  <2>1. present \subseteq Asked
    BY <1>2 DEF AnswersInv
  <2>2. \A S \in SUBSET Asked : S \in SUBSET Nat /\ IsFiniteSet(S)
    BY CallAssumption, FS_Subset
  <2>3. fresh \in Seq(Asked) /\ old \in Seq(Asked)
    <3>1. present \ has \in SUBSET Asked /\ has \ callChecked \in SUBSET Asked
      BY <2>1
    <3>. HIDE DEF present, has, Asked
    <3>2. fresh \in Seq(present \ has) /\ old \in Seq(has \ callChecked)
      BY <2>2, <3>1, SortedNames
    <3>. QED
      BY <3>1, <3>2, SeqMonotonic
  <2>4. plan.todo = SubSeq(fresh, 1, IF Len(fresh) < MaxBatch THEN Len(fresh) ELSE MaxBatch) \o old
    BY DEF ClassifyCandidates
  <2>. HIDE DEF fresh, old, Asked, plan
  <2>5. SubSeq(fresh, 1, IF Len(fresh) < MaxBatch THEN Len(fresh) ELSE MaxBatch) \in Seq(Asked)
    <3>1. /\ Len(fresh) \in Nat /\ DOMAIN fresh = 1..Len(fresh) /\ MaxBatch \in Nat
          /\ \A i \in 1..Len(fresh) : fresh[i] \in Asked
      BY <2>3, LenProperties, ElementOfSeq, CallAssumption
    <3>2. \A m \in Nat : m <= Len(fresh) => SubSeq(fresh, 1, m) \in Seq(Asked)
      <4>. SUFFICES ASSUME NEW m \in Nat, m <= Len(fresh) PROVE SubSeq(fresh, 1, m) \in Seq(Asked)
        OBVIOUS
      <4>1. \A i \in 1..m : fresh[i] \in Asked
        BY <3>1
      <4>. QED
        BY <2>3, <4>1, SubSeqProperties
    <3>. QED
      BY <3>1, <3>2
  <2>. QED
    BY <2>3, <2>4, <2>5
<1>. HIDE DEF plan
<1>4. /\ HasFields(callRun', RunFields) /\ DOMAIN callRun'.result = {} /\ callRun'.req = callReq
      /\ callRun'.todo = plan.todo
  BY <1>1 DEF Idle, HasFields, RunFields
<1>5. callPushed' \subseteq CallFiles
  BY <1>1 DEF AnswersInv
<1>. QED
  BY <1>1, <1>3, <1>4, <1>5, AnswersReset DEF AnswersInv

LEMMA IdleStep ==
  ASSUME AnswersInv, callRun' = Idle, UNCHANGED <<callReq, callResult, callChecked, callPushed>>
  PROVE  AnswersInv'
BY IdleRun, AnswersReset DEF AnswersInv

LEMMA ItemStep == ASSUME AnswersInv, RunItem PROVE AnswersInv'
<1>. DEFINE f == Head(callRun.todo)
            r == IF f \in DOMAIN Directory THEN Directory[f] ELSE ProcessFile(f, Directory)
            kept == [g \in DOMAIN callRun.result \union {f} |-> IF g = f THEN r ELSE callRun.result[g]]
<1>1. /\ callRun.todo # <<>> /\ UNCHANGED <<callReq, callResult, callChecked, callPushed>>
      /\ \/ callRun' = Idle
         \/ callRun' = [callRun EXCEPT !.todo = Tail(callRun.todo), !.result = kept,
                                       !.checked = callRun.checked \union {f}]
  BY DEF RunItem
<1>2. CASE callRun' = Idle
  BY <1>1, <1>2, IdleStep
<1>3. CASE callRun' = [callRun EXCEPT !.todo = Tail(callRun.todo), !.result = kept,
                                      !.checked = callRun.checked \union {f}]
  <2>1. /\ HasFields(callRun, RunFields) /\ callRun.todo \in Seq({g \in CallFiles : callRun.req[g] \in CallRequests})
        /\ DOMAIN callRun.result \subseteq CallFiles /\ DOMAIN callRun.result \subseteq callRun.checked
    BY DEF AnswersInv, RunStands
  <2>2. /\ f \in CallFiles /\ callRun.req[f] \in CallRequests
        /\ Tail(callRun.todo) \in Seq({g \in CallFiles : callRun.req[g] \in CallRequests})
    <3>1. f \in {g \in CallFiles : callRun.req[g] \in CallRequests}
      BY <1>1, <2>1, HeadTailProperties
    <3>. QED
      BY <1>1, <2>1, <3>1, HeadTailProperties
  <2>3. /\ IsEnvelope(r) /\ callResult[f] \in {NoEnvelope, r}
        /\ f \in DOMAIN callRun.result => r = callRun.result[f]
        /\ \A g \in CallFiles : r.ok /\ Given(g).ok /\ Given(g).key = r.key => Given(g) = r
    <3>1. CASE f \in DOMAIN Directory
      <4>1. r = Given(f) /\ IsEnvelope(Given(f))
        BY <3>1, DirectoryIs
      <4>2. callResult[f] \in {NoEnvelope, Given(f)}
        BY <2>2 DEF Given, AnswersInv, RunStands
      <4>3. f \in DOMAIN callRun.result => Given(f) = callRun.result[f]
        BY DEF Given
      <4>. HIDE DEF f, r
      <4>. QED
        BY <2>2, <4>1, <4>2, <4>3 DEF AnswersInv, AnswersAgree
    <3>2. CASE f \notin DOMAIN Directory
      <4>1. r = ProcessFile(f, Directory)
        BY <3>2
      <4>2. Given(f) = NoEnvelope
        BY <2>2, <3>2, DirectoryIs
      <4>3. f \notin DOMAIN callRun.result
        BY <4>2 DEF Given, AnswersInv, RunStands, IsEnvelope
      <4>4. callResult[f] = NoEnvelope
        BY <4>2, <4>3 DEF Given
      <4>. HIDE DEF f, r
      <4>. QED
        BY <2>2, <3>2, <4>1, <4>3, <4>4, AnswerIs
    <3>. QED
      BY <3>1, <3>2
  <2>. HIDE DEF f, r, kept
  <2>4. /\ HasFields(callRun', RunFields) /\ callRun'.todo = Tail(callRun.todo) /\ callRun'.result = kept
        /\ callRun'.checked = callRun.checked \union {f} /\ callRun'.req = callRun.req
    BY <1>3, <2>1 DEF HasFields, RunFields
  <2>5. /\ DOMAIN kept = DOMAIN callRun.result \union {f} /\ kept[f] = r
        /\ \A g \in DOMAIN callRun.result : kept[g] = callRun.result[g]
    BY <2>3 DEF kept
  <2>6. RunStands'
    <3>1. \A g \in DOMAIN kept : IsEnvelope(kept[g]) /\ callResult[g] \in {NoEnvelope, kept[g]}
      <4>. SUFFICES ASSUME NEW g \in DOMAIN kept, g # f
                    PROVE  IsEnvelope(kept[g]) /\ callResult[g] \in {NoEnvelope, kept[g]}
        BY <2>3, <2>5
      <4>. QED
        BY <2>5 DEF AnswersInv, RunStands
    <3>2. DOMAIN kept \subseteq CallFiles /\ DOMAIN kept \subseteq callRun.checked \union {f}
      BY <2>1, <2>2, <2>5
    <3>. QED
      BY <1>1, <2>2, <2>4, <3>1, <3>2 DEF RunStands, IsEnvelope
  <2>7. \A g \in CallFiles : Given(g)' = IF g = f THEN r ELSE Given(g)
    BY <1>1, <2>3, <2>4, <2>5 DEF Given
  <2>8. AnswersAgree'
    <3>. SUFFICES ASSUME NEW g \in CallFiles, NEW h \in CallFiles,
                         Given(g)'.ok, Given(h)'.ok, Given(g)'.key = Given(h)'.key
                  PROVE  Given(g)' = Given(h)'
      BY DEF AnswersAgree
    <3>1. CASE g # f /\ h # f
      BY <2>7, <3>1 DEF AnswersInv, AnswersAgree
    <3>2. CASE g = f \/ h = f
      BY <2>3, <2>7, <3>2
    <3>. QED
      BY <3>1, <3>2
  <2>. QED
    BY <1>1, <2>6, <2>8 DEF AnswersInv, IsEnvelope
<1>. QED
  BY <1>1, <1>2, <1>3

LEMMA CommitStep == ASSUME AnswersInv, CommitRun PROVE AnswersInv'
<1>1. /\ callResult' = [f \in CallFiles |-> Given(f)]
      /\ callChecked' = callChecked \union callRun.checked /\ callRun' = Idle /\ UNCHANGED <<callReq, callPushed>>
  BY DEF CommitRun, Given
<1>2. RunStands'
  BY <1>1, IdleRun DEF RunStands
<1>3. \A f \in CallFiles : Given(f)' = Given(f)
  BY <1>1, IdleRun DEF Given
<1>4. AnswersAgree'
  BY <1>3 DEF AnswersInv, AnswersAgree
<1>5. \A f \in CallFiles : callResult'[f] # NoEnvelope => IsEnvelope(callResult'[f]) /\ f \in callChecked'
  <2>. SUFFICES ASSUME NEW f \in CallFiles, Given(f) # NoEnvelope PROVE IsEnvelope(Given(f)) /\ f \in callChecked'
    BY <1>1
  <2>. QED
    BY <1>1 DEF Given, AnswersInv, RunStands
<1>. QED
  BY <1>1, <1>2, <1>4, <1>5 DEF AnswersInv, IsEnvelope

LEMMA AnswersStep == AnswersInv /\ [CallNext]_callVars => AnswersInv'
<1>. SUFFICES ASSUME AnswersInv, [CallNext]_callVars PROVE AnswersInv'
  OBVIOUS
<1>1. ASSUME UNCHANGED <<callResult, callChecked>>, callReq' \in [CallFiles -> CallRequests \union {"none"}],
             callPushed' \subseteq CallFiles,
             \/ UNCHANGED callRun
             \/ /\ HasFields(callRun', RunFields)
                /\ callRun'.result = callRun.result /\ callRun'.checked = callRun.checked
                /\ callRun'.todo = callRun.todo /\ callRun'.req = callRun.req
      PROVE  AnswersInv'
  <2>1. RunStands'
    BY <1>1 DEF AnswersInv, RunStands, IsEnvelope
  <2>2. \A f : Given(f)' = Given(f)
    BY <1>1 DEF Given
  <2>3. AnswersAgree'
    BY <2>2 DEF AnswersInv, AnswersAgree
  <2>. QED
    BY <1>1, <2>1, <2>3 DEF AnswersInv, IsEnvelope
<1>2. CASE UNCHANGED callVars \/ InstantPasses
  BY <1>1, <1>2 DEF callVars, InstantPasses, AnswersInv
<1>3. CASE RunDies
  BY <1>3, IdleStep DEF RunDies
<1>4. CASE ReverifyItem
  <2>1. callRun' = Idle \/ callRun' = [callRun EXCEPT !.again = Tail(callRun.again)]
    BY <1>4 DEF ReverifyItem
  <2>2. UNCHANGED <<callReq, callResult, callChecked, callPushed>>
    BY <1>4 DEF ReverifyItem
  <2>3. CASE callRun' = Idle
    BY <2>2, <2>3, IdleStep
  <2>4. CASE callRun' = [callRun EXCEPT !.again = Tail(callRun.again)]
    <3>1. /\ HasFields(callRun', RunFields)
          /\ callRun'.result = callRun.result /\ callRun'.checked = callRun.checked
          /\ callRun'.todo = callRun.todo /\ callRun'.req = callRun.req
      BY <2>4 DEF AnswersInv, RunStands, HasFields, RunFields
    <3>. QED
      BY <1>1, <2>2, <3>1 DEF AnswersInv
  <2>. QED
    BY <2>1, <2>3, <2>4
<1>5. ASSUME NEW f \in CallFiles, NEW c \in CallRequests, PushRequest(f, c) PROVE AnswersInv'
  <2>1. callReq' \in [CallFiles -> CallRequests \union {"none"}] /\ callPushed' \subseteq CallFiles
    BY <1>5 DEF PushRequest, AnswersInv
  <2>. QED
    BY <1>1, <1>5, <2>1 DEF PushRequest
<1>. QED
  BY <1>2, <1>3, <1>4, <1>5, PlanStep, ItemStep, CommitStep DEF CallNext, RunStep

LEMMA AnswersHold == AnswersInv => AnsweredOncePerKey /\ PublishedIsAllowed
<1>. SUFFICES ASSUME AnswersInv PROVE AnsweredOncePerKey /\ PublishedIsAllowed
  OBVIOUS
<1>1. \A f \in CallFiles : callResult[f].ok => callResult[f] # NoEnvelope
  BY DEF NoEnvelope
<1>2. \A f \in CallFiles : callResult[f] # NoEnvelope => Given(f) = callResult[f]
  BY DEF Given, AnswersInv, RunStands
<1>3. AnsweredOncePerKey
  BY <1>1, <1>2 DEF AnsweredOncePerKey, AnswersInv, AnswersAgree
<1>. QED
  BY <1>1, <1>3 DEF PublishedIsAllowed, AnswersInv, IsEnvelope

-------------------------------------------------------------------------------
(* The effect provider.                                                     *)

Requested == {f \in MarkFiles : markReq[f] \in MarkRequests}
AtWork == {"look", "prepare", "execute", "record", "verify", "deny"}
MarkReceipts == [state : {"none", "DENIED", "EXECUTED"}, of : MarkRequests \union {"none"}]

\* A sweep works through files that have a request; at the head of its list it
\* is as far as the branch says.
SweepStands ==
  /\ HasFields(sweep, {"todo", "step"}) /\ sweep.step \in AtWork \union {"asleep"}
  /\ sweep.step \in AtWork => sweep.todo \in Seq(Requested) /\ sweep.todo # <<>>
  /\ sweep.step \in AtWork \ {"look"} => verdict[ThisFile] = "none"
  /\ sweep.step = "prepare" => intent[ThisFile] = "none" /\ receipt[ThisFile].state = "none"

MarksShape ==
  /\ markReq \in [MarkFiles -> MarkRequests \union {"none"}]
  /\ intent \in [MarkFiles -> MarkRequests \union {"none"}]
  /\ marker \in [MarkKeys -> MarkRequests \union {"none"}]
  /\ verdict \in [MarkFiles -> {"none", "POSTCONDITION_VERIFIED", "DENIAL_VERIFIED"}]
  /\ receipt \in [MarkFiles -> MarkReceipts]

VerifiedIsIntended == \A f \in MarkFiles : verdict[f] = "POSTCONDITION_VERIFIED" => intent[f] # "none"

MarksInv == MarksShape /\ SweepStands /\ VerifiedIsIntended /\ EffectsAreBound

LEMMA MarksStart == MarkInit => MarksInv
<1>. SUFFICES ASSUME MarkInit PROVE MarksInv
  OBVIOUS
<1>1. Unwritten \in MarkReceipts /\ Unwritten.state = "none"
  BY DEF Unwritten, MarkReceipts
<1>2. SweepStands
  BY DEF MarkInit, SweepStands, Asleep, HasFields, AtWork
<1>. QED
  BY <1>1, <1>2 DEF MarkInit, MarksInv, MarksShape, VerifiedIsIntended, EffectsAreBound

\* What a sweep does to its list: the branch as it is then must bear the step
\* it goes to.
LEMMA SweepMoves ==
  ASSUME MarksInv, sweep.step \in AtWork, markReq' = markReq
  PROVE  /\ ThisFile \in MarkFiles /\ markReq[ThisFile] \in MarkRequests
         /\ NextFile => SweepStands'
         /\ Abort => SweepStands'
         /\ \A step \in AtWork \ {"look"} :
              /\ GoTo(step) /\ verdict'[ThisFile] = "none"
              /\ step = "prepare" => intent'[ThisFile] = "none" /\ receipt'[ThisFile].state = "none"
              => SweepStands'
<1>1. HasFields(sweep, {"todo", "step"}) /\ sweep.todo \in Seq(Requested) /\ sweep.todo # <<>>
  BY DEF MarksInv, SweepStands
<1>2. ThisFile \in Requested /\ Tail(sweep.todo) \in Seq(Requested)
      /\ (Len(sweep.todo) # 1 => Tail(sweep.todo) # <<>>)
  <2>1. sweep.todo \in Seq(Requested) /\ sweep.todo # <<>>
    BY <1>1
  <2>. DEFINE todo == sweep.todo
  <2>. HIDE DEF todo
  <2>2. todo \in Seq(Requested) /\ todo # <<>>
    BY <2>1 DEF todo
  <2>3. /\ Head(todo) \in Requested /\ Tail(todo) \in Seq(Requested) /\ Len(Tail(todo)) = Len(todo) - 1
        /\ Len(todo) \in Nat
    BY <2>2, HeadTailProperties, LenProperties
  <2>4. Len(todo) # 1 => Tail(todo) # <<>>
    <3>. DEFINE rest == Tail(todo)
                n == Len(todo)
    <3>1. Len(rest) = n - 1 /\ n \in Nat /\ rest \in Seq(Requested)
      BY <2>3
    <3>. HIDE DEF rest, n
    <3>2. rest = <<>> => Len(rest) = 0
      BY <3>1, EmptySeq
    <3>3. rest = <<>> => n = 1
      BY <3>1, <3>2
    <3>. QED
      BY <3>3 DEF rest, n
  <2>. QED
    BY <2>3, <2>4 DEF ThisFile, todo
<1>3. ThisFile \in MarkFiles /\ markReq[ThisFile] \in MarkRequests
  BY <1>2 DEF Requested
<1>4. Requested' = Requested
  BY DEF Requested
<1>5. Abort => SweepStands'
  BY DEF Abort, Asleep, SweepStands, HasFields, AtWork
<1>6. NextFile => SweepStands'
  <2>. SUFFICES ASSUME NextFile, Len(sweep.todo) # 1 PROVE SweepStands'
    BY <1>5 DEF NextFile, Abort
  <2>1. sweep' = [todo |-> Tail(sweep.todo), step |-> "look"]
    BY DEF NextFile
  <2>2. HasFields(sweep', {"todo", "step"}) /\ sweep'.todo = Tail(sweep.todo) /\ sweep'.step = "look"
    BY <2>1 DEF HasFields
  <2>. QED
    BY <1>2, <1>4, <2>2 DEF SweepStands, AtWork
<1>7. ASSUME NEW step \in AtWork \ {"look"}, GoTo(step), verdict'[ThisFile] = "none",
             step = "prepare" => intent'[ThisFile] = "none" /\ receipt'[ThisFile].state = "none"
      PROVE  SweepStands'
  <2>1. HasFields(sweep', {"todo", "step"}) /\ sweep'.todo = sweep.todo /\ sweep'.step = step
    BY <1>1, <1>7 DEF GoTo, HasFields
  <2>2. ThisFile' = ThisFile
    BY <2>1 DEF ThisFile
  <2>. QED
    BY <1>1, <1>4, <1>7, <2>1, <2>2 DEF SweepStands, AtWork
<1>. QED
  BY <1>3, <1>5, <1>6, <1>7

LEMMA SweepBegins == ASSUME MarksInv, StartSweep PROVE MarksInv'
<1>. DEFINE present == {f \in MarkFiles : markReq[f] # "none"}
<1>1. /\ present # {} /\ sweep' = [step |-> "look", todo |-> Sorted(present)]
      /\ UNCHANGED <<markReq, intent, marker, receipt, verdict>>
  BY DEF StartSweep
<1>2. present \in SUBSET Nat /\ IsFiniteSet(present) /\ present = Requested
  <2>1. present \in SUBSET MarkFiles
    OBVIOUS
  <2>2. present = Requested
    BY MarkAssumption DEF Requested, MarksInv, MarksShape
  <2>. HIDE DEF present
  <2>. QED
    BY <2>1, <2>2, MarkAssumption, FS_Subset
<1>. HIDE DEF present
<1>3. Sorted(present) \in Seq(Requested) /\ Sorted(present) # <<>>
  BY <1>1, <1>2, SortedNames
<1>4. HasFields(sweep', {"todo", "step"}) /\ sweep'.todo = Sorted(present) /\ sweep'.step = "look"
  BY <1>1 DEF HasFields
<1>5. Requested' = Requested
  BY <1>1 DEF Requested
<1>6. SweepStands'
  BY <1>3, <1>4, <1>5 DEF SweepStands, AtWork
<1>. QED
  BY <1>1, <1>6 DEF MarksInv, MarksShape, VerifiedIsIntended, EffectsAreBound, ResultBody

LEMMA LookStep == ASSUME MarksInv, LookAt PROVE MarksInv'
<1>1. /\ sweep.step \in AtWork /\ UNCHANGED <<markReq, intent, marker, receipt, verdict>>
      /\ \/ NextFile
         \/ /\ verdict[ThisFile] = "none"
            /\ \/ GoTo("deny") \/ GoTo("execute")
               \/ /\ GoTo("prepare") /\ intent[ThisFile] = "none"
                  /\ ~(receipt[ThisFile].state # "none" /\ intent[ThisFile] = "none")
  BY DEF LookAt, AtWork
<1>2. SweepStands'
  BY <1>1, SweepMoves DEF AtWork
<1>. QED
  BY <1>1, <1>2 DEF MarksInv, MarksShape, VerifiedIsIntended, EffectsAreBound, ResultBody

LEMMA PrepareStep == ASSUME MarksInv, PrepareFile PROVE MarksInv'
<1>. DEFINE f == ThisFile
            c == markReq[ThisFile]
<1>1. /\ sweep.step = "prepare" /\ UNCHANGED <<markReq, marker, verdict>>
      /\ \/ Abort /\ UNCHANGED <<intent, receipt>>
         \/ receipt' = [receipt EXCEPT ![f] = [state |-> "DENIED", of |-> c]] /\ GoTo("deny") /\ UNCHANGED intent
         \/ /\ GuardianDecision(c) /\ intent' = [intent EXCEPT ![f] = c] /\ GoTo("execute") /\ UNCHANGED receipt
  BY DEF PrepareFile
<1>2. /\ f \in MarkFiles /\ c \in MarkRequests /\ verdict[f] = "none" /\ intent[f] = "none"
      /\ receipt[f].state = "none" /\ c # "none"
  BY <1>1, SweepMoves, MarkAssumption DEF AtWork, MarksInv, SweepStands
<1>3. SweepStands'
  BY <1>1, <1>2, SweepMoves DEF AtWork
<1>. HIDE DEF f, c
<1>4. CASE UNCHANGED <<intent, receipt>>
  BY <1>1, <1>3, <1>4 DEF MarksInv, MarksShape, VerifiedIsIntended, EffectsAreBound, ResultBody
<1>5. CASE receipt' = [receipt EXCEPT ![f] = [state |-> "DENIED", of |-> c]] /\ UNCHANGED intent
  <2>1. [state |-> "DENIED", of |-> c] \in MarkReceipts
    BY <1>2 DEF MarkReceipts
  <2>2. MarksShape'
    BY <1>1, <1>2, <1>5, <2>1 DEF MarksInv, MarksShape
  <2>3. receipt'[f].state = "DENIED" /\ \A g \in MarkFiles : g # f => receipt'[g] = receipt[g]
    BY <1>2, <1>5 DEF MarksInv, MarksShape
  <2>4. EffectsAreBound'
    BY <1>1, <1>2, <1>5, <2>3 DEF MarksInv, EffectsAreBound, ResultBody
  <2>. QED
    BY <1>1, <1>3, <1>5, <2>2, <2>4 DEF MarksInv, VerifiedIsIntended
<1>6. CASE GuardianDecision(c) /\ intent' = [intent EXCEPT ![f] = c] /\ UNCHANGED receipt
  <2>1. MarksShape'
    BY <1>1, <1>2, <1>6 DEF MarksInv, MarksShape
  <2>2. intent'[f] = c /\ \A g \in MarkFiles : g # f => intent'[g] = intent[g]
    BY <1>2, <1>6 DEF MarksInv, MarksShape
  <2>3. EffectsAreBound'
    BY <1>1, <1>2, <1>6, <2>2 DEF MarksInv, EffectsAreBound, ResultBody
  <2>. QED
    BY <1>1, <1>2, <1>3, <2>1, <2>2, <2>3 DEF MarksInv, VerifiedIsIntended
<1>. QED
  BY <1>1, <1>4, <1>5, <1>6

LEMMA ExecuteStep == ASSUME MarksInv, ExecuteFile PROVE MarksInv'
<1>. DEFINE f == ThisFile
            c == ExpectedMarker(ThisFile)
<1>1. /\ sweep.step = "execute" /\ UNCHANGED <<markReq, intent, receipt, verdict>>
      /\ \/ Abort /\ UNCHANGED marker
         \/ /\ c # "refused" /\ marker[KeyOf(c)] \in {"none", c}
            /\ marker' = [marker EXCEPT ![KeyOf(c)] = c] /\ GoTo("record")
  BY DEF ExecuteFile
<1>2. f \in MarkFiles /\ markReq[f] \in MarkRequests /\ verdict[f] = "none"
  BY <1>1, SweepMoves DEF AtWork, MarksInv, SweepStands
<1>3. SweepStands'
  BY <1>1, <1>2, SweepMoves DEF AtWork
<1>4. c # "refused" => c = intent[f] /\ c \in MarkRequests /\ KeyOf(c) \in MarkKeys
  BY <1>2 DEF ExpectedMarker, KeyOf, MarkKeys
<1>. HIDE DEF f, c
<1>5. CASE UNCHANGED marker
  BY <1>1, <1>3, <1>5 DEF MarksInv, MarksShape, VerifiedIsIntended, EffectsAreBound, ResultBody
<1>6. CASE /\ c # "refused" /\ marker[KeyOf(c)] \in {"none", c}
           /\ marker' = [marker EXCEPT ![KeyOf(c)] = c]
  <2>1. MarksShape'
    BY <1>1, <1>4, <1>6 DEF MarksInv, MarksShape
  <2>2. marker'[KeyOf(c)] = c /\ \A k \in MarkKeys : k # KeyOf(c) => marker'[k] = marker[k]
    BY <1>4, <1>6 DEF MarksInv, MarksShape
  <2>3. ASSUME NEW g \in MarkFiles, verdict[g] = "POSTCONDITION_VERIFIED"
        PROVE  marker'[KeyOf(intent[g])] = intent[g]
    <3>1. marker[KeyOf(intent[g])] = intent[g] /\ intent[g] # "none"
      BY <2>3 DEF MarksInv, EffectsAreBound, VerifiedIsIntended
    <3>2. KeyOf(intent[g]) \in MarkKeys
      BY <3>1 DEF MarksInv, MarksShape, KeyOf, MarkKeys
    <3>. QED
      BY <1>6, <2>2, <3>1, <3>2
  <2>4. EffectsAreBound'
    BY <1>1, <1>2, <1>4, <1>6, <2>2, <2>3 DEF MarksInv, EffectsAreBound, ResultBody
  <2>. QED
    BY <1>1, <1>3, <2>1, <2>4 DEF MarksInv, VerifiedIsIntended
<1>. QED
  BY <1>1, <1>5, <1>6

LEMMA RecordStep == ASSUME MarksInv, RecordFile PROVE MarksInv'
<1>. DEFINE f == ThisFile
<1>1. /\ sweep.step = "record" /\ UNCHANGED <<markReq, intent, marker, verdict>>
      /\ \/ Abort /\ UNCHANGED receipt
         \/ receipt' = [receipt EXCEPT ![f] = ResultBody(f)] /\ GoTo("verify")
  BY DEF RecordFile
<1>2. f \in MarkFiles /\ verdict[f] = "none"
  BY <1>1, SweepMoves DEF AtWork, MarksInv, SweepStands
<1>3. SweepStands'
  BY <1>1, <1>2, SweepMoves DEF AtWork
<1>. HIDE DEF f
<1>4. CASE UNCHANGED receipt
  BY <1>1, <1>3, <1>4 DEF MarksInv, MarksShape, VerifiedIsIntended, EffectsAreBound, ResultBody
<1>5. CASE receipt' = [receipt EXCEPT ![f] = ResultBody(f)]
  <2>1. ResultBody(f) \in MarkReceipts /\ ResultBody(f).state = "EXECUTED"
    BY <1>2 DEF ResultBody, MarkReceipts, MarksInv, MarksShape
  <2>2. MarksShape'
    BY <1>1, <1>5, <2>1 DEF MarksInv, MarksShape
  <2>3. receipt'[f].state = "EXECUTED" /\ \A g \in MarkFiles : g # f => receipt'[g] = receipt[g]
    BY <1>2, <1>5, <2>1 DEF MarksInv, MarksShape
  <2>4. \A g \in MarkFiles : ResultBody(g)' = ResultBody(g)
    BY <1>1 DEF ResultBody
  <2>5. EffectsAreBound'
    BY <1>1, <1>2, <2>3, <2>4 DEF MarksInv, EffectsAreBound
  <2>. QED
    BY <1>1, <1>3, <2>2, <2>5 DEF MarksInv, VerifiedIsIntended
<1>. QED
  BY <1>1, <1>4, <1>5

LEMMA VerdictStep == ASSUME MarksInv, VerifyExecuted \/ VerifyDenied PROVE MarksInv'
<1>. DEFINE f == ThisFile
            c == markReq[ThisFile]
<1>1. /\ sweep.step \in AtWork /\ UNCHANGED <<markReq, intent, marker, receipt>>
      /\ \/ Abort /\ UNCHANGED verdict
         \/ /\ intent[f] = c /\ receipt[f] = [state |-> "EXECUTED", of |-> c] /\ marker[KeyOf(c)] = c
            /\ verdict' = [verdict EXCEPT ![f] = "POSTCONDITION_VERIFIED"] /\ NextFile
         \/ verdict' = [verdict EXCEPT ![f] = "DENIAL_VERIFIED"] /\ NextFile
  BY DEF VerifyExecuted, VerifyDenied, AtWork
<1>2. f \in MarkFiles /\ c \in MarkRequests /\ c # "none"
  BY <1>1, SweepMoves, MarkAssumption
<1>3. SweepStands'
  BY <1>1, SweepMoves
<1>. HIDE DEF f, c
<1>4. MarksShape'
  BY <1>1, <1>2 DEF MarksInv, MarksShape
<1>5. \A g \in MarkFiles : ResultBody(g)' = ResultBody(g)
  BY <1>1 DEF ResultBody
<1>6. \A g \in MarkFiles : verdict'[g] = "POSTCONDITION_VERIFIED" =>
        \/ verdict[g] = "POSTCONDITION_VERIFIED"
        \/ /\ intent[g] # "none" /\ receipt[g] = ResultBody(g) /\ marker[KeyOf(intent[g])] = intent[g]
  <2>1. CASE UNCHANGED verdict
    BY <2>1
  <2>2. CASE verdict' = [verdict EXCEPT ![f] = "DENIAL_VERIFIED"]
    BY <1>2, <2>2 DEF MarksInv, MarksShape
  <2>3. CASE /\ intent[f] = c /\ receipt[f] = [state |-> "EXECUTED", of |-> c] /\ marker[KeyOf(c)] = c
             /\ verdict' = [verdict EXCEPT ![f] = "POSTCONDITION_VERIFIED"]
    BY <1>2, <2>3 DEF MarksInv, MarksShape, ResultBody
  <2>. QED
    BY <1>1, <2>1, <2>2, <2>3
<1>7. EffectsAreBound' /\ VerifiedIsIntended'
  BY <1>1, <1>5, <1>6 DEF MarksInv, EffectsAreBound, VerifiedIsIntended
<1>. QED
  BY <1>3, <1>4, <1>7 DEF MarksInv

LEMMA MarksStep == MarksInv /\ [MarkNext]_markVars => MarksInv'
<1>. SUFFICES ASSUME MarksInv, [MarkNext]_markVars PROVE MarksInv'
  OBVIOUS
<1>1. ASSUME UNCHANGED <<intent, marker, receipt, verdict>>, SweepStands',
             markReq' \in [MarkFiles -> MarkRequests \union {"none"}]
      PROVE  MarksInv'
  BY <1>1 DEF MarksInv, MarksShape, VerifiedIsIntended, EffectsAreBound, ResultBody
<1>2. ASSUME UNCHANGED <<intent, marker, receipt, verdict, sweep>>, Requested \subseteq Requested' PROVE SweepStands'
  <2>1. ThisFile' = ThisFile
    BY <1>2 DEF ThisFile
  <2>2. sweep.todo \in Seq(Requested) => sweep.todo \in Seq(Requested')
    BY <1>2, SeqMonotonic
  <2>. QED
    BY <1>2, <2>1, <2>2 DEF MarksInv, SweepStands
<1>3. CASE UNCHANGED markVars \/ MarkInstantPasses
  <2>1. UNCHANGED <<markReq, intent, marker, receipt, verdict, sweep>>
    BY <1>3 DEF markVars, MarkInstantPasses
  <2>2. Requested \subseteq Requested'
    BY <2>1 DEF Requested
  <2>. QED
    BY <1>1, <1>2, <2>1, <2>2 DEF MarksInv, MarksShape
<1>4. CASE SweepDies
  <2>1. SweepStands'
    BY <1>4 DEF SweepDies, Abort, Asleep, SweepStands, HasFields, AtWork
  <2>. QED
    BY <1>1, <1>4, <2>1 DEF SweepDies, MarksInv, MarksShape
<1>5. ASSUME NEW f \in MarkFiles, NEW c \in MarkRequests, PushEffect(f, c) PROVE MarksInv'
  <2>1. /\ markReq' \in [MarkFiles -> MarkRequests \union {"none"}]
        /\ UNCHANGED <<intent, marker, receipt, verdict, sweep>>
        /\ \A g \in MarkFiles : markReq'[g] = markReq[g] \/ markReq'[g] = c
    BY <1>5 DEF PushEffect, MarksInv, MarksShape
  <2>2. Requested \subseteq Requested'
    BY <2>1 DEF Requested
  <2>. QED
    BY <1>1, <1>2, <2>1, <2>2
<1>. QED
  BY <1>3, <1>4, <1>5, SweepBegins, LookStep, PrepareStep, ExecuteStep, RecordStep, VerdictStep DEF MarkNext

-------------------------------------------------------------------------------
(* The bridge.                                                              *)

\* The elements of a sequence are its first and those of the rest.
LEMMA FirstAndRest ==
  ASSUME NEW s, IsSequence(s), s # <<>>
  PROVE  /\ IsSequence(Tail(s)) /\ Len(s) \in Nat /\ Len(Tail(s)) = Len(s) - 1
         /\ {s[i] : i \in DOMAIN s} = {Head(s)} \union {Tail(s)[i] : i \in DOMAIN Tail(s)}
         /\ DOMAIN s = 1..Len(s) /\ \A i \in 1..(Len(s) - 1) : Tail(s)[i] = s[i + 1]
<1>1. PICK S : s \in Seq(S)
  BY DEF IsSequence
<1>2. /\ Len(s) \in Nat /\ Len(s) >= 1 /\ DOMAIN s = 1..Len(s) /\ Head(s) = s[1]
      /\ Tail(s) \in Seq(S) /\ Len(Tail(s)) = Len(s) - 1
      /\ \A i \in 1..(Len(s) - 1) : Tail(s)[i] = s[i + 1]
  BY <1>1, HeadTailProperties, LenProperties, EmptySeq
<1>3. DOMAIN Tail(s) = 1..(Len(s) - 1)
  BY <1>2, LenProperties
<1>4. ASSUME NEW i \in 1..Len(s) PROVE s[i] = Head(s) \/ \E k \in 1..(Len(s) - 1) : s[i] = Tail(s)[k]
  <2>1. CASE i = 1
    BY <1>2, <2>1
  <2>2. CASE i # 1
    <3>1. i - 1 \in 1..(Len(s) - 1) /\ (i - 1) + 1 = i
      BY <1>2, <2>2
    <3>. QED
      BY <1>2, <3>1
  <2>. QED
    BY <2>1, <2>2
<1>5. ASSUME NEW k \in 1..(Len(s) - 1) PROVE \E i \in 1..Len(s) : Tail(s)[k] = s[i]
  <2>1. k + 1 \in 1..Len(s)
    BY <1>2
  <2>. QED
    BY <1>2, <2>1
<1>6. 1 \in 1..Len(s)
  BY <1>2
<1>7. {s[i] : i \in DOMAIN s} = {Head(s)} \union {Tail(s)[i] : i \in DOMAIN Tail(s)}
  <2>1. \A i \in DOMAIN s : s[i] \in {Head(s)} \union {Tail(s)[k] : k \in DOMAIN Tail(s)}
    BY <1>2, <1>3, <1>4
  <2>2. Head(s) \in {s[i] : i \in DOMAIN s}
    BY <1>2, <1>6
  <2>3. \A k \in DOMAIN Tail(s) : Tail(s)[k] \in {s[i] : i \in DOMAIN s}
    BY <1>2, <1>3, <1>5
  <2>. QED
    BY <2>1, <2>2, <2>3
<1>. QED
  BY <1>2, <1>7 DEF IsSequence

CallerFields == {"step", "call", "job"}
TokenStates == {"unissued", "issued", "expired", "used"}

\* The call a process is about to submit a job for, and what pays for it.
Paying(p) == bridge[p].step = "submit" /\ CallSays[bridge[p].call].capability \notin AutoLocal
Payment(p) == CallSays[bridge[p].call].token

IsPaid(token, capability) ==
  token # "none" /\ token \in UserTokens /\ grants[token] = "used" /\ TokenCapability[token] = capability

\* What pays for that job is a used token of its capability.
PaymentMade(p) == IsPaid(Payment(p), CallSays[bridge[p].call].capability)

\* A used token is in the hands of one caller that is about to submit, or on
\* one job.
PaymentsInv ==
  /\ grants \in [UserTokens -> TokenStates] /\ IsSequence(c05Queue)
  /\ DOMAIN bridge = Callers
  /\ \A p \in Callers :
       /\ HasFields(bridge[p], CallerFields)
       /\ bridge[p].step = "approve" => bridge[p].call \in BridgeCalls
       /\ Paying(p) => /\ PaymentMade(p)
                       /\ \A j \in C05Jobs : j.token # Payment(p)
                       /\ \A q \in Callers : Paying(q) /\ Payment(q) = Payment(p) => q = p
  /\ \A j \in C05Jobs :
       /\ j.capability \in AutoLocal => j.token = "none"
       /\ j.capability \notin AutoLocal =>
            IsPaid(j.token, j.capability) /\ \A k \in C05Jobs : k.token = j.token => k = j

LEMMA PaymentsStart == HermesInit => PaymentsInv
<1>. SUFFICES ASSUME HermesInit PROVE PaymentsInv
  OBVIOUS
<1>1. <<>> \in Seq({}) /\ DOMAIN <<>> = {}
  OBVIOUS
<1>2. IsSequence(c05Queue) /\ C05Jobs = {}
  BY <1>1 DEF HermesInit, IsSequence, C05Jobs
<1>3. HasFields(AtRest, CallerFields) /\ AtRest.step = "rest"
  BY DEF AtRest, HasFields, CallerFields
<1>. QED
  BY <1>2, <1>3 DEF HermesInit, PaymentsInv, Paying, TokenStates

\* A caller that is not about to submit, before a step or after it.
LEMMA CallerMoves ==
  ASSUME PaymentsInv, NEW p \in Callers, NEW row, bridge' = [bridge EXCEPT ![p] = row],
         HasFields(row, CallerFields), row.step = "submit" => CallSays[row.call].capability \in AutoLocal,
         row.step = "approve" => row.call \in BridgeCalls,
         UNCHANGED grants, C05Jobs' = C05Jobs, IsSequence(c05Queue')
  PROVE  PaymentsInv'
<1>1. /\ DOMAIN bridge' = Callers /\ bridge'[p] = row
      /\ \A q \in Callers : q # p => bridge'[q] = bridge[q]
  BY DEF PaymentsInv
<1>2. \A q \in Callers : /\ HasFields(bridge'[q], CallerFields)
                         /\ bridge'[q].step = "approve" => bridge'[q].call \in BridgeCalls
  BY <1>1 DEF PaymentsInv
<1>3. \A q \in Callers : Paying(q)' => q # p /\ Paying(q)
  BY <1>1 DEF Paying
<1>4. \A q \in Callers : q # p => Payment(q)' = Payment(q)
  BY <1>1 DEF Payment
<1>5. \A t, c : IsPaid(t, c)' = IsPaid(t, c)
  BY DEF IsPaid
<1>. HIDE DEF C05Jobs
<1>. QED
  BY <1>1, <1>2, <1>3, <1>4, <1>5 DEF PaymentsInv, PaymentMade

\* Tokens are issued and lapse, but one that is used stays so.
LEMMA TokensLapse ==
  ASSUME PaymentsInv, NEW t \in UserTokens, NEW v \in TokenStates, grants[t] # "used",
         grants' = [grants EXCEPT ![t] = v], UNCHANGED <<bridge, c05Queue, c05Done>>
  PROVE  PaymentsInv'
<1>1. grants' \in [UserTokens -> TokenStates] /\ \A u \in UserTokens : grants[u] = "used" => grants'[u] = "used"
  BY DEF PaymentsInv
<1>2. \A u, c : IsPaid(u, c) => IsPaid(u, c)'
  BY <1>1 DEF IsPaid
<1>3. C05Jobs' = C05Jobs /\ IsSequence(c05Queue')
  BY DEF C05Jobs, PaymentsInv
<1>4. \A p \in Callers : Paying(p)' = Paying(p) /\ Payment(p)' = Payment(p)
  BY DEF Paying, Payment
<1>. HIDE DEF C05Jobs, Paying, Payment, IsPaid
<1>. QED
  BY <1>1, <1>2, <1>3, <1>4 DEF PaymentsInv, PaymentMade

LEMMA ApproveStep == ASSUME PaymentsInv, NEW p \in Callers, Approve(p) PROVE PaymentsInv'
<1>. DEFINE s == CallSays[bridge[p].call]
            row == [bridge[p] EXCEPT !.step = "submit"]
<1>1. UNCHANGED <<c05Queue, c05Done>> /\ bridge[p].step = "approve" /\ HasFields(bridge[p], CallerFields)
  BY DEF Approve, PaymentsInv
<1>2. /\ HasFields(row, CallerFields) /\ row.step = "submit" /\ row.call = bridge[p].call
      /\ HasFields(AtRest, CallerFields) /\ AtRest.step = "rest"
  BY <1>1 DEF HasFields, CallerFields, AtRest
<1>3. C05Jobs' = C05Jobs /\ IsSequence(c05Queue')
  BY <1>1 DEF C05Jobs, PaymentsInv
<1>4. CASE s.capability \in Registered \intersect AutoLocal
  <2>1. bridge' = [bridge EXCEPT ![p] = row] /\ UNCHANGED grants
    BY <1>4 DEF Approve
  <2>. QED
    BY <1>2, <1>3, <1>4, <2>1, CallerMoves
<1>5. CASE FailCall(p) /\ UNCHANGED grants
  <2>1. bridge' = [bridge EXCEPT ![p] = AtRest]
    BY <1>5 DEF FailCall
  <2>. QED
    BY <1>2, <1>3, <1>5, <2>1, CallerMoves
<1>6. CASE /\ s.capability \in Registered /\ s.capability \notin AutoLocal
           /\ Consumable(s.token, s.capability) /\ grants' = [grants EXCEPT ![s.token] = "used"]
           /\ bridge' = [bridge EXCEPT ![p] = row]
  <2>1. /\ s.token # "none" /\ s.token \in UserTokens /\ grants[s.token] = "issued"
        /\ TokenCapability[s.token] = s.capability
    <3>1. s.token # "none" /\ TokenCapability[s.token] = s.capability /\ grants[s.token] = "issued"
      BY <1>6 DEF Consumable
    <3>2. bridge[p].call \in BridgeCalls
      BY <1>1 DEF PaymentsInv
    <3>3. s.token \in UserTokens
      BY <3>1, <3>2, HermesAssumption
    <3>. QED
      BY <3>1, <3>3
  <2>2. /\ grants' \in [UserTokens -> TokenStates] /\ grants'[s.token] = "used"
        /\ \A u \in UserTokens : grants[u] = "used" => grants'[u] = "used"
    BY <1>6, <2>1 DEF PaymentsInv, TokenStates
  <2>3. \A u, c : IsPaid(u, c) => IsPaid(u, c)' /\ u # s.token
    BY <2>1, <2>2 DEF IsPaid
  <2>4. \A t, c : t # "none" /\ t \in UserTokens /\ TokenCapability[t] = c /\ grants'[t] = "used" => IsPaid(t, c)'
    BY DEF IsPaid
  <2>5. /\ DOMAIN bridge' = Callers /\ bridge'[p] = row
        /\ \A q \in Callers : q # p => bridge'[q] = bridge[q]
    BY <1>6 DEF PaymentsInv
  <2>6. /\ Payment(p)' = s.token /\ CallSays[bridge'[p].call].capability = s.capability
        /\ \A q \in Callers : q # p => Paying(q)' = Paying(q) /\ Payment(q)' = Payment(q)
    BY <1>2, <2>5 DEF Paying, Payment
  <2>7. \A j \in C05Jobs : j.token # s.token
    <3>. SUFFICES ASSUME NEW j \in C05Jobs, j.token = s.token PROVE FALSE
      OBVIOUS
    <3>1. IsPaid(j.token, j.capability)
      BY <2>1 DEF PaymentsInv
    <3>. QED
      BY <2>3, <3>1
  <2>8. \A q \in Callers : /\ HasFields(bridge'[q], CallerFields)
                           /\ bridge'[q].step = "approve" => bridge'[q].call \in BridgeCalls
    BY <1>2, <2>5 DEF PaymentsInv
  <2>. HIDE DEF C05Jobs, Paying, Payment, IsPaid, row
  <2>9. \A q \in Callers : Paying(q)' =>
          /\ PaymentMade(q)'
          /\ \A j \in C05Jobs : j.token # Payment(q)'
          /\ \A r \in Callers : Paying(r)' /\ Payment(r)' = Payment(q)' => r = q
    <3>. SUFFICES ASSUME NEW q \in Callers, Paying(q)'
         PROVE  /\ PaymentMade(q)'
                /\ \A j \in C05Jobs : j.token # Payment(q)'
                /\ \A r \in Callers : Paying(r)' /\ Payment(r)' = Payment(q)' => r = q
      OBVIOUS
    <3>1. \A r \in Callers : r # p /\ Paying(r) => Payment(r) # s.token
      BY <2>3 DEF PaymentsInv, PaymentMade
    <3>2. CASE q = p
      <4>1. PaymentMade(p)'
        BY <2>1, <2>2, <2>4, <2>6 DEF PaymentMade
      <4>. QED
        BY <2>6, <2>7, <3>1, <3>2, <4>1
    <3>3. CASE q # p
      <4>1. PaymentMade(q) /\ PaymentMade(q)'
        BY <2>3, <2>5, <2>6, <3>3 DEF PaymentsInv, PaymentMade
      <4>2. \A j \in C05Jobs : j.token # Payment(q)
        BY <2>6, <3>3 DEF PaymentsInv
      <4>3. \A r \in Callers : Paying(r)' /\ Payment(r)' = Payment(q)' => r = q
        BY <2>6, <3>1, <3>3 DEF PaymentsInv
      <4>. QED
        BY <2>6, <3>3, <4>1, <4>2, <4>3
    <3>. QED
      BY <3>2, <3>3
  <2>. QED
    BY <1>3, <2>2, <2>3, <2>5, <2>8, <2>9 DEF PaymentsInv
<1>. QED
  BY <1>4, <1>5, <1>6 DEF Approve

LEMMA SubmitStep == ASSUME PaymentsInv, NEW p \in Callers, SubmitC05(p) PROVE PaymentsInv'
<1>. DEFINE s == CallSays[bridge[p].call]
            number == Len(c05Queue) + Cardinality(c05Done) + 1
            job == [id |-> number, capability |-> s.capability,
                    token |-> IF s.capability \in AutoLocal THEN "none" ELSE s.token]
            row == [bridge[p] EXCEPT !.step = "run", !.job = number]
<1>1. /\ bridge[p].step = "submit" /\ c05Queue' = Append(c05Queue, job)
      /\ bridge' = [bridge EXCEPT ![p] = row] /\ UNCHANGED <<grants, c05Done>>
  BY DEF SubmitC05
<1>2. HasFields(row, CallerFields) /\ row.step = "run"
  <2>1. HasFields(bridge[p], CallerFields)
    BY DEF PaymentsInv
  <2>. HIDE DEF number
  <2>. QED
    BY <2>1 DEF HasFields, CallerFields
<1>3. job.capability = s.capability /\ job.token = IF s.capability \in AutoLocal THEN "none" ELSE s.token
  OBVIOUS
<1>. HIDE DEF row, job
<1>4. IsSequence(c05Queue') /\ C05Jobs' = C05Jobs \union {job}
  <2>1. /\ IsSequence(Append(c05Queue, job))
        /\ DOMAIN Append(c05Queue, job) = DOMAIN c05Queue \union {Len(c05Queue) + 1}
        /\ Append(c05Queue, job)[Len(c05Queue) + 1] = job
        /\ \A i \in DOMAIN c05Queue : Append(c05Queue, job)[i] = c05Queue[i]
    BY AppendedSequence DEF PaymentsInv
  <2>2. {Append(c05Queue, job)[i] : i \in DOMAIN Append(c05Queue, job)}
          = {c05Queue[i] : i \in DOMAIN c05Queue} \union {job}
    BY <2>1
  <2>. QED
    BY <1>1, <2>1, <2>2 DEF C05Jobs
<1>5. /\ DOMAIN bridge' = Callers /\ bridge'[p] = row
      /\ \A q \in Callers : q # p => bridge'[q] = bridge[q]
  BY <1>1 DEF PaymentsInv
<1>6. /\ ~Paying(p)'
      /\ \A q \in Callers : q # p => Paying(q)' = Paying(q) /\ Payment(q)' = Payment(q)
  BY <1>2, <1>5 DEF Paying, Payment
<1>7. \A t, c : IsPaid(t, c)' = IsPaid(t, c)
  BY <1>1 DEF IsPaid
<1>8. CASE s.capability \in AutoLocal
  <2>1. job.token = "none" /\ job.capability \in AutoLocal
    BY <1>3, <1>8
  <2>2. \A t, c : IsPaid(t, c) => t # "none"
    BY DEF IsPaid
  <2>. HIDE DEF C05Jobs, Paying, Payment, IsPaid
  <2>. QED
    BY <1>1, <1>2, <1>4, <1>5, <1>6, <1>7, <2>1, <2>2 DEF PaymentsInv, PaymentMade
<1>9. CASE s.capability \notin AutoLocal
  <2>1. job.token = Payment(p) /\ job.capability = s.capability /\ Paying(p)
    BY <1>1, <1>3, <1>9 DEF Payment, Paying
  <2>2. /\ IsPaid(job.token, s.capability) /\ \A j \in C05Jobs : j.token # Payment(p)
        /\ \A q \in Callers : Paying(q) /\ Payment(q) = Payment(p) => q = p
    BY <2>1 DEF PaymentsInv, PaymentMade
  <2>. HIDE DEF C05Jobs, Paying, Payment, IsPaid
  <2>. QED
    <3>1. \A q \in Callers : /\ HasFields(bridge'[q], CallerFields)
                             /\ bridge'[q].step = "approve" => bridge'[q].call \in BridgeCalls
      BY <1>2, <1>5 DEF PaymentsInv
    <3>2. \A q \in Callers : Paying(q)' =>
            /\ PaymentMade(q)' /\ \A j \in C05Jobs' : j.token # Payment(q)'
            /\ \A r \in Callers : Paying(r)' /\ Payment(r)' = Payment(q)' => r = q
      <4>. SUFFICES ASSUME NEW q \in Callers, Paying(q)'
           PROVE  /\ PaymentMade(q)' /\ \A j \in C05Jobs' : j.token # Payment(q)'
                  /\ \A r \in Callers : Paying(r)' /\ Payment(r)' = Payment(q)' => r = q
        OBVIOUS
      <4>1. q # p /\ Paying(q) /\ Payment(q)' = Payment(q)
        BY <1>6
      <4>2. PaymentMade(q)' /\ \A j \in C05Jobs : j.token # Payment(q)
        BY <1>5, <1>7, <4>1 DEF PaymentsInv, PaymentMade
      <4>3. Payment(q) # job.token
        BY <2>1, <2>2, <4>1
      <4>4. \A r \in Callers : Paying(r)' /\ Payment(r)' = Payment(q)' => r = q
        BY <1>6, <4>1 DEF PaymentsInv
      <4>. QED
        BY <1>4, <4>1, <4>2, <4>3, <4>4
    <3>3. \A j \in C05Jobs' :
            /\ j.capability \in AutoLocal => j.token = "none"
            /\ j.capability \notin AutoLocal =>
                 IsPaid(j.token, j.capability)' /\ \A k \in C05Jobs' : k.token = j.token => k = j
      <4>. SUFFICES ASSUME NEW j \in C05Jobs'
           PROVE  /\ j.capability \in AutoLocal => j.token = "none"
                  /\ j.capability \notin AutoLocal =>
                       IsPaid(j.token, j.capability)' /\ \A k \in C05Jobs' : k.token = j.token => k = j
        OBVIOUS
      <4>1. CASE j = job
        BY <1>3, <1>4, <1>7, <1>9, <2>1, <2>2, <4>1
      <4>2. CASE j \in C05Jobs
        BY <1>4, <1>7, <2>1, <2>2, <4>2 DEF PaymentsInv
      <4>. QED
        BY <1>4, <4>1, <4>2
    <3>. QED
      BY <1>1, <1>4, <1>5, <3>1, <3>2, <3>3 DEF PaymentsInv
<1>. QED
  BY <1>8, <1>9

LEMMA RunStepOfBridge == ASSUME PaymentsInv, NEW p \in Callers, RunC05(p) PROVE PaymentsInv'
<1>. DEFINE row == [bridge[p] EXCEPT !.step = "read"]
<1>1. HasFields(row, CallerFields) /\ row.step = "read"
  BY DEF PaymentsInv, HasFields, CallerFields
<1>2. bridge' = [bridge EXCEPT ![p] = row] /\ UNCHANGED grants
  BY DEF RunC05
<1>3. C05Jobs' = C05Jobs /\ IsSequence(c05Queue')
  <2>1. CASE c05Queue = <<>>
    BY <2>1 DEF RunC05, C05Jobs, PaymentsInv
  <2>2. CASE c05Queue # <<>>
    <3>1. c05Queue' = Tail(c05Queue) /\ c05Done' = c05Done \union {Head(c05Queue)}
      BY <2>2 DEF RunC05
    <3>2. /\ IsSequence(Tail(c05Queue))
          /\ {c05Queue[i] : i \in DOMAIN c05Queue}
               = {Head(c05Queue)} \union {Tail(c05Queue)[i] : i \in DOMAIN Tail(c05Queue)}
      BY <2>2, FirstAndRest DEF PaymentsInv
    <3>. QED
      BY <3>1, <3>2 DEF C05Jobs
  <2>. QED
    BY <2>1, <2>2
<1>. HIDE DEF row
<1>. QED
  BY <1>1, <1>2, <1>3, CallerMoves

LEMMA PaymentsStep == PaymentsInv /\ [HermesNext]_bridgeVars => PaymentsInv'
<1>. SUFFICES ASSUME PaymentsInv, [HermesNext]_bridgeVars PROVE PaymentsInv'
  OBVIOUS
<1>1. UNCHANGED <<c05Queue, c05Done>> => C05Jobs' = C05Jobs /\ IsSequence(c05Queue')
  BY DEF C05Jobs, PaymentsInv
<1>2. HasFields(AtRest, CallerFields) /\ AtRest.step = "rest"
  BY DEF AtRest, HasFields, CallerFields
<1>3. CASE UNCHANGED bridgeVars
  <2>1. UNCHANGED <<grants, c05Queue, c05Done, bridge>>
    BY <1>3 DEF bridgeVars
  <2>. QED
    BY <1>1, <2>1 DEF PaymentsInv, PaymentMade, Paying, Payment, IsPaid
<1>4. ASSUME NEW t \in UserTokens, IssueUserGrant(t) \/ GrantLapses(t) PROVE PaymentsInv'
  <2>1. /\ grants[t] # "used" /\ UNCHANGED <<bridge, c05Queue, c05Done>>
        /\ \/ grants' = [grants EXCEPT ![t] = "issued"] \/ grants' = [grants EXCEPT ![t] = "expired"]
    BY <1>4 DEF IssueUserGrant, GrantLapses
  <2>. QED
    BY <2>1, TokensLapse DEF TokenStates
<1>5. ASSUME NEW p \in Callers, NEW b \in BridgeCalls, BeginCall(p, b) PROVE PaymentsInv'
  <2>. DEFINE row == [AtRest EXCEPT !.call = b,
                                    !.step = IF CallSays[b].provider = "local" THEN "approve" ELSE "stage"]
  <2>1. HasFields(row, CallerFields) /\ row.step # "submit" /\ row.call = b
    BY DEF AtRest, HasFields, CallerFields
  <2>2. bridge' = [bridge EXCEPT ![p] = row] /\ UNCHANGED <<grants, c05Queue, c05Done>>
    BY <1>5 DEF BeginCall
  <2>. HIDE DEF row
  <2>. QED
    BY <1>1, <2>1, <2>2, CallerMoves
<1>6. ASSUME NEW p \in Callers, ReadC05(p) \/ StageConnected(p) \/ BridgeDies(p) PROVE PaymentsInv'
  <2>1. bridge' = [bridge EXCEPT ![p] = AtRest] /\ UNCHANGED <<grants, c05Queue, c05Done>>
    BY <1>6 DEF ReadC05, StageConnected, BridgeDies, FailCall
  <2>. QED
    BY <1>1, <1>2, <2>1, CallerMoves
<1>. QED
  BY <1>3, <1>4, <1>5, <1>6, ApproveStep, SubmitStep, RunStepOfBridge DEF HermesNext

LEMMA PaymentsHold == PaymentsInv => JobsArePaidFor
BY DEF PaymentsInv, JobsArePaidFor, IsPaid

-------------------------------------------------------------------------------
(* The clipboard bridge and the autocycle: a staged script is named by      *)
(* pending.json or held by one process that has not run it, and else it is   *)
(* never named again.                                                        *)

\* Staging a script makes the sequence of the staged ones longer by it.
LEMMA StagedOneMore ==
  ASSUME NEW s, NEW e, IsSequence(s), Len(s) \in 0..MaxStages, Len(s) < MaxStages
  PROVE  /\ IsSequence(Append(s, e)) /\ Len(Append(s, e)) = Len(s) + 1
         /\ Len(s) + 1 \in 1..MaxStages
         /\ \A k \in 1..(Len(s) + 1) : Append(s, e)[k] = IF k = Len(s) + 1 THEN e ELSE s[k]
<1>1. PICK S : s \in Seq(S)
  BY DEF IsSequence
<1>2. s \in Seq(S \union {e})
  BY <1>1
<1>3. Append(s, e) \in Seq(S \union {e}) /\ Len(Append(s, e)) = Len(s) + 1
  BY <1>2
<1>4. \A k \in 1..(Len(s) + 1) : Append(s, e)[k] = IF k = Len(s) + 1 THEN e ELSE s[k]
  BY <1>2
<1>. QED
  BY <1>3, <1>4, ScriptAssumption DEF IsSequence

Holding(r) == running[r].pc # "idle"

BridgeInv ==
  /\ IsSequence(inbox) /\ Len(inbox) \in 0..MaxStages /\ pendingAt \in 0..Len(inbox)
  /\ running \in [Runners -> [pc : {"idle", "moved", "resolved"}, stage : Nat]]
  /\ runsOf \in [1..MaxStages -> {0, 1}]
  /\ \A n \in 1..MaxStages : n > Len(inbox) => runsOf[n] = 0
  /\ pendingAt # 0 => runsOf[pendingAt] = 0
  /\ \A r \in Runners : Holding(r) =>
       /\ running[r].stage \in 1..Len(inbox) /\ runsOf[running[r].stage] = 0
       /\ running[r].stage # pendingAt
       /\ \A q \in Runners : Holding(q) /\ running[q].stage = running[r].stage => q = r

LEMMA BridgeStart == ScriptInit => BridgeInv
<1>. SUFFICES ASSUME ScriptInit PROVE BridgeInv
  OBVIOUS
<1>1. IsSequence(<<>>) /\ Len(<<>>) = 0
  <2>1. <<>> \in Seq({})
    OBVIOUS
  <2>. QED
    BY <2>1 DEF IsSequence
<1>2. running \in [Runners -> [pc : {"idle", "moved", "resolved"}, stage : Nat]] /\ \A r \in Runners : ~Holding(r)
  BY DEF ScriptInit, NotRunning, Holding
<1>. QED
  BY <1>1, <1>2, ScriptAssumption DEF ScriptInit, BridgeInv

\* A process that lets go of its stage, or keeps it.
LEMMA RunnerMoves ==
  ASSUME BridgeInv, NEW r \in Runners, NEW row \in [pc : {"idle", "moved", "resolved"}, stage : Nat],
         running' = [running EXCEPT ![r] = row], row.pc # "idle" => Holding(r) /\ row.stage = running[r].stage,
         UNCHANGED <<inbox, pendingAt, runsOf>>
  PROVE  BridgeInv'
<1>1. /\ running' \in [Runners -> [pc : {"idle", "moved", "resolved"}, stage : Nat]]
      /\ \A q \in Runners : Holding(q)' => Holding(q) /\ running'[q].stage = running[q].stage
  BY DEF BridgeInv, Holding
<1>. QED
  BY <1>1 DEF BridgeInv

LEMMA StageWritten == ASSUME BridgeInv, NEW s \in Stagers, StageWrites(s) PROVE BridgeInv'
<1>1. /\ Len(inbox) < MaxStages /\ pendingAt' = Len(inbox) + 1 /\ UNCHANGED <<running, runsOf>>
      /\ inbox' = Append(inbox, [script |-> stager[s].script, intact |-> TRUE])
  BY DEF StageWrites
<1>2. /\ IsSequence(inbox') /\ Len(inbox') = Len(inbox) + 1
      /\ Len(inbox) + 1 \in 1..MaxStages
  BY <1>1, StagedOneMore DEF BridgeInv
<1>3. MaxStages \in Nat /\ Len(inbox) \in Nat
  BY ScriptAssumption DEF BridgeInv
<1>4. \A r \in Runners : Holding(r)' = Holding(r)
  BY <1>1 DEF Holding
<1>5. ASSUME NEW r \in Runners, Holding(r)
      PROVE  running[r].stage \in 1..Len(inbox') /\ running[r].stage # pendingAt'
  <2>1. running[r].stage \in 1..Len(inbox)
    BY <1>5 DEF BridgeInv
  <2>. QED
    BY <1>1, <1>2, <1>3, <2>1
<1>6. runsOf[pendingAt'] = 0 /\ \A n \in 1..MaxStages : n > Len(inbox') => runsOf[n] = 0
  BY <1>1, <1>2, <1>3 DEF BridgeInv
<1>7. Len(inbox') \in 0..MaxStages /\ pendingAt' \in 0..Len(inbox')
  BY <1>1, <1>2, <1>3
<1>. QED
  BY <1>1, <1>2, <1>4, <1>5, <1>6, <1>7 DEF BridgeInv

LEMMA StageTaken == ASSUME BridgeInv, NEW r \in Runners, RunPending(r) PROVE BridgeInv'
<1>1. /\ ~Holding(r) /\ pendingAt # 0 /\ pendingAt' = 0 /\ UNCHANGED <<inbox, runsOf>>
      /\ running' = [running EXCEPT ![r] = [pc |-> "moved", stage |-> pendingAt]]
  BY DEF RunPending, Holding
<1>2. pendingAt \in 1..Len(inbox) /\ Len(inbox) \in Nat /\ MaxStages \in Nat
  BY <1>1, ScriptAssumption DEF BridgeInv
<1>3. /\ running' \in [Runners -> [pc : {"idle", "moved", "resolved"}, stage : Nat]]
      /\ running'[r] = [pc |-> "moved", stage |-> pendingAt]
      /\ \A q \in Runners : q # r => running'[q] = running[q]
  BY <1>1, <1>2 DEF BridgeInv
<1>4. Holding(r)' /\ \A q \in Runners : q # r => Holding(q)' = Holding(q)
  BY <1>3 DEF Holding
<1>5. \A q \in Runners : Holding(q) => running[q].stage # pendingAt
  BY DEF BridgeInv
<1>6. 0 \in 0..Len(inbox) /\ \A n \in 1..Len(inbox) : n # 0
  BY <1>2
<1>7. ASSUME NEW q \in Runners, Holding(q)'
      PROVE  /\ running'[q].stage \in 1..Len(inbox') /\ runsOf'[running'[q].stage] = 0
             /\ running'[q].stage # pendingAt'
             /\ \A o \in Runners : Holding(o)' /\ running'[o].stage = running'[q].stage => o = q
  <2>1. CASE q = r
    BY <1>1, <1>2, <1>3, <1>4, <1>5, <1>6, <2>1 DEF BridgeInv
  <2>2. CASE q # r
    BY <1>1, <1>2, <1>3, <1>4, <1>5, <1>6, <1>7, <2>2 DEF BridgeInv
  <2>. QED
    BY <2>1, <2>2
<1>. QED
  BY <1>1, <1>3, <1>6, <1>7 DEF BridgeInv

LEMMA StageExecuted == ASSUME BridgeInv, NEW r \in Runners, ExecuteScript(r) PROVE BridgeInv'
<1>. DEFINE n == running[r].stage
<1>1. /\ Holding(r) /\ runsOf' = [runsOf EXCEPT ![n] = runsOf[n] + 1]
      /\ running' = [running EXCEPT ![r] = NotRunning] /\ UNCHANGED <<inbox, pendingAt>>
  BY DEF ExecuteScript, Holding
<1>2. n \in 1..Len(inbox) /\ runsOf[n] = 0 /\ n # pendingAt /\ Len(inbox) \in 0..MaxStages /\ MaxStages \in Nat
  BY <1>1, ScriptAssumption DEF BridgeInv
<1>3. n \in 1..MaxStages
  BY <1>2
<1>4. /\ runsOf' \in [1..MaxStages -> {0, 1}]
      /\ \A m \in 1..MaxStages : m # n => runsOf'[m] = runsOf[m]
  BY <1>1, <1>2, <1>3 DEF BridgeInv
<1>5. /\ running' \in [Runners -> [pc : {"idle", "moved", "resolved"}, stage : Nat]]
      /\ \A q \in Runners : Holding(q)' => q # r /\ Holding(q) /\ running'[q] = running[q]
  BY <1>1 DEF BridgeInv, Holding, NotRunning
<1>6. ASSUME NEW q \in Runners, Holding(q)'
      PROVE  running[q].stage \in 1..Len(inbox) /\ running[q].stage # n
  BY <1>1, <1>5, <1>6 DEF BridgeInv
<1>7. \A m \in 1..Len(inbox) : m \in 1..MaxStages
  BY <1>2
<1>8. \A m \in 1..MaxStages : m > Len(inbox) => m # n
  BY <1>2
<1>9. pendingAt # 0 => pendingAt \in 1..MaxStages
  BY <1>2 DEF BridgeInv
<1>. HIDE DEF n
<1>10. \A q \in Runners : Holding(q)' =>
         /\ running'[q].stage \in 1..Len(inbox) /\ runsOf'[running'[q].stage] = 0
         /\ running'[q].stage # pendingAt
         /\ \A o \in Runners : Holding(o)' /\ running'[o].stage = running'[q].stage => o = q
  BY <1>4, <1>5, <1>6, <1>7 DEF BridgeInv
<1>. QED
  BY <1>1, <1>2, <1>4, <1>5, <1>8, <1>9, <1>10 DEF BridgeInv

LEMMA BridgeStep == BridgeInv /\ [BridgeNext]_bridgeFiles => BridgeInv'
<1>. SUFFICES ASSUME BridgeInv, [BridgeNext]_bridgeFiles PROVE BridgeInv'
  OBVIOUS
<1>1. ASSUME UNCHANGED <<inbox, pendingAt, running, runsOf>> PROVE BridgeInv'
  BY <1>1 DEF BridgeInv, Holding
<1>2. CASE UNCHANGED bridgeFiles \/ WindowCloses
  BY <1>1, <1>2 DEF bridgeFiles, WindowCloses
<1>3. ASSUME NEW s \in Stagers, StageRemembers(s) \/ \E x \in Scripts : StageReads(s, x) PROVE BridgeInv'
  BY <1>1, <1>3 DEF StageRemembers, StageReads
<1>4. ASSUME NEW r \in Runners, ResolveScript(r) \/ RunnerDies(r) PROVE BridgeInv'
  <2>. DEFINE row == [running[r] EXCEPT !.pc = "resolved"]
  <2>1. running[r] \in [pc : {"idle", "moved", "resolved"}, stage : Nat]
    BY DEF BridgeInv
  <2>2. /\ row \in [pc : {"idle", "moved", "resolved"}, stage : Nat] /\ row.stage = running[r].stage
        /\ NotRunning \in [pc : {"idle", "moved", "resolved"}, stage : Nat] /\ NotRunning.pc = "idle"
    BY <2>1 DEF NotRunning
  <2>3. /\ Holding(r) /\ UNCHANGED <<inbox, pendingAt, runsOf>>
        /\ running' = [running EXCEPT ![r] = row] \/ running' = [running EXCEPT ![r] = NotRunning]
    BY <1>4 DEF ResolveScript, RunnerDies, Holding
  <2>. HIDE DEF row
  <2>. QED
    BY <2>2, <2>3, RunnerMoves
<1>5. ASSUME NEW n \in 1..MaxStages, StagedFileChanges(n) PROVE BridgeInv'
  <2>1. /\ inbox' = [inbox EXCEPT ![n] = [inbox[n] EXCEPT !.intact = FALSE]]
        /\ UNCHANGED <<pendingAt, running, runsOf>>
    BY <1>5 DEF StagedFileChanges
  <2>2. IsSequence(inbox') /\ Len(inbox') = Len(inbox)
    <3>. DEFINE e == [inbox[n] EXCEPT !.intact = FALSE]
    <3>1. PICK S : inbox \in Seq(S)
      BY DEF BridgeInv, IsSequence
    <3>2. n \in 1..Len(inbox) /\ e \in S \union {e} /\ inbox \in Seq(S \union {e})
      BY <1>5, <3>1, LenProperties DEF StagedFileChanges, CycleEvidenceChanges
    <3>3. inbox' = [inbox EXCEPT ![n] = e]
      BY <2>1
    <3>. HIDE DEF e
    <3>. DEFINE E == S \union {e}
    <3>4. e \in E /\ inbox \in Seq(E)
      BY <3>2
    <3>. HIDE DEF E
    <3>5. /\ [inbox EXCEPT ![n] = e] \in Seq(E) /\ Len([inbox EXCEPT ![n] = e]) = Len(inbox)
          /\ \A k \in 1..Len(inbox) : [inbox EXCEPT ![n] = e][k] = IF k = n THEN e ELSE inbox[k]
      BY <3>2, <3>4, ExceptSeq
    <3>6. IsSequence(inbox')
      BY <3>3, <3>5 DEF IsSequence
    <3>. QED
      BY <3>3, <3>5, <3>6 DEF e
  <2>. QED
    BY <2>1, <2>2 DEF BridgeInv, Holding
<1>. QED
  BY <1>2, <1>3, <1>4, <1>5, StageWritten, StageTaken, StageExecuted DEF BridgeNext

CyclerFields == {"pc", "first", "text", "iteration", "status", "goal", "timedOut", "ran", "disturbed", "stage"}

\* A staged candidate likewise.  Two runs of one candidate are both disturbed,
\* and one that is not disturbed executes what Guardian passed and has run what
\* it reports.
CyclerStands(p) ==
  LET c == cycler[p] IN
  /\ HasFields(c, CyclerFields)
  /\ c.pc = "moved" =>
       /\ c.stage \in 1..Len(cycleInbox) /\ cycleRuns[c.stage] = 0 /\ c.stage # cyclePending
       /\ \A q \in Cyclers : cycler[q].pc = "moved" /\ cycler[q].stage = c.stage => q = p
  /\ c.pc \in InCycle =>
       /\ c.status # "GOAL_VERIFIED" /\ c.text \in Scripts
       /\ \A q \in Cyclers : q # p /\ cycler[q].pc \in InCycle /\ cycler[q].first = c.first => c.disturbed
  /\ c.pc = "moved" => c.status # "GOAL_VERIFIED"
  /\ c.pc = "execute" /\ ~c.disturbed => Verdict[c.text] = "PASS"
  /\ c.pc = "judge" /\ c.goal /\ ~c.disturbed => c.ran = c.text
  /\ c.status = "GOAL_VERIFIED" => c.goal /\ (~c.disturbed => c.ran = c.text)

CycleInv ==
  /\ IsSequence(cycleInbox) /\ Len(cycleInbox) \in 0..MaxStages /\ cyclePending \in 0..Len(cycleInbox)
  /\ \A n \in 1..Len(cycleInbox) : cycleInbox[n] \in [script : Scripts, intact : BOOLEAN]
  /\ cycleRuns \in [1..MaxStages -> {0, 1}]
  /\ \A n \in 1..MaxStages : n > Len(cycleInbox) => cycleRuns[n] = 0
  /\ cyclePending # 0 => cycleRuns[cyclePending] = 0
  /\ DOMAIN cycler = Cyclers /\ \A p \in Cyclers : CyclerStands(p)
  /\ \A u \in unguarded : u.disturbed

LEMMA CycleStart == ScriptInit => CycleInv
<1>. SUFFICES ASSUME ScriptInit PROVE CycleInv
  OBVIOUS
<1>1. IsSequence(<<>>) /\ Len(<<>>) = 0
  <2>1. <<>> \in Seq({})
    OBVIOUS
  <2>. QED
    BY <2>1 DEF IsSequence
<1>2. HasFields(NotCycling, CyclerFields) /\ NotCycling.pc = "idle" /\ NotCycling.status = "NO_IMPROVING_REVISION"
  BY DEF NotCycling, HasFields, CyclerFields
<1>3. DOMAIN cycler = Cyclers /\ \A p \in Cyclers : CyclerStands(p)
  BY <1>2 DEF ScriptInit, CyclerStands, InCycle
<1>. QED
  BY <1>1, <1>3, ScriptAssumption DEF ScriptInit, CycleInv

\* A step of one process that begins no cycle and takes no stage: what it does
\* to itself must bear what it comes to.
LEMMA CyclerMoves ==
  ASSUME CycleInv, NEW p \in Cyclers, NEW row, HasFields(row, CyclerFields),
         cycler' = [cycler EXCEPT ![p] = row],
         UNCHANGED <<cycleInbox, cyclePending, cycleRuns>>, \A u \in unguarded' : u.disturbed,
         row.pc # "moved",
         row.pc \in InCycle => /\ cycler[p].pc \in InCycle /\ row.first = cycler[p].first
                               /\ row.disturbed = cycler[p].disturbed /\ row.status # "GOAL_VERIFIED"
                               /\ row.text \in Scripts,
         row.pc = "execute" /\ ~row.disturbed => Verdict[row.text] = "PASS",
         row.pc = "judge" /\ row.goal /\ ~row.disturbed => row.ran = row.text,
         row.status = "GOAL_VERIFIED" => row.goal /\ (~row.disturbed => row.ran = row.text)
  PROVE  CycleInv'
<1>1. /\ DOMAIN cycler' = Cyclers /\ cycler'[p] = row
      /\ \A q \in Cyclers : q # p => cycler'[q] = cycler[q]
  BY DEF CycleInv
<1>2. ASSUME NEW q \in Cyclers, q # p PROVE CyclerStands(q)'
  <2>1. CyclerStands(q)
    BY DEF CycleInv
  <2>. QED
    BY <1>1, <1>2, <2>1 DEF CyclerStands
<1>3. CyclerStands(p)'
  <2>1. CyclerStands(p)
    BY DEF CycleInv
  <2>. QED
    BY <1>1, <2>1 DEF CyclerStands
<1>. QED
  BY <1>1, <1>2, <1>3 DEF CycleInv

LEMMA CycleTaken == ASSUME CycleInv, NEW p \in Cyclers, RunPendingCycle(p) PROVE CycleInv'
<1>. DEFINE row == [NotCycling EXCEPT !.pc = "moved", !.stage = cyclePending]
<1>1. /\ cycler[p].pc \in {"idle", "done"} /\ cyclePending # 0 /\ cyclePending' = 0
      /\ UNCHANGED <<cycleInbox, cycleRuns, unguarded>>
      /\ cycler' = [cycler EXCEPT ![p] = row]
  BY DEF RunPendingCycle
<1>2. HasFields(row, CyclerFields) /\ row.pc = "moved" /\ row.stage = cyclePending /\ row.status # "GOAL_VERIFIED"
  BY DEF NotCycling, HasFields, CyclerFields
<1>. HIDE DEF row
<1>3. cyclePending \in 1..Len(cycleInbox) /\ cycleRuns[cyclePending] = 0 /\ \A n \in 1..Len(cycleInbox) : n # 0
  BY <1>1, ScriptAssumption DEF CycleInv
<1>4. /\ DOMAIN cycler' = Cyclers /\ cycler'[p] = row
      /\ \A q \in Cyclers : q # p => cycler'[q] = cycler[q]
  BY <1>1 DEF CycleInv
<1>5. \A q \in Cyclers : cycler[q].pc = "moved" => cycler[q].stage # cyclePending
  BY DEF CycleInv, CyclerStands
<1>6. ASSUME NEW q \in Cyclers, q # p PROVE CyclerStands(q)'
  <2>1. CyclerStands(q)
    BY DEF CycleInv
  <2>. QED
    BY <1>1, <1>2, <1>3, <1>4, <1>5, <1>6, <2>1 DEF CyclerStands, InCycle
<1>7. CyclerStands(p)'
  BY <1>1, <1>2, <1>3, <1>4, <1>5 DEF CyclerStands, InCycle
<1>8. 0 \in 0..Len(cycleInbox)
  BY DEF CycleInv
<1>. QED
  BY <1>1, <1>4, <1>6, <1>7, <1>8 DEF CycleInv

LEMMA CycleBegun == ASSUME CycleInv, NEW p \in Cyclers, BeginCycle(p) PROVE CycleInv'
<1>. DEFINE stage == cycler[p].stage
            first == cycleInbox[stage].script
            others == {q \in Cyclers : q # p /\ cycler[q].pc \in InCycle /\ cycler[q].first = first}
            begun == [cycler[p] EXCEPT !.pc = "open", !.stage = 0, !.first = first, !.text = first,
                                         !.disturbed = others # {}]
<1>1. /\ cycler[p].pc = "moved" /\ UNCHANGED <<cycleInbox, cyclePending, unguarded>>
      /\ \/ cycler' = [cycler EXCEPT ![p] = NotCycling] /\ UNCHANGED cycleRuns
         \/ /\ cycler' = [q \in Cyclers |-> IF q = p THEN begun
                                            ELSE [cycler[q] EXCEPT !.disturbed = @ \/ q \in others]]
            /\ cycleRuns' = [cycleRuns EXCEPT ![stage] = cycleRuns[stage] + 1]
  BY DEF BeginCycle
<1>2. CASE cycler' = [cycler EXCEPT ![p] = NotCycling] /\ UNCHANGED cycleRuns
  <2>1. /\ HasFields(NotCycling, CyclerFields) /\ NotCycling.pc = "idle"
        /\ NotCycling.status = "NO_IMPROVING_REVISION"
    BY DEF NotCycling, HasFields, CyclerFields
  <2>2. \A u \in unguarded' : u.disturbed
    BY <1>1 DEF CycleInv
  <2>. QED
    BY <1>1, <1>2, <2>1, <2>2, CyclerMoves DEF InCycle
<1>3. CASE /\ cycler' = [q \in Cyclers |-> IF q = p THEN begun
                                           ELSE [cycler[q] EXCEPT !.disturbed = @ \/ q \in others]]
           /\ cycleRuns' = [cycleRuns EXCEPT ![stage] = cycleRuns[stage] + 1]
  <2>1. CyclerStands(p)
    BY DEF CycleInv
  <2>2. /\ stage \in 1..Len(cycleInbox) /\ cycleRuns[stage] = 0 /\ stage # cyclePending
        /\ Len(cycleInbox) \in 0..MaxStages /\ MaxStages \in Nat
    BY <1>1, <2>1, ScriptAssumption DEF CycleInv, CyclerStands
  <2>3. stage \in 1..MaxStages /\ \A n \in 1..MaxStages : n > Len(cycleInbox) => n # stage
    BY <2>2
  <2>4. /\ cycleRuns' \in [1..MaxStages -> {0, 1}]
        /\ \A n \in 1..MaxStages : n # stage => cycleRuns'[n] = cycleRuns[n]
    <3>1. cycleRuns \in [1..MaxStages -> {0, 1}] /\ cycleRuns' = [cycleRuns EXCEPT ![stage] = cycleRuns[stage] + 1]
      BY <1>3 DEF CycleInv
    <3>. HIDE DEF stage
    <3>2. cycleRuns' = [cycleRuns EXCEPT ![stage] = 1]
      BY <2>2, <3>1
    <3>. QED
      BY <3>1, <3>2
  <2>5. /\ HasFields(begun, CyclerFields) /\ begun.pc = "open" /\ begun.first = first
        /\ begun.status = cycler[p].status /\ begun.status # "GOAL_VERIFIED"
        /\ begun.disturbed = (others # {}) /\ begun.text = first
    BY <1>1, <2>1 DEF CyclerStands, HasFields, CyclerFields
  <2>. first \in Scripts
    BY <2>2 DEF CycleInv
  <2>6. \A q \in Cyclers : q \in others <=> q # p /\ cycler[q].pc \in InCycle /\ cycler[q].first = first
    OBVIOUS
  <2>7. /\ DOMAIN cycler' = Cyclers /\ cycler'[p] = begun
        /\ \A q \in Cyclers : q # p => cycler'[q] = [cycler[q] EXCEPT !.disturbed = @ \/ q \in others]
    BY <1>3
  <2>. HIDE DEF begun, others
  <2>8. ASSUME NEW q \in Cyclers, q # p
        PROVE  /\ HasFields(cycler'[q], CyclerFields)
               /\ \A x \in CyclerFields \ {"disturbed"} : cycler'[q][x] = cycler[q][x]
               /\ cycler'[q].disturbed <=> cycler[q].disturbed \/ q \in others
    <3>1. HasFields(cycler[q], CyclerFields)
      BY DEF CycleInv, CyclerStands
    <3>2. cycler'[q] = [cycler[q] EXCEPT !.disturbed = cycler[q].disturbed \/ q \in others]
      BY <2>7, <2>8
    <3>. QED
      BY <3>1, <3>2 DEF HasFields, CyclerFields
  <2>9. ASSUME NEW q \in Cyclers, q # p
        PROVE  /\ cycler'[q].pc = cycler[q].pc /\ cycler'[q].first = cycler[q].first
               /\ cycler'[q].stage = cycler[q].stage /\ cycler'[q].status = cycler[q].status
               /\ cycler'[q].goal = cycler[q].goal /\ cycler'[q].text = cycler[q].text
               /\ cycler'[q].ran = cycler[q].ran
    BY <2>8, <2>9 DEF CyclerFields
  <2>10. ASSUME NEW q \in Cyclers, q # p PROVE CyclerStands(q)'
    <3>1. CyclerStands(q)
      BY DEF CycleInv
    <3>2. cycler[q].pc = "moved" => /\ cycler[q].stage # stage /\ cycler[q].stage \in 1..MaxStages
      BY <1>1, <2>1, <2>2, <2>10, <3>1 DEF CyclerStands
    <3>3. cycler[q].pc = "moved" =>
            /\ cycler'[q].stage \in 1..Len(cycleInbox') /\ cycleRuns'[cycler'[q].stage] = 0
            /\ cycler'[q].stage # cyclePending'
            /\ \A r \in Cyclers : cycler'[r].pc = "moved" /\ cycler'[r].stage = cycler'[q].stage => r = q
      BY <1>1, <2>4, <2>5, <2>7, <2>9, <2>10, <3>1, <3>2 DEF CyclerStands
    <3>4. ASSUME cycler[q].pc \in InCycle, NEW r \in Cyclers, r # q, cycler'[r].pc \in InCycle,
                 cycler'[r].first = cycler'[q].first
          PROVE  cycler'[q].disturbed
      <4>1. CASE r = p
        BY <2>5, <2>6, <2>7, <2>8, <2>9, <2>10, <3>4, <4>1
      <4>2. CASE r # p
        BY <2>8, <2>9, <2>10, <3>1, <3>4, <4>2 DEF CyclerStands
      <4>. QED
        BY <4>1, <4>2
    <3>. QED
      BY <2>8, <2>9, <2>10, <3>1, <3>3, <3>4 DEF CyclerStands
  <2>11. CyclerStands(p)'
    <3>1. ASSUME NEW r \in Cyclers, r # p, cycler'[r].pc \in InCycle, cycler'[r].first = first
          PROVE  begun.disturbed
      BY <2>5, <2>6, <2>9, <3>1
    <3>. QED
      BY <2>5, <2>7, <3>1 DEF CyclerStands, InCycle
  <2>12. cyclePending # 0 => cyclePending \in 1..MaxStages
    BY <2>2 DEF CycleInv
  <2>. HIDE DEF stage
  <2>. QED
    BY <1>1, <2>2, <2>3, <2>4, <2>7, <2>10, <2>11, <2>12 DEF CycleInv
<1>. QED
  BY <1>1, <1>2, <1>3

LEMMA RevisionSteps ==
  ASSUME CycleInv, NEW p \in Cyclers, OpenRevision(p) \/ FillRevision(p) \/ CyclerDies(p)
  PROVE  CycleInv'
<1>1. CyclerStands(p) /\ \A u \in unguarded : u.disturbed
  BY DEF CycleInv
<1>2. ASSUME NEW pc, pc = "fill" \/ pc = "inspect", cycler[p].pc \in InCycle, CycleStep(p, pc) PROVE CycleInv'
  <2>. DEFINE row == [cycler[p] EXCEPT !.pc = pc]
  <2>1. /\ HasFields(row, CyclerFields) /\ row.pc = pc
        /\ row.first = cycler[p].first /\ row.disturbed = cycler[p].disturbed /\ row.status = cycler[p].status
        /\ row.goal = cycler[p].goal /\ row.ran = cycler[p].ran /\ row.text = cycler[p].text
    BY <1>1 DEF CyclerStands, HasFields, CyclerFields
  <2>2. cycler' = [cycler EXCEPT ![p] = row] /\ UNCHANGED <<cycleInbox, cyclePending, cycleRuns, unguarded>>
    BY <1>2 DEF CycleStep
  <2>3. row.status # "GOAL_VERIFIED" /\ row.text \in Scripts
    BY <1>1, <1>2, <2>1 DEF CyclerStands
  <2>. HIDE DEF row
  <2>. QED
    BY <1>1, <1>2, <2>1, <2>2, <2>3, CyclerMoves
<1>3. CASE CyclerDies(p)
  <2>1. /\ HasFields(NotCycling, CyclerFields) /\ NotCycling.pc = "idle"
        /\ NotCycling.status = "NO_IMPROVING_REVISION"
    BY DEF NotCycling, HasFields, CyclerFields
  <2>2. cycler' = [cycler EXCEPT ![p] = NotCycling] /\ UNCHANGED <<cycleInbox, cyclePending, cycleRuns, unguarded>>
    BY <1>3 DEF CyclerDies
  <2>. QED
    BY <1>1, <2>1, <2>2, CyclerMoves DEF InCycle
<1>. QED
  BY <1>2, <1>3 DEF OpenRevision, FillRevision, InCycle

\* Only a run of the same candidate empties a file that is about to be read.
LEMMA EmptiedIsDisturbed ==
  ASSUME CycleInv, NEW p \in Cyclers, cycler[p].pc \in {"inspect", "execute"}, Emptied(p)
  PROVE  cycler[p].disturbed
<1>1. PICK q \in Cyclers : cycler[q].pc = "fill" /\ RevisionOf(q) = RevisionOf(p)
  BY DEF Emptied
<1>2. q # p /\ cycler[q].first = cycler[p].first
  BY <1>1 DEF RevisionOf
<1>3. CyclerStands(p)
  BY DEF CycleInv
<1>. QED
  BY <1>1, <1>2, <1>3 DEF CyclerStands, InCycle

\* A cycle that ends keeps what it ran, its text and its goal.
Ending(c, status) ==
  [c EXCEPT !.pc = "done", !.status = status, !.first = "none", !.iteration = 1, !.timedOut = FALSE]

LEMMA SettledRow ==
  ASSUME CycleInv, NEW p \in Cyclers, NEW status
  PROVE  /\ Settle(p, status) = [cycler EXCEPT ![p] = Ending(cycler[p], status)]
         /\ HasFields(Ending(cycler[p], status), CyclerFields)
         /\ LET row == Ending(cycler[p], status) IN
            /\ row.pc = "done" /\ row.status = status /\ row.goal = cycler[p].goal /\ row.ran = cycler[p].ran
            /\ row.text = cycler[p].text /\ row.disturbed = cycler[p].disturbed
<1>1. HasFields(cycler[p], CyclerFields) /\ DOMAIN cycler = Cyclers
  BY DEF CycleInv, CyclerStands
<1>2. Settle(p, status) = [cycler EXCEPT ![p] = Ending(cycler[p], status)]
  BY <1>1 DEF Settle, Ending
<1>. QED
  BY <1>1, <1>2 DEF Ending, HasFields, CyclerFields

LEMMA InspectStep == ASSUME CycleInv, NEW p \in Cyclers, InspectRevision(p) PROVE CycleInv'
<1>. DEFINE judged == [cycler[p] EXCEPT !.pc = "judge", !.goal = FALSE, !.timedOut = FALSE]
            passed == [cycler[p] EXCEPT !.pc = "execute"]
<1>1. CyclerStands(p) /\ HasFields(cycler[p], CyclerFields) /\ \A u \in unguarded : u.disturbed
  BY DEF CycleInv, CyclerStands
<1>2. cycler[p].pc = "inspect" /\ UNCHANGED <<cycleInbox, cyclePending, cycleRuns, unguarded>>
  BY DEF InspectRevision
<1>3. \/ cycler' = Settle(p, "POLICY_BLOCKED")
      \/ cycler' = [cycler EXCEPT ![p] = judged]
      \/ (Emptied(p) \/ Verdict[cycler[p].text] = "PASS") /\ cycler' = [cycler EXCEPT ![p] = passed]
  <2>1. Verdict[cycler[p].text] \in {"PASS", "REVIEW", "REJECT"}
    BY <1>1, <1>2, ScriptAssumption DEF CyclerStands, InCycle
  <2>. DEFINE verdict_ == IF Emptied(p) THEN "PASS" ELSE Verdict[cycler[p].text]
  <2>3. \/ verdict_ = "REJECT" /\ cycler' = Settle(p, "POLICY_BLOCKED")
        \/ verdict_ = "REVIEW"
             /\ cycler' = [cycler EXCEPT ![p].pc = "judge", ![p].goal = FALSE, ![p].timedOut = FALSE]
        \/ verdict_ # "REJECT" /\ verdict_ # "REVIEW" /\ cycler' = [cycler EXCEPT ![p].pc = "execute"]
    BY DEF InspectRevision
  <2>4. verdict_ # "REJECT" /\ verdict_ # "REVIEW" => Emptied(p) \/ Verdict[cycler[p].text] = "PASS"
    BY <2>1, <1>1 DEF Emptied
  <2>5. [cycler EXCEPT ![p].pc = "judge", ![p].goal = FALSE, ![p].timedOut = FALSE] = [cycler EXCEPT ![p] = judged]
    BY DEF CycleInv
  <2>6. [cycler EXCEPT ![p].pc = "execute"] = [cycler EXCEPT ![p] = passed]
    BY DEF CycleInv
  <2>. HIDE DEF verdict_, judged, passed
  <2>. QED
    BY <2>3, <2>4, <2>5, <2>6
<1>4. cycler[p].pc \in InCycle /\ cycler[p].status # "GOAL_VERIFIED" /\ cycler[p].text \in Scripts
  BY <1>1, <1>2 DEF CyclerStands, InCycle
<1>5. CASE cycler' = Settle(p, "POLICY_BLOCKED")
  <2>1. cycler' = [cycler EXCEPT ![p] = Ending(cycler[p], "POLICY_BLOCKED")]
    BY <1>5, SettledRow
  <2>. QED
    BY <1>1, <1>2, <2>1, SettledRow, CyclerMoves DEF InCycle
<1>6. CASE cycler' = [cycler EXCEPT ![p] = judged]
  <2>1. /\ HasFields(judged, CyclerFields) /\ judged.pc = "judge" /\ judged.goal = FALSE
        /\ judged.first = cycler[p].first /\ judged.disturbed = cycler[p].disturbed
        /\ judged.status = cycler[p].status
        /\ judged.text = cycler[p].text
    BY <1>1 DEF HasFields, CyclerFields
  <2>. HIDE DEF judged
  <2>. QED
    BY <1>1, <1>2, <1>4, <1>6, <2>1, CyclerMoves
<1>7. CASE (Emptied(p) \/ Verdict[cycler[p].text] = "PASS") /\ cycler' = [cycler EXCEPT ![p] = passed]
  <2>1. /\ HasFields(passed, CyclerFields) /\ passed.pc = "execute" /\ passed.text = cycler[p].text
        /\ passed.first = cycler[p].first /\ passed.disturbed = cycler[p].disturbed
        /\ passed.status = cycler[p].status
    BY <1>1 DEF HasFields, CyclerFields
  <2>2. ~passed.disturbed => Verdict[passed.text] = "PASS"
    BY <1>2, <1>7, <2>1, EmptiedIsDisturbed
  <2>. HIDE DEF passed
  <2>. QED
    BY <1>1, <1>2, <1>4, <1>7, <2>1, <2>2, CyclerMoves
<1>. QED
  BY <1>3, <1>5, <1>6, <1>7

LEMMA ExecuteRevisionStep == ASSUME CycleInv, NEW p \in Cyclers, ExecuteRevision(p) PROVE CycleInv'
<1>1. CyclerStands(p) /\ HasFields(cycler[p], CyclerFields) /\ \A u \in unguarded : u.disturbed
  BY DEF CycleInv, CyclerStands
<1>2. cycler[p].pc = "execute" /\ UNCHANGED <<cycleInbox, cyclePending, cycleRuns>>
  BY DEF ExecuteRevision
<1>3. PICK goal \in BOOLEAN, timedOut \in BOOLEAN :
        cycler' = [cycler EXCEPT ![p].pc = "judge", ![p].goal = goal, ![p].timedOut = timedOut,
                                 ![p].ran = IF Emptied(p) THEN @ ELSE cycler[p].text]
  BY DEF ExecuteRevision
<1>. DEFINE row == [cycler[p] EXCEPT !.pc = "judge", !.goal = goal, !.timedOut = timedOut,
                                     !.ran = IF Emptied(p) THEN cycler[p].ran ELSE cycler[p].text]
<1>4. cycler' = [cycler EXCEPT ![p] = row]
  BY <1>1, <1>3 DEF CycleInv
<1>5. /\ HasFields(row, CyclerFields) /\ row.pc = "judge" /\ row.text = cycler[p].text
      /\ row.ran = (IF Emptied(p) THEN cycler[p].ran ELSE cycler[p].text)
      /\ row.first = cycler[p].first /\ row.disturbed = cycler[p].disturbed /\ row.status = cycler[p].status
  BY <1>1 DEF HasFields, CyclerFields
<1>6. cycler[p].pc \in InCycle /\ cycler[p].status # "GOAL_VERIFIED" /\ cycler[p].text \in Scripts
  BY <1>1, <1>2 DEF CyclerStands, InCycle
<1>7. \A u \in unguarded' : u.disturbed
  <2>1. CASE Emptied(p) \/ Verdict[cycler[p].text] = "PASS"
    BY <1>1, <2>1 DEF ExecuteRevision
  <2>2. CASE ~(Emptied(p) \/ Verdict[cycler[p].text] = "PASS")
    <3>1. cycler[p].disturbed
      BY <1>1, <1>2, <2>2 DEF CyclerStands
    <3>2. unguarded' = unguarded \union {[script |-> cycler[p].text, disturbed |-> cycler[p].disturbed]}
      BY <2>2 DEF ExecuteRevision
    <3>3. [script |-> cycler[p].text, disturbed |-> cycler[p].disturbed].disturbed = cycler[p].disturbed
      OBVIOUS
    <3>. QED
      BY <1>1, <3>1, <3>2, <3>3
  <2>. QED
    BY <2>1, <2>2
<1>8. row.disturbed \/ row.ran = row.text
  BY <1>2, <1>5, EmptiedIsDisturbed
<1>. HIDE DEF row
<1>. QED
  BY <1>2, <1>4, <1>5, <1>6, <1>7, <1>8, CyclerMoves

LEMMA JudgeStep == ASSUME CycleInv, NEW p \in Cyclers, NEW x \in Scripts, JudgeEpisode(p, x) PROVE CycleInv'
<1>. DEFINE status == IF cycler[p].timedOut THEN "RESOURCE_LIMIT_REACHED" ELSE cycler[p].status
            stopped == [Ending(cycler[p], "RESOURCE_LIMIT_REACHED") EXCEPT !.text = x]
            again == [cycler[p] EXCEPT !.pc = "open", !.text = x, !.status = status,
                                       !.iteration = @ + 1, !.timedOut = FALSE]
<1>1. /\ CyclerStands(p) /\ HasFields(cycler[p], CyclerFields) /\ DOMAIN cycler = Cyclers
      /\ \A u \in unguarded : u.disturbed
  BY DEF CycleInv, CyclerStands
<1>2. cycler[p].pc = "judge" /\ UNCHANGED <<cycleInbox, cyclePending, cycleRuns, unguarded>>
  BY DEF JudgeEpisode
<1>3. cycler[p].pc \in InCycle /\ cycler[p].status # "GOAL_VERIFIED" /\ status # "GOAL_VERIFIED"
  BY <1>1, <1>2 DEF CyclerStands, InCycle
<1>4. [Settle(p, "RESOURCE_LIMIT_REACHED") EXCEPT ![p].text = x] = [cycler EXCEPT ![p] = stopped]
  <2>. DEFINE ending == Ending(cycler[p], "RESOURCE_LIMIT_REACHED")
  <2>1. Settle(p, "RESOURCE_LIMIT_REACHED") = [cycler EXCEPT ![p] = ending]
    BY SettledRow
  <2>2. stopped = [ending EXCEPT !.text = x]
    OBVIOUS
  <2>. HIDE DEF ending, stopped
  <2>. QED
    BY <1>1, <2>1, <2>2
<1>5. \/ cycler[p].goal /\ cycler' = Settle(p, "GOAL_VERIFIED")
      \/ cycler' = Settle(p, status)
      \/ cycler' = [cycler EXCEPT ![p] = stopped]
      \/ cycler' = [cycler EXCEPT ![p] = again]
  <2>1. \/ cycler[p].goal /\ cycler' = Settle(p, "GOAL_VERIFIED")
        \/ cycler' = Settle(p, status)
        \/ cycler' = [Settle(p, "RESOURCE_LIMIT_REACHED") EXCEPT ![p].text = x]
        \/ cycler' = [cycler EXCEPT ![p].pc = "open", ![p].text = x, ![p].status = status,
                                    ![p].iteration = @ + 1, ![p].timedOut = FALSE]
    BY DEF JudgeEpisode
  <2>2. [cycler EXCEPT ![p].pc = "open", ![p].text = x, ![p].status = status,
                       ![p].iteration = @ + 1, ![p].timedOut = FALSE] = [cycler EXCEPT ![p] = again]
    <3>. HIDE DEF status
    <3>. QED
      BY <1>1
  <2>. QED
    BY <1>4, <2>1, <2>2
<1>6. ASSUME NEW s, cycler' = Settle(p, s), s = "GOAL_VERIFIED" => cycler[p].goal PROVE CycleInv'
  <2>1. cycler' = [cycler EXCEPT ![p] = Ending(cycler[p], s)]
    BY <1>6, SettledRow
  <2>2. s = "GOAL_VERIFIED" => cycler[p].goal /\ (~cycler[p].disturbed => cycler[p].ran = cycler[p].text)
    BY <1>1, <1>2, <1>6 DEF CyclerStands
  <2>. DEFINE row == Ending(cycler[p], s)
  <2>3. /\ HasFields(row, CyclerFields) /\ row.pc = "done" /\ row.status = s /\ row.goal = cycler[p].goal
        /\ row.ran = cycler[p].ran /\ row.text = cycler[p].text /\ row.disturbed = cycler[p].disturbed
    BY SettledRow
  <2>4. cycler' = [cycler EXCEPT ![p] = row]
    BY <2>1
  <2>. HIDE DEF row
  <2>5. row.pc # "moved" /\ row.pc \notin InCycle /\ row.pc # "execute" /\ row.pc # "judge"
    BY <2>3 DEF InCycle
  <2>6. row.status = "GOAL_VERIFIED" => row.goal /\ (~row.disturbed => row.ran = row.text)
    BY <2>2, <2>3
  <2>. QED
    BY <1>1, <1>2, <2>3, <2>4, <2>5, <2>6, CyclerMoves
<1>7. CASE cycler' = [cycler EXCEPT ![p] = stopped]
  <2>1. HasFields(stopped, CyclerFields) /\ stopped.pc = "done" /\ stopped.status = "RESOURCE_LIMIT_REACHED"
    BY <1>1 DEF Ending, HasFields, CyclerFields
  <2>. HIDE DEF stopped
  <2>. QED
    BY <1>1, <1>2, <1>7, <2>1, CyclerMoves DEF InCycle
<1>8. CASE cycler' = [cycler EXCEPT ![p] = again]
  <2>1. /\ HasFields(again, CyclerFields) /\ again.pc = "open" /\ again.status = status
        /\ again.first = cycler[p].first /\ again.disturbed = cycler[p].disturbed /\ again.text = x
    BY <1>1 DEF HasFields, CyclerFields
  <2>. HIDE DEF again, status
  <2>. QED
    BY <1>1, <1>2, <1>3, <1>8, <2>1, CyclerMoves
<1>. QED
  BY <1>3, <1>5, <1>6, <1>7, <1>8

LEMMA CycleStaged == ASSUME CycleInv, NEW x \in Scripts, StageCycle(x) PROVE CycleInv'
<1>1. /\ Len(cycleInbox) < MaxStages /\ cyclePending' = Len(cycleInbox) + 1
      /\ UNCHANGED <<cycler, cycleRuns, unguarded>>
      /\ cycleInbox' = Append(cycleInbox, [script |-> x, intact |-> TRUE])
  BY DEF StageCycle
<1>2. /\ IsSequence(cycleInbox') /\ Len(cycleInbox') = Len(cycleInbox) + 1
      /\ Len(cycleInbox) + 1 \in 1..MaxStages
      /\ \A k \in 1..(Len(cycleInbox) + 1) :
           cycleInbox'[k] = IF k = Len(cycleInbox) + 1 THEN [script |-> x, intact |-> TRUE] ELSE cycleInbox[k]
  BY <1>1, StagedOneMore DEF CycleInv
<1>3. MaxStages \in Nat /\ Len(cycleInbox) \in Nat
  BY ScriptAssumption DEF CycleInv
<1>7. \A n \in 1..Len(cycleInbox') : cycleInbox'[n] \in [script : Scripts, intact : BOOLEAN]
  <2>. SUFFICES ASSUME NEW n \in 1..(Len(cycleInbox) + 1)
                PROVE  cycleInbox'[n] \in [script : Scripts, intact : BOOLEAN]
    BY <1>2
  <2>1. [script |-> x, intact |-> TRUE] \in [script : Scripts, intact : BOOLEAN]
    OBVIOUS
  <2>2. n # Len(cycleInbox) + 1 => n \in 1..Len(cycleInbox)
    BY <1>3
  <2>. QED
    BY <1>2, <2>1, <2>2 DEF CycleInv
<1>4. ASSUME NEW p \in Cyclers PROVE CyclerStands(p)'
  <2>1. CyclerStands(p)
    BY DEF CycleInv
  <2>2. cycler[p].pc = "moved" => cycler[p].stage \in 1..Len(cycleInbox') /\ cycler[p].stage # cyclePending'
    <3>. SUFFICES ASSUME cycler[p].stage \in 1..Len(cycleInbox)
                  PROVE  cycler[p].stage \in 1..Len(cycleInbox') /\ cycler[p].stage # cyclePending'
      BY <2>1 DEF CyclerStands
    <3>. QED
      BY <1>1, <1>2, <1>3
  <2>. QED
    BY <1>1, <2>1, <2>2 DEF CyclerStands
<1>5. cycleRuns[cyclePending'] = 0 /\ \A n \in 1..MaxStages : n > Len(cycleInbox') => cycleRuns[n] = 0
  BY <1>1, <1>2, <1>3 DEF CycleInv
<1>6. Len(cycleInbox') \in 0..MaxStages /\ cyclePending' \in 0..Len(cycleInbox')
  BY <1>1, <1>2, <1>3
<1>. QED
  BY <1>1, <1>2, <1>4, <1>5, <1>6, <1>7 DEF CycleInv

LEMMA CycleStepHolds == CycleInv /\ [CycleNext]_cycleVars => CycleInv'
<1>. SUFFICES ASSUME CycleInv, [CycleNext]_cycleVars PROVE CycleInv'
  OBVIOUS
<1>1. CASE UNCHANGED cycleVars
  BY <1>1 DEF cycleVars, CycleInv, CyclerStands
<1>2. ASSUME NEW n \in 1..MaxStages, CycleEvidenceChanges(n) PROVE CycleInv'
  <2>1. /\ cycleInbox' = [cycleInbox EXCEPT ![n] = [cycleInbox[n] EXCEPT !.intact = FALSE]]
        /\ UNCHANGED <<cyclePending, cycleRuns, cycler, unguarded>>
    BY <1>2 DEF CycleEvidenceChanges
  <2>2. /\ IsSequence(cycleInbox') /\ Len(cycleInbox') = Len(cycleInbox)
        /\ \A k \in 1..Len(cycleInbox) :
             cycleInbox'[k] = IF k = n THEN [cycleInbox[n] EXCEPT !.intact = FALSE] ELSE cycleInbox[k]
    <3>. DEFINE e == [cycleInbox[n] EXCEPT !.intact = FALSE]
    <3>1. PICK S : cycleInbox \in Seq(S)
      BY DEF CycleInv, IsSequence
    <3>2. n \in 1..Len(cycleInbox) /\ e \in S \union {e} /\ cycleInbox \in Seq(S \union {e})
      BY <1>2, <3>1, LenProperties DEF StagedFileChanges, CycleEvidenceChanges
    <3>3. cycleInbox' = [cycleInbox EXCEPT ![n] = e]
      BY <2>1
    <3>. HIDE DEF e
    <3>. DEFINE E == S \union {e}
    <3>4. e \in E /\ cycleInbox \in Seq(E)
      BY <3>2
    <3>. HIDE DEF E
    <3>5. /\ [cycleInbox EXCEPT ![n] = e] \in Seq(E) /\ Len([cycleInbox EXCEPT ![n] = e]) = Len(cycleInbox)
          /\ \A k \in 1..Len(cycleInbox) : [cycleInbox EXCEPT ![n] = e][k] = IF k = n THEN e ELSE cycleInbox[k]
      BY <3>2, <3>4, ExceptSeq
    <3>6. IsSequence(cycleInbox')
      BY <3>3, <3>5 DEF IsSequence
    <3>. QED
      BY <3>3, <3>5, <3>6 DEF e
  <2>3. \A k \in 1..Len(cycleInbox') : cycleInbox'[k] \in [script : Scripts, intact : BOOLEAN]
    <3>. SUFFICES ASSUME NEW k \in 1..Len(cycleInbox) PROVE cycleInbox'[k] \in [script : Scripts, intact : BOOLEAN]
      BY <2>2
    <3>1. cycleInbox[k] \in [script : Scripts, intact : BOOLEAN]
      BY DEF CycleInv
    <3>. QED
      BY <2>2, <3>1
  <2>. QED
    BY <2>1, <2>2, <2>3 DEF CycleInv, CyclerStands
<1>. QED
  BY <1>1, <1>2, CycleTaken, CycleBegun, RevisionSteps, InspectStep, ExecuteRevisionStep, JudgeStep, CycleStaged
     DEF CycleNext

LEMMA StagesHold == BridgeInv /\ CycleInv => StagesRunOnce /\ VerifiedGoalWasRun
BY DEF BridgeInv, CycleInv, CyclerStands, StagesRunOnce, VerifiedGoalWasRun

\* The code gate runs only what its last look accepts.
LEMMA GateStart == ScriptInit => GateRunsQualified
BY DEF ScriptInit, GateRunsQualified

LEMMA GateStep ==
  GateRunsQualified /\ HasFields(codeGate, {"pc", "text", "passes", "seen", "ran"}) /\ [GateNext]_codeGate
    => GateRunsQualified' /\ HasFields(codeGate', {"pc", "text", "passes", "seen", "ran"})
BY DEF GateRunsQualified, GateNext, ScanScript, QualifyPass, RunQualified, QualifiedFinally, HasFields

-------------------------------------------------------------------------------
(* The watch of the operator: what it is about to tell counts as told.       *)

Told(w) == turns[w].told + (IF w \in watch.news THEN 1 ELSE 0)

WatchShape ==
  /\ actual \in [Watched -> Nat]
  /\ turns \in [Watched -> [failed : Nat, told : Nat]]
  /\ memory \in [known : BOOLEAN, bad : [Watched -> Nat]]
  /\ watch \in [at : {"idle", "seen", "remembered", "reported"}, seen : [Watched -> Nat], news : SUBSET Watched]

\* What needs action in another form than the one remembered, or the one just
\* seen, came to need it since the last time it was told.
WatchInv ==
  /\ WatchShape
  /\ watch.at = "idle" => watch.news = {}
  /\ watch.at \in {"remembered", "reported"} => memory.bad = watch.seen
  /\ \A w \in Watched :
       /\ Told(w) <= turns[w].failed
       /\ actual[w] # 0 /\ actual[w] # memory.bad[w] => turns[w].told < turns[w].failed
       /\ watch.at # "idle" /\ actual[w] # 0 /\ actual[w] # watch.seen[w] => Told(w) < turns[w].failed

LEMMA WatchStart == OperatorInit => WatchInv
<1>. SUFFICES ASSUME OperatorInit PROVE WatchInv
  OBVIOUS
<1>1. WatchShape
  BY DEF OperatorInit, WatchShape, Quiet, NoCheck
<1>. QED
  BY <1>1 DEF OperatorInit, WatchInv, Told, NoCheck, Quiet

LEMMA TurnStep == ASSUME WatchInv, NEW w \in Watched, NEW form \in Nat, Turn(w, form) PROVE WatchInv'
<1>. DEFINE row == [turns[w] EXCEPT !.failed = IF form = 0 THEN turns[w].failed ELSE turns[w].failed + 1]
<1>1. /\ form # actual[w] /\ actual' = [actual EXCEPT ![w] = form] /\ UNCHANGED <<memory, watch>>
      /\ turns' = [turns EXCEPT ![w] = row]
  BY DEF Turn, WatchInv, WatchShape
<1>2. /\ turns[w] \in [failed : Nat, told : Nat]
      /\ row \in [failed : Nat, told : Nat] /\ row.told = turns[w].told
      /\ row.failed = IF form = 0 THEN turns[w].failed ELSE turns[w].failed + 1
  BY DEF WatchInv, WatchShape
<1>. HIDE DEF row
<1>3. /\ actual' \in [Watched -> Nat] /\ turns' \in [Watched -> [failed : Nat, told : Nat]]
      /\ actual'[w] = form /\ turns'[w] = row
      /\ \A v \in Watched : v # w => actual'[v] = actual[v] /\ turns'[v] = turns[v]
  BY <1>1, <1>2 DEF WatchInv, WatchShape
<1>4. WatchShape'
  BY <1>1, <1>3 DEF WatchInv, WatchShape
<1>5. ASSUME NEW v \in Watched
      PROVE  /\ Told(v)' <= turns'[v].failed
             /\ actual'[v] # 0 /\ actual'[v] # memory.bad[v] => turns'[v].told < turns'[v].failed
             /\ watch.at # "idle" /\ actual'[v] # 0 /\ actual'[v] # watch.seen[v] => Told(v)' < turns'[v].failed
  <2>1. CASE v # w
    BY <1>1, <1>3, <2>1 DEF WatchInv, Told
  <2>2. CASE v = w
    <3>1. turns[w].failed \in Nat /\ turns[w].told \in Nat /\ Told(w) \in Nat /\ turns[w].told <= Told(w)
      BY <1>2 DEF Told
    <3>2. Told(w)' = Told(w) /\ turns'[w].told = turns[w].told /\ Told(w) <= turns[w].failed
      BY <1>1, <1>2, <1>3 DEF Told, WatchInv
    <3>3. CASE form = 0
      BY <1>2, <1>3, <2>2, <3>1, <3>2, <3>3
    <3>4. CASE form # 0
      <4>1. turns'[w].failed = turns[w].failed + 1
        BY <1>2, <1>3, <3>4
      <4>. QED
        BY <2>2, <3>1, <3>2, <4>1
    <3>. QED
      BY <3>3, <3>4
  <2>. QED
    BY <2>1, <2>2
<1>. QED
  BY <1>1, <1>4, <1>5 DEF WatchInv

LEMMA CheckStep == ASSUME WatchInv, NEW reached \in SUBSET Watched, CheckActions(reached) PROVE WatchInv'
<1>. DEFINE seen == Snapshot(reached)
<1>1. /\ watch.at = "idle" /\ UNCHANGED <<actual, turns, memory>>
      /\ watch' = [at |-> "seen", seen |-> seen, news |-> ActionableChanges(seen)]
  BY DEF CheckActions
<1>2. /\ seen \in [Watched -> Nat]
      /\ \A w \in Watched : seen[w] = actual[w] \/ seen[w] = memory.bad[w]
  BY DEF Snapshot, WatchInv, WatchShape
<1>. HIDE DEF seen
<1>3. /\ ActionableChanges(seen) \in SUBSET Watched
      /\ \A w \in Watched : w \in ActionableChanges(seen) => seen[w] # 0 /\ seen[w] # memory.bad[w]
  BY DEF ActionableChanges
<1>4. /\ watch'.at = "seen" /\ watch'.seen = seen /\ watch'.news = ActionableChanges(seen)
      /\ WatchShape'
  BY <1>1, <1>2, <1>3 DEF WatchInv, WatchShape
<1>. HIDE DEF ActionableChanges
<1>5. ASSUME NEW w \in Watched
      PROVE  /\ Told(w)' <= turns[w].failed
             /\ actual[w] # 0 /\ actual[w] # memory.bad[w] => turns[w].told < turns[w].failed
             /\ actual[w] # 0 /\ actual[w] # seen[w] => Told(w)' < turns[w].failed
  <2>1. turns[w].failed \in Nat /\ turns[w].told \in Nat
    BY DEF WatchInv, WatchShape
  <2>2. /\ turns[w].told <= turns[w].failed
        /\ actual[w] # 0 /\ actual[w] # memory.bad[w] => turns[w].told < turns[w].failed
    <3>1. Told(w) = turns[w].told + 0
      BY <1>1 DEF WatchInv, Told
    <3>. QED
      BY <2>1, <3>1 DEF WatchInv
  <2>3. Told(w)' = turns[w].told + (IF w \in ActionableChanges(seen) THEN 1 ELSE 0)
    BY <1>1, <1>4 DEF Told
  <2>4. CASE w \in ActionableChanges(seen)
    BY <1>2, <1>3, <2>1, <2>2, <2>3, <2>4
  <2>5. CASE w \notin ActionableChanges(seen)
    BY <1>2, <2>1, <2>2, <2>3, <2>5
  <2>. QED
    BY <2>4, <2>5
<1>. QED
  BY <1>1, <1>4, <1>5 DEF WatchInv

LEMMA EmitStep == ASSUME WatchInv, EmitChanges PROVE WatchInv'
<1>1. /\ watch.at = "reported" /\ watch' = NoCheck /\ UNCHANGED <<actual, memory>>
      /\ turns' = [w \in Watched |-> [turns[w] EXCEPT !.told = IF w \in watch.news THEN @ + 1 ELSE @]]
  BY DEF EmitChanges
<1>2. ASSUME NEW w \in Watched
      PROVE  /\ turns'[w] \in [failed : Nat, told : Nat]
             /\ turns'[w].failed = turns[w].failed /\ turns'[w].told = Told(w)
  <2>1. turns[w] \in [failed : Nat, told : Nat]
    BY DEF WatchInv, WatchShape
  <2>2. turns'[w] = [turns[w] EXCEPT !.told = IF w \in watch.news THEN turns[w].told + 1 ELSE turns[w].told]
    BY <1>1
  <2>. QED
    BY <2>1, <2>2 DEF Told
<1>3. DOMAIN turns' = Watched
  BY <1>1
<1>4. WatchShape' /\ watch'.at = "idle" /\ watch'.news = {}
  <2>1. watch' \in [at : {"idle", "seen", "remembered", "reported"}, seen : [Watched -> Nat], news : SUBSET Watched]
    BY <1>1 DEF NoCheck, Quiet
  <2>2. turns' \in [Watched -> [failed : Nat, told : Nat]]
    BY <1>1, <1>2
  <2>. QED
    BY <1>1, <2>1, <2>2 DEF WatchInv, WatchShape, NoCheck
<1>5. \A w \in Watched : Told(w)' = turns'[w].told
  <2>. SUFFICES ASSUME NEW w \in Watched PROVE Told(w)' = turns'[w].told
    OBVIOUS
  <2>1. turns'[w].told \in Nat
    BY <1>2
  <2>. QED
    BY <1>4, <2>1 DEF Told
<1>. QED
  BY <1>1, <1>2, <1>4, <1>5 DEF WatchInv

LEMMA WatchStep == WatchInv /\ [WatchdogNext]_watchdogVars => WatchInv'
<1>. SUFFICES ASSUME WatchInv, [WatchdogNext]_watchdogVars PROVE WatchInv'
  OBVIOUS
<1>1. CASE UNCHANGED watchdogVars
  BY <1>1 DEF watchdogVars, WatchInv, WatchShape, Told
<1>2. CASE RememberSnapshot
  <2>1. /\ watch.at = "seen" /\ memory' = [known |-> TRUE, bad |-> watch.seen]
        /\ watch' = [watch EXCEPT !.at = "remembered"] /\ UNCHANGED <<actual, turns>>
    BY <1>2 DEF RememberSnapshot
  <2>2. /\ watch'.at = "remembered" /\ watch'.seen = watch.seen /\ watch'.news = watch.news
        /\ memory'.bad = watch.seen /\ WatchShape'
    BY <2>1 DEF WatchInv, WatchShape
  <2>3. \A w \in Watched : Told(w)' = Told(w) /\ Told(w) \in Nat /\ turns[w].told \in Nat /\ turns[w].told <= Told(w)
                           /\ turns[w].failed \in Nat
    BY <2>1, <2>2 DEF Told, WatchInv, WatchShape
  <2>4. \A w \in Watched : actual[w] # 0 /\ actual[w] # watch.seen[w] => Told(w) < turns[w].failed
    BY <2>1 DEF WatchInv
  <2>5. \A w \in Watched : actual[w] # 0 /\ actual[w] # watch.seen[w] => turns[w].told < turns[w].failed
    BY <2>3, <2>4
  <2>. QED
    BY <2>1, <2>2, <2>3, <2>4, <2>5 DEF WatchInv
<1>3. CASE ReportStatus
  <2>1. /\ watch'.at = "reported" /\ watch'.seen = watch.seen /\ watch'.news = watch.news
        /\ watch.at = "remembered" /\ WatchShape' /\ UNCHANGED <<actual, turns, memory>>
    BY <1>3 DEF ReportStatus, WatchInv, WatchShape
  <2>2. \A w \in Watched : Told(w)' = Told(w)
    BY <2>1 DEF Told
  <2>. QED
    BY <2>1, <2>2 DEF WatchInv
<1>4. CASE WatchDies
  <2>1. /\ watch'.at = "idle" /\ watch'.news = {} /\ WatchShape' /\ UNCHANGED <<actual, turns, memory>>
    BY <1>4 DEF WatchDies, NoCheck, Quiet, WatchInv, WatchShape
  <2>2. \A w \in Watched : /\ turns[w].told \in Nat /\ turns[w].failed \in Nat /\ Told(w) \in Nat
                           /\ turns[w].told <= Told(w) /\ Told(w) <= turns[w].failed
                           /\ Told(w)' = turns[w].told
    BY <2>1 DEF Told, WatchInv, WatchShape
  <2>3. \A w \in Watched : turns[w].told <= turns[w].failed
    BY <2>2
  <2>. QED
    BY <2>1, <2>2, <2>3 DEF WatchInv
<1>5. 0..Forms \subseteq Nat
  BY OperatorAssumption
<1>. QED
  BY <1>1, <1>2, <1>3, <1>4, <1>5, TurnStep, CheckStep, EmitStep DEF WatchdogNext

LEMMA WatchHolds == WatchInv => FailuresToldOnce
BY DEF WatchInv, FailuresToldOnce, Told

-------------------------------------------------------------------------------
(* The guard's evidence: the head in memory is the last line of the file, or  *)
(* a death has lost it and no line has been written since.                    *)

ChainHeads == [head : Nat, seq : Nat]

ChainInv ==
  /\ lines \in [count : Nat, seq : Nat, forks : Nat, gaps : Nat] /\ guardDeaths \in Nat
  /\ evidenceChain \in [memory : ChainHeads, disk : ChainHeads]
  /\ \A c \in {evidenceChain.memory, evidenceChain.disk} :
       c.head <= lines.count /\ (c.head = lines.count => c.seq = lines.seq)
  /\ lines.forks + (IF evidenceChain.memory.head = lines.count THEN 0 ELSE 1) <= guardDeaths
  /\ lines.gaps = 0

LEMMA ChainStart == GuardInit => ChainInv
BY DEF GuardInit, ChainInv, ChainHeads, NoLines, FirstLink

LEMMA ChainGrows ==
  ASSUME ChainInv, NEW event, NEW a, NEW codes, AppendEvent(event, a, codes), UNCHANGED guardDeaths
  PROVE  ChainInv'
<1>. DEFINE head == evidenceChain.memory.head
            seq == evidenceChain.memory.seq
<1>1. /\ lines' = [count |-> lines.count + 1, seq |-> seq + 1,
                   forks |-> lines.forks + IF head = lines.count THEN 0 ELSE 1,
                   gaps  |-> lines.gaps + IF head = lines.count /\ seq + 1 # lines.seq + 1 THEN 1 ELSE 0]
      /\ evidenceChain' = [evidenceChain EXCEPT !.memory = [head |-> lines.count + 1, seq |-> seq + 1]]
  BY DEF AppendEvent, WithLine
<1>2. /\ head \in Nat /\ seq \in Nat /\ lines.count \in Nat /\ lines.seq \in Nat /\ lines.forks \in Nat
      /\ guardDeaths \in Nat /\ evidenceChain.disk \in ChainHeads
      /\ lines.gaps = 0 /\ (head = lines.count => seq = lines.seq)
      /\ lines.forks + (IF head = lines.count THEN 0 ELSE 1) <= guardDeaths
      /\ evidenceChain.disk.head <= lines.count
  BY DEF ChainInv, ChainHeads
<1>. HIDE DEF head, seq
<1>3. /\ lines'.count = lines.count + 1 /\ lines'.seq = seq + 1 /\ lines'.gaps = 0
      /\ lines'.forks = lines.forks + (IF head = lines.count THEN 0 ELSE 1)
      /\ lines' \in [count : Nat, seq : Nat, forks : Nat, gaps : Nat]
  <2>1. ~(head = lines.count /\ seq + 1 # lines.seq + 1)
    BY <1>2
  <2>. QED
    BY <1>1, <1>2, <2>1
<1>4. /\ evidenceChain' \in [memory : ChainHeads, disk : ChainHeads] /\ evidenceChain'.disk = evidenceChain.disk
      /\ evidenceChain'.memory.head = lines.count + 1 /\ evidenceChain'.memory.seq = seq + 1
  BY <1>1, <1>2 DEF ChainInv, ChainHeads
<1>5. evidenceChain.disk.head \in Nat
  BY <1>2 DEF ChainHeads
<1>6. evidenceChain.disk.head <= lines.count + 1 /\ evidenceChain.disk.head # lines.count + 1
  BY <1>2, <1>5
<1>7. lines'.forks + (IF evidenceChain'.memory.head = lines'.count THEN 0 ELSE 1) <= guardDeaths
  BY <1>2, <1>3, <1>4
<1>8. \A c \in {evidenceChain'.memory, evidenceChain'.disk} :
        c.head <= lines'.count /\ (c.head = lines'.count => c.seq = lines'.seq)
  BY <1>2, <1>3, <1>4, <1>6
<1>. QED
  BY <1>2, <1>3, <1>4, <1>7, <1>8 DEF ChainInv

LEMMA ChainLoses == ASSUME ChainInv, GuardDies PROVE ChainInv'
<1>1. /\ guardDeaths' = guardDeaths + 1 /\ UNCHANGED lines
      /\ evidenceChain' = [evidenceChain EXCEPT !.memory = evidenceChain.disk]
  BY DEF GuardDies
<1>2. /\ evidenceChain' \in [memory : ChainHeads, disk : ChainHeads]
      /\ evidenceChain'.memory = evidenceChain.disk /\ evidenceChain'.disk = evidenceChain.disk
  BY <1>1 DEF ChainInv
<1>3. lines.forks <= guardDeaths /\ lines.forks \in Nat /\ guardDeaths \in Nat
  BY DEF ChainInv
<1>4. lines.forks + (IF evidenceChain'.memory.head = lines.count THEN 0 ELSE 1) <= guardDeaths'
  BY <1>1, <1>3
<1>. QED
  BY <1>1, <1>2, <1>3, <1>4 DEF ChainInv

LEMMA ChainStep == ChainInv /\ [GuardNext]_guardVars => ChainInv'
<1>. SUFFICES ASSUME ChainInv, [GuardNext]_guardVars PROVE ChainInv'
  OBVIOUS
<1>1. ASSUME UNCHANGED <<lines, evidenceChain, guardDeaths>> PROVE ChainInv'
  BY <1>1 DEF ChainInv
<1>2. CASE UNCHANGED guardVars \/ ClearTrusted \/ FlushPrefs \/ GuardTick
  BY <1>1, <1>2 DEF guardVars, ClearTrusted, FlushPrefs, GuardTick
<1>3. CASE FlushChain
  <2>1. /\ evidenceChain' = [memory |-> evidenceChain.memory, disk |-> evidenceChain.memory]
        /\ UNCHANGED <<lines, guardDeaths>>
    BY <1>3 DEF FlushChain, Applied
  <2>. QED
    BY <2>1 DEF ChainInv
<1>4. ASSUME NEW a \in Addresses, Connect(a) PROVE ChainInv'
  BY <1>1, <1>4, ChainGrows DEF Connect, HearConnect
<1>5. ASSUME NEW a \in Addresses, Disconnect(a) PROVE ChainInv'
  BY <1>1, <1>5, ChainGrows DEF Disconnect
<1>6. ASSUME NEW a \in Addresses, BondChange(a) PROVE ChainInv'
  BY <1>1, <1>6, ChainGrows DEF BondChange
<1>7. ASSUME NEW was, NEW is, AdapterChange(was, is) PROVE ChainInv'
  BY <1>7, ChainGrows DEF AdapterChange
<1>8. ASSUME NEW p, StartService(p) PROVE ChainInv'
  BY <1>8, ChainGrows DEF StartService
<1>9. CASE StopService \/ BootStartFails \/ TrustBonded
  BY <1>9, ChainGrows DEF StopService, BootStartFails, TrustBonded
<1>. QED
  BY <1>2, <1>3, <1>4, <1>5, <1>6, <1>7, <1>8, <1>9, ChainLoses DEF GuardNext

LEMMA ChainHolds == ChainInv => ChainForksByDeath
<1>. SUFFICES ASSUME ChainInv PROVE ChainForksByDeath
  OBVIOUS
<1>1. lines.forks \in Nat /\ guardDeaths \in Nat /\ lines.gaps = 0
      /\ lines.forks + (IF evidenceChain.memory.head = lines.count THEN 0 ELSE 1) <= guardDeaths
  BY DEF ChainInv
<1>. QED
  BY <1>1 DEF ChainForksByDeath

-------------------------------------------------------------------------------
(* SKY NET's queue: the workers that have selected a job and not yet marked  *)
(* it are the ones that can still run it, and once one of them has, nobody    *)
(* selects it any more.                                                       *)

UpdaterFields == {"pc", "job", "at", "states", "done", "ok", "statusOnly", "manifest", "tail"}
Selected(j) == {u \in SkynetWorkers : updater[u].pc = "selected" /\ updater[u].job = j}

JobsInv ==
  /\ DOMAIN updater = Updaters /\ \A u \in Updaters : HasFields(updater[u], UpdaterFields)
  /\ jobs \in [SkynetJobs -> [state : {"none", "queued", "running", "done", "failed"}, runs : Nat]]
  /\ \A u \in Updaters : updater[u].pc = "selected" => u \in SkynetWorkers /\ updater[u].job \in SkynetJobs
  /\ \A j \in SkynetJobs :
       /\ jobs[j].state \in {"none", "queued"} => jobs[j].runs = 0
       /\ jobs[j].runs + Cardinality(Selected(j)) <= Cardinality(SkynetWorkers)

LEMMA SelectedFew ==
  /\ Cardinality(SkynetWorkers) \in Nat
  /\ \A j : /\ IsFiniteSet(Selected(j)) /\ Cardinality(Selected(j)) \in Nat
            /\ Cardinality(Selected(j)) <= Cardinality(SkynetWorkers)
<1>1. IsFiniteSet(SkynetWorkers)
  BY PairAssumption
<1>2. ASSUME NEW j PROVE Selected(j) \in SUBSET SkynetWorkers
  BY DEF Selected
<1>. QED
  BY <1>1, <1>2, FS_Subset, FS_CardinalityType

LEMMA JobsStart == PairInit => JobsInv
<1>. SUFFICES ASSUME PairInit PROVE JobsInv
  OBVIOUS
<1>1. HasFields(IdleUpdater, UpdaterFields) /\ IdleUpdater.pc = "idle"
  BY DEF IdleUpdater, HasFields, UpdaterFields
<1>2. \A j : Selected(j) = {}
  BY <1>1 DEF PairInit, Selected, Updaters
<1>3. Cardinality({}) = 0 /\ Cardinality(SkynetWorkers) \in Nat
  BY SelectedFew, FS_EmptySet
<1>4. \A j \in SkynetJobs : jobs[j].runs = 0 /\ 0 + 0 <= Cardinality(SkynetWorkers)
  BY <1>3 DEF PairInit
<1>. QED
  BY <1>1, <1>2, <1>3, <1>4 DEF PairInit, JobsInv, Updaters

\* A step of a process that has not selected a job, and does not select one.
LEMMA UpdaterMoves ==
  ASSUME JobsInv, NEW u \in Updaters, NEW row, HasFields(row, UpdaterFields), row.pc # "selected",
         updater' = [updater EXCEPT ![u] = row],
         \/ UNCHANGED jobs
         \/ \E j \in SkynetJobs, s \in {"done", "failed"} : jobs' = [jobs EXCEPT ![j].state = s]
  PROVE  JobsInv'
<1>1. /\ DOMAIN updater' = Updaters /\ updater'[u] = row
      /\ \A v \in Updaters : v # u => updater'[v] = updater[v]
  BY DEF JobsInv
<1>2. ASSUME NEW j PROVE Selected(j)' \in SUBSET Selected(j)
  BY <1>1 DEF Selected, Updaters
<1>3. ASSUME NEW j \in SkynetJobs
      PROVE  Cardinality(Selected(j)') \in Nat /\ Cardinality(Selected(j)') <= Cardinality(Selected(j))
  BY <1>2, SelectedFew, FS_Subset, FS_CardinalityType
<1>4. /\ jobs' \in [SkynetJobs -> [state : {"none", "queued", "running", "done", "failed"}, runs : Nat]]
      /\ \A j \in SkynetJobs : jobs'[j].runs = jobs[j].runs
      /\ \A j \in SkynetJobs : jobs'[j].state \in {"none", "queued"} => jobs[j].state \in {"none", "queued"}
  BY DEF JobsInv
<1>5. ASSUME NEW j \in SkynetJobs
      PROVE  /\ jobs'[j].state \in {"none", "queued"} => jobs'[j].runs = 0
             /\ jobs'[j].runs + Cardinality(Selected(j)') <= Cardinality(SkynetWorkers)
  <2>1. /\ jobs[j].state \in {"none", "queued"} => jobs[j].runs = 0
        /\ jobs[j].runs + Cardinality(Selected(j)) <= Cardinality(SkynetWorkers) /\ jobs[j].runs \in Nat
    BY DEF JobsInv
  <2>2. Cardinality(SkynetWorkers) \in Nat /\ Cardinality(Selected(j)) \in Nat
    BY SelectedFew
  <2>. QED
    BY <1>3, <1>4, <2>1, <2>2
<1>6. \A v \in Updaters : /\ HasFields(updater'[v], UpdaterFields)
                          /\ updater'[v].pc = "selected" => v \in SkynetWorkers /\ updater'[v].job \in SkynetJobs
  BY <1>1 DEF JobsInv
<1>. QED
  BY <1>1, <1>4, <1>5, <1>6 DEF JobsInv

LEMMA SelectStep ==
  ASSUME JobsInv, NEW u \in SkynetWorkers, NEW j \in SkynetJobs, SelectJob(u, j) PROVE JobsInv'
<1>. DEFINE row == [IdleUpdater EXCEPT !.pc = "selected", !.job = j]
<1>1. jobs[j].state = "queued" /\ updater' = [updater EXCEPT ![u] = row] /\ UNCHANGED jobs /\ updater[u].pc = "idle"
  BY DEF SelectJob, Selectable
<1>2. HasFields(row, UpdaterFields) /\ row.pc = "selected" /\ row.job = j
  BY DEF IdleUpdater, HasFields, UpdaterFields
<1>. HIDE DEF row
<1>3. /\ DOMAIN updater' = Updaters /\ updater'[u] = row /\ u \in Updaters
      /\ \A v \in Updaters : v # u => updater'[v] = updater[v]
  BY <1>1 DEF JobsInv, Updaters
<1>4. ASSUME NEW k \in SkynetJobs
      PROVE  jobs[k].runs + Cardinality(Selected(k)') <= Cardinality(SkynetWorkers)
  <2>1. CASE k = j
    <3>1. jobs[k].runs = 0
      BY <1>1, <2>1 DEF JobsInv
    <3>2. Selected(k)' \in SUBSET SkynetWorkers
      BY DEF Selected
    <3>3. Cardinality(Selected(k)') \in Nat /\ Cardinality(Selected(k)') <= Cardinality(SkynetWorkers)
      BY <3>2, PairAssumption, FS_Subset, FS_CardinalityType
    <3>. QED
      BY <3>1, <3>3
  <2>2. CASE k # j
    <3>1. Selected(k)' = Selected(k)
      BY <1>1, <1>2, <1>3, <2>2 DEF Selected, Updaters
    <3>. QED
      BY <3>1 DEF JobsInv
  <2>. QED
    BY <2>1, <2>2
<1>5. \A v \in Updaters : /\ HasFields(updater'[v], UpdaterFields)
                          /\ updater'[v].pc = "selected" => v \in SkynetWorkers /\ updater'[v].job \in SkynetJobs
  BY <1>2, <1>3 DEF JobsInv
<1>. QED
  BY <1>1, <1>3, <1>4, <1>5 DEF JobsInv

LEMMA MarkStepOfJob == ASSUME JobsInv, NEW u \in SkynetWorkers, MarkRunning(u) PROVE JobsInv'
<1>0. PICK j \in SkynetJobs : j = updater[u].job
  BY DEF MarkRunning, JobsInv, Updaters
<1>. DEFINE S == Selected(j)
<1>1. /\ u \in Updaters /\ updater[u].pc = "selected" /\ j = updater[u].job /\ HasFields(updater[u], UpdaterFields)
  BY <1>0 DEF MarkRunning, JobsInv, Updaters
<1>2. jobs' = [jobs EXCEPT ![j].state = "running", ![j].runs = @ + 1]
  BY <1>1 DEF MarkRunning
<1>3. PICK ok \in BOOLEAN :
        updater' = [updater EXCEPT ![u].ok = JobTask[j] = "project_update" \/ ok,
                                   ![u].pc = IF JobTask[j] = "project_update" THEN "inspect" ELSE "finish"]
  BY <1>1 DEF MarkRunning
<1>4. /\ DOMAIN updater' = Updaters /\ HasFields(updater'[u], UpdaterFields) /\ updater'[u].pc # "selected"
      /\ \A v \in Updaters : v # u => updater'[v] = updater[v]
  BY <1>1, <1>3 DEF JobsInv, HasFields, UpdaterFields
<1>5. jobs[j] \in [state : {"none", "queued", "running", "done", "failed"}, runs : Nat]
  BY <1>1 DEF JobsInv
<1>6. /\ jobs' \in [SkynetJobs -> [state : {"none", "queued", "running", "done", "failed"}, runs : Nat]]
      /\ jobs'[j].state = "running" /\ jobs'[j].runs = jobs[j].runs + 1
      /\ \A k \in SkynetJobs : k # j => jobs'[k] = jobs[k]
  BY <1>1, <1>2, <1>5 DEF JobsInv
<1>7. u \in S /\ S \in SUBSET SkynetWorkers
  BY <1>1 DEF Selected
<1>8. Selected(j)' = S \ {u}
  BY <1>1, <1>4 DEF Selected, Updaters
<1>. HIDE DEF S
<1>9. IsFiniteSet(S) /\ Cardinality(S) \in Nat /\ Cardinality(S \ {u}) = Cardinality(S) - 1
  BY <1>7, PairAssumption, FS_Subset, FS_CardinalityType, FS_RemoveElement
<1>10. ASSUME NEW k \in SkynetJobs
       PROVE  /\ jobs'[k].state \in {"none", "queued"} => jobs'[k].runs = 0
              /\ jobs'[k].runs + Cardinality(Selected(k)') <= Cardinality(SkynetWorkers)
  <2>1. CASE k = j
    <3>1. jobs[j].runs + Cardinality(S) <= Cardinality(SkynetWorkers)
      BY <1>1 DEF JobsInv, S
    <3>2. jobs[j].runs \in Nat /\ Cardinality(SkynetWorkers) \in Nat
      BY <1>5, SelectedFew
    <3>3. (jobs[j].runs + 1) + (Cardinality(S) - 1) <= Cardinality(SkynetWorkers)
      BY <1>9, <3>1, <3>2
    <3>. QED
      BY <1>6, <1>8, <1>9, <2>1, <3>3
  <2>2. CASE k # j
    <3>1. Selected(k)' = Selected(k)
      BY <1>1, <1>4, <2>2 DEF Selected, Updaters
    <3>. QED
      BY <1>6, <2>2, <3>1 DEF JobsInv
  <2>. QED
    BY <2>1, <2>2
<1>11. \A v \in Updaters : /\ HasFields(updater'[v], UpdaterFields)
                           /\ updater'[v].pc = "selected" => v \in SkynetWorkers /\ updater'[v].job \in SkynetJobs
  BY <1>4 DEF JobsInv
<1>. QED
  BY <1>4, <1>6, <1>10, <1>11 DEF JobsInv

\* What each step of an update makes of its process.
LEMMA UpdateRows ==
  ASSUME JobsInv, NEW u \in Updaters
  PROVE  /\ HasFields(updater[u], UpdaterFields) /\ HasFields(IdleUpdater, UpdaterFields) /\ IdleUpdater.pc = "idle"
         /\ HasFields(Refuse(u), UpdaterFields) /\ Refuse(u).pc \in {"receipt", "decide", "inspect"}
         /\ HasFields(NextProject(u), UpdaterFields)
         /\ NextProject(u).pc \in {"finish", "clear automation", "merge"}
<1>1. HasFields(updater[u], UpdaterFields)
  BY DEF JobsInv
<1>2. HasFields(IdleUpdater, UpdaterFields) /\ IdleUpdater.pc = "idle"
  BY DEF IdleUpdater, HasFields, UpdaterFields
<1>3. HasFields(Refuse(u), UpdaterFields) /\ Refuse(u).pc \in {"receipt", "decide", "inspect"}
  BY <1>1 DEF Refuse, HasFields, UpdaterFields
<1>4. HasFields(NextProject(u), UpdaterFields) /\ NextProject(u).pc \in {"finish", "clear automation", "merge"}
  BY <1>1 DEF NextProject, Promoted, HasFields, UpdaterFields
<1>. QED
  BY <1>1, <1>2, <1>3, <1>4

\* Every step of an update replaces the row of its process by one that selects
\* nothing and has read no tail.
Moves(u) == \E row : /\ HasFields(row, UpdaterFields) /\ row.pc \notin {"selected", "append"}
                     /\ updater' = [updater EXCEPT ![u] = row]

LEMMA PreflightMoves ==
  ASSUME JobsInv, NEW u \in Updaters, InspectProject(u) \/ FetchProject(u) \/ FetchFails(u) \/ Decide(u)
  PROVE  Moves(u) /\ UNCHANGED jobs
<1>1. HasFields(updater[u], UpdaterFields)
  BY UpdateRows
<1>2. CASE FetchFails(u)
  BY <1>2, UpdateRows DEF FetchFails, Moves
<1>3. CASE InspectProject(u)
  <2>. DEFINE row == [updater[u] EXCEPT !.states[Here(u)].old = projects[Here(u)].head, !.pc = "fetch"]
  <2>1. HasFields(row, UpdaterFields) /\ row.pc = "fetch"
    BY <1>1 DEF HasFields, UpdaterFields
  <2>2. /\ updater' = [updater EXCEPT ![u] = IF projects[Here(u)].dirty THEN Refuse(u) ELSE row]
        /\ UNCHANGED jobs
    BY <1>3 DEF InspectProject
  <2>. HIDE DEF row
  <2>. QED
    BY <2>1, <2>2, UpdateRows DEF Moves
<1>4. CASE FetchProject(u)
  <2>. DEFINE p == Here(u)
              head == IF u \in PairUpdaters THEN StateOf(u).old ELSE projects[p].head
              remote == projects[p].remote
              row == [updater[u] EXCEPT
                        !.states[p] = [action |-> Relation(head, remote), old |-> head, remote |-> remote, new |-> 0],
                        !.pc = IF AtLast(u) THEN "decide" ELSE "inspect", !.at = IF AtLast(u) THEN 1 ELSE @ + 1]
  <2>1. HasFields(row, UpdaterFields) /\ row.pc \in {"decide", "inspect"}
    BY <1>1 DEF HasFields, UpdaterFields
  <2>2. /\ updater' = [updater EXCEPT ![u] = IF Relation(head, remote) = "refused" THEN Refuse(u) ELSE row]
        /\ UNCHANGED jobs
    BY <1>4 DEF FetchProject
  <2>. HIDE DEF row
  <2>. QED
    BY <2>1, <2>2, UpdateRows DEF Moves
<1>5. CASE Decide(u)
  <2>. DEFINE row == IF Refused(u) THEN [updater[u] EXCEPT !.pc = "finish", !.ok = FALSE]
                     ELSE [updater[u] EXCEPT !.pc = IF updater[u].statusOnly THEN Promoted(u) ELSE "merge"]
  <2>1. HasFields(row, UpdaterFields) /\ row.pc \notin {"selected", "append"}
    BY <1>1 DEF Promoted, HasFields, UpdaterFields
  <2>2. updater' = [updater EXCEPT ![u] = row] /\ UNCHANGED jobs
    BY <1>5 DEF Decide
  <2>. HIDE DEF row
  <2>. QED
    BY <2>1, <2>2 DEF Moves
<1>. QED
  BY <1>2, <1>3, <1>4, <1>5

LEMMA PromotionMoves ==
  ASSUME JobsInv, NEW u \in Updaters,
         \/ NothingToMerge(u) \/ MergeProject(u) \/ MergeFails(u) \/ ConfirmProject(u)
         \/ LookBack(u) \/ ResetProject(u) \/ UpdaterDies(u)
  PROVE  Moves(u) /\ UNCHANGED jobs
<1>1. HasFields(updater[u], UpdaterFields) /\ DOMAIN updater = Updaters
  BY UpdateRows DEF JobsInv
<1>2. CASE NothingToMerge(u)
  <2>1. NextProject(u).pc \notin {"selected", "append"}
    BY UpdateRows
  <2>. QED
    BY <1>2, <2>1, UpdateRows DEF NothingToMerge, Moves
<1>3. CASE MergeProject(u)
  <2>. DEFINE row == [updater[u] EXCEPT !.pc = "confirm"]
  <2>1. HasFields(row, UpdaterFields) /\ row.pc = "confirm"
    BY <1>1 DEF HasFields, UpdaterFields
  <2>2. updater' = [updater EXCEPT ![u] = row] /\ UNCHANGED jobs
    BY <1>3 DEF MergeProject
  <2>. HIDE DEF row
  <2>. QED
    BY <2>1, <2>2 DEF Moves
<1>4. CASE MergeFails(u)
  <2>. DEFINE row == [updater[u] EXCEPT !.pc = "look back", !.ok = FALSE]
  <2>1. HasFields(row, UpdaterFields) /\ row.pc = "look back"
    BY <1>1 DEF HasFields, UpdaterFields
  <2>2. updater' = [updater EXCEPT ![u] = row] /\ UNCHANGED jobs
    BY <1>1, <1>4 DEF MergeFails
  <2>. HIDE DEF row
  <2>. QED
    BY <2>1, <2>2 DEF Moves
<1>5. CASE ConfirmProject(u)
  <2>. DEFINE head == projects[Here(u)].head
              on == [NextProject(u) EXCEPT !.states[Here(u)].new = head]
              back == [updater[u] EXCEPT !.pc = "look back", !.ok = FALSE,
                         !.states[Here(u)].new = IF u \in SkynetWorkers THEN head ELSE 0]
  <2>1. HasFields(on, UpdaterFields) /\ on.pc = NextProject(u).pc /\ on.pc \notin {"selected", "append"}
    <3>1. HasFields(NextProject(u), UpdaterFields) /\ NextProject(u).pc \notin {"selected", "append"}
      BY UpdateRows
    <3>. QED
      BY <3>1 DEF HasFields, UpdaterFields
  <2>2. HasFields(back, UpdaterFields) /\ back.pc = "look back"
    BY <1>1 DEF HasFields, UpdaterFields
  <2>3. /\ updater' = [updater EXCEPT ![u] = on] \/ updater' = [updater EXCEPT ![u] = back]
        /\ UNCHANGED jobs
    BY <1>5 DEF ConfirmProject
  <2>. HIDE DEF on, back
  <2>. QED
    BY <2>1, <2>2, <2>3 DEF Moves
<1>6. CASE LookBack(u)
  <2>. DEFINE ended == [updater[u] EXCEPT !.pc = IF u \in SkynetWorkers THEN "finish" ELSE "receipt"]
              undone == [updater[u] EXCEPT !.pc = "reset"]
              next == [updater[u] EXCEPT !.done = Front(updater[u].done)]
  <2>1. /\ HasFields(ended, UpdaterFields) /\ HasFields(undone, UpdaterFields) /\ HasFields(next, UpdaterFields)
        /\ ended.pc \notin {"selected", "append"} /\ undone.pc = "reset" /\ next.pc = updater[u].pc
    BY <1>1 DEF HasFields, UpdaterFields
  <2>2. /\ \/ updater' = [updater EXCEPT ![u] = ended] \/ updater' = [updater EXCEPT ![u] = undone]
           \/ updater' = [updater EXCEPT ![u] = next]
        /\ UNCHANGED jobs /\ updater[u].pc = "look back"
    BY <1>6 DEF LookBack
  <2>. HIDE DEF ended, undone, next
  <2>. QED
    BY <2>1, <2>2 DEF Moves
<1>7. CASE ResetProject(u)
  <2>. DEFINE row == [updater[u] EXCEPT !.pc = "look back", !.done = Front(updater[u].done)]
  <2>1. HasFields(row, UpdaterFields) /\ row.pc = "look back"
    BY <1>1 DEF HasFields, UpdaterFields
  <2>2. updater' = [updater EXCEPT ![u] = row] /\ UNCHANGED jobs
    BY <1>1, <1>7 DEF ResetProject
  <2>. HIDE DEF row
  <2>. QED
    BY <2>1, <2>2 DEF Moves
<1>8. CASE UpdaterDies(u)
  BY <1>8, UpdateRows DEF UpdaterDies, Moves
<1>. QED
  BY <1>2, <1>3, <1>4, <1>5, <1>6, <1>7, <1>8

\* The steps that set nothing in a row but where it is and what it copied.
LEMMA ExportMoves ==
  ASSUME JobsInv, NEW u \in PairUpdaters,
         \/ BeginPair(u) \/ CopyFails(u) \/ CopyBack(u) \/ TakeManifest(u) \/ SealReceipt(u)
         \/ \E p, here : \E next \in {"copy automation", "clear cybersecurity", "copy cybersecurity", "copy back"} :
              ClearCopy(u, p, here, next) \/ CopyExport(u, p, here, next)
  PROVE  Moves(u) /\ UNCHANGED jobs
<1>1. u \in Updaters /\ HasFields(updater[u], UpdaterFields) /\ DOMAIN updater = Updaters
  BY UpdateRows DEF JobsInv, Updaters
<1>2. CASE BeginPair(u)
  <2>1. PICK statusOnly \in BOOLEAN :
          updater' = [updater EXCEPT ![u] = [IdleUpdater EXCEPT !.pc = "inspect", !.statusOnly = statusOnly]]
    BY <1>2 DEF BeginPair
  <2>. DEFINE row == [IdleUpdater EXCEPT !.pc = "inspect", !.statusOnly = statusOnly]
  <2>2. HasFields(row, UpdaterFields) /\ row.pc = "inspect" /\ updater' = [updater EXCEPT ![u] = row]
    BY <2>1 DEF IdleUpdater, HasFields, UpdaterFields
  <2>. HIDE DEF row
  <2>. QED
    BY <1>2, <2>2 DEF BeginPair, Moves
<1>3. ASSUME NEW pc, pc \notin {"selected", "append"}, updater' = [updater EXCEPT ![u].pc = pc], UNCHANGED jobs
      PROVE  Moves(u) /\ UNCHANGED jobs
  <2>. DEFINE row == [updater[u] EXCEPT !.pc = pc]
  <2>1. HasFields(row, UpdaterFields) /\ row.pc = pc /\ updater' = [updater EXCEPT ![u] = row]
    BY <1>1, <1>3 DEF HasFields, UpdaterFields
  <2>. HIDE DEF row
  <2>. QED
    BY <1>3, <2>1 DEF Moves
<1>4. CASE CopyFails(u)
  <2>. DEFINE row == [updater[u] EXCEPT !.pc = "receipt", !.ok = FALSE]
  <2>1. HasFields(row, UpdaterFields) /\ row.pc = "receipt" /\ updater' = [updater EXCEPT ![u] = row]
    BY <1>1, <1>4 DEF CopyFails, HasFields, UpdaterFields
  <2>. HIDE DEF row
  <2>. QED
    BY <1>4, <2>1 DEF CopyFails, Moves
<1>5. CASE TakeManifest(u)
  <2>. DEFINE row == [updater[u] EXCEPT !.pc = "receipt", !.manifest = [p \in ProjectNames |-> integrated[p]]]
  <2>1. HasFields(row, UpdaterFields) /\ row.pc = "receipt" /\ updater' = [updater EXCEPT ![u] = row]
    BY <1>1, <1>5 DEF TakeManifest, HasFields, UpdaterFields
  <2>. HIDE DEF row
  <2>. QED
    BY <1>5, <2>1 DEF TakeManifest, Moves
<1>6. CASE SealReceipt(u)
  BY <1>1, <1>6, UpdateRows DEF SealReceipt, Moves
<1>7. CASE CopyBack(u)
  <2>1. updater' = [updater EXCEPT ![u].pc = "manifest"] /\ UNCHANGED jobs
    BY <1>7 DEF CopyBack
  <2>2. "manifest" \notin {"selected", "append"}
    OBVIOUS
  <2>. QED
    BY <1>3, <2>1, <2>2
<1>8. ASSUME NEW p, NEW here,
             NEW next \in {"copy automation", "clear cybersecurity", "copy cybersecurity", "copy back"},
             ClearCopy(u, p, here, next) \/ CopyExport(u, p, here, next)
      PROVE  Moves(u) /\ UNCHANGED jobs
  BY <1>3, <1>8 DEF ClearCopy, CopyExport
<1>. QED
  BY <1>2, <1>4, <1>5, <1>6, <1>7, <1>8

LEMMA WorkerMoves ==
  ASSUME JobsInv, NEW u \in SkynetWorkers, FinishJob(u) \/ ReadTail(u) \/ AppendAudit(u)
  PROVE  /\ \E row : HasFields(row, UpdaterFields) /\ row.pc # "selected" /\ updater' = [updater EXCEPT ![u] = row]
         /\ \/ UNCHANGED jobs
            \/ jobs' = [jobs EXCEPT ![updater[u].job].state = "done"]
            \/ jobs' = [jobs EXCEPT ![updater[u].job].state = "failed"]
<1>1. u \in Updaters /\ HasFields(updater[u], UpdaterFields) /\ DOMAIN updater = Updaters
  BY UpdateRows DEF JobsInv, Updaters
<1>2. CASE FinishJob(u)
  <2>. DEFINE row == [updater[u] EXCEPT !.pc = "audit"]
  <2>1. HasFields(row, UpdaterFields) /\ row.pc = "audit" /\ updater' = [updater EXCEPT ![u] = row]
    BY <1>1, <1>2 DEF FinishJob, HasFields, UpdaterFields
  <2>. HIDE DEF row
  <2>2. jobs' = [jobs EXCEPT ![updater[u].job].state = IF updater[u].ok THEN "done" ELSE "failed"]
    BY <1>2 DEF FinishJob
  <2>. QED
    BY <2>1, <2>2
<1>3. CASE ReadTail(u)
  <2>. DEFINE row == [updater[u] EXCEPT !.pc = "append", !.tail = Len(jobAudit)]
  <2>1. HasFields(row, UpdaterFields) /\ row.pc = "append" /\ updater' = [updater EXCEPT ![u] = row]
    BY <1>1, <1>3 DEF ReadTail, HasFields, UpdaterFields
  <2>. HIDE DEF row
  <2>. QED
    BY <1>3, <2>1 DEF ReadTail
<1>4. CASE AppendAudit(u)
  BY <1>1, <1>4, UpdateRows DEF AppendAudit
<1>. QED
  BY <1>2, <1>3, <1>4

LEMMA JobsStep == JobsInv /\ [SkynetNext \/ PairNext]_pairVars => JobsInv'
<1>. SUFFICES ASSUME JobsInv, [SkynetNext \/ PairNext]_pairVars PROVE JobsInv'
  OBVIOUS
<1>1. ASSUME UNCHANGED <<updater, jobs>> PROVE JobsInv'
  BY <1>1 DEF JobsInv, Selected
<1>2. CASE UNCHANGED pairVars \/ PairSurroundings
  BY <1>1, <1>2 DEF pairVars, PairSurroundings, RemoteAdvances, SomebodyFetches, SomebodyCommits, SomebodyEdits,
                    SomebodyTidies, Interferes
<1>3. ASSUME NEW u \in Updaters, Moves(u), UNCHANGED jobs PROVE JobsInv'
  BY <1>3, UpdaterMoves DEF Moves
<1>4. ASSUME NEW u \in Updaters, UpdateStep(u) PROVE JobsInv'
  BY <1>3, <1>4, PreflightMoves, PromotionMoves DEF UpdateStep
<1>5. ASSUME NEW j \in SkynetJobs, Submit(j) PROVE JobsInv'
  <2>1. jobs[j].state = "none" /\ jobs' = [jobs EXCEPT ![j].state = "queued"] /\ UNCHANGED updater
    BY <1>5 DEF Submit
  <2>2. /\ jobs' \in [SkynetJobs -> [state : {"none", "queued", "running", "done", "failed"}, runs : Nat]]
        /\ \A k \in SkynetJobs : jobs'[k].runs = jobs[k].runs
        /\ \A k \in SkynetJobs : jobs'[k].state \in {"none", "queued"} => jobs[k].state \in {"none", "queued"}
    BY <2>1 DEF JobsInv
  <2>3. \A k : Selected(k)' = Selected(k)
    BY <2>1 DEF Selected
  <2>. QED
    BY <2>1, <2>2, <2>3 DEF JobsInv
<1>6. ASSUME NEW u \in SkynetWorkers, FinishJob(u) \/ ReadTail(u) \/ AppendAudit(u) PROVE JobsInv'
  <2>1. PICK row : /\ HasFields(row, UpdaterFields) /\ row.pc # "selected"
                   /\ updater' = [updater EXCEPT ![u] = row]
    BY <1>6, WorkerMoves
  <2>2. \/ UNCHANGED jobs
        \/ jobs' = [jobs EXCEPT ![updater[u].job].state = "done"]
        \/ jobs' = [jobs EXCEPT ![updater[u].job].state = "failed"]
    BY <1>6, WorkerMoves
  <2>3. updater[u].job \notin SkynetJobs /\ jobs' # jobs => FALSE
    <3>. SUFFICES ASSUME updater[u].job \notin DOMAIN jobs PROVE UNCHANGED jobs
      BY DEF JobsInv
    <3>1. jobs = [j \in SkynetJobs |-> jobs[j]]
      BY DEF JobsInv
    <3>. QED
      BY <2>2, <3>1
  <2>4. \/ UNCHANGED jobs
        \/ \E j \in SkynetJobs, s \in {"done", "failed"} : jobs' = [jobs EXCEPT ![j].state = s]
    BY <2>2, <2>3
  <2>5. u \in Updaters
    BY DEF Updaters
  <2>. QED
    BY <2>1, <2>4, <2>5, UpdaterMoves
<1>7. CASE SkynetNext
  BY <1>2, <1>4, <1>5, <1>6, <1>7, SelectStep, MarkStepOfJob DEF SkynetNext, Updaters
<1>8. CASE PairNext
  BY <1>2, <1>3, <1>4, <1>8, ExportMoves DEF PairNext, Updaters
<1>. QED
  BY <1>2, <1>7, <1>8

LEMMA JobsHold == JobsInv => JobRunsBounded
<1>. SUFFICES ASSUME JobsInv, NEW j \in SkynetJobs PROVE jobs[j].runs <= Cardinality(SkynetWorkers)
  BY DEF JobRunsBounded
<1>1. jobs[j].runs \in Nat /\ jobs[j].runs + Cardinality(Selected(j)) <= Cardinality(SkynetWorkers)
  BY DEF JobsInv
<1>. QED
  BY <1>1, SelectedFew

-------------------------------------------------------------------------------
(* The suite of the workers: what each component's steps leave untouched.   *)

LEMMA WorkersFrame ==
  ASSUME [Next]_suiteVars
  PROVE  /\ [CallNext]_callVars /\ [MarkNext]_markVars /\ [HermesNext]_bridgeVars
         /\ [BridgeNext]_bridgeFiles /\ [CycleNext]_cycleVars /\ [GateNext]_codeGate
<1>1. CallsRuns \/ UNCHANGED callVars
  BY DEF suiteVars, Next, workerVars, FleetRuns, IntelligenceRuns, VercelRuns, MarksRuns, HermesRuns,
         ScriptsRun, CleanerRuns, OperatorRuns, GuardRuns, ManagerRuns, PairRuns
<1>2. MarksRuns \/ UNCHANGED markVars
  BY DEF suiteVars, Next, workerVars, FleetRuns, IntelligenceRuns, VercelRuns, CallsRuns, HermesRuns,
         ScriptsRun, CleanerRuns, OperatorRuns, GuardRuns, ManagerRuns, PairRuns
<1>3. HermesRuns \/ UNCHANGED bridgeVars
  BY DEF suiteVars, Next, workerVars, FleetRuns, IntelligenceRuns, VercelRuns, CallsRuns, MarksRuns,
         ScriptsRun, CleanerRuns, OperatorRuns, GuardRuns, ManagerRuns, PairRuns
<1>4. ScriptsRun \/ UNCHANGED scriptVars
  BY DEF suiteVars, Next, workerVars, FleetRuns, IntelligenceRuns, VercelRuns, CallsRuns, MarksRuns,
         HermesRuns, CleanerRuns, OperatorRuns, GuardRuns, ManagerRuns, PairRuns
<1>5. CASE ScriptsRun
  BY <1>1, <1>2, <1>3, <1>5 DEF ScriptsRun, BridgeNext, CycleNext, GateNext, CallsRuns, MarksRuns, HermesRuns
<1>6. CASE UNCHANGED scriptVars
  BY <1>1, <1>2, <1>3, <1>6 DEF CallsRuns, MarksRuns, HermesRuns, scriptVars
<1>. QED
  BY <1>4, <1>5, <1>6

LEMMA WatchersFrame ==
  ASSUME [Next]_suiteVars
  PROVE  /\ [WatchdogNext]_watchdogVars /\ [GuardNext]_guardVars /\ [SkynetNext \/ PairNext]_pairVars
<1>1. OperatorRuns \/ UNCHANGED operatorVars
  BY DEF suiteVars, Next, watcherVars, FleetRuns, IntelligenceRuns, VercelRuns, CallsRuns, MarksRuns,
         HermesRuns, ScriptsRun, CleanerRuns, GuardRuns, ManagerRuns, PairRuns
<1>2. GuardRuns \/ UNCHANGED guardVars
  BY DEF suiteVars, Next, watcherVars, FleetRuns, IntelligenceRuns, VercelRuns, CallsRuns, MarksRuns,
         HermesRuns, ScriptsRun, CleanerRuns, OperatorRuns, ManagerRuns, PairRuns
<1>3. PairRuns \/ UNCHANGED pairVars
  BY DEF suiteVars, Next, watcherVars, FleetRuns, IntelligenceRuns, VercelRuns, CallsRuns, MarksRuns,
         HermesRuns, ScriptsRun, CleanerRuns, OperatorRuns, GuardRuns, ManagerRuns
<1>4. [WatchdogNext]_watchdogVars
  BY <1>1 DEF OperatorRuns, ResumeNext, operatorVars, watchdogVars, NextCommit, GateTurns,
              StartResume, ScriptEnds, EnrollByHand, KeepPackage, ResumerDies
<1>. QED
  BY <1>2, <1>3, <1>4 DEF GuardRuns, PairRuns

OnceInv == AnswersInv /\ MarksInv /\ PaymentsInv /\ BridgeInv /\ CycleInv /\ WatchInv /\ ChainInv /\ JobsInv

LEMMA OnceHolds == Spec => []OnceInv
<1>1. Init => OnceInv
  BY AnswersStart, MarksStart, PaymentsStart, BridgeStart, CycleStart, WatchStart, ChainStart, JobsStart
     DEF Init, OnceInv
<1>2. OnceInv /\ [Next]_suiteVars => OnceInv'
  BY WorkersFrame, WatchersFrame, AnswersStep, MarksStep, PaymentsStep, BridgeStep, CycleStepHolds, WatchStep,
     ChainStep, JobsStep DEF OnceInv
<1>. QED
  BY <1>1, <1>2, PTL DEF Spec, suiteVars

\* Whatever processes overlap, retry or die, whatever is pushed, staged or
\* changed beneath them: a request is answered once per idempotency key, an
\* effect is executed for the request its marker names, a job of the bridge is
\* paid for by a token of its own, a staged script runs once, a failure is told
\* once, the guard's event chain forks by deaths only and a job of SKY NET runs
\* no more often than there are workers.
THEOREM EverythingIsDoneOnce == Spec => []DoneOnceOnly
<1>1. MarksInv => EffectsAreBound
  BY DEF MarksInv
<1>2. OnceInv => DoneOnceOnly
  BY <1>1, AnswersHold, PaymentsHold, StagesHold, WatchHolds, ChainHolds, JobsHold DEF OnceInv, DoneOnceOnly, In
<1>. QED
  BY <1>2, OnceHolds, PTL

-------------------------------------------------------------------------------
(* The feed.  Only observers that read the latest event extend it, and the   *)
(* first of them to commit makes it the latest no longer: an event has no     *)
(* link while it is the latest, and later no more links and readers than      *)
(* there were readers.                                                        *)

Links(e) == {i \in DOMAIN chain : chain[i].prev = e}
Reading(e) == {o \in Observers : seeing[o].stage = "read" /\ seeing[o].prev = e}
Reads == [stage : {"read"}, key : EventKeys, prev : EventKeys \union {Genesis}]

\* What a reader read is the first link or an event that was recorded.
LinkRecorded(o) == seeing[o].prev = Genesis \/ Recorded(seeing[o].prev)
ContentRecorded(s) == Recorded(<<s, snapshot[s]>>)

FeedShape ==
  /\ chain \in Seq([key : EventKeys, prev : EventKeys \union {Genesis}])
  /\ work \in [WorkKeys -> {"ABSENT", "QUEUED", "RUNNING", "COMPLETE"}]
  /\ snapshot \in [Sources -> Contents \union {"none"}]
  /\ seeing \in [Observers -> {NotSeeing} \union Reads]

FeedInv ==
  /\ FeedShape /\ CurrentContentAnnounced
  /\ \A i, j \in DOMAIN chain : chain[i].key = chain[j].key => i = j
  /\ \A i \in DOMAIN chain : chain[i].prev = Genesis \/ \E h \in 1..(i - 1) : chain[h].key = chain[i].prev
  /\ \A o \in Observers : seeing[o].stage = "read" => LinkRecorded(o)
  /\ \A e \in EventKeys \union {Genesis} : Cardinality(Links(e)) + Cardinality(Reading(e)) <= Cardinality(Observers)

LEMMA ChainFinite ==
  ASSUME FeedShape, NEW e
  PROVE  /\ IsFiniteSet(Links(e)) /\ Cardinality(Links(e)) \in Nat
         /\ IsFiniteSet(Reading(e)) /\ Cardinality(Reading(e)) \in Nat
         /\ Cardinality(Reading(e)) <= Cardinality(Observers) /\ Cardinality(Observers) \in Nat
<1>1. Len(chain) \in Nat /\ DOMAIN chain = 1..Len(chain)
  BY LenProperties DEF FeedShape
<1>2. Links(e) \in SUBSET (1..Len(chain)) /\ IsFiniteSet(1..Len(chain))
  BY <1>1, FS_Interval DEF Links
<1>3. Reading(e) \in SUBSET Observers /\ IsFiniteSet(Observers)
  BY IntelligenceAssumption DEF Reading
<1>. QED
  BY <1>2, <1>3, FS_Subset, FS_CardinalityType

LEMMA FeedStart == IntelligenceInit => FeedInv
<1>. SUFFICES ASSUME IntelligenceInit PROVE FeedInv
  OBVIOUS
<1>1. FeedShape
  BY DEF IntelligenceInit, FeedShape
<1>2. chain = <<>> /\ DOMAIN chain = {} /\ \A o \in Observers : seeing[o].stage # "read"
  BY DEF IntelligenceInit, NotSeeing
<1>3. \A e : Links(e) = {} /\ Reading(e) = {}
  BY <1>2 DEF Links, Reading
<1>4. \A e : Cardinality(Links(e)) + Cardinality(Reading(e)) <= Cardinality(Observers)
  <2>1. Cardinality({}) = 0 /\ Cardinality(Observers) \in Nat
    BY <1>1, ChainFinite, FS_EmptySet
  <2>. QED
    BY <1>3, <2>1
<1>5. CurrentContentAnnounced
  BY DEF IntelligenceInit, CurrentContentAnnounced
<1>. QED
  BY <1>1, <1>2, <1>4, <1>5 DEF FeedInv

\* A step of the queue of work, which forgets no key it was given.
LEMMA FeedRests ==
  ASSUME FeedInv, UNCHANGED <<snapshot, chain, seeing>>,
         work' \in [WorkKeys -> {"ABSENT", "QUEUED", "RUNNING", "COMPLETE"}],
         \A k \in WorkKeys : work[k] # "ABSENT" => work'[k] # "ABSENT"
  PROVE  FeedInv'
<1>1. FeedShape'
  BY DEF FeedInv, FeedShape
<1>2. \A e : Links(e)' = Links(e) /\ Reading(e)' = Reading(e) /\ Recorded(e)' = Recorded(e)
  BY DEF Links, Reading, Recorded
<1>3. \A s \in Sources : snapshot[s] # "none" => <<s, snapshot[s]>> \in WorkKeys
  BY DEF FeedInv, FeedShape, WorkKeys, EventKeys
<1>. QED
  BY <1>1, <1>2, <1>3 DEF FeedInv, CurrentContentAnnounced, LinkRecorded

\* An observer that stops reading leaves the rest as it is.
LEMMA ReaderLeaves ==
  ASSUME FeedInv, NEW o \in Observers, seeing' = [seeing EXCEPT ![o] = NotSeeing],
         UNCHANGED <<snapshot, chain, work>>
  PROVE  FeedInv'
<1>1. /\ seeing' \in [Observers -> {NotSeeing} \union Reads]
      /\ \A q \in Observers : seeing'[q].stage = "read" => seeing'[q] = seeing[q]
  BY DEF FeedInv, FeedShape, NotSeeing
<1>2. \A e : Links(e)' = Links(e) /\ Recorded(e)' = Recorded(e) /\ Reading(e)' \in SUBSET Reading(e)
  BY <1>1 DEF Links, Reading, Recorded
<1>3. FeedShape'
  BY <1>1 DEF FeedInv, FeedShape
<1>4. ASSUME NEW e \in EventKeys \union {Genesis}
      PROVE  Cardinality(Links(e)') + Cardinality(Reading(e)') <= Cardinality(Observers)
  <2>1. Cardinality(Reading(e)') <= Cardinality(Reading(e)) /\ Cardinality(Reading(e)') \in Nat
    BY <1>2, ChainFinite, FS_Subset, FS_CardinalityType DEF FeedInv
  <2>2. Cardinality(Links(e)) + Cardinality(Reading(e)) <= Cardinality(Observers) /\ Links(e)' = Links(e)
    BY <1>2 DEF FeedInv
  <2>3. Cardinality(Links(e)) \in Nat /\ Cardinality(Reading(e)) \in Nat /\ Cardinality(Observers) \in Nat
    BY ChainFinite DEF FeedInv
  <2>. QED
    BY <2>1, <2>2, <2>3
<1>. QED
  BY <1>1, <1>2, <1>3, <1>4 DEF FeedInv, CurrentContentAnnounced, LinkRecorded

\* The latest event has no link yet.
LEMMA LatestUnlinked == FeedInv => Links(LatestHash) = {} /\ LatestHash \in EventKeys \union {Genesis}
                                   /\ (LatestHash = Genesis \/ Recorded(LatestHash))
<1>. SUFFICES ASSUME FeedInv
              PROVE  /\ Links(LatestHash) = {} /\ LatestHash \in EventKeys \union {Genesis}
                     /\ LatestHash = Genesis \/ Recorded(LatestHash)
  OBVIOUS
<1>1. /\ Len(chain) \in Nat /\ DOMAIN chain = 1..Len(chain) /\ (chain # <<>> => Len(chain) >= 1)
      /\ \A i \in DOMAIN chain : chain[i] \in [key : EventKeys, prev : EventKeys \union {Genesis}]
  <2>1. chain \in Seq([key : EventKeys, prev : EventKeys \union {Genesis}])
    BY DEF FeedInv, FeedShape
  <2>2. Len(chain) \in Nat /\ DOMAIN chain = 1..Len(chain) /\ (chain # <<>> => Len(chain) # 0)
    BY <2>1, LenProperties, EmptySeq
  <2>3. \A m \in Nat : m # 0 => m >= 1
    OBVIOUS
  <2>4. \A i \in 1..Len(chain) : chain[i] \in [key : EventKeys, prev : EventKeys \union {Genesis}]
    BY <2>1, ElementOfSeq
  <2>. QED
    BY <2>2, <2>3, <2>4
<1>2. CASE chain = <<>>
  BY <1>2 DEF LatestHash, Links
<1>3. CASE chain # <<>>
  <2>. DEFINE n == Len(chain)
  <2>1. n \in DOMAIN chain /\ LatestHash = chain[n].key /\ LatestHash \in EventKeys
    BY <1>1, <1>3 DEF LatestHash
  <2>2. LatestHash # Genesis
    <3>1. PICK s \in Sources, c \in Contents : LatestHash = <<s, c>>
      BY <2>1 DEF EventKeys
    <3>2. <<s, c>> # <<>>
      OBVIOUS
    <3>. QED
      BY <3>1, <3>2 DEF Genesis
  <2>3. ASSUME NEW i \in DOMAIN chain, chain[i].prev = LatestHash PROVE FALSE
    <3>1. PICK h \in 1..(i - 1) : chain[h].key = chain[i].prev
      BY <2>2, <2>3 DEF FeedInv
    <3>2. h \in DOMAIN chain /\ h # n
      <4>1. n \in Nat /\ i \in 1..n /\ DOMAIN chain = 1..n
        BY <1>1
      <4>. HIDE DEF n
      <4>. QED
        BY <4>1
    <3>. QED
      BY <2>1, <2>3, <3>1, <3>2 DEF FeedInv
  <2>. QED
    BY <2>1, <2>3 DEF Links, Recorded
<1>. QED
  BY <1>2, <1>3

LEMMA ReadStep ==
  ASSUME FeedInv, NEW o \in Observers, NEW s \in Sources, NEW c \in Contents, ObserveReads(o, s, c)
  PROVE  FeedInv'
<1>. DEFINE row == [stage |-> "read", key |-> <<s, c>>, prev |-> LatestHash]
<1>1. seeing' = [seeing EXCEPT ![o] = row] /\ seeing[o] = NotSeeing /\ UNCHANGED <<snapshot, chain, work>>
  BY DEF ObserveReads
<1>2. row \in Reads /\ row.stage = "read" /\ row.prev = LatestHash
  BY LatestUnlinked DEF Reads, EventKeys
<1>. HIDE DEF row
<1>3. /\ seeing' \in [Observers -> {NotSeeing} \union Reads] /\ seeing'[o] = row
      /\ \A q \in Observers : q # o => seeing'[q] = seeing[q]
  BY <1>1, <1>2 DEF FeedInv, FeedShape
<1>4. \A e : Links(e)' = Links(e) /\ Recorded(e)' = Recorded(e)
  BY <1>1 DEF Links, Recorded
<1>5. FeedShape'
  BY <1>1, <1>3 DEF FeedInv, FeedShape
<1>6. ASSUME NEW e \in EventKeys \union {Genesis}
      PROVE  Cardinality(Links(e)') + Cardinality(Reading(e)') <= Cardinality(Observers)
  <2>1. CASE e = LatestHash
    <3>1. Links(e)' = {}
      BY <1>4, <2>1, LatestUnlinked
    <3>2. Cardinality(Reading(e)') <= Cardinality(Observers) /\ Cardinality(Reading(e)') \in Nat
      <4>1. Reading(e)' \in SUBSET Observers /\ IsFiniteSet(Observers)
        BY IntelligenceAssumption DEF Reading
      <4>. QED
        BY <4>1, FS_Subset, FS_CardinalityType
    <3>3. Cardinality({}) = 0
      BY FS_EmptySet
    <3>. QED
      BY <3>1, <3>2, <3>3
  <2>2. CASE e # LatestHash
    <3>1. Reading(e)' = Reading(e)
      BY <1>1, <1>2, <1>3, <2>2 DEF Reading, NotSeeing
    <3>. QED
      BY <1>4, <3>1 DEF FeedInv
  <2>. QED
    BY <2>1, <2>2
<1>7. ASSUME NEW q \in Observers, seeing'[q].stage = "read" PROVE LinkRecorded(q)'
  <2>1. CASE q = o
    BY <1>2, <1>3, <1>4, <2>1, LatestUnlinked DEF LinkRecorded
  <2>2. CASE q # o
    BY <1>3, <1>4, <1>7, <2>2 DEF FeedInv, LinkRecorded
  <2>. QED
    BY <2>1, <2>2
<1>. QED
  BY <1>1, <1>4, <1>5, <1>6, <1>7 DEF FeedInv, CurrentContentAnnounced

LEMMA CommitEventStep == ASSUME FeedInv, NEW o \in Observers, ObserveCommits(o) PROVE FeedInv'
<1>. DEFINE key == seeing[o].key
            prev == seeing[o].prev
            row == [key |-> key, prev |-> prev]
            n == Len(chain)
<1>1. /\ seeing[o].stage = "read" /\ seeing' = [seeing EXCEPT ![o] = NotSeeing]
      /\ chain' = IF Recorded(key) THEN chain ELSE Append(chain, row)
      /\ snapshot' = [snapshot EXCEPT ![key[1]] = key[2]]
      /\ work' = [work EXCEPT ![key] = IF work[key] = "ABSENT" THEN "QUEUED" ELSE work[key]]
  BY DEF ObserveCommits
<1>2. /\ seeing[o] \in Reads /\ key \in EventKeys /\ prev \in EventKeys \union {Genesis}
      /\ prev = Genesis \/ Recorded(prev)
  <2>1. seeing[o] \in Reads
    BY <1>1 DEF FeedInv, FeedShape, NotSeeing
  <2>2. LinkRecorded(o)
    BY <1>1 DEF FeedInv
  <2>. QED
    BY <2>1, <2>2 DEF Reads, LinkRecorded
<1>3. PICK s \in Sources, c \in Contents : key = <<s, c>>
  BY <1>2 DEF EventKeys
<1>4. n \in Nat /\ DOMAIN chain = 1..n
  BY LenProperties DEF FeedInv, FeedShape
<1>5. row \in [key : EventKeys, prev : EventKeys \union {Genesis}] /\ row.key = key /\ row.prev = prev
  BY <1>2
<1>6. snapshot' = [snapshot EXCEPT ![s] = c]
  BY <1>1, <1>3
<1>. HIDE DEF key, prev, row, n
<1>7. /\ work' \in [WorkKeys -> {"ABSENT", "QUEUED", "RUNNING", "COMPLETE"}] /\ work'[key] # "ABSENT"
      /\ \A k \in WorkKeys : work[k] # "ABSENT" => work'[k] # "ABSENT"
  <2>1. key \in WorkKeys
    BY <1>2 DEF WorkKeys
  <2>. QED
    BY <1>1, <2>1 DEF FeedInv, FeedShape
<1>8. /\ seeing' \in [Observers -> {NotSeeing} \union Reads]
      /\ \A q \in Observers : seeing'[q].stage = "read" => q # o /\ seeing'[q] = seeing[q]
      /\ \A q \in Observers : q # o => seeing'[q] = seeing[q]
  BY <1>1 DEF FeedInv, FeedShape, NotSeeing
<1>9. /\ chain' \in Seq([key : EventKeys, prev : EventKeys \union {Genesis}])
      /\ \A i \in DOMAIN chain : i \in DOMAIN chain' /\ chain'[i] = chain[i]
      /\ IF Recorded(key) THEN DOMAIN chain' = DOMAIN chain
         ELSE DOMAIN chain' = 1..(n + 1) /\ chain'[n + 1] = row
  <2>1. CASE Recorded(key)
    BY <1>1, <2>1 DEF FeedInv, FeedShape
  <2>2. CASE ~Recorded(key)
    <3>1. chain' = Append(chain, row) /\ chain \in Seq([key : EventKeys, prev : EventKeys \union {Genesis}])
      BY <1>1, <2>2 DEF FeedInv, FeedShape
    <3>2. /\ Append(chain, row) \in Seq([key : EventKeys, prev : EventKeys \union {Genesis}])
          /\ Len(Append(chain, row)) = n + 1 /\ Append(chain, row)[n + 1] = row
          /\ \A i \in 1..n : Append(chain, row)[i] = chain[i]
      BY <1>5, <3>1, AppendProperties DEF n
    <3>3. DOMAIN Append(chain, row) = 1..(n + 1)
      BY <3>2, LenProperties
    <3>. QED
      BY <1>4, <2>2, <3>1, <3>2, <3>3
  <2>. QED
    BY <2>1, <2>2
<1>10. /\ \A e : Recorded(e) => Recorded(e)'
       /\ Recorded(<<s, c>>)'
  <2>1. ASSUME NEW e, Recorded(e) PROVE Recorded(e)'
    <3>1. PICK i \in DOMAIN chain : chain[i].key = e
      BY <2>1 DEF Recorded
    <3>2. i \in DOMAIN chain' /\ chain'[i].key = e
      BY <1>9, <3>1
    <3>. QED
      BY <3>2 DEF Recorded
  <2>2. CASE Recorded(key)
    <3>1. Recorded(<<s, c>>)
      BY <1>3, <2>2
    <3>. QED
      BY <2>1, <3>1
  <2>3. CASE ~Recorded(key)
    <3>1. n + 1 \in DOMAIN chain' /\ chain'[n + 1].key = <<s, c>>
      BY <1>3, <1>4, <1>5, <1>9, <2>3
    <3>2. Recorded(<<s, c>>)'
      BY <3>1 DEF Recorded
    <3>. QED
      BY <2>1, <3>2
  <2>. QED
    BY <2>2, <2>3
<1>11. FeedShape'
  BY <1>3, <1>6, <1>7, <1>8, <1>9 DEF FeedInv, FeedShape
<1>12. CurrentContentAnnounced'
  <2>. SUFFICES ASSUME NEW r \in Sources, snapshot'[r] # "none"
                PROVE  ContentRecorded(r)' /\ work'[<<r, snapshot'[r]>>] # "ABSENT"
    BY DEF CurrentContentAnnounced, ContentRecorded
  <2>1. CASE r = s
    <3>1. snapshot'[r] = c
      BY <1>6, <2>1 DEF FeedInv, FeedShape
    <3>. QED
      BY <1>3, <1>7, <1>10, <2>1, <3>1 DEF ContentRecorded
  <2>2. CASE r # s
    <3>1. snapshot'[r] = snapshot[r] /\ <<r, snapshot[r]>> \in WorkKeys
      BY <1>6, <2>2 DEF FeedInv, FeedShape, WorkKeys, EventKeys
    <3>. QED
      BY <1>7, <1>10, <3>1 DEF FeedInv, CurrentContentAnnounced, ContentRecorded
  <2>. QED
    BY <2>1, <2>2
<1>13. \A i, j \in DOMAIN chain' : chain'[i].key = chain'[j].key => i = j
  <2>1. CASE Recorded(key)
    BY <1>9, <2>1 DEF FeedInv
  <2>2. CASE ~Recorded(key)
    <3>1. \A i \in DOMAIN chain : chain[i].key # key
      BY <2>2 DEF Recorded
    <3>2. \A i \in DOMAIN chain' : i \in DOMAIN chain \/ i = n + 1
      BY <1>4, <1>9, <2>2
    <3>3. chain'[n + 1].key = key
      BY <1>5, <1>9, <2>2
    <3>. QED
      BY <1>9, <3>1, <3>2, <3>3 DEF FeedInv
  <2>. QED
    BY <2>1, <2>2
<1>14. \A i \in DOMAIN chain' : chain'[i].prev = Genesis \/ \E h \in 1..(i - 1) : chain'[h].key = chain'[i].prev
  <2>1. ASSUME NEW i \in DOMAIN chain
        PROVE  chain'[i].prev = Genesis \/ \E h \in 1..(i - 1) : chain'[h].key = chain'[i].prev
    <3>1. chain[i].prev = Genesis \/ \E h \in 1..(i - 1) : chain[h].key = chain[i].prev
      BY DEF FeedInv
    <3>2. \A h \in 1..(i - 1) : h \in DOMAIN chain
      BY <1>4
    <3>. QED
      BY <1>9, <3>1, <3>2
  <2>2. CASE Recorded(key)
    BY <1>9, <2>1, <2>2
  <2>3. CASE ~Recorded(key)
    <3>1. \A i \in DOMAIN chain' : i \in DOMAIN chain \/ i = n + 1
      BY <1>4, <1>9, <2>3
    <3>2. chain'[n + 1].prev = prev /\ (n + 1) - 1 = n
      BY <1>4, <1>5, <1>9, <2>3
    <3>3. prev = Genesis \/ \E h \in 1..n : chain'[h].key = prev
      BY <1>2, <1>4, <1>9 DEF Recorded
    <3>. QED
      BY <2>1, <3>1, <3>2, <3>3
  <2>. QED
    BY <2>2, <2>3
<1>15. ASSUME NEW e \in EventKeys \union {Genesis}
       PROVE  Cardinality(Links(e)') + Cardinality(Reading(e)') <= Cardinality(Observers)
  <2>1. /\ Cardinality(Links(e)) + Cardinality(Reading(e)) <= Cardinality(Observers)
        /\ IsFiniteSet(Links(e)) /\ IsFiniteSet(Reading(e)) /\ Cardinality(Links(e)) \in Nat
        /\ Cardinality(Reading(e)) \in Nat /\ Cardinality(Observers) \in Nat
    BY ChainFinite DEF FeedInv
  <2>2. CASE e = prev
    <3>1. Reading(e)' = Reading(e) \ {o} /\ o \in Reading(e)
      BY <1>1, <1>8, <2>2 DEF Reading, prev
    <3>2. Cardinality(Reading(e)') = Cardinality(Reading(e)) - 1
      BY <2>1, <3>1, FS_RemoveElement
    <3>3. Links(e)' = Links(e) \/ Links(e)' = Links(e) \union {n + 1}
      <4>1. CASE Recorded(key)
        BY <1>9, <4>1 DEF Links
      <4>2. CASE ~Recorded(key)
        <5>1. \A i : i \in DOMAIN chain' <=> i \in DOMAIN chain \/ i = n + 1
          BY <1>4, <1>9, <4>2
        <5>2. chain'[n + 1].prev = e
          BY <1>5, <1>9, <2>2, <4>2
        <5>. QED
          BY <1>9, <5>1, <5>2 DEF Links
      <4>. QED
        BY <4>1, <4>2
    <3>4. Cardinality(Links(e)') <= Cardinality(Links(e)) + 1 /\ Cardinality(Links(e)') \in Nat
      <4>1. Cardinality(Links(e) \union {n + 1}) <= Cardinality(Links(e)) + 1
            /\ IsFiniteSet(Links(e) \union {n + 1})
        <5>1. /\ IsFiniteSet(Links(e) \union {n + 1})
              /\ \/ Cardinality(Links(e) \union {n + 1}) = Cardinality(Links(e)) + 1
                 \/ Cardinality(Links(e) \union {n + 1}) = Cardinality(Links(e))
          BY <2>1, FS_AddElement
        <5>. QED
          BY <2>1, <5>1
      <4>2. Cardinality(Links(e) \union {n + 1}) \in Nat
        BY <4>1, FS_CardinalityType
      <4>. QED
        BY <2>1, <3>3, <4>1, <4>2
    <3>. QED
      BY <2>1, <3>2, <3>4
  <2>3. CASE e # prev
    <3>1. Reading(e)' = Reading(e)
      BY <1>1, <1>8, <2>3 DEF Reading, prev
    <3>2. Links(e)' = Links(e)
      <4>1. CASE Recorded(key)
        BY <1>9, <4>1 DEF Links
      <4>2. CASE ~Recorded(key)
        <5>1. \A i : i \in DOMAIN chain' <=> i \in DOMAIN chain \/ i = n + 1
          BY <1>4, <1>9, <4>2
        <5>2. chain'[n + 1].prev # e
          BY <1>5, <1>9, <2>3, <4>2
        <5>. QED
          BY <1>9, <5>1, <5>2 DEF Links
      <4>. QED
        BY <4>1, <4>2
    <3>. QED
      BY <2>1, <3>1, <3>2
  <2>. QED
    BY <2>2, <2>3
<1>16. \A q \in Observers : seeing'[q].stage = "read" => LinkRecorded(q)'
  BY <1>8, <1>10 DEF FeedInv, LinkRecorded
<1>. QED
  BY <1>11, <1>12, <1>13, <1>14, <1>15, <1>16 DEF FeedInv

LEMMA FeedStep == FeedInv /\ [IntelligenceNext]_intelligenceVars => FeedInv'
<1>. SUFFICES ASSUME FeedInv, [IntelligenceNext]_intelligenceVars PROVE FeedInv'
  OBVIOUS
<1>1. work \in [WorkKeys -> {"ABSENT", "QUEUED", "RUNNING", "COMPLETE"}]
  BY DEF FeedInv, FeedShape
<1>2. ASSUME UNCHANGED <<snapshot, chain, seeing, work>> PROVE FeedInv'
  BY <1>1, <1>2, FeedRests
<1>3. CASE UNCHANGED intelligenceVars
  BY <1>2, <1>3 DEF intelligenceVars
<1>4. ASSUME NEW k \in WorkKeys, WorkStep(k) PROVE FeedInv'
  <2>1. /\ UNCHANGED <<snapshot, chain, seeing>>
        /\ \E v \in {"RUNNING", "COMPLETE", work[k]} : work' = [work EXCEPT ![k] = v]
    BY <1>1, <1>4 DEF WorkStep, ClaimWork, WorkLeaseLapses, CompleteWork, feedVars
  <2>. QED
    BY <1>1, <2>1, FeedRests
<1>5. ASSUME NEW o \in Observers, ObserverDies(o) PROVE FeedInv'
  BY <1>5, ReaderLeaves DEF ObserverDies
<1>6. ASSUME NEW classes, work' = Enqueued(classes), UNCHANGED <<snapshot, chain, seeing>> PROVE FeedInv'
  BY <1>1, <1>6, FeedRests DEF Enqueued
<1>7. CASE \/ \E t \in Talks : RecordReview(t)
           \/ PlanWindow \/ EnqueueWindow \/ EnqueueRaises \/ DaemonRestarts \/ WindowPasses
  BY <1>2, <1>6, <1>7 DEF RecordReview, PlanWindow, EnqueueWindow, EnqueueRaises, DaemonRestarts, WindowPasses,
                          feedVars
<1>8. EventKeys \subseteq WorkKeys
  BY DEF WorkKeys
<1>. QED
  BY <1>3, <1>4, <1>5, <1>7, <1>8, ReadStep, CommitEventStep DEF IntelligenceNext, FeedNext, CadenceNext

LEMMA FeedHolds == FeedInv => CurrentContentAnnounced /\ ChainForksBounded
<1>. SUFFICES ASSUME FeedInv PROVE ChainForksBounded
  BY DEF FeedInv
<1>1. ASSUME NEW e \in EventKeys \union {Genesis} PROVE Cardinality(Links(e)) <= Cardinality(Observers)
  <2>1. Cardinality(Links(e)) + Cardinality(Reading(e)) <= Cardinality(Observers)
    BY DEF FeedInv
  <2>2. Cardinality(Links(e)) \in Nat /\ Cardinality(Reading(e)) \in Nat /\ Cardinality(Observers) \in Nat
    BY ChainFinite DEF FeedInv
  <2>. QED
    BY <2>1, <2>2
<1>. QED
  BY <1>1 DEF FeedInv, ChainForksBounded, Links

-------------------------------------------------------------------------------
(* The library cleaner: on a device where nothing else is downloaded and     *)
(* nothing uploaded, what arrives is what the shelf has, and from its archive *)
(* on an item's content is in the archive.                                   *)

CleanerFields == {"pc", "item", "content", "armed"}
Undisturbed == counts.foreign = 0 /\ counts.uploads = 0

CleanerInv ==
  /\ HasFields(cleaner, CleanerFields) /\ HasFields(counts, {"foreign", "uploads", "deaths"})
  /\ counts.foreign \in Nat /\ counts.uploads \in Nat /\ lastContent \in Nat /\ DOMAIN shelf = Items
  /\ shelf = [x \in Items |-> shelf[x]]
  /\ cleaner.pc \notin {"down", "idle"} => cleaner.item \in SafeItems
  /\ Undisturbed =>
       /\ deletedContents \subseteq archived
       /\ cleaner.pc = "download" => downloads \subseteq {shelf[cleaner.item]}
       /\ cleaner.pc = "archive" => cleaner.content = shelf[cleaner.item]
       /\ cleaner.pc \in {"save", "delete", "confirm"} => shelf[cleaner.item] \in archived
  /\ OnlySafeIsDeleted /\ DisarmedIsDown

LEMMA CleanerStart == CleanerInit => CleanerInv
<1>. SUFFICES ASSUME CleanerInit PROVE CleanerInv
  OBVIOUS
<1>1. HasFields(CleanerDown, CleanerFields) /\ CleanerDown.pc = "down"
  BY DEF HasFields, CleanerFields, CleanerDown
<1>2. counts = [foreign |-> 0, uploads |-> 0, deaths |-> 0] /\ cleaner = CleanerDown /\ deletedContents = {}
      /\ lastContent = Cardinality(Items)
  BY DEF CleanerInit
<1>3. HasFields(counts, {"foreign", "uploads", "deaths"}) /\ counts.foreign = 0 /\ counts.uploads = 0
  BY <1>2 DEF HasFields
<1>4. Cardinality(Items) \in Nat
  BY FS_CardinalityType, CleanerAssumption
<1>5. shelf \in [Items -> 1..Cardinality(Items)]
  BY DEF CleanerInit
<1>6. shelf = [x \in Items |-> shelf[x]] /\ DOMAIN shelf = Items /\ \A x \in Items : shelf[x] # 0
  BY <1>4, <1>5
<1>. QED
  BY <1>1, <1>2, <1>3, <1>4, <1>6 DEF CleanerInv, OnlySafeIsDeleted, DisarmedIsDown

\* A step of the daemon is at another place with the same item.
LEMMA CleanerGoes ==
  ASSUME HasFields(cleaner, CleanerFields), NEW pc, Go(pc)
  PROVE  /\ HasFields(cleaner', CleanerFields) /\ cleaner'.pc = pc
         /\ cleaner'.item = cleaner.item /\ cleaner'.content = cleaner.content
BY DEF HasFields, CleanerFields, Go

LEMMA CleanerStepHolds == CleanerInv /\ [CleanerNext]_cleanerVars => CleanerInv'
<1>. SUFFICES ASSUME CleanerInv, [CleanerNext]_cleanerVars PROVE CleanerInv'
  OBVIOUS
<1>1. /\ HasFields(cleaner, CleanerFields) /\ HasFields(counts, {"foreign", "uploads", "deaths"})
      /\ counts.foreign \in Nat /\ counts.uploads \in Nat /\ lastContent \in Nat /\ DOMAIN shelf = Items
      /\ shelf = [x \in Items |-> shelf[x]] /\ (cleaner.pc \notin {"down", "idle"} => cleaner.item \in SafeItems)
      /\ OnlySafeIsDeleted /\ DisarmedIsDown
  BY DEF CleanerInv
<1>2. Undisturbed =>
        /\ deletedContents \subseteq archived
        /\ cleaner.pc = "download" => downloads \subseteq {shelf[cleaner.item]}
        /\ cleaner.pc = "archive" => cleaner.content = shelf[cleaner.item]
        /\ cleaner.pc \in {"save", "delete", "confirm"} => shelf[cleaner.item] \in archived
  BY DEF CleanerInv
<1>. USE <1>1, <1>2
<1>3. HasFields(CleanerDown, CleanerFields) /\ CleanerDown.pc = "down"
  BY DEF HasFields, CleanerFields, CleanerDown
<1>4. SafeItems \subseteq Items
  BY CleanerAssumption
<1>5. CASE UNCHANGED cleanerVars
  BY <1>5 DEF CleanerInv, cleanerVars, libraryVars, Undisturbed, OnlySafeIsDeleted, DisarmedIsDown
<1>6. ASSUME NEW x \in Items, SelectItem(x) PROVE CleanerInv'
  <2>1. /\ HasFields(cleaner', CleanerFields) /\ cleaner'.pc = "select" /\ cleaner'.item = x
    BY <1>6 DEF SelectItem, HasFields, CleanerFields
  <2>. QED
    BY <1>6, <2>1 DEF SelectItem, libraryVars, CleanerInv, Undisturbed, OnlySafeIsDeleted, DisarmedIsDown
<1>7. CASE StartDownload
  <2>1. HasFields(cleaner', CleanerFields) /\ cleaner'.pc = "download" /\ cleaner'.item = cleaner.item
    BY <1>7, CleanerGoes DEF StartDownload
  <2>. QED
    BY <1>7, <2>1 DEF StartDownload, CleanerInv, Undisturbed, OnlySafeIsDeleted, DisarmedIsDown
<1>8. CASE DownloadArrives
  BY <1>8 DEF DownloadArrives, CleanerInv, Undisturbed, OnlySafeIsDeleted, DisarmedIsDown
<1>9. ASSUME NEW c \in downloads, TakeDownload(c) PROVE CleanerInv'
  <2>1. HasFields(cleaner', CleanerFields) /\ cleaner'.pc = "archive" /\ cleaner'.item = cleaner.item
        /\ cleaner'.content = c
    BY <1>9 DEF TakeDownload, HasFields, CleanerFields
  <2>. QED
    BY <1>9, <2>1 DEF TakeDownload, CleanerInv, Undisturbed, OnlySafeIsDeleted, DisarmedIsDown
<1>10. CASE ArchiveDownload
  <2>1. HasFields(cleaner', CleanerFields) /\ cleaner'.pc = "save" /\ cleaner'.item = cleaner.item
    BY <1>10, CleanerGoes DEF ArchiveDownload
  <2>. QED
    BY <1>10, <2>1 DEF ArchiveDownload, CleanerInv, Undisturbed, OnlySafeIsDeleted, DisarmedIsDown
<1>11. CASE ReselectItem
  <2>1. HasFields(cleaner', CleanerFields) /\ cleaner'.pc = "delete" /\ cleaner'.item = cleaner.item
    BY <1>11, CleanerGoes DEF ReselectItem
  <2>. QED
    BY <1>11, <2>1 DEF ReselectItem, libraryVars, CleanerInv, Undisturbed, OnlySafeIsDeleted, DisarmedIsDown
<1>12. CASE OpenConfirmation
  <2>1. HasFields(cleaner', CleanerFields) /\ cleaner'.pc = "confirm" /\ cleaner'.item = cleaner.item
    BY <1>12, CleanerGoes DEF OpenConfirmation
  <2>. QED
    BY <1>12, <2>1 DEF OpenConfirmation, libraryVars, CleanerInv, Undisturbed, OnlySafeIsDeleted, DisarmedIsDown
<1>13. CASE ConfirmDelete
  <2>1. HasFields(cleaner', CleanerFields) /\ cleaner'.pc = "verify" /\ cleaner'.item = cleaner.item
    BY <1>13, CleanerGoes DEF ConfirmDelete
  <2>2. /\ \A x \in Items : x # cleaner.item => shelf'[x] = shelf[x]
        /\ DOMAIN shelf' = Items /\ shelf' = [x \in Items |-> shelf'[x]]
    BY <1>13 DEF ConfirmDelete
  <2>3. cleaner.item \in SafeItems /\ (Undisturbed => shelf[cleaner.item] \in archived)
    BY <1>13 DEF ConfirmDelete
  <2>. QED
    BY <1>13, <2>1, <2>2, <2>3 DEF ConfirmDelete, CleanerInv, Undisturbed, OnlySafeIsDeleted, DisarmedIsDown
<1>14. ASSUME HasFields(cleaner', CleanerFields), cleaner'.pc = "idle", cleaner.pc # "down",
              UNCHANGED <<shelf, lastContent, archived, deletedContents, armed, pilot, counts>>
       PROVE  CleanerInv'
  BY <1>14 DEF CleanerInv, Undisturbed, OnlySafeIsDeleted, DisarmedIsDown
<1>15. CASE VerifyDeleted \/ ItemFails
  <2>1. HasFields(cleaner', CleanerFields) /\ cleaner'.pc = "idle" /\ cleaner.pc # "down"
    BY <1>15 DEF VerifyDeleted, ItemFails, HasFields, CleanerFields
  <2>. QED
    BY <1>14, <1>15, <2>1 DEF VerifyDeleted, ItemFails
<1>16. CASE CleanerDies
  <2>1. HasFields(counts', {"foreign", "uploads", "deaths"}) /\ counts'.foreign = counts.foreign
        /\ counts'.uploads = counts.uploads
    BY <1>16 DEF CleanerDies, HasFields
  <2>. QED
    BY <1>3, <1>16, <2>1 DEF CleanerDies, libraryVars, CleanerInv, Undisturbed, OnlySafeIsDeleted, DisarmedIsDown
<1>17. CASE ForeignDownload
  <2>1. HasFields(counts', {"foreign", "uploads", "deaths"}) /\ counts'.foreign = counts.foreign + 1
        /\ counts'.uploads = counts.uploads
    BY <1>17 DEF ForeignDownload, HasFields
  <2>2. counts'.foreign \in Nat /\ counts'.uploads \in Nat /\ ~Undisturbed' /\ lastContent' \in Nat
    BY <1>17, <2>1 DEF Undisturbed, ForeignDownload
  <2>. QED
    BY <1>17, <2>1, <2>2 DEF ForeignDownload, CleanerInv, OnlySafeIsDeleted, DisarmedIsDown
<1>18. ASSUME NEW x \in Items, UserUploads(x) PROVE CleanerInv'
  <2>1. HasFields(counts', {"foreign", "uploads", "deaths"}) /\ counts'.uploads = counts.uploads + 1
        /\ counts'.foreign = counts.foreign
    BY <1>18 DEF UserUploads, HasFields
  <2>2. counts'.foreign \in Nat /\ counts'.uploads \in Nat /\ ~Undisturbed' /\ lastContent' \in Nat
        /\ lastContent + 1 # 0
    BY <1>18, <2>1 DEF Undisturbed, UserUploads
  <2>3. /\ \A y \in Items : y # x => shelf'[y] = shelf[y]
        /\ shelf'[x] = lastContent + 1 /\ DOMAIN shelf' = Items /\ shelf' = [y \in Items |-> shelf'[y]]
    BY <1>18 DEF UserUploads
  <2>4. OnlySafeIsDeleted'
    BY <2>2, <2>3 DEF OnlySafeIsDeleted
  <2>. QED
    BY <1>18, <2>1, <2>2, <2>3, <2>4 DEF UserUploads, CleanerInv, DisarmedIsDown
<1>19. ASSUME UNCHANGED <<shelf, lastContent, downloads, archived, deletedContents, counts>>,
              HasFields(cleaner', CleanerFields), cleaner'.pc \in {"down", "idle"}, DisarmedIsDown'
       PROVE  CleanerInv'
  BY <1>19 DEF CleanerInv, Undisturbed, OnlySafeIsDeleted
<1>20. ASSUME UNCHANGED <<shelf, lastContent, downloads, archived, deletedContents, counts, cleaner>>,
              DisarmedIsDown'
       PROVE  CleanerInv'
  BY <1>20 DEF CleanerInv, Undisturbed, OnlySafeIsDeleted
<1>21. ASSUME NEW b \in BOOLEAN, OneCycle(b) PROVE CleanerInv'
  <2>1. DisarmedIsDown'
    BY <1>21 DEF OneCycle, CycleDecides, DisarmedIsDown
  <2>. QED
    BY <1>20, <1>21, <2>1 DEF OneCycle, libraryVars
<1>22. ASSUME NEW b \in BOOLEAN, Qualify(b) PROVE CleanerInv'
  BY <1>3, <1>19, <1>22 DEF Qualify, libraryVars, DisarmedIsDown
<1>23. CASE Disarm
  <2>1. CASE armed
    BY <1>20, <1>23, <2>1 DEF Disarm, libraryVars, DisarmedIsDown
  <2>2. CASE ~armed
    BY <1>3, <1>19, <1>23, <2>2 DEF Disarm, libraryVars, DisarmedIsDown
  <2>. QED
    BY <2>1, <2>2
<1>24. ASSUME NEW row, row = [CleanerDown EXCEPT !.pc = "idle", !.armed = TRUE]
       PROVE  HasFields(row, CleanerFields) /\ row.pc = "idle"
  BY <1>24 DEF HasFields, CleanerFields, CleanerDown
<1>25. CASE Arm
  <2>1. HasFields(cleaner', CleanerFields) /\ cleaner'.pc = "idle"
    BY <1>24, <1>25 DEF Arm
  <2>. QED
    BY <1>19, <1>25, <2>1 DEF Arm, libraryVars, DisarmedIsDown
<1>26. CASE ServiceStarts
  <2>1. HasFields(cleaner', CleanerFields) /\ cleaner'.pc = "idle"
    BY <1>26 DEF ServiceStarts, HasFields, CleanerFields, CleanerDown
  <2>. QED
    BY <1>19, <1>26, <2>1 DEF ServiceStarts, libraryVars, DisarmedIsDown
<1>27. CASE ReceiptSpoils
  BY <1>20, <1>27 DEF ReceiptSpoils, libraryVars, DisarmedIsDown
<1>. QED
  BY <1>5, <1>6, <1>7, <1>8, <1>9, <1>10, <1>11, <1>12, <1>13, <1>15, <1>16, <1>17, <1>18, <1>21, <1>22, <1>23,
     <1>25, <1>26, <1>27 DEF CleanerNext, CleanerStep, PilotStep

-------------------------------------------------------------------------------
(* The guard's links: without the service none is under its eyes.           *)

PrefFields == {"trusted", "tracked", "history", "adapter"}

LinksInv ==
  /\ HasFields(prefs, {"memory", "disk"})
  /\ HasFields(prefs.memory, PrefFields) /\ HasFields(prefs.disk, PrefFields)
  /\ LinksAreTracked /\ (~serving => watched = {})

LEMMA LinksStart == GuardInit => LinksInv
<1>. SUFFICES ASSUME GuardInit PROVE LinksInv
  OBVIOUS
<1>1. HasFields(NoPrefs, PrefFields)
  BY DEF HasFields, PrefFields, NoPrefs
<1>2. prefs = [memory |-> NoPrefs, disk |-> NoPrefs] /\ watched = {} /\ ~serving
  BY DEF GuardInit
<1>3. HasFields(prefs, {"memory", "disk"}) /\ prefs.memory = NoPrefs /\ prefs.disk = NoPrefs
  BY <1>2 DEF HasFields
<1>. QED
  BY <1>1, <1>2, <1>3 DEF LinksInv, LinksAreTracked

\* What is tracked changes as the links under the service's eyes do.
LEMMA LinksFollow ==
  ASSUME LinksInv, NEW row, HasFields(row, PrefFields), prefs' = [prefs EXCEPT !.memory = row],
         serving' => watched' \subseteq row.tracked, ~serving' => watched' = {}
  PROVE  LinksInv'
<1>1. HasFields(prefs', {"memory", "disk"}) /\ prefs'.memory = row /\ prefs'.disk = prefs.disk
  BY DEF LinksInv, HasFields
<1>. QED
  BY <1>1 DEF LinksInv, LinksAreTracked

LEMMA LinksStep == LinksInv /\ [GuardNext]_guardVars => LinksInv'
<1>. SUFFICES ASSUME LinksInv, [GuardNext]_guardVars PROVE LinksInv'
  OBVIOUS
<1>1. ASSUME UNCHANGED prefs, serving' => serving, watched' \subseteq watched, ~serving' => watched' = {}
      PROVE  LinksInv'
  BY <1>1 DEF LinksInv, LinksAreTracked
<1>2. HasFields(prefs, {"memory", "disk"}) /\ HasFields(prefs.memory, PrefFields) /\ HasFields(prefs.disk, PrefFields)
  BY DEF LinksInv
<1>3. (serving => watched \subseteq prefs.memory.tracked) /\ (~serving => watched = {})
  BY DEF LinksInv, LinksAreTracked
<1>4. CASE UNCHANGED guardVars \/ GuardTick \/ FlushChain \/ BootStartFails \/ StopService
  BY <1>1, <1>3, <1>4 DEF guardVars, GuardTick, FlushChain, BootStartFails, StopService
<1>5. ASSUME NEW p, StartService(p) PROVE LinksInv'
  BY <1>3, <1>5 DEF StartService, LinksInv, LinksAreTracked
<1>6. ASSUME NEW a \in Addresses, Connect(a) PROVE LinksInv'
  <2>1. CASE serving
    <3>. DEFINE row == [prefs.memory EXCEPT !.history[a] = Append(Kept(a), now), !.tracked = Tracked(a)]
    <3>1. HasFields(row, PrefFields) /\ row.tracked = prefs.memory.tracked \union {a}
      BY <1>2 DEF HasFields, PrefFields, Tracked
    <3>2. /\ prefs' = [prefs EXCEPT !.memory.history[a] = Append(Kept(a), now), !.memory.tracked = Tracked(a)]
          /\ watched' = watched \union {a} /\ serving' = serving
      BY <1>6, <2>1 DEF Connect, HearConnect
    <3>3. prefs' = [prefs EXCEPT !.memory = row]
      BY <1>2, <3>2 DEF HasFields
    <3>. HIDE DEF row
    <3>. QED
      BY <1>3, <2>1, <3>1, <3>2, <3>3, LinksFollow
  <2>2. CASE ~serving
    BY <1>1, <1>3, <1>6, <2>2 DEF Connect
  <2>. QED
    BY <2>1, <2>2
<1>7. ASSUME NEW a \in Addresses, Disconnect(a) PROVE LinksInv'
  <2>1. CASE serving
    <3>. DEFINE row == [prefs.memory EXCEPT !.tracked = prefs.memory.tracked \ {a}]
    <3>1. HasFields(row, PrefFields) /\ row.tracked = prefs.memory.tracked \ {a}
      BY <1>2 DEF HasFields, PrefFields
    <3>2. /\ prefs' = [prefs EXCEPT !.memory.tracked = prefs.memory.tracked \ {a}]
          /\ watched' = watched \ {a} /\ serving' = serving
      BY <1>7, <2>1 DEF Disconnect
    <3>3. prefs' = [prefs EXCEPT !.memory = row]
      BY <1>2, <3>2 DEF HasFields
    <3>. HIDE DEF row
    <3>. QED
      BY <1>3, <2>1, <3>1, <3>2, <3>3, LinksFollow
  <2>2. CASE ~serving
    BY <1>1, <1>3, <1>7, <2>2 DEF Disconnect
  <2>. QED
    BY <2>1, <2>2
<1>8. ASSUME NEW a \in Addresses, BondChange(a) PROVE LinksInv'
  BY <1>1, <1>3, <1>8 DEF BondChange
<1>9. ASSUME NEW was, NEW is, AdapterChange(was, is) PROVE LinksInv'
  <2>. DEFINE row == [prefs.memory EXCEPT !.adapter = is]
  <2>1. HasFields(row, PrefFields) /\ row.tracked = prefs.memory.tracked
    BY <1>2 DEF HasFields, PrefFields
  <2>2. prefs' = [prefs EXCEPT !.memory = row] /\ watched' = watched /\ serving' = serving
    BY <1>2, <1>9 DEF AdapterChange, HasFields
  <2>. HIDE DEF row
  <2>. QED
    BY <1>3, <2>1, <2>2, LinksFollow
<1>10. ASSUME NEW T, prefs' = [prefs EXCEPT !.memory.trusted = T], watched' = watched, serving' = serving
       PROVE  LinksInv'
  <2>. DEFINE row == [prefs.memory EXCEPT !.trusted = T]
  <2>1. HasFields(row, PrefFields) /\ row.tracked = prefs.memory.tracked
    BY <1>2 DEF HasFields, PrefFields
  <2>2. prefs' = [prefs EXCEPT !.memory = row]
    BY <1>2, <1>10 DEF HasFields
  <2>. HIDE DEF row
  <2>. QED
    BY <1>3, <1>10, <2>1, <2>2, LinksFollow
<1>11. CASE TrustBonded \/ ClearTrusted
  BY <1>10, <1>11 DEF TrustBonded, ClearTrusted
<1>12. CASE FlushPrefs
  <2>1. prefs' = [memory |-> prefs.memory, disk |-> prefs.memory] /\ watched' = watched /\ serving' = serving
    BY <1>12 DEF FlushPrefs, Applied
  <2>2. HasFields(prefs', {"memory", "disk"}) /\ prefs'.memory = prefs.memory /\ prefs'.disk = prefs.memory
    BY <2>1 DEF HasFields
  <2>. QED
    BY <1>2, <1>3, <2>1, <2>2 DEF LinksInv, LinksAreTracked
<1>13. CASE GuardDies
  <2>1. prefs' = [prefs EXCEPT !.memory = prefs.disk] /\ serving' = FALSE /\ watched' = {}
    BY <1>13 DEF GuardDies
  <2>. QED
    BY <1>2, <2>1, LinksFollow
<1>. QED
  BY <1>4, <1>5, <1>6, <1>7, <1>8, <1>9, <1>11, <1>12, <1>13 DEF GuardNext

-------------------------------------------------------------------------------
(* The paired updates.  For a process nobody interfered with, every project  *)
(* is where the phase it is in has left it.                                   *)

ProjectFields == {"head", "tracking", "remote", "dirty"}
Copying == {"clear automation", "copy automation", "clear cybersecurity", "copy cybersecurity",
            "copy back", "manifest"}
Places == DOMAIN PairProjects
SeenIn(row, i) == row.states[PairProjects[i]].action \in {"unchanged", "fast_forward"}

AtOld(row, ps, i) == SeenIn(row, i) => ps[PairProjects[i]].head = row.states[PairProjects[i]].old
AtNew(row, ps, i) == SeenIn(row, i) => ps[PairProjects[i]].head = row.states[PairProjects[i]].remote

\* Looked at and not touched; moved, or found where it belongs.
LookedAt(row, ps, i) ==
  LET p == PairProjects[i] IN
  SeenIn(row, i) =>
    /\ ps[p].head = row.states[p].old /\ ps[p].tracking = row.states[p].remote
    /\ row.states[p].action = "unchanged" => row.states[p].old = row.states[p].remote
MovedOn(row, ps, i) ==
  LET p == PairProjects[i] IN
  SeenIn(row, i) =>
    /\ ps[p].head = row.states[p].remote
    /\ row.states[p].action = "unchanged" => row.states[p].old = row.states[p].remote
    /\ row.states[p].action = "fast_forward" => row.states[p].new = row.states[p].remote

FirstOnes(m) == SubSeq(PairProjects, 1, m)

Inspecting(row, ps) ==
  /\ row.done = <<>>
  /\ \A i \in Places : i < row.at => LookedAt(row, ps, i)
  /\ \A i \in Places : i >= row.at => ~SeenIn(row, i)
  /\ row.pc = "fetch" => row.states[PairProjects[row.at]].old = ps[PairProjects[row.at]].head
Deciding(row, ps) == row.at = 1 /\ row.done = <<>> /\ \A i \in Places : LookedAt(row, ps, i)
Merging(row, ps) ==
  /\ row.done = FirstOnes(row.at - 1)
  /\ \A i \in Places : i < row.at => MovedOn(row, ps, i)
  /\ \A i \in Places : i > row.at => LookedAt(row, ps, i)
  /\ row.pc = "merge" => LookedAt(row, ps, row.at)
  /\ row.pc = "confirm" => row.states[PairProjects[row.at]].action = "fast_forward" /\ AtNew(row, ps, row.at)
UndoneTo(row, ps, m) ==
  /\ row.done = FirstOnes(m)
  /\ \A i \in Places : i <= m => MovedOn(row, ps, i)
  /\ \A i \in Places : i > m => AtOld(row, ps, i)
Undoing(row, ps) ==
  /\ ~row.ok /\ \E m \in 0..Len(PairProjects) : UndoneTo(row, ps, m) /\ (row.pc = "reset" => m # 0)
EndedWhole(row, ps) ==
  (\A i \in Places : AtNew(row, ps, i)) \/ (~row.ok /\ \A i \in Places : AtOld(row, ps, i))

Sound(row, ps) ==
  /\ row.pc \in {"inspect", "fetch"} => Inspecting(row, ps)
  /\ row.pc = "decide" => Deciding(row, ps)
  /\ row.pc \in {"merge", "confirm"} => Merging(row, ps)
  /\ row.pc \in {"look back", "reset"} => Undoing(row, ps)
  /\ row.pc \in Copying => \A i \in Places : AtNew(row, ps, i)
  /\ row.pc \in {"finish", "receipt"} => EndedWhole(row, ps)

Shaped(row) ==
  /\ row.at \in Places /\ row.states = [p \in ProjectNames |-> row.states[p]]
  /\ \A p \in ProjectNames : HasFields(row.states[p], {"action", "old", "remote", "new"})
  /\ row.pc \in {"idle", "selected"} =>
       row.at = 1 /\ row.done = <<>> /\ \A p \in ProjectNames : row.states[p].action = "none"

ProjectsShape ==
  /\ projects = [p \in ProjectNames |-> projects[p]]
  /\ \A p \in ProjectNames : HasFields(projects[p], ProjectFields)

TogetherInv ==
  /\ ProjectsShape
  /\ \A u \in Updaters :
       /\ Shaped(updater[u])
       /\ u \in calm /\ ~updater[u].statusOnly => Sound(updater[u], projects)

LEMMA PlacesAre ==
  /\ Len(PairProjects) \in Nat \ {0} /\ Places = 1..Len(PairProjects) /\ 1 \in Places
  /\ \A i \in Places : PairProjects[i] \in ProjectNames
  /\ \A p \in ProjectNames : \E i \in Places : PairProjects[i] = p
  /\ \A i, k \in Places : PairProjects[i] = PairProjects[k] => i = k
<1>1. PairProjects \in Seq(ProjectNames) /\ PairProjects # <<>>
  BY PairAssumption DEF ProjectNames
<1>2. Len(PairProjects) \in Nat \ {0} /\ Places = 1..Len(PairProjects)
  BY <1>1, EmptySeq, LenProperties DEF Places
<1>3. ProjectNames = {PairProjects[i] : i \in DOMAIN PairProjects}
  BY DEF ProjectNames, ToSet
<1>. QED
  BY <1>2, <1>3, PairAssumption DEF Places

LEMMA FirstOnesAre ==
  ASSUME NEW m \in 0..Len(PairProjects)
  PROVE  /\ FirstOnes(0) = <<>>
         /\ m < Len(PairProjects) => Append(FirstOnes(m), PairProjects[m + 1]) = FirstOnes(m + 1)
         /\ m # 0 => /\ FirstOnes(m) # <<>> /\ Last(FirstOnes(m)) = PairProjects[m]
                     /\ Front(FirstOnes(m)) = FirstOnes(m - 1)
<1>. DEFINE s == PairProjects
<1>1. s \in Seq(ProjectNames) /\ Len(s) \in Nat /\ m \in Nat /\ m <= Len(s)
  BY PairAssumption, LenProperties DEF ProjectNames
<1>2. FirstOnes(0) = <<>>
  BY <1>1, SubSeqEmpty DEF FirstOnes
<1>3. FirstOnes(m) \in Seq(ProjectNames) /\ Len(FirstOnes(m)) = m /\ \A i \in 1..m : FirstOnes(m)[i] = s[i]
  BY <1>1, SubSeqProperties DEF FirstOnes
<1>4. ASSUME m < Len(s) PROVE Append(FirstOnes(m), s[m + 1]) = FirstOnes(m + 1)
  <2>1. s[m + 1] \in ProjectNames
    BY <1>1, <1>4, LenProperties
  <2>2. /\ FirstOnes(m + 1) \in Seq(ProjectNames) /\ Len(FirstOnes(m + 1)) = m + 1
        /\ \A i \in 1..(m + 1) : FirstOnes(m + 1)[i] = s[i]
    BY <1>1, <1>4, SubSeqProperties DEF FirstOnes
  <2>3. /\ Append(FirstOnes(m), s[m + 1]) \in Seq(ProjectNames) /\ Len(Append(FirstOnes(m), s[m + 1])) = m + 1
        /\ \A i \in 1..m : Append(FirstOnes(m), s[m + 1])[i] = FirstOnes(m)[i]
        /\ Append(FirstOnes(m), s[m + 1])[m + 1] = s[m + 1]
    BY <1>1, <1>3, <2>1, AppendProperties
  <2>. QED
    BY <1>1, <1>3, <2>2, <2>3, SeqEqual
<1>5. ASSUME m # 0 PROVE /\ FirstOnes(m) # <<>> /\ Last(FirstOnes(m)) = PairProjects[m]
                         /\ Front(FirstOnes(m)) = FirstOnes(m - 1)
  <2>1. FirstOnes(m) # <<>> /\ Last(FirstOnes(m)) = s[m]
    BY <1>1, <1>3, <1>5, EmptySeq DEF Last
  <2>2. Front(FirstOnes(m)) = SubSeq(SubSeq(s, 1, m), 1, m - 1)
    BY <1>3 DEF Front, FirstOnes
  <2>3. SubSeq(SubSeq(s, 1, m), 1, m - 1) = SubSeq(s, 1, m - 1)
    BY <1>1, <1>5, SubSeqOfSubSeq
  <2>. QED
    BY <2>1, <2>2, <2>3 DEF FirstOnes
<1>. QED
  BY <1>2, <1>4, <1>5

\* What is sound looks only at the heads and the tracking refs.
LEMMA SoundStays ==
  ASSUME NEW row, row.at \in Places, NEW ps, NEW qs, Sound(row, ps),
         \A p \in ProjectNames : qs[p].head = ps[p].head /\ qs[p].tracking = ps[p].tracking
  PROVE  Sound(row, qs)
<1>1. \A i \in Places : qs[PairProjects[i]].head = ps[PairProjects[i]].head
                        /\ qs[PairProjects[i]].tracking = ps[PairProjects[i]].tracking
  BY PlacesAre
<1>2. \A i \in Places : /\ LookedAt(row, ps, i) => LookedAt(row, qs, i)
                        /\ MovedOn(row, ps, i) => MovedOn(row, qs, i)
                        /\ AtOld(row, ps, i) => AtOld(row, qs, i)
                        /\ AtNew(row, ps, i) => AtNew(row, qs, i)
  BY <1>1 DEF LookedAt, MovedOn, AtOld, AtNew
<1>3. Inspecting(row, ps) => Inspecting(row, qs)
  BY <1>1, <1>2 DEF Inspecting
<1>4. Deciding(row, ps) => Deciding(row, qs)
  BY <1>2 DEF Deciding
<1>5. Merging(row, ps) => Merging(row, qs)
  BY <1>2 DEF Merging
<1>6. Undoing(row, ps) => Undoing(row, qs)
  BY <1>2 DEF Undoing, UndoneTo
<1>7. EndedWhole(row, ps) => EndedWhole(row, qs)
  BY <1>2 DEF EndedWhole
<1>. QED
  BY <1>2, <1>3, <1>4, <1>5, <1>6, <1>7 DEF Sound

\* A process that steps disturbs the others or leaves the projects alone.
LEMMA TogetherFollows ==
  ASSUME JobsInv, TogetherInv, NEW u \in Updaters, NEW row, updater' = [updater EXCEPT ![u] = row],
         ProjectsShape', Shaped(row), u \in calm' /\ ~row.statusOnly => Sound(row, projects'),
         \A v \in Updaters : v # u /\ v \in calm' => v \in calm /\ UNCHANGED projects
  PROVE  TogetherInv'
<1>1. updater'[u] = row /\ \A v \in Updaters : v # u => updater'[v] = updater[v]
  BY DEF JobsInv
<1>. QED
  BY <1>1 DEF TogetherInv

\* Steps of one process on the projects, or on none.
LEMMA Disturbing ==
  ASSUME NEW u, Disturbs(u) \/ UNCHANGED <<projects, calm>>
  PROVE  /\ u \in calm' => u \in calm
         /\ \A v \in Updaters : v # u /\ v \in calm' => v \in calm /\ UNCHANGED projects
BY DEF Disturbs

LEMMA TogetherStart == PairInit => TogetherInv
<1>. SUFFICES ASSUME PairInit PROVE TogetherInv
  OBVIOUS
<1>1. ProjectsShape
  BY DEF PairInit, ProjectsShape, HasFields, ProjectFields
<1>2. HasFields(NoState, {"action", "old", "remote", "new"}) /\ NoState.action = "none"
  BY DEF NoState, HasFields
<1>3. Shaped(IdleUpdater)
  BY <1>2, PlacesAre DEF Shaped, IdleUpdater
<1>. QED
  BY <1>1, <1>3 DEF PairInit, TogetherInv

StateFields == {"action", "old", "remote", "new"}

\* The row a process is at, and what it looks at.
LEMMA AtRow ==
  ASSUME JobsInv, TogetherInv, NEW u \in Updaters
  PROVE  /\ HasFields(updater[u], UpdaterFields) /\ Shaped(updater[u]) /\ updater[u].at \in Places
         /\ Here(u) = PairProjects[updater[u].at] /\ Here(u) \in ProjectNames
         /\ HasFields(StateOf(u), StateFields) /\ StateOf(u) = updater[u].states[Here(u)]
         /\ updater[u].at \in 1..Len(PairProjects)
         /\ (~AtLast(u) => updater[u].at + 1 \in Places)
         /\ (AtLast(u) <=> updater[u].at = Len(PairProjects))
BY PlacesAre DEF JobsInv, TogetherInv, Shaped, Here, StateOf, StateFields, AtLast

\* What another state for one project changes.
LEMMA OtherState ==
  ASSUME NEW row, Shaped(row), NEW p \in ProjectNames, NEW s, HasFields(s, StateFields), NEW row2,
         row2.states = [row.states EXCEPT ![p] = s], row2.at \in Places, row2.pc \notin {"idle", "selected"}
  PROVE  /\ Shaped(row2) /\ row2.states[p] = s
         /\ \A q \in ProjectNames : q # p => row2.states[q] = row.states[q]
<1>1. row.states = [q \in ProjectNames |-> row.states[q]]
  BY DEF Shaped
<1>2. /\ row2.states = [q \in ProjectNames |-> row2.states[q]] /\ row2.states[p] = s
      /\ \A q \in ProjectNames : q # p => row2.states[q] = row.states[q]
  BY <1>1
<1>. QED
  BY <1>2 DEF Shaped, StateFields

\* A refused project counts as not seen, and ends the pair updater's update.
LEMMA RefusedSound ==
  ASSUME JobsInv, TogetherInv, NEW u \in Updaters, updater[u].pc \in {"inspect", "fetch"}
  PROVE  /\ Shaped(Refuse(u)) /\ Refuse(u).statusOnly = updater[u].statusOnly
         /\ \A ps : Inspecting(updater[u], ps) => Sound(Refuse(u), ps)
<1>. DEFINE row == updater[u]
            p == Here(u)
<1>1. HasFields(row, UpdaterFields) /\ Shaped(row) /\ row.at \in Places /\ p = PairProjects[row.at]
      /\ p \in ProjectNames /\ HasFields(row.states[p], StateFields) /\ row.at \in 1..Len(PairProjects)
      /\ (~AtLast(u) => row.at + 1 \in Places) /\ (AtLast(u) <=> row.at = Len(PairProjects))
  BY AtRow
<1>2. CASE u \in PairUpdaters
  <2>1. Refuse(u) = [row EXCEPT !.pc = "receipt", !.ok = FALSE]
    BY <1>2 DEF Refuse
  <2>2. /\ Refuse(u).pc = "receipt" /\ Refuse(u).ok = FALSE /\ Refuse(u).states = row.states
        /\ Refuse(u).at = row.at /\ Refuse(u).statusOnly = row.statusOnly
    BY <1>1, <2>1 DEF HasFields, UpdaterFields
  <2>3. Shaped(Refuse(u))
    BY <1>1, <2>2 DEF Shaped
  <2>4. ASSUME NEW ps, Inspecting(row, ps) PROVE Sound(Refuse(u), ps)
    <3>1. \A i \in Places : AtOld(row, ps, i)
      BY <1>1, <2>4, PlacesAre DEF Inspecting, LookedAt, AtOld
    <3>2. EndedWhole(Refuse(u), ps)
      BY <2>2, <3>1 DEF EndedWhole, AtOld, SeenIn
    <3>. QED
      BY <2>2, <3>2 DEF Sound, Copying
  <2>. QED
    BY <2>2, <2>3, <2>4
<1>3. CASE u \notin PairUpdaters
  <2>. DEFINE s == [row.states[p] EXCEPT !.action = "refused"]
  <2>1. Refuse(u) = [row EXCEPT !.states[p].action = "refused", !.pc = IF AtLast(u) THEN "decide" ELSE "inspect",
                                !.at = IF AtLast(u) THEN 1 ELSE row.at + 1]
    BY <1>1, <1>3 DEF Refuse, HasFields, UpdaterFields
  <2>2. /\ Refuse(u).states = [row.states EXCEPT ![p] = s]
        /\ Refuse(u).pc = IF AtLast(u) THEN "decide" ELSE "inspect"
        /\ Refuse(u).at = IF AtLast(u) THEN 1 ELSE row.at + 1
        /\ Refuse(u).done = row.done /\ Refuse(u).statusOnly = row.statusOnly
    BY <1>1, <2>1 DEF HasFields, UpdaterFields
  <2>3. HasFields(s, StateFields) /\ s.action = "refused"
    BY <1>1 DEF HasFields, StateFields
  <2>. HIDE DEF s
  <2>4. /\ Shaped(Refuse(u)) /\ Refuse(u).states[p] = s
        /\ \A q \in ProjectNames : q # p => Refuse(u).states[q] = row.states[q]
    <3>1. Refuse(u).at \in Places /\ Refuse(u).pc \notin {"idle", "selected"}
      BY <1>1, <2>2, PlacesAre
    <3>. QED
      BY <1>1, <2>2, <2>3, <3>1, OtherState
  <2>5. ASSUME NEW ps, Inspecting(row, ps) PROVE Sound(Refuse(u), ps)
    <3>1. /\ \A i \in Places : i # row.at => Refuse(u).states[PairProjects[i]] = row.states[PairProjects[i]]
          /\ ~SeenIn(Refuse(u), row.at)
      BY <1>1, <2>3, <2>4, PlacesAre DEF SeenIn
    <3>2. \A i \in Places : i < row.at => LookedAt(Refuse(u), ps, i)
      BY <2>5, <1>1, <3>1, PlacesAre DEF Inspecting, LookedAt, SeenIn
    <3>3. \A i \in Places : i > row.at => ~SeenIn(Refuse(u), i)
      BY <2>5, <1>1, <3>1, PlacesAre DEF Inspecting, SeenIn
    <3>4. row.done = <<>>
      BY <2>5 DEF Inspecting
    <3>5. CASE AtLast(u)
      <4>1. \A i \in Places : LookedAt(Refuse(u), ps, i)
        BY <1>1, <3>1, <3>2, <3>5, PlacesAre DEF LookedAt
      <4>. QED
        BY <2>2, <3>4, <3>5, <4>1 DEF Sound, Deciding, Copying
    <3>6. CASE ~AtLast(u)
      <4>1. \A i \in Places :
              (i < row.at + 1 => LookedAt(Refuse(u), ps, i)) /\ (i >= row.at + 1 => ~SeenIn(Refuse(u), i))
        BY <1>1, <3>1, <3>2, <3>3, PlacesAre DEF LookedAt
      <4>. QED
        BY <2>2, <3>4, <3>6, <4>1 DEF Sound, Inspecting, Copying
    <3>. QED
      BY <3>5, <3>6
  <2>. QED
    BY <2>2, <2>4, <2>5
<1>. QED
  BY <1>2, <1>3

\* A step that leaves the projects alone.
LEMMA RowFollows ==
  ASSUME JobsInv, TogetherInv, NEW u \in Updaters, NEW row, updater' = [updater EXCEPT ![u] = row],
         UNCHANGED <<projects, calm>>, Shaped(row),
         u \in calm /\ ~row.statusOnly => Sound(row, projects)
  PROVE  TogetherInv'
<1>1. ProjectsShape'
  BY DEF TogetherInv, ProjectsShape
<1>. QED
  BY <1>1, TogetherFollows

\* Of a process that is undisturbed.
Bothered(u) == u \notin calm \/ updater[u].statusOnly
LEMMA Unbothered ==
  ASSUME TogetherInv, NEW u \in Updaters, ~Bothered(u) PROVE Sound(updater[u], projects)
BY DEF TogetherInv, Bothered

LEMMA InspectTogether ==
  ASSUME JobsInv, TogetherInv, NEW u \in Updaters, InspectProject(u) PROVE TogetherInv'
<1>. DEFINE row == updater[u]
            p == Here(u)
            s == [row.states[p] EXCEPT !.old = projects[p].head]
            next == [row EXCEPT !.states[p].old = projects[p].head, !.pc = "fetch"]
<1>1. HasFields(row, UpdaterFields) /\ Shaped(row) /\ row.at \in Places /\ p = PairProjects[row.at]
      /\ p \in ProjectNames /\ HasFields(row.states[p], StateFields)
  BY AtRow
<1>2. row.pc = "inspect" /\ UNCHANGED <<projects, calm>> /\ (~Bothered(u) => Inspecting(row, projects))
  BY Unbothered DEF InspectProject, Sound
<1>3. updater' = [updater EXCEPT ![u] = IF projects[p].dirty THEN Refuse(u) ELSE next]
  BY DEF InspectProject
<1>4. /\ next.states = [row.states EXCEPT ![p] = s] /\ next.pc = "fetch" /\ next.at = row.at
      /\ next.done = row.done /\ next.statusOnly = row.statusOnly
  BY <1>1 DEF HasFields, UpdaterFields
<1>5. HasFields(s, StateFields) /\ s.old = projects[p].head /\ s.action = row.states[p].action
  BY <1>1 DEF HasFields, StateFields
<1>. HIDE DEF s, next
<1>6. /\ Shaped(next) /\ next.states[p] = s
      /\ \A q \in ProjectNames : q # p => next.states[q] = row.states[q]
  <2>1. next.at \in Places /\ next.pc \notin {"idle", "selected"}
    BY <1>1, <1>4
  <2>. QED
    BY <1>1, <1>4, <1>5, <2>1, OtherState
<1>7. ASSUME Inspecting(row, projects) PROVE Sound(next, projects)
  <2>1. \A i \in Places : i # row.at => next.states[PairProjects[i]] = row.states[PairProjects[i]]
    BY <1>1, <1>6, PlacesAre
  <2>2. ~SeenIn(next, row.at)
    BY <1>1, <1>5, <1>6, <1>7, PlacesAre DEF SeenIn, Inspecting
  <2>3. \A i \in Places : i < row.at => LookedAt(next, projects, i)
    BY <1>1, <1>7, <2>1, PlacesAre DEF Inspecting, LookedAt, SeenIn
  <2>4. \A i \in Places : i >= row.at => ~SeenIn(next, i)
    BY <1>1, <1>7, <2>1, <2>2, PlacesAre DEF Inspecting, SeenIn
  <2>5. Inspecting(next, projects)
    BY <1>1, <1>4, <1>5, <1>6, <1>7, <2>3, <2>4 DEF Inspecting
  <2>. QED
    BY <1>4, <2>5 DEF Sound, Copying
<1>8. CASE projects[p].dirty
  <2>1. Shaped(Refuse(u)) /\ Refuse(u).statusOnly = row.statusOnly /\ (~Bothered(u) => Sound(Refuse(u), projects))
    BY <1>2, RefusedSound
  <2>. QED
    BY <1>2, <1>3, <1>8, <2>1, RowFollows DEF Bothered
<1>9. CASE ~projects[p].dirty
  BY <1>2, <1>3, <1>4, <1>6, <1>7, <1>9, RowFollows DEF Bothered
<1>. QED
  BY <1>8, <1>9

\* What is refused after the fetch was not seen before.
LEMMA FetchTogether ==
  ASSUME JobsInv, TogetherInv, NEW u \in Updaters, FetchProject(u) PROVE TogetherInv'
<1>. DEFINE row == updater[u]
            p == Here(u)
            head == IF u \in PairUpdaters THEN StateOf(u).old ELSE projects[p].head
            remote == projects[p].remote
            s == [action |-> Relation(head, remote), old |-> head, remote |-> remote, new |-> 0]
            next == [row EXCEPT !.states[p] = s, !.pc = IF AtLast(u) THEN "decide" ELSE "inspect",
                                !.at = IF AtLast(u) THEN 1 ELSE row.at + 1]
<1>1. HasFields(row, UpdaterFields) /\ Shaped(row) /\ row.at \in Places /\ p = PairProjects[row.at]
      /\ p \in ProjectNames /\ StateOf(u) = row.states[p] /\ row.at \in 1..Len(PairProjects)
      /\ (~AtLast(u) => row.at + 1 \in Places) /\ (AtLast(u) <=> row.at = Len(PairProjects))
  BY AtRow
<1>2. row.pc = "fetch" /\ Disturbs(u) /\ (~Bothered(u) => Inspecting(row, projects))
  BY Unbothered DEF FetchProject, Sound
<1>3. updater' = [updater EXCEPT ![u] = IF Relation(head, remote) = "refused" THEN Refuse(u) ELSE next]
  BY <1>1 DEF FetchProject, HasFields, UpdaterFields
<1>4. /\ projects' = [projects EXCEPT ![p].tracking = remote]
      /\ ProjectsShape' /\ projects'[p].tracking = remote
      /\ \A q \in ProjectNames : projects'[q].head = projects[q].head
      /\ \A q \in ProjectNames : q # p => projects'[q] = projects[q]
  BY <1>1 DEF FetchProject, TogetherInv, ProjectsShape, HasFields, ProjectFields
<1>5. /\ next.states = [row.states EXCEPT ![p] = s] /\ next.pc = IF AtLast(u) THEN "decide" ELSE "inspect"
      /\ next.at = IF AtLast(u) THEN 1 ELSE row.at + 1
      /\ next.done = row.done /\ next.statusOnly = row.statusOnly
  BY <1>1 DEF HasFields, UpdaterFields
<1>6. HasFields(s, StateFields) /\ s.old = head /\ s.remote = remote /\ s.action = Relation(head, remote)
      /\ (s.action = "unchanged" => head = remote)
  BY DEF HasFields, StateFields, Relation
<1>. HIDE DEF s, next
<1>7. /\ Shaped(next) /\ next.states[p] = s
      /\ \A q \in ProjectNames : q # p => next.states[q] = row.states[q]
  <2>1. next.at \in Places /\ next.pc \notin {"idle", "selected"}
    BY <1>1, <1>5, PlacesAre
  <2>2. HasFields(s, StateFields) /\ next.states = [row.states EXCEPT ![p] = s] /\ p \in ProjectNames
    BY <1>1, <1>5, <1>6
  <2>3. Shaped(row)
    BY <1>1
  <2>. HIDE DEF row, p, head, remote
  <2>4. /\ next.states = [q \in ProjectNames |-> next.states[q]] /\ next.states[p] = s
        /\ \A q \in ProjectNames : q # p => next.states[q] = row.states[q]
    BY <2>2, <2>3 DEF Shaped
  <2>5. \A q \in ProjectNames : HasFields(row.states[q], StateFields)
    BY <2>3 DEF Shaped, StateFields
  <2>6. \A q \in ProjectNames : HasFields(next.states[q], StateFields)
    BY <2>2, <2>4, <2>5
  <2>. QED
    BY <2>1, <2>4, <2>6 DEF Shaped, StateFields
<1>8. ASSUME Inspecting(row, projects) PROVE Inspecting(row, projects')
  <2>1. \A i \in Places : i < row.at => LookedAt(row, projects', i)
    BY <1>1, <1>4, <1>8, PlacesAre DEF Inspecting, LookedAt
  <2>. QED
    BY <1>1, <1>4, <1>8, <2>1 DEF Inspecting
<1>9. ASSUME Inspecting(row, projects) PROVE Sound(next, projects')
  <2>1. \A i \in Places : i # row.at => next.states[PairProjects[i]] = row.states[PairProjects[i]]
    BY <1>1, <1>7, PlacesAre
  <2>2. head = projects[p].head
    BY <1>1, <1>2, <1>9 DEF Inspecting
  <2>3. LookedAt(next, projects', row.at)
    BY <1>1, <1>4, <1>6, <1>7, <2>2 DEF LookedAt
  <2>4. \A i \in Places : i < row.at => LookedAt(next, projects', i)
    BY <1>1, <1>8, <1>9, <2>1, PlacesAre DEF Inspecting, LookedAt, SeenIn
  <2>5. \A i \in Places : i > row.at => ~SeenIn(next, i)
    BY <1>1, <1>9, <2>1, PlacesAre DEF Inspecting, SeenIn
  <2>6. row.done = <<>>
    BY <1>9 DEF Inspecting
  <2>7. CASE AtLast(u)
    <3>1. \A i \in Places : LookedAt(next, projects', i)
      BY <1>1, <2>3, <2>4, <2>7, PlacesAre
    <3>. QED
      BY <1>5, <2>6, <2>7, <3>1 DEF Sound, Deciding, Copying
  <2>8. CASE ~AtLast(u)
    <3>1. \A i \in Places : (i < row.at + 1 => LookedAt(next, projects', i)) /\ (i >= row.at + 1 => ~SeenIn(next, i))
      BY <1>1, <2>3, <2>4, <2>5, PlacesAre
    <3>. QED
      BY <1>5, <2>6, <2>8, <3>1 DEF Sound, Inspecting, Copying
  <2>. QED
    BY <2>7, <2>8
<1>10. /\ u \in calm' => u \in calm
       /\ \A v \in Updaters : v # u /\ v \in calm' => v \in calm /\ UNCHANGED projects
  BY <1>2, Disturbing
<1>11. CASE Relation(head, remote) = "refused"
  <2>1. updater' = [updater EXCEPT ![u] = Refuse(u)]
    BY <1>3, <1>11
  <2>2. Shaped(Refuse(u)) /\ Refuse(u).statusOnly = row.statusOnly /\ (~Bothered(u) => Sound(Refuse(u), projects'))
    BY <1>2, <1>8, RefusedSound
  <2>. QED
    BY <1>4, <1>10, <2>1, <2>2, TogetherFollows DEF Bothered
<1>12. CASE Relation(head, remote) # "refused"
  <2>1. updater' = [updater EXCEPT ![u] = next] /\ next.statusOnly = row.statusOnly
    BY <1>3, <1>5, <1>12
  <2>2. ~Bothered(u) => Sound(next, projects')
    BY <1>2, <1>9
  <2>. QED
    BY <1>4, <1>7, <1>10, <2>1, <2>2, TogetherFollows DEF Bothered
<1>. QED
  BY <1>11, <1>12

LEMMA FetchFailsTogether ==
  ASSUME JobsInv, TogetherInv, NEW u \in Updaters, FetchFails(u) PROVE TogetherInv'
<1>1. updater[u].pc = "fetch" /\ UNCHANGED <<projects, calm>> /\ updater' = [updater EXCEPT ![u] = Refuse(u)]
  BY DEF FetchFails
<1>2. ~Bothered(u) => Inspecting(updater[u], projects)
  BY <1>1, Unbothered DEF Sound
<1>3. Shaped(Refuse(u)) /\ Refuse(u).statusOnly = updater[u].statusOnly
      /\ (~Bothered(u) => Sound(Refuse(u), projects))
  BY <1>1, <1>2, RefusedSound
<1>. QED
  BY <1>1, <1>3, RowFollows DEF Bothered

\* A row with the same states at the same project or another.
LEMMA SameStates ==
  ASSUME NEW row, Shaped(row), NEW next, next.states = row.states, next.at \in Places,
         next.pc \notin {"idle", "selected"}
  PROVE  Shaped(next)
BY DEF Shaped

LEMMA DecideTogether ==
  ASSUME JobsInv, TogetherInv, NEW u \in Updaters, Decide(u) PROVE TogetherInv'
<1>. DEFINE row == updater[u]
            stop == [row EXCEPT !.pc = "finish", !.ok = FALSE]
            next == [row EXCEPT !.pc = IF row.statusOnly THEN Promoted(u) ELSE "merge"]
<1>1. HasFields(row, UpdaterFields) /\ Shaped(row) /\ row.at \in Places
  BY AtRow
<1>2. row.pc = "decide" /\ UNCHANGED <<projects, calm>> /\ (~Bothered(u) => Deciding(row, projects))
      /\ updater' = [updater EXCEPT ![u] = IF Refused(u) THEN stop ELSE next]
  BY Unbothered DEF Decide, Sound
<1>3. /\ stop.pc = "finish" /\ stop.ok = FALSE /\ stop.states = row.states /\ stop.at = row.at
      /\ stop.statusOnly = row.statusOnly
  BY <1>1 DEF HasFields, UpdaterFields
<1>4. /\ next.pc \in {"finish", "clear automation", "merge"} /\ next.states = row.states /\ next.at = row.at
      /\ next.done = row.done /\ next.statusOnly = row.statusOnly /\ (~row.statusOnly => next.pc = "merge")
  BY <1>1 DEF HasFields, UpdaterFields, Promoted
<1>. HIDE DEF stop, next
<1>5. Shaped(stop) /\ Shaped(next)
  BY <1>1, <1>3, <1>4, SameStates
<1>6. ASSUME Deciding(row, projects) PROVE Sound(stop, projects)
  <2>1. \A i \in Places : AtOld(stop, projects, i)
    BY <1>3, <1>6 DEF Deciding, LookedAt, AtOld, SeenIn
  <2>. QED
    BY <1>3, <2>1 DEF Sound, EndedWhole, Copying
<1>7. ASSUME Deciding(row, projects), ~row.statusOnly PROVE Sound(next, projects)
  <2>1. \A i \in Places : LookedAt(next, projects, i)
    BY <1>4, <1>7 DEF Deciding, LookedAt, SeenIn
  <2>2. FirstOnes(1 - 1) = <<>> /\ \A i \in Places : ~(i < 1)
    BY PlacesAre, FirstOnesAre
  <2>3. Merging(next, projects)
    BY <1>1, <1>4, <1>7, <2>1, <2>2 DEF Deciding, Merging
  <2>. QED
    BY <1>4, <1>7, <2>3 DEF Sound, Copying
<1>8. CASE Refused(u)
  <2>1. updater' = [updater EXCEPT ![u] = stop] /\ (~Bothered(u) => Sound(stop, projects))
    BY <1>2, <1>6, <1>8
  <2>. QED
    BY <1>2, <1>3, <1>5, <2>1, RowFollows DEF Bothered
<1>9. CASE ~Refused(u)
  <2>1. updater' = [updater EXCEPT ![u] = next] /\ (~Bothered(u) => Sound(next, projects))
    BY <1>2, <1>7, <1>9 DEF Bothered
  <2>. QED
    BY <1>2, <1>4, <1>5, <2>1, RowFollows DEF Bothered
<1>. QED
  BY <1>8, <1>9

\* On to the next project with the one it is at moved, or the update at its end.
LEMMA OnwardSound ==
  ASSUME JobsInv, TogetherInv, NEW u \in Updaters, NEW next,
         next.states = [p \in ProjectNames |-> next.states[p]],
         \A p \in ProjectNames : HasFields(next.states[p], StateFields),
         \A p \in ProjectNames : p # Here(u) => next.states[p] = updater[u].states[p],
         next.pc = NextProject(u).pc, next.at = NextProject(u).at, next.done = NextProject(u).done
  PROVE  /\ Shaped(next)
         /\ Merging(updater[u], projects) /\ MovedOn(next, projects, updater[u].at) => Sound(next, projects)
<1>. DEFINE row == updater[u]
            k == updater[u].at
            onward == NextProject(u)
<1>1. HasFields(row, UpdaterFields) /\ Shaped(row) /\ k \in Places /\ Here(u) = PairProjects[k]
      /\ k \in 1..Len(PairProjects) /\ (~AtLast(u) => k + 1 \in Places) /\ (AtLast(u) <=> k = Len(PairProjects))
  BY AtRow
<1>2. /\ onward.pc = IF AtLast(u) THEN Promoted(u) ELSE "merge"
      /\ onward.at = IF AtLast(u) THEN k ELSE k + 1
      /\ onward.done = Append(row.done, PairProjects[k])
  BY <1>1 DEF NextProject, HasFields, UpdaterFields
<1>. HIDE DEF onward
<1>3. onward.pc \in {"finish", "clear automation", "merge"} /\ onward.at \in Places
  BY <1>1, <1>2 DEF Promoted
<1>4. Shaped(next)
  BY <1>3 DEF Shaped, StateFields, onward
<1>5. ASSUME Merging(row, projects), MovedOn(next, projects, k) PROVE Sound(next, projects)
  <2>1. \A i \in Places : i # k => next.states[PairProjects[i]] = row.states[PairProjects[i]]
    BY <1>1, PlacesAre
  <2>2. \A i \in Places : i <= k => MovedOn(next, projects, i)
    <3>1. ASSUME NEW i \in Places, i < k PROVE MovedOn(next, projects, i)
      <4>1. MovedOn(row, projects, i) /\ next.states[PairProjects[i]] = row.states[PairProjects[i]]
        <5>1. i # k
          BY <1>1, <3>1, PlacesAre
        <5>2. MovedOn(row, projects, i)
          BY <1>5, <3>1 DEF Merging
        <5>. QED
          BY <2>1, <5>1, <5>2
      <4>. QED
        BY <4>1 DEF MovedOn, SeenIn
    <3>2. \A i \in Places : i <= k => i < k \/ i = k
      BY <1>1, PlacesAre
    <3>. QED
      BY <1>5, <3>1, <3>2
  <2>3. ASSUME NEW i \in Places, i > k PROVE LookedAt(next, projects, i)
    <3>1. LookedAt(row, projects, i) /\ next.states[PairProjects[i]] = row.states[PairProjects[i]]
      BY <1>1, <1>5, <2>1, <2>3, PlacesAre DEF Merging
    <3>. QED
      BY <3>1 DEF LookedAt, SeenIn
  <2>4. CASE AtLast(u)
    <3>1. \A i \in Places : AtNew(next, projects, i)
      BY <1>1, <2>2, <2>4, PlacesAre DEF MovedOn, AtNew
    <3>2. next.pc \in {"finish", "clear automation"}
      BY <1>2, <2>4 DEF Promoted, onward
    <3>. QED
      BY <3>1, <3>2 DEF Sound, EndedWhole
  <2>5. CASE ~AtLast(u)
    <3>1. next.pc = "merge" /\ next.at = k + 1 /\ next.done = Append(row.done, PairProjects[k])
      BY <1>2, <2>5 DEF onward
    <3>2. k - 1 \in 0..Len(PairProjects) /\ k - 1 < Len(PairProjects) /\ (k - 1) + 1 = k /\ (k + 1) - 1 = k
      BY <1>1, PlacesAre
    <3>3. next.done = FirstOnes(next.at - 1)
      BY <1>5, <3>1, <3>2, FirstOnesAre DEF Merging
    <3>4. \A i \in Places : (i < k + 1 => i <= k) /\ (i >= k + 1 => i > k) /\ (i > k + 1 => i > k)
      BY <1>1, PlacesAre
    <3>5. k + 1 \in Places /\ k + 1 > k
      BY <1>1, <2>5
    <3>6. Merging(next, projects)
      BY <2>2, <2>3, <3>1, <3>3, <3>4, <3>5 DEF Merging
    <3>. QED
      BY <3>1, <3>6 DEF Sound, Copying
  <2>. QED
    BY <2>4, <2>5
<1>. QED
  BY <1>4, <1>5

LEMMA NothingToMergeTogether ==
  ASSUME JobsInv, TogetherInv, NEW u \in Updaters, NothingToMerge(u) PROVE TogetherInv'
<1>. DEFINE row == updater[u]
            next == NextProject(u)
<1>1. HasFields(row, UpdaterFields) /\ Shaped(row) /\ row.at \in Places /\ Here(u) = PairProjects[row.at]
      /\ StateOf(u) = row.states[Here(u)]
  BY AtRow
<1>2. row.pc = "merge" /\ UNCHANGED <<projects, calm>> /\ (~Bothered(u) => Merging(row, projects))
      /\ updater' = [updater EXCEPT ![u] = next] /\ StateOf(u).action # "fast_forward"
  BY Unbothered DEF NothingToMerge, Sound
<1>3. next.states = row.states /\ next.statusOnly = row.statusOnly
  BY <1>1 DEF HasFields, UpdaterFields, NextProject
<1>4. next.pc = NextProject(u).pc /\ next.at = NextProject(u).at /\ next.done = NextProject(u).done
  OBVIOUS
<1>. HIDE DEF next
<1>5. Merging(row, projects) => MovedOn(next, projects, row.at)
  BY <1>1, <1>2, <1>3 DEF Merging, LookedAt, MovedOn, SeenIn
<1>6. /\ next.states = [p \in ProjectNames |-> next.states[p]]
      /\ \A p \in ProjectNames : HasFields(next.states[p], StateFields)
      /\ \A p \in ProjectNames : p # Here(u) => next.states[p] = updater[u].states[p]
  BY <1>1, <1>3 DEF Shaped, StateFields
<1>7. Shaped(next) /\ (~Bothered(u) => Sound(next, projects))
  BY <1>2, <1>4, <1>5, <1>6, OnwardSound
<1>. QED
  BY <1>2, <1>3, <1>7, RowFollows DEF Bothered

LEMMA MergeTogether ==
  ASSUME JobsInv, TogetherInv, NEW u \in Updaters, MergeProject(u) PROVE TogetherInv'
<1>. DEFINE row == updater[u]
            p == Here(u)
            k == updater[u].at
            next == [row EXCEPT !.pc = "confirm"]
<1>1. HasFields(row, UpdaterFields) /\ Shaped(row) /\ k \in Places /\ p = PairProjects[k]
      /\ p \in ProjectNames /\ StateOf(u) = row.states[p]
  BY AtRow
<1>2. row.pc = "merge" /\ Disturbs(u) /\ (~Bothered(u) => Merging(row, projects))
      /\ updater' = [updater EXCEPT ![u] = next] /\ StateOf(u).action = "fast_forward"
  BY Unbothered DEF MergeProject, Sound
<1>3. /\ ProjectsShape' /\ projects'[p].head = projects[p].tracking
      /\ \A q \in ProjectNames : q # p => projects'[q] = projects[q]
  BY <1>1 DEF MergeProject, TogetherInv, ProjectsShape, HasFields, ProjectFields
<1>4. /\ next.pc = "confirm" /\ next.states = row.states /\ next.at = k /\ next.done = row.done
      /\ next.statusOnly = row.statusOnly
  BY <1>1 DEF HasFields, UpdaterFields
<1>. HIDE DEF next
<1>5. Shaped(next)
  BY <1>1, <1>4, SameStates
<1>6. ASSUME Merging(row, projects) PROVE Sound(next, projects')
  <2>1. \A i \in Places : i # k => projects'[PairProjects[i]] = projects[PairProjects[i]]
    BY <1>1, <1>3, PlacesAre
  <2>2. ASSUME NEW i \in Places, i < k PROVE MovedOn(next, projects', i)
    <3>1. MovedOn(row, projects, i) /\ i # k
      BY <1>1, <1>2, <1>6, <2>2, PlacesAre DEF Merging
    <3>. QED
      BY <1>4, <2>1, <3>1 DEF MovedOn, SeenIn
  <2>3. ASSUME NEW i \in Places, i > k PROVE LookedAt(next, projects', i)
    <3>1. LookedAt(row, projects, i) /\ i # k
      BY <1>1, <1>2, <1>6, <2>3, PlacesAre DEF Merging
    <3>. QED
      BY <1>4, <2>1, <3>1 DEF LookedAt, SeenIn
  <2>4. LookedAt(row, projects, k)
    BY <1>2, <1>6 DEF Merging
  <2>5. AtNew(next, projects', k) /\ next.states[PairProjects[k]].action = "fast_forward"
    BY <1>1, <1>2, <1>3, <1>4, <2>4 DEF LookedAt, AtNew, SeenIn
  <2>6. next.done = FirstOnes(next.at - 1)
    BY <1>4, <1>6 DEF Merging
  <2>7. Merging(next, projects')
    BY <1>4, <2>2, <2>3, <2>5, <2>6 DEF Merging
  <2>. QED
    BY <1>4, <2>7 DEF Sound, Copying
<1>7. /\ u \in calm' => u \in calm
      /\ \A v \in Updaters : v # u /\ v \in calm' => v \in calm /\ UNCHANGED projects
  BY <1>2, Disturbing
<1>8. ~Bothered(u) => Sound(next, projects')
  BY <1>2, <1>6
<1>. QED
  BY <1>2, <1>3, <1>4, <1>5, <1>7, <1>8, TogetherFollows DEF Bothered

\* A merge that fails leaves those before it to be undone.
LEMMA MergeFailsTogether ==
  ASSUME JobsInv, TogetherInv, NEW u \in Updaters, MergeFails(u) PROVE TogetherInv'
<1>. DEFINE row == updater[u]
            k == updater[u].at
            next == [row EXCEPT !.pc = "look back", !.ok = FALSE]
<1>1. HasFields(row, UpdaterFields) /\ Shaped(row) /\ k \in Places /\ k \in 1..Len(PairProjects)
  BY AtRow
<1>2. row.pc = "merge" /\ UNCHANGED <<projects, calm>> /\ (~Bothered(u) => Merging(row, projects))
      /\ updater' = [updater EXCEPT ![u] = next]
  BY <1>1, Unbothered DEF MergeFails, Sound, HasFields, UpdaterFields
<1>3. /\ next.pc = "look back" /\ next.states = row.states /\ next.at = k /\ next.done = row.done
      /\ next.statusOnly = row.statusOnly /\ next.ok = FALSE
  BY <1>1 DEF HasFields, UpdaterFields
<1>. HIDE DEF next
<1>4. Shaped(next)
  BY <1>1, <1>3, SameStates
<1>5. ASSUME Merging(row, projects) PROVE Sound(next, projects)
  <2>1. ASSUME NEW i \in Places, i <= k - 1 PROVE MovedOn(next, projects, i)
    <3>1. i < k
      BY <1>1, <2>1, PlacesAre
    <3>2. MovedOn(row, projects, i)
      BY <1>5, <3>1 DEF Merging
    <3>. QED
      BY <1>3, <3>2 DEF MovedOn, SeenIn
  <2>2. ASSUME NEW i \in Places, i > k - 1 PROVE AtOld(next, projects, i)
    <3>1. i = k \/ i > k
      BY <1>1, <2>2, PlacesAre
    <3>2. LookedAt(row, projects, i)
      BY <1>2, <1>5, <3>1 DEF Merging
    <3>. QED
      BY <1>3, <3>2 DEF LookedAt, AtOld, SeenIn
  <2>3. next.done = FirstOnes(k - 1) /\ k - 1 \in 0..Len(PairProjects)
    <3>1. next.done = FirstOnes(k - 1)
      BY <1>3, <1>5 DEF Merging
    <3>2. k - 1 \in 0..Len(PairProjects)
      BY <1>1, PlacesAre
    <3>. QED
      BY <3>1, <3>2
  <2>4. UndoneTo(next, projects, k - 1)
    BY <2>1, <2>2, <2>3 DEF UndoneTo
  <2>5. Undoing(next, projects)
    BY <1>3, <2>3, <2>4 DEF Undoing
  <2>. QED
    BY <1>3, <2>5 DEF Sound, Copying
<1>. QED
  BY <1>2, <1>3, <1>4, <1>5, RowFollows DEF Bothered

LEMMA ConfirmTogether ==
  ASSUME JobsInv, TogetherInv, NEW u \in Updaters, ConfirmProject(u) PROVE TogetherInv'
<1>. DEFINE row == updater[u]
            p == Here(u)
            k == updater[u].at
            head == projects[p].head
            asSeen == head = StateOf(u).remote
            on == [NextProject(u) EXCEPT !.states[p].new = head]
            new == IF u \in SkynetWorkers THEN head ELSE 0
            back == [row EXCEPT !.pc = "look back", !.ok = FALSE, !.states[p].new = new]
            s == [row.states[p] EXCEPT !.new = head]
            t == [row.states[p] EXCEPT !.new = new]
<1>1. HasFields(row, UpdaterFields) /\ Shaped(row) /\ k \in Places /\ p = PairProjects[k]
      /\ p \in ProjectNames /\ StateOf(u) = row.states[p] /\ HasFields(row.states[p], StateFields)
  BY AtRow
<1>2. row.pc = "confirm" /\ UNCHANGED <<projects, calm>> /\ (~Bothered(u) => Merging(row, projects))
  BY Unbothered DEF ConfirmProject, Sound
<1>3. updater' = [updater EXCEPT ![u] = IF asSeen THEN on ELSE back]
  BY DEF ConfirmProject
<1>4. /\ HasFields(NextProject(u), UpdaterFields) /\ NextProject(u).states = row.states
      /\ NextProject(u).statusOnly = row.statusOnly
  <2>1. NextProject(u).states = row.states /\ NextProject(u).statusOnly = row.statusOnly
    BY <1>1 DEF HasFields, UpdaterFields, NextProject
  <2>. QED
    BY <2>1, UpdateRows
<1>5. /\ on.states = [row.states EXCEPT ![p] = s] /\ on.pc = NextProject(u).pc /\ on.at = NextProject(u).at
      /\ on.done = NextProject(u).done /\ on.statusOnly = row.statusOnly
  BY <1>4 DEF HasFields, UpdaterFields
<1>6. /\ back.states = [row.states EXCEPT ![p] = t] /\ back.pc = "look back" /\ back.at = k
      /\ back.statusOnly = row.statusOnly
  BY <1>1 DEF HasFields, UpdaterFields
<1>7. /\ HasFields(s, StateFields) /\ s.new = head /\ s.action = row.states[p].action
      /\ s.old = row.states[p].old /\ s.remote = row.states[p].remote /\ HasFields(t, StateFields)
  BY <1>1 DEF HasFields, StateFields
<1>. HIDE DEF on, back, s, t, new
<1>8. CASE asSeen
  <2>1. /\ on.states = [q \in ProjectNames |-> on.states[q]] /\ on.states[p] = s
        /\ \A q \in ProjectNames : q # p => on.states[q] = row.states[q]
    BY <1>1, <1>5 DEF Shaped
  <2>2. \A q \in ProjectNames : HasFields(on.states[q], StateFields)
    BY <1>1, <1>7, <2>1 DEF Shaped, StateFields
  <2>3. MovedOn(on, projects, k) \/ row.states[p].action # "fast_forward"
    BY <1>1, <1>7, <1>8, <2>1 DEF MovedOn, SeenIn
  <2>4. Merging(row, projects) => MovedOn(on, projects, k)
    BY <1>1, <1>2, <2>3 DEF Merging
  <2>5. Shaped(on) /\ (Merging(row, projects) => Sound(on, projects))
    BY <1>5, <2>1, <2>2, <2>4, OnwardSound
  <2>6. updater' = [updater EXCEPT ![u] = on]
    BY <1>3, <1>8
  <2>. QED
    BY <1>2, <1>5, <2>5, <2>6, RowFollows DEF Bothered
<1>9. CASE ~asSeen
  <2>1. Shaped(back)
    <3>1. back.at \in Places /\ back.pc \notin {"idle", "selected"}
      BY <1>1, <1>6
    <3>2. HasFields(t, StateFields) /\ back.states = [row.states EXCEPT ![p] = t] /\ p \in ProjectNames /\ Shaped(row)
      BY <1>1, <1>6, <1>7
    <3>. HIDE DEF row, p
    <3>. QED
      BY <3>1, <3>2, OtherState
  <2>2. ~Merging(row, projects)
    BY <1>1, <1>2, <1>9 DEF Merging, AtNew, SeenIn
  <2>3. updater' = [updater EXCEPT ![u] = back]
    BY <1>3, <1>9
  <2>. QED
    BY <1>2, <1>6, <2>1, <2>2, <2>3, RowFollows DEF Bothered
<1>. QED
  BY <1>8, <1>9

\* What is left to undo: nothing, or the last of the done.
LEMMA UndoingRow ==
  ASSUME NEW row, NEW ps, Undoing(row, ps)
  PROVE  /\ row.done = <<>> => \A i \in Places : AtOld(row, ps, i)
         /\ row.done # <<>> => \E m \in 1..Len(PairProjects) :
              /\ UndoneTo(row, ps, m) /\ Last(row.done) = PairProjects[m] /\ Front(row.done) = FirstOnes(m - 1)
              /\ m - 1 \in 0..Len(PairProjects) /\ MovedOn(row, ps, m)
<1>1. PICK m \in 0..Len(PairProjects) : UndoneTo(row, ps, m)
  BY DEF Undoing
<1>2. /\ row.done = FirstOnes(m) /\ FirstOnes(0) = <<>>
      /\ m # 0 => /\ FirstOnes(m) # <<>> /\ Last(FirstOnes(m)) = PairProjects[m]
                  /\ Front(FirstOnes(m)) = FirstOnes(m - 1)
  BY <1>1, FirstOnesAre DEF UndoneTo
<1>3. CASE m = 0
  <2>1. \A i \in Places : i > m
    BY <1>3, PlacesAre
  <2>2. \A i \in Places : AtOld(row, ps, i)
    BY <1>1, <2>1 DEF UndoneTo
  <2>. QED
    BY <1>2, <1>3, <2>2
<1>4. CASE m # 0
  <2>1. m \in 1..Len(PairProjects) /\ m - 1 \in 0..Len(PairProjects) /\ m \in Places /\ m <= m
    BY <1>4, PlacesAre
  <2>2. MovedOn(row, ps, m)
    BY <1>1, <2>1 DEF UndoneTo
  <2>. QED
    BY <1>1, <1>2, <1>4, <2>1, <2>2
<1>. QED
  BY <1>3, <1>4

LEMMA LookBackTogether ==
  ASSUME JobsInv, TogetherInv, NEW u \in Updaters, LookBack(u) PROVE TogetherInv'
<1>. DEFINE row == updater[u]
            p == Last(updater[u].done)
            mine == row.states[p].action = "fast_forward" /\ projects[p].head = row.states[p].new
            ended == [row EXCEPT !.pc = IF u \in SkynetWorkers THEN "finish" ELSE "receipt"]
            undo == [row EXCEPT !.pc = "reset"]
            next == [row EXCEPT !.done = Front(row.done)]
<1>1. HasFields(row, UpdaterFields) /\ Shaped(row) /\ row.at \in Places
  BY AtRow
<1>2. row.pc = "look back" /\ UNCHANGED <<projects, calm>> /\ (~Bothered(u) => Undoing(row, projects))
  BY Unbothered DEF LookBack, Sound
<1>3. updater' = [updater EXCEPT ![u] = IF row.done = <<>> THEN ended ELSE IF mine THEN undo ELSE next]
  BY <1>1 DEF LookBack, HasFields, UpdaterFields
<1>4. /\ ended.pc \in {"finish", "receipt"} /\ ended.states = row.states /\ ended.at = row.at
      /\ ended.statusOnly = row.statusOnly /\ ended.ok = row.ok
  BY <1>1 DEF HasFields, UpdaterFields
<1>5. /\ undo.pc = "reset" /\ undo.states = row.states /\ undo.at = row.at /\ undo.done = row.done
      /\ undo.statusOnly = row.statusOnly /\ undo.ok = row.ok
  BY <1>1 DEF HasFields, UpdaterFields
<1>6. /\ next.pc = row.pc /\ next.states = row.states /\ next.at = row.at /\ next.done = Front(row.done)
      /\ next.statusOnly = row.statusOnly /\ next.ok = row.ok
  BY <1>1 DEF HasFields, UpdaterFields
<1>. HIDE DEF ended, undo, next
<1>7. Shaped(ended) /\ Shaped(undo) /\ Shaped(next)
  BY <1>1, <1>2, <1>4, <1>5, <1>6, SameStates
<1>8. CASE row.done = <<>>
  <2>1. ASSUME Undoing(row, projects) PROVE Sound(ended, projects)
    <3>1. \A i \in Places : AtOld(ended, projects, i)
      BY <1>4, <1>8, <2>1, UndoingRow DEF AtOld, SeenIn
    <3>2. EndedWhole(ended, projects)
      BY <1>4, <2>1, <3>1 DEF EndedWhole, Undoing
    <3>. QED
      BY <1>4, <3>2 DEF Sound, Copying
  <2>2. updater' = [updater EXCEPT ![u] = ended]
    BY <1>3, <1>8
  <2>. QED
    BY <1>2, <1>4, <1>7, <2>1, <2>2, RowFollows DEF Bothered
<1>9. CASE row.done # <<>> /\ mine
  <2>1. ASSUME Undoing(row, projects) PROVE Sound(undo, projects)
    <3>1. PICK m \in 1..Len(PairProjects) : UndoneTo(row, projects, m)
      BY <1>9, <2>1, UndoingRow
    <3>2. UndoneTo(undo, projects, m)
      BY <1>5, <3>1 DEF UndoneTo, MovedOn, AtOld, SeenIn
    <3>3. m \in 0..Len(PairProjects) /\ m # 0
      BY PlacesAre
    <3>4. Undoing(undo, projects)
      BY <1>5, <2>1, <3>2, <3>3 DEF Undoing
    <3>. QED
      BY <1>5, <3>4 DEF Sound, Copying
  <2>2. updater' = [updater EXCEPT ![u] = undo]
    BY <1>3, <1>9
  <2>. QED
    BY <1>2, <1>5, <1>7, <2>1, <2>2, RowFollows DEF Bothered
<1>10. CASE row.done # <<>> /\ ~mine
  <2>1. ASSUME Undoing(row, projects) PROVE Sound(next, projects)
    <3>1. PICK m \in 1..Len(PairProjects) :
            /\ UndoneTo(row, projects, m) /\ Last(row.done) = PairProjects[m]
            /\ Front(row.done) = FirstOnes(m - 1) /\ m - 1 \in 0..Len(PairProjects) /\ MovedOn(row, projects, m)
      BY <1>10, <2>1, UndoingRow
    <3>2. AtOld(row, projects, m)
      BY <1>10, <3>1 DEF MovedOn, AtOld, SeenIn
    <3>3. \A i \in Places : (i <= m - 1 => i <= m) /\ (i > m - 1 => i > m \/ i = m)
      BY PlacesAre
    <3>4. UndoneTo(next, projects, m - 1)
      BY <1>6, <3>1, <3>2, <3>3 DEF UndoneTo, MovedOn, AtOld, SeenIn
    <3>5. Undoing(next, projects)
      BY <1>2, <1>6, <2>1, <3>1, <3>4 DEF Undoing
    <3>. QED
      BY <1>2, <1>6, <3>5 DEF Sound, Copying
  <2>2. updater' = [updater EXCEPT ![u] = next]
    BY <1>3, <1>10
  <2>. QED
    BY <1>2, <1>6, <1>7, <2>1, <2>2, RowFollows DEF Bothered
<1>. QED
  BY <1>8, <1>9, <1>10

LEMMA ResetTogether ==
  ASSUME JobsInv, TogetherInv, NEW u \in Updaters, ResetProject(u) PROVE TogetherInv'
<1>. DEFINE row == updater[u]
            p == Last(updater[u].done)
            next == [row EXCEPT !.pc = "look back", !.done = Front(row.done)]
<1>1. HasFields(row, UpdaterFields) /\ Shaped(row) /\ row.at \in Places
  BY AtRow
<1>2. row.pc = "reset" /\ Disturbs(u) /\ (~Bothered(u) => Undoing(row, projects))
      /\ updater' = [updater EXCEPT ![u] = next]
  BY <1>1, Unbothered DEF ResetProject, Sound, HasFields, UpdaterFields
<1>3. /\ next.pc = "look back" /\ next.states = row.states /\ next.at = row.at /\ next.done = Front(row.done)
      /\ next.statusOnly = row.statusOnly /\ next.ok = row.ok
  BY <1>1 DEF HasFields, UpdaterFields
<1>. HIDE DEF next
<1>4. Shaped(next)
  BY <1>1, <1>3, SameStates
<1>5. projects' = [projects EXCEPT ![p].head = row.states[p].old, ![p].dirty = FALSE]
  BY DEF ResetProject
<1>6. /\ ProjectsShape' /\ (p \in ProjectNames => projects'[p].head = row.states[p].old)
      /\ \A q \in ProjectNames : q # p => projects'[q] = projects[q]
  BY <1>5 DEF TogetherInv, ProjectsShape, HasFields, ProjectFields
<1>7. ASSUME Undoing(row, projects) PROVE Sound(next, projects')
  <2>1. row.done # <<>>
    <3>1. PICK m \in 0..Len(PairProjects) : m # 0 /\ row.done = FirstOnes(m)
      BY <1>2, <1>7 DEF Undoing, UndoneTo
    <3>. QED
      BY <3>1, FirstOnesAre
  <2>2. PICK m \in 1..Len(PairProjects) :
          /\ UndoneTo(row, projects, m) /\ p = PairProjects[m]
          /\ Front(row.done) = FirstOnes(m - 1) /\ m - 1 \in 0..Len(PairProjects)
    BY <1>7, <2>1, UndoingRow
  <2>3. m \in Places /\ p \in ProjectNames
    BY <2>2, PlacesAre
  <2>4. \A i \in Places : i # m => projects'[PairProjects[i]] = projects[PairProjects[i]]
    BY <1>6, <2>2, <2>3, PlacesAre
  <2>5. AtOld(next, projects', m)
    BY <1>3, <1>6, <2>2, <2>3 DEF AtOld
  <2>6. ASSUME NEW i \in Places, i <= m - 1 PROVE MovedOn(next, projects', i)
    <3>1. i <= m /\ i # m
      BY <2>6, PlacesAre
    <3>2. MovedOn(row, projects, i)
      BY <2>2, <3>1 DEF UndoneTo
    <3>. QED
      BY <1>3, <2>4, <3>1, <3>2 DEF MovedOn, SeenIn
  <2>7. ASSUME NEW i \in Places, i > m - 1 PROVE AtOld(next, projects', i)
    <3>1. i = m \/ (i > m /\ i # m)
      BY <2>7, PlacesAre
    <3>2. i > m => AtOld(row, projects, i)
      BY <2>2 DEF UndoneTo
    <3>. QED
      BY <1>3, <2>4, <2>5, <3>1, <3>2 DEF AtOld, SeenIn
  <2>8. UndoneTo(next, projects', m - 1)
    BY <1>3, <2>2, <2>6, <2>7 DEF UndoneTo
  <2>9. Undoing(next, projects')
    BY <1>3, <1>7, <2>2, <2>8 DEF Undoing
  <2>. QED
    BY <1>3, <2>9 DEF Sound, Copying
<1>8. /\ u \in calm' => u \in calm
      /\ \A v \in Updaters : v # u /\ v \in calm' => v \in calm /\ UNCHANGED projects
  BY <1>2, Disturbing
<1>9. ~Bothered(u) => Sound(next, projects')
  BY <1>2, <1>7
<1>. QED
  BY <1>2, <1>3, <1>4, <1>6, <1>8, <1>9, TogetherFollows DEF Bothered

\* Between two updates there is nothing to tell of the projects.
LEMMA RestingSound ==
  ASSUME NEW row, row.pc \in {"idle", "selected", "audit", "append"}, NEW ps PROVE Sound(row, ps)
BY DEF Sound, Copying

LEMMA IdleShaped ==
  /\ Shaped(IdleUpdater) /\ IdleUpdater.pc = "idle" /\ IdleUpdater.at = 1 /\ IdleUpdater.done = <<>>
  /\ IdleUpdater.states = [p \in ProjectNames |-> NoState] /\ NoState.action = "none"
  /\ HasFields(NoState, StateFields)
  /\ HasFields(IdleUpdater, UpdaterFields)
<1>1. HasFields(NoState, {"action", "old", "remote", "new"}) /\ NoState.action = "none"
  BY DEF NoState, HasFields
<1>2. IdleUpdater.states = [p \in ProjectNames |-> NoState] /\ IdleUpdater.pc = "idle"
      /\ IdleUpdater.at = 1 /\ IdleUpdater.done = <<>> /\ HasFields(IdleUpdater, UpdaterFields)
  BY DEF IdleUpdater, HasFields, UpdaterFields
<1>. QED
  BY <1>1, <1>2, PlacesAre DEF Shaped, StateFields

\* An update that begins has seen nothing.
LEMMA BegunSound ==
  ASSUME NEW row, NEW next, Shaped(row), row.pc \in {"idle", "selected"}, next.states = row.states,
         next.at = row.at, next.done = row.done, next.pc \in {"inspect", "finish"}, NEW ps
  PROVE  Shaped(next) /\ Sound(next, ps)
<1>1. row.at = 1 /\ row.done = <<>> /\ \A i \in Places : ~SeenIn(next, i)
  BY PlacesAre DEF Shaped, SeenIn
<1>2. Shaped(next)
  BY <1>1, PlacesAre DEF Shaped
<1>3. Inspecting(next, ps) \/ next.pc # "inspect"
  BY <1>1, PlacesAre DEF Inspecting
<1>4. EndedWhole(next, ps)
  BY <1>1 DEF EndedWhole, AtNew
<1>. QED
  BY <1>2, <1>3, <1>4 DEF Sound, Copying

LEMMA BeginsTogether ==
  ASSUME JobsInv, TogetherInv, NEW u \in Updaters, NEW row, NEW next, Shaped(row), row.pc \in {"idle", "selected"},
         next.states = row.states, next.at = row.at, next.done = row.done, next.pc \in {"inspect", "finish"},
         updater' = [updater EXCEPT ![u] = next], UNCHANGED projects, calm' = calm \union {u}
  PROVE  TogetherInv'
<1>1. Shaped(next) /\ Sound(next, projects)
  BY BegunSound
<1>2. ProjectsShape'
  BY DEF TogetherInv, ProjectsShape
<1>. QED
  BY <1>1, <1>2, TogetherFollows

LEMMA MarkTogether ==
  ASSUME JobsInv, TogetherInv, NEW u \in SkynetWorkers, MarkRunning(u) PROVE TogetherInv'
<1>. DEFINE row == updater[u]
            j == updater[u].job
<1>1. u \in Updaters /\ HasFields(row, UpdaterFields) /\ Shaped(row)
  BY AtRow DEF Updaters
<1>2. row.pc = "selected" /\ UNCHANGED projects /\ calm' = calm \union {u}
  BY DEF MarkRunning
<1>3. PICK ok \in BOOLEAN :
        updater' = [updater EXCEPT ![u].ok = JobTask[j] = "project_update" \/ ok,
                                   ![u].pc = IF JobTask[j] = "project_update" THEN "inspect" ELSE "finish"]
  BY DEF MarkRunning
<1>. DEFINE next == [row EXCEPT !.ok = JobTask[j] = "project_update" \/ ok,
                                !.pc = IF JobTask[j] = "project_update" THEN "inspect" ELSE "finish"]
<1>4. updater' = [updater EXCEPT ![u] = next]
  BY <1>1, <1>3 DEF JobsInv
<1>5. next.states = row.states /\ next.at = row.at /\ next.done = row.done /\ next.pc \in {"inspect", "finish"}
  BY <1>1 DEF HasFields, UpdaterFields
<1>. HIDE DEF next
<1>. QED
  BY <1>1, <1>2, <1>4, <1>5, BeginsTogether

LEMMA BeginPairTogether ==
  ASSUME JobsInv, TogetherInv, NEW u \in PairUpdaters, BeginPair(u) PROVE TogetherInv'
<1>1. PICK statusOnly \in BOOLEAN :
        updater' = [updater EXCEPT ![u] = [IdleUpdater EXCEPT !.pc = "inspect", !.statusOnly = statusOnly]]
  BY DEF BeginPair
<1>. DEFINE next == [IdleUpdater EXCEPT !.pc = "inspect", !.statusOnly = statusOnly]
<1>2. /\ next.states = IdleUpdater.states /\ next.at = IdleUpdater.at /\ next.done = IdleUpdater.done
      /\ next.pc = "inspect"
  BY IdleShaped DEF HasFields, UpdaterFields
<1>3. updater' = [updater EXCEPT ![u] = next]
  BY <1>1
<1>. HIDE DEF next
<1>4. UNCHANGED projects /\ calm' = calm \union {u} /\ u \in Updaters
  BY DEF BeginPair, Updaters
<1>. QED
  BY <1>2, <1>3, <1>4, IdleShaped, BeginsTogether

LEMMA RestTogether ==
  ASSUME JobsInv, TogetherInv, NEW u \in Updaters, UNCHANGED <<projects, calm>>, NEW row, Shaped(row),
         row.pc \in {"idle", "selected", "audit", "append"}, updater' = [updater EXCEPT ![u] = row]
  PROVE  TogetherInv'
<1>1. Sound(row, projects)
  BY RestingSound
<1>. QED
  BY <1>1, RowFollows

LEMMA WorkersTogether ==
  ASSUME JobsInv, TogetherInv, NEW u \in SkynetWorkers,
         (\E j \in SkynetJobs : SelectJob(u, j)) \/ FinishJob(u) \/ ReadTail(u) \/ AppendAudit(u)
  PROVE  TogetherInv'
<1>. DEFINE row == updater[u]
<1>1. u \in Updaters /\ HasFields(row, UpdaterFields) /\ Shaped(row) /\ row.at \in Places
  BY AtRow DEF Updaters
<1>2. ASSUME NEW j \in SkynetJobs, SelectJob(u, j) PROVE TogetherInv'
  <2>. DEFINE next == [IdleUpdater EXCEPT !.pc = "selected", !.job = j]
  <2>1. /\ next.states = IdleUpdater.states /\ next.at = 1 /\ next.done = <<>> /\ next.pc = "selected"
    BY IdleShaped DEF HasFields, UpdaterFields
  <2>2. updater' = [updater EXCEPT ![u] = next] /\ UNCHANGED <<projects, calm>>
    BY <1>2 DEF SelectJob
  <2>. HIDE DEF next
  <2>3. Shaped(next)
    BY <2>1, IdleShaped DEF Shaped
  <2>. QED
    BY <1>1, <2>1, <2>2, <2>3, RestTogether
<1>3. CASE FinishJob(u)
  <2>. DEFINE next == [row EXCEPT !.pc = "audit"]
  <2>1. next.states = row.states /\ next.at = row.at /\ next.pc = "audit"
    BY <1>1 DEF HasFields, UpdaterFields
  <2>2. updater' = [updater EXCEPT ![u] = next] /\ UNCHANGED <<projects, calm>>
    BY <1>1, <1>3 DEF FinishJob, JobsInv
  <2>. HIDE DEF next
  <2>3. Shaped(next)
    BY <1>1, <2>1, SameStates
  <2>. QED
    BY <1>1, <2>1, <2>2, <2>3, RestTogether
<1>4. CASE ReadTail(u)
  <2>. DEFINE next == [row EXCEPT !.pc = "append", !.tail = Len(jobAudit)]
  <2>1. next.states = row.states /\ next.at = row.at /\ next.pc = "append"
    BY <1>1 DEF HasFields, UpdaterFields
  <2>2. updater' = [updater EXCEPT ![u] = next] /\ UNCHANGED <<projects, calm>>
    BY <1>1, <1>4 DEF ReadTail, JobsInv
  <2>. HIDE DEF next
  <2>3. Shaped(next)
    BY <1>1, <2>1, SameStates
  <2>. QED
    BY <1>1, <2>1, <2>2, <2>3, RestTogether
<1>5. CASE AppendAudit(u)
  <2>1. updater' = [updater EXCEPT ![u] = IdleUpdater] /\ UNCHANGED <<projects, calm>>
    BY <1>5 DEF AppendAudit
  <2>. QED
    BY <1>1, <2>1, IdleShaped, RestTogether
<1>. QED
  BY <1>2, <1>3, <1>4, <1>5

\* The copies and the receipt leave heads and tracking refs where they are.
LEMMA ExportsTogether ==
  ASSUME JobsInv, TogetherInv, NEW u \in Updaters, NEW next,
         updater' = [updater EXCEPT ![u] = next], next.states = updater[u].states, next.at = updater[u].at,
         next.statusOnly = updater[u].statusOnly, updater[u].pc \in Copying,
         next.pc \in Copying \/ next.pc = "receipt",
         \/ UNCHANGED <<projects, calm>>
         \/ Disturbs(u) /\ \E p \in ProjectNames : \E d : projects' = [projects EXCEPT ![p].dirty = d]
  PROVE  TogetherInv'
<1>. DEFINE row == updater[u]
<1>1. Shaped(row) /\ row.at \in Places
  BY AtRow
<1>2. next.pc \notin {"idle", "selected"}
  BY DEF Copying
<1>3. Shaped(next)
  BY <1>1, <1>2, SameStates
<1>4. /\ ProjectsShape'
      /\ \A q \in ProjectNames : projects'[q].head = projects[q].head /\ projects'[q].tracking = projects[q].tracking
  BY DEF TogetherInv, ProjectsShape, HasFields, ProjectFields
<1>5. ASSUME ~Bothered(u) PROVE Sound(next, projects')
  <2>1. \A i \in Places : AtNew(row, projects, i)
    BY <1>5, Unbothered DEF Sound
  <2>2. \A i \in Places : AtNew(next, projects, i)
    BY <2>1 DEF AtNew, SeenIn
  <2>3. Sound(next, projects)
    BY <2>2 DEF Sound, EndedWhole, Copying
  <2>. QED
    BY <1>1, <1>4, <2>3, SoundStays
<1>6. /\ u \in calm' => u \in calm
      /\ \A v \in Updaters : v # u /\ v \in calm' => v \in calm /\ UNCHANGED projects
  BY Disturbing
<1>. QED
  BY <1>3, <1>4, <1>5, <1>6, TogetherFollows DEF Bothered

LEMMA PairTogether ==
  ASSUME JobsInv, TogetherInv, NEW u \in PairUpdaters,
         \/ CopyFails(u) \/ CopyBack(u) \/ TakeManifest(u) \/ SealReceipt(u)
         \/ \E p : \E here, next \in Copying : ClearCopy(u, p, here, next) \/ CopyExport(u, p, here, next)
  PROVE  TogetherInv'
<1>. DEFINE row == updater[u]
<1>1. u \in Updaters /\ HasFields(row, UpdaterFields) /\ DOMAIN updater = Updaters
  BY AtRow DEF JobsInv, Updaters
<1>2. CASE SealReceipt(u)
  <2>1. updater' = [updater EXCEPT ![u] = IdleUpdater] /\ UNCHANGED <<projects, calm>>
    BY <1>2 DEF SealReceipt
  <2>. QED
    BY <1>1, <2>1, IdleShaped, RestTogether
<1>3. CASE CopyFails(u)
  <2>. DEFINE next == [row EXCEPT !.pc = "receipt", !.ok = FALSE]
  <2>1. next.states = row.states /\ next.at = row.at /\ next.statusOnly = row.statusOnly /\ next.pc = "receipt"
    BY <1>1 DEF HasFields, UpdaterFields
  <2>2. updater' = [updater EXCEPT ![u] = next] /\ UNCHANGED <<projects, calm>> /\ row.pc \in Copying
    BY <1>1, <1>3 DEF CopyFails, Copying
  <2>. HIDE DEF next
  <2>. QED
    BY <1>1, <2>1, <2>2, ExportsTogether
<1>4. CASE TakeManifest(u)
  <2>. DEFINE next == [row EXCEPT !.pc = "receipt", !.manifest = [p \in ProjectNames |-> integrated[p]]]
  <2>1. next.states = row.states /\ next.at = row.at /\ next.statusOnly = row.statusOnly /\ next.pc = "receipt"
    BY <1>1 DEF HasFields, UpdaterFields
  <2>2. updater' = [updater EXCEPT ![u] = next] /\ UNCHANGED <<projects, calm>> /\ row.pc \in Copying
    BY <1>1, <1>4 DEF TakeManifest, Copying
  <2>. HIDE DEF next
  <2>. QED
    BY <1>1, <2>1, <2>2, ExportsTogether
<1>5. ASSUME NEW pc \in Copying, updater' = [updater EXCEPT ![u].pc = pc], row.pc \in Copying,
             \/ UNCHANGED <<projects, calm>>
             \/ (Disturbs(u) /\ \E p \in ProjectNames : \E d : projects' = [projects EXCEPT ![p].dirty = d])
      PROVE  TogetherInv'
  <2>. DEFINE next == [row EXCEPT !.pc = pc]
  <2>1. next.states = row.states /\ next.at = row.at /\ next.statusOnly = row.statusOnly /\ next.pc = pc
    BY <1>1 DEF HasFields, UpdaterFields
  <2>2. updater' = [updater EXCEPT ![u] = next]
    BY <1>1, <1>5
  <2>. HIDE DEF next
  <2>. QED
    BY <1>1, <1>5, <2>1, <2>2, ExportsTogether
<1>6. CASE CopyBack(u)
  <2>. DEFINE p == Last(PairProjects)
  <2>1. PICK dirty : projects' = [projects EXCEPT ![p].dirty = projects[p].dirty \/ dirty]
    <3>1. PICK dirty : projects' = [projects EXCEPT ![Last(PairProjects)].dirty = @ \/ dirty]
      BY <1>6 DEF CopyBack
    <3>. QED
      BY <3>1
  <2>2. p \in ProjectNames
    BY PlacesAre DEF Last
  <2>3. \E q \in ProjectNames : \E d : projects' = [projects EXCEPT ![q].dirty = d]
    BY <2>1, <2>2
  <2>4. updater' = [updater EXCEPT ![u].pc = "manifest"] /\ Disturbs(u) /\ row.pc = "copy back"
    BY <1>6 DEF CopyBack
  <2>5. "manifest" \in Copying /\ "copy back" \in Copying
    BY DEF Copying
  <2>. QED
    BY <1>5, <2>3, <2>4, <2>5
<1>7. ASSUME NEW p, NEW here \in Copying, NEW next \in Copying,
             ClearCopy(u, p, here, next) \/ CopyExport(u, p, here, next)
      PROVE  TogetherInv'
  <2>1. updater' = [updater EXCEPT ![u].pc = next] /\ UNCHANGED <<projects, calm>> /\ row.pc = here
    BY <1>7 DEF ClearCopy, CopyExport
  <2>. QED
    BY <1>5, <1>7, <2>1
<1>. QED
  BY <1>2, <1>3, <1>4, <1>6, <1>7

\* People and the remote: nobody they interfered with is undisturbed.
LEMMA SurroundingsTogether ==
  ASSUME JobsInv, TogetherInv, PairSurroundings PROVE TogetherInv'
<1>1. PICK p \in ProjectNames : \/ RemoteAdvances(p) \/ SomebodyFetches(p) \/ SomebodyCommits(p) \/ SomebodyEdits(p)
                                \/ SomebodyTidies(p)
  BY DEF PairSurroundings
<1>2. projects = [q \in ProjectNames |-> projects[q]] /\ \A q \in ProjectNames : HasFields(projects[q], ProjectFields)
  BY DEF TogetherInv, ProjectsShape
<1>3. CASE RemoteAdvances(p)
  <2>1. projects' = [projects EXCEPT ![p].remote = @ + 1] /\ UNCHANGED <<updater, calm>>
    BY <1>3 DEF RemoteAdvances
  <2>2. /\ ProjectsShape'
        /\ \A q \in ProjectNames :
             projects'[q].head = projects[q].head /\ projects'[q].tracking = projects[q].tracking
    BY <1>2, <2>1 DEF ProjectsShape, HasFields, ProjectFields
  <2>3. ASSUME NEW u \in Updaters, Sound(updater[u], projects) PROVE Sound(updater[u], projects')
    BY <2>2, <2>3, AtRow, SoundStays
  <2>. QED
    BY <2>1, <2>2, <2>3 DEF TogetherInv
<1>4. ASSUME NEW row, HasFields(row, ProjectFields), Interferes(p, row) PROVE TogetherInv'
  <2>1. projects' = [projects EXCEPT ![p] = row] /\ calm' = {} /\ UNCHANGED updater
    BY <1>4 DEF Interferes
  <2>2. ProjectsShape'
    BY <1>2, <1>4, <2>1 DEF ProjectsShape
  <2>. QED
    BY <2>1, <2>2 DEF TogetherInv
<1>5. HasFields(projects[p], ProjectFields)
  BY <1>2
<1>6. CASE SomebodyFetches(p)
  <2>1. HasFields([projects[p] EXCEPT !.tracking = projects[p].remote], ProjectFields)
    BY <1>5 DEF HasFields, ProjectFields
  <2>. QED
    BY <1>4, <1>6, <2>1 DEF SomebodyFetches
<1>7. CASE SomebodyCommits(p)
  <2>1. HasFields([projects[p] EXCEPT !.head = OwnCommit, !.dirty = FALSE], ProjectFields)
    BY <1>5 DEF HasFields, ProjectFields
  <2>. QED
    BY <1>4, <1>7, <2>1 DEF SomebodyCommits
<1>8. CASE SomebodyEdits(p) \/ SomebodyTidies(p)
  <2>1. /\ HasFields([projects[p] EXCEPT !.dirty = TRUE], ProjectFields)
        /\ HasFields([projects[p] EXCEPT !.dirty = FALSE], ProjectFields)
    BY <1>5 DEF HasFields, ProjectFields
  <2>. QED
    BY <1>4, <1>8, <2>1 DEF SomebodyEdits, SomebodyTidies
<1>. QED
  BY <1>1, <1>3, <1>6, <1>7, <1>8

LEMMA TogetherStep == JobsInv /\ TogetherInv /\ [SkynetNext \/ PairNext]_pairVars => TogetherInv'
<1>. SUFFICES ASSUME JobsInv, TogetherInv, [SkynetNext \/ PairNext]_pairVars PROVE TogetherInv'
  OBVIOUS
<1>1. CASE UNCHANGED <<projects, updater, calm>>
  BY <1>1 DEF TogetherInv, ProjectsShape
<1>2. ASSUME NEW u \in Updaters, UpdaterDies(u) PROVE TogetherInv'
  <2>1. updater' = [updater EXCEPT ![u] = IdleUpdater] /\ UNCHANGED <<projects, calm>>
    BY <1>2 DEF UpdaterDies
  <2>. QED
    BY <2>1, IdleShaped, RestTogether
<1>3. ASSUME NEW u \in Updaters, UpdateStep(u) PROVE TogetherInv'
  BY <1>2, <1>3, InspectTogether, FetchTogether, FetchFailsTogether, DecideTogether, NothingToMergeTogether,
     MergeTogether, MergeFailsTogether, ConfirmTogether, LookBackTogether, ResetTogether DEF UpdateStep
<1>4. ASSUME NEW j \in SkynetJobs, Submit(j) PROVE TogetherInv'
  BY <1>1, <1>4 DEF Submit
<1>5. CASE SkynetNext
  <2>1. CASE PairSurroundings
    BY <2>1, SurroundingsTogether
  <2>2. ASSUME NEW j \in SkynetJobs, Submit(j) \/ \E u \in SkynetWorkers : SelectJob(u, j) PROVE TogetherInv'
    BY <1>4, <2>2, WorkersTogether
  <2>3. ASSUME NEW u \in SkynetWorkers,
               MarkRunning(u) \/ UpdateStep(u) \/ FinishJob(u) \/ ReadTail(u) \/ AppendAudit(u)
        PROVE  TogetherInv'
    <3>1. u \in Updaters
      BY DEF Updaters
    <3>. QED
      BY <1>3, <2>3, <3>1, MarkTogether, WorkersTogether
  <2>. QED
    BY <1>5, <2>1, <2>2, <2>3 DEF SkynetNext
<1>6. CASE PairNext
  <2>1. CASE PairSurroundings
    BY <2>1, SurroundingsTogether
  <2>2. {"clear automation", "copy automation", "clear cybersecurity", "copy cybersecurity", "copy back"}
          \subseteq Copying
    BY DEF Copying
  <2>3. ASSUME NEW u \in PairUpdaters, NEW p, NEW here \in Copying, NEW next \in Copying,
               ClearCopy(u, p, here, next) \/ CopyExport(u, p, here, next)
        PROVE  TogetherInv'
    BY <2>3, PairTogether
  <2>4. ASSUME NEW u \in PairUpdaters,
               \/ ClearCopy(u, "automation", "clear automation", "copy automation")
               \/ CopyExport(u, "automation", "copy automation", "clear cybersecurity")
               \/ ClearCopy(u, "cybersecurity", "clear cybersecurity", "copy cybersecurity")
               \/ CopyExport(u, "cybersecurity", "copy cybersecurity", "copy back")
        PROVE  TogetherInv'
    BY <2>2, <2>3, <2>4
  <2>5. ASSUME NEW u \in PairUpdaters,
               BeginPair(u) \/ UpdateStep(u) \/ CopyFails(u) \/ CopyBack(u) \/ TakeManifest(u) \/ SealReceipt(u)
        PROVE  TogetherInv'
    <3>1. u \in Updaters
      BY DEF Updaters
    <3>. QED
      BY <1>3, <2>5, <3>1, BeginPairTogether, PairTogether
  <2>. QED
    BY <1>6, <2>1, <2>4, <2>5 DEF PairNext
<1>7. CASE UNCHANGED pairVars
  BY <1>1, <1>7 DEF pairVars
<1>. QED
  BY <1>5, <1>6, <1>7

LEMMA TogetherHolds == TogetherInv => PairMovesTogether
<1>. SUFFICES ASSUME TogetherInv, NEW u \in Updaters, Ended(u), ~updater[u].statusOnly
              PROVE  \/ \A i \in Places : AtNew(updater[u], projects, i)
                     \/ ~updater[u].ok /\ \A i \in Places : AtOld(updater[u], projects, i)
  BY PlacesAre DEF PairMovesTogether, AtNew, AtOld, SeenIn
<1>. QED
  BY DEF TogetherInv, Sound, EndedWhole, Ended

-------------------------------------------------------------------------------
(* SKY NET's audit chain: since a process read the tail nobody but others    *)
(* appended.                                                                  *)

AuditInv ==
  /\ IsSequence(jobAudit) /\ AuditForksByOthers /\ \A i \in DOMAIN jobAudit : jobAudit[i].after \in Nat
  /\ \A u \in Updaters : updater[u].pc = "append" =>
       updater[u].tail \in 0..Len(jobAudit) /\ \A k \in (updater[u].tail + 1)..Len(jobAudit) : jobAudit[k].by # u

LEMMA AuditStart == PairInit => AuditInv
<1>. SUFFICES ASSUME PairInit PROVE AuditInv
  OBVIOUS
<1>1. IdleUpdater.pc = "idle" /\ jobAudit = <<>> /\ <<>> \in Seq({})
  BY EmptySeq DEF IdleUpdater, PairInit
<1>2. IsSequence(jobAudit) /\ DOMAIN jobAudit = {}
  BY <1>1 DEF IsSequence
<1>. QED
  BY <1>1, <1>2 DEF PairInit, AuditInv, AuditForksByOthers

LEMMA AuditMoves ==
  ASSUME JobsInv, AuditInv, NEW u \in Updaters, NEW row, row.pc # "append", updater' = [updater EXCEPT ![u] = row],
         UNCHANGED jobAudit
  PROVE  AuditInv'
<1>1. updater'[u] = row /\ \A v \in Updaters : v # u => updater'[v] = updater[v]
  BY DEF JobsInv
<1>. QED
  BY <1>1 DEF AuditInv, AuditForksByOthers

LEMMA AuditAppends == ASSUME JobsInv, AuditInv, NEW u \in SkynetWorkers, AppendAudit(u) PROVE AuditInv'
<1>. DEFINE n == Len(jobAudit)
<1>1. PICK e : e = [by |-> u, after |-> updater[u].tail]
  OBVIOUS
<1>2. u \in Updaters /\ updater[u].pc = "append" /\ jobAudit' = Append(jobAudit, e)
      /\ updater' = [updater EXCEPT ![u] = IdleUpdater] /\ e.by = u /\ e.after = updater[u].tail
  BY <1>1 DEF AppendAudit, Updaters
<1>3. n \in Nat /\ DOMAIN jobAudit = 1..n
  <2>1. PICK S : jobAudit \in Seq(S)
    BY DEF AuditInv, IsSequence
  <2>. QED
    BY <2>1, LenProperties
<1>4. /\ IsSequence(jobAudit') /\ DOMAIN jobAudit' = (1..n) \union {n + 1}
      /\ jobAudit'[n + 1] = e /\ \A i \in 1..n : jobAudit'[i] = jobAudit[i]
  <2>1. IsSequence(jobAudit)
    BY DEF AuditInv
  <2>. QED
    BY <1>2, <1>3, <2>1, AppendedSequence
<1>5. Len(jobAudit') = n + 1
  <2>1. PICK S : jobAudit' \in Seq(S)
    BY <1>4 DEF IsSequence
  <2>2. Len(jobAudit') \in Nat /\ DOMAIN jobAudit' = 1..Len(jobAudit')
    BY <2>1, LenProperties
  <2>3. n + 1 \in 1..Len(jobAudit') /\ (Len(jobAudit') # 0 => Len(jobAudit') \in (1..n) \union {n + 1})
    BY <1>3, <1>4, <2>2
  <2>. HIDE DEF n
  <2>. QED
    <3>1. PICK m \in Nat : m = Len(jobAudit')
      BY <2>2
    <3>2. n + 1 <= m /\ (m # 0 => m \in (1..n) \union {n + 1})
      BY <2>3, <3>1
    <3>. QED
      BY <1>3, <3>1, <3>2
<1>6. /\ updater'[u].pc # "append" /\ \A v \in Updaters : v # u => updater'[v] = updater[v]
  BY <1>2 DEF JobsInv, IdleUpdater
<1>7. /\ \A v \in Updaters : updater[v].pc = "append" =>
           updater[v].tail \in 0..n /\ \A k \in (updater[v].tail + 1)..n : jobAudit[k].by # v
      /\ \A i \in 1..n : \A k \in (jobAudit[i].after + 1)..(i - 1) : jobAudit[k].by # jobAudit[i].by
      /\ \A i \in 1..n : jobAudit[i].after \in Nat
  BY <1>3 DEF AuditInv, AuditForksByOthers
<1>. HIDE DEF n
<1>8. ASSUME NEW v \in Updaters, updater'[v].pc = "append"
      PROVE  /\ updater'[v].tail \in 0..(n + 1)
             /\ \A k \in (updater'[v].tail + 1)..(n + 1) : jobAudit'[k].by # v
  <2>1. v # u /\ updater'[v] = updater[v]
    BY <1>6, <1>8
  <2>2. updater[v].tail \in 0..n /\ \A k \in (updater[v].tail + 1)..n : jobAudit[k].by # v
    BY <1>7, <1>8, <2>1
  <2>3. \A k \in (updater[v].tail + 1)..(n + 1) : (k \in 1..n /\ k \in (updater[v].tail + 1)..n) \/ k = n + 1
    BY <1>3, <2>2
  <2>. QED
    BY <1>2, <1>3, <1>4, <2>1, <2>2, <2>3
<1>9. ASSUME NEW i \in (1..n) \union {n + 1}
      PROVE  \A k \in (jobAudit'[i].after + 1)..(i - 1) : jobAudit'[k].by # jobAudit'[i].by
  <2>1. CASE i \in 1..n
    <3>. SUFFICES ASSUME NEW k \in (jobAudit[i].after + 1)..(i - 1) PROVE jobAudit'[k].by # jobAudit[i].by
      BY <1>4, <2>1
    <3>1. jobAudit[k].by # jobAudit[i].by
      BY <1>7, <2>1
    <3>2. jobAudit[i].after \in Nat
      BY <1>7, <2>1
    <3>3. k \in 1..n
      BY <1>3, <2>1, <3>2
    <3>. QED
      BY <1>4, <3>1, <3>3
  <2>2. CASE i = n + 1
    <3>1. updater[u].tail \in 0..n /\ \A k \in (updater[u].tail + 1)..n : jobAudit[k].by # u
      BY <1>2, <1>7
    <3>2. \A k \in (updater[u].tail + 1)..n : k \in 1..n
      BY <1>3, <3>1
    <3>3. i - 1 = n /\ jobAudit'[i] = e
      BY <1>3, <1>4, <2>2
    <3>. QED
      BY <1>2, <1>4, <3>1, <3>2, <3>3
  <2>. QED
    BY <2>1, <2>2
<1>10. AuditForksByOthers'
  BY <1>4, <1>9 DEF AuditForksByOthers
<1>11. e.after \in Nat
  BY <1>2, <1>3, <1>7
<1>12. \A i \in DOMAIN jobAudit' : jobAudit'[i].after \in Nat
  BY <1>4, <1>7, <1>11
<1>. QED
  BY <1>4, <1>5, <1>8, <1>10, <1>12 DEF AuditInv

LEMMA AuditStep == JobsInv /\ AuditInv /\ [SkynetNext \/ PairNext]_pairVars => AuditInv'
<1>. SUFFICES ASSUME JobsInv, AuditInv, [SkynetNext \/ PairNext]_pairVars PROVE AuditInv'
  OBVIOUS
<1>1. CASE UNCHANGED <<updater, jobAudit>>
  BY <1>1 DEF AuditInv, AuditForksByOthers
<1>2. CASE UNCHANGED pairVars \/ PairSurroundings
  BY <1>1, <1>2 DEF pairVars, PairSurroundings, RemoteAdvances, SomebodyFetches, SomebodyCommits, SomebodyEdits,
                    SomebodyTidies, Interferes
<1>3. ASSUME NEW u \in Updaters, Moves(u), UNCHANGED jobAudit PROVE AuditInv'
  BY <1>3, AuditMoves DEF Moves
<1>4. ASSUME NEW u \in Updaters, UpdateStep(u) PROVE AuditInv'
  <2>1. UNCHANGED jobAudit
    BY <1>4 DEF UpdateStep, InspectProject, FetchProject, FetchFails, Decide, NothingToMerge, MergeProject,
                MergeFails, ConfirmProject, LookBack, ResetProject, UpdaterDies
  <2>2. Moves(u)
    BY <1>4, PreflightMoves, PromotionMoves DEF UpdateStep
  <2>. QED
    BY <1>3, <2>1, <2>2
<1>5. ASSUME NEW j \in SkynetJobs, Submit(j) PROVE AuditInv'
  BY <1>1, <1>5 DEF Submit
<1>6. ASSUME NEW j \in SkynetJobs, NEW u \in SkynetWorkers, SelectJob(u, j) PROVE AuditInv'
  <2>. DEFINE row == [IdleUpdater EXCEPT !.pc = "selected", !.job = j]
  <2>1. row.pc # "append" /\ updater' = [updater EXCEPT ![u] = row] /\ UNCHANGED jobAudit /\ u \in Updaters
    BY <1>6 DEF SelectJob, IdleUpdater, Updaters
  <2>. HIDE DEF row
  <2>. QED
    BY <2>1, AuditMoves
<1>7. ASSUME NEW u \in SkynetWorkers, MarkRunning(u) \/ FinishJob(u) PROVE AuditInv'
  <2>. DEFINE here == updater[u]
  <2>1. u \in Updaters /\ HasFields(here, UpdaterFields) /\ DOMAIN updater = Updaters
    BY DEF JobsInv, Updaters
  <2>2. CASE FinishJob(u)
    <3>. DEFINE row == [here EXCEPT !.pc = "audit"]
    <3>1. row.pc # "append" /\ updater' = [updater EXCEPT ![u] = row] /\ UNCHANGED jobAudit
      BY <2>1, <2>2 DEF FinishJob, HasFields, UpdaterFields
    <3>. HIDE DEF row
    <3>. QED
      BY <2>1, <3>1, AuditMoves
  <2>3. CASE MarkRunning(u)
    <3>. DEFINE j == updater[u].job
    <3>1. PICK ok \in BOOLEAN :
            updater' = [updater EXCEPT ![u].ok = JobTask[j] = "project_update" \/ ok,
                                       ![u].pc = IF JobTask[j] = "project_update" THEN "inspect" ELSE "finish"]
      BY <2>3 DEF MarkRunning
    <3>. DEFINE row == [here EXCEPT !.ok = JobTask[j] = "project_update" \/ ok,
                                    !.pc = IF JobTask[j] = "project_update" THEN "inspect" ELSE "finish"]
    <3>2. row.pc # "append" /\ updater' = [updater EXCEPT ![u] = row]
      BY <2>1, <3>1 DEF HasFields, UpdaterFields
    <3>3. UNCHANGED jobAudit
      BY <2>3 DEF MarkRunning
    <3>. HIDE DEF row
    <3>. QED
      BY <2>1, <3>2, <3>3, AuditMoves
  <2>. QED
    BY <1>7, <2>2, <2>3
<1>8. ASSUME NEW u \in SkynetWorkers, ReadTail(u) PROVE AuditInv'
  <2>1. u \in Updaters /\ HasFields(updater[u], UpdaterFields) /\ DOMAIN updater = Updaters
    BY DEF JobsInv, Updaters
  <2>2. updater' = [updater EXCEPT ![u].pc = "append", ![u].tail = Len(jobAudit)] /\ UNCHANGED jobAudit
    BY <1>8 DEF ReadTail
  <2>3. /\ updater'[u].tail = Len(jobAudit) /\ \A v \in Updaters : v # u => updater'[v] = updater[v]
    BY <2>1, <2>2 DEF HasFields, UpdaterFields
  <2>4. Len(jobAudit) \in Nat
    BY LenProperties DEF AuditInv, IsSequence
  <2>5. PICK n \in Nat : n = Len(jobAudit) /\ n = Len(jobAudit')
    BY <2>2, <2>4
  <2>6. updater'[u].tail \in 0..n /\ (updater'[u].tail + 1)..n = {}
    BY <2>3, <2>5
  <2>7. \A v \in Updaters : updater'[v].pc = "append" =>
          updater'[v].tail \in 0..n /\ \A k \in (updater'[v].tail + 1)..n : jobAudit'[k].by # v
    BY <2>2, <2>3, <2>5, <2>6 DEF AuditInv
  <2>8. AuditForksByOthers'
    BY <2>2 DEF AuditInv, AuditForksByOthers
  <2>. QED
    BY <2>2, <2>5, <2>7, <2>8 DEF AuditInv
<1>9. ASSUME NEW u \in PairUpdaters,
             \/ BeginPair(u) \/ CopyFails(u) \/ CopyBack(u) \/ TakeManifest(u) \/ SealReceipt(u)
             \/ \E p, here :
                  \E next \in {"copy automation", "clear cybersecurity", "copy cybersecurity", "copy back"} :
                  ClearCopy(u, p, here, next) \/ CopyExport(u, p, here, next)
      PROVE  AuditInv'
  <2>1. UNCHANGED jobAudit
    BY <1>9 DEF BeginPair, CopyFails, CopyBack, TakeManifest, SealReceipt, ClearCopy, CopyExport
  <2>2. Moves(u) /\ u \in Updaters
    BY <1>9, ExportMoves DEF Updaters
  <2>. QED
    BY <1>3, <2>1, <2>2
<1>10. CASE SkynetNext
  BY <1>2, <1>4, <1>5, <1>6, <1>7, <1>8, <1>10, AuditAppends DEF SkynetNext, Updaters
<1>11. CASE PairNext
  BY <1>2, <1>4, <1>9, <1>11 DEF PairNext, Updaters
<1>. QED
  BY <1>2, <1>10, <1>11

-------------------------------------------------------------------------------
(* What nothing is lost of: the invariants together.                        *)

LEMMA KeepersFrame ==
  ASSUME [Next]_suiteVars
  PROVE  /\ [IntelligenceNext]_intelligenceVars /\ [CleanerNext]_cleanerVars
         /\ [GuardNext]_guardVars /\ [SkynetNext \/ PairNext]_pairVars
<1>1. IntelligenceRuns \/ UNCHANGED intelligenceVars
  BY DEF suiteVars, Next, queueSide, FleetRuns, VercelRuns, CallsRuns, MarksRuns, HermesRuns, ScriptsRun,
         CleanerRuns, OperatorRuns, GuardRuns, ManagerRuns, PairRuns
<1>2. CleanerRuns \/ UNCHANGED cleanerVars
  BY DEF suiteVars, Next, watcherVars, FleetRuns, IntelligenceRuns, VercelRuns, CallsRuns, MarksRuns,
         HermesRuns, ScriptsRun, OperatorRuns, GuardRuns, ManagerRuns, PairRuns
<1>3. GuardRuns \/ UNCHANGED guardVars
  BY DEF suiteVars, Next, watcherVars, FleetRuns, IntelligenceRuns, VercelRuns, CallsRuns, MarksRuns,
         HermesRuns, ScriptsRun, CleanerRuns, OperatorRuns, ManagerRuns, PairRuns
<1>4. PairRuns \/ UNCHANGED pairVars
  BY DEF suiteVars, Next, watcherVars, FleetRuns, IntelligenceRuns, VercelRuns, CallsRuns, MarksRuns,
         HermesRuns, ScriptsRun, CleanerRuns, OperatorRuns, GuardRuns, ManagerRuns
<1>. QED
  BY <1>1, <1>2, <1>3, <1>4 DEF IntelligenceRuns, IntelligenceNext, CleanerRuns, GuardRuns, PairRuns

KeptInv == FeedInv /\ CleanerInv /\ LinksInv /\ JobsInv /\ TogetherInv /\ AuditInv

LEMMA KeptHolds == Spec => []KeptInv
<1>1. Init => KeptInv
  BY FeedStart, CleanerStart, LinksStart, JobsStart, TogetherStart, AuditStart DEF Init, KeptInv
<1>2. KeptInv /\ [Next]_suiteVars => KeptInv'
  BY KeepersFrame, FeedStep, CleanerStepHolds, LinksStep, JobsStep, TogetherStep, AuditStep DEF KeptInv
<1>. QED
  BY <1>1, <1>2, PTL DEF Spec, suiteVars

\* Whatever overlaps, fails or dies, for any number of observers, items, devices,
\* projects and workers: a source's content was announced and given to the work
\* queue, and the feed forks no more often than observers overlap; what the
\* cleaner deletes is safe to delete, its bytes are in the archive on a device
\* nothing else happens on, and a disarmed cleaner is down; a link that is up is
\* tracked; projects nobody interferes with move together or stay; and the audit
\* chain of SKY NET forks by others only.
THEOREM NothingIsEverLost == Spec => []NothingIsLost
<1>1. LinksInv => LinksAreTracked
  BY DEF LinksInv
<1>2. CleanerInv => DeletedIsArchived /\ OnlySafeIsDeleted /\ DisarmedIsDown
  BY DEF CleanerInv, Undisturbed, DeletedIsArchived
<1>3. AuditInv => AuditForksByOthers
  BY DEF AuditInv
<1>4. KeptInv => NothingIsLost
  BY <1>1, <1>2, <1>3, FeedHolds, TogetherHolds DEF KeptInv, NothingIsLost, In
<1>. QED
  BY <1>4, KeptHolds, PTL
===============================================================================
