---------------------------- MODULE PortfolioRisk ----------------------------
(***************************************************************************)
(* PortfolioExposureRegistry of src/src/amrte/portfolio/risk.py: requests  *)
(* are assessed against the capacity that is left, what is admitted is     *)
(* reserved, a reservation is committed, released or expires, and an       *)
(* active record is reconciled with what has become of it.                 *)
(*                                                                         *)
(* Exposure and risk are whole numbers.  The directions, instruments,      *)
(* strategies, families, variants and factors a request belongs to are its *)
(* groups.  Callers pass the time it is, now.  The ledger of events and    *)
(* the audit are left out: nothing is decided on them.                     *)
(***************************************************************************)
EXTENDS Evidence, FiniteSets, FiniteSetsExt, Store

CONSTANTS
  Requests,          \* admission requests
  GroupLimit,        \* the maximum exposure of every group
  MaxRisk, MaxGross, \* maximum_research_risk, maximum_gross_exposure
  MaxConcurrent,     \* maximum_concurrent_hypotheses
  Reduce,            \* reduction_policy is REDUCE_TO_CAPACITY
  MinimumExposure,
  TTL,               \* reservation_ttl_seconds
  MaxRecords, MaxReservations,
  Remains,           \* what the exit and the protective state say remains, and a current risk
  MaxMade,           \* bound: reservations made
  MaxReconciled      \* bound: reconciliations

VARIABLES
  now,               \* the time callers pass
  registry,          \* the registry
  admitted,          \* the admissions callers hold
  made, reconciled   \* counts of reservations made and of reconciliations

portfolioVars == <<now, registry, admitted, made, reconciled>>

\* The identity of a record hashes the strategy's decision and what it is about.
PortfolioAdmissionRequest ==
  [id : Nat, record : Nat, decision : Nat, groups : SUBSET DOMAIN GroupLimit,
   exposure : Nat \ {0}, rate : Nat, mapped : BOOLEAN]

PortfolioConfiguration ==
  /\ \A g \in DOMAIN GroupLimit : GroupLimit[g] \in Nat
  /\ {MaxRisk, MaxGross, MinimumExposure} \subseteq Nat /\ Reduce \in BOOLEAN
  /\ {MaxConcurrent, TTL, MaxRecords, MaxReservations} \subseteq Nat \ {0}

ASSUME PortfolioAssumption ==
  /\ PortfolioConfiguration
  /\ Requests \subseteq PortfolioAdmissionRequest
  /\ \A r, s \in Requests : r.id = s.id => r = s
  /\ Remains \subseteq [exit : Nat, risk : Nat \cup {None}, protected : BOOLEAN]
  /\ {MaxMade, MaxReconciled} \subseteq Nat

ExposureStatus == {"ACTIVE", "PARTIALLY_REDUCED", "PROTECTED", "CLOSED"}

ReservationStatus == {"RESERVED", "COMMITTED", "RELEASED", "EXPIRED"}

(***************************************************************************)
(* What is taken.                                                          *)
(***************************************************************************)

\* snapshot: the latest version of every record, if it is active.
ActiveVersions(r) ==
  {r.versions[i] : i \in {k \in DOMAIN r.versions :
     /\ \A j \in DOMAIN r.versions : r.versions[j].id = r.versions[k].id => j <= k
     /\ r.versions[k].status # "CLOSED" /\ r.versions[k].remaining > 0}}

\* snapshot: the reservations that hold capacity.
Holds(reservation) == reservation.status = "RESERVED" /\ reservation.expires > now

Reserved(r) == {r.reservations[i] : i \in {k \in DOMAIN r.reservations : Holds(r.reservations[k])}}

Left(maximum, used) == IF used >= maximum THEN 0 ELSE maximum - used

Risk(taken) == SumOver([v \in taken |-> v.risk], taken)

Remaining(records) == SumOver([v \in records |-> v.remaining], records)

Exposure(reservations) == SumOver([v \in reservations |-> v.exposure], reservations)

\* available_risk_capacity and available_gross_capacity of a snapshot
RiskLeft(r) == Left(MaxRisk, Risk(ActiveVersions(r)) + Risk(Reserved(r)))

GrossLeft(r) == Left(MaxGross, Remaining(ActiveVersions(r)) + Exposure(Reserved(r)))

\* health of a snapshot: OVER_LIMIT
OverLimit(r) ==
  \/ Risk(ActiveVersions(r)) + Risk(Reserved(r)) > MaxRisk
  \/ Remaining(ActiveVersions(r)) + Exposure(Reserved(r)) > MaxGross

\* _group and _factors: what active records take of a group.  Reservations are
\* not counted.
GroupUsed(r, g) == Remaining({v \in ActiveVersions(r) : g \in v.request.groups})

\* _capacities, and the least of them: the risk that is left is one of them.
Allowed(r, request) ==
  Min({RiskLeft(r), GrossLeft(r)}
      \cup {Left(GroupLimit[g], GroupUsed(r, g)) : g \in request.groups})

\* The hard reasons of assess.
Blocked(r, request) ==
  \/ ~r.complete \/ OverLimit(r) \/ ~request.mapped
  \/ Cardinality(ActiveVersions(r)) + Cardinality(Reserved(r)) >= MaxConcurrent
  \/ \E i \in DOMAIN r.records :
       r.records[i].request.decision = request.decision /\ r.records[i].status # "CLOSED"

\* The exposure assess approves before it is reserved.
Approved(r, request) ==
  IF Blocked(r, request) THEN 0
  ELSE IF Allowed(r, request) >= request.exposure THEN request.exposure
  ELSE IF Reduce /\ Allowed(r, request) >= MinimumExposure THEN Allowed(r, request) ELSE 0

(***************************************************************************)
(* Operations.                                                             *)
(***************************************************************************)

\* _bound
Bound(r) ==
  [records |-> Evicted(r.records, MaxRecords), versions |-> Evicted(r.versions, 4 * MaxRecords),
   reservations |-> Evicted(r.reservations, MaxReservations), complete |-> r.complete]

\* _reserve: the open reservation of the request, whatever it has reserved.
Existing(r, request) ==
  {r.reservations[i] : i \in {k \in DOMAIN r.reservations :
     r.reservations[k].request = request /\ r.reservations[k].status = "RESERVED"}}

\* assess with _reserve, when something is admitted; a request that is blocked
\* changes nothing.
Admit(request) ==
  LET exposure == Approved(registry, request)
      risk     == exposure * request.rate
      open     == Existing(registry, request)
      new      == [id |-> made + 1, request |-> request, exposure |-> exposure, risk |-> risk,
                   status |-> "RESERVED", expires |-> now + TTL]
      taken    == IF open # {} THEN CHOOSE v \in open : \A w \in open : v.id <= w.id ELSE new
  IN /\ exposure > 0
     /\ open # {} \/ (risk <= RiskLeft(registry) /\ exposure <= GrossLeft(registry)
                      /\ made < MaxMade)
     /\ registry' = IF open # {} THEN registry
                    ELSE Bound([registry EXCEPT !.reservations = Append(registry.reservations, new)])
     /\ made' = IF open # {} THEN made ELSE made + 1
     /\ admitted' = admitted \cup {[request |-> request, reservation |-> taken.id,
                                    exposure |-> exposure, risk |-> risk]}
     /\ UNCHANGED <<now, reconciled>>

\* Mutant: a reservation that has expired is committed.
CommittableExpired(decision) ==
  /\ Held(registry.reservations, decision.reservation)
  /\ Entry(registry.reservations, decision.reservation).status = "RESERVED"

\* commit; a record that is there already is given back.
Committable(decision) ==
  /\ Held(registry.reservations, decision.reservation)
  /\ Holds(Entry(registry.reservations, decision.reservation))

Commit(decision) ==
  LET record == [id |-> decision.request.record, request |-> decision.request,
                 initial |-> decision.exposure, remaining |-> decision.exposure,
                 risk |-> decision.risk, status |-> "ACTIVE"]
      reservation == Entry(registry.reservations, decision.reservation)
  IN /\ ~Held(registry.records, record.id)
     /\ Committable(decision)
     /\ registry' = Bound(
          [records |-> Put(registry.records, record), versions |-> Append(registry.versions, record),
           reservations |-> Put(registry.reservations, [reservation EXCEPT !.status = "COMMITTED"]),
           complete |-> registry.complete])
     /\ UNCHANGED <<now, admitted, made, reconciled>>

\* release, and expire_reservations, which releases all that are due.
Release(id) ==
  /\ Held(registry.reservations, id)
  /\ Entry(registry.reservations, id).status = "RESERVED"
  /\ registry' = [registry EXCEPT !.reservations =
                    Put(registry.reservations,
                        [Entry(registry.reservations, id) EXCEPT !.status = "RELEASED"])]
  /\ UNCHANGED <<now, admitted, made, reconciled>>

ExpireReservations ==
  /\ LET all == registry.reservations
     IN registry' = [registry EXCEPT !.reservations =
                       [i \in DOMAIN all |->
                          IF all[i].status = "RESERVED" /\ ~Holds(all[i])
                          THEN [all[i] EXCEPT !.status = "EXPIRED"] ELSE all[i]]]
  /\ UNCHANGED <<now, admitted, made, reconciled>>

\* reconcile with what the exit state and the protective state say remains and
\* with a current risk, or none.
ReconciledStatus(item, remaining, protected) ==
  IF remaining = 0 THEN "CLOSED"
  ELSE IF protected THEN "PROTECTED"
  ELSE IF remaining < item.initial THEN "PARTIALLY_REDUCED" ELSE "ACTIVE"

Reconcile(id, exit, risk, protected) ==
  /\ Held(registry.records, id) /\ reconciled < MaxReconciled
  /\ LET item == Entry(registry.records, id)
         remaining == Least(item.remaining, exit)
         new == [id |-> item.id, request |-> item.request, initial |-> item.initial,
                 remaining |-> remaining,
                 risk |-> IF risk = None THEN item.risk ELSE Least(item.risk, risk),
                 status |-> ReconciledStatus(item, remaining, protected)]
     IN registry' = Bound(
          [records |-> Put(registry.records, new), versions |-> Append(registry.versions, new),
           reservations |-> registry.reservations, complete |-> registry.complete])
  /\ reconciled' = reconciled + 1
  /\ UNCHANGED <<now, admitted, made>>

\* detect_inconsistencies: from then on nothing is admitted.
DetectInconsistencies ==
  /\ registry' = [registry EXCEPT !.complete = FALSE]
  /\ UNCHANGED <<now, admitted, made, reconciled>>

\* recovery_state, and restore in a new registry, which keeps all of it: the
\* registry is the same, and callers hold no admissions of before.
RestartRegistry ==
  /\ admitted' = {}
  /\ UNCHANGED <<now, registry, made, reconciled>>

Pass ==
  /\ now < MaxTime /\ now' = now + 1
  /\ UNCHANGED <<registry, admitted, made, reconciled>>

PortfolioInit ==
  /\ now = 0 /\ admitted = {} /\ made = 0 /\ reconciled = 0
  /\ registry = [records |-> <<>>, versions |-> <<>>, reservations |-> <<>>, complete |-> TRUE]

PortfolioNext ==
  \/ \E r \in Requests : Admit(r)
  \/ \E d \in admitted : Commit(d)
  \/ \E n \in 1..MaxMade : Release(n)
  \/ ExpireReservations
  \/ \E r \in Requests, says \in Remains : Reconcile(r.record, says.exit, says.risk, says.protected)
  \/ DetectInconsistencies \/ RestartRegistry \/ Pass

PortfolioSpec == PortfolioInit /\ [][PortfolioNext]_portfolioVars

-----------------------------------------------------------------------------
(* Properties.                                                             *)

PortfolioTypeOK ==
  /\ \A i \in DOMAIN registry.records : registry.records[i].status \in ExposureStatus
  /\ \A i \in DOMAIN registry.reservations : registry.reservations[i].status \in ReservationStatus
  /\ Len(registry.records) <= MaxRecords

\* The records that are not closed.
Open == {registry.records[i] : i \in {k \in DOMAIN registry.records :
                                        registry.records[k].status # "CLOSED"}}

\* Docs/PROMPT_22_DELIVERY_REPORT.md: "reservations cannot double-spend
\* capacity".  However admissions, commits, expiries and reconciliations
\* interleave, open records and reservations that can still be committed keep
\* within the risk, the gross exposure and the number of hypotheses together.
CapacityHeld ==
  /\ PortfolioTypeOK
  /\ Remaining(Open) + Exposure(Reserved(registry)) <= MaxGross
  /\ Risk(Open) + Risk(Reserved(registry)) <= MaxRisk
  /\ Cardinality(Open) + Cardinality(Reserved(registry)) <= MaxConcurrent
=============================================================================
