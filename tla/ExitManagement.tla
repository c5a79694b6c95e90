--------------------------- MODULE ExitManagement ---------------------------
(***************************************************************************)
(* ResearchExitManagementEngine of                                         *)
(* src/src/amrte/risk/exit_management.py: a plan reduces a fictional       *)
(* exposure stage by stage, and at once when the thesis is invalidated,    *)
(* the regime changes or its time is over.                                 *)
(*                                                                         *)
(* Prices are distances from the reference in the direction of the plan,   *)
(* in units of the invalidation distance; exposure is in exposure steps.   *)
(* How targets are found is left out: a plan has the target of each of its *)
(* stages.                                                                 *)
(***************************************************************************)
EXTENDS Evidence, SequencesExt, Store

CONSTANTS
  Plans,                 \* plans callers make, see ResearchExitPlan
  ExitObservations,      \* what they observe, see ResearchObservation
  InvalidationFirst,     \* same_bar_policy is INVALIDATION_FIRST
  OneTargetOnly,         \* multi_target_policy is AMBIGUOUS
  MinimumResidual,       \* minimum_residual
  CloseRemainder,        \* residual_policy is CLOSE_REMAINDER
  MaxExitEntries,        \* maximum_ledger_entries
  MaxObserved            \* bound: observations of a plan since it was made

VARIABLES
  exits,    \* ResearchExitLedger
  reduced   \* history: the reductions callers were told of since a plan was made

exitVars == <<exits, reduced>>

TriggerPolicy == {"TOUCH", "CLOSE_AT_OR_BEYOND"}

RunnerPolicy == {"NO_RUNNER", "FIXED_REMAINDER"}

\* Fractions are in percent.
ExitStagePolicy == [target : Int, fraction : Percent, trigger : TriggerPolicy]

ResearchExitPlan ==
  [id : STRING, initial : Nat \ {0}, stages : Seq(ExitStagePolicy), runner : RunnerPolicy,
   runnerFraction : Percent, fullExit : BOOLEAN, bars : Nat, at : Time]

\* The best and the worst price of the bar, as the plan's direction has it.
ResearchObservation ==
  [id : Nat, touch : Int, close : Int, worst : Int, bar : Nat, at : Time]

\* The policy of a plan is one that validate accepts.
ExitPolicy(p) ==
  LET total == FoldLeft(LAMBDA n, s : n + s.fraction, p.runnerFraction, p.stages)
  IN IF p.runner = "NO_RUNNER" THEN p.runnerFraction = 0 /\ total <= 100 ELSE total = 100

ExitManagementConfiguration ==
  /\ {InvalidationFirst, OneTargetOnly, CloseRemainder} \subseteq BOOLEAN
  /\ MinimumResidual \in Nat /\ MaxExitEntries \in Nat \ {0}

ASSUME ExitAssumption ==
  /\ Plans \subseteq ResearchExitPlan /\ \A p \in Plans : ExitPolicy(p)
  /\ \A p, q \in Plans : p.id = q.id => p = q   \* the identity is that of the content
  /\ ExitObservations \subseteq ResearchObservation
  /\ \A o \in ExitObservations : o.worst <= o.close /\ o.close <= o.touch
  /\ ExitManagementConfiguration /\ MaxObserved \in Nat

ExitReason == {"TARGET", "TIME", "REGIME_CHANGE", "THESIS_INVALIDATED", "UNKNOWN"}

\* ResearchExitLedger._bound: events go first, then completions, then plans.
ExitBound(l) ==
  LET excess == Len(l.plans) + Len(l.events) + Len(l.completions) - MaxExitEntries
      events == Greatest(0, Least(excess, Len(l.events)))
      done   == Greatest(0, Least(excess - events, Len(l.completions)))
      Drop(s, n) == SubSeq(s, n + 1, Len(s))
  IN [plans |-> Drop(l.plans, Greatest(0, excess - events - done)),
      events |-> Drop(l.events, events), completions |-> Drop(l.completions, done),
      states |-> l.states]

StateOfPlan(p) == exits.states[p.id]

\* create_plan: made again, a plan has all of its exposure again.
CreatePlan(p) ==
  /\ exits' = ExitBound(
       [plans |-> Put(exits.plans, p), events |-> exits.events, completions |-> exits.completions,
        states |-> [exits.states EXCEPT ![p.id] =
                      [remaining |-> p.initial, completed |-> {},
                       active |-> DOMAIN p.stages, runner |-> FALSE]]])
  /\ reduced' = [reduced EXCEPT ![p.id] = <<>>]

\* _event; the identity is that of the content, so one made before is not added.
ExitEvent(p, stage, reason, o, before, cut) ==
  [id |-> <<p.id, stage, reason, o.id, before, cut>>, plan |-> p.id, stage |-> stage,
   reason |-> reason, before |-> before, cut |-> cut]

StoreEvent(l, p, e, state) ==
  ExitBound([plans |-> l.plans, events |-> PutNew(l.events, e), completions |-> l.completions,
             states |-> [l.states EXCEPT ![p.id] = state]])

\* _completion: what is left of the plan's events identifies it.
Completed(l, p, reason) ==
  LET events == SelectSeq(l.events, LAMBDA e : e.plan = p.id)
      ids    == [i \in DOMAIN events |-> events[i].id]
  IN ExitBound([l EXCEPT !.completions = Put(l.completions, [id |-> <<p.id, ids, reason>>])])

\* _terminal
Terminal(p, o, reason) ==
  LET state == StateOfPlan(p)
      e     == ExitEvent(p, 0, reason, o, state.remaining, state.remaining)
      new   == [remaining |-> 0, completed |-> state.completed, active |-> {}, runner |-> FALSE]
  IN /\ exits' = Completed(StoreEvent(exits, p, e, new), p, reason)
     /\ reduced' = [reduced EXCEPT ![p.id] = Append(reduced[p.id], e)]

\* _hit
Hit(s, o) == (IF s.trigger = "TOUCH" THEN o.touch ELSE o.close) >= s.target

Hits(p, o) ==
  {k \in StateOfPlan(p).active \ StateOfPlan(p).completed : Hit(p.stages[k], o)}

\* Mutant: stages are completed whether or not those before are.
InOrderAnyway(p, hits, completed) == hits

\* The stages observe completes: those until one before is not completed.
InOrder(p, hits, completed) == {k \in hits : \A j \in 1..(k - 1) : j \in hits \cup completed}

\* A floor of the fraction of the initial exposure; a small residual is closed.
Cut(p, k, before) ==
  LET asked == Least(before, (p.initial * p.stages[k].fraction) \div 100)
  IN IF CloseRemainder /\ before - asked < MinimumResidual THEN before ELSE asked

\* A stage is completed: the ledger, the state and the events after it.
Complete(p, o, k, done) ==
  LET s      == done.state
      cut    == Cut(p, k, s.remaining)
      e      == ExitEvent(p, k, "TARGET", o, s.remaining, cut)
      active == s.active \ {k}
      new    == [remaining |-> s.remaining - cut, completed |-> s.completed \cup {k},
                 active |-> active,
                 runner |-> s.remaining > cut /\ active = {} /\ p.runner # "NO_RUNNER"]
  IN [ledger |-> StoreEvent(done.ledger, p, e, new), state |-> new, events |-> Append(done.events, e)]

\* The stages after one another, in the order of their index, until nothing remains.
Targets(p, o, stages) ==
  LET After[k \in 0..Len(p.stages)] ==
        IF k = 0 THEN [ledger |-> exits, state |-> StateOfPlan(p), events |-> <<>>]
        ELSE IF k \in stages /\ After[k - 1].state.remaining > 0
             THEN Complete(p, o, k, After[k - 1]) ELSE After[k - 1]
  IN After[Len(p.stages)]

\* observe.  An invalidation is one that is confirmed: of the SAME bar, or of
\* ANOTHER.  The order within the bar may be known to have the target first.
Observe(p, o, invalidation, targetFirst, regimeChanged) ==
  LET state     == StateOfPlan(p)
      hits      == Hits(p, o)
      ambiguous == hits # {} /\ invalidation = "SAME"
      done      == Targets(p, o, InOrder(p, hits, state.completed))
      unclear   == ExitEvent(p, 0, "UNKNOWN", o, state.remaining, 0)
  IN /\ state # None /\ state.remaining > 0 /\ o.at >= p.at
     /\ Len(reduced[p.id]) < MaxObserved
     /\ IF ambiguous /\ ~InvalidationFirst /\ targetFirst = None
        THEN exits' = StoreEvent(exits, p, unclear, state) /\ UNCHANGED reduced
        ELSE IF /\ invalidation # None
                /\ ~ambiguous \/ InvalidationFirst \/ targetFirst # TRUE
        THEN Terminal(p, o, "THESIS_INVALIDATED")
        ELSE IF regimeChanged /\ p.fullExit THEN Terminal(p, o, "REGIME_CHANGE")
        ELSE IF p.bars > 0 /\ o.bar >= p.bars THEN Terminal(p, o, "TIME")
        ELSE /\ ~(OneTargetOnly /\ Cardinality(hits) > 1)
             /\ exits' = IF done.events # <<>> /\ done.state.remaining = 0
                         THEN Completed(done.ledger, p, "TARGET") ELSE done.ledger
             /\ reduced' = [reduced EXCEPT ![p.id] = reduced[p.id] \o done.events]

ExitInit ==
  /\ exits = [plans |-> <<>>, events |-> <<>>, completions |-> <<>>,
              states |-> [i \in {p.id : p \in Plans} |-> None]]
  /\ reduced = [i \in {p.id : p \in Plans} |-> <<>>]

\* recovery_state and restore in a new engine keep all of the ledger.
ExitSteps(plans, observations) ==
  \/ \E p \in plans : CreatePlan(p)
  \/ \E p \in plans, o \in observations, i \in {None, "SAME", "ANOTHER"},
        first \in {None} \cup BOOLEAN, r \in BOOLEAN : Observe(p, o, i, first, r)

ExitNext == ExitSteps(Plans, ExitObservations)

ExitSpec == ExitInit /\ [][ExitNext]_exitVars

-----------------------------------------------------------------------------
(* Properties.                                                             *)

ExitTypeOK ==
  /\ Len(exits.plans) + Len(exits.events) + Len(exits.completions) <= MaxExitEntries
  /\ \A i \in DOMAIN exits.events : exits.events[i].reason \in ExitReason /\ exits.events[i].cut \in Nat

\* Docs/EXIT_MANAGEMENT_RESEARCH.md: "0 <= exposure_after <= exposure_before and
\* total_reduced <= initial_exposure", "Multi-stage crossings process in stage
\* order", "A runner is only the remaining exposure after completed stages".
\* Since a plan was made, and in whatever order bars are observed, what is left
\* is the initial exposure less all reductions, every reduction was counted from
\* what the one before had left, stages were completed in their order, each
\* once, only the runner and stages to come own what is left, and a terminal exit
\* is the last.
ExposureAccounted ==
  ExitTypeOK /\ \A p \in Plans :
    LET s == StateOfPlan(p)
        told == reduced[p.id]
        Left[n \in 0..Len(told)] == IF n = 0 THEN p.initial ELSE Left[n - 1] - told[n].cut
    IN s # None =>
         /\ s.remaining = Left[Len(told)] /\ s.remaining >= 0
         /\ \A n \in DOMAIN told : told[n].before = Left[n - 1]
         /\ \A n \in DOMAIN told : told[n].stage # 0 => told[n].stage = n
         /\ \A n \in DOMAIN told : told[n].stage = 0 => n = Len(told) /\ s.remaining = 0
         /\ s.runner => s.remaining > 0 /\ s.completed = DOMAIN p.stages
         /\ s.remaining > 0 => s.active = DOMAIN p.stages \ s.completed
=============================================================================
