----------------------------- MODULE Protection -----------------------------
(***************************************************************************)
(* ProtectiveBoundaryEngine of src/src/amrte/risk/protection.py: for what  *)
(* an exit plan leaves, a boundary starts at the thesis's invalidation and *)
(* is advanced to break-even and by trailing; an observation that crosses  *)
(* it ends the exposure's protection.                                      *)
(*                                                                         *)
(* Prices are as in ExitManagement: the invalidation boundary is at -1.    *)
(* Evidence is given as the boundaries it leads to, or None.  Candidates   *)
(* of other instruments or plans are refused and change nothing.           *)
(***************************************************************************)
EXTENDS ExitManagement

CONSTANTS
  Profile,             \* see ProtectionProfile
  AtrBoundaries, StructureBoundaries,   \* what evidence leads to, or None
  MaxVersions,         \* maximum_versions
  MaxBoundaries,       \* maximum_ledger_entries
  MaxHanded            \* bound: protective states of a plan callers hold

VARIABLES
  protection,   \* ProtectiveBoundaryLedger, and the versions the engine knows
  handed,       \* the protective states callers hold, the last of them last
  strongest,    \* history: the boundary callers were last given, by plan
  triggered     \* history: plans whose boundary was hit

protectVars == <<protection, handed, strongest, triggered>>

TrailingMethod == {"ATR", "STRUCTURE", "R_BASED"}

ActivationMethod ==
  {"NORMALIZED_R", "TARGET_STAGE_COMPLETION", "RUNNER_ACTIVATED", "BREAK_EVEN_ACTIVATED", "EVIDENCE"}

HybridPolicy == {"MOST_PROTECTIVE_VALID", "LEAST_AGGRESSIVE_VALID", "CONSENSUS_REQUIRED"} \cup TrailingMethod

ProtectionProfile ==
  [breakEven : BOOLEAN, breakEvenOn : ActivationMethod, breakEvenAt : Int, offset : Int,
   trailing : BOOLEAN, trailingOn : ActivationMethod, trailingAt : Int,
   methods : SUBSET TrailingMethod, steps : SUBSET [activation : Int, locked : Int],
   minimum : Nat, cooldown : Nat, hybrid : HybridPolicy, touch : BOOLEAN]

\* The profile is one that validate accepts: the schedule locks ever more.
ValidProfile ==
  /\ Profile \in ProtectionProfile
  /\ \A s, t \in Profile.steps : s.activation < t.activation => s.locked <= t.locked
  /\ \A s, t \in Profile.steps : s.activation > 0 /\ (s.activation = t.activation => s = t)

ProtectionConfiguration == {MaxVersions, MaxBoundaries} \subseteq Nat \ {0}

ASSUME ProtectionAssumption ==
  /\ ValidProfile /\ ProtectionConfiguration
  /\ AtrBoundaries \cup StructureBoundaries \subseteq Int \cup {None}
  /\ MaxHanded \in Nat \ {0}

Original == -1

FreshProtection ==
  [versions |-> <<>>, events |-> <<>>, known |-> <<>>, states |-> [i \in DOMAIN reduced |-> None]]

\* ProtectiveBoundaryLedger._bound, and _bound of the versions the engine knows
ProtectionBound(l) ==
  LET excess == Greatest(0, Len(l.versions) + Len(l.events) - MaxBoundaries)
      events == Least(excess, Len(l.events))
  IN [l EXCEPT !.events = SubSeq(@, events + 1, Len(@)),
               !.versions = SubSeq(@, excess - events + 1, Len(@)),
               !.known = Evicted(@, MaxVersions)]

AddVersion(version, p, state) ==
  ProtectionBound([protection EXCEPT !.versions = Put(@, version), !.known = Put(@, version),
                                     !.states[p.id] = state])

\* The states a caller holds once it is given another.
Handed(states, state) ==
  LET same   == {i \in DOMAIN states : states[i] = state}
      others == IF same = {} THEN states ELSE RemoveAt(states, CHOOSE i \in same : TRUE)
  IN SubSeq(Append(others, state), Greatest(1, Len(others) + 2 - MaxHanded), Len(others) + 1)

\* initialize; a plan without exposure is blocked.
Initialize(p) ==
  LET exit    == StateOfPlan(p)
      version == [id |-> <<p.id, "ORIGINAL">>, parent |-> None, value |-> Original]
      state   == [version |-> version.id, boundary |-> Original, remaining |-> exit.remaining,
                  activated |-> FALSE, at |-> p.at, terminated |-> exit.remaining = 0]
  IN /\ exit # None
     /\ protection' = AddVersion(version, p, state)
     /\ handed' = [handed EXCEPT ![p.id] = Handed(@, state)]
     /\ strongest' = [strongest EXCEPT ![p.id] = Original]
     /\ triggered' = triggered \ {p.id}

(***************************************************************************)
(* Candidates.                                                             *)
(***************************************************************************)

\* _activation, with evidence that is qualified or is not.
Activated(method, threshold, p, current, o, qualified) ==
  CASE method = "NORMALIZED_R"            -> o.close >= threshold
    [] method = "TARGET_STAGE_COMPLETION" -> StateOfPlan(p).completed # {}
    [] method = "RUNNER_ACTIVATED"        -> StateOfPlan(p).runner
    [] method = "BREAK_EVEN_ACTIVATED"    -> current.activated
    [] OTHER                              -> qualified

\* The step with the greatest activation that the close has reached.
RSteps(o) ==
  LET eligible == {s \in Profile.steps : o.close >= s.activation}
  IN {s \in eligible : \A t \in eligible : t.activation <= s.activation}

\* evaluate and _trail_candidate
Candidates(p, current, o, qualified, atr, structure) ==
  LET trailing == /\ Profile.trailing
                  /\ Activated(Profile.trailingOn, Profile.trailingAt, p, current, o, qualified)
      Of(method, values) == {[method |-> method, value |-> v] : v \in values \ {None}}
      Trail(method, values) ==
        IF trailing /\ method \in Profile.methods THEN Of(method, values) ELSE {}
  IN (IF /\ Profile.breakEven /\ ~current.activated
         /\ Activated(Profile.breakEvenOn, Profile.breakEvenAt, p, current, o, qualified)
      THEN Of("BREAK_EVEN", {Profile.offset}) ELSE {})
     \cup Trail("ATR", {atr}) \cup Trail("STRUCTURE", {structure})
     \cup Trail("R_BASED", {s.locked : s \in RSteps(o)})

\* _hit_value
Crossed(o, boundary) == (IF Profile.touch THEN o.worst ELSE o.close) <= boundary

\* Mutant: a candidate need not improve on the boundary that holds.
ValidAnyway(candidates, current, o) == {c \in candidates : ~Crossed(o, c.value)}

\* Candidates that improve enough and that the bar itself does not cross, out of
\* the cooldown.
Valid(candidates, current, o) ==
  {c \in candidates : /\ c.value - current.boundary >= Profile.minimum
                      /\ c.value >= current.boundary
                      /\ ~Crossed(o, c.value)
                      /\ o.at >= current.at + Profile.cooldown}

\* _select; what it leaves open is decided on identities.
Select(valid) ==
  LET best   == {c \in valid : \A d \in valid : d.value <= c.value}
      least  == {c \in valid : \A d \in valid : c.value <= d.value}
      wanted == {c \in valid : c.method = Profile.hybrid}
  IN CASE Profile.hybrid = "LEAST_AGGRESSIVE_VALID" -> least
       [] Profile.hybrid \in TrailingMethod /\ wanted # {} -> wanted
       [] Profile.hybrid = "CONSENSUS_REQUIRED" /\ Cardinality(valid) < 2 -> {}
       [] OTHER -> best

\* evaluate, when a boundary is selected.  Otherwise the ledger is as it was and
\* callers are given a state with what the plan has left.
Advance(p, o, qualified, atr, structure) ==
  LET current == protection.states[p.id]
      exit    == StateOfPlan(p)
      hard    == current.terminated \/ exit.remaining = 0 \/ exit.remaining > current.remaining
      valid   == IF hard THEN {}
                 ELSE Valid(Candidates(p, current, o, qualified, atr, structure), current, o)
  IN /\ current # None
     /\ IF Select(valid) = {}
        THEN /\ handed' = [handed EXCEPT ![p.id] =
                             Handed(@, [current EXCEPT !.remaining = exit.remaining])]
             /\ UNCHANGED <<protection, strongest>>
        ELSE \E c \in Select(valid) :
               LET version == [id |-> <<current.version, c.method, c.value, o.at>>,
                               parent |-> current.version, value |-> c.value]
                   state   == [version |-> version.id, boundary |-> c.value,
                               remaining |-> exit.remaining, at |-> o.at, terminated |-> FALSE,
                               activated |-> current.activated \/ c.method = "BREAK_EVEN"]
               IN /\ Held(protection.known, current.version)
                  /\ protection' = AddVersion(version, p, state)
                  /\ handed' = [handed EXCEPT ![p.id] = Handed(@, state)]
                  /\ strongest' = [strongest EXCEPT ![p.id] = Greatest(@, c.value)]
     /\ UNCHANGED triggered

\* observe: the state is the one the caller passes, not the ledger's.
Trigger(p, state, o) ==
  LET new == [state EXCEPT !.remaining = 0, !.terminated = TRUE, !.activated = TRUE, !.at = o.at]
      event == [id |-> <<state.version, o.id, state.remaining>>]
  IN /\ ~state.terminated /\ state.remaining > 0 /\ Crossed(o, state.boundary)
     /\ protection' = ProtectionBound([protection EXCEPT !.events = PutNew(@, event),
                                                         !.states[p.id] = new])
     /\ handed' = [handed EXCEPT ![p.id] = Handed(@, new)]
     /\ triggered' = triggered \cup {p.id}
     /\ UNCHANGED strongest

\* recovery_state and restore in a new engine.  A state whose version the ledger
\* has dropped makes restore refuse all of it; callers then start anew.
Restorable == \A i \in DOMAIN protection.states :
  protection.states[i] # None =>
    LET state == protection.states[i]
    IN Held(protection.versions, state.version)
       /\ Entry(protection.versions, state.version).value = state.boundary

RestartProtection ==
  /\ handed' = [i \in DOMAIN handed |-> <<>>]
  /\ IF Restorable
     THEN protection' = [protection EXCEPT !.known = protection.versions]
          /\ UNCHANGED <<strongest, triggered>>
     ELSE protection' = FreshProtection /\ triggered' = {}
          /\ strongest' = [i \in DOMAIN strongest |-> Original]

ProtectInit ==
  /\ protection = FreshProtection /\ triggered = {}
  /\ handed = [i \in DOMAIN reduced |-> <<>>]
  /\ strongest = [i \in DOMAIN reduced |-> Original]

ProtectSteps(plans, observations) ==
  \/ \E p \in plans : Initialize(p)
  \/ \E p \in plans, o \in observations, q \in BOOLEAN,
        a \in AtrBoundaries, s \in StructureBoundaries : Advance(p, o, q, a, s)
  \/ \E p \in plans, o \in observations : \E i \in DOMAIN handed[p.id] :
       Trigger(p, handed[p.id][i], o)
  \/ RestartProtection

ProtectNext ==
  \/ ProtectSteps(Plans, ExitObservations) /\ UNCHANGED exitVars
  \/ ExitNext /\ UNCHANGED protectVars

ProtectSpec == ExitInit /\ ProtectInit /\ [][ProtectNext]_<<exitVars, protectVars>>

-----------------------------------------------------------------------------
(* Properties.                                                             *)

\* The engine's documentation: it "only creates more restrictive boundary
\* versions for the remaining fictional exposure".  Since a plan's protection
\* was started, while stages complete, bars are evaluated and callers pass states
\* that may be stale, the boundary in force is the strongest one given, and a
\* boundary that was hit stays hit and protects nothing.
OnlyTightens ==
  \A p \in Plans :
    LET state == protection.states[p.id]
    IN state # None =>
         /\ p.id \in triggered => state.terminated /\ state.remaining = 0
         /\ ~state.terminated => state.boundary = strongest[p.id]
         /\ state.boundary >= Original
=============================================================================
