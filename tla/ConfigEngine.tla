---------------------------- MODULE ConfigEngine ----------------------------
(***************************************************************************)
(* MasterConfigurationEngine and MasterConfigurationProvider of            *)
(* src/src/amrte/core/config_engine.py over a schema like that of          *)
(* config_schema.py.  A value is a number, a boolean 0 or 1; a number of a *)
(* text or a list stands for one that the settings tell apart.  A snapshot *)
(* carries, as history, the layers it was built from.                      *)
(***************************************************************************)
EXTENDS Integers, Sequences, FiniteSets, SequencesExt

CONSTANTS
  Schema,      \* settings: [policy, switch, default, minimum, maximum, replaced]
  StrictKey,   \* general.strict_validation
  AtMost,      \* pairs of settings, the first at most the second
  Malformed,   \* the texts and lists of a wrong form, as pairs of setting and value
  Profiles,    \* PROFILE_DELTAS: the layers of the profiles
  Layers,      \* the layers callers pass: settings and unknown keys to values
  Again,       \* bound: another candidate is built after the first
  NoSnapshot   \* Python's None

VARIABLES
  candidate,   \* the snapshot the caller built last
  active,      \* the active snapshot
  lastValid    \* the last valid snapshot

configVars == <<candidate, active, lastValid>>

OverridePolicy == {"DENY", "ALLOW", "RESTRICT_ONLY"}

ConfigurationSource ==
  {"HARD_CONSTRAINT", "GLOBAL_DEFAULT", "PROFILE", "STRATEGY_OVERRIDE",
   "INSTRUMENT_OVERRIDE", "RUNTIME_RESTRICTION"}

ASSUME ConfigAssumption ==
  /\ \A k \in DOMAIN Schema :
       /\ Schema[k].policy \in OverridePolicy
       /\ {Schema[k].switch, Schema[k].replaced} \subseteq BOOLEAN
       /\ {Schema[k].minimum, Schema[k].maximum} \subseteq Int
       /\ Schema[k].default \in Schema[k].minimum..Schema[k].maximum
       /\ Schema[k].switch => Schema[k].minimum = 0 /\ Schema[k].maximum = 1
       /\ Schema[k].policy = "DENY" => ~Schema[k].replaced
  /\ Again \in BOOLEAN
  /\ StrictKey \in DOMAIN Schema /\ Schema[StrictKey].policy = "RESTRICT_ONLY"
  /\ Schema[StrictKey].switch /\ Schema[StrictKey].default = 1 /\ ~Schema[StrictKey].replaced
  /\ \A pair \in AtMost :
       /\ {pair[1], pair[2]} \subseteq {k \in DOMAIN Schema : ~Schema[k].replaced}
       /\ Schema[pair[1]].default <= Schema[pair[2]].default
  /\ \A k \in DOMAIN Schema : <<k, Schema[k].default>> \notin Malformed

SchemaCompatibility ==
  {"CURRENT", "COMPATIBLE", "MIGRATION_REQUIRED", "INCOMPATIBLE", "CORRUPTED"}

\* HARD_SAFETY_VALUES
HardSafety == {k \in DOMAIN Schema : Schema[k].policy = "DENY"}

(***************************************************************************)
(* Resolving the layers.                                                   *)
(***************************************************************************)

\* Mutant: a layer may turn off a switch that it may only restrict.
WeakensDenied(key, value) ==
  Schema[key].policy = "DENY" /\ value # Schema[key].default

\* A layer's value that _merge refuses.  Only switches that are on by default
\* are kept from being weakened.
Weakens(key, value) ==
  \/ Schema[key].policy = "DENY" /\ value # Schema[key].default
  \/ /\ Schema[key].policy = "RESTRICT_ONLY"
     /\ Schema[key].switch /\ Schema[key].default = 1 /\ value = 0

\* The values before the layers: the defaults of what is not replaced.
Defaults ==
  LET keys == {k \in DOMAIN Schema : ~Schema[k].replaced}
  IN [values |-> [k \in keys |-> Schema[k].default],
      provenance |-> [k \in keys |-> "GLOBAL_DEFAULT"],
      overridden |-> [k \in keys |-> <<>>], refused |-> FALSE]

\* A dict with the entries of another laid over its own.
Over(new, old) ==
  [k \in DOMAIN new \cup DOMAIN old |-> IF k \in DOMAIN new THEN new[k] ELSE old[k]]

\* _merge of one layer.
Merged(resolved, settings, source) ==
  LET known == DOMAIN settings \cap DOMAIN Schema
  IN IF resolved.refused \/ \E k \in known : Weakens(k, settings[k])
     THEN [resolved EXCEPT !.refused = TRUE]
     ELSE [values     |-> Over(settings, resolved.values),
           provenance |-> Over([k \in DOMAIN settings |-> source], resolved.provenance),
           overridden |-> Over([k \in known \cap DOMAIN resolved.provenance |->
                                  Append(IF k \in DOMAIN resolved.overridden
                                         THEN resolved.overridden[k] ELSE <<>>,
                                         resolved.provenance[k])],
                               resolved.overridden),
           refused    |-> FALSE]

\* The sources of the layers of a call: the profile, the custom values and the
\* overrides, in their order.
Sources ==
  <<"PROFILE", "PROFILE", "STRATEGY_OVERRIDE", "INSTRUMENT_OVERRIDE", "RUNTIME_RESTRICTION">>

Resolved(layers) ==
  LET Next(resolved, n) == Merged(resolved, layers[n], Sources[n])
  IN Next(Next(Next(Next(Next(Defaults, 1), 2), 3), 4), 5)

(***************************************************************************)
(* ConfigurationValidator.                                                 *)
(***************************************************************************)

\* _cross_validate: the settings out of order with another, the texts and lists
\* of a form that their type and bounds let pass, and the changed hard settings.
CrossErrors(values) ==
  {pair[1] : pair \in {p \in AtMost : values[p[1]] > values[p[2]]}}
  \cup {k \in DOMAIN values : <<k, values[k]>> \in Malformed}
  \cup {k \in HardSafety : values[k] # Schema[k].default}

\* validate and _validate_field: the settings with an error.
Errors(values) ==
  {k \in DOMAIN values \ DOMAIN Schema : values[StrictKey] = 1}
  \cup {k \in DOMAIN Schema \ DOMAIN values : ~Schema[k].replaced}
  \cup {k \in DOMAIN values \cap DOMAIN Schema :
          values[k] \notin Schema[k].minimum..Schema[k].maximum}

\* validate: the settings with a warning.
Warnings(values) ==
  {k \in DOMAIN values \ DOMAIN Schema : values[StrictKey] # 1}
  \cup {k \in DOMAIN values \cap DOMAIN Schema : Schema[k].replaced}

Status(values) ==
  IF Errors(values) \cup CrossErrors(values) # {} THEN "INVALID"
  ELSE IF Warnings(values) # {} THEN "VALID_WITH_WARNINGS" ELSE "VALID"

(***************************************************************************)
(* Candidates and activation.                                              *)
(***************************************************************************)

\* build_candidate: a snapshot, or none when it fails.
Built(profile, layers, compatibility) ==
  LET resolved == Resolved(layers)
  IN IF \/ compatibility \notin {"CURRENT", "COMPATIBLE"} \/ resolved.refused
        \/ Status(resolved.values) = "INVALID"
     THEN NoSnapshot
     ELSE [values     |-> resolved.values,
           provenance |-> Over([k \in HardSafety |-> "HARD_CONSTRAINT"], resolved.provenance),
           overridden |-> resolved.overridden,
           profile    |-> profile,
           status     |-> Status(resolved.values),
           layers     |-> layers]

BuildCandidate(profile, layers, compatibility) ==
  LET built == Built(profile, layers, compatibility)
  IN /\ (candidate = NoSnapshot /\ active = NoSnapshot) \/ Again
     /\ built # NoSnapshot
     /\ candidate' = built
     /\ UNCHANGED <<active, lastValid>>

\* activate, at a safe boundary; elsewhere it fails.
Activate ==
  /\ candidate # NoSnapshot
  /\ active' = candidate /\ lastValid' = candidate
  /\ UNCHANGED candidate

\* switch_profile at a safe boundary, and MasterConfigurationProvider.load: a
\* candidate that cannot be built leaves the active snapshot.
SwitchProfile(profile, custom) ==
  LET built == Built(profile, <<Profiles[profile], custom, <<>>, <<>>, <<>>>>, "CURRENT")
  IN /\ built # NoSnapshot
     /\ active' = built /\ lastValid' = built
     /\ UNCHANGED candidate

ConfigInit == candidate = NoSnapshot /\ active = NoSnapshot /\ lastValid = NoSnapshot

ConfigNext ==
  \/ \E p \in DOMAIN Profiles, c, s, i, r \in Layers, compatibility \in SchemaCompatibility :
       BuildCandidate(p, <<Profiles[p], c, s, i, r>>, compatibility)
  \/ Activate
  \/ \E p \in DOMAIN Profiles, c \in Layers : SwitchProfile(p, c)

ConfigSpec == ConfigInit /\ [][ConfigNext]_configVars

-----------------------------------------------------------------------------
(* Properties.                                                             *)

\* The layers of a snapshot that set a key.
Setting(snapshot, key) ==
  {n \in DOMAIN snapshot.layers : key \in DOMAIN snapshot.layers[n]}

\* Provenance names sources that exist.
Sourced(s) == \A k \in DOMAIN s.provenance : s.provenance[k] \in ConfigurationSource

\* build_candidate, whatever the layers: the value of a setting is that of the
\* last layer that has it, hard settings excepted the provenance names that
\* layer and the overridden sources are those before it; a hard setting and a
\* switch that may only be restricted are as safe as their default; and what the
\* layers say together is within bounds and consistent, although no layer is.
SnapshotSound(s) ==
  /\ Sourced(s)
  /\ \A k \in DOMAIN s.values :
       LET set == Setting(s, k)
       IN /\ s.values[k] = IF set = {} THEN Schema[k].default
                           ELSE s.layers[Max(set)][k]
          /\ k \notin HardSafety =>
               s.provenance[k] = IF set = {} THEN "GLOBAL_DEFAULT"
                                 ELSE Sources[Max(set)]
          /\ ~Schema[k].replaced => Len(s.overridden[k]) = Cardinality(set)
  /\ \A k \in HardSafety : s.values[k] = Schema[k].default
  /\ \A k \in DOMAIN s.values :
       /\ s.values[k] \in Schema[k].minimum..Schema[k].maximum
       /\ Schema[k].policy = "RESTRICT_ONLY" /\ Schema[k].switch =>
            s.values[k] >= Schema[k].default
  /\ \A pair \in AtMost : s.values[pair[1]] <= s.values[pair[2]]
  /\ DOMAIN s.values = {k \in DOMAIN Schema : ~Schema[k].replaced \/ Setting(s, k) # {}}
  /\ \A k \in DOMAIN s.values : <<k, s.values[k]>> \notin Malformed

\* The snapshots built, active and kept as the last valid are sound.
LayeredAndSafe == \A s \in {candidate, active, lastValid} \ {NoSnapshot} : SnapshotSound(s)
=============================================================================
