------------------------- MODULE MCResearchRuntime -------------------------
(* A small instance of ResearchRuntime for TLC. *)
EXTENDS ResearchRuntime

CONSTANTS k1, k2

MCConfig == {k1, k2}
MCDeployed == {k1}

\* A checkpoint an earlier tool left: of another configuration, unclean,
\* protected, or with a payload the gate rejects.
Seed(system, event, keys, objects, clean, origin, hash) ==
  [seq |-> 1, prev |-> None, config |-> hash,
   payload |-> [system |-> system, event |-> event, keys |-> keys, objects |-> objects],
   meta |-> [epoch |-> 1, clean |-> clean, origin |-> origin]]

MCSeeds ==
  {Seed("READY", "COMMITTED", "unique", "owned", TRUE, "this", k2),
   Seed("READY", "IN_PROGRESS", "unique", "owned", FALSE, "this", k1),
   Seed("PROTECT", "COMMITTED", "unique", "owned", TRUE, "this", k1),
   Seed("READY", "COMMITTED", "repeated", "owned", TRUE, "this", k1),
   Seed("READY", "COMMITTED", "unique", "orphaned", TRUE, "this", k1)}

MCMeta == [epoch : 0..2, clean : BOOLEAN, origin : {"this", "other"}]
=============================================================================
