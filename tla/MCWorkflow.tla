----------------------------- MODULE MCWorkflow -----------------------------
(* A small instance of Workflow for TLC. *)
EXTENDS Workflow

Ask(key, configured, authorized, requested, available, expires) ==
  [key |-> key, configured |-> configured, authorized |-> authorized,
   requested |-> requested, available |-> available, expires |-> expires]

CONSTANTS ka, kb

MCKey == {ka, kb}

\* Two requests of one key, one of another, and one that is refused.
MCRequests ==
  {Ask(ka, TRUE, 7, 7, 0, 1), Ask(ka, TRUE, 7, 7, 1, 2), Ask(kb, TRUE, 2, 2, 0, 2),
   Ask(kb, TRUE, 2, 4, 0, 2)}
=============================================================================
