---------------------------- MODULE MCLifecycle ----------------------------
(* A small instance of Lifecycle for TLC. *)
EXTENDS Lifecycle

CONSTANT h1

Evidenced(matching, upstream, workflow, quality, closed, available) ==
  [matching |-> matching, upstream |-> upstream, workflow |-> workflow,
   quality |-> quality, restricted |-> closed, available |-> available]

\* Complete evidence, evidence lacking quality and workflow, evidence that is not about
\* this request, and evidence from the future.
MCEvidence ==
  {Evidenced(TRUE, TRUE, TRUE, TRUE, FALSE, 0),
   Evidenced(TRUE, TRUE, FALSE, FALSE, FALSE, 1),
   Evidenced(FALSE, TRUE, TRUE, TRUE, FALSE, 0),
   Evidenced(TRUE, TRUE, TRUE, TRUE, FALSE, 2)}
=============================================================================
