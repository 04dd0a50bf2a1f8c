---------------------------- MODULE RadioQueueMC ----------------------------
(* RadioQueue on small instances.  The remotes are interchangeable: they    *)
(* are only compared for equality.                                          *)
EXTENDS RadioQueue, TLC

CONSTANTS r1, r2, none

RemoteSym == Permutations(Remotes)

=============================================================================
