------------------------------- MODULE MCDacRing -------------------------------
(* Small instances of DacRing for TLC.                                     *)
EXTENDS DacRing

\* Both handlers: the C one returns, the assembly one does not.
BothHandlers == {"main", "lost"}
\* The handler the vector table branches to.
AsmHandler == {"lost"}
================================================================================
