-------------------------------- MODULE Sites --------------------------------
(***************************************************************************)
(* What the modules about sites share: the names a site can have.          *)
(***************************************************************************)
EXTENDS Naturals, FiniteSets

CONSTANT Domain  \* the domain names of sites

ASSUME DomainAssumption == Domain # {}
=============================================================================
