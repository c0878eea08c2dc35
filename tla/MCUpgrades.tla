----------------------------- MODULE MCUpgrades -----------------------------
(* A release before the circuit module, and one with all stores but without *)
(* the later handlers.                                                      *)
EXTENDS Upgrades

MCReleases ==
    {[handlers |-> {"v7", "v7.1"}, stores |-> Stores \ {"circuit"}],
     [handlers |-> {"v7"}, stores |-> Stores]}
=============================================================================
