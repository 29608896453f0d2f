----------------------------- MODULE MCMigration ------------------------------
(* Migration for TLC.                                                       *)
EXTENDS Migration, TLC

CONSTANTS old, new

\* A process of the release that ended with V7 and one of this release.
RollingUpgrade == (old :> 7) @@ (new :> 11)

\* No release with migrations, and those that ended with V0, V5 and V7.
OlderReleases == {-1, 0, 5, 7}

\* A mapping without a TLS port, and one that terminates frontend TLS.
TwoMappings ==
  {[sni |-> "s", tls |-> 0, fe |-> fe, mtls |-> FALSE] : fe \in BOOLEAN}

=============================================================================
