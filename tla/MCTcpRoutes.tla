----------------------------- MODULE MCTcpRoutes ------------------------------
(* TcpRoutes for TLC.                                                       *)
EXTENDS TcpRoutes, TLC

CONSTANTS c1, c2, g1

\* Mappings of one external port and hostname to backends that differ in ip.
\* (No parameter has the name of a field: TLC orders the fields of a record by
\* the first occurrence of their names, and its workers share these records.
\* Written in that order, they are never sorted while another worker reads
\* them.)
M(backend, frontendTls, seconds) ==
  [group |-> g1, port |-> 1, sni |-> "s", ip |-> backend, hostPort |-> 1,
   tlsPort |-> 1, mtls |-> FALSE, tls |-> frontendTls, alpns |-> frontendTls,
   iso |-> IF backend = "a" THEN "i" ELSE "j", ttl |-> seconds]

\* A router that serves both segments.
OneReader == {{"i", "j"}}

\* Two clients that disagree on the frontend TLS of backend "a".  One registers
\* another backend in the same batch, the other leaves the TTL out.
SharedUpserts ==
  (c1 :> {<<M("a", TRUE, None)>>})
    @@ (c2 :> {<<M("b", FALSE, 2), M("a", FALSE, 1)>>})

SharedDeletes == (c1 :> {<<M("a", TRUE, None)>>}) @@ (c2 :> {})

=============================================================================
