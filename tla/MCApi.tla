-------------------------------- MODULE MCApi ---------------------------------
(* Api for TLC.                                                             *)
EXTENDS Api, TLC

CONSTANTS c1, c2

\* A route; as in MCTcpRoutes, no parameter has the name of a field.
R(name, seconds) ==
  [route |-> name, port |-> 1, ip |-> "i", service |-> None, ttl |-> seconds]

\* Both callers register "a"; one of them has a second route.
Batches == (c1 :> <<R("a", None), R("b", 1)>>) @@ (c2 :> <<R("a", 1)>>)

T(key, errs, scopes) == [key |-> key, errs |-> errs, scopes |-> scopes]

\* A deletion whose second route is invalid, with a token of a stranger's key: it
\* makes the server fetch UAA's key even when the cached one is up to date.  And a
\* list with a token issued in the future by the validator's clock, without scopes.
OtherRequests ==
  {[kind |-> "delete", tok |-> T(0, {}, {"routing.routes.write"}),
    batch |-> <<R("a", None), [R("b", None) EXCEPT !.port = 0]>>],
   [kind |-> "list", tok |-> T(1, {"issuedAt"}, None), batch |-> <<>>]}

=============================================================================
