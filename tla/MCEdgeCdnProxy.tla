--------------------------- MODULE MCEdgeCdnProxy ---------------------------
(* Small instances of EdgeCdnProxy, its inductive invariant and the claims   *)
(* of its documentation for TLC.                                             *)
EXTENDS EdgeCdnProxyInv, EdgeCdnProxyClaims, TLC

CONSTANTS example, Example  \* one host name in two spellings

MCLower == [h \in Spellings |-> IF h = Example THEN example ELSE h]
\* Every kind of Host header, in every combination with X-Forwarded-Proto and
\* the two listeners.
At(name, port) == [name |-> name, port |-> port, slash |-> FALSE]
MCHosts ==
  {At(example, p) : p \in {None, Unreadable, DEFAULT_PORT_HTTP, DEFAULT_PORT_HTTPS, listen_http}}
  \cup {At(LOCALHOST, p) : p \in {None, listen_http, listen_https}}
  \cup {At(Example, None), [At(LOCALHOST, listen_http) EXCEPT !.slash = TRUE]}
  \cup {None, Malformed}
MCRequests == {q \in Request : q.host \in MCHosts}

\* No cache-control header, one, two of which the second says no-store.
MCCacheControl == {<<>>, <<"no-store">>, <<"other", "no-store">>}

Symmetry == Permutations(Sessions)

=============================================================================
