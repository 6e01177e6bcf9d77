-------------------------- MODULE EdgeCdnProxyClaims --------------------------
(* What the documentation and the comments say of the proxy and the code     *)
(* does not do.  Each is refuted by a run of its own.                        *)
EXTENDS EdgeCdnProxy

\* docs/README.md:248, "The first request for a resource will always return `None`
\* because we have not yet obtained this object": a hit was fetched from the
\* resource that the request names.
FirstIsNone ==
  \A s \in Sessions : FromStore(s) =>
    \E o \in Sessions \ {s} :
      pc[o] \in {"admit", "respond", "done"} /\ peer[o] # None
      /\ req[o].path = req[s].path /\ SameOrigin(peer[o], PeerOf(req[s]))

\* docs/README.md:297, "Sets the HTTP header `X-CDN-Cache` to `MISS` or `HIT` depending
\* on whether the object was served from the cache".
LabelTellsSource == \A s \in Sessions : Done(s) => (resp[s].label = "HIT" <=> FromStore(s))

=============================================================================
