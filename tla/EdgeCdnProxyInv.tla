--------------------------- MODULE EdgeCdnProxyInv ---------------------------
(* The inductive invariant behind HitFromOwnOrigin and LabelRight of         *)
(* EdgeCdnProxy.                                                             *)
EXTENDS EdgeCdnProxy

\* What a session knows follows from where it is.
Known ==
  \A s \in Sessions :
    /\ pc[s] # "idle" => req[s] # None
    /\ pc[s] \in {"lookup", "admit", "merge"} => Parses(req[s].host) /\ key[s] = KeyOf(req[s])
    /\ pc[s] = "fetch" => Parses(req[s].host)
    /\ pc[s] \in {"key", "lookup"} => enabled[s]
    /\ pc[s] \in {"peer", "fetch"} /\ enabled[s] => Parses(req[s].host) /\ key[s] = KeyOf(req[s])
    /\ pc[s] \in {"idle", "filter", "key", "lookup", "peer"} => peer[s] = None
    /\ pc[s] \in {"fetch", "admit", "merge"} => peer[s] = PeerOf(req[s])
    /\ pc[s] \in {"idle", "filter", "key", "lookup"} => resp[s] = None
    /\ pc[s] \in {"admit", "merge", "respond", "done"} => resp[s] # None
    /\ s \in revalidated => pc[s] \in {"merge", "respond", "done"}

\* A session has fetched a response.
Fetched(o) ==
  /\ pc[o] \in {"admit", "respond", "done"} /\ o \notin revalidated
  /\ Parses(req[o].host) /\ peer[o] = PeerOf(req[o])

\* A stored response was fetched by a session with the same key.
StoredUnderKey ==
  \A k \in CacheKey : store[k] # None =>
    Fetched(store[k].by) /\ KeyOf(req[store[k].by]) = k

\* The response of session s was fetched by another session with the same key.
Borrowed(s) ==
  /\ resp[s].by # s /\ Fetched(resp[s].by)
  /\ Parses(req[s].host) /\ KeyOf(req[resp[s].by]) = KeyOf(req[s])

\* A session that asked no server, or was answered with a 304, holds a response out
\* of the storage; one that was sent a response holds that.
InHand ==
  \A s \in Sessions :
    /\ pc[s] \in {"peer", "fetch"} /\ resp[s] # None => enabled[s] /\ Borrowed(s)
    /\ pc[s] = "admit" => resp[s].by = s
    /\ pc[s] = "merge" => s \in revalidated /\ Borrowed(s)
    /\ pc[s] \in {"respond", "done"} =>
         IF peer[s] # None /\ s \notin revalidated
         THEN resp[s].by = s /\ Fetched(s)
         ELSE Borrowed(s) /\ (peer[s] = None => s \notin revalidated)
    /\ pc[s] = "done" => (resp[s].label = "MISS" <=> peer[s] # None)

IInv == TypeOK /\ Known /\ StoredUnderKey /\ InHand

=============================================================================
