------------------------- MODULE EdgeCdnProxyProofs -------------------------
(* Proofs about EdgeCdnProxy: its inductive invariant, and that a hit comes   *)
(* from the server its request would have been sent to.                       *)
EXTENDS EdgeCdnProxyInv, TLAPS

\* The key and the upstream server of a request whose Host header parses.
LEMMA Computed ==
  ASSUME NEW q \in Request, Parses(q.host)
  PROVE  /\ q.host \in Authority
         /\ KeyOf(q) \in CacheKey
         /\ PeerOf(q) \in Peer
<1> USE EdgeCdnProxyAssumption
<1>1. q.host \in Authority
  BY DEF Request, Parses
<1>2. PortOf(q.host) \in Ports \cup {None}
  BY DEF PortOf
<1>3. Scheme(q) \in {HTTP, HTTPS}
  BY DEF Scheme, Request
<1>4. q.host.name \in Spellings /\ q.path \in Paths
  BY <1>1 DEF Authority, Request
<1>5. KeyOf(q) \in CacheKey
  BY <1>3, <1>4 DEF KeyOf, CacheKey
<1>6. PeerOf(q) \in Peer
  BY <1>2, <1>4 DEF PeerOf, Peer
<1> QED
  BY <1>1, <1>5, <1>6

\* Two requests with one key that name no port are sent to one server.
LEMMA KeyDeterminesOrigin ==
  ASSUME NEW p \in Request, NEW q \in Request, KeyOf(p) = KeyOf(q),
         PortOf(p.host) = None, PortOf(q.host) = None
  PROVE  p.path = q.path /\ SameOrigin(PeerOf(p), PeerOf(q))
<1>1. Scheme(p) = Scheme(q) /\ Lower[p.host.name] = Lower[q.host.name] /\ p.path = q.path
  BY DEF KeyOf
<1> QED
  BY <1>1 DEF PeerOf, SameOrigin

\* No session has begun and nothing is stored.
LEMMA InitInv == Init => IInv
<1> SUFFICES ASSUME Init PROVE IInv
  OBVIOUS
<1> USE EdgeCdnProxyAssumption DEF Init
<1>1. TypeOK
  BY DEF TypeOK
<1>2. Known /\ StoredUnderKey /\ InHand
  BY DEF Known, StoredUnderKey, InHand
<1> QED
  BY <1>1, <1>2 DEF IInv

\* Every step keeps the types.
LEMMA TypeStep == TypeOK /\ Known /\ [Next]_vars => TypeOK'
<1> SUFFICES ASSUME TypeOK, Known, [Next]_vars PROVE TypeOK'
  OBVIOUS
<1> USE DEF TypeOK, Goto
<1>1. ASSUME NEW s \in Sessions, NEW q \in Requests, Arrive(s, q) PROVE TypeOK'
  BY <1>1, EdgeCdnProxyAssumption DEF Arrive
<1>2. ASSUME NEW s \in Sessions, RequestCacheFilter(s) PROVE TypeOK'
  BY <1>2 DEF RequestCacheFilter, IsSelf, Parses
<1>3. ASSUME NEW s \in Sessions, CacheKeyCallback(s) PROVE TypeOK'
  <2>1. req[s] \in Request
    BY <1>3 DEF CacheKeyCallback, Known
  <2>2. Parses(req[s].host) => KeyOf(req[s]) \in CacheKey
    BY <2>1, Computed
  <2>3. key' \in [Sessions -> CacheKey \cup {None}]
    BY <1>3, <2>2 DEF CacheKeyCallback
  <2> QED
    BY <1>3, <2>3 DEF CacheKeyCallback
<1>4. ASSUME NEW s \in Sessions, Lookup(s) PROVE TypeOK'
  <2>1. key[s] \in CacheKey
    BY <1>4, Computed DEF Lookup, Known
  <2> QED
    BY <1>4, <2>1 DEF Lookup
<1>5. ASSUME NEW s \in Sessions, UpstreamPeer(s) PROVE TypeOK'
  <2>1. req[s] \in Request
    BY <1>5 DEF UpstreamPeer, Known
  <2>2. Parses(req[s].host) => PeerOf(req[s]) \in Peer
    BY <2>1, Computed
  <2>3. peer' \in [Sessions -> Peer \cup {None}]
    BY <1>5, <2>2 DEF UpstreamPeer
  <2> QED
    BY <1>5, <2>3 DEF UpstreamPeer
<1>6. ASSUME NEW s \in Sessions, NEW success \in BOOLEAN, NEW cc \in CacheControl,
             UpstreamResponseFilter(s, success, cc)
      PROVE  TypeOK'
  <2> DEFINE r == [by |-> s, success |-> success, cc |-> cc, label |-> "MISS"]
  <2>1. r \in Response
    BY DEF Response
  <2>2. resp' = [resp EXCEPT ![s] = r]
    BY <1>6 DEF UpstreamResponseFilter
  <2> HIDE DEF r
  <2> QED
    BY <1>6, <2>1, <2>2 DEF UpstreamResponseFilter
<1>7. ASSUME NEW s \in Sessions, ResponseCacheFilter(s) PROVE TypeOK'
  BY <1>7 DEF ResponseCacheFilter
<1>8. ASSUME NEW s \in Sessions, ResponseFilter(s) PROVE TypeOK'
  <2>1. resp[s] \in Response
    BY <1>8 DEF ResponseFilter, Known
  <2> DEFINE l == IF peer[s] # None THEN "MISS" ELSE "HIT"
             r == [resp[s] EXCEPT !.label = l]
  <2>2. r \in Response
    BY <2>1 DEF Response
  <2>3. resp' = [resp EXCEPT ![s] = r]
    BY <1>8 DEF ResponseFilter
  <2> HIDE DEF r
  <2> QED
    BY <1>8, <2>2, <2>3 DEF ResponseFilter
<1>9. ASSUME NEW k \in CacheKey, Evict(k) \/ Expire(k) PROVE TypeOK'
  BY <1>9 DEF Evict, Expire
<1>10. CASE UNCHANGED vars
  BY <1>10 DEF vars
<1>11. ASSUME NEW s \in Sessions, NEW cc \in CacheControl, NotModified(s, cc) PROVE TypeOK'
  <2>1. resp[s] \in Response
    BY <1>11 DEF NotModified
  <2> DEFINE r == [resp[s] EXCEPT !.cc = IF cc = <<>> THEN @ ELSE cc, !.label = "MISS"]
  <2>2. r \in Response
    BY <2>1 DEF Response
  <2>3. resp' = [resp EXCEPT ![s] = r]
    BY <1>11 DEF NotModified
  <2>4. revalidated' \subseteq Sessions
    BY <1>11 DEF NotModified
  <2>5. resp' \in [Sessions -> Response \cup {None}]
    <3> HIDE DEF r
    <3> QED
      BY <2>2, <2>3
  <2> HIDE DEF r
  <2> QED
    BY <1>11, <2>4, <2>5 DEF NotModified
<1>12. ASSUME NEW s \in Sessions, Revalidate(s) PROVE TypeOK'
  <2>1. PICK k \in CacheKey : k = key[s]
    BY <1>12, Computed DEF Revalidate, Known
  <2>2. resp[s] \in Response
    BY <1>12 DEF Revalidate, Known
  <2>3. store[k] # None => [resp[s] EXCEPT !.by = store[k].by] \in Response
    BY <2>2 DEF Response
  <2>4. store' \in [CacheKey -> Response \cup {None}] /\ stale' \subseteq CacheKey
    BY <1>12, <2>1, <2>3 DEF Revalidate
  <2> QED
    BY <1>12, <2>4 DEF Revalidate
<1> HIDE DEF TypeOK, Goto
<1> QED
  BY <1>1, <1>2, <1>3, <1>4, <1>5, <1>6, <1>7, <1>8, <1>9, <1>10, <1>11, <1>12 DEF Next

\* A session that has fetched a response has done so for good, and its request
\* does not change.
LEMMA FetchedStays ==
  ASSUME TypeOK, [Next]_vars, NEW o \in Sessions, Fetched(o)
  PROVE  Fetched(o)' /\ req'[o] = req[o]
<1> USE DEF TypeOK, Fetched, Goto
<1>1. ASSUME NEW s \in Sessions,
             \/ \E q \in Requests : Arrive(s, q)
             \/ RequestCacheFilter(s) \/ CacheKeyCallback(s) \/ Lookup(s)
      PROVE  Fetched(o)' /\ req'[o] = req[o]
  BY <1>1 DEF Arrive, RequestCacheFilter, CacheKeyCallback, Lookup
<1>2. ASSUME NEW s \in Sessions,
             \/ UpstreamPeer(s)
             \/ \E success \in BOOLEAN, cc \in CacheControl : UpstreamResponseFilter(s, success, cc)
             \/ ResponseCacheFilter(s) \/ ResponseFilter(s)
      PROVE  Fetched(o)' /\ req'[o] = req[o]
  BY <1>2 DEF UpstreamPeer, UpstreamResponseFilter, ResponseCacheFilter, ResponseFilter
<1>3. ASSUME NEW s \in Sessions, Revalidate(s) \/ \E cc \in CacheControl : NotModified(s, cc)
      PROVE  Fetched(o)' /\ req'[o] = req[o]
  BY <1>3 DEF Revalidate, NotModified
<1>4. ASSUME NEW k \in CacheKey, Expire(k) \/ Evict(k)
      PROVE  Fetched(o)' /\ req'[o] = req[o]
  BY <1>4 DEF Expire, Evict
<1>5. CASE UNCHANGED vars
  BY <1>5 DEF vars
<1> HIDE DEF TypeOK, Fetched, Goto
<1> QED
  BY <1>1, <1>2, <1>3, <1>4, <1>5 DEF Next

\* What a session knows goes with where it is.
LEMMA KnownStep == IInv /\ [Next]_vars => Known'
<1> SUFFICES ASSUME IInv, [Next]_vars PROVE Known'
  OBVIOUS
<1> USE DEF IInv, TypeOK, Known, Goto
<1>1. ASSUME NEW s \in Sessions, NEW q \in Requests, Arrive(s, q) PROVE Known'
  BY <1>1, EdgeCdnProxyAssumption DEF Arrive
<1>2. ASSUME NEW s \in Sessions, RequestCacheFilter(s) PROVE Known'
  BY <1>2 DEF RequestCacheFilter, IsSelf
<1>3. ASSUME NEW s \in Sessions, CacheKeyCallback(s) PROVE Known'
  BY <1>3 DEF CacheKeyCallback
<1>4. ASSUME NEW s \in Sessions, Lookup(s) PROVE Known'
  BY <1>4 DEF Lookup
<1>5. ASSUME NEW s \in Sessions, UpstreamPeer(s) PROVE Known'
  BY <1>5 DEF UpstreamPeer
<1>6. ASSUME NEW s \in Sessions, NEW success \in BOOLEAN, NEW cc \in CacheControl,
             UpstreamResponseFilter(s, success, cc)
      PROVE  Known'
  <2> DEFINE r == [by |-> s, success |-> success, cc |-> cc, label |-> "MISS"]
  <2>1. r # None
    BY EdgeCdnProxyAssumption DEF Response
  <2>2. resp' = [resp EXCEPT ![s] = r]
    BY <1>6 DEF UpstreamResponseFilter
  <2> HIDE DEF r
  <2> QED
    BY <1>6, <2>1, <2>2 DEF UpstreamResponseFilter
<1>7. ASSUME NEW s \in Sessions, ResponseCacheFilter(s) PROVE Known'
  BY <1>7 DEF ResponseCacheFilter
<1>8. ASSUME NEW s \in Sessions, ResponseFilter(s) PROVE Known'
  <2>1. resp[s] \in Response
    BY <1>8 DEF ResponseFilter
  <2> DEFINE l == IF peer[s] # None THEN "MISS" ELSE "HIT"
             r == [resp[s] EXCEPT !.label = l]
  <2>2. r \in Response /\ r # None
    BY <2>1, EdgeCdnProxyAssumption DEF Response
  <2>3. resp' = [resp EXCEPT ![s] = r]
    BY <1>8 DEF ResponseFilter
  <2> HIDE DEF r
  <2> QED
    BY <1>8, <2>2, <2>3 DEF ResponseFilter
<1>9. ASSUME NEW k \in CacheKey, Evict(k) \/ Expire(k) PROVE Known'
  BY <1>9 DEF Evict, Expire
<1>10. CASE UNCHANGED vars
  BY <1>10 DEF vars
<1>11. ASSUME NEW s \in Sessions, NEW cc \in CacheControl, NotModified(s, cc) PROVE Known'
  <2>1. resp[s] \in Response
    BY <1>11 DEF NotModified
  <2> DEFINE r == [resp[s] EXCEPT !.cc = IF cc = <<>> THEN @ ELSE cc, !.label = "MISS"]
  <2>2. r # None
    <3>1. r \in Response
      BY <2>1 DEF Response
    <3> HIDE DEF r
    <3> QED
      BY <3>1, EdgeCdnProxyAssumption
  <2>3. resp' = [resp EXCEPT ![s] = r]
    BY <1>11 DEF NotModified
  <2>4. enabled[s]
    BY <1>11 DEF NotModified, InHand
  <2> HIDE DEF r
  <2> QED
    BY <1>11, <2>2, <2>3, <2>4 DEF NotModified
<1>12. ASSUME NEW s \in Sessions, Revalidate(s) PROVE Known'
  BY <1>12 DEF Revalidate
<1> HIDE DEF Known
<1> QED
  BY <1>1, <1>2, <1>3, <1>4, <1>5, <1>6, <1>7, <1>8, <1>9, <1>10, <1>11, <1>12 DEF Next

\* What is stored was stored by a session with the same key.
LEMMA StoredStep == IInv /\ [Next]_vars => StoredUnderKey'
<1> SUFFICES ASSUME IInv, [Next]_vars, NEW k \in CacheKey, store'[k] # None
             PROVE  (Fetched(store[k].by) /\ KeyOf(req[store[k].by]) = k)'
  BY DEF StoredUnderKey
<1>0. SUFFICES \E o \in Sessions : store'[k].by = o /\ Fetched(o) /\ KeyOf(req[o]) = k
  <2>1. PICK o \in Sessions : store'[k].by = o /\ Fetched(o) /\ KeyOf(req[o]) = k
    BY <1>0
  <2> QED
    BY <2>1, FetchedStays DEF IInv, Fetched
<1>1. CASE store'[k] = store[k]
  <2>1. store[k].by \in Sessions
    BY <1>1 DEF IInv, TypeOK, Response
  <2>2. Fetched(store[k].by) /\ KeyOf(req[store[k].by]) = k
    BY <1>1 DEF IInv, StoredUnderKey
  <2> QED
    BY <1>1, <2>1, <2>2 DEF Fetched
<1>2. CASE store'[k] # store[k]
  <2>1. PICK s \in Sessions :
          \/ ResponseCacheFilter(s) /\ store' = [store EXCEPT ![key[s]] = resp[s]]
          \/ /\ Revalidate(s) /\ store[key[s]] # None
             /\ store' = [store EXCEPT ![key[s]] = [resp[s] EXCEPT !.by = store[key[s]].by]]
    BY <1>2 DEF Next, vars, Arrive, RequestCacheFilter, CacheKeyCallback, Lookup, UpstreamPeer,
                UpstreamResponseFilter, ResponseCacheFilter, ResponseFilter, Evict, Expire,
                NotModified, Revalidate, IInv, TypeOK
  <2>2. CASE ResponseCacheFilter(s) /\ store' = [store EXCEPT ![key[s]] = resp[s]]
    <3>2. k = key[s] /\ store'[k] = resp[s]
      BY <1>2, <2>2 DEF IInv, TypeOK
    <3>3. pc[s] = "admit" /\ resp[s].by = s
      BY <2>2 DEF ResponseCacheFilter, Goto, IInv, InHand
    <3>4. Fetched(s) /\ KeyOf(req[s]) = k
      BY <3>2, <3>3 DEF IInv, Known, Fetched
    <3> QED
      BY <3>2, <3>3, <3>4
  <2>3. CASE /\ Revalidate(s) /\ store[key[s]] # None
             /\ store' = [store EXCEPT ![key[s]] = [resp[s] EXCEPT !.by = store[key[s]].by]]
    <3>1. k = key[s] /\ store'[k] = [resp[s] EXCEPT !.by = store[k].by]
      BY <1>2, <2>3 DEF IInv, TypeOK
    <3>2. resp[s] \in Response /\ store[k] \in Response
      BY <2>3, <3>1 DEF Revalidate, Goto, IInv, Known, TypeOK
    <3>3. store'[k].by = store[k].by /\ store[k].by \in Sessions
      BY <3>1, <3>2 DEF Response
    <3>4. Fetched(store[k].by) /\ KeyOf(req[store[k].by]) = k
      BY <2>3, <3>1 DEF IInv, StoredUnderKey
    <3> QED
      BY <3>3, <3>4 DEF Fetched
  <2> QED
    BY <2>1, <2>2, <2>3
<1> QED
  BY <1>1, <1>2

\* What InHand says of one session.
Holds(s) ==
  /\ pc[s] \in {"peer", "fetch"} /\ resp[s] # None => enabled[s] /\ Borrowed(s)
  /\ pc[s] = "admit" => resp[s].by = s
  /\ pc[s] = "merge" => s \in revalidated /\ Borrowed(s)
  /\ pc[s] \in {"respond", "done"} =>
       IF peer[s] # None /\ s \notin revalidated
       THEN resp[s].by = s /\ Fetched(s)
       ELSE Borrowed(s) /\ (peer[s] = None => s \notin revalidated)
  /\ pc[s] = "done" => (resp[s].label = "MISS" <=> peer[s] # None)

\* A response stays borrowed.
LEMMA BorrowedStays ==
  ASSUME IInv, [Next]_vars, NEW s \in Sessions, Borrowed(s), resp[s] \in Response,
         resp'[s].by = resp[s].by, req'[s] = req[s]
  PROVE  Borrowed(s)'
<1>1. PICK o \in Sessions : resp[s].by = o
  BY DEF Response
<1>2. Fetched(o)' /\ req'[o] = req[o]
  BY <1>1, FetchedStays DEF IInv, Borrowed, Fetched
<1> QED
  BY <1>1, <1>2 DEF Borrowed, Fetched

\* A session that does not move keeps what it holds.
LEMMA HoldsStays ==
  ASSUME IInv, [Next]_vars, NEW s \in Sessions,
         pc'[s] = pc[s], resp'[s] = resp[s], peer'[s] = peer[s], req'[s] = req[s],
         enabled'[s] = enabled[s], s \in revalidated' <=> s \in revalidated
  PROVE  Holds(s)'
<1>1. Holds(s)
  BY DEF IInv, InHand, Holds
<1>2. Fetched(s) => Fetched(s)'
  BY FetchedStays DEF IInv
<1>3. resp[s] # None => resp[s] \in Response
  BY DEF IInv, TypeOK
<1>4. pc[s] \in {"merge", "respond", "done"} => resp[s] # None
  BY DEF IInv, Known
<1>5. Borrowed(s) /\ resp[s] # None => Borrowed(s)'
  BY <1>3, BorrowedStays
<1> QED
  BY <1>1, <1>2, <1>4, <1>5 DEF Holds

\* Every step of a session leaves it with a response as InHand requires.
LEMMA InHandStep == IInv /\ [Next]_vars => InHand'
<1> SUFFICES ASSUME IInv, [Next]_vars, NEW t \in Sessions PROVE Holds(t)'
  BY DEF InHand, Holds
<1> USE DEF Goto
<1>0. TypeOK /\ Known /\ Known' /\ Holds(t)
  BY KnownStep DEF IInv, InHand, Holds
<1>1. ASSUME NEW s \in Sessions, NEW q \in Requests, Arrive(s, q) PROVE Holds(t)'
  <2>1. CASE t = s
    BY <1>0, <1>1, <2>1 DEF Arrive, Holds, TypeOK
  <2>2. CASE t # s
    BY <1>0, <1>1, <2>2, HoldsStays DEF Arrive, TypeOK
  <2> QED
    BY <2>1, <2>2
<1>2. ASSUME NEW s \in Sessions, RequestCacheFilter(s) \/ CacheKeyCallback(s) PROVE Holds(t)'
  <2>1. CASE t = s
    <3>1. resp'[s] = None /\ pc'[s] \in {"peer", "key", "lookup", "error"}
      BY <1>0, <1>2 DEF RequestCacheFilter, CacheKeyCallback, TypeOK, Known
    <3> QED
      BY <2>1, <3>1 DEF Holds
  <2>2. CASE t # s
    BY <1>0, <1>2, <2>2, HoldsStays DEF RequestCacheFilter, CacheKeyCallback, TypeOK
  <2> QED
    BY <2>1, <2>2
<1>9. ASSUME NEW s \in Sessions, UpstreamPeer(s) PROVE Holds(t)'
  <2>1. CASE t = s
    <3>1. /\ UNCHANGED <<resp, enabled, req, revalidated>>
          /\ pc[s] = "peer" /\ pc'[s] \in {"fetch", "error", "panicked"}
      BY <1>0, <1>9 DEF UpstreamPeer, TypeOK
    <3>2. ASSUME resp[s] # None PROVE enabled[s] /\ Borrowed(s)'
      <4>1. enabled[s] /\ Borrowed(s) /\ resp[s] \in Response
        BY <1>0, <2>1, <3>1, <3>2 DEF Holds, TypeOK
      <4> QED
        BY <3>1, <4>1, BorrowedStays
    <3> QED
      BY <2>1, <3>1, <3>2 DEF Holds
  <2>2. CASE t # s
    BY <1>0, <1>9, <2>2, HoldsStays DEF UpstreamPeer, TypeOK
  <2> QED
    BY <2>1, <2>2
<1>3. ASSUME NEW s \in Sessions, Lookup(s) PROVE Holds(t)'
  <2>1. CASE t = s /\ store[key[s]] # None
    <3>1. key[s] \in CacheKey /\ Parses(req[s].host) /\ key[s] = KeyOf(req[s])
      BY <1>0, <1>3, Computed DEF Lookup, Known, TypeOK
    <3>2. PICK o \in Sessions :
            store[key[s]].by = o /\ Fetched(o) /\ KeyOf(req[o]) = key[s]
      BY <1>0, <2>1, <3>1 DEF IInv, TypeOK, StoredUnderKey, Response, Fetched
    <3>3. Fetched(o)' /\ req'[o] = req[o]
      BY <1>0, <3>2, FetchedStays
    <3>4. o # s
      BY <1>3, <3>2 DEF Fetched, Lookup
    <3>5. /\ resp'[s] = store[key[s]] /\ pc'[s] \in {"respond", "peer"}
          /\ peer'[s] = None /\ req'[s] = req[s] /\ s \notin revalidated' /\ enabled'[s] = enabled[s]
      BY <1>0, <1>3, <2>1 DEF Lookup, TypeOK, Known
    <3>6. Borrowed(s)'
      BY <3>1, <3>2, <3>3, <3>4, <3>5 DEF Borrowed, Fetched
    <3>7. enabled[s]
      BY <1>0, <1>3 DEF Lookup, Known
    <3> QED
      BY <2>1, <3>5, <3>6, <3>7 DEF Holds
  <2>2. CASE t = s /\ store[key[s]] = None
    BY <1>0, <1>3, <2>2 DEF Lookup, Holds, TypeOK
  <2>3. CASE t # s
    BY <1>0, <1>3, <2>3, HoldsStays DEF Lookup, TypeOK
  <2> QED
    BY <2>1, <2>2, <2>3
<1>4. ASSUME NEW s \in Sessions, NEW success \in BOOLEAN, NEW cc \in CacheControl,
             UpstreamResponseFilter(s, success, cc)
      PROVE  Holds(t)'
  <2>1. CASE t = s
    <3>1. /\ resp'[s].by = s /\ peer'[s] = peer[s] /\ req'[s] = req[s]
          /\ s \notin revalidated' /\ pc'[s] \in {"admit", "respond"}
      BY <1>0, <1>4 DEF UpstreamResponseFilter, TypeOK, Known
    <3>2. Parses(req[s].host) /\ peer[s] = PeerOf(req[s]) /\ req[s] \in Request
      BY <1>0, <1>4 DEF UpstreamResponseFilter, Known, TypeOK
    <3>3. peer[s] # None
      BY <3>2, Computed, EdgeCdnProxyAssumption
    <3> QED
      BY <2>1, <3>1, <3>2, <3>3 DEF Holds, Fetched
  <2>2. CASE t # s
    BY <1>0, <1>4, <2>2, HoldsStays DEF UpstreamResponseFilter, TypeOK
  <2> QED
    BY <2>1, <2>2
<1>5. ASSUME NEW s \in Sessions, ResponseCacheFilter(s) PROVE Holds(t)'
  <2>1. CASE t = s
    <3>1. /\ resp[s].by = s /\ s \notin revalidated
          /\ Parses(req[s].host) /\ peer[s] = PeerOf(req[s]) /\ req[s] \in Request
      BY <1>0, <1>5 DEF ResponseCacheFilter, IInv, InHand, Known, TypeOK
    <3>2. peer[s] # None
      BY <3>1, Computed, EdgeCdnProxyAssumption
    <3>3. pc'[s] = "respond" /\ UNCHANGED <<resp, peer, req, revalidated>>
      BY <1>0, <1>5 DEF ResponseCacheFilter, TypeOK
    <3> QED
      BY <2>1, <3>1, <3>2, <3>3 DEF Holds, Fetched
  <2>2. CASE t # s
    BY <1>0, <1>5, <2>2, HoldsStays DEF ResponseCacheFilter, TypeOK
  <2> QED
    BY <2>1, <2>2
<1>10. ASSUME NEW s \in Sessions, NEW cc \in CacheControl, NotModified(s, cc) PROVE Holds(t)'
  <2>1. CASE t = s
    <3>1. /\ resp[s] \in Response /\ Borrowed(s) /\ UNCHANGED <<req, peer>>
          /\ pc'[s] = "merge" /\ s \in revalidated'
      BY <1>0, <1>10, <2>1 DEF NotModified, TypeOK, Holds
    <3> DEFINE r == [resp[s] EXCEPT !.cc = IF cc = <<>> THEN @ ELSE cc, !.label = "MISS"]
    <3>2. resp' = [resp EXCEPT ![s] = r] /\ r.by = resp[s].by
      BY <1>10, <3>1 DEF NotModified, Response
    <3> HIDE DEF r
    <3>3. resp'[s].by = resp[s].by
      BY <1>0, <3>2 DEF TypeOK
    <3>4. Borrowed(s)'
      BY <3>1, <3>3, BorrowedStays
    <3> QED
      BY <2>1, <3>1, <3>4 DEF Holds
  <2>2. CASE t # s
    BY <1>0, <1>10, <2>2, HoldsStays DEF NotModified, TypeOK
  <2> QED
    BY <2>1, <2>2
<1>11. ASSUME NEW s \in Sessions, Revalidate(s) PROVE Holds(t)'
  <2>1. CASE t = s
    <3>1. /\ resp[s] \in Response /\ Borrowed(s) /\ s \in revalidated
          /\ UNCHANGED <<req, peer, resp, revalidated>> /\ pc'[s] = "respond"
      BY <1>0, <1>11, <2>1 DEF Revalidate, TypeOK, Holds, Known
    <3>2. Borrowed(s)'
      BY <3>1, BorrowedStays
    <3>3. peer[s] # None
      BY <1>0, <1>11, Computed, EdgeCdnProxyAssumption DEF Revalidate, Known, TypeOK
    <3> QED
      BY <2>1, <3>1, <3>2, <3>3 DEF Holds
  <2>2. CASE t # s
    BY <1>0, <1>11, <2>2, HoldsStays DEF Revalidate, TypeOK
  <2> QED
    BY <2>1, <2>2
<1>6. ASSUME NEW s \in Sessions, ResponseFilter(s) PROVE Holds(t)'
  <2>1. CASE t = s
    <3>1. resp[s] \in Response /\ pc[s] = "respond"
      BY <1>0, <1>6 DEF ResponseFilter, Known, TypeOK
    <3> DEFINE l == IF peer[s] # None THEN "MISS" ELSE "HIT"
               r == [resp[s] EXCEPT !.label = l]
    <3>2. r.by = resp[s].by /\ r.label = l
      BY <3>1 DEF Response
    <3>3. resp' = [resp EXCEPT ![s] = r]
      BY <1>6 DEF ResponseFilter
    <3> HIDE DEF r
    <3>4. resp'[s] = r /\ pc'[s] = "done" /\ UNCHANGED <<peer, req, revalidated>>
      BY <1>0, <1>6, <3>3 DEF ResponseFilter, TypeOK
    <3>5. Borrowed(s) => Borrowed(s)'
      BY <3>1, <3>2, <3>4, BorrowedStays
    <3>6. Fetched(s) => Fetched(s)'
      BY <1>0, FetchedStays
    <3>7. IF peer[s] # None /\ s \notin revalidated
          THEN resp[s].by = s /\ Fetched(s)
          ELSE Borrowed(s) /\ (peer[s] = None => s \notin revalidated)
      BY <1>0, <2>1, <3>1 DEF Holds
    <3> QED
      BY <2>1, <3>2, <3>4, <3>5, <3>6, <3>7 DEF Holds
  <2>2. CASE t # s
    BY <1>0, <1>6, <2>2, HoldsStays DEF ResponseFilter, TypeOK
  <2> QED
    BY <2>1, <2>2
<1>7. ASSUME NEW k \in CacheKey, Evict(k) \/ Expire(k) PROVE Holds(t)'
  BY <1>7, HoldsStays DEF Evict, Expire
<1>8. CASE UNCHANGED vars
  BY <1>8, HoldsStays DEF vars
<1> QED
  BY <1>1, <1>2, <1>3, <1>4, <1>5, <1>6, <1>7, <1>8, <1>9, <1>10, <1>11 DEF Next

-----------------------------------------------------------------------------
(* The theorems *)

\* The inductive step.
LEMMA InvStep == IInv /\ [Next]_vars => IInv'
  BY TypeStep, KnownStep, StoredStep, InHandStep DEF IInv

\* The inductive invariant holds in every reachable state of any instance.
THEOREM Invariance == Spec => []IInv
  BY InitInv, InvStep, PTL DEF Spec

\* A body out of the storage, fresh or revalidated, was fetched from the server that
\* its request would have been sent to, unless one of the two requests names a port.
THEOREM HitFromOwnOriginHolds == Spec => []HitFromOwnOrigin
<1>1. IInv => HitFromOwnOrigin
  <2> SUFFICES ASSUME IInv, NEW s \in Sessions, FromStore(s)
               PROVE  LET o == resp[s].by IN
                      /\ req[o].path = req[s].path
                      /\ NamesPort(s) \/ NamesPort(o) \/ SameOrigin(peer[o], PeerOf(req[s]))
    BY DEF HitFromOwnOrigin
  <2> DEFINE o == resp[s].by
  <2>1. pc[s] = "done" /\ o # s /\ Borrowed(s) /\ resp[s] \in Response
    BY DEF FromStore, Done, IInv, InHand, TypeOK, Known
  <2>2. o \in Sessions
    BY <2>1 DEF Response
  <2>3. Fetched(o) /\ KeyOf(req[o]) = KeyOf(req[s])
    BY <2>1 DEF Borrowed
  <2>4. req[o] \in Request /\ req[s] \in Request
    BY <2>1, <2>2, <2>3 DEF IInv, TypeOK, Known, Fetched
  <2>5. req[o].path = req[s].path
    BY <2>3 DEF KeyOf
  <2> QED
    BY <2>3, <2>4, <2>5, KeyDeterminesOrigin DEF NamesPort, Fetched
<1> QED
  BY <1>1, Invariance, PTL

\* The x-cdn-cache label of response_filter says MISS of what this request fetched and
\* of what a server confirmed with a 304, HIT of the rest.
THEOREM LabelRightHolds == Spec => []LabelRight
<1>1. IInv => LabelRight
  BY DEF IInv, InHand, Borrowed, LabelRight, Done
<1> QED
  BY <1>1, Invariance, PTL

=============================================================================
