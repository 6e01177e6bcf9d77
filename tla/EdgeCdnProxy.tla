---------------------------- MODULE EdgeCdnProxy ----------------------------
(***************************************************************************)
(* The proxy (src/proxy.rs, src/utils.rs): the callbacks through which it  *)
(* decides, for each request, whether the cache is used, under which key,  *)
(* which upstream server is asked, whether its response is stored and how  *)
(* the response is labelled.                                               *)
(*                                                                         *)
(* The framework calls them in a fixed order; requests interleave between  *)
(* the calls.  The storage is one map here: what goes on within it is      *)
(* modelled by DiskCache and TieredStorage.                                *)
(***************************************************************************)
EXTENDS Integers, Sequences

CONSTANTS
  Sessions,     \* identities of requests; each is made at most once
  Spellings,    \* spellings of host names
  Lower,        \* Lower[h]: the lower-case spelling of h
  LOCALHOST,    \* the spelling "127.0.0.1"
  Ports,        \* port numbers
  listen_http,  \* the port of the proxy's HTTP listener ...
  listen_https, \* ... and of its HTTPS listener
  Paths,        \* paths with their queries
  Requests,     \* the requests that clients make
  CacheControl, \* what a response may have in its cache-control headers
  None,         \* absent
  Unreadable,   \* a port that is no u16
  Malformed     \* a Host header that parse_host_authority refuses

HTTP == "http"
HTTPS == "https"
DEFAULT_PORT_HTTP == 80
DEFAULT_PORT_HTTPS == 443

Authority == [name : Spellings, port : Ports \cup {None, Unreadable}, slash : BOOLEAN]
\* A request: its Host header (slash: one trails it), X-Forwarded-Proto (any
\* other value acts as http), the port it came in on, and its path.  The header
\* map cannot hold a header named ":scheme", so looking for that finds none.
Request == [host : Authority \cup {None, Malformed}, proto : {None, HTTP, HTTPS},
            server_port : {listen_http, listen_https}, path : Paths]
Peer == [host : Spellings, port : Ports, tls : BOOLEAN]
CacheKey == [scheme : {HTTP, HTTPS}, host : Spellings, path : Paths]
\* A response: the request that fetched it, whether its status is 2xx, its
\* cache-control headers and its x-cdn-cache header.
Response == [by : Sessions, success : BOOLEAN, cc : CacheControl, label : {"HIT", "MISS"}]

ASSUME EdgeCdnProxyAssumption ==
  /\ Lower \in [Spellings -> Spellings]
  /\ LOCALHOST \in Spellings
  /\ {DEFAULT_PORT_HTTP, DEFAULT_PORT_HTTPS, listen_http, listen_https} \subseteq Ports
  /\ Requests \subseteq Request
  /\ CacheControl \subseteq Seq({"no-store", "other"})
  /\ None \notin {HTTP, HTTPS} /\ None \notin Ports /\ Unreadable \notin Ports \cup {None}
  /\ None \notin Request \cup CacheKey \cup Peer \cup Response
  /\ {None, Malformed} \cap Authority = {}

VARIABLES
  req,     \* req[s]: the request of session s
  pc,      \* the callback that comes next, or how the session ended
  enabled, \* session.cache is enabled
  key,     \* the cache key
  peer,    \* the upstream server that was asked
  resp,    \* the response in hand
  err,     \* the type of the error that ended the session
  store,   \* store[k]: the response stored under key k, or None
  stale,   \* keys whose entry is past its fresh_until
  \* ---- history ---------------------------------------------------------
  revalidated \* sessions whose upstream server answered 304 to a stale entry

vars == <<req, pc, enabled, key, peer, resp, err, store, stale, revalidated>>

Init ==
  /\ req = [s \in Sessions |-> None] /\ pc = [s \in Sessions |-> "idle"]
  /\ enabled = [s \in Sessions |-> FALSE]
  /\ key = [s \in Sessions |-> None] /\ peer = [s \in Sessions |-> None]
  /\ resp = [s \in Sessions |-> None] /\ err = [s \in Sessions |-> None]
  /\ store = [k \in CacheKey |-> None] /\ stale = {} /\ revalidated = {}

-----------------------------------------------------------------------------
(* What the callbacks compute from a request *)

\* parse_host_authority: the port, absent if it cannot be read.
PortOfUnchecked(h) == h.port  \* a mistake
PortOf(h) == IF h.port \in Ports THEN h.port ELSE None
Parses(h) == h \notin {None, Malformed}

\* X-Forwarded-Proto, and without it what the listener speaks.
Scheme(q) ==
  IF q.proto # None THEN q.proto
  ELSE IF q.server_port = listen_https THEN HTTPS ELSE HTTP

PeerOf(q) ==
  LET port == PortOf(q.host)
      use_https == Scheme(q) = HTTPS \/ port = DEFAULT_PORT_HTTPS
  IN [host |-> q.host.name,
      port |-> IF port # None THEN port
               ELSE IF use_https THEN DEFAULT_PORT_HTTPS ELSE DEFAULT_PORT_HTTP,
      tls |-> use_https]

KeyOfHeader(q) ==  \* a mistake: the listener is not asked
  [scheme |-> IF q.proto = HTTPS THEN HTTPS ELSE HTTP,
   host |-> Lower[q.host.name], path |-> q.path]
KeyOf(q) == [scheme |-> Scheme(q), host |-> Lower[q.host.name], path |-> q.path]

\* The Host header is, letter for letter, one of self_addresses.
IsSelf(h) ==
  /\ Parses(h)
  /\ h.name = LOCALHOST /\ h.port \in {listen_http, listen_https} /\ ~h.slash

-----------------------------------------------------------------------------
(* The callbacks *)

Goto(s, from, to) == pc[s] = from /\ pc' = [pc EXCEPT ![s] = to]

Arrive(s, q) ==
  /\ Goto(s, "idle", "filter")
  /\ req' = [req EXCEPT ![s] = q]
  /\ UNCHANGED <<enabled, key, peer, resp, err, store, stale, revalidated>>

RequestCacheFilter(s) ==
  LET self == IsSelf(req[s].host) IN
  /\ Goto(s, "filter", IF self THEN "peer" ELSE "key")
  /\ enabled' = [enabled EXCEPT ![s] = ~self]
  /\ UNCHANGED <<req, key, peer, resp, err, store, stale, revalidated>>

\* The error of parse_host_authority becomes an InternalError.  Whether the
\* framework ends the request with it or goes on without the cache is left open.
CacheKeyCallback(s) ==
  /\ pc[s] = "key"
  /\ \/ /\ Parses(req[s].host)
        /\ key' = [key EXCEPT ![s] = KeyOf(req[s])]
        /\ pc' = [pc EXCEPT ![s] = "lookup"]
        /\ UNCHANGED <<enabled, err>>
     \/ /\ ~Parses(req[s].host)
        /\ enabled' = [enabled EXCEPT ![s] = FALSE]
        /\ \/ /\ pc' = [pc EXCEPT ![s] = "error"]
              /\ err' = [err EXCEPT ![s] = "InternalError"]
           \/ /\ pc' = [pc EXCEPT ![s] = "peer"]
              /\ UNCHANGED err
        /\ UNCHANGED key
  /\ UNCHANGED <<req, peer, resp, store, stale, revalidated>>

\* The storage has the key, or has not.  cache_hit_filter never invalidates, so an
\* entry past its fresh_until is kept in hand and an upstream server is asked whether
\* it is still good.
Lookup(s) ==
  /\ Goto(s, "lookup", IF store[key[s]] # None /\ key[s] \notin stale THEN "respond" ELSE "peer")
  /\ resp' = [resp EXCEPT ![s] = store[key[s]]]
  /\ UNCHANGED <<req, enabled, key, peer, err, store, stale, revalidated>>

\* A Host header that is missing and one that is malformed end the request, and so
\* does a name that cannot be resolved: HttpPeer::new panics.
UpstreamPeer(s) ==
  LET host == req[s].host IN
  /\ pc[s] = "peer"
  /\ \/ /\ Parses(host)
        /\ peer' = [peer EXCEPT ![s] = PeerOf(req[s])]
        /\ pc' = [pc EXCEPT ![s] = "fetch"]
        /\ UNCHANGED err
     \/ /\ Parses(host)
        /\ pc' = [pc EXCEPT ![s] = "panicked"]
        /\ UNCHANGED <<err, peer>>
     \/ /\ ~Parses(host)
        /\ err' = [err EXCEPT ![s] = IF host = None THEN "ConnectError" ELSE "InternalError"]
        /\ pc' = [pc EXCEPT ![s] = "error"]
        /\ UNCHANGED peer
  /\ UNCHANGED <<req, enabled, key, resp, store, stale, revalidated>>

\* The upstream server responds; upstream_response_filter labels the response.
UpstreamResponseFilter(s, success, cc) ==
  /\ Goto(s, "fetch", IF enabled[s] THEN "admit" ELSE "respond")
  /\ resp' = [resp EXCEPT ![s] =
               [by |-> s, success |-> success, cc |-> cc, label |-> "MISS"]]
  /\ UNCHANGED <<req, enabled, key, peer, err, store, stale, revalidated>>

\* It answers 304 to a request made conditional by a stale entry: the headers of the
\* answer go over those of the entry.
NotModified(s, cc) ==
  /\ resp[s] # None
  /\ Goto(s, "fetch", "merge")
  /\ resp' = [resp EXCEPT ![s].cc = IF cc = <<>> THEN @ ELSE cc, ![s].label = "MISS"]
  /\ revalidated' = revalidated \cup {s}
  /\ UNCHANGED <<req, enabled, key, peer, err, store, stale>>

\* Only the first cache-control header is asked for no-store.
Cacheable(r) == r.success /\ ~(r.cc # <<>> /\ Head(r.cc) = "no-store")

\* A cacheable response is stored, if the storage manages to.
ResponseCacheFilter(s) ==
  /\ Goto(s, "admit", "respond")
  /\ \/ /\ Cacheable(resp[s])
        /\ store' = [store EXCEPT ![key[s]] = resp[s]] /\ stale' = stale \ {key[s]}
     \/ UNCHANGED <<store, stale>>
  /\ UNCHANGED <<req, enabled, key, peer, resp, err, revalidated>>

\* After a 304 response_cache_filter is asked about the merged headers.  If they are
\* cacheable, update_meta gives them to the entry that is there by now, with the body
\* it has, if it manages to; either way the body found by the lookup is served.
Revalidate(s) ==
  /\ Goto(s, "merge", "respond")
  /\ \/ /\ Cacheable(resp[s]) /\ store[key[s]] # None
        /\ store' = [store EXCEPT ![key[s]] = [resp[s] EXCEPT !.by = store[key[s]].by]]
        /\ stale' = stale \ {key[s]}
     \/ UNCHANGED <<store, stale>>
  /\ UNCHANGED <<req, enabled, key, peer, resp, err, revalidated>>

\* The label says whether an upstream server was asked (upstream_used), whatever the
\* response was labelled when it was stored.
ResponseFilterKeeps(s) ==  \* a mistake: a label that is there is kept
  /\ Goto(s, "respond", "done")
  /\ UNCHANGED <<req, enabled, key, peer, resp, err, store, stale, revalidated>>
ResponseFilter(s) ==
  /\ Goto(s, "respond", "done")
  /\ resp' = [resp EXCEPT ![s].label = IF peer[s] # None THEN "MISS" ELSE "HIT"]
  /\ UNCHANGED <<req, enabled, key, peer, err, store, stale, revalidated>>

\* An entry passes its fresh_until, an hour after its headers were written, ...
Expire(k) ==
  /\ store[k] # None /\ k \notin stale
  /\ stale' = stale \cup {k}
  /\ UNCHANGED <<req, pc, enabled, key, peer, resp, err, store, revalidated>>

\* ... or is evicted or purged.
Evict(k) ==
  /\ store[k] # None
  /\ store' = [store EXCEPT ![k] = None] /\ stale' = stale \ {k}
  /\ UNCHANGED <<req, pc, enabled, key, peer, resp, err, revalidated>>

Next ==
  \/ \E s \in Sessions :
       \/ \E q \in Requests : Arrive(s, q)
       \/ RequestCacheFilter(s) \/ CacheKeyCallback(s) \/ Lookup(s) \/ UpstreamPeer(s)
       \/ \E success \in BOOLEAN, cc \in CacheControl : UpstreamResponseFilter(s, success, cc)
       \/ \E cc \in CacheControl : NotModified(s, cc)
       \/ ResponseCacheFilter(s) \/ Revalidate(s) \/ ResponseFilter(s)
  \/ \E k \in CacheKey : Expire(k) \/ Evict(k)

Spec == Init /\ [][Next]_vars

-----------------------------------------------------------------------------
(* Properties *)

\* Every variable has its type.
TypeOK ==
  /\ req \in [Sessions -> Request \cup {None}]
  /\ pc \in [Sessions -> {"idle", "filter", "key", "lookup", "peer", "fetch", "admit",
                          "merge", "respond", "done", "error", "panicked"}]
  /\ enabled \in [Sessions -> BOOLEAN]
  /\ key \in [Sessions -> CacheKey \cup {None}]
  /\ peer \in [Sessions -> Peer \cup {None}]
  /\ resp \in [Sessions -> Response \cup {None}]
  /\ err \in [Sessions -> {None, "InternalError", "ConnectError"}]
  /\ store \in [CacheKey -> Response \cup {None}] /\ stale \subseteq CacheKey
  /\ revalidated \subseteq Sessions

Done(s) == pc[s] = "done"
\* The response came out of the storage, fresh or revalidated.
FromStore(s) == Done(s) /\ resp[s].by # s
NamesPort(s) == PortOf(req[s].host) # None
SameOrigin(p, q) == Lower[p.host] = Lower[q.host] /\ p.port = q.port /\ p.tls = q.tls

\* cache_key_callback and upstream_peer look at the same headers but not in the
\* same way, and the request that stored a response may have come in on another
\* listener.  Still a body out of the storage was fetched, for this very path, from
\* the server that the request itself would have been sent to, and was if it had to be
\* revalidated, unless one of the two requests names a port, which the key leaves out.
HitFromOwnOrigin ==
  \A s \in Sessions : FromStore(s) =>
    LET o == resp[s].by IN
    /\ req[o].path = req[s].path
    /\ NamesPort(s) \/ NamesPort(o) \/ SameOrigin(peer[o], PeerOf(req[s]))

\* What x-cdn-cache says of a body, whatever label was stored with it: HIT, another
\* request fetched it and no server was asked; MISS, this request fetched it, or a
\* server confirmed with a 304 what was stored (upstream_used).
LabelRight ==
  \A s \in Sessions : Done(s) =>
    (resp[s].label = "MISS" <=> resp[s].by = s \/ s \in revalidated)

=============================================================================
