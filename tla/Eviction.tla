------------------------------- MODULE Eviction -------------------------------
(***************************************************************************)
(* The LRU manager against the disk: what CACHE_SIZE_BYTES bounds.         *)
(*                                                                         *)
(* The manager is the framework's (pingora_cache's simple_lru and the cache *)
(* state machine that calls it).  The code creates it (src/disk_cache/      *)
(* mod.rs), passes it to every request (src/proxy.rs), tells it sizes      *)
(* (MissFinishType::Created of src/disk_cache/handle_miss.rs,              *)
(* get_eviction_weight of src/disk_cache/handle_hit.rs) and executes its   *)
(* evictions (purge).  The manager is consulted after the storage: a body  *)
(* is on the disk before it is admitted, a hit is found before it counts   *)
(* as an access, and an evicted object is purged by a task of its own.     *)
(* The steps inside a storage call are those of DiskCache.                 *)
(***************************************************************************)
EXTENDS Integers, Sequences, FiniteSets, Functions

CONSTANTS
  Keys,
  Calls,     \* requests that end in a hit or in a finish
  max_bytes, \* CACHE_SIZE_BYTES
  MaxSize,   \* bound: no body is longer
  None,      \* no body
  MaxFaults  \* bound: failed calls and restarts

ASSUME EvictionAssumption ==
  /\ IsFiniteSet(Keys)
  /\ max_bytes \in Nat /\ MaxSize \in Nat /\ MaxFaults \in Nat /\ None \notin Nat

VARIABLES
  disk,     \* disk[k]: length of k's body
  lru,      \* the manager's keys, the least recently used first
  weight,   \* weight[k]: what the manager believes k's length to be
  evicting, \* evicting[k]: purges of k that were spawned and have not run
  pc,       \* "idle", "found", "stored", "done"
  key,      \* the key of a call
  size,     \* the length it found or stored
  \* ---- history ---------------------------------------------------------
  faults,
  loose,    \* keys whose body the manager does not know, or thinks shorter
  owed      \* a loose key came in by an access, which evicts nothing

callVars == <<pc, key, size>>
vars == <<disk, lru, weight, evicting, callVars, faults, loose, owed>>

Init ==
  /\ disk = [k \in Keys |-> None] /\ lru = <<>>
  /\ weight = [k \in Keys |-> 0] /\ evicting = [k \in Keys |-> 0]
  /\ pc = [c \in Calls |-> "idle"] /\ key \in [Calls -> Keys]
  /\ size = [c \in Calls |-> 0]
  /\ faults = 0 /\ loose = {} /\ owed = FALSE

Storing(k) == {c \in Calls : pc[c] = "stored" /\ key[c] = k}
Listed == Range(lru)

Goto(c, from, to) == pc[c] = from /\ pc' = [pc EXCEPT ![c] = to]
Fault == faults < MaxFaults /\ faults' = faults + 1

\* What the keys of S weigh, counted byte by byte.
Total(S, len) == Cardinality({b \in S \X (1..MaxSize) : b[2] <= len[b[1]]})
DiskBytes == Total({k \in Keys : disk[k] # None}, disk)

\* l with k at its recent end.
Recent(l, k) ==
  IF k \in Range(l)
  THEN LET at == CHOOSE i \in DOMAIN l : l[i] = k
       IN [j \in DOMAIN l |-> IF j < at THEN l[j] ELSE IF j < Len(l) THEN l[j + 1] ELSE k]
  ELSE Append(l, k)

-----------------------------------------------------------------------------

\* finish has stored n bytes under k, over whatever was there.
Finish(c, n) ==
  /\ Goto(c, "idle", "stored")
  /\ disk' = [disk EXCEPT ![key[c]] = n] /\ size' = [size EXCEPT ![c] = n]
  /\ loose' = loose \cup IF Storing(key[c]) # {} THEN {key[c]} ELSE {}
  /\ UNCHANGED <<lru, weight, evicting, key, faults, owed>>

\* finish fails, or is dropped, after the rename: the manager is not told.
FinishFails(c, n) ==
  /\ Fault
  /\ Goto(c, "idle", "done")
  /\ disk' = [disk EXCEPT ![key[c]] = n] /\ size' = [size EXCEPT ![c] = n]
  /\ loose' = loose \cup {key[c]}
  /\ UNCHANGED <<lru, weight, evicting, key, owed>>

\* MissFinishType::Created(tmp_bytes_written)
CreatedLess(c) == size[c] - 1  \* a mistake: off by one
Created(c) == size[c]

\* admit: to the recent end, then from the other end what exceeds max_bytes.
Admit(c) ==
  LET k == key[c]
      w == [weight EXCEPT ![k] = Created(c)]
      l == Recent(lru, k)
      Rest(n) == SubSeq(l, n + 1, Len(l))
      Fits(n) == Total(Range(Rest(n)), w) <= max_bytes
  IN
  /\ Goto(c, "stored", "done")
  /\ weight' = w
  /\ \E n \in 0..Len(l) :
       /\ Fits(n) /\ \A i \in 0..(n - 1) : ~Fits(i)
       /\ lru' = Rest(n)
       /\ evicting' = [x \in Keys |->
            evicting[x] + IF x \in Range(l) \ Range(Rest(n)) THEN 1 ELSE 0]
  /\ loose' = IF Storing(k) = {c} /\ disk[k] \in {size[c], None} THEN loose \ {k} ELSE loose
  /\ owed' = FALSE
  /\ UNCHANGED <<disk, key, size, faults>>

\* A lookup finds k and its length ...
Hit(c) ==
  /\ disk[key[c]] # None
  /\ Goto(c, "idle", "found")
  /\ size' = [size EXCEPT ![c] = disk[key[c]]]
  /\ UNCHANGED <<disk, lru, weight, evicting, key, faults, loose, owed>>

\* ... and counts as an access with get_eviction_weight: a listed key moves to the
\* recent end with the weight it has, another one is listed, evicting nothing.
Access(c) ==
  LET k == key[c]
      known == disk[k] # None /\ disk[k] <= size[c] /\ Storing(k) = {}
  IN
  /\ Goto(c, "found", "done")
  /\ lru' = Recent(lru, k)
  /\ weight' = IF k \in Listed THEN weight ELSE [weight EXCEPT ![k] = size[c]]
  /\ loose' = IF k \notin Listed /\ known THEN loose \ {k} ELSE loose
  /\ owed' = (owed \/ (k \in loose /\ k \notin Listed))
  /\ UNCHANGED <<disk, evicting, key, size, faults>>

\* A spawned purge runs; whether the body is the one that was evicted, nobody asks.
PurgeKeepsBody(k) ==  \* a mistake: the body stays
  /\ evicting[k] > 0 /\ evicting' = [evicting EXCEPT ![k] = @ - 1]
  /\ UNCHANGED <<disk, lru, weight, callVars, faults, loose, owed>>
Purge(k) ==
  /\ evicting[k] > 0 /\ evicting' = [evicting EXCEPT ![k] = @ - 1]
  /\ disk' = [disk EXCEPT ![k] = None]
  /\ loose' = loose \ {k}
  /\ UNCHANGED <<lru, weight, callVars, faults, owed>>

\* It cannot remove the body, and is not repeated.
PurgeFails(k) ==
  /\ Fault
  /\ evicting[k] > 0 /\ evicting' = [evicting EXCEPT ![k] = @ - 1]
  /\ loose' = loose \cup
       IF disk[k] = None \/ (k \in Listed /\ weight[k] >= disk[k]) THEN {} ELSE {k}
  /\ owed' = TRUE
  /\ UNCHANGED <<disk, lru, weight, callVars>>

\* Any end of the process: the manager and the tasks go, the disk stays.
Restart ==
  /\ Fault
  /\ lru' = <<>> /\ weight' = [k \in Keys |-> 0] /\ evicting' = [k \in Keys |-> 0]
  /\ pc' = [c \in Calls |-> IF pc[c] = "idle" THEN "idle" ELSE "done"]
  /\ loose' = {k \in Keys : disk[k] # None} /\ owed' = FALSE
  /\ UNCHANGED <<disk, key, size>>

Next ==
  \/ \E c \in Calls : \/ \E n \in 0..MaxSize : Finish(c, n) \/ FinishFails(c, n)
                       \/ Admit(c) \/ Hit(c) \/ Access(c)
  \/ \E k \in Keys : Purge(k) \/ PurgeFails(k)
  \/ Restart

Spec == Init /\ [][Next]_vars

-----------------------------------------------------------------------------
(* Properties *)

\* Every variable has its type, and no key is listed twice.
TypeOK ==
  /\ disk \in [Keys -> 0..MaxSize \cup {None}]
  /\ lru \in Seq(Keys) /\ IsInjective(lru)
  /\ weight \in [Keys -> 0..MaxSize] /\ evicting \in [Keys -> Nat]
  /\ pc \in [Calls -> {"idle", "found", "stored", "done"}]
  /\ key \in [Calls -> Keys] /\ size \in [Calls -> 0..MaxSize]
  /\ faults \in Nat /\ loose \in SUBSET Keys /\ owed \in BOOLEAN

\* No body escapes the manager: what is on the disk is listed with at least its
\* length, or is about to be purged or admitted; hits that race with evictions
\* and finishes that race with purges do not change that.  Only a finish that
\* overlapped another or failed, a failed purge or a restart leaves a loose key,
\* until a finish, a purge or, if it is not listed, a hit.
Tracked ==
  \A k \in Keys \ loose :
    disk[k] # None => \/ k \in Listed /\ disk[k] <= weight[k]
                      \/ evicting[k] > 0
                      \/ Storing(k) # {}

\* Hence, when no call and no purge is under way, the bodies fit into max_bytes
\* (their metadata is never counted): after a restart only when every object has
\* been asked for again and one has been admitted since.
Bounded ==
  /\ loose = {} /\ ~owed
  /\ \A c \in Calls : pc[c] \in {"idle", "done"}
  /\ \A k \in Keys : evicting[k] = 0
  => DiskBytes <= max_bytes

-----------------------------------------------------------------------------
(* The inductive invariant *)

\* A call that is about to be admitted stored what is there, unless it was purged.
StoredOK ==
  \A k \in Keys \ loose : \A c \in Storing(k) : disk[k] \in {size[c], None}

\* Nothing owed, the listed keys whose body is there, and neither about to be purged
\* nor admitted, fit into max_bytes.
Settled ==
  {k \in Listed \ loose : disk[k] # None /\ evicting[k] = 0 /\ Storing(k) = {}}
FitsOK == ~owed => Total(Settled, weight) <= max_bytes

IInv == TypeOK /\ Tracked /\ StoredOK /\ FitsOK

=============================================================================
