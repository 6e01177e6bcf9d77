---------------------------- MODULE DiskCacheEntry ----------------------------
(***************************************************************************)
(* DiskCache implements CacheEntry: three files per key, written, read and *)
(* removed one by one without a lock, still behave as one entry that every *)
(* writer that was alone replaces and every lookup reads at one moment.    *)
(* A history variable remembers what an entry has been during a lookup.    *)
(***************************************************************************)
EXTENDS DiskCacheInv

CONSTANTS Unsettled, Garbled

ASSUME DiskCacheEntryAssumption ==
  /\ Unsettled \notin Stamp \cup {None, Garbled}
  /\ Garbled \notin Stamp \cup {None}

VARIABLE seen

\* The three files of a key as one entry.
EntryOf(k) ==
  IF k \in raced \/ \E c \in Writers(k) : ~Untouched(c) THEN Unsettled
  ELSE IF body[k] # None /\ \A p \in Parts : file[p][k] # None
  THEN file["meta"][k].val
  ELSE None

OpOf(c) ==
  IF pc[c] = "idle" THEN "idle"
  ELSE IF pc[c] \in EndPc THEN "over"
  ELSE CASE kind[c] = "lookup" -> "look"
         [] kind[c] = "purge" -> "purge"
         [] OTHER -> "write"

\* A hit is a version only if its three parts belong together.
AnswerOf(c) ==
  IF pc[c] = "hit" /\ got[c].meta = got[c].hdr /\ got[c].meta.obj = got[c].body
  THEN got[c].meta
  ELSE IF kind[c] = "lookup" /\ pc[c] = "none" THEN None ELSE Garbled

Entry == INSTANCE CacheEntry WITH
           entry <- [k \in Keys |-> EntryOf(k)],
           op <- [c \in Calls |-> OpOf(c)],
           answer <- [c \in Calls |-> AnswerOf(c)],
           Versions <- Stamp,
           CanFail <- MaxFaults > 0

SeenInit == seen = [c \in Calls |-> {}]
SeenNext ==
  seen' = [c \in Calls |->
             CASE pc'[c] # "lookup" -> {}
               [] pc'[c] = "lookup" /\ pc[c] # "lookup" -> {EntryOf(key[c])'}
               [] OTHER -> Entry!See(seen[c], EntryOf(key[c])')]

EntrySpec == Init /\ SeenInit /\ [][Next /\ SeenNext]_<<vars, seen>>

\* Every step of the disk cache is a step of the abstract entry or none: lookups
\* answer with one version their entry had while they ran, or that nothing was
\* there at some moment, and only a writer that was alone replaces a version.
ImplementsEntry == Entry!Spec

-----------------------------------------------------------------------------
(* The invariant that, with IInv, makes every step refine one of CacheEntry: *)
(* what the history of a lookup has to do with what the lookup has read.     *)

KindPc ==
  \A c \in Calls :
    /\ pc[c] \in {"lookup", "hit"} => kind[c] = "lookup"
    /\ pc[c] \in PurgePc => kind[c] = "purge"
    /\ pc[c] \in WriterPc \cup {"create", "open", "body", "eof"} =>
         kind[c] \in {"miss", "update"}

\* A lookup has seen what its entry is now, or that it was unsettled.
UpToDate(c) ==
  IF Unsettled \in seen[c] THEN seen[c] = {Unsettled} ELSE EntryOf(key[c]) \in seen[c]

\* A lookup that has seen its entry settled all the time reads one version, one
\* it has seen, or finds a file missing.
ReadOf(c, v) ==
  /\ \A p \in Parts : got[c][p] \in {v, None, Unread}
                      /\ (file[p][key[c]] # None => file[p][key[c]].val = v)
  /\ got[c].body \in {v.obj, None, Unread} /\ body[key[c]] \in {v.obj, None}
Misses(c) ==
  \E f \in {"meta", "hdr", "body"} :
    got[c][f] = None \/ (got[c][f] = Unread /\ OnDisk(f, key[c]) = None)
ReadSeen(c) ==
  /\ Misses(c) \/ \E v \in seen[c] \cap Stamp : ReadOf(c, v)
  /\ (\E f \in {"meta", "hdr", "body"} : got[c][f] = None) =>
       None \in seen[c] \/ MaxFaults > 0

SeenState ==
  /\ seen \in [Calls -> SUBSET (Stamp \cup {None, Unsettled})]
  /\ \A c \in Calls :
       IF pc[c] = "lookup"
       THEN UpToDate(c) /\ (Unsettled \notin seen[c] => ReadSeen(c))
       ELSE seen[c] = {}

EInv == KindPc /\ SeenState

=============================================================================
