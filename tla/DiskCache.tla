------------------------------ MODULE DiskCache ------------------------------
(***************************************************************************)
(* The on-disk cache: struct DiskCache and its Storage implementation      *)
(* (src/disk_cache/mod.rs) with the miss handler it hands out              *)
(* (src/disk_cache/handle_miss.rs) and the counters both update            *)
(* (src/metrics.rs).                                                       *)
(*                                                                         *)
(* An entry is a directory holding three files: body, meta and hdr.  Every *)
(* storage call is a sequence of file-system operations with an await      *)
(* between them, nothing locks a key (the proxy passes no cache lock,      *)
(* src/proxy.rs:113), so the operations of concurrent calls interleave.    *)
(* One file-system operation, with the synchronous code that follows it up *)
(* to the next one, is one action.                                         *)
(***************************************************************************)
EXTENDS Integers, FiniteSets

CONSTANTS
  Keys,       \* cache keys, one directory each (path_from_hash is injective)
  Calls,      \* identities of storage calls; a call is made at most once
  Old,        \* names an object that an earlier process left on the disk
  OldLen,     \* length of such an object's body
  None,       \* "no such file" / "not set"
  Torn,       \* contents of a file that was truncated and not (fully) written
  Unread,     \* "lookup has not read this part yet"
  ChunkSizes, \* lengths of the chunks the origin sends
  MaxBody,    \* bound: no body is longer
  MaxFaults   \* bound: I/O errors and crashes in one behaviour

Objects == Calls \cup {Old}
Parts == {"meta", "hdr"}

\* What a meta or hdr file holds: the metadata of object `obj` as the call
\* `rev` serialised it.
Stamp == [obj : Objects, rev : Objects]
\* A meta or hdr file: the call that created the inode, and its contents.
File == [ino : Objects, val : Stamp \cup {Torn}]

ASSUME DiskCacheAssumption ==
  /\ Old \notin Calls
  /\ None \notin Objects \cup File \cup Stamp \cup Keys
  /\ Torn \notin Stamp \cup {None}
  /\ Unread \notin Stamp \cup Objects \cup {None, Torn}
  /\ IsFiniteSet(Keys)
  /\ ChunkSizes \subseteq Nat
  /\ OldLen \in Nat /\ MaxBody \in Nat /\ MaxFaults \in Nat

VARIABLES
  \* ---- the file system -------------------------------------------------
  dir,      \* keys whose directory exists
  body,     \* body[k]: the object whose bytes the file k/body holds, or None
  file,     \* file[p][k]: the file k/meta or k/hdr, or None
  tmp,      \* calls whose temporary file exists
  flen,     \* flen[o]: bytes in the file (temporary or body) of object o
  pend,     \* pend[c]: bytes c's write_body accepted that are not in the file yet
  \* ---- the calls -------------------------------------------------------
  kind,     \* which storage call it is
  pc,       \* the operation it performs next, or how it ended
  key,      \* the key it was made for
  obj,      \* the object whose metadata it writes
  fd,       \* inode of the meta or hdr file it has open for writing
  stat,     \* purge: body_bytes
  got,      \* lookup: what it has read so far
  wrote,    \* miss: tmp_bytes_written
  \* ---- the counters ----------------------------------------------------
  metrics,
  \* ---- history, read by no guard ---------------------------------------
  faults,    \* I/O errors and crashes so far
  metWriter, \* calls during which another call was writing the same key
  metPurge,  \* calls during which another purge ran on the same key
  raced,     \* keys written by calls that overlapped, failed, died midway or
             \* brought metadata of an object that is no longer there
  skew       \* reasons why size_bytes may differ from the bytes on the disk

bytes     == <<flen, pend>>
fsVars    == <<dir, body, file, tmp, bytes>>
callData  == <<kind, key, obj, fd, stat, got, wrote>>
callVars  == <<pc, callData>>
marks     == <<metWriter, metPurge, raced>>
ghostVars == <<faults, marks, skew>>
vars == <<fsVars, callVars, metrics, ghostVars>>

-----------------------------------------------------------------------------
(* Helper state formulae *)

WriterPc == {"rename", "copy", "copying", "exists", "meta", "metaWrite",
             "hdr", "hdrWrite", "account"}
PurgePc  == {"unlink", "unmeta", "unhdr", "rmdir"}
LivePc   == WriterPc \cup PurgePc \cup {"lookup", "create", "open", "body", "eof"}
EndPc    == {"ok", "hit", "none", "error", "dropped", "orphan", "dead"}

Active(S, k) == {c \in Calls : key[c] = k /\ pc[c] \in S}
Writers(k) == Active(WriterPc, k)
Purgers(k) == Active(PurgePc, k)
Readers(k) == Active({"lookup"}, k)
\* The writers that replace the body.
Committers(k) == {c \in Writers(k) : kind[c] = "miss"}

\* Program points of a writer at which the files are as it found them.
Untouched(c) == pc[c] \in {"rename", "copy", "exists"}
                \/ (pc[c] = "meta" /\ kind[c] = "update")

\* Bytes in k/body; a body being copied counts once the copy is complete.
BodyLen(k) ==
  IF body[k] = None \/ (body[k] \in Calls /\ pc[body[k]] = "copying")
  THEN 0
  ELSE flen[body[k]]

\* What the bodies hold once the bytes on their way have reached them.
FullLen(k) == BodyLen(k) + IF body[k] \in Calls THEN pend[body[k]] ELSE 0
\* The sum of len[x] over S, counted one by one.
Total(S, len) == Cardinality(UNION {{x} \X (1..len[x]) : x \in S})
DiskBytes == Total(Keys, [k \in Keys |-> FullLen(k)])

\* What call c serialises into meta and hdr.
StampOf(c) == [obj |-> obj[c], rev |-> c]

\* The files of k that exist are complete and belong together: meta and hdr
\* are one serialisation of the metadata of the object in body.
Agree(k) ==
  /\ \A p \in Parts : file[p][k] # None => file[p][k].val # Torn
  /\ \A p, q \in Parts :
        file[p][k] # None /\ file[q][k] # None => file[p][k].val = file[q][k].val
  /\ \A p \in Parts :
        file[p][k] # None /\ body[k] # None => file[p][k].val.obj = body[k]

-----------------------------------------------------------------------------
(* Initial states: a process starts on an empty root, or on entries that an *)
(* earlier process completed and whose sizes it persisted.                  *)

Init ==
  /\ dir \in SUBSET Keys
  /\ body = [k \in Keys |-> IF k \in dir THEN Old ELSE None]
  /\ file = [p \in Parts |-> [k \in Keys |->
               IF k \in dir
               THEN [ino |-> Old, val |-> [obj |-> Old, rev |-> Old]]
               ELSE None]]
  /\ tmp = {}
  /\ flen = [o \in Objects |-> IF o = Old THEN OldLen ELSE 0]
  /\ pend = [c \in Calls |-> 0]
  /\ kind = [c \in Calls |-> "none"]
  /\ pc = [c \in Calls |-> "idle"]
  /\ key = [c \in Calls |-> None]
  /\ obj = [c \in Calls |-> c]
  /\ fd = [c \in Calls |-> None]
  /\ stat = [c \in Calls |-> 0]
  /\ got = [c \in Calls |-> [meta |-> Unread, hdr |-> Unread, body |-> Unread]]
  /\ wrote = [c \in Calls |-> 0]
  /\ metrics = [lookup_hits |-> 0, misses |-> 0, inserts |-> 0,
                purge_attempts |-> 0, evictions |-> 0, evicted_bytes |-> 0,
                size_bytes |-> OldLen * Cardinality(dir)]
  /\ faults = 0 /\ metWriter = {} /\ metPurge = {} /\ raced = {}
  /\ skew = {}

-----------------------------------------------------------------------------
(* Building blocks of the actions *)

\* Call c moves from program point `from` to `to`.
Goto(c, from, to) == pc[c] = from /\ pc' = [pc EXCEPT ![c] = to]

\* A new call c on key k, which starts at program point `to`.
Begin(c, knd, k, to) ==
  /\ pc[c] = "idle"
  /\ pc' = [pc EXCEPT ![c] = to]
  /\ kind' = [kind EXCEPT ![c] = knd]
  /\ key' = [key EXCEPT ![c] = k]

\* History: c starts to write (purge, read) the files of k while the calls in
\* Writers(k), Purgers(k) and Readers(k) are at it.
MeetAsWriter(c, k) ==
  /\ metWriter' = metWriter \cup Writers(k) \cup Purgers(k) \cup Readers(k)
                   \cup IF Writers(k) # {} THEN {c} ELSE {}
  /\ metPurge' = metPurge \cup IF Purgers(k) # {} THEN {c} ELSE {}
MeetAsPurge(c, k) ==
  /\ metWriter' = metWriter \cup IF Writers(k) # {} THEN {c} ELSE {}
  /\ metPurge' = metPurge \cup Writers(k) \cup Purgers(k)
                  \cup IF Purgers(k) # {} THEN {c} ELSE {}
MeetAsReader(c, k) ==
  metWriter' = metWriter \cup IF Writers(k) # {} THEN {c} ELSE {}
Race(k, when) == raced' = raced \cup IF when THEN {k} ELSE {}
Skew(reason, when) == skew' = skew \cup IF when THEN {reason} ELSE {}

Count(field, n) == [metrics EXCEPT ![field] = @ + n]

\* An I/O operation fails; MaxFaults bounds how often.
Fault == faults < MaxFaults /\ faults' = faults + 1

-----------------------------------------------------------------------------
(* lookup: meta, hdr and body are read by three concurrent operations       *)
(* (join!), in any order.  A read that fails counts as an absent file.      *)

LookupStart(c, k) ==
  /\ Begin(c, "lookup", k, "lookup")
  /\ MeetAsReader(c, k)
  /\ UNCHANGED <<fsVars, obj, fd, stat, got, wrote, metrics, faults, metPurge, raced, skew>>

OnDisk(f, k) ==
  IF f = "body" THEN body[k]
  ELSE IF file[f][k] = None THEN None ELSE file[f][k].val

LookupRead(c, f) ==
  /\ pc[c] = "lookup" /\ got[c][f] = Unread
  /\ \/ /\ got' = [got EXCEPT ![c][f] = OnDisk(f, key[c])]
        /\ UNCHANGED faults
     \/ /\ Fault
        /\ got' = [got EXCEPT ![c][f] = None]
  /\ UNCHANGED <<fsVars, kind, pc, key, obj, fd, stat, wrote, metrics, marks, skew>>

\* All three read: a hit handler, None, or the error of CacheMeta::deserialize
\* (after lookup_hits was incremented).
LookupEndWithoutHdr(c) ==  \* a mistake: hdr is not asked for
  LET found == got[c].meta # None /\ got[c].body # None
      valid == got[c].meta # Torn /\ got[c].hdr # Torn
  IN
  /\ pc[c] = "lookup" /\ \A f \in DOMAIN got[c] : got[c][f] # Unread
  /\ metrics' = Count(IF found THEN "lookup_hits" ELSE "misses", 1)
  /\ pc' = [pc EXCEPT ![c] = IF ~found THEN "none" ELSE IF valid THEN "hit" ELSE "error"]
  /\ UNCHANGED <<fsVars, callData, ghostVars>>
LookupEnd(c) ==
  LET found == \A f \in DOMAIN got[c] : got[c][f] # None
      valid == got[c].meta # Torn /\ got[c].hdr # Torn
  IN
  /\ pc[c] = "lookup" /\ \A f \in DOMAIN got[c] : got[c][f] # Unread
  /\ \/ /\ found
        /\ metrics' = Count("lookup_hits", 1)
        /\ pc' = [pc EXCEPT ![c] = IF valid THEN "hit" ELSE "error"]
     \/ /\ ~found
        /\ metrics' = Count("misses", 1)
        /\ pc' = [pc EXCEPT ![c] = "none"]
  /\ UNCHANGED <<fsVars, callData, ghostVars>>

-----------------------------------------------------------------------------
(* get_miss_handler and create_tmp *)

MissStart(c, k) ==
  /\ Begin(c, "miss", k, "create")
  /\ metrics' = Count("misses", 1)
  /\ dir' = dir \cup {k}
  /\ UNCHANGED <<body, file, tmp, bytes, obj, fd, stat, got, wrote, ghostVars>>

\* create_tmp repeats create_dir_all ...
CreateParent(c) ==
  /\ Goto(c, "create", "open")
  /\ dir' = dir \cup {key[c]}
  /\ UNCHANGED <<body, file, tmp, bytes, callData, metrics, ghostVars>>

\* ... and then creates the file, which fails if a purge has just removed the
\* empty directory.
CreateTmp(c) ==
  /\ pc[c] = "open"
  /\ \/ /\ key[c] \in dir
        /\ tmp' = tmp \cup {c}
        /\ pc' = [pc EXCEPT ![c] = "body"]
     \/ /\ key[c] \notin dir
        /\ UNCHANGED tmp
        /\ pc' = [pc EXCEPT ![c] = "error"]
  /\ UNCHANGED <<dir, body, file, bytes, callData, metrics, ghostVars>>

-----------------------------------------------------------------------------
(* write_body.  write_all on a tokio File returns once the bytes are in the *)
(* File's buffer; a blocking task writes them later, and the File is dropped *)
(* without waiting for it unless the chunk is the last one (is_eof), whose  *)
(* own bytes flush waits for.                                               *)

WriteBody(c, n, is_eof) ==
  /\ pc[c] = "body" /\ wrote[c] + n <= MaxBody
  /\ wrote' = [wrote EXCEPT ![c] = @ + n]
  /\ \/ /\ is_eof
        /\ flen' = [flen EXCEPT ![c] = @ + n]
        /\ pc' = [pc EXCEPT ![c] = "eof"]
        /\ UNCHANGED pend
     \/ /\ ~is_eof
        /\ pend' = [pend EXCEPT ![c] = @ + n]
        /\ UNCHANGED <<flen, pc>>
  /\ UNCHANGED <<dir, body, file, tmp, kind, key, obj, fd, stat, got, metrics, ghostVars>>

\* The blocking pool gets some of the buffered bytes into the file, wherever
\* the file has been moved to by then.
LandTwice(c) ==  \* a mistake: bytes that have landed may land again
  /\ \E n \in 1..MaxBody : /\ pend' = [pend EXCEPT ![c] = @ - n]
                           /\ flen' = [flen EXCEPT ![c] = @ + n]
  /\ UNCHANGED <<dir, body, file, tmp, callVars, metrics, ghostVars>>
Land(c) ==
  /\ \E n \in 1..pend[c] :
       /\ pend' = [pend EXCEPT ![c] = @ - n]
       /\ flen' = [flen EXCEPT ![c] = @ + n]
  /\ UNCHANGED <<dir, body, file, tmp, callVars, metrics, ghostVars>>

\* The handler is dropped before finish(): Drop removes the temporary file.
AbandonLeaks(c) ==  \* a mistake: the temporary file stays
  /\ pc[c] \in {"body", "eof"}
  /\ pc' = [pc EXCEPT ![c] = "dropped"]
  /\ UNCHANGED <<fsVars, callData, metrics, ghostVars>>
Abandon(c) ==
  /\ pc[c] \in {"body", "eof"}
  /\ pc' = [pc EXCEPT ![c] = "dropped"]
  /\ tmp' = tmp \ {c}
  /\ UNCHANGED <<dir, body, file, bytes, callData, metrics, ghostVars>>

-----------------------------------------------------------------------------
(* finish of the miss handler *)

FinishStart(c) ==
  /\ pc[c] \in {"body", "eof"}
  /\ pc' = [pc EXCEPT ![c] = "rename"]
  /\ dir' = dir \cup {key[c]}
  /\ MeetAsWriter(c, key[c])
  /\ Race(key[c], Writers(key[c]) # {})
  /\ Skew("overlap", Purgers(key[c]) # {})
  /\ UNCHANGED <<body, file, tmp, bytes, callData, metrics, faults>>

\* The temporary file becomes the body, whether or not there was one.
RenameNoReplace(c) ==  \* a mistake: an existing body is kept
  /\ Goto(c, "rename", "meta")
  /\ c \in tmp /\ key[c] \in dir
  /\ tmp' = tmp \ {c}
  /\ body' = [body EXCEPT ![key[c]] = IF @ = None THEN c ELSE @]
  /\ UNCHANGED <<dir, file, bytes, callData, metrics, ghostVars>>
Rename(c) ==
  /\ Goto(c, "rename", "meta")
  /\ c \in tmp /\ key[c] \in dir
  /\ tmp' = tmp \ {c}
  /\ body' = [body EXCEPT ![key[c]] = c]
  /\ Skew("replaced", body[key[c]] # None)
  /\ UNCHANGED <<dir, file, bytes, callData, metrics, faults, marks>>

\* The fallback when rename fails (RenameFails): File::create(body), copy, and
\* remove the temporary file.  Bytes not in it by then are lost with it.
CopyOpen(c) ==
  /\ Goto(c, "copy", "copying")
  /\ c \in tmp /\ key[c] \in dir
  /\ body' = [body EXCEPT ![key[c]] = c]
  /\ Skew("replaced", body[key[c]] # None)
  /\ UNCHANGED <<dir, file, tmp, bytes, callData, metrics, faults, marks>>

Copy(c) ==
  /\ Goto(c, "copying", "meta")
  /\ tmp' = tmp \ {c}
  /\ pend' = [pend EXCEPT ![c] = 0]
  /\ Skew("late", pend[c] > 0)
  /\ UNCHANGED <<dir, body, file, flen, callData, metrics, faults, marks>>

\* fs::write(meta) and fs::write(hdr), in finish and in update_meta: open the
\* file, creating or truncating it, ...
OpenPart(c, p) ==
  LET k == key[c]
      f == file[p][k]
      ino == IF f = None THEN c ELSE f.ino
  IN
  /\ pc[c] = p
  /\ \/ /\ k \in dir
        /\ file' = [file EXCEPT ![p][k] = [ino |-> ino, val |-> Torn]]
        /\ fd' = [fd EXCEPT ![c] = ino]
        /\ pc' = [pc EXCEPT ![c] = IF p = "meta" THEN "metaWrite" ELSE "hdrWrite"]
     \/ /\ k \notin dir
        /\ UNCHANGED <<file, fd>>
        /\ pc' = [pc EXCEPT ![c] = "error"]
  /\ UNCHANGED <<dir, body, tmp, bytes, kind, key, obj, stat, got, wrote, metrics, ghostVars>>

\* ... and write from offset 0.  If the file was removed meanwhile the bytes go
\* to the removed inode; if another call has written the same inode, its longer
\* contents may stick out behind ours.
WritePartMetaOnly(c, p) ==  \* a mistake: hdr is not written
  LET k == key[c] IN
  /\ p = "meta" /\ pc[c] = "metaWrite"
  /\ file' = IF file[p][k] = None THEN file ELSE [file EXCEPT ![p][k].val = StampOf(c)]
  /\ pc' = [pc EXCEPT ![c] = IF kind[c] = "miss" THEN "account" ELSE "ok"]
  /\ UNCHANGED <<dir, body, tmp, bytes, callData, metrics, ghostVars>>
WritePart(c, p) ==
  LET k == key[c]
      f == file[p][k]
      mine == f # None /\ f.ino = fd[c]
  IN
  /\ pc[c] = (IF p = "meta" THEN "metaWrite" ELSE "hdrWrite")
  /\ \/ /\ mine
        /\ \E v \in {StampOf(c)} \cup IF f.val = Torn THEN {} ELSE {Torn} :
             file' = [file EXCEPT ![p][k].val = v]
     \/ /\ ~mine
        /\ UNCHANGED file
  /\ pc' = [pc EXCEPT ![c] = CASE p = "meta" -> "hdr"
                               [] p = "hdr" /\ kind[c] = "miss" -> "account"
                               [] OTHER -> "ok"]
  /\ UNCHANGED <<dir, body, tmp, bytes, callData, metrics, ghostVars>>

\* The end of finish: count what write_body accepted.  A finish that met no
\* other writer has rewritten all three files: whatever an earlier race left
\* there is gone.
FinishEndMeasures(c) ==  \* a mistake: count what has reached the file
  /\ Goto(c, "account", "ok")
  /\ metrics' = [metrics EXCEPT !.inserts = @ + 1, !.size_bytes = @ + flen[c]]
  /\ raced' = IF c \in metWriter THEN raced ELSE raced \ {key[c]}
  /\ UNCHANGED <<fsVars, callData, faults, metWriter, metPurge, skew>>
FinishEnd(c) ==
  /\ Goto(c, "account", "ok")
  /\ metrics' = [metrics EXCEPT !.inserts = @ + 1, !.size_bytes = @ + wrote[c]]
  /\ raced' = IF c \in metWriter THEN raced ELSE raced \ {key[c]}
  /\ UNCHANGED <<fsVars, callData, faults, metWriter, metPurge, skew>>

-----------------------------------------------------------------------------
(* update_meta: the proxy revalidated the object that lookup l served and   *)
(* writes its refreshed metadata.  Its body "must exist", which is asked    *)
(* before the first write only.                                             *)

UpdateStart(c, l) ==
  LET k == key[l]
      stale == \/ got[l].meta # got[l].hdr \/ got[l].body # got[l].meta.obj
               \/ body[k] \notin {got[l].body, None}
  IN
  /\ pc[l] = "hit"
  /\ Begin(c, "update", k, "exists")
  /\ obj' = [obj EXCEPT ![c] = got[l].meta.obj]
  /\ MeetAsWriter(c, k)
  /\ Race(k, Writers(k) # {} \/ stale)
  /\ UNCHANGED <<fsVars, fd, stat, got, wrote, metrics, faults, skew>>

UpdateExists(c) ==
  /\ pc[c] = "exists"
  /\ pc' = [pc EXCEPT ![c] = IF body[key[c]] # None THEN "meta" ELSE "none"]
  /\ UNCHANGED <<fsVars, callData, metrics, ghostVars>>

-----------------------------------------------------------------------------
(* purge *)

\* The counter, and the length of the body: 0 if there is none or stat fails.
PurgeStart(c, k) ==
  /\ Begin(c, "purge", k, "unlink")
  /\ metrics' = Count("purge_attempts", 1)
  /\ MeetAsPurge(c, k)
  /\ \/ /\ stat' = [stat EXCEPT ![c] = BodyLen(k)]
        /\ skew' = skew \cup (IF Committers(k) # {} THEN {"overlap"} ELSE {})
                         \cup (IF body[k] \in Calls /\ pend[body[k]] > 0 THEN {"late"} ELSE {})
        /\ UNCHANGED faults
     \/ /\ Fault
        /\ stat' = [stat EXCEPT ![c] = 0]
        /\ Skew("fault", TRUE)
  /\ UNCHANGED <<fsVars, obj, fd, got, wrote, raced>>

\* The body goes, and with it the length found earlier.
PurgeBody(c) ==
  LET k == key[c] IN
  /\ Goto(c, "unlink", "unmeta")
  /\ body' = [body EXCEPT ![k] = None]
  /\ metrics' = IF body[k] = None THEN metrics
                ELSE [metrics EXCEPT !.evictions = @ + 1,
                                     !.evicted_bytes = @ + stat[c],
                                     !.size_bytes = @ - stat[c]]
  /\ UNCHANGED <<dir, file, tmp, bytes, callData, ghostVars>>

PurgePartKeepsHdr(c, p) ==  \* a mistake: meta is removed twice
  /\ IF p = "meta" THEN Goto(c, "unmeta", "unhdr") ELSE Goto(c, "unhdr", "rmdir")
  /\ file' = [file EXCEPT !["meta"][key[c]] = None]
  /\ UNCHANGED <<dir, body, tmp, bytes, callData, metrics, ghostVars>>
PurgePart(c, p) ==
  /\ IF p = "meta" THEN Goto(c, "unmeta", "unhdr") ELSE Goto(c, "unhdr", "rmdir")
  /\ file' = [file EXCEPT ![p][key[c]] = None]
  /\ UNCHANGED <<dir, body, tmp, bytes, callData, metrics, ghostVars>>

Empty(k) == /\ body[k] = None
            /\ \A p \in Parts : file[p][k] = None
            /\ \A c \in tmp : key[c] # k

\* remove_dir fails, unnoticed, unless the directory is empty.
PurgeDir(c) ==
  /\ Goto(c, "rmdir", "ok")
  /\ dir' = IF Empty(key[c]) THEN dir \ {key[c]} ELSE dir
  /\ UNCHANGED <<body, file, tmp, bytes, callData, metrics, ghostVars>>

-----------------------------------------------------------------------------
(* I/O errors *)

\* create_dir_all of the root, or metadata of the open body.
LookupFails(c) ==
  /\ Fault
  /\ Goto(c, "lookup", "error")
  /\ \/ \A f \in DOMAIN got[c] : got[c][f] = Unread
     \/ \A f \in DOMAIN got[c] : got[c][f] \notin {Unread, None}
  /\ UNCHANGED <<fsVars, callData, metrics, marks, skew>>

\* create_tmp, opening the temporary file for append, writing a chunk, and both
\* opens of the copy end the call, and the handler if there is one is dropped.
MissFails(c) ==
  /\ Fault
  /\ pc[c] \in {"open", "body", "copy"}
  /\ pc' = [pc EXCEPT ![c] = "error"]
  /\ tmp' = tmp \ {c}
  /\ UNCHANGED <<dir, body, file, bytes, callData, metrics, marks, skew>>

\* The write behind write_all fails after write_body has returned.
LandFails(c) ==
  /\ Fault
  /\ pend[c] > 0
  /\ pend' = [pend EXCEPT ![c] = 0]
  /\ Skew("fault", TRUE)
  /\ UNCHANGED <<dir, body, file, tmp, flen, callVars, metrics, marks>>

RenameFails(c) ==
  /\ Fault
  /\ Goto(c, "rename", "copy")
  /\ UNCHANGED <<fsVars, callData, metrics, marks, skew>>

\* The copy stops midway: a shorter body stays next to the old meta and hdr.
CopyFails(c) ==
  /\ Fault
  /\ Goto(c, "copying", "error")
  /\ \E n \in 0..flen[c] : flen' = [flen EXCEPT ![c] = n]
  /\ pend' = [pend EXCEPT ![c] = 0]
  /\ tmp' = tmp \ {c}
  /\ Race(key[c], TRUE) /\ Skew("fault", TRUE)
  /\ UNCHANGED <<dir, body, file, callData, metrics, metWriter, metPurge>>

\* fs::write fails to open the file, or to write it after truncating it.
PartFails(c) ==
  /\ Fault
  /\ pc[c] \in {"meta", "metaWrite", "hdr", "hdrWrite"}
  /\ pc' = [pc EXCEPT ![c] = "error"]
  /\ Race(key[c], TRUE) /\ Skew("fault", TRUE)
  /\ UNCHANGED <<fsVars, callData, metrics, metWriter, metPurge>>

\* Path::exists answers false on an error.
ExistsFails(c) ==
  /\ Fault
  /\ Goto(c, "exists", "none")
  /\ UNCHANGED <<fsVars, callData, metrics, marks, skew>>

\* purge goes on after any error.
PurgeFails(c) ==
  /\ Fault
  /\ \/ Goto(c, "unlink", "unmeta") \/ Goto(c, "unmeta", "unhdr")
     \/ Goto(c, "unhdr", "rmdir") \/ Goto(c, "rmdir", "ok")
  /\ UNCHANGED <<fsVars, callData, metrics, marks, skew>>

\* The future of get_miss_handler is dropped while the blocking pool has the
\* creation of the temporary file, which it may still complete: the handler whose
\* Drop would remove that file is never made.
CancelCreate(c) ==
  /\ Fault
  /\ Goto(c, "open", "orphan")
  /\ tmp' \in {tmp} \cup IF key[c] \in dir THEN {tmp \cup {c}} ELSE {}
  /\ UNCHANGED <<dir, body, file, bytes, callData, metrics, marks, skew>>

\* The future of finish or update_meta is dropped at an await, as a runtime that
\* shuts down does: what it has handed to the blocking pool completes, the rest is
\* not done, and Drop removes the temporary file.  A copy or a write dropped midway
\* ends as in CopyFails or PartFails; a lookup, or a purge past the body, is a call
\* that takes no further step.
Cancel(c) ==
  /\ Fault
  /\ pc[c] \in {"rename", "copy", "meta", "hdr", "account"}
  /\ pc' = [pc EXCEPT ![c] = "dropped"]
  /\ tmp' = tmp \ {c}
  /\ Race(key[c], pc[c] = "hdr" \/ (pc[c] = "meta" /\ ~Untouched(c)))
  /\ Skew("fault", TRUE)
  /\ UNCHANGED <<dir, body, file, bytes, callData, metrics, metWriter, metPurge>>

\* That of purge: the body may be gone by then, and no counter knows.
CancelPurge(c) ==
  /\ Fault
  /\ Goto(c, "unlink", "dropped")
  /\ \E b \in {body[key[c]], None} : body' = [body EXCEPT ![key[c]] = b]
  /\ Skew("fault", TRUE)
  /\ UNCHANGED <<dir, file, tmp, bytes, callData, metrics, marks>>

\* The process dies and a new one opens the same root, with zeroed counters and
\* the size that the last orderly shutdown of an earlier process persisted.
Crash ==
  /\ Fault
  /\ pc' = [c \in Calls |-> IF pc[c] \in LivePc \cup {"hit"} THEN "dead" ELSE pc[c]]
  /\ pend' = [c \in Calls |-> 0]
  /\ raced' = raced \cup {k \in Keys : \E c \in Writers(k) : ~Untouched(c)}
  /\ skew' = skew \cup {"restart"}
  /\ \E n \in 0..Cardinality(Keys) :
       metrics' = [f \in DOMAIN metrics |-> IF f = "size_bytes" THEN OldLen * n ELSE 0]
  /\ UNCHANGED <<dir, body, file, tmp, flen, callData, metWriter, metPurge>>

-----------------------------------------------------------------------------

LookupNext(c) == \/ \E k \in Keys : LookupStart(c, k)
                 \/ \E f \in {"meta", "hdr", "body"} : LookupRead(c, f)
                 \/ LookupEnd(c) \/ LookupFails(c)
MissNext(c) == \/ \E k \in Keys : MissStart(c, k)
               \/ CreateParent(c) \/ CreateTmp(c)
               \/ \E n \in ChunkSizes, is_eof \in BOOLEAN : WriteBody(c, n, is_eof)
               \/ Land(c) \/ Abandon(c) \/ MissFails(c) \/ LandFails(c)
               \/ CancelCreate(c)
FinishNext(c) == \/ FinishStart(c) \/ Rename(c) \/ RenameFails(c)
                 \/ CopyOpen(c) \/ Copy(c) \/ CopyFails(c) \/ FinishEnd(c)
PartsNext(c) == \/ \E p \in Parts : OpenPart(c, p) \/ WritePart(c, p)
                \/ PartFails(c)
UpdateNext(c) == \/ \E l \in Calls : UpdateStart(c, l)
                 \/ UpdateExists(c) \/ ExistsFails(c)
PurgeNext(c) == \/ \E k \in Keys : PurgeStart(c, k)
                \/ PurgeBody(c) \/ PurgeDir(c) \/ PurgeFails(c)
                \/ \E p \in Parts : PurgePart(c, p)

Next == \/ \E c \in Calls : \/ LookupNext(c) \/ MissNext(c) \/ FinishNext(c)
                             \/ PartsNext(c) \/ UpdateNext(c) \/ PurgeNext(c)
                             \/ Cancel(c) \/ CancelPurge(c)
        \/ Crash

Spec == Init /\ [][Next]_vars

-----------------------------------------------------------------------------
(* Properties *)

Counters == {"lookup_hits", "misses", "inserts", "purge_attempts", "evictions",
             "evicted_bytes", "size_bytes"}
FsTypeOK ==
  /\ dir \in SUBSET Keys /\ tmp \in SUBSET Calls
  /\ body \in [Keys -> Objects \cup {None}]
  /\ file \in [Parts -> [Keys -> File \cup {None}]]
  /\ flen \in [Objects -> Nat] /\ pend \in [Calls -> Nat]
CallTypeOK ==
  /\ kind \in [Calls -> {"none", "lookup", "miss", "update", "purge"}]
  /\ pc \in [Calls -> {"idle"} \cup LivePc \cup EndPc]
  /\ key \in [Calls -> Keys \cup {None}]
  /\ obj \in [Calls -> Objects] /\ fd \in [Calls -> Objects \cup {None}]
  /\ stat \in [Calls -> Nat] /\ wrote \in [Calls -> Nat]
  /\ got \in [Calls -> [meta : Stamp \cup {Torn, None, Unread},
                        hdr : Stamp \cup {Torn, None, Unread},
                        body : Objects \cup {None, Unread}]]
HistTypeOK ==
  /\ metrics \in [Counters -> Int]
  /\ faults \in Nat
  /\ metWriter \in SUBSET Calls /\ metPurge \in SUBSET Calls /\ raced \in SUBSET Keys
  /\ skew \in SUBSET {"overlap", "replaced", "late", "fault", "restart"}
\* Every variable has its type.
TypeOK == FsTypeOK /\ CallTypeOK /\ HistTypeOK

\* Purges may run at any point of a finish or an update_meta, and may fail
\* midway: as long as no two writers of a key overlapped (none failed, and none
\* brought stale metadata), the files left when no writer is at work belong to
\* one object and one serialisation of its metadata.
NoMixture == \A k \in Keys : k \notin raced /\ Writers(k) = {} => Agree(k)

\* A lookup reads its three files at three moments.  If no writer of the key was
\* at work between the first and the last of them, a hit it returns pairs a body
\* with the metadata of that very body, whatever purges did meanwhile.
HitMatches ==
  [][\A c \in Calls :
       (LookupEnd(c) /\ pc'[c] # "none" /\ c \notin metWriter /\ key[c] \notin raced)
       => /\ pc'[c] = "hit"
          /\ got[c].meta = got[c].hdr
          /\ got[c].meta.obj = got[c].body]_vars

\* A finish that met no other writer and no purge leaves an entry that a lookup
\* serves, all of it its own, even if the rename failed and it had to copy.
CommitVisible ==
  \A c \in Calls :
    pc[c] = "account" /\ c \notin metWriter \cup metPurge =>
      LET k == key[c] IN
      /\ body[k] = c
      /\ \A p \in Parts : file[p][k] # None /\ file[p][k].val = StampOf(c)

\* The last step of a purge that met no writer: nothing of the entry is left,
\* even if other purges ran beside it.
PurgeComplete ==
  [][\A c \in Calls :
       PurgeDir(c) /\ c \notin metWriter /\ faults = 0 =>
         /\ body[key[c]] = None
         /\ \A p \in Parts : file[p][key[c]] = None]_vars

\* When no body is being committed or purged, size_bytes is what is on the disk
\* unless a body was replaced, bytes still on their way escaped a purge's measure
\* or the copy, a purge overlapped a finish, an operation failed or the process
\* restarted; and the first two make it only too large.
SizeExplained ==
  (\A k \in Keys : Committers(k) = {} /\ Purgers(k) = {}) =>
    /\ skew = {} => metrics.size_bytes = DiskBytes
    /\ skew \subseteq {"replaced", "late"} => metrics.size_bytes >= DiskBytes

\* A temporary file lies in an existing directory and belongs to a miss handler that
\* is alive or died with its process, or to a get_miss_handler that was dropped while
\* it created the file ("orphan").  That drop leaves the file behind in a running
\* process; the end of a handler, failed or dropped at any point, never does as long
\* as it can remove a file.
TmpOwned ==
  \A c \in tmp :
    /\ kind[c] = "miss"
    /\ pc[c] \in {"body", "eof", "rename", "copy", "copying", "dead", "orphan"}
    /\ key[c] \in dir

=============================================================================
