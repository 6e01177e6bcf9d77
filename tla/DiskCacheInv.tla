---------------------------- MODULE DiskCacheInv ----------------------------
(* The inductive invariants of DiskCache: IInv, behind NoMixture, HitMatches, *)
(* CommitVisible and PurgeComplete, and SizeInv, behind SizeExplained.        *)
(* DiskCacheProofs proves them, MCDiskCache lets TLC check them.              *)
EXTENDS DiskCache

\* What a call is follows from where it is.
KindOK ==
  \A c \in Calls :
    /\ pc[c] # "idle" => key[c] \in Keys
    /\ pc[c] = "idle" => got[c] = [meta |-> Unread, hdr |-> Unread, body |-> Unread]
    /\ pc[c] = "idle" \/ kind[c] = "miss" => obj[c] = c
    /\ pc[c] \in {"create", "open", "body", "eof", "rename", "copy", "copying",
                 "account"} => kind[c] = "miss"
    /\ pc[c] = "exists" => kind[c] = "update"
    /\ pc[c] = "hit" =>
         got[c].meta \in Stamp /\ got[c].hdr \in Stamp /\ got[c].body \in Objects

\* No directory, no files.
FilesInDir ==
  \A k \in Keys \ dir : body[k] = None /\ \A p \in Parts : file[p][k] = None

\* The history variables record every overlap with a writer, and a key keeps
\* its mark until a finish that overlapped no writer has ended.
OverlapSeen ==
  \A c, d \in Calls :
    c # d /\ pc[c] \in WriterPc \cup {"lookup"} /\ pc[d] \in WriterPc /\ key[c] = key[d] =>
      /\ c \in metWriter
      /\ pc[c] \in WriterPc => key[c] \in raced
MetMeansRaced ==
  \A c \in Calls :
    /\ pc[c] \in WriterPc /\ c \in metWriter => key[c] \in raced
    /\ pc[c] \in {"idle", "create", "open", "body", "eof"} => c \notin metWriter

\* Program points at which the body is the caller's, meta is written, hdr is
\* written.
BodySet(c) == pc[c] \in {"copying", "meta", "metaWrite", "hdr", "hdrWrite", "account",
                         "exists"}
MetaSet(c) == pc[c] \in {"hdr", "hdrWrite", "account"}
HdrSet(c) == pc[c] = "account"

\* The files of a key under its only writer: what is there (a purge may have
\* removed any of it) is the writer's, as far as it has got.  An update_meta
\* can rely on the body only if the key is not raced.
WriterOK(c) ==
  LET k == key[c]
      sole == kind[c] = "miss" \/ k \notin raced
  IN
  /\ Untouched(c) /\ k \notin raced => Agree(k)
  /\ BodySet(c) /\ sole => body[k] \in {None, obj[c]}
  /\ pc[c] = "metaWrite" /\ sole /\ file["meta"][k] # None =>
       file["meta"][k].ino = fd[c] /\ file["meta"][k].val = Torn
  /\ pc[c] = "hdrWrite" /\ sole /\ file["hdr"][k] # None =>
       file["hdr"][k].ino = fd[c] /\ file["hdr"][k].val = Torn
  /\ MetaSet(c) /\ sole /\ file["meta"][k] # None => file["meta"][k].val = StampOf(c)
  /\ HdrSet(c) /\ sole /\ file["hdr"][k] # None => file["hdr"][k].val = StampOf(c)
WriterState ==
  \A c \in Calls : pc[c] \in WriterPc /\ c \notin metWriter => WriterOK(c)

\* What a lookup that met no writer has read agrees with itself and with the
\* files that are still there.
Unset == {None, Unread}
ReaderOK(c) ==
  LET k == key[c]
      g == got[c]
  IN \A p, q \in Parts :
       /\ g[p] # Torn
       /\ g[p] \notin Unset /\ g[q] \notin Unset => g[p] = g[q]
       /\ g[p] \notin Unset /\ file[q][k] # None => g[p] = file[q][k].val
       /\ g[p] \notin Unset /\ g.body \notin Unset => g[p].obj = g.body
       /\ g[p] \notin Unset /\ body[k] # None => g[p].obj = body[k]
       /\ file[q][k] # None /\ g.body \notin Unset => file[q][k].val.obj = g.body
ReaderState ==
  \A c \in Calls :
    pc[c] = "lookup" /\ c \notin metWriter /\ key[c] \notin raced => ReaderOK(c)

\* A writer and a purge of the same key have each recorded the other.
PurgeSeen ==
  \A c, d \in Calls :
    pc[c] \in WriterPc /\ pc[d] \in PurgePc /\ key[c] = key[d] =>
      c \in metPurge /\ d \in metWriter

\* What a finish that met neither has put in place is still there: the body from
\* the rename or the first byte of the copy on, meta and hdr once they are open.
AloneOK(c) ==
  LET k == key[c] IN
  /\ k \in dir
  /\ BodySet(c) => body[k] # None
  /\ pc[c] = "metaWrite" \/ MetaSet(c) => file["meta"][k] # None
  /\ pc[c] = "hdrWrite" \/ HdrSet(c) => file["hdr"][k] # None
AloneState ==
  \A c \in Calls :
    pc[c] \in WriterPc /\ kind[c] = "miss" /\ c \notin metWriter \cup metPurge => AloneOK(c)

\* Without errors, what a purge that met no writer has removed stays away.
PurgedOK(c) ==
  LET k == key[c] IN
  /\ pc[c] \in {"unmeta", "unhdr", "rmdir"} => body[k] = None
  /\ pc[c] \in {"unhdr", "rmdir"} => file["meta"][k] = None
  /\ pc[c] = "rmdir" => file["hdr"][k] = None
PurgedState ==
  \A c \in Calls :
    pc[c] \in PurgePc /\ c \notin metWriter /\ faults = 0 => PurgedOK(c)

IInv == /\ TypeOK /\ KindOK /\ FilesInDir /\ TmpOwned /\ OverlapSeen /\ MetMeansRaced
        /\ NoMixture /\ WriterState /\ ReaderState
        /\ PurgeSeen /\ AloneState /\ PurgedState

-----------------------------------------------------------------------------
(* The accounts, which SizeExplained follows from.  As long as whatever else   *)
(* can put them out (Explained) has not happened, size_bytes is what the       *)
(* bodies have and will get, less what finishes have yet to count.             *)

Explained == skew \subseteq {"replaced", "late"}

\* Bytes of k's body, in the file or on their way, also while it is copied.
Held(k) == IF body[k] = None THEN 0
           ELSE flen[body[k]] + IF body[k] \in Calls THEN pend[body[k]] ELSE 0
AllHeld == Total(Keys, [k \in Keys |-> Held(k)])

\* The finishes whose body is in place and not counted.
PlacedPc == {"copying", "meta", "metaWrite", "hdr", "hdrWrite", "account"}
Uncounted == {c \in Calls : kind[c] = "miss" /\ pc[c] \in PlacedPc}
Owed == Total(Uncounted, wrote)

\* A body was put in its place by a finish of its key.
PlacedOK ==
  \A k \in Keys : body[k] \in Calls =>
    /\ kind[body[k]] = "miss" /\ key[body[k]] = k
    /\ pc[body[k]] \in PlacedPc \cup EndPc

\* No purge takes a body away before it is counted.
OverlapOK == \A k \in Keys : Committers(k) = {} \/ Purgers(k) = {}
UncountedOK == IsFiniteSet(Uncounted) /\ \A c \in Uncounted : body[key[c]] # None

\* What write_body accepted is in the file or on its way, unless it came late.
WroteOK ==
  \A c \in Calls : /\ flen[c] + pend[c] <= wrote[c]
                   /\ "late" \notin skew => flen[c] + pend[c] = wrote[c]
\* What a purge will subtract is what the body has, unless it is gone.
StatOK ==
  \A c \in Calls :
    pc[c] = "unlink" /\ body[key[c]] # None =>
      /\ stat[c] <= Held(key[c])
      /\ "late" \notin skew => stat[c] = Held(key[c])
BooksOK == /\ metrics.size_bytes + Owed >= AllHeld
           /\ skew = {} => metrics.size_bytes + Owed = AllHeld

Accounts == PlacedOK /\ OverlapOK /\ UncountedOK /\ WroteOK /\ StatOK /\ BooksOK
SizeInv == Explained => Accounts

=============================================================================
