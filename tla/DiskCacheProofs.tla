--------------------------- MODULE DiskCacheProofs ---------------------------
(***************************************************************************)
(* DiskCache, for any keys, calls, chunk sizes and number of faults: IInv  *)
(* is an inductive invariant; NoMixture and TmpOwned are conjuncts of it,  *)
(* HitMatches, CommitVisible and PurgeComplete follow from it.  SizeInv is *)
(* inductive as well, and SizeExplained follows from it: most steps are    *)
(* Quiet, the others add to one side of the accounts what they add to the  *)
(* other.                                                                  *)
(*                                                                         *)
(* And DiskCache implements CacheEntry: ImplementsEntry is a theorem of    *)
(* EntrySpec.  There IInv carries over, EInv relates what a lookup has     *)
(* read to what its entry has been meanwhile, and every action is mapped   *)
(* to an action of CacheEntry, or to none, by what it does to the entry of *)
(* its key: it leaves it alone, unsettles it, ends a writer or removes it. *)
(***************************************************************************)
EXTENDS DiskCacheEntry, FiniteSetTheorems, TLAPS

(* The initial states: every entry is Old's, no call has started. *)
LEMMA InitInv == Init => IInv
<1> SUFFICES ASSUME Init PROVE IInv
  OBVIOUS
<1> USE DiskCacheAssumption DEF Init
<1>1. TypeOK
  <2>1. IsFiniteSet(dir)
    BY FS_Subset
  <2>2. metrics.size_bytes \in Int
    BY <2>1, FS_CardinalityType
  <2> QED
    BY <2>2 DEF TypeOK, FsTypeOK, CallTypeOK, HistTypeOK, Objects, File, Stamp, Parts,
           Counters
<1>2. KindOK /\ OverlapSeen /\ MetMeansRaced /\ WriterState /\ ReaderState
  BY DEF KindOK, OverlapSeen, MetMeansRaced, WriterState, ReaderState, WriterPc
<1>3. FilesInDir /\ TmpOwned
  BY DEF FilesInDir, TmpOwned, Parts
<1>4. NoMixture
  BY DEF NoMixture, Agree, Parts, File, Stamp, Objects
<1>5. PurgeSeen /\ AloneState /\ PurgedState
  BY DEF PurgeSeen, AloneState, PurgedState, WriterPc, PurgePc
<1> QED
  BY <1>1, <1>2, <1>3, <1>4, <1>5 DEF IInv

-----------------------------------------------------------------------------
(* Types *)

(* A step leaves the variables of the file system in their types.             *)
LEMMA FsTypeStep ==
  ASSUME TypeOK, KindOK, [Next]_vars
  PROVE FsTypeOK'
<1> USE DiskCacheAssumption DEF TypeOK, FsTypeOK, CallTypeOK, KindOK, Objects, Goto,
        Begin, fsVars, bytes, callVars, callData, ghostVars, marks
<1>1. ASSUME NEW c \in Calls, LookupNext(c) PROVE FsTypeOK'
  <2>1. ASSUME NEW k \in Keys, LookupStart(c, k) PROVE FsTypeOK'
    BY <2>1 DEF LookupStart
  <2>2. ASSUME NEW f \in {"meta", "hdr", "body"}, LookupRead(c, f) PROVE FsTypeOK'
    BY <2>2 DEF LookupRead
  <2>3. CASE LookupEnd(c)
    BY <2>3 DEF LookupEnd
  <2>4. CASE LookupFails(c)
    BY <2>4 DEF LookupFails
  <2> HIDE DEF FsTypeOK
  <2> QED
    BY <1>1, <2>1, <2>2, <2>3, <2>4 DEF LookupNext
<1>2. ASSUME NEW c \in Calls, MissNext(c) PROVE FsTypeOK'
  <2>1. ASSUME NEW k \in Keys, MissStart(c, k) PROVE FsTypeOK'
    BY <2>1 DEF MissStart
  <2>2. CASE CreateParent(c)
    BY <2>2 DEF CreateParent
  <2>3. CASE CreateTmp(c)
    BY <2>3 DEF CreateTmp
  <2>4. ASSUME NEW n \in ChunkSizes, NEW e \in BOOLEAN, WriteBody(c, n, e)
        PROVE FsTypeOK'
    BY <2>4, SMTT(30) DEF WriteBody
  <2>5. CASE Land(c)
    BY <2>5 DEF Land
  <2>6. CASE Abandon(c)
    BY <2>6 DEF Abandon
  <2>7. CASE MissFails(c) \/ CancelCreate(c)
    BY <2>7 DEF MissFails, CancelCreate
  <2>8. CASE LandFails(c)
    BY <2>8 DEF LandFails
  <2> HIDE DEF FsTypeOK
  <2> QED
    BY <1>2, <2>1, <2>2, <2>3, <2>4, <2>5, <2>6, <2>7, <2>8 DEF MissNext
<1>3. ASSUME NEW c \in Calls, FinishNext(c) PROVE FsTypeOK'
  <2>1. CASE FinishStart(c)
    BY <2>1 DEF FinishStart
  <2>2. CASE Rename(c)
    BY <2>2 DEF Rename
  <2>3. CASE RenameFails(c)
    BY <2>3 DEF RenameFails
  <2>4. CASE CopyOpen(c)
    BY <2>4 DEF CopyOpen
  <2>5. CASE Copy(c)
    BY <2>5 DEF Copy
  <2>6. CASE CopyFails(c)
    BY <2>6 DEF CopyFails
  <2>7. CASE FinishEnd(c)
    BY <2>7 DEF FinishEnd
  <2> HIDE DEF FsTypeOK
  <2> QED
    BY <1>3, <2>1, <2>2, <2>3, <2>4, <2>5, <2>6, <2>7 DEF FinishNext
<1>4. ASSUME NEW c \in Calls, PartsNext(c) PROVE FsTypeOK'
  <2>1. ASSUME NEW p \in Parts, OpenPart(c, p) PROVE FsTypeOK'
    <3>1. CASE key[c] \in dir
      <4> DEFINE ino == IF file[p][key[c]] = None THEN c ELSE file[p][key[c]].ino
      <4>1. [ino |-> ino, val |-> Torn] \in File
        <5>1. key[c] \in Keys
          BY <2>1 DEF OpenPart, Parts
        <5>2. file[p][key[c]] \in File \cup {None}
          BY <5>1
        <5>3. ino \in Objects
          BY <5>2 DEF File
        <5> QED
          BY <5>3 DEF File
      <4>2. file' = [file EXCEPT ![p][key[c]] = [ino |-> ino, val |-> Torn]]
        BY <2>1, <3>1 DEF OpenPart
      <4> HIDE DEF ino
      <4>3. file' \in [Parts -> [Keys -> File \cup {None}]]
        BY <4>1, <4>2
      <4> QED
        BY <2>1, <4>3 DEF OpenPart
    <3>2. CASE key[c] \notin dir
      BY <2>1, <3>2 DEF OpenPart
    <3> QED
      BY <3>1, <3>2
  <2>2. ASSUME NEW p \in Parts, WritePart(c, p) PROVE FsTypeOK'
    BY <2>2, SMTT(30) DEF WritePart, File, Stamp, StampOf, Parts
  <2>3. CASE PartFails(c)
    BY <2>3 DEF PartFails
  <2> HIDE DEF FsTypeOK
  <2> QED
    BY <1>4, <2>1, <2>2, <2>3 DEF PartsNext
<1>5. ASSUME NEW c \in Calls, UpdateNext(c) PROVE FsTypeOK'
  BY <1>5 DEF UpdateNext, UpdateStart, UpdateExists, ExistsFails
<1>6. ASSUME NEW c \in Calls, PurgeNext(c) PROVE FsTypeOK'
  <2>1. ASSUME NEW k \in Keys, PurgeStart(c, k) PROVE FsTypeOK'
    BY <2>1 DEF PurgeStart
  <2>2. CASE PurgeBody(c)
    BY <2>2 DEF PurgeBody
  <2>3. ASSUME NEW p \in Parts, PurgePart(c, p) PROVE FsTypeOK'
    BY <2>3 DEF PurgePart
  <2>4. CASE PurgeDir(c)
    BY <2>4 DEF PurgeDir
  <2>5. CASE PurgeFails(c)
    BY <2>5 DEF PurgeFails
  <2> HIDE DEF FsTypeOK
  <2> QED
    BY <1>6, <2>1, <2>2, <2>3, <2>4, <2>5 DEF PurgeNext
<1>7. CASE Crash
  BY <1>7 DEF Crash
<1>8. CASE UNCHANGED vars
  BY <1>8 DEF vars
<1>9. ASSUME NEW c \in Calls, Cancel(c) PROVE FsTypeOK'
  BY <1>9 DEF Cancel, Race
<1>10. ASSUME NEW c \in Calls, CancelPurge(c) PROVE FsTypeOK'
  BY <1>10 DEF CancelPurge
<1> HIDE DEF FsTypeOK
<1> QED
  BY <1>1, <1>2, <1>3, <1>4, <1>5, <1>6, <1>7, <1>8, <1>9, <1>10 DEF Next

(* A step leaves the variables of the calls in their types.                   *)
LEMMA CallTypeStep ==
  ASSUME TypeOK, KindOK, [Next]_vars
  PROVE CallTypeOK'
<1> USE DiskCacheAssumption DEF TypeOK, FsTypeOK, CallTypeOK, KindOK, Objects, Goto,
        Begin, LivePc, WriterPc, PurgePc, EndPc, fsVars, bytes, callVars, callData,
        ghostVars, marks
<1>1. ASSUME NEW c \in Calls, LookupNext(c) PROVE CallTypeOK'
  <2>1. ASSUME NEW k \in Keys, LookupStart(c, k) PROVE CallTypeOK'
    BY <2>1 DEF LookupStart
  <2>2. ASSUME NEW f \in {"meta", "hdr", "body"}, LookupRead(c, f) PROVE CallTypeOK'
    <3>1. /\ f = "body" => OnDisk(f, key[c]) \in Objects \cup {None}
          /\ f # "body" => OnDisk(f, key[c]) \in Stamp \cup {Torn, None}
      BY <2>2 DEF LookupRead, OnDisk, Parts, File
    <3>2. PICK v : /\ got' = [got EXCEPT ![c][f] = v]
                   /\ v = None \/ v = OnDisk(f, key[c])
      BY <2>2 DEF LookupRead
    <3>3. UNCHANGED <<kind, pc, key, obj, fd, stat, wrote>>
      BY <2>2 DEF LookupRead
    <3>4. got' \in [Calls -> [meta : Stamp \cup {Torn, None, Unread},
                             hdr : Stamp \cup {Torn, None, Unread},
                             body : Objects \cup {None, Unread}]]
      <4>1. CASE f = "body"
        <5>1. v \in Objects \cup {None}
          BY <3>1, <3>2, <4>1
        <5> QED
          BY <3>2, <4>1, <5>1
      <4>2. CASE f # "body"
        <5>1. v \in Stamp \cup {Torn, None, Unread}
          BY <3>1, <3>2, <4>2
        <5>2. got[c] \in [meta : Stamp \cup {Torn, None, Unread},
                         hdr : Stamp \cup {Torn, None, Unread},
                         body : Objects \cup {None, Unread}]
          OBVIOUS
        <5>3. [got[c] EXCEPT ![f] = v]
                \in [meta : Stamp \cup {Torn, None, Unread},
                    hdr : Stamp \cup {Torn, None, Unread},
                    body : Objects \cup {None, Unread}]
          BY <2>2, <4>2, <5>1, <5>2
        <5> QED
          BY <3>2, <5>3
      <4> QED
        BY <4>1, <4>2
    <3> QED
      BY <3>3, <3>4
  <2>3. CASE LookupEnd(c)
    <3>1. pc' = [pc EXCEPT ![c] = "hit"] \/ pc' = [pc EXCEPT ![c] = "error"]
          \/ pc' = [pc EXCEPT ![c] = "none"]
      BY <2>3 DEF LookupEnd
    <3>2. UNCHANGED callData
      BY <2>3 DEF LookupEnd
    <3> QED
      BY <3>1, <3>2
  <2>4. CASE LookupFails(c)
    BY <2>4 DEF LookupFails
  <2> HIDE DEF CallTypeOK
  <2> QED
    BY <1>1, <2>1, <2>2, <2>3, <2>4 DEF LookupNext
<1>2. ASSUME NEW c \in Calls, MissNext(c) PROVE CallTypeOK'
  <2>1. ASSUME NEW k \in Keys, MissStart(c, k) PROVE CallTypeOK'
    BY <2>1 DEF MissStart
  <2>2. CASE CreateParent(c)
    BY <2>2 DEF CreateParent
  <2>3. CASE CreateTmp(c)
    <3>1. pc' = [pc EXCEPT ![c] = "body"] \/ pc' = [pc EXCEPT ![c] = "error"]
      BY <2>3 DEF CreateTmp
    <3>2. UNCHANGED callData
      BY <2>3 DEF CreateTmp
    <3> QED
      BY <3>1, <3>2, SMTT(30)
  <2>4. ASSUME NEW n \in ChunkSizes, NEW e \in BOOLEAN, WriteBody(c, n, e)
        PROVE CallTypeOK'
    BY <2>4 DEF WriteBody
  <2>5. CASE Land(c)
    BY <2>5 DEF Land
  <2>6. CASE Abandon(c)
    BY <2>6 DEF Abandon
  <2>7. CASE MissFails(c) \/ CancelCreate(c)
    BY <2>7 DEF MissFails, CancelCreate
  <2>8. CASE LandFails(c)
    BY <2>8 DEF LandFails
  <2> HIDE DEF CallTypeOK
  <2> QED
    BY <1>2, <2>1, <2>2, <2>3, <2>4, <2>5, <2>6, <2>7, <2>8 DEF MissNext
<1>3. ASSUME NEW c \in Calls, FinishNext(c) PROVE CallTypeOK'
  <2>1. CASE FinishStart(c)
    BY <2>1 DEF FinishStart
  <2>2. CASE Rename(c)
    BY <2>2 DEF Rename
  <2>3. CASE RenameFails(c)
    BY <2>3 DEF RenameFails
  <2>4. CASE CopyOpen(c)
    BY <2>4 DEF CopyOpen
  <2>5. CASE Copy(c)
    BY <2>5 DEF Copy
  <2>6. CASE CopyFails(c)
    BY <2>6 DEF CopyFails
  <2>7. CASE FinishEnd(c)
    BY <2>7 DEF FinishEnd
  <2> HIDE DEF CallTypeOK
  <2> QED
    BY <1>3, <2>1, <2>2, <2>3, <2>4, <2>5, <2>6, <2>7 DEF FinishNext
<1>4. ASSUME NEW c \in Calls, PartsNext(c) PROVE CallTypeOK'
  <2>1. ASSUME NEW p \in Parts, OpenPart(c, p) PROVE CallTypeOK'
    <3>1. PICK q \in {"metaWrite", "hdrWrite", "error"} : pc' = [pc EXCEPT ![c] = q]
      BY <2>1 DEF OpenPart
    <3>2. PICK o \in Objects \cup {None} : fd' = fd \/ fd' = [fd EXCEPT ![c] = o]
      <4>1. CASE file[p][key[c]] = None
        BY <2>1, <4>1 DEF OpenPart, File, Parts
      <4>2. CASE file[p][key[c]] # None
        BY <2>1, <4>2 DEF OpenPart, File, Parts
      <4> QED
        BY <4>1, <4>2
    <3>3. UNCHANGED <<kind, key, obj, stat, got, wrote>>
      BY <2>1 DEF OpenPart
    <3>4. pc' \in [Calls -> {"idle"} \cup LivePc \cup EndPc]
      BY <3>1
    <3>5. fd' \in [Calls -> Objects \cup {None}]
      BY <3>2
    <3> QED
      BY <3>3, <3>4, <3>5
  <2>2. ASSUME NEW p \in Parts, WritePart(c, p) PROVE CallTypeOK'
    BY <2>2 DEF WritePart, Parts
  <2>3. CASE PartFails(c)
    BY <2>3 DEF PartFails
  <2> HIDE DEF CallTypeOK
  <2> QED
    BY <1>4, <2>1, <2>2, <2>3 DEF PartsNext
<1>5. ASSUME NEW c \in Calls, UpdateNext(c) PROVE CallTypeOK'
  <2>1. ASSUME NEW l \in Calls, UpdateStart(c, l) PROVE CallTypeOK'
    BY <2>1 DEF UpdateStart, Stamp
  <2>2. CASE UpdateExists(c)
    BY <2>2 DEF UpdateExists
  <2>3. CASE ExistsFails(c)
    BY <2>3 DEF ExistsFails
  <2> HIDE DEF CallTypeOK
  <2> QED
    BY <1>5, <2>1, <2>2, <2>3 DEF UpdateNext
<1>6. ASSUME NEW c \in Calls, PurgeNext(c) PROVE CallTypeOK'
  <2>1. ASSUME NEW k \in Keys, PurgeStart(c, k) PROVE CallTypeOK'
    <3>1. BodyLen(k) \in Nat
      BY DEF BodyLen
    <3>2. stat' = [stat EXCEPT ![c] = BodyLen(k)] \/ stat' = [stat EXCEPT ![c] = 0]
      BY <2>1 DEF PurgeStart
    <3>3. stat' \in [Calls -> Nat]
      BY <3>1, <3>2
    <3> QED
      BY <2>1, <3>3 DEF PurgeStart
  <2>2. CASE PurgeBody(c)
    BY <2>2 DEF PurgeBody
  <2>3. ASSUME NEW p \in Parts, PurgePart(c, p) PROVE CallTypeOK'
    BY <2>3, SMTT(30) DEF PurgePart
  <2>4. CASE PurgeDir(c)
    BY <2>4 DEF PurgeDir
  <2>5. CASE PurgeFails(c)
    BY <2>5, ZenonT(30) DEF PurgeFails
  <2> HIDE DEF CallTypeOK
  <2> QED
    BY <1>6, <2>1, <2>2, <2>3, <2>4, <2>5 DEF PurgeNext
<1>7. CASE Crash
  BY <1>7 DEF Crash
<1>8. CASE UNCHANGED vars
  BY <1>8 DEF vars
<1>9. ASSUME NEW c \in Calls, Cancel(c) PROVE CallTypeOK'
  BY <1>9 DEF Cancel, Race
<1>10. ASSUME NEW c \in Calls, CancelPurge(c) PROVE CallTypeOK'
  BY <1>10 DEF CancelPurge
<1> HIDE DEF CallTypeOK
<1> QED
  BY <1>1, <1>2, <1>3, <1>4, <1>5, <1>6, <1>7, <1>8, <1>9, <1>10 DEF Next

(* A step leaves the counters and the history in their types.                 *)
LEMMA HistTypeStep ==
  ASSUME TypeOK, KindOK, [Next]_vars
  PROVE HistTypeOK'
<1> USE DiskCacheAssumption DEF TypeOK, CallTypeOK, HistTypeOK, KindOK, Goto, Fault,
        Count, Race, Skew, fsVars, bytes, callVars, callData, ghostVars, marks
<1>1. ASSUME NEW c \in Calls, LookupNext(c) PROVE HistTypeOK'
  <2>1. ASSUME NEW k \in Keys, LookupStart(c, k) PROVE HistTypeOK'
    BY <2>1 DEF LookupStart, Begin, MeetAsReader, Writers, Active
  <2>2. ASSUME NEW f \in {"meta", "hdr", "body"}, LookupRead(c, f) PROVE HistTypeOK'
    BY <2>2 DEF LookupRead
  <2>3. CASE LookupEnd(c)
    BY <2>3 DEF LookupEnd, Counters
  <2>4. CASE LookupFails(c)
    BY <2>4 DEF LookupFails
  <2> HIDE DEF HistTypeOK
  <2> QED
    BY <1>1, <2>1, <2>2, <2>3, <2>4 DEF LookupNext
<1>2. ASSUME NEW c \in Calls, MissNext(c) PROVE HistTypeOK'
  <2>1. ASSUME NEW k \in Keys, MissStart(c, k) PROVE HistTypeOK'
    BY <2>1 DEF MissStart, Begin, Counters
  <2>2. CASE CreateParent(c)
    BY <2>2 DEF CreateParent
  <2>3. CASE CreateTmp(c)
    BY <2>3 DEF CreateTmp
  <2>4. ASSUME NEW n \in ChunkSizes, NEW e \in BOOLEAN, WriteBody(c, n, e)
        PROVE HistTypeOK'
    BY <2>4 DEF WriteBody
  <2>5. CASE Land(c)
    BY <2>5 DEF Land
  <2>6. CASE Abandon(c)
    BY <2>6 DEF Abandon
  <2>7. CASE MissFails(c) \/ CancelCreate(c)
    <3>1. CASE MissFails(c)
      BY <3>1 DEF MissFails
    <3>2. CASE CancelCreate(c)
      BY <3>2 DEF CancelCreate
    <3> QED
      BY <2>7, <3>1, <3>2
  <2>8. CASE LandFails(c)
    BY <2>8 DEF LandFails
  <2> HIDE DEF HistTypeOK
  <2> QED
    BY <1>2, <2>1, <2>2, <2>3, <2>4, <2>5, <2>6, <2>7, <2>8 DEF MissNext
<1>3. ASSUME NEW c \in Calls, FinishNext(c) PROVE HistTypeOK'
  <2>1. CASE FinishStart(c)
    BY <2>1 DEF FinishStart, MeetAsWriter, Writers, Purgers, Readers, Active
  <2>2. CASE Rename(c)
    BY <2>2 DEF Rename
  <2>3. CASE RenameFails(c)
    BY <2>3 DEF RenameFails
  <2>4. CASE CopyOpen(c)
    BY <2>4 DEF CopyOpen
  <2>5. CASE Copy(c)
    BY <2>5 DEF Copy
  <2>6. CASE CopyFails(c)
    BY <2>6 DEF CopyFails
  <2>7. CASE FinishEnd(c)
    <3>1. metrics' = [metrics EXCEPT !["inserts"] = metrics["inserts"] + 1,
                                     !["size_bytes"] = metrics["size_bytes"] + wrote[c]]
      BY <2>7 DEF FinishEnd
    <3>2. raced' \in SUBSET Keys /\ UNCHANGED <<faults, metWriter, metPurge, skew>>
      BY <2>7 DEF FinishEnd
    <3>3. metrics["inserts"] + 1 \in Int /\ metrics["size_bytes"] + wrote[c] \in Int
      BY DEF Counters
    <3>4. \A u, v \in Int :
            [metrics EXCEPT !["inserts"] = u, !["size_bytes"] = v] \in [Counters -> Int]
      OBVIOUS
    <3>5. metrics' \in [Counters -> Int]
      BY <3>1, <3>3, <3>4, Zenon
    <3> QED
      BY <3>2, <3>5
  <2> HIDE DEF HistTypeOK
  <2> QED
    BY <1>3, <2>1, <2>2, <2>3, <2>4, <2>5, <2>6, <2>7 DEF FinishNext
<1>4. ASSUME NEW c \in Calls, PartsNext(c) PROVE HistTypeOK'
  BY <1>4 DEF PartsNext, OpenPart, WritePart, PartFails
<1>5. ASSUME NEW c \in Calls, UpdateNext(c) PROVE HistTypeOK'
  <2>1. ASSUME NEW l \in Calls, UpdateStart(c, l) PROVE HistTypeOK'
    BY <2>1 DEF UpdateStart, Begin, MeetAsWriter, Writers, Purgers, Readers, Active
  <2>2. CASE UpdateExists(c)
    BY <2>2 DEF UpdateExists
  <2>3. CASE ExistsFails(c)
    BY <2>3 DEF ExistsFails
  <2> HIDE DEF HistTypeOK
  <2> QED
    BY <1>5, <2>1, <2>2, <2>3 DEF UpdateNext
<1>6. ASSUME NEW c \in Calls, PurgeNext(c) PROVE HistTypeOK'
  <2>1. ASSUME NEW k \in Keys, PurgeStart(c, k) PROVE HistTypeOK'
    <3>1. metrics' \in [Counters -> Int]
      BY <2>1 DEF PurgeStart, Counters
    <3>2. metWriter' \in SUBSET Calls /\ metPurge' \in SUBSET Calls /\ raced' \in SUBSET Keys
      BY <2>1 DEF PurgeStart, MeetAsPurge, Writers, Purgers, Active
    <3>3. faults' \in Nat
      BY <2>1 DEF PurgeStart
    <3>4. skew' \in SUBSET {"overlap", "replaced", "late", "fault", "restart"}
      BY <2>1, ZenonT(30) DEF PurgeStart
    <3> QED
      BY <3>1, <3>2, <3>3, <3>4
  <2>2. CASE PurgeBody(c)
    <3> DEFINE u == metrics["evictions"] + 1
               v == metrics["evicted_bytes"] + stat[c]
               w == metrics["size_bytes"] - stat[c]
    <3>1. metrics' = metrics
          \/ metrics' = [metrics EXCEPT !["evictions"] = u, !["evicted_bytes"] = v,
                                        !["size_bytes"] = w]
      BY <2>2 DEF PurgeBody
    <3>2. UNCHANGED ghostVars
      BY <2>2 DEF PurgeBody
    <3>3. u \in Int /\ v \in Int /\ w \in Int
      BY DEF Counters
    <3> HIDE DEF u, v, w
    <3>4. metrics' \in [Counters -> Int]
      BY <3>1, <3>3, SMTT(30)
    <3> QED
      BY <3>2, <3>4
  <2>3. ASSUME NEW p \in Parts, PurgePart(c, p) PROVE HistTypeOK'
    BY <2>3 DEF PurgePart
  <2>4. CASE PurgeDir(c)
    BY <2>4 DEF PurgeDir
  <2>5. CASE PurgeFails(c)
    BY <2>5 DEF PurgeFails
  <2> HIDE DEF HistTypeOK
  <2> QED
    BY <1>6, <2>1, <2>2, <2>3, <2>4, <2>5 DEF PurgeNext
<1>7. CASE Crash
  <2>1. PICK n \in 0..Cardinality(Keys) :
          metrics' = [f \in DOMAIN metrics |-> IF f = "size_bytes" THEN OldLen * n ELSE 0]
    BY <1>7 DEF Crash
  <2>2. OldLen * n \in Int
    OBVIOUS
  <2>3. metrics' \in [DOMAIN metrics -> Int]
    BY <2>1, <2>2
  <2> QED
    BY <1>7, <2>3 DEF Crash
<1>8. CASE UNCHANGED vars
  BY <1>8 DEF vars
<1>9. ASSUME NEW c \in Calls, Cancel(c) PROVE HistTypeOK'
  BY <1>9 DEF Cancel
<1>10. ASSUME NEW c \in Calls, CancelPurge(c) PROVE HistTypeOK'
  BY <1>10 DEF CancelPurge
<1> HIDE DEF HistTypeOK
<1> QED
  BY <1>1, <1>2, <1>3, <1>4, <1>5, <1>6, <1>7, <1>8, <1>9, <1>10 DEF Next

-----------------------------------------------------------------------------
(* Calls and files *)

(* A call's kind and key stay as its program point requires.                  *)
LEMMA KindStep ==
  ASSUME TypeOK, KindOK, [Next]_vars
  PROVE KindOK'
<1> USE DiskCacheAssumption DEF TypeOK, FsTypeOK, CallTypeOK, KindOK, Objects, Goto,
        LivePc, WriterPc, PurgePc, EndPc, fsVars, bytes, callVars, callData,
        ghostVars, marks
<1>1. ASSUME NEW c \in Calls, LookupNext(c) PROVE KindOK'
  <2>1. ASSUME NEW k \in Keys, LookupStart(c, k) PROVE KindOK'
    BY <2>1 DEF LookupStart, Begin, MeetAsReader
  <2>2. ASSUME NEW f \in {"meta", "hdr", "body"}, LookupRead(c, f) PROVE KindOK'
    <3>1. UNCHANGED <<kind, pc, key, obj>> /\ pc[c] = "lookup"
      BY <2>2 DEF LookupRead
    <3>2. \A d \in Calls : d # c => got'[d] = got[d]
      BY <2>2 DEF LookupRead
    <3> QED
      BY <3>1, <3>2
  <2>3. CASE LookupEnd(c)
    BY <2>3 DEF LookupEnd
  <2>4. CASE LookupFails(c)
    BY <2>4 DEF LookupFails
  <2> HIDE DEF KindOK
  <2> QED
    BY <1>1, <2>1, <2>2, <2>3, <2>4 DEF LookupNext
<1>2. ASSUME NEW c \in Calls, MissNext(c) PROVE KindOK'
  <2>1. ASSUME NEW k \in Keys, MissStart(c, k) PROVE KindOK'
    BY <2>1 DEF MissStart, Begin
  <2>2. CASE CreateParent(c)
    BY <2>2 DEF CreateParent
  <2>3. CASE CreateTmp(c)
    BY <2>3 DEF CreateTmp
  <2>4. ASSUME NEW n \in ChunkSizes, NEW e \in BOOLEAN, WriteBody(c, n, e) PROVE KindOK'
    BY <2>4 DEF WriteBody
  <2>5. CASE Land(c)
    BY <2>5 DEF Land
  <2>6. CASE Abandon(c)
    BY <2>6 DEF Abandon
  <2>7. CASE MissFails(c) \/ CancelCreate(c)
    BY <2>7 DEF MissFails, CancelCreate
  <2>8. CASE LandFails(c)
    BY <2>8 DEF LandFails
  <2> HIDE DEF KindOK
  <2> QED
    BY <1>2, <2>1, <2>2, <2>3, <2>4, <2>5, <2>6, <2>7, <2>8 DEF MissNext
<1>3. ASSUME NEW c \in Calls, FinishNext(c) PROVE KindOK'
  <2>1. CASE FinishStart(c)
    BY <2>1 DEF FinishStart, MeetAsWriter, Race
  <2>2. CASE Rename(c)
    BY <2>2 DEF Rename
  <2>3. CASE RenameFails(c)
    BY <2>3 DEF RenameFails
  <2>4. CASE CopyOpen(c)
    BY <2>4 DEF CopyOpen
  <2>5. CASE Copy(c)
    BY <2>5 DEF Copy
  <2>6. CASE CopyFails(c)
    BY <2>6 DEF CopyFails, Race
  <2>7. CASE FinishEnd(c)
    BY <2>7 DEF FinishEnd
  <2> HIDE DEF KindOK
  <2> QED
    BY <1>3, <2>1, <2>2, <2>3, <2>4, <2>5, <2>6, <2>7 DEF FinishNext
<1>4. ASSUME NEW c \in Calls, PartsNext(c) PROVE KindOK'
  <2>1. ASSUME NEW p \in Parts, OpenPart(c, p) PROVE KindOK'
    BY <2>1 DEF OpenPart, Parts
  <2>2. ASSUME NEW p \in Parts, WritePart(c, p) PROVE KindOK'
    BY <2>2 DEF WritePart, Parts
  <2>3. CASE PartFails(c)
    BY <2>3 DEF PartFails, Race
  <2> HIDE DEF KindOK
  <2> QED
    BY <1>4, <2>1, <2>2, <2>3 DEF PartsNext
<1>5. ASSUME NEW c \in Calls, UpdateNext(c) PROVE KindOK'
  <2>1. ASSUME NEW l \in Calls, UpdateStart(c, l) PROVE KindOK'
    BY <2>1 DEF UpdateStart, Begin, MeetAsWriter, Race
  <2>2. CASE UpdateExists(c)
    BY <2>2 DEF UpdateExists
  <2>3. CASE ExistsFails(c)
    BY <2>3 DEF ExistsFails
  <2> HIDE DEF KindOK
  <2> QED
    BY <1>5, <2>1, <2>2, <2>3 DEF UpdateNext
<1>6. ASSUME NEW c \in Calls, PurgeNext(c) PROVE KindOK'
  <2>1. ASSUME NEW k \in Keys, PurgeStart(c, k) PROVE KindOK'
    BY <2>1 DEF PurgeStart, Begin, MeetAsPurge
  <2>2. CASE PurgeBody(c)
    BY <2>2 DEF PurgeBody
  <2>3. ASSUME NEW p \in Parts, PurgePart(c, p) PROVE KindOK'
    BY <2>3 DEF PurgePart
  <2>4. CASE PurgeDir(c)
    BY <2>4 DEF PurgeDir
  <2>5. CASE PurgeFails(c)
    BY <2>5 DEF PurgeFails
  <2> HIDE DEF KindOK
  <2> QED
    BY <1>6, <2>1, <2>2, <2>3, <2>4, <2>5 DEF PurgeNext
<1>7. CASE Crash
  BY <1>7 DEF Crash
<1>8. CASE UNCHANGED vars
  BY <1>8 DEF vars
<1>9. ASSUME NEW c \in Calls, Cancel(c) PROVE KindOK'
  BY <1>9 DEF Cancel, Race
<1>10. ASSUME NEW c \in Calls, CancelPurge(c) PROVE KindOK'
  BY <1>10 DEF CancelPurge
<1> HIDE DEF KindOK
<1> QED
  BY <1>1, <1>2, <1>3, <1>4, <1>5, <1>6, <1>7, <1>8, <1>9, <1>10 DEF Next

(* No file of a key appears without its directory, which no purge removes     *)
(* from under it.                                                             *)
LEMMA FilesInDirStep ==
  ASSUME TypeOK, KindOK, FilesInDir, [Next]_vars
  PROVE FilesInDir'
<1> USE DiskCacheAssumption DEF TypeOK, FsTypeOK, CallTypeOK, KindOK, FilesInDir,
        Goto, fsVars, bytes, callVars, callData, ghostVars, marks
<1>1. ASSUME NEW c \in Calls, LookupNext(c) PROVE FilesInDir'
  <2>1. ASSUME NEW k \in Keys, LookupStart(c, k) PROVE FilesInDir'
    BY <2>1 DEF LookupStart, Begin, MeetAsReader
  <2>2. ASSUME NEW f \in {"meta", "hdr", "body"}, LookupRead(c, f) PROVE FilesInDir'
    BY <2>2 DEF LookupRead
  <2>3. CASE LookupEnd(c)
    BY <2>3 DEF LookupEnd
  <2>4. CASE LookupFails(c)
    BY <2>4 DEF LookupFails
  <2> HIDE DEF FilesInDir
  <2> QED
    BY <1>1, <2>1, <2>2, <2>3, <2>4 DEF LookupNext
<1>2. ASSUME NEW c \in Calls, MissNext(c) PROVE FilesInDir'
  <2>1. ASSUME NEW k \in Keys, MissStart(c, k) PROVE FilesInDir'
    BY <2>1 DEF MissStart, Begin
  <2>2. CASE CreateParent(c)
    BY <2>2 DEF CreateParent
  <2>3. CASE CreateTmp(c)
    BY <2>3 DEF CreateTmp
  <2>4. ASSUME NEW n \in ChunkSizes, NEW e \in BOOLEAN, WriteBody(c, n, e)
        PROVE FilesInDir'
    BY <2>4 DEF WriteBody
  <2>5. CASE Land(c)
    BY <2>5 DEF Land
  <2>6. CASE Abandon(c)
    BY <2>6 DEF Abandon
  <2>7. CASE MissFails(c) \/ CancelCreate(c)
    BY <2>7 DEF MissFails, CancelCreate
  <2>8. CASE LandFails(c)
    BY <2>8 DEF LandFails
  <2> HIDE DEF FilesInDir
  <2> QED
    BY <1>2, <2>1, <2>2, <2>3, <2>4, <2>5, <2>6, <2>7, <2>8 DEF MissNext
<1>3. ASSUME NEW c \in Calls, FinishNext(c) PROVE FilesInDir'
  <2>1. CASE FinishStart(c)
    BY <2>1 DEF FinishStart, MeetAsWriter, Race
  <2>2. CASE Rename(c)
    BY <2>2 DEF Rename
  <2>3. CASE RenameFails(c)
    BY <2>3 DEF RenameFails
  <2>4. CASE CopyOpen(c)
    BY <2>4 DEF CopyOpen
  <2>5. CASE Copy(c)
    BY <2>5 DEF Copy
  <2>6. CASE CopyFails(c)
    BY <2>6 DEF CopyFails, Race
  <2>7. CASE FinishEnd(c)
    BY <2>7 DEF FinishEnd
  <2> HIDE DEF FilesInDir
  <2> QED
    BY <1>3, <2>1, <2>2, <2>3, <2>4, <2>5, <2>6, <2>7 DEF FinishNext
<1>4. ASSUME NEW c \in Calls, PartsNext(c) PROVE FilesInDir'
  <2>1. ASSUME NEW p \in Parts, OpenPart(c, p) PROVE FilesInDir'
    <3>1. UNCHANGED <<dir, body>>
      BY <2>1 DEF OpenPart
    <3>2. ASSUME NEW k \in Keys, k \notin dir, NEW q \in Parts PROVE file'[q][k] = None
      <4>1. file[q][k] = None
        BY <3>2
      <4>2. file' = file \/ (key[c] \in dir /\ \E v : file' = [file EXCEPT ![p][key[c]] = v])
        BY <2>1 DEF OpenPart
      <4> QED
        BY <3>2, <4>1, <4>2, SMTT(30)
    <3> QED
      BY <3>1, <3>2
  <2>2. ASSUME NEW p \in Parts, WritePart(c, p) PROVE FilesInDir'
    BY <2>2, SMTT(30) DEF WritePart
  <2>3. CASE PartFails(c)
    BY <2>3 DEF PartFails, Race
  <2> HIDE DEF FilesInDir
  <2> QED
    BY <1>4, <2>1, <2>2, <2>3 DEF PartsNext
<1>5. ASSUME NEW c \in Calls, UpdateNext(c) PROVE FilesInDir'
  <2>1. ASSUME NEW l \in Calls, UpdateStart(c, l) PROVE FilesInDir'
    BY <2>1 DEF UpdateStart, Begin, MeetAsWriter, Race
  <2>2. CASE UpdateExists(c)
    BY <2>2 DEF UpdateExists
  <2>3. CASE ExistsFails(c)
    BY <2>3 DEF ExistsFails
  <2> HIDE DEF FilesInDir
  <2> QED
    BY <1>5, <2>1, <2>2, <2>3 DEF UpdateNext
<1>6. ASSUME NEW c \in Calls, PurgeNext(c) PROVE FilesInDir'
  <2>1. ASSUME NEW k \in Keys, PurgeStart(c, k) PROVE FilesInDir'
    BY <2>1 DEF PurgeStart, Begin, MeetAsPurge
  <2>2. CASE PurgeBody(c)
    BY <2>2 DEF PurgeBody
  <2>3. ASSUME NEW p \in Parts, PurgePart(c, p) PROVE FilesInDir'
    BY <2>3 DEF PurgePart
  <2>4. CASE PurgeDir(c)
    BY <2>4 DEF PurgeDir, Empty
  <2>5. CASE PurgeFails(c)
    BY <2>5 DEF PurgeFails
  <2> HIDE DEF FilesInDir
  <2> QED
    BY <1>6, <2>1, <2>2, <2>3, <2>4, <2>5 DEF PurgeNext
<1>7. CASE Crash
  BY <1>7 DEF Crash
<1>8. CASE UNCHANGED vars
  BY <1>8 DEF vars
<1>9. ASSUME NEW c \in Calls, Cancel(c) PROVE FilesInDir'
  BY <1>9 DEF Cancel, Race
<1>10. ASSUME NEW c \in Calls, CancelPurge(c) PROVE FilesInDir'
  BY <1>10 DEF CancelPurge
<1> HIDE DEF FilesInDir
<1> QED
  BY <1>1, <1>2, <1>3, <1>4, <1>5, <1>6, <1>7, <1>8, <1>9, <1>10 DEF Next

(* Every way out of a miss handler takes its temporary file along.            *)
LEMMA TmpOwnedStep ==
  ASSUME TypeOK, KindOK, TmpOwned, [Next]_vars
  PROVE TmpOwned'
<1> USE DiskCacheAssumption DEF TypeOK, FsTypeOK, CallTypeOK, KindOK, TmpOwned, Goto,
        LivePc, WriterPc, PurgePc, EndPc, fsVars, bytes, callVars, callData,
        ghostVars, marks
<1>1. ASSUME NEW c \in Calls, LookupNext(c) PROVE TmpOwned'
  <2>1. ASSUME NEW k \in Keys, LookupStart(c, k) PROVE TmpOwned'
    BY <2>1 DEF LookupStart, Begin, MeetAsReader
  <2>2. ASSUME NEW f \in {"meta", "hdr", "body"}, LookupRead(c, f) PROVE TmpOwned'
    BY <2>2 DEF LookupRead
  <2>3. CASE LookupEnd(c)
    BY <2>3 DEF LookupEnd
  <2>4. CASE LookupFails(c)
    BY <2>4 DEF LookupFails
  <2> HIDE DEF TmpOwned
  <2> QED
    BY <1>1, <2>1, <2>2, <2>3, <2>4 DEF LookupNext
<1>2. ASSUME NEW c \in Calls, MissNext(c) PROVE TmpOwned'
  <2>1. ASSUME NEW k \in Keys, MissStart(c, k) PROVE TmpOwned'
    BY <2>1 DEF MissStart, Begin
  <2>2. CASE CreateParent(c)
    BY <2>2 DEF CreateParent
  <2>3. CASE CreateTmp(c)
    BY <2>3 DEF CreateTmp
  <2>4. ASSUME NEW n \in ChunkSizes, NEW e \in BOOLEAN, WriteBody(c, n, e)
        PROVE TmpOwned'
    BY <2>4 DEF WriteBody
  <2>5. CASE Land(c)
    BY <2>5 DEF Land
  <2>6. CASE Abandon(c)
    BY <2>6 DEF Abandon
  <2>7. CASE MissFails(c) \/ CancelCreate(c)
    BY <2>7 DEF MissFails, CancelCreate
  <2>8. CASE LandFails(c)
    BY <2>8 DEF LandFails
  <2> HIDE DEF TmpOwned
  <2> QED
    BY <1>2, <2>1, <2>2, <2>3, <2>4, <2>5, <2>6, <2>7, <2>8 DEF MissNext
<1>3. ASSUME NEW c \in Calls, FinishNext(c) PROVE TmpOwned'
  <2>1. CASE FinishStart(c)
    BY <2>1 DEF FinishStart, MeetAsWriter, Race
  <2>2. CASE Rename(c)
    BY <2>2 DEF Rename
  <2>3. CASE RenameFails(c)
    BY <2>3 DEF RenameFails
  <2>4. CASE CopyOpen(c)
    BY <2>4 DEF CopyOpen
  <2>5. CASE Copy(c)
    BY <2>5 DEF Copy
  <2>6. CASE CopyFails(c)
    BY <2>6 DEF CopyFails, Race
  <2>7. CASE FinishEnd(c)
    BY <2>7 DEF FinishEnd
  <2> HIDE DEF TmpOwned
  <2> QED
    BY <1>3, <2>1, <2>2, <2>3, <2>4, <2>5, <2>6, <2>7 DEF FinishNext
<1>4. ASSUME NEW c \in Calls, PartsNext(c) PROVE TmpOwned'
  <2>1. ASSUME NEW p \in Parts, OpenPart(c, p) PROVE TmpOwned'
    <3>1. PICK q \in {"metaWrite", "hdrWrite", "error"} : pc' = [pc EXCEPT ![c] = q]
      BY <2>1 DEF OpenPart
    <3>2. pc[c] \in {"meta", "hdr"} /\ UNCHANGED <<tmp, kind, key, dir>>
      BY <2>1 DEF OpenPart, Parts
    <3> QED
      BY <3>1, <3>2
  <2>2. ASSUME NEW p \in Parts, WritePart(c, p) PROVE TmpOwned'
    BY <2>2 DEF WritePart, Parts
  <2>3. CASE PartFails(c)
    BY <2>3 DEF PartFails, Race
  <2> HIDE DEF TmpOwned
  <2> QED
    BY <1>4, <2>1, <2>2, <2>3 DEF PartsNext
<1>5. ASSUME NEW c \in Calls, UpdateNext(c) PROVE TmpOwned'
  <2>1. ASSUME NEW l \in Calls, UpdateStart(c, l) PROVE TmpOwned'
    BY <2>1 DEF UpdateStart, Begin, MeetAsWriter, Race
  <2>2. CASE UpdateExists(c)
    BY <2>2 DEF UpdateExists
  <2>3. CASE ExistsFails(c)
    BY <2>3 DEF ExistsFails
  <2> HIDE DEF TmpOwned
  <2> QED
    BY <1>5, <2>1, <2>2, <2>3 DEF UpdateNext
<1>6. ASSUME NEW c \in Calls, PurgeNext(c) PROVE TmpOwned'
  <2>1. ASSUME NEW k \in Keys, PurgeStart(c, k) PROVE TmpOwned'
    BY <2>1 DEF PurgeStart, Begin, MeetAsPurge
  <2>2. CASE PurgeBody(c)
    BY <2>2 DEF PurgeBody
  <2>3. ASSUME NEW p \in Parts, PurgePart(c, p) PROVE TmpOwned'
    <3>1. UNCHANGED <<dir, tmp, kind, key>>
      BY <2>3 DEF PurgePart
    <3>2. pc[c] \in {"unmeta", "unhdr"} /\ \A d \in Calls : d # c => pc'[d] = pc[d]
      BY <2>3 DEF PurgePart
    <3> QED
      BY <3>1, <3>2
  <2>4. CASE PurgeDir(c)
    BY <2>4 DEF PurgeDir, Empty
  <2>5. CASE PurgeFails(c)
    <3>1. UNCHANGED <<dir, tmp, kind, key>>
      BY <2>5 DEF PurgeFails
    <3>2. pc[c] \in PurgePc /\ \A d \in Calls : d # c => pc'[d] = pc[d]
      BY <2>5 DEF PurgeFails, PurgePc
    <3>3. c \notin tmp
      BY <3>2 DEF PurgePc
    <3> QED
      BY <3>1, <3>2, <3>3
  <2> HIDE DEF TmpOwned
  <2> QED
    BY <1>6, <2>1, <2>2, <2>3, <2>4, <2>5 DEF PurgeNext
<1>7. CASE Crash
  BY <1>7 DEF Crash
<1>8. CASE UNCHANGED vars
  BY <1>8 DEF vars
<1>9. ASSUME NEW c \in Calls, Cancel(c) PROVE TmpOwned'
  BY <1>9 DEF Cancel, Race
<1>10. ASSUME NEW c \in Calls, CancelPurge(c) PROVE TmpOwned'
  BY <1>10 DEF CancelPurge
<1> HIDE DEF TmpOwned
<1> QED
  BY <1>1, <1>2, <1>3, <1>4, <1>5, <1>6, <1>7, <1>8, <1>9, <1>10 DEF Next

(* Every overlap with a writer is recorded on both sides, and marks the key.  *)
LEMMA OverlapSeenStep ==
  ASSUME TypeOK, KindOK, OverlapSeen, MetMeansRaced, [Next]_vars
  PROVE OverlapSeen'
<1> USE DiskCacheAssumption DEF TypeOK, CallTypeOK, KindOK, OverlapSeen,
        MetMeansRaced, Goto, LivePc, WriterPc, PurgePc, EndPc, fsVars, bytes,
        callVars, callData, ghostVars, marks
<1>1. ASSUME NEW c \in Calls, LookupNext(c) PROVE OverlapSeen'
  <2>1. ASSUME NEW k \in Keys, LookupStart(c, k) PROVE OverlapSeen'
    BY <2>1 DEF LookupStart, Begin, MeetAsReader, Writers, Active
  <2>2. ASSUME NEW f \in {"meta", "hdr", "body"}, LookupRead(c, f) PROVE OverlapSeen'
    BY <2>2 DEF LookupRead
  <2>3. CASE LookupEnd(c)
    BY <2>3 DEF LookupEnd
  <2>4. CASE LookupFails(c)
    BY <2>4 DEF LookupFails
  <2> HIDE DEF OverlapSeen
  <2> QED
    BY <1>1, <2>1, <2>2, <2>3, <2>4 DEF LookupNext
<1>2. ASSUME NEW c \in Calls, MissNext(c) PROVE OverlapSeen'
  <2>1. ASSUME NEW k \in Keys, MissStart(c, k) PROVE OverlapSeen'
    BY <2>1 DEF MissStart, Begin
  <2>2. CASE CreateParent(c)
    BY <2>2 DEF CreateParent
  <2>3. CASE CreateTmp(c)
    BY <2>3 DEF CreateTmp
  <2>4. ASSUME NEW n \in ChunkSizes, NEW e \in BOOLEAN, WriteBody(c, n, e)
        PROVE OverlapSeen'
    BY <2>4 DEF WriteBody
  <2>5. CASE Land(c)
    BY <2>5 DEF Land
  <2>6. CASE Abandon(c)
    BY <2>6 DEF Abandon
  <2>7. CASE MissFails(c) \/ CancelCreate(c)
    BY <2>7 DEF MissFails, CancelCreate
  <2>8. CASE LandFails(c)
    BY <2>8 DEF LandFails
  <2> HIDE DEF OverlapSeen
  <2> QED
    BY <1>2, <2>1, <2>2, <2>3, <2>4, <2>5, <2>6, <2>7, <2>8 DEF MissNext
<1>3. ASSUME NEW c \in Calls, FinishNext(c) PROVE OverlapSeen'
  <2>1. CASE FinishStart(c)
    BY <2>1 DEF FinishStart, MeetAsWriter, Race, Writers, Readers, Active
  <2>2. CASE Rename(c)
    BY <2>2 DEF Rename
  <2>3. CASE RenameFails(c)
    BY <2>3 DEF RenameFails
  <2>4. CASE CopyOpen(c)
    BY <2>4 DEF CopyOpen
  <2>5. CASE Copy(c)
    BY <2>5 DEF Copy
  <2>6. CASE CopyFails(c)
    BY <2>6 DEF CopyFails, Race
  <2>7. CASE FinishEnd(c)
    BY <2>7 DEF FinishEnd
  <2> HIDE DEF OverlapSeen
  <2> QED
    BY <1>3, <2>1, <2>2, <2>3, <2>4, <2>5, <2>6, <2>7 DEF FinishNext
<1>4. ASSUME NEW c \in Calls, PartsNext(c) PROVE OverlapSeen'
  <2>1. ASSUME NEW p \in Parts, OpenPart(c, p) PROVE OverlapSeen'
    BY <2>1 DEF OpenPart, Parts
  <2>2. ASSUME NEW p \in Parts, WritePart(c, p) PROVE OverlapSeen'
    BY <2>2 DEF WritePart, Parts
  <2>3. CASE PartFails(c)
    BY <2>3 DEF PartFails, Race
  <2> HIDE DEF OverlapSeen
  <2> QED
    BY <1>4, <2>1, <2>2, <2>3 DEF PartsNext
<1>5. ASSUME NEW c \in Calls, UpdateNext(c) PROVE OverlapSeen'
  <2>1. ASSUME NEW l \in Calls, UpdateStart(c, l) PROVE OverlapSeen'
    BY <2>1 DEF UpdateStart, Begin, MeetAsWriter, Race, Writers, Readers, Active
  <2>2. CASE UpdateExists(c)
    BY <2>2 DEF UpdateExists
  <2>3. CASE ExistsFails(c)
    BY <2>3 DEF ExistsFails
  <2> HIDE DEF OverlapSeen
  <2> QED
    BY <1>5, <2>1, <2>2, <2>3 DEF UpdateNext
<1>6. ASSUME NEW c \in Calls, PurgeNext(c) PROVE OverlapSeen'
  <2>1. ASSUME NEW k \in Keys, PurgeStart(c, k) PROVE OverlapSeen'
    BY <2>1 DEF PurgeStart, Begin, MeetAsPurge
  <2>2. CASE PurgeBody(c)
    BY <2>2 DEF PurgeBody
  <2>3. ASSUME NEW p \in Parts, PurgePart(c, p) PROVE OverlapSeen'
    BY <2>3 DEF PurgePart
  <2>4. CASE PurgeDir(c)
    BY <2>4 DEF PurgeDir
  <2>5. CASE PurgeFails(c)
    BY <2>5 DEF PurgeFails
  <2> HIDE DEF OverlapSeen
  <2> QED
    BY <1>6, <2>1, <2>2, <2>3, <2>4, <2>5 DEF PurgeNext
<1>7. CASE Crash
  BY <1>7 DEF Crash
<1>8. CASE UNCHANGED vars
  BY <1>8 DEF vars
<1>9. ASSUME NEW c \in Calls, Cancel(c) PROVE OverlapSeen'
  BY <1>9 DEF Cancel, Race
<1>10. ASSUME NEW c \in Calls, CancelPurge(c) PROVE OverlapSeen'
  BY <1>10 DEF CancelPurge
<1> HIDE DEF OverlapSeen
<1> QED
  BY <1>1, <1>2, <1>3, <1>4, <1>5, <1>6, <1>7, <1>8, <1>9, <1>10 DEF Next

(* A writer that met another one keeps the key marked.                        *)
LEMMA MetMeansRacedStep ==
  ASSUME TypeOK, KindOK, OverlapSeen, MetMeansRaced, [Next]_vars
  PROVE MetMeansRaced'
<1> USE DiskCacheAssumption DEF TypeOK, CallTypeOK, KindOK, OverlapSeen,
        MetMeansRaced, Goto, LivePc, WriterPc, PurgePc, EndPc, fsVars, bytes,
        callVars, callData, ghostVars, marks
<1>1. ASSUME NEW c \in Calls, LookupNext(c) PROVE MetMeansRaced'
  <2>1. ASSUME NEW k \in Keys, LookupStart(c, k) PROVE MetMeansRaced'
    BY <2>1 DEF LookupStart, Begin, MeetAsReader
  <2>2. ASSUME NEW f \in {"meta", "hdr", "body"}, LookupRead(c, f) PROVE MetMeansRaced'
    BY <2>2 DEF LookupRead
  <2>3. CASE LookupEnd(c)
    BY <2>3 DEF LookupEnd
  <2>4. CASE LookupFails(c)
    BY <2>4 DEF LookupFails
  <2> HIDE DEF MetMeansRaced
  <2> QED
    BY <1>1, <2>1, <2>2, <2>3, <2>4 DEF LookupNext
<1>2. ASSUME NEW c \in Calls, MissNext(c) PROVE MetMeansRaced'
  <2>1. ASSUME NEW k \in Keys, MissStart(c, k) PROVE MetMeansRaced'
    BY <2>1 DEF MissStart, Begin
  <2>2. CASE CreateParent(c)
    BY <2>2 DEF CreateParent
  <2>3. CASE CreateTmp(c)
    BY <2>3 DEF CreateTmp
  <2>4. ASSUME NEW n \in ChunkSizes, NEW e \in BOOLEAN, WriteBody(c, n, e)
        PROVE MetMeansRaced'
    BY <2>4 DEF WriteBody
  <2>5. CASE Land(c)
    BY <2>5 DEF Land
  <2>6. CASE Abandon(c)
    BY <2>6 DEF Abandon
  <2>7. CASE MissFails(c) \/ CancelCreate(c)
    BY <2>7 DEF MissFails, CancelCreate
  <2>8. CASE LandFails(c)
    BY <2>8 DEF LandFails
  <2> HIDE DEF MetMeansRaced
  <2> QED
    BY <1>2, <2>1, <2>2, <2>3, <2>4, <2>5, <2>6, <2>7, <2>8 DEF MissNext
<1>3. ASSUME NEW c \in Calls, FinishNext(c) PROVE MetMeansRaced'
  <2>1. CASE FinishStart(c)
    BY <2>1 DEF FinishStart, MeetAsWriter, Race, Writers, Purgers, Readers, Active
  <2>2. CASE Rename(c)
    BY <2>2 DEF Rename
  <2>3. CASE RenameFails(c)
    BY <2>3 DEF RenameFails
  <2>4. CASE CopyOpen(c)
    BY <2>4 DEF CopyOpen
  <2>5. CASE Copy(c)
    BY <2>5 DEF Copy
  <2>6. CASE CopyFails(c)
    BY <2>6 DEF CopyFails, Race
  <2>7. CASE FinishEnd(c)
    BY <2>7 DEF FinishEnd
  <2> HIDE DEF MetMeansRaced
  <2> QED
    BY <1>3, <2>1, <2>2, <2>3, <2>4, <2>5, <2>6, <2>7 DEF FinishNext
<1>4. ASSUME NEW c \in Calls, PartsNext(c) PROVE MetMeansRaced'
  <2>1. ASSUME NEW p \in Parts, OpenPart(c, p) PROVE MetMeansRaced'
    BY <2>1 DEF OpenPart, Parts
  <2>2. ASSUME NEW p \in Parts, WritePart(c, p) PROVE MetMeansRaced'
    BY <2>2 DEF WritePart, Parts
  <2>3. CASE PartFails(c)
    BY <2>3 DEF PartFails, Race
  <2> HIDE DEF MetMeansRaced
  <2> QED
    BY <1>4, <2>1, <2>2, <2>3 DEF PartsNext
<1>5. ASSUME NEW c \in Calls, UpdateNext(c) PROVE MetMeansRaced'
  <2>1. ASSUME NEW l \in Calls, UpdateStart(c, l) PROVE MetMeansRaced'
    BY <2>1 DEF UpdateStart, Begin, MeetAsWriter, Race, Writers, Readers, Purgers,
       Active
  <2>2. CASE UpdateExists(c)
    BY <2>2 DEF UpdateExists
  <2>3. CASE ExistsFails(c)
    BY <2>3 DEF ExistsFails
  <2> HIDE DEF MetMeansRaced
  <2> QED
    BY <1>5, <2>1, <2>2, <2>3 DEF UpdateNext
<1>6. ASSUME NEW c \in Calls, PurgeNext(c) PROVE MetMeansRaced'
  <2>1. ASSUME NEW k \in Keys, PurgeStart(c, k) PROVE MetMeansRaced'
    BY <2>1 DEF PurgeStart, Begin, MeetAsPurge, Writers, Active
  <2>2. CASE PurgeBody(c)
    BY <2>2 DEF PurgeBody
  <2>3. ASSUME NEW p \in Parts, PurgePart(c, p) PROVE MetMeansRaced'
    BY <2>3 DEF PurgePart
  <2>4. CASE PurgeDir(c)
    BY <2>4 DEF PurgeDir
  <2>5. CASE PurgeFails(c)
    BY <2>5 DEF PurgeFails
  <2> HIDE DEF MetMeansRaced
  <2> QED
    BY <1>6, <2>1, <2>2, <2>3, <2>4, <2>5 DEF PurgeNext
<1>7. CASE Crash
  BY <1>7 DEF Crash
<1>8. CASE UNCHANGED vars
  BY <1>8 DEF vars
<1>9. ASSUME NEW c \in Calls, Cancel(c) PROVE MetMeansRaced'
  BY <1>9 DEF Cancel, Race
<1>10. ASSUME NEW c \in Calls, CancelPurge(c) PROVE MetMeansRaced'
  BY <1>10 DEF CancelPurge
<1> HIDE DEF MetMeansRaced
<1> QED
  BY <1>1, <1>2, <1>3, <1>4, <1>5, <1>6, <1>7, <1>8, <1>9, <1>10 DEF Next

-----------------------------------------------------------------------------
(* No mixture *)

(* The keys NoMixture is about, and what purges do to their files. *)
Calm(k) == k \notin raced /\ Writers(k) = {}
Shrinks(k) == /\ body'[k] \in {body[k], None}
              /\ \A p \in Parts : file'[p][k] \in {file[p][k], None}

CalmKept == \A k \in Keys : Calm(k)' => (Calm(k) /\ Shrinks(k)) \/ Agree(k)'

(* Removing files keeps the rest in agreement. *)
LEMMA AgreeShrinks ==
  ASSUME NEW k \in Keys, Agree(k), Shrinks(k)
  PROVE Agree(k)'
BY DEF Agree, Shrinks

(* A call that ends as a writer on a calm key was its only one. *)
LEMMA SoleWriter ==
  ASSUME TypeOK, KindOK, OverlapSeen, MetMeansRaced, NEW c \in Calls, pc[c] \in WriterPc,
         key[c] \notin raced \/ c \notin metWriter
  PROVE /\ c \notin metWriter
        /\ \A d \in Calls : d # c /\ pc[d] \in WriterPc => key[d] # key[c]
BY DEF OverlapSeen, MetMeansRaced

(* A calm key either was calm, and lost some files at most, or its files      *)
(* agree.                                                                     *)
LEMMA MixStep ==
  ASSUME TypeOK, KindOK, FilesInDir, OverlapSeen, MetMeansRaced, WriterState,
         [Next]_vars
  PROVE CalmKept
<1> USE DiskCacheAssumption DEF CalmKept, TypeOK, FsTypeOK, CallTypeOK, KindOK, Goto,
        Objects, WriterPc, PurgePc, fsVars, bytes, callVars, callData, ghostVars,
        marks
<1>1. ASSUME NEW c \in Calls, LookupNext(c) PROVE CalmKept
  <2>1. ASSUME NEW k \in Keys, LookupStart(c, k) PROVE CalmKept
    BY <2>1 DEF LookupStart, Begin, MeetAsReader, Calm, Shrinks, Writers, Active
  <2>2. ASSUME NEW f \in {"meta", "hdr", "body"}, LookupRead(c, f) PROVE CalmKept
    BY <2>2 DEF LookupRead, Calm, Shrinks, Writers, Active
  <2>3. CASE LookupEnd(c)
    BY <2>3 DEF LookupEnd, Calm, Shrinks, Writers, Active
  <2>4. CASE LookupFails(c)
    BY <2>4 DEF LookupFails, Calm, Shrinks, Writers, Active
  <2> HIDE DEF CalmKept
  <2> QED
    BY <1>1, <2>1, <2>2, <2>3, <2>4 DEF LookupNext
<1>2. ASSUME NEW c \in Calls, MissNext(c) PROVE CalmKept
  <2>1. ASSUME NEW k \in Keys, MissStart(c, k) PROVE CalmKept
    BY <2>1 DEF MissStart, Begin, Calm, Shrinks, Writers, Active
  <2>2. CASE CreateParent(c)
    BY <2>2 DEF CreateParent, Calm, Shrinks, Writers, Active
  <2>3. CASE CreateTmp(c)
    BY <2>3 DEF CreateTmp, Calm, Shrinks, Writers, Active
  <2>4. ASSUME NEW n \in ChunkSizes, NEW e \in BOOLEAN, WriteBody(c, n, e)
        PROVE CalmKept
    BY <2>4 DEF WriteBody, Calm, Shrinks, Writers, Active
  <2>5. CASE Land(c)
    BY <2>5 DEF Land, Calm, Shrinks, Writers, Active
  <2>6. CASE Abandon(c)
    BY <2>6 DEF Abandon, Calm, Shrinks, Writers, Active
  <2>7. CASE MissFails(c) \/ CancelCreate(c)
    <3>1. CASE pc[c] = "copy"
      <4>1. ASSUME NEW k \in Keys, k # key[c], Calm(k)' PROVE Calm(k) /\ Shrinks(k)
        BY <2>7, <3>1, <4>1 DEF MissFails, CancelCreate, Calm, Shrinks, Writers, Active
      <4>2. ASSUME key[c] \notin raced PROVE Agree(key[c])'
        <5>1. Agree(key[c])
          BY <3>1, <4>2, SoleWriter DEF WriterState, WriterOK, Untouched
        <5> QED
          BY <2>7, <5>1 DEF MissFails, CancelCreate, Agree
      <4> QED
        BY <2>7, <4>1, <4>2 DEF MissFails, CancelCreate, Calm
    <3>2. CASE pc[c] # "copy"
      BY <2>7, <3>2 DEF MissFails, CancelCreate, Calm, Shrinks, Writers, Active
    <3> QED
      BY <3>1, <3>2
  <2>8. CASE LandFails(c)
    BY <2>8 DEF LandFails, Calm, Shrinks, Writers, Active
  <2> HIDE DEF CalmKept
  <2> QED
    BY <1>2, <2>1, <2>2, <2>3, <2>4, <2>5, <2>6, <2>7, <2>8 DEF MissNext
<1>3. ASSUME NEW c \in Calls, FinishNext(c) PROVE CalmKept
  <2>1. CASE FinishStart(c)
    BY <2>1 DEF FinishStart, Race, MeetAsWriter, Calm, Shrinks, Writers, Active
  <2>2. CASE Rename(c)
    BY <2>2 DEF Rename, Calm, Shrinks, Writers, Active
  <2>3. CASE RenameFails(c)
    BY <2>3 DEF RenameFails, Calm, Shrinks, Writers, Active
  <2>4. CASE CopyOpen(c)
    BY <2>4 DEF CopyOpen, Calm, Shrinks, Writers, Active
  <2>5. CASE Copy(c)
    BY <2>5 DEF Copy, Calm, Shrinks, Writers, Active
  <2>6. CASE CopyFails(c)
    BY <2>6 DEF CopyFails, Race, Calm, Shrinks, Writers, Active
  <2>7. CASE FinishEnd(c)
    <3>1. ASSUME NEW k \in Keys, k # key[c], Calm(k)' PROVE Calm(k) /\ Shrinks(k)
      BY <2>7, <3>1 DEF FinishEnd, Calm, Shrinks, Writers, Active
    <3>2. ASSUME key[c] \notin raced' PROVE Agree(key[c])'
      <4>1. c \notin metWriter
        BY <2>7, <3>2, SoleWriter DEF FinishEnd
      <4>2. /\ body[key[c]] \in {None, c}
            /\ \A p \in Parts : file[p][key[c]] # None => file[p][key[c]].val = StampOf(c)
        BY <2>7, <4>1 DEF FinishEnd, WriterState, WriterOK, BodySet, MetaSet, HdrSet, Parts
      <4>3. StampOf(c).obj = c /\ StampOf(c) # Torn
        BY <2>7 DEF FinishEnd, StampOf, Stamp
      <4> QED
        BY <2>7, <4>2, <4>3 DEF FinishEnd, Agree
    <3> QED
      BY <2>7, <3>1, <3>2 DEF FinishEnd, Calm
  <2> HIDE DEF CalmKept
  <2> QED
    BY <1>3, <2>1, <2>2, <2>3, <2>4, <2>5, <2>6, <2>7 DEF FinishNext
<1>4. ASSUME NEW c \in Calls, PartsNext(c) PROVE CalmKept
  <2>1. ASSUME NEW p \in Parts, OpenPart(c, p) PROVE CalmKept
    <3>1. ASSUME NEW k \in Keys, k # key[c], Calm(k)' PROVE Calm(k) /\ Shrinks(k)
      BY <2>1, <3>1 DEF OpenPart, Calm, Shrinks, Writers, Active, Parts
    <3>2. CASE key[c] \in dir
      <4>1. Writers(key[c])' # {}
        BY <2>1, <3>2 DEF OpenPart, Writers, Active
      <4> QED
        BY <2>1, <3>1, <4>1 DEF OpenPart, Calm
    <3>3. CASE key[c] \notin dir
      <4>1. Agree(key[c])'
        BY <2>1, <3>3 DEF OpenPart, FilesInDir, Agree, Parts
      <4> QED
        BY <2>1, <3>1, <4>1 DEF OpenPart
    <3> QED
      BY <3>2, <3>3
  <2>2. ASSUME NEW p \in Parts, WritePart(c, p) PROVE CalmKept
    <3>1. ASSUME NEW k \in Keys, k # key[c], Calm(k)' PROVE Calm(k) /\ Shrinks(k)
      BY <2>2, <3>1 DEF WritePart, Calm, Shrinks, Writers, Active, Parts
    <3>2. CASE pc'[c] \in WriterPc
      <4>1. Writers(key[c])' # {}
        BY <2>2, <3>2 DEF WritePart, Writers, Active
      <4> QED
        BY <2>2, <3>1, <4>1 DEF WritePart, Calm
    <3>3. ASSUME pc'[c] \notin WriterPc, key[c] \notin raced PROVE Agree(key[c])'
      <4>1. p = "hdr" /\ pc[c] = "hdrWrite" /\ c \notin metWriter
        BY <2>2, <3>3, SoleWriter DEF WritePart, Parts
      <4>2. /\ body[key[c]] \in {None, obj[c]}
            /\ file["meta"][key[c]] # None => file["meta"][key[c]].val = StampOf(c)
        BY <3>3, <4>1 DEF WriterState, WriterOK, BodySet, MetaSet
      <4>3. file["hdr"][key[c]] # None =>
              file["hdr"][key[c]].ino = fd[c] /\ file["hdr"][key[c]].val = Torn
        BY <3>3, <4>1 DEF WriterState, WriterOK
      <4>4. /\ file'["hdr"][key[c]] # None => file'["hdr"][key[c]].val = StampOf(c)
            /\ file'["meta"] = file["meta"] /\ body' = body /\ key' = key
        BY <2>2, <4>1, <4>3 DEF WritePart, Parts, File
      <4>5. StampOf(c).obj = obj[c] /\ StampOf(c) # Torn
        BY DEF StampOf, Stamp
      <4> QED
        BY <4>2, <4>4, <4>5 DEF Agree, Parts
    <3> QED
      BY <2>2, <3>1, <3>2, <3>3 DEF WritePart, Calm
  <2>3. CASE PartFails(c)
    BY <2>3 DEF PartFails, Race, Calm, Shrinks, Writers, Active
  <2> HIDE DEF CalmKept
  <2> QED
    BY <1>4, <2>1, <2>2, <2>3 DEF PartsNext
<1>5. ASSUME NEW c \in Calls, UpdateNext(c) PROVE CalmKept
  <2>1. ASSUME NEW l \in Calls, UpdateStart(c, l) PROVE CalmKept
    BY <2>1 DEF UpdateStart, Race, MeetAsWriter, Begin, Calm, Shrinks, Writers, Active
  <2>2. CASE UpdateExists(c)
    <3>1. ASSUME NEW k \in Keys, k # key[c], Calm(k)' PROVE Calm(k) /\ Shrinks(k)
      BY <2>2, <3>1 DEF UpdateExists, Calm, Shrinks, Writers, Active
    <3>2. ASSUME key[c] \notin raced PROVE Agree(key[c])'
      <4>1. pc[c] \in WriterPc /\ Untouched(c)
        BY <2>2 DEF UpdateExists, Untouched
      <4>2. Agree(key[c])
        BY <3>2, <4>1, SoleWriter DEF WriterState, WriterOK
      <4> QED
        BY <2>2, <4>2 DEF UpdateExists, Agree
    <3> QED
      BY <2>2, <3>1, <3>2 DEF UpdateExists, Calm
  <2>3. CASE ExistsFails(c)
    <3>1. ASSUME NEW k \in Keys, k # key[c], Calm(k)' PROVE Calm(k) /\ Shrinks(k)
      BY <2>3, <3>1 DEF ExistsFails, Calm, Shrinks, Writers, Active
    <3>2. ASSUME key[c] \notin raced PROVE Agree(key[c])'
      <4>1. pc[c] \in WriterPc /\ Untouched(c)
        BY <2>3 DEF ExistsFails, Untouched
      <4>2. Agree(key[c])
        BY <3>2, <4>1, SoleWriter DEF WriterState, WriterOK
      <4> QED
        BY <2>3, <4>2 DEF ExistsFails, Agree
    <3> QED
      BY <2>3, <3>1, <3>2 DEF ExistsFails, Calm
  <2> HIDE DEF CalmKept
  <2> QED
    BY <1>5, <2>1, <2>2, <2>3 DEF UpdateNext
<1>6. ASSUME NEW c \in Calls, PurgeNext(c) PROVE CalmKept
  <2>1. ASSUME NEW k \in Keys, PurgeStart(c, k) PROVE CalmKept
    BY <2>1 DEF PurgeStart, Begin, MeetAsPurge, Calm, Shrinks, Writers, Active
  <2>2. CASE PurgeBody(c)
    BY <2>2 DEF PurgeBody, Calm, Shrinks, Writers, Active
  <2>3. ASSUME NEW p \in Parts, PurgePart(c, p) PROVE CalmKept
    BY <2>3 DEF PurgePart, Calm, Shrinks, Writers, Active
  <2>4. CASE PurgeDir(c)
    BY <2>4 DEF PurgeDir, Calm, Shrinks, Writers, Active
  <2>5. CASE PurgeFails(c)
    BY <2>5 DEF PurgeFails, Calm, Shrinks, Writers, Active
  <2> HIDE DEF CalmKept
  <2> QED
    BY <1>6, <2>1, <2>2, <2>3, <2>4, <2>5 DEF PurgeNext
<1>7. CASE Crash
  <2> SUFFICES ASSUME NEW k \in Keys, Calm(k)'
               PROVE (Calm(k) /\ Shrinks(k)) \/ Agree(k)'
    OBVIOUS
  <2>1. Shrinks(k) /\ k \notin raced /\ \A c \in Writers(k) : Untouched(c)
    BY <1>7 DEF Crash, Calm, Shrinks
  <2>2. ASSUME NEW c \in Writers(k) PROVE Agree(k)
    <3>1. c \in Calls /\ pc[c] \in WriterPc /\ key[c] = k /\ c \notin metWriter
      BY <2>1, <2>2 DEF Writers, Active, MetMeansRaced
    <3> QED
      BY <2>1, <2>2, <3>1 DEF WriterState, WriterOK
  <2> QED
    BY <2>1, <2>2, AgreeShrinks DEF Calm
<1>8. CASE UNCHANGED vars
  BY <1>8 DEF vars, Calm, Shrinks, Writers, Active
<1>9. ASSUME NEW c \in Calls, Cancel(c) PROVE CalmKept
  <2>1. ASSUME NEW k \in Keys, k # key[c], Calm(k)' PROVE Calm(k) /\ Shrinks(k)
    BY <1>9, <2>1 DEF Cancel, Race, Calm, Shrinks, Writers, Active
  <2>2. ASSUME key[c] \notin raced' PROVE Agree(key[c])'
    <3>1. pc[c] = "account" \/ Untouched(c)
      BY <1>9, <2>2 DEF Cancel, Race, Untouched
    <3>2. key[c] \notin raced /\ c \notin metWriter /\ pc[c] \in WriterPc
      BY <1>9, <2>2, SoleWriter DEF Cancel, Race
    <3>3. CASE pc[c] = "account"
      <4>1. /\ body[key[c]] \in {None, c}
            /\ \A p \in Parts : file[p][key[c]] # None => file[p][key[c]].val = StampOf(c)
        BY <3>2, <3>3 DEF WriterState, WriterOK, BodySet, MetaSet, HdrSet, Parts
      <4>2. StampOf(c).obj = c /\ StampOf(c) # Torn
        BY <3>3 DEF StampOf, Stamp
      <4> QED
        BY <1>9, <4>1, <4>2 DEF Cancel, Agree
    <3>4. CASE Untouched(c)
      <4>1. Agree(key[c])
        BY <3>2, <3>4 DEF WriterState, WriterOK
      <4> QED
        BY <1>9, <4>1 DEF Cancel, Agree
    <3> QED
      BY <3>1, <3>3, <3>4
  <2> QED
    BY <1>9, <2>1, <2>2 DEF Cancel, Calm
<1>10. ASSUME NEW c \in Calls, CancelPurge(c) PROVE CalmKept
  BY <1>10 DEF CancelPurge, Calm, Shrinks, Writers, Active
<1> HIDE DEF CalmKept
<1> QED
  BY <1>1, <1>2, <1>3, <1>4, <1>5, <1>6, <1>7, <1>8, <1>9, <1>10 DEF Next


(* Hence NoMixture is preserved. *)
LEMMA NoMixtureStep ==
  ASSUME TypeOK, KindOK, FilesInDir, OverlapSeen, MetMeansRaced, WriterState, NoMixture,
         [Next]_vars
  PROVE NoMixture'
BY MixStep, AgreeShrinks DEF NoMixture, Calm, CalmKept

-----------------------------------------------------------------------------
(* Writers and readers *)

(* An update_meta finds the files as its hit did, or its key is marked.       *)
LEMMA UpdateStartWriter ==
  ASSUME TypeOK, KindOK, OverlapSeen, NoMixture, WriterState,
         NEW c \in Calls, NEW l \in Calls, UpdateStart(c, l)
  PROVE  WriterState'
<1>1. PICK k \in Keys : k = key[l]
  BY DEF UpdateStart, KindOK
<1>2. /\ pc[c] = "idle" /\ pc' = [pc EXCEPT ![c] = "exists"]
      /\ kind' = [kind EXCEPT ![c] = "update"] /\ key' = [key EXCEPT ![c] = k]
      /\ obj' = [obj EXCEPT ![c] = got[l].meta.obj]
      /\ metWriter' = metWriter \cup Writers(k) \cup Purgers(k) \cup Readers(k)
                       \cup IF Writers(k) # {} THEN {c} ELSE {}
      /\ Writers(k) # {} => raced' = raced \cup {k}
      /\ body[k] \notin {got[l].meta.obj, None} => raced' = raced \cup {k}
      /\ raced \subseteq raced' /\ raced' \subseteq raced \cup {k}
      /\ UNCHANGED <<body, file, fd>>
  <2>1. body[k] \notin {got[l].meta.obj, None} =>
          \/ got[l].body # got[l].meta.obj \/ body[k] \notin {got[l].body, None}
    OBVIOUS
  <2> QED
    BY <1>1, <2>1 DEF UpdateStart, Begin, MeetAsWriter, Race, fsVars, bytes
<1>3. /\ pc'[c] = "exists" /\ kind'[c] = "update" /\ key'[c] = k
      /\ obj'[c] = got[l].meta.obj
      /\ \A d \in Calls \ {c} : /\ pc'[d] = pc[d] /\ kind'[d] = kind[d]
                               /\ key'[d] = key[d] /\ obj'[d] = obj[d]
  BY <1>2 DEF TypeOK, CallTypeOK
<1> SUFFICES ASSUME NEW d \in Calls, pc'[d] \in WriterPc, d \notin metWriter'
             PROVE  WriterOK(d)'
  BY DEF WriterState
<1>4. CASE d = c
  <2>1. Writers(k) = {}
    BY <1>2, <1>4
  <2>2. k \notin raced' => Agree(k) /\ body[k] \in {None, obj'[c]}
    <3>1. k \notin raced' => k \notin raced /\ body[k] \in {None, obj'[c]}
      BY <1>2, <1>3
    <3> QED
      BY <2>1, <3>1 DEF NoMixture
  <2>3. k \notin raced' => Agree(k)'
    BY <1>2, <2>2 DEF Agree
  <2>4. key'[d] = k /\ pc'[d] = "exists" /\ kind'[d] = "update"
        /\ body'[k] = body[k] /\ obj'[d] = obj'[c]
    BY <1>2, <1>3, <1>4
  <2> QED
    BY <2>2, <2>3, <2>4 DEF WriterOK, Untouched, BodySet, MetaSet, HdrSet
<1>5. CASE d # c
  <2>1. pc[d] \in WriterPc /\ d \notin metWriter
    BY <1>2, <1>3, <1>5
  <2>2. WriterOK(d)
    BY <2>1 DEF WriterState
  <2>3. key[d] # k
    BY <1>2, <2>1 DEF Writers, Active
  <2>4. key[d] \in raced' <=> key[d] \in raced
    BY <1>2, <2>3
  <2>5. /\ pc'[d] = pc[d] /\ kind'[d] = kind[d] /\ key'[d] = key[d] /\ obj'[d] = obj[d]
        /\ UNCHANGED <<body, file, fd>>
    BY <1>2, <1>3, <1>5
  <2> QED
    BY <2>2, <2>4, <2>5 DEF WriterOK, Untouched, BodySet, MetaSet, HdrSet, StampOf, Agree
<1> QED
  BY <1>4, <1>5

(* What the only writer of a key has written stays, but for what purges       *)
(* remove.                                                                    *)
LEMMA WriterStateStep ==
  ASSUME TypeOK, KindOK, FilesInDir, OverlapSeen, MetMeansRaced, NoMixture,
         WriterState, [Next]_vars
  PROVE WriterState'
<1> USE DiskCacheAssumption DEF TypeOK, FsTypeOK, CallTypeOK, KindOK, FilesInDir,
        OverlapSeen, MetMeansRaced, WriterState, WriterOK, WriterPc, PurgePc,
        Untouched, BodySet, MetaSet, HdrSet, StampOf, Agree, Goto, Objects, fsVars,
        bytes, callVars, callData, ghostVars, marks
<1>1. ASSUME NEW c \in Calls, LookupNext(c) PROVE WriterState'
  <2>1. ASSUME NEW k \in Keys, LookupStart(c, k) PROVE WriterState'
    BY <2>1 DEF LookupStart, Begin, MeetAsReader
  <2>2. ASSUME NEW f \in {"meta", "hdr", "body"}, LookupRead(c, f) PROVE WriterState'
    BY <2>2 DEF LookupRead
  <2>3. CASE LookupEnd(c)
    BY <2>3 DEF LookupEnd
  <2>4. CASE LookupFails(c)
    BY <2>4 DEF LookupFails
  <2> HIDE DEF WriterState
  <2> QED
    BY <1>1, <2>1, <2>2, <2>3, <2>4 DEF LookupNext
<1>2. ASSUME NEW c \in Calls, MissNext(c) PROVE WriterState'
  <2>1. ASSUME NEW k \in Keys, MissStart(c, k) PROVE WriterState'
    BY <2>1 DEF MissStart, Begin
  <2>2. CASE CreateParent(c)
    BY <2>2 DEF CreateParent
  <2>3. CASE CreateTmp(c)
    BY <2>3 DEF CreateTmp
  <2>4. ASSUME NEW n \in ChunkSizes, NEW e \in BOOLEAN, WriteBody(c, n, e)
        PROVE WriterState'
    BY <2>4 DEF WriteBody
  <2>5. CASE Land(c)
    BY <2>5 DEF Land
  <2>6. CASE Abandon(c)
    BY <2>6 DEF Abandon
  <2>7. CASE MissFails(c) \/ CancelCreate(c)
    BY <2>7 DEF MissFails, CancelCreate
  <2>8. CASE LandFails(c)
    BY <2>8 DEF LandFails
  <2> HIDE DEF WriterState
  <2> QED
    BY <1>2, <2>1, <2>2, <2>3, <2>4, <2>5, <2>6, <2>7, <2>8 DEF MissNext
<1>3. ASSUME NEW c \in Calls, FinishNext(c) PROVE WriterState'
  <2>1. CASE FinishStart(c)
    BY <2>1 DEF FinishStart, MeetAsWriter, Race, NoMixture, Writers, Readers, Purgers,
       Active
  <2>2. CASE Rename(c)
    BY <2>2 DEF Rename
  <2>3. CASE RenameFails(c)
    BY <2>3 DEF RenameFails
  <2>4. CASE CopyOpen(c)
    BY <2>4 DEF CopyOpen
  <2>5. CASE Copy(c)
    BY <2>5 DEF Copy
  <2>6. CASE CopyFails(c)
    BY <2>6 DEF CopyFails, Race
  <2>7. CASE FinishEnd(c)
    BY <2>7 DEF FinishEnd
  <2> HIDE DEF WriterState
  <2> QED
    BY <1>3, <2>1, <2>2, <2>3, <2>4, <2>5, <2>6, <2>7 DEF FinishNext
<1>4. ASSUME NEW c \in Calls, PartsNext(c) PROVE WriterState'
  <2>1. ASSUME NEW p \in Parts, OpenPart(c, p) PROVE WriterState'
    BY <2>1, SMTT(30) DEF OpenPart, Parts
  <2>2. ASSUME NEW p \in Parts, WritePart(c, p) PROVE WriterState'
    <3> SUFFICES ASSUME NEW d \in Calls, pc'[d] \in WriterPc, d \notin metWriter'
                 PROVE WriterOK(d)'
      BY DEF WriterState
    <3>1. CASE d # c /\ key[d] = key[c]
      BY <2>2, <3>1 DEF WritePart, Parts
    <3>2. CASE key[d] # key[c]
      BY <2>2, <3>2 DEF WritePart, Parts
    <3>3. CASE d = c
      <4>1. WriterOK(c) /\ pc[c] \in {"metaWrite", "hdrWrite"}
        BY <2>2, <3>3 DEF WritePart, Parts
      <4>2. ASSUME kind[c] = "miss" \/ key[c] \notin raced
            PROVE file[p][key[c]] # None =>
                    file[p][key[c]].ino = fd[c] /\ file[p][key[c]].val = Torn
        BY <2>2, <4>1, <4>2 DEF WritePart, Parts
      <4>3. ASSUME kind[c] = "miss" \/ key[c] \notin raced
            PROVE file'[p][key[c]] # None => file'[p][key[c]].val = StampOf(c)
        BY <2>2, <4>2, <4>3 DEF WritePart, Parts, File
      <4>4. \A q \in Parts : q # p => file'[q][key[c]] = file[q][key[c]]
        BY <2>2 DEF WritePart, Parts
      <4>5. /\ UNCHANGED <<body, kind, key, obj, fd, raced>>
            /\ pc'[c] \in {"hdr", "account", "ok"}
            /\ pc'[c] = "hdr" => p = "meta"
            /\ pc'[c] = "account" => p = "hdr"
            /\ p = "hdr" => pc[c] = "hdrWrite"
        BY <2>2 DEF WritePart, Parts
      <4> HIDE DEF WriterState, OverlapSeen, MetMeansRaced, FilesInDir, KindOK, TypeOK
      <4> QED
        BY <3>3, <4>1, <4>3, <4>4, <4>5 DEF Parts
    <3> QED
      BY <3>1, <3>2, <3>3
  <2>3. CASE PartFails(c)
    BY <2>3 DEF PartFails, Race
  <2> HIDE DEF WriterState
  <2> QED
    BY <1>4, <2>1, <2>2, <2>3 DEF PartsNext
<1>5. ASSUME NEW c \in Calls, UpdateNext(c) PROVE WriterState'
  <2>1. ASSUME NEW l \in Calls, UpdateStart(c, l) PROVE WriterState'
    <3> HIDE DEF TypeOK, KindOK, OverlapSeen, WriterState
    <3> QED
      BY <2>1, UpdateStartWriter
  <2>2. CASE UpdateExists(c)
    BY <2>2 DEF UpdateExists
  <2>3. CASE ExistsFails(c)
    BY <2>3 DEF ExistsFails
  <2> HIDE DEF WriterState
  <2> QED
    BY <1>5, <2>1, <2>2, <2>3 DEF UpdateNext
<1>6. ASSUME NEW c \in Calls, PurgeNext(c) PROVE WriterState'
  <2>1. ASSUME NEW k \in Keys, PurgeStart(c, k) PROVE WriterState'
    BY <2>1 DEF PurgeStart, Begin, MeetAsPurge
  <2>2. CASE PurgeBody(c)
    BY <2>2 DEF PurgeBody
  <2>3. ASSUME NEW p \in Parts, PurgePart(c, p) PROVE WriterState'
    BY <2>3 DEF PurgePart
  <2>4. CASE PurgeDir(c)
    BY <2>4 DEF PurgeDir
  <2>5. CASE PurgeFails(c)
    <3>1. UNCHANGED <<body, file, kind, key, obj, fd, metWriter, raced>>
      BY <2>5 DEF PurgeFails
    <3>2. \A d \in Calls : pc'[d] \in WriterPc => pc'[d] = pc[d]
      BY <2>5 DEF PurgeFails
    <3> QED
      BY <3>1, <3>2
  <2> HIDE DEF WriterState
  <2> QED
    BY <1>6, <2>1, <2>2, <2>3, <2>4, <2>5 DEF PurgeNext
<1>7. CASE Crash
  BY <1>7 DEF Crash
<1>8. CASE UNCHANGED vars
  BY <1>8 DEF vars
<1>9. ASSUME NEW c \in Calls, Cancel(c) PROVE WriterState'
  BY <1>9 DEF Cancel, Race
<1>10. ASSUME NEW c \in Calls, CancelPurge(c) PROVE WriterState'
  BY <1>10 DEF CancelPurge
<1> HIDE DEF WriterState
<1> QED
  BY <1>1, <1>2, <1>3, <1>4, <1>5, <1>6, <1>7, <1>8, <1>9, <1>10 DEF Next

(* What a lookup has read agrees with the files that no writer touches        *)
(* meanwhile.                                                                 *)
LEMMA ReaderStateStep ==
  ASSUME TypeOK, KindOK, FilesInDir, OverlapSeen, MetMeansRaced, NoMixture,
         ReaderState, [Next]_vars
  PROVE ReaderState'
<1> USE DiskCacheAssumption DEF TypeOK, FsTypeOK, CallTypeOK, KindOK, FilesInDir,
        OverlapSeen, MetMeansRaced, NoMixture, ReaderState, ReaderOK, WriterPc,
        PurgePc, Unset, Agree, Writers, Active, Goto, Objects, fsVars, bytes,
        callVars, callData, ghostVars, marks
<1>1. ASSUME NEW c \in Calls, LookupNext(c) PROVE ReaderState'
  <2>1. ASSUME NEW k \in Keys, LookupStart(c, k) PROVE ReaderState'
    <3> SUFFICES ASSUME NEW d \in Calls, pc'[d] = "lookup",
                        d \notin metWriter', key'[d] \notin raced'
                 PROVE ReaderOK(d)'
      BY DEF ReaderState
    <3>1. CASE d # c
      <4>1. ReaderOK(d)
        BY <2>1, <3>1 DEF LookupStart, Begin, MeetAsReader
      <4> QED
        BY <2>1, <3>1, <4>1 DEF LookupStart, Begin, MeetAsReader
    <3>2. CASE d = c
      <4>1. got'[d] = [meta |-> Unread, hdr |-> Unread, body |-> Unread]
        BY <2>1, <3>2 DEF LookupStart, Begin
      <4> QED
        BY <4>1 DEF Parts
    <3> QED
      BY <3>1, <3>2
  <2>2. ASSUME NEW f \in {"meta", "hdr", "body"}, LookupRead(c, f) PROVE ReaderState'
    <3> SUFFICES ASSUME NEW d \in Calls, pc'[d] = "lookup",
                        d \notin metWriter', key'[d] \notin raced'
                 PROVE ReaderOK(d)'
      BY DEF ReaderState
    <3>1. CASE d # c
      BY <2>2, <3>1 DEF LookupRead
    <3>2. CASE d = c
      <4>1. ReaderOK(c)
        BY <2>2, <3>2 DEF LookupRead
      <4>2. Agree(key[c])
        <5>1. c \notin metWriter /\ key[c] \notin raced /\ key[c] \in Keys
          BY <2>2, <3>2 DEF LookupRead
        <5>2. Writers(key[c]) = {}
          BY <2>2, <5>1 DEF LookupRead
        <5> QED
          BY <5>1, <5>2 DEF NoMixture
      <4> HIDE DEF ReaderState, NoMixture, OverlapSeen, MetMeansRaced, FilesInDir
      <4>3. CASE f = "body"
        BY <2>2, <3>2, <4>1, <4>2, <4>3 DEF LookupRead, OnDisk, Parts
      <4>4. CASE f \in Parts
        BY <2>2, <3>2, <4>1, <4>2, <4>4 DEF LookupRead, OnDisk, Parts, File, Stamp
      <4> QED
        BY <4>3, <4>4 DEF Parts
    <3> QED
      BY <3>1, <3>2
  <2>3. CASE LookupEnd(c)
    BY <2>3 DEF LookupEnd
  <2>4. CASE LookupFails(c)
    BY <2>4 DEF LookupFails
  <2> HIDE DEF ReaderState
  <2> QED
    BY <1>1, <2>1, <2>2, <2>3, <2>4 DEF LookupNext
<1>2. ASSUME NEW c \in Calls, MissNext(c) PROVE ReaderState'
  <2>1. ASSUME NEW k \in Keys, MissStart(c, k) PROVE ReaderState'
    BY <2>1 DEF MissStart, Begin
  <2>2. CASE CreateParent(c)
    BY <2>2 DEF CreateParent
  <2>3. CASE CreateTmp(c)
    BY <2>3 DEF CreateTmp
  <2>4. ASSUME NEW n \in ChunkSizes, NEW e \in BOOLEAN, WriteBody(c, n, e)
        PROVE ReaderState'
    BY <2>4 DEF WriteBody
  <2>5. CASE Land(c)
    BY <2>5 DEF Land
  <2>6. CASE Abandon(c)
    BY <2>6 DEF Abandon
  <2>7. CASE MissFails(c) \/ CancelCreate(c)
    BY <2>7 DEF MissFails, CancelCreate
  <2>8. CASE LandFails(c)
    BY <2>8 DEF LandFails
  <2> HIDE DEF ReaderState
  <2> QED
    BY <1>2, <2>1, <2>2, <2>3, <2>4, <2>5, <2>6, <2>7, <2>8 DEF MissNext
<1>3. ASSUME NEW c \in Calls, FinishNext(c) PROVE ReaderState'
  <2>1. CASE FinishStart(c)
    BY <2>1 DEF FinishStart, MeetAsWriter, Race, Readers, Purgers
  <2>2. CASE Rename(c)
    BY <2>2 DEF Rename
  <2>3. CASE RenameFails(c)
    BY <2>3 DEF RenameFails
  <2>4. CASE CopyOpen(c)
    BY <2>4 DEF CopyOpen
  <2>5. CASE Copy(c)
    BY <2>5 DEF Copy
  <2>6. CASE CopyFails(c)
    BY <2>6 DEF CopyFails, Race
  <2>7. CASE FinishEnd(c)
    BY <2>7 DEF FinishEnd
  <2> HIDE DEF ReaderState
  <2> QED
    BY <1>3, <2>1, <2>2, <2>3, <2>4, <2>5, <2>6, <2>7 DEF FinishNext
<1>4. ASSUME NEW c \in Calls, PartsNext(c) PROVE ReaderState'
  <2>1. ASSUME NEW p \in Parts, OpenPart(c, p) PROVE ReaderState'
    <3>1. CASE key[c] \in dir
      BY <2>1, <3>1 DEF OpenPart, Parts
    <3>2. CASE key[c] \notin dir
      BY <2>1, <3>2 DEF OpenPart, Parts
    <3> QED
      BY <3>1, <3>2
  <2>2. ASSUME NEW p \in Parts, WritePart(c, p) PROVE ReaderState'
    BY <2>2 DEF WritePart, Parts
  <2>3. CASE PartFails(c)
    BY <2>3 DEF PartFails, Race
  <2> HIDE DEF ReaderState
  <2> QED
    BY <1>4, <2>1, <2>2, <2>3 DEF PartsNext
<1>5. ASSUME NEW c \in Calls, UpdateNext(c) PROVE ReaderState'
  <2>1. ASSUME NEW l \in Calls, UpdateStart(c, l) PROVE ReaderState'
    BY <2>1 DEF UpdateStart, Begin, MeetAsWriter, Race, Readers, Purgers
  <2>2. CASE UpdateExists(c)
    BY <2>2 DEF UpdateExists
  <2>3. CASE ExistsFails(c)
    BY <2>3 DEF ExistsFails
  <2> HIDE DEF ReaderState
  <2> QED
    BY <1>5, <2>1, <2>2, <2>3 DEF UpdateNext
<1>6. ASSUME NEW c \in Calls, PurgeNext(c) PROVE ReaderState'
  <2>1. ASSUME NEW k \in Keys, PurgeStart(c, k) PROVE ReaderState'
    BY <2>1 DEF PurgeStart, Begin, MeetAsPurge
  <2>2. CASE PurgeBody(c)
    BY <2>2 DEF PurgeBody
  <2>3. ASSUME NEW p \in Parts, PurgePart(c, p) PROVE ReaderState'
    BY <2>3 DEF PurgePart
  <2>4. CASE PurgeDir(c)
    BY <2>4 DEF PurgeDir
  <2>5. CASE PurgeFails(c)
    BY <2>5 DEF PurgeFails
  <2> HIDE DEF ReaderState
  <2> QED
    BY <1>6, <2>1, <2>2, <2>3, <2>4, <2>5 DEF PurgeNext
<1>7. CASE Crash
  BY <1>7 DEF Crash
<1>8. CASE UNCHANGED vars
  BY <1>8 DEF vars
<1>9. ASSUME NEW c \in Calls, Cancel(c) PROVE ReaderState'
  BY <1>9 DEF Cancel, Race
<1>10. ASSUME NEW c \in Calls, CancelPurge(c) PROVE ReaderState'
  BY <1>10 DEF CancelPurge
<1> HIDE DEF ReaderState
<1> QED
  BY <1>1, <1>2, <1>3, <1>4, <1>5, <1>6, <1>7, <1>8, <1>9, <1>10 DEF Next

-----------------------------------------------------------------------------
(* Writers and purges *)

(* A purge and a writer of its key that run at the same time have both noticed. *)
LEMMA PurgeSeenStep ==
  ASSUME TypeOK, KindOK, PurgeSeen, [Next]_vars
  PROVE PurgeSeen'
<1> USE DiskCacheAssumption DEF TypeOK, CallTypeOK, KindOK, PurgeSeen, Goto, LivePc,
        WriterPc, PurgePc, EndPc, fsVars, bytes, callVars, callData, ghostVars, marks
<1>1. ASSUME NEW c \in Calls, LookupNext(c) PROVE PurgeSeen'
  <2>1. ASSUME NEW k \in Keys, LookupStart(c, k) PROVE PurgeSeen'
    BY <2>1 DEF LookupStart, Begin, MeetAsReader
  <2>2. ASSUME NEW f \in {"meta", "hdr", "body"}, LookupRead(c, f) PROVE PurgeSeen'
    BY <2>2 DEF LookupRead
  <2>3. CASE LookupEnd(c)
    BY <2>3 DEF LookupEnd
  <2>4. CASE LookupFails(c)
    BY <2>4 DEF LookupFails
  <2> HIDE DEF PurgeSeen
  <2> QED
    BY <1>1, <2>1, <2>2, <2>3, <2>4 DEF LookupNext
<1>2. ASSUME NEW c \in Calls, MissNext(c) PROVE PurgeSeen'
  <2>1. ASSUME NEW k \in Keys, MissStart(c, k) PROVE PurgeSeen'
    BY <2>1 DEF MissStart, Begin
  <2>2. CASE CreateParent(c)
    BY <2>2 DEF CreateParent
  <2>3. CASE CreateTmp(c)
    BY <2>3 DEF CreateTmp
  <2>4. ASSUME NEW n \in ChunkSizes, NEW e \in BOOLEAN, WriteBody(c, n, e)
        PROVE PurgeSeen'
    BY <2>4 DEF WriteBody
  <2>5. CASE Land(c)
    BY <2>5 DEF Land
  <2>6. CASE Abandon(c)
    BY <2>6 DEF Abandon
  <2>7. CASE MissFails(c) \/ CancelCreate(c)
    BY <2>7 DEF MissFails, CancelCreate
  <2>8. CASE LandFails(c)
    BY <2>8 DEF LandFails
  <2> HIDE DEF PurgeSeen
  <2> QED
    BY <1>2, <2>1, <2>2, <2>3, <2>4, <2>5, <2>6, <2>7, <2>8 DEF MissNext
<1>3. ASSUME NEW c \in Calls, FinishNext(c) PROVE PurgeSeen'
  <2>1. CASE FinishStart(c)
    BY <2>1 DEF FinishStart, MeetAsWriter, Race, Writers, Purgers, Readers, Active
  <2>2. CASE Rename(c)
    BY <2>2 DEF Rename
  <2>3. CASE RenameFails(c)
    BY <2>3 DEF RenameFails
  <2>4. CASE CopyOpen(c)
    BY <2>4 DEF CopyOpen
  <2>5. CASE Copy(c)
    BY <2>5 DEF Copy
  <2>6. CASE CopyFails(c)
    BY <2>6 DEF CopyFails, Race
  <2>7. CASE FinishEnd(c)
    BY <2>7 DEF FinishEnd
  <2> HIDE DEF PurgeSeen
  <2> QED
    BY <1>3, <2>1, <2>2, <2>3, <2>4, <2>5, <2>6, <2>7 DEF FinishNext
<1>4. ASSUME NEW c \in Calls, PartsNext(c) PROVE PurgeSeen'
  <2>1. ASSUME NEW p \in Parts, OpenPart(c, p) PROVE PurgeSeen'
    <3>1. PICK q \in {"metaWrite", "hdrWrite", "error"} : pc' = [pc EXCEPT ![c] = q]
      BY <2>1 DEF OpenPart
    <3>2. pc[c] \in WriterPc /\ UNCHANGED <<key, metPurge, metWriter>>
      BY <2>1 DEF OpenPart, Parts
    <3> QED
      BY <3>1, <3>2
  <2>2. ASSUME NEW p \in Parts, WritePart(c, p) PROVE PurgeSeen'
    BY <2>2 DEF WritePart, Parts
  <2>3. CASE PartFails(c)
    BY <2>3 DEF PartFails, Race
  <2> HIDE DEF PurgeSeen
  <2> QED
    BY <1>4, <2>1, <2>2, <2>3 DEF PartsNext
<1>5. ASSUME NEW c \in Calls, UpdateNext(c) PROVE PurgeSeen'
  <2>1. ASSUME NEW l \in Calls, UpdateStart(c, l) PROVE PurgeSeen'
    BY <2>1 DEF UpdateStart, Begin, MeetAsWriter, Race, Writers, Purgers, Readers, Active
  <2>2. CASE UpdateExists(c)
    BY <2>2 DEF UpdateExists
  <2>3. CASE ExistsFails(c)
    BY <2>3 DEF ExistsFails
  <2> HIDE DEF PurgeSeen
  <2> QED
    BY <1>5, <2>1, <2>2, <2>3 DEF UpdateNext
<1>6. ASSUME NEW c \in Calls, PurgeNext(c) PROVE PurgeSeen'
  <2>1. ASSUME NEW k \in Keys, PurgeStart(c, k) PROVE PurgeSeen'
    BY <2>1 DEF PurgeStart, Begin, MeetAsPurge, Writers, Purgers, Active
  <2>2. CASE PurgeBody(c)
    BY <2>2 DEF PurgeBody
  <2>3. ASSUME NEW p \in Parts, PurgePart(c, p) PROVE PurgeSeen'
    BY <2>3 DEF PurgePart
  <2>4. CASE PurgeDir(c)
    BY <2>4 DEF PurgeDir
  <2>5. CASE PurgeFails(c)
    BY <2>5 DEF PurgeFails
  <2> HIDE DEF PurgeSeen
  <2> QED
    BY <1>6, <2>1, <2>2, <2>3, <2>4, <2>5 DEF PurgeNext
<1>7. CASE Crash
  BY <1>7 DEF Crash
<1>8. CASE UNCHANGED vars
  BY <1>8 DEF vars
<1>9. ASSUME NEW c \in Calls, Cancel(c) PROVE PurgeSeen'
  BY <1>9 DEF Cancel, Race
<1>10. ASSUME NEW c \in Calls, CancelPurge(c) PROVE PurgeSeen'
  BY <1>10 DEF CancelPurge
<1> HIDE DEF PurgeSeen
<1> QED
  BY <1>1, <1>2, <1>3, <1>4, <1>5, <1>6, <1>7, <1>8, <1>9, <1>10 DEF Next

(* What the only writer of a key has put in place goes with a purge it meets.   *)
LEMMA AloneStep ==
  ASSUME TypeOK, KindOK, OverlapSeen, PurgeSeen, AloneState, [Next]_vars
  PROVE AloneState'
<1> USE DiskCacheAssumption DEF TypeOK, FsTypeOK, CallTypeOK, KindOK, OverlapSeen,
        PurgeSeen, AloneState, AloneOK, BodySet, MetaSet, HdrSet, WriterPc, PurgePc,
        Goto, Objects, fsVars, bytes, callVars, callData, ghostVars, marks
<1>1. ASSUME NEW c \in Calls, LookupNext(c) PROVE AloneState'
  <2>1. ASSUME NEW k \in Keys, LookupStart(c, k) PROVE AloneState'
    BY <2>1 DEF LookupStart, Begin, MeetAsReader
  <2>2. ASSUME NEW f \in {"meta", "hdr", "body"}, LookupRead(c, f) PROVE AloneState'
    BY <2>2 DEF LookupRead
  <2>3. CASE LookupEnd(c)
    BY <2>3 DEF LookupEnd
  <2>4. CASE LookupFails(c)
    BY <2>4 DEF LookupFails
  <2> HIDE DEF AloneState
  <2> QED
    BY <1>1, <2>1, <2>2, <2>3, <2>4 DEF LookupNext
<1>2. ASSUME NEW c \in Calls, MissNext(c) PROVE AloneState'
  <2>1. ASSUME NEW k \in Keys, MissStart(c, k) PROVE AloneState'
    BY <2>1 DEF MissStart, Begin
  <2>2. CASE CreateParent(c)
    BY <2>2 DEF CreateParent
  <2>3. CASE CreateTmp(c)
    BY <2>3 DEF CreateTmp
  <2>4. ASSUME NEW n \in ChunkSizes, NEW e \in BOOLEAN, WriteBody(c, n, e)
        PROVE AloneState'
    BY <2>4 DEF WriteBody
  <2>5. CASE Land(c)
    BY <2>5 DEF Land
  <2>6. CASE Abandon(c)
    BY <2>6 DEF Abandon
  <2>7. CASE MissFails(c) \/ CancelCreate(c)
    BY <2>7 DEF MissFails, CancelCreate
  <2>8. CASE LandFails(c)
    BY <2>8 DEF LandFails
  <2> HIDE DEF AloneState
  <2> QED
    BY <1>2, <2>1, <2>2, <2>3, <2>4, <2>5, <2>6, <2>7, <2>8 DEF MissNext
<1>3. ASSUME NEW c \in Calls, FinishNext(c) PROVE AloneState'
  <2>1. CASE FinishStart(c)
    BY <2>1 DEF FinishStart, MeetAsWriter, Race, Writers, Purgers, Readers, Active
  <2>2. CASE Rename(c)
    BY <2>2 DEF Rename
  <2>3. CASE RenameFails(c)
    BY <2>3 DEF RenameFails
  <2>4. CASE CopyOpen(c)
    BY <2>4 DEF CopyOpen
  <2>5. CASE Copy(c)
    BY <2>5 DEF Copy
  <2>6. CASE CopyFails(c)
    BY <2>6 DEF CopyFails, Race
  <2>7. CASE FinishEnd(c)
    BY <2>7 DEF FinishEnd
  <2> HIDE DEF AloneState
  <2> QED
    BY <1>3, <2>1, <2>2, <2>3, <2>4, <2>5, <2>6, <2>7 DEF FinishNext
<1>4. ASSUME NEW c \in Calls, PartsNext(c) PROVE AloneState'
  <2>1. ASSUME NEW p \in Parts, OpenPart(c, p) PROVE AloneState'
    <3> SUFFICES ASSUME NEW d \in Calls, pc'[d] \in WriterPc, kind'[d] = "miss",
                        d \notin metWriter' \cup metPurge'
                 PROVE AloneOK(d)'
      BY DEF AloneState
    <3>1. UNCHANGED <<dir, body, kind, key, metWriter, metPurge>> /\ pc[c] = p
      BY <2>1 DEF OpenPart
    <3>2. CASE d # c
      <4>1. pc'[d] = pc[d] /\ key[d] # key[c]
        BY <2>1, <3>1, <3>2 DEF OpenPart, Parts
      <4>2. \A q \in Parts : file'[q][key[d]] = file[q][key[d]]
        BY <2>1, <4>1, SMTT(30) DEF OpenPart
      <4> QED
        BY <3>1, <4>1, <4>2 DEF Parts
    <3>3. CASE d = c
      <4>1. AloneOK(c) /\ key[c] \in Keys
        BY <3>1, <3>3 DEF Parts
      <4>2. PICK v \in File :
              file' = [file EXCEPT ![p][key[c]] = v]
        <5> DEFINE ino == IF file[p][key[c]] = None THEN c ELSE file[p][key[c]].ino
        <5>1. file' = [file EXCEPT ![p][key[c]] = [ino |-> ino, val |-> Torn]]
          BY <2>1, <4>1 DEF OpenPart
        <5>2. ino \in Objects
          BY <4>1 DEF File
        <5>3. [ino |-> ino, val |-> Torn] \in File
          BY <5>2 DEF File
        <5> QED
          BY <5>1, <5>3
      <4>3. pc'[c] = IF p = "meta" THEN "metaWrite" ELSE "hdrWrite"
        BY <2>1, <4>1 DEF OpenPart
      <4> QED
        BY <3>1, <3>3, <4>1, <4>2, <4>3 DEF Parts
    <3> QED
      BY <3>2, <3>3
  <2>2. ASSUME NEW p \in Parts, WritePart(c, p) PROVE AloneState'
    <3>1. UNCHANGED <<dir, body, kind, key, metWriter, metPurge>>
      BY <2>2 DEF WritePart
    <3>2. \A q \in Parts, k \in Keys : file[q][k] # None => file'[q][k] # None
      <4>1. CASE UNCHANGED file
        BY <4>1
      <4>2. CASE file[p][key[c]] # None /\ key[c] \in Keys
        <5>1. PICK v \in Stamp \cup {Torn} :
                file' = [file EXCEPT ![p][key[c]].val = v] \/ file' = file
          BY <2>2 DEF WritePart, Stamp, StampOf
        <5> DEFINE x == [file[p][key[c]] EXCEPT !.val = v]
        <5>2. x \in File
          <6>1. file[p][key[c]] \in File
            BY <4>2
          <6> QED
            BY <6>1 DEF File
        <5>3. file' = [file EXCEPT ![p][key[c]] = x] \/ file' = file
          BY <5>1
        <5> HIDE DEF x
        <5> QED
          BY <5>2, <5>3
      <4> QED
        BY <2>2, <4>1, <4>2 DEF WritePart, Parts
    <3>3. \A d \in Calls : d # c => pc'[d] = pc[d]
      BY <2>2 DEF WritePart
    <3>4. /\ pc[c] \in {"metaWrite", "hdrWrite"} /\ pc'[c] \in {"hdr", "account", "ok"}
          /\ pc'[c] = "account" => pc[c] = "hdrWrite"
          /\ pc'[c] = "hdr" => pc[c] = "metaWrite"
      BY <2>2 DEF WritePart, Parts
    <3> QED
      BY <3>1, <3>2, <3>3, <3>4 DEF Parts
  <2>3. CASE PartFails(c)
    BY <2>3 DEF PartFails, Race
  <2> HIDE DEF AloneState
  <2> QED
    BY <1>4, <2>1, <2>2, <2>3 DEF PartsNext
<1>5. ASSUME NEW c \in Calls, UpdateNext(c) PROVE AloneState'
  <2>1. ASSUME NEW l \in Calls, UpdateStart(c, l) PROVE AloneState'
    BY <2>1 DEF UpdateStart, Begin, MeetAsWriter, Race, Writers, Purgers, Readers, Active
  <2>2. CASE UpdateExists(c)
    BY <2>2 DEF UpdateExists
  <2>3. CASE ExistsFails(c)
    BY <2>3 DEF ExistsFails
  <2> HIDE DEF AloneState
  <2> QED
    BY <1>5, <2>1, <2>2, <2>3 DEF UpdateNext
<1>6. ASSUME NEW c \in Calls, PurgeNext(c) PROVE AloneState'
  <2>1. ASSUME NEW k \in Keys, PurgeStart(c, k) PROVE AloneState'
    BY <2>1 DEF PurgeStart, Begin, MeetAsPurge
  <2>2. CASE PurgeBody(c)
    BY <2>2 DEF PurgeBody
  <2>3. ASSUME NEW p \in Parts, PurgePart(c, p) PROVE AloneState'
    BY <2>3 DEF PurgePart
  <2>4. CASE PurgeDir(c)
    BY <2>4 DEF PurgeDir
  <2>5. CASE PurgeFails(c)
    BY <2>5 DEF PurgeFails
  <2> HIDE DEF AloneState
  <2> QED
    BY <1>6, <2>1, <2>2, <2>3, <2>4, <2>5 DEF PurgeNext
<1>7. CASE Crash
  BY <1>7 DEF Crash
<1>8. CASE UNCHANGED vars
  BY <1>8 DEF vars
<1>9. ASSUME NEW c \in Calls, Cancel(c) PROVE AloneState'
  BY <1>9 DEF Cancel, Race
<1>10. ASSUME NEW c \in Calls, CancelPurge(c) PROVE AloneState'
  BY <1>10 DEF CancelPurge
<1> HIDE DEF AloneState
<1> QED
  BY <1>1, <1>2, <1>3, <1>4, <1>5, <1>6, <1>7, <1>8, <1>9, <1>10 DEF Next

(* Nothing a purge has removed comes back but by a writer it meets.             *)
LEMMA PurgedStep ==
  ASSUME TypeOK, KindOK, PurgeSeen, PurgedState, [Next]_vars
  PROVE PurgedState'
<1> USE DiskCacheAssumption DEF TypeOK, FsTypeOK, CallTypeOK, HistTypeOK, KindOK,
        PurgeSeen, PurgedState, PurgedOK, WriterPc, PurgePc, Fault,
        Goto, Objects, fsVars, bytes, callVars, callData, ghostVars, marks
<1>1. ASSUME NEW c \in Calls, LookupNext(c) PROVE PurgedState'
  <2>1. ASSUME NEW k \in Keys, LookupStart(c, k) PROVE PurgedState'
    BY <2>1 DEF LookupStart, Begin, MeetAsReader
  <2>2. ASSUME NEW f \in {"meta", "hdr", "body"}, LookupRead(c, f) PROVE PurgedState'
    BY <2>2 DEF LookupRead
  <2>3. CASE LookupEnd(c)
    BY <2>3 DEF LookupEnd
  <2>4. CASE LookupFails(c)
    BY <2>4 DEF LookupFails
  <2> HIDE DEF PurgedState
  <2> QED
    BY <1>1, <2>1, <2>2, <2>3, <2>4 DEF LookupNext
<1>2. ASSUME NEW c \in Calls, MissNext(c) PROVE PurgedState'
  <2>1. ASSUME NEW k \in Keys, MissStart(c, k) PROVE PurgedState'
    BY <2>1 DEF MissStart, Begin
  <2>2. CASE CreateParent(c)
    BY <2>2 DEF CreateParent
  <2>3. CASE CreateTmp(c)
    <3>1. UNCHANGED <<body, file, key, metWriter, faults>>
      BY <2>3 DEF CreateTmp
    <3>2. \A d \in Calls : pc'[d] \in PurgePc => pc'[d] = pc[d]
      BY <2>3 DEF CreateTmp
    <3> QED
      BY <3>1, <3>2
  <2>4. ASSUME NEW n \in ChunkSizes, NEW e \in BOOLEAN, WriteBody(c, n, e)
        PROVE PurgedState'
    BY <2>4 DEF WriteBody
  <2>5. CASE Land(c)
    BY <2>5 DEF Land
  <2>6. CASE Abandon(c)
    BY <2>6 DEF Abandon
  <2>7. CASE MissFails(c) \/ CancelCreate(c)
    BY <2>7 DEF MissFails, CancelCreate
  <2>8. CASE LandFails(c)
    BY <2>8 DEF LandFails
  <2> HIDE DEF PurgedState
  <2> QED
    BY <1>2, <2>1, <2>2, <2>3, <2>4, <2>5, <2>6, <2>7, <2>8 DEF MissNext
<1>3. ASSUME NEW c \in Calls, FinishNext(c) PROVE PurgedState'
  <2>1. CASE FinishStart(c)
    BY <2>1 DEF FinishStart, MeetAsWriter, Race
  <2>2. CASE Rename(c)
    BY <2>2 DEF Rename
  <2>3. CASE RenameFails(c)
    BY <2>3 DEF RenameFails
  <2>4. CASE CopyOpen(c)
    BY <2>4 DEF CopyOpen
  <2>5. CASE Copy(c)
    BY <2>5 DEF Copy
  <2>6. CASE CopyFails(c)
    BY <2>6 DEF CopyFails, Race
  <2>7. CASE FinishEnd(c)
    BY <2>7 DEF FinishEnd
  <2> HIDE DEF PurgedState
  <2> QED
    BY <1>3, <2>1, <2>2, <2>3, <2>4, <2>5, <2>6, <2>7 DEF FinishNext
<1>4. ASSUME NEW c \in Calls, PartsNext(c) PROVE PurgedState'
  <2>1. ASSUME NEW p \in Parts, OpenPart(c, p) PROVE PurgedState'
    <3>1. /\ UNCHANGED <<body, key, metWriter, faults>>
          /\ pc[c] \in {"meta", "hdr"} /\ pc'[c] \in {"metaWrite", "hdrWrite", "error"}
      BY <2>1 DEF OpenPart, Parts
    <3> SUFFICES ASSUME NEW d \in Calls, pc'[d] \in PurgePc, d \notin metWriter', faults' = 0
                 PROVE  PurgedOK(d)'
      BY DEF PurgedState
    <3>2. d # c
      BY <3>1
    <3>3. pc'[d] = pc[d]
      BY <2>1, <3>2 DEF OpenPart
    <3>4. key[d] # key[c]
      BY <3>1, <3>3
    <3>5. \A q \in Parts : file'[q][key[d]] = file[q][key[d]]
      <4>1. \/ file' = file
            \/ \E v : file' = [file EXCEPT ![p][key[c]] = v]
        BY <2>1 DEF OpenPart
      <4>2. file \in [Parts -> [Keys -> File \cup {None}]] /\ key[d] \in Keys
        BY <3>1, <3>3
      <4>3. ASSUME NEW v, file' = [file EXCEPT ![p][key[c]] = v]
            PROVE  \A q \in Parts : file'[q][key[d]] = file[q][key[d]]
        BY <3>4, <4>2, <4>3
      <4> QED
        BY <4>1, <4>3
    <3>6. PurgedOK(d)
      BY <3>1, <3>3
    <3> QED
      BY <3>1, <3>3, <3>5, <3>6 DEF Parts
  <2>2. ASSUME NEW p \in Parts, WritePart(c, p) PROVE PurgedState'
    BY <2>2 DEF WritePart, Parts
  <2>3. CASE PartFails(c)
    BY <2>3 DEF PartFails, Race
  <2> HIDE DEF PurgedState
  <2> QED
    BY <1>4, <2>1, <2>2, <2>3 DEF PartsNext
<1>5. ASSUME NEW c \in Calls, UpdateNext(c) PROVE PurgedState'
  <2>1. ASSUME NEW l \in Calls, UpdateStart(c, l) PROVE PurgedState'
    BY <2>1 DEF UpdateStart, Begin, MeetAsWriter, Race
  <2>2. CASE UpdateExists(c)
    BY <2>2 DEF UpdateExists
  <2>3. CASE ExistsFails(c)
    BY <2>3 DEF ExistsFails
  <2> HIDE DEF PurgedState
  <2> QED
    BY <1>5, <2>1, <2>2, <2>3 DEF UpdateNext
<1>6. ASSUME NEW c \in Calls, PurgeNext(c) PROVE PurgedState'
  <2>1. ASSUME NEW k \in Keys, PurgeStart(c, k) PROVE PurgedState'
    <3>1. UNCHANGED <<body, file>> /\ metWriter \subseteq metWriter'
      BY <2>1 DEF PurgeStart, MeetAsPurge
    <3>2. /\ pc[c] = "idle" /\ pc' = [pc EXCEPT ![c] = "unlink"]
          /\ key' = [key EXCEPT ![c] = k]
      BY <2>1 DEF PurgeStart, Begin
    <3>3. faults' = faults \/ faults' = faults + 1
      BY <2>1 DEF PurgeStart
    <3>4. \A d \in Calls : d # c => pc'[d] = pc[d] /\ key'[d] = key[d]
      BY <3>2
    <3> QED
      BY <3>1, <3>2, <3>3, <3>4
  <2>2. CASE PurgeBody(c)
    BY <2>2 DEF PurgeBody
  <2>3. ASSUME NEW p \in Parts, PurgePart(c, p) PROVE PurgedState'
    <3>1. UNCHANGED <<body, key, metWriter, faults>>
      BY <2>3 DEF PurgePart
    <3>2. \A q \in Parts, k \in Keys : file'[q][k] \in {file[q][k], None}
      BY <2>3 DEF PurgePart
    <3>3. \A d \in Calls : d # c => pc'[d] = pc[d]
      BY <2>3 DEF PurgePart
    <3>4. /\ pc[c] = (IF p = "meta" THEN "unmeta" ELSE "unhdr")
          /\ pc'[c] = (IF p = "meta" THEN "unhdr" ELSE "rmdir")
          /\ file'[p][key[c]] = None
      BY <2>3 DEF PurgePart
    <3> QED
      BY <3>1, <3>2, <3>3, <3>4 DEF Parts
  <2>4. CASE PurgeDir(c)
    BY <2>4 DEF PurgeDir
  <2>5. CASE PurgeFails(c)
    BY <2>5 DEF PurgeFails
  <2> HIDE DEF PurgedState
  <2> QED
    BY <1>6, <2>1, <2>2, <2>3, <2>4, <2>5 DEF PurgeNext
<1>7. CASE Crash
  BY <1>7 DEF Crash
<1>8. CASE UNCHANGED vars
  BY <1>8 DEF vars
<1>9. ASSUME NEW c \in Calls, Cancel(c) PROVE PurgedState'
  BY <1>9 DEF Cancel, Race
<1>10. ASSUME NEW c \in Calls, CancelPurge(c) PROVE PurgedState'
  BY <1>10 DEF CancelPurge
<1> HIDE DEF PurgedState
<1> QED
  BY <1>1, <1>2, <1>3, <1>4, <1>5, <1>6, <1>7, <1>8, <1>9, <1>10 DEF Next

-----------------------------------------------------------------------------
(* The theorems *)

(* The inductive step. *)
LEMMA InvStep == IInv /\ [Next]_vars => IInv'
BY FsTypeStep, CallTypeStep, HistTypeStep, KindStep, FilesInDirStep, TmpOwnedStep,
   OverlapSeenStep, MetMeansRacedStep, NoMixtureStep, WriterStateStep, ReaderStateStep,
   PurgeSeenStep, AloneStep, PurgedStep
   DEF IInv, TypeOK

(* The invariant holds in every reachable state of any instance. *)
THEOREM Invariance == Spec => []IInv
<1> QED
  BY InitInv, InvStep, PTL DEF Spec

(* Every variable keeps its type. *)
THEOREM TypeCorrect == Spec => []TypeOK
<1>1. IInv => TypeOK
  BY DEF IInv
<1> QED
  BY Invariance, <1>1, PTL

(* However lookups, misses, updates, purges, errors and restarts interleave, the  *)
(* files of a key whose writers never overlapped, failed or went stale belong to  *)
(* one object.                                                                    *)
THEOREM NoMixtureHolds == Spec => []NoMixture
<1>1. IInv => NoMixture
  BY DEF IInv
<1> QED
  BY Invariance, <1>1, PTL

(* A miss handler never leaves its temporary file behind, whichever way it ends,  *)
(* unless the process dies; and no purge removes the directory under it.          *)
THEOREM TmpOwnedHolds == Spec => []TmpOwned
<1>1. IInv => TmpOwned
  BY DEF IInv
<1> QED
  BY Invariance, <1>1, PTL

(* A lookup that no writer of its key overlapped pairs a body with its own        *)
(* metadata when it reports a hit.                                                *)
THEOREM HitMatchesHolds == Spec => HitMatches
<1> DEFINE A == \A c \in Calls :
       (LookupEnd(c) /\ pc'[c] # "none" /\ c \notin metWriter /\ key[c] \notin raced)
       => /\ pc'[c] = "hit"
          /\ got[c].meta = got[c].hdr
          /\ got[c].meta.obj = got[c].body
<1>1. ASSUME IInv PROVE A
  <2> SUFFICES ASSUME NEW c \in Calls, LookupEnd(c), pc'[c] # "none", c \notin metWriter,
                      key[c] \notin raced
               PROVE /\ pc'[c] = "hit"
                     /\ got[c].meta = got[c].hdr
                     /\ got[c].meta.obj = got[c].body
    OBVIOUS
  <2>1. ReaderOK(c) /\ TypeOK
    BY <1>1 DEF IInv, ReaderState, LookupEnd
  <2>2. \A f \in {"meta", "hdr", "body"} : got[c][f] \notin Unset
    BY <2>1 DEF TypeOK, CallTypeOK, LookupEnd, Unset
  <2>3. /\ got[c].meta = got[c].hdr /\ got[c].meta.obj = got[c].body
        /\ got[c].meta # Torn /\ got[c].hdr # Torn
    BY <2>1, <2>2 DEF ReaderOK, Parts
  <2>4. pc'[c] = "hit"
    BY <2>1, <2>3 DEF LookupEnd, TypeOK, CallTypeOK
  <2> QED
    BY <2>3, <2>4
<1>2. IInv /\ [Next]_vars => [A]_vars
  BY <1>1
<1>3. HitMatches <=> [][A]_vars
  BY PTL DEF HitMatches
<1> QED
  BY Invariance, <1>2, <1>3, PTL DEF Spec

(* A finish that met no other writer and no purge has left an entry of its own,   *)
(* whether it renamed or copied its body.                                         *)
THEOREM CommitVisibleHolds == Spec => []CommitVisible
<1>1. ASSUME IInv PROVE CommitVisible
  <2> SUFFICES ASSUME NEW c \in Calls, pc[c] = "account",
                      c \notin metWriter \cup metPurge
               PROVE /\ body[key[c]] = c
                     /\ \A p \in Parts : /\ file[p][key[c]] # None
                                         /\ file[p][key[c]].val = StampOf(c)
    BY Zenon DEF CommitVisible
  <2>1. kind[c] = "miss" /\ obj[c] = c
    BY <1>1 DEF IInv, KindOK
  <2>2. WriterOK(c) /\ AloneOK(c)
    BY <1>1, <2>1 DEF IInv, WriterState, AloneState, WriterPc
  <2> QED
    BY <2>1, <2>2 DEF WriterOK, AloneOK, BodySet, MetaSet, HdrSet, Parts
<1> QED
  BY Invariance, <1>1, PTL

(* A purge that met no writer has removed all three files when it ends, whatever  *)
(* other purges did, unless an I/O error kept one of them.                        *)
THEOREM PurgeCompleteHolds == Spec => PurgeComplete
<1> DEFINE A == \A c \in Calls :
       PurgeDir(c) /\ c \notin metWriter /\ faults = 0 =>
         /\ body[key[c]] = None
         /\ \A p \in Parts : file[p][key[c]] = None
<1>1. ASSUME IInv PROVE A
  <2> SUFFICES ASSUME NEW c \in Calls, PurgeDir(c), c \notin metWriter, faults = 0
               PROVE /\ body[key[c]] = None
                     /\ \A p \in Parts : file[p][key[c]] = None
    OBVIOUS
  <2>1. pc[c] = "rmdir"
    BY DEF PurgeDir, Goto
  <2>2. PurgedOK(c)
    BY <1>1, <2>1 DEF IInv, PurgedState, PurgePc
  <2> QED
    BY <2>1, <2>2 DEF PurgedOK, Parts
<1>2. IInv /\ [Next]_vars => [A]_vars
  BY <1>1
<1>3. PurgeComplete <=> [][A]_vars
  BY PTL DEF PurgeComplete
<1> QED
  BY Invariance, <1>2, <1>3, PTL DEF Spec

-----------------------------------------------------------------------------
(* The sums that the size is about *)

(* Sums, of finitely many numbers: they are numbers, ...                      *)
LEMMA TotalType ==
  ASSUME NEW S, IsFiniteSet(S), NEW f, \A x \in S : f[x] \in Nat
  PROVE  /\ IsFiniteSet(UNION {{x} \X (1..f[x]) : x \in S})
         /\ Total(S, f) \in Nat
<1> DEFINE g == [x \in S |-> {x} \X (1..f[x])]
           T == {{x} \X (1..f[x]) : x \in S}
<1>1. g \in Surjection(S, T)
  BY DEF Surjection
<1>2. IsFiniteSet(T)
  <2> HIDE DEF g, T
  <2> QED
    BY <1>1, FS_Surjection
<1>3. \A x \in S : IsFiniteSet({x} \X (1..f[x]))
  <2> SUFFICES ASSUME NEW x \in S PROVE IsFiniteSet({x} \X (1..f[x]))
    OBVIOUS
  <2>1. IsFiniteSet({x})
    BY FS_Singleton
  <2>2. 1 \in Int /\ f[x] \in Int
    OBVIOUS
  <2>3. IsFiniteSet(1..f[x])
    BY <2>2, FS_Interval
  <2> QED
    BY <2>1, <2>3, FS_Product
<1>4. \A t \in T : IsFiniteSet(t)
  BY <1>3
<1>5. IsFiniteSet(UNION T)
  <2> HIDE DEF T
  <2> QED
    BY <1>2, <1>4, FS_UNION
<1> QED
  BY <1>5, FS_CardinalityType DEF Total

(* ... another summand is added, ...                                          *)
LEMMA TotalAdd ==
  ASSUME NEW S, IsFiniteSet(S), NEW f, \A x \in S : f[x] \in Nat,
         NEW y, y \notin S, f[y] \in Nat
  PROVE  Total(S \cup {y}, f) = Total(S, f) + f[y]
<1> DEFINE A == UNION {{x} \X (1..f[x]) : x \in S}
           B == {y} \X (1..f[y])
<1>1. UNION {{x} \X (1..f[x]) : x \in S \cup {y}} = A \cup B
  OBVIOUS
<1>2. A \cap B = {}
  OBVIOUS
<1>3. IsFiniteSet(A) /\ Cardinality(A) \in Nat /\ Total(S, f) = Cardinality(A)
  BY TotalType DEF Total
<1>4. IsFiniteSet(B) /\ Cardinality(B) = f[y]
  <2>1. IsFiniteSet({y}) /\ Cardinality({y}) = 1
    BY FS_Singleton
  <2>2. 1 \in Int /\ f[y] \in Int /\ f[y] \in Nat
    OBVIOUS
  <2>3. IsFiniteSet(1..f[y]) /\ Cardinality(1..f[y]) = f[y]
    BY <2>2, FS_Interval, SMTT(30)
  <2>4. IsFiniteSet(B) /\ Cardinality(B) = Cardinality({y}) * Cardinality(1..f[y])
    BY <2>1, <2>3, FS_Product
  <2> QED
    BY <2>1, <2>2, <2>3, <2>4
<1>5. Total(S \cup {y}, f) = Cardinality(A \cup B)
  BY <1>1 DEF Total
<1> HIDE DEF A, B
<1>6. Cardinality(A \cup B) = Cardinality(A) + Cardinality(B) - Cardinality(A \cap B)
  BY <1>3, <1>4, FS_Union
<1>7. Cardinality(A \cap B) = 0
  BY <1>2, FS_EmptySet
<1> QED
  BY <1>3, <1>4, <1>5, <1>6, <1>7

(* ... equal summands have equal sums, ...                                    *)
LEMMA TotalSame ==
  ASSUME NEW S, NEW f, NEW g, \A x \in S : f[x] = g[x]
  PROVE  Total(S, f) = Total(S, g)
<1>1. {{x} \X (1..f[x]) : x \in S} = {{x} \X (1..g[x]) : x \in S}
  OBVIOUS
<1> QED
  BY <1>1 DEF Total

(* ... and one of them can change alone.                                      *)
LEMMA TotalChange ==
  ASSUME NEW S, IsFiniteSet(S), NEW f, NEW g, NEW y \in S,
         \A x \in S : f[x] \in Nat /\ g[x] \in Nat,
         \A x \in S \ {y} : f[x] = g[x]
  PROVE  Total(S, g) = Total(S, f) - f[y] + g[y]
<1> DEFINE R == S \ {y}
<1>1. IsFiniteSet(R) /\ y \notin R /\ S = R \cup {y}
  BY FS_RemoveElement
<1>2. \A x \in R : f[x] \in Nat
  OBVIOUS
<1>3. \A x \in R : g[x] \in Nat
  OBVIOUS
<1>4. Total(R, f) = Total(R, g)
  BY TotalSame
<1>5. Total(R, f) \in Nat /\ f[y] \in Nat /\ g[y] \in Nat
  BY <1>1, TotalType
<1> HIDE DEF R
<1>6. Total(R \cup {y}, f) = Total(R, f) + f[y]
  BY <1>1, <1>2, <1>5, TotalAdd
<1>7. Total(R \cup {y}, g) = Total(R, g) + g[y]
  BY <1>1, <1>3, <1>5, TotalAdd
<1> QED
  BY <1>1, <1>4, <1>5, <1>6, <1>7

-----------------------------------------------------------------------------
(* The accounts *)

\* Nothing the accounts are about changes, and no call takes up what they are about.
QuietCall(d) ==
  /\ (kind'[d] = "miss" /\ pc'[d] \in PlacedPc) <=> (kind[d] = "miss" /\ pc[d] \in PlacedPc)
  /\ pc[d] # "idle" => kind'[d] = kind[d] /\ key'[d] = key[d]
  /\ kind[d] = "miss" /\ pc[d] \in PlacedPc \cup EndPc => pc'[d] \in PlacedPc \cup EndPc
  /\ kind'[d] = "miss" /\ pc'[d] \in WriterPc => kind[d] = "miss" /\ pc[d] \in WriterPc
  /\ pc'[d] \in PurgePc => pc[d] \in PurgePc
  /\ pc'[d] = "unlink" => pc[d] = "unlink"
Quiet == /\ UNCHANGED <<body, flen, pend, wrote, stat, skew>>
         /\ metrics'.size_bytes = metrics.size_bytes
         /\ \A d \in Calls : QuietCall(d)

\* The steps that do.
BookStep(c) == \/ FinishStart(c) \/ Rename(c) \/ CopyOpen(c) \/ Copy(c) \/ FinishEnd(c)
               \/ \E n \in ChunkSizes, e \in BOOLEAN : WriteBody(c, n, e)
               \/ Land(c)
               \/ \E k \in Keys : PurgeStart(c, k)
               \/ PurgeBody(c)

(* Every other step is quiet, or puts the accounts out.                       *)
LEMMA QuietStep ==
  ASSUME IInv, PlacedOK, UncountedOK, [Next]_vars, Explained'
  PROVE  Quiet \/ \E c \in Calls : BookStep(c)
<1> DEFINE G == Quiet \/ \E c \in Calls : BookStep(c)
<1> SUFFICES G
  OBVIOUS
<1> USE DiskCacheAssumption DEF IInv, TypeOK, FsTypeOK, CallTypeOK, HistTypeOK, KindOK,
        Quiet, QuietCall, PlacedPc, EndPc, WriterPc, PurgePc, Goto, Begin, Explained, Skew,
        Count, Counters, Objects, fsVars, bytes, callVars, callData, ghostVars, marks
<1>1. ASSUME NEW c \in Calls, LookupNext(c) PROVE G
  <2>1. ASSUME NEW k \in Keys, LookupStart(c, k) PROVE G
    BY <2>1 DEF LookupStart
  <2>2. ASSUME NEW f \in {"meta", "hdr", "body"}, LookupRead(c, f) PROVE G
    BY <2>2 DEF LookupRead
  <2>3. CASE LookupEnd(c)
    BY <2>3 DEF LookupEnd
  <2>4. CASE LookupFails(c)
    BY <2>4 DEF LookupFails
  <2> HIDE DEF G
  <2> QED
    BY <1>1, <2>1, <2>2, <2>3, <2>4 DEF LookupNext
<1>2. ASSUME NEW c \in Calls, MissNext(c) PROVE G
  <2>1. ASSUME NEW k \in Keys, MissStart(c, k) PROVE G
    BY <2>1 DEF MissStart
  <2>2. CASE CreateParent(c)
    BY <2>2 DEF CreateParent
  <2>3. CASE CreateTmp(c)
    BY <2>3 DEF CreateTmp
  <2>4. ASSUME NEW n \in ChunkSizes, NEW e \in BOOLEAN, WriteBody(c, n, e)
        PROVE G
    BY <2>4 DEF BookStep
  <2>5. CASE Land(c)
    BY <2>5 DEF BookStep
  <2>6. CASE Abandon(c)
    BY <2>6 DEF Abandon
  <2>7. CASE MissFails(c) \/ CancelCreate(c)
    BY <2>7 DEF MissFails, CancelCreate
  <2>8. CASE LandFails(c)
    BY <2>8 DEF LandFails
  <2> HIDE DEF G
  <2> QED
    BY <1>2, <2>1, <2>2, <2>3, <2>4, <2>5, <2>6, <2>7, <2>8 DEF MissNext
<1>3. ASSUME NEW c \in Calls, FinishNext(c) PROVE G
  <2>1. CASE RenameFails(c)
    BY <2>1 DEF RenameFails
  <2>2. CASE CopyFails(c)
    BY <2>2 DEF CopyFails
  <2> QED
    BY <1>3, <2>1, <2>2 DEF FinishNext, BookStep
<1>4. ASSUME NEW c \in Calls, PartsNext(c) PROVE G
  <2>1. ASSUME NEW p \in Parts, OpenPart(c, p) PROVE G
    <3>1. ~(kind[c] = "miss" /\ key[c] \notin dir)
      BY <2>1 DEF OpenPart, Parts, UncountedOK, Uncounted, FilesInDir
    <3> QED
      BY <2>1, <3>1 DEF OpenPart, Parts
  <2>2. ASSUME NEW p \in Parts, WritePart(c, p) PROVE G
    BY <2>2 DEF WritePart, Parts
  <2>3. CASE PartFails(c)
    BY <2>3 DEF PartFails
  <2> HIDE DEF G
  <2> QED
    BY <1>4, <2>1, <2>2, <2>3 DEF PartsNext
<1>5. ASSUME NEW c \in Calls, UpdateNext(c) PROVE G
  BY <1>5 DEF UpdateNext, UpdateStart, UpdateExists, ExistsFails
<1>6. ASSUME NEW c \in Calls, PurgeNext(c) PROVE G
  <2>1. ASSUME NEW p \in Parts, PurgePart(c, p) PROVE G
    BY <2>1 DEF PurgePart
  <2>2. CASE PurgeDir(c)
    BY <2>2 DEF PurgeDir
  <2>3. CASE PurgeFails(c)
    BY <2>3 DEF PurgeFails
  <2> QED
    BY <1>6, <2>1, <2>2, <2>3 DEF PurgeNext, BookStep
<1>7. ASSUME NEW c \in Calls, Cancel(c) PROVE G
  BY <1>7 DEF Cancel
<1>8. ASSUME NEW c \in Calls, CancelPurge(c) PROVE G
  BY <1>8 DEF CancelPurge
<1>9. CASE Crash
  BY <1>9 DEF Crash
<1>10. CASE UNCHANGED vars
  BY <1>10 DEF vars
<1> HIDE DEF G
<1> QED
  BY <1>1, <1>2, <1>3, <1>4, <1>5, <1>6, <1>7, <1>8, <1>9, <1>10 DEF Next

(* What a body holds is a number.                                             *)
LEMMA HeldType ==
  ASSUME TypeOK PROVE \A k \in Keys : Held(k) \in Nat
BY DiskCacheAssumption DEF TypeOK, FsTypeOK, Held, Objects

(* The sums are numbers, ...                                                  *)
LEMMA SumTypes ==
  ASSUME TypeOK, IsFiniteSet(Uncounted)
  PROVE  AllHeld \in Nat /\ Owed \in Nat /\ metrics.size_bytes \in Int
<1> DEFINE h == [k \in Keys |-> Held(k)]
<1>1. \A k \in Keys : h[k] \in Nat
  BY HeldType
<1>2. IsFiniteSet(Keys)
  BY DiskCacheAssumption
<1>3. Total(Keys, h) \in Nat
  <2> HIDE DEF h
  <2> QED
    BY <1>1, <1>2, TotalType
<1>4. \A c \in Uncounted : wrote[c] \in Nat
  BY DEF TypeOK, CallTypeOK, Uncounted
<1>5. Owed \in Nat
  BY <1>4, TotalType DEF Owed
<1> QED
  BY <1>3, <1>5 DEF AllHeld, TypeOK, HistTypeOK, Counters

(* ... what all bodies hold changes with what one of them holds, ...          *)
LEMMA HeldChange ==
  ASSUME TypeOK, TypeOK', NEW k \in Keys, \A j \in Keys \ {k} : Held(j)' = Held(j)
  PROVE  AllHeld' = AllHeld - Held(k) + Held(k)'
<1> DEFINE h == [j \in Keys |-> Held(j)]
<1>1. PICK f : f = h
  OBVIOUS
<1>2. PICK g : g = h'
  OBVIOUS
<1>3. \A j \in Keys : f[j] = Held(j) /\ g[j] = Held(j)'
  BY <1>1, <1>2
<1>4. \A j \in Keys : f[j] \in Nat /\ g[j] \in Nat
  <2>1. \A j \in Keys : Held(j)' \in Nat
    BY DiskCacheAssumption DEF TypeOK, FsTypeOK, Held, Objects
  <2> QED
    BY <1>3, <2>1, HeldType
<1>5. IsFiniteSet(Keys) /\ \A j \in Keys \ {k} : f[j] = g[j]
  BY <1>3, DiskCacheAssumption
<1>6. AllHeld = Total(Keys, f) /\ AllHeld' = Total(Keys, g)
  BY <1>1, <1>2 DEF AllHeld
<1>7. Total(Keys, g) = Total(Keys, f) - f[k] + g[k]
  BY <1>4, <1>5, TotalChange
<1> QED
  BY <1>3, <1>6, <1>7

(* ... and what is owed, with what a finish is about to count.                *)
LEMMA OwedGrows ==
  ASSUME TypeOK, IsFiniteSet(Uncounted), UNCHANGED wrote,
         NEW c \in Calls, c \notin Uncounted, Uncounted' = Uncounted \cup {c}
  PROVE  Owed' = Owed + wrote[c]
<1>1. \A d \in Uncounted : wrote[d] \in Nat
  BY DEF TypeOK, CallTypeOK, Uncounted
<1>2. wrote[c] \in Nat
  BY DEF TypeOK, CallTypeOK
<1>3. Total(Uncounted \cup {c}, wrote) = Total(Uncounted, wrote) + wrote[c]
  BY <1>1, <1>2, TotalAdd
<1> QED
  BY <1>3 DEF Owed

LEMMA OwedShrinks ==
  ASSUME TypeOK, IsFiniteSet(Uncounted), UNCHANGED wrote,
         NEW c \in Uncounted, Uncounted' = Uncounted \ {c}
  PROVE  Owed = Owed' + wrote[c]
<1> DEFINE R == Uncounted \ {c}
<1>1. IsFiniteSet(R) /\ c \notin R /\ Uncounted = R \cup {c}
  BY FS_RemoveElement
<1>2. \A d \in R : wrote[d] \in Nat
  BY DEF TypeOK, CallTypeOK, Uncounted
<1>3. wrote[c] \in Nat
  BY DEF TypeOK, CallTypeOK, Uncounted
<1>4. Owed' = Total(R, wrote)
  BY DEF Owed
<1> HIDE DEF R
<1>5. Total(R \cup {c}, wrote) = Total(R, wrote) + wrote[c]
  BY <1>1, <1>2, <1>3, TotalAdd
<1> QED
  BY <1>1, <1>4, <1>5 DEF Owed

(* A quiet step keeps the accounts.                                           *)
LEMMA QuietKeeps ==
  ASSUME IInv, Accounts, Quiet
  PROVE  Accounts'
<1> USE DiskCacheAssumption DEF Accounts, Quiet, QuietCall
<1>1. Uncounted' = Uncounted
  BY DEF Uncounted
<1>2. \A k \in Keys : Held(k)' = Held(k)
  BY DEF Held
<1>3. PlacedOK'
  BY DEF PlacedOK, PlacedPc, EndPc
<1>4. OverlapOK'
  BY DEF OverlapOK, Committers, Purgers, Writers, Active, WriterPc, PurgePc
<1>5. UncountedOK'
  BY <1>1 DEF UncountedOK, Uncounted, PlacedPc
<1>6. WroteOK'
  BY DEF WroteOK
<1>7. StatOK'
  BY <1>2 DEF StatOK, IInv, KindOK
<1>8. BooksOK'
  <2>1. [k \in Keys |-> Held(k)]' = [k \in Keys |-> Held(k)]
    BY <1>2
  <2> QED
    BY <1>1, <2>1 DEF BooksOK, AllHeld, Owed
<1> QED
  BY <1>3, <1>4, <1>5, <1>6, <1>7, <1>8

-----------------------------------------------------------------------------
(* The steps that the accounts are about *)

(* A finish that starts finds no purge at work.                               *)
LEMMA FinishStartKeeps ==
  ASSUME IInv, Accounts, Explained', NEW c \in Calls, FinishStart(c)
  PROVE  Accounts'
<1> USE DEF Accounts, FinishStart, IInv, TypeOK, CallTypeOK, KindOK, fsVars, bytes, callData
<1>1. Purgers(key[c]) = {}
  BY DEF Skew, Explained
<1>2. UNCHANGED <<body, flen, pend, kind, key, stat, wrote, metrics>> /\ skew' = skew
  BY <1>1 DEF Skew
<1>3. pc' = [pc EXCEPT ![c] = "rename"] /\ pc[c] \in {"body", "eof"} /\ key[c] \in Keys
  OBVIOUS
<1> HIDE DEF FinishStart
<1>4. Uncounted' = Uncounted
  BY <1>2, <1>3 DEF Uncounted, PlacedPc
<1>5. \A k \in Keys : Held(k)' = Held(k)
  BY <1>2 DEF Held
<1>6. PlacedOK'
  BY <1>2, <1>3 DEF PlacedOK, PlacedPc, EndPc
<1>7. OverlapOK'
  BY <1>1, <1>2, <1>3 DEF OverlapOK, Committers, Purgers, Writers, Active, WriterPc, PurgePc
<1>8. UncountedOK'
  BY <1>2, <1>4 DEF UncountedOK
<1>9. WroteOK'
  BY <1>2 DEF WroteOK
<1>10. StatOK'
  BY <1>2, <1>3, <1>5 DEF StatOK
<1>11. BooksOK'
  <2>1. [k \in Keys |-> Held(k)]' = [k \in Keys |-> Held(k)]
    BY <1>5
  <2> QED
    BY <1>2, <1>4, <2>1 DEF BooksOK, AllHeld, Owed
<1> QED
  BY <1>6, <1>7, <1>8, <1>9, <1>10, <1>11

(* A body that is put in its place is owed all that was written to it.        *)
LEMMA PlaceKeeps ==
  ASSUME IInv, IInv', Accounts, Explained', NEW c \in Calls, Rename(c) \/ CopyOpen(c)
  PROVE  Accounts'
<1> DEFINE k == key[c]
<1> USE DiskCacheAssumption
        DEF Accounts, IInv, TypeOK, CallTypeOK, KindOK, fsVars, bytes, callData, Goto
<1>1. /\ UNCHANGED <<flen, pend, kind, key, stat, wrote, metrics>>
      /\ pc[c] \in {"rename", "copy"} /\ k \in Keys /\ kind[c] = "miss"
      /\ body' = [body EXCEPT ![k] = c]
      /\ Skew("replaced", body[k] # None)
  BY DEF Rename, CopyOpen
<1>2. /\ \A d \in Calls \ {c} : pc'[d] = pc[d]
      /\ pc'[c] \in {"meta", "copying"}
  BY DEF Rename, CopyOpen
<1>3. /\ body'[k] = c /\ \A j \in Keys \ {k} : body'[j] = body[j]
      /\ body \in [Keys -> Objects \cup {None}]
      /\ \A j \in Keys : body'[j] \in Objects \cup {None}
  BY <1>1 DEF FsTypeOK, Objects
<1>4. c \in Committers(k) /\ Purgers(k) = {}
  BY <1>1 DEF OverlapOK, Committers, Writers, Active, WriterPc
<1>5. Uncounted' = Uncounted \cup {c} /\ c \notin Uncounted
  BY <1>1, <1>2 DEF Uncounted, PlacedPc
<1>6. \A j \in Keys : body[j] # c
  <2>1. PlacedOK /\ pc[c] \notin PlacedPc \cup EndPc
    BY <1>1 DEF PlacedPc, EndPc
  <2> HIDE DEF Accounts, IInv, TypeOK, CallTypeOK, KindOK
  <2> QED
    BY <2>1 DEF PlacedOK
<1>7. \A j \in Keys \ {k} : Held(j)' = Held(j)
  BY <1>1, <1>3 DEF Held
<1>8. Held(k)' = flen[c] + pend[c] /\ Held(k) \in Nat /\ (body[k] = None => Held(k) = 0)
  <2>1. c # None
    BY DEF Objects
  <2>2. Held(k)' = flen[c] + pend[c]
    BY <1>1, <1>3, <2>1 DEF Held
  <2> QED
    BY <1>1, <2>2, HeldType DEF Held
<1>9. PlacedOK'
  BY <1>1, <1>2, <1>3, <1>6 DEF PlacedOK, PlacedPc
<1>10. OverlapOK'
  <2>1. OverlapOK
    OBVIOUS
  <2> HIDE DEF Accounts, IInv, TypeOK, CallTypeOK, KindOK
  <2>2. \A j \in Keys : Committers(j)' = Committers(j)
    BY <1>1, <1>2 DEF Committers, Writers, Active, WriterPc
  <2>3. \A j \in Keys : Purgers(j)' = Purgers(j)
    BY <1>1, <1>2 DEF Purgers, Active, PurgePc
  <2> QED
    BY <2>1, <2>2, <2>3 DEF OverlapOK
<1>11. UncountedOK'
  <2>1. IsFiniteSet(Uncounted')
    BY <1>5, FS_AddElement DEF UncountedOK
  <2>2. \A d \in Uncounted' : body'[key'[d]] # None
    BY <1>1, <1>3, <1>5 DEF UncountedOK, Uncounted, PlacedPc, Objects
  <2> QED
    BY <2>1, <2>2 DEF UncountedOK
<1>12. WroteOK'
  BY <1>1 DEF WroteOK, Skew
<1>13. StatOK'
  <2> SUFFICES ASSUME NEW d \in Calls, pc'[d] = "unlink", body'[key'[d]] # None
               PROVE  /\ stat'[d] <= Held(key[d])'
                      /\ "late" \notin skew' => stat'[d] = Held(key[d])'
    BY <1>1 DEF StatOK
  <2>1. pc[d] = "unlink" /\ key[d] \in Keys
    BY <1>2
  <2>2. key[d] # k
    BY <1>4, <2>1 DEF Purgers, Active, PurgePc
  <2>3. Held(key[d])' = Held(key[d]) /\ body'[key[d]] = body[key[d]]
    <3> HIDE DEF Accounts, IInv, TypeOK, CallTypeOK, KindOK
    <3>1. PICK j : j = key[d]
      OBVIOUS
    <3>2. j \in Keys \ {k}
      BY <2>1, <2>2, <3>1
    <3>3. Held(j)' = Held(j) /\ body'[j] = body[j]
      BY <1>3, <1>7, <3>2
    <3>4. key' = key
      BY <1>1
    <3> QED
      BY <3>1, <3>3, <3>4 DEF Held
  <2> QED
    BY <1>1, <2>1, <2>3 DEF StatOK, Skew
<1>14. BooksOK'
  <2>1. AllHeld' = AllHeld - Held(k) + Held(k)'
    BY <1>1, <1>7, HeldChange
  <2>2. Owed' = Owed + wrote[c]
    BY <1>1, <1>5, OwedGrows DEF UncountedOK
  <2>3. AllHeld \in Nat /\ Owed \in Nat /\ metrics.size_bytes \in Int
    BY SumTypes DEF UncountedOK
  <2>4. flen[c] \in Nat /\ pend[c] \in Nat /\ wrote[c] \in Nat
    BY DEF FsTypeOK, Objects
  <2>5. flen[c] + pend[c] <= wrote[c] /\ (skew = {} => flen[c] + pend[c] = wrote[c])
    BY DEF WroteOK
  <2>6. metrics' = metrics /\ (skew' = {} => skew = {} /\ Held(k) = 0)
    BY <1>1, <1>8 DEF Skew
  <2> HIDE DEF Accounts, IInv, TypeOK, CallTypeOK, KindOK, k
  <2>7. /\ metrics.size_bytes + Owed >= AllHeld
        /\ skew = {} => metrics.size_bytes + Owed = AllHeld
    BY DEF BooksOK, Accounts
  <2> QED
    BY <1>8, <2>1, <2>2, <2>3, <2>4, <2>5, <2>6, <2>7 DEF BooksOK
<1> HIDE DEF IInv, TypeOK, CallTypeOK, KindOK
<1> QED
  BY <1>9, <1>10, <1>11, <1>12, <1>13, <1>14

(* Bytes that reach the file while it is copied stay, those on their way are    *)
(* lost, and reported.                                                        *)
LEMMA CopyKeeps ==
  ASSUME IInv, IInv', Accounts, Explained', NEW c \in Calls, Copy(c)
  PROVE  Accounts'
<1> DEFINE k == key[c]
<1>1. /\ UNCHANGED <<body, flen, kind, key, stat, wrote, metrics>>
      /\ pc[c] = "copying" /\ k \in Keys /\ kind[c] = "miss"
      /\ pend' = [pend EXCEPT ![c] = 0]
      /\ Skew("late", pend[c] > 0)
  BY DEF Copy, IInv, KindOK, fsVars, bytes, callData, Goto
<1>2. /\ \A d \in Calls \ {c} : pc'[d] = pc[d]
      /\ pc'[c] = "meta"
  BY DEF Copy, Goto, IInv, TypeOK, CallTypeOK
<1>3. /\ \A d \in Calls \ {c} : pend'[d] = pend[d]
      /\ pend'[c] = 0 /\ pend[c] \in Nat /\ flen[c] \in Nat /\ wrote[c] \in Nat
  BY <1>1 DEF IInv, TypeOK, FsTypeOK, CallTypeOK, Objects
<1>4. PlacedOK /\ OverlapOK /\ UncountedOK /\ WroteOK /\ StatOK /\ BooksOK /\ TypeOK /\ TypeOK'
  BY DEF Accounts, IInv
<1>5. Purgers(k) = {}
  BY <1>1, <1>4 DEF OverlapOK, Committers, Writers, Active, WriterPc
<1>6. Uncounted' = Uncounted
  BY <1>1, <1>2 DEF Uncounted, PlacedPc
<1>7. \A j \in Keys \ {k} : Held(j)' = Held(j)
  BY <1>1, <1>3, <1>4 DEF Held, PlacedOK
<1>8. /\ Held(k)' <= Held(k)
      /\ pend[c] = 0 => Held(k)' = Held(k)
      /\ Held(k) \in Nat /\ Held(k)' \in Nat
  <2>1. CASE body[k] = c
    <3>1. c # None
      BY DiskCacheAssumption DEF Objects
    <3>2. Held(k) = flen[c] + pend[c] /\ Held(k)' = flen[c]
      BY <1>1, <1>3, <2>1, <3>1 DEF Held
    <3> QED
      BY <1>3, <3>2
  <2>2. CASE body[k] # c
    <3>1. Held(k)' = Held(k)
      BY <1>1, <1>3, <2>2 DEF Held
    <3>2. Held(k) \in Nat
      BY <1>1, <1>4, HeldType
    <3> QED
      BY <3>1, <3>2
  <2> QED
    BY <2>1, <2>2
<1>9. PlacedOK'
  BY <1>1, <1>2, <1>4 DEF PlacedOK, PlacedPc
<1>10. OverlapOK'
  <2>1. \A j \in Keys : Committers(j)' = Committers(j)
    BY <1>1, <1>2 DEF Committers, Writers, Active, WriterPc
  <2>2. \A j \in Keys : Purgers(j)' = Purgers(j)
    BY <1>1, <1>2 DEF Purgers, Active, PurgePc
  <2> QED
    BY <1>4, <2>1, <2>2 DEF OverlapOK
<1>11. UncountedOK'
  BY <1>1, <1>4, <1>6 DEF UncountedOK
<1>12. WroteOK'
  BY <1>1, <1>3, <1>4 DEF WroteOK, Skew
<1>13. StatOK'
  <2> SUFFICES ASSUME NEW d \in Calls, pc'[d] = "unlink", body'[key'[d]] # None
               PROVE  /\ stat'[d] <= Held(key[d])'
                      /\ "late" \notin skew' => stat'[d] = Held(key[d])'
    BY <1>1 DEF StatOK
  <2>1. pc[d] = "unlink" /\ key[d] \in Keys
    BY <1>2 DEF IInv, KindOK
  <2>2. key[d] # k
    BY <1>5, <2>1 DEF Purgers, Active, PurgePc
  <2>3. PICK j : j = key[d]
    OBVIOUS
  <2>4. Held(j)' = Held(j) /\ key' = key
    BY <1>1, <1>7, <2>1, <2>2, <2>3
  <2> QED
    BY <1>1, <1>4, <2>1, <2>3, <2>4 DEF StatOK, Skew, Held
<1>14. BooksOK'
  <2>1. AllHeld' = AllHeld - Held(k) + Held(k)'
    BY <1>1, <1>4, <1>7, HeldChange
  <2>2. Owed' = Owed /\ metrics' = metrics
    BY <1>1, <1>6 DEF Owed
  <2>3. AllHeld \in Nat /\ Owed \in Nat /\ metrics.size_bytes \in Int
    BY <1>4, SumTypes DEF UncountedOK
  <2>4. skew' = {} => skew = {} /\ pend[c] = 0
    BY <1>1, <1>3 DEF Skew
  <2> QED
    BY <1>4, <1>8, <2>1, <2>2, <2>3, <2>4 DEF BooksOK
<1> QED
  BY <1>9, <1>10, <1>11, <1>12, <1>13, <1>14 DEF Accounts

(* The end of a finish counts what it owes.                                   *)
LEMMA FinishEndKeeps ==
  ASSUME IInv, Accounts, NEW c \in Calls, FinishEnd(c)
  PROVE  Accounts'
<1>1. /\ UNCHANGED <<body, flen, pend, kind, key, stat, wrote, skew>>
      /\ pc[c] = "account" /\ kind[c] = "miss"
      /\ metrics'.size_bytes = metrics.size_bytes + wrote[c]
  BY DEF FinishEnd, IInv, KindOK, TypeOK, HistTypeOK, Counters, fsVars, bytes, callData, Goto
<1>2. /\ \A d \in Calls \ {c} : pc'[d] = pc[d]
      /\ pc'[c] = "ok"
  BY DEF FinishEnd, Goto, IInv, TypeOK, CallTypeOK
<1>3. PlacedOK /\ OverlapOK /\ UncountedOK /\ WroteOK /\ StatOK /\ BooksOK /\ TypeOK
  BY DEF Accounts, IInv
<1>4. Uncounted' = Uncounted \ {c} /\ c \in Uncounted
  BY <1>1, <1>2 DEF Uncounted, PlacedPc
<1>5. \A k \in Keys : Held(k)' = Held(k)
  BY <1>1 DEF Held
<1>6. PlacedOK'
  BY <1>1, <1>2, <1>3 DEF PlacedOK, EndPc
<1>7. OverlapOK'
  <2>1. \A k \in Keys : Committers(k)' \subseteq Committers(k)
    BY <1>1, <1>2 DEF Committers, Writers, Active, WriterPc
  <2>2. \A k \in Keys : Purgers(k)' = Purgers(k)
    BY <1>1, <1>2 DEF Purgers, Active, PurgePc
  <2> QED
    BY <1>3, <2>1, <2>2 DEF OverlapOK
<1>8. UncountedOK'
  <2>1. IsFiniteSet(Uncounted \ {c})
    BY <1>3, FS_Subset DEF UncountedOK
  <2> QED
    BY <1>1, <1>3, <1>4, <2>1 DEF UncountedOK
<1>9. WroteOK'
  BY <1>1, <1>3 DEF WroteOK
<1>10. StatOK'
  BY <1>1, <1>2, <1>3 DEF StatOK, Held
<1>11. BooksOK'
  <2>1. [k \in Keys |-> Held(k)]' = [k \in Keys |-> Held(k)]
    BY <1>5
  <2>2. AllHeld' = AllHeld
    BY <2>1 DEF AllHeld
  <2>3. Owed = Owed' + wrote[c]
    BY <1>1, <1>3, <1>4, OwedShrinks DEF UncountedOK
  <2>4. AllHeld \in Nat /\ Owed \in Nat /\ metrics.size_bytes \in Int
    BY <1>3, SumTypes DEF UncountedOK
  <2>5. Owed' \in Int /\ wrote[c] \in Nat
    <3>1. IsFiniteSet(Uncounted \ {c})
      BY <1>3, FS_Subset DEF UncountedOK
    <3>2. \A d \in Uncounted \ {c} : wrote[d] \in Nat
      BY <1>3 DEF TypeOK, CallTypeOK, Uncounted
    <3>3. Total(Uncounted \ {c}, wrote) \in Nat
      BY <3>1, <3>2, TotalType
    <3> QED
      BY <1>1, <1>3, <1>4, <3>3 DEF Owed, TypeOK, CallTypeOK
  <2> QED
    BY <1>1, <1>3, <2>2, <2>3, <2>4, <2>5 DEF BooksOK
<1> QED
  BY <1>6, <1>7, <1>8, <1>9, <1>10, <1>11 DEF Accounts

(* What write_body accepts is not part of any body yet, ...                   *)
LEMMA WriteBodyKeeps ==
  ASSUME IInv, Accounts, NEW c \in Calls,
         NEW n \in ChunkSizes, NEW e \in BOOLEAN, WriteBody(c, n, e)
  PROVE  Accounts'
<1>1. /\ UNCHANGED <<body, kind, key, stat, skew, metrics>>
      /\ pc[c] = "body" /\ pc' \in {pc, [pc EXCEPT ![c] = "eof"]}
      /\ \A d \in Calls \ {c} : wrote'[d] = wrote[d] /\ pend'[d] = pend[d]
      /\ \A o \in Objects \ {c} : flen'[o] = flen[o]
      /\ wrote'[c] = wrote[c] + n
      /\ flen'[c] + pend'[c] = flen[c] + pend[c] + n
      /\ wrote[c] \in Nat /\ flen[c] \in Nat /\ pend[c] \in Nat /\ n \in Nat
  <2>1. /\ flen \in [Objects -> Nat] /\ pend \in [Calls -> Nat] /\ wrote \in [Calls -> Nat]
        /\ c \in Objects /\ Calls \subseteq Objects /\ n \in Nat
    BY DiskCacheAssumption DEF IInv, TypeOK, FsTypeOK, CallTypeOK, Objects
  <2>2. /\ UNCHANGED <<body, kind, key, stat, skew, metrics>>
        /\ pc[c] = "body" /\ pc' \in {pc, [pc EXCEPT ![c] = "eof"]}
    BY DEF WriteBody, ghostVars
  <2>3. /\ \A d \in Calls \ {c} : wrote'[d] = wrote[d]
        /\ wrote'[c] = wrote[c] + n
    BY <2>1 DEF WriteBody
  <2>4. CASE e
    <3>1. flen' = [flen EXCEPT ![c] = @ + n] /\ pend' = pend
      BY <2>4 DEF WriteBody
    <3> QED
      BY <2>1, <2>2, <2>3, <3>1
  <2>5. CASE ~e
    <3>1. pend' = [pend EXCEPT ![c] = @ + n] /\ flen' = flen
      BY <2>5 DEF WriteBody
    <3> QED
      BY <2>1, <2>2, <2>3, <3>1
  <2> QED
    BY <2>4, <2>5
<1>2. \A d \in Calls : \/ pc'[d] = pc[d] /\ d # c
                       \/ d = c /\ pc'[d] \in {"body", "eof"}
  BY <1>1 DEF IInv, TypeOK, CallTypeOK
<1>3. PlacedOK /\ OverlapOK /\ UncountedOK /\ WroteOK /\ StatOK /\ BooksOK /\ TypeOK
  BY DEF Accounts, IInv
<1>4. Uncounted' = Uncounted /\ c \notin Uncounted
  BY <1>1, <1>2 DEF Uncounted, PlacedPc
<1>5. \A k \in Keys : body[k] # c /\ body[k] \in Objects \cup {None}
  BY <1>1, <1>3 DEF PlacedOK, PlacedPc, EndPc, TypeOK, FsTypeOK
<1>6. \A k \in Keys : Held(k)' = Held(k)
  BY <1>1, <1>5 DEF Held
<1>7. PlacedOK'
  BY <1>1, <1>2, <1>3, <1>5 DEF PlacedOK
<1>8. OverlapOK'
  <2>1. \A k \in Keys : Committers(k)' = Committers(k)
    BY <1>1, <1>2 DEF Committers, Writers, Active, WriterPc
  <2>2. \A k \in Keys : Purgers(k)' = Purgers(k)
    BY <1>1, <1>2 DEF Purgers, Active, PurgePc
  <2> QED
    BY <1>3, <2>1, <2>2 DEF OverlapOK
<1>9. UncountedOK'
  BY <1>1, <1>3, <1>4 DEF UncountedOK
<1>10. WroteOK'
  <2> SUFFICES ASSUME NEW d \in Calls
               PROVE  /\ flen'[d] + pend'[d] <= wrote'[d]
                      /\ "late" \notin skew => flen'[d] + pend'[d] = wrote'[d]
    BY <1>1 DEF WroteOK
  <2>1. CASE d = c
    BY <1>1, <1>3, <2>1 DEF WroteOK
  <2>2. CASE d # c
    BY <1>1, <1>3, <2>2 DEF WroteOK, Objects
  <2> QED
    BY <2>1, <2>2
<1>11. StatOK'
  <2> SUFFICES ASSUME NEW d \in Calls, pc'[d] = "unlink", body'[key'[d]] # None
               PROVE  /\ stat'[d] <= Held(key[d])'
                      /\ "late" \notin skew' => stat'[d] = Held(key[d])'
    BY <1>1 DEF StatOK
  <2>1. pc[d] = "unlink" /\ key[d] \in Keys
    BY <1>2 DEF IInv, KindOK
  <2>2. PICK j : j = key[d]
    OBVIOUS
  <2>3. Held(j)' = Held(j) /\ key' = key
    BY <1>1, <1>6, <2>1, <2>2
  <2> QED
    BY <1>1, <1>3, <2>1, <2>2, <2>3 DEF StatOK, Held
<1>12. BooksOK'
  <2>1. [k \in Keys |-> Held(k)]' = [k \in Keys |-> Held(k)]
    BY <1>6
  <2>2. AllHeld' = AllHeld
    BY <2>1 DEF AllHeld
  <2>3. \A d \in Uncounted : wrote[d] = wrote'[d]
    BY <1>1, <1>4 DEF Uncounted
  <2>4. Total(Uncounted, wrote) = Total(Uncounted, wrote')
    BY <2>3, TotalSame
  <2> QED
    BY <1>1, <1>3, <1>4, <2>2, <2>4 DEF BooksOK, Owed
<1> QED
  BY <1>7, <1>8, <1>9, <1>10, <1>11, <1>12 DEF Accounts

(* ... and where the bytes are makes no difference to what a body will hold.  *)
LEMMA LandKeeps ==
  ASSUME IInv, Accounts, NEW c \in Calls, Land(c)
  PROVE  Accounts'
<1>1. /\ UNCHANGED <<body, kind, pc, key, stat, wrote, skew, metrics>>
      /\ \A d \in Calls \ {c} : pend'[d] = pend[d]
      /\ \A o \in Objects \ {c} : flen'[o] = flen[o]
      /\ flen'[c] + pend'[c] = flen[c] + pend[c]
  <2>1. /\ flen \in [Objects -> Nat] /\ pend \in [Calls -> Nat]
        /\ c \in Objects /\ Calls \subseteq Objects
    BY DEF IInv, TypeOK, FsTypeOK, Objects
  <2>2. PICK n \in 1..pend[c] : /\ pend' = [pend EXCEPT ![c] = @ - n]
                                /\ flen' = [flen EXCEPT ![c] = @ + n]
    BY DEF Land
  <2> QED
    BY <2>1, <2>2 DEF Land, callVars, callData, ghostVars
<1>2. PlacedOK /\ OverlapOK /\ UncountedOK /\ WroteOK /\ StatOK /\ BooksOK
  BY DEF Accounts
<1>3. \A k \in Keys : Held(k)' = Held(k)
  <2> SUFFICES ASSUME NEW k \in Keys PROVE Held(k)' = Held(k)
    OBVIOUS
  <2>1. body[k] \in Objects \cup {None}
    BY DEF IInv, TypeOK, FsTypeOK
  <2>2. CASE body[k] = c
    BY <1>1, <2>2 DEF Held
  <2>3. CASE body[k] # c
    BY <1>1, <2>1, <2>3 DEF Held
  <2> QED
    BY <2>2, <2>3
<1>4. Uncounted' = Uncounted
  BY <1>1 DEF Uncounted
<1>5. PlacedOK' /\ OverlapOK' /\ UncountedOK'
  BY <1>1, <1>2 DEF PlacedOK, OverlapOK, UncountedOK, Uncounted, Committers, Purgers,
                    Writers, Active
<1>6. WroteOK'
  <2> SUFFICES ASSUME NEW d \in Calls
               PROVE  flen'[d] + pend'[d] = flen[d] + pend[d]
    BY <1>1, <1>2 DEF WroteOK
  <2>1. CASE d = c
    BY <1>1, <2>1
  <2>2. CASE d # c
    BY <1>1, <2>2 DEF Objects
  <2> QED
    BY <2>1, <2>2
<1>7. StatOK'
  <2> SUFFICES ASSUME NEW d \in Calls, pc'[d] = "unlink", body'[key'[d]] # None
               PROVE  /\ stat'[d] <= Held(key[d])'
                      /\ "late" \notin skew' => stat'[d] = Held(key[d])'
    BY <1>1 DEF StatOK
  <2>1. pc[d] = "unlink" /\ key[d] \in Keys
    BY <1>1 DEF IInv, KindOK
  <2>2. PICK j : j = key[d]
    OBVIOUS
  <2>3. Held(j)' = Held(j) /\ key' = key
    BY <1>1, <1>3, <2>1, <2>2
  <2> QED
    BY <1>1, <1>2, <2>1, <2>2, <2>3 DEF StatOK, Held
<1>8. BooksOK'
  <2>1. [k \in Keys |-> Held(k)]' = [k \in Keys |-> Held(k)]
    BY <1>3
  <2> QED
    BY <1>1, <1>2, <1>4, <2>1 DEF BooksOK, AllHeld, Owed
<1> QED
  BY <1>5, <1>6, <1>7, <1>8 DEF Accounts

(* A purge finds what the body holds, or reports what is still on its way.    *)
LEMMA PurgeStartKeeps ==
  ASSUME IInv, Accounts, Explained', NEW c \in Calls, NEW k \in Keys, PurgeStart(c, k)
  PROVE  Accounts'
<1>1. TypeOK /\ "fault" \notin skew' /\ "overlap" \notin skew'
  BY DEF IInv, Explained
<1>2. /\ UNCHANGED <<body, flen, pend, wrote>>
      /\ metrics'.size_bytes = metrics.size_bytes
      /\ pc[c] = "idle" /\ pc' = [pc EXCEPT ![c] = "unlink"]
      /\ kind' = [kind EXCEPT ![c] = "purge"] /\ key' = [key EXCEPT ![c] = k]
      /\ stat' = [stat EXCEPT ![c] = BodyLen(k)]
      /\ Committers(k) = {}
      /\ skew' = skew \cup (IF body[k] \in Calls /\ pend[body[k]] > 0 THEN {"late"} ELSE {})
  BY <1>1 DEF PurgeStart, Begin, Skew, Count, TypeOK, HistTypeOK, Counters, fsVars, bytes
<1>3. /\ \A d \in Calls \ {c} : /\ pc'[d] = pc[d] /\ kind'[d] = kind[d]
                                /\ key'[d] = key[d] /\ stat'[d] = stat[d]
      /\ pc'[c] = "unlink" /\ kind'[c] = "purge" /\ key'[c] = k /\ stat'[c] = BodyLen(k)
  BY <1>1, <1>2 DEF TypeOK, CallTypeOK
<1>4. PlacedOK /\ OverlapOK /\ UncountedOK /\ WroteOK /\ StatOK /\ BooksOK
  BY DEF Accounts
<1>5. Uncounted' = Uncounted /\ c \notin Uncounted
  BY <1>2, <1>3 DEF Uncounted, PlacedPc
<1>6. \A j \in Keys : Held(j)' = Held(j)
  BY <1>2 DEF Held
<1>7. PlacedOK'
  BY <1>2, <1>3, <1>4 DEF PlacedOK, PlacedPc, EndPc
<1>8. OverlapOK'
  <2>1. \A j \in Keys : Committers(j)' = Committers(j)
    BY <1>2, <1>3 DEF Committers, Writers, Active, WriterPc
  <2>2. \A j \in Keys \ {k} : Purgers(j)' = Purgers(j)
    BY <1>2, <1>3 DEF Purgers, Active, PurgePc
  <2> QED
    BY <1>2, <1>4, <2>1, <2>2 DEF OverlapOK
<1>9. UncountedOK'
  BY <1>2, <1>3, <1>4, <1>5 DEF UncountedOK
<1>10. WroteOK'
  BY <1>2, <1>4 DEF WroteOK
<1>11. StatOK'
  <2> SUFFICES ASSUME NEW d \in Calls, pc'[d] = "unlink", body'[key'[d]] # None,
                      NEW j, j = key'[d]
               PROVE  /\ stat'[d] <= Held(j)'
                      /\ "late" \notin skew' => stat'[d] = Held(j)'
    BY DEF StatOK, Held
  <2>1. CASE d = c
    <3>1. body[k] # None /\ body[k] \in Objects
      BY <1>1, <1>2, <1>3, <2>1 DEF TypeOK, FsTypeOK
    <3>2. ~(body[k] \in Calls /\ pc[body[k]] = "copying")
      BY <1>2, <1>4 DEF PlacedOK, Committers, Writers, Active, WriterPc
    <3>3. stat'[d] = flen[body[k]]
      BY <1>3, <2>1, <3>1, <3>2 DEF BodyLen
    <3>4. flen[body[k]] \in Nat /\ (body[k] \in Calls => pend[body[k]] \in Nat)
      BY <1>1, <3>1 DEF TypeOK, FsTypeOK
    <3>5. flen[body[k]] <= Held(k) /\ ("late" \notin skew' => flen[body[k]] = Held(k))
      BY <1>2, <3>1, <3>4 DEF Held
    <3>6. j = k /\ Held(k)' = Held(k)
      BY <1>3, <1>6, <2>1
    <3> QED
      BY <3>3, <3>5, <3>6
  <2>2. CASE d # c
    <3>1. pc[d] = "unlink" /\ key[d] \in Keys /\ key'[d] = key[d] /\ stat'[d] = stat[d]
      BY <1>3, <2>2 DEF IInv, KindOK
    <3>2. Held(j)' = Held(j) /\ body' = body /\ j = key[d]
      BY <1>2, <1>6, <3>1
    <3>3. "late" \notin skew' => "late" \notin skew
      BY <1>2
    <3> QED
      BY <1>4, <3>1, <3>2, <3>3 DEF StatOK
  <2> QED
    BY <2>1, <2>2
<1>12. BooksOK'
  <2>1. [j \in Keys |-> Held(j)]' = [j \in Keys |-> Held(j)]
    BY <1>6
  <2> QED
    BY <1>2, <1>4, <1>5, <2>1 DEF BooksOK, AllHeld, Owed
<1> QED
  BY <1>7, <1>8, <1>9, <1>10, <1>11, <1>12 DEF Accounts

(* It takes away what it has found, and no finish has still to count that.    *)
LEMMA PurgeBodyKeeps ==
  ASSUME IInv, IInv', Accounts, NEW c \in Calls, PurgeBody(c)
  PROVE  Accounts'
<1> DEFINE k == key[c]
<1>1. /\ UNCHANGED <<flen, pend, kind, key, stat, wrote, skew>>
      /\ pc[c] = "unlink" /\ pc' = [pc EXCEPT ![c] = "unmeta"] /\ k \in Keys
      /\ body' = [body EXCEPT ![k] = None]
      /\ metrics'.size_bytes = metrics.size_bytes - IF body[k] = None THEN 0 ELSE stat[c]
  BY DEF PurgeBody, IInv, KindOK, TypeOK, HistTypeOK, Counters, fsVars, bytes, callData,
         ghostVars, Goto
<1>2. /\ \A d \in Calls \ {c} : pc'[d] = pc[d]
      /\ pc'[c] = "unmeta"
  BY <1>1 DEF IInv, TypeOK, CallTypeOK
<1>3. PlacedOK /\ OverlapOK /\ UncountedOK /\ WroteOK /\ StatOK /\ BooksOK /\ TypeOK /\ TypeOK'
  BY DEF Accounts, IInv
<1>4. body'[k] = None /\ \A j \in Keys \ {k} : body'[j] = body[j]
  BY <1>1, <1>3 DEF TypeOK, FsTypeOK
<1>5. c \in Purgers(k) /\ Committers(k) = {}
  BY <1>1, <1>3 DEF OverlapOK, Purgers, Active, PurgePc
<1>6. Uncounted' = Uncounted
  BY <1>1, <1>2 DEF Uncounted, PlacedPc
<1>7. \A j \in Keys \ {k} : Held(j)' = Held(j)
  BY <1>1, <1>4 DEF Held
<1>8. PlacedOK'
  BY <1>1, <1>2, <1>3, <1>4, DiskCacheAssumption DEF PlacedOK, PlacedPc, EndPc, Objects
<1>9. OverlapOK'
  <2>1. \A j \in Keys : Committers(j)' = Committers(j)
    BY <1>1, <1>2 DEF Committers, Writers, Active, WriterPc
  <2>2. \A j \in Keys : Purgers(j)' = Purgers(j)
    BY <1>1, <1>2 DEF Purgers, Active, PurgePc
  <2> QED
    BY <1>3, <2>1, <2>2 DEF OverlapOK
<1>10. UncountedOK'
  <2>1. \A d \in Uncounted : d \in Committers(key[d]) /\ key[d] \in Keys
    BY DEF IInv, KindOK, Uncounted, Committers, Writers, Active, WriterPc, PlacedPc
  <2>2. \A d \in Uncounted : key[d] \in Keys \ {k}
    BY <1>5, <2>1
  <2> QED
    BY <1>1, <1>3, <1>4, <1>6, <2>2 DEF UncountedOK
<1>11. WroteOK'
  BY <1>1, <1>3 DEF WroteOK
<1>12. StatOK'
  <2> SUFFICES ASSUME NEW d \in Calls, pc'[d] = "unlink", body'[key'[d]] # None
               PROVE  /\ stat'[d] <= Held(key[d])'
                      /\ "late" \notin skew' => stat'[d] = Held(key[d])'
    BY <1>1 DEF StatOK
  <2>1. pc[d] = "unlink" /\ key[d] \in Keys /\ key[d] # k
    BY <1>1, <1>2, <1>4 DEF IInv, KindOK
  <2>2. PICK j : j = key[d]
    OBVIOUS
  <2>3. Held(j)' = Held(j) /\ body'[j] = body[j] /\ key' = key
    BY <1>1, <1>4, <1>7, <2>1, <2>2
  <2> QED
    BY <1>1, <1>3, <2>1, <2>2, <2>3 DEF StatOK, Held
<1>13. BooksOK'
  <2>1. AllHeld' = AllHeld - Held(k) + Held(k)'
    BY <1>1, <1>3, <1>7, HeldChange
  <2>2. Owed' = Owed
    BY <1>1, <1>6 DEF Owed
  <2>3. AllHeld \in Nat /\ Owed \in Nat /\ metrics.size_bytes \in Int
    BY <1>3, SumTypes DEF UncountedOK
  <2>4. Held(k)' = 0 /\ Held(k) \in Nat /\ stat[c] \in Nat
    <3>1. Held(k)' = 0
      BY <1>1, <1>4 DEF Held
    <3> QED
      BY <1>1, <1>3, <3>1, HeldType DEF TypeOK, CallTypeOK
  <2>5. CASE body[k] = None
    <3>1. Held(k) = 0
      BY <2>5 DEF Held
    <3> QED
      BY <1>1, <1>3, <2>1, <2>2, <2>3, <2>4, <2>5, <3>1 DEF BooksOK
  <2>6. CASE body[k] # None
    <3>1. stat[c] <= Held(k) /\ (skew = {} => stat[c] = Held(k))
      BY <1>1, <1>3, <2>6 DEF StatOK
    <3> QED
      BY <1>1, <1>3, <2>1, <2>2, <2>3, <2>4, <2>6, <3>1 DEF BooksOK
  <2> QED
    BY <2>5, <2>6
<1> QED
  BY <1>8, <1>9, <1>10, <1>11, <1>12, <1>13 DEF Accounts

-----------------------------------------------------------------------------
(* SizeInv is inductive, given IInv *)

(* An earlier process has left sizes that are right.                          *)
LEMMA InitAccounts == Init => SizeInv
<1> SUFFICES ASSUME Init PROVE Accounts
  BY DEF SizeInv
<1> USE DiskCacheAssumption DEF Init
<1>1. Uncounted = {}
  BY DEF Uncounted, PlacedPc
<1>2. PlacedOK /\ OverlapOK /\ WroteOK /\ StatOK
  <2>1. PlacedOK
    BY DEF PlacedOK, Objects
  <2>2. OverlapOK /\ StatOK
    BY DEF OverlapOK, StatOK, Purgers, Active, PurgePc
  <2>3. WroteOK
    BY DEF WroteOK, Objects
  <2> QED
    BY <2>1, <2>2, <2>3
<1>3. UncountedOK
  BY <1>1, FS_EmptySet DEF UncountedOK
<1>4. BooksOK
  <2> DEFINE h == [k \in Keys |-> Held(k)]
  <2>1. \A k \in Keys : h[k] = IF k \in dir THEN OldLen ELSE 0
    BY DEF Held, Objects
  <2>2. UNION {{k} \X (1..h[k]) : k \in Keys} = dir \X (1..OldLen)
    <3> HIDE DEF h
    <3> QED
      BY <2>1
  <2>3. IsFiniteSet(dir)
    BY FS_Subset
  <2>4. IsFiniteSet(1..OldLen) /\ Cardinality(1..OldLen) = OldLen
    <3>1. 1 \in Int /\ OldLen \in Int
      OBVIOUS
    <3> QED
      BY <3>1, FS_Interval
  <2>5. Cardinality(dir \X (1..OldLen)) = Cardinality(dir) * OldLen
    BY <2>3, <2>4, FS_Product
  <2>6. AllHeld = Cardinality(dir) * OldLen
    BY <2>2, <2>5 DEF AllHeld, Total
  <2>7. Cardinality(dir) \in Nat
    BY <2>3, FS_CardinalityType
  <2>8. Owed = 0
    <3>1. UNION {{c} \X (1..wrote[c]) : c \in {}} = {}
      OBVIOUS
    <3> QED
      BY <1>1, <3>1, FS_EmptySet DEF Owed, Total
  <2>9. metrics.size_bytes = OldLen * Cardinality(dir)
    OBVIOUS
  <2>10. OldLen * Cardinality(dir) = Cardinality(dir) * OldLen
    BY <2>7
  <2> QED
    BY <2>6, <2>7, <2>8, <2>9, <2>10 DEF BooksOK
<1> QED
  BY <1>2, <1>3, <1>4 DEF Accounts

(* What has put the accounts out once is not forgotten.                       *)
LEMMA SkewGrows ==
  ASSUME [Next]_vars PROVE skew \subseteq skew'
<1> USE DEF Skew, ghostVars
<1>1. ASSUME NEW c \in Calls, LookupNext(c) PROVE skew' = skew
  BY <1>1 DEF LookupNext, LookupStart, LookupRead, LookupEnd, LookupFails
<1>2. ASSUME NEW c \in Calls, MissNext(c) PROVE skew \subseteq skew'
  <2>1. CASE LandFails(c)
    BY <2>1 DEF LandFails
  <2>2. CASE ~LandFails(c)
    BY <1>2, <2>2 DEF MissNext, MissStart, CreateParent, CreateTmp, WriteBody, Land,
                      Abandon, MissFails, CancelCreate
  <2> QED
    BY <2>1, <2>2
<1>3. ASSUME NEW c \in Calls, FinishNext(c) PROVE skew \subseteq skew'
  BY <1>3 DEF FinishNext, FinishStart, Rename, RenameFails, CopyOpen, Copy, CopyFails,
              FinishEnd
<1>4. ASSUME NEW c \in Calls, PartsNext(c) PROVE skew \subseteq skew'
  BY <1>4 DEF PartsNext, OpenPart, WritePart, PartFails
<1>5. ASSUME NEW c \in Calls, UpdateNext(c) PROVE skew' = skew
  BY <1>5 DEF UpdateNext, UpdateStart, UpdateExists, ExistsFails
<1>6. ASSUME NEW c \in Calls, PurgeNext(c) PROVE skew \subseteq skew'
  BY <1>6 DEF PurgeNext, PurgeStart, PurgeBody, PurgePart, PurgeDir, PurgeFails
<1>7. ASSUME NEW c \in Calls, Cancel(c) PROVE skew \subseteq skew'
  BY <1>7 DEF Cancel
<1>8. ASSUME NEW c \in Calls, CancelPurge(c) PROVE skew \subseteq skew'
  BY <1>8 DEF CancelPurge
<1>9. CASE Crash
  BY <1>9 DEF Crash
<1>10. CASE UNCHANGED vars
  BY <1>10 DEF vars
<1> QED
  BY <1>1, <1>2, <1>3, <1>4, <1>5, <1>6, <1>7, <1>8, <1>9, <1>10 DEF Next

LEMMA SizeStep ==
  ASSUME IInv, IInv', SizeInv, [Next]_vars
  PROVE  SizeInv'
<1> SUFFICES ASSUME Explained' PROVE Accounts'
  BY DEF SizeInv
<1>1. Accounts
  BY SkewGrows DEF SizeInv, Explained
<1>2. CASE Quiet
  BY <1>1, <1>2, QuietKeeps
<1>3. ASSUME NEW c \in Calls, BookStep(c) PROVE Accounts'
  BY <1>1, <1>3, FinishStartKeeps, PlaceKeeps, CopyKeeps, FinishEndKeeps, WriteBodyKeeps,
     LandKeeps, PurgeStartKeeps, PurgeBodyKeeps DEF BookStep
<1> QED
  BY <1>1, <1>2, <1>3, QuietStep DEF Accounts

(* When no finish has anything to count and no body is being copied, what the *)
(* bodies hold is what is on the disk.                                        *)
LEMMA AccountsExplain == IInv /\ SizeInv => SizeExplained
<1> SUFFICES ASSUME IInv, Accounts, \A k \in Keys : Committers(k) = {}
             PROVE  /\ skew = {} => metrics.size_bytes = DiskBytes
                    /\ metrics.size_bytes >= DiskBytes
  BY DEF SizeInv, SizeExplained, Explained
<1>1. TypeOK /\ BooksOK /\ PlacedOK /\ UncountedOK
  BY DEF IInv, Accounts
<1>2. Uncounted = {}
  <2>1. \A c \in Uncounted : key[c] \in Keys /\ c \in Committers(key[c])
    BY DEF IInv, KindOK, Uncounted, Committers, Writers, Active, WriterPc, PlacedPc
  <2> QED
    BY <2>1
<1>3. Owed = 0
  <2>1. UNION {{c} \X (1..wrote[c]) : c \in {}} = {}
    OBVIOUS
  <2> QED
    BY <1>2, <2>1, FS_EmptySet DEF Owed, Total
<1>4. \A k \in Keys : FullLen(k) = Held(k)
  <2> SUFFICES ASSUME NEW k \in Keys PROVE FullLen(k) = Held(k)
    OBVIOUS
  <2>1. ~(body[k] \in Calls /\ pc[body[k]] = "copying")
    BY <1>1 DEF PlacedOK, Committers, Writers, Active, WriterPc
  <2>2. CASE body[k] = None
    <3>1. None \notin Calls
      BY DiskCacheAssumption DEF Objects
    <3> QED
      BY <2>2, <3>1 DEF FullLen, BodyLen, Held
  <2>3. CASE body[k] # None
    BY <2>1, <2>3 DEF FullLen, BodyLen, Held
  <2> QED
    BY <2>2, <2>3
<1>5. DiskBytes = AllHeld
  <2>1. [k \in Keys |-> FullLen(k)] = [k \in Keys |-> Held(k)]
    BY <1>4
  <2> QED
    BY <2>1 DEF DiskBytes, AllHeld
<1>6. metrics.size_bytes \in Int
  BY <1>1 DEF TypeOK, HistTypeOK, Counters
<1> QED
  BY <1>1, <1>3, <1>5, <1>6 DEF BooksOK

(* The accounts are right in every reachable state of any instance.           *)
THEOREM SizeInvariance == Spec => []SizeInv
<1>1. IInv /\ IInv' /\ SizeInv /\ [Next]_vars => SizeInv'
  BY SizeStep
<1> QED
  BY <1>1, InitAccounts, Invariance, PTL DEF Spec

(* size_bytes is what is on the disk whenever no body is being committed or     *)
(* purged, unless one of the reasons in skew has occurred; a replaced body and  *)
(* bytes that come late make it too large, never too small.                     *)
THEOREM SizeExplainedHolds == Spec => []SizeExplained
<1>1. IInv /\ SizeInv => SizeExplained
  BY AccountsExplain
<1> QED
  BY <1>1, Invariance, SizeInvariance, PTL

-----------------------------------------------------------------------------
(* The refinement *)

(* Program points at which a writer has changed files and not finished. *)
Touching(c) == pc[c] \in WriterPc /\ ~Untouched(c)
Settled(k) == k \notin raced /\ \A c \in Calls : key[c] = k => ~Touching(c)
Whole(k) == body[k] # None /\ \A p \in Parts : file[p][k] # None

(* EntryOf, case by case. *)
LEMMA EntryCases ==
  ASSUME NEW k \in Keys
  PROVE /\ ~Settled(k) => EntryOf(k) = Unsettled
        /\ Settled(k) /\ Whole(k) => EntryOf(k) = file["meta"][k].val
        /\ Settled(k) /\ ~Whole(k) => EntryOf(k) = None
BY DEF EntryOf, Settled, Whole, Touching, Writers, Active

LEMMA EntryCasesNext ==
  ASSUME NEW k \in Keys
  PROVE /\ ~Settled(k)' => EntryOf(k)' = Unsettled
        /\ Settled(k)' /\ Whole(k)' => EntryOf(k)' = file'["meta"][k].val
        /\ Settled(k)' /\ ~Whole(k)' => EntryOf(k)' = None
BY DEF EntryOf, Settled, Whole, Touching, Writers, Active

(* The files of a settled entry belong together ... *)
LEMMA SettledAgree ==
  ASSUME IInv, NEW k \in Keys, Settled(k)
  PROVE Agree(k)
<1>1. CASE Writers(k) = {}
  BY <1>1 DEF IInv, NoMixture, Settled
<1>2. ASSUME NEW c \in Writers(k) PROVE Agree(k)
  <2>1. c \in Calls /\ pc[c] \in WriterPc /\ key[c] = k /\ Untouched(c)
    BY <1>2 DEF Writers, Active, Settled, Touching
  <2>2. c \notin metWriter
    BY <2>1 DEF IInv, MetMeansRaced, Settled
  <2>3. WriterOK(c)
    BY <2>1, <2>2 DEF IInv, WriterState
  <2> QED
    BY <2>1, <2>3 DEF WriterOK, Settled
<1> QED
  BY <1>1, <1>2

(* ... so that it is a version, or nothing; only an unsettled one is Unsettled. *)
LEMMA EntryType ==
  ASSUME IInv, NEW k \in Keys
  PROVE /\ EntryOf(k) \in Stamp \cup {None, Unsettled}
        /\ Settled(k) => EntryOf(k) \in Stamp \cup {None}
        /\ EntryOf(k) = Unsettled <=> ~Settled(k)
<1>1. ASSUME Settled(k), Whole(k) PROVE EntryOf(k) \in Stamp
  <2>1. Agree(k)
    BY <1>1, SettledAgree
  <2>2. file["meta"][k] \in File
    BY <1>1 DEF Whole, IInv, TypeOK, FsTypeOK, Parts
  <2> QED
    BY <1>1, <2>1, <2>2, EntryCases DEF Agree, Whole, File, Parts
<1> QED
  BY <1>1, EntryCases, DiskCacheEntryAssumption

-----------------------------------------------------------------------------
(* The initial states *)

LEMMA InitEntry == Init /\ SeenInit => Entry!Init /\ EInv
<1> SUFFICES ASSUME Init, SeenInit PROVE Entry!Init /\ EInv
  OBVIOUS
<1>1. IInv
  BY InitInv
<1>2. \A k \in Keys : Settled(k)
  BY DEF Init, Settled, Touching, WriterPc
<1>3. \A k \in Keys : EntryOf(k) \in Stamp \cup {None}
  BY <1>1, <1>2, EntryType
<1>4. \A c \in Calls : OpOf(c) = "idle" /\ AnswerOf(c) = Garbled
  <2>1. \A c \in Calls : pc[c] = "idle"
    BY DEF Init
  <2> QED
    BY <2>1 DEF OpOf, AnswerOf, EndPc
<1>5. Entry!Init
  BY <1>3, <1>4 DEF Entry!Init, Init, SeenInit
<1>6. EInv
  BY DEF EInv, KindPc, SeenState, SeenInit, Init, WriterPc, PurgePc
<1> QED
  BY <1>5, <1>6

-----------------------------------------------------------------------------
(* What a step of one call leaves alone *)

(* A step of one call. *)
CallNext(c) == \/ LookupNext(c) \/ MissNext(c) \/ FinishNext(c) \/ PartsNext(c)
               \/ UpdateNext(c) \/ PurgeNext(c) \/ Cancel(c) \/ CancelPurge(c)

(* A step of c changes the state of no other call, and the files of no other *)
(* key than c's, which c takes when it starts.                               *)
Local(c) ==
  /\ \A d \in Calls \ {c} : /\ pc'[d] = pc[d] /\ kind'[d] = kind[d]
                            /\ key'[d] = key[d] /\ got'[d] = got[d]
  /\ key'[c] = key[c] \/ pc[c] = "idle"
  /\ \A k \in Keys \ {key'[c]} :
       /\ body'[k] = body[k] /\ (k \in raced' <=> k \in raced)
       /\ \A p \in Parts : file'[p][k] = file[p][k]

LEMMA LocalStep ==
  ASSUME IInv, NEW c \in Calls, CallNext(c)
  PROVE Local(c)
<1> TypeOK /\ KindOK
  BY DEF IInv
<1> USE DEF TypeOK, FsTypeOK, CallTypeOK, KindOK, Local, Goto, fsVars, bytes, callVars,
        callData, ghostVars, marks
<1>1. CASE LookupNext(c)
  <2>1. ASSUME NEW k \in Keys, LookupStart(c, k) PROVE Local(c)
    BY <2>1 DEF LookupStart, Begin, MeetAsReader
  <2>2. ASSUME NEW f \in {"meta", "hdr", "body"}, LookupRead(c, f) PROVE Local(c)
    BY <2>2 DEF LookupRead
  <2>3. CASE LookupEnd(c)
    BY <2>3 DEF LookupEnd
  <2>4. CASE LookupFails(c)
    BY <2>4 DEF LookupFails
  <2> HIDE DEF Local
  <2> QED
    BY <1>1, <2>1, <2>2, <2>3, <2>4 DEF LookupNext
<1>2. CASE MissNext(c)
  <2>1. ASSUME NEW k \in Keys, MissStart(c, k) PROVE Local(c)
    BY <2>1 DEF MissStart, Begin
  <2>2. CASE CreateParent(c)
    BY <2>2 DEF CreateParent
  <2>3. CASE CreateTmp(c)
    BY <2>3 DEF CreateTmp
  <2>4. ASSUME NEW n \in ChunkSizes, NEW e \in BOOLEAN, WriteBody(c, n, e)
        PROVE Local(c)
    BY <2>4 DEF WriteBody
  <2>5. CASE Land(c)
    BY <2>5 DEF Land
  <2>6. CASE Abandon(c)
    BY <2>6 DEF Abandon
  <2>7. CASE MissFails(c) \/ CancelCreate(c)
    BY <2>7 DEF MissFails, CancelCreate
  <2>8. CASE LandFails(c)
    BY <2>8 DEF LandFails
  <2> HIDE DEF Local
  <2> QED
    BY <1>2, <2>1, <2>2, <2>3, <2>4, <2>5, <2>6, <2>7, <2>8 DEF MissNext
<1>3. CASE FinishNext(c)
  <2>1. CASE FinishStart(c)
    BY <2>1 DEF FinishStart, MeetAsWriter, Race
  <2>2. CASE Rename(c)
    BY <2>2 DEF Rename
  <2>3. CASE RenameFails(c)
    BY <2>3 DEF RenameFails
  <2>4. CASE CopyOpen(c)
    BY <2>4 DEF CopyOpen
  <2>5. CASE Copy(c)
    BY <2>5 DEF Copy
  <2>6. CASE CopyFails(c)
    BY <2>6 DEF CopyFails, Race
  <2>7. CASE FinishEnd(c)
    BY <2>7 DEF FinishEnd
  <2> HIDE DEF Local
  <2> QED
    BY <1>3, <2>1, <2>2, <2>3, <2>4, <2>5, <2>6, <2>7 DEF FinishNext
<1>4. CASE PartsNext(c)
  <2>1. ASSUME NEW p \in Parts, OpenPart(c, p) PROVE Local(c)
    BY <2>1 DEF OpenPart, Parts
  <2>2. ASSUME NEW p \in Parts, WritePart(c, p) PROVE Local(c)
    BY <2>2 DEF WritePart, Parts
  <2>3. CASE PartFails(c)
    BY <2>3 DEF PartFails, Race
  <2> HIDE DEF Local
  <2> QED
    BY <1>4, <2>1, <2>2, <2>3 DEF PartsNext
<1>5. CASE UpdateNext(c)
  <2>1. ASSUME NEW l \in Calls, UpdateStart(c, l) PROVE Local(c)
    BY <2>1 DEF UpdateStart, Begin, MeetAsWriter, Race
  <2>2. CASE UpdateExists(c)
    BY <2>2 DEF UpdateExists
  <2>3. CASE ExistsFails(c)
    BY <2>3 DEF ExistsFails
  <2> HIDE DEF Local
  <2> QED
    BY <1>5, <2>1, <2>2, <2>3 DEF UpdateNext
<1>6. CASE PurgeNext(c)
  <2>1. ASSUME NEW k \in Keys, PurgeStart(c, k) PROVE Local(c)
    BY <2>1 DEF PurgeStart, Begin, MeetAsPurge
  <2>2. CASE PurgeBody(c)
    BY <2>2 DEF PurgeBody
  <2>3. ASSUME NEW p \in Parts, PurgePart(c, p) PROVE Local(c)
    BY <2>3 DEF PurgePart
  <2>4. CASE PurgeDir(c)
    BY <2>4 DEF PurgeDir
  <2>5. CASE PurgeFails(c)
    BY <2>5 DEF PurgeFails
  <2> HIDE DEF Local
  <2> QED
    BY <1>6, <2>1, <2>2, <2>3, <2>4, <2>5 DEF PurgeNext
<1>7. CASE Cancel(c)
  BY <1>7 DEF Cancel, Race
<1>8. CASE CancelPurge(c)
  BY <1>8 DEF CancelPurge
<1> HIDE DEF Local
<1> QED
  BY <1>1, <1>2, <1>3, <1>4, <1>5, <1>6, <1>7, <1>8 DEF CallNext

-----------------------------------------------------------------------------
(* The mapped variables *)

entries == [k \in Keys |-> EntryOf(k)]
ops     == [c \in Calls |-> OpOf(c)]
answers == [c \in Calls |-> AnswerOf(c)]

(* Entries of other keys, and what other calls are at, stay. *)
LEMMA Elsewhere ==
  ASSUME NEW c \in Calls, Local(c), NEW k \in Keys, k # key'[c]
  PROVE EntryOf(k)' = EntryOf(k)
<1>1. Settled(k)' <=> Settled(k)
  BY DEF Local, Settled, Touching, Untouched, WriterPc
<1>2. body'[k] = body[k] /\ \A p \in Parts : file'[p][k] = file[p][k]
  BY DEF Local
<1>3. Whole(k)' <=> Whole(k)
  BY <1>2 DEF Whole
<1> QED
  BY <1>1, <1>2, <1>3, EntryCases, EntryCasesNext DEF Parts

LEMMA OthersStay ==
  ASSUME NEW c \in Calls, Local(c), NEW d \in Calls, d # c
  PROVE OpOf(d)' = OpOf(d) /\ AnswerOf(d)' = AnswerOf(d)
<1>1. pc'[d] = pc[d] /\ kind'[d] = kind[d] /\ got'[d] = got[d]
  BY DEF Local
<1> QED
  BY <1>1 DEF OpOf, AnswerOf

(* A step of c that changes neither its files nor whether it is touching them *)
(* leaves the entry alone.                                                    *)
Keeps(c) == /\ Touching(c)' <=> Touching(c)
            /\ UNCHANGED <<body, file, raced>>
LEMMA EntryKept ==
  ASSUME NEW c \in Calls, Local(c), Keeps(c), Touching(c) => key'[c] = key[c],
         NEW k \in Keys
  PROVE EntryOf(k)' = EntryOf(k)
<1>1. Settled(k)' <=> Settled(k)
  BY DEF Local, Keeps, Settled, Touching, Untouched, WriterPc
<1>2. Whole(k)' <=> Whole(k)
  BY DEF Keeps, Whole
<1> QED
  BY <1>1, <1>2, EntryCases, EntryCasesNext DEF Keeps

(* The mapped variables after a step of c. *)
LEMMA MappedStep ==
  ASSUME NEW c \in Calls, Local(c)
  PROVE /\ ops' = [ops EXCEPT ![c] = OpOf(c)']
        /\ answers' = [answers EXCEPT ![c] = AnswerOf(c)']
        /\ \A k \in Keys : k = key'[c] => entries' = [entries EXCEPT ![k] = EntryOf(k)']
<1>1. ops' = [ops EXCEPT ![c] = OpOf(c)'] /\ answers' = [answers EXCEPT ![c] = AnswerOf(c)']
  BY OthersStay DEF ops, answers
<1>2. ASSUME NEW k \in Keys, k = key'[c]
      PROVE entries' = [entries EXCEPT ![k] = EntryOf(k)']
  BY <1>2, Elsewhere DEF entries
<1> QED
  BY <1>1, <1>2
LEMMA KeptStep ==
  ASSUME NEW c \in Calls, Local(c), Keeps(c), Touching(c) => key'[c] = key[c]
  PROVE entries' = entries
BY EntryKept DEF entries

-----------------------------------------------------------------------------
(* How a call starts, goes on and ends, in terms of the mapped variables *)

(* A step of c, as CacheEntry sees it: nothing happens, or one of its actions. *)
Mapped(c) ==
  \/ UNCHANGED <<entries, ops, key, answers>>
  \/ \E k \in Keys : Entry!Look(c, k) \/ Entry!Write(c, k) \/ Entry!Purge(c, k)
  \/ Entry!Answer(c) \/ Entry!Change(c) \/ Entry!WriteEnd(c)
  \/ Entry!Remove(c) \/ Entry!PurgeEnd(c)

LEMMA StartMaps ==
  ASSUME TypeOK, NEW c \in Calls, Local(c), NEW knd, NEW k \in Keys, NEW to \in LivePc,
         Begin(c, knd, k, to)
  PROVE /\ knd = "lookup" => Entry!Start(c, "look", k)
        /\ knd = "purge" => Entry!Start(c, "purge", k)
        /\ knd \in {"miss", "update"} => Entry!Start(c, "write", k)
<1>1. /\ pc[c] = "idle" /\ pc'[c] = to /\ kind'[c] = knd
      /\ key' = [key EXCEPT ![c] = k]
  BY DEF TypeOK, CallTypeOK, Begin
<1>2. OpOf(c) = "idle" /\ AnswerOf(c) = Garbled
  BY <1>1 DEF OpOf, AnswerOf
<1>3. AnswerOf(c)' = Garbled
  BY <1>1 DEF AnswerOf, LivePc, WriterPc, PurgePc
<1>4. /\ knd = "lookup" => OpOf(c)' = "look"
      /\ knd = "purge" => OpOf(c)' = "purge"
      /\ knd \in {"miss", "update"} => OpOf(c)' = "write"
  BY <1>1 DEF OpOf, LivePc, WriterPc, PurgePc, EndPc
<1>5. answers' = answers
  BY <1>2, <1>3, OthersStay DEF answers
<1>6. ops' = [ops EXCEPT ![c] = OpOf(c)'] /\ ops[c] = "idle"
  BY <1>2, MappedStep DEF ops
<1> QED
  BY <1>1, <1>4, <1>5, <1>6 DEF Entry!Start, ops, answers

(* What a call is at, by its kind. *)
LEMMA OpByKind ==
  ASSUME KindPc, NEW c \in Calls
  PROVE /\ pc[c] = "lookup" => OpOf(c) = "look"
        /\ pc[c] \in PurgePc => OpOf(c) = "purge"
        /\ pc[c] \in WriterPc \cup {"create", "open", "body", "eof"} => OpOf(c) = "write"
BY DEF KindPc, OpOf, WriterPc, PurgePc, EndPc

(* A call that goes on without changing its kind stays at what it is at. *)
LEMMA GoesOn ==
  ASSUME NEW c \in Calls, Local(c), key' = key, kind'[c] = kind[c],
         \/ pc'[c] = pc[c] /\ (pc[c] = "hit" => got'[c] = got[c])
         \/ pc[c] \in LivePc /\ pc'[c] \in LivePc
  PROVE UNCHANGED <<ops, key, answers>>
<1>1. CASE pc'[c] = pc[c] /\ (pc[c] = "hit" => got'[c] = got[c])
  <2>1. OpOf(c)' = OpOf(c) /\ AnswerOf(c)' = AnswerOf(c)
    BY <1>1 DEF OpOf, AnswerOf
  <2> QED
    BY <2>1, OthersStay DEF ops, answers
<1>2. CASE pc[c] \in LivePc /\ pc'[c] \in LivePc
  BY <1>2, OthersStay DEF OpOf, AnswerOf, ops, answers, LivePc, WriterPc, PurgePc, EndPc
<1> QED
  BY <1>1, <1>2

(* A call that ends ... *)
LEMMA EndMaps ==
  ASSUME NEW c \in Calls, Local(c), key' = key, pc[c] \in LivePc, pc'[c] \in EndPc
  PROVE Entry!End(c, OpOf(c))
<1>1. OpOf(c)' = "over" /\ OpOf(c) = ops[c]
  BY DEF OpOf, EndPc, ops
<1> QED
  BY <1>1, MappedStep DEF Entry!End, ops

(* ... gives an answer only if it is a lookup. *)
LEMMA NoAnswer ==
  ASSUME NEW c \in Calls, Local(c), kind'[c] = kind[c], pc[c] \in LivePc,
         pc'[c] \in EndPc \ {"hit"}, kind[c] # "lookup"
  PROVE answers' = answers
<1>1. AnswerOf(c)' = Garbled /\ AnswerOf(c) = Garbled
  BY DEF AnswerOf, LivePc, WriterPc, PurgePc, EndPc
<1> QED
  BY <1>1, OthersStay DEF answers

-----------------------------------------------------------------------------
(* Every action, mapped *)

LEMMA LookupMaps ==
  ASSUME IInv, EInv, NEW c \in Calls, LookupNext(c)
  PROVE Mapped(c)
<1> USE DEF Goto, fsVars, callVars, callData, ghostVars, marks
<1>1. Local(c)
  BY LocalStep DEF CallNext
<1>2. TypeOK /\ KindPc
  BY DEF IInv, EInv
<1>3. ASSUME NEW k \in Keys, LookupStart(c, k) PROVE Mapped(c)
  <2>1. Keeps(c) /\ ~Touching(c)
    BY <1>2, <1>3 DEF LookupStart, Begin, Keeps, Touching, Untouched, WriterPc, TypeOK,
                      CallTypeOK
  <2>2. entries' = entries
    BY <1>1, <2>1, KeptStep
  <2>3. Entry!Look(c, k)
    BY <1>1, <1>2, <1>3, <2>2, StartMaps DEF LookupStart, LivePc, Entry!Look, entries
  <2> QED
    BY <2>3 DEF Mapped
<1>4. ASSUME NEW f \in {"meta", "hdr", "body"}, LookupRead(c, f) PROVE Mapped(c)
  <2>1. Keeps(c) /\ ~Touching(c) /\ UNCHANGED <<pc, kind, key>> /\ pc[c] = "lookup"
    BY <1>4 DEF LookupRead, Keeps, Touching, Untouched, WriterPc
  <2>2. entries' = entries
    BY <1>1, <2>1, KeptStep
  <2> QED
    BY <1>1, <2>1, <2>2, GoesOn DEF Mapped
<1>5. ASSUME LookupEnd(c) \/ LookupFails(c) PROVE Entry!Answer(c)
  <2>1. /\ pc[c] = "lookup" /\ pc'[c] \in {"hit", "error", "none"} /\ kind[c] = "lookup"
        /\ UNCHANGED callData /\ UNCHANGED <<body, file, raced>>
    BY <1>2, <1>5 DEF LookupEnd, LookupFails, TypeOK, CallTypeOK, KindPc
  <2>2. entries' = entries
    <3>1. Keeps(c) /\ ~Touching(c)
      BY <2>1 DEF Keeps, Touching, WriterPc
    <3> QED
      BY <1>1, <3>1, KeptStep
  <2>3. Entry!End(c, "look")
    BY <1>1, <1>2, <2>1, EndMaps, OpByKind DEF LivePc, EndPc
  <2>4. /\ AnswerOf(c)' \in Stamp \cup {None, Garbled}
        /\ \/ AnswerOf(c)' \in seen[c] \/ Unsettled \in seen[c]
           \/ MaxFaults > 0 /\ AnswerOf(c)' \in {None, Garbled}
    <3>1. CASE pc'[c] = "none"
      <4>1. AnswerOf(c)' = None
        BY <2>1, <3>1 DEF AnswerOf
      <4>2. \E f \in {"meta", "hdr", "body"} : got[c][f] = None
        BY <1>2, <1>5, <2>1, <3>1 DEF LookupEnd, LookupFails, TypeOK, CallTypeOK
      <4> QED
        BY <2>1, <4>1, <4>2 DEF EInv, SeenState, ReadSeen
    <3>2. CASE LookupFails(c)
      <4>1. MaxFaults > 0
        BY <1>2, <3>2, DiskCacheAssumption DEF LookupFails, Fault, TypeOK, HistTypeOK
      <4>2. AnswerOf(c)' = Garbled
        BY <1>2, <2>1, <3>2 DEF LookupFails, AnswerOf, TypeOK, CallTypeOK
      <4> QED
        BY <4>1, <4>2
    <3>3. CASE LookupEnd(c) /\ pc'[c] # "none" /\ Unsettled \notin seen[c]
      <4>1. \A f \in {"meta", "hdr", "body"} : got[c][f] \notin Unset
        BY <1>2, <2>1, <3>3 DEF LookupEnd, TypeOK, CallTypeOK, Unset
      <4>2. PICK v \in seen[c] \cap Stamp : ReadOf(c, v)
        <5>1. ReadSeen(c)
          BY <2>1, <3>3 DEF EInv, SeenState
        <5>2. ~Misses(c)
          BY <4>1 DEF Misses, Unset
        <5> QED
          BY <5>1, <5>2 DEF ReadSeen
      <4>3. got[c].meta = v /\ got[c].hdr = v /\ got[c].body = v.obj
        BY <4>1, <4>2 DEF ReadOf, Unset, Parts
      <4>4. pc'[c] = "hit"
        BY <1>2, <3>3, <4>3, DiskCacheAssumption DEF LookupEnd, TypeOK, CallTypeOK
      <4>5. AnswerOf(c)' = v
        BY <2>1, <4>3, <4>4 DEF AnswerOf
      <4> QED
        BY <4>2, <4>5
    <3>4. CASE LookupEnd(c) /\ Unsettled \in seen[c]
      <4>1. AnswerOf(c)' \in Stamp \cup {None, Garbled}
        BY <1>2, <2>1, <3>4 DEF AnswerOf, LookupEnd, TypeOK, CallTypeOK
      <4> QED
        BY <3>4, <4>1
    <3> QED
      BY <1>5, <3>1, <3>2, <3>3, <3>4
  <2>5. answers' = [answers EXCEPT ![c] = AnswerOf(c)']
    BY <1>1, MappedStep
  <2> QED
    BY <2>2, <2>3, <2>4, <2>5 DEF Entry!Answer, entries, answers
<1> QED
  BY <1>3, <1>4, <1>5 DEF LookupNext, Mapped

(* A step that stays within a call of the same kind and keeps the entry is none. *)
LEMMA MuteMaps ==
  ASSUME NEW c \in Calls, Local(c), key' = key, kind'[c] = kind[c], Keeps(c),
         \/ pc'[c] = pc[c] /\ (pc[c] = "hit" => got'[c] = got[c])
         \/ pc[c] \in LivePc /\ pc'[c] \in LivePc
  PROVE Mapped(c)
BY GoesOn, KeptStep DEF Mapped

(* A writer that ends; its entry becomes e. *)
LEMMA WriteEndMaps ==
  ASSUME IInv, KindPc, NEW c \in Calls, Local(c), key' = key, kind'[c] = kind[c],
         pc[c] \in WriterPc \cup {"create", "open", "body", "eof"},
         pc'[c] \in EndPc \ {"hit"},
         \/ Keeps(c)
         \/ \A k \in Keys : k = key[c] =>
              \/ EntryOf(k)' \in {EntryOf(k), Unsettled}
              \/ /\ EntryOf(k) = Unsettled
                 /\ EntryOf(k)' = None \/ (EntryOf(k)' \in Stamp /\ EntryOf(k)'.rev = c)
  PROVE Entry!WriteEnd(c)
<1>1. pc[c] \in LivePc /\ kind[c] # "lookup"
  BY DEF LivePc, WriterPc, KindPc
<1>2. Entry!End(c, "write")
  BY <1>1, EndMaps, OpByKind
<1>3. answers' = answers
  BY <1>1, NoAnswer
<1>4. PICK k \in Keys : k = key[c]
  BY <1>1 DEF IInv, KindOK, LivePc, WriterPc, PurgePc
<1>5. entries' = [entries EXCEPT ![k] = EntryOf(k)']
  BY <1>4, MappedStep
<1>6. CASE Keeps(c)
  <2>1. EntryOf(k)' = EntryOf(k)
    BY <1>6, EntryKept
  <2> QED
    BY <1>2, <1>3, <1>4, <1>5, <2>1 DEF Entry!WriteEnd, Entry!Become, entries, answers
<1>7. CASE \/ EntryOf(k)' \in {EntryOf(k), Unsettled}
           \/ /\ EntryOf(k) = Unsettled
              /\ EntryOf(k)' = None \/ (EntryOf(k)' \in Stamp /\ EntryOf(k)'.rev = c)
  BY <1>2, <1>3, <1>4, <1>5, <1>7 DEF Entry!WriteEnd, Entry!Become, entries, answers
<1> QED
  BY <1>4, <1>6, <1>7

(* A writer that goes on; its entry is unsettled now. *)
LEMMA ChangeMaps ==
  ASSUME IInv, KindPc, NEW c \in Calls, Local(c), key' = key, kind'[c] = kind[c],
         pc[c] \in WriterPc \cup {"create", "open", "body", "eof"},
         pc'[c] \in LivePc,
         \A k \in Keys : k = key[c] => ~Settled(k)'
  PROVE Entry!Change(c)
<1>1. pc[c] \in LivePc
  BY DEF LivePc, WriterPc
<1>2. PICK k \in Keys : k = key[c]
  BY <1>1 DEF IInv, KindOK, LivePc, WriterPc, PurgePc
<1>3. entries' = [entries EXCEPT ![k] = Unsettled]
  BY <1>2, MappedStep, EntryCasesNext
<1>4. UNCHANGED <<ops, key, answers>>
  BY <1>1, GoesOn
<1>5. OpOf(c) = "write"
  BY OpByKind
<1> QED
  BY <1>2, <1>3, <1>4, <1>5 DEF Entry!Change, Entry!Become, entries, ops, answers

LEMMA MissMaps ==
  ASSUME IInv, EInv, NEW c \in Calls, MissNext(c)
  PROVE Mapped(c)
<1> USE DEF Goto, callVars, callData, ghostVars, marks
<1>1. Local(c)
  BY LocalStep DEF CallNext
<1>2. TypeOK /\ KindPc
  BY DEF IInv, EInv
<1>3. ASSUME NEW k \in Keys, MissStart(c, k) PROVE Mapped(c)
  <2>1. Keeps(c) /\ ~Touching(c)
    BY <1>2, <1>3 DEF MissStart, Begin, Keeps, Touching, Untouched, WriterPc, TypeOK,
                      CallTypeOK
  <2>2. entries' = entries
    BY <1>1, <2>1, KeptStep
  <2>3. Entry!Start(c, "write", k)
    BY <1>1, <1>2, <1>3, StartMaps DEF MissStart, LivePc
  <2>4. Entry!Write(c, k)
    BY <2>2, <2>3 DEF Entry!Write, Entry!Become, entries
  <2> QED
    BY <2>4 DEF Mapped
<1>4. ASSUME CreateParent(c) \/ (CreateTmp(c) /\ pc'[c] = "body")
             \/ \E n \in ChunkSizes, e \in BOOLEAN : WriteBody(c, n, e)
      PROVE Mapped(c)
  <2>1. /\ UNCHANGED <<body, file, raced, kind, key>>
        /\ pc[c] \in {"create", "open", "body", "eof"}
        /\ pc'[c] \in {"create", "open", "body", "eof"}
    BY <1>2, <1>4 DEF CreateParent, CreateTmp, WriteBody, TypeOK, CallTypeOK
  <2>2. Keeps(c)
    BY <2>1 DEF Keeps, Touching, WriterPc
  <2> QED
    BY <1>1, <2>1, <2>2, MuteMaps DEF LivePc
<1>5. ASSUME Land(c) \/ LandFails(c) PROVE Mapped(c)
  <2>1. UNCHANGED <<body, file, raced, kind, key, pc, got>>
    BY <1>5 DEF Land, LandFails
  <2>2. Keeps(c)
    BY <2>1 DEF Keeps, Touching, Untouched
  <2> QED
    BY <1>1, <2>1, <2>2, MuteMaps
<1>6. ASSUME Abandon(c) \/ MissFails(c) \/ CancelCreate(c) \/ (CreateTmp(c) /\ pc'[c] # "body")
      PROVE Entry!WriteEnd(c)
  <2>1. /\ UNCHANGED <<body, file, raced, kind, key>>
        /\ pc[c] \in {"open", "body", "eof", "copy"} /\ pc'[c] \in {"error", "dropped", "orphan"}
    BY <1>2, <1>6 DEF Abandon, MissFails, CancelCreate, CreateTmp, TypeOK, CallTypeOK
  <2>2. Keeps(c)
    BY <2>1 DEF Keeps, Touching, Untouched, WriterPc
  <2> QED
    BY <1>1, <1>2, <2>1, <2>2, WriteEndMaps DEF EndPc, WriterPc
<1> QED
  BY <1>3, <1>4, <1>5, <1>6 DEF MissNext, Mapped

LEMMA FinishMaps ==
  ASSUME IInv, EInv, NEW c \in Calls, FinishNext(c)
  PROVE Mapped(c)
<1> USE DEF Goto, fsVars, bytes, callVars, callData, ghostVars, marks
<1>1. Local(c)
  BY LocalStep DEF CallNext
<1>2. TypeOK /\ KindPc /\ KindOK
  BY DEF IInv, EInv
<1>3. CASE FinishStart(c)
  <2>1. /\ UNCHANGED <<body, file, kind, key>> /\ pc'[c] = "rename"
        /\ pc[c] \in {"body", "eof"}
        /\ raced' = raced \/ raced' = raced \cup {key[c]}
    BY <1>2, <1>3 DEF FinishStart, Race, TypeOK, CallTypeOK
  <2>2. CASE raced' = raced
    <3>1. Keeps(c)
      BY <2>1, <2>2 DEF Keeps, Touching, Untouched, WriterPc
    <3> QED
      BY <1>1, <2>1, <3>1, MuteMaps DEF LivePc, WriterPc
  <2>3. CASE raced' = raced \cup {key[c]}
    <3>1. Entry!Change(c)
      BY <1>1, <1>2, <2>1, <2>3, ChangeMaps DEF LivePc, WriterPc, Settled
    <3> QED
      BY <3>1 DEF Mapped
  <2> QED
    BY <2>1, <2>2, <2>3
<1>4. CASE RenameFails(c)
  <2>1. UNCHANGED <<body, file, raced, kind, key>> /\ pc[c] = "rename" /\ pc'[c] = "copy"
    BY <1>2, <1>4 DEF RenameFails, TypeOK, CallTypeOK
  <2>2. Keeps(c)
    BY <2>1 DEF Keeps, Touching, Untouched, WriterPc
  <2> QED
    BY <1>1, <2>1, <2>2, MuteMaps DEF LivePc, WriterPc
<1>5. ASSUME Rename(c) \/ CopyOpen(c) \/ Copy(c) PROVE Entry!Change(c)
  <2>1. /\ UNCHANGED <<kind, key>> /\ pc[c] \in {"rename", "copy", "copying"}
        /\ pc'[c] \in {"meta", "copying"}
    BY <1>2, <1>5 DEF Rename, CopyOpen, Copy, TypeOK, CallTypeOK
  <2>2. Touching(c)'
    BY <1>2, <2>1 DEF Touching, Untouched, WriterPc, KindOK
  <2> QED
    BY <1>1, <1>2, <2>1, <2>2, ChangeMaps DEF LivePc, WriterPc, Settled
<1>6. CASE CopyFails(c)
  <2>1. /\ UNCHANGED <<kind, key>> /\ pc[c] = "copying" /\ pc'[c] = "error"
        /\ key[c] \in raced'
    BY <1>2, <1>6 DEF CopyFails, Race, TypeOK, CallTypeOK
  <2>2. \A k \in Keys : k = key[c] => EntryOf(k)' = Unsettled
    BY <2>1, EntryCasesNext DEF Settled
  <2>3. Entry!WriteEnd(c)
    BY <1>1, <1>2, <2>1, <2>2, WriteEndMaps DEF EndPc, WriterPc
  <2> QED
    BY <2>3 DEF Mapped
<1>7. CASE FinishEnd(c)
  <2>1. /\ UNCHANGED <<kind, key, body, file, obj>> /\ pc[c] = "account" /\ pc'[c] = "ok"
        /\ c \in metWriter => raced' = raced
    BY <1>2, <1>7 DEF FinishEnd, TypeOK, CallTypeOK
  <2>2. ASSUME NEW k \in Keys, k = key[c]
        PROVE /\ EntryOf(k) = Unsettled
              /\ \/ EntryOf(k)' \in {Unsettled, None}
                 \/ EntryOf(k)' \in Stamp /\ EntryOf(k)'.rev = c
    <3>1. EntryOf(k) = Unsettled
      BY <2>1, <2>2, EntryCases DEF Settled, Touching, Untouched, WriterPc
    <3>2. CASE c \in metWriter
      <4>1. k \in raced'
        BY <2>1, <2>2, <3>2 DEF IInv, MetMeansRaced, WriterPc
      <4> QED
        BY <3>1, <4>1, EntryCasesNext DEF Settled
    <3>3. CASE c \notin metWriter
      <4>1. WriterOK(c) /\ kind[c] = "miss"
        BY <1>2, <2>1, <3>3 DEF IInv, WriterState, WriterPc, KindOK
      <4>2. file["meta"][k] # None => file["meta"][k].val = StampOf(c)
        BY <2>1, <2>2, <4>1 DEF WriterOK, MetaSet
      <4>3. StampOf(c) \in Stamp /\ StampOf(c).rev = c
        BY <1>2 DEF StampOf, Stamp, TypeOK, CallTypeOK, Objects
      <4> QED
        BY <2>1, <3>1, <4>2, <4>3, EntryCasesNext DEF Whole, Parts
    <3> QED
      BY <3>2, <3>3
  <2>3. Entry!WriteEnd(c)
    BY <1>1, <1>2, <2>1, <2>2, WriteEndMaps DEF EndPc, WriterPc
  <2> QED
    BY <2>3 DEF Mapped
<1> QED
  BY <1>3, <1>4, <1>5, <1>6, <1>7 DEF FinishNext, Mapped

(* The entry a writer leaves when it was alone and its key is not marked: what *)
(* there is is its own.                                                        *)
LEMMA OwnVersion ==
  ASSUME IInv, NEW c \in Calls, pc[c] \in WriterPc, key[c] \notin raced, MetaSet(c)
  PROVE /\ file["meta"][key[c]] # None => file["meta"][key[c]].val = StampOf(c)
        /\ StampOf(c) \in Stamp /\ StampOf(c).rev = c
<1>1. c \notin metWriter
  BY DEF IInv, MetMeansRaced
<1>2. WriterOK(c)
  BY <1>1 DEF IInv, WriterState
<1>3. StampOf(c) \in Stamp /\ StampOf(c).rev = c
  BY DEF StampOf, Stamp, IInv, TypeOK, CallTypeOK, Objects
<1> QED
  BY <1>2, <1>3 DEF WriterOK

LEMMA PartsMaps ==
  ASSUME IInv, EInv, NEW c \in Calls, PartsNext(c)
  PROVE Mapped(c)
<1> USE DEF Goto, fsVars, bytes, callVars, callData, ghostVars, marks
<1>1. Local(c)
  BY LocalStep DEF CallNext
<1>2. TypeOK /\ KindPc /\ KindOK
  BY DEF IInv, EInv
<1>3. ASSUME NEW p \in Parts, OpenPart(c, p) PROVE Mapped(c)
  <2>1. UNCHANGED <<body, kind, key, raced>> /\ pc[c] \in {"meta", "hdr"}
    BY <1>3 DEF OpenPart, Parts
  <2>2. CASE key[c] \in dir
    <3>1. pc'[c] \in {"metaWrite", "hdrWrite"}
      BY <1>2, <1>3, <2>2 DEF OpenPart, TypeOK, CallTypeOK
    <3>2. Touching(c)'
      BY <3>1 DEF Touching, Untouched, WriterPc
    <3>3. Entry!Change(c)
      BY <1>1, <1>2, <2>1, <3>1, <3>2, ChangeMaps DEF LivePc, WriterPc, Settled
    <3> QED
      BY <3>3 DEF Mapped
  <2>3. CASE key[c] \notin dir
    <3>1. UNCHANGED file /\ pc'[c] = "error"
      BY <1>2, <1>3, <2>3 DEF OpenPart, TypeOK, CallTypeOK
    <3>2. ASSUME NEW k \in Keys, k = key[c]
          PROVE /\ EntryOf(k) \in {None, Unsettled} /\ EntryOf(k)' \in {None, Unsettled}
                /\ EntryOf(k) = None => EntryOf(k)' = None
      <4>1. body[k] = None /\ body'[k] = None
        BY <2>1, <2>3, <3>2 DEF IInv, FilesInDir
      <4>2. ~Whole(k) /\ ~Whole(k)'
        BY <4>1 DEF Whole
      <4>3. Settled(k) => Settled(k)'
        BY <1>1, <2>1, <3>1, <3>2 DEF Settled, Touching, Untouched, WriterPc, Local
      <4> QED
        BY <4>2, <4>3, EntryCases, EntryCasesNext, DiskCacheEntryAssumption
    <3>3. Entry!WriteEnd(c)
      BY <1>1, <1>2, <2>1, <3>1, <3>2, WriteEndMaps DEF EndPc, WriterPc
    <3> QED
      BY <3>3 DEF Mapped
  <2> QED
    BY <2>2, <2>3
<1>4. ASSUME NEW p \in Parts, WritePart(c, p) PROVE Mapped(c)
  <2>1. UNCHANGED <<body, kind, key, raced>>
    BY <1>4 DEF WritePart
  <2>2. /\ pc[c] \in {"metaWrite", "hdrWrite"} /\ pc'[c] \in {"hdr", "account", "ok"}
        /\ pc'[c] = "ok" => p = "hdr" /\ pc[c] = "hdrWrite"
    BY <1>2, <1>4 DEF WritePart, Parts, TypeOK, CallTypeOK
  <2>3. CASE pc'[c] \in {"hdr", "account"}
    <3>1. Touching(c)'
      BY <2>3 DEF Touching, Untouched, WriterPc
    <3>2. Entry!Change(c)
      BY <1>1, <1>2, <2>1, <2>2, <2>3, <3>1, ChangeMaps DEF LivePc, WriterPc, Settled
    <3> QED
      BY <3>2 DEF Mapped
  <2>4. CASE pc'[c] = "ok"
    <3>1. file'["meta"] = file["meta"]
      BY <1>2, <1>4, <2>2, <2>4 DEF WritePart, Parts, TypeOK, FsTypeOK
    <3>2. ASSUME NEW k \in Keys, k = key[c]
          PROVE /\ EntryOf(k) = Unsettled
                /\ \/ EntryOf(k)' \in {Unsettled, None}
                   \/ EntryOf(k)' \in Stamp /\ EntryOf(k)'.rev = c
      <4>1. EntryOf(k) = Unsettled
        BY <2>2, <3>2, EntryCases DEF Settled, Touching, Untouched, WriterPc
      <4>2. CASE k \in raced
        BY <2>1, <4>1, <4>2, EntryCasesNext DEF Settled
      <4>3. CASE k \notin raced
        <5>1. /\ file["meta"][k] # None => file["meta"][k].val = StampOf(c)
              /\ StampOf(c) \in Stamp /\ StampOf(c).rev = c
          BY <2>2, <2>4, <3>2, <4>3, OwnVersion DEF MetaSet, WriterPc
        <5> QED
          BY <3>1, <4>1, <5>1, EntryCasesNext DEF Whole, Parts
      <4> QED
        BY <4>2, <4>3
    <3>3. Entry!WriteEnd(c)
      BY <1>1, <1>2, <2>1, <2>2, <2>4, <3>2, WriteEndMaps DEF EndPc, WriterPc
    <3> QED
      BY <3>3 DEF Mapped
  <2> QED
    BY <2>2, <2>3, <2>4
<1>5. CASE PartFails(c)
  <2>1. /\ UNCHANGED <<kind, key>> /\ pc[c] \in {"meta", "metaWrite", "hdr", "hdrWrite"}
        /\ pc'[c] = "error" /\ key[c] \in raced'
    BY <1>2, <1>5 DEF PartFails, Race, TypeOK, CallTypeOK
  <2>2. \A k \in Keys : k = key[c] => EntryOf(k)' = Unsettled
    BY <2>1, EntryCasesNext DEF Settled
  <2>3. Entry!WriteEnd(c)
    BY <1>1, <1>2, <2>1, <2>2, WriteEndMaps DEF EndPc, WriterPc
  <2> QED
    BY <2>3 DEF Mapped
<1> QED
  BY <1>3, <1>4, <1>5 DEF PartsNext

LEMMA UpdateMaps ==
  ASSUME IInv, EInv, NEW c \in Calls, UpdateNext(c)
  PROVE Mapped(c)
<1> USE DEF Goto, fsVars, bytes, callVars, callData, ghostVars, marks
<1>1. Local(c)
  BY LocalStep DEF CallNext
<1>2. TypeOK /\ KindPc /\ KindOK
  BY DEF IInv, EInv
<1>3. ASSUME NEW l \in Calls, UpdateStart(c, l) PROVE Mapped(c)
  <2>1. PICK k \in Keys : k = key[l]
    BY <1>2, <1>3 DEF UpdateStart, KindOK
  <2>2. Begin(c, "update", k, "exists") /\ UNCHANGED <<body, file>>
    BY <1>3, <2>1 DEF UpdateStart
  <2>3. /\ pc[c] = "idle" /\ pc'[c] = "exists" /\ key' = [key EXCEPT ![c] = k]
        /\ raced' = raced \/ raced' = raced \cup {k}
    BY <1>2, <1>3, <2>1 DEF UpdateStart, Begin, Race, TypeOK, CallTypeOK
  <2>4. Entry!Start(c, "write", k)
    BY <1>1, <1>2, <2>2, StartMaps DEF LivePc, WriterPc
  <2>5. entries' = [entries EXCEPT ![k] = EntryOf(k)'] /\ entries[k] = EntryOf(k)
    BY <1>1, <1>2, <2>3, MappedStep DEF entries, TypeOK, CallTypeOK
  <2>6. EntryOf(k)' \in {EntryOf(k), Unsettled}
    <3>1. CASE raced' = raced
      <4>1. Keeps(c) /\ ~Touching(c)
        BY <2>2, <2>3, <3>1 DEF Keeps, Touching, Untouched, WriterPc
      <4> QED
        BY <1>1, <4>1, EntryKept
    <3>2. CASE raced' = raced \cup {k}
      BY <3>2, EntryCasesNext DEF Settled
    <3> QED
      BY <2>3, <3>1, <3>2
  <2>7. Entry!Write(c, k)
    BY <2>4, <2>5, <2>6 DEF Entry!Write, Entry!Become, entries
  <2> QED
    BY <2>7 DEF Mapped
<1>4. ASSUME UpdateExists(c) \/ ExistsFails(c) PROVE Mapped(c)
  <2>1. /\ UNCHANGED <<body, file, raced, kind, key>> /\ pc[c] = "exists"
        /\ pc'[c] \in {"meta", "none"}
    BY <1>2, <1>4 DEF UpdateExists, ExistsFails, TypeOK, CallTypeOK
  <2>2. Keeps(c)
    BY <1>2, <2>1 DEF Keeps, Touching, Untouched, WriterPc, KindOK
  <2>3. CASE pc'[c] = "meta"
    BY <1>1, <2>1, <2>2, <2>3, MuteMaps DEF LivePc, WriterPc
  <2>4. CASE pc'[c] = "none"
    <3>1. Entry!WriteEnd(c)
      BY <1>1, <1>2, <2>1, <2>2, <2>4, WriteEndMaps DEF EndPc, WriterPc
    <3> QED
      BY <3>1 DEF Mapped
  <2> QED
    BY <2>1, <2>3, <2>4
<1> QED
  BY <1>3, <1>4 DEF UpdateNext

(* Files that a purge removes make the entry nothing, unless it is unsettled. *)
LEMMA EntryShrinks ==
  ASSUME IInv, NEW c \in Calls, Local(c), Touching(c)' <=> Touching(c), UNCHANGED raced,
         Touching(c) => key'[c] = key[c], NEW k \in Keys, Shrinks(k)
  PROVE \/ EntryOf(k)' = EntryOf(k)
        \/ EntryOf(k) # Unsettled /\ EntryOf(k)' = None
<1>1. Settled(k)' <=> Settled(k)
  BY DEF Local, Settled, Touching, Untouched, WriterPc
<1>2. CASE Whole(k)'
  <2>1. Whole(k) /\ file'["meta"][k] = file["meta"][k]
    BY <1>2 DEF Shrinks, Whole, Parts
  <2> QED
    BY <1>1, <1>2, <2>1, EntryCases, EntryCasesNext
<1>3. CASE ~Whole(k)'
  BY <1>1, <1>3, EntryType, EntryCases, EntryCasesNext
<1> QED
  BY <1>2, <1>3

LEMMA PurgeMaps ==
  ASSUME IInv, EInv, NEW c \in Calls, PurgeNext(c) \/ CancelPurge(c)
  PROVE Mapped(c)
<1> USE DEF Goto, fsVars, bytes, callVars, callData, ghostVars, marks
<1>1. Local(c)
  BY LocalStep DEF CallNext
<1>2. TypeOK /\ KindPc /\ KindOK
  BY DEF IInv, EInv
<1>3. ASSUME NEW k \in Keys, PurgeStart(c, k) PROVE Mapped(c)
  <2>1. /\ UNCHANGED <<body, file, raced>> /\ Begin(c, "purge", k, "unlink")
        /\ pc[c] = "idle" /\ pc'[c] = "unlink"
    BY <1>2, <1>3 DEF PurgeStart, Begin, TypeOK, CallTypeOK
  <2>2. Keeps(c) /\ ~Touching(c)
    BY <2>1 DEF Keeps, Touching, WriterPc
  <2>3. entries' = entries
    BY <1>1, <2>2, KeptStep
  <2>4. Entry!Purge(c, k)
    BY <1>1, <1>2, <2>1, <2>3, StartMaps DEF LivePc, PurgePc, Entry!Purge, entries
  <2> QED
    BY <2>4 DEF Mapped
<1>4. ASSUME PurgeBody(c) \/ CancelPurge(c) \/ PurgeDir(c) \/ PurgeFails(c)
             \/ \E p \in Parts : PurgePart(c, p)
      PROVE Mapped(c)
  <2>1. /\ UNCHANGED <<raced, kind, key>> /\ pc[c] \in PurgePc
        /\ pc'[c] \in PurgePc \cup {"ok", "dropped"}
    BY <1>2, <1>4 DEF PurgeBody, CancelPurge, PurgeDir, PurgeFails, PurgePart, PurgePc,
                      TypeOK, CallTypeOK
  <2>2. PICK k \in Keys : k = key[c]
    BY <1>2, <2>1 DEF KindOK, PurgePc
  <2>3. Shrinks(k)
    <3>1. CASE PurgeBody(c) \/ CancelPurge(c)
      BY <1>2, <3>1 DEF PurgeBody, CancelPurge, Shrinks, TypeOK, FsTypeOK
    <3>2. ASSUME NEW p \in Parts, PurgePart(c, p) PROVE Shrinks(k)
      BY <1>2, <3>2 DEF PurgePart, Shrinks, TypeOK, FsTypeOK
    <3>3. CASE PurgeDir(c) \/ PurgeFails(c)
      BY <3>3 DEF PurgeDir, PurgeFails, Shrinks
    <3> QED
      BY <1>4, <3>1, <3>2, <3>3
  <2>4. \/ EntryOf(k)' = EntryOf(k)
        \/ EntryOf(k) # Unsettled /\ EntryOf(k)' = None
    <3>1. ~Touching(c) /\ ~Touching(c)'
      BY <2>1 DEF Touching, WriterPc, PurgePc
    <3> QED
      BY <1>1, <2>1, <2>3, <3>1, EntryShrinks
  <2>5. entries' = [entries EXCEPT ![k] = EntryOf(k)'] /\ entries[k] = EntryOf(k)
    BY <1>1, <2>1, <2>2, MappedStep DEF entries
  <2>6. OpOf(c) = "purge"
    BY <1>2, <2>1, OpByKind
  <2>7. CASE pc'[c] \in PurgePc
    <3>1. UNCHANGED <<ops, key, answers>>
      BY <1>1, <2>1, <2>7, GoesOn DEF LivePc
    <3>2. CASE EntryOf(k)' = EntryOf(k)
      <4>1. entries' = entries
        BY <2>5, <3>2 DEF entries
      <4> QED
        BY <3>1, <4>1 DEF Mapped
    <3>3. CASE EntryOf(k) # Unsettled /\ EntryOf(k)' = None
      <4>1. Entry!Remove(c)
        BY <2>2, <2>5, <2>6, <3>1, <3>3
           DEF Entry!Remove, Entry!Empty, Entry!Become, entries, ops, answers
      <4> QED
        BY <4>1 DEF Mapped
    <3> QED
      BY <2>4, <3>2, <3>3
  <2>8. CASE pc'[c] \in {"ok", "dropped"}
    <3>1. Entry!End(c, "purge")
      BY <1>1, <2>1, <2>6, <2>8, EndMaps DEF LivePc, EndPc
    <3>2. answers' = answers
      BY <1>1, <1>2, <2>1, <2>8, NoAnswer DEF LivePc, EndPc, KindPc
    <3>3. UNCHANGED entries \/ Entry!Empty(key[c])
      BY <2>2, <2>4, <2>5 DEF Entry!Empty, Entry!Become, entries
    <3>4. Entry!PurgeEnd(c)
      BY <3>1, <3>2, <3>3 DEF Entry!PurgeEnd, entries, answers
    <3> QED
      BY <3>4 DEF Mapped
  <2> QED
    BY <2>1, <2>7, <2>8
<1> QED
  BY <1>3, <1>4 DEF PurgeNext

LEMMA CancelMaps ==
  ASSUME IInv, EInv, NEW c \in Calls, Cancel(c)
  PROVE Entry!WriteEnd(c)
<1> USE DEF fsVars, bytes, callVars, callData, ghostVars, marks
<1>1. Local(c)
  BY LocalStep DEF CallNext
<1>2. TypeOK /\ KindPc /\ KindOK
  BY DEF IInv, EInv
<1>3. /\ UNCHANGED <<body, file, kind, key>> /\ pc'[c] = "dropped"
      /\ pc[c] \in {"rename", "copy", "meta", "hdr", "account"}
      /\ IF pc[c] = "hdr" \/ (pc[c] = "meta" /\ ~Untouched(c))
         THEN raced' = raced \cup {key[c]} ELSE raced' = raced
  BY <1>2 DEF Cancel, Race, TypeOK, CallTypeOK
<1>4. CASE Untouched(c)
  <2>1. Keeps(c)
    BY <1>3, <1>4 DEF Keeps, Touching, Untouched, WriterPc
  <2> QED
    BY <1>1, <1>2, <1>3, <2>1, WriteEndMaps DEF EndPc, WriterPc
<1>5. CASE ~Untouched(c)
  <2>1. ASSUME NEW k \in Keys, k = key[c]
        PROVE /\ EntryOf(k) = Unsettled
              /\ \/ EntryOf(k)' \in {Unsettled, None}
                 \/ EntryOf(k)' \in Stamp /\ EntryOf(k)'.rev = c
    <3>1. EntryOf(k) = Unsettled
      BY <1>3, <1>5, <2>1, EntryCases DEF Settled, Touching, WriterPc
    <3>2. CASE k \in raced'
      BY <3>1, <3>2, EntryCasesNext DEF Settled
    <3>3. CASE k \notin raced'
      <4>1. pc[c] = "account" /\ k \notin raced
        BY <1>3, <1>5, <2>1, <3>3 DEF Untouched
      <4>2. /\ file["meta"][k] # None => file["meta"][k].val = StampOf(c)
            /\ StampOf(c) \in Stamp /\ StampOf(c).rev = c
        BY <2>1, <4>1, OwnVersion DEF MetaSet, WriterPc
      <4> QED
        BY <1>3, <3>1, <4>2, EntryCasesNext DEF Whole, Parts
    <3> QED
      BY <3>2, <3>3
  <2> QED
    BY <1>1, <1>2, <1>3, <2>1, WriteEndMaps DEF EndPc, WriterPc
<1> QED
  BY <1>4, <1>5

LEMMA CrashMaps ==
  ASSUME IInv, EInv, Crash
  PROVE Entry!Crash
<1> USE DEF callData
<1>1. TypeOK /\ KindPc /\ KindOK
  BY DEF IInv, EInv
<1>2. /\ UNCHANGED <<body, file, kind, key, got>>
      /\ \A c \in Calls : pc'[c] = IF pc[c] \in LivePc \cup {"hit"} THEN "dead" ELSE pc[c]
      /\ \A k \in Keys : k \in raced' <=> k \in raced \/ \E c \in Writers(k) : ~Untouched(c)
  BY DEF Crash
<1>3. MaxFaults > 0
  BY <1>1, DiskCacheAssumption DEF Crash, Fault, TypeOK, HistTypeOK
<1>4. \A k \in Keys : EntryOf(k)' = EntryOf(k)
  <2> SUFFICES ASSUME NEW k \in Keys PROVE EntryOf(k)' = EntryOf(k)
    OBVIOUS
  <2>1. \A c \in Calls : ~Touching(c)'
    BY <1>2 DEF Touching, LivePc, WriterPc
  <2>2. Settled(k)' <=> Settled(k)
    BY <1>2, <2>1 DEF Settled, Touching, Writers, Active
  <2>3. Whole(k)' <=> Whole(k)
    BY <1>2 DEF Whole
  <2> QED
    BY <1>2, <2>2, <2>3, EntryCases, EntryCasesNext
<1>5. ASSUME NEW c \in Calls
      PROVE /\ OpOf(c)' = IF OpOf(c) = "idle" THEN "idle" ELSE "over"
            /\ AnswerOf(c)' \in {AnswerOf(c), Garbled}
            /\ AnswerOf(c)' \in Stamp \cup {None, Garbled}
  <2>1. pc[c] \in {"idle"} \cup LivePc \cup EndPc
    BY <1>1 DEF TypeOK, CallTypeOK
  <2>2. OpOf(c)' = IF OpOf(c) = "idle" THEN "idle" ELSE "over"
    BY <1>2, <2>1 DEF OpOf, LivePc, WriterPc, PurgePc, EndPc
  <2>3. pc'[c] # "hit" /\ (pc'[c] = "none" => pc[c] = "none")
    BY <1>2, <2>1
  <2>4. AnswerOf(c)' \in {AnswerOf(c), Garbled} /\ AnswerOf(c)' \in {None, Garbled}
    BY <1>2, <2>3 DEF AnswerOf
  <2> QED
    BY <2>2, <2>4
<1> QED
  BY <1>2, <1>3, <1>4, <1>5 DEF Entry!Crash

-----------------------------------------------------------------------------
(* What a lookup sees *)

(* While a key stays settled its files can only go. *)
LEMMA SettledShrinks ==
  ASSUME IInv, NEW c \in Calls, CallNext(c), NEW k \in Keys, Settled(k), Settled(k)'
  PROVE Shrinks(k)
<1> USE DEF Goto, fsVars, callVars, callData, ghostVars, marks
<1>1. Local(c)
  BY LocalStep
<1>2. TypeOK /\ KindOK
  BY DEF IInv
<1>3. CASE k # key'[c]
  BY <1>1, <1>3 DEF Local, Shrinks
<1>4. CASE UNCHANGED <<body, file>>
  BY <1>4 DEF Shrinks
<1>5. CASE k = key'[c] /\ ~UNCHANGED <<body, file>>
  <2>1. CASE Rename(c) \/ CopyOpen(c)
    <3>1. pc'[c] \in {"meta", "copying"} /\ kind'[c] = "miss"
      BY <1>2, <2>1 DEF Rename, CopyOpen, TypeOK, CallTypeOK, KindOK
    <3>2. Touching(c)'
      BY <3>1 DEF Touching, Untouched, WriterPc
    <3> QED
      BY <1>5, <3>2 DEF Settled
  <2>2. ASSUME NEW p \in Parts, OpenPart(c, p) PROVE FALSE
    <3>1. pc'[c] \in {"metaWrite", "hdrWrite"}
      BY <1>2, <1>5, <2>2 DEF OpenPart, TypeOK, CallTypeOK
    <3>2. Touching(c)'
      BY <3>1 DEF Touching, Untouched, WriterPc
    <3> QED
      BY <1>5, <3>2 DEF Settled
  <2>3. ASSUME NEW p \in Parts, WritePart(c, p) PROVE FALSE
    <3>1. pc[c] \in {"metaWrite", "hdrWrite"} /\ key'[c] = key[c]
      BY <2>3 DEF WritePart, Parts
    <3>2. Touching(c)
      BY <3>1 DEF Touching, Untouched, WriterPc
    <3> QED
      BY <1>5, <3>1, <3>2 DEF Settled
  <2>4. CASE PurgeBody(c) \/ CancelPurge(c)
    BY <1>2, <2>4 DEF PurgeBody, CancelPurge, Shrinks, TypeOK, FsTypeOK
  <2>5. ASSUME NEW p \in Parts, PurgePart(c, p) PROVE Shrinks(k)
    BY <1>2, <2>5 DEF PurgePart, Shrinks, TypeOK, FsTypeOK
  <2>6. CASE LookupNext(c) \/ MissNext(c)
    BY <1>5, <2>6 DEF LookupNext, LookupStart, LookupRead, LookupEnd, LookupFails, MissNext,
       MissStart, CreateParent, CreateTmp, WriteBody, Land, Abandon, MissFails, CancelCreate, LandFails
  <2>7. CASE FinishNext(c) /\ ~Rename(c) /\ ~CopyOpen(c)
    BY <1>5, <2>7 DEF FinishNext, FinishStart, RenameFails, Copy, CopyFails, FinishEnd
  <2>8. CASE PartFails(c) \/ UpdateNext(c) \/ Cancel(c)
    BY <1>5, <2>8 DEF PartFails, UpdateNext, UpdateStart, UpdateExists, ExistsFails, Cancel
  <2>9. CASE \/ \E j \in Keys : PurgeStart(c, j)
             \/ PurgeDir(c) \/ PurgeFails(c)
    BY <1>5, <2>9 DEF PurgeStart, PurgeDir, PurgeFails
  <2> QED
    BY <2>1, <2>2, <2>3, <2>4, <2>5, <2>6, <2>7, <2>8, <2>9
       DEF CallNext, FinishNext, PartsNext, PurgeNext
<1> QED
  BY <1>3, <1>4, <1>5

(* A call's program point stays one of its kind. *)
LEMMA KindPcStep ==
  ASSUME TypeOK, KindOK, KindPc, [Next]_vars
  PROVE KindPc'
<1> USE DEF TypeOK, CallTypeOK, KindOK, KindPc, Goto, Begin, LivePc, WriterPc, PurgePc,
        EndPc, fsVars, callVars, callData, ghostVars, marks
<1>1. ASSUME NEW c \in Calls, LookupNext(c) PROVE KindPc'
  <2>1. ASSUME NEW k \in Keys, LookupStart(c, k) PROVE KindPc'
    BY <2>1 DEF LookupStart, Begin, MeetAsReader
  <2>2. ASSUME NEW f \in {"meta", "hdr", "body"}, LookupRead(c, f) PROVE KindPc'
    BY <2>2 DEF LookupRead
  <2>3. CASE LookupEnd(c)
    BY <2>3 DEF LookupEnd
  <2>4. CASE LookupFails(c)
    BY <2>4 DEF LookupFails
  <2> HIDE DEF KindPc
  <2> QED
    BY <1>1, <2>1, <2>2, <2>3, <2>4 DEF LookupNext
<1>2. ASSUME NEW c \in Calls, MissNext(c) PROVE KindPc'
  <2>1. ASSUME NEW k \in Keys, MissStart(c, k) PROVE KindPc'
    BY <2>1 DEF MissStart, Begin
  <2>2. CASE CreateParent(c)
    BY <2>2 DEF CreateParent
  <2>3. CASE CreateTmp(c)
    BY <2>3 DEF CreateTmp
  <2>4. ASSUME NEW n \in ChunkSizes, NEW e \in BOOLEAN, WriteBody(c, n, e) PROVE KindPc'
    BY <2>4 DEF WriteBody
  <2>5. CASE Land(c)
    BY <2>5 DEF Land
  <2>6. CASE Abandon(c)
    BY <2>6 DEF Abandon
  <2>7. CASE MissFails(c) \/ CancelCreate(c)
    BY <2>7 DEF MissFails, CancelCreate
  <2>8. CASE LandFails(c)
    BY <2>8 DEF LandFails
  <2> HIDE DEF KindPc
  <2> QED
    BY <1>2, <2>1, <2>2, <2>3, <2>4, <2>5, <2>6, <2>7, <2>8 DEF MissNext
<1>3. ASSUME NEW c \in Calls, FinishNext(c) PROVE KindPc'
  <2>1. CASE FinishStart(c)
    BY <2>1 DEF FinishStart, MeetAsWriter, Race
  <2>2. CASE Rename(c)
    BY <2>2 DEF Rename
  <2>3. CASE RenameFails(c)
    BY <2>3 DEF RenameFails
  <2>4. CASE CopyOpen(c)
    BY <2>4 DEF CopyOpen
  <2>5. CASE Copy(c)
    BY <2>5 DEF Copy
  <2>6. CASE CopyFails(c)
    BY <2>6 DEF CopyFails, Race
  <2>7. CASE FinishEnd(c)
    BY <2>7 DEF FinishEnd
  <2> HIDE DEF KindPc
  <2> QED
    BY <1>3, <2>1, <2>2, <2>3, <2>4, <2>5, <2>6, <2>7 DEF FinishNext
<1>4. ASSUME NEW c \in Calls, PartsNext(c) PROVE KindPc'
  <2>1. ASSUME NEW p \in Parts, OpenPart(c, p) PROVE KindPc'
    BY <2>1 DEF OpenPart, Parts
  <2>2. ASSUME NEW p \in Parts, WritePart(c, p) PROVE KindPc'
    BY <2>2 DEF WritePart, Parts
  <2>3. CASE PartFails(c)
    BY <2>3 DEF PartFails, Race
  <2> HIDE DEF KindPc
  <2> QED
    BY <1>4, <2>1, <2>2, <2>3 DEF PartsNext
<1>5. ASSUME NEW c \in Calls, UpdateNext(c) PROVE KindPc'
  <2>1. ASSUME NEW l \in Calls, UpdateStart(c, l) PROVE KindPc'
    BY <2>1 DEF UpdateStart, Begin, MeetAsWriter, Race
  <2>2. CASE UpdateExists(c)
    BY <2>2 DEF UpdateExists
  <2>3. CASE ExistsFails(c)
    BY <2>3 DEF ExistsFails
  <2> HIDE DEF KindPc
  <2> QED
    BY <1>5, <2>1, <2>2, <2>3 DEF UpdateNext
<1>6. ASSUME NEW c \in Calls, PurgeNext(c) PROVE KindPc'
  <2>1. ASSUME NEW k \in Keys, PurgeStart(c, k) PROVE KindPc'
    BY <2>1 DEF PurgeStart, Begin, MeetAsPurge
  <2>2. CASE PurgeBody(c)
    BY <2>2 DEF PurgeBody
  <2>3. ASSUME NEW p \in Parts, PurgePart(c, p) PROVE KindPc'
    BY <2>3 DEF PurgePart
  <2>4. CASE PurgeDir(c)
    BY <2>4 DEF PurgeDir
  <2>5. CASE PurgeFails(c)
    BY <2>5 DEF PurgeFails
  <2> HIDE DEF KindPc
  <2> QED
    BY <1>6, <2>1, <2>2, <2>3, <2>4, <2>5 DEF PurgeNext
<1>7. CASE Crash
  BY <1>7 DEF Crash
<1>8. CASE UNCHANGED vars
  BY <1>8 DEF vars
<1>9. ASSUME NEW c \in Calls, Cancel(c) PROVE KindPc'
  BY <1>9 DEF Cancel, Race
<1>10. ASSUME NEW c \in Calls, CancelPurge(c) PROVE KindPc'
  BY <1>10 DEF CancelPurge
<1> HIDE DEF KindPc
<1> QED
  BY <1>1, <1>2, <1>3, <1>4, <1>5, <1>6, <1>7, <1>8, <1>9, <1>10 DEF Next

(* EntryType and SettledAgree, of the next state. *)
EntriesOK == \A k \in Keys : /\ EntryOf(k) \in Stamp \cup {None, Unsettled}
                             /\ EntryOf(k) = Unsettled <=> ~Settled(k)
                             /\ Settled(k) => Agree(k)
LEMMA EntryTypeNext == IInv' => EntriesOK'
<1>1. IInv => EntriesOK
  BY EntryType, SettledAgree DEF EntriesOK
<1> QED
  BY <1>1, PTL

(* A call that is a lookup after its step has started, or has read a file, or *)
(* has done nothing to itself; it has not touched any file.                   *)
LEMMA LookupSteps ==
  ASSUME IInv, NEW c \in Calls, CallNext(c), pc'[c] = "lookup"
  PROVE /\ UNCHANGED <<body, file>>
        /\ \/ pc[c] = "idle" /\ got'[c] = got[c] /\ \E k \in Keys : key'[c] = k
           \/ /\ pc[c] = "lookup" /\ key'[c] = key[c]
              /\ got'[c] = got[c] \/ \E f \in {"meta", "hdr", "body"} : LookupRead(c, f)
<1> USE DEF TypeOK, CallTypeOK, Goto, fsVars, callVars, callData, ghostVars, marks
<1> TypeOK /\ KindOK
  BY DEF IInv
<1>1. ASSUME NEW k \in Keys, LookupStart(c, k)
      PROVE UNCHANGED <<body, file>> /\ pc[c] = "idle" /\ got'[c] = got[c] /\ key'[c] = k
  BY <1>1 DEF LookupStart, Begin
<1>2. ASSUME NEW f \in {"meta", "hdr", "body"}, LookupRead(c, f)
      PROVE UNCHANGED <<body, file>> /\ pc[c] = "lookup" /\ key'[c] = key[c]
  BY <1>2 DEF LookupRead
<1>3. CASE Land(c) \/ LandFails(c)
  <2>1. UNCHANGED <<body, file, pc, key, got>>
    BY <1>3 DEF Land, LandFails
  <2> QED
    BY <2>1
<1>4. ~LookupEnd(c) /\ ~LookupFails(c)
  BY DEF LookupEnd, LookupFails
<1>5. /\ \A k \in Keys : ~MissStart(c, k)
      /\ ~CreateParent(c) /\ ~CreateTmp(c) /\ ~Abandon(c) /\ ~MissFails(c) /\ ~CancelCreate(c)
      /\ \A n \in ChunkSizes, e \in BOOLEAN : ~WriteBody(c, n, e)
  BY DEF MissStart, Begin, CreateParent, CreateTmp, Abandon, MissFails, CancelCreate, WriteBody
<1>6. ~FinishNext(c)
  BY DEF FinishNext, FinishStart, Rename, RenameFails, CopyOpen, Copy, CopyFails, FinishEnd
<1>7. ~PartsNext(c)
  BY DEF PartsNext, OpenPart, WritePart, PartFails, Parts
<1>8. ~UpdateNext(c)
  BY DEF UpdateNext, UpdateStart, Begin, UpdateExists, ExistsFails
<1>9. ~PurgeNext(c) /\ ~Cancel(c) /\ ~CancelPurge(c)
  BY DEF PurgeNext, PurgeStart, Begin, PurgeBody, PurgePart, PurgeDir, PurgeFails, Cancel,
         CancelPurge
<1> QED
  BY <1>1, <1>2, <1>3, <1>4, <1>5, <1>6, <1>7, <1>8, <1>9
     DEF CallNext, LookupNext, MissNext

(* What a lookup has read in a settled entry stays true of the files left. *)
LEMMA ReadSeenStep ==
  ASSUME IInv, NEW d \in Calls, pc[d] = "lookup", UpToDate(d), ReadSeen(d),
         Unsettled \notin seen[d], seen[d] \subseteq seen'[d],
         NEW k \in Keys, k = key[d], key'[d] = k, Shrinks(k),
         \/ got'[d] = got[d]
         \/ /\ \E f \in {"meta", "hdr", "body"} : LookupRead(d, f)
            /\ UNCHANGED <<body, file>>
  PROVE ReadSeen(d)'
<1> USE DEF Parts
<1>1. TypeOK
  BY DEF IInv
<1>2. CASE got'[d] = got[d]
  <2>1. Misses(d) => Misses(d)'
    BY <1>2 DEF Misses, OnDisk, Shrinks
  <2>2. ASSUME NEW v \in seen[d] \cap Stamp, ReadOf(d, v) PROVE ReadOf(d, v)'
    BY <1>2, <2>2 DEF ReadOf, Shrinks
  <2> QED
    BY <1>2, <2>1, <2>2 DEF ReadSeen
<1>3. ASSUME NEW f \in {"meta", "hdr", "body"}, LookupRead(d, f), UNCHANGED <<body, file>>
      PROVE ReadSeen(d)'
  <2>1. PICK x : /\ got'[d] = [got[d] EXCEPT ![f] = x]
                 /\ x = OnDisk(f, k) \/ (x = None /\ MaxFaults > 0)
    <3>1. PICK x : /\ got' = [got EXCEPT ![d][f] = x]
                   /\ x = OnDisk(f, key[d]) \/ (x = None /\ Fault)
      BY <1>3 DEF LookupRead
    <3>2. Fault => MaxFaults > 0
      BY <1>1, DiskCacheAssumption DEF Fault, TypeOK, HistTypeOK
    <3>3. got'[d] = [got[d] EXCEPT ![f] = x]
      BY <1>1, <3>1 DEF TypeOK, CallTypeOK
    <3> QED
      BY <3>1, <3>2, <3>3
  <2>2. /\ got[d][f] = Unread /\ got'[d][f] = x
        /\ \A g \in {"meta", "hdr", "body"} : g # f => got'[d][g] = got[d][g]
    BY <1>1, <1>3, <2>1 DEF LookupRead, TypeOK, CallTypeOK
  <2>3. \A g \in {"meta", "hdr", "body"} : OnDisk(g, k)' = OnDisk(g, k)
    BY <1>3 DEF OnDisk
  <2>4. Misses(d) => Misses(d)'
    <3> SUFFICES ASSUME NEW g \in {"meta", "hdr", "body"},
                        got[d][g] = None \/ (got[d][g] = Unread /\ OnDisk(g, k) = None)
                 PROVE \E h \in {"meta", "hdr", "body"} :
                         got'[d][h] = None \/ (got'[d][h] = Unread /\ OnDisk(h, k)' = None)
      BY DEF Misses
    <3>1. CASE g = f
      BY <2>1, <2>2, <3>1, DiskCacheAssumption
    <3>2. CASE g # f
      BY <2>2, <2>3, <3>2
    <3> QED
      BY <3>1, <3>2
  <2>5. ASSUME NEW v \in seen[d] \cap Stamp, ReadOf(d, v) PROVE ReadOf(d, v)'
    <3>1. f # "body" => x \in {v, None}
      BY <2>1, <2>5 DEF ReadOf, OnDisk
    <3>2. f = "body" => x \in {v.obj, None}
      BY <2>1, <2>5 DEF ReadOf, OnDisk
    <3> QED
      BY <1>3, <2>2, <2>5, <3>1, <3>2 DEF ReadOf
  <2>6. x = None => None \in seen[d] \/ MaxFaults > 0
    <3> SUFFICES ASSUME OnDisk(f, k) = None PROVE None \in seen[d]
      BY <2>1
    <3>1. ~Whole(k)
      <4>1. f = "body" \/ file[f][k] = None \/ file[f][k].val = None
        BY DEF OnDisk
      <4>2. f # "body" => file[f][k] \in File \cup {None}
        BY <1>1 DEF TypeOK, FsTypeOK
      <4>3. f # "body" => file[f][k] = None
        BY <4>1, <4>2, DiskCacheAssumption DEF File
      <4> QED
        BY <4>3 DEF Whole, OnDisk
    <3>2. EntryOf(k) \in seen[d]
      BY DEF UpToDate
    <3>3. EntryOf(k) = None
      BY <3>1, <3>2, EntryCases
    <3> QED
      BY <3>2, <3>3
  <2>7. (\E g \in {"meta", "hdr", "body"} : got'[d][g] = None) =>
          None \in seen'[d] \/ MaxFaults > 0
    BY <2>2, <2>6 DEF ReadSeen
  <2>8. Misses(d)' \/ \E v \in seen'[d] \cap Stamp : ReadOf(d, v)'
    BY <2>4, <2>5 DEF ReadSeen
  <2> QED
    BY <2>7, <2>8 DEF ReadSeen
<1> QED
  BY <1>2, <1>3

(* What a lookup has seen and read when it starts. *)
LEMMA ReadSeenStart ==
  ASSUME IInv, IInv', NEW d \in Calls, pc[d] = "idle", got'[d] = got[d],
         NEW k \in Keys, key'[d] = k, EntryOf(k)' # Unsettled, seen'[d] = {EntryOf(k)'}
  PROVE ReadSeen(d)'
<1>1. got'[d] = [meta |-> Unread, hdr |-> Unread, body |-> Unread]
  BY DEF IInv, KindOK
<1>2. Settled(k)' /\ Agree(k)' /\ EntryOf(k)' \in Stamp \cup {None}
  BY EntryTypeNext DEF EntriesOK
<1>3. \A f \in {"meta", "hdr", "body"} : got'[d][f] # None
  BY <1>1, DiskCacheAssumption
<1>4. CASE Whole(k)'
  <2>0. PICK v : v = file'["meta"][k].val
    OBVIOUS
  <2>1. EntryOf(k)' = v /\ v \in seen'[d] \cap Stamp
    <3>1. EntryOf(k)' = v
      BY <1>2, <1>4, <2>0, EntryCasesNext
    <3>2. v # None
      <4>1. file'["meta"][k] \in File
        BY <1>4 DEF IInv, TypeOK, FsTypeOK, Whole, Parts
      <4> QED
        BY <2>0, <4>1, DiskCacheAssumption DEF File
    <3> QED
      BY <1>2, <3>1, <3>2
  <2>2. ReadOf(d, v)'
    BY <1>1, <1>2, <1>4, <2>0 DEF ReadOf, Agree, Whole, Parts
  <2> QED
    BY <1>3, <2>1, <2>2 DEF ReadSeen
<1>5. CASE ~Whole(k)'
  <2>1. \E f \in {"meta", "hdr", "body"} : OnDisk(f, k)' = None
    BY <1>5 DEF Whole, OnDisk, Parts
  <2>2. Misses(d)'
    BY <1>1, <2>1 DEF Misses
  <2> QED
    BY <1>3, <2>2 DEF ReadSeen
<1> QED
  BY <1>4, <1>5

(* A step of one call, with the history it takes down. *)
LEMMA SeenCallStep ==
  ASSUME IInv, IInv', EInv, NEW c \in Calls, CallNext(c), SeenNext
  PROVE SeenState'
<1>1. TypeOK /\ KindOK' /\ Local(c)
  BY LocalStep DEF IInv
<1>2. ASSUME NEW d \in Calls, pc'[d] # "lookup" PROVE seen'[d] = {}
  BY <1>2 DEF SeenNext
<1>3. ASSUME NEW d \in Calls, pc'[d] = "lookup"
      PROVE /\ seen'[d] \in SUBSET (Stamp \cup {None, Unsettled})
            /\ UpToDate(d)' /\ (Unsettled \notin seen'[d] => ReadSeen(d)')
  <2>1. PICK k \in Keys : key'[d] = k
    BY <1>1, <1>3 DEF KindOK
  <2>2. EntryOf(k)' \in Stamp \cup {None, Unsettled}
        /\ (EntryOf(k)' = Unsettled <=> ~Settled(k)')
    BY EntryTypeNext DEF EntriesOK
  <2>3. CASE pc[d] # "lookup"
    <3>1. d = c
      BY <1>1, <1>3, <2>3 DEF Local
    <3>2. pc[d] = "idle" /\ got'[d] = got[d]
      BY <1>3, <2>3, <3>1, LookupSteps
    <3>3. seen'[d] = {EntryOf(k)'}
      BY <1>3, <2>1, <2>3 DEF SeenNext
    <3>4. UpToDate(d)'
      BY <2>1, <3>3 DEF UpToDate
    <3>5. Unsettled \notin seen'[d] => ReadSeen(d)'
      BY <2>1, <3>2, <3>3, ReadSeenStart
    <3> QED
      BY <2>2, <3>3, <3>4, <3>5
  <2>4. CASE pc[d] = "lookup"
    <3>1. seen'[d] = Entry!See(seen[d], EntryOf(k)')
      BY <1>3, <2>1, <2>4 DEF SeenNext
    <3>2. seen[d] \in SUBSET (Stamp \cup {None, Unsettled}) /\ UpToDate(d)
          /\ (Unsettled \notin seen[d] => ReadSeen(d))
      BY <2>4 DEF EInv, SeenState
    <3>3. key[d] = k
      BY <1>1, <2>1, <2>4 DEF Local
    <3>4. CASE EntryOf(k)' = Unsettled \/ Unsettled \in seen[d]
      <4>1. seen'[d] = {Unsettled}
        BY <3>1, <3>4 DEF Entry!See
      <4> QED
        BY <4>1 DEF UpToDate
    <3>5. CASE EntryOf(k)' # Unsettled /\ Unsettled \notin seen[d]
      <4>1. seen'[d] = seen[d] \cup {EntryOf(k)'}
        BY <3>1, <3>5 DEF Entry!See
      <4>2. UpToDate(d)'
        BY <2>1, <3>5, <4>1 DEF UpToDate
      <4>3. EntryOf(k) # Unsettled
        BY <3>2, <3>3, <3>5 DEF UpToDate
      <4>4. Shrinks(k)
        BY <2>2, <3>5, <4>3, EntryType, SettledShrinks
      <4>5. \/ got'[d] = got[d]
            \/ /\ \E f \in {"meta", "hdr", "body"} : LookupRead(d, f)
               /\ UNCHANGED <<body, file>>
        BY <1>1, <1>3, <2>4, LookupSteps DEF Local
      <4>6. ReadSeen(d)'
        BY <2>1, <2>4, <3>2, <3>3, <3>5, <4>1, <4>4, <4>5, ReadSeenStep
      <4> QED
        BY <2>2, <3>2, <4>1, <4>2, <4>6
    <3> QED
      BY <3>4, <3>5
  <2> QED
    BY <2>3, <2>4
<1>4. seen' \in [Calls -> SUBSET (Stamp \cup {None, Unsettled})]
  <2>1. seen' = [d \in Calls |-> seen'[d]]
    BY DEF SeenNext
  <2> QED
    BY <1>2, <1>3, <2>1
<1> QED
  BY <1>2, <1>3, <1>4 DEF SeenState

(* EInv is inductive, given IInv. *)
LEMMA EInvStep ==
  ASSUME IInv, IInv', EInv, [Next /\ SeenNext]_<<vars, seen>>
  PROVE EInv'
<1>1. KindPc'
  <2>1. [Next]_vars
    OBVIOUS
  <2> QED
    BY <2>1, KindPcStep DEF IInv, EInv
<1>2. SeenState'
  <2>1. ASSUME NEW c \in Calls, CallNext(c), SeenNext PROVE SeenState'
    BY <2>1, SeenCallStep
  <2>2. CASE Crash /\ SeenNext
    <3>1. \A d \in Calls : pc'[d] # "lookup"
      BY <2>2 DEF Crash, LivePc
    <3>2. seen' = [d \in Calls |-> {}]
      BY <2>2, <3>1 DEF SeenNext
    <3> QED
      BY <3>1, <3>2 DEF SeenState
  <2>3. CASE UNCHANGED <<vars, seen>>
    BY <2>3 DEF EInv, SeenState, UpToDate, ReadSeen, Misses, ReadOf, OnDisk, EntryOf,
       Writers, Active, Untouched, vars, fsVars, bytes, callVars, callData, ghostVars, marks
  <2> QED
    BY <2>1, <2>2, <2>3 DEF Next, CallNext
<1> QED
  BY <1>1, <1>2 DEF EInv

-----------------------------------------------------------------------------
(* The refinement *)

(* Lookups are what CacheEntry takes for lookups. *)
LookExactly == \A c \in Calls : OpOf(c) = "look" <=> pc[c] = "lookup"
LEMMA LookMeansLookup == TypeOK /\ KindPc => LookExactly
BY DEF LookExactly, TypeOK, CallTypeOK, KindPc, OpOf, LivePc, WriterPc, PurgePc, EndPc

(* The history is the one CacheEntry takes down. *)
LEMMA WatchMaps ==
  ASSUME KindOK', LookExactly, LookExactly', SeenNext
  PROVE Entry!Watch
<1> DEFINE W(c) == CASE OpOf(c)' # "look" -> {}
                     [] OpOf(c)' = "look" /\ OpOf(c) # "look" -> {entries'[key'[c]]}
                     [] OTHER -> Entry!See(seen[c], entries'[key'[c]])
<1>1. ASSUME NEW c \in Calls PROVE seen'[c] = W(c)
  <2>1. (OpOf(c)' = "look" <=> pc'[c] = "lookup") /\ (OpOf(c) = "look" <=> pc[c] = "lookup")
    BY DEF LookExactly
  <2>2. CASE pc'[c] # "lookup"
    BY <2>1, <2>2 DEF SeenNext
  <2>3. CASE pc'[c] = "lookup"
    <3>1. PICK k \in Keys : k = key'[c]
      BY <2>3 DEF KindOK
    <3>2. entries'[key'[c]] = EntryOf(k)'
      BY <3>1 DEF entries
    <3>3. seen'[c] = IF pc[c] # "lookup" THEN {EntryOf(k)'}
                     ELSE Entry!See(seen[c], EntryOf(k)')
      BY <2>3, <3>1 DEF SeenNext
    <3> QED
      BY <2>1, <2>3, <3>2, <3>3
  <2> QED
    BY <2>2, <2>3
<1>2. seen' = [c \in Calls |-> seen'[c]]
  BY DEF SeenNext
<1>3. seen' = [c \in Calls |-> W(c)]
  BY <1>1, <1>2
<1> QED
  BY <1>3 DEF Entry!Watch, entries

(* A step that CacheEntry does not see takes down nothing new. *)
LEMMA NothingSeen ==
  ASSUME IInv, EInv, LookExactly, LookExactly', SeenNext,
         UNCHANGED <<entries, ops, key, answers>>
  PROVE seen' = seen
<1>1. ASSUME NEW c \in Calls PROVE seen'[c] = seen[c]
  <2>1. pc'[c] = "lookup" <=> pc[c] = "lookup"
    <3>1. OpOf(c)' = OpOf(c)
      BY DEF ops
    <3> QED
      BY <3>1 DEF LookExactly
  <2>2. CASE pc[c] # "lookup"
    BY <2>1, <2>2 DEF SeenNext, EInv, SeenState
  <2>3. CASE pc[c] = "lookup"
    <3>1. PICK k \in Keys : k = key[c]
      BY <2>3 DEF IInv, KindOK
    <3>2. EntryOf(k)' = EntryOf(k)
      BY DEF entries
    <3>3. seen'[c] = Entry!See(seen[c], EntryOf(k)')
      BY <2>1, <2>3, <3>1 DEF SeenNext
    <3>4. UpToDate(c)
      BY <2>3 DEF EInv, SeenState
    <3> QED
      BY <3>1, <3>2, <3>3, <3>4 DEF UpToDate, Entry!See
  <2> QED
    BY <2>2, <2>3
<1>2. seen' = [c \in Calls |-> seen'[c]] /\ seen = [c \in Calls |-> seen[c]]
  BY DEF SeenNext, EInv, SeenState
<1> QED
  BY <1>1, <1>2

(* Every step is a step of CacheEntry or none. *)
LEMMA StepMaps ==
  ASSUME IInv, IInv', EInv, EInv', Next /\ SeenNext
  PROVE [Entry!Next]_Entry!vars
<1>1. LookExactly
  BY LookMeansLookup DEF IInv, EInv
<1>2. LookExactly'
  <2>1. TypeOK' /\ KindPc'
    BY DEF IInv, EInv
  <2> QED
    BY <2>1, LookMeansLookup, PTL
<1>3. Entry!Watch
  BY <1>1, <1>2, WatchMaps DEF IInv
<1>4. CASE UNCHANGED <<entries, ops, key, answers>>
  BY <1>1, <1>2, <1>4, NothingSeen DEF Entry!vars, entries, ops, answers
<1>5. ASSUME NEW c \in Calls, CallNext(c), ~UNCHANGED <<entries, ops, key, answers>>
      PROVE Entry!Next
  <2>1. Mapped(c)
    <3>1. CASE Cancel(c)
      BY <3>1, CancelMaps DEF Mapped
    <3> QED
      BY <1>5, <3>1, LookupMaps, MissMaps, FinishMaps, PartsMaps, UpdateMaps, PurgeMaps
         DEF CallNext
  <2> QED
    BY <1>3, <1>5, <2>1 DEF Mapped, Entry!Next
<1>6. CASE Crash
  BY <1>3, <1>6, CrashMaps DEF Entry!Next
<1> QED
  BY <1>4, <1>5, <1>6 DEF Next, CallNext

(* The disk cache, three files per key and no lock, implements the abstract   *)
(* entry: lookups answer with what their entry was at one moment while they   *)
(* ran, only a writer that was alone replaces a version, only a purge takes   *)
(* one away.                                                                  *)
THEOREM Refinement == EntrySpec => ImplementsEntry
<1>1. EntrySpec => Spec
  <2>1. [Next /\ SeenNext]_<<vars, seen>> => [Next]_vars
    OBVIOUS
  <2> QED
    BY <2>1, PTL DEF EntrySpec, Spec
<1>2. EntrySpec => []IInv
  BY <1>1, Invariance, PTL
<1>3. Init /\ SeenInit => Entry!Init /\ EInv
  BY InitEntry
<1>4. IInv /\ IInv' /\ EInv /\ [Next /\ SeenNext]_<<vars, seen>> => EInv'
  BY EInvStep
<1>5. EntrySpec => []EInv
  BY <1>2, <1>3, <1>4, PTL DEF EntrySpec
<1>6. IInv /\ IInv' /\ EInv /\ EInv' /\ [Next /\ SeenNext]_<<vars, seen>>
        => [Entry!Next]_Entry!vars
  <2>1. UNCHANGED <<vars, seen>> => UNCHANGED Entry!vars
    BY DEF Entry!vars, EntryOf, OpOf, AnswerOf, Writers, Active, Untouched, vars, fsVars,
           bytes, callVars, callData, ghostVars, marks
  <2> QED
    BY <2>1, StepMaps
<1> QED
  BY <1>2, <1>3, <1>5, <1>6, PTL DEF EntrySpec, ImplementsEntry, Entry!Spec

=============================================================================
