------------------------------ MODULE CacheState ------------------------------
(***************************************************************************)
(* The size of the cache across restarts: size_bytes, persisted as         *)
(* _cache_state.json by PersistCacheOnShutdown and restored by             *)
(* DiskCache::new (src/disk_cache/cache_statistics.rs,                     *)
(* src/disk_cache/mod.rs, src/metrics.rs).                                 *)
(*                                                                         *)
(* size_bytes is an i64 gauge, the persisted number a u64; both casts wrap *)
(* (here: at 2 * Half).  The state file is truncated before it is written,  *)
(* is never removed, and is written when the shutdown begins, while calls  *)
(* that are still running go on committing and purging.  Nothing is written *)
(* if the clock reads an earlier time than when the process started, and   *)
(* the error of a write that fails is dropped.                             *)
(***************************************************************************)
EXTENDS Integers

CONSTANTS
  Half,      \* 2^63: i64 is -Half..Half-1, u64 is 0..2*Half-1
  max_bytes, \* capacity, the same for every process (CACHE_SIZE_BYTES)
  MaxBytes,  \* bound: bytes on the disk, and of one body
  MaxStarts, \* bound: processes
  None,      \* no state file
  Torn       \* a state file that serde_json cannot read

Modulus == 2 * Half

ASSUME CacheStateAssumption ==
  /\ Half \in Nat \ {0} /\ max_bytes \in 0..Modulus-1
  /\ MaxBytes \in Nat /\ MaxStarts \in Nat
  /\ None \notin Nat /\ Torn \notin Nat /\ None # Torn

VARIABLES
  phase,      \* "off", "up", or "down": told by SIGTERM or SIGQUIT to stop
  persister,  \* PersistCacheOnShutdown::start: "wait", "open", "write", "done",
              \* "failed", "panicked"
  size_bytes, \* the gauge
  snapshot,   \* size_bytes_current of the CacheStatistics it is about to write
  saved,      \* the state file
  warned,     \* this process warned that the capacity is smaller than the cache
  early,      \* the clock was set back behind start_time
  disk,       \* bytes in the bodies on the disk
  \* ---- history ---------------------------------------------------------
  starts,     \* processes so far
  gauge,      \* the gauge when the last snapshot was taken
  inFile,     \* the gauge whose snapshot is in the state file
  drift       \* reasons why size_bytes may differ from disk

hist == <<gauge, inFile, drift>>
vars == <<phase, persister, size_bytes, snapshot, saved, warned, early, disk, starts, hist>>

\* i as u64 and u as i64
AsU64Plain(i) == i  \* a mistake: the number is taken as it is
AsU64(i) == i % Modulus
AsI64Plain(u) == u  \* a mistake, likewise
AsI64(u) == IF u < Half THEN u ELSE u - Modulus
I64 == -Half..(Half - 1)

Init ==
  /\ phase = "off" /\ persister = "wait" /\ size_bytes = 0 /\ snapshot = 0
  /\ saved = None /\ warned = FALSE /\ early = FALSE /\ disk = 0
  /\ starts = 0 /\ gauge = 0 /\ inFile = 0 /\ drift = {}

-----------------------------------------------------------------------------

\* fetch_cache_state: the size in a readable state file, else 0.
Restored == IF saved \in {None, Torn} THEN 0 ELSE AsI64(saved)

\* DiskCache::new, ...
StartAtZero ==  \* a mistake: the state file is not read
  /\ phase = "off" /\ starts < MaxStarts
  /\ phase' = "up" /\ starts' = starts + 1 /\ early' = FALSE
  /\ size_bytes' = 0 /\ warned' = FALSE
  /\ UNCHANGED <<persister, snapshot, saved, disk, hist>>
StartWarnsEarly ==  \* a mistake: off by one
  /\ phase = "off" /\ starts < MaxStarts
  /\ phase' = "up" /\ starts' = starts + 1 /\ early' = FALSE
  /\ size_bytes' = Restored
  /\ warned' = (max_bytes <= AsU64(Restored))
  /\ UNCHANGED <<persister, snapshot, saved, disk, hist>>
Start ==
  /\ phase = "off" /\ starts < MaxStarts
  /\ phase' = "up" /\ starts' = starts + 1 /\ early' = FALSE
  /\ size_bytes' = Restored
  /\ warned' = (max_bytes < AsU64(Restored))
  /\ UNCHANGED <<persister, snapshot, saved, disk, hist>>

\* ... for which a state file that cannot be opened or read is as good as none.
StartUnread ==
  /\ phase = "off" /\ starts < MaxStarts /\ saved # None
  /\ phase' = "up" /\ starts' = starts + 1 /\ early' = FALSE
  /\ size_bytes' = 0 /\ warned' = FALSE
  /\ drift' = drift \cup {"failed"}
  /\ UNCHANGED <<persister, snapshot, saved, disk, gauge, inFile>>

\* A call changes the gauge by d and the bodies by b, a difference that `why`
\* explains; the snapshot may have missed it already.
Call(d, b, why) ==
  /\ phase \in {"up", "down"}
  /\ size_bytes + d \in I64 /\ disk + b \in 0..MaxBytes
  /\ size_bytes' = size_bytes + d /\ disk' = disk + b
  /\ drift' = drift \cup why \cup IF persister = "wait" THEN {} ELSE {"after"}
  /\ UNCHANGED <<phase, persister, snapshot, saved, warned, early, starts, gauge, inFile>>

\* The net effects of the calls, as DiskCache has them: finish of a new entry of
\* n bytes, purge of one,
Insert(n) == Call(n, n, {})
Purge(n) == Call(-n, -n, {})
\* finish over a body of m bytes, which nothing subtracts,
Replace(m, n) == m <= disk /\ Call(n, n - m, {"replaced"})
\* purge of n bytes of which k had landed when it measured; finish that counts n
\* bytes of which its copy found k,
PurgeLate(k, n) == k < n /\ Call(-k, -n, {"late"})
CopyLate(k, n) == k < n /\ Call(n, k, {"late"})
\* purge that measured k bytes and removed a body of n that a finish, which it
\* met, had meanwhile put there,
PurgeOverlap(k, n) == Call(-k, -n, {"overlap"})
\* and whatever changes the bodies (or loses bytes already counted) and fails, is
\* cancelled or ends with the process before it tells the gauge.
Fail(b) == Call(0, b, {"failed"})

\* SIGTERM or SIGQUIT.
Terminate ==
  /\ phase = "up"
  /\ phase' = "down"
  /\ UNCHANGED <<persister, size_bytes, snapshot, saved, warned, early, disk, starts, hist>>

\* The system's clock is set, back behind start_time or forth again.
SetClock ==
  /\ phase \in {"up", "down"}
  /\ early' = ~early
  /\ UNCHANGED <<phase, persister, size_bytes, snapshot, saved, warned, disk, starts, hist>>

\* PersistCacheOnShutdown::start, once the shutdown watch has changed: collect
\* the statistics, ...
Collect ==
  /\ phase = "down" /\ persister = "wait" /\ ~early
  /\ persister' = "open"
  /\ snapshot' = AsU64(size_bytes) /\ gauge' = size_bytes
  /\ UNCHANGED <<phase, size_bytes, saved, warned, early, disk, starts, inFile, drift>>
\* ... of which uptime, elapsed().unwrap(), may end the task, ...
CollectPanics ==
  /\ phase = "down" /\ persister = "wait" /\ early
  /\ persister' = "panicked"
  /\ drift' = drift \cup {"failed"}
  /\ UNCHANGED <<phase, size_bytes, snapshot, saved, warned, early, disk, starts, gauge, inFile>>
\* ... open the state file, truncating it, ...
OpenState ==
  /\ phase = "down" /\ persister = "open"
  /\ persister' = "write"
  /\ saved' = Torn
  /\ UNCHANGED <<phase, size_bytes, snapshot, warned, early, disk, starts, hist>>
\* ... and write it.
WriteStateNot ==  \* a mistake: the file is left truncated
  /\ phase = "down" /\ persister = "write"
  /\ persister' = "done"
  /\ UNCHANGED <<phase, size_bytes, snapshot, saved, warned, early, disk, starts, hist>>
WriteState ==
  /\ phase = "down" /\ persister = "write"
  /\ persister' = "done"
  /\ saved' = snapshot /\ inFile' = gauge
  /\ UNCHANGED <<phase, size_bytes, snapshot, warned, early, disk, starts, gauge, drift>>

\* The serialisation fails, or the open: the state file stays what it was.  The
\* write fails: it stays truncated, or holds a part.  Either error is dropped.
SaveFails ==
  /\ phase = "down" /\ persister \in {"open", "write"}
  /\ persister' = "failed"
  /\ drift' = drift \cup {"failed"}
  /\ UNCHANGED <<phase, size_bytes, snapshot, saved, warned, early, disk, starts, gauge, inFile>>

\* What the process holds in memory goes with it.
Gone ==
  /\ phase' = "off" /\ persister' = "wait"
  /\ size_bytes' = 0 /\ snapshot' = 0 /\ gauge' = 0 /\ warned' = FALSE /\ early' = FALSE
  /\ UNCHANGED <<saved, disk, starts, inFile>>

\* The grace period, which is far longer than the write, is over.
Exit ==
  /\ phase = "down" /\ persister \in {"done", "failed", "panicked"}
  /\ Gone /\ UNCHANGED drift

\* SIGINT, or a crash: the state file stays what it is.
Kill ==
  /\ phase # "off"
  /\ Gone /\ drift' = drift \cup {"failed"}

Persist == Collect \/ CollectPanics \/ OpenState \/ WriteState \/ SaveFails

Calls ==
  \/ \E n \in 1..MaxBytes : Insert(n) \/ Purge(n)
  \/ \E k, n \in 0..MaxBytes : \/ Replace(k, n) \/ PurgeOverlap(k, n)
                              \/ PurgeLate(k, n) \/ CopyLate(k, n)
  \/ \E b \in -MaxBytes..MaxBytes : Fail(b)

Next ==
  \/ Start \/ StartUnread \/ Terminate \/ SetClock \/ Persist \/ Exit \/ Kill
  \/ Calls

Spec == Init /\ [][Next]_vars

\* The background service runs when the shutdown watch changes.
FairSpec == Spec /\ WF_vars(Persist)

-----------------------------------------------------------------------------
(* Properties *)

\* Reasons that make size_bytes too large, and all of them.
Over == {"replaced", "late"}
Reasons == Over \cup {"overlap", "failed", "after"}

\* Every variable has its type, and no cast meets a number it cannot hold.
TypeOK ==
  /\ phase \in {"off", "up", "down"}
  /\ persister \in {"wait", "open", "write", "done", "failed", "panicked"}
  /\ size_bytes \in I64 /\ snapshot \in 0..Modulus-1
  /\ saved \in (0..Modulus-1) \cup {None, Torn}
  /\ warned \in BOOLEAN /\ early \in BOOLEAN /\ disk \in Nat /\ starts \in Nat
  /\ gauge \in I64 /\ inFile \in I64
  /\ drift \subseteq Reasons

\* A process that reads a complete state file begins with the very gauge the
\* snapshot was taken from, also when that was negative and the cast to u64 and
\* back wrapped, and however many processes died in between.
RestoresGauge ==
  [][Start /\ saved \notin {None, Torn} => size_bytes' = inFile]_vars

\* While a process runs, and between its calls, size_bytes is what is on the disk
\* unless, in this process or an earlier one, a body was replaced, bytes landed
\* late, a purge met a finish, an operation failed or was cancelled, a call ended
\* after the snapshot, the process was killed, or the state was not saved or not
\* read.  The first two make it only too large, across restarts too.
SizeExplained ==
  phase # "off" => /\ drift = {} => size_bytes = disk
                   /\ drift \subseteq Over => size_bytes >= disk

\* An orderly shutdown ends with the snapshot in the state file, unless the write
\* fails, the process is killed before, or its clock is behind its start.
StateSaved ==
  phase = "down" ~> \/ persister = "done" /\ saved = snapshot
                    \/ persister \in {"failed", "panicked"}
                    \/ phase = "off"

\* src/disk_cache/mod.rs:86, "Maximum cache size is now smaller than the current
\* cache size on disk!": a process that starts warns exactly if it finds more
\* bytes on the disk than its capacity, unless the gauge had drifted; and if it
\* could only have become too large, no warning is missing.
WarnsRightly ==
  [][Start => /\ drift = {} => (warned' <=> max_bytes < disk)
              /\ drift \subseteq Over /\ max_bytes < disk => warned']_vars

-----------------------------------------------------------------------------
(* The inductive invariant *)

\* Only a process that is told to stop persists anything.
IdleOK == phase # "down" => persister = "wait"
\* The snapshot is the gauge of its moment, cast; the file holds a snapshot.
SnapshotOK == persister \in {"open", "write", "done"} => snapshot = AsU64(gauge)
WrittenOK == persister = "done" => saved = snapshot /\ inFile = gauge
SavedOK == saved \notin {None, Torn} => saved = AsU64(inFile)
\* While only what makes the gauge too large has happened, the gauge, or what the
\* next process will restore, is at least the bodies, and equal to them if nothing
\* has; and the snapshot is not behind.
Known == IF phase = "off" THEN Restored ELSE size_bytes
DriftOK ==
  drift \subseteq Over =>
    /\ persister \notin {"failed", "panicked"}
    /\ persister # "wait" => gauge = size_bytes
    /\ Known >= disk
    /\ drift = {} => Known = disk

IInv == TypeOK /\ IdleOK /\ SnapshotOK /\ WrittenOK /\ SavedOK /\ DriftOK

=============================================================================
