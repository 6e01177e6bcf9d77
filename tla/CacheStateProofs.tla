---------------------------- MODULE CacheStateProofs ---------------------------
(***************************************************************************)
(* The size of the cache across restarts, for every width of the integers, *)
(* every capacity, and any number of processes and bytes.                  *)
(***************************************************************************)
EXTENDS CacheState, TLAPS

-----------------------------------------------------------------------------
(* The casts *)

\* i as u64 is a u64.
LEMMA AsU64Type == ASSUME NEW i \in I64 PROVE AsU64(i) \in 0..Modulus-1
<1>1. Modulus \in Nat \ {0}
  BY CacheStateAssumption DEF Modulus
<1> QED
  BY <1>1, CacheStateAssumption DEF AsU64, I64

\* u as i64 is an i64.
LEMMA AsI64Type == ASSUME NEW u \in 0..Modulus-1 PROVE AsI64(u) \in I64
BY CacheStateAssumption DEF AsI64, I64, Modulus

\* A non-negative i64 keeps its value as a u64.
LEMMA AsU64Natural == ASSUME NEW i \in I64, i >= 0 PROVE AsU64(i) = i
<1>1. Modulus \in Nat \ {0} /\ i \in 0..Modulus-1
  BY CacheStateAssumption DEF Modulus, I64
<1> QED
  BY <1>1 DEF AsU64

\* A negative one wraps.
LEMMA AsU64Negative == ASSUME NEW i \in I64, i < 0 PROVE AsU64(i) = i + Modulus
<1>1. Modulus \in Nat \ {0} /\ i \in Int /\ i + Modulus \in 0..Modulus-1
  BY CacheStateAssumption DEF Modulus, I64
<1> QED
  BY <1>1 DEF AsU64

\* The two casts restore an i64.
LEMMA RoundTrip == ASSUME NEW i \in I64 PROVE AsI64(AsU64(i)) = i
<1>1. CASE i >= 0
  BY <1>1, AsU64Natural, CacheStateAssumption DEF AsI64, I64, Modulus
<1>2. CASE i < 0
  BY <1>2, AsU64Negative, CacheStateAssumption DEF AsI64, I64, Modulus
<1> QED
  BY <1>1, <1>2, CacheStateAssumption DEF I64

-----------------------------------------------------------------------------
(* The invariant *)

\* What a process restores is an i64, 0 when there is nothing to read.
LEMMA RestoredType == TypeOK => Restored \in I64
BY AsI64Type, CacheStateAssumption DEF TypeOK, Restored, I64

\* Every call changes the gauge by an integer d and the bodies by an integer b for
\* a reason that TypeOK knows, and is exact, makes the gauge only too large, or
\* has a reason outside Over.
CallIs(d, b, why) ==
  /\ Call(d, b, why) /\ why \subseteq Reasons
  /\ why = {} => d = b
  /\ why \subseteq Over => d >= b

LEMMA CallsAre ==
  ASSUME Calls PROVE \E d, b \in Int, why \in SUBSET Reasons : CallIs(d, b, why)
<1> USE DEF CallIs, Reasons, Over
<1>1. ASSUME NEW n \in 1..MaxBytes, Insert(n)
      PROVE  \E d, b \in Int, why \in SUBSET Reasons : CallIs(d, b, why)
  <2>1. n \in Int /\ CallIs(n, n, {})
    BY <1>1, CacheStateAssumption DEF Insert
  <2> QED
    BY <2>1
<1>2. ASSUME NEW n \in 1..MaxBytes, Purge(n)
      PROVE  \E d, b \in Int, why \in SUBSET Reasons : CallIs(d, b, why)
  <2>1. -n \in Int /\ CallIs(-n, -n, {})
    BY <1>2, CacheStateAssumption DEF Purge
  <2> QED
    BY <2>1
<1>3. ASSUME NEW k \in 0..MaxBytes, NEW n \in 0..MaxBytes, Replace(k, n)
      PROVE  \E d, b \in Int, why \in SUBSET Reasons : CallIs(d, b, why)
  <2>1. n \in Int /\ n - k \in Int /\ CallIs(n, n - k, {"replaced"})
    BY <1>3, CacheStateAssumption DEF Replace
  <2> QED
    BY <2>1
<1>4. ASSUME NEW k \in 0..MaxBytes, NEW n \in 0..MaxBytes, PurgeOverlap(k, n)
      PROVE  \E d, b \in Int, why \in SUBSET Reasons : CallIs(d, b, why)
  <2>1. -k \in Int /\ -n \in Int /\ CallIs(-k, -n, {"overlap"})
    BY <1>4, CacheStateAssumption DEF PurgeOverlap
  <2> QED
    BY <2>1
<1>5. ASSUME NEW k \in 0..MaxBytes, NEW n \in 0..MaxBytes, PurgeLate(k, n)
      PROVE  \E d, b \in Int, why \in SUBSET Reasons : CallIs(d, b, why)
  <2>1. -k \in Int /\ -n \in Int /\ CallIs(-k, -n, {"late"})
    BY <1>5, CacheStateAssumption DEF PurgeLate
  <2> QED
    BY <2>1
<1>6. ASSUME NEW k \in 0..MaxBytes, NEW n \in 0..MaxBytes, CopyLate(k, n)
      PROVE  \E d, b \in Int, why \in SUBSET Reasons : CallIs(d, b, why)
  <2>1. n \in Int /\ k \in Int /\ CallIs(n, k, {"late"})
    BY <1>6, CacheStateAssumption DEF CopyLate
  <2> QED
    BY <2>1
<1>7. ASSUME NEW b \in -MaxBytes..MaxBytes, Fail(b)
      PROVE  \E d, bb \in Int, why \in SUBSET Reasons : CallIs(d, bb, why)
  <2>1. 0 \in Int /\ b \in Int /\ CallIs(0, b, {"failed"})
    BY <1>7, CacheStateAssumption DEF Fail
  <2> QED
    BY <2>1
<1> QED
  BY <1>1, <1>2, <1>3, <1>4, <1>5, <1>6, <1>7 DEF Calls

\* TypeOK holds initially and every step keeps it.
LEMMA TypeStep == TypeOK /\ [Next]_vars => TypeOK'
<1> SUFFICES ASSUME TypeOK, [Next]_vars PROVE TypeOK'
  OBVIOUS
<1> USE DEF Reasons
<1>1. CASE Start
  <2>1. starts + 1 \in Nat
    BY DEF TypeOK
  <2>2. warned' \in BOOLEAN /\ early' \in BOOLEAN
    <3>1. max_bytes \in Int /\ AsU64(Restored) \in Int
      BY RestoredType, AsU64Type, CacheStateAssumption DEF Modulus
    <3>2. (max_bytes < AsU64(Restored)) \in BOOLEAN
      BY <3>1
    <3> QED
      BY <1>1, <3>2, Zenon DEF Start
  <2>3. size_bytes' \in I64
    BY <1>1, RestoredType DEF Start
  <2> QED
    BY <1>1, <2>1, <2>2, <2>3 DEF TypeOK, Start, hist
<1>2. CASE StartUnread
  <2>1. 0 \in I64 /\ starts + 1 \in Nat
    BY CacheStateAssumption DEF TypeOK, I64
  <2> QED
    BY <1>2, <2>1 DEF TypeOK, StartUnread
<1>3. CASE Exit \/ Kill
  <2>1. 0 \in I64 /\ 0 \in 0..Modulus-1
    BY CacheStateAssumption DEF I64, Modulus
  <2> QED
    BY <1>3, <2>1 DEF TypeOK, Exit, Kill, Gone
<1>4. CASE Terminate \/ SetClock
  BY <1>4 DEF TypeOK, Terminate, SetClock, hist, Modulus, I64
<1>5. CASE Collect
  BY <1>5, AsU64Type DEF TypeOK, Collect, hist, Modulus, I64
<1>6. CASE CollectPanics \/ OpenState \/ WriteState \/ SaveFails
  BY <1>6 DEF TypeOK, CollectPanics, OpenState, WriteState, SaveFails, hist, Modulus, I64
<1>7. CASE Calls
  <2>1. PICK d \in Int, b \in Int, why \in SUBSET Reasons : CallIs(d, b, why)
    BY <1>7, CallsAre
  <2>2. disk + b \in Nat
    BY <2>1, CacheStateAssumption DEF CallIs, Call
  <2>3. drift' \subseteq Reasons
    BY <2>1 DEF CallIs, Call, TypeOK
  <2> QED
    BY <2>1, <2>2, <2>3 DEF TypeOK, CallIs, Call, Modulus, I64
<1>8. CASE UNCHANGED vars
  BY <1>8 DEF TypeOK, vars, hist, Modulus, I64
<1> QED
  BY <1>1, <1>2, <1>3, <1>4, <1>5, <1>6, <1>7, <1>8 DEF Next, Persist

\* The parts about the persister and the state file: every step keeps them.
Stored == IdleOK /\ SnapshotOK /\ WrittenOK /\ SavedOK

LEMMA StoredStep == TypeOK /\ Stored /\ [Next]_vars => Stored'
<1> SUFFICES ASSUME TypeOK, Stored, [Next]_vars PROVE Stored'
  OBVIOUS
<1> USE DEF Stored, IdleOK, SnapshotOK, WrittenOK, SavedOK
<1>1. CASE Start \/ StartUnread \/ Terminate \/ SetClock
  BY <1>1 DEF Start, StartUnread, Terminate, SetClock, hist
<1>2. CASE Collect \/ CollectPanics \/ SaveFails
  BY <1>2 DEF Collect, CollectPanics, SaveFails
<1>3. CASE OpenState
  BY <1>3 DEF OpenState, hist
<1>4. CASE WriteState
  BY <1>4 DEF WriteState
<1>5. CASE Exit \/ Kill
  BY <1>5 DEF Exit, Kill, Gone
<1>6. CASE Calls
  <2>1. PICK d \in Int, b \in Int, why \in SUBSET Reasons : CallIs(d, b, why)
    BY <1>6, CallsAre
  <2> QED
    BY <2>1 DEF CallIs, Call
<1>7. CASE UNCHANGED vars
  BY <1>7 DEF vars, hist
<1> QED
  BY <1>1, <1>2, <1>3, <1>4, <1>5, <1>6, <1>7 DEF Next, Persist

\* Without a reason the gauge, or what will be restored, is what the bodies are;
\* with the reasons of Over it is not less: every step keeps that.
LEMMA DriftStep == TypeOK /\ Stored /\ DriftOK /\ [Next]_vars => DriftOK'
<1> SUFFICES ASSUME TypeOK, Stored, DriftOK, [Next]_vars, drift' \subseteq Over
             PROVE  DriftOK'
  BY DEF DriftOK
<1> USE DEF DriftOK, Known
<1>1. CASE Start
  <2>1. Restored \in Int /\ disk \in Int
    BY RestoredType DEF TypeOK, I64
  <2> QED
    BY <1>1, <2>1 DEF Start, hist, Stored, IdleOK
<1>2. CASE StartUnread
  BY <1>2 DEF StartUnread, Over
<1>3. CASE Terminate \/ SetClock
  BY <1>3 DEF Terminate, SetClock, hist
<1>4. CASE Collect
  BY <1>4 DEF Collect
<1>10. CASE CollectPanics \/ SaveFails
  <2>1. "failed" \in drift'
    BY <1>10 DEF CollectPanics, SaveFails
  <2> QED
    BY <2>1 DEF Over
<1>5. CASE OpenState \/ WriteState
  BY <1>5 DEF OpenState, WriteState, hist
<1>6. CASE Exit  \* the next process will restore the gauge of the snapshot
  <2>1. /\ drift \subseteq Over /\ persister = "done" /\ phase = "down"
        /\ gauge = size_bytes /\ size_bytes >= disk
        /\ drift = {} => size_bytes = disk
    BY <1>6 DEF Exit
  <2>2. saved = AsU64(gauge)
    BY <2>1 DEF Stored, SnapshotOK, WrittenOK
  <2>3. gauge \in I64 /\ saved \in 0..Modulus-1
    BY <2>2, AsU64Type DEF TypeOK
  <2>4. saved \notin {None, Torn}
    BY <2>3, CacheStateAssumption DEF Modulus
  <2>5. Restored = size_bytes
    BY <2>1, <2>2, <2>3, <2>4, RoundTrip DEF Restored
  <2>6. /\ Restored' = Restored /\ disk' = disk /\ drift' = drift
        /\ persister' = "wait" /\ phase' = "off"
    BY <1>6 DEF Exit, Gone, Restored
  <2> QED
    BY <2>1, <2>5, <2>6
<1>7. CASE Kill
  BY <1>7 DEF Kill, Over
<1>8. CASE Calls
  <2>1. PICK d \in Int, b \in Int, why \in SUBSET Reasons : CallIs(d, b, why)
    BY <1>8, CallsAre
  <2>2. /\ phase \in {"up", "down"} /\ phase' = phase /\ persister' = persister
        /\ size_bytes' = size_bytes + d /\ disk' = disk + b
        /\ drift \subseteq drift' /\ why \subseteq drift'
        /\ persister # "wait" => "after" \in drift'
    BY <2>1 DEF CallIs, Call
  <2>3. /\ drift \subseteq Over /\ why \subseteq Over /\ persister = "wait"
        /\ drift' = {} => drift = {} /\ why = {}
    BY <2>2 DEF Over
  <2>4. d >= b /\ (why = {} => d = b)
    BY <2>1, <2>3 DEF CallIs
  <2>5. size_bytes \in Int /\ disk \in Int
    BY DEF TypeOK, I64
  <2>6. size_bytes >= disk /\ (drift = {} => size_bytes = disk)
    BY <2>2, <2>3
  <2> QED
    BY <2>2, <2>3, <2>4, <2>5, <2>6
<1>9. CASE UNCHANGED vars
  BY <1>9 DEF vars, hist, Restored
<1> QED
  BY <1>1, <1>2, <1>3, <1>4, <1>5, <1>6, <1>7, <1>8, <1>9, <1>10 DEF Next, Persist

LEMMA InvInit == Init => IInv
<1> SUFFICES ASSUME Init PROVE IInv
  OBVIOUS
<1>1. TypeOK
  <2>1. warned \in BOOLEAN /\ early \in BOOLEAN /\ drift \subseteq {}
    BY DEF Init
  <2>2. 0 \in I64 /\ 0 \in 0..Modulus-1
    BY CacheStateAssumption DEF I64, Modulus
  <2> QED
    BY <2>1, <2>2 DEF Init, TypeOK
<1>2. IdleOK /\ SnapshotOK /\ WrittenOK /\ SavedOK /\ DriftOK
  BY DEF Init, IdleOK, SnapshotOK, WrittenOK, SavedOK, DriftOK, Known, Restored
<1> QED
  BY <1>1, <1>2 DEF IInv

LEMMA InvStep == IInv /\ [Next]_vars => IInv'
BY TypeStep, StoredStep, DriftStep DEF IInv, Stored

\* The invariant holds of every behaviour, and with it each of its parts.
THEOREM Invariant == Spec => []IInv
<1>1. IInv /\ [Next]_vars => IInv'
  BY InvStep
<1> QED
  BY InvInit, <1>1, PTL DEF Spec

-----------------------------------------------------------------------------
(* What the runs check *)

\* Every variable has its type, and no cast meets a number it cannot hold.
THEOREM TypeCorrect == Spec => []TypeOK
<1>1. IInv => TypeOK
  BY DEF IInv
<1> QED
  BY Invariant, <1>1, PTL

\* size_bytes differs from the bytes on the disk only for the recorded reasons, and
\* is too small only for those outside Over: src/disk_cache/mod.rs:238-255,
\* src/disk_cache/handle_miss.rs:92-128 and the restarts.
THEOREM SizeExplainedHolds == Spec => []SizeExplained
<1>1. IInv => SizeExplained
  BY DEF IInv, DriftOK, Known, Over, SizeExplained
<1> QED
  BY Invariant, <1>1, PTL

\* fetch_cache_state and the casts of DiskCache::new and of CacheStatistics give
\* back the gauge of the snapshot, negative or not.
THEOREM RestoresGaugeHolds == Spec => RestoresGauge
<1> DEFINE A == Start /\ saved \notin {None, Torn} => size_bytes' = inFile
<1>1. IInv /\ [Next]_vars => [A]_vars
  <2> SUFFICES ASSUME IInv, Start, saved \notin {None, Torn} PROVE size_bytes' = inFile
    OBVIOUS
  <2>1. saved = AsU64(inFile) /\ inFile \in I64
    BY DEF IInv, SavedOK, TypeOK
  <2> QED
    BY <2>1, RoundTrip DEF Start, Restored
<1> QED
  BY Invariant, <1>1, PTL DEF Spec, RestoresGauge

\* DiskCache::new warns exactly if the bytes it finds exceed the capacity while
\* nothing has drifted, and at least then while only the reasons of Over apply.
THEOREM WarnsRightlyHolds == Spec => WarnsRightly
<1> DEFINE A == Start => /\ drift = {} => (warned' <=> max_bytes < disk)
                         /\ drift \subseteq Over /\ max_bytes < disk => warned'
<1>1. IInv /\ [Next]_vars => [A]_vars
  <2> SUFFICES ASSUME IInv, Start, drift \subseteq Over
               PROVE  /\ drift = {} => (warned' <=> max_bytes < disk)
                      /\ max_bytes < disk => warned'
    BY DEF Over
  <2>1. Restored >= disk /\ (drift = {} => Restored = disk)
    BY DEF IInv, DriftOK, Known, Start
  <2>2. Restored \in I64 /\ Restored \in Int /\ disk \in Int /\ disk >= 0
    BY RestoredType DEF IInv, TypeOK, I64
  <2>3. Restored >= 0
    BY <2>1, <2>2
  <2>4. AsU64(Restored) = Restored
    BY <2>2, <2>3, AsU64Natural
  <2>5. warned' = (max_bytes < Restored)
    BY <2>4 DEF Start
  <2>6. max_bytes \in Int
    BY CacheStateAssumption
  <2>7. /\ drift = {} => ((max_bytes < Restored) <=> (max_bytes < disk))
        /\ (max_bytes < disk) => (max_bytes < Restored)
    BY <2>1, <2>2, <2>6
  <2> QED
    BY <2>5, <2>7, Zenon
<1> QED
  BY Invariant, <1>1, PTL DEF Spec, WarnsRightly

=============================================================================
