--------------------------- MODULE HitHandlerProofs ---------------------------
(* Proofs about the hit handler, for any number of readers and any lengths,  *)
(* chunk size, seeks and copies.                                             *)
EXTENDS HitHandlerInv, TLAPS

USE HitHandlerAssumption

\* No handler is open yet.
LEMMA InitInv == Init => IInv
  BY DEF Init, IInv, TypeOK, Handler, Cursor, Ranges, Sound, Fresh

\* Every step keeps the types, whatever the lengths and positions involved.
LEMMA TypeStep == IInv /\ [Next]_vars => TypeOK'
<1> SUFFICES ASSUME IInv, [Next]_vars PROVE TypeOK'
    OBVIOUS
<1> USE DEF IInv, TypeOK, Handler, fileVars, hist
<1>1. ASSUME NEW n \in 1..MaxLen, Grow(n) PROVE TypeOK'
  BY <1>1 DEF Grow
<1>2. CASE Truncate
  BY <1>2 DEF Truncate
<1>3. ASSUME NEW r \in Readers, Open(r) PROVE TypeOK'
  BY <1>3 DEF Open
<1>4. ASSUME NEW r \in Readers, NEW start \in 0..MaxLen, NEW end \in (0..MaxLen) \cup {None},
             Seek(r, start, end)
      PROVE  TypeOK'
  <2> DEFINE e == IF end = None THEN hit[r].total_len ELSE end
  <2>1. start \in Nat /\ e \in Nat
    OBVIOUS
  <2>2. hit' = [hit EXCEPT ![r] = [@ EXCEPT !.range_start = start, !.range_end = e,
                                            !.pending_seek = TRUE]]
    BY <1>4 DEF Seek
  <2> HIDE DEF e
  <2>3. hit' \in [Readers -> Handler]
    <3>1. [hit[r] EXCEPT !.range_start = start, !.range_end = e, !.pending_seek = TRUE]
            \in Handler
      BY <2>1, ZenonT(30) DEF Handler
    <3> QED
      BY <2>2, <3>1
  <2>4. seeks' \in [Readers -> Nat] /\ ended' \in [Readers -> BOOLEAN]
    BY <1>4 DEF Seek
  <2> QED
    BY <1>4, <2>3, <2>4 DEF Seek
<1>5. ASSUME NEW r \in Readers, ReadSeek(r) PROVE TypeOK'
  BY <1>5 DEF ReadSeek
<1>6. ASSUME NEW r \in Readers, ReadNone(r) PROVE TypeOK'
  BY <1>6 DEF ReadNone
<1>7. ASSUME NEW r \in Readers, NEW n \in 1..Chunk, ReadSome(r, n) PROVE TypeOK'
  <2>1. n \in Nat /\ gen \in Nat
    OBVIOUS
  <2>2. hit' \in [Readers -> Handler]
    <3> DEFINE p == hit[r].pos + n
    <3>1. hit' = [hit EXCEPT ![r].pos = p]
      BY <1>7 DEF ReadSome
    <3>2. p \in Nat
      BY <2>1
    <3> HIDE DEF p
    <3> QED
      BY <3>1, <3>2
  <2>3. offset' \in [Readers -> Nat] /\ sent' \in [Readers -> Nat]
    BY <1>7, <2>1 DEF ReadSome
  <2> QED
    BY <1>7, <2>2, <2>3 DEF ReadSome
<1>8. ASSUME NEW r \in Readers, ReadEof(r) PROVE TypeOK'
  BY <1>8, ZenonT(30) DEF ReadEof
<1>9. ASSUME NEW r \in Readers, Finish(r) \/ Drop(r) PROVE TypeOK'
  <2>1. CASE Finish(r)
    BY <2>1 DEF Finish
  <2>2. CASE Drop(r)
    BY <2>2 DEF Drop
  <2> QED
    BY <1>9, <2>1, <2>2
<1>10. CASE UNCHANGED vars
  BY <1>10 DEF vars
<1> QED
  BY <1>1, <1>2, <1>3, <1>4, <1>5, <1>6, <1>7, <1>8, <1>9, <1>10 DEF Next, ReadBody

\* The parts of IInv about readers, as one formula of one reader.
ReaderInv(r) ==
  /\ hit[r].state = "open" /\ ~hit[r].pending_seek =>
       /\ head[r] = hit[r].range_start
       /\ head[r] + sent[r] = offset[r]
       /\ offset[r] <= hit[r].pos
       /\ hit[r].pos # offset[r] => ended[r] /\ hit[r].pos = hit[r].range_end
       /\ ended[r] => hit[r].pos = hit[r].range_end
       /\ hit[r].pos <= hit[r].range_end
       /\ gen = opened[r] => hit[r].pos = offset[r]
  /\ hit[r].state = "open" =>
       /\ hit[r].range_start <= hit[r].range_end
       /\ hit[r].range_end <= hit[r].total_len
       /\ hit[r].pending_seek => ~ended[r]
       /\ opened[r] <= gen
       /\ gen = opened[r] => hit[r].total_len <= len
  /\ hit[r].state = "none" => head[r] = 0 /\ sent[r] = 0 /\ ~ended[r]

\* The invariant is one statement per handler.
LEMMA ReaderInvIsInv ==
  Cursor /\ Ranges /\ Sound /\ Fresh <=> \A r \in Readers : ReaderInv(r)
  BY DEF Cursor, Ranges, Sound, Fresh, ReaderInv

\* A step that leaves a reader alone, and at most lets the file grow.
LEMMA Untouched ==
  ASSUME NEW r \in Readers, TypeOK, ReaderInv(r), len' \in Nat, len <= len', gen' = gen,
         hit'[r] = hit[r], offset'[r] = offset[r], opened'[r] = opened[r],
         head'[r] = head[r], sent'[r] = sent[r], ended'[r] = ended[r]
  PROVE  ReaderInv(r)'
  BY DEF TypeOK, Handler, ReaderInv

\* Every step of a handler, and of the file beneath it, keeps that statement.
LEMMA ReaderStep ==
  ASSUME IInv, [Next]_vars, NEW s \in Readers
  PROVE  ReaderInv(s)'
<1>0. TypeOK /\ ReaderInv(s)
  BY ReaderInvIsInv DEF IInv
<1> USE DEF TypeOK, Handler, fileVars, hist
<1>1. ASSUME NEW n \in 1..MaxLen, Grow(n) PROVE ReaderInv(s)'
  BY <1>0, <1>1, Untouched DEF Grow
<1>2. CASE Truncate
  BY <1>0, <1>2 DEF Truncate, ReaderInv
<1>3. ASSUME NEW r \in Readers, Open(r) PROVE ReaderInv(s)'
  <2>1. CASE r = s
    BY <1>0, <1>3, <2>1 DEF Open, ReaderInv
  <2>2. CASE r # s
    BY <1>0, <1>3, <2>2, Untouched DEF Open
  <2> QED BY <2>1, <2>2
<1>4. ASSUME NEW r \in Readers, NEW start \in 0..MaxLen, NEW end \in (0..MaxLen) \cup {None},
             Seek(r, start, end)
      PROVE  ReaderInv(s)'
  <2>1. CASE r = s
    BY <1>0, <1>4, <2>1 DEF Seek, ReaderInv
  <2>2. CASE r # s
    <3>1. hit'[s] = hit[s] /\ offset'[s] = offset[s] /\ opened'[s] = opened[s]
      BY <1>0, <1>4, <2>2 DEF Seek
    <3>2. head'[s] = head[s] /\ sent'[s] = sent[s] /\ ended'[s] = ended[s]
      BY <1>0, <1>4, <2>2 DEF Seek
    <3>3. gen' = gen /\ len' \in Nat /\ len <= len'
      BY <1>0, <1>4 DEF Seek
    <3> QED
      BY <1>0, <3>1, <3>2, <3>3, Untouched
  <2> QED BY <2>1, <2>2
<1>5. ASSUME NEW r \in Readers, ReadSeek(r) PROVE ReaderInv(s)'
  <2>1. CASE r = s
    BY <1>0, <1>5, <2>1 DEF ReadSeek, ReaderInv
  <2>2. CASE r # s
    BY <1>0, <1>5, <2>2, Untouched DEF ReadSeek
  <2> QED BY <2>1, <2>2
<1>6. ASSUME NEW r \in Readers, ReadNone(r) PROVE ReaderInv(s)'
  <2>1. CASE r = s
    BY <1>0, <1>6, <2>1 DEF ReadNone, Reading, ReaderInv
  <2>2. CASE r # s
    <3>1. hit'[s] = hit[s] /\ offset'[s] = offset[s] /\ opened'[s] = opened[s]
      BY <1>0, <1>6, <2>2 DEF ReadNone
    <3>2. head'[s] = head[s] /\ sent'[s] = sent[s] /\ ended'[s] = ended[s]
      BY <1>0, <1>6, <2>2 DEF ReadNone
    <3>3. gen' = gen /\ len' \in Nat /\ len <= len'
      BY <1>0, <1>6 DEF ReadNone
    <3> QED
      BY <1>0, <3>1, <3>2, <3>3, Untouched
  <2> QED BY <2>1, <2>2
<1>7. ASSUME NEW r \in Readers, NEW n \in 1..Chunk, ReadSome(r, n) PROVE ReaderInv(s)'
  <2>1. CASE r = s
    BY <1>0, <1>7, <2>1 DEF ReadSome, Reading, ToRead, ReaderInv
  <2>2. CASE r # s
    <3>1. hit'[s] = hit[s] /\ offset'[s] = offset[s] /\ opened'[s] = opened[s]
      BY <1>0, <1>7, <2>2 DEF ReadSome
    <3>2. head'[s] = head[s] /\ sent'[s] = sent[s] /\ ended'[s] = ended[s]
      BY <1>0, <1>7, <2>2 DEF ReadSome
    <3>3. gen' = gen /\ len' \in Nat /\ len <= len'
      BY <1>0, <1>7 DEF ReadSome
    <3> QED
      BY <1>0, <3>1, <3>2, <3>3, Untouched
  <2> QED BY <2>1, <2>2
<1>8. ASSUME NEW r \in Readers, ReadEof(r) PROVE ReaderInv(s)'
  <2>1. CASE r = s
    BY <1>0, <1>8, <2>1 DEF ReadEof, Reading, ReaderInv
  <2>2. CASE r # s
    <3>1. hit'[s] = hit[s] /\ offset'[s] = offset[s] /\ opened'[s] = opened[s]
      BY <1>0, <1>8, <2>2 DEF ReadEof
    <3>2. head'[s] = head[s] /\ sent'[s] = sent[s] /\ ended'[s] = ended[s]
      BY <1>0, <1>8, <2>2 DEF ReadEof
    <3>3. gen' = gen /\ len' \in Nat /\ len <= len'
      BY <1>0, <1>8 DEF ReadEof
    <3> QED
      BY <1>0, <3>1, <3>2, <3>3, Untouched
  <2> QED BY <2>1, <2>2
<1>9. ASSUME NEW r \in Readers, Finish(r) \/ Drop(r) PROVE ReaderInv(s)'
  <2>1. CASE r = s
    BY <1>0, <1>9, <2>1 DEF Finish, Drop, ReaderInv
  <2>2. CASE r # s
    BY <1>0, <1>9, <2>2, Untouched DEF Finish, Drop
  <2> QED BY <2>1, <2>2
<1>10. CASE UNCHANGED vars
  BY <1>0, <1>10, Untouched DEF vars
<1> QED
  BY <1>1, <1>2, <1>3, <1>4, <1>5, <1>6, <1>7, <1>8, <1>9, <1>10 DEF Next, ReadBody

\* The inductive step.
LEMMA InvStep == IInv /\ [Next]_vars => IInv'
<1> SUFFICES ASSUME IInv, [Next]_vars PROVE IInv'
    OBVIOUS
<1>1. TypeOK'
  BY TypeStep
<1>2. \A r \in Readers : ReaderInv(r)'
  BY ReaderStep
<1>3. (Cursor /\ Ranges /\ Sound /\ Fresh)'
  BY <1>2 DEF Cursor, Ranges, Sound, Fresh, ReaderInv
<1> QED
  BY <1>1, <1>3 DEF IInv

\* The inductive invariant holds in every reachable state.
THEOREM Invariance == Spec => []IInv
  BY InitInv, InvStep, PTL DEF Spec

\* A client receives consecutive bytes of the range it asked for.
THEOREM InRangeHolds == Spec => []InRange
<1>1. IInv => InRange
  BY DEF IInv, TypeOK, Handler, Cursor, Ranges, InRange
<1> QED
  BY <1>1, Invariance, PTL

\* No early end of a range, unless another object was copied over the file.
THEOREM WholeRangeHolds == Spec => []WholeRange
<1>1. IInv => WholeRange
  BY DEF IInv, TypeOK, Handler, Cursor, Ranges, Sound, WholeRange
<1> QED
  BY <1>1, Invariance, PTL

\* No byte follows a None before the next seek.
THEOREM NoneIsFinalHolds == Spec => NoneIsFinal
<1> DEFINE Final == \A r \in Readers :
      hit[r].state = "open" /\ ended[r] /\ ~hit'[r].pending_seek => sent'[r] = sent[r]
<1>1. IInv /\ [Next]_vars => [Final]_vars
  <2> SUFFICES ASSUME IInv, Next PROVE Final
      OBVIOUS
  <2> SUFFICES ASSUME NEW r \in Readers, hit[r].state = "open", ended[r],
                      ~hit'[r].pending_seek
               PROVE  sent'[r] = sent[r]
      BY DEF Final
  <2>1. TypeOK /\ ReaderInv(r)
    BY ReaderInvIsInv DEF IInv
  <2>2. ASSUME NEW q \in Readers, ReadSeek(q) PROVE sent'[r] = sent[r]
    BY <2>1, <2>2 DEF ReadSeek, ReaderInv, TypeOK, Handler
  <2>3. ASSUME NEW q \in Readers, NEW n \in 1..Chunk, ReadSome(q, n) PROVE sent'[r] = sent[r]
    BY <2>1, <2>3 DEF ReadSome, Reading, ReaderInv, TypeOK, Handler
  <2>4. ASSUME NEW q \in Readers, ReadNone(q) \/ ReadEof(q) PROVE sent' = sent
    BY <2>4 DEF ReadNone, ReadEof, hist
  <2>5. ASSUME NEW q \in Readers, Finish(q) \/ Drop(q) PROVE sent' = sent
    BY <2>5 DEF Finish, Drop, hist
  <2>6. CASE ~\E q \in Readers : \/ ReadBody(q) \/ Finish(q) \/ Drop(q)
    BY <2>6, ZenonT(30) DEF Next, Grow, Truncate, Open, Seek, hist
  <2> QED
    BY <2>2, <2>3, <2>4, <2>5, <2>6 DEF ReadBody
<1>2. Spec => [][Final]_vars
  BY <1>1, Invariance, PTL DEF Spec
<1> QED
  BY <1>2 DEF NoneIsFinal, Final

=============================================================================
