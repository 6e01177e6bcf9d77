---------------------------- MODULE BodyStreamProofs ----------------------------
(***************************************************************************)
(* What a body holds, for any number of miss handlers of a key, of         *)
(* temporary names, of chunks and of renames that fail.                    *)
(***************************************************************************)
EXTENDS BodyStreamInv, SequenceTheorems, TLAPS

-----------------------------------------------------------------------------
(* Types *)

Pcs == {"idle", "body", "eof", "copy", "create", "copying", "meta", "done", "error"}

\* The parts of TypeOK that are about handlers and names.
LEMMA HandlerTypes ==
  TypeOK => /\ pc \in [Handlers -> Pcs] /\ name \in [Handlers -> Names]
            /\ sent \in [Handlers -> 0..MaxChunks]
            /\ tmp \in [Names -> {0} \cup Inodes] /\ dst \in [Handlers -> {0} \cup Inodes]
            /\ src \in [Handlers -> {0} \cup Inodes]
            /\ body \in {0} \cup Inodes /\ reused \subseteq Inodes /\ strayed \subseteq Inodes
            /\ Len(data) \in Nat /\ 0 \notin Inodes /\ Len(data) + 1 \notin Inodes
BY DEF TypeOK, Pcs, Inodes

\* The parts that are about inodes.
LEMMA InodeTypes ==
  TypeOK => /\ DOMAIN data = Inodes
            /\ \A i \in Inodes : data[i] \in Seq(Chunks) /\ Has(i) \subseteq Chunks
            /\ \A i \in Inodes : Gets(i) \subseteq Chunks
            /\ \A w \in flight : w.chunk \in Chunks /\ w.ino \in Inodes
<1> SUFFICES ASSUME TypeOK PROVE
            /\ DOMAIN data = Inodes
            /\ \A i \in Inodes : data[i] \in Seq(Chunks) /\ Has(i) \subseteq Chunks
            /\ \A i \in Inodes : Gets(i) \subseteq Chunks
            /\ \A w \in flight : w.chunk \in Chunks /\ w.ino \in Inodes
  OBVIOUS
<1>1. DOMAIN data = Inodes /\ \A i \in Inodes : data[i] \in Seq(Chunks)
  BY DEF TypeOK, Inodes
<1>2. \A w \in flight : w.chunk \in Chunks /\ w.ino \in Inodes
  BY DEF TypeOK
<1>3. \A i \in Inodes : Has(i) \subseteq Chunks
  BY <1>1 DEF Has
<1> QED
  BY <1>1, <1>2, <1>3 DEF Gets

LEMMA EmptyDomain == DOMAIN <<>> = {}
<1>1. <<>> \in Seq(Chunks) /\ Len(<<>>) = 0
  OBVIOUS
<1> QED
  BY <1>1

\* A new, empty inode.
LEMMA NewInode ==
  ASSUME TypeOK, data' = Append(data, <<>>), flight' = flight
  PROVE  /\ data' \in Seq(Seq(Chunks)) /\ Inodes' = Inodes \cup {Len(data) + 1}
         /\ \A i \in Inodes : data'[i] = data[i] /\ Has(i)' = Has(i) /\ Gets(i)' = Gets(i)
         /\ \A i \in Inodes' \ Inodes : data'[i] = <<>> /\ Has(i)' = {} /\ Gets(i)' = {}
<1>1. data \in Seq(Seq(Chunks)) /\ <<>> \in Seq(Chunks) /\ Len(data) \in Nat
  BY DEF TypeOK
<1>2. data' \in Seq(Seq(Chunks)) /\ Len(data') = Len(data) + 1
  BY <1>1
<1>3. \A i \in Inodes : data'[i] = data[i]
  BY <1>1 DEF Inodes
<1>4. Inodes' = Inodes \cup {Len(data) + 1}
  BY <1>1, <1>2 DEF Inodes
<1>5. \A i \in Inodes : Has(i)' = Has(i) /\ Gets(i)' = Gets(i)
  BY <1>3 DEF Has, Gets
<1>6. ASSUME NEW i \in Inodes' \ Inodes
      PROVE  data'[i] = <<>> /\ Has(i)' = {} /\ Gets(i)' = {}
  <2>1. data'[i] = <<>>
    BY <1>1, <1>4 DEF Inodes
  <2>2. Has(i)' = {}
    <3>1. DOMAIN data'[i] = {}
      BY <2>1, EmptyDomain
    <3> QED
      BY <3>1 DEF Has
  <2>3. \A w \in flight : w.ino # i
    BY InodeTypes
  <2> QED
    BY <2>1, <2>2, <2>3 DEF Gets
<1> QED
  BY <1>2, <1>3, <1>4, <1>5, <1>6

\* An inode that is truncated.
LEMMA Truncated ==
  ASSUME TypeOK, NEW f \in Inodes, data' = [data EXCEPT ![f] = <<>>], flight' = flight
  PROVE  /\ data' \in Seq(Seq(Chunks)) /\ Inodes' = Inodes
         /\ \A i \in Inodes : i # f => data'[i] = data[i] /\ Has(i)' = Has(i)
         /\ data'[f] = <<>> /\ Has(f)' = {}
         /\ \A i \in Inodes : Gets(i)' \subseteq Gets(i)
<1>1. data \in Seq(Seq(Chunks)) /\ <<>> \in Seq(Chunks) /\ f \in 1..Len(data)
  BY DEF TypeOK, Inodes
<1>2. data' \in Seq(Seq(Chunks)) /\ Len(data') = Len(data)
  BY <1>1, ExceptSeq
<1>3. \A i \in Inodes : data'[i] = IF i = f THEN <<>> ELSE data[i]
  BY <1>1 DEF Inodes
<1>4. Inodes' = Inodes
  BY <1>2 DEF Inodes
<1>5. \A i \in Inodes : i # f => Has(i)' = Has(i)
  BY <1>3 DEF Has
<1>6. Has(f)' = {}
  BY <1>3 DEF Has
<1>7. \A i \in Inodes : Gets(i)' \subseteq Gets(i)
  BY <1>5, <1>6 DEF Gets
<1> QED
  BY <1>2, <1>3, <1>4, <1>5, <1>6, <1>7

\* An inode that gets a chunk at its end.
LEMMA Extended ==
  ASSUME TypeOK, NEW f \in Inodes, NEW c \in Chunks,
         data' = [data EXCEPT ![f] = Append(@, c)]
  PROVE  /\ data' \in Seq(Seq(Chunks)) /\ Inodes' = Inodes
         /\ \A i \in Inodes : i # f => data'[i] = data[i] /\ Has(i)' = Has(i)
         /\ data'[f] = Append(data[f], c) /\ Has(f)' = Has(f) \cup {c}
         /\ Len(data[f]) \in Nat /\ DOMAIN data'[f] = 1..(Len(data[f]) + 1)
         /\ \A j \in 1..Len(data[f]) : data'[f][j] = data[f][j] /\ data[f][j] \in Has(f)
         /\ data'[f][Len(data[f]) + 1] = c
<1>1. data \in Seq(Seq(Chunks)) /\ data[f] \in Seq(Chunks) /\ f \in 1..Len(data)
  BY DEF TypeOK, Inodes
<1>2. Append(data[f], c) \in Seq(Chunks)
  BY <1>1
<1>3. data' \in Seq(Seq(Chunks)) /\ Len(data') = Len(data)
  BY <1>1, <1>2, ExceptSeq
<1>4. \A i \in Inodes : data'[i] = IF i = f THEN Append(data[f], c) ELSE data[i]
  BY <1>1 DEF Inodes
<1>5. Inodes' = Inodes
  BY <1>3 DEF Inodes
<1>6. \A i \in Inodes : i # f => Has(i)' = Has(i)
  BY <1>4 DEF Has
<1>7. /\ data'[f] = Append(data[f], c)
      /\ Len(data[f]) \in Nat /\ DOMAIN data'[f] = 1..(Len(data[f]) + 1)
      /\ \A j \in 1..Len(data[f]) : data'[f][j] = data[f][j]
      /\ data'[f][Len(data[f]) + 1] = c
  BY <1>1, <1>4
<1>8. DOMAIN data[f] = 1..Len(data[f]) /\ \A j \in 1..Len(data[f]) : data[f][j] \in Has(f)
  BY <1>1 DEF Has
<1>9. Has(f)' = Has(f) \cup {c}
  <2>1. Has(f) \cup {c} \subseteq Has(f)'
    BY <1>7, <1>8 DEF Has
  <2>2. Has(f)' \subseteq Has(f) \cup {c}
    BY <1>7, <1>8 DEF Has
  <2> QED
    BY <2>1, <2>2
<1> QED
  BY <1>3, <1>4, <1>5, <1>6, <1>7, <1>8, <1>9

\* An inode that a copy writes over from its beginning.
LEMMA Overwritten ==
  ASSUME TypeOK, NEW d \in Inodes, NEW from \in Seq(Chunks), flight' = flight,
         data' = [data EXCEPT ![d] = from \o SubSeq(data[d], Len(from) + 1, Len(data[d]))]
  PROVE  /\ data' \in Seq(Seq(Chunks)) /\ Inodes' = Inodes
         /\ \A i \in Inodes : i # d => /\ data'[i] = data[i]
                                       /\ Has(i)' = Has(i) /\ Gets(i)' = Gets(i)
         /\ \A j \in DOMAIN data'[d] :
              /\ j \in Nat
              /\ j <= Len(from) => j \in DOMAIN from /\ data'[d][j] = from[j]
              /\ j > Len(from) => j \in DOMAIN data[d] /\ data'[d][j] = data[d][j]
<1> DEFINE to == data[d]
           rest == SubSeq(to, Len(from) + 1, Len(to))
           new == from \o rest
<1>1. data \in Seq(Seq(Chunks)) /\ to \in Seq(Chunks) /\ d \in 1..Len(data)
  BY DEF TypeOK, Inodes
<1>2. Len(from) \in Nat /\ Len(to) \in Nat
  BY <1>1
<1>3. /\ rest \in Seq(Chunks)
      /\ Len(rest) = IF Len(from) + 1 <= Len(to) THEN Len(to) - Len(from) ELSE 0
      /\ \A i \in 1..Len(rest) : rest[i] = to[Len(from) + i]
  <2> HIDE DEF to
  <2> QED
    BY <1>1, <1>2
<1>4. /\ new \in Seq(Chunks) /\ Len(new) = Len(from) + Len(rest)
      /\ \A i \in 1..Len(new) :
           new[i] = IF i <= Len(from) THEN from[i] ELSE rest[i - Len(from)]
  <2> HIDE DEF rest
  <2> QED
    BY <1>3, ConcatProperties
<1>5. data' = [data EXCEPT ![d] = new]
  OBVIOUS
<1> HIDE DEF new, rest
<1>6. /\ data' \in Seq(Seq(Chunks)) /\ Len(data') = Len(data)
      /\ \A i \in 1..Len(data) : data'[i] = IF i = d THEN new ELSE data[i]
  <2>1. /\ [data EXCEPT ![d] = new] \in Seq(Seq(Chunks))
        /\ Len([data EXCEPT ![d] = new]) = Len(data)
        /\ \A i \in 1..Len(data) :
             [data EXCEPT ![d] = new][i] = IF i = d THEN new ELSE data[i]
    <3> HIDE DEF to
    <3>1. new \in Seq(Chunks)
      BY <1>4
    <3> QED
      BY <1>1, <3>1, ExceptSeq
  <2> QED
    BY <2>1, <1>5, Zenon
<1>7. \A i \in Inodes : data'[i] = IF i = d THEN new ELSE data[i]
  BY <1>6 DEF Inodes
<1>8. Inodes' = Inodes
  BY <1>6 DEF Inodes
<1>9. \A i \in Inodes : i # d => Has(i)' = Has(i) /\ Gets(i)' = Gets(i)
  BY <1>7 DEF Has, Gets
<1>10. ASSUME NEW j \in DOMAIN new
       PROVE  /\ j \in Nat
              /\ j <= Len(from) => j \in DOMAIN from /\ new[j] = from[j]
              /\ j > Len(from) => j \in DOMAIN to /\ new[j] = to[j]
  <2>1. j \in 1..Len(new) /\ DOMAIN from = 1..Len(from) /\ DOMAIN to = 1..Len(to)
    BY <1>1, <1>4
  <2> HIDE DEF to
  <2>2. CASE j <= Len(from)
    BY <2>1, <2>2, <1>2, <1>4
  <2>3. CASE j > Len(from)
    <3>0. Len(rest) \in Nat
      BY <1>3
    <3>1. new[j] = rest[j - Len(from)] /\ j - Len(from) \in 1..Len(rest)
      BY <2>1, <2>3, <3>0, <1>2, <1>4
    <3>2. rest[j - Len(from)] = to[Len(from) + (j - Len(from))]
      BY <3>1, <1>3
    <3>3. Len(from) + (j - Len(from)) = j /\ j \in 1..Len(to)
      <4>1. Len(rest) = Len(to) - Len(from)
        BY <3>0, <3>1, <1>2, <1>3
      <4> QED
        BY <2>1, <2>3, <3>1, <4>1, <1>2
    <3> QED
      BY <2>1, <2>3, <3>1, <3>2, <3>3, <1>2
  <2> QED
    BY <2>1, <2>2, <2>3, <1>2
<1> QED
  BY <1>6, <1>7, <1>8, <1>9, <1>10

-----------------------------------------------------------------------------
(* TypeOK *)

\* Every step keeps the types.
LEMMA TypeStep == TypeOK /\ CopyOK /\ SourceOK /\ [Next]_vars => TypeOK'
<1> SUFFICES ASSUME TypeOK, CopyOK, SourceOK, [Next]_vars PROVE TypeOK'
  OBVIOUS
<1>t. /\ pc \in [Handlers -> Pcs] /\ name \in [Handlers -> Names]
      /\ sent \in [Handlers -> 0..MaxChunks]
      /\ tmp \in [Names -> {0} \cup Inodes] /\ dst \in [Handlers -> {0} \cup Inodes]
      /\ src \in [Handlers -> {0} \cup Inodes]
      /\ body \in {0} \cup Inodes /\ reused \subseteq Inodes /\ strayed \subseteq Inodes
      /\ Len(data) \in Nat /\ owner \in Handlers /\ faults \in Nat
      /\ shared \cup crowded \cup cut \subseteq Handlers
      /\ flight \subseteq [chunk : Chunks, ino : Inodes] /\ data \in Seq(Seq(Chunks))
  BY HandlerTypes DEF TypeOK
<1>1. ASSUME NEW h \in Handlers, CreateTmp(h) PROVE TypeOK'
  <2>1. pc' \in [Handlers -> Pcs]
    BY <1>t, <1>1 DEF CreateTmp, Goto, Pcs
  <2>2. shared' \cup crowded' \cup cut' \subseteq Handlers
    BY <1>t, <1>1 DEF CreateTmp
  <2>3. UNCHANGED <<body, owner, flight, name, sent, src, dst, faults, crowded, cut, reused, strayed>>
    BY <1>1 DEF CreateTmp
  <2>4. CASE File(h) = 0
    <3>1. data' = Append(data, <<>>) /\ tmp' = [tmp EXCEPT ![name[h]] = Len(data) + 1]
      BY <1>1, <2>4 DEF CreateTmp
    <3>2. data' \in Seq(Seq(Chunks)) /\ Inodes' = Inodes \cup {Len(data) + 1}
      BY <3>1, <2>3, NewInode
    <3>3. /\ tmp' \in [Names -> {0} \cup Inodes'] /\ dst \in [Handlers -> {0} \cup Inodes']
          /\ src \in [Handlers -> {0} \cup Inodes']
      BY <1>t, <3>1, <3>2
    <3> QED
      BY <1>t, <2>1, <2>2, <2>3, <3>2, <3>3 DEF TypeOK, Pcs
  <2>5. CASE File(h) # 0
    <3>1. data' = [data EXCEPT ![File(h)] = <<>>] /\ tmp' = tmp
      BY <1>1, <2>5 DEF CreateTmp
    <3>2. File(h) \in Inodes
      BY <1>t, <2>5 DEF File
    <3>3. data' \in Seq(Seq(Chunks)) /\ Inodes' = Inodes
      BY <3>1, <3>2, <2>3, Truncated
    <3> QED
      BY <1>t, <2>1, <2>2, <2>3, <3>1, <3>3 DEF TypeOK, Pcs
  <2> QED
    BY <2>4, <2>5
<1>2. ASSUME NEW h \in Handlers, WriteBody(h) \/ WriteLast(h) PROVE TypeOK'
  <2> DEFINE c == Chunk(h, sent[h] + 1)
  <2>1. sent[h] + 1 \in 1..MaxChunks
    BY <1>t, <1>2, BodyStreamAssumption DEF WriteBody, WriteLast
  <2>2. c \in Chunks
    BY <2>1 DEF Chunk, Chunks
  <2>3. File(h) \in Inodes
    BY <1>t, <1>2 DEF WriteBody, WriteLast, File
  <2>4. sent' \in [Handlers -> 0..MaxChunks]
    <3>1. sent' = [sent EXCEPT ![h] = sent[h] + 1] /\ sent[h] + 1 \in 0..MaxChunks
      BY <1>2, <2>1 DEF WriteBody, WriteLast
    <3> QED
      BY <1>t, <3>1
  <2>5. pc' \in [Handlers -> Pcs] /\ shared' \cup crowded' \cup cut' \subseteq Handlers
    BY <1>t, <1>2 DEF WriteBody, WriteLast, Goto, Pcs
  <2>6. UNCHANGED <<tmp, body, owner, name, src, dst, faults, reused, strayed>>
    BY <1>2 DEF WriteBody, WriteLast, files
  <2>7. CASE WriteBody(h)
    <3>1. data' = data /\ flight' = flight \cup {[chunk |-> c, ino |-> File(h)]}
      BY <2>7 DEF WriteBody, files
    <3>2. Inodes' = Inodes /\ flight' \subseteq [chunk : Chunks, ino : Inodes]
      BY <1>t, <3>1, <2>2, <2>3 DEF Inodes
    <3> QED
      BY <1>t, <2>4, <2>5, <2>6, <3>1, <3>2 DEF TypeOK, Pcs
  <2>8. CASE WriteLast(h)
    <3>1. data' = [data EXCEPT ![File(h)] = Append(@, c)] /\ flight' = flight
      BY <2>8 DEF WriteLast
    <3>2. data' \in Seq(Seq(Chunks)) /\ Inodes' = Inodes
      BY <3>1, <2>2, <2>3, Extended
    <3> QED
      BY <1>t, <2>4, <2>5, <2>6, <3>1, <3>2 DEF TypeOK, Pcs
  <2> QED
    BY <1>2, <2>7, <2>8
<1>3. ASSUME NEW w \in flight, Land(w) PROVE TypeOK'
  <2>1. w.chunk \in Chunks /\ w.ino \in Inodes
    BY InodeTypes
  <2>2. data' = [data EXCEPT ![w.ino] = Append(@, w.chunk)] /\ flight' = flight \ {w}
    BY <1>3 DEF Land, LandOnce
  <2>3. data' \in Seq(Seq(Chunks)) /\ Inodes' = Inodes
    BY <2>1, <2>2, Extended
  <2>4. flight' \subseteq [chunk : Chunks, ino : Inodes]
    BY <1>t, <2>2
  <2>5. UNCHANGED <<tmp, body, owner, pc, name, sent, src, dst, faults, hist>>
    BY <1>3 DEF Land
  <2> QED
    BY <1>t, <2>3, <2>4, <2>5 DEF TypeOK, Pcs, hist
<1>4. ASSUME NEW h \in Handlers,
             MissingFile(h, {"body", "eof", "copy"}) \/ Rename(h) \/ RenameFails(h) \/ Drop(h)
      PROVE  TypeOK'
  <2>1. pc' \in [Handlers -> Pcs]
    BY <1>t, <1>4 DEF MissingFile, Rename, RenameFails, Drop, Goto, Pcs
  <2>2. tmp' \in [Names -> {0} \cup Inodes]
    BY <1>t, <1>4 DEF MissingFile, Rename, RenameFails, Drop, DropOnly, files
  <2>3. body' \in {0} \cup Inodes /\ owner' \in Handlers /\ faults' \in Nat
    BY <1>t, <1>4 DEF MissingFile, Rename, RenameFails, Drop, File, files
  <2>4. UNCHANGED <<data, flight, name, sent, src, dst, hist>>
    BY <1>4 DEF MissingFile, Rename, RenameFails, Drop, files
  <2>5. Inodes' = Inodes
    BY <2>4 DEF Inodes
  <2> QED
    BY <1>t, <2>1, <2>2, <2>3, <2>4, <2>5 DEF TypeOK, Pcs, hist
<1>5. ASSUME NEW h \in Handlers, CopyOpen(h) PROVE TypeOK'
  <2>1. pc' \in [Handlers -> Pcs] /\ owner' \in Handlers
    BY <1>t, <1>5 DEF CopyOpen, Goto, Pcs
  <2>2. UNCHANGED <<tmp, flight, name, sent, src, faults, shared, crowded, cut, strayed>>
    BY <1>5 DEF CopyOpen
  <2>3. CASE body = 0
    <3>1. data' = Append(data, <<>>) /\ body' = Len(data) + 1 /\ reused' = reused
      BY <1>5, <2>3 DEF CopyOpen
    <3>2. data' \in Seq(Seq(Chunks)) /\ Inodes' = Inodes \cup {Len(data) + 1}
      BY <3>1, <2>2, NewInode
    <3>3. /\ tmp \in [Names -> {0} \cup Inodes'] /\ dst' \in [Handlers -> {0} \cup Inodes']
          /\ src \in [Handlers -> {0} \cup Inodes']
      BY <1>t, <1>5, <3>1, <3>2 DEF CopyOpen
    <3> QED
      BY <1>t, <2>1, <2>2, <3>1, <3>2, <3>3 DEF TypeOK, Pcs
  <2>4. CASE body # 0
    <3>1. data' = [data EXCEPT ![body] = <<>>] /\ body' = body /\ reused' = reused \cup {body}
      BY <1>5, <2>4 DEF CopyOpen
    <3>2. data' \in Seq(Seq(Chunks)) /\ Inodes' = Inodes
      BY <1>t, <3>1, <2>2, <2>4, Truncated
    <3>3. dst' \in [Handlers -> {0} \cup Inodes] /\ reused' \subseteq Inodes
      BY <1>t, <1>5, <2>4, <3>1 DEF CopyOpen
    <3> QED
      BY <1>t, <2>1, <2>2, <3>1, <3>2, <3>3 DEF TypeOK, Pcs
  <2> QED
    BY <2>3, <2>4
<1>6. ASSUME NEW h \in Handlers, Copy(h) PROVE TypeOK'
  <2> DEFINE from == data[src[h]]
  <2>1. from \in Seq(Chunks)
    BY <1>t, <1>6, InodeTypes DEF Copy, Goto, SourceOK
  <2>0. dst[h] \in Inodes
    BY <1>t, <1>6 DEF Copy, Goto, CopyOK
  <2>2. /\ data' = [data EXCEPT ![dst[h]] =
                     from \o SubSeq(data[dst[h]], Len(from) + 1, Len(data[dst[h]]))]
        /\ flight' = flight
    BY <1>6 DEF Copy
  <2> HIDE DEF from
  <2>3. data' \in Seq(Seq(Chunks)) /\ Inodes' = Inodes
    BY <2>0, <2>1, <2>2, Overwritten
  <2>4. pc' \in [Handlers -> Pcs] /\ tmp' \in [Names -> {0} \cup Inodes]
    BY <1>t, <1>6 DEF Copy, Goto, DropOnly, Pcs
  <2>5. shared' \cup crowded' \cup cut' \subseteq Handlers
    BY <1>t, <1>6 DEF Copy
  <2>6. UNCHANGED <<body, owner, flight, name, sent, src, dst, faults, reused>>
    BY <1>6 DEF Copy
  <2>7. strayed' \subseteq Inodes
    BY <1>t, <1>6, <2>0 DEF Copy
  <2> QED
    BY <1>t, <2>3, <2>4, <2>5, <2>6, <2>7 DEF TypeOK, Pcs
<1>9. ASSUME NEW h \in Handlers, CopyFrom(h) PROVE TypeOK'
  <2>1. pc' \in [Handlers -> Pcs] /\ src' \in [Handlers -> {0} \cup Inodes]
    BY <1>t, <1>9 DEF CopyFrom, Goto, Pcs, File
  <2>2. UNCHANGED <<files, flight, name, sent, dst, faults, hist>>
    BY <1>9 DEF CopyFrom
  <2> QED
    BY <1>t, <2>1, <2>2 DEF TypeOK, Pcs, files, hist, Inodes
<1>7. CASE Purge
  <2>1. body' = 0 /\ UNCHANGED <<data, tmp, owner, flight, pc, name, sent, src, dst, faults, hist>>
    BY <1>7 DEF Purge
  <2>2. Inodes' = Inodes
    BY <2>1 DEF Inodes
  <2> QED
    BY <1>t, <2>1, <2>2 DEF TypeOK, Pcs, hist
<1>8. CASE UNCHANGED vars
  BY <1>t, <1>8 DEF TypeOK, Pcs, vars, files, hist, Inodes
<1> QED
  BY <1>1, <1>2, <1>3, <1>4, <1>5, <1>6, <1>7, <1>8, <1>9 DEF Next

-----------------------------------------------------------------------------
(* The steps that leave the chunks where they are *)

\* Without a change to them, what inodes have and get stays as it was.
LEMMA Untouched ==
  ASSUME IInv, UNCHANGED <<data, flight, shared, crowded, reused, strayed>>
  PROVE  /\ Inodes' = Inodes /\ \A i \in Inodes : Gets(i)' = Gets(i) /\ Has(i)' = Has(i)
         /\ OneBodyOK' /\ OnceOK' /\ InOrder'
<1>1. Inodes' = Inodes /\ \A i \in Inodes : Gets(i)' = Gets(i) /\ Has(i)' = Has(i)
  BY DEF Inodes, Gets, Has
<1>2. OneBodyOK'
  BY <1>1 DEF IInv, OneBodyOK
<1>3. OnceOK'
  BY <1>1, InodeTypes DEF IInv, OnceOK
<1>4. InOrder'
  BY DEF IInv, InOrder
<1> QED
  BY <1>1, <1>2, <1>3, <1>4

\* A step that gives a name no inode there is leaves what copies read alone.
LEMMA SourceStep ==
  ASSUME IInv, name' = name, src' = src,
         \A h \in Handlers : pc'[h] \in {"create", "copying"} => pc[h] \in {"create", "copying"},
         \A n \in Names : tmp'[n] \in {tmp[n], 0} \/ tmp'[n] \notin Inodes
  PROVE  SourceOK'
<1> SUFFICES ASSUME NEW h \in Handlers, pc'[h] \in {"create", "copying"}
             PROVE  src[h] # 0 /\ \A n \in Names : tmp'[n] = src[h] => n = name[h]
  BY DEF SourceOK
<1>1. src[h] # 0 /\ \A n \in Names : tmp[n] = src[h] => n = name[h]
  BY DEF IInv, SourceOK
<1>2. src[h] \in Inodes
  BY <1>1, HandlerTypes DEF IInv
<1> QED
  BY <1>1, <1>2

\* The copy opens the temporary file.
LEMMA CopyFromStep ==
  ASSUME IInv, TypeOK', NEW h \in Handlers, CopyFrom(h)
  PROVE  IInv'
<1>t. pc \in [Handlers -> Pcs] /\ name \in [Handlers -> Names] /\ src \in [Handlers -> {0} \cup Inodes]
  BY HandlerTypes DEF IInv
<1>1. UNCHANGED <<data, tmp, body, flight, name, sent, dst, shared, crowded, reused, strayed>>
  BY DEF CopyFrom, files, hist
<1>2. /\ Inodes' = Inodes /\ \A i \in Inodes : Gets(i)' = Gets(i)
      /\ OneBodyOK' /\ OnceOK' /\ InOrder'
  BY <1>1, Untouched
<1>3. /\ \A g \in Handlers \ {h} : pc'[g] = pc[g] /\ src'[g] = src[g]
      /\ pc[h] = "copy" /\ pc'[h] = "create" /\ src'[h] = tmp[name[h]] /\ tmp[name[h]] # 0
  BY <1>t DEF CopyFrom, Goto, File
<1>4. \A g \in Handlers : /\ Alive(g)' <=> Alive(g)
                          /\ Writing(g)' <=> Writing(g)
                          /\ pc'[g] = "copying" <=> pc[g] = "copying"
                          /\ pc'[g] = "idle" <=> pc[g] = "idle"
                          /\ pc'[g] = "error" <=> pc[g] = "error"
  BY <1>3 DEF Alive, Writing
<1>5. TmpOK' /\ SharedOK'
  BY <1>1, <1>4 DEF IInv, TmpOK, SharedOK
<1>6. OwnFileOK'
  BY <1>1, <1>2, <1>4 DEF IInv, OwnFileOK, File
<1>7. WritersOK'
  <2>1. \A n \in Names : tmp[n] # 0 => \A c \in Gets(tmp[n]) : c.of \in Handlers
    BY HandlerTypes, InodeTypes DEF IInv, Chunks
  <2>2. \A n \in Names : tmp[n] # 0 => tmp[n] \in Inodes
    BY HandlerTypes DEF IInv
  <2> QED
    BY <1>1, <1>2, <1>4, <2>1, <2>2 DEF IInv, WritersOK
<1>8. SentOK'
  BY <1>1, <1>2, <1>4 DEF IInv, SentOK
<1>9. SourceOK'
  <2> SUFFICES ASSUME NEW g \in Handlers, pc'[g] \in {"create", "copying"}
               PROVE  src'[g] # 0 /\ \A n \in Names : tmp[n] = src'[g] => n = name[g]
    BY <1>1 DEF SourceOK
  <2>1. CASE g = h
    BY <1>t, <1>3, <2>1 DEF IInv, TmpOK
  <2>2. CASE g # h
    BY <1>3, <2>2 DEF IInv, SourceOK
  <2> QED
    BY <2>1, <2>2
<1>10. CopyOK'
  BY <1>1, <1>2, <1>4, HandlerTypes DEF IInv, CopyOK
<1>11. ApartOK'
  <2>1. Targets' = Targets /\ Targets \subseteq Inodes
    BY <1>1, <1>4, HandlerTypes DEF IInv, Targets, CopyOK
  <2>2. \A n \in Names : tmp[n] # 0 => tmp[n] \in Inodes
    BY HandlerTypes DEF IInv
  <2> QED
    BY <1>1, <1>2, <2>1, <2>2 DEF IInv, ApartOK
<1> QED
  BY <1>2, <1>5, <1>6, <1>7, <1>8, <1>9, <1>10, <1>11 DEF IInv

\* Rename and RenameFails, and the ends of a handler.
LEMMA HandlerStep ==
  ASSUME IInv, TypeOK', NEW h \in Handlers,
         MissingFile(h, {"body", "eof", "copy"}) \/ Rename(h) \/ RenameFails(h) \/ Drop(h)
  PROVE  IInv'
<1>t. /\ pc \in [Handlers -> Pcs] /\ name \in [Handlers -> Names]
      /\ tmp \in [Names -> {0} \cup Inodes] /\ dst \in [Handlers -> {0} \cup Inodes]
      /\ 0 \notin Inodes
  BY HandlerTypes DEF IInv
<1>1. UNCHANGED <<data, flight, name, sent, src, dst, shared, crowded, reused, strayed>>
  BY DEF MissingFile, Rename, RenameFails, Drop, files, hist
<1>2. /\ Inodes' = Inodes /\ \A i \in Inodes : Gets(i)' = Gets(i)
      /\ OneBodyOK' /\ OnceOK' /\ InOrder'
  BY <1>1, Untouched
<1>3. \A i \in Inodes : Gets(i) \subseteq Chunks
  BY InodeTypes DEF IInv
<1>4. \A g \in Handlers \ {h} : pc'[g] = pc[g]
  BY <1>t DEF MissingFile, Rename, RenameFails, Drop, Goto
<1>5. pc[h] \in {"body", "eof", "copy", "meta"} /\ pc'[h] \in {"copy", "meta", "done", "error"}
  BY <1>t DEF MissingFile, Rename, RenameFails, Drop, Goto
\* Either it keeps its file, or there is none under its name any more.
<1>6. \/ /\ RenameFails(h) /\ UNCHANGED <<tmp, body>>
         /\ pc[h] \in {"body", "eof"} /\ pc'[h] = "copy"
      \/ /\ ~RenameFails(h) /\ pc'[h] \in {"meta", "done", "error"}
         /\ \A n \in Names : tmp'[n] = IF n = name[h] THEN 0 ELSE tmp[n]
  <2>1. CASE RenameFails(h)
    BY <1>t, <2>1 DEF RenameFails, Goto, files
  <2>2. CASE ~RenameFails(h)
    BY <1>t, <2>2 DEF MissingFile, Rename, Drop, Goto, DropOnly
  <2> QED
    BY <2>1, <2>2
\* An end without a name to keep: it was renamed, or it drops.
<1>7. pc'[h] = "error" => File(h) = 0 /\ pc[h] \in {"body", "eof", "copy"}
  BY <1>t DEF MissingFile, Rename, RenameFails, Drop, Goto
<1>9. body' = body \/ (body' = File(h) /\ File(h) # 0 /\ ~RenameFails(h))
  BY <1>t DEF MissingFile, Rename, RenameFails, Drop, files
<1>a. Alive(h) /\ \A g \in Handlers \ {h} : Alive(g)' <=> Alive(g)
  BY <1>4, <1>5 DEF Alive
<1>b. \A g \in Handlers : pc'[g] = "copying" <=> pc[g] = "copying"
  BY <1>4, <1>5
\* Nobody shares a name with a handler that is not known to share its name.
<1>c. \A g \in Handlers \ {h} : Alive(g) /\ name[g] = name[h] => g \in shared /\ h \in shared
  BY <1>a DEF IInv, SharedOK
<1>10. TmpOK'
  <2> SUFFICES ASSUME NEW n \in Names, tmp'[n] # 0
               PROVE  /\ \E g \in Handlers : Alive(g)' /\ name[g] = n
                      /\ \A m \in Names : tmp'[m] = tmp'[n] => m = n
                      /\ tmp'[n] # body' /\ tmp'[n] \notin reused \cup strayed
                      /\ \A g \in Handlers : tmp'[n] # dst[g]
    BY <1>1 DEF TmpOK
  <2>1. tmp'[n] = tmp[n] /\ (n # name[h] \/ RenameFails(h))
    BY <1>6
  <2>2. /\ \E g \in Handlers : Alive(g) /\ name[g] = n
        /\ \A m \in Names : tmp[m] = tmp[n] => m = n
        /\ tmp[n] # body /\ tmp[n] \notin reused \cup strayed
        /\ \A g \in Handlers : tmp[n] # dst[g]
    BY <2>1 DEF IInv, TmpOK
  <2>3. \E g \in Handlers : Alive(g)' /\ name[g] = n
    <3>1. PICK g \in Handlers : Alive(g) /\ name[g] = n
      BY <2>2
    <3>2. CASE g # h
      BY <3>1, <3>2, <1>a
    <3>3. CASE g = h
      BY <3>1, <3>3, <2>1, <1>6 DEF Alive
    <3> QED
      BY <3>2, <3>3
  <2>4. \A m \in Names : tmp'[m] = tmp'[n] => m = n
    BY <2>1, <2>2, <1>6
  <2>5. tmp'[n] # body'
    BY <1>t, <2>1, <2>2, <1>9 DEF File
  <2> QED
    BY <2>1, <2>2, <2>3, <2>4, <2>5
<1>11. SharedOK'
  BY <1>1, <1>a, <1>c DEF IInv, SharedOK
<1>12. OwnFileOK'
  <2> SUFFICES ASSUME NEW g \in Handlers, g \notin shared
               PROVE  /\ pc'[g] # "error"
                      /\ Writing(g)' =>
                           /\ tmp'[name[g]] # 0
                           /\ \A i \in Inodes : \A c \in Gets(i) : c.of = g => i = tmp'[name[g]]
    BY <1>1, <1>2 DEF OwnFileOK, File
  <2>1. /\ pc[g] # "error"
        /\ Writing(g) => /\ tmp[name[g]] # 0
                         /\ \A i \in Inodes : \A c \in Gets(i) : c.of = g => i = tmp[name[g]]
    BY DEF IInv, OwnFileOK, File
  <2>2. CASE g # h
    <3>1. Writing(g)' => Writing(g) /\ Alive(g)
      BY <2>2, <1>4 DEF Writing, Alive
    <3>2. Writing(g)' => tmp'[name[g]] = tmp[name[g]]
      BY <1>t, <3>1, <1>c, <1>6, <2>2
    <3> QED
      BY <2>1, <2>2, <3>1, <3>2, <1>4
  <2>3. CASE g = h
    BY <2>1, <2>3, <1>5, <1>6, <1>7 DEF Writing, File
  <2> QED
    BY <2>2, <2>3
<1>13. WritersOK'
  <2> SUFFICES ASSUME NEW n \in Names, tmp'[n] # 0, NEW c \in Gets(tmp[n]), tmp'[n] = tmp[n]
               PROVE  Alive(c.of)' /\ name[c.of] = n
    BY <1>t, <1>1, <1>2, <1>6 DEF WritersOK
  <2>1. Alive(c.of) /\ name[c.of] = n
    BY DEF IInv, WritersOK
  <2>2. c.of \in Handlers
    BY <1>t, <1>3 DEF Chunks
  <2>3. CASE c.of # h
    BY <2>1, <2>2, <2>3, <1>a
  <2>4. CASE c.of = h
    BY <2>1, <2>4, <1>6 DEF Alive
  <2> QED
    BY <2>1, <2>3, <2>4
<1>14. SentOK'
  BY <1>1, <1>2, <1>4, <1>5 DEF IInv, SentOK
<1>15. CopyOK'
  BY <1>t, <1>1, <1>2, <1>b DEF IInv, CopyOK
<1>16. ApartOK'
  <2> SUFFICES ASSUME NEW n \in Names, tmp'[n] # 0, NEW i \in Targets' \ strayed
               PROVE  Gets(tmp[n]) \cap Gets(i) = {} /\ tmp'[n] = tmp[n] /\ i \in Inodes
    BY <1>t, <1>1, <1>2 DEF ApartOK
  <2>1. tmp'[n] = tmp[n] /\ (n # name[h] \/ RenameFails(h)) /\ tmp[n] \in Inodes
    BY <1>t, <1>6
  <2>2. CASE i \in Targets
    <3>1. i \in Inodes
      BY <2>2, <1>t, HandlerTypes DEF IInv, Targets, CopyOK
    <3> QED
      BY <2>1, <2>2, <3>1 DEF IInv, ApartOK
  <2>3. CASE i \notin Targets  \* the file just renamed
    <3>1. i = File(h) /\ i # 0 /\ n # name[h]
      BY <2>1, <2>3, <1>1, <1>9, <1>b DEF Targets
    <3>2. \A c \in Gets(tmp[n]) : name[c.of] = n
      BY <2>1 DEF IInv, WritersOK
    <3>3. \A c \in Gets(i) : name[c.of] = name[h]
      BY <1>t, <3>1 DEF IInv, WritersOK, File
    <3>4. i \in Inodes
      BY <1>t, <3>1 DEF File
    <3> QED
      BY <2>1, <3>1, <3>2, <3>3, <3>4
  <2> QED
    BY <2>2, <2>3
<1>17. SourceOK'
  BY <1>1, <1>4, <1>5, <1>6, SourceStep
<1> QED
  BY <1>2, <1>10, <1>11, <1>12, <1>13, <1>14, <1>15, <1>16, <1>17 DEF IInv

LEMMA PurgeStep ==
  ASSUME IInv, TypeOK', Purge
  PROVE  IInv'
<1>t. tmp \in [Names -> {0} \cup Inodes]
  BY HandlerTypes DEF IInv
<1>1. UNCHANGED <<data, tmp, flight, pc, name, sent, src, dst, shared, crowded, reused, strayed>> /\ body' = 0
  BY DEF Purge, hist
<1>2. /\ Inodes' = Inodes /\ \A i \in Inodes : Gets(i)' = Gets(i)
      /\ OneBodyOK' /\ OnceOK' /\ InOrder'
  BY <1>1, Untouched
<1>3. TmpOK' /\ SharedOK' /\ OwnFileOK'
  BY <1>1, <1>2 DEF IInv, TmpOK, SharedOK, OwnFileOK, Alive, Writing, File
<1>4. WritersOK' /\ SentOK'
  BY <1>t, <1>1, <1>2 DEF IInv, WritersOK, SentOK, Alive
<1>5. CopyOK'
  BY <1>1, <1>2, HandlerTypes DEF IInv, CopyOK
<1>6. ApartOK'
  <2>1. Targets' \subseteq Targets /\ Targets \subseteq Inodes
    BY <1>1, HandlerTypes DEF IInv, Targets, CopyOK
  <2> QED
    BY <1>t, <1>1, <1>2, <2>1 DEF IInv, ApartOK
<1>7. SourceOK'
  BY <1>1, SourceStep
<1> QED
  BY <1>2, <1>3, <1>4, <1>5, <1>6, <1>7 DEF IInv

LEMMA StutterStep ==
  ASSUME IInv, UNCHANGED vars
  PROVE  IInv'
<1>1. UNCHANGED <<data, tmp, body, owner, flight, pc, name, sent, src, dst, faults,
                  shared, crowded, cut, reused, strayed>>
  BY DEF vars, files, hist
<1>2. TypeOK'
  BY <1>1 DEF IInv, TypeOK, Inodes
<1>3. OneBodyOK' /\ OnceOK' /\ InOrder'
  BY <1>1, Untouched
<1>4. TmpOK' /\ SharedOK' /\ OwnFileOK' /\ WritersOK'
  BY <1>1 DEF IInv, TmpOK, SharedOK, OwnFileOK, WritersOK, Alive, Writing, File, Gets, Has,
              Inodes
<1>5. Inodes' = Inodes /\ \A i \in Inodes : Gets(i)' = Gets(i)
  BY <1>1, Untouched
<1>6. SentOK'
  BY <1>1, <1>5 DEF IInv, SentOK
<1>7. CopyOK'
  BY <1>1, <1>5, HandlerTypes DEF IInv, CopyOK
<1>8. ApartOK'
  BY <1>1, <1>5, HandlerTypes DEF IInv, ApartOK, Targets, CopyOK
<1>9. SourceOK'
  BY <1>1, SourceStep
<1> QED
  BY <1>2, <1>3, <1>4, <1>6, <1>7, <1>8, <1>9 DEF IInv

-----------------------------------------------------------------------------
(* The steps that give an inode a chunk *)

\* InOrder of a file that gets chunk c: c must come after what it has.
LEMMA InOrderExtended ==
  ASSUME TypeOK, InOrder, NEW f \in Inodes, NEW c \in Chunks,
         data' = [data EXCEPT ![f] = Append(@, c)],
         shared' = shared, reused' = reused, strayed' = strayed, crowded \subseteq crowded',
         f \in strayed \/ c \notin Has(f),
         f \in strayed \/ \A x \in Has(f) : x.of = c.of /\ c.of \notin crowded' => x.n < c.n
  PROVE  InOrder'
<1> DEFINE l == Len(data[f])
<1>1. /\ Inodes' = Inodes /\ DOMAIN data' = Inodes
      /\ \A i \in Inodes : i # f => data'[i] = data[i]
      /\ l \in Nat /\ DOMAIN data'[f] = 1..(l + 1)
      /\ \A j \in 1..l : data'[f][j] = data[f][j] /\ data[f][j] \in Has(f)
      /\ data'[f][l + 1] = c
  <2>1. data' \in Seq(Seq(Chunks)) /\ Inodes' = Inodes
    BY Extended
  <2>2. DOMAIN data' = Inodes
    BY <2>1 DEF Inodes
  <2> QED
    BY <2>1, <2>2, Extended
<1>2. DOMAIN data = Inodes /\ DOMAIN data[f] = 1..l
  BY InodeTypes
<1>3. \A i \in Inodes : \A j \in DOMAIN data[i] : data[i][j] \in Chunks
  BY InodeTypes
<1> HIDE DEF l
<1> SUFFICES ASSUME NEW ino \in Inodes \ strayed, NEW i \in DOMAIN data'[ino], NEW j \in DOMAIN data'[ino],
                    i < j, data'[ino][i].of = data'[ino][j].of
             PROVE  IF data'[ino][i].of \in crowded' \/ (data'[ino][i].of \in shared /\ ino \in reused)
                    THEN data'[ino][i] # data'[ino][j] ELSE data'[ino][i].n < data'[ino][j].n
  BY <1>1 DEF InOrder
<1>4. CASE ino # f \/ (ino = f /\ j <= l)
  <2>1. /\ i \in DOMAIN data[ino] /\ j \in DOMAIN data[ino]
        /\ data'[ino][i] = data[ino][i] /\ data'[ino][j] = data[ino][j]
    BY <1>1, <1>2, <1>4
  <2>2. IF data[ino][i].of \in crowded \/ (data[ino][i].of \in shared /\ ino \in reused)
        THEN data[ino][i] # data[ino][j] ELSE data[ino][i].n < data[ino][j].n
    BY <1>2, <2>1 DEF InOrder
  <2>3. data[ino][i].n < data[ino][j].n => data[ino][i] # data[ino][j]
    BY <1>3, <2>1 DEF Chunks
  <2> QED
    BY <2>1, <2>2, <2>3
<1>5. CASE ino = f /\ j > l
  <2>1. j = l + 1 /\ i \in 1..l
    BY <1>1, <1>5
  <2>2. data'[ino][j] = c /\ data'[ino][i] \in Has(f)
    BY <1>1, <1>5, <2>1
  <2>3. c \notin Has(f) /\ \A x \in Has(f) : x.of = c.of /\ c.of \notin crowded' => x.n < c.n
    BY <1>5
  <2> QED
    BY <2>2, <2>3
<1> QED
  BY <1>1, <1>4, <1>5

\* WriteBody and WriteLast.
LEMMA WriteStep ==
  ASSUME IInv, TypeOK', NEW h \in Handlers, WriteBody(h) \/ WriteLast(h)
  PROVE  IInv'
<1>t. /\ pc \in [Handlers -> Pcs] /\ name \in [Handlers -> Names]
      /\ sent \in [Handlers -> 0..MaxChunks]
      /\ tmp \in [Names -> {0} \cup Inodes] /\ dst \in [Handlers -> {0} \cup Inodes]
      /\ body \in {0} \cup Inodes /\ 0 \notin Inodes
  BY HandlerTypes DEF IInv
<1>1. UNCHANGED <<tmp, body, name, src, dst, shared, reused, strayed>>
  BY DEF WriteBody, WriteLast, files
<1>f. PICK f \in Inodes : f = File(h)
  BY <1>t DEF WriteBody, WriteLast, File
<1>g. PICK c \in Chunks : c = Chunk(h, sent[h] + 1)
  <2>1. sent[h] + 1 \in 1..MaxChunks
    BY <1>t, BodyStreamAssumption DEF WriteBody, WriteLast
  <2> QED
    BY <2>1 DEF Chunk, Chunks
<1>2. f \in Inodes /\ f = tmp[name[h]] /\ name[h] \in Names
  BY <1>t, <1>f DEF File
<1>3. c \in Chunks /\ c.of = h /\ c.n = sent[h] + 1
  BY <1>g DEF Chunk
<1>4. /\ \A g \in Handlers \ {h} : pc'[g] = pc[g]
      /\ pc[h] = "body" /\ pc'[h] \in {"body", "eof"}
  BY <1>t DEF WriteBody, WriteLast, Goto
<1>5. \A g \in Handlers : sent'[g] = IF g = h THEN sent[h] + 1 ELSE sent[g]
  BY <1>t DEF WriteBody, WriteLast
<1>6. crowded \subseteq crowded' /\ (InFlight(h) # {} => h \in crowded')
  BY DEF WriteBody, WriteLast
<1>7. \/ /\ data' = data /\ flight' = flight \cup {[chunk |-> c, ino |-> f]}
         /\ Inodes' = Inodes /\ \A i \in Inodes : Has(i)' = Has(i)
      \/ /\ data' = [data EXCEPT ![f] = Append(@, c)] /\ flight' = flight
         /\ Inodes' = Inodes
         /\ \A i \in Inodes : Has(i)' = IF i = f THEN Has(i) \cup {c} ELSE Has(i)
  <2>1. CASE WriteBody(h)
    BY <1>f, <1>g, <2>1 DEF WriteBody, files, Inodes, Has
  <2>2. CASE WriteLast(h)
    <3>1. data' = [data EXCEPT ![f] = Append(@, c)] /\ flight' = flight
      BY <1>f, <1>g, <2>2 DEF WriteLast
    <3> QED
      BY <3>1, Extended DEF IInv
  <2> QED
    BY <2>1, <2>2
<1>8. \A i \in Inodes : Gets(i)' = IF i = f THEN Gets(i) \cup {c} ELSE Gets(i)
  <2>1. CASE data' = data /\ flight' = flight \cup {[chunk |-> c, ino |-> f]}
    <3>1. \A i \in Inodes : Has(i)' = Has(i)
      BY <2>1 DEF Has
    <3>2. ASSUME NEW i \in Inodes
          PROVE  Gets(i)' = Has(i) \cup {w.chunk : w \in {v \in flight' : v.ino = i}}
      BY <3>1 DEF Gets
    <3>3. ASSUME NEW i \in Inodes, i # f
          PROVE  {v \in flight' : v.ino = i} = {v \in flight : v.ino = i}
      BY <2>1, <3>3
    <3>4. {v \in flight' : v.ino = f} = {v \in flight : v.ino = f} \cup {[chunk |-> c, ino |-> f]}
      BY <2>1
    <3>5. {w.chunk : w \in {v \in flight' : v.ino = f}}
          = {w.chunk : w \in {v \in flight : v.ino = f}} \cup {c}
      <4> DEFINE F == {v \in flight : v.ino = f}
                 G == {v \in flight' : v.ino = f}
                 w0 == [chunk |-> c, ino |-> f]
      <4>1. G = F \cup {w0} /\ w0.chunk = c
        BY <3>4
      <4> HIDE DEF F, G, w0
      <4>2. {w.chunk : w \in G} = {w.chunk : w \in F} \cup {w0.chunk}
        BY <4>1
      <4> QED
        BY <4>1, <4>2 DEF F, G
    <3>6. Gets(f)' = Gets(f) \cup {c}
      BY <3>2, <3>5 DEF Gets
    <3>7. \A i \in Inodes : i # f => Gets(i)' = Gets(i)
      BY <3>2, <3>3 DEF Gets
    <3> QED
      BY <3>6, <3>7
  <2>2. CASE flight' = flight /\ \A i \in Inodes : Has(i)' = IF i = f THEN Has(i) \cup {c} ELSE Has(i)
    BY <2>2 DEF Gets
  <2> QED
    BY <1>7, <2>1, <2>2
<1>9. Inodes' = Inodes /\ \A i \in Inodes : Gets(i) \subseteq Chunks /\ Has(i) \subseteq Gets(i)
  BY <1>7, InodeTypes DEF IInv, Gets
<1>a. \A g \in Handlers : /\ Alive(g)' <=> Alive(g)
                          /\ Writing(g)' <=> Writing(g)
                          /\ pc'[g] = "copying" <=> pc[g] = "copying"
                          /\ pc'[g] = "idle" <=> pc[g] = "idle"
                          /\ pc'[g] = "error" <=> pc[g] = "error"
  BY <1>4 DEF Alive, Writing
\* The chunk is new.
<1>b. \A i \in Inodes : c \notin Gets(i)
  <2> SUFFICES ASSUME NEW i \in Inodes, c \in Gets(i) PROVE FALSE
    OBVIOUS
  <2>1. c.n <= sent[c.of]
    BY DEF IInv, SentOK
  <2> QED
    BY <1>t, <1>3, <2>1
\* A handler that writes to the same file is known to share the name.
<1>c. \A x \in Gets(f) : x.of # h => x.of \in shared /\ h \in shared
  <2> SUFFICES ASSUME NEW x \in Gets(f), x.of # h PROVE x.of \in shared /\ h \in shared
    OBVIOUS
  <2>1. Alive(x.of) /\ name[x.of] = name[h] /\ x.of \in Handlers
    BY <1>t, <1>2, <1>9 DEF IInv, WritersOK, Chunks
  <2>2. Alive(h)
    BY <1>4 DEF Alive
  <2> QED
    BY <2>1, <2>2 DEF IInv, SharedOK
<1>d. f \notin Targets /\ f \notin reused \cup strayed /\ \A g \in Handlers : dst[g] # f
  BY <1>t, <1>2 DEF IInv, TmpOK, Targets
<1>e. \A n \in Names : tmp[n] = f => n = name[h]
  BY <1>t, <1>2 DEF IInv, TmpOK
<1>10. TmpOK'
  BY <1>1, <1>a DEF IInv, TmpOK
<1>11. SharedOK'
  BY <1>1, <1>a DEF IInv, SharedOK
<1>12. OwnFileOK'
  <2> SUFFICES ASSUME NEW g \in Handlers, g \notin shared, Writing(g)
               PROVE  /\ tmp[name[g]] # 0
                      /\ \A i \in Inodes : \A x \in Gets(i)' : x.of = g => i = tmp[name[g]]
    <3>1. \A g \in Handlers \ shared : pc'[g] # "error"
      BY <1>a DEF IInv, OwnFileOK
    <3> QED
      BY <1>1, <1>9, <1>a, <3>1 DEF OwnFileOK, File
  <2>1. /\ tmp[name[g]] # 0
        /\ \A i \in Inodes : \A x \in Gets(i) : x.of = g => i = tmp[name[g]]
    BY DEF IInv, OwnFileOK, File
  <2> QED
    BY <1>2, <1>3, <1>8, <2>1
<1>13. WritersOK'
  <2> SUFFICES ASSUME NEW n \in Names, tmp[n] # 0, NEW x \in Gets(tmp[n]) \cup {c},
                      x \in Gets(tmp[n]) \/ tmp[n] = f
               PROVE  Alive(x.of)' /\ name[x.of] = n
    BY <1>t, <1>1, <1>8 DEF WritersOK
  <2>1. CASE x \in Gets(tmp[n])
    <3>1. Alive(x.of) /\ name[x.of] = n /\ x.of \in Handlers
      BY <1>t, <1>9, <2>1 DEF IInv, WritersOK, Chunks
    <3> QED
      BY <3>1, <1>a
  <2>2. CASE x = c /\ tmp[n] = f
    BY <1>3, <1>4, <1>e, <2>2 DEF Alive
  <2> QED
    BY <2>1, <2>2
<1>14. SentOK'
  <2>1. ASSUME NEW i \in Inodes, NEW x \in Gets(i)' PROVE x.n <= sent'[x.of]
    <3>1. CASE x \in Gets(i)
      <4>1. x.n <= sent[x.of] /\ x.of \in Handlers /\ x.n \in Nat
        BY <1>9, <3>1 DEF IInv, SentOK, Chunks
      <4> QED
        BY <4>1, <1>t, <1>5
    <3>2. CASE x = c
      BY <1>t, <1>3, <1>5, <3>2
    <3> QED
      BY <1>8, <3>1, <3>2
  <2>2. \A g \in Handlers : pc'[g] = "idle" => sent'[g] = 0
    BY <1>4, <1>5, <1>a DEF IInv, SentOK
  <2>3. ASSUME NEW w \in flight', w.chunk.of \notin crowded' PROVE w.chunk.n = sent'[w.chunk.of]
    <3>1. CASE w \in flight
      <4>1. w.chunk.of \notin crowded /\ w.chunk.of # h
        BY <1>6, <2>3, <3>1 DEF InFlight
      <4>2. w.chunk.of \in Handlers
        BY <3>1, InodeTypes DEF IInv, Chunks
      <4> QED
        BY <3>1, <4>1, <4>2, <1>5 DEF IInv, SentOK
    <3>2. CASE w = [chunk |-> c, ino |-> f]
      BY <3>2, <1>3, <1>5
    <3> QED
      BY <1>7, <3>1, <3>2
  <2> QED
    BY <1>9, <2>1, <2>2, <2>3 DEF SentOK
<1>15. OneBodyOK'
  <2> SUFFICES ASSUME NEW i \in Inodes \ (reused \cup strayed), NEW x \in Gets(i)', NEW y \in Gets(i)', x.of # y.of
               PROVE  x.of \in shared
    BY <1>1, <1>9 DEF OneBodyOK
  <2>1. CASE x \in Gets(i) /\ y \in Gets(i)
    BY <2>1 DEF IInv, OneBodyOK
  <2>2. CASE i = f /\ (x = c \/ y = c)
    BY <1>3, <1>8, <1>c, <2>2
  <2> QED
    BY <1>8, <2>1, <2>2
<1>16. CopyOK'
  <2>1. \A g \in Handlers : pc[g] = "copying" => dst[g] \in Inodes /\ Gets(dst[g])' = Gets(dst[g])'
    BY <1>t DEF IInv, CopyOK
  <2> SUFFICES ASSUME NEW g \in Handlers, pc[g] = "copying"
               PROVE  /\ dst[g] # 0
                      /\ dst[g] \notin reused =>
                           /\ Gets(dst[g])' = {}
                           /\ \A k \in Handlers : pc[k] = "copying" /\ dst[k] = dst[g] => k = g
    BY <1>1, <1>a DEF CopyOK
  <2>2. dst[g] \in Inodes /\ dst[g] # f /\ dst'[g] = dst[g]
    BY <1>t, <1>1, <1>d DEF IInv, CopyOK
  <2>3. \A i \in Inodes : i = dst[g] => Gets(i)' = Gets(i)
    BY <1>8, <2>2
  <2> QED
    BY <2>2, <2>3 DEF IInv, CopyOK
<1>17. ApartOK'
  <2>1. Targets' = Targets /\ Targets \subseteq Inodes
    BY <1>t, <1>1, <1>a DEF IInv, Targets, CopyOK
  <2>2. ASSUME NEW n \in Names, tmp[n] # 0, NEW i \in Targets \ strayed, NEW k \in Inodes, k = tmp[n]
        PROVE  Gets(k)' \cap Gets(i)' = {}
    <3>1. i \in Inodes /\ i # f /\ Gets(k) \cap Gets(i) = {}
      BY <2>1, <2>2, <1>d DEF IInv, ApartOK
    <3> QED
      BY <1>8, <1>b, <3>1
  <2> QED
    BY <1>t, <1>1, <2>1, <2>2 DEF ApartOK
<1>18. OnceOK'
  <2>1. \A w \in flight : w.ino \in Inodes /\ w.chunk \in Gets(w.ino)
    BY InodeTypes DEF IInv, Gets
  <2>2. \A w \in flight : w.chunk # c
    BY <1>b, <2>1
  <2>3. \A v, w \in flight' : v.chunk = w.chunk => v = w
    BY <1>7, <2>2 DEF IInv, OnceOK
  <2>4. ASSUME NEW w \in flight', w.ino \notin strayed PROVE w.chunk \notin Has(w.ino)'
    <3>1. CASE w \in flight
      <4>1. PICK i \in Inodes : i = w.ino
        BY <2>1, <3>1
      <4>2. w.chunk \notin Has(i)
        BY <2>4, <3>1, <4>1 DEF IInv, OnceOK
      <4>3. w.chunk \notin Has(i)'
        BY <1>7, <2>2, <3>1, <4>2
      <4> QED
        BY <4>1, <4>3
    <3>2. CASE w = [chunk |-> c, ino |-> f] /\ data' = data
      <4>1. Has(f)' = Has(f)
        BY <1>7, <1>2, <3>2 DEF Has
      <4>2. c \notin Has(f)
        BY <1>2, <1>9, <1>b
      <4> QED
        BY <3>2, <4>1, <4>2
    <3> QED
      BY <1>7, <3>1, <3>2
  <2> QED
    BY <1>1, <2>3, <2>4 DEF OnceOK
<1>19. InOrder'
  <2>1. CASE data' = data
    <3>1. \A i \in Inodes : \A j \in DOMAIN data[i] : data[i][j] \in Chunks
      BY InodeTypes DEF IInv
    <3>2. DOMAIN data = Inodes
      BY InodeTypes DEF IInv
    <3> SUFFICES ASSUME NEW ino \in Inodes \ strayed, NEW i \in DOMAIN data[ino], NEW j \in DOMAIN data[ino],
                        i < j, data[ino][i].of = data[ino][j].of
                 PROVE  IF data[ino][i].of \in crowded' \/ (data[ino][i].of \in shared /\ ino \in reused)
                        THEN data[ino][i] # data[ino][j] ELSE data[ino][i].n < data[ino][j].n
      BY <1>1, <2>1, <3>2 DEF InOrder
    <3>3. IF data[ino][i].of \in crowded \/ (data[ino][i].of \in shared /\ ino \in reused)
          THEN data[ino][i] # data[ino][j] ELSE data[ino][i].n < data[ino][j].n
      BY <3>2 DEF IInv, InOrder
    <3>4. data[ino][i].n < data[ino][j].n => data[ino][i] # data[ino][j]
      BY <3>1 DEF Chunks
    <3> QED
      BY <1>6, <3>3, <3>4
  <2>2. CASE data' = [data EXCEPT ![f] = Append(@, c)]
    <3>1. \A x \in Has(f) : x.of = c.of => x.n < c.n
      <4> SUFFICES ASSUME NEW x \in Has(f), x.of = c.of PROVE x.n < c.n
        OBVIOUS
      <4>1. x \in Chunks /\ x.n <= sent[h]
        BY <1>2, <1>3, <1>9 DEF IInv, SentOK
      <4> QED
        BY <4>1, <1>t, <1>3 DEF Chunks
    <3>2. c \notin Has(f)
      BY <1>2, <1>9, <1>b
    <3> QED
      BY <1>1, <1>2, <1>3, <1>6, <2>2, <3>1, <3>2, InOrderExtended DEF IInv
  <2> QED
    BY <1>7, <2>1, <2>2
<1>20. SourceOK'
  BY <1>1, <1>4, SourceStep
<1> QED
  BY <1>20, <1>10, <1>11, <1>12, <1>13, <1>14, <1>15, <1>16, <1>17, <1>18, <1>19 DEF IInv

\* A chunk that lands was under way to the same inode.
LEMMA LandStep ==
  ASSUME IInv, TypeOK', NEW w \in flight, Land(w)
  PROVE  IInv'
<1>f. PICK f \in Inodes : f = w.ino
  BY InodeTypes DEF IInv
<1>g. PICK c \in Chunks : c = w.chunk
  BY InodeTypes DEF IInv
<1>t. /\ tmp \in [Names -> {0} \cup Inodes] /\ dst \in [Handlers -> {0} \cup Inodes]
      /\ sent \in [Handlers -> 0..MaxChunks] /\ 0 \notin Inodes
  BY HandlerTypes DEF IInv
<1>1. /\ data' = [data EXCEPT ![f] = Append(@, c)] /\ flight' = flight \ {w}
      /\ UNCHANGED <<tmp, body, pc, name, sent, src, dst, shared, crowded, reused, strayed>>
  BY <1>f, <1>g DEF Land, LandOnce, hist
<1>2. /\ Inodes' = Inodes
      /\ \A i \in Inodes : Has(i)' = IF i = f THEN Has(i) \cup {c} ELSE Has(i)
  BY <1>1, Extended DEF IInv
<1>3. \A v \in flight : v.chunk \in Chunks /\ v.ino \in Inodes
  BY InodeTypes DEF IInv
<1>4. \A i \in Inodes : Gets(i)' = Gets(i)
  <2> SUFFICES ASSUME NEW i \in Inodes PROVE Gets(i)' = Gets(i)
    OBVIOUS
  <2>1. Gets(i)' \subseteq Gets(i)
    <3>1. i = f => c \in Gets(i)
      BY <1>f, <1>g DEF Gets
    <3> QED
      BY <1>1, <1>2, <3>1 DEF Gets
  <2>2. ASSUME NEW x \in Gets(i) PROVE x \in Gets(i)'
    <3>1. CASE x \in Has(i)
      BY <1>2, <3>1 DEF Gets
    <3>2. CASE x \notin Has(i)
      <4>1. PICK v \in flight : v.ino = i /\ v.chunk = x
        BY <3>2 DEF Gets
      <4>2. CASE v = w
        BY <1>2, <1>f, <1>g, <4>1, <4>2 DEF Gets
      <4>3. CASE v # w
        BY <1>1, <4>1, <4>3 DEF Gets
      <4> QED
        BY <4>2, <4>3
    <3> QED
      BY <3>1, <3>2
  <2> QED
    BY <2>1, <2>2
<1>5. TmpOK' /\ SharedOK' /\ OwnFileOK'
  BY <1>1, <1>2, <1>4 DEF IInv, TmpOK, SharedOK, OwnFileOK, Alive, Writing, File
<1>6. WritersOK' /\ SentOK'
  BY <1>t, <1>1, <1>2, <1>4 DEF IInv, WritersOK, SentOK, Alive
<1>7. OneBodyOK'
  BY <1>1, <1>2, <1>4 DEF IInv, OneBodyOK
<1>8. CopyOK'
  BY <1>t, <1>1, <1>4 DEF IInv, CopyOK
<1>9. ApartOK'
  <2>1. Targets' = Targets /\ Targets \subseteq Inodes
    BY <1>t, <1>1, HandlerTypes DEF IInv, Targets, CopyOK
  <2> QED
    BY <1>t, <1>1, <1>4, <2>1 DEF IInv, ApartOK
<1>10. OnceOK'
  <2>1. \A u, v \in flight' : u.chunk = v.chunk => u = v
    BY <1>1 DEF IInv, OnceOK
  <2>2. ASSUME NEW v \in flight', v.ino \notin strayed PROVE v.chunk \notin Has(v.ino)'
    <3>1. v \in flight /\ v # w /\ v.chunk # c
      BY <1>1, <1>g, <2>2 DEF IInv, OnceOK
    <3>2. PICK i \in Inodes : i = v.ino
      BY <1>3, <3>1
    <3>3. v.chunk \notin Has(i)
      BY <2>2, <3>1, <3>2 DEF IInv, OnceOK
    <3>4. v.chunk \notin Has(i)'
      BY <1>2, <3>1, <3>3
    <3> QED
      BY <3>2, <3>4
  <2> QED
    BY <1>1, <2>1, <2>2 DEF OnceOK
<1>11. InOrder'
  <2>1. f \in strayed \/ c \notin Has(f)
    BY <1>f, <1>g DEF IInv, OnceOK
  \* Without a crowd it is the last one its handler was given.
  <2>2. ASSUME f \notin strayed, NEW x \in Has(f), x.of = c.of, c.of \notin crowded PROVE x.n < c.n
    <3>1. x \in Chunks /\ x \in Gets(f) /\ x # c
      BY <2>1, <2>2, InodeTypes DEF IInv, Gets
    <3>2. x.n <= sent[x.of]
      BY <3>1 DEF IInv, SentOK
    <3>3. c.n = sent[c.of]
      BY <1>g, <2>2 DEF IInv, SentOK
    <3>4. x.n # c.n
      BY <2>2, <3>1 DEF Chunks
    <3> QED
      BY <1>t, <2>2, <3>1, <3>2, <3>3, <3>4 DEF Chunks
  <2> QED
    BY <1>1, <2>1, <2>2, InOrderExtended DEF IInv
<1>12. SourceOK'
  BY <1>1, SourceStep
<1> QED
  BY <1>12, <1>5, <1>6, <1>7, <1>8, <1>9, <1>10, <1>11 DEF IInv

-----------------------------------------------------------------------------
(* The steps that truncate an inode, or make one *)

\* What both have in common: no inode gets more than before.
Emptied ==
  /\ Inodes \subseteq Inodes' /\ DOMAIN data' = Inodes'
  /\ \A i \in Inodes : Gets(i)' \subseteq Gets(i) /\ Has(i)' \subseteq Has(i)
  /\ \A i \in Inodes' \ Inodes : Gets(i)' = {} /\ Has(i)' = {}
  /\ \A i \in Inodes' : data'[i] = <<>> \/ (i \in Inodes /\ data'[i] = data[i])
  /\ flight' = flight /\ sent' = sent /\ crowded' = crowded /\ name' = name
  /\ shared \subseteq shared' /\ reused \subseteq reused' /\ strayed' = strayed

LEMMA NewIsEmptied ==
  ASSUME TypeOK, data' = Append(data, <<>>),
         UNCHANGED <<flight, sent, crowded, name, strayed>>, shared \subseteq shared', reused \subseteq reused'
  PROVE  Emptied
<1>1. data' \in Seq(Seq(Chunks)) /\ Inodes \subseteq Inodes'
  BY NewInode
<1>2. DOMAIN data' = Inodes'
  BY <1>1 DEF Inodes
<1> QED
  BY <1>1, <1>2, NewInode DEF Emptied

LEMMA TruncatedIsEmptied ==
  ASSUME TypeOK, NEW f \in Inodes, data' = [data EXCEPT ![f] = <<>>],
         UNCHANGED <<flight, sent, crowded, name, strayed>>, shared \subseteq shared', reused \subseteq reused'
  PROVE  Emptied
<1>1. data' \in Seq(Seq(Chunks)) /\ Inodes = Inodes'
  BY Truncated
<1>2. DOMAIN data' = Inodes'
  BY <1>1 DEF Inodes
<1>3. \A i \in Inodes : Has(i)' \subseteq Has(i)
  BY Truncated
<1> QED
  BY <1>1, <1>2, <1>3, Truncated DEF Emptied

\* The parts of the invariant that only speak of chunks.
LEMMA EmptiedStep ==
  ASSUME IInv, Emptied, \A h \in Handlers : pc'[h] = "idle" => pc[h] = "idle"
  PROVE  OneBodyOK' /\ OnceOK' /\ InOrder' /\ SentOK'
<1>1. OneBodyOK'
  <2> SUFFICES ASSUME NEW i \in Inodes' \ (reused' \cup strayed), NEW x \in Gets(i)', NEW y \in Gets(i)', x.of # y.of
               PROVE  x.of \in shared
    BY DEF OneBodyOK, Emptied
  <2>1. i \in Inodes \ (reused \cup strayed) /\ x \in Gets(i) /\ y \in Gets(i)
    BY DEF Emptied
  <2> QED
    BY <2>1 DEF IInv, OneBodyOK
<1>2. OnceOK'
  <2>1. \A u, v \in flight' : u.chunk = v.chunk => u = v
    BY DEF IInv, OnceOK, Emptied
  <2>2. ASSUME NEW v \in flight', v.ino \notin strayed PROVE v.chunk \notin Has(v.ino)'
    <3>1. PICK i \in Inodes : i = v.ino
      BY InodeTypes DEF IInv, Emptied
    <3>2. v.chunk \notin Has(i)
      BY <2>2, <3>1 DEF IInv, OnceOK, Emptied
    <3>3. v.chunk \notin Has(i)'
      BY <3>2 DEF Emptied
    <3> QED
      BY <3>1, <3>3
  <2> QED
    BY <2>1, <2>2 DEF OnceOK, Emptied
<1>3. InOrder'
  <2> SUFFICES ASSUME NEW ino \in Inodes' \ strayed, NEW i \in DOMAIN data'[ino], NEW j \in DOMAIN data'[ino],
                      i < j, data'[ino][i].of = data'[ino][j].of
               PROVE  IF data'[ino][i].of \in crowded' \/ (data'[ino][i].of \in shared' /\ ino \in reused')
                      THEN data'[ino][i] # data'[ino][j] ELSE data'[ino][i].n < data'[ino][j].n
    BY DEF InOrder, Emptied
  <2>1. ino \in Inodes /\ data'[ino] = data[ino]
    BY EmptyDomain DEF Emptied
  <2>2. IF data[ino][i].of \in crowded \/ (data[ino][i].of \in shared /\ ino \in reused)
        THEN data[ino][i] # data[ino][j] ELSE data[ino][i].n < data[ino][j].n
    BY <2>1, InodeTypes DEF IInv, InOrder
  <2>3. data[ino][i] \in Chunks /\ data[ino][j] \in Chunks
    BY <2>1, InodeTypes DEF IInv
  <2>4. data[ino][i].n < data[ino][j].n => data[ino][i] # data[ino][j]
    BY <2>3 DEF Chunks
  <2> QED
    BY <2>1, <2>2, <2>4 DEF Emptied
<1>4. SentOK'
  <2>1. ASSUME NEW i \in Inodes', NEW x \in Gets(i)' PROVE x.n <= sent'[x.of]
    <3>1. i \in Inodes /\ x \in Gets(i)
      BY DEF Emptied
    <3> QED
      BY <3>1 DEF IInv, SentOK, Emptied
  <2>2. \A h \in Handlers : pc'[h] = "idle" => sent'[h] = 0
    BY DEF IInv, SentOK, Emptied
  <2>3. \A w \in flight' : w.chunk.of \notin crowded' => w.chunk.n = sent'[w.chunk.of]
    BY DEF IInv, SentOK, Emptied
  <2> QED
    BY <2>1, <2>2, <2>3 DEF SentOK
<1> QED
  BY <1>1, <1>2, <1>3, <1>4

LEMMA CreateTmpStep ==
  ASSUME IInv, TypeOK', NEW h \in Handlers, CreateTmp(h)
  PROVE  IInv'
<1>t. /\ pc \in [Handlers -> Pcs] /\ name \in [Handlers -> Names]
      /\ tmp \in [Names -> {0} \cup Inodes] /\ dst \in [Handlers -> {0} \cup Inodes]
      /\ body \in {0} \cup Inodes /\ 0 \notin Inodes /\ Len(data) + 1 \notin Inodes
      /\ reused \subseteq Inodes /\ strayed \subseteq Inodes /\ Len(data) \in Nat
  BY HandlerTypes DEF IInv
<1>1. UNCHANGED <<body, flight, name, sent, src, dst, crowded, reused, strayed>> /\ shared \subseteq shared'
  BY DEF CreateTmp
<1>2. /\ \A g \in Handlers \ {h} : pc'[g] = pc[g]
      /\ pc[h] = "idle" /\ pc'[h] = "body"
  BY <1>t DEF CreateTmp, Goto
<1>3. \A g \in Handlers \ {h} : Alive(g) /\ name[g] = name[h] => g \in shared' /\ h \in shared'
  BY DEF CreateTmp
\* The file under its name, new or not.
<1>4. PICK f \in Inodes' :
        /\ \A n \in Names : tmp'[n] = IF n = name[h] THEN f ELSE tmp[n]
        /\ Emptied
        /\ IF f \in Inodes THEN f = tmp[name[h]] /\ tmp' = tmp ELSE Gets(f)' = {}
  <2>1. CASE File(h) = 0
    <3>1. data' = Append(data, <<>>) /\ tmp' = [tmp EXCEPT ![name[h]] = Len(data) + 1]
      BY <2>1 DEF CreateTmp
    <3>2. Inodes' = Inodes \cup {Len(data) + 1}
      BY <1>1, <3>1, NewInode DEF IInv
    <3>3. Emptied
      BY <1>1, <3>1, NewIsEmptied DEF IInv
    <3>4. \A n \in Names : tmp'[n] = IF n = name[h] THEN Len(data) + 1 ELSE tmp[n]
      BY <1>t, <3>1
    <3>5. \A i \in Inodes' \ Inodes : Gets(i)' = {}
      BY <3>3 DEF Emptied
    <3>6. PICK f : f = Len(data) + 1
      OBVIOUS
    <3>7. f \in Inodes' /\ f \notin Inodes
      BY <1>t, <3>2, <3>6
    <3> QED
      BY <3>3, <3>4, <3>5, <3>6, <3>7
  <2>2. CASE File(h) # 0
    <3>1. data' = [data EXCEPT ![File(h)] = <<>>] /\ tmp' = tmp
      BY <2>2 DEF CreateTmp
    <3>2. PICK f \in Inodes : f = tmp[name[h]] /\ f = File(h)
      BY <1>t, <2>2 DEF File
    <3>3. Emptied
      BY <1>1, <3>1, <3>2, TruncatedIsEmptied DEF IInv
    <3> QED
      BY <1>t, <3>1, <3>2, <3>3 DEF Emptied
  <2> QED
    BY <2>1, <2>2
<1>5. OneBodyOK' /\ OnceOK' /\ InOrder' /\ SentOK'
  BY <1>2, <1>4, EmptiedStep
<1>6. \A i \in Inodes : Gets(i) \subseteq Chunks
  BY InodeTypes DEF IInv
\* No chunk of an idle handler is anywhere.
<1>7. \A i \in Inodes : \A c \in Gets(i) : c.of # h
  <2> SUFFICES ASSUME NEW i \in Inodes, NEW c \in Gets(i), c.of = h PROVE FALSE
    OBVIOUS
  <2>1. c.n \in 1..MaxChunks /\ c.n <= 0
    BY <1>2, <1>6 DEF IInv, SentOK, Chunks
  <2> QED
    BY <2>1, BodyStreamAssumption
<1>a. \A g \in Handlers \ {h} : (Alive(g)' <=> Alive(g)) /\ (Writing(g)' <=> Writing(g))
  BY <1>2 DEF Alive, Writing
<1>b. Alive(h)' /\ ~Alive(h)
  BY <1>2 DEF Alive
<1>c. \A g \in Handlers : pc'[g] = "copying" <=> pc[g] = "copying"
  BY <1>2
<1>d. f \in Inodes => \E g \in Handlers : Alive(g) /\ name[g] = name[h]
  BY <1>t, <1>4 DEF IInv, TmpOK
<1>8. TmpOK'
  <2> SUFFICES ASSUME NEW n \in Names, tmp'[n] # 0
               PROVE  /\ \E g \in Handlers : Alive(g)' /\ name[g] = n
                      /\ \A m \in Names : tmp'[m] = tmp'[n] => m = n
                      /\ tmp'[n] # body /\ tmp'[n] \notin reused \cup strayed
                      /\ \A g \in Handlers : tmp'[n] # dst[g]
    BY <1>1 DEF TmpOK
  <2>1. \E g \in Handlers : Alive(g)' /\ name[g] = n
    <3>1. CASE n = name[h]
      BY <3>1, <1>b
    <3>2. CASE n # name[h]
      <4>1. PICK g \in Handlers : Alive(g) /\ name[g] = n
        BY <1>4, <3>2 DEF IInv, TmpOK
      <4> QED
        BY <4>1, <1>a, <1>b
    <3> QED
      BY <3>1, <3>2
  <2>2. CASE f \in Inodes
    BY <1>4, <2>1, <2>2 DEF IInv, TmpOK
  <2>3. CASE f \notin Inodes
    <3>1. CASE n = name[h]
      <4>1. tmp'[n] = f /\ \A m \in Names : m # n => tmp'[m] # f
        BY <1>t, <1>4, <2>3, <3>1
      <4>2. f # 0
        BY <1>4 DEF Inodes
      <4> QED
        BY <1>t, <2>1, <2>3, <4>1, <4>2
    <3>2. CASE n # name[h]
      <4>1. tmp'[n] = tmp[n] /\ tmp[n] \in Inodes
        BY <1>t, <1>4, <3>2
      <4> QED
        BY <1>4, <2>1, <2>3, <4>1 DEF IInv, TmpOK
    <3> QED
      BY <3>1, <3>2
  <2> QED
    BY <2>2, <2>3
<1>9. SharedOK'
  <2> SUFFICES ASSUME NEW g \in Handlers, NEW k \in Handlers, Alive(g)', Alive(k)',
                      name[g] = name[k], g # k
               PROVE  g \in shared'
    BY <1>1 DEF SharedOK
  <2>1. CASE g # h /\ k # h
    BY <1>1, <1>a, <2>1 DEF IInv, SharedOK
  <2>2. CASE g = h \/ k = h
    BY <1>3, <1>a, <2>2
  <2> QED
    BY <2>1, <2>2
<1>10. OwnFileOK'
  <2> SUFFICES ASSUME NEW g \in Handlers, g \notin shared'
               PROVE  /\ pc'[g] # "error"
                      /\ Writing(g)' =>
                           /\ tmp'[name[g]] # 0
                           /\ \A i \in Inodes' : \A c \in Gets(i)' : c.of = g => i = tmp'[name[g]]
    BY <1>1 DEF OwnFileOK, File
  <2>1. \A i \in Inodes' : \A c \in Gets(i)' : i \in Inodes /\ c \in Gets(i)
    BY <1>4 DEF Emptied
  <2>2. CASE g = h
    <3>1. tmp'[name[g]] # 0
      BY <1>t, <1>4, <2>2 DEF Inodes
    <3> QED
      BY <1>2, <1>7, <2>1, <2>2, <3>1
  <2>3. CASE g # h
    <3>1. /\ pc[g] # "error"
          /\ Writing(g) => /\ tmp[name[g]] # 0
                           /\ \A i \in Inodes : \A c \in Gets(i) : c.of = g => i = tmp[name[g]]
      BY <1>1 DEF IInv, OwnFileOK, File
    <3>2. Writing(g) => name[g] # name[h]
      BY <1>3, <2>3 DEF Writing, Alive
    <3>3. Writing(g) => tmp'[name[g]] = tmp[name[g]]
      BY <1>t, <1>4, <3>2
    <3> QED
      BY <1>2, <1>a, <2>1, <2>3, <3>1, <3>3
  <2> QED
    BY <2>2, <2>3
<1>11. WritersOK'
  <2> SUFFICES ASSUME NEW n \in Names, tmp'[n] # 0, NEW i \in Inodes', i = tmp'[n], NEW c \in Gets(i)'
               PROVE  Alive(c.of)' /\ name[c.of] = n
    <3>1. tmp' \in [Names -> {0} \cup Inodes']
      BY HandlerTypes, <1>1 DEF TypeOK
    <3> QED
      BY <1>1, <3>1 DEF WritersOK
  <2>1. i \in Inodes /\ c \in Gets(i)
    BY <1>4 DEF Emptied
  <2>2. tmp[n] = i
    BY <1>4, <2>1
  <2>3. Alive(c.of) /\ name[c.of] = n /\ c.of \in Handlers
    BY <1>t, <1>6, <2>1, <2>2 DEF IInv, WritersOK, Chunks
  <2> QED
    BY <1>a, <1>b, <2>3
<1>12. CopyOK'
  <2> SUFFICES ASSUME NEW g \in Handlers, pc'[g] = "copying", NEW e, e = dst'[g]
               PROVE  /\ e # 0
                      /\ e \notin reused' =>
                           /\ Gets(e)' = {}
                           /\ \A k \in Handlers : pc'[k] = "copying" /\ dst'[k] = e => k = g
    BY DEF CopyOK
  <2>1. e \in Inodes /\ e = dst[g] /\ pc[g] = "copying"
    BY <1>t, <1>1, <1>c DEF IInv, CopyOK
  <2>2. Gets(e)' \subseteq Gets(e)
    BY <1>4, <2>1 DEF Emptied
  <2>3. e \notin reused => /\ Gets(e) = {}
                           /\ \A k \in Handlers : pc[k] = "copying" /\ dst[k] = e => k = g
    BY <2>1 DEF IInv, CopyOK
  <2> QED
    BY <1>t, <1>1, <1>c, <2>1, <2>2, <2>3
<1>13. ApartOK'
  <2> SUFFICES ASSUME NEW n \in Names, tmp'[n] # 0, NEW k \in Inodes', k = tmp'[n], NEW i \in Targets' \ strayed
               PROVE  Gets(k)' \cap Gets(i)' = {}
    <3>1. tmp' \in [Names -> {0} \cup Inodes']
      BY HandlerTypes DEF TypeOK
    <3> QED
      BY <1>1, <3>1 DEF ApartOK
  <2>1. i \in Targets /\ i \in Inodes
    BY <1>t, <1>1, <1>c DEF IInv, Targets, CopyOK
  <2>2. CASE k \in Inodes
    <3>1. k = tmp[n]
      BY <1>4, <2>2
    <3>2. Gets(k)' \subseteq Gets(k) /\ Gets(i)' \subseteq Gets(i)
      BY <1>4, <2>1, <2>2 DEF Emptied
    <3>3. Gets(k) \cap Gets(i) = {}
      BY <2>1, <3>1 DEF IInv, ApartOK
    <3> QED
      BY <3>2, <3>3
  <2>3. CASE k \notin Inodes
    BY <1>4, <2>3 DEF Emptied
  <2> QED
    BY <2>2, <2>3
<1>14. SourceOK'
  <2>1. \A n \in Names : tmp'[n] \in {tmp[n], 0} \/ tmp'[n] \notin Inodes
    BY <1>t, <1>4
  <2> QED
    BY <1>1, <1>2, <2>1, SourceStep
<1> QED
  BY <1>14, <1>5, <1>8, <1>9, <1>10, <1>11, <1>12, <1>13 DEF IInv

LEMMA CopyOpenStep ==
  ASSUME IInv, TypeOK', NEW h \in Handlers, CopyOpen(h)
  PROVE  IInv'
<1>t. /\ pc \in [Handlers -> Pcs] /\ name \in [Handlers -> Names]
      /\ tmp \in [Names -> {0} \cup Inodes] /\ dst \in [Handlers -> {0} \cup Inodes]
      /\ body \in {0} \cup Inodes /\ 0 \notin Inodes /\ Len(data) + 1 \notin Inodes
      /\ reused \subseteq Inodes /\ Len(data) \in Nat
  BY HandlerTypes DEF IInv
<1>1. UNCHANGED <<tmp, flight, name, sent, src, shared, crowded, strayed>> /\ reused \subseteq reused'
  BY DEF CopyOpen
<1>2. /\ \A g \in Handlers \ {h} : pc'[g] = pc[g]
      /\ pc[h] = "create" /\ pc'[h] = "copying"
  BY <1>t DEF CopyOpen, Goto
\* The body it will write, new or reused.
<1>3. PICK d \in Inodes' :
        /\ d # 0 /\ body' = d /\ Emptied
        /\ \A g \in Handlers : dst'[g] = IF g = h THEN d ELSE dst[g]
        /\ \/ d \notin Inodes /\ Gets(d)' = {} /\ reused' = reused
           \/ d \in Inodes /\ d = body /\ reused' = reused \cup {d}
  <2>1. CASE body = 0
    <3>1. data' = Append(data, <<>>) /\ body' = Len(data) + 1 /\ reused' = reused
      BY <2>1 DEF CopyOpen
    <3>2. Inodes' = Inodes \cup {Len(data) + 1}
      BY <1>1, <3>1, NewInode DEF IInv
    <3>3. Emptied
      BY <1>1, <3>1, NewIsEmptied DEF IInv
    <3>4. \A g \in Handlers : dst'[g] = IF g = h THEN Len(data) + 1 ELSE dst[g]
      BY <1>t, <3>1 DEF CopyOpen
    <3>5. \A i \in Inodes' \ Inodes : Gets(i)' = {}
      BY <3>3 DEF Emptied
    <3>6. PICK d : d = Len(data) + 1
      OBVIOUS
    <3>7. d \in Inodes' /\ d \notin Inodes /\ d # 0
      BY <1>t, <3>2, <3>6
    <3> QED
      BY <3>1, <3>3, <3>4, <3>5, <3>6, <3>7
  <2>2. CASE body # 0
    <3>1. data' = [data EXCEPT ![body] = <<>>] /\ body' = body /\ reused' = reused \cup {body}
      BY <2>2 DEF CopyOpen
    <3>2. PICK d \in Inodes : d = body
      BY <1>t, <2>2
    <3>3. Emptied
      BY <1>1, <3>1, <3>2, TruncatedIsEmptied DEF IInv
    <3>4. \A g \in Handlers : dst'[g] = IF g = h THEN d ELSE dst[g]
      BY <1>t, <3>1, <3>2 DEF CopyOpen
    <3> QED
      BY <1>t, <3>1, <3>2, <3>3, <3>4 DEF Emptied
  <2> QED
    BY <2>1, <2>2
<1>4. OneBodyOK' /\ OnceOK' /\ InOrder' /\ SentOK'
  BY <1>2, <1>3, EmptiedStep
<1>5. \A i \in Inodes : Gets(i)' \subseteq Gets(i)
  BY <1>3 DEF Emptied
<1>6. \A g \in Handlers : /\ Alive(g)' <=> Alive(g)
                          /\ Writing(g)' <=> Writing(g)
                          /\ pc'[g] = "error" <=> pc[g] = "error"
  BY <1>2 DEF Alive, Writing
<1>7. TmpOK'
  <2> SUFFICES ASSUME NEW n \in Names, tmp[n] # 0
               PROVE  /\ \E g \in Handlers : Alive(g) /\ name[g] = n
                      /\ \A m \in Names : tmp[m] = tmp[n] => m = n
                      /\ tmp[n] # body' /\ tmp[n] \notin reused' \cup strayed
                      /\ \A g \in Handlers : tmp[n] # dst'[g]
    BY <1>1, <1>6 DEF TmpOK
  <2>1. tmp[n] \in Inodes /\ tmp[n] # d
    BY <1>t, <1>3 DEF IInv, TmpOK
  <2> QED
    BY <1>3, <2>1 DEF IInv, TmpOK
<1>8. SharedOK'
  BY <1>1, <1>6 DEF IInv, SharedOK
<1>9. OwnFileOK'
  <2>1. \A i \in Inodes' : \A c \in Gets(i)' : i \in Inodes /\ c \in Gets(i)
    BY <1>3 DEF Emptied
  <2> QED
    BY <1>1, <1>6, <2>1 DEF IInv, OwnFileOK, File
<1>10. WritersOK'
  <2>1. \A i \in Inodes : \A n \in Names : i = tmp[n] =>
          \A c \in Gets(i)' : Alive(c.of) /\ name[c.of] = n
    BY <1>t, <1>5 DEF IInv, WritersOK
  <2>2. \A i \in Inodes : \A c \in Gets(i)' : c.of \in Handlers
    BY <1>5, InodeTypes DEF IInv, Chunks
  <2> SUFFICES ASSUME NEW n \in Names, tmp[n] # 0, NEW i \in Inodes, i = tmp[n], NEW c \in Gets(i)'
               PROVE  Alive(c.of)' /\ name[c.of] = n
    BY <1>t, <1>1 DEF WritersOK
  <2> QED
    BY <1>6, <2>1, <2>2
<1>11. CopyOK'
  <2> SUFFICES ASSUME NEW g \in Handlers, pc'[g] = "copying", NEW e, e = dst'[g]
               PROVE  /\ e # 0
                      /\ e \notin reused' =>
                           /\ Gets(e)' = {}
                           /\ \A k \in Handlers : pc'[k] = "copying" /\ dst'[k] = e => k = g
    BY DEF CopyOK
  <2>1. CASE g = h
    <3>1. \A k \in Handlers : dst[k] # d \/ d \in reused'
      BY <1>t, <1>3
    <3> QED
      BY <1>3, <2>1, <3>1
  <2>2. CASE g # h
    <3>1. pc[g] = "copying" /\ e = dst[g] /\ e \in Inodes
      BY <1>t, <1>2, <1>3, <2>2 DEF IInv, CopyOK
    <3>2. e \notin reused' => e # d
      BY <1>3, <3>1
    <3>3. e \notin reused' => /\ Gets(e) = {}
                              /\ \A k \in Handlers : pc[k] = "copying" /\ dst[k] = e => k = g
      BY <1>1, <3>1 DEF IInv, CopyOK
    <3>4. e \notin reused' => Gets(e)' = {}
      BY <1>5, <3>1, <3>3
    <3>5. ASSUME e \notin reused', NEW k \in Handlers, pc'[k] = "copying", dst'[k] = e
          PROVE  k = g
      <4>1. k # h
        BY <1>3, <3>2, <3>5
      <4>2. pc[k] = "copying" /\ dst[k] = e
        BY <1>2, <1>3, <3>5, <4>1
      <4> QED
        BY <3>3, <3>5, <4>2
    <3>6. e # 0
      BY <1>t, <3>1
    <3> QED
      BY <3>4, <3>5, <3>6
  <2> QED
    BY <2>1, <2>2
<1>12. ApartOK'
  <2> SUFFICES ASSUME NEW n \in Names, tmp[n] # 0, NEW k \in Inodes, k = tmp[n], NEW i \in Targets' \ strayed
               PROVE  Gets(k)' \cap Gets(i)' = {}
    BY <1>t, <1>1 DEF ApartOK
  <2>1. i \in Targets \/ i = d
    BY <1>2, <1>3 DEF Targets
  <2>2. CASE i \in Targets
    <3>1. i \in Inodes /\ Gets(k) \cap Gets(i) = {}
      BY <1>t, <2>2 DEF IInv, ApartOK, Targets, CopyOK
    <3> QED
      BY <1>5, <3>1
  <2>3. CASE i \notin Targets
    <3>1. i = d /\ d \notin Inodes
      BY <1>3, <2>1, <2>3 DEF Targets
    <3> QED
      BY <1>3, <3>1
  <2> QED
    BY <2>2, <2>3
<1>13. SourceOK'
  BY <1>1, <1>2, SourceStep
<1> QED
  BY <1>13, <1>4, <1>7, <1>8, <1>9, <1>10, <1>11, <1>12 DEF IInv

-----------------------------------------------------------------------------
(* The copy *)

LEMMA CopyStep ==
  ASSUME IInv, TypeOK', NEW h \in Handlers, Copy(h)
  PROVE  IInv'
<1>t. /\ pc \in [Handlers -> Pcs] /\ name \in [Handlers -> Names]
      /\ tmp \in [Names -> {0} \cup Inodes] /\ dst \in [Handlers -> {0} \cup Inodes]
      /\ sent \in [Handlers -> 0..MaxChunks]
      /\ body \in {0} \cup Inodes /\ 0 \notin Inodes
  BY HandlerTypes DEF IInv
<1>1. UNCHANGED <<body, flight, name, sent, src, dst, shared, crowded, reused>>
  BY DEF Copy
<1>2. /\ \A g \in Handlers \ {h} : pc'[g] = pc[g]
      /\ pc[h] = "copying" /\ pc'[h] = "meta"
      /\ \A n \in Names : tmp'[n] = IF n = name[h] THEN 0 ELSE tmp[n]
  BY <1>t DEF Copy, Goto, DropOnly
<1>d. PICK d \in Inodes : d = dst[h]
  BY <1>t, <1>2 DEF IInv, CopyOK
<1>f. PICK f \in Inodes : f = src[h]
  BY <1>t, <1>2, HandlerTypes DEF IInv, SourceOK
<1>from. PICK from \in Seq(Chunks) : from = data[f]
  BY InodeTypes DEF IInv
<1>s. strayed' = strayed \cup IF f = tmp[name[h]] THEN {} ELSE {d}
  BY <1>d, <1>f DEF Copy, File
<1>3. data' = [data EXCEPT ![d] = from \o SubSeq(data[d], Len(from) + 1, Len(data[d]))]
  BY <1>d, <1>f, <1>from DEF Copy
<1>4. /\ data' \in Seq(Seq(Chunks)) /\ Inodes' = Inodes
      /\ \A i \in Inodes : i # d => data'[i] = data[i] /\ Has(i)' = Has(i) /\ Gets(i)' = Gets(i)
      /\ \A j \in DOMAIN data'[d] :
           /\ j \in Nat
           /\ j <= Len(from) => j \in DOMAIN from /\ data'[d][j] = from[j]
           /\ j > Len(from) => j \in DOMAIN data[d] /\ data'[d][j] = data[d][j]
  <2>1. TypeOK /\ flight' = flight
    BY <1>1 DEF IInv
  <2> QED
    <3>1. data' \in Seq(Seq(Chunks)) /\ Inodes' = Inodes
      BY <1>3, <2>1, Overwritten
    <3>2. \A i \in Inodes : i # d => data'[i] = data[i] /\ Has(i)' = Has(i) /\ Gets(i)' = Gets(i)
      <4>1. DOMAIN data = Inodes
        BY <2>1, InodeTypes
      <4>2. \A i \in Inodes : i # d => data'[i] = data[i]
        BY <1>3, <4>1, Zenon
      <4> QED
        BY <2>1, <4>2 DEF Has, Gets
    <3>3. \A j \in DOMAIN data'[d] :
             /\ j \in Nat
             /\ j <= Len(from) => j \in DOMAIN from /\ data'[d][j] = from[j]
             /\ j > Len(from) => j \in DOMAIN data[d] /\ data'[d][j] = data[d][j]
      BY <1>3, <2>1, Overwritten, ZenonT(30)
    <3> QED
      BY <3>1, <3>2, <3>3
<1>5. Len(from) \in Nat /\ DOMAIN data' = Inodes
  BY <1>4 DEF Inodes
<1>6. /\ \A i \in Inodes : Gets(i) \subseteq Chunks /\ Has(i) \subseteq Gets(i)
      /\ \A i \in Inodes : \A j \in DOMAIN data[i] : data[i][j] \in Has(i)
  BY InodeTypes DEF IInv, Gets, Has
<1>7. \A j \in DOMAIN from : from = data[f] /\ from[j] \in Has(f)
  BY <1>from, <1>6
<1>8. \A x \in Has(d)' : x \in Has(d) \/ x \in Has(f)
  <2> SUFFICES ASSUME NEW x \in Has(d)' PROVE x \in Has(d) \/ x \in Has(f)
    OBVIOUS
  <2>1. PICK j \in DOMAIN data'[d] : x = data'[d][j]
    BY DEF Has
  <2>2. CASE j <= Len(from)
    BY <1>4, <1>7, <2>1, <2>2
  <2>3. CASE j > Len(from)
    BY <1>4, <1>6, <2>1, <2>3
  <2> QED
    BY <1>4, <1>5, <2>1, <2>2, <2>3
<1>9. \A x \in Gets(d)' : x \in Gets(d) \/ x \in Gets(f)
  BY <1>1, <1>8 DEF Gets
<1>a. /\ Alive(h) /\ Alive(h)' /\ Writing(h) /\ ~Writing(h)'
      /\ \A g \in Handlers \ {h} : (Alive(g)' <=> Alive(g)) /\ (Writing(g)' <=> Writing(g))
  BY <1>2 DEF Alive, Writing
<1>b. /\ d \in Targets
      /\ d \notin strayed' => /\ f = tmp[name[h]] /\ d \notin strayed
                             /\ f \notin reused \cup strayed /\ f # d
  <2>1. d \in Targets
    BY <1>d, <1>2 DEF Targets
  <2>2. d \notin strayed' => f = tmp[name[h]] /\ d \notin strayed
    BY <1>s
  <2>3. f = tmp[name[h]] => f \notin reused \cup strayed /\ f # d
    BY <1>t, <1>d DEF IInv, TmpOK
  <2> QED
    BY <2>1, <2>2, <2>3
<1>c. d \notin reused => Gets(d) = {}
  BY <1>d, <1>2 DEF IInv, CopyOK
\* The two files have no chunk in common, and what is in its own is of its name.
<1>e. d \notin strayed' =>
        /\ Gets(f) \cap Gets(d) = {}
        /\ \A x \in Gets(f) : Alive(x.of) /\ name[x.of] = name[h] /\ x.of \in Handlers
  <2> SUFFICES ASSUME d \notin strayed'
               PROVE  /\ Gets(f) \cap Gets(d) = {}
                      /\ \A x \in Gets(f) : Alive(x.of) /\ name[x.of] = name[h] /\ x.of \in Handlers
    OBVIOUS
  <2>1. name[h] \in Names /\ tmp[name[h]] # 0 /\ f = tmp[name[h]] /\ d \in Targets \ strayed
    BY <1>t, <1>b
  <2>2. Gets(tmp[name[h]]) \cap Gets(d) = {}
    BY <2>1 DEF IInv, ApartOK
  <2>3. \A x \in Gets(tmp[name[h]]) : Alive(x.of) /\ name[x.of] = name[h]
    BY <2>1 DEF IInv, WritersOK
  <2>4. \A x \in Gets(f) : x.of \in Handlers
    BY <1>6 DEF Chunks
  <2> QED
    BY <2>1, <2>2, <2>3, <2>4
<1>g. \A g \in Handlers \ {h} : Alive(g) /\ name[g] = name[h] => g \in shared /\ h \in shared
  BY <1>a DEF IInv, SharedOK
<1>10. TmpOK'
  <2> SUFFICES ASSUME NEW n \in Names, tmp'[n] # 0
               PROVE  /\ \E g \in Handlers : Alive(g)' /\ name[g] = n
                      /\ \A m \in Names : tmp'[m] = tmp'[n] => m = n
                      /\ tmp'[n] # body /\ tmp'[n] \notin reused \cup strayed'
                      /\ \A g \in Handlers : tmp'[n] # dst[g]
    BY <1>1 DEF TmpOK
  <2>1. tmp'[n] = tmp[n] /\ n # name[h]
    BY <1>2
  <2>2. tmp[n] \notin strayed'
    BY <1>d, <1>s, <2>1 DEF IInv, TmpOK
  <2> QED
    BY <1>2, <1>a, <2>1, <2>2 DEF IInv, TmpOK
<1>11. SharedOK'
  BY <1>1, <1>a DEF IInv, SharedOK
<1>12. OwnFileOK'
  <2> SUFFICES ASSUME NEW g \in Handlers, g \notin shared
               PROVE  /\ pc'[g] # "error"
                      /\ Writing(g)' =>
                           /\ tmp'[name[g]] # 0
                           /\ \A i \in Inodes : \A x \in Gets(i)' : x.of = g => i = tmp'[name[g]]
    BY <1>1, <1>4 DEF OwnFileOK, File
  <2>1. /\ pc[g] # "error"
        /\ Writing(g) => /\ tmp[name[g]] # 0
                         /\ \A i \in Inodes : \A x \in Gets(i) : x.of = g => i = tmp[name[g]]
    BY DEF IInv, OwnFileOK, File
  <2>2. CASE g = h
    BY <1>2, <1>a, <2>2
  <2>3. CASE g # h
    <3>1. Writing(g) => name[g] # name[h]
      BY <1>g, <2>3 DEF Writing, Alive
    <3>2. Writing(g) => tmp'[name[g]] = tmp[name[g]]
      BY <1>t, <1>2, <3>1
    <3>3. ASSUME Writing(g), NEW i \in Inodes, NEW x \in Gets(i)', x.of = g
          PROVE  x \in Gets(i)
      <4>1. CASE i # d
        BY <1>4, <3>3, <4>1
      <4>2. CASE i = d
        <5>1. x \notin Gets(f)  \* what the copy reads is under no other name
          <6> SUFFICES ASSUME x \in Gets(f) PROVE FALSE
            OBVIOUS
          <6>1. f = tmp[name[g]]
            BY <2>1, <3>3
          <6>2. \A n \in Names : tmp[n] = f => n = name[h]
            BY <1>2, <1>f DEF IInv, SourceOK
          <6> QED
            BY <1>t, <3>1, <3>3, <6>1, <6>2
        <5> QED
          BY <1>9, <3>3, <4>2, <5>1
      <4> QED
        BY <4>1, <4>2
    <3> QED
      BY <1>2, <1>a, <2>1, <2>3, <3>2, <3>3
  <2> QED
    BY <2>2, <2>3
<1>13. WritersOK'
  <2> SUFFICES ASSUME NEW n \in Names, tmp'[n] # 0, NEW k \in Inodes, k = tmp'[n], NEW x \in Gets(k)'
               PROVE  Alive(x.of)' /\ name[x.of] = n
    <3>1. tmp' \in [Names -> {0} \cup Inodes]
      BY <1>4 DEF TypeOK
    <3> QED
      BY <1>1, <3>1 DEF WritersOK
  <2>1. tmp[n] = k
    BY <1>2
  <2>2. k # d
    BY <1>d, <2>1 DEF IInv, TmpOK
  <2>3. x \in Gets(k) /\ x.of \in Handlers
    BY <1>4, <1>6, <2>2 DEF Chunks
  <2>4. Alive(x.of) /\ name[x.of] = n
    BY <2>1, <2>3, <1>t DEF IInv, WritersOK
  <2> QED
    BY <1>a, <2>3, <2>4
<1>14. SentOK'
  <2>1. ASSUME NEW i \in Inodes, NEW x \in Gets(i)' PROVE x.n <= sent[x.of]
    <3>1. CASE i # d
      BY <1>4, <2>1, <3>1 DEF IInv, SentOK
    <3>2. CASE i = d
      BY <1>9, <2>1, <3>2 DEF IInv, SentOK
    <3> QED
      BY <3>1, <3>2
  <2> QED
    BY <1>1, <1>2, <1>4, <2>1 DEF IInv, SentOK
<1>15. OneBodyOK'
  <2> SUFFICES ASSUME NEW i \in Inodes \ (reused \cup strayed'), NEW x \in Gets(i)', NEW y \in Gets(i)', x.of # y.of
               PROVE  x.of \in shared
    BY <1>1, <1>4 DEF OneBodyOK
  <2>1. CASE i # d
    BY <1>4, <1>s, <2>1 DEF IInv, OneBodyOK
  <2>2. CASE i = d
    <3>1. f \in Inodes \ (reused \cup strayed) /\ x \in Gets(f) /\ y \in Gets(f)
      BY <1>9, <1>b, <1>c, <2>2
    <3> QED
      BY <3>1 DEF IInv, OneBodyOK
  <2> QED
    BY <2>1, <2>2
<1>16. CopyOK'
  <2> SUFFICES ASSUME NEW g \in Handlers, pc'[g] = "copying", NEW e, e = dst[g]
               PROVE  /\ e # 0
                      /\ e \notin reused =>
                           /\ Gets(e)' = {}
                           /\ \A k \in Handlers : pc'[k] = "copying" /\ dst[k] = e => k = g
    BY <1>1 DEF CopyOK
  <2>1. pc[g] = "copying" /\ g # h /\ e \in Inodes
    BY <1>t, <1>2 DEF IInv, CopyOK
  <2>2. e \notin reused => /\ Gets(e) = {}
                           /\ \A k \in Handlers : pc[k] = "copying" /\ dst[k] = e => k = g
    BY <2>1 DEF IInv, CopyOK
  <2>3. e \notin reused => e # d
    BY <1>2, <1>d, <2>1, <2>2
  <2> QED
    BY <1>t, <1>2, <1>4, <2>1, <2>2, <2>3
<1>17. ApartOK'
  <2> SUFFICES ASSUME NEW n \in Names, tmp'[n] # 0, NEW k \in Inodes, k = tmp'[n], NEW i \in Targets' \ strayed'
               PROVE  Gets(k)' \cap Gets(i)' = {}
    <3>1. tmp' \in [Names -> {0} \cup Inodes]
      BY <1>4 DEF TypeOK
    <3> QED
      BY <3>1 DEF ApartOK
  <2>1. tmp[n] = k /\ n # name[h]
    BY <1>2
  <2>2. k # d /\ Gets(k)' = Gets(k)
    BY <1>4, <1>d, <2>1 DEF IInv, TmpOK
  <2>3. i \in Targets \ strayed /\ i \in Inodes
    BY <1>t, <1>1, <1>2, <1>s DEF IInv, Targets, CopyOK
  <2>4. Gets(k) \cap Gets(i) = {}
    BY <2>1, <2>3 DEF IInv, ApartOK
  <2>5. CASE i # d
    BY <1>4, <2>2, <2>3, <2>4, <2>5
  <2>6. CASE i = d
    <3>1. \A x \in Gets(k) : name[x.of] = n
      BY <2>1 DEF IInv, WritersOK
    <3>2. ASSUME NEW x \in Gets(k), x \in Gets(d)' PROVE FALSE
      BY <1>9, <1>e, <2>1, <2>4, <2>6, <3>1, <3>2
    <3> QED
      BY <2>2, <2>6, <3>2
  <2> QED
    BY <2>5, <2>6
<1>18. OnceOK'
  <2>1. \A u, v \in flight' : u.chunk = v.chunk => u = v
    BY <1>1 DEF IInv, OnceOK
  <2>2. ASSUME NEW v \in flight, v.ino \notin strayed' PROVE v.chunk \notin Has(v.ino)'
    <3>1. PICK i \in Inodes : i = v.ino
      BY InodeTypes DEF IInv
    <3>2. v.chunk \notin Has(i) /\ v.chunk \in Gets(i)
      BY <1>s, <2>2, <3>1 DEF IInv, OnceOK, Gets
    <3>3. v.chunk \notin Has(i)'
      <4>1. CASE i = d
        BY <1>6, <1>8, <1>e, <2>2, <3>1, <3>2, <4>1
      <4>2. CASE i # d
        BY <1>4, <3>2, <4>2
      <4> QED
        BY <4>1, <4>2
    <3> QED
      BY <3>1, <3>3
  <2> QED
    BY <1>1, <2>1, <2>2 DEF OnceOK
<1>19. InOrder'
  <2> DEFINE Fine(x, y, ino) ==
        IF x.of \in crowded \/ (x.of \in shared /\ ino \in reused) THEN x # y ELSE x.n < y.n
  <2> SUFFICES ASSUME NEW ino \in Inodes \ strayed', NEW i \in DOMAIN data'[ino], NEW j \in DOMAIN data'[ino],
                      i < j, data'[ino][i].of = data'[ino][j].of
               PROVE  Fine(data'[ino][i], data'[ino][j], ino)
    BY <1>1, <1>5 DEF InOrder
  <2>1. \A k \in Inodes \ strayed : \A a, b \in DOMAIN data[k] :
           a < b /\ data[k][a].of = data[k][b].of => Fine(data[k][a], data[k][b], k)
    BY InodeTypes DEF IInv, InOrder
  <2>2. CASE ino # d
    <3>1. ino \in Inodes \ strayed /\ data'[ino] = data[ino]
      BY <1>4, <1>s, <2>2
    <3>2. i \in DOMAIN data[ino] /\ j \in DOMAIN data[ino] /\ data[ino][i].of = data[ino][j].of
      BY <3>1
    <3> QED
      BY <2>1, <3>1, <3>2
  <2>3. CASE ino = d
    <3>1. CASE i <= Len(from) /\ j <= Len(from)
      <4>1. /\ f \in Inodes \ strayed /\ i \in DOMAIN data[f] /\ j \in DOMAIN data[f]
            /\ data'[d][i] = data[f][i] /\ data'[d][j] = data[f][j]
        BY <1>4, <1>7, <1>b, <2>3, <3>1
      <4>2. Fine(data[f][i], data[f][j], f)
        BY <2>1, <2>3, <4>1
      <4>3. data[f][i] \in Chunks /\ data[f][j] \in Chunks
        BY <1>6, <4>1
      <4>4. data[f][i].n < data[f][j].n => data[f][i] # data[f][j]
        BY <4>3 DEF Chunks
      <4> QED
        BY <1>b, <2>3, <4>1, <4>2, <4>4
    <3>2. CASE i > Len(from)
      <4>1. j > Len(from)
        BY <1>4, <1>5, <2>3, <3>2
      <4>2. /\ i \in DOMAIN data[d] /\ j \in DOMAIN data[d]
            /\ data'[d][i] = data[d][i] /\ data'[d][j] = data[d][j]
        BY <1>4, <2>3, <3>2, <4>1
      <4> QED
        BY <1>b, <2>1, <2>3, <4>2
    <3>3. CASE i <= Len(from) /\ j > Len(from)
      <4> DEFINE x == data'[d][i]
                 y == data'[d][j]
      <4>1. f \in Inodes /\ x \in Gets(f) /\ y \in Gets(d) /\ x.of = y.of
        BY <1>4, <1>6, <1>7, <2>3, <3>3
      <4> HIDE DEF x, y
      <4>2. x # y
        BY <1>e, <2>3, <4>1
      <4>3. x.of \in crowded \/ (x.of \in shared /\ d \in reused)
        <5>1. d \in reused
          BY <1>c, <4>1
        <5>2. x.of # h => x.of \in shared
          BY <1>e, <1>g, <2>3, <4>1
        <5>3. x.of = h => h \in shared  \* its own chunks are in its own file
          <6> SUFFICES ASSUME x.of = h, h \notin shared PROVE FALSE
            OBVIOUS
          <6>1. d = tmp[name[h]]
            BY <1>a, <4>1 DEF IInv, OwnFileOK, File
          <6> QED
            BY <1>b, <2>3, <6>1
        <5> QED
          BY <5>1, <5>2, <5>3
      <4> QED
        BY <2>3, <4>2, <4>3 DEF x, y
    <3> QED
      BY <1>4, <1>5, <2>3, <3>1, <3>2, <3>3
  <2> QED
    BY <2>2, <2>3
<1>20. SourceOK'
  BY <1>1, <1>2, SourceStep
<1> QED
  BY <1>20, <1>10, <1>11, <1>12, <1>13, <1>14, <1>15, <1>16, <1>17, <1>18, <1>19 DEF IInv

-----------------------------------------------------------------------------
(* The invariant, and what the runs check *)

LEMMA InvInit == Init => IInv
<1> SUFFICES ASSUME Init PROVE IInv
  OBVIOUS
<1>1. data = <<>> /\ Inodes = {} /\ flight = {} /\ body = 0
  BY DEF Init, Inodes
<1>2. TypeOK
  <2>1. data \in Seq(Seq(Chunks))
    BY <1>1
  <2> QED
    BY <1>1, <2>1, BodyStreamAssumption DEF Init, TypeOK
<1>3. DOMAIN data = {}
  BY <1>1, EmptyDomain
<1>4. TmpOK /\ SharedOK /\ OwnFileOK /\ WritersOK /\ CopyOK /\ ApartOK /\ SourceOK
  BY <1>1 DEF Init, TmpOK, SourceOK, SharedOK, OwnFileOK, WritersOK, CopyOK, ApartOK, Alive, Writing
<1>5. SentOK /\ OneBodyOK /\ OnceOK /\ InOrder
  BY <1>1, <1>3 DEF Init, SentOK, OneBodyOK, OnceOK, InOrder
<1> QED
  BY <1>2, <1>4, <1>5 DEF IInv

LEMMA InvStep == IInv /\ [Next]_vars => IInv'
<1> SUFFICES ASSUME IInv, [Next]_vars PROVE IInv'
  OBVIOUS
<1>1. TypeOK'
  BY TypeStep DEF IInv
<1>2. CASE UNCHANGED vars
  BY <1>2, StutterStep
<1>3. CASE Purge
  BY <1>1, <1>3, PurgeStep
<1>4. ASSUME NEW w \in flight, Land(w) PROVE IInv'
  BY <1>1, <1>4, LandStep
<1>5. ASSUME NEW h \in Handlers,
             MissingFile(h, {"body", "eof", "copy"}) \/ Rename(h) \/ RenameFails(h) \/ Drop(h)
      PROVE  IInv'
  BY <1>1, <1>5, HandlerStep
<1>6. ASSUME NEW h \in Handlers, WriteBody(h) \/ WriteLast(h) PROVE IInv'
  BY <1>1, <1>6, WriteStep
<1>7. ASSUME NEW h \in Handlers, CreateTmp(h) PROVE IInv'
  BY <1>1, <1>7, CreateTmpStep
<1>8. ASSUME NEW h \in Handlers, CopyOpen(h) PROVE IInv'
  BY <1>1, <1>8, CopyOpenStep
<1>9. ASSUME NEW h \in Handlers, Copy(h) PROVE IInv'
  BY <1>1, <1>9, CopyStep
<1>10. ASSUME NEW h \in Handlers, CopyFrom(h) PROVE IInv'
  BY <1>1, <1>10, CopyFromStep
<1> QED
  BY <1>2, <1>3, <1>4, <1>5, <1>6, <1>7, <1>8, <1>9, <1>10 DEF Next

\* The invariant holds of every behaviour, and with it each of its parts.
THEOREM Invariant == Spec => []IInv
<1>1. IInv /\ [Next]_vars => IInv'
  BY InvStep
<1> QED
  BY InvInit, <1>1, PTL DEF Spec

\* Every variable has its type.
THEOREM TypeCorrect == Spec => []TypeOK
<1>1. IInv => TypeOK
  BY DEF IInv
<1> QED
  BY Invariant, <1>1, PTL

\* No file of write_body and finish holds bytes of two bodies, unless the clock gave
\* their handlers one temporary name or a copy went into an earlier body's inode.
THEOREM OneBodyHolds == Spec => []OneBody
<1>1. IInv => OneBody
  <2> SUFFICES ASSUME IInv, NEW ino \in DOMAIN data \ (reused \cup strayed),
                      NEW i \in DOMAIN data[ino], NEW j \in DOMAIN data[ino],
                      data[ino][i].of # data[ino][j].of
               PROVE  data[ino][i].of \in shared /\ data[ino][j].of \in shared
    BY DEF OneBody
  <2>1. ino \in Inodes /\ data[ino][i] \in Gets(ino) /\ data[ino][j] \in Gets(ino)
    BY InodeTypes DEF IInv, Gets, Has
  <2> QED
    BY <2>1 DEF IInv, OneBodyOK
<1> QED
  BY Invariant, <1>1, PTL

\* The chunks of write_body arrive at most once and in order, whatever the blocking
\* pool and the copy after a failed rename do.
THEOREM InOrderHolds == Spec => []InOrder
<1>1. IInv => InOrder
  BY DEF IInv
<1> QED
  BY Invariant, <1>1, PTL

\* write_body and finish find the temporary file of their handler.
THEOREM FindsItsFileHolds == Spec => []FindsItsFile
<1>1. IInv => FindsItsFile
  BY DEF IInv, OwnFileOK, FindsItsFile
<1> QED
  BY Invariant, <1>1, PTL

=============================================================================
