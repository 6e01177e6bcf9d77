---------------------------- MODULE InspectorProofs ----------------------------
(***************************************************************************)
(* The inspector, for every directory tree and any number of requests.     *)
(***************************************************************************)
EXTENDS Inspector, FiniteSetTheorems, TLAPS

-----------------------------------------------------------------------------
(* Paths *)

\* Every node lies in the root or in a directory of it.
LEMMA AboveTypes ==
  \A n \in Nodes : /\ Above(n) \subseteq {Root} \cup Dirs
                   /\ Root \in Above(n)
                   /\ n # Root => n \in Dirs \cup Files /\ Parent[n] \in {Root} \cup Dirs
BY InspectorAssumption DEF Nodes, Above

\* A tree stays one when something appears with all above it, ...
LEMMA AppearsTree ==
  ASSUME fs \in SUBSET Nodes, \A n \in fs : Above(n) \subseteq fs,
         NEW S \in SUBSET Nodes, \A n \in S : Above(n) \subseteq fs \cup S, fs' = fs \cup S
  PROVE  fs' \in SUBSET Nodes /\ \A n \in fs' : Above(n) \subseteq fs'
OBVIOUS

\* ... or a leaf disappears.
LEMMA DisappearsTree ==
  ASSUME fs \in SUBSET Nodes, \A n \in fs : Above(n) \subseteq fs,
         NEW d \in Nodes \ {Root}, Children(d) \cap fs = {}, fs' = fs \ {d}
  PROVE  fs' \in SUBSET Nodes /\ \A n \in fs' : Above(n) \subseteq fs'
<1> SUFFICES ASSUME NEW n \in fs', d \in Above(n) PROVE FALSE
  OBVIOUS
<1>1. n \in fs /\ n \in Nodes /\ n # d
  OBVIOUS
<1>2. n # Root /\ d = Parent[n]
  BY <1>1 DEF Above
<1>3. n \in Children(d)
  BY <1>1, <1>2, AboveTypes DEF Children
<1> QED
  BY <1>1, <1>3

-----------------------------------------------------------------------------
(* The storage *)

Pcs == {"idle", "ok", "not_found", "panic", "lost"} \cup OpenPc

\* Requests do not notice what appears: nothing but fs changes.
LEMMA AppearsStep ==
  ASSUME IInv, NEW S \in SUBSET Nodes, \A n \in S : Above(n) \subseteq fs \cup S, Appears(S)
  PROVE  IInv'
<1>1. fs' = fs \cup S /\ UNCHANGED <<reqVars, procVars, due, gone, failed>>
  BY DEF Appears
<1>2. UNCHANGED <<pc, tail, items, plain, page, server, daemon, thread, handle, panicked, due, gone,
                 failed>>
  BY <1>1 DEF reqVars, procVars
<1>3. fs' \in SUBSET Nodes /\ \A n \in fs' : Above(n) \subseteq fs'
  BY <1>1, AppearsTree DEF IInv, TypeOK
<1>4. TypeOK'
  BY <1>2, <1>3 DEF IInv, TypeOK
<1>5. AbsentOK'
  BY <1>1, <1>2 DEF IInv, AbsentOK, Open
<1>6. ItemsOK' /\ PageOK'
  BY <1>2 DEF IInv, ItemsOK, PageOK, ShownAsDirs
<1>7. NotFoundMeansAbsent'
  BY <1>2 DEF IInv, NotFoundMeansAbsent
<1> QED
  BY <1>4, <1>5, <1>6, <1>7 DEF IInv

\* What disappears is gone for those who ask for it, and due to nobody.
LEMMA DisappearsStep ==
  ASSUME IInv, NEW d \in Nodes \ {Root}, Children(d) \cap fs = {}, Disappears(d)
  PROVE  IInv'
<1>1. /\ fs' = fs \ {d} /\ due' = [r \in Requests |-> due[r] \ {d}]
      /\ gone' = gone \cup {r \in Open : tail[r] = d}
      /\ UNCHANGED <<reqVars, procVars, failed>>
  BY DEF Disappears
<1>2. UNCHANGED <<pc, tail, items, plain, page, server, daemon, thread, handle, panicked, failed>>
  BY <1>1 DEF reqVars, procVars
<1>3. fs' \in SUBSET Nodes /\ \A n \in fs' : Above(n) \subseteq fs'
  BY <1>1, DisappearsTree DEF IInv, TypeOK
<1>4. \A r \in Requests : due'[r] = due[r] \ {d}
  BY <1>1
<1>5. due' \in [Requests -> SUBSET Nodes] /\ gone' \in SUBSET Requests
  BY <1>1 DEF IInv, TypeOK, Open
<1>6. TypeOK'
  BY <1>2, <1>3, <1>5 DEF IInv, TypeOK
<1>7. AbsentOK'
  BY <1>1, <1>2 DEF IInv, AbsentOK, Open
<1>8. ItemsOK'
  BY <1>2 DEF IInv, ItemsOK
<1>9. PageOK'
  BY <1>2, <1>4 DEF IInv, PageOK, ShownAsDirs
<1>10. NotFoundMeansAbsent'
  BY <1>1, <1>2 DEF IInv, NotFoundMeansAbsent
<1> QED
  BY <1>6, <1>7, <1>8, <1>9, <1>10 DEF IInv

LEMMA StorageStep ==
  ASSUME IInv, Storage
  PROVE  IInv'
<1>1. ASSUME NEW d \in Dirs \cup {Root}, MakeDir(d) PROVE IInv'
  <2> DEFINE S == Above(d) \cup {d}
  <2>1. S \subseteq {Root} \cup Dirs /\ S \in SUBSET Nodes
    BY AboveTypes DEF Nodes
  <2>2. \A n \in S : Above(n) \subseteq S
    BY InspectorAssumption DEF Above
  <2> QED
    BY <1>1, <2>1, <2>2, AppearsStep DEF MakeDir
<1>2. ASSUME NEW f \in Files, PutFile(f) PROVE IInv'
  <2>1. f \in Nodes /\ Above(f) = {Root, Parent[f]} /\ Parent[f] \in fs
    BY <1>2, InspectorAssumption DEF PutFile, Nodes, Above
  <2>2. Root \in fs
    BY <2>1, AboveTypes DEF IInv, TypeOK
  <2>3. Appears({f})
    BY <1>2 DEF PutFile
  <2> QED
    BY <2>1, <2>2, <2>3, AppearsStep
<1>3. ASSUME NEW d \in Dirs \cup {Root}, RemoveDir(d) PROVE IInv'
  BY <1>3, DisappearsStep DEF RemoveDir, Nodes
<1>4. ASSUME NEW f \in Files, RemoveFile(f) PROVE IInv'
  <2>1. f \in Nodes \ {Root} /\ Children(f) = {}
    BY InspectorAssumption DEF Nodes, Children
  <2> QED
    BY <1>4, <2>1, DisappearsStep DEF RemoveFile
<1> QED
  BY <1>1, <1>2, <1>3, <1>4 DEF Storage

-----------------------------------------------------------------------------
(* Requests *)

\* The steps that only choose the next one.
LEMMA LookStep ==
  ASSUME IInv, NEW r \in Requests,
         Page(r) \/ Metadata(r) \/ Canonicalize(r) \/ IsDir(r) \/ Read(r) \/ NextEntryFails(r)
  PROVE  IInv'
<1>t. pc \in [Requests -> Pcs]
  BY DEF IInv, TypeOK, Pcs
<1>1. UNCHANGED <<fs, tail, items, plain, page, server, daemon, thread, handle, panicked, due,
                gone>>
  BY DEF Page, Metadata, Canonicalize, IsDir, Read, NextEntryFails, procVars
<1>2. \A q \in Requests \ {r} : pc'[q] = pc[q]
  BY <1>t DEF Page, Metadata, Canonicalize, IsDir, Read, NextEntryFails, Step, Fails
<1>f. failed' \in SUBSET Requests /\ failed \subseteq failed'
  BY DEF Page, Metadata, Canonicalize, IsDir, Read, NextEntryFails, Fails, IInv, TypeOK
<1>3. /\ pc' \in [Requests -> Pcs]
      /\ pc[r] \in {"idle", "metadata", "canonicalize", "is_dir", "read", "next_entry"}
      /\ pc'[r] \in {"ok", "panic", "canonicalize", "is_dir", "not_found", "read", "read_dir"}
  BY <1>t DEF Page, Metadata, Canonicalize, IsDir, Read, NextEntryFails, Step, Fails, Pcs, OpenPc
\* What a request does next fits what its path names.
<1>4. /\ pc'[r] \in OpenPc => pc[r] \in OpenPc
      /\ pc'[r] = "not_found" => r \in gone \cup failed'
      /\ pc'[r] = "read" => tail[r] \in Files \/ r \in gone \cup failed'
      /\ pc'[r] = "read_dir" => tail[r] \notin Files
  <2>0. /\ pc[r] \in OpenPc /\ tail[r] \notin fs => r \in gone
        /\ pc[r] = "read" => tail[r] \in Files \/ r \in gone \cup failed
    BY DEF IInv, AbsentOK, Open
  <2>1. CASE Page(r)
    BY <1>t, <2>1 DEF Page, OpenPc
  <2>2. CASE Metadata(r)
    BY <1>t, <2>0, <2>2 DEF Metadata, Step, Fails, OpenPc
  <2>3. CASE Canonicalize(r)
    BY <1>t, <2>0, <2>3 DEF Canonicalize, Step, Fails, OpenPc
  <2>4. CASE IsDir(r)
    BY <1>t, <2>0, <2>4 DEF IsDir, Step, Fails, OpenPc
  <2>5. CASE Read(r)
    BY <1>t, <2>0, <2>5 DEF Read, Step, Fails, OpenPc
  <2>6. CASE NextEntryFails(r)
    BY <1>t, <2>6 DEF NextEntryFails, Step, Fails, OpenPc
  <2> QED
    BY <2>1, <2>2, <2>3, <2>4, <2>5, <2>6
<1>5. TypeOK'
  BY <1>1, <1>3, <1>f DEF IInv, TypeOK, Pcs
<1>6. AbsentOK'
  BY <1>1, <1>2, <1>4, <1>f DEF IInv, AbsentOK, Open
<1>7. ItemsOK'
  BY <1>1, <1>2, <1>3, <1>f DEF IInv, ItemsOK
<1>8. PageOK'
  BY <1>1, <1>2, <1>3 DEF IInv, PageOK, ShownAsDirs
<1>9. NotFoundMeansAbsent'
  BY <1>1, <1>2, <1>3, <1>4, <1>f DEF IInv, NotFoundMeansAbsent
<1> QED
  BY <1>5, <1>6, <1>7, <1>8, <1>9 DEF IInv

LEMMA CacheStartStep ==
  ASSUME IInv, NEW r \in Requests, NEW n \in Nodes, CacheStart(r, n)
  PROVE  IInv'
<1>t. /\ pc \in [Requests -> Pcs] /\ tail \in [Requests -> Nodes] /\ gone \in SUBSET Requests
      /\ failed \in SUBSET Requests
  BY DEF IInv, TypeOK, Pcs
<1>1. UNCHANGED <<fs, items, plain, page, server, daemon, thread, handle, panicked, due>>
  BY DEF CacheStart, procVars
<1>2. /\ \A q \in Requests \ {r} : pc'[q] = pc[q] /\ tail'[q] = tail[q]
      /\ pc[r] = "idle" /\ pc'[r] \in {"metadata", "not_found"}
      /\ pc'[r] = "not_found" => Root \notin fs \/ r \in failed'
      /\ failed \subseteq failed' /\ failed' \in SUBSET Requests
      /\ tail'[r] = n
      /\ gone \subseteq gone' /\ (n \notin fs => r \in gone')
  BY <1>t DEF CacheStart, Fails, Step
<1>3. pc' \in [Requests -> Pcs] /\ tail' \in [Requests -> Nodes] /\ gone' \in SUBSET Requests
  BY <1>t DEF CacheStart, Fails, Step, Pcs, OpenPc
<1>4. n \in fs => Root \in fs
  BY AboveTypes DEF IInv, TypeOK
<1>5. TypeOK'
  BY <1>1, <1>2, <1>3 DEF IInv, TypeOK, Pcs
<1>6. AbsentOK'
  BY <1>1, <1>2 DEF IInv, AbsentOK, Open
<1>7. ItemsOK'
  <2>1. items[r] = {} /\ IsFiniteSet(items[r])
    BY <1>2 DEF IInv, ItemsOK
  <2>2. pc'[r] # "idle"
    BY <1>2
  <2> SUFFICES ASSUME NEW q \in Requests
               PROVE  /\ items[q] \subseteq Children(tail'[q]) /\ IsFiniteSet(items[q])
                      /\ plain[q] # {} => q \in failed'
                      /\ pc'[q] = "idle" => items[q] = {}
    BY <1>1 DEF ItemsOK, Children
  <2> QED
    BY <1>2, <2>1, <2>2 DEF IInv, ItemsOK
<1>8. PageOK'
  BY <1>1, <1>2 DEF IInv, PageOK, ShownAsDirs
<1>9. NotFoundMeansAbsent'
  BY <1>1, <1>2, <1>4 DEF IInv, NotFoundMeansAbsent
<1> QED
  BY <1>5, <1>6, <1>7, <1>8, <1>9 DEF IInv

LEMMA ReadDirStep ==
  ASSUME IInv, NEW r \in Requests, ReadDir(r)
  PROVE  IInv'
<1>t. /\ pc \in [Requests -> Pcs] /\ due \in [Requests -> SUBSET Nodes]
      /\ tail \in [Requests -> Nodes] /\ failed \in SUBSET Requests
  BY DEF IInv, TypeOK, Pcs
<1>1. UNCHANGED <<fs, tail, items, plain, page, server, daemon, thread, handle, panicked, gone>>
  BY DEF ReadDir, procVars
<1>2. /\ \A q \in Requests \ {r} : pc'[q] = pc[q] /\ due'[q] = due[q]
      /\ pc[r] = "read_dir"
      /\ pc'[r] \in {"next_entry", "not_found"}
      /\ pc'[r] = "not_found" => tail[r] \notin fs \ Files \/ r \in failed'
      /\ failed \subseteq failed' /\ failed' \in SUBSET Requests
  BY <1>t DEF ReadDir, Step, Fails
<1>3. pc' \in [Requests -> Pcs] /\ due' \in [Requests -> SUBSET Nodes]
  BY <1>t DEF ReadDir, Step, Fails, Pcs, OpenPc, Children, Nodes
<1>4. pc'[r] = "not_found" => r \in gone \cup failed'
  BY <1>2 DEF IInv, AbsentOK, Open, OpenPc
<1>5. TypeOK'
  BY <1>1, <1>2, <1>3 DEF IInv, TypeOK, Pcs
<1>6. AbsentOK'
  BY <1>1, <1>2 DEF IInv, AbsentOK, Open, OpenPc
<1>7. ItemsOK'
  BY <1>1, <1>2 DEF IInv, ItemsOK
<1>8. PageOK'
  BY <1>1, <1>2 DEF IInv, PageOK, ShownAsDirs
<1>9. NotFoundMeansAbsent'
  BY <1>1, <1>2, <1>4 DEF IInv, NotFoundMeansAbsent
<1> QED
  BY <1>5, <1>6, <1>7, <1>8, <1>9 DEF IInv

LEMMA NextEntryStep ==
  ASSUME IInv, NEW r \in Requests, NEW n \in Nodes, NextEntry(r, n)
  PROVE  IInv'
<1>t. /\ pc \in [Requests -> Pcs] /\ items \in [Requests -> SUBSET Nodes]
      /\ plain \in [Requests -> SUBSET Nodes] /\ failed \in SUBSET Requests
  BY DEF IInv, TypeOK, Pcs
<1>1. UNCHANGED <<fs, tail, page, server, daemon, thread, handle, panicked, due,
                gone>>
  BY DEF NextEntry, procVars
<1>2. /\ pc' = pc /\ pc[r] = "next_entry" /\ n \in Children(tail[r])
      /\ items' = [items EXCEPT ![r] = items[r] \cup {n}]
      /\ failed \subseteq failed' /\ failed' \in SUBSET Requests
  BY <1>t DEF NextEntry, Step, Fails
<1>p. /\ plain' \in [Requests -> SUBSET Nodes]
      /\ plain'[r] # plain[r] => r \in failed'
      /\ \A q \in Requests \ {r} : plain'[q] = plain[q]
  BY <1>t DEF NextEntry, Fails
<1>3. items' \in [Requests -> SUBSET Nodes]
  BY <1>t, <1>2
<1>4. \A q \in Requests : items'[q] = IF q = r THEN items[r] \cup {n} ELSE items[q]
  BY <1>t, <1>2
<1>5. TypeOK'
  BY <1>1, <1>2, <1>3, <1>p DEF IInv, TypeOK, Pcs
<1>6. AbsentOK'
  BY <1>1, <1>2 DEF IInv, AbsentOK, Open
<1>7. ItemsOK'
  <2>1. IsFiniteSet(items[r] \cup {n})
    BY FS_AddElement DEF IInv, ItemsOK
  <2> QED
    BY <1>1, <1>2, <1>4, <1>p, <2>1 DEF IInv, ItemsOK
<1>8. PageOK'
  <2> SUFFICES ASSUME NEW q \in Requests, page[q] # NoPage
               PROVE  /\ pc[q] = "ok" /\ due[q] \subseteq items'[q]
                      /\ page[q] \in Bijection(1..Cardinality(items'[q]), items'[q])
                      /\ \A i, j \in DOMAIN page[q] :
                           i < j => ~Precedes(Dirs \ plain'[q], page[q][j], page[q][i])
    BY <1>1, <1>2 DEF PageOK, ShownAsDirs, Precedes, Less
  <2>1. pc[q] = "ok" /\ items'[q] = items[q] /\ plain'[q] = plain[q]
    BY <1>2, <1>4, <1>p DEF IInv, PageOK
  <2> QED
    BY <2>1 DEF IInv, PageOK, ShownAsDirs
<1>9. NotFoundMeansAbsent'
  BY <1>1, <1>2 DEF IInv, NotFoundMeansAbsent
<1> QED
  BY <1>5, <1>6, <1>7, <1>8, <1>9 DEF IInv

LEMMA EndOfDirStep ==
  ASSUME IInv, NEW r \in Requests, EndOfDir(r)
  PROVE  IInv'
<1>t. /\ pc \in [Requests -> Pcs] /\ items \in [Requests -> SUBSET Nodes]
      /\ page \in [Requests -> {NoPage} \cup Seq(Nodes)]
  BY DEF IInv, TypeOK, Pcs
<1>1. UNCHANGED <<fs, tail, items, plain, server, daemon, thread, handle, panicked, due,
                gone, failed>>
  BY DEF EndOfDir, procVars
<1>2. PICK list \in Bijection(1..Cardinality(items[r]), items[r]) :
        /\ \A i, j \in DOMAIN list : i < j => ~Precedes(ShownAsDirs(r), list[j], list[i])
        /\ page' = [page EXCEPT ![r] = list]
  BY DEF EndOfDir
<1>3. list \in Seq(Nodes)
  <2>1. Cardinality(items[r]) \in Nat
    BY FS_CardinalityType DEF IInv, ItemsOK
  <2>2. list \in [1..Cardinality(items[r]) -> items[r]] /\ items[r] \subseteq Nodes
    BY <1>t DEF Bijection, Injection
  <2> QED
    BY <2>1, <2>2
<1>4. /\ \A q \in Requests \ {r} : pc'[q] = pc[q] /\ page'[q] = page[q]
      /\ pc[r] = "next_entry" /\ pc'[r] = "ok" /\ page'[r] = list
      /\ due[r] \subseteq items[r]
  BY <1>t, <1>2 DEF EndOfDir, Step
<1>5. pc' \in [Requests -> Pcs] /\ page' \in [Requests -> {NoPage} \cup Seq(Nodes)]
  BY <1>t, <1>2, <1>3 DEF EndOfDir, Step, Pcs
<1>6. TypeOK'
  BY <1>1, <1>5 DEF IInv, TypeOK, Pcs
<1>7. AbsentOK'
  BY <1>1, <1>4 DEF IInv, AbsentOK, Open, OpenPc
<1>8. ItemsOK'
  BY <1>1, <1>4 DEF IInv, ItemsOK
<1>9. PageOK'
  <2> SUFFICES ASSUME NEW q \in Requests, page'[q] # NoPage
               PROVE  /\ pc'[q] = "ok" /\ due[q] \subseteq items[q]
                      /\ page'[q] \in Bijection(1..Cardinality(items[q]), items[q])
                      /\ \A i, j \in DOMAIN page'[q] :
                           i < j => ~Precedes(ShownAsDirs(q), page'[q][j], page'[q][i])
    BY <1>1 DEF PageOK, ShownAsDirs, Precedes, Less
  <2>1. CASE q = r
    BY <1>2, <1>4, <2>1
  <2>2. CASE q # r
    BY <1>4, <2>2 DEF IInv, PageOK
  <2> QED
    BY <2>1, <2>2
<1>10. NotFoundMeansAbsent'
  BY <1>1, <1>4 DEF IInv, NotFoundMeansAbsent
<1> QED
  BY <1>6, <1>7, <1>8, <1>9, <1>10 DEF IInv

-----------------------------------------------------------------------------
(* Start and stop *)

LEMMA ServerStep ==
  ASSUME IInv,
         Bind \/ RunForever \/ Terminate \/ Exit \/ Stop \/ Graceful \/ RunEnds \/ Join
  PROVE  IInv'
<1>t. pc \in [Requests -> Pcs]
  BY DEF IInv, TypeOK, Pcs
<1>1. UNCHANGED <<fs, tail, items, plain, page, daemon, due, gone, failed>>
  BY DEF Bind, RunForever, Terminate, Exit, Stop, Graceful, RunEnds, Join, reqVars
<1>2. /\ server' \in {"start", "up", "stopping", "exited"} /\ panicked' \in BOOLEAN
      /\ thread' \in {"bind", "serve", "drain", "ended", "lost"}
      /\ handle' \in {"full", "joining", "joined"}
  BY DEF Bind, RunForever, Terminate, Exit, Stop, Graceful, RunEnds, Join, IInv, TypeOK
\* Only open requests are lost.
<1>3. /\ pc' \in [Requests -> Pcs]
      /\ \A q \in Requests : \/ pc'[q] = pc[q]
                             \/ pc[q] \in OpenPc /\ pc'[q] = "lost"
  <2>1. CASE RunForever \/ Exit
    BY <1>t, <2>1 DEF RunForever, Exit, Lose, Pcs
  <2>2. CASE ~(RunForever \/ Exit)
    BY <1>t, <2>2 DEF Bind, Terminate, Stop, Graceful, RunEnds, Join, reqVars
  <2> QED
    BY <2>1, <2>2
<1>5. TypeOK'
  BY <1>1, <1>2, <1>3 DEF IInv, TypeOK, Pcs
<1>6. AbsentOK'
  BY <1>1, <1>3 DEF IInv, AbsentOK, Open, OpenPc
<1>7. ItemsOK'
  BY <1>1, <1>3 DEF IInv, ItemsOK
<1>8. PageOK'
  BY <1>1, <1>3 DEF IInv, PageOK, ShownAsDirs, OpenPc
<1>9. NotFoundMeansAbsent'
  BY <1>1, <1>3 DEF IInv, NotFoundMeansAbsent
<1> QED
  BY <1>5, <1>6, <1>7, <1>8, <1>9 DEF IInv

-----------------------------------------------------------------------------
(* The invariant, and what the runs check *)

LEMMA InvInit == Init => IInv
<1> SUFFICES ASSUME Init PROVE IInv
  OBVIOUS
<1>1. TypeOK
  <2>1. Root \in Nodes /\ daemon \in BOOLEAN /\ panicked \in BOOLEAN
    BY DEF Init, Nodes
  <2>2. fs \in SUBSET Nodes /\ \A n \in fs : Above(n) \subseteq fs
    BY DEF Init
  <2>3. /\ pc \in [Requests -> Pcs] /\ tail \in [Requests -> Nodes]
        /\ items \in [Requests -> SUBSET Nodes] /\ due \in [Requests -> SUBSET Nodes]
        /\ plain \in [Requests -> SUBSET Nodes]
        /\ page \in [Requests -> {NoPage} \cup Seq(Nodes)]
    BY <2>1 DEF Init, Pcs
  <2> QED
    BY <2>1, <2>2, <2>3 DEF Init, TypeOK, Pcs
<1>2. AbsentOK /\ PageOK /\ NotFoundMeansAbsent
  BY DEF Init, AbsentOK, PageOK, NotFoundMeansAbsent, Open, OpenPc
<1>3. ItemsOK
  BY FS_EmptySet DEF Init, ItemsOK
<1> QED
  BY <1>1, <1>2, <1>3 DEF IInv

LEMMA InvStep == IInv /\ [Next]_vars => IInv'
<1> SUFFICES ASSUME IInv, [Next]_vars PROVE IInv'
  OBVIOUS
<1>1. CASE Storage
  BY <1>1, StorageStep
<1>2. ASSUME NEW r \in Requests, Request(r) PROVE IInv'
  <2>1. CASE \/ Page(r) \/ Metadata(r) \/ Canonicalize(r) \/ IsDir(r) \/ Read(r)
             \/ NextEntryFails(r)
    BY <2>1, LookStep
  <2>2. ASSUME NEW n \in Nodes, CacheStart(r, n) PROVE IInv'
    BY <2>2, CacheStartStep
  <2>3. CASE ReadDir(r)
    BY <2>3, ReadDirStep
  <2>4. CASE EndOfDir(r)
    BY <2>4, EndOfDirStep
  <2>5. ASSUME NEW n \in Nodes, NextEntry(r, n) PROVE IInv'
    BY <2>5, NextEntryStep
  <2> QED
    BY <1>2, <2>1, <2>2, <2>3, <2>4, <2>5 DEF Request, Handle
<1>3. CASE Bind \/ RunForever \/ Terminate \/ Exit \/ Shutdown
  BY <1>3, ServerStep DEF Shutdown
<1>4. CASE UNCHANGED vars
  <2>1. UNCHANGED <<fs, pc, tail, items, plain, page, server, daemon, thread, handle, panicked, due,
                   gone, failed>>
    BY <1>4 DEF vars, reqVars, procVars
  <2>2. TypeOK' /\ AbsentOK' /\ ItemsOK'
    BY <2>1 DEF IInv, TypeOK, AbsentOK, ItemsOK, Open
  <2>3. PageOK' /\ NotFoundMeansAbsent'
    BY <2>1 DEF IInv, PageOK, ShownAsDirs, NotFoundMeansAbsent
  <2> QED
    BY <2>2, <2>3 DEF IInv
<1> QED
  BY <1>1, <1>2, <1>3, <1>4 DEF Next

\* The invariant holds of every behaviour, and with it each of its parts.
THEOREM Invariant == Spec => []IInv
<1>1. IInv /\ [Next]_vars => IInv'
  BY InvStep
<1> QED
  BY InvInit, <1>1, PTL DEF Spec

\* Every variable has its type, and nothing exists without its directory.
THEOREM TypeCorrect == Spec => []TypeOK
<1>1. IInv => TypeOK
  BY DEF IInv
<1> QED
  BY Invariant, <1>1, PTL

\* resolve_under_root and its callers answer 404 only for what was not there at some
\* moment of the request, or after an error of one of its own operations.
THEOREM NotFoundMeansAbsentHolds == Spec => []NotFoundMeansAbsent
<1>1. IInv => NotFoundMeansAbsent
  BY DEF IInv
<1> QED
  BY Invariant, <1>1, PTL

\* The comparator of render_dir_listing, reversed: directories last, later names first.
LEMMA PrecedesMeans ==
  ASSUME NEW D, NEW a, NEW b
  PROVE  Precedes(D, a, b) <=> \/ a \notin D /\ b \in D
                               \/ (a \in D <=> b \in D) /\ Rank[b] < Rank[a]
<1> DEFINE A == a \in D
           B == b \in D
<1>1. A \in BOOLEAN /\ B \in BOOLEAN
  OBVIOUS
<1>2. Precedes(D, a, b) <=> (~A /\ B) \/ (A = B /\ Rank[b] < Rank[a])
  BY DEF Precedes, Less
<1> QED
  BY <1>1, <1>2, Zenon

\* render_dir_listing lists what was there all along, once each, in the order of its
\* comparator.
THEOREM ListingOrderHolds == Spec => []ListingOrder
<1>1. IInv => ListingOrder
  <2> SUFFICES ASSUME IInv, NEW r \in Requests, page[r] # NoPage
      PROVE  /\ \A n \in due[r] : \E i \in DOMAIN page[r] : page[r][i] = n
             /\ \A i \in DOMAIN page[r] : Parent[page[r][i]] = tail[r]
             /\ plain[r] # {} => r \in failed
             /\ \A i, j \in DOMAIN page[r] : i < j =>
                  /\ page[r][i] # page[r][j]
                  /\ page[r][i] \in ShownAsDirs(r) => page[r][j] \in ShownAsDirs(r)
                  /\ (page[r][i] \in ShownAsDirs(r) <=> page[r][j] \in ShownAsDirs(r)) =>
                       Rank[page[r][i]] >= Rank[page[r][j]]
    BY DEF ListingOrder
  <2> DEFINE C == Cardinality(items[r])
             p == page[r]
             D == ShownAsDirs(r)
  <2>1. /\ due[r] \subseteq items[r]
        /\ p \in Bijection(1..C, items[r])
        /\ \A i, j \in DOMAIN p : i < j => ~Precedes(D, p[j], p[i])
        /\ items[r] \subseteq Children(tail[r]) /\ C \in Nat
        /\ plain[r] # {} => r \in failed
    BY FS_CardinalityType DEF IInv, PageOK, ItemsOK
  <2> HIDE DEF C, p, D
  <2>2. /\ p \in [1..C -> items[r]] /\ DOMAIN p = 1..C
        /\ \A i, j \in 1..C : p[i] = p[j] => i = j
        /\ \A n \in items[r] : \E i \in 1..C : p[i] = n
    BY <2>1 DEF Bijection, Injection, Surjection, IsInjective
  <2>3. \A i \in DOMAIN p : Parent[p[i]] = tail[r] /\ p[i] \in Dirs \cup Files
    BY <2>1, <2>2 DEF Children
  <2>4. ASSUME NEW i \in DOMAIN p, NEW j \in DOMAIN p, i < j
        PROVE  /\ p[i] # p[j] /\ (p[i] \in D => p[j] \in D)
               /\ (p[i] \in D <=> p[j] \in D) => Rank[p[i]] >= Rank[p[j]]
    <3>1. p[i] # p[j]
      BY <2>1, <2>2, <2>4
    <3>2. ~Precedes(D, p[j], p[i])
      BY <2>1, <2>4
    <3>3. Rank[p[i]] \in Nat /\ Rank[p[j]] \in Nat
      BY <2>3, InspectorAssumption
    <3> DEFINE a == p[i]
               b == p[j]
    <3> HIDE DEF a, b
    <3>4. ~(b \notin D /\ a \in D)
          /\ ~((b \in D <=> a \in D) /\ Rank[a] < Rank[b])
      BY <3>2, PrecedesMeans DEF a, b
    <3>5. ~(Rank[a] < Rank[b]) => Rank[a] >= Rank[b]
      BY <3>3 DEF a, b
    <3> QED
      BY <3>1, <3>4, <3>5, Zenon DEF a, b
  <2>5. \A n \in due[r] : \E i \in DOMAIN p : p[i] = n
    BY <2>1, <2>2
  <2> QED
    BY <2>1, <2>3, <2>4, <2>5 DEF p, D
<1> QED
  BY Invariant, <1>1, PTL

=============================================================================
