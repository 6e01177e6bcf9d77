------------------------------ MODULE BodyStream ------------------------------
(***************************************************************************)
(* What one body holds, chunk by chunk (src/disk_cache/handle_miss.rs):    *)
(* the miss handlers of one key, the inodes they write and the names by    *)
(* which they reach them.  DiskCache counts bytes and gives each handler a *)
(* file of its own; here, as in the code,                                  *)
(*   - every write_body opens the temporary file anew and leaves its chunk *)
(*     to the blocking pool, which appends chunks in any order and goes on *)
(*     after finish;                                                       *)
(*   - a temporary file is named after the clock, so two handlers of one   *)
(*     tick use the same one;                                              *)
(*   - the copy that replaces a failed rename truncates the old body in    *)
(*     place, where chunks of its own handler may still be under way.      *)
(***************************************************************************)
EXTENDS Integers, Sequences

CONSTANTS
  Handlers,  \* miss handlers of one key; each is used once
  Names,     \* names of temporary files: what the clock may read
  MaxChunks, \* bound: chunks of a body
  MaxFaults  \* bound: renames that fail

ASSUME BodyStreamAssumption == MaxChunks \in Nat /\ MaxFaults \in Nat

VARIABLES
  data,    \* the inodes: data[i] is the sequence of chunks in inode i
  tmp,     \* tmp[n]: the inode of the temporary file n, 0 if there is none
  body,    \* the inode of the body, 0 if there is none
  flight,  \* chunks accepted and not written, with their inodes
  pc,      \* what a handler does next, or how it ended
  name,    \* its tmp_path
  sent,    \* chunks accepted
  src,     \* inode of the temporary file its copy reads
  dst,     \* inode of the body its copy writes
  \* ---- history ---------------------------------------------------------
  faults,
  owner,   \* the handler that made the body what it is
  shared,  \* handlers whose name another one had at the same time
  crowded, \* handlers of which two chunks were under way at the same time
  cut,     \* handlers whose copy left chunks behind
  reused,  \* inodes truncated by a copy
  strayed  \* inodes into which a copy wrote a file that had lost its handler's name

files == <<data, tmp, body, owner>>
hist  == <<shared, crowded, cut, reused, strayed>>
vars  == <<files, flight, pc, name, sent, src, dst, faults, hist>>

Chunk(h, n) == [of |-> h, n |-> n]
Alive(h) == pc[h] \notin {"idle", "done", "error"}
InFlight(h) == {w \in flight : w.chunk.of = h}
File(h) == tmp[name[h]]
Goto(h, from, to) == pc[h] \in from /\ pc' = [pc EXCEPT ![h] = to]

Init ==
  /\ data = <<>> /\ tmp = [n \in Names |-> 0] /\ body = 0 /\ flight = {}
  /\ pc = [h \in Handlers |-> "idle"] /\ name \in [Handlers -> Names]
  /\ sent = [h \in Handlers |-> 0]
  /\ src = [h \in Handlers |-> 0] /\ dst = [h \in Handlers |-> 0]
  /\ faults = 0 /\ owner \in Handlers
  /\ shared = {} /\ crowded = {} /\ cut = {} /\ reused = {} /\ strayed = {}

-----------------------------------------------------------------------------

\* create_tmp: File::create truncates a file of that name.
CreateTmp(h) ==
  LET others == {g \in Handlers : Alive(g) /\ name[g] = name[h]}
  IN
  /\ Goto(h, {"idle"}, "body")
  /\ IF File(h) = 0
     THEN /\ data' = Append(data, <<>>)
          /\ tmp' = [tmp EXCEPT ![name[h]] = Len(data) + 1]
     ELSE /\ data' = [data EXCEPT ![File(h)] = <<>>] /\ UNCHANGED tmp
  /\ shared' = shared \cup others \cup IF others = {} THEN {} ELSE {h}
  /\ UNCHANGED <<body, owner, flight, name, sent, src, dst, faults, crowded, cut, reused, strayed>>

\* The handler ends with an error, or without: its drop removes what has its
\* temporary name by then.
DropOnly(h) == tmp' = [tmp EXCEPT ![name[h]] = 0]
MissingFile(h, from) ==
  /\ Goto(h, from, "error")
  /\ File(h) = 0
  /\ DropOnly(h)
  /\ UNCHANGED <<data, body, owner, flight, name, sent, src, dst, faults, hist>>

\* write_body of a chunk that is not the last, ...
WriteBodyUnchecked(h) ==  \* a mistake: the file is taken to be there
  /\ Goto(h, {"body"}, "body")
  /\ sent[h] < MaxChunks
  /\ sent' = [sent EXCEPT ![h] = @ + 1]
  /\ flight' = flight \cup {[chunk |-> Chunk(h, sent[h] + 1), ino |-> File(h)]}
  /\ crowded' = crowded \cup IF InFlight(h) = {} THEN {} ELSE {h}
  /\ UNCHANGED <<files, name, src, dst, faults, shared, cut, reused, strayed>>
WriteBody(h) ==
  /\ Goto(h, {"body"}, "body")
  /\ File(h) # 0 /\ sent[h] < MaxChunks
  /\ sent' = [sent EXCEPT ![h] = @ + 1]
  /\ flight' = flight \cup {[chunk |-> Chunk(h, sent[h] + 1), ino |-> File(h)]}
  /\ crowded' = crowded \cup IF InFlight(h) = {} THEN {} ELSE {h}
  /\ UNCHANGED <<files, name, src, dst, faults, shared, cut, reused, strayed>>

\* ... and of the last one, which is flushed; it overtakes those under way.
WriteLast(h) ==
  /\ Goto(h, {"body"}, "eof")
  /\ File(h) # 0 /\ sent[h] < MaxChunks
  /\ sent' = [sent EXCEPT ![h] = @ + 1]
  /\ data' = [data EXCEPT ![File(h)] = Append(@, Chunk(h, sent[h] + 1))]
  /\ crowded' = crowded \cup IF InFlight(h) = {} THEN {} ELSE {h}
  /\ UNCHANGED <<tmp, body, owner, flight, name, src, dst, faults, shared, cut, reused, strayed>>

\* The blocking pool appends a chunk to the inode it was accepted for.
LandOnce(w) ==
  /\ data' = [data EXCEPT ![w.ino] = Append(@, w.chunk)]
  /\ flight' = flight \ {w}
LandAgain(w) ==  \* a mistake: a short write is repeated from its beginning
  /\ w \in flight
  /\ \/ LandOnce(w)
     \/ /\ \A i \in DOMAIN data[w.ino] : data[w.ino][i] # w.chunk
        /\ data' = [data EXCEPT ![w.ino] = Append(@, w.chunk)]
        /\ UNCHANGED flight
  /\ UNCHANGED <<tmp, body, owner, pc, name, sent, src, dst, faults, hist>>
Land(w) ==
  /\ w \in flight
  /\ LandOnce(w)
  /\ UNCHANGED <<tmp, body, owner, pc, name, sent, src, dst, faults, hist>>

\* finish: the temporary file becomes the body, and chunks under way follow it.
RenameDropsBuffer(h) ==  \* a mistake: they do not
  /\ Goto(h, {"body", "eof"}, "meta")
  /\ File(h) # 0
  /\ body' = File(h) /\ owner' = h
  /\ DropOnly(h)
  /\ flight' = flight \ InFlight(h)
  /\ UNCHANGED <<data, name, sent, src, dst, faults, hist>>
Rename(h) ==
  /\ Goto(h, {"body", "eof"}, "meta")
  /\ File(h) # 0
  /\ body' = File(h) /\ owner' = h
  /\ DropOnly(h)
  /\ UNCHANGED <<data, flight, name, sent, src, dst, faults, hist>>

RenameFailsCleans(h) ==  \* a mistake: the temporary file is removed at once
  /\ faults < MaxFaults /\ faults' = faults + 1
  /\ Goto(h, {"body", "eof"}, "copy")
  /\ DropOnly(h)
  /\ UNCHANGED <<data, body, owner, flight, name, sent, src, dst, hist>>
RenameFails(h) ==
  /\ faults < MaxFaults /\ faults' = faults + 1
  /\ Goto(h, {"body", "eof"}, "copy")
  /\ UNCHANGED <<files, flight, name, sent, src, dst, hist>>

\* The copy: File::open of the temporary file, ...
CopyFrom(h) ==
  /\ Goto(h, {"copy"}, "create")
  /\ File(h) # 0
  /\ src' = [src EXCEPT ![h] = File(h)]
  /\ UNCHANGED <<files, flight, name, sent, dst, faults, hist>>

\* ... File::create of the body, ...
CopyOpen(h) ==
  /\ Goto(h, {"create"}, "copying")
  /\ owner' = h
  /\ IF body = 0
     THEN data' = Append(data, <<>>) /\ body' = Len(data) + 1 /\ UNCHANGED reused
     ELSE /\ data' = [data EXCEPT ![body] = <<>>] /\ UNCHANGED body
          /\ reused' = reused \cup {body}
  /\ dst' = [dst EXCEPT ![h] = body']
  /\ UNCHANGED <<tmp, flight, name, sent, src, faults, shared, crowded, cut, strayed>>

\* ... the copy itself, which writes from the beginning of the file over what has
\* arrived in it since, and leaves behind what has not arrived in the other, and the
\* removal of whatever has the temporary name by then.
Copy(h) ==
  LET from == data[src[h]]
      to == data[dst[h]]
  IN
  /\ Goto(h, {"copying"}, "meta")
  /\ data' = [data EXCEPT ![dst[h]] = from \o SubSeq(to, Len(from) + 1, Len(to))]
  /\ DropOnly(h)
  /\ cut' = cut \cup IF InFlight(h) = {} THEN {} ELSE {h}
  /\ strayed' = strayed \cup IF src[h] = File(h) THEN {} ELSE {dst[h]}
  /\ UNCHANGED <<body, owner, flight, name, sent, src, dst, faults, shared, crowded, reused>>

\* meta and hdr are written, and the handler is dropped at the end of finish; or
\* it is dropped before finish.
DropForgets(h) ==  \* a mistake: the temporary file stays
  /\ Goto(h, {"body", "eof", "meta"}, "done")
  /\ UNCHANGED <<files, flight, name, sent, src, dst, faults, hist>>
Drop(h) ==
  /\ Goto(h, {"body", "eof", "meta"}, "done")
  /\ DropOnly(h)
  /\ UNCHANGED <<data, body, owner, flight, name, sent, src, dst, faults, hist>>

\* purge
Purge ==
  /\ body # 0 /\ body' = 0
  /\ UNCHANGED <<data, tmp, owner, flight, pc, name, sent, src, dst, faults, hist>>

Next ==
  \/ \E h \in Handlers :
       \/ CreateTmp(h) \/ MissingFile(h, {"body", "eof", "copy"})
       \/ WriteBody(h) \/ WriteLast(h)
       \/ Rename(h) \/ RenameFails(h) \/ CopyFrom(h) \/ CopyOpen(h) \/ Copy(h)
       \/ Drop(h)
  \/ \E w \in flight : Land(w)
  \/ Purge

Spec == Init /\ [][Next]_vars

\* The blocking pool runs what it was given.
FairSpec == Spec /\ WF_vars(\E w \in flight : Land(w))

-----------------------------------------------------------------------------
(* Properties *)

Inodes == 1..Len(data)
Chunks == [of : Handlers, n : 1..MaxChunks]

\* Every variable has its type.
TypeOK ==
  /\ data \in Seq(Seq(Chunks))
  /\ tmp \in [Names -> {0} \cup Inodes] /\ body \in {0} \cup Inodes
  /\ flight \subseteq [chunk : Chunks, ino : Inodes]
  /\ pc \in [Handlers -> {"idle", "body", "eof", "copy", "create", "copying", "meta", "done", "error"}]
  /\ name \in [Handlers -> Names] /\ sent \in [Handlers -> 0..MaxChunks]
  /\ src \in [Handlers -> {0} \cup Inodes] /\ dst \in [Handlers -> {0} \cup Inodes]
  /\ owner \in Handlers /\ shared \cup crowded \cup cut \subseteq Handlers
  /\ reused \subseteq Inodes /\ strayed \subseteq Inodes
  /\ faults \in Nat

\* No file holds bytes of two bodies, unless their handlers had the same temporary
\* name at the same time, a copy went into the inode of an earlier body, or it went on
\* reading a temporary file that another handler had meanwhile renamed or removed.
OneBody ==
  \A ino \in DOMAIN data \ (reused \cup strayed) : \A i, j \in DOMAIN data[ino] :
    LET g == data[ino][i].of  h == data[ino][j].of
    IN g # h => g \in shared /\ h \in shared

\* No file holds a chunk twice, and the chunks of a body are in the order of its
\* write_body calls unless one was accepted while another was under way, or
\* handlers with the same temporary name copied one after another into one inode; only
\* a copy from a file that had lost its name may do worse.
InOrder ==
  \A ino \in DOMAIN data \ strayed : \A i, j \in DOMAIN data[ino] :
    LET x == data[ino][i]  y == data[ino][j]
    IN i < j /\ x.of = y.of =>
         IF x.of \in crowded \/ (x.of \in shared /\ ino \in reused)
         THEN x # y ELSE x.n < y.n

\* A handler whose temporary name no other had at the same time always finds its
\* temporary file, whatever handlers did that had the name before.
FindsItsFile == \A h \in Handlers : pc[h] = "error" => h \in shared

\* Every chunk accepted for a body arrives in it, though finish does not wait for
\* it, unless the body is replaced or purged first, the names collided, or the
\* rename failed and the copy left it behind or reused the inode of a body.
LateBytesLand ==
  \A h \in Handlers :
    (pc[h] = "meta" /\ owner = h /\ body # 0 /\ body \notin reused /\ h \notin shared \cup cut)
    ~> \/ owner # h \/ body = 0 \/ body \in reused
       \/ \A n \in 1..sent[h] : \E i \in DOMAIN data[body] : data[body][i] = Chunk(h, n)

=============================================================================
