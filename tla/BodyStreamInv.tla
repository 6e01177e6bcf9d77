----------------------------- MODULE BodyStreamInv -----------------------------
(***************************************************************************)
(* The inductive invariant of BodyStream.  It follows the chunks of an     *)
(* inode together with those that are still under way to it, and keeps     *)
(* apart the inodes that handlers read (temporary files) and those that    *)
(* copies write over (bodies).                                             *)
(***************************************************************************)
EXTENDS BodyStream

\* The chunks inode i has, and those it has and will get.
Has(i) == {data[i][j] : j \in DOMAIN data[i]}
Gets(i) == Has(i) \cup {w.chunk : w \in {v \in flight : v.ino = i}}

\* Handlers that may still write to their temporary file or read it.
Writing(h) == pc[h] \in {"body", "eof", "copy", "create", "copying"}
\* The inodes a copy may write over, now or later.
Targets == ({body} \ {0}) \cup {dst[h] : h \in {g \in Handlers : pc[g] = "copying"}}

\* A temporary name outlives no handler, and its inode has no other use.
TmpOK ==
  \A n \in Names : tmp[n] # 0 =>
    /\ \E h \in Handlers : Alive(h) /\ name[h] = n
    /\ \A m \in Names : tmp[m] = tmp[n] => m = n
    /\ tmp[n] # body /\ tmp[n] \notin reused \cup strayed
    /\ \A h \in Handlers : tmp[n] # dst[h]

\* Two handlers that have the same name at the same time are known as such.
SharedOK ==
  \A g, h \in Handlers : Alive(g) /\ Alive(h) /\ name[g] = name[h] /\ g # h => g \in shared

\* A handler that shares its name with nobody has its file until it is renamed or
\* copied, and all its chunks go there.
OwnFileOK ==
  \A h \in Handlers \ shared :
    /\ pc[h] # "error"
    /\ Writing(h) => /\ File(h) # 0
                    /\ \A i \in Inodes : \A c \in Gets(i) : c.of = h => i = File(h)

\* What goes to a temporary file comes from the handlers that have its name.
WritersOK ==
  \A n \in Names : tmp[n] # 0 =>
    \A c \in Gets(tmp[n]) : Alive(c.of) /\ name[c.of] = n

\* Chunks are numbered by sent; a handler that waits with none has none out of turn.
SentOK ==
  /\ \A i \in Inodes : \A c \in Gets(i) : c.n <= sent[c.of]
  /\ \A h \in Handlers : pc[h] = "idle" => sent[h] = 0
  /\ \A w \in flight : w.chunk.of \notin crowded => w.chunk.n = sent[w.chunk.of]

\* OneBody, also of what is under way.
OneBodyOK ==
  \A i \in Inodes \ (reused \cup strayed) : \A c, d \in Gets(i) : c.of # d.of => c.of \in shared

\* What a copy reads is under no other handler's name.
SourceOK ==
  \A h \in Handlers : pc[h] \in {"create", "copying"} =>
    /\ src[h] # 0
    /\ \A n \in Names : tmp[n] = src[h] => n = name[h]

\* A copy into an inode of its own has it for itself.
CopyOK ==
  \A h \in Handlers : pc[h] = "copying" =>
    /\ dst[h] # 0
    /\ dst[h] \notin reused => /\ Gets(dst[h]) = {}
                              /\ \A g \in Handlers : pc[g] = "copying" /\ dst[g] = dst[h] => g = h

\* No chunk is at two places that a copy might bring together.
ApartOK ==
  \A n \in Names : tmp[n] # 0 =>
    \A i \in Targets \ strayed : Gets(tmp[n]) \cap Gets(i) = {}
OnceOK ==
  /\ \A v, w \in flight : v.chunk = w.chunk => v = w
  /\ \A w \in flight : w.ino \notin strayed => w.chunk \notin Has(w.ino)

IInv ==
  /\ TypeOK /\ TmpOK /\ SharedOK /\ OwnFileOK /\ WritersOK /\ SentOK
  /\ OneBodyOK /\ SourceOK /\ CopyOK /\ ApartOK /\ OnceOK /\ InOrder

=============================================================================
