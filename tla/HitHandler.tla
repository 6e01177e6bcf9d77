------------------------------ MODULE HitHandler ------------------------------
(***************************************************************************)
(* The streaming hit handler (src/disk_cache/handle_hit.rs): how the body  *)
(* of a cached object reaches a client, whole or by range, while the file  *)
(* it is read from changes underneath.                                     *)
(*                                                                         *)
(* A handler keeps the inode that lookup opened.  Purging the entry or     *)
(* renaming a new body over it does not disturb that inode, but two things *)
(* in handle_miss.rs do: the bytes an earlier write_body left in flight    *)
(* land late, and the copy that replaces a failed rename truncates the     *)
(* file in place and fills it with another object.                         *)
(***************************************************************************)
EXTENDS Integers

CONSTANTS
  Readers,   \* identities of hit handlers on one inode
  None,      \* `None` as the end of a seek
  Chunk,     \* the read chunk size
  MaxLen,    \* bound: no body is longer
  MaxSeeks,  \* bound: seeks of one handler
  MaxCopies  \* bound: copies over the inode

ASSUME HitHandlerAssumption ==
  /\ None \notin Nat
  /\ Chunk \in Nat \ {0}
  /\ MaxLen \in Nat /\ MaxSeeks \in Nat /\ MaxCopies \in Nat

VARIABLES
  len,          \* bytes in the inode
  gen,          \* how often the inode has been truncated and refilled
  hit,          \* hit[r]: the DiskHitHandler of r
  offset,       \* offset[r]: position of r's file descriptor
  served_hits,  \* the counter
  \* ---- history, read by no guard but those of the bounds and of Finish ----
  seeks,        \* seek calls so far
  opened,       \* gen when lookup opened the file
  head,         \* where the bytes sent since the last seek begin ...
  sent,         \* ... and how many they are
  ended         \* the last read_body returned None

fileVars == <<len, gen>>
hist     == <<seeks, opened, head, sent, ended>>
vars     == <<fileVars, hit, offset, served_hits, hist>>

Handler == [state : {"none", "open", "done"}, total_len : Nat, range_start : Nat,
            range_end : Nat, pos : Nat, pending_seek : BOOLEAN]

Init ==
  /\ len \in 0..MaxLen /\ gen = 0
  /\ hit = [r \in Readers |->
              [state |-> "none", total_len |-> 0, range_start |-> 0, range_end |-> 0,
               pos |-> 0, pending_seek |-> FALSE]]
  /\ offset = [r \in Readers |-> 0]
  /\ served_hits = 0
  /\ seeks = [r \in Readers |-> 0]
  /\ opened = [r \in Readers |-> 0]
  /\ head = [r \in Readers |-> 0]
  /\ sent = [r \in Readers |-> 0]
  /\ ended = [r \in Readers |-> FALSE]

-----------------------------------------------------------------------------
(* What other calls do to the inode *)

\* Late bytes of the object, or a part of the copy, reach the file.
Grow(n) ==
  /\ len + n <= MaxLen
  /\ len' = len + n
  /\ UNCHANGED <<gen, hit, offset, served_hits, hist>>

\* finish of a miss handler could not rename and truncates the file to copy.
Truncate ==
  /\ gen < MaxCopies
  /\ gen' = gen + 1
  /\ len' = 0
  /\ UNCHANGED <<hit, offset, served_hits, hist>>

-----------------------------------------------------------------------------
(* The handler *)

\* lookup hands out a handler for the whole file, as long as it is now.
Open(r) ==
  /\ hit[r].state = "none"
  /\ hit' = [hit EXCEPT ![r] =
              [state |-> "open", total_len |-> len, range_start |-> 0,
               range_end |-> len, pos |-> 0, pending_seek |-> FALSE]]
  /\ offset' = [offset EXCEPT ![r] = 0]
  /\ opened' = [opened EXCEPT ![r] = gen]
  /\ UNCHANGED <<fileVars, served_hits, seeks, head, sent, ended>>

\* seek of a range within the length that lookup saw; any other is refused and
\* changes nothing.  The file is not touched before the next read_body.
SeekUnchecked(r, start, end) ==  \* a mistake: the end is not checked
  LET e == IF end = None THEN hit[r].total_len ELSE end IN
  /\ hit[r].state = "open" /\ seeks[r] < MaxSeeks
  /\ start <= e
  /\ hit' = [hit EXCEPT ![r].range_start = start, ![r].range_end = e,
                        ![r].pending_seek = TRUE]
  /\ seeks' = [seeks EXCEPT ![r] = @ + 1]
  /\ ended' = [ended EXCEPT ![r] = FALSE]
  /\ UNCHANGED <<fileVars, offset, served_hits, opened, head, sent>>
Seek(r, start, end) ==
  LET e == IF end = None THEN hit[r].total_len ELSE end IN
  /\ hit[r].state = "open" /\ seeks[r] < MaxSeeks
  /\ e <= hit[r].total_len /\ start <= e
  /\ hit' = [hit EXCEPT ![r].range_start = start, ![r].range_end = e,
                        ![r].pending_seek = TRUE]
  /\ seeks' = [seeks EXCEPT ![r] = @ + 1]
  /\ ended' = [ended EXCEPT ![r] = FALSE]
  /\ UNCHANGED <<fileVars, offset, served_hits, opened, head, sent>>

\* read_body, up to the await of the deferred seek.  (If its future is dropped
\* there the next read_body goes on in the same way; if seek fails, it retries.)
ReadSeekCursorOnly(r) ==  \* a mistake: the descriptor is not moved
  /\ hit[r].state = "open" /\ hit[r].pending_seek
  /\ hit' = [hit EXCEPT ![r].pos = hit[r].range_start, ![r].pending_seek = FALSE]
  /\ head' = [head EXCEPT ![r] = offset[r]]
  /\ sent' = [sent EXCEPT ![r] = 0]
  /\ UNCHANGED <<fileVars, offset, served_hits, seeks, opened, ended>>
ReadSeek(r) ==
  /\ hit[r].state = "open" /\ hit[r].pending_seek
  /\ hit' = [hit EXCEPT ![r].pos = hit[r].range_start, ![r].pending_seek = FALSE]
  /\ offset' = [offset EXCEPT ![r] = hit[r].range_start]
  /\ head' = [head EXCEPT ![r] = offset'[r]]
  /\ sent' = [sent EXCEPT ![r] = 0]
  /\ UNCHANGED <<fileVars, served_hits, seeks, opened, ended>>

Reading(r) == hit[r].state = "open" /\ ~hit[r].pending_seek
ToRead(r) == IF Chunk < hit[r].range_end - hit[r].pos
             THEN Chunk ELSE hit[r].range_end - hit[r].pos

\* The range is exhausted.
ReadNoneEarly(r) ==  \* a mistake: off by one
  /\ Reading(r) /\ hit[r].pos + 1 >= hit[r].range_end
  /\ ended' = [ended EXCEPT ![r] = TRUE]
  /\ UNCHANGED <<fileVars, hit, offset, served_hits, seeks, opened, head, sent>>
ReadNone(r) ==
  /\ Reading(r) /\ hit[r].pos >= hit[r].range_end
  /\ ended' = [ended EXCEPT ![r] = TRUE]
  /\ UNCHANGED <<fileVars, hit, offset, served_hits, seeks, opened, head, sent>>

\* The file has at least n bytes from where its descriptor stands.
ReadSome(r, n) ==
  /\ Reading(r) /\ hit[r].pos < hit[r].range_end
  /\ n <= ToRead(r) /\ offset[r] + n <= len
  /\ hit' = [hit EXCEPT ![r].pos = @ + n]
  /\ offset' = [offset EXCEPT ![r] = @ + n]
  /\ sent' = [sent EXCEPT ![r] = @ + n]
  /\ UNCHANGED <<fileVars, served_hits, seeks, opened, head, ended>>

\* The file ends before the range does.
ReadEofForgets(r) ==  \* a mistake: the cursor stays where the file ended
  /\ Reading(r) /\ hit[r].pos < hit[r].range_end
  /\ offset[r] >= len
  /\ ended' = [ended EXCEPT ![r] = TRUE]
  /\ UNCHANGED <<fileVars, hit, offset, served_hits, seeks, opened, head, sent>>
ReadEofEmpty(r) ==  \* a mistake: an empty chunk is returned instead of None
  /\ Reading(r) /\ hit[r].pos < hit[r].range_end
  /\ offset[r] >= len
  /\ UNCHANGED vars
ReadEof(r) ==
  /\ Reading(r) /\ hit[r].pos < hit[r].range_end
  /\ offset[r] >= len
  /\ hit' = [hit EXCEPT ![r].pos = hit[r].range_end]
  /\ ended' = [ended EXCEPT ![r] = TRUE]
  /\ UNCHANGED <<fileVars, offset, served_hits, seeks, opened, head, sent>>

\* Called when read_body has said that there is no more.
Finish(r) ==
  /\ hit[r].state = "open" /\ ended[r]
  /\ hit' = [hit EXCEPT ![r].state = "done"]
  /\ served_hits' = served_hits + 1
  /\ UNCHANGED <<fileVars, offset, hist>>

\* The client went away.
Drop(r) ==
  /\ hit[r].state = "open"
  /\ hit' = [hit EXCEPT ![r].state = "done"]
  /\ UNCHANGED <<fileVars, offset, served_hits, hist>>

ReadBody(r) == ReadSeek(r) \/ ReadNone(r) \/ ReadEof(r)
               \/ \E n \in 1..Chunk : ReadSome(r, n)

Next ==
  \/ \E n \in 1..MaxLen : Grow(n)
  \/ Truncate
  \/ \E r \in Readers :
       \/ Open(r) \/ ReadBody(r) \/ Finish(r) \/ Drop(r)
       \/ \E start \in 0..MaxLen, end \in (0..MaxLen) \cup {None} : Seek(r, start, end)

Spec == Init /\ [][Next]_vars

\* A client that wants the body calls read_body until it returns None.
FairSpec == Spec /\ \A r \in Readers : WF_vars(ReadBody(r))

-----------------------------------------------------------------------------
(* Properties *)

\* Every variable has its type.
TypeOK ==
  /\ len \in Nat /\ gen \in Nat /\ served_hits \in Nat
  /\ hit \in [Readers -> Handler]
  /\ offset \in [Readers -> Nat] /\ seeks \in [Readers -> Nat]
  /\ opened \in [Readers -> Nat] /\ head \in [Readers -> Nat] /\ sent \in [Readers -> Nat]
  /\ ended \in [Readers -> BOOLEAN]

\* What a client has received since its last seek is one run of consecutive bytes
\* that begins where the range begins and stays within the range and within the
\* length lookup saw, however seeks (each deferred to the next read_body), short
\* reads, late bytes and copies over the file interleave.
InRange ==
  \A r \in Readers : hit[r].state = "open" /\ ~hit[r].pending_seek =>
    /\ head[r] = hit[r].range_start
    /\ head[r] + sent[r] <= hit[r].pos
    /\ hit[r].pos <= hit[r].range_end
    /\ hit[r].range_end <= hit[r].total_len

\* When read_body says there is no more, the whole range has been sent, unless
\* another object has been copied over the file since lookup opened it.
WholeRange ==
  \A r \in Readers : hit[r].state = "open" /\ ended[r] /\ gen = opened[r] =>
    head[r] + sent[r] = hit[r].range_end

\* None is final: until the next seek no bytes follow it, even if bytes that were
\* late reach the file after its end had been met.
NoneIsFinal ==
  [][\A r \in Readers :
       hit[r].state = "open" /\ ended[r] /\ ~hit'[r].pending_seek
         => sent'[r] = sent[r]]_vars

\* Reading comes to an end although the file may grow beneath it: the client
\* hears None or seeks elsewhere or goes away.
ReadingEnds ==
  \A r \in Readers : \A s \in 0..MaxSeeks :
    hit[r].state = "open" /\ seeks[r] = s
      ~> ended[r] \/ seeks[r] # s \/ hit[r].state = "done"

=============================================================================
