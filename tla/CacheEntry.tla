----------------------------- MODULE CacheEntry ------------------------------
(***************************************************************************)
(* What the on-disk cache promises, without its files: the abstract        *)
(* specification that DiskCacheEntry shows DiskCache to implement.         *)
(*                                                                         *)
(* Under a key there is nothing, or one version of an object.  Only a call *)
(* that writes can put a version there, only a purge can take one away,    *)
(* and a lookup answers with what was there at some moment while it ran.   *)
(* From its first change to its end a writer leaves the entry Unsettled,   *)
(* and so do writers that overlap, fail or die, until a later one has run  *)
(* alone: nothing is promised of an unsettled entry.                       *)
(***************************************************************************)
CONSTANTS
  Keys, Calls, None,
  Versions,   \* what an entry can hold: records whose field rev names the writer
  Unsettled,  \* an entry that writers are changing or have left in disorder
  Garbled,    \* an error, or an answer whose parts do not belong together
  CanFail     \* whether I/O errors can happen, which make a lookup miss or fail

VARIABLES
  entry,      \* entry[k]: a version, None or Unsettled
  op,         \* op[c]: what call c is at: look, write, purge, before that idle, then over
  key,        \* key[c]: the key of call c
  seen,       \* seen[c]: what the entry of c's key has been since lookup c started
  answer      \* answer[c]: what lookup c answered, or Garbled if it has not (any more)

vars == <<entry, op, key, seen, answer>>

Init ==
  /\ entry \in [Keys -> Versions \cup {None}]
  /\ op = [c \in Calls |-> "idle"]
  /\ key = [c \in Calls |-> None]
  /\ seen = [c \in Calls |-> {}]
  /\ answer = [c \in Calls |-> Garbled]

-----------------------------------------------------------------------------
(* A call begins, and ends; lookups watch their entries meanwhile.          *)

\* Nothing else matters to a lookup that has seen its entry unsettled.
See(past, e) ==
  IF e = Unsettled \/ Unsettled \in past THEN {Unsettled} ELSE past \cup {e}
Watch ==
  seen' = [c \in Calls |->
             CASE op'[c] # "look" -> {}
               [] op'[c] = "look" /\ op[c] # "look" -> {entry'[key'[c]]}
               [] OTHER -> See(seen[c], entry'[key'[c]])]

Start(c, what, k) ==
  /\ op[c] = "idle"
  /\ op' = [op EXCEPT ![c] = what]
  /\ key' = [key EXCEPT ![c] = k]
  /\ UNCHANGED answer
End(c, what) ==
  /\ op[c] = what
  /\ op' = [op EXCEPT ![c] = "over"]
  /\ UNCHANGED key
Become(k, e) == entry' = [entry EXCEPT ![k] = e]

-----------------------------------------------------------------------------

Look(c, k) == Start(c, "look", k) /\ UNCHANGED entry

\* A lookup answers with something its entry has been while it ran.
Answer(c) ==
  /\ End(c, "look")
  /\ \E a \in Versions \cup {None, Garbled} :
       /\ a \in seen[c] \/ Unsettled \in seen[c] \/ (CanFail /\ a \in {None, Garbled})
       /\ answer' = [answer EXCEPT ![c] = a]
  /\ UNCHANGED entry

\* A writer may find another one at work, or may bring a stale version.
Write(c, k) ==
  /\ Start(c, "write", k)
  /\ \E e \in {entry[k], Unsettled} : Become(k, e)

Change(c) ==
  /\ op[c] = "write"
  /\ Become(key[c], Unsettled)
  /\ UNCHANGED <<op, key, answer>>

\* A writer that was alone leaves its own version, or nothing if it was purged
\* meanwhile; others leave the entry as it is, or unsettled.
WriteEnd(c) ==
  /\ End(c, "write")
  /\ \E e \in {entry[key[c]], Unsettled}
             \cup IF entry[key[c]] = Unsettled
                  THEN {None} \cup {v \in Versions : v.rev = c}
                  ELSE {} :
       Become(key[c], e)
  /\ UNCHANGED answer

Purge(c, k) == Start(c, "purge", k) /\ UNCHANGED entry

Empty(k) == entry[k] # Unsettled /\ Become(k, None)
Remove(c) == op[c] = "purge" /\ Empty(key[c]) /\ UNCHANGED <<op, key, answer>>
PurgeEnd(c) ==
  /\ End(c, "purge")
  /\ UNCHANGED entry \/ Empty(key[c])
  /\ UNCHANGED answer

\* The process dies, and with it its calls and the answers it has given.
Crash ==
  /\ CanFail
  /\ op' = [c \in Calls |-> IF op[c] = "idle" THEN "idle" ELSE "over"]
  /\ answer' \in [Calls -> Versions \cup {None, Garbled}]
  /\ \A c \in Calls : answer'[c] \in {answer[c], Garbled}
  /\ UNCHANGED <<entry, key>>

Next ==
  /\ \/ \E c \in Calls : \/ \E k \in Keys : Look(c, k) \/ Write(c, k) \/ Purge(c, k)
                         \/ Answer(c) \/ Change(c) \/ WriteEnd(c)
                         \/ Remove(c) \/ PurgeEnd(c)
     \/ Crash
  /\ Watch

Spec == Init /\ [][Next]_vars

=============================================================================
