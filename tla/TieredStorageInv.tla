--------------------------- MODULE TieredStorageInv ---------------------------
(* The inductive invariant behind the properties of TieredStorage.           *)
EXTENDS TieredStorage

\* The object named after a call is met only after that call has stored it; a
\* call stores at most once.
Placed == {"commit", "ok", "broken"}
StoredOnce ==
  \A o \in Calls : pc[o] \notin Placed =>
    /\ \A t \in Tiers : tier[t].body # o
    /\ o \notin gone
    /\ \A c \in Calls : o \notin before[c]
\* The secondary gets an object from another server only.
Elsewhere == tier["secondary"].body \in Calls => pc[tier["secondary"].body] = "ok"

\* Without a secondary tier there is nothing in it.
Absent == ~has_secondary => tier["secondary"].body = None

\* An invalidation that is past the body of the primary, without failing: it is no
\* object that was there when it began.
Halfway ==
  \A c \in Calls :
    kind[c] = "Invalidation" /\ pc[c] \in {"unmeta", "secondary"} /\ c \notin failed =>
      tier["primary"].body \notin before[c]

\* A lookup that ended in a hit has metadata, and so has an update_meta.
HitKnown ==
  \A c \in Calls : pc[c] = "hit" \/ kind[c] = "update" => hit[c] \in Metas

\* A lookup that goes on to the secondary has found no entry in the primary.
PrimaryEmpty ==
  \A c \in Calls :
    kind[c] = "lookup" /\ pc[c] = "secondary" /\ c \notin met \cup failed =>
      ~Has(tier["primary"])

\* A call is of no kind before it begins, and only misses commit.
Unbegun ==
  \A c \in Calls : /\ pc[c] = "idle" => kind[c] = "none"
                   /\ pc[c] \in {"writing", "commit"} => kind[c] = "miss"
                   /\ pc[c] = "updating" => kind[c] = "update"

\* Writers of the primary know of each other, and a finish knows of the body that
\* has displaced its own.
CrossSeen ==
  /\ \A c, d \in Writers : c # d => c \in crossed
  /\ \A c \in Calls :
       pc[c] = "commit" => tier["primary"].body \in {None, c} \cup crossed

\* While an update runs and no entry appears, objects only go, or are those of
\* finishes that have put their body into an empty tier and got no further.
OnlyGo ==
  \A c \in Calls :
    kind[c] = "update" /\ pc[c] \in Tiers \cup {"updating"} /\ c \notin met =>
      \A t \in Tiers :
        LET o == tier[t].body IN
        \/ o \in before[c] \cup {None} \cup crossed
        \/ o \in Calls /\ pc[o] = "broken"
        \/ o \in Calls /\ pc[o] = "commit" /\ ~Has(tier[t])

IInv == /\ TypeOK /\ HitKnown /\ Unbegun /\ StoredOnce /\ Elsewhere /\ Absent
        /\ Halfway /\ StaysGone /\ PrimaryEmpty /\ CrossSeen /\ OnlyGo
        /\ MixedExplained

=============================================================================
