---------------------------- MODULE TieredStorage ----------------------------
(***************************************************************************)
(* The storage the proxy talks to (src/tiered/mod.rs): a primary tier, the *)
(* disk cache, and an optional secondary one that several servers share.   *)
(* The deployed configuration has no secondary yet; the code handles both. *)
(*                                                                         *)
(* One key is modelled: calls for different keys share nothing here.  A    *)
(* finish, a purge and an update_meta of the disk cache take two steps     *)
(* each, one for the body and one for the metadata, between which anything *)
(* may happen and of which one may fail; meta and hdr count as one file    *)
(* (DiskCache has both).  A call to the secondary, of which there is no    *)
(* implementation, is one step.  So is a lookup in a tier: what matters    *)
(* here of its answer is whose metadata it brings.                         *)
(***************************************************************************)
EXTENDS Naturals

CONSTANTS
  Calls,    \* identities of storage calls; a call is made at most once
  Stored,   \* names of objects that are in the tiers from the start
  None,     \* no such file, no hit
  Garbled,  \* metadata that are not one object's: torn, or of two writers
  MaxFaults \* bound: failing calls to a tier

Objects == Calls \cup Stored
Tiers == {"primary", "secondary"}
Metas == Objects \cup {Garbled}
\* What a tier holds: the body of an object and the metadata of one.
Entry == [body : Objects \cup {None}, meta : Metas \cup {None}]

ASSUME TieredStorageAssumption ==
  /\ Calls \cap Stored = {}
  /\ None \notin Metas /\ Garbled \notin Objects
  /\ MaxFaults \in Nat

VARIABLES
  has_secondary, \* self.secondary is Some
  tier,          \* tier[t]: what tier t holds
  kind,          \* which storage call it is
  pc,            \* the tier it asks next, what it does there, or how it ended
  hit,           \* lookup: the metadata it was given; update: those it writes
  existed,       \* purge and update_meta: the boolean they will return
  \* ---- history, read by no guard but that of the bound -----------------
  faults,        \* failed calls to a tier
  failed,        \* lookups and purges of which a call to a tier failed
  before,        \* before[c]: objects in the tiers when c began, a lookup, an
                 \* update_meta or an invalidation
  met,           \* lookups and updates during which an entry appeared in a tier
  crossed,       \* writers of the primary that overlapped
  gone           \* objects that an invalidation has removed everywhere

callVars == <<kind, hit, existed>>
hist == <<faults, failed, before, met, crossed, gone>>
vars == <<has_secondary, tier, pc, callVars, hist>>

Here == {tier[t].body : t \in Tiers} \ {None}
\* What a lookup needs to find.
Has(e) == e.body # None /\ e.meta # None
\* "broken": a finish or an update_meta that failed halfway.
EndPc == {"idle", "hit", "none", "ok", "error", "broken"}
Live == {c \in Calls : pc[c] \notin EndPc}
\* Calls between two steps of writing the primary's files.
Writers == {c \in Calls : pc[c] \in {"commit", "updating"}}

Init ==
  /\ has_secondary \in BOOLEAN
  /\ tier \in [Tiers -> {[body |-> o, meta |-> o] : o \in Stored \cup {None}}]
  /\ ~has_secondary => tier["secondary"].body = None
  /\ kind = [c \in Calls |-> "none"]
  /\ pc = [c \in Calls |-> "idle"]
  /\ hit = [c \in Calls |-> None]
  /\ existed = [c \in Calls |-> FALSE]
  /\ faults = 0 /\ failed = {} /\ met = {} /\ crossed = {} /\ gone = {}
  /\ before = [c \in Calls |-> {}]

-----------------------------------------------------------------------------

Begin(c, knd) ==
  /\ pc[c] = "idle"
  /\ pc' = [pc EXCEPT ![c] = "primary"]
  /\ kind' = [kind EXCEPT ![c] = knd]
  /\ before' = [before EXCEPT ![c] = IF knd \in {"miss", "Eviction"} THEN {} ELSE Here]
  /\ UNCHANGED <<has_secondary, tier, existed, faults, failed, met, crossed, gone>>

Goto(c, to) == pc' = [pc EXCEPT ![c] = to]

\* Call c asks tier t, or is at another step of a call to one.
Asks(c, knd, t) == kind[c] = knd /\ pc[c] = t
\* After the primary the secondary, if there is one; after that the end.
PrimaryOnly(t, end) == end  \* a mistake: the secondary is never asked
NextTier(t, end) == IF t = "primary" /\ has_secondary THEN "secondary" ELSE end

\* c changes tier t to e; lookups and updates meet an entry that was not there.
Put(c, t, e) ==
  /\ tier' = [tier EXCEPT ![t] = e]
  /\ met' = met \cup IF Has(e) /\ (~Has(tier[t]) \/ e.body # tier[t].body)
                     THEN {d \in Live \ {c} : kind[d] \in {"lookup", "update"}} ELSE {}

\* c begins to write the files of the primary.
Cross(c) == crossed' = crossed \cup IF Writers # {} THEN Writers \cup {c} ELSE {}

Fault == faults < MaxFaults /\ faults' = faults + 1
Fails(c) == Fault /\ failed' = failed \cup {c}

\* ---- lookup: the first tier that has the entry --------------------------
LookupStart(c) == Begin(c, "lookup") /\ UNCHANGED hit

LookupTierPromotes(c, t) ==  \* a mistake: a later hit is stored in the primary
  /\ Asks(c, "lookup", t)
  /\ hit' = [hit EXCEPT ![c] = tier[t].meta]
  /\ Goto(c, IF Has(tier[t]) THEN "hit" ELSE NextTier(t, "none"))
  /\ tier' = [tier EXCEPT !["primary"] = IF t = "secondary" THEN tier[t] ELSE @]
  /\ UNCHANGED <<has_secondary, kind, existed, hist>>
LookupTier(c, t) ==
  /\ Asks(c, "lookup", t)
  /\ \/ /\ Has(tier[t])
        /\ hit' = [hit EXCEPT ![c] = tier[t].meta]
        /\ Goto(c, "hit")
     \/ /\ ~Has(tier[t])
        /\ Goto(c, NextTier(t, "none"))
        /\ UNCHANGED hit
     \/ /\ tier[t].meta = Garbled  \* CacheMeta::deserialize may refuse it
        /\ Goto(c, "error")
        /\ UNCHANGED hit
  /\ UNCHANGED <<has_secondary, tier, kind, existed, hist>>

\* A tier that fails says so, which ends the lookup, or answers None, as the disk
\* cache does if it cannot open or read one of the files.
LookupFails(c, t) ==
  /\ Asks(c, "lookup", t)
  /\ Fails(c)
  /\ Goto(c, "error") \/ Goto(c, NextTier(t, "none"))
  /\ UNCHANGED <<has_secondary, tier, callVars, before, met, crossed, gone>>

\* ---- get_miss_handler: the primary's handler, under either policy -------
MissStart(c) == Begin(c, "miss") /\ UNCHANGED hit

GetMissHandler(c) ==
  /\ Asks(c, "miss", "primary")
  /\ \/ Goto(c, "writing") /\ UNCHANGED faults
     \/ Goto(c, "error") /\ Fault
  /\ UNCHANGED <<has_secondary, tier, callVars, failed, before, met, crossed, gone>>

\* The handler is dropped, or its finish ends before the body is in place.
MissDrop(c) ==
  /\ Asks(c, "miss", "writing")
  /\ Goto(c, "error")
  /\ UNCHANGED <<has_secondary, tier, callVars, hist>>

\* Its finish puts the body in place, over whatever is there, ...
FinishBody(c) ==
  /\ Asks(c, "miss", "writing")
  /\ Goto(c, "commit")
  /\ Put(c, "primary", [tier["primary"] EXCEPT !.body = c])
  /\ Cross(c)
  /\ UNCHANGED <<has_secondary, callVars, faults, failed, before, gone>>

\* What a writer of the metadata m leaves: m, or garbled metadata if another one
\* may have been at it.
Written(c, m) == {m} \cup IF Writers \ {c} # {} THEN {Garbled} ELSE {}

\* ... and then the metadata.
FinishMetaKeeps(c) ==  \* a mistake: metadata that are there already stay
  /\ Asks(c, "miss", "commit")
  /\ Goto(c, "ok")
  /\ LET e == tier["primary"]
     IN Put(c, "primary", [e EXCEPT !.meta = IF e.meta = None THEN c ELSE e.meta])
  /\ UNCHANGED <<has_secondary, callVars, faults, failed, before, crossed, gone>>
FinishMeta(c) ==
  /\ Asks(c, "miss", "commit")
  /\ Goto(c, "ok")
  /\ \E m \in Written(c, c) : Put(c, "primary", [tier["primary"] EXCEPT !.meta = m])
  /\ UNCHANGED <<has_secondary, callVars, faults, failed, before, crossed, gone>>

\* A finish or an update_meta fails to write the metadata, or is dropped: they stay
\* as they were, or are left truncated.
MetaFails(c) ==
  /\ c \in Writers
  /\ Fault
  /\ Goto(c, "broken")
  /\ \E m \in {tier["primary"].meta, Garbled} :
       Put(c, "primary", [tier["primary"] EXCEPT !.meta = m])
  /\ UNCHANGED <<has_secondary, callVars, failed, before, crossed, gone>>

\* Another server stores an object in the shared secondary.
Populate(c) ==
  /\ has_secondary /\ pc[c] = "idle"
  /\ Goto(c, "ok")
  /\ Put(c, "secondary", [body |-> c, meta |-> c])
  /\ UNCHANGED <<has_secondary, callVars, faults, failed, before, crossed, gone>>

\* ---- purge ---------------------------------------------------------------
PurgeStart(c, purge_type) ==
  /\ purge_type \in {"Eviction", "Invalidation"}
  /\ Begin(c, purge_type) /\ UNCHANGED hit

IsPurge(c) == kind[c] \in {"Eviction", "Invalidation"}

\* The disk cache removes the body and goes on, also after an error, which it
\* turns into Ok(false), ...
PurgeBody(c) ==
  /\ IsPurge(c) /\ pc[c] = "primary"
  /\ Goto(c, "unmeta")
  /\ \/ /\ tier' = [tier EXCEPT !["primary"].body = None]
        /\ existed' = [existed EXCEPT ![c] = tier["primary"].body # None]
        /\ UNCHANGED <<faults, failed>>
     \/ Fails(c) /\ UNCHANGED <<tier, existed>>
  /\ UNCHANGED <<has_secondary, kind, hit, before, met, crossed, gone>>

\* The purge ends: what an invalidation found and did remove is gone.
PurgeEnd(c, end) ==
  /\ Goto(c, end)
  /\ gone' = IF end = "ok" /\ kind[c] = "Invalidation" /\ c \notin failed'
             THEN gone \cup before[c] ELSE gone

\* ... to the metadata.  An invalidation asks the secondary next, if there is one;
\* an eviction never does.
PurgeMeta(c) ==
  /\ IsPurge(c) /\ pc[c] = "unmeta"
  /\ \/ tier' = [tier EXCEPT !["primary"].meta = None] /\ UNCHANGED faults
     \/ Fault /\ UNCHANGED tier
  /\ UNCHANGED failed
  /\ PurgeEnd(c, IF kind[c] = "Eviction" THEN "ok" ELSE NextTier("primary", "ok"))
  /\ UNCHANGED <<has_secondary, callVars, before, met, crossed>>

\* A failure of the secondary is swallowed like an absent entry.
PurgeSecondary(c) ==
  /\ IsPurge(c) /\ pc[c] = "secondary"
  /\ \/ /\ tier' = [tier EXCEPT !["secondary"] = [body |-> None, meta |-> None]]
        /\ existed' = [existed EXCEPT ![c] = @ \/ tier["secondary"].body # None]
        /\ UNCHANGED <<faults, failed>>
     \/ Fails(c) /\ UNCHANGED <<tier, existed>>
  /\ PurgeEnd(c, "ok")
  /\ UNCHANGED <<has_secondary, kind, hit, before, met, crossed>>

\* ---- update_meta ---------------------------------------------------------
\* The proxy revalidated the object that lookup l was given.
UpdateStart(c, l) ==
  /\ pc[l] = "hit"
  /\ Begin(c, "update")
  /\ hit' = [hit EXCEPT ![c] = hit[l]]

\* The disk cache asks whether there is a body, whosever it is (if it cannot tell,
\* there is none), ...
UpdateAsk(c) ==
  /\ Asks(c, "update", "primary")
  /\ \/ /\ tier["primary"].body # None
        /\ Goto(c, "updating")
        /\ Cross(c) /\ UNCHANGED faults
     \/ /\ \/ tier["primary"].body = None /\ UNCHANGED faults
           \/ Fault
        /\ Goto(c, NextTier("primary", "ok"))
        /\ UNCHANGED crossed
  /\ UNCHANGED <<has_secondary, tier, callVars, failed, before, met, gone>>

\* ... and writes the metadata.  If a purge has removed the body meanwhile, it may
\* have removed the directory too: then the write fails, and so does the call.
UpdateWrite(c) ==
  /\ Asks(c, "update", "updating")
  /\ \/ /\ \E m \in Written(c, hit[c]) :
             Put(c, "primary", [tier["primary"] EXCEPT !.meta = m])
        /\ existed' = [existed EXCEPT ![c] = TRUE]
        /\ Goto(c, NextTier("primary", "ok"))
     \/ /\ tier["primary"].body = None
        /\ Goto(c, "error")
        /\ UNCHANGED <<tier, existed, met>>
  /\ UNCHANGED <<has_secondary, kind, hit, faults, failed, before, crossed, gone>>

\* Likewise the secondary, whose failure is ignored.
UpdateSecondary(c) ==
  LET e == tier["secondary"] IN
  /\ Asks(c, "update", "secondary")
  /\ Goto(c, "ok")
  /\ \/ /\ e.body # None
        /\ Put(c, "secondary", [e EXCEPT !.meta = hit[c]])
        /\ existed' = [existed EXCEPT ![c] = TRUE]
        /\ UNCHANGED faults
     \/ /\ e.body = None
        /\ UNCHANGED <<tier, existed, faults, met>>
     \/ Fault /\ UNCHANGED <<tier, existed, met>>
  /\ UNCHANGED <<has_secondary, kind, hit, failed, before, crossed, gone>>

MissNext(c) == \/ MissStart(c) \/ GetMissHandler(c) \/ MissDrop(c)
               \/ FinishBody(c) \/ FinishMeta(c)
PurgeNext(c) ==
  \/ \E purge_type \in {"Eviction", "Invalidation"} : PurgeStart(c, purge_type)
  \/ PurgeBody(c) \/ PurgeMeta(c) \/ PurgeSecondary(c)
UpdateNext(c) == \/ \E l \in Calls : UpdateStart(c, l)
                 \/ UpdateAsk(c) \/ UpdateWrite(c) \/ UpdateSecondary(c)

Next ==
  \E c \in Calls :
    \/ LookupStart(c) \/ \E t \in Tiers : LookupTier(c, t) \/ LookupFails(c, t)
    \/ MissNext(c) \/ MetaFails(c) \/ PurgeNext(c) \/ UpdateNext(c) \/ Populate(c)

Spec == Init /\ [][Next]_vars

-----------------------------------------------------------------------------
(* Properties *)

\* Every variable has its type.
TypeOK ==
  /\ has_secondary \in BOOLEAN
  /\ tier \in [Tiers -> Entry]
  /\ kind \in [Calls -> {"none", "lookup", "miss", "Eviction", "Invalidation", "update"}]
  /\ pc \in [Calls -> Tiers \cup EndPc \cup {"writing", "commit", "unmeta", "updating"}]
  /\ hit \in [Calls -> Metas \cup {None}] /\ existed \in [Calls -> BOOLEAN]
  /\ faults \in Nat /\ failed \in SUBSET Calls /\ met \in SUBSET Calls
  /\ crossed \in SUBSET Calls
  /\ before \in [Calls -> SUBSET Objects] /\ gone \in SUBSET Objects

\* An object whose body was in either tier when an invalidation began, and whose
\* removal did not fail, never comes back once the invalidation has returned,
\* whatever hits from the secondary, insertions and updates ran between its two
\* purges or run later.
StaysGone == Here \cap gone = {}

\* A lookup that answers None, to which no tier failed to answer and during which
\* no entry appeared, leaves no tier behind that has an entry: none is overlooked
\* because a purge, a half-done finish or update, or another server changed the
\* tiers between its two questions.
NoneIsNone ==
  [][\A c \in Calls :
       pc[c] # "none" /\ pc'[c] = "none" /\ c \notin met' \cup failed' =>
         \A t \in Tiers : ~Has(tier[t])]_vars

\* The finish of the body o is under way, or failed, or overlapped a writer.
Marred(o) == o \in crossed \/ (o \in Calls /\ pc[o] \in {"commit", "broken"})
\* An update of the metadata m that met another object.
Displaced(c, m) ==
  /\ kind[c] = "update" /\ hit[c] = m
  /\ c \in met \/ before[c] \ {m} # {}
Explained(t) ==
  \/ Marred(tier[t].body)
  \/ \E c \in Calls : Displaced(c, tier[t].meta)
  \/ tier[t].meta = Garbled /\ (crossed # {} \/ \E c \in Calls : pc[c] = "broken")
\* update_meta asks nobody whose body the metadata it writes belongs to, and a
\* finish puts its body next to the metadata of the one before.  A tier has
\* metadata other than its body's only if the finish of that body is under way,
\* failed or overlapped another writer; or an update wrote these metadata, while
\* whose call an object was stored or before whose call one that they are not of
\* was there; or writers failed or overlapped and garbled them.  Purges, and
\* failures of any other call, never do it.
MixedExplained ==
  \A t \in Tiers : Has(tier[t]) /\ tier[t].meta # tier[t].body => Explained(t)

=============================================================================
