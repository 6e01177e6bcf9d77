------------------------- MODULE TieredStorageProofs -------------------------
(* What an invalidation, a lookup and an update_meta promise, for any number *)
(* of calls, stored objects and failures, with and without a secondary tier. *)
EXTENDS TieredStorageInv, TLAPS

USE TieredStorageAssumption

-----------------------------------------------------------------------------
(* Steps in general *)

\* The invariant holds before the first call.
LEMMA InitInv == Init => IInv
<1> SUFFICES ASSUME Init PROVE IInv
    OBVIOUS
<1> USE DEF Init, Objects, Metas
<1>1. \A t \in Tiers : /\ tier[t] \in Entry /\ tier[t].body = tier[t].meta
                       /\ tier[t].body \in Stored \cup {None}
  BY DEF Entry
<1>2. TypeOK
  BY <1>1 DEF TypeOK, EndPc
<1>3. StoredOnce /\ Elsewhere
  <2>1. Stored \cap Calls = {} /\ None \notin Calls
    OBVIOUS
  <2>2. \A t \in Tiers : tier[t].body \notin Calls
    BY <1>1, <2>1
  <2> QED
    BY <2>2 DEF StoredOnce, Elsewhere, Tiers
<1>4. HitKnown /\ Unbegun /\ Halfway /\ StaysGone /\ PrimaryEmpty /\ CrossSeen /\ OnlyGo
  BY DEF HitKnown, Unbegun, Halfway, StaysGone, PrimaryEmpty, CrossSeen, OnlyGo, Writers, Tiers
<1>5. MixedExplained
  BY <1>1 DEF MixedExplained
<1> QED
  BY <1>2, <1>3, <1>4, <1>5 DEF IInv, Absent

\* What Put does to the tiers and to those that meet it.
LEMMA PutFacts ==
  ASSUME TypeOK, NEW c \in Calls, NEW t \in Tiers, NEW e \in Entry, Put(c, t, e)
  PROVE  /\ tier' \in [Tiers -> Entry] /\ tier'[t] = e
         /\ \A u \in Tiers : u # t => tier'[u] = tier[u]
         /\ met' \in SUBSET Calls /\ met \subseteq met'
         /\ Has(e) /\ (~Has(tier[t]) \/ e.body # tier[t].body) =>
              \A d \in Live : d # c /\ kind[d] \in {"lookup", "update"} => d \in met'
BY DEF TypeOK, Put, Live

\* The entries that are put somewhere.
Primary(m) == [tier["primary"] EXCEPT !.meta = m]
LEMMA PutEntries ==
  ASSUME TypeOK
  PROVE  /\ \A m \in Metas \cup {None} :
              Primary(m) \in Entry /\ Primary(m).meta = m
              /\ Primary(m).body = tier["primary"].body
         /\ \A m \in Metas \cup {None} :
              LET e == [tier["secondary"] EXCEPT !.meta = m]
              IN e \in Entry /\ e.meta = m /\ e.body = tier["secondary"].body
         /\ \A c \in Calls :
              LET e == [tier["primary"] EXCEPT !.body = c]
              IN e \in Entry /\ e.body = c /\ e.meta = tier["primary"].meta
         /\ \A c \in Calls : [body |-> c, meta |-> c] \in Entry
<1>1. tier["primary"] \in Entry /\ tier["secondary"] \in Entry
  BY DEF TypeOK, Tiers
<1> QED
  BY <1>1 DEF Entry, Primary, Objects, Metas

\* Each of the six actions that put something, and what it is.
Puts(c, t, e) ==
  /\ Put(c, t, e)
  /\ \/ /\ FinishBody(c) /\ t = "primary"
        /\ e.body = c /\ e.meta = tier["primary"].meta
     \/ /\ FinishMeta(c) /\ t = "primary"
        /\ e.body = tier["primary"].body /\ e.meta \in Written(c, c)
     \/ /\ MetaFails(c) /\ t = "primary"
        /\ e.body = tier["primary"].body /\ e.meta \in {tier["primary"].meta, Garbled}
     \/ /\ Populate(c) /\ t = "secondary" /\ e.body = c /\ e.meta = c
     \/ /\ UpdateWrite(c) /\ t = "primary"
        /\ e.body = tier["primary"].body /\ e.meta \in Written(c, hit[c])
     \/ /\ UpdateSecondary(c) /\ t = "secondary"
        /\ e.body = tier["secondary"].body /\ e.body # None /\ e.meta = hit[c]

\* Nothing is put: bodies and metadata stay or go.
Taken ==
  \A u \in Tiers :
    /\ tier'[u] \in Entry
    /\ tier'[u].body \in {tier[u].body, None}
    /\ Has(tier'[u]) => tier'[u] = tier[u]

\* Every step puts something or takes at most something away.
LEMMA Effect ==
  ASSUME TypeOK, HitKnown, [Next]_vars
  PROVE  Taken \/ \E c \in Calls, t \in Tiers, e \in Entry : Puts(c, t, e)
<1> DEFINE G == \E c \in Calls, t \in Tiers, e \in Entry : Puts(c, t, e)
<1>0. "primary" \in Tiers /\ "secondary" \in Tiers
  BY DEF Tiers
<1>1. ASSUME tier' = tier PROVE Taken
  BY <1>1 DEF Taken, TypeOK
<1>2. ASSUME NEW c \in Calls, FinishBody(c) PROVE G
  <2> DEFINE e == [tier["primary"] EXCEPT !.body = c]
  <2>1. e \in Entry /\ e.body = c /\ e.meta = tier["primary"].meta
    BY PutEntries
  <2>2. Put(c, "primary", e)
    BY <1>2 DEF FinishBody
  <2> QED
    BY <1>0, <1>2, <2>1, <2>2 DEF Puts
<1>3. ASSUME NEW c \in Calls, FinishMeta(c) PROVE G
  <2>1. PICK m \in Written(c, c) : Put(c, "primary", Primary(m))
    BY <1>3 DEF FinishMeta, Primary
  <2>2. m \in Metas
    BY <2>1 DEF Written, Metas, Objects
  <2> QED
    BY <1>0, <1>3, <2>1, <2>2, PutEntries DEF Puts
<1>4. ASSUME NEW c \in Calls, MetaFails(c) PROVE G
  <2>1. PICK m \in {tier["primary"].meta, Garbled} : Put(c, "primary", Primary(m))
    BY <1>4 DEF MetaFails, Primary
  <2>2. m \in Metas \cup {None}
    BY <2>1, <1>0 DEF Metas, TypeOK, Entry
  <2> QED
    BY <1>0, <1>4, <2>1, <2>2, PutEntries DEF Puts
<1>5. ASSUME NEW c \in Calls, Populate(c) PROVE G
  <2> DEFINE e == [body |-> c, meta |-> c]
  <2>1. e \in Entry /\ Put(c, "secondary", e) /\ e.body = c /\ e.meta = c
    BY <1>5, PutEntries DEF Populate
  <2> QED
    BY <1>0, <1>5, <2>1 DEF Puts
<1>6. ASSUME NEW c \in Calls, UpdateWrite(c) PROVE Taken \/ G
  <2>1. CASE tier' = tier
    BY <1>1, <2>1
  <2>2. ASSUME NEW m \in Written(c, hit[c]), Put(c, "primary", Primary(m)) PROVE G
    <3>1. m \in Metas
      BY <1>6, <2>2 DEF Written, Metas, UpdateWrite, Asks, HitKnown
    <3> QED
      BY <1>0, <1>6, <2>2, <3>1, PutEntries DEF Puts
  <2> QED
    BY <1>6, <2>1, <2>2 DEF UpdateWrite, Primary
<1>7. ASSUME NEW c \in Calls, UpdateSecondary(c) PROVE Taken \/ G
  <2> DEFINE e == [tier["secondary"] EXCEPT !.meta = hit[c]]
  <2>1. hit[c] \in Metas
    BY <1>7 DEF UpdateSecondary, Asks, HitKnown
  <2>2. e \in Entry /\ e.body = tier["secondary"].body /\ e.meta = hit[c]
    BY <2>1, PutEntries
  <2>3. tier' = tier \/ (tier["secondary"].body # None /\ Put(c, "secondary", e))
    BY <1>7 DEF UpdateSecondary
  <2> QED
    BY <1>0, <1>1, <1>7, <2>2, <2>3 DEF Puts
<1>8. ASSUME NEW c \in Calls, PurgeBody(c) \/ PurgeMeta(c) \/ PurgeSecondary(c) PROVE Taken
  BY <1>8 DEF PurgeBody, PurgeMeta, PurgeSecondary, Taken, Has, TypeOK, Entry, Tiers
<1>9. ASSUME NEW c \in Calls, \/ LookupStart(c) \/ MissStart(c) \/ GetMissHandler(c)
                              \/ MissDrop(c) \/ UpdateAsk(c)
                              \/ \E t \in Tiers : LookupTier(c, t) \/ LookupFails(c, t)
                              \/ \E p \in {"Eviction", "Invalidation"} : PurgeStart(c, p)
                              \/ \E l \in Calls : UpdateStart(c, l)
      PROVE  Taken
  <2>1. tier' = tier
    BY <1>9 DEF LookupStart, MissStart, GetMissHandler, MissDrop, UpdateAsk, LookupTier,
                LookupFails, PurgeStart, UpdateStart, Begin
  <2> QED
    BY <1>1, <2>1
<1>10. CASE UNCHANGED vars
  BY <1>1, <1>10 DEF vars
<1> QED
  BY <1>2, <1>3, <1>4, <1>5, <1>6, <1>7, <1>8, <1>9, <1>10
  DEF Next, MissNext, PurgeNext, UpdateNext


-----------------------------------------------------------------------------
(* Types, and how a call moves *)

\* The beginning of a call.
Starts(c) ==
  \/ LookupStart(c) \/ MissStart(c)
  \/ \E p \in {"Eviction", "Invalidation"} : PurgeStart(c, p)
  \/ \E l \in Calls : UpdateStart(c, l)
Kinds == {"lookup", "miss", "Eviction", "Invalidation", "update"}
LEMMA StartFacts ==
  ASSUME TypeOK, HitKnown, NEW c \in Calls, Starts(c)
  PROVE  /\ \E knd \in Kinds : /\ Begin(c, knd)
                               /\ knd # "update" => hit' = hit
                               /\ \E m \in Metas : knd = "update" => hit' = [hit EXCEPT ![c] = m]
<1>0. Garbled \in Metas
  BY DEF Metas
<1>1. CASE LookupStart(c) \/ MissStart(c)
  BY <1>0, <1>1 DEF LookupStart, MissStart, Kinds
<1>2. ASSUME NEW p \in {"Eviction", "Invalidation"}, PurgeStart(c, p)
      PROVE  \E knd \in Kinds : Begin(c, knd) /\ knd # "update" /\ hit' = hit
  BY <1>2 DEF PurgeStart, Kinds
<1>3. ASSUME NEW l \in Calls, UpdateStart(c, l)
      PROVE  Begin(c, "update") /\ hit' = [hit EXCEPT ![c] = hit[l]] /\ hit[l] \in Metas
  BY <1>3 DEF UpdateStart, HitKnown
<1>4. "update" \in Kinds
  BY DEF Kinds
<1> QED
  BY <1>0, <1>1, <1>2, <1>3, <1>4, Zenon DEF Starts

\* Every step keeps the types.
LEMMA TypeStep == TypeOK /\ HitKnown /\ [Next]_vars => TypeOK'
<1> SUFFICES ASSUME TypeOK, HitKnown, [Next]_vars PROVE TypeOK'
    OBVIOUS
<1> USE DEF EndPc, Goto, callVars, hist
<1>1. Here \in SUBSET Objects /\ {} \in SUBSET Objects
  BY DEF Here, Entry, TypeOK
<1>2. Live \in SUBSET Calls /\ Writers \in SUBSET Calls
  BY DEF Live, Writers
<1>3. ASSUME NEW c \in Calls, Starts(c) PROVE TypeOK'
  <2>1. PICK knd \in Kinds : /\ Begin(c, knd)
                             /\ knd # "update" => hit' = hit
                             /\ \E m \in Metas : knd = "update" => hit' = [hit EXCEPT ![c] = m]
    BY <1>3, StartFacts
  <2>2. hit' \in [Calls -> Metas \cup {None}]
    BY <2>1 DEF TypeOK
  <2>3. before' \in [Calls -> SUBSET Objects]
    BY <1>1, <2>1 DEF TypeOK, Begin
  <2> QED
    BY <2>1, <2>2, <2>3 DEF TypeOK, Begin, Kinds, Tiers
<1>4. ASSUME NEW c \in Calls, GetMissHandler(c) \/ MissDrop(c) PROVE TypeOK'
  BY <1>4 DEF GetMissHandler, MissDrop, Fault, TypeOK
<1>5. ASSUME NEW c \in Calls, NEW t \in Tiers, LookupTier(c, t) \/ LookupFails(c, t)
      PROVE  TypeOK'
  <2>1. pc' \in [Calls -> Tiers \cup EndPc \cup {"writing", "commit", "unmeta", "updating"}]
    BY <1>5 DEF LookupTier, LookupFails, NextTier, Tiers, TypeOK
  <2>2. hit' \in [Calls -> Metas \cup {None}]
    BY <1>5 DEF LookupTier, LookupFails, TypeOK, Entry
  <2>3. faults' \in Nat /\ failed' \in SUBSET Calls
    BY <1>5 DEF LookupTier, LookupFails, Fails, Fault, TypeOK
  <2> QED
    BY <1>5, <2>1, <2>2, <2>3 DEF LookupTier, LookupFails, TypeOK
<1>6. ASSUME NEW c \in Calls, FinishBody(c) PROVE TypeOK'
  <2>1. tier' \in [Tiers -> Entry] /\ met' \in SUBSET Calls
    BY <1>6, PutFacts, PutEntries DEF FinishBody, Tiers
  <2>2. crossed' \in SUBSET Calls
    BY <1>2, <1>6 DEF FinishBody, Cross, TypeOK
  <2> QED
    BY <1>6, <2>1, <2>2 DEF FinishBody, TypeOK
<1>7. ASSUME NEW c \in Calls, FinishMeta(c) \/ MetaFails(c) \/ Populate(c) PROVE TypeOK'
  <2>1. tier' \in [Tiers -> Entry] /\ met' \in SUBSET Calls
    <3>1. ASSUME NEW m \in Metas \cup {None}, Put(c, "primary", Primary(m))
          PROVE  tier' \in [Tiers -> Entry] /\ met' \in SUBSET Calls
      BY <3>1, PutFacts, PutEntries DEF Tiers
    <3>2. Written(c, c) \subseteq Metas /\ tier["primary"].meta \in Metas \cup {None}
          /\ Garbled \in Metas
      BY DEF Written, Metas, Objects, TypeOK, Entry, Tiers
    <3>3. CASE FinishMeta(c) \/ MetaFails(c)
      BY <3>1, <3>2, <3>3 DEF FinishMeta, MetaFails, Primary
    <3>4. CASE Populate(c)
      BY <3>4, PutFacts, PutEntries DEF Populate, Tiers
    <3> QED
      BY <1>7, <3>3, <3>4
  <2> QED
    BY <1>7, <2>1 DEF FinishMeta, MetaFails, Populate, Fault, TypeOK
<1>8. ASSUME NEW c \in Calls, PurgeBody(c) PROVE TypeOK'
  <2>1. tier' \in [Tiers -> Entry]
    BY <1>8 DEF PurgeBody, TypeOK, Entry, Tiers
  <2>2. existed' \in [Calls -> BOOLEAN]
    <3>1. existed' = existed \/ \E b \in BOOLEAN : existed' = [existed EXCEPT ![c] = b]
      BY <1>8, Zenon DEF PurgeBody
    <3> QED
      BY <3>1 DEF TypeOK
  <2>3. faults' \in Nat /\ failed' \in SUBSET Calls
    BY <1>8 DEF PurgeBody, Fails, Fault, TypeOK
  <2>4. pc' = [pc EXCEPT ![c] = "unmeta"] /\ UNCHANGED <<has_secondary, kind, hit, before, met, crossed, gone>>
    BY <1>8 DEF PurgeBody
  <2> QED
    BY <2>1, <2>2, <2>3, <2>4 DEF TypeOK
<1>9. ASSUME NEW c \in Calls, PurgeMeta(c) \/ PurgeSecondary(c) PROVE TypeOK'
  <2>1. tier' \in [Tiers -> Entry]
    BY <1>9 DEF PurgeMeta, PurgeSecondary, TypeOK, Entry, Tiers
  <2>5. existed' \in [Calls -> BOOLEAN]
    <3>1. existed' = existed \/ \E b \in BOOLEAN : existed' = [existed EXCEPT ![c] = b]
      BY <1>9, Zenon DEF PurgeMeta, PurgeSecondary
    <3> QED
      BY <3>1 DEF TypeOK
  <2>2. gone' \in SUBSET Objects
    BY <1>9 DEF PurgeMeta, PurgeSecondary, PurgeEnd, TypeOK
  <2>3. pc' \in [Calls -> Tiers \cup EndPc \cup {"writing", "commit", "unmeta", "updating"}]
    BY <1>9 DEF PurgeMeta, PurgeSecondary, PurgeEnd, NextTier, TypeOK, Tiers
  <2>4. faults' \in Nat /\ failed' \in SUBSET Calls
    BY <1>9 DEF PurgeMeta, PurgeSecondary, Fails, Fault, TypeOK
  <2> QED
    BY <1>9, <2>1, <2>2, <2>3, <2>4, <2>5 DEF PurgeMeta, PurgeSecondary, TypeOK
<1>10. ASSUME NEW c \in Calls, UpdateAsk(c) PROVE TypeOK'
  <2>1. crossed' \in SUBSET Calls
    BY <1>2, <1>10 DEF UpdateAsk, Cross, TypeOK
  <2>2. faults' \in Nat
    BY <1>10 DEF UpdateAsk, Fault, TypeOK
  <2> QED
    BY <1>10, <2>1, <2>2 DEF UpdateAsk, NextTier, TypeOK, Tiers
<1>11. ASSUME NEW c \in Calls, UpdateWrite(c) \/ UpdateSecondary(c) PROVE TypeOK'
  <2>1. hit[c] \in Metas /\ Written(c, hit[c]) \subseteq Metas
    BY <1>11 DEF UpdateWrite, UpdateSecondary, Asks, HitKnown, Written, Metas
  <2>2. tier' \in [Tiers -> Entry] /\ met' \in SUBSET Calls
    <3>1. ASSUME NEW m \in Metas, Put(c, "primary", Primary(m))
          PROVE  tier' \in [Tiers -> Entry] /\ met' \in SUBSET Calls
      BY <3>1, PutFacts, PutEntries DEF Tiers
    <3>2. CASE UpdateWrite(c)
      BY <2>1, <3>1, <3>2 DEF UpdateWrite, Primary, TypeOK
    <3>3. CASE UpdateSecondary(c)
      BY <2>1, <3>3, PutFacts, PutEntries DEF UpdateSecondary, TypeOK, Tiers
    <3> QED
      BY <1>11, <3>2, <3>3
  <2>3. pc' \in [Calls -> Tiers \cup EndPc \cup {"writing", "commit", "unmeta", "updating"}]
    BY <1>11 DEF UpdateWrite, UpdateSecondary, NextTier, TypeOK, Tiers
  <2>4. faults' \in Nat
    BY <1>11 DEF UpdateWrite, UpdateSecondary, Fault, TypeOK
  <2>5. existed' \in [Calls -> BOOLEAN]
    <3>1. existed' = existed \/ \E b \in BOOLEAN : existed' = [existed EXCEPT ![c] = b]
      BY <1>11, Zenon DEF UpdateWrite, UpdateSecondary
    <3> QED
      BY <3>1 DEF TypeOK
  <2> QED
    BY <1>11, <2>2, <2>3, <2>4, <2>5 DEF UpdateWrite, UpdateSecondary, TypeOK
<1>12. CASE UNCHANGED vars
  BY <1>12 DEF vars, TypeOK
<1> QED
  BY <1>3, <1>4, <1>5, <1>6, <1>7, <1>8, <1>9, <1>10, <1>11, <1>12
  DEF Next, MissNext, PurgeNext, UpdateNext, Starts

\* How a call moves: what it is, what it knew when it began and the metadata it was
\* given or writes are settled, nothing recorded of it is forgotten, no call is idle
\* again, and one that stored something stays at it.
Moves(d) ==
  /\ pc[d] # "idle" => kind'[d] = kind[d] /\ before'[d] = before[d]
  /\ pc[d] = "idle" => before'[d] \in {before[d], Here, {}}
  /\ kind[d] = "update" \/ pc[d] = "hit" => hit'[d] = hit[d]
  /\ met \subseteq met' /\ crossed \subseteq crossed' /\ failed \subseteq failed'
  /\ pc'[d] = "idle" => pc[d] = "idle" /\ kind'[d] = kind[d]
  /\ pc[d] \in {"ok", "broken", "none"} => pc'[d] = pc[d]
  /\ pc[d] = "commit" => pc'[d] \in Placed
LEMMA CallStep ==
  ASSUME TypeOK, HitKnown, Unbegun, [Next]_vars, NEW d \in Calls
  PROVE  Moves(d)
<1> USE DEF Moves, TypeOK, Goto, Asks, callVars, hist, Unbegun, Tiers, Placed
<1>1. ASSUME NEW c \in Calls, Starts(c) PROVE Moves(d)
  <2>1. PICK knd \in Kinds : /\ Begin(c, knd)
                             /\ knd # "update" => hit' = hit
                             /\ \E m \in Metas : knd = "update" => hit' = [hit EXCEPT ![c] = m]
    BY <1>1, StartFacts
  <2> QED
    BY <2>1 DEF Begin, Kinds
<1>2. ASSUME NEW c \in Calls, GetMissHandler(c) \/ MissDrop(c) PROVE Moves(d)
  BY <1>2 DEF GetMissHandler, MissDrop
<1>3. ASSUME NEW c \in Calls, NEW t \in Tiers, LookupTier(c, t) \/ LookupFails(c, t)
      PROVE  Moves(d)
  BY <1>3 DEF LookupTier, LookupFails, NextTier, Fails
<1>4. ASSUME NEW c \in Calls, FinishBody(c) \/ FinishMeta(c) \/ MetaFails(c) PROVE Moves(d)
  BY <1>4 DEF FinishBody, FinishMeta, MetaFails, Put, Cross, Writers
<1>5. ASSUME NEW c \in Calls, Populate(c) PROVE Moves(d)
  BY <1>5 DEF Populate, Put
<1>6. ASSUME NEW c \in Calls, PurgeBody(c) \/ PurgeMeta(c) \/ PurgeSecondary(c)
      PROVE  Moves(d)
  BY <1>6 DEF PurgeBody, PurgeMeta, PurgeSecondary, PurgeEnd, NextTier, Fails
<1>7. ASSUME NEW c \in Calls, UpdateAsk(c) \/ UpdateWrite(c) \/ UpdateSecondary(c)
      PROVE  Moves(d)
  BY <1>7 DEF UpdateAsk, UpdateWrite, UpdateSecondary, NextTier, Cross, Put
<1>8. CASE UNCHANGED vars
  BY <1>8 DEF vars
<1> QED
  BY <1>1, <1>2, <1>3, <1>4, <1>5, <1>6, <1>7, <1>8
  DEF Next, MissNext, PurgeNext, UpdateNext, Starts

-----------------------------------------------------------------------------
(* Who moves, and what bodies come and go *)

\* What a call may do.
Does(c) ==
  \/ LookupStart(c) \/ \E t \in Tiers : LookupTier(c, t) \/ LookupFails(c, t)
  \/ MissNext(c) \/ MetaFails(c) \/ PurgeNext(c) \/ UpdateNext(c) \/ Populate(c)

\* A step moves the call that takes it, and no other.
LEMMA Actor ==
  ASSUME TypeOK, HitKnown, [Next]_vars, NEW d \in Calls, pc'[d] # pc[d]
  PROVE  Does(d) /\ \A c \in Calls : c # d => pc'[c] = pc[c]
<1>1. CASE UNCHANGED vars
  BY <1>1 DEF vars
<1>2. ASSUME NEW c \in Calls, Does(c) PROVE c = d /\ \A b \in Calls : b # c => pc'[b] = pc[b]
  <2>1. ASSUME NEW to, pc' = [pc EXCEPT ![c] = to]
        PROVE  c = d /\ \A b \in Calls : b # c => pc'[b] = pc[b]
    BY <2>1 DEF TypeOK
  <2>2. \E to : pc' = [pc EXCEPT ![c] = to]
    BY <1>2, Zenon
    DEF Does, MissNext, PurgeNext, UpdateNext, LookupStart, LookupTier, LookupFails,
        MissStart, GetMissHandler, MissDrop, FinishBody, FinishMeta, MetaFails, Populate,
        PurgeStart, PurgeBody, PurgeMeta, PurgeSecondary, PurgeEnd, UpdateStart,
        UpdateAsk, UpdateWrite, UpdateSecondary, Begin, Goto
  <2> QED
    BY <2>1, <2>2
<1>3. CASE Next
  BY <1>2, <1>3 DEF Next, Does
<1> QED
  BY <1>1, <1>3

\* A body that comes is that of a call that stores it in this step; in the
\* secondary, that of another server.
Comes(t, o) ==
  /\ o \in Calls /\ pc[o] \notin Placed
  /\ \/ t = "primary" /\ FinishBody(o) /\ pc'[o] = "commit"
     \/ t = "secondary" /\ has_secondary /\ pc'[o] = "ok" /\ tier'["primary"] = tier["primary"]
LEMMA Bodies ==
  ASSUME TypeOK, HitKnown, [Next]_vars, NEW t \in Tiers
  PROVE  tier'[t].body \in {tier[t].body, None} \/ Comes(t, tier'[t].body)
<1>1. CASE Taken
  BY <1>1 DEF Taken
<1>2. ASSUME NEW c \in Calls, NEW u \in Tiers, NEW e \in Entry, Puts(c, u, e)
      PROVE  tier'[t].body \in {tier[t].body, None} \/ Comes(t, tier'[t].body)
  <2>1. tier'[u] = e /\ \A v \in Tiers : v # u => tier'[v] = tier[v]
    BY <1>2, PutFacts DEF Puts
  <2>2. CASE FinishBody(c) /\ u = "primary" /\ e.body = c
    BY <2>1, <2>2 DEF FinishBody, Asks, Goto, Comes, Placed, TypeOK
  <2>3. CASE Populate(c) /\ u = "secondary" /\ e.body = c
    BY <2>1, <2>3 DEF Populate, Goto, Comes, Placed, TypeOK, Tiers
  <2>4. CASE e.body = tier[u].body
    BY <2>1, <2>4
  <2> QED
    BY <1>2, <2>2, <2>3, <2>4 DEF Puts
<1> QED
  BY <1>1, <1>2, Effect

\* No object that has come yet is stored again.
LEMMA HereStep ==
  ASSUME TypeOK, HitKnown, [Next]_vars, NEW o \in Here'
  PROVE  o \in Here \/ (o \in Calls /\ pc[o] \notin Placed /\ pc'[o] \in Placed)
<1>1. PICK t \in Tiers : o = tier'[t].body /\ o # None
  BY DEF Here
<1> QED
  BY <1>1, Bodies DEF Here, Comes, Placed

\* What an invalidation that ends declares gone.
LEMMA GoneStep ==
  ASSUME TypeOK, HitKnown, [Next]_vars
  PROVE  \/ gone' = gone
         \/ \E c \in Calls :
              /\ kind[c] = "Invalidation" /\ pc[c] \in {"unmeta", "secondary"}
              /\ c \notin failed /\ gone' = gone \cup before[c]
              /\ tier'["primary"].body = tier["primary"].body
              /\ \/ ~has_secondary /\ tier'["secondary"] = tier["secondary"]
                 \/ tier'["secondary"].body = None
<1> USE DEF callVars, hist, Tiers
<1>1. ASSUME NEW c \in Calls, PurgeMeta(c), gone' # gone
      PROVE  /\ kind[c] = "Invalidation" /\ pc[c] \in {"unmeta", "secondary"}
             /\ c \notin failed /\ gone' = gone \cup before[c]
             /\ tier'["primary"].body = tier["primary"].body
             /\ ~has_secondary /\ tier'["secondary"] = tier["secondary"]
  BY <1>1 DEF PurgeMeta, PurgeEnd, IsPurge, NextTier, TypeOK, Entry
<1>2. ASSUME NEW c \in Calls, PurgeSecondary(c), gone' # gone
      PROVE  /\ kind[c] = "Invalidation" /\ pc[c] \in {"unmeta", "secondary"}
             /\ c \notin failed /\ gone' = gone \cup before[c]
             /\ tier'["primary"].body = tier["primary"].body
             /\ tier'["secondary"].body = None
  BY <1>2 DEF PurgeSecondary, PurgeEnd, IsPurge, Fails, TypeOK, Entry
<1>3. ASSUME NEW c \in Calls, Does(c), ~PurgeMeta(c), ~PurgeSecondary(c) PROVE gone' = gone
  BY <1>3, Zenon
  DEF Does, MissNext, PurgeNext, UpdateNext, LookupStart, LookupTier, LookupFails,
      MissStart, GetMissHandler, MissDrop, FinishBody, FinishMeta, MetaFails, Populate,
      PurgeStart, PurgeBody, UpdateStart, UpdateAsk, UpdateWrite, UpdateSecondary, Begin
<1>4. CASE UNCHANGED vars
  BY <1>4 DEF vars
<1> QED
  BY <1>1, <1>2, <1>3, <1>4 DEF Next, Does

-----------------------------------------------------------------------------
(* The conjuncts of the invariant, one by one *)

LEMMA UnbegunStep ==
  ASSUME TypeOK, HitKnown, Unbegun, [Next]_vars
  PROVE  Unbegun' /\ HitKnown'
<1> DEFINE Q(d) == /\ pc'[d] = "idle" => kind'[d] = "none"
                   /\ pc'[d] \in {"writing", "commit"} => kind'[d] = "miss"
                   /\ pc'[d] = "updating" => kind'[d] = "update"
                   /\ pc'[d] = "hit" \/ kind'[d] = "update" => hit'[d] \in Metas
<1> SUFFICES ASSUME NEW d \in Calls PROVE Q(d)
    BY DEF Unbegun, HitKnown
<1>1. Moves(d)
  BY CallStep
<1>2. CASE pc'[d] = pc[d]
  <2>1. CASE pc[d] = "idle"
    BY <1>1, <1>2, <2>1 DEF Moves, Unbegun
  <2>2. CASE pc[d] # "idle"
    BY <1>1, <1>2, <2>2 DEF Moves, Unbegun, HitKnown
  <2> QED
    BY <2>1, <2>2
<1>3. CASE pc'[d] # pc[d]
  <2> USE DEF TypeOK, Goto, Asks, callVars, hist, Unbegun, Tiers
  <2>1. CASE Starts(d)
    <3>1. PICK knd \in Kinds : /\ Begin(d, knd)
                               /\ knd # "update" => hit' = hit
                               /\ \E m \in Metas : knd = "update" => hit' = [hit EXCEPT ![d] = m]
      BY <2>1, StartFacts
    <3>2. pc'[d] = "primary" /\ kind'[d] = knd
      BY <3>1 DEF Begin
    <3> QED
      BY <3>1, <3>2
  <2>2. ASSUME NEW t \in Tiers, LookupTier(d, t) \/ LookupFails(d, t) PROVE Q(d)
    <3>1. kind' = kind /\ kind[d] = "lookup" /\ pc'[d] \in {"hit", "secondary", "none", "error"}
      BY <2>2 DEF LookupTier, LookupFails, NextTier
    <3>2. pc'[d] = "hit" => hit'[d] = tier[t].meta /\ tier[t].meta # None
      BY <2>2 DEF LookupTier, LookupFails, NextTier, Has
    <3>3. tier[t].meta \in Metas \cup {None}
      BY <2>2 DEF Entry
    <3> QED
      BY <3>1, <3>2, <3>3
  <2>3. CASE GetMissHandler(d) \/ MissDrop(d) \/ FinishBody(d) \/ FinishMeta(d)
    BY <2>3 DEF GetMissHandler, MissDrop, FinishBody, FinishMeta
  <2>4. CASE MetaFails(d) \/ UpdateAsk(d) \/ UpdateWrite(d) \/ UpdateSecondary(d)
    BY <2>4 DEF MetaFails, UpdateAsk, UpdateWrite, UpdateSecondary, NextTier, HitKnown, Writers
  <2>5. CASE PurgeBody(d) \/ PurgeMeta(d) \/ PurgeSecondary(d)
    BY <2>5 DEF PurgeBody, PurgeMeta, PurgeSecondary, PurgeEnd, NextTier, IsPurge
  <2>6. CASE Populate(d)
    BY <2>6 DEF Populate, HitKnown
  <2> QED
    BY <1>3, <2>1, <2>2, <2>3, <2>4, <2>5, <2>6, Actor
    DEF Does, MissNext, PurgeNext, UpdateNext, Starts
<1> QED
  BY <1>2, <1>3

LEMMA StoredOnceStep ==
  ASSUME TypeOK, HitKnown, Unbegun, StoredOnce, Elsewhere, [Next]_vars
  PROVE  StoredOnce' /\ Elsewhere'
<1>1. ASSUME NEW o \in Calls, pc'[o] \notin Placed
      PROVE  /\ pc[o] \notin Placed
             /\ \A t \in Tiers : tier'[t].body # o
             /\ o \notin gone'
             /\ \A c \in Calls : o \notin before'[c]
  <2>1. pc[o] \notin Placed
    BY <1>1, CallStep DEF Moves, Placed
  <2>2. \A t \in Tiers : tier'[t].body # o
    <3>1. o # None
      BY DEF Metas, Objects
    <3> QED
      BY <1>1, <2>1, <3>1, Bodies DEF StoredOnce, Comes, Placed
  <2>3. o \notin gone'
    BY <2>1, GoneStep DEF StoredOnce
  <2>4. o \notin Here
    BY <2>1 DEF StoredOnce, Here
  <2>5. \A c \in Calls : before'[c] \in {before[c], Here, {}}
    BY CallStep DEF Moves
  <2> QED
    BY <2>1, <2>2, <2>3, <2>4, <2>5 DEF StoredOnce
<1>2. Elsewhere'
  <2>1. "secondary" \in Tiers /\ None \notin Calls
    BY DEF Tiers, Metas, Objects
  <2>2. \A o \in Calls : pc[o] = "ok" => pc'[o] = "ok"
    BY CallStep DEF Moves
  <2> QED
    BY <2>1, <2>2, Bodies DEF Elsewhere, Comes
<1> QED
  BY <1>1, <1>2 DEF StoredOnce

LEMMA AbsentStep ==
  ASSUME TypeOK, HitKnown, Absent, [Next]_vars
  PROVE  has_secondary' = has_secondary /\ Absent'
<1>1. has_secondary' = has_secondary
  <2>1. ASSUME NEW c \in Calls, Does(c) PROVE has_secondary' = has_secondary
    BY <2>1, Zenon
    DEF Does, MissNext, PurgeNext, UpdateNext, LookupStart, LookupTier, LookupFails,
        MissStart, GetMissHandler, MissDrop, FinishBody, FinishMeta, MetaFails, Populate,
        PurgeStart, PurgeBody, PurgeMeta, PurgeSecondary, UpdateStart, UpdateAsk,
        UpdateWrite, UpdateSecondary, Begin
  <2> QED
    BY <2>1 DEF Next, Does, vars
<1>2. "secondary" \in Tiers
  BY DEF Tiers
<1> QED
  BY <1>1, <1>2, Bodies DEF Absent, Comes

\* The removal of the primary's body, for an invalidation that has just made it.
LEMMA HalfwayStep ==
  ASSUME TypeOK, HitKnown, Unbegun, StoredOnce, Halfway, [Next]_vars
  PROVE  Halfway'
<1> SUFFICES ASSUME NEW d \in Calls, kind'[d] = "Invalidation",
                    pc'[d] \in {"unmeta", "secondary"}, d \notin failed'
             PROVE  tier'["primary"].body \notin before'[d]
    BY DEF Halfway
<1>0. "primary" \in Tiers /\ None \notin Objects
  BY DEF Tiers, Metas
<1>1. Moves(d)
  BY CallStep
<1>2. CASE pc[d] = "idle"
  <2>1. Does(d)
    BY <1>2, Actor
  <2>2. CASE Starts(d)
    BY <2>2, StartFacts DEF Begin, TypeOK
  <2>3. CASE Populate(d)
    BY <2>3 DEF Populate, Goto, TypeOK
  <2> QED
    BY <1>2, <2>1, <2>2, <2>3
    DEF Does, MissNext, PurgeNext, UpdateNext, LookupTier, LookupFails, GetMissHandler,
        MissDrop, FinishBody, FinishMeta, MetaFails, PurgeBody, PurgeMeta, PurgeSecondary,
        UpdateAsk, UpdateWrite, UpdateSecondary, Asks, Tiers, Writers, Starts
<1>3. CASE pc[d] # "idle"
  <2>1. kind[d] = "Invalidation" /\ before'[d] = before[d] /\ d \notin failed
        /\ before[d] \in SUBSET Objects
    BY <1>1, <1>3 DEF Moves, TypeOK
  <2>2. CASE pc[d] \in {"unmeta", "secondary"}
    <3>1. tier["primary"].body \notin before[d]
      BY <2>1, <2>2 DEF Halfway
    <3> QED
      BY <1>0, <2>1, <3>1, Bodies DEF StoredOnce, Comes
  <2>3. CASE pc[d] \notin {"unmeta", "secondary"}
    <3>1. Does(d)
      BY <2>3, Actor
    <3>2. PurgeBody(d)
      BY <1>0, <2>1, <2>3, <3>1
      DEF Does, MissNext, PurgeNext, UpdateNext, LookupStart, LookupTier, LookupFails,
          MissStart, GetMissHandler, MissDrop, FinishBody, FinishMeta, MetaFails, Populate,
          PurgeStart, PurgeMeta, PurgeSecondary, UpdateStart, UpdateAsk, UpdateWrite,
          UpdateSecondary, Begin, Asks, Writers, Unbegun, Goto, TypeOK
    <3>3. tier'["primary"].body = None
      BY <1>0, <3>2 DEF PurgeBody, Fails, TypeOK, Entry
    <3> QED
      BY <1>0, <2>1, <3>3
  <2> QED
    BY <2>2, <2>3
<1> QED
  BY <1>2, <1>3

LEMMA StaysGoneStep ==
  ASSUME TypeOK, HitKnown, StoredOnce, Absent, Halfway, StaysGone, [Next]_vars
  PROVE  StaysGone'
<1> SUFFICES ASSUME NEW o \in Here' PROVE o \notin gone'
    BY DEF StaysGone
<1>1. o \in Here => o \notin gone
  BY DEF StaysGone
<1>2. o \notin Here => o \notin gone /\ \A c \in Calls : o \notin before[c]
  BY HereStep DEF StoredOnce
<1>3. ASSUME NEW c \in Calls, kind[c] = "Invalidation", pc[c] \in {"unmeta", "secondary"},
             c \notin failed, tier'["primary"].body = tier["primary"].body,
             \/ ~has_secondary /\ tier'["secondary"] = tier["secondary"]
             \/ tier'["secondary"].body = None
      PROVE  o \notin before[c]
  <2>1. PICK t \in Tiers : o = tier'[t].body /\ o # None
    BY DEF Here
  <2>2. t = "primary"
    BY <1>3, <2>1 DEF Tiers, Absent
  <2> QED
    BY <1>3, <2>1, <2>2 DEF Halfway
<1> QED
  BY <1>1, <1>2, <1>3, GoneStep

\* An entry that appears in a tier is met by the other lookups and updates.
LEMMA Appears ==
  ASSUME TypeOK, HitKnown, [Next]_vars, NEW t \in Tiers, Has(tier'[t]),
         ~Has(tier[t]) \/ tier'[t].body # tier[t].body
  PROVE  \E c \in Calls, e \in Entry :
           Puts(c, t, e) /\ \A d \in Live : d # c /\ kind[d] \in {"lookup", "update"} => d \in met'
<1>1. ~Taken
  BY DEF Taken
<1>2. PICK c \in Calls, u \in Tiers, e \in Entry : Puts(c, u, e)
  BY <1>1, Effect
<1>3. tier'[u] = e /\ \A v \in Tiers : v # u => tier'[v] = tier[v]
  BY <1>2, PutFacts DEF Puts
<1>4. t = u
  BY <1>3
<1>5. Put(c, t, e)
  BY <1>2, <1>4 DEF Puts
<1> QED
  BY <1>2, <1>3, <1>4, <1>5, PutFacts

LEMMA PrimaryEmptyStep ==
  ASSUME TypeOK, HitKnown, Unbegun, PrimaryEmpty, [Next]_vars
  PROVE  PrimaryEmpty'
<1> SUFFICES ASSUME NEW d \in Calls, kind'[d] = "lookup", pc'[d] = "secondary",
                    d \notin met', d \notin failed'
             PROVE  ~Has(tier'["primary"])
    BY DEF PrimaryEmpty, Has
<1>0. "primary" \in Tiers /\ "secondary" \in Tiers
  BY DEF Tiers
<1>1. Moves(d)
  BY CallStep
<1>2. CASE pc[d] = "secondary"
  <2>1. kind[d] = "lookup" /\ d \notin met /\ d \notin failed
    BY <1>1, <1>2 DEF Moves
  <2>2. d \in Live
    BY <1>2 DEF Live, EndPc
  <2>3. ASSUME Has(tier'["primary"]) PROVE FALSE
    <3>1. ~Has(tier["primary"])
      BY <1>2, <2>1 DEF PrimaryEmpty
    <3>2. PICK c \in Calls, e \in Entry :
            Puts(c, "primary", e) /\ (d # c => d \in met')
      BY <1>0, <2>1, <2>2, <2>3, <3>1, Appears
    <3>3. c # d
      BY <1>2, <2>1, <3>2
      DEF Puts, FinishBody, FinishMeta, MetaFails, UpdateWrite, Asks, Writers
    <3> QED
      BY <3>2, <3>3
  <2> QED
    BY <2>3
<1>3. CASE pc[d] # "secondary"
  <2>1. Does(d)
    BY <1>3, Actor
  <2>2. ASSUME NEW t \in Tiers, LookupTier(d, t)
        PROVE  ~Has(tier'["primary"])
    BY <1>3, <2>2 DEF LookupTier, NextTier, Asks, Goto, TypeOK, Tiers
  <2>3. ASSUME NEW t \in Tiers, LookupFails(d, t) PROVE FALSE
    BY <2>3 DEF LookupFails, Fails, TypeOK
  <2>4. kind[d] = "lookup" \/ Starts(d) \/ Populate(d)
    <3>1. CASE pc[d] = "idle"
      BY <2>1, <3>1
      DEF Does, MissNext, PurgeNext, UpdateNext, LookupTier, LookupFails, GetMissHandler,
          MissDrop, FinishBody, FinishMeta, MetaFails, PurgeBody, PurgeMeta, PurgeSecondary,
          UpdateAsk, UpdateWrite, UpdateSecondary, Asks, Tiers, Writers, Starts
    <3> QED
      BY <1>1, <3>1 DEF Moves
  <2>5. ~Starts(d) /\ ~Populate(d)
    <3>1. Starts(d) => pc'[d] = "primary"
      BY StartFacts DEF Begin, TypeOK
    <3>2. Populate(d) => pc'[d] = "ok"
      BY DEF Populate, Goto, TypeOK
    <3> QED
      BY <3>1, <3>2
  <2>6. \E t \in Tiers : LookupTier(d, t) \/ LookupFails(d, t)
    BY <2>1, <2>4, <2>5
    DEF Does, MissNext, PurgeNext, UpdateNext, Starts, GetMissHandler, MissDrop, FinishBody,
        FinishMeta, MetaFails, PurgeBody, PurgeMeta, PurgeSecondary, UpdateAsk, UpdateWrite,
        UpdateSecondary, Asks, Writers, IsPurge, Unbegun
  <2> QED
    BY <2>2, <2>3, <2>6
<1> QED
  BY <1>2, <1>3

\* A call that begins to write the primary's files.
LEMMA WriterStep ==
  ASSUME TypeOK, HitKnown, Unbegun, [Next]_vars, NEW d \in Calls,
         pc'[d] \in {"commit", "updating"}, pc'[d] # pc[d]
  PROVE  /\ Cross(d) /\ d \notin Writers /\ \A c \in Calls : c # d => pc'[c] = pc[c]
         /\ pc'[d] = "commit" => kind[d] = "miss" /\ tier'["primary"].body = d
<1>1. Does(d)
  BY Actor
<1>2. FinishBody(d) \/ UpdateAsk(d)
  <2>1. Starts(d) => pc'[d] = "primary"
    BY StartFacts DEF Begin, TypeOK
  <2> QED
    BY <1>1, <2>1
    DEF Does, MissNext, PurgeNext, UpdateNext, LookupTier, LookupFails, GetMissHandler,
        MissDrop, FinishMeta, MetaFails, PurgeBody, PurgeMeta, PurgeSecondary, PurgeEnd,
        UpdateWrite, UpdateSecondary, Populate, Starts, Goto, TypeOK, NextTier
<1>3. CASE FinishBody(d)
  BY <1>3, PutEntries, PutFacts DEF FinishBody, Asks, Writers, Goto, TypeOK, Put, Tiers
<1>4. CASE UpdateAsk(d)
  BY <1>4 DEF UpdateAsk, Asks, Writers, Goto, TypeOK, NextTier
<1> QED
  BY <1>2, <1>3, <1>4

LEMMA CrossSeenStep ==
  ASSUME TypeOK, HitKnown, Unbegun, StoredOnce, CrossSeen, [Next]_vars
  PROVE  CrossSeen'
<1>1. \A c \in Calls : Moves(c)
  BY CallStep
<1>2. ASSUME NEW c \in Writers', NEW d \in Writers', c # d PROVE c \in crossed'
  <2>1. /\ c \in Calls /\ pc'[c] \in {"commit", "updating"}
        /\ d \in Calls /\ pc'[d] \in {"commit", "updating"}
    BY DEF Writers
  <2>2. CASE pc'[c] # pc[c]
    <3>1. Cross(c) /\ pc'[d] = pc[d]
      BY <1>2, <2>1, <2>2, WriterStep
    <3>2. d \in Writers
      BY <2>1, <3>1 DEF Writers
    <3> QED
      BY <3>1, <3>2 DEF Cross
  <2>3. CASE pc'[c] = pc[c] /\ pc'[d] # pc[d]
    <3>1. Cross(d)
      BY <2>1, <2>3, WriterStep
    <3>2. c \in Writers
      BY <2>1, <2>3 DEF Writers
    <3> QED
      BY <3>1, <3>2 DEF Cross
  <2>4. CASE pc'[c] = pc[c] /\ pc'[d] = pc[d]
    BY <1>1, <1>2, <2>1, <2>4 DEF Writers, CrossSeen, Moves
  <2> QED
    BY <2>2, <2>3, <2>4
<1>3. ASSUME NEW c \in Calls, pc'[c] = "commit"
      PROVE  tier'["primary"].body \in {None, c} \cup crossed'
  <2>1. CASE pc[c] # "commit"
    BY <1>3, <2>1, WriterStep
  <2>2. CASE pc[c] = "commit"
    <3>1. tier["primary"].body \in {None, c} \cup crossed /\ c \in Writers
      BY <2>2 DEF CrossSeen, Writers
    <3>2. CASE tier'["primary"].body \in {tier["primary"].body, None}
      BY <1>1, <3>1, <3>2 DEF Moves
    <3>3. CASE Comes("primary", tier'["primary"].body)
      <4>1. PICK o \in Calls : o = tier'["primary"].body /\ FinishBody(o)
        BY <3>3 DEF Comes
      <4> QED
        BY <3>1, <4>1 DEF FinishBody, Cross
    <3> QED
      BY <3>2, <3>3, Bodies DEF Tiers
  <2> QED
    BY <2>1, <2>2
<1>4. \A c, d \in Writers' : c # d => c \in crossed'
  BY <1>2
<1> QED
  BY <1>3, <1>4 DEF CrossSeen

\* A finish that has put its body leaves "commit" by writing the metadata, unless it
\* breaks.
LEMMA CommitStep ==
  ASSUME TypeOK, HitKnown, Unbegun, [Next]_vars, NEW o \in Calls,
         pc[o] = "commit", pc'[o] \notin {"commit", "broken"}
  PROVE  FinishMeta(o)
<1>1. Does(o)
  BY Actor
<1>2. kind[o] = "miss"
  BY DEF Unbegun
<1>3. ~MetaFails(o)
  BY DEF MetaFails, Goto, TypeOK
<1>4. ~Starts(o)
  BY StartFacts DEF Begin
<1> QED
  BY <1>1, <1>2, <1>3, <1>4
  DEF Does, MissNext, PurgeNext, UpdateNext, LookupTier, LookupFails, GetMissHandler, MissDrop,
      FinishBody, PurgeBody, PurgeMeta, PurgeSecondary, IsPurge, UpdateAsk, UpdateWrite,
      UpdateSecondary, Populate, Asks, Tiers, Starts

\* What OnlyGo says of update d and tier t.
Settled(d, t) ==
  LET o == tier[t].body IN
  \/ o \in before[d] \cup {None} \cup crossed
  \/ o \in Calls /\ pc[o] = "broken"
  \/ o \in Calls /\ pc[o] = "commit" /\ ~Has(tier[t])

LEMMA OnlyGoStep ==
  ASSUME TypeOK, HitKnown, Unbegun, Elsewhere, CrossSeen, OnlyGo, [Next]_vars
  PROVE  OnlyGo'
<1> SUFFICES ASSUME NEW d \in Calls, kind'[d] = "update", pc'[d] \in Tiers \cup {"updating"},
                    d \notin met', NEW t \in Tiers
             PROVE  Settled(d, t)'
    BY DEF OnlyGo, Settled
<1>0. "primary" \in Tiers /\ "secondary" \in Tiers
  BY DEF Tiers
<1>1. \A c \in Calls : Moves(c)
  BY CallStep
<1>2. CASE pc[d] = "idle"
  <2>1. Does(d)
    BY <1>2, Actor DEF Tiers
  <2>2. ~Populate(d)
    BY DEF Populate, Goto, TypeOK, Tiers
  <2>3. \E l \in Calls : UpdateStart(d, l)
    BY <1>2, <2>1, <2>2
    DEF Does, MissNext, PurgeNext, UpdateNext, LookupTier, LookupFails, GetMissHandler,
        MissDrop, FinishBody, FinishMeta, MetaFails, PurgeBody, PurgeMeta, PurgeSecondary,
        UpdateAsk, UpdateWrite, UpdateSecondary, Asks, Tiers, Writers, LookupStart,
        MissStart, PurgeStart, Begin, TypeOK
  <2>4. tier' = tier /\ before'[d] = Here
    BY <2>3 DEF UpdateStart, Begin, TypeOK
  <2>5. tier[t].body \in Here \cup {None}
    BY DEF Here
  <2> QED
    BY <2>4, <2>5 DEF Settled
<1>3. CASE pc[d] # "idle"
  <2>1. /\ kind[d] = "update" /\ d \notin met
        /\ before'[d] = before[d] /\ crossed \subseteq crossed'
    BY <1>1, <1>3 DEF Moves
  <2>2. pc[d] \in Tiers \cup {"updating"}
    <3>1. CASE pc'[d] = pc[d]
      BY <3>1
    <3>2. CASE pc'[d] # pc[d]
      <4>1. Does(d) /\ ~Starts(d) /\ ~Populate(d)
        BY <1>3, <3>2, Actor, StartFacts DEF Begin, Populate
      <4>2. UpdateAsk(d) \/ UpdateWrite(d) \/ UpdateSecondary(d) \/ MetaFails(d)
        BY <2>1, <4>1
        DEF Does, MissNext, PurgeNext, UpdateNext, LookupTier, LookupFails, GetMissHandler,
            MissDrop, FinishBody, FinishMeta, PurgeBody, PurgeMeta, PurgeSecondary,
            IsPurge, Asks, Starts
      <4>3. ~MetaFails(d)
        BY DEF MetaFails, Goto, TypeOK, Tiers
      <4> QED
        BY <4>2, <4>3 DEF UpdateAsk, UpdateWrite, UpdateSecondary, Asks, Tiers
    <3> QED
      BY <3>1, <3>2
  <2>3. Settled(d, t)
    BY <2>1, <2>2 DEF OnlyGo, Settled
  <2>4. d \in Live
    BY <2>2 DEF Live, EndPc, Tiers
  <2>5. \A c \in Calls, e \in Entry : Puts(c, t, e) /\ c # d =>
           ~(Has(tier'[t]) /\ (~Has(tier[t]) \/ tier'[t].body # tier[t].body))
    BY <2>1, <2>4, PutFacts DEF Puts
  <2>6. ASSUME tier'[t].body = tier[t].body PROVE Settled(d, t)'
    <3> DEFINE o == tier[t].body
    <3>1. CASE o \in before[d] \cup {None} \cup crossed
      BY <2>1, <2>6, <3>1 DEF Settled
    <3>2. CASE o \in Calls /\ pc[o] = "broken"
      BY <1>1, <2>6, <3>2 DEF Settled, Moves
    <3>3. CASE o \in Calls /\ pc[o] = "commit" /\ ~Has(tier[t])
      <4>1. t = "primary" /\ o \in Writers
        BY <1>0, <3>3 DEF Elsewhere, Tiers, Writers
      <4>2. CASE pc'[o] = "broken"
        BY <2>6, <3>3, <4>2 DEF Settled
      <4>3. CASE pc'[o] = "commit" /\ ~Has(tier'[t])
        BY <2>6, <3>3, <4>3 DEF Settled
      <4>4. CASE pc'[o] = "commit" /\ Has(tier'[t])
        <5>1. PICK c \in Calls, e \in Entry : Puts(c, t, e) /\ (d # c => d \in met')
          BY <2>1, <2>4, <3>3, <4>4, Appears
        <5>2. UpdateWrite(d)
          BY <2>1, <4>1, <5>1
          DEF Puts, FinishBody, FinishMeta, MetaFails, Goto, TypeOK, Tiers, Asks
        <5>3. d \in Writers /\ d # o
          BY <3>3, <5>2 DEF UpdateWrite, Asks, Writers
        <5> QED
          BY <2>1, <2>6, <4>1, <5>3 DEF CrossSeen, Settled
      <4>5. CASE pc'[o] \notin {"commit", "broken"}
        <5>1. FinishMeta(o)
          BY <3>3, <4>5, CommitStep
        <5>2. PICK m \in Written(o, o) : Put(o, "primary", Primary(m))
          BY <5>1 DEF FinishMeta, Primary
        <5>3. m \in Metas /\ o \in Metas
          BY <3>3, <5>2 DEF Written, Metas, Objects
        <5>4. Primary(m) \in Entry /\ Primary(m).meta = m /\ Primary(m).body = o
          BY <4>1, <5>3, PutEntries
        <5>5. Has(Primary(m))
          BY <5>3, <5>4 DEF Has
        <5>6. d # o
          BY <2>1, <3>3 DEF Unbegun
        <5> QED
          BY <1>0, <2>1, <2>4, <3>3, <4>1, <5>2, <5>4, <5>5, <5>6, PutFacts
      <4> QED
        BY <4>2, <4>3, <4>4, <4>5
    <3> QED
      BY <2>3, <3>1, <3>2, <3>3 DEF Settled
  <2>7. CASE Comes(t, tier'[t].body) /\ tier'[t].body # tier[t].body
    <3>1. tier'[t].body # None
      BY <2>7 DEF Comes, Metas, Objects
    <3>2. PICK c \in Calls, u \in Tiers, e \in Entry : Puts(c, u, e)
      BY <2>7, <3>1, Effect DEF Taken
    <3>3. u = t /\ tier'[t] = e
      BY <2>7, <3>2, PutFacts DEF Puts
    <3>4. \/ FinishBody(c) /\ t = "primary" /\ e.body = c
          \/ Populate(c) /\ t = "secondary" /\ e.body = c /\ e.meta = c
      BY <2>7, <3>2, <3>3 DEF Puts
    <3>5. c # d
      BY <2>1, <3>4 DEF FinishBody, Populate, Unbegun, Asks
    <3>6. ~Has(tier'[t])
      BY <2>5, <2>7, <3>2, <3>3, <3>5
    <3>7. c # None
      BY DEF Metas, Objects
    <3>8. FinishBody(c)
      BY <3>3, <3>4, <3>6, <3>7 DEF Has
    <3>9. pc'[c] = "commit"
      BY <3>8 DEF FinishBody, Goto, TypeOK
    <3> QED
      BY <3>3, <3>4, <3>6, <3>9 DEF Settled
  <2>8. CASE tier'[t].body = None
    BY <2>8 DEF Settled
  <2> QED
    BY <2>6, <2>7, <2>8, Bodies
<1> QED
  BY <1>2, <1>3

\* An explanation stays one, as long as its tier does and the body's own finish does
\* not end well.
LEMMA ExplainedStays ==
  ASSUME TypeOK, HitKnown, Unbegun, Elsewhere, [Next]_vars, NEW t \in Tiers,
         tier'[t] = tier[t], Explained(t), ~(t = "primary" /\ \E c \in Calls : FinishMeta(c))
  PROVE  Explained(t)'
<1>1. \A c \in Calls : Moves(c)
  BY CallStep
<1>2. \A c \in Calls : pc[c] = "broken" => pc'[c] = "broken"
  BY <1>1 DEF Moves
<1>3. \A c \in Calls : crossed \subseteq crossed'
  BY <1>1 DEF Moves
<1>4. CASE Marred(tier[t].body)
  <2>1. CASE tier[t].body \in crossed
    BY <1>3, <2>1 DEF TypeOK, Explained, Marred
  <2>2. CASE tier[t].body \in Calls /\ pc[tier[t].body] \in {"commit", "broken"}
    <3>1. pc[tier[t].body] = "broken" \/ t = "primary"
      BY <2>2 DEF Elsewhere, Tiers
    <3>2. pc'[tier[t].body] \in {"commit", "broken"}
      BY <1>2, <2>2, <3>1, CommitStep
    <3> QED
      BY <2>2, <3>2 DEF Explained, Marred
  <2> QED
    BY <1>4, <2>1, <2>2 DEF Marred
<1>5. ASSUME NEW c \in Calls, Displaced(c, tier[t].meta) PROVE Displaced(c, tier[t].meta)'
  <2>1. kind[c] = "update" /\ pc[c] # "idle"
    BY <1>5 DEF Displaced, Unbegun
  <2> QED
    BY <1>1, <1>5, <2>1 DEF Displaced, Moves
<1>6. CASE tier[t].meta = Garbled /\ (crossed # {} \/ \E c \in Calls : pc[c] = "broken")
  <2>1. crossed' # {} \/ \E c \in Calls : pc'[c] = "broken"
    BY <1>2, <1>3, <1>6 DEF TypeOK
  <2> QED
    BY <1>6, <2>1 DEF Explained
<1> QED
  BY <1>4, <1>5, <1>6 DEF Explained

\* Metadata that an update has just written next to another body.
LEMMA DisplacedStep ==
  ASSUME TypeOK, HitKnown, Unbegun, OnlyGo, [Next]_vars, NEW c \in Calls, NEW t \in Tiers,
         kind[c] = "update", pc[c] \in Tiers \cup {"updating"}, pc'[c] # pc[c],
         tier'[t].body = tier[t].body, tier[t].body # None, tier[t].body # hit[c],
         tier'[t].meta = hit[c], hit'[c] = hit[c]
  PROVE  Explained(t)'
<1>1. \A d \in Calls : Moves(d)
  BY CallStep
<1>2. /\ kind'[c] = "update" /\ before'[c] = before[c]
      /\ met \subseteq met' /\ crossed \subseteq crossed'
  BY <1>1 DEF Moves, Tiers
<1>3. CASE c \in met \/ tier[t].body \in before[c]
  BY <1>2, <1>3 DEF Displaced, Explained
<1>4. CASE tier[t].body \in crossed
  BY <1>2, <1>4 DEF Explained, Marred
<1>5. CASE tier[t].body \in Calls /\ pc[tier[t].body] \in {"commit", "broken"}
  <2>1. tier[t].body # c
    BY <1>5 DEF Tiers
  <2>2. pc'[tier[t].body] = pc[tier[t].body]
    BY <1>5, <2>1, Actor
  <2> QED
    BY <1>5, <2>2 DEF Explained, Marred
<1>6. CASE c \notin met
  BY <1>3, <1>4, <1>5, <1>6 DEF OnlyGo
<1> QED
  BY <1>3, <1>6

\* The finish that has put a body knows whether its metadata may end next to it.
LEMMA FinishMetaMixed ==
  ASSUME TypeOK, HitKnown, CrossSeen, [Next]_vars, NEW c \in Calls, FinishMeta(c),
         Has(tier'["primary"]), tier'["primary"].meta # tier'["primary"].body
  PROVE  Explained("primary")'
<1>1. PICK m \in Written(c, c) : Put(c, "primary", Primary(m))
  BY DEF FinishMeta, Primary
<1>2. m \in Metas
  BY <1>1 DEF Written, Metas, Objects
<1>3. "primary" \in Tiers
  BY DEF Tiers
<1>4. tier'["primary"].body = tier["primary"].body /\ tier'["primary"].meta = m
  BY <1>1, <1>2, <1>3, PutEntries, PutFacts
<1>5. crossed' = crossed /\ pc[c] = "commit"
  BY DEF FinishMeta, Asks
<1>6. tier["primary"].body \in {c} \cup crossed
  BY <1>4, <1>5 DEF CrossSeen, Has
<1>7. CASE tier["primary"].body \in crossed
  BY <1>4, <1>5, <1>7 DEF Explained, Marred
<1>8. CASE tier["primary"].body = c
  <2>1. Writers \ {c} # {}
    BY <1>1, <1>4, <1>8 DEF Written
  <2>2. c \in crossed
    BY <1>5, <2>1 DEF CrossSeen, Writers
  <2> QED
    BY <1>7, <1>8, <2>2
<1> QED
  BY <1>6, <1>7, <1>8

LEMMA MixedStep ==
  ASSUME TypeOK, HitKnown, Unbegun, Elsewhere, CrossSeen, OnlyGo, MixedExplained,
         [Next]_vars
  PROVE  MixedExplained'
<1> SUFFICES ASSUME NEW t \in Tiers, Has(tier'[t]), tier'[t].meta # tier'[t].body
             PROVE  Explained(t)'
    BY DEF MixedExplained, Has
<1>1. CASE t = "primary" /\ \E c \in Calls : FinishMeta(c)
  BY <1>1, FinishMetaMixed
<1>2. CASE tier'[t] = tier[t] /\ ~(t = "primary" /\ \E c \in Calls : FinishMeta(c))
  <2>1. Explained(t)
    BY <1>2 DEF MixedExplained, Has
  <2> QED
    BY <1>2, <2>1, ExplainedStays
<1>3. CASE tier'[t] # tier[t] /\ ~(t = "primary" /\ \E c \in Calls : FinishMeta(c))
  <2>1. PICK c \in Calls, u \in Tiers, e \in Entry : Puts(c, u, e)
    BY <1>3, Effect DEF Taken
  <2>2. u = t /\ tier'[t] = e /\ e.body # None
    BY <1>3, <2>1, PutFacts DEF Puts, Has
  <2>3. CASE FinishBody(c) /\ e.body = c
    <3>1. pc'[c] = "commit"
      BY <2>3 DEF FinishBody, Goto, TypeOK
    <3> QED
      BY <2>2, <2>3, <3>1 DEF Explained, Marred
  <2>4. CASE MetaFails(c) /\ e.body = tier[t].body /\ e.meta \in {tier[t].meta, Garbled}
    <3>1. pc'[c] = "broken"
      BY <2>4 DEF MetaFails, Goto, TypeOK
    <3>2. tier[t] \in Entry
      BY DEF TypeOK
    <3>3. e.meta # tier[t].meta
      BY <1>3, <2>2, <2>4, <3>2 DEF Entry
    <3> QED
      BY <2>2, <2>4, <3>1, <3>3 DEF Explained
  <2>5. CASE /\ UpdateWrite(c) \/ UpdateSecondary(c)
             /\ e.body = tier[t].body
             /\ e.meta = hit[c]
    <3>1. /\ kind[c] = "update" /\ pc[c] \in Tiers \cup {"updating"} /\ hit'[c] = hit[c]
          /\ pc'[c] # pc[c]
      BY <2>5 DEF UpdateWrite, UpdateSecondary, Asks, Goto, NextTier, Tiers, TypeOK
    <3> QED
      BY <2>2, <2>5, <3>1, DisplacedStep
  <2>6. CASE UpdateWrite(c) /\ e.meta = Garbled /\ Writers \ {c} # {}
    <3>1. c \in Writers /\ crossed' = crossed
      BY <2>6 DEF UpdateWrite, Asks, Writers
    <3>2. c \in crossed
      BY <2>6, <3>1 DEF CrossSeen
    <3> QED
      BY <2>2, <2>6, <3>1, <3>2 DEF Explained
  <2> QED
    BY <1>3, <2>1, <2>2, <2>3, <2>4, <2>5, <2>6 DEF Puts, Written
<1> QED
  BY <1>1, <1>2, <1>3

-----------------------------------------------------------------------------
(* The theorems *)

\* The inductive invariant holds in every reachable state: TieredStorage.tla, the
\* whole of src/tiered/mod.rs on top of the disk cache's commits and purges.
THEOREM Invariance == Spec => []IInv
<1>1. IInv /\ [Next]_vars => IInv'
  <2> SUFFICES ASSUME IInv, [Next]_vars PROVE IInv'
      OBVIOUS
  <2> USE DEF IInv
  <2>1. TypeOK'
    BY TypeStep
  <2>2. Unbegun' /\ HitKnown'
    BY UnbegunStep
  <2>3. StoredOnce' /\ Elsewhere'
    BY StoredOnceStep
  <2>4. Absent'
    BY AbsentStep
  <2>5. Halfway' /\ StaysGone'
    BY HalfwayStep, StaysGoneStep
  <2>6. PrimaryEmpty'
    BY PrimaryEmptyStep
  <2>7. CrossSeen' /\ OnlyGo'
    BY CrossSeenStep, OnlyGoStep
  <2>8. MixedExplained'
    BY MixedStep
  <2> QED
    BY <2>1, <2>2, <2>3, <2>4, <2>5, <2>6, <2>7, <2>8
<1> QED
  BY <1>1, InitInv, PTL DEF Spec

\* What an invalidation has removed never comes back (TieredStorage::purge,
\* src/tiered/mod.rs), whatever runs between its two purges.
THEOREM StaysGoneHolds == Spec => []StaysGone
<1>1. IInv => StaysGone
  BY DEF IInv
<1> QED
  BY <1>1, Invariance, PTL

\* A lookup that answers None, to which every tier did answer and during which no
\* entry appeared, overlooks none (TieredStorage::lookup, src/tiered/mod.rs).
THEOREM NoneIsNoneHolds == Spec => NoneIsNone
<1> DEFINE A == \A c \in Calls :
                  pc[c] # "none" /\ pc'[c] = "none" /\ c \notin met' \cup failed' =>
                    \A t \in Tiers : ~Has(tier[t])
<1>1. IInv /\ [Next]_vars => [A]_vars
  <2> SUFFICES ASSUME IInv, [Next]_vars, NEW d \in Calls, pc[d] # "none", pc'[d] = "none",
                      d \notin met', d \notin failed'
               PROVE  \A t \in Tiers : ~Has(tier[t])
      OBVIOUS
  <2> USE DEF IInv
  <2>1. Does(d)
    BY Actor
  <2>2. Moves(d)
    BY CallStep
  <2>3. ASSUME NEW t \in Tiers, LookupTier(d, t) PROVE \A u \in Tiers : ~Has(tier[u])
    <3>1. ~Has(tier[t]) /\ kind[d] = "lookup" /\ pc[d] = t /\ NextTier(t, "none") = "none"
      BY <2>3 DEF LookupTier, Asks, Goto, TypeOK
    <3>2. CASE t = "secondary"
      BY <2>2, <3>1, <3>2 DEF PrimaryEmpty, Moves, Tiers
    <3>3. CASE t = "primary"
      BY <3>1, <3>3 DEF NextTier, Absent, Has, Tiers
    <3> QED
      BY <3>2, <3>3 DEF Tiers
  <2>4. ASSUME NEW t \in Tiers, LookupFails(d, t) PROVE FALSE
    BY <2>4 DEF LookupFails, Fails, TypeOK
  <2>5. ~Starts(d)
    BY StartFacts DEF Begin, TypeOK
  <2> QED
    BY <2>1, <2>3, <2>4, <2>5
    DEF Does, MissNext, PurgeNext, UpdateNext, Starts, GetMissHandler, MissDrop, FinishBody,
        FinishMeta, MetaFails, PurgeBody, PurgeMeta, PurgeSecondary, PurgeEnd, UpdateAsk,
        UpdateWrite, UpdateSecondary, Populate, Goto, NextTier, TypeOK
<1> QED
  BY <1>1, Invariance, PTL DEF Spec, NoneIsNone

\* A tier has metadata other than its body's only for a reason listed in Explained
\* (the disk cache's finish and update_meta, which lock nothing, below
\* TieredStorage::update_meta, src/tiered/mod.rs).
THEOREM MixedExplainedHolds == Spec => []MixedExplained
<1>1. IInv => MixedExplained
  BY DEF IInv
<1> QED
  BY <1>1, Invariance, PTL

=============================================================================
