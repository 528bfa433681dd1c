--------------------------- MODULE InboxesProofs ----------------------------
(***************************************************************************)
(* Theorems about Inboxes: TypeCorrect, AcceptedAlwaysKept,                *)
(* InboxNeverMisses, and HooksAlwaysSeen for turns that are no longer than *)
(* the overlap and bursts that fit a turn.                                 *)
(***************************************************************************)
EXTENDS Inboxes, FiniteSetTheorems, TLAPS

USE IdsAssumption, GrantersAssumption, NoneAssumption, OnePageAssumption

-----------------------------------------------------------------------------
(* Keys and pages.                                                         *)

Keys == Nat \X Nat

\* Key order is a strict total order.
LEMMA KeyOrder ==
  /\ \A j, k \in Keys : j # k => KeyBefore(j, k) \/ KeyBefore(k, j)
  /\ \A j, k \in Keys : KeyBefore(j, k) => ~KeyBefore(k, j) /\ j # k
  /\ \A i, j, k \in Keys : KeyBefore(i, j) /\ KeyBefore(j, k) => KeyBefore(i, k)
  BY DEF Keys, KeyBefore

LEMMA LeastNat ==
  ASSUME NEW T \in SUBSET Nat, T # {}
  PROVE  \E n \in T : \A m \in T : n <= m
<1>1. PICK n \in T : \A m \in T : <<m, n>> \notin OpToRel(<, Nat)
  <2>1. IsWellFoundedOn(OpToRel(<, Nat), Nat)
    BY NatLessThanWellFounded
  <2>2. T \subseteq Nat
    OBVIOUS
  <2> HIDE DEF OpToRel
  <2>3. QED
    BY <2>1, <2>2, WFMin
<1>2. \A m \in T : ~(m < n)
  BY <1>1 DEF OpToRel
<1>3. QED
  BY <1>2

\* A set of keys that is not empty has a first key.
LEMMA HasFirst ==
  ASSUME NEW K \in SUBSET Keys, K # {}
  PROVE  \E k \in K : \A j \in K \ {k} : KeyBefore(k, j)
<1> DEFINE Seconds == {k[1] : k \in K}
<1>1. Seconds \in SUBSET Nat /\ Seconds # {}
  BY DEF Keys
<1>2. PICK a \in Seconds : \A b \in Seconds : a <= b
  BY <1>1, LeastNat
<1> DEFINE Ids == {k[2] : k \in {i \in K : i[1] = a}}
<1>3. Ids \in SUBSET Nat /\ Ids # {}
  BY DEF Keys
<1>4. PICK x \in Ids : \A y \in Ids : x <= y
  BY <1>3, LeastNat
<1>5. PICK k \in K : k[1] = a /\ k[2] = x
  OBVIOUS
<1>6. \A j \in K : a <= j[1] /\ (j[1] = a => x <= j[2])
  BY <1>2, <1>4
<1>7. ASSUME NEW j \in K \ {k} PROVE KeyBefore(k, j)
  <2>1. ~KeyBefore(j, k)
    BY <1>5, <1>6 DEF KeyBefore, Keys
  <2>2. QED
    BY <2>1, KeyOrder
<1>8. QED
  BY <1>7

LEMMA FirstKeyIsFirst ==
  ASSUME NEW K \in SUBSET Keys, K # {}
  PROVE  FirstKey(K) \in K /\ \A j \in K \ {FirstKey(K)} : KeyBefore(FirstKey(K), j)
  BY HasFirst DEF FirstKey

Below(k, K) == {j \in K : KeyBefore(j, k)}

\* Fewer keys of a finite set are below an earlier key.
LEMMA BelowGrows ==
  ASSUME NEW K \in SUBSET Keys, IsFiniteSet(K), NEW k \in K, NEW j \in K, KeyBefore(j, k)
  PROVE  /\ Cardinality(Below(j, K)) \in Nat /\ Cardinality(Below(k, K)) \in Nat
         /\ Cardinality(Below(j, K)) < Cardinality(Below(k, K))
<1>1. IsFiniteSet(Below(j, K)) /\ IsFiniteSet(Below(k, K))
  BY FS_Subset DEF Below
<1>2. Below(j, K) \cup {j} \in SUBSET Below(k, K)
  BY KeyOrder DEF Below
<1>3. j \notin Below(j, K)
  BY KeyOrder DEF Below
<1>4. Cardinality(Below(j, K) \cup {j}) = Cardinality(Below(j, K)) + 1
  BY <1>1, <1>3, FS_AddElement
<1>5. Cardinality(Below(j, K) \cup {j}) <= Cardinality(Below(k, K))
  BY <1>1, <1>2, FS_Subset
<1>6. Cardinality(Below(j, K)) \in Nat /\ Cardinality(Below(k, K)) \in Nat
  BY <1>1, FS_CardinalityType
<1>7. QED
  BY <1>4, <1>5, <1>6

\* A finite set of keys that is not empty has a last key: the one with the
\* most keys below it.
LEMMA HasLast ==
  ASSUME NEW K \in SUBSET Keys, IsFiniteSet(K), K # {}
  PROVE  \E k \in K : \A j \in K \ {k} : KeyBefore(j, k)
<1> DEFINE Rest(k) == Cardinality(K) - Cardinality(Below(k, K))
           Rests == {Rest(k) : k \in K}
<1>1. \A k \in K : Rest(k) \in Nat /\ Cardinality(Below(k, K)) \in Nat
  <2>1. SUFFICES ASSUME NEW k \in K PROVE Rest(k) \in Nat /\ Cardinality(Below(k, K)) \in Nat
    OBVIOUS
  <2>2. Below(k, K) \in SUBSET K
    BY DEF Below
  <2>3. Cardinality(Below(k, K)) <= Cardinality(K) /\ IsFiniteSet(Below(k, K))
    BY <2>2, FS_Subset
  <2>4. Cardinality(K) \in Nat /\ Cardinality(Below(k, K)) \in Nat
    BY <2>3, FS_CardinalityType
  <2>5. QED
    BY <2>3, <2>4
<1>2. Rests \in SUBSET Nat /\ Rests # {}
  BY <1>1
<1> HIDE DEF Rest
<1>3. PICK k \in K : \A j \in K : Rest(k) <= Rest(j)
  <2>1. PICK n \in Rests : \A m \in Rests : n <= m
    BY <1>2, LeastNat
  <2>2. QED
    BY <2>1
<1>4. Cardinality(K) \in Nat
  BY FS_CardinalityType
<1>5. ASSUME NEW j \in K \ {k} PROVE KeyBefore(j, k)
  <2>1. ~KeyBefore(k, j)
    <3>1. SUFFICES ASSUME KeyBefore(k, j) PROVE FALSE
      OBVIOUS
    <3>2. Cardinality(Below(k, K)) < Cardinality(Below(j, K))
      BY <3>1, BelowGrows
    <3>3. QED
      BY <1>1, <1>3, <1>4, <3>2 DEF Rest
  <2>2. QED
    BY <2>1, KeyOrder
<1>6. QED
  BY <1>5

LEMMA LastKeyIsLast ==
  ASSUME NEW K \in SUBSET Keys, IsFiniteSet(K), K # {}
  PROVE  LastKey(K) \in K /\ \A j \in K \ {LastKey(K)} : KeyBefore(j, LastKey(K))
  BY HasLast DEF LastKey

\* storage.list returns a prefix of its range; less than the limit is all of
\* it, and never more than the limit.
LEMMA PageIsPrefix ==
  ASSUME NEW K \in SUBSET Keys, IsFiniteSet(K), NEW limit \in Nat \ {0}
  PROVE  LET page == FirstKeys(K, limit)
         IN  /\ page \in SUBSET K /\ IsFiniteSet(page) /\ Cardinality(page) \in Nat
             /\ \A k \in page, j \in K : KeyBefore(j, k) => j \in page
             /\ Cardinality(page) <= limit
             /\ Cardinality(page) < limit => page = K
             /\ page = {} => K = {}
<1> DEFINE page == FirstKeys(K, limit)
<1>1. page \in SUBSET K /\ \A k \in K : k \in page <=> Cardinality(Below(k, K)) < limit
  BY DEF FirstKeys, Below
<1>2. IsFiniteSet(page) /\ Cardinality(page) \in Nat
  BY <1>1, FS_Subset, FS_CardinalityType
<1> HIDE DEF page
<1>3. ASSUME NEW k \in page, NEW j \in K, KeyBefore(j, k) PROVE j \in page
  BY <1>1, <1>3, BelowGrows
<1>4. Cardinality(page) <= limit
  <2>1. CASE page = {}
    BY <2>1, FS_EmptySet
  <2>2. CASE page # {}
    <3>1. PICK k \in page : \A j \in page \ {k} : KeyBefore(j, k)
      BY <1>1, <1>2, <2>2, HasLast
    <3>2. page \ {k} \in SUBSET Below(k, K)
      BY <1>1, <3>1 DEF Below
    <3>3. IsFiniteSet(Below(k, K)) /\ Cardinality(Below(k, K)) \in Nat
      BY FS_Subset, FS_CardinalityType DEF Below
    <3>4. Cardinality(page \ {k}) <= Cardinality(Below(k, K))
      BY <3>2, <3>3, FS_Subset
    <3>5. Cardinality(page \ {k}) = Cardinality(page) - 1
      BY <1>2, FS_RemoveElement
    <3>6. Cardinality(Below(k, K)) < limit
      BY <1>1
    <3>7. QED
      BY <1>2, <3>3, <3>4, <3>5, <3>6
  <2>3. QED
    BY <2>1, <2>2
<1>5. ASSUME Cardinality(page) < limit PROVE page = K
  <2>1. SUFFICES ASSUME K \ page # {} PROVE FALSE
    BY <1>1
  <2>2. K \ page \in SUBSET Keys
    OBVIOUS
  <2>3. PICK k \in K \ page : \A j \in (K \ page) \ {k} : KeyBefore(k, j)
    BY <2>1, <2>2, HasFirst
  <2>4. Below(k, K) \in SUBSET page
    BY <2>3, KeyOrder DEF Below
  <2>5. Cardinality(Below(k, K)) <= Cardinality(page)
    BY <1>2, <2>4, FS_Subset
  <2>6. Cardinality(Below(k, K)) \in Nat
    BY <1>2, <2>4, FS_Subset, FS_CardinalityType
  <2>7. QED
    BY <1>1, <1>2, <1>5, <2>3, <2>5, <2>6
<1>6. page = {} => K = {}
  BY <1>5, FS_EmptySet
<1>7. QED
  BY <1>1, <1>2, <1>3, <1>4, <1>5, <1>6 DEF page

-----------------------------------------------------------------------------
(* Types, and what is kept.                                                *)

Budget == Limit * ExamineFactor

LEMMA ConstantsType ==
  /\ Budget \in Nat \ {0} /\ Budget <= WrapPageMax /\ WrapPageMax \in Nat
  /\ HookRetention \in Nat /\ OverlapSeconds \in Nat /\ CycleSeconds \in Nat
  /\ LivePollLimit \in Nat \ {0} /\ LiveTailMaxPages \in Nat \ {0} /\ ReplayLimit \in Nat \ {0}
  /\ \A since \in Sinces : since \in Nat
<1>1. /\ Limit \in Nat \ {0} /\ ExamineFactor \in Nat \ {0} /\ WrapPageMax \in Nat
      /\ LivePollLimit \in Nat \ {0} /\ LiveTailMaxPages \in Nat \ {0} /\ ReplayLimit \in Nat \ {0}
      /\ Limit * ExamineFactor <= WrapPageMax
  OBVIOUS
<1>2. HookRetention \in Nat /\ OverlapSeconds \in Nat /\ CycleSeconds \in Nat
  OBVIOUS
<1>3. \A since \in Sinces : since \in Nat
  OBVIOUS
<1>4. QED
  BY <1>1, <1>2, <1>3 DEF Budget

TypeInv ==
    /\ TypeOK
    /\ IsFiniteSet(kept) /\ store \subseteq kept
    /\ \A k \in kept : k[1] <= now
    /\ StoredIsKept
    /\ req.pc \in {"page", "entry"} => req.examined < Budget
    /\ req.pc = "entry" => req.page # {}
    /\ req.last \in examined \cup {None}

LEMMA StoreKnown ==
  ASSUME TypeInv
  PROVE  /\ IsFiniteSet(store) /\ store \in SUBSET Keys /\ kept \in SUBSET Keys
         /\ store \in SUBSET (Nat \X (Wraps \cup Hooks))
         /\ GiftKeys(store) \in SUBSET (Nat \X Wraps)
         /\ GiftKeys(store) \in SUBSET store /\ HookKeys(store) \in SUBSET store
<1>1. store \in SUBSET (Nat \X (Wraps \cup Hooks)) /\ kept \in SUBSET (Nat \X (Wraps \cup Hooks))
  BY DEF TypeInv, TypeOK
<1>2. IsFiniteSet(store)
  BY FS_Subset DEF TypeInv
<1>3. Nat \X (Wraps \cup Hooks) \subseteq Keys
  BY DEF Keys
<1>4. QED
  BY <1>1, <1>2, <1>3 DEF GiftKeys, HookKeys

\* The prune takes only hook keys whose retention is over.
LEMMA PruneKeeps ==
  ASSUME NEW K
  PROVE  /\ Pruned(K) \in SUBSET K
         /\ \A k \in K \ Pruned(K) : k \in HookKeys(K) /\ Expired(k)
         /\ GiftKeys(Pruned(K)) = GiftKeys(K)
<1>1. /\ Pruned(K) \in SUBSET K
      /\ \A k \in K \ Pruned(K) : k \in HookKeys(K) /\ Expired(k)
  BY DEF Pruned, FirstKeys
<1>2. GiftKeys(Pruned(K)) = GiftKeys(K)
  BY <1>1 DEF GiftKeys, HookKeys
<1>3. QED
  BY <1>1, <1>2

LEMMA RangeIn ==
  ASSUME NEW K, NEW since, NEW after
  PROVE  KeyRange(K, since, after) \in SUBSET K
  BY DEF KeyRange

\* A page of hook keys.
LEMMA HookPageType ==
  ASSUME TypeInv, NEW since \in Int, NEW after \in Keys \cup {None}, NEW limit \in Nat \ {0}
  PROVE  LET range == KeyRange(HookKeys(Pruned(store)), since, after)
             page == HookPage(since, after, limit)
         IN  /\ range \in SUBSET store /\ page \in SUBSET range
             /\ IsFiniteSet(page) /\ Cardinality(page) \in Nat /\ page \in SUBSET Keys
             /\ \A k \in page, j \in range : KeyBefore(j, k) => j \in page
             /\ Cardinality(page) <= limit
             /\ Cardinality(page) < limit => page = range
<1> DEFINE range == KeyRange(HookKeys(Pruned(store)), since, after)
<1>1. range \in SUBSET HookKeys(Pruned(store))
  BY RangeIn
<1>2. HookKeys(Pruned(store)) \in SUBSET store
  BY PruneKeeps DEF HookKeys
<1>3. range \in SUBSET store /\ range \in SUBSET Keys /\ IsFiniteSet(range)
  BY <1>1, <1>2, StoreKnown, FS_Subset
<1> HIDE DEF range
<1>4. QED
  BY <1>3, PageIsPrefix DEF HookPage, range

\* Time passes, and whoever was kept is kept.
LEMMA KeptStep ==
  ASSUME TypeInv, TypeOK', UNCHANGED <<now, store, kept>>,
         \A h \in Hooks : hook'[h] = "accepted" => hook[h] = "accepted",
         (req.pc \in {"page", "entry"} => req.examined < Budget)',
         (req.pc = "entry" => req.page # {})',
         (req.last \in examined \cup {None})'
  PROVE  TypeInv'
  BY DEF TypeInv, StoredIsKept, Expired

\* The publish routes, the mail they read, and the deliveries not yet stored.
MailStep ==
    \/ \E w \in Wraps : AudiencePublish(w) \/ PublishWraps(w) \/ DeliverFails(w)
    \/ \E g \in Granters, content \in {"epoch-key", "other"} : CacheGrant(g, content)
    \/ \E g \in Granters : MemberLeaves(g)
    \/ \E h \in Hooks : HookLost(h)
    \/ \E h \in Hooks, declared \in {"absent", "fits", "exceeds"},
          actual \in {"unreadable", "fits", "exceeds"}, limited \in BOOLEAN :
          HookRequest(h, declared, actual, limited)

LEMMA MailType ==
  ASSUME TypeInv, MailStep
  PROVE  TypeInv' /\ UNCHANGED <<now, store, kept, inbox, stream, arrived, reader>>
<1>1. UNCHANGED <<now, store, kept, inbox, stream, arrived, reader>>
  BY DEF MailStep, AudiencePublish, PublishWraps, Wrap, DeliverFails, CacheGrant, MemberLeaves,
     HookLost, HookRequest
<1>2. SUFFICES /\ wrapping' \subseteq Wraps /\ grants' \in [Granters -> {None, "epoch-key", "other"}]
               /\ members' \subseteq Granters
               /\ hook' \in [Hooks -> {"none", "wrapping", "accepted", "failed"}]
               /\ \A h \in Hooks : hook'[h] = "accepted" => hook[h] = "accepted"
  <2>1. TypeOK'
    BY <1>1, <1>2 DEF TypeInv, TypeOK, inbox, stream
  <2>2. QED
    BY <1>1, <1>2, <2>1, KeptStep DEF TypeInv, inbox
<1>3. CASE \E w \in Wraps : AudiencePublish(w) \/ PublishWraps(w) \/ DeliverFails(w)
  BY <1>3 DEF TypeInv, TypeOK, AudiencePublish, PublishWraps, Wrap, DeliverFails
<1>4. CASE \E g \in Granters, content \in {"epoch-key", "other"} : CacheGrant(g, content)
  BY <1>4 DEF TypeInv, TypeOK, CacheGrant
<1>5. CASE \E g \in Granters : MemberLeaves(g)
  BY <1>5 DEF TypeInv, TypeOK, MemberLeaves
<1>6. CASE \E h \in Hooks : HookLost(h)
  BY <1>6 DEF TypeInv, TypeOK, HookLost, mail
<1>7. CASE \E h \in Hooks, declared \in {"absent", "fits", "exceeds"},
               actual \in {"unreadable", "fits", "exceeds"}, limited \in BOOLEAN :
               HookRequest(h, declared, actual, limited)
  BY <1>7 DEF TypeInv, TypeOK, HookRequest, mail
<1>8. QED
  BY <1>3, <1>4, <1>5, <1>6, <1>7 DEF MailStep

LEMMA TickType ==
  ASSUME TypeInv, Tick
  PROVE  TypeInv'
<1>1. /\ now' = now + 1 /\ now \in Nat
      /\ UNCHANGED <<store, mail, reader, inbox, hook, stream, arrived, kept>>
  BY DEF Tick, TypeInv, TypeOK
<1>2. TypeOK'
  BY <1>1 DEF TypeInv, TypeOK, mail, inbox, stream
<1>3. \A k \in kept : k[1] \in Nat
  BY StoreKnown DEF Keys
<1>4. StoredIsKept'
  <2>1. ASSUME NEW k \in kept, Expired(k) PROVE Expired(k)'
    BY <1>1, <1>3, <2>1, ConstantsType DEF Expired
  <2>2. UNCHANGED <<hook, kept, store>> /\ StoredIsKept
    BY <1>1 DEF TypeInv
  <2>3. QED
    BY <2>1, <2>2 DEF StoredIsKept
<1>5. (\A k \in kept : k[1] <= now)'
  BY <1>1, <1>3 DEF TypeInv
<1>6. QED
  BY <1>1, <1>2, <1>4, <1>5 DEF TypeInv, inbox

LEMMA StoredType ==
  ASSUME TypeInv,
         (\E w \in Wraps : DeliverWrap(w)) \/ (\E h \in Hooks : StoreHookWrap(h))
  PROVE  TypeInv'
<1>1. PICK w \in Wraps \cup Hooks :
        /\ kept' = kept \cup {<<now, w>>}
        /\ store' = store \cup {<<now, w>>} \/ store' = Pruned(store \cup {<<now, w>>})
        /\ \A h \in Hooks : hook'[h] = "accepted" => hook[h] = "accepted" \/ h = w
        /\ hook' \in [Hooks -> {"none", "wrapping", "accepted", "failed"}]
        /\ wrapping' \subseteq Wraps
        /\ arrived' = arrived \/ arrived' = arrived \cup {<<now, w>>}
        /\ UNCHANGED <<now, grants, members, reader, inbox, stream>>
  <2>1. ASSUME NEW w \in Wraps, DeliverWrap(w)
        PROVE  /\ kept' = kept \cup {<<now, w>>} /\ store' = store \cup {<<now, w>>}
               /\ hook' = hook /\ wrapping' \subseteq wrapping /\ arrived' = arrived
               /\ UNCHANGED <<now, grants, members, reader, inbox, stream>>
    BY <2>1 DEF DeliverWrap, Store
  <2>2. ASSUME NEW h \in Hooks, StoreHookWrap(h)
        PROVE  /\ kept' = kept \cup {<<now, h>>} /\ store' = Pruned(store \cup {<<now, h>>})
               /\ hook' = [hook EXCEPT ![h] = "accepted"] /\ wrapping' = wrapping
               /\ arrived' = arrived \/ arrived' = arrived \cup {<<now, h>>}
               /\ UNCHANGED <<now, grants, members, reader, inbox, stream>>
    BY <2>2 DEF StoreHookWrap, mail
  <2>3. /\ hook \in [Hooks -> {"none", "wrapping", "accepted", "failed"}]
        /\ wrapping \subseteq Wraps
    BY DEF TypeInv, TypeOK
  <2>4. CASE \E w \in Wraps : DeliverWrap(w)
    BY <2>1, <2>3, <2>4
  <2>5. CASE \E h \in Hooks : StoreHookWrap(h)
    <3>1. PICK h \in Hooks : StoreHookWrap(h)
      BY <2>5
    <3>2. /\ \A g \in Hooks : hook'[g] = "accepted" => hook[g] = "accepted" \/ g = h
          /\ hook' \in [Hooks -> {"none", "wrapping", "accepted", "failed"}]
      BY <2>2, <2>3, <3>1
    <3>3. QED
      BY <2>2, <2>3, <3>1, <3>2
  <2>6. QED
    BY <2>4, <2>5
<1> DEFINE k == <<now, w>>
<1>2. /\ k \in Nat \X (Wraps \cup Hooks) /\ k[1] = now /\ k[2] = w
      /\ now \in Nat
  BY DEF TypeInv, TypeOK
<1>3. store' \in SUBSET (store \cup {k}) /\ \A j \in (store \cup {k}) \ store' : j[2] \in Hooks /\ Expired(j)
  BY <1>1, PruneKeeps DEF HookKeys
<1> HIDE DEF k
<1>4. kept' = kept \cup {k} /\ (arrived' = arrived \/ arrived' = arrived \cup {k})
  BY <1>1 DEF k
<1>5. TypeOK'
  BY <1>1, <1>2, <1>3, <1>4 DEF TypeInv, TypeOK, inbox, stream
<1>6. IsFiniteSet(kept') /\ store' \subseteq kept'
  BY <1>3, <1>4, FS_AddElement DEF TypeInv
<1>7. \A j \in kept' : j[1] <= now'
  BY <1>1, <1>2, <1>4 DEF TypeInv
<1>8. StoredIsKept'
  BY <1>1, <1>2, <1>3, <1>4 DEF TypeInv, StoredIsKept, Expired
<1>9. QED
  BY <1>1, <1>5, <1>6, <1>7, <1>8 DEF TypeInv, inbox

LEMMA InboxType ==
  ASSUME TypeInv, InboxStep
  PROVE  TypeInv'
<1>1. UNCHANGED <<now, store, mail, reader, hook, stream, arrived, kept>>
  BY DEF InboxStep, InboxRequest, ReadPage, ExamineWrap, InboxReply
<1>2. TypeOK /\ req \in Requests /\ now \in Nat /\ Budget \in Nat \ {0}
  BY ConstantsType DEF TypeInv, TypeOK
<1>3. SUFFICES ASSUME TRUE
      PROVE  /\ client' \in [by: {"since", "cursor"}, from: Nat, since: Nat,
                   cursor: (Nat \X Wraps) \cup {None}, seen: SUBSET Wraps, done: BOOLEAN]
             /\ req' \in Requests
             /\ {owed', examined', dark'} \subseteq SUBSET (Nat \X Wraps)
             /\ (req.pc \in {"page", "entry"} => req.examined < Budget)'
             /\ (req.pc = "entry" => req.page # {})'
             /\ (req.last \in examined \cup {None})'
  <2>1. TypeOK'
    BY <1>1, <1>2, <1>3 DEF TypeOK, mail, stream
  <2>2. QED
    BY <1>1, <1>3, <2>1, KeptStep
<1>4. CASE InboxRequest
  <2>1. Nat \X Wraps \subseteq Nat \X Nat
    OBVIOUS
  <2>2. Idle \in Requests
    BY <1>2 DEF Idle, Requests, Budget
  <2>3. client.since \in Nat /\ client.cursor \in (Nat \X Nat) \cup {None}
    BY <1>2, <2>1 DEF TypeOK
  <2>4. req' \in Requests
    BY <1>4, <2>2, <2>3 DEF InboxRequest, Requests
  <2>5. req'.pc = "page" /\ req'.examined = 0 /\ req'.last = None
    BY <1>4 DEF InboxRequest, Idle
  <2>6. client' \in [by: {"since", "cursor"}, from: Nat, since: Nat,
                   cursor: (Nat \X Wraps) \cup {None}, seen: SUBSET Wraps, done: BOOLEAN]
    BY <1>2, <1>4 DEF InboxRequest, TypeOK
  <2>7. {owed', examined', dark'} \subseteq SUBSET (Nat \X Wraps)
    BY <1>2, <1>4, StoreKnown DEF InboxRequest, TypeOK
  <2>8. QED
    BY <1>2, <2>4, <2>5, <2>6, <2>7
<1>5. CASE ReadPage
  <2> DEFINE limit == MinOf(Limit * ExamineFactor - req.examined, WrapPageMax)
             page == FirstKeys(KeyRange(GiftKeys(store), req.since, req.after), limit)
  <2>1. page \in SUBSET (Nat \X Wraps)
    BY StoreKnown, RangeIn DEF FirstKeys
  <2>2. /\ req' = [req EXCEPT !.page = page, !.exhausted = Cardinality(page) < limit,
                              !.pc = IF page = {} THEN "reply" ELSE "entry"]
        /\ req.pc = "page" /\ UNCHANGED <<client, owed, examined, dark>>
    BY <1>5 DEF ReadPage
  <2> HIDE DEF page, limit
  <2>3. (Cardinality(page) < limit) \in BOOLEAN
    OBVIOUS
  <2>4. req' \in Requests /\ req'.examined = req.examined /\ req'.page = page
        /\ req'.last = req.last
        /\ req'.pc = IF page = {} THEN "reply" ELSE "entry"
    BY <1>2, <2>1, <2>2, <2>3, ZenonT(40) DEF Requests
  <2>5. QED
    BY <1>2, <2>2, <2>4 DEF TypeInv, TypeOK
<1>6. CASE ExamineWrap
  <2> DEFINE k == FirstKey(req.page)
             rest == req.page \ {k}
             items == IF Readable(k) THEN req.items \cup {k[2]} ELSE req.items
             stop == Cardinality(items) >= Limit \/ req.examined + 1 >= Limit * ExamineFactor
             more == stop /\ ~(req.exhausted /\ rest = {})
             after == IF rest = {} THEN k ELSE req.after
             pc == CASE stop \/ (rest = {} /\ req.exhausted) -> "reply"
                     [] rest = {} /\ ~req.exhausted /\ ~stop -> "page"
                     [] OTHER -> "entry"
  <2>1. req.pc = "entry" /\ req.page # {} /\ req.examined < Budget
    BY <1>6 DEF ExamineWrap, TypeInv
  <2>2. req.page \in SUBSET (Nat \X Wraps) /\ req.page \in SUBSET Keys
    BY <1>2 DEF Requests, Keys
  <2>3. k \in req.page /\ k \in Nat \X Wraps /\ k \in Nat \X Nat /\ k[2] \in Wraps
    <3>1. k \in req.page
      BY <2>1, <2>2, FirstKeyIsFirst
    <3> HIDE DEF k
    <3>2. QED
      BY <2>2, <3>1 DEF Keys
  <2>4. /\ req' = [req EXCEPT !.page = rest, !.examined = @ + 1, !.last = k, !.items = items,
                     !.more = more, !.after = after, !.pc = pc]
        /\ examined' = examined \cup {k}
        /\ dark' = (IF Readable(k) THEN dark ELSE dark \cup {k})
        /\ UNCHANGED <<client, owed>>
    BY <1>6 DEF ExamineWrap
  <2>5. /\ pc \in {"reply", "page", "entry"}
        /\ pc # "reply" => ~stop
        /\ pc = "entry" => rest # {}
        /\ more \in BOOLEAN
    OBVIOUS
  <2>6. req.examined \in 0..Budget /\ (~stop => req.examined + 1 < Budget)
        /\ req.examined + 1 \in 0..Budget
    BY <1>2, <2>1 DEF Requests, Budget
  <2>7. items \in SUBSET Wraps /\ rest \in SUBSET (Nat \X Wraps)
        /\ after \in (Nat \X Nat) \cup {None}
    BY <1>2, <2>2, <2>3 DEF Requests
  <2> HIDE DEF k, rest, items, stop, more, after, pc
  <2>8. req' \in Requests /\ req'.pc = pc /\ req'.examined = req.examined + 1 /\ req'.page = rest
        /\ req'.last = k
    BY <1>2, <2>3, <2>4, <2>5, <2>6, <2>7, ZenonT(40) DEF Requests, Budget
  <2>9. {examined', dark'} \subseteq SUBSET (Nat \X Wraps)
    BY <1>2, <2>3, <2>4 DEF TypeOK
  <2>10. QED
    BY <1>2, <2>4, <2>5, <2>6, <2>8, <2>9 DEF TypeOK
<1>7. CASE InboxReply
  <2>1. req' = Idle /\ UNCHANGED <<owed, examined, dark>>
    BY <1>7 DEF InboxReply
  <2>2. Idle \in Requests /\ Idle.pc = "idle" /\ Idle.last = None
    BY <1>2 DEF Idle, Requests, Budget
  <2>3. client'.by = client.by
    BY <1>2, <1>7 DEF InboxReply, TypeOK
  <2>4. client' \in [by: {"since", "cursor"}, from: Nat, since: Nat,
                   cursor: (Nat \X Wraps) \cup {None}, seen: SUBSET Wraps, done: BOOLEAN]
    <3>1. req.last \in (Nat \X Wraps) \cup {None} /\ req.items \subseteq Wraps
          /\ (~req.more) \in BOOLEAN
      BY <1>2 DEF TypeInv, TypeOK, Requests
    <3>2. req.last # None => req.last[1] \in Nat
      BY <3>1
    <3>3. QED
      BY <1>2, <1>7, <3>1, <3>2, ZenonT(40) DEF InboxReply, TypeOK
  <2>5. QED
    BY <1>2, <2>1, <2>2, <2>4 DEF TypeOK
<1>8. QED
  BY <1>4, <1>5, <1>6, <1>7 DEF InboxStep

LEMMA PumpKnown ==
  ASSUME TypeInv
  PROVE  /\ pump \in Pumps /\ pump.cursor \in Int /\ pump.since \in Int /\ pump.start \in Nat
         /\ pump.after \in Keys \cup {None} /\ pump.pages \in 0..(LiveTailMaxPages - 1)
         /\ now \in Nat
<1>1. pump \in Pumps /\ now \in Nat
  BY DEF TypeInv, TypeOK
<1>2. QED
  BY <1>1 DEF Pumps, Keys

\* The stream's steps prune, and read.
PruneStep == store' \in {store, Pruned(store)} /\ UNCHANGED <<now, mail, reader, inbox, hook, kept>>

LEMMA StreamStepType ==
  ASSUME TypeInv, PruneStep, pump' \in Pumps,
         {arrived', due', sent'} \subseteq SUBSET (Nat \X (Wraps \cup Hooks))
  PROVE  TypeInv'
<1>1. store' \in SUBSET store /\ \A k \in store \ store' : k[2] \in Hooks /\ Expired(k)
  BY PruneKeeps DEF PruneStep, HookKeys
<1>2. TypeOK'
  BY <1>1 DEF PruneStep, TypeInv, TypeOK, mail, inbox
<1>3. QED
  BY <1>1, <1>2 DEF PruneStep, TypeInv, StoredIsKept, Expired, inbox

LEMMA TailPageType ==
  ASSUME TypeInv, TailPage
  PROVE  LET page == HookPage(pump.cursor, pump.after, LivePollLimit)
             next == Cardinality(page) = LivePollLimit /\ pump.pages + 1 < LiveTailMaxPages
         IN  /\ pump' \in Pumps /\ pump'.cursor = pump.cursor /\ pump'.start = pump.start
             /\ pump'.pages = (IF next THEN pump.pages + 1 ELSE 0)
             /\ pump'.pc = (IF next THEN "tail" ELSE "bump")
             /\ pump'.after = (IF next THEN LastKey(page) ELSE None)
             /\ next => /\ LastKey(page) \in page
                        /\ \A j \in page \ {LastKey(page)} : KeyBefore(j, LastKey(page))
<1> DEFINE page == HookPage(pump.cursor, pump.after, LivePollLimit)
           next == Cardinality(page) = LivePollLimit /\ pump.pages + 1 < LiveTailMaxPages
           after == IF next THEN LastKey(page) ELSE None
           pages == IF next THEN pump.pages + 1 ELSE 0
           pc == IF next THEN "tail" ELSE "bump"
<1>1. /\ pump \in Pumps /\ pump.cursor \in Int /\ pump.after \in Keys \cup {None}
      /\ pump.pages \in 0..(LiveTailMaxPages - 1)
  BY PumpKnown
<1>2. /\ IsFiniteSet(page) /\ page \in SUBSET Keys /\ Cardinality(page) \in Nat
      /\ LivePollLimit \in Nat \ {0} /\ LiveTailMaxPages \in Nat \ {0}
  BY <1>1, ConstantsType, HookPageType
<1>3. pump' = [pump EXCEPT !.pages = pages, !.pc = pc, !.after = after]
  BY DEF TailPage
<1> HIDE DEF page
<1>4. next => /\ LastKey(page) \in page
              /\ \A j \in page \ {LastKey(page)} : KeyBefore(j, LastKey(page))
  <2>1. next => page # {}
    BY <1>2, FS_EmptySet
  <2>2. QED
    BY <1>2, <2>1, LastKeyIsLast
<1>5. after \in (Nat \X Nat) \cup {None}
  BY <1>2, <1>4 DEF Keys
<1>6. pages \in 0..(LiveTailMaxPages - 1) /\ pc \in {"tail", "bump"}
  BY <1>1, <1>2
<1> HIDE DEF next, after, pages, pc
<1>7. /\ pump' \in Pumps /\ pump'.cursor = pump.cursor /\ pump'.start = pump.start
      /\ pump'.pages = pages /\ pump'.pc = pc /\ pump'.after = after
  BY <1>1, <1>3, <1>5, <1>6 DEF Pumps
<1>8. QED
  BY <1>4, <1>7 DEF page, next, after, pages, pc

LEMMA StreamType ==
  ASSUME TypeInv,
         \/ \E since \in Sinces \cup {None} : StreamConnect(since)
         \/ StreamStep
  PROVE  TypeInv'
<1>1. /\ pump \in Pumps /\ pump.cursor \in Int /\ pump.since \in Int
      /\ pump.after \in Keys \cup {None} /\ now \in Nat
      /\ {arrived, due, sent} \subseteq SUBSET (Nat \X (Wraps \cup Hooks))
      /\ store \in SUBSET (Nat \X (Wraps \cup Hooks))
  BY PumpKnown, StoreKnown DEF TypeInv, TypeOK
<1>2. SUFFICES /\ PruneStep /\ pump' \in Pumps
               /\ {arrived', due', sent'} \subseteq SUBSET (Nat \X (Wraps \cup Hooks))
  BY StreamStepType
<1>3. Off \in Pumps
  BY ConstantsType DEF Off, Pumps
<1>4. ASSUME NEW since \in Sinces \cup {None}, StreamConnect(since)
      PROVE  /\ PruneStep /\ pump' \in Pumps
             /\ {arrived', due', sent'} \subseteq SUBSET (Nat \X (Wraps \cup Hooks))
  <2>1. pump' \in Pumps
    BY <1>1, <1>3, <1>4, ConstantsType DEF StreamConnect, Pumps
  <2>2. arrived' \in SUBSET store
    BY <1>4, RangeIn, StoreKnown DEF StreamConnect, FirstKeys
  <2>3. QED
    BY <1>1, <1>4, <2>1, <2>2 DEF StreamConnect, PruneStep
<1>5. CASE Replay
  <2>1. HookPage(pump.since, None, ReplayLimit) \in SUBSET store
    BY <1>1, HookPageType, ConstantsType
  <2>2. QED
    BY <1>1, <1>5, <2>1 DEF Replay, PruneStep, Pumps
<1>6. ASSUME NEW cursor \in Int, NewTurn(cursor)
      PROVE  /\ pump' \in Pumps
             /\ {arrived', due'} \subseteq SUBSET (Nat \X (Wraps \cup Hooks))
  <2>1. 0 \in 0..(LiveTailMaxPages - 1)
    BY ConstantsType
  <2>2. /\ pump' = [pump EXCEPT !.pc = "tail", !.cursor = cursor, !.after = None, !.pages = 0,
                                !.start = now]
        /\ due' = due \cup arrived /\ arrived' = {}
    BY <1>6 DEF NewTurn
  <2>3. pump' \in Pumps
    BY <1>1, <2>1, <2>2 DEF Pumps
  <2>4. QED
    BY <1>1, <2>2, <2>3
<1>7. CASE Hello
  <2>1. now - OverlapSeconds \in Int
    BY <1>1, ConstantsType
  <2>2. QED
    BY <1>1, <1>6, <1>7, <2>1 DEF Hello, PruneStep
<1>8. CASE TailPage
  <2>1. HookPage(pump.cursor, pump.after, LivePollLimit) \in SUBSET store
    BY <1>1, HookPageType, ConstantsType
  <2>2. pump' \in Pumps
    BY <1>8, TailPageType
  <2>3. QED
    BY <1>1, <1>8, <2>1, <2>2 DEF TailPage, PruneStep
<1>9. CASE BumpCursor
  <2>1. now - OverlapSeconds \in Int
    BY <1>1, ConstantsType
  <2>2. pump' \in Pumps
    BY <1>1, <1>9, <2>1 DEF BumpCursor, Pumps
  <2>3. QED
    BY <1>1, <1>9, <2>2 DEF BumpCursor, PruneStep
<1>10. CASE Wake
  BY <1>1, <1>6, <1>10 DEF Wake, PruneStep
<1>11. CASE Close
  BY <1>1, <1>3, <1>11 DEF Close, PruneStep
<1>12. QED
  BY <1>4, <1>5, <1>7, <1>8, <1>9, <1>10, <1>11 DEF StreamStep

LEMMA InitType ==
  ASSUME Init
  PROVE  TypeInv
<1>1. Idle \in Requests /\ Off \in Pumps /\ Idle.pc = "idle" /\ Idle.last = None
  BY ConstantsType DEF Idle, Requests, Off, Pumps, Budget
<1>2. client \in [by: {"since", "cursor"}, from: Nat, since: Nat,
                  cursor: (Nat \X Wraps) \cup {None}, seen: SUBSET Wraps, done: BOOLEAN]
  <2>1. PICK by \in {"since", "cursor"}, from \in Sinces :
          client = [by |-> by, from |-> from, since |-> from, cursor |-> None,
                    seen |-> {}, done |-> FALSE]
    BY DEF Init
  <2>2. QED
    BY <2>1, ConstantsType
<1>3. /\ grants \in [Granters -> {None, "epoch-key", "other"}]
      /\ hook \in [Hooks -> {"none", "wrapping", "accepted", "failed"}]
      /\ \A h \in Hooks : hook[h] # "accepted"
  BY DEF Init
<1>4. TypeOK
  BY <1>1, <1>2, <1>3 DEF Init, TypeOK
<1>5. IsFiniteSet(kept)
  BY FS_EmptySet DEF Init
<1>6. QED
  BY <1>1, <1>3, <1>4, <1>5 DEF Init, TypeInv, StoredIsKept

StoredStep == (\E w \in Wraps : DeliverWrap(w)) \/ (\E h \in Hooks : StoreHookWrap(h))
ConnectStep == \E since \in Sinces \cup {None} : StreamConnect(since)

LEMMA NextCases ==
  ASSUME [Next]_vars
  PROVE  Tick \/ MailStep \/ StoredStep \/ InboxStep \/ ConnectStep \/ StreamStep \/ UNCHANGED vars
  BY DEF Next, MailStep, StoredStep, ConnectStep

LEMMA NextType ==
  ASSUME TypeInv, [Next]_vars
  PROVE  TypeInv'
<1>1. CASE Tick
  BY <1>1, TickType
<1>2. CASE MailStep
  BY <1>2, MailType
<1>3. CASE StoredStep
  BY <1>3, StoredType DEF StoredStep
<1>4. CASE InboxStep
  BY <1>4, InboxType
<1>5. CASE ConnectStep \/ StreamStep
  BY <1>5, StreamType DEF ConnectStep
<1>6. CASE UNCHANGED vars
  <2>1. TypeOK'
    BY <1>6 DEF TypeInv, TypeOK, vars, mail, inbox, stream
  <2>2. QED
    BY <1>6, <2>1 DEF TypeInv, StoredIsKept, Expired, vars, inbox
<1>7. QED
  BY <1>1, <1>2, <1>3, <1>4, <1>5, <1>6, NextCases

LEMMA TypeInvAlways == Spec => []TypeInv
<1>1. Init => TypeInv
  BY InitType
<1>2. TypeInv /\ [Next]_vars => TypeInv'
  BY NextType
<1>3. QED
  BY <1>1, <1>2, PTL DEF Spec

\* Both readers' locals keep their types: a page that is read on has a last
\* key to be read on from, and one that is examined has a first.
THEOREM TypeCorrect == Spec => []TypeOK
<1>1. TypeInv => TypeOK
  BY DEF TypeInv
<1>2. QED
  BY <1>1, TypeInvAlways, PTL

\* Whatever arrives, is read and is pruned in between, a delivery answered 202
\* was stored, and only hook wraps whose retention is over are ever missing.
THEOREM AcceptedAlwaysKept == Spec => []StoredIsKept
<1>1. TypeInv => StoredIsKept
  BY DEF TypeInv
<1>2. QED
  BY <1>1, TypeInvAlways, PTL

-----------------------------------------------------------------------------
(* The paged inbox.  A request reads one page; what it examines, and where *)
(* its client goes on, leaves nothing behind.                              *)

\* What the client is told it has had: examined, or stored after a wrap of
\* the same second and larger id that its cursor has passed.
Covered(k) == k \in examined \/ (client.by = "cursor" /\ Overtaken(k))

\* The client will not ask for k again.
Behind(k) == IF client.cursor # None THEN ~KeyBefore(client.cursor, k) ELSE k[1] < client.since

Asked(k) == k \in GiftKeys(store) /\ k[1] >= client.from

PositionOK ==
    /\ client.cursor # None => client.by = "cursor" /\ client.cursor \in examined
    /\ client.since = client.from \/ (client.by = "since" /\ client.since <= now)
    /\ \A k \in GiftKeys(store) : Asked(k) /\ Behind(k) => Covered(k)

\* The walk of a page: what is neither behind nor examined nor on the page is
\* of the page's last second or later, and what is owed is on a last page.
WalkOK ==
    /\ req.page \subseteq GiftKeys(store)
    /\ req.last # None => \A j \in req.page : KeyBefore(req.last, j)
    /\ \A k \in GiftKeys(store) :
          Asked(k) => \/ Behind(k) \/ k \in examined \/ k \in req.page
                      \/ /\ \A j \in req.page : j[1] <= k[1]
                         /\ req.last # None => req.last[1] <= k[1]
    /\ req.exhausted => \A k \in owed : Behind(k) \/ k \in req.page \/ k \in examined

AtStart == /\ req.since = client.since /\ req.after = client.cursor
           /\ req.examined = 0 /\ req.items = {} /\ req.last = None /\ ~req.more

InboxInv ==
    /\ TypeInv
    /\ PositionOK
    /\ examined \subseteq GiftKeys(store)
    /\ \A k \in examined : k[2] \in client.seen \cup req.items \/ k \in dark
    /\ \A k \in owed : Asked(k)
    /\ req.pc = "idle" => req.items = {}
    /\ req.pc = "page" => AtStart
    /\ req.pc \in {"entry", "reply"} => WalkOK
    /\ req.pc = "entry" /\ ~req.exhausted => Cardinality(req.page) + req.examined = Budget
    /\ req.pc = "reply" /\ ~req.more => \A k \in owed : Covered(k)
    /\ req.pc = "idle" /\ client.done => \A k \in owed : Covered(k)

LEMMA InboxKnown ==
  ASSUME InboxInv
  PROVE  /\ TypeInv /\ req \in Requests /\ now \in Nat /\ client.from \in Nat /\ client.since \in Nat
         /\ client.by \in {"since", "cursor"}
         /\ client.cursor \in Keys \cup {None}
         /\ GiftKeys(store) \in SUBSET Keys /\ IsFiniteSet(GiftKeys(store))
         /\ \A k \in GiftKeys(store) : k \in Keys /\ k[1] <= now
         /\ examined \in SUBSET Keys /\ req.page \in SUBSET Keys
         /\ req.last \in examined \cup {None}
         /\ req.exhausted \in BOOLEAN /\ req.more \in BOOLEAN /\ client.done \in BOOLEAN
<1>1. TypeInv /\ TypeOK
  BY DEF InboxInv, TypeInv
<1>2. GiftKeys(store) \in SUBSET Keys /\ IsFiniteSet(GiftKeys(store)) /\ GiftKeys(store) \in SUBSET store
  BY <1>1, StoreKnown, FS_Subset
<1>3. \A k \in GiftKeys(store) : k \in Keys /\ k[1] <= now
  BY <1>1, <1>2 DEF TypeInv
<1>4. examined \in SUBSET Keys
  BY <1>2 DEF InboxInv
<1>5. /\ req \in Requests /\ now \in Nat /\ client.from \in Nat /\ client.since \in Nat
      /\ client.by \in {"since", "cursor"}
      /\ client.cursor \in Keys \cup {None} /\ client.done \in BOOLEAN
  BY <1>1 DEF TypeOK, Keys
<1>6. req.page \in SUBSET Keys /\ req.exhausted \in BOOLEAN /\ req.more \in BOOLEAN
  BY <1>5 DEF Requests, Keys
<1>7. req.last \in examined \cup {None}
  BY <1>1 DEF TypeInv
<1>8. QED
  BY <1>1, <1>2, <1>3, <1>4, <1>5, <1>6, <1>7

\* A step that neither reads nor stores a gift wrap.
LEMMA InboxKept ==
  ASSUME InboxInv, TypeInv', UNCHANGED inbox, GiftKeys(store)' = GiftKeys(store), now' >= now
  PROVE  InboxInv'
<1>1. now \in Nat /\ now' \in Nat /\ client.since \in Nat
  BY InboxKnown DEF TypeInv, TypeOK
<1>2. UNCHANGED <<client, req, owed, examined, dark>>
  BY DEF inbox
<1>3. PositionOK'
  BY <1>1, <1>2 DEF InboxInv, PositionOK, Asked, Behind, Covered, Overtaken
<1>4. WalkOK' <=> WalkOK
  BY <1>2 DEF WalkOK, Asked, Behind
<1>5. (\A k \in owed : Covered(k))' <=> \A k \in owed : Covered(k)
  BY <1>2 DEF Covered, Overtaken
<1>6. (\A k \in owed : Asked(k))'
  BY <1>2 DEF InboxInv, Asked
<1>7. AtStart' <=> AtStart
  BY <1>2 DEF AtStart
<1>8. QED
  BY <1>2, <1>3, <1>4, <1>5, <1>6, <1>7 DEF InboxInv

\* A wrap stored now is neither behind the client nor before what the request
\* has read, unless it shares a second with it.
LEMMA DeliverInbox ==
  ASSUME InboxInv, TypeInv', NEW w \in Wraps, DeliverWrap(w)
  PROVE  InboxInv'
<1> DEFINE new == <<now, w>>
<1>1. /\ new \in Keys /\ new[1] = now /\ new[2] = w /\ now \in Nat
  BY InboxKnown DEF Keys
<1>2. /\ UNCHANGED <<now, client, req, owed, examined, dark>>
      /\ store' = store \cup {new}
  BY DEF DeliverWrap, Store, inbox
<1>3. GiftKeys(store)' = GiftKeys(store) \cup {new}
  BY <1>2 DEF GiftKeys
<1> HIDE DEF new
<1>4. ASSUME new[1] >= client.from, Behind(new) PROVE Covered(new)
  <2>1. CASE client.cursor = None
    <3>1. now < client.since
      BY <1>1, <1>4, <2>1 DEF Behind
    <3>2. now >= client.from
      BY <1>1, <1>4
    <3>3. client.since = client.from \/ client.since <= now
      BY DEF InboxInv, PositionOK
    <3>4. QED
      BY <1>1, <3>1, <3>2, <3>3, InboxKnown
  <2>2. CASE client.cursor # None
    <3>1. /\ client.by = "cursor" /\ client.cursor \in examined /\ client.cursor \in Keys
          /\ client.cursor[1] <= now
      BY <2>2, InboxKnown DEF InboxInv, PositionOK
    <3>2. ~KeyBefore(client.cursor, new)
      BY <1>4, <2>2 DEF Behind
    <3>3. client.cursor = new \/ (client.cursor[1] = new[1] /\ new[2] < client.cursor[2])
      BY <1>1, <3>1, <3>2 DEF KeyBefore, Keys
    <3>4. QED
      BY <3>1, <3>3 DEF Covered, Overtaken
  <2>3. QED
    BY <2>1, <2>2
<1>5. PositionOK'
  <2>1. ASSUME NEW k \in GiftKeys(store)', Asked(k)', Behind(k) PROVE Covered(k)
    <3>1. CASE k = new
      <4>1. k[1] >= client.from
        BY <1>2, <2>1 DEF Asked
      <4>2. QED
        BY <1>4, <2>1, <3>1, <4>1
    <3>2. CASE k \in GiftKeys(store)
      BY <1>2, <2>1, <3>2 DEF Asked, InboxInv, PositionOK
    <3>3. QED
      BY <1>3, <2>1, <3>1, <3>2
  <2>2. \A k : (Behind(k)' <=> Behind(k)) /\ (Covered(k)' <=> Covered(k))
    BY <1>2 DEF Behind, Covered, Overtaken
  <2>3. \A k \in GiftKeys(store)' : Asked(k)' /\ Behind(k)' => Covered(k)'
    BY <2>1, <2>2
  <2>4. /\ client.cursor # None => client.by = "cursor" /\ client.cursor \in examined
        /\ client.since = client.from \/ (client.by = "since" /\ client.since <= now)
    BY DEF InboxInv, PositionOK
  <2>5. QED
    BY <1>2, <2>3, <2>4 DEF PositionOK
<1>6. WalkOK => WalkOK'
  <2>1. SUFFICES ASSUME WalkOK PROVE WalkOK'
    OBVIOUS
  <2>2. (\A j \in req.page : j[1] <= new[1]) /\ (req.last # None => req.last[1] <= new[1])
    BY <1>1, <2>1, InboxKnown DEF WalkOK, InboxInv
  <2>3. QED
    BY <1>2, <1>3, <2>1, <2>2 DEF WalkOK, Asked, Behind
<1>7. (\A k \in owed : Covered(k))' <=> \A k \in owed : Covered(k)
  BY <1>2 DEF Covered, Overtaken
<1>8. (\A k \in owed : Asked(k))'
  BY <1>2, <1>3 DEF InboxInv, Asked
<1>9. AtStart' <=> AtStart
  BY <1>2 DEF AtStart
<1>10. (examined \subseteq GiftKeys(store))'
  BY <1>2, <1>3 DEF InboxInv
<1>11. QED
  BY <1>2, <1>5, <1>6, <1>7, <1>8, <1>9, <1>10 DEF InboxInv

LEMMA InboxRequestInbox ==
  ASSUME InboxInv, TypeInv', InboxRequest
  PROVE  InboxInv'
<1>1. /\ UNCHANGED <<now, store, examined, dark>> /\ req.pc = "idle" /\ req.items = {}
      /\ owed' = {k \in GiftKeys(store) : k[1] >= client.from}
  BY DEF InboxRequest, InboxInv
<1>2. /\ req'.pc = "page" /\ req'.since = client.since /\ req'.after = client.cursor
      /\ req'.examined = 0 /\ req'.items = {} /\ req'.last = None /\ req'.more = FALSE
  BY DEF InboxRequest, Idle
<1>3. /\ client'.by = client.by /\ client'.from = client.from /\ client'.since = client.since
      /\ client'.cursor = client.cursor /\ client'.seen = client.seen
  BY InboxKnown DEF InboxRequest, TypeInv, TypeOK
<1>4. PositionOK'
  BY <1>1, <1>3 DEF InboxInv, PositionOK, Asked, Behind, Covered, Overtaken
<1>5. AtStart'
  BY <1>2, <1>3 DEF AtStart
<1>6. (\A k \in owed : Asked(k))'
  BY <1>1, <1>3 DEF Asked
<1>7. QED
  BY <1>1, <1>2, <1>3, <1>4, <1>5, <1>6 DEF InboxInv

LEMMA ReadPageInbox ==
  ASSUME InboxInv, TypeInv', ReadPage
  PROVE  InboxInv'
<1> DEFINE limit == MinOf(Limit * ExamineFactor - req.examined, WrapPageMax)
           range == KeyRange(GiftKeys(store), req.since, req.after)
           page == FirstKeys(range, limit)
<1>1. /\ req' = [req EXCEPT !.page = page, !.exhausted = Cardinality(page) < limit,
                            !.pc = IF page = {} THEN "reply" ELSE "entry"]
      /\ UNCHANGED <<now, store, client, owed, examined, dark>>
      /\ req.pc = "page" /\ AtStart
  BY DEF ReadPage, InboxInv
<1>2. limit = Budget /\ Budget \in Nat \ {0}
  BY <1>1, ConstantsType DEF AtStart, MinOf, Budget
<1>3. range \in SUBSET GiftKeys(store) /\ range \in SUBSET Keys /\ IsFiniteSet(range)
  BY RangeIn, InboxKnown, FS_Subset
<1>4. \A k \in GiftKeys(store) : k \in range <=> ~Behind(k)
  BY <1>1, InboxKnown DEF KeyRange, Behind, AtStart, Keys
<1> HIDE DEF range
<1>5. /\ page \in SUBSET range /\ IsFiniteSet(page) /\ Cardinality(page) \in Nat
      /\ \A k \in page, j \in range : KeyBefore(j, k) => j \in page
      /\ Cardinality(page) <= limit
      /\ Cardinality(page) < limit => page = range
      /\ page = {} => Cardinality(page) < limit
  BY <1>2, <1>3, PageIsPrefix, FS_EmptySet
<1> HIDE DEF page
<1>6. /\ req'.page = page /\ req'.exhausted = (Cardinality(page) < limit)
      /\ req'.pc = (IF page = {} THEN "reply" ELSE "entry")
      /\ req'.last = None /\ req'.items = {} /\ req'.more = req.more /\ req'.examined = 0
  BY <1>1, InboxKnown DEF Requests, AtStart
<1>7. WalkOK'
  <2>1. ASSUME NEW k \in GiftKeys(store), k \notin page, ~Behind(k), NEW j \in page
        PROVE  j[1] <= k[1]
    <3>1. k \in range /\ j \in Keys /\ k \in Keys /\ ~KeyBefore(k, j)
      BY <1>3, <1>4, <1>5, <2>1
    <3>2. QED
      BY <3>1 DEF KeyBefore, Keys
  <2>2. req'.exhausted => \A k \in owed : Behind(k) \/ k \in page
    BY <1>4, <1>5, <1>6 DEF InboxInv, Asked
  <2>3. page \subseteq GiftKeys(store)
    BY <1>3, <1>5
  <2>4. QED
    BY <1>1, <1>6, <2>1, <2>2, <2>3 DEF WalkOK, Asked, Behind
<1>8. PositionOK'
  BY <1>1 DEF InboxInv, PositionOK, Asked, Behind, Covered, Overtaken
<1>9. page = {} => (\A k \in owed : Covered(k))'
  <2>1. SUFFICES ASSUME page = {} PROVE \A k \in owed : Covered(k)
    BY <1>1 DEF Covered, Overtaken
  <2>2. \A k \in owed : Behind(k)
    BY <1>4, <1>5, <2>1 DEF InboxInv, Asked
  <2>3. QED
    BY <2>2 DEF InboxInv, PositionOK, Asked
<1>10. (\A k \in owed : Asked(k))' /\ (examined \subseteq GiftKeys(store))'
  BY <1>1 DEF InboxInv, Asked
<1>11. (\A k \in examined : k[2] \in client.seen \cup req.items \/ k \in dark)'
  BY <1>1, <1>6 DEF InboxInv, AtStart
<1>12. (req.pc = "entry" /\ ~req.exhausted => Cardinality(req.page) + req.examined = Budget)'
  <2>1. ~(Cardinality(page) < limit) => Cardinality(page) = Budget
    BY <1>2, <1>5
  <2>2. Cardinality(req'.page) = Cardinality(page)
    BY <1>6
  <2>3. Budget' = Budget
    BY DEF Budget
  <2>4. ~req'.exhausted => Cardinality(req'.page) + req'.examined = Budget
    <3>1. ~req'.exhausted => ~(Cardinality(page) < limit)
      BY <1>6
    <3>2. Budget + 0 = Budget /\ req'.examined = 0
      BY <1>2, <1>6
    <3>3. QED
      BY <2>1, <2>2, <3>1, <3>2
  <2>5. QED
    BY <2>3, <2>4
<1>13. QED
  BY <1>6, <1>7, <1>8, <1>9, <1>10, <1>11, <1>12 DEF InboxInv

LEMMA ExamineWrapInbox ==
  ASSUME InboxInv, TypeInv', ExamineWrap
  PROVE  InboxInv'
<1> DEFINE k == FirstKey(req.page)
           rest == req.page \ {k}
           items == IF Readable(k) THEN req.items \cup {k[2]} ELSE req.items
           stop == Cardinality(items) >= Limit \/ req.examined + 1 >= Limit * ExamineFactor
           more == stop /\ ~(req.exhausted /\ rest = {})
           after == IF rest = {} THEN k ELSE req.after
           pc == CASE stop \/ (rest = {} /\ req.exhausted) -> "reply"
                   [] rest = {} /\ ~req.exhausted /\ ~stop -> "page"
                   [] OTHER -> "entry"
<1>1. /\ req' = [req EXCEPT !.page = rest, !.examined = @ + 1, !.last = k, !.items = items,
                            !.more = more, !.after = after, !.pc = pc]
      /\ examined' = examined \cup {k}
      /\ dark' = (IF Readable(k) THEN dark ELSE dark \cup {k})
      /\ UNCHANGED <<now, store, client, owed>>
      /\ req.pc = "entry" /\ req.page # {} /\ WalkOK
  BY DEF ExamineWrap, InboxInv, TypeInv
<1>2. /\ req.page \in SUBSET Keys /\ req.page \subseteq GiftKeys(store) /\ IsFiniteSet(req.page)
      /\ req \in Requests
  BY <1>1, InboxKnown, FS_Subset DEF WalkOK
<1>3. k \in req.page /\ \A j \in rest : KeyBefore(k, j)
  BY <1>1, <1>2, FirstKeyIsFirst
<1>4. /\ Cardinality(rest) \in Nat /\ Cardinality(req.page) = Cardinality(rest) + 1
      /\ rest = {} => Cardinality(rest) = 0
  <2>1. Cardinality(req.page) \in Nat /\ Cardinality(rest) = Cardinality(req.page) - 1
    BY <1>2, <1>3, FS_RemoveElement, FS_CardinalityType
  <2>2. IsFiniteSet(rest)
    BY <1>2, FS_RemoveElement
  <2>3. Cardinality(rest) \in Nat /\ (rest = {} => Cardinality(rest) = 0)
    BY <2>2, FS_CardinalityType, FS_EmptySet
  <2>4. QED
    BY <2>1, <2>3
<1>5. k # None
  BY <1>2, <1>3 DEF Keys
<1>6. /\ pc = "entry" => rest # {} /\ ~stop
      /\ pc = "page" => rest = {} /\ ~req.exhausted /\ ~stop
      /\ pc = "reply" /\ ~more => rest = {} /\ req.exhausted
      /\ pc \in {"reply", "page", "entry"}
  OBVIOUS
<1>7. /\ ~stop => req.examined + 1 < Budget
      /\ req.examined \in Nat
  BY <1>2, ConstantsType DEF Requests, Budget
<1>8. k[2] \in items \/ ~Readable(k)
  OBVIOUS
<1>9. req.items \in SUBSET items
  OBVIOUS
<1>10. rest \in SUBSET req.page /\ req.page = rest \cup {k}
  BY <1>3
<1> HIDE DEF k, rest, items, stop, more, after, pc
<1>11. /\ req'.page = rest /\ req'.examined = req.examined + 1 /\ req'.last = k
       /\ req'.items = items /\ req'.more = more /\ req'.pc = pc /\ req'.exhausted = req.exhausted
  BY <1>1, <1>2 DEF Requests
<1>12. ~req.exhausted => Cardinality(rest) + (req.examined + 1) = Budget
  <2>1. ~req.exhausted => Cardinality(req.page) + req.examined = Budget
    BY <1>1 DEF InboxInv
  <2>2. QED
    BY <1>4, <1>7, <2>1
<1>13. pc # "page"
  BY <1>4, <1>6, <1>7, <1>12, ConstantsType
<1>14. ASSUME NEW x, Covered(x) PROVE Covered(x)'
  BY <1>1, <1>14 DEF Covered, Overtaken
<1>15. PositionOK'
  <2>1. ASSUME NEW x \in GiftKeys(store), Asked(x), Behind(x) PROVE Covered(x)'
    BY <2>1, <1>14 DEF InboxInv, PositionOK
  <2>2. QED
    BY <1>1, <2>1 DEF InboxInv, PositionOK, Asked, Behind
<1>16. WalkOK'
  <2>1. ASSUME NEW x \in GiftKeys(store), Asked(x)
        PROVE  \/ Behind(x) \/ x \in examined' \/ x \in rest
               \/ (\A j \in rest : j[1] <= x[1]) /\ k[1] <= x[1]
    <3>1. \/ Behind(x) \/ x \in examined \/ x \in req.page
          \/ \A j \in req.page : j[1] <= x[1]
      BY <1>1, <2>1 DEF WalkOK
    <3>2. QED
      BY <1>1, <1>3, <1>10, <3>1
  <2>2. req.exhausted => \A x \in owed : Behind(x) \/ x \in rest \/ x \in examined'
    BY <1>1, <1>10 DEF WalkOK
  <2>3. rest \subseteq GiftKeys(store)
    BY <1>2, <1>10
  <2>4. QED
    BY <1>1, <1>3, <1>11, <2>1, <2>2, <2>3 DEF WalkOK, Asked, Behind
<1>17. (req.pc = "entry" /\ ~req.exhausted => Cardinality(req.page) + req.examined = Budget)'
  <2>1. Budget' = Budget
    BY DEF Budget
  <2>2. Cardinality(req'.page) = Cardinality(rest)
    BY <1>11
  <2>3. QED
    BY <1>11, <1>12, <2>1, <2>2
<1>18. pc = "reply" /\ ~more => (\A x \in owed : Covered(x))'
  <2>1. SUFFICES ASSUME rest = {}, req.exhausted, NEW x \in owed PROVE Covered(x)'
    BY <1>1, <1>6
  <2>2. Behind(x) \/ x \in req.page \/ x \in examined
    BY <1>1, <2>1 DEF WalkOK
  <2>3. CASE Behind(x)
    BY <1>14, <2>1, <2>3 DEF InboxInv, PositionOK, Asked
  <2>4. CASE x \in req.page \/ x \in examined
    BY <1>1, <1>10, <2>1, <2>4 DEF Covered
  <2>5. QED
    BY <2>2, <2>3, <2>4
<1>19. (\A x \in owed : Asked(x))'
  BY <1>1 DEF InboxInv, Asked
<1>20. (examined \subseteq GiftKeys(store))'
  BY <1>1, <1>2, <1>3 DEF InboxInv
<1>21. (\A x \in examined : x[2] \in client.seen \cup req.items \/ x \in dark)'
  <2>1. ASSUME NEW x \in examined' PROVE x[2] \in client.seen \cup items \/ x \in dark'
    <3>1. CASE x \in examined
      BY <1>1, <1>9, <3>1 DEF InboxInv
    <3>2. CASE x = k
      BY <1>1, <1>8, <3>2
    <3>3. QED
      BY <1>1, <2>1, <3>1, <3>2
  <2>2. QED
    BY <1>1, <1>11, <2>1
<1>22. QED
  BY <1>6, <1>11, <1>13, <1>15, <1>16, <1>17, <1>18, <1>19, <1>20, <1>21 DEF InboxInv

\* The client goes on from the last key examined: what is asked for, and now
\* behind it, was behind it before, or examined, or overtaken in its second.
LEMMA InboxReplyInbox ==
  ASSUME InboxInv, TypeInv', InboxReply
  PROVE  InboxInv'
<1>1. /\ req.pc = "reply" /\ req' = Idle /\ WalkOK /\ PositionOK
      /\ UNCHANGED <<now, store, owed, examined, dark>>
  BY DEF InboxReply, InboxInv
<1>2. /\ client'.by = client.by /\ client'.from = client.from
      /\ client'.seen = client.seen \cup req.items
      /\ client'.done = ~req.more
      /\ client'.since = (IF client.by = "since" /\ req.last # None THEN req.last[1] ELSE client.since)
      /\ client'.cursor = (IF client.by = "cursor" /\ req.last # None THEN req.last ELSE client.cursor)
  BY InboxKnown DEF InboxReply, TypeInv, TypeOK
<1>3. /\ req'.pc = "idle" /\ req'.items = {}
  BY <1>1 DEF Idle
<1>4. \A x : Covered(x)' <=> Covered(x)
  BY <1>1, <1>2 DEF Covered, Overtaken
<1>5. \A x : Asked(x)' <=> Asked(x)
  BY <1>1, <1>2 DEF Asked
<1>6. ASSUME NEW x \in GiftKeys(store), Asked(x), Behind(x)' PROVE Covered(x)
  <2>1. CASE Behind(x)
    BY <1>1, <1>6, <2>1 DEF PositionOK
  <2>2. CASE x \in examined
    BY <2>2 DEF Covered
  <2>3. CASE ~Behind(x) /\ x \notin examined
    <3>1. req.last # None /\ req.last \in examined /\ req.last \in Keys /\ x \in Keys
      BY <1>2, <1>6, <2>3, InboxKnown DEF Behind
    <3>2. req.last[1] <= x[1]
      <4>1. x \in req.page => KeyBefore(req.last, x)
        BY <1>1, <3>1 DEF WalkOK
      <4>2. x \in req.page \/ req.last[1] <= x[1]
        BY <1>1, <1>6, <2>3, <3>1 DEF WalkOK
      <4>3. QED
        BY <3>1, <4>1, <4>2 DEF KeyBefore, Keys
    <3>3. CASE client.by = "since"
      <4>1. client.cursor = None /\ client'.cursor = None /\ client'.since = req.last[1]
        BY <1>1, <1>2, <3>1, <3>3 DEF PositionOK
      <4>2. x[1] < req.last[1]
        BY <1>6, <4>1 DEF Behind
      <4>3. QED
        BY <3>1, <3>2, <4>2 DEF Keys
    <3>4. CASE client.by = "cursor"
      <4>1. client'.cursor = req.last
        BY <1>2, <3>1, <3>4
      <4>2. ~KeyBefore(req.last, x)
        BY <1>6, <3>1, <4>1 DEF Behind
      <4>3. x # req.last
        BY <2>3, <3>1
      <4>4. req.last[1] = x[1] /\ x[2] < req.last[2]
        <5>1. KeyBefore(x, req.last)
          BY <3>1, <4>2, <4>3, KeyOrder
        <5>2. QED
          BY <3>1, <3>2, <5>1 DEF KeyBefore, Keys
      <4>5. QED
        BY <3>1, <3>4, <4>4 DEF Covered, Overtaken
    <3>5. QED
      BY <3>3, <3>4, InboxKnown
  <2>4. QED
    BY <2>1, <2>2, <2>3
<1>7. /\ client'.cursor # None => client'.by = "cursor" /\ client'.cursor \in examined'
      /\ client'.since = client'.from \/ (client'.by = "since" /\ client'.since <= now')
  <2>1. req.last # None => req.last \in examined /\ req.last[1] <= now
    BY InboxKnown DEF InboxInv
  <2>2. QED
    BY <1>1, <1>2, <2>1 DEF PositionOK
<1>8. PositionOK'
  BY <1>1, <1>4, <1>5, <1>6, <1>7 DEF PositionOK
<1>9. (\A x \in owed : Asked(x))'
  BY <1>1, <1>5 DEF InboxInv
<1>10. client'.done => (\A x \in owed : Covered(x))'
  BY <1>1, <1>2, <1>4, InboxKnown DEF InboxInv
<1>11. (examined \subseteq GiftKeys(store))'
  BY <1>1 DEF InboxInv
<1>12. (\A x \in examined : x[2] \in client.seen \cup req.items \/ x \in dark)'
  BY <1>1, <1>2 DEF InboxInv
<1>13. QED
  BY <1>3, <1>8, <1>9, <1>10, <1>11, <1>12 DEF InboxInv

LEMMA InitInbox ==
  ASSUME Init
  PROVE  InboxInv
<1>1. req.pc = "idle" /\ req.items = {}
  BY DEF Init, Idle
<1>2. GiftKeys(store) = {} /\ examined = {} /\ owed = {}
  BY DEF Init, GiftKeys
<1>3. client.cursor = None /\ client.since = client.from
  BY DEF Init
<1>4. PositionOK
  BY <1>2, <1>3 DEF PositionOK
<1>5. QED
  BY <1>1, <1>2, <1>4, InitType DEF InboxInv

LEMMA NextInbox ==
  ASSUME InboxInv, [Next]_vars
  PROVE  InboxInv'
<1>1. TypeInv /\ TypeInv' /\ now \in Nat
  BY NextType, InboxKnown
<1>2. CASE Tick
  <2>1. UNCHANGED <<inbox, store>> /\ now' = now + 1
    BY <1>2 DEF Tick
  <2>2. QED
    BY <1>1, <2>1, InboxKept DEF GiftKeys
<1>3. CASE MailStep
  BY <1>1, <1>3, MailType, InboxKept DEF GiftKeys
<1>4. CASE StoredStep
  <2>1. CASE \E w \in Wraps : DeliverWrap(w)
    BY <1>1, <2>1, DeliverInbox
  <2>2. CASE \E h \in Hooks : StoreHookWrap(h)
    <3>1. PICK h \in Hooks : StoreHookWrap(h)
      BY <2>2
    <3>2. /\ UNCHANGED <<inbox, now>> /\ store' = Pruned(store \cup {<<now, h>>})
      BY <3>1 DEF StoreHookWrap
    <3>3. GiftKeys(store \cup {<<now, h>>}) = GiftKeys(store)
      BY DEF GiftKeys
    <3>4. GiftKeys(store)' = GiftKeys(store')
      BY DEF GiftKeys
    <3>5. QED
      BY <1>1, <3>2, <3>3, <3>4, PruneKeeps, InboxKept
  <2>3. QED
    BY <1>4, <2>1, <2>2 DEF StoredStep
<1>5. CASE InboxStep
  BY <1>1, <1>5, InboxRequestInbox, ReadPageInbox, ExamineWrapInbox, InboxReplyInbox DEF InboxStep
<1>6. CASE ConnectStep \/ StreamStep
  <2>1. store' \in {store, Pruned(store)} /\ UNCHANGED <<inbox, now>>
    BY <1>6 DEF ConnectStep, StreamStep, StreamConnect, Replay, Hello, TailPage, BumpCursor, Wake,
       Close, inbox
  <2>2. GiftKeys(store)' = GiftKeys(store)
    <3>1. GiftKeys(store)' = GiftKeys(store')
      BY DEF GiftKeys
    <3>2. QED
      BY <2>1, <3>1, PruneKeeps
  <2>3. QED
    BY <1>1, <2>1, <2>2, InboxKept
<1>7. CASE UNCHANGED vars
  <2>1. UNCHANGED <<inbox, store, now>>
    BY <1>7 DEF vars
  <2>2. QED
    BY <1>1, <2>1, InboxKept DEF GiftKeys
<1>8. QED
  BY <1>2, <1>3, <1>4, <1>5, <1>6, <1>7, NextCases

\* A client that is told has_more = false has received every gift wrap stored
\* when it asked, however many requests it took, whatever arrived between them
\* and whether it pages by next_since or next_cursor - but for those that
\* could not be read when they were examined, and for a client that follows
\* the cursor those stored after a wrap of the same second and larger id.
THEOREM InboxNeverMisses == Spec => []InboxMissesNothing
<1>1. Init => InboxInv
  BY InitInbox
<1>2. InboxInv /\ [Next]_vars => InboxInv'
  BY NextInbox
<1>3. InboxInv => InboxMissesNothing
  BY DEF InboxInv, InboxMissesNothing, Covered
<1>4. QED
  BY <1>1, <1>2, <1>3, PTL DEF Spec

-----------------------------------------------------------------------------
(* The inbox stream.  A turn owes what had arrived when it began: some of  *)
(* it is sent, the rest lies ahead of the page it is about to read.        *)

\* A turn, or the replay, is over within the overlap the cursor leaves.
TurnsWithinOverlap == CycleSeconds <= OverlapSeconds

\* What a turn has to read fits its pages: no burst within the overlap is
\* larger than LIVE_TAIL_MAX_PAGES pages.
BurstFits ==
    pump.pc = "tail" =>
        Cardinality({k \in HookKeys(kept) : k[1] >= pump.cursor}) <= LivePollLimit * LiveTailMaxPages

Settled(k) == k \in sent \/ Expired(k)

\* The replay will send k: it is on the page that is about to be read.
OnReplayPage(k) ==
    /\ k \in store /\ k[1] >= pump.since
    /\ Cardinality(Below(k, KeyRange(HookKeys(store), pump.since, None))) < ReplayLimit

\* The turn has not come to k.
Ahead(k) == k[1] >= pump.cursor /\ (pump.after = None \/ KeyBefore(pump.after, k))

\* What the pages of a turn have passed, sent or expired.
PassedKeys == {k \in HookKeys(kept) : k[1] >= pump.cursor /\ ~KeyBefore(pump.after, k)}

ClockOK ==
    /\ pump.pc # "off" => pump.start <= now
    /\ pump.pc \notin {"off", "sleep"} => now <= pump.start + CycleSeconds

ArrivedOK ==
    /\ pump.pc = "replay" => \A k \in arrived : k[1] >= pump.start \/ Expired(k) \/ OnReplayPage(k)
    /\ pump.pc = "hello" => \A k \in arrived : k[1] >= pump.start \/ Settled(k)
    /\ pump.pc \in {"tail", "bump", "sleep"} => \A k \in arrived : k[1] >= pump.start

DueOK ==
    /\ pump.pc \in {"off", "replay", "hello"} => due = {}
    /\ pump.pc = "tail" => \A k \in due : Settled(k) \/ Ahead(k)
    /\ pump.pc \in {"bump", "sleep"} => \A k \in due : Settled(k)

PagesOK ==
    pump.pc = "tail" =>
        IF pump.after = None THEN pump.pages = 0
        ELSE /\ pump.after[1] >= pump.cursor
             /\ Cardinality(PassedKeys) >= pump.pages * LivePollLimit

StreamInv ==
    /\ TypeInv
    /\ pump.pc = "off" => arrived = {}
    /\ arrived \cup due \subseteq HookKeys(kept)
    /\ ClockOK
    /\ ArrivedOK
    /\ DueOK
    /\ PagesOK
    /\ pump.pc = "sleep" => pump.cursor <= pump.start

LEMMA StreamKnown ==
  ASSUME StreamInv
  PROVE  /\ TypeInv /\ pump \in Pumps /\ pump.cursor \in Int /\ pump.since \in Int /\ pump.start \in Nat
         /\ pump.after \in Keys \cup {None} /\ pump.pages \in 0..(LiveTailMaxPages - 1)
         /\ now \in Nat /\ pump.pc \in {"off", "replay", "hello", "tail", "bump", "sleep"}
         /\ HookKeys(kept) \in SUBSET Keys /\ IsFiniteSet(HookKeys(kept))
         /\ IsFiniteSet(PassedKeys) /\ Cardinality(PassedKeys) \in Nat
         /\ \A k \in HookKeys(kept) : k \in Keys /\ k[1] <= now /\ (k \in store \/ Expired(k))
<1>1. TypeInv /\ pump \in Pumps
  BY PumpKnown DEF StreamInv
<1>2. HookKeys(kept) \in SUBSET kept /\ IsFiniteSet(HookKeys(kept)) /\ HookKeys(kept) \in SUBSET Keys
  BY <1>1, StoreKnown, FS_Subset DEF HookKeys, TypeInv
<1>3. IsFiniteSet(PassedKeys) /\ Cardinality(PassedKeys) \in Nat
  BY <1>2, FS_Subset, FS_CardinalityType DEF PassedKeys
<1>4. \A k \in kept : k[1] <= now /\ (k \in store \/ Expired(k))
  BY <1>1 DEF TypeInv, StoredIsKept
<1>5. pump.pc \in {"off", "replay", "hello", "tail", "bump", "sleep"}
  BY <1>1 DEF Pumps
<1>6. QED
  BY <1>1, <1>2, <1>3, <1>4, <1>5, PumpKnown

LEMMA ExpiredGrows ==
  ASSUME now \in Nat, now' \in Nat, now' >= now, NEW k \in Keys, Expired(k)
  PROVE  Expired(k)'
  BY ConstantsType DEF Expired, Keys

\* A key stays on the replay's page when nothing is stored before it.
LEMMA ReplayPageStays ==
  ASSUME TypeInv, TypeInv', pump' = pump, NEW k \in Keys, OnReplayPage(k), k \in store',
         \A j \in HookKeys(store') : KeyBefore(j, k) => j \in HookKeys(store)
  PROVE  OnReplayPage(k)'
<1> DEFINE old == Below(k, KeyRange(HookKeys(store), pump.since, None))
           new == Below(k, KeyRange(HookKeys(store'), pump.since, None))
<1>1. new \in SUBSET old
  BY DEF Below, KeyRange
<1>2. IsFiniteSet(old)
  BY StoreKnown, RangeIn, FS_Subset DEF Below
<1>3. Cardinality(new) <= Cardinality(old) /\ Cardinality(new) \in Nat /\ Cardinality(old) \in Nat
  BY <1>1, <1>2, FS_Subset, FS_CardinalityType
<1>4. Cardinality(old) < ReplayLimit /\ k[1] >= pump.since
  BY DEF OnReplayPage
<1> HIDE DEF old, new
<1>5. Cardinality(new) < ReplayLimit
  BY <1>3, <1>4, ConstantsType
<1>6. QED
  BY <1>4, <1>5 DEF OnReplayPage, new, Below, KeyRange, HookKeys

\* A step that neither stores a hook wrap, nor moves the stream.
LEMMA StreamKept ==
  ASSUME StreamInv, TypeInv', UNCHANGED <<stream, arrived>>, now' >= now,
         HookKeys(kept)' = HookKeys(kept), HookKeys(store)' = HookKeys(store), store \subseteq store',
         pump.pc \notin {"off", "sleep"} => now' <= pump.start + CycleSeconds
  PROVE  StreamInv'
<1>1. /\ now \in Nat /\ now' \in Nat /\ UNCHANGED <<pump, due, sent, arrived>> /\ TypeInv
      /\ pump.start \in Nat
  BY StreamKnown DEF TypeInv, TypeOK, stream
<1>2. ASSUME NEW k \in arrived \cup due
      PROVE  k \in Keys /\ (Settled(k) => Settled(k)') /\ (Expired(k) => Expired(k)')
  <2>1. k \in Keys
    BY StreamKnown DEF StreamInv
  <2>2. QED
    BY <1>1, <2>1, ExpiredGrows DEF Settled
<1>3. ASSUME NEW k \in arrived, OnReplayPage(k) PROVE OnReplayPage(k)'
  <2>1. k \in Keys /\ k \in store'
    BY <1>2, <1>3 DEF OnReplayPage
  <2>2. HookKeys(store') = HookKeys(store)
    BY DEF HookKeys
  <2>3. QED
    BY <1>1, <1>3, <2>1, <2>2, ReplayPageStays
<1>4. PassedKeys' = PassedKeys
  BY <1>1 DEF PassedKeys
<1>5. ArrivedOK'
  BY <1>1, <1>2, <1>3 DEF StreamInv, ArrivedOK
<1>6. DueOK'
  BY <1>1, <1>2 DEF StreamInv, DueOK, Ahead
<1>7. ClockOK'
  BY <1>1 DEF StreamInv, ClockOK
<1>8. PagesOK'
  BY <1>1, <1>4 DEF StreamInv, PagesOK
<1>9. (arrived \cup due \subseteq HookKeys(kept))'
  BY <1>1 DEF StreamInv
<1>10. QED
  BY <1>1, <1>5, <1>6, <1>7, <1>8, <1>9 DEF StreamInv

\* A delivery stored while the stream is open has arrived in this turn: it is
\* not before what the replay owes, and shrinks nothing that was passed.
LEMMA StoreHookStream ==
  ASSUME StreamInv, TypeInv', NEW h \in Hooks, StoreHookWrap(h)
  PROVE  StreamInv'
<1> DEFINE new == <<now, h>>
<1>1. new \in Keys /\ new[1] = now /\ new[2] = h /\ now \in Nat
  BY StreamKnown DEF Keys
<1>2. /\ store' = Pruned(store \cup {new}) /\ kept' = kept \cup {new}
      /\ arrived' = (IF pump.pc = "off" THEN arrived ELSE arrived \cup {new})
      /\ UNCHANGED <<now, pump, due, sent>>
  BY DEF StoreHookWrap, stream
<1>3. /\ store' \in SUBSET (store \cup {new})
      /\ \A k \in (store \cup {new}) \ store' : Expired(k)
  BY <1>2, PruneKeeps
<1> HIDE DEF new
<1>4. HookKeys(kept)' = HookKeys(kept) \cup {new}
  BY <1>1, <1>2 DEF HookKeys
<1>5. \A k : (Expired(k)' <=> Expired(k)) /\ (Settled(k)' <=> Settled(k))
  BY <1>2 DEF Expired, Settled
<1>6. arrived \cup due \subseteq HookKeys(kept) /\ \A k \in arrived \cup due : k \in Keys
  BY StreamKnown DEF StreamInv
<1>7. pump.pc # "off" => new[1] >= pump.start
  BY <1>1, StreamKnown DEF StreamInv, ClockOK
<1>8. ASSUME pump.pc = "replay", NEW k \in arrived
      PROVE  k[1] >= pump.start \/ Expired(k) \/ OnReplayPage(k)'
  <2>1. SUFFICES ASSUME k[1] < pump.start, ~Expired(k) PROVE OnReplayPage(k)'
    BY <1>6, StreamKnown DEF Keys
  <2>2. OnReplayPage(k) /\ k \in Keys
    BY <1>6, <1>8, <2>1, StreamKnown DEF StreamInv, ArrivedOK, Keys
  <2>3. k \in store'
    BY <1>3, <2>1, <2>2 DEF OnReplayPage
  <2>4. ~KeyBefore(new, k)
    BY <1>1, <1>7, <1>8, <2>1, <2>2, StreamKnown DEF KeyBefore, Keys
  <2>5. \A j \in HookKeys(store') : KeyBefore(j, k) => j \in HookKeys(store)
    BY <1>3, <2>4 DEF HookKeys
  <2>6. QED
    BY <1>2, <2>2, <2>3, <2>5, ReplayPageStays, StreamKnown
<1>9. ArrivedOK'
  BY <1>2, <1>5, <1>7, <1>8 DEF StreamInv, ArrivedOK
<1>10. DueOK'
  BY <1>2, <1>5 DEF StreamInv, DueOK, Ahead
<1>11. PagesOK'
  <2>1. PassedKeys \in SUBSET PassedKeys' /\ IsFiniteSet(PassedKeys')
    <3>1. IsFiniteSet(HookKeys(kept)')
      BY <1>4, StreamKnown, FS_AddElement
    <3>2. PassedKeys' \in SUBSET HookKeys(kept)'
      BY DEF PassedKeys
    <3>3. PassedKeys \in SUBSET PassedKeys'
      BY <1>2, <1>4 DEF PassedKeys
    <3>4. QED
      BY <3>1, <3>2, <3>3, FS_Subset
  <2>2. Cardinality(PassedKeys) <= Cardinality(PassedKeys') /\ Cardinality(PassedKeys') \in Nat
    BY <2>1, FS_Subset, FS_CardinalityType
  <2>3. pump.pages * LivePollLimit \in Nat
    BY StreamKnown, ConstantsType
  <2>4. (Cardinality(PassedKeys) >= pump.pages * LivePollLimit) =>
           Cardinality(PassedKeys') >= pump.pages * LivePollLimit
    BY <2>2, <2>3, StreamKnown
  <2>5. Cardinality(PassedKeys)' = Cardinality(PassedKeys')
    OBVIOUS
  <2>6. QED
    BY <1>2, <2>4, <2>5 DEF StreamInv, PagesOK
<1>12. (arrived \cup due \subseteq HookKeys(kept))'
  BY <1>2, <1>4, <1>6
<1>13. ClockOK'
  BY <1>2 DEF StreamInv, ClockOK
<1>14. QED
  BY <1>2, <1>9, <1>10, <1>11, <1>12, <1>13 DEF StreamInv

LEMMA ConnectStream ==
  ASSUME StreamInv, TypeInv', NEW since \in Sinces \cup {None}, StreamConnect(since)
  PROVE  StreamInv'
<1>1. /\ pump'.pc = (IF since = None THEN "hello" ELSE "replay")
      /\ pump'.since = (IF since = None THEN 0 ELSE since) /\ pump'.start = now
      /\ arrived' = (IF since = None THEN {}
                     ELSE FirstKeys(KeyRange(HookKeys(store), since, None), ReplayLimit))
      /\ due' = {} /\ sent' = {} /\ UNCHANGED <<now, store, kept>>
  BY DEF StreamConnect, Off
<1>2. now \in Nat
  BY StreamKnown
<1>3. ASSUME since # None, NEW k \in arrived' PROVE k \in HookKeys(kept) /\ OnReplayPage(k)'
  <2>1. k \in FirstKeys(KeyRange(HookKeys(store), since, None), ReplayLimit) /\ pump'.since = since
    BY <1>1, <1>3
  <2>2. k \in HookKeys(store) /\ k[1] >= since
    BY <2>1 DEF FirstKeys, KeyRange
  <2>3. Cardinality(Below(k, KeyRange(HookKeys(store), since, None))) < ReplayLimit
    BY <2>1 DEF FirstKeys, Below
  <2>4. k \in store /\ k \in HookKeys(kept)
    BY <2>2 DEF HookKeys, StreamInv, TypeInv
  <2>5. QED
    BY <1>1, <2>1, <2>2, <2>3, <2>4 DEF OnReplayPage, Below, KeyRange, HookKeys
<1>4. ArrivedOK' /\ (arrived \cup due \subseteq HookKeys(kept))'
  <2>1. (arrived \cup due \subseteq HookKeys(kept))'
    BY <1>1, <1>3 DEF HookKeys
  <2>2. QED
    BY <1>1, <1>3, <2>1 DEF ArrivedOK
<1>5. ClockOK'
  BY <1>1, <1>2, ConstantsType DEF ClockOK
<1>6. DueOK' /\ PagesOK'
  BY <1>1 DEF DueOK, PagesOK
<1>7. QED
  BY <1>1, <1>4, <1>5, <1>6 DEF StreamInv

\* What the prune leaves of the page the replay owes is on the page it sends.
LEMMA ReplayStream ==
  ASSUME StreamInv, TypeInv', Replay
  PROVE  StreamInv'
<1> DEFINE page == HookPage(pump.since, None, ReplayLimit)
<1>1. /\ pump.pc = "replay" /\ store' = Pruned(store) /\ sent' = sent \cup page
      /\ UNCHANGED <<now, arrived, due, kept>>
  BY DEF Replay
<1>2. /\ pump'.pc = "hello" /\ pump'.start = pump.start
  BY StreamKnown DEF Replay, Pumps
<1>3. ASSUME NEW k \in arrived, OnReplayPage(k), ~Expired(k) PROVE k \in page
  <2> DEFINE old == Below(k, KeyRange(HookKeys(store), pump.since, None))
             range == KeyRange(HookKeys(Pruned(store)), pump.since, None)
             new == Below(k, range)
  <2>1. k \in Pruned(store)
    BY <1>3, PruneKeeps DEF OnReplayPage
  <2>2. k \in HookKeys(Pruned(store)) /\ k[1] >= pump.since
    BY <1>3, <2>1 DEF StreamInv, HookKeys, OnReplayPage
  <2>3. k \in range
    BY <2>2 DEF KeyRange
  <2>4. new \in SUBSET old
    BY PruneKeeps DEF Below, KeyRange, HookKeys
  <2>5. IsFiniteSet(old)
    BY StreamKnown, StoreKnown, RangeIn, FS_Subset DEF Below
  <2>6. Cardinality(new) <= Cardinality(old) /\ Cardinality(new) \in Nat /\ Cardinality(old) \in Nat
    BY <2>4, <2>5, FS_Subset, FS_CardinalityType
  <2>7. Cardinality(old) < ReplayLimit
    BY <1>3 DEF OnReplayPage
  <2>8. Cardinality(new) < ReplayLimit
    <3> HIDE DEF old, new
    <3>1. QED
      BY <2>6, <2>7, ConstantsType
  <2>9. QED
    BY <2>3, <2>8 DEF HookPage, FirstKeys, Below
<1>4. \A k : Expired(k)' <=> Expired(k)
  BY <1>1 DEF Expired
<1> HIDE DEF page
<1>5. ArrivedOK'
  <2>1. ASSUME NEW k \in arrived PROVE k[1] >= pump.start \/ Settled(k)'
    BY <1>1, <1>3, <1>4, <2>1 DEF StreamInv, ArrivedOK, Settled
  <2>2. QED
    BY <1>1, <1>2, <2>1 DEF ArrivedOK
<1>6. ClockOK'
  BY <1>1, <1>2 DEF StreamInv, ClockOK
<1>7. DueOK' /\ PagesOK'
  BY <1>1, <1>2 DEF StreamInv, DueOK, PagesOK
<1>8. (arrived \cup due \subseteq HookKeys(kept))'
  BY <1>1 DEF StreamInv, HookKeys
<1>9. QED
  BY <1>1, <1>2, <1>5, <1>6, <1>7, <1>8 DEF StreamInv

\* A turn begins: what has arrived since the last one did is within its range.
LEMMA TurnStream ==
  ASSUME StreamInv, TypeInv', NEW cursor \in Int, NewTurn(cursor),
         UNCHANGED <<now, store, kept, sent>>,
         \A k \in arrived : Settled(k) \/ k[1] >= cursor,
         \A k \in due : Settled(k)
  PROVE  StreamInv'
<1>1. /\ pump'.pc = "tail" /\ pump'.cursor = cursor /\ pump'.after = None /\ pump'.pages = 0
      /\ pump'.start = now /\ due' = due \cup arrived /\ arrived' = {}
  BY StreamKnown DEF NewTurn, Pumps
<1>2. now \in Nat
  BY StreamKnown
<1>3. \A k : Settled(k)' <=> Settled(k)
  BY DEF Settled, Expired
<1>4. DueOK'
  BY <1>1, <1>3 DEF DueOK, Ahead
<1>5. ClockOK'
  BY <1>1, <1>2, ConstantsType DEF ClockOK
<1>6. ArrivedOK' /\ PagesOK'
  BY <1>1 DEF ArrivedOK, PagesOK
<1>7. (arrived \cup due \subseteq HookKeys(kept))'
  BY <1>1 DEF StreamInv, HookKeys
<1>8. QED
  BY <1>1, <1>4, <1>5, <1>6, <1>7 DEF StreamInv

LEMMA HelloStream ==
  ASSUME TurnsWithinOverlap, StreamInv, TypeInv', Hello
  PROVE  StreamInv'
<1>1. NewTurn(now - OverlapSeconds) /\ UNCHANGED <<now, store, kept, sent>> /\ pump.pc = "hello"
  BY DEF Hello
<1>2. now \in Nat /\ pump.start \in Nat /\ now <= pump.start + CycleSeconds
  BY <1>1, StreamKnown DEF StreamInv, ClockOK
<1>3. now - OverlapSeconds \in Int /\ now - OverlapSeconds <= pump.start
  BY <1>2, ConstantsType DEF TurnsWithinOverlap
<1>4. ASSUME NEW k \in arrived PROVE Settled(k) \/ k[1] >= now - OverlapSeconds
  <2>1. k[1] >= pump.start \/ Settled(k)
    BY <1>1 DEF StreamInv, ArrivedOK
  <2>2. k[1] \in Nat
    BY StreamKnown DEF StreamInv, Keys
  <2>3. QED
    BY <1>2, <1>3, <2>1, <2>2
<1>5. \A k \in due : Settled(k)
  BY <1>1 DEF StreamInv, DueOK
<1>6. QED
  BY <1>1, <1>3, <1>4, <1>5, TurnStream

LEMMA WakeStream ==
  ASSUME StreamInv, TypeInv', Wake
  PROVE  StreamInv'
<1>1. NewTurn(pump.cursor) /\ UNCHANGED <<now, store, kept, sent>> /\ pump.pc = "sleep"
  BY DEF Wake
<1>2. pump.cursor \in Int /\ pump.start \in Nat /\ pump.cursor <= pump.start
  BY <1>1, StreamKnown DEF StreamInv
<1>3. ASSUME NEW k \in arrived PROVE k[1] >= pump.cursor
  <2>1. k[1] >= pump.start
    BY <1>1 DEF StreamInv, ArrivedOK
  <2>2. k[1] \in Nat
    BY StreamKnown DEF StreamInv, Keys
  <2>3. QED
    BY <1>2, <2>1, <2>2
<1>4. \A k \in due : Settled(k)
  BY <1>1 DEF StreamInv, DueOK
<1>5. QED
  BY <1>1, <1>2, <1>3, <1>4, TurnStream

LEMMA BumpStream ==
  ASSUME TurnsWithinOverlap, StreamInv, TypeInv', BumpCursor
  PROVE  StreamInv'
<1>1. /\ pump.pc = "bump" /\ UNCHANGED <<now, store, kept, arrived, due, sent>>
  BY DEF BumpCursor
<1>2. /\ pump'.pc = "sleep" /\ pump'.cursor = now - OverlapSeconds /\ pump'.start = pump.start
  BY StreamKnown DEF BumpCursor, Pumps
<1>3. now \in Nat /\ pump.start \in Nat /\ now <= pump.start + CycleSeconds /\ pump.start <= now
  BY <1>1, StreamKnown DEF StreamInv, ClockOK
<1>4. pump'.cursor <= pump'.start
  BY <1>2, <1>3, ConstantsType DEF TurnsWithinOverlap
<1>5. \A k : Settled(k)' <=> Settled(k)
  BY <1>1 DEF Settled, Expired
<1>6. ClockOK' /\ ArrivedOK' /\ DueOK' /\ PagesOK'
  BY <1>1, <1>2, <1>3, <1>5 DEF StreamInv, ClockOK, ArrivedOK, DueOK, PagesOK
<1>7. (arrived \cup due \subseteq HookKeys(kept))'
  BY <1>1 DEF StreamInv, HookKeys
<1>8. QED
  BY <1>2, <1>4, <1>6, <1>7 DEF StreamInv

LEMMA CloseStream ==
  ASSUME StreamInv, TypeInv', Close
  PROVE  StreamInv'
<1>1. /\ pump'.pc = "off" /\ arrived' = {} /\ due' = {}
  BY DEF Close, Off
<1>2. ClockOK' /\ ArrivedOK' /\ DueOK' /\ PagesOK'
  BY <1>1 DEF ClockOK, ArrivedOK, DueOK, PagesOK
<1>3. QED
  BY <1>1, <1>2 DEF StreamInv

\* One page: what is owed and still ahead is sent, or ahead of the last key
\* sent; a turn that stops at its last page has passed all there was.
LEMMA TailPageStream ==
  ASSUME StreamInv, BurstFits, TypeInv', TailPage
  PROVE  StreamInv'
<1> DEFINE page == HookPage(pump.cursor, pump.after, LivePollLimit)
           range == KeyRange(HookKeys(Pruned(store)), pump.cursor, pump.after)
           next == Cardinality(page) = LivePollLimit /\ pump.pages + 1 < LiveTailMaxPages
           Known == {k \in HookKeys(kept) : k[1] >= pump.cursor}
           Before == IF pump.after = None THEN {} ELSE PassedKeys
<1>1. /\ pump.pc = "tail" /\ store' = Pruned(store) /\ sent' = sent \cup page
      /\ UNCHANGED <<now, arrived, due, kept>>
  BY DEF TailPage
<1>2. /\ pump'.cursor = pump.cursor /\ pump'.start = pump.start
      /\ pump'.pages = (IF next THEN pump.pages + 1 ELSE 0)
      /\ pump'.pc = (IF next THEN "tail" ELSE "bump")
      /\ pump'.after = (IF next THEN LastKey(page) ELSE None)
      /\ next => /\ LastKey(page) \in page
                 /\ \A j \in page \ {LastKey(page)} : KeyBefore(j, LastKey(page))
  BY TailPageType, StreamKnown
<1>3. /\ range \in SUBSET store /\ page \in SUBSET range
      /\ IsFiniteSet(page) /\ Cardinality(page) \in Nat /\ page \in SUBSET Keys
      /\ \A k \in page, j \in range : KeyBefore(j, k) => j \in page
      /\ Cardinality(page) <= LivePollLimit
      /\ Cardinality(page) < LivePollLimit => page = range
  BY StreamKnown, HookPageType, ConstantsType
<1>4. ASSUME NEW k \in range
      PROVE  k \in Known /\ (pump.after # None => KeyBefore(pump.after, k))
  <2>1. k \in HookKeys(Pruned(store)) /\ k \in HookKeys(kept)
    BY <1>3, RangeIn DEF HookKeys, StreamInv, TypeInv
  <2>2. CASE pump.after = None
    BY <2>1, <2>2 DEF KeyRange
  <2>3. CASE pump.after # None
    <3>1. KeyBefore(pump.after, k)
      BY <2>3 DEF KeyRange
    <3>2. pump.after[1] >= pump.cursor
      BY <1>1, <2>3 DEF StreamInv, PagesOK
    <3>3. k \in Keys /\ pump.after \in Keys /\ pump.cursor \in Int
      BY <2>1, <2>3, StreamKnown
    <3>4. k[1] >= pump.cursor
      BY <3>1, <3>2, <3>3 DEF KeyBefore, Keys
    <3>5. QED
      BY <2>1, <3>1, <3>4
  <2>4. QED
    BY <2>2, <2>3
<1>5. Before \in SUBSET Known /\ IsFiniteSet(Known) /\ IsFiniteSet(Before) /\ Cardinality(Before) \in Nat
  <2>1. IsFiniteSet(Known)
    BY StreamKnown, FS_Subset
  <2>2. Before \in SUBSET Known
    BY DEF PassedKeys
  <2>3. QED
    BY <2>1, <2>2, FS_Subset, FS_CardinalityType
<1>6. Before \cap page = {}
  BY <1>3, <1>4 DEF PassedKeys
<1>7. Cardinality(Before) >= pump.pages * LivePollLimit
  <2>1. CASE pump.after = None
    BY <1>1, <2>1, FS_EmptySet, ConstantsType DEF StreamInv, PagesOK
  <2>2. CASE pump.after # None
    BY <1>1, <2>2 DEF StreamInv, PagesOK
  <2>3. QED
    BY <2>1, <2>2
<1>8. /\ Before \cup page \in SUBSET Known /\ IsFiniteSet(Before \cup page)
      /\ Cardinality(Before \cup page) = Cardinality(Before) + Cardinality(page)
  <2>1. page \in SUBSET Known
    BY <1>3, <1>4
  <2> HIDE DEF page, Before, Known
  <2>2. Before \cap page = {} => Cardinality(Before \cap page) = 0
    BY FS_EmptySet
  <2>3. Cardinality(Before \cup page)
          = Cardinality(Before) + Cardinality(page) - Cardinality(Before \cap page)
    BY <1>3, <1>5, FS_Union
  <2>4. IsFiniteSet(Before \cup page)
    BY <1>3, <1>5, FS_Union
  <2>5. QED
    BY <1>3, <1>5, <1>6, <2>1, <2>2, <2>3, <2>4
<1>9. ASSUME NEW k \in due PROVE k \in HookKeys(kept) /\ k \in Keys
  BY StreamKnown DEF StreamInv
<1>10. ASSUME NEW k \in due, Ahead(k), ~Expired(k) PROVE k \in range
  <2>1. k \in store
    BY <1>9, <1>10, StreamKnown
  <2>2. k \in HookKeys(Pruned(store))
    BY <1>9, <1>10, <2>1, PruneKeeps DEF HookKeys
  <2>3. QED
    BY <1>10, <2>2 DEF KeyRange, Ahead
<1>11. Cardinality(Known) <= LivePollLimit * LiveTailMaxPages
  BY <1>1 DEF BurstFits
<1> HIDE DEF page, range, Known, Before
\* Either the page holds what is ahead, or there is another page.
<1>12. ASSUME NEW k \in due, Ahead(k), ~Expired(k), k \notin page PROVE next
  <2>1. k \in range
    BY <1>10, <1>12
  <2>2. Cardinality(page) = LivePollLimit
    BY <1>3, <1>12, <2>1, ConstantsType
  <2>3. SUFFICES ASSUME pump.pages + 1 >= LiveTailMaxPages PROVE FALSE
    BY <2>2, StreamKnown, ConstantsType DEF next
  <2>4. pump.pages + 1 = LiveTailMaxPages /\ pump.pages \in Nat
    BY <2>3, StreamKnown, ConstantsType
  <2>5. k \in Known /\ k \notin Before \cup page
    <3>1. k \in Known
      BY <1>4, <2>1
    <3>2. k \notin Before
      BY <1>4, <2>1 DEF Before, PassedKeys
    <3>3. QED
      BY <1>12, <3>1, <3>2
  <2>6. Cardinality((Before \cup page) \cup {k}) <= Cardinality(Known)
    BY <1>5, <1>8, <2>5, FS_Subset
  <2>7. Cardinality((Before \cup page) \cup {k}) = Cardinality(Before) + LivePollLimit + 1
    BY <1>8, <2>2, <2>5, FS_AddElement
  <2>8. Cardinality(Known) \in Nat
    BY <1>5, FS_CardinalityType
  <2>9. pump.pages * LivePollLimit + LivePollLimit = LivePollLimit * LiveTailMaxPages
    BY <2>4, ConstantsType
  <2>10. LivePollLimit * LiveTailMaxPages \in Nat /\ pump.pages * LivePollLimit \in Nat
         /\ LivePollLimit \in Nat
    BY <2>4, ConstantsType
  <2>11. QED
    BY <1>5, <1>7, <1>11, <2>6, <2>7, <2>8, <2>9, <2>10
<1>13. \A k : Expired(k)' <=> Expired(k)
  BY <1>1 DEF Expired
\* What is ahead of the page is ahead of its last key.
<1>14. ASSUME NEW k \in due, Ahead(k), ~Expired(k), k \notin page
       PROVE  Ahead(k)'
  <2>1. next /\ k \in range /\ k[1] >= pump.cursor
    BY <1>10, <1>12, <1>14 DEF Ahead
  <2>2. pump'.after = LastKey(page) /\ LastKey(page) \in page
    BY <1>2, <2>1
  <2>3. ~KeyBefore(k, LastKey(page)) /\ k # LastKey(page)
    BY <1>3, <1>14, <2>1, <2>2
  <2>4. KeyBefore(LastKey(page), k)
    BY <1>3, <1>9, <2>2, <2>3, KeyOrder
  <2>5. QED
    BY <1>2, <2>1, <2>2, <2>4 DEF Ahead
<1>15. DueOK'
  <2>1. ASSUME NEW k \in due PROVE Settled(k)' \/ (Ahead(k)' /\ next)
    <3>1. Settled(k) \/ Ahead(k)
      BY <1>1 DEF StreamInv, DueOK
    <3>2. CASE Settled(k)
      BY <1>1, <1>13, <3>2 DEF Settled
    <3>3. CASE Ahead(k) /\ ~Settled(k)
      BY <1>1, <1>12, <1>13, <1>14, <3>3 DEF Settled
    <3>4. QED
      BY <3>1, <3>2, <3>3
  <2>2. QED
    BY <1>1, <1>2, <2>1 DEF DueOK
<1>16. PagesOK'
  <2>1. CASE ~next
    BY <1>2, <2>1 DEF PagesOK
  <2>2. CASE next
    <3>1. /\ pump'.after = LastKey(page) /\ pump'.pages = pump.pages + 1 /\ LastKey(page) \in page
          /\ Cardinality(page) = LivePollLimit
      BY <1>2, <2>2 DEF next
    <3>2. LastKey(page) \in Known /\ LastKey(page) \in Keys /\ pump'.after # None
      BY <1>3, <1>4, <3>1 DEF Keys
    <3>3. Before \cup page \in SUBSET PassedKeys'
      <4>1. ASSUME NEW k \in Before \cup page PROVE ~KeyBefore(LastKey(page), k)
        <5>1. k \in Keys
          BY <1>8, StreamKnown DEF Known
        <5>2. CASE k \in page
          <6>1. k = LastKey(page) \/ KeyBefore(k, LastKey(page))
            BY <1>2, <2>2, <5>2
          <6>2. QED
            BY <3>2, <5>1, <6>1, KeyOrder
        <5>3. CASE k \in Before
          <6>1. pump.after # None /\ ~KeyBefore(pump.after, k) /\ pump.after \in Keys
            BY <5>3, StreamKnown DEF Before, PassedKeys
          <6>2. KeyBefore(pump.after, LastKey(page))
            BY <1>3, <1>4, <3>1, <6>1
          <6>3. QED
            BY <3>2, <5>1, <6>1, <6>2, KeyOrder
        <5>4. QED
          BY <4>1, <5>2, <5>3
      <4>2. QED
        BY <1>1, <1>2, <1>8, <3>1, <4>1 DEF PassedKeys, Known, HookKeys
    <3>4. IsFiniteSet(PassedKeys')
      <4>1. PassedKeys' \in SUBSET HookKeys(kept)
        BY <1>1 DEF PassedKeys, HookKeys
      <4>2. QED
        BY <4>1, StreamKnown, FS_Subset
    <3>5. Cardinality(Before \cup page) <= Cardinality(PassedKeys') /\ Cardinality(PassedKeys') \in Nat
      BY <3>3, <3>4, FS_Subset, FS_CardinalityType
    <3>6. pump.pages \in Nat /\ LivePollLimit \in Nat
      BY StreamKnown, ConstantsType
    <3>7. pump'.pages * LivePollLimit = pump.pages * LivePollLimit + LivePollLimit
      BY <3>1, <3>6
    <3>8. pump.pages * LivePollLimit \in Nat
      BY <3>6
    <3>9. Cardinality(PassedKeys') >= pump'.pages * LivePollLimit
      BY <1>5, <1>7, <1>8, <3>1, <3>5, <3>6, <3>7, <3>8
    <3>10. pump'.after[1] >= pump'.cursor
      BY <1>2, <3>1, <3>2 DEF Known
    <3>11. Cardinality(PassedKeys)' = Cardinality(PassedKeys')
      OBVIOUS
    <3>12. QED
      BY <3>2, <3>9, <3>10, <3>11 DEF PagesOK
  <2>3. QED
    BY <2>1, <2>2
<1>17. ArrivedOK' /\ ClockOK'
  BY <1>1, <1>2 DEF StreamInv, ArrivedOK, ClockOK
<1>18. (arrived \cup due \subseteq HookKeys(kept))'
  BY <1>1 DEF StreamInv, HookKeys
<1>19. QED
  BY <1>2, <1>15, <1>16, <1>17, <1>18 DEF StreamInv

LEMMA NextStream ==
  ASSUME TurnsWithinOverlap, StreamInv, BurstFits, [Next]_vars
  PROVE  StreamInv'
<1>1. TypeInv /\ TypeInv' /\ now \in Nat /\ pump.start \in Nat
  BY NextType, StreamKnown
<1>2. CASE Tick
  <2>1. /\ UNCHANGED <<stream, arrived, kept, store>> /\ now' = now + 1
        /\ pump.pc \notin {"off", "sleep"} => now < pump.start + CycleSeconds
    BY <1>2 DEF Tick
  <2>2. pump.pc \notin {"off", "sleep"} => now' <= pump.start + CycleSeconds
    BY <1>1, <2>1, ConstantsType
  <2>3. QED
    BY <1>1, <2>1, <2>2, StreamKept DEF HookKeys
<1>3. pump.pc \notin {"off", "sleep"} => now <= pump.start + CycleSeconds
  BY DEF StreamInv, ClockOK
<1>4. CASE MailStep
  BY <1>1, <1>3, <1>4, MailType, StreamKept DEF HookKeys
<1>5. CASE StoredStep
  <2>1. CASE \E w \in Wraps : DeliverWrap(w)
    <3>1. PICK w \in Wraps : DeliverWrap(w)
      BY <2>1
    <3>2. /\ UNCHANGED <<now, stream, arrived>>
          /\ store' = store \cup {<<now, w>>} /\ kept' = kept \cup {<<now, w>>}
      BY <3>1 DEF DeliverWrap, Store
    <3>3. HookKeys(kept)' = HookKeys(kept) /\ HookKeys(store)' = HookKeys(store)
      <4> DEFINE new == <<now, w>>
      <4>1. new[2] \notin Hooks
        OBVIOUS
      <4>2. store' = store \cup {new} /\ kept' = kept \cup {new}
        BY <3>2
      <4> HIDE DEF new
      <4>3. QED
        BY <4>1, <4>2 DEF HookKeys
    <3>4. QED
      BY <1>1, <1>3, <3>2, <3>3, StreamKept
  <2>2. QED
    BY <1>1, <1>5, <2>1, StoreHookStream DEF StoredStep
<1>6. CASE InboxStep
  <2>1. UNCHANGED <<now, store, kept, stream, arrived>>
    BY <1>6 DEF InboxStep, InboxRequest, ReadPage, ExamineWrap, InboxReply
  <2>2. QED
    BY <1>1, <1>3, <2>1, StreamKept DEF HookKeys
<1>7. CASE ConnectStep
  BY <1>1, <1>7, ConnectStream DEF ConnectStep
<1>8. CASE StreamStep
  BY <1>1, <1>8, ReplayStream, HelloStream, TailPageStream, BumpStream, WakeStream, CloseStream
     DEF StreamStep
<1>9. CASE UNCHANGED vars
  <2>1. UNCHANGED <<now, store, kept, stream, arrived>>
    BY <1>9 DEF vars
  <2>2. QED
    BY <1>1, <1>3, <2>1, StreamKept DEF HookKeys
<1>10. QED
  BY <1>2, <1>4, <1>5, <1>6, <1>7, <1>8, <1>9, NextCases

\* What a turn of the inbox stream finds stored when it begins has been sent
\* when it ends, or its retention is over, in spite of deliveries stored and
\* pruned between its pages and however long it sleeps: if a turn takes no
\* longer than the overlap the cursor leaves, and a burst fits its pages.
THEOREM HooksAlwaysSeen ==
  ASSUME TurnsWithinOverlap
  PROVE  Spec /\ []BurstFits => []HookSeenWithinOneCycle
<1>1. Init => StreamInv
  <2>1. SUFFICES ASSUME Init PROVE StreamInv
    OBVIOUS
  <2>2. pump.pc = "off" /\ arrived = {} /\ due = {}
    BY <2>1 DEF Init, Off
  <2>3. QED
    BY <2>1, <2>2, InitType DEF StreamInv, ClockOK, ArrivedOK, DueOK, PagesOK
<1>2. StreamInv /\ BurstFits /\ [Next]_vars => StreamInv'
  BY NextStream
<1>3. StreamInv => HookSeenWithinOneCycle
  BY DEF StreamInv, DueOK, Settled, HookSeenWithinOneCycle
<1>4. QED
  BY <1>1, <1>2, <1>3, PTL DEF Spec

=============================================================================
