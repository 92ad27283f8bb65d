-------------------------- MODULE ConfigResolverProofs --------------------------
(***************************************************************************)
(* Proofs about ConfigResolver, for every set of threads, every TTL and    *)
(* every bound on the clock and the edits.                                 *)
(***************************************************************************)
EXTENDS ConfigResolver, TLAPS

\* The properties v were the node's at the given time or after it.
CurrentAt(v, time) == v \in Replaced => until[v] >= time

\* What a thread has asked for was current when its fetch began, and so was
\* what it left in the cache.
CacheSound == cache # NONE => CurrentAt(cache.props, cache.stamp)
StoreSound == \A t \in Threads : pc[t] = "store" => CurrentAt(props[t], now[t])

\* Of two fetches in flight, each knows a beginning as early as the other's.
Overlap ==
  \A t, u \in Threads :
    pc[t] # "idle" /\ pc[u] # "idle" => \E time \in begun[t] : now[u] >= time

\* An entry that replaces the one a thread found fresh was asked for by a
\* fetch that overlaps with it.
HitSound ==
  \A t \in Threads :
    pc[t] = "hit" =>
      cache.stamp > now[t] - TTL \/ \E time \in begun[t] : cache.stamp >= time

IInv ==
  /\ TypeOK
  /\ node \notin Replaced
  /\ \A t \in Threads : now[t] \in begun[t]
  /\ CacheSound
  /\ StoreSound
  /\ Overlap
  /\ HitSound
  /\ BoundedStaleness

-------------------------------------------------------------------------------
LEMMA NoSuchVersions == NONE \notin Versions /\ ABSENT \notin Versions
  BY ResolverConstants DEF Versions

LEMMA TypeInit == Init => TypeOK
  BY ResolverConstants DEF Init, TypeOK, Versions, Replaced

LEMMA TypeNext == TypeOK /\ [Next]_vars => TypeOK'
<1> SUFFICES ASSUME TypeOK, [Next]_vars PROVE TypeOK'
  OBVIOUS
<1> USE ResolverConstants
    DEF TypeOK, Versions, Replaced, node_vars, local_vars
<1>1. ASSUME NEW t \in Threads, Begin(t) PROVE TypeOK'
  BY <1>1 DEF Begin, InFlight
<1>2. ASSUME NEW t \in Threads, Look(t) PROVE TypeOK'
  BY <1>2 DEF Look
<1>3. ASSUME NEW t \in Threads, ReturnCached(t) PROVE TypeOK'
  BY <1>3 DEF ReturnCached, Returns
<1>4. ASSUME NEW t \in Threads, Query(t) PROVE TypeOK'
  BY <1>4 DEF Query
<1>5. ASSUME NEW t \in Threads, QueryFindsNothing(t) PROVE TypeOK'
  BY <1>5 DEF QueryFindsNothing, Returns
<1>6. ASSUME NEW t \in Threads, DriverRaises(t) PROVE TypeOK'
  BY <1>6 DEF DriverRaises, Returns
<1>7. ASSUME NEW t \in Threads, Store(t) PROVE TypeOK'
  BY <1>7 DEF Store, Returns
<1>8. CASE Tick
  BY <1>8 DEF Tick
<1>9. ASSUME NEW v \in Versions, EditNode(v) PROVE TypeOK'
  BY <1>9 DEF EditNode, Cease
<1>10. CASE DeleteNode
  BY <1>10 DEF DeleteNode, Cease
<1>11. CASE UNCHANGED vars
  BY <1>11 DEF vars
<1> QED
  BY <1>1, <1>2, <1>3, <1>4, <1>5, <1>6, <1>7, <1>8, <1>9, <1>10, <1>11 DEF Next

\* When the node's properties cease to be so, no time is later than that.
LEMMA CeaseKeepsCurrent ==
  ASSUME TypeOK, Cease, NEW v \in Versions, NEW time \in 0 .. clock,
         CurrentAt(v, time)
  PROVE  CurrentAt(v, time)'
  BY ResolverConstants DEF TypeOK, Cease, Replaced, Versions, CurrentAt

LEMMA IInvInit == Init => IInv
<1> SUFFICES ASSUME Init PROVE IInv
  OBVIOUS
<1>1. TypeOK
  BY TypeInit
<1>2. Replaced = {}
  BY DEF Init, Replaced
<1> QED
  BY <1>1, <1>2, ResolverConstants
  DEF Init, IInv, CacheSound, StoreSound, Overlap, HitSound, BoundedStaleness,
      Versions

-------------------------------------------------------------------------------
\* Whoever begins knows when every fetch in flight began; and no fetch in flight
\* began later.
LEMMA IInvBegin == ASSUME IInv, NEW t \in Threads, Begin(t) PROVE IInv'
<1> USE ResolverConstants DEF Begin, node_vars
<1>1. TypeOK'
  BY TypeNext DEF IInv, Next
<1>2. now'[t] = clock /\ clock \in begun'[t] /\ \A u \in InFlight : now[u] \in begun'[t]
  BY DEF IInv, TypeOK
<1>3. \A u \in Threads \ {t} :
        now'[u] = now[u] /\ begun'[u] = begun[u] /\ pc'[u] = pc[u] /\ answer'[u] = answer[u]
  BY DEF IInv, TypeOK
<1>4. node' \notin Replaced' /\ (\A u \in Threads : now'[u] \in begun'[u])
  BY <1>2, <1>3 DEF IInv, Replaced
<1>5. CacheSound'
  BY DEF IInv, CacheSound, CurrentAt, Replaced
<1>6. StoreSound'
  BY DEF IInv, TypeOK, StoreSound, CurrentAt, Replaced
<1>7. Overlap'
  <2> SUFFICES ASSUME NEW u \in Threads, NEW w \in Threads,
                      pc'[u] # "idle", pc'[w] # "idle"
               PROVE  \E time \in begun'[u] : now'[w] >= time
    BY DEF Overlap
  <2>1. CASE u = t
    BY <2>1, <1>2, <1>3, <1>1 DEF InFlight, TypeOK
  <2>2. CASE u # t /\ w = t
    BY <2>2, <1>2, <1>3, <1>1 DEF IInv, TypeOK
  <2>3. CASE u # t /\ w # t
    BY <2>3, <1>3 DEF IInv, Overlap
  <2> QED
    BY <2>1, <2>2, <2>3
<1>8. HitSound'
  BY <1>3 DEF IInv, TypeOK, HitSound
<1>9. BoundedStaleness'
  BY <1>3 DEF IInv, TypeOK, BoundedStaleness, Replaced, Versions
<1> QED
  BY <1>1, <1>4, <1>5, <1>6, <1>7, <1>8, <1>9 DEF IInv

LEMMA IInvLook == ASSUME IInv, NEW t \in Threads, Look(t) PROVE IInv'
<1> USE ResolverConstants DEF Look, node_vars
<1>1. TypeOK'
  BY TypeNext DEF IInv, Next
<1>2. node' \notin Replaced' /\ (\A u \in Threads : now'[u] \in begun'[u])
  BY DEF IInv, Replaced
<1>3. CacheSound'
  BY DEF IInv, CacheSound, CurrentAt, Replaced
<1>4. StoreSound'
  BY DEF IInv, TypeOK, StoreSound, CurrentAt, Replaced
<1>5. Overlap'
  BY DEF IInv, TypeOK, Overlap
<1>6. HitSound'
  BY DEF IInv, TypeOK, HitSound, Versions
<1>7. BoundedStaleness'
  BY DEF IInv, BoundedStaleness, Replaced
<1> QED
  BY <1>1, <1>2, <1>3, <1>4, <1>5, <1>6, <1>7 DEF IInv

\* A fetch that ends without replacing the cache need only answer soundly.
LEMMA IInvReturns ==
  ASSUME IInv, NEW t \in Threads, NEW result, Returns(t, result), TypeOK',
         UNCHANGED <<node_vars, cache>>,
         result \in Replaced =>
           \/ until[result] > now[t] - TTL
           \/ \E time \in begun[t] : until[result] >= time
  PROVE  IInv'
<1> USE ResolverConstants DEF Returns, node_vars
<1>1. node' \notin Replaced' /\ (\A u \in Threads : now'[u] \in begun'[u])
  BY DEF IInv, Replaced
<1>2. CacheSound'
  BY DEF IInv, CacheSound, CurrentAt, Replaced
<1>3. StoreSound'
  BY DEF IInv, TypeOK, StoreSound, CurrentAt, Replaced
<1>4. Overlap'
  BY DEF IInv, TypeOK, Overlap
<1>5. HitSound'
  BY DEF IInv, TypeOK, HitSound
<1>6. BoundedStaleness'
  BY DEF IInv, TypeOK, BoundedStaleness, Replaced
<1> QED
  BY <1>1, <1>2, <1>3, <1>4, <1>5, <1>6 DEF IInv

LEMMA IInvReturnCached == ASSUME IInv, NEW t \in Threads, ReturnCached(t) PROVE IInv'
<1>1. TypeOK'
  BY TypeNext DEF IInv, Next
<1>2. cache # NONE /\ cache.stamp \in 0 .. clock /\ cache.props \in Versions
  BY DEF IInv, TypeOK, ReturnCached
<1>3. /\ CurrentAt(cache.props, cache.stamp)
      /\ cache.stamp > now[t] - TTL \/ \E time \in begun[t] : cache.stamp >= time
  BY <1>2 DEF IInv, CacheSound, HitSound, ReturnCached
<1>4. cache.props \in Replaced =>
        \/ until[cache.props] > now[t] - TTL
        \/ \E time \in begun[t] : until[cache.props] >= time
  BY <1>2, <1>3, ResolverConstants DEF CurrentAt, IInv, TypeOK
<1> QED
  BY <1>1, <1>4, IInvReturns DEF ReturnCached

\* A query that fails, or finds no node, answers nothing.
LEMMA IInvAnswersNothing ==
  ASSUME IInv, NEW t \in Threads, QueryFindsNothing(t) \/ DriverRaises(t)
  PROVE  IInv'
<1>1. TypeOK'
  BY TypeNext DEF IInv, Next
<1>2. NONE \notin Replaced
  BY NoSuchVersions DEF IInv, TypeOK
<1> QED
  BY <1>1, <1>2, IInvReturns DEF QueryFindsNothing, DriverRaises

LEMMA IInvQuery == ASSUME IInv, NEW t \in Threads, Query(t) PROVE IInv'
<1> USE ResolverConstants DEF Query, node_vars
<1>1. TypeOK'
  BY TypeNext DEF IInv, Next
<1>2. node' \notin Replaced' /\ (\A u \in Threads : now'[u] \in begun'[u])
  BY DEF IInv, Replaced
<1>3. CacheSound'
  BY DEF IInv, CacheSound, CurrentAt, Replaced
<1>4. StoreSound'
  BY DEF IInv, TypeOK, StoreSound, CurrentAt, Replaced
<1>5. Overlap'
  BY DEF IInv, TypeOK, Overlap
<1>6. HitSound'
  BY DEF IInv, TypeOK, HitSound
<1>7. BoundedStaleness'
  BY DEF IInv, BoundedStaleness, Replaced
<1> QED
  BY <1>1, <1>2, <1>3, <1>4, <1>5, <1>6, <1>7 DEF IInv

\* The thread that stores was in flight together with every thread that is about
\* to return the entry it found fresh.
LEMMA IInvStore == ASSUME IInv, NEW t \in Threads, Store(t) PROVE IInv'
<1> USE ResolverConstants DEF Store, Returns, node_vars
<1>1. TypeOK'
  BY TypeNext DEF IInv, Next
<1>2. node' \notin Replaced' /\ (\A u \in Threads : now'[u] \in begun'[u])
  BY DEF IInv, Replaced
<1>3. props[t] \in Versions /\ CurrentAt(props[t], now[t])
  BY DEF IInv, TypeOK, StoreSound
<1>4. CacheSound'
  BY <1>3 DEF CacheSound, CurrentAt, Replaced
<1>5. StoreSound'
  BY DEF IInv, TypeOK, StoreSound, CurrentAt, Replaced
<1>6. Overlap'
  BY DEF IInv, TypeOK, Overlap
<1>7. HitSound'
  <2> SUFFICES ASSUME NEW u \in Threads, pc'[u] = "hit"
               PROVE  \E time \in begun'[u] : cache'.stamp >= time
    BY DEF HitSound
  <2>1. pc[u] # "idle" /\ pc[t] # "idle"
    BY DEF IInv, TypeOK
  <2> QED
    BY <2>1 DEF IInv, Overlap
<1>8. BoundedStaleness'
  <2>1. props[t] \in Replaced => \E time \in begun[t] : until[props[t]] >= time
    BY <1>3 DEF IInv, CurrentAt
  <2> QED
    BY <2>1 DEF IInv, TypeOK, BoundedStaleness, Replaced
<1> QED
  BY <1>1, <1>2, <1>4, <1>5, <1>6, <1>7, <1>8 DEF IInv

LEMMA IInvTick == ASSUME IInv, Tick PROVE IInv'
<1>1. TypeOK'
  BY TypeNext DEF IInv, Next
<1> QED
  BY <1>1 DEF IInv, Tick, local_vars, CacheSound, StoreSound, Overlap, HitSound,
              BoundedStaleness, CurrentAt, Replaced

LEMMA IInvNodeChanges ==
  ASSUME IInv, TypeOK', Cease, node' \notin Replaced',
         UNCHANGED <<clock, cache, local_vars>>
  PROVE  IInv'
<1> USE ResolverConstants DEF local_vars
<1>1. CacheSound'
  BY CeaseKeepsCurrent DEF IInv, TypeOK, CacheSound, CurrentAt, Replaced
<1>2. StoreSound'
  <2> SUFFICES ASSUME NEW t \in Threads, pc[t] = "store"
               PROVE  CurrentAt(props[t], now[t])'
    BY DEF StoreSound
  <2>1. props[t] \in Versions /\ now[t] \in 0 .. clock /\ CurrentAt(props[t], now[t])
    BY DEF IInv, TypeOK, StoreSound
  <2> QED
    BY <2>1, CeaseKeepsCurrent DEF IInv, CurrentAt, Replaced
<1>3. Overlap' /\ HitSound' /\ (\A t \in Threads : now'[t] \in begun'[t])
  BY DEF IInv, Overlap, HitSound
<1>4. BoundedStaleness'
  <2> SUFFICES ASSUME NEW t \in Threads, answer[t] \in Replaced'
               PROVE  \/ until'[answer[t]] > now[t] - TTL
                      \/ \E time \in begun[t] : until'[answer[t]] >= time
    BY DEF BoundedStaleness
  <2>1. CASE answer[t] = node
    <3>1. until'[answer[t]] = clock
      BY <2>1 DEF Cease, Replaced
    <3> QED
      BY <3>1 DEF IInv, TypeOK
  <2>2. CASE answer[t] # node
    <3>1. answer[t] \in Replaced /\ until'[answer[t]] = until[answer[t]]
      BY <2>2 DEF Cease, Replaced
    <3> QED
      BY <3>1 DEF IInv, BoundedStaleness
  <2> QED
    BY <2>1, <2>2
<1> QED
  BY <1>1, <1>2, <1>3, <1>4 DEF IInv

LEMMA IInvNext == IInv /\ [Next]_vars => IInv'
<1> SUFFICES ASSUME IInv, [Next]_vars PROVE IInv'
  OBVIOUS
<1>1. TypeOK'
  BY TypeNext DEF IInv
<1>2. ASSUME NEW v \in Versions, EditNode(v) PROVE IInv'
  BY <1>1, <1>2, IInvNodeChanges DEF EditNode
<1>3. CASE DeleteNode
  <2>1. ABSENT \notin Replaced'
    BY <1>1, NoSuchVersions DEF TypeOK, Versions
  <2> QED
    BY <1>1, <1>3, <2>1, IInvNodeChanges DEF DeleteNode
<1>4. CASE UNCHANGED vars
  BY <1>4 DEF vars, node_vars, local_vars, IInv, TypeOK, CacheSound, StoreSound, Overlap,
              HitSound, BoundedStaleness, CurrentAt, Replaced
<1> QED
  BY <1>2, <1>3, <1>4, IInvBegin, IInvLook, IInvReturnCached, IInvQuery,
     IInvAnswersNothing, IInvStore, IInvTick DEF Next

-------------------------------------------------------------------------------
\* Only properties that were the node's are ever cached or answered; that there
\* was no node, or no answer, is not remembered by fetch().
THEOREM TypesHold == Spec => []TypeOK
<1>1. Init => TypeOK
  BY TypeInit
<1>2. TypeOK /\ [Next]_vars => TypeOK'
  BY TypeNext
<1> QED
  BY <1>1, <1>2, PTL DEF Spec

\* What fetch() returns was the node's at some time less than the TTL before the
\* call, or after the beginning of a fetch that was in flight at the call: with
\* any number of threads, whatever the order in which their answers are stored.
THEOREM StalenessBounded == Spec => []BoundedStaleness
<1>1. Init => IInv
  BY IInvInit
<1>2. IInv /\ [Next]_vars => IInv'
  BY IInvNext
<1>3. IInv => BoundedStaleness
  BY DEF IInv
<1> QED
  BY <1>1, <1>2, <1>3, PTL DEF Spec
===============================================================================
