----------------------------- MODULE ConfigResolver -----------------------------
(***************************************************************************)
(* contrib/resolver/config_source.py: CypherConfigSource, which reads the  *)
(* configuration node of the KG and keeps it for a while.  Threads share   *)
(* one source; there is no lock, so fetch() is split where it reads or     *)
(* replaces self._cache and where it asks the KG, which may take any time. *)
(* The node is edited, deleted and created again meanwhile.                *)
(***************************************************************************)
EXTENDS Integers

CONSTANTS
  Threads,
  TTL,        \* _CACHE_TTL, in units of the clock
  NONE,       \* Python's None: nothing cached, nothing answered
  ABSENT,     \* there is no such node
  MaxTime,    \* bound on the clock
  MaxEdits    \* bound on edits of the node

ASSUME ResolverConstants ==
  /\ TTL \in Nat \ {0}
  /\ MaxTime \in Nat /\ MaxEdits \in Nat
  /\ NONE \notin Int /\ ABSENT \notin Int /\ NONE # ABSENT
  /\ NONE \notin [stamp : Int, props : Int]

VARIABLES
  clock,   \* time.monotonic()
  node,    \* the properties of the node, by the edit that made them, or ABSENT
  until,   \* history: until[v] is when the properties v ceased to be the node's
  cache,   \* self._cache: NONE or [stamp, props]
  pc,      \* where thread t is in fetch()
  now,     \* now[t]: the clock when t's last fetch began
  props,   \* props[t]: what the query returned, not yet cached
  answer,  \* answer[t]: properties the last fetch returned, NONE if it raised
  begun    \* history: when that fetch, and each then in flight, began

node_vars == <<clock, node, until>>
local_vars == <<pc, now, props, answer, begun>>
vars == <<node_vars, cache, local_vars>>

Versions == 0 .. MaxEdits
Replaced == DOMAIN until

Init ==
  /\ clock = 0
  /\ node = 0
  /\ until = [v \in {} |-> 0]
  /\ cache = NONE
  /\ pc = [t \in Threads |-> "idle"]
  /\ now = [t \in Threads |-> 0]
  /\ props = [t \in Threads |-> NONE]
  /\ answer = [t \in Threads |-> NONE]
  /\ begun = [t \in Threads |-> {0}]

-------------------------------------------------------------------------------
InFlight == {t \in Threads : pc[t] # "idle"}

Begin(t) ==
  /\ pc[t] = "idle"
  /\ pc' = [pc EXCEPT ![t] = "look"]
  /\ now' = [now EXCEPT ![t] = clock]
  /\ answer' = [answer EXCEPT ![t] = NONE]
  /\ begun' = [begun EXCEPT ![t] = {now[u] : u \in InFlight} \cup {clock}]
  /\ UNCHANGED <<node_vars, cache, props>>

\* `self._cache and (now - self._cache[0]) < TTL`.  The two reads may be one:
\* a cache that is filled is never emptied.
Look(t) ==
  /\ pc[t] = "look"
  /\ pc' = [pc EXCEPT ![t] =
              IF cache # NONE /\ now[t] - cache.stamp < TTL THEN "hit" ELSE "query"]
  /\ UNCHANGED <<node_vars, cache, now, props, answer, begun>>

Returns(t, result) ==
  /\ pc' = [pc EXCEPT ![t] = "idle"]
  /\ props' = [props EXCEPT ![t] = NONE]
  /\ answer' = [answer EXCEPT ![t] = result]
  /\ UNCHANGED <<now, begun>>

\* dict(self._cache[1]), a third read: the entry need not be the one looked at.
ReturnCached(t) ==
  /\ pc[t] = "hit"
  /\ Returns(t, cache.props)
  /\ UNCHANGED <<node_vars, cache>>

Query(t) ==
  /\ pc[t] = "query"
  /\ node # ABSENT
  /\ props' = [props EXCEPT ![t] = node]
  /\ pc' = [pc EXCEPT ![t] = "store"]
  /\ UNCHANGED <<node_vars, cache, now, answer, begun>>

FaultyQueryFindsNothing(t) ==   \* fault: that there is no node is remembered
  /\ pc[t] = "query"
  /\ node = ABSENT
  /\ Returns(t, NONE)
  /\ cache' = [stamp |-> now[t], props |-> ABSENT]
  /\ UNCHANGED node_vars

\* MissingConfigError.
QueryFindsNothing(t) ==
  /\ pc[t] = "query"
  /\ node = ABSENT
  /\ Returns(t, NONE)
  /\ UNCHANGED <<node_vars, cache>>

\* The KG cannot be reached.  An expired entry is not used in its place.
DriverRaises(t) ==
  /\ pc[t] = "query"
  /\ Returns(t, NONE)
  /\ UNCHANGED <<node_vars, cache>>

FaultyStore(t) ==   \* fault: stamped with the time of the answer, not of the question
  /\ pc[t] = "store"
  /\ cache' = [stamp |-> clock, props |-> props[t]]
  /\ Returns(t, props[t])
  /\ UNCHANGED node_vars

Store(t) ==
  /\ pc[t] = "store"
  /\ cache' = [stamp |-> now[t], props |-> props[t]]
  /\ Returns(t, props[t])
  /\ UNCHANGED node_vars

-------------------------------------------------------------------------------
\* The environment.

Tick ==
  /\ clock < MaxTime
  /\ clock' = clock + 1
  /\ UNCHANGED <<node, until, cache, local_vars>>

\* The node's properties, if there is a node, cease to be so.
Cease ==
  until' = [v \in Replaced \cup ({node} \ {ABSENT}) |->
              IF v = node THEN clock ELSE until[v]]

\* It gets new ones, with the next number.
EditNode(v) ==
  /\ Cease
  /\ v \notin Replaced'
  /\ \A w \in Versions : w < v => w \in Replaced'
  /\ node' = v
  /\ UNCHANGED <<clock, cache, local_vars>>

DeleteNode ==
  /\ node # ABSENT
  /\ node' = ABSENT
  /\ Cease
  /\ UNCHANGED <<clock, cache, local_vars>>

Next ==
  \/ \E t \in Threads :
       \/ Begin(t) \/ Look(t) \/ ReturnCached(t)
       \/ Query(t) \/ QueryFindsNothing(t) \/ DriverRaises(t)
       \/ Store(t)
  \/ Tick
  \/ \E v \in Versions : EditNode(v)
  \/ DeleteNode

Spec == Init /\ [][Next]_vars
-------------------------------------------------------------------------------
(***************************************************************************)
(* Properties.                                                             *)
(***************************************************************************)

TypeOK ==
  /\ clock \in 0 .. MaxTime
  /\ node \in Versions \cup {ABSENT}
  /\ Replaced \subseteq Versions
  /\ until \in [Replaced -> 0 .. clock]
  /\ cache \in [stamp : 0 .. clock, props : Versions] \cup {NONE}
  /\ pc \in [Threads -> {"idle", "look", "hit", "query", "store"}]
  /\ now \in [Threads -> 0 .. clock]
  /\ props \in [Threads -> Versions \cup {NONE}]
  /\ answer \in [Threads -> Versions \cup {NONE}]
  /\ begun \in [Threads -> SUBSET (0 .. clock)]
  /\ \A t \in Threads : pc[t] = "store" <=> props[t] # NONE
  /\ \A t \in Threads : pc[t] = "hit" => cache # NONE

\* "60s TTL cache": what fetch() returns were the node's properties at some
\* time after TTL before it was called.  Threads that overlap can undo that,
\* since an old answer may be stored late and the cache is read again after it
\* was found fresh; but never for properties that were gone when the oldest
\* fetch began that was still in flight at the call.  Without overlap this is
\* the TTL, and queries that fail or find no node change nothing in it.
BoundedStaleness ==
  \A t \in Threads :
    answer[t] \in Replaced =>
      \/ until[answer[t]] > now[t] - TTL
      \/ \E time \in begun[t] : until[answer[t]] >= time
===============================================================================
