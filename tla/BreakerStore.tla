----------------------------- MODULE BreakerStore -----------------------------
(***************************************************************************)
(* contrib/circuit_breaker.py at the grain of its KVStore, because the     *)
(* breaker takes no lock.  Its callers share one of the two stores that    *)
(* the docstring offers:                                                   *)
(*                                                                         *)
(*   "redis"   between processes, perhaps on several machines: each get,   *)
(*             set, incr or delete is atomic; a process may die between    *)
(*             two of them, which leaves the keys as they are; and each    *)
(*             machine has a monotonic clock of its own, which starts from *)
(*             zero when the machine does.                                 *)
(*   "memory"  an InMemoryStore between threads of one process: incr reads *)
(*             and writes in two steps, delete pops one key at a time;     *)
(*             there is one clock, and the keys die with the process.      *)
(*                                                                         *)
(* Between two steps any other caller may run and time may pass.  The      *)
(* guarded request itself is one step: it reports a failure while the      *)
(* source is down and a success while it is up.                            *)
(***************************************************************************)
EXTENDS Integers

CONSTANTS
  Callers,         \* processes or threads sharing the store
  FailThreshold,   \* fail_threshold
  OpenDuration,    \* open_duration_s, in clock units
  MaxLead,         \* bound on how far one machine's clock is ahead of another's
  MaxCrashes,      \* bound on process deaths in a behaviour
  NONE             \* an absent key

ASSUME StoreConstants ==
  /\ FailThreshold \in Nat \ {0}
  /\ OpenDuration \in Nat
  /\ MaxLead \in Nat
  /\ MaxCrashes \in Nat
  /\ NONE \notin Int \cup {"CLOSED", "OPEN", "HALF_OPEN"}

VARIABLES
  store,     \* which of the two stores the callers share
  state, fail_count, opened_at,   \* the three keys; for opened_at see below
  pc,        \* pc[c]: what caller c does next
  seen,      \* seen[c]: the value its method holds between two steps
  lead,      \* lead[c]: how far c's clock is ahead of the slowest one
  source,    \* "up" or "down": what the guarded request meets
  crashes    \* process deaths so far

keys == <<state, fail_count, opened_at>>
surroundings == <<store, lead, source, crashes>>
vars == <<keys, pc, seen, surroundings>>

(***************************************************************************)
(* A clock reading is held as its distance from what the slowest clock     *)
(* shows now, so that it grows with time and starts at -lead[c] when c     *)
(* takes it; c finds Reading + lead[c] elapsed.  From OpenDuration on it   *)
(* has elapsed for everybody, and the reading saturates; so does           *)
(* fail_count at the threshold it is compared with.                        *)
(***************************************************************************)
Reading == (-MaxLead) .. OpenDuration
Now(c) == -lead[c]
Elapsed(c, reading) == reading + lead[c]
Older(reading) == IF reading < OpenDuration THEN reading + 1 ELSE reading
AtMost(n, max) == IF n < max THEN n ELSE max

Labels ==
  { "idle",          \* outside the breaker; check() may start
    "get_opened",    \* check(): saw OPEN, reads opened_at next
    "clock",         \* check(): holds opened_at, samples the clock next
    "set_half",      \* check(): elapsed, writes HALF_OPEN next
    "reset", "reset_count", "reset_opened",   \* _reset(): deletes a key next
    "running",       \* allowed: the request is being evaluated
    "set_closed",    \* record_success(): writes CLOSED next
    "del_count", "del_opened",   \* record_success(): deletes a key next
    "incr",          \* record_failure(): reads fail_count next
    "incr_write",    \* record_failure(): holds fail_count, writes it next
    "set_open",      \* record_failure(): threshold met, writes OPEN next
    "sample",        \* record_failure(): samples the clock next
    "stamp" }        \* record_failure(): holds the time, writes it next

TypeOK ==
  /\ store \in {"redis", "memory"}
  /\ state \in {NONE, "CLOSED", "OPEN", "HALF_OPEN"}
  /\ fail_count \in 0 .. FailThreshold
  /\ opened_at \in Reading \cup {NONE}
  /\ pc \in [Callers -> Labels]
  /\ \A c \in Callers :
       seen[c] \in CASE pc[c] \in {"clock", "stamp"} -> Reading
                     [] pc[c] = "incr_write" -> 0 .. FailThreshold
                     [] OTHER -> {NONE}
  /\ lead \in [Callers -> 0 .. MaxLead]
  /\ source \in {"up", "down"}
  /\ crashes \in 0 .. MaxCrashes

EmptyStore ==
  /\ state' = NONE
  /\ fail_count' = 0
  /\ opened_at' = NONE

Init ==
  /\ store \in {"redis", "memory"}
  /\ state = NONE
  /\ fail_count = 0
  /\ opened_at = NONE
  /\ pc = [c \in Callers |-> "idle"]
  /\ seen = [c \in Callers |-> NONE]
  /\ lead \in [Callers -> IF store = "redis" THEN 0 .. MaxLead ELSE {0}]
  /\ source = "up"
  /\ crashes = 0

\* Caller c takes a step of its method and then holds v.
Goto(c, from, to, v) ==
  /\ pc[c] = from
  /\ pc' = [pc EXCEPT ![c] = to]
  /\ seen' = [seen EXCEPT ![c] = v]
  /\ UNCHANGED surroundings

-------------------------------------------------------------------------------
\* check()

GetState(c) ==
  /\ Goto(c, "idle", IF state = "OPEN" THEN "get_opened" ELSE "running", NONE)
  /\ UNCHANGED keys

FaultyGetOpenedAt(c) ==   \* fault: OPEN without opened_at refuses, no reset
  /\ Goto(c, "get_opened", IF opened_at = NONE THEN "idle" ELSE "clock", opened_at)
  /\ UNCHANGED keys

GetOpenedAt(c) ==
  /\ Goto(c, "get_opened", IF opened_at = NONE THEN "reset" ELSE "clock", opened_at)
  /\ UNCHANGED keys

\* elapsed >= open_duration_s allows a trial; otherwise the caller is refused.
ReadClock(c) ==
  /\ Goto(c, "clock",
          IF Elapsed(c, seen[c]) >= OpenDuration THEN "set_half" ELSE "idle", NONE)
  /\ UNCHANGED keys

FaultySetHalfOpen(c) ==   \* fault: str(State.HALF_OPEN) stored, not its value
  /\ Goto(c, "set_half", "running", NONE)
  /\ state' = "State.HALF_OPEN"
  /\ UNCHANGED <<fail_count, opened_at>>

SetHalfOpen(c) ==
  /\ Goto(c, "set_half", "running", NONE)
  /\ state' = "HALF_OPEN"
  /\ UNCHANGED <<fail_count, opened_at>>

\* _reset(): one delete of three keys, which InMemoryStore pops in this order.
Reset(c) ==
  \/ /\ store = "redis"
     /\ Goto(c, "reset", "running", NONE)
     /\ EmptyStore
  \/ /\ store = "memory"
     /\ \/ /\ Goto(c, "reset", "reset_count", NONE)
           /\ state' = NONE /\ UNCHANGED <<fail_count, opened_at>>
        \/ /\ Goto(c, "reset_count", "reset_opened", NONE)
           /\ fail_count' = 0 /\ UNCHANGED <<state, opened_at>>
        \/ /\ Goto(c, "reset_opened", "running", NONE)
           /\ opened_at' = NONE /\ UNCHANGED <<state, fail_count>>

\* The request the breaker guards: an outage is reported as a failure.
EndRequest(c) ==
  /\ Goto(c, "running", IF source = "up" THEN "set_closed" ELSE "incr", NONE)
  /\ UNCHANGED keys

-------------------------------------------------------------------------------
\* record_success()

SetClosed(c) ==
  /\ Goto(c, "set_closed", "del_count", NONE)
  /\ state' = "CLOSED"
  /\ UNCHANGED <<fail_count, opened_at>>

FaultyDeleteCounters(c) ==   \* fault: fail_count is not deleted
  /\ Goto(c, "del_count", "idle", NONE)
  /\ opened_at' = NONE
  /\ UNCHANGED <<state, fail_count>>

\* One delete of two keys, likewise.
DeleteCounters(c) ==
  /\ \/ /\ store = "redis"
        /\ Goto(c, "del_count", "idle", NONE)
        /\ fail_count' = 0 /\ opened_at' = NONE
     \/ /\ store = "memory"
        /\ \/ /\ Goto(c, "del_count", "del_opened", NONE)
              /\ fail_count' = 0 /\ UNCHANGED opened_at
           \/ /\ Goto(c, "del_opened", "idle", NONE)
              /\ opened_at' = NONE /\ UNCHANGED fail_count
  /\ UNCHANGED state

\* record_failure()

FaultyCountTo(c, from, count) ==   \* fault: trips at the threshold only (== for >=)
  /\ Goto(c, from, IF count = FailThreshold THEN "set_open" ELSE "idle", NONE)
  /\ fail_count' = AtMost(count, FailThreshold)
  /\ UNCHANGED <<state, opened_at>>

\* incr writes count; `>= fail_threshold` is the caller's.
CountTo(c, from, count) ==
  /\ Goto(c, from, IF count >= FailThreshold THEN "set_open" ELSE "idle", NONE)
  /\ fail_count' = AtMost(count, FailThreshold)
  /\ UNCHANGED <<state, opened_at>>

FaultyIncr(c) ==   \* fault: trips one failure late (> for >=)
  /\ Goto(c, "incr", IF fail_count + 1 > FailThreshold THEN "set_open" ELSE "idle", NONE)
  /\ fail_count' = AtMost(fail_count + 1, FailThreshold)
  /\ UNCHANGED <<state, opened_at>>

\* One atomic INCR of redis; InMemoryStore reads the count first.
Incr(c) ==
  \/ store = "redis" /\ CountTo(c, "incr", fail_count + 1)
  \/ /\ store = "memory"
     /\ Goto(c, "incr", "incr_write", fail_count)
     /\ UNCHANGED keys

IncrWrite(c) == CountTo(c, "incr_write", seen[c] + 1)

SetOpen(c) ==
  /\ Goto(c, "set_open", "sample", NONE)
  /\ state' = "OPEN"
  /\ UNCHANGED <<fail_count, opened_at>>

Sample(c) ==
  /\ Goto(c, "sample", "stamp", Now(c))
  /\ UNCHANGED keys

Stamp(c) ==
  /\ Goto(c, "stamp", "idle", NONE)
  /\ opened_at' = seen[c]
  /\ UNCHANGED <<state, fail_count>>

-------------------------------------------------------------------------------
\* The surroundings.

HoldsTime(c) == pc[c] \in {"clock", "stamp"}

Tick ==
  /\ opened_at' = IF opened_at = NONE THEN NONE ELSE Older(opened_at)
  /\ seen' = [c \in Callers |-> IF HoldsTime(c) THEN Older(seen[c]) ELSE seen[c]]
  /\ <<opened_at', seen'>> # <<opened_at, seen>>
  /\ UNCHANGED <<state, fail_count, pc, surroundings>>

SourceChanges ==
  /\ source' = IF source = "up" THEN "down" ELSE "up"
  /\ UNCHANGED <<keys, pc, seen, store, lead, crashes>>

\* A process of c dies wherever it is and a fresh one takes its place, on the
\* same machine or, when that was rebooted, with a clock that starts again.
\* An InMemoryStore dies with its process, and so do all its threads.
Crash(c) ==
  /\ pc[c] # "idle"
  /\ crashes < MaxCrashes
  /\ crashes' = crashes + 1
  /\ IF store = "redis"
     THEN /\ pc' = [pc EXCEPT ![c] = "idle"]
          /\ seen' = [seen EXCEPT ![c] = NONE]
          /\ \E uptime \in {0, lead[c]} : lead' = [lead EXCEPT ![c] = uptime]
          /\ UNCHANGED keys
     ELSE /\ pc' = [d \in Callers |-> "idle"]
          /\ seen' = [d \in Callers |-> NONE]
          /\ EmptyStore
          /\ UNCHANGED lead
  /\ UNCHANGED <<store, source>>

Step(c) ==
  \/ GetState(c) \/ GetOpenedAt(c) \/ ReadClock(c) \/ SetHalfOpen(c) \/ Reset(c)
  \/ EndRequest(c)
  \/ SetClosed(c) \/ DeleteCounters(c)
  \/ Incr(c) \/ IncrWrite(c) \/ SetOpen(c) \/ Sample(c) \/ Stamp(c)

Next ==
  \/ Tick
  \/ SourceChanges
  \/ \E c \in Callers : Step(c) \/ Crash(c)

Spec == Init /\ [][Next]_vars

\* Time passes and every live caller keeps going (and keeps asking); the
\* source owes nothing and nobody has to crash.
FairSpec ==
  Spec /\ WF_vars(Tick) /\ \A c \in Callers : WF_vars(Step(c))

-------------------------------------------------------------------------------
(***************************************************************************)
(* Properties.                                                             *)
(***************************************************************************)

\* With one caller and no crash the methods might as well be atomic, whichever
\* store is used.  A method takes effect at its first write: record_success()
\* when it writes CLOSED, record_failure() when it writes the counter.
Closing == \E c \in Callers : pc[c] \in {"del_count", "del_opened"}
Opening == \E c \in Callers : pc[c] \in {"set_open", "sample", "stamp"}
Stamping == CHOOSE c \in Callers : pc[c] = "stamp"

Atomic ==
  INSTANCE CircuitBreaker WITH
    state <- IF Opening THEN "OPEN" ELSE state,
    fail_count <- IF Closing THEN 0 ELSE fail_count,
    opened_at <- IF Closing THEN NONE
                 ELSE IF ~Opening THEN opened_at
                 ELSE IF \E c \in Callers : pc[c] = "stamp" THEN seen[Stamping]
                 ELSE 0,
    pc <- [c \in Callers |->
             IF pc[c] \in {"running", "set_closed", "incr", "incr_write"}
             THEN "running" ELSE "idle"]

ImplementsAtomic == Atomic!Spec
ImplementsDocstring == Atomic!ImplementsDocstring

\* Whatever the interleaving, wherever a process dies, and whatever the clocks
\* of the machines show, an OPEN circuit is left again: a half-finished trip
\* (OPEN without opened_at) is reset by the next check(), a stale opened_at
\* only shortens the wait, one from a longer uptime only lengthens it.
OpenEnds == state = "OPEN" ~> state # "OPEN"

\* Whatever the races left in the keys, once the source stays up the circuit
\* ends up closed with no failures on the count.
SelfHeals ==
  <>[](source = "up") => <>[](state \in {NONE, "CLOSED"} /\ fail_count = 0)

\* Increments of two threads may be lost, written late, or wiped by a reset
\* that lasts three steps, and the circuit may trip late; but callers that fail
\* all the time do trip it, again and again.
OutageTrips ==
  <>[](source = "down") => []<>(state = "OPEN")

\* The docstring's "HALF_OPEN --(fail)--> OPEN": a failure reported while the
\* circuit is HALF_OPEN goes on to open it.
TrialFailureReopens ==
  [][\A c \in Callers :
       (Incr(c) \/ IncrWrite(c)) /\ fail_count' # fail_count /\ state = "HALF_OPEN"
         => pc'[c] = "set_open"]_vars
===============================================================================
