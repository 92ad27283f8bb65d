--------------------------- MODULE BreakerStoreProofs ---------------------------
(***************************************************************************)
(* Theorems of BreakerStore: the types of the keys and of what the callers *)
(* hold, for any number of callers, crashes and clocks; and, for a caller  *)
(* that has the store to itself, that the single accesses to the store     *)
(* make up the atomic methods of CircuitBreaker, whichever store it is.    *)
(***************************************************************************)
EXTENDS BreakerStore, TLAPS

USE StoreConstants

\* What a caller may hold at a label.
Holds(at) ==
  CASE at \in {"clock", "stamp"} -> Reading
    [] at = "incr_write" -> 0 .. FailThreshold
    [] OTHER -> {NONE}

KeysTyped ==
  /\ state \in {NONE, "CLOSED", "OPEN", "HALF_OPEN"}
  /\ fail_count \in 0 .. FailThreshold
  /\ opened_at \in Reading \cup {NONE}

CallersTyped ==
  /\ pc \in [Callers -> Labels]
  /\ seen \in [Callers -> Int \cup {NONE}]
  /\ \A c \in Callers : seen[c] \in Holds(pc[c])

SurroundingsTyped ==
  /\ store \in {"redis", "memory"}
  /\ lead \in [Callers -> 0 .. MaxLead]
  /\ source \in {"up", "down"}
  /\ crashes \in 0 .. MaxCrashes

Typed == KeysTyped /\ CallersTyped /\ SurroundingsTyped
-------------------------------------------------------------------------------
\* Three labels hold something.
LEMMA HoldsAt ==
  /\ \A at \in {"clock", "stamp"} : Holds(at) = Reading
  /\ Holds("incr_write") = 0 .. FailThreshold
  /\ \A at \in Labels \ {"clock", "stamp", "incr_write"} : Holds(at) = {NONE}
BY DEF Holds, Labels

\* What is held or stored of a clock or of the counter stays in its range.
LEMMA ReadingType ==
  /\ \A reading \in Reading : Older(reading) \in Reading
  /\ \A c \in Callers : lead[c] \in 0 .. MaxLead => Now(c) \in Reading
  /\ \A n \in Nat : AtMost(n, FailThreshold) \in 0 .. FailThreshold
  /\ Reading \subseteq Int
BY DEF Older, Reading, Now, AtMost

\* A step of a method leaves all callers well typed if what it is left holding fits.
LEMMA GotoTyped ==
  ASSUME Typed, NEW c \in Callers, NEW from, NEW to \in Labels, NEW v \in Holds(to),
         Goto(c, from, to, v)
  PROVE  CallersTyped' /\ SurroundingsTyped'
<1>1. v \in Int \cup {NONE}
  BY DEF Holds, Reading
<1>2. pc' = [pc EXCEPT ![c] = to] /\ seen' = [seen EXCEPT ![c] = v]
  BY DEF Goto
<1>3. pc' \in [Callers -> Labels] /\ seen' \in [Callers -> Int \cup {NONE}]
  BY <1>1, <1>2 DEF Typed, CallersTyped
<1>4. \A d \in Callers : seen'[d] \in Holds(pc'[d])
  <2> SUFFICES ASSUME NEW d \in Callers PROVE seen'[d] \in Holds(pc'[d])
    OBVIOUS
  <2>1. CASE d = c
    <3>1. seen'[d] = v /\ pc'[d] = to
      BY <1>2, <2>1 DEF Typed, CallersTyped
    <3> QED BY <3>1
  <2>2. CASE d # c
    <3>1. seen'[d] = seen[d] /\ pc'[d] = pc[d]
      BY <1>2, <2>2 DEF Typed, CallersTyped
    <3> QED BY <3>1 DEF Typed, CallersTyped
  <2> QED BY <2>1, <2>2
<1>5. SurroundingsTyped'
  BY DEF Typed, SurroundingsTyped, Goto, surroundings
<1> QED BY <1>3, <1>4, <1>5 DEF CallersTyped

LEMMA InitTyped == Init => Typed
<1> SUFFICES ASSUME Init PROVE Typed
  OBVIOUS
<1>1. KeysTyped
  BY DEF Init, KeysTyped
<1>2. CallersTyped
  BY DEF Init, CallersTyped, Holds, Labels
<1>3. SurroundingsTyped
  BY DEF Init, SurroundingsTyped
<1> QED BY <1>1, <1>2, <1>3 DEF Typed

\* A step of a method that leaves the caller holding nothing.
LEMMA PlainStepTyped ==
  ASSUME Typed, NEW c \in Callers, NEW from,
         NEW to \in Labels \ {"clock", "stamp", "incr_write"},
         Goto(c, from, to, NONE), KeysTyped'
  PROVE  Typed'
<1>1. NONE \in Holds(to)
  BY HoldsAt
<1> QED BY <1>1, GotoTyped DEF Typed

\* The steps of check(), of record_success() and of record_failure().
LEMMA CheckTyped ==
  ASSUME Typed, NEW c \in Callers,
         GetState(c) \/ GetOpenedAt(c) \/ ReadClock(c) \/ SetHalfOpen(c) \/ Reset(c)
  PROVE  Typed'
<1> USE DEF Typed, KeysTyped, keys
<1>1. CASE GetState(c)
  BY <1>1, PlainStepTyped DEF GetState, Labels
<1>2. CASE GetOpenedAt(c)
  <2>1. CASE opened_at = NONE
    BY <1>2, <2>1, PlainStepTyped DEF GetOpenedAt, Labels
  <2>2. CASE opened_at # NONE
    <3>1. opened_at \in Holds("clock")
      BY <2>2, HoldsAt
    <3>2. Goto(c, "get_opened", "clock", opened_at) /\ KeysTyped'
      BY <1>2, <2>2 DEF GetOpenedAt
    <3> QED BY <3>1, <3>2, GotoTyped DEF Labels
  <2> QED BY <2>1, <2>2
<1>3. CASE ReadClock(c)
  BY <1>3, PlainStepTyped DEF ReadClock, Labels
<1>4. CASE SetHalfOpen(c)
  BY <1>4, PlainStepTyped DEF SetHalfOpen, Labels
<1>5. CASE Reset(c)
  BY <1>5, PlainStepTyped DEF Reset, EmptyStore, Labels
<1> QED BY <1>1, <1>2, <1>3, <1>4, <1>5

LEMMA SuccessTyped ==
  ASSUME Typed, NEW c \in Callers, EndRequest(c) \/ SetClosed(c) \/ DeleteCounters(c)
  PROVE  Typed'
<1> USE DEF Typed, KeysTyped, keys
<1>1. CASE EndRequest(c)
  BY <1>1, PlainStepTyped DEF EndRequest, Labels
<1>2. CASE SetClosed(c)
  BY <1>2, PlainStepTyped DEF SetClosed, Labels
<1>3. CASE DeleteCounters(c)
  BY <1>3, PlainStepTyped DEF DeleteCounters, Labels
<1> QED BY <1>1, <1>2, <1>3

LEMMA CountTyped ==
  ASSUME Typed, NEW c \in Callers, NEW from, NEW count \in Nat, CountTo(c, from, count)
  PROVE  Typed'
<1>1. KeysTyped'
  BY ReadingType DEF Typed, KeysTyped, CountTo
<1> QED BY <1>1, PlainStepTyped DEF CountTo, Labels

LEMMA FailureTyped ==
  ASSUME Typed, NEW c \in Callers,
         Incr(c) \/ IncrWrite(c) \/ SetOpen(c) \/ Sample(c) \/ Stamp(c)
  PROVE  Typed'
<1>1. CASE Incr(c)
  <2>1. CASE CountTo(c, "incr", fail_count + 1)
    BY <2>1, CountTyped DEF Typed, KeysTyped
  <2>2. CASE Goto(c, "incr", "incr_write", fail_count) /\ UNCHANGED keys
    <3>1. fail_count \in Holds("incr_write")
      BY HoldsAt DEF Typed, KeysTyped
    <3> QED BY <2>2, <3>1, GotoTyped DEF Typed, KeysTyped, keys, Labels
  <2> QED BY <1>1, <2>1, <2>2 DEF Incr
<1>2. CASE IncrWrite(c)
  <2>1. seen[c] \in Nat
    BY <1>2, HoldsAt DEF IncrWrite, CountTo, Goto, Typed, CallersTyped
  <2> QED BY <1>2, <2>1, CountTyped DEF IncrWrite
<1>3. CASE SetOpen(c)
  BY <1>3, PlainStepTyped DEF SetOpen, Labels, Typed, KeysTyped
<1>4. CASE Sample(c)
  <2>1. Now(c) \in Holds("stamp")
    BY ReadingType, HoldsAt DEF Typed, SurroundingsTyped
  <2> QED BY <1>4, <2>1, GotoTyped DEF Sample, Typed, KeysTyped, keys, Labels
<1>5. CASE Stamp(c)
  <2>1. seen[c] \in Reading
    BY <1>5, HoldsAt DEF Stamp, Goto, Typed, CallersTyped
  <2> QED BY <1>5, <2>1, PlainStepTyped DEF Stamp, Labels, Typed, KeysTyped
<1> QED BY <1>1, <1>2, <1>3, <1>4, <1>5

\* Time passes for what is stored and for what is held.
LEMMA TickTyped ==
  ASSUME Typed, Tick
  PROVE  Typed'
<1>1. KeysTyped'
  BY ReadingType DEF Typed, KeysTyped, Tick
<1>2. pc' = pc /\ seen' = [c \in Callers |-> IF HoldsTime(c) THEN Older(seen[c]) ELSE seen[c]]
  BY DEF Tick
<1>3. \A c \in Callers : seen'[c] \in Holds(pc[c])
  <2> SUFFICES ASSUME NEW c \in Callers PROVE seen'[c] \in Holds(pc[c])
    OBVIOUS
  <2>1. CASE HoldsTime(c)
    <3>1. Holds(pc[c]) = Reading /\ seen'[c] = Older(seen[c])
      BY <1>2, <2>1, HoldsAt DEF HoldsTime
    <3> QED BY <3>1, ReadingType DEF Typed, CallersTyped
  <2>2. CASE ~HoldsTime(c)
    BY <1>2, <2>2 DEF Typed, CallersTyped
  <2> QED BY <2>1, <2>2
<1>4. \A c \in Callers : Holds(pc[c]) \subseteq Int \cup {NONE}
  BY DEF Holds, Reading
<1>5. CallersTyped'
  BY <1>2, <1>3, <1>4 DEF Typed, CallersTyped
<1>6. SurroundingsTyped'
  BY DEF Typed, SurroundingsTyped, Tick, surroundings
<1> QED BY <1>1, <1>5, <1>6 DEF Typed

\* A crash leaves the keys or empties them, and starts its callers afresh.
LEMMA CrashTyped ==
  ASSUME Typed, NEW c \in Callers, Crash(c)
  PROVE  Typed'
<1>1. KeysTyped'
  BY DEF Typed, KeysTyped, Crash, EmptyStore, keys
<1>2. SurroundingsTyped'
  <2>1. crashes' \in 0 .. MaxCrashes
    BY DEF Typed, SurroundingsTyped, Crash
  <2>2. lead' \in [Callers -> 0 .. MaxLead]
    BY DEF Typed, SurroundingsTyped, Crash
  <2> QED BY <2>1, <2>2 DEF Typed, SurroundingsTyped, Crash
<1>3. CallersTyped'
  <2>1. "idle" \in Labels /\ Holds("idle") = {NONE}
    BY HoldsAt DEF Labels
  <2>2. CASE store = "redis"
    <3>1. pc' = [pc EXCEPT ![c] = "idle"] /\ seen' = [seen EXCEPT ![c] = NONE]
      BY <2>2 DEF Crash
    <3>2. pc' \in [Callers -> Labels] /\ seen' \in [Callers -> Int \cup {NONE}]
      BY <2>1, <3>1 DEF Typed, CallersTyped
    <3>3. \A d \in Callers : seen'[d] \in Holds(pc'[d])
      <4> SUFFICES ASSUME NEW d \in Callers PROVE seen'[d] \in Holds(pc'[d])
        OBVIOUS
      <4>1. IF d = c THEN seen'[d] = NONE /\ pc'[d] = "idle"
                     ELSE seen'[d] = seen[d] /\ pc'[d] = pc[d]
        BY <3>1 DEF Typed, CallersTyped
      <4> QED BY <2>1, <4>1 DEF Typed, CallersTyped
    <3> QED BY <3>2, <3>3 DEF CallersTyped
  <2>3. CASE store # "redis"
    <3>1. pc' = [d \in Callers |-> "idle"] /\ seen' = [d \in Callers |-> NONE]
      BY <2>3 DEF Crash
    <3> QED BY <2>1, <3>1 DEF CallersTyped
  <2> QED BY <2>2, <2>3
<1> QED BY <1>1, <1>2, <1>3 DEF Typed

LEMMA NextTyped == Typed /\ [Next]_vars => Typed'
<1> SUFFICES ASSUME Typed, [Next]_vars PROVE Typed'
  OBVIOUS
<1>1. CASE UNCHANGED vars
  BY <1>1 DEF vars, keys, surroundings, Typed, KeysTyped, CallersTyped, SurroundingsTyped
<1>2. CASE SourceChanges
  BY <1>2 DEF SourceChanges, keys, Typed, KeysTyped, CallersTyped, SurroundingsTyped
<1> QED BY <1>1, <1>2, TickTyped, CrashTyped, CheckTyped, SuccessTyped, FailureTyped
        DEF Next, Step

\* The keys, the callers and their surroundings keep their types.
THEOREM StoreTyped == Spec => []Typed
BY InitTyped, NextTyped, PTL DEF Spec

\* Whatever the interleaving, the crashes and the clocks, the keys hold what the methods
\* can read back, and each caller holds what the next step of its method needs.
THEOREM TypeCorrect == Spec => []TypeOK
<1>1. Typed => TypeOK
  BY DEF Typed, KeysTyped, CallersTyped, SurroundingsTyped, TypeOK, Holds
<1> QED BY <1>1, StoreTyped, PTL
-------------------------------------------------------------------------------
(***************************************************************************)
(* One caller that has the store to itself: its clock is the only one, and *)
(* it does not die between two steps of a method.                          *)
(***************************************************************************)
Alone(only) == Callers = {only} /\ MaxLead = 0 /\ MaxCrashes = 0

\* What a method has read and not yet used is still in the store, and a half-finished
\* method has left the keys as its remaining steps expect them.
Held ==
  \A c \in Callers :
    LET at == pc[c]
    IN /\ at \notin {"reset", "reset_count", "reset_opened"}
       /\ at \in {"get_opened", "clock", "set_half", "sample", "stamp"} => state = "OPEN"
       /\ state = "OPEN" /\ at \notin {"sample", "stamp"} => opened_at # NONE
       /\ at = "clock" => seen[c] = opened_at
       /\ at = "set_half" => opened_at = OpenDuration
       /\ at = "incr_write" => seen[c] = fail_count
       /\ at \in {"del_count", "del_opened"} => state = "CLOSED"
       /\ at = "del_opened" => fail_count = 0

\* A step of the only caller.
LEMMA GotoAlone ==
  ASSUME NEW only, Alone(only), Typed, NEW c \in Callers, NEW from, NEW to, NEW v,
         Goto(c, from, to, v)
  PROVE  /\ c = only
         /\ pc[only] = from /\ pc'[only] = to /\ seen'[only] = v
BY DEF Alone, Goto, Typed, CallersTyped

\* With one clock, what it shows is how much time has passed.
LEMMA ClockAlone ==
  ASSUME NEW only, Alone(only), Typed
  PROVE  /\ Reading = 0 .. OpenDuration
         /\ Now(only) = 0
         /\ \A reading \in Reading : Elapsed(only, reading) = reading
<1>1. lead[only] \in 0 .. 0
  <2>1. only \in Callers /\ MaxLead = 0
    BY DEF Alone
  <2>2. lead[only] \in 0 .. MaxLead
    BY <2>1 DEF Typed, SurroundingsTyped
  <2> QED BY <2>1, <2>2
<1>2. lead[only] = 0 /\ MaxLead = 0
  BY <1>1 DEF Alone
<1>3. -MaxLead = 0 /\ -lead[only] = 0
  <2>1. \A n \in Int : -n = 0 - n
    OBVIOUS
  <2>2. MaxLead \in Int /\ lead[only] \in Int
    BY <1>1
  <2>3. -MaxLead = 0 - MaxLead /\ -lead[only] = 0 - lead[only]
    BY <2>1, <2>2
  <2> QED BY <1>2, <2>3
<1>4. Reading = 0 .. OpenDuration
  BY <1>3 DEF Reading
<1>5. \A reading \in 0 .. OpenDuration : reading + lead[only] = reading
  BY <1>2
<1> QED BY <1>3, <1>4, <1>5 DEF Now, Elapsed

LEMMA HeldInit == Init => Held
BY DEF Init, Held

\* Nobody else has touched the keys in between.
LEMMA HeldNext ==
  ASSUME NEW only, Alone(only)
  PROVE  Typed /\ Held /\ [Next]_vars => Held'
<1> SUFFICES ASSUME Typed, Held, [Next]_vars PROVE Held'
  OBVIOUS
<1> USE DEF Held
<1>one. only \in Callers /\ \A c \in Callers : c = only
  BY DEF Alone
<1>1. CASE UNCHANGED vars
  BY <1>1 DEF vars, keys
<1>2. CASE Tick
  <2>1. \A c \in Callers : pc[c] = "clock" => seen'[c] = opened_at'
    BY <1>2 DEF Tick, HoldsTime, Typed, KeysTyped, CallersTyped
  <2>2. opened_at = OpenDuration => opened_at' = OpenDuration
    BY <1>2 DEF Tick, Older
  <2>3. \A c \in Callers : pc[c] = "incr_write" => seen'[c] = seen[c]
    BY <1>2 DEF Tick, HoldsTime
  <2>4. opened_at # NONE => opened_at' # NONE
    BY <1>2, ReadingType DEF Tick, Typed, KeysTyped
  <2> QED BY <1>2, <2>1, <2>2, <2>3, <2>4 DEF Tick
<1>3. CASE SourceChanges
  BY <1>3 DEF SourceChanges, keys
<1>4. ASSUME NEW c \in Callers, Crash(c) PROVE FALSE
  BY <1>4 DEF Crash, Alone, Typed, SurroundingsTyped
<1>5. ASSUME NEW c \in Callers, GetState(c) \/ GetOpenedAt(c) PROVE Held'
  BY <1>one, <1>5, GotoAlone DEF GetState, GetOpenedAt, keys
<1>6. ASSUME NEW c \in Callers, ReadClock(c) PROVE Held'
  <2>1. pc[only] = "clock" /\ seen[only] = opened_at /\ opened_at \in Reading
    BY <1>one, <1>6, GotoAlone, HoldsAt DEF ReadClock, Typed, CallersTyped
  <2>2. Elapsed(only, seen[only]) = opened_at /\ opened_at \in 0 .. OpenDuration
    BY <2>1, ClockAlone
  <2>3. opened_at >= OpenDuration => opened_at = OpenDuration
    BY <2>2
  <2> QED BY <1>one, <1>6, <2>1, <2>2, <2>3, GotoAlone DEF ReadClock, keys
<1>7. ASSUME NEW c \in Callers, SetHalfOpen(c) \/ EndRequest(c) \/ SetClosed(c) PROVE Held'
  BY <1>one, <1>7, GotoAlone DEF SetHalfOpen, EndRequest, SetClosed, keys
<1>8. ASSUME NEW c \in Callers, Reset(c) PROVE FALSE
  BY <1>one, <1>8, GotoAlone DEF Reset
<1>9. ASSUME NEW c \in Callers, DeleteCounters(c) PROVE Held'
  BY <1>one, <1>9, GotoAlone DEF DeleteCounters
<1>10. ASSUME NEW c \in Callers, Incr(c) \/ IncrWrite(c) PROVE Held'
  BY <1>one, <1>10, GotoAlone DEF Incr, IncrWrite, CountTo, keys
<1>11. ASSUME NEW c \in Callers, SetOpen(c) \/ Sample(c) PROVE Held'
  BY <1>one, <1>11, GotoAlone DEF SetOpen, Sample, keys
<1>12. ASSUME NEW c \in Callers, Stamp(c) PROVE Held'
  <2>1. pc[only] = "stamp"
    BY <1>12, GotoAlone DEF Stamp
  <2>2. seen[only] \in Reading
    BY <1>one, <2>1, HoldsAt DEF Typed, CallersTyped
  <2>3. seen[only] # NONE
    BY <2>2, ReadingType
  <2> QED BY <1>one, <1>12, <2>3, GotoAlone DEF Stamp
<1> QED BY <1>1, <1>2, <1>3, <1>4, <1>5, <1>6, <1>7, <1>8, <1>9, <1>10, <1>11, <1>12
        DEF Next, Step
-------------------------------------------------------------------------------
\* How the keys and the caller look to a reader of CircuitBreaker, from where the caller
\* is in its method.
StateAt(at, s) == IF at \in {"set_open", "sample", "stamp"} THEN "OPEN" ELSE s
CountAt(at, n) == IF at \in {"del_count", "del_opened"} THEN 0 ELSE n
OpenedAt(at, o, held) ==
  IF at \in {"del_count", "del_opened"} THEN NONE
  ELSE IF at \notin {"set_open", "sample", "stamp"} THEN o
  ELSE IF at = "stamp" THEN held ELSE 0
CallerAt(at) ==
  [c \in Callers |-> IF at \in {"running", "set_closed", "incr", "incr_write"}
                     THEN "running" ELSE "idle"]

\* The refinement mapping, by name.
AtomicState == IF Opening THEN "OPEN" ELSE state
AtomicCount == IF Closing THEN 0 ELSE fail_count
AtomicOpenedAt == IF Closing THEN NONE
                  ELSE IF ~Opening THEN opened_at
                  ELSE IF \E c \in Callers : pc[c] = "stamp" THEN seen[Stamping]
                  ELSE 0
AtomicPc == [c \in Callers |->
               IF pc[c] \in {"running", "set_closed", "incr", "incr_write"}
               THEN "running" ELSE "idle"]

\* The mapping before and after a step, in terms of where the only caller is.
LEMMA MappingNow ==
  ASSUME NEW only, Alone(only)
  PROVE  /\ AtomicState = StateAt(pc[only], state)
         /\ AtomicCount = CountAt(pc[only], fail_count)
         /\ AtomicOpenedAt = OpenedAt(pc[only], opened_at, seen[only])
         /\ AtomicPc = CallerAt(pc[only])
<1>1. /\ Opening <=> pc[only] \in {"set_open", "sample", "stamp"}
      /\ Closing <=> pc[only] \in {"del_count", "del_opened"}
      /\ (\E c \in Callers : pc[c] = "stamp") <=> pc[only] = "stamp"
  BY DEF Alone, Opening, Closing
<1>2. pc[only] = "stamp" => Stamping = only
  BY DEF Alone, Stamping
<1> QED BY <1>1, <1>2 DEF Alone, AtomicState, AtomicCount, AtomicOpenedAt, AtomicPc,
                          StateAt, CountAt, OpenedAt, CallerAt

LEMMA MappingThen ==
  ASSUME NEW only, Alone(only)
  PROVE  /\ AtomicState' = StateAt(pc'[only], state')
         /\ AtomicCount' = CountAt(pc'[only], fail_count')
         /\ AtomicOpenedAt' = OpenedAt(pc'[only], opened_at', seen'[only])
         /\ AtomicPc' = CallerAt(pc'[only])
<1>1. /\ Opening' <=> pc'[only] \in {"set_open", "sample", "stamp"}
      /\ Closing' <=> pc'[only] \in {"del_count", "del_opened"}
      /\ (\E c \in Callers : pc'[c] = "stamp") <=> pc'[only] = "stamp"
  BY DEF Alone, Opening, Closing
<1>2. pc'[only] = "stamp" => Stamping' = only
  BY DEF Alone, Stamping
<1> QED BY <1>1, <1>2 DEF Alone, AtomicState, AtomicCount, AtomicOpenedAt, AtomicPc,
                          StateAt, CountAt, OpenedAt, CallerAt

LEMMA AtomicInit == Init => Atomic!Init
BY DEF Init, Atomic!Init, Opening, Closing

\* check() takes effect as it allows a request, record_success() as it writes CLOSED and
\* record_failure() as it writes the counter; every other access leaves no trace.
LEMMA AtomicNext ==
  ASSUME NEW only, Alone(only)
  PROVE  Typed /\ Held /\ [Next]_vars => [Atomic!Next]_(Atomic!vars)
<1> SUFFICES ASSUME Typed, Held, [Next]_vars
             PROVE  Atomic!Next \/ UNCHANGED <<AtomicState, AtomicCount, AtomicOpenedAt, AtomicPc>>
  BY DEF Atomic!vars, AtomicState, AtomicCount, AtomicOpenedAt, AtomicPc
<1> DEFINE at == pc[only]
           Stutters == UNCHANGED <<AtomicState, AtomicCount, AtomicOpenedAt, AtomicPc>>
<1>one. only \in Callers /\ \A c \in Callers : c = only
  BY DEF Alone
<1>now. /\ AtomicState = StateAt(at, state)
        /\ AtomicCount = CountAt(at, fail_count)
        /\ AtomicOpenedAt = OpenedAt(at, opened_at, seen[only])
        /\ AtomicPc = CallerAt(at)
  BY MappingNow
<1>after. /\ AtomicState' = StateAt(at', state')
          /\ AtomicCount' = CountAt(at', fail_count')
          /\ AtomicOpenedAt' = OpenedAt(at', opened_at', seen'[only])
          /\ AtomicPc' = CallerAt(at')
  BY MappingThen
<1>typed. /\ at \in Labels /\ Reading = 0 .. OpenDuration
          /\ fail_count \in 0 .. FailThreshold /\ opened_at \in Reading \cup {NONE}
          /\ seen[only] \in Holds(at)
          /\ state \in {NONE, "CLOSED", "OPEN", "HALF_OPEN"}
  BY <1>one, ClockAlone DEF Typed, KeysTyped, CallersTyped
<1> HIDE DEF at
<1>held. /\ at \notin {"reset", "reset_count", "reset_opened"}
         /\ at \in {"get_opened", "clock", "set_half", "sample", "stamp"} => state = "OPEN"
         /\ state = "OPEN" /\ at \notin {"sample", "stamp"} => opened_at # NONE
         /\ at = "clock" => seen[only] = opened_at
         /\ at = "set_half" => opened_at = OpenDuration
         /\ at = "incr_write" => seen[only] = fail_count
         /\ at \in {"del_count", "del_opened"} => state = "CLOSED"
         /\ at = "del_opened" => fail_count = 0
  BY <1>one DEF Held, at
<1> USE DEF StateAt, CountAt, OpenedAt, CallerAt
<1>1. CASE UNCHANGED vars
  BY <1>1, <1>now, <1>after DEF vars, keys, at
<1>2. CASE SourceChanges
  BY <1>2, <1>now, <1>after DEF SourceChanges, keys, at
<1>3. CASE Tick
  <2>0. at' = at /\ state' = state /\ fail_count' = fail_count
        /\ opened_at' = (IF opened_at = NONE THEN NONE ELSE Older(opened_at))
        /\ (at \in {"clock", "stamp"} => seen'[only] = Older(seen[only]))
    BY <1>3, <1>one DEF Tick, HoldsTime, at
  <2>1. AtomicState' = AtomicState /\ AtomicCount' = AtomicCount /\ AtomicPc' = AtomicPc
    BY <1>now, <1>after, <2>0
  <2>2. AtomicOpenedAt' = AtomicOpenedAt \/ 
        /\ AtomicOpenedAt # NONE /\ AtomicOpenedAt < OpenDuration
        /\ AtomicOpenedAt' = AtomicOpenedAt + 1
    <3>1. CASE at = "stamp"
      <4>1. seen[only] \in 0 .. OpenDuration
        BY <1>typed, <3>1, HoldsAt
      <4>2. AtomicOpenedAt = seen[only] /\ AtomicOpenedAt' = Older(seen[only])
        BY <1>now, <1>after, <2>0, <3>1
      <4> QED BY <4>1, <4>2 DEF Older
    <3>2. CASE at \in {"set_open", "sample", "del_count", "del_opened"}
      BY <1>now, <1>after, <2>0, <3>2
    <3>3. CASE at \notin {"set_open", "sample", "stamp", "del_count", "del_opened"}
      <4>1. AtomicOpenedAt = opened_at /\ AtomicOpenedAt' = opened_at'
        BY <1>now, <1>after, <2>0, <3>3
      <4> QED BY <1>typed, <2>0, <4>1 DEF Older
    <3> QED BY <3>1, <3>2, <3>3
  <2>3. CASE AtomicOpenedAt' # AtomicOpenedAt
    <3>1. Atomic!Tick
      BY <2>1, <2>2, <2>3 DEF Atomic!Tick, AtomicState, AtomicCount, AtomicOpenedAt, AtomicPc
    <3> QED BY <3>1 DEF Atomic!Next
  <2> QED BY <2>1, <2>3
<1>4. ASSUME NEW c \in Callers, Crash(c) PROVE FALSE
  BY <1>4 DEF Crash, Alone, Typed, SurroundingsTyped
<1>5. ASSUME NEW c \in Callers, GetState(c) PROVE Stutters \/ Atomic!Next
  <2>1. CASE state = "OPEN"
    <3>1. at = "idle" /\ at' = "get_opened" /\ UNCHANGED keys
      BY <1>5, <2>1, GotoAlone DEF GetState, at
    <3> QED BY <1>now, <1>after, <3>1 DEF keys
  <2>2. CASE state # "OPEN"
    <3>1. at = "idle" /\ at' = "running" /\ UNCHANGED keys
      BY <1>5, <2>2, GotoAlone DEF GetState, at
    <3>2. /\ AtomicState \in {NONE, "CLOSED", "HALF_OPEN"}
          /\ AtomicPc = [d \in Callers |-> "idle"]
          /\ AtomicPc' = [d \in Callers |-> "running"]
          /\ AtomicState' = AtomicState /\ AtomicCount' = AtomicCount
          /\ AtomicOpenedAt' = AtomicOpenedAt
      BY <1>now, <1>after, <1>typed, <2>2, <3>1 DEF keys
    <3>3. AtomicPc' = [AtomicPc EXCEPT ![only] = "running"] /\ AtomicPc[only] = "idle"
      BY <1>one, <3>2
    <3>4. Atomic!CheckAllows(only)
      BY <3>2, <3>3
         DEF Atomic!CheckAllows, Atomic!Allow, Atomic!store, AtomicState, AtomicCount,
             AtomicOpenedAt, AtomicPc
    <3> QED BY <1>one, <3>4 DEF Atomic!Next
  <2> QED BY <2>1, <2>2
<1>6. ASSUME NEW c \in Callers, GetOpenedAt(c) \/ ReadClock(c) PROVE Stutters
  <2>1. /\ at \in {"get_opened", "clock"} /\ at' \in {"reset", "clock", "set_half", "idle"}
        /\ UNCHANGED keys
    BY <1>6, GotoAlone DEF GetOpenedAt, ReadClock, at
  <2> QED BY <1>now, <1>after, <2>1 DEF keys
<1>7. ASSUME NEW c \in Callers, SetHalfOpen(c) PROVE Atomic!Next
  <2>1. at = "set_half" /\ at' = "running" /\ state' = "HALF_OPEN"
        /\ UNCHANGED <<fail_count, opened_at>>
    BY <1>7, GotoAlone DEF SetHalfOpen, at
  <2>2. state = "OPEN" /\ opened_at = OpenDuration /\ opened_at # NONE
    BY <1>held, <2>1
  <2>3. /\ AtomicState = "OPEN" /\ AtomicState' = "HALF_OPEN"
        /\ AtomicOpenedAt # NONE /\ AtomicOpenedAt >= OpenDuration
        /\ AtomicOpenedAt' = AtomicOpenedAt /\ AtomicCount' = AtomicCount
        /\ AtomicPc = [d \in Callers |-> "idle"]
        /\ AtomicPc' = [d \in Callers |-> "running"]
    BY <1>now, <1>after, <2>1, <2>2
  <2>4. AtomicPc' = [AtomicPc EXCEPT ![only] = "running"] /\ AtomicPc[only] = "idle"
    BY <1>one, <2>3
  <2>5. Atomic!CheckOpen(only)
    BY <2>3, <2>4
       DEF Atomic!CheckOpen, Atomic!Allow, AtomicState, AtomicCount, AtomicOpenedAt,
           AtomicPc
  <2> QED BY <1>one, <2>5 DEF Atomic!Next
<1>8. ASSUME NEW c \in Callers, Reset(c) PROVE FALSE
  <2>1. at \in {"reset", "reset_count", "reset_opened"}
    BY <1>8, GotoAlone DEF Reset, at
  <2> QED BY <1>held, <2>1
<1>9. ASSUME NEW c \in Callers, EndRequest(c) PROVE Stutters
  <2>1. at = "running" /\ at' \in {"set_closed", "incr"} /\ UNCHANGED keys
    BY <1>9, GotoAlone DEF EndRequest, at
  <2> QED BY <1>now, <1>after, <2>1 DEF keys
<1>10. ASSUME NEW c \in Callers, SetClosed(c) PROVE Atomic!Next
  <2>1. at = "set_closed" /\ at' = "del_count" /\ state' = "CLOSED"
    BY <1>10, GotoAlone DEF SetClosed, at
  <2>2. /\ AtomicState' = "CLOSED" /\ AtomicCount' = 0 /\ AtomicOpenedAt' = NONE
        /\ AtomicPc = [d \in Callers |-> "running"]
        /\ AtomicPc' = [d \in Callers |-> "idle"]
    BY <1>now, <1>after, <2>1
  <2>3. AtomicPc' = [AtomicPc EXCEPT ![only] = "idle"] /\ AtomicPc[only] = "running"
    BY <1>one, <2>2
  <2>4. Atomic!RecordSuccess(only)
    BY <2>2, <2>3
       DEF Atomic!RecordSuccess, Atomic!Finish, AtomicState, AtomicCount, AtomicOpenedAt,
           AtomicPc
  <2> QED BY <1>one, <2>4 DEF Atomic!Next
<1>11. ASSUME NEW c \in Callers, DeleteCounters(c) PROVE Stutters
  <2>1. /\ at \in {"del_count", "del_opened"} /\ state' = state
        /\ at' = "del_opened" \/ (at' = "idle" /\ fail_count' = 0 /\ opened_at' = NONE)
    BY <1>11, <1>held, GotoAlone DEF DeleteCounters, at
  <2> QED BY <1>now, <1>after, <2>1
<1>12. ASSUME NEW c \in Callers, NEW from \in {"incr", "incr_write"},
              CountTo(c, from, fail_count + 1) PROVE Atomic!Next
  <2> DEFINE count == fail_count + 1
  <2>1. /\ at \in {"incr", "incr_write"}
        /\ at' = IF count >= FailThreshold THEN "set_open" ELSE "idle"
        /\ fail_count' = IF count >= FailThreshold THEN FailThreshold ELSE count
        /\ UNCHANGED <<state, opened_at>>
    <3>1. /\ at = from
          /\ at' = IF count >= FailThreshold THEN "set_open" ELSE "idle"
      BY <1>12, GotoAlone DEF CountTo, at
    <3>2. fail_count' = IF count >= FailThreshold THEN FailThreshold ELSE count
      BY <1>12, <1>typed DEF CountTo, AtMost
    <3> QED BY <1>12, <3>1, <3>2 DEF CountTo
  <2> HIDE DEF count
  <2>2. /\ AtomicPc = [d \in Callers |-> "running"]
        /\ AtomicPc' = [d \in Callers |-> "idle"]
        /\ AtomicCount = fail_count /\ AtomicState = state /\ AtomicOpenedAt = opened_at
        /\ AtomicCount' = IF count >= FailThreshold THEN FailThreshold ELSE count
        /\ AtomicState' = IF count >= FailThreshold THEN "OPEN" ELSE state
        /\ AtomicOpenedAt' = IF count >= FailThreshold THEN 0 ELSE opened_at
    BY <1>now, <1>after, <2>1
  <2>3. AtomicPc' = [AtomicPc EXCEPT ![only] = "idle"] /\ AtomicPc[only] = "running"
    BY <1>one, <2>2
  <2>4. Atomic!RecordFailure(only)
    BY <2>2, <2>3
       DEF Atomic!RecordFailure, Atomic!Finish, AtomicState, AtomicCount, AtomicOpenedAt,
           AtomicPc, count
  <2> QED BY <1>one, <2>4 DEF Atomic!Next
<1>13. ASSUME NEW c \in Callers, Incr(c) PROVE Stutters \/ Atomic!Next
  <2>1. CASE Goto(c, "incr", "incr_write", fail_count) /\ UNCHANGED keys
    <3>1. at = "incr" /\ at' = "incr_write" /\ UNCHANGED keys
      BY <2>1, GotoAlone DEF at
    <3> QED BY <1>now, <1>after, <3>1 DEF keys
  <2> QED BY <1>12, <1>13, <2>1 DEF Incr
<1>14. ASSUME NEW c \in Callers, IncrWrite(c) PROVE Atomic!Next
  <2>1. seen[c] = fail_count
    BY <1>one, <1>14, <1>held, GotoAlone DEF IncrWrite, CountTo, at
  <2> QED BY <1>12, <1>14, <2>1 DEF IncrWrite
<1>15. ASSUME NEW c \in Callers, SetOpen(c) \/ Sample(c) \/ Stamp(c) PROVE Stutters
  <2>1. CASE SetOpen(c)
    <3>1. at = "set_open" /\ at' = "sample" /\ UNCHANGED <<fail_count, opened_at>>
      BY <2>1, GotoAlone DEF SetOpen, at
    <3> QED BY <1>now, <1>after, <3>1
  <2>2. CASE Sample(c)
    <3>1. at = "sample" /\ at' = "stamp" /\ seen'[only] = 0 /\ UNCHANGED keys
      BY <1>one, <2>2, GotoAlone, ClockAlone DEF Sample, at
    <3> QED BY <1>now, <1>after, <3>1 DEF keys
  <2>3. CASE Stamp(c)
    <3>1. at = "stamp" /\ at' = "idle" /\ opened_at' = seen[only] /\ UNCHANGED <<state, fail_count>>
      BY <1>one, <2>3, GotoAlone DEF Stamp, at
    <3> QED BY <1>now, <1>after, <1>held, <3>1
  <2> QED BY <1>15, <2>1, <2>2, <2>3
<1> QED BY <1>1, <1>2, <1>3, <1>4, <1>5, <1>6, <1>7, <1>8, <1>9, <1>10, <1>11, <1>13, <1>14, <1>15
        DEF Next, Step

\* A caller that has the store to itself sees atomic methods, whichever store it is.
THEOREM AloneIsAtomic ==
  ASSUME NEW only, Alone(only)
  PROVE  Spec => ImplementsAtomic
<1>1. Init => Atomic!Init /\ Held
  BY AtomicInit, HeldInit
<1>2. Typed /\ Held /\ [Next]_vars => Held'
  BY HeldNext
<1>3. Typed /\ Held /\ [Next]_vars => [Atomic!Next]_(Atomic!vars)
  BY AtomicNext
<1> QED BY <1>1, <1>2, <1>3, StoreTyped, PTL DEF Spec, ImplementsAtomic, Atomic!Spec
-------------------------------------------------------------------------------
(***************************************************************************)
(* What CircuitBreakerProofs shows of the atomic breaker then holds of the *)
(* store's as well.                                                        *)
(***************************************************************************)
Proved == INSTANCE CircuitBreakerProofs WITH
            state <- AtomicState, fail_count <- AtomicCount,
            opened_at <- AtomicOpenedAt, pc <- AtomicPc

\* The two instances differ only in that one names the terms of the mapping.
LEMMA SameBreaker ==
  /\ Atomic!Init => Proved!Init
  /\ [Atomic!Next]_(Atomic!vars) => [Proved!Next]_(Proved!vars)
BY DEF AtomicState, AtomicCount, AtomicOpenedAt, AtomicPc,
       Atomic!Init, Atomic!Next, Atomic!Tick, Atomic!CheckAllows, Atomic!CheckOpen,
       Atomic!CheckRefuses, Atomic!RecordSuccess, Atomic!RecordFailure, Atomic!Abandon,
       Atomic!Allow, Atomic!Finish, Atomic!store, Atomic!vars,
       Proved!Init, Proved!Next, Proved!Tick, Proved!CheckAllows, Proved!CheckOpen,
       Proved!CheckRefuses, Proved!RecordSuccess, Proved!RecordFailure, Proved!Abandon,
       Proved!Allow, Proved!Finish, Proved!store, Proved!vars

LEMMA SameDocstring ==
  /\ Proved!Docstring!FsmInit => Atomic!Docstring!FsmInit
  /\ [Proved!Docstring!FsmNext]_(Proved!Docstring!fsmVars)
       => [Atomic!Docstring!FsmNext]_(Atomic!Docstring!fsmVars)
BY DEF AtomicState, AtomicCount, AtomicOpenedAt, AtomicPc,
       Atomic!DocState, Atomic!DocAge, Proved!DocState, Proved!DocAge,
       Atomic!Docstring!fsmVars, Atomic!Docstring!FsmInit, Atomic!Docstring!FsmNext,
       Atomic!Docstring!FsmTick, Atomic!Docstring!FsmSuccess, Atomic!Docstring!FsmFailure,
       Atomic!Docstring!FsmTrip, Atomic!Docstring!FsmElapse,
       Atomic!Docstring!FsmLateSuccess, Atomic!Docstring!FsmLateFailure,
       Proved!Docstring!fsmVars, Proved!Docstring!FsmInit, Proved!Docstring!FsmNext,
       Proved!Docstring!FsmTick, Proved!Docstring!FsmSuccess, Proved!Docstring!FsmFailure,
       Proved!Docstring!FsmTrip, Proved!Docstring!FsmElapse,
       Proved!Docstring!FsmLateSuccess, Proved!Docstring!FsmLateFailure

\* The invariants of the atomic breaker that its theorem about the docstring rests on.
AtomicInv == Proved!TypeOK /\ Proved!StoreConsistent /\ Proved!NoneLate

\* One step at a time, with either store, a caller that has it to itself is the
\* three-state machine of the module docstring.
THEOREM AloneIsDocstring ==
  ASSUME NEW only, Alone(only)
  PROVE  Spec => ImplementsDocstring
<1>1. Init => Held /\ Proved!Init
  BY AtomicInit, HeldInit, SameBreaker
<1>2. Proved!Init => AtomicInv /\ Atomic!Docstring!FsmInit
  <2>1. Proved!Init => Proved!TypeOK /\ Proved!StoreConsistent
    BY Proved!TypeInit, Proved!ConsistentInit
  <2>2. Proved!Init => Proved!NoneLate /\ Proved!Docstring!FsmInit
    BY DEF Proved!Init, Proved!NoneLate, Proved!Docstring!FsmInit, Proved!DocState, Proved!DocAge
  <2> QED BY <2>1, <2>2, SameDocstring DEF AtomicInv
<1>3. Typed /\ Held /\ [Next]_vars => Held' /\ [Proved!Next]_(Proved!vars)
  BY HeldNext, AtomicNext, SameBreaker
<1>4. AtomicInv /\ [Proved!Next]_(Proved!vars) => AtomicInv'
  <2> SUFFICES ASSUME AtomicInv, [Proved!Next]_(Proved!vars) PROVE AtomicInv'
    OBVIOUS
  <2>1. Proved!TypeOK'
    BY Proved!TypeNext DEF AtomicInv
  <2>2. Proved!StoreConsistent'
    BY Proved!ConsistentNext DEF AtomicInv
  <2>3. Proved!NoneLate'
    BY Proved!NoneLateNext DEF AtomicInv, Alone
  <2> QED BY <2>1, <2>2, <2>3 DEF AtomicInv
<1>5. AtomicInv /\ [Proved!Next]_(Proved!vars)
        => [Atomic!Docstring!FsmNext]_(Atomic!Docstring!fsmVars)
  BY Proved!DocstringNext, SameDocstring DEF AtomicInv
<1> QED BY <1>1, <1>2, <1>3, <1>4, <1>5, StoreTyped, PTL
        DEF Spec, ImplementsDocstring, Atomic!ImplementsDocstring, Atomic!Docstring!FsmSpec
===============================================================================
