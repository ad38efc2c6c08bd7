----------------------- MODULE SecurityMonitoringProofs -----------------------
(***************************************************************************)
(* Theorems about SecurityMonitoring, for every configuration, every set   *)
(* of processes and all bounds.                                            *)
(***************************************************************************)
EXTENDS SecurityMonitoring, NaturalsInduction, WellFoundedInduction, TLAPS

-------------------------------------------------------------------------------
(* Arithmetic of the slots and of the attempts.                            *)

LEMMA QuotientMonotone ==
  ASSUME NEW m \in Nat, NEW n \in Nat, NEW h \in Nat, h > 0, m <= n
  PROVE  m \div h \in Nat /\ n \div h \in Nat /\ m \div h <= n \div h
<1> DEFINE q == m \div h
           r == n \div h
           x == m % h
           y == n % h
<1>1. /\ q \in Nat /\ r \in Nat /\ x \in Nat /\ y \in Nat
      /\ x < h /\ y < h
      /\ m = h * q + x /\ n = h * r + y
  OBVIOUS
<1> HIDE DEF q, r, x, y
<1>2. q <= r
  <2> SUFFICES ASSUME q > r PROVE FALSE
    BY <1>1
  <2>1. h * q >= h * (r + 1)
    BY <1>1
  <2>2. h * (r + 1) = h * r + h
    BY <1>1
  <2>3. m > n
    BY <1>1, <2>1, <2>2
  <2> QED BY <2>3
<1> QED BY <1>1, <1>2 DEF q, r

LEMMA SlotBounds ==
  ASSUME NEW t \in 0..MaxTime
  PROVE  SlotOf(t) \in Slot
<1>1. t \in Nat /\ MaxTime \in Nat /\ HourTicks \in Nat /\ HourTicks > 0 /\ t <= MaxTime
  BY MonitoringAssumption
<1> QED BY <1>1, QuotientMonotone DEF SlotOf, Slot

LEMMA LeastNatural ==
  ASSUME NEW T \in SUBSET Nat, T # {}
  PROVE  \E x \in T : \A y \in T : x <= y
<1> DEFINE R == {pair \in Nat \X Nat : pair[1] < pair[2]}
<1>1. IsWellFoundedOn(R, Nat)
  BY NatLessThanWellFounded, Zenon DEF OpToRel
<1>2. PICK x \in T : \A y \in T : ~(<<y, x>> \in R)
  <2> HIDE DEF R
  <2> QED BY <1>1, WFMin
<1>3. ASSUME NEW y \in T PROVE x <= y
  <2>1. x \in Nat /\ y \in Nat /\ <<y, x>> \notin R
    BY <1>2
  <2>2. ~(y < x)
    BY <2>1
  <2> QED BY <2>1, <2>2
<1> QED BY <1>3

(* A bounded set of attempts has a largest one: the distances from the     *)
(* bound have a least one.                                                 *)
LEMMA LastAttemptIs ==
  ASSUME TypeOK, NEW s \in Slot
  PROVE  /\ LastAttempt(s) \in 0..MaxAttempt
         /\ LastAttempt(s) \in Attempts(s) \cup {0}
         /\ \A n \in Attempts(s) : n <= LastAttempt(s)
<1> DEFINE S == Attempts(s) \cup {0}
           T == {MaxAttempt - n : n \in S}
<1>1. MaxAttempt \in Nat
  BY MonitoringAssumption
<1>2. Attempts(s) \subseteq 1..MaxAttempt
  BY DEF TypeOK, Run, Attempts, RunsOf
<1>3. S \subseteq 0..MaxAttempt
  BY <1>1, <1>2
<1>4. T \in SUBSET Nat /\ T # {}
  <2>1. \A n \in S : MaxAttempt - n \in Nat
    BY <1>1, <1>3
  <2>2. MaxAttempt - 0 \in T
    OBVIOUS
  <2> QED BY <2>1, <2>2
<1>5. \E x \in T : \A y \in T : x <= y
  <2> HIDE DEF T
  <2> QED BY <1>4, LeastNatural
<1>6. \E n \in S : \A m \in S : m <= n
  <2>1. PICK n \in S : \A m \in S : MaxAttempt - n <= MaxAttempt - m
    BY <1>5
  <2>2. ASSUME NEW m \in S PROVE m <= n
    <3>1. MaxAttempt - n <= MaxAttempt - m
      BY <2>1
    <3>2. m \in Nat /\ n \in Nat
      BY <1>3
    <3> HIDE DEF S
    <3> QED BY <1>1, <3>1, <3>2
  <2> QED BY <2>2
<1>7. \E n \in Attempts(s) \cup {0} : \A m \in Attempts(s) : m <= n
  BY <1>6
<1> QED BY <1>3, <1>7 DEF LastAttempt

-------------------------------------------------------------------------------
(* Types.  What a call has set when it is at a place.                      *)

Shape(c) ==
    /\ c.pc = "sync" => c.todo \in 1..Len(Inventory)
    /\ c.pc \in {"insert", "collect", "store", "bind"} => c.attempt \in 1..MaxAttempt
    /\ c.pc = "bind" => c.item \in Asset
    /\ c.pc = "windows" => c.todo \in 1..3
    /\ c.pc = "write" => c.todo = 1
    /\ c.pc \in Reporting => c.attempt \in 1..MaxArchive
    /\ c.pc \in Archiving \cup {"report"} => c.todo \in PeriodIndex

TypeInvariant == TypeOK /\ \A p \in Proc : Shape(call[p])

LEMMA Constants ==
  /\ MaxTime \in Nat /\ MaxAttempt \in Nat /\ MaxArchive \in Nat /\ MaxArchive >= 1
  /\ MaxCalls \in Nat
  /\ Len(Inventory) \in Nat /\ Len(Inventory) >= 1
  /\ \A i \in 1..Len(Inventory) : Inventory[i] \in Asset /\ Inventory[i] \in Configured
  /\ PeriodIndex = 1..Len(Period) /\ Len(Period) \in Nat /\ 1 \in PeriodIndex
  /\ Leftover \subseteq Asset
BY MonitoringAssumption, ReportingAssumption DEF PeriodIndex, Configured

LEMMA IdleIsCall == Idle \in Call /\ Shape(Idle)
BY Constants DEF Idle, Call, Shape, HoldsLock, Reporting, Archiving, RunKey

LEMMA CallFrame ==
  ASSUME TypeInvariant, NEW p \in Proc, NEW c \in Call, Shape(c),
         call' = [call EXCEPT ![p] = c]
  PROVE  /\ call' \in [Proc -> Call]
         /\ \A q \in Proc : Shape(call'[q])
         /\ call'[p] = c
         /\ \A q \in Proc : q # p => call'[q] = call[q]
<1>1. call \in [Proc -> Call] /\ \A q \in Proc : Shape(call[q])
  BY DEF TypeInvariant, TypeOK
<1>2. call'[p] = c /\ \A q \in Proc : q # p => call'[q] = call[q]
  BY <1>1
<1>3. call' \in [Proc -> Call]
  BY <1>1
<1>4. ASSUME NEW q \in Proc PROVE Shape(call'[q])
  <2>1. CASE q = p BY <1>2, <2>1
  <2>2. CASE q # p BY <1>1, <1>2, <2>2
  <2> QED BY <2>1, <2>2
<1> QED BY <1>2, <1>3, <1>4

LEMMA GotoIs ==
  ASSUME TypeInvariant, NEW p \in Proc, NEW x, Goto(p, x)
  PROVE  call' = [call EXCEPT ![p] = [call[p] EXCEPT !.pc = x]]
BY DEF Goto, TypeInvariant, TypeOK

LEMMA TypeBefore ==
  ASSUME TypeInvariant, NEW p \in Proc, UNCHANGED reportVars,
         \/ Begin(p, "hourly") \/ Begin(p, "initialize") \/ Upsert(p)
         \/ ListIds(p) \/ ReadRow(p) \/ ReadClock(p)
  PROVE  TypeInvariant'
<1>1. call[p] \in Call /\ Shape(call[p])
  BY DEF TypeInvariant, TypeOK
<1>2. ASSUME NEW use \in {"hourly", "initialize"}, Begin(p, use) PROVE TypeInvariant'
  <2> DEFINE c == [Idle EXCEPT !.pc = "sync", !.use = use, !.todo = 1]
  <2>1. call' = [call EXCEPT ![p] = c]
    BY <1>2 DEF Begin, Enter
  <2>2. c \in Call /\ Shape(c)
    <3>1. c \in Call
      BY IdleIsCall DEF Call
    <3>2. c.pc = "sync" /\ c.todo = 1
      BY IdleIsCall DEF Call
    <3> HIDE DEF c
    <3> QED BY <3>1, <3>2, Constants DEF Shape, Reporting, Archiving
  <2>3. begun' \in 0..MaxCalls
    BY <1>2, Constants DEF Begin, Enter, TypeInvariant, TypeOK
  <2> HIDE DEF c
  <2> QED BY <1>2, <2>1, <2>2, <2>3, CallFrame
        DEF Begin, AfterDisable, TypeInvariant, TypeOK, reportVars
<1>3. CASE Upsert(p)
  <2>1. AfterUpsert(p) \in Call /\ Shape(AfterUpsert(p))
    <3>1. CASE call[p].todo < Len(Inventory)
      <4>1. /\ call[p].pc = "sync" /\ call[p].todo \in Nat
            /\ call[p].todo + 1 \in 1..Len(Inventory)
        BY <1>1, <1>3, <3>1, Constants DEF Upsert, At, Call, Shape
      <4>2. AfterUpsert(p) = [call[p] EXCEPT !.todo = @ + 1]
        BY <3>1 DEF AfterUpsert
      <4>3. AfterUpsert(p) \in Call
        BY <1>1, <4>1, <4>2 DEF Call
      <4>4. AfterUpsert(p).pc = "sync" /\ AfterUpsert(p).todo = call[p].todo + 1
        BY <1>1, <4>1, <4>2 DEF Call
      <4> QED BY <4>1, <4>3, <4>4 DEF Shape, Reporting, Archiving
    <3>2. CASE ~(call[p].todo < Len(Inventory)) /\ call[p].use = "initialize"
      BY <3>2, IdleIsCall DEF AfterUpsert
    <3>3. CASE ~(call[p].todo < Len(Inventory)) /\ call[p].use # "initialize"
      BY <1>1, <3>3 DEF AfterUpsert, Call, Shape, Reporting, Archiving, TypeInvariant, TypeOK
    <3> QED BY <3>1, <3>2, <3>3
  <2>2. enabled' \subseteq Asset
    BY <1>1, <1>3, Constants DEF Upsert, At, Shape, TypeInvariant, TypeOK
  <2> QED BY <1>3, <2>1, <2>2, CallFrame DEF Upsert, TypeInvariant, TypeOK, reportVars
<1>4. CASE ListIds(p)
  <2> DEFINE c == [call[p] EXCEPT !.assets = enabled, !.left = enabled, !.pc = "rows"]
  <2>1. call' = [call EXCEPT ![p] = c]
    BY <1>4 DEF ListIds, TypeInvariant, TypeOK
  <2>2. c \in Call /\ Shape(c)
    BY <1>4, <1>1 DEF ListIds, At, Call, Shape, TypeInvariant, TypeOK, HoldsLock, Reporting, Archiving, RunKey
  <2> HIDE DEF c
  <2> QED BY <1>4, <2>1, <2>2, CallFrame DEF ListIds, TypeInvariant, TypeOK, reportVars
<1>5. CASE ReadRow(p)
  <2> DEFINE a == CHOOSE a \in call[p].left : TRUE
             c == [call[p] EXCEPT !.left = @ \ {a},
                                  !.active = IF a \in enabled THEN @ \cup {a} ELSE @]
  <2>1. call' = [call EXCEPT ![p] = c]
    BY <1>5 DEF ReadRow, TypeInvariant, TypeOK
  <2>2. a \in call[p].left
    BY <1>5 DEF ReadRow
  <2>3. c \in Call /\ Shape(c)
    <3> HIDE DEF a
    <3> QED BY <1>1, <1>5, <2>2 DEF ReadRow, At, Call, Shape, Reporting, Archiving
  <2> HIDE DEF c
  <2> QED BY <1>5, <2>1, <2>3, CallFrame DEF ReadRow, TypeInvariant, TypeOK, reportVars
<1>6. CASE ReadClock(p)
  <2> DEFINE c == [call[p] EXCEPT !.started = clock, !.pc = "acquire"]
  <2>1. call' = [call EXCEPT ![p] = c]
    BY <1>6 DEF ReadClock, TypeInvariant, TypeOK
  <2>2. c \in Call /\ Shape(c)
    BY <1>6, <1>1 DEF ReadClock, At, Call, Shape, TypeInvariant, TypeOK, HoldsLock, Reporting, Archiving, RunKey
  <2> HIDE DEF c
  <2> QED BY <1>6, <2>1, <2>2, CallFrame DEF ReadClock, TypeInvariant, TypeOK, reportVars
<1> QED BY <1>2, <1>3, <1>4, <1>5, <1>6

LEMMA SlotInIs ==
  ASSUME TypeInvariant, NEW p \in Proc
  PROVE  SlotIn(p) \in Slot
<1>1. call[p].sched \in 0..MaxTime
  BY DEF TypeInvariant, TypeOK, Call
<1> QED BY <1>1, SlotBounds DEF SlotIn

LEMMA LeaveTyped ==
  ASSUME TypeInvariant, NEW p \in Proc, Leave(p)
  PROVE  /\ call' \in [Proc -> Call]
         /\ \A q \in Proc : Shape(call'[q])
<1> DEFINE c == [Idle EXCEPT !.pc = "release", !.sched = call[p].sched,
                             !.started = call[p].started]
<1>1. call[p] \in Call
  BY DEF TypeInvariant, TypeOK
<1>2. c \in Call /\ c.pc = "release"
  BY <1>1, IdleIsCall DEF Call
<1>3. Shape(c)
  <2> HIDE DEF c
  <2> QED BY <1>2 DEF Shape, Reporting, Archiving
<1>4. call' = [call EXCEPT ![p] = c]
  BY DEF Leave
<1> HIDE DEF c
<1> QED BY <1>2, <1>3, <1>4, CallFrame

LEMMA IdleTyped ==
  ASSUME TypeInvariant, NEW p \in Proc, call' = [call EXCEPT ![p] = Idle]
  PROVE  /\ call' \in [Proc -> Call]
         /\ \A q \in Proc : Shape(call'[q])
BY IdleIsCall, CallFrame

LEMMA TypeLock ==
  ASSUME TypeInvariant, NEW p \in Proc, UNCHANGED reportVars,
         Acquire(p) \/ Replay(p) \/ Release(p) \/ HourlyRaises(p)
  PROVE  TypeInvariant'
<1>1. call[p] \in Call /\ Shape(call[p]) /\ SlotIn(p) \in Slot
  BY SlotInIs DEF TypeInvariant, TypeOK
<1>2. CASE Acquire(p)
  <2> DEFINE c == [call[p] EXCEPT !.pc = "locked"]
  <2>1. call' = [call EXCEPT ![p] = c]
    BY <1>2 DEF Acquire, Goto, TypeInvariant, TypeOK
  <2>2. c \in Call /\ Shape(c)
    BY <1>2, <1>1 DEF Acquire, At, Call, Shape, TypeInvariant, TypeOK, HoldsLock, Reporting, Archiving, RunKey
  <2>3. lock' \in [Slot -> {None} \cup [owner : Proc, at : 0..MaxTime]]
    <3>1. [owner |-> p, at |-> call[p].started] \in [owner : Proc, at : 0..MaxTime]
      BY <1>1 DEF Call
    <3> QED BY <1>1, <1>2, <3>1 DEF Acquire, TypeInvariant, TypeOK
  <2>4. outlived' \subseteq Slot
    BY <1>1, <1>2 DEF Acquire, TypeInvariant, TypeOK
  <2> HIDE DEF c
  <2> QED BY <1>2, <2>1, <2>2, <2>3, <2>4, CallFrame DEF Acquire, TypeInvariant, TypeOK, reportVars
<1>3. CASE Replay(p)
  BY <1>3, LeaveTyped DEF Replay, TypeInvariant, TypeOK, reportVars
<1>4. CASE Release(p)
  <2>1. lock' \in [Slot -> {None} \cup [owner : Proc, at : 0..MaxTime]]
    BY <1>1, <1>4 DEF Release, TypeInvariant, TypeOK
  <2> QED BY <1>4, <2>1, IdleTyped DEF Release, TypeInvariant, TypeOK, reportVars
<1>5. CASE HourlyRaises(p)
  BY <1>5, LeaveTyped, IdleTyped DEF HourlyRaises, TypeInvariant, TypeOK, reportVars
<1> QED BY <1>2, <1>3, <1>4, <1>5

LEMMA TypeRun ==
  ASSUME TypeInvariant, NEW p \in Proc, UNCHANGED reportVars,
         \/ NextAttempt(p) \/ InsertReceipt(p) \/ Collect(p)
         \/ StoreObservation(p) \/ BindContext(p) \/ Finalize(p)
  PROVE  TypeInvariant'
<1>1. call[p] \in Call /\ Shape(call[p]) /\ SlotIn(p) \in Slot
  BY SlotInIs DEF TypeInvariant, TypeOK
<1>7. ASSUME NEW status \in {"collecting", "completed", "partial"}, NEW seen \in SUBSET Asset,
             call[p].attempt \in 1..MaxAttempt
      PROVE  Receipt(p, status, seen) \in Run
  BY <1>1, <1>7 DEF Receipt, Run, Call
<1>8. ASSUME NEW a \in Asset, call[p].attempt \in 1..MaxAttempt
      PROVE  Evidence(p, a) \in RunKey \X Asset
  BY <1>1, <1>8 DEF Evidence, RunKey
<1>2. CASE NextAttempt(p)
  <2> DEFINE c == [call[p] EXCEPT !.pc = "insert", !.attempt = NextNumber(SlotIn(p))]
  <2>1. call' = [call EXCEPT ![p] = c]
    BY <1>2 DEF NextAttempt, TypeInvariant, TypeOK
  <2>2. NextNumber(SlotIn(p)) \in 1..MaxAttempt
    <3>1. LastAttempt(SlotIn(p)) \in 0..MaxAttempt /\ LastAttempt(SlotIn(p)) < MaxAttempt
      BY <1>1, <1>2, LastAttemptIs DEF NextAttempt, TypeInvariant
    <3> QED BY <3>1, Constants DEF NextNumber
  <2>5. NextNumber(SlotIn(p)) \in 0..(MaxAttempt + MaxArchive)
    BY <2>2, Constants
  <2>3. c \in Call /\ c.pc = "insert" /\ c.attempt \in 1..MaxAttempt
    <3> DEFINE n == NextNumber(SlotIn(p))
    <3> HIDE DEF n
    <3> QED BY <1>1, <2>2, <2>5 DEF Call, HoldsLock, n
  <2> HIDE DEF c
  <2>4. Shape(c)
    BY <2>3 DEF Shape, Reporting, Archiving
  <2> QED BY <1>2, <2>1, <2>3, <2>4, CallFrame DEF NextAttempt, TypeInvariant, TypeOK, reportVars
<1>3. CASE InsertReceipt(p)
  <2> DEFINE c == [call[p] EXCEPT !.pc = "collect"]
  <2>1. call' = [call EXCEPT ![p] = c]
    BY <1>3 DEF InsertReceipt, Goto, TypeInvariant, TypeOK
  <2>2. c \in Call /\ Shape(c)
    BY <1>1, <1>3 DEF InsertReceipt, At, Call, Shape, HoldsLock, Reporting, Archiving
  <2>3. call[p].attempt \in 1..MaxAttempt
    BY <1>1, <1>3 DEF InsertReceipt, At, Shape
  <2>4. runs' \subseteq Run
    BY <1>3, <1>7, <2>3 DEF InsertReceipt, TypeInvariant, TypeOK
  <2> HIDE DEF c
  <2> QED BY <1>3, <2>1, <2>2, <2>4, CallFrame DEF InsertReceipt, TypeInvariant, TypeOK, reportVars
<1>4. CASE Collect(p)
  <2>1. PICK covered \in SUBSET call[p].active :
          call' = [call EXCEPT ![p].pc = "store", ![p].active = covered, ![p].left = covered]
    BY <1>4 DEF Collect
  <2> DEFINE c == [call[p] EXCEPT !.pc = "store", !.active = covered, !.left = covered]
  <2>2. call' = [call EXCEPT ![p] = c]
    BY <2>1 DEF TypeInvariant, TypeOK
  <2>3. c \in Call /\ Shape(c)
    BY <1>1, <1>4 DEF Collect, At, Call, Shape, HoldsLock, Reporting, Archiving
  <2> HIDE DEF c
  <2> QED BY <1>4, <2>2, <2>3, CallFrame DEF Collect, TypeInvariant, TypeOK, reportVars
<1>5. CASE StoreObservation(p)
  <2>1. PICK a \in call[p].left :
          /\ observed' = observed \cup {Evidence(p, a)}
          /\ call' = [call EXCEPT ![p].pc = "bind", ![p].item = a, ![p].left = @ \ {a}]
    BY <1>5 DEF StoreObservation
  <2> DEFINE c == [call[p] EXCEPT !.pc = "bind", !.item = a, !.left = @ \ {a}]
  <2>2. call' = [call EXCEPT ![p] = c]
    BY <2>1 DEF TypeInvariant, TypeOK
  <2>3. a \in Asset
    BY <1>1 DEF Call
  <2>4. c \in Call /\ Shape(c)
    BY <1>1, <1>5, <2>3 DEF StoreObservation, At, Call, Shape, HoldsLock, Reporting, Archiving
  <2>5. observed' \subseteq RunKey \X Asset
    BY <1>1, <1>5, <1>8, <2>1, <2>3 DEF StoreObservation, At, Shape, TypeInvariant, TypeOK
  <2> HIDE DEF c
  <2> QED BY <1>5, <2>2, <2>4, <2>5, CallFrame
        DEF StoreObservation, TypeInvariant, TypeOK, reportVars
<1>6. CASE BindContext(p)
  <2> DEFINE c == [call[p] EXCEPT !.pc = "store", !.item = None]
  <2>1. call' = [call EXCEPT ![p] = c]
    BY <1>6 DEF BindContext, TypeInvariant, TypeOK
  <2>2. c \in Call /\ Shape(c)
    BY <1>1, <1>6 DEF BindContext, At, Call, Shape, HoldsLock, Reporting, Archiving
  <2>3. bound' \subseteq RunKey \X Asset
    BY <1>1, <1>6, <1>8 DEF BindContext, At, Shape, TypeInvariant, TypeOK
  <2> HIDE DEF c
  <2> QED BY <1>6, <2>1, <2>2, <2>3, CallFrame DEF BindContext, TypeInvariant, TypeOK, reportVars
<1>9. CASE Finalize(p)
  <2>1. call[p].attempt \in 1..MaxAttempt /\ call[p].active \in SUBSET Asset
    BY <1>1, <1>9 DEF Finalize, MayFinalize, At, Shape, Call
  <2>2. Receipt(p, FinalStatus(p), call[p].active) \in Run
    BY <1>7, <2>1 DEF FinalStatus
  <2>3. runs' \subseteq Run
    BY <1>9, <2>2 DEF Finalize, TypeInvariant, TypeOK
  <2> QED BY <1>9, <2>3, LeaveTyped DEF Finalize, TypeInvariant, TypeOK, reportVars
<1> QED BY <1>2, <1>3, <1>4, <1>5, <1>6, <1>9

LEMMA WindowTyped ==
  ASSUME TypeInvariant, NEW start
  PROVE  Window(start) \in SUBSET RunKey
BY DEF TypeInvariant, TypeOK, Window, Run, RunKey

LEMMA TypeCycle ==
  ASSUME TypeInvariant, NEW p \in Proc,
         OpenCycle(p) \/ ReadWindow(p) \/ WriteBundle(p) \/ Retry(p)
  PROVE  TypeInvariant'
<1>1. call[p] \in Call /\ Shape(call[p])
  BY DEF TypeInvariant, TypeOK
<1>2. CASE OpenCycle(p)
  <2> DEFINE c == [Idle EXCEPT !.use = "cycle", !.todo = 1, !.attempt = 1,
                               !.pc = IF Fresh THEN "windows" ELSE "archive"]
  <2>1. call' = [call EXCEPT ![p] = c]
    BY <1>2 DEF OpenCycle, Enter
  <2>2. 1 \in 0..(MaxAttempt + MaxArchive)
    BY Constants
  <2>3. c \in Call /\ c.pc \in {"windows", "archive"} /\ c.todo = 1 /\ c.attempt = 1
    BY <2>2, IdleIsCall DEF Call, Reporting, Archiving
  <2> HIDE DEF c
  <2>4. Shape(c)
    BY <2>3, Constants DEF Shape, Reporting, Archiving
  <2>5. begun' \in 0..MaxCalls
    BY <1>2, Constants DEF OpenCycle, Enter, TypeInvariant, TypeOK
  <2> QED BY <1>2, <2>1, <2>3, <2>4, <2>5, CallFrame DEF OpenCycle, TypeInvariant, TypeOK
<1>3. CASE ReadWindow(p)
  <2> DEFINE w == call[p].todo
             x == Window(WindowStart[w])
  <2>1. w \in 1..3 /\ call[p].pc = "windows" /\ x \in SUBSET RunKey
    BY <1>1, <1>3, WindowTyped DEF ReadWindow, At, Shape
  <2>2. AfterWindow(p) = [call[p] EXCEPT !.read = [@ EXCEPT ![w] = x],
                            !.todo = IF w = 3 THEN 1 ELSE w + 1,
                            !.pc = IF w = 3 THEN "write" ELSE "windows"]
    BY DEF AfterWindow, WindowOrder
  <2> HIDE DEF x
  <2>3. /\ AfterWindow(p) \in Call
        /\ AfterWindow(p).pc = IF w = 3 THEN "write" ELSE "windows"
        /\ AfterWindow(p).todo = IF w = 3 THEN 1 ELSE w + 1
        /\ AfterWindow(p).attempt = call[p].attempt
    <3> DEFINE f == [call[p].read EXCEPT ![w] = x]
               n == IF w = 3 THEN 1 ELSE w + 1
               t == IF w = 3 THEN "write" ELSE "windows"
    <3>1. f \in [1..3 -> SUBSET RunKey]
      BY <1>1, <2>1 DEF Call
    <3>2. n \in Nat
      BY <2>1
    <3>3. t \in Reporting
      BY DEF Reporting
    <3>4. AfterWindow(p) = [call[p] EXCEPT !.read = f, !.todo = n, !.pc = t]
      BY <2>2
    <3> HIDE DEF f, n, t
    <3>5. /\ AfterWindow(p) \in Call /\ AfterWindow(p).pc = t
          /\ AfterWindow(p).todo = n /\ AfterWindow(p).attempt = call[p].attempt
      BY <1>1, <3>1, <3>2, <3>3, <3>4 DEF Call
    <3> QED BY <3>5 DEF n, t
  <2>4. call[p].attempt \in 1..MaxArchive
    BY <1>1, <2>1 DEF Shape, Reporting
  <2>5. Shape(AfterWindow(p))
    BY <2>1, <2>3, <2>4 DEF Shape, Reporting, Archiving
  <2> QED BY <1>3, <2>3, <2>5, CallFrame DEF ReadWindow, TypeInvariant, TypeOK, reportVars
<1>4. CASE WriteBundle(p)
  <2> DEFINE c == [call[p] EXCEPT !.pc = "archive", !.read = Idle.read]
  <2>1. call' = [call EXCEPT ![p] = c]
    BY <1>4 DEF WriteBundle, TypeInvariant, TypeOK
  <2>2. Idle.read \in [1..3 -> SUBSET RunKey]
    BY IdleIsCall DEF Call
  <2>3. c \in Call /\ c.pc = "archive" /\ c.todo = call[p].todo /\ c.attempt = call[p].attempt
    BY <1>1, <2>2 DEF Call, Reporting, Archiving
  <2>4. call[p].todo = 1 /\ call[p].attempt \in 1..MaxArchive
    BY <1>1, <1>4 DEF WriteBundle, At, Shape, Reporting
  <2> HIDE DEF c
  <2>5. Shape(c)
    BY <2>3, <2>4, Constants DEF Shape, Reporting, Archiving
  <2>6. bundle' \in [1..3 -> SUBSET RunKey]
    BY <1>1, <1>4 DEF WriteBundle, Call
  <2> QED BY <1>4, <2>1, <2>3, <2>5, <2>6, CallFrame DEF WriteBundle, TypeInvariant, TypeOK
<1>5. CASE Retry(p)
  <2>1. PICK k \in PeriodIndex, n \in 1..MaxArchive :
          Enter(p, [Idle EXCEPT !.use = "retry", !.todo = k, !.attempt = n, !.pc = "archive"])
    BY <1>5 DEF Retry
  <2> DEFINE c == [Idle EXCEPT !.use = "retry", !.todo = k, !.attempt = n, !.pc = "archive"]
  <2>2. n \in 0..(MaxAttempt + MaxArchive) /\ k \in Nat
    BY Constants
  <2>3. c \in Call /\ c.pc = "archive" /\ c.todo = k /\ c.attempt = n
    BY <2>2, IdleIsCall DEF Call, Reporting, Archiving
  <2>4. call' = [call EXCEPT ![p] = c]
    BY <2>1 DEF Enter
  <2> HIDE DEF c
  <2>5. Shape(c)
    BY <2>3 DEF Shape, Reporting, Archiving
  <2>6. begun' \in 0..MaxCalls
    BY <2>1, Constants DEF Enter, TypeInvariant, TypeOK
  <2> QED BY <1>5, <2>3, <2>4, <2>5, <2>6, CallFrame DEF Retry, TypeInvariant, TypeOK, reportVars
<1> QED BY <1>2, <1>3, <1>4, <1>5

LEMMA TypeArchive ==
  ASSUME TypeInvariant, NEW p \in Proc,
         \/ CheckNas(p) \/ CopyNas(p) \/ PutArchive(p) \/ PutReport(p) \/ Unlock(p)
         \/ ReportRaises(p)
  PROVE  TypeInvariant'
<1>1. call[p] \in Call /\ Shape(call[p])
  BY DEF TypeInvariant, TypeOK
<1>2. ASSUME call[p].pc \in Archiving,
             NEW x \in {"copy", "stored", "report"}, NEW st \in {"none", "pending_nas", "archived"},
             call' = [call EXCEPT ![p].pc = x, ![p].status = st]
      PROVE  call' \in [Proc -> Call] /\ \A q \in Proc : Shape(call'[q])
  <2> DEFINE c == [call[p] EXCEPT !.pc = x, !.status = st]
  <2>1. call' = [call EXCEPT ![p] = c]
    BY <1>2 DEF TypeInvariant, TypeOK
  <2>2. c \in Call /\ c.pc = x /\ c.todo = call[p].todo /\ c.attempt = call[p].attempt
    BY <1>1, <1>2 DEF Call, Reporting, Archiving
  <2>3. call[p].todo \in PeriodIndex /\ call[p].attempt \in 1..MaxArchive
    BY <1>1, <1>2 DEF Shape, Reporting
  <2> HIDE DEF c
  <2>4. Shape(c)
    BY <2>2, <2>3, <1>2 DEF Shape, Reporting, Archiving
  <2> QED BY <2>1, <2>2, <2>4, CallFrame
<1>3. ASSUME call[p].pc \in Archiving, NEW x \in {"copy", "stored", "report"}, Goto(p, x)
      PROVE  call' \in [Proc -> Call] /\ \A q \in Proc : Shape(call'[q])
  <2> DEFINE c == [call[p] EXCEPT !.pc = x]
  <2>1. call' = [call EXCEPT ![p] = c]
    BY <1>3 DEF Goto, TypeInvariant, TypeOK
  <2>2. c \in Call /\ c.pc = x /\ c.todo = call[p].todo /\ c.attempt = call[p].attempt
    BY <1>1, <1>3 DEF Call, Reporting, Archiving
  <2>3. call[p].todo \in PeriodIndex /\ call[p].attempt \in 1..MaxArchive
    BY <1>1, <1>3 DEF Shape, Reporting
  <2> HIDE DEF c
  <2>4. Shape(c)
    BY <2>2, <2>3, <1>3 DEF Shape, Reporting, Archiving
  <2> QED BY <2>1, <2>2, <2>4, CallFrame
<1>4. CASE CheckNas(p)
  <2>1. call[p].pc \in Archiving
    BY <1>4 DEF CheckNas, At, Archiving
  <2>2. call' \in [Proc -> Call] /\ \A q \in Proc : Shape(call'[q])
    BY <1>2, <1>3, <1>4, <2>1 DEF CheckNas
  <2> QED BY <1>4, <2>2 DEF CheckNas, TypeInvariant, TypeOK, reportVars
<1>5. CASE CopyNas(p)
  <2>1. call[p].pc \in Archiving
    BY <1>5 DEF CopyNas, At, Archiving
  <2>2. call' \in [Proc -> Call] /\ \A q \in Proc : Shape(call'[q])
    BY <1>2, <1>5, <2>1 DEF CopyNas
  <2>3. /\ nas' \in [PeriodIndex -> {None} \cup [1..3 -> SUBSET RunKey]]
        /\ bare' \in [PeriodIndex -> {None} \cup [1..3 -> SUBSET RunKey]]
    BY <1>5 DEF CopyNas, TypeInvariant, TypeOK
  <2> QED BY <1>5, <2>2, <2>3 DEF CopyNas, TypeInvariant, TypeOK
<1>6. CASE PutArchive(p)
  <2>1. call[p].pc \in Archiving
    BY <1>6 DEF PutArchive, At, Archiving
  <2>2. call' \in [Proc -> Call] /\ \A q \in Proc : Shape(call'[q])
    BY <1>3, <1>6, <2>1, IdleTyped DEF PutArchive
  <2>3. archives' \in [PeriodIndex -> [1..MaxArchive -> {"none", "pending_nas", "archived"}]]
    <3>1. /\ call[p].status \in {"none", "pending_nas", "archived"}
          /\ call[p].todo \in PeriodIndex /\ call[p].attempt \in 1..MaxArchive
      BY <1>1, <2>1 DEF Call, Shape, Reporting
    <3> QED BY <1>6, <3>1 DEF PutArchive, TypeInvariant, TypeOK
  <2> QED BY <1>6, <2>2, <2>3 DEF PutArchive, TypeInvariant, TypeOK
<1>7. Unlocking \in Call /\ Shape(Unlocking)
  <2>1. Unlocking \in Call /\ Unlocking.pc = "unlock"
    BY IdleIsCall DEF Unlocking, Call
  <2> QED BY <2>1 DEF Shape, Reporting, Archiving
<1>8. CASE PutReport(p)
  <2>1. /\ call[p].pc = "report" /\ call[p].todo \in PeriodIndex
        /\ call[p].attempt \in 1..MaxArchive
    BY <1>1, <1>8 DEF PutReport, At, Shape, Reporting
  <2>2. AfterReport(p) \in Call /\ Shape(AfterReport(p))
    <3>1. CASE call[p].todo < Len(Period)
      <4> DEFINE n == call[p].todo + 1
      <4> DEFINE c == [call[p] EXCEPT !.todo = n, !.pc = "archive", !.status = "none"]
      <4>1. AfterReport(p) = c
        BY <3>1 DEF AfterReport
      <4>2. n \in PeriodIndex /\ n \in Nat
        BY <2>1, <3>1, Constants
      <4> HIDE DEF n
      <4>3. c \in Call /\ c.pc = "archive" /\ c.todo = n /\ c.attempt = call[p].attempt
        BY <1>1, <4>2 DEF Call, Reporting, Archiving
      <4> HIDE DEF c
      <4>4. Shape(c)
        BY <2>1, <4>2, <4>3 DEF Shape, Reporting, Archiving
      <4> QED BY <4>1, <4>3, <4>4
    <3>2. CASE ~(call[p].todo < Len(Period))
      BY <1>7, <3>2 DEF AfterReport
    <3> QED BY <3>1, <3>2
  <2>3. reports' \in [PeriodIndex -> {"none", "pending_nas", "completed"}]
    BY <1>8 DEF PutReport, ReportStatus, TypeInvariant, TypeOK
  <2> QED BY <1>8, <2>2, <2>3, CallFrame DEF PutReport, TypeInvariant, TypeOK
<1>9. CASE Unlock(p)
  BY <1>9, IdleTyped DEF Unlock, TypeInvariant, TypeOK
<1>10. CASE ReportRaises(p)
  BY <1>7, <1>10, IdleIsCall, CallFrame DEF ReportRaises, TypeInvariant, TypeOK, reportVars
<1> QED BY <1>4, <1>5, <1>6, <1>8, <1>9, <1>10

LEMMA TypeInit == Init => TypeInvariant
<1> SUFFICES ASSUME Init PROVE TypeInvariant
  OBVIOUS
<1>1. call \in [Proc -> Call] /\ \A q \in Proc : Shape(call[q])
  BY IdleIsCall DEF Init, HourlyInit
<1>2. clock \in 0..MaxTime /\ begun \in 0..MaxCalls
  BY Constants DEF Init, HourlyInit
<1>3. /\ enabled \subseteq Asset /\ runs \subseteq Run
      /\ observed \subseteq RunKey \X Asset /\ bound \subseteq RunKey \X Asset
      /\ outlived \subseteq Slot
      /\ lock \in [Slot -> {None} \cup [owner : Proc, at : 0..MaxTime]]
  BY Constants DEF Init, HourlyInit
<1>4. archives \in [PeriodIndex -> [1..MaxArchive -> {"none", "pending_nas", "archived"}]]
  BY DEF Init, ReportInit
<1>5. /\ reportLock \in BOOLEAN
      /\ reports \in [PeriodIndex -> {"none", "pending_nas", "completed"}]
      /\ bundle = None /\ nas = [k \in PeriodIndex |-> None]
      /\ bare = [k \in PeriodIndex |-> None]
  BY DEF Init, ReportInit
<1> QED BY <1>1, <1>2, <1>3, <1>4, <1>5 DEF TypeInvariant, TypeOK

LEMMA TypeStep == TypeInvariant /\ [Next]_vars => TypeInvariant'
<1> SUFFICES ASSUME TypeInvariant, [Next]_vars PROVE TypeInvariant'
  OBVIOUS
<1>1. ASSUME NEW p \in Proc, HourlyStep(p), UNCHANGED reportVars PROVE TypeInvariant'
  BY <1>1, TypeBefore, TypeLock, TypeRun DEF HourlyStep
<1>2. ASSUME NEW p \in Proc, ReportStep(p) PROVE TypeInvariant'
  BY <1>2, TypeCycle, TypeArchive DEF ReportStep
<1>3. ASSUME NEW p \in Proc, Crash(p) PROVE TypeInvariant'
  BY <1>3, IdleTyped DEF Crash, TypeInvariant, TypeOK, reportVars
<1>4. CASE Tick /\ UNCHANGED reportVars
  <2>1. clock' \in 0..MaxTime
    BY <1>4, Constants DEF Tick, TypeInvariant, TypeOK
  <2> QED BY <1>4, <2>1 DEF Tick, TypeInvariant, TypeOK, reportVars
<1>5. CASE UNCHANGED vars
  BY <1>5 DEF vars, hourlyVars, reportVars, TypeInvariant, TypeOK
<1> QED BY <1>1, <1>2, <1>3, <1>4, <1>5 DEF Next

(***************************************************************************)
(* The tables, the files and the calls have their types, for any           *)
(* configuration, any processes and any bounds.                            *)
(***************************************************************************)
THEOREM TypeCorrect == Spec => []TypeOK
<1>1. TypeInvariant => TypeOK
  BY DEF TypeInvariant
<1> QED BY <1>1, TypeInit, TypeStep, PTL DEF Spec

-------------------------------------------------------------------------------
(* Where a step leaves the call of its process.                            *)

HourlyPlaces == BeforeLock \cup HoldsLock \cup {"idle", "release"}

LEMMA CallOf ==
  ASSUME TypeInvariant, NEW p \in Proc, NEW c, call' = [call EXCEPT ![p] = c]
  PROVE  call'[p] = c /\ \A q \in Proc : q # p => call'[q] = call[q]
BY DEF TypeInvariant, TypeOK

LEMMA IdlePc == Idle.pc = "idle"
BY DEF Idle

LEMMA LeaveCall ==
  ASSUME TypeInvariant, NEW p \in Proc, Leave(p)
  PROVE  call'[p].pc = "release" /\ \A q \in Proc : q # p => call'[q] = call[q]
<1> DEFINE c == [Idle EXCEPT !.pc = "release", !.sched = call[p].sched,
                             !.started = call[p].started]
<1>1. c.pc = "release"
  BY DEF Idle
<1>2. call' = [call EXCEPT ![p] = c]
  BY DEF Leave
<1> HIDE DEF c
<1> QED BY <1>1, <1>2, CallOf

LEMMA HourlyElsewhere ==
  ASSUME TypeInvariant, NEW p \in Proc, HourlyStep(p)
  PROVE  call'[p].pc \in HourlyPlaces /\ \A q \in Proc : q # p => call'[q] = call[q]
<1>1. call[p] \in Call /\ call \in [Proc -> Call]
  BY DEF TypeInvariant, TypeOK
<1>2. ASSUME NEW use, Begin(p, use)
      PROVE  call'[p].pc = "sync" /\ \A q \in Proc : q # p => call'[q] = call[q]
  BY <1>1, <1>2 DEF Begin, Enter, Idle
<1>3. CASE Upsert(p)
  <2>1. AfterUpsert(p).pc \in {"idle", "list", "sync"}
    BY <1>1, <1>3 DEF Upsert, At, AfterUpsert, Idle, Call
  <2> QED BY <1>3, <2>1, CallOf DEF Upsert, HourlyPlaces, BeforeLock
<1>4. CASE ListIds(p) BY <1>1, <1>4 DEF ListIds, HourlyPlaces, BeforeLock, Call
<1>5. CASE ReadRow(p) BY <1>1, <1>5 DEF ReadRow, At, HourlyPlaces, BeforeLock, Call
<1>6. CASE ReadClock(p) BY <1>1, <1>6 DEF ReadClock, HourlyPlaces, BeforeLock, Call
<1>7. CASE Acquire(p) BY <1>1, <1>7 DEF Acquire, Goto, HourlyPlaces, HoldsLock, Call
<1>8. CASE Replay(p) BY <1>8, LeaveCall DEF Replay, HourlyPlaces
<1>9. CASE NextAttempt(p) BY <1>1, <1>9 DEF NextAttempt, HourlyPlaces, HoldsLock, Call
<1>10. CASE InsertReceipt(p) BY <1>1, <1>10 DEF InsertReceipt, Goto, HourlyPlaces, HoldsLock, Call
<1>11. CASE Collect(p) BY <1>1, <1>11 DEF Collect, HourlyPlaces, HoldsLock, Call
<1>12. CASE StoreObservation(p) BY <1>1, <1>12 DEF StoreObservation, HourlyPlaces, HoldsLock, Call
<1>13. CASE BindContext(p) BY <1>1, <1>13 DEF BindContext, HourlyPlaces, HoldsLock, Call
<1>14. CASE Finalize(p) BY <1>14, LeaveCall DEF Finalize, HourlyPlaces
<1>15. CASE Release(p) BY <1>15, CallOf, IdlePc DEF Release, HourlyPlaces
<1>16. CASE HourlyRaises(p)
  BY <1>16, CallOf, IdlePc, LeaveCall DEF HourlyRaises, HourlyPlaces
<1> QED BY <1>2, <1>3, <1>4, <1>5, <1>6, <1>7, <1>8, <1>9, <1>10, <1>11, <1>12, <1>13,
           <1>14, <1>15, <1>16 DEF HourlyStep, HourlyPlaces, BeforeLock

LEMMA ReportElsewhere ==
  ASSUME TypeInvariant, NEW p \in Proc, ReportStep(p)
  PROVE  call'[p].pc \in Reporting \cup {"idle", "unlock"} /\ \A q \in Proc : q # p => call'[q] = call[q]
<1>1. call[p] \in Call /\ call \in [Proc -> Call]
  BY DEF TypeInvariant, TypeOK
<1>2. CASE OpenCycle(p) BY <1>1, <1>2 DEF OpenCycle, Enter, Idle, Reporting, Archiving
<1>3. CASE ReadWindow(p)
  <2>1. AfterWindow(p).pc \in {"windows", "write"}
    BY <1>1 DEF AfterWindow, Call
  <2> QED BY <1>3, <2>1, CallOf DEF ReadWindow, Reporting
<1>4. CASE WriteBundle(p) BY <1>1, <1>4 DEF WriteBundle, Call, Reporting, Archiving
<1>5. CASE Retry(p) BY <1>1, <1>5 DEF Retry, Enter, Idle, Reporting, Archiving
<1>6. CASE CheckNas(p) BY <1>1, <1>6 DEF CheckNas, Goto, Call, Reporting, Archiving
<1>7. CASE CopyNas(p) BY <1>1, <1>7 DEF CopyNas, Call, Reporting, Archiving
<1>8. CASE PutArchive(p) BY <1>1, <1>8 DEF PutArchive, Goto, Call, Idle, Reporting
<1>9. CASE PutReport(p)
  <2>1. AfterReport(p).pc \in {"archive", "unlock"}
    BY <1>1 DEF AfterReport, Unlocking, Idle, Call
  <2> QED BY <1>9, <2>1, CallOf DEF PutReport, Reporting, Archiving
<1>10. CASE Unlock(p) BY <1>1, <1>10, IdlePc DEF Unlock
<1>11. CASE ReportRaises(p) BY <1>1, <1>11 DEF ReportRaises, Unlocking, Idle
<1> QED BY <1>2, <1>3, <1>4, <1>5, <1>6, <1>7, <1>8, <1>9, <1>10, <1>11
      DEF ReportStep

-------------------------------------------------------------------------------
(* Receipts of reports and archives.  The bundle never changes once it     *)
(* exists, and the archive holds that bundle or nothing, as does the       *)
(* directory below the mount point.                                        *)

BackedCall(c) ==
    /\ c.pc \in Archiving \cup {"report"} => bundle # None
    /\ c.pc \in {"stored", "report"} /\ c.status = "archived" => bundle \in Found(c.todo)

BackedInvariant ==
    /\ \A k \in PeriodIndex : \A x \in Found(k) : x = None \/ (bundle # None /\ x = bundle)
    /\ \A p \in Proc : BackedCall(call[p])
    /\ ReceiptsBacked

LEMMA BackedElsewhere ==
  ASSUME BackedInvariant, NEW p \in Proc, UNCHANGED reportVars,
         BackedCall(call'[p]), \A q \in Proc : q # p => call'[q] = call[q]
  PROVE  BackedInvariant'
<1>1. \A q \in Proc : BackedCall(call'[q])
  BY DEF BackedInvariant
<1>2. \A q \in Proc : BackedCall(call[q])'
  BY <1>1 DEF BackedCall, Found, reportVars
<1>3. ReceiptsBacked'
  BY DEF BackedInvariant, ReceiptsBacked, Found, reportVars
<1> QED BY <1>2, <1>3 DEF BackedInvariant, Found, reportVars

LEMMA BackedPlaces ==
  ASSUME NEW c, c.pc \in HourlyPlaces \cup {"unlock", "windows", "write"}
  PROVE  BackedCall(c)
BY DEF BackedCall, HourlyPlaces, BeforeLock, HoldsLock, Archiving

LEMMA BundleStays ==
  ASSUME TypeInvariant, BackedInvariant, NEW p \in Proc, CheckNas(p)
  PROVE  BackedInvariant'
<1>1. call[p] \in Call /\ call \in [Proc -> Call]
  BY DEF TypeInvariant, TypeOK
<1>2. bundle # None
  BY DEF CheckNas, At, BackedInvariant, BackedCall, Archiving
<1>3. /\ BackedCall(call'[p])
      /\ \A q \in Proc : q # p => call'[q] = call[q]
  <2>1. CASE call' = [call EXCEPT ![p].pc = "stored", ![p].status = "pending_nas"]
    BY <1>1, <1>2, <2>1 DEF BackedCall, Call, Archiving
  <2>2. CASE /\ bundle \in Found(call[p].todo)
             /\ call' = [call EXCEPT ![p].pc = "stored", ![p].status = "archived"]
    BY <1>1, <1>2, <2>2 DEF BackedCall, Call, Archiving
  <2>3. CASE Goto(p, "copy")
    BY <1>1, <1>2, <2>3 DEF Goto, BackedCall, Call, Archiving
  <2> QED BY <2>1, <2>2, <2>3 DEF CheckNas
<1> QED BY <1>3, BackedElsewhere DEF CheckNas, reportVars

LEMMA BundleWritten ==
  ASSUME TypeInvariant, BackedInvariant, NEW p \in Proc, WriteBundle(p)
  PROVE  BackedInvariant'
<1>1. call[p] \in Call /\ call \in [Proc -> Call]
  BY DEF TypeInvariant, TypeOK
<1>2. bundle = None /\ bundle' = call[p].read /\ nas' = nas /\ bare' = bare /\ archives' = archives
      /\ reports' = reports
  BY DEF WriteBundle, Fresh
<1>3. bundle' # None
  BY <1>1, <1>2, ReportingAssumption DEF Call, RunKey
<1>4. \A k \in PeriodIndex : \A x \in Found(k)' : x = None
  BY <1>2 DEF BackedInvariant, Found
<1>5. ReceiptsBacked'
  BY <1>2 DEF BackedInvariant, ReceiptsBacked
<1>6. call'[p].pc = "archive" /\ \A q \in Proc : q # p => call'[q] = call[q]
  BY <1>1 DEF WriteBundle, Call
<1>7. \A q \in Proc : q # p => call[q].pc \notin Archiving \cup {"report"}
  BY <1>2 DEF BackedInvariant, BackedCall
<1>8. \A q \in Proc : BackedCall(call[q])'
  BY <1>3, <1>6, <1>7 DEF BackedCall, Archiving
<1> QED BY <1>4, <1>5, <1>8 DEF BackedInvariant

LEMMA ArchiveWritten ==
  ASSUME TypeInvariant, BackedInvariant, NEW p \in Proc, CopyNas(p)
  PROVE  BackedInvariant'
<1>1. call[p] \in Call /\ call \in [Proc -> Call] /\ Shape(call[p])
      /\ nas \in [PeriodIndex -> {None} \cup [1..3 -> SUBSET RunKey]]
      /\ bare \in [PeriodIndex -> {None} \cup [1..3 -> SUBSET RunKey]]
  BY DEF TypeInvariant, TypeOK
<1>2. call[p].todo \in PeriodIndex /\ bundle # None
  BY <1>1 DEF CopyNas, At, Shape, Archiving, BackedInvariant, BackedCall
<1>3. bundle' = bundle /\ archives' = archives /\ reports' = reports
  BY DEF CopyNas
<1>11. \/ nas' = [nas EXCEPT ![call[p].todo] = bundle] /\ bare' = bare
       \/ bare' = [bare EXCEPT ![call[p].todo] = bundle] /\ nas' = nas
  BY DEF CopyNas
<1>4. \A k \in PeriodIndex : /\ nas'[k] = nas[k] \/ nas'[k] = bundle
                             /\ bare'[k] = bare[k] \/ bare'[k] = bundle
  BY <1>1, <1>2, <1>11
<1>5. \A k \in PeriodIndex : bundle \in Found(k) => bundle' \in Found(k)'
  BY <1>3, <1>4 DEF Found
<1>6. bundle \in {nas'[call[p].todo], bare'[call[p].todo]}
  BY <1>1, <1>2, <1>11
<1>7. /\ call'[p].pc = "stored" /\ call'[p].todo = call[p].todo
      /\ \A q \in Proc : q # p => call'[q] = call[q]
  BY <1>1 DEF CopyNas, Call
<1>8. \A q \in Proc : BackedCall(call[q])'
  <2>1. BackedCall(call[p])'
    BY <1>2, <1>3, <1>6, <1>7 DEF BackedCall, Found
  <2>2. ASSUME NEW q \in Proc, q # p PROVE BackedCall(call[q])'
    <3>1. call[q] \in Call /\ Shape(call[q]) /\ BackedCall(call[q])
      BY DEF TypeInvariant, TypeOK, BackedInvariant
    <3>2. call[q].pc \in {"stored", "report"} => call[q].todo \in PeriodIndex
      BY <3>1 DEF Shape, Archiving
    <3>3. call[q].pc \in {"stored", "report"} /\ bundle \in Found(call[q].todo) =>
             bundle' \in {nas'[call[q].todo], bare'[call[q].todo]}
      BY <1>5, <3>2 DEF Found
    <3> QED BY <1>3, <1>7, <2>2, <3>1, <3>3 DEF BackedCall, Found
  <2> QED BY <2>1, <2>2
<1>9. ReceiptsBacked'
  BY <1>3, <1>5 DEF BackedInvariant, ReceiptsBacked
<1>10. \A k \in PeriodIndex : \A x \in Found(k)' : x = None \/ (bundle' # None /\ x = bundle')
  BY <1>2, <1>3, <1>4 DEF BackedInvariant, Found
<1> QED BY <1>8, <1>9, <1>10 DEF BackedInvariant

LEMMA ReceiptWritten ==
  ASSUME TypeInvariant, BackedInvariant, NEW p \in Proc, PutArchive(p) \/ PutReport(p)
  PROVE  BackedInvariant'
<1>1. call[p] \in Call /\ call \in [Proc -> Call] /\ Shape(call[p]) /\ BackedCall(call[p])
  BY DEF TypeInvariant, TypeOK, BackedInvariant
<1>2. /\ call[p].pc \in {"stored", "report"} /\ call[p].todo \in PeriodIndex
      /\ call[p].attempt \in 1..MaxArchive /\ bundle # None
  BY <1>1 DEF PutArchive, PutReport, At, Shape, Archiving, Reporting, BackedCall
<1>3. bundle' = bundle /\ nas' = nas /\ bare' = bare
  BY DEF PutArchive, PutReport
<1>4. call[p].status = "archived" => bundle \in Found(call[p].todo)
  BY <1>1, <1>2 DEF BackedCall
<1>5. ReceiptsBacked'
  <2>1. CASE PutArchive(p)
    <3> DEFINE k == call[p].todo
               n == call[p].attempt
               s == call[p].status
    <3>1. archives \in [PeriodIndex -> [1..MaxArchive -> {"none", "pending_nas", "archived"}]]
      BY DEF TypeInvariant, TypeOK
    <3>2. archives' = [archives EXCEPT ![k][n] = s] /\ reports' = reports
      BY <2>1 DEF PutArchive
    <3>3. \A j \in PeriodIndex, m \in 1..MaxArchive :
             archives'[j][m] = IF j = k /\ m = n THEN s ELSE archives[j][m]
      <4> HIDE DEF k, n, s
      <4> QED BY <3>1, <3>2
    <3>4. ASSUME NEW j \in PeriodIndex, NEW m \in 1..MaxArchive, archives'[j][m] = "archived"
          PROVE  bundle \in Found(j)
      <4>1. CASE j = k /\ m = n BY <1>4, <3>3, <3>4, <4>1
      <4>2. CASE ~(j = k /\ m = n)
        BY <3>3, <3>4, <4>2 DEF BackedInvariant, ReceiptsBacked
      <4> QED BY <4>1, <4>2
    <3>5. ASSUME NEW j \in PeriodIndex, reports'[j] = "completed" PROVE bundle \in Found(j)
      BY <3>2, <3>5 DEF BackedInvariant, ReceiptsBacked
    <3> HIDE DEF k, n, s
    <3> QED BY <1>2, <1>3, <3>4, <3>5 DEF ReceiptsBacked, Found
  <2>2. CASE PutReport(p)
    <3>1. reports \in [PeriodIndex -> {"none", "pending_nas", "completed"}]
      BY DEF TypeInvariant, TypeOK
    <3>2. /\ reports' = [reports EXCEPT ![call[p].todo] = ReportStatus(call[p].status)]
          /\ archives' = archives
      BY <2>2 DEF PutReport
    <3>3. ASSUME NEW j \in PeriodIndex, reports'[j] = "completed" PROVE bundle \in Found(j)
      <4>1. CASE j = call[p].todo BY <1>2, <1>4, <3>1, <3>2, <3>3, <4>1 DEF ReportStatus
      <4>2. CASE j # call[p].todo
        BY <1>2, <3>1, <3>2, <3>3, <4>2 DEF BackedInvariant, ReceiptsBacked
      <4> QED BY <4>1, <4>2
    <3>4. ASSUME NEW j \in PeriodIndex, NEW m \in 1..MaxArchive, archives'[j][m] = "archived"
          PROVE  bundle \in Found(j)
      BY <3>2, <3>4 DEF BackedInvariant, ReceiptsBacked
    <3> QED BY <1>2, <1>3, <3>3, <3>4 DEF ReceiptsBacked, Found
  <2> QED BY <2>1, <2>2
<1>6. BackedCall(call'[p]) /\ \A q \in Proc : q # p => call'[q] = call[q]
  <2>1. CASE PutArchive(p) /\ Cycle(p)
    BY <1>1, <1>2, <1>4, <2>1 DEF PutArchive, Goto, BackedCall, Call
  <2>2. CASE PutArchive(p) /\ ~Cycle(p)
    BY <2>2, CallOf, IdlePc, BackedPlaces DEF PutArchive, HourlyPlaces
  <2>3. CASE PutReport(p)
    <3>1. \/ AfterReport(p).pc = "archive" /\ AfterReport(p).status = "none"
          \/ AfterReport(p).pc = "unlock"
      BY <1>1 DEF AfterReport, Call, Unlocking, Idle
    <3>2. BackedCall(AfterReport(p))
      BY <1>2, <3>1 DEF BackedCall
    <3> QED BY <2>3, <3>2, CallOf DEF PutReport
  <2> QED BY <2>1, <2>2, <2>3
<1>7. \A q \in Proc : BackedCall(call[q])'
  BY <1>3, <1>6 DEF BackedInvariant, BackedCall, Found
<1> QED BY <1>3, <1>5, <1>7 DEF BackedInvariant, Found

LEMMA BackedStep == TypeInvariant /\ BackedInvariant /\ [Next]_vars => BackedInvariant'
<1> SUFFICES ASSUME TypeInvariant, BackedInvariant, [Next]_vars PROVE BackedInvariant'
  OBVIOUS
<1>1. call \in [Proc -> Call]
  BY DEF TypeInvariant, TypeOK
<1>2. ASSUME NEW p \in Proc, HourlyStep(p), UNCHANGED reportVars PROVE BackedInvariant'
  BY <1>2, HourlyElsewhere, BackedPlaces, BackedElsewhere
<1>3. ASSUME NEW p \in Proc, ReportStep(p) PROVE BackedInvariant'
  <2>1. CASE OpenCycle(p)
    <3> DEFINE c == [Idle EXCEPT !.use = "cycle", !.todo = 1, !.attempt = 1,
                                 !.pc = IF Fresh THEN "windows" ELSE "archive"]
    <3>1. call' = [call EXCEPT ![p] = c]
      BY <2>1 DEF OpenCycle, Enter
    <3>2. c.pc = "windows" \/ (c.pc = "archive" /\ bundle # None)
      BY DEF Idle, Fresh
    <3> HIDE DEF c
    <3>3. BackedCall(c)
      BY <3>2 DEF BackedCall, Archiving
    <3>4. BackedCall(call'[p]) /\ \A q \in Proc : q # p => call'[q] = call[q]
      BY <3>1, <3>3, CallOf
    <3>5. \A q \in Proc : BackedCall(call[q])'
      BY <2>1, <3>4 DEF OpenCycle, BackedInvariant, BackedCall, Found
    <3>6. ReceiptsBacked'
      BY <2>1 DEF OpenCycle, BackedInvariant, ReceiptsBacked, Found
    <3> QED BY <2>1, <3>5, <3>6 DEF OpenCycle, BackedInvariant, Found
  <2>2. CASE ReadWindow(p)
    <3>1. AfterWindow(p).pc \in {"windows", "write"}
      BY <1>1 DEF AfterWindow, Call
    <3> QED BY <2>2, <3>1, CallOf, BackedPlaces, BackedElsewhere DEF ReadWindow
  <2>3. CASE Retry(p)
    <3>1. PICK k \in PeriodIndex, n \in 1..MaxArchive :
            Enter(p, [Idle EXCEPT !.use = "retry", !.todo = k, !.attempt = n, !.pc = "archive"])
      BY <2>3 DEF Retry
    <3> DEFINE c == [Idle EXCEPT !.use = "retry", !.todo = k, !.attempt = n, !.pc = "archive"]
    <3>2. c.pc = "archive"
      BY DEF Idle
    <3>3. call' = [call EXCEPT ![p] = c]
      BY <3>1 DEF Enter
    <3> HIDE DEF c
    <3>4. BackedCall(c)
      BY <2>3, <3>2 DEF Retry, BackedCall
    <3> QED BY <2>3, <3>3, <3>4, CallOf, BackedElsewhere DEF Retry
  <2>4. CASE Unlock(p)
    <3>1. BackedCall(call'[p]) /\ \A q \in Proc : q # p => call'[q] = call[q]
      BY <2>4, CallOf, IdlePc, BackedPlaces DEF Unlock, HourlyPlaces
    <3>2. \A q \in Proc : BackedCall(call[q])'
      BY <2>4, <3>1 DEF Unlock, BackedInvariant, BackedCall, Found
    <3>3. ReceiptsBacked'
      BY <2>4 DEF Unlock, BackedInvariant, ReceiptsBacked, Found
    <3> QED BY <2>4, <3>2, <3>3 DEF Unlock, BackedInvariant, Found
  <2>5. CASE ReportRaises(p)
    <3> DEFINE c == IF Cycle(p) THEN Unlocking ELSE Idle
    <3>1. c.pc \in {"unlock", "idle"}
      BY DEF Unlocking, Idle
    <3>2. call' = [call EXCEPT ![p] = c]
      BY <2>5 DEF ReportRaises
    <3> HIDE DEF c
    <3>3. BackedCall(c)
      BY <3>1, BackedPlaces DEF HourlyPlaces
    <3> QED BY <2>5, <3>2, <3>3, CallOf, BackedElsewhere DEF ReportRaises
  <2> QED BY <1>3, <2>1, <2>2, <2>3, <2>4, <2>5, BundleStays, BundleWritten, ArchiveWritten,
             ReceiptWritten DEF ReportStep
<1>4. ASSUME NEW p \in Proc, Crash(p) PROVE BackedInvariant'
  BY <1>4, CallOf, IdlePc, BackedPlaces, BackedElsewhere DEF Crash, HourlyPlaces
<1>5. CASE UNCHANGED <<call, reportVars>>
  BY <1>5 DEF reportVars, BackedInvariant, BackedCall, ReceiptsBacked, Found
<1> QED BY <1>2, <1>3, <1>4, <1>5 DEF Next, Tick, vars, hourlyVars

(***************************************************************************)
(* A receipt that says archived or completed is backed at every later time *)
(* by a copy of the bundle, in the archive of its period or below the bare *)
(* mount point, however many cycles and retries race and whenever the      *)
(* archive is mounted and unmounted (archive_existing_bundle).             *)
(***************************************************************************)
THEOREM ReportsAreBacked == Spec => []ReceiptsBacked
<1>1. Init => BackedInvariant
  <2> SUFFICES ASSUME Init PROVE BackedInvariant
    OBVIOUS
  <2>1. \A p \in Proc : BackedCall(call[p])
    BY IdlePc, BackedPlaces DEF Init, HourlyInit, HourlyPlaces
  <2>2. \A k \in PeriodIndex : reports[k] = "none" /\ \A n \in 1..MaxArchive : archives[k][n] = "none"
    BY DEF Init, ReportInit
  <2> QED BY <2>1, <2>2 DEF Init, ReportInit, BackedInvariant, ReceiptsBacked, Found
<1>2. BackedInvariant => ReceiptsBacked
  BY DEF BackedInvariant
<1> QED BY <1>1, <1>2, TypeInit, TypeStep, BackedStep, PTL DEF Spec

-------------------------------------------------------------------------------
(* Windows.  A window only grows, so what an earlier transaction counted   *)
(* in a shorter window a later one counts in a longer window.              *)

NestedCall(c) ==
    /\ c.pc = "windows" /\ c.todo = 2 => c.read[1] \subseteq Window(WindowStart[1])
    /\ c.pc = "windows" /\ c.todo = 3 => /\ c.read[1] \subseteq c.read[2]
                                         /\ c.read[2] \subseteq Window(WindowStart[2])
    /\ c.pc = "write" => c.read[1] \subseteq c.read[2] /\ c.read[2] \subseteq c.read[3]

NestedInvariant == WindowsNested /\ \A p \in Proc : NestedCall(call[p])

LEMMA LongerWindow ==
  ASSUME TypeInvariant, NEW i \in 1..2
  PROVE  Window(WindowStart[i]) \subseteq Window(WindowStart[i + 1])
<1>1. WindowStart[i] \in Int /\ WindowStart[i + 1] \in Int /\ WindowStart[i + 1] <= WindowStart[i]
  <2>1. CASE i = 1 BY <2>1, ReportingAssumption
  <2>2. CASE i = 2 BY <2>2, ReportingAssumption
  <2> QED BY <2>1, <2>2
<1>2. \A r \in runs : r.sched \in Int
  BY DEF TypeInvariant, TypeOK, Run
<1> QED BY <1>1, <1>2 DEF Window

LEMMA WindowGrows ==
  ASSUME TypeInvariant, [Next]_vars, NEW start
  PROVE  Window(start) \subseteq Window(start)'
<1>1. CASE runs \subseteq runs'
  BY <1>1 DEF Window
<1>2. ASSUME NEW p \in Proc, Finalize(p) PROVE Window(start) \subseteq Window(start)'
  <2> DEFINE old == Receipt(p, "collecting", {})
             new == Receipt(p, FinalStatus(p), call[p].active)
  <2>1. old.slot = new.slot /\ old.attempt = new.attempt /\ old.sched = new.sched
    BY DEF Receipt
  <2>2. runs' = (runs \ {old}) \cup {new}
    BY <1>2 DEF Finalize
  <2> HIDE DEF old, new
  <2>3. ASSUME NEW r \in runs, start <= r.sched, r.sched <= Cutoff
        PROVE  \E x \in runs' : /\ start <= x.sched /\ x.sched <= Cutoff
                                /\ x.slot = r.slot /\ x.attempt = r.attempt
    <3>1. CASE r = old BY <2>1, <2>2, <2>3, <3>1
    <3>2. CASE r # old BY <2>2, <2>3, <3>2
    <3> QED BY <3>1, <3>2
  <2> QED BY <2>3 DEF Window
<1>3. ASSUME NEW p \in Proc, HourlyStep(p), ~Finalize(p) PROVE runs \subseteq runs'
  BY <1>3 DEF HourlyStep, Begin, Upsert, ListIds, ReadRow, ReadClock, Acquire, Replay,
              NextAttempt, InsertReceipt, Collect, StoreObservation, BindContext, Release,
              HourlyRaises
<1>4. ASSUME NEW p \in Proc, ReportStep(p) PROVE runs' = runs
  BY <1>4 DEF ReportStep, OpenCycle, ReadWindow, WriteBundle, Retry, CheckNas, CopyNas,
              PutArchive, PutReport, Unlock, ReportRaises
<1> QED BY <1>1, <1>2, <1>3, <1>4 DEF Next, Crash, Tick, vars, hourlyVars


LEMMA NestedStep == TypeInvariant /\ NestedInvariant /\ [Next]_vars => NestedInvariant'
<1> SUFFICES ASSUME TypeInvariant, NestedInvariant, [Next]_vars PROVE NestedInvariant'
  OBVIOUS
<1>1. call \in [Proc -> Call]
  BY DEF TypeInvariant, TypeOK
<1>2. ASSUME NEW q \in Proc, call'[q] = call[q] PROVE NestedCall(call[q])'
  <2>1. NestedCall(call[q])
    BY DEF NestedInvariant
  <2>2. Window(WindowStart[1]) \subseteq Window(WindowStart[1])'
        /\ Window(WindowStart[2]) \subseteq Window(WindowStart[2])'
    BY WindowGrows
  <2> DEFINE w1 == Window(WindowStart[1])
             w2 == Window(WindowStart[2])
  <2>3. w1 \subseteq w1' /\ w2 \subseteq w2'
    BY <2>2
  <2> QED BY <1>2, <2>1, <2>3 DEF NestedCall
<1>3. ASSUME NEW p \in Proc, NestedCall(call[p])', bundle' = bundle,
             \A q \in Proc : q # p => call'[q] = call[q]
      PROVE  NestedInvariant'
  <2>1. WindowsNested'
    BY <1>3 DEF NestedInvariant, WindowsNested
  <2>2. ASSUME NEW q \in Proc PROVE NestedCall(call[q])'
    BY <1>2, <1>3
  <2> QED BY <2>1, <2>2 DEF NestedInvariant
<1>4. ASSUME NEW p \in Proc, HourlyStep(p), UNCHANGED reportVars PROVE NestedInvariant'
  <2>1. call'[p].pc \notin {"windows", "write"} /\ \A q \in Proc : q # p => call'[q] = call[q]
    BY <1>4, HourlyElsewhere DEF HourlyPlaces, BeforeLock, HoldsLock
  <2>2. NestedCall(call[p])'
    BY <2>1 DEF NestedCall
  <2> QED BY <1>3, <1>4, <2>1, <2>2 DEF reportVars
<1>5. ASSUME NEW p \in Proc, OpenCycle(p) PROVE NestedInvariant'
  <2> DEFINE c == [Idle EXCEPT !.use = "cycle", !.todo = 1, !.attempt = 1,
                               !.pc = IF Fresh THEN "windows" ELSE "archive"]
  <2>1. call' = [call EXCEPT ![p] = c]
    BY <1>5 DEF OpenCycle, Enter
  <2>2. c.pc # "write" /\ c.todo = 1
    BY DEF Idle
  <2> HIDE DEF c
  <2>3. call'[p] = c /\ \A q \in Proc : q # p => call'[q] = call[q]
    BY <2>1, CallOf
  <2>4. NestedCall(call[p])'
    BY <2>2, <2>3 DEF NestedCall
  <2> QED BY <1>3, <1>5, <2>3, <2>4 DEF OpenCycle
<1>6. ASSUME NEW p \in Proc, ReadWindow(p) PROVE NestedInvariant'
  <2> DEFINE w == call[p].todo
             x == Window(WindowStart[w])
             c == AfterWindow(p)
  <2>1. /\ call[p] \in Call /\ w \in 1..3 /\ call[p].pc = "windows" /\ NestedCall(call[p])
        /\ runs' = runs /\ bundle' = bundle
    BY <1>6 DEF TypeInvariant, TypeOK, ReadWindow, At, Shape, NestedInvariant, reportVars
  <2>2. c = [call[p] EXCEPT !.read = [@ EXCEPT ![w] = x], !.todo = IF w = 3 THEN 1 ELSE w + 1,
                            !.pc = IF w = 3 THEN "write" ELSE "windows"]
    BY DEF AfterWindow, WindowOrder
  <2>3. /\ c.read = [call[p].read EXCEPT ![w] = x]
        /\ c.todo = IF w = 3 THEN 1 ELSE w + 1
        /\ c.pc = IF w = 3 THEN "write" ELSE "windows"
    BY <2>1, <2>2 DEF Call
  <2>4. call[p].read \in [1..3 -> SUBSET RunKey]
    BY <2>1 DEF Call
  <2>5. NestedCall(c)
    <3> HIDE DEF c
    <3>1. CASE w = 1
      BY <2>3, <2>4, <3>1 DEF NestedCall
    <3>2. CASE w = 2
      <4>1. call[p].read[1] \subseteq Window(WindowStart[1])
        BY <2>1, <3>2 DEF NestedCall
      <4>2. Window(WindowStart[1]) \subseteq x
        BY <3>2, LongerWindow
      <4>3. c.read[1] = call[p].read[1] /\ c.read[2] = x /\ c.todo = 3 /\ c.pc = "windows"
        BY <2>3, <2>4, <3>2
      <4> QED BY <3>2, <4>1, <4>2, <4>3 DEF NestedCall
    <3>3. CASE w = 3
      <4>1. /\ call[p].read[1] \subseteq call[p].read[2]
            /\ call[p].read[2] \subseteq Window(WindowStart[2])
        BY <2>1, <3>3 DEF NestedCall
      <4>2. Window(WindowStart[2]) \subseteq x
        BY <3>3, LongerWindow
      <4>3. /\ c.read[1] = call[p].read[1] /\ c.read[2] = call[p].read[2] /\ c.read[3] = x
            /\ c.pc = "write"
        BY <2>3, <2>4, <3>3
      <4> QED BY <4>1, <4>2, <4>3 DEF NestedCall
    <3> QED BY <2>1, <3>1, <3>2, <3>3
  <2>6. call'[p] = c /\ \A q \in Proc : q # p => call'[q] = call[q]
    BY <1>6, CallOf DEF ReadWindow
  <2> HIDE DEF c
  <2>7. NestedCall(call[p])'
    BY <2>1, <2>5, <2>6 DEF NestedCall, Window
  <2> QED BY <1>3, <2>1, <2>6, <2>7
<1>7. ASSUME NEW p \in Proc, WriteBundle(p) PROVE NestedInvariant'
  <2>1. call'[p].pc = "archive" /\ \A q \in Proc : q # p => call'[q] = call[q]
    BY <1>1, <1>7 DEF WriteBundle, Call
  <2>2. ASSUME NEW q \in Proc PROVE NestedCall(call[q])'
    <3>1. CASE q = p BY <2>1, <3>1 DEF NestedCall
    <3>2. CASE q # p BY <1>2, <2>1, <3>2
    <3> QED BY <3>1, <3>2
  <2>3. WindowsNested'
    BY <1>7 DEF WriteBundle, At, NestedInvariant, NestedCall, WindowsNested
  <2> QED BY <2>2, <2>3 DEF NestedInvariant
<1>8. ASSUME NEW p \in Proc,
             \/ Retry(p) \/ CheckNas(p) \/ CopyNas(p) \/ PutArchive(p) \/ PutReport(p)
             \/ Unlock(p) \/ ReportRaises(p) \/ Crash(p)
      PROVE  NestedInvariant'
  <2>1. bundle' = bundle
    BY <1>8 DEF Retry, CheckNas, CopyNas, PutArchive, PutReport, Unlock, ReportRaises, Crash, reportVars
  <2>2. call'[p].pc \notin {"windows", "write"} /\ \A q \in Proc : q # p => call'[q] = call[q]
    <3>1. CASE Retry(p) BY <1>1, <3>1 DEF Retry, Enter, Idle
    <3>2. CASE CheckNas(p) BY <1>1, <3>2 DEF CheckNas, Goto, Call
    <3>3. CASE CopyNas(p) BY <1>1, <3>3 DEF CopyNas, Call
    <3>4. CASE PutArchive(p) BY <1>1, <3>4 DEF PutArchive, Goto, Call, Idle
    <3>5. CASE PutReport(p)
      <4>1. AfterReport(p).pc \in {"archive", "unlock"}
        BY <1>1 DEF AfterReport, Unlocking, Idle, Call
      <4> QED BY <3>5, <4>1, CallOf DEF PutReport
    <3>6. CASE Unlock(p) BY <1>1, <3>6, IdlePc DEF Unlock
    <3>7. CASE ReportRaises(p) BY <1>1, <3>7 DEF ReportRaises, Unlocking, Idle
    <3>8. CASE Crash(p) BY <1>1, <3>8, IdlePc DEF Crash
    <3> QED BY <1>8, <3>1, <3>2, <3>3, <3>4, <3>5, <3>6, <3>7, <3>8
  <2>3. NestedCall(call[p])'
    BY <2>2 DEF NestedCall
  <2> QED BY <1>3, <2>1, <2>2, <2>3
<1>9. CASE UNCHANGED call /\ UNCHANGED reportVars
  <2>1. \A q \in Proc : NestedCall(call[q])'
    BY <1>2, <1>9
  <2> QED BY <1>9, <2>1 DEF NestedInvariant, WindowsNested, reportVars
<1> QED BY <1>4, <1>5, <1>6, <1>7, <1>8, <1>9 DEF Next, ReportStep, Tick, vars, hourlyVars

(***************************************************************************)
(* The three windows of a bundle are nested, however many runs are added   *)
(* between the transactions that read them.                                *)
(***************************************************************************)
THEOREM WindowsAreNested == Spec => []WindowsNested
<1>1. Init => NestedInvariant
  BY IdlePc DEF Init, HourlyInit, ReportInit, NestedInvariant, NestedCall, WindowsNested
<1>2. NestedInvariant => WindowsNested
  BY DEF NestedInvariant
<1> QED BY <1>1, <1>2, TypeInit, TypeStep, NestedStep, PTL DEF Spec

-------------------------------------------------------------------------------
(* Receipts of the hourly runs.  From the first step of a call on the      *)
(* enabled rows are configured ones, and a run accounts for every asset it *)
(* covered: still to be stored, being bound, or bound.                     *)

TruthfulCall(c, known) ==
    /\ c.pc \in {"rows", "acquire"} \cup HoldsLock => c.assets \subseteq Configured
    /\ c.pc \in {"store", "bind"} =>
         \A a \in c.active : \/ a \in c.left
                             \/ c.pc = "bind" /\ a = c.item
                             \/ <<<<SlotOf(c.sched), c.attempt>>, a>> \in known

TruthInvariant ==
    /\ ReceiptTruthful
    /\ \A p \in Proc : TruthfulCall(call[p], bound)
    /\ \A p \in Proc : call[p].pc \in {"sync", "list"} => enabled \subseteq Configured

LEMMA TruthFrame ==
  ASSUME TruthInvariant, NEW p \in Proc, bound \subseteq bound',
         TruthfulCall(call'[p], bound'), \A q \in Proc : q # p => call'[q] = call[q]
  PROVE  \A q \in Proc : TruthfulCall(call[q], bound)'
<1>1. ASSUME NEW q \in Proc, q # p PROVE TruthfulCall(call'[q], bound')
  <2>1. TruthfulCall(call[q], bound)
    BY DEF TruthInvariant
  <2>2. TruthfulCall(call[q], bound')
    BY <2>1 DEF TruthfulCall
  <2> QED BY <1>1, <2>2
<1>2. \A q \in Proc : TruthfulCall(call'[q], bound')
  BY <1>1
<1> QED BY <1>2 DEF TruthfulCall, HoldsLock

LEMMA TruthElsewhere ==
  ASSUME TruthInvariant, NEW p \in Proc, bound \subseteq bound', runs' = runs, enabled' = enabled,
         TruthfulCall(call'[p], bound'), \A q \in Proc : q # p => call'[q] = call[q],
         call'[p].pc \notin {"sync", "list"} \/ call[p].pc \in {"sync", "list"}
  PROVE  TruthInvariant'
<1>1. \A q \in Proc : TruthfulCall(call[q], bound)'
  BY TruthFrame
<1>2. ReceiptTruthful'
  BY DEF TruthInvariant, ReceiptTruthful
<1>3. \A q \in Proc : call'[q].pc \in {"sync", "list"} => enabled' \subseteq Configured
  BY DEF TruthInvariant
<1> QED BY <1>1, <1>2, <1>3 DEF TruthInvariant

LEMMA TruthfulPlaces ==
  ASSUME NEW c, NEW known, c.pc \notin {"rows", "acquire"} \cup HoldsLock
  PROVE  TruthfulCall(c, known)
BY DEF TruthfulCall, HoldsLock

LEMMA TruthBefore ==
  ASSUME TypeInvariant, TruthInvariant, NEW p \in Proc,
         \/ Begin(p, "hourly") \/ Begin(p, "initialize") \/ Upsert(p)
         \/ ListIds(p) \/ ReadRow(p) \/ ReadClock(p)
  PROVE  TruthInvariant'
<1>1. call[p] \in Call /\ call \in [Proc -> Call] /\ Shape(call[p]) /\ TruthfulCall(call[p], bound)
  BY DEF TypeInvariant, TypeOK, TruthInvariant
<1>2. bound' = bound /\ runs' = runs /\ ReceiptTruthful'
  BY DEF Begin, Upsert, ListIds, ReadRow, ReadClock, TruthInvariant, ReceiptTruthful
<1>3. ASSUME NEW use, Begin(p, use) PROVE TruthInvariant'
  <2>1. call'[p].pc = "sync" /\ \A q \in Proc : q # p => call'[q] = call[q]
    BY <1>1, <1>3 DEF Begin, Enter, Idle
  <2>2. TruthfulCall(call'[p], bound')
    BY <2>1, TruthfulPlaces DEF HoldsLock
  <2>3. \A q \in Proc : TruthfulCall(call[q], bound)'
    BY <1>2, <2>1, <2>2, TruthFrame
  <2>4. enabled' = {}
    BY <1>3 DEF Begin, AfterDisable
  <2> QED BY <1>2, <2>3, <2>4 DEF TruthInvariant
<1>4. CASE Upsert(p)
  <2>1. AfterUpsert(p).pc \in {"idle", "list", "sync"}
    BY <1>1, <1>4 DEF Upsert, At, AfterUpsert, Idle, Call
  <2>2. call'[p] = AfterUpsert(p) /\ \A q \in Proc : q # p => call'[q] = call[q]
    BY <1>4, CallOf DEF Upsert
  <2>3. TruthfulCall(call'[p], bound')
    BY <2>1, <2>2, TruthfulPlaces DEF HoldsLock
  <2>4. \A q \in Proc : TruthfulCall(call[q], bound)'
    BY <1>2, <2>2, <2>3, TruthFrame
  <2>5. enabled' \subseteq Configured
    <3>1. enabled \subseteq Configured /\ call[p].todo \in 1..Len(Inventory)
      BY <1>1, <1>4 DEF Upsert, At, Shape, TruthInvariant
    <3>2. Inventory[call[p].todo] \in Configured
      BY <3>1, Constants
    <3> QED BY <1>4, <3>1, <3>2 DEF Upsert
  <2> QED BY <1>2, <2>4, <2>5 DEF TruthInvariant
<1>5. CASE ListIds(p)
  <2>1. /\ call'[p].pc = "rows" /\ call'[p].assets = enabled /\ enabled \subseteq Configured
        /\ \A q \in Proc : q # p => call'[q] = call[q]
    BY <1>1, <1>5 DEF ListIds, At, Call, TruthInvariant
  <2>2. TruthfulCall(call'[p], bound')
    BY <2>1 DEF TruthfulCall
  <2> QED BY <1>2, <1>5, <2>1, <2>2, TruthElsewhere DEF ListIds
<1>6. CASE ReadRow(p)
  <2>1. /\ call'[p].pc = "rows" /\ call'[p].assets = call[p].assets
        /\ \A q \in Proc : q # p => call'[q] = call[q]
    BY <1>1, <1>6 DEF ReadRow, At, Call
  <2>2. TruthfulCall(call'[p], bound')
    BY <1>1, <1>6, <2>1 DEF ReadRow, At, TruthfulCall
  <2> QED BY <1>2, <1>6, <2>1, <2>2, TruthElsewhere DEF ReadRow
<1>7. CASE ReadClock(p)
  <2>1. /\ call'[p].pc = "acquire" /\ call'[p].assets = call[p].assets
        /\ \A q \in Proc : q # p => call'[q] = call[q]
    BY <1>1, <1>7 DEF ReadClock, At, Call
  <2>2. TruthfulCall(call'[p], bound')
    BY <1>1, <1>7, <2>1 DEF ReadClock, At, TruthfulCall
  <2> QED BY <1>2, <1>7, <2>1, <2>2, TruthElsewhere DEF ReadClock
<1> QED BY <1>3, <1>4, <1>5, <1>6, <1>7

LEMMA TruthCollect ==
  ASSUME TypeInvariant, TruthInvariant, NEW p \in Proc,
         \/ Acquire(p) \/ NextAttempt(p) \/ Collect(p) \/ StoreObservation(p) \/ BindContext(p)
  PROVE  TruthInvariant'
<1>1. call[p] \in Call /\ call \in [Proc -> Call] /\ TruthfulCall(call[p], bound)
  BY DEF TypeInvariant, TypeOK, TruthInvariant
<1>2. runs' = runs /\ enabled' = enabled
  BY DEF Acquire, NextAttempt, Collect, StoreObservation, BindContext
<1>3. call[p].assets \subseteq Configured
  BY <1>1 DEF Acquire, NextAttempt, Collect, StoreObservation, BindContext, At, TruthfulCall, HoldsLock
<1>4. CASE Acquire(p) \/ NextAttempt(p)
  <2>1. /\ call'[p].pc \in {"locked", "insert"} /\ call'[p].assets = call[p].assets
        /\ \A q \in Proc : q # p => call'[q] = call[q]
    BY <1>1, <1>4 DEF Acquire, NextAttempt, Goto, Call
  <2>2. TruthfulCall(call'[p], bound')
    BY <1>3, <2>1 DEF TruthfulCall
  <2>3. bound' = bound
    BY <1>4 DEF Acquire, NextAttempt
  <2> QED BY <1>2, <2>1, <2>2, <2>3, TruthElsewhere
<1>5. CASE Collect(p)
  <2>1. PICK covered \in SUBSET call[p].active :
          call' = [call EXCEPT ![p].pc = "store", ![p].active = covered, ![p].left = covered]
    BY <1>5 DEF Collect
  <2>2. /\ call'[p].pc = "store" /\ call'[p].assets = call[p].assets
        /\ call'[p].active = covered /\ call'[p].left = covered
        /\ \A q \in Proc : q # p => call'[q] = call[q]
    BY <1>1, <2>1 DEF Call
  <2>3. TruthfulCall(call'[p], bound')
    BY <1>3, <2>2 DEF TruthfulCall
  <2> QED BY <1>2, <1>5, <2>2, <2>3, TruthElsewhere DEF Collect
<1>6. CASE StoreObservation(p)
  <2>1. PICK a \in call[p].left :
          call' = [call EXCEPT ![p].pc = "bind", ![p].item = a, ![p].left = @ \ {a}]
    BY <1>6 DEF StoreObservation
  <2>2. /\ call'[p].pc = "bind" /\ call'[p].assets = call[p].assets /\ call'[p].item = a
        /\ call'[p].active = call[p].active /\ call'[p].left = call[p].left \ {a}
        /\ call'[p].sched = call[p].sched /\ call'[p].attempt = call[p].attempt
        /\ \A q \in Proc : q # p => call'[q] = call[q]
    BY <1>1, <2>1 DEF Call
  <2>3. bound' = bound /\ call[p].pc = "store"
    BY <1>6 DEF StoreObservation, At
  <2>4. TruthfulCall(call'[p], bound')
    BY <1>1, <1>3, <2>2, <2>3 DEF TruthfulCall
  <2> QED BY <1>2, <2>2, <2>3, <2>4, TruthElsewhere
<1>7. CASE BindContext(p)
  <2>1. /\ call'[p].pc = "store" /\ call'[p].assets = call[p].assets
        /\ call'[p].active = call[p].active /\ call'[p].left = call[p].left
        /\ call'[p].sched = call[p].sched /\ call'[p].attempt = call[p].attempt
        /\ \A q \in Proc : q # p => call'[q] = call[q]
    BY <1>1, <1>7 DEF BindContext, Call
  <2>2. /\ call[p].pc = "bind"
        /\ bound' = bound \cup {<<<<SlotOf(call[p].sched), call[p].attempt>>, call[p].item>>}
    BY <1>7 DEF BindContext, At, Evidence, SlotIn
  <2>3. TruthfulCall(call'[p], bound')
    BY <1>1, <1>3, <2>1, <2>2 DEF TruthfulCall
  <2> QED BY <1>2, <2>1, <2>2, <2>3, TruthElsewhere
<1> QED BY <1>4, <1>5, <1>6, <1>7

LEMMA TruthWrite ==
  ASSUME TypeInvariant, TruthInvariant, NEW p \in Proc, InsertReceipt(p) \/ Finalize(p)
  PROVE  TruthInvariant'
<1>1. call[p] \in Call /\ call \in [Proc -> Call] /\ TruthfulCall(call[p], bound)
  BY DEF TypeInvariant, TypeOK, TruthInvariant
<1>2. bound' = bound /\ enabled' = enabled
  BY DEF InsertReceipt, Finalize
<1>3. call[p].assets \subseteq Configured
  BY <1>1 DEF InsertReceipt, Finalize, MayFinalize, At, TruthfulCall, HoldsLock
<1>4. /\ call'[p].pc \in {"collect", "release"} /\ TruthfulCall(call'[p], bound')
      /\ \A q \in Proc : q # p => call'[q] = call[q]
  <2>1. CASE InsertReceipt(p)
    <3>1. /\ call'[p].pc = "collect" /\ call'[p].assets = call[p].assets
          /\ \A q \in Proc : q # p => call'[q] = call[q]
      BY <1>1, <2>1 DEF InsertReceipt, Goto, Call
    <3> QED BY <1>3, <3>1 DEF TruthfulCall
  <2>2. CASE Finalize(p)
    BY <2>2, LeaveCall, TruthfulPlaces DEF Finalize, HoldsLock
  <2> QED BY <2>1, <2>2
<1>5. \A q \in Proc : TruthfulCall(call[q], bound)'
  BY <1>2, <1>4, TruthFrame
<1>6. ReceiptTruthful'
  <2>1. CASE InsertReceipt(p)
    <3> DEFINE r == Receipt(p, "collecting", {})
    <3>1. r.expected = call[p].assets /\ r.status = "collecting"
      BY DEF Receipt
    <3>2. runs' = runs \cup {r}
      BY <2>1 DEF InsertReceipt
    <3> HIDE DEF r
    <3> QED BY <1>2, <1>3, <3>1, <3>2 DEF TruthInvariant, ReceiptTruthful
  <2>2. CASE Finalize(p)
    <3> DEFINE r == Receipt(p, FinalStatus(p), call[p].active)
    <3>1. /\ r.expected = call[p].assets /\ r.seen = call[p].active
          /\ r.slot = SlotOf(call[p].sched) /\ r.attempt = call[p].attempt
      BY DEF Receipt, SlotIn
    <3>2. runs' \subseteq runs \cup {r}
      BY <2>2 DEF Finalize
    <3>3. \A a \in call[p].active : <<<<SlotOf(call[p].sched), call[p].attempt>>, a>> \in bound
      BY <1>1, <2>2 DEF Finalize, MayFinalize, At, TruthfulCall
    <3> HIDE DEF r
    <3>4. \A a \in r.seen : <<<<r.slot, r.attempt>>, a>> \in bound
      BY <3>1, <3>3
    <3> QED BY <1>2, <1>3, <3>1, <3>2, <3>4 DEF TruthInvariant, ReceiptTruthful
  <2> QED BY <2>1, <2>2
<1>7. \A q \in Proc : call'[q].pc \in {"sync", "list"} => enabled' \subseteq Configured
  BY <1>2, <1>4 DEF TruthInvariant
<1> QED BY <1>5, <1>6, <1>7 DEF TruthInvariant

LEMMA TruthStep == TypeInvariant /\ TruthInvariant /\ [Next]_vars => TruthInvariant'
<1> SUFFICES ASSUME TypeInvariant, TruthInvariant, [Next]_vars PROVE TruthInvariant'
  OBVIOUS
<1>1. call \in [Proc -> Call]
  BY DEF TypeInvariant, TypeOK
<1>2. ASSUME NEW p \in Proc, bound' = bound, runs' = runs, enabled' = enabled,
             \A q \in Proc : q # p => call'[q] = call[q],
             call'[p].pc \in Reporting \cup {"idle", "release", "unlock"}
      PROVE  TruthInvariant'
  <2>1. TruthfulCall(call'[p], bound') /\ call'[p].pc \notin {"sync", "list"}
    BY <1>2, TruthfulPlaces DEF HoldsLock, Reporting, Archiving
  <2> QED BY <1>2, <2>1, TruthElsewhere
<1>3. ASSUME NEW p \in Proc, Replay(p) \/ Release(p) \/ HourlyRaises(p) PROVE TruthInvariant'
  <2>1. call'[p].pc \in {"idle", "release"} /\ \A q \in Proc : q # p => call'[q] = call[q]
    BY <1>3, CallOf, IdlePc, LeaveCall DEF Replay, Release, HourlyRaises
  <2> QED BY <1>2, <1>3, <2>1 DEF Replay, Release, HourlyRaises
<1>4. ASSUME NEW p \in Proc, HourlyStep(p) PROVE TruthInvariant'
  BY <1>3, <1>4, TruthBefore, TruthCollect, TruthWrite DEF HourlyStep
<1>5. ASSUME NEW p \in Proc, ReportStep(p) \/ Crash(p) PROVE TruthInvariant'
  <2>1. bound' = bound /\ runs' = runs /\ enabled' = enabled
    BY <1>5 DEF ReportStep, OpenCycle, ReadWindow, WriteBundle, Retry, CheckNas, CopyNas,
                PutArchive, PutReport, Unlock, ReportRaises, Crash
  <2>2. /\ call'[p].pc \in Reporting \cup {"idle", "unlock"}
        /\ \A q \in Proc : q # p => call'[q] = call[q]
    BY <1>5, CallOf, IdlePc, ReportElsewhere DEF Crash
  <2> QED BY <1>2, <2>1, <2>2
<1>6. CASE UNCHANGED <<call, bound, runs, enabled>>
  BY <1>6 DEF TruthInvariant, TruthfulCall, ReceiptTruthful
<1> QED BY <1>4, <1>5, <1>6 DEF Next, Tick, vars, hourlyVars

(***************************************************************************)
(* Receipts tell the truth: no run expects an asset that is not            *)
(* configured, and a terminal receipt counts only assets whose evidence    *)
(* and context are stored, however the synchronizations of other calls     *)
(* overlap with the run.                                                   *)
(***************************************************************************)
THEOREM ReceiptsAreTruthful == Spec => []ReceiptTruthful
<1>1. Init => TruthInvariant
  BY IdlePc, TruthfulPlaces DEF Init, HourlyInit, TruthInvariant, ReceiptTruthful, HoldsLock
<1>2. TruthInvariant => ReceiptTruthful
  BY DEF TruthInvariant
<1> QED BY <1>1, <1>2, TypeInit, TypeStep, TruthStep, PTL DEF Spec

-------------------------------------------------------------------------------
(* Finality.  A run of the timer that holds the lock of its hour is not    *)
(* older than RunCap, so its lock is not stale and nobody takes it; when   *)
(* nobody took one from another run at work either, one run at a time      *)
(* works on the hour, and the hour is open as long as it does.             *)

OwnerCall(p, c) ==
    /\ c.pc \in {"acquire"} \cup HoldsLock =>
         c.started <= clock /\ (p \in Timed => clock - c.started <= RunCap)
    /\ c.pc \in HoldsLock /\ SlotOf(c.sched) \notin outlived => lock[SlotOf(c.sched)] = [owner |-> p, at |-> c.started]

OwnerInvariant == \A p \in Proc : OwnerCall(p, call[p])

LEMMA HolderAlone ==
  ASSUME OwnerInvariant, NEW p \in Proc, NEW q \in Proc, p # q,
         call[p].pc \in HoldsLock, call[q].pc \in HoldsLock,
         SlotOf(call[p].sched) \notin outlived
  PROVE  SlotOf(call[p].sched) # SlotOf(call[q].sched)
<1> SUFFICES ASSUME SlotOf(call[p].sched) = SlotOf(call[q].sched) PROVE FALSE
  OBVIOUS
<1>1. [owner |-> p, at |-> call[p].started] = [owner |-> q, at |-> call[q].started]
  BY DEF OwnerInvariant, OwnerCall
<1> QED BY <1>1

LEMMA OwnerKeeps ==
  ASSUME OwnerInvariant, NEW p \in Proc, UNCHANGED <<clock, lock, outlived>>,
         \A q \in Proc : q # p => call'[q] = call[q],
         \/ call'[p].pc \notin {"acquire"} \cup HoldsLock
         \/ /\ call[p].pc \in HoldsLock
            /\ call'[p].sched = call[p].sched /\ call'[p].started = call[p].started
  PROVE  OwnerInvariant'
<1>1. OwnerCall(p, call'[p])
  BY DEF OwnerInvariant, OwnerCall, HoldsLock
<1>2. \A q \in Proc : OwnerCall(q, call'[q])
  BY <1>1 DEF OwnerInvariant
<1> QED BY <1>2 DEF OwnerInvariant, OwnerCall

LEMMA OwnerAcquire ==
  ASSUME TypeInvariant, OwnerInvariant, NEW p \in Proc, Acquire(p)
  PROVE  OwnerInvariant'
<1>1. call[p] \in Call /\ call \in [Proc -> Call] /\ SlotIn(p) \in Slot /\ clock \in 0..MaxTime
      /\ lock \in [Slot -> {None} \cup [owner : Proc, at : 0..MaxTime]]
  BY SlotInIs DEF TypeInvariant, TypeOK
<1>2. /\ call'[p].pc = "locked" /\ call'[p].sched = call[p].sched
      /\ call'[p].started = call[p].started
      /\ \A q \in Proc : q # p => call'[q] = call[q]
  BY <1>1 DEF Acquire, Goto, Call
<1>3. /\ lock' = [lock EXCEPT ![SlotIn(p)] = [owner |-> p, at |-> call[p].started]]
      /\ clock' = clock /\ call[p].pc = "acquire"
  BY DEF Acquire, At
<1>4. call[p].started <= clock /\ (p \in Timed => clock - call[p].started <= RunCap)
  BY <1>3 DEF OwnerInvariant, OwnerCall
<1>7. outlived' = outlived \cup {s \in {SlotIn(p)} : OwnerAtWork(s)}
  BY DEF Acquire
<1>5. OwnerCall(p, call[p])'
  BY <1>1, <1>2, <1>3, <1>4 DEF OwnerCall, SlotIn
<1>6. ASSUME NEW q \in Proc, q # p PROVE OwnerCall(q, call[q])'
  <2>1. OwnerCall(q, call[q]) /\ call[q] \in Call /\ SlotOf(call[q].sched) \in Slot
    BY SlotInIs DEF OwnerInvariant, TypeInvariant, TypeOK, SlotIn
  <2>2. ASSUME call[q].pc \in HoldsLock, SlotOf(call[q].sched) \notin outlived'
        PROVE  SlotOf(call[q].sched) # SlotIn(p)
    <3> SUFFICES ASSUME SlotOf(call[q].sched) = SlotIn(p) PROVE FALSE
      OBVIOUS
    <3>1. /\ lock[SlotIn(p)] = [owner |-> q, at |-> call[q].started]
          /\ q \in Timed => clock - call[q].started <= RunCap
      BY <1>7, <2>1, <2>2 DEF OwnerCall
    <3>2. call[q].started \in 0..MaxTime /\ call[p].started \in 0..MaxTime
      BY <1>1, <2>1 DEF Call
    <3>3. [owner |-> q, at |-> call[q].started] \in [owner : Proc, at : 0..MaxTime]
      BY <3>2
    <3>4. lock[SlotIn(p)] # None /\ lock[SlotIn(p)].at = call[q].started
      BY <3>1, <3>3, MonitoringAssumption
    <3>5. call[p].started - call[q].started > StaleAfter
      BY <3>4 DEF Acquire, IsStale
    <3>6. /\ StaleAfter \in Nat /\ RunCap \in Nat /\ RunCap <= StaleAfter /\ clock \in Nat
          /\ call[p].started \in Nat /\ call[q].started \in Nat
      BY <1>1, <3>2, MonitoringAssumption
    <3>7. q \in Timed
      <4> SUFFICES ASSUME q \notin Timed PROVE FALSE
        OBVIOUS
      <4>1. lock[SlotIn(p)].owner = q /\ SlotIn(q) = SlotIn(p)
        BY <3>1 DEF SlotIn
      <4>2. OwnerAtWork(SlotIn(p))
        BY <2>2, <3>4, <4>1 DEF OwnerAtWork
      <4> QED BY <1>7, <2>2, <4>2
    <3> QED BY <1>4, <3>1, <3>5, <3>6, <3>7
  <2>3. call[q].pc \in HoldsLock /\ SlotOf(call[q].sched) \notin outlived' => lock'[SlotOf(call[q].sched)] = lock[SlotOf(call[q].sched)]
    BY <1>1, <1>3, <2>1, <2>2
  <2>4. outlived \subseteq outlived'
    BY <1>7
  <2> QED BY <1>2, <1>3, <1>6, <2>1, <2>3, <2>4 DEF OwnerCall
<1> QED BY <1>5, <1>6 DEF OwnerInvariant

LEMMA OwnerRelease ==
  ASSUME TypeInvariant, OwnerInvariant, NEW p \in Proc, Release(p)
  PROVE  OwnerInvariant'
<1>1. call \in [Proc -> Call] /\ SlotIn(p) \in Slot
      /\ lock \in [Slot -> {None} \cup [owner : Proc, at : 0..MaxTime]]
  BY SlotInIs DEF TypeInvariant, TypeOK
<1>2. call'[p].pc = "idle" /\ (\A q \in Proc : q # p => call'[q] = call[q])
      /\ clock' = clock /\ outlived' = outlived
  BY CallOf, IdlePc DEF Release
<1>3. OwnerCall(p, call[p])'
  BY <1>2 DEF OwnerCall, HoldsLock
<1>4. ASSUME NEW q \in Proc, q # p PROVE OwnerCall(q, call[q])'
  <2>1. OwnerCall(q, call[q]) /\ SlotOf(call[q].sched) \in Slot
    BY SlotInIs DEF OwnerInvariant, SlotIn
  <2>2. ASSUME call[q].pc \in HoldsLock, SlotOf(call[q].sched) \notin outlived
        PROVE  lock'[SlotOf(call[q].sched)] = lock[SlotOf(call[q].sched)]
    <3>1. lock[SlotOf(call[q].sched)] = [owner |-> q, at |-> call[q].started]
      BY <2>1, <2>2 DEF OwnerCall
    <3>2. lock[SlotOf(call[q].sched)].owner # p
      BY <1>4, <3>1
    <3> QED BY <1>1, <2>1, <3>2 DEF Release
  <2> QED BY <1>2, <1>4, <2>1, <2>2 DEF OwnerCall
<1> QED BY <1>3, <1>4 DEF OwnerInvariant

LEMMA OwnerStep == TypeInvariant /\ OwnerInvariant /\ [Next]_vars => OwnerInvariant'
<1> SUFFICES ASSUME TypeInvariant, OwnerInvariant, [Next]_vars PROVE OwnerInvariant'
  OBVIOUS
<1>1. call \in [Proc -> Call]
  BY DEF TypeInvariant, TypeOK
<1>2. ASSUME NEW p \in Proc, Begin(p, "hourly") \/ Begin(p, "initialize") \/ Upsert(p)
                             \/ ListIds(p) \/ ReadRow(p)
      PROVE  OwnerInvariant'
  <2>1. call'[p].pc \notin {"acquire"} \cup HoldsLock
    <3>1. CASE Begin(p, "hourly") \/ Begin(p, "initialize")
      BY <1>1, <3>1 DEF Begin, Enter, Idle, HoldsLock
    <3>2. CASE Upsert(p)
      <4>1. AfterUpsert(p).pc \in {"idle", "list", "sync"}
        BY <1>1, <3>2 DEF Upsert, At, AfterUpsert, Idle, Call
      <4> QED BY <3>2, <4>1, CallOf DEF Upsert, HoldsLock
    <3>3. CASE ListIds(p) \/ ReadRow(p)
      BY <1>1, <3>3 DEF ListIds, ReadRow, At, HoldsLock, Call
    <3> QED BY <1>2, <3>1, <3>2, <3>3
  <2>2. \A q \in Proc : q # p => call'[q] = call[q]
    BY <1>2, HourlyElsewhere DEF HourlyStep
  <2>3. UNCHANGED <<clock, lock, outlived>>
    BY <1>2 DEF Begin, Upsert, ListIds, ReadRow
  <2> QED BY <2>1, <2>2, <2>3, OwnerKeeps
<1>3. ASSUME NEW p \in Proc, ReadClock(p) PROVE OwnerInvariant'
  <2>1. /\ call'[p].pc = "acquire" /\ call'[p].started = clock
        /\ clock' = clock /\ lock' = lock /\ outlived' = outlived
        /\ \A q \in Proc : q # p => call'[q] = call[q]
    BY <1>1, <1>3 DEF ReadClock, Call
  <2>2. clock <= clock /\ clock - clock <= RunCap
    BY MonitoringAssumption DEF TypeInvariant, TypeOK
  <2>3. OwnerCall(p, call[p])'
    BY <2>1, <2>2 DEF OwnerCall, HoldsLock
  <2>4. ASSUME NEW q \in Proc, q # p PROVE OwnerCall(q, call[q])'
    BY <2>1, <2>4 DEF OwnerInvariant, OwnerCall
  <2> QED BY <2>3, <2>4 DEF OwnerInvariant
<1>4. ASSUME NEW p \in Proc, \/ NextAttempt(p) \/ InsertReceipt(p) \/ Collect(p)
                             \/ StoreObservation(p) \/ BindContext(p)
      PROVE  OwnerInvariant'
  <2>1. /\ call[p].pc \in HoldsLock
        /\ call'[p].sched = call[p].sched /\ call'[p].started = call[p].started
    <3>1. CASE NextAttempt(p) BY <1>1, <3>1 DEF NextAttempt, At, HoldsLock, Call
    <3>2. CASE InsertReceipt(p) BY <1>1, <3>2 DEF InsertReceipt, Goto, At, HoldsLock, Call
    <3>3. CASE Collect(p) BY <1>1, <3>3 DEF Collect, At, HoldsLock, Call
    <3>4. CASE StoreObservation(p) BY <1>1, <3>4 DEF StoreObservation, At, HoldsLock, Call
    <3>5. CASE BindContext(p) BY <1>1, <3>5 DEF BindContext, At, HoldsLock, Call
    <3> QED BY <1>4, <3>1, <3>2, <3>3, <3>4, <3>5
  <2>2. \A q \in Proc : q # p => call'[q] = call[q]
    BY <1>4, HourlyElsewhere DEF HourlyStep
  <2>3. UNCHANGED <<clock, lock, outlived>>
    BY <1>4 DEF NextAttempt, InsertReceipt, Collect, StoreObservation, BindContext
  <2> QED BY <2>1, <2>2, <2>3, OwnerKeeps
<1>5. ASSUME NEW p \in Proc, Replay(p) \/ Finalize(p) \/ HourlyRaises(p) \/ Crash(p)
      PROVE  OwnerInvariant'
  <2>1. call'[p].pc \in {"idle", "release"} /\ \A q \in Proc : q # p => call'[q] = call[q]
    BY <1>5, CallOf, IdlePc, LeaveCall DEF Replay, Finalize, HourlyRaises, Crash
  <2>2. UNCHANGED <<clock, lock, outlived>>
    BY <1>5 DEF Replay, Finalize, HourlyRaises, Crash
  <2> QED BY <2>1, <2>2, OwnerKeeps DEF HoldsLock
<1>6. ASSUME NEW p \in Proc, HourlyStep(p) PROVE OwnerInvariant'
  BY <1>2, <1>3, <1>4, <1>5, <1>6, OwnerAcquire, OwnerRelease DEF HourlyStep
<1>7. ASSUME NEW p \in Proc, ReportStep(p) PROVE OwnerInvariant'
  <2>1. call'[p].pc \notin {"acquire"} \cup HoldsLock /\ \A q \in Proc : q # p => call'[q] = call[q]
    BY <1>7, ReportElsewhere DEF HoldsLock, Reporting, Archiving
  <2>2. UNCHANGED <<clock, lock, outlived>>
    BY <1>7 DEF ReportStep, OpenCycle, ReadWindow, WriteBundle, Retry, CheckNas, CopyNas,
                PutArchive, PutReport, Unlock, ReportRaises
  <2> QED BY <2>1, <2>2, OwnerKeeps
<1>8. CASE Tick
  <2>1. /\ clock' = clock + 1 /\ call' = call /\ lock' = lock /\ outlived' = outlived
        /\ \A p \in Running \cap Timed : clock - call[p].started < RunCap
    BY <1>8 DEF Tick
  <2>2. ASSUME NEW p \in Proc PROVE OwnerCall(p, call[p])'
    <3>1. call[p].started \in Nat /\ clock \in Nat /\ RunCap \in Nat
      BY <1>1, MonitoringAssumption DEF Call, TypeInvariant, TypeOK
    <3>2. OwnerCall(p, call[p])
      BY DEF OwnerInvariant
    <3>3. call[p].pc \in {"acquire"} \cup HoldsLock =>
             call[p].started <= clock + 1 /\ (p \in Timed => clock + 1 - call[p].started <= RunCap)
      BY <2>1, <3>1, <3>2 DEF OwnerCall, Running
    <3>4. call'[p].pc \in {"acquire"} \cup HoldsLock =>
             call'[p].started <= clock' /\ (p \in Timed => clock' - call'[p].started <= RunCap)
      BY <2>1, <3>1, <3>3
    <3>5. call'[p].pc \in HoldsLock /\ SlotOf(call'[p].sched) \notin outlived' =>
             lock'[SlotOf(call'[p].sched)] = [owner |-> p, at |-> call'[p].started]
      BY <2>1, <3>2 DEF OwnerCall
    <3> QED BY <3>4, <3>5, Zenon DEF OwnerCall, HoldsLock
  <2> QED BY <2>2 DEF OwnerInvariant
<1>9. CASE UNCHANGED vars
  BY <1>9 DEF vars, hourlyVars, OwnerInvariant, OwnerCall
<1> QED BY <1>5, <1>6, <1>7, <1>8, <1>9 DEF Next

Working == {"insert", "collect", "store", "bind"}

(* What a run at work knows of the runs of its hour.                       *)
OpenCall(c, table) ==
    SlotOf(c.sched) \notin outlived =>
      /\ c.pc \in Working =>
           \A r \in table : r.slot = SlotOf(c.sched) => r.status = "collecting"
      /\ c.pc = "insert" =>
           \A r \in table : r.slot = SlotOf(c.sched) => r.attempt < c.attempt
      /\ c.pc \in Working \ {"insert"} =>
           \A r \in table : r.slot = SlotOf(c.sched) => r.attempt <= c.attempt

TerminalIsLast(table) ==
    \A r \in table, s \in table :
        r.slot = s.slot /\ r.status # "collecting" /\ r.slot \notin outlived => s.attempt <= r.attempt

FinalInvariant ==
    /\ OwnerInvariant
    /\ TerminalIsLast(runs)
    /\ \A p \in Proc : OpenCall(call[p], runs)

(* The table changes only in the hour of one run that is at work.          *)
LEMMA OpenFrame ==
  ASSUME FinalInvariant, NEW p \in Proc, call[p].pc \in HoldsLock,
         \A r \in runs' : r \in runs \/ r.slot = SlotOf(call[p].sched),
         \A q \in Proc : q # p => call'[q] = call[q], outlived' = outlived,
         OpenCall(call'[p], runs'), TerminalIsLast(runs'), OwnerInvariant'
  PROVE  FinalInvariant'
<1>1. ASSUME NEW q \in Proc, q # p PROVE OpenCall(call'[q], runs')
  <2>1. OpenCall(call[q], runs) /\ OwnerInvariant
    BY DEF FinalInvariant
  <2>2. call[q].pc \in Working /\ SlotOf(call[q].sched) \notin outlived =>
           SlotOf(call[q].sched) # SlotOf(call[p].sched)
    BY <1>1, <2>1, HolderAlone DEF Working, HoldsLock
  <2>3. OpenCall(call[q], runs')
    BY <2>1, <2>2 DEF OpenCall, Working
  <2> QED BY <1>1, <2>3
<1>2. \A q \in Proc : OpenCall(call'[q], runs')
  BY <1>1
<1>3. \A q \in Proc : OpenCall(call[q], runs)'
  BY <1>2 DEF OpenCall, Working
<1>4. TerminalIsLast(runs)'
  BY DEF TerminalIsLast
<1> QED BY <1>3, <1>4 DEF FinalInvariant

LEMMA OpenElsewhere ==
  ASSUME FinalInvariant, NEW p \in Proc, runs' = runs, OwnerInvariant', outlived \subseteq outlived',
         \A q \in Proc : q # p => call'[q] = call[q], OpenCall(call'[p], runs)
  PROVE  FinalInvariant'
<1>1. \A q \in Proc : OpenCall(call'[q], runs')
  BY DEF FinalInvariant
<1>2. \A q \in Proc : OpenCall(call[q], runs)'
  BY <1>1 DEF OpenCall, Working
<1>3. TerminalIsLast(runs)'
  BY DEF FinalInvariant, TerminalIsLast
<1> QED BY <1>2, <1>3 DEF FinalInvariant

LEMMA OpenPlaces ==
  ASSUME NEW c, NEW table, c.pc \notin Working
  PROVE  OpenCall(c, table)
BY DEF OpenCall, Working

LEMMA OpenAttempt ==
  ASSUME TypeInvariant, FinalInvariant, OwnerInvariant', NEW p \in Proc, NextAttempt(p)
  PROVE  FinalInvariant'
<1>1. call[p] \in Call /\ call \in [Proc -> Call] /\ SlotIn(p) \in Slot /\ TypeOK
      /\ runs \subseteq Run
  BY SlotInIs DEF TypeInvariant, TypeOK
<1> DEFINE s == SlotIn(p)
           last == LastAttempt(s)
<1>2. /\ call'[p].pc = "insert" /\ call'[p].sched = call[p].sched
      /\ call'[p].attempt = NextNumber(s)
      /\ \A q \in Proc : q # p => call'[q] = call[q]
  BY <1>1 DEF NextAttempt, Call
<1>3. /\ last \in 0..MaxAttempt /\ last \in Attempts(s) \cup {0}
      /\ \A n \in Attempts(s) : n <= last
  BY <1>1, LastAttemptIs
<1>4. Terminal(s) = {} /\ runs' = runs /\ outlived' = outlived
  BY DEF NextAttempt
<1>5. ASSUME NEW r \in runs, r.slot = s PROVE r.attempt <= last /\ r.attempt \in 1..MaxAttempt
  BY <1>1, <1>3, <1>5 DEF Attempts, RunsOf, Run
<1>6. ASSUME NEW r \in runs, r.slot = s, s \notin outlived PROVE r.status = "collecting"
  <2> SUFFICES ASSUME r.status # "collecting" PROVE FALSE
    OBVIOUS
  <2>1. r.attempt <= last /\ r.attempt \in 1..MaxAttempt
    BY <1>5, <1>6
  <2>2. last # 0
    BY <2>1, <1>3, Constants
  <2>3. PICK t \in runs : t.slot = s /\ t.attempt = last
    BY <1>3, <2>2 DEF Attempts, RunsOf
  <2>4. last <= r.attempt
    BY <1>6, <2>3 DEF FinalInvariant, TerminalIsLast
  <2>5. r.attempt = last
    BY <1>3, <2>1, <2>4, Constants
  <2>6. r \in Terminal(s)
    BY <1>6, <2>5 DEF Terminal, RunsOf, IsTerminal
  <2> QED BY <1>4, <2>6
<1>7. \A r \in runs : r.slot = s => r.attempt < NextNumber(s)
  BY <1>3, <1>5, Constants DEF NextNumber
<1>8. OpenCall(call'[p], runs)
  <2>1. SlotOf(call'[p].sched) = s
    BY <1>2 DEF SlotIn
  <2> HIDE DEF s, last
  <2> QED BY <1>2, <1>6, <1>7, <2>1 DEF OpenCall, Working
<1> QED BY <1>2, <1>4, <1>8, OpenElsewhere

LEMMA OpenInsert ==
  ASSUME TypeInvariant, FinalInvariant, OwnerInvariant', NEW p \in Proc, InsertReceipt(p)
  PROVE  FinalInvariant'
<1> DEFINE new == Receipt(p, "collecting", {})
           s == SlotOf(call[p].sched)
<1>1. call[p] \in Call /\ call \in [Proc -> Call] /\ Shape(call[p]) /\ runs \subseteq Run
  BY DEF TypeInvariant, TypeOK
<1>2. /\ call'[p].pc = "collect" /\ call'[p].sched = call[p].sched
      /\ call'[p].attempt = call[p].attempt
      /\ \A q \in Proc : q # p => call'[q] = call[q]
  BY <1>1 DEF InsertReceipt, Goto, Call
<1>3. new.slot = s /\ new.attempt = call[p].attempt /\ new.status = "collecting"
  BY DEF Receipt, SlotIn
<1>4. runs' = runs \cup {new} /\ call[p].pc = "insert" /\ call[p].attempt \in 1..MaxAttempt
      /\ outlived' = outlived
  BY <1>1 DEF InsertReceipt, At, Shape
<1>5. \A r \in runs : r.attempt \in Int
  BY <1>1 DEF Run
<1>6. s \notin outlived =>
        \A r \in runs : r.slot = s => r.status = "collecting" /\ r.attempt < call[p].attempt
  BY <1>4 DEF FinalInvariant, OpenCall, Working
<1> HIDE DEF new, s
<1>7. s \notin outlived =>
        \A r \in runs' : r.slot = s => r.status = "collecting" /\ r.attempt <= call[p].attempt
  BY <1>3, <1>4, <1>5, <1>6
<1>8. OpenCall(call'[p], runs')
  BY <1>2, <1>7 DEF OpenCall, Working, s
<1>9. TerminalIsLast(runs')
  <2> SUFFICES ASSUME NEW r \in runs', NEW t \in runs', r.slot = t.slot, r.status # "collecting",
                      r.slot \notin outlived
               PROVE  t.attempt <= r.attempt
    BY DEF TerminalIsLast
  <2>1. r.slot # s
    BY <1>7
  <2>2. r \in runs /\ t \in runs
    BY <1>3, <1>4, <2>1
  <2> QED BY <2>2 DEF FinalInvariant, TerminalIsLast
<1> QED BY <1>2, <1>3, <1>4, <1>8, <1>9, OpenFrame DEF HoldsLock, s

LEMMA OpenFinalize ==
  ASSUME TypeInvariant, FinalInvariant, OwnerInvariant', NEW p \in Proc, Finalize(p)
  PROVE  FinalInvariant'
<1> DEFINE new == Receipt(p, FinalStatus(p), call[p].active)
           s == SlotOf(call[p].sched)
<1>1. call[p] \in Call /\ Shape(call[p]) /\ runs \subseteq Run
  BY DEF TypeInvariant, TypeOK
<1>2. call'[p].pc = "release" /\ \A q \in Proc : q # p => call'[q] = call[q]
  BY LeaveCall DEF Finalize
<1>3. new.slot = s /\ new.attempt = call[p].attempt
  BY DEF Receipt, SlotIn
<1>4. runs' \subseteq runs \cup {new} /\ call[p].pc = "store" /\ call[p].attempt \in 1..MaxAttempt
      /\ outlived' = outlived
  BY <1>1 DEF Finalize, MayFinalize, At, Shape
<1>5. s \notin outlived =>
        \A r \in runs : r.slot = s => r.status = "collecting" /\ r.attempt <= call[p].attempt
  BY <1>4 DEF FinalInvariant, OpenCall, Working
<1>6. OpenCall(call'[p], runs')
  BY <1>2, OpenPlaces DEF Working
<1> HIDE DEF new, s
<1>7. TerminalIsLast(runs')
  <2> SUFFICES ASSUME NEW r \in runs', NEW t \in runs', r.slot = t.slot, r.status # "collecting",
                      r.slot \notin outlived
               PROVE  t.attempt <= r.attempt
    BY DEF TerminalIsLast
  <2>1. CASE r.slot # s
    <3>1. r \in runs /\ t \in runs
      BY <1>3, <1>4, <2>1
    <3> QED BY <3>1 DEF FinalInvariant, TerminalIsLast
  <2>2. CASE r.slot = s
    <3>1. r = new
      BY <1>4, <1>5, <2>2
    <3>2. t = new \/ t.attempt <= call[p].attempt
      BY <1>4, <1>5, <2>2
    <3> QED BY <1>3, <1>4, <3>1, <3>2
  <2> QED BY <2>1, <2>2
<1>8. \A r \in runs' : r \in runs \/ r.slot = SlotOf(call[p].sched)
  BY <1>3, <1>4 DEF s
<1>9. call[p].pc \in HoldsLock
  BY <1>4 DEF HoldsLock
<1> QED BY <1>2, <1>4, <1>6, <1>7, <1>8, <1>9, OpenFrame

LEMMA FinalStep == TypeInvariant /\ FinalInvariant /\ [Next]_vars => FinalInvariant'
<1> SUFFICES ASSUME TypeInvariant, FinalInvariant, [Next]_vars PROVE FinalInvariant'
  OBVIOUS
<1>1. call \in [Proc -> Call] /\ OwnerInvariant'
  BY OwnerStep DEF TypeInvariant, TypeOK, FinalInvariant
<1>2. ASSUME NEW p \in Proc, Collect(p) \/ StoreObservation(p) \/ BindContext(p)
      PROVE  FinalInvariant'
  <2>1. /\ call[p].pc \in {"collect", "store", "bind"} /\ call'[p].pc \in {"store", "bind"}
        /\ call'[p].sched = call[p].sched /\ call'[p].attempt = call[p].attempt
    <3>1. CASE Collect(p) BY <1>1, <3>1 DEF Collect, At, Call
    <3>2. CASE StoreObservation(p) BY <1>1, <3>2 DEF StoreObservation, At, Call
    <3>3. CASE BindContext(p) BY <1>1, <3>3 DEF BindContext, At, Call
    <3> QED BY <1>2, <3>1, <3>2, <3>3
  <2>2. \A q \in Proc : q # p => call'[q] = call[q]
    BY <1>2, HourlyElsewhere DEF HourlyStep
  <2>3. OpenCall(call'[p], runs)
    BY <2>1 DEF FinalInvariant, OpenCall, Working
  <2>4. runs' = runs /\ outlived' = outlived
    BY <1>2 DEF Collect, StoreObservation, BindContext
  <2> QED BY <1>1, <2>2, <2>3, <2>4, OpenElsewhere
<1>3. ASSUME NEW p \in Proc, runs' = runs, call'[p].pc \notin Working, outlived \subseteq outlived',
             \A q \in Proc : q # p => call'[q] = call[q]
      PROVE  FinalInvariant'
  BY <1>1, <1>3, OpenPlaces, OpenElsewhere
<1>4. ASSUME NEW p \in Proc,
             \/ Begin(p, "hourly") \/ Begin(p, "initialize") \/ Upsert(p) \/ ListIds(p)
             \/ ReadRow(p) \/ ReadClock(p) \/ Acquire(p) \/ Replay(p) \/ Release(p) \/ HourlyRaises(p)
      PROVE  FinalInvariant'
  <2>1. \A q \in Proc : q # p => call'[q] = call[q]
    BY <1>4, HourlyElsewhere DEF HourlyStep
  <2>2. runs' = runs /\ outlived \subseteq outlived'
    BY <1>4 DEF Begin, Upsert, ListIds, ReadRow, ReadClock, Acquire, Replay, Release, HourlyRaises
  <2>3. call'[p].pc \notin Working
    <3>1. CASE Begin(p, "hourly") \/ Begin(p, "initialize")
      BY <1>1, <3>1 DEF Begin, Enter, Idle, Working
    <3>2. CASE Upsert(p)
      <4>1. AfterUpsert(p).pc \in {"idle", "list", "sync"}
        BY <1>1, <3>2 DEF Upsert, At, AfterUpsert, Idle, Call
      <4> QED BY <3>2, <4>1, CallOf DEF Upsert, Working
    <3>3. CASE ListIds(p) BY <1>1, <3>3 DEF ListIds, Working, Call
    <3>4. CASE ReadRow(p) BY <1>1, <3>4 DEF ReadRow, At, Working, Call
    <3>5. CASE ReadClock(p) BY <1>1, <3>5 DEF ReadClock, Working, Call
    <3>6. CASE Acquire(p) BY <1>1, <3>6 DEF Acquire, Goto, Working, Call
    <3>7. CASE Replay(p) \/ Release(p) \/ HourlyRaises(p)
      BY <3>7, CallOf, IdlePc, LeaveCall DEF Replay, Release, HourlyRaises, Working
    <3> QED BY <1>4, <3>1, <3>2, <3>3, <3>4, <3>5, <3>6, <3>7
  <2> QED BY <1>3, <2>1, <2>2, <2>3
<1>5. ASSUME NEW p \in Proc, HourlyStep(p) PROVE FinalInvariant'
  BY <1>1, <1>2, <1>4, <1>5, OpenAttempt, OpenInsert, OpenFinalize DEF HourlyStep
<1>6. ASSUME NEW p \in Proc, ReportStep(p) \/ Crash(p) PROVE FinalInvariant'
  <2>1. /\ call'[p].pc \in Reporting \cup {"idle", "unlock"}
        /\ \A q \in Proc : q # p => call'[q] = call[q]
    BY <1>6, CallOf, IdlePc, ReportElsewhere DEF Crash
  <2>2. runs' = runs /\ outlived' = outlived
    BY <1>6 DEF ReportStep, OpenCycle, ReadWindow, WriteBundle, Retry, CheckNas, CopyNas,
                PutArchive, PutReport, Unlock, ReportRaises, Crash
  <2> QED BY <1>3, <2>1, <2>2 DEF Working, Reporting, Archiving
<1>7. CASE UNCHANGED <<call, runs, outlived>>
  BY <1>1, <1>7 DEF FinalInvariant, OpenCall, Working, TerminalIsLast
<1> QED BY <1>5, <1>6, <1>7 DEF Next, Tick, vars, hourlyVars

LEMMA FinalHours ==
  ASSUME TypeInvariant, FinalInvariant, [Next]_vars, NEW s \in Finalized, s \notin outlived
  PROVE  Kept(s)
<1>1. ASSUME NEW p \in Proc, call[p].pc \in Working PROVE SlotIn(p) # s
  BY <1>1 DEF FinalInvariant, OpenCall, Finalized, SlotIn
<1>2. RunsOf(s)' = RunsOf(s)
  <2>1. CASE runs' = runs BY <2>1 DEF RunsOf
  <2>2. ASSUME NEW p \in Proc, InsertReceipt(p) PROVE RunsOf(s)' = RunsOf(s)
    <3>1. Receipt(p, "collecting", {}).slot # s
      BY <1>1, <2>2 DEF InsertReceipt, At, Working, Receipt
    <3> QED BY <2>2, <3>1 DEF InsertReceipt, RunsOf
  <2>3. ASSUME NEW p \in Proc, Finalize(p) PROVE RunsOf(s)' = RunsOf(s)
    <3> DEFINE old == Receipt(p, "collecting", {})
               new == Receipt(p, FinalStatus(p), call[p].active)
    <3>1. old.slot # s /\ new.slot # s
      BY <1>1, <2>3 DEF Finalize, MayFinalize, At, Working, Receipt
    <3>2. runs' = (runs \ {old}) \cup {new}
      BY <2>3 DEF Finalize
    <3> HIDE DEF old, new
    <3> QED BY <3>1, <3>2 DEF RunsOf
  <2>4. ASSUME NEW p \in Proc, HourlyStep(p), ~InsertReceipt(p), ~Finalize(p) PROVE runs' = runs
    BY <2>4 DEF HourlyStep, Begin, Upsert, ListIds, ReadRow, ReadClock, Acquire, Replay,
                NextAttempt, Collect, StoreObservation, BindContext, Release, HourlyRaises
  <2>5. ASSUME NEW p \in Proc, ReportStep(p) PROVE runs' = runs
    BY <2>5 DEF ReportStep, OpenCycle, ReadWindow, WriteBundle, Retry, CheckNas, CopyNas,
                PutArchive, PutReport, Unlock, ReportRaises
  <2> QED BY <2>1, <2>2, <2>3, <2>4, <2>5 DEF Next, Crash, Tick, vars, hourlyVars
<1>3. EvidenceOf(s)' = EvidenceOf(s)
  <2>1. CASE observed' = observed /\ bound' = bound BY <2>1 DEF EvidenceOf
  <2>2. ASSUME NEW p \in Proc, NEW a, call[p].pc \in Working PROVE Evidence(p, a)[1][1] # s
    BY <1>1, <2>2 DEF Evidence
  <2>3. ASSUME NEW p \in Proc, StoreObservation(p) PROVE EvidenceOf(s)' = EvidenceOf(s)
    <3>1. PICK a \in call[p].left : observed' = observed \cup {Evidence(p, a)}
      BY <2>3 DEF StoreObservation
    <3>2. call[p].pc \in Working /\ bound' = bound
      BY <2>3 DEF StoreObservation, At, Working
    <3>3. Evidence(p, a)[1][1] # s
      BY <2>2, <3>2
    <3> DEFINE e == Evidence(p, a)
    <3> HIDE DEF e
    <3>4. observed' = observed \cup {e} /\ e[1][1] # s
      BY <3>1, <3>3 DEF e
    <3> QED BY <3>2, <3>4 DEF EvidenceOf
  <2>4. ASSUME NEW p \in Proc, BindContext(p) PROVE EvidenceOf(s)' = EvidenceOf(s)
    <3> DEFINE e == Evidence(p, call[p].item)
    <3>1. call[p].pc \in Working /\ observed' = observed /\ bound' = bound \cup {e}
      BY <2>4 DEF BindContext, At, Working
    <3>2. e[1][1] # s
      BY <2>2, <3>1
    <3> HIDE DEF e
    <3> QED BY <3>1, <3>2 DEF EvidenceOf
  <2>5. ASSUME NEW p \in Proc, HourlyStep(p), ~StoreObservation(p), ~BindContext(p)
        PROVE  observed' = observed /\ bound' = bound
    BY <2>5 DEF HourlyStep, Begin, Upsert, ListIds, ReadRow, ReadClock, Acquire, Replay,
                NextAttempt, InsertReceipt, Collect, Finalize, Release, HourlyRaises
  <2>6. ASSUME NEW p \in Proc, ReportStep(p) PROVE observed' = observed /\ bound' = bound
    BY <2>6 DEF ReportStep, OpenCycle, ReadWindow, WriteBundle, Retry, CheckNas, CopyNas,
                PutArchive, PutReport, Unlock, ReportRaises
  <2> QED BY <2>1, <2>3, <2>4, <2>5, <2>6 DEF Next, Crash, Tick, vars, hourlyVars
<1>4. s \in Finalized'
  <2>1. \E r \in RunsOf(s) : r.status # "collecting"
    BY DEF Finalized, RunsOf
  <2>2. s \in Slot /\ \E r \in RunsOf(s)' : r.status # "collecting"
    BY <1>2, <2>1 DEF Finalized
  <2> QED BY <2>2 DEF Finalized, RunsOf
<1> QED BY <1>2, <1>3, <1>4 DEF Kept

LEMMA FinalInit == Init => FinalInvariant
<1> SUFFICES ASSUME Init PROVE FinalInvariant
  OBVIOUS
<1>1. \A p \in Proc : OpenCall(call[p], runs)
  BY IdlePc, OpenPlaces DEF Init, HourlyInit, Working
<1>2. OwnerInvariant
  BY IdlePc DEF Init, HourlyInit, OwnerInvariant, OwnerCall, HoldsLock
<1>3. TerminalIsLast(runs)
  BY DEF Init, HourlyInit, TerminalIsLast
<1> QED BY <1>1, <1>2, <1>3 DEF FinalInvariant

(***************************************************************************)
(* Once an hour has a terminal receipt, nothing is added to it or changed  *)
(* in it, although a lock can be reclaimed, unless the lock of the hour    *)
(* was taken from a run at work that has no limit of time                  *)
(* (HourlyRunLockManager.acquire).                                         *)
(***************************************************************************)
THEOREM HoursAreFinal == Spec => FinalizedIsFinal
<1>1. TypeInvariant /\ FinalInvariant /\ [Next]_vars =>
        [\A s \in Finalized \ outlived : Kept(s)]_vars
  BY FinalHours
<1> QED BY <1>1, FinalInit, TypeInit, TypeStep, FinalStep, PTL DEF Spec, FinalizedIsFinal

-------------------------------------------------------------------------------
(* When every run has the limit of the timer, no run loses its lock.       *)

TimedInvariant == Timed = Proc => outlived = {}

LEMMA TimedStep == TypeInvariant /\ TimedInvariant /\ [Next]_vars => TimedInvariant'
<1> SUFFICES ASSUME TypeInvariant, TimedInvariant, [Next]_vars, Timed = Proc PROVE outlived' = {}
  BY DEF TimedInvariant
<1>1. outlived = {}
  BY DEF TimedInvariant
<1>2. ASSUME NEW p \in Proc, Acquire(p) PROVE outlived' = {}
  BY <1>1, <1>2 DEF Acquire, OwnerAtWork
<1>3. ASSUME NEW p \in Proc, HourlyStep(p), ~Acquire(p) PROVE outlived' = outlived
  BY <1>3 DEF HourlyStep, Begin, Upsert, ListIds, ReadRow, ReadClock, Replay, NextAttempt,
              InsertReceipt, Collect, StoreObservation, BindContext, Finalize, Release, HourlyRaises
<1>4. ASSUME NEW p \in Proc, ReportStep(p) PROVE outlived' = outlived
  BY <1>4 DEF ReportStep, OpenCycle, ReadWindow, WriteBundle, Retry, CheckNas, CopyNas,
              PutArchive, PutReport, Unlock, ReportRaises
<1> QED BY <1>1, <1>2, <1>3, <1>4 DEF Next, Crash, Tick, vars, hourlyVars

(***************************************************************************)
(* Where only the hourly service makes runs, all of them with its          *)
(* TimeoutStartSec, every hour with a terminal receipt is final, with no   *)
(* exception (HourlyRunLockManager.acquire).                               *)
(***************************************************************************)
THEOREM TimerHoursAreFinal == Spec => [][Timed = Proc => \A s \in Finalized : Kept(s)]_vars
<1>1. Init => TimedInvariant
  BY DEF Init, HourlyInit, TimedInvariant
<1>2. TypeInvariant /\ FinalInvariant /\ TimedInvariant /\ [Next]_vars =>
        [Timed = Proc => \A s \in Finalized : Kept(s)]_vars
  BY FinalHours DEF TimedInvariant
<1> QED BY <1>1, <1>2, FinalInit, TypeInit, TypeStep, FinalStep, TimedStep, PTL DEF Spec
================================================================================
