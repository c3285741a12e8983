--------------------------- MODULE ExchangeProofs ---------------------------
(***************************************************************************)
(* What holds of Exchange for every timeout, every size of the messages    *)
(* and of an unsigned, every number of signals and every clock: its type,  *)
(* what time the two exchanges share, what bounds a handshake, and when    *)
(* the time left grows.                                                    *)
(*                                                                         *)
(* The argument is about one sum.  In the first exchange the time spent by *)
(* the clock and the time left make up the timeout exactly (FirstBudget);  *)
(* handing the time left on loses less than a millisecond.  A wait is late *)
(* by a bounded time (LateBy), so that a time below zero, when it wraps,   *)
(* becomes one that is longer than any that is left (ToMsOfNegative).      *)
(***************************************************************************)
EXTENDS Exchange, TLAPS

\* Milliseconds of a time, rounded down.
Ms(tv) == tv.sec * MsPerSec + (tv.usec \div UsPerMs)

FirstBudget ==
    phase = "hello" => timeout_ms = Timeout /\ spent + ahead + Us(left) = TimeoutUs

LateBy == Exchanging => Us(left) >= -(Late + 2 * MaxShift)

SpentBound == Exchanging => spent <= Budget + MaxShift + Late
LostBound == Exchanging => lost <= signals * (Budget + MaxShift)

TimeInv ==
    /\ TypeOK
    /\ FirstBudget
    /\ BudgetShared
    /\ LateBy
    /\ SpentBound
    /\ LostBound

----------------------------------------------------------------------------
\* Arithmetic.

LEMMA Distribute ==
    ASSUME NEW a \in Int, NEW b \in Int, NEW c \in Int
    PROVE  (a + b) * c = a * c + b * c /\ (a - b) * c = a * c - b * c
OBVIOUS

LEMMA Associate ==
    ASSUME NEW a \in Int, NEW b \in Int, NEW c \in Int
    PROVE  a * (b * c) = (a * b) * c
OBVIOUS

LEMMA Scale ==
    ASSUME NEW a \in Int, NEW b \in Int, NEW c \in Nat, a <= b
    PROVE  a * c <= b * c
OBVIOUS

LEMMA ScaleSum ==
    ASSUME NEW n \in Nat, NEW a \in Nat, NEW b \in Nat, NEW c \in Nat, a <= b
    PROVE  /\ n * (a + c) \in Nat /\ n * (b + c) \in Nat
           /\ n * (a + c) <= n * (b + c)
<1>1. (a + c) * n <= (b + c) * n
  BY Scale
<1> QED BY <1>1

LEMMA DivMod ==
    ASSUME NEW a \in Int, NEW b \in Nat \ {0}
    PROVE  /\ a \div b \in Int
           /\ a % b \in 0 .. b - 1
           /\ a = (a \div b) * b + (a % b)
OBVIOUS

\* The units: a second is a positive number of microseconds, and an unsigned
\* holds, beyond the timeout, more than a wait can be late.
LEMMA Units ==
    /\ UsPerSec \in Nat \ {0} /\ UsPerSec >= UsPerMs
    /\ TimeoutUs \in Nat
    /\ UnsignedMax * UsPerMs > TimeoutUs + UsPerMs + Late + 3 * MaxShift
    /\ UnsignedMax \in Nat \ {0}
<1>1. UsPerSec \in Nat
  BY UnitsAssumption DEF UsPerSec
<1>2. UsPerSec >= UsPerMs
  <2>1. 1 * UsPerMs <= MsPerSec * UsPerMs
    BY Scale, UnitsAssumption
  <2> QED BY <2>1, UnitsAssumption DEF UsPerSec
<1>3. TimeoutUs \in Nat
  BY UnitsAssumption, TimesAssumption DEF TimeoutUs
<1>4. UnsignedMax * UsPerMs > TimeoutUs + UsPerMs + Late + 3 * MaxShift
  <2>1. (UnsignedMax - Timeout - 1) * UsPerMs
          = UnsignedMax * UsPerMs - Timeout * UsPerMs - UsPerMs
    <3>1. ((UnsignedMax - Timeout) - 1) * UsPerMs
            = (UnsignedMax - Timeout) * UsPerMs - 1 * UsPerMs
      BY Distribute, UnitsAssumption, TimesAssumption
    <3>2. (UnsignedMax - Timeout) * UsPerMs = UnsignedMax * UsPerMs - Timeout * UsPerMs
      BY Distribute, UnitsAssumption, TimesAssumption
    <3> QED BY <3>1, <3>2, UnitsAssumption, TimesAssumption
  <2> QED BY <2>1, <1>3, UnitsAssumption, TimesAssumption DEF TimeoutUs
<1>5. UnsignedMax # 0
  BY <1>3, <1>4, UnitsAssumption, TimesAssumption
<1> QED BY <1>1, <1>2, <1>3, <1>4, <1>5, UnitsAssumption, TimesAssumption

\* A number of milliseconds becomes the same time as a timeval.
LEMMA FromMsType ==
    ASSUME NEW ms \in Nat
    PROVE  FromMs(ms) \in Timeval /\ Us(FromMs(ms)) = ms * UsPerMs
<1> DEFINE s == ms \div MsPerSec
           r == ms % MsPerSec
<1>1. s \in Int /\ r \in 0 .. MsPerSec - 1 /\ ms = s * MsPerSec + r
  BY DivMod, UnitsAssumption
<1>2. r * UsPerMs \in 0 .. UsPerSec - 1
  <2>1. r * UsPerMs <= (MsPerSec - 1) * UsPerMs
    BY Scale, <1>1, UnitsAssumption
  <2>2. (MsPerSec - 1) * UsPerMs = MsPerSec * UsPerMs - 1 * UsPerMs
    BY Distribute, UnitsAssumption
  <2>3. r * UsPerMs \in Nat
    BY <1>1, UnitsAssumption
  <2> QED BY <2>1, <2>2, <2>3, UnitsAssumption DEF UsPerSec
<1>3. s * UsPerSec + r * UsPerMs = ms * UsPerMs
  <2>1. s * UsPerSec = (s * MsPerSec) * UsPerMs
    BY Associate, <1>1, UnitsAssumption DEF UsPerSec
  <2>2. (s * MsPerSec + r) * UsPerMs = (s * MsPerSec) * UsPerMs + r * UsPerMs
    BY Distribute, <1>1, UnitsAssumption
  <2> QED BY <1>1, <2>1, <2>2
<1> QED
  <2>1. FromMs(ms) = [sec |-> s, usec |-> r * UsPerMs]
    BY DEF FromMs
  <2> HIDE DEF s, r
  <2> QED BY <2>1, <1>1, <1>2, <1>3 DEF Timeval, Us

\* timersub() takes off just what was to be taken off.
LEMMA TimerSubType ==
    ASSUME NEW tv \in Timeval, NEW us \in Int
    PROVE  TimerSub(tv, us) \in Timeval /\ Us(TimerSub(tv, us)) = Us(tv) - us
<1> DEFINE s == us \div UsPerSec
           r == us % UsPerSec
<1>1. s \in Int /\ r \in 0 .. UsPerSec - 1 /\ us = s * UsPerSec + r
  BY DivMod, Units
<1>2. tv.sec \in Int /\ tv.usec \in 0 .. UsPerSec - 1
  BY DEF Timeval
<1>3. (tv.sec - s) * UsPerSec = tv.sec * UsPerSec - s * UsPerSec
  BY Distribute, <1>1, <1>2, Units
<1>4. ((tv.sec - s) - 1) * UsPerSec = (tv.sec - s) * UsPerSec - 1 * UsPerSec
  <2>1. tv.sec - s \in Int
    BY <1>1, <1>2
  <2> QED BY Distribute, <2>1, Units
<1>5. TimerSub(tv, us) =
        IF tv.usec - r < 0 THEN [sec |-> tv.sec - s - 1, usec |-> tv.usec - r + UsPerSec]
                           ELSE [sec |-> tv.sec - s, usec |-> tv.usec - r]
  BY DEF TimerSub
<1>6. tv.sec * UsPerSec \in Int /\ s * UsPerSec \in Int
  BY <1>1, <1>2, Units
<1> HIDE DEF s, r
<1>7. CASE tv.usec - r < 0
  <2>1. TimerSub(tv, us) = [sec |-> tv.sec - s - 1, usec |-> tv.usec - r + UsPerSec]
    BY <1>5, <1>7
  <2>2. tv.sec - s - 1 \in Int /\ tv.usec - r + UsPerSec \in 0 .. UsPerSec - 1
    BY <1>1, <1>2, <1>7, Units
  <2>3. (tv.sec - s - 1) * UsPerSec + (tv.usec - r + UsPerSec)
          = (tv.sec * UsPerSec + tv.usec) - us
    BY <1>1, <1>2, <1>3, <1>4, <1>6, Units
  <2>4. TimerSub(tv, us) \in Timeval
    BY <2>1, <2>2 DEF Timeval
  <2>5. /\ TimerSub(tv, us).sec = tv.sec - s - 1
        /\ TimerSub(tv, us).usec = tv.usec - r + UsPerSec
    BY <2>1
  <2>6. Us(TimerSub(tv, us)) = (tv.sec - s - 1) * UsPerSec + (tv.usec - r + UsPerSec)
    BY <2>5 DEF Us
  <2> QED BY <2>3, <2>4, <2>6, <1>1, <1>2, <1>6 DEF Us
<1>8. CASE ~(tv.usec - r < 0)
  <2>1. TimerSub(tv, us) = [sec |-> tv.sec - s, usec |-> tv.usec - r]
    BY <1>5, <1>8
  <2>2. tv.sec - s \in Int /\ tv.usec - r \in 0 .. UsPerSec - 1
    BY <1>1, <1>2, <1>8, Units
  <2>3. (tv.sec - s) * UsPerSec + (tv.usec - r) = (tv.sec * UsPerSec + tv.usec) - us
    BY <1>1, <1>2, <1>3, <1>6, Units
  <2>4. TimerSub(tv, us) \in Timeval
    BY <2>1, <2>2 DEF Timeval
  <2>5. TimerSub(tv, us).sec = tv.sec - s /\ TimerSub(tv, us).usec = tv.usec - r
    BY <2>1
  <2>6. Us(TimerSub(tv, us)) = (tv.sec - s) * UsPerSec + (tv.usec - r)
    BY <2>5 DEF Us
  <2> QED BY <2>3, <2>4, <2>6, <1>1, <1>2, <1>6 DEF Us
<1> QED BY <1>7, <1>8

\* Ms is a time in milliseconds rounded down.
LEMMA MsType ==
    ASSUME NEW tv \in Timeval
    PROVE  /\ Ms(tv) \in Int
           /\ Us(tv) \in Int
           /\ Ms(tv) * UsPerMs <= Us(tv)
           /\ Us(tv) < Ms(tv) * UsPerMs + UsPerMs
<1> DEFINE m == tv.usec \div UsPerMs
           r == tv.usec % UsPerMs
           n == tv.sec * MsPerSec
<1>1. tv.sec \in Int /\ tv.usec \in Int
  BY Units DEF Timeval
<1>2. m \in Int /\ r \in 0 .. UsPerMs - 1 /\ tv.usec = m * UsPerMs + r
  <2> DEFINE u == tv.usec
  <2>1. u \in Int
    BY <1>1
  <2> HIDE DEF u
  <2>2. u \div UsPerMs \in Int /\ u % UsPerMs \in 0 .. UsPerMs - 1
          /\ u = (u \div UsPerMs) * UsPerMs + (u % UsPerMs)
    BY <2>1, DivMod, UnitsAssumption
  <2> QED BY <2>2 DEF u
<1>3. n \in Int /\ tv.sec * UsPerSec \in Int
  BY <1>1, Units, UnitsAssumption
<1>5. tv.sec * UsPerSec = n * UsPerMs
  BY Associate, <1>1, UnitsAssumption DEF UsPerSec
<1>6. Ms(tv) = n + m
  BY DEF Ms
<1> HIDE DEF m, r, n
<1>4. (n + m) * UsPerMs = n * UsPerMs + m * UsPerMs
  BY Distribute, <1>2, <1>3, UnitsAssumption
<1>7. m * UsPerMs \in Int /\ n * UsPerMs \in Int
  BY <1>2, <1>3, UnitsAssumption
<1> QED BY <1>1, <1>2, <1>3, <1>4, <1>5, <1>6, <1>7, UnitsAssumption DEF Us

\* A number of milliseconds and its rest, compared.
LEMMA MsSign ==
    ASSUME NEW tv \in Timeval
    PROVE  /\ Us(tv) >= 0 <=> Ms(tv) >= 0
           /\ Us(tv) < 0 <=> tv.sec < 0
<1>1. Us(tv) >= 0 => Ms(tv) >= 0
  <2> SUFFICES ASSUME Us(tv) >= 0, Ms(tv) <= -1 PROVE FALSE
    BY MsType
  <2>1. Ms(tv) * UsPerMs <= (-1) * UsPerMs
    BY Scale, MsType, UnitsAssumption
  <2> QED BY <2>1, MsType, UnitsAssumption
<1>2. Ms(tv) >= 0 => Us(tv) >= 0
  <2> SUFFICES ASSUME Ms(tv) >= 0 PROVE Us(tv) >= 0
    OBVIOUS
  <2>1. 0 * UsPerMs <= Ms(tv) * UsPerMs
    BY Scale, MsType, UnitsAssumption
  <2> QED BY <2>1, MsType, UnitsAssumption
<1>3. tv.sec \in Int /\ tv.usec \in 0 .. UsPerSec - 1
  BY DEF Timeval
<1>4. tv.sec < 0 => Us(tv) < 0
  <2> SUFFICES ASSUME tv.sec <= -1 PROVE Us(tv) < 0
    BY <1>3
  <2>1. tv.sec * UsPerSec <= (-1) * UsPerSec
    BY Scale, <1>3, Units
  <2>2. tv.sec * UsPerSec \in Int
    BY <1>3, Units
  <2> QED BY <2>1, <2>2, <1>3, Units DEF Us
<1>5. tv.sec >= 0 => Us(tv) >= 0
  <2> SUFFICES ASSUME tv.sec >= 0 PROVE Us(tv) >= 0
    OBVIOUS
  <2>1. 0 * UsPerSec <= tv.sec * UsPerSec
    BY Scale, <1>3, Units
  <2>2. tv.sec * UsPerSec \in Int
    BY <1>3, Units
  <2> QED BY <2>1, <2>2, <1>3, Units DEF Us
<1> QED BY <1>1, <1>2, <1>3, <1>4, <1>5, MsType

\* An unsigned takes a time left that is not below zero as it is, ...
LEMMA ToMsOfNatural ==
    ASSUME NEW tv \in Timeval, Us(tv) >= 0, Us(tv) <= TimeoutUs + MaxShift
    PROVE  ToMs(tv) = Ms(tv) /\ ToMs(tv) \in 0 .. UnsignedMax - 1
<1>1. Ms(tv) \in Nat
  BY MsType, MsSign
<1>2. Ms(tv) < UnsignedMax
  <2> SUFFICES ASSUME UnsignedMax <= Ms(tv) PROVE FALSE
    BY <1>1, Units
  <2>1. UnsignedMax * UsPerMs <= Ms(tv) * UsPerMs
    BY Scale, MsType, Units, UnitsAssumption
  <2> QED BY <2>1, MsType, Units, UnitsAssumption, TimesAssumption
<1>3. ToMs(tv) = Ms(tv) % UnsignedMax
  BY DEF ToMs, Ms
<1> QED BY <1>1, <1>2, <1>3, Units

\* ... and makes of one below zero a time longer than any that can be left.
LEMMA ToMsOfNegative ==
    ASSUME NEW tv \in Timeval, Us(tv) < 0, Us(tv) >= -(Late + 2 * MaxShift)
    PROVE  /\ ToMs(tv) \in 0 .. UnsignedMax - 1
           /\ ToMs(tv) * UsPerMs > TimeoutUs + MaxShift
           /\ ToMs(tv) * UsPerMs = Ms(tv) * UsPerMs + UnsignedMax * UsPerMs
           /\ Ms(tv) * UsPerMs \in Int
<1>1. Ms(tv) \in Int /\ Ms(tv) < 0
  BY MsType, MsSign
<1>2. Ms(tv) > -UnsignedMax
  <2> SUFFICES ASSUME Ms(tv) <= -UnsignedMax PROVE FALSE
    BY <1>1, Units
  <2>1. Ms(tv) * UsPerMs <= (-UnsignedMax) * UsPerMs
    BY Scale, MsType, Units, UnitsAssumption
  <2>2. (0 - UnsignedMax) * UsPerMs = 0 * UsPerMs - UnsignedMax * UsPerMs
    BY Distribute, Units, UnitsAssumption
  <2>3. (-UnsignedMax) * UsPerMs = 0 - UnsignedMax * UsPerMs
    BY <2>2, Units, UnitsAssumption
  <2> QED BY <2>1, <2>3, MsType, Units, UnitsAssumption, TimesAssumption
<1>3. ToMs(tv) = Ms(tv) + UnsignedMax
  <2>1. ToMs(tv) = Ms(tv) % UnsignedMax
    BY DEF ToMs, Ms
  <2> QED BY <2>1, <1>1, <1>2, Units
<1>4. (Ms(tv) + UnsignedMax) * UsPerMs = Ms(tv) * UsPerMs + UnsignedMax * UsPerMs
  BY Distribute, <1>1, Units, UnitsAssumption
<1>5. ToMs(tv) \in 0 .. UnsignedMax - 1
  BY <1>1, <1>2, <1>3, Units
<1>6. Ms(tv) * UsPerMs \in Int
  BY <1>1, UnitsAssumption
<1> QED BY <1>3, <1>4, <1>5, <1>6, MsType, Units, UnitsAssumption, TimesAssumption
----------------------------------------------------------------------------
\* The inductive invariant.

\* In the first exchange nothing has wrapped.
LEMMA FirstNotWrapped == TypeOK /\ phase = "hello" /\ FirstBudget => ~Wrapped
BY Units, TimesAssumption DEF FirstBudget, Wrapped, TimeoutUs

\* The budget is a time, and is no less than the timeout.
LEMMA BudgetType ==
    /\ Budget \in Nat /\ Budget >= TimeoutUs
    /\ UnsignedMax * UsPerMs \in Nat
    /\ ~Wrapped => Budget = TimeoutUs
<1>1. UnsignedMax * UsPerMs \in Nat
  BY Units, UnitsAssumption
<1> QED BY <1>1, Units DEF Budget

LEMMA TimeInit == Init => TimeInv
<1> SUFFICES ASSUME Init PROVE TimeInv
  OBVIOUS
<1> USE DEF Init
<1>1. Timeout < UnsignedMax
  <2> SUFFICES ASSUME UnsignedMax <= Timeout PROVE FALSE
    BY Units, TimesAssumption
  <2>1. UnsignedMax * UsPerMs <= Timeout * UsPerMs
    BY Scale, Units, UnitsAssumption, TimesAssumption
  <2> QED BY <2>1, Units, UnitsAssumption, TimesAssumption DEF TimeoutUs
<1>2. left \in Timeval /\ Us(left) = TimeoutUs
  BY FromMsType, TimesAssumption DEF TimeoutUs
<1>3. TypeOK
  BY <1>1, <1>2, TimesAssumption, MessagesAssumption, SignalsAssumption DEF TypeOK, Shifts
<1>4. FirstBudget
  BY <1>2, Units DEF FirstBudget
<1>5. Budget = TimeoutUs
  BY <1>3, <1>4, FirstNotWrapped, BudgetType
<1>6. BudgetShared
  BY <1>2, <1>5, Units, UnitsAssumption DEF BudgetShared
<1>7. LateBy
  BY <1>2, Units, TimesAssumption DEF LateBy
<1>8. SpentBound /\ LostBound
  BY <1>5, Units, TimesAssumption, SignalsAssumption DEF SpentBound, LostBound
<1> QED BY <1>3, <1>4, <1>6, <1>7, <1>8 DEF TimeInv

\* What is left by the invariant is no more than the budget and what the clock
\* may be set.
LEMMA LeftBound ==
    TimeInv /\ Exchanging => Us(left) <= Budget + MaxShift - spent
<1> SUFFICES ASSUME TimeInv, Exchanging
             PROVE  Us(left) <= Budget + MaxShift - spent
  OBVIOUS
<1>1. spent \in Nat /\ ahead \in -MaxShift .. MaxShift /\ Us(left) \in Int
  BY MsType DEF TimeInv, TypeOK, Shifts
<1> QED BY <1>1, BudgetType, TimesAssumption DEF TimeInv, BudgetShared

LEMMA FailKeeps == TimeInv /\ Fail => TimeInv'
<1> SUFFICES ASSUME TimeInv, Fail PROVE TimeInv'
  OBVIOUS
<1> USE DEF TimeInv, Fail, history
<1>1. TypeOK'
  BY DEF TypeOK
<1>2. FirstBudget' /\ LateBy' /\ SpentBound' /\ LostBound'
  BY DEF FirstBudget, LateBy, SpentBound, LostBound, Exchanging
<1>3. BudgetShared'
  BY DEF BudgetShared, Exchanging, Us
<1> QED BY <1>1, <1>2, <1>3

LEMMA InterruptKeeps ==
    ASSUME TimeInv, NEW took \in Times, Interrupt(took)
    PROVE  TimeInv'
<1> USE DEF Interrupt, exchange
<1>1. TypeOK /\ FirstBudget /\ BudgetShared /\ LateBy /\ SpentBound /\ LostBound
  BY DEF TimeInv
<1>2. Us(left) \in Int /\ took \in Nat
  BY <1>1, MsType DEF TypeOK, Times
<1>3. TypeOK'
  BY <1>1, <1>2, SignalsAssumption DEF TypeOK
<1>4. FirstBudget' /\ BudgetShared' /\ LateBy' /\ SpentBound'
  BY <1>1 DEF FirstBudget, BudgetShared, LateBy, SpentBound, Exchanging, Budget, Wrapped, Us
<1>5. LostBound'
  <2> SUFFICES ASSUME Exchanging
               PROVE  lost + took <= (signals + 1) * (Budget + MaxShift)
    BY DEF LostBound, Exchanging, Budget, Wrapped
  <2>1. took <= Budget + MaxShift
    BY <1>1, <1>2, LeftBound, BudgetType, TimesAssumption DEF TimeInv, TypeOK
  <2>2. signals \in Nat /\ lost \in Nat /\ Budget + MaxShift \in Nat
    BY <1>1, BudgetType, TimesAssumption, SignalsAssumption DEF TypeOK
  <2>3. (signals + 1) * (Budget + MaxShift)
          = signals * (Budget + MaxShift) + 1 * (Budget + MaxShift)
    BY <2>2, Distribute
  <2>4. signals * (Budget + MaxShift) \in Nat
    BY <2>2
  <2>5. lost <= signals * (Budget + MaxShift)
    BY <1>1 DEF LostBound
  <2> QED BY <1>2, <2>1, <2>2, <2>3, <2>4, <2>5
<1> QED BY <1>3, <1>4, <1>5 DEF TimeInv

LEMMA ReturnKeeps ==
    ASSUME TimeInv, NEW took \in Times, NEW readable \in BOOLEAN, NEW writable \in BOOLEAN,
           Return(took, readable, writable)
    PROVE  TimeInv'
<1>1. TypeOK /\ FirstBudget /\ BudgetShared /\ LateBy /\ SpentBound /\ LostBound
  BY DEF TimeInv
<1>2. Us(left) \in Int /\ took \in Nat /\ left \in Timeval
  BY <1>1, MsType DEF TypeOK, Times
<1>3. /\ ahead \in -MaxShift .. MaxShift /\ ahead' \in -MaxShift .. MaxShift
      /\ took <= Us(left) + Late
      /\ spent \in Nat /\ spent' = spent + took
      /\ left' = TimerSub(left, took + ahead' - ahead)
      /\ Exchanging /\ ~Expired
      /\ phase' = phase /\ timeout_ms' = timeout_ms
      /\ signals' = signals /\ lost' = lost
  BY <1>1 DEF TypeOK, Return, Waiting, Shifts
<1>4. left' \in Timeval /\ Us(left') = Us(left) - (took + ahead' - ahead)
  <2>1. took + ahead' - ahead \in Int
    BY <1>2, <1>3
  <2> QED BY <2>1, <1>2, <1>3, TimerSubType
<1>5. Us(left)' = Us(left')
  BY DEF Us
<1>6. Us(left) >= 0
  BY <1>2, <1>3, MsSign DEF Expired, Timeval
<1>7. TypeOK'
  <2>1. recv_size' \in Nat /\ send_size' \in Nat /\ sock' \in BOOLEAN
    <3>1. PICK got \in Results(readable, recv_size) :
            \E put \in Results(writable /\ ~Closed(readable, got), send_size) :
              /\ recv_size' = recv_size - got
              /\ send_size' = send_size - put
              /\ sock' = (~Closed(readable, got)
                            /\ ~Closed(writable /\ ~Closed(readable, got), put))
      BY DEF Return
    <3>2. PICK put \in Results(writable /\ ~Closed(readable, got), send_size) :
              /\ recv_size' = recv_size - got
              /\ send_size' = send_size - put
              /\ sock' = (~Closed(readable, got)
                            /\ ~Closed(writable /\ ~Closed(readable, got), put))
      BY <3>1
    <3>3. recv_size \in Nat /\ send_size \in Nat
      BY <1>1 DEF TypeOK
    <3>4. got \in 0 .. recv_size
      BY <3>3 DEF Results
    <3>5. put \in 0 .. send_size
      BY <3>3 DEF Results
    <3> QED BY <3>2, <3>3, <3>4, <3>5
  <2> QED BY <2>1, <1>1, <1>2, <1>3, <1>4 DEF TypeOK, Shifts
<1>8. FirstBudget' /\ BudgetShared'
  <2>1. Budget' = Budget
    BY <1>3 DEF Budget, Wrapped
  <2> QED BY <2>1, <1>1, <1>2, <1>3, <1>4, <1>5, BudgetType, Units, UnitsAssumption
          DEF FirstBudget, BudgetShared, Exchanging
<1>9. LateBy'
  BY <1>2, <1>3, <1>4, <1>5, TimesAssumption DEF LateBy, Exchanging
<1>10. SpentBound'
  <2> SUFFICES spent' <= Budget + MaxShift + Late
    BY <1>3 DEF SpentBound, Budget, Wrapped
  <2>1. Us(left) <= Budget + MaxShift - spent
    BY <1>3, LeftBound
  <2> QED BY <2>1, <1>2, <1>3, BudgetType, TimesAssumption
<1>11. LostBound'
  BY <1>1, <1>3 DEF LostBound, Exchanging, Budget, Wrapped
<1> QED BY <1>7, <1>8, <1>9, <1>10, <1>11 DEF TimeInv

LEMMA NextExchangeKeeps == TimeInv /\ NextExchange => TimeInv'
<1> SUFFICES ASSUME TimeInv, NextExchange PROVE TimeInv'
  OBVIOUS
<1>1. TypeOK /\ FirstBudget /\ BudgetShared /\ LateBy /\ SpentBound /\ LostBound
  BY DEF TimeInv
<1>2. /\ phase = "hello" /\ Exchanging /\ phase' = "answer"
      /\ timeout_ms' = ToMs(left) /\ left' = FromMs(timeout_ms')
      /\ send_size' = AnswerSize /\ recv_size' = AnswerSize
      /\ sock' = sock /\ spent' = spent /\ signals' = signals
      /\ lost' = lost /\ ahead' = ahead
  BY DEF NextExchange, Exchanged, history
<1>3. left \in Timeval /\ Us(left) \in Int /\ spent \in Nat /\ ahead \in -MaxShift .. MaxShift
  BY <1>1, MsType DEF TypeOK, Shifts
<1>4. ~Wrapped
  BY <1>1, <1>2, FirstNotWrapped
<1>5. /\ spent + ahead + Us(left) = TimeoutUs
      /\ Us(left) >= -(Late + 2 * MaxShift)
      /\ Us(left) <= TimeoutUs + MaxShift
  BY <1>1, <1>2, <1>3, <1>4, LeftBound, BudgetType, TimesAssumption DEF FirstBudget, LateBy
<1>6. timeout_ms' \in 0 .. UnsignedMax - 1
  BY <1>2, <1>3, <1>5, ToMsOfNatural, ToMsOfNegative, Units
<1>7. left' \in Timeval /\ Us(left') = timeout_ms' * UsPerMs
  BY <1>2, <1>6, Units, FromMsType
<1>8. timeout_ms' * UsPerMs \in Nat
  <2>1. \A t \in 0 .. UnsignedMax - 1 : t * UsPerMs \in Nat
    BY Units, UnitsAssumption
  <2> QED BY <2>1, <1>6
<1>9. Us(left)' = Us(left')
  BY DEF Us
<1>10. TypeOK'
  BY <1>1, <1>2, <1>6, <1>7, MessagesAssumption DEF TypeOK
<1>11. FirstBudget' /\ LateBy'
  BY <1>2, <1>7, <1>8, <1>9, TimesAssumption DEF FirstBudget, LateBy
<1>12. SpentBound' /\ LostBound'
  <2>1. /\ Budget = TimeoutUs /\ TimeoutUs \in Nat
        /\ Budget' = TimeoutUs \/ Budget' = TimeoutUs + UnsignedMax * UsPerMs
        /\ UnsignedMax * UsPerMs \in Nat
    BY <1>4, BudgetType, Units DEF Budget
  <2>2. Budget' \in Nat /\ Budget' >= Budget
    BY <2>1
  <2>3. signals \in Nat /\ lost \in Nat /\ MaxShift \in Nat /\ Late \in Nat
    BY <1>1, SignalsAssumption, TimesAssumption DEF TypeOK
  <2>4. Budget \in Nat
    BY <2>1
  <2>5. /\ signals * (Budget + MaxShift) \in Nat /\ signals * (Budget' + MaxShift) \in Nat
        /\ signals * (Budget + MaxShift) <= signals * (Budget' + MaxShift)
    BY <2>2, <2>3, <2>4, ScaleSum
  <2>6. SpentBound'
    <3> DEFINE b == Budget
               c == Budget'
    <3>1. spent <= b + MaxShift + Late
      BY <1>1, <1>2 DEF SpentBound
    <3>2. b \in Nat /\ c \in Nat /\ b <= c /\ spent' = spent /\ spent \in Nat
      BY <1>2, <1>3, <2>2, <2>4
    <3> HIDE DEF b, c
    <3>3. spent' <= c + MaxShift + Late
      BY <2>3, <3>1, <3>2
    <3> QED BY <3>3 DEF SpentBound, c
  <2>7. LostBound'
    <3>1. lost <= signals * (Budget + MaxShift)
      BY <1>1, <1>2 DEF LostBound
    <3>2. lost' <= signals' * (Budget' + MaxShift)
      BY <1>2, <2>3, <2>5, <3>1
    <3> QED BY <3>2 DEF LostBound
  <2> QED BY <2>6, <2>7
<1>13. BudgetShared'
  <2>1. CASE Us(left) >= 0
    <3>1. timeout_ms' = Ms(left)
      BY <2>1, <1>2, <1>3, <1>5, ToMsOfNatural
    <3>2. /\ timeout_ms' * UsPerMs <= Us(left)
          /\ Us(left) < timeout_ms' * UsPerMs + UsPerMs
      BY <3>1, <1>3, MsType
    <3>3. Budget' = TimeoutUs
      BY <3>2, <1>3, <1>5, <1>8, Units, TimesAssumption DEF Budget, Wrapped
    <3> QED BY <3>2, <3>3, <1>2, <1>3, <1>5, <1>7, <1>8, <1>9, Units, UnitsAssumption
            DEF BudgetShared
  <2>2. CASE Us(left) < 0
    <3>1. timeout_ms' * UsPerMs > TimeoutUs + MaxShift
      BY <2>2, <1>2, <1>3, <1>5, ToMsOfNegative
    <3>2. Budget' = TimeoutUs + UnsignedMax * UsPerMs
      BY <3>1 DEF Budget, Wrapped
    <3>3. /\ timeout_ms' * UsPerMs = Ms(left) * UsPerMs + UnsignedMax * UsPerMs
          /\ Ms(left) * UsPerMs \in Int
      BY <2>2, <1>2, <1>3, <1>5, ToMsOfNegative
    <3>4. /\ Ms(left) * UsPerMs <= Us(left)
          /\ Us(left) < Ms(left) * UsPerMs + UsPerMs
      BY <1>3, MsType
    <3> QED BY <3>2, <3>3, <3>4, <1>2, <1>3, <1>5, <1>7, <1>8, <1>9, BudgetType, Units,
               UnitsAssumption
            DEF BudgetShared
  <2> QED BY <2>1, <2>2, <1>3
<1> QED BY <1>10, <1>11, <1>12, <1>13 DEF TimeInv

LEMMA AcceptKeeps == TimeInv /\ Accept => TimeInv'
<1> SUFFICES ASSUME TimeInv, Accept PROVE TimeInv'
  OBVIOUS
<1>1. /\ phase = "answer" /\ phase' = "done" /\ Exchanging /\ timeout_ms' = ToMs(left)
      /\ left' = left /\ send_size' = send_size /\ recv_size' = recv_size
      /\ sock' = sock /\ spent' = spent /\ signals' = signals
      /\ lost' = lost /\ ahead' = ahead
  BY DEF Accept, Exchanged, exchange, history
<1>2. ToMs(left) \in 0 .. UnsignedMax - 1
  <2>1. Ms(left) \in Int
    BY MsType DEF TimeInv, TypeOK
  <2>2. ToMs(left) = Ms(left) % UnsignedMax
    BY DEF ToMs, Ms
  <2> QED BY <2>1, <2>2, DivMod, Units
<1>3. TypeOK'
  BY <1>1, <1>2 DEF TimeInv, TypeOK
<1>4. FirstBudget' /\ LateBy' /\ SpentBound' /\ LostBound'
  BY <1>1 DEF FirstBudget, LateBy, SpentBound, LostBound, Exchanging
<1>5. BudgetShared'
  BY <1>1 DEF TimeInv, BudgetShared, Exchanging, Us
<1> QED BY <1>3, <1>4, <1>5 DEF TimeInv

LEMMA TimeStep == TimeInv /\ [Next]_vars => TimeInv'
<1> SUFFICES ASSUME TimeInv, [Next]_vars PROVE TimeInv'
  OBVIOUS
<1>1. CASE Proceed
  <2>1. ASSUME NEW took \in Times, Return(took, FALSE, FALSE) PROVE TimeInv'
    BY <2>1, ReturnKeeps
  <2>2. CASE TimeOut \/ Abort \/ Refuse
    BY <2>2, FailKeeps DEF TimeOut, Abort, Refuse
  <2>3. CASE NextExchange
    BY <2>3, NextExchangeKeeps
  <2>4. CASE Accept
    BY <2>4, AcceptKeeps
  <2> QED BY <1>1, <2>1, <2>2, <2>3, <2>4 DEF Proceed
<1>2. CASE Receive
  BY <1>2, ReturnKeeps DEF Receive
<1>3. ASSUME NEW took \in Times, Interrupt(took) PROVE TimeInv'
  BY <1>3, InterruptKeeps
<1>4. CASE UNCHANGED vars
  <2> USE <1>4 DEF vars, exchange, history
  <2>1. TypeOK' /\ FirstBudget' /\ BudgetShared' /\ LateBy' /\ SpentBound' /\ LostBound'
    BY DEF TimeInv, TypeOK, FirstBudget, BudgetShared, LateBy, SpentBound, LostBound,
           Exchanging, Budget, Wrapped, Us
  <2> QED BY <2>1 DEF TimeInv
<1> QED BY <1>1, <1>2, <1>3, <1>4 DEF Next

LEMMA TimeAlways == Spec => []TimeInv
BY TimeInit, TimeStep, PTL DEF Spec

----------------------------------------------------------------------------
\* Times and sizes keep their types: tv_usec stays below a second, and what is
\* handed on fits an unsigned (node.c:257-262, node.c:304-307, node.c:325-328).
THEOREM ExchangeTypeCorrect == Spec => []TypeOK
<1>1. TimeInv => TypeOK
  BY DEF TimeInv
<1> QED BY <1>1, TimeAlways, PTL

\* What the exchanges have taken and what is left make up the timeout, but for the
\* rounding, or, if the last byte of the hellos came late, the timeout and 2^32
\* milliseconds: the first exchange then hands those on (user.c:69-94, node.c:327).
THEOREM BudgetAlwaysShared == Spec => []BudgetShared
<1>1. TimeInv => BudgetShared
  BY DEF TimeInv
<1> QED BY <1>1, TimeAlways, PTL

\* The time a handshake takes is bounded by that budget, one late return, the
\* clock and once more the budget for each signal (node.c:298-301).  If no last
\* byte comes late the budget is the timeout.
THEOREM HandshakeAlwaysBounded == Spec => []HandshakeBounded
<1>1. TimeInv => HandshakeBounded
  <2> SUFFICES ASSUME TimeInv, Exchanging
               PROVE  spent + lost <= (signals + 1) * (Budget + MaxShift) + Late
    BY DEF HandshakeBounded
  <2>1. signals \in Nat /\ lost \in Nat /\ spent \in Nat /\ Budget + MaxShift \in Nat
    BY BudgetType, TimesAssumption, SignalsAssumption DEF TimeInv, TypeOK
  <2>2. (signals + 1) * (Budget + MaxShift)
          = signals * (Budget + MaxShift) + 1 * (Budget + MaxShift)
    BY <2>1, Distribute
  <2>3. signals * (Budget + MaxShift) \in Nat
    BY <2>1
  <2>4. /\ spent <= Budget + MaxShift + Late
        /\ lost <= signals * (Budget + MaxShift)
    BY DEF TimeInv, SpentBound, LostBound
  <2> QED BY <2>1, <2>2, <2>3, <2>4, BudgetType, TimesAssumption
<1> QED BY <1>1, TimeAlways, PTL

\* The time left grows only by wrapping in a late return, or by the clock
\* (node.c:325-328).
THEOREM TimeLeftOnlyGrowsLate == Spec => TimeLeftGrowsOnlyLate
<1>1. ASSUME TimeInv, [Next]_vars, timeout_ms' > timeout_ms, ~Wrapped
      PROVE  \/ left.sec < 0 /\ spent + ahead > TimeoutUs - UsPerMs
             \/ timeout_ms' * UsPerMs <= TimeoutUs - spent - ahead
  <2>1. timeout_ms \in Nat /\ left \in Timeval /\ Us(left) \in Int
        /\ spent \in Nat /\ ahead \in -MaxShift .. MaxShift
    BY <1>1, MsType DEF TimeInv, TypeOK, Shifts
  <2>2. timeout_ms' = ToMs(left) /\ Exchanging
    <3>1. timeout_ms' # timeout_ms
      BY <1>1, <2>1
    <3> QED BY <1>1, <3>1
            DEF Next, Proceed, Receive, Interrupt, Return, TimeOut, Abort, Refuse, Fail,
                NextExchange, Accept, Exchanged, vars, history
  <2>3. BudgetShared
    BY <1>1 DEF TimeInv
  <2>4. CASE left.sec < 0
    BY <1>1, <2>1, <2>2, <2>3, <2>4, MsSign, BudgetType, Units, UnitsAssumption
    DEF BudgetShared
  <2>5. CASE ~(left.sec < 0)
    <3>1. Us(left) >= 0
      BY <2>1, <2>5, MsSign
    <3>2. Us(left) <= TimeoutUs + MaxShift - spent
      BY <1>1, <2>2, LeftBound, BudgetType
    <3>3. ToMs(left) = Ms(left)
      BY <2>1, <3>1, <3>2, ToMsOfNatural, Units, TimesAssumption
    <3>4. Ms(left) * UsPerMs <= Us(left) /\ Ms(left) \in Int
      BY <2>1, MsType
    <3>5. Ms(left) * UsPerMs \in Int
      BY <3>4, UnitsAssumption
    <3>6. spent + ahead + Us(left) <= TimeoutUs
      BY <1>1, <2>2, <2>3, BudgetType DEF BudgetShared
    <3>7. timeout_ms' * UsPerMs <= TimeoutUs - spent - ahead
      BY <2>1, <2>2, <3>3, <3>4, <3>5, <3>6, Units
    <3> QED BY <3>7
  <2> QED BY <2>4, <2>5
<1>2. TimeInv /\ [Next]_vars =>
        [timeout_ms' > timeout_ms /\ ~Wrapped =>
           \/ left.sec < 0 /\ spent + ahead > TimeoutUs - UsPerMs
           \/ timeout_ms' * UsPerMs <= TimeoutUs - spent - ahead]_vars
  BY <1>1
<1> QED BY <1>2, TimeAlways, PTL DEF Spec, TimeLeftGrowsOnlyLate
=============================================================================
