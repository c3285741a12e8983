----------------------------- MODULE Exchange ------------------------------
(***************************************************************************)
(* The time a handshake may take: user_handshake, which lets two           *)
(* node_exchange share one timeout, with the arithmetic of struct timeval  *)
(* and of the unsigned that carries the time left from one to the other.   *)
(*                                                                         *)
(* Times are in microseconds.  gettimeofday() is a clock that may be set   *)
(* while select() waits.                                                   *)
(***************************************************************************)
EXTENDS Integers

CONSTANTS
    Timeout,     \* TIMEOUT_MS
    MsPerSec,    \* 1000
    UsPerMs,     \* 1000
    UnsignedMax, \* values of an unsigned: 2^32
    Late,        \* how much later than asked select() may return
    HelloSize,   \* bytes of the message with protocol and key id
    AnswerSize,  \* bytes of the message that accepts or refuses
    MaxSignals,  \* bound: signals during one handshake
    MaxShift     \* bound: how far the clock is set, forward or back

ASSUME UnitsAssumption == MsPerSec \in Nat \ {0} /\ UsPerMs \in Nat \ {0}
ASSUME TimesAssumption ==
    /\ Timeout \in Nat /\ Late \in Nat \ {0}
    /\ MaxShift \in Nat /\ UnsignedMax \in Nat
    /\ Late + 3 * MaxShift < (UnsignedMax - Timeout - 1) * UsPerMs
ASSUME MessagesAssumption == HelloSize \in Nat \ {0} /\ AnswerSize \in Nat \ {0}
ASSUME SignalsAssumption == MaxSignals \in Nat

VARIABLES
    phase,      \* which exchange runs, or how the handshake ended
    timeout_ms, \* user_handshake's, as the exchange that runs was given it
    left,       \* timeout_tv
    send_size,  \* bytes of the exchange still to be sent
    recv_size,  \* bytes of the exchange still to be received
    sock,       \* n->socket # -1
    spent,      \* history: time in the selects that returned
    signals,    \* history: how many selects were interrupted
    lost,       \* history: time in those
    ahead       \* history: how far the clock was set forward while they waited

exchange == <<left, send_size, recv_size, sock>>
history == <<spent, signals, lost, ahead>>
vars == <<phase, timeout_ms, exchange, history>>

UsPerSec == MsPerSec * UsPerMs
TimeoutUs == Timeout * UsPerMs

Shifts == -MaxShift .. MaxShift

Timeval == [sec : Int, usec : 0 .. UsPerSec - 1]
Us(tv) == tv.sec * UsPerSec + tv.usec

TypeOK ==
    /\ phase \in {"hello", "answer", "done", "failed"}
    /\ timeout_ms \in 0 .. UnsignedMax - 1
    /\ left \in Timeval
    /\ send_size \in Nat /\ recv_size \in Nat
    /\ sock \in BOOLEAN
    /\ spent \in Nat /\ signals \in 0 .. MaxSignals /\ lost \in Nat
    /\ ahead \in Shifts

----------------------------------------------------------------------------
\* Mutant: the whole time is put into tv_usec as well.
FromMsTwice(ms) == [sec |-> ms \div MsPerSec, usec |-> ms * UsPerMs]

\* The first lines of node_exchange.
FromMs(ms) == [sec |-> ms \div MsPerSec, usec |-> (ms % MsPerSec) * UsPerMs]

\* Mutant: what a select took is not taken off in full seconds.
TimerSubNoBorrow(tv, us) ==
    [sec |-> tv.sec - (us \div UsPerSec), usec |-> (tv.usec - (us % UsPerSec)) % UsPerSec]

\* timersub() of a time that select() took by the clock.
TimerSub(tv, us) ==
    LET sec == tv.sec - (us \div UsPerSec)
        usec == tv.usec - (us % UsPerSec)
    IN  IF usec < 0 THEN [sec |-> sec - 1, usec |-> usec + UsPerSec]
                    ELSE [sec |-> sec, usec |-> usec]

\* Mutant: only what is left of the last second is handed back.
ToMsOfSecond(tv) == tv.usec \div UsPerMs

\* The last lines of node_exchange: the long is assigned to an unsigned.
ToMs(tv) == (tv.sec * MsPerSec + (tv.usec \div UsPerMs)) % UnsignedMax

Init ==
    /\ phase = "hello"
    /\ timeout_ms = Timeout
    /\ left = FromMs(Timeout)
    /\ send_size = HelloSize /\ recv_size = HelloSize
    /\ sock = TRUE
    /\ spent = 0 /\ signals = 0 /\ lost = 0 /\ ahead = 0

----------------------------------------------------------------------------
Exchanging == phase \in {"hello", "answer"}
Waiting == Exchanging /\ sock /\ (send_size > 0 \/ recv_size > 0)

\* Mutant: a time below zero is not taken for an error.
ExpiredNever == FALSE

\* select() takes a negative time for an error.
Expired == left.sec < 0

\* user_finish_connect after a handshake that failed: user_disconnect.
Fail ==
    /\ phase' = "failed"
    /\ sock' = FALSE
    /\ UNCHANGED <<timeout_ms, left, send_size, recv_size, history>>

\* The only way an exchange ends for lack of time.
TimeOut == Waiting /\ Expired /\ Fail

\* A signal interrupts select(); what it took is not taken off.
Interrupt(took) ==
    /\ Waiting /\ ~Expired
    /\ signals < MaxSignals
    /\ took <= Us(left)
    /\ signals' = signals + 1
    /\ lost' = lost + took
    /\ UNCHANGED <<phase, timeout_ms, exchange, spent, ahead>>

\* What node_recv and node_send come to when select() reports the socket: some
\* bytes, or an error, after which the socket is closed.
Results(ready, size) == IF ready THEN 0 .. size ELSE {0}
Closed(ready, bytes) == ready /\ bytes = 0

\* select() returns after a time, and is late only if nothing came before the
\* time was over or if the machine is slow.  What it took is read from a clock
\* that may have been set meanwhile.  A socket that node_recv closed is not
\* written to.
Return(took, readable, writable) ==
    /\ Waiting /\ ~Expired
    /\ readable => recv_size > 0
    /\ writable => send_size > 0
    /\ ~readable /\ ~writable => took >= Us(left)
    /\ took <= Us(left) + Late
    /\ ahead' \in Shifts
    /\ left' = TimerSub(left, took + ahead' - ahead)
    /\ spent' = spent + took
    /\ \E got \in Results(readable, recv_size) :
       LET writes == writable /\ ~Closed(readable, got) IN
       \E put \in Results(writes, send_size) :
           /\ recv_size' = recv_size - got
           /\ send_size' = send_size - put
           /\ sock' = (~Closed(readable, got) /\ ~Closed(writes, put))
    /\ UNCHANGED <<phase, timeout_ms, signals, lost>>

\* The loop ends because the socket was closed.
Abort == Exchanging /\ ~sock /\ Fail

Exchanged == Exchanging /\ send_size = 0 /\ recv_size = 0

\* user_handshake goes on to the answers.
NextExchange ==
    /\ phase = "hello" /\ Exchanged
    /\ phase' = "answer"
    /\ timeout_ms' = ToMs(left)
    /\ left' = FromMs(timeout_ms')
    /\ send_size' = AnswerSize /\ recv_size' = AnswerSize
    /\ UNCHANGED <<sock, history>>

\* Both sides accept.
Accept ==
    /\ phase = "answer" /\ Exchanged
    /\ phase' = "done"
    /\ timeout_ms' = ToMs(left)
    /\ UNCHANGED <<exchange, history>>

\* The other side is of another version, or one of them does not know the other.
Refuse == Exchanged /\ Fail

Times == 0 .. Us(left) + Late

Receive == \E took \in Times : \E readable, writable \in BOOLEAN :
    (readable \/ writable) /\ Return(took, readable, writable)

\* What happens also if the other side keeps still.
Proceed ==
    \/ \E took \in Times : Return(took, FALSE, FALSE)
    \/ TimeOut \/ Abort \/ NextExchange \/ Accept \/ Refuse

Next == Proceed \/ Receive \/ \E took \in Times : Interrupt(took)

Spec == Init /\ [][Next]_vars

\* The program runs and the clock with it.
FairSpec == Spec /\ WF_vars(Proceed)
----------------------------------------------------------------------------
\* timeout_ms has gone below zero, which an unsigned does not.
Wrapped == timeout_ms * UsPerMs > TimeoutUs + MaxShift

\* What a handshake may take: the timeout, and all that an unsigned holds once more
\* when the last byte of the hellos comes in a select that returned after the
\* timeout (node.c:327).
Budget == TimeoutUs + (IF Wrapped THEN UnsignedMax * UsPerMs ELSE 0)

\* What the selects took by the clock and what is left make up the budget, but for
\* less than a millisecond, lost when the time left is handed on.  The two
\* exchanges so share one timeout, neither cut short, except that a last byte that
\* comes late leaves the second one 2^32 milliseconds longer.
BudgetShared ==
    Exchanging =>
        /\ spent + ahead + Us(left) > Budget - UsPerMs
        /\ spent + ahead + Us(left) <= Budget

\* However the messages come in, cut and late, a handshake takes no longer than
\* the budget, one late return and what the clock was set back; and every signal
\* may add, at worst, the budget once more, as node_exchange does not take an
\* interrupted wait off.  The budget is the timeout only if the last byte of the
\* hellos does not come late: else a handshake may last 49 days.
HandshakeBounded ==
    Exchanging => spent + lost <= (signals + 1) * (Budget + MaxShift) + Late

\* What is handed on is the time left (node.h:75-76), and so never more than what
\* was given, unless the last byte came in a select that returned after the
\* timeout: then it is about 2^32 milliseconds.  A clock that was set back may add
\* to it, but never more than is left of the timeout by that clock.
TimeLeftGrowsOnlyLate ==
    [][ timeout_ms' > timeout_ms /\ ~Wrapped =>
        \/ left.sec < 0 /\ spent + ahead > TimeoutUs - UsPerMs
        \/ timeout_ms' * UsPerMs <= TimeoutUs - spent - ahead ]_vars

\* Every handshake comes to an end, whatever the other side does or omits.
HandshakeEnds == <>(phase \in {"done", "failed"})
============================================================================
