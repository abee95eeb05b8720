------------------------------- MODULE PmTime -------------------------------
(***************************************************************************)
(* Lab3, the time calls of the MINIX process manager (servers/pm/time.c),  *)
(* with the entries of call_vec that lead to them and the library function *)
(* utctime().  The process manager serves one call after the other; the    *)
(* clock of the kernel ticks at any time, also while do_stime() is between *)
(* its two kernel calls.                                                   *)
(***************************************************************************)
EXTENDS Integers, Sequences, FiniteSets

CONSTANTS
  system_hz,             \* ticks per second
  leapsecond_reference,  \* the seconds after which one was inserted, ascending
  Word,                  \* an unsigned product is computed modulo Word (2^32)
  Half,                  \* time_t holds -Half .. Half-1 (2^31 in the source)
  Times,                 \* the times the clock is set to
  MaxTicks               \* bound: how long the system stays up

ASSUME PmTimeAssumption ==
  /\ system_hz \in Nat \ {0}
  /\ leapsecond_reference \in Seq(Int)
  /\ \A i, j \in 1 .. Len(leapsecond_reference) :
       i < j => leapsecond_reference[i] < leapsecond_reference[j]
  /\ Word \in Nat \ {0}
  /\ Half \in Nat \ {0}
  /\ Times \subseteq -Half .. Half-1
  /\ MaxTicks \in Nat

Million == 1000000     \* microseconds in a second

OK == 0
EPERM == 1

TIME == 13
STIME == 25
TIMES == 43
UTCTIME == 44
GETTIMEOFDAY == 90
Calls == {TIME, STIME, TIMES, UTCTIME, GETTIMEOFDAY}

VARIABLES
  uptime,     \* kernel: ticks since boot
  boottime,   \* kernel: the time at boot
  pc,         \* "idle", or "stime": do_stime() has asked for the uptime
  newboot,    \* the local boottime of do_stime()
  reply,      \* the last message of the process manager, and when it was made
  watched,    \* history: one of the calls, chosen at the start,
  seen,       \*   and the last answer to it since the clock was set
  set         \* history: what the clock was set to, and in which second

vars == <<uptime, boottime, pc, newboot, reply, watched, seen, set>>

NoAnswer == <<-1, -1>>

\* Arithmetic in a 32-bit time_t.
Wrap(x) == ((x + Half) % (2 * Half)) - Half

Seconds == uptime \div system_hz

Init ==
  /\ uptime = 0
  /\ boottime \in Times
  /\ pc = "idle"
  /\ newboot = 0
  /\ reply = [call |-> STIME, status |-> OK, time |-> 0, utime |-> 0, now |-> 0]
  /\ watched \in Calls \ {STIME}
  /\ seen = NoAnswer
  /\ set = [time |-> boottime, second |-> 0]

tick ==
  /\ uptime < MaxTicks
  /\ uptime' = uptime + 1
  /\ UNCHANGED <<boottime, pc, newboot, reply, watched, seen, set>>

\* call_vec: which function serves a call.
call_vec == [c \in Calls |->
  CASE c \in {TIME, GETTIMEOFDAY} -> "do_time"
    [] c = STIME -> "do_stime"
    [] c = TIMES -> "do_times"
    [] c = UTCTIME -> "do_utctime"]

Serves(c, f) == pc = "idle" /\ call_vec[c] = f

\* What getuptime2() gives: the clock in seconds, and the rest of a second.
Now == Wrap(boottime + Seconds)

\* The part of a second that so many ticks are.
Micros(ticks) == ((ticks * Million) % Word) \div system_hz

\* Mutant: all ticks since boot are counted as a part of this second.
microsecondsOfUptime == Micros(uptime)

microseconds == Micros(uptime % system_hz)

Answer(c, time, utime) ==
  /\ reply' = [call |-> c, status |-> OK, time |-> time, utime |-> utime, now |-> Now]
  /\ seen' = IF c = watched THEN <<time, utime>> ELSE seen
  /\ UNCHANGED <<uptime, boottime, pc, newboot, watched, set>>

do_time(c) ==
  /\ Serves(c, "do_time")
  /\ Answer(c, Now, microseconds)

\* Mutant: a leap second counts already in the second that it follows.
LeapsEarly(t) ==
  CHOOSE i \in 0 .. Len(leapsecond_reference) :
    /\ \A k \in 1 .. i : t >= leapsecond_reference[k]
    /\ i < Len(leapsecond_reference) => ~(t >= leapsecond_reference[i+1])

\* Where the loop over the table stops: at the first entry not before t.
Leaps(t) ==
  CHOOSE i \in 0 .. Len(leapsecond_reference) :
    /\ \A k \in 1 .. i : t > leapsecond_reference[k]
    /\ i < Len(leapsecond_reference) => ~(t > leapsecond_reference[i+1])

Utc(t) == Wrap(t + Leaps(t) + 10)

do_utctime(c) ==
  /\ Serves(c, "do_utctime")
  /\ Answer(c, Utc(Now), microseconds)

\* The first three times of the answer are the kernel's and the parent's
\* accounts, which nothing here depends on.
do_times(c) ==
  /\ Serves(c, "do_times")
  /\ Answer(c, uptime, 0)

do_stimeForbidden(c) ==
  /\ Serves(c, "do_stime")
  /\ reply' = [call |-> c, status |-> -EPERM, time |-> 0, utime |-> 0, now |-> Now]
  /\ UNCHANGED <<uptime, boottime, pc, newboot, watched, seen, set>>

\* do_stime() up to getuptime(), for the super user.
do_stime(c, t) ==
  /\ Serves(c, "do_stime")
  /\ newboot' = Wrap(t - Seconds)
  /\ set' = [time |-> t, second |-> Seconds]
  /\ pc' = "stime"
  /\ UNCHANGED <<uptime, boottime, reply, watched, seen>>

SetBoottime(t) ==
  /\ pc = "stime"
  /\ boottime' = t
  /\ reply' = [call |-> STIME, status |-> OK, time |-> 0, utime |-> 0, now |-> Now]
  /\ seen' = NoAnswer
  /\ pc' = "idle"
  /\ UNCHANGED <<uptime, newboot, watched, set>>

\* Mutant: the kernel is told the time, as if it had just been booted.
sys_stimeAsNow == SetBoottime(set.time)

sys_stime == SetBoottime(newboot)

Next ==
  \/ tick
  \/ \E c \in Calls : \/ do_time(c) \/ do_utctime(c) \/ do_times(c)
                      \/ do_stimeForbidden(c)
                      \/ \E t \in Times : do_stime(c, t)
  \/ sys_stime

Spec == Init /\ [][Next]_vars

\* What the library function utctime() makes of the last message.
utctime == IF reply.status < 0 THEN -1 ELSE reply.time
-----------------------------------------------------------------------------
TypeOK ==
  /\ uptime \in Nat
  /\ boottime \in -Half .. Half-1
  /\ pc \in {"idle", "stime"}
  /\ newboot \in -Half .. Half-1
  /\ reply.call \in Calls
  /\ reply.utime \in 0 .. Million-1
  /\ watched \in Calls
  /\ seen \in Int \X Int
  /\ set \in [time : -Half .. Half-1, second : Nat]

\* "pass the new time in seconds at system boot to the kernel" (time.c:78):
\* once do_stime() has returned, the clock shows the time it was set to plus
\* the seconds that have begun since, however long both calls took.
StimeTakes == pc = "idle" => Now = Wrap(set.time + (Seconds - set.second))

\* "This returns the time in seconds since 1.1.1970, while taking leap seconds
\* into account" (time.c:42): utctime() is ahead of time() by the ten seconds
\* of 1970 to 1972 and by one more for every entry of the table in the past.
UtcCountsLeaps ==
  reply.call = UTCTIME =>
    utctime = Wrap(reply.now + 10 + Cardinality({k \in 1 .. Len(leapsecond_reference) :
                                                   leapsecond_reference[k] < reply.now}))

NotBefore(a, b) == a[1] > b[1] \/ (a[1] = b[1] /\ a[2] >= b[2])

\* "we will run into integer overflow issues around the year 2038" (time.c:44)
\* is excluded: the clock is far enough from the end of time_t.  So are clock
\* rates above 4294 Hz (the kernel's main.c:392 admits 50000), at which the
\* product of time.c:33 does not fit and the microseconds start again before
\* the second ends.
ProductFits == (system_hz - 1) * Million < Word
InRange ==
  /\ boottime + Seconds + Len(leapsecond_reference) + 10 < Half
  /\ ProductFits

\* As long as nobody sets the clock, a later answer to a call is not before
\* an earlier one, to the microsecond, over leap seconds and over the end of a
\* second.
NeverBackwards ==
  [][InRange' /\ seen # NoAnswer /\ seen' # NoAnswer => NotBefore(seen', seen)]_vars
=============================================================================
