------------------------------- MODULE TickStamp -------------------------------
(***************************************************************************)
(* tick.py (and its C++ twin tick.h): stamps are read as ticks of 50 ms.    *)
(* A stamp is its nanoseconds since the start; the double it goes through   *)
(* in tick_index is exact enough for the rounding, which it is for, and     *)
(* is left out.                                                             *)
(***************************************************************************)
EXTENDS Integers

TickNanos == 50000000
NanosPerSecond == 1000000000

(* tick_stamp: the message's seconds and nanoseconds. *)
TickStamp(k) == [sec |-> (k * TickNanos) \div NanosPerSecond,
                 nanosec |-> (k * TickNanos) % NanosPerSecond]

Nanos(stamp) == stamp.sec * NanosPerSecond + stamp.nanosec

(* tick_index: the nearest tick, half a tick rounded away from zero. *)
TickIndex(nanos) ==
  IF nanos >= 0 THEN (nanos + TickNanos \div 2) \div TickNanos
  ELSE - ((- nanos + TickNanos \div 2) \div TickNanos)

(* is_planning_tick: 10 Hz nodes act on the even ticks. *)
IsPlanningTick(k) == k % 2 = 0
===============================================================================
