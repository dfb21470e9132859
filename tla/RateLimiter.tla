----------------------------- MODULE RateLimiter -----------------------------
(***************************************************************************)
(* The tiered rate limiter (redis_rate_limiter.ts) for one caller: a short *)
(* and a long sliding window, each a sorted set in Redis that a script     *)
(* checks and extends.  A request takes the time, then awaits one script   *)
(* per window, then picks the window it calls the strictest and follows    *)
(* its verdict.  Requests overlap.                                         *)
(***************************************************************************)
EXTENDS Integers, FiniteSets

CONSTANTS
  MaxCalls,                \* bound: requests, numbered as they arrive
  InFlight,                \* bound: requests under way at once
  ShortWindow, LongWindow, \* windowMs
  ShortMax, LongMax,       \* max
  MaxLimiterTime           \* bound: the clock

ASSUME LimiterAssumption ==
  /\ MaxCalls \in Nat /\ InFlight \in Nat \ {0}
  /\ ShortWindow \in Nat \ {0} /\ LongWindow \in Nat \ {0}
  /\ ShortMax \in Nat \ {0} /\ LongMax \in Nat \ {0} /\ MaxLimiterTime \in Nat

LimitedCalls == 1..MaxCalls

Windows == {"short", "long"}
windowMs(w) == IF w = "short" THEN ShortWindow ELSE LongWindow
max(w) == IF w = "short" THEN ShortMax ELSE LongMax

VARIABLES
  limiterClock,
  zset,      \* the members of each sorted set: requests, whose score is their time
  limited,   \* each request: its step, its time and what the scripts returned
  passed,    \* history: the requests handed on to next()
  overtaken  \* history: requests with a script that ran after a later one's

limiterVars == <<limiterClock, zset, limited, passed, overtaken>>

Unasked == [allowed |-> FALSE, remaining |-> 0]

LimiterInit ==
  /\ limiterClock = 0
  /\ zset = [w \in Windows |-> {}]
  /\ limited = [c \in LimitedCalls |->
                  [step |-> "new", now |-> 0, short |-> Unasked, long |-> Unasked]]
  /\ passed = {} /\ overtaken = {}

-----------------------------------------------------------------------------

arrives(c) ==
  /\ limited[c].step = "new"
  /\ \A d \in 1..(c - 1) : limited[d].step # "new"
  /\ \A d \in 1..(c - InFlight) : limited[d].step = "done"
  /\ limited' = [limited EXCEPT ![c].step = "short", ![c].now = limiterClock]
  /\ UNCHANGED <<limiterClock, zset, passed, overtaken>>

\* The members that ZREMRANGEBYSCORE leaves.
recent(w, now) == {c \in zset[w] : limited[c].now > now - windowMs(w)}

\* The script, with a cost of 1.
verdict(w, now) ==
  LET count == Cardinality(recent(w, now))
      left  == max(w) - count - 1
  IN  IF left >= 0 THEN [allowed |-> TRUE, remaining |-> left]
      ELSE [allowed |-> FALSE, remaining |-> IF max(w) > count THEN max(w) - count ELSE 0]

hasRun(d, w) ==
  limited[d].step \in IF w = "short" THEN {"long", "decide", "done"} ELSE {"decide", "done"}

checkWindow(c, w) ==
  LET now == limited[c].now
      v   == verdict(w, now)
  IN  /\ limited[c].step = w
      /\ zset' = [zset EXCEPT ![w] = recent(w, now) \union (IF v.allowed THEN {c} ELSE {})]
      /\ limited' = [limited EXCEPT ![c] =
           IF w = "short" THEN [@ EXCEPT !.step = "long", !.short = v]
                          ELSE [@ EXCEPT !.step = "decide", !.long = v]]
      /\ overtaken' = IF \E d \in LimitedCalls : limited[d].now > now /\ hasRun(d, w)
                      THEN overtaken \union {c} ELSE overtaken
      /\ UNCHANGED <<limiterClock, passed>>

strictest_loosest(s, l) == IF s.remaining * LongMax < l.remaining * ShortMax THEN l ELSE s

\* The window that is used most, 1 - remaining / limit; the first one on a tie.
strictest(s, l) == IF l.remaining * ShortMax < s.remaining * LongMax THEN l ELSE s

decides(c) ==
  /\ limited[c].step = "decide"
  /\ limited' = [limited EXCEPT ![c].step = "done"]
  /\ passed' = IF strictest(limited[c].short, limited[c].long).allowed
               THEN passed \union {c} ELSE passed
  /\ UNCHANGED <<limiterClock, zset, overtaken>>

LimiterTimePasses ==
  /\ limiterClock < MaxLimiterTime /\ limiterClock' = limiterClock + 1
  /\ UNCHANGED <<zset, limited, passed, overtaken>>

LimiterNext ==
  \/ \E c \in LimitedCalls :
       arrives(c) \/ checkWindow(c, "short") \/ checkWindow(c, "long") \/ decides(c)
  \/ LimiterTimePasses

-----------------------------------------------------------------------------

\* Requests of passed within one window that ends with c.
Within(c, w) == {d \in passed : /\ limited[d].now > limited[c].now - windowMs(w)
                                /\ limited[d].now <= limited[c].now}

\* Requests that took the last place of the short window.
FillsShort == {c \in LimitedCalls : limited[c].short.allowed /\ limited[c].short.remaining = 0}

(***************************************************************************)
(* Leaving out the requests whose script ran after that of a later one, no *)
(* more than ShortMax get through within a short window, and no more than  *)
(* LongMax within a long one, but for those that took the last place of    *)
(* the short window: they tie with a long window that refuses, and a tie   *)
(* goes to the first window.                                               *)
(***************************************************************************)
LimitsKept ==
  \A c \in passed :
    /\ Cardinality(Within(c, "short") \ overtaken) <= ShortMax
    /\ Cardinality(Within(c, "long") \ (overtaken \union FillsShort)) <= LongMax
=============================================================================
