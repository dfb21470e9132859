-------------------------- MODULE ReminderScheduler --------------------------
(***************************************************************************)
(* When a contribution reminder is sent (services/reminder_scheduler.ts),  *)
(* and how it is queued (services/notifications.ts).  Times are whole      *)
(* hours since some midnight UTC; a timezone is its offset in hours, the   *)
(* same on both sides of the computation, so daylight saving is left out.  *)
(* An unset preference is NoTime, unset quiet hours are <<>>.              *)
(***************************************************************************)
EXTENDS Integers, FiniteSets

CONSTANTS
  Offsets,         \* bound: the timezones tried
  TimesOfDay,      \* bound: the preferred and quiet hours tried
  Deadlines,       \* bound: the deadlines tried
  ReminderClock,   \* bound: the values of now tried
  NoTime

ASSUME ReminderAssumption ==
  /\ Offsets \subseteq -12..14 /\ TimesOfDay \subseteq 0..23
  /\ Deadlines \subseteq Nat /\ ReminderClock \subseteq Nat
  /\ NoTime \notin 0..23

leadHoursList == {48, 24}

VARIABLES
  request,  \* the deadline, the clock and the preferences of the last call
  slots     \* the slots it returned, by lead

reminderVars == <<request, slots>>

Requests ==
  [deadline : Deadlines, now : ReminderClock, offset : Offsets,
   preferred : TimesOfDay \union {NoTime}, quiet : {<<>>} \union (TimesOfDay \X TimesOfDay),
   optedOut : BOOLEAN]

ReminderInit ==
  /\ request = [deadline |-> 0, now |-> 0, offset |-> 0, preferred |-> NoTime,
                quiet |-> <<>>, optedOut |-> FALSE]
  /\ slots = {}

-----------------------------------------------------------------------------

isTimeInQuietHours(time, start, end) ==
  IF start <= end THEN start <= time /\ time <= end
                  ELSE start <= time \/ time <= end

formatLocalTime(t, offset) == (t + offset) % 24

localDay(t, offset) == (t + offset) \div 24

adjustTimeForTimezone_utc_day(base, target, offset) ==
  LET utcTest == 24 * (base \div 24) + target
  IN  utcTest - (formatLocalTime(utcTest, offset) - target)

\* The local date of base, the target hour on it taken as UTC, less the hours
\* by which that instant reads differently on a local clock.
adjustTimeForTimezone(base, target, offset) ==
  LET utcTest == 24 * localDay(base, offset) + target
  IN  utcTest - (formatLocalTime(utcTest, offset) - target)

\* A time inside the quiet hours moves to their end.
quietShift(q, t) ==
  IF /\ q.quiet # <<>>
     /\ isTimeInQuietHours(formatLocalTime(t, q.offset), q.quiet[1], q.quiet[2])
  THEN adjustTimeForTimezone(t, q.quiet[2], q.offset)
  ELSE t

firstTime(q, lead) ==
  IF q.preferred = NoTime THEN q.deadline - lead
  ELSE adjustTimeForTimezone(q.deadline - lead, q.preferred, q.offset)

slotFor_unchecked(q, lead) ==
  LET first == firstTime(q, lead)
      skip  == q.optedOut \/ first <= q.now
  IN  [lead |-> lead, at |-> IF skip THEN first ELSE quietShift(q, first), muted |-> skip]

\* The slot of one lead time: skipped if it is muted or in the past, before or
\* after the quiet hours moved it.
slotFor(q, lead) ==
  LET first == firstTime(q, lead)
      skip  == q.optedOut \/ first <= q.now
      at    == IF skip THEN first ELSE quietShift(q, first)
  IN  [lead |-> lead, at |-> at, muted |-> skip \/ at <= q.now]

\* calculateReminderSchedules: one slot per lead time.  It is a pure function,
\* so one call from each state is enough.
calculateReminderSchedules ==
  /\ slots = {}
  /\ \E q \in Requests :
       /\ request' = q
       /\ slots' = {slotFor(q, lead) : lead \in leadHoursList}

\* scheduleContributionReminders queues the slots that are not muted.
scheduleContributionReminders == {s \in slots : ~s.muted}

ReminderNext == calculateReminderSchedules

-----------------------------------------------------------------------------

\* Whether the target hour falls on the same UTC date as on the local one.
SameDate(target, offset) == target + offset \in 0..23

(***************************************************************************)
(* adjustTimeForTimezone always lands on the hour asked for of the local   *)
(* clock, and on the local date of its argument exactly when target +      *)
(* offset stays within one day; otherwise it is a whole day off, because   *)
(* it subtracts clock readings and ignores their dates.                    *)
(***************************************************************************)
AdjustedHourAndDay ==
  request.preferred # NoTime =>
    \A lead \in leadHoursList :
      LET base   == request.deadline - lead
          target == request.preferred
          t      == adjustTimeForTimezone(base, target, request.offset)
      IN  /\ formatLocalTime(t, request.offset) = target
          /\ (localDay(t, request.offset) = localDay(base, request.offset))
               <=> SameDate(target, request.offset)

(***************************************************************************)
(* No reminder is queued for an hour inside the quiet hours: the slot that *)
(* was moved out of them is at their very end, although the move is made   *)
(* once, is not checked again and may change the date.  A reminder that is *)
(* queued lies in the future, and before the deadline unless a date was    *)
(* missed: with the default leads, neither a preferred hour nor quiet      *)
(* hours that stay on their date move a slot past it.                      *)
(***************************************************************************)
QueuedWhenItShould ==
  LET stays(h) == SameDate(h, request.offset)
  IN  \A s \in scheduleContributionReminders :
        /\ request.quiet # <<>> =>
             LET hour == formatLocalTime(s.at, request.offset)
             IN  \/ hour = request.quiet[2]
                 \/ ~isTimeInQuietHours(hour, request.quiet[1], request.quiet[2])
        /\ s.at > request.now
        /\ (/\ request.preferred # NoTime => stays(request.preferred)
            /\ request.quiet # <<>> => stays(request.quiet[2]))
             => s.at < request.deadline
=============================================================================
