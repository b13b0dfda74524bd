------------------------------ MODULE Calendar ------------------------------
(***************************************************************************)
(* The calendar server (servers/calendar/): events are created and deleted *)
(* through a provider, and free slots are searched between the events it   *)
(* lists.                                                                  *)
(*                                                                         *)
(* The provider is the one in memory or the one over Google Calendar; both *)
(* answer without letting another call in.  Times are counted in slots of  *)
(* one length, Day of them to a day; day 0 is a Monday.                    *)
(***************************************************************************)
EXTENDS Integers, FiniteSets, FiniteSetsExt

CONSTANTS
  Day,            (* the length of a day                                   *)
  StartHour, EndHour, WorkingDays,    (* BusinessHours                     *)
  DefaultDuration,  (* slot_duration_minutes of the finder                 *)
  Durations,        (* duration_minutes of the calls                       *)
  Calendars, OwnCalendar,   (* calendar ids; calendar_id of the provider   *)
  MaxResults,               (* what Google lists at most                   *)
  Bookings, Ranges, (* <<start, end>> of the events and of the searches    *)
  MaxEvents         (* bound: events ever created                          *)

VARIABLES
  provider,  (* "mock" or "google"                                         *)
  events,    (* events[id], with the calendar they are on                  *)
  counter,   (* the number of the last id                                  *)
  offer,     (* the last answer of find_free_slots, and what was asked     *)
  deleted    (* history: the events that were deleted                      *)

vars == <<provider, events, counter, offer, deleted>>

Init ==
  /\ provider \in {"mock", "google"}
  /\ events = <<>> /\ counter = 0
  /\ offer = [slots |-> {}, busy |-> {}, start |-> 0, end |-> 0,
            duration |-> DefaultDuration]
  /\ deleted = 0

Overlaps(s, e, other) == s < other.end /\ other.start < e

-----------------------------------------------------------------------------
(* The providers                                                           *)

\* In memory: the events that lie wholly inside the range.
MockEvents(start, end, cal) ==
  {id \in DOMAIN events : /\ events[id].start >= start /\ events[id].end <= end
                          /\ events[id].calendar = cal}

\* Google: those that reach into it, the first MaxResults of them by start.
GoogleEvents(start, end, cal) ==
  LET in == {id \in DOMAIN events : /\ Overlaps(start, end, events[id])
                                    /\ events[id].calendar = cal}
      before(i, j) == \/ events[i].start < events[j].start
                      \/ events[i].start = events[j].start /\ i < j
  IN  {id \in in : Cardinality({other \in in : before(other, id)}) < MaxResults}

ListEvents(start, end, cal) ==
  {events[id] : id \in IF provider = "mock" THEN MockEvents(start, end, cal)
                                            ELSE GoogleEvents(start, end, cal)}

\* Mutant: one more than there are events.
NewIdByCount == Cardinality(DOMAIN events) + 1

\* The id of a new event: the next number.
NewId == counter + 1

\* create_event: nothing looks whether the time is free.
CreateEvent(b, cal) ==
  /\ counter < MaxEvents
  /\ counter' = counter + 1
  /\ events' = [id \in DOMAIN events \cup {NewId} |->
                  IF id = NewId THEN [start |-> b[1], end |-> b[2], calendar |-> cal]
                                ELSE events[id]]
  /\ UNCHANGED <<provider, offer, deleted>>

\* delete_event: in memory any event; at Google those of the provider's own
\* calendar, and for another one the error becomes "not found".
DeleteEvent(id) ==
  /\ id \in DOMAIN events
  /\ provider = "mock" \/ events[id].calendar = OwnCalendar
  /\ events' = Restrict(events, DOMAIN events \ {id})
  /\ deleted' = deleted + 1
  /\ UNCHANGED <<provider, counter, offer>>

-----------------------------------------------------------------------------
(* AvailabilityFinder                                                      *)

DayOf(t) == t \div Day
Working(t) == DayOf(t) % 7 \in WorkingDays
Opens(d) == d * Day + StartHour
Closes(d) == d * Day + EndHour

\* Mutant: the next day starts at the hour the last slot of this one ended.
FindFreeSlotsSameHour(start, end, busy, duration) ==
  LET first == Max({start, Opens(DayOf(start))})
      from[t \in start .. Max({start, end}) + 2 * Day] ==
        IF t >= end THEN {}
        ELSE IF Working(t) /\ t + duration <= Closes(DayOf(t))
             THEN (IF \E b \in busy : Overlaps(t, t + duration, b) THEN {} ELSE {t})
                    \cup from[t + duration]
        ELSE from[t + Day]
  IN  from[first]

\* find_free_slots: from the start, or the opening of its day, slot after slot
\* to the end of the day, then from the opening of the next one.
FindFreeSlots(start, end, busy, duration) ==
  LET first == Max({start, Opens(DayOf(start))})
      from[t \in start .. Max({start, end}) + 2 * Day] ==
        IF t >= end THEN {}
        ELSE IF Working(t) /\ t + duration <= Closes(DayOf(t))
             THEN (IF \E b \in busy : Overlaps(t, t + duration, b) THEN {} ELSE {t})
                    \cup from[t + duration]
        ELSE from[Opens(DayOf(t) + 1)]
  IN  from[first]

\* The tool: the events of the range are busy; a duration of 0 is the default.
FindSlots(r, duration, cal) ==
  LET busy == ListEvents(r[1], r[2], cal)
      d == IF duration = 0 THEN DefaultDuration ELSE duration
  IN
  /\ offer' = [slots |-> FindFreeSlots(r[1], r[2], busy, d), busy |-> busy,
               start |-> r[1], end |-> r[2], duration |-> d]
  /\ UNCHANGED <<provider, events, counter, deleted>>

Next ==
  \/ \E b \in Bookings, cal \in Calendars : CreateEvent(b, cal)
  \/ \E id \in 1 .. MaxEvents : DeleteEvent(id)
  \/ \E r \in Ranges, d \in Durations, cal \in Calendars : FindSlots(r, d, cal)

Spec == Init /\ [][Next]_vars

-----------------------------------------------------------------------------
(* Properties                                                              *)

\* The slots offered are exactly these: on a working day, a whole number of
\* durations after it opens (the first day: after the start, when that is
\* later), ended when it closes, begun in the range, and beside every event
\* that was listed.  (find_free_slots)
SlotsAreExact ==
  LET o == offer
      begin(d) == IF d = DayOf(o.start) THEN Max({o.start, Opens(d)}) ELSE Opens(d)
  IN  o.slots = {t \in o.start .. o.end - 1 :
                   /\ DayOf(t) % 7 \in WorkingDays
                   /\ t >= begin(DayOf(t)) /\ (t - begin(DayOf(t))) % o.duration = 0
                   /\ t + o.duration <= Closes(DayOf(t))
                   /\ \A b \in o.busy : b.end <= t \/ t + o.duration <= b.start}

\* Every event that was created and not deleted is there, and under an id of
\* its own, however creations and deletions follow one another.
\* (create_event, delete_event)
NoEventLost == Cardinality(DOMAIN events) = counter - deleted

=============================================================================
