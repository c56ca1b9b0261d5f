----------------------------- MODULE Heartbeat -----------------------------
(***************************************************************************)
(* The time thread pthTime and the heartbeat loop of Hall (lib/decode.c).  *)
(*                                                                         *)
(* pthTime copies the system clock to timeGloble_g a few times a second;   *)
(* Hall wakes up, reads it, and calls core_heart_1s when it has changed    *)
(* since its last call.  Nothing but timing ties the two together, so the  *)
(* model has time in it: a thread that sleeps acts once its time has come  *)
(* and at most Late ticks after.                                           *)
(***************************************************************************)
EXTENDS Integers

CONSTANTS
    Second,    \* ticks in a second
    Period,    \* ticks pthTime sleeps: 200 ms
    Work,      \* the longest core_heart and core_heart_1s take, in ticks
    Late,      \* how late a sleeping thread may wake up, in ticks
    Word,      \* one more than the largest unsigned int
    Epoch,     \* the system clock at the start, in seconds
    StepsBack, \* bound: times the system clock is set back, by a second each
    MaxTime    \* bound: ticks in a behaviour

ASSUME HeartbeatAssumption ==
    /\ {Second, Period} \subseteq Nat \ {0}
    /\ {Work, Late, Epoch, StepsBack, MaxTime} \subseteq Nat
    /\ Word \in Nat
    /\ StepsBack < Epoch /\ Epoch + MaxTime < Word

VARIABLES
    GAME_HEART_BEAT_g, \* ticks Hall sleeps, 100 ms unless configured
    DB_SCAN_ENABLE_g,  \* whether there is a heartbeat at all
    now,            \* ticks since Hall's loop began
    back,           \* seconds the system clock was set back
    timeGloble_g,   \* the time the program knows
    timeWake,       \* when pthTime wakes up
    hall,           \* Hall: before its loop, idling, asleep, in the handlers, or
                    \* about to check
    wake,           \* when Hall wakes up, or the time its handlers started
    nowTime, lastHeartTime,
    lastBeat,       \* when core_heart_1s was last called
    warned          \* how long the handlers took when Hall last warned, -1 if never

settings == <<GAME_HEART_BEAT_g, DB_SCAN_ENABLE_g>>

heartVars == <<settings, now, back, timeGloble_g, timeWake, hall, wake, nowTime,
               lastHeartTime, lastBeat, warned>>

clock == Epoch + (now \div Second) - back

HeartbeatInit ==
    /\ now = 0 /\ back = 0
    /\ timeGloble_g = Epoch
    /\ timeWake = Period
    /\ hall = "before" /\ wake = 0
    /\ nowTime = 0 /\ lastHeartTime = 0
    /\ lastBeat = 0
    /\ warned = -1

Beating == hall \in {"asleep", "working", "check"}

\* Hall after core_init and its sleep, pthTime being in its loop by then: the
\* heartbeat loop, or the idle one.
enterLoop ==
    /\ hall = "before"
    /\ hall' = IF DB_SCAN_ENABLE_g = 0 THEN "idle" ELSE "asleep"
    /\ wake' = now + GAME_HEART_BEAT_g
    /\ UNCHANGED <<settings, now, back, timeGloble_g, timeWake, nowTime, lastHeartTime,
                   lastBeat, warned>>

\* Time passes unless somebody is due.
tick ==
    /\ Beating /\ hall # "check"
    /\ now < MaxTime
    /\ now < timeWake + Late
    /\ hall = "asleep"  => now < wake + Late
    /\ hall = "working" => now < wake + Work
    /\ now' = now + 1
    /\ UNCHANGED <<settings, back, timeGloble_g, timeWake, hall, wake, nowTime,
                   lastHeartTime, lastBeat, warned>>

setBack ==
    /\ Beating /\ back < StepsBack
    /\ back' = back + 1
    /\ UNCHANGED <<settings, now, timeGloble_g, timeWake, hall, wake, nowTime, lastHeartTime,
                   lastBeat, warned>>

\* One round of pthTime's loop.
pthTime ==
    /\ Beating /\ now >= timeWake
    /\ timeGloble_g' = clock
    /\ timeWake' = now + Period
    /\ UNCHANGED <<settings, now, back, hall, wake, nowTime, lastHeartTime, lastBeat, warned>>

\* Variant of hallWakes: every other second is left out.
hallWakesEven ==
    /\ hall = "asleep" /\ now >= wake
    /\ hall' = "working" /\ wake' = now
    /\ nowTime' = timeGloble_g
    /\ IF lastHeartTime # timeGloble_g /\ timeGloble_g % 2 = 0
       THEN lastHeartTime' = timeGloble_g /\ lastBeat' = now
       ELSE UNCHANGED <<lastHeartTime, lastBeat>>
    /\ UNCHANGED <<settings, now, back, timeGloble_g, timeWake, warned>>

\* Hall's loop up to the handlers: core_heart, and core_heart_1s if the second
\* is a new one.  core_heart comes first and is a stub: it takes no time before
\* core_heart_1s is called, and Work is the time of the two together.
hallWakes ==
    /\ hall = "asleep" /\ now >= wake
    /\ hall' = "working" /\ wake' = now
    /\ nowTime' = timeGloble_g
    /\ IF lastHeartTime # timeGloble_g
       THEN lastHeartTime' = timeGloble_g /\ lastBeat' = now
       ELSE UNCHANGED <<lastHeartTime, lastBeat>>
    /\ UNCHANGED <<settings, now, back, timeGloble_g, timeWake, warned>>

hallWorked ==
    /\ hall = "working"
    /\ hall' = "check"
    /\ UNCHANGED <<settings, now, back, timeGloble_g, timeWake, wake, nowTime, lastHeartTime,
                   lastBeat, warned>>

\* The time passed meanwhile, a difference of unsigned numbers.
usedTooLong == (timeGloble_g - nowTime) % Word > 1

\* The warning, and to sleep again.
hallChecks ==
    /\ hall = "check"
    /\ warned' = IF usedTooLong THEN now - wake ELSE warned
    /\ hall' = "asleep" /\ wake' = now + GAME_HEART_BEAT_g
    /\ UNCHANGED <<settings, now, back, timeGloble_g, timeWake, nowTime, lastHeartTime, lastBeat>>

heartbeat == tick \/ setBack \/ pthTime \/ hallWakes \/ hallWorked \/ hallChecks

-----------------------------------------------------------------------------
(* Properties. *)

\* The threads have time enough in a second to follow each other.
RoomInASecond == Period + Late + GAME_HEART_BEAT_g + Late + Work <= Second

\* core_heart_1s is called about once a second and never more than two seconds
\* apart, as its description says, when the handlers take their usual time and
\* the configured sleep leaves room; a clock that is set back delays it by no
\* more than that.  (A core_heart that took time would add it to the gap.)
NeverTwoSeconds ==
    Beating /\ RoomInASecond => now - lastBeat <= (2 + back) * Second

lastSecond == IF lastHeartTime = 0 THEN Epoch - 1 ELSE lastHeartTime

\* core_heart_1s is called for every second, if there is room: a call is for the
\* second after the last one (the very first for that of the start), or, when
\* the clock is set back, for an earlier one.
NoSecondSkipped ==
    [][RoomInASecond /\ lastHeartTime' \notin {0, lastHeartTime} =>
          \/ lastHeartTime' = lastSecond + 1
          \/ back > 0 /\ lastHeartTime' \in (lastSecond - back)..lastSecond]_heartVars

=============================================================================
