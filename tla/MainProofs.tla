-------------------------- MODULE MainProofs -----------------------------
(***************************************************************************)
(* The heartbeat of a process that is started, configured and killed like  *)
(* any other (MainSpec): for every length of a second, of the sleeps, of   *)
(* the handlers and of the delays, core_heart_1s is called for every       *)
(* second and never more than two seconds apart, if the configured sleep   *)
(* leaves room for it.                                                     *)
(*                                                                         *)
(* The argument: pthTime runs at most Period + Late after it last ran, so  *)
(* timeGloble_g is behind the clock by no more; once timeGloble_g differs  *)
(* from the second of the last call, Hall reads it at Due at the latest,   *)
(* and Due lies in the second that follows, or in the one after.           *)
(*                                                                         *)
(* And the process takes part in the protocol of InstanceLock as before,   *)
(* and every setting that main looks up is the one in the file.            *)
(***************************************************************************)
EXTENDS Main, WellFoundedInduction, TLAPS

-----------------------------------------------------------------------------
(* Mutual exclusion of instances, for any number of processes and names. *)

\* A process past the lock is the holder for its name: what F_SETLK grants in
\* tryLockPidFile is kept until the process ends.  A running one is named in
\* the file.
LockInv ==
    /\ LockTypeOK
    /\ \A p \in Procs : pc[p] \in Inside => holder[NameOf[p]] = p
    /\ PidFileNamesRunning

\* LockInv is inductive: each step of main, and the end of a process, keeps it.
THEOREM LockInvariant == LockSpec => []LockInv
<1>1. LockInit => LockInv
  BY LockAssumption DEF LockInit, LockInv, LockTypeOK, Inside, PidFileNamesRunning
<1>2. LockInv /\ [LockNext]_lockVars => LockInv'
  <2> SUFFICES ASSUME LockInv, [LockNext]_lockVars PROVE LockInv'
    OBVIOUS
  <2> USE LockAssumption DEF LockInv, LockTypeOK, Inside, PidFileNamesRunning
  <2>1. ASSUME NEW p \in Procs, open(p) PROVE LockInv'
    BY <2>1 DEF open
  <2>2. ASSUME NEW p \in Procs, tryLockPidFile(p) PROVE LockInv'
    <3>1. CASE holder[NameOf[p]] = NoProc
      BY <2>2, <3>1 DEF tryLockPidFile
    <3>2. CASE holder[NameOf[p]] # NoProc
      BY <2>2, <3>2 DEF tryLockPidFile
    <3> QED
      BY <3>1, <3>2
  <2>3. ASSUME NEW p \in Procs, truncate(p) PROVE LockInv'
    BY <2>3 DEF truncate
  <2>4. ASSUME NEW p \in Procs, writePid(p) PROVE LockInv'
    BY <2>4 DEF writePid
  <2>5. ASSUME NEW p \in Procs, ends(p) PROVE LockInv'
    BY <2>5 DEF ends
  <2>6. CASE UNCHANGED lockVars
    BY <2>6 DEF lockVars
  <2> QED
    BY <2>1, <2>2, <2>3, <2>4, <2>5, <2>6 DEF LockNext
<1> QED
  BY <1>1, <1>2, PTL DEF LockSpec

\* Two instances of one name never get past isInRunning together: they would
\* both be the one holder of the lock on the same file.
THEOREM Exclusion == LockSpec => []OneInstance
<1>1. LockInv => OneInstance
  BY DEF LockInv, OneInstance
<1> QED
  BY <1>1, LockInvariant, PTL

\* The file names the running instance: only the holder truncates and writes it.
THEOREM RunningIsNamed == LockSpec => []PidFileNamesRunning
<1>1. LockInv => PidFileNamesRunning
  BY DEF LockInv
<1> QED
  BY <1>1, LockInvariant, PTL

\* Whole seconds, as clock counts them.
LEMMA Seconds ==
  ASSUME NEW n \in Nat
  PROVE  /\ n \div Second \in Nat
         /\ (n \div Second) * Second <= n
         /\ n < (n \div Second + 1) * Second
<1>1. Second \in Nat /\ Second > 0
  BY HeartbeatAssumption
<1>2. n \div Second \in Nat
  BY <1>1
<1>3. (n \div Second) * Second <= n
  BY <1>1
<1>4. n < (n \div Second + 1) * Second
  BY <1>1
<1> QED
  BY <1>2, <1>3, <1>4

\* Multiplying by the length of a second keeps the order of two numbers.
LEMMA Monotone ==
  ASSUME NEW a \in Int, NEW b \in Int, a <= b
  PROVE  a * Second <= b * Second
BY HeartbeatAssumption

\* And the order of their products is theirs.
LEMMA Strict ==
  ASSUME NEW a \in Int, NEW b \in Int, a * Second < b * Second
  PROVE  a < b
BY HeartbeatAssumption

-----------------------------------------------------------------------------

\* When pthTime last ran, in ticks and in whole seconds, and how far the clock
\* it read was set back.
updated == timeWake - Period
seconds == updated \div Second
saw == Epoch + seconds - timeGloble_g

\* When Hall reads timeGloble_g next, at the latest.
Due ==
    IF hall = "asleep" THEN wake + Late ELSE wake + Work + GAME_HEART_BEAT_g + Late

\* Hall reads a new second before the one after it is over.
ReadInTime ==
    RoomInASecond /\ timeGloble_g # lastHeartTime =>
        Due < (IF lastHeartTime = 0 THEN 1 ELSE lastHeartTime - Epoch + saw + 2) * Second

HeartTypeOK ==
    /\ asked \in 0..2
    /\ GAME_HEART_BEAT_g \in Nat
    /\ hall \in {"before", "idle", "asleep", "working", "check"}
    /\ {now, timeWake, wake, lastBeat, lastHeartTime} \subseteq Nat
    /\ back \in 0..StepsBack
    /\ timeGloble_g \in Int

\* How far the threads have come.
Punctual ==
    /\ updated \in 0..now
    /\ now <= timeWake + Late
    /\ hall = "asleep" => now <= wake + Late /\ wake <= now + GAME_HEART_BEAT_g
    /\ hall \in {"working", "check"} => wake <= now /\ now <= wake + Work

\* What the times they know have to do with the clock.
Current ==
    /\ saw \in 0..back
    /\ lastHeartTime <= timeGloble_g + saw
    /\ lastHeartTime # 0 => (lastHeartTime - Epoch) * Second <= lastBeat

HeartInv ==
    /\ HeartTypeOK
    /\ asked < 2 => hall = "before"
    /\ hall = "before" => /\ now = 0 /\ back = 0 /\ lastHeartTime = 0 /\ lastBeat = 0
                          /\ timeGloble_g = Epoch /\ timeWake = Period
    /\ Beating => Punctual /\ Current /\ ReadInTime

-----------------------------------------------------------------------------

\* pthTime copies the clock: the second it reads is not earlier than the one
\* before, and if Hall has to follow it is in time.
LEMMA TimeThread ==
  ASSUME HeartInv, pthTime, UNCHANGED asked
  PROVE  HeartInv'
<1> USE HeartbeatAssumption
<1> DEFINE q == now \div Second
<1>1. /\ HeartTypeOK /\ Punctual /\ Current /\ ReadInTime /\ Beating
      /\ asked < 2 => hall = "before"
  BY DEF HeartInv, pthTime
<1>2. {now, back, updated, seconds, timeWake, wake, lastHeartTime, GAME_HEART_BEAT_g, lastBeat} \subseteq Nat
      /\ timeGloble_g \in Int /\ saw \in Nat /\ saw <= back /\ back <= StepsBack
  BY <1>1, Seconds DEF HeartTypeOK, Punctual, Current, seconds, updated
<1>3. q \in Nat /\ q * Second <= now /\ now < (q + 1) * Second
  BY <1>2, Seconds
<1>4. seconds * Second <= updated /\ updated < (seconds + 1) * Second /\ updated <= now
  BY <1>1, <1>2, Seconds DEF seconds, Punctual
<1>5. seconds <= q
  <2>1. seconds * Second < (q + 1) * Second
    BY <1>2, <1>3, <1>4
  <2> HIDE DEF q
  <2> QED
    BY <1>2, <1>3, <2>1, Strict
<1>6. /\ updated' = now /\ seconds' = q /\ saw' = back /\ timeGloble_g' = Epoch + q - back
      /\ timeWake' = now + Period /\ now >= timeWake /\ Due' = Due
      /\ RoomInASecond' = RoomInASecond
      /\ UNCHANGED <<settings, now, back, hall, wake, nowTime, lastHeartTime, lastBeat>>
  <2>1. updated' = now
    BY <1>2 DEF pthTime, updated
  <2>2. seconds' = q
    BY <2>1 DEF seconds
  <2>3. timeGloble_g' = Epoch + q - back
    BY DEF pthTime, clock
  <2> HIDE DEF q
  <2> QED
    BY <1>2, <1>3, <2>1, <2>2, <2>3 DEF pthTime, saw, Due, RoomInASecond, settings
<1> HIDE DEF q
<1>7. HeartTypeOK'
  BY <1>1, <1>2, <1>3, <1>6 DEF HeartTypeOK, settings
<1>8. Punctual'
  BY <1>1, <1>2, <1>6 DEF Punctual, settings
<1>9. Current'
  BY <1>1, <1>2, <1>3, <1>5, <1>6 DEF Current, saw
<1>10. ReadInTime'
  <2> SUFFICES ASSUME RoomInASecond, timeGloble_g' # lastHeartTime
               PROVE  Due < (IF lastHeartTime = 0 THEN 1 ELSE lastHeartTime - Epoch + back + 2) * Second
    BY <1>6 DEF ReadInTime
  <2>1. CASE timeGloble_g # lastHeartTime
    <3>1. saw * Second <= back * Second
      BY <1>2, Monotone
    <3> QED
      BY <1>1, <1>2, <2>1, <3>1 DEF ReadInTime, Due
  <2>2. CASE timeGloble_g = lastHeartTime
    <3>1. lastHeartTime # 0 /\ lastHeartTime - Epoch + saw = seconds
      BY <1>2, <2>2 DEF saw
    <3>2. Due <= now + Work + GAME_HEART_BEAT_g + Late
      BY <1>1, <1>2 DEF Due, Punctual, Beating, HeartTypeOK
    <3>3. now <= updated + Period + Late
      BY <1>1, <1>2 DEF Punctual, updated
    <3>4. Due < (seconds + 2) * Second
      BY <1>2, <1>4, <3>2, <3>3 DEF RoomInASecond, Due
    <3>5. (seconds + 2) * Second <= (lastHeartTime - Epoch + back + 2) * Second
      BY <1>2, <3>1, Monotone
    <3> QED
      BY <1>2, <3>1, <3>4, <3>5 DEF Due
  <2> QED
    BY <2>1, <2>2
<1> QED
  BY <1>1, <1>6, <1>7, <1>8, <1>9, <1>10 DEF HeartInv, Beating

\* Hall's call of core_heart_1s is for the second pthTime has read, and comes
\* after that second began.
LEMMA HallWakes ==
  ASSUME HeartInv, hallWakes, UNCHANGED asked
  PROVE  HeartInv'
<1> USE HeartbeatAssumption
<1>1. /\ HeartTypeOK /\ Punctual /\ Current /\ hall = "asleep"
      /\ asked < 2 => hall = "before"
  BY DEF HeartInv, hallWakes, Beating
<1>2. {now, back, updated, seconds, timeWake, wake, lastHeartTime, GAME_HEART_BEAT_g, lastBeat} \subseteq Nat
      /\ timeGloble_g \in Int /\ saw \in Nat /\ saw <= back /\ back <= StepsBack
      /\ updated <= now
  BY <1>1, Seconds DEF HeartTypeOK, Punctual, Current, seconds, updated
<1>3. /\ updated' = updated /\ saw' = saw /\ UNCHANGED <<now, back, timeWake, timeGloble_g, GAME_HEART_BEAT_g>>
      /\ hall' = "working" /\ wake' = now /\ lastHeartTime' = timeGloble_g
      /\ lastBeat' \in {now, lastBeat}
      /\ timeGloble_g # lastHeartTime => lastBeat' = now
      /\ timeGloble_g = lastHeartTime => lastBeat' = lastBeat
  BY DEF hallWakes, updated, saw, seconds, settings
<1>4. timeGloble_g \in Nat
  BY <1>2 DEF saw
<1>5. HeartTypeOK'
  BY <1>1, <1>2, <1>3, <1>4 DEF HeartTypeOK
<1>6. Punctual'
  BY <1>1, <1>2, <1>3 DEF Punctual
<1>7. Current'
  <2>1. (timeGloble_g - Epoch) * Second <= seconds * Second
    BY <1>2, Monotone DEF saw
  <2>2. seconds * Second <= now
    BY <1>2, Seconds DEF seconds
  <2>3. (timeGloble_g - Epoch) * Second <= now
    BY <1>2, <2>1, <2>2
  <2> QED
    BY <1>1, <1>2, <1>3, <1>4, <2>3 DEF Current
<1>8. ReadInTime'
  BY <1>3 DEF ReadInTime
<1> QED
  BY <1>1, <1>3, <1>5, <1>6, <1>7, <1>8 DEF HeartInv

\* The steps that touch neither time keep everything Hall is due to do.
LEMMA OtherSteps ==
  ASSUME HeartInv, UNCHANGED asked, tick \/ setBack \/ hallWorked \/ hallChecks
  PROVE  HeartInv'
<1> USE HeartbeatAssumption
<1>1. /\ HeartTypeOK /\ Beating /\ Punctual /\ Current /\ ReadInTime
      /\ asked < 2 => hall = "before"
  BY DEF HeartInv, tick, setBack, hallWorked, hallChecks, Beating
<1>2. {now, back, updated, seconds, timeWake, wake, lastHeartTime, GAME_HEART_BEAT_g, lastBeat} \subseteq Nat
      /\ timeGloble_g \in Int /\ saw \in Nat /\ saw <= back /\ back <= StepsBack
      /\ updated <= now
  BY <1>1, Seconds DEF HeartTypeOK, Punctual, Current, seconds, updated
<1>3. /\ updated' = updated /\ saw' = saw
      /\ UNCHANGED <<timeWake, timeGloble_g, GAME_HEART_BEAT_g, lastHeartTime, lastBeat>>
      /\ now' \in {now, now + 1} /\ back' \in {back, back + 1}
      /\ RoomInASecond' = RoomInASecond
  BY DEF tick, setBack, hallWorked, hallChecks, updated, saw, seconds, settings, RoomInASecond
<1>4. /\ HeartTypeOK' /\ Beating'
  BY <1>1, <1>2, <1>3 DEF HeartTypeOK, Beating, tick, setBack, hallWorked, hallChecks
<1>5. Punctual'
  <2>1. CASE tick
    BY <1>1, <1>2, <1>3, <2>1 DEF Punctual, Beating, tick
  <2>2. CASE setBack
    BY <1>1, <1>2, <1>3, <2>2 DEF Punctual, Beating, setBack
  <2>3. CASE hallWorked
    BY <1>1, <1>2, <1>3, <2>3 DEF Punctual, Beating, hallWorked
  <2>4. CASE hallChecks
    BY <1>1, <1>2, <1>3, <2>4 DEF Punctual, Beating, hallChecks
  <2> QED
    BY <2>1, <2>2, <2>3, <2>4
<1>6. Current'
  BY <1>1, <1>2, <1>3 DEF Current
<1>7. Due' <= Due
  BY <1>1, <1>2, <1>3 DEF Due, Punctual, tick, setBack, hallWorked, hallChecks
<1>8. Due \in Int /\ Due' \in Int
  BY <1>2, <1>3, <1>4 DEF Due, HeartTypeOK
<1>9. ReadInTime'
  <2> SUFFICES ASSUME RoomInASecond, timeGloble_g # lastHeartTime
               PROVE  Due' < (IF lastHeartTime = 0 THEN 1 ELSE lastHeartTime - Epoch + saw + 2) * Second
    BY <1>3 DEF ReadInTime
  <2> QED
    BY <1>1, <1>2, <1>7, <1>8 DEF ReadInTime
<1>10. hall' # "before"
  BY <1>4 DEF Beating
<1>11. asked' = 2
  BY <1>1 DEF Beating, HeartTypeOK
<1> QED
  BY <1>4, <1>5, <1>6, <1>9, <1>10, <1>11 DEF HeartInv

\* Hall enters its loop in the state main starts it in.
LEMMA EnterLoop ==
  ASSUME HeartInv, enterLoop, asked = 2, UNCHANGED asked
  PROVE  HeartInv'
<1> USE HeartbeatAssumption
<1>1. /\ HeartTypeOK
      /\ now = 0 /\ back = 0 /\ lastHeartTime = 0 /\ lastBeat = 0
      /\ timeGloble_g = Epoch /\ timeWake = Period
  BY DEF HeartInv, enterLoop
<1>2. /\ UNCHANGED <<settings, now, back, timeGloble_g, timeWake, lastHeartTime, lastBeat>>
      /\ wake' = GAME_HEART_BEAT_g /\ hall' \in {"idle", "asleep"}
  BY <1>1 DEF enterLoop, HeartTypeOK
<1>3. GAME_HEART_BEAT_g' = GAME_HEART_BEAT_g /\ GAME_HEART_BEAT_g \in Nat
  BY <1>1, <1>2 DEF settings, HeartTypeOK
<1>4. updated' = 0 /\ seconds' = 0 /\ saw' = 0
  <2>1. updated' = 0
    BY <1>1, <1>2 DEF updated
  <2>2. seconds' = 0
    <3>1. 0 \div Second \in Nat /\ (0 \div Second) * Second <= 0 /\ 0 * Second = 0
      BY Seconds
    <3>2. ~((0 \div Second) >= 1)
      <4> DEFINE z == 0 \div Second
      <4>1. z \in Nat /\ z * Second <= 0
        BY <3>1
      <4> HIDE DEF z
      <4>2. ASSUME z >= 1 PROVE FALSE
        BY <4>1, <4>2, Monotone
      <4> QED
        BY <4>2 DEF z
    <3>3. 0 \div Second = 0
      BY <3>1, <3>2
    <3> QED
      BY <2>1, <3>3 DEF seconds
  <2> QED
    BY <1>1, <1>2, <2>1, <2>2 DEF saw
<1>5. HeartTypeOK'
  BY <1>1, <1>2, <1>3 DEF HeartTypeOK
<1>6. hall' = "asleep" => Punctual'
  BY <1>1, <1>2, <1>3, <1>4 DEF Punctual
<1>7. Current'
  BY <1>1, <1>2, <1>4 DEF Current
<1>8. hall' = "asleep" => ReadInTime'
  BY <1>1, <1>2, <1>3 DEF ReadInTime, Due, RoomInASecond
<1> QED
  BY <1>2, <1>5, <1>6, <1>7, <1>8 DEF HeartInv, Beating

\* main's own steps: the settings are read before Hall starts, and a process that
\* is killed starts from scratch.
LEMMA MainSteps ==
  ASSUME HeartInv,
         \/ \E p \in Procs : starting(p) \/ killed(p)
         \/ lookup \/ setting
  PROVE  HeartInv'
<1> USE HeartbeatAssumption, MainAssumption
<1>1. CASE UNCHANGED <<heartVars, asked>>
  BY <1>1 DEF HeartInv, HeartTypeOK, Punctual, Current, ReadInTime, Due, RoomInASecond, Beating,
              updated, seconds, saw, heartVars, settings
<1>2. CASE restarted
  BY <1>2 DEF restarted, HeartInv, HeartTypeOK, Beating
<1>3. CASE setting
  <2>1. /\ HeartTypeOK /\ hall = "before" /\ hall' = hall /\ asked' \in 0..2
        /\ UNCHANGED <<now, back, timeGloble_g, timeWake, wake, lastHeartTime, lastBeat>>
    BY <1>3, SMTT(60), ZenonT(60) DEF setting, HeartInv, HeartTypeOK
  <2>2. GAME_HEART_BEAT_g' \in Nat
    BY <1>3, <2>1 DEF setting, atoi, HeartTypeOK
  <2> QED
    BY <2>1, <2>2 DEF HeartInv, HeartTypeOK, Beating
<1> QED
  BY <1>1, <1>2, <1>3 DEF starting, killed, others, lookup

\* HeartInv holds throughout, whatever is killed, configured, late or set back.
THEOREM HeartInvariant == MainSpec => []HeartInv
<1>1. MainInit => HeartInv
  BY HeartbeatAssumption, MainAssumption
  DEF MainInit, SettingsInit, HeartbeatInit, HeartInv, HeartTypeOK, Beating
<1>2. HeartInv /\ [MainNext]_mainVars => HeartInv'
  <2> SUFFICES ASSUME HeartInv, [MainNext]_mainVars PROVE HeartInv'
    OBVIOUS
  <2>1. CASE threads
    BY <2>1, EnterLoop, TimeThread, HallWakes, OtherSteps DEF threads, heartbeat
  <2>2. CASE UNCHANGED mainVars
    BY <2>2 DEF HeartInv, HeartTypeOK, Punctual, Current, ReadInTime, Due, RoomInASecond, Beating,
                updated, seconds, saw, mainVars, heartVars, settings
  <2> QED
    BY <2>1, <2>2, MainSteps DEF MainNext
<1> QED
  BY <1>1, <1>2, PTL DEF MainSpec

\* core_heart_1s is never more than two seconds overdue: either pthTime has not
\* yet read a new second, or Hall has not yet read it, and both are soon over.
THEOREM HeartbeatInTime == MainSpec => []NeverTwoSeconds
<1>1. HeartInv => NeverTwoSeconds
  <2> SUFFICES ASSUME HeartInv, Beating, RoomInASecond
               PROVE  now - lastBeat <= (2 + back) * Second
    BY DEF NeverTwoSeconds
  <2> USE HeartbeatAssumption
  <2>1. HeartTypeOK /\ Punctual /\ Current /\ ReadInTime
    BY DEF HeartInv
  <2>2. {now, back, updated, seconds, timeWake, wake, lastHeartTime, GAME_HEART_BEAT_g, lastBeat} \subseteq Nat
        /\ timeGloble_g \in Int /\ saw \in Nat /\ saw <= back /\ back <= StepsBack
    BY <2>1, Seconds DEF HeartTypeOK, Punctual, Current, seconds, updated
  <2>3. saw * Second <= back * Second /\ 0 <= back * Second
    BY <2>2, Monotone
  <2>4. CASE timeGloble_g # lastHeartTime
    <3>1. now <= Due
      BY <2>1, <2>2 DEF Due, Punctual, Beating
    <3> QED
      BY <2>1, <2>2, <2>3, <2>4, <3>1 DEF ReadInTime, Due, Current
  <2>5. CASE timeGloble_g = lastHeartTime
    <3>1. lastHeartTime # 0 /\ lastHeartTime - Epoch + saw = seconds
      BY <2>2, <2>5 DEF saw
    <3>2. now <= updated + Period + Late
      BY <2>1, <2>2 DEF Punctual, updated
    <3>3. updated < (seconds + 1) * Second
      BY <2>2, Seconds DEF seconds
    <3>4. (lastHeartTime - Epoch) * Second <= lastBeat
      BY <2>1, <3>1 DEF Current
    <3>5. (seconds + 1) * Second = (lastHeartTime - Epoch) * Second + saw * Second + Second
      BY <2>2, <3>1
    <3> QED
      BY <2>2, <2>3, <3>2, <3>3, <3>4, <3>5 DEF RoomInASecond
  <2> QED
    BY <2>4, <2>5
<1> QED
  BY <1>1, HeartInvariant, PTL

\* Hall follows pthTime second by second: pthTime is at most one second ahead of
\* the last call, or behind it by what the clock was set back.
THEOREM EverySecond == MainSpec => NoSecondSkipped
<1> DEFINE Follows == RoomInASecond /\ lastHeartTime' \notin {0, lastHeartTime} =>
                         \/ lastHeartTime' = lastSecond + 1
                         \/ back > 0 /\ lastHeartTime' \in (lastSecond - back)..lastSecond
<1>1. HeartInv /\ [MainNext]_mainVars => [Follows]_heartVars
  <2> SUFFICES ASSUME HeartInv, [MainNext]_mainVars, RoomInASecond,
                      lastHeartTime' \notin {0, lastHeartTime}
               PROVE  \/ lastHeartTime' = lastSecond + 1
                      \/ back > 0 /\ lastHeartTime' \in (lastSecond - back)..lastSecond
    OBVIOUS
  <2> USE HeartbeatAssumption
  <2>1. hallWakes
    BY DEF MainNext, mainVars, heartVars, starting, killed, others, restarted, lookup, setting,
           threads, enterLoop, heartbeat, tick, setBack, pthTime, hallWorked, hallChecks
  <2>2. /\ HeartTypeOK /\ Punctual /\ Current /\ ReadInTime /\ hall = "asleep"
        /\ lastHeartTime' = timeGloble_g /\ timeGloble_g # lastHeartTime
    BY <2>1 DEF HeartInv, hallWakes, Beating
  <2>3. {now, back, updated, seconds, timeWake, wake, lastHeartTime} \subseteq Nat
        /\ timeGloble_g \in Int /\ saw \in Nat /\ saw <= back /\ back <= StepsBack
    BY <2>2, Seconds DEF HeartTypeOK, Punctual, Current, seconds, updated
  <2>4. timeGloble_g = Epoch + seconds - saw
    BY <2>3 DEF saw
  <2>5. seconds * Second <= Due
    <3>1. seconds * Second <= updated
      BY <2>3, Seconds DEF seconds
    <3>2. updated <= now /\ now <= Due
      BY <2>2, <2>3 DEF Punctual, Due
    <3> QED
      BY <2>2, <2>3, <3>1, <3>2 DEF Due
  <2>6. CASE lastHeartTime = 0
    <3>1. seconds * Second < 1 * Second
      BY <2>2, <2>3, <2>5, <2>6 DEF ReadInTime, Due
    <3>2. seconds < 1
      BY <2>3, <3>1, Strict
    <3> QED
      BY <2>2, <2>3, <2>4, <2>6, <3>2 DEF lastSecond
  <2>7. CASE lastHeartTime # 0
    <3>1. seconds * Second < (lastHeartTime - Epoch + saw + 2) * Second
      BY <2>2, <2>3, <2>5, <2>7 DEF ReadInTime, Due
    <3>2. seconds < lastHeartTime - Epoch + saw + 2
      BY <2>3, <3>1, Strict
    <3>3. lastHeartTime <= timeGloble_g + saw
      BY <2>2 DEF Current
    <3> QED
      BY <2>2, <2>3, <2>4, <2>7, <3>2, <3>3 DEF lastSecond
  <2> QED
    BY <2>6, <2>7
<1> QED
  BY <1>1, HeartInvariant, PTL DEF MainSpec, NoSecondSkipped

-----------------------------------------------------------------------------

\* main with everything it does after the lock is still a process of the lock
\* protocol: reading the settings and running the threads are stuttering steps.
THEOREM MainImplementsLock == MainSpec => LockSpec
<1>1. MainInit => LockInit
  BY DEF MainInit
<1>2. [MainNext]_mainVars => [LockNext]_lockVars
  BY DEF MainNext, mainVars, starting, killed, lookup, setting, threads, LockNext, lockVars
<1> QED
  BY <1>1, <1>2, PTL DEF MainSpec, LockSpec

\* So no two instances of a program get past isInRunning, whatever they do after.
THEOREM OneMain == MainSpec => []OneInstance
BY MainImplementsLock, Exclusion, PTL

-----------------------------------------------------------------------------
(* Looking up a setting, for every file, key and section. *)

\* A non-empty set of numbers has a least one.
LEMMA Least ==
    ASSUME NEW I, I \subseteq Nat, I # {}
    PROVE  Min(I) \in I /\ \A m \in I : Min(I) <= m
<1>1. PICK a \in I : \A b \in I : ~(<<b, a>> \in OpToRel(<, Nat))
  BY WFMin, NatLessThanWellFounded
<1>2. ASSUME NEW b \in I, b < a
      PROVE  <<b, a>> \in OpToRel(<, Nat)
  BY <1>2 DEF OpToRel
<1>3. \A b \in I : ~(b < a)
  BY <1>1, <1>2, Zenon
<1>4. \A b \in I : a <= b
  BY <1>3
<1> QED
  BY <1>4 DEF Min

\* A bounded one has a greatest one.
LEMMA Greatest ==
    ASSUME NEW n \in Nat, NEW I, I \subseteq 1..n, I # {}
    PROVE  Max(I) \in I /\ \A m \in I : m <= Max(I)
<1> DEFINE J == {n - m : m \in I}
<1>0. \A m \in I : m \in Nat /\ n - m \in Nat
  OBVIOUS
<1>1. J \subseteq Nat /\ J # {}
  BY <1>0
<1>2. Min(J) \in J /\ \A m \in J : Min(J) <= m
  BY <1>1, Least
<1>3. PICK a \in I : Min(J) = n - a
  BY <1>2
<1>4. \A m \in I : m <= a
  <2> TAKE m \in I
  <2>1. Min(J) <= n - m
    BY <1>2
  <2> HIDE DEF J
  <2> QED
    BY <1>0, <1>3, <2>1
<1> QED
  BY <1>4 DEF Max

\* The least number of a set is the one known to be.
LEMMA LeastIs ==
    ASSUME NEW I, I \subseteq Int, NEW a \in I, \A m \in I : a <= m
    PROVE  Min(I) = a
<1>1. ASSUME NEW b \in I, \A m \in I : b <= m
      PROVE  b = a
  BY <1>1
<1> QED
  BY <1>1 DEF Min

\* strstr stops at the key itself in a text that is the key with blanks around
\* it, and nothing else passes the two comparisons next to it.
LEMMA HitsIsKey ==
    ASSUME NEW l \in Lefts
    PROVE  hits(l) <=> Trimmed(l) = Key
<1> DEFINE n == Len(Key)
           solid == {k \in DOMAIN l : l[k] # Blank}
<1>1. /\ l \in Seq({l[k] : k \in 1..Len(l)}) /\ DOMAIN l = 1..Len(l) /\ Len(l) \in Nat
      /\ Key \in Seq({Key[k] : k \in 1..Len(Key)}) /\ DOMAIN Key = 1..n /\ n \in Nat /\ n > 0
  <2>1. ASSUME NEW q, Len(q) \in Nat, q = [k \in 1..Len(q) |-> q[k]]
        PROVE  q \in Seq({q[k] : k \in 1..Len(q)}) /\ DOMAIN q = 1..Len(q)
    <3>1. q \in [1..Len(q) -> {q[k] : k \in 1..Len(q)}]
      BY <2>1
    <3> QED
      BY <2>1, <3>1
  <2>2. l \in Seq({l[k] : k \in 1..Len(l)}) /\ DOMAIN l = 1..Len(l) /\ Len(l) \in Nat
    BY <2>1, KeyAssumption
  <2>3. Key \in Seq({Key[k] : k \in 1..Len(Key)}) /\ DOMAIN Key = 1..n /\ n \in Nat
    BY <2>1, KeyAssumption
  <2>4. n > 0
    BY <2>3, IniAssumption
  <2> QED
    BY <2>2, <2>3, <2>4
<1>10. Len(l) \in Nat /\ n \in Nat /\ n > 0
  BY <1>1
<1>11. \A k : k \in solid <=> k \in 1..Len(l) /\ l[k] # Blank
  BY <1>1
<1> HIDE DEF n, solid
<1>2. \A k \in 1..n : Key[k] # Blank
  BY <1>1, KeyAssumption
<1>3. \A a, b, c \in 1..Len(l) : a < b /\ b < c /\ l[a] # Blank /\ l[c] # Blank => l[b] # Blank
  BY <1>1, KeyAssumption
\* Where the key is found, its characters are.
<1>4. ASSUME NEW k \in Int
      PROVE  k \in found(l) <=> /\ k \in 1..(Len(l) - n + 1)
                                /\ \A m \in 1..n : l[k + m - 1] = Key[m]
  <2>1. ASSUME k \in 1..(Len(l) - n + 1)
        PROVE  /\ SubSeq(l, k, k + n - 1) \in Seq({l[j] : j \in 1..Len(l)})
               /\ Len(SubSeq(l, k, k + n - 1)) = n
               /\ \A m \in 1..n : SubSeq(l, k, k + n - 1)[m] = l[k + m - 1]
    BY <1>1, <2>1
  <2>2. ASSUME NEW q, q \in Seq({l[j] : j \in 1..Len(l)}), Len(q) = n
        PROVE  q = Key <=> \A m \in 1..n : q[m] = Key[m]
    BY <1>1, <2>2 DEF n
  <2> QED
    BY <2>1, <2>2 DEF found, n
<1>5. found(l) \subseteq Nat
  BY <1>1 DEF found, n
<1>6. ASSUME hits(l) PROVE Trimmed(l) = Key
  <2> DEFINE p == Min(found(l))
  <2>1. p \in found(l) /\ p \in Nat
    BY <1>5, <1>6, Least DEF hits
  <2> HIDE DEF p
  <2>2. p \in 1..(Len(l) - n + 1) /\ \A m \in 1..n : l[p + m - 1] = Key[m]
    BY <1>4, <2>1
  <2>3. (p = 1 \/ l[p - 1] = Blank) /\ (p + n > Len(l) \/ l[p + n] = Blank)
    BY <1>6 DEF hits, n, p
  <2>4. \A k \in p..(p + n - 1) : k \in 1..Len(l) /\ l[k] # Blank
    <3> TAKE k \in p..(p + n - 1)
    <3>1. k - p + 1 \in 1..n /\ p + (k - p + 1) - 1 = k
      BY <1>10, <1>11, <2>1
    <3>2. l[p + (k - p + 1) - 1] = Key[k - p + 1] /\ Key[k - p + 1] # Blank
      BY <1>2, <2>2, <3>1
    <3>3. l[k] # Blank
      BY <3>1, <3>2
    <3> QED
      BY <1>10, <2>2, <3>3
  <2>5. \A k \in solid : p <= k
    <3> SUFFICES ASSUME NEW k \in solid, k < p PROVE FALSE
      BY <1>10, <1>11, <2>1
    <3>0. k \in 1..Len(l)
      BY <1>11
    <3>1. p # 1 /\ p - 1 \in 1..Len(l) /\ l[p - 1] = Blank /\ k <= p - 1
      BY <1>10, <2>2, <2>3, <3>0
    <3>2. k < p - 1 /\ l[k] # Blank /\ l[p] # Blank
      BY <1>10, <1>11, <2>2, <2>4, <3>1
    <3> QED
      BY <1>3, <1>10, <1>11, <2>2, <3>1, <3>2
  <2>6. \A k \in solid : k <= p + n - 1
    <3> SUFFICES ASSUME NEW k \in solid, k > p + n - 1 PROVE FALSE
      BY <1>10, <1>11, <2>1
    <3>1. p + n \in 1..Len(l) /\ l[p + n] = Blank /\ p + n <= k
      BY <1>10, <1>11, <2>2, <2>3
    <3>2. p + n < k /\ l[k] # Blank /\ l[p + n - 1] # Blank /\ p + n - 1 \in 1..Len(l)
      BY <1>10, <1>11, <2>2, <2>4, <3>1
    <3> QED
      BY <1>3, <1>10, <1>11, <2>2, <3>1, <3>2
  <2>7. p \in solid /\ p + n - 1 \in solid
    <3>1. p \in p..(p + n - 1) /\ p + n - 1 \in p..(p + n - 1)
      BY <1>10, <2>1
    <3> QED
      BY <1>11, <2>4, <3>1
  <2>8. Min(solid) = p
    <3>1. solid \subseteq Int
      BY <1>10, <1>11
    <3> QED
      BY <2>5, <2>7, <3>1, LeastIs
  <2>9. Max(solid) = p + n - 1
    <3>1. solid \subseteq Int
      BY <1>10, <1>11
    <3>2. ASSUME NEW m \in solid, \A k \in solid : m >= k
          PROVE  m = p + n - 1
      <4>1. m <= p + n - 1 /\ m >= p + n - 1
        BY <2>6, <2>7, <3>2
      <4> QED
        BY <1>10, <2>1, <3>1, <4>1
    <3>3. \A k \in solid : p + n - 1 >= k
      BY <1>10, <2>1, <2>6, <3>1
    <3> QED
      BY <2>7, <3>2, <3>3 DEF Max
  <2>10. Trimmed(l) = SubSeq(l, p, p + n - 1)
    BY <2>7, <2>8, <2>9 DEF Trimmed, solid
  <2> QED
    BY <2>1, <2>10 DEF found, n
<1>7. ASSUME Trimmed(l) = Key PROVE hits(l)
  <2>1. solid # {}
    BY <1>10, <1>11, <1>7, IniAssumption DEF Trimmed, solid
  <2> DEFINE a == Min(solid)
             b == Max(solid)
  <2>2. a \in solid /\ b \in solid /\ \A k \in solid : a <= k /\ k <= b
    <3>1. solid \subseteq Nat /\ solid \subseteq 1..Len(l)
      BY <1>10, <1>11
    <3> QED
      BY <1>10, <2>1, <3>1, Least, Greatest
  <2>3. SubSeq(l, a, b) = Key
    BY <1>7, <2>1 DEF Trimmed, solid
  <2> HIDE DEF a, b
  <2>4. a \in 1..Len(l) /\ b \in 1..Len(l) /\ a <= b
    BY <1>10, <1>11, <2>2
  <2>5. n = b - a + 1
    <3>1. Len(SubSeq(l, a, b)) = b - a + 1
      BY <1>1, <2>4
    <3> QED
      BY <2>3, <3>1 DEF n
  <2>6. a \in found(l)
    <3>1. b = a + n - 1
      BY <1>10, <1>11, <2>4, <2>5
    <3> QED
      BY <1>10, <1>11, <2>3, <2>4, <3>1 DEF found, n
  <2>7. \A k \in found(l) : a <= k
    <3> TAKE k \in found(l)
    <3>1. k \in 1..(Len(l) - n + 1) /\ l[k + 1 - 1] = Key[1]
      BY <1>10, <1>11, <1>4, <1>5
    <3>2. k \in 1..Len(l) /\ l[k] # Blank
      BY <1>10, <1>11, <1>2, <3>1
    <3> QED
      BY <1>10, <1>11, <2>2, <3>2
  <2>8. Min(found(l)) = a
    BY <1>5, <2>6, <2>7, LeastIs
  <2>9. a = 1 \/ l[a - 1] = Blank
    BY <1>10, <1>11, <2>2, <2>4
  <2>10. a + n > Len(l) \/ l[a + n] = Blank
    BY <1>10, <1>11, <2>2, <2>4, <2>5
  <2> QED
    BY <2>6, <2>8, <2>9, <2>10 DEF hits, n
<1> QED
  BY <1>6, <1>7

\* GetInitKey on its way through the file: no line it has passed was wanted;
\* while flag is 0 it has not met the section, and while flag is 1 it is in it.
IniInv ==
    /\ file \in Files /\ result \in Int
    /\ FindsTheKey
    /\ result = Closed => i = 1 /\ flag = 0
    /\ result = Reading =>
          /\ i \in 1..(Len(file) + 1) /\ flag \in {0, 1}
          /\ flag = 0 => \A k \in 1..(i - 1) : file[k] # Section(Title)
          /\ flag = 1 => InSection(i)
          /\ \A k \in Wanted : k >= i

\* The lines of a file.
LEMMA FileLines ==
    ASSUME file \in Files
    PROVE  /\ Len(file) \in Nat
           /\ \A k \in 1..Len(file) :
                 /\ file[k] \in Lines
                 /\ file[k].kind = "entry" => file[k].left \in Lefts
                 /\ file[k].kind = "section" /\ file[k].title = Title <=> file[k] = Section(Title)
<1>1. PICK n \in 0..MaxLines : file \in [1..n -> Lines]
  BY DEF Files
<1>2. Len(file) = n /\ n \in Nat
  BY <1>1, IniAssumption
<1>3. ASSUME NEW a \in Lines
      PROVE  /\ a.kind = "entry" => a.left \in Lefts
             /\ a.kind = "section" /\ a.title = Title <=> a = Section(Title)
  BY <1>3 DEF Lines, Section, Entry, Ignored, Text
<1> QED
  BY <1>1, <1>2, <1>3

\* A line that is passed is not wanted, and keeps what is known of the section.
LEMMA LinePassed ==
    ASSUME IniInv, result = Reading, i <= Len(file), next, flag' \in {0, 1},
           flag' = 0 => flag = 0 /\ file[i] # Section(Title),
           flag' = 1 => \/ flag = 1 /\ file[i].kind # "section"
                        \/ flag = 0 /\ file[i] = Section(Title),
           i \notin Wanted
    PROVE  IniInv'
<1>1. /\ file' = file /\ result' = result /\ i' = i + 1 /\ i \in Nat \ {0} /\ Len(file) \in Nat
  BY FileLines DEF next, IniInv
<1>2. Wanted' = Wanted
  BY <1>1 DEF Wanted, InSection
<1>3. FindsTheKey'
  BY <1>1 DEF FindsTheKey, Reading
<1>4. \A k \in Wanted : k \in Int /\ k >= i + 1
  <2>1. \A k \in Wanted : k \in Int /\ k >= i /\ k # i
    BY DEF IniInv, Wanted
  <2> QED
    BY <1>1, <2>1
<1>5. flag' = 0 => \A k \in 1..i : file[k] # Section(Title)
  BY <1>1 DEF IniInv
<1>6. CASE flag' = 1 /\ flag = 1
  <2>1. PICK s \in 1..(i - 1) :
            /\ file[s] = Section(Title)
            /\ \A k \in 1..(i - 1) :
                  k # s => file[k].kind # "section" \/ (k < s /\ file[k] # Section(Title))
    BY <1>6 DEF IniInv, InSection
  <2>2. file[i].kind # "section"
    BY <1>6
  <2>3. \A k \in 1..i : k # s => file[k].kind # "section" \/ (k < s /\ file[k] # Section(Title))
    BY <1>1, <2>1, <2>2
  <2>4. InSection(i + 1)
    BY <1>1, <2>1, <2>3 DEF InSection
  <2> QED
    BY <1>1, <1>2, <1>3, <1>4, <1>6, <2>4 DEF IniInv, InSection, Reading, Closed
<1>7. CASE flag' = 1 /\ flag = 0
  <2>1. \A k \in 1..i : k # i => file[k].kind # "section" \/ (k < i /\ file[k] # Section(Title))
    BY <1>1, <1>7 DEF IniInv
  <2>2. file[i] = Section(Title)
    BY <1>7
  <2>3. InSection(i + 1)
    <3>1. (i + 1) - 1 = i /\ i \in 1..i
      BY <1>1
    <3> QED
      BY <2>1, <2>2, <3>1 DEF InSection
  <2> QED
    BY <1>1, <1>2, <1>3, <1>4, <1>7, <2>3 DEF IniInv, InSection, Reading, Closed
<1>8. CASE flag' = 0
  BY <1>1, <1>2, <1>3, <1>4, <1>5, <1>8 DEF IniInv, Reading, Closed
<1> QED
  BY <1>6, <1>7, <1>8

\* Each line GetInitKey reads, and the end of the file, keep IniInv.
LEMMA LineRead == IniInv /\ (openFile \/ readLine) => IniInv'
<1> SUFFICES ASSUME IniInv PROVE (openFile \/ readLine) => IniInv'
  OBVIOUS
<1>1. ASSUME openFile PROVE IniInv'
  <2>1. i' = 1 /\ flag' = 0 /\ file' \in Files /\ result' \in {Reading, NoSuchFile}
    BY <1>1 DEF openFile, IniInv
  <2>2. Len(file') \in Nat
    BY <2>1, FileLines DEF Files
  <2>3. \A k \in Wanted' : k \in Nat /\ k >= 1
    BY <2>2 DEF Wanted
  <2> QED
    BY <2>1, <2>2, <2>3 DEF IniInv, FindsTheKey, Reading, NoSuchFile, Closed
<1>2. Len(file) \in Nat /\ Wanted \subseteq 1..Len(file)
  BY FileLines DEF IniInv, Wanted
<1>3. ASSUME skipLine \/ meetText PROVE IniInv'
  <2>1. result = Reading /\ i <= Len(file) /\ next /\ flag' = flag /\ file[i].kind \notin {"section", "entry"}
    BY <1>3 DEF skipLine, meetText, line
  <2>2. flag \in {0, 1} /\ file[i] # Section(Title) /\ i \notin Wanted
    BY <2>1, SMTT(60), ZenonT(60) DEF IniInv, Section, Wanted
  <2> QED
    BY <2>1, <2>2, LinePassed
<1>4. ASSUME meetSection PROVE IniInv'
  <2>1. result = Reading /\ i <= Len(file) /\ file[i].kind = "section" /\ flag \in {0, 1}
    BY <1>4 DEF meetSection, line, IniInv
  <2>2. i \in 1..Len(file) /\ i \notin Wanted
    BY <1>2, <2>1 DEF IniInv, Wanted
  <2>3. CASE flag = 1
    <3>1. PICK s \in 1..(i - 1) :
              /\ file[s] = Section(Title)
              /\ \A k \in 1..(i - 1) :
                    k # s => file[k].kind # "section" \/ (k < s /\ file[k] # Section(Title))
      BY <2>1, <2>3 DEF IniInv, InSection
    <3>2. ASSUME NEW j \in Wanted PROVE FALSE
      <4>1. j \in 1..Len(file) /\ j > i
        BY <1>2, <2>1, <2>2 DEF IniInv
      <4>2. PICK t \in 1..(j - 1) :
                /\ file[t] = Section(Title)
                /\ \A k \in 1..(j - 1) :
                      k # t => file[k].kind # "section" \/ (k < t /\ file[k] # Section(Title))
        BY DEF Wanted, InSection
      <4>3. s \in 1..(j - 1) /\ i \in 1..(j - 1) /\ s # i /\ file[s].kind = "section"
        BY <2>2, <3>1, <4>1 DEF Section
      <4>4. t = s
        BY <3>1, <4>2, <4>3
      <4> QED
        BY <2>1, <2>2, <3>1, <4>2, <4>3, <4>4
    <3>3. Wanted = {}
      BY <3>2
    <3>4. file' = file /\ result' = 0
      BY <1>4, <2>3 DEF meetSection, return
    <3>5. Wanted' = {}
      BY <3>3, <3>4 DEF Wanted, InSection
    <3> QED
      BY <3>4, <3>5 DEF IniInv, FindsTheKey, Reading, Closed
  <2>4. CASE flag = 0
    <3>1. next /\ flag' = IF file[i].title = Title THEN 1 ELSE 0
      BY <1>4, <2>4 DEF meetSection
    <3>2. file[i].title = Title <=> file[i] = Section(Title)
      BY <2>1, <2>2, FileLines DEF IniInv
    <3> QED
      BY <2>1, <2>2, <2>4, <3>1, <3>2, LinePassed
  <2> QED
    BY <2>1, <2>3, <2>4
<1>5. ASSUME meetEntry PROVE IniInv'
  <2>1. result = Reading /\ i <= Len(file) /\ file[i].kind = "entry" /\ flag \in {0, 1}
    BY <1>5 DEF meetEntry, line, IniInv
  <2>2. i \in 1..Len(file) /\ file[i] # Section(Title)
    BY <1>2, <2>1 DEF IniInv, Section
  <2>3. hits(file[i].left) <=> Trimmed(file[i].left) = Key
    BY <2>1, <2>2, FileLines, HitsIsKey DEF IniInv
  <2>4. CASE flag = 1 /\ hits(file[i].left)
    <3>1. file' = file /\ result' = i
      BY <1>5, <2>4 DEF meetEntry, return
    <3>2. i \in Wanted
      BY <2>1, <2>2, <2>3, <2>4 DEF IniInv, Wanted
    <3>3. \A k \in Wanted : i <= k
      BY <1>2, <2>1, <2>2 DEF IniInv
    <3>4. Min(Wanted) = i
      <4>1. Wanted \subseteq Int
        BY <1>2
      <4> HIDE DEF Wanted
      <4> QED
        BY <3>2, <3>3, <4>1, LeastIs
    <3>5. Wanted' = Wanted
      BY <3>1 DEF Wanted, InSection
    <3> QED
      BY <2>2, <3>1, <3>2, <3>4, <3>5 DEF IniInv, FindsTheKey, Reading, Closed
  <2>5. CASE ~(flag = 1 /\ hits(file[i].left))
    <3>1. next /\ flag' = flag
      BY <1>5, <2>5 DEF meetEntry
    <3>2. i \notin Wanted
      <4>1. CASE flag = 1
        BY <2>3, <2>5, <4>1 DEF Wanted
      <4>2. CASE flag = 0
        BY <2>1, <2>2, <4>2 DEF IniInv, Wanted, InSection
      <4> QED
        BY <2>1, <4>1, <4>2
    <3> QED
      BY <2>1, <2>2, <3>1, <3>2, LinePassed
  <2> QED
    BY <2>4, <2>5
<1>6. ASSUME endOfFile PROVE IniInv'
  <2>1. result = Reading /\ i > Len(file) /\ i \in Nat /\ file' = file /\ result' = 0
    BY <1>2, <1>6 DEF endOfFile, return, IniInv
  <2>2. Wanted = {}
    BY <1>2, <2>1 DEF IniInv
  <2>3. Wanted' = Wanted
    BY <2>1 DEF Wanted, InSection
  <2> QED
    BY <2>1, <2>2, <2>3 DEF IniInv, FindsTheKey, Reading, Closed
<1> QED
  BY <1>1, <1>3, <1>4, <1>5, <1>6 DEF readLine

\* A lookup that starts: nothing has been read.
LEMMA LookupStarts ==
    ASSUME file = <<>>, i = 1, flag = 0, result = Closed
    PROVE  IniInv
<1>1. <<>> \in [1..0 -> Lines] /\ 0 \in 0..MaxLines
  BY IniAssumption
<1>2. file \in Files
  BY <1>1 DEF Files
<1> QED
  BY <1>2 DEF IniInv, FindsTheKey, Closed, Reading

\* For every file, section and key, GetInitKey returns the first entry of the
\* section with that key, and "" if and only if there is none.
THEOREM KeyIsFound == MainSpec => []FindsTheKey
<1>1. MainInit => IniInv
  BY LookupStarts DEF MainInit, IniInit
<1>2. IniInv /\ [MainNext]_mainVars => IniInv'
  <2> SUFFICES ASSUME IniInv, [MainNext]_mainVars PROVE IniInv'
    OBVIOUS
  <2>1. CASE UNCHANGED iniVars
    <3>1. Wanted' = Wanted /\ (InSection(i)' <=> InSection(i))
      BY <2>1 DEF iniVars, Wanted, InSection
    <3> QED
      BY <2>1, <3>1 DEF IniInv, iniVars, FindsTheKey
  <2>2. CASE file' = <<>> /\ i' = 1 /\ flag' = 0 /\ result' = Closed
    <3>1. (file = <<>> /\ i = 1 /\ flag = 0 /\ result = Closed => IniInv)'
      BY LookupStarts, PTL
    <3> QED
      BY <2>2, <3>1 DEF Closed
  <2>3. CASE lookup
    BY <2>3, LineRead DEF lookup
  <2>4. ASSUME NEW p \in Procs, starting(p) \/ killed(p)
        PROVE  IniInv'
    BY <2>1, <2>2, <2>4 DEF starting, killed, others, restarted
  <2>5. CASE setting
    BY <2>2, <2>5 DEF setting
  <2>6. CASE threads
    BY <2>1, <2>6 DEF threads
  <2>7. CASE UNCHANGED mainVars
    BY <2>1, <2>7 DEF mainVars
  <2> QED
    BY <2>3, <2>4, <2>5, <2>6, <2>7 DEF MainNext
<1>3. IniInv => FindsTheKey
  BY DEF IniInv
<1> QED
  BY <1>1, <1>2, <1>3, PTL DEF MainSpec

=============================================================================
