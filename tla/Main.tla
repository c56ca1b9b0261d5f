-------------------------------- MODULE Main --------------------------------
(***************************************************************************)
(* main (src/main.c), from the lock to the heartbeat, for one of the       *)
(* processes that are started, killed and started again.                   *)
(*                                                                         *)
(* Self takes the lock like all others (InstanceLock), reads its settings  *)
(* key by key (IniFile) and starts pthTime and Hall, which live with what  *)
(* it has read (Heartbeat).  Of its twelve lookups the model has the two   *)
(* whose values the other threads here depend on; the others are the same  *)
(* lookup again, for settings handed to the MQTT and MySQL clients.  What  *)
(* Hall does first, core_init, is the subject of Cmqtt.                    *)
(***************************************************************************)
EXTENDS InstanceLock, IniFile, Heartbeat

CONSTANTS
    Self,       \* the process that is followed
    Intervals,  \* values of GAME_HEART_BEAT in ticks
    Default     \* the one of globle.c

ASSUME MainAssumption ==
    Self \in Procs /\ Intervals \subseteq Nat \ {0} /\ Default \in Nat \ {0}

VARIABLE asked  \* the lookups done

mainVars == <<lockVars, iniVars, heartVars, asked>>

SettingsInit == asked = 0 /\ GAME_HEART_BEAT_g = Default /\ DB_SCAN_ENABLE_g = 0

MainInit == LockInit /\ IniInit /\ SettingsInit /\ HeartbeatInit

\* Only what is in memory goes with the process.
restarted ==
    /\ file' = <<>> /\ i' = 1 /\ flag' = 0 /\ result' = Closed
    /\ asked' = 0 /\ GAME_HEART_BEAT_g' = Default /\ DB_SCAN_ENABLE_g' = 0
    /\ now' = 0 /\ back' = 0 /\ timeGloble_g' = Epoch /\ timeWake' = Period
    /\ hall' = "before" /\ wake' = 0 /\ nowTime' = 0 /\ lastHeartTime' = 0
    /\ lastBeat' = 0 /\ warned' = -1

others == UNCHANGED <<iniVars, heartVars, asked>>

starting(p) == (open(p) \/ tryLockPidFile(p) \/ truncate(p) \/ writePid(p)) /\ others

killed(p) == ends(p) /\ IF p = Self THEN restarted ELSE others

Running == pc[Self] = "running"

lookup ==
    /\ Running /\ asked < 2
    /\ openFile \/ readLine
    /\ UNCHANGED <<lockVars, heartVars, asked>>

\* atoi of what GetInitKey returned: 0 for "", for the text about a missing file
\* and for whatever does not begin with a number.
atoi(numbers) == IF result > 0 THEN numbers \cup {0} ELSE {0}

\* ret ? ret : the value so far.
setting ==
    /\ Running /\ Returned
    /\ \/ /\ asked = 0
          /\ \E ret \in atoi(Intervals) :
                GAME_HEART_BEAT_g' = IF ret # 0 THEN ret ELSE GAME_HEART_BEAT_g
          /\ UNCHANGED DB_SCAN_ENABLE_g
       \/ /\ asked = 1
          /\ \E ret \in atoi({1}) :
                DB_SCAN_ENABLE_g' = IF ret # 0 THEN ret ELSE DB_SCAN_ENABLE_g
          /\ UNCHANGED GAME_HEART_BEAT_g
    /\ asked' = asked + 1
    /\ file' = <<>> /\ i' = 1 /\ flag' = 0 /\ result' = Closed
    /\ UNCHANGED <<lockVars, now, back, timeGloble_g, timeWake, hall, wake, nowTime,
                   lastHeartTime, lastBeat, warned>>

\* The threads main starts once it has its settings.
threads ==
    /\ Running /\ asked = 2
    /\ enterLoop \/ heartbeat
    /\ UNCHANGED <<lockVars, iniVars, asked>>

MainNext ==
    \/ \E p \in Procs : starting(p) \/ killed(p)
    \/ lookup \/ setting \/ threads

MainSpec == MainInit /\ [][MainNext]_mainVars

=============================================================================
