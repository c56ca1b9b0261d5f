------------------------------ MODULE Dispatch ------------------------------
(***************************************************************************)
(* Topic table, message dispatch and statistics of cmqtt (core/regfunc.c   *)
(* with the handler table of core/handle.c).                               *)
(*                                                                         *)
(* Two threads meet here.  The Hall thread loads the table from the        *)
(* configuration file (initTopicConf), subscribes to its topics            *)
(* (regTopicFromTable) and prints the counters (print_stats).  The receive *)
(* thread of the MQTT library decodes one message at a time                *)
(* (decode_msg_handle).  They share the table and the counters without a   *)
(* lock; the table is complete before the first subscription, and the      *)
(* counters have a single writer.                                          *)
(*                                                                         *)
(* A configuration is what atoi() makes of the section [TOPIC]: DEFAULT,   *)
(* NUM, and one entry per built-in topic, Absent when the key is missing.  *)
(* Indices are 1-based.  A handler is identified with its table index.     *)
(***************************************************************************)
EXTENDS Integers, Sequences

CONSTANTS
    ctr_handle_tab,  \* the built-in table: a sequence of distinct topics
    Foreign,         \* topics no handler is built in for
    Configs,         \* the contents of [TOPIC] considered
    Absent,          \* a configuration key that is missing
    None,            \* no message in hand
    MaxMsgs          \* bound: messages received in a behaviour

ctr_table_size == Len(ctr_handle_tab)
Indices == 1..ctr_table_size
BuiltIn == {ctr_handle_tab[i] : i \in Indices}
Topics == BuiltIn \cup Foreign

ASSUME DispatchAssumption ==
    /\ ctr_handle_tab \in Seq(Topics)
    /\ \A i, j \in Indices : ctr_handle_tab[i] = ctr_handle_tab[j] => i = j
    /\ None \notin Topics
    /\ Absent \notin Int
    /\ Foreign \cap BuiltIn = {}
    /\ MaxMsgs \in Nat
    /\ \A c \in Configs : /\ c.DEFAULT \in Int
                          /\ c.NUM \in Int
                          /\ c.entry \in [Indices -> Int \cup {Absent}]

VARIABLES
    conf,              \* the configuration file, fixed during the run
    alive,             \* FALSE once exit() was called
    hall,              \* program counter of the Hall thread
    allocated,         \* entries malloc'ed for handleTableLocal, 0 for NULL
    handleTableLocal,  \* built-in indices of the enabled topics, in order
    idx,               \* the loop index of regTopicFromTable
    asked,             \* topics my_subsribe_topic was called with
    msgcnt,            \* messages received
    cnt,               \* messages handled, per entry of handleTableLocal
    unregistered,      \* messages that ended in the "not registered" warning
    pHandle,           \* the cached entry, 0 before the first message
    cur,               \* the message decode_msg_handle is working on
    lastCall,          \* <<topic, handler>> of the last handler call
    shown              \* what print_stats has printed so far

hallVars == <<conf, alive, hall, allocated, handleTableLocal, idx, asked, shown>>
recvVars == <<msgcnt, cnt, unregistered, pHandle, cur, lastCall>>
dispatchVars == <<hallVars, recvVars>>

topicNumLocal == Len(handleTableLocal)

DispatchInit ==
    /\ conf \in Configs
    /\ alive = TRUE
    /\ hall = "conf"
    /\ allocated = 0
    /\ handleTableLocal = <<>>
    /\ idx = 1
    /\ asked = {}
    /\ msgcnt = 0
    /\ cnt = <<>>
    /\ unregistered = 0
    /\ pHandle = 0
    /\ cur = None
    /\ lastCall = <<>>
    /\ shown = [total |-> 0, rows |-> <<>>]

-----------------------------------------------------------------------------
(* Loading the table (initTopicConf). *)

\* Any DEFAULT other than 0 and 1 leaves the built-in default, disabled.
iDefault == IF conf.DEFAULT \in {0, 1} THEN conf.DEFAULT ELSE 0

\* NUM = 0 (or absent) keeps the built-in size; a larger NUM is truncated.
configuredNum ==
    LET num == IF conf.NUM # 0 THEN conf.NUM ELSE ctr_table_size
    IN  IF num > ctr_table_size THEN ctr_table_size ELSE num

enabled(i) ==
    (IF conf.entry[i] = Absent THEN iDefault ELSE conf.entry[i]) = 1

\* Variant of loadTopics: a missing key never enables.
loadSkippingDefault(n) ==
    LET load[i \in 0..n] ==
            IF i = 0 THEN <<>>
            ELSE IF conf.entry[i] = 1 THEN Append(load[i - 1], i) ELSE load[i - 1]
    IN  load[n]

\* The loading loop: entry i of the built-in table is copied to the next free
\* place of handleTableLocal when the configuration enables it.
loadTopics(n) ==
    LET load[i \in 0..n] ==
            IF i = 0 THEN <<>>
            ELSE IF enabled(i) THEN Append(load[i - 1], i) ELSE load[i - 1]
    IN  load[n]

initTopicConf ==
    /\ hall = "conf"
    /\ configuredNum > 0
    /\ allocated' = configuredNum
    /\ handleTableLocal' = loadTopics(configuredNum)
    /\ cnt' = [i \in 1..Len(loadTopics(configuredNum)) |-> 0]
    /\ hall' = "reg"
    /\ UNCHANGED <<conf, alive, idx, asked, shown,
                   msgcnt, unregistered, pHandle, cur, lastCall>>

\* A negative NUM makes the malloc size wrap to a value malloc refuses.
initTopicConfExit ==
    /\ hall = "conf"
    /\ configuredNum < 0
    /\ alive' = FALSE
    /\ UNCHANGED <<conf, hall, allocated, handleTableLocal, idx, asked, shown, recvVars>>

-----------------------------------------------------------------------------
(* Subscribing to the table's topics (regTopicFromTable): entry idx of the   *)
(* table, one call of my_subsribe_topic per step.  The result is ignored.    *)

regTopic(t) ==
    /\ hall = "reg"
    /\ idx <= topicNumLocal
    /\ t = ctr_handle_tab[handleTableLocal[idx]]
    /\ idx' = idx + 1
    /\ asked' = asked \cup {t}
    /\ UNCHANGED <<conf, alive, hall, allocated, handleTableLocal, shown, recvVars>>

\* Variant of regDone: the loop may stop one entry short.
regDoneEarly ==
    /\ hall = "reg"
    /\ idx >= topicNumLocal
    /\ hall' = "stats"
    /\ UNCHANGED <<conf, alive, allocated, handleTableLocal, idx, asked, shown, recvVars>>

regDone ==
    /\ hall = "reg"
    /\ idx > topicNumLocal
    /\ hall' = "stats"
    /\ UNCHANGED <<conf, alive, allocated, handleTableLocal, idx, asked, shown, recvVars>>

-----------------------------------------------------------------------------
(* print_stats, called by core_do_test: the total first, then the rows one   *)
(* by one, each counter read without a lock.                                 *)

statsTotal ==
    /\ hall = "stats"
    /\ shown' = [total |-> msgcnt, rows |-> <<>>]
    /\ hall' = "rows"
    /\ UNCHANGED <<conf, alive, allocated, handleTableLocal, idx, asked, recvVars>>

statsRow ==
    /\ hall = "rows"
    /\ Len(shown.rows) < topicNumLocal
    /\ shown' = [shown EXCEPT !.rows = Append(@, cnt[Len(@) + 1])]
    /\ UNCHANGED <<conf, alive, hall, allocated, handleTableLocal, idx, asked, recvVars>>

statsDone ==
    /\ hall = "rows"
    /\ Len(shown.rows) = topicNumLocal
    /\ hall' = "idle"
    /\ UNCHANGED <<conf, alive, allocated, handleTableLocal, idx, asked, shown, recvVars>>

-----------------------------------------------------------------------------
(* Decoding (decode_msg_handle).  recvMsg is the entry up to the cache test: *)
(* the message is counted and the first call opens the database and points   *)
(* the cache at the table.  dispatchMsg is the cache test, the loop and the  *)
(* handler call with its counter.                                            *)

recvMsg(t) ==
    /\ cur = None
    /\ msgcnt < MaxMsgs
    /\ msgcnt' = msgcnt + 1
    /\ cur' = t
    /\ pHandle' = IF pHandle = 0 /\ allocated > 0 THEN 1 ELSE pHandle
    /\ UNCHANGED <<hallVars, cnt, unregistered, lastCall>>

\* The first message, with no database to connect to: mysqlConnetInit exits.
recvMsgNoDb(t) ==
    /\ cur = None
    /\ pHandle = 0
    /\ msgcnt < MaxMsgs
    /\ msgcnt' = msgcnt + 1
    /\ cur' = t
    /\ alive' = FALSE
    /\ UNCHANGED <<conf, hall, allocated, handleTableLocal, idx, asked, shown,
                   cnt, unregistered, pHandle, lastCall>>

\* strcmp with an entry; an allocated entry past the last one loaded is zeroed.
names(i, t) == i <= topicNumLocal /\ ctr_handle_tab[handleTableLocal[i]] = t

\* Variant of handle: no count on a cache hit.
handleHitUncounted(i) ==
    /\ lastCall' = <<cur, handleTableLocal[i]>>
    /\ cnt' = IF i = pHandle THEN cnt ELSE [cnt EXCEPT ![i] = @ + 1]
    /\ pHandle' = i
    /\ UNCHANGED unregistered

\* bc() and cnt++ of entry i.
handle(i) ==
    /\ lastCall' = <<cur, handleTableLocal[i]>>
    /\ cnt' = [cnt EXCEPT ![i] = @ + 1]
    /\ pHandle' = i
    /\ UNCHANGED unregistered

\* The loop found nothing; it leaves the cache at the last entry it tried.
warn ==
    /\ unregistered' = unregistered + 1
    /\ pHandle' = IF topicNumLocal > 0 THEN topicNumLocal ELSE pHandle
    /\ UNCHANGED <<lastCall, cnt>>

\* The cache test without the comparison: every message is taken for a hit.
lookupNoCompare(t) ==
    IF pHandle \in 1..topicNumLocal THEN {pHandle}
    ELSE {i \in 1..topicNumLocal : names(i, t)}

\* The entry the message goes to: the cached one if it matches, else the first
\* of the loop that does; empty if there is none.
lookup(t) ==
    IF names(pHandle, t) THEN {pHandle}
    ELSE {i \in 1..topicNumLocal : names(i, t) /\ \A j \in 1..(i-1) : ~names(j, t)}

dispatchMsg ==
    /\ cur # None
    /\ pHandle # 0
    /\ IF lookup(cur) = {} THEN warn ELSE \E i \in lookup(cur) : handle(i)
    /\ cur' = None
    /\ UNCHANGED <<hallVars, msgcnt>>

-----------------------------------------------------------------------------
(* The component by itself: a broker sends nothing before the first          *)
(* subscription, and afterwards any topic, subscribed or not.                *)

Halted == ~alive /\ UNCHANGED dispatchVars

\* Nothing is left to do once every message allowed by the bound is handled.
Quiet ==
    /\ hall = "idle" /\ cur = None
    /\ msgcnt = MaxMsgs \/ asked = {}
    /\ UNCHANGED dispatchVars

DispatchNext ==
    \/ alive /\ (\/ initTopicConf \/ initTopicConfExit
                 \/ \E t \in Topics : regTopic(t)
                 \/ regDone \/ statsTotal \/ statsRow \/ statsDone
                 \/ \E t \in Topics : asked # {} /\ (recvMsg(t) \/ recvMsgNoDb(t))
                 \/ dispatchMsg
                 \/ Quiet)
    \/ Halted

DispatchSpec == DispatchInit /\ [][DispatchNext]_dispatchVars

-----------------------------------------------------------------------------
(* Properties. *)

\* The sum of a sequence of counters.
Total(f) ==
    LET sum[i \in 0..Len(f)] == IF i = 0 THEN 0 ELSE sum[i - 1] + f[i]
    IN  sum[Len(f)]

\* A message is only ever passed to the handler built in for its topic, and
\* only if the configuration enables it: the cache of decode_msg_handle never
\* lets a message through to the handler of an earlier one.
RightHandler ==
    lastCall # <<>> => /\ ctr_handle_tab[lastCall[2]] = lastCall[1]
                       /\ enabled(lastCall[2])

\* The table initTopicConf leaves behind lists, in the order of the built-in
\* table and once each, exactly the topics below the configured number that
\* the configuration enables.
LoadedInOrder ==
    hall # "conf" =>
        /\ \A i, j \in 1..topicNumLocal :
               i < j => handleTableLocal[i] < handleTableLocal[j]
        /\ {handleTableLocal[i] : i \in 1..topicNumLocal} =
               {i \in Indices : /\ conf.NUM # 0 => i <= conf.NUM
                               /\ \/ conf.entry[i] = 1
                                  \/ conf.entry[i] = Absent /\ conf.DEFAULT = 1}

\* print_stats reads the total before the rows and takes no lock, so the rows
\* may run ahead of the total; the total exceeds the rows by no more than the
\* unregistered messages and the one that was being decoded.
StatsLag ==
    hall = "idle" => shown.total <= Total(shown.rows) + unregistered + 1

=============================================================================
