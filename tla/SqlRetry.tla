------------------------------ MODULE SqlRetry ------------------------------
(***************************************************************************)
(* excuteSql of lib/mysql.sdk.c: a statement is sent, and sent again after *)
(* up to two reconnects when the server has gone away.                     *)
(*                                                                         *)
(* The MySQL client library and the server are external.  A query returns  *)
(* 0 or 1 and leaves the reason in mysql_error.  A statement the server    *)
(* never got fails with "gone away"; one whose answer did not come fails   *)
(* with "lost connection", whether or not the server executed it.  The     *)
(* handle is not reconnected unless the program does so.                   *)
(***************************************************************************)
EXTENDS Integers

CONSTANTS
    MaxCalls,  \* bound: calls of excuteSql in a behaviour
    MaxFaults  \* bound: failures of the server in a behaviour

ASSUME SqlAssumption == MaxCalls \in Nat /\ MaxFaults \in Nat

CR_SERVER_GONE_ERROR == 2006
CR_SERVER_LOST == 2013

VARIABLES
    up,          \* the server accepts connections
    link,        \* the handle: none, open, or cut by the server
    pc,          \* where excuteSql is
    ret,         \* its variable ret
    error,       \* mysql_error of the last query
    reconnects,  \* reconnects tried in this call
    applied,     \* times the server executed this call's statement
    course,      \* smooth if the call found the server up and the handle not
                 \* cut, and nothing failed since; else rough
    calls, faults

sqlVars == <<up, link, pc, ret, error, reconnects, applied, course, calls, faults>>

SqlInit ==
    /\ up = TRUE /\ link = "open" /\ pc = "idle"
    /\ ret = 0 /\ error = "none" /\ reconnects = 0 /\ applied = 0 /\ course = "rough"
    /\ calls = 0 /\ faults = 0

fault == faults < MaxFaults /\ faults' = faults + 1 /\ course' = "rough"
noFault == UNCHANGED <<faults, course>>

-----------------------------------------------------------------------------
(* mysql_real_query, with raw the value it returns (external). *)

answered(raw) ==
    /\ raw = 0 /\ link = "open"
    /\ applied' = applied + 1 /\ error' = "none" /\ link' = link /\ up' = up /\ noFault

refused(raw) ==
    /\ raw = 1 /\ link = "open"
    /\ applied' = applied /\ error' = "sql" /\ link' = link /\ up' = up /\ noFault

interrupted(raw) ==
    /\ raw = 1 /\ link = "open" /\ fault
    /\ applied' \in {applied, applied + 1} /\ error' = "lost" /\ link' = "none" /\ up' \in BOOLEAN

foundCut(raw) ==
    /\ raw = 1 /\ link = "cut"
    /\ applied' = applied /\ error' \in {"gone", "lost"} /\ link' = "none" /\ up' = up /\ noFault

foundClosed(raw) ==
    /\ raw = 1 /\ link = "none"
    /\ applied' = applied /\ error' = "gone" /\ link' = link /\ up' = up /\ noFault

real_query(raw) ==
    answered(raw) \/ refused(raw) \/ interrupted(raw) \/ foundCut(raw) \/ foundClosed(raw)

-----------------------------------------------------------------------------
(* excuteSql. *)

call ==
    /\ pc = "idle" /\ calls < MaxCalls
    /\ pc' = "query"
    /\ calls' = calls + 1
    /\ ret' = 0 /\ error' = "none" /\ reconnects' = 0 /\ applied' = 0
    /\ course' = IF up /\ link # "cut" THEN "smooth" ELSE "rough"
    /\ UNCHANGED <<up, link, faults>>

\* Variants of goneAway: a lost connection counts too; the text is not looked at.
goneOrLost(e) == e \in {"gone", "lost"}
notLookedAt(e) == e = "no text"

goneAway(e) == e = "gone"

retryable(r) == r \in {CR_SERVER_GONE_ERROR, CR_SERVER_LOST}

firstQuery ==
    /\ pc = "query"
    /\ \E raw \in {0, 1} :
          /\ real_query(raw)
          /\ ret' = IF raw # 0 /\ goneAway(error') THEN CR_SERVER_GONE_ERROR ELSE raw
    /\ pc' = IF retryable(ret') THEN "reopen" ELSE "idle"
    /\ UNCHANGED <<reconnects, calls>>

\* Close, initialise, sleep and connect; ret stays as it is when that fails,
\* which is what brings the second round about.
reopen ==
    /\ pc = "reopen"
    /\ reconnects' = reconnects + 1
    /\ link' = IF up THEN "open" ELSE "none"
    /\ pc' = IF up THEN "again" ELSE IF reconnects' = 2 THEN "idle" ELSE "reopen"
    /\ UNCHANGED <<up, ret, error, applied, course, calls, faults>>

\* The statement again: ret is the bare result, never an error number.
again ==
    /\ pc = "again"
    /\ \E raw \in {0, 1} : real_query(raw) /\ ret' = raw
    /\ pc' = IF retryable(ret') /\ reconnects < 2 THEN "reopen" ELSE "idle"
    /\ UNCHANGED <<reconnects, calls>>

-----------------------------------------------------------------------------
(* The server (external) stops, starts, or closes a connection it finds idle. *)

serverUnchanged == UNCHANGED <<pc, ret, error, reconnects, applied, calls>>

serverStops ==
    /\ up /\ fault
    /\ up' = FALSE
    /\ link' = IF link = "open" THEN "cut" ELSE link
    /\ serverUnchanged

serverStarts == ~up /\ up' = TRUE /\ serverUnchanged /\ UNCHANGED <<link, course, faults>>

linkExpires ==
    /\ link = "open" /\ fault
    /\ link' = "cut"
    /\ serverUnchanged /\ UNCHANGED up

done == pc = "idle" /\ calls = MaxCalls /\ UNCHANGED sqlVars

SqlNext ==
    \/ call \/ firstQuery \/ reopen \/ again
    \/ serverStops \/ serverStarts \/ linkExpires
    \/ done

SqlSpec == SqlInit /\ [][SqlNext]_sqlVars

-----------------------------------------------------------------------------
(* Properties. *)

SqlTypeOK ==
    /\ up \in BOOLEAN /\ link \in {"none", "open", "cut"}
    /\ pc \in {"idle", "query", "reopen", "again"}
    /\ ret \in {0, 1, CR_SERVER_GONE_ERROR, CR_SERVER_LOST}
    /\ error \in {"none", "sql", "gone", "lost"}
    /\ reconnects \in 0..2 /\ applied \in Nat /\ course \in {"smooth", "rough"}
    /\ calls \in 0..MaxCalls /\ faults \in 0..MaxFaults

\* Retrying never executes a statement twice: excuteSql only repeats one that
\* failed with "gone away", and an answer that was lost on the way is not
\* recognised as a reason to retry.
AtMostOnce == applied <= 1

\* A call that reports success has executed its statement, and one that gives
\* up because it could not connect has not.
ReportIsTrue ==
    (pc = "idle" /\ calls > 0) =>
        /\ ret = 0 => applied = 1
        /\ ret = CR_SERVER_GONE_ERROR => applied = 0

\* Earlier failures do not stick to the handle: a call that finds the server up
\* and meets no failure is executed, unless the statement itself is refused.
HealsItself == (pc = "idle" /\ course = "smooth") => (ret = 0 \/ error = "sql")

=============================================================================
