--------------------------- MODULE SqlRetryProofs ---------------------------
(***************************************************************************)
(* Retrying never executes a statement twice and always heals the handle,  *)
(* for any number of calls and failures.                                   *)
(***************************************************************************)
EXTENDS SqlRetry, TLAPS

\* Until the query that ends the call, the statement was not executed; a call
\* nothing disturbs finds the server up, so its first reconnect succeeds.
SqlInv ==
    /\ SqlTypeOK
    /\ pc # "idle" => applied = 0
    /\ applied <= 1
    /\ pc \in {"query", "reopen"} => reconnects <= 1
    /\ pc = "reopen" => ret = CR_SERVER_GONE_ERROR
    /\ ReportIsTrue
    /\ course = "smooth" => (up /\ link # "cut")
    /\ (course = "smooth" /\ pc = "again") => link = "open"
    /\ (course = "smooth" /\ pc = "idle") => (ret = 0 \/ error = "sql")

\* What a query does to the handle, the server and the statement, as far as
\* excuteSql goes on from there.
LEMMA QueryOutcome ==
    ASSUME SqlTypeOK, NEW raw \in {0, 1}, real_query(raw)
    PROVE  /\ up' \in BOOLEAN /\ link' \in {"none", "open", "cut"}
           /\ error' \in {"none", "sql", "gone", "lost"}
           /\ course' \in {"smooth", "rough"} /\ faults' \in 0..MaxFaults
           /\ applied' \in {applied, applied + 1}
           /\ raw = 0 => applied' = applied + 1
           /\ error' = "gone" => applied' = applied
           /\ course' = "smooth" =>
                 /\ course = "smooth" /\ up' = up
                 /\ link = "open" => (link' = "open" /\ (raw = 0 \/ error' = "sql"))
                 /\ link = "none" => (link' = "none" /\ raw = 1 /\ error' = "gone")
<1> USE SqlAssumption DEF SqlTypeOK
<1>1. CASE answered(raw)
  BY <1>1 DEF answered, noFault
<1>2. CASE refused(raw)
  BY <1>2 DEF refused, noFault
<1>3. CASE interrupted(raw)
  BY <1>3 DEF interrupted, fault
<1>4. CASE foundCut(raw)
  BY <1>4 DEF foundCut, noFault
<1>5. CASE foundClosed(raw)
  BY <1>5 DEF foundClosed, noFault
<1> QED
  BY <1>1, <1>2, <1>3, <1>4, <1>5 DEF real_query

\* SqlInv is inductive over the steps of excuteSql and of the server.
THEOREM SqlInvariant == SqlSpec => []SqlInv
<1>1. SqlInit => SqlInv
  BY SqlAssumption DEF SqlInit, SqlInv, SqlTypeOK, ReportIsTrue, CR_SERVER_GONE_ERROR, CR_SERVER_LOST
<1>2. SqlInv /\ [SqlNext]_sqlVars => SqlInv'
  <2> SUFFICES ASSUME SqlInv, [SqlNext]_sqlVars PROVE SqlInv'
    OBVIOUS
  <2> USE SqlAssumption DEF SqlInv, SqlTypeOK, ReportIsTrue, CR_SERVER_GONE_ERROR, CR_SERVER_LOST
  <2>1. CASE call
    BY <2>1 DEF call
  <2>2. CASE firstQuery
    <3>1. PICK raw \in {0, 1} :
             /\ real_query(raw)
             /\ ret' = IF raw # 0 /\ goneAway(error') THEN CR_SERVER_GONE_ERROR ELSE raw
      BY <2>2 DEF firstQuery
    <3>2. pc = "query" /\ UNCHANGED <<reconnects, calls>>
      BY <2>2 DEF firstQuery
    <3>3. pc' = IF retryable(ret') THEN "reopen" ELSE "idle"
      BY <2>2 DEF firstQuery
    <3> QED
      BY <3>1, <3>2, <3>3, QueryOutcome DEF goneAway, retryable
  <2>3. CASE reopen
    BY <2>3 DEF reopen
  <2>4. CASE again
    <3>1. PICK raw \in {0, 1} : real_query(raw) /\ ret' = raw
      BY <2>4 DEF again
    <3>2. pc = "again" /\ UNCHANGED <<reconnects, calls>>
      BY <2>4 DEF again
    <3>3. pc' = "idle"
      BY <2>4, <3>1 DEF again, retryable
    <3> QED
      BY <3>1, <3>2, <3>3, QueryOutcome
  <2>5. CASE serverStops
    <3>1. up' \in BOOLEAN
      <4>1. up' = FALSE
        BY <2>5 DEF serverStops
      <4> QED
        BY ONLY <4>1, Zenon
    <3>2. /\ faults < MaxFaults /\ faults' = faults + 1 /\ course' = "rough"
          /\ link' = (IF link = "open" THEN "cut" ELSE link)
          /\ UNCHANGED <<pc, ret, error, reconnects, applied, calls>>
      BY <2>5 DEF serverStops, serverUnchanged, fault
    <3> QED
      BY <3>1, <3>2
  <2>6. CASE serverStarts
    BY <2>6 DEF serverStarts, serverUnchanged
  <2>7. CASE linkExpires
    BY <2>7 DEF linkExpires, serverUnchanged, fault
  <2>8. CASE UNCHANGED sqlVars
    BY <2>8 DEF sqlVars
  <2> QED
    BY <2>1, <2>2, <2>3, <2>4, <2>5, <2>6, <2>7, <2>8 DEF SqlNext, done
<1> QED
  BY <1>1, <1>2, PTL DEF SqlSpec

\* No statement is executed twice by excuteSql.
THEOREM NeverTwice == SqlSpec => []AtMostOnce
<1>1. SqlInv => AtMostOnce
  BY DEF SqlInv, AtMostOnce
<1> QED
  BY <1>1, SqlInvariant, PTL

\* What excuteSql returns is true of the statement.
THEOREM ReportsTruly == SqlSpec => []ReportIsTrue
<1>1. SqlInv => ReportIsTrue
  BY DEF SqlInv
<1> QED
  BY <1>1, SqlInvariant, PTL

\* An undisturbed call of excuteSql executes its statement on any handle that
\* earlier calls left closed.
THEOREM Heals == SqlSpec => []HealsItself
<1>1. SqlInv => HealsItself
  BY DEF SqlInv, HealsItself
<1> QED
  BY <1>1, SqlInvariant, PTL

=============================================================================
