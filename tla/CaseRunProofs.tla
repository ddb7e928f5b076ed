----------------------------- MODULE CaseRunProofs ----------------------------
(***************************************************************************)
(* Proofs about CaseRun, for every number of cases.  One lemma for each    *)
(* part of the inductive invariant goes through the actions; the theorems  *)
(* follow from the invariant.                                              *)
(***************************************************************************)
EXTENDS CaseRun, TLAPS

\* Where the loop can be.
LEMMA IndexFacts ==
    ASSUME TypeOK
    PROVE  /\ at \in Nat
           /\ AtCase => at \in Case /\ at + 1 \in 1..(N + 1)
           /\ \A i \in Case : i \in Nat /\ i > 0 /\ (i < at + 1 <=> i < at \/ i = at)
BY NAssumption DEF TypeOK, Case, AtCase

\* The results the code builds, and the values of variables.
LEMMA TypeFacts ==
    /\ Passing \in Result
    /\ Skipped \in Result
    /\ \A s \in {"FAIL", "ERROR", "TIMEOUT"} : Bad(s) \in Result
    /\ \A r \in Result, b \in BOOLEAN : [r EXCEPT !.passed = b] \in Result
    /\ 0 \in Value /\ \A i \in Case : i \in Value
    /\ \A low \in Value, high \in Value : Merge(low, high) \in Value
    /\ \A h \in [start: Nat, end: Nat] : \A s \in {0, 1}, e \in {0, 1} :
           [start |-> h.start + s, end |-> h.end + e] \in [start: Nat, end: Nat]
<1>1. /\ Passing \in Result /\ Skipped \in Result
      /\ \A s \in {"FAIL", "ERROR", "TIMEOUT"} : Bad(s) \in Result
  BY DEF Passing, Skipped, Result, Bad, CaseStatus
<1>2. \A r \in Result, b \in BOOLEAN : [r EXCEPT !.passed = b] \in Result
  BY DEF Result
<1>3. 0 \in Value /\ \A i \in Case : i \in Value
  BY NAssumption DEF Value, Case
<1>4. \A low \in Value, high \in Value : Merge(low, high) \in Value
  BY DEF Merge
<1>5. \A h \in [start: Nat, end: Nat] : \A s \in {0, 1}, e \in {0, 1} :
        [start |-> h.start + s, end |-> h.end + e] \in [start: Nat, end: Nat]
  OBVIOUS
<1>. QED
  BY <1>1, <1>2, <1>3, <1>4, <1>5

\* Rows differ from the absence of one, and by their status.
LEMMA RowFacts ==
    /\ \A r \in Result : r # NoResult
    /\ \A s \in {"FAIL", "ERROR", "TIMEOUT"} :
           Bad(s) \in Result /\ Bad(s).status = s /\ Bad(s).passed = FALSE
    /\ Bad("ERROR") # Bad("TIMEOUT")
BY NoResultAssumption DEF Result, Bad, CaseStatus

\* Whose value a merge keeps.
LEMMA ValueFacts ==
    /\ \A low, high : Merge(low, high) \in {low, high}
    /\ \A v \in Value : v \in Nat /\ (v # 0 => v \in Case)
BY NAssumption DEF Merge, Value, Case

\* Typing is preserved by every step.
LEMMA TypeStep == ASSUME IInv, [Next]_vars PROVE TypeOK'
<1>. USE TypeFacts, IndexFacts DEF IInv, TypeOK, loopVars, caseVars, history, Running, Settled, Call
<1>1. ASSUME NEW k \in Case, CaseStart(k) PROVE TypeOK'
  BY <1>1 DEF CaseStart, Goto, Dispatch
<1>2. ASSUME NEW k \in Case, CaseSkipped(k) PROVE TypeOK'
  BY <1>2 DEF CaseSkipped, Goto, Dispatch
<1>3. ASSUME NEW k \in Case, BuildVariables(k) PROVE TypeOK'
  BY <1>3 DEF BuildVariables, Goto
<1>4. ASSUME NEW k \in Case, Setup(k) PROVE TypeOK'
  BY <1>4 DEF Setup, Goto
<1>5. ASSUME NEW k \in Case, SetupRaises(k) PROVE TypeOK'
  BY <1>5 DEF SetupRaises, Goto, Fails
<1>6. ASSUME NEW k \in Case, ChooseExecutor(k) PROVE TypeOK'
  BY <1>6 DEF ChooseExecutor, Goto
<1>7. ASSUME NEW k \in Case, NoExecutor(k) PROVE TypeOK'
  BY <1>7 DEF NoExecutor, Goto, Dispatch
<1>8. ASSUME NEW k \in Case, Respond(k) PROVE TypeOK'
  BY <1>8 DEF Respond, Goto, Orphan, Abandoned
<1>9. ASSUME NEW k \in Case, CallRaises(k) PROVE TypeOK'
  BY <1>9 DEF CallRaises, Goto, Fails, Orphan, Abandoned
<1>10. ASSUME NEW k \in Case, OrphanRaises(k) PROVE TypeOK'
  BY <1>10 DEF OrphanRaises, Goto, Orphan, Abandoned
<1>11. ASSUME NEW k \in Case, DbAsserts(k) PROVE TypeOK'
  BY <1>11 DEF DbAsserts, Goto
<1>12. ASSUME NEW k \in Case, DbRaises(k) PROVE TypeOK'
  BY <1>12 DEF DbRaises, Goto, Fails
<1>13. ASSUME NEW k \in Case, Teardown(k) PROVE TypeOK'
  BY <1>13 DEF Teardown, Goto
<1>14. ASSUME NEW k \in Case, CaseEnd(k) PROVE TypeOK'
  BY <1>14 DEF CaseEnd, Goto, Dispatch
<1>15. CASE Begin
  BY <1>15 DEF Begin
<1>16. CASE SetupError
  BY <1>16 DEF SetupError, Ends
<1>17. CASE Launch
  BY <1>17 DEF Launch, AtCase, Goto
<1>18. CASE Reject
  BY <1>18 DEF Reject, AtCase, Record
<1>19. CASE Collect
  BY <1>19 DEF Collect, AtCase, Record
<1>20. CASE CollectRaised
  BY <1>20 DEF CollectRaised, AtCase, Record
<1>21. CASE SuiteRaises
  BY <1>21 DEF SuiteRaises, AtCase, Ends
<1>22. CASE TimeOut
  BY <1>22 DEF TimeOut, AtCase, Goto, Record
<1>23. CASE Finish
  BY <1>23 DEF Finish, Ends, Outcome, StatusFromSummary
<1>24. CASE UNCHANGED vars
  BY <1>24 DEF vars
<1>. QED
  BY <1>1, <1>2, <1>3, <1>4, <1>5, <1>6, <1>7, <1>8, <1>9, <1>10, <1>11, <1>12, <1>13, <1>14, <1>15, <1>16, <1>17, <1>18, <1>19, <1>20, <1>21, <1>22, <1>23, <1>24 DEF Next, Loop, OwnStep, CallStep

\* The hooks a case has called follow from its step.
LEMMA HooksStep == ASSUME IInv, [Next]_vars, NEW i \in Case PROVE HooksFollow(i)'
<1>. USE IndexFacts DEF IInv, TypeOK, loopVars, caseVars, history, HooksFollow, Running, Call
<1>1. ASSUME NEW k \in Case, CaseStart(k) PROVE HooksFollow(i)'
  BY <1>1 DEF CaseStart, Goto, Dispatch
<1>2. ASSUME NEW k \in Case, CaseSkipped(k) PROVE HooksFollow(i)'
  BY <1>2 DEF CaseSkipped, Goto, Dispatch
<1>3. ASSUME NEW k \in Case, BuildVariables(k) PROVE HooksFollow(i)'
  BY <1>3 DEF BuildVariables, Goto
<1>4. ASSUME NEW k \in Case, Setup(k) PROVE HooksFollow(i)'
  BY <1>4 DEF Setup, Goto
<1>5. ASSUME NEW k \in Case, SetupRaises(k) PROVE HooksFollow(i)'
  BY <1>5 DEF SetupRaises, Goto, Fails
<1>6. ASSUME NEW k \in Case, ChooseExecutor(k) PROVE HooksFollow(i)'
  BY <1>6 DEF ChooseExecutor, Goto
<1>7. ASSUME NEW k \in Case, NoExecutor(k) PROVE HooksFollow(i)'
  BY <1>7 DEF NoExecutor, Goto, Dispatch
<1>8. ASSUME NEW k \in Case, Respond(k) PROVE HooksFollow(i)'
  BY <1>8 DEF Respond, Goto, Orphan, Abandoned
<1>9. ASSUME NEW k \in Case, CallRaises(k) PROVE HooksFollow(i)'
  BY <1>9 DEF CallRaises, Goto, Fails, Orphan, Abandoned
<1>10. ASSUME NEW k \in Case, OrphanRaises(k) PROVE HooksFollow(i)'
  BY <1>10 DEF OrphanRaises, Goto, Orphan, Abandoned
<1>11. ASSUME NEW k \in Case, DbAsserts(k) PROVE HooksFollow(i)'
  BY <1>11 DEF DbAsserts, Goto
<1>12. ASSUME NEW k \in Case, DbRaises(k) PROVE HooksFollow(i)'
  BY <1>12 DEF DbRaises, Goto, Fails
<1>13. ASSUME NEW k \in Case, Teardown(k) PROVE HooksFollow(i)'
  BY <1>13 DEF Teardown, Goto
<1>14. ASSUME NEW k \in Case, CaseEnd(k) PROVE HooksFollow(i)'
  BY <1>14 DEF CaseEnd, Goto, Dispatch
<1>15. CASE Begin
  BY <1>15 DEF Begin
<1>16. CASE SetupError
  BY <1>16 DEF SetupError
<1>17. CASE Launch
  BY <1>17 DEF Launch, AtCase, Goto
<1>18. CASE Reject
  BY <1>18 DEF Reject, AtCase, Record
<1>19. CASE Collect
  BY <1>19 DEF Collect, AtCase, Record
<1>20. CASE CollectRaised
  BY <1>20 DEF CollectRaised, AtCase, Record
<1>21. CASE SuiteRaises
  BY <1>21 DEF SuiteRaises, AtCase
<1>22. CASE TimeOut
  BY <1>22 DEF TimeOut, AtCase, Goto, Record
<1>23. CASE Finish
  BY <1>23 DEF Finish
<1>24. CASE UNCHANGED vars
  BY <1>24 DEF vars
<1>. QED
  BY <1>1, <1>2, <1>3, <1>4, <1>5, <1>6, <1>7, <1>8, <1>9, <1>10, <1>11, <1>12, <1>13, <1>14, <1>15, <1>16, <1>17, <1>18, <1>19, <1>20, <1>21, <1>22, <1>23, <1>24 DEF Next, Loop, OwnStep, CallStep

\* The verdict under construction agrees with what went wrong.
LEMMA VerdictStep == ASSUME IInv, [Next]_vars, NEW i \in Case PROVE VerdictFollows(i)'
<1>. USE IndexFacts DEF IInv, TypeOK, loopVars, caseVars, history, VerdictFollows, Call
<1>1. ASSUME NEW k \in Case, CaseStart(k) PROVE VerdictFollows(i)'
  BY <1>1 DEF CaseStart, Goto, Dispatch, Bad
<1>2. ASSUME NEW k \in Case, CaseSkipped(k) PROVE VerdictFollows(i)'
  BY <1>2 DEF CaseSkipped, Goto, Dispatch, Bad, Skipped
<1>3. ASSUME NEW k \in Case, BuildVariables(k) PROVE VerdictFollows(i)'
  BY <1>3 DEF BuildVariables, Goto, Bad
<1>4. ASSUME NEW k \in Case, Setup(k) PROVE VerdictFollows(i)'
  BY <1>4 DEF Setup, Goto, Bad
<1>5. ASSUME NEW k \in Case, SetupRaises(k) PROVE VerdictFollows(i)'
  BY <1>5 DEF SetupRaises, Goto, Fails, Bad
<1>6. ASSUME NEW k \in Case, ChooseExecutor(k) PROVE VerdictFollows(i)'
  BY <1>6 DEF ChooseExecutor, Goto, Bad
<1>7. ASSUME NEW k \in Case, NoExecutor(k) PROVE VerdictFollows(i)'
  BY <1>7 DEF NoExecutor, Goto, Dispatch, Bad
<1>8. ASSUME NEW k \in Case, Respond(k) PROVE VerdictFollows(i)'
  <2>. USE <1>8 DEF Respond, Goto
  <2>1. CASE k # i
    BY <2>1
  <2>2. CASE k = i
    <3>1. PICK met \in BOOLEAN :
            /\ result'[i] = [result[i] EXCEPT !.passed = met]
            /\ went'[i] = IF met THEN went[i] ELSE went[i] \cup {"unmet"}
            /\ errors \subseteq errors'
      BY ZenonT(30), <2>2
    <3>2. result[i] \in Result /\ result'[i].passed = met /\ result'[i].status = result[i].status
      BY <3>1 DEF Result
    <3>3. pc'[i] \in {"db", "cancelled"} /\ went[i] = {} /\ torn'[i] = torn[i]
      BY <2>2
    <3>4. went'[i] = IF met THEN {} ELSE {"unmet"}
      BY <3>1, <3>3
    <3>. QED
      BY <2>2, <3>1, <3>2, <3>3, <3>4
  <2>. QED
    BY <2>1, <2>2
<1>9. ASSUME NEW k \in Case, CallRaises(k) PROVE VerdictFollows(i)'
  BY <1>9 DEF CallRaises, Goto, Fails, Orphan, Abandoned, Bad
<1>10. ASSUME NEW k \in Case, OrphanRaises(k) PROVE VerdictFollows(i)'
  BY <1>10 DEF OrphanRaises, Goto, Orphan, Abandoned, Bad
<1>11. ASSUME NEW k \in Case, DbAsserts(k) PROVE VerdictFollows(i)'
  <2>. USE <1>11 DEF DbAsserts, Goto
  <2>1. CASE k # i
    BY <2>1
  <2>2. CASE k = i
    <3>1. \/ result'[i] = result[i] /\ went'[i] = went[i]
          \/ result'[i] = Bad("FAIL") /\ went'[i] = went[i] \cup {"db"}
      BY <2>2
    <3>2. pc'[i] = "teardown" /\ went[i] \subseteq {"unmet"} /\ torn'[i] = torn[i] /\ errors' = errors
      BY <2>2
    <3>3. Bad("FAIL").passed = FALSE /\ Bad("FAIL").status = "FAIL"
      BY DEF Bad
    <3>4. CASE result'[i] = result[i] /\ went'[i] = went[i]
      BY ZenonT(30), <2>2, <3>2, <3>4
    <3>5. CASE result'[i] = Bad("FAIL") /\ went'[i] = went[i] \cup {"db"}
      <4>1. went'[i] # {} /\ went'[i] \cap {"raised", "db"} # {} /\ "raised" \notin went'[i]
        BY <3>2, <3>5
      <4>2. result'[i].passed = FALSE /\ result'[i].status = "FAIL"
        BY <3>3, <3>5
      <4>. QED
        BY <2>2, <3>2, <4>1, <4>2
    <3>. QED
      BY <3>1, <3>4, <3>5
  <2>. QED
    BY <2>1, <2>2
<1>12. ASSUME NEW k \in Case, DbRaises(k) PROVE VerdictFollows(i)'
  BY <1>12 DEF DbRaises, Goto, Fails, Bad
<1>13. ASSUME NEW k \in Case, Teardown(k) PROVE VerdictFollows(i)'
  BY <1>13 DEF Teardown, Goto, Bad
<1>14. ASSUME NEW k \in Case, CaseEnd(k) PROVE VerdictFollows(i)'
  BY <1>14 DEF CaseEnd, Goto, Dispatch, Bad
<1>15. CASE Begin
  BY <1>15 DEF Begin, Bad
<1>16. CASE SetupError
  BY <1>16 DEF SetupError, Bad
<1>17. CASE Launch
  BY <1>17 DEF Launch, AtCase, Goto, Bad
<1>18. CASE Reject
  BY <1>18 DEF Reject, AtCase, Record, Bad
<1>19. CASE Collect
  BY <1>19 DEF Collect, AtCase, Record, Bad
<1>20. CASE CollectRaised
  BY <1>20 DEF CollectRaised, AtCase, Record, Bad
<1>21. CASE SuiteRaises
  BY <1>21 DEF SuiteRaises, AtCase, Bad
<1>22. CASE TimeOut
  BY <1>22 DEF TimeOut, AtCase, Goto, Record, Bad
<1>23. CASE Finish
  BY <1>23 DEF Finish, Bad
<1>24. CASE UNCHANGED vars
  BY <1>24 DEF vars
<1>. QED
  BY <1>1, <1>2, <1>3, <1>4, <1>5, <1>6, <1>7, <1>8, <1>9, <1>10, <1>11, <1>12, <1>13, <1>14, <1>15, <1>16, <1>17, <1>18, <1>19, <1>20, <1>21, <1>22, <1>23, <1>24 DEF Next, Loop, OwnStep, CallStep

\* The rows follow the loop, and so do the threads it has left behind.
LEMMA RowStep == ASSUME IInv, [Next]_vars, NEW i \in Case PROVE RowFollows(i)'
<1>. USE IndexFacts, RowFacts DEF IInv, TypeOK, loopVars, caseVars, history, VerdictFollows, RowFollows, Running, Call
<1>1. ASSUME NEW k \in Case, CaseStart(k) PROVE RowFollows(i)'
  BY <1>1 DEF CaseStart, Goto, Dispatch
<1>2. ASSUME NEW k \in Case, CaseSkipped(k) PROVE RowFollows(i)'
  BY <1>2 DEF CaseSkipped, Goto, Dispatch
<1>3. ASSUME NEW k \in Case, BuildVariables(k) PROVE RowFollows(i)'
  BY <1>3 DEF BuildVariables, Goto
<1>4. ASSUME NEW k \in Case, Setup(k) PROVE RowFollows(i)'
  BY <1>4 DEF Setup, Goto
<1>5. ASSUME NEW k \in Case, SetupRaises(k) PROVE RowFollows(i)'
  BY <1>5 DEF SetupRaises, Goto, Fails
<1>6. ASSUME NEW k \in Case, ChooseExecutor(k) PROVE RowFollows(i)'
  BY <1>6 DEF ChooseExecutor, Goto
<1>7. ASSUME NEW k \in Case, NoExecutor(k) PROVE RowFollows(i)'
  BY <1>7 DEF NoExecutor, Goto, Dispatch
<1>8. ASSUME NEW k \in Case, Respond(k) PROVE RowFollows(i)'
  BY <1>8 DEF Respond, Goto, Orphan, Abandoned
<1>9. ASSUME NEW k \in Case, CallRaises(k) PROVE RowFollows(i)'
  BY <1>9 DEF CallRaises, Goto, Fails, Orphan, Abandoned
<1>10. ASSUME NEW k \in Case, OrphanRaises(k) PROVE RowFollows(i)'
  BY <1>10 DEF OrphanRaises, Goto, Orphan, Abandoned
<1>11. ASSUME NEW k \in Case, DbAsserts(k) PROVE RowFollows(i)'
  BY <1>11 DEF DbAsserts, Goto
<1>12. ASSUME NEW k \in Case, DbRaises(k) PROVE RowFollows(i)'
  BY <1>12 DEF DbRaises, Goto, Fails
<1>13. ASSUME NEW k \in Case, Teardown(k) PROVE RowFollows(i)'
  BY <1>13 DEF Teardown, Goto
<1>14. ASSUME NEW k \in Case, CaseEnd(k) PROVE RowFollows(i)'
  BY <1>14 DEF CaseEnd, Goto, Dispatch
<1>15. CASE Begin
  BY <1>15 DEF Begin
<1>16. CASE SetupError
  BY <1>16 DEF SetupError
<1>17. CASE Launch
  BY <1>17 DEF Launch, AtCase, Goto
<1>18. CASE Reject
  BY <1>18 DEF Reject, AtCase, Record
<1>19. CASE Collect
  BY <1>19 DEF Collect, AtCase, Record
<1>20. CASE CollectRaised
  BY <1>20 DEF CollectRaised, AtCase, Record
<1>21. CASE SuiteRaises
  BY <1>21 DEF SuiteRaises, AtCase
<1>22. CASE TimeOut
  BY <1>22 DEF TimeOut, AtCase, Goto, Record
<1>23. CASE Finish
  BY <1>23 DEF Finish
<1>24. CASE UNCHANGED vars
  BY <1>24 DEF vars
<1>. QED
  BY <1>1, <1>2, <1>3, <1>4, <1>5, <1>6, <1>7, <1>8, <1>9, <1>10, <1>11, <1>12, <1>13, <1>14, <1>15, <1>16, <1>17, <1>18, <1>19, <1>20, <1>21, <1>22, <1>23, <1>24 DEF Next, Loop, OwnStep, CallStep

\* No value comes from a case that was not judged.
LEMMA ValuesStep == ASSUME IInv, [Next]_vars, NEW i \in Case PROVE ValuesFollow(i)'
<1>. USE IndexFacts, RowFacts, ValueFacts DEF IInv, TypeOK, loopVars, caseVars, history, VerdictFollows, RowFollows, ValuesFollow, SuiteFollows, Judged, Running
<1>1. ASSUME NEW k \in Case, CaseStart(k) PROVE ValuesFollow(i)'
  BY <1>1 DEF CaseStart, Goto, Dispatch
<1>2. ASSUME NEW k \in Case, CaseSkipped(k) PROVE ValuesFollow(i)'
  BY <1>2 DEF CaseSkipped, Goto, Dispatch
<1>3. ASSUME NEW k \in Case, BuildVariables(k) PROVE ValuesFollow(i)'
  BY <1>3 DEF BuildVariables, Goto
<1>4. ASSUME NEW k \in Case, Setup(k) PROVE ValuesFollow(i)'
  BY <1>4 DEF Setup, Goto
<1>5. ASSUME NEW k \in Case, SetupRaises(k) PROVE ValuesFollow(i)'
  BY <1>5 DEF SetupRaises, Goto, Fails
<1>6. ASSUME NEW k \in Case, ChooseExecutor(k) PROVE ValuesFollow(i)'
  BY <1>6 DEF ChooseExecutor, Goto
<1>7. ASSUME NEW k \in Case, NoExecutor(k) PROVE ValuesFollow(i)'
  BY <1>7 DEF NoExecutor, Goto, Dispatch
<1>8. ASSUME NEW k \in Case, Respond(k) PROVE ValuesFollow(i)'
  BY <1>8 DEF Respond, Goto, Orphan, Abandoned
<1>9. ASSUME NEW k \in Case, CallRaises(k) PROVE ValuesFollow(i)'
  BY <1>9 DEF CallRaises, Goto, Fails, Orphan, Abandoned
<1>10. ASSUME NEW k \in Case, OrphanRaises(k) PROVE ValuesFollow(i)'
  BY <1>10 DEF OrphanRaises, Goto, Orphan, Abandoned
<1>11. ASSUME NEW k \in Case, DbAsserts(k) PROVE ValuesFollow(i)'
  BY <1>11 DEF DbAsserts, Goto
<1>12. ASSUME NEW k \in Case, DbRaises(k) PROVE ValuesFollow(i)'
  BY <1>12 DEF DbRaises, Goto, Fails
<1>13. ASSUME NEW k \in Case, Teardown(k) PROVE ValuesFollow(i)'
  BY <1>13 DEF Teardown, Goto
<1>14. ASSUME NEW k \in Case, CaseEnd(k) PROVE ValuesFollow(i)'
  BY <1>14 DEF CaseEnd, Goto, Dispatch
<1>15. CASE Begin
  BY <1>15 DEF Begin
<1>16. CASE SetupError
  BY <1>16 DEF SetupError
<1>17. CASE Launch
  BY <1>17 DEF Launch, AtCase, Goto
<1>18. CASE Reject
  BY <1>18 DEF Reject, AtCase, Record
<1>19. CASE Collect
  BY <1>19 DEF Collect, AtCase, Record
<1>20. CASE CollectRaised
  BY <1>20 DEF CollectRaised, AtCase, Record
<1>21. CASE SuiteRaises
  BY <1>21 DEF SuiteRaises, AtCase
<1>22. CASE TimeOut
  BY <1>22 DEF TimeOut, AtCase, Goto, Record
<1>23. CASE Finish
  BY <1>23 DEF Finish
<1>24. CASE UNCHANGED vars
  BY <1>24 DEF vars
<1>. QED
  BY <1>1, <1>2, <1>3, <1>4, <1>5, <1>6, <1>7, <1>8, <1>9, <1>10, <1>11, <1>12, <1>13, <1>14, <1>15, <1>16, <1>17, <1>18, <1>19, <1>20, <1>21, <1>22, <1>23, <1>24 DEF Next, Loop, OwnStep, CallStep

\* The suite variables come from judged cases.
LEMMA SuiteStep == ASSUME IInv, [Next]_vars PROVE SuiteFollows'
<1>. USE IndexFacts, RowFacts, ValueFacts DEF IInv, TypeOK, loopVars, caseVars, history, VerdictFollows, RowFollows, ValuesFollow, SuiteFollows, Judged, Running
<1>1. ASSUME NEW k \in Case, CaseStart(k) PROVE SuiteFollows'
  BY <1>1 DEF CaseStart, Goto, Dispatch
<1>2. ASSUME NEW k \in Case, CaseSkipped(k) PROVE SuiteFollows'
  BY <1>2 DEF CaseSkipped, Goto, Dispatch
<1>3. ASSUME NEW k \in Case, BuildVariables(k) PROVE SuiteFollows'
  BY <1>3 DEF BuildVariables, Goto
<1>4. ASSUME NEW k \in Case, Setup(k) PROVE SuiteFollows'
  BY <1>4 DEF Setup, Goto
<1>5. ASSUME NEW k \in Case, SetupRaises(k) PROVE SuiteFollows'
  BY <1>5 DEF SetupRaises, Goto, Fails
<1>6. ASSUME NEW k \in Case, ChooseExecutor(k) PROVE SuiteFollows'
  BY <1>6 DEF ChooseExecutor, Goto
<1>7. ASSUME NEW k \in Case, NoExecutor(k) PROVE SuiteFollows'
  BY <1>7 DEF NoExecutor, Goto, Dispatch
<1>8. ASSUME NEW k \in Case, Respond(k) PROVE SuiteFollows'
  BY <1>8 DEF Respond, Goto, Orphan, Abandoned
<1>9. ASSUME NEW k \in Case, CallRaises(k) PROVE SuiteFollows'
  BY <1>9 DEF CallRaises, Goto, Fails, Orphan, Abandoned
<1>10. ASSUME NEW k \in Case, OrphanRaises(k) PROVE SuiteFollows'
  BY <1>10 DEF OrphanRaises, Goto, Orphan, Abandoned
<1>11. ASSUME NEW k \in Case, DbAsserts(k) PROVE SuiteFollows'
  BY <1>11 DEF DbAsserts, Goto
<1>12. ASSUME NEW k \in Case, DbRaises(k) PROVE SuiteFollows'
  BY <1>12 DEF DbRaises, Goto, Fails
<1>13. ASSUME NEW k \in Case, Teardown(k) PROVE SuiteFollows'
  BY <1>13 DEF Teardown, Goto
<1>14. ASSUME NEW k \in Case, CaseEnd(k) PROVE SuiteFollows'
  BY <1>14 DEF CaseEnd, Goto, Dispatch
<1>15. CASE Begin
  BY <1>15 DEF Begin
<1>16. CASE SetupError
  BY <1>16 DEF SetupError
<1>17. CASE Launch
  BY <1>17 DEF Launch, AtCase, Goto
<1>18. CASE Reject
  BY <1>18 DEF Reject, AtCase, Record
<1>19. CASE Collect
  BY <1>19 DEF Collect, AtCase, Record
<1>20. CASE CollectRaised
  BY <1>20 DEF CollectRaised, AtCase, Record
<1>21. CASE SuiteRaises
  BY <1>21 DEF SuiteRaises, AtCase
<1>22. CASE TimeOut
  BY <1>22 DEF TimeOut, AtCase, Goto, Record
<1>23. CASE Finish
  BY <1>23 DEF Finish
<1>24. CASE UNCHANGED vars
  BY <1>24 DEF vars
<1>. QED
  BY <1>1, <1>2, <1>3, <1>4, <1>5, <1>6, <1>7, <1>8, <1>9, <1>10, <1>11, <1>12, <1>13, <1>14, <1>15, <1>16, <1>17, <1>18, <1>19, <1>20, <1>21, <1>22, <1>23, <1>24 DEF Next, Loop, OwnStep, CallStep

\* Nothing has run and nothing is recorded.
LEMMA InitIInv == Init => IInv
<1>. SUFFICES ASSUME Init PROVE IInv
  OBVIOUS
<1>. USE DEF Init
<1>1. TypeOK
  <2>1. at \in 1..(N + 1)
    BY NAssumption
  <2>2. outcome \in Ends
    BY DEF Ends
  <2>3. /\ suite \in Value /\ local \in [Case -> Value] /\ step \in [Case -> Value]
        /\ result \in [Case -> Result]
    BY TypeFacts
  <2>4. hooks \in [Case -> [start: Nat, end: Nat]]
    OBVIOUS
  <2>. QED
    BY <2>1, <2>2, <2>3, <2>4 DEF TypeOK
<1>2. SuiteFollows
  BY DEF SuiteFollows
<1>3. ASSUME NEW i \in Case
      PROVE  HooksFollow(i) /\ VerdictFollows(i) /\ RowFollows(i) /\ ValuesFollow(i)
  <2>1. HooksFollow(i)
    BY <1>3 DEF HooksFollow
  <2>2. VerdictFollows(i)
    BY <1>3 DEF VerdictFollows, Passing
  <2>3. RowFollows(i)
    <3>1. i >= 1 /\ i \in Nat
      BY <1>3, NAssumption DEF Case
    <3>2. NoResult # Bad("TIMEOUT") /\ NoResult # Bad("ERROR")
      BY RowFacts
    <3>. QED
      BY <1>3, <3>1, <3>2 DEF RowFollows, Running, Call
  <2>4. ValuesFollow(i)
    BY <1>3, NAssumption DEF ValuesFollow, Case
  <2>. QED
    BY <2>1, <2>2, <2>3, <2>4
<1>. QED
  BY <1>1, <1>2, <1>3 DEF IInv

\* The inductive invariant holds in every reachable state.
THEOREM Invariance == Spec => []IInv
<1>1. IInv /\ [Next]_vars => IInv'
  <2>. SUFFICES ASSUME IInv, [Next]_vars PROVE IInv'
    OBVIOUS
  <2>. QED
    BY TypeStep, SuiteStep, HooksStep, VerdictStep, RowStep, ValuesStep DEF IInv
<1>. QED
  BY <1>1, InitIInv, PTL DEF Spec

\* Type correctness of the loop, the cases and their histories.
THEOREM TypeCorrect == Spec => []TypeOK
<1>1. IInv => TypeOK
  BY DEF IInv
<1>. QED
  BY <1>1, Invariance, PTL

\* Whatever raises or hangs, plugins see a judged case begin and end once.
THEOREM HooksArePaired == Spec => []HooksPair
<1>1. IInv => HooksPair
  BY SMTT(30), RowFacts DEF IInv, HooksPair, TypeOK, HooksFollow, VerdictFollows, RowFollows, Judged
<1>. QED
  BY <1>1, Invariance, PTL

\* A recorded verdict agrees with what went wrong in the case.
THEOREM VerdictsAreEarned == Spec => []VerdictIsEarned
<1>1. IInv => VerdictIsEarned
  BY RowFacts DEF IInv, VerdictIsEarned, VerdictFollows, RowFollows, Judged
<1>. QED
  BY <1>1, Invariance, PTL

\* No teardown after an exception or after the async path gave the case up.
THEOREM TeardownIsClean == Spec => []TeardownOnlyAfterTheRest
<1>1. IInv => TeardownOnlyAfterTheRest
  BY DEF IInv, TeardownOnlyAfterTheRest, VerdictFollows, RowFollows
<1>. QED
  BY <1>1, Invariance, PTL

\* What a timed-out case has set never reaches another case.
THEOREM ValuesAreJudged == Spec => []ValuesComeFromJudgedCases
<1>1. IInv => ValuesComeFromJudgedCases
  BY DEF IInv, ValuesFollow, ValuesComeFromJudgedCases
<1>. QED
  BY <1>1, Invariance, PTL

\* What the loop has recorded is never changed by a thread it left behind.
THEOREM RecordsAreFinal == Spec => RecordedIsFinal
<1>. DEFINE Final == /\ \A i \in Case : row[i] # NoResult => row'[i] = row[i]
                     /\ suite' # suite => at' = at + 1
<1>1. IInv /\ [Next]_vars => [Final]_vars
  <2>. SUFFICES ASSUME IInv, Next PROVE Final
    OBVIOUS
  <2>. USE IndexFacts DEF IInv, TypeOK, RowFollows, loopVars
  <2>1. ASSUME NEW k \in Case, OwnStep(k) \/ CallStep(k) PROVE Final
    BY <2>1 DEF OwnStep, CallStep, CaseStart, CaseSkipped, BuildVariables, Setup, SetupRaises,
                ChooseExecutor, NoExecutor, Respond, CallRaises, OrphanRaises, DbAsserts,
                DbRaises, Teardown, CaseEnd
  <2>2. CASE Begin \/ SetupError \/ Launch \/ SuiteRaises \/ Finish
    BY <2>2 DEF Begin, SetupError, Launch, SuiteRaises, Finish
  <2>3. CASE Reject \/ CollectRaised \/ TimeOut
    BY <2>3 DEF Reject, CollectRaised, TimeOut, Record
  <2>4. CASE Collect
    BY <2>4 DEF Collect, Record
  <2>. QED
    BY <2>1, <2>2, <2>3, <2>4 DEF Next, Loop
<1>. QED
  BY <1>1, Invariance, PTL DEF Spec, RecordedIsFinal
===============================================================================
