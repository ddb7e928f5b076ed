------------------------------ MODULE QueryCache ------------------------------
(***************************************************************************)
(* One entry of the query cache of the web console: what react-query does  *)
(* with it, under the options that App.tsx gives (fresh for 30 s, one      *)
(* retry, no refetch on focus).  The retry is part of the fetch: a fetch   *)
(* fails when both attempts have.                                          *)
(*                                                                         *)
(* A fetch is served by the backend at one moment and its answer applied   *)
(* at a later one.  Data and answers are sets of at most one value, empty  *)
(* where there is none.                                                    *)
(***************************************************************************)

Nothing == {}

Entries(values) ==
    [data: SUBSET values, ans: SUBSET values, fresh: BOOLEAN, err: BOOLEAN, old: BOOLEAN,
     fetch: {"none", "sent", "served"}]

\* "old": the answer under way, or the data, was served before the last invalidation,
\* which has not started another fetch.
Blank ==
    [data |-> Nothing, ans |-> Nothing, fresh |-> FALSE, err |-> FALSE, old |-> FALSE,
     fetch |-> "none"]

Has(e) == e.data # Nothing

\* An error of a load without data is forgotten when the next one starts.
Fetched(e) ==
    [e EXCEPT !.fetch = "sent", !.ans = Nothing, !.old = FALSE, !.err = Has(e) /\ e.err]

\* A page that shows the query is mounted: fresh data is used as it is, a fetch that
\* is under way is joined.
Mounted(e) == IF e.fresh \/ e.fetch # "none" THEN e ELSE Fetched(e)

\* invalidateQueries.  A query on the screen is fetched again, and the fetch that is
\* under way dropped, unless it is a first load: that one is joined.  A query that is
\* not on the screen is only marked, and an answer that is on its way unmarks it.
Invalidated(e, active) ==
    IF active /\ (e.fetch = "none" \/ Has(e))
      THEN Fetched([e EXCEPT !.fresh = FALSE])
      ELSE [e EXCEPT !.fresh = FALSE, !.old = @ \/ e.fetch # "none"]

\* The backend reads what it answers.
Served(e, value) == [e EXCEPT !.fetch = "served", !.ans = {value}]

Arrived(e) ==
    [e EXCEPT !.data = e.ans, !.fresh = TRUE, !.err = FALSE, !.fetch = "none", !.ans = Nothing]

\* Both attempts have failed; the data stays.
Failed(e) == [e EXCEPT !.fetch = "none", !.ans = Nothing, !.err = TRUE, !.old = FALSE]

\* staleTime is over.
Aged(e) == [e EXCEPT !.fresh = FALSE]

\* The data includes every write that was committed and acknowledged before the
\* last invalidation.
Current(e) == e.fresh /\ ~e.old
===============================================================================
