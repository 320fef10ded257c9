-------------------------- MODULE FailureKeyStream --------------------------
(***************************************************************************)
(* FailingKeys and the FailureKeyIterator it returns: one result of a      *)
(* report is selected, its failure predicate is sent again as a SELECT,    *)
(* and the caller reads the keys with Next and releases them with Close.   *)
(* The context may be cancelled, and other sessions may write, between any *)
(* two steps; the driver may fail at every call made to it; the observer   *)
(* may panic.                                                              *)
(*                                                                         *)
(* Abstractions: a row is the natural number its key sorts by, a failure   *)
(* predicate (with its scope, segment and eligibility) is the set of rows  *)
(* it selects.  The caller is one goroutine, as the iterator requires.     *)
(***************************************************************************)
EXTENDS Integers, Sequences, FiniteSets

CONSTANTS
  Rows,     \* the rows the table may ever hold
  Plans,    \* the retrieval plan of every result, in report order
  Requests  \* the options of the call

\* supported tells whether the result carries a failureKeyPlan.
Plan ==
  [id: STRING, kind: STRING, supported: BOOLEAN, scope: STRING,
   selects: SUBSET Rows]

\* by holds the target bindings given; scope "" stands for no WithScope.
Request ==
  [by: SUBSET {"id", "index", "kind"}, id: STRING, index: Int, kind: STRING,
   sameTable: BOOLEAN, scope: STRING, keyed: BOOLEAN, observed: BOOLEAN]

ASSUME RowsAssumption == Rows \subseteq Nat /\ IsFiniteSet(Rows)
ASSUME PlansAssumption == Plans \in Seq(Plan)
ASSUME RequestsAssumption == Requests \subseteq Request

VARIABLES
  request,    \* the options of the call; never change
  rows,       \* the rows the table holds now
  cancelled,  \* ctx.Err() is not nil
  phase,      \* where the call, or the iterator's method, is
  pending,    \* driver: rows selected and not yet read
  handle,     \* driver: "none", "open" or "released"
  trouble,    \* error of rows.Next or rows.Close not yet looked at
  current,    \* row read and not yet handed out
  err,        \* rowStream.err, or the error FailingKeys returned
  closed,     \* rowStream.closed
  exhausted,  \* rowStream.exhausted
  observed,   \* rowStream.observed
  \* history, for the properties only
  counted,    \* failing rows the report counted, per result
  changed,    \* the table changed since the report was made
  given,      \* keys handed to the caller
  late,       \* of these, after the context was cancelled
  events      \* statuses of the observer events

vars == <<request, rows, cancelled, phase, pending, handle, trouble, current,
          err, closed, exhausted, observed, counted, changed, given, late, events>>

Phases == {"report", "refused", "idle", "advance", "drain", "scan", "closing"}
Errors == {"none", "config", "unsupported", "context", "scan", "database", "observer"}
Statuses == {"success", "context_error", "scan_error", "database_error"}

-----------------------------------------------------------------------------
(* Selecting the result.                                                   *)

Matches(q) ==
  {i \in 1..Len(Plans) :
     \/ "id" \in q.by /\ Plans[i].id = q.id
     \/ "index" \in q.by /\ i - 1 = q.index
     \/ "kind" \in q.by /\ Plans[i].kind = q.kind}

\* One binding, and one result that answers to it.
Selects(q, i) == Cardinality(q.by) = 1 /\ Matches(q) = {i}

\* Why the request is refused before a statement, or "none".
Refusal(q) ==
  IF ~q.keyed \/ ~\E i \in 1..Len(Plans) : Selects(q, i) THEN "config"
  ELSE LET plan == Plans[CHOOSE i \in 1..Len(Plans) : Selects(q, i)]
       IN IF ~plan.supported THEN "unsupported"
          ELSE IF q.sameTable /\ q.scope \in {"", plan.scope} THEN "none"
          ELSE "config"

\* Failing rows of result i while the table holds T.
FailingRows(i, T) == Plans[i].selects \cap T

-----------------------------------------------------------------------------
(* Errors and the terminal transition.                                     *)

\* categorizeScanError and categorizeExecutionError: a dead context explains all.
Categorized(category) == IF cancelled THEN "context" ELSE category

\* Fault: the event carries the category of the error.
StatusAsCategory(e) == e
Status(e) ==
  IF e = "none" THEN "success"
  ELSE IF e = "context" THEN "context_error"
  ELSE IF e = "scan" THEN "scan_error" ELSE "database_error"

\* Fault: every terminal transition is observed.
ObserveAgain(e) ==
  /\ observed' = TRUE
  /\ IF request.observed
       THEN /\ events' = Append(events, Status(e))
            /\ err' \in {e, IF e = "none" THEN "observer" ELSE e}
       ELSE err' = e /\ UNCHANGED events

\* The one event of the stream; a panicking observer is an error only when
\* there is no other.
ObserveTerminal(e) ==
  IF observed \/ ~request.observed
    THEN err' = e /\ observed' = TRUE /\ UNCHANGED events
    ELSE /\ observed' = TRUE
         /\ events' = Append(events, Status(e))
         /\ err' \in {e, IF e = "none" THEN "observer" ELSE e}

\* Fault: the rows stay open.
EndWithoutRelease(e) == ObserveTerminal(e) /\ UNCHANGED handle

\* Fault: the error that ended the reading is forgotten.
EndForgetful(e) == ObserveTerminal("none") /\ handle' = "released"

\* The stream is over: its rows are released, and its one event is sent.
EndReading(e) == ObserveTerminal(e) /\ handle' = "released"

\* Fault: an error of rows.Next is taken for the end of the rows.
DrainErrorForgotten(closing) ==
  IF closing # "none" THEN Categorized("scan")
  ELSE IF cancelled THEN "context" ELSE "none"

\* The error after rows.Next returned false and rows.Close returned closing.
DrainError(closing) ==
  IF trouble # "none" \/ closing # "none" THEN Categorized("scan")
  ELSE IF cancelled THEN "context" ELSE "none"

\* Fault: Close after a complete drain looks at the context.
CloseErrorAfterDrain ==
  IF err # "none" THEN err
  ELSE IF trouble # "none" THEN Categorized("scan")
  ELSE IF cancelled THEN "context" ELSE "none"

\* What Close returns: the first error, or that of releasing the rows, or the
\* context's when the stream was left early.
CloseError ==
  IF err # "none" THEN err
  ELSE IF trouble # "none" THEN Categorized("scan")
  ELSE IF ~exhausted /\ cancelled THEN "context" ELSE "none"

\* A row that was read leaves the result set.
Unread(k) == pending \ {k}

-----------------------------------------------------------------------------
Init ==
  /\ request \in Requests
  /\ rows \in SUBSET Rows
  /\ cancelled \in BOOLEAN
  /\ phase = "report"
  /\ pending = {}
  /\ handle = "none"
  /\ trouble = "none"
  /\ current = 0
  /\ err = "none"
  /\ closed = FALSE /\ exhausted = FALSE /\ observed = FALSE
  /\ counted = [i \in 1..Len(Plans) |-> Cardinality(FailingRows(i, rows))]
  /\ changed = FALSE
  /\ given = <<>>
  /\ late = 0
  /\ events = <<>>

\* Options, selection, target or scope are rejected before a statement.
Reject ==
  /\ phase = "report" /\ Refusal(request) # "none"
  /\ phase' = "refused"
  /\ err' = Refusal(request)
  /\ UNCHANGED <<request, rows, cancelled, pending, handle, trouble, current,
                 closed, exhausted, observed, counted, changed, given, late, events>>

\* The statement fails: one event, whose panic replaces the error.
QueryFails ==
  /\ phase = "report" /\ Refusal(request) = "none"
  /\ phase' = "refused"
  /\ LET e == Categorized("database")
     IN IF request.observed
          THEN err' \in {e, "observer"} /\ events' = Append(events, Status(e))
          ELSE err' = e /\ UNCHANGED events
  /\ UNCHANGED <<request, rows, cancelled, pending, handle, trouble, current,
                 closed, exhausted, observed, counted, changed, given, late>>

\* The statement selects the rows that fail now.
QuerySucceeds ==
  /\ phase = "report" /\ Refusal(request) = "none"
  /\ phase' = "idle"
  /\ handle' = "open"
  /\ \E i \in 1..Len(Plans) : Selects(request, i) /\ pending' = FailingRows(i, rows)
  /\ UNCHANGED <<request, rows, cancelled, trouble, current, err, closed,
                 exhausted, observed, counted, changed, given, late, events>>

-----------------------------------------------------------------------------
(* Next.                                                                   *)

Readable == phase = "idle" /\ ~closed /\ err = "none" /\ handle = "open"

\* Fault: Next leaves the context to the driver.
ContextSeen == FALSE
ContextEnded == cancelled

\* Next looks at the context before it asks the driver.
BeginNext ==
  /\ Readable
  /\ IF ContextEnded
       THEN EndReading("context") /\ UNCHANGED phase
       ELSE phase' = "advance" /\ UNCHANGED <<err, observed, events, handle>>
  /\ UNCHANGED <<request, rows, cancelled, pending, trouble, current, closed,
                 exhausted, counted, changed, given, late>>

\* rows.Next: the least unread row, the end, or an error of the driver.
RowsNext ==
  /\ phase = "advance"
  /\ \/ /\ \E k \in pending : (\A other \in pending : k <= other) /\ current' = k
        /\ phase' = "scan"
        /\ UNCHANGED trouble
     \/ /\ pending = {}
        /\ phase' = "drain"
        /\ UNCHANGED <<trouble, current>>
     \/ /\ phase' = "drain"
        /\ trouble' = "scan"
        /\ UNCHANGED current
  /\ UNCHANGED <<request, rows, cancelled, pending, handle, err, closed,
                 exhausted, observed, counted, changed, given, late, events>>

\* rows.Next returned false: the rows are released, and the stream is
\* exhausted unless something went wrong.
FinishDrain ==
  /\ phase = "drain"
  /\ \E closing \in {"none", "scan"} :
       /\ EndReading(DrainError(closing))
       /\ exhausted' = (DrainError(closing) = "none")
  /\ phase' = "idle"
  /\ trouble' = "none"
  /\ UNCHANGED <<request, rows, cancelled, pending, current, closed,
                 counted, changed, given, late>>

\* rows.Scan: the key is handed out, or the stream ends.
FinishScan ==
  /\ phase = "scan"
  /\ phase' = "idle"
  /\ \/ /\ given' = Append(given, current)
        /\ late' = late + (IF cancelled THEN 1 ELSE 0)
        /\ pending' = Unread(current)
        /\ UNCHANGED <<handle, err, observed, events>>
     \/ EndReading(Categorized("scan")) /\ UNCHANGED <<given, late, pending>>
  /\ UNCHANGED <<request, rows, cancelled, trouble, current, closed,
                 exhausted, counted, changed>>

-----------------------------------------------------------------------------
(* Close.                                                                  *)

\* The first Close releases rows still open.
BeginClose ==
  /\ phase = "idle" /\ ~closed
  /\ closed' = TRUE
  /\ phase' = "closing"
  /\ IF handle = "open"
       THEN handle' = "released" /\ trouble' \in {"none", "scan"}
       ELSE UNCHANGED <<handle, trouble>>
  /\ UNCHANGED <<request, rows, cancelled, pending, current, err, exhausted,
                 observed, counted, changed, given, late, events>>

FinishClose ==
  /\ phase = "closing"
  /\ phase' = "idle"
  /\ ObserveTerminal(CloseError)
  /\ trouble' = "none"
  /\ UNCHANGED <<request, rows, cancelled, pending, handle, current, closed,
                 exhausted, counted, changed, given, late>>

\* Next after the end, and Close after Close, change nothing; a refused call
\* has no iterator.
CallAgain ==
  /\ phase = "refused" \/ (phase = "idle" /\ ~Readable)
  /\ UNCHANGED vars

-----------------------------------------------------------------------------
Cancel ==
  /\ ~cancelled
  /\ cancelled' = TRUE
  /\ UNCHANGED <<request, rows, phase, pending, handle, trouble, current, err,
                 closed, exhausted, observed, counted, changed, given, late, events>>

\* Another session inserts or deletes a row before the statement is sent; the
\* statement's own rows do not change afterwards.
Write ==
  /\ phase = "report"
  /\ \E r \in Rows : rows' = IF r \in rows THEN rows \ {r} ELSE rows \cup {r}
  /\ changed' = TRUE
  /\ UNCHANGED <<request, cancelled, phase, pending, handle, trouble, current,
                 err, closed, exhausted, observed, counted, given, late, events>>

\* A caller that reads until Next returns false.
Read == BeginNext \/ RowsNext \/ FinishDrain \/ FinishScan

Next ==
  \/ Reject \/ QueryFails \/ QuerySucceeds
  \/ Read \/ BeginClose \/ FinishClose \/ CallAgain
  \/ Cancel \/ Write

Spec == Init /\ [][Next]_vars

\* The documented loop: "for iter.Next()", and every method returns.
FairSpec == Spec /\ WF_vars(Read) /\ WF_vars(FinishClose)

-----------------------------------------------------------------------------
(* Properties.                                                             *)

TypeOK ==
  /\ request \in Requests
  /\ rows \in SUBSET Rows
  /\ cancelled \in BOOLEAN
  /\ phase \in Phases
  /\ pending \in SUBSET Rows
  /\ handle \in {"none", "open", "released"}
  /\ trouble \in {"none", "scan"}
  /\ current \in Nat
  /\ err \in Errors
  /\ closed \in BOOLEAN /\ exhausted \in BOOLEAN /\ observed \in BOOLEAN
  /\ counted \in [1..Len(Plans) -> Nat]
  /\ changed \in BOOLEAN
  /\ given \in Seq(Rows)
  /\ late \in Nat
  /\ events \in Seq(Statuses)

\* The iterator is between two calls, and reading is over.
Ended == phase = "idle" /\ (closed \/ exhausted \/ err # "none")

\* "Exhaustion, cancellation, scan, and close paths release underlying rows"
\* (docs/reference/suite.md): however the stream ended.
ReleasedWhenEnded == Ended => handle = "released"

\* "An attempted retrieval emits exactly one ... event" (docs/reference/
\* suite.md), and it tells the error the caller is told; only the observer's
\* own panic comes after it.
EventMatchesOutcome ==
  LET failed == phase = "refused" /\ err \notin {"config", "unsupported"}
      telling == request.observed /\ (Ended \/ failed)
  IN phase \in {"idle", "refused"} =>
       /\ Len(events) = IF telling THEN 1 ELSE 0
       /\ (telling /\ err # "observer") => events[1] = Status(err)

\* A stream that was read to its end without an error gave as many keys as the
\* report counted failures for the selected result, if the table is still the
\* one that was validated: no key is lost to a driver error or a cancellation
\* taken for the end of the rows.
DrainMatchesReport ==
  (exhausted /\ err = "none" /\ ~changed) =>
    \A i \in 1..Len(Plans) : Selects(request, i) => Len(given) = counted[i]

\* A cancelled context stops the stream: only the key that was being read when
\* it ended is still handed out.
CancellationIsPrompt == late <= 1

\* A caller that keeps calling Next comes to the end.
StreamEnds == (phase = "idle") ~> Ended

CursorOutcome ==
  IF phase = "report" THEN "idle"
  ELSE IF phase = "refused" \/ err # "none" THEN "failed"
  ELSE IF exhausted THEN "complete"
  ELSE IF closed /\ phase = "idle" THEN "abandoned" ELSE "open"

Given == {given[i] : i \in DOMAIN given}

Cursor == INSTANCE KeyCursor WITH
  Keys <- Rows,
  source <- pending \cup Given,
  live <- ~cancelled,
  outcome <- CursorOutcome

\* Keys ascending, each once, of one statement; the outcome is final: Close
\* after a drain ignores a later cancellation, and no error replaces another.
RefinesCursor == Cursor!CursorSpec
=============================================================================
