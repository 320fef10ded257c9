---------------------- MODULE FailureKeyStream_proofs ----------------------
(***************************************************************************)
(* The key stream keeps its contract for every table, report and request:  *)
(* types, release of the rows, the one event, the number of keys, prompt   *)
(* cancellation, and the refinement of KeyCursor.                          *)
(*                                                                         *)
(* StreamInv is the inductive invariant.  It says for each phase which of  *)
(* the flags err, closed, exhausted, observed and handle may be set there; *)
(* none of the properties is inductive without it, because each relates    *)
(* flags that are set in different steps of one method.                    *)
(***************************************************************************)
EXTENDS FailureKeyStream, FiniteSetTheorems, SequenceTheorems, TLAPS

\* Before the statement there is nothing to release, to give or to tell.
Fresh ==
  /\ phase \in {"report", "refused"} =>
       /\ given = <<>> /\ pending = {} /\ handle = "none"
       /\ ~closed /\ ~exhausted /\ ~observed
  /\ phase = "report" => err = "none" /\ events = <<>>

\* Inside Next the stream is open and without an error.
Reading ==
  phase \in {"advance", "drain", "scan"} =>
    ~closed /\ ~exhausted /\ ~observed /\ err = "none" /\ handle = "open"

\* Between two calls, and inside Close.
Resting ==
  phase \in {"idle", "closing"} =>
    /\ handle = IF closed \/ exhausted \/ err # "none" THEN "released" ELSE "open"
    /\ observed <=> (phase = "idle" /\ closed) \/ exhausted \/ err # "none"
    /\ phase = "closing" => closed

Troubled ==
  /\ trouble # "none" => phase \in {"drain", "closing"}
  /\ (phase = "closing" /\ trouble # "none") => ~exhausted /\ err = "none"

\* What was read, and what is left.
Rest ==
  /\ exhausted => pending = {}
  /\ (phase = "drain" /\ trouble = "none") => pending = {}
  /\ phase = "scan" => current \in pending /\ \A other \in pending : current <= other
  /\ pending \cap Given = {}

\* Every given key counts once, and with the unread ones they are the selected.
Counting ==
  /\ Len(given) = Cardinality(Given)
  /\ ~changed => counted = [i \in 1..Len(Plans) |-> Cardinality(FailingRows(i, rows))]
  /\ phase \notin {"report", "refused"} =>
       \A i \in 1..Len(Plans) :
         Selects(request, i) => pending \cup Given = FailingRows(i, rows)

\* The event is sent with the flag observed, or by a statement that failed.
Telling ==
  /\ phase # "refused" =>
       Len(events) = IF observed /\ request.observed THEN 1 ELSE 0
  /\ (phase # "refused" /\ observed /\ request.observed /\ err # "observer") =>
       events[1] = Status(err)
  /\ phase = "refused" =>
       LET failed == err \notin {"config", "unsupported"} /\ request.observed
       IN /\ Len(events) = IF failed THEN 1 ELSE 0
          /\ (failed /\ err # "observer") => events[1] = Status(err)

\* A key given late is the last: Next sees the cancelled context before it reads.
Prompt ==
  /\ late \in {0, 1}
  /\ ~cancelled => late = 0
  /\ late = 1 => phase \notin {"advance", "drain", "scan", "report", "refused"}

StreamInv ==
  TypeOK /\ Fresh /\ Reading /\ Resting /\ Troubled /\ Rest /\ Telling /\ Prompt

-----------------------------------------------------------------------------
\* The refusal of a request is an error of its own.
LEMMA RefusalType ==
  ASSUME NEW q PROVE Refusal(q) \in {"none", "config", "unsupported"}
BY DEF Refusal

\* The status of an event is one of the statuses.
LEMMA StatusType == ASSUME NEW e PROVE Status(e) \in Statuses
BY DEF Status, Statuses

\* The first error is never empty: what a closing or reading error can be.
LEMMA ErrorTypes ==
  ASSUME TypeOK, NEW closing \in {"none", "scan"}
  PROVE  /\ DrainError(closing) \in {"none", "context", "scan"}
         /\ Categorized("scan") \in {"context", "scan"}
         /\ Categorized("database") \in {"context", "database"}
         /\ CloseError \in Errors
         /\ err = "none" => CloseError \in {"none", "context", "scan"}
         /\ err # "none" => CloseError = err
BY DEF TypeOK, DrainError, Categorized, CloseError, Errors

\* Appending one status to an empty list of events.
LEMMA OneEvent ==
  ASSUME NEW s \in Statuses, events = <<>>
  PROVE  /\ Append(events, s) \in Seq(Statuses)
         /\ Len(Append(events, s)) = 1
         /\ Append(events, s)[1] = s
OBVIOUS

\* Handing out one more key.
LEMMA GivenAppend ==
  ASSUME TypeOK, NEW k \in Rows, given' = Append(given, k)
  PROVE  /\ Given' = Given \cup {k}
         /\ Len(given') = Len(given) + 1
         /\ given' \in Seq(Rows)
<1>1. given \in Seq(Rows)
  BY DEF TypeOK
<1>2. /\ Len(given') = Len(given) + 1 /\ given' \in Seq(Rows)
      /\ DOMAIN given' = 1..(Len(given) + 1) /\ DOMAIN given = 1..Len(given)
      /\ Len(given) \in Nat
      /\ given'[Len(given) + 1] = k
      /\ \A i \in 1..Len(given) : given'[i] = given[i]
  BY <1>1
<1>3. Given' \subseteq Given \cup {k}
  BY <1>2 DEF Given
<1>4. Given \cup {k} \subseteq Given'
  BY <1>2 DEF Given
<1> QED
  BY <1>2, <1>3, <1>4

\* The terminal transition: at most one event, and the first error is kept.
LEMMA TerminalEvent ==
  ASSUME StreamInv, phase # "refused", NEW e \in Errors, ObserveTerminal(e),
         observed => e = err
  PROVE  /\ err' \in Errors /\ observed' = TRUE /\ events' \in Seq(Statuses)
         /\ e # "none" => err' = e
         /\ e = "none" => err' \in {"none", "observer"}
         /\ observed => err' = e
         /\ Len(events') = IF request.observed THEN 1 ELSE 0
         /\ (request.observed /\ err' # "observer") => events'[1] = Status(err')
<1> USE DEF StreamInv
<1>1. CASE observed
  BY <1>1 DEF ObserveTerminal, TypeOK, Telling
<1>2. CASE ~observed /\ ~request.observed
  BY <1>2 DEF ObserveTerminal, TypeOK, Telling
<1>3. CASE ~observed /\ request.observed
  <2>1. events = <<>>
    BY <1>3 DEF Telling, TypeOK
  <2>2. events' = Append(events, Status(e)) /\ Status(e) \in Statuses
    BY <1>3, StatusType DEF ObserveTerminal
  <2>3. /\ events' \in Seq(Statuses)
        /\ Len(events') = 1 /\ events'[1] = Status(e)
    BY <2>1, <2>2, OneEvent
  <2>4. err' \in {e, IF e = "none" THEN "observer" ELSE e} /\ observed' = TRUE
    BY <1>3 DEF ObserveTerminal
  <2> QED
    BY <1>3, <2>3, <2>4 DEF Errors
<1> QED
  BY <1>1, <1>2, <1>3

\* Every step keeps the types: a key handed out is a row of the table.
LEMMA TypeStep ==
  ASSUME StreamInv, [Next]_vars
  PROVE  TypeOK'
<1> USE DEF StreamInv
<1>1. CASE Reject
  BY <1>1, StatusType, ErrorTypes, RefusalType, RowsAssumption, PlansAssumption
  DEF Reject, TypeOK, Phases, Errors, FailingRows, Rest, Fresh, Reading, Resting, Telling
<1>2. CASE QueryFails
  <2>1. PICK e \in {"context", "database"} :
          IF request.observed
            THEN err' \in {e, "observer"} /\ events' = Append(events, Status(e))
            ELSE err' = e /\ UNCHANGED events
    BY <1>2, ErrorTypes DEF QueryFails
  <2>2. err' \in Errors
    BY <2>1 DEF Errors
  <2>3. events' \in Seq(Statuses)
    <3>1. events \in Seq(Statuses) /\ Status(e) \in Statuses
      BY StatusType DEF TypeOK
    <3>2. Append(events, Status(e)) \in Seq(Statuses)
      BY ONLY <3>1, AppendProperties
    <3> QED
      BY ONLY <2>1, <3>1, <3>2
  <2> QED
    BY <1>2, <2>2, <2>3 DEF QueryFails, TypeOK, Phases
<1>3. CASE QuerySucceeds
  BY <1>3, StatusType, ErrorTypes, RefusalType, RowsAssumption, PlansAssumption
  DEF QuerySucceeds, TypeOK, Phases, Errors, FailingRows, Rest, Fresh, Reading, Resting, Telling
<1>4. CASE BeginNext
  <2>1. CASE cancelled
    <3>1. ObserveTerminal("context") /\ phase # "refused" /\ ~observed
      BY <1>4, <2>1 DEF BeginNext, Readable, ContextEnded, EndReading, Resting
    <3>2. err' \in Errors /\ observed' = TRUE /\ events' \in Seq(Statuses)
      BY <3>1, TerminalEvent DEF Errors
    <3> QED
      BY <1>4, <2>1, <3>2 DEF BeginNext, ContextEnded, EndReading, TypeOK
  <2>2. CASE ~cancelled
    BY <1>4, <2>2 DEF BeginNext, Readable, ContextEnded, TypeOK, Phases
  <2> QED
    BY <2>1, <2>2
<1>5. CASE RowsNext
  BY <1>5, StatusType, ErrorTypes, RefusalType, RowsAssumption, PlansAssumption
  DEF RowsNext, TypeOK, Phases, Errors, FailingRows, Rest, Fresh, Reading, Resting, Telling
<1>6. CASE FinishDrain
  <2>1. PICK closing \in {"none", "scan"} :
          /\ ObserveTerminal(DrainError(closing)) /\ handle' = "released"
          /\ exhausted' = (DrainError(closing) = "none")
    BY <1>6 DEF FinishDrain, EndReading
  <2>2. DrainError(closing) \in Errors /\ phase # "refused" /\ ~observed
    BY <1>6, ErrorTypes DEF FinishDrain, Errors, Reading
  <2>3. err' \in Errors /\ observed' = TRUE /\ events' \in Seq(Statuses)
    BY <2>1, <2>2, TerminalEvent
  <2> QED
    BY <1>6, <2>1, <2>3 DEF FinishDrain, TypeOK, Phases
<1>7. CASE FinishScan
  <2>1. CASE given' = Append(given, current)
    BY <1>7, <2>1 DEF FinishScan, TypeOK, Phases, Rest, Unread
  <2>2. CASE EndReading(Categorized("scan")) /\ UNCHANGED <<given, late, pending>>
    <3>1. ObserveTerminal(Categorized("scan")) /\ phase # "refused" /\ ~observed
      BY <1>7, <2>2 DEF FinishScan, EndReading, Reading
    <3>2. err' \in Errors /\ observed' = TRUE /\ events' \in Seq(Statuses)
      BY <3>1, TerminalEvent, ErrorTypes DEF Errors
    <3> QED
      BY <1>7, <2>2, <3>2 DEF FinishScan, EndReading, TypeOK, Phases
  <2> QED
    BY <1>7, <2>1, <2>2 DEF FinishScan
<1>8. CASE BeginClose
  BY <1>8, StatusType, ErrorTypes, RefusalType, RowsAssumption, PlansAssumption
  DEF BeginClose, TypeOK, Phases, Errors, FailingRows, Rest, Fresh, Reading, Resting, Telling
<1>9. CASE FinishClose
  <2>1. phase # "refused" /\ (observed => CloseError = err)
    BY <1>9, ErrorTypes DEF FinishClose, Resting, CloseError, Troubled
  <2>2. err' \in Errors /\ observed' = TRUE /\ events' \in Seq(Statuses)
    BY <1>9, <2>1, TerminalEvent, ErrorTypes DEF FinishClose
  <2> QED
    BY <1>9, <2>2 DEF FinishClose, TypeOK, Phases
<1>10. CASE CallAgain
  BY <1>10, StatusType, ErrorTypes, RefusalType, RowsAssumption, PlansAssumption
  DEF CallAgain, vars, TypeOK, Phases, Errors, FailingRows, Rest, Fresh, Reading, Resting, Telling
<1>11. CASE Cancel
  BY <1>11, StatusType, ErrorTypes, RefusalType, RowsAssumption, PlansAssumption
  DEF Cancel, TypeOK, Phases, Errors, FailingRows, Rest, Fresh, Reading, Resting, Telling
<1>12. CASE Write
  BY <1>12, StatusType, ErrorTypes, RefusalType, RowsAssumption, PlansAssumption
  DEF Write, TypeOK, Phases, Errors, FailingRows, Rest, Fresh, Reading, Resting, Telling
<1>13. CASE UNCHANGED vars
  BY <1>13 DEF vars, TypeOK, Phases, Errors, FailingRows, Rest, Fresh, Reading, Resting, Telling
<1> QED
  BY <1>1, <1>2, <1>3, <1>4, <1>5, <1>6, <1>7, <1>8, <1>9, <1>10, <1>11, <1>12, <1>13 DEF Next, Read

\* Nothing is opened, given or told before the statement.
LEMMA FreshStep ==
  ASSUME StreamInv, [Next]_vars
  PROVE  Fresh'
<1> USE DEF StreamInv
<1>1. CASE Reject
  BY <1>1
  DEF Reject, TypeOK, Fresh
<1>2. CASE QueryFails
  BY <1>2
  DEF QueryFails, TypeOK, Fresh
<1>3. CASE QuerySucceeds
  BY <1>3
  DEF QuerySucceeds, TypeOK, Fresh
<1>4. CASE BeginNext
  BY <1>4
  DEF BeginNext, Readable, ContextEnded, EndReading, ObserveTerminal, TypeOK, Fresh
<1>5. CASE RowsNext
  BY <1>5
  DEF RowsNext, TypeOK, Fresh
<1>6. CASE FinishDrain
  BY <1>6
  DEF FinishDrain, EndReading, ObserveTerminal, TypeOK, Fresh
<1>7. CASE FinishScan
  BY <1>7
  DEF FinishScan, EndReading, ObserveTerminal, Unread, TypeOK, Fresh
<1>8. CASE BeginClose
  BY <1>8
  DEF BeginClose, TypeOK, Fresh
<1>9. CASE FinishClose
  BY <1>9
  DEF FinishClose, ObserveTerminal, TypeOK, Fresh
<1>10. CASE CallAgain
  BY <1>10
  DEF CallAgain, vars, TypeOK, Fresh
<1>11. CASE Cancel
  BY <1>11
  DEF Cancel, TypeOK, Fresh
<1>12. CASE Write
  BY <1>12
  DEF Write, TypeOK, Fresh
<1>13. CASE UNCHANGED vars
  BY <1>13 DEF vars, TypeOK, Fresh
<1> QED
  BY <1>1, <1>2, <1>3, <1>4, <1>5, <1>6, <1>7, <1>8, <1>9, <1>10, <1>11, <1>12, <1>13 DEF Next, Read

\* Inside Next no error, close or event has happened yet.
LEMMA ReadingStep ==
  ASSUME StreamInv, [Next]_vars
  PROVE  Reading'
<1> USE DEF StreamInv
<1>1. CASE Reject
  BY <1>1
  DEF Reject, TypeOK, Reading, Resting, Phases
<1>2. CASE QueryFails
  BY <1>2
  DEF QueryFails, TypeOK, Reading, Resting, Phases
<1>3. CASE QuerySucceeds
  BY <1>3
  DEF QuerySucceeds, TypeOK, Reading, Resting, Phases
<1>4. CASE BeginNext
  BY <1>4
  DEF BeginNext, Readable, ContextEnded, EndReading, ObserveTerminal, TypeOK, Reading, Resting, Phases
<1>5. CASE RowsNext
  BY <1>5
  DEF RowsNext, TypeOK, Reading, Resting, Phases
<1>6. CASE FinishDrain
  BY <1>6
  DEF FinishDrain, EndReading, ObserveTerminal, TypeOK, Reading, Resting, Phases
<1>7. CASE FinishScan
  BY <1>7
  DEF FinishScan, EndReading, ObserveTerminal, Unread, TypeOK, Reading, Resting, Phases
<1>8. CASE BeginClose
  BY <1>8
  DEF BeginClose, TypeOK, Reading, Resting, Phases
<1>9. CASE FinishClose
  BY <1>9
  DEF FinishClose, ObserveTerminal, TypeOK, Reading, Resting, Phases
<1>10. CASE CallAgain
  BY <1>10
  DEF CallAgain, vars, TypeOK, Reading, Resting, Phases
<1>11. CASE Cancel
  BY <1>11
  DEF Cancel, TypeOK, Reading, Resting, Phases
<1>12. CASE Write
  BY <1>12
  DEF Write, TypeOK, Reading, Resting, Phases
<1>13. CASE UNCHANGED vars
  BY <1>13 DEF vars, TypeOK, Reading, Resting, Phases
<1> QED
  BY <1>1, <1>2, <1>3, <1>4, <1>5, <1>6, <1>7, <1>8, <1>9, <1>10, <1>11, <1>12, <1>13 DEF Next, Read

\* Rows are released and the event is sent together with the flags.
LEMMA RestingStep ==
  ASSUME StreamInv, [Next]_vars
  PROVE  Resting'
<1> USE DEF StreamInv
<1>1. CASE Reject
  BY <1>1, ErrorTypes, RefusalType
  DEF Reject, TypeOK, Resting, Reading, Fresh, Phases, Errors
<1>2. CASE QueryFails
  BY <1>2, ErrorTypes, RefusalType
  DEF QueryFails, TypeOK, Resting, Reading, Fresh, Phases, Errors
<1>3. CASE QuerySucceeds
  BY <1>3, ErrorTypes, RefusalType
  DEF QuerySucceeds, TypeOK, Resting, Reading, Fresh, Phases, Errors
<1>4. CASE BeginNext
  BY <1>4, ErrorTypes, RefusalType
  DEF BeginNext, Readable, ContextEnded, EndReading, ObserveTerminal, TypeOK, Resting, Reading, Fresh, Phases, Errors
<1>5. CASE RowsNext
  BY <1>5, ErrorTypes, RefusalType
  DEF RowsNext, TypeOK, Resting, Reading, Fresh, Phases, Errors
<1>6. CASE FinishDrain
  BY <1>6, ErrorTypes, RefusalType
  DEF FinishDrain, EndReading, ObserveTerminal, TypeOK, Resting, Reading, Fresh, Phases, Errors
<1>7. CASE FinishScan
  BY <1>7, ErrorTypes, RefusalType
  DEF FinishScan, EndReading, ObserveTerminal, Unread, TypeOK, Resting, Reading, Fresh, Phases, Errors
<1>8. CASE BeginClose
  BY <1>8, ErrorTypes, RefusalType
  DEF BeginClose, TypeOK, Resting, Reading, Fresh, Phases, Errors
<1>9. CASE FinishClose
  BY <1>9, ErrorTypes, RefusalType
  DEF FinishClose, ObserveTerminal, TypeOK, Resting, Reading, Fresh, Phases, Errors
<1>10. CASE CallAgain
  BY <1>10, ErrorTypes, RefusalType
  DEF CallAgain, vars, TypeOK, Resting, Reading, Fresh, Phases, Errors
<1>11. CASE Cancel
  BY <1>11, ErrorTypes, RefusalType
  DEF Cancel, TypeOK, Resting, Reading, Fresh, Phases, Errors
<1>12. CASE Write
  BY <1>12, ErrorTypes, RefusalType
  DEF Write, TypeOK, Resting, Reading, Fresh, Phases, Errors
<1>13. CASE UNCHANGED vars
  BY <1>13 DEF vars, TypeOK, Resting, Reading, Fresh, Phases, Errors
<1> QED
  BY <1>1, <1>2, <1>3, <1>4, <1>5, <1>6, <1>7, <1>8, <1>9, <1>10, <1>11, <1>12, <1>13 DEF Next, Read

\* An error of the driver is looked at by the step that follows it.
LEMMA TroubledStep ==
  ASSUME StreamInv, [Next]_vars
  PROVE  Troubled'
<1> USE DEF StreamInv
<1>1. CASE Reject
  BY <1>1, ErrorTypes
  DEF Reject, TypeOK, Troubled, Resting, Reading, Phases, Errors
<1>2. CASE QueryFails
  BY <1>2, ErrorTypes
  DEF QueryFails, TypeOK, Troubled, Resting, Reading, Phases, Errors
<1>3. CASE QuerySucceeds
  BY <1>3, ErrorTypes
  DEF QuerySucceeds, TypeOK, Troubled, Resting, Reading, Phases, Errors
<1>4. CASE BeginNext
  BY <1>4, ErrorTypes
  DEF BeginNext, Readable, ContextEnded, EndReading, ObserveTerminal, TypeOK, Troubled, Resting, Reading, Phases, Errors
<1>5. CASE RowsNext
  BY <1>5, ErrorTypes
  DEF RowsNext, TypeOK, Troubled, Resting, Reading, Phases, Errors
<1>6. CASE FinishDrain
  BY <1>6, ErrorTypes
  DEF FinishDrain, EndReading, ObserveTerminal, TypeOK, Troubled, Resting, Reading, Phases, Errors
<1>7. CASE FinishScan
  BY <1>7, ErrorTypes
  DEF FinishScan, EndReading, ObserveTerminal, Unread, TypeOK, Troubled, Resting, Reading, Phases, Errors
<1>8. CASE BeginClose
  BY <1>8, ErrorTypes
  DEF BeginClose, TypeOK, Troubled, Resting, Reading, Phases, Errors
<1>9. CASE FinishClose
  BY <1>9, ErrorTypes
  DEF FinishClose, ObserveTerminal, TypeOK, Troubled, Resting, Reading, Phases, Errors
<1>10. CASE CallAgain
  BY <1>10, ErrorTypes
  DEF CallAgain, vars, TypeOK, Troubled, Resting, Reading, Phases, Errors
<1>11. CASE Cancel
  BY <1>11, ErrorTypes
  DEF Cancel, TypeOK, Troubled, Resting, Reading, Phases, Errors
<1>12. CASE Write
  BY <1>12, ErrorTypes
  DEF Write, TypeOK, Troubled, Resting, Reading, Phases, Errors
<1>13. CASE UNCHANGED vars
  BY <1>13 DEF vars, TypeOK, Troubled, Resting, Reading, Phases, Errors
<1> QED
  BY <1>1, <1>2, <1>3, <1>4, <1>5, <1>6, <1>7, <1>8, <1>9, <1>10, <1>11, <1>12, <1>13 DEF Next, Read

\* What is unread, and what was given, are apart.
LEMMA RestStep ==
  ASSUME StreamInv, [Next]_vars
  PROVE  Rest'
<1> USE DEF StreamInv
<1>1. CASE Reject
  BY <1>1, RowsAssumption
  DEF Reject, TypeOK, Rest, Reading, Fresh, DrainError, Given, FailingRows, Phases
<1>2. CASE QueryFails
  BY <1>2, RowsAssumption
  DEF QueryFails, TypeOK, Rest, Reading, Fresh, DrainError, Given, FailingRows, Phases
<1>3. CASE QuerySucceeds
  BY <1>3, RowsAssumption
  DEF QuerySucceeds, TypeOK, Rest, Reading, Fresh, DrainError, Given, FailingRows, Phases
<1>4. CASE BeginNext
  BY <1>4, RowsAssumption
  DEF BeginNext, Readable, ContextEnded, EndReading, ObserveTerminal, TypeOK, Rest, Reading, Fresh, DrainError, Given, FailingRows, Phases
<1>5. CASE RowsNext
  BY <1>5, RowsAssumption
  DEF RowsNext, TypeOK, Rest, Reading, Fresh, DrainError, Given, FailingRows, Phases
<1>6. CASE FinishDrain
  <2>1. PICK closing \in {"none", "scan"} :
          exhausted' = (DrainError(closing) = "none")
    BY <1>6 DEF FinishDrain
  <2>2. exhausted' => pending = {}
    BY <1>6, <2>1 DEF FinishDrain, DrainError, Categorized, Rest, TypeOK
  <2> QED
    BY <1>6, <2>2 DEF FinishDrain, Rest, Given
<1>7. CASE FinishScan
  <2>1. CASE given' = Append(given, current) /\ pending' = Unread(current)
    <3>1. Given' = Given \cup {current}
      BY <1>7, <2>1, GivenAppend DEF FinishScan, Rest, TypeOK
    <3> QED
      BY <1>7, <2>1, <3>1 DEF FinishScan, Rest, Unread, Reading
  <2>2. CASE UNCHANGED <<given, pending>>
    BY <1>7, <2>2 DEF FinishScan, Rest, Given, Reading
  <2> QED
    BY <1>7, <2>1, <2>2 DEF FinishScan
<1>8. CASE BeginClose
  BY <1>8, RowsAssumption
  DEF BeginClose, TypeOK, Rest, Reading, Fresh, DrainError, Given, FailingRows, Phases
<1>9. CASE FinishClose
  BY <1>9, RowsAssumption
  DEF FinishClose, ObserveTerminal, TypeOK, Rest, Reading, Fresh, DrainError, Given, FailingRows, Phases
<1>10. CASE CallAgain
  BY <1>10, RowsAssumption
  DEF CallAgain, vars, TypeOK, Rest, Reading, Fresh, DrainError, Given, FailingRows, Phases
<1>11. CASE Cancel
  BY <1>11, RowsAssumption
  DEF Cancel, TypeOK, Rest, Reading, Fresh, DrainError, Given, FailingRows, Phases
<1>12. CASE Write
  BY <1>12, RowsAssumption
  DEF Write, TypeOK, Rest, Reading, Fresh, DrainError, Given, FailingRows, Phases
<1>13. CASE UNCHANGED vars
  BY <1>13 DEF vars, TypeOK, Rest, Reading, Fresh, DrainError, Given, FailingRows, Phases
<1> QED
  BY <1>1, <1>2, <1>3, <1>4, <1>5, <1>6, <1>7, <1>8, <1>9, <1>10, <1>11, <1>12, <1>13 DEF Next, Read

\* One event, telling the error the caller sees.
LEMMA TellingStep ==
  ASSUME StreamInv, [Next]_vars
  PROVE  Telling'
<1> USE DEF StreamInv
<1>1. CASE Reject
  BY <1>1, ErrorTypes, StatusType, OneEvent, RefusalType
  DEF Reject, TypeOK, Telling, Resting, Reading, Fresh, Phases, Errors, Troubled
<1>2. CASE QueryFails
  BY <1>2, ErrorTypes, StatusType, OneEvent, RefusalType
  DEF QueryFails, TypeOK, Telling, Resting, Reading, Fresh, Phases, Errors, Troubled
<1>3. CASE QuerySucceeds
  BY <1>3, ErrorTypes, StatusType, OneEvent, RefusalType
  DEF QuerySucceeds, TypeOK, Telling, Resting, Reading, Fresh, Phases, Errors, Troubled
<1>4. CASE BeginNext
  <2>1. CASE cancelled
    <3>1. ObserveTerminal("context") /\ phase = "idle" /\ phase' = "idle" /\ ~observed
      BY <1>4, <2>1 DEF BeginNext, Readable, ContextEnded, EndReading, Resting
    <3> QED
      BY <1>4, <3>1, TerminalEvent DEF BeginNext, Errors, Telling
  <2>2. CASE ~cancelled
    BY <1>4, <2>2 DEF BeginNext, Readable, ContextEnded, Telling
  <2> QED
    BY <2>1, <2>2
<1>5. CASE RowsNext
  BY <1>5, ErrorTypes, StatusType, OneEvent, RefusalType
  DEF RowsNext, TypeOK, Telling, Resting, Reading, Fresh, Phases, Errors, Troubled
<1>6. CASE FinishDrain
  BY <1>6, ErrorTypes, StatusType, OneEvent, RefusalType
  DEF FinishDrain, EndReading, ObserveTerminal, TypeOK, Telling, Resting, Reading, Fresh, Phases, Errors, Troubled
<1>7. CASE FinishScan
  BY <1>7, ErrorTypes, StatusType, OneEvent, RefusalType
  DEF FinishScan, EndReading, ObserveTerminal, Unread, TypeOK, Telling, Resting, Reading, Fresh, Phases, Errors, Troubled
<1>8. CASE BeginClose
  BY <1>8, ErrorTypes, StatusType, OneEvent, RefusalType
  DEF BeginClose, TypeOK, Telling, Resting, Reading, Fresh, Phases, Errors, Troubled
<1>9. CASE FinishClose
  <2>1. /\ phase = "closing" /\ phase' = "idle" /\ ObserveTerminal(CloseError)
        /\ observed => CloseError = err
    BY <1>9, ErrorTypes DEF FinishClose, Resting, CloseError, Troubled
  <2> QED
    BY <1>9, <2>1, TerminalEvent, ErrorTypes DEF FinishClose, Telling
<1>10. CASE CallAgain
  BY <1>10, ErrorTypes, StatusType, OneEvent, RefusalType
  DEF CallAgain, vars, TypeOK, Telling, Resting, Reading, Fresh, Phases, Errors, Troubled
<1>11. CASE Cancel
  BY <1>11, ErrorTypes, StatusType, OneEvent, RefusalType
  DEF Cancel, TypeOK, Telling, Resting, Reading, Fresh, Phases, Errors, Troubled
<1>12. CASE Write
  BY <1>12, ErrorTypes, StatusType, OneEvent, RefusalType
  DEF Write, TypeOK, Telling, Resting, Reading, Fresh, Phases, Errors, Troubled
<1>13. CASE UNCHANGED vars
  BY <1>13 DEF vars, TypeOK, Telling, Resting, Reading, Fresh, Phases, Errors, Troubled
<1> QED
  BY <1>1, <1>2, <1>3, <1>4, <1>5, <1>6, <1>7, <1>8, <1>9, <1>10, <1>11, <1>12, <1>13 DEF Next, Read

\* After a late key no other is read.
LEMMA PromptStep ==
  ASSUME StreamInv, [Next]_vars
  PROVE  Prompt'
<1> USE DEF StreamInv
<1>1. CASE Reject
  BY <1>1
  DEF Reject, TypeOK, Prompt, Fresh, Resting, Reading, Phases
<1>2. CASE QueryFails
  BY <1>2
  DEF QueryFails, TypeOK, Prompt, Fresh, Resting, Reading, Phases
<1>3. CASE QuerySucceeds
  BY <1>3
  DEF QuerySucceeds, TypeOK, Prompt, Fresh, Resting, Reading, Phases
<1>4. CASE BeginNext
  BY <1>4
  DEF BeginNext, Readable, ContextEnded, EndReading, ObserveTerminal, TypeOK, Prompt, Fresh, Resting, Reading, Phases
<1>5. CASE RowsNext
  BY <1>5
  DEF RowsNext, TypeOK, Prompt, Fresh, Resting, Reading, Phases
<1>6. CASE FinishDrain
  BY <1>6
  DEF FinishDrain, EndReading, ObserveTerminal, TypeOK, Prompt, Fresh, Resting, Reading, Phases
<1>7. CASE FinishScan
  BY <1>7
  DEF FinishScan, EndReading, ObserveTerminal, Unread, TypeOK, Prompt, Fresh, Resting, Reading, Phases
<1>8. CASE BeginClose
  BY <1>8
  DEF BeginClose, TypeOK, Prompt, Fresh, Resting, Reading, Phases
<1>9. CASE FinishClose
  BY <1>9
  DEF FinishClose, ObserveTerminal, TypeOK, Prompt, Fresh, Resting, Reading, Phases
<1>10. CASE CallAgain
  BY <1>10
  DEF CallAgain, vars, TypeOK, Prompt, Fresh, Resting, Reading, Phases
<1>11. CASE Cancel
  BY <1>11
  DEF Cancel, TypeOK, Prompt, Fresh, Resting, Reading, Phases
<1>12. CASE Write
  BY <1>12
  DEF Write, TypeOK, Prompt, Fresh, Resting, Reading, Phases
<1>13. CASE UNCHANGED vars
  BY <1>13 DEF vars, TypeOK, Prompt, Fresh, Resting, Reading, Phases
<1> QED
  BY <1>1, <1>2, <1>3, <1>4, <1>5, <1>6, <1>7, <1>8, <1>9, <1>10, <1>11, <1>12, <1>13 DEF Next, Read

-----------------------------------------------------------------------------
\* The initial states satisfy the invariant: nothing has happened yet.
LEMMA InitInv == ASSUME Init PROVE StreamInv
<1>1. counted \in [1..Len(Plans) -> Nat]
  <2>1. \A i \in 1..Len(Plans) : FailingRows(i, rows) \subseteq Rows
    BY DEF Init, FailingRows
  <2>2. \A i \in 1..Len(Plans) : Cardinality(FailingRows(i, rows)) \in Nat
    BY <2>1, RowsAssumption, FS_Subset, FS_CardinalityType
  <2> QED
    BY <2>2 DEF Init
<1>2. TypeOK
  <2>1. given \in Seq(Rows) /\ events \in Seq(Statuses)
    BY DEF Init
  <2>2. late \in Nat /\ current \in Nat
    BY DEF Init
  <2> QED
    BY <1>1, <2>1, <2>2, Zenon DEF Init, TypeOK, Phases, Errors
<1>3. Fresh /\ Reading /\ Resting /\ Troubled /\ Prompt
  BY DEF Init, Fresh, Reading, Resting, Troubled, Prompt
<1>4. Rest /\ Telling
  BY DEF Init, Rest, Telling, Given
<1> QED
  BY <1>2, <1>3, <1>4 DEF StreamInv

\* The invariant holds in every reachable state.
LEMMA Invariance == Spec => []StreamInv
<1>1. ASSUME StreamInv, [Next]_vars PROVE StreamInv'
  BY <1>1, TypeStep, FreshStep, ReadingStep, RestingStep, TroubledStep, RestStep,
     TellingStep, PromptStep DEF StreamInv
<1> QED
  BY InitInv, <1>1, PTL DEF Spec

\* Every variable holds a value of its type, whatever the report and the request.
THEOREM StreamTypes == Spec => []TypeOK
BY Invariance, PTL DEF StreamInv

\* However a stream ends, by exhaustion, cancellation, a driver error or Close,
\* its rows are released.
THEOREM RowsReleased == Spec => []ReleasedWhenEnded
<1>1. StreamInv => ReleasedWhenEnded
  BY DEF StreamInv, Resting, ReleasedWhenEnded, Ended
<1> QED
  BY Invariance, <1>1, PTL

\* An attempted retrieval emits one event, and it tells the caller's error.
THEOREM OneEventTold == Spec => []EventMatchesOutcome
<1>1. StreamInv => EventMatchesOutcome
  <2> SUFFICES ASSUME StreamInv PROVE EventMatchesOutcome
    OBVIOUS
  <2>1. CASE phase = "idle"
    BY <2>1 DEF StreamInv, Telling, Resting, EventMatchesOutcome, Ended
  <2>2. CASE phase = "refused"
    BY <2>2 DEF StreamInv, Telling, EventMatchesOutcome, Ended
  <2> QED
    BY <2>1, <2>2 DEF EventMatchesOutcome
<1> QED
  BY Invariance, <1>1, PTL

\* After a cancellation at most the key being read is still handed out.
THEOREM PromptCancellation == Spec => []CancellationIsPrompt
<1>1. StreamInv => CancellationIsPrompt
  BY DEF StreamInv, Prompt, CancellationIsPrompt
<1> QED
  BY Invariance, <1>1, PTL

-----------------------------------------------------------------------------
\* Given and unread keys are those the statement selected; each counts once.
LEMMA CountingStep ==
  ASSUME StreamInv, Counting, [Next]_vars
  PROVE  Counting'
<1> USE DEF StreamInv
<1>1. CASE QuerySucceeds
  <2>1. Given' = Given /\ Given = {} /\ rows' = rows /\ request' = request
    BY <1>1 DEF QuerySucceeds, Given, Fresh
  <2>2. \A i, j \in 1..Len(Plans) : Selects(request, i) /\ Selects(request, j) => i = j
    BY DEF Selects
  <2>3. \A i \in 1..Len(Plans) : Selects(request', i) => pending' = FailingRows(i, rows)
    BY <1>1, <2>1, <2>2 DEF QuerySucceeds
  <2> QED
    BY <1>1, <2>1, <2>3 DEF QuerySucceeds, Counting
<1>2. CASE FinishScan /\ given' = Append(given, current) /\ pending' = Unread(current)
  <2>1. current \in pending /\ current \notin Given /\ current \in Rows
    BY <1>2 DEF FinishScan, Rest, TypeOK
  <2>2. Given' = Given \cup {current} /\ Len(given') = Len(given) + 1
    BY <1>2, <2>1, GivenAppend
  <2>3. IsFiniteSet(Given)
    <3>1. Given \subseteq Rows
      BY DEF TypeOK, Given
    <3> QED
      BY <3>1, RowsAssumption, FS_Subset
  <2>4. Cardinality(Given') = Cardinality(Given) + 1
    BY <2>1, <2>2, <2>3, FS_AddElement
  <2>5. pending' \cup Given' = pending \cup Given
    BY <1>2, <2>1, <2>2 DEF Unread
  <2>6. UNCHANGED <<counted, changed, rows, request>> /\ phase \notin {"report", "refused"}
    BY <1>2 DEF FinishScan
  <2> QED
    BY <2>2, <2>4, <2>5, <2>6 DEF Counting
<1>3. CASE UNCHANGED <<given, pending, counted, changed, rows, request>>
           /\ (phase' \in {"report", "refused"} \/ phase \notin {"report", "refused"})
  <2>1. Given' = Given
    BY <1>3 DEF Given
  <2> QED
    BY <1>3, <2>1 DEF Counting
<1>4. CASE Write
  <2>1. Given' = Given
    BY <1>4 DEF Write, Given
  <2> QED
    BY <1>4, <2>1 DEF Write, Counting
<1>5. \/ QuerySucceeds \/ Write
      \/ FinishScan /\ given' = Append(given, current) /\ pending' = Unread(current)
      \/ /\ UNCHANGED <<given, pending, counted, changed, rows, request>>
         /\ phase' \in {"report", "refused"} \/ phase \notin {"report", "refused"}
  <2>1. CASE Reject \/ QueryFails \/ QuerySucceeds \/ Write \/ Cancel \/ CallAgain
    BY <2>1 DEF Reject, QueryFails, Cancel, CallAgain, vars
  <2>2. CASE BeginNext \/ RowsNext \/ FinishDrain \/ FinishScan
    BY <2>2 DEF BeginNext, RowsNext, FinishDrain, FinishScan, Readable
  <2>3. CASE BeginClose \/ FinishClose
    BY <2>3 DEF BeginClose, FinishClose
  <2>4. CASE UNCHANGED vars
    BY <2>4 DEF vars
  <2> QED
    BY <2>1, <2>2, <2>3, <2>4 DEF Next, Read
<1> QED
  BY <1>1, <1>2, <1>3, <1>4, <1>5

\* A stream read to its end without an error gave as many keys as the report
\* counted failures, if the table did not change in between.
THEOREM DrainCounts == Spec => []DrainMatchesReport
<1>1. Init => Counting
  <2> SUFFICES ASSUME Init PROVE Counting
    OBVIOUS
  <2>1. Given = {} /\ Len(given) = 0
    BY DEF Init, Given
  <2> QED
    BY <2>1, FS_EmptySet DEF Init, Counting
<1>2. StreamInv /\ Counting => DrainMatchesReport
  <2> SUFFICES ASSUME StreamInv, Counting, exhausted, err = "none", ~changed,
                      NEW i \in 1..Len(Plans), Selects(request, i)
               PROVE  Len(given) = counted[i]
    BY DEF DrainMatchesReport
  <2>1. pending = {} /\ phase \notin {"report", "refused"}
    BY DEF StreamInv, Rest, Fresh
  <2>2. Given = FailingRows(i, rows)
    BY <2>1 DEF Counting
  <2> QED
    BY <2>2 DEF Counting
<1> QED
  BY Invariance, <1>1, <1>2, CountingStep, PTL DEF Spec

-----------------------------------------------------------------------------
\* A terminal transition ends the abstract stream.
LEMMA SourceKept ==
  ASSUME UNCHANGED <<given, pending>>
  PROVE  UNCHANGED <<pending \cup Given, given>>
BY DEF Given

\* Each step of the iterator is a step of the cursor, or changes nothing in it.
LEMMA CursorStep ==
  ASSUME StreamInv, [Next]_vars
  PROVE  [Cursor!CursorNext]_<<pending \cup Given, given, ~cancelled, CursorOutcome>>
<1> USE DEF StreamInv
<1>1. CASE Reject \/ QueryFails
  <2>1. UNCHANGED <<pending \cup Given, given, ~cancelled>>
    BY <1>1, SourceKept DEF Reject, QueryFails
  <2>2. CursorOutcome = "idle" /\ CursorOutcome' = "failed"
    BY <1>1 DEF Reject, QueryFails, CursorOutcome
  <2> QED
    BY <2>1, <2>2 DEF Cursor!CursorNext, Cursor!Refuse
<1>2. CASE QuerySucceeds
  <2>1. Given' = Given /\ Given = {} /\ UNCHANGED <<given, ~cancelled>>
    BY <1>2 DEF QuerySucceeds, Given, Fresh
  <2>2. pending' \subseteq Rows
    BY <1>2 DEF QuerySucceeds, FailingRows, TypeOK
  <2>3. CursorOutcome = "idle" /\ CursorOutcome' = "open"
    BY <1>2 DEF QuerySucceeds, CursorOutcome, Fresh
  <2> QED
    BY <2>1, <2>2, <2>3 DEF Cursor!CursorNext, Cursor!Begin
<1>3. CASE FinishScan /\ given' = Append(given, current) /\ pending' = Unread(current)
  <2>1. /\ current \in pending /\ current \notin Given /\ current \in Rows
        /\ \A other \in pending : current <= other
    BY <1>3 DEF FinishScan, Rest, TypeOK
  <2>2. Given' = Given \cup {current}
    BY <1>3, <2>1, GivenAppend
  <2>3. pending' \cup Given' = pending \cup Given
    BY <1>3, <2>1, <2>2 DEF Unread
  <2>4. (pending \cup Given) \ Given = pending
    BY DEF Rest
  <2>5. CursorOutcome = "open" /\ CursorOutcome' = "open" /\ UNCHANGED ~cancelled
    BY <1>3 DEF FinishScan, CursorOutcome, Reading, Unread
  <2>6. Cursor!Given = Given
    BY DEF Cursor!Given, Given
  <2> QED
    BY <1>3, <2>1, <2>3, <2>4, <2>5, <2>6 DEF Cursor!CursorNext, Cursor!Give
<1>4. CASE /\ UNCHANGED <<given, pending, cancelled>>
           /\ CursorOutcome = "open"
           /\ \/ CursorOutcome' = "failed"
              \/ CursorOutcome' = "complete" /\ pending = {}
              \/ CursorOutcome' = "abandoned" /\ ~cancelled
  <2>1. UNCHANGED <<pending \cup Given, given, ~cancelled>>
    BY <1>4, SourceKept
  <2>2. Cursor!Given = Given
    BY DEF Cursor!Given, Given
  <2> QED
    BY <1>4, <2>1, <2>2 DEF Cursor!CursorNext, Cursor!End
<1>5. CASE Cancel
  <2>1. UNCHANGED <<pending \cup Given, given, CursorOutcome>>
    BY <1>5, SourceKept DEF Cancel, CursorOutcome
  <2>2. ~cancelled = TRUE /\ (~cancelled)' = FALSE
    BY <1>5 DEF Cancel, TypeOK
  <2> QED
    BY <2>1, <2>2 DEF Cursor!CursorNext, Cursor!Expire
<1>6. CASE UNCHANGED <<given, pending, cancelled, CursorOutcome>>
  <2>1. UNCHANGED <<pending \cup Given, given, ~cancelled>>
    BY <1>6, SourceKept
  <2> QED
    BY <1>6, <2>1
<1>7. CASE BeginNext
  BY <1>4, <1>6, <1>7
  DEF BeginNext, Readable, ContextEnded, EndReading, ObserveTerminal, CursorOutcome,
      Resting, Telling
<1>8. CASE FinishDrain
  <2>1. PICK closing \in {"none", "scan"} :
          /\ ObserveTerminal(DrainError(closing))
          /\ exhausted' = (DrainError(closing) = "none")
    BY <1>8 DEF FinishDrain, EndReading
  <2>2. DrainError(closing) = "none" => pending = {}
    BY <1>8 DEF FinishDrain, DrainError, Categorized, Rest, TypeOK
  <2>3. CursorOutcome = "open" /\ UNCHANGED <<given, pending, cancelled>> /\ phase' = "idle"
    BY <1>8 DEF FinishDrain, CursorOutcome, Reading
  <2>4. DrainError(closing) \in Errors /\ phase # "refused" /\ ~observed
    BY <1>8, ErrorTypes DEF FinishDrain, Errors, Reading
  <2>5. /\ DrainError(closing) # "none" => err' # "none"
        /\ err' = "none" => exhausted'
    BY <2>1, <2>4, TerminalEvent
  <2>6. CursorOutcome' = IF err' # "none" THEN "failed" ELSE "complete"
    BY <2>3, <2>5 DEF CursorOutcome
  <2>7. err' = "none" => pending = {}
    BY <2>2, <2>5
  <2> QED
    BY <1>4, <2>3, <2>6, <2>7
<1>9. CASE FinishScan /\ EndReading(Categorized("scan")) /\ UNCHANGED <<given, pending>>
  <2>1. CursorOutcome = "open" /\ UNCHANGED <<given, pending, cancelled>> /\ phase' = "idle"
    BY <1>9 DEF FinishScan, CursorOutcome, Reading
  <2>2. Categorized("scan") \in Errors \ {"none"} /\ phase # "refused" /\ ~observed
    BY <1>9, ErrorTypes DEF FinishScan, Errors, Reading
  <2>3. err' # "none"
    BY <1>9, <2>2, TerminalEvent DEF EndReading
  <2> QED
    BY <1>4, <2>1, <2>3 DEF CursorOutcome
<1>10. CASE FinishClose
  <2>1. /\ phase = "closing" /\ phase' = "idle" /\ ObserveTerminal(CloseError) /\ closed
        /\ closed' /\ UNCHANGED <<given, pending, cancelled, exhausted>>
        /\ observed => CloseError = err
    BY <1>10, ErrorTypes DEF FinishClose, Resting, CloseError, Troubled
  <2>2. /\ CloseError \in Errors
        /\ err # "none" => CloseError = err
        /\ CloseError # "none" => err' = CloseError
        /\ observed => err' = CloseError
        /\ observed <=> exhausted \/ err # "none"
    BY <2>1, ErrorTypes, TerminalEvent DEF Resting
  <2>3. CASE exhausted \/ err # "none"
    BY <1>6, <2>1, <2>2, <2>3 DEF CursorOutcome
  <2>4. CASE ~exhausted /\ err = "none"
    <3>1. CursorOutcome = "open"
      BY <2>1, <2>4 DEF CursorOutcome
    <3>2. CursorOutcome' = IF err' # "none" THEN "failed" ELSE "abandoned"
      BY <2>1, <2>4 DEF CursorOutcome
    <3>3. err' = "none" => ~cancelled
      BY <2>2, <2>4 DEF CloseError, Categorized
    <3> QED
      BY <1>4, <2>1, <3>1, <3>2, <3>3
  <2> QED
    BY <2>3, <2>4
<1>11. CASE RowsNext \/ BeginClose \/ Write \/ CallAgain \/ UNCHANGED vars
  BY <1>6, <1>11 DEF RowsNext, BeginClose, Write, CallAgain, vars, CursorOutcome, Resting
<1>12. CASE FinishScan
  BY <1>3, <1>9, <1>12 DEF FinishScan
<1> QED
  BY <1>1, <1>2, <1>5, <1>7, <1>8, <1>10, <1>11, <1>12 DEF Next, Read

\* The iterator implements the cursor: keys ascending, each once, of one
\* statement, and an outcome that is final.
THEOREM CursorImplemented == Spec => RefinesCursor
<1>1. Init => Cursor!CursorInit
  BY DEF Init, Cursor!CursorInit, Given, CursorOutcome
<1>2. StreamInv /\ [Next]_vars =>
        [Cursor!CursorNext]_<<pending \cup Given, given, ~cancelled, CursorOutcome>>
  BY CursorStep
<1> QED
  BY Invariance, <1>1, <1>2, PTL DEF Spec, RefinesCursor, Cursor!CursorSpec, Cursor!cursorVars
=============================================================================
