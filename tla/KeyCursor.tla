----------------------------- MODULE KeyCursor -----------------------------
(***************************************************************************)
(* What the caller of FailingKeys may rely on: one statement fixes the     *)
(* keys, they are given in ascending order and each once, and the stream   *)
(* ends once and for good.  It ends complete only when every key was       *)
(* given, and abandoned without an error only while the context lives.     *)
(***************************************************************************)
EXTENDS Naturals, Sequences, FiniteSets

CONSTANT Keys

VARIABLES
  source,   \* the failing keys the statement selected
  given,    \* the keys given so far, in order
  live,     \* the context is not cancelled
  outcome   \* "idle", "open", "complete", "abandoned" or "failed"

cursorVars == <<source, given, live, outcome>>

Given == {given[i] : i \in DOMAIN given}

CursorInit ==
  /\ source = {}
  /\ given = <<>>
  /\ live \in BOOLEAN
  /\ outcome = "idle"

Begin ==
  /\ outcome = "idle"
  /\ outcome' = "open"
  /\ source' \in SUBSET Keys
  /\ UNCHANGED <<given, live>>

Refuse ==
  /\ outcome = "idle"
  /\ outcome' = "failed"
  /\ UNCHANGED <<source, given, live>>

Give ==
  /\ outcome = "open"
  /\ \E k \in source \ Given :
       /\ \A other \in source \ Given : k <= other
       /\ given' = Append(given, k)
  /\ UNCHANGED <<source, live, outcome>>

End ==
  /\ outcome = "open"
  /\ outcome' \in {"complete", "abandoned", "failed"}
  /\ outcome' = "complete" => Given = source
  /\ outcome' = "abandoned" => live
  /\ UNCHANGED <<source, given, live>>

Expire == live /\ live' = FALSE /\ UNCHANGED <<source, given, outcome>>

CursorNext == Begin \/ Refuse \/ Give \/ End \/ Expire

CursorSpec == CursorInit /\ [][CursorNext]_cursorVars
=============================================================================
