---------------------------- MODULE RunContract ----------------------------
(***************************************************************************)
(* What a caller of Suite.ValidateTable may rely on, whatever statements   *)
(* it issues and whatever other sessions do: slots are published one by    *)
(* one in segment-major declaration order, an errored slot is published    *)
(* only under ContinueOnError, a report is returned only when every slot   *)
(* is there, and an aborted call leaves nothing behind.  A call that       *)
(* records its errors aborts only because an observer was attached.        *)
(***************************************************************************)
EXTENDS Naturals, Sequences

CONSTANTS NumSegments, Calls

VARIABLES
  call,       \* [slots, records, observed]
  published,  \* the slots published so far
  outcome     \* "running", "report" or "error"

contractVars == <<call, published, outcome>>

Verdicts == {"pass", "fail", "error"}

\* p is the slot after the last one published.
Follows(p) ==
  IF published = <<>>
    THEN p.seg = 1 /\ p.slot = 1
    ELSE LET last == published[Len(published)]
         IN \/ p.seg = last.seg /\ p.slot = last.slot + 1
            \/ p.seg = last.seg + 1 /\ p.slot = 1 /\ last.slot = call.slots

Complete ==
  \/ call.slots = 0
  \/ /\ published # <<>>
     /\ published[Len(published)].seg = NumSegments
     /\ published[Len(published)].slot = call.slots

ContractInit ==
  /\ call \in Calls
  /\ published = <<>>
  /\ outcome = "running"

PublishSlot ==
  /\ outcome = "running"
  /\ \E s \in 1..NumSegments, i \in 1..call.slots, v \in Verdicts :
       /\ Follows([seg |-> s, slot |-> i])
       /\ v = "error" => call.records
       /\ published' = Append(published, [seg |-> s, slot |-> i, verdict |-> v])
  /\ UNCHANGED <<call, outcome>>

ReturnReport ==
  /\ outcome = "running"
  /\ Complete
  /\ outcome' = "report"
  /\ UNCHANGED <<call, published>>

ReturnError ==
  /\ outcome = "running"
  /\ call.records => call.observed
  /\ outcome' = "error"
  /\ published' = <<>>
  /\ UNCHANGED call

ContractNext == PublishSlot \/ ReturnReport \/ ReturnError

ContractSpec == ContractInit /\ [][ContractNext]_contractVars
=============================================================================
