---------------------------- MODULE BankListing ----------------------------
(***************************************************************************)
(* ko/femtoctl.c `list': a user process that reads the bank list one row   *)
(* per LIST ioctl while other threads of BankStore add, discard, claim and *)
(* release banks, and that starts over when the kernel says that the list  *)
(* changed since its first row.                                            *)
(***************************************************************************)
EXTENDS BankStore

CONSTANTS
  Client,       \* the thread of femtoctl
  MaxAttempts   \* restarts after which femtoctl gives up (8 in the code)

ASSUME ClientAssumption == Client \in Threads /\ MaxAttempts \in Nat \ {0}

VARIABLES
  rows,         \* rows received since the last restart
  index, seen,  \* r.index and r.generation of the next request
  attempts,     \* EAGAIN answers so far
  outcome       \* "listing", then "printed" or "failed"

client == <<rows, index, seen, attempts, outcome>>
lvars == <<vars, client>>

\* what one LIST answer copies out of a bank
Row(b) == bank[b]
View == [i \in DOMAIN list |-> Row(list[i])]

LInit ==
  /\ Init
  /\ rows = <<>> /\ index = 0 /\ seen = 0 /\ attempts = 0
  /\ outcome = "listing"

\* the next ioctl of the loop; one that finds the device gone fails at once
Request ==
  /\ outcome = "listing"
  /\ pc[Client] = "idle"
  /\ \/ /\ phase = "live"
        /\ Issue(Client, [cmd |-> "LIST", label |-> NULL], "enter")
        /\ UNCHANGED <<calls, client>>
     \/ /\ phase \in {"draining", "gone"}
        /\ outcome' = "failed"
        /\ UNCHANGED <<vars, rows, index, seen, attempts>>

\* Fault: the same row is asked for again, without end.
RestartInPlace == UNCHANGED client

\* EAGAIN: forget every row and start over, or give up
Restart ==
  /\ attempts' = attempts + 1
  /\ IF attempts' < MaxAttempts
     THEN rows' = <<>> /\ index' = 0 /\ UNCHANGED outcome
     ELSE outcome' = "failed" /\ UNCHANGED <<rows, index>>
  /\ UNCHANGED seen

\* The answer, and what femtoctl does with it: only femtoctl reads its rows,
\* so that it handles the answer when it is copied out is no restriction.
Answered ==
  /\ ListRow(Client, index, seen)
  /\ \/ /\ result'[Client] = "ok"
        /\ rows' = Append(rows, Row(list[index + 1]))
        /\ index' = index + 1
        /\ seen' = generation
        /\ UNCHANGED <<attempts, outcome>>
     \/ result'[Client] = "EAGAIN" /\ Restart
     \/ /\ result'[Client] = "ENOENT"
        /\ outcome' = "printed"
        /\ UNCHANGED <<rows, index, seen, attempts>>

Refused ==
  /\ EnterStopping(Client)
  /\ outcome' = "failed"
  /\ UNCHANGED <<rows, index, seen, attempts>>

ClientStep ==
  \/ Request \/ Answered \/ Refused
  \/ (Acquire(Client) \/ Leave(Client) \/ Return(Client)) /\ UNCHANGED client

LNext ==
  \/ ClientStep
  \/ /\ Boot \/ \E t \in Threads \ {Client} : UserStep(t) \/ Step(t)
     /\ UNCHANGED client

LSpec == LInit /\ [][LNext]_lvars /\ WF_lvars(ClientStep)
           /\ \A t \in Threads \ {Client} : WF_lvars(Step(t) /\ UNCHANGED client)

\* Type invariant of femtoctl's variables.
LTypeOK ==
  /\ rows \in Seq(BankRecords)
  /\ index = Len(rows)
  /\ seen \in 0..generation
  /\ attempts \in 0..MaxAttempts
  /\ outcome \in {"listing", "printed", "failed"}

\* What femtoctl prints is the bank list of one instant: every row, in order,
\* none missing, none from before and none from after a change.
CoherentListing ==
  /\ []LTypeOK
  /\ [][outcome = "listing" /\ outcome' = "printed" => rows = View]_lvars

\* femtoctl ends, with a coherent listing or an explicit failure, although
\* every change of the list makes it start over.
ListingEnds == phase = "live" ~> outcome # "listing"
=============================================================================
