---------------------------- MODULE BankRegistry ----------------------------
(***************************************************************************)
(* What the resident-bank layer of the kernel module promises its callers, *)
(* with no lock, list, allocation or counter in sight: a registry of       *)
(* labels on which every call takes effect at one instant between its      *)
(* invocation and its return, with the result that instant justifies.      *)
(* BankStore implements it (see BankStore!Registry).                       *)
(***************************************************************************)
CONSTANTS
  Threads,   \* callers: control ioctls, mounts, kldunload
  Labels,    \* bank labels
  NULL       \* "no label"

VARIABLES
  entry,     \* entry[l]: is a bank registered under l, and is it claimed
  phase,     \* "boot" while loader banks are adopted, "live", then "closed"
  call,      \* call[t]: the command t has invoked and not returned from
  result     \* result[t]: what the call is going to return, once it is known

vars == <<entry, phase, call, result>>

Commands == {"ADD", "LIST", "DISCARD", "CLAIM", "UNLOAD"}
Calls == [cmd : {"ADD", "DISCARD", "CLAIM"}, label : Labels]
           \cup [cmd : {"LIST", "UNLOAD"}, label : {NULL}]
NoCall == [cmd |-> "none", label |-> NULL]
Results == {"none", "ok", "released", "EEXIST", "ENOENT", "EBUSY", "ENXIO",
            "EAGAIN", "EINTR", "EINVAL"}

Init ==
  /\ entry = [l \in Labels |-> "absent"]
  /\ phase = "boot"
  /\ call = [t \in Threads |-> NoCall]
  /\ result = [t \in Threads |-> "none"]

Pending(t, cmd) == call[t].cmd = cmd /\ result[t] = "none"
Others(t) == \E u \in Threads \ {t} : call[u] # NoCall

\* t's call ends as r, with no effect on the registry
Answer(t, r) ==
  /\ result' = [result EXCEPT ![t] = r]
  /\ UNCHANGED <<entry, phase, call>>

\* t's call moves its label from one entry state to another and ends as r
Move(t, from, to, r) ==
  /\ entry[call[t].label] = from
  /\ entry' = [entry EXCEPT ![call[t].label] = to]
  /\ result' = [result EXCEPT ![t] = r]
  /\ UNCHANGED <<phase, call>>

Adopt(l) ==
  /\ phase = "boot"
  /\ entry[l] = "absent"
  /\ entry' = [entry EXCEPT ![l] = "available"]
  /\ UNCHANGED <<phase, call, result>>

Open ==
  /\ phase = "boot"
  /\ phase' = "live"
  /\ UNCHANGED <<entry, call, result>>

Invoke(t, c) ==
  /\ phase # "boot"
  /\ call[t] = NoCall
  /\ call' = [call EXCEPT ![t] = c]
  /\ UNCHANGED <<entry, phase, result>>

\* At most one of the ADDs of a label between two DISCARDs of it is "ok".
Add(t) ==
  /\ Pending(t, "ADD")
  /\ \/ phase = "live" /\ Move(t, "absent", "available", "ok")
     \/ entry[call[t].label] # "absent" /\ Answer(t, "EEXIST")
     \/ phase = "closed" /\ Answer(t, "ENXIO")
     \/ Answer(t, "EINVAL")

List(t) ==
  /\ Pending(t, "LIST")
  /\ \E r \in {"ok", "ENOENT", "EAGAIN", "ENXIO"} :
       /\ r = "ENXIO" => phase = "closed"
       /\ r = "ok" => \E l \in Labels : entry[l] # "absent"
       /\ Answer(t, r)

\* A claimed bank is never discarded.
Discard(t) ==
  /\ Pending(t, "DISCARD")
  /\ \/ Move(t, "available", "absent", "ok")
     \/ entry[call[t].label] = "claimed" /\ Answer(t, "EBUSY")
     \/ entry[call[t].label] = "absent" /\ Answer(t, "ENOENT")
     \/ phase = "closed" /\ Answer(t, "ENXIO")
     \/ Answer(t, "EINTR")

\* A claim has one holder, from its "ok" to its release.
Claim(t) ==
  /\ Pending(t, "CLAIM")
  /\ \/ phase = "live" /\ Move(t, "available", "claimed", "ok")
     \/ entry[call[t].label] = "claimed" /\ Answer(t, "EBUSY")
     \/ entry[call[t].label] = "absent" /\ Answer(t, "ENOENT")
     \/ phase = "closed" /\ Answer(t, "ENXIO")

Release(t) ==
  /\ call[t].cmd = "CLAIM" /\ result[t] = "ok"
  /\ Move(t, "claimed", "available", "released")

\* The module leaves only when nothing is registered; it may refuse while
\* something is registered or any other call is in progress.
Unload(t) ==
  /\ Pending(t, "UNLOAD")
  /\ \/ /\ phase = "live"
        /\ \A l \in Labels : entry[l] = "absent"
        /\ phase' = "closed"
        /\ result' = [result EXCEPT ![t] = "ok"]
        /\ UNCHANGED <<entry, call>>
     \/ /\ Others(t) \/ \E l \in Labels : entry[l] # "absent"
        /\ Answer(t, "EBUSY")
     \/ phase = "closed" /\ Answer(t, "ENOENT")

Return(t) ==
  /\ result[t] # "none"
  /\ ~(call[t].cmd = "CLAIM" /\ result[t] = "ok")
  /\ call' = [call EXCEPT ![t] = NoCall]
  /\ result' = [result EXCEPT ![t] = "none"]
  /\ UNCHANGED <<entry, phase>>

Next ==
  \/ \E l \in Labels : Adopt(l)
  \/ Open
  \/ \E t \in Threads :
       \/ \E c \in Calls : Invoke(t, c)
       \/ Add(t) \/ List(t) \/ Discard(t) \/ Claim(t) \/ Release(t)
       \/ Unload(t) \/ Return(t)

Spec == Init /\ [][Next]_vars
=============================================================================
