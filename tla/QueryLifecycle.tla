--------------------------- MODULE QueryLifecycle ---------------------------
(***************************************************************************)
(* What SQL Lab's server promises to the browser about one query, leaving  *)
(* out processes, transactions and time limits: a committed row of table   *)
(* `query`, and at most one HTTP reply to the request that created it.     *)
(*                                                                         *)
(* The row is created RUNNING and settles at most once, as SUCCESS or      *)
(* FAILED.  A reply carrying results is only sent for a row that is        *)
(* already a committed SUCCESS; an error reply promises nothing about the  *)
(* row, which may still be RUNNING, and may even settle afterwards.        *)
(* `changedOn` is the stamp the browser's polling filters on: a committed  *)
(* write may carry a stamp older than the moment it becomes visible, but   *)
(* never older than the stamp it replaces.                                 *)
(***************************************************************************)
EXTENDS Naturals

CONSTANTS
    Query,      \* the queries, each named by the client_id of its request
    MaxClock    \* bound on the clock, for model checking

VARIABLES
    status,     \* status[q]: the committed status, "absent" before the insert
    changedOn,  \* changedOn[q]: the committed stamp of the last write
    reply,      \* reply[q]: "none", "results" or "error"
    clock       \* the time, in the unit of changed_on

vars == <<status, changedOn, reply, clock>>

Settled == {"success", "failed"}

Init ==
    /\ status = [q \in Query |-> "absent"]
    /\ changedOn = [q \in Query |-> 0]
    /\ reply = [q \in Query |-> "none"]
    /\ clock = 0

Open(q) ==
    /\ status[q] = "absent"
    /\ status' = [status EXCEPT ![q] = "running"]
    /\ changedOn' = [changedOn EXCEPT ![q] = clock]
    /\ UNCHANGED <<reply, clock>>

(* The stamp of a write is taken when it is flushed, before it commits.    *)
Stamp(q) ==
    \E t \in changedOn[q] .. clock : changedOn' = [changedOn EXCEPT ![q] = t]

Touch(q) ==
    /\ status[q] = "running"
    /\ Stamp(q)
    /\ UNCHANGED <<status, reply, clock>>

Settle(q) ==
    /\ status[q] = "running"
    /\ \E s \in Settled : status' = [status EXCEPT ![q] = s]
    /\ Stamp(q)
    /\ UNCHANGED <<reply, clock>>

ReplyResults(q) ==
    /\ reply[q] = "none"
    /\ status[q] = "success"
    /\ reply' = [reply EXCEPT ![q] = "results"]
    /\ UNCHANGED <<status, changedOn, clock>>

ReplyError(q) ==
    /\ reply[q] = "none"
    /\ status[q] # "absent"
    /\ reply' = [reply EXCEPT ![q] = "error"]
    /\ UNCHANGED <<status, changedOn, clock>>

Tick ==
    /\ clock < MaxClock
    /\ clock' = clock + 1
    /\ UNCHANGED <<status, changedOn, reply>>

Next ==
    \/ Tick
    \/ \E q \in Query :
          Open(q) \/ Touch(q) \/ Settle(q) \/ ReplyResults(q) \/ ReplyError(q)

Spec == Init /\ [][Next]_vars
=============================================================================
