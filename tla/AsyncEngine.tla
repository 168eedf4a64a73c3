----------------------------- MODULE AsyncEngine ------------------------------
(***************************************************************************)
(* What a completion-based event loop promises its client: a request that  *)
(* is accepted is called back at most once and only while the loop is      *)
(* open; whatever is still pending when the loop is closed is discarded    *)
(* without a call; a request that is refused is never called back; and a   *)
(* request never comes back from "delivered" or "discarded".               *)
(***************************************************************************)
CONSTANT Ids  (* one per submission *)

VARIABLES
  phase,   (* "new", "open" or "closed" *)
  status   (* of each submission *)

vars == <<phase, status>>

Statuses == {"unused", "pending", "delivered", "discarded"}

TypeOK ==
  /\ phase \in {"new", "open", "closed"}
  /\ status \in [Ids -> Statuses]

Init ==
  /\ phase = "new"
  /\ status = [id \in Ids |-> "unused"]

Open ==
  /\ phase = "new"
  /\ phase' \in {"open", "closed"}
  /\ UNCHANGED status

Accept(id) ==
  /\ phase = "open" /\ status[id] = "unused"
  /\ status' = [status EXCEPT ![id] = "pending"]
  /\ UNCHANGED phase

Refuse(id) ==
  /\ phase = "open" /\ status[id] = "unused"
  /\ status' = [status EXCEPT ![id] = "discarded"]
  /\ UNCHANGED phase

Deliver(id) ==
  /\ phase = "open" /\ status[id] = "pending"
  /\ status' = [status EXCEPT ![id] = "delivered"]
  /\ UNCHANGED phase

Close ==
  /\ phase = "open"
  /\ phase' = "closed"
  /\ status' = [id \in Ids |->
                  IF status[id] = "pending" THEN "discarded" ELSE status[id]]

Next ==
  \/ Open
  \/ \E id \in Ids : Accept(id) \/ Refuse(id) \/ Deliver(id)
  \/ Close

Spec == Init /\ [][Next]_vars
=============================================================================
