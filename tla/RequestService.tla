--------------------------- MODULE RequestService ---------------------------
(***************************************************************************)
(* What O2Client promises to the jobs and the admin server that use it,    *)
(* said without its threads, queues and sockets.  A request is handed over *)
(* once, is perhaps connected, is answered exactly once, and only then     *)
(* does its owner take the answer and dispose of the session object.  An   *)
(* answer without error is given to connected requests only.               *)
(***************************************************************************)
CONSTANT Request

VARIABLES status, error

vars == <<status, error>>

Status == {"idle", "waiting", "connected", "done"}

TypeOK ==
    /\ status \in [Request -> Status]
    /\ error \in [Request -> BOOLEAN]

Init ==
    /\ status = [r \in Request |-> "idle"]
    /\ error = [r \in Request |-> FALSE]

(* The service takes the request. *)
Submit(r) ==
    /\ status[r] = "idle"
    /\ status' = [status EXCEPT ![r] = "waiting"]
    /\ error' = [error EXCEPT ![r] = FALSE]

(* The service refuses the request: it is answered at once, with an error. *)
Refuse(r) ==
    /\ status[r] = "idle"
    /\ status' = [status EXCEPT ![r] = "done"]
    /\ error' = [error EXCEPT ![r] = TRUE]

Connect(r) ==
    /\ status[r] = "waiting"
    /\ status' = [status EXCEPT ![r] = "connected"]
    /\ UNCHANGED error

(* An error is noticed on the connection before the request is answered. *)
Break(r) ==
    /\ status[r] = "connected"
    /\ error' = [error EXCEPT ![r] = TRUE]
    /\ UNCHANGED status

(* Requests that never got a connection are answered with an error. *)
Fail(R) ==
    /\ \A r \in R : status[r] = "waiting"
    /\ status' = [r \in Request |-> IF r \in R THEN "done" ELSE status[r]]
    /\ error' = [r \in Request |-> IF r \in R THEN TRUE ELSE error[r]]

(* Connected requests are answered with what was received. *)
Answer(R) ==
    /\ \A r \in R : status[r] = "connected"
    /\ status' = [r \in Request |-> IF r \in R THEN "done" ELSE status[r]]
    /\ UNCHANGED error

(* The owner wakes up and releases the session. *)
Collect(r) ==
    /\ status[r] = "done"
    /\ status' = [status EXCEPT ![r] = "idle"]
    /\ error' = [error EXCEPT ![r] = FALSE]

Next ==
    \/ \E r \in Request :
          Submit(r) \/ Refuse(r) \/ Connect(r) \/ Break(r) \/ Collect(r)
    \/ \E R \in SUBSET Request : Fail(R) \/ Answer(R)

SafeSpec == Init /\ [][Next]_vars

(* Every request that was handed over is answered. *)
Answered == \A r \in Request : status[r] = "waiting" ~> status[r] \in {"done", "idle"}
=============================================================================
