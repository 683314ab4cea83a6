----------------------------- MODULE BlockDevice -----------------------------
(***************************************************************************)
(* What a ublk device promises the block layer, whatever happens inside    *)
(* the server: every request the driver accepts is shown to the            *)
(* application's IOHandler exactly once, and is then ended exactly once,   *)
(* with success if and only if the handler succeeded.                      *)
(*                                                                         *)
(* UblkQueue implements this specification when no handler fails.          *)
(***************************************************************************)
EXTENDS Naturals

CONSTANT Reqs             \* the requests the block layer may issue

VARIABLE status           \* how far each request has come

Status == {"absent", "queued", "ok", "failed", "ended_ok", "ended_error"}

TypeOK == status \in [Reqs -> Status]

Init == status = [r \in Reqs |-> "absent"]

Move(r, from, to) == /\ status[r] = from
                     /\ status' = [status EXCEPT ![r] = to]

\* The driver accepts a request from the block layer.
Submit(r) == Move(r, "absent", "queued")

\* The IOHandler runs and returns an error or none.
Handle(r) == Move(r, "queued", "ok") \/ Move(r, "queued", "failed")

\* The driver ends the request with the handler's outcome.
Complete(r) == Move(r, "ok", "ended_ok") \/ Move(r, "failed", "ended_error")

Next == \E r \in Reqs : Submit(r) \/ Handle(r) \/ Complete(r)

Spec == Init /\ [][Next]_status

\* Accepted requests are not forgotten: each is handled, and ended.
FairSpec == Spec /\ \A r \in Reqs : WF_status(Handle(r) \/ Complete(r))
==============================================================================
