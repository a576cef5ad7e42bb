----------------------------- MODULE MCRequests -----------------------------
(* An instance of Requests for TLC: one request may be a batch of either   *)
(* handler file or one of three kinds of single jobs, the other one is of  *)
(* the remaining kind.                                                     *)
EXTENDS Requests

CONSTANTS r1, r2

Single(call, side) == [call |-> call, side |-> side]

TwoRequests ==
    [r \in {r1, r2} |->
        IF r = r1
        THEN [call : {"batch"}, side : {"main", "api"}]
               \cup {Single("scheduled", "main"), Single("dispatch", "api"),
                     Single("scheduled", "api")}
        ELSE {Single("dispatch", "main")}]

=============================================================================
