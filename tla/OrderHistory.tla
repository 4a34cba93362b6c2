---------------------------- MODULE OrderHistory ----------------------------
(***************************************************************************)
(* OrderLifecycle, with what the office knows of an order's past: the last *)
(* status in which the order was still being worked on.                    *)
(***************************************************************************)
EXTENDS OrderLifecycle

VARIABLE active  \* each order's latest status in ActiveStatus

HistoryInit == Init /\ active = [o \in Orders |-> "none"]

HistoryNext ==
  /\ Next
  /\ active' = [o \in Orders |->
       IF order'[o].status \in ActiveStatus THEN order'[o].status ELSE active[o]]

HistorySpec == HistoryInit /\ [][HistoryNext]_<<vars, active>>

\* A request for cancellation that is rejected leaves the order in the status
\* it had before the request (OrderCancelReviewService.reject).
RejectRestores ==
  [][\A o \in Orders :
       order[o].status = "CANCEL_REQUESTED" /\ order'[o].status \in ActiveStatus
         => order'[o].status = active[o]]_<<vars, active>>

=============================================================================
