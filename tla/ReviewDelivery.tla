--------------------------- MODULE ReviewDelivery ---------------------------
(***************************************************************************)
(* What one command-line review promises to the pull request it is about,  *)
(* whatever happens on the way: it answers, it reports success only with a *)
(* review on the pull request, it writes nothing after its answer, and it  *)
(* writes only so often.                                                   *)
(***************************************************************************)
EXTENDS Naturals

CONSTANT Limit    \* reviews one run may leave on the pull request

VARIABLES count, answer

delivery == <<count, answer>>

DeliveryInit == count = 0 /\ answer = "pending"

Publish ==
  /\ answer = "pending"
  /\ count < Limit
  /\ count' = count + 1
  /\ answer' \in {"pending", "success", "failure"}

ReportFailed ==
  /\ answer = "pending"
  /\ answer' = "failure"
  /\ UNCHANGED count

DeliverySpec ==
  /\ DeliveryInit
  /\ [][Publish \/ ReportFailed]_delivery

AnswersInTheEnd == answer = "pending" ~> answer # "pending"

FairDeliverySpec == DeliverySpec /\ AnswersInTheEnd
=============================================================================
