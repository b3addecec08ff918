----------------------------- MODULE HttpRoute -----------------------------
(***************************************************************************)
(* What a kafka route promises for a request it was given: at most one     *)
(* message, and exactly one answer, which tells whether there is one.  200 *)
(* comes after the message was produced; after an error, which comes       *)
(* before any was, a peer may send the request again.  Only a message      *)
(* whose peer has read 200 may still be dropped, and the request ends only *)
(* answered.                                                               *)
(***************************************************************************)
VARIABLES message,  \* what became of the message of the request
          answers,  \* the codes the peer was answered with
          ended     \* whether the route is done with the request

vars == <<message, answers, ended>>

Init ==
  /\ message = "none"
  /\ answers = <<>>
  /\ ended = FALSE

Produce ==
  /\ answers = <<>> /\ message = "none"
  /\ message' = "queued"
  /\ UNCHANGED <<answers, ended>>

Deliver ==
  /\ message = "queued"
  /\ message' = "delivered"
  /\ UNCHANGED <<answers, ended>>

Accept ==
  /\ answers = <<>> /\ message # "none"
  /\ answers' = <<200>>
  /\ UNCHANGED <<message, ended>>

(* A request refused for what it lacks may end with its answer. *)
Refuse ==
  /\ answers = <<>> /\ message = "none"
  /\ answers' \in {<<400>>, <<500>>}
  /\ ended' \in {FALSE, TRUE}
  /\ UNCHANGED message

Drop ==
  /\ message = "queued" /\ answers = <<200>>
  /\ message' = "dropped"
  /\ UNCHANGED <<answers, ended>>

End ==
  /\ answers # <<>> /\ ~ended /\ message # "queued"
  /\ ended' = TRUE
  /\ UNCHANGED <<message, answers>>

Next == Produce \/ Deliver \/ Accept \/ Refuse \/ Drop \/ End

Spec == Init /\ [][Next]_vars
=============================================================================
