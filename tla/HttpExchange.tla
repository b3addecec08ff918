---------------------------- MODULE HttpExchange ----------------------------
(***************************************************************************)
(* What the HTTP module promises on every connection it accepts: the peer  *)
(* is served, is given at most one answer, and the connection and all that *)
(* was allocated for it are then released.  An answer comes only while the *)
(* peer is being served, and is never taken back.                          *)
(***************************************************************************)
CONSTANTS Conns,   \* the connections
          Codes    \* the status codes an answer may carry

VARIABLES stage,   \* how far each connection has come
          answer   \* the answer it was given, or 0

NoAnswer == 0

vars == <<stage, answer>>

Init ==
  /\ stage = [c \in Conns |-> "absent"]
  /\ answer = [c \in Conns |-> NoAnswer]

Move(c, from, to) == stage[c] = from /\ stage' = [stage EXCEPT ![c] = to]

Accept(c) == Move(c, "absent", "serving") /\ UNCHANGED answer

(* The accept itself failed: the peer is never served. *)
Refuse(c) == Move(c, "absent", "refused") /\ UNCHANGED answer

Answer(c) ==
  /\ Move(c, "serving", "answered")
  /\ \E code \in Codes : answer' = [answer EXCEPT ![c] = code]

(* The peer leaves, or sends what is not HTTP, before it has an answer. *)
Abandon(c) == Move(c, "serving", "released") /\ UNCHANGED answer

Release(c) == Move(c, "answered", "released") /\ UNCHANGED answer

Next ==
  \E c \in Conns :
    Accept(c) \/ Refuse(c) \/ Answer(c) \/ Abandon(c) \/ Release(c)

Spec ==
  /\ Init
  /\ [][Next]_vars
  /\ \A c \in Conns : WF_vars(Release(c))
=============================================================================
