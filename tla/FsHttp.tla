------------------------------- MODULE FsHttp -------------------------------
(***************************************************************************)
(* The life of the connections of an http block (fs_mod_http.c): accept,   *)
(* read callbacks driving http_parser, routing, the route's callbacks,     *)
(* the response write and the close that releases the request.             *)
(*                                                                         *)
(* All callbacks run on the thread of one libuv loop, so one callback is   *)
(* one action.  A read callback may deliver several parser events; each    *)
(* event is an action here, and a read that carries several of them is the *)
(* behaviour in which these actions follow one another directly.           *)
(*                                                                         *)
(* The bytes of a URL or a body are abstracted to the set of the requests, *)
(* numbered along the connection, that they came from.                     *)
(***************************************************************************)
EXTENDS Naturals, Sequences

CONSTANTS
  Conns,      \* the connections that may be made
  NRoutes,    \* the number of routes of the http block, in file order
  Kafka,      \* the routes that are kafka blocks; the others are proxy blocks
  MaxMsgs,    \* the bound on the requests sent over one connection
  Eager,      \* the connections whose peer may send, or half-close, once
              \* its first request is complete and before it was closed
  Splitting   \* the connections whose URLs may reach us in several reads

Routes == 1 .. NRoutes
NoRoute == 0
Msgs == 1 .. MaxMsgs

ASSUME HttpAssumption ==
  /\ NRoutes \in Nat
  /\ MaxMsgs \in Nat
  /\ Kafka \subseteq Routes
  /\ Eager \subseteq Conns
  /\ Splitting \subseteq Conns

VARIABLES
  tcp,        \* per connection, libuv's side: the uv_tcp_t and its uv_write_t
  req,        \* per connection, the fields of its fs_mod_http_req_t
  answered,   \* per connection, the status codes handed to uv_write
  published,  \* the messages given to Kafka: connection, request, body
  peer,       \* history: what each peer, or the network, has done
  fault       \* "none", or why the behaviour of the process is undefined

vars == <<tcp, req, answered, published, peer, fault>>

-----------------------------------------------------------------------------
Marks == {"early", "split", "eof", "bad", "reset"}
Codes == {200, 400, 404, 500}

Tcp == [state : {"none", "open", "closing", "closed", "leaked"},
        reading : BOOLEAN, writing : BOOLEAN]

Req == [phase : {"start", "url", "body", "dead", "failed"},
        msg : 0 .. MaxMsgs,           \* the request being parsed
        url : SUBSET Msgs,            \* the requests whose URL is in url_buf
        route : Routes \cup {NoRoute},
        body : SUBSET Msgs,           \* the requests whose body is in self
        values : Nat]                 \* route values allocated and not freed

TypeOK ==
  /\ tcp \in [Conns -> Tcp]
  /\ req \in [Conns -> Req]
  /\ answered \in [Conns -> Seq(Codes)]
  /\ published \subseteq [conn : Conns, msg : Msgs, body : SUBSET Msgs]
  /\ peer \in [Conns -> SUBSET Marks]
  /\ fault \in {"none", "overrun", "writer", "close"}

NewReq == [phase |-> "start", msg |-> 0, url |-> {}, route |-> NoRoute,
           body |-> {}, values |-> 0]

Init ==
  /\ tcp = [c \in Conns |->
              [state |-> "none", reading |-> FALSE, writing |-> FALSE]]
  /\ req = [c \in Conns |-> NewReq]
  /\ answered = [c \in Conns |-> <<>>]
  /\ published = {}
  /\ peer = [c \in Conns |-> {}]
  /\ fault = "none"

-----------------------------------------------------------------------------
(* Accepting. *)

Running == fault = "none"

ConnectionCb(c) ==
  /\ Running
  /\ tcp[c].state = "none"
  /\ tcp' = [tcp EXCEPT ![c].state = "open", ![c].reading = TRUE]
  /\ req' = [req EXCEPT ![c] = NewReq]
  /\ UNCHANGED <<answered, published, peer, fault>>

(* uv_tcp_init or uv_accept fails: the callback returns without freeing the *)
(* request, and no later callback has a pointer to it.                      *)
AcceptFails(c) ==
  /\ Running
  /\ tcp[c].state = "none"
  /\ tcp' = [tcp EXCEPT ![c].state = "leaked"]
  /\ UNCHANGED <<req, answered, published, peer, fault>>

-----------------------------------------------------------------------------
(* The parser's events.  Only the connections in Eager receive anything    *)
(* once they have been answered.                                           *)

Receives(c, marks) ==
  /\ Running
  /\ tcp[c].state = "open"
  /\ tcp[c].reading
  /\ answered[c] # <<>> => c \in Eager
  /\ peer' = [peer EXCEPT ![c] =
                @ \cup marks
                  \cup (IF answered[c] # <<>> THEN {"early"} ELSE {})]

(* The test that should enlarge a full buffer enlarges one with room left, *)
(* so bytes appended to a buffer in use end up behind its end.  Whether    *)
(* the allocator's padding absorbs them is not defined.                    *)
AppendOutcomesNoTerminator(used) == {"none", "overrun"}

AppendOutcomes(used) == IF used = {} THEN {"none"} ELSE {"none", "overrun"}

OnUrl(c) ==
  LET m == IF req[c].phase = "start" THEN req[c].msg + 1 ELSE req[c].msg
      more == req[c].phase = "url"
  IN  /\ req[c].phase \in {"start", "url"}
      /\ m \in Msgs
      /\ more => c \in Splitting
      /\ Receives(c, IF more THEN {"split"} ELSE {})
      /\ fault' \in AppendOutcomes(req[c].url)
      /\ req' = [req EXCEPT ![c].phase = "url",
                            ![c].msg = m,
                            ![c].url = @ \cup {m}]
      /\ UNCHANGED <<tcp, answered, published>>

(* The first route, in file order, whose match_cb holds. *)
FirstMatch(matching) ==
  IF matching = {} THEN NoRoute
  ELSE CHOOSE r \in matching : \A s \in matching : r <= s

(* A match stores the route and lets its init_cb allocate a new value, in  *)
(* req->self; without a match both fields keep what they held.             *)
Routed(r, route) ==
  IF route = NoRoute
  THEN [r EXCEPT !.phase = "body"]
  ELSE [r EXCEPT !.phase = "body",
                 !.route = route,
                 !.body = {},
                 !.values = @ + 1]

OnHeadersComplete(c) ==
  /\ req[c].phase = "url"
  /\ Receives(c, {})
  /\ \E matching \in SUBSET Routes :
       req' = [req EXCEPT ![c] = Routed(@, FirstMatch(matching))]
  /\ UNCHANGED <<tcp, answered, published, fault>>

(* body_cb of a kafka route appends to the value; a proxy's does nothing. *)
OnBody(c) ==
  /\ req[c].phase = "body"
  /\ Receives(c, {})
  /\ req' = [req EXCEPT ![c].body =
               IF req[c].route \in Kafka THEN @ \cup {req[c].msg} ELSE @]
  /\ UNCHANGED <<tcp, answered, published, fault>>

(* The responses the request can be given: 404 without a route; 200 by a   *)
(* proxy; by a kafka route 400 without a body or a topic, 500 when a call  *)
(* to librdkafka fails, 200 once the message was produced.                 *)
ResponseCodesUnchecked(r) ==
  IF r.route = NoRoute THEN {404} ELSE {200, 400, 500}

ResponseCodes(r) ==
  CASE r.route = NoRoute -> {404}
    [] r.route \in Routes \ Kafka -> {200}
    [] r.route \in Kafka -> IF r.body = {} THEN {400} ELSE {200, 400, 500}

(* uv_write on the request's only uv_write_t.  Handing it to libuv while   *)
(* it is still queued there corrupts libuv's queues.                       *)
ResponseUnwatched(c, code) ==
  /\ answered' = [answered EXCEPT ![c] = Append(@, code)]
  /\ UNCHANGED <<tcp, fault>>

Response(c, code) ==
  /\ answered' = [answered EXCEPT ![c] = Append(@, code)]
  /\ tcp' = [tcp EXCEPT ![c].writing = TRUE]
  /\ fault' = IF tcp[c].writing THEN "writer" ELSE fault

(* Nothing of the request is reset: a keep-alive connection parses the     *)
(* next request into the same fields.  A connection the peer asked to      *)
(* close accepts no further bytes ("dead").                                *)
OnMessageComplete(c) ==
  /\ req[c].phase = "body"
  /\ Receives(c, {})
  /\ \E code \in ResponseCodes(req[c]) :
       /\ Response(c, code)
       /\ published' = IF code = 200 /\ req[c].route \in Kafka
                       THEN published \cup {[conn |-> c, msg |-> req[c].msg,
                                             body |-> req[c].body]}
                       ELSE published
  /\ \E next \in {"start", "dead"} : req' = [req EXCEPT ![c].phase = next]

-----------------------------------------------------------------------------
(* Closing.                                                                *)

ClosingLater(t) == t

Closing(t) == [t EXCEPT !.state = "closing", !.reading = FALSE]

(* A read that ends the stream, or whose bytes the parser refuses. *)
ReadedStops(c, mark) ==
  /\ Receives(c, {mark})
  /\ tcp' = [tcp EXCEPT ![c].reading = FALSE]
  /\ UNCHANGED <<req, answered, published, fault>>

ReadedCloses(c, mark) ==
  /\ Receives(c, {mark})
  /\ tcp' = [tcp EXCEPT ![c] = Closing(@)]
  /\ UNCHANGED <<req, answered, published, fault>>

ReadedEof(c) == ReadedCloses(c, "eof")

ReadedBad(c) == ReadedCloses(c, "bad")

(* A read that filled the buffer is followed by one that may find nothing: *)
(* its zero length tells the parser that the stream has ended, which is an *)
(* error in the middle of a request, and makes it refuse all later bytes.  *)
ReadedNothing(c) ==
  /\ req[c].phase \in {"url", "body"}
  /\ Receives(c, {})
  /\ req' = [req EXCEPT ![c].phase = "failed"]
  /\ UNCHANGED <<tcp, answered, published, fault>>

(* Any other read error, such as a reset: libuv stops reading and the      *)
(* callback does nothing.                                                  *)
ReadedError(c) ==
  /\ Running
  /\ tcp[c].state = "open"
  /\ tcp[c].reading
  /\ tcp' = [tcp EXCEPT ![c].reading = FALSE]
  /\ peer' = [peer EXCEPT ![c] = @ \cup {"reset"}]
  /\ UNCHANGED <<req, answered, published, fault>>

(* libuv reports the write: written, failed, or cancelled by a close.  The *)
(* callback closes the connection; closing a handle that is closing        *)
(* already fails libuv's assertion.                                        *)
ResWritedCbOnSuccess(c) ==
  /\ Running
  /\ tcp[c].writing
  /\ tcp' = [tcp EXCEPT ![c] =
               IF "reset" \in peer[c] THEN [@ EXCEPT !.writing = FALSE]
               ELSE [Closing(@) EXCEPT !.writing = FALSE]]
  /\ UNCHANGED <<req, answered, published, peer, fault>>

ResWritedCb(c) ==
  /\ Running
  /\ tcp[c].writing
  /\ tcp' = [tcp EXCEPT ![c] = [Closing(@) EXCEPT !.writing = FALSE]]
  /\ fault' = IF tcp[c].state = "open" THEN fault ELSE "close"
  /\ UNCHANGED <<req, answered, published, peer>>

(* The route, if the request has one, frees the value in self. *)
ReleasedWithoutRoute(r) == [r EXCEPT !.values = @ - 1]

ReleasedNothing(r) == r

Released(r) == IF r.route = NoRoute THEN r ELSE [r EXCEPT !.values = @ - 1]

(* The close callback, which libuv runs after the callbacks of the writes. *)
ReqRelease(c) ==
  /\ Running
  /\ tcp[c].state = "closing"
  /\ ~tcp[c].writing
  /\ tcp' = [tcp EXCEPT ![c].state = "closed"]
  /\ req' = [req EXCEPT ![c] = Released(@)]
  /\ UNCHANGED <<answered, published, peer, fault>>

-----------------------------------------------------------------------------
Next ==
  \E c \in Conns :
    \/ ConnectionCb(c)
    \/ AcceptFails(c)
    \/ OnUrl(c)
    \/ OnHeadersComplete(c)
    \/ OnBody(c)
    \/ OnMessageComplete(c)
    \/ ReadedEof(c)
    \/ ReadedBad(c)
    \/ ReadedNothing(c)
    \/ ReadedError(c)
    \/ ResWritedCb(c)
    \/ ReqRelease(c)

(* The loop runs its callbacks as they fall due; peers promise nothing. *)
Fairness ==
  \A c \in Conns : WF_vars(ResWritedCb(c)) /\ WF_vars(ReqRelease(c))

Spec == Init /\ [][Next]_vars /\ Fairness

-----------------------------------------------------------------------------
(* Properties. *)

(* The loss of defined behaviour is always a peer's doing: bytes land      *)
(* behind url_buf only after a URL came in pieces or a second request came *)
(* on the same connection, and the writer is reused, or the handle closed  *)
(* twice, only when a peer went on talking, or left, after its answer.     *)
FaultOnlyIfProvoked ==
  /\ fault = "overrun" => \E c \in Conns : peer[c] \cap {"split", "early"} # {}
  /\ fault \in {"writer", "close"} => \E c \in Conns : "early" \in peer[c]

(* No connection is answered twice by a process that still behaves: the    *)
(* answer closes the connection, whatever the peer has sent behind it.     *)
AnsweredOnce == Running => \A c \in Conns : Len(answered[c]) <= 1

(* Closing a connection frees the value of the request it was routed for   *)
(* last.  A later request replaces the value of an earlier one without     *)
(* freeing it, so what stays behind is at most one value for each request  *)
(* after the first, and none when there was only one.                      *)
ValuesReleased ==
  \A c \in Conns :
    tcp[c].state = "closed" =>
      req[c].values = 0 \/ req[c].values < req[c].msg

(* What goes to Kafka for a request is never empty and never holds bytes   *)
(* of a later request: for the first request of a connection it is that    *)
(* request's body, whatever the peer sends behind it.                      *)
PublishesOwnBody ==
  \A p \in published : p.body # {} /\ p.body \subseteq 1 .. p.msg

Ended(c) == tcp[c].state = "closed" \/ ~Running

(* An answered connection does not stay open: the write is reported, the   *)
(* handle closed and the request freed.                                    *)
AnsweredIsClosed == \A c \in Conns : answered[c] # <<>> ~> Ended(c)

(* So does one whose peer ended the stream or sent what is not HTTP.       *)
EndedIsClosed ==
  \A c \in Conns : peer[c] \cap {"eof", "bad"} # {} ~> Ended(c)

(* README.md: the http module supports routes by the request path.  So the *)
(* URL a request is routed by is its own.                                  *)
RoutedByOwnUrl ==
  \A c \in Conns : req[c].phase = "body" => req[c].url = {req[c].msg}

-----------------------------------------------------------------------------
(* The exchange the module promises, when peers wait for their answer.     *)

Stage(c) ==
  CASE tcp[c].state = "none" -> "absent"
    [] tcp[c].state = "leaked" -> "refused"
    [] tcp[c].state = "open" /\ answered[c] = <<>> -> "serving"
    [] tcp[c].state \in {"open", "closing"} /\ answered[c] # <<>> -> "answered"
    [] OTHER -> "released"

AnswerOf(c) == IF answered[c] = <<>> THEN 0 ELSE answered[c][1]

stages == [c \in Conns |-> Stage(c)]
answers == [c \in Conns |-> AnswerOf(c)]

Exchange == INSTANCE HttpExchange WITH stage <- stages, answer <- answers

(* Every step is one of that exchange, and every answered connection is in *)
(* the end released, while each connection keeps to one request.           *)
ImplementsExchange == Exchange!Spec
=============================================================================
