---------------------------- MODULE FsHttp_proofs ----------------------------
(***************************************************************************)
(* Proofs about FsHttp, for any connections, routes and peers.             *)
(*                                                                         *)
(* The safety properties follow from one inductive invariant, Inv: the     *)
(* type invariant and what the fields of a single connection have to do    *)
(* with each other and with what its peer has done.                        *)
(***************************************************************************)
EXTENDS FsHttp, TLAPS, Recursion

(* A connection without a request of its own has nothing in its fields. *)
Unused(c) ==
  tcp[c].state \in {"none", "leaked"} =>
    req[c] = NewReq /\ answered[c] = <<>> /\ ~tcp[c].writing

(* A route that was matched has its value until the request is released. *)
ValueOfRoute(c) ==
  tcp[c].state # "closed" /\ req[c].route # NoRoute => req[c].values >= 1

(* While an answer is being written the connection is open, unless the     *)
(* peer made us close it; while it is open an answer is being written.     *)
AnswerClosing(c) ==
  /\ tcp[c].writing =>
       /\ answered[c] # <<>>
       /\ \/ tcp[c].state = "open"
          \/ tcp[c].state = "closing" /\ "early" \in peer[c]
  /\ Running /\ tcp[c].state = "open" /\ answered[c] # <<>> => tcp[c].writing
  /\ Running => Len(answered[c]) <= 1

(* Between two requests the buffer of the URL is in use only once one of   *)
(* them was answered.                                                      *)
UrlUsed(c) == req[c].phase = "start" /\ req[c].url # {} => answered[c] # <<>>

(* Each request is routed once and allocates at most one value; the one of *)
(* the last route is freed by the close.                                   *)
ValuesCounted(c) ==
  /\ req[c].values <= req[c].msg
  /\ req[c].phase = "url" => req[c].values < req[c].msg
  /\ req[c].route = NoRoute => req[c].values = 0
  /\ tcp[c].state = "closed" => req[c].values = 0 \/ req[c].values < req[c].msg

(* The value of a route holds no bytes of requests that are yet to come.   *)
BodiesSent(c) == req[c].body \subseteq 1 .. req[c].msg

(* From its URL on, the request being parsed has its number.               *)
Numbered(c) == req[c].phase \in {"url", "body"} => req[c].msg \in Msgs

(* Only the connections named so send early, or in pieces.                 *)
PeersKeepToConstants(c) ==
  /\ "early" \in peer[c] => c \in Eager
  /\ "split" \in peer[c] => c \in Splitting

ConnInv(c) ==
  /\ Unused(c)
  /\ ValueOfRoute(c)
  /\ AnswerClosing(c)
  /\ UrlUsed(c)
  /\ ValuesCounted(c)
  /\ BodiesSent(c)
  /\ Numbered(c)
  /\ PeersKeepToConstants(c)

Inv ==
  /\ TypeOK
  /\ \A c \in Conns : ConnInv(c)
  /\ FaultOnlyIfProvoked
  /\ PublishesOwnBody

-----------------------------------------------------------------------------
(* Routing picks the first of the matching routes, in file order.          *)
LEMMA FirstMatchIsFirst ==
  ASSUME NEW matching \in SUBSET Routes, matching # {}
  PROVE  /\ FirstMatch(matching) \in matching
         /\ \A s \in matching : FirstMatch(matching) <= s
<1>1. matching \in SUBSET Nat
  BY HttpAssumption DEF Routes
<1>2. \E r \in matching : \A s \in matching : r <= s
  BY <1>1, LeastOf
<1>3. FirstMatch(matching) = CHOOSE r \in matching : \A s \in matching : r <= s
  BY DEF FirstMatch
<1> QED
  BY <1>2, <1>3

(* So routing stores a route of the block, or none.                        *)
LEMMA FirstMatchType ==
  ASSUME NEW matching \in SUBSET Routes
  PROVE  FirstMatch(matching) \in Routes \cup {NoRoute}
<1>1. CASE matching = {}
  BY <1>1 DEF FirstMatch
<1>2. CASE matching # {}
  BY <1>2, FirstMatchIsFirst
<1> QED
  BY <1>1, <1>2

-----------------------------------------------------------------------------
(* The other connections of a step: nothing of theirs changes, and         *)
(* undefined behaviour is never undone, so what held of them still does.   *)
LEMMA OthersKeep ==
  ASSUME NEW d \in Conns, ConnInv(d), Running' => Running,
         tcp'[d] = tcp[d], req'[d] = req[d],
         answered'[d] = answered[d], peer'[d] = peer[d]
  PROVE  ConnInv(d)'
BY DEF ConnInv, Unused, ValueOfRoute, AnswerClosing, UrlUsed,
       ValuesCounted, BodiesSent, Numbered, PeersKeepToConstants

(* What a received byte leaves behind in the history of its peer.          *)
LEMMA ReceivesPeer ==
  ASSUME TypeOK, NEW c \in Conns, NEW marks \in SUBSET Marks,
         Receives(c, marks)
  PROVE  /\ peer' \in [Conns -> SUBSET Marks]
         /\ \A d \in Conns : peer[d] \subseteq peer'[d]
         /\ \A d \in Conns : d # c => peer'[d] = peer[d]
         /\ marks \subseteq peer'[c]
         /\ \A x \in peer'[c] : \/ x \in peer[c] \cup marks
                                \/ x = "early" /\ c \in Eager
         /\ answered[c] # <<>> => "early" \in peer'[c]
BY DEF TypeOK, Receives, Marks

(* As long as marks of peers are only added, a step that causes no fault   *)
(* and publishes nothing keeps the properties about both.                  *)
LEMMA HistoryKept ==
  ASSUME Inv, \A d \in Conns : peer[d] \subseteq peer'[d]
  PROVE  /\ UNCHANGED fault => FaultOnlyIfProvoked'
         /\ UNCHANGED published => PublishesOwnBody'
<1>1. ASSUME UNCHANGED fault PROVE FaultOnlyIfProvoked'
  BY <1>1 DEF Inv, FaultOnlyIfProvoked
<1>2. ASSUME UNCHANGED published PROVE PublishesOwnBody'
  BY <1>2 DEF Inv, TypeOK, PublishesOwnBody
<1> QED
  BY <1>1, <1>2

-----------------------------------------------------------------------------
(* The invariant holds of a process that has accepted nothing.             *)
THEOREM InitInv == Init => Inv
<1> SUFFICES ASSUME Init PROVE Inv
  OBVIOUS
<1>1. TypeOK
  BY HttpAssumption DEF Init, TypeOK, NewReq, Tcp, Req, Marks, Msgs
<1>2. ASSUME NEW c \in Conns PROVE ConnInv(c)
  BY DEF Init, NewReq, ConnInv, Unused, ValueOfRoute, AnswerClosing, UrlUsed,
         ValuesCounted, BodiesSent, Numbered, PeersKeepToConstants, NoRoute,
         Running
<1>3. FaultOnlyIfProvoked /\ PublishesOwnBody
  BY DEF Init, FaultOnlyIfProvoked, PublishesOwnBody
<1> QED
  BY <1>1, <1>2, <1>3 DEF Inv

(* Accepting a connection, or failing to, keeps the invariant.             *)
LEMMA AcceptingInv ==
  ASSUME Inv, NEW c \in Conns, ConnectionCb(c) \/ AcceptFails(c)
  PROVE  Inv'
<1>1. /\ tcp[c] \in Tcp
      /\ req[c] = NewReq
      /\ answered[c] = <<>>
      /\ ~ tcp[c].writing
  BY DEF ConnectionCb, AcceptFails, Inv, TypeOK, ConnInv, Unused
<1>2. /\ tcp' \in [Conns -> Tcp]
      /\ tcp'[c].state \in {"open", "leaked"}
      /\ ~ tcp'[c].writing
      /\ \A d \in Conns : d # c => tcp'[d] = tcp[d]
  <2>1. CASE ConnectionCb(c)
    <3>1. tcp' = [tcp EXCEPT ![c] = [@ EXCEPT !.state = "open",
                                              !.reading = TRUE]]
      BY <2>1 DEF ConnectionCb
    <3> QED
      BY <1>1, <3>1 DEF Inv, TypeOK, Tcp
  <2>2. CASE AcceptFails(c)
    <3>1. tcp' = [tcp EXCEPT ![c] = [@ EXCEPT !.state = "leaked"]]
      BY <2>2 DEF AcceptFails
    <3> QED
      BY <1>1, <3>1 DEF Inv, TypeOK, Tcp
  <2> QED
    BY <2>1, <2>2
<1>3. Running /\ UNCHANGED <<req, answered, published, peer, fault>>
  <2>1. ConnectionCb(c) => req' = req
    BY <1>1 DEF ConnectionCb, Inv, TypeOK
  <2> QED
    BY <2>1 DEF ConnectionCb, AcceptFails
<1>4. TypeOK'
  BY <1>2, <1>3 DEF Inv, TypeOK
<1>5. ConnInv(c)'
  <2>0. PeersKeepToConstants(c)'
    BY <1>3 DEF Inv, ConnInv, PeersKeepToConstants
  <2>1. req'[c] = NewReq /\ answered'[c] = <<>> /\ Len(answered'[c]) = 0
    BY <1>1, <1>3
  <2> QED
    BY <1>2, <2>0, <2>1 DEF NewReq, NoRoute, ConnInv, Unused, ValueOfRoute,
                            AnswerClosing, UrlUsed, ValuesCounted,
                            BodiesSent, Numbered
<1>6. ASSUME NEW d \in Conns, d # c PROVE ConnInv(d)'
  BY <1>2, <1>3, <1>6, OthersKeep DEF Inv, Running
<1>7. FaultOnlyIfProvoked' /\ PublishesOwnBody'
  BY <1>3, HistoryKept
<1> QED
  BY <1>4, <1>5, <1>6, <1>7 DEF Inv

(* A piece of a URL keeps it: bytes land behind the buffer only when the   *)
(* URL came in pieces or the buffer held that of an answered request.      *)
LEMMA OnUrlInv ==
  ASSUME Inv, NEW c \in Conns, OnUrl(c)
  PROVE  Inv'
<1> DEFINE more == req[c].phase = "url"
           m == IF req[c].phase = "start" THEN req[c].msg + 1 ELSE req[c].msg
<1>1. /\ req[c].phase \in {"start", "url"}
      /\ m \in Msgs
      /\ Receives(c, IF more THEN {"split"} ELSE {})
      /\ fault' \in AppendOutcomes(req[c].url)
      /\ req' = [req EXCEPT ![c].phase = "url",
                            ![c].msg = m,
                            ![c].url = @ \cup {m}]
      /\ UNCHANGED <<tcp, answered, published>>
  BY DEF OnUrl
<1>2. /\ peer' \in [Conns -> SUBSET Marks]
      /\ \A d \in Conns : peer[d] \subseteq peer'[d]
      /\ \A d \in Conns : d # c => peer'[d] = peer[d]
      /\ more => "split" \in peer'[c]
      /\ answered[c] # <<>> => "early" \in peer'[c]
      /\ PeersKeepToConstants(c)'
  <2> DEFINE marks == IF more THEN {"split"} ELSE {}
  <2>1. marks \in SUBSET Marks /\ Receives(c, marks)
    BY <1>1 DEF Marks
  <2>2. more => c \in Splitting
    BY DEF OnUrl
  <2> QED
    BY <2>1, <2>2, ReceivesPeer DEF Inv, ConnInv, PeersKeepToConstants
<1> HIDE DEF m
<1>3. TypeOK'
  <2>1. [req[c] EXCEPT !.phase = "url", !.msg = m, !.url = @ \cup {m}] \in Req
    <3>1. m \in 0 .. MaxMsgs /\ req[c] \in Req
      BY <1>1, HttpAssumption DEF Inv, TypeOK, Msgs
    <3> QED
      BY <1>1, <3>1 DEF Req
  <2>2. req' \in [Conns -> Req]
    BY <1>1, <2>1 DEF Inv, TypeOK
  <2> QED
    BY <1>1, <1>2, <2>2 DEF Inv, TypeOK, AppendOutcomes
<1>4. ConnInv(c)'
  <2>1. /\ Unused(c)' /\ ValueOfRoute(c)' /\ AnswerClosing(c)'
        /\ UrlUsed(c)' /\ Numbered(c)'
    BY <1>1, <1>2 DEF Inv, TypeOK, Req, Tcp, ConnInv, Unused, ValueOfRoute,
       AnswerClosing, UrlUsed, Numbered, Receives, Running
  <2>2. /\ req'[c].phase = "url" /\ req'[c].msg = m
        /\ req'[c].route = req[c].route
        /\ req'[c].body = req[c].body
        /\ req'[c].values = req[c].values
        /\ tcp'[c] = tcp[c] /\ tcp[c].state = "open"
    BY <1>1 DEF Inv, TypeOK, Req, Receives
  <2>3. /\ req[c].msg \in Nat /\ req[c].values \in Nat
        /\ \/ req[c].phase = "start" /\ m = req[c].msg + 1
           \/ req[c].phase = "url" /\ m = req[c].msg
    BY <1>1, HttpAssumption DEF m, Inv, TypeOK, Req
  <2>4. ValuesCounted(c) /\ BodiesSent(c)
    BY DEF Inv, ConnInv
  <2>5. ValuesCounted(c)'
    BY <2>2, <2>3, <2>4 DEF ValuesCounted
  <2>6. BodiesSent(c)'
    BY <2>2, <2>3, <2>4 DEF BodiesSent
  <2> QED
    BY <1>2, <2>1, <2>5, <2>6 DEF ConnInv
<1>5. ASSUME NEW d \in Conns, d # c PROVE ConnInv(d)'
  BY <1>1, <1>2, <1>5, OthersKeep DEF Inv, TypeOK, Running, Receives
<1>6. FaultOnlyIfProvoked'
  BY <1>1, <1>2 DEF Inv, ConnInv, UrlUsed, FaultOnlyIfProvoked,
                    AppendOutcomes
<1>7. PublishesOwnBody'
  BY <1>1, <1>2, HistoryKept
<1> QED
  BY <1>3, <1>4, <1>5, <1>6, <1>7 DEF Inv

(* So does the end of the headers, which may give the request a route.     *)
LEMMA OnHeadersCompleteInv ==
  ASSUME Inv, NEW c \in Conns, OnHeadersComplete(c)
  PROVE  Inv'
<1>1. PICK rt \in Routes \cup {NoRoute} :
        req' = [req EXCEPT ![c] = Routed(req[c], rt)]
  BY FirstMatchType DEF OnHeadersComplete, Inv, TypeOK
<1>2. /\ req[c].phase = "url"
      /\ Receives(c, {})
      /\ Running /\ tcp[c].state = "open"
      /\ UNCHANGED <<tcp, answered, published, fault>>
  BY DEF OnHeadersComplete, Receives
<1>3. /\ peer' \in [Conns -> SUBSET Marks]
      /\ \A d \in Conns : peer[d] \subseteq peer'[d]
      /\ \A d \in Conns : d # c => peer'[d] = peer[d]
      /\ answered[c] # <<>> => "early" \in peer'[c]
      /\ PeersKeepToConstants(c)'
  BY <1>2, ReceivesPeer DEF Inv, ConnInv, PeersKeepToConstants
<1>4. req[c] \in Req /\ ConnInv(c)
  BY DEF Inv, TypeOK
<1>5. /\ Routed(req[c], rt) \in Req
      /\ req'[c] = Routed(req[c], rt)
      /\ \A d \in Conns : d # c => req'[d] = req[d]
  <2>1. [req[c] EXCEPT !.phase = "body"] \in Req
    BY <1>4 DEF Req
  <2>2. /\ {} \in SUBSET Msgs
        /\ req[c].values + 1 \in Nat
    BY <1>4 DEF Req
  <2>3. [req[c] EXCEPT !.phase = "body", !.route = rt, !.body = {},
                       !.values = @ + 1] \in Req
    BY <1>4, <2>2 DEF Req
  <2>4. Routed(req[c], rt) \in Req
    BY <2>1, <2>3 DEF Routed
  <2> QED
    BY <1>1, <2>4 DEF Inv, TypeOK
<1>6. TypeOK'
  BY <1>1, <1>2, <1>3, <1>5 DEF Inv, TypeOK
<1>7. ConnInv(c)'
  <2>1. CASE rt = NoRoute
    <3>1. /\ req'[c].phase = "body"
          /\ req'[c].msg = req[c].msg
          /\ req'[c].route = req[c].route
          /\ req'[c].body = req[c].body
          /\ req'[c].values = req[c].values
      BY <1>4, <1>5, <2>1 DEF Routed, Req
    <3>2. /\ Unused(c)' /\ ValueOfRoute(c)' /\ AnswerClosing(c)'
          /\ UrlUsed(c)' /\ Numbered(c)'
      BY <1>2, <1>3, <1>4, <3>1 DEF ConnInv, Unused, ValueOfRoute,
         AnswerClosing, UrlUsed, Numbered, Running
    <3>3. ValuesCounted(c)' /\ BodiesSent(c)'
      BY <1>2, <1>4, <3>1 DEF ConnInv, ValuesCounted, BodiesSent, Req
    <3> QED
      BY <1>3, <3>2, <3>3 DEF ConnInv
  <2>2. CASE rt # NoRoute
    <3>1. /\ req'[c].phase = "body"
          /\ req'[c].msg = req[c].msg
          /\ req'[c].route # NoRoute
          /\ req'[c].body = {}
          /\ req'[c].values = req[c].values + 1
          /\ req[c].values \in Nat
      BY <1>4, <1>5, <2>2 DEF Routed, Req
    <3>2. /\ Unused(c)' /\ ValueOfRoute(c)' /\ AnswerClosing(c)'
          /\ UrlUsed(c)' /\ Numbered(c)'
      BY <1>2, <1>3, <1>4, <3>1 DEF ConnInv, Unused, ValueOfRoute,
         AnswerClosing, UrlUsed, Numbered, Running
    <3>3. ValuesCounted(c)' /\ BodiesSent(c)'
      BY <1>2, <1>4, <3>1 DEF ConnInv, ValuesCounted, BodiesSent, Req
    <3> QED
      BY <1>3, <3>2, <3>3 DEF ConnInv
  <2> QED
    BY <2>1, <2>2
<1>8. ASSUME NEW d \in Conns, d # c PROVE ConnInv(d)'
  BY <1>2, <1>3, <1>5, <1>8, OthersKeep DEF Inv, Running
<1>9. FaultOnlyIfProvoked' /\ PublishesOwnBody'
  BY <1>2, <1>3, HistoryKept
<1> QED
  BY <1>6, <1>7, <1>8, <1>9 DEF Inv

(* A piece of a body is added to that of the request it belongs to.        *)
LEMMA OnBodyInv ==
  ASSUME Inv, NEW c \in Conns, OnBody(c)
  PROVE  Inv'
<1> DEFINE body == IF req[c].route \in Kafka
                   THEN req[c].body \cup {req[c].msg} ELSE req[c].body
<1>1. /\ req[c].phase = "body"
      /\ Receives(c, {})
      /\ Running /\ tcp[c].state = "open"
      /\ req' = [req EXCEPT ![c] = [@ EXCEPT !.body = body]]
      /\ UNCHANGED <<tcp, answered, published, fault>>
  BY DEF OnBody, Receives
<1>2. /\ peer' \in [Conns -> SUBSET Marks]
      /\ \A d \in Conns : peer[d] \subseteq peer'[d]
      /\ \A d \in Conns : d # c => peer'[d] = peer[d]
      /\ answered[c] # <<>> => "early" \in peer'[c]
      /\ PeersKeepToConstants(c)'
  BY <1>1, ReceivesPeer DEF Inv, ConnInv, PeersKeepToConstants
<1>3. req[c] \in Req /\ ConnInv(c) /\ req[c].msg \in Msgs
  BY <1>1 DEF Inv, TypeOK, ConnInv, Numbered
<1>4. body \in SUBSET Msgs /\ body \subseteq req[c].body \cup {req[c].msg}
  BY <1>3 DEF Req
<1> HIDE DEF body
<1>5. /\ req' \in [Conns -> Req]
      /\ \A d \in Conns : d # c => req'[d] = req[d]
      /\ req'[c] = [req[c] EXCEPT !.body = body]
  <2>1. [req[c] EXCEPT !.body = body] \in Req
    BY <1>3, <1>4 DEF Req
  <2> QED
    BY <1>1, <2>1 DEF Inv, TypeOK
<1>6. TypeOK'
  BY <1>1, <1>2, <1>5 DEF Inv, TypeOK
<1>7. ConnInv(c)'
  <2>1. /\ req'[c].phase = "body"
        /\ req'[c].msg = req[c].msg
        /\ req'[c].route = req[c].route
        /\ req'[c].body = body
        /\ req'[c].values = req[c].values
    BY <1>1, <1>3, <1>5 DEF Req
  <2>2. /\ Unused(c)' /\ ValueOfRoute(c)' /\ AnswerClosing(c)'
        /\ UrlUsed(c)' /\ Numbered(c)'
    BY <1>1, <1>2, <1>3, <1>4, <2>1 DEF ConnInv, Unused, ValueOfRoute,
       AnswerClosing, UrlUsed, Numbered, Running
  <2>3. ValuesCounted(c)'
    BY <1>1, <1>3, <2>1 DEF ConnInv, ValuesCounted
  <2>4. BodiesSent(c)'
    <3>1. req[c].msg \in 1 .. req[c].msg
      BY <1>3, HttpAssumption DEF Msgs
    <3> QED
      BY <1>3, <1>4, <2>1, <3>1 DEF ConnInv, BodiesSent
  <2> QED
    BY <1>2, <2>2, <2>3, <2>4 DEF ConnInv
<1>8. ASSUME NEW d \in Conns, d # c PROVE ConnInv(d)'
  BY <1>1, <1>2, <1>5, <1>8, OthersKeep DEF Inv, Running
<1>9. FaultOnlyIfProvoked' /\ PublishesOwnBody'
  BY <1>1, <1>2, HistoryKept
<1> QED
  BY <1>6, <1>7, <1>8, <1>9 DEF Inv

(* A read that finds nothing stops the parser and changes nothing else.    *)
LEMMA ReadedNothingInv ==
  ASSUME Inv, NEW c \in Conns, ReadedNothing(c)
  PROVE  Inv'
<1>1. /\ Receives(c, {})
      /\ Running /\ tcp[c].state = "open"
      /\ req' = [req EXCEPT ![c] = [@ EXCEPT !.phase = "failed"]]
      /\ UNCHANGED <<tcp, answered, published, fault>>
  BY DEF ReadedNothing, Receives
<1>2. /\ peer' \in [Conns -> SUBSET Marks]
      /\ \A d \in Conns : peer[d] \subseteq peer'[d]
      /\ \A d \in Conns : d # c => peer'[d] = peer[d]
      /\ answered[c] # <<>> => "early" \in peer'[c]
      /\ PeersKeepToConstants(c)'
  BY <1>1, ReceivesPeer DEF Inv, ConnInv, PeersKeepToConstants
<1>3. req[c] \in Req /\ ConnInv(c)
  BY DEF Inv, TypeOK
<1>4. /\ req' \in [Conns -> Req]
      /\ \A d \in Conns : d # c => req'[d] = req[d]
      /\ req'[c] = [req[c] EXCEPT !.phase = "failed"]
  BY <1>1, <1>3 DEF Inv, TypeOK, Req
<1>5. TypeOK'
  BY <1>1, <1>2, <1>4 DEF Inv, TypeOK
<1>6. ConnInv(c)'
  <2>1. /\ req'[c].phase = "failed"
        /\ req'[c].msg = req[c].msg
        /\ req'[c].route = req[c].route
        /\ req'[c].body = req[c].body
        /\ req'[c].values = req[c].values
    BY <1>3, <1>4 DEF Req
  <2> QED
    BY <1>1, <1>2, <1>3, <2>1 DEF ConnInv, Unused, ValueOfRoute,
       AnswerClosing, UrlUsed, ValuesCounted, BodiesSent, Numbered, Running
<1>7. ASSUME NEW d \in Conns, d # c PROVE ConnInv(d)'
  BY <1>1, <1>2, <1>4, <1>7, OthersKeep DEF Inv, Running
<1>8. FaultOnlyIfProvoked' /\ PublishesOwnBody'
  BY <1>1, <1>2, HistoryKept
<1> QED
  BY <1>5, <1>6, <1>7, <1>8 DEF Inv

(* The answer is given once: were a write still queued, the connection     *)
(* would have been answered before and its peer early.                     *)
LEMMA OnMessageCompleteInv ==
  ASSUME Inv, NEW c \in Conns, OnMessageComplete(c)
  PROVE  Inv'
<1>1. PICK code \in ResponseCodes(req[c]) :
        /\ Response(c, code)
        /\ published' = IF code = 200 /\ req[c].route \in Kafka
                        THEN published \cup {[conn |-> c, msg |-> req[c].msg,
                                              body |-> req[c].body]}
                        ELSE published
  BY DEF OnMessageComplete
<1>2. PICK next \in {"start", "dead"} :
        req' = [req EXCEPT ![c] = [@ EXCEPT !.phase = next]]
  BY DEF OnMessageComplete
<1>3. /\ req[c].phase = "body"
      /\ Receives(c, {})
      /\ Running /\ tcp[c].state = "open"
  BY DEF OnMessageComplete, Receives
<1>4. /\ peer' \in [Conns -> SUBSET Marks]
      /\ \A d \in Conns : peer[d] \subseteq peer'[d]
      /\ \A d \in Conns : d # c => peer'[d] = peer[d]
      /\ answered[c] # <<>> => "early" \in peer'[c]
      /\ PeersKeepToConstants(c)'
  BY <1>3, ReceivesPeer DEF Inv, ConnInv, PeersKeepToConstants
<1>5. /\ req[c] \in Req /\ ConnInv(c) /\ req[c].msg \in Msgs
      /\ tcp[c] \in Tcp /\ answered[c] \in Seq(Codes)
  BY <1>3 DEF Inv, TypeOK, ConnInv, Numbered
<1>6. /\ req' \in [Conns -> Req]
      /\ \A d \in Conns : d # c => req'[d] = req[d]
      /\ req'[c].phase = next
      /\ req'[c].msg = req[c].msg
      /\ req'[c].url = req[c].url
      /\ req'[c].route = req[c].route
      /\ req'[c].body = req[c].body
      /\ req'[c].values = req[c].values
  <2>1. [req[c] EXCEPT !.phase = next] \in Req
    BY <1>5 DEF Req
  <2>2. req'[c] = [req[c] EXCEPT !.phase = next]
    BY <1>2 DEF Inv, TypeOK
  <2> QED
    BY <1>2, <1>5, <2>1, <2>2 DEF Inv, TypeOK, Req
<1>7. /\ tcp' \in [Conns -> Tcp]
      /\ \A d \in Conns : d # c => tcp'[d] = tcp[d]
      /\ tcp'[c].state = "open"
      /\ tcp'[c].writing
  <2>1. tcp' = [tcp EXCEPT ![c] = [@ EXCEPT !.writing = TRUE]]
    BY <1>1 DEF Response
  <2> QED
    BY <1>3, <1>5, <2>1 DEF Inv, TypeOK, Tcp
<1>8. /\ answered' \in [Conns -> Seq(Codes)]
      /\ \A d \in Conns : d # c => answered'[d] = answered[d]
      /\ answered'[c] # <<>>
      /\ answered[c] = <<>> => Len(answered'[c]) = 1
  <2>1. code \in Codes
    BY <1>1, <1>5 DEF ResponseCodes, Codes, Req
  <2>2. answered' = [answered EXCEPT ![c] = Append(@, code)]
    BY <1>1 DEF Response
  <2>3. /\ Append(answered[c], code) \in Seq(Codes)
        /\ Len(Append(answered[c], code)) = Len(answered[c]) + 1
        /\ Len(answered[c]) \in Nat
    BY <1>5, <2>1
  <2>4. answered'[c] = Append(answered[c], code)
    BY <2>2 DEF Inv, TypeOK
  <2>5. answered'[c] # <<>>
    BY <2>3, <2>4
  <2>6. answered[c] = <<>> => Len(answered'[c]) = 1
    BY <2>3, <2>4
  <2>7. /\ answered' \in [Conns -> Seq(Codes)]
        /\ \A d \in Conns : d # c => answered'[d] = answered[d]
    BY <2>2, <2>3 DEF Inv, TypeOK
  <2> QED
    BY <2>5, <2>6, <2>7
<1>9. fault' = IF tcp[c].writing THEN "writer" ELSE "none"
  BY <1>1, <1>3, <1>5 DEF Response, Running, Tcp
<1>10. /\ published' \subseteq [conn : Conns, msg : Msgs, body : SUBSET Msgs]
       /\ PublishesOwnBody'
  <2> DEFINE own == [conn |-> c, msg |-> req[c].msg, body |-> req[c].body]
  <2>1. own \in [conn : Conns, msg : Msgs, body : SUBSET Msgs]
    BY <1>5 DEF Req
  <2>2. CASE published' = published
    BY <1>4, <2>2, HistoryKept DEF Inv, TypeOK
  <2>3. CASE published' # published
    <3>1. /\ published' = published \cup {own}
          /\ code = 200 /\ req[c].route \in Kafka
      BY <1>1, <2>3
    <3>2. req[c].body # {}
      BY <1>1, <3>1, HttpAssumption DEF ResponseCodes, Routes, NoRoute
    <3>3. req[c].body \subseteq 1 .. req[c].msg
      BY <1>5 DEF ConnInv, BodiesSent
    <3>4. ASSUME NEW p \in published'
          PROVE  p.body # {} /\ p.body \subseteq 1 .. p.msg
      <4>1. CASE p = own
        BY <3>2, <3>3, <4>1
      <4>2. CASE p \in published
        BY <4>2 DEF Inv, PublishesOwnBody
      <4> QED
        BY <3>1, <4>1, <4>2
    <3> QED
      BY <2>1, <3>1, <3>4 DEF Inv, TypeOK, PublishesOwnBody
  <2> QED
    BY <2>2, <2>3
<1>11. TypeOK'
  BY <1>4, <1>6, <1>7, <1>8, <1>9, <1>10 DEF TypeOK
<1>12. ConnInv(c)'
  <2>1. Unused(c)' /\ ValueOfRoute(c)' /\ UrlUsed(c)' /\ Numbered(c)'
    BY <1>3, <1>5, <1>6, <1>7, <1>8 DEF ConnInv, Unused, ValueOfRoute,
       UrlUsed, Numbered
  <2>2. Running' => Len(answered'[c]) <= 1
    <3>1. Running' => ~ tcp[c].writing
      BY <1>9 DEF Running
    <3>2. ~ tcp[c].writing => answered[c] = <<>>
      BY <1>3, <1>5 DEF ConnInv, AnswerClosing
    <3>3. answered[c] = <<>> => Len(answered'[c]) <= 1
      <4> SUFFICES ASSUME answered[c] = <<>> PROVE Len(answered'[c]) <= 1
        OBVIOUS
      <4>1. Len(answered'[c]) = 1
        BY <1>8
      <4> QED
        BY <4>1
    <3> QED
      BY <3>1, <3>2, <3>3
  <2>3. AnswerClosing(c)'
    BY <1>7, <1>8, <2>2 DEF AnswerClosing
  <2>4. ValuesCounted(c)' /\ BodiesSent(c)'
    BY <1>3, <1>5, <1>6, <1>7 DEF ConnInv, ValuesCounted, BodiesSent
  <2> QED
    BY <1>4, <2>1, <2>3, <2>4 DEF ConnInv
<1>13. ASSUME NEW d \in Conns, d # c PROVE ConnInv(d)'
  BY <1>3, <1>4, <1>6, <1>7, <1>8, <1>13, OthersKeep DEF Inv
<1>14. FaultOnlyIfProvoked'
  <2>1. tcp[c].writing => "early" \in peer'[c]
    BY <1>4, <1>5 DEF ConnInv, AnswerClosing
  <2> QED
    BY <1>9, <2>1 DEF FaultOnlyIfProvoked
<1> QED
  BY <1>10, <1>11, <1>12, <1>13, <1>14 DEF Inv

-----------------------------------------------------------------------------
(* Closing on an end of stream or on bad bytes keeps the invariant: a      *)
(* write still queued then is of an answer, so the peer was early.         *)
LEMMA ReadedClosesInv ==
  ASSUME Inv, NEW c \in Conns, NEW mark \in {"eof", "bad"},
         ReadedCloses(c, mark)
  PROVE  Inv'
<1>1. /\ Receives(c, {mark})
      /\ Running /\ tcp[c].state = "open"
      /\ tcp' = [tcp EXCEPT ![c] = Closing(@)]
      /\ UNCHANGED <<req, answered, published, fault>>
  BY DEF ReadedCloses, Receives
<1>2. /\ peer' \in [Conns -> SUBSET Marks]
      /\ \A d \in Conns : peer[d] \subseteq peer'[d]
      /\ \A d \in Conns : d # c => peer'[d] = peer[d]
      /\ answered[c] # <<>> => "early" \in peer'[c]
      /\ PeersKeepToConstants(c)'
  <2>1. {mark} \in SUBSET Marks
    BY DEF Marks
  <2> QED
    BY <1>1, <2>1, ReceivesPeer DEF Inv, ConnInv, PeersKeepToConstants
<1>3. tcp[c] \in Tcp /\ ConnInv(c)
  BY DEF Inv, TypeOK
<1>4. /\ tcp' \in [Conns -> Tcp]
      /\ \A d \in Conns : d # c => tcp'[d] = tcp[d]
      /\ tcp'[c].state = "closing"
      /\ tcp'[c].writing = tcp[c].writing
  BY <1>1, <1>3 DEF Inv, TypeOK, Tcp, Closing
<1>5. TypeOK'
  BY <1>1, <1>2, <1>4 DEF Inv, TypeOK
<1>6. ConnInv(c)'
  BY <1>1, <1>2, <1>3, <1>4 DEF ConnInv, Unused, ValueOfRoute,
     AnswerClosing, UrlUsed, ValuesCounted, BodiesSent, Numbered, Running
<1>7. ASSUME NEW d \in Conns, d # c PROVE ConnInv(d)'
  BY <1>1, <1>2, <1>4, <1>7, OthersKeep DEF Inv, Running
<1>8. FaultOnlyIfProvoked' /\ PublishesOwnBody'
  BY <1>1, <1>2, HistoryKept
<1> QED
  BY <1>5, <1>6, <1>7, <1>8 DEF Inv

(* After any other error the connection is read no more, and stays.        *)
LEMMA ReadedErrorInv ==
  ASSUME Inv, NEW c \in Conns, ReadedError(c)
  PROVE  Inv'
<1>1. /\ Running /\ tcp[c].state = "open"
      /\ tcp' = [tcp EXCEPT ![c] = [@ EXCEPT !.reading = FALSE]]
      /\ peer' = [peer EXCEPT ![c] = @ \cup {"reset"}]
      /\ UNCHANGED <<req, answered, published, fault>>
  BY DEF ReadedError
<1>2. /\ peer' \in [Conns -> SUBSET Marks]
      /\ \A d \in Conns : peer[d] \subseteq peer'[d]
      /\ \A d \in Conns : d # c => peer'[d] = peer[d]
      /\ "early" \in peer'[c] <=> "early" \in peer[c]
      /\ "split" \in peer'[c] <=> "split" \in peer[c]
  BY <1>1 DEF Inv, TypeOK, Marks
<1>3. tcp[c] \in Tcp /\ ConnInv(c)
  BY DEF Inv, TypeOK
<1>4. /\ tcp' \in [Conns -> Tcp]
      /\ \A d \in Conns : d # c => tcp'[d] = tcp[d]
      /\ tcp'[c].state = "open"
      /\ tcp'[c].writing = tcp[c].writing
  BY <1>1, <1>3 DEF Inv, TypeOK, Tcp
<1>5. TypeOK'
  BY <1>1, <1>2, <1>4 DEF Inv, TypeOK
<1>6. ConnInv(c)'
  BY <1>1, <1>2, <1>3, <1>4 DEF ConnInv, Unused, ValueOfRoute,
     AnswerClosing, UrlUsed, ValuesCounted, BodiesSent, Numbered,
     PeersKeepToConstants, Running
<1>7. ASSUME NEW d \in Conns, d # c PROVE ConnInv(d)'
  BY <1>1, <1>2, <1>4, <1>7, OthersKeep DEF Inv, Running
<1>8. FaultOnlyIfProvoked' /\ PublishesOwnBody'
  BY <1>1, <1>2, HistoryKept
<1> QED
  BY <1>5, <1>6, <1>7, <1>8 DEF Inv

(* A reported write closes the connection, which only an early peer can    *)
(* have had closed already.                                                *)
LEMMA ResWritedCbInv ==
  ASSUME Inv, NEW c \in Conns, ResWritedCb(c)
  PROVE  Inv'
<1>1. /\ Running
      /\ tcp[c].writing
      /\ tcp' = [tcp EXCEPT ![c] = [Closing(@) EXCEPT !.writing = FALSE]]
      /\ fault' = IF tcp[c].state = "open" THEN fault ELSE "close"
      /\ UNCHANGED <<req, answered, published, peer>>
  BY DEF ResWritedCb
<1>2. tcp[c] \in Tcp /\ ConnInv(c)
  BY DEF Inv, TypeOK
<1>3. /\ answered[c] # <<>>
      /\ \/ tcp[c].state = "open"
         \/ tcp[c].state = "closing" /\ "early" \in peer[c]
  BY <1>1, <1>2 DEF ConnInv, AnswerClosing
<1>4. /\ tcp' \in [Conns -> Tcp]
      /\ \A d \in Conns : d # c => tcp'[d] = tcp[d]
      /\ tcp'[c].state = "closing"
      /\ ~ tcp'[c].writing
  <2>1. Closing(tcp[c]) \in Tcp /\ Closing(tcp[c]).state = "closing"
    BY <1>2 DEF Closing, Tcp
  <2> QED
    BY <1>1, <2>1 DEF Inv, TypeOK, Tcp
<1>5. TypeOK'
  BY <1>1, <1>4 DEF Inv, TypeOK
<1>6. ConnInv(c)'
  BY <1>1, <1>2, <1>3, <1>4 DEF ConnInv, Unused, ValueOfRoute,
     AnswerClosing, UrlUsed, ValuesCounted, BodiesSent, Numbered,
     PeersKeepToConstants, Running
<1>7. ASSUME NEW d \in Conns, d # c PROVE ConnInv(d)'
  BY <1>1, <1>4, <1>7, OthersKeep DEF Inv, Running
<1>8. FaultOnlyIfProvoked'
  BY <1>1, <1>3 DEF Inv, FaultOnlyIfProvoked
<1>9. PublishesOwnBody'
  BY <1>1 DEF Inv, PublishesOwnBody
<1> QED
  BY <1>5, <1>6, <1>7, <1>8, <1>9 DEF Inv

(* The release frees the value of the route, which is there to be freed.   *)
LEMMA ReqReleaseInv ==
  ASSUME Inv, NEW c \in Conns, ReqRelease(c)
  PROVE  Inv'
<1>1. /\ Running
      /\ tcp[c].state = "closing"
      /\ ~ tcp[c].writing
      /\ tcp' = [tcp EXCEPT ![c] = [@ EXCEPT !.state = "closed"]]
      /\ req' = [req EXCEPT ![c] = Released(@)]
      /\ UNCHANGED <<answered, published, peer, fault>>
  BY DEF ReqRelease
<1>2. tcp[c] \in Tcp /\ req[c] \in Req /\ ConnInv(c)
  BY DEF Inv, TypeOK
<1>3. /\ tcp' \in [Conns -> Tcp]
      /\ \A d \in Conns : d # c => tcp'[d] = tcp[d]
      /\ tcp'[c].state = "closed"
      /\ ~ tcp'[c].writing
  BY <1>1, <1>2 DEF Inv, TypeOK, Tcp
<1>4. req[c].route # NoRoute => req[c].values - 1 \in Nat
  BY <1>1, <1>2 DEF ConnInv, ValueOfRoute, Req
<1>5. /\ Released(req[c]) \in Req
      /\ Released(req[c]).phase = req[c].phase
      /\ Released(req[c]).msg = req[c].msg
      /\ Released(req[c]).url = req[c].url
      /\ Released(req[c]).route = req[c].route
      /\ Released(req[c]).body = req[c].body
      /\ Released(req[c]).values = IF req[c].route = NoRoute
                                   THEN req[c].values ELSE req[c].values - 1
  BY <1>2, <1>4 DEF Released, Req
<1>6. /\ req' \in [Conns -> Req]
      /\ \A d \in Conns : d # c => req'[d] = req[d]
      /\ req'[c] = Released(req[c])
  BY <1>1, <1>5 DEF Inv, TypeOK
<1>7. TypeOK'
  BY <1>1, <1>3, <1>6 DEF Inv, TypeOK
<1>8. ConnInv(c)'
  <2>1. /\ Unused(c)' /\ ValueOfRoute(c)' /\ AnswerClosing(c)'
        /\ UrlUsed(c)' /\ Numbered(c)' /\ PeersKeepToConstants(c)'
    BY <1>1, <1>2, <1>3, <1>5, <1>6 DEF ConnInv, Unused, ValueOfRoute,
       AnswerClosing, UrlUsed, Numbered, PeersKeepToConstants, Running
  <2>2. ValuesCounted(c)
    BY <1>2 DEF ConnInv
  <2>3. req[c].msg \in Nat /\ req[c].values \in Nat
    BY <1>2, HttpAssumption DEF Req
  <2>4. ValuesCounted(c)'
    BY <1>1, <1>3, <1>4, <1>5, <1>6, <2>2, <2>3 DEF ValuesCounted
  <2>5. BodiesSent(c)'
    BY <1>2, <1>5, <1>6 DEF ConnInv, BodiesSent
  <2> QED
    BY <2>1, <2>4, <2>5 DEF ConnInv
<1>9. ASSUME NEW d \in Conns, d # c PROVE ConnInv(d)'
  BY <1>1, <1>3, <1>6, <1>9, OthersKeep DEF Inv, Running
<1>10. FaultOnlyIfProvoked' /\ PublishesOwnBody'
  BY <1>1, HistoryKept
<1> QED
  BY <1>7, <1>8, <1>9, <1>10 DEF Inv

-----------------------------------------------------------------------------
(* Every step of the program keeps the invariant.                          *)
THEOREM NextInv == Inv /\ [Next]_vars => Inv'
<1> SUFFICES ASSUME Inv, [Next]_vars PROVE Inv'
  OBVIOUS
<1>1. CASE Next
  <2>1. PICK c \in Conns :
          \/ ConnectionCb(c) \/ AcceptFails(c)
          \/ OnUrl(c)
          \/ OnHeadersComplete(c)
          \/ OnBody(c)
          \/ OnMessageComplete(c)
          \/ ReadedEof(c) \/ ReadedBad(c)
          \/ ReadedNothing(c)
          \/ ReadedError(c)
          \/ ResWritedCb(c)
          \/ ReqRelease(c)
    BY <1>1 DEF Next
  <2>2. CASE ConnectionCb(c) \/ AcceptFails(c)
    BY <2>2, AcceptingInv
  <2>3. CASE OnUrl(c)
    BY <2>3, OnUrlInv
  <2>4. CASE OnHeadersComplete(c)
    BY <2>4, OnHeadersCompleteInv
  <2>5. CASE OnBody(c)
    BY <2>5, OnBodyInv
  <2>6. CASE OnMessageComplete(c)
    BY <2>6, OnMessageCompleteInv
  <2>7. CASE ReadedEof(c) \/ ReadedBad(c)
    BY <2>7, ReadedClosesInv DEF ReadedEof, ReadedBad
  <2>8. CASE ReadedNothing(c)
    BY <2>8, ReadedNothingInv
  <2>9. CASE ReadedError(c)
    BY <2>9, ReadedErrorInv
  <2>10. CASE ResWritedCb(c)
    BY <2>10, ResWritedCbInv
  <2>11. CASE ReqRelease(c)
    BY <2>11, ReqReleaseInv
  <2> QED
    BY <2>1, <2>2, <2>3, <2>4, <2>5, <2>6, <2>7, <2>8, <2>9, <2>10, <2>11
<1>2. CASE UNCHANGED vars
  <2>1. TypeOK' /\ FaultOnlyIfProvoked' /\ PublishesOwnBody'
    BY <1>2 DEF vars, Inv, TypeOK, FaultOnlyIfProvoked, PublishesOwnBody
  <2>2. ASSUME NEW c \in Conns PROVE ConnInv(c)'
    BY <1>2, OthersKeep DEF vars, Inv, Running
  <2> QED
    BY <2>1, <2>2 DEF Inv
<1> QED
  BY <1>1, <1>2

(* So the invariant holds of every behaviour.                              *)
THEOREM SpecInv == Spec => []Inv
  BY InitInv, NextInv, PTL DEF Spec

(* Every variable keeps to its type; in particular no release counts the   *)
(* route values of a connection below zero.                                *)
THEOREM TypeCorrect == Spec => []TypeOK
<1>1. Inv => TypeOK
  BY DEF Inv
<1> QED
  BY <1>1, SpecInv, PTL

(* Whatever number of connections, routes and requests there is, the       *)
(* process only leaves defined behaviour after a peer sent something       *)
(* behind the request it waits an answer for, or a URL in pieces.          *)
THEOREM FaultsAreProvoked == Spec => []FaultOnlyIfProvoked
<1>1. Inv => FaultOnlyIfProvoked
  BY DEF Inv
<1> QED
  BY <1>1, SpecInv, PTL

(* While the process behaves no connection is answered twice.              *)
THEOREM OneAnswer == Spec => []AnsweredOnce
<1>1. Inv => AnsweredOnce
  BY DEF Inv, ConnInv, AnswerClosing, AnsweredOnce
<1> QED
  BY <1>1, SpecInv, PTL

(* A closed connection leaves at most one route value allocated for each   *)
(* request after its first: none when the peer waited for its answer.      *)
THEOREM NothingLeftBehind == Spec => []ValuesReleased
<1>1. Inv => ValuesReleased
  BY DEF Inv, ConnInv, ValuesCounted, ValuesReleased
<1> QED
  BY <1>1, SpecInv, PTL

(* What is published for a request is never empty and holds bytes of no    *)
(* later request; of a connection's first request it is its own body.      *)
THEOREM OwnBodyPublished == Spec => []PublishesOwnBody
<1>1. Inv => PublishesOwnBody
  BY DEF Inv
<1> QED
  BY <1>1, SpecInv, PTL

(* Every peer waits for its answer, and URLs come in one piece. *)
WellBehavedPeers == Eager = {} /\ Splitting = {}

(* Such peers have no marks that a fault could be put down to.             *)
LEMMA NoMarks ==
  ASSUME WellBehavedPeers, Inv
  PROVE  Running /\ \A c \in Conns : "early" \notin peer[c]
<1>1. \A c \in Conns : peer[c] \cap {"early", "split"} = {}
  BY DEF WellBehavedPeers, Inv, ConnInv, PeersKeepToConstants
<1> QED
  BY <1>1 DEF Inv, TypeOK, FaultOnlyIfProvoked, Running

(* With such peers the behaviour of the process is always defined.         *)
THEOREM NoFaults == WellBehavedPeers => (Spec => []Running)
<1> SUFFICES ASSUME WellBehavedPeers PROVE Spec => []Running
  OBVIOUS
<1>1. Inv => Running
  BY NoMarks
<1> QED
  BY <1>1, SpecInv, PTL

-----------------------------------------------------------------------------
(* A connection whose state and answer a step leaves alone shows the same  *)
(* exchange after it.                                                      *)
LEMMA SameExchange ==
  ASSUME NEW c \in Conns, tcp'[c].state = tcp[c].state,
         answered'[c] = answered[c]
  PROVE  Stage(c)' = Stage(c) /\ AnswerOf(c)' = AnswerOf(c)
BY DEF Stage, AnswerOf

(* So a step that does this to all of them is a stutter of the exchange.   *)
LEMMA Stutters ==
  ASSUME \A c \in Conns : Stage(c)' = Stage(c) /\ AnswerOf(c)' = AnswerOf(c)
  PROVE  UNCHANGED Exchange!vars
BY DEF Exchange!vars, stages, answers

(* A step that changes what one connection shows changes the exchange of   *)
(* that connection alone.                                                  *)
LEMMA OneMoves ==
  ASSUME NEW c \in Conns,
         \A d \in Conns : d # c =>
           Stage(d)' = Stage(d) /\ AnswerOf(d)' = AnswerOf(d)
  PROVE  /\ stages' = [stages EXCEPT ![c] = Stage(c)']
         /\ answers' = [answers EXCEPT ![c] = AnswerOf(c)']
         /\ stages[c] = Stage(c)
         /\ AnswerOf(c)' = AnswerOf(c) => answers' = answers
BY DEF stages, answers

(* The moves of a connection that the exchange allows are its steps.       *)
LEMMA MovesAreSteps ==
  ASSUME NEW c \in Conns,
         \A d \in Conns : d # c =>
           Stage(d)' = Stage(d) /\ AnswerOf(d)' = AnswerOf(d),
         \/ /\ AnswerOf(c)' = AnswerOf(c)
            /\ \/ Stage(c) = "absent" /\ Stage(c)' \in {"serving", "refused"}
               \/ /\ Stage(c) \in {"serving", "answered"}
                  /\ Stage(c)' = "released"
         \/ /\ AnswerOf(c)' \in Codes
            /\ Stage(c) = "serving" /\ Stage(c)' = "answered"
  PROVE  Exchange!Next
BY OneMoves DEF Exchange!Next, Exchange!Accept, Exchange!Refuse,
   Exchange!Answer, Exchange!Abandon, Exchange!Release, Exchange!Move

(* With peers that wait for their answers, every step of the program is a  *)
(* step of the exchange or leaves it as it is.                             *)
LEMMA StepsAreExchanges ==
  ASSUME WellBehavedPeers, Inv, [Next]_vars
  PROVE  [Exchange!Next]_(Exchange!vars)
<1>1. CASE UNCHANGED vars
  BY <1>1, SameExchange, Stutters DEF vars
<1>2. CASE Next
  <2>1. PICK c \in Conns :
          \/ ConnectionCb(c)
          \/ AcceptFails(c)
          \/ OnUrl(c) \/ OnHeadersComplete(c) \/ OnBody(c)
          \/ ReadedNothing(c) \/ ReadedError(c)
          \/ OnMessageComplete(c)
          \/ ReadedEof(c) \/ ReadedBad(c)
          \/ ResWritedCb(c)
          \/ ReqRelease(c)
    BY <1>2 DEF Next
  <2>2. /\ Running
        /\ "early" \notin peer[c]
        /\ Eager = {}
        /\ tcp \in [Conns -> Tcp] /\ tcp[c] \in Tcp
        /\ answered \in [Conns -> Seq(Codes)] /\ answered[c] \in Seq(Codes)
        /\ ConnInv(c)
    BY NoMarks DEF Inv, TypeOK, WellBehavedPeers
  <2>3. CASE ConnectionCb(c)
    <3>1. /\ tcp' = [tcp EXCEPT ![c] = [@ EXCEPT !.state = "open",
                                                 !.reading = TRUE]]
          /\ tcp[c].state = "none"
          /\ UNCHANGED answered
      BY <2>3 DEF ConnectionCb
    <3>2. /\ tcp'[c].state = "open"
          /\ \A d \in Conns : d # c => tcp'[d] = tcp[d]
      BY <2>2, <3>1 DEF Tcp
    <3>3. answered[c] = <<>>
      BY <2>2, <3>1 DEF ConnInv, Unused
    <3>4. Stage(c) = "absent" /\ Stage(c)' = "serving"
      BY <3>1, <3>2, <3>3 DEF Stage
    <3> QED
      BY <3>1, <3>2, <3>4, SameExchange, MovesAreSteps DEF AnswerOf
  <2>4. CASE AcceptFails(c)
    <3>1. /\ tcp' = [tcp EXCEPT ![c] = [@ EXCEPT !.state = "leaked"]]
          /\ tcp[c].state = "none"
          /\ UNCHANGED answered
      BY <2>4 DEF AcceptFails
    <3>2. /\ tcp'[c].state = "leaked"
          /\ \A d \in Conns : d # c => tcp'[d] = tcp[d]
      BY <2>2, <3>1 DEF Tcp
    <3>3. Stage(c) = "absent" /\ Stage(c)' = "refused"
      BY <3>1, <3>2 DEF Stage
    <3> QED
      BY <3>1, <3>2, <3>3, SameExchange, MovesAreSteps DEF AnswerOf
  <2>5. CASE \/ OnUrl(c) \/ OnHeadersComplete(c) \/ OnBody(c)
             \/ ReadedNothing(c) \/ ReadedError(c)
    <3>1. UNCHANGED answered
      BY <2>5 DEF OnUrl, OnHeadersComplete, OnBody, ReadedNothing, ReadedError
    <3>2. \A d \in Conns : tcp'[d].state = tcp[d].state
      <4>1. CASE ReadedError(c)
        <5>1. tcp' = [tcp EXCEPT ![c] = [@ EXCEPT !.reading = FALSE]]
          BY <4>1 DEF ReadedError
        <5> QED
          BY <2>2, <5>1 DEF Tcp
      <4>2. CASE ~ ReadedError(c)
        BY <2>5, <4>2 DEF OnUrl, OnHeadersComplete, OnBody, ReadedNothing
      <4> QED
        BY <4>1, <4>2
    <3> QED
      BY <3>1, <3>2, SameExchange, Stutters
  <2>6. CASE OnMessageComplete(c)
    <3>1. PICK code \in ResponseCodes(req[c]) : Response(c, code)
      BY <2>6 DEF OnMessageComplete
    <3>2. answered[c] = <<>> /\ tcp[c].state = "open"
      BY <2>2, <2>6 DEF OnMessageComplete, Receives
    <3>3. code \in Codes
      <4>1. req[c] \in Req
        BY DEF Inv, TypeOK
      <4> QED
        BY <3>1, <4>1 DEF ResponseCodes, Codes, Req
    <3>4. /\ answered'[c] = <<code>>
          /\ \A d \in Conns : d # c => answered'[d] = answered[d]
      BY <2>2, <3>1, <3>2, <3>3 DEF Response
    <3>5. \A d \in Conns : tcp'[d].state = tcp[d].state
      <4>1. tcp' = [tcp EXCEPT ![c] = [@ EXCEPT !.writing = TRUE]]
        BY <3>1 DEF Response
      <4> QED
        BY <2>2, <4>1 DEF Tcp
    <3>6. answered'[c] # <<>> /\ answered'[c][1] = code
      BY <3>4
    <3>7. Stage(c) = "serving" /\ Stage(c)' = "answered"
      BY <3>2, <3>5, <3>6 DEF Stage
    <3>8. AnswerOf(c)' \in Codes
      BY <3>3, <3>6 DEF AnswerOf
    <3> QED
      BY <3>4, <3>5, <3>7, <3>8, SameExchange, MovesAreSteps
  <2>7. CASE ReadedEof(c) \/ ReadedBad(c)
    <3>1. /\ tcp' = [tcp EXCEPT ![c] = Closing(@)]
          /\ tcp[c].state = "open" /\ answered[c] = <<>>
          /\ UNCHANGED answered
      BY <2>2, <2>7 DEF ReadedEof, ReadedBad, ReadedCloses, Receives
    <3>2. /\ tcp'[c].state = "closing"
          /\ \A d \in Conns : d # c => tcp'[d] = tcp[d]
      BY <2>2, <3>1 DEF Closing, Tcp
    <3>3. Stage(c) = "serving" /\ Stage(c)' = "released"
      BY <3>1, <3>2 DEF Stage
    <3> QED
      BY <3>1, <3>2, <3>3, SameExchange, MovesAreSteps DEF AnswerOf
  <2>8. CASE ResWritedCb(c)
    <3>1. /\ tcp' = [tcp EXCEPT ![c] = [Closing(@) EXCEPT !.writing = FALSE]]
          /\ tcp[c].writing
          /\ UNCHANGED answered
      BY <2>8 DEF ResWritedCb
    <3>2. tcp[c].state = "open" /\ answered[c] # <<>>
      BY <2>2, <3>1 DEF ConnInv, AnswerClosing
    <3>3. Closing(tcp[c]) \in Tcp /\ Closing(tcp[c]).state = "closing"
      BY <2>2 DEF Closing, Tcp
    <3>4. /\ tcp'[c].state = "closing"
          /\ \A d \in Conns : d # c => tcp'[d] = tcp[d]
      BY <2>2, <3>1, <3>3 DEF Tcp
    <3>5. Stage(c) = "answered" /\ Stage(c)' = "answered"
      BY <3>1, <3>2, <3>4 DEF Stage
    <3>6. AnswerOf(c)' = AnswerOf(c)
      BY <3>1 DEF AnswerOf
    <3>7. \A d \in Conns : Stage(d)' = Stage(d) /\ AnswerOf(d)' = AnswerOf(d)
      BY <3>1, <3>4, <3>5, <3>6, SameExchange
    <3> QED
      BY <3>7, Stutters
  <2>9. CASE ReqRelease(c)
    <3>1. /\ tcp' = [tcp EXCEPT ![c] = [@ EXCEPT !.state = "closed"]]
          /\ tcp[c].state = "closing"
          /\ UNCHANGED answered
      BY <2>9 DEF ReqRelease
    <3>2. /\ tcp'[c].state = "closed"
          /\ \A d \in Conns : d # c => tcp'[d] = tcp[d]
      BY <2>2, <3>1 DEF Tcp
    <3>3. /\ Stage(c) = IF answered[c] = <<>> THEN "released" ELSE "answered"
          /\ Stage(c)' = "released"
      BY <3>1, <3>2 DEF Stage
    <3>4. AnswerOf(c)' = AnswerOf(c)
      BY <3>1 DEF AnswerOf
    <3>5. \A d \in Conns : d # c =>
            Stage(d)' = Stage(d) /\ AnswerOf(d)' = AnswerOf(d)
      BY <3>1, <3>2, SameExchange
    <3>6. CASE answered[c] = <<>>
      BY <3>3, <3>4, <3>5, <3>6, Stutters
    <3>7. CASE answered[c] # <<>>
      BY <3>3, <3>4, <3>5, <3>7, MovesAreSteps
    <3> QED
      BY <3>6, <3>7
  <2> QED
    BY <2>1, <2>3, <2>4, <2>5, <2>6, <2>7, <2>8, <2>9
<1> QED
  BY <1>1, <1>2

(* The module keeps to the exchange: with peers that wait for their        *)
(* answers, every connection is served, answered at most once, and then    *)
(* released (that it is released at all is left to the model checker).     *)
THEOREM KeepsToExchange ==
  WellBehavedPeers =>
    (Spec => Exchange!Init /\ [][Exchange!Next]_(Exchange!vars))
<1> SUFFICES ASSUME WellBehavedPeers
             PROVE  Spec => Exchange!Init /\ [][Exchange!Next]_(Exchange!vars)
  OBVIOUS
<1>1. Init => Exchange!Init
  BY DEF Init, Exchange!Init, Exchange!NoAnswer, stages, answers, Stage,
         AnswerOf
<1>2. Inv /\ [Next]_vars => [Exchange!Next]_(Exchange!vars)
  BY StepsAreExchanges
<1> QED
  BY <1>1, <1>2, SpecInv, PTL DEF Spec
=============================================================================
