---------------------------- MODULE FsHttpKafka ----------------------------
(***************************************************************************)
(* Publishing a complete request of a kafka route (http/kafka.c): choosing *)
(* the topic and the key, the calls to librdkafka, each of which may fail, *)
(* the response, and what is released on every path.                       *)
(*                                                                         *)
(* done_cb runs in one callback of the loop; the steps are its calls.      *)
(* They interleave with librdkafka's own thread, which delivers a message  *)
(* that was produced, or not, as the brokers let it.                       *)
(***************************************************************************)
EXTENDS Naturals, Sequences

CONSTANTS
  ParamFields,  \* what topic_param and key_param may hold: "unset", "set"
                \* or "junk", memory that nothing has written
  DefaultFields \* what default_topic and default_key may hold, likewise

Fields == {"unset", "set", "junk"}

ASSUME KafkaAssumption ==
  /\ ParamFields \subseteq Fields
  /\ DefaultFields \subseteq Fields

VARIABLES
  pc,        \* the call done_cb is at
  given,     \* the request and the configuration of its route
  topic,     \* where the topic came from, or "none"
  key,       \* where the key came from, or "none"
  heap,      \* what this request has allocated, by name
  responses, \* the status codes handed to uv_write
  message,   \* what became of the message given to librdkafka
  fault      \* whether memory that nothing has written was used

vars == <<pc, given, topic, key, heap, responses, message, fault>>

-----------------------------------------------------------------------------
Labels == {"get_topic", "get_key", "body", "conf_set", "new", "topic_conf_new",
           "topic_new", "produce", "flush", "respond", "destroy_rk",
           "destroy_rkt", "free_topic", "free_key", "done"}

Origins == {"none", "path", "param", "default"}

Names == {"rkconf", "rk", "rktconf", "rkt", "topic_substring", "key_substring"}

(* A named substring of the path: no such group or none that matched, an   *)
(* empty string (allocated by pcre like any other), or text.               *)
Substrings == {"absent", "empty", "text"}

Given == [topic_substring : Substrings, key_substring : Substrings,
          topic_param : ParamFields, default_topic : DefaultFields,
          key_param : ParamFields, default_key : DefaultFields,
          topic_header : BOOLEAN, key_header : BOOLEAN,
          body : BOOLEAN]

(* topic_param and default_topic are set to NULL when the block is opened. *)
Initialised(g) == g.topic_param # "junk" /\ g.default_topic # "junk"

TypeOK ==
  /\ pc \in Labels
  /\ given \in Given
  /\ topic \in Origins
  /\ key \in Origins
  /\ heap \in [Names -> {"none", "live", "given", "freed", "wrong"}]
  /\ responses \in Seq({200, 400, 500})
  /\ message \in {"none", "queued", "delivered", "dropped"}
  /\ fault \in {"none", "junk"}

Init ==
  /\ pc = "get_topic"
  /\ given \in {g \in Given : Initialised(g)}
  /\ topic = "none"
  /\ key = "none"
  /\ heap = [n \in Names |-> "none"]
  /\ responses = <<>>
  /\ message = "none"
  /\ fault = "none"

-----------------------------------------------------------------------------
Goto(from, to) == fault = "none" /\ pc = from /\ pc' = to

(* Handing an object to librdkafka ("given") ends our duty to free it;     *)
(* freeing what is not live is a use of freed or foreign memory ("wrong"). *)
Freed(h, name) ==
  [h EXCEPT ![name] = IF @ = "live" THEN "freed" ELSE "wrong"]

Respond(code) == responses' = Append(responses, code)

-----------------------------------------------------------------------------
(* Where the topic, or the key, comes from.                                *)

ChosenParamFirst(substring, param, header, default) ==
  CASE param = "set" /\ header -> "param"
    [] ~(param = "set" /\ header) /\ substring = "text" -> "path"
    [] ~(param = "set" /\ header) /\ substring # "text" ->
         IF default = "set" THEN "default" ELSE "none"

ChosenUnchecked(substring, param, header, default) ==
  IF substring = "text" THEN "path"
  ELSE IF param = "set" /\ header THEN "param" ELSE default

Chosen(substring, param, header, default) ==
  CASE substring = "text" -> "path"
    [] substring # "text" /\ param = "set" /\ header -> "param"
    [] substring # "text" /\ ~(param = "set" /\ header) ->
         IF default = "set" THEN "default" ELSE "none"

(* Unwritten memory is used when the path has no text and the parameter's  *)
(* name is junk, or when the parameter was not found and the default is.   *)
ReadsJunk(substring, param, header, default) ==
  /\ substring # "text"
  /\ \/ param = "junk"
     \/ ~(param = "set" /\ header) /\ default = "junk"

(* pcre allocates a substring for every group that took part in the match. *)
Extracted(h, name, substring) ==
  IF substring = "absent" THEN h ELSE [h EXCEPT ![name] = "live"]

GetTopic ==
  LET origin == Chosen(given.topic_substring, given.topic_param,
                       given.topic_header, given.default_topic)
  IN  /\ Goto("get_topic", IF origin = "none" THEN "done" ELSE "get_key")
      /\ topic' = origin
      /\ heap' = Extracted(heap, "topic_substring", given.topic_substring)
      /\ IF origin = "none" THEN Respond(400) ELSE UNCHANGED responses
      /\ UNCHANGED <<given, key, message, fault>>

(* A request without a key is published without one. *)
GetKey ==
  /\ Goto("get_key", "body")
  /\ key' = Chosen(given.key_substring, given.key_param,
                   given.key_header, given.default_key)
  /\ heap' = Extracted(heap, "key_substring", given.key_substring)
  /\ fault' \in IF ReadsJunk(given.key_substring, given.key_param,
                             given.key_header, given.default_key)
                THEN {"none", "junk"} ELSE {"none"}
  /\ UNCHANGED <<given, topic, responses, message>>

-----------------------------------------------------------------------------
(* publish.  A failure is answered and goes to failed, which destroys what *)
(* has been created.                                                       *)

FailedKeepsHandles(h) == "free_topic"

Failed(h) ==
  CASE h["rk"] = "live" -> "destroy_rk"
    [] h["rk"] # "live" /\ h["rkt"] = "live" -> "destroy_rkt"
    [] h["rk"] # "live" /\ h["rkt"] # "live" -> "free_topic"

FailsSilently(from, code) ==
  /\ Goto(from, Failed(heap))
  /\ UNCHANGED <<given, topic, key, heap, responses, message, fault>>

Fails(from, code) ==
  /\ Goto(from, Failed(heap))
  /\ Respond(code)
  /\ UNCHANGED <<given, topic, key, heap, message, fault>>

Succeeds(from, to, allocated) ==
  /\ Goto(from, to)
  /\ heap' = allocated
  /\ UNCHANGED <<given, topic, key, responses, message, fault>>

CheckBody ==
  IF given.body
  THEN Succeeds("body", "conf_set", [heap EXCEPT !["rkconf"] = "live"])
  ELSE Fails("body", 400)

(* One of the items of the block's config is refused, or none is. *)
ConfSet == Fails("conf_set", 500) \/ Succeeds("conf_set", "new", heap)

(* The producer owns its configuration. *)
New ==
  \/ Fails("new", 500)
  \/ Succeeds("new", "topic_conf_new",
              [heap EXCEPT !["rk"] = "live", !["rkconf"] = "given"])

TopicConfNew ==
  \/ Fails("topic_conf_new", 500)
  \/ Succeeds("topic_conf_new", "topic_new",
              [heap EXCEPT !["rktconf"] = "live"])

TopicNew ==
  \/ Fails("topic_new", 500)
  \/ Succeeds("topic_new", "produce",
              [heap EXCEPT !["rkt"] = "live", !["rktconf"] = "given"])

ProduceUnchecked ==
  /\ Goto("produce", "flush")
  /\ message' \in {"none", "queued"}
  /\ UNCHANGED <<given, topic, key, heap, responses, fault>>

(* The payload is copied into librdkafka's queue. *)
Produce ==
  \/ Fails("produce", 500)
  \/ /\ Goto("produce", "flush")
     /\ message' = "queued"
     /\ UNCHANGED <<given, topic, key, heap, responses, fault>>

(* librdkafka's thread hands the message to a broker. *)
Deliver ==
  /\ message = "queued"
  /\ message' = "delivered"
  /\ UNCHANGED <<pc, given, topic, key, heap, responses, fault>>

FlushForever ==
  /\ message = "delivered"
  /\ Goto("flush", "respond")
  /\ UNCHANGED <<given, topic, key, heap, responses, message, fault>>

(* flush returns once nothing is queued, or after ten seconds; publish     *)
(* does not look at which it was.                                          *)
Flush ==
  /\ Goto("flush", "respond")
  /\ UNCHANGED <<given, topic, key, heap, responses, message, fault>>

RespondOk ==
  /\ Goto("respond", "destroy_rk")
  /\ Respond(200)
  /\ UNCHANGED <<given, topic, key, heap, message, fault>>

-----------------------------------------------------------------------------
(* What is released.  Destroying the producer drops what it still queues.  *)

DestroyRk ==
  /\ Goto("destroy_rk",
          IF heap["rkt"] = "live" THEN "destroy_rkt" ELSE "free_topic")
  /\ heap' = Freed(heap, "rk")
  /\ message' = IF message = "queued" THEN "dropped" ELSE message
  /\ UNCHANGED <<given, topic, key, responses, fault>>

DestroyRkt ==
  /\ Goto("destroy_rkt", "free_topic")
  /\ heap' = Freed(heap, "rkt")
  /\ UNCHANGED <<given, topic, key, responses, message, fault>>

FreesTopicNever == FALSE

FreesTopic == topic = "path"

FreeTopic ==
  /\ Goto("free_topic", "free_key")
  /\ heap' = IF FreesTopic THEN Freed(heap, "topic_substring") ELSE heap
  /\ UNCHANGED <<given, topic, key, responses, message, fault>>

(* key_in says "path" also when no key was found at all; the pointer then  *)
(* is NULL or an empty substring.                                          *)
FreesKey ==
  \/ key = "path"
  \/ key = "none" /\ heap["key_substring"] = "live"

FreeKey ==
  /\ Goto("free_key", "done")
  /\ heap' = IF FreesKey THEN Freed(heap, "key_substring") ELSE heap
  /\ UNCHANGED <<given, topic, key, responses, message, fault>>

-----------------------------------------------------------------------------
Next ==
  \/ GetTopic \/ GetKey
  \/ CheckBody \/ ConfSet \/ New \/ TopicConfNew \/ TopicNew
  \/ Produce \/ Deliver \/ Flush \/ RespondOk
  \/ DestroyRk \/ DestroyRkt \/ FreeTopic \/ FreeKey

(* The callback runs to its end; whether a broker ever takes the message   *)
(* is not for the program to say.                                          *)
DoneCb == Next /\ pc' # pc

Spec == Init /\ [][Next]_vars /\ WF_vars(DoneCb)

-----------------------------------------------------------------------------
(* Properties. *)

Finished == pc = "done"

(* The callback keeps what HttpRoute promises, whatever fails and wherever *)
(* it does: a request answered twice hands its uv_write_t to libuv twice,  *)
(* one not answered keeps its connection for ever, and one answered with   *)
(* an error is sent again, so its message must not have been produced.     *)
Route ==
  INSTANCE HttpRoute WITH answers <- responses, ended <- Finished

ImplementsRoute == Route!Spec

(* The priorities of README.md: the path over the request's header over    *)
(* the default; a request is refused for its topic only without all three. *)
TopicByPriority ==
  Finished /\ fault = "none" =>
    /\ topic = "path" <=> given.topic_substring = "text"
    /\ topic = "default" =>
         ~(given.topic_header /\ given.topic_param = "set")
    /\ topic = "none" =>
         given.default_topic # "set" /\ responses = <<400>> /\ message = "none"

(* Nothing is freed that is not ours or not any more, and on every path    *)
(* what librdkafka made for the request is destroyed.                      *)
HandlesDestroyed ==
  /\ \A n \in Names : heap[n] # "wrong"
  /\ Finished => heap["rk"] # "live" /\ heap["rkt"] # "live"

(* What a request does leave behind: a configuration that a refused item   *)
(* or a failed call kept from librdkafka, or the substring of a group that *)
(* matched nothing.                                                        *)
LeaksOnlyOnFailure ==
  Finished =>
    /\ responses = <<200>> => heap["rkconf"] = "given" /\ heap["rktconf"] = "given"
    /\ heap["topic_substring"] = "live" => given.topic_substring = "empty"
    /\ heap["key_substring"] = "live" =>
         given.key_substring = "empty" /\ key \in {"param", "default"}

(* The callback ends: no call waits for a broker for ever.                 *)
Terminates == <>(Finished \/ fault # "none")

(* README.md: the request is turned into a Kafka message that is delivered *)
(* to the Kafka queue.  So a peer that reads 200 has its message there.    *)
OkMeansDelivered ==
  Finished /\ responses = <<200>> => message = "delivered"
=============================================================================
