------------------------- MODULE FsHttpKafka_proofs -------------------------
(***************************************************************************)
(* Proofs about FsHttpKafka, for every configuration and request.          *)
(*                                                                         *)
(* The inductive invariant says what each call of done_cb and publish may  *)
(* rely on: which handles exist there, whether there is a message, and     *)
(* whether the peer has been answered.                                     *)
(***************************************************************************)
EXTENDS FsHttpKafka, TLAPS

BeforeProduce == {"get_topic", "get_key", "body", "conf_set", "new",
                  "topic_conf_new", "topic_new", "produce"}

BeforeAnswer == BeforeProduce \cup {"flush", "respond"}

BeforeCleanup == BeforeAnswer \cup {"destroy_rk"}

(* The callback answers once, on its way to the cleanup.                   *)
AnsweredOnTheWay ==
  /\ pc \in BeforeAnswer => responses = <<>>
  /\ pc \notin BeforeAnswer => responses \in {<<200>>, <<400>>, <<500>>}

TopicOrigin == Chosen(given.topic_substring, given.topic_param,
                      given.topic_header, given.default_topic)

KeyOrigin == Chosen(given.key_substring, given.key_param,
                    given.key_header, given.default_key)

(* The topic and the key are those that were chosen; a request without a   *)
(* topic has ended with its answer.                                        *)
ChoicesMade ==
  /\ topic = IF pc = "get_topic" THEN "none" ELSE TopicOrigin
  /\ key = IF pc \in {"get_topic", "get_key"} \/ topic = "none"
           THEN "none" ELSE KeyOrigin
  /\ topic = "none" =>
       \/ pc = "get_topic"
       \/ pc = "done" /\ responses = <<400>>

(* There is a message exactly from produce on, and an answer tells so; it  *)
(* no longer waits once the producer is destroyed.                         *)
MessageTold ==
  /\ pc \in BeforeProduce => message = "none"
  /\ pc \in {"flush", "respond"} => message \in {"queued", "delivered"}
  /\ pc \notin BeforeAnswer => (responses = <<200>> <=> message # "none")
  /\ pc \notin BeforeCleanup => message # "queued"

(* Which of librdkafka's objects are ours.                                 *)
HandlesByCall ==
  /\ \A n \in Names : heap[n] # "wrong"
  /\ heap["rk"] = "live" <=>
       pc \in {"topic_conf_new", "topic_new", "produce", "flush", "respond",
               "destroy_rk"}
  /\ pc \in {"produce", "flush", "respond", "destroy_rkt"} =>
       heap["rkt"] = "live"
  /\ pc \in (BeforeProduce \ {"produce"}) \cup {"free_topic", "free_key", "done"}
       => heap["rkt"] # "live"

ConfigurationsGiven ==
  /\ pc \in {"topic_conf_new", "topic_new", "produce", "flush", "respond"} =>
       heap["rkconf"] = "given"
  /\ pc \in {"produce", "flush", "respond"} => heap["rktconf"] = "given"
  /\ responses = <<200>> => heap["rkconf"] = "given" /\ heap["rktconf"] = "given"

(* A substring is ours from its extraction until it is freed.              *)
SubstringsByCall ==
  /\ heap["topic_substring"] =
       IF pc = "get_topic" \/ given.topic_substring = "absent" THEN "none"
       ELSE IF pc \in {"free_key", "done"} /\ topic = "path"
       THEN "freed" ELSE "live"
  /\ heap["key_substring"] =
       IF \/ pc \in {"get_topic", "get_key"} \/ topic = "none"
          \/ given.key_substring = "absent"
       THEN "none"
       ELSE IF pc = "done" /\ key \in {"path", "none"} THEN "freed" ELSE "live"

Inv ==
  /\ TypeOK
  /\ AnsweredOnTheWay
  /\ ChoicesMade
  /\ MessageTold
  /\ HandlesByCall
  /\ ConfigurationsGiven
  /\ SubstringsByCall

-----------------------------------------------------------------------------
(* The cases of Chosen and of Failed, in the order of their tests.         *)
LEMMA ChosenByTests ==
  ASSUME NEW substring, NEW param, NEW header, NEW default
  PROVE  Chosen(substring, param, header, default) =
           IF substring = "text" THEN "path"
           ELSE IF param = "set" /\ header THEN "param"
           ELSE IF default = "set" THEN "default" ELSE "none"
<1>1. CASE substring = "text"
  BY <1>1 DEF Chosen
<1>2. CASE substring # "text" /\ param = "set" /\ header
  BY <1>2 DEF Chosen
<1>3. CASE substring # "text" /\ ~(param = "set" /\ header)
  BY <1>3 DEF Chosen
<1> QED
  BY <1>1, <1>2, <1>3

LEMMA FailedByTests ==
  ASSUME NEW h
  PROVE  Failed(h) = IF h["rk"] = "live" THEN "destroy_rk"
                     ELSE IF h["rkt"] = "live" THEN "destroy_rkt"
                     ELSE "free_topic"
<1>1. CASE h["rk"] = "live"
  BY <1>1 DEF Failed
<1>2. CASE h["rk"] # "live" /\ h["rkt"] = "live"
  BY <1>2 DEF Failed
<1>3. CASE h["rk"] # "live" /\ h["rkt"] # "live"
  BY <1>3 DEF Failed
<1> QED
  BY <1>1, <1>2, <1>3

LEMMA ChosenType ==
  ASSUME NEW substring, NEW param, NEW header, NEW default
  PROVE  Chosen(substring, param, header, default) \in Origins
BY ChosenByTests DEF Origins

(* Extracting a substring changes the state of that object only. *)
LEMMA ExtractedType ==
  ASSUME NEW States, "live" \in States, NEW h \in [Names -> States],
         NEW name, NEW substring
  PROVE  Extracted(h, name, substring) \in [Names -> States]
BY DEF Extracted

(* The callback begins with nothing made and no answer given.             *)
THEOREM InitInv == Init => Inv
<1> SUFFICES ASSUME Init PROVE Inv
  OBVIOUS
<1>1. TypeOK
  BY DEF Init, TypeOK, Labels, Origins
<1>2. pc = "get_topic" /\ pc \in BeforeProduce /\ pc \in BeforeAnswer
  BY DEF Init, BeforeProduce, BeforeAnswer
<1>3. AnsweredOnTheWay /\ ChoicesMade
  BY <1>2 DEF Init, AnsweredOnTheWay, ChoicesMade
<1>4. MessageTold
  BY DEF Init, MessageTold, BeforeProduce, BeforeAnswer, BeforeCleanup
<1>5. \A n \in Names : heap[n] = "none"
  BY DEF Init
<1>6. {"rk", "rkt", "rkconf", "rktconf", "topic_substring", "key_substring"}
        \subseteq Names
  BY DEF Names
<1>7. HandlesByCall
  BY <1>2, <1>5, <1>6 DEF HandlesByCall
<1>8. ConfigurationsGiven
  <2>1. responses # <<200>>
    BY DEF Init
  <2> QED
    BY <1>2, <2>1 DEF ConfigurationsGiven
<1>9. SubstringsByCall
  <2>1. heap["topic_substring"] = "none" /\ heap["key_substring"] = "none"
    BY <1>5, <1>6
  <2> QED
    BY <1>2, <2>1 DEF SubstringsByCall
<1> QED
  BY <1>1, <1>3, <1>4, <1>7, <1>8, <1>9 DEF Inv

(* Choosing the topic and the key. *)
LEMMA GetTopicInv ==
  ASSUME Inv, GetTopic
  PROVE  Inv'
<1> USE DEF Inv
<1>1. TypeOK'
  <2>1. pc' \in Labels
    BY DEF GetTopic, Goto, Labels
  <2>2. topic' \in Origins
    BY ChosenType DEF GetTopic
  <2>3. heap' \in [Names -> {"none", "live", "given", "freed", "wrong"}]
    <3> DEFINE States == {"none", "live", "given", "freed", "wrong"}
    <3>1. heap' = Extracted(heap, "topic_substring", given.topic_substring)
      BY DEF GetTopic
    <3>2. heap \in [Names -> States] /\ "live" \in States
      BY DEF TypeOK
    <3> HIDE DEF States
    <3>3. heap' \in [Names -> States]
      BY <3>1, <3>2, ExtractedType
    <3> QED
      BY <3>3 DEF States
  <2>4. responses' \in Seq({200, 400, 500})
    <3> DEFINE Codes == {200, 400, 500}
    <3>1. responses' = responses \/ responses' = Append(responses, 400)
      BY DEF GetTopic, Respond
    <3>2. responses \in Seq(Codes) /\ 400 \in Codes
      BY DEF TypeOK
    <3> HIDE DEF Codes
    <3>3. responses' \in Seq(Codes)
      BY <3>1, <3>2
    <3> QED
      BY <3>3 DEF Codes
  <2>5. UNCHANGED <<given, key, message, fault>>
    BY DEF GetTopic
  <2> QED
    BY <2>1, <2>2, <2>3, <2>4, <2>5 DEF TypeOK
<1>2. AnsweredOnTheWay' /\ MessageTold'
  BY DEF GetTopic, Goto, Respond, AnsweredOnTheWay, MessageTold,
     BeforeProduce, BeforeAnswer, BeforeCleanup, TypeOK
<1>3. ChoicesMade'
  BY DEF GetTopic, Goto, Respond, ChoicesMade, TopicOrigin,
     AnsweredOnTheWay, BeforeAnswer, BeforeProduce
<1>4. HandlesByCall' /\ ConfigurationsGiven'
  BY DEF GetTopic, Goto, Respond, Extracted, HandlesByCall,
     ConfigurationsGiven, TypeOK, BeforeProduce, Names, AnsweredOnTheWay,
     BeforeAnswer
<1>5. SubstringsByCall'
  BY DEF GetTopic, Goto, Extracted, SubstringsByCall, TypeOK, Names, Given
<1> QED
  BY <1>1, <1>2, <1>3, <1>4, <1>5

LEMMA GetKeyInv ==
  ASSUME Inv, GetKey
  PROVE  Inv'
<1> USE DEF Inv
<1>1. TypeOK'
  BY ChosenType DEF GetKey, TypeOK, Goto, Extracted, Labels, Names
<1>2. AnsweredOnTheWay' /\ MessageTold'
  BY DEF GetKey, Goto, AnsweredOnTheWay, MessageTold, BeforeProduce,
     BeforeAnswer, BeforeCleanup
<1>3. ChoicesMade'
  BY DEF GetKey, Goto, ChoicesMade, TopicOrigin, KeyOrigin
<1>4. HandlesByCall' /\ ConfigurationsGiven'
  BY DEF GetKey, Goto, Extracted, HandlesByCall, ConfigurationsGiven, TypeOK,
     BeforeProduce, Names
<1>5. SubstringsByCall'
  BY DEF GetKey, Goto, Extracted, ChoicesMade, SubstringsByCall, TypeOK, Names
<1> QED
  BY <1>1, <1>2, <1>3, <1>4, <1>5

-----------------------------------------------------------------------------
(* A call that fails is answered, and leads to what there is to destroy.   *)
LEMMA FailsInv ==
  ASSUME Inv, NEW from \in BeforeProduce \ {"get_topic", "get_key"},
         NEW code \in {400, 500}, Fails(from, code)
  PROVE  Inv'
<1> USE DEF Inv
<1>1. /\ pc = from /\ pc' = Failed(heap)
      /\ pc' \in {"destroy_rk", "destroy_rkt", "free_topic"}
      /\ responses' = <<code>>
  BY FailedByTests DEF Fails, Goto, Respond, AnsweredOnTheWay, BeforeAnswer
<1>2. UNCHANGED <<given, topic, key, heap, message, fault>>
  BY DEF Fails
<1>3. TypeOK'
  BY <1>1, <1>2 DEF TypeOK, Labels
<1>4. AnsweredOnTheWay' /\ MessageTold'
  BY <1>1, <1>2 DEF AnsweredOnTheWay, MessageTold, BeforeProduce,
     BeforeAnswer, BeforeCleanup
<1>5. ChoicesMade'
  BY <1>1, <1>2 DEF ChoicesMade, TopicOrigin, KeyOrigin, BeforeProduce
<1>6. HandlesByCall'
  BY <1>1, <1>2, FailedByTests DEF HandlesByCall, BeforeProduce
<1>7. ConfigurationsGiven' /\ SubstringsByCall'
  BY <1>1, <1>2 DEF ConfigurationsGiven, SubstringsByCall, BeforeProduce
<1> QED
  BY <1>3, <1>4, <1>5, <1>6, <1>7

(* A call of publish that does not fail makes the next one's objects.      *)
LEMMA SucceedsInv ==
  ASSUME Inv,
         NEW from, NEW to, NEW allocated,
         Succeeds(from, to, allocated),
         \/ /\ from = "body" /\ to = "conf_set"
            /\ allocated = [heap EXCEPT !["rkconf"] = "live"]
         \/ from = "conf_set" /\ to = "new" /\ allocated = heap
         \/ /\ from = "new" /\ to = "topic_conf_new"
            /\ allocated = [heap EXCEPT !["rk"] = "live", !["rkconf"] = "given"]
         \/ /\ from = "topic_conf_new" /\ to = "topic_new"
            /\ allocated = [heap EXCEPT !["rktconf"] = "live"]
         \/ /\ from = "topic_new" /\ to = "produce"
            /\ allocated = [heap EXCEPT !["rkt"] = "live",
                                        !["rktconf"] = "given"]
  PROVE  Inv'
<1> USE DEF Inv
<1>1. /\ pc = from /\ pc' = to /\ heap' = allocated
      /\ UNCHANGED <<given, topic, key, responses, message, fault>>
  BY DEF Succeeds, Goto
<1>2. TypeOK'
  BY <1>1 DEF TypeOK, Labels, Names
<1>3. AnsweredOnTheWay' /\ MessageTold'
  BY <1>1 DEF AnsweredOnTheWay, MessageTold, BeforeProduce, BeforeAnswer,
     BeforeCleanup
<1>4. ChoicesMade'
  BY <1>1 DEF ChoicesMade, TopicOrigin, KeyOrigin
<1>5. HandlesByCall'
  BY <1>1 DEF HandlesByCall, TypeOK, Names, BeforeProduce
<1>6. ConfigurationsGiven'
  <2>1. responses' = <<>> /\ Len(<<200>>) # 0
    BY <1>1 DEF AnsweredOnTheWay, BeforeAnswer, BeforeProduce
  <2> QED
    BY <1>1, <2>1 DEF ConfigurationsGiven, TypeOK, Names
<1>7. SubstringsByCall'
  BY <1>1 DEF SubstringsByCall, TypeOK, Names
<1> QED
  BY <1>2, <1>3, <1>4, <1>5, <1>6, <1>7

(* The message is produced, delivered, waited for and answered.            *)
LEMMA ProducedInv ==
  ASSUME Inv,
         \/ /\ Goto("produce", "flush") /\ message' = "queued"
            /\ UNCHANGED <<given, topic, key, heap, responses, fault>>
         \/ Deliver
         \/ Flush
         \/ RespondOk
  PROVE  Inv'
<1> USE DEF Inv, Deliver, Flush, RespondOk, Goto, Respond
<1>1. \/ UNCHANGED responses
      \/ RespondOk /\ responses = <<>> /\ responses' = <<200>>
  <2>1. RespondOk => responses = <<>>
    BY DEF AnsweredOnTheWay, BeforeAnswer
  <2>2. Append(<<>>, 200) = <<200>>
    OBVIOUS
  <2> QED
    BY <2>1, <2>2
<1>2. TypeOK'
  BY DEF TypeOK, Labels
<1>3. AnsweredOnTheWay' /\ MessageTold'
  <2>1. CASE RespondOk
    BY <1>1, <2>1 DEF AnsweredOnTheWay, MessageTold, BeforeAnswer,
       BeforeProduce, BeforeCleanup
  <2>2. CASE ~RespondOk
    BY <1>1, <2>2 DEF AnsweredOnTheWay, MessageTold, BeforeAnswer,
       BeforeProduce, BeforeCleanup
  <2> QED
    BY <2>1, <2>2
<1>4. ChoicesMade'
  BY DEF ChoicesMade, TopicOrigin, KeyOrigin
<1>5. HandlesByCall' /\ ConfigurationsGiven' /\ SubstringsByCall'
  BY DEF HandlesByCall, ConfigurationsGiven, SubstringsByCall, BeforeProduce
<1> QED
  BY <1>2, <1>3, <1>4, <1>5

-----------------------------------------------------------------------------
(* What is freed is ours. *)
LEMMA DestroysInv ==
  ASSUME Inv, DestroyRk \/ DestroyRkt
  PROVE  Inv'
<1> USE DEF Inv, DestroyRk, DestroyRkt, Goto
<1>1. TypeOK'
  BY DEF TypeOK, Labels, Freed, Names
<1>2. AnsweredOnTheWay' /\ MessageTold'
  BY DEF AnsweredOnTheWay, MessageTold, BeforeProduce, BeforeAnswer,
     BeforeCleanup
<1>3. ChoicesMade'
  BY DEF ChoicesMade, TopicOrigin, KeyOrigin
<1>4. HandlesByCall'
  BY DEF HandlesByCall, Freed, TypeOK, Names, BeforeProduce
<1>5. ConfigurationsGiven' /\ SubstringsByCall'
  BY DEF ConfigurationsGiven, SubstringsByCall, Freed, TypeOK, Names
<1> QED
  BY <1>1, <1>2, <1>3, <1>4, <1>5

(* The text of a substring that was used is there to be freed, and so is   *)
(* that of a key that was not.                                             *)
LEMMA FreesInv ==
  ASSUME Inv, FreeTopic \/ FreeKey
  PROVE  Inv'
<1> USE DEF Inv, FreeTopic, FreeKey, FreesTopic, FreesKey, Goto
<1>1. topic # "none"
  BY DEF ChoicesMade
<1>2. topic = "path" => heap["topic_substring"] = "live" \/ pc = "free_key"
  BY ChosenByTests DEF ChoicesMade, TopicOrigin, SubstringsByCall
<1>3. key = "path" /\ pc = "free_key" => heap["key_substring"] = "live"
  BY <1>1, ChosenByTests DEF ChoicesMade, KeyOrigin, SubstringsByCall
<1>4. TypeOK'
  BY DEF TypeOK, Labels, Freed, Names
<1>5. AnsweredOnTheWay' /\ MessageTold'
  BY DEF AnsweredOnTheWay, MessageTold, BeforeProduce, BeforeAnswer,
     BeforeCleanup
<1>6. ChoicesMade'
  BY <1>1 DEF ChoicesMade, TopicOrigin, KeyOrigin
<1>7. HandlesByCall'
  BY <1>2, <1>3 DEF HandlesByCall, Freed, TypeOK, Names, BeforeProduce
<1>8. ConfigurationsGiven'
  BY DEF ConfigurationsGiven, Freed, TypeOK, Names
<1>9. SubstringsByCall'
  BY <1>1, <1>2, <1>3 DEF SubstringsByCall, Freed, TypeOK, Names
<1> QED
  BY <1>4, <1>5, <1>6, <1>7, <1>8, <1>9

-----------------------------------------------------------------------------
(* Every step of the callback, and of the broker, keeps the invariant.     *)
THEOREM NextInv == Inv /\ [Next]_vars => Inv'
<1> SUFFICES ASSUME Inv, [Next]_vars PROVE Inv'
  OBVIOUS
<1>1. CASE GetTopic \/ GetKey
  BY <1>1, GetTopicInv, GetKeyInv
<1>2. CASE CheckBody
  BY <1>2, FailsInv, SucceedsInv DEF CheckBody, BeforeProduce
<1>3. CASE ConfSet
  BY <1>3, FailsInv, SucceedsInv DEF ConfSet, BeforeProduce
<1>4. CASE New
  BY <1>4, FailsInv, SucceedsInv DEF New, BeforeProduce
<1>5. CASE TopicConfNew
  BY <1>5, FailsInv, SucceedsInv DEF TopicConfNew, BeforeProduce
<1>6. CASE TopicNew
  BY <1>6, FailsInv, SucceedsInv DEF TopicNew, BeforeProduce
<1>7. CASE Produce \/ Deliver \/ Flush \/ RespondOk
  BY <1>7, FailsInv, ProducedInv DEF Produce, BeforeProduce
<1>8. CASE DestroyRk \/ DestroyRkt \/ FreeTopic \/ FreeKey
  BY <1>8, DestroysInv, FreesInv
<1>9. CASE UNCHANGED vars
  BY <1>9 DEF vars, Inv, TypeOK, AnsweredOnTheWay, ChoicesMade, TopicOrigin,
     KeyOrigin, MessageTold, HandlesByCall, ConfigurationsGiven,
     SubstringsByCall
<1> QED
  BY <1>1, <1>2, <1>3, <1>4, <1>5, <1>6, <1>7, <1>8, <1>9 DEF Next

(* Every behaviour of a request keeps the invariant.                      *)
THEOREM SpecInv == Spec => []Inv
  BY InitInv, NextInv, PTL DEF Spec

-----------------------------------------------------------------------------
(* Every variable keeps its type.                                          *)
THEOREM TypeCorrect == Spec => []TypeOK
<1>1. Inv => TypeOK
  BY DEF Inv
<1> QED
  BY <1>1, SpecInv, PTL

(* Whatever the route is configured with and the request contains, the     *)
(* topic is the path's before the parameter's before the default, and a    *)
(* request is refused for its topic only when all three are missing.       *)
THEOREM TopicChosenByPriority == Spec => []TopicByPriority
<1>1. Inv => TopicByPriority
  <2> SUFFICES ASSUME Inv, Finished PROVE TopicByPriority
    BY DEF TopicByPriority
  <2>1. topic = TopicOrigin
    BY DEF Inv, ChoicesMade, Finished
  <2>2. topic = "none" => responses = <<400>> /\ message = "none"
    <3>1. Len(<<400>>) = 1 /\ <<400>>[1] # <<200>>[1]
      OBVIOUS
    <3> QED
      BY <3>1 DEF Inv, ChoicesMade, MessageTold, Finished, BeforeAnswer,
         BeforeProduce
  <2> QED
    BY <2>1, <2>2, ChosenByTests DEF TopicByPriority, TopicOrigin
<1> QED
  BY <1>1, SpecInv, PTL

(* Nothing is freed twice or that is not ours, and on every path the       *)
(* producer and the topic that were made for the request are destroyed.    *)
THEOREM HandlesAreDestroyed == Spec => []HandlesDestroyed
<1>1. Inv => HandlesDestroyed
  BY DEF Inv, HandlesByCall, HandlesDestroyed, Finished
<1> QED
  BY <1>1, SpecInv, PTL

(* What a request leaves behind is a configuration after a failure, or the *)
(* substring of a group that matched nothing.                              *)
THEOREM LeaksAreConfined == Spec => []LeaksOnlyOnFailure
<1>1. Inv => LeaksOnlyOnFailure
  <2> SUFFICES ASSUME Inv, Finished PROVE LeaksOnlyOnFailure
    BY DEF LeaksOnlyOnFailure
  <2>1. given.topic_substring \in Substrings /\ given.key_substring \in Substrings
    BY DEF Inv, TypeOK, Given
  <2>2. heap["topic_substring"] = "live" => given.topic_substring = "empty"
    BY <2>1, ChosenByTests DEF Inv, ChoicesMade, TopicOrigin,
       SubstringsByCall, Finished, Substrings
  <2>3. heap["key_substring"] = "live" =>
          given.key_substring = "empty" /\ key \in {"param", "default"}
    BY <2>1, ChosenByTests DEF Inv, ChoicesMade, KeyOrigin,
       SubstringsByCall, Finished, Substrings
  <2> QED
    BY <2>2, <2>3 DEF Inv, ConfigurationsGiven, LeaksOnlyOnFailure
<1> QED
  BY <1>1, SpecInv, PTL

-----------------------------------------------------------------------------
(* Each call is a step of the abstract route, or leaves it as it is.       *)
LEMMA StepsAreRoutes ==
  ASSUME Inv, [Next]_vars
  PROVE  [Route!Next]_(Route!vars)
<1> USE DEF Route!vars, Finished
<1>1. CASE GetTopic
  <2>1. responses = <<>> /\ message = "none"
    BY <1>1 DEF Inv, GetTopic, Goto, AnsweredOnTheWay, MessageTold,
       BeforeAnswer, BeforeProduce
  <2>2. UNCHANGED message /\ ~Finished
    BY <1>1 DEF GetTopic, Goto
  <2>3. \/ Finished' /\ responses' = <<400>>
        \/ ~Finished' /\ UNCHANGED responses
    BY <1>1, <2>1 DEF GetTopic, Goto, Respond
  <2> QED
    BY <2>1, <2>2, <2>3, ZenonT(30) DEF Route!Next, Route!Refuse
<1>2. CASE GetKey
  BY <1>2 DEF GetKey, Goto
<1>3. ASSUME NEW from \in BeforeProduce, NEW code \in {400, 500},
             Fails(from, code)
      PROVE  Route!Next
  <2>1. responses = <<>> /\ message = "none"
    BY <1>3 DEF Inv, Fails, Goto, AnsweredOnTheWay, MessageTold, BeforeAnswer
  <2>2. responses' = <<code>>
    BY <1>3, <2>1 DEF Fails, Respond
  <2>3. ~Finished /\ ~Finished' /\ UNCHANGED message
    BY <1>3, FailedByTests DEF Fails, Goto, BeforeProduce
  <2>4. responses' \in {<<400>>, <<500>>}
    BY <1>3, <2>2
  <2>5. Finished' \in {FALSE, TRUE}
    BY <2>3, Zenon
  <2>6. Route!Refuse
    BY <2>1, <2>3, <2>4, <2>5, ZenonT(30) DEF Route!Refuse
  <2> QED
    BY <2>6, Zenon DEF Route!Next
<1>4. ASSUME NEW from, NEW to, NEW allocated,
             Succeeds(from, to, allocated), from # "done", to # "done"
      PROVE  UNCHANGED Route!vars
  BY <1>4 DEF Succeeds, Goto
<1>5. CASE CheckBody \/ ConfSet \/ New \/ TopicConfNew \/ TopicNew
  BY <1>3, <1>4, <1>5 DEF CheckBody, ConfSet, New, TopicConfNew, TopicNew,
     BeforeProduce
<1>6. CASE Produce
  <2>1. CASE Fails("produce", 500)
    BY <1>3, <2>1 DEF BeforeProduce
  <2>2. CASE ~Fails("produce", 500)
    BY <1>6, <2>2 DEF Inv, Produce, Goto, AnsweredOnTheWay, MessageTold,
       BeforeAnswer, BeforeProduce, Route!Next, Route!Produce
  <2> QED
    BY <2>1, <2>2
<1>7. CASE Deliver
  BY <1>7 DEF Deliver, Route!Next, Route!Deliver
<1>8. CASE Flush
  BY <1>8 DEF Flush, Goto
<1>9. CASE RespondOk
  <2>1. responses = <<>> /\ responses' = <<200>> /\ message # "none"
    BY <1>9 DEF Inv, RespondOk, Goto, Respond, AnsweredOnTheWay, MessageTold,
       BeforeAnswer
  <2> QED
    BY <1>9, <2>1 DEF RespondOk, Goto, Route!Next, Route!Accept
<1>10. CASE DestroyRk
  BY <1>10 DEF Inv, DestroyRk, Goto, AnsweredOnTheWay, MessageTold,
     BeforeAnswer, BeforeProduce, Route!Next, Route!Drop
<1>11. CASE DestroyRkt \/ FreeTopic
  BY <1>11 DEF DestroyRkt, FreeTopic, Goto
<1>12. CASE FreeKey
  <2>1. message # "queued" /\ responses # <<>>
    BY <1>12 DEF Inv, FreeKey, Goto, AnsweredOnTheWay, MessageTold,
       BeforeAnswer, BeforeProduce, BeforeCleanup
  <2> QED
    BY <1>12, <2>1 DEF FreeKey, Goto, Route!Next, Route!End
<1>13. CASE UNCHANGED vars
  BY <1>13 DEF vars
<1> QED
  BY <1>1, <1>2, <1>5, <1>6, <1>7, <1>8, <1>9, <1>10, <1>11, <1>12, <1>13
     DEF Next

(* For every configuration and request, and whatever call fails, the       *)
(* callback keeps what the abstract route promises.                        *)
THEOREM KeepsToRoute == Spec => ImplementsRoute
<1>1. Init => Route!Init
  BY DEF Init, Route!Init, Finished
<1>2. Inv /\ [Next]_vars => [Route!Next]_(Route!vars)
  BY StepsAreRoutes
<1> QED
  BY <1>1, <1>2, SpecInv, PTL DEF Spec, ImplementsRoute, Route!Spec
=============================================================================
