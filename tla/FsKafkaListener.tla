-------------------------- MODULE FsKafkaListener --------------------------
(***************************************************************************)
(* The Kafka consumer of a kafka block (fs_mod_kafka_listener.c).          *)
(*                                                                         *)
(* librdkafka's threads put messages and error events on the consumer      *)
(* queue and write one byte to a pipe whenever the queue was empty.  The   *)
(* loop polls the pipe; the callback reads one byte and takes messages     *)
(* until it is told there is none, starting for each a child process that  *)
(* gets the payload on its standard input.  Later callbacks of the loop    *)
(* report the write, the close of the pipe, and the exit of the child.     *)
(***************************************************************************)
EXTENDS Naturals, Sequences, SequencesExt

CONSTANTS
  Listened,  \* the topic names of the block's topic blocks, in file order
  Execs,     \* per topic block, the arguments its exec was given
  Names,     \* the topic names messages may have
  MaxMsgs,   \* the bound on the messages and error events that arrive
  MayFail,   \* which of "error", "malloc", "spawn" and "write" may happen
  Hasty,     \* the messages whose child may exit before its input is closed
  LongKeys,  \* the messages whose key does not fit where it is copied
  JunkArgs,  \* the blocks whose vector of arguments ends in junk
  MaxArgs    \* the slots of the job's array of arguments; 64

Msgs == 1 .. MaxMsgs
Blocks == 1 .. Len(Listened)
NoBlock == 0

(* An argument stands for itself, or is $kafka_topic or $kafka_key. *)
Args == {"text", "topic", "key"}

(* A name is the sequence of its characters; it has at least one. *)
ASSUME ListenerAssumption ==
  /\ MaxMsgs \in Nat
  /\ Names \subseteq Seq(Nat) \ {<<>>}
  /\ Listened \in Seq(Names)
  /\ MayFail \subseteq {"error", "malloc", "spawn", "write"}
  /\ Hasty \subseteq Msgs
  /\ LongKeys \subseteq Msgs
  /\ Execs \in [Blocks -> Seq(Args)]
  /\ JunkArgs \subseteq Blocks
  /\ MaxArgs \in Nat

VARIABLES
  queue,    \* the consumer queue: the numbers of its messages, in order
  topic,    \* per message that arrived, its topic's name, or <<>> for an error
  bytes,    \* the bytes in the event pipe
  pc,       \* whether the loop is inside poll_cb
  job,      \* per message, its fs_mod_kafka_listener_proc_handler_t
  fault,    \* "none", or the memory that was misused
  cut       \* history: poll_cb has left with messages in the queue

vars == <<queue, topic, bytes, pc, job, fault, cut>>

-----------------------------------------------------------------------------
Job == [proc : {"none", "live", "freed"},        \* the handler's memory
        child : {"none", "running", "exited"},
        write : {"none", "pending", "done"},
        pipe : {"none", "open", "closing", "closed"},
        rkm : {"none", "held", "destroyed"},     \* the rd_kafka_message_t
        block : Blocks \cup {NoBlock}]

NoJob == [proc |-> "none", child |-> "none", write |-> "none",
          pipe |-> "none", rkm |-> "none", block |-> NoBlock]

TypeOK ==
  /\ queue \in Seq(Msgs)
  /\ topic \in Seq(Names \cup {<<>>})
  /\ Len(topic) <= MaxMsgs
  /\ bytes \in Nat
  /\ pc \in {"idle", "draining"}
  /\ job \in [Msgs -> Job]
  /\ fault \in {"none", "proc", "link", "args"}
  /\ cut \in BOOLEAN

Init ==
  /\ queue = <<>>
  /\ topic = <<>>
  /\ bytes = 0
  /\ pc = "idle"
  /\ job = [m \in Msgs |-> NoJob]
  /\ fault = "none"
  /\ cut = FALSE

Running == fault = "none"

-----------------------------------------------------------------------------
(* librdkafka's side of the queue. *)

Notified(b, q) == IF q = <<>> THEN b + 1 ELSE b

Enqueue(name) ==
  /\ Running
  /\ Len(topic) < MaxMsgs
  /\ topic' = Append(topic, name)
  /\ queue' = Append(queue, Len(topic) + 1)
  /\ bytes' = Notified(bytes, queue)
  /\ UNCHANGED <<pc, job, fault, cut>>

Arrive == \E name \in Names : Enqueue(name)

ErrorArrives == "error" \in MayFail /\ Enqueue(<<>>)

-----------------------------------------------------------------------------
(* poll_cb. *)

WakeupSpurious ==
  /\ Running
  /\ pc = "idle"
  /\ bytes' = bytes - 1
  /\ pc' = "draining"
  /\ UNCHANGED <<queue, topic, job, fault, cut>>

Wakeup ==
  /\ Running
  /\ pc = "idle"
  /\ bytes > 0
  /\ bytes' = bytes - 1
  /\ pc' = "draining"
  /\ UNCHANGED <<queue, topic, job, fault, cut>>

(* The names are compared over the shorter of their sizes, and the size of *)
(* the message's is one too small, while the terminator counts in the      *)
(* block's: its last character does not matter.                            *)
SameTopicTwoOff(name, listened) == IsPrefix(Front(Front(name)), listened)

SameTopic(name, listened) == IsPrefix(Front(name), listened)

(* The first topic block, in file order, that has the message's topic. *)
BlockOf(name) ==
  LET matching == {b \in Blocks : SameTopic(name, Listened[b])}
  IN  IF matching = {} THEN NoBlock
      ELSE CHOOSE b \in matching : \A a \in matching : b <= a

(* consumer_poll returned the message at the head of the queue. *)
Takes(m) ==
  /\ Running
  /\ pc = "draining"
  /\ queue # <<>>
  /\ m = Head(queue)
  /\ queue' = Tail(queue)
  /\ UNCHANGED <<topic, bytes>>

ContinuesOnce == pc' = "idle" /\ UNCHANGED cut

Continues == pc' = "draining" /\ UNCHANGED cut

Leaves == pc' = "idle" /\ cut' = (cut \/ Tail(queue) # <<>>)

DrainEnds ==
  /\ Running
  /\ pc = "draining"
  /\ queue = <<>>
  /\ pc' = "idle"
  /\ UNCHANGED <<queue, topic, bytes, job, fault, cut>>

TakeError(m) ==
  /\ Takes(m)
  /\ topic[m] = <<>>
  /\ job' = [job EXCEPT ![m].rkm = "destroyed"]
  /\ Leaves
  /\ UNCHANGED fault

TakeUnmatchedReturns(m) ==
  /\ Takes(m)
  /\ topic[m] # <<>>
  /\ BlockOf(topic[m]) = NoBlock
  /\ job' = [job EXCEPT ![m].rkm = "destroyed"]
  /\ ContinuesOnce
  /\ UNCHANGED fault

TakeUnmatched(m) ==
  /\ Takes(m)
  /\ topic[m] # <<>>
  /\ BlockOf(topic[m]) = NoBlock
  /\ job' = [job EXCEPT ![m].rkm = "destroyed"]
  /\ Continues
  /\ UNCHANGED fault

TakesMatched(m) ==
  /\ Takes(m)
  /\ topic[m] # <<>>
  /\ BlockOf(topic[m]) # NoBlock

NoMemory(m) ==
  /\ "malloc" \in MayFail
  /\ TakesMatched(m)
  /\ job' = [job EXCEPT ![m].rkm = "destroyed"]
  /\ Leaves
  /\ UNCHANGED fault

(* The process handle of a child that exited is freed without having been  *)
(* closed, so the loop's list of handles still leads through it: a handle  *)
(* put on or taken off that list next to it writes into freed memory.      *)
LinkOutcomes ==
  IF \E m \in Msgs : job[m].proc = "freed" THEN {"none", "link"} ELSE {"none"}

(* cmd_exec leaves the last slot of the vector it allocates unwritten and  *)
(* puts the terminator into the one behind the array.  When the unwritten  *)
(* slot holds no NULL, poll_cb takes it for one more argument.             *)
Vector(b) == IF b \in JunkArgs THEN Append(Execs[b], "junk") ELSE Execs[b]

(* Junk is compared as a string, and the vector read on behind its end.    *)
(* The arguments and their terminator are copied into the job's array, the *)
(* key into a buffer of the job, whatever their number and its length.     *)
ArgsOutcomes(m) ==
  LET args == Vector(BlockOf(topic[m]))
  IN  IF \/ Contains(args, "junk")
         \/ Len(args) >= MaxArgs
         \/ Contains(args, "key") /\ m \in LongKeys
      THEN {"none", "args"} ELSE {"none"}

(* The pipe is initialised before the spawn; when that fails nothing of it *)
(* is undone.  A pointer that is junk may be what makes it fail.           *)
SpawnFails(m) ==
  /\ TakesMatched(m)
  /\ "spawn" \in MayFail \/ Contains(Vector(BlockOf(topic[m])), "junk")
  /\ job' = [job EXCEPT ![m] = [NoJob EXCEPT !.proc = "live", !.rkm = "held"]]
  /\ fault' \in LinkOutcomes \cup ArgsOutcomes(m)
  /\ Leaves

Spawned(m) ==
  [NoJob EXCEPT !.proc = "live", !.child = "running", !.pipe = "open",
                !.rkm = "held", !.block = BlockOf(topic[m])]

(* The child runs, and its standard input is never closed. *)
WriteFails(m) ==
  /\ "write" \in MayFail
  /\ TakesMatched(m)
  /\ job' = [job EXCEPT ![m] = Spawned(m)]
  /\ fault' \in LinkOutcomes \cup ArgsOutcomes(m)
  /\ Leaves

StartUnheld(m) ==
  /\ TakesMatched(m)
  /\ job' = [job EXCEPT ![m] = [Spawned(m) EXCEPT !.write = "pending",
                                                  !.rkm = "destroyed"]]
  /\ fault' \in LinkOutcomes \cup ArgsOutcomes(m)
  /\ Continues

(* The payload is not copied: libuv writes it out of the message. *)
Start(m) ==
  /\ TakesMatched(m)
  /\ job' = [job EXCEPT ![m] = [Spawned(m) EXCEPT !.write = "pending"]]
  /\ fault' \in LinkOutcomes \cup ArgsOutcomes(m)
  /\ Continues

-----------------------------------------------------------------------------
(* The loop's callbacks, which run when it is not inside poll_cb.  Each    *)
(* uses the memory of the job; when that is freed the outcome is undefined. *)

Callback(m) == Running /\ pc = "idle" /\ UNCHANGED <<queue, topic, bytes, pc, cut>>

UseOutcomes(m) == IF job[m].proc = "freed" THEN {"none", "proc"} ELSE {"none"}

ProcWritedCbUnclosed(m) ==
  /\ Callback(m)
  /\ job[m].write = "pending"
  /\ job' = [job EXCEPT ![m].write = "done", ![m].rkm = "destroyed"]
  /\ fault' \in UseOutcomes(m)

ProcWritedCbKeeps(m) ==
  /\ Callback(m)
  /\ job[m].write = "pending"
  /\ job' = [job EXCEPT ![m].write = "done", ![m].pipe = "closing"]
  /\ fault' \in UseOutcomes(m)

(* The payload is written, or the child's end of the pipe is gone. *)
ProcWritedCb(m) ==
  /\ Callback(m)
  /\ job[m].write = "pending"
  /\ job' = [job EXCEPT ![m].write = "done",
                        ![m].pipe = "closing",
                        ![m].rkm = "destroyed"]
  /\ fault' \in UseOutcomes(m)

(* libuv closes the descriptor at once and finishes with the handle at the *)
(* end of the loop's round.                                                *)
ProcPipeClosedCb(m) ==
  /\ Callback(m)
  /\ job[m].pipe = "closing"
  /\ job' = [job EXCEPT ![m].pipe = "closed"]
  /\ fault' \in UseOutcomes(m) \cup LinkOutcomes

(* A child that reads its input to the end exits after the descriptor was  *)
(* closed; the exit may be reported in the very round of that close.  One  *)
(* that is not Hasty takes longer than that.                               *)
ProcExitedCbClosing(m) ==
  /\ Callback(m)
  /\ job[m].child = "running"
  /\ job' = [job EXCEPT ![m].child = "exited", ![m].proc = "freed"]
  /\ UNCHANGED fault

ProcExitedCb(m) ==
  /\ Callback(m)
  /\ job[m].child = "running"
  /\ job[m].pipe = "closed" \/ m \in Hasty
  /\ job' = [job EXCEPT ![m].child = "exited", ![m].proc = "freed"]
  /\ UNCHANGED fault

-----------------------------------------------------------------------------
Take(m) ==
  \/ TakeError(m) \/ TakeUnmatched(m) \/ NoMemory(m)
  \/ SpawnFails(m) \/ WriteFails(m) \/ Start(m)

Next ==
  \/ Arrive \/ ErrorArrives
  \/ Wakeup \/ DrainEnds
  \/ \E m \in Msgs :
       Take(m) \/ ProcWritedCb(m) \/ ProcPipeClosedCb(m) \/ ProcExitedCb(m)

(* The loop polls the pipe and runs what is due; a child reads its input,  *)
(* or exits, so that the write of it is reported.                          *)
Fairness ==
  /\ WF_vars(Wakeup)
  /\ WF_vars(DrainEnds)
  /\ \A m \in Msgs : WF_vars(Take(m))
  /\ \A m \in Msgs : WF_vars(ProcWritedCb(m)) /\ WF_vars(ProcPipeClosedCb(m))

Spec == Init /\ [][Next]_vars /\ Fairness

-----------------------------------------------------------------------------
(* Properties. *)

(* No wakeup is lost: when the loop is about to wait and the queue holds   *)
(* something, there is a byte in the pipe, unless a callback has left the  *)
(* queue before it was empty.                                              *)
WakeupPending == pc = "idle" /\ queue # <<>> /\ ~cut => bytes > 0

(* While libuv writes the payload, the message it lies in exists.          *)
PayloadAlive ==
  \A m \in Msgs : job[m].write = "pending" => job[m].rkm = "held"

(* Freed memory is used only after a child was reaped: that of its job     *)
(* only when it exited before its input was closed.  The arguments of a    *)
(* child are read or written out of bounds only for a block whose vector   *)
(* ends in junk or does not fit the job, or that passes on a key that is   *)
(* too long.                                                               *)
FaultHasCause ==
  /\ fault = "proc" => \E m \in Hasty : job[m].child = "exited"
  /\ fault = "link" => \E m \in Msgs : job[m].child = "exited"
  /\ fault = "args" =>
       \E m \in Msgs : \E b \in Blocks :
         /\ job[m].proc = "live" /\ job[m].rkm = "held"
         /\ b = BlockOf(topic[m])
         /\ \/ b \in JunkArgs
            \/ Len(Execs[b]) >= MaxArgs
            \/ Contains(Execs[b], "key") /\ m \in LongKeys

(* No message is lost between the queue and its child: it waits in the     *)
(* queue, or is held, or was destroyed; and one that is held when its      *)
(* write is reported is destroyed then.  What stays held for ever is the   *)
(* message of a failed spawn or write, which has no write to be reported.  *)
HeldUntilWritten ==
  \A m \in Msgs :
    /\ job[m].rkm = "none" <=> m > Len(topic) \/ Contains(queue, m)
    /\ job[m].rkm = "held" => job[m].write # "done"

(* Every message that arrives is taken from the queue, unless an error     *)
(* event or a failed call has made a callback leave the queue early.       *)
EveryMessageTaken ==
  \A m \in Msgs :
    Len(topic) >= m ~> (job[m].rkm # "none" \/ ~Running \/ cut)

(* A started child gets the end of its input and its message is released.  *)
InputIsClosed ==
  \A m \in Msgs :
    job[m].write = "pending" ~>
      ((job[m].pipe = "closed" /\ job[m].rkm = "destroyed") \/ ~Running)

(* README.md: the block of a topic names the script that is run for a      *)
(* message consumed from that topic.                                       *)
RunsBlockOfItsTopic ==
  \A m \in Msgs : job[m].block # NoBlock => Listened[job[m].block] = topic[m]

(* README.md: the messages of the topics listened to are piped to the      *)
(* executable.  So every message that arrives is taken from the queue; an  *)
(* error event is no message.                                              *)
EveryMessageConsumed ==
  \A m \in Msgs :
    Len(topic) >= m /\ topic[m] # <<>> ~> (job[m].rkm # "none" \/ ~Running)
=============================================================================
