----------------------- MODULE FsKafkaListener_proofs -----------------------
(***************************************************************************)
(* Proofs about FsKafkaListener, for any topics, names, messages and       *)
(* failures.                                                               *)
(*                                                                         *)
(* The safety properties follow from one inductive invariant: the queue    *)
(* holds the last messages that arrived, in order; a message that has not  *)
(* been taken has no job; and how far the write, the pipe and the memory   *)
(* of a job have come depends on each other.                               *)
(***************************************************************************)
EXTENDS FsKafkaListener, TLAPS, Recursion

(* The queue holds the last of the messages that arrived, in order.        *)
QueueInOrder ==
  /\ Len(queue) <= Len(topic)
  /\ \A i \in 1 .. Len(queue) : queue[i] = Len(topic) - Len(queue) + i

(* A message has a job from when it is taken from the queue.               *)
JobWhenTaken(m) ==
  /\ job[m].rkm = "none" <=> m + Len(queue) > Len(topic)
  /\ job[m].rkm = "none" => job[m] = NoJob

(* The pipe is closed behind the write, and the message is held until its  *)
(* write is reported.                                                      *)
WriteBeforeClose(m) ==
  /\ job[m].write = "pending" => job[m].pipe = "open" /\ job[m].rkm = "held"
  /\ job[m].pipe \in {"closing", "closed"} => job[m].write = "done"
  /\ job[m].rkm = "held" => job[m].write # "done"

(* A job is freed when its child exits: only a hasty one does so before    *)
(* its input was closed.                                                   *)
FreedAtExit(m) ==
  job[m].proc = "freed" =>
    /\ job[m].child = "exited"
    /\ m \in Hasty \/ job[m].pipe = "closed"

(* A child runs the script of the block its message was matched with.      *)
BlockMatched(m) ==
  job[m].block # NoBlock =>
    /\ m <= Len(topic)
    /\ topic[m] # <<>>
    /\ job[m].block = BlockOf(topic[m])

JobInv(m) ==
  /\ JobWhenTaken(m)
  /\ WriteBeforeClose(m)
  /\ FreedAtExit(m)
  /\ BlockMatched(m)

Inv ==
  /\ TypeOK
  /\ QueueInOrder
  /\ \A m \in Msgs : JobInv(m)
  /\ WakeupPending
  /\ FaultHasCause

-----------------------------------------------------------------------------
(* The block a message is matched with is none, or the first of the file's *)
(* that has its topic.                                                     *)
LEMMA BlockOfMatches ==
  ASSUME NEW name
  PROVE  /\ BlockOf(name) \in Blocks \cup {NoBlock}
         /\ BlockOf(name) # NoBlock =>
              /\ SameTopic(name, Listened[BlockOf(name)])
              /\ \A b \in Blocks :
                   SameTopic(name, Listened[b]) => BlockOf(name) <= b
<1> DEFINE matching == {b \in Blocks : SameTopic(name, Listened[b])}
<1>1. CASE matching = {}
  BY <1>1 DEF BlockOf
<1>2. CASE matching # {}
  <2>1. Len(Listened) \in Nat /\ matching \in SUBSET Nat
    BY ListenerAssumption DEF Blocks
  <2>2. \E b \in matching : \A a \in matching : b <= a
    BY <1>2, <2>1, LeastOf
  <2>3. BlockOf(name) = CHOOSE b \in matching : \A a \in matching : b <= a
    BY <1>2 DEF BlockOf
  <2> QED
    BY <2>2, <2>3
<1> QED
  BY <1>1, <1>2

LEMMA NoJobType == NoJob \in Job
BY DEF NoJob, Job

(* The job of a child that was spawned. *)
LEMMA SpawnedFacts ==
  ASSUME NEW m, BlockOf(topic[m]) # NoBlock
  PROVE  /\ Spawned(m) \in Job
         /\ Spawned(m).rkm = "held" /\ Spawned(m).proc = "live"
         /\ Spawned(m).write = "none" /\ Spawned(m).pipe = "open"
         /\ Spawned(m).block = BlockOf(topic[m])
<1>1. BlockOf(topic[m]) \in Blocks
  BY BlockOfMatches
<1>2. Spawned(m) \in Job
  BY <1>1, NoJobType DEF Spawned, Job
<1>3. /\ Spawned(m).rkm = "held" /\ Spawned(m).proc = "live"
      /\ Spawned(m).write = "none" /\ Spawned(m).pipe = "open"
      /\ Spawned(m).block = BlockOf(topic[m])
  BY DEF Spawned, NoJob
<1> QED
  BY <1>2, <1>3

(* The loop begins idle, with an empty queue and no child.                *)
THEOREM InitInv == Init => Inv
<1> SUFFICES ASSUME Init PROVE Inv
  OBVIOUS
<1> USE DEF Init
<1>1. TypeOK
  <2>1. Len(topic) <= MaxMsgs
    BY ListenerAssumption
  <2>2. job \in [Msgs -> Job]
    BY NoJobType
  <2>3. queue \in Seq(Msgs) /\ topic \in Seq(Names \cup {<<>>}) /\ bytes \in Nat
    OBVIOUS
  <2> QED
    BY <2>1, <2>2, <2>3 DEF TypeOK
<1>2. QueueInOrder /\ WakeupPending /\ FaultHasCause
  BY DEF QueueInOrder, WakeupPending, FaultHasCause
<1>3. ASSUME NEW m \in Msgs PROVE JobInv(m)
  BY <1>3, ListenerAssumption DEF JobInv, JobWhenTaken, WriteBeforeClose,
     FreedAtExit, BlockMatched, NoJob, Msgs
<1> QED
  BY <1>1, <1>2, <1>3 DEF Inv

-----------------------------------------------------------------------------
(* A message that arrives is the last of the queue and has no job yet.     *)
LEMMA EnqueueInv ==
  ASSUME Inv, NEW name \in Names \cup {<<>>}, Enqueue(name)
  PROVE  Inv'
<1> USE DEF Inv, Enqueue
<1>1. /\ Len(topic) \in Nat /\ Len(queue) \in Nat /\ MaxMsgs \in Nat
      /\ Len(topic') = Len(topic) + 1 /\ Len(queue') = Len(queue) + 1
  BY ListenerAssumption DEF TypeOK
<1>2. \A i \in 1 .. Len(topic) : topic'[i] = topic[i]
  BY <1>1 DEF TypeOK
<1>3. \A i \in 1 .. Len(queue) : queue'[i] = queue[i]
  BY <1>1 DEF TypeOK
<1>4. queue'[Len(queue) + 1] = Len(topic) + 1
  BY <1>1 DEF TypeOK
<1>5. TypeOK'
  <2>1. Len(topic) + 1 \in Msgs
    BY <1>1 DEF Msgs
  <2> QED
    BY <1>1, <2>1 DEF TypeOK, Notified
<1>6. QueueInOrder'
  <2>1. ASSUME NEW i \in 1 .. Len(queue')
        PROVE  queue'[i] = Len(topic') - Len(queue') + i
    <3>1. CASE i \in 1 .. Len(queue)
      BY <1>1, <1>3, <3>1 DEF QueueInOrder
    <3>2. CASE i = Len(queue) + 1
      BY <1>1, <1>4, <3>2
    <3> QED
      BY <1>1, <3>1, <3>2
  <2> QED
    BY <1>1, <2>1 DEF QueueInOrder
<1>7. WakeupPending' /\ FaultHasCause'
  <2>1. WakeupPending'
    BY <1>1 DEF WakeupPending, Notified, TypeOK
  <2> QED
    BY <2>1 DEF FaultHasCause, Running
<1>8. ASSUME NEW m \in Msgs PROVE JobInv(m)'
  <2>1. m \in Nat /\ job'[m] = job[m]
    BY DEF Msgs
  <2>2. JobInv(m)
    OBVIOUS
  <2>3. JobWhenTaken(m)'
    BY <1>1, <2>1, <2>2 DEF JobInv, JobWhenTaken
  <2>4. WriteBeforeClose(m)' /\ FreedAtExit(m)'
    BY <2>1, <2>2 DEF JobInv, WriteBeforeClose, FreedAtExit
  <2>5. BlockMatched(m)'
    BY <1>1, <1>2, <2>1, <2>2 DEF JobInv, BlockMatched, Msgs
  <2> QED
    BY <2>3, <2>4, <2>5 DEF JobInv
<1> QED
  BY <1>5, <1>6, <1>7, <1>8

(* A callback of the pipe begins, or ends with an empty queue.             *)
LEMMA PollInv ==
  ASSUME Inv, Wakeup \/ DrainEnds
  PROVE  Inv'
<1> USE DEF Inv, Wakeup, DrainEnds
<1>1. TypeOK'
  <2>1. bytes' \in Nat
    BY DEF TypeOK
  <2> QED
    BY <2>1 DEF TypeOK
<1>2. QueueInOrder' /\ WakeupPending' /\ FaultHasCause'
  BY DEF QueueInOrder, WakeupPending, FaultHasCause
<1>3. ASSUME NEW m \in Msgs PROVE JobInv(m)'
  <2>1. JobInv(m)
    OBVIOUS
  <2> QED
    BY <2>1 DEF JobInv, JobWhenTaken, WriteBeforeClose, FreedAtExit,
       BlockMatched
<1> QED
  BY <1>1, <1>2, <1>3

-----------------------------------------------------------------------------
(* The arguments of a message's child do not fit its job, or are junk.     *)
Misfit(m) ==
  \E b \in Blocks :
    /\ b = BlockOf(topic[m])
    /\ \/ b \in JunkArgs
       \/ Len(Execs[b]) >= MaxArgs
       \/ Contains(Execs[b], "key") /\ m \in LongKeys

(* Only such arguments are read or written out of bounds.                  *)
LEMMA ArgsOutcomesFacts ==
  ASSUME NEW m, BlockOf(topic[m]) # NoBlock, "args" \in ArgsOutcomes(m)
  PROVE  Misfit(m)
<1> DEFINE b == BlockOf(topic[m])
<1>1. b \in Blocks
  BY BlockOfMatches
<1>2. \/ Contains(Vector(b), "junk")
      \/ Len(Vector(b)) >= MaxArgs
      \/ Contains(Vector(b), "key") /\ m \in LongKeys
  BY DEF ArgsOutcomes
<1>3. b \notin JunkArgs => Vector(b) = Execs[b]
  BY DEF Vector
<1>4. ~Contains(Execs[b], "junk")
  BY <1>1, ListenerAssumption DEF Contains, Args
<1> HIDE DEF b
<1>5. \/ b \in JunkArgs
      \/ Len(Execs[b]) >= MaxArgs
      \/ Contains(Execs[b], "key") /\ m \in LongKeys
  BY <1>2, <1>3, <1>4
<1> QED
  BY <1>1, <1>5 DEF b, Misfit

(* Taking a message makes its job what it was found to be; the rest of the *)
(* queue stays in order, and the callback leaves it only when it is empty  *)
(* or has been cut.                                                        *)
LEMMA TakesInv ==
  ASSUME Inv,
         NEW m \in Msgs, Takes(m),
         NEW j \in Job, job' = [job EXCEPT ![m] = j],
         j.rkm # "none", j.proc # "freed",
         j.write = "pending" => j.pipe = "open" /\ j.rkm = "held",
         j.pipe \notin {"closing", "closed"}, j.write # "done",
         j.block # NoBlock =>
           topic[m] # <<>> /\ j.block = BlockOf(topic[m]),
         Leaves \/ Continues,
         fault' \in {"none", "link", "args"},
         fault' = "link" => \E d \in Msgs : job[d].proc = "freed",
         fault' = "args" => j.proc = "live" /\ j.rkm = "held" /\ Misfit(m)
  PROVE  Inv'
<1> USE DEF Inv
<1>1. /\ Len(topic) \in Nat /\ Len(queue) \in Nat \ {0}
      /\ Len(queue') = Len(queue) - 1
      /\ \A i \in 1 .. Len(queue') : queue'[i] = queue[i + 1]
      /\ queue[1] = m
      /\ UNCHANGED <<topic, bytes>>
  BY DEF Takes, TypeOK
<1>2. m = Len(topic) - Len(queue) + 1
  BY <1>1 DEF QueueInOrder
<1>3. job[m] = NoJob
  BY <1>1, <1>2 DEF JobInv, JobWhenTaken
<1>4. job'[m] = j /\ \A d \in Msgs : d # m => job'[d] = job[d]
  BY DEF TypeOK
<1>5. TypeOK'
  <2>1. queue' \in Seq(Msgs) /\ job' \in [Msgs -> Job]
    BY DEF TypeOK, Takes
  <2>2. pc' \in {"idle", "draining"} /\ cut' \in BOOLEAN
    BY DEF TypeOK, Leaves, Continues
  <2> QED
    BY <1>1, <2>1, <2>2 DEF TypeOK
<1>6. QueueInOrder'
  BY <1>1 DEF QueueInOrder
<1>7. WakeupPending'
  BY DEF WakeupPending, Takes, Leaves, Continues, TypeOK
<1>8. FaultHasCause'
  <2>1. \A d \in Msgs : job[d].proc = "freed" =>
          d # m /\ job'[d].child = "exited"
    BY <1>3, <1>4 DEF JobInv, FreedAtExit, NoJob
  <2>2. fault' = "args" =>
          job'[m].proc = "live" /\ job'[m].rkm = "held" /\ Misfit(m)'
    BY <1>1, <1>4 DEF Misfit
  <2> QED
    BY <2>1, <2>2 DEF FaultHasCause, Misfit
<1>9. ASSUME NEW d \in Msgs PROVE JobInv(d)'
  <2>1. JobInv(d) /\ d \in Nat
    BY DEF Msgs
  <2>2. CASE d = m
    <3>1. JobWhenTaken(d)'
      BY <1>1, <1>2, <1>4, <2>1, <2>2 DEF JobWhenTaken
    <3>2. WriteBeforeClose(d)' /\ FreedAtExit(d)'
      BY <1>4, <2>2 DEF WriteBeforeClose, FreedAtExit
    <3>3. BlockMatched(d)'
      BY <1>1, <1>2, <1>4, <2>2 DEF BlockMatched
    <3> QED
      BY <3>1, <3>2, <3>3 DEF JobInv
  <2>3. CASE d # m
    <3>1. JobWhenTaken(d)'
      <4>1. topic' = topic /\ d # Len(topic) - Len(queue) + 1
        BY <1>1, <1>2, <2>3
      <4>2. \A t, q \in Nat :
              d # t - q + 1 => (d + q > t <=> d + (q - 1) > t)
        BY <2>1
      <4>3. job'[d] = job[d] /\ JobWhenTaken(d)
        BY <1>4, <2>1, <2>3 DEF JobInv
      <4>4. d + Len(queue) > Len(topic) <=> d + Len(queue') > Len(topic)
        BY <1>1, <4>1, <4>2
      <4> QED
        BY <4>1, <4>3, <4>4 DEF JobWhenTaken
    <3>2. WriteBeforeClose(d)' /\ FreedAtExit(d)' /\ BlockMatched(d)'
      BY <1>1, <1>4, <2>1, <2>3 DEF JobInv, WriteBeforeClose, FreedAtExit,
         BlockMatched
    <3> QED
      BY <3>1, <3>2 DEF JobInv
  <2> QED
    BY <2>2, <2>3
<1> QED
  BY <1>5, <1>6, <1>7, <1>8, <1>9

(* The message that was taken is destroyed, or its child was started, or   *)
(* one of the calls that start it has failed.                              *)
LEMMA TakeInv ==
  ASSUME Inv, NEW m \in Msgs, Take(m)
  PROVE  Inv'
<1>1. job \in [Msgs -> Job]
  BY DEF Inv, TypeOK
<1>2. Running /\ Takes(m) /\ job[m] = NoJob
  <2>1. Takes(m)
    BY DEF Take, TakeError, TakeUnmatched, NoMemory, SpawnFails, WriteFails,
       Start, TakesMatched
  <2>2. queue[1] = m /\ Len(queue) \in Nat \ {0} /\ Len(topic) \in Nat
    BY <2>1 DEF Takes, Inv, TypeOK
  <2> QED
    BY <2>1, <2>2 DEF Takes, Inv, QueueInOrder, JobInv, JobWhenTaken
<1>3. CASE TakeError(m) \/ TakeUnmatched(m) \/ NoMemory(m)
  <2> DEFINE j == [NoJob EXCEPT !.rkm = "destroyed"]
  <2>1. job' = [job EXCEPT ![m] = j]
    BY <1>1, <1>2, <1>3 DEF TakeError, TakeUnmatched, NoMemory
  <2>2. (Leaves \/ Continues) /\ fault' = "none"
    BY <1>2, <1>3 DEF TakeError, TakeUnmatched, NoMemory, Running
  <2>3. /\ j \in Job /\ j.rkm = "destroyed" /\ j.proc = "none"
        /\ j.write = "none" /\ j.pipe = "none" /\ j.block = NoBlock
    <3>1. j \in Job
      BY NoJobType DEF Job
    <3> QED
      BY <3>1 DEF NoJob
  <2> HIDE DEF j
  <2> QED
    BY <1>2, <2>1, <2>2, <2>3, TakesInv
<1>4. fault' \in LinkOutcomes \cup ArgsOutcomes(m) =>
        /\ fault' \in {"none", "link", "args"}
        /\ fault' = "link" => \E d \in Msgs : job[d].proc = "freed"
        /\ fault' = "args" => "args" \in ArgsOutcomes(m)
  BY DEF LinkOutcomes, ArgsOutcomes
<1>5. CASE SpawnFails(m)
  <2> DEFINE j == [NoJob EXCEPT !.proc = "live", !.rkm = "held"]
  <2>1. job' = [job EXCEPT ![m] = j] /\ Leaves
    BY <1>5 DEF SpawnFails
  <2>2. fault' \in LinkOutcomes \cup ArgsOutcomes(m)
    BY <1>5 DEF SpawnFails
  <2>3. /\ j \in Job /\ j.rkm = "held" /\ j.proc = "live"
        /\ j.write = "none" /\ j.pipe = "none" /\ j.block = NoBlock
    <3>1. j \in Job
      BY NoJobType DEF Job
    <3> QED
      BY <3>1 DEF NoJob
  <2>4. "args" \in ArgsOutcomes(m) => Misfit(m)
    BY <1>5, ArgsOutcomesFacts DEF SpawnFails, TakesMatched
  <2> HIDE DEF j
  <2> QED
    BY <1>2, <1>4, <2>1, <2>2, <2>3, <2>4, TakesInv
<1>6. CASE WriteFails(m) \/ Start(m)
  <2> DEFINE started == [Spawned(m) EXCEPT !.write = "pending"]
  <2>1. PICK j \in {Spawned(m), started} :
          job' = [job EXCEPT ![m] = j] /\ (Leaves \/ Continues)
    BY <1>6 DEF WriteFails, Start
  <2>2. fault' \in LinkOutcomes \cup ArgsOutcomes(m)
    BY <1>6 DEF WriteFails, Start
  <2>3. /\ j \in Job /\ j.rkm = "held" /\ j.proc = "live"
        /\ j.write \in {"none", "pending"} /\ j.pipe = "open"
        /\ j.block = BlockOf(topic[m])
    <3>1. /\ Spawned(m) \in Job /\ Spawned(m).rkm = "held"
          /\ Spawned(m).proc = "live" /\ Spawned(m).write = "none"
          /\ Spawned(m).pipe = "open" /\ Spawned(m).block = BlockOf(topic[m])
      BY <1>6, SpawnedFacts DEF WriteFails, Start, TakesMatched
    <3>2. ASSUME NEW s \in Job, NEW t, t = [s EXCEPT !.write = "pending"]
          PROVE  /\ t \in Job /\ t.rkm = s.rkm /\ t.proc = s.proc
                 /\ t.write = "pending" /\ t.pipe = s.pipe /\ t.block = s.block
      BY <3>2 DEF Job
    <3>3. CASE j = Spawned(m)
      BY <3>1, <3>3
    <3>4. CASE j = started
      BY <3>1, <3>2, <3>4
    <3> QED
      BY <3>3, <3>4
  <2>4. topic[m] # <<>> /\ ("args" \in ArgsOutcomes(m) => Misfit(m))
    BY <1>6, ArgsOutcomesFacts DEF WriteFails, Start, TakesMatched
  <2> HIDE DEF started
  <2> QED
    BY <1>2, <1>4, <2>1, <2>2, <2>3, <2>4, TakesInv
<1> QED
  BY <1>3, <1>5, <1>6 DEF Take

-----------------------------------------------------------------------------
(* A callback of the loop takes one job a step further; it finds freed     *)
(* memory only behind a child that exited.                                 *)
LEMMA CallbackInv ==
  ASSUME Inv,
         NEW m \in Msgs, Callback(m), job[m] # NoJob,
         NEW j \in Job, job' = [job EXCEPT ![m] = j],
         j.rkm # "none", j.block = job[m].block,
         job[m].child = "exited" => j.child = "exited",
         j.write = "pending" => j.pipe = "open" /\ j.rkm = "held",
         j.pipe \in {"closing", "closed"} => j.write = "done",
         j.rkm = "held" => j.write # "done",
         j.proc = "freed" =>
           j.child = "exited" /\ (m \in Hasty \/ j.pipe = "closed"),
         fault' \in {"none", "proc", "link"},
         fault' = "proc" => m \in Hasty /\ job[m].child = "exited",
         fault' = "link" => \E d \in Msgs : job[d].proc = "freed"
  PROVE  Inv'
<1> USE DEF Inv, Callback
<1>1. job'[m] = j /\ \A d \in Msgs : d # m => job'[d] = job[d]
  BY DEF TypeOK
<1>2. job[m].rkm # "none"
  BY DEF JobInv, JobWhenTaken
<1>3. TypeOK'
  BY DEF TypeOK
<1>4. QueueInOrder' /\ WakeupPending'
  BY DEF QueueInOrder, WakeupPending
<1>5. FaultHasCause'
  <2>1. \A d \in Msgs : job[d].child = "exited" => job'[d].child = "exited"
    BY <1>1
  <2>2. \A d \in Msgs : job[d].proc = "freed" => job[d].child = "exited"
    BY DEF JobInv, FreedAtExit
  <2> QED
    BY <2>1, <2>2 DEF FaultHasCause
<1>6. ASSUME NEW d \in Msgs PROVE JobInv(d)'
  <2>1. JobInv(d)
    OBVIOUS
  <2>2. JobWhenTaken(d)'
    BY <1>1, <1>2, <2>1 DEF JobInv, JobWhenTaken
  <2>3. WriteBeforeClose(d)' /\ FreedAtExit(d)'
    BY <1>1, <2>1 DEF JobInv, WriteBeforeClose, FreedAtExit
  <2>4. BlockMatched(d)'
    BY <1>1, <2>1 DEF JobInv, BlockMatched
  <2> QED
    BY <2>2, <2>3, <2>4 DEF JobInv
<1> QED
  BY <1>3, <1>4, <1>5, <1>6

LEMMA CallbacksInv ==
  ASSUME Inv, NEW m \in Msgs,
         ProcWritedCb(m) \/ ProcPipeClosedCb(m) \/ ProcExitedCb(m)
  PROVE  Inv'
<1>1. job \in [Msgs -> Job] /\ job[m] \in Job
  BY DEF Inv, TypeOK
<1>2. JobWhenTaken(m) /\ WriteBeforeClose(m) /\ FreedAtExit(m)
  BY DEF Inv, JobInv
<1>3. fault' \in UseOutcomes(m) \cup LinkOutcomes =>
        /\ fault' \in {"none", "proc", "link"}
        /\ fault' = "proc" => job[m].proc = "freed"
        /\ fault' = "link" => \E d \in Msgs : job[d].proc = "freed"
  BY DEF UseOutcomes, LinkOutcomes
<1>4. CASE ProcWritedCb(m)
  <2> DEFINE j == [job[m] EXCEPT !.write = "done", !.pipe = "closing",
                                 !.rkm = "destroyed"]
  <2>1. job' = [job EXCEPT ![m] = j]
    BY <1>1, <1>4 DEF ProcWritedCb
  <2>2. /\ Callback(m) /\ job[m].write = "pending"
        /\ fault' \in UseOutcomes(m) \cup LinkOutcomes
    BY <1>4 DEF ProcWritedCb
  <2>3. job[m].proc = "freed" => m \in Hasty /\ job[m].child = "exited"
    BY <1>2, <2>2 DEF WriteBeforeClose, FreedAtExit
  <2>4. /\ j \in Job /\ j.write = "done" /\ j.pipe = "closing"
        /\ j.rkm = "destroyed" /\ j.block = job[m].block
        /\ j.proc = job[m].proc /\ j.child = job[m].child
    BY <1>1 DEF Job
  <2>5. job[m] # NoJob
    BY <2>2 DEF NoJob
  <2> HIDE DEF j
  <2> QED
    BY <1>3, <2>1, <2>2, <2>3, <2>4, <2>5, CallbackInv
<1>5. CASE ProcPipeClosedCb(m)
  <2> DEFINE j == [job[m] EXCEPT !.pipe = "closed"]
  <2>1. job' = [job EXCEPT ![m] = j]
    BY <1>1, <1>5 DEF ProcPipeClosedCb
  <2>2. /\ Callback(m) /\ job[m].pipe = "closing"
        /\ fault' \in UseOutcomes(m) \cup LinkOutcomes
    BY <1>5 DEF ProcPipeClosedCb
  <2>3. job[m].proc = "freed" => m \in Hasty /\ job[m].child = "exited"
    BY <1>2, <2>2 DEF FreedAtExit
  <2>4. /\ j \in Job /\ j.pipe = "closed" /\ j.write = job[m].write
        /\ j.rkm = job[m].rkm /\ j.block = job[m].block
        /\ j.proc = job[m].proc /\ j.child = job[m].child
    BY <1>1 DEF Job
  <2>5. job[m] # NoJob /\ job[m].rkm # "none" /\ job[m].write = "done"
    BY <1>2, <2>2 DEF JobWhenTaken, WriteBeforeClose, NoJob
  <2> HIDE DEF j
  <2> QED
    BY <1>2, <1>3, <2>1, <2>2, <2>3, <2>4, <2>5, CallbackInv
       DEF WriteBeforeClose
<1>6. CASE ProcExitedCb(m)
  <2> DEFINE j == [job[m] EXCEPT !.child = "exited", !.proc = "freed"]
  <2>1. job' = [job EXCEPT ![m] = j]
    BY <1>1, <1>6 DEF ProcExitedCb
  <2>2. /\ Callback(m) /\ job[m].child = "running" /\ fault' = "none"
        /\ m \in Hasty \/ job[m].pipe = "closed"
    BY <1>6 DEF ProcExitedCb, Callback, Running
  <2>3. /\ j \in Job /\ j.pipe = job[m].pipe /\ j.write = job[m].write
        /\ j.rkm = job[m].rkm /\ j.block = job[m].block
        /\ j.child = "exited"
    BY <1>1 DEF Job
  <2>4. job[m] # NoJob /\ job[m].rkm # "none"
    BY <1>2, <2>2 DEF JobWhenTaken, NoJob
  <2> HIDE DEF j
  <2> QED
    BY <1>2, <2>1, <2>2, <2>3, <2>4, CallbackInv DEF WriteBeforeClose
<1> QED
  BY <1>4, <1>5, <1>6

-----------------------------------------------------------------------------
(* Every step of the loop and of librdkafka's threads keeps the invariant. *)
THEOREM NextInv == Inv /\ [Next]_vars => Inv'
<1> SUFFICES ASSUME Inv, [Next]_vars PROVE Inv'
  OBVIOUS
<1>1. CASE Arrive \/ ErrorArrives
  BY <1>1, EnqueueInv DEF Arrive, ErrorArrives
<1>2. CASE Wakeup \/ DrainEnds
  BY <1>2, PollInv
<1>3. ASSUME NEW m \in Msgs,
             Take(m) \/ ProcWritedCb(m) \/ ProcPipeClosedCb(m) \/ ProcExitedCb(m)
      PROVE  Inv'
  BY <1>3, TakeInv, CallbacksInv
<1>4. CASE UNCHANGED vars
  <2>1. TypeOK' /\ QueueInOrder' /\ WakeupPending' /\ FaultHasCause'
    BY <1>4 DEF vars, Inv, TypeOK, QueueInOrder, WakeupPending, FaultHasCause
  <2>2. ASSUME NEW m \in Msgs PROVE JobInv(m)'
    <3>1. JobInv(m)
      BY DEF Inv
    <3> QED
      BY <1>4, <3>1 DEF vars, JobInv, JobWhenTaken, WriteBeforeClose,
         FreedAtExit, BlockMatched
  <2> QED
    BY <2>1, <2>2 DEF Inv
<1> QED
  BY <1>1, <1>2, <1>3, <1>4 DEF Next

(* Every behaviour of the loop and the threads keeps the invariant.       *)
THEOREM SpecInv == Spec => []Inv
  BY InitInv, NextInv, PTL DEF Spec

-----------------------------------------------------------------------------
(* Every variable keeps its type.                                          *)
THEOREM TypeCorrect == Spec => []TypeOK
<1>1. Inv => TypeOK
  BY DEF Inv
<1> QED
  BY <1>1, SpecInv, PTL

(* However the threads and the loop interleave, a queue that is not empty  *)
(* has a byte to wake an idle loop, unless a callback left it so.          *)
THEOREM NoWakeupLost == Spec => []WakeupPending
<1>1. Inv => WakeupPending
  BY DEF Inv
<1> QED
  BY <1>1, SpecInv, PTL

(* A message exists as long as libuv writes its payload, also when its     *)
(* child has exited and its job was freed.                                 *)
THEOREM PayloadsLive == Spec => []PayloadAlive
<1>1. Inv => PayloadAlive
  BY DEF Inv, JobInv, WriteBeforeClose, PayloadAlive
<1> QED
  BY <1>1, SpecInv, PTL

(* Memory is misused only behind a child that exited, or for a message     *)
(* whose block's vector ends in junk or whose arguments do not fit.        *)
THEOREM FaultsHaveCauses == Spec => []FaultHasCause
<1>1. Inv => FaultHasCause
  BY DEF Inv
<1> QED
  BY <1>1, SpecInv, PTL

(* No message is lost between the queue and its child, and none is held    *)
(* behind the report of its write.                                         *)
THEOREM NoMessageLost == Spec => []HeldUntilWritten
<1>1. Inv => HeldUntilWritten
  <2> SUFFICES ASSUME Inv, NEW m \in Msgs
               PROVE  /\ job[m].rkm = "none" <=>
                           m > Len(topic) \/ Contains(queue, m)
                      /\ job[m].rkm = "held" => job[m].write # "done"
    BY DEF HeldUntilWritten
  <2>1. /\ Len(queue) \in Nat /\ Len(topic) \in Nat /\ m \in Nat \ {0}
        /\ Len(queue) <= Len(topic)
    BY DEF Inv, TypeOK, QueueInOrder, Msgs
  <2>2. Contains(queue, m) <=>
          m + Len(queue) > Len(topic) /\ m <= Len(topic)
    <3>1. ASSUME NEW i \in 1 .. Len(queue), queue[i] = m
          PROVE  m + Len(queue) > Len(topic) /\ m <= Len(topic)
      BY <2>1, <3>1 DEF Inv, QueueInOrder
    <3>2. ASSUME m + Len(queue) > Len(topic), m <= Len(topic)
          PROVE  Contains(queue, m)
      <4>1. m + Len(queue) - Len(topic) \in 1 .. Len(queue)
        BY <2>1, <3>2
      <4>2. queue[m + Len(queue) - Len(topic)] = m
        BY <2>1, <4>1 DEF Inv, QueueInOrder
      <4> QED
        BY <4>1, <4>2 DEF Contains
    <3> QED
      BY <3>1, <3>2 DEF Contains
  <2> QED
    BY <2>1, <2>2 DEF Inv, JobInv, JobWhenTaken, WriteBeforeClose
<1> QED
  BY <1>1, SpecInv, PTL

(* What an exact comparison of the names would find is found by the code's *)
(* when no name that is listened to begins with another name but for that  *)
(* name's last character.                                                  *)
NamesToldApart ==
  \A name \in Names : \A b \in Blocks :
    IsPrefix(Front(name), Listened[b]) => Listened[b] = name

(* A child then runs the script of the block of its message's topic.       *)
THEOREM RightScripts == NamesToldApart => (Spec => []RunsBlockOfItsTopic)
<1> SUFFICES ASSUME NamesToldApart PROVE Spec => []RunsBlockOfItsTopic
  OBVIOUS
<1>1. Inv => RunsBlockOfItsTopic
  <2> SUFFICES ASSUME Inv, NEW m \in Msgs, job[m].block # NoBlock
               PROVE  Listened[job[m].block] = topic[m]
    BY DEF RunsBlockOfItsTopic
  <2>1. /\ m \in 1 .. Len(topic) /\ topic[m] # <<>>
        /\ job[m].block = BlockOf(topic[m])
    BY DEF Inv, JobInv, BlockMatched, TypeOK, Msgs
  <2>2. topic[m] \in Names
    BY <2>1 DEF Inv, TypeOK
  <2> QED
    BY <2>1, <2>2, BlockOfMatches DEF NamesToldApart, SameTopic, NoBlock
<1> QED
  BY <1>1, SpecInv, PTL
=============================================================================
