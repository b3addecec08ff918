-------------------------- MODULE FsProgram_proofs --------------------------
(***************************************************************************)
(* Proofs about FsProgram, for any configuration, any arguments and any    *)
(* times.  What FsConf_proofs shows of reading a configuration holds of    *)
(* the program too, and carries over to what is started of it.             *)
(***************************************************************************)
EXTENDS FsProgram, FsConf_proofs

(* Only what was read to the end is in the loop.                           *)
NothingBeforeStart ==
  status # "running" => timers = NoTimers /\ listens = {} /\ ~child.busy

(* The timers started are contexts of the timer module, and the handle of  *)
(* each repeats as it was configured.                                      *)
TimersInv ==
  \A i \in DOMAIN timers :
    ctx[i].mod = "timer" /\ clock[i].again = timers[i].repeat

(* While the loop is never held up, a child that runs shorter than the     *)
(* period of its timer ends before that timer is due again.                *)
ChildInv ==
  child.busy =>
    /\ child.by \in DOMAIN timers
    /\ ~late /\ crash.why = "none" /\ child.run < timers[child.by].repeat =>
         clock[child.by].on /\ child.left < clock[child.by].left

(* The process is undefined for an option without its value, or in the     *)
(* loop.                                                                   *)
CrashInv ==
  /\ crash.why # "none" => main \in {"arguments", "loop"}
  /\ crash.why = "no_file" => stack # <<>>

ProgramInv ==
  /\ ConfInv
  /\ ProgramTypeOK
  /\ NothingBeforeStart
  /\ TimersInv
  /\ ChildInv
  /\ CrashInv
  /\ ReusedOnlyIfOverlap

-----------------------------------------------------------------------------
LEMMA ProgramInitInv == ProgramInit => ProgramInv
<1> SUFFICES ASSUME ProgramInit PROVE ProgramInv
  OBVIOUS
<1> USE DEF ProgramInit
<1>1. ConfInv /\ TypeOK
  BY InitInv DEF ConfInv
<1>2. DOMAIN NoTimers = {}
  BY DEF NoTimers
<1>3. child \in [busy : BOOLEAN, run : 0 .. Forever, left : 0 .. Forever, by : Nat]
  BY ProgramAssumption DEF NoChild, Forever
<1>4. ProgramTypeOK
  BY <1>1, <1>2, <1>3 DEF ProgramTypeOK
<1>5. NothingBeforeStart /\ ChildInv
  BY DEF NothingBeforeStart, ChildInv, NoChild, Init
<1>6. TimersInv
  BY <1>2 DEF TimersInv
<1>7. CrashInv /\ ReusedOnlyIfOverlap
  BY DEF CrashInv, ReusedOnlyIfOverlap
<1> QED
  BY <1>1, <1>4, <1>5, <1>6, <1>7 DEF ProgramInv

(* Reading moves the configuration only, before anything is started.       *)
LEMMA ReadingKeeps ==
  ASSUME ProgramInv, ConfInv', status = "parsing", status' # "running",
         main = "reading", UNCHANGED program
  PROVE  ProgramInv'
<1>1. /\ timers = NoTimers /\ listens = {} /\ ~child.busy /\ DOMAIN timers = {}
      /\ crash.why = "none"
  BY DEF ProgramInv, NothingBeforeStart, CrashInv, ProgramTypeOK, NoTimers
<1>2. ProgramTypeOK'
  BY <1>1 DEF ProgramInv, ConfInv, ProgramTypeOK, program
<1>3. timers' = timers /\ listens' = listens /\ child' = child /\ crash' = crash
  BY DEF program
<1>4. NothingBeforeStart' /\ TimersInv'
  BY <1>1, <1>3 DEF NothingBeforeStart, TimersInv
<1>5. ChildInv' /\ CrashInv' /\ ReusedOnlyIfOverlap'
  BY <1>1, <1>3 DEF ChildInv, CrashInv, ReusedOnlyIfOverlap
<1> QED
  BY <1>2, <1>4, <1>5 DEF ProgramInv

LEMMA ReadFileInv ==
  ASSUME ProgramInv, ReadFile
  PROVE  ProgramInv'
<1>1. Read /\ UNCHANGED program /\ main = "reading" /\ ConfInv
  BY DEF ReadFile, ProgramInv
<1>2. ConfInv'
  BY <1>1, ReadInv
<1>3. status = "parsing" /\ status' # "running"
  BY <1>1 DEF Read, OpenBlock, OpenSubblock, Param, CloseSubblock, CloseBlock, Refuse,
              EndOfFile, Reading
<1> QED
  BY <1>1, <1>2, <1>3, ReadingKeeps

LEMMA FileFailsInv ==
  ASSUME ProgramInv, FileFails
  PROVE  ProgramInv'
<1>1. /\ status = "parsing" /\ status' = "refused" /\ main = "reading"
      /\ UNCHANGED <<script, stack, slots, ctx, ctxs, lines, fault, program>>
  BY DEF FileFails
<1>2. ConfInv'
  BY <1>1, StatusInv DEF ProgramInv, ConfInv, TypeOK
<1> QED
  BY <1>1, <1>2, ReadingKeeps

(* A step of main alone: it decides, gives up, or leaves the loop.         *)
LEMMA MainInv ==
  ASSUME ProgramInv, UNCHANGED <<vars, argv, timers, clock, listens, child, late, crash>>,
         crash.why = "none",
         main' \in {"arguments", "reading", "loop", "ended", "failed"}
  PROVE  ProgramInv'
<1>1. ConfInv'
  BY UnchangedInv DEF ProgramInv
<1>2. ProgramTypeOK'
  BY <1>1 DEF ProgramInv, ConfInv, ProgramTypeOK, Ids, vars
<1>3. NothingBeforeStart' /\ TimersInv' /\ ChildInv' /\ CrashInv' /\ ReusedOnlyIfOverlap'
  BY DEF ProgramInv, NothingBeforeStart, TimersInv, ChildInv, CrashInv, ReusedOnlyIfOverlap, vars
<1> QED
  BY <1>1, <1>2, <1>3 DEF ProgramInv

LEMMA ReadArgumentsInv ==
  ASSUME ProgramInv, ReadArguments
  PROVE  ProgramInv'
<1>1. /\ main = "arguments" /\ crash.why = "none"
      /\ UNCHANGED <<vars, argv, timers, clock, listens, child, late>>
  BY DEF ReadArguments, Defined
<1>2. CASE crash' = crash /\ main' \in {"failed", "loop", "ended", "reading"}
  BY <1>1, <1>2, MainInv
<1>3. CASE crash' = [why |-> "no_value", by |-> 0] /\ main' = main
  <2>1. ConfInv'
    BY <1>1, UnchangedInv DEF ProgramInv
  <2>2. ProgramTypeOK'
    BY <1>1, <1>3, <2>1 DEF ProgramInv, ConfInv, ProgramTypeOK, Ids, vars
  <2>3. NothingBeforeStart' /\ TimersInv' /\ ChildInv' /\ CrashInv' /\ ReusedOnlyIfOverlap'
    BY <1>1, <1>3 DEF ProgramInv, NothingBeforeStart, TimersInv, ChildInv, CrashInv,
                      ReusedOnlyIfOverlap, vars
  <2> QED
    BY <2>1, <2>2, <2>3 DEF ProgramInv
<1> QED
  BY <1>2, <1>3 DEF ReadArguments

LEMMA RefusedInv ==
  ASSUME ProgramInv, Refused
  PROVE  ProgramInv'
<1>1. crash.why = "none"
  BY DEF Refused, ProgramInv, CrashInv, ProgramTypeOK
<1> QED
  BY <1>1, MainInv DEF Refused

LEMMA LoopEndsInv ==
  ASSUME ProgramInv, LoopEnds
  PROVE  ProgramInv'
BY MainInv DEF LoopEnds, Looping, Defined

(* The contexts of a module are among those made, and are its own.         *)
LEMMA StoredContexts ==
  ASSUME ConfInv, NEW m \in Mods, NEW i \in {ctxs[m][j] : j \in 1 .. Len(ctxs[m])}
  PROVE  i \in 1 .. Len(ctx) /\ ctx[i].mod = m
BY DEF ConfInv, AllStored, StoredAsMade

LEMMA StartInv ==
  ASSUME ProgramInv, Start
  PROVE  ProgramInv'
<1>1. /\ main = "reading" /\ GmodInited /\ timers' \in Settings /\ main' = "loop"
      /\ clock' = [i \in DOMAIN timers' |-> TimerStart(timers'[i])]
      /\ listens' \in SUBSET {ctxs["http"][j] : j \in 1 .. Len(ctxs["http"])}
      /\ UNCHANGED <<argv, child, late, crash>>
  BY DEF Start
<1>2. ConfInv'
  BY <1>1, GmodInitedInv DEF ProgramInv
<1>3. status = "parsed" /\ status' = "running" /\ ctxs' = ctxs
  BY <1>1 DEF GmodInited
<1>4. ~child.busy /\ crash.why = "none"
  BY <1>1, <1>3 DEF ProgramInv, NothingBeforeStart, CrashInv, ProgramTypeOK
<1> DEFINE ids == {ctxs["timer"][j] : j \in 1 .. Len(ctxs["timer"])}
<1>5. timers' \in [ids -> [timeout : Times \cup {0}, repeat : Times \cup {0}]]
  BY <1>1 DEF Settings
<1>6. /\ \A i \in ids : i \in 1 .. Len(ctx') /\ ctx'[i].mod = "timer"
      /\ listens' \subseteq 1 .. Len(ctx')
  <2>1. \A m \in Mods : \A i \in {ctxs'[m][j] : j \in 1 .. Len(ctxs'[m])} :
          i \in 1 .. Len(ctx') /\ ctx'[i].mod = m
    BY <1>2 DEF ConfInv, AllStored, StoredAsMade
  <2>2. "timer" \in Mods /\ "http" \in Mods
    BY DEF Mods
  <2> QED
    BY <1>1, <1>3, <2>1, <2>2
<1> HIDE DEF ids
<1>7. ASSUME NEW i \in ids
      PROVE  /\ timers'[i] \in [timeout : Times \cup {0}, repeat : Times \cup {0}]
             /\ clock'[i] \in Handles
             /\ clock'[i].again = timers'[i].repeat
  <2>1. timers'[i] \in [timeout : Times \cup {0}, repeat : Times \cup {0}]
    BY <1>5
  <2>2. clock'[i] = [on |-> TRUE, left |-> timers'[i].timeout, again |-> timers'[i].repeat]
    BY <1>1, <1>5 DEF TimerStart
  <2>3. timers'[i].timeout \in Nat /\ timers'[i].repeat \in Nat
    <3>1. Times \cup {0} \subseteq Nat
      BY ProgramAssumption
    <3> QED
      BY <2>1, <3>1
  <2> QED
    BY <2>1, <2>2, <2>3 DEF Handles
<1>8. DOMAIN timers' = ids /\ DOMAIN clock' = ids
  BY <1>1, <1>5
<1>9. ProgramTypeOK'
  <2>1. TypeOK'
    BY <1>2 DEF ConfInv
  <2>2. /\ argv' \in Argvs /\ main' = "loop" /\ late' \in BOOLEAN
        /\ child' \in [busy : BOOLEAN, run : 0 .. Forever, left : 0 .. Forever, by : Nat]
        /\ crash' \in [why : {"none", "no_value", "no_file", "reused"}, by : Nat]
    BY <1>1 DEF ProgramInv, ProgramTypeOK
  <2> QED
    BY <1>6, <1>7, <1>8, <2>1, <2>2 DEF ProgramTypeOK, Ids
<1>10. NothingBeforeStart' /\ ChildInv' /\ CrashInv' /\ ReusedOnlyIfOverlap'
  BY <1>1, <1>3, <1>4 DEF NothingBeforeStart, ChildInv, CrashInv, ReusedOnlyIfOverlap
<1>11. TimersInv'
  BY <1>6, <1>7, <1>8 DEF TimersInv
<1> QED
  BY <1>2, <1>9, <1>10, <1>11 DEF ProgramInv

-----------------------------------------------------------------------------
(* The loop.  Its steps leave the configuration as it is.                  *)

(* The types of what the loop works on.                                    *)
LEMMA LoopTypes ==
  ASSUME ProgramInv
  PROVE  /\ DOMAIN clock = DOMAIN timers
         /\ \A i \in DOMAIN timers :
              /\ i \in Nat
              /\ timers[i].repeat \in Nat /\ timers[i].repeat <= Forever
              /\ clock[i] \in Handles
              /\ clock[i].on \in BOOLEAN /\ clock[i].left \in Nat /\ clock[i].again \in Nat
              /\ clock[i].again = timers[i].repeat
         /\ Forever \in Nat /\ Forever > 0
         /\ child \in [busy : BOOLEAN, run : 0 .. Forever, left : 0 .. Forever, by : Nat]
<1>1. /\ DOMAIN clock = DOMAIN timers /\ DOMAIN timers \subseteq Ids
      /\ \A i \in DOMAIN timers :
           /\ timers[i] \in [timeout : Times \cup {0}, repeat : Times \cup {0}]
           /\ clock[i] \in Handles
           /\ clock[i].again = timers[i].repeat
      /\ child \in [busy : BOOLEAN, run : 0 .. Forever, left : 0 .. Forever, by : Nat]
  BY DEF ProgramInv, ProgramTypeOK, TimersInv
<1>2. Forever \in Nat /\ Forever > 0 /\ \A t \in Times \cup {0} : t \in Nat /\ t <= Forever
  BY ProgramAssumption DEF Forever
<1>3. \A i \in DOMAIN timers : i \in Nat
  BY <1>1 DEF Ids
<1>4. ASSUME NEW i \in DOMAIN timers
      PROVE  /\ timers[i].repeat \in Nat /\ timers[i].repeat <= Forever
             /\ clock[i].on \in BOOLEAN /\ clock[i].left \in Nat /\ clock[i].again \in Nat
  <2>1. timers[i].repeat \in Times \cup {0} /\ clock[i] \in Handles
    BY <1>1
  <2> QED
    BY <1>2, <2>1 DEF Handles
<1> QED
  BY <1>1, <1>2, <1>3, <1>4

(* A step of the loop that moves the clock, the child or the fault.        *)
LEMMA LoopInv ==
  ASSUME ProgramInv, UNCHANGED <<vars, argv, main, timers, listens>>,
         DOMAIN clock' = DOMAIN clock,
         \A i \in DOMAIN clock : clock'[i] \in Handles /\ clock'[i].again = clock[i].again,
         child' \in [busy : BOOLEAN, run : 0 .. Forever, left : 0 .. Forever, by : Nat],
         late' \in BOOLEAN,
         crash' \in [why : {"none", "no_value", "no_file", "reused"}, by : Nat],
         status # "running" => ~child'.busy,
         ChildInv', CrashInv', ReusedOnlyIfOverlap'
  PROVE  ProgramInv'
<1>1. ConfInv' /\ ctx' = ctx
  BY UnchangedInv DEF ProgramInv, vars
<1>2. ProgramTypeOK'
  BY <1>1 DEF ProgramInv, ConfInv, ProgramTypeOK, Ids
<1>3. NothingBeforeStart'
  BY DEF ProgramInv, NothingBeforeStart, vars
<1>4. TimersInv'
  BY <1>1 DEF ProgramInv, TimersInv, ProgramTypeOK
<1> QED
  BY <1>1, <1>2, <1>3, <1>4 DEF ProgramInv

(* A timer that was started has what its child needs, unless its block was *)
(* never closed.                                                           *)
LEMMA TimerHasExec ==
  ASSUME ProgramInv, NEW i \in DOMAIN timers, stack = <<>>
  PROVE  "exec" \in ctx[i].set
<1>1. i \in 1 .. Len(ctx) /\ ctx[i].mod = "timer"
  BY DEF ProgramInv, ProgramTypeOK, TimersInv, Ids
<1>2. ctx[i].completed
  BY <1>1 DEF ProgramInv, ConfInv, ContextsInv, ContextInv
<1>3. Ready(ctx[i])
  BY <1>1, <1>2 DEF ProgramInv, ConfInv, CompletedIsFinal
<1> QED
  BY <1>1, <1>3, ReadyByTests DEF TimerReady

LEMMA TimerCbInv ==
  ASSUME ProgramInv, NEW i \in DOMAIN clock, TimerCb(i)
  PROVE  ProgramInv'
<1>1. /\ main = "loop" /\ crash.why = "none" /\ clock[i].on /\ clock[i].left = 0
      /\ clock' = [clock EXCEPT ![i] = Rearmed(@)]
      /\ UNCHANGED <<vars, argv, main, timers, listens, late>>
  BY DEF TimerCb, Looping, Defined
<1>2. /\ DOMAIN clock = DOMAIN timers
      /\ \A j \in DOMAIN timers :
           /\ j \in Nat
           /\ timers[j].repeat \in Nat /\ timers[j].repeat <= Forever
           /\ clock[j] \in Handles
           /\ clock[j].on \in BOOLEAN /\ clock[j].left \in Nat /\ clock[j].again \in Nat
           /\ clock[j].again = timers[j].repeat
      /\ Forever \in Nat /\ Forever > 0
      /\ child \in [busy : BOOLEAN, run : 0 .. Forever, left : 0 .. Forever, by : Nat]
  BY LoopTypes
<1>3. /\ DOMAIN clock' = DOMAIN clock
      /\ \A j \in DOMAIN clock : j # i => clock'[j] = clock[j]
      /\ clock'[i] \in Handles /\ clock'[i].again = clock[i].again
      /\ clock[i].again > 0 => clock'[i].on /\ clock'[i].left = clock[i].again
  <2>1. DOMAIN clock' = DOMAIN clock /\ clock'[i] = Rearmed(clock[i])
        /\ \A j \in DOMAIN clock : j # i => clock'[j] = clock[j]
    BY <1>1
  <2>2. clock[i] \in Handles /\ clock[i].again \in Nat
    BY <1>2
  <2>3. CASE clock[i].again = 0
    <3>1. clock'[i] = [clock[i] EXCEPT !.on = FALSE]
      BY <2>1, <2>3 DEF Rearmed
    <3> QED
      <4>1. clock'[i] \in Handles /\ clock'[i].again = clock[i].again
        BY <2>2, <3>1 DEF Handles
      <4>2. ~(clock[i].again > 0)
        BY <2>3
      <4> QED
        BY <2>1, <4>1, <4>2
  <2>4. CASE clock[i].again # 0
    <3>1. clock'[i] = [clock[i] EXCEPT !.left = clock[i].again]
      BY <2>1, <2>4 DEF Rearmed
    <3> QED
      BY <1>1, <2>1, <2>2, <2>4, <3>1 DEF Handles
  <2> QED
    BY <2>3, <2>4
<1>4. \A j \in DOMAIN clock : clock'[j] \in Handles /\ clock'[j].again = clock[j].again
  BY <1>2, <1>3
<1>5. late' \in BOOLEAN /\ status = "running" /\ i \in Nat
      /\ crash \in [why : {"none", "no_value", "no_file", "reused"}, by : Nat]
  <2>1. timers # NoTimers
    BY <1>2 DEF NoTimers
  <2> QED
    BY <1>1, <1>2, <2>1 DEF ProgramInv, ProgramTypeOK, NothingBeforeStart
<1>6. CASE /\ "exec" \notin ctx[i].set
           /\ crash' = [why |-> "no_file", by |-> i]
           /\ UNCHANGED child
  <2>1. stack # <<>>
    BY <1>2, <1>6, TimerHasExec
  <2>2. ChildInv' /\ CrashInv' /\ ReusedOnlyIfOverlap'
    BY <1>1, <1>6, <2>1 DEF ProgramInv, ChildInv, CrashInv, ReusedOnlyIfOverlap, vars
  <2>3. crash' \in [why : {"none", "no_value", "no_file", "reused"}, by : Nat]
    BY <1>5, <1>6
  <2> QED
    BY <1>1, <1>2, <1>3, <1>4, <1>5, <1>6, <2>2, <2>3, LoopInv
<1>7. CASE /\ child.busy
           /\ crash' = [why |-> "reused", by |-> i]
           /\ UNCHANGED child
  <2>1. ReusedOnlyIfOverlap'
    <3> SUFFICES ASSUME ~late', child'.by = i, ~(child'.run >= timers'[i].repeat)
                 PROVE  FALSE
      BY <1>7 DEF ReusedOnlyIfOverlap
    <3>1. /\ ~late /\ child.by = i /\ timers' = timers /\ child.run \in Nat /\ child.left \in Nat
          /\ child.run < timers[i].repeat
      BY <1>1, <1>2, <1>7
    <3>2. child.left < clock[i].left
      BY <1>1, <1>7, <3>1 DEF ProgramInv, ChildInv
    <3> QED
      BY <1>1, <3>1, <3>2
  <2>2. ChildInv' /\ CrashInv'
    BY <1>1, <1>7 DEF ProgramInv, ChildInv, CrashInv
  <2>3. crash' \in [why : {"none", "no_value", "no_file", "reused"}, by : Nat]
    BY <1>5, <1>7
  <2> QED
    BY <1>1, <1>2, <1>3, <1>4, <1>5, <1>7, <2>1, <2>2, <2>3, LoopInv
<1>8. CASE /\ child' \in {NoChild} \cup
                {[busy |-> TRUE, run |-> r, left |-> r, by |-> i] : r \in 1 .. Forever}
           /\ UNCHANGED crash
  <2>1. CrashInv' /\ ReusedOnlyIfOverlap'
    BY <1>1, <1>8 DEF CrashInv, ReusedOnlyIfOverlap
  <2>2. CASE child' = NoChild
    <3>1. child' \in [busy : BOOLEAN, run : 0 .. Forever, left : 0 .. Forever, by : Nat]
          /\ ~child'.busy
      BY <1>2, <2>2 DEF NoChild
    <3>2. ChildInv'
      BY <3>1 DEF ChildInv
    <3> QED
      BY <1>1, <1>3, <1>4, <1>5, <1>8, <2>1, <3>1, <3>2, LoopInv
  <2>3. ASSUME NEW r \in 1 .. Forever,
               child' = [busy |-> TRUE, run |-> r, left |-> r, by |-> i]
        PROVE  ProgramInv'
    <3>1. child' \in [busy : BOOLEAN, run : 0 .. Forever, left : 0 .. Forever, by : Nat]
      BY <1>2, <1>5, <2>3
    <3>2. ChildInv'
      <4>1. r < timers[i].repeat => clock'[i].on /\ r < clock'[i].left
        BY <1>2, <1>3
      <4>2. child'.by = i /\ child'.run = r /\ child'.left = r /\ timers' = timers
        BY <1>1, <2>3
      <4> QED
        BY <1>2, <4>1, <4>2 DEF ChildInv
    <3> QED
      BY <1>1, <1>3, <1>4, <1>5, <1>8, <2>1, <3>1, <3>2, LoopInv
  <2> QED
    BY <1>8, <2>2, <2>3
<1> QED
  BY <1>6, <1>7, <1>8 DEF TimerCb

LEMMA ChildReportedInv ==
  ASSUME ProgramInv, ChildReported
  PROVE  ProgramInv'
<1>1. /\ main = "loop" /\ crash.why = "none" /\ child' = NoChild
      /\ UNCHANGED <<vars, argv, main, timers, clock, listens, late, crash>>
  BY DEF ChildReported, Looping, Defined
<1>2. /\ child' \in [busy : BOOLEAN, run : 0 .. Forever, left : 0 .. Forever, by : Nat]
      /\ ~child'.busy
  BY <1>1, LoopTypes DEF NoChild
<1>3. ChildInv' /\ CrashInv' /\ ReusedOnlyIfOverlap'
  BY <1>1, <1>2 DEF ChildInv, CrashInv, ReusedOnlyIfOverlap
<1>4. /\ \A i \in DOMAIN clock : clock'[i] \in Handles /\ clock'[i].again = clock[i].again
      /\ late' \in BOOLEAN
      /\ crash' \in [why : {"none", "no_value", "no_file", "reused"}, by : Nat]
  BY <1>1, LoopTypes DEF ProgramInv, ProgramTypeOK
<1> QED
  BY <1>1, <1>2, <1>3, <1>4, LoopInv

(* The child and the timer that started it draw nearer to their ends       *)
(* together, as long as neither is overdue.                                *)
LEMMA TickInv ==
  ASSUME ProgramInv, Tick
  PROVE  ProgramInv'
<1>1. /\ main = "loop" /\ crash.why = "none" /\ late' = (late \/ Overdue)
      /\ clock' = [i \in DOMAIN clock |-> [clock[i] EXCEPT !.left = Less(@)]]
      /\ child' = IF child.run = Forever THEN child ELSE [child EXCEPT !.left = Less(@)]
      /\ UNCHANGED <<vars, argv, main, timers, listens, crash>>
  BY DEF Tick, Looping, Defined
<1>2. /\ DOMAIN clock = DOMAIN timers
      /\ \A j \in DOMAIN timers :
           /\ timers[j].repeat \in Nat /\ timers[j].repeat <= Forever
           /\ clock[j] \in Handles
           /\ clock[j].on \in BOOLEAN /\ clock[j].left \in Nat
      /\ Forever \in Nat
      /\ child \in [busy : BOOLEAN, run : 0 .. Forever, left : 0 .. Forever, by : Nat]
  BY LoopTypes
<1>3. \A n \in Nat : Less(n) \in Nat /\ Less(n) <= n /\ (n > 0 => Less(n) = n - 1)
  BY DEF Less
<1>4. ASSUME NEW j \in DOMAIN clock
      PROVE  /\ clock'[j] \in Handles /\ clock'[j].on = clock[j].on
             /\ clock'[j].left = Less(clock[j].left) /\ clock'[j].again = clock[j].again
  <2>1. clock'[j] = [clock[j] EXCEPT !.left = Less(clock[j].left)]
    BY <1>1
  <2> QED
    BY <1>2, <1>3, <2>1 DEF Handles
<1>5. /\ child' \in [busy : BOOLEAN, run : 0 .. Forever, left : 0 .. Forever, by : Nat]
      /\ child'.busy = child.busy /\ child'.by = child.by /\ child'.run = child.run
      /\ child.run # Forever => child'.left = Less(child.left)
  <2>1. CASE child.run = Forever
    BY <1>1, <1>2, <2>1
  <2>2. CASE child.run # Forever
    <3>1. child' = [child EXCEPT !.left = Less(child.left)]
      BY <1>1, <2>2
    <3>2. Less(child.left) \in 0 .. Forever
      BY <1>2, <1>3
    <3> QED
      BY <1>2, <2>2, <3>1, <3>2
  <2> QED
    BY <2>1, <2>2
<1>6. ChildInv'
  <2> SUFFICES ASSUME child.busy
               PROVE  /\ child.by \in DOMAIN timers
                      /\ ~late' /\ child.run < timers[child.by].repeat =>
                           clock'[child.by].on /\ child'.left < clock'[child.by].left
    BY <1>1, <1>5 DEF ChildInv
  <2>1. child.by \in DOMAIN timers
    BY DEF ProgramInv, ChildInv
  <2>2. ASSUME ~late', child.run < timers[child.by].repeat
        PROVE  clock'[child.by].on /\ child'.left < clock'[child.by].left
    <3>1. ~late /\ ~Overdue
      BY <1>1, <2>2
    <3>2. clock[child.by].on /\ child.left < clock[child.by].left
      BY <1>1, <2>2, <3>1 DEF ProgramInv, ChildInv
    <3>3. child.left # 0
      BY <3>1 DEF Overdue
    <3>4. child.run # Forever
      BY <1>2, <2>1, <2>2
    <3>5. child.left \in Nat /\ clock[child.by].left \in Nat /\ child.left > 0
      BY <1>2, <2>1, <3>3
    <3>6. child'.left = child.left - 1 /\ clock'[child.by].left = clock[child.by].left - 1
      BY <1>2, <1>3, <1>4, <1>5, <2>1, <3>2, <3>4, <3>5
    <3> QED
      BY <1>2, <1>4, <2>1, <3>2, <3>5, <3>6
  <2> QED
    BY <2>1, <2>2
<1>7. CrashInv' /\ ReusedOnlyIfOverlap' /\ late' \in BOOLEAN
  BY <1>1 DEF CrashInv, ReusedOnlyIfOverlap, Overdue, ProgramInv, ProgramTypeOK
<1>8. DOMAIN clock' = DOMAIN clock
  BY <1>1
<1>9. status # "running" => ~child'.busy
  BY <1>5 DEF ProgramInv, NothingBeforeStart
<1>10. crash' \in [why : {"none", "no_value", "no_file", "reused"}, by : Nat]
  BY <1>1 DEF ProgramInv, ProgramTypeOK
<1> QED
  BY <1>1, <1>4, <1>5, <1>6, <1>7, <1>8, <1>9, <1>10, LoopInv

LEMMA ProgramNextInv == ProgramInv /\ [ProgramNext]_allVars => ProgramInv'
<1> SUFFICES ASSUME ProgramInv, [ProgramNext]_allVars PROVE ProgramInv'
  OBVIOUS
<1>1. CASE ProgramNext
  BY <1>1, ReadArgumentsInv, FileFailsInv, ReadFileInv, StartInv, RefusedInv, TimerCbInv,
     ChildReportedInv, TickInv, LoopEndsInv DEF ProgramNext
<1>2. CASE UNCHANGED allVars
  <2>1. UNCHANGED vars /\ UNCHANGED program
    BY <1>2 DEF allVars
  <2>2. ConfInv'
    BY <2>1, UnchangedInv DEF ProgramInv
  <2>3. ProgramTypeOK'
    BY <2>1, <2>2 DEF ProgramInv, ConfInv, ProgramTypeOK, Ids, vars, program
  <2>4. NothingBeforeStart' /\ TimersInv' /\ ChildInv' /\ CrashInv' /\ ReusedOnlyIfOverlap'
    BY <2>1 DEF ProgramInv, NothingBeforeStart, TimersInv, ChildInv, CrashInv,
                ReusedOnlyIfOverlap, vars, program
  <2> QED
    BY <2>2, <2>3, <2>4 DEF ProgramInv
<1> QED
  BY <1>1, <1>2

(* Every behaviour of the program keeps the invariant, that of the reading*)
(* included.                                                              *)
THEOREM ProgramSpecInv == ProgramSpec => []ProgramInv
BY ProgramInitInv, ProgramNextInv, PTL DEF ProgramSpec

-----------------------------------------------------------------------------
(* Results. *)

(* Every variable of the program keeps its type.                           *)
THEOREM ProgramTypeCorrect == ProgramSpec => []ProgramTypeOK
<1>1. ProgramInv => ProgramTypeOK
  BY DEF ProgramInv
<1> QED
  BY ProgramSpecInv, <1>1, PTL

(* Nothing of a refused configuration is started; of an accepted one,      *)
(* everything, once, in order and complete.                                *)
THEOREM AcceptedStarts == ProgramSpec => []OnlyAcceptedStarts
<1>1. ProgramInv => OnlyAcceptedStarts
  BY StartedComplete DEF ProgramInv, NothingBeforeStart, CrashInv, OnlyAcceptedStarts
<1> QED
  BY ProgramSpecInv, <1>1, PTL

(* The timers' process handle is used again while a child is in it only    *)
(* when another timer's child is, or one that outran its timer's period,   *)
(* or after the loop was held up.                                          *)
THEOREM HandleReusedOnOverlap == ProgramSpec => []ReusedOnlyIfOverlap
<1>1. ProgramInv => ReusedOnlyIfOverlap
  BY DEF ProgramInv
<1> QED
  BY ProgramSpecInv, <1>1, PTL

(* The properties of reading hold of the program, which also refuses a     *)
(* file it cannot read and starts what was read.                           *)
THEOREM ProgramReadsRightly ==
  ProgramSpec => [](/\ HandlersExclusive
                    /\ SubblocksShareContext
                    /\ CompletedIsFinal
                    /\ StaleOnlyIfMoved)
<1>1. HandlersExclusive
  BY OneTaker DEF HandlersExclusive
<1>2. ProgramInv => SubblocksShareContext /\ CompletedIsFinal /\ StaleOnlyIfMoved
  BY StaleIfMoved DEF ProgramInv, ConfInv
<1> QED
  BY ProgramSpecInv, <1>1, <1>2, PTL
=============================================================================
