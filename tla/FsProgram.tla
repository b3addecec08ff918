----------------------------- MODULE FsProgram -----------------------------
(***************************************************************************)
(* The program around the configuration: main (folksong.c) looks for an    *)
(* option, reads the configuration it names (FsConf), starts what was read *)
(* and runs the libuv loop; in the loop the timers spawn their children.   *)
(*                                                                         *)
(* All timers share one process handle, and the loop does not wait for the *)
(* child in it.  Time passes in ticks; what libuv and the system do with   *)
(* timers, children and addresses is external.                             *)
(***************************************************************************)
EXTENDS FsConf

CONSTANTS
  Argvs,    \* the argument vectors, without the program's name
  Times,    \* the times a timer may be configured with
  MaxRun    \* the bound on how long a child runs that ever ends

ASSUME ProgramAssumption ==
  /\ Argvs \subseteq Seq({"-h", "-c", "-f", "other"})
  /\ Times \subseteq Nat
  /\ MaxRun \in Nat \ {0}
  /\ \A t \in Times : t <= MaxRun + 1

VARIABLES
  argv,     \* the arguments of the program
  main,     \* where main is
  timers,   \* the timers started: what each was configured with
  clock,    \* the handle of each in libuv
  listens,  \* the http contexts whose address is listened on
  child,    \* proc, the process handle of the timers, and the child in it
  late,     \* whether the loop was ever held up for a tick
  crash     \* why the loop is undefined, and the timer that made it so

program == <<argv, main, timers, clock, listens, child, late, crash>>

allVars == <<vars, program>>

Forever == MaxRun + 1

NoTimers == [i \in {} |-> 0]

Ids == 1 .. Len(ctx)

Handles == [on : BOOLEAN, left : Nat, again : Nat]

ProgramTypeOK ==
  /\ TypeOK
  /\ argv \in Argvs
  /\ main \in {"arguments", "reading", "loop", "ended", "failed"}
  /\ DOMAIN timers \subseteq Ids
  /\ DOMAIN clock = DOMAIN timers
  /\ \A i \in DOMAIN timers :
       /\ timers[i] \in [timeout : Times \cup {0}, repeat : Times \cup {0}]
       /\ clock[i] \in Handles
  /\ listens \subseteq Ids
  /\ child \in [busy : BOOLEAN, run : 0 .. Forever, left : 0 .. Forever,
                by : Nat]
  /\ late \in BOOLEAN
  /\ crash \in [why : {"none", "no_value", "no_file", "reused"}, by : Nat]

NoChild == [busy |-> FALSE, run |-> 0, left |-> 0, by |-> 0]

ProgramInit ==
  /\ Init
  /\ argv \in Argvs
  /\ main = "arguments"
  /\ timers = NoTimers
  /\ clock = NoTimers
  /\ listens = {}
  /\ child = NoChild
  /\ late = FALSE
  /\ crash = [why |-> "none", by |-> 0]

Defined == fault = "none" /\ crash.why = "none"

-----------------------------------------------------------------------------
(* main: the first argument that is an option decides; the argument behind *)
(* -c or -f is used whether there is one or not.                           *)

Options == {i \in 1 .. Len(argv) : argv[i] # "other"}
Option == CHOOSE i \in Options : \A j \in Options : i <= j

ReadArguments ==
  /\ main = "arguments" /\ Defined
  /\ \/ argv = <<>> /\ main' = "failed" /\ UNCHANGED crash
     \/ argv # <<>> /\ Options = {} /\ main' = "loop" /\ UNCHANGED crash
     \/ Options # {} /\ argv[Option] = "-h" /\ main' = "ended" /\ UNCHANGED crash
     \/ /\ Options # {} /\ argv[Option] # "-h" /\ Option < Len(argv)
        /\ main' = "reading" /\ UNCHANGED crash
     \/ /\ Options # {} /\ argv[Option] # "-h" /\ Option = Len(argv)
        /\ crash' = [why |-> "no_value", by |-> 0] /\ UNCHANGED main
  /\ UNCHANGED <<vars, argv, timers, clock, listens, child, late>>

(* The file named may not open, and any read of it may be called an error; *)
(* either refuses the configuration.                                       *)
FileFails ==
  /\ main = "reading" /\ status = "parsing" /\ Defined
  /\ argv[Option] = "-f"
  /\ status' = "refused"
  /\ UNCHANGED <<script, stack, slots, ctx, ctxs, lines, fault, program>>

ReadFile == main = "reading" /\ Read /\ UNCHANGED program

-----------------------------------------------------------------------------
(* What was read is started.  A timer without a timeout fires at once, one *)
(* without a repeat once; uv_listen may fail for any address.              *)

TimesOf(i, name) == IF name \in ctx[i].set THEN Times ELSE {0}

Settings ==
  {f \in [{ctxs["timer"][j] : j \in 1 .. Len(ctxs["timer"])} ->
            [timeout : Times \cup {0}, repeat : Times \cup {0}]] :
     \A i \in DOMAIN f : /\ f[i].timeout \in TimesOf(i, "timeout")
                         /\ f[i].repeat \in TimesOf(i, "repeat")}

TimerStartSwapped(t) == [on |-> TRUE, left |-> t.repeat, again |-> t.timeout]

TimerStart(t) == [on |-> TRUE, left |-> t.timeout, again |-> t.repeat]

StartUnasked ==
  /\ main = "reading" /\ Defined /\ status \in {"parsed", "refused"}
  /\ timers' \in Settings
  /\ clock' = [i \in DOMAIN timers' |-> TimerStart(timers'[i])]
  /\ listens' \in SUBSET {ctxs["http"][j] : j \in 1 .. Len(ctxs["http"])}
  /\ main' = "loop"
  /\ UNCHANGED <<vars, argv, child, late, crash>>

Start ==
  /\ main = "reading"
  /\ GmodInited
  /\ timers' \in Settings
  /\ clock' = [i \in DOMAIN timers' |-> TimerStart(timers'[i])]
  /\ listens' \in SUBSET {ctxs["http"][j] : j \in 1 .. Len(ctxs["http"])}
  /\ main' = "loop"
  /\ UNCHANGED <<argv, child, late, crash>>

(* Only a configuration that was accepted writes conf.valid, which main    *)
(* reads all the same: after a refusal it may run the loop with nothing in *)
(* it.                                                                     *)
Refused ==
  /\ main = "reading" /\ status = "refused"
  /\ main' \in {"failed", "loop"}
  /\ UNCHANGED <<vars, argv, timers, clock, listens, child, late, crash>>

-----------------------------------------------------------------------------
(* The loop. *)

Looping == main = "loop" /\ Defined

(* A timer that is due is set again or stopped, and then spawns its child, *)
(* which may fail, also because the child finds junk in the slot of its    *)
(* arguments that was left unwritten.  Of two that are due either may be   *)
(* first.                                                                  *)
Rearmed(h) ==
  IF h.again = 0 THEN [h EXCEPT !.on = FALSE] ELSE [h EXCEPT !.left = h.again]

TimerCb(i) ==
  /\ Looping
  /\ clock[i].on /\ clock[i].left = 0
  /\ clock' = [clock EXCEPT ![i] = Rearmed(@)]
  /\ \/ /\ "exec" \notin ctx[i].set
        /\ crash' = [why |-> "no_file", by |-> i]
        /\ UNCHANGED child
     \/ /\ "exec" \in ctx[i].set /\ child.busy
        /\ crash' = [why |-> "reused", by |-> i]
        /\ UNCHANGED child
     \/ /\ "exec" \in ctx[i].set /\ ~child.busy
        /\ child' \in {NoChild} \cup
             {[busy |-> TRUE, run |-> r, left |-> r, by |-> i] :
                r \in 1 .. Forever}
        /\ UNCHANGED crash
  /\ UNCHANGED <<vars, argv, main, timers, listens, late>>

(* libuv learns of a child's end when it polls. *)
ChildReported ==
  /\ Looping
  /\ child.busy /\ child.left = 0
  /\ child' = NoChild
  /\ UNCHANGED <<vars, argv, main, timers, clock, listens, late, crash>>

Overdue ==
  \/ \E i \in DOMAIN clock : clock[i].on /\ clock[i].left = 0
  \/ child.busy /\ child.left = 0

Less(n) == IF n = 0 THEN 0 ELSE n - 1

Tick ==
  /\ Looping
  /\ late' = (late \/ Overdue)
  /\ clock' = [i \in DOMAIN clock |-> [clock[i] EXCEPT !.left = Less(@)]]
  /\ child' = IF child.run = Forever THEN child
              ELSE [child EXCEPT !.left = Less(@)]
  /\ UNCHANGED <<vars, argv, main, timers, listens, crash>>

(* The loop ends when no timer is left and nothing is listened to.  The    *)
(* child is not waited for: its handle is unreferenced.                    *)
Alive ==
  \/ \E i \in DOMAIN clock : clock[i].on
  \/ listens # {}
  \/ status = "running" /\ ctxs["listener"] # <<>>

LoopEndsWaiting ==
  /\ Looping
  /\ ~Alive /\ ~child.busy
  /\ main' = "ended"
  /\ UNCHANGED <<vars, argv, timers, clock, listens, child, late, crash>>

LoopEnds ==
  /\ Looping
  /\ ~Alive
  /\ main' = "ended"
  /\ UNCHANGED <<vars, argv, timers, clock, listens, child, late, crash>>

-----------------------------------------------------------------------------
ProgramNext ==
  \/ ReadArguments
  \/ FileFails
  \/ ReadFile
  \/ Start
  \/ Refused
  \/ \E i \in DOMAIN clock : TimerCb(i)
  \/ ChildReported
  \/ Tick
  \/ LoopEnds

(* Time passes, and libuv runs what is due and leaves a loop that has      *)
(* nothing left; reading ends with the file.                               *)
Fairness ==
  /\ WF_allVars(Tick)
  /\ WF_allVars(\E i \in DOMAIN clock : TimerCb(i))
  /\ WF_allVars(LoopEnds)

ProgramSpec == ProgramInit /\ [][ProgramNext]_allVars /\ Fairness

-----------------------------------------------------------------------------
(* Properties. *)

(* Nothing runs of a configuration that was refused, whatever conf.valid   *)
(* happens to hold; of one that was accepted, each context made is started *)
(* once, in the order of the file, complete unless the file ended inside a *)
(* block, and with the loop it needs unless another of its kind follows.   *)
OnlyAcceptedStarts ==
  /\ StartedIsComplete
  /\ status # "running" =>
       timers = NoTimers /\ listens = {} /\ ~child.busy
  /\ crash.why = "no_file" => stack # <<>>

(* The timers' one process handle is used again while a child is in it     *)
(* only when the child is another timer's, or ran as long as the period of *)
(* its own, or the loop was held up.                                       *)
ReusedOnlyIfOverlap ==
  crash.why = "reused" =>
    \/ late
    \/ child.by # crash.by
    \/ child.run >= timers[crash.by].repeat

(* A program that has nothing to wait for ends: its timers all fire, and a *)
(* child that never ends does not keep it.                                 *)
NothingToWaitFor ==
  /\ listens = {}
  /\ status = "running" => ctxs["listener"] = <<>>
  /\ \A i \in DOMAIN timers : timers[i].repeat = 0

EndsByItself ==
  main = "loop" /\ NothingToWaitFor ~> main = "ended" \/ ~Defined
=============================================================================
