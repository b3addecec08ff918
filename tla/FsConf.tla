------------------------------- MODULE FsConf -------------------------------
(***************************************************************************)
(* Reading a configuration: fs_conf_handle (fs_conf.c) gives each          *)
(* statement to the module handlers of that name until one does not pass,  *)
(* keeps the stack of open blocks, and calls what completes a block at its *)
(* end; after the last statement fs_gmod_inited starts the modules used.   *)
(*                                                                         *)
(* The tokenizer is not modelled here: a statement is its kind, its name   *)
(* and whether the number and the values of its arguments are right.       *)
(***************************************************************************)
EXTENDS Naturals, Sequences

CONSTANTS
  Statements,   \* the statements a configuration may consist of
  Scripts,      \* the configurations to read; <<>> stands for any
  MaxLines,     \* the bound on the statements of one that is not given
  MaxDepth,     \* the bound on the blocks open at once
  Capacity,     \* the slots run->ctx has at first; 8 in fs_run_init
  JunkFields    \* the fields a new kafka route may hold junk in

Mods == {"http", "http_kafka", "proxy", "listener", "timer", "version"}

Kinds == {"open", "param", "close"}
Args == {"right", "wrong"}

KafkaFields == {"topic_param", "default_topic", "key_param", "default_key"}

ASSUME ConfAssumption ==
  /\ Statements \subseteq [kind : Kinds, name : STRING, args : Args]
  /\ Scripts \subseteq Seq(Statements)
  /\ MaxLines \in Nat
  /\ MaxDepth \in Nat
  /\ Capacity \in Nat \ {0}
  /\ JunkFields \subseteq {"key_param", "default_key"}

VARIABLES
  script,   \* the configuration being read
  stack,    \* run->st_mod, its top last: the open blocks
  slots,    \* run->ctx, the array the blocks' ctx pointers point into
  ctx,      \* the contexts the modules have allocated
  ctxs,     \* per module, the contexts stored in it
  lines,    \* the number of statements read
  status,   \* how far the program has come
  fault     \* "none", or why the behaviour of the process is undefined

vars == <<script, stack, slots, ctx, ctxs, lines, status, fault>>

-----------------------------------------------------------------------------
(* The commands of the modules.  A child command belongs inside a block;   *)
(* of those, the ones that open a block are its subblocks.                 *)

Command(mod, block, child, names) ==
  {[mod |-> mod, name |-> n, block |-> block, child |-> child] : n \in names}

HttpCommands ==
  Command("http", TRUE, FALSE, {"http"})
    \cup Command("http", FALSE, TRUE, {"host", "port"})

KafkaCommands ==
  Command("http_kafka", TRUE, TRUE, {"kafka"})
    \cup Command("http_kafka", FALSE, TRUE, KafkaFields \cup {"config"})

ProxyCommands ==
  Command("proxy", TRUE, TRUE, {"proxy"})
    \cup Command("proxy", FALSE, TRUE, {"pass_path"})

ListenerCommands ==
  Command("listener", TRUE, FALSE, {"kafka"})
    \cup Command("listener", TRUE, TRUE, {"topic"})
    \cup Command("listener", FALSE, TRUE, {"config", "exec"})

TimerCommands ==
  Command("timer", TRUE, FALSE, {"timer"})
    \cup Command("timer", FALSE, TRUE, {"timeout", "repeat", "exec"})

VersionCommands ==
  Command("version", TRUE, FALSE, {"fs_version"})
    \cup Command("version", FALSE, TRUE, {"fs_version_art"})

Commands ==
  HttpCommands \cup KafkaCommands \cup ProxyCommands
    \cup ListenerCommands \cup TimerCommands \cup VersionCommands

(* A name is compared over the length of the command's, so that it also    *)
(* finds the commands whose names it begins with.                          *)
Found(name) ==
  {name} \cup
  CASE name = "topic_param" -> {"topic"}
    [] name = "fs_version_art" -> {"fs_version"}
    [] OTHER -> {}

-----------------------------------------------------------------------------
(* A context and the routes or topics pushed to it.  A field is in "set"   *)
(* once it holds something.                                                *)
Fields == {"host", "port", "timeout", "repeat", "exec", "welcome", "config",
           "pass_path"} \cup KafkaFields

Part == [mod : {"http_kafka", "proxy", "listener"}, set : SUBSET Fields]

Context == [mod : Mods, set : SUBSET Fields, parts : Seq(Part),
            completed : BOOLEAN, loop : BOOLEAN]

(* ctx is the context the block's slot holds, slot the place of that slot  *)
(* in the array, and gen the generation of the array it was given in.      *)
Frame == [mod : Mods, cmd : {c.name : c \in Commands}, child : BOOLEAN,
          ctx : Nat, slot : Nat, gen : Nat]

TypeOK ==
  /\ script \in Scripts
  /\ stack \in Seq(Frame)
  /\ slots \in [count : Nat, capa : Nat, gen : Nat]
  /\ ctx \in Seq(Context)
  /\ ctxs \in [Mods -> Seq(Nat)]
  /\ lines \in Nat
  /\ status \in {"parsing", "parsed", "refused", "running"}
  /\ fault \in {"none", "stale", "confused", "args", "unset", "incomplete"}

Init ==
  /\ script \in Scripts
  /\ stack = <<>>
  /\ slots = [count |-> 0, capa |-> Capacity, gen |-> 0]
  /\ ctx = <<>>
  /\ ctxs = [m \in Mods |-> <<>>]
  /\ lines = 0
  /\ status = "parsing"
  /\ fault = "none"

Open == stack # <<>>
Top == stack[Len(stack)]
TopIs(mod, cmd) == Open /\ Top.mod = mod /\ Top.cmd = cmd
TopMod(mod) == Open /\ Top.mod = mod
SubtopMod(mod) == Len(stack) > 1 /\ stack[Len(stack) - 1].mod = mod

TopSet == ctx[Top.ctx].set
LastPart == ctx[Top.ctx].parts[Len(ctx[Top.ctx].parts)]

(* The array of slots only grows; when it is full it is moved. *)
PushedEarly(s) ==
  IF s.count + 1 = s.capa
  THEN [count |-> s.count + 1, capa |-> 2 * s.capa, gen |-> s.gen + 1]
  ELSE [s EXCEPT !.count = @ + 1]

Pushed(s) ==
  IF s.count = s.capa
  THEN [count |-> s.count + 1, capa |-> 2 * s.capa, gen |-> s.gen + 1]
  ELSE [s EXCEPT !.count = @ + 1]

(* Reading the slot of a block that was opened before a move reads freed   *)
(* memory, which may still hold what it held.                              *)
ReadOutcomes(frame, s) ==
  IF frame.gen = s.gen THEN {"none"} ELSE {"none", "stale"}

-----------------------------------------------------------------------------
(* What a handler returns: it accepts, refuses or passes.                  *)

Checked(right) == IF right THEN "accept" ELSE "refuse"

ListenerBlockResult == IF Open THEN "pass" ELSE "accept"

VersionBlockResult == IF ctxs["version"] # <<>> THEN "pass" ELSE "accept"

BlockResult(c) ==
  CASE c.mod = "listener" -> ListenerBlockResult
    [] c.mod = "version" -> VersionBlockResult
    [] c.mod \in {"http", "timer"} -> "accept"

TopicResult(right) == Checked(TopIs("listener", "kafka") /\ right)

RouteResultAnywhere(right) == IF Open THEN Checked(right) ELSE "pass"

RouteResult(right) == IF TopMod("http") THEN Checked(right) ELSE "pass"

SubblockResult(c, right) ==
  CASE c.mod = "listener" -> TopicResult(right)
    [] c.mod \in {"http_kafka", "proxy"} -> RouteResult(right)

HttpParamResult(right) == IF TopMod("http") THEN Checked(right) ELSE "pass"

KafkaParamResult(name, right) ==
  IF TopIs("http_kafka", "kafka")
  THEN Checked(right /\ (name = "config" \/ name \notin LastPart.set))
  ELSE "pass"

PassPathResult(right) ==
  IF SubtopMod("http")
  THEN Checked(right /\ (TopIs("proxy", "proxy") =>
                           "pass_path" \notin LastPart.set))
  ELSE "pass"

ListenerConfigResult(right) ==
  IF TopIs("listener", "kafka") THEN Checked(right) ELSE "pass"

(* Neither exec handler looks at the number of its arguments. *)
ListenerExecResult ==
  IF TopMod("listener") THEN Checked(TopIs("listener", "topic")) ELSE "pass"

TimerExecResultAnywhere == "accept"

TimerExecResult == IF TopMod("timer") THEN "accept" ELSE "pass"

TimerParamResult(name, right) ==
  IF TopMod("timer") THEN Checked(right /\ name \notin TopSet) ELSE "pass"

ParamResult(c, right) ==
  CASE c.mod = "http" -> HttpParamResult(right)
    [] c.mod = "http_kafka" -> KafkaParamResult(c.name, right)
    [] c.mod = "proxy" -> PassPathResult(right)
    [] c.mod = "listener" /\ c.name = "config" -> ListenerConfigResult(right)
    [] c.mod = "listener" /\ c.name = "exec" -> ListenerExecResult
    [] c.mod = "timer" /\ c.name = "exec" -> TimerExecResult
    [] c.mod = "timer" /\ c.name # "exec" -> TimerParamResult(c.name, right)
    [] c.mod = "version" -> "accept"

Result(c, right) ==
  CASE ~c.block -> IF Open THEN ParamResult(c, right) ELSE "refuse"
    [] c.block /\ c.child -> SubblockResult(c, right)
    [] c.block /\ ~c.child -> BlockResult(c)

(* The commands a statement may be for, and those that do not pass it on.  *)
Candidates(s) ==
  {c \in Commands : c.name \in Found(s.name) /\ (c.block <=> s.kind = "open")}

Takers(s) == {c \in Candidates(s) : Result(c, s.args = "right") # "pass"}

Accepted(c, s) == c \in Takers(s) /\ Result(c, s.args = "right") = "accept"

-----------------------------------------------------------------------------
(* Opening a block. *)

Reading(s) ==
  /\ fault = "none"
  /\ status = "parsing"
  /\ IF script = <<>> THEN lines < MaxLines /\ s \in Statements
     ELSE lines < Len(script) /\ s = script[lines + 1]
  /\ lines' = lines + 1
  /\ UNCHANGED script

NewContext(mod) ==
  [mod |-> mod, set |-> IF mod = "version" THEN {"welcome"} ELSE {},
   parts |-> <<>>, completed |-> FALSE, loop |-> FALSE]

NewFrame(c, id) ==
  [mod |-> c.mod, cmd |-> c.name, child |-> c.child, ctx |-> id,
   slot |-> slots'.count, gen |-> slots'.gen]

StoredAnew(ids, id) == <<id>>

Stored(ids, id) == Append(ids, id)

OpenBlock(c, s) ==
  /\ Reading(s)
  /\ s.kind = "open"
  /\ Accepted(c, s)
  /\ ~c.child
  /\ Len(stack) < MaxDepth
  /\ slots' = Pushed(slots)
  /\ ctx' = Append(ctx, NewContext(c.mod))
  /\ ctxs' = [ctxs EXCEPT ![c.mod] = Stored(@, Len(ctx) + 1)]
  /\ stack' = Append(stack, NewFrame(c, Len(ctx) + 1))
  /\ UNCHANGED <<status, fault>>

(* A subblock works on its parent's context, read through the parent's     *)
(* slot, and pushes a route or a topic to it.  Two fields of a new kafka   *)
(* route are not initialised.                                              *)
OpenSubblock(c, s) ==
  /\ Reading(s)
  /\ s.kind = "open"
  /\ Accepted(c, s)
  /\ c.child
  /\ Len(stack) < MaxDepth
  /\ slots' = Pushed(slots)
  /\ fault' \in ReadOutcomes(Top, slots')
  /\ \E junk \in IF c.mod = "http_kafka" THEN SUBSET JunkFields ELSE {{}} :
       ctx' = [ctx EXCEPT ![Top.ctx].parts =
                 Append(@, [mod |-> c.mod, set |-> junk])]
  /\ stack' = Append(stack, NewFrame(c, Top.ctx))
  /\ UNCHANGED <<ctxs, status>>

-----------------------------------------------------------------------------
(* A parameter of the innermost block, written to the context of that      *)
(* block or to the last route or topic of it.                              *)

(* Two handlers do not look at the block they are in closely enough, and   *)
(* may write to a context that is not theirs.                              *)
Misplaced(c) ==
  \/ c.mod = "proxy" /\ ~TopIs("proxy", "proxy")
  \/ c.mod = "version" /\ ~TopMod("version")

(* The argument vector of a child has room for its terminator, which is    *)
(* written one slot too far, behind the array; the allocator's padding may *)
(* absorb it.  The last slot stays unwritten: what reading it does is in   *)
(* the listener's poll_cb, and for a timer in the spawn of its child.      *)
ExecOutcomes(c) == IF c.name = "exec" THEN {"none", "args"} ELSE {"none"}

FieldByName(c) == c.name

FieldOf(c) == IF c.mod = "version" THEN "welcome" ELSE c.name

Configured(x, c) ==
  IF c.mod \in {"http_kafka", "proxy"} \/ TopIs("listener", "topic")
  THEN [x EXCEPT !.parts[Len(x.parts)].set = @ \cup {FieldOf(c)}]
  ELSE [x EXCEPT !.set = @ \cup {FieldOf(c)}]

Param(c, s) ==
  /\ Reading(s)
  /\ s.kind = "param"
  /\ Accepted(c, s)
  /\ IF Misplaced(c)
     THEN /\ fault' \in ReadOutcomes(Top, slots) \cup {"confused"}
          /\ UNCHANGED ctx
     ELSE /\ fault' \in ReadOutcomes(Top, slots) \cup ExecOutcomes(c)
          /\ ctx' = [ctx EXCEPT ![Top.ctx] = Configured(@, c)]
  /\ UNCHANGED <<stack, slots, ctxs, status>>

-----------------------------------------------------------------------------
(* The end of a block. *)

(* What the module requires of a context at its end. *)
ListenerReady(x) ==
  /\ x.parts # <<>>
  /\ \A p \in 1 .. Len(x.parts) : "exec" \in x.parts[p].set

TimerReady(x) ==
  x.set \cap {"timeout", "repeat"} # {} /\ "exec" \in x.set

Ready(x) ==
  CASE x.mod = "listener" -> ListenerReady(x)
    [] x.mod = "timer" -> TimerReady(x)
    [] x.mod \in {"http", "version"} -> TRUE

(* An http block binds its address; without host and port it binds what    *)
(* the memory of the context happens to hold.                              *)
CompleteOutcomes(x) ==
  IF x.mod = "http" /\ ~{"host", "port"} \subseteq x.set
  THEN {"none", "unset"} ELSE {"none"}

Pop == SubSeq(stack, 1, Len(stack) - 1)

CloseSubblock(s) ==
  /\ Reading(s)
  /\ s.kind = "close"
  /\ Open
  /\ Top.child
  /\ stack' = Pop
  /\ UNCHANGED <<slots, ctx, ctxs, status, fault>>

CloseBlockUncompleted(s) ==
  /\ Reading(s)
  /\ s.kind = "close"
  /\ Open
  /\ ~Top.child
  /\ stack' = Pop
  /\ UNCHANGED <<slots, ctx, ctxs, status, fault>>

CloseBlockUnready(s) ==
  /\ Reading(s)
  /\ s.kind = "close"
  /\ Open
  /\ ~Top.child
  /\ ctx' = [ctx EXCEPT ![Top.ctx].completed = TRUE]
  /\ fault' \in ReadOutcomes(Top, slots) \cup CompleteOutcomes(ctx[Top.ctx])
  /\ stack' = Pop
  /\ UNCHANGED <<slots, ctxs, status>>

CloseBlock(s) ==
  /\ Reading(s)
  /\ s.kind = "close"
  /\ Open
  /\ ~Top.child
  /\ Ready(ctx[Top.ctx])
  /\ ctx' = [ctx EXCEPT ![Top.ctx].completed = TRUE]
  /\ fault' \in ReadOutcomes(Top, slots) \cup CompleteOutcomes(ctx[Top.ctx])
  /\ stack' = Pop
  /\ UNCHANGED <<slots, ctxs, status>>

-----------------------------------------------------------------------------
(* A statement nobody takes, or that its handler refuses, ends the reading *)
(* with an error; so does a brace too many, a block that is not ready, or  *)
(* one whose address or subscription the system refuses.                   *)
Refuse(s) ==
  /\ Reading(s)
  /\ \/ s.kind # "close" /\ Takers(s) = {}
     \/ \E c \in Takers(s) :
          s.kind # "close" /\ Result(c, s.args = "right") = "refuse"
     \/ s.kind = "close" /\ ~Open
     \/ /\ s.kind = "close" /\ Open /\ ~Top.child
        /\ ~Ready(ctx[Top.ctx]) \/ ctx[Top.ctx].mod \in {"http", "listener"}
  /\ status' = "refused"
  /\ UNCHANGED <<stack, slots, ctx, ctxs, fault>>

(* The end of the file is no error, whatever is still open. *)
EndOfFile ==
  /\ fault = "none"
  /\ status = "parsing"
  /\ script # <<>> => lines = Len(script)
  /\ status' = "parsed"
  /\ UNCHANGED <<script, stack, slots, ctx, ctxs, lines, fault>>

-----------------------------------------------------------------------------
(* fs_gmod_inited: every used module starts its contexts.  An http block   *)
(* and a listener need the loop, which only the last of each is given; a   *)
(* timer and the version do not.                                           *)

LoopGiven(mod, id) ==
  mod \in {"http", "listener"} /\ id = ctxs[mod][Len(ctxs[mod])]

StartOutcomes ==
  IF \A m \in Mods : \A i \in 1 .. Len(ctxs[m]) : ctx[ctxs[m][i]].completed
  THEN {"none"} ELSE {"none", "incomplete"}

GmodInited ==
  /\ fault = "none"
  /\ status = "parsed"
  /\ ctx' = [i \in 1 .. Len(ctx) |->
               [ctx[i] EXCEPT !.loop = LoopGiven(ctx[i].mod, i)]]
  /\ fault' \in StartOutcomes
  /\ status' = "running"
  /\ UNCHANGED <<script, stack, slots, ctxs, lines>>

-----------------------------------------------------------------------------
(* With a script the statement read is its next one. *)
Source == IF script = <<>> THEN Statements ELSE {script[i] : i \in 1 .. Len(script)}

Read ==
  \/ \E s \in Source :
       \/ \E c \in Commands :
            OpenBlock(c, s) \/ OpenSubblock(c, s) \/ Param(c, s)
       \/ CloseSubblock(s) \/ CloseBlock(s)
       \/ Refuse(s)
  \/ EndOfFile

Next == Read \/ GmodInited

Spec == Init /\ [][Next]_vars

-----------------------------------------------------------------------------
(* Properties. *)

(* What becomes of a statement does not depend on the modules' order in    *)
(* global_mods: when one of the handlers that share a name accepts it, all *)
(* the others pass it on.                                                  *)
HandlersExclusive ==
  status = "parsing" =>
    \A s \in Source : \A c, d \in Takers(s) :
      s.kind # "close" /\ Accepted(c, s) => c = d

(* A subblock lies directly in the block whose module it extends, and both *)
(* work on one context; the handlers of its parameters rely on that.       *)
SubblocksShareContext ==
  \A i \in 1 .. Len(stack) :
    IF stack[i].child
    THEN /\ i > 1
         /\ ~stack[i - 1].child
         /\ stack[i].ctx = stack[i - 1].ctx
         /\ stack[i - 1].mod =
              IF stack[i].mod = "listener" THEN "listener" ELSE "http"
    ELSE ctx[stack[i].ctx].mod = stack[i].mod

(* A context that was completed has what its module requires, and keeps    *)
(* it: no open block works on it any more.                                 *)
CompletedIsFinal ==
  \A i \in 1 .. Len(ctx) :
    ctx[i].completed =>
      /\ Ready(ctx[i])
      /\ \A f \in 1 .. Len(stack) : stack[f].ctx # i

(* The modules start exactly the contexts that were made for them, each    *)
(* once, in the order of the file.  What was started was completed, unless *)
(* the file ended inside a block; and has the loop it needs, unless the    *)
(* file has another of its kind.                                           *)
StoredAsMade(m) ==
  /\ {ctxs[m][i] : i \in 1 .. Len(ctxs[m])} = {i \in 1 .. Len(ctx) : ctx[i].mod = m}
  /\ \A i, j \in 1 .. Len(ctxs[m]) : i < j => ctxs[m][i] < ctxs[m][j]

StartedIsComplete ==
  /\ \A m \in Mods : StoredAsMade(m)
  /\ fault = "incomplete" => stack # <<>>
  /\ status = "running" /\ stack = <<>> =>
       \A m \in Mods : \A i \in 1 .. Len(ctxs[m]) :
         /\ ctx[ctxs[m][i]].completed
         /\ m \in {"http", "listener"} /\ Len(ctxs[m]) = 1 =>
              ctx[ctxs[m][i]].loop

(* Exactly the open blocks whose slots are in the lower half of an array   *)
(* that has been moved point to freed memory: neither a block opened since *)
(* the last move, nor any block while no more were opened than run->ctx    *)
(* has slots at first, is read from there.                                 *)
StaleOnlyIfMoved ==
  /\ \A f \in 1 .. Len(stack) :
       stack[f].gen # slots.gen <=>
         slots.capa > Capacity /\ 2 * stack[f].slot <= slots.capa
  /\ fault = "stale" => slots.count > Capacity

(* README.md gives sample configurations.  Each is read to its last brace, *)
(* where the address or the subscription may still be refused.             *)
SampleAccepted == status = "refused" => lines = Len(script)
=============================================================================
