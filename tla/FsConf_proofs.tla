---------------------------- MODULE FsConf_proofs ----------------------------
(***************************************************************************)
(* Proofs about FsConf, for any configuration and any size of run->ctx.    *)
(*                                                                         *)
(* The inductive invariant says how the stack of open blocks, the contexts *)
(* the modules have made and the lists they are stored in belong together. *)
(***************************************************************************)
EXTENDS FsConf, TLAPS

(* The modules that make contexts; the others work on those of a block.    *)
Owners == {"http", "listener", "timer", "version"}

(* An open block has a context, and lies in the array as it is or was. The *)
(* module and the command tell whether it is a subblock; one has pushed a  *)
(* route or a topic to its context.                                        *)
FrameInv(f) ==
  /\ stack[f].ctx \in 1 .. Len(ctx)
  /\ stack[f].gen <= slots.gen
  /\ stack[f].child <=> stack[f].mod \in {"http_kafka", "proxy"}
                         \/ (stack[f].mod = "listener" /\ stack[f].cmd = "topic")
  /\ stack[f].child => ctx[stack[f].ctx].parts # <<>>

(* Two open blocks have one context only when the upper is the subblock of *)
(* the lower.                                                              *)
OwnContexts ==
  \A i, j \in 1 .. Len(stack) :
    i < j /\ stack[i].ctx = stack[j].ctx => j = i + 1 /\ stack[j].child

(* A context is open until its block's end completes it.                   *)
ContextInv(i) ==
  /\ ctx[i].mod \in Owners
  /\ ~ctx[i].completed =>
       \E f \in 1 .. Len(stack) : ~stack[f].child /\ stack[f].ctx = i

(* run->ctx is moved when it is full, to an array of twice the size, which *)
(* is then more than half full.                                            *)
SlotsInv ==
  /\ slots.count <= slots.capa
  /\ slots.gen = 0 => slots.capa = Capacity
  /\ slots.gen > 0 => slots.capa >= 2 * Capacity /\ 2 * slots.count > slots.capa

(* The slots given since the last move are in the upper half of the array, *)
(* those given before in the lower.                                        *)
Placed(frame, s) ==
  /\ frame.slot <= s.count
  /\ frame.gen = s.gen /\ s.gen > 0 => 2 * frame.slot > s.capa
  /\ frame.gen < s.gen => 2 * frame.slot <= s.capa

SlotsPlaced == \A f \in 1 .. Len(stack) : Placed(stack[f], slots)

StaleReadIfMoved == fault = "stale" => slots.count > Capacity

(* The contexts started have the loop that was given to them.              *)
LoopsGiven ==
  status = "running" =>
    \A i \in 1 .. Len(ctx) : ctx[i].loop = LoopGiven(ctx[i].mod, i)

FramesInv == \A f \in 1 .. Len(stack) : FrameInv(f)

ContextsInv == \A i \in 1 .. Len(ctx) : ContextInv(i)

AllStored == \A m \in Mods : StoredAsMade(m)

EndedInside == fault = "incomplete" => stack # <<>>

ConfInv ==
  /\ TypeOK
  /\ FramesInv
  /\ SubblocksShareContext
  /\ OwnContexts
  /\ ContextsInv
  /\ CompletedIsFinal
  /\ SlotsInv
  /\ SlotsPlaced
  /\ AllStored
  /\ LoopsGiven
  /\ StaleReadIfMoved
  /\ EndedInside

-----------------------------------------------------------------------------
(* The commands. *)

(* The commands of the modules, one line for each use of Command.          *)
Listed(c, mod, block, child, names) ==
  /\ c = [mod |-> c.mod, name |-> c.name, block |-> c.block, child |-> c.child]
  /\ c.mod = mod /\ c.block = block /\ c.child = child /\ c.name \in names

Table(c) ==
  \/ Listed(c, "http", TRUE, FALSE, {"http"})
  \/ Listed(c, "http", FALSE, TRUE, {"host", "port"})
  \/ Listed(c, "http_kafka", TRUE, TRUE, {"kafka"})
  \/ Listed(c, "http_kafka", FALSE, TRUE, KafkaFields \cup {"config"})
  \/ Listed(c, "proxy", TRUE, TRUE, {"proxy"})
  \/ Listed(c, "proxy", FALSE, TRUE, {"pass_path"})
  \/ Listed(c, "listener", TRUE, FALSE, {"kafka"})
  \/ Listed(c, "listener", TRUE, TRUE, {"topic"})
  \/ Listed(c, "listener", FALSE, TRUE, {"config", "exec"})
  \/ Listed(c, "timer", TRUE, FALSE, {"timer"})
  \/ Listed(c, "timer", FALSE, TRUE, {"timeout", "repeat", "exec"})
  \/ Listed(c, "version", TRUE, FALSE, {"fs_version"})
  \/ Listed(c, "version", FALSE, TRUE, {"fs_version_art"})

LEMMA CommandIs ==
  ASSUME NEW mod, NEW block, NEW child, NEW names,
         NEW c \in Command(mod, block, child, names)
  PROVE  Listed(c, mod, block, child, names)
<1>1. \E n \in names :
         c = [mod |-> mod, name |-> n, block |-> block, child |-> child]
  BY SMT DEF Command
<1> QED
  BY <1>1 DEF Listed

LEMMA CommandTable ==
  ASSUME NEW c \in Commands
  PROVE  Table(c)
<1> USE DEF Table
<1>1. CASE c \in HttpCommands
  <2>1. CASE c \in Command("http", TRUE, FALSE, {"http"})
    BY <2>1, CommandIs, Zenon
  <2>2. CASE c \in Command("http", FALSE, TRUE, {"host", "port"})
    BY <2>2, CommandIs, Zenon
  <2> QED
    BY <1>1, <2>1, <2>2 DEF HttpCommands
<1>2. CASE c \in KafkaCommands
  <2>1. CASE c \in Command("http_kafka", TRUE, TRUE, {"kafka"})
    BY <2>1, CommandIs, Zenon
  <2>2. CASE c \in Command("http_kafka", FALSE, TRUE, KafkaFields \cup {"config"})
    BY <2>2, CommandIs, Zenon
  <2> QED
    BY <1>2, <2>1, <2>2 DEF KafkaCommands
<1>3. CASE c \in ProxyCommands
  <2>1. CASE c \in Command("proxy", TRUE, TRUE, {"proxy"})
    BY <2>1, CommandIs, Zenon
  <2>2. CASE c \in Command("proxy", FALSE, TRUE, {"pass_path"})
    BY <2>2, CommandIs, Zenon
  <2> QED
    BY <1>3, <2>1, <2>2 DEF ProxyCommands
<1>4. CASE c \in ListenerCommands
  <2>1. CASE c \in Command("listener", TRUE, FALSE, {"kafka"})
    BY <2>1, CommandIs, Zenon
  <2>2. CASE c \in Command("listener", TRUE, TRUE, {"topic"})
    BY <2>2, CommandIs, Zenon
  <2>3. CASE c \in Command("listener", FALSE, TRUE, {"config", "exec"})
    BY <2>3, CommandIs, Zenon
  <2> QED
    BY <1>4, <2>1, <2>2, <2>3 DEF ListenerCommands
<1>5. CASE c \in TimerCommands
  <2>1. CASE c \in Command("timer", TRUE, FALSE, {"timer"})
    BY <2>1, CommandIs, Zenon
  <2>2. CASE c \in Command("timer", FALSE, TRUE, {"timeout", "repeat", "exec"})
    BY <2>2, CommandIs, Zenon
  <2> QED
    BY <1>5, <2>1, <2>2 DEF TimerCommands
<1>6. CASE c \in VersionCommands
  <2>1. CASE c \in Command("version", TRUE, FALSE, {"fs_version"})
    BY <2>1, CommandIs, Zenon
  <2>2. CASE c \in Command("version", FALSE, TRUE, {"fs_version_art"})
    BY <2>2, CommandIs, Zenon
  <2> QED
    BY <1>6, <2>1, <2>2 DEF VersionCommands
<1> QED
  BY <1>1, <1>2, <1>3, <1>4, <1>5, <1>6 DEF Commands

(* The commands that open a block of their own are those of the modules    *)
(* that make contexts, and what a parameter is called is the field it is   *)
(* written to.                                                             *)
LEMMA CommandFacts ==
  ASSUME NEW c \in Commands
  PROVE  /\ c.mod \in Mods
         /\ c.block \in BOOLEAN
         /\ c.child \in BOOLEAN
         /\ c.block /\ ~c.child => c.mod \in Owners /\ c.name # "topic"
         /\ c.block /\ c.child => c.mod \in {"http_kafka", "proxy", "listener"}
         /\ c.block /\ c.child /\ c.mod = "listener" => c.name = "topic"
         /\ ~c.block => c.name \in Fields \/ c.mod = "version"
         /\ ~c.block /\ c.mod = "listener" => c.name \in {"config", "exec"}
<1>1. Table(c)
  BY CommandTable
<1> QED
  BY <1>1 DEF Table, Listed, Mods, Owners, Fields, KafkaFields

(* Few commands share their name.                                          *)
LEMMA SharedNames ==
  ASSUME NEW c \in Commands, NEW d \in Commands,
         c.name = d.name, c.block <=> d.block, c # d
  PROVE  \/ /\ c.block
            /\ {c.mod, d.mod} = {"http_kafka", "listener"}
            /\ \A e \in {c, d} : e.child <=> e.mod = "http_kafka"
         \/ /\ ~c.block
            /\ {c.mod, d.mod} = {"http_kafka", "listener"}
            /\ c.name = "config"
         \/ /\ ~c.block
            /\ {c.mod, d.mod} = {"listener", "timer"}
            /\ c.name = "exec"
<1>1. Table(c) /\ Table(d)
  BY CommandTable
<1>2. ~(c.mod = d.mod /\ c.block = d.block /\ c.child = d.child)
  <2>1. c = [mod |-> c.mod, name |-> c.name, block |-> c.block, child |-> c.child]
    BY <1>1, Zenon DEF Table, Listed
  <2>2. d = [mod |-> d.mod, name |-> d.name, block |-> d.block, child |-> d.child]
    BY <1>1, Zenon DEF Table, Listed
  <2> QED
    BY <2>1, <2>2
<1> QED
  BY <1>1, <1>2 DEF Table, Listed, KafkaFields

(* The case distinctions of the handlers' results, one case at a time.     *)
LEMMA ResultByTests ==
  ASSUME NEW c \in Commands, NEW right
  PROVE  /\ ~c.block /\ ~Open => Result(c, right) = "refuse"
         /\ ~c.block /\ Open => Result(c, right) = ParamResult(c, right)
         /\ c.block /\ c.child => Result(c, right) = SubblockResult(c, right)
         /\ c.block /\ ~c.child => Result(c, right) = BlockResult(c)
<1>1. c.block \in BOOLEAN /\ c.child \in BOOLEAN
  BY CommandFacts
<1>2. CASE ~c.block
  BY <1>1, <1>2, Zenon DEF Result
<1>3. CASE c.block /\ c.child
  BY <1>1, <1>3, Zenon DEF Result
<1>4. CASE c.block /\ ~c.child
  BY <1>1, <1>4, Zenon DEF Result
<1> QED
  BY <1>1, <1>2, <1>3, <1>4

LEMMA SubblockByTests ==
  ASSUME NEW c, NEW right
  PROVE  /\ c.mod = "listener" => SubblockResult(c, right) = TopicResult(right)
         /\ c.mod \in {"http_kafka", "proxy"} =>
              SubblockResult(c, right) = RouteResult(right)
<1>1. CASE c.mod = "listener"
  <2>1. ~(c.mod \in {"http_kafka", "proxy"})
    BY <1>1
  <2> QED
    BY <1>1, <2>1, Zenon DEF SubblockResult
<1>2. CASE c.mod \in {"http_kafka", "proxy"}
  <2>1. ~(c.mod = "listener")
    BY <1>2
  <2> QED
    BY <1>2, <2>1, Zenon DEF SubblockResult
<1> QED
  BY <1>1, <1>2

LEMMA ParamByTests ==
  ASSUME NEW c, NEW right
  PROVE  /\ c.mod = "http_kafka" =>
              ParamResult(c, right) = KafkaParamResult(c.name, right)
         /\ c.mod = "listener" /\ c.name = "config" =>
              ParamResult(c, right) = ListenerConfigResult(right)
         /\ c.mod = "listener" /\ c.name = "exec" =>
              ParamResult(c, right) = ListenerExecResult
         /\ c.mod = "timer" /\ c.name = "exec" =>
              ParamResult(c, right) = TimerExecResult
<1> DEFINE P == c.mod = "http"
           Q == c.mod = "http_kafka"
           R == c.mod = "proxy"
           S == c.mod = "listener" /\ c.name = "config"
           T == c.mod = "listener" /\ c.name = "exec"
           U == c.mod = "timer" /\ c.name = "exec"
           V == c.mod = "timer" /\ c.name # "exec"
           W == c.mod = "version"
<1>1. CASE Q
  <2>1. ~P /\ ~R /\ ~S /\ ~T /\ ~U /\ ~V /\ ~W
    BY <1>1
  <2> QED
    BY <1>1, <2>1, Zenon DEF ParamResult
<1>2. CASE S
  <2>1. ~P /\ ~Q /\ ~R /\ ~T /\ ~U /\ ~V /\ ~W
    BY <1>2
  <2> QED
    BY <1>2, <2>1, Zenon DEF ParamResult
<1>3. CASE T
  <2>1. ~P /\ ~Q /\ ~R /\ ~S /\ ~U /\ ~V /\ ~W
    BY <1>3
  <2> QED
    BY <1>3, <2>1, Zenon DEF ParamResult
<1>4. CASE U
  <2>1. ~P /\ ~Q /\ ~R /\ ~S /\ ~T /\ ~V /\ ~W
    BY <1>4
  <2> QED
    BY <1>4, <2>1, Zenon DEF ParamResult
<1> QED
  BY <1>1, <1>2, <1>3, <1>4

LEMMA ReadyByTests ==
  ASSUME NEW x
  PROVE  /\ x.mod = "listener" => Ready(x) = ListenerReady(x)
         /\ x.mod = "timer" => Ready(x) = TimerReady(x)
         /\ x.mod \in {"http", "version"} => Ready(x) = TRUE
<1>1. CASE x.mod = "listener"
  <2>1. ~(x.mod = "timer") /\ ~(x.mod \in {"http", "version"})
    BY <1>1
  <2> QED
    BY <1>1, <2>1, Zenon DEF Ready
<1>2. CASE x.mod = "timer"
  <2>1. ~(x.mod = "listener") /\ ~(x.mod \in {"http", "version"})
    BY <1>2
  <2> QED
    BY <1>2, <2>1, Zenon DEF Ready
<1>3. CASE x.mod \in {"http", "version"}
  <2>1. ~(x.mod = "listener") /\ ~(x.mod = "timer")
    BY <1>3
  <2> QED
    BY <1>3, <2>1, Zenon DEF Ready
<1> QED
  BY <1>1, <1>2, <1>3

LEMMA BlockByTests ==
  ASSUME NEW c, c.mod = "listener"
  PROVE  BlockResult(c) = ListenerBlockResult
<1>1. ~(c.mod = "version") /\ ~(c.mod \in {"http", "timer"})
  OBVIOUS
<1> QED
  BY <1>1, Zenon DEF BlockResult

LEMMA FoundByTests ==
  ASSUME NEW name, NEW n \in Found(name)
  PROVE  \/ n = name
         \/ name = "topic_param" /\ n = "topic"
         \/ name = "fs_version_art" /\ n = "fs_version"
<1>1. CASE name = "topic_param"
  <2>1. ~(name = "fs_version_art")
    BY <1>1
  <2>2. Found(name) = {name} \cup {"topic"}
    BY <1>1, <2>1, Zenon DEF Found
  <2> QED
    BY <1>1, <2>2
<1>2. CASE name = "fs_version_art"
  <2>1. ~(name = "topic_param")
    BY <1>2
  <2>2. Found(name) = {name} \cup {"fs_version"}
    BY <1>2, <2>1, Zenon DEF Found
  <2> QED
    BY <1>2, <2>2
<1>3. CASE ~(name = "topic_param") /\ ~(name = "fs_version_art")
  <2>1. Found(name) = {name} \cup {}
    BY <1>3, Zenon DEF Found
  <2> QED
    BY <2>1
<1> QED
  BY <1>1, <1>2, <1>3

-----------------------------------------------------------------------------
(* Which of the handlers that share a name takes a statement.              *)

(* The handlers of a kafka block look at whether another is open, those of *)
(* a config and of an exec at which; so no two of them take a statement    *)
(* that one of them accepts.                                               *)
LEMMA OneOfTwo ==
  ASSUME NEW right, NEW c \in Commands, NEW d \in Commands,
         c.name = d.name, c.block <=> d.block, c # d,
         Result(c, right) # "pass", Result(d, right) # "pass",
         d.mod = "listener"
  PROVE  Result(c, right) = "refuse" /\ Result(d, right) = "refuse"
<1>1. c.block \in BOOLEAN /\ d.block \in BOOLEAN /\ c.child \in BOOLEAN
  BY CommandFacts
<1>2. CASE c.block
  <2>1. c.mod = "http_kafka" /\ c.child /\ ~d.child
    BY <1>2, SharedNames
  <2>2. Result(c, right) = RouteResult(right) /\ Result(d, right) = ListenerBlockResult
    BY <1>2, <2>1, ResultByTests, SubblockByTests, BlockByTests
  <2> QED
    BY <2>2 DEF RouteResult, ListenerBlockResult, TopMod
<1>3. CASE ~c.block /\ ~Open
  BY <1>3, ResultByTests
<1>4. CASE ~c.block /\ Open /\ c.name = "config"
  <2>1. c.mod = "http_kafka"
    BY <1>4, SharedNames
  <2>2. /\ Result(c, right) = KafkaParamResult(c.name, right)
        /\ Result(d, right) = ListenerConfigResult(right)
    BY <1>4, <2>1, ResultByTests, ParamByTests
  <2> QED
    BY <2>2 DEF KafkaParamResult, ListenerConfigResult, TopIs
<1>5. CASE ~c.block /\ Open /\ c.name = "exec"
  <2>1. c.mod = "timer"
    BY <1>5, SharedNames
  <2>2. Result(c, right) = TimerExecResult /\ Result(d, right) = ListenerExecResult
    <3>1. Result(c, right) = ParamResult(c, right) /\ Result(d, right) = ParamResult(d, right)
      BY <1>1, <1>5, ResultByTests
    <3>2. ParamResult(c, right) = TimerExecResult
      BY <1>5, <2>1, ParamByTests
    <3>3. ParamResult(d, right) = ListenerExecResult
      BY <1>5, ParamByTests
    <3> QED
      BY <3>1, <3>2, <3>3
  <2> QED
    BY <2>2 DEF TimerExecResult, ListenerExecResult, TopMod
<1>6. ~c.block => c.name \in {"config", "exec"}
  BY SharedNames
<1> QED
  BY <1>1, <1>2, <1>3, <1>4, <1>5, <1>6

(* Of two handlers of one command at most one takes the statement.        *)
LEMMA OneTaker ==
  ASSUME NEW s, NEW c \in Takers(s), NEW d \in Takers(s),
         Accepted(c, s)
  PROVE  c = d
<1> DEFINE right == s.args = "right"
<1>1. /\ c \in Commands /\ c.name \in Found(s.name) /\ (c.block <=> s.kind = "open")
      /\ d \in Commands /\ d.name \in Found(s.name) /\ (d.block <=> s.kind = "open")
  BY DEF Takers, Candidates
<1>2. /\ Result(c, right) # "pass" /\ Result(d, right) # "pass"
      /\ Result(c, right) = "accept"
  BY DEF Takers, Accepted
<1>3. c.name = d.name
  <2>1. ~c.block /\ ~d.block => c.name # "topic" /\ d.name # "topic"
                                  /\ c.name # "fs_version" /\ d.name # "fs_version"
    <3>1. Table(c) /\ Table(d)
      BY <1>1, CommandTable
    <3> QED
      BY <3>1 DEF Table, Listed, KafkaFields
  <2>2. c.block /\ d.block => c.name \notin {"topic_param", "fs_version_art"}
                                /\ d.name \notin {"topic_param", "fs_version_art"}
    <3>1. Table(c) /\ Table(d)
      BY <1>1, CommandTable
    <3> QED
      BY <3>1 DEF Table, Listed
  <2>3. /\ \/ c.name = s.name
           \/ s.name = "topic_param" /\ c.name = "topic"
           \/ s.name = "fs_version_art" /\ c.name = "fs_version"
        /\ \/ d.name = s.name
           \/ s.name = "topic_param" /\ d.name = "topic"
           \/ s.name = "fs_version_art" /\ d.name = "fs_version"
    BY <1>1, FoundByTests
  <2>4. c.block \in BOOLEAN /\ d.block \in BOOLEAN
    BY <1>1, CommandFacts
  <2> QED
    BY <1>1, <2>1, <2>2, <2>3, <2>4
<1>4. SUFFICES ASSUME c # d PROVE FALSE
  OBVIOUS
<1> HIDE DEF right
<1>5. CASE d.mod = "listener"
  BY <1>1, <1>2, <1>3, <1>4, <1>5, OneOfTwo
<1>6. CASE c.mod = "listener"
  BY <1>1, <1>2, <1>3, <1>4, <1>6, OneOfTwo
<1>7. "listener" \in {c.mod, d.mod}
  BY <1>1, <1>3, <1>4, SharedNames
<1> QED
  BY <1>5, <1>6, <1>7

(* No statement has two modules' handlers that would take it, whatever is *)
(* open: the order the modules are asked in does not matter.              *)
THEOREM HandlersAreExclusive == Spec => []HandlersExclusive
<1>1. HandlersExclusive
  BY OneTaker DEF HandlersExclusive
<1> QED
  BY <1>1, PTL

-----------------------------------------------------------------------------
(* The inductive invariant. *)

LEMMA InitInv == Init => ConfInv
<1> SUFFICES ASSUME Init PROVE ConfInv
  OBVIOUS
<1> USE DEF Init
<1>1. TypeOK
  BY ConfAssumption DEF TypeOK, Mods
<1>2. SubblocksShareContext /\ OwnContexts /\ CompletedIsFinal /\ LoopsGiven /\ StaleReadIfMoved
  BY DEF SubblocksShareContext, OwnContexts, CompletedIsFinal, LoopsGiven, StaleReadIfMoved
<1>3. SlotsInv /\ SlotsPlaced
  BY ConfAssumption DEF SlotsInv, SlotsPlaced
<1>4. AllStored
  BY DEF AllStored, StoredAsMade
<1> QED
  BY <1>1, <1>2, <1>3, <1>4 DEF ConfInv, FramesInv, ContextsInv, EndedInside

(* What the accepting handlers of the subblocks and of the parameters know *)
(* of the innermost block.                                                 *)
LEMMA AcceptedSubblock ==
  ASSUME NEW c, NEW s, Accepted(c, s), c.child, s.kind = "open"
  PROVE  /\ c \in Commands
         /\ c.mod \in {"http_kafka", "proxy", "listener"}
         /\ c.mod = "listener" => c.name = "topic" /\ TopIs("listener", "kafka")
         /\ c.mod # "listener" => TopMod("http")
<1>1. c \in Commands /\ c.block
  BY DEF Accepted, Takers, Candidates
<1>2. c.mod \in {"http_kafka", "proxy", "listener"} /\ (c.mod = "listener" => c.name = "topic")
  BY <1>1, CommandFacts
<1> DEFINE right == s.args = "right"
<1>3. SubblockResult(c, right) = "accept"
  BY <1>1, ResultByTests DEF Accepted
<1> HIDE DEF right
<1>4. CASE c.mod = "listener"
  <2>1. TopicResult(right) = "accept"
    BY <1>3, <1>4, SubblockByTests
  <2> QED
    BY <1>1, <1>2, <1>4, <2>1 DEF TopicResult, Checked
<1>5. CASE c.mod # "listener"
  <2>1. RouteResult(right) = "accept"
    BY <1>2, <1>3, <1>5, SubblockByTests
  <2> QED
    BY <1>1, <1>2, <1>5, <2>1 DEF RouteResult
<1> QED
  BY <1>4, <1>5

LEMMA AcceptedParam ==
  ASSUME NEW c, NEW s, Accepted(c, s), s.kind = "param", ~Misplaced(c)
  PROVE  /\ c \in Commands /\ ~c.block
         /\ Open
         /\ FieldOf(c) \in Fields
         /\ c.mod \in {"http_kafka", "proxy"} => Top.mod = c.mod
<1>1. c \in Commands /\ c.block \in BOOLEAN /\ ~c.block
  <2>1. c \in Commands /\ (c.block <=> s.kind = "open")
    BY DEF Accepted, Takers, Candidates
  <2> QED
    BY <2>1, CommandFacts
<1> DEFINE right == s.args = "right"
<1>2. Result(c, right) = "accept"
  BY DEF Accepted
<1> HIDE DEF right
<1>3. Open /\ ParamResult(c, right) = "accept"
  BY <1>1, <1>2, ResultByTests
<1>4. c.mod = "http_kafka" => Top.mod = c.mod
  <2> SUFFICES ASSUME c.mod = "http_kafka" PROVE Top.mod = c.mod
    OBVIOUS
  <2>1. KafkaParamResult(c.name, right) = "accept"
    BY <1>3, ParamByTests
  <2> QED
    BY <2>1 DEF KafkaParamResult, TopIs
<1>5. c.mod = "proxy" => Top.mod = c.mod
  BY DEF Misplaced, TopIs
<1>6. FieldOf(c) \in Fields
  BY <1>1, CommandFacts DEF FieldOf, Fields
<1> QED
  BY <1>1, <1>3, <1>4, <1>5, <1>6

(* Pushing a slot keeps the bookkeeping of the array.                      *)
LEMMA PushKeeps ==
  ASSUME TypeOK, SlotsInv, slots' = Pushed(slots)
  PROVE  /\ slots' \in [count : Nat, capa : Nat, gen : Nat]
         /\ SlotsInv'
         /\ slots.gen <= slots'.gen
<1>1. slots \in [count : Nat, capa : Nat, gen : Nat] /\ Capacity \in Nat /\ Capacity > 0
  BY ConfAssumption DEF TypeOK
<1>2. CASE slots.count = slots.capa
  <2>1. slots' = [count |-> slots.count + 1, capa |-> 2 * slots.capa, gen |-> slots.gen + 1]
    BY <1>2 DEF Pushed
  <2> QED
    BY <1>1, <1>2, <2>1 DEF SlotsInv
<1>3. CASE slots.count # slots.capa
  <2>1. slots' = [slots EXCEPT !.count = @ + 1]
    BY <1>3 DEF Pushed
  <2> QED
    BY <1>1, <1>3, <2>1 DEF SlotsInv
<1> QED
  BY <1>2, <1>3

(* A move leaves all slots given before in the lower half of the array;    *)
(* the slot that is given is in the upper.                                 *)
LEMMA PushPlaces ==
  ASSUME ConfInv, slots' = Pushed(slots), NEW new \in Frame,
         new.gen = slots'.gen, new.slot = slots'.count,
         stack' = Append(stack, new)
  PROVE  SlotsPlaced'
<1>1. /\ slots \in [count : Nat, capa : Nat, gen : Nat] /\ SlotsInv
      /\ stack \in Seq(Frame) /\ Len(stack) \in Nat
  BY DEF ConfInv, TypeOK
<1>2. ASSUME NEW f \in 1 .. Len(stack)
      PROVE  /\ stack[f].gen \in Nat /\ stack[f].slot \in Nat
             /\ stack[f].gen <= slots.gen /\ Placed(stack[f], slots)
  <2>1. stack[f] \in Frame
    BY <1>1
  <2> QED
    BY <2>1 DEF ConfInv, FramesInv, FrameInv, SlotsPlaced, Frame
<1>3. CASE slots.count = slots.capa
  <2>1. slots' = [count |-> slots.count + 1, capa |-> 2 * slots.capa, gen |-> slots.gen + 1]
    BY <1>3 DEF Pushed
  <2>2. Placed(new, slots')
    BY <1>1, <1>3, <2>1 DEF Placed
  <2>3. ASSUME NEW f \in 1 .. Len(stack) PROVE Placed(stack[f], slots')
    BY <1>1, <1>2, <1>3, <2>1 DEF Placed
  <2> QED
    BY <1>1, <2>2, <2>3 DEF SlotsPlaced
<1>4. CASE slots.count # slots.capa
  <2>1. slots' = [slots EXCEPT !.count = @ + 1]
    BY <1>4 DEF Pushed
  <2>2. Placed(new, slots')
    BY <1>1, <2>1 DEF Placed, SlotsInv
  <2>3. ASSUME NEW f \in 1 .. Len(stack) PROVE Placed(stack[f], slots')
    BY <1>1, <1>2, <2>1 DEF Placed
  <2> QED
    BY <1>1, <2>2, <2>3 DEF SlotsPlaced
<1> QED
  BY <1>3, <1>4

(* A slot is stale only when the array has been moved.                     *)
LEMMA ReadFaults ==
  ASSUME NEW frame, NEW s, frame.gen \in Nat, s.gen \in Nat, frame.gen <= s.gen,
         NEW outcome \in ReadOutcomes(frame, s)
  PROVE  outcome = "none" \/ (outcome = "stale" /\ s.gen > 0)
<1>1. CASE frame.gen = s.gen
  BY <1>1 DEF ReadOutcomes
<1>2. CASE frame.gen # s.gen
  BY <1>2 DEF ReadOutcomes
<1> QED
  BY <1>1, <1>2

(* The facts about the innermost block.                                    *)
LEMMA TopFacts ==
  ASSUME ConfInv, Open
  PROVE  /\ Len(stack) \in Nat /\ Len(stack) > 0
         /\ Top \in Frame
         /\ Top = stack[Len(stack)]
         /\ FrameInv(Len(stack))
         /\ Top.ctx \in 1 .. Len(ctx)
         /\ ctx[Top.ctx] \in Context
<1>1. stack \in Seq(Frame) /\ ctx \in Seq(Context)
  BY DEF ConfInv, TypeOK
<1>2. Len(stack) \in Nat /\ Len(stack) > 0
  BY <1>1 DEF Open
<1>3. Top = stack[Len(stack)] /\ Top \in Frame /\ FrameInv(Len(stack))
  BY <1>1, <1>2 DEF Top, ConfInv, FramesInv
<1> QED
  BY <1>1, <1>2, <1>3 DEF FrameInv

LEMMA OpenBlockInv ==
  ASSUME ConfInv, NEW c \in Commands, NEW s, OpenBlock(c, s)
  PROVE  ConfInv'
<1>0. /\ c.mod \in Mods /\ c.mod \in Owners /\ c.name # "topic" /\ c.child = FALSE
  <2>1. c.block /\ ~c.child
    BY DEF OpenBlock, Accepted, Takers, Candidates
  <2> QED
    BY <2>1, CommandFacts
<1> DEFINE id == Len(ctx) + 1
           new == NewFrame(c, id)
           made == NewContext(c.mod)
<1>1. /\ stack \in Seq(Frame) /\ ctx \in Seq(Context) /\ ctxs \in [Mods -> Seq(Nat)]
      /\ Len(stack) \in Nat /\ Len(ctx) \in Nat
  BY DEF ConfInv, TypeOK
<1>2. /\ slots' \in [count : Nat, capa : Nat, gen : Nat] /\ SlotsInv' /\ slots.gen <= slots'.gen
      /\ slots.gen \in Nat /\ slots'.count \in Nat
  BY PushKeeps DEF OpenBlock, ConfInv, TypeOK
<1>3. /\ new \in Frame /\ new.mod = c.mod /\ new.cmd = c.name /\ new.child = FALSE
      /\ new.ctx = id /\ new.gen = slots'.gen /\ new.slot = slots'.count
  <2>1. c.name \in {d.name : d \in Commands}
    OBVIOUS
  <2>2. slots'.gen \in Nat /\ slots'.count \in Nat
    BY <1>2
  <2>3. id \in Nat
    BY <1>1
  <2> QED
    BY <1>0, <2>1, <2>2, <2>3 DEF NewFrame, Frame
<1>4. /\ made \in Context /\ made.mod = c.mod /\ made.parts = <<>> /\ made.completed = FALSE
  BY <1>0 DEF NewContext, Context, Fields
<1>5. stack' = Append(stack, new) /\ ctx' = Append(ctx, made)
  BY DEF OpenBlock
<1> HIDE DEF new, made
<1>6. /\ stack' \in Seq(Frame) /\ Len(stack') = Len(stack) + 1
      /\ \A f \in 1 .. Len(stack) : stack'[f] = stack[f]
      /\ stack'[Len(stack) + 1] = new
  BY <1>1, <1>3, <1>5
<1>7. /\ ctx' \in Seq(Context) /\ Len(ctx') = id
      /\ \A i \in 1 .. Len(ctx) : ctx'[i] = ctx[i]
      /\ ctx'[id] = made
  BY <1>1, <1>4, <1>5
<1>8. /\ ctxs' \in [Mods -> Seq(Nat)]
      /\ \A m \in Mods : m # c.mod => ctxs'[m] = ctxs[m]
      /\ ctxs'[c.mod] = Append(ctxs[c.mod], id)
  BY <1>0, <1>1 DEF OpenBlock, Stored
<1>9. TypeOK'
  <2>1. script' \in Scripts /\ lines' \in Nat
    BY DEF OpenBlock, ConfInv, TypeOK, Reading
  <2> QED
    BY <1>2, <1>6, <1>7, <1>8, <2>1 DEF OpenBlock, ConfInv, TypeOK
<1>10. \A f \in 1 .. Len(stack) :
         FrameInv(f) /\ stack[f].gen \in Nat /\ stack[f].ctx \in 1 .. Len(ctx)
  <2> TAKE f \in 1 .. Len(stack)
  <2>1. stack[f] \in Frame
    BY <1>1
  <2>2. FrameInv(f)
    BY DEF ConfInv, FramesInv
  <2>3. stack[f].ctx \in 1 .. Len(ctx)
    BY <2>2 DEF FrameInv
  <2> QED
    BY <2>1, <2>2, <2>3 DEF Frame
<1>11. FramesInv'
  <2>1. ASSUME NEW f \in 1 .. Len(stack) PROVE FrameInv(f)'
    <3>1. slots'.gen \in Nat
      BY <1>2
    <3>2. FrameInv(f) /\ stack'[f] = stack[f] /\ ctx'[stack[f].ctx] = ctx[stack[f].ctx]
      BY <1>6, <1>7, <1>10
    <3> QED
      BY <1>1, <1>2, <1>7, <1>10, <3>1, <3>2, SMTT(30) DEF FrameInv
  <2>2. ASSUME NEW f, f = Len(stack) + 1 PROVE FrameInv(f)'
    <3>1. slots'.gen \in Nat /\ stack'[f] = new /\ id \in 1 .. Len(ctx')
      BY <1>1, <1>2, <1>6, <1>7, <2>2
    <3>2. c.mod \notin {"http_kafka", "proxy"} /\ ~(c.mod = "listener" /\ c.name = "topic")
      BY <1>0 DEF Owners
    <3> QED
      <4>1. stack'[f].ctx \in 1 .. Len(ctx') /\ stack'[f].gen <= slots'.gen
        BY <1>3, <3>1
      <4>2. ~stack'[f].child
        BY <1>3, <3>1
      <4>3. ~(stack'[f].mod \in {"http_kafka", "proxy"}
               \/ (stack'[f].mod = "listener" /\ stack'[f].cmd = "topic"))
        BY <1>3, <3>1, <3>2
      <4> QED
        BY <4>1, <4>2, <4>3 DEF FrameInv
  <2>3. \A f \in 1 .. Len(stack') : f \in 1 .. Len(stack) \/ f = Len(stack) + 1
    BY <1>1, <1>6
  <2> QED
    BY <2>1, <2>2, <2>3 DEF FramesInv
<1>12. SubblocksShareContext'
  <2>1. ASSUME NEW f \in 1 .. Len(stack), stack[f].child
        PROVE  /\ f > 1
               /\ ~stack'[f - 1].child
               /\ stack'[f].ctx = stack'[f - 1].ctx
               /\ stack'[f - 1].mod =
                    IF stack'[f].mod = "listener" THEN "listener" ELSE "http"
    <3>1. f > 1 /\ f - 1 \in 1 .. Len(stack)
      BY <1>1, <2>1 DEF ConfInv, SubblocksShareContext
    <3> QED
      BY <1>6, <2>1, <3>1 DEF ConfInv, SubblocksShareContext
  <2>2. ASSUME NEW f \in 1 .. Len(stack), ~stack[f].child
        PROVE  ctx'[stack'[f].ctx].mod = stack'[f].mod
    <3>1. ctx[stack[f].ctx].mod = stack[f].mod
      BY <2>2 DEF ConfInv, SubblocksShareContext
    <3>2. stack'[f] = stack[f] /\ stack[f].ctx \in 1 .. Len(ctx)
      BY <1>6, <1>10
    <3>3. ctx'[stack[f].ctx] = ctx[stack[f].ctx]
      BY <1>7, <3>2
    <3> QED
      BY <3>1, <3>2, <3>3
  <2>3. \A f \in 1 .. Len(stack') : f \in 1 .. Len(stack) \/ f = Len(stack) + 1
    BY <1>1, <1>6
  <2>4. ~new.child /\ ctx'[new.ctx].mod = new.mod
    BY <1>3, <1>4, <1>7
  <2> QED
    BY <1>6, <2>1, <2>2, <2>3, <2>4 DEF SubblocksShareContext
<1>13. OwnContexts'
  <2> SUFFICES ASSUME NEW f \in 1 .. Len(stack'), NEW g \in 1 .. Len(stack'), f < g,
                      stack'[f].ctx = stack'[g].ctx
               PROVE  g = f + 1 /\ stack'[g].child
    BY DEF OwnContexts
  <2>1. f \in 1 .. Len(stack) /\ stack'[f] = stack[f]
    BY <1>1, <1>6
  <2>2. g # Len(stack) + 1
    BY <1>1, <1>3, <1>6, <1>10, <2>1
  <2>3. g \in 1 .. Len(stack)
    BY <1>1, <1>6, <2>2
  <2>4. stack'[g] = stack[g]
    BY <1>6, <2>3
  <2> QED
    BY <2>1, <2>3, <2>4 DEF ConfInv, OwnContexts
<1>14. ContextsInv'
  <2>1. ASSUME NEW i \in 1 .. Len(ctx) PROVE ContextInv(i)'
    <3>1. ContextInv(i) /\ ctx'[i] = ctx[i]
      BY <1>7 DEF ConfInv, ContextsInv
    <3>2. \A f \in 1 .. Len(stack) : f \in 1 .. Len(stack') /\ stack'[f] = stack[f]
      BY <1>1, <1>6
    <3> QED
      BY <3>1, <3>2 DEF ContextInv
  <2>2. ASSUME NEW i, i = id PROVE ContextInv(i)'
    <3>1. Len(stack) + 1 \in 1 .. Len(stack')
      BY <1>1, <1>6
    <3>2. ~stack'[Len(stack) + 1].child /\ stack'[Len(stack) + 1].ctx = id
      BY <1>3, <1>6
    <3> QED
      BY <3>1, <3>2, <1>0, <1>4, <1>7, <2>2 DEF ContextInv
  <2>3. \A i \in 1 .. Len(ctx') : i \in 1 .. Len(ctx) \/ i = id
    BY <1>1, <1>7
  <2> QED
    BY <2>1, <2>2, <2>3 DEF ContextsInv
<1>15. CompletedIsFinal'
  <2> SUFFICES ASSUME NEW i \in 1 .. Len(ctx'), ctx'[i].completed
               PROVE  Ready(ctx'[i]) /\ \A f \in 1 .. Len(stack') : stack'[f].ctx # i
    BY DEF CompletedIsFinal
  <2>1. i \in 1 .. Len(ctx) /\ ctx'[i] = ctx[i]
    BY <1>1, <1>4, <1>7
  <2>2. Ready(ctx[i]) /\ \A f \in 1 .. Len(stack) : stack[f].ctx # i
    BY <2>1 DEF ConfInv, CompletedIsFinal
  <2> QED
    BY <1>1, <1>3, <1>6, <2>1, <2>2
<1>16. AllStored'
  <2>1. ASSUME NEW m \in Mods, m # c.mod PROVE StoredAsMade(m)'
    <3>1. StoredAsMade(m) /\ ctxs'[m] = ctxs[m]
      BY <1>8, <2>1 DEF ConfInv, AllStored
    <3>2. {i \in 1 .. Len(ctx') : ctx'[i].mod = m} = {i \in 1 .. Len(ctx) : ctx[i].mod = m}
      BY <1>1, <1>4, <1>7, <2>1
    <3> QED
      BY <3>1, <3>2 DEF StoredAsMade
  <2>2. StoredAsMade(c.mod)'
    <3> DEFINE old == ctxs[c.mod]
    <3>1. /\ old \in Seq(Nat) /\ Len(old) \in Nat
          /\ {old[j] : j \in 1 .. Len(old)} = {i \in 1 .. Len(ctx) : ctx[i].mod = c.mod}
          /\ \A j, k \in 1 .. Len(old) : j < k => old[j] < old[k]
      <4>1. StoredAsMade(c.mod) /\ old \in Seq(Nat)
        BY <1>0, <1>1 DEF ConfInv, AllStored
      <4> QED
        BY <4>1 DEF StoredAsMade
    <3>2. ctxs'[c.mod] = Append(old, id) /\ id \in Nat
      BY <1>1, <1>8
    <3> DEFINE ids == ctxs'[c.mod]
    <3> HIDE DEF old, ids, id
    <3>3. /\ Len(ids) = Len(old) + 1
          /\ \A j \in 1 .. Len(old) : ids[j] = old[j]
          /\ ids[Len(old) + 1] = id
      <4>1. ids = Append(old, id) /\ id \in Nat /\ old \in Seq(Nat)
        BY <3>1, <3>2 DEF ids
      <4> QED
        BY <4>1
    <3>4. {ids[j] : j \in 1 .. Len(ids)} = {old[j] : j \in 1 .. Len(old)} \cup {id}
      <4>1. \A j : j \in 1 .. Len(ids) <=> j \in 1 .. Len(old) \/ j = Len(old) + 1
        BY <3>1, <3>3
      <4> QED
        BY <3>3, <4>1
    <3>5. {i \in 1 .. Len(ctx') : ctx'[i].mod = c.mod} =
            {i \in 1 .. Len(ctx) : ctx[i].mod = c.mod} \cup {id}
      BY <1>1, <1>4, <1>7 DEF id
    <3>6. \A j \in 1 .. Len(old) : old[j] \in 1 .. Len(ctx)
      BY <3>1
    <3>7. \A j, k \in 1 .. Len(ids) : j < k => ids[j] < ids[k]
      <4> TAKE j, k \in 1 .. Len(ids)
      <4>1. j < k => j \in 1 .. Len(old)
        BY <3>1, <3>3
      <4>2. CASE k \in 1 .. Len(old)
        BY <3>1, <3>3, <4>1, <4>2
      <4>3. CASE k = Len(old) + 1
        BY <1>1, <3>3, <3>6, <4>1, <4>3 DEF id
      <4>4. k \in 1 .. Len(old) \/ k = Len(old) + 1
        BY <3>1, <3>3
      <4> QED
        BY <4>2, <4>3, <4>4
    <3> QED
      BY <3>1, <3>4, <3>5, <3>7 DEF StoredAsMade, ids
  <2> QED
    BY <2>1, <2>2 DEF AllStored
<1>17. LoopsGiven' /\ StaleReadIfMoved' /\ EndedInside'
  BY DEF OpenBlock, LoopsGiven, StaleReadIfMoved, Reading, EndedInside
<1>18. SlotsPlaced'
  BY <1>3, <1>5, PushPlaces DEF OpenBlock
<1> QED
  BY <1>18, <1>2, <1>9, <1>11, <1>12, <1>13, <1>14, <1>15, <1>16, <1>17 DEF ConfInv

-----------------------------------------------------------------------------
(* What a step keeps of the contexts and of the stack under them.          *)

(* A context keeps its module, and the routes or topics pushed to it.      *)
ContextsKept ==
  /\ ctx' \in Seq(Context)
  /\ Len(ctx') = Len(ctx)
  /\ \A i \in 1 .. Len(ctx) :
       ctx'[i].mod = ctx[i].mod /\ (ctx[i].parts # <<>> => ctx'[i].parts # <<>>)

ShareAt(f) ==
  IF stack[f].child
  THEN /\ f > 1
       /\ ~stack[f - 1].child
       /\ stack[f].ctx = stack[f - 1].ctx
       /\ stack[f - 1].mod =
            IF stack[f].mod = "listener" THEN "listener" ELSE "http"
  ELSE ctx[stack[f].ctx].mod = stack[f].mod

LEMMA FrameKept ==
  ASSUME NEW f, FrameInv(f), stack'[f] = stack[f], stack[f].gen \in Nat,
         slots.gen \in Nat, slots'.gen \in Nat, slots.gen <= slots'.gen,
         ContextsKept
  PROVE  FrameInv(f)'
<1>1. stack[f].ctx \in 1 .. Len(ctx) /\ stack[f].gen <= slots'.gen
  BY DEF FrameInv
<1>2. stack'[f].ctx \in 1 .. Len(ctx')
  BY <1>1 DEF ContextsKept
<1>3. stack[f].child => ctx'[stack[f].ctx].parts # <<>>
  BY <1>1 DEF ContextsKept, FrameInv
<1> QED
  BY <1>1, <1>2, <1>3 DEF FrameInv

LEMMA ShareKept ==
  ASSUME FramesInv, SubblocksShareContext, NEW f \in 1 .. Len(stack),
         stack'[f] = stack[f], f > 1 => stack'[f - 1] = stack[f - 1],
         ContextsKept
  PROVE  ShareAt(f)'
<1>1. ShareAt(f) /\ stack[f].ctx \in 1 .. Len(ctx)
  BY DEF SubblocksShareContext, ShareAt, FramesInv, FrameInv
<1>2. ctx'[stack[f].ctx].mod = ctx[stack[f].ctx].mod
  BY <1>1 DEF ContextsKept
<1> QED
  BY <1>1, <1>2 DEF ShareAt

LEMMA StoredKept ==
  ASSUME AllStored, ContextsKept, ctxs' = ctxs
  PROVE  AllStored'
<1> SUFFICES ASSUME NEW m \in Mods PROVE StoredAsMade(m)'
  BY DEF AllStored
<1>1. StoredAsMade(m)
  BY DEF AllStored
<1>2. {i \in 1 .. Len(ctx') : ctx'[i].mod = m} = {i \in 1 .. Len(ctx) : ctx[i].mod = m}
  BY DEF ContextsKept
<1> QED
  BY <1>1, <1>2 DEF StoredAsMade

(* A stack that is left as it is stays right.                              *)
LEMMA StackKept ==
  ASSUME ConfInv, ContextsKept, UNCHANGED <<stack, slots>>
  PROVE  FramesInv' /\ SubblocksShareContext' /\ OwnContexts' /\ SlotsPlaced'
<1>0. slots.gen \in Nat /\ stack \in Seq(Frame) /\ FramesInv /\ SubblocksShareContext /\ OwnContexts
  BY DEF ConfInv, TypeOK
<1>1. ASSUME NEW f \in 1 .. Len(stack') PROVE FrameInv(f)' /\ ShareAt(f)'
  <2>1. f \in 1 .. Len(stack) /\ stack'[f] = stack[f] /\ stack'[f - 1] = stack[f - 1]
    OBVIOUS
  <2>2. FrameInv(f) /\ stack[f].gen \in Nat /\ slots.gen <= slots'.gen /\ slots'.gen \in Nat
    <3>1. stack[f] \in Frame
      BY <1>0, <2>1
    <3> QED
      BY <1>0, <2>1, <3>1 DEF FramesInv, Frame
  <2> QED
    BY <1>0, <2>1, <2>2, FrameKept, ShareKept
<1> QED
  BY <1>0, <1>1 DEF FramesInv, SubblocksShareContext, ShareAt, OwnContexts,
     ConfInv, SlotsPlaced, Placed

LEMMA ContextReplaced ==
  ASSUME NEW n \in 1 .. Len(ctx), NEW x \in Context, ctx \in Seq(Context),
         ctx' = [ctx EXCEPT ![n] = x]
  PROVE  /\ ctx' \in Seq(Context)
         /\ Len(ctx') = Len(ctx)
         /\ ctx'[n] = x
         /\ \A i \in 1 .. Len(ctx) : i # n => ctx'[i] = ctx[i]
OBVIOUS

(* Writing to the context of the innermost block: it is not completed.     *)
LEMMA WriteKeeps ==
  ASSUME ConfInv, Open, NEW x \in Context,
         ctx' = [ctx EXCEPT ![Top.ctx] = x],
         x.mod = ctx[Top.ctx].mod, x.completed = ctx[Top.ctx].completed,
         ctx[Top.ctx].parts # <<>> => x.parts # <<>>
  PROVE  /\ ContextsKept
         /\ ~ctx[Top.ctx].completed
         /\ ctx'[Top.ctx] = x
         /\ \A i \in 1 .. Len(ctx) : i # Top.ctx => ctx'[i] = ctx[i]
         /\ \A i \in 1 .. Len(ctx) : ctx'[i].completed = ctx[i].completed
<1>1. /\ Len(stack) \in Nat /\ Len(stack) > 0 /\ Top = stack[Len(stack)]
      /\ Top.ctx \in 1 .. Len(ctx) /\ ctx \in Seq(Context)
  BY TopFacts DEF ConfInv, TypeOK
<1>2. ~ctx[Top.ctx].completed
  BY <1>1 DEF ConfInv, CompletedIsFinal
<1>3. /\ ctx' \in Seq(Context) /\ Len(ctx') = Len(ctx) /\ ctx'[Top.ctx] = x
      /\ \A i \in 1 .. Len(ctx) : i # Top.ctx => ctx'[i] = ctx[i]
  BY <1>1, ContextReplaced
<1> QED
  BY <1>1, <1>2, <1>3 DEF ContextsKept

(* So what the properties say of contexts stays true, whatever blocks on   *)
(* it are opened.                                                          *)
LEMMA WrittenContexts ==
  ASSUME ConfInv, Open, ContextsKept,
         ~ctx[Top.ctx].completed,
         \A i \in 1 .. Len(ctx) : i # Top.ctx => ctx'[i] = ctx[i],
         \A i \in 1 .. Len(ctx) : ctx'[i].completed = ctx[i].completed,
         stack' \in Seq(Frame),
         Len(stack') >= Len(stack),
         \A f \in 1 .. Len(stack) : stack'[f] = stack[f],
         \A f \in 1 .. Len(stack') : f > Len(stack) => stack'[f].ctx = Top.ctx
  PROVE  ContextsInv' /\ CompletedIsFinal'
<1>0. stack \in Seq(Frame) /\ Len(stack) \in Nat /\ Len(stack') \in Nat /\ Len(ctx') = Len(ctx)
  BY DEF ConfInv, TypeOK, ContextsKept
<1>1. ASSUME NEW i \in 1 .. Len(ctx') PROVE ContextInv(i)'
  <2>1. /\ i \in 1 .. Len(ctx) /\ ContextInv(i)
        /\ ctx'[i].mod = ctx[i].mod /\ ctx'[i].completed = ctx[i].completed
    BY <1>0 DEF ContextsKept, ConfInv, ContextsInv
  <2>2. \A f \in 1 .. Len(stack) : f \in 1 .. Len(stack')
    BY <1>0
  <2> QED
    BY <2>1, <2>2 DEF ContextInv
<1>2. ASSUME NEW i \in 1 .. Len(ctx'), ctx'[i].completed
      PROVE  Ready(ctx'[i]) /\ \A f \in 1 .. Len(stack') : stack'[f].ctx # i
  <2>1. i \in 1 .. Len(ctx) /\ ctx[i].completed /\ i # Top.ctx /\ ctx'[i] = ctx[i]
    BY <1>0, <1>2
  <2>2. Ready(ctx[i]) /\ \A f \in 1 .. Len(stack) : stack[f].ctx # i
    BY <2>1 DEF ConfInv, CompletedIsFinal
  <2>3. ASSUME NEW f \in 1 .. Len(stack') PROVE stack'[f].ctx # i
    <3>1. f \in 1 .. Len(stack) \/ f > Len(stack)
      BY <1>0
    <3> QED
      BY <2>1, <2>2, <3>1
  <2> QED
    BY <2>1, <2>2, <2>3
<1> QED
  BY <1>1, <1>2 DEF ContextsInv, CompletedIsFinal

-----------------------------------------------------------------------------
(* The steps. *)

LEMMA OpenSubblockInv ==
  ASSUME ConfInv, NEW c \in Commands, NEW s, OpenSubblock(c, s)
  PROVE  ConfInv'
<1>1. /\ Reading(s) /\ slots' = Pushed(slots) /\ fault' \in ReadOutcomes(Top, slots')
      /\ stack' = Append(stack, NewFrame(c, Top.ctx)) /\ ctxs' = ctxs /\ status' = status
      /\ c.child /\ Accepted(c, s) /\ s.kind = "open"
  BY DEF OpenSubblock
<1>2. /\ c.mod \in {"http_kafka", "proxy", "listener"}
      /\ c.mod = "listener" => c.name = "topic" /\ TopIs("listener", "kafka")
      /\ c.mod # "listener" => TopMod("http")
  BY <1>1, AcceptedSubblock
<1>3. /\ Open /\ Top.mod = IF c.mod = "listener" THEN "listener" ELSE "http"
      /\ Top.mod = "listener" => Top.cmd = "kafka"
  BY <1>2 DEF TopIs, TopMod
<1>4. /\ Len(stack) \in Nat /\ Len(stack) > 0 /\ Top \in Frame /\ Top = stack[Len(stack)]
      /\ FrameInv(Len(stack)) /\ Top.ctx \in 1 .. Len(ctx) /\ ctx[Top.ctx] \in Context
      /\ stack \in Seq(Frame) /\ ctx \in Seq(Context)
  BY <1>3, TopFacts DEF ConfInv, TypeOK
<1>5. ~Top.child
  BY <1>3, <1>4 DEF FrameInv
<1>6. /\ slots' \in [count : Nat, capa : Nat, gen : Nat] /\ SlotsInv' /\ slots.gen <= slots'.gen
      /\ slots.gen \in Nat /\ slots'.gen \in Nat /\ slots'.count \in Nat /\ Capacity \in Nat
  BY <1>1, PushKeeps, ConfAssumption DEF ConfInv, TypeOK
<1> DEFINE new == NewFrame(c, Top.ctx)
<1>7. /\ new \in Frame /\ new.mod = c.mod /\ new.cmd = c.name /\ new.child = TRUE
      /\ new.ctx = Top.ctx /\ new.gen = slots'.gen /\ new.slot = slots'.count
  <2>1. c.name \in {d.name : d \in Commands} /\ c.mod \in Mods /\ c.child = TRUE
    BY <1>1, CommandFacts
  <2>2. Top.ctx \in Nat
    BY <1>4
  <2> QED
    BY <1>6, <2>1, <2>2 DEF NewFrame, Frame
<1>8. stack' = Append(stack, new)
  BY <1>1
<1> HIDE DEF new
<1>9. /\ stack' \in Seq(Frame) /\ Len(stack') = Len(stack) + 1
      /\ \A f \in 1 .. Len(stack) : stack'[f] = stack[f]
      /\ stack'[Len(stack) + 1] = new
  BY <1>4, <1>7, <1>8
<1>10. PICK junk \in SUBSET Fields :
         ctx' = [ctx EXCEPT ![Top.ctx].parts = Append(@, [mod |-> c.mod, set |-> junk])]
  <2>1. SUBSET JunkFields \subseteq SUBSET Fields /\ {} \in SUBSET Fields
    BY ConfAssumption DEF Fields, KafkaFields
  <2> QED
    BY <2>1 DEF OpenSubblock
<1> DEFINE part == [mod |-> c.mod, set |-> junk]
           x == [ctx[Top.ctx] EXCEPT !.parts = Append(@, part)]
<1>11. ctx' = [ctx EXCEPT ![Top.ctx] = x]
  BY <1>10
<1>12. /\ x \in Context /\ x.mod = ctx[Top.ctx].mod /\ x.completed = ctx[Top.ctx].completed
       /\ x.parts # <<>>
  <2>1. part \in Part
    BY <1>2 DEF Part
  <2>2. ctx[Top.ctx].parts \in Seq(Part)
    BY <1>4 DEF Context
  <2> HIDE DEF part
  <2>3. Append(ctx[Top.ctx].parts, part) \in Seq(Part) /\ Append(ctx[Top.ctx].parts, part) # <<>>
    BY <2>1, <2>2
  <2> QED
    BY <1>4, <2>3 DEF Context
<1> HIDE DEF x
<1>13. /\ ContextsKept /\ ~ctx[Top.ctx].completed /\ ctx'[Top.ctx] = x
       /\ \A i \in 1 .. Len(ctx) : i # Top.ctx => ctx'[i] = ctx[i]
       /\ \A i \in 1 .. Len(ctx) : ctx'[i].completed = ctx[i].completed
  BY <1>3, <1>11, <1>12, WriteKeeps
<1>14. TypeOK'
  <2>1. script' \in Scripts /\ lines' \in Nat
    BY <1>1 DEF ConfInv, TypeOK, Reading
  <2>2. fault' \in {"none", "stale"}
    BY <1>1 DEF ReadOutcomes
  <2>3. ctx' \in Seq(Context)
    BY <1>13 DEF ContextsKept
  <2> QED
    BY <1>1, <1>6, <1>9, <2>1, <2>2, <2>3 DEF ConfInv, TypeOK
<1>15. \A f \in 1 .. Len(stack') : f \in 1 .. Len(stack) \/ f = Len(stack) + 1
  BY <1>4, <1>9
<1>16. FramesInv' /\ SubblocksShareContext'
  <2>1. ASSUME NEW f \in 1 .. Len(stack) PROVE FrameInv(f)' /\ ShareAt(f)'
    <3>1. FrameInv(f) /\ FramesInv /\ SubblocksShareContext
      BY DEF ConfInv, FramesInv
    <3>2. /\ stack'[f] = stack[f] /\ stack[f] \in Frame
          /\ f > 1 => stack'[f - 1] = stack[f - 1]
      BY <1>4, <1>9
    <3>3. stack[f].gen \in Nat
      BY <3>2 DEF Frame
    <3> QED
      BY <1>6, <1>13, <3>1, <3>2, <3>3, FrameKept, ShareKept
  <2>2. ASSUME NEW f, f = Len(stack) + 1 PROVE FrameInv(f)' /\ ShareAt(f)'
    <3>1. /\ stack'[f] = new /\ stack'[f - 1] = Top /\ f > 1
      BY <1>4, <1>9, <2>2
    <3>2. new.child /\ ctx'[new.ctx].parts # <<>> /\ new.ctx \in 1 .. Len(ctx')
      BY <1>4, <1>7, <1>12, <1>13 DEF ContextsKept
    <3>3. new.mod \in {"http_kafka", "proxy"} \/ (new.mod = "listener" /\ new.cmd = "topic")
      BY <1>2, <1>7
    <3>4. new.gen <= slots'.gen
      BY <1>6, <1>7
    <3>5. FrameInv(f)'
      BY <3>1, <3>2, <3>3, <3>4 DEF FrameInv
    <3> QED
      BY <1>3, <1>5, <1>7, <3>1, <3>2, <3>5 DEF ShareAt
  <2> QED
    BY <1>15, <2>1, <2>2 DEF FramesInv, SubblocksShareContext, ShareAt
<1>17. OwnContexts'
  <2> SUFFICES ASSUME NEW f \in 1 .. Len(stack'), NEW g \in 1 .. Len(stack'), f < g,
                      stack'[f].ctx = stack'[g].ctx
               PROVE  g = f + 1 /\ stack'[g].child
    BY DEF OwnContexts
  <2>1. f \in 1 .. Len(stack) /\ stack'[f] = stack[f]
    BY <1>4, <1>9
  <2>2. CASE g \in 1 .. Len(stack)
    BY <1>9, <2>1, <2>2 DEF ConfInv, OwnContexts
  <2>3. CASE g = Len(stack) + 1
    <3>1. stack[f].ctx = stack[Len(stack)].ctx
      BY <1>4, <1>7, <1>9, <2>1, <2>3
    <3>2. f = Len(stack)
      <4>1. Len(stack) \in 1 .. Len(stack) /\ (f < Len(stack) \/ f = Len(stack))
        BY <1>4, <2>1
      <4>2. f < Len(stack) => stack[Len(stack)].child
        BY <2>1, <3>1, <4>1 DEF ConfInv, OwnContexts
      <4> QED
        BY <1>4, <1>5, <4>1, <4>2
    <3> QED
      BY <1>7, <1>9, <2>3, <3>2
  <2> QED
    BY <1>15, <2>2, <2>3
<1>18. ContextsInv' /\ CompletedIsFinal'
  <2>1. \A f \in 1 .. Len(stack') : f > Len(stack) => stack'[f].ctx = Top.ctx
    BY <1>4, <1>7, <1>9, <1>15
  <2>2. Len(stack') >= Len(stack)
    BY <1>4, <1>9
  <2> QED
    BY <1>3, <1>9, <1>13, <2>1, <2>2, WrittenContexts
<1>19. AllStored'
  BY <1>1, <1>13, StoredKept DEF ConfInv
<1>20. LoopsGiven' /\ EndedInside'
  <2>1. fault' \in {"none", "stale"}
    BY <1>1 DEF ReadOutcomes
  <2> QED
    BY <1>1, <2>1 DEF LoopsGiven, EndedInside, Reading
<1>21. SlotsPlaced'
  BY <1>1, <1>7, <1>8, PushPlaces
<1>22. slots'.capa \in Nat
  BY <1>6
<1>23. StaleReadIfMoved'
  <2>1. fault' = "none" \/ (fault' = "stale" /\ slots'.gen > 0)
    <3>1. Top.gen \in Nat /\ Top.gen <= slots'.gen
      BY <1>4, <1>6 DEF FrameInv, Frame
    <3> QED
      BY <1>1, <1>6, <3>1, ReadFaults
  <2>2. slots'.gen > 0 => slots'.count > Capacity
    BY <1>6, <1>22 DEF SlotsInv
  <2> QED
    BY <2>1, <2>2 DEF StaleReadIfMoved
<1> QED
  BY <1>6, <1>14, <1>16, <1>17, <1>18, <1>19, <1>20, <1>21, <1>23 DEF ConfInv

(* What a parameter writes: to the context itself, or to the last route or *)
(* topic of it, of which there is one.                                     *)
LEMMA ConfiguredKeeps ==
  ASSUME ConfInv, Open, NEW c \in Commands, FieldOf(c) \in Fields,
         c.mod \in {"http_kafka", "proxy"} => Top.mod = c.mod
  PROVE  LET x == Configured(ctx[Top.ctx], c) IN
         /\ x \in Context
         /\ x.mod = ctx[Top.ctx].mod
         /\ x.completed = ctx[Top.ctx].completed
         /\ ctx[Top.ctx].parts # <<>> => x.parts # <<>>
<1> DEFINE old == ctx[Top.ctx]
           x == Configured(old, c)
           field == FieldOf(c)
<1>1. old \in Context /\ FrameInv(Len(stack)) /\ Top = stack[Len(stack)]
  BY TopFacts
<1>2. CASE c.mod \in {"http_kafka", "proxy"} \/ TopIs("listener", "topic")
  <2>1. x = [old EXCEPT !.parts[Len(old.parts)].set = @ \cup {field}]
    BY <1>2 DEF Configured
  <2>2. old.parts \in Seq(Part) /\ old.parts # <<>>
    BY <1>1, <1>2 DEF Context, FrameInv, TopIs
  <2> DEFINE parts == old.parts
             n == Len(parts)
             part == [parts[n] EXCEPT !.set = @ \cup {field}]
             parts2 == [parts EXCEPT ![n] = part]
  <2>3. n \in 1 .. Len(parts) /\ parts[n] \in Part
    BY <2>2
  <2>4. part \in Part
    BY <2>3 DEF Part
  <2>5. x = [old EXCEPT !.parts = parts2]
    BY <2>1
  <2> HIDE DEF part, field, x, old
  <2>6. parts2 \in Seq(Part) /\ Len(parts2) = Len(parts)
    BY <2>2, <2>3, <2>4
  <2> HIDE DEF parts2
  <2>7. x \in Context /\ x.mod = old.mod /\ x.completed = old.completed /\ x.parts = parts2
    BY <1>1, <2>5, <2>6 DEF Context
  <2>8. x.parts # <<>>
    BY <2>3, <2>6, <2>7
  <2> QED
    BY <2>7, <2>8 DEF x, old
<1>3. CASE ~(c.mod \in {"http_kafka", "proxy"} \/ TopIs("listener", "topic"))
  <2>1. x = [old EXCEPT !.set = @ \cup {field}]
    BY <1>3 DEF Configured
  <2>2. old.set \cup {field} \in SUBSET Fields
    BY <1>1 DEF Context
  <2> HIDE DEF x, old, field
  <2>3. x \in Context /\ x.mod = old.mod /\ x.completed = old.completed /\ x.parts = old.parts
    BY <1>1, <2>1, <2>2 DEF Context
  <2> QED
    BY <2>3 DEF x, old
<1> QED
  BY <1>2, <1>3

LEMMA ParamInv ==
  ASSUME ConfInv, NEW c \in Commands, NEW s, Param(c, s)
  PROVE  ConfInv'
<1>1. /\ Reading(s) /\ Accepted(c, s) /\ s.kind = "param"
      /\ UNCHANGED <<stack, slots, ctxs, status>>
  BY DEF Param
<1>2. /\ script' \in Scripts /\ lines' \in Nat /\ status' # "running"
      /\ slots \in [count : Nat, capa : Nat, gen : Nat] /\ SlotsInv
      /\ stack \in Seq(Frame) /\ Len(stack) \in Nat /\ ctx \in Seq(Context) /\ Capacity \in Nat
  BY <1>1, ConfAssumption DEF ConfInv, TypeOK, Reading
<1>3. \A outcome \in ReadOutcomes(Top, slots) :
        Open => outcome = "none" \/ (outcome = "stale" /\ slots.count > Capacity)
  <2> SUFFICES ASSUME Open, NEW outcome \in ReadOutcomes(Top, slots)
               PROVE  outcome = "none" \/ (outcome = "stale" /\ slots.count > Capacity)
    OBVIOUS
  <2>1. Top.gen \in Nat /\ Top.gen <= slots.gen /\ slots.gen \in Nat
    BY <1>2, TopFacts DEF FrameInv, Frame
  <2>2. outcome = "none" \/ (outcome = "stale" /\ slots.gen > 0)
    BY <2>1, ReadFaults
  <2> QED
    BY <1>2, <2>2 DEF SlotsInv
<1>4. Open
  <2>1. c.block \in BOOLEAN /\ ~c.block
    BY <1>1, CommandFacts DEF Accepted, Takers, Candidates
  <2>2. Result(c, s.args = "right") = "accept"
    BY <1>1 DEF Accepted
  <2> QED
    BY <2>1, <2>2, ResultByTests
<1>5. CASE Misplaced(c)
  <2>1. fault' \in ReadOutcomes(Top, slots) \cup {"confused"} /\ ctx' = ctx
    BY <1>5 DEF Param
  <2>2. fault' = "none" \/ fault' = "confused" \/ (fault' = "stale" /\ slots.count > Capacity)
    BY <1>3, <1>4, <2>1
  <2>3. ContextsKept
    BY <1>2, <2>1 DEF ContextsKept
  <2>4. FramesInv' /\ SubblocksShareContext' /\ OwnContexts' /\ SlotsPlaced'
    BY <1>1, <2>3, StackKept
  <2>5. ContextsInv' /\ CompletedIsFinal'
    BY <1>1, <2>1 DEF ConfInv, ContextsInv, ContextInv, CompletedIsFinal
  <2>6. TypeOK'
    BY <1>1, <1>2, <2>1, <2>2 DEF ConfInv, TypeOK
  <2>7. AllStored'
    BY <1>1, <2>3, StoredKept DEF ConfInv
  <2>8. SlotsInv' /\ LoopsGiven' /\ StaleReadIfMoved' /\ EndedInside'
    BY <1>1, <1>2, <2>2 DEF SlotsInv, LoopsGiven, StaleReadIfMoved, EndedInside
  <2> QED
    BY <2>4, <2>5, <2>6, <2>7, <2>8 DEF ConfInv
<1>6. CASE ~Misplaced(c)
  <2>1. /\ FieldOf(c) \in Fields
        /\ c.mod \in {"http_kafka", "proxy"} => Top.mod = c.mod
    BY <1>1, <1>6, AcceptedParam
  <2> DEFINE x == Configured(ctx[Top.ctx], c)
  <2>2. /\ fault' \in ReadOutcomes(Top, slots) \cup ExecOutcomes(c)
        /\ ctx' = [ctx EXCEPT ![Top.ctx] = x]
    BY <1>6 DEF Param
  <2>3. /\ x \in Context /\ x.mod = ctx[Top.ctx].mod /\ x.completed = ctx[Top.ctx].completed
        /\ ctx[Top.ctx].parts # <<>> => x.parts # <<>>
    BY <1>4, <2>1, ConfiguredKeeps
  <2> HIDE DEF x
  <2>4. /\ ContextsKept /\ ~ctx[Top.ctx].completed /\ ctx'[Top.ctx] = x
        /\ \A i \in 1 .. Len(ctx) : i # Top.ctx => ctx'[i] = ctx[i]
        /\ \A i \in 1 .. Len(ctx) : ctx'[i].completed = ctx[i].completed
    BY <1>4, <2>2, <2>3, WriteKeeps
  <2>5. FramesInv' /\ SubblocksShareContext' /\ OwnContexts' /\ SlotsPlaced'
    BY <1>1, <2>4, StackKept
  <2>6. ContextsInv' /\ CompletedIsFinal'
    <3>1. stack' = stack
      BY <1>1
    <3> QED
      BY <1>2, <1>4, <2>4, <3>1, WrittenContexts
  <2>7. \/ fault' = "none" \/ (fault' = "stale" /\ slots.count > Capacity)
        \/ fault' = "args"
    BY <1>3, <1>4, <2>2 DEF ExecOutcomes
  <2>8. TypeOK'
    <3>1. ctx' \in Seq(Context)
      BY <2>4 DEF ContextsKept
    <3> QED
      BY <1>1, <1>2, <2>7, <3>1 DEF ConfInv, TypeOK
  <2>9. AllStored'
    BY <1>1, <2>4, StoredKept DEF ConfInv
  <2>10. StaleReadIfMoved'
    BY <1>1, <2>7 DEF StaleReadIfMoved
  <2>11. SlotsInv' /\ LoopsGiven' /\ EndedInside'
    BY <1>1, <1>2, <2>7 DEF SlotsInv, LoopsGiven, EndedInside
  <2> QED
    BY <2>5, <2>6, <2>8, <2>9, <2>10, <2>11 DEF ConfInv
<1> QED
  BY <1>5, <1>6

LEMMA WithoutLast ==
  ASSUME NEW S, NEW seq \in Seq(S), Len(seq) > 0,
         NEW rest, rest = SubSeq(seq, 1, Len(seq) - 1)
  PROVE  /\ rest \in Seq(S)
         /\ Len(rest) = Len(seq) - 1
         /\ \A f \in 1 .. Len(rest) : f \in 1 .. Len(seq) /\ rest[f] = seq[f]
<1>1. PICK n \in Nat : n = Len(seq) - 1
  OBVIOUS
<1>2. n < Len(seq) /\ rest = SubSeq(seq, 1, n)
  BY <1>1
<1>3. Len(rest) = n
  BY <1>2
<1>4. rest \in Seq(S)
  BY <1>2
<1>5. \A f \in 1 .. n : rest[f] = seq[f]
  BY <1>2
<1> QED
  BY <1>1, <1>3, <1>4, <1>5

(* Removing the innermost block from the stack.                            *)
LEMMA PopKeeps ==
  ASSUME ConfInv, Open, stack' = Pop, slots' = slots, ContextsKept
  PROVE  /\ stack' \in Seq(Frame)
         /\ Len(stack') = Len(stack) - 1
         /\ \A f \in 1 .. Len(stack') : f \in 1 .. Len(stack) /\ stack'[f] = stack[f]
         /\ FramesInv' /\ SubblocksShareContext' /\ OwnContexts' /\ SlotsPlaced'
<1>1. stack \in Seq(Frame) /\ Len(stack) \in Nat /\ Len(stack) > 0 /\ slots.gen \in Nat
  BY TopFacts DEF ConfInv, TypeOK
<1>2. /\ stack' \in Seq(Frame) /\ Len(stack') = Len(stack) - 1
      /\ \A f \in 1 .. Len(stack') : f \in 1 .. Len(stack) /\ stack'[f] = stack[f]
  <2>1. stack' = SubSeq(stack, 1, Len(stack) - 1)
    BY DEF Pop
  <2> QED
    BY <1>1, <2>1, WithoutLast
<1>3. ASSUME NEW f \in 1 .. Len(stack') PROVE FrameInv(f)' /\ ShareAt(f)'
  <2>1. /\ f \in 1 .. Len(stack) /\ stack'[f] = stack[f] /\ stack[f] \in Frame
        /\ f > 1 => stack'[f - 1] = stack[f - 1]
    BY <1>1, <1>2
  <2>2. FrameInv(f) /\ stack[f].gen \in Nat /\ FramesInv /\ SubblocksShareContext
    BY <2>1 DEF ConfInv, FramesInv, Frame
  <2>3. slots'.gen = slots.gen /\ slots.gen <= slots.gen
    BY <1>1
  <2> QED
    BY <1>1, <2>1, <2>2, <2>3, FrameKept, ShareKept
<1>4. OwnContexts'
  BY <1>2 DEF ConfInv, OwnContexts
<1>5. SlotsPlaced'
  BY <1>2 DEF ConfInv, SlotsPlaced, Placed
<1> QED
  BY <1>2, <1>3, <1>4, <1>5 DEF FramesInv, SubblocksShareContext, ShareAt

LEMMA CloseSubblockInv ==
  ASSUME ConfInv, NEW s, CloseSubblock(s)
  PROVE  ConfInv'
<1>1. /\ Reading(s) /\ Open /\ Top.child /\ stack' = Pop
      /\ UNCHANGED <<slots, ctx, ctxs, status, fault>>
  BY DEF CloseSubblock
<1>2. ContextsKept /\ Len(stack) \in Nat /\ Len(stack) > 0 /\ Top = stack[Len(stack)]
  BY <1>1, TopFacts DEF ConfInv, TypeOK, ContextsKept
<1>3. /\ stack' \in Seq(Frame) /\ Len(stack') = Len(stack) - 1
      /\ \A f \in 1 .. Len(stack') : f \in 1 .. Len(stack) /\ stack'[f] = stack[f]
      /\ FramesInv' /\ SubblocksShareContext' /\ OwnContexts' /\ SlotsPlaced'
  BY <1>1, <1>2, PopKeeps
<1>4. ContextsInv'
  <2> SUFFICES ASSUME NEW i \in 1 .. Len(ctx) PROVE ContextInv(i)'
    BY <1>1 DEF ContextsInv
  <2>1. ContextInv(i)
    BY DEF ConfInv, ContextsInv
  <2>2. ASSUME NEW f \in 1 .. Len(stack), ~stack[f].child
        PROVE  f \in 1 .. Len(stack') /\ stack'[f] = stack[f]
    BY <1>1, <1>2, <1>3, <2>2
  <2> QED
    BY <1>1, <2>1, <2>2 DEF ContextInv
<1>5. CompletedIsFinal'
  BY <1>1, <1>3 DEF ConfInv, CompletedIsFinal
<1>6. TypeOK'
  BY <1>1, <1>3 DEF ConfInv, TypeOK, Reading
<1>7. AllStored'
  BY <1>1, <1>2, StoredKept DEF ConfInv
<1>8. SlotsInv' /\ LoopsGiven' /\ StaleReadIfMoved' /\ EndedInside'
  BY <1>1 DEF ConfInv, SlotsInv, LoopsGiven, StaleReadIfMoved, EndedInside, Reading
<1> QED
  BY <1>3, <1>4, <1>5, <1>6, <1>7, <1>8 DEF ConfInv

(* Whether a context is ready depends on its settings only.                *)
LEMMA ReadyKept ==
  ASSUME NEW x, NEW y, Ready(x), x.mod \in Owners,
         y.mod = x.mod, y.set = x.set, y.parts = x.parts
  PROVE  Ready(y)
<1>1. CASE x.mod = "listener"
  <2>1. ListenerReady(x) = ListenerReady(y)
    BY DEF ListenerReady
  <2> QED
    BY <1>1, <2>1, ReadyByTests
<1>2. CASE x.mod = "timer"
  <2>1. TimerReady(x) = TimerReady(y)
    BY DEF TimerReady
  <2> QED
    BY <1>2, <2>1, ReadyByTests
<1>3. CASE x.mod \in {"http", "version"}
  BY <1>3, ReadyByTests
<1> QED
  BY <1>1, <1>2, <1>3 DEF Owners

LEMMA CloseBlockInv ==
  ASSUME ConfInv, NEW s, CloseBlock(s)
  PROVE  ConfInv'
<1>1. /\ Reading(s) /\ Open /\ ~Top.child /\ stack' = Pop /\ Ready(ctx[Top.ctx])
      /\ fault' \in ReadOutcomes(Top, slots) \cup CompleteOutcomes(ctx[Top.ctx])
      /\ UNCHANGED <<slots, ctxs, status>>
  BY DEF CloseBlock
<1> DEFINE x == [ctx[Top.ctx] EXCEPT !.completed = TRUE]
<1>2. /\ Len(stack) \in Nat /\ Len(stack) > 0 /\ Top = stack[Len(stack)]
      /\ Top \in Frame /\ FrameInv(Len(stack))
      /\ Top.ctx \in 1 .. Len(ctx) /\ ctx[Top.ctx] \in Context /\ ctx \in Seq(Context)
  BY <1>1, TopFacts DEF ConfInv, TypeOK
<1>3. /\ ctx' = [ctx EXCEPT ![Top.ctx] = x] /\ x \in Context /\ x.completed = TRUE
      /\ x.mod = ctx[Top.ctx].mod /\ x.parts = ctx[Top.ctx].parts /\ x.set = ctx[Top.ctx].set
  BY <1>2 DEF CloseBlock, Context
<1> HIDE DEF x
<1>4. /\ ctx' \in Seq(Context) /\ Len(ctx') = Len(ctx) /\ ctx'[Top.ctx] = x
      /\ \A i \in 1 .. Len(ctx) : i # Top.ctx => ctx'[i] = ctx[i]
  BY <1>2, <1>3, ContextReplaced
<1>5. ContextsKept
  BY <1>3, <1>4 DEF ContextsKept
<1>6. /\ stack' \in Seq(Frame) /\ Len(stack') = Len(stack) - 1
      /\ \A f \in 1 .. Len(stack') : f \in 1 .. Len(stack) /\ stack'[f] = stack[f]
      /\ FramesInv' /\ SubblocksShareContext' /\ OwnContexts' /\ SlotsPlaced'
  BY <1>1, <1>5, PopKeeps
<1>7. \A f \in 1 .. Len(stack') : stack'[f].ctx # Top.ctx
  <2> SUFFICES ASSUME NEW f \in 1 .. Len(stack'), stack'[f].ctx = Top.ctx PROVE FALSE
    OBVIOUS
  <2>1. /\ f \in 1 .. Len(stack) /\ Len(stack) \in 1 .. Len(stack) /\ f < Len(stack)
        /\ stack[f].ctx = stack[Len(stack)].ctx
    BY <1>2, <1>6
  <2> QED
    BY <1>1, <1>2, <2>1 DEF ConfInv, OwnContexts
<1>8. ContextsInv'
  <2> SUFFICES ASSUME NEW i \in 1 .. Len(ctx) PROVE ContextInv(i)'
    BY <1>4 DEF ContextsInv
  <2>1. ContextInv(i)
    BY DEF ConfInv, ContextsInv
  <2>2. CASE i = Top.ctx
    BY <1>3, <1>4, <2>1, <2>2 DEF ContextInv
  <2>3. CASE i # Top.ctx
    <3>1. ctx'[i] = ctx[i]
      BY <1>4, <2>3
    <3>2. ASSUME NEW f \in 1 .. Len(stack), stack[f].ctx = i
          PROVE  f \in 1 .. Len(stack') /\ stack'[f] = stack[f]
      <4>1. f # Len(stack)
        BY <1>2, <2>3, <3>2
      <4>2. /\ Len(stack') = Len(stack) - 1 /\ Len(stack) \in Nat
            /\ \A g \in 1 .. Len(stack') : stack'[g] = stack[g]
        BY <1>2, <1>6
      <4> QED
        BY <4>1, <4>2
    <3> QED
      BY <2>1, <3>1, <3>2 DEF ContextInv
  <2> QED
    BY <2>2, <2>3
<1>9. CompletedIsFinal'
  <2> SUFFICES ASSUME NEW i \in 1 .. Len(ctx), ctx'[i].completed
               PROVE  Ready(ctx'[i]) /\ \A f \in 1 .. Len(stack') : stack'[f].ctx # i
    BY <1>4 DEF CompletedIsFinal
  <2>1. CASE i = Top.ctx
    <3>1. Ready(x)
      BY <1>1, <1>2, <1>3, ReadyKept DEF ConfInv, ContextsInv, ContextInv
    <3> QED
      BY <1>4, <1>7, <2>1, <3>1
  <2>2. CASE i # Top.ctx
    <3>1. ctx'[i] = ctx[i]
      BY <1>4, <2>2
    <3>2. Ready(ctx[i]) /\ \A f \in 1 .. Len(stack) : stack[f].ctx # i
      BY <3>1 DEF ConfInv, CompletedIsFinal
    <3> QED
      BY <1>6, <3>1, <3>2
  <2> QED
    BY <2>1, <2>2
<1>10. \/ fault' = "none"
       \/ fault' = "stale" /\ slots.gen > 0
       \/ fault' = "unset"
  <2>1. Top.gen \in Nat /\ Top.gen <= slots.gen /\ slots.gen \in Nat
    BY <1>2 DEF ConfInv, TypeOK, FrameInv, Frame
  <2>2. CASE fault' \in ReadOutcomes(Top, slots)
    BY <2>1, <2>2, ReadFaults
  <2>3. CASE fault' \in CompleteOutcomes(ctx[Top.ctx])
    BY <1>3, <2>3 DEF CompleteOutcomes
  <2> QED
    BY <1>1, <2>2, <2>3
<1>11. TypeOK'
  BY <1>1, <1>4, <1>6, <1>10 DEF ConfInv, TypeOK, Reading
<1>12. AllStored'
  BY <1>1, <1>5, StoredKept DEF ConfInv
<1>13. StaleReadIfMoved'
  <2>1. /\ slots.count \in Nat /\ slots.capa \in Nat /\ Capacity \in Nat
        /\ SlotsInv /\ slots' = slots
    BY <1>1, ConfAssumption DEF ConfInv, TypeOK
  <2> QED
    BY <1>10, <2>1 DEF SlotsInv, StaleReadIfMoved
<1>14. SlotsInv' /\ LoopsGiven' /\ EndedInside'
  BY <1>1, <1>10 DEF ConfInv, SlotsInv, LoopsGiven, EndedInside, Reading
<1> QED
  BY <1>6, <1>8, <1>9, <1>11, <1>12, <1>13, <1>14 DEF ConfInv

(* A step that only counts a statement or moves the program on.            *)
LEMMA StatusInv ==
  ASSUME ConfInv, UNCHANGED <<stack, slots, ctx, ctxs, fault>>,
         script' \in Scripts, lines' \in Nat,
         status' \in {"parsing", "parsed", "refused"}
  PROVE  ConfInv'
<1>1. ContextsKept
  BY DEF ConfInv, TypeOK, ContextsKept
<1>2. FramesInv' /\ SubblocksShareContext' /\ OwnContexts' /\ SlotsPlaced'
  BY <1>1, StackKept
<1>3. ContextsInv' /\ CompletedIsFinal'
  BY DEF ConfInv, ContextsInv, ContextInv, CompletedIsFinal
<1>4. AllStored'
  BY <1>1, StoredKept DEF ConfInv
<1>5. TypeOK'
  BY DEF ConfInv, TypeOK
<1>6. SlotsInv' /\ LoopsGiven' /\ StaleReadIfMoved' /\ EndedInside'
  BY DEF ConfInv, SlotsInv, LoopsGiven, StaleReadIfMoved, EndedInside
<1> QED
  BY <1>2, <1>3, <1>4, <1>5, <1>6 DEF ConfInv

LEMMA RefuseInv ==
  ASSUME ConfInv, NEW s, Refuse(s)
  PROVE  ConfInv'
BY StatusInv DEF Refuse, Reading, ConfInv, TypeOK

LEMMA EndOfFileInv ==
  ASSUME ConfInv, EndOfFile
  PROVE  ConfInv'
BY StatusInv DEF EndOfFile, ConfInv, TypeOK

(* Reading statements, and the end of the file.                           *)
LEMMA ReadInv ==
  ASSUME ConfInv, Read
  PROVE  ConfInv'
BY OpenBlockInv, OpenSubblockInv, ParamInv, CloseSubblockInv, CloseBlockInv,
   RefuseInv, EndOfFileInv DEF Read

(* What is started was completed, unless a block is still open.            *)
LEMMA GmodInitedInv ==
  ASSUME ConfInv, GmodInited
  PROVE  ConfInv'
<1>1. /\ fault = "none" /\ status' = "running" /\ fault' \in StartOutcomes
      /\ UNCHANGED <<script, stack, slots, ctxs, lines>>
      /\ ctx' = [i \in 1 .. Len(ctx) |->
                   [ctx[i] EXCEPT !.loop = LoopGiven(ctx[i].mod, i)]]
  BY DEF GmodInited
<1>2. ctx \in Seq(Context) /\ Len(ctx) \in Nat /\ stack \in Seq(Frame)
  BY DEF ConfInv, TypeOK
<1>3. ASSUME NEW i \in 1 .. Len(ctx)
      PROVE  /\ ctx'[i] \in Context
             /\ ctx'[i].mod = ctx[i].mod /\ ctx'[i].set = ctx[i].set
             /\ ctx'[i].parts = ctx[i].parts /\ ctx'[i].completed = ctx[i].completed
             /\ ctx'[i].loop = LoopGiven(ctx[i].mod, i)
  <2>1. ctx[i] \in Context /\ LoopGiven(ctx[i].mod, i) \in BOOLEAN
    BY <1>2 DEF LoopGiven
  <2>2. ctx'[i] = [ctx[i] EXCEPT !.loop = LoopGiven(ctx[i].mod, i)]
    BY <1>1
  <2> QED
    BY <2>1, <2>2 DEF Context
<1>4. ctx' \in Seq(Context) /\ Len(ctx') = Len(ctx)
  BY <1>1, <1>2, <1>3
<1>5. ContextsKept
  BY <1>3, <1>4 DEF ContextsKept
<1>6. FramesInv' /\ SubblocksShareContext' /\ OwnContexts' /\ SlotsPlaced'
  BY <1>1, <1>5, StackKept
<1>7. ContextsInv'
  BY <1>1, <1>3, <1>4 DEF ConfInv, ContextsInv, ContextInv
<1>8. CompletedIsFinal'
  <2> SUFFICES ASSUME NEW i \in 1 .. Len(ctx), ctx'[i].completed
               PROVE  Ready(ctx'[i]) /\ \A f \in 1 .. Len(stack') : stack'[f].ctx # i
    BY <1>4 DEF CompletedIsFinal
  <2>1. Ready(ctx[i]) /\ \A f \in 1 .. Len(stack) : stack[f].ctx # i
    BY <1>3 DEF ConfInv, CompletedIsFinal
  <2>2. ctx[i].mod \in Owners
    BY DEF ConfInv, ContextsInv, ContextInv
  <2>3. Ready(ctx'[i])
    BY <2>2, <2>1, <1>3, ReadyKept
  <2> QED
    BY <1>1, <2>1, <2>3
<1>9. fault' \in {"none", "incomplete"}
  BY <1>1 DEF StartOutcomes
<1>10. TypeOK'
  BY <1>1, <1>4, <1>9 DEF ConfInv, TypeOK
<1>11. AllStored'
  BY <1>1, <1>5, StoredKept DEF ConfInv
<1>12. LoopsGiven'
  <2> SUFFICES ASSUME NEW i \in 1 .. Len(ctx) PROVE (ctx[i].loop = LoopGiven(ctx[i].mod, i))'
    BY <1>4 DEF LoopsGiven
  <2>1. ctxs' = ctxs
    BY <1>1
  <2> QED
    BY <1>3, <2>1 DEF LoopGiven
<1>13. EndedInside'
  <2> SUFFICES ASSUME fault' = "incomplete" PROVE stack # <<>>
    BY <1>1 DEF EndedInside
  <2>1. \E m \in Mods : \E i \in 1 .. Len(ctxs[m]) : ~ctx[ctxs[m][i]].completed
    BY <1>1 DEF StartOutcomes
  <2> PICK m \in Mods : \E i \in 1 .. Len(ctxs[m]) : ~ctx[ctxs[m][i]].completed
    BY <2>1
  <2> PICK i \in 1 .. Len(ctxs[m]) : ~ctx[ctxs[m][i]].completed
    OBVIOUS
  <2>2. StoredAsMade(m)
    BY DEF ConfInv, AllStored
  <2>3. ctxs[m][i] \in 1 .. Len(ctx)
    BY <2>2 DEF StoredAsMade
  <2> QED
    BY <2>3, <1>2 DEF ConfInv, ContextsInv, ContextInv
<1>14. SlotsInv' /\ StaleReadIfMoved'
  BY <1>1, <1>9 DEF ConfInv, SlotsInv, StaleReadIfMoved
<1> QED
  BY <1>6, <1>7, <1>8, <1>10, <1>11, <1>12, <1>13, <1>14 DEF ConfInv

LEMMA UnchangedInv ==
  ASSUME ConfInv, UNCHANGED vars
  PROVE  ConfInv'
<1>1. CASE status # "running"
  BY <1>1, StatusInv DEF vars, ConfInv, TypeOK
<1>2. CASE status = "running"
  <2>1. /\ script' = script /\ stack' = stack /\ slots' = slots /\ ctx' = ctx
        /\ ctxs' = ctxs /\ lines' = lines /\ status' = status /\ fault' = fault
    BY DEF vars
  <2>2. TypeOK'
    BY <2>1 DEF ConfInv, TypeOK
  <2>3. FramesInv' /\ OwnContexts'
    BY <2>1 DEF ConfInv, FramesInv, FrameInv, OwnContexts
  <2>4. SubblocksShareContext'
    BY <2>1 DEF ConfInv, SubblocksShareContext
  <2>5. ContextsInv' /\ CompletedIsFinal'
    BY <2>1 DEF ConfInv, ContextsInv, ContextInv, CompletedIsFinal
  <2>6. SlotsInv' /\ SlotsPlaced' /\ EndedInside'
    BY <2>1 DEF ConfInv, SlotsInv, SlotsPlaced, Placed, EndedInside
  <2>7. AllStored'
    BY <2>1 DEF ConfInv, AllStored, StoredAsMade
  <2>8. LoopsGiven'
    BY <2>1 DEF ConfInv, LoopsGiven, LoopGiven
  <2>9. StaleReadIfMoved'
    BY <2>1 DEF ConfInv, StaleReadIfMoved
  <2> QED
    BY <2>2, <2>3, <2>4, <2>5, <2>6, <2>7, <2>8, <2>9, Zenon DEF ConfInv
<1> QED
  BY <1>1, <1>2

LEMMA NextInv == ConfInv /\ [Next]_vars => ConfInv'
BY ReadInv, GmodInitedInv, UnchangedInv DEF Next

(* Reading any configuration keeps the invariant.                         *)
THEOREM SpecInv == Spec => []ConfInv
BY InitInv, NextInv, PTL DEF Spec

-----------------------------------------------------------------------------
(* Results. *)

(* Every variable keeps its type.                                          *)
THEOREM TypeCorrect == Spec => []TypeOK
<1>1. ConfInv => TypeOK
  BY DEF ConfInv
<1> QED
  BY SpecInv, <1>1, PTL

(* A subblock lies directly in the block whose module it extends, and both *)
(* work on one context.                                                    *)
THEOREM SubblocksShare == Spec => []SubblocksShareContext
<1>1. ConfInv => SubblocksShareContext
  BY DEF ConfInv
<1> QED
  BY SpecInv, <1>1, PTL

(* A completed context has what its module requires, and keeps it.         *)
THEOREM CompletedStays == Spec => []CompletedIsFinal
<1>1. ConfInv => CompletedIsFinal
  BY DEF ConfInv
<1> QED
  BY SpecInv, <1>1, PTL

(* So a block points to freed memory exactly when its slot is in the lower *)
(* half of an array that was moved.                                        *)
LEMMA StaleIfMoved == ConfInv => StaleOnlyIfMoved
<1> SUFFICES ASSUME ConfInv PROVE StaleOnlyIfMoved
  OBVIOUS
<1>1. ASSUME NEW f \in 1 .. Len(stack)
      PROVE  stack[f].gen # slots.gen <=>
               slots.capa > Capacity /\ 2 * stack[f].slot <= slots.capa
  <2>1. /\ slots.gen \in Nat /\ slots.count \in Nat /\ slots.capa \in Nat
        /\ stack[f].gen \in Nat /\ stack[f].slot \in Nat
        /\ Capacity \in Nat /\ Capacity > 0
    <3>1. /\ slots \in [count : Nat, capa : Nat, gen : Nat]
          /\ stack \in Seq(Frame) /\ Capacity \in Nat \ {0}
      BY ConfAssumption DEF ConfInv, TypeOK
    <3>2. stack[f] \in Frame
      BY <3>1
    <3> QED
      BY <3>1, <3>2 DEF Frame
  <2>2. stack[f].gen <= slots.gen /\ Placed(stack[f], slots)
    BY DEF ConfInv, FramesInv, FrameInv, SlotsPlaced
  <2>3. SlotsInv
    BY DEF ConfInv
  <2>4. CASE slots.gen = 0
    BY <2>1, <2>2, <2>3, <2>4 DEF SlotsInv
  <2>5. CASE slots.gen > 0
    BY <2>1, <2>2, <2>3, <2>5 DEF SlotsInv, Placed
  <2> QED
    BY <2>1, <2>4, <2>5
<1> QED
  BY <1>1 DEF StaleOnlyIfMoved, ConfInv, StaleReadIfMoved

(* A slot is read where it no longer is only for the blocks opened before  *)
(* the last move of run->ctx, and never while no more blocks were opened   *)
(* than it has slots at first, however many that are.                      *)
THEOREM MovedSlotsAreStale == Spec => []StaleOnlyIfMoved
BY SpecInv, StaleIfMoved, PTL

(* The modules start what was made for them, once, in order and complete.  *)
LEMMA StartedComplete == ConfInv => StartedIsComplete
<1> SUFFICES ASSUME ConfInv PROVE StartedIsComplete
  OBVIOUS
<1>1. /\ \A m \in Mods : StoredAsMade(m)
      /\ fault = "incomplete" => stack # <<>>
  BY DEF ConfInv, AllStored, EndedInside
<1>2. ASSUME status = "running", stack = <<>>, NEW m \in Mods, NEW i \in 1 .. Len(ctxs[m])
      PROVE  /\ ctx[ctxs[m][i]].completed
             /\ m \in {"http", "listener"} /\ Len(ctxs[m]) = 1 => ctx[ctxs[m][i]].loop
  <2>1. ctxs[m][i] \in 1 .. Len(ctx) /\ ctx[ctxs[m][i]].mod = m
    BY <1>1 DEF StoredAsMade
  <2>2. ctx[ctxs[m][i]].completed
    BY <1>2, <2>1 DEF ConfInv, ContextsInv, ContextInv
  <2>3. ctx[ctxs[m][i]].loop = LoopGiven(m, ctxs[m][i])
    BY <1>2, <2>1 DEF ConfInv, LoopsGiven
  <2>4. Len(ctxs[m]) = 1 => i = 1
    BY DEF ConfInv, TypeOK
  <2> QED
    BY <2>2, <2>3, <2>4 DEF LoopGiven
<1> QED
  BY <1>1, <1>2 DEF StartedIsComplete

(* What is started has all its module requires, and its loop.             *)
THEOREM OnlyCompleteStarts == Spec => []StartedIsComplete
BY SpecInv, StartedComplete, PTL
=============================================================================
