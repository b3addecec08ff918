# Folksong in TLA+

Folksong is a modular I/O proxy on libuv: an HTTP server that turns requests
into Kafka messages, a Kafka consumer that pipes messages to child processes,
and timers. This directory models it in TLA+, model-checks the models with TLC
and proves with TLAPS, for every value of the constants, every safety property
the runs check; liveness stays with TLC (section 4). Paths below are relative
to the repository's root (`src/`), which itself has a directory `src`.

## 1. The system

One process, one libuv loop, one thread. Every handler is a callback of the
loop and runs to its end, so a callback is atomic; what interleaves is the order
of callbacks, the peers, the children, and librdkafka's own threads.

| Component | Source | State | Operations | Hard behaviour | What makes it correct |
|---|---|---|---|---|---|
| Configuration | `core/fs_conf.c`, `fs_run.h`, `fs_mod.[ch]`, `fs_cmd.h` | stack of open blocks, `run->ctx`, contexts stored per module | `fs_conf_handle`, `fs_gmod_inited` | handlers share names, pass statements on, nest; a pointer into an array that moves | one handler per statement, blocks paired with contexts, only completed contexts start |
| Tokenizer | `core/fs_conf.c:131-335`, `fs_file.*`, `fs_buf.*` | position in the buffer, quote flags, the words so far | `fs_conf_next_token` | refills while a token is open | tokens of a file do not depend on where it was cut |
| HTTP module | `mod/fs_mod_http.[ch]` | per connection a `fs_mod_http_req_t`, its `uv_tcp_t` and one `uv_write_t` | accept, read, six parser callbacks, write and close callbacks | keep-alive, pipelining, reads that cut anywhere, the peer leaving at any time | one answer, closed and freed once, own URL and body |
| HTTP kafka route | `mod/http/kafka.c` | `fs_mod_http_kafka_value_t`, librdkafka handles | `init/body/done/release_cb`, `publish` | every library call may fail; the broker's thread | one answer that tells the truth, nothing left allocated |
| HTTP proxy route | `mod/http/proxy.c`, `core/fs_var.c` | the parts of `pass_path`, rewritten path | `pass_path`, `fs_var_parse`, the same callbacks | buffers one byte short, groups that did not match, bytes behind a word (nothing is sent: the code has a TODO there) | the path is the one configured |
| Kafka listener | `mod/fs_mod_kafka_listener.c` | consumer queue, event pipe, per message a job with a child, a pipe and a write | `poll_cb` and three callbacks | queue filled by another thread, wakeups, children that exit at any time | no lost wakeup, memory alive while used, the right script |
| Timer | `mod/fs_mod_timer.c` | timers, one process handle | timer callback | overlapping children | the handle is reused only after its child was reported |
| Version | `mod/fs_mod_version.c` | a banner | | | |
| Program | `core/folksong.c`, `fs_run.c`, `fs_uv.c` | `conf.valid`, the loop | `main`, `fs_run` | a flag nothing writes, calls whose failure is ignored | runs only what was read without error, ends when nothing is left |
| Containers | `fs_arr.*`, `fs_queue.h`, `fs_buf.*`, `fs_str.h`, `fs_pool.*` | | | moving arrays, sizes off by one | |

How they interact: the configuration calls the modules' command handlers, and
`init_mod` / `init_mod_completed` / `inited`. The http module calls its routes
through five function pointers (`match`, `init`, `body`, `done`, `release`).
`done_cb` of a kafka route calls librdkafka and answers through
`fs_mod_http_response`. The listener's threads tell the loop about messages
through a pipe. Children get a message on their standard input.

## 2. The modules

| Module | Models | About |
|---|---|---|
| `HttpExchange` | nothing: an abstract specification | what the http module promises for each connection |
| `FsHttp` | `fs_mod_http.c`, the route callbacks as it sees them | the life of connections; refines `HttpExchange` |
| `FsHttpHeaders` | `fs_mod_http.c:247-297, 343-355` | collecting names and values from pieces |
| `FsHttpKafka` | `http/kafka.c:280-498` | publishing one request |
| `FsKafkaListener` | `fs_mod_kafka_listener.c:162-183, 283-412` | the consumer and its children |
| `HttpRoute` | nothing: an abstract specification | what a kafka route promises for a request; `FsHttpKafka` refines it |
| `FsToken` | `fs_conf.c:23-335`, `fs_file.h:71-89`, `fs_file.c`, `fs_buf.c` | reading a text byte by byte |
| `FsProxy` (on `FsToken`) | `http/proxy.c:118-283`, `fs_var.c` | taking a path apart and putting it together for a request |
| `FsConf` | `fs_conf.c:337-467`, the command handlers of all modules, `fs_gmod_inited` | reading a configuration, statement by statement |
| `FsProgram` (on `FsConf`) | `folksong.c`, `fs_conf.h:46-66`, `fs_uv.c`, `fs_mod_timer.c:68-96, 225-243` | the program from its arguments to its end |
| `MCFsKafkaListener`, `MCFsProxy`, `MCFsConf`, `MCFsProgram` | | values for the constants of these |
| `FsHttp_proofs`, `FsHttpHeaders_proofs`, `FsHttpKafka_proofs`, `FsKafkaListener_proofs`, `FsConf_proofs`, `FsProgram_proofs` (on `FsConf_proofs`), `FsProxy_proofs` | | the proofs about these modules |
| `Recursion` | | lemmas the proofs share: sets of numbers have a least element, induction over numbers, recursive functions exist |

### Conventions

* **Undefined behaviour.** Where the C code loses defined behaviour (a write
  behind a buffer, a use of freed or unwritten memory, a handle given to libuv
  twice), the action chooses between going on unharmed and setting `fault`; if
  libuv or the allocator certainly fails, it sets it outright. A fault stops the
  model. Properties say under which circumstances a fault is possible at all.
* **Constants that restrict actors** (`Eager`, `Splitting`, `MayFail`, `Hasty`,
  `JunkFields`, `JunkArgs`) say which peers pipeline, whose URLs come in pieces,
  which calls may fail, which children exit early and which memory holds junk.
  They make a property about well-behaved actors checkable beside one about all
  of them.
* **History variables** (`peer`, `published`, `sent`, `cut`, `torn`, `handed`,
  `argument`, `request`, `late`) are only read by properties, with one exception:
  `sent` also tells the environment of `FsHttpHeaders` how far it has come.

### FsHttp

State: `tcp[c]` is libuv's side of a connection (open, closing, closed; reading;
a write queued), `req[c]` the fields of `fs_mod_http_req_t`: `phase` is where
http_parser is, `url` and `body` are sets of the numbers of the requests whose
bytes are in `url_buf` and in the route's value, `values` counts route values
allocated and not freed. Actions and code:

| Action | Code |
|---|---|
| `ConnectionCb`, `AcceptFails` | `fs_mod_http_connection_cb` |
| `OnUrl`, `OnHeadersComplete`, `OnBody`, `OnMessageComplete` | the parser callbacks, with the route's callback each calls |
| `ReadedEof`, `ReadedBad`, `ReadedNothing`, `ReadedError` | `fs_mod_http_req_readed_cb`: end of stream; refused bytes; nread = 0; other errors |
| `ResWritedCb` | `fs_mod_http_res_writed_cb` |
| `ReqRelease` | `fs_mod_http_req_release` |

A read callback can deliver several parser events. Each event is an action, and
a read carrying several is the behaviour in which they follow one another; the
model also has behaviours in which another connection's callback runs in
between, which the code reaches when the bytes come in two reads.

### FsHttpHeaders, FsHttpKafka

`FsHttpHeaders` keeps for every name and value the text and the size of its
buffer (`Grown` is the size rule of `fs_mod_http_buf_append`, inverted test
included); `sent` records the pieces http_parser has delivered of each, with their
bytes, and is what the buffers are compared with. `FsHttpKafka` has a program counter over the calls of `done_cb` and
`publish`; each call fails or succeeds; `Deliver` is librdkafka's thread. Its
`given` record holds what decides the course: substrings of the path, fields of
the route, headers, body. A route whose pattern pcre could not compile is among
the inputs of both: it matches every request (`FsHttp` lets any routes match) and
has no substrings ("absent").

`HttpRoute` is what `FsHttp` relies on when it treats `done_cb` as one step that
answers with one code and, with 200, has published: one answer, 200 only behind a
message, 400 and 500 only without one, the end of the callback only behind an
answer. `FsHttpKafka` implements it with `answers <- responses` and
`ended <- Finished`; a `Drop` is the destruction of a producer that still queues.

### FsKafkaListener

`queue` and `bytes` are shared with librdkafka's threads: a message put on an
empty queue adds a byte to the pipe. `pc` is "draining" inside `poll_cb`, one
action per message taken, so that messages arrive between any two. A job has the
states of its memory, child, write, pipe and message. Topic names are sequences,
because `fs_str_set` and `fs_str_cmp` make their lengths matter.

`Execs` has the arguments of each block's `exec`: texts, `$kafka_topic` or
`$kafka_key`. `cmd_exec` makes room for them and a terminator, writes the
terminator one slot too far and leaves the slot before it unwritten. `JunkArgs`
are the blocks whose slot holds something else than a null pointer; `Vector` is
what `poll_cb` then finds. It walks the vector to its end for every message: in
junk it may fault, as it may when the vector does not fit in the job's array
(`MaxArgs`, 64 in the code) or the key not in its own (`LongKeys`); else the
child is given the vector, junk included. That the terminator
lies outside of the array is a fault `FsConf` has where it is written; here it is
where it was written.

### FsConf

A statement is a kind (opens a block, parameter, closes), a name and whether its
arguments are right. `Result` is what a handler returns (accept, refuse, pass);
`Takers` are the handlers of a statement that do not pass it on. `stack` is
`run->st_mod`, with the slot of `run->ctx` each block points to, and the
generation of the array it points into; `slots` is that array, which moves when a
block is pushed to it full. What `exec` writes behind its vector of arguments is
the fault "args", in the listener and in the timer; what the unwritten slot of
the vector does is in `FsKafkaListener`; a timer's child may fail to start for it
(`TimerCb`). The order of `global_mods` is not in the repository; `FsConf` lets
any handler that accepts take the statement, and `HandlersExclusive` shows that
there is at most one.

### FsToken, FsProxy

`TakeChar` is one round of the loop in `fs_conf_next_token`: `lex` holds its
flags, of which five exclude one another and are one `mode`; `start` is
`token_start` as an offset in the buffer; a word that ends is copied (`Copied`
resolves backslashes once more, as the code does) out of `text`, at `base`, the
place in the text where the buffer was last filled. `Refill` is `fs_file_read`,
whose result is a variable nothing writes after a good read: it goes on or ends
with an error. After a refill `start` still counts from the old buffer; `torn`
marks the word that was open then. `EndOfFile` may come after any byte;
`EndOfCmdline` loses the last one (`fs_str_set`). `HandOver` gives a statement to
`fs_conf_handle`; which statement is right is the business of `FsConf`, so here
any may be refused. `Tokenized` is the reference: the same text, read as a whole.

`FsProxy` takes the statements whose name is that of `pass_path`: `VarParse` reads
the whole buffer of the argument, with the terminator and what resolving
backslashes left unwritten (`Junk`). `InitCb` puts the path together for a
request, given as the texts its groups matched; what the code would do to memory
is collected in `faults` on the way. `Substituted` is the reference.

### FsProgram

`main` says where `main` is. `ReadFile` is a step of `FsConf`, and
`FileFails` a file that does not open or a read that is called an error. After a
refusal (`Refused`) `conf.valid` is read unwritten: `main` returns, or runs an
empty loop. `Start` is `fs_gmod_inited`
together with what it does to libuv: timers started with the times configured
(`timers`) as libuv sees them (`clock`), and any of the addresses listened on,
because the result of `uv_listen` is ignored. In the loop, `TimerCb` rearms or
stops the timer and spawns; `child` is the one process handle; `ChildReported` is
libuv's poll; `Tick` passes time, and notes in `late` that something was due then.
There is no clock that grows: a timer and a child have the time they have left.

## 3. The runs

| Run | What it shows |
|---|---|
| `http` | the safety properties and closing of two connections, pipelining or not, and the inductive invariant of the proofs (220,560 states) |
| `http_exchange` | `FsHttp` implements `HttpExchange`, liveness included, when peers wait for their answer |
| `http_headers` | names and values survive any cutting, which cuts overrun a buffer (132,441) |
| `http_kafka` | every combination of inputs and failures of one publication: it implements `HttpRoute`, takes topics by priority, destroys its handles, ends (44,712) |
| `listener` | the consumer with every failure: safety, and that messages are taken and inputs closed (122,047) |
| `pass_path` | texts of every kind read across refills: a refill harms only the words open then, faults need such a word, every statement can be written so that it is read back; well-formed paths are sent on as configured, memory is misused only for paths with variables (532,857) |
| `conf` | the program, for all configurations of six statements and some longer ones: one handler per statement, blocks and contexts paired, only what was accepted starts, the blocks that look at a moved array are those whose slot it moved, the process handle is reused only when children overlap, a program with nothing to wait for ends (331,590) |
| `http_own_url`, `http_kafka_ack`, `listener_error`, `listener_names`, `conf_producer_sample` | the code does not do what a document says (section 6) |

**Bounds and why they are enough.**
`http`: connections interact through `fault` alone, so two (one that pipelines,
one that splits) show every kind of interference; two requests are what
reusing fields, writer and buffer takes; two routes, one of each kind, let a
second request go from kafka to proxy, back, or to neither.
`http_headers`: two headers of up to three bytes, in pieces of 0 to 2 bytes: a
third piece meets a buffer that was already enlarged or overrun.
`http_kafka` has no bound: one request, all inputs.
`listener`: three messages are one being taken, one behind it and one that
arrives meanwhile. Four names are three listened to and one not, told apart by
more than their last character. With a job's array of five slots (`MaxArgs`) the
first block has arguments that fit, one of them the key, and the third as many as
there are slots, which leaves none for the terminator; the vector of the second
ends in junk. `listener_error` has the block, the topic and the `exec` of README's
sample, and 64 slots.
`conf`: six statements open and close three blocks, which is the nesting the
language has (module, subblock, and one too many), `Capacity` is 2 where the
code has 8 so that the array moves within the bound; `Statements` has every
block and at least one parameter per kind of check. Two timers, or a timer with
a server or a listener, take more than six statements and are given as scripts:
two one-shot timers, a one-shot and a repeating one, one with both times, one
with each of the others. Times of one and two ticks and children of one tick or
for ever (`MaxRun`) show a child shorter than a period, as long, and longer.
`Argvs` has a vector for each way out of `main`'s loop.
`pass_path`: ten families of texts, of which each goes on freely for up to six
characters behind its beginning: quotes and backslashes; blocks, comments and
dollars; single quotes; the command line; and arguments of `pass_path` with
literal parts, numbered and named variables, broken ones, backslashes, quotes, and
a repeated command. A buffer of three bytes (4096 in the code) is refilled within
every text, so that words lie before, across and behind a cut; one of thirty is
not refilled. A pattern with two groups, one named, and requests that match both,
the first, the second, or none. A byte nothing has written is "x", an opening
brace or a dollar. Names of up to two characters fit where the code has room for 127.

CHECK_DEADLOCK is off where a bounded number of connections, messages or
statements comes to its end.

**Fairness.** `FsHttp`: weak fairness of the write and close callbacks only:
libuv reports every write and close it was given; peers promise nothing.
`FsHttpKafka`: the callback's calls return (`rd_kafka_flush` has a timeout);
no fairness for the broker. `FsKafkaListener`: the loop polls the pipe and takes
messages, writes to children are reported (a child reads its input or exits);
nothing is assumed of arrivals or exits. `FsProgram`: time passes, libuv runs a
timer that is due and leaves a loop with nothing alive; nothing is assumed of
children, not even that they end.

## 4. The proofs

A theorem holds for every value of the constants that meets the module's named
assumption (`HttpAssumption`, `HeadersAssumption`, ...), which TLC evaluates in
the runs. Every component has an inductive invariant: each proof module defines
it first, names its conjuncts, has a lemma for each action, and in it a step for
each conjunct the action can disturb. Before it was proved each invariant was
also checked by TLC on the instance of the component's run (the run `http` still
does).

| Module | Theorem | Statement |
|---|---|---|
| `FsHttp` | `SpecInv` | `Spec => []Inv` |
| | `TypeCorrect` | `Spec => []TypeOK` |
| | `FaultsAreProvoked` | `Spec => []FaultOnlyIfProvoked` |
| | `OneAnswer` | `Spec => []AnsweredOnce` |
| | `NothingLeftBehind` | `Spec => []ValuesReleased` |
| | `OwnBodyPublished` | `Spec => []PublishesOwnBody` |
| | `NoFaults` | with `Eager = {}` and `Splitting = {}`: `Spec => []Running` |
| | `KeepsToExchange` | with such peers: `Exchange!Init` and `[][Exchange!Next]` |
| `FsHttpHeaders` | `TypeCorrect` | `Spec => []TypeOK` |
| | `HeadersArrive` | `Spec => []HeadersAsSent` |
| | `OverrunsAreSplits` | `Spec => []OverrunOnlyIfSplit` |
| `FsHttpKafka` | `TypeCorrect` | `Spec => []TypeOK` |
| | `TopicChosenByPriority` | `Spec => []TopicByPriority` |
| | `HandlesAreDestroyed` | `Spec => []HandlesDestroyed` |
| | `LeaksAreConfined` | `Spec => []LeaksOnlyOnFailure` |
| | `KeepsToRoute` | `Spec => ImplementsRoute` |
| `FsKafkaListener` | `TypeCorrect` | `Spec => []TypeOK` |
| | `NoWakeupLost` | `Spec => []WakeupPending` |
| | `PayloadsLive` | `Spec => []PayloadAlive` |
| | `FaultsHaveCauses` | `Spec => []FaultHasCause` |
| | `NoMessageLost` | `Spec => []HeldUntilWritten` |
| | `RightScripts` | with `NamesToldApart`: `Spec => []RunsBlockOfItsTopic` |
| `FsConf` | `HandlersAreExclusive` | `Spec => []HandlersExclusive` |
| | `TypeCorrect` | `Spec => []TypeOK` |
| | `SubblocksShare` | `Spec => []SubblocksShareContext` |
| | `CompletedStays` | `Spec => []CompletedIsFinal` |
| | `MovedSlotsAreStale` | `Spec => []StaleOnlyIfMoved` |
| | `OnlyCompleteStarts` | `Spec => []StartedIsComplete` |
| `FsProgram` | `ProgramTypeCorrect` | `ProgramSpec => []ProgramTypeOK` |
| | `AcceptedStarts` | `ProgramSpec => []OnlyAcceptedStarts` |
| | `HandleReusedOnOverlap` | `ProgramSpec => []ReusedOnlyIfOverlap` |
| | `ProgramReadsRightly` | the four properties of `FsConf` above, of `ProgramSpec` |
| `FsProxy`, `FsToken` | `TypeCorrect` | `Spec => []TypeOK` |
| | `TornWordsOnly` | `Spec => []TokenFaultOnlyIfTorn` |
| | `CutsHarmOpenWordsOnly` | `Spec => []CutsHarmOnlyOpenWords` |
| | `HandedExpressible` | `Spec => []Expressible` |
| | `WellFormedAsConfigured` | `Spec => []PathAsConfigured` |
| | `FaultsOfVariables` | `Spec => []PathFaultOnlyByVariable` |

Where a theorem has a hypothesis, it says which actors behave. `NoFaults` and
`KeepsToExchange` speak of peers that wait for their answers, `RightScripts` of
topics whose names the code's comparison, one character short, can tell apart:
the run `listener` has such names, `listener_names` shows what happens with
others.

### The arguments

**`FsHttp`.** None of the properties is inductive. That the writer is not
reused, say, needs that a connection answered and still open has its write
queued, and that only a marked peer can be heard on it. `Inv` adds to the
properties the relations between fields of one connection that the code relies
on without saying so: an unaccepted connection is blank (`Unused`); a matched
route has its value until the release (`ValueOfRoute`, why `values` stays above
zero); an answer being written means the connection is open, or was closed by an
early peer, and an open answered one has its answer being written
(`AnswerClosing`); the URL buffer is in use between two requests only after an
answer (`UrlUsed`); each request allocates at most one value (`ValuesCounted`)
and leaves no bytes for an earlier one (`BodiesSent`); marks come only from the
peers allowed them
(`PeersKeepToConstants`). `OthersKeep` and `HistoryKept` deal with the other
connections and with the histories. Routing is proved to pick the least matching
route (`FirstMatchIsFirst`, with `LeastOf`), so that `CHOOSE` has something to
choose.

**`FsHttpHeaders`.** `Collected` relates a buffer to the pieces delivered for
it: it holds their bytes; after a single piece it has room for exactly one byte
more; and when it is full a second piece was not empty. For names the converse
holds too (`NameInv`), because a name has no empty piece but its last: once
full, never enlarged again. `Aligned` tells from `p_state` how many values there
are, so that the callbacks push when a header begins and not otherwise.

**`FsHttpKafka`.** The invariant says for each place of the program counter
which handles, configurations and substrings exist (`HandlesByCall`,
`ConfigurationsGiven`, `SubstringsByCall`), whether there is a message
(`MessageTold`), and whether the peer was answered (`AnsweredOnTheWay`). Each
step is then one of `HttpRoute` or a stutter, which with the initial states is
all of `ImplementsRoute`, as `HttpRoute` has no fairness.

**`FsKafkaListener`.** The queue is the end of the list of arrivals, in order
(`QueueInOrder`); a message outside of it has a job (`JobWhenTaken`); the pipe
is closed behind the write, and the message held until then
(`WriteBeforeClose`); a freed job's child has exited, before its input was
closed only if it is hasty (`FreedAtExit`). `NoMessageLost` follows from the
first two by arithmetic. `FaultsHaveCauses` adds that a message whose arguments
were misused is one whose block has a vector with junk, too long for the array, or
with a key that is too long (`Misfit`).

**`FsConf`.** The invariant ties the stack to the contexts: two blocks that are
open share a context only as a block and its own subblock (`OwnContexts`), a
context that is not completed is that of an open block (`ContextInv`), each
module's list holds exactly its contexts in order (`StoredAsMade`), and
`run->ctx` keeps its first capacity until it was full, and is more than half full
from then on (`SlotsInv`). The slots of the blocks opened before the last move are
in its lower half and those of the blocks opened since in its upper half
(`SlotsPlaced`), which tells exactly the blocks that look at freed memory. That at most one
handler takes a statement (`OneTaker`) is a proof over the table of commands:
two commands of one name (`SharedNames`) ask for blocks that exclude one
another.

**`FsProgram`.** `ProgramInv` contains `ConfInv`, as the steps of the program
either are those of `FsConf` or leave its variables alone. The reuse of the
process handle rests on `ChildInv`: while the loop is never late, a child that
runs shorter than its timer's period has less time left than the timer has, so
it is reported before the timer is due.

**`FsToken` and `FsProxy`.** What the code does here is done by loops over the
bytes of a text, in the model by recursive functions (`Copied`, `Tokenized`,
`VarParse`, `NextPath`, ...), and the properties are about what they return for
every text. The induction theorems of the library take operators, which the
provers cannot instantiate. `Recursion` states them with sets and functions in
place of predicates and operators: `LeastOf` gives `Induction` over the *set* of
the numbers that have a property, and from it that a recursion forwards
(`Forwards`) or backwards (`Backwards`) has a function that satisfies its
equations, so that the `CHOOSE` behind each recursive definition is one. Every
recursion of the model then has a lemma with its equations and the set its
values lie in (`CopyRecursion`, `AfterRecursion`, `ParseRecursion`,
`PathRecursion`, `SubstitutedRecursion`, `SpellRecursion`, ...).

* `TornWordsOnly`: an open word that no refill has torn began in the part of the
  buffer that was read (`OpenWordBegan`), so its copy is not shorter than a byte;
  before the first word has ended no statement has any (`NoWordsYet`).
* `TypeCorrect`: `TypeInv` adds to `TypeOK` that no part of a path is empty,
  without which `fs_mod_http_proxy_set_next_path` would look at the first byte of
  nothing.
* `CutsHarmOpenWordsOnly` is a simulation. `FollowInv` says that behind every
  byte the flags are those of the reference that reads the text as a whole, that
  a word that is open and not torn begins where it does there, and that what was
  returned so far agrees. `SameBeginning` lets the reference be continued
  byte by byte.
* `WellFormedAsConfigured`: `ArgumentInv` connects the states of the route with
  the functions: the parts are what some bytes of the argument are taken apart to
  (`TakenApart`), and the url is what they make of the request (`PutTogether`).
  `WellPutTogether` is then about the functions alone. Its induction goes over
  the bytes of the argument: outside of variables the parts make of the request
  what the characters so far stand for (`Outside`); inside one, the last part is
  what of the variable has been read, and the others make what stands before it
  (`Inside`). A character belongs to one variable at most (`OneVariable`), which
  makes the meaning of a closing brace well-defined. What lies behind the
  terminator only adds to the parts (`Kept`), so that the path still begins with
  what was meant and a Nul.
* `FaultsOfVariables`: without a dollar there is at most one part and it is
  literal (`NoVariable`), so nothing is enlarged. The list of a request's groups
  is left only when it is shorter than the pattern's groups (`WildOnlyIfUnused`),
  whatever the argument.
* `HandedExpressible`: a character as `Shown` is read without leaving the quotes
  (`ShownRead`) and copied to that character (`ShownCopied`); so, by induction
  over the characters, the words and the statements, a word, a statement and a
  list of them are read as what they are (`SpeltRead`, `StatementRead`,
  `WrittenRead`). It also needs that a closing brace hands over no words
  (`ClosedInv`).

### Only model-checked

All liveness (`AnsweredIsClosed`, `EndedIsClosed`, `Terminates`,
`EveryMessageTaken`, `InputIsClosed`, `EndsByItself`, and the fairness part of
`ImplementsExchange`, whose safety part is `KeepsToExchange`): liveness under
fairness and ENABLED are beyond the prover.

## 5. Mutants

Next to each mapped definition that a plausible bug would change stands its
mutated form (`ResponseUnwatched`, `ContinuesOnce`, `PushedEarly`, ...), which
nothing uses: with it in place of the definition the property named in
PROJECT.json fails.

## 6. Where the code differs from its documents

| Run | Code | Document |
|---|---|---|
| `http_own_url` | a second request on a connection is routed by both URLs joined (`fs_mod_http.c:240`) | `README.md:68-69` |
| `http_kafka_ack` | 200 is answered for a message that flush did not deliver and destroy drops (`kafka.c:479`) | `README.md:60-61` |
| `listener_error` | an error event leaves the messages behind it untaken, with no wakeup to come (`fs_mod_kafka_listener.c:302`) | `README.md:18` |
| `listener_names` | the last character of a topic name does not count (`fs_mod_kafka_listener.c:306, 313`, `fs_str.h:65`) | `README.md:30-36` |
| `conf_producer_sample` | `key_param` is checked against memory nothing wrote (`kafka.c:125-126, 212`) | `README.md:82` |

The timer sample of `README.md:46-55` is refused as well: it uses a command
`echo`, which no module has (`fs_mod_timer.c:34-38`). And every `exec`, that of
`README.md:36` included, leaves an unwritten slot in front of a terminator that
lies behind its array (`fs_mod_kafka_listener.c:261-272`): if the process survives
the junk in it, the child is given one argument more than the statement has.

## 7. Not modelled, and the plan

Done, in this order, the most important behaviour first: connections
(`FsHttp`, `HttpExchange`), their proofs, headers, publication, consumer,
configuration; then the tokenizer and the path of a proxy, the program with its
timers, and `HttpRoute`.

Every safety property the runs check is proved. What is left of them is the
liveness named in section 4, which stays with TLC.

Not modelled:

* `fs_mod_timer_parse_time`: a time is a number of ticks. It converts one
  argument; that a large one overflows is seen at the line and listed as a hazard.
* The links of `fs_queue.h`: the queue is used as a stack, by one caller, and is
  the sequence `stack` in `FsConf`.
* What the listener's and the http module's callbacks do in a context whose loop
  was never set (`FsConf` says which contexts these are).
* An `exec` without a word behind it: its file is what an earlier statement left
  in `conf->tokens`.
* Line numbers, which only error messages use.

Left out for good: logging, formatting, the file system, librdkafka, http_parser,
pcre and libuv themselves (modelled from how the code uses them), and
out-of-memory paths except the one the code handles.
