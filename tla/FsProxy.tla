------------------------------ MODULE FsProxy ------------------------------
(***************************************************************************)
(* The path a proxy route sends a request on to: the argument of pass_path *)
(* is taken apart by fs_var_parse (fs_var.c) when the configuration is     *)
(* read, and put together for each request by fs_mod_http_proxy_set_next_  *)
(* path (proxy.c), with ${path_N} replaced by what the N-th group of the   *)
(* route's regular expression has matched, ${path_NAME} by a named one.    *)
(*                                                                         *)
(* The statements come from FsToken: the argument is what the tokenizer    *)
(* has made of a text, with the bytes that lie behind it in its buffer.    *)
(***************************************************************************)
EXTENDS FsToken

CONSTANTS
  Junk,        \* what a byte of memory that was never written may be
  Captures,    \* the groups of the regular expression of the route
  GroupNames,  \* the numbers of the named ones, by their names
  Requests,    \* what a request's groups matched: see ProxyAssumption
  NameRoom     \* the longest name there is room for; 128 in the code

Digits == {"1", "2"}
Prefix == <<"$", "{", "p">>
Nul == "nul"
Bytes == Chars \cup Digits \cup {Nul, "n"}

(* A request is the list of its groups' texts, from that of the whole      *)
(* match to that of the last group that took part.  A text ends where it   *)
(* has a Nul.                                                              *)
ASSUME ProxyAssumption ==
  /\ Digits \cup {"p"} \subseteq Chars /\ Nul \notin Chars
  /\ Junk \subseteq Bytes
  /\ Captures \in Nat
  /\ \A name \in DOMAIN GroupNames : GroupNames[name] \in 1 .. Captures
  /\ Requests # {}
  /\ \A r \in Requests : r \in Seq(Seq(Bytes \ {Nul})) /\ Len(r) \in 1 .. Captures + 1
  /\ NameRoom \in Nat

VARIABLES
  phase,      \* how far the route has come
  argument,   \* the word that pass_path was given (history)
  parts,      \* proxy->pass_path
  request,    \* the request being served (history)
  url,        \* next->url: its bytes, and whether there is a buffer
  pathfault   \* "none", or why the process has lost defined behaviour

proxyVars == <<phase, argument, parts, request, url, pathfault>>
vars == <<tokenVars, proxyVars>>

NoWord == [chars |-> <<>>, size |-> 0, torn |-> FALSE]
NoUrl == [chars |-> <<>>, allocated |-> FALSE]

TypeOK ==
  /\ TokenTypeOK
  /\ phase \in {"unset", "refused", "accepted", "served"}
  /\ argument \in Word
  /\ parts \in Seq(Seq(Bytes))
  /\ request \in Requests \cup {<<>>}
  /\ url \in [chars : Seq(Bytes), allocated : BOOLEAN]
  /\ pathfault \in {"none", "short", "size", "wild", "name"}

Init ==
  /\ TokenInit
  /\ phase = "unset"
  /\ argument = NoWord
  /\ parts = <<>>
  /\ request = <<>>
  /\ url = NoUrl
  /\ pathfault = "none"

-----------------------------------------------------------------------------
(* The bytes of a word as fs_var_parse reads them: all of its buffer, with *)
(* the terminator and what resolving backslashes has left unwritten.       *)
BytesOf(w) ==
  IF w.size = 0 THEN {<<>>}
  ELSE {w.chars \o <<Nul>> \o junk :
          junk \in [1 .. w.size - Len(w.chars) - 1 -> Junk]}

(* fs_var_parse.  in says that a part is being written, variable that it   *)
(* began with $ and has not ended.                                         *)
NoParts == [parts |-> <<>>, in |-> FALSE, variable |-> FALSE, ok |-> TRUE]

PartStarted(v, c) ==
  [v EXCEPT !.parts = Append(@, <<c>>), !.in = TRUE]

PartContinued(v, c) ==
  IF v.in THEN [v EXCEPT !.parts[Len(v.parts)] = Append(@, c)]
  ELSE PartStarted(v, c)

Parsed(v, c) ==
  CASE ~v.ok -> v
    [] v.ok /\ c = "$" -> [PartStarted(v, c) EXCEPT !.variable = TRUE]
    [] v.ok /\ c \in {"{", "}"} /\ ~v.variable -> [v EXCEPT !.ok = FALSE]
    [] v.ok /\ c = "}" /\ v.variable ->
         [PartContinued(v, c) EXCEPT !.variable = FALSE, !.in = FALSE]
    [] OTHER -> PartContinued(v, c)

VarParse(bytes) ==
  LET after[n \in 0 .. Len(bytes)] ==
        IF n = 0 THEN NoParts ELSE Parsed(after[n - 1], bytes[n])
  IN after[Len(bytes)]

(* The command pass_path, here the name n.  Names are compared over the    *)
(* length of the command's.                                                *)
IsPassPath(s) ==
  s.kind = "param" /\ s.words # <<>> /\ s.words[1].chars # <<>>
    /\ s.words[1].chars[1] = "n"

(* A refused argument leaves the parts it had been taken apart to.         *)
PassPath(s) ==
  /\ IsPassPath(s)
  /\ Len(s.words) = 2 /\ parts = <<>>
  /\ HandOver(s)
  /\ argument' = s.words[2]
  /\ \E bytes \in BytesOf(s.words[2]) :
       /\ parts' = VarParse(bytes).parts
       /\ IF VarParse(bytes).ok
          THEN phase' = "accepted" /\ UNCHANGED result
          ELSE phase' = "refused" /\ result' = "error"
  /\ UNCHANGED <<request, url, pathfault>>

PassPathRefuses(s) ==
  /\ IsPassPath(s)
  /\ Len(s.words) # 2 \/ parts # <<>>
  /\ HandleRefuses(s)
  /\ UNCHANGED proxyVars

-----------------------------------------------------------------------------
(* Putting the path together.  A text of bytes ends at its first Nul for   *)
(* the functions that take a string.                                       *)
String(bytes) ==
  LET ends == {i \in 1 .. Len(bytes) : bytes[i] = Nul}
  IN IF ends = {} THEN bytes
     ELSE SubSeq(bytes, 1, (CHOOSE i \in ends : \A j \in ends : i <= j) - 1)

Number(name) ==
  LET value[n \in 0 .. Len(name)] ==
        IF n = 0 THEN 0
        ELSE 10 * value[n - 1] + (IF name[n] = "1" THEN 1 ELSE 2)
  IN value[Len(name)]

IsNumber(name) == \A i \in 1 .. Len(name) : name[i] \in Digits

(* pcre: the list of a request's texts is followed by NULL, and that by    *)
(* bytes that are no pointers; the texts of named groups are looked up.    *)
Listed(n, r) ==
  IF n > Captures \/ n >= Len(r) THEN <<>> ELSE r[n + 1]

NamedText(name, r) ==
  IF name \in DOMAIN GroupNames THEN Listed(GroupNames[name], r) ELSE <<>>

TextOf(name, r) == IF IsNumber(name) THEN Listed(Number(name), r)
                   ELSE NamedText(name, r)

Wild(name, r) ==
  IsNumber(name) /\ Number(name) \in Len(r) + 1 .. Captures

(* A buffer that is enlarged for a literal part has no room for the        *)
(* terminator written behind it.                                           *)
LiteralUnterminated(u, part) ==
  [u EXCEPT !.chars = @ \o part, !.allocated = TRUE,
            !.faults = @ \cup {"short"}]

Literal(u, part) ==
  [u EXCEPT !.chars = @ \o part, !.allocated = TRUE,
            !.faults = IF u.allocated THEN @ \cup {"short"} ELSE @]

(* The prefix is compared over the length of the shorter text.  A variable *)
(* without a name or an end makes the size of its name wrap around.        *)
IsPathVariable(part) ==
  LET n == IF Len(part) < Len(Prefix) THEN Len(part) ELSE Len(Prefix)
  IN SubSeq(part, 1, n) = SubSeq(Prefix, 1, n)

NameFromPrefix(part) == SubSeq(part, Len(Prefix), Len(part) - 1)

Name(part) == SubSeq(part, Len(Prefix) + 1, Len(part) - 1)

NameFaults(part, r) ==
  (IF Len(Name(part)) >= NameRoom THEN {"name"} ELSE {})
    \cup (IF Wild(String(Name(part)), r) THEN {"wild"} ELSE {})

VariableCompiled(u, part, r) ==
  LET value == TextOf(String(Name(part)), r)
  IN [u EXCEPT !.chars = @ \o value,
               !.allocated = @ \/ value # <<>>,
               !.faults = @ \cup NameFaults(part, r)]

Variable(u, part, r) ==
  CASE ~IsPathVariable(part) -> u
    [] IsPathVariable(part) /\ Len(part) <= Len(Prefix) ->
         [u EXCEPT !.dead = TRUE]
    [] IsPathVariable(part) /\ Len(part) > Len(Prefix) ->
         VariableCompiled(u, part, r)

Extended(u, part, r) ==
  IF u.dead THEN u
  ELSE IF part[1] = "$" THEN Variable(u, part, r) ELSE Literal(u, part)

NoPath == [chars |-> <<>>, allocated |-> FALSE, faults |-> {}, dead |-> FALSE]

NextPath(r) ==
  LET after[n \in 0 .. Len(parts)] ==
        IF n = 0 THEN NoPath
        ELSE Extended(after[n - 1], parts[n], r)
  IN after[Len(parts)]

(* fs_mod_http_proxy_init_cb, for a request that matches the route.        *)
InitCb(r) ==
  /\ phase = "accepted" /\ result = "ok" /\ lexfault = "none"
  /\ LET next == NextPath(r)
     IN /\ url' = [chars |-> next.chars, allocated |-> next.allocated]
        /\ pathfault' \in next.faults \cup {IF next.dead THEN "size" ELSE "none"}
  /\ request' = r
  /\ phase' = "served"
  /\ UNCHANGED <<tokenVars, argument, parts>>

ReleaseCb ==
  /\ phase = "served" /\ pathfault = "none"
  /\ phase' = "accepted"
  /\ url' = NoUrl
  /\ request' = <<>>
  /\ UNCHANGED <<tokenVars, argument, parts, pathfault>>

Next ==
  \/ (Refill \/ EndOfFile \/ EndOfCmdline) /\ UNCHANGED proxyVars
  \/ \E c \in Chars : TakeChar(c) /\ UNCHANGED proxyVars
  \/ /\ ~IsPassPath(statement)
     /\ Handle(statement) \/ HandleRefuses(statement)
     /\ UNCHANGED proxyVars
  \/ PassPath(statement)
  \/ PassPathRefuses(statement)
  \/ \E r \in Requests : InitCb(r)
  \/ ReleaseCb

Spec == Init /\ [][Next]_vars

-----------------------------------------------------------------------------
(* Properties. *)

(* An argument as it is meant to be: variables ${path_...}, and outside of *)
(* them neither $ nor braces.                                              *)
Marks == {"$", "{", "}"}

VariableAt(chars, i, j) ==
  /\ i + 2 < j /\ SubSeq(chars, i, i + 2) = Prefix /\ chars[j] = "}"
  /\ \A k \in i + 3 .. j - 1 : chars[k] \notin Marks

Variables(chars, n) ==
  {v \in (1 .. n) \X (n .. Len(chars)) : VariableAt(chars, v[1], v[2])}

WellFormed(chars) ==
  \A n \in 1 .. Len(chars) : chars[n] \in Marks => Variables(chars, n) # {}

(* What a character of such an argument stands for, a closing brace for    *)
(* its variable; and what the argument does.                               *)
Meaning(chars, n, r) ==
  IF Variables(chars, n) = {} THEN <<chars[n]>>
  ELSE IF chars[n] # "}" THEN <<>>
  ELSE LET v == CHOOSE v \in Variables(chars, n) : TRUE
       IN TextOf(SubSeq(chars, v[1] + 3, v[2] - 1), r)

Substituted(chars, r) ==
  LET upto[n \in 0 .. Len(chars)] ==
        IF n = 0 THEN <<>> ELSE upto[n - 1] \o Meaning(chars, n, r)
  IN upto[Len(chars)]

(* A well-formed path is accepted, unless it was written with backslashes: *)
(* the argument is then followed by bytes nothing wrote, which may be a    *)
(* brace.  Each request is sent on to what its groups make of the path,    *)
(* whatever lies behind the end of the argument.                           *)
PathAsConfigured ==
  WellFormed(argument.chars) =>
    /\ phase = "refused" => argument.size > Len(argument.chars) + 1
    /\ phase = "served" /\ pathfault = "none" =>
         String(url.chars) = Substituted(argument.chars, request)

(* The list of groups is left only when a request has not used them all.   *)
(* When nothing but its terminator lies behind the argument, memory is     *)
(* misused only for a path with a variable, and for a well-formed one      *)
(* never by a size that wraps around.                                      *)
PathFaultOnlyByVariable ==
  pathfault # "none" =>
    /\ pathfault = "wild" => Len(request) < Captures
    /\ argument.size <= Len(argument.chars) + 1 =>
         /\ \E i \in 1 .. Len(argument.chars) : argument.chars[i] = "$"
         /\ WellFormed(argument.chars) => pathfault # "size"
=============================================================================
