------------------------------ MODULE FsToken ------------------------------
(***************************************************************************)
(* Reading the text of a configuration: fs_conf_next_token (fs_conf.c)     *)
(* takes it byte by byte from a buffer that fs_file_read refills, and      *)
(* copies each word out of that buffer when it ends; fs_conf_parse hands   *)
(* each statement on.  The text comes from a file (-f) or from the command *)
(* line (-c).                                                              *)
(*                                                                         *)
(* A byte is one of a few characters: " " stands for space, tab and CR,    *)
(* "t" for the letters with a meaning behind a backslash, "tab" for what   *)
(* they mean, "p" for the text path_, any other letter for itself.         *)
(***************************************************************************)
EXTENDS Integers, Sequences

CONSTANTS
  Texts,    \* the texts to read: see TokenAssumption
  Chars     \* the characters of words, "tab" among them

DQuote == "\""
SQuote == "'"
Escape == "\\"
Blank == {" ", "lf"}
Special == {";", "{", "}", "#", "$", DQuote, SQuote, Escape}

(* A text begins with start and goes on with any characters of symbols up  *)
(* to a length of MaxLen (a bound of the model); room is the size of the   *)
(* file's buffer, 4096 in the code.                                        *)
ASSUME TokenAssumption ==
  /\ Blank \cup Special \cup {"t", "tab"} \subseteq Chars
  /\ \A x \in Texts :
       /\ x.source \in {"file", "cmdline"}
       /\ x.start \in Seq(Chars)
       /\ x.symbols \subseteq Chars
       /\ x.length \in Nat
       /\ x.room \in Nat \ {0}

VARIABLES
  given,      \* the text being read is one of these
  text,       \* what of it has been read
  base,       \* how much of it had been when the buffer was filled
  left,       \* the bytes of the buffer that have not been taken
  lex,        \* the flags of fs_conf_next_token
  start,      \* token_start, as an offset in the buffer
  torn,       \* the buffer was refilled since token_start was set
  words,      \* conf->tokens
  named,      \* the first slot of conf->tokens has been written
  statement,  \* what fs_conf_next_token has returned
  handed,     \* the statements given to fs_conf_handle
  result,     \* what fs_conf_parse returns
  lexfault    \* "none", or why the process has lost defined behaviour

reader == <<given, text, base, left>>
tokens == <<words, named>>
tokenVars == <<reader, lex, start, torn, tokens, statement, handed, result,
               lexfault>>

-----------------------------------------------------------------------------
(* The flags sharp, vacancy, d_quote, s_quote and need_space exclude one   *)
(* another but for one pair: at most one of them is the mode.              *)
Modes == {"gap", "word", "dquote", "squote", "closed", "comment"}
Lex == [mode : Modes, quoted : BOOLEAN, variable : BOOLEAN]

Fresh == [mode |-> "gap", quoted |-> FALSE, variable |-> FALSE]

(* A word in a buffer of its own: what was copied, the size of the buffer, *)
(* and whether it had been refilled under the word.                        *)
Word == [chars : Seq(Chars), size : Nat, torn : BOOLEAN]
Kinds == {"param", "open", "close"}
Statement == [kind : Kinds, words : Seq(Word)]
None == [kind |-> "none", words |-> <<>>]

InWord(l) == l.mode \in {"word", "dquote", "squote"}

(* After $ an opening brace belongs to the word.                           *)
EndsWord(l, c) ==
  /\ InWord(l) /\ ~l.quoted
  /\ CASE l.mode = "dquote" -> c = DQuote
       [] l.mode = "squote" -> c = SQuote
       [] l.mode = "word" ->
            c \in Blank \cup {";"} \/ (c = "{" /\ ~l.variable)

StartsWord(l, c) ==
  l.mode = "gap" /\ c \notin Blank \cup {";", "{", "}", "#"}

(* A quote or a backslash in front of a word is not part of it.            *)
Before(c) == IF c \in {DQuote, SQuote, Escape} THEN 0 ELSE 1

(* The statement that ends with a character, if one does.  Inside a word,  *)
(* and directly behind a quoted one, a closing brace ends nothing.         *)
Ended(l, c) ==
  CASE l.quoted \/ l.mode \in {"comment", "dquote", "squote"} -> "none"
    [] ~l.quoted /\ l.mode \in {"gap", "closed", "word"} ->
         CASE c = ";" -> "param"
           [] c = "{" /\ (l.mode # "word" \/ ~l.variable) -> "open"
           [] c = "}" /\ l.mode = "gap" -> "close"
           [] OTHER -> "none"

-----------------------------------------------------------------------------
(* One character: the flags afterwards. *)

InGap(l, c) ==
  [mode |-> CASE c \in Blank \cup {";", "{", "}"} -> "gap"
              [] c = "#" -> "comment"
              [] c = DQuote -> "dquote"
              [] c = SQuote -> "squote"
              [] OTHER -> "word",
   quoted |-> c = Escape,
   variable |-> l.variable \/ c = "$"]

OutsideGap(l, c) ==
  IF c = "{" /\ l.variable
  THEN l
  ELSE [mode |-> IF ~EndsWord(l, c) THEN l.mode
                 ELSE IF l.mode = "word" THEN "gap" ELSE "closed",
        quoted |-> c = Escape,
        variable |-> c = "$"]

Scanned(l, c) ==
  CASE l.mode = "comment" -> IF c = "lf" THEN [l EXCEPT !.mode = "gap"] ELSE l
    [] l.mode # "comment" /\ l.quoted -> [l EXCEPT !.quoted = FALSE]
    [] l.mode = "closed" /\ ~l.quoted /\ c \in Blank ->
         [l EXCEPT !.mode = "gap"]
    [] l.mode = "gap" /\ ~l.quoted -> InGap(l, c)
    [] OTHER -> OutsideGap(l, c)

CopiedAsWritten(bytes) ==
  SubSeq(bytes, 1, Len(bytes) - 1)

(* What a backslash changes, and what of it is left when it is resolved.   *)
Escapable == {DQuote, SQuote, Escape, "t"}
Resolved(c) == IF c = "t" THEN "tab" ELSE c

(* The copying of a word, whose bytes are followed by the character that   *)
(* ended it.  Backslashes are resolved here, a second time.                *)
Copied(bytes) ==
  LET copy[i \in 1 .. Len(bytes) + 1] ==
        IF i >= Len(bytes) THEN <<>>
        ELSE IF bytes[i] = Escape /\ bytes[i + 1] \in Escapable
        THEN <<Resolved(bytes[i + 1])>> \o copy[i + 2]
        ELSE <<bytes[i]>> \o copy[i + 1]
  IN copy[1]

-----------------------------------------------------------------------------
TokenTypeOK ==
  /\ given \in Texts
  /\ text \in Seq(Chars)
  /\ base \in 0 .. Len(text)
  /\ left \in 0 .. given.room
  /\ lex \in Lex
  /\ start \in 0 .. given.room + Len(text)
  /\ torn \in BOOLEAN
  /\ words \in Seq(Word)
  /\ named \in BOOLEAN
  /\ statement \in Statement \cup {None}
  /\ handed \in Seq(Statement)
  /\ result \in {"reading", "error", "ok"}
  /\ lexfault \in {"none", "null", "overrun", "unset"}

(* The buffer of a file is empty at first; the command line's is the text. *)
TokenInit ==
  /\ given \in Texts
  /\ text = <<>>
  /\ base = 0
  /\ left = 0
  /\ lex = Fresh
  /\ start = 0
  /\ torn = FALSE
  /\ words = <<>>
  /\ named = FALSE
  /\ statement = None
  /\ handed = <<>>
  /\ result = "reading"
  /\ lexfault = "none"

Reading == result = "reading" /\ lexfault = "none" /\ statement = None

MaxLen == Len(given.start) + given.length

Symbols ==
  IF Len(text) < Len(given.start) THEN {given.start[Len(text) + 1]}
  ELSE given.symbols

(* fs_file_read.  Its result is a variable that nothing sets when all went *)
(* well, so that it may call a good read an error.                         *)
Refill ==
  /\ Reading
  /\ given.source = "file"
  /\ left = 0
  /\ Len(text) < MaxLen
  /\ base' = Len(text)
  /\ left' = given.room
  /\ torn' = (torn \/ InWord(lex))
  /\ result' \in {"reading", "error"}
  /\ UNCHANGED <<given, text, lex, start, tokens, statement, handed, lexfault>>

(* The size of a word's buffer is computed from token_start, and counts    *)
(* the terminator.  A negative one is more than there is memory, and       *)
(* nothing tests whether there was.                                        *)
CopyOutcomesUncounted(size) ==
  CASE size - 1 < 0 -> {"null"}
    [] size - 1 = 0 -> {"none", "overrun"}
    [] size - 1 > 0 -> {"none"}

CopyOutcomes(size) ==
  CASE size < 0 -> {"null"}
    [] size = 0 -> {"none", "overrun"}
    [] size > 0 -> {"none"}

TokenCopiedUnchecked(t, from, to) ==
  [chars |-> IF to > from THEN Copied(SubSeq(t, base + from + 1, base + to))
             ELSE <<>>,
   size |-> to - from,
   torn |-> torn]

TokenCopied(t, from, to) ==
  [chars |-> IF to > from THEN Copied(SubSeq(t, base + from + 1, base + to))
             ELSE <<>>,
   size |-> IF to > from THEN to - from ELSE 0,
   torn |-> torn]

TakeChar(c) ==
  LET pos == Len(text) + 1 - base
      kind == Ended(lex, c)
  IN
  /\ Reading
  /\ given.source = "file" => left > 0
  /\ Len(text) < MaxLen
  /\ c \in Symbols
  /\ text' = Append(text, c)
  /\ left' = IF left > 0 THEN left - 1 ELSE 0
  /\ lex' = IF kind = "none" THEN Scanned(lex, c) ELSE Fresh
  /\ start' = IF StartsWord(lex, c) THEN pos - Before(c) ELSE start
  /\ torn' = (torn /\ ~StartsWord(lex, c))
  /\ words' = IF EndsWord(lex, c)
              THEN Append(words, TokenCopied(text', start, pos)) ELSE words
  /\ named' = (named \/ EndsWord(lex, c))
  /\ lexfault' \in IF EndsWord(lex, c) THEN CopyOutcomes(pos - start)
                   ELSE {"none"}
  /\ statement' = IF kind = "none" THEN None
                  ELSE [kind |-> kind,
                        words |-> IF kind = "close" THEN <<>> ELSE words']
  /\ UNCHANGED <<given, base, handed, result>>

(* The end of a file is no error, and drops a statement without an end.    *)
EndOfFile ==
  /\ Reading
  /\ given.source = "file"
  /\ left = 0 \/ left < given.room
  /\ result' = "ok"
  /\ UNCHANGED <<reader, lex, start, torn, tokens, statement, handed, lexfault>>

(* fs_str_set leaves the last character of the command line out.           *)
EndOfCmdline ==
  /\ Reading
  /\ given.source = "cmdline"
  /\ \E c \in Symbols : text' = Append(text, c)
  /\ result' = "ok"
  /\ UNCHANGED <<given, base, left, lex, start, torn, tokens, statement, handed,
                 lexfault>>

-----------------------------------------------------------------------------
(* fs_conf_parse gives the statement to fs_conf_handle, which takes it or  *)
(* refuses it, whatever it is.  The name of a statement without a word is  *)
(* the one last written to the first slot of the array, if any was.        *)
Nameless == statement.kind # "close" /\ statement.words = <<>>

HandOverKeeping(s) ==
  /\ result = "reading" /\ lexfault = "none"
  /\ s = statement /\ s # None
  /\ handed' = Append(handed, s)
  /\ statement' = None
  /\ lexfault' \in IF Nameless /\ ~named THEN {"none", "unset"} ELSE {"none"}
  /\ UNCHANGED <<reader, lex, start, torn, words, named>>

HandOver(s) ==
  /\ result = "reading" /\ lexfault = "none"
  /\ s = statement /\ s # None
  /\ handed' = Append(handed, s)
  /\ statement' = None
  /\ words' = <<>>
  /\ lexfault' \in IF Nameless /\ ~named THEN {"none", "unset"} ELSE {"none"}
  /\ UNCHANGED <<reader, lex, start, torn, named>>

Handle(s) == HandOver(s) /\ UNCHANGED result

HandleRefuses(s) == HandOver(s) /\ result' = "error"

-----------------------------------------------------------------------------
(* The statements of a text that is read as a whole: what the tokenizer    *)
(* makes of it when all of it is in one buffer.                            *)
NothingRead == [lex |-> Fresh, from |-> 1, words |-> <<>>, handed |-> <<>>]

ReadOn(s, t, n) ==
  LET kind == Ended(s.lex, t[n])
      spelt == IF EndsWord(s.lex, t[n])
               THEN Append(s.words, Copied(SubSeq(t, s.from, n)))
               ELSE s.words
  IN [lex |-> IF kind = "none" THEN Scanned(s.lex, t[n]) ELSE Fresh,
      from |-> IF StartsWord(s.lex, t[n]) THEN n + 1 - Before(t[n]) ELSE s.from,
      words |-> IF kind = "none" THEN spelt ELSE <<>>,
      handed |-> IF kind = "none" THEN s.handed
                 ELSE Append(s.handed,
                        [kind |-> kind,
                         words |-> IF kind = "close" THEN <<>> ELSE spelt])]

Tokenized(t) ==
  LET after[n \in 0 .. Len(t)] ==
        IF n = 0 THEN NothingRead ELSE ReadOn(after[n - 1], t, n)
  IN after[Len(t)].handed

(* How a statement can be written: every word in double quotes.            *)
Shown(c) ==
  IF c \in {DQuote, Escape} THEN <<Escape, c>>
  ELSE IF c = "tab" THEN <<Escape, "t">> ELSE <<c>>

Spelt(chars) ==
  LET spell[n \in 0 .. Len(chars)] ==
        IF n = 0 THEN <<DQuote>> ELSE spell[n - 1] \o Shown(chars[n])
  IN spell[Len(chars)] \o <<DQuote, " ">>

Ending == [param |-> ";", open |-> "{", close |-> "}"]

Worded(s) ==
  LET word[n \in 0 .. Len(s.words)] ==
        IF n = 0 THEN <<>> ELSE word[n - 1] \o Spelt(s.words[n].chars)
  IN word[Len(s.words)] \o <<Ending[s.kind]>>

Written(statements) ==
  LET write[n \in 0 .. Len(statements)] ==
        IF n = 0 THEN <<>> ELSE write[n - 1] \o Worded(statements[n])
  IN write[Len(statements)]

Plain(statements) ==
  [i \in 1 .. Len(statements) |->
     [kind |-> statements[i].kind,
      words |-> [j \in 1 .. Len(statements[i].words) |->
                   statements[i].words[j].chars]]]

-----------------------------------------------------------------------------
(* Properties. *)

(* Where the buffer was cut does not matter but to words that were open    *)
(* then: the same statements with as many words are handed over as if the  *)
(* whole text were in the buffer, and every other word reads the same.  Of *)
(* a command line this needs a blank at its end, which is what it loses.   *)
Meant ==
  Tokenized(IF given.source = "cmdline" /\ result = "ok"
               /\ text[Len(text)] \notin Blank
            THEN SubSeq(text, 1, Len(text) - 1) ELSE text)

CutsHarmOnlyOpenWords ==
  LET got == IF statement = None THEN handed ELSE Append(handed, statement)
      meant == Meant
  IN lexfault = "none" =>
       /\ Len(got) = Len(meant)
       /\ \A i \in 1 .. Len(got) :
            /\ got[i].kind = meant[i].kind
            /\ Len(got[i].words) = Len(meant[i].words)
            /\ \A j \in 1 .. Len(got[i].words) :
                 ~got[i].words[j].torn =>
                   got[i].words[j].chars = meant[i].words[j]

(* Every list of words the tokenizer can return can also be written so     *)
(* that it returns that list: quotes and backslashes lose nothing.         *)
Expressible == Tokenized(Written(handed)) = Plain(handed)

(* A word is written outside its buffer only when the file's buffer was    *)
(* refilled under it, and a name that was never set is looked up only for  *)
(* an empty statement in front of all words.                               *)
TokenFaultOnlyIfTorn ==
  /\ lexfault \in {"null", "overrun"} => words # <<>> /\ words[Len(words)].torn
  /\ lexfault = "unset" =>
       \A i \in 1 .. Len(handed) :
         handed[i].kind # "close" => handed[i].words = <<>>
=============================================================================
