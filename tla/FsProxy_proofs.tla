--------------------------- MODULE FsProxy_proofs ---------------------------
(***************************************************************************)
(* Proofs about FsToken and FsProxy, for texts of any length, buffers of   *)
(* any size, and any characters, groups and requests, in this order:       *)
(*                                                                         *)
(*   - which words the tokenizer writes outside their buffers;             *)
(*   - the types, with those of what the recursive functions return;       *)
(*   - that reading in pieces follows reading the text as a whole;         *)
(*   - that a path is put together as it was configured, and that memory   *)
(*     is misused only for a variable in it;                               *)
(*   - that what has been read can be written so that it is read again.    *)
(*                                                                         *)
(* A function that a definition of the model recurs by is known to exist   *)
(* by the lemmas of Recursion.  It has a name here (CopyFrom, After,       *)
(* ParseAfter, ...) and a lemma with its equations (...Recursion).         *)
(***************************************************************************)
EXTENDS FsProxy, TLAPS, Recursion, SequenceTheorems

(* Of the sequences only that they are some is needed.                     *)
IsSequence(s) == \E S : s \in Seq(S)

Shapes ==
  /\ IsSequence(text)
  /\ IsSequence(words)
  /\ IsSequence(handed)
  /\ base \in Int
  /\ start \in Int
  /\ lex \in Lex
  /\ torn \in BOOLEAN
  /\ named \in BOOLEAN

(* A word that is open began in the part of the buffer that has been read, *)
(* unless the buffer has been refilled since: start is an offset in it.    *)
OpenWordBegan == InWord(lex) /\ ~torn => start <= Len(text) - base

(* Before the first word has ended no statement has any.                   *)
NoWordsYet ==
  ~named =>
    /\ words = <<>>
    /\ statement.words = <<>>
    /\ \A i \in 1 .. Len(handed) : handed[i].words = <<>>

TokenInv ==
  /\ Shapes
  /\ OpenWordBegan
  /\ NoWordsYet
  /\ TokenFaultOnlyIfTorn

-----------------------------------------------------------------------------
(* Sequences. *)

LEMMA AppendIsSequence ==
  ASSUME NEW s, IsSequence(s), NEW x
  PROVE  LET t == Append(s, x) IN
         /\ IsSequence(t)
         /\ Len(s) \in Nat /\ Len(t) = Len(s) + 1 /\ t[Len(t)] = x
         /\ \A i \in 1 .. Len(t) : i # Len(t) => i \in 1 .. Len(s) /\ t[i] = s[i]
         /\ t # <<>>
<1>1. PICK S : s \in Seq(S)
  BY DEF IsSequence
<1> DEFINE T == S \cup {x}
<1>2. s \in Seq(T) /\ x \in T
  BY <1>1
<1> HIDE DEF T
<1>3. Append(s, x) \in Seq(T)
  BY <1>2
<1>4. IsSequence(Append(s, x))
  BY <1>3 DEF IsSequence
<1> DEFINE t == Append(s, x)
<1>5. /\ Len(s) \in Nat /\ Len(t) = Len(s) + 1 /\ t # <<>>
      /\ \A i \in 1 .. Len(s) + 1 :
           t[i] = IF i = Len(s) + 1 THEN x ELSE s[i]
  BY <1>2
<1> HIDE DEF t
<1>6. t[Len(t)] = x
  BY <1>5
<1>7. \A i \in 1 .. Len(t) : i # Len(t) => i \in 1 .. Len(s) /\ t[i] = s[i]
  BY <1>5
<1> QED
  BY <1>4, <1>5, <1>6, <1>7 DEF t

LEMMA EmptyIsSequence == IsSequence(<<>>)
<1>1. <<>> \in Seq({})
  OBVIOUS
<1> QED
  BY <1>1 DEF IsSequence

-----------------------------------------------------------------------------
(* Characters. *)

(* The modes a gap may turn into.                                          *)
LEMMA GapModes ==
  ASSUME NEW l \in Lex, NEW c
  PROVE  /\ InGap(l, c) \in Lex
         /\ InWord(InGap(l, c)) => c \notin Blank \cup {";", "{", "}", "#"}
<1> DEFINE m == InGap(l, c).mode
           P == c \in Blank \cup {";", "{", "}"}
           Q == c = "#"
           R == c = DQuote
           S == c = SQuote
<1>1. m = CASE P -> "gap" [] Q -> "comment" [] R -> "dquote" [] S -> "squote"
            [] OTHER -> "word"
  BY Zenon DEF InGap
<1>2. /\ P => ~Q /\ ~R /\ ~S
      /\ Q => ~R /\ ~S
      /\ R => ~S
  BY DEF Blank, DQuote, SQuote
<1>3. /\ P => c \in Blank \cup {";", "{", "}", "#"}
      /\ c \in Blank \cup {";", "{", "}", "#"} => P \/ Q
  OBVIOUS
<1> HIDE DEF m, P, Q, R, S
<1>4. /\ P => m = "gap"
      /\ Q => m = "comment"
      /\ R => m = "dquote"
      /\ S => m = "squote"
      /\ ~P /\ ~Q /\ ~R /\ ~S => m = "word"
  BY <1>1, <1>2, Zenon
<1>5. m \in Modes
  BY <1>4 DEF Modes
<1>6. InGap(l, c) = [mode |-> m, quoted |-> (c = Escape), variable |-> (l.variable \/ c = "$")]
  BY DEF InGap, m
<1>7. InGap(l, c) \in Lex
  BY <1>5, <1>6 DEF Lex
<1>8. m \in {"word", "dquote", "squote"} => c \notin Blank \cup {";", "{", "}", "#"}
  BY <1>2, <1>3, <1>4
<1> QED
  BY <1>7, <1>8 DEF InWord, m

(* Outside of gaps no word begins.                                        *)
LEMMA OutsideModes ==
  ASSUME NEW l \in Lex, NEW c
  PROVE  /\ OutsideGap(l, c) \in Lex
         /\ InWord(OutsideGap(l, c)) => InWord(l)
<1>1. l.mode \in Modes /\ l.quoted \in BOOLEAN /\ l.variable \in BOOLEAN
  BY DEF Lex
<1> QED
  BY <1>1 DEF OutsideGap, Lex, Modes, InWord, EndsWord

(* A word is open behind a character only if it was before it, or begins   *)
(* with it.                                                                *)
LEMMA WordsBegin ==
  ASSUME NEW l \in Lex, NEW c
  PROVE  /\ Scanned(l, c) \in Lex
         /\ InWord(Scanned(l, c)) => InWord(l) \/ StartsWord(l, c)
<1> DEFINE m == Scanned(l, c)
           P == l.mode = "comment"
           Q == l.mode # "comment" /\ l.quoted
           R == l.mode = "closed" /\ ~l.quoted /\ c \in Blank
           S == l.mode = "gap" /\ ~l.quoted
           gap == [l EXCEPT !.mode = "gap"]
           plain == [l EXCEPT !.quoted = FALSE]
           comment == IF c = "lf" THEN gap ELSE l
<1>1. m = CASE P -> comment [] Q -> plain [] R -> gap [] S -> InGap(l, c)
            [] OTHER -> OutsideGap(l, c)
  BY Zenon DEF Scanned
<1>2. /\ P => ~Q /\ ~R /\ ~S
      /\ Q => ~R /\ ~S
      /\ R => ~S
  OBVIOUS
<1>3. /\ gap \in Lex /\ ~InWord(gap)
      /\ plain \in Lex /\ (InWord(plain) => InWord(l))
  BY DEF Lex, Modes, InWord
<1>4. comment \in Lex /\ (InWord(comment) => InWord(l))
  BY <1>3
<1>5. S /\ InWord(InGap(l, c)) => StartsWord(l, c)
  BY GapModes DEF StartsWord
<1> HIDE DEF m, P, Q, R, S, gap, plain, comment
<1>6. \/ m = comment \/ m = plain \/ m = gap
      \/ S /\ m = InGap(l, c)
      \/ m = OutsideGap(l, c)
  BY <1>1, <1>2, Zenon
<1>7. /\ InGap(l, c) \in Lex
      /\ OutsideGap(l, c) \in Lex /\ (InWord(OutsideGap(l, c)) => InWord(l))
  BY GapModes, OutsideModes
<1>8. m \in Lex
  BY <1>3, <1>4, <1>6, <1>7, Zenon
<1>9. InWord(m) => InWord(l) \/ StartsWord(l, c)
  BY <1>3, <1>4, <1>5, <1>6, <1>7, Zenon
<1> QED
  BY <1>8, <1>9 DEF m

(* A word is copied behind its buffer only if it began behind its end.     *)
LEMMA CopyFits ==
  ASSUME NEW size \in Int
  PROVE  /\ size > 0 => CopyOutcomes(size) = {"none"}
         /\ "unset" \notin CopyOutcomes(size)
<1> DEFINE P == size < 0
           Q == size = 0
           R == size > 0
           out == CopyOutcomes(size)
<1>1. out = CASE P -> {"null"} [] Q -> {"none", "overrun"} [] R -> {"none"}
  BY Zenon DEF CopyOutcomes
<1>2. (P \/ Q \/ R) /\ (P => ~Q /\ ~R) /\ (Q => ~R) /\ (size > 0 => R)
  OBVIOUS
<1> HIDE DEF P, Q, R, out
<1>3. /\ R => out = {"none"}
      /\ out = {"null"} \/ out = {"none", "overrun"} \/ out = {"none"}
  BY <1>1, <1>2, Zenon
<1> QED
  BY <1>2, <1>3 DEF out

-----------------------------------------------------------------------------
(* The invariant. *)

LEMMA InitInv == Init => TokenInv
<1> SUFFICES ASSUME Init PROVE TokenInv
  OBVIOUS
<1>1. Fresh \in Lex /\ ~InWord(Fresh)
  BY DEF Fresh, Lex, Modes, InWord
<1>2. Shapes
  <2>1. /\ text = <<>> /\ words = <<>> /\ handed = <<>>
        /\ base = 0 /\ start = 0 /\ lex = Fresh /\ torn = FALSE /\ named = FALSE
    BY DEF Init, TokenInit
  <2>2. IsSequence(text) /\ IsSequence(words) /\ IsSequence(handed)
    BY <2>1, EmptyIsSequence, Zenon
  <2>3. base \in Int /\ start \in Int
    BY <2>1
  <2>4. lex \in Lex
    BY <1>1, <2>1, Zenon
  <2>5. torn \in BOOLEAN /\ named \in BOOLEAN
    BY <2>1, Zenon
  <2> QED
    BY <2>2, <2>3, <2>4, <2>5, Zenon DEF Shapes
<1> QED
  BY <1>1, <1>2
  DEF Init, TokenInit, TokenInv, OpenWordBegan, NoWordsYet, TokenFaultOnlyIfTorn, None

(* A refill moves base, and tears the word that is open.                  *)
LEMMA RefillInv ==
  ASSUME TokenInv, Refill
  PROVE  TokenInv'
<1>1. Shapes'
  <2>1. Len(text) \in Int
    BY DEF TokenInv, Shapes, IsSequence
  <2>2. torn' \in BOOLEAN
    BY DEF TokenInv, Shapes, Refill, InWord
  <2> QED
    BY <2>1, <2>2 DEF TokenInv, Shapes, Refill, tokens
<1>2. OpenWordBegan'
  BY DEF Refill, OpenWordBegan, InWord
<1> QED
  BY <1>1, <1>2 DEF TokenInv, Refill, tokens, NoWordsYet, TokenFaultOnlyIfTorn, Reading

LEMMA EndOfFileInv ==
  ASSUME TokenInv, EndOfFile
  PROVE  TokenInv'
BY DEF TokenInv, EndOfFile, reader, tokens, Shapes, OpenWordBegan, NoWordsYet,
       TokenFaultOnlyIfTorn

(* The last character of a command line is not scanned.                   *)
LEMMA EndOfCmdlineInv ==
  ASSUME TokenInv, EndOfCmdline
  PROVE  TokenInv'
<1>1. PICK c \in Symbols : text' = Append(text, c)
  BY DEF EndOfCmdline
<1>2. IsSequence(text') /\ Len(text) \in Nat /\ Len(text') = Len(text) + 1
  BY <1>1, AppendIsSequence DEF TokenInv, Shapes
<1>3. Shapes'
  BY <1>2 DEF TokenInv, Shapes, EndOfCmdline, tokens
<1>4. OpenWordBegan'
  BY <1>2 DEF TokenInv, Shapes, OpenWordBegan, EndOfCmdline, InWord
<1> QED
  BY <1>3, <1>4
  DEF TokenInv, EndOfCmdline, tokens, NoWordsYet, TokenFaultOnlyIfTorn

(* A character may begin a word, end and copy one, or end a statement.    *)
LEMMA TakeCharInv ==
  ASSUME TokenInv, NEW c, TakeChar(c)
  PROVE  TokenInv'
<1> DEFINE pos == Len(text) + 1 - base
           kind == Ended(lex, c)
           copied == TokenCopied(text', start, pos)
<1>1. /\ IsSequence(text) /\ IsSequence(words) /\ IsSequence(handed)
      /\ base \in Int /\ start \in Int /\ lex \in Lex
      /\ torn \in BOOLEAN /\ named \in BOOLEAN
      /\ lexfault = "none" /\ statement = None
  BY DEF TokenInv, Shapes, TakeChar, Reading
<1>2. /\ IsSequence(text') /\ Len(text) \in Nat /\ Len(text') = Len(text) + 1
      /\ pos \in Int /\ Len(text') - base = pos
  <2>1. text' = Append(text, c)
    BY DEF TakeChar
  <2>2. IsSequence(text') /\ Len(text) \in Nat /\ Len(text') = Len(text) + 1
    BY <1>1, <2>1, AppendIsSequence
  <2> QED
    BY <1>1, <2>2
<1>3. /\ lex' = IF kind = "none" THEN Scanned(lex, c) ELSE Fresh
      /\ start' = IF StartsWord(lex, c) THEN pos - Before(c) ELSE start
      /\ torn' = (torn /\ ~StartsWord(lex, c))
      /\ words' = IF EndsWord(lex, c) THEN Append(words, copied) ELSE words
      /\ named' = (named \/ EndsWord(lex, c))
      /\ lexfault' \in IF EndsWord(lex, c) THEN CopyOutcomes(pos - start)
                       ELSE {"none"}
      /\ base' = base /\ handed' = handed
      /\ statement' = IF kind = "none" THEN None
                      ELSE [kind |-> kind,
                            words |-> IF kind = "close" THEN <<>> ELSE words']
  BY Zenon DEF TakeChar
<1>4. copied.torn = torn
  BY DEF TokenCopied
<1> HIDE DEF kind, copied, pos
<1>5. lex' \in Lex /\ (InWord(lex') => InWord(lex) \/ StartsWord(lex, c))
  <2>1. Fresh \in Lex /\ ~InWord(Fresh)
    BY DEF Fresh, Lex, Modes, InWord
  <2> QED
    BY <1>1, <1>3, <2>1, WordsBegin
<1>6. Before(c) \in {0, 1}
  BY DEF Before
<1>7. IsSequence(words')
  BY <1>1, <1>3, AppendIsSequence
<1>8. StartsWord(lex, c) \in BOOLEAN /\ EndsWord(lex, c) \in BOOLEAN
  <2>1. StartsWord(lex, c) \in BOOLEAN
    BY DEF StartsWord
  <2>2. EndsWord(lex, c) \in BOOLEAN
    BY Zenon DEF EndsWord
  <2> QED
    BY <2>1, <2>2
<1>9. Shapes'
  BY <1>1, <1>2, <1>3, <1>5, <1>6, <1>7, <1>8 DEF Shapes
<1>10. OpenWordBegan'
  <2>1. SUFFICES ASSUME InWord(lex'), ~torn' PROVE start' <= pos
    BY <1>2, <1>3 DEF OpenWordBegan, InWord
  <2>2. CASE StartsWord(lex, c)
    BY <1>2, <1>3, <1>6, <2>2
  <2>3. CASE ~StartsWord(lex, c)
    <3>1. InWord(lex) /\ ~torn /\ start' = start
      BY <1>1, <1>3, <1>5, <2>1, <2>3
    <3> QED
      BY <1>1, <1>2, <3>1 DEF TokenInv, OpenWordBegan
  <2> QED
    BY <2>2, <2>3
<1>11. NoWordsYet'
  <2>1. SUFFICES ASSUME ~named'
                 PROVE  /\ words' = <<>> /\ statement'.words = <<>>
                        /\ \A i \in 1 .. Len(handed') : handed'[i].words = <<>>
    BY DEF NoWordsYet
  <2>2. ~named /\ ~EndsWord(lex, c)
    BY <1>3, <2>1
  <2>3. words' = <<>> /\ \A i \in 1 .. Len(handed') : handed'[i].words = <<>>
    BY <1>3, <2>2 DEF TokenInv, NoWordsYet
  <2> QED
    BY <1>3, <2>3 DEF None
<1>12. TokenFaultOnlyIfTorn'
  <2>1. CASE ~EndsWord(lex, c)
    BY <1>3, <2>1 DEF TokenFaultOnlyIfTorn
  <2>2. CASE EndsWord(lex, c)
    <3>1. words' # <<>> /\ words'[Len(words')].torn = torn
      BY <1>1, <1>3, <1>4, <2>2, AppendIsSequence
    <3>2. CASE torn
      <4>1. pos - start \in Int
        BY <1>1, <1>2
      <4>2. lexfault' # "unset"
        BY <1>3, <2>2, <4>1, CopyFits
      <4> QED
        BY <3>1, <3>2, <4>2 DEF TokenFaultOnlyIfTorn
    <3>3. CASE ~torn
      <4>1. start <= Len(text) - base
        BY <2>2, <3>3 DEF TokenInv, OpenWordBegan, EndsWord
      <4>2. pos - start \in Int /\ pos - start > 0
        BY <1>1, <1>2, <4>1 DEF pos
      <4>3. lexfault' = "none"
        BY <1>3, <2>2, <4>2, CopyFits
      <4> QED
        BY <4>3 DEF TokenFaultOnlyIfTorn
    <3> QED
      BY <1>1, <3>2, <3>3
  <2> QED
    BY <1>8, <2>1, <2>2
<1> QED
  BY <1>9, <1>10, <1>11, <1>12 DEF TokenInv

(* A statement is handed over in four ways, which are alike but for what   *)
(* becomes of result.                                                      *)
LEMMA HandOverInv ==
  ASSUME TokenInv, HandOver(statement)
  PROVE  TokenInv'
<1>1. /\ handed' = Append(handed, statement) /\ statement' = None /\ words' = <<>>
      /\ lexfault = "none"
      /\ lexfault' \in IF Nameless /\ ~named THEN {"none", "unset"} ELSE {"none"}
      /\ UNCHANGED <<text, base, lex, start, torn, named>>
  BY DEF HandOver, reader
<1>2. /\ IsSequence(handed')
      /\ \A i \in 1 .. Len(handed') :
           \/ handed'[i] = statement
           \/ i \in 1 .. Len(handed) /\ handed'[i] = handed[i]
  BY <1>1, AppendIsSequence DEF TokenInv, Shapes
<1>3. Shapes'
  BY <1>1, <1>2, EmptyIsSequence DEF TokenInv, Shapes
<1>4. OpenWordBegan'
  BY <1>1 DEF TokenInv, OpenWordBegan, InWord
<1>5. ~named => \A i \in 1 .. Len(handed') : handed'[i].words = <<>>
  BY <1>2 DEF TokenInv, NoWordsYet
<1>6. NoWordsYet'
  BY <1>1, <1>5 DEF NoWordsYet, None
<1>7. TokenFaultOnlyIfTorn'
  BY <1>1, <1>5 DEF TokenFaultOnlyIfTorn
<1> QED
  BY <1>3, <1>4, <1>6, <1>7 DEF TokenInv

(* Every behaviour of the reader keeps the invariant, whatever is done with*)
(* the statements and the path.                                           *)
LEMMA SpecInv == Spec => []TokenInv
<1>1. TokenInv /\ [Next]_vars => TokenInv'
  <2> SUFFICES ASSUME TokenInv, [Next]_vars PROVE TokenInv'
    OBVIOUS
  <2>1. CASE UNCHANGED tokenVars
    BY <2>1 DEF tokenVars, reader, tokens, TokenInv, Shapes, OpenWordBegan, NoWordsYet,
                TokenFaultOnlyIfTorn
  <2>2. CASE Refill \/ EndOfFile \/ EndOfCmdline
    BY <2>2, RefillInv, EndOfFileInv, EndOfCmdlineInv
  <2>3. ASSUME NEW c \in Chars, TakeChar(c) PROVE TokenInv'
    BY <2>3, TakeCharInv
  <2>4. CASE \/ Handle(statement) \/ HandleRefuses(statement)
             \/ PassPath(statement) \/ PassPathRefuses(statement)
    BY <2>4, HandOverInv DEF Handle, HandleRefuses, PassPath, PassPathRefuses
  <2>5. ASSUME NEW r \in Requests, InitCb(r) PROVE TokenInv'
    BY <2>1, <2>5 DEF InitCb
  <2>6. CASE ReleaseCb
    BY <2>1, <2>6 DEF ReleaseCb
  <2>7. CASE UNCHANGED vars
    BY <2>1, <2>7 DEF vars
  <2> QED
    BY <2>2, <2>3, <2>4, <2>5, <2>6, <2>7 DEF Next
<1> QED
  BY <1>1, InitInv, PTL DEF Spec

-----------------------------------------------------------------------------
(* The theorem. *)

(* Whatever the text and wherever the buffer cuts it, fs_conf_next_token   *)
(* writes outside a word's buffer only when the file's buffer was refilled *)
(* under the word, and fs_conf_parse looks up a name that was never set    *)
(* only for an empty statement in front of all words.                      *)
THEOREM TornWordsOnly == Spec => []TokenFaultOnlyIfTorn
<1>1. TokenInv => TokenFaultOnlyIfTorn
  BY DEF TokenInv
<1> QED
  BY <1>1, SpecInv, PTL

-----------------------------------------------------------------------------
(* Lengths, entries and types of sequences. *)

(* A stretch of a sequence, and two sequences joined. *)
LEMMA SubSeqIs ==
  ASSUME NEW S, NEW s \in Seq(S), NEW m \in Nat, m > 0, NEW n \in Int, n <= Len(s)
  PROVE  /\ SubSeq(s, m, n) \in Seq(S)
         /\ Len(SubSeq(s, m, n)) = IF m <= n THEN n - m + 1 ELSE 0
         /\ \A i \in 1 .. n - m + 1 : SubSeq(s, m, n)[i] = s[i + m - 1]
<1>1. CASE m <= n
  BY <1>1
<1>2. CASE m > n
  <2>1. SubSeq(s, m, n) = <<>>
    BY <1>2
  <2> QED
    BY <1>2, <2>1
<1> QED
  BY <1>1, <1>2

LEMMA ConcatIs ==
  ASSUME NEW S, NEW s \in Seq(S), NEW t \in Seq(S)
  PROVE  /\ s \o t \in Seq(S)
         /\ Len(s \o t) = Len(s) + Len(t)
         /\ \A i \in 1 .. Len(s) : (s \o t)[i] = s[i]
         /\ \A i \in 1 .. Len(t) : (s \o t)[Len(s) + i] = t[i]
OBVIOUS

(* Three, in whichever way they are joined, each join with a name. *)
LEMMA BehindBoth ==
  ASSUME NEW S, NEW t \in Seq(S), NEW q \in Seq(S), NEW z \in Seq(S),
         NEW p, p = t \o q, NEW r, r = q \o z
  PROVE  t \o r = p \o z
<1>1. t \o (q \o z) = (t \o q) \o z
  BY SMTT(30)
<1> QED
  BY <1>1, Zenon

(* The same, for texts of which it is only known what they are joined of.  *)
IsJoin(p, s, t) == p = s \o t

LEMMA JoinBoth ==
  ASSUME NEW t \in Seq(Chars), NEW q \in Seq(Chars), NEW z \in Seq(Chars),
         NEW p, NEW r, NEW w, IsJoin(p, t, q), IsJoin(r, q, z), IsJoin(w, t, r)
  PROVE  IsJoin(w, p, z)
<1>1. p = t \o q /\ r = q \o z
  BY Zenon DEF IsJoin
<1>2. t \o r = p \o z
  BY <1>1, BehindBoth, SMTT(30)
<1> QED
  BY <1>2, Zenon DEF IsJoin

(* What a character ends is a statement of some kind, or nothing.          *)
LEMMA KindsEnded ==
  ASSUME NEW l \in Lex, NEW c
  PROVE  Ended(l, c) \in Kinds \cup {"none"}
<1> DEFINE P == l.quoted \/ l.mode \in {"comment", "dquote", "squote"}
           Q == ~l.quoted /\ l.mode \in {"gap", "closed", "word"}
           A == c = ";"
           B == c = "{" /\ (l.mode # "word" \/ ~l.variable)
           C == c = "}" /\ l.mode = "gap"
           e == CASE A -> "param" [] B -> "open" [] C -> "close" [] OTHER -> "none"
<1>1. Ended(l, c) = CASE P -> "none" [] Q -> e
  BY Zenon DEF Ended
<1>2. (P \/ Q) /\ ~(P /\ Q)
  BY DEF Lex, Modes
<1>3. /\ A => ~B /\ ~C
      /\ B => ~C
  OBVIOUS
<1> HIDE DEF P, Q
<1>4. Ended(l, c) = "none" \/ Ended(l, c) = e
  BY <1>1, <1>2, Zenon
<1> HIDE DEF A, B, C
<1>5. e \in {"param", "open", "close", "none"}
  <2>1. CASE A
    BY <1>3, <2>1, Zenon
  <2>2. CASE B
    BY <1>3, <2>2, Zenon
  <2>3. CASE C
    BY <1>3, <2>3, Zenon
  <2>4. CASE ~A /\ ~B /\ ~C
    BY <2>4, Zenon
  <2> QED
    BY <2>1, <2>2, <2>3, <2>4, Zenon
<1> HIDE DEF e
<1> QED
  BY <1>4, <1>5 DEF Kinds

(* The copying from each byte on, as the recursion of Copied defines it.   *)
CopyStep(bytes, i, copy) ==
  IF i >= Len(bytes) THEN <<>>
  ELSE IF bytes[i] = Escape /\ bytes[i + 1] \in Escapable
  THEN <<Resolved(bytes[i + 1])>> \o copy[i + 2]
  ELSE <<bytes[i]>> \o copy[i + 1]

CopyFrom(bytes) ==
  CHOOSE copy : copy = [i \in 1 .. Len(bytes) + 1 |-> CopyStep(bytes, i, copy)]

(* The copying from a byte on needs only the copying from later ones on.   *)
LEMMA CopyStepLocal ==
  ASSUME NEW bytes \in Seq(Chars), NEW i \in 1 .. Len(bytes) + 1, NEW f, NEW g,
         \A j \in i + 1 .. Len(bytes) + 1 : f[j] = g[j]
  PROVE  CopyStep(bytes, i, f) = CopyStep(bytes, i, g)
<1>1. CASE i >= Len(bytes)
  BY <1>1 DEF CopyStep
<1>2. CASE i < Len(bytes)
  <2>1. f[i + 1] = g[i + 1] /\ f[i + 2] = g[i + 2]
    BY <1>2
  <2> QED
    BY <2>1 DEF CopyStep
<1> QED
  BY <1>1, <1>2

LEMMA CopyStepType ==
  ASSUME TokenAssumption, NEW bytes \in Seq(Chars),
         NEW i \in 1 .. Len(bytes) + 1, NEW f,
         \A j \in i + 1 .. Len(bytes) + 1 : f[j] \in Seq(Chars)
  PROVE  CopyStep(bytes, i, f) \in Seq(Chars)
<1>1. CASE i >= Len(bytes)
  <2>1. <<>> \in Seq(Chars)
    OBVIOUS
  <2> QED
    BY <1>1, <2>1 DEF CopyStep
<1>2. CASE i < Len(bytes)
  <2>1. bytes[i] \in Chars /\ bytes[i + 1] \in Chars
        /\ f[i + 1] \in Seq(Chars) /\ f[i + 2] \in Seq(Chars)
    BY <1>2
  <2>2. Resolved(bytes[i + 1]) \in Chars
    BY <2>1 DEF Resolved, TokenAssumption
  <2>3. /\ <<Resolved(bytes[i + 1])>> \o f[i + 2] \in Seq(Chars)
        /\ <<bytes[i]>> \o f[i + 1] \in Seq(Chars)
    BY <2>1, <2>2
  <2> QED
    BY <1>2, <2>3 DEF CopyStep
<1> QED
  BY <1>1, <1>2

LEMMA CopyRecursion ==
  ASSUME TokenAssumption, NEW bytes \in Seq(Chars)
  PROVE  /\ Copied(bytes) = CopyFrom(bytes)[1]
         /\ \A i \in 1 .. Len(bytes) + 1 :
              /\ CopyFrom(bytes)[i] = CopyStep(bytes, i, CopyFrom(bytes))
              /\ CopyFrom(bytes)[i] \in Seq(Chars)
<1> DEFINE N == Len(bytes) + 1
           D == Seq(Chars)
           F == [1 .. N -> D]
           step == [p \in (1 .. N) \X F |-> CopyStep(bytes, p[1], p[2])]
           copy == CopyFrom(bytes)
<1>1. Copied(bytes) = copy[1]
  BY Zenon DEF Copied, CopyFrom, CopyStep
<1>2. N \in Nat
  OBVIOUS
<1>3. <<>> \in D
  OBVIOUS
<1>4. \A i \in 1 .. N : \A f \in F : CopyStep(bytes, i, f) \in D
  <2> SUFFICES ASSUME NEW i \in 1 .. N, NEW f \in F PROVE CopyStep(bytes, i, f) \in D
    OBVIOUS
  <2>1. \A j \in i + 1 .. Len(bytes) + 1 : f[j] \in Seq(Chars)
    OBVIOUS
  <2> QED
    BY <2>1, CopyStepType
<1>5. \A i \in 1 .. N : \A f, g \in F :
        (\A j \in i + 1 .. N : f[j] = g[j])
          => CopyStep(bytes, i, f) = CopyStep(bytes, i, g)
  BY CopyStepLocal
<1>6. step \in [(1 .. N) \X [1 .. N -> D] -> D]
  BY <1>4, Zenon DEF F
<1>7. \A i \in 1 .. N : \A f \in F : step[<<i, f>>] = CopyStep(bytes, i, f)
  OBVIOUS
<1> HIDE DEF step
<1>8. LooksBehind(D, N, step)
  <2> SUFFICES ASSUME NEW i \in 1 .. N, NEW f \in F, NEW g \in F,
                      \A j \in i + 1 .. N : f[j] = g[j]
               PROVE  step[<<i, f>>] = step[<<i, g>>]
    BY DEF F, LooksBehind
  <2> HIDE DEF F
  <2>1. CopyStep(bytes, i, f) = CopyStep(bytes, i, g)
    BY <1>5
  <2> QED
    BY <1>7, <2>1
<1> HIDE DEF D
<1>9. \E f : MadeBackwards(f, D, N, step)
  <2> HIDE DEF N
  <2>1. PICK x \in D : TRUE
    BY <1>3
  <2> QED
    BY <1>2, <1>6, <1>8, <2>1, Backwards, Zenon
<1>10. PICK f \in F : \A i \in 1 .. N : f[i] = CopyStep(bytes, i, f)
  BY <1>7, <1>9 DEF F, MadeBackwards
<1>11. f = [i \in 1 .. N |-> CopyStep(bytes, i, f)]
  BY <1>10 DEF F
<1>12. copy = [i \in 1 .. N |-> CopyStep(bytes, i, copy)]
  BY <1>11, Zenon DEF CopyFrom
<1> HIDE DEF copy
<1>13. \A i \in 1 .. N : copy[i] = CopyStep(bytes, i, copy)
  BY <1>12
<1> DEFINE S == {i \in 1 .. N : copy[i] \in D}
<1>14. ASSUME NEW i \in 1 .. N, \A j \in i + 1 .. N : j \in S PROVE i \in S
  BY <1>13, <1>14, CopyStepType DEF D
<1> HIDE DEF S
<1>15. \A i \in 1 .. N : i \in S
  <2> HIDE DEF N
  <2> QED
    BY <1>2, <1>14, InductionFrom
<1> QED
  BY <1>1, <1>13, <1>15 DEF S, copy, D

(* So what a word is copied to are characters. *)
LEMMA CopiedType ==
  ASSUME TokenAssumption, NEW bytes \in Seq(Chars)
  PROVE  Copied(bytes) \in Seq(Chars)
<1>1. 1 \in 1 .. Len(bytes) + 1
  OBVIOUS
<1> QED
  BY <1>1, CopyRecursion

(* What a text read as a whole has become behind each of its characters.   *)
After(t) ==
  CHOOSE after : after = [n \in 0 .. Len(t) |->
                            IF n = 0 THEN NothingRead ELSE ReadOn(after[n - 1], t, n)]

Texted == Seq(Chars)
ReadStatement == [kind : Kinds, words : Seq(Texted)]
Read == [lex : Lex, from : Nat \ {0}, words : Seq(Texted), handed : Seq(ReadStatement)]

LEMMA ReadOnType ==
  ASSUME TokenAssumption, NEW t \in Seq(Chars), NEW n \in 1 .. Len(t), NEW s \in Read
  PROVE  ReadOn(s, t, n) \in Read
<1> DEFINE c == t[n]
           kind == Ended(s.lex, c)
           copied == Copied(SubSeq(t, s.from, n))
           spelt == IF EndsWord(s.lex, c) THEN Append(s.words, copied) ELSE s.words
           given2 == [kind |-> kind, words |-> IF kind = "close" THEN <<>> ELSE spelt]
           L == IF kind = "none" THEN Scanned(s.lex, c) ELSE Fresh
           F == IF StartsWord(s.lex, c) THEN n + 1 - Before(c) ELSE s.from
           W == IF kind = "none" THEN spelt ELSE <<>>
           H == IF kind = "none" THEN s.handed ELSE Append(s.handed, given2)
<1>1. ReadOn(s, t, n) = [lex |-> L, from |-> F, words |-> W, handed |-> H]
  BY Zenon DEF ReadOn
<1>2. s.lex \in Lex /\ s.from \in Nat /\ s.from > 0 /\ s.words \in Seq(Texted)
      /\ s.handed \in Seq(ReadStatement)
  BY DEF Read
<1>3. SubSeq(t, s.from, n) \in Seq(Chars)
  BY <1>2, SubSeqIs
<1>4. copied \in Texted
  BY <1>3, CopiedType DEF Texted
<1>5. kind \in Kinds \cup {"none"}
  BY <1>2, KindsEnded
<1> HIDE DEF c, kind, copied
<1>6. spelt \in Seq(Texted) /\ <<>> \in Seq(Texted)
  BY <1>2, <1>4
<1> HIDE DEF spelt
<1>7. kind # "none" => given2 \in ReadStatement
  BY <1>5, <1>6 DEF ReadStatement
<1> HIDE DEF given2
<1>8. L \in Lex
  <2>1. Fresh \in Lex
    BY DEF Fresh, Lex, Modes
  <2> QED
    BY <1>2, <2>1, WordsBegin
<1>9. F \in Nat \ {0}
  BY <1>2 DEF Before
<1>10. W \in Seq(Texted)
  BY <1>6
<1>11. H \in Seq(ReadStatement)
  BY <1>2, <1>7
<1> HIDE DEF L, F, W, H
<1> QED
  BY <1>1, <1>8, <1>9, <1>10, <1>11 DEF Read

(* Tokenized reads a text character by character. *)
LEMMA AfterRecursion ==
  ASSUME TokenAssumption, NEW t \in Seq(Chars)
  PROVE  /\ Tokenized(t) = After(t)[Len(t)].handed
         /\ After(t)[0] = NothingRead
         /\ \A n \in 1 .. Len(t) : After(t)[n] = ReadOn(After(t)[n - 1], t, n)
         /\ \A n \in 0 .. Len(t) : After(t)[n] \in Read
<1> DEFINE N == Len(t)
           step == [p \in (1 .. N) \X Read |-> ReadOn(p[2], t, p[1])]
           after == After(t)
<1>1. Tokenized(t) = after[N].handed
  BY Zenon DEF Tokenized, After
<1>2. N \in Nat
  OBVIOUS
<1>3. NothingRead \in Read
  <2>1. Fresh \in Lex
    BY DEF Fresh, Lex, Modes
  <2>2. <<>> \in Seq(Texted) /\ <<>> \in Seq(ReadStatement)
    OBVIOUS
  <2> QED
    BY <2>1, <2>2 DEF NothingRead, Read
<1>4. \A n \in 1 .. N : \A s \in Read : ReadOn(s, t, n) \in Read
  BY ReadOnType
<1>5. step \in [(1 .. N) \X Read -> Read]
  BY <1>4
<1>6. \A n \in 1 .. N : \A s \in Read : step[<<n, s>>] = ReadOn(s, t, n)
  OBVIOUS
<1> HIDE DEF step, N
<1>7. PICK f : MadeForwards(f, Read, NothingRead, N, step)
  BY <1>2, <1>3, <1>5, Forwards
<1>8. /\ f \in [0 .. N -> Read] /\ f[0] = NothingRead
      /\ \A n \in 1 .. N : f[n] = ReadOn(f[n - 1], t, n)
  <2>1. \A n \in 1 .. N : n - 1 \in 0 .. N
    BY <1>2
  <2> QED
    BY <1>6, <1>7, <2>1 DEF MadeForwards
<1>9. f = [n \in 0 .. N |-> IF n = 0 THEN NothingRead ELSE ReadOn(f[n - 1], t, n)]
  BY <1>2, <1>8
<1>10. after = [n \in 0 .. N |-> IF n = 0 THEN NothingRead ELSE ReadOn(after[n - 1], t, n)]
  BY <1>9, Zenon DEF After, N
<1> HIDE DEF after
<1>11. after[0] = NothingRead /\ \A n \in 1 .. N : after[n] = ReadOn(after[n - 1], t, n)
  BY <1>2, <1>10
<1> DEFINE S == {n \in 0 .. N : after[n] \in Read}
<1>12. 0 \in S
  BY <1>2, <1>3, <1>11
<1>13. ASSUME NEW n \in 0 .. N - 1, n \in S PROVE n + 1 \in S
  <2>1. n + 1 \in 1 .. N /\ (n + 1) - 1 = n
    BY <1>2
  <2> QED
    BY <1>4, <1>11, <1>13, <2>1
<1> HIDE DEF S
<1>14. \A n \in 0 .. N : n \in S
  BY <1>2, <1>12, <1>13, InductionTo
<1> QED
  BY <1>1, <1>11, <1>14 DEF S, after, N

-----------------------------------------------------------------------------
(* Taking an argument apart, and putting a path together: the types. *)

(* What has been made of an argument so far.  A part that is being written *)
(* is the last one, and no part is empty.                                  *)
Part == Seq(Bytes) \ {<<>>}
Parse == {v \in [parts : Seq(Part), in : BOOLEAN, variable : BOOLEAN, ok : BOOLEAN] :
            v.in => v.parts # <<>>}

(* A part begins, or is written on. *)
LEMMA PartStartedIs ==
  ASSUME NEW v \in Parse, NEW c \in Bytes
  PROVE  LET w == PartStarted(v, c) IN
         /\ w \in Parse
         /\ w.parts = Append(v.parts, <<c>>)
         /\ w.in = TRUE /\ w.variable = v.variable /\ w.ok = v.ok
<1>1. <<c>> \in Part
  BY DEF Part
<1>2. v.parts \in Seq(Part) /\ Append(v.parts, <<c>>) \in Seq(Part)
      /\ Append(v.parts, <<c>>) # <<>>
  BY <1>1 DEF Parse
<1> HIDE DEF Part
<1> QED
  BY <1>2 DEF PartStarted, Parse

LEMMA PartContinuedIs ==
  ASSUME NEW v \in Parse, v.in, NEW c \in Bytes
  PROVE  LET w == PartContinued(v, c)
             n == Len(v.parts)
         IN /\ w \in Parse
            /\ w.parts = [v.parts EXCEPT ![n] = Append(@, c)]
            /\ n \in 1 .. Len(v.parts)
            /\ w.in = TRUE /\ w.variable = v.variable /\ w.ok = v.ok
<1> DEFINE n == Len(v.parts)
           last == v.parts[n]
           ps == [v.parts EXCEPT ![n] = Append(last, c)]
<1>1. v.parts \in Seq(Part) /\ v.parts # <<>> /\ v.in = TRUE
  BY DEF Parse
<1>2. n \in 1 .. Len(v.parts)
  BY <1>1
<1>3. last \in Part
  BY <1>1, <1>2
<1>4. Append(last, c) \in Part
  BY <1>3 DEF Part
<1> HIDE DEF Part
<1>5. ps \in Seq(Part) /\ ps # <<>>
  BY <1>1, <1>2, <1>4
<1> DEFINE w == [v EXCEPT !.parts[n] = Append(@, c)]
<1>6. PartContinued(v, c) = w
  BY <1>1 DEF PartContinued
<1>7. w = [v EXCEPT !.parts = ps]
  OBVIOUS
<1>8. w \in Parse /\ w.parts = ps /\ w.in = v.in /\ w.variable = v.variable /\ w.ok = v.ok
  <2> HIDE DEF ps, w
  <2> QED
    BY <1>5, <1>7 DEF Parse
<1> QED
  BY <1>1, <1>2, <1>6, <1>8

LEMMA PartBegun ==
  ASSUME NEW v \in Parse, ~v.in, NEW c \in Bytes
  PROVE  PartContinued(v, c) = PartStarted(v, c)
BY DEF PartContinued

(* Parsed, case by case: a variable begins, a brace has none, or ends it,  *)
(* and any other character goes on with what is being written.             *)
VariableBegun(v, c) == [PartStarted(v, c) EXCEPT !.variable = TRUE]
BraceRefused(v) == [v EXCEPT !.ok = FALSE]
VariableEnded(v, c) == [PartContinued(v, c) EXCEPT !.variable = FALSE, !.in = FALSE]

LEMMA ParsedByTests ==
  ASSUME NEW v \in Parse, NEW c
  PROVE  /\ ~v.ok => Parsed(v, c) = v
         /\ v.ok /\ c = "$" => Parsed(v, c) = VariableBegun(v, c)
         /\ v.ok /\ (c = "{" \/ c = "}") /\ ~v.variable => Parsed(v, c) = BraceRefused(v)
         /\ v.ok /\ c = "}" /\ v.variable => Parsed(v, c) = VariableEnded(v, c)
         /\ v.ok /\ c # "$" /\ c # "}" /\ (c = "{" => v.variable) =>
              Parsed(v, c) = PartContinued(v, c)
<1> DEFINE P == ~v.ok
           Q == v.ok /\ c = "$"
           R == v.ok /\ c \in {"{", "}"} /\ ~v.variable
           S == v.ok /\ c = "}" /\ v.variable
           q == VariableBegun(v, c)
           r == BraceRefused(v)
           s == VariableEnded(v, c)
           o == PartContinued(v, c)
           w == Parsed(v, c)
<1>1. w = CASE P -> v [] Q -> q [] R -> r [] S -> s [] OTHER -> o
  BY Zenon DEF Parsed, VariableBegun, BraceRefused, VariableEnded
<1>2. /\ P => ~Q /\ ~R /\ ~S
      /\ Q => ~R /\ ~S
      /\ R => ~S
  OBVIOUS
<1>3. /\ ~v.ok => P
      /\ v.ok /\ c = "$" => Q
      /\ v.ok /\ (c = "{" \/ c = "}") /\ ~v.variable => R
      /\ v.ok /\ c = "}" /\ v.variable => S
      /\ v.ok /\ c # "$" /\ c # "}" /\ (c = "{" => v.variable) => ~P /\ ~Q /\ ~R /\ ~S
  BY DEF Parse
<1> HIDE DEF P, Q, R, S, q, r, s, o, w
<1>4. /\ P => w = v
      /\ Q => w = q
      /\ R => w = r
      /\ S => w = s
      /\ ~P /\ ~Q /\ ~R /\ ~S => w = o
  BY <1>1, <1>2, Zenon
<1> QED
  BY <1>3, <1>4, Zenon DEF q, r, s, o, w

LEMMA ParsedType ==
  ASSUME NEW v \in Parse, NEW c \in Bytes
  PROVE  Parsed(v, c) \in Parse
<1>1. v.ok \in BOOLEAN /\ v.variable \in BOOLEAN /\ v.in \in BOOLEAN
  BY DEF Parse
<1>2. PartStarted(v, c) \in Parse
  BY PartStartedIs
<1>3. PartContinued(v, c) \in Parse
  BY <1>1, <1>2, PartContinuedIs, PartBegun
<1>4. VariableBegun(v, c) \in Parse /\ BraceRefused(v) \in Parse
      /\ VariableEnded(v, c) \in Parse
  BY <1>2, <1>3 DEF Parse, VariableBegun, BraceRefused, VariableEnded
<1>5. \/ Parsed(v, c) = v
      \/ Parsed(v, c) = VariableBegun(v, c)
      \/ Parsed(v, c) = BraceRefused(v)
      \/ Parsed(v, c) = VariableEnded(v, c)
      \/ Parsed(v, c) = PartContinued(v, c)
  BY <1>1, ParsedByTests
<1> QED
  BY <1>3, <1>4, <1>5

ParseAfter(bytes) ==
  CHOOSE after : after = [n \in 0 .. Len(bytes) |->
                            IF n = 0 THEN NoParts ELSE Parsed(after[n - 1], bytes[n])]

(* VarParse takes the bytes apart one by one. *)
LEMMA ParseRecursion ==
  ASSUME NEW bytes \in Seq(Bytes)
  PROVE  /\ VarParse(bytes) = ParseAfter(bytes)[Len(bytes)]
         /\ ParseAfter(bytes)[0] = NoParts
         /\ \A n \in 1 .. Len(bytes) :
              ParseAfter(bytes)[n] = Parsed(ParseAfter(bytes)[n - 1], bytes[n])
         /\ \A n \in 0 .. Len(bytes) : ParseAfter(bytes)[n] \in Parse
<1> DEFINE N == Len(bytes)
           step == [p \in (1 .. N) \X Parse |-> Parsed(p[2], bytes[p[1]])]
           after == ParseAfter(bytes)
<1>1. VarParse(bytes) = after[N]
  BY Zenon DEF VarParse, ParseAfter
<1>2. N \in Nat /\ \A n \in 1 .. N : bytes[n] \in Bytes
  OBVIOUS
<1>3. NoParts \in Parse
  BY DEF NoParts, Parse
<1>4. \A n \in 1 .. N : \A v \in Parse : Parsed(v, bytes[n]) \in Parse
  BY <1>2, ParsedType
<1>5. step \in [(1 .. N) \X Parse -> Parse]
  BY <1>4
<1>6. \A n \in 1 .. N : \A v \in Parse : step[<<n, v>>] = Parsed(v, bytes[n])
  OBVIOUS
<1> HIDE DEF step, N
<1>7. PICK f : MadeForwards(f, Parse, NoParts, N, step)
  BY <1>2, <1>3, <1>5, Forwards
<1>8. /\ f \in [0 .. N -> Parse] /\ f[0] = NoParts
      /\ \A n \in 1 .. N : f[n] = Parsed(f[n - 1], bytes[n])
  <2>1. \A n \in 1 .. N : n - 1 \in 0 .. N
    BY <1>2
  <2> QED
    BY <1>6, <1>7, <2>1 DEF MadeForwards
<1>9. f = [n \in 0 .. N |-> IF n = 0 THEN NoParts ELSE Parsed(f[n - 1], bytes[n])]
  BY <1>2, <1>8
<1>10. after = [n \in 0 .. N |-> IF n = 0 THEN NoParts ELSE Parsed(after[n - 1], bytes[n])]
  BY <1>9, Zenon DEF ParseAfter, N
<1> HIDE DEF after
<1>11. after[0] = NoParts /\ \A n \in 1 .. N : after[n] = Parsed(after[n - 1], bytes[n])
  BY <1>2, <1>10
<1> DEFINE S == {n \in 0 .. N : after[n] \in Parse}
<1>12. 0 \in S
  BY <1>2, <1>3, <1>11
<1>13. ASSUME NEW n \in 0 .. N - 1, n \in S PROVE n + 1 \in S
  <2>1. n + 1 \in 1 .. N /\ (n + 1) - 1 = n
    BY <1>2
  <2> QED
    BY <1>4, <1>11, <1>13, <2>1
<1> HIDE DEF S
<1>14. \A n \in 0 .. N : n \in S
  BY <1>2, <1>12, <1>13, InductionTo
<1> QED
  BY <1>1, <1>11, <1>14 DEF S, after, N

(* A string ends at its first Nul.                                        *)
LEMMA StringWhole ==
  ASSUME NEW S, NEW bytes \in Seq(S), \A i \in 1 .. Len(bytes) : bytes[i] # Nul
  PROVE  String(bytes) = bytes
<1>1. {i \in 1 .. Len(bytes) : bytes[i] = Nul} = {}
  OBVIOUS
<1> QED
  BY <1>1, Zenon DEF String

LEMMA StringUpto ==
  ASSUME NEW S, NEW bytes \in Seq(S), NEW k \in 1 .. Len(bytes), bytes[k] = Nul,
         \A i \in 1 .. k - 1 : bytes[i] # Nul
  PROVE  String(bytes) = SubSeq(bytes, 1, k - 1)
<1> DEFINE ends == {i \in 1 .. Len(bytes) : bytes[i] = Nul}
           first == CHOOSE i \in ends : \A j \in ends : i <= j
<1>1. k \in ends /\ \A j \in ends : k <= j
  OBVIOUS
<1>2. \A j \in ends : j \in Int
  OBVIOUS
<1>3. String(bytes) = IF ends = {} THEN bytes ELSE SubSeq(bytes, 1, first - 1)
  BY Zenon DEF String
<1> HIDE DEF ends
<1>4. first \in ends /\ \A j \in ends : first <= j
  BY <1>1
<1> HIDE DEF first
<1>5. first = k
  BY <1>1, <1>2, <1>4
<1>6. ends # {}
  BY <1>1
<1> QED
  BY <1>3, <1>5, <1>6

LEMMA StringType ==
  ASSUME NEW S, NEW bytes \in Seq(S)
  PROVE  String(bytes) \in Seq(S)
<1> DEFINE ends == {i \in 1 .. Len(bytes) : bytes[i] = Nul}
<1>1. CASE ends = {}
  BY <1>1, StringWhole
<1>2. CASE ends # {}
  <2>1. ends \in SUBSET Nat
    OBVIOUS
  <2>2. PICK k \in ends : \A j \in ends : k <= j
    BY <1>2, <2>1, LeastOf
  <2>3. k \in 1 .. Len(bytes) /\ bytes[k] = Nul
    OBVIOUS
  <2>4. \A i \in 1 .. k - 1 : bytes[i] # Nul
    BY <2>2, <2>3
  <2>5. String(bytes) = SubSeq(bytes, 1, k - 1)
    BY <2>3, <2>4, StringUpto
  <2> QED
    BY <2>3, <2>5
<1> QED
  BY <1>1, <1>2

(* A number is one, whatever the name.                                    *)
ValueAfter(name) ==
  CHOOSE value : value = [n \in 0 .. Len(name) |->
    IF n = 0 THEN 0 ELSE 10 * value[n - 1] + (IF name[n] = "1" THEN 1 ELSE 2)]

LEMMA NumberType ==
  ASSUME NEW S, NEW name \in Seq(S)
  PROVE  Number(name) \in Nat
<1> DEFINE N == Len(name)
           Add(n, v) == 10 * v + (IF name[n] = "1" THEN 1 ELSE 2)
           step == [p \in (1 .. N) \X Nat |-> Add(p[1], p[2])]
           value == ValueAfter(name)
<1>1. Number(name) = value[N]
  BY Zenon DEF Number, ValueAfter
<1>2. N \in Nat /\ 0 \in Nat
  OBVIOUS
<1>3. \A n \in 1 .. N : \A v \in Nat : Add(n, v) \in Nat
  OBVIOUS
<1> HIDE DEF Add
<1>4. step \in [(1 .. N) \X Nat -> Nat]
  BY <1>3
<1>5. \A n \in 1 .. N : \A v \in Nat : step[<<n, v>>] = Add(n, v)
  OBVIOUS
<1> HIDE DEF step, N
<1>6. PICK f : MadeForwards(f, Nat, 0, N, step)
  BY <1>2, <1>4, Forwards
<1>7. f = [n \in 0 .. N |-> IF n = 0 THEN 0 ELSE Add(n, f[n - 1])]
  <2>1. \A n \in 1 .. N : n - 1 \in 0 .. N
    BY <1>2
  <2>2. /\ f \in [0 .. N -> Nat] /\ f[0] = 0
        /\ \A n \in 1 .. N : f[n] = Add(n, f[n - 1])
    BY <1>5, <1>6, <2>1 DEF MadeForwards
  <2> QED
    BY <1>2, <2>2
<1>8. value = [n \in 0 .. N |-> IF n = 0 THEN 0 ELSE Add(n, value[n - 1])]
  BY <1>7, Zenon DEF ValueAfter, N, Add
<1> HIDE DEF value
<1> DEFINE T == {n \in 0 .. N : value[n] \in Nat}
<1>9. 0 \in T
  BY <1>2, <1>8
<1>10. ASSUME NEW n \in 0 .. N - 1, n \in T PROVE n + 1 \in T
  <2>1. n + 1 \in 1 .. N /\ n + 1 \in 0 .. N /\ (n + 1) - 1 = n /\ n + 1 # 0
    BY <1>2
  <2>2. value[n + 1] = Add(n + 1, value[n])
    BY <1>8, <2>1
  <2> QED
    BY <1>3, <1>10, <2>1, <2>2
<1> HIDE DEF T
<1>11. \A n \in 0 .. N : n \in T
  BY <1>2, <1>9, <1>10, InductionTo
<1> QED
  BY <1>1, <1>2, <1>11 DEF T

(* The text of a group has no Nul.                                        *)
Plainly == Seq(Bytes \ {Nul})

(* So has none of the texts the code finds by a number or a name.          *)
LEMMA ListedType ==
  ASSUME ProxyAssumption, NEW r \in Requests, NEW n \in Nat
  PROVE  Listed(n, r) \in Plainly
<1>1. r \in Seq(Plainly)
  BY DEF ProxyAssumption, Plainly
<1>2. <<>> \in Plainly
  BY DEF Plainly
<1> HIDE DEF Plainly
<1> QED
  BY <1>1, <1>2 DEF Listed

LEMMA TextOfType ==
  ASSUME ProxyAssumption, NEW r \in Requests, NEW S, NEW name \in Seq(S)
  PROVE  TextOf(name, r) \in Plainly
<1>1. Listed(Number(name), r) \in Plainly
  BY NumberType, ListedType
<1>2. NamedText(name, r) \in Plainly
  <2>1. <<>> \in Plainly
    BY DEF Plainly
  <2>2. name \in DOMAIN GroupNames => GroupNames[name] \in Nat
    BY DEF ProxyAssumption
  <2> QED
    BY <2>1, <2>2, ListedType DEF NamedText
<1> QED
  BY <1>1, <1>2 DEF TextOf

(* A path as far as it has been put together.                             *)
Faults == {"short", "name", "wild"}
Path == [chars : Seq(Bytes), allocated : BOOLEAN, faults : SUBSET Faults, dead : BOOLEAN]

(* What a literal part and a variable add. *)
LEMMA LiteralIs ==
  ASSUME NEW u \in Path, NEW part \in Part
  PROVE  /\ Literal(u, part) \in Path
         /\ Literal(u, part).chars = u.chars \o part
         /\ Literal(u, part).dead = u.dead
<1>1. u.chars \o part \in Seq(Bytes)
  BY DEF Path, Part
<1> DEFINE chars == u.chars \o part
           faults == IF u.allocated THEN u.faults \cup {"short"} ELSE u.faults
<1>2. faults \in SUBSET Faults
  BY DEF Path, Faults
<1>3. Literal(u, part) =
        [u EXCEPT !.chars = chars, !.allocated = TRUE, !.faults = faults]
  BY DEF Literal
<1> HIDE DEF chars, faults, Faults
<1>4. Literal(u, part) \in Path /\ Literal(u, part).chars = chars
      /\ Literal(u, part).dead = u.dead
  BY <1>1, <1>2, <1>3 DEF Path, chars
<1> QED
  BY <1>4 DEF chars

LEMMA NameType ==
  ASSUME NEW S, NEW part \in Seq(S)
  PROVE  Name(part) \in Seq(S) /\ String(Name(part)) \in Seq(S)
<1>1. Len(Prefix) = 3
  BY DEF Prefix
<1>2. SubSeq(part, 4, Len(part) - 1) \in Seq(S)
  BY SubSeqIs
<1>3. Name(part) \in Seq(S)
  BY <1>1, <1>2 DEF Name
<1> QED
  BY <1>3, StringType

(* What a part that is replaced by a text makes of a path.                *)
Replaced(w, u, value) == w.chars = u.chars \o value /\ w.dead = u.dead

LEMMA CompiledReplaces ==
  ASSUME ProxyAssumption, NEW r \in Requests, NEW u \in Path, NEW part \in Part
  PROVE  /\ TextOf(String(Name(part)), r) \in Plainly
         /\ VariableCompiled(u, part, r) \in Path
         /\ Replaced(VariableCompiled(u, part, r), u, TextOf(String(Name(part)), r))
         /\ VariableCompiled(u, part, r).faults = u.faults \cup NameFaults(part, r)
<1> DEFINE value == TextOf(String(Name(part)), r)
           chars == u.chars \o value
           allocated == u.allocated \/ value # <<>>
           faults == u.faults \cup NameFaults(part, r)
<1>1. value \in Plainly
  <2>1. part \in Seq(Bytes)
    BY DEF Part
  <2> QED
    BY <2>1, NameType, TextOfType
<1>2. VariableCompiled(u, part, r) =
        [u EXCEPT !.chars = chars, !.allocated = allocated, !.faults = faults]
  BY DEF VariableCompiled
<1>3. value \in Seq(Bytes)
  BY <1>1 DEF Plainly
<1>4. faults \in SUBSET Faults
  BY DEF NameFaults, Path, Faults
<1> HIDE DEF value, faults, Faults
<1>5. chars \in Seq(Bytes) /\ allocated \in BOOLEAN
  BY <1>3 DEF Path
<1> HIDE DEF chars, allocated
<1>6. /\ VariableCompiled(u, part, r) \in Path
      /\ VariableCompiled(u, part, r).chars = chars
      /\ VariableCompiled(u, part, r).dead = u.dead
      /\ VariableCompiled(u, part, r).faults = faults
  BY <1>2, <1>4, <1>5 DEF Path
<1>7. Replaced(VariableCompiled(u, part, r), u, value)
  BY <1>6, Zenon DEF Replaced, chars
<1> QED
  BY <1>1, <1>6, <1>7, Zenon DEF value, faults

(* Variable, case by case.                                                *)
Died(u) == [u EXCEPT !.dead = TRUE]

LEMMA VariableByTests ==
  ASSUME NEW u, NEW part \in Part, NEW r
  PROVE  /\ ~IsPathVariable(part) => Variable(u, part, r) = u
         /\ IsPathVariable(part) /\ Len(part) <= Len(Prefix) =>
              Variable(u, part, r) = Died(u)
         /\ IsPathVariable(part) /\ Len(part) > Len(Prefix) =>
              Variable(u, part, r) = VariableCompiled(u, part, r)
<1> DEFINE P == ~IsPathVariable(part)
           Q == IsPathVariable(part) /\ Len(part) <= Len(Prefix)
           R == IsPathVariable(part) /\ Len(part) > Len(Prefix)
           q == Died(u)
           s == VariableCompiled(u, part, r)
           w == Variable(u, part, r)
<1>1. w = CASE P -> u [] Q -> q [] R -> s
  BY Zenon DEF Variable, Died
<1>2. (P => ~Q /\ ~R) /\ (Q => ~R)
  <2>1. Len(part) \in Nat /\ Len(Prefix) = 3
    BY DEF Part, Prefix
  <2> QED
    BY <2>1
<1> HIDE DEF P, Q, R, q, s, w
<1>3. (P => w = u) /\ (Q => w = q) /\ (R => w = s)
  BY <1>1, <1>2, Zenon
<1> QED
  BY <1>3, Zenon DEF P, Q, R, q, s, w

LEMMA ExtendedType ==
  ASSUME ProxyAssumption, NEW r \in Requests, NEW u \in Path, NEW part \in Part
  PROVE  Extended(u, part, r) \in Path
<1>1. Died(u) \in Path
  BY DEF Died, Path
<1>2. Variable(u, part, r) \in Path
  <2>1. VariableCompiled(u, part, r) \in Path
    BY CompiledReplaces, Zenon
  <2>2. IsPathVariable(part) \in BOOLEAN /\ Len(part) \in Nat /\ Len(Prefix) = 3
    BY DEF IsPathVariable, Part, Prefix
  <2>3. \/ ~IsPathVariable(part)
        \/ IsPathVariable(part) /\ Len(part) <= Len(Prefix)
        \/ IsPathVariable(part) /\ Len(part) > Len(Prefix)
    BY <2>2
  <2> QED
    BY <1>1, <2>1, <2>3, VariableByTests
<1> QED
  BY <1>2, LiteralIs DEF Extended

(* What has been put together of each of the parts.                       *)
PathAfter(ps, r) ==
  CHOOSE after : after = [n \in 0 .. Len(ps) |->
                            IF n = 0 THEN NoPath ELSE Extended(after[n - 1], ps[n], r)]

LEMMA PathRecursion ==
  ASSUME ProxyAssumption, NEW r \in Requests, NEW ps \in Seq(Part)
  PROVE  /\ PathAfter(ps, r)[0] = NoPath
         /\ \A n \in 1 .. Len(ps) :
              PathAfter(ps, r)[n] = Extended(PathAfter(ps, r)[n - 1], ps[n], r)
         /\ \A n \in 0 .. Len(ps) : PathAfter(ps, r)[n] \in Path
<1> DEFINE N == Len(ps)
           step == [p \in (1 .. N) \X Path |-> Extended(p[2], ps[p[1]], r)]
           after == PathAfter(ps, r)
<1>2. N \in Nat /\ \A n \in 1 .. N : ps[n] \in Part
  OBVIOUS
<1>3. NoPath \in Path
  BY DEF NoPath, Path, Faults
<1>4. \A n \in 1 .. N : \A u \in Path : Extended(u, ps[n], r) \in Path
  BY <1>2, ExtendedType
<1>5. step \in [(1 .. N) \X Path -> Path]
  BY <1>4
<1>6. \A n \in 1 .. N : \A u \in Path : step[<<n, u>>] = Extended(u, ps[n], r)
  OBVIOUS
<1> HIDE DEF step, N
<1>7. PICK f : MadeForwards(f, Path, NoPath, N, step)
  BY <1>2, <1>3, <1>5, Forwards
<1>8. /\ f \in [0 .. N -> Path] /\ f[0] = NoPath
      /\ \A n \in 1 .. N : f[n] = Extended(f[n - 1], ps[n], r)
  <2>1. \A n \in 1 .. N : n - 1 \in 0 .. N
    BY <1>2
  <2> QED
    BY <1>6, <1>7, <2>1 DEF MadeForwards
<1>9. f = [n \in 0 .. N |-> IF n = 0 THEN NoPath ELSE Extended(f[n - 1], ps[n], r)]
  BY <1>2, <1>8
<1>10. after = [n \in 0 .. N |-> IF n = 0 THEN NoPath ELSE Extended(after[n - 1], ps[n], r)]
  BY <1>9, Zenon DEF PathAfter, N
<1> HIDE DEF after
<1>11. after[0] = NoPath /\ \A n \in 1 .. N : after[n] = Extended(after[n - 1], ps[n], r)
  BY <1>2, <1>10
<1> DEFINE S == {n \in 0 .. N : after[n] \in Path}
<1>12. 0 \in S
  BY <1>2, <1>3, <1>11
<1>13. ASSUME NEW n \in 0 .. N - 1, n \in S PROVE n + 1 \in S
  <2>1. n + 1 \in 1 .. N /\ (n + 1) - 1 = n
    BY <1>2
  <2> QED
    BY <1>4, <1>11, <1>13, <2>1
<1> HIDE DEF S
<1>14. \A n \in 0 .. N : n \in S
  BY <1>2, <1>12, <1>13, InductionTo
<1> QED
  BY <1>11, <1>14 DEF S, after, N

(* Where a path begins, and how one more part is put to it.               *)
PathBegins(ps, r) == PathAfter(ps, r)[0] = NoPath

PathGoesOn(ps, r, n) ==
  PathAfter(ps, r)[n] = Extended(PathAfter(ps, r)[n - 1], ps[n], r)

LEMMA PathFirst ==
  ASSUME ProxyAssumption, NEW r \in Requests, NEW ps \in Seq(Part)
  PROVE  PathBegins(ps, r)
<1>1. PathAfter(ps, r)[0] = NoPath
  BY PathRecursion
<1> QED
  BY <1>1, Zenon DEF PathBegins

LEMMA PathNext ==
  ASSUME ProxyAssumption, NEW r \in Requests, NEW ps \in Seq(Part), NEW n \in 1 .. Len(ps)
  PROVE  PathGoesOn(ps, r, n)
<1>1. PathAfter(ps, r)[n] = Extended(PathAfter(ps, r)[n - 1], ps[n], r)
  BY PathRecursion
<1> QED
  BY <1>1, Zenon DEF PathGoesOn

LEMMA NextPathIs ==
  ASSUME NEW r
  PROVE  NextPath(r) = PathAfter(parts, r)[Len(parts)]
BY Zenon DEF NextPath, PathAfter

-----------------------------------------------------------------------------
(* The types of the variables. *)

(* The types, with the parts of a path, none of which is empty.           *)
TypeInv == TypeOK /\ parts \in Seq(Part)

(* What is read next of a text are characters. *)
LEMMA SymbolsAreChars ==
  ASSUME TokenAssumption, TokenTypeOK
  PROVE  Symbols \subseteq Chars
<1>1. /\ given.start \in Seq(Chars) /\ given.symbols \subseteq Chars
      /\ Len(text) \in Nat
  BY DEF TokenAssumption, TokenTypeOK
<1>2. CASE Len(text) < Len(given.start)
  <2>1. given.start[Len(text) + 1] \in Chars
    BY <1>1, <1>2
  <2> QED
    BY <1>2, <2>1 DEF Symbols
<1>3. CASE ~(Len(text) < Len(given.start))
  BY <1>1, <1>3 DEF Symbols
<1> QED
  BY <1>2, <1>3

(* A word that ends is copied to a word, in a buffer with a size.          *)
LEMMA WordType ==
  ASSUME TokenAssumption, NEW t \in Seq(Chars), base \in Nat, torn \in BOOLEAN,
         NEW from \in Nat, NEW to \in Int, base + to <= Len(t)
  PROVE  TokenCopied(t, from, to) \in Word
<1> DEFINE w == TokenCopied(t, from, to)
           bytes == SubSeq(t, base + from + 1, base + to)
           chars == IF to > from THEN Copied(bytes) ELSE <<>>
           size == IF to > from THEN to - from ELSE 0
<1>1. w = [chars |-> chars, size |-> size, torn |-> torn]
  BY DEF TokenCopied
<1>2. bytes \in Seq(Chars)
  BY SubSeqIs
<1> HIDE DEF bytes
<1>3. chars \in Seq(Chars) /\ size \in Nat
  BY <1>2, CopiedType
<1> HIDE DEF chars, size
<1> QED
  BY <1>1, <1>3 DEF Word

(* The steps, one by one. *)
LEMMA TakeCharTypes ==
  ASSUME TokenAssumption, TokenTypeOK, NEW c, TakeChar(c)
  PROVE  TokenTypeOK'
<1> DEFINE pos == Len(text) + 1 - base
           kind == Ended(lex, c)
           copied == TokenCopied(text', start, pos)
           starts == StartsWord(lex, c)
           ends == EndsWord(lex, c)
<1>1. /\ c \in Symbols
      /\ text' = Append(text, c)
      /\ left' = IF left > 0 THEN left - 1 ELSE 0
      /\ lex' = IF kind = "none" THEN Scanned(lex, c) ELSE Fresh
      /\ start' = IF starts THEN pos - Before(c) ELSE start
      /\ torn' = (torn /\ ~starts)
      /\ words' = IF ends THEN Append(words, copied) ELSE words
      /\ named' = (named \/ ends)
      /\ lexfault' \in IF ends THEN CopyOutcomes(pos - start) ELSE {"none"}
      /\ statement' = IF kind = "none" THEN None
                      ELSE [kind |-> kind,
                            words |-> IF kind = "close" THEN <<>> ELSE words']
      /\ given' = given /\ base' = base /\ handed' = handed /\ result' = result
  BY Zenon DEF TakeChar
<1>2. /\ given \in Texts /\ given.room \in Nat
      /\ text \in Seq(Chars) /\ base \in 0 .. Len(text) /\ left \in 0 .. given.room
      /\ lex \in Lex /\ start \in 0 .. given.room + Len(text)
      /\ torn \in BOOLEAN /\ words \in Seq(Word) /\ named \in BOOLEAN
      /\ handed \in Seq(Statement) /\ result \in {"reading", "error", "ok"}
  BY DEF TokenTypeOK, TokenAssumption
<1>3. text' \in Seq(Chars) /\ Len(text') = Len(text) + 1 /\ Len(text) \in Nat
  <2>1. c \in Chars
    BY <1>1, SymbolsAreChars
  <2> QED
    BY <1>1, <1>2, <2>1
<1>4. pos \in Nat /\ pos > 0 /\ base + pos = Len(text') /\ base \in Nat /\ start \in Nat
  BY <1>2, <1>3
<1>5. copied \in Word
  <2> HIDE DEF pos
  <2>1. base + pos <= Len(text')
    BY <1>3, <1>4
  <2> QED
    BY <1>2, <1>3, <1>4, <2>1, WordType
<1>6. kind \in Kinds \cup {"none"}
  BY <1>2, KindsEnded
<1>7. Scanned(lex, c) \in Lex /\ Fresh \in Lex
  BY <1>2, WordsBegin DEF Fresh, Lex, Modes
<1>8. starts \in BOOLEAN /\ ends \in BOOLEAN
  <2>1. starts \in BOOLEAN
    BY DEF StartsWord
  <2>2. ends \in BOOLEAN
    BY Zenon DEF EndsWord
  <2> QED
    BY <2>1, <2>2
<1>9. Before(c) \in {0, 1}
  BY DEF Before
<1>10. ends => CopyOutcomes(pos - start) \subseteq {"none", "null", "overrun"}
  <2>1. pos - start < 0 \/ pos - start = 0 \/ pos - start > 0
    BY <1>4
  <2> DEFINE P == pos - start < 0
             Q == pos - start = 0
             R == pos - start > 0
             out == CopyOutcomes(pos - start)
  <2>2. out = CASE P -> {"null"} [] Q -> {"none", "overrun"} [] R -> {"none"}
    BY Zenon DEF CopyOutcomes
  <2>3. (P \/ Q \/ R) /\ (P => ~Q /\ ~R) /\ (Q => ~R)
    BY <1>4
  <2> HIDE DEF P, Q, R, out
  <2>4. out = {"null"} \/ out = {"none", "overrun"} \/ out = {"none"}
    BY <2>2, <2>3, Zenon
  <2> QED
    BY <2>4 DEF out
<1> HIDE DEF pos, kind, copied, starts, ends
<1>11. words' \in Seq(Word) /\ <<>> \in Seq(Word)
  BY <1>1, <1>2, <1>5
<1>12. statement' \in Statement \cup {None}
  BY <1>1, <1>6, <1>11 DEF Statement
<1>13. start' \in 0 .. given.room + Len(text')
  <2> DEFINE room == given.room
             m == Len(text)
             x == Before(c)
  <2>1. /\ room \in Nat /\ m \in Nat /\ base \in Nat /\ start \in 0 .. room + m
        /\ x \in {0, 1} /\ pos = m + 1 - base /\ Len(text') = m + 1 /\ pos > 0
    BY <1>2, <1>3, <1>4, <1>9 DEF pos
  <2>2. start' = pos - x \/ start' = start
    BY <1>1
  <2> HIDE DEF room, m, x
  <2>3. start' \in 0 .. room + (m + 1)
    BY <2>1, <2>2
  <2> QED
    BY <2>1, <2>3 DEF room
<1>14. left' \in 0 .. given.room
  BY <1>1, <1>2
<1>15. lexfault' \in {"none", "null", "overrun", "unset"}
  BY <1>1, <1>10
<1>16. lex' \in Lex /\ torn' \in BOOLEAN /\ named' \in BOOLEAN
  BY <1>1, <1>2, <1>7, <1>8
<1>17. base' \in 0 .. Len(text')
  BY <1>1, <1>2, <1>3
<1> QED
  BY <1>1, <1>2, <1>3, <1>11, <1>12, <1>13, <1>14, <1>15, <1>16, <1>17 DEF TokenTypeOK

LEMMA RefillTypes ==
  ASSUME TokenAssumption, TokenTypeOK, Refill
  PROVE  TokenTypeOK'
<1>1. given.room \in Nat /\ Len(text) \in Nat
  BY DEF TokenTypeOK, TokenAssumption
<1>2. /\ base' = Len(text) /\ left' = given.room
      /\ torn' = (torn \/ InWord(lex))
      /\ result' \in {"reading", "error"}
      /\ UNCHANGED <<given, text, lex, start, words, named, statement, handed, lexfault>>
  BY DEF Refill, tokens
<1>3. torn' \in BOOLEAN
  BY <1>2 DEF TokenTypeOK, InWord
<1>4. base' \in 0 .. Len(text') /\ left' \in 0 .. given'.room
  BY <1>1, <1>2
<1> QED
  BY <1>2, <1>3, <1>4 DEF TokenTypeOK

LEMMA EndOfFileTypes ==
  ASSUME TokenTypeOK, EndOfFile
  PROVE  TokenTypeOK'
BY DEF TokenTypeOK, EndOfFile, reader, tokens

LEMMA EndOfCmdlineTypes ==
  ASSUME TokenAssumption, TokenTypeOK, EndOfCmdline
  PROVE  TokenTypeOK'
<1>1. PICK c \in Symbols : text' = Append(text, c)
  BY DEF EndOfCmdline
<1>2. c \in Chars /\ text \in Seq(Chars) /\ given.room \in Nat
  BY SymbolsAreChars DEF TokenTypeOK, TokenAssumption
<1>3. text' \in Seq(Chars) /\ Len(text') = Len(text) + 1 /\ Len(text) \in Nat
  BY <1>1, <1>2
<1>4. /\ UNCHANGED <<given, base, left, lex, start, torn, words, named, statement,
                     handed, lexfault>>
      /\ result' = "ok"
  BY DEF EndOfCmdline, tokens
<1>5. base' \in 0 .. Len(text') /\ start' \in 0 .. given'.room + Len(text')
  BY <1>2, <1>3, <1>4 DEF TokenTypeOK
<1> QED
  BY <1>3, <1>4, <1>5 DEF TokenTypeOK

(* fs_conf_handle may refuse a statement.                                 *)
LEMMA HandOverTypes ==
  ASSUME TokenTypeOK, HandOver(statement), result' \in {"reading", "error", "ok"}
  PROVE  TokenTypeOK'
<1>1. /\ handed' = Append(handed, statement) /\ statement # None
      /\ statement' = None /\ words' = <<>>
      /\ lexfault' \in {"none", "unset"}
      /\ UNCHANGED <<given, text, base, left, lex, start, torn, named>>
  BY DEF HandOver, reader
<1>2. statement \in Statement /\ handed \in Seq(Statement)
  BY <1>1 DEF TokenTypeOK
<1>3. handed' \in Seq(Statement) /\ words' \in Seq(Word)
  BY <1>1, <1>2
<1> QED
  BY <1>1, <1>3 DEF TokenTypeOK

(* The bytes of an argument, with what lies behind it. *)
LEMMA TakenApartTypes ==
  ASSUME ProxyAssumption, NEW w \in Word, NEW bytes \in BytesOf(w)
  PROVE  bytes \in Seq(Bytes)
<1> DEFINE n == w.size - Len(w.chars) - 1
<1>1. w.chars \in Seq(Bytes) /\ w.size \in Nat /\ n \in Int
  <2>1. w.chars \in Seq(Chars) /\ w.size \in Nat
    BY DEF Word
  <2>2. Chars \subseteq Bytes
    BY DEF Bytes
  <2>3. w.chars \in Seq(Bytes)
    BY <2>1, <2>2
  <2> QED
    BY <2>1, <2>3
<1>2. <<Nul>> \in Seq(Bytes)
  BY DEF Bytes
<1>3. CASE w.size = 0
  <2>1. bytes = <<>>
    BY <1>3 DEF BytesOf
  <2> QED
    BY <2>1
<1>4. CASE w.size # 0
  <2>1. PICK junk \in [1 .. n -> Junk] : bytes = w.chars \o <<Nul>> \o junk
    BY <1>4 DEF BytesOf
  <2>2. junk \in Seq(Bytes)
    <3>1. CASE n >= 0
      <4>1. junk \in [1 .. n -> Bytes] /\ n \in Nat
        BY <1>1, <2>1, <3>1 DEF ProxyAssumption
      <4> HIDE DEF n
      <4> QED
        BY <4>1
    <3>2. CASE n < 0
      <4>1. 1 .. n = 1 .. 0
        BY <1>1, <3>2
      <4>2. junk \in [1 .. 0 -> Bytes]
        BY <2>1, <4>1 DEF ProxyAssumption
      <4> QED
        BY <4>2
    <3> QED
      BY <1>1, <3>1, <3>2
  <2> HIDE DEF n
  <2> QED
    BY <1>1, <1>2, <2>1, <2>2
<1> QED
  BY <1>3, <1>4

LEMMA PartsTypes ==
  ASSUME NEW bytes \in Seq(Bytes)
  PROVE  VarParse(bytes) \in Parse /\ VarParse(bytes).parts \in Seq(Part)
<1>1. Len(bytes) \in 0 .. Len(bytes)
  OBVIOUS
<1>2. VarParse(bytes) \in Parse
  BY <1>1, ParseRecursion
<1> QED
  BY <1>2 DEF Parse

LEMMA PassPathTypes ==
  ASSUME ProxyAssumption, TypeInv, PassPath(statement)
  PROVE  TypeInv'
<1>1. /\ HandOver(statement) /\ Len(statement.words) = 2
      /\ argument' = statement.words[2]
      /\ phase' \in {"accepted", "refused"}
      /\ result' = result \/ result' = "error"
      /\ UNCHANGED <<request, url, pathfault>>
  BY DEF PassPath
<1>2. argument' \in Word
  <2>1. statement \in Statement
    BY <1>1 DEF HandOver, TypeInv, TypeOK, TokenTypeOK
  <2>2. statement.words \in Seq(Word)
    BY <2>1 DEF Statement
  <2> QED
    BY <1>1, <2>2
<1>3. parts' \in Seq(Part)
  <2>1. PICK bytes \in BytesOf(argument') : parts' = VarParse(bytes).parts
    BY <1>1 DEF PassPath
  <2>2. bytes \in Seq(Bytes)
    BY <1>2, <2>1, TakenApartTypes
  <2> QED
    BY <2>1, <2>2, PartsTypes
<1>4. parts' \in Seq(Seq(Bytes))
  BY <1>3 DEF Part
<1>5. TokenTypeOK'
  <2>1. result' \in {"reading", "error", "ok"}
    BY <1>1 DEF TypeInv, TypeOK, TokenTypeOK
  <2> QED
    BY <1>1, <2>1, HandOverTypes DEF TypeInv, TypeOK
<1> QED
  BY <1>1, <1>2, <1>3, <1>4, <1>5 DEF TypeInv, TypeOK

LEMMA InitCbTypes ==
  ASSUME ProxyAssumption, TypeInv, NEW r \in Requests, InitCb(r)
  PROVE  TypeInv'
<1> DEFINE next == NextPath(r)
<1>1. next \in Path
  <2>1. parts \in Seq(Part) /\ Len(parts) \in 0 .. Len(parts)
    BY DEF TypeInv
  <2> QED
    BY <2>1, PathRecursion, NextPathIs
<1>2. /\ url' = [chars |-> next.chars, allocated |-> next.allocated]
      /\ pathfault' \in next.faults \cup {IF next.dead THEN "size" ELSE "none"}
      /\ request' = r /\ phase' = "served"
      /\ UNCHANGED <<tokenVars, argument, parts>>
  BY DEF InitCb
<1>3. /\ url' \in [chars : Seq(Bytes), allocated : BOOLEAN]
      /\ pathfault' \in {"none", "short", "size", "wild", "name"}
  <2> HIDE DEF next
  <2> QED
    BY <1>1, <1>2 DEF Path, Faults
<1>4. TokenTypeOK'
  BY <1>2 DEF TypeInv, TypeOK, TokenTypeOK, tokenVars, reader, tokens
<1> QED
  BY <1>2, <1>3, <1>4 DEF TypeInv, TypeOK

LEMMA OtherTypes ==
  ASSUME TypeInv, TokenTypeOK', UNCHANGED proxyVars
  PROVE  TypeInv'
BY DEF TypeInv, TypeOK, proxyVars

LEMMA TypesInit == TokenAssumption /\ Init => TypeInv
<1> SUFFICES ASSUME TokenAssumption, Init PROVE TypeInv
  OBVIOUS
<1>1. given \in Texts /\ given.room \in Nat
  BY DEF Init, TokenInit, TokenAssumption
<1>2. Fresh \in Lex
  BY DEF Fresh, Lex, Modes
<1>3. /\ <<>> \in Seq(Chars) /\ <<>> \in Seq(Word) /\ <<>> \in Seq(Statement)
      /\ <<>> \in Seq(Part) /\ <<>> \in Seq(Seq(Bytes)) /\ <<>> \in Seq(Bytes)
  OBVIOUS
<1>4. TokenTypeOK
  <2>1. /\ text = <<>> /\ base = 0 /\ left = 0 /\ lex = Fresh /\ start = 0
        /\ torn = FALSE /\ words = <<>> /\ named = FALSE /\ statement = None
        /\ handed = <<>> /\ result = "reading" /\ lexfault = "none"
    BY DEF Init, TokenInit
  <2>2. /\ base \in 0 .. Len(text) /\ left \in 0 .. given.room
        /\ start \in 0 .. given.room + Len(text)
    BY <1>1, <2>1
  <2>3. /\ text \in Seq(Chars) /\ words \in Seq(Word) /\ handed \in Seq(Statement)
        /\ lex \in Lex
    BY <1>2, <1>3, <2>1, Zenon
  <2> QED
    BY <1>1, <2>1, <2>2, <2>3 DEF TokenTypeOK
<1>5. NoWord \in Word
  BY <1>3 DEF NoWord, Word
<1>6. NoUrl \in [chars : Seq(Bytes), allocated : BOOLEAN]
  BY <1>3 DEF NoUrl
<1> QED
  BY <1>3, <1>4, <1>5, <1>6 DEF Init, TypeInv, TypeOK

LEMMA TypesStep ==
  ASSUME TokenAssumption, ProxyAssumption, TypeInv, [Next]_vars
  PROVE  TypeInv'
<1>1. TokenTypeOK
  BY DEF TypeInv, TypeOK
<1>2. CASE (Refill \/ EndOfFile \/ EndOfCmdline) /\ UNCHANGED proxyVars
  BY <1>1, <1>2, RefillTypes, EndOfFileTypes, EndOfCmdlineTypes, OtherTypes
<1>3. ASSUME NEW c \in Chars, TakeChar(c), UNCHANGED proxyVars PROVE TypeInv'
  BY <1>1, <1>3, TakeCharTypes, OtherTypes
<1>4. CASE (Handle(statement) \/ HandleRefuses(statement)) /\ UNCHANGED proxyVars
  <2>1. HandOver(statement) /\ (result' = result \/ result' = "error")
    BY <1>4 DEF Handle, HandleRefuses
  <2>2. result' \in {"reading", "error", "ok"}
    BY <1>1, <2>1 DEF TokenTypeOK
  <2> QED
    BY <1>1, <1>4, <2>1, <2>2, HandOverTypes, OtherTypes
<1>5. CASE PassPath(statement)
  BY <1>5, PassPathTypes
<1>6. CASE PassPathRefuses(statement)
  BY <1>4, <1>6 DEF PassPathRefuses
<1>7. ASSUME NEW r \in Requests, InitCb(r) PROVE TypeInv'
  BY <1>7, InitCbTypes
<1>8. CASE ReleaseCb
  <2>1. TokenTypeOK'
    BY <1>1, <1>8 DEF TokenTypeOK, ReleaseCb, tokenVars, reader, tokens
  <2>2. NoUrl \in [chars : Seq(Bytes), allocated : BOOLEAN]
    BY DEF NoUrl
  <2> QED
    BY <1>8, <2>1, <2>2 DEF TypeInv, TypeOK, ReleaseCb
<1>9. CASE UNCHANGED vars
  <2>1. TokenTypeOK'
    BY <1>1, <1>9 DEF TokenTypeOK, vars, tokenVars, reader, tokens
  <2> QED
    BY <1>9, <2>1, OtherTypes DEF vars
<1> QED
  BY <1>2, <1>3, <1>4, <1>5, <1>6, <1>7, <1>8, <1>9 DEF Next

LEMMA TypesKept == Spec => []TypeInv
<1>1. TypeInv /\ [Next]_vars => TypeInv'
  BY TypesStep, TokenAssumption, ProxyAssumption
<1>2. Init => TypeInv
  BY TypesInit, TokenAssumption
<1> QED
  BY <1>1, <1>2, PTL DEF Spec

(* Every variable of the reader and of the route keeps its type: the words *)
(* fs_conf_next_token copies and the parts and paths proxy.c makes of them *)
(* are texts of characters, sizes are never negative, whatever the text.   *)
THEOREM TypeCorrect == Spec => []TypeOK
<1>1. TypeInv => TypeOK
  BY DEF TypeInv
<1> QED
  BY <1>1, TypesKept, PTL

-----------------------------------------------------------------------------
(* Reading in pieces follows reading as a whole. *)

(* Texts that agree over a stretch. *)
LEMMA SubSeqSame ==
  ASSUME NEW S, NEW s \in Seq(S), NEW t \in Seq(S), NEW m \in Nat, m > 0, NEW n \in Int,
         n <= Len(s), n <= Len(t), \A i \in m .. n : s[i] = t[i]
  PROVE  SubSeq(s, m, n) = SubSeq(t, m, n)
<1> DEFINE u == SubSeq(s, m, n)
           v == SubSeq(t, m, n)
<1>1. /\ u \in Seq(S) /\ v \in Seq(S) /\ Len(u) = Len(v)
      /\ Len(u) = IF m <= n THEN n - m + 1 ELSE 0
  BY SubSeqIs
<1>2. ASSUME NEW i \in 1 .. Len(u) PROVE u[i] = v[i]
  <2>1. i \in 1 .. n - m + 1
    BY <1>1, <1>2
  <2>2. u[i] = s[i + m - 1] /\ v[i] = t[i + m - 1]
    BY <2>1, SubSeqIs
  <2>3. i + m - 1 \in m .. n
    BY <2>1
  <2> QED
    BY <2>2, <2>3
<1> HIDE DEF u, v
<1>3. u = v
  BY <1>1, <1>2, SeqEqual
<1> QED
  BY <1>3 DEF u, v

(* What a text begins with decides what is made of it.                    *)
LEMMA SameBeginning ==
  ASSUME TokenAssumption, NEW t \in Seq(Chars), NEW u \in Seq(Chars), Len(t) <= Len(u),
         \A i \in 1 .. Len(t) : u[i] = t[i]
  PROVE  \A n \in 0 .. Len(t) : After(u)[n] = After(t)[n]
<1> DEFINE S == {n \in 0 .. Len(t) : After(u)[n] = After(t)[n]}
<1>1. 0 \in S
  BY AfterRecursion
<1>2. ASSUME NEW n \in 0 .. Len(t) - 1, n \in S PROVE n + 1 \in S
  <2> DEFINE s == After(t)[n]
             k == n + 1
  <2>1. s \in Read /\ n \in 0 .. Len(t) /\ k \in 1 .. Len(t) /\ k \in 1 .. Len(u) /\ k - 1 = n
    BY AfterRecursion
  <2>2. After(t)[k] = ReadOn(s, t, k) /\ After(u)[k] = ReadOn(After(u)[n], u, k)
    BY <2>1, AfterRecursion
  <2>3. After(u)[n] = s
    BY <1>2
  <2>4. u[k] = t[k]
    BY <2>1
  <2>5. SubSeq(u, s.from, k) = SubSeq(t, s.from, k)
    <3> DEFINE m == s.from
    <3>1. m \in Nat /\ m > 0
      BY <2>1 DEF Read
    <3>2. \A i \in m .. k : i \in 1 .. Len(t)
      <4> HIDE DEF m, k
      <4> QED
        BY <2>1, <3>1
    <3>3. \A i \in m .. k : u[i] = t[i]
      BY <3>2, Zenon
    <3>4. k \in Int /\ k <= Len(u) /\ k <= Len(t)
      BY <2>1
    <3> HIDE DEF s, k, m
    <3>5. SubSeq(u, m, k) = SubSeq(t, m, k)
      BY <3>1, <3>3, <3>4, SubSeqSame
    <3> QED
      BY <3>5 DEF m
  <2> HIDE DEF s, k
  <2>6. ReadOn(s, u, k) = ReadOn(s, t, k)
    BY <2>4, <2>5, Zenon DEF ReadOn
  <2>7. After(u)[k] = After(t)[k]
    BY <2>2, <2>3, <2>6
  <2> QED
    BY <2>1, <2>7 DEF k
<1> HIDE DEF S
<1>3. \A n \in 0 .. Len(t) : n \in S
  <2> DEFINE N == Len(t)
  <2>1. N \in Nat /\ \A n \in 0 .. N - 1 : n \in S => n + 1 \in S
    BY <1>2
  <2> HIDE DEF N
  <2>2. \A n \in 0 .. N : n \in S
    BY <1>1, <2>1, InductionTo
  <2> QED
    BY <2>2 DEF N
<1> QED
  BY <1>3 DEF S

Behind(t) == After(t)[Len(t)]

(* A character more is one more step of reading. *)
LEMMA OneMore ==
  ASSUME TokenAssumption, NEW t \in Seq(Chars), NEW c \in Chars
  PROVE  /\ Behind(t) \in Read
         /\ Behind(Append(t, c)) = ReadOn(Behind(t), Append(t, c), Len(t) + 1)
         /\ Append(t, c) \in Seq(Chars) /\ Len(Append(t, c)) = Len(t) + 1
         /\ Append(t, c)[Len(t) + 1] = c
<1> DEFINE u == Append(t, c)
<1>1. /\ u \in Seq(Chars) /\ Len(u) = Len(t) + 1 /\ u[Len(t) + 1] = c /\ Len(t) \in Nat
      /\ \A i \in 1 .. Len(t) : u[i] = t[i]
  OBVIOUS
<1> HIDE DEF u
<1>2. Len(t) \in 0 .. Len(t) /\ Len(t) + 1 \in 1 .. Len(u) /\ (Len(t) + 1) - 1 = Len(t)
  BY <1>1
<1>3. After(u)[Len(t)] = After(t)[Len(t)]
  BY <1>1, <1>2, SameBeginning
<1>4. After(t)[Len(t)] \in Read
  BY <1>2, AfterRecursion
<1>5. After(u)[Len(t) + 1] = ReadOn(After(u)[Len(t)], u, Len(t) + 1)
  BY <1>1, <1>2, AfterRecursion
<1> QED
  BY <1>1, <1>3, <1>4, <1>5 DEF Behind, u

-----------------------------------------------------------------------------
(* The text that has been scanned: a command line loses its last byte.    *)
AtEndOfCmdline == given.source = "cmdline" /\ result = "ok"

ReadText == IF AtEndOfCmdline THEN SubSeq(text, 1, Len(text) - 1) ELSE text

Got == IF statement = None THEN handed ELSE Append(handed, statement)

(* The words of the code and those of the reference: as many, and each the *)
(* same but for torn ones.                                                 *)
WordsAgree(ws, ms) ==
  /\ Len(ws) = Len(ms)
  /\ \A j \in 1 .. Len(ws) : ~ws[j].torn => ws[j].chars = ms[j]

StatementsAgree(hs, ms) ==
  /\ Len(hs) = Len(ms)
  /\ \A i \in 1 .. Len(hs) :
       hs[i].kind = ms[i].kind /\ WordsAgree(hs[i].words, ms[i].words)

(* The flags are those of the reference, the word that is open begins where*)
(* its does unless it is torn, and what has been returned agrees.          *)
Follows(s) ==
  /\ lex = s.lex
  /\ InWord(lex) /\ ~torn => s.from = base + start + 1
  /\ StatementsAgree(Got, s.handed)
  /\ IF statement = None THEN WordsAgree(words, s.words) ELSE s.words = <<>>

FollowInv == lexfault = "none" => Follows(Behind(ReadText))

(* One more word, one more statement: the lists still agree. *)
LEMMA WordsAppended ==
  ASSUME NEW ws \in Seq(Word), NEW ms \in Seq(Texted), WordsAgree(ws, ms),
         NEW w \in Word, NEW m \in Texted, ~w.torn => w.chars = m
  PROVE  WordsAgree(Append(ws, w), Append(ms, m))
<1>1. /\ Len(Append(ws, w)) = Len(ws) + 1 /\ Len(Append(ms, m)) = Len(ms) + 1
      /\ \A j \in 1 .. Len(ws) + 1 :
           Append(ws, w)[j] = IF j = Len(ws) + 1 THEN w ELSE ws[j]
      /\ \A j \in 1 .. Len(ms) + 1 :
           Append(ms, m)[j] = IF j = Len(ms) + 1 THEN m ELSE ms[j]
  OBVIOUS
<1>2. Len(ws) = Len(ms) /\ Len(ws) \in Nat
  BY DEF WordsAgree
<1> QED
  BY <1>1, <1>2 DEF WordsAgree

LEMMA StatementsAppended ==
  ASSUME NEW hs \in Seq(Statement), NEW ms \in Seq(ReadStatement), StatementsAgree(hs, ms),
         NEW h \in Statement, NEW m \in ReadStatement,
         h.kind = m.kind, WordsAgree(h.words, m.words)
  PROVE  StatementsAgree(Append(hs, h), Append(ms, m))
<1>1. /\ Len(Append(hs, h)) = Len(hs) + 1 /\ Len(Append(ms, m)) = Len(ms) + 1
      /\ \A j \in 1 .. Len(hs) + 1 :
           Append(hs, h)[j] = IF j = Len(hs) + 1 THEN h ELSE hs[j]
      /\ \A j \in 1 .. Len(ms) + 1 :
           Append(ms, m)[j] = IF j = Len(ms) + 1 THEN m ELSE ms[j]
  OBVIOUS
<1>2. Len(hs) = Len(ms) /\ Len(hs) \in Nat
  BY DEF StatementsAgree
<1> QED
  BY <1>1, <1>2 DEF StatementsAgree

(* A character that is taken from the buffer is read as the reference      *)
(* reads it.  A word that ends there is copied from the same bytes, unless  *)
(* it is torn.                                                             *)
LEMMA FollowTakeChar ==
  ASSUME TokenAssumption, TypeInv, TokenInv, FollowInv, NEW c, TakeChar(c), TypeInv'
  PROVE  FollowInv'
<1> DEFINE pos == Len(text) + 1 - base
           kind == Ended(lex, c)
           copied == TokenCopied(text', start, pos)
           starts == StartsWord(lex, c)
           ends == EndsWord(lex, c)
           s == Behind(text)
           t == text'
           n == Len(text) + 1
           m == Copied(SubSeq(t, s.from, n))
           spelt == IF ends THEN Append(s.words, m) ELSE s.words
           read == [kind |-> kind, words |-> IF kind = "close" THEN <<>> ELSE spelt]
           given2 == [kind |-> kind, words |-> IF kind = "close" THEN <<>> ELSE words']
           z == Behind(text')
<1>1. /\ c \in Symbols
      /\ text' = Append(text, c)
      /\ lex' = IF kind = "none" THEN Scanned(lex, c) ELSE Fresh
      /\ start' = IF starts THEN pos - Before(c) ELSE start
      /\ torn' = (torn /\ ~starts)
      /\ words' = IF ends THEN Append(words, copied) ELSE words
      /\ statement' = IF kind = "none" THEN None ELSE given2
      /\ base' = base /\ handed' = handed /\ result' = result
      /\ result = "reading" /\ statement = None /\ lexfault = "none"
  BY Zenon DEF TakeChar, Reading
<1>2. /\ text \in Seq(Chars) /\ base \in Nat /\ lex \in Lex /\ start \in Nat
      /\ torn \in BOOLEAN /\ words \in Seq(Word) /\ handed \in Seq(Statement)
      /\ words' \in Seq(Word) /\ text' \in Seq(Chars)
      /\ statement' \in Statement \cup {None}
      /\ Len(text) \in Nat /\ base <= Len(text)
  <2>1. given \in Texts /\ given.room \in Nat
    BY DEF TypeInv, TypeOK, TokenTypeOK, TokenAssumption
  <2>2. /\ text \in Seq(Chars) /\ base \in 0 .. Len(text) /\ lex \in Lex
        /\ start \in 0 .. given.room + Len(text)
        /\ torn \in BOOLEAN /\ words \in Seq(Word) /\ handed \in Seq(Statement)
        /\ words' \in Seq(Word) /\ text' \in Seq(Chars)
        /\ statement' \in Statement \cup {None}
    BY DEF TypeInv, TypeOK, TokenTypeOK
  <2> QED
    BY <2>1, <2>2
<1>3. c \in Chars
  BY <1>1, SymbolsAreChars DEF TypeInv, TypeOK
<1>4. /\ s \in Read /\ z = ReadOn(s, t, n)
      /\ Len(t) = n /\ t[n] = c
  BY <1>1, <1>2, <1>3, OneMore
<1>5. /\ lex = s.lex
      /\ InWord(lex) /\ ~torn => s.from = base + start + 1
      /\ StatementsAgree(handed, s.handed)
      /\ WordsAgree(words, s.words)
  <2>1. ReadText = text
    BY <1>1 DEF ReadText, AtEndOfCmdline
  <2> QED
    BY <1>1, <2>1 DEF FollowInv, Follows, Got
<1>6. z = [lex |-> IF kind = "none" THEN Scanned(lex, c) ELSE Fresh,
           from |-> IF starts THEN n + 1 - Before(c) ELSE s.from,
           words |-> IF kind = "none" THEN spelt ELSE <<>>,
           handed |-> IF kind = "none" THEN s.handed ELSE Append(s.handed, read)]
  BY <1>4, <1>5, Zenon DEF ReadOn
<1>7. pos + base = n /\ pos \in Int
  BY <1>2
<1>8. ends => copied \in Word /\ copied.torn = torn /\ m \in Texted
              /\ (~torn => copied.chars = m)
  <2> SUFFICES ASSUME ends
               PROVE  copied \in Word /\ copied.torn = torn /\ m \in Texted
                      /\ (~torn => copied.chars = m)
    OBVIOUS
  <2>1. copied \in Word
    BY <1>2, <1>4, <1>7, WordType
  <2>2. copied.torn = torn
    BY DEF TokenCopied
  <2>3. m \in Texted
    <3>1. s.from \in Nat /\ s.from > 0
      BY <1>4 DEF Read
    <3>2. SubSeq(t, s.from, n) \in Seq(Chars)
      BY <1>2, <1>4, <3>1, SubSeqIs
    <3> QED
      BY <3>2, CopiedType DEF Texted
  <2>4. ASSUME ~torn PROVE copied.chars = m
    <3>1. InWord(lex)
      BY DEF EndsWord
    <3>2. start <= Len(text) - base
      BY <2>4, <3>1 DEF TokenInv, OpenWordBegan
    <3>3. pos > start
      BY <1>2, <3>2
    <3>4. s.from = base + start + 1 /\ n = base + pos
      BY <1>2, <1>5, <1>7, <2>4, <3>1
    <3>5. copied.chars = Copied(SubSeq(t, base + start + 1, base + pos))
      BY <3>3 DEF TokenCopied
    <3> HIDE DEF pos, n, s, copied
    <3> QED
      BY <3>4, <3>5
  <2> QED
    BY <2>1, <2>2, <2>3, <2>4
<1>9. kind \in Kinds \cup {"none"}
  BY <1>2, KindsEnded
<1>10. Before(c) \in {0, 1}
  BY DEF Before
<1>11. s.words \in Seq(Texted) /\ s.handed \in Seq(ReadStatement) /\ s.from \in Nat
  BY <1>4 DEF Read
<1>12. ReadText' = text'
  BY <1>1 DEF ReadText, AtEndOfCmdline
<1>13. kind = "none" \/ ~InWord(lex')
  BY <1>1 DEF InWord, Fresh
<1> HIDE DEF kind, copied, starts, ends, s, m, z
<1>14. WordsAgree(words', spelt) /\ spelt \in Seq(Texted)
  BY <1>1, <1>2, <1>5, <1>8, <1>11, WordsAppended, SMTT(30)
<1>15. lex' = z.lex
  BY <1>1, <1>6
<1>16. ASSUME InWord(lex'), ~torn' PROVE z.from = base' + start' + 1
  <2>1. kind = "none" /\ lex' = Scanned(lex, c)
    BY <1>1, <1>13, <1>16
  <2>2. InWord(lex) \/ starts
    BY <1>2, <1>16, <2>1, WordsBegin DEF starts
  <2>3. CASE starts
    <3>1. z.from = n + 1 - Before(c) /\ start' = pos - Before(c) /\ base' = base
      BY <1>1, <1>6, <2>3
    <3>2. z.from = n + 1 - Before(c)
      BY <3>1, Zenon
    <3>3. n = base + pos /\ base \in Nat /\ pos \in Nat
      BY <1>2, <1>4, <1>7
    <3> DEFINE k == Before(c)
    <3>4. k \in Nat
      BY <1>10
    <3> HIDE DEF n, pos, k
    <3> QED
      BY <3>1, <3>2, <3>3, <3>4 DEF k
  <2>4. CASE ~starts
    <3>1. z.from = s.from /\ start' = start /\ base' = base
      BY <1>1, <1>6, <2>4
    <3>2. InWord(lex) /\ ~torn
      BY <1>1, <1>2, <1>16, <2>2, <2>4
    <3> QED
      BY <1>5, <3>1, <3>2
  <2> QED
    BY <2>3, <2>4
<1>17. IF statement' = None THEN WordsAgree(words', z.words) ELSE z.words = <<>>
  <2>1. CASE kind = "none"
    BY <1>1, <1>6, <1>14, <2>1
  <2>2. CASE kind # "none"
    <3>1. given2 # None
      <4>1. given2.kind = kind
        OBVIOUS
      <4>2. None.kind = "none"
        BY DEF None
      <4> HIDE DEF given2
      <4> QED
        BY <2>2, <4>1, <4>2
    <3>2. statement' = given2 /\ z.words = <<>>
      BY <1>1, <1>6, <2>2
    <3> QED
      BY <3>1, <3>2
  <2> QED
    BY <2>1, <2>2
<1>18. StatementsAgree(Got', z.handed)
  <2>1. CASE kind = "none"
    <3>1. statement' = None /\ handed' = handed /\ z.handed = s.handed
      BY <1>1, <1>6, <2>1
    <3> QED
      BY <1>5, <3>1 DEF Got
  <2>2. CASE kind # "none"
    <3>1. given2.kind = read.kind /\ WordsAgree(given2.words, read.words)
      <4>1. WordsAgree(<<>>, <<>>)
        BY DEF WordsAgree
      <4> QED
        BY <1>14, <4>1
    <3>2. given2 # None /\ statement' = given2
      <4>1. given2.kind = kind
        OBVIOUS
      <4>2. None.kind = "none"
        BY DEF None
      <4>3. statement' = given2
        BY <1>1, <2>2
      <4> HIDE DEF given2
      <4> QED
        BY <2>2, <4>1, <4>2, <4>3
    <3>3. given2 \in Statement
      BY <1>2, <3>2
    <3>4. read \in ReadStatement
      <4>1. <<>> \in Seq(Texted)
        OBVIOUS
      <4> QED
        BY <1>9, <1>14, <2>2, <4>1 DEF ReadStatement
    <3>5. handed' = handed /\ z.handed = Append(s.handed, read)
      BY <1>1, <1>6, <2>2
    <3> HIDE DEF given2, read
    <3>6. StatementsAgree(Append(handed, given2), Append(s.handed, read))
      BY <1>2, <1>5, <1>11, <3>1, <3>3, <3>4, StatementsAppended
    <3> QED
      BY <3>2, <3>5, <3>6 DEF Got
  <2> QED
    BY <2>1, <2>2
<1> QED
  BY <1>12, <1>15, <1>16, <1>17, <1>18 DEF FollowInv, Follows, z

(* A refill tears the word that is open; nothing else of it matters.      *)
LEMMA FollowRefill ==
  ASSUME FollowInv, TypeInv, Refill
  PROVE  FollowInv'
<1>1. /\ torn' = (torn \/ InWord(lex)) /\ result' \in {"reading", "error"}
      /\ result = "reading"
      /\ UNCHANGED <<given, text, lex, start, words, statement, handed, lexfault>>
  BY DEF Refill, Reading, tokens
<1>2. ReadText' = text /\ ReadText = text
  BY <1>1 DEF ReadText, AtEndOfCmdline
<1>3. Behind(ReadText)' = Behind(text)
  BY <1>1, <1>2
<1>4. InWord(lex)' = InWord(lex)
  BY <1>1 DEF InWord
<1>5. Got' = Got
  BY <1>1 DEF Got
<1> QED
  BY <1>1, <1>2, <1>3, <1>4, <1>5 DEF FollowInv, Follows

(* What is read ends as it is: the last byte of a command line is not read.*)
LEMMA FollowEnd ==
  ASSUME FollowInv, TypeInv, TokenAssumption, EndOfFile \/ EndOfCmdline
  PROVE  FollowInv'
<1>1. /\ UNCHANGED <<given, base, lex, start, torn, words, statement, handed, lexfault>>
      /\ result = "reading" /\ result' = "ok"
  BY DEF EndOfFile, EndOfCmdline, Reading, reader, tokens
<1>2. ReadText' = text
  <2>1. CASE EndOfFile
    BY <2>1 DEF EndOfFile, reader, ReadText, AtEndOfCmdline
  <2>2. CASE EndOfCmdline
    <3>1. PICK c \in Symbols : text' = Append(text, c)
      BY <2>2 DEF EndOfCmdline
    <3>2. text \in Seq(Chars) /\ c \in Chars
      BY <3>1, SymbolsAreChars DEF TypeInv, TypeOK, TokenTypeOK
    <3>3. Len(text') = Len(text) + 1 /\ SubSeq(text', 1, Len(text)) = text /\ Len(text) \in Nat
      BY <3>1, <3>2
    <3>4. given'.source = "cmdline" /\ result' = "ok"
      BY <2>2 DEF EndOfCmdline
    <3> QED
      BY <3>3, <3>4 DEF ReadText, AtEndOfCmdline
  <2> QED
    BY <2>1, <2>2
<1>3. ReadText = text
  BY <1>1 DEF ReadText, AtEndOfCmdline
<1>4. Behind(ReadText)' = Behind(ReadText)
  BY <1>2, <1>3 DEF Behind
<1>5. InWord(lex)' = InWord(lex) /\ Got' = Got
  BY <1>1 DEF InWord, Got
<1> QED
  BY <1>1, <1>4, <1>5 DEF FollowInv, Follows

(* A statement that is handed over was returned before.                   *)
LEMMA FollowHandOver ==
  ASSUME FollowInv, HandOver(statement), result' # "ok"
  PROVE  FollowInv'
<1>1. /\ UNCHANGED <<given, text, base, lex, start, torn>>
      /\ result = "reading" /\ lexfault = "none"
      /\ handed' = Append(handed, statement) /\ statement # None
      /\ statement' = None /\ words' = <<>>
  BY DEF HandOver, reader
<1>2. ReadText' = text /\ ReadText = text
  BY <1>1 DEF ReadText, AtEndOfCmdline
<1>3. Behind(ReadText)' = Behind(ReadText)
  BY <1>1, <1>2
<1>4. InWord(lex)' = InWord(lex) /\ Got' = Got
  BY <1>1 DEF InWord, Got
<1>5. WordsAgree(<<>>, <<>>)
  BY DEF WordsAgree
<1> QED
  BY <1>1, <1>3, <1>4, <1>5 DEF FollowInv, Follows

LEMMA FollowUnchanged ==
  ASSUME FollowInv, UNCHANGED tokenVars
  PROVE  FollowInv'
<1>1. UNCHANGED <<given, text, base, lex, start, torn, words, statement, handed, result,
                  lexfault>>
  BY DEF tokenVars, reader, tokens
<1>2. ReadText' = ReadText /\ Got' = Got /\ InWord(lex)' = InWord(lex)
  BY <1>1 DEF ReadText, AtEndOfCmdline, Got, InWord
<1>3. Behind(ReadText)' = Behind(ReadText)
  BY <1>2
<1> QED
  BY <1>1, <1>2, <1>3 DEF FollowInv, Follows

LEMMA FollowInit == TokenAssumption /\ Init => FollowInv
<1> SUFFICES ASSUME TokenAssumption, Init PROVE FollowInv
  OBVIOUS
<1>1. /\ text = <<>> /\ lex = Fresh /\ words = <<>> /\ handed = <<>> /\ statement = None
      /\ result = "reading"
  BY DEF Init, TokenInit
<1>2. ReadText = <<>> /\ Got = <<>>
  BY <1>1 DEF ReadText, AtEndOfCmdline, Got
<1>3. Behind(<<>>) = NothingRead
  <2>1. <<>> \in Seq(Chars) /\ Len(<<>>) = 0
    OBVIOUS
  <2> QED
    BY <2>1, AfterRecursion DEF Behind
<1>4. ~InWord(Fresh)
  BY DEF InWord, Fresh
<1>5. WordsAgree(<<>>, <<>>) /\ StatementsAgree(<<>>, <<>>)
  BY DEF WordsAgree, StatementsAgree
<1>6. Behind(ReadText) = NothingRead
  BY <1>2, <1>3
<1> QED
  BY <1>1, <1>2, <1>4, <1>5, <1>6 DEF FollowInv, Follows, NothingRead

LEMMA FollowStep ==
  ASSUME TokenAssumption, TypeInv, TypeInv', TokenInv, FollowInv, [Next]_vars
  PROVE  FollowInv'
<1>1. CASE UNCHANGED tokenVars
  BY <1>1, FollowUnchanged
<1>2. CASE Refill
  BY <1>2, FollowRefill
<1>3. CASE EndOfFile \/ EndOfCmdline
  BY <1>3, FollowEnd
<1>4. ASSUME NEW c \in Chars, TakeChar(c) PROVE FollowInv'
  BY <1>4, FollowTakeChar
<1>5. CASE \/ Handle(statement) \/ HandleRefuses(statement)
           \/ PassPath(statement) \/ PassPathRefuses(statement)
  <2>1. HandOver(statement) /\ result' \in {result, "error"} /\ result = "reading"
    BY <1>5 DEF Handle, HandleRefuses, PassPath, PassPathRefuses, HandOver
  <2> QED
    BY <2>1, FollowHandOver
<1>6. ASSUME NEW r \in Requests, InitCb(r) PROVE FollowInv'
  BY <1>1, <1>6 DEF InitCb
<1>7. CASE ReleaseCb
  BY <1>1, <1>7 DEF ReleaseCb
<1>8. CASE UNCHANGED vars
  BY <1>1, <1>8 DEF vars
<1> QED
  BY <1>2, <1>3, <1>4, <1>5, <1>6, <1>7, <1>8 DEF Next

LEMMA FollowKept == Spec => []FollowInv
<1>1. TypeInv /\ TypeInv' /\ TokenInv /\ FollowInv /\ [Next]_vars => FollowInv'
  BY FollowStep, TokenAssumption
<1>2. Init => FollowInv
  BY FollowInit, TokenAssumption
<1> QED
  BY <1>1, <1>2, TypesKept, SpecInv, PTL DEF Spec

(* No statement ends with a blank.                                        *)
LEMMA BlankEndsNothing ==
  ASSUME NEW l \in Lex, NEW c \in Blank
  PROVE  Ended(l, c) = "none"
<1> DEFINE P == l.quoted \/ l.mode \in {"comment", "dquote", "squote"}
           Q == ~l.quoted /\ l.mode \in {"gap", "closed", "word"}
           A == c = ";"
           B == c = "{" /\ (l.mode # "word" \/ ~l.variable)
           C == c = "}" /\ l.mode = "gap"
           e == CASE A -> "param" [] B -> "open" [] C -> "close" [] OTHER -> "none"
<1>1. Ended(l, c) = CASE P -> "none" [] Q -> e
  BY Zenon DEF Ended
<1>2. (P \/ Q) /\ ~(P /\ Q)
  BY DEF Lex, Modes
<1>3. ~A /\ ~B /\ ~C
  BY DEF Blank
<1> HIDE DEF P, Q
<1>4. Ended(l, c) = "none" \/ Ended(l, c) = e
  BY <1>1, <1>2, Zenon
<1> HIDE DEF A, B, C
<1>5. e = "none"
  BY <1>3, Zenon
<1> QED
  BY <1>4, <1>5

(* What is meant by the text is what has been scanned of it: the byte a    *)
(* command line loses changes nothing when it is a blank.                  *)
LEMMA MeantIsRead ==
  ASSUME TokenAssumption, TypeInv, AtEndOfCmdline => text # <<>>
  PROVE  Meant = Behind(ReadText).handed
<1> DEFINE front == SubSeq(text, 1, Len(text) - 1)
           c == text[Len(text)]
<1>1. text \in Seq(Chars)
  BY DEF TypeInv, TypeOK, TokenTypeOK
<1>2. \A t \in Seq(Chars) : Tokenized(t) = Behind(t).handed
  BY AfterRecursion DEF Behind
<1>3. CASE ~AtEndOfCmdline
  <2>1. Meant = Tokenized(text) /\ ReadText = text
    BY <1>3 DEF Meant, AtEndOfCmdline, ReadText
  <2> QED
    BY <1>1, <1>2, <2>1
<1>4. CASE AtEndOfCmdline
  <2>1. front \in Seq(Chars) /\ c \in Chars /\ text = Append(front, c)
    BY <1>1, <1>4
  <2>2. ReadText = front
    BY <1>4 DEF ReadText
  <2>3. Meant = Tokenized(IF c \notin Blank THEN front ELSE text)
    BY <1>4, Zenon DEF Meant, AtEndOfCmdline
  <2> HIDE DEF front, c
  <2>4. CASE c \notin Blank
    BY <1>2, <2>1, <2>2, <2>3, <2>4
  <2>5. CASE c \in Blank
    <3>1. /\ Behind(front) \in Read
          /\ Behind(text) = ReadOn(Behind(front), text, Len(front) + 1)
          /\ text[Len(front) + 1] = c
      BY <2>1, OneMore
    <3>2. Ended(Behind(front).lex, c) = "none"
      BY <2>5, <3>1, BlankEndsNothing DEF Read
    <3>3. Behind(text).handed = Behind(front).handed
      BY <3>1, <3>2 DEF ReadOn
    <3> QED
      BY <1>1, <1>2, <2>2, <2>3, <2>5, <3>3
  <2> QED
    BY <2>4, <2>5
<1> QED
  BY <1>3, <1>4

(* A command line has lost a byte when it has been read.                  *)
LostByte == AtEndOfCmdline => text # <<>>

LEMMA ByteLost == Spec => []LostByte
<1>1. TypeInv /\ LostByte /\ [Next]_vars => LostByte'
  <2> SUFFICES ASSUME TypeInv, LostByte, [Next]_vars PROVE LostByte'
    OBVIOUS
  <2>1. text \in Seq(Chars)
    BY DEF TypeInv, TypeOK, TokenTypeOK
  <2>2. CASE UNCHANGED tokenVars
    BY <2>2 DEF tokenVars, reader, LostByte, AtEndOfCmdline
  <2>3. CASE Refill
    BY <2>3 DEF Refill, LostByte, AtEndOfCmdline
  <2>4. CASE EndOfFile
    BY <2>4 DEF EndOfFile, reader, LostByte, AtEndOfCmdline
  <2>5. CASE EndOfCmdline
    <3>1. PICK c : text' = Append(text, c)
      BY <2>5 DEF EndOfCmdline
    <3>2. text' # <<>>
      BY <2>1, <3>1
    <3> QED
      BY <3>2 DEF LostByte
  <2>6. ASSUME NEW c \in Chars, TakeChar(c) PROVE LostByte'
    BY <2>6 DEF TakeChar, Reading, LostByte, AtEndOfCmdline
  <2>7. CASE \/ Handle(statement) \/ HandleRefuses(statement)
             \/ PassPath(statement) \/ PassPathRefuses(statement)
    <3>1. HandOver(statement) /\ result' \in {result, "error"} /\ result = "reading"
      BY <2>7 DEF Handle, HandleRefuses, PassPath, PassPathRefuses, HandOver
    <3> QED
      BY <3>1 DEF LostByte, AtEndOfCmdline
  <2>8. ASSUME NEW r \in Requests, InitCb(r) PROVE LostByte'
    BY <2>2, <2>8 DEF InitCb
  <2>9. CASE ReleaseCb
    BY <2>2, <2>9 DEF ReleaseCb
  <2>10. CASE UNCHANGED vars
    BY <2>2, <2>10 DEF vars
  <2> QED
    BY <2>3, <2>4, <2>5, <2>6, <2>7, <2>8, <2>9, <2>10 DEF Next
<1>2. Init => LostByte
  BY DEF Init, TokenInit, LostByte, AtEndOfCmdline
<1> QED
  BY <1>1, <1>2, TypesKept, PTL DEF Spec

(* Wherever fs_file_read cuts the text, fs_conf_next_token returns the     *)
(* statements and words of the whole text, and of the words only those may *)
(* read differently that were open when the buffer was refilled.           *)
THEOREM CutsHarmOpenWordsOnly == Spec => []CutsHarmOnlyOpenWords
<1>1. TypeInv /\ LostByte /\ FollowInv => CutsHarmOnlyOpenWords
  <2> SUFFICES ASSUME TypeInv, LostByte, FollowInv, lexfault = "none"
               PROVE  StatementsAgree(Got, Meant)
    BY DEF CutsHarmOnlyOpenWords, StatementsAgree, WordsAgree, Got
  <2>1. Meant = Behind(ReadText).handed
    BY MeantIsRead, TokenAssumption DEF LostByte
  <2> QED
    BY <2>1 DEF FollowInv, Follows
<1> QED
  BY <1>1, TypesKept, ByteLost, FollowKept, PTL

-----------------------------------------------------------------------------
(* A well-formed path is put together as it was configured. *)

(* What the parts make of a request.                                      *)
Made(ps, r) == PathAfter(ps, r)[Len(ps)]

AgreeTo(ps, qs, n) ==
  n <= Len(ps) /\ n <= Len(qs) /\ \A i \in 1 .. n : ps[i] = qs[i]

SamePath(ps, qs, r, n) == PathAfter(ps, r)[n] = PathAfter(qs, r)[n]

(* Parts that agree up to one make the same path up to it. *)
LEMMA SameParts ==
  ASSUME ProxyAssumption, NEW r \in Requests, NEW ps \in Seq(Part), NEW qs \in Seq(Part),
         NEW N \in Nat, AgreeTo(ps, qs, N)
  PROVE  SamePath(ps, qs, r, N)
<1>0. N <= Len(ps) /\ N <= Len(qs) /\ \A i \in 1 .. N : ps[i] = qs[i]
  BY DEF AgreeTo
<1> DEFINE S == {n \in 0 .. N : PathAfter(ps, r)[n] = PathAfter(qs, r)[n]}
<1>1. 0 \in S
  <2>1. PathBegins(ps, r) /\ PathBegins(qs, r)
    BY PathFirst
  <2>2. PathAfter(ps, r)[0] = PathAfter(qs, r)[0]
    BY <2>1, Zenon DEF PathBegins
  <2>3. 0 \in 0 .. N
    OBVIOUS
  <2> QED
    BY <2>2, <2>3, Zenon
<1>2. ASSUME NEW n \in 0 .. N - 1, n \in S PROVE n + 1 \in S
  <2> DEFINE k == n + 1
  <2>1. k \in 1 .. Len(ps) /\ k \in 1 .. Len(qs) /\ k \in 1 .. N /\ k - 1 = n
    BY <1>0
  <2> HIDE DEF k
  <2>2. PathGoesOn(ps, r, k) /\ PathGoesOn(qs, r, k)
    BY <2>1, PathNext
  <2>4. PathAfter(ps, r)[k - 1] = PathAfter(qs, r)[k - 1] /\ ps[k] = qs[k]
    <3>1. PathAfter(ps, r)[n] = PathAfter(qs, r)[n]
      BY <1>2, Zenon
    <3> QED
      BY <1>0, <2>1, <3>1
  <2>3. PathAfter(ps, r)[k] = PathAfter(qs, r)[k]
    BY <2>2, <2>4, Zenon DEF PathGoesOn
  <2> QED
    BY <2>1, <2>3 DEF k
<1> HIDE DEF S
<1>3. \A n \in 0 .. N : n \in S
  BY <1>1, <1>2, InductionTo
<1>4. N \in S
  BY <1>3
<1> QED
  BY <1>4, Zenon DEF S, SamePath

LEMMA MadeType ==
  ASSUME ProxyAssumption, NEW r \in Requests, NEW ps \in Seq(Part)
  PROVE  Made(ps, r) \in Path
<1>1. Len(ps) \in 0 .. Len(ps)
  OBVIOUS
<1> QED
  BY <1>1, PathRecursion DEF Made

LEMMA MadeOfNone ==
  ASSUME ProxyAssumption, NEW r \in Requests
  PROVE  Made(<<>>, r) = NoPath
<1>1. <<>> \in Seq(Part) /\ Len(<<>>) = 0
  OBVIOUS
<1> QED
  BY <1>1, PathRecursion DEF Made

LEMMA MadeOfMore ==
  ASSUME ProxyAssumption, NEW r \in Requests, NEW ps \in Seq(Part), NEW part \in Part
  PROVE  /\ Append(ps, part) \in Seq(Part)
         /\ Made(Append(ps, part), r) = Extended(Made(ps, r), part, r)
<1> DEFINE qs == Append(ps, part)
           N == Len(ps)
<1>1. /\ qs \in Seq(Part) /\ Len(qs) = N + 1 /\ qs[N + 1] = part /\ N \in Nat
      /\ \A i \in 1 .. N : qs[i] = ps[i]
  OBVIOUS
<1> HIDE DEF qs
<1>2. N + 1 \in 1 .. Len(qs) /\ (N + 1) - 1 = N /\ N \in 0 .. N
  BY <1>1
<1>3. PathAfter(qs, r)[N + 1] = Extended(PathAfter(qs, r)[N], part, r)
  <2>1. PathGoesOn(qs, r, N + 1)
    BY <1>1, <1>2, PathNext
  <2> QED
    BY <1>1, <1>2, <2>1 DEF PathGoesOn
<1>4. PathAfter(qs, r)[N] = PathAfter(ps, r)[N]
  <2> HIDE DEF N
  <2>1. N <= Len(qs) /\ N <= Len(ps) /\ \A i \in 1 .. N : qs[i] = ps[i]
    BY <1>1 DEF N
  <2>2. AgreeTo(qs, ps, N) /\ N \in Nat
    BY <1>1, <2>1 DEF AgreeTo, N
  <2>3. SamePath(qs, ps, r, N)
    BY <1>1, <2>2, SameParts
  <2> QED
    BY <2>3, Zenon DEF SamePath
<1> QED
  BY <1>1, <1>3, <1>4 DEF Made, qs

(* The parts but the last, and the last.                                  *)
ButLast(ps) == SubSeq(ps, 1, Len(ps) - 1)

(* Parts are their last one behind the others. *)
LEMMA LastPart ==
  ASSUME NEW S, NEW ps \in Seq(S), ps # <<>>
  PROVE  /\ ButLast(ps) \in Seq(S) /\ ps[Len(ps)] \in S
         /\ ps = Append(ButLast(ps), ps[Len(ps)])
         /\ \A x \in S : [ps EXCEPT ![Len(ps)] = x] = Append(ButLast(ps), x)
         /\ \A x \in S : ButLast(Append(ps, x)) = ps
<1>1. ButLast(ps) \in Seq(S) /\ ps[Len(ps)] \in S /\ Len(ps) \in Nat /\ Len(ps) > 0
      /\ Len(ButLast(ps)) = Len(ps) - 1
      /\ \A i \in 1 .. Len(ps) - 1 : ButLast(ps)[i] = ps[i]
  <2>1. Len(ps) \in Nat /\ Len(ps) > 0 /\ ps[Len(ps)] \in S
    OBVIOUS
  <2> DEFINE n == Len(ps) - 1
             u == SubSeq(ps, 1, n)
  <2>2. n \in Nat /\ n <= Len(ps)
    BY <2>1
  <2>3. /\ u \in Seq(S) /\ Len(u) = IF 1 <= n THEN n - 1 + 1 ELSE 0
        /\ \A i \in 1 .. n - 1 + 1 : u[i] = ps[i + 1 - 1]
    <3> HIDE DEF n
    <3> QED
      BY <2>2, SubSeqIs
  <2> HIDE DEF u
  <2>4. Len(u) = n
    <3> HIDE DEF n
    <3>1. 1 <= n \/ n = 0
      BY <2>2
    <3> QED
      BY <2>2, <2>3, <3>1
  <2>5. \A i \in 1 .. n : u[i] = ps[i]
    <3> HIDE DEF n
    <3>1. \A i \in 1 .. n : i \in 1 .. n - 1 + 1 /\ i + 1 - 1 = i
      BY <2>2
    <3> QED
      BY <2>3, <3>1
  <2> QED
    BY <2>1, <2>3, <2>4, <2>5 DEF ButLast, u
<1>2. ps = Append(ButLast(ps), ps[Len(ps)])
  BY DEF ButLast
<1>3. ASSUME NEW x \in S PROVE [ps EXCEPT ![Len(ps)] = x] = Append(ButLast(ps), x)
  <2> DEFINE u == [ps EXCEPT ![Len(ps)] = x]
             v == Append(ButLast(ps), x)
  <2>1. u \in Seq(S) /\ Len(u) = Len(ps)
        /\ \A i \in 1 .. Len(ps) : u[i] = IF i = Len(ps) THEN x ELSE ps[i]
    OBVIOUS
  <2> HIDE DEF u
  <2>2. v \in Seq(S) /\ Len(v) = Len(ps)
        /\ \A i \in 1 .. Len(ps) : v[i] = IF i = Len(ps) THEN x ELSE ButLast(ps)[i]
    BY <1>1
  <2> HIDE DEF v
  <2>3. ASSUME NEW i \in 1 .. Len(u) PROVE u[i] = v[i]
    <3>1. i \in 1 .. Len(ps)
      BY <2>1
    <3>2. CASE i = Len(ps)
      BY <2>1, <2>2, <3>1, <3>2
    <3>3. CASE i # Len(ps)
      <4>1. i \in 1 .. Len(ps) - 1
        BY <3>1, <3>3
      <4>2. ButLast(ps)[i] = ps[i]
        BY <1>1, <4>1
      <4>3. u[i] = ps[i] /\ v[i] = ButLast(ps)[i]
        BY <2>1, <2>2, <3>1, <3>3
      <4> QED
        BY <4>2, <4>3
    <3> QED
      BY <3>2, <3>3
  <2>4. u = v
    BY <2>1, <2>2, <2>3, SeqEqual
  <2> QED
    BY <2>4 DEF u, v
<1>4. \A x \in S : ButLast(Append(ps, x)) = ps
  BY DEF ButLast
<1> QED
  BY <1>1, <1>2, <1>3, <1>4

(* A literal part is added as it is; a path only grows, and once the size  *)
(* of a name has wrapped around nothing is added.                          *)
IsLiteral(part) == part[1] # "$"

LEMMA ExtendedByLiteral ==
  ASSUME ProxyAssumption, NEW r \in Requests, NEW u \in Path, NEW part \in Part,
         IsLiteral(part), ~u.dead
  PROVE  /\ Extended(u, part, r) = Literal(u, part)
         /\ Extended(u, part, r).chars = u.chars \o part
         /\ ~Extended(u, part, r).dead
BY LiteralIs DEF Extended, IsLiteral

Starts(s, z) == Len(z) <= Len(s) /\ \A i \in 1 .. Len(z) : s[i] = z[i]

LEMMA PathGrows ==
  ASSUME ProxyAssumption, NEW r \in Requests, NEW u \in Path, NEW part \in Part
  PROVE  Starts(Extended(u, part, r).chars, u.chars)
<1>1. u.chars \in Seq(Bytes)
  BY DEF Path
<1>2. ASSUME NEW x \in Seq(Bytes) PROVE Starts(u.chars \o x, u.chars)
  BY <1>1, ConcatIs DEF Starts
<1>3. Starts(u.chars, u.chars)
  BY <1>1 DEF Starts
<1>4. Starts(Literal(u, part).chars, u.chars)
  BY <1>2, LiteralIs DEF Part
<1>5. Starts(VariableCompiled(u, part, r).chars, u.chars)
  <2>1. TextOf(String(Name(part)), r) \in Seq(Bytes)
    <3>1. TextOf(String(Name(part)), r) \in Plainly
      BY CompiledReplaces, Zenon
    <3> QED
      BY <3>1 DEF Plainly
  <2>2. Replaced(VariableCompiled(u, part, r), u, TextOf(String(Name(part)), r))
    BY CompiledReplaces, Zenon
  <2> QED
    BY <1>2, <2>1, <2>2, Zenon DEF Replaced
<1>6. Starts(Died(u).chars, u.chars)
  <2>1. Died(u).chars = u.chars
    BY DEF Died, Path
  <2> QED
    BY <1>3, <2>1
<1>7. Starts(Variable(u, part, r).chars, u.chars)
  <2>1. \/ Variable(u, part, r) = u
        \/ Variable(u, part, r) = Died(u)
        \/ Variable(u, part, r) = VariableCompiled(u, part, r)
    <3>1. Len(part) \in Nat /\ Len(Prefix) = 3 /\ IsPathVariable(part) \in BOOLEAN
      BY DEF Part, Prefix, IsPathVariable
    <3>2. \/ ~IsPathVariable(part)
          \/ IsPathVariable(part) /\ Len(part) <= Len(Prefix)
          \/ IsPathVariable(part) /\ Len(part) > Len(Prefix)
      BY <3>1
    <3> QED
      BY <3>2, VariableByTests
  <2> QED
    BY <1>3, <1>5, <1>6, <2>1
<1> QED
  BY <1>3, <1>4, <1>7 DEF Extended

(* A variable of an argument, character by character.                     *)
Spans(chars, i, j) ==
  /\ i + 2 < j
  /\ chars[i] = "$" /\ chars[i + 1] = "{" /\ chars[i + 2] = "p" /\ chars[j] = "}"
  /\ \A k \in i + 3 .. j - 1 : chars[k] \notin Marks

LEMMA VariableIs ==
  ASSUME NEW chars \in Seq(Chars), NEW i \in 1 .. Len(chars), NEW j \in 1 .. Len(chars),
         VariableAt(chars, i, j)
  PROVE  Spans(chars, i, j)
<1>0. i + 2 < j
  BY Zenon DEF VariableAt
<1>1. /\ i + 2 < j /\ SubSeq(chars, i, i + 2) = Prefix /\ chars[j] = "}"
      /\ \A k \in i + 3 .. j - 1 : chars[k] \notin Marks
  BY Zenon DEF VariableAt
<1>2. i \in Nat /\ i > 0 /\ i + 2 \in Int /\ i + 2 <= Len(chars)
  BY <1>0
<1>3. \A k \in 1 .. (i + 2) - i + 1 : SubSeq(chars, i, i + 2)[k] = chars[k + i - 1]
  BY <1>2, SubSeqIs
<1>4. Prefix[1] = chars[i] /\ Prefix[2] = chars[i + 1] /\ Prefix[3] = chars[i + 2]
  <2>1. (i + 2) - i + 1 = 3 /\ 1 + i - 1 = i /\ 2 + i - 1 = i + 1 /\ 3 + i - 1 = i + 2
    BY <1>2
  <2>2. 1 \in 1 .. 3 /\ 2 \in 1 .. 3 /\ 3 \in 1 .. 3
    OBVIOUS
  <2>3. \A k \in 1 .. 3 : Prefix[k] = chars[k + i - 1]
    BY <1>1, <1>3, <2>1
  <2> QED
    BY <2>1, <2>2, <2>3
<1>5. chars[i] = "$" /\ chars[i + 1] = "{" /\ chars[i + 2] = "p"
  BY <1>4 DEF Prefix
<1> QED
  BY <1>1, <1>5, Zenon DEF Spans

(* A character belongs to one variable at most.                           *)
LEMMA OneVariable ==
  ASSUME NEW chars \in Seq(Chars), NEW n \in 1 .. Len(chars),
         NEW i \in 1 .. n, NEW j \in n .. Len(chars), VariableAt(chars, i, j),
         NEW k \in 1 .. n, NEW l \in n .. Len(chars), VariableAt(chars, k, l)
  PROVE  i = k /\ j = l
<1>1. ASSUME NEW a \in 1 .. n, NEW b \in n .. Len(chars), VariableAt(chars, a, b),
             NEW c \in 1 .. n, NEW d \in n .. Len(chars), VariableAt(chars, c, d)
      PROVE  c <= a
  <2> SUFFICES ASSUME a < c PROVE FALSE
    OBVIOUS
  <2>1. a \in 1 .. Len(chars) /\ b \in 1 .. Len(chars) /\ c \in 1 .. Len(chars)
        /\ d \in 1 .. Len(chars)
    OBVIOUS
  <2>2. /\ a + 2 < b
        /\ chars[a] = "$" /\ chars[a + 1] = "{" /\ chars[a + 2] = "p" /\ chars[b] = "}"
        /\ \A x \in a + 3 .. b - 1 : chars[x] \notin Marks
    <3>1. Spans(chars, a, b)
      BY <1>1, <2>1, VariableIs, Zenon
    <3> QED
      BY <3>1, Zenon DEF Spans
  <2>3. chars[c] = "$"
    <3>1. Spans(chars, c, d)
      BY <1>1, <2>1, VariableIs, Zenon
    <3> QED
      BY <3>1, Zenon DEF Spans
  <2>4. c = a + 1 \/ c = a + 2 \/ c = b \/ c \in a + 3 .. b - 1
    <3>1. a \in Nat /\ b \in Nat /\ c \in Nat /\ c <= b /\ a < c
      OBVIOUS
    <3> QED
      BY <3>1
  <2> QED
    BY <2>2, <2>3, <2>4 DEF Marks
<1>2. i = k
  <2>1. i <= k /\ k <= i
    BY <1>1
  <2> QED
    BY <2>1
<1>3. ASSUME NEW b \in n .. Len(chars), VariableAt(chars, i, b),
             NEW d \in n .. Len(chars), VariableAt(chars, i, d)
      PROVE  d <= b
  <2> SUFFICES ASSUME b < d PROVE FALSE
    OBVIOUS
  <2>1. i \in 1 .. Len(chars) /\ b \in 1 .. Len(chars) /\ d \in 1 .. Len(chars)
    OBVIOUS
  <2>2. i + 2 < b /\ chars[b] = "}"
    <3>1. Spans(chars, i, b)
      BY <1>3, <2>1, VariableIs, Zenon
    <3> QED
      BY <3>1, Zenon DEF Spans
  <2>3. \A x \in i + 3 .. d - 1 : chars[x] \notin Marks
    <3>1. Spans(chars, i, d)
      BY <1>3, <2>1, VariableIs, Zenon
    <3> QED
      BY <3>1, Zenon DEF Spans
  <2>4. b \in i + 3 .. d - 1
    <3>1. i \in Nat /\ b \in Nat /\ d \in Nat /\ b < d
      OBVIOUS
    <3>2. i + 2 < b
      BY <2>2, Zenon
    <3> QED
      BY <3>1, <3>2
  <2> QED
    BY <2>2, <2>3, <2>4 DEF Marks
<1>4. j <= l /\ l <= j
  <2>1. VariableAt(chars, i, l)
    BY <1>2
  <2> QED
    BY <1>3, <2>1
<1> QED
  BY <1>2, <1>4

(* What a character stands for, by the variable it belongs to.            *)
LEMMA MeaningOutside ==
  ASSUME NEW chars \in Seq(Chars), NEW n \in 1 .. Len(chars), NEW r, Variables(chars, n) = {}
  PROVE  Meaning(chars, n, r) = <<chars[n]>>
BY DEF Meaning

LEMMA MeaningInside ==
  ASSUME NEW chars \in Seq(Chars), NEW n \in 1 .. Len(chars), NEW r,
         NEW i \in 1 .. n, NEW j \in n .. Len(chars), VariableAt(chars, i, j)
  PROVE  /\ <<i, j>> \in Variables(chars, n)
         /\ n # j => Meaning(chars, n, r) = <<>>
         /\ n = j => Meaning(chars, n, r) = TextOf(SubSeq(chars, i + 3, j - 1), r)
<1> DEFINE vs == Variables(chars, n)
           v == CHOOSE x \in vs : TRUE
<1>1. <<i, j>> \in vs
  BY DEF Variables
<1>2. \A x \in vs : x[1] = i /\ x[2] = j
  <2> SUFFICES ASSUME NEW x \in vs PROVE x[1] = i /\ x[2] = j
    OBVIOUS
  <2>1. x[1] \in 1 .. n /\ x[2] \in n .. Len(chars) /\ VariableAt(chars, x[1], x[2])
    BY DEF Variables
  <2> QED
    BY <2>1, OneVariable
<1>3. i \in 1 .. Len(chars) /\ j \in 1 .. Len(chars)
  OBVIOUS
<1>4. /\ i + 2 < j
      /\ chars[i] = "$" /\ chars[i + 1] = "{" /\ chars[i + 2] = "p" /\ chars[j] = "}"
      /\ \A k \in i + 3 .. j - 1 : chars[k] \notin Marks
  <2>1. Spans(chars, i, j)
    BY <1>3, VariableIs, Zenon
  <2> QED
    BY <2>1, Zenon DEF Spans
<1>5. n # j => chars[n] # "}"
  <2>1. n # j => n = i \/ n = i + 1 \/ n = i + 2 \/ n \in i + 3 .. j - 1
    <3>1. i \in Nat /\ j \in Nat /\ n \in Nat /\ i <= n /\ n <= j
      OBVIOUS
    <3> QED
      BY <3>1
  <2> QED
    BY <1>4, <2>1 DEF Marks
<1>6. Meaning(chars, n, r) = IF vs = {} THEN <<chars[n]>>
                             ELSE IF chars[n] # "}" THEN <<>>
                             ELSE TextOf(SubSeq(chars, v[1] + 3, v[2] - 1), r)
  BY Zenon DEF Meaning
<1> HIDE DEF vs
<1>7. v \in vs /\ vs # {}
  BY <1>1
<1>8. v[1] = i /\ v[2] = j
  BY <1>2, <1>7
<1> HIDE DEF v
<1>9. n # j => Meaning(chars, n, r) = <<>>
  BY <1>5, <1>6, <1>7
<1>10. n = j => Meaning(chars, n, r) = TextOf(SubSeq(chars, i + 3, j - 1), r)
  BY <1>4, <1>6, <1>7, <1>8
<1> QED
  BY <1>1, <1>9, <1>10 DEF vs

LEMMA MeaningType ==
  ASSUME TokenAssumption, ProxyAssumption, NEW chars \in Seq(Chars),
         NEW n \in 1 .. Len(chars), NEW r \in Requests
  PROVE  Meaning(chars, n, r) \in Plainly
<1>1. CASE Variables(chars, n) = {}
  <2>1. chars[n] \in Bytes \ {Nul}
    BY DEF ProxyAssumption, Bytes
  <2>2. <<chars[n]>> \in Plainly
    BY <2>1 DEF Plainly
  <2> QED
    BY <1>1, <2>2, MeaningOutside
<1>2. CASE Variables(chars, n) # {}
  <2>1. PICK v \in Variables(chars, n) : TRUE
    BY <1>2
  <2> DEFINE i == v[1]
             j == v[2]
  <2>2. i \in 1 .. n /\ j \in n .. Len(chars) /\ VariableAt(chars, i, j)
    BY DEF Variables
  <2> HIDE DEF i, j
  <2>3. Meaning(chars, n, r) = <<>> \/ Meaning(chars, n, r) = TextOf(SubSeq(chars, i + 3, j - 1), r)
    BY <2>2, MeaningInside
  <2>4. SubSeq(chars, i + 3, j - 1) \in Seq(Chars)
    <3> DEFINE x == i + 3
               y == j - 1
    <3>1. x \in Nat /\ x > 0 /\ y \in Int /\ y <= Len(chars)
      BY <2>2
    <3> HIDE DEF x, y
    <3>2. SubSeq(chars, x, y) \in Seq(Chars)
      BY <3>1, SubSeqIs
    <3> QED
      BY <3>2 DEF x, y
  <2>5. TextOf(SubSeq(chars, i + 3, j - 1), r) \in Plainly
    BY <2>4, TextOfType
  <2>6. <<>> \in Plainly
    BY DEF Plainly
  <2> QED
    BY <2>3, <2>5, <2>6
<1> QED
  BY <1>1, <1>2

(* What the characters stand for up to each.                              *)
SubstitutedTo(chars, r) ==
  CHOOSE upto : upto = [n \in 0 .. Len(chars) |->
                          IF n = 0 THEN <<>> ELSE upto[n - 1] \o Meaning(chars, n, r)]

LEMMA SubstitutedRecursion ==
  ASSUME TokenAssumption, ProxyAssumption, NEW chars \in Seq(Chars), NEW r \in Requests
  PROVE  /\ Substituted(chars, r) = SubstitutedTo(chars, r)[Len(chars)]
         /\ SubstitutedTo(chars, r)[0] = <<>>
         /\ \A n \in 1 .. Len(chars) : SubstitutedTo(chars, r)[n] =
              SubstitutedTo(chars, r)[n - 1] \o Meaning(chars, n, r)
         /\ \A n \in 0 .. Len(chars) : SubstitutedTo(chars, r)[n] \in Plainly
<1> DEFINE N == Len(chars)
           D == Plainly
           More(n, s) == s \o Meaning(chars, n, r)
           none == <<>>
           step == [p \in (1 .. N) \X D |-> More(p[1], p[2])]
           upto == SubstitutedTo(chars, r)
<1>1. Substituted(chars, r) = upto[N]
  BY Zenon DEF Substituted, SubstitutedTo
<1>2. N \in Nat
  OBVIOUS
<1>3. none \in D
  BY DEF Plainly
<1>4. \A n \in 1 .. N : \A s \in D : More(n, s) \in D
  <2> SUFFICES ASSUME NEW n \in 1 .. N, NEW s \in D PROVE More(n, s) \in D
    OBVIOUS
  <2>1. Meaning(chars, n, r) \in D
    BY MeaningType
  <2> QED
    BY <2>1 DEF Plainly
<1> HIDE DEF More, D, none
<1>5. step \in [(1 .. N) \X D -> D]
  BY <1>4
<1>6. \A n \in 1 .. N : \A s \in D : step[<<n, s>>] = More(n, s)
  OBVIOUS
<1> HIDE DEF step, N
<1>7. PICK f : MadeForwards(f, D, none, N, step)
  BY <1>2, <1>3, <1>5, Forwards
<1>8. /\ f \in [0 .. N -> D] /\ f[0] = none
      /\ \A n \in 1 .. N : f[n] = More(n, f[n - 1])
  <2>1. \A n \in 1 .. N : n - 1 \in 0 .. N
    BY <1>2
  <2> QED
    BY <1>6, <1>7, <2>1 DEF MadeForwards
<1>9. f = [n \in 0 .. N |-> IF n = 0 THEN none ELSE More(n, f[n - 1])]
  <2>1. f = [n \in 0 .. N |-> f[n]]
    BY <1>8
  <2>2. ASSUME NEW n \in 0 .. N PROVE f[n] = IF n = 0 THEN none ELSE More(n, f[n - 1])
    <3>1. n = 0 \/ n \in 1 .. N
      BY <1>2
    <3> QED
      BY <1>8, <3>1
  <2> QED
    BY <2>1, <2>2, Zenon
<1>10. upto = [n \in 0 .. N |-> IF n = 0 THEN none ELSE More(n, upto[n - 1])]
  BY <1>9, Zenon DEF SubstitutedTo, N, More, none
<1> HIDE DEF upto
<1>11. upto[0] = none /\ \A n \in 1 .. N : upto[n] = More(n, upto[n - 1])
  BY <1>2, <1>10
<1> DEFINE S == {n \in 0 .. N : upto[n] \in D}
<1>12. 0 \in S
  BY <1>2, <1>3, <1>11
<1>13. ASSUME NEW n \in 0 .. N - 1, n \in S PROVE n + 1 \in S
  <2>1. n + 1 \in 1 .. N /\ (n + 1) - 1 = n
    BY <1>2
  <2> QED
    BY <1>4, <1>11, <1>13, <2>1
<1> HIDE DEF S
<1>14. \A n \in 0 .. N : n \in S
  BY <1>2, <1>12, <1>13, InductionTo
<1>15. \A n \in 0 .. N : upto[n] \in D
  BY <1>14 DEF S
<1> QED
  BY <1>1, <1>11, <1>15, Zenon DEF upto, N, More, D, none

(* Outside of variables what has been written are whole parts and maybe a  *)
(* literal one; inside one it is the part being written, behind others.    *)
Outside(v, r, z) ==
  /\ v.ok /\ ~v.variable
  /\ ~Made(v.parts, r).dead /\ Made(v.parts, r).chars = z
  /\ v.in => IsLiteral(v.parts[Len(v.parts)])

Inside(v, r, z, part) ==
  /\ v.ok /\ v.variable
  /\ v.in /\ v.parts[Len(v.parts)] = part
  /\ ~Made(ButLast(v.parts), r).dead /\ Made(ButLast(v.parts), r).chars = z

(* A list behind which an entry is put. *)
LEMMA LastAppended ==
  ASSUME NEW S, NEW ps \in Seq(S), NEW x \in S
  PROVE  /\ Append(ps, x) \in Seq(S) /\ Append(ps, x)[Len(Append(ps, x))] = x
         /\ ButLast(Append(ps, x)) = ps
<1>1. /\ Append(ps, x) \in Seq(S)
      /\ Append(ps, x)[Len(Append(ps, x))] = x
  OBVIOUS
<1>2. SubSeq(Append(ps, x), 1, Len(Append(ps, x)) - 1) = ps
  OBVIOUS
<1> QED
  BY <1>1, <1>2 DEF ButLast

(* Writing on the last part.                                              *)
LEMMA LastReplaced ==
  ASSUME NEW S, NEW ps \in Seq(S), ps # <<>>, NEW x \in S
  PROVE  /\ ButLast(ps) \in Seq(S) /\ ps[Len(ps)] \in S
         /\ [ps EXCEPT ![Len(ps)] = x] = Append(ButLast(ps), x)
BY LastPart

LEMMA PartGrows ==
  ASSUME NEW part \in Part, NEW c \in Bytes
  PROVE  /\ Append(part, c) \in Part /\ part \in Seq(Bytes)
         /\ Append(part, c)[1] = part[1]
         /\ \A s \in Seq(Bytes) : (s \o part) \o <<c>> = s \o Append(part, c)
         /\ <<c>> \in Part
<1>1. part \in Seq(Bytes) /\ Len(part) \in Nat /\ Len(part) > 0
  BY DEF Part
<1>2. Append(part, c) \in Part /\ Append(part, c)[1] = part[1] /\ <<c>> \in Part
  BY <1>1 DEF Part
<1>3. ASSUME NEW s \in Seq(Bytes)
      PROVE  (s \o part) \o <<c>> = s \o Append(part, c)
  <2> DEFINE one == <<c>>
             more == Append(part, c)
             p == s \o part
  <2>1. more = part \o one /\ one \in Seq(Bytes)
    BY <1>1
  <2>2. p = s \o part
    BY Zenon
  <2> HIDE DEF one, more, p
  <2>3. s \o more = p \o one
    BY <1>1, <2>1, <2>2, BehindBoth, SMTT(30)
  <2> QED
    BY <2>3, Zenon DEF one, more, p
<1> QED
  BY <1>1, <1>2, <1>3

(* The last part has the last say.                                        *)
LEMMA MadeWithLast ==
  ASSUME ProxyAssumption, NEW r \in Requests, NEW ps \in Seq(Part), ps # <<>>
  PROVE  /\ ButLast(ps) \in Seq(Part) /\ ps[Len(ps)] \in Part
         /\ Made(ButLast(ps), r) \in Path
         /\ Made(ps, r) = Extended(Made(ButLast(ps), r), ps[Len(ps)], r)
<1> DEFINE front == ButLast(ps)
           last == ps[Len(ps)]
<1>1. front \in Seq(Part) /\ last \in Part /\ ps = Append(front, last)
  BY LastPart
<1> HIDE DEF front, last
<1>2. Made(Append(front, last), r) = Extended(Made(front, r), last, r)
  BY <1>1, MadeOfMore
<1>3. Made(front, r) \in Path
  BY <1>1, MadeType
<1> QED
  BY <1>1, <1>2, <1>3 DEF front, last

(* A path that died stays dead.                                           *)
LEMMA AliveBefore ==
  ASSUME NEW r, NEW u, NEW part, ~Extended(u, part, r).dead
  PROVE  ~u.dead
BY DEF Extended

(* A character outside of variables is literal: what the parts make of the *)
(* request grows by it.                                                    *)
LEMMA LiteralWritten ==
  ASSUME ProxyAssumption, NEW r \in Requests, NEW v \in Parse, NEW z, Outside(v, r, z),
         NEW c \in Bytes, c \notin Marks
  PROVE  Outside(Parsed(v, c), r, z \o <<c>>) /\ Parsed(v, c).in
<1> DEFINE w == Parsed(v, c)
<1>1. /\ v.ok /\ ~v.variable /\ v.parts \in Seq(Part) /\ v.in \in BOOLEAN
      /\ c # "$" /\ c # "{" /\ c # "}"
  BY DEF Outside, Parse, Marks
<1>2. w = PartContinued(v, c)
  BY <1>1, ParsedByTests
<1> HIDE DEF w
<1>3. CASE v.in
  <2> DEFINE n == Len(v.parts)
             last == v.parts[n]
             front == ButLast(v.parts)
             more == Append(last, c)
  <2>1. /\ w.parts = [v.parts EXCEPT ![n] = more]
        /\ n \in 1 .. Len(v.parts)
        /\ w.in = TRUE /\ w.variable = v.variable /\ w.ok = v.ok
    BY <1>2, <1>3, PartContinuedIs
  <2>2. v.parts # <<>>
    BY <1>3 DEF Parse
  <2>3. /\ front \in Seq(Part) /\ last \in Part /\ Made(front, r) \in Path
        /\ Made(v.parts, r) = Extended(Made(front, r), last, r)
    BY <1>1, <2>2, MadeWithLast
  <2>4. /\ more \in Part /\ more[1] = last[1]
        /\ \A s \in Seq(Bytes) : (s \o last) \o <<c>> = s \o more
    BY <2>3, PartGrows
  <2>5. w.parts = Append(front, more)
    <3>0. v.parts \in Seq(Part)
      BY <1>1
    <3>1. \A x \in Part : [v.parts EXCEPT ![n] = x] = Append(front, x)
      BY <2>2, <3>0, LastReplaced, Zenon DEF n, front
    <3> HIDE DEF more, n, front
    <3>2. more \in Part
      BY <2>4
    <3> QED
      BY <2>1, <3>1, <3>2, Zenon
  <2>6. Append(front, more) \in Seq(Part) /\ Len(Append(front, more)) = Len(front) + 1
        /\ Append(front, more)[Len(front) + 1] = more
    <3> HIDE DEF front, more
    <3> QED
      BY <2>3, <2>4
  <2>7. IsLiteral(last) /\ ~Extended(Made(front, r), last, r).dead
    BY <1>3, <2>3 DEF Outside
  <2>8. IsLiteral(more)
    BY <2>4, <2>7 DEF IsLiteral
  <2> HIDE DEF last, front, more, n
  <2>9. ~Made(front, r).dead
    BY <2>7, AliveBefore
  <2>10. /\ Extended(Made(front, r), last, r).chars = Made(front, r).chars \o last
         /\ Extended(Made(front, r), more, r).chars = Made(front, r).chars \o more
         /\ ~Extended(Made(front, r), more, r).dead
    BY <2>3, <2>4, <2>7, <2>8, <2>9, ExtendedByLiteral
  <2>11. Made(front, r).chars \in Seq(Bytes)
    BY <2>3 DEF Path
  <2>12. z = Made(front, r).chars \o last
    BY <2>3, <2>10 DEF Outside
  <2>13. z \o <<c>> = Made(front, r).chars \o more
    BY <2>4, <2>11, <2>12
  <2>14. Made(w.parts, r) = Extended(Made(front, r), more, r)
    BY <2>3, <2>4, <2>5, MadeOfMore
  <2>15. w.parts[Len(w.parts)] = more
    BY <2>5, <2>6
  <2> QED
    BY <1>1, <2>1, <2>8, <2>10, <2>13, <2>14, <2>15 DEF Outside, w
<1>4. CASE ~v.in
  <2>1. w = PartStarted(v, c)
    BY <1>2, <1>4, PartBegun
  <2>2. /\ w.parts = Append(v.parts, <<c>>)
        /\ w.in = TRUE /\ w.variable = v.variable /\ w.ok = v.ok
    BY <2>1, PartStartedIs
  <2>3. <<c>> \in Part /\ IsLiteral(<<c>>)
    <3>1. <<c>> \in Part
      BY DEF Part
    <3>2. IsLiteral(<<c>>)
      BY <1>1 DEF IsLiteral
    <3> QED
      BY <3>1, <3>2
  <2>4. Made(v.parts, r) \in Path
    BY <1>1, MadeType
  <2>5. Made(w.parts, r) = Extended(Made(v.parts, r), <<c>>, r)
    BY <1>1, <2>2, <2>3, MadeOfMore
  <2>6. /\ Extended(Made(v.parts, r), <<c>>, r).chars = Made(v.parts, r).chars \o <<c>>
        /\ ~Extended(Made(v.parts, r), <<c>>, r).dead
    BY <2>3, <2>4, ExtendedByLiteral DEF Outside
  <2>7. w.parts[Len(w.parts)] = <<c>>
    <3> DEFINE one == <<c>>
    <3>1. w.parts = Append(v.parts, one) /\ one \in Part
      BY <2>2, <2>3
    <3>2. v.parts \in Seq(Part)
      BY <1>1
    <3> HIDE DEF one
    <3>3. \A x \in Part : Append(v.parts, x)[Len(Append(v.parts, x))] = x
      BY <3>2
    <3>4. w.parts[Len(w.parts)] = one
      BY <3>1, <3>3, Zenon
    <3> QED
      BY <3>4 DEF one
  <2>8. z = Made(v.parts, r).chars
    BY DEF Outside
  <2> QED
    BY <1>1, <2>2, <2>3, <2>5, <2>6, <2>7, <2>8 DEF Outside, w
<1> QED
  BY <1>1, <1>3, <1>4

(* A dollar begins a part; what is whole before it stays. *)
LEMMA VariableBegins ==
  ASSUME NEW r, NEW v \in Parse, NEW z, Outside(v, r, z), "$" \in Bytes
  PROVE  Inside(Parsed(v, "$"), r, z, <<"$">>)
<1> DEFINE w == Parsed(v, "$")
           s == PartStarted(v, "$")
           one == <<"$">>
<1>1. v.ok /\ v.parts \in Seq(Part)
  BY DEF Outside, Parse
<1>2. w = VariableBegun(v, "$")
  BY <1>1, ParsedByTests
<1>3. /\ s \in Parse /\ s.parts = Append(v.parts, one) /\ s.in = TRUE /\ s.ok = v.ok
  BY PartStartedIs
<1>4. /\ w.parts = s.parts /\ w.in = s.in /\ w.ok = s.ok /\ w.variable = TRUE
  <2>1. w = [s EXCEPT !.variable = TRUE]
    BY <1>2 DEF VariableBegun
  <2> HIDE DEF s
  <2> QED
    BY <1>3, <2>1 DEF Parse
<1>5. one \in Part
  BY DEF Part
<1> HIDE DEF w, s, one
<1>6. w.parts[Len(w.parts)] = one
  BY <1>1, <1>3, <1>4, <1>5, LastAppended
<1>7. ButLast(w.parts) = v.parts
  BY <1>1, <1>3, <1>4, <1>5, LastAppended
<1> QED
  BY <1>1, <1>3, <1>4, <1>6, <1>7 DEF Inside, Outside, w, one

(* Inside a variable its part grows. *)
LEMMA VariableWritten ==
  ASSUME NEW r, NEW v \in Parse, NEW z, NEW part, Inside(v, r, z, part),
         NEW c \in Bytes, c # "$", c # "}"
  PROVE  Inside(Parsed(v, c), r, z, Append(part, c))
<1> DEFINE w == Parsed(v, c)
           n == Len(v.parts)
           more == Append(part, c)
<1>1. /\ v.ok /\ v.variable /\ v.in /\ v.parts \in Seq(Part) /\ v.parts # <<>>
      /\ part = v.parts[n]
  BY DEF Inside, Parse
<1>2. w = PartContinued(v, c)
  BY <1>1, ParsedByTests
<1>3. /\ w.parts = [v.parts EXCEPT ![n] = more]
      /\ w.in = TRUE /\ w.variable = v.variable /\ w.ok = v.ok
  <2> HIDE DEF w
  <2>1. /\ w.parts = [v.parts EXCEPT ![n] = Append(v.parts[n], c)]
        /\ w.in = TRUE /\ w.variable = v.variable /\ w.ok = v.ok
    BY <1>1, <1>2, PartContinuedIs, Zenon
  <2> QED
    BY <1>1, <2>1, Zenon
<1>4. part \in Part
  BY <1>1, LastPart
<1>5. more \in Part
  BY <1>4, PartGrows
<1> HIDE DEF w, more
<1> DEFINE front == ButLast(v.parts)
<1>6. w.parts = Append(front, more) /\ front \in Seq(Part)
  <2>1. /\ [v.parts EXCEPT ![n] = more] = Append(front, more)
        /\ front \in Seq(Part)
    BY <1>1, <1>5, LastReplaced
  <2> QED
    BY <1>3, <2>1
<1> HIDE DEF front, n
<1>7. w.parts[Len(w.parts)] = more
  BY <1>5, <1>6, LastAppended
<1>8. ButLast(w.parts) = ButLast(v.parts)
  <2>1. ButLast(Append(front, more)) = front
    BY <1>5, <1>6, LastAppended, Zenon
  <2> QED
    BY <1>6, <2>1, Zenon DEF front
<1> QED
  BY <1>1, <1>3, <1>7, <1>8 DEF Inside, w, more

IsNamed(part) == part[1] = "$" /\ IsPathVariable(part) /\ Len(part) > Len(Prefix)

(* With the closing brace the variable is replaced by its text. *)
LEMMA VariableEnds ==
  ASSUME ProxyAssumption, NEW r \in Requests, NEW v \in Parse, NEW z, NEW part,
         Inside(v, r, z, part), "}" \in Bytes,
         NEW more, more = Append(part, "}"), IsNamed(more)
  PROVE  Outside(Parsed(v, "}"), r, z \o TextOf(String(Name(more)), r))
<1> DEFINE c == "}"
           w == Parsed(v, c)
           p == PartContinued(v, c)
           n == Len(v.parts)
           front == ButLast(v.parts)
           u == Made(front, r)
<1>1. /\ v.ok /\ v.variable /\ v.in /\ v.parts \in Seq(Part) /\ v.parts # <<>>
      /\ part = v.parts[n]
  BY DEF Inside, Parse
<1>2. w = VariableEnded(v, c)
  BY <1>1, ParsedByTests
<1>3. p \in Parse /\ p.parts = [v.parts EXCEPT ![n] = more] /\ p.ok = v.ok
  BY <1>1, PartContinuedIs
<1>4. w.parts = p.parts /\ w.in = FALSE /\ w.variable = FALSE /\ w.ok = p.ok
  <2>1. w = [p EXCEPT !.variable = FALSE, !.in = FALSE]
    BY <1>2 DEF VariableEnded
  <2> HIDE DEF p
  <2> QED
    BY <1>3, <2>1 DEF Parse
<1>5. part \in Part
  BY <1>1, LastPart
<1>6. more \in Part
  BY <1>5, PartGrows
<1> HIDE DEF w, p, c
<1>7. w.parts = Append(front, more) /\ front \in Seq(Part)
  <2>1. v.parts \in Seq(Part) /\ v.parts # <<>>
    BY <1>1
  <2>2. more \in Part
    BY <1>6
  <2>3. \A x \in Part : [v.parts EXCEPT ![n] = x] = Append(front, x)
    BY <2>1, LastReplaced, Zenon DEF n, front
  <2>4. front \in Seq(Part)
    BY <2>1, LastPart
  <2> HIDE DEF n, front
  <2> QED
    BY <1>3, <1>4, <2>2, <2>3, <2>4, Zenon
<1> HIDE DEF front, n
<1>8. Made(w.parts, r) = Extended(u, more, r) /\ u \in Path
  BY <1>6, <1>7, MadeOfMore, MadeType
<1>9. ~u.dead /\ u.chars = z
  BY DEF Inside, front
<1> HIDE DEF u
<1>10. Extended(u, more, r) = Variable(u, more, r)
  BY <1>9 DEF Extended, IsNamed
<1>12. Variable(u, more, r) = VariableCompiled(u, more, r)
  BY <1>6, VariableByTests DEF IsNamed
<1>13. /\ VariableCompiled(u, more, r).chars = u.chars \o TextOf(String(Name(more)), r)
       /\ VariableCompiled(u, more, r).dead = u.dead
  <2>1. Replaced(VariableCompiled(u, more, r), u, TextOf(String(Name(more)), r))
    BY <1>6, <1>8, CompiledReplaces, Zenon
  <2> QED
    BY <2>1, Zenon DEF Replaced
<1>14. Made(w.parts, r) = VariableCompiled(u, more, r)
  BY <1>8, <1>10, <1>12, Zenon
<1> DEFINE text2 == TextOf(String(Name(more)), r)
           y == z \o text2
<1>15. ~Made(w.parts, r).dead /\ Made(w.parts, r).chars = y
  <2>1. Made(w.parts, r).dead = u.dead
    BY <1>13, <1>14, Zenon
  <2>2. Made(w.parts, r).chars = u.chars \o text2
    BY <1>13, <1>14, Zenon
  <2> QED
    BY <1>9, <2>1, <2>2, Zenon
<1> HIDE DEF text2, y
<1>16. w.ok /\ ~w.variable /\ ~w.in
  BY <1>1, <1>3, <1>4
<1>17. Outside(w, r, y)
  BY <1>15, <1>16, Zenon DEF Outside
<1> QED
  BY <1>17, Zenon DEF w, c, y, text2

(* Taking apart a well-formed argument: what has been written up to one of *)
(* its characters, inside the variable that is open there or outside.     *)
Closed(chars, n) ==
  \A i \in 1 .. n : \A j \in n + 1 .. Len(chars) : ~VariableAt(chars, i, j)

WrittenTo(bytes, chars, r, n) ==
  LET v == ParseAfter(bytes)[n]
      z == SubstitutedTo(chars, r)[n]
  IN /\ Closed(chars, n) => Outside(v, r, z)
     /\ \A i \in 1 .. n : \A j \in n + 1 .. Len(chars) :
          VariableAt(chars, i, j) => Inside(v, r, z, SubSeq(chars, i, n))

(* A stretch that is longer by one. *)
LEMMA SubSeqGrows ==
  ASSUME NEW S, NEW s \in Seq(S), NEW m \in 1 .. Len(s), NEW n \in m .. Len(s) - 1
  PROVE  SubSeq(s, m, n + 1) = Append(SubSeq(s, m, n), s[n + 1])
<1>1. m \in Nat /\ n \in Nat /\ m > 0 /\ m <= n /\ n + 1 <= Len(s) /\ Len(s) \in Nat
  OBVIOUS
<1>2. /\ SubSeq(s, m, n) \in Seq(S) /\ Len(SubSeq(s, m, n)) = n - m + 1
      /\ \A i \in 1 .. n - m + 1 : SubSeq(s, m, n)[i] = s[i + m - 1]
  BY <1>1, SubSeqIs, SMTT(30)
<1>3. /\ SubSeq(s, m, n + 1) \in Seq(S) /\ Len(SubSeq(s, m, n + 1)) = n - m + 2
      /\ \A i \in 1 .. n - m + 2 : SubSeq(s, m, n + 1)[i] = s[i + m - 1]
  <2> DEFINE k == n + 1
  <2>1. k \in Int /\ k <= Len(s) /\ m <= k /\ k - m + 1 = n - m + 2
    BY <1>1
  <2> HIDE DEF k
  <2>2. /\ SubSeq(s, m, k) \in Seq(S) /\ Len(SubSeq(s, m, k)) = k - m + 1
        /\ \A i \in 1 .. k - m + 1 : SubSeq(s, m, k)[i] = s[i + m - 1]
    BY <1>1, <2>1, SubSeqIs
  <2> QED
    BY <2>1, <2>2 DEF k
<1> DEFINE a == SubSeq(s, m, n)
           b == SubSeq(s, m, n + 1)
           x == s[n + 1]
<1>4. x \in S
  BY <1>1
<1>5. b[n - m + 2] = x
  <2>1. n - m + 2 \in 1 .. n - m + 2 /\ (n - m + 2) + m - 1 = n + 1
    BY <1>1
  <2> QED
    BY <1>3, <2>1
<1>6. \A i \in 1 .. n - m + 1 : b[i] = a[i]
  BY <1>1, <1>2, <1>3
<1> HIDE DEF a, b, x
<1>7. /\ Append(a, x) \in Seq(S) /\ Len(Append(a, x)) = n - m + 2
      /\ \A i \in 1 .. n - m + 2 :
           Append(a, x)[i] = IF i = n - m + 2 THEN x ELSE a[i]
  <2>1. a \in Seq(S) /\ Len(a) = n - m + 1
    BY <1>2 DEF a
  <2> QED
    BY <1>1, <1>4, <2>1
<1>8. b \in Seq(S) /\ Len(b) = n - m + 2
  BY <1>3 DEF b
<1>9. \A i \in 1 .. Len(b) : b[i] = Append(a, x)[i]
  BY <1>1, <1>5, <1>6, <1>7, <1>8
<1>10. b = Append(a, x)
  BY <1>7, <1>8, <1>9, SeqEqual
<1> QED
  BY <1>10 DEF a, b, x

(* The whole variable, and its name.                                      *)
LEMMA WholeVariable ==
  ASSUME TokenAssumption, ProxyAssumption,
         NEW chars \in Seq(Chars), NEW i \in 1 .. Len(chars), NEW j \in 1 .. Len(chars),
         VariableAt(chars, i, j)
  PROVE  LET part == SubSeq(chars, i, j) IN
         IsNamed(part) /\ String(Name(part)) = SubSeq(chars, i + 3, j - 1)
<1> DEFINE part == SubSeq(chars, i, j)
           m == j - i + 1
<1>20. Spans(chars, i, j)
  BY VariableIs, Zenon
<1>0. i + 2 < j
  BY <1>20, Zenon DEF Spans
<1>1. chars[i] = "$" /\ chars[i + 1] = "{" /\ chars[i + 2] = "p"
  BY <1>20, Zenon DEF Spans
<1>2. i \in Nat /\ j \in Nat /\ i > 0 /\ j <= Len(chars) /\ i <= j /\ m \in Nat /\ m > 3
  BY <1>0
<1>3. part \in Seq(Chars) /\ Len(part) = m
      /\ \A k \in 1 .. m : part[k] = chars[k + i - 1]
  BY <1>2, SubSeqIs
<1>4. Len(Prefix) = 3
  BY DEF Prefix
<1> HIDE DEF part
<1>5. part[1] = "$" /\ part[2] = "{" /\ part[3] = "p"
  <2>1. 1 \in 1 .. m /\ 2 \in 1 .. m /\ 3 \in 1 .. m
    BY <1>2
  <2>2. part[1] = chars[1 + i - 1] /\ part[2] = chars[2 + i - 1] /\ part[3] = chars[3 + i - 1]
    BY <1>3, <2>1
  <2>3. 1 + i - 1 = i /\ 2 + i - 1 = i + 1 /\ 3 + i - 1 = i + 2
    BY <1>2
  <2> QED
    BY <1>1, <2>2, <2>3
<1>6. IsPathVariable(part)
  <2>1. SubSeq(part, 1, 3) = SubSeq(Prefix, 1, 3)
    <3>1. Prefix \in Seq(Chars)
      <4>1. "$" \in Chars /\ "{" \in Chars /\ "p" \in Chars
        BY DEF TokenAssumption, ProxyAssumption, Special
      <4>2. \A x, y, z \in Chars : <<x, y, z>> \in Seq(Chars)
        OBVIOUS
      <4> QED
        BY <4>1, <4>2, Zenon DEF Prefix
    <3>2. \A k \in 1 .. 3 : part[k] = Prefix[k]
      <4>1. Prefix[1] = "$" /\ Prefix[2] = "{" /\ Prefix[3] = "p"
        BY DEF Prefix
      <4>2. \A k \in 1 .. 3 : k = 1 \/ k = 2 \/ k = 3
        OBVIOUS
      <4> QED
        BY <1>5, <4>1, <4>2
    <3>3. 3 <= Len(part) /\ 3 <= Len(Prefix)
      BY <1>2, <1>3, <1>4
    <3> QED
      BY <1>3, <3>1, <3>2, <3>3, SubSeqSame
  <2>2. (IF Len(part) < Len(Prefix) THEN Len(part) ELSE Len(Prefix)) = 3
    BY <1>2, <1>3, <1>4
  <2> QED
    BY <2>1, <2>2 DEF IsPathVariable
<1>7. IsNamed(part)
  BY <1>2, <1>3, <1>4, <1>5, <1>6 DEF IsNamed
<1> DEFINE name == SubSeq(chars, i + 3, j - 1)
<1>8. name \in Seq(Chars)
  BY <1>2, SubSeqIs
<1>9. Name(part) = name
  <2>1. Name(part) = SubSeq(part, 4, m - 1)
    BY <1>3, <1>4 DEF Name
  <2> DEFINE a == SubSeq(part, 4, m - 1)
  <2>2. /\ a \in Seq(Chars) /\ Len(a) = IF 4 <= m - 1 THEN m - 1 - 4 + 1 ELSE 0
        /\ \A k \in 1 .. m - 1 - 4 + 1 : a[k] = part[k + 4 - 1]
    <3> HIDE DEF m
    <3> DEFINE y == m - 1
    <3>1. y \in Int /\ y <= Len(part)
      BY <1>2, <1>3
    <3>2. 4 \in Nat /\ 4 > 0
      OBVIOUS
    <3> HIDE DEF y
    <3>3. /\ SubSeq(part, 4, y) \in Seq(Chars)
          /\ Len(SubSeq(part, 4, y)) = IF 4 <= y THEN y - 4 + 1 ELSE 0
          /\ \A k \in 1 .. y - 4 + 1 : SubSeq(part, 4, y)[k] = part[k + 4 - 1]
      BY <1>3, <3>1, <3>2, SubSeqIs
    <3> QED
      BY <3>3, Zenon DEF y
  <2>3. /\ Len(name) = IF i + 3 <= j - 1 THEN (j - 1) - (i + 3) + 1 ELSE 0
        /\ \A k \in 1 .. (j - 1) - (i + 3) + 1 : name[k] = chars[k + (i + 3) - 1]
    <3> DEFINE x == i + 3
               y == j - 1
    <3>1. x \in Nat /\ x > 0 /\ y \in Int /\ y <= Len(chars)
      <4>1. i \in Nat /\ j \in Nat /\ j <= Len(chars) /\ Len(chars) \in Nat
        BY <1>2
      <4> QED
        BY <4>1
    <3> HIDE DEF x, y
    <3>2. /\ Len(SubSeq(chars, x, y)) = IF x <= y THEN y - x + 1 ELSE 0
          /\ \A k \in 1 .. y - x + 1 : SubSeq(chars, x, y)[k] = chars[k + x - 1]
      BY <3>1, SubSeqIs
    <3> QED
      BY <3>2 DEF x, y
  <2> HIDE DEF a, name
  <2>4. Len(a) = Len(name)
    BY <1>2, <2>2, <2>3
  <2>5. ASSUME NEW k \in 1 .. Len(a) PROVE a[k] = name[k]
    <3>1. k \in 1 .. m - 1 - 4 + 1 /\ k \in 1 .. (j - 1) - (i + 3) + 1
      BY <1>2, <2>2
    <3>2. k + 4 - 1 \in 1 .. m /\ (k + 4 - 1) + i - 1 = k + (i + 3) - 1
      BY <1>2, <3>1
    <3>3. a[k] = part[k + 4 - 1] /\ name[k] = chars[k + (i + 3) - 1]
      BY <2>2, <2>3, <3>1
    <3>4. part[k + 4 - 1] = chars[(k + 4 - 1) + i - 1]
      BY <1>3, <3>2
    <3> QED
      BY <3>2, <3>3, <3>4
  <2>6. a = name
    BY <1>8, <2>2, <2>4, <2>5, SeqEqual DEF name
  <2> QED
    BY <2>1, <2>6 DEF a
<1>10. String(name) = name
  <2>1. Nul \notin Chars
    BY DEF ProxyAssumption
  <2> HIDE DEF name
  <2>2. \A k \in 1 .. Len(name) : name[k] # Nul
    BY <1>8, <2>1
  <2> QED
    BY <1>8, <2>2, StringWhole
<1> HIDE DEF name
<1>11. IsNamed(part) /\ String(Name(part)) = name
  BY <1>7, <1>9, <1>10
<1> QED
  BY <1>11 DEF part, name

(* A stretch of one. *)
LEMMA SubSeqOne ==
  ASSUME NEW S, NEW s \in Seq(S), NEW n \in 1 .. Len(s)
  PROVE  SubSeq(s, n, n) = <<s[n]>>
<1> DEFINE a == SubSeq(s, n, n)
           x == s[n]
           b == <<x>>
<1>1. n \in Nat /\ n > 0 /\ n <= Len(s) /\ n - n + 1 = 1 /\ 1 + n - 1 = n
  OBVIOUS
<1>2. /\ a \in Seq(S) /\ Len(a) = n - n + 1
      /\ \A i \in 1 .. n - n + 1 : a[i] = s[i + n - 1]
  BY <1>1, SubSeqIs
<1>3. Len(a) = 1 /\ a[1] = x
  BY <1>1, <1>2
<1>4. x \in S
  OBVIOUS
<1> HIDE DEF a, x
<1>5. b \in Seq(S) /\ Len(b) = 1 /\ b[1] = x
  BY <1>4
<1> HIDE DEF b
<1>6. a = b
  <2>1. \A i \in 1 .. Len(a) : a[i] = b[i]
    BY <1>3, <1>5
  <2> QED
    BY <1>2, <1>3, <1>5, <2>1, SeqEqual
<1> QED
  BY <1>6 DEF a, b, x

(* The bytes begin with the characters of the argument.                   *)
LEMMA OutsideGoesOn ==
  ASSUME TokenAssumption, ProxyAssumption, NEW r \in Requests,
         NEW chars \in Seq(Chars), WellFormed(chars), NEW n \in 0 .. Len(chars) - 1,
         NEW v \in Parse, NEW z, Outside(v, r, z), Closed(chars, n)
  PROVE  LET k == n + 1
             c == chars[k]
             w == Parsed(v, c)
             y == z \o Meaning(chars, k, r)
         IN /\ Closed(chars, k) => Outside(w, r, y)
            /\ \A i \in 1 .. k : \A j \in k + 1 .. Len(chars) :
                 VariableAt(chars, i, j) => Inside(w, r, y, SubSeq(chars, i, k))
<1> DEFINE k == n + 1
           c == chars[k]
           w == Parsed(v, c)
           y == z \o Meaning(chars, k, r)
<1>1. k \in 1 .. Len(chars) /\ k \in Nat /\ n \in Nat /\ Len(chars) \in Nat
  OBVIOUS
<1>2. c \in Chars /\ c \in Bytes
  <2>1. c \in Chars
    BY <1>1
  <2> QED
    BY <2>1 DEF Bytes
<1>3. CASE Variables(chars, k) = {}
  <2>1. c \notin Marks
    BY <1>1, <1>3 DEF WellFormed
  <2>2. Meaning(chars, k, r) = <<c>>
    BY <1>1, <1>3, MeaningOutside
  <2>3. Outside(w, r, z \o <<c>>)
    BY <1>2, <2>1, LiteralWritten
  <2>4. \A i \in 1 .. k : \A j \in k + 1 .. Len(chars) : ~VariableAt(chars, i, j)
    <3> SUFFICES ASSUME NEW i \in 1 .. k, NEW j \in k + 1 .. Len(chars),
                        VariableAt(chars, i, j)
                 PROVE  FALSE
      OBVIOUS
    <3>1. j \in k .. Len(chars)
      BY <1>1
    <3>2. <<i, j>> \in Variables(chars, k)
      BY <1>1, <3>1, MeaningInside
    <3> QED
      BY <1>3, <3>2
  <2> QED
    BY <2>2, <2>3, <2>4
<1>4. CASE Variables(chars, k) # {}
  <2>1. PICK p \in Variables(chars, k) : TRUE
    BY <1>4
  <2> DEFINE i == p[1]
             j == p[2]
  <2>2. i \in 1 .. k /\ j \in k .. Len(chars) /\ VariableAt(chars, i, j)
    BY DEF Variables
  <2> HIDE DEF i, j
  <2>3. i = k
    <3>1. i \notin 1 .. n
      <4> SUFFICES ASSUME i \in 1 .. n PROVE FALSE
        OBVIOUS
      <4>1. j \in n + 1 .. Len(chars)
        BY <2>2
      <4> QED
        BY <2>2, <4>1 DEF Closed
    <3> QED
      BY <1>1, <2>2, <3>1
  <2>4. i \in 1 .. Len(chars) /\ j \in 1 .. Len(chars)
    BY <1>1, <2>2
  <2>5. i + 2 < j /\ chars[i] = "$"
    <3>1. Spans(chars, i, j)
      BY <2>2, <2>4, VariableIs, Zenon
    <3> QED
      BY <3>1, Zenon DEF Spans
  <2>6. chars[i] = "$"
    BY <2>5, Zenon
  <2>7. c = "$"
    BY <2>3, <2>6
  <2>8. Meaning(chars, k, r) = <<>>
    <3>1. k # j
      BY <1>1, <2>3, <2>4, <2>5
    <3> QED
      BY <1>1, <2>2, <3>1, MeaningInside
  <2>9. Inside(w, r, z, <<"$">>)
    <3>1. "$" \in Bytes
      BY <1>2, <2>7
    <3>2. Inside(Parsed(v, "$"), r, z, <<"$">>)
      BY <3>1, VariableBegins
    <3> QED
      BY <2>7, <3>2
  <2>10. ~Closed(chars, k)
    <3>1. j \in k + 1 .. Len(chars)
      BY <1>1, <2>3, <2>4, <2>5
    <3> HIDE DEF k
    <3> QED
      BY <2>2, <3>1 DEF Closed
  <2>11. ASSUME NEW a \in 1 .. k, NEW b \in k + 1 .. Len(chars), VariableAt(chars, a, b)
         PROVE  SubSeq(chars, a, k) = <<"$">>
    <3>1. b \in k .. Len(chars)
      BY <1>1
    <3>2. a = i
      <4> HIDE DEF k
      <4> QED
        BY <1>1, <2>2, <2>11, <3>1, OneVariable
    <3>3. SubSeq(chars, a, k) = <<chars[k]>>
      <4>1. a = k
        BY <2>3, <3>2
      <4> HIDE DEF k
      <4> QED
        BY <1>1, <4>1, SubSeqOne
    <3> QED
      BY <2>7, <3>3
  <2>12. z \o <<>> = z
    <3>1. z = Made(v.parts, r).chars /\ v.parts \in Seq(Part)
      BY DEF Outside, Parse
    <3>2. z \in Seq(Bytes)
      BY <3>1, MadeType DEF Path
    <3> QED
      BY <3>2
  <2>13. y = z
    BY <2>8, <2>12
  <2> HIDE DEF w, y, k
  <2> QED
    BY <2>9, <2>10, <2>11, <2>13 DEF w, y, k, c
<1> QED
  BY <1>3, <1>4

(* A character inside a variable, or the one that ends it. *)
LEMMA InsideGoesOn ==
  ASSUME TokenAssumption, ProxyAssumption, NEW r \in Requests,
         NEW chars \in Seq(Chars), NEW n \in 1 .. Len(chars) - 1,
         NEW i \in 1 .. n, NEW j \in n + 1 .. Len(chars), VariableAt(chars, i, j),
         NEW v \in Parse, NEW z, Inside(v, r, z, SubSeq(chars, i, n))
  PROVE  LET k == n + 1
             c == chars[k]
             w == Parsed(v, c)
             y == z \o Meaning(chars, k, r)
         IN /\ Closed(chars, k) => Outside(w, r, y)
            /\ \A a \in 1 .. k : \A b \in k + 1 .. Len(chars) :
                 VariableAt(chars, a, b) => Inside(w, r, y, SubSeq(chars, a, k))
<1> DEFINE k == n + 1
           c == chars[k]
           w == Parsed(v, c)
           y == z \o Meaning(chars, k, r)
           part == SubSeq(chars, i, n)
           more == SubSeq(chars, i, k)
<1>1. /\ k \in 1 .. Len(chars) /\ k \in Nat /\ n \in Nat /\ Len(chars) \in Nat
      /\ i \in Nat /\ j \in Nat /\ i <= n /\ n < k /\ k <= j
      /\ i \in 1 .. Len(chars) /\ j \in 1 .. Len(chars)
      /\ i \in 1 .. k /\ j \in k .. Len(chars)
  OBVIOUS
<1>2. c \in Chars /\ c \in Bytes
  <2>1. c \in Chars
    BY <1>1
  <2> QED
    BY <2>1 DEF Bytes
<1>3. more = Append(part, c)
  BY <1>1, SubSeqGrows
<1> HIDE DEF k, c, w, y, part, more
<1>13. Spans(chars, i, j)
  BY <1>1, VariableIs, Zenon
<1>4. i + 2 < j
  BY <1>13, Zenon DEF Spans
<1>5. /\ chars[i] = "$" /\ chars[i + 1] = "{" /\ chars[i + 2] = "p" /\ chars[j] = "}"
      /\ \A x \in i + 3 .. j - 1 : chars[x] \notin Marks
  BY <1>13, Zenon DEF Spans
<1> USE DEF k, c, w, y, part, more
<1>6. ASSUME NEW a \in 1 .. k, NEW b \in k + 1 .. Len(chars), VariableAt(chars, a, b)
      PROVE  a = i /\ b = j
  <2>1. b \in k .. Len(chars)
    BY <1>1
  <2> HIDE DEF k
  <2> QED
    BY <1>1, <1>6, <2>1, OneVariable
<1>7. CASE k # j
  <2>1. c # "$" /\ c # "}"
    <3>1. k = i + 1 \/ k = i + 2 \/ k \in i + 3 .. j - 1
      BY <1>1, <1>7
    <3> HIDE DEF k
    <3> QED
      BY <1>5, <3>1 DEF Marks
  <2>2. Inside(w, r, z, Append(part, c))
    BY <1>2, <2>1, VariableWritten
  <2>3. Meaning(chars, k, r) = <<>>
    <3> HIDE DEF k
    <3> QED
      BY <1>1, <1>7, MeaningInside
  <2>4. ~Closed(chars, k)
    <3>1. j \in k + 1 .. Len(chars)
      BY <1>1, <1>7
    <3> HIDE DEF k
    <3> QED
      BY <1>1, <3>1 DEF Closed
  <2>5. z \o <<>> = z
    <3>1. z = Made(ButLast(v.parts), r).chars /\ v.parts \in Seq(Part) /\ v.parts # <<>>
      BY DEF Inside, Parse
    <3>2. ButLast(v.parts) \in Seq(Part)
      BY <3>1, LastPart
    <3>3. z \in Seq(Bytes)
      BY <3>1, <3>2, MadeType DEF Path
    <3> QED
      BY <3>3
  <2>6. y = z
    BY <2>3, <2>5
  <2> HIDE DEF w, y, k, part
  <2> QED
    BY <1>3, <1>6, <2>2, <2>4, <2>6 DEF w, y, k, c, more
<1>8. CASE k = j
  <2>1. c = "}"
    BY <1>5, <1>8
  <2>2. /\ IsNamed(SubSeq(chars, i, j))
        /\ String(Name(SubSeq(chars, i, j))) = SubSeq(chars, i + 3, j - 1)
    BY <1>1, WholeVariable
  <2>3. Meaning(chars, k, r) = TextOf(SubSeq(chars, i + 3, j - 1), r)
    <3> HIDE DEF k
    <3> QED
      BY <1>1, <1>8, MeaningInside
  <2>4. IsNamed(more) /\ Meaning(chars, k, r) = TextOf(String(Name(more)), r)
    BY <1>8, <2>2, <2>3
  <2>5. "}" \in Bytes /\ more = Append(part, "}")
    BY <1>2, <1>3, <2>1
  <2> HIDE DEF more, part
  <2>6. Outside(Parsed(v, "}"), r, z \o TextOf(String(Name(more)), r))
    BY <2>4, <2>5, VariableEnds DEF part
  <2>7. Outside(w, r, y)
    BY <2>1, <2>4, <2>6
  <2>8. \A a \in 1 .. k : \A b \in k + 1 .. Len(chars) : ~VariableAt(chars, a, b)
    <3> HIDE DEF k
    <3>1. j \notin k + 1 .. Len(chars)
      BY <1>1, <1>8
    <3> QED
      BY <1>6, <3>1
  <2> QED
    BY <2>7, <2>8
<1> QED
  BY <1>7, <1>8

Begins(bytes, chars) ==
  Len(chars) <= Len(bytes) /\ \A i \in 1 .. Len(chars) : bytes[i] = chars[i]

(* By induction, for every character of the argument. *)
LEMMA WrittenAll ==
  ASSUME TokenAssumption, ProxyAssumption, NEW r \in Requests,
         NEW chars \in Seq(Chars), WellFormed(chars),
         NEW bytes \in Seq(Bytes), Begins(bytes, chars)
  PROVE  /\ Outside(ParseAfter(bytes)[Len(chars)], r, Substituted(chars, r))
         /\ Substituted(chars, r) \in Plainly
<1> DEFINE N == Len(chars)
           V(n) == ParseAfter(bytes)[n]
           Z(n) == SubstitutedTo(chars, r)[n]
           S == {n \in 0 .. N : WrittenTo(bytes, chars, r, n)}
<1>1. N \in Nat /\ N <= Len(bytes) /\ Len(bytes) \in Nat
  BY DEF Begins
<1>2. 0 \in S
  <2>1. V(0) = NoParts /\ Z(0) = <<>>
    <3>1. V(0) = NoParts
      BY ParseRecursion
    <3>2. Z(0) = <<>>
      BY SubstitutedRecursion
    <3> QED
      BY <3>1, <3>2
  <2>2. Outside(NoParts, r, <<>>)
    BY MadeOfNone DEF NoParts, NoPath, Outside
  <2>3. 0 \in 0 .. N
    BY <1>1
  <2>4. Closed(chars, 0) => Outside(V(0), r, Z(0))
    BY <2>1, <2>2
  <2>5. \A i \in 1 .. 0 : FALSE
    OBVIOUS
  <2>6. WrittenTo(bytes, chars, r, 0)
    BY <2>4, <2>5, Zenon DEF WrittenTo
  <2> QED
    BY <2>3, <2>6
<1>3. ASSUME NEW n \in 0 .. N - 1, n \in S PROVE n + 1 \in S
  <2> DEFINE k == n + 1
             c == chars[k]
             v == V(n)
             z == Z(n)
             w == Parsed(v, c)
             y == z \o Meaning(chars, k, r)
  <2>1. k \in 1 .. N /\ k \in 1 .. Len(bytes) /\ n \in 0 .. N /\ n \in 0 .. Len(bytes)
        /\ k \in 0 .. N /\ k - 1 = n
    BY <1>1
  <2>2. v \in Parse /\ V(k) = w
    <3>1. bytes[k] = chars[k]
      BY <2>1 DEF Begins
    <3> HIDE DEF k
    <3> QED
      BY <2>1, <3>1, ParseRecursion
  <2>3. Z(k) = y
    <3> HIDE DEF k
    <3> QED
      BY <2>1, SubstitutedRecursion
  <2>4. WrittenTo(bytes, chars, r, n)
    BY <1>3
  <2>5. /\ Closed(chars, k) => Outside(w, r, y)
        /\ \A i \in 1 .. k : \A j \in k + 1 .. Len(chars) :
             VariableAt(chars, i, j) => Inside(w, r, y, SubSeq(chars, i, k))
    <3>1. CASE Closed(chars, n)
      <4>1. Outside(v, r, z)
        BY <2>4, <3>1 DEF WrittenTo
      <4> HIDE DEF v, z
      <4> QED
        BY <2>2, <3>1, <4>1, OutsideGoesOn
    <3>2. CASE ~Closed(chars, n)
      <4>1. PICK i \in 1 .. n, j \in n + 1 .. N : VariableAt(chars, i, j)
        BY <3>2 DEF Closed
      <4>2. Inside(v, r, z, SubSeq(chars, i, n))
        BY <2>4, <4>1 DEF WrittenTo
      <4>3. n \in 1 .. N - 1
        BY <1>1, <4>1
      <4> HIDE DEF v, z
      <4> QED
        BY <2>2, <4>1, <4>2, <4>3, InsideGoesOn
    <3> QED
      BY <3>1, <3>2
  <2> HIDE DEF w, y, k
  <2>6. WrittenTo(bytes, chars, r, k)
    BY <2>2, <2>3, <2>5, Zenon DEF WrittenTo
  <2> QED
    BY <2>1, <2>6 DEF k
<1> HIDE DEF S
<1>4. \A n \in 0 .. N : n \in S
  <2> HIDE DEF N
  <2> QED
    BY <1>1, <1>2, <1>3, InductionTo
<1>5. WrittenTo(bytes, chars, r, N)
  <2>1. N \in 0 .. N
    BY <1>1
  <2> QED
    BY <1>4, <2>1 DEF S
<1>6. Closed(chars, N)
  BY <1>1 DEF Closed
<1>7. Outside(V(N), r, Z(N))
  BY <1>5, <1>6 DEF WrittenTo
<1>8. Z(N) = Substituted(chars, r) /\ Z(N) \in Plainly
  <2>1. N \in 0 .. Len(chars)
    BY <1>1
  <2> QED
    BY <2>1, SubstitutedRecursion
<1> QED
  BY <1>7, <1>8

-----------------------------------------------------------------------------
(* What lies behind the argument only adds to the path, behind a Nul.     *)
Grown(ps, qs) ==
  /\ Len(ps) <= Len(qs)
  /\ \A i \in 1 .. Len(ps) :
       Starts(qs[i], ps[i]) /\ (i < Len(ps) => qs[i] = ps[i])

LEMMA StartsItself ==
  ASSUME NEW S, NEW s \in Seq(S)
  PROVE  Starts(s, s)
BY DEF Starts

LEMMA StartsOn ==
  ASSUME NEW s \in Seq(Bytes), NEW t \in Seq(Bytes), NEW u \in Seq(Bytes),
         Starts(s, t), Starts(t, u)
  PROVE  Starts(s, u)
BY DEF Starts

(* The parts only grow as bytes are read. *)
LEMMA PartsGrow ==
  ASSUME NEW v \in Parse, NEW c \in Bytes
  PROVE  Grown(v.parts, Parsed(v, c).parts)
<1>1. v.ok \in BOOLEAN /\ v.variable \in BOOLEAN /\ v.in \in BOOLEAN
      /\ v.parts \in Seq(Part)
  BY DEF Parse
<1>2. \A i \in 1 .. Len(v.parts) : Starts(v.parts[i], v.parts[i])
  <2> SUFFICES ASSUME NEW i \in 1 .. Len(v.parts) PROVE Starts(v.parts[i], v.parts[i])
    OBVIOUS
  <2>1. v.parts[i] \in Part
    BY <1>1
  <2>2. v.parts[i] \in Seq(Bytes)
    BY <2>1 DEF Part
  <2> QED
    BY <2>2, StartsItself
<1>3. Grown(v.parts, v.parts)
  BY <1>1, <1>2 DEF Grown
<1>4. Grown(v.parts, PartStarted(v, c).parts)
  <2> DEFINE one == <<c>>
             qs == PartStarted(v, c).parts
  <2>1. qs = Append(v.parts, one)
    BY PartStartedIs
  <2>2. one \in Part
    BY DEF Part
  <2> HIDE DEF one, qs
  <2>3. Len(qs) = Len(v.parts) + 1 /\ \A i \in 1 .. Len(v.parts) : qs[i] = v.parts[i]
    BY <1>1, <2>1, <2>2
  <2> QED
    BY <1>1, <1>2, <2>3 DEF Grown, qs
<1>5. ASSUME v.in PROVE Grown(v.parts, PartContinued(v, c).parts)
  <2> DEFINE n == Len(v.parts)
             more == Append(v.parts[n], c)
             qs == PartContinued(v, c).parts
  <2>1. qs = [v.parts EXCEPT ![n] = more] /\ n \in 1 .. Len(v.parts)
    BY <1>5, PartContinuedIs
  <2>2. v.parts[n] \in Part
    BY <1>1, <2>1
  <2>3. v.parts[n] \in Seq(Bytes)
    BY <2>2 DEF Part
  <2>4. Starts(more, v.parts[n])
    BY <2>3 DEF Starts
  <2> HIDE DEF more, qs
  <2>5. Len(qs) = Len(v.parts) /\ qs[n] = more
        /\ \A i \in 1 .. Len(v.parts) : i # n => qs[i] = v.parts[i]
    BY <1>1, <2>1
  <2> QED
    BY <1>1, <1>2, <2>4, <2>5 DEF Grown, qs
<1>6. Grown(v.parts, PartContinued(v, c).parts)
  BY <1>1, <1>4, <1>5, PartBegun
<1>7. /\ VariableBegun(v, c).parts = PartStarted(v, c).parts
      /\ BraceRefused(v).parts = v.parts
      /\ VariableEnded(v, c).parts = PartContinued(v, c).parts
  <2>1. PartStarted(v, c) \in Parse
    BY PartStartedIs
  <2>2. PartContinued(v, c) \in Parse
    BY <1>1, <2>1, PartContinuedIs, PartBegun
  <2> QED
    BY <2>1, <2>2 DEF Parse, VariableBegun, BraceRefused, VariableEnded
<1>8. \/ Parsed(v, c) = v
      \/ Parsed(v, c) = VariableBegun(v, c)
      \/ Parsed(v, c) = BraceRefused(v)
      \/ Parsed(v, c) = VariableEnded(v, c)
      \/ Parsed(v, c) = PartContinued(v, c)
  BY <1>1, ParsedByTests
<1> QED
  BY <1>3, <1>4, <1>6, <1>7, <1>8

(* And so does the path as parts are added. *)
LEMMA PathStarts ==
  ASSUME ProxyAssumption, NEW r \in Requests, NEW ps \in Seq(Part), NEW m \in 0 .. Len(ps)
  PROVE  Starts(Made(ps, r).chars, PathAfter(ps, r)[m].chars)
<1> DEFINE N == Len(ps)
           P(n) == PathAfter(ps, r)[n]
           S == {n \in 0 .. N : n >= m => Starts(P(n).chars, P(m).chars)}
<1>1. N \in Nat /\ m \in Nat
  OBVIOUS
<1>2. \A n \in 0 .. N : P(n) \in Path /\ P(n).chars \in Seq(Bytes)
  BY PathRecursion DEF Path
<1>3. Starts(P(m).chars, P(m).chars)
  <2>1. P(m).chars \in Seq(Bytes)
    BY <1>2
  <2> HIDE DEF P
  <2> QED
    BY <2>1, StartsItself
<1>4. 0 \in S
  <2>1. 0 \in 0 .. N /\ (0 >= m => m = 0)
    BY <1>1
  <2> QED
    BY <1>3, <2>1
<1>5. ASSUME NEW n \in 0 .. N - 1, n \in S PROVE n + 1 \in S
  <2> DEFINE k == n + 1
  <2>1. k \in 1 .. N /\ k \in 0 .. N /\ n \in 0 .. N /\ k - 1 = n
    BY <1>1
  <2>2. ps[k] \in Part
    BY <2>1
  <2>3. P(k) = Extended(P(n), ps[k], r)
    <3> HIDE DEF k
    <3> QED
      BY <2>1, PathRecursion
  <2>4. Starts(P(k).chars, P(n).chars)
    <3>1. P(n) \in Path
      BY <1>2, <2>1
    <3> HIDE DEF P, k
    <3> QED
      BY <2>2, <2>3, <3>1, PathGrows
  <2>5. ASSUME k >= m PROVE Starts(P(k).chars, P(m).chars)
    <3>1. CASE k = m
      BY <1>3, <3>1
    <3>2. CASE k # m
      <4>1. n >= m
        BY <1>1, <2>1, <2>5, <3>2
      <4>2. Starts(P(n).chars, P(m).chars)
        BY <1>5, <4>1
      <4>3. /\ P(k).chars \in Seq(Bytes) /\ P(n).chars \in Seq(Bytes)
            /\ P(m).chars \in Seq(Bytes)
        BY <1>2, <2>1
      <4> HIDE DEF P, k
      <4> QED
        BY <2>4, <4>2, <4>3, StartsOn
    <3> QED
      BY <3>1, <3>2
  <2> QED
    BY <2>1, <2>5
<1> HIDE DEF S
<1>6. \A n \in 0 .. N : n \in S
  <2> HIDE DEF N
  <2> QED
    BY <1>1, <1>4, <1>5, InductionTo
<1>7. N \in S /\ N >= m
  BY <1>1, <1>6
<1> QED
  BY <1>7 DEF S, Made

(* The first parts have been kept, and the last of them been written on.  *)
Kept(ps, qs) ==
  /\ Len(ps) <= Len(qs)
  /\ \A i \in 1 .. Len(ps) - 1 : qs[i] = ps[i]
  /\ Starts(qs[Len(ps)], ps[Len(ps)])

LEMMA KeptGrown ==
  ASSUME NEW ps \in Seq(Part), ps # <<>>, NEW qs \in Seq(Part), NEW rs \in Seq(Part),
         Kept(ps, qs), Grown(qs, rs)
  PROVE  Kept(ps, rs)
<1> DEFINE m == Len(ps)
<1>1. m \in Nat /\ m > 0 /\ m <= Len(qs) /\ Len(qs) <= Len(rs) /\ Len(qs) \in Nat
      /\ Len(rs) \in Nat
  BY DEF Kept, Grown
<1>2. ps[m] \in Part /\ qs[m] \in Part /\ rs[m] \in Part
  BY <1>1
<1>3. ps[m] \in Seq(Bytes) /\ qs[m] \in Seq(Bytes) /\ rs[m] \in Seq(Bytes)
  BY <1>2 DEF Part
<1>4. Starts(qs[m], ps[m]) /\ Starts(rs[m], qs[m])
  <2>1. m \in 1 .. Len(qs)
    BY <1>1
  <2> QED
    BY <2>1 DEF Kept, Grown
<1>5. Starts(rs[m], ps[m])
  <2> HIDE DEF m
  <2> QED
    BY <1>3, <1>4, StartsOn
<1>6. ASSUME NEW i \in 1 .. m - 1 PROVE rs[i] = ps[i]
  <2>1. i \in 1 .. Len(qs) /\ i < Len(qs)
    BY <1>1
  <2> QED
    BY <2>1 DEF Kept, Grown
<1> QED
  BY <1>1, <1>5, <1>6 DEF Kept

(* What the kept parts made of a request begins what all of them make.     *)
LEMMA KeptPath ==
  ASSUME ProxyAssumption, NEW r \in Requests, NEW ps \in Seq(Part), ps # <<>>,
         IsLiteral(ps[Len(ps)]), ~Made(ps, r).dead,
         NEW qs \in Seq(Part), Kept(ps, qs)
  PROVE  Starts(Made(qs, r).chars, Made(ps, r).chars)
<1> DEFINE m == Len(ps)
           front == ButLast(ps)
           last == ps[m]
           more == qs[m]
           u == Made(front, r)
<1>1. m \in Nat /\ m > 0 /\ m <= Len(qs) /\ Len(qs) \in Nat
  BY DEF Kept
<1>2. front \in Seq(Part) /\ last \in Part /\ u \in Path /\ Made(ps, r) = Extended(u, last, r)
  BY MadeWithLast
<1>3. more \in Part
  BY <1>1
<1>4. Starts(more, last)
  BY DEF Kept
<1>5. last \in Seq(Bytes) /\ more \in Seq(Bytes) /\ Len(last) \in Nat /\ Len(last) > 0
  BY <1>2, <1>3 DEF Part
<1>6. IsLiteral(last) /\ IsLiteral(more)
  <2>1. IsLiteral(last)
    OBVIOUS
  <2>2. more[1] = last[1]
    <3>1. 1 \in 1 .. Len(last)
      BY <1>5
    <3> HIDE DEF more, last
    <3> QED
      BY <1>4, <3>1 DEF Starts
  <2> QED
    BY <2>1, <2>2 DEF IsLiteral
<1>7. /\ Len(front) = m - 1
      /\ \A i \in 1 .. m - 1 : qs[i] = front[i]
  <2>1. /\ Len(SubSeq(ps, 1, m - 1)) = IF 1 <= m - 1 THEN (m - 1) - 1 + 1 ELSE 0
        /\ \A i \in 1 .. (m - 1) - 1 + 1 : SubSeq(ps, 1, m - 1)[i] = ps[i + 1 - 1]
    <3> DEFINE n == m - 1
    <3>1. n \in Int /\ n <= Len(ps)
      BY <1>1
    <3> HIDE DEF n, m
    <3>2. /\ Len(SubSeq(ps, 1, n)) = IF 1 <= n THEN n - 1 + 1 ELSE 0
          /\ \A i \in 1 .. n - 1 + 1 : SubSeq(ps, 1, n)[i] = ps[i + 1 - 1]
      BY <3>1, SubSeqIs
    <3> QED
      BY <3>2 DEF n
  <2>2. front = SubSeq(ps, 1, m - 1)
    BY DEF ButLast
  <2> HIDE DEF front
  <2>3. Len(front) = m - 1
    <3> HIDE DEF m
    <3> QED
      BY <1>1, <2>1, <2>2
  <2>4. ASSUME NEW i \in 1 .. m - 1 PROVE qs[i] = front[i]
    <3>1. i \in 1 .. (m - 1) - 1 + 1 /\ i + 1 - 1 = i
      BY <1>1
    <3>2. front[i] = ps[i]
      BY <2>1, <2>2, <3>1
    <3>3. qs[i] = ps[i]
      BY DEF Kept
    <3> QED
      BY <3>2, <3>3
  <2> QED
    BY <2>3, <2>4
<1> HIDE DEF m, front, last, more, u
<1>8. PathAfter(qs, r)[m - 1] = u
  <2> DEFINE n == m - 1
  <2>1. n \in Nat /\ n <= Len(qs) /\ n <= Len(front)
    BY <1>1, <1>7
  <2>2. \A i \in 1 .. n : qs[i] = front[i]
    BY <1>7
  <2>3. AgreeTo(qs, front, n)
    BY <2>1, <2>2, Zenon DEF AgreeTo
  <2> HIDE DEF n
  <2>4. PathAfter(qs, r)[n] = PathAfter(front, r)[n]
    <3>1. SamePath(qs, front, r, n)
      BY <1>2, <2>1, <2>3, SameParts
    <3> QED
      BY <3>1, Zenon DEF SamePath
  <2> QED
    BY <1>7, <2>4 DEF u, Made, n
<1>9. PathAfter(qs, r)[m] = Extended(u, more, r)
  <2>1. m \in 1 .. Len(qs)
    BY <1>1
  <2>2. PathGoesOn(qs, r, m)
    BY <2>1, PathNext
  <2> QED
    BY <1>8, <2>2, Zenon DEF PathGoesOn, more
<1>10. ~u.dead
  <2>1. ~Extended(u, last, r).dead
    BY <1>2
  <2> QED
    BY <2>1, AliveBefore
<1>11. /\ Extended(u, last, r).chars = u.chars \o last
       /\ Extended(u, more, r).chars = u.chars \o more
  BY <1>2, <1>3, <1>6, <1>10, ExtendedByLiteral
<1>12. u.chars \in Seq(Bytes)
  BY <1>2 DEF Path
<1>13. Starts(u.chars \o more, u.chars \o last)
  <2> DEFINE a == u.chars
             b == a \o more
             d == a \o last
  <2>1. a \in Seq(Bytes)
    BY <1>12
  <2> HIDE DEF a
  <2>2. /\ Len(b) = Len(a) + Len(more)
        /\ \A i \in 1 .. Len(a) : b[i] = a[i]
        /\ \A i \in 1 .. Len(more) : b[Len(a) + i] = more[i]
    BY <1>5, <2>1, ConcatIs
  <2>3. /\ Len(d) = Len(a) + Len(last)
        /\ \A i \in 1 .. Len(a) : d[i] = a[i]
        /\ \A i \in 1 .. Len(last) : d[Len(a) + i] = last[i]
    BY <1>5, <2>1, ConcatIs
  <2> HIDE DEF b, d
  <2>4. Len(last) <= Len(more) /\ \A i \in 1 .. Len(last) : more[i] = last[i]
    BY <1>4 DEF Starts
  <2>5. Len(a) \in Nat /\ Len(last) \in Nat /\ Len(more) \in Nat
    BY <1>5, <2>1
  <2>6. Len(d) <= Len(b)
    BY <2>2, <2>3, <2>4, <2>5
  <2>7. ASSUME NEW i \in 1 .. Len(d) PROVE b[i] = d[i]
    <3>1. CASE i \in 1 .. Len(a)
      BY <2>2, <2>3, <3>1
    <3>2. CASE i \notin 1 .. Len(a)
      <4> DEFINE x == i - Len(a)
      <4>1. x \in 1 .. Len(last) /\ x \in 1 .. Len(more) /\ Len(a) + x = i
        BY <2>3, <2>4, <2>5, <3>2, SMTT(30)
      <4> HIDE DEF x
      <4>2. b[Len(a) + x] = more[x] /\ d[Len(a) + x] = last[x] /\ more[x] = last[x]
        BY <2>2, <2>3, <2>4, <4>1
      <4> QED
        BY <4>1, <4>2
    <3> QED
      BY <3>1, <3>2
  <2> QED
    BY <2>6, <2>7 DEF Starts, a, b, d
<1>14. Starts(Made(qs, r).chars, PathAfter(qs, r)[m].chars)
  <2>1. m \in 0 .. Len(qs)
    BY <1>1
  <2> QED
    BY <2>1, PathStarts
<1>15. Made(qs, r) \in Path /\ Extended(u, last, r) \in Path /\ Extended(u, more, r) \in Path
  BY <1>2, <1>3, MadeType, ExtendedType
<1>16. /\ Made(qs, r).chars \in Seq(Bytes) /\ Extended(u, last, r).chars \in Seq(Bytes)
       /\ Extended(u, more, r).chars \in Seq(Bytes)
  BY <1>15 DEF Path
<1>17. Starts(Made(qs, r).chars, Extended(u, last, r).chars)
  BY <1>9, <1>11, <1>13, <1>14, <1>16, StartsOn
<1> QED
  BY <1>2, <1>17

(* The argument, its terminator, and what lies behind it.                 *)
LEMMA BytesAre ==
  ASSUME ProxyAssumption, NEW w \in Word, w.size = 0 => w.chars = <<>>,
         NEW bytes \in BytesOf(w)
  PROVE  /\ bytes \in Seq(Bytes) /\ Begins(bytes, w.chars)
         /\ Len(bytes) = Len(w.chars) => w.chars = <<>> /\ bytes = <<>>
         /\ Len(bytes) > Len(w.chars) => bytes[Len(w.chars) + 1] = Nul
         /\ w.size <= Len(w.chars) + 1 => Len(bytes) <= Len(w.chars) + 1
<1> DEFINE chars == w.chars
           N == Len(chars)
           n == w.size - N - 1
<1>1. bytes \in Seq(Bytes)
  BY TakenApartTypes
<1>2. chars \in Seq(Chars) /\ w.size \in Nat /\ N \in Nat /\ Chars \subseteq Bytes
  BY DEF Word, Bytes
<1>3. chars \in Seq(Bytes)
  BY <1>2
<1>4. CASE w.size = 0
  <2>1. bytes = <<>> /\ chars = <<>>
    BY <1>4 DEF BytesOf
  <2>2. Begins(bytes, chars)
    BY <2>1 DEF Begins
  <2> QED
    BY <1>1, <2>1, <2>2
<1>5. CASE w.size # 0
  <2>1. PICK junk \in [1 .. n -> Junk] : bytes = chars \o <<Nul>> \o junk
    BY <1>5 DEF BytesOf
  <2>2. junk \in Seq(Bytes) /\ (n <= 0 => Len(junk) = 0)
    <3>1. CASE n >= 0
      <4>1. junk \in [1 .. n -> Bytes] /\ n \in Nat
        BY <1>2, <2>1, <3>1 DEF ProxyAssumption
      <4> HIDE DEF n
      <4> QED
        BY <4>1
    <3>2. CASE n < 0
      <4>1. 1 .. n = 1 .. 0
        BY <1>2, <3>2
      <4>2. junk \in [1 .. 0 -> Bytes]
        BY <2>1, <4>1 DEF ProxyAssumption
      <4> HIDE DEF n
      <4> QED
        BY <4>2
    <3> QED
      BY <1>2, <3>1, <3>2
  <2> DEFINE one == <<Nul>>
             front == chars \o one
  <2>3. one \in Seq(Bytes) /\ Len(one) = 1 /\ one[1] = Nul
    BY DEF Bytes
  <2> HIDE DEF one
  <2>4. /\ front \in Seq(Bytes) /\ Len(front) = N + 1
        /\ \A i \in 1 .. N : front[i] = chars[i]
        /\ front[N + 1] = Nul
    <3>1. /\ front \in Seq(Bytes) /\ Len(front) = N + Len(one)
          /\ \A i \in 1 .. N : front[i] = chars[i]
          /\ \A i \in 1 .. Len(one) : front[N + i] = one[i]
      <4>1. chars \in Seq(Bytes) /\ one \in Seq(Bytes)
        BY <1>3, <2>3
      <4> HIDE DEF chars
      <4> QED
        BY <4>1, ConcatIs
    <3>2. 1 \in 1 .. Len(one)
      BY <2>3
    <3> HIDE DEF front
    <3> QED
      BY <2>3, <3>1, <3>2
  <2>5. bytes = front \o junk
    BY <2>1 DEF one
  <2> HIDE DEF front, n
  <2>6. /\ Len(bytes) = N + 1 + Len(junk)
        /\ \A i \in 1 .. N + 1 : bytes[i] = front[i]
    <3>0. front \in Seq(Bytes) /\ junk \in Seq(Bytes)
      BY <2>2, <2>4
    <3>1. /\ Len(front \o junk) = Len(front) + Len(junk)
          /\ \A i \in 1 .. Len(front) : (front \o junk)[i] = front[i]
      BY <3>0, ConcatIs
    <3> QED
      BY <2>4, <2>5, <3>1
  <2>7. Len(junk) \in Nat
    BY <2>2
  <2>8. N <= Len(bytes) /\ Len(bytes) > N
    BY <1>2, <2>6, <2>7
  <2>9. Begins(bytes, chars)
    <3>1. \A i \in 1 .. N : bytes[i] = chars[i]
      BY <1>2, <2>4, <2>6
    <3> QED
      BY <2>8, <3>1 DEF Begins
  <2>10. bytes[N + 1] = Nul
    <3>1. N + 1 \in 1 .. N + 1
      BY <1>2
    <3>2. bytes[N + 1] = front[N + 1]
      BY <2>6, <3>1
    <3> QED
      BY <2>4, <3>2
  <2>11. w.size <= N + 1 => Len(bytes) <= N + 1
    <3>1. w.size <= N + 1 => n <= 0
      BY <1>2 DEF n
    <3> QED
      BY <1>2, <2>2, <2>6, <3>1
  <2> QED
    BY <1>1, <2>8, <2>9, <2>10, <2>11
<1> QED
  BY <1>4, <1>5

(* A well-formed argument is put together as it is meant, whatever lies    *)
(* behind it; with nothing behind it, it is accepted and nothing dies.    *)
LEMMA WellPutTogether ==
  ASSUME TokenAssumption, ProxyAssumption, NEW r \in Requests,
         NEW w \in Word, w.size = 0 => w.chars = <<>>, WellFormed(w.chars),
         NEW bytes \in BytesOf(w)
  PROVE  /\ String(Made(VarParse(bytes).parts, r).chars) = Substituted(w.chars, r)
         /\ w.size <= Len(w.chars) + 1 =>
              VarParse(bytes).ok /\ ~Made(VarParse(bytes).parts, r).dead
<1> DEFINE chars == w.chars
           N == Len(chars)
           M == Len(bytes)
           V(n) == ParseAfter(bytes)[n]
           z == Substituted(chars, r)
<1>1. /\ bytes \in Seq(Bytes) /\ Begins(bytes, chars)
      /\ M = N => chars = <<>> /\ bytes = <<>>
      /\ M > N => bytes[N + 1] = Nul
      /\ w.size <= N + 1 => M <= N + 1
  BY BytesAre
<1>2. chars \in Seq(Chars) /\ N \in Nat /\ M \in Nat /\ N <= M
  BY <1>1 DEF Word, Begins
<1>3. Outside(V(N), r, z) /\ z \in Plainly
  BY <1>1, <1>2, WrittenAll
<1>4. \A n \in 0 .. M : V(n) \in Parse /\ V(n).parts \in Seq(Part)
  BY <1>1, ParseRecursion DEF Parse
<1>5. VarParse(bytes) = V(M)
  BY <1>1, ParseRecursion
<1>6. N \in 0 .. M
  BY <1>2
<1>7. CASE M = N
  <2>1. Outside(V(M), r, z)
    BY <1>3, <1>7
  <2>2. V(M).ok /\ ~Made(V(M).parts, r).dead /\ Made(V(M).parts, r).chars = z
    BY <2>1 DEF Outside
  <2>3. String(z) = z
    <3> HIDE DEF z
    <3>1. \A i \in 1 .. Len(z) : z[i] # Nul
      BY <1>3 DEF Plainly
    <3> QED
      BY <1>3, <3>1, StringWhole DEF Plainly
  <2> QED
    BY <1>5, <2>2, <2>3
<1>8. CASE M # N
  <2> DEFINE k == N + 1
             ps == V(k).parts
             y == z \o <<Nul>>
  <2>1. k \in 1 .. M /\ k \in 0 .. M /\ k - 1 = N /\ k \in Nat /\ bytes[k] = Nul
    BY <1>1, <1>2, <1>8
  <2>2. V(k) = Parsed(V(N), Nul)
    <3> HIDE DEF k, N
    <3> QED
      BY <1>1, <2>1, ParseRecursion
  <2>3. Nul \in Bytes /\ Nul \notin Marks
    BY DEF Bytes, Nul, Marks
  <2>4. Outside(V(k), r, y) /\ V(k).in
    <3> DEFINE v == V(N)
    <3>1. v \in Parse /\ Outside(v, r, z)
      BY <1>3, <1>4, <1>6
    <3> HIDE DEF v, z
    <3>2. Outside(Parsed(v, Nul), r, z \o <<Nul>>) /\ Parsed(v, Nul).in
      BY <2>3, <3>1, LiteralWritten
    <3> QED
      BY <2>2, <3>2 DEF v
  <2>5. V(k) \in Parse /\ ps \in Seq(Part)
    BY <1>4, <2>1
  <2>6. /\ ps # <<>> /\ IsLiteral(ps[Len(ps)]) /\ ~Made(ps, r).dead /\ Made(ps, r).chars = y
        /\ V(k).ok
    BY <2>4, <2>5 DEF Outside, Parse
  <2> DEFINE S == {n \in 0 .. M : n >= k => Kept(ps, V(n).parts)}
  <2>7. Kept(ps, ps)
    <3> HIDE DEF ps
    <3>1. Len(ps) \in Nat /\ ps[Len(ps)] \in Part
      BY <2>5, <2>6, LastPart
    <3>2. ps[Len(ps)] \in Seq(Bytes)
      BY <3>1 DEF Part
    <3>3. Starts(ps[Len(ps)], ps[Len(ps)])
      BY <3>2, StartsItself
    <3> QED
      BY <3>1, <3>3 DEF Kept
  <2>8. 0 \in S
    <3>1. 0 \in 0 .. M /\ ~(0 >= k)
      BY <1>2
    <3> QED
      BY <3>1
  <2>9. ASSUME NEW n \in 0 .. M - 1, n \in S PROVE n + 1 \in S
    <3> DEFINE l == n + 1
    <3>1. l \in 1 .. M /\ l \in 0 .. M /\ n \in 0 .. M /\ l - 1 = n
      <4>1. M \in Nat
        BY <1>2
      <4> HIDE DEF M
      <4> QED
        BY <4>1
    <3>2. V(n) \in Parse /\ bytes[l] \in Bytes /\ V(l) = Parsed(V(n), bytes[l])
      <4>1. bytes[l] \in Bytes
        BY <1>1, <3>1
      <4> HIDE DEF l
      <4> QED
        BY <1>1, <1>4, <3>1, <4>1, ParseRecursion
    <3>3. Grown(V(n).parts, V(l).parts)
      BY <3>2, PartsGrow
    <3>4. ASSUME l >= k PROVE Kept(ps, V(l).parts)
      <4>1. CASE l = k
        BY <2>7, <4>1
      <4>2. CASE l # k
        <5>1. n >= k
          BY <1>2, <3>4, <4>2
        <5>2. Kept(ps, V(n).parts)
          BY <2>9, <5>1
        <5>3. V(n).parts \in Seq(Part) /\ V(l).parts \in Seq(Part)
          BY <1>4, <3>1
        <5> HIDE DEF V, ps, l, k
        <5> QED
          BY <2>5, <2>6, <3>3, <5>2, <5>3, KeptGrown
      <4> QED
        BY <4>1, <4>2
    <3> QED
      BY <3>1, <3>4
  <2> HIDE DEF S
  <2>10. \A n \in 0 .. M : n \in S
    <3> HIDE DEF M
    <3> QED
      BY <1>2, <2>8, <2>9, InductionTo
  <2>11. Kept(ps, V(M).parts)
    <3>1. M \in 0 .. M /\ M >= k
      BY <1>2, <2>1
    <3> QED
      BY <2>10, <3>1 DEF S
  <2> DEFINE qs == V(M).parts
             path == Made(qs, r)
  <2>12. Starts(path.chars, y)
    <3>1. qs \in Seq(Part)
      <4>1. M \in 0 .. M
        BY <1>2
      <4> QED
        BY <1>4, <4>1
    <3>2. Kept(ps, qs)
      BY <2>11
    <3> HIDE DEF ps, qs
    <3>3. Starts(Made(qs, r).chars, Made(ps, r).chars)
      BY <2>5, <2>6, <3>1, <3>2, KeptPath
    <3> QED
      BY <2>6, <3>3
  <2>13. path.chars \in Seq(Bytes)
    <3>1. qs \in Seq(Part)
      <4>1. M \in 0 .. M
        BY <1>2
      <4> QED
        BY <1>4, <4>1
    <3> HIDE DEF qs
    <3>2. path \in Path
      BY <3>1, MadeType
    <3> QED
      BY <3>2 DEF Path
  <2>14. String(path.chars) = z
    <3> DEFINE s == path.chars
    <3> HIDE DEF z, s
    <3>1. s \in Seq(Bytes)
      BY <2>13 DEF s
    <3>2. Starts(s, y)
      BY <2>12 DEF s
    <3>3. z \in Seq(Bytes) /\ Len(z) \in Nat /\ \A i \in 1 .. Len(z) : z[i] # Nul
      BY <1>3 DEF Plainly
    <3>4. /\ Len(y) = Len(z) + 1 /\ y[Len(z) + 1] = Nul
          /\ \A i \in 1 .. Len(z) : y[i] = z[i]
      <4> DEFINE one == <<Nul>>
      <4>1. one \in Seq(Bytes) /\ Len(one) = 1 /\ one[1] = Nul
        BY DEF Bytes
      <4> HIDE DEF one
      <4>2. /\ Len(z \o one) = Len(z) + Len(one)
            /\ \A i \in 1 .. Len(z) : (z \o one)[i] = z[i]
            /\ \A i \in 1 .. Len(one) : (z \o one)[Len(z) + i] = one[i]
        <5>1. z \in Seq(Bytes) /\ one \in Seq(Bytes)
          BY <3>3, <4>1
        <5> QED
          BY <5>1, ConcatIs
      <4>3. 1 \in 1 .. Len(one)
        BY <4>1
      <4>4. y = z \o one
        BY DEF one
      <4> QED
        BY <4>1, <4>2, <4>3, <4>4
    <3> HIDE DEF y
    <3>5. /\ Len(z) + 1 \in 1 .. Len(s) /\ s[Len(z) + 1] = Nul
          /\ \A i \in 1 .. Len(z) : s[i] = z[i]
      <4>1. Len(y) <= Len(s) /\ \A i \in 1 .. Len(y) : s[i] = y[i]
        BY <3>2, Zenon DEF Starts
      <4>2. Len(s) \in Nat
        BY <3>1
      <4>3. Len(z) + 1 \in 1 .. Len(s) /\ Len(z) + 1 \in 1 .. Len(y)
        BY <3>3, <3>4, <4>1, <4>2
      <4>4. s[Len(z) + 1] = Nul
        BY <3>4, <4>1, <4>3
      <4>5. ASSUME NEW i \in 1 .. Len(z) PROVE s[i] = z[i]
        <5>1. i \in 1 .. Len(y)
          BY <3>3, <3>4
        <5>2. s[i] = y[i] /\ y[i] = z[i]
          BY <3>4, <4>1, <5>1
        <5> QED
          BY <5>2
      <4> QED
        BY <4>3, <4>4, <4>5
    <3> DEFINE x == Len(z) + 1
    <3>7. x - 1 = Len(z)
      BY <3>3
    <3>6. x \in 1 .. Len(s) /\ s[x] = Nul /\ \A i \in 1 .. x - 1 : s[i] # Nul
      <4>1. x \in 1 .. Len(s) /\ s[x] = Nul
        BY <3>5, Zenon
      <4>2. \A i \in 1 .. Len(z) : s[i] # Nul
        BY <3>3, <3>5, Zenon
      <4> HIDE DEF x
      <4> QED
        BY <3>7, <4>1, <4>2
    <3> HIDE DEF x
    <3>8. String(s) = SubSeq(s, 1, x - 1)
      BY <3>1, <3>6, StringUpto
    <3>9. SubSeq(s, 1, Len(z)) = SubSeq(z, 1, Len(z))
      <4>1. Len(z) <= Len(s)
        BY <3>3, <3>6, <3>7
      <4> QED
        BY <3>1, <3>3, <3>5, <4>1, SubSeqSame
    <3>10. SubSeq(z, 1, Len(z)) = z
      BY <3>3
    <3> QED
      BY <3>7, <3>8, <3>9, <3>10 DEF s
  <2>15. w.size <= N + 1 => V(M).ok /\ ~Made(V(M).parts, r).dead
    <3> SUFFICES ASSUME w.size <= N + 1 PROVE V(M).ok /\ ~Made(V(M).parts, r).dead
      OBVIOUS
    <3>1. M = k
      BY <1>1, <1>2, <1>8
    <3> HIDE DEF M, k
    <3> QED
      BY <2>6, <3>1
  <2> QED
    BY <1>5, <2>14, <2>15
<1> QED
  BY <1>7, <1>8

-----------------------------------------------------------------------------
(* The invariant of the route. *)

(* A word has a buffer unless there is nothing to copy.                    *)
Sized == {w \in Word : w.size = 0 => w.chars = <<>>}

WordsSized ==
  /\ words \in Seq(Sized)
  /\ statement.words \in Seq(Sized)
  /\ argument \in Sized

(* The parts are what some bytes of the argument are taken apart to.       *)
TakenApart ==
  \E bytes \in BytesOf(argument) :
    parts = VarParse(bytes).parts /\ (VarParse(bytes).ok <=> phase # "refused")

(* The url of a served request is what the parts make of it.               *)
PutTogether ==
  LET path == Made(parts, request)
  IN /\ result = "ok" /\ request \in Requests
     /\ url.chars = path.chars
     /\ pathfault \in path.faults \cup {IF path.dead THEN "size" ELSE "none"}

ArgumentInv ==
  /\ TypeInv
  /\ WordsSized
  /\ phase # "unset" => TakenApart
  /\ IF phase = "served" THEN PutTogether ELSE pathfault = "none"

(* A word that ends has a buffer, or is empty. *)
LEMMA CopiedSized ==
  ASSUME TokenAssumption, NEW t \in Seq(Chars), base \in Nat, torn \in BOOLEAN,
         NEW from \in Nat, NEW to \in Int, base + to <= Len(t)
  PROVE  TokenCopied(t, from, to) \in Sized
<1> DEFINE w == TokenCopied(t, from, to)
           bytes == SubSeq(t, base + from + 1, base + to)
<1>1. w \in Word
  BY WordType
<1>2. /\ w.chars = IF to > from THEN Copied(bytes) ELSE <<>>
      /\ w.size = IF to > from THEN to - from ELSE 0
  BY DEF TokenCopied
<1> HIDE DEF w, bytes
<1>3. w.size = 0 => w.chars = <<>>
  BY <1>2
<1> QED
  BY <1>1, <1>3 DEF Sized, w

(* The steps, one by one: what is taken or read leaves the argument alone. *)
LEMMA ArgumentTakeChar ==
  ASSUME TokenAssumption, WordsSized, TypeInv, NEW c, TakeChar(c), argument' = argument
  PROVE  WordsSized'
<1> DEFINE pos == Len(text) + 1 - base
           kind == Ended(lex, c)
           copied == TokenCopied(text', start, pos)
           ends == EndsWord(lex, c)
<1>1. /\ c \in Symbols
      /\ text' = Append(text, c)
      /\ words' = IF ends THEN Append(words, copied) ELSE words
      /\ statement' = IF kind = "none" THEN None
                      ELSE [kind |-> kind,
                            words |-> IF kind = "close" THEN <<>> ELSE words']
  BY Zenon DEF TakeChar
<1>2. /\ given \in Texts /\ given.room \in Nat
      /\ text \in Seq(Chars) /\ base \in 0 .. Len(text)
      /\ start \in 0 .. given.room + Len(text) /\ torn \in BOOLEAN
  BY DEF TypeInv, TypeOK, TokenTypeOK, TokenAssumption
<1>3. text' \in Seq(Chars) /\ Len(text') = Len(text) + 1 /\ Len(text) \in Nat
  <2>1. c \in Chars
    BY <1>1, SymbolsAreChars DEF TypeInv, TypeOK
  <2> QED
    BY <1>1, <1>2, <2>1
<1>4. pos \in Int /\ base + pos = Len(text') /\ base \in Nat /\ start \in Nat
  BY <1>2, <1>3
<1>5. copied \in Sized
  <2> HIDE DEF pos
  <2>1. base + pos <= Len(text')
    BY <1>3, <1>4
  <2> QED
    BY <1>2, <1>3, <1>4, <2>1, CopiedSized
<1>6. words \in Seq(Sized) /\ argument \in Sized
  BY DEF WordsSized
<1> HIDE DEF pos, kind, copied, ends
<1>7. words' \in Seq(Sized)
  BY <1>1, <1>5, <1>6
<1>8. statement'.words \in Seq(Sized)
  <2>1. <<>> \in Seq(Sized)
    OBVIOUS
  <2>2. CASE kind = "none"
    BY <1>1, <2>1, <2>2 DEF None
  <2>3. CASE kind # "none"
    BY <1>1, <1>7, <2>1, <2>3
  <2> QED
    BY <2>2, <2>3
<1> QED
  BY <1>6, <1>7, <1>8 DEF WordsSized

(* Once a request has been served the text has been read.                  *)
LEMMA ServedReadsNothing ==
  ASSUME ArgumentInv,
         \/ Refill \/ EndOfFile \/ EndOfCmdline
         \/ \E c : TakeChar(c)
         \/ HandOver(statement)
  PROVE  phase # "served"
<1>1. result = "reading"
  BY Zenon DEF Refill, EndOfFile, EndOfCmdline, TakeChar, HandOver, Reading
<1>2. phase = "served" => result = "ok"
  BY DEF ArgumentInv, PutTogether
<1> QED
  BY <1>1, <1>2

LEMMA ArgumentUnchanged ==
  ASSUME ArgumentInv, TypeInv', WordsSized', phase # "served", UNCHANGED proxyVars
  PROVE  ArgumentInv'
<1>1. /\ phase' = phase /\ argument' = argument /\ parts' = parts
      /\ pathfault' = pathfault
  BY DEF proxyVars
<1>2. TakenApart => TakenApart'
  BY <1>1, Zenon DEF TakenApart
<1> QED
  BY <1>1, <1>2 DEF ArgumentInv

LEMMA ArgumentHandOver ==
  ASSUME WordsSized, HandOver(statement)
  PROVE  words' \in Seq(Sized) /\ statement'.words \in Seq(Sized)
<1>1. words' = <<>> /\ statement'.words = <<>>
  BY DEF HandOver, None
<1>2. <<>> \in Seq(Sized)
  OBVIOUS
<1> QED
  BY <1>1, <1>2

LEMMA ArgumentPassPath ==
  ASSUME TypeInv', ArgumentInv, PassPath(statement)
  PROVE  ArgumentInv'
<1>1. /\ HandOver(statement) /\ Len(statement.words) = 2
      /\ argument' = statement.words[2]
      /\ phase' \in {"accepted", "refused"}
      /\ pathfault' = pathfault
  BY DEF PassPath
<1>2. PICK bytes \in BytesOf(argument') :
        /\ parts' = VarParse(bytes).parts
        /\ VarParse(bytes).ok <=> phase' # "refused"
  BY <1>1 DEF PassPath
<1>3. TakenApart'
  BY <1>2, Zenon DEF TakenApart
<1>4. statement.words[2] \in Sized
  <2>1. statement.words \in Seq(Sized)
    BY DEF ArgumentInv, WordsSized
  <2> QED
    BY <1>1, <2>1
<1>5. WordsSized'
  <2>1. WordsSized
    BY DEF ArgumentInv
  <2>2. words' \in Seq(Sized) /\ statement'.words \in Seq(Sized)
    BY <1>1, <2>1, ArgumentHandOver
  <2> QED
    BY <1>1, <1>4, <2>2 DEF WordsSized
<1>6. pathfault = "none"
  <2>1. phase # "served"
    BY <1>1, ServedReadsNothing
  <2> QED
    BY <2>1 DEF ArgumentInv
<1> QED
  BY <1>1, <1>3, <1>5, <1>6 DEF ArgumentInv

LEMMA ArgumentInitCb ==
  ASSUME TypeInv', ArgumentInv, NEW r \in Requests, InitCb(r)
  PROVE  ArgumentInv'
<1> DEFINE next == NextPath(r)
<1>1. /\ url' = [chars |-> next.chars, allocated |-> next.allocated]
      /\ pathfault' \in next.faults \cup {IF next.dead THEN "size" ELSE "none"}
      /\ request' = r /\ phase' = "served" /\ phase = "accepted" /\ result = "ok"
      /\ UNCHANGED <<tokenVars, argument, parts>>
  BY DEF InitCb
<1>2. next = Made(parts', request')
  BY <1>1, NextPathIs DEF Made
<1>3. /\ words' = words /\ statement' = statement /\ result' = result
      /\ argument' = argument /\ parts' = parts
  BY <1>1 DEF tokenVars, tokens
<1>4. WordsSized'
  BY <1>3 DEF ArgumentInv, WordsSized
<1>5. TakenApart'
  <2>1. TakenApart
    BY <1>1 DEF ArgumentInv
  <2>2. PICK bytes \in BytesOf(argument) :
          parts = VarParse(bytes).parts /\ VarParse(bytes).ok
    BY <1>1, <2>1 DEF TakenApart
  <2>3. bytes \in BytesOf(argument') /\ phase' # "refused"
    BY <1>1, <1>3
  <2>4. parts' = VarParse(bytes).parts /\ (VarParse(bytes).ok <=> phase' # "refused")
    BY <1>3, <2>2, <2>3
  <2> QED
    BY <2>3, <2>4, Zenon DEF TakenApart
<1>6. url'.chars = next.chars
  BY <1>1
<1> HIDE DEF next
<1>7. PutTogether'
  BY <1>1, <1>2, <1>3, <1>6 DEF PutTogether
<1> QED
  BY <1>1, <1>4, <1>5, <1>7 DEF ArgumentInv

LEMMA ArgumentReleaseCb ==
  ASSUME TypeInv', ArgumentInv, ReleaseCb
  PROVE  ArgumentInv'
<1>1. /\ phase = "served" /\ phase' = "accepted" /\ pathfault = "none"
      /\ words' = words /\ statement' = statement /\ argument' = argument
      /\ parts' = parts /\ pathfault' = pathfault
  BY DEF ReleaseCb, tokenVars, tokens
<1>2. WordsSized'
  BY <1>1 DEF ArgumentInv, WordsSized
<1>3. TakenApart'
  <2>1. TakenApart
    BY <1>1 DEF ArgumentInv
  <2>2. PICK bytes \in BytesOf(argument) :
          parts = VarParse(bytes).parts /\ VarParse(bytes).ok
    BY <1>1, <2>1 DEF TakenApart
  <2>3. bytes \in BytesOf(argument') /\ phase' # "refused"
    BY <1>1
  <2>4. parts' = VarParse(bytes).parts /\ (VarParse(bytes).ok <=> phase' # "refused")
    BY <1>1, <2>2, <2>3
  <2> QED
    BY <2>3, <2>4, Zenon DEF TakenApart
<1> QED
  BY <1>1, <1>2, <1>3 DEF ArgumentInv

LEMMA ArgumentStep ==
  ASSUME TokenAssumption, ProxyAssumption, ArgumentInv, [Next]_vars
  PROVE  ArgumentInv'
<1>1. TypeInv /\ WordsSized
  BY DEF ArgumentInv
<1>2. TypeInv'
  BY <1>1, TypesStep
<1>3. CASE (Refill \/ EndOfFile \/ EndOfCmdline) /\ UNCHANGED proxyVars
  <2>1. words' = words /\ statement' = statement /\ argument' = argument
    BY <1>3 DEF Refill, EndOfFile, EndOfCmdline, tokens, proxyVars
  <2>2. WordsSized'
    BY <1>1, <2>1 DEF WordsSized
  <2> QED
    BY <1>2, <1>3, <2>2, ServedReadsNothing, ArgumentUnchanged
<1>4. ASSUME NEW c \in Chars, TakeChar(c), UNCHANGED proxyVars PROVE ArgumentInv'
  <2>1. argument' = argument
    BY <1>4 DEF proxyVars
  <2>2. WordsSized'
    BY <1>1, <1>4, <2>1, ArgumentTakeChar
  <2>3. phase # "served"
    BY <1>4, ServedReadsNothing
  <2> QED
    BY <1>2, <1>4, <2>2, <2>3, ArgumentUnchanged
<1>5. CASE HandOver(statement) /\ UNCHANGED proxyVars
  <2>1. argument' = argument
    BY <1>5 DEF proxyVars
  <2>2. WordsSized'
    BY <1>1, <1>5, <2>1, ArgumentHandOver DEF WordsSized
  <2> QED
    BY <1>2, <1>5, <2>2, ServedReadsNothing, ArgumentUnchanged
<1>6. CASE (Handle(statement) \/ HandleRefuses(statement)) /\ UNCHANGED proxyVars
  BY <1>5, <1>6 DEF Handle, HandleRefuses
<1>7. CASE PassPath(statement)
  BY <1>2, <1>7, ArgumentPassPath
<1>8. CASE PassPathRefuses(statement)
  BY <1>6, <1>8 DEF PassPathRefuses
<1>9. ASSUME NEW r \in Requests, InitCb(r) PROVE ArgumentInv'
  BY <1>2, <1>9, ArgumentInitCb
<1>10. CASE ReleaseCb
  BY <1>2, <1>10, ArgumentReleaseCb
<1>11. CASE UNCHANGED vars
  <2>1. /\ words' = words /\ statement' = statement /\ argument' = argument
        /\ parts' = parts /\ phase' = phase /\ pathfault' = pathfault
        /\ result' = result /\ request' = request /\ url' = url
    BY <1>11 DEF vars, tokenVars, tokens, proxyVars
  <2>2. WordsSized'
    BY <1>1, <2>1 DEF WordsSized
  <2>3. TakenApart => TakenApart'
    BY <2>1, Zenon DEF TakenApart
  <2>4. PutTogether => PutTogether'
    BY <2>1, Zenon DEF PutTogether
  <2> QED
    BY <1>2, <2>1, <2>2, <2>3, <2>4 DEF ArgumentInv
<1> QED
  BY <1>3, <1>4, <1>6, <1>7, <1>8, <1>9, <1>10, <1>11 DEF Next

LEMMA ArgumentKept == Spec => []ArgumentInv
<1>1. Init => ArgumentInv
  <2> SUFFICES ASSUME Init PROVE ArgumentInv
    OBVIOUS
  <2>1. TypeInv
    BY TypesInit, TokenAssumption
  <2>2. /\ words = <<>> /\ statement = None /\ argument = NoWord /\ phase = "unset"
        /\ pathfault = "none"
    BY DEF Init, TokenInit
  <2>3. NoWord \in Sized /\ <<>> \in Seq(Sized)
    <3>1. <<>> \in Seq(Chars)
      OBVIOUS
    <3> QED
      BY <3>1 DEF NoWord, Sized, Word
  <2>4. WordsSized
    BY <2>2, <2>3 DEF WordsSized, None
  <2> QED
    BY <2>1, <2>2, <2>4 DEF ArgumentInv
<1>2. ArgumentInv /\ [Next]_vars => ArgumentInv'
  BY ArgumentStep, TokenAssumption, ProxyAssumption
<1> QED
  BY <1>1, <1>2, PTL DEF Spec

(* A well-formed path is refused only for bytes nothing wrote, and every   *)
(* request is sent on to what its groups make of it.                       *)
THEOREM WellFormedAsConfigured == Spec => []PathAsConfigured
<1>1. ASSUME TokenAssumption, ProxyAssumption, ArgumentInv PROVE PathAsConfigured
  <2> SUFFICES ASSUME WellFormed(argument.chars)
               PROVE  /\ phase = "refused" => argument.size > Len(argument.chars) + 1
                      /\ phase = "served" /\ pathfault = "none" =>
                           String(url.chars) = Substituted(argument.chars, request)
    BY DEF PathAsConfigured
  <2>1. argument \in Word /\ (argument.size = 0 => argument.chars = <<>>)
    BY <1>1 DEF ArgumentInv, WordsSized, Sized
  <2>2. argument.size \in Nat /\ Len(argument.chars) \in Nat
    BY <2>1 DEF Word
  <2>3. ASSUME phase = "served"
        PROVE  String(url.chars) = Substituted(argument.chars, request)
    <3>1. request \in Requests /\ url.chars = Made(parts, request).chars
      BY <1>1, <2>3 DEF ArgumentInv, PutTogether
    <3>2. PICK bytes \in BytesOf(argument) : parts = VarParse(bytes).parts
      BY <1>1, <2>3 DEF ArgumentInv, TakenApart
    <3> QED
      BY <1>1, <2>1, <3>1, <3>2, WellPutTogether
  <2>4. ASSUME phase = "refused" PROVE argument.size > Len(argument.chars) + 1
    <3>1. PICK bytes \in BytesOf(argument) : ~VarParse(bytes).ok
      BY <1>1, <2>4 DEF ArgumentInv, TakenApart
    <3>2. PICK r : r \in Requests
      BY <1>1 DEF ProxyAssumption
    <3>3. argument.size <= Len(argument.chars) + 1 => VarParse(bytes).ok
      BY <1>1, <2>1, <3>2, WellPutTogether
    <3> QED
      BY <2>2, <3>1, <3>3
  <2> QED
    BY <2>3, <2>4
<1>2. ArgumentInv => PathAsConfigured
  BY <1>1, TokenAssumption, ProxyAssumption
<1> QED
  BY <1>2, ArgumentKept, PTL

-----------------------------------------------------------------------------
(* Which paths memory is misused for. *)

(* Without a dollar there is no variable, and at most one part.            *)
OnePart(ps) == \E part \in Part : IsLiteral(part) /\ ps = <<part>>

NoVariable(v) == ~v.variable /\ (v.parts = <<>> \/ (v.in /\ OnePart(v.parts)))

(* A byte that is no dollar begins no variable. *)
LEMMA NoVariableGoesOn ==
  ASSUME NEW v \in Parse, NoVariable(v), NEW c \in Bytes, c # "$"
  PROVE  NoVariable(Parsed(v, c))
<1>1. v.ok \in BOOLEAN /\ v.in \in BOOLEAN /\ v.parts \in Seq(Part) /\ ~v.variable
  BY DEF Parse, NoVariable
<1>2. CASE ~v.ok
  BY <1>2, ParsedByTests
<1>3. CASE v.ok /\ (c = "{" \/ c = "}")
  <2>1. Parsed(v, c) = BraceRefused(v)
    BY <1>1, <1>3, ParsedByTests
  <2>2. /\ BraceRefused(v).parts = v.parts /\ BraceRefused(v).in = v.in
        /\ BraceRefused(v).variable = v.variable
    BY DEF BraceRefused, Parse
  <2> QED
    BY <2>1, <2>2 DEF NoVariable
<1>4. CASE v.ok /\ c # "{" /\ c # "}"
  <2>1. Parsed(v, c) = PartContinued(v, c)
    BY <1>1, <1>4, ParsedByTests
  <2>2. CASE v.in
    <3> DEFINE w == PartContinued(v, c)
               n == Len(v.parts)
    <3>1. /\ w.parts = [v.parts EXCEPT ![n] = Append(@, c)]
          /\ w.in = TRUE /\ w.variable = v.variable
      BY <2>2, PartContinuedIs
    <3>2. v.parts # <<>>
      BY <2>2 DEF Parse
    <3>3. PICK part \in Part : IsLiteral(part) /\ v.parts = <<part>>
      BY <3>2 DEF NoVariable, OnePart
    <3> DEFINE more == Append(part, c)
    <3>4. more \in Part /\ more[1] = part[1]
      BY PartGrows
    <3>5. w.parts = <<more>>
      <4>1. n = 1 /\ v.parts[1] = part
        BY <3>3
      <4>2. w.parts = [v.parts EXCEPT ![1] = more]
        BY <3>1, <4>1
      <4> HIDE DEF more
      <4>3. [<<part>> EXCEPT ![1] = more] = <<more>>
        OBVIOUS
      <4> QED
        BY <3>3, <4>2, <4>3
    <3> HIDE DEF more, w
    <3>6. OnePart(w.parts)
      BY <3>3, <3>4, <3>5 DEF OnePart, IsLiteral
    <3>7. NoVariable(w)
      BY <1>1, <3>1, <3>6 DEF NoVariable
    <3> QED
      BY <2>1, <3>7 DEF w
  <2>3. CASE ~v.in
    <3> DEFINE w == PartStarted(v, c)
               part == <<c>>
    <3>1. w.parts = Append(v.parts, part) /\ w.in = TRUE /\ w.variable = v.variable
      BY PartStartedIs
    <3>2. v.parts = <<>>
      BY <2>3 DEF NoVariable
    <3>3. part \in Part /\ part[1] = c
      BY DEF Part
    <3> HIDE DEF w, part
    <3>4. w.parts = <<part>>
      BY <3>1, <3>2
    <3>5. NoVariable(w)
      BY <1>1, <3>1, <3>3, <3>4 DEF NoVariable, OnePart, IsLiteral
    <3>6. Parsed(v, c) = w
      BY <2>1, <2>3, PartBegun DEF w
    <3> QED
      BY <3>5, <3>6
  <2> QED
    BY <1>1, <2>2, <2>3
<1> QED
  BY <1>1, <1>2, <1>3, <1>4

(* So without a dollar there is at most one part. *)
LEMMA NoVariableAtAll ==
  ASSUME NEW bytes \in Seq(Bytes), \A i \in 1 .. Len(bytes) : bytes[i] # "$"
  PROVE  NoVariable(VarParse(bytes))
<1> DEFINE N == Len(bytes)
           V(n) == ParseAfter(bytes)[n]
           S == {n \in 0 .. N : NoVariable(V(n))}
<1>1. N \in Nat
  OBVIOUS
<1>2. 0 \in S
  <2>1. NoVariable(NoParts)
    BY DEF NoVariable, NoParts
  <2> QED
    BY <1>1, <2>1, ParseRecursion
<1>3. ASSUME NEW n \in 0 .. N - 1, n \in S PROVE n + 1 \in S
  <2> DEFINE k == n + 1
  <2>1. k \in 1 .. N /\ k \in 0 .. N /\ n \in 0 .. N /\ k - 1 = n
    BY <1>1
  <2>2. bytes[k] \in Bytes /\ bytes[k] # "$"
    BY <2>1
  <2> HIDE DEF k
  <2>3. V(k) = Parsed(V(n), bytes[k]) /\ V(n) \in Parse
    BY <2>1, ParseRecursion
  <2>4. NoVariable(V(n))
    BY <1>3
  <2> HIDE DEF V
  <2>5. NoVariable(V(k))
    BY <2>2, <2>3, <2>4, NoVariableGoesOn
  <2> QED
    BY <2>1, <2>5 DEF k
<1> HIDE DEF S
<1>4. \A n \in 0 .. N : n \in S
  BY <1>1, <1>2, <1>3, InductionTo
<1>5. N \in 0 .. N
  BY <1>1
<1> QED
  BY <1>4, <1>5, ParseRecursion DEF S

(* Such a path is put together without fault.                              *)
LEMMA NoVariableNoFault ==
  ASSUME ProxyAssumption, NEW r \in Requests, NEW bytes \in Seq(Bytes),
         \A i \in 1 .. Len(bytes) : bytes[i] # "$"
  PROVE  LET path == Made(VarParse(bytes).parts, r)
         IN path.faults = {} /\ ~path.dead
<1> DEFINE ps == VarParse(bytes).parts
           path == Made(ps, r)
<1>1. ps = <<>> \/ OnePart(ps)
  BY NoVariableAtAll DEF NoVariable
<1> HIDE DEF ps
<1>2. NoPath \in Path /\ NoPath.faults = {} /\ ~NoPath.dead /\ ~NoPath.allocated
  BY DEF NoPath, Path
<1>3. ASSUME ps = <<>> PROVE path.faults = {} /\ ~path.dead
  <2>1. path = NoPath
    BY <1>3, MadeOfNone
  <2> HIDE DEF path
  <2> QED
    BY <1>2, <2>1, Zenon
<1>4. ASSUME OnePart(ps) PROVE path.faults = {} /\ ~path.dead
  <2>1. PICK part \in Part : IsLiteral(part) /\ ps = <<part>>
    BY <1>4 DEF OnePart
  <2>2. <<>> \in Seq(Part) /\ Append(<<>>, part) = <<part>>
    OBVIOUS
  <2>3. path = Extended(NoPath, part, r)
    BY <2>1, <2>2, MadeOfMore, MadeOfNone
  <2>4. path = Literal(NoPath, part)
    BY <1>2, <2>1, <2>3, ExtendedByLiteral
  <2>5. Literal(NoPath, part).faults = {} /\ ~Literal(NoPath, part).dead
    BY DEF Literal, NoPath
  <2> HIDE DEF path
  <2> QED
    BY <2>4, <2>5, Zenon
<1> QED
  BY <1>1, <1>3, <1>4 DEF ps

(* The list of groups is left only behind its end.                         *)
LEMMA WildBehindAll ==
  ASSUME ProxyAssumption, NEW r \in Requests, NEW S, NEW name \in Seq(S), Wild(name, r)
  PROVE  Len(r) < Captures
<1>1. Number(name) \in Nat /\ Len(r) \in Nat /\ Captures \in Nat
  BY NumberType DEF ProxyAssumption
<1> QED
  BY <1>1 DEF Wild

LEMMA WildWhenExtended ==
  ASSUME ProxyAssumption, NEW r \in Requests, NEW u \in Path, NEW part \in Part,
         "wild" \in Extended(u, part, r).faults, "wild" \notin u.faults
  PROVE  Len(r) < Captures
<1>1. Literal(u, part).faults \subseteq u.faults \cup {"short"}
  BY DEF Literal, Path
<1>2. Died(u).faults = u.faults
  BY DEF Died, Path
<1>3. part \in Seq(Bytes) /\ String(Name(part)) \in Seq(Bytes)
  BY NameType DEF Part
<1>4. CASE Extended(u, part, r) = VariableCompiled(u, part, r)
  <2>1. "wild" \in NameFaults(part, r)
    BY <1>4, CompiledReplaces
  <2>2. Wild(String(Name(part)), r)
    BY <2>1 DEF NameFaults
  <2> QED
    BY <1>3, <2>2, WildBehindAll
<1>5. \/ Extended(u, part, r) = u
      \/ Extended(u, part, r) = Literal(u, part)
      \/ Extended(u, part, r) = Died(u)
      \/ Extended(u, part, r) = VariableCompiled(u, part, r)
  <2>1. Len(part) \in Nat /\ Len(Prefix) = 3 /\ IsPathVariable(part) \in BOOLEAN
    BY DEF Part, Prefix, IsPathVariable
  <2>2. \/ Variable(u, part, r) = u
        \/ Variable(u, part, r) = Died(u)
        \/ Variable(u, part, r) = VariableCompiled(u, part, r)
    <3>2. \/ ~IsPathVariable(part)
          \/ IsPathVariable(part) /\ Len(part) <= Len(Prefix)
          \/ IsPathVariable(part) /\ Len(part) > Len(Prefix)
      BY <2>1
    <3> QED
      BY <3>2, VariableByTests
  <2> QED
    BY <2>2, Zenon DEF Extended
<1> QED
  BY <1>1, <1>2, <1>4, <1>5

LEMMA WildOnlyIfUnused ==
  ASSUME ProxyAssumption, NEW r \in Requests, NEW ps \in Seq(Part),
         "wild" \in Made(ps, r).faults
  PROVE  Len(r) < Captures
<1> SUFFICES ASSUME ~(Len(r) < Captures) PROVE FALSE
  OBVIOUS
<1> DEFINE N == Len(ps)
           P(n) == PathAfter(ps, r)[n]
           S == {n \in 0 .. N : "wild" \notin P(n).faults}
<1>1. N \in Nat
  OBVIOUS
<1>2. 0 \in S
  <2>1. "wild" \notin NoPath.faults
    BY DEF NoPath
  <2>2. P(0) = NoPath
    BY PathFirst DEF PathBegins
  <2> QED
    BY <1>1, <2>1, <2>2
<1>3. ASSUME NEW n \in 0 .. N - 1, n \in S PROVE n + 1 \in S
  <2> DEFINE k == n + 1
  <2>1. k \in 1 .. N /\ k \in 0 .. N /\ n \in 0 .. N /\ k - 1 = n
    BY <1>1
  <2>2. ps[k] \in Part
    BY <2>1
  <2> HIDE DEF k
  <2>3. P(k) = Extended(P(n), ps[k], r) /\ P(n) \in Path
    <3>1. PathGoesOn(ps, r, k)
      BY <2>1, PathNext
    <3>2. P(n) \in Path
      BY <2>1, PathRecursion
    <3> QED
      BY <2>1, <3>1, <3>2 DEF PathGoesOn
  <2>4. "wild" \notin P(n).faults
    BY <1>3
  <2> HIDE DEF P
  <2>5. "wild" \notin P(k).faults
    BY <2>2, <2>3, <2>4, WildWhenExtended
  <2> QED
    BY <2>1, <2>5 DEF k
<1> HIDE DEF S
<1>4. \A n \in 0 .. N : n \in S
  BY <1>1, <1>2, <1>3, InductionTo
<1>5. N \in 0 .. N
  BY <1>1
<1>6. N \in S
  BY <1>4, <1>5
<1>7. "wild" \notin Made(ps, r).faults
  BY <1>6 DEF S, Made
<1> QED
  BY <1>7

(* Memory is misused for a path only because of a variable in it, or of    *)
(* bytes nothing wrote; outside the list of groups only when it is short.  *)
THEOREM FaultsOfVariables == Spec => []PathFaultOnlyByVariable
<1>1. ASSUME TokenAssumption, ProxyAssumption, ArgumentInv, pathfault # "none"
      PROVE  /\ pathfault = "wild" => Len(request) < Captures
             /\ argument.size <= Len(argument.chars) + 1 =>
                  /\ \E i \in 1 .. Len(argument.chars) : argument.chars[i] = "$"
                  /\ WellFormed(argument.chars) => pathfault # "size"
  <2> DEFINE path == Made(parts, request)
             chars == argument.chars
             N == Len(chars)
  <2>1. phase = "served" /\ PutTogether /\ TakenApart /\ TypeInv
    BY <1>1 DEF ArgumentInv
  <2>2. /\ request \in Requests /\ parts \in Seq(Part) /\ path \in Path
        /\ pathfault \in path.faults \cup {IF path.dead THEN "size" ELSE "none"}
    <3>1. request \in Requests /\ parts \in Seq(Part)
      BY <2>1 DEF PutTogether, TypeInv
    <3> QED
      BY <1>1, <2>1, <3>1, MadeType DEF PutTogether
  <2>3. argument \in Word /\ (argument.size = 0 => chars = <<>>)
    BY <1>1 DEF ArgumentInv, WordsSized, Sized
  <2>4. PICK bytes \in BytesOf(argument) : parts = VarParse(bytes).parts
    BY <2>1 DEF TakenApart
  <2>5. "size" \notin path.faults
    BY <2>2 DEF Path, Faults
  <2> HIDE DEF path
  <2>6. ASSUME pathfault = "wild" PROVE Len(request) < Captures
    <3>1. "wild" \in path.faults
      BY <2>2, <2>6
    <3> QED
      BY <1>1, <2>2, <3>1, WildOnlyIfUnused DEF path
  <2>7. ASSUME argument.size <= N + 1, \A i \in 1 .. N : chars[i] # "$" PROVE FALSE
    <3>1. /\ bytes \in Seq(Bytes) /\ Begins(bytes, chars)
          /\ Len(bytes) > N => bytes[N + 1] = Nul
          /\ Len(bytes) <= N + 1
      BY <1>1, <2>3, <2>7, BytesAre
    <3>2. N \in Nat /\ \A i \in 1 .. N : bytes[i] = chars[i]
      BY <2>3, <3>1 DEF Begins, Word
    <3>3. Nul # "$"
      BY DEF Nul
    <3>4. ASSUME NEW i \in 1 .. Len(bytes) PROVE bytes[i] # "$"
      <4>1. i \in 1 .. N \/ (i = N + 1 /\ Len(bytes) > N)
        BY <3>1, <3>2
      <4> QED
        BY <2>7, <3>1, <3>2, <3>3, <4>1
    <3>5. path.faults = {} /\ ~path.dead
      BY <1>1, <2>2, <2>4, <3>1, <3>4, NoVariableNoFault DEF path
    <3> QED
      BY <1>1, <2>2, <3>5
  <2>8. ASSUME argument.size <= N + 1, WellFormed(chars) PROVE pathfault # "size"
    <3>1. ~path.dead
      BY <1>1, <2>2, <2>3, <2>4, <2>8, WellPutTogether DEF path
    <3> QED
      BY <2>2, <2>5, <3>1
  <2> QED
    BY <2>6, <2>7, <2>8
<1>2. ArgumentInv => PathFaultOnlyByVariable
  BY <1>1, TokenAssumption, ProxyAssumption DEF PathFaultOnlyByVariable
<1> QED
  BY <1>2, ArgumentKept, PTL

-----------------------------------------------------------------------------
(* A word in double quotes is read as what its characters stand for. *)

(* Inside the quotes, behind a backslash there, and behind the quotes.     *)
Quoting == {l \in Lex : l.mode = "dquote" /\ l.quoted = FALSE}
Escaping == {l \in Lex : l.mode = "dquote" /\ l.quoted = TRUE}
QuoteClosed == [mode |-> "closed", quoted |-> FALSE, variable |-> FALSE]

LEMMA QuotesLeft ==
  /\ Fresh \in Lex /\ Fresh.mode = "gap" /\ ~Fresh.quoted /\ ~Fresh.variable
  /\ QuoteClosed \in Lex /\ QuoteClosed.mode = "closed" /\ ~QuoteClosed.quoted
  /\ [QuoteClosed EXCEPT !.mode = "gap"] = Fresh
<1>1. Fresh \in Lex
  BY DEF Fresh, Lex, Modes
<1>2. Fresh.mode = "gap" /\ ~Fresh.quoted /\ ~Fresh.variable
  BY DEF Fresh
<1>3. QuoteClosed \in Lex
  BY DEF QuoteClosed, Lex, Modes
<1>4. QuoteClosed.mode = "closed" /\ ~QuoteClosed.quoted
  BY DEF QuoteClosed
<1>5. [QuoteClosed EXCEPT !.mode = "gap"] = Fresh
  <2> DEFINE l == [QuoteClosed EXCEPT !.mode = "gap"]
  <2>1. l \in Lex
    BY <1>3 DEF Lex, Modes
  <2>2. l.mode = "gap" /\ l.quoted = FALSE /\ l.variable = FALSE
    BY DEF QuoteClosed
  <2> HIDE DEF l
  <2>3. l = Fresh
    BY <2>1, <2>2 DEF Lex, Fresh
  <2> QED
    BY <2>3 DEF l
<1> QED
  BY <1>1, <1>2, <1>3, <1>4, <1>5

LEMMA ScannedByTests ==
  ASSUME NEW l \in Lex, NEW c
  PROVE  /\ l.mode # "comment" /\ l.quoted => Scanned(l, c) = [l EXCEPT !.quoted = FALSE]
         /\ l.mode = "closed" /\ ~l.quoted /\ c \in Blank =>
              Scanned(l, c) = [l EXCEPT !.mode = "gap"]
         /\ l.mode = "gap" /\ ~l.quoted => Scanned(l, c) = InGap(l, c)
         /\ l.mode = "dquote" /\ ~l.quoted => Scanned(l, c) = OutsideGap(l, c)
<1> DEFINE m == Scanned(l, c)
           P == l.mode = "comment"
           Q == l.mode # "comment" /\ l.quoted
           R == l.mode = "closed" /\ ~l.quoted /\ c \in Blank
           S == l.mode = "gap" /\ ~l.quoted
           gap == [l EXCEPT !.mode = "gap"]
           plain == [l EXCEPT !.quoted = FALSE]
           comment == IF c = "lf" THEN gap ELSE l
           d == InGap(l, c)
           o == OutsideGap(l, c)
<1>1. m = CASE P -> comment [] Q -> plain [] R -> gap [] S -> d [] OTHER -> o
  BY Zenon DEF Scanned
<1>2. /\ P => ~Q /\ ~R /\ ~S
      /\ Q => ~R /\ ~S
      /\ R => ~S
      /\ l.mode = "dquote" /\ ~l.quoted => ~P /\ ~Q /\ ~R /\ ~S
  OBVIOUS
<1> HIDE DEF m, P, Q, R, S, gap, plain, comment, d, o
<1>3. /\ Q => m = plain
      /\ R => m = gap
      /\ S => m = d
      /\ ~P /\ ~Q /\ ~R /\ ~S => m = o
  BY <1>1, <1>2, Zenon
<1> QED
  BY <1>2, <1>3, Zenon DEF m, Q, R, S, gap, plain, d, o

LEMMA EndsWordByTests ==
  ASSUME NEW l \in Lex, NEW c
  PROVE  /\ l.mode = "dquote" => (EndsWord(l, c) <=> ~l.quoted /\ c = DQuote)
         /\ l.mode = "gap" \/ l.mode = "closed" => ~EndsWord(l, c)
<1> DEFINE D == l.mode = "dquote"
           S == l.mode = "squote"
           W == l.mode = "word"
           d == c = DQuote
           s == c = SQuote
           w == c \in Blank \cup {";"} \/ (c = "{" /\ ~l.variable)
           e == CASE D -> d [] S -> s [] W -> w
<1>1. EndsWord(l, c) <=> InWord(l) /\ ~l.quoted /\ e
  BY Zenon DEF EndsWord
<1>2. D => ~S /\ ~W
  OBVIOUS
<1>3. D => (e <=> d)
  <2> HIDE DEF D, S, W, d, s, w
  <2>1. D => e = d
    BY <1>2, Zenon
  <2> QED
    BY <2>1
<1> HIDE DEF e
<1> QED
  BY <1>1, <1>3 DEF InWord

LEMMA EndedByTests ==
  ASSUME NEW l \in Lex, NEW c
  PROVE  /\ l.mode = "dquote" => Ended(l, c) = "none"
         /\ l = Fresh \/ l = QuoteClosed =>
              /\ c = ";" => Ended(l, c) = "param"
              /\ c = "{" => Ended(l, c) = "open"
              /\ c = "}" /\ l = Fresh => Ended(l, c) = "close"
              /\ c \notin {";", "{", "}"} => Ended(l, c) = "none"
<1> DEFINE P == l.quoted \/ l.mode \in {"comment", "dquote", "squote"}
           Q == ~l.quoted /\ l.mode \in {"gap", "closed", "word"}
           A == c = ";"
           B == c = "{" /\ (l.mode # "word" \/ ~l.variable)
           C == c = "}" /\ l.mode = "gap"
           e == CASE A -> "param" [] B -> "open" [] C -> "close" [] OTHER -> "none"
           x == Ended(l, c)
           N == l = Fresh \/ l = QuoteClosed
<1>0. /\ N => ~l.quoted /\ (l.mode = "gap" \/ l.mode = "closed")
      /\ l = Fresh => l.mode = "gap"
  BY QuotesLeft
<1>1. x = CASE P -> "none" [] Q -> e
  BY Zenon DEF Ended
<1>2. /\ P => ~Q
      /\ l.mode = "dquote" => P
      /\ N => Q
  BY <1>0
<1>3. /\ A => ~B /\ ~C
      /\ B => ~C
  OBVIOUS
<1>4. N => /\ c = ";" => A
           /\ c = "{" => B
           /\ c = "}" /\ l = Fresh => C
           /\ c \notin {";", "{", "}"} => ~A /\ ~B /\ ~C
  BY <1>0
<1> HIDE DEF P, Q, x
<1>5. /\ P => x = "none"
      /\ Q => x = e
  <2> HIDE DEF e
  <2> QED
    BY <1>1, <1>2, Zenon
<1> HIDE DEF A, B, C
<1>6. /\ A => e = "param"
      /\ B => e = "open"
      /\ C => e = "close"
      /\ ~A /\ ~B /\ ~C => e = "none"
  BY <1>3, Zenon
<1> HIDE DEF e, N
<1>7. l.mode = "dquote" => x = "none"
  BY <1>2, <1>5, Zenon
<1>8. N => /\ c = ";" => x = "param"
           /\ c = "{" => x = "open"
           /\ c = "}" /\ l = Fresh => x = "close"
           /\ c \notin {";", "{", "}"} => x = "none"
  BY <1>2, <1>4, <1>5, <1>6, Zenon
<1> QED
  BY <1>7, <1>8, Zenon DEF x, N

(* A character read that ends no statement.                                *)
LEMMA ReadOnInside ==
  ASSUME NEW s \in Read, NEW t, NEW n \in Nat, NEW c, t[n] = c, Ended(s.lex, c) = "none"
  PROVE  LET w == ReadOn(s, t, n) IN
         /\ w.lex = Scanned(s.lex, c) /\ w.handed = s.handed
         /\ w.from = IF StartsWord(s.lex, c) THEN n + 1 - Before(c) ELSE s.from
         /\ w.words = IF EndsWord(s.lex, c)
                      THEN Append(s.words, Copied(SubSeq(t, s.from, n))) ELSE s.words
BY DEF ReadOn

(* As far as a word has been read: all but the flags.                      *)
Stays(w, s) == w.from = s.from /\ w.words = s.words /\ w.handed = s.handed

LEMMA QuotedRead ==
  ASSUME NEW s \in Read, s.lex \in Quoting, NEW t, NEW n \in Nat, NEW c, t[n] = c
  PROVE  LET w == ReadOn(s, t, n) IN
         /\ c # DQuote /\ c # Escape => w.lex \in Quoting /\ Stays(w, s)
         /\ c = Escape => w.lex \in Escaping /\ Stays(w, s)
         /\ c = DQuote =>
              /\ w.lex = QuoteClosed /\ w.handed = s.handed
              /\ w.words = Append(s.words, Copied(SubSeq(t, s.from, n)))
<1> DEFINE w == ReadOn(s, t, n)
           l == s.lex
           o == OutsideGap(l, c)
<1>1. l \in Lex /\ l.mode = "dquote" /\ ~l.quoted /\ l.quoted = FALSE /\ l.variable \in BOOLEAN
  BY DEF Quoting, Lex
<1>2. ~StartsWord(l, c)
  BY <1>1 DEF StartsWord
<1>3. EndsWord(l, c) <=> c = DQuote
  BY <1>1, EndsWordByTests
<1>4. Ended(l, c) = "none" /\ Scanned(l, c) = o
  BY <1>1, EndedByTests, ScannedByTests
<1>5. /\ w.lex = o /\ w.handed = s.handed /\ w.from = s.from
      /\ w.words = IF c = DQuote
                   THEN Append(s.words, Copied(SubSeq(t, s.from, n))) ELSE s.words
  BY <1>2, <1>3, <1>4, ReadOnInside
<1>6. o \in Lex
  BY <1>1, OutsideModes
<1>7. c # DQuote /\ c # Escape => o \in Quoting
  BY <1>1, <1>3, <1>6 DEF OutsideGap, Quoting
<1>8. c = Escape => o \in Escaping
  BY <1>1, <1>3, <1>6 DEF OutsideGap, Escaping, Escape, DQuote
<1>9. c = DQuote => o = QuoteClosed
  BY <1>1, <1>3 DEF OutsideGap, QuoteClosed, Escape, DQuote
<1>10. c = Escape => c # DQuote
  BY DEF Escape, DQuote
<1> HIDE DEF w, o
<1> QED
  BY <1>5, <1>7, <1>8, <1>9, <1>10 DEF Stays, w

LEMMA EscapedRead ==
  ASSUME NEW s \in Read, s.lex \in Escaping, NEW t, NEW n \in Nat, NEW c, t[n] = c
  PROVE  ReadOn(s, t, n).lex \in Quoting /\ Stays(ReadOn(s, t, n), s)
<1> DEFINE w == ReadOn(s, t, n)
           l == s.lex
           o == [l EXCEPT !.quoted = FALSE]
<1>1. l \in Lex /\ l.mode = "dquote" /\ l.quoted
  BY DEF Escaping, Lex
<1>2. ~StartsWord(l, c) /\ ~EndsWord(l, c)
  BY <1>1, EndsWordByTests DEF StartsWord
<1>3. Ended(l, c) = "none" /\ Scanned(l, c) = o
  BY <1>1, EndedByTests, ScannedByTests
<1>4. w.lex = o /\ Stays(w, s)
  BY <1>2, <1>3, ReadOnInside DEF Stays
<1>5. o \in Quoting
  BY <1>1 DEF Quoting, Lex
<1> QED
  BY <1>4, <1>5

LEMMA ClosedRead ==
  ASSUME NEW s \in Read, s.lex = QuoteClosed, NEW t, NEW n \in Nat, NEW c \in Blank, t[n] = c
  PROVE  ReadOn(s, t, n).lex = Fresh /\ Stays(ReadOn(s, t, n), s)
<1> DEFINE w == ReadOn(s, t, n)
           l == s.lex
           o == [l EXCEPT !.mode = "gap"]
<1>1. l \in Lex /\ l.mode = "closed" /\ ~l.quoted
  BY QuotesLeft
<1>2. ~StartsWord(l, c) /\ ~EndsWord(l, c)
  BY <1>1, EndsWordByTests DEF StartsWord
<1>3. Ended(l, c) = "none" /\ Scanned(l, c) = o
  <2>1. c # ";" /\ c # "{" /\ c # "}"
    BY DEF Blank
  <2>2. ~(l.mode = "comment") /\ l.mode # "gap"
    BY <1>1
  <2>3. Ended(l, c) = "none"
    BY <1>1, <2>1, EndedByTests
  <2>4. Scanned(l, c) = o
    BY <1>1, <2>2, ScannedByTests
  <2> QED
    BY <2>3, <2>4
<1> HIDE DEF o
<1>4. w.lex = o /\ Stays(w, s)
  BY <1>2, <1>3, ReadOnInside DEF Stays
<1>5. o = Fresh
  BY QuotesLeft DEF o
<1> QED
  BY <1>4, <1>5

LEMMA QuoteOpened ==
  ASSUME NEW s \in Read, s.lex = Fresh, NEW t, NEW n \in Nat, t[n] = DQuote
  PROVE  LET w == ReadOn(s, t, n) IN
         w.lex \in Quoting /\ w.from = n + 1 /\ w.words = s.words /\ w.handed = s.handed
<1> DEFINE w == ReadOn(s, t, n)
           l == s.lex
           o == InGap(l, DQuote)
<1>1. l \in Lex /\ l.mode = "gap" /\ ~l.quoted /\ ~l.variable
  BY QuotesLeft
<1>2. StartsWord(l, DQuote) /\ ~EndsWord(l, DQuote) /\ Before(DQuote) = 0
  BY <1>1, EndsWordByTests DEF StartsWord, Before, DQuote, Blank
<1>3. Ended(l, DQuote) = "none" /\ Scanned(l, DQuote) = o
  BY <1>1, EndedByTests, ScannedByTests, ZenonT(30) DEF DQuote
<1>4. w.lex = o /\ w.from = n + 1 /\ w.words = s.words /\ w.handed = s.handed
  BY <1>2, <1>3, ReadOnInside
<1>5. o \in Quoting
  <2>1. o \in Lex
    BY <1>1, GapModes
  <2>2. o.mode = "dquote"
    <3> DEFINE P == DQuote \in Blank \cup {";", "{", "}"}
               Q == DQuote = "#"
               R == DQuote = DQuote
               S == DQuote = SQuote
    <3>1. o.mode = CASE P -> "gap" [] Q -> "comment" [] R -> "dquote" [] S -> "squote"
                     [] OTHER -> "word"
      BY Zenon DEF InGap
    <3>2. ~P /\ ~Q /\ R /\ ~S
      BY DEF Blank, DQuote, SQuote
    <3> HIDE DEF P, Q, R, S
    <3> QED
      BY <3>1, <3>2, Zenon
  <2>3. o.quoted = FALSE
    BY DEF InGap, DQuote, Escape
  <2> QED
    BY <2>1, <2>2, <2>3 DEF Quoting
<1> HIDE DEF o
<1> QED
  BY <1>4, <1>5

LEMMA EndRead ==
  ASSUME NEW s \in Read, s.lex = Fresh, NEW t, NEW n \in Nat, NEW kind \in Kinds,
         t[n] = Ending[kind]
  PROVE  LET w == ReadOn(s, t, n) IN
         /\ w.lex = Fresh /\ w.words = <<>>
         /\ w.handed = Append(s.handed,
              [kind |-> kind, words |-> IF kind = "close" THEN <<>> ELSE s.words])
<1> DEFINE c == t[n]
<1>1. s.lex \in Lex /\ s.lex.mode = "gap"
  BY QuotesLeft
<1>2. Ended(s.lex, c) = kind
  <2>1. \/ kind = "param" /\ c = ";"
        \/ kind = "open" /\ c = "{"
        \/ kind = "close" /\ c = "}"
    <3>1. Ending["param"] = ";" /\ Ending["open"] = "{" /\ Ending["close"] = "}"
      BY DEF Ending
    <3>2. kind = "param" \/ kind = "open" \/ kind = "close"
      BY DEF Kinds
    <3>3. c = Ending[kind]
      OBVIOUS
    <3> HIDE DEF c
    <3> QED
      BY <3>1, <3>2, <3>3, Zenon
  <2> HIDE DEF c
  <2> QED
    BY <1>1, <2>1, EndedByTests
<1>3. kind # "none" /\ ~EndsWord(s.lex, c)
  BY <1>1, EndsWordByTests DEF Kinds
<1> HIDE DEF c
<1> QED
  BY <1>2, <1>3 DEF ReadOn, c

(* A text that is put together of others, one behind the other.            *)
Joined(f, N, x, g) == f = [n \in 0 .. N |-> IF n = 0 THEN x ELSE f[n - 1] \o g[n]]

LEMMA JoinedExists ==
  ASSUME NEW S, NEW N \in Nat, NEW x \in Seq(S), NEW g \in [1 .. N -> Seq(S)]
  PROVE  \E f : Joined(f, N, x, g)
<1> DEFINE D == Seq(S)
           step == [p \in (1 .. N) \X D |-> p[2] \o g[p[1]]]
<1>1. \A n \in 1 .. N : \A z \in D : z \o g[n] \in D
  BY ConcatIs
<1>2. step \in [(1 .. N) \X D -> D]
  BY <1>1
<1>3. \A n \in 1 .. N : \A z \in D : step[<<n, z>>] = z \o g[n]
  OBVIOUS
<1> HIDE DEF step, D
<1>4. PICK f : MadeForwards(f, D, x, N, step)
  BY <1>2, Forwards DEF D
<1>5. /\ f \in [0 .. N -> D] /\ f[0] = x
      /\ \A n \in 1 .. N : f[n] = f[n - 1] \o g[n]
  <2>1. \A n \in 1 .. N : n - 1 \in 0 .. N
    OBVIOUS
  <2> QED
    BY <1>3, <1>4, <2>1 DEF MadeForwards
<1>6. \A n \in 0 .. N : f[n] = IF n = 0 THEN x ELSE f[n - 1] \o g[n]
  <2> DEFINE h(n) == f[n - 1] \o g[n]
  <2>1. f[0] = x /\ \A n \in 1 .. N : f[n] = h(n)
    BY <1>5, Zenon
  <2> HIDE DEF h
  <2>2. \A n \in 0 .. N : f[n] = IF n = 0 THEN x ELSE h(n)
    BY <2>1
  <2> QED
    BY <2>2, Zenon DEF h
<1>7. f = [n \in 0 .. N |-> f[n]]
  BY <1>5
<1>8. [n \in 0 .. N |-> f[n]] = [n \in 0 .. N |-> IF n = 0 THEN x ELSE f[n - 1] \o g[n]]
  BY <1>6, Zenon
<1>9. f = [n \in 0 .. N |-> IF n = 0 THEN x ELSE f[n - 1] \o g[n]]
  BY <1>7, <1>8, Zenon
<1> QED
  BY <1>9, Zenon DEF Joined

LEMMA JoinedIs ==
  ASSUME NEW S, NEW N \in Nat, NEW x \in Seq(S), NEW g \in [1 .. N -> Seq(S)],
         NEW f, Joined(f, N, x, g)
  PROVE  /\ f[0] = x
         /\ \A n \in 1 .. N : f[n] = f[n - 1] \o g[n]
         /\ \A n \in 0 .. N : f[n] \in Seq(S)
<1>1. f[0] = x /\ \A n \in 1 .. N : f[n] = f[n - 1] \o g[n]
  <2>1. \A n \in 0 .. N : f[n] = IF n = 0 THEN x ELSE f[n - 1] \o g[n]
    <3> DEFINE h(n) == IF n = 0 THEN x ELSE f[n - 1] \o g[n]
    <3>1. f = [n \in 0 .. N |-> h(n)]
      BY Zenon DEF Joined
    <3> HIDE DEF h
    <3>2. \A n \in 0 .. N : f[n] = h(n)
      BY <3>1, Zenon
    <3> QED
      BY <3>2, Zenon DEF h
  <2> DEFINE h(n) == f[n - 1] \o g[n]
  <2>2. \A n \in 0 .. N : f[n] = IF n = 0 THEN x ELSE h(n)
    BY <2>1, Zenon
  <2> HIDE DEF h
  <2>3. f[0] = x /\ \A n \in 1 .. N : f[n] = h(n)
    BY <2>2
  <2> QED
    BY <2>3, Zenon DEF h
<1> DEFINE T == {n \in 0 .. N : f[n] \in Seq(S)}
<1>2. 0 \in T
  BY <1>1
<1>3. ASSUME NEW n \in 0 .. N - 1, n \in T PROVE n + 1 \in T
  <2> DEFINE k == n + 1
  <2>1. k \in 1 .. N /\ k \in 0 .. N /\ k - 1 = n
    OBVIOUS
  <2> HIDE DEF k
  <2>2. g[k] \in Seq(S) /\ f[n] \in Seq(S) /\ f[k] = f[n] \o g[k]
    BY <1>1, <1>3, <2>1
  <2>3. f[k] \in Seq(S)
    BY <2>2, ConcatIs
  <2> QED
    BY <2>1, <2>3 DEF k
<1> HIDE DEF T
<1>4. \A n \in 0 .. N : n \in T
  BY <1>2, <1>3, InductionTo
<1> QED
  BY <1>1, <1>4 DEF T

LEMMA ShownIs ==
  ASSUME TokenAssumption, NEW c \in Chars
  PROVE  /\ Shown(c) \in Seq(Chars)
         /\ \/ /\ c # DQuote /\ c # Escape
               /\ Shown(c) = <<c>>
            \/ \E x \in Escapable \cap Chars : Shown(c) = <<Escape, x>> /\ Resolved(x) = c
<1>1. DQuote \in Chars /\ Escape \in Chars /\ "t" \in Chars
  BY DEF TokenAssumption, Special
<1>2. CASE c \in {DQuote, Escape}
  <2>1. Shown(c) = <<Escape, c>> /\ Resolved(c) = c /\ c \in Escapable
    BY <1>2 DEF Shown, Resolved, Escapable, DQuote, Escape
  <2> QED
    BY <1>1, <2>1
<1>3. CASE c = "tab"
  <2>1. Shown(c) = <<Escape, "t">> /\ Resolved("t") = c /\ "t" \in Escapable
    BY <1>3 DEF Shown, Resolved, Escapable, DQuote, Escape
  <2> QED
    BY <1>1, <2>1
<1>4. CASE c \notin {DQuote, Escape, "tab"}
  <2>1. Shown(c) = <<c>> /\ c # DQuote /\ c # Escape
    BY <1>4 DEF Shown
  <2> QED
    BY <2>1
<1> QED
  BY <1>2, <1>3, <1>4

SpellAfter(chars) ==
  CHOOSE spell : spell = [n \in 0 .. Len(chars) |->
                            IF n = 0 THEN <<DQuote>> ELSE spell[n - 1] \o Shown(chars[n])]

LEMMA SpellRecursion ==
  ASSUME TokenAssumption, NEW chars \in Seq(Chars)
  PROVE  /\ Spelt(chars) = SpellAfter(chars)[Len(chars)] \o <<DQuote, " ">>
         /\ SpellAfter(chars)[0] = <<DQuote>>
         /\ \A n \in 1 .. Len(chars) :
              SpellAfter(chars)[n] = SpellAfter(chars)[n - 1] \o Shown(chars[n])
         /\ \A n \in 0 .. Len(chars) : SpellAfter(chars)[n] \in Seq(Chars)
<1> DEFINE N == Len(chars)
           g == [n \in 1 .. N |-> Shown(chars[n])]
           x == <<DQuote>>
           spell == SpellAfter(chars)
           Is(f) == Joined(f, N, x, g)
           Spells(f) == f = [n \in 0 .. N |-> IF n = 0 THEN x ELSE f[n - 1] \o Shown(chars[n])]
<1>1. Spelt(chars) = spell[N] \o <<DQuote, " ">>
  BY Zenon DEF Spelt, SpellAfter
<1>2. N \in Nat /\ x \in Seq(Chars)
  <2>1. DQuote \in Chars
    BY DEF TokenAssumption, Special
  <2> QED
    BY <2>1
<1>3. \A n \in 1 .. N : g[n] = Shown(chars[n]) /\ g[n] \in Seq(Chars)
  BY ShownIs
<1>4. g \in [1 .. N -> Seq(Chars)]
  BY <1>3
<1>5. ASSUME NEW f PROVE Is(f) <=> Spells(f)
  <2>1. \A n \in 0 .. N : n # 0 => n \in 1 .. N
    OBVIOUS
  <2>2. \A n \in 0 .. N : (IF n = 0 THEN x ELSE f[n - 1] \o g[n])
                          = (IF n = 0 THEN x ELSE f[n - 1] \o Shown(chars[n]))
    BY <1>3, <2>1, Zenon
  <2>3. [n \in 0 .. N |-> IF n = 0 THEN x ELSE f[n - 1] \o g[n]]
        = [n \in 0 .. N |-> IF n = 0 THEN x ELSE f[n - 1] \o Shown(chars[n])]
    BY <2>2, Zenon
  <2> QED
    BY <2>3, Zenon DEF Joined
<1>6. \E f : Is(f)
  <2> HIDE DEF N, g, x
  <2> QED
    BY <1>2, <1>4, JoinedExists, Zenon
<1>7. Spells(spell)
  <2>1. \E f : Spells(f)
    BY <1>5, <1>6, Zenon
  <2>2. spell = CHOOSE f : Spells(f)
    BY Zenon DEF SpellAfter
  <2> HIDE DEF Spells, spell
  <2> QED
    BY <2>1, <2>2, Zenon
<1>8. Is(spell)
  BY <1>5, <1>7, Zenon
<1>9. /\ spell[0] = x
      /\ \A n \in 1 .. N : spell[n] = spell[n - 1] \o g[n]
      /\ \A n \in 0 .. N : spell[n] \in Seq(Chars)
  <2> HIDE DEF N, g, x, spell
  <2> QED
    BY <1>2, <1>4, <1>8, JoinedIs, Zenon DEF Is
<1> QED
  BY <1>1, <1>3, <1>9, Zenon

(* A character as it is shown is read without leaving the quotes.          *)
LEMMA ShownRead ==
  ASSUME TokenAssumption, NEW u \in Seq(Chars), NEW c \in Chars, Behind(u).lex \in Quoting
  PROVE  /\ u \o Shown(c) \in Seq(Chars)
         /\ Behind(u \o Shown(c)).lex \in Quoting
         /\ Stays(Behind(u \o Shown(c)), Behind(u))
<1> DEFINE s == Behind(u)
<1>1. s \in Read /\ Len(u) + 1 \in Nat
  BY OneMore
<1>2. u \o Shown(c) \in Seq(Chars)
  BY ShownIs, ConcatIs
<1>3. CASE c # DQuote /\ c # Escape /\ Shown(c) = <<c>>
  <2> DEFINE v == Append(u, c)
  <2>1. u \o Shown(c) = v
    BY <1>3
  <2>2. Behind(v) = ReadOn(s, v, Len(u) + 1) /\ v[Len(u) + 1] = c
    BY OneMore
  <2> HIDE DEF s, v
  <2>3. Behind(v).lex \in Quoting /\ Stays(Behind(v), s)
    BY <1>1, <1>3, <2>2, QuotedRead DEF s
  <2> QED
    BY <1>2, <2>1, <2>3 DEF s
<1>4. ASSUME NEW x \in Escapable \cap Chars, Shown(c) = <<Escape, x>>
      PROVE  Behind(u \o Shown(c)).lex \in Quoting /\ Stays(Behind(u \o Shown(c)), Behind(u))
  <2> DEFINE v == Append(u, Escape)
             w == Append(v, x)
  <2>1. u \o Shown(c) = w
    BY <1>4
  <2>2. Escape \in Chars
    BY DEF TokenAssumption, Special
  <2>3. /\ Behind(v) = ReadOn(s, v, Len(u) + 1) /\ v[Len(u) + 1] = Escape
        /\ v \in Seq(Chars)
    BY <2>2, OneMore
  <2> HIDE DEF v
  <2>4. /\ Behind(v) \in Read /\ Len(v) + 1 \in Nat
        /\ Behind(w) = ReadOn(Behind(v), w, Len(v) + 1) /\ w[Len(v) + 1] = x
    BY <2>3, OneMore
  <2> HIDE DEF s, w
  <2>5. Behind(v).lex \in Escaping /\ Stays(Behind(v), s)
    BY <1>1, <2>3, QuotedRead DEF s
  <2>6. Behind(w).lex \in Quoting /\ Stays(Behind(w), Behind(v))
    BY <2>4, <2>5, EscapedRead
  <2>7. Stays(Behind(w), s)
    BY <2>5, <2>6 DEF Stays
  <2> QED
    BY <2>1, <2>6, <2>7 DEF s
<1> QED
  BY <1>2, <1>3, <1>4, ShownIs

(* So is a word, up to the quote that ends it.                             *)
LEMMA SpellRead ==
  ASSUME TokenAssumption, NEW t \in Seq(Chars), Behind(t).lex = Fresh,
         NEW chars \in Seq(Chars)
  PROVE  LET u == t \o SpellAfter(chars)[Len(chars)] IN
         /\ u \in Seq(Chars) /\ Behind(u).lex \in Quoting
         /\ Behind(u).from = Len(t) + 2 /\ Behind(u).words = Behind(t).words
         /\ Behind(u).handed = Behind(t).handed
<1> DEFINE N == Len(chars)
           Q(n) == SpellAfter(chars)[n]
           U(n) == t \o Q(n)
           Fine(u) == /\ u \in Seq(Chars) /\ Behind(u).lex \in Quoting
                      /\ Behind(u).from = Len(t) + 2 /\ Behind(u).words = Behind(t).words
                      /\ Behind(u).handed = Behind(t).handed
           S == {n \in 0 .. N : Fine(U(n))}
<1>1. N \in Nat
  OBVIOUS
<1>2. 0 \in S
  <2> DEFINE v == Append(t, DQuote)
  <2>1. U(0) = v
    <3>1. Q(0) = <<DQuote>>
      BY SpellRecursion
    <3>2. t \o <<DQuote>> = v
      OBVIOUS
    <3> QED
      BY <3>1, <3>2, Zenon
  <2>2. DQuote \in Chars
    BY DEF TokenAssumption, Special
  <2>3. /\ v \in Seq(Chars) /\ Behind(t) \in Read /\ v[Len(t) + 1] = DQuote
        /\ Behind(v) = ReadOn(Behind(t), v, Len(t) + 1) /\ Len(t) + 1 \in Nat
    BY <2>2, OneMore
  <2> HIDE DEF v
  <2>4. /\ Behind(v).lex \in Quoting /\ Behind(v).from = (Len(t) + 1) + 1
        /\ Behind(v).words = Behind(t).words /\ Behind(v).handed = Behind(t).handed
    BY <2>3, QuoteOpened
  <2>5. (Len(t) + 1) + 1 = Len(t) + 2
    OBVIOUS
  <2>6. Fine(v)
    BY <2>3, <2>4, <2>5, Zenon
  <2>7. 0 \in 0 .. N
    BY <1>1
  <2> QED
    BY <2>1, <2>6, <2>7, Zenon
<1>3. ASSUME NEW n \in 0 .. N - 1, n \in S PROVE n + 1 \in S
  <2> DEFINE k == n + 1
             u == U(n)
             c == chars[k]
  <2>1. k \in 1 .. N /\ k \in 0 .. N /\ n \in 0 .. N /\ k - 1 = n
    BY <1>1
  <2>2. c \in Chars
    BY <2>1
  <2> HIDE DEF k
  <2>3. Fine(u)
    BY <1>3, Zenon
  <2>4. U(k) = u \o Shown(c)
    <3>1. Q(k) = Q(n) \o Shown(c) /\ Q(n) \in Seq(Chars)
      BY <2>1, SpellRecursion
    <3>2. Shown(c) \in Seq(Chars)
      BY <2>2, ShownIs
    <3> DEFINE q == Q(n)
               x == Shown(c)
    <3>3. Q(k) = q \o x /\ q \in Seq(Chars) /\ x \in Seq(Chars)
      BY <3>1, <3>2, Zenon
    <3>4. IsJoin(Q(k), q, x) /\ IsJoin(u, t, q) /\ IsJoin(U(k), t, Q(k))
      BY <3>3, Zenon DEF IsJoin
    <3> HIDE DEF Q, c, q, x, u, U
    <3>5. IsJoin(U(k), u, x)
      BY <3>3, <3>4, JoinBoth
    <3> QED
      BY <3>5, Zenon DEF IsJoin, x
  <2> HIDE DEF u, c
  <2>5. u \in Seq(Chars) /\ Behind(u).lex \in Quoting
    BY <2>3
  <2>6. /\ u \o Shown(c) \in Seq(Chars)
        /\ Behind(u \o Shown(c)).lex \in Quoting
        /\ Stays(Behind(u \o Shown(c)), Behind(u))
    BY <2>2, <2>5, ShownRead
  <2>7. Fine(u \o Shown(c))
    BY <2>3, <2>6, Zenon DEF Stays
  <2> QED
    BY <2>1, <2>4, <2>7, Zenon DEF k
<1> HIDE DEF S
<1>4. \A n \in 0 .. N : n \in S
  BY <1>1, <1>2, <1>3, InductionTo
<1>5. N \in 0 .. N
  BY <1>1
<1>6. Fine(U(N))
  BY <1>4, <1>5, Zenon DEF S
<1> QED
  BY <1>6, Zenon

(* The copying of what a word has been spelt as gives back the word.       *)
LEMMA SpellStarts ==
  ASSUME TokenAssumption, NEW chars \in Seq(Chars), NEW n \in 0 .. Len(chars)
  PROVE  Starts(SpellAfter(chars)[Len(chars)], SpellAfter(chars)[n])
<1> DEFINE N == Len(chars)
           Q(m) == SpellAfter(chars)[m]
           S == {m \in 0 .. N : n <= m => Starts(Q(m), Q(n))}
<1>1. N \in Nat /\ n \in Nat /\ \A m \in 0 .. N : Q(m) \in Seq(Chars)
  <2>1. \A m \in 0 .. N : Q(m) \in Seq(Chars)
    BY SpellRecursion, Zenon
  <2>2. N \in Nat /\ n \in Nat
    OBVIOUS
  <2> QED
    BY <2>1, <2>2
<1>2. ASSUME NEW z \in Seq(Chars) PROVE Starts(z, z)
  BY DEF Starts
<1>3. 0 \in S
  <2>1. n <= 0 => n = 0
    BY <1>1
  <2>2. 0 \in 0 .. N
    BY <1>1
  <2>3. Starts(Q(0), Q(0))
    BY <1>1, <1>2, <2>2
  <2> QED
    BY <2>1, <2>2, <2>3
<1>4. ASSUME NEW m \in 0 .. N - 1, m \in S PROVE m + 1 \in S
  <2> DEFINE k == m + 1
  <2>1. k \in 1 .. N /\ k \in 0 .. N /\ m \in 0 .. N /\ k - 1 = m
    BY <1>1
  <2>2. n <= k => n <= m \/ n = k
    BY <1>1
  <2> HIDE DEF k
  <2>3. chars[k] \in Chars
    BY <2>1
  <2> DEFINE s == Shown(chars[k])
  <2>4. Q(k) = Q(m) \o s /\ Q(m) \in Seq(Chars) /\ Q(k) \in Seq(Chars) /\ Q(n) \in Seq(Chars)
    BY <1>1, <2>1, SpellRecursion
  <2>5. s \in Seq(Chars)
    BY <2>3, ShownIs
  <2>6. Starts(Q(k), Q(k))
    BY <1>2, <2>4
  <2>7. n <= m => Starts(Q(k), Q(n))
    <3> SUFFICES ASSUME n <= m PROVE Starts(Q(k), Q(n))
      OBVIOUS
    <3>1. Starts(Q(m), Q(n))
      BY <1>4
    <3> DEFINE a == Q(n)
               b == Q(m)
    <3>2. a \in Seq(Chars) /\ b \in Seq(Chars) /\ Starts(b, a)
      BY <2>4, <3>1
    <3> HIDE DEF a, b, s
    <3>3. /\ Len(b \o s) = Len(b) + Len(s)
          /\ \A i \in 1 .. Len(b) : (b \o s)[i] = b[i]
      BY <2>5, <3>2, ConcatIs
    <3>4. Starts(b \o s, a)
      BY <2>5, <3>2, <3>3 DEF Starts
    <3> QED
      BY <2>4, <3>4 DEF a, b
  <2> QED
    BY <2>1, <2>2, <2>6, <2>7 DEF k
<1> HIDE DEF S
<1>5. \A m \in 0 .. N : m \in S
  BY <1>1, <1>3, <1>4, InductionTo
<1>6. N \in 0 .. N /\ n <= N
  BY <1>1
<1> QED
  BY <1>5, <1>6 DEF S

LEMMA OneInFront ==
  ASSUME NEW S, NEW s \in Seq(S), NEW n \in 1 .. Len(s)
  PROVE  <<s[n]>> \o SubSeq(s, n + 1, Len(s)) = SubSeq(s, n, Len(s))
<1> DEFINE N == Len(s)
           m == n + 1
           u == SubSeq(s, m, N)
           v == SubSeq(s, n, N)
           one == <<s[n]>>
<1>1. N \in Nat /\ n \in Nat /\ n > 0 /\ n <= N /\ m \in Nat /\ m > 0 /\ s[n] \in S
  OBVIOUS
<1>2. /\ u \in Seq(S) /\ Len(u) = IF m <= N THEN N - m + 1 ELSE 0
      /\ \A i \in 1 .. N - m + 1 : u[i] = s[i + m - 1]
  <2> HIDE DEF m, N
  <2>1. N \in Int /\ N <= Len(s)
    BY <1>1 DEF N
  <2> QED
    BY <1>1, <2>1, SubSeqIs
<1>3. /\ v \in Seq(S) /\ Len(v) = IF n <= N THEN N - n + 1 ELSE 0
      /\ \A i \in 1 .. N - n + 1 : v[i] = s[i + n - 1]
  <2> HIDE DEF N
  <2>1. N \in Int /\ N <= Len(s)
    BY <1>1 DEF N
  <2> QED
    BY <1>1, <2>1, SubSeqIs
<1>4. one \in Seq(S) /\ Len(one) = 1 /\ one[1] = s[n]
  BY <1>1
<1> HIDE DEF u, v, one
<1>5. /\ one \o u \in Seq(S) /\ Len(one \o u) = 1 + Len(u)
      /\ (one \o u)[1] = s[n]
      /\ \A i \in 1 .. Len(u) : (one \o u)[1 + i] = u[i]
  <2>1. one \in Seq(S) /\ u \in Seq(S)
    BY <1>2, <1>4
  <2>2. /\ one \o u \in Seq(S) /\ Len(one \o u) = Len(one) + Len(u)
        /\ \A i \in 1 .. Len(one) : (one \o u)[i] = one[i]
        /\ \A i \in 1 .. Len(u) : (one \o u)[Len(one) + i] = u[i]
    BY <2>1, ConcatIs
  <2>3. 1 \in 1 .. Len(one)
    BY <1>4
  <2> QED
    BY <1>4, <2>2, <2>3
<1> DEFINE w == one \o u
<1> HIDE DEF w, N
<1>6. Len(u) = N - n /\ Len(w) = N - n + 1 /\ Len(v) = N - n + 1
  <2>1. Len(u) = N - n
    BY <1>1, <1>2
  <2>2. Len(v) = N - n + 1
    BY <1>1, <1>3
  <2> QED
    BY <1>1, <1>5, <2>1, <2>2 DEF w
<1>7. ASSUME NEW i \in 1 .. Len(w) PROVE w[i] = v[i]
  <2>1. i \in 1 .. N - n + 1 /\ v[i] = s[i + n - 1]
    BY <1>3, <1>6
  <2>2. CASE i = 1
    BY <1>1, <1>5, <2>1, <2>2 DEF w
  <2>3. CASE i # 1
    <3> DEFINE j == i - 1
    <3>1. j \in 1 .. N - n /\ j \in 1 .. Len(u) /\ j \in 1 .. N - m + 1 /\ i = 1 + j
      BY <1>1, <1>6, <2>1, <2>3
    <3> HIDE DEF j, m
    <3>2. w[i] = u[j] /\ u[j] = s[j + m - 1]
      BY <1>2, <1>5, <3>1 DEF w
    <3>3. j + m - 1 = i + n - 1
      BY <1>1, <2>1, <3>1 DEF m
    <3> QED
      BY <2>1, <3>2, <3>3
  <2> QED
    BY <2>2, <2>3
<1>8. w \in Seq(S)
  BY <1>5 DEF w
<1>9. w = v
  BY <1>3, <1>6, <1>7, <1>8, SeqEqual
<1> QED
  BY <1>9 DEF w, v, one, u, N

(* What copying leaves of one character as it is shown.                    *)
LEMMA ShownCopied ==
  ASSUME TokenAssumption, NEW t \in Seq(Chars), NEW a \in Nat \ {0}, NEW c \in Chars,
         a + Len(Shown(c)) <= Len(t),
         \A j \in 1 .. Len(Shown(c)) : t[a + j - 1] = Shown(c)[j]
  PROVE  CopyFrom(t)[a] = <<c>> \o CopyFrom(t)[a + Len(Shown(c))]
<1> DEFINE copy == CopyFrom(t)
           s == Shown(c)
<1>1. Len(s) \in Nat
  BY ShownIs
<1>2. a \in 1 .. Len(t) + 1
  BY <1>1
<1>3. copy[a] = CopyStep(t, a, copy)
  BY <1>2, CopyRecursion
<1> HIDE DEF copy
<1>4. ASSUME s = <<c>>, c # Escape PROVE copy[a] = <<c>> \o copy[a + Len(s)]
  <2>1. Len(s) = 1 /\ s[1] = c /\ 1 \in 1 .. Len(s)
    BY <1>4
  <2>2. a + 1 - 1 = a /\ ~(a >= Len(t))
    BY <2>1
  <2>3. t[a] = c
    BY <2>1, <2>2
  <2>4. CopyStep(t, a, copy) = <<c>> \o copy[a + 1]
    BY <1>4, <2>2, <2>3 DEF CopyStep
  <2> QED
    BY <1>3, <2>1, <2>4
<1>5. ASSUME NEW x \in Escapable, s = <<Escape, x>>, Resolved(x) = c
      PROVE  copy[a] = <<c>> \o copy[a + Len(s)]
  <2>1. /\ Len(s) = 2 /\ s[1] = Escape /\ s[2] = x
        /\ 1 \in 1 .. Len(s) /\ 2 \in 1 .. Len(s)
    BY <1>5
  <2>2. a + 1 - 1 = a /\ a + 2 - 1 = a + 1 /\ ~(a >= Len(t))
    BY <2>1
  <2>3. t[a] = Escape /\ t[a + 1] = x
    BY <2>1, <2>2
  <2>4. CopyStep(t, a, copy) = <<c>> \o copy[a + 2]
    BY <1>5, <2>2, <2>3 DEF CopyStep
  <2> QED
    BY <1>3, <2>1, <2>4
<1>6. \/ s = <<c>> /\ c # Escape
      \/ \E x \in Escapable : s = <<Escape, x>> /\ Resolved(x) = c
  BY ShownIs
<1> QED
  BY <1>4, <1>5, <1>6 DEF copy

LEMMA ShownLength ==
  ASSUME TokenAssumption, NEW c \in Chars
  PROVE  Shown(c) \in Seq(Chars) /\ Len(Shown(c)) \in Nat /\ Len(Shown(c)) > 0
<1>1. Shown(c) \in Seq(Chars)
  BY ShownIs
<1>2. Len(<<c>>) \in Nat /\ Len(<<c>>) > 0
  OBVIOUS
<1>3. ASSUME NEW x PROVE Len(<<Escape, x>>) \in Nat /\ Len(<<Escape, x>>) > 0
  <2>1. Len(<<Escape, x>>) = 2
    OBVIOUS
  <2>2. 2 \in Nat /\ 2 > 0
    OBVIOUS
  <2> QED
    BY <2>1, <2>2, Zenon
<1>4. Shown(c) = <<c>> \/ \E x : Shown(c) = <<Escape, x>>
  BY ShownIs, Zenon
<1> QED
  BY <1>1, <1>2, <1>3, <1>4, Zenon

LEMMA LongerBehind ==
  ASSUME NEW S, NEW s \in Seq(S), NEW t \in Seq(S), Len(t) > 0
  PROVE  Len(s \o t) > 0
<1>1. Len(s) \in Nat /\ Len(t) \in Nat /\ Len(s \o t) = Len(s) + Len(t)
  OBVIOUS
<1> QED
  BY <1>1

LEMMA SpellGrows ==
  ASSUME TokenAssumption, NEW chars \in Seq(Chars), NEW n \in 1 .. Len(chars)
  PROVE  LET Q == SpellAfter(chars)
             s == Shown(chars[n])
         IN /\ chars[n] \in Chars
            /\ Len(Q[n]) = Len(Q[n - 1]) + Len(s) /\ Len(Q[n - 1]) \in Nat \ {0}
            /\ Len(s) \in Nat /\ Len(s) > 0
            /\ Len(Q[n]) <= Len(Q[Len(chars)])
            /\ \A j \in 1 .. Len(s) : Q[Len(chars)][Len(Q[n - 1]) + j] = s[j]
<1> DEFINE N == Len(chars)
           P == SpellAfter(chars)[n]
           O == SpellAfter(chars)[n - 1]
           W == SpellAfter(chars)[N]
           s == Shown(chars[n])
<1>1. n - 1 \in 0 .. N /\ n \in 0 .. N /\ N \in 0 .. N /\ 0 \in 0 .. N
  OBVIOUS
<1>2. chars[n] \in Chars
  OBVIOUS
<1>3. s \in Seq(Chars) /\ Len(s) > 0
  BY <1>2, ShownLength
<1>4. O \in Seq(Chars) /\ P \in Seq(Chars) /\ W \in Seq(Chars) /\ P = O \o s
  BY <1>1, SpellRecursion
<1>5. Starts(W, P)
  BY <1>1, SpellStarts
<1>6. Len(O) > 0
  <2>1. CASE n = 1
    <3>1. n - 1 = 0
      BY <2>1
    <3>2. O = <<DQuote>>
      BY <3>1, SpellRecursion, Zenon
    <3>3. Len(<<DQuote>>) > 0
      OBVIOUS
    <3> QED
      BY <3>2, <3>3, Zenon
  <2>2. CASE n # 1
    <3> DEFINE m == n - 1
    <3>1. m \in 1 .. N /\ m - 1 \in 0 .. N
      BY <2>2
    <3>2. chars[m] \in Chars
      BY <3>1
    <3> HIDE DEF m
    <3>3. SpellAfter(chars)[m] = SpellAfter(chars)[m - 1] \o Shown(chars[m])
      BY <3>1, SpellRecursion
    <3> DEFINE x == SpellAfter(chars)[m - 1]
               y == Shown(chars[m])
    <3>4. x \in Seq(Chars)
      BY <3>1, SpellRecursion
    <3>5. y \in Seq(Chars) /\ Len(y) > 0
      BY <3>2, ShownLength
    <3> HIDE DEF x, y
    <3>7. Len(x \o y) > 0
      BY <3>4, <3>5, LongerBehind
    <3> QED
      BY <3>3, <3>7, Zenon DEF m, x, y
  <2> QED
    BY <2>1, <2>2
<1> HIDE DEF P, O, W, s
<1>7. Len(P) = Len(O) + Len(s) /\ \A j \in 1 .. Len(s) : P[Len(O) + j] = s[j]
  BY <1>3, <1>4, ConcatIs
<1>8. Len(P) <= Len(W) /\ \A j \in 1 .. Len(s) : W[Len(O) + j] = s[j]
  <2>1. Len(P) \in Nat /\ Len(O) \in Nat /\ Len(s) \in Nat
    BY <1>3, <1>4
  <2>2. \A j \in 1 .. Len(s) : Len(O) + j \in 1 .. Len(P)
    BY <1>7, <2>1
  <2> QED
    BY <1>5, <1>7, <2>2 DEF Starts
<1>9. Len(O) \in Nat \ {0} /\ Len(s) \in Nat
  BY <1>3, <1>4, <1>6
<1> QED
  BY <1>2, <1>3, <1>7, <1>8, <1>9 DEF P, O, W, s, N

LEMMA SpeltCopied ==
  ASSUME TokenAssumption, NEW chars \in Seq(Chars), NEW t \in Seq(Chars),
         Len(t) = Len(SpellAfter(chars)[Len(chars)]),
         \A i \in 1 .. Len(t) - 1 : t[i] = SpellAfter(chars)[Len(chars)][i + 1]
  PROVE  Copied(t) = chars
<1> DEFINE N == Len(chars)
           P(n) == Len(SpellAfter(chars)[n])
           copy == CopyFrom(t)
           Claim(n) == copy[P(n)] = SubSeq(chars, n + 1, N)
           S == {k \in 0 .. N : Claim(N - k)}
<1>1. N \in Nat
  OBVIOUS
<1>2. P(0) = 1
  <2>1. Len(<<DQuote>>) = 1
    OBVIOUS
  <2> QED
    BY <2>1, SpellRecursion, Zenon
<1>3. 0 \in S
  <2>1. P(N) = Len(t) /\ Len(t) \in Nat /\ N \in 0 .. N
    BY <1>1
  <2>2. Len(t) > 0
    <3>1. CASE N = 0
      <4>1. P(N) = 1
        BY <1>2, <3>1, Zenon
      <4> HIDE DEF P
      <4> QED
        BY <2>1, <4>1
    <3>2. CASE N # 0
      <4>1. N \in 1 .. N
        BY <1>1, <3>2
      <4>2. P(N) = P(N - 1) + Len(Shown(chars[N])) /\ P(N - 1) \in Nat \ {0}
            /\ Len(Shown(chars[N])) \in Nat
        BY <4>1, SpellGrows
      <4> DEFINE x == P(N)
                 y == P(N - 1)
                 z == Len(Shown(chars[N]))
      <4>3. x = y + z /\ y \in Nat \ {0} /\ z \in Nat /\ x = Len(t)
        BY <2>1, <4>2, Zenon
      <4> HIDE DEF x, y, z
      <4> QED
        BY <4>3
    <3> QED
      BY <3>1, <3>2
  <2>3. Len(t) \in 1 .. Len(t) + 1
    BY <2>1, <2>2
  <2>4. copy[Len(t)] = CopyStep(t, Len(t), copy)
    BY <2>3, CopyRecursion
  <2>5. CopyStep(t, Len(t), copy) = <<>>
    BY <2>1 DEF CopyStep
  <2>6. SubSeq(chars, N + 1, N) = <<>>
    OBVIOUS
  <2>7. N - 0 = N /\ 0 \in 0 .. N
    BY <1>1
  <2> HIDE DEF N, copy, P
  <2> QED
    BY <2>1, <2>4, <2>5, <2>6, <2>7
<1>4. ASSUME NEW k \in 0 .. N - 1, k \in S PROVE k + 1 \in S
  <2> DEFINE n == N - k
             c == chars[n]
             s == Shown(c)
             a == P(n - 1)
  <2>1. n \in 1 .. N /\ k + 1 \in 0 .. N /\ N - (k + 1) = n - 1 /\ (n - 1) + 1 = n
    BY <1>1
  <2>2. Claim(n)
    BY <1>4
  <2> HIDE DEF n
  <2>3. /\ c \in Chars /\ P(n) = a + Len(s) /\ a \in Nat \ {0}
        /\ Len(s) \in Nat /\ Len(s) > 0
        /\ P(n) <= Len(t)
        /\ \A j \in 1 .. Len(s) : SpellAfter(chars)[N][a + j] = s[j]
    BY <2>1, SpellGrows
  <2> HIDE DEF a, c
  <2>4. \A j \in 1 .. Len(s) : t[a + j - 1] = s[j]
    <3> SUFFICES ASSUME NEW j \in 1 .. Len(s) PROVE t[a + j - 1] = s[j]
      OBVIOUS
    <3> DEFINE i == a + j - 1
    <3> HIDE DEF s, P
    <3>1. i \in 1 .. Len(t) - 1 /\ i + 1 = a + j
      BY <2>3
    <3> HIDE DEF i
    <3>2. t[i] = SpellAfter(chars)[N][i + 1]
      BY <3>1
    <3> QED
      BY <2>3, <3>1, <3>2 DEF i
  <2>5. copy[a] = <<c>> \o copy[a + Len(s)]
    <3>1. a + Len(s) <= Len(t)
      BY <2>3
    <3> QED
      BY <2>3, <2>4, <3>1, ShownCopied
  <2>6. <<c>> \o SubSeq(chars, n + 1, N) = SubSeq(chars, n, N)
    BY <2>1, OneInFront DEF c
  <2>7. copy[P(n - 1)] = SubSeq(chars, (n - 1) + 1, N)
    <3> HIDE DEF copy, s, N
    <3> QED
      BY <2>1, <2>2, <2>3, <2>5, <2>6 DEF a
  <2> HIDE DEF P, copy, N
  <2> QED
    BY <2>1, <2>7
<1> HIDE DEF S
<1>5. \A k \in 0 .. N : k \in S
  BY <1>1, <1>3, <1>4, InductionTo
<1>6. N \in 0 .. N /\ N - N = 0
  BY <1>1
<1>7. Claim(0)
  BY <1>5, <1>6 DEF S
<1>8. SubSeq(chars, 0 + 1, N) = chars
  OBVIOUS
<1> QED
  BY <1>2, <1>7, <1>8, CopyRecursion

LEMMA TwoBehind ==
  ASSUME NEW S, NEW t \in Seq(S), NEW x \in S, NEW y \in S
  PROVE  /\ <<x, y>> \in Seq(S)
         /\ t \o <<x, y>> = Append(Append(t, x), y)
OBVIOUS

(* A word as it is spelt is read as that word.                             *)
LEMMA SpeltRead ==
  ASSUME TokenAssumption, NEW t \in Seq(Chars), Behind(t).lex = Fresh,
         NEW chars \in Seq(Chars)
  PROVE  LET w == t \o Spelt(chars) IN
         /\ w \in Seq(Chars) /\ Behind(w).lex = Fresh
         /\ Behind(w).words = Append(Behind(t).words, chars)
         /\ Behind(w).handed = Behind(t).handed
<1> DEFINE q == SpellAfter(chars)[Len(chars)]
           u == t \o q
           v == Append(u, DQuote)
           w == Append(v, " ")
           n == Len(t) + 2
           k == Len(u) + 1
           tail == SubSeq(v, n, k)
<1>1. q \in Seq(Chars)
  <2>1. Len(chars) \in 0 .. Len(chars)
    OBVIOUS
  <2> QED
    BY <2>1, SpellRecursion
<1>2. DQuote \in Chars /\ " " \in Chars /\ " " \in Blank
  BY DEF TokenAssumption, Special, Blank
<1>3. t \o Spelt(chars) = w
  <2>1. Spelt(chars) = q \o <<DQuote, " ">>
    BY SpellRecursion, Zenon
  <2> HIDE DEF q
  <2>2. t \o (q \o <<DQuote, " ">>) = Append(Append(t \o q, DQuote), " ")
    <3> DEFINE x == DQuote
               y == " "
    <3>1. t \in Seq(Chars) /\ q \in Seq(Chars) /\ x \in Chars /\ y \in Chars
      BY <1>1, <1>2, Zenon
    <3> HIDE DEF x, y
    <3> DEFINE z == <<x, y>>
               p == t \o q
    <3>2. p \in Seq(Chars)
      BY <3>1, ConcatIs
    <3> HIDE DEF p
    <3>3. z \in Seq(Chars) /\ p \o z = Append(Append(p, x), y)
      BY <3>1, <3>2, TwoBehind
    <3> HIDE DEF z
    <3> DEFINE r == q \o z
               m == t \o r
    <3>4. IsJoin(p, t, q) /\ IsJoin(r, q, z) /\ IsJoin(m, t, r)
      BY Zenon DEF IsJoin, p
    <3> HIDE DEF r, m
    <3>5. IsJoin(m, p, z)
      BY <3>1, <3>3, <3>4, JoinBoth
    <3>6. m = Append(Append(p, x), y)
      BY <3>3, <3>5, Zenon DEF IsJoin
    <3> QED
      BY <3>6, Zenon DEF m, x, y, z, p, r
  <2> QED
    BY <2>1, <2>2, Zenon
<1>4. /\ u \in Seq(Chars) /\ Behind(u).lex \in Quoting
      /\ Behind(u).from = n /\ Behind(u).words = Behind(t).words
      /\ Behind(u).handed = Behind(t).handed
  BY SpellRead
<1>5. /\ Len(u) = Len(t) + Len(q)
      /\ \A i \in 1 .. Len(q) : u[Len(t) + i] = q[i]
  BY <1>1, ConcatIs
<1> HIDE DEF q, u
<1>6. /\ Behind(u) \in Read /\ v \in Seq(Chars) /\ Len(v) = k /\ v[k] = DQuote
      /\ Behind(v) = ReadOn(Behind(u), v, k)
  BY <1>2, <1>4, OneMore
<1>7. k \in Nat /\ n \in Nat /\ n > 0
  BY <1>4
<1>8. \A i \in 1 .. Len(u) : v[i] = u[i]
  <2>1. u \in Seq(Chars) /\ DQuote \in Chars
    BY <1>2, <1>4, Zenon
  <2> QED
    BY <2>1
<1> HIDE DEF v
<1>9. /\ Behind(v).lex = QuoteClosed /\ Behind(v).handed = Behind(t).handed
      /\ Behind(v).words = Append(Behind(t).words, Copied(tail))
  <2> DEFINE s == Behind(u)
             x == ReadOn(s, v, k)
  <2>1. s \in Read /\ s.lex \in Quoting /\ k \in Nat /\ v[k] = DQuote
    BY <1>4, <1>6, <1>7, Zenon
  <2> HIDE DEF k, n, s
  <2>2. /\ x.lex = QuoteClosed /\ x.handed = s.handed
        /\ x.words = Append(s.words, Copied(SubSeq(v, s.from, k)))
    BY <2>1, QuotedRead
  <2> HIDE DEF x
  <2>3. Behind(v) = x
    BY <1>6, Zenon DEF x, s
  <2>4. s.from = n /\ s.words = Behind(t).words /\ s.handed = Behind(t).handed
    BY <1>4, Zenon DEF s
  <2> QED
    BY <2>2, <2>3, <2>4, Zenon
<1>10. Copied(tail) = chars
  <2>0. Len(q) \in Nat /\ Len(t) \in Nat
    BY <1>1
  <2>1. /\ tail \in Seq(Chars) /\ Len(tail) = IF n <= k THEN k - n + 1 ELSE 0
        /\ \A i \in 1 .. k - n + 1 : tail[i] = v[i + n - 1]
    <3> HIDE DEF k, n
    <3>1. k <= Len(v) /\ k \in Int
      BY <1>6, <1>7
    <3> QED
      BY <1>6, <1>7, <3>1, SubSeqIs
  <2> HIDE DEF tail
  <2>2. k - n + 1 = Len(q) /\ Len(tail) = Len(q)
    BY <1>5, <2>0, <2>1
  <2>3. ASSUME NEW i \in 1 .. Len(tail) - 1 PROVE tail[i] = q[i + 1]
    <3> DEFINE j == i + 1
    <3>1. i \in 1 .. k - n + 1 /\ i + n - 1 = Len(t) + j /\ j \in 1 .. Len(q)
          /\ Len(t) + j \in 1 .. Len(u)
      BY <1>5, <2>0, <2>2
    <3> HIDE DEF j, n, k
    <3>2. tail[i] = v[Len(t) + j]
      BY <2>1, <3>1
    <3>3. v[Len(t) + j] = u[Len(t) + j] /\ u[Len(t) + j] = q[j]
      BY <1>5, <1>8, <3>1
    <3> QED
      BY <3>2, <3>3 DEF j
  <2>4. tail \in Seq(Chars) /\ Len(tail) = Len(q)
    BY <2>1, <2>2
  <2> QED
    BY <2>3, <2>4, SpeltCopied DEF q
<1> HIDE DEF tail, k, n
<1>11. /\ w \in Seq(Chars) /\ Behind(v) \in Read
       /\ Behind(w) = ReadOn(Behind(v), w, Len(v) + 1)
       /\ w[Len(v) + 1] = " " /\ Len(v) + 1 \in Nat
  <2>1. Len(v) + 1 \in Nat
    BY <1>6
  <2>2. v \in Seq(Chars) /\ " " \in Chars
    BY <1>2, <1>6, Zenon
  <2> HIDE DEF v
  <2> QED
    BY <2>1, <2>2, OneMore
<1> HIDE DEF w
<1>12. Behind(w).lex = Fresh /\ Stays(Behind(w), Behind(v))
  <2> DEFINE s == Behind(v)
             m == Len(v) + 1
             c == " "
  <2>1. s \in Read /\ s.lex = QuoteClosed /\ m \in Nat /\ c \in Blank /\ w[m] = c
    BY <1>2, <1>9, <1>11, Zenon
  <2> HIDE DEF s, m, c
  <2>2. ReadOn(s, w, m).lex = Fresh /\ Stays(ReadOn(s, w, m), s)
    BY <2>1, ClosedRead
  <2> QED
    BY <1>11, <2>2, Zenon DEF s, m
<1>13. /\ w \in Seq(Chars) /\ Behind(w).lex = Fresh
       /\ Behind(w).words = Append(Behind(t).words, chars)
       /\ Behind(w).handed = Behind(t).handed
  BY <1>9, <1>10, <1>11, <1>12, Zenon DEF Stays
<1> QED
  BY <1>3, <1>13, Zenon

LEMMA SpeltType ==
  ASSUME TokenAssumption, NEW chars \in Seq(Chars)
  PROVE  Spelt(chars) \in Seq(Chars)
<1>1. SpellAfter(chars)[Len(chars)] \in Seq(Chars)
  <2>1. Len(chars) \in 0 .. Len(chars)
    OBVIOUS
  <2> QED
    BY <2>1, SpellRecursion
<1>2. <<DQuote, " ">> \in Seq(Chars)
  <2>1. DQuote \in Chars /\ " " \in Chars
    BY DEF TokenAssumption, Special, Blank
  <2>2. <<>> \in Seq(Chars)
    OBVIOUS
  <2> QED
    BY <2>1, <2>2, TwoBehind, Zenon
<1>3. Spelt(chars) = SpellAfter(chars)[Len(chars)] \o <<DQuote, " ">>
  BY SpellRecursion, Zenon
<1> DEFINE q == SpellAfter(chars)[Len(chars)]
           e == <<DQuote, " ">>
<1> HIDE DEF q, e
<1>4. q \in Seq(Chars) /\ e \in Seq(Chars)
  BY <1>1, <1>2, Zenon DEF q, e
<1>5. q \o e \in Seq(Chars)
  BY <1>4, ConcatIs
<1> QED
  BY <1>3, <1>5, Zenon DEF q, e

WordAfter(s) ==
  CHOOSE word : word = [n \in 0 .. Len(s.words) |->
                          IF n = 0 THEN <<>> ELSE word[n - 1] \o Spelt(s.words[n].chars)]

LEMMA WordRecursion ==
  ASSUME TokenAssumption, NEW s, s.words \in Seq(Word)
  PROVE  /\ Worded(s) = WordAfter(s)[Len(s.words)] \o <<Ending[s.kind]>>
         /\ WordAfter(s)[0] = <<>>
         /\ \A n \in 1 .. Len(s.words) :
              WordAfter(s)[n] = WordAfter(s)[n - 1] \o Spelt(s.words[n].chars)
         /\ \A n \in 0 .. Len(s.words) : WordAfter(s)[n] \in Seq(Chars)
<1> DEFINE N == Len(s.words)
           g == [n \in 1 .. N |-> Spelt(s.words[n].chars)]
           word == WordAfter(s)
           Is(f) == Joined(f, N, <<>>, g)
           Words(f) == f = [n \in 0 .. N |->
                              IF n = 0 THEN <<>> ELSE f[n - 1] \o Spelt(s.words[n].chars)]
<1>1. Worded(s) = word[N] \o <<Ending[s.kind]>>
  BY Zenon DEF Worded, WordAfter
<1>2. N \in Nat /\ <<>> \in Seq(Chars)
  OBVIOUS
<1>3. \A n \in 1 .. N : g[n] = Spelt(s.words[n].chars) /\ g[n] \in Seq(Chars)
  <2> SUFFICES ASSUME NEW n \in 1 .. N
               PROVE  g[n] = Spelt(s.words[n].chars) /\ g[n] \in Seq(Chars)
    OBVIOUS
  <2>1. s.words[n] \in Word
    OBVIOUS
  <2>2. s.words[n].chars \in Seq(Chars)
    BY <2>1 DEF Word
  <2> QED
    BY <2>2, SpeltType
<1>4. g \in [1 .. N -> Seq(Chars)]
  BY <1>3
<1>5. ASSUME NEW f PROVE Is(f) <=> Words(f)
  <2>1. \A n \in 0 .. N : n # 0 => n \in 1 .. N
    OBVIOUS
  <2>2. \A n \in 0 .. N : (IF n = 0 THEN <<>> ELSE f[n - 1] \o g[n])
                          = (IF n = 0 THEN <<>> ELSE f[n - 1] \o Spelt(s.words[n].chars))
    BY <1>3, <2>1, Zenon
  <2>3. [n \in 0 .. N |-> IF n = 0 THEN <<>> ELSE f[n - 1] \o g[n]]
        = [n \in 0 .. N |-> IF n = 0 THEN <<>> ELSE f[n - 1] \o Spelt(s.words[n].chars)]
    BY <2>2, Zenon
  <2> QED
    BY <2>3, Zenon DEF Joined
<1>6. \E f : Is(f)
  <2> HIDE DEF N, g
  <2> QED
    BY <1>2, <1>4, JoinedExists, Zenon
<1>7. Words(word)
  <2>1. \E f : Words(f)
    BY <1>5, <1>6, Zenon
  <2>2. word = CHOOSE f : Words(f)
    BY Zenon DEF WordAfter
  <2> HIDE DEF Words, word
  <2> QED
    BY <2>1, <2>2, Zenon
<1>8. Is(word)
  BY <1>5, <1>7, Zenon
<1>9. /\ word[0] = <<>>
      /\ \A n \in 1 .. N : word[n] = word[n - 1] \o g[n]
      /\ \A n \in 0 .. N : word[n] \in Seq(Chars)
  <2> HIDE DEF N, g, word
  <2> QED
    BY <1>2, <1>4, <1>8, JoinedIs, Zenon DEF Is
<1> QED
  BY <1>1, <1>3, <1>9, Zenon

(* What the words of a statement say.                                      *)
Said(s) == [n \in 1 .. Len(s.words) |-> s.words[n].chars]
SaidUpto(s, n) == [j \in 1 .. n |-> s.words[j].chars]

LEMMA WordsRead ==
  ASSUME TokenAssumption, NEW t \in Seq(Chars), Behind(t).lex = Fresh,
         Behind(t).words = <<>>, NEW s, s.words \in Seq(Word)
  PROVE  LET w == t \o WordAfter(s)[Len(s.words)] IN
         /\ w \in Seq(Chars) /\ Behind(w).lex = Fresh
         /\ Behind(w).words = Said(s) /\ Behind(w).handed = Behind(t).handed
<1> DEFINE N == Len(s.words)
           W(n) == WordAfter(s)[n]
           U(n) == t \o W(n)
           Fine(u, n) == /\ u \in Seq(Chars) /\ Behind(u).lex = Fresh
                         /\ Behind(u).words = SaidUpto(s, n)
                         /\ Behind(u).handed = Behind(t).handed
           S == {n \in 0 .. N : Fine(U(n), n)}
<1>1. N \in Nat
  OBVIOUS
<1>2. 0 \in S
  <2>1. W(0) = <<>>
    BY WordRecursion
  <2>2. t \o <<>> = t
    OBVIOUS
  <2>3. SaidUpto(s, 0) = <<>>
    <3>1. [j \in 1 .. 0 |-> s.words[j].chars] = <<>>
      OBVIOUS
    <3> QED
      BY <3>1 DEF SaidUpto
  <2>4. Fine(t, 0)
    BY <2>3
  <2>5. 0 \in 0 .. N
    BY <1>1
  <2> QED
    BY <2>1, <2>2, <2>4, <2>5, Zenon
<1>3. ASSUME NEW n \in 0 .. N - 1, n \in S PROVE n + 1 \in S
  <2> DEFINE k == n + 1
             u == U(n)
             chars == s.words[k].chars
             z == Spelt(chars)
  <2>1. k \in 1 .. N /\ k \in 0 .. N /\ n \in 0 .. N /\ k - 1 = n
    BY <1>1
  <2>2. chars \in Seq(Chars)
    <3>1. s.words[k] \in Word
      BY <2>1
    <3> QED
      BY <3>1 DEF Word
  <2>3. Append(SaidUpto(s, n), chars) = SaidUpto(s, k)
    BY <2>1 DEF SaidUpto
  <2> HIDE DEF k
  <2>4. Fine(u, n)
    BY <1>3, Zenon
  <2>5. U(k) = u \o z
    <3>1. W(k) = W(n) \o z /\ W(n) \in Seq(Chars)
      BY <2>1, WordRecursion
    <3>2. z \in Seq(Chars)
      BY <2>2, SpeltType
    <3> HIDE DEF W, z
    <3>3. IsJoin(u, t, W(n)) /\ IsJoin(W(k), W(n), z) /\ IsJoin(U(k), t, W(k))
      BY <3>1, Zenon DEF IsJoin
    <3> HIDE DEF u, U
    <3>4. IsJoin(U(k), u, z)
      BY <3>1, <3>2, <3>3, JoinBoth
    <3> QED
      BY <3>4, Zenon DEF IsJoin
  <2> HIDE DEF u, chars
  <2>6. u \in Seq(Chars) /\ Behind(u).lex = Fresh
    BY <2>4
  <2>7. /\ u \o z \in Seq(Chars) /\ Behind(u \o z).lex = Fresh
        /\ Behind(u \o z).words = Append(Behind(u).words, chars)
        /\ Behind(u \o z).handed = Behind(u).handed
    BY <2>2, <2>6, SpeltRead
  <2>8. Fine(u \o z, k)
    BY <2>3, <2>4, <2>7, Zenon
  <2> QED
    BY <2>1, <2>5, <2>8, Zenon DEF k
<1> HIDE DEF S
<1>4. \A n \in 0 .. N : n \in S
  BY <1>1, <1>2, <1>3, InductionTo
<1>5. N \in 0 .. N
  BY <1>1
<1>6. Fine(U(N), N)
  BY <1>4, <1>5, Zenon DEF S
<1>7. SaidUpto(s, N) = Said(s)
  BY DEF SaidUpto, Said
<1> QED
  BY <1>6, <1>7, Zenon

(* The plain words of a statement, and a statement that ends a block has   *)
(* none.                                                                   *)
Saying(s) == [kind |-> s.kind, words |-> Said(s)]
NoWordsClosed(s) == s.kind = "close" => s.words = <<>>

LEMMA EndingType ==
  ASSUME TokenAssumption, NEW kind \in Kinds
  PROVE  Ending[kind] \in Chars
<1>1. Ending["param"] = ";" /\ Ending["open"] = "{" /\ Ending["close"] = "}"
  BY DEF Ending
<1>2. ";" \in Chars /\ "{" \in Chars /\ "}" \in Chars
  BY DEF TokenAssumption, Special
<1>3. kind = "param" \/ kind = "open" \/ kind = "close"
  BY DEF Kinds
<1> QED
  BY <1>1, <1>2, <1>3, Zenon

LEMMA WordedIs ==
  ASSUME TokenAssumption, NEW s \in Statement
  PROVE  /\ s.words \in Seq(Word) /\ s.kind \in Kinds
         /\ WordAfter(s)[Len(s.words)] \in Seq(Chars)
         /\ <<Ending[s.kind]>> \in Seq(Chars)
         /\ Worded(s) \in Seq(Chars)
<1>1. s.words \in Seq(Word) /\ s.kind \in Kinds
  BY DEF Statement
<1>2. WordAfter(s)[Len(s.words)] \in Seq(Chars)
  <2>1. Len(s.words) \in 0 .. Len(s.words)
    BY <1>1
  <2> QED
    BY <1>1, <2>1, WordRecursion
<1>3. <<Ending[s.kind]>> \in Seq(Chars)
  <2>1. Ending[s.kind] \in Chars
    BY <1>1, EndingType
  <2> QED
    BY <2>1
<1>4. Worded(s) = WordAfter(s)[Len(s.words)] \o <<Ending[s.kind]>>
  BY <1>1, WordRecursion, Zenon
<1> DEFINE q == WordAfter(s)[Len(s.words)]
           e == <<Ending[s.kind]>>
<1> HIDE DEF q, e
<1>5. q \in Seq(Chars) /\ e \in Seq(Chars)
  BY <1>2, <1>3, Zenon DEF q, e
<1>6. q \o e \in Seq(Chars)
  BY <1>5, ConcatIs
<1> QED
  BY <1>1, <1>2, <1>3, <1>4, <1>6, Zenon DEF q, e

(* A statement as it is written is read as that statement.                 *)
LEMMA StatementRead ==
  ASSUME TokenAssumption, NEW t \in Seq(Chars), Behind(t).lex = Fresh,
         Behind(t).words = <<>>, NEW s \in Statement, NoWordsClosed(s)
  PROVE  LET w == t \o Worded(s) IN
         /\ w \in Seq(Chars) /\ Behind(w).lex = Fresh /\ Behind(w).words = <<>>
         /\ Behind(w).handed = Append(Behind(t).handed, Saying(s))
<1> DEFINE q == WordAfter(s)[Len(s.words)]
           c == Ending[s.kind]
           e == <<c>>
           u == t \o q
           r == q \o e
           w == Append(u, c)
<1>1. /\ s.words \in Seq(Word) /\ s.kind \in Kinds /\ q \in Seq(Chars)
      /\ e \in Seq(Chars) /\ c \in Chars
  BY WordedIs, EndingType
<1>2. Worded(s) = r
  BY <1>1, WordRecursion, Zenon
<1>3. /\ u \in Seq(Chars) /\ Behind(u).lex = Fresh
      /\ Behind(u).words = Said(s) /\ Behind(u).handed = Behind(t).handed
  BY <1>1, WordsRead
<1>4. t \o r = w
  <2>1. u = t \o q /\ r = q \o e /\ u \o e = Append(u, c)
    <3>1. u \in Seq(Chars) /\ c \in Chars
      BY <1>1, <1>3, Zenon
    <3> HIDE DEF u, c
    <3>2. u \o <<c>> = Append(u, c)
      BY <3>1
    <3> QED
      BY <3>2, Zenon DEF u
  <2>2. q \in Seq(Chars) /\ e \in Seq(Chars)
    BY <1>1, Zenon
  <2> HIDE DEF q, e, u, r, c
  <2>3. t \o r = u \o e
    BY <2>1, <2>2, BehindBoth
  <2> QED
    BY <2>1, <2>3, Zenon
<1>5. /\ Behind(u) \in Read /\ Behind(w) = ReadOn(Behind(u), w, Len(u) + 1)
      /\ w \in Seq(Chars) /\ w[Len(u) + 1] = c /\ Len(u) + 1 \in Nat
  <2>1. u \in Seq(Chars) /\ c \in Chars
    BY <1>1, <1>3, Zenon
  <2> HIDE DEF u, c
  <2>2. Len(u) + 1 \in Nat
    BY <2>1
  <2> QED
    BY <2>1, <2>2, OneMore
<1> DEFINE b == Behind(u)
           n == Len(u) + 1
           x == ReadOn(b, w, n)
           said == IF s.kind = "close" THEN <<>> ELSE b.words
<1>6. /\ x.lex = Fresh /\ x.words = <<>>
      /\ x.handed = Append(b.handed, [kind |-> s.kind, words |-> said])
  <2>1. b \in Read /\ b.lex = Fresh /\ n \in Nat /\ s.kind \in Kinds
        /\ w[n] = Ending[s.kind]
    BY <1>1, <1>3, <1>5, Zenon
  <2> HIDE DEF b, n, w
  <2> QED
    BY <2>1, EndRead
<1>7. said = Said(s)
  <2>1. CASE s.kind = "close"
    <3>1. s.words = <<>>
      BY <2>1 DEF NoWordsClosed
    <3>2. [j \in 1 .. Len(<<>>) |-> <<>>[j].chars] = <<>>
      OBVIOUS
    <3>3. Said(s) = <<>>
      BY <3>1, <3>2 DEF Said
    <3> QED
      BY <2>1, <3>3
  <2>2. CASE s.kind # "close"
    BY <1>3, <2>2, Zenon
  <2> QED
    BY <2>1, <2>2
<1> HIDE DEF said, x, w, u
<1>8. x.handed = Append(Behind(t).handed, Saying(s))
  BY <1>3, <1>6, <1>7, Zenon DEF Saying
<1> QED
  BY <1>2, <1>4, <1>5, <1>6, <1>8, Zenon DEF x

WriteAfter(statements) ==
  CHOOSE write : write = [n \in 0 .. Len(statements) |->
                            IF n = 0 THEN <<>> ELSE write[n - 1] \o Worded(statements[n])]

LEMMA WriteRecursion ==
  ASSUME TokenAssumption, NEW ss \in Seq(Statement)
  PROVE  /\ Written(ss) = WriteAfter(ss)[Len(ss)]
         /\ WriteAfter(ss)[0] = <<>>
         /\ \A n \in 1 .. Len(ss) : WriteAfter(ss)[n] = WriteAfter(ss)[n - 1] \o Worded(ss[n])
         /\ \A n \in 0 .. Len(ss) : WriteAfter(ss)[n] \in Seq(Chars)
<1> DEFINE N == Len(ss)
           g == [n \in 1 .. N |-> Worded(ss[n])]
           write == WriteAfter(ss)
           Is(f) == Joined(f, N, <<>>, g)
           Writes(f) == f = [n \in 0 .. N |->
                              IF n = 0 THEN <<>> ELSE f[n - 1] \o Worded(ss[n])]
<1>1. Written(ss) = write[N]
  BY Zenon DEF Written, WriteAfter
<1>2. N \in Nat /\ <<>> \in Seq(Chars)
  OBVIOUS
<1>3. \A n \in 1 .. N : g[n] = Worded(ss[n]) /\ g[n] \in Seq(Chars)
  <2> SUFFICES ASSUME NEW n \in 1 .. N PROVE g[n] = Worded(ss[n]) /\ g[n] \in Seq(Chars)
    OBVIOUS
  <2>1. ss[n] \in Statement
    OBVIOUS
  <2> QED
    BY <2>1, WordedIs
<1>4. g \in [1 .. N -> Seq(Chars)]
  BY <1>3
<1>5. ASSUME NEW f PROVE Is(f) <=> Writes(f)
  <2>1. \A n \in 0 .. N : n # 0 => n \in 1 .. N
    OBVIOUS
  <2>2. \A n \in 0 .. N : (IF n = 0 THEN <<>> ELSE f[n - 1] \o g[n])
                          = (IF n = 0 THEN <<>> ELSE f[n - 1] \o Worded(ss[n]))
    BY <1>3, <2>1, Zenon
  <2>3. [n \in 0 .. N |-> IF n = 0 THEN <<>> ELSE f[n - 1] \o g[n]]
        = [n \in 0 .. N |-> IF n = 0 THEN <<>> ELSE f[n - 1] \o Worded(ss[n])]
    BY <2>2, Zenon
  <2> QED
    BY <2>3, Zenon DEF Joined
<1>6. \E f : Is(f)
  <2> HIDE DEF N, g
  <2> QED
    BY <1>2, <1>4, JoinedExists, Zenon
<1>7. Writes(write)
  <2>1. \E f : Writes(f)
    BY <1>5, <1>6, Zenon
  <2>2. write = CHOOSE f : Writes(f)
    BY Zenon DEF WriteAfter
  <2> HIDE DEF Writes, write
  <2> QED
    BY <2>1, <2>2, Zenon
<1>8. Is(write)
  BY <1>5, <1>7, Zenon
<1>9. /\ write[0] = <<>>
      /\ \A n \in 1 .. N : write[n] = write[n - 1] \o g[n]
      /\ \A n \in 0 .. N : write[n] \in Seq(Chars)
  <2> HIDE DEF N, g, write
  <2> QED
    BY <1>2, <1>4, <1>8, JoinedIs, Zenon DEF Is
<1> QED
  BY <1>1, <1>3, <1>9, Zenon

PlainUpto(ss, n) == [i \in 1 .. n |-> Saying(ss[i])]

(* A list of statements as it is written is read as that list.             *)
LEMMA WrittenRead ==
  ASSUME TokenAssumption, NEW ss \in Seq(Statement),
         \A i \in 1 .. Len(ss) : NoWordsClosed(ss[i])
  PROVE  Tokenized(Written(ss)) = Plain(ss)
<1> DEFINE N == Len(ss)
           U(n) == WriteAfter(ss)[n]
           Fine(u, n) == /\ u \in Seq(Chars) /\ Behind(u).lex = Fresh
                         /\ Behind(u).words = <<>>
                         /\ Behind(u).handed = PlainUpto(ss, n)
           S == {n \in 0 .. N : Fine(U(n), n)}
<1>1. N \in Nat
  OBVIOUS
<1>2. 0 \in S
  <2>1. U(0) = <<>>
    BY WriteRecursion
  <2>2. Behind(<<>>) = NothingRead /\ <<>> \in Seq(Chars)
    <3>1. <<>> \in Seq(Chars) /\ Len(<<>>) = 0
      OBVIOUS
    <3> QED
      BY <3>1, AfterRecursion DEF Behind
  <2>3. PlainUpto(ss, 0) = <<>>
    <3>1. [i \in 1 .. 0 |-> Saying(ss[i])] = <<>>
      OBVIOUS
    <3> QED
      BY <3>1, Zenon DEF PlainUpto
  <2>4. Fine(<<>>, 0)
    BY <2>2, <2>3 DEF NothingRead
  <2>5. 0 \in 0 .. N
    BY <1>1
  <2> QED
    BY <2>1, <2>4, <2>5, Zenon
<1>3. ASSUME NEW n \in 0 .. N - 1, n \in S PROVE n + 1 \in S
  <2> DEFINE k == n + 1
             u == U(n)
             s == ss[k]
             w == u \o Worded(s)
  <2>1. k \in 1 .. N /\ k \in 0 .. N /\ n \in 0 .. N /\ k - 1 = n
    BY <1>1
  <2>2. s \in Statement /\ NoWordsClosed(s)
    BY <2>1
  <2>3. Append(PlainUpto(ss, n), Saying(s)) = PlainUpto(ss, k)
    BY <2>1 DEF PlainUpto
  <2> HIDE DEF k
  <2>4. Fine(u, n)
    BY <1>3, Zenon
  <2>5. U(k) = w
    BY <2>1, WriteRecursion
  <2> HIDE DEF u, s
  <2>6. u \in Seq(Chars) /\ Behind(u).lex = Fresh /\ Behind(u).words = <<>>
    BY <2>4
  <2>7. /\ w \in Seq(Chars) /\ Behind(w).lex = Fresh /\ Behind(w).words = <<>>
        /\ Behind(w).handed = Append(Behind(u).handed, Saying(s))
    BY <2>2, <2>6, StatementRead
  <2> HIDE DEF w
  <2>8. Fine(w, k)
    BY <2>3, <2>4, <2>7, Zenon
  <2> QED
    BY <2>1, <2>5, <2>8, Zenon DEF k
<1> HIDE DEF S
<1>4. \A n \in 0 .. N : n \in S
  BY <1>1, <1>2, <1>3, InductionTo
<1>5. N \in 0 .. N
  BY <1>1
<1>6. Fine(U(N), N)
  BY <1>4, <1>5, Zenon DEF S
<1>7. Written(ss) = U(N)
  BY WriteRecursion, Zenon
<1>8. \A t \in Seq(Chars) : Tokenized(t) = Behind(t).handed
  BY AfterRecursion DEF Behind
<1>9. PlainUpto(ss, N) = Plain(ss)
  BY Zenon DEF PlainUpto, Plain, Saying, Said
<1> QED
  BY <1>6, <1>7, <1>8, <1>9, Zenon

(* A closing brace hands over no words.                                    *)
ClosedInv ==
  /\ NoWordsClosed(statement)
  /\ \A i \in 1 .. Len(handed) : NoWordsClosed(handed[i])

LEMMA ClosedStep ==
  ASSUME TypeInv, ClosedInv, [Next]_vars
  PROVE  ClosedInv'
<1>1. handed \in Seq(Statement)
  BY DEF TypeInv, TypeOK, TokenTypeOK
<1>2. CASE statement' = statement /\ handed' = handed
  BY <1>2 DEF ClosedInv
<1>3. CASE Refill \/ EndOfFile \/ EndOfCmdline
  BY <1>2, <1>3 DEF Refill, EndOfFile, EndOfCmdline
<1>4. ASSUME NEW c \in Chars, TakeChar(c) PROVE ClosedInv'
  <2> DEFINE kind == Ended(lex, c)
  <2>1. /\ statement' = IF kind = "none" THEN None
                        ELSE [kind |-> kind,
                              words |-> IF kind = "close" THEN <<>> ELSE words']
        /\ handed' = handed
    BY <1>4, Zenon DEF TakeChar
  <2> HIDE DEF kind
  <2>2. NoWordsClosed(statement')
    BY <2>1 DEF NoWordsClosed, None
  <2> QED
    BY <2>1, <2>2 DEF ClosedInv
<1>5. CASE HandOver(statement)
  <2>1. handed' = Append(handed, statement) /\ statement' = None
    BY <1>5 DEF HandOver
  <2>2. NoWordsClosed(statement')
    BY <2>1 DEF NoWordsClosed, None
  <2>3. ASSUME NEW i \in 1 .. Len(handed') PROVE NoWordsClosed(handed'[i])
    <3>1. i \in 1 .. Len(handed) \/ handed'[i] = statement
      BY <1>1, <2>1
    <3>2. i \in 1 .. Len(handed) => handed'[i] = handed[i]
      BY <1>1, <2>1
    <3> QED
      BY <3>1, <3>2 DEF ClosedInv
  <2> QED
    BY <2>2, <2>3 DEF ClosedInv
<1>6. CASE \/ Handle(statement) \/ HandleRefuses(statement)
           \/ PassPath(statement) \/ PassPathRefuses(statement)
  BY <1>5, <1>6 DEF Handle, HandleRefuses, PassPath, PassPathRefuses
<1>7. ASSUME NEW r \in Requests, InitCb(r) PROVE ClosedInv'
  BY <1>2, <1>7 DEF InitCb, tokenVars
<1>8. CASE ReleaseCb
  BY <1>2, <1>8 DEF ReleaseCb, tokenVars
<1>9. CASE UNCHANGED vars
  BY <1>2, <1>9 DEF vars, tokenVars
<1> QED
  BY <1>3, <1>4, <1>6, <1>7, <1>8, <1>9 DEF Next

(* What has been handed over can be written so that it is handed over.     *)
THEOREM HandedExpressible == Spec => []Expressible
<1>1. Init => ClosedInv
  BY DEF Init, TokenInit, ClosedInv, NoWordsClosed, None
<1>2. TypeInv /\ ClosedInv /\ [Next]_vars => ClosedInv'
  BY ClosedStep
<1>3. TypeInv /\ ClosedInv => Expressible
  BY WrittenRead, TokenAssumption DEF Expressible, TypeInv, TypeOK, TokenTypeOK, ClosedInv
<1> QED
  BY <1>1, <1>2, <1>3, TypesKept, PTL DEF Spec
=============================================================================
