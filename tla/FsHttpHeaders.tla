--------------------------- MODULE FsHttpHeaders ---------------------------
(***************************************************************************)
(* How fs_mod_http.c collects the header names and values of a request     *)
(* that http_parser hands it piece by piece, in buffers it enlarges by     *)
(* itself.  http_parser ends a piece wherever a read ended, and at a       *)
(* folded line of a value.                                                 *)
(*                                                                         *)
(* A byte is abstracted to the number of the header it belongs to, names   *)
(* and values being kept in arrays of their own.                           *)
(***************************************************************************)
EXTENDS Naturals, Sequences, SequencesExt

CONSTANTS
  MaxHeaders,   \* the bound on the headers of the request
  Lengths,      \* the lengths a piece may have, in bytes
  MaxSize       \* the bound on the bytes of a name or of a value

ASSUME HeadersAssumption ==
  /\ MaxHeaders \in Nat
  /\ Lengths \subseteq Nat
  /\ MaxSize \in Nat

VARIABLES
  p_key,     \* the names collected so far, with the size of their buffers
  p_val,     \* the values, likewise
  p_state,   \* what the last piece was
  sent,      \* history: per header, the pieces http_parser has delivered
  fault      \* whether bytes were written behind a buffer with an effect

vars == <<p_key, p_val, p_state, sent, fault>>

-----------------------------------------------------------------------------
Text == [text : Seq(1 .. MaxHeaders), buf_len : Nat]

Pieces == [lengths : Seq(Lengths), bytes : Nat]

Header == [name : Pieces, value : Pieces]

TypeOK ==
  /\ p_key \in Seq(Text)
  /\ p_val \in Seq(Text)
  /\ p_state \in {"WANT_KEY", "IN_KEY", "IN_VALUE"}
  /\ sent \in Seq(Header)
  /\ fault \in {"none", "overrun"}

Init ==
  /\ p_key = <<>>
  /\ p_val = <<>>
  /\ p_state = "WANT_KEY"
  /\ sent = <<>>
  /\ fault = "none"

-----------------------------------------------------------------------------
(* fs_mod_http_buf_append.  A buffer that does not exist is made one byte  *)
(* longer than the piece, for the terminator; one with room left is more   *)
(* than doubled; one without is left as it is.                             *)

Unallocated == [text |-> <<>>, buf_len |-> 0]

GrownRoom(b, length) ==
  IF b.buf_len = 0 THEN length + 1 ELSE b.buf_len - Len(b.text) - length

GrownWhenFull(b, length) ==
  IF b.buf_len = 0 THEN length + 1
  ELSE IF Len(b.text) + length >= b.buf_len THEN 2 * b.buf_len + 1
  ELSE b.buf_len

GrownExact(b, length) ==
  IF b.buf_len = 0 THEN length
  ELSE IF Len(b.text) + length < b.buf_len THEN 2 * b.buf_len + 1
  ELSE b.buf_len

Grown(b, length) ==
  IF b.buf_len = 0 THEN length + 1
  ELSE IF Len(b.text) + length < b.buf_len THEN 2 * b.buf_len + 1
  ELSE b.buf_len

Appended(b, header, length) ==
  [text |-> b.text \o [i \in 1 .. length |-> header],
   buf_len |-> Grown(b, length)]

Fits(b) == Len(b.text) < b.buf_len

(* The terminator, and what does not fit, lands behind the buffer; the     *)
(* allocator's padding may absorb it.                                      *)
Outcomes(b) == IF Fits(b) THEN {"none"} ELSE {"none", "overrun"}

-----------------------------------------------------------------------------
(* The two callbacks.  The first piece of a name or a value pushes an      *)
(* element, the others go on the last one.                                 *)

PushedOrLast(texts, pushes) ==
  IF pushes THEN Append(texts, Unallocated) ELSE texts

AppendToLast(texts, header, length) ==
  [texts EXCEPT ![Len(texts)] = Appended(@, header, length)]

StartsKey == p_state = "WANT_KEY" \/ p_state = "IN_VALUE"

StartsValueAlways == TRUE

StartsValue == p_state = "IN_KEY"

(* header is the one http_parser is at. *)
OnHeaderField(header, length) ==
  LET texts == PushedOrLast(p_key, StartsKey)
  IN  /\ p_key' = AppendToLast(texts, header, length)
      /\ fault' \in Outcomes(p_key'[Len(texts)])
      /\ p_state' = "IN_KEY"
      /\ UNCHANGED p_val

OnHeaderValue(header, length) ==
  LET texts == PushedOrLast(p_val, StartsValue)
  IN  /\ p_val' = AppendToLast(texts, header, length)
      /\ fault' \in Outcomes(p_val'[Len(texts)])
      /\ p_state' = "IN_VALUE"
      /\ UNCHANGED p_key

-----------------------------------------------------------------------------
(* http_parser: each header is a name, in one or more pieces, and then a   *)
(* value.  A name begins with a piece that is not empty, and an empty      *)
(* piece ends it; an empty value is one empty piece.  A value may go on    *)
(* after an empty piece, on a folded line.                                 *)

Running == fault = "none"

NoPieces == [lengths |-> <<>>, bytes |-> 0]

Delivered(pieces, length) ==
  [lengths |-> Append(pieces.lengths, length), bytes |-> pieces.bytes + length]

Pending == sent[Len(sent)]

NewHeader(length) ==
  /\ Running
  /\ Len(sent) < MaxHeaders
  /\ sent # <<>> => Pending.value # NoPieces
  /\ length \in 1 .. MaxSize
  /\ sent' = Append(sent, [name |-> Delivered(NoPieces, length), value |-> NoPieces])
  /\ OnHeaderField(Len(sent) + 1, length)

MoreOfName(length) ==
  /\ Running
  /\ sent # <<>>
  /\ Pending.value = NoPieces
  /\ Last(Pending.name.lengths) # 0
  /\ Pending.name.bytes + length <= MaxSize
  /\ sent' = [sent EXCEPT ![Len(sent)].name = Delivered(@, length)]
  /\ OnHeaderField(Len(sent), length)

Value(length) ==
  /\ Running
  /\ sent # <<>>
  /\ Pending.value # NoPieces =>
       /\ Head(Pending.value.lengths) # 0
       /\ Last(Pending.value.lengths) # 0 \/ length # 0
  /\ Pending.value.bytes + length <= MaxSize
  /\ sent' = [sent EXCEPT ![Len(sent)].value = Delivered(@, length)]
  /\ OnHeaderValue(Len(sent), length)

Next ==
  \E length \in Lengths :
    NewHeader(length) \/ MoreOfName(length) \/ Value(length)

Spec == Init /\ [][Next]_vars

-----------------------------------------------------------------------------
(* Properties. *)

(* However the reads cut them, the names and the values are those of the   *)
(* request, complete, and the n-th value is the value of the n-th name:    *)
(* the lookup of topic_param and key_param reads p_val at p_key's index.   *)
HeadersAsSent ==
  /\ p_key = [h \in 1 .. Len(sent) |->
                [text |-> [i \in 1 .. sent[h].name.bytes |-> h],
                 buf_len |-> p_key[h].buf_len]]
  /\ p_val = [h \in 1 .. Cardinality({k \in 1 .. Len(sent) :
                                        sent[k].value # NoPieces}) |->
                [text |-> [i \in 1 .. sent[h].value.bytes |-> h],
                 buf_len |-> p_val[h].buf_len]]

(* Writing behind a buffer takes a name or a value that came in pieces of  *)
(* which one after the first was not empty.  Conversely a name that came   *)
(* in two pieces that are not empty has lost its terminator: the C string  *)
(* in the buffer runs on behind it.                                        *)
Split(pieces) == \E i \in 2 .. Len(pieces.lengths) : pieces.lengths[i] # 0

OverrunOnlyIfSplit ==
  /\ fault = "overrun" =>
       \E h \in 1 .. Len(sent) : Split(sent[h].name) \/ Split(sent[h].value)
  /\ \A h \in 1 .. Len(p_key) : Fits(p_key[h]) <=> ~Split(sent[h].name)
=============================================================================
