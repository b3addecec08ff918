------------------------ MODULE FsHttpHeaders_proofs ------------------------
(***************************************************************************)
(* Proofs about FsHttpHeaders, for any number of headers and any way of    *)
(* cutting them.  The inductive invariant relates the buffers to the       *)
(* pieces delivered, one by one, and tells by p_state how many there are.  *)
(***************************************************************************)
EXTENDS FsHttpHeaders, FiniteSetTheorems, TLAPS

(* A buffer holds all the pieces, and nothing else; with a single one it   *)
(* has just the room it needs.                                             *)
Collected(b, h, pieces) ==
  /\ b.text \in Seq({h})
  /\ Len(b.text) = pieces.bytes
  /\ b.buf_len \in Nat \ {0}
  /\ pieces.lengths # <<>>
  /\ Len(pieces.lengths) = 1 => b.buf_len = pieces.bytes + 1
  /\ ~Fits(b) => Split(pieces)

(* A name has no empty piece but the last; so more of it never fits.       *)
NameInv(h) ==
  /\ Collected(p_key[h], h, sent[h].name)
  /\ Fits(p_key[h]) => ~Split(sent[h].name)

ValueInv(h) == Collected(p_val[h], h, sent[h].value)

NamesInv == \A h \in 1 .. Len(p_key) : NameInv(h)

ValuesInv == \A h \in 1 .. Len(p_val) : ValueInv(h)

(* Only the header http_parser is at may lack its value.                   *)
Aligned ==
  /\ Len(p_key) = Len(sent)
  /\ Len(sent) <= MaxHeaders
  /\ p_state = "WANT_KEY" <=> sent = <<>>
  /\ Len(p_val) = IF p_state = "IN_KEY" THEN Len(sent) - 1 ELSE Len(sent)
  /\ \A h \in 1 .. Len(sent) : sent[h].value = NoPieces <=> h > Len(p_val)

OverrunHasSplit ==
  fault = "overrun" =>
    \E h \in 1 .. Len(sent) : Split(sent[h].name) \/ Split(sent[h].value)

Inv ==
  /\ TypeOK
  /\ Aligned
  /\ NamesInv
  /\ ValuesInv
  /\ OverrunHasSplit

-----------------------------------------------------------------------------
(* Appending a piece to a buffer. *)

(* A buffer is allocated with one byte more than the first piece, and is  *)
(* enlarged when there is room anyway, never when there is none.          *)
LEMMA GrownFacts ==
  ASSUME NEW b, b.text \in Seq(Nat), b.buf_len \in Nat, NEW length \in Nat
  PROVE  /\ Grown(b, length) \in Nat \ {0}
         /\ b.buf_len = 0 => Grown(b, length) = length + 1
         /\ b.buf_len > 0 /\ Len(b.text) + length < b.buf_len =>
              Grown(b, length) > Len(b.text) + length
         /\ b.buf_len > 0 /\ Len(b.text) + length >= b.buf_len =>
              Grown(b, length) = b.buf_len
<1>1. PICK t \in Nat : t = Len(b.text)
  OBVIOUS
<1>2. PICK z \in Nat : z = b.buf_len
  OBVIOUS
<1>3. Grown(b, length) = IF z = 0 THEN length + 1
                         ELSE IF t + length < z THEN 2 * z + 1 ELSE z
  BY <1>1, <1>2 DEF Grown
<1>4. CASE z = 0
  BY <1>1, <1>2, <1>3, <1>4
<1>5. CASE z > 0
  BY <1>1, <1>2, <1>3, <1>5, SMTT(30)
<1> QED
  BY <1>4, <1>5

(* What one piece more does to the pieces of a name or a value.           *)
LEMMA DeliveredFacts ==
  ASSUME NEW pieces \in Pieces, NEW length \in Lengths
  PROVE  LET more == Delivered(pieces, length) IN
         /\ more \in Pieces
         /\ more.bytes = pieces.bytes + length
         /\ Len(more.lengths) = Len(pieces.lengths) + 1
         /\ more.lengths # <<>> /\ more # NoPieces
         /\ Split(more) <=> Split(pieces) \/ (pieces.lengths # <<>> /\ length # 0)
<1> DEFINE old == pieces.lengths
           more == Delivered(pieces, length)
           new == more.lengths
<1>1. old \in Seq(Lengths) /\ pieces.bytes \in Nat /\ length \in Nat
  BY HeadersAssumption DEF Pieces
<1>2. new = Append(old, length) /\ more.bytes = pieces.bytes + length
  BY DEF Delivered
<1>3. more = [lengths |-> new, bytes |-> more.bytes]
  BY DEF Delivered
<1> HIDE DEF more
<1>4. more \in Pieces
  <2>1. new \in Seq(Lengths) /\ more.bytes \in Nat
    BY <1>1, <1>2
  <2> QED
    BY <1>3, <2>1 DEF Pieces
<1> HIDE DEF old, new
<1>5. /\ Len(new) = Len(old) + 1 /\ new # <<>> /\ Len(old) \in Nat
      /\ \A i \in 1 .. Len(old) : new[i] = old[i]
      /\ new[Len(old) + 1] = length
  BY <1>1, <1>2
<1>6. more # NoPieces
  BY <1>5 DEF NoPieces, new
<1>7. (\E i \in 2 .. Len(new) : new[i] # 0) <=>
        (\E i \in 2 .. Len(old) : old[i] # 0) \/ (old # <<>> /\ length # 0)
  <2>1. old # <<>> <=> Len(old) > 0
    BY <1>1
  <2>2. \A i : i \in 2 .. Len(new) <=> i \in 2 .. Len(old) \/ (i = Len(old) + 1 /\ Len(old) > 0)
    BY <1>5
  <2> QED
    BY <1>5, <2>1, <2>2
<1> QED
  BY <1>2, <1>4, <1>5, <1>6, <1>7 DEF Split, old, new, more

(* What the append does to the buffer of a header.                         *)
LEMMA AppendCollects ==
  ASSUME NEW h \in Nat, NEW b, NEW pieces \in Pieces, NEW length \in Lengths,
         \/ b = Unallocated /\ pieces = NoPieces
         \/ Collected(b, h, pieces)
  PROVE  /\ Appended(b, h, length) \in [text : Seq({h}), buf_len : Nat]
         /\ Collected(Appended(b, h, length), h, Delivered(pieces, length))
         /\ Fits(Appended(b, h, length)) => Fits(b) \/ b = Unallocated
         /\ /\ Len(pieces.lengths) = 1 /\ length # 0
            => ~Fits(Appended(b, h, length))
<1> DEFINE new == Appended(b, h, length)
           more == Delivered(pieces, length)
           size == Grown(b, length)
<1>1. /\ b.text \in Seq({h}) /\ Len(b.text) = pieces.bytes /\ b.buf_len \in Nat
      /\ pieces.bytes \in Nat /\ length \in Nat /\ b.text \in Seq(Nat)
  BY HeadersAssumption DEF Unallocated, NoPieces, Collected, Pieces
<1>2. /\ new.text = b.text \o [i \in 1 .. length |-> h] /\ new.buf_len = size
      /\ new = [text |-> new.text, buf_len |-> new.buf_len]
  BY DEF Appended
<1>3. new.text \in Seq({h}) /\ Len(new.text) = pieces.bytes + length
  <2>1. [i \in 1 .. length |-> h] \in Seq({h}) /\ Len([i \in 1 .. length |-> h]) = length
    BY <1>1
  <2> QED
    BY <1>1, <1>2, <2>1
<1> HIDE DEF new, size
<1>4. /\ size \in Nat \ {0}
      /\ b.buf_len = 0 => size = length + 1
      /\ b.buf_len > 0 /\ pieces.bytes + length < b.buf_len => size > pieces.bytes + length
      /\ b.buf_len > 0 /\ pieces.bytes + length >= b.buf_len => size = b.buf_len
  BY <1>1, GrownFacts DEF size
<1>5. /\ more \in Pieces /\ more.bytes = pieces.bytes + length
      /\ Len(more.lengths) = Len(pieces.lengths) + 1 /\ more.lengths # <<>>
      /\ Split(more) <=> Split(pieces) \/ (pieces.lengths # <<>> /\ length # 0)
  BY DeliveredFacts
<1> HIDE DEF more
<1>6. new \in [text : Seq({h}), buf_len : Nat]
  BY <1>2, <1>3, <1>4
<1>7. Fits(new) <=> pieces.bytes + length < size
  BY <1>2, <1>3 DEF Fits
<1>8. CASE b = Unallocated /\ pieces = NoPieces
  <2>1. b.buf_len = 0 /\ pieces.bytes = 0 /\ pieces.lengths = <<>> /\ Len(pieces.lengths) = 0
    BY <1>8 DEF Unallocated, NoPieces
  <2>2. Fits(new) /\ size = length + 1
    BY <1>1, <1>4, <1>7, <2>1
  <2> QED
    BY <1>1, <1>2, <1>3, <1>4, <1>5, <1>6, <1>8, <2>1, <2>2 DEF Collected, new, more
<1>9. CASE Collected(b, h, pieces)
  <2>1. /\ b.buf_len > 0 /\ pieces.lengths # <<>> /\ (~Fits(b) => Split(pieces))
        /\ Len(pieces.lengths) = 1 => b.buf_len = pieces.bytes + 1
        /\ Len(pieces.lengths) \in Nat /\ Len(pieces.lengths) > 0
    BY <1>9 DEF Collected, Pieces
  <2>2. Fits(b) <=> pieces.bytes < b.buf_len
    BY <1>1 DEF Fits
  <2>3. Fits(new) => Fits(b)
    BY <1>1, <1>4, <1>7, <2>1, <2>2
  <2>4. Len(pieces.lengths) = 1 /\ length # 0 => ~Fits(new)
    BY <1>1, <1>4, <1>7, <2>1
  <2>5. ~Fits(new) => Split(more)
    BY <1>1, <1>4, <1>5, <1>7, <2>1, <2>2
  <2>6. Len(more.lengths) # 1
    BY <1>5, <2>1
  <2> QED
    BY <1>2, <1>3, <1>4, <1>5, <1>6, <2>3, <2>4, <2>5, <2>6 DEF Collected, new, more
<1> QED
  BY <1>8, <1>9

-----------------------------------------------------------------------------
(* The steps on the sequences. *)

LEMMA LastReplaced ==
  ASSUME NEW S, NEW s \in Seq(S), NEW n \in Nat, n = Len(s), n > 0, NEW x \in S
  PROVE  LET t == [s EXCEPT ![n] = x] IN
         /\ t \in Seq(S) /\ Len(t) = n /\ t[n] = x
         /\ \A i \in 1 .. n : i # n => t[i] = s[i]
OBVIOUS

LEMMA Pushed ==
  ASSUME NEW S, NEW s \in Seq(S), NEW x \in S
  PROVE  LET t == Append(s, x) IN
         /\ t \in Seq(S) /\ Len(t) = Len(s) + 1 /\ t[Len(s) + 1] = x
         /\ \A i \in 1 .. Len(s) + 1 : i # Len(s) + 1 => t[i] = s[i]
         /\ t # <<>>
OBVIOUS

(* A buffer that holds bytes of a header is a text. *)
LEMMA IsText ==
  ASSUME NEW n \in 1 .. MaxHeaders, NEW b \in [text : Seq({n}), buf_len : Nat]
  PROVE  b \in Text
<1>1. b.text \in Seq({n}) /\ b.buf_len \in Nat /\ b = [text |-> b.text, buf_len |-> b.buf_len]
  OBVIOUS
<1>2. b.text \in Seq(1 .. MaxHeaders)
  <2> DEFINE S == 1 .. MaxHeaders
  <2> HIDE DEF S
  <2>1. n \in S
    BY DEF S
  <2> HIDE DEF S
  <2>2. b.text \in Seq(S)
    BY <1>1, <2>1
  <2> QED
    BY <2>2 DEF S
<1> QED
  BY <1>1, <1>2 DEF Text

(* The n-th header is the one the buffers are at, with these pieces of it. *)
AtHeader(texts, pushes, n, pieces) ==
  /\ pushes => n = Len(texts) + 1 /\ pieces = NoPieces
  /\ ~pushes => n = Len(texts) /\ Collected(texts[n], n, pieces)

(* The buffers new hold a piece more of it, and the rest as texts did.     *)
HoldsMore(texts, pushes, n, length, pieces, old, new) ==
  /\ Len(old) = n
  /\ new \in Seq(Text) /\ Len(new) = n
  /\ \A i \in 1 .. n : i # n => new[i] = texts[i]
  /\ Collected(new[n], n, Delivered(pieces, length))
  /\ Fits(new[n]) => pushes \/ Fits(texts[n])
  /\ Len(pieces.lengths) = 1 /\ length # 0 => ~Fits(new[n])

(* A piece of the n-th header makes the n-th buffer hold it too, and       *)
(* leaves the others alone.                                                *)
LEMMA AppendingCollects ==
  ASSUME NEW texts \in Seq(Text), NEW pushes \in BOOLEAN,
         NEW n \in 1 .. MaxHeaders, NEW length \in Lengths, NEW pieces \in Pieces,
         AtHeader(texts, pushes, n, pieces),
         NEW after, after = PushedOrLast(texts, pushes)
  PROVE  HoldsMore(texts, pushes, n, length, pieces, after, AppendToLast(after, n, length))
<1> DEFINE old == PushedOrLast(texts, pushes)
           b == old[n]
           new == AppendToLast(old, n, length)
<1>1. n \in Nat /\ n > 0
  BY HeadersAssumption
<1>2. Unallocated \in Text
  BY DEF Unallocated, Text
<1>0. /\ pushes => n = Len(texts) + 1 /\ pieces = NoPieces
      /\ ~pushes => n = Len(texts) /\ Collected(texts[n], n, pieces)
  BY Zenon DEF AtHeader
<1>3. /\ old \in Seq(Text) /\ Len(old) = n
      /\ \A i \in 1 .. n : i # n => old[i] = texts[i]
      /\ pushes => b = Unallocated
      /\ ~pushes => b = texts[n]
  <2>1. CASE pushes
    BY <1>0, <1>1, <1>2, <2>1, Pushed DEF PushedOrLast
  <2>2. CASE ~pushes
    BY <1>0, <1>1, <2>2 DEF PushedOrLast
  <2> QED
    BY <2>1, <2>2
<1> HIDE DEF old
<1>4. \/ b = Unallocated /\ pieces = NoPieces
      \/ Collected(b, n, pieces)
  BY <1>0, <1>3
<1>5. new = [old EXCEPT ![n] = Appended(b, n, length)]
  BY <1>3 DEF AppendToLast
<1> HIDE DEF new, b
<1>6. /\ Appended(b, n, length) \in [text : Seq({n}), buf_len : Nat]
      /\ Collected(Appended(b, n, length), n, Delivered(pieces, length))
      /\ Fits(Appended(b, n, length)) => Fits(b) \/ b = Unallocated
      /\ /\ Len(pieces.lengths) = 1 /\ length # 0
         => ~Fits(Appended(b, n, length))
  BY <1>1, <1>4, AppendCollects
<1>7. Appended(b, n, length) \in Text
  BY <1>6, IsText
<1>8. /\ new \in Seq(Text) /\ Len(new) = n /\ new[n] = Appended(b, n, length)
      /\ \A i \in 1 .. n : i # n => new[i] = old[i]
  BY <1>1, <1>3, <1>5, <1>7, LastReplaced
<1>9. Fits(new[n]) => pushes \/ Fits(texts[n])
  <2>1. SUFFICES ASSUME Fits(new[n]), ~pushes PROVE Fits(texts[n])
    OBVIOUS
  <2>2. b = texts[n] /\ b.buf_len # 0
    BY <1>0, <1>3, <2>1 DEF Collected
  <2> QED
    BY <1>6, <1>8, <2>1, <2>2 DEF Unallocated
<1>10. \A i \in 1 .. n : i # n => new[i] = texts[i]
  BY <1>3, <1>8
<1>11. Collected(new[n], n, Delivered(pieces, length))
  BY <1>6, <1>8, Zenon
<1>12. Len(pieces.lengths) = 1 /\ length # 0 => ~Fits(new[n])
  BY <1>6, <1>8, Zenon
<1>13. HoldsMore(texts, pushes, n, length, pieces, old, new)
  BY <1>3, <1>8, <1>9, <1>10, <1>11, <1>12, Zenon DEF HoldsMore
<1> QED
  BY <1>13, Zenon DEF new, old

(* http_parser has delivered a piece more of the header it is at: the name *)
(* or the value of it, or a header more.                                   *)
LEMMA HeaderPushed ==
  ASSUME sent \in Seq(Header), NEW length \in Lengths
  PROVE  LET new == Append(sent, [name |-> Delivered(NoPieces, length),
                                  value |-> NoPieces])
             n == Len(sent) + 1 IN
         /\ new \in Seq(Header) /\ Len(new) = n
         /\ new[n].name = Delivered(NoPieces, length)
         /\ new[n].value = NoPieces
         /\ \A i \in 1 .. n : i # n => new[i] = sent[i]
<1> DEFINE h == [name |-> Delivered(NoPieces, length), value |-> NoPieces]
<1>1. NoPieces \in Pieces
  BY DEF NoPieces, Pieces
<1>2. Delivered(NoPieces, length) \in Pieces
  BY <1>1, DeliveredFacts
<1>3. h \in Header /\ h.name = Delivered(NoPieces, length) /\ h.value = NoPieces
  BY <1>1, <1>2 DEF Header
<1> HIDE DEF h
<1>4. LET new == Append(sent, h) n == Len(sent) + 1 IN
      /\ new \in Seq(Header) /\ Len(new) = n /\ new[n] = h
      /\ \A i \in 1 .. n : i # n => new[i] = sent[i]
  BY <1>3, Pushed
<1> QED
  BY <1>3, <1>4 DEF h

LEMMA NameExtended ==
  ASSUME sent \in Seq(Header), sent # <<>>, NEW length \in Lengths, NEW n, n = Len(sent)
  PROVE  LET new == [sent EXCEPT ![n].name = Delivered(@, length)] IN
         /\ new \in Seq(Header) /\ Len(new) = n
         /\ new[n].name = Delivered(sent[n].name, length)
         /\ new[n].value = sent[n].value
         /\ \A i \in 1 .. n : i # n => new[i] = sent[i]
<1> DEFINE named == [sent[n] EXCEPT !.name = Delivered(@, length)]
<1>1. n \in Nat /\ n > 0 /\ sent[n] \in Header
  OBVIOUS
<1>2. sent[n].name \in Pieces
  BY <1>1 DEF Header
<1>3. Delivered(sent[n].name, length) \in Pieces
  BY <1>2, DeliveredFacts
<1>4. /\ named \in Header /\ named.name = Delivered(sent[n].name, length)
      /\ named.value = sent[n].value
  BY <1>1, <1>3 DEF Header
<1>5. [sent EXCEPT ![n].name = Delivered(@, length)] = [sent EXCEPT ![n] = named]
  BY <1>1
<1> HIDE DEF named
<1> QED
  BY <1>1, <1>4, <1>5, LastReplaced

LEMMA ValueExtended ==
  ASSUME sent \in Seq(Header), sent # <<>>, NEW length \in Lengths, NEW n, n = Len(sent)
  PROVE  LET new == [sent EXCEPT ![n].value = Delivered(@, length)] IN
         /\ new \in Seq(Header) /\ Len(new) = n
         /\ new[n].value = Delivered(sent[n].value, length)
         /\ new[n].name = sent[n].name
         /\ \A i \in 1 .. n : i # n => new[i] = sent[i]
<1> DEFINE valued == [sent[n] EXCEPT !.value = Delivered(@, length)]
<1>1. n \in Nat /\ n > 0 /\ sent[n] \in Header
  OBVIOUS
<1>2. sent[n].value \in Pieces
  BY <1>1 DEF Header
<1>3. Delivered(sent[n].value, length) \in Pieces
  BY <1>2, DeliveredFacts
<1>4. /\ valued \in Header /\ valued.value = Delivered(sent[n].value, length)
      /\ valued.name = sent[n].name
  BY <1>1, <1>3 DEF Header
<1>5. [sent EXCEPT ![n].value = Delivered(@, length)] = [sent EXCEPT ![n] = valued]
  BY <1>1
<1> HIDE DEF valued
<1> QED
  BY <1>1, <1>4, <1>5, LastReplaced

-----------------------------------------------------------------------------
(* The invariant. *)

LEMMA InitInv == Init => Inv
<1> SUFFICES ASSUME Init PROVE Inv
  OBVIOUS
<1>1. Len(p_key) = 0 /\ Len(p_val) = 0 /\ Len(sent) = 0 /\ 1 .. 0 = {}
  BY DEF Init
<1>2. TypeOK
  BY DEF Init, TypeOK
<1> QED
  BY <1>1, <1>2, HeadersAssumption
  DEF Init, Inv, Aligned, NamesInv, ValuesInv, OverrunHasSplit

(* A header begins: its name gets a buffer of its own.                    *)
LEMMA NewHeaderInv ==
  ASSUME Inv, NEW length \in Lengths, NewHeader(length)
  PROVE  Inv'
<1>0. PICK n : n = Len(sent) + 1
  OBVIOUS
<1>1. /\ sent \in Seq(Header) /\ p_key \in Seq(Text) /\ p_val \in Seq(Text)
      /\ Len(sent) \in Nat /\ n \in 1 .. MaxHeaders /\ Len(p_key) = Len(sent)
  BY <1>0, HeadersAssumption DEF Inv, TypeOK, Aligned, NewHeader
<1>2. NoPieces \in Pieces
  BY DEF NoPieces, Pieces
<1>3. StartsKey /\ Len(p_val) = Len(sent)
  <2>1. CASE sent = <<>>
    BY <2>1 DEF Inv, Aligned, StartsKey
  <2>2. CASE sent # <<>>
    <3>1. Len(sent) \in 1 .. Len(sent) /\ sent[Len(sent)].value # NoPieces
      BY <1>1, <2>2 DEF NewHeader, Pending
    <3>2. Len(sent) <= Len(p_val)
      BY <1>1, <3>1 DEF Inv, Aligned
    <3> QED
      BY <1>1, <3>2 DEF Inv, TypeOK, Aligned, StartsKey
  <2> QED
    BY <2>1, <2>2
<1>4. /\ sent' \in Seq(Header) /\ Len(sent') = n
      /\ sent'[n].name = Delivered(NoPieces, length)
      /\ sent'[n].value = NoPieces
      /\ \A i \in 1 .. n : i # n => sent'[i] = sent[i]
  BY <1>0, <1>1, HeaderPushed DEF NewHeader
<1> DEFINE old == PushedOrLast(p_key, StartsKey)
<1>5. /\ p_key' = AppendToLast(old, n, length)
      /\ fault' \in Outcomes(p_key'[Len(old)])
      /\ p_state' = "IN_KEY" /\ p_val' = p_val /\ fault = "none"
  BY <1>0 DEF NewHeader, OnHeaderField, Running
<1>6. /\ Len(old) = n
      /\ p_key' \in Seq(Text) /\ Len(p_key') = n
      /\ \A i \in 1 .. n : i # n => p_key'[i] = p_key[i]
      /\ Collected(p_key'[n], n, Delivered(NoPieces, length))
  <2>1. StartsKey \in BOOLEAN
    BY DEF StartsKey
  <2>2. AtHeader(p_key, StartsKey, n, NoPieces)
    BY <1>0, <1>1, <1>3 DEF AtHeader
  <2>3. old = PushedOrLast(p_key, StartsKey)
    OBVIOUS
  <2> HIDE DEF old
  <2>4. HoldsMore(p_key, StartsKey, n, length, NoPieces, old, AppendToLast(old, n, length))
    BY <1>1, <1>2, <2>1, <2>2, <2>3, AppendingCollects
  <2>5. HoldsMore(p_key, StartsKey, n, length, NoPieces, old, p_key')
    BY <1>5, <2>4, Zenon
  <2> QED
    BY <2>5, Zenon DEF HoldsMore
<1> HIDE DEF old
<1>7. ~Split(Delivered(NoPieces, length))
  BY DEF Split, Delivered, NoPieces
<1>8. NameInv(n)'
  BY <1>4, <1>6, <1>7 DEF NameInv
<1>9. NamesInv'
  <2>1. \A i \in 1 .. n : i # n => NameInv(i)'
    <3>1. \A i \in 1 .. n : i # n => i \in 1 .. Len(p_key)
      BY <1>0, <1>1
    <3> QED
      BY <1>4, <1>6, <3>1 DEF NameInv, Inv, NamesInv
  <2> QED
    BY <1>6, <1>8, <2>1 DEF NamesInv
<1>10. ValuesInv'
  <2>1. \A i \in 1 .. Len(p_val) : i \in 1 .. n /\ i # n
    BY <1>0, <1>1, <1>3
  <2> QED
    BY <1>4, <1>5, <2>1 DEF Inv, ValuesInv, ValueInv
<1>11. fault' = "none"
  <2>1. Fits(p_key'[n])
    BY <1>6, <1>7 DEF Collected
  <2> QED
    BY <1>5, <1>6, <2>1 DEF Outcomes
<1>12. TypeOK'
  BY <1>1, <1>4, <1>5, <1>6, <1>11 DEF TypeOK
<1>13. Aligned'
  <2>1. \A i \in 1 .. n : sent'[i].value = NoPieces <=> i > Len(p_val)
    <3>1. TAKE i \in 1 .. n
    <3>2. CASE i = n
      BY <1>0, <1>1, <1>3, <1>4, <3>2
    <3>3. CASE i # n
      BY <1>0, <1>1, <1>4, <3>3 DEF Inv, Aligned
    <3> QED
      BY <3>2, <3>3
  <2>2. sent' # <<>> /\ Len(p_val) = n - 1 /\ n <= MaxHeaders
    BY <1>0, <1>1, <1>3, <1>4
  <2> QED
    BY <1>4, <1>5, <1>6, <2>1, <2>2 DEF Aligned
<1> QED
  BY <1>9, <1>10, <1>11, <1>12, <1>13 DEF Inv, OverrunHasSplit

(* A name goes on in the buffer of the last one.                          *)
LEMMA MoreOfNameInv ==
  ASSUME Inv, NEW length \in Lengths, MoreOfName(length)
  PROVE  Inv'
<1>0. PICK n : n = Len(sent)
  OBVIOUS
<1> DEFINE pieces == sent[n].name
           more == Delivered(pieces, length)
           new == AppendToLast(p_key, n, length)
<1>1. /\ sent \in Seq(Header) /\ p_key \in Seq(Text) /\ p_val \in Seq(Text)
      /\ n \in 1 .. n /\ n \in 1 .. MaxHeaders /\ Len(p_key) = n
  BY <1>0, HeadersAssumption DEF Inv, TypeOK, Aligned, MoreOfName
<1>2. /\ pieces \in Pieces /\ pieces.lengths \in Seq(Lengths) /\ length \in Nat
      /\ sent[n].value = NoPieces /\ Last(pieces.lengths) # 0 /\ sent # <<>>
  <2>1. sent[n] \in Header /\ sent # <<>>
    BY <1>0, <1>1 DEF MoreOfName
  <2>2. pieces \in Pieces
    BY <2>1 DEF Header
  <2>3. sent[n].value = NoPieces /\ Last(pieces.lengths) # 0
    BY <1>0 DEF MoreOfName, Pending
  <2> HIDE DEF pieces
  <2> QED
    BY <2>1, <2>2, <2>3, HeadersAssumption DEF Pieces
<1>3. ~StartsKey /\ p_state = "IN_KEY" /\ Len(p_val) = n - 1 /\ StartsKey \in BOOLEAN
  BY <1>0, <1>1, <1>2 DEF Inv, TypeOK, Aligned, StartsKey
<1>4. /\ sent' \in Seq(Header) /\ Len(sent') = n
      /\ sent'[n].name = more
      /\ sent'[n].value = NoPieces
      /\ \A i \in 1 .. n : i # n => sent'[i] = sent[i]
  <2>1. sent' = [sent EXCEPT ![n].name = Delivered(@, length)]
    BY <1>0 DEF MoreOfName
  <2> QED
    BY <1>0, <1>1, <1>2, <2>1, NameExtended
<1>5. /\ p_key' = new
      /\ fault' \in Outcomes(p_key'[n])
      /\ p_state' = "IN_KEY" /\ p_val' = p_val
  BY <1>0, <1>1, <1>3 DEF MoreOfName, OnHeaderField, PushedOrLast
<1>6. NameInv(n)
  BY <1>1 DEF Inv, NamesInv
<1>7. /\ new \in Seq(Text) /\ Len(new) = n
      /\ \A i \in 1 .. n : i # n => new[i] = p_key[i]
      /\ Collected(new[n], n, more)
      /\ Fits(new[n]) => Fits(p_key[n])
      /\ Len(pieces.lengths) = 1 /\ length # 0 => ~Fits(new[n])
  <2>1. AtHeader(p_key, StartsKey, n, pieces)
    BY <1>1, <1>3, <1>6 DEF NameInv, AtHeader
  <2>2. p_key = PushedOrLast(p_key, StartsKey) /\ StartsKey \in BOOLEAN
    BY <1>3 DEF PushedOrLast
  <2> HIDE DEF pieces
  <2>3. HoldsMore(p_key, StartsKey, n, length, pieces, p_key, new)
    BY <1>1, <1>2, <2>1, <2>2, AppendingCollects
  <2> HIDE DEF new
  <2>4. Len(pieces.lengths) = 1 /\ length # 0 => ~Fits(new[n])
    BY <2>3, Zenon DEF HoldsMore
  <2> QED
    BY <1>3, <2>3, <2>4, Zenon DEF HoldsMore, more
<1>8. Fits(new[n]) => ~Split(more)
  <2>1. SUFFICES ASSUME Fits(new[n]) PROVE ~Split(more)
    OBVIOUS
  <2>2. ~Split(pieces) /\ pieces.lengths # <<>>
    BY <1>6, <1>7, <2>1 DEF NameInv, Collected
  <2>3. Len(pieces.lengths) = 1
    <3>1. SUFFICES ASSUME Len(pieces.lengths) # 1 PROVE FALSE
      OBVIOUS
    <3>2. Len(pieces.lengths) \in 2 .. Len(pieces.lengths)
      <4> DEFINE lengths == pieces.lengths
      <4>1. lengths \in Seq(Lengths) /\ lengths # <<>> /\ Len(lengths) # 1
        BY <1>2, <2>2, <3>1
      <4> HIDE DEF lengths
      <4>2. Len(lengths) \in Nat /\ (lengths # <<>> => Len(lengths) > 0)
        BY <4>1
      <4>3. PICK k \in Nat : k = Len(lengths)
        BY <4>2
      <4>4. k # 1 /\ k > 0
        BY <4>1, <4>2, <4>3
      <4>5. k >= 2
        BY <4>3, <4>4
      <4>6. k \in 2 .. k
        BY <4>3, <4>5
      <4> QED
        BY <4>3, <4>6 DEF lengths
    <3> QED
      BY <1>2, <2>2, <3>2 DEF Split, Last
  <2>4. length = 0
    BY <1>7, <2>1, <2>3
  <2> QED
    BY <1>2, <2>2, <2>4, DeliveredFacts
<1> HIDE DEF pieces, new, more
<1>9. NameInv(n)'
  BY <1>4, <1>5, <1>7, <1>8 DEF NameInv
<1>10. NamesInv'
  <2>1. \A i \in 1 .. n : i # n => NameInv(i)'
    BY <1>1, <1>4, <1>5, <1>7 DEF NameInv, Inv, NamesInv
  <2> QED
    BY <1>5, <1>7, <1>9, <2>1 DEF NamesInv
<1>11. ValuesInv'
  <2>1. \A i \in 1 .. Len(p_val) : i \in 1 .. n /\ i # n
    BY <1>1, <1>3
  <2> QED
    BY <1>4, <1>5, <2>1 DEF Inv, ValuesInv, ValueInv
<1>12. fault' \in {"none", "overrun"} /\ OverrunHasSplit'
  <2>1. fault' \in {"none", "overrun"} /\ (fault' = "overrun" => ~Fits(p_key'[n]))
    BY <1>5 DEF Outcomes
  <2>2. ~Fits(p_key'[n]) => Split(sent'[n].name)
    BY <1>4, <1>5, <1>7 DEF Collected
  <2> QED
    BY <1>1, <1>4, <2>1, <2>2 DEF OverrunHasSplit
<1>13. TypeOK'
  BY <1>1, <1>4, <1>5, <1>7, <1>12 DEF TypeOK
<1>14. Aligned'
  <2>1. \A i \in 1 .. n : sent'[i].value = NoPieces <=> i > Len(p_val)
    BY <1>0, <1>1, <1>3, <1>4 DEF Inv, Aligned
  <2>2. sent' # <<>> /\ n <= MaxHeaders
    BY <1>1, <1>4
  <2> QED
    BY <1>3, <1>4, <1>5, <1>7, <2>1, <2>2 DEF Aligned
<1> QED
  BY <1>10, <1>11, <1>12, <1>13, <1>14 DEF Inv

(* A value begins, in a buffer of its own, or goes on in the last one.    *)
LEMMA ValueStepInv ==
  ASSUME Inv, NEW length \in Lengths, Value(length)
  PROVE  Inv'
<1>0. PICK n : n = Len(sent)
  OBVIOUS
<1> DEFINE pieces == sent[n].value
           more == Delivered(pieces, length)
           old == PushedOrLast(p_val, StartsValue)
           new == AppendToLast(old, n, length)
<1>1. /\ sent \in Seq(Header) /\ p_key \in Seq(Text) /\ p_val \in Seq(Text)
      /\ n \in 1 .. n /\ n \in 1 .. MaxHeaders /\ Len(p_key) = n /\ sent # <<>>
  BY <1>0, HeadersAssumption DEF Inv, TypeOK, Aligned, Value
<1>2. pieces \in Pieces
  <2>1. sent[n] \in Header
    BY <1>0, <1>1
  <2> QED
    BY <2>1 DEF Header
<1>3. /\ StartsValue \in BOOLEAN
      /\ StartsValue => Len(p_val) + 1 = n /\ pieces = NoPieces
      /\ ~StartsValue => Len(p_val) = n /\ Collected(p_val[n], n, pieces)
  <2>1. CASE StartsValue
    BY <1>0, <1>1, <2>1 DEF Inv, Aligned, StartsValue
  <2>2. CASE ~StartsValue
    <3>1. Len(p_val) = n
      BY <1>0, <2>2 DEF Inv, Aligned, StartsValue
    <3> QED
      BY <1>1, <2>2, <3>1 DEF Inv, ValuesInv, ValueInv, StartsValue
  <2> QED
    BY <2>1, <2>2 DEF StartsValue
<1>4. /\ sent' \in Seq(Header) /\ Len(sent') = n
      /\ sent'[n].value = more
      /\ sent'[n].name = sent[n].name
      /\ \A i \in 1 .. n : i # n => sent'[i] = sent[i]
  <2>1. sent' = [sent EXCEPT ![n].value = Delivered(@, length)]
    BY <1>0 DEF Value
  <2> QED
    BY <1>0, <1>1, <2>1, ValueExtended
<1>5. /\ p_val' = new
      /\ fault' \in Outcomes(p_val'[Len(old)])
      /\ p_state' = "IN_VALUE" /\ p_key' = p_key
  BY <1>0 DEF Value, OnHeaderValue
<1>6. /\ Len(old) = n
      /\ new \in Seq(Text) /\ Len(new) = n
      /\ \A i \in 1 .. n : i # n => new[i] = p_val[i]
      /\ Collected(new[n], n, more)
  <2>1. old = PushedOrLast(p_val, StartsValue)
    OBVIOUS
  <2>2. AtHeader(p_val, StartsValue, n, pieces)
    BY <1>3 DEF AtHeader
  <2> HIDE DEF pieces, old
  <2>3. HoldsMore(p_val, StartsValue, n, length, pieces, old, new)
    BY <1>1, <1>2, <1>3, <2>1, <2>2, AppendingCollects
  <2> HIDE DEF new
  <2> QED
    BY <2>3, Zenon DEF HoldsMore, more
<1>7. more # NoPieces
  BY <1>2, DeliveredFacts
<1> HIDE DEF pieces, old, new, more
<1>8. ValueInv(n)'
  BY <1>4, <1>5, <1>6 DEF ValueInv
<1>9. ValuesInv'
  <2>1. \A i \in 1 .. n : i # n => ValueInv(i)'
    <3>1. \A i \in 1 .. n : i # n => i \in 1 .. Len(p_val)
      BY <1>1, <1>3
    <3> QED
      BY <1>4, <1>5, <1>6, <3>1 DEF ValueInv, Inv, ValuesInv
  <2> QED
    BY <1>5, <1>6, <1>8, <2>1 DEF ValuesInv
<1>10. NamesInv'
  <2>1. \A i \in 1 .. n : sent'[i].name = sent[i].name
    BY <1>4
  <2> QED
    BY <1>1, <1>5, <2>1 DEF Inv, NamesInv, NameInv
<1>11. fault' \in {"none", "overrun"} /\ OverrunHasSplit'
  <2>1. fault' \in {"none", "overrun"} /\ (fault' = "overrun" => ~Fits(p_val'[n]))
    BY <1>5, <1>6 DEF Outcomes
  <2>2. ~Fits(p_val'[n]) => Split(sent'[n].value)
    BY <1>4, <1>5, <1>6 DEF Collected
  <2> QED
    BY <1>1, <1>4, <2>1, <2>2 DEF OverrunHasSplit
<1>12. TypeOK'
  BY <1>1, <1>4, <1>5, <1>6, <1>11 DEF TypeOK
<1>13. Aligned'
  <2>1. \A i \in 1 .. n : sent'[i].value = NoPieces <=> i > n
    <3>1. \A i \in 1 .. n : i # n => sent[i].value # NoPieces
      BY <1>0, <1>1, <1>3 DEF Inv, Aligned
    <3> QED
      BY <1>4, <1>7, <3>1, n \in Nat
  <2>2. sent' # <<>> /\ n <= MaxHeaders
    BY <1>1, <1>4
  <2> QED
    BY <1>1, <1>4, <1>5, <1>6, <2>1, <2>2 DEF Aligned
<1> QED
  BY <1>9, <1>10, <1>11, <1>12, <1>13 DEF Inv

(* Every way of cutting the headers keeps the invariant.                  *)
LEMMA SpecInv == Spec => []Inv
<1>1. Inv /\ [Next]_vars => Inv'
  <2> SUFFICES ASSUME Inv, [Next]_vars PROVE Inv'
    OBVIOUS
  <2>1. CASE UNCHANGED vars
    BY <2>1
    DEF vars, Inv, TypeOK, Aligned, NamesInv, NameInv, ValuesInv, ValueInv, OverrunHasSplit
  <2>2. CASE Next
    BY <2>2, NewHeaderInv, MoreOfNameInv, ValueStepInv DEF Next
  <2> QED
    BY <2>1, <2>2
<1> QED
  BY <1>1, InitInv, PTL DEF Spec

-----------------------------------------------------------------------------
(* The theorems. *)

(* The arrays of names and values hold buffers of bytes of the request.    *)
THEOREM TypeCorrect == Spec => []TypeOK
<1>1. Inv => TypeOK
  BY DEF Inv
<1> QED
  BY <1>1, SpecInv, PTL

(* A text that only has bytes of header h has them all alike.              *)
LEMMA AllAlike ==
  ASSUME NEW h, NEW n, NEW t \in Seq({h}), Len(t) = n
  PROVE  t = [i \in 1 .. n |-> h]
OBVIOUS

(* The text of buffer b is what has been delivered of header h.            *)
HoldsPieces(b, h, pieces) ==
  b = [text |-> [i \in 1 .. pieces.bytes |-> h], buf_len |-> b.buf_len]

(* Names and values come out of the buffers as the request has them, the   *)
(* n-th value under the n-th name, however the reads cut them.             *)
THEOREM HeadersArrive == Spec => []HeadersAsSent
<1>1. Inv => HeadersAsSent
  <2> SUFFICES ASSUME Inv PROVE HeadersAsSent
    OBVIOUS
  <2> DEFINE valued == {k \in 1 .. Len(sent) : sent[k].value # NoPieces}
  <2>1. /\ p_key \in Seq(Text) /\ p_val \in Seq(Text) /\ sent \in Seq(Header)
        /\ Len(p_key) = Len(sent)
    BY DEF Inv, TypeOK, Aligned
  <2>2. ASSUME NEW h, NEW b \in Text, NEW pieces, Collected(b, h, pieces)
        PROVE  HoldsPieces(b, h, pieces)
    <3>1. b = [text |-> b.text, buf_len |-> b.buf_len]
      BY DEF Text
    <3>2. b.text = [i \in 1 .. pieces.bytes |-> h]
      BY <2>2, AllAlike DEF Collected
    <3>3. b = [text |-> [i \in 1 .. pieces.bytes |-> h], buf_len |-> b.buf_len]
      BY <3>1, <3>2
    <3> QED
      BY <3>3, Zenon DEF HoldsPieces
  <2>3. \A h \in 1 .. Len(sent) :
          p_key[h] = [text |-> [i \in 1 .. sent[h].name.bytes |-> h],
                      buf_len |-> p_key[h].buf_len]
    <3>1. \A h \in 1 .. Len(sent) : Collected(p_key[h], h, sent[h].name) /\ p_key[h] \in Text
      BY <2>1 DEF Inv, NamesInv, NameInv
    <3>2. \A h \in 1 .. Len(sent) : HoldsPieces(p_key[h], h, sent[h].name)
      BY <2>2, <3>1, Zenon
    <3> QED
      BY <3>2, Zenon DEF HoldsPieces
  <2>4. \A h \in 1 .. Len(p_val) :
          p_val[h] = [text |-> [i \in 1 .. sent[h].value.bytes |-> h],
                      buf_len |-> p_val[h].buf_len]
    <3>1. \A h \in 1 .. Len(p_val) : Collected(p_val[h], h, sent[h].value) /\ p_val[h] \in Text
      BY <2>1 DEF Inv, ValuesInv, ValueInv
    <3>2. \A h \in 1 .. Len(p_val) : HoldsPieces(p_val[h], h, sent[h].value)
      BY <2>2, <3>1, Zenon
    <3> QED
      BY <3>2, Zenon DEF HoldsPieces
  <2>5. Cardinality(valued) = Len(p_val)
    <3>1. Len(p_val) \in Nat /\ Len(sent) \in Nat /\ Len(p_val) <= Len(sent)
      BY <2>1 DEF Inv, TypeOK, Aligned
    <3>2. valued = 1 .. Len(p_val)
      BY <3>1 DEF Inv, Aligned
    <3> QED
      <4> HIDE DEF valued
      <4>1. \A k \in Nat : Cardinality(1 .. k) = IF 1 > k THEN 0 ELSE k - 1 + 1
        BY FS_Interval
      <4> QED
        BY <3>1, <3>2, <4>1
  <2>6. p_key = [h \in 1 .. Len(sent) |-> p_key[h]]
    BY <2>1
  <2>7. p_val = [h \in 1 .. Len(p_val) |-> p_val[h]]
    BY <2>1
  <2> QED
    BY <2>3, <2>4, <2>5, <2>6, <2>7 DEF HeadersAsSent
<1> QED
  BY <1>1, SpecInv, PTL

(* It takes a name or a value in pieces to write behind a buffer, and a    *)
(* name in two pieces that are not empty always loses its terminator.      *)
THEOREM OverrunsAreSplits == Spec => []OverrunOnlyIfSplit
<1>1. Inv => OverrunOnlyIfSplit
  <2> SUFFICES ASSUME Inv PROVE OverrunOnlyIfSplit
    OBVIOUS
  <2>1. \A h \in 1 .. Len(p_key) : Fits(p_key[h]) <=> ~Split(sent[h].name)
    BY DEF Inv, NamesInv, NameInv, Collected
  <2> QED
    BY <2>1 DEF Inv, OverrunHasSplit, OverrunOnlyIfSplit
<1> QED
  BY <1>1, SpecInv, PTL
=============================================================================
