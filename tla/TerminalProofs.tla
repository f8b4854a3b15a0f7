-------------------------- MODULE TerminalProofs --------------------------
(***************************************************************************)
(* The terminal and its readers, for every MAX_STR_LEN, MAX_USER_MSG and   *)
(* size of the buffer of stdin, and lines of every length.                 *)
(***************************************************************************)
EXTENDS Terminal, Integers, SequenceTheorems, TLAPS

(* A line has been read in part only if it is the first one, and what is   *)
(* left of a line is never nothing.                                        *)
Queue(q) ==
  /\ \A k \in 1 .. Len(q) : q[k].left <= q[k].len /\ (q[k].len > 0 => q[k].left > 0)
  /\ \A k \in 2 .. Len(q) : q[k].left = q[k].len

QueueInv == Queue(tty)

(* bn_start_client() has sent a part of the first line, the rest of it is  *)
(* to follow.                                                              *)
Cutting == pc \in ClientPcs /\ has_unread_data = 1

(* Only then there is anything in the buffer of stdin, ... *)
BufferInv ==
  /\ pc # "exited" /\ ~Cutting => buffered = 0
  /\ Cutting => tty # <<>> /\ buffered >= 1 /\ buffered <= Head(tty).left /\ ~feof

(* ... and otherwise the first line is a new one, unless it is being       *)
(* dropped or the end of file indicator is set.                            *)
FreshInv ==
  pc \notin {"junk", "exited"} /\ ~Cutting /\ ~feof /\ tty # <<>> => Head(tty).left = Head(tty).len

(* What has been sent of the first line, and what has not. *)
PiecesInv ==
  /\ pc \in {"execute", "connect"} => pieces = <<>>
  /\ Cutting => /\ \A k \in 1 .. Len(pieces) : pieces[k] = MaxMsg
                /\ line = Head(tty).len
                /\ Head(tty).left = line - Len(pieces) * MaxMsg /\ Head(tty).left > 1

IInv ==
  TypeOK /\ QueueInv /\ BufferInv /\ FreshInv /\ PiecesInv /\ LinesKeptApart /\ SplitExact

---------------------------------------------------------------------------
(* The queue. *)

LEMMA HeadProperty ==
  ASSUME NEW q \in Seq(Chunks), Queue(q), q # <<>>
  PROVE  /\ Head(q) \in Chunks /\ Head(q).left \in Nat /\ Head(q).len \in Nat
         /\ Head(q).left <= Head(q).len /\ (Head(q).len > 0 => Head(q).left > 0)
<1>1. Len(q) \in Nat /\ Len(q) >= 1 /\ Head(q) = q[1] /\ q[1] \in Chunks OBVIOUS
<1> QED BY <1>1 DEF Queue, Chunks

LEMMA TailProperty ==
  ASSUME NEW q \in Seq(Chunks), Queue(q), q # <<>>
  PROVE  /\ Tail(q) \in Seq(Chunks) /\ Queue(Tail(q))
         /\ Tail(q) # <<>> => Head(Tail(q)).left = Head(Tail(q)).len
<1>1. Len(q) \in Nat /\ Len(q) >= 1 OBVIOUS
<1>2. Tail(q) \in Seq(Chunks) /\ Len(Tail(q)) = Len(q) - 1 OBVIOUS
<1>3. \A k \in 1 .. Len(Tail(q)) : Tail(q)[k] = q[k + 1] OBVIOUS
<1>4. \A k \in 1 .. Len(Tail(q)) : k + 1 \in 2 .. Len(q) /\ k + 1 \in 1 .. Len(q)
  BY <1>1, <1>2
<1>5. \A k \in 1 .. Len(Tail(q)) :
        /\ Tail(q)[k].left <= Tail(q)[k].len /\ (Tail(q)[k].len > 0 => Tail(q)[k].left > 0)
        /\ Tail(q)[k].left = Tail(q)[k].len
  BY <1>3, <1>4 DEF Queue
<1>6. Queue(Tail(q))
  <2>1. \A k \in 2 .. Len(Tail(q)) : k \in 1 .. Len(Tail(q)) BY <1>1, <1>2
  <2> QED BY <1>5, <2>1 DEF Queue
<1>7. ASSUME Tail(q) # <<>> PROVE Head(Tail(q)) = Tail(q)[1] /\ 1 \in 1 .. Len(Tail(q))
  BY <1>2, <1>7
<1> QED BY <1>2, <1>5, <1>6, <1>7

LEMMA PutProperty ==
  ASSUME NEW q \in Seq(Chunks), Queue(q), \A k \in 1 .. Len(q) : q[k].left = q[k].len,
         NEW r \in Chunks, r.left <= r.len, r.left > 0
  PROVE  /\ <<r>> \o q \in Seq(Chunks) /\ Queue(<<r>> \o q)
         /\ <<r>> \o q # <<>> /\ Head(<<r>> \o q) = r
<1>1. /\ <<r>> \o q \in Seq(Chunks) /\ Len(<<r>> \o q) = Len(q) + 1 /\ Len(q) \in Nat
      /\ (<<r>> \o q)[1] = r
  OBVIOUS
<1>2. \A k \in 2 .. Len(q) + 1 : (<<r>> \o q)[k] = q[k - 1] /\ k - 1 \in 1 .. Len(q)
  BY <1>1
<1>3. Queue(<<r>> \o q) BY <1>1, <1>2 DEF Queue
<1> QED BY <1>1, <1>3

LEMMA AppendProperty ==
  ASSUME NEW q \in Seq(Chunks), Queue(q), NEW r \in Chunks, r.left = r.len
  PROVE  /\ Append(q, r) \in Seq(Chunks) /\ Queue(Append(q, r)) /\ Append(q, r) # <<>>
         /\ q # <<>> => Head(Append(q, r)) = Head(q)
         /\ q = <<>> => Head(Append(q, r)) = r
<1>1. r.len \in Nat /\ r.left \in Nat BY DEF Chunks
<1>2. /\ Append(q, r) \in Seq(Chunks) /\ Len(Append(q, r)) = Len(q) + 1 /\ Len(q) \in Nat
      /\ Append(q, r)[Len(q) + 1] = r
      /\ \A k \in 1 .. Len(q) : Append(q, r)[k] = q[k]
  OBVIOUS
<1>3. Queue(Append(q, r))
  <2>1. \A k \in 1 .. Len(q) + 1 : k \in 1 .. Len(q) \/ k = Len(q) + 1 BY <1>2
  <2>2. \A k \in 2 .. Len(q) + 1 : k \in 2 .. Len(q) \/ k = Len(q) + 1 BY <1>2
  <2>3. \A k \in 2 .. Len(q) : k \in 1 .. Len(q) BY <1>2
  <2> QED BY <1>1, <1>2, <2>1, <2>2, <2>3 DEF Queue
<1>4. q # <<>> => Head(Append(q, r)) = Head(q) BY <1>2
<1>5. q = <<>> => Head(Append(q, r)) = r BY <1>2
<1>6. Append(q, r) # <<>> BY <1>2
<1> QED BY <1>2, <1>3, <1>4, <1>5, <1>6

(* n characters less, of a line that goes on or of one that ends. *)
LEMMA TakeProperty ==
  ASSUME tty \in Seq(Chunks), QueueInv, tty # <<>>, NEW n \in Nat, n <= Head(tty).left
  PROVE  /\ Take(n) \in Seq(Chunks) /\ Queue(Take(n))
         /\ n = Head(tty).left => Take(n) = Tail(tty)
         /\ n # Head(tty).left => /\ Take(n) # <<>>
                                 /\ Head(Take(n)).len = Head(tty).len
                                 /\ Head(Take(n)).left = Head(tty).left - n
<1>1. /\ Head(tty) \in Chunks /\ Head(tty).left \in Nat /\ Head(tty).len \in Nat
      /\ Head(tty).left <= Head(tty).len
  BY HeadProperty DEF QueueInv
<1>2. PICK r \in Chunks : r = [Head(tty) EXCEPT !.left = @ - n]
  <2>1. [Head(tty) EXCEPT !.left = @ - n] \in Chunks BY <1>1 DEF Chunks
  <2> QED BY <2>1
<1>3. r.len = Head(tty).len /\ r.left = Head(tty).left - n BY <1>1, <1>2 DEF Chunks
<1>4. PICK q \in Seq(Chunks) : q = Tail(tty) BY TailProperty DEF QueueInv
<1>5. Queue(q) BY <1>4, TailProperty DEF QueueInv
<1>6. \A k \in 1 .. Len(q) : q[k].left = q[k].len
  <2>1. Len(q) = Len(tty) - 1 /\ \A k \in 1 .. Len(q) : q[k] = tty[k + 1] BY <1>4
  <2>2. \A k \in 1 .. Len(q) : k + 1 \in 2 .. Len(tty) BY <2>1
  <2> QED BY <2>1, <2>2 DEF QueueInv, Queue
<1>7. Take(n) = IF r.left = 0 THEN q ELSE <<r>> \o q BY <1>2, <1>4 DEF Take
<1>8. CASE n = Head(tty).left BY <1>1, <1>3, <1>4, <1>5, <1>7, <1>8
<1>9. CASE n # Head(tty).left
  <2>1. r.left > 0 /\ r.left <= r.len /\ r.left # 0 BY <1>1, <1>3, <1>9
  <2> QED BY <1>3, <1>5, <1>6, <1>7, <1>9, <2>1, PutProperty
<1> QED BY <1>8, <1>9

---------------------------------------------------------------------------
(* Arithmetic of the cuts. *)

LEMMA DivIs ==
  ASSUME NEW a \in Nat, NEW b \in Nat \ {0}, NEW q \in Nat, q * b <= a, a < q * b + b
  PROVE  a \div b = q
OBVIOUS

LEMMA TimesMonotone ==
  ASSUME NEW a \in Nat, NEW b \in Nat, NEW m \in Nat, a <= b PROVE a * m <= b * m
OBVIOUS

LEMMA TimesSuccessor ==
  ASSUME NEW a \in Nat, NEW m \in Nat PROVE (a + 1) * m = a * m + m /\ a * m \in Nat
OBVIOUS

(* The whole blocks that hold a characters. *)
LEMMA BlocksProperty ==
  ASSUME NEW a \in Nat, NEW b \in Nat \ {0}
  PROVE  LET blocks == (a + b - 1) \div b
         IN  blocks * b \in Nat /\ a <= blocks * b /\ blocks * b < a + b
<1>1. PICK x \in Nat : x = a + b - 1 OBVIOUS
<1>2. (x \div b) \in Nat /\ (x \div b) * b <= x /\ x < (x \div b) * b + b OBVIOUS
<1>3. PICK q \in Nat : q = x \div b BY <1>2
<1>4. q * b \in Nat /\ q * b <= x /\ x < q * b + b BY <1>2, <1>3
<1>5. a <= q * b /\ q * b < a + b BY <1>1, <1>4
<1> QED BY <1>1, <1>3, <1>4, <1>5

(* Full messages and a last one make up the line. *)
LEMMA CutLast ==
  ASSUME NEW p \in Seq(Nat), \A k \in 1 .. Len(p) : p[k] = MaxMsg,
         NEW r \in Nat, 1 <= r, r <= MaxMsg, NEW n \in Nat, n = Len(p) * MaxMsg + r
  PROVE  Append(p, r) = Cut(n)
<1>1. PICK q \in Nat : q = Len(p) OBVIOUS
<1>2. MaxMsg \in Nat \ {0} /\ MaxMsg \in Nat BY SizesAssumption
<1>3. q * MaxMsg \in Nat /\ (q + 1) * MaxMsg = q * MaxMsg + MaxMsg BY <1>2, TimesSuccessor
<1>4. n = q * MaxMsg + r BY <1>1
<1>5. n # 0 BY <1>3, <1>4
<1>6. (n + MaxMsg - 1) \div MaxMsg = q + 1
  <2>1. n + MaxMsg - 1 \in Nat /\ q + 1 \in Nat BY <1>2
  <2>2. (q + 1) * MaxMsg <= n + MaxMsg - 1 /\ n + MaxMsg - 1 < (q + 1) * MaxMsg + MaxMsg
    BY <1>2, <1>3, <1>4
  <2> QED BY <1>2, <2>1, <2>2, DivIs
<1>7. Cut(n) = [k \in 1 .. q + 1 |-> Least(MaxMsg, n - (k - 1) * MaxMsg)]
  BY <1>5, <1>6 DEF Cut
<1>8. ASSUME NEW k \in 1 .. q PROVE Least(MaxMsg, n - (k - 1) * MaxMsg) = MaxMsg
  <2>1. k - 1 \in Nat /\ k \in Nat /\ k <= q OBVIOUS
  <2>2. k * MaxMsg <= q * MaxMsg BY <1>2, <2>1, TimesMonotone
  <2>3. (k - 1 + 1) * MaxMsg = (k - 1) * MaxMsg + MaxMsg /\ (k - 1) * MaxMsg \in Nat
    BY <1>2, <2>1, TimesSuccessor
  <2>4. k - 1 + 1 = k BY <2>1
  <2>5. (k - 1) * MaxMsg + MaxMsg <= q * MaxMsg BY <2>2, <2>3, <2>4
  <2>6. MaxMsg < n - (k - 1) * MaxMsg BY <1>2, <1>3, <1>4, <2>3, <2>5
  <2> QED BY <2>6 DEF Least
<1>9. Least(MaxMsg, n - (q + 1 - 1) * MaxMsg) = r
  <2>1. q + 1 - 1 = q OBVIOUS
  <2>2. n - q * MaxMsg = r BY <1>3, <1>4
  <2> QED BY <1>2, <2>1, <2>2 DEF Least
<1> DEFINE h == Append(p, r)
<1>10. /\ h \in Seq(Nat) /\ Len(h) = q + 1
       /\ \A k \in 1 .. q : h[k] = p[k]
       /\ h[q + 1] = r
  BY <1>1, AppendProperties
<1>11. DOMAIN h = 1 .. q + 1 /\ h = [k \in DOMAIN h |-> h[k]] BY <1>10, LenProperties
<1>12. ASSUME NEW k \in 1 .. q + 1 PROVE h[k] = Least(MaxMsg, n - (k - 1) * MaxMsg)
  <2>1. CASE k \in 1 .. q BY <1>1, <1>8, <1>10, <2>1
  <2>2. CASE k = q + 1 BY <1>9, <1>10, <2>2
  <2>3. k \in 1 .. q \/ k = q + 1 BY <1>1
  <2> QED BY <2>1, <2>2, <2>3
<1> HIDE DEF h
<1>13. h = [k \in 1 .. q + 1 |-> Least(MaxMsg, n - (k - 1) * MaxMsg)] BY <1>11, <1>12
<1> QED BY <1>7, <1>13 DEF h

(* A line that fits into one message. *)
LEMMA CutShort ==
  ASSUME NEW n \in Nat, n <= MaxMsg
  PROVE  Append(<<>>, n) = Cut(n)
<1>1. CASE n = 0 BY <1>1 DEF Cut
<1>2. CASE n # 0
  <2>1. <<>> \in Seq(Nat) /\ Len(<<>>) = 0 BY EmptySeq
  <2>2. PICK p \in Seq(Nat) : p = <<>> /\ Len(p) = 0 BY <2>1
  <2>3. \A k \in 1 .. Len(p) : p[k] = MaxMsg BY <2>2
  <2>4. n = Len(p) * MaxMsg + n BY <2>2, SizesAssumption
  <2>5. 1 <= n BY <1>2
  <2>6. Append(p, n) = Cut(n) BY <2>3, <2>4, <2>5, CutLast
  <2> QED BY <2>2, <2>6
<1> QED BY <1>1, <1>2

---------------------------------------------------------------------------
(* The steps. *)

LEMMA InitIInv == ASSUME Init PROVE IInv
<1>1. TypeOK
  <2>1. <<>> \in Seq(Chunks) /\ <<>> \in Seq(Nat) BY EmptySeq
  <2>2. 0 \in 0 .. Block + 1 BY SizesAssumption
  <2> QED BY <2>1, <2>2 DEF Init, TypeOK, ClientPcs
<1>2. QueueInv BY DEF Init, QueueInv, Queue
<1>3. BufferInv /\ FreshInv /\ PiecesInv /\ LinesKeptApart /\ SplitExact
  BY DEF Init, Cutting, BufferInv, FreshInv, PiecesInv, LinesKeptApart, SplitExact, ClientPcs
<1> QED BY <1>1, <1>2, <1>3 DEF IInv

(* Steps that leave the terminal and what has been read of it alone.       *)
LEMMA StepOutside ==
  ASSUME IInv, TypeOK', UNCHANGED <<tty, buffered, feof, line, pieces, whole>>,
         pc # "exited", pc' \notin ClientPcs \cup {"execute", "junk"},
         pc \notin ClientPcs \cup {"junk"} \/ (pc \in ClientPcs /\ has_unread_data = 0)
           \/ pc' = "exited" \/ tty = <<>>,
         Cutting => pc' = "exited", pc' = "connect" => pc = "execute"
  PROVE  IInv'
BY DEF IInv, TypeOK, QueueInv, Cutting, BufferInv, FreshInv, PiecesInv, LinesKeptApart,
       SplitExact, ClientPcs

LEMMA StepInLoop ==
  ASSUME IInv, TypeOK', UNCHANGED <<tty, buffered, feof, line, pieces, whole, has_unread_data>>,
         pc' = pc \/ (pc \in ClientPcs /\ pc' \in ClientPcs)
  PROVE  IInv'
BY DEF IInv, TypeOK, QueueInv, Cutting, BufferInv, FreshInv, PiecesInv, LinesKeptApart,
       SplitExact, ClientPcs

(* Nothing changes but the terminal, which gets a line more. *)
LEMMA TypePreserves == ASSUME IInv, NEW len \in Lengths, Type(len) PROVE IInv'
<1>1. TypeOK /\ Queue(tty) /\ tty \in Seq(Chunks) BY DEF IInv, TypeOK, QueueInv
<1>2. PICK r \in Chunks : r = [len |-> len, left |-> len] /\ r.len = len /\ r.left = len
  <2>1. [len |-> len, left |-> len] \in Chunks BY LengthsAssumption DEF Chunks
  <2> QED BY <2>1
<1>3. tty' = Append(tty, r) /\ UNCHANGED <<pc, buffered, feof, client, line, pieces, whole, why>>
  BY <1>2 DEF Type
<1>4. /\ tty' \in Seq(Chunks) /\ Queue(tty') /\ tty' # <<>>
      /\ tty # <<>> => Head(tty') = Head(tty)
      /\ tty = <<>> => Head(tty').left = Head(tty').len
  BY <1>1, <1>2, <1>3, AppendProperty
<1>5. TypeOK' BY <1>1, <1>3, <1>4 DEF TypeOK, client
<1>6. QueueInv' BY <1>4 DEF QueueInv
<1>7. Cutting' <=> Cutting BY <1>3 DEF Cutting, client
<1>8. BufferInv' /\ FreshInv' /\ PiecesInv' /\ LinesKeptApart' /\ SplitExact'
  BY <1>3, <1>4, <1>7 DEF IInv, BufferInv, FreshInv, PiecesInv, LinesKeptApart, SplitExact,
     client, Cutting
<1> QED BY <1>5, <1>6, <1>8 DEF IInv

LEMMA GetInputPreserves == ASSUME IInv, get_input PROVE IInv'
<1>1. TypeOK /\ QueueInv /\ tty \in Seq(Chunks) BY DEF IInv, TypeOK
<1>2. pc = "prompt" /\ tty # <<>> /\ Head(tty).len > 0 /\ ~Cutting
  BY DEF get_input, HasText, Cutting, ClientPcs
<1>3. /\ Head(tty).left \in Nat /\ Head(tty).len \in Nat /\ Head(tty).left > 0
      /\ Head(tty).left <= Head(tty).len
  BY <1>1, <1>2, HeadProperty DEF QueueInv
<1>4. buffered = 0 BY <1>2 DEF IInv, BufferInv
<1>5. MaxStr \in Nat BY SizesAssumption
<1>6. PICK n \in Nat : n = Least(Head(tty).left - buffered, MaxStr + 1)
  BY <1>3, <1>4, <1>5 DEF Least
<1>7. /\ n <= Head(tty).left /\ n <= MaxStr + 1
      /\ n = Head(tty).left \/ n = MaxStr + 1
  BY <1>3, <1>4, <1>5, <1>6 DEF Least
<1>8. /\ tty' = Take(n) /\ pc' = IF n > MaxStr THEN "junk" ELSE "execute"
      /\ line' = Head(tty).len /\ whole' = (n = Head(tty).len) /\ pieces' = <<>>
      /\ UNCHANGED <<buffered, feof, client, why>>
  BY <1>6 DEF get_input, TooLong
<1>9. /\ tty' \in Seq(Chunks) /\ Queue(tty')
      /\ n = Head(tty).left => tty' = Tail(tty)
      /\ n # Head(tty).left => /\ tty' # <<>> /\ Head(tty').len = Head(tty).len
                              /\ Head(tty').left = Head(tty).left - n
  BY <1>1, <1>2, <1>7, <1>8, TakeProperty
<1>10. TypeOK'
  <2>1. <<>> \in Seq(Nat) BY EmptySeq
  <2> QED BY <1>1, <1>3, <1>8, <1>9, <2>1 DEF TypeOK, client
<1>11. QueueInv' BY <1>9 DEF QueueInv
<1>12. ~Cutting' BY <1>8 DEF Cutting, ClientPcs
<1>13. pc' \notin ClientPcs BY <1>8 DEF ClientPcs
<1>14. BufferInv' /\ PiecesInv' /\ SplitExact'
  BY <1>4, <1>8, <1>12, <1>13 DEF BufferInv, PiecesInv, SplitExact
<1>15. ~feof => Head(tty).left = Head(tty).len BY <1>2 DEF IInv, FreshInv
<1>16. FreshInv'
  <2>1. tty' # <<>> /\ tty' = Tail(tty) => Head(tty').left = Head(tty').len
    BY <1>1, <1>2, TailProperty DEF QueueInv
  <2>2. pc' # "junk" => n = Head(tty).left BY <1>5, <1>7, <1>8
  <2> QED BY <1>9, <2>1, <2>2 DEF FreshInv
<1>17. LinesKeptApart'
  <2>1. ASSUME pc' = "execute", ~feof PROVE whole'
    <3>1. n = Head(tty).len BY <1>3, <1>5, <1>7, <1>8, <1>15, <2>1
    <3> QED BY <1>8, <3>1, Zenon
  <2>2. ASSUME pc' = "junk", ~feof, line' # MaxStr + 1
        PROVE  tty' # <<>> /\ Head(tty').len = line' /\ Head(tty').left < line'
    <3>1. n = MaxStr + 1 BY <1>5, <1>7, <1>8, <2>2
    <3>2. n # Head(tty).left BY <1>8, <1>15, <2>2, <3>1
    <3> QED BY <1>3, <1>8, <1>9, <3>1, <3>2, <1>5
  <2> QED BY <1>8, <2>1, <2>2 DEF LinesKeptApart
<1> QED BY <1>10, <1>11, <1>14, <1>16, <1>17 DEF IInv

LEMMA JunkPreserves == ASSUME IInv, Junk PROVE IInv'
<1>1. TypeOK /\ QueueInv /\ tty \in Seq(Chunks) BY DEF IInv, TypeOK
<1>2. pc = "junk" /\ tty # <<>> /\ Head(tty).len > 0 /\ ~feof /\ ~Cutting
  BY DEF Junk, HasText, Cutting, ClientPcs
<1>3. /\ Head(tty).left \in Nat /\ Head(tty).len \in Nat /\ Head(tty).left > 0
      /\ Head(tty).left <= Head(tty).len
  BY <1>1, <1>2, HeadProperty DEF QueueInv
<1>4. buffered = 0 BY <1>2 DEF IInv, BufferInv
<1>5. PICK n \in Nat : n = Least(Head(tty).left, Block)
  BY <1>3, SizesAssumption DEF Least
<1>6. n <= Head(tty).left BY <1>3, <1>5, SizesAssumption DEF Least
<1>7. /\ tty' = Take(n) /\ buffered' = 0
      /\ pc' = IF n = Head(tty).left THEN "prompt" ELSE "junk"
      /\ UNCHANGED <<feof, client, line, pieces, whole, why>>
  BY <1>4, <1>5 DEF Junk, JunkEnds
<1>8. /\ tty' \in Seq(Chunks) /\ Queue(tty')
      /\ n = Head(tty).left => tty' = Tail(tty)
      /\ n # Head(tty).left => /\ tty' # <<>> /\ Head(tty').len = Head(tty).len
                              /\ Head(tty').left = Head(tty).left - n
  BY <1>1, <1>2, <1>6, <1>7, TakeProperty
<1>9. TypeOK'
  <2>1. buffered' \in 0 .. Block + 1 BY <1>7, SizesAssumption
  <2> QED BY <1>1, <1>7, <1>8, <2>1 DEF TypeOK, client
<1>10. QueueInv' BY <1>8 DEF QueueInv
<1>11. ~Cutting' /\ pc' \notin ClientPcs /\ pc' \notin {"execute", "connect"}
  BY <1>7 DEF Cutting, ClientPcs
<1>12. BufferInv' /\ PiecesInv' /\ SplitExact'
  BY <1>7, <1>11 DEF BufferInv, PiecesInv, SplitExact
<1>13. FreshInv'
  <2>1. tty' # <<>> /\ tty' = Tail(tty) => Head(tty').left = Head(tty').len
    BY <1>1, <1>2, TailProperty DEF QueueInv
  <2> QED BY <1>7, <1>8, <2>1 DEF FreshInv
<1>14. LinesKeptApart'
  <2>1. ASSUME pc' = "junk", line # MaxStr + 1
        PROVE  tty' # <<>> /\ Head(tty').len = line /\ Head(tty').left < line
    <3>1. Head(tty).len = line /\ Head(tty).left < line BY <1>2, <2>1 DEF IInv, LinesKeptApart
    <3>2. line \in Nat BY <1>1 DEF TypeOK
    <3> QED BY <1>3, <1>7, <1>8, <2>1, <3>1, <3>2
  <2> QED BY <1>7, <1>11, <2>1 DEF LinesKeptApart
<1> QED BY <1>9, <1>10, <1>12, <1>13, <1>14 DEF IInv

(* Ctrl-D, or the end of file indicator, in the loop that drops the rest   *)
(* of a line and in the client.                                            *)
LEMMA EofPreserves ==
  ASSUME IInv, pc' = "prompt", ~Cutting, pc # "exited",
         \/ feof /\ UNCHANGED <<tty, feof>>
         \/ ~feof /\ AtEof /\ tty' = Tail(tty) /\ feof' = TRUE,
         UNCHANGED <<buffered, line, pieces, whole, why, old_sa, disconnect_client,
                     has_unread_data, unrestored>>,
         handler' \in {"shell", "client"}, fdset' \subseteq {"stdin", "sock"},
         sock' \in {"closed", "quiet", "data", "eof", "reset"}
  PROVE  IInv'
<1>1. TypeOK /\ QueueInv /\ tty \in Seq(Chunks) BY DEF IInv, TypeOK
<1>2. feof' = TRUE /\ tty' \in Seq(Chunks) /\ Queue(tty')
  <2>1. CASE feof /\ UNCHANGED <<tty, feof>> BY <1>1, <2>1 DEF QueueInv, TypeOK
  <2>2. CASE ~feof /\ AtEof /\ tty' = Tail(tty) /\ feof' = TRUE
    BY <1>1, <2>2, TailProperty DEF QueueInv, AtEof
  <2> QED BY <2>1, <2>2
<1>3. TypeOK' BY <1>1, <1>2 DEF TypeOK
<1>4. ~Cutting' /\ pc' \notin ClientPcs BY DEF Cutting, ClientPcs
<1>5. buffered = 0 BY DEF IInv, BufferInv
<1>6. QueueInv' /\ BufferInv' /\ FreshInv' /\ PiecesInv' /\ LinesKeptApart' /\ SplitExact'
  BY <1>2, <1>4, <1>5 DEF QueueInv, BufferInv, FreshInv, PiecesInv, LinesKeptApart, SplitExact
<1> QED BY <1>3, <1>6 DEF IInv

(* What fgets() leaves in the buffer of stdin fits into it and belongs to  *)
(* the line that was cut.                                                  *)
LEMMA BufferedAfterProperty ==
  ASSUME NEW n \in Nat, 1 <= n, n < Head(tty).left, Head(tty).left \in Nat,
         buffered \in Nat, buffered <= Block + 1, buffered <= Head(tty).left
  PROVE  /\ BufferedAfter(n) \in Nat /\ BufferedAfter(n) <= Block
         /\ BufferedAfter(n) <= Head(tty).left - n
<1>1. Block \in Nat \ {0} BY SizesAssumption
<1>2. CASE n <= buffered BY <1>1, <1>2 DEF BufferedAfter
<1>3. CASE n > buffered
  <2>1. PICK a \in Nat : a = n - buffered BY <1>3
  <2>2. PICK m : m = ((a + Block - 1) \div Block) * Block OBVIOUS
  <2>3. m \in Nat /\ a <= m /\ m < a + Block BY <1>1, <2>2, BlocksProperty
  <2>4. BufferedAfter(n) = Least(m, Head(tty).left - buffered) - a
    <3>1. ~(n <= buffered) BY <1>3
    <3> QED BY <2>1, <2>2, <3>1 DEF BufferedAfter
  <2>5. CASE m < Head(tty).left - buffered
    BY <1>1, <1>3, <2>1, <2>3, <2>4, <2>5 DEF Least
  <2>6. CASE ~(m < Head(tty).left - buffered)
    BY <1>1, <1>3, <2>1, <2>3, <2>4, <2>6 DEF Least
  <2> QED BY <2>5, <2>6
<1> QED BY <1>2, <1>3

LEMMA FgetsPreserves == ASSUME IInv, fgets PROVE IInv'
<1>1. TypeOK /\ QueueInv /\ tty \in Seq(Chunks) /\ pieces \in Seq(Nat) /\ line \in Nat
  BY DEF IInv, TypeOK
<1>2. pc = "stdin" /\ tty # <<>> /\ Head(tty).len > 0 /\ ~feof BY DEF fgets, HasText
<1>3. /\ Head(tty).left \in Nat /\ Head(tty).len \in Nat /\ Head(tty).left > 0
      /\ Head(tty).left <= Head(tty).len
  BY <1>1, <1>2, HeadProperty DEF QueueInv
<1>4. MaxMsg \in Nat \ {0} BY SizesAssumption
<1>5. has_unread_data \in {0, 1} /\ (Cutting <=> has_unread_data = 1)
  BY <1>1, <1>2 DEF TypeOK, Cutting, ClientPcs
<1>6. PICK n \in Nat : n = Least(Head(tty).left, MaxMsg + 1)
  BY <1>3, <1>4 DEF Least
<1>7. /\ 1 <= n /\ n <= Head(tty).left /\ n <= MaxMsg + 1
      /\ n = Head(tty).left \/ n = MaxMsg + 1
  BY <1>3, <1>4, <1>6 DEF Least
<1>8. PICK p \in Seq(Nat) : p = IF has_unread_data = 1 THEN pieces ELSE <<>>
  <2>1. <<>> \in Seq(Nat) BY EmptySeq
  <2> QED BY <1>1, <2>1
<1>9. /\ line' = Head(tty).len /\ pieces' = Append(p, n - 1) /\ pc' = "write"
      /\ \/ /\ n = Head(tty).left /\ has_unread_data' = 0
            /\ tty' = Tail(tty) /\ buffered' = 0
         \/ /\ n < Head(tty).left /\ has_unread_data' = 1
            /\ tty' = Take(n - 1) /\ buffered' = BufferedAfter(n) + 1
      /\ UNCHANGED <<feof, handler, old_sa, disconnect_client, fdset, sock, whole, unrestored, why>>
  BY <1>6, <1>8 DEF fgets, Unread, PushBack
<1>10. pieces' \in Seq(Nat) /\ Len(pieces') = Len(p) + 1 BY <1>7, <1>8, <1>9
<1>11. pc' \in ClientPcs /\ pc' \notin {"execute", "connect", "junk", "exited", "prompt"}
  BY <1>9 DEF ClientPcs
<1>12. LinesKeptApart' BY <1>11 DEF LinesKeptApart
<1>13. ~Cutting => p = <<>> /\ Head(tty).left = Head(tty).len
  BY <1>2, <1>5, <1>8 DEF IInv, FreshInv
<1>14. Cutting => /\ p = pieces /\ \A k \in 1 .. Len(p) : p[k] = MaxMsg
                  /\ line = Head(tty).len
                  /\ Head(tty).left = line - Len(p) * MaxMsg /\ Head(tty).left > 1
  BY <1>5, <1>8 DEF IInv, PiecesInv
<1>15. CASE n = Head(tty).left
  <2>1. /\ has_unread_data' = 0 /\ tty' = Tail(tty) /\ buffered' = 0 BY <1>3, <1>9, <1>15
  <2>2. /\ tty' \in Seq(Chunks) /\ Queue(tty')
        /\ tty' # <<>> => Head(tty').left = Head(tty').len
    BY <1>1, <1>2, <2>1, TailProperty DEF QueueInv
  <2>3. TypeOK'
    <3>1. buffered' \in 0 .. Block + 1 BY <2>1, SizesAssumption
    <3> QED BY <1>1, <1>3, <1>9, <1>10, <2>1, <2>2, <3>1 DEF TypeOK, ClientPcs
  <2>4. ~Cutting' BY <2>1 DEF Cutting
  <2>5. QueueInv' /\ BufferInv' /\ FreshInv' /\ PiecesInv'
    BY <1>11, <2>1, <2>2, <2>4 DEF QueueInv, BufferInv, FreshInv, PiecesInv
  <2>6. pieces' = Cut(line' - 1)
    <3>1. PICK r \in Nat : r = n - 1 BY <1>7
    <3>2. PICK N \in Nat : N = line' - 1 BY <1>2, <1>3, <1>9
    <3>3. CASE Cutting
      <4>1. Len(p) \in Nat /\ Len(p) * MaxMsg \in Nat BY <1>4, TimesSuccessor
      <4>2. N = Len(p) * MaxMsg + r BY <1>3, <1>9, <1>14, <1>15, <3>1, <3>2, <3>3, <4>1
      <4>3. 1 <= r /\ r <= MaxMsg BY <1>4, <1>7, <1>14, <1>15, <3>1, <3>3
      <4>4. \A k \in 1 .. Len(p) : p[k] = MaxMsg BY <1>14, <3>3
      <4>5. Append(p, r) = Cut(N) BY <4>2, <4>3, <4>4, CutLast
      <4> QED BY <1>9, <3>1, <3>2, <4>5
    <3>4. CASE ~Cutting
      <4>1. N = r /\ r <= MaxMsg BY <1>3, <1>4, <1>7, <1>9, <1>13, <1>15, <3>1, <3>2, <3>4
      <4> QED BY <1>9, <1>13, <3>1, <3>2, <3>4, <4>1, CutShort
    <3> QED BY <3>3, <3>4
  <2>7. SplitExact' BY <2>6 DEF SplitExact
  <2> QED BY <1>12, <2>3, <2>5, <2>7 DEF IInv
<1>16. CASE n # Head(tty).left
  <2>1. /\ n = MaxMsg + 1 /\ n < Head(tty).left BY <1>3, <1>7, <1>16
  <2>2. has_unread_data' = 1 /\ tty' = Take(n - 1) /\ buffered' = BufferedAfter(n) + 1
    BY <1>9, <1>16
  <2>3. PICK m \in Nat : m = n - 1 BY <1>7
  <2>4. m = MaxMsg /\ m <= Head(tty).left /\ m # Head(tty).left
    BY <1>3, <1>4, <2>1, <2>3
  <2>5. /\ tty' \in Seq(Chunks) /\ Queue(tty') /\ tty' # <<>>
        /\ Head(tty').len = Head(tty).len /\ Head(tty').left = Head(tty).left - MaxMsg
    BY <1>1, <1>2, <2>2, <2>3, <2>4, TakeProperty
  <2>6. buffered \in Nat /\ buffered <= Block + 1 /\ buffered <= Head(tty).left
    <3>1. buffered \in 0 .. Block + 1 /\ Block \in Nat BY <1>1, SizesAssumption DEF TypeOK
    <3>2. CASE Cutting BY <3>1, <3>2 DEF IInv, BufferInv
    <3>3. CASE ~Cutting
      <4>1. buffered = 0 BY <1>2, <3>3 DEF IInv, BufferInv
      <4> QED BY <1>3, <3>1, <4>1
    <3> QED BY <3>2, <3>3
  <2>7. /\ BufferedAfter(n) \in Nat /\ BufferedAfter(n) <= Block
        /\ BufferedAfter(n) <= Head(tty).left - n
    BY <1>3, <1>7, <2>1, <2>6, BufferedAfterProperty
  <2>8. buffered' \in 0 .. Block + 1 /\ buffered' >= 1 /\ buffered' <= Head(tty').left
    BY <1>3, <1>4, <2>1, <2>2, <2>5, <2>7, SizesAssumption
  <2>9. TypeOK' BY <1>1, <1>3, <1>9, <1>10, <2>2, <2>5, <2>8 DEF TypeOK, ClientPcs
  <2>10. Cutting' BY <1>11, <2>2 DEF Cutting
  <2>11. QueueInv' /\ BufferInv' /\ FreshInv' /\ SplitExact'
    BY <1>2, <1>9, <2>2, <2>5, <2>8, <2>10 DEF QueueInv, BufferInv, FreshInv, SplitExact
  <2>12. Len(p) \in Nat /\ Len(p) * MaxMsg \in Nat
         /\ (Len(p) + 1) * MaxMsg = Len(p) * MaxMsg + MaxMsg
    BY <1>4, TimesSuccessor
  <2>13. \A k \in 1 .. Len(p) : p[k] = MaxMsg BY <1>13, <1>14
  <2>14. Head(tty).left = Head(tty).len - Len(p) * MaxMsg
    <3>1. CASE Cutting BY <1>14, <3>1
    <3>2. CASE ~Cutting
      <4>1. Len(p) = 0 BY <1>13, <3>2
      <4> QED BY <1>3, <1>4, <1>13, <3>2, <4>1
    <3> QED BY <3>1, <3>2
  <2>15. Head(tty').left = line' - Len(pieces') * MaxMsg /\ Head(tty').left > 1
    <3>1. PICK x \in Nat : x = Len(p) * MaxMsg BY <2>12
    <3>2. Len(pieces') * MaxMsg = x + MaxMsg BY <1>10, <2>12, <3>1
    <3>3. Head(tty).left = Head(tty).len - x BY <2>14, <3>1
    <3>4. line' = Head(tty).len /\ Head(tty').left = Head(tty).left - MaxMsg BY <1>9, <2>5
    <3>5. MaxMsg + 1 < Head(tty).left /\ Head(tty).left \in Nat /\ Head(tty).len \in Nat
      BY <1>3, <2>1
    <3>6. Head(tty').left = line' - (x + MaxMsg) BY <1>4, <3>3, <3>4, <3>5
    <3>7. Head(tty').left > 1 BY <1>4, <3>4, <3>5
    <3> QED BY <3>2, <3>6, <3>7
  <2>16. \A k \in 1 .. Len(pieces') : pieces'[k] = MaxMsg
    <3>1. pieces' = Append(p, MaxMsg) BY <1>9, <2>3, <2>4
    <3>2. \A k \in 1 .. Len(p) + 1 : k \in 1 .. Len(p) \/ k = Len(p) + 1 BY <2>12
    <3> QED BY <1>10, <2>13, <3>1, <3>2
  <2>17. PiecesInv' BY <1>9, <1>11, <2>5, <2>15, <2>16 DEF PiecesInv
  <2> QED BY <1>12, <2>9, <2>11, <2>17 DEF IInv
<1> QED BY <1>15, <1>16

LEMMA NextIInv == ASSUME IInv, [Next]_vars PROVE IInv'
<1> USE DEF Return, ClientExit, client, Flagged
<1>1. TypeOK BY DEF IInv
<1>2. CASE \E len \in Lengths : Type(len) BY <1>2, TypePreserves
<1>3. CASE get_input BY <1>3, GetInputPreserves
<1>4. CASE Junk BY <1>4, JunkPreserves
<1>5. CASE fgets BY <1>5, FgetsPreserves
<1>6. CASE JunkEof
  <2>1. ~Cutting /\ pc # "exited" BY <1>6 DEF JunkEof, Cutting, ClientPcs
  <2> QED BY <1>1, <1>6, <2>1, EofPreserves DEF JunkEof, TypeOK
<1>7. CASE FgetsEof
  <2>1. ~Cutting /\ pc # "exited"
    <3>1. pc = "stdin" BY <1>7 DEF FgetsEof
    <3>2. Cutting => ~feof /\ tty # <<>> /\ Head(tty).left > 1 /\ line = Head(tty).len
      BY DEF IInv, BufferInv, PiecesInv
    <3>3. Cutting => Head(tty).len > 0 /\ Head(tty).len \in Nat
      BY <1>1, <3>2, HeadProperty DEF IInv, TypeOK, QueueInv
    <3> QED BY <1>7, <3>1, <3>2, <3>3 DEF FgetsEof, AtEof
  <2> QED BY <1>1, <1>7, <2>1, EofPreserves DEF FgetsEof, TypeOK
<1>8. CASE Eof \/ OtherCommand \/ Exit \/ bn_start_client \/ ConnectFails
  <2>1. TypeOK'
    <3>1. CASE Eof BY <1>1, <3>1 DEF TypeOK, Eof
    <3>2. CASE OtherCommand BY <1>1, <3>2 DEF TypeOK, OtherCommand
    <3>3. CASE Exit BY <1>1, <3>3 DEF TypeOK, Exit
    <3>4. CASE bn_start_client BY <1>1, <3>4 DEF TypeOK, bn_start_client
    <3>5. CASE ConnectFails BY <1>1, <3>5 DEF TypeOK, ConnectFails
    <3> QED BY <1>8, <3>1, <3>2, <3>3, <3>4, <3>5
  <2> QED BY <1>8, <2>1, StepOutside
      DEF Eof, OtherCommand, Exit, bn_start_client, ConnectFails, ClientPcs, Cutting
<1>9. CASE connect_to_server
  <2>1. TypeOK' BY <1>1, <1>9 DEF TypeOK, connect_to_server, ClientPcs
  <2>2. /\ pc = "connect" /\ pc' = "top" /\ has_unread_data' = 0 /\ ~Cutting /\ ~Cutting'
        /\ UNCHANGED <<tty, buffered, feof, line, pieces, whole>>
    BY <1>9 DEF connect_to_server, Cutting, ClientPcs
  <2> QED BY <2>1, <2>2 DEF IInv, QueueInv, BufferInv, FreshInv, PiecesInv, LinesKeptApart,
                            SplitExact
<1>10. CASE Top \/ Select \/ write_to_socket \/ read_from_socket \/ ServerSends \/ CtrlC
  <2>1. TypeOK'
    <3>1. CASE Top BY <1>1, <3>1 DEF TypeOK, Top, ClientPcs
    <3>2. CASE Select BY <1>1, <3>2 DEF TypeOK, Select, Watched, ClientPcs
    <3>3. CASE write_to_socket BY <1>1, <3>3 DEF TypeOK, write_to_socket, AfterStdin, ClientPcs
    <3>4. CASE read_from_socket BY <1>1, <3>4 DEF TypeOK, read_from_socket, ClientPcs
    <3>5. CASE ServerSends BY <1>1, <3>5 DEF TypeOK, ServerSends, ClientPcs
    <3>6. CASE CtrlC BY <1>1, <3>6 DEF TypeOK, CtrlC, ClientPcs
    <3> QED BY <1>10, <3>1, <3>2, <3>3, <3>4, <3>5, <3>6
  <2>2. CASE pc' = "exited" /\ pc # "exited"
    BY <1>10, <2>1, <2>2, StepOutside
    DEF Top, Select, write_to_socket, read_from_socket, ServerSends, CtrlC, ClientPcs, Cutting
  <2>3. CASE pc' # "exited" \/ pc = "exited"
    BY <1>10, <2>1, <2>3, StepInLoop
    DEF Top, Select, write_to_socket, read_from_socket, ServerSends, CtrlC, AfterStdin, ClientPcs
  <2> QED BY <2>2, <2>3
<1>11. CASE WriteFails \/ CtrlCInConnect \/ CtrlCInSelect \/ CtrlCInPoll \/ CtrlCInRead
  <2>1. TypeOK'
    <3>1. CASE WriteFails BY <1>1, <3>1 DEF TypeOK, WriteFails
    <3>2. CASE CtrlCInConnect BY <1>1, <3>2 DEF TypeOK, CtrlCInConnect
    <3>3. CASE CtrlCInSelect BY <1>1, <3>3 DEF TypeOK, CtrlCInSelect
    <3>4. CASE CtrlCInPoll BY <1>1, <3>4 DEF TypeOK, CtrlCInPoll
    <3>5. CASE CtrlCInRead BY <1>1, <3>5 DEF TypeOK, CtrlCInRead
    <3> QED BY <1>11, <3>1, <3>2, <3>3, <3>4, <3>5
  <2> QED BY <1>11, <2>1, StepOutside
      DEF WriteFails, CtrlCInConnect, CtrlCInSelect, CtrlCInPoll, CtrlCInRead, ClientPcs, Cutting
<1>12. CASE UNCHANGED vars
  BY <1>12 DEF vars, IInv, TypeOK, QueueInv, Cutting, BufferInv, FreshInv, PiecesInv,
     LinesKeptApart, SplitExact
<1> QED BY <1>2, <1>3, <1>4, <1>5, <1>6, <1>7, <1>8, <1>9, <1>10, <1>11, <1>12
        DEF Next, Shell, Client

---------------------------------------------------------------------------
(* The inductive invariant holds for all sizes and all lengths of lines.   *)
THEOREM Invariant == Spec => []IInv
BY InitIInv, NextIInv, PTL DEF Spec

(* Types: in particular fgets() and ungetc() never leave more than one     *)
(* block and the character pushed back in the buffer of stdin, and no      *)
(* reader takes more of a line than there is.                              *)
THEOREM TypeCorrect == Spec => []TypeOK
<1>1. IInv => TypeOK BY DEF IInv
<1> QED BY <1>1, Invariant, PTL

(* No character is in the buffer of stdin when the shell reads or the      *)
(* client waits in select() (io_helpers.c:49, builtins.c:827-885).         *)
THEOREM NothingHiddenCorrect == Spec => []NothingHidden
<1>1. IInv => NothingHidden BY DEF IInv, BufferInv, Cutting, NothingHidden, TypeOK, ClientPcs
<1> QED BY <1>1, Invariant, PTL

(* The shell executes whole lines, and the loop in get_input() drops only  *)
(* the rest of a line that was too long, for every MAX_STR_LEN.  Two cases *)
(* are not claimed, and the code gets them wrong: behind a line of         *)
(* MAX_STR_LEN + 1 characters the loop drops the next line, and once       *)
(* Ctrl-D has set the end of file indicator it drops nothing               *)
(* (io_helpers.c:44-50).                                                   *)
THEOREM LinesKeptApartCorrect == Spec => []LinesKeptApart
<1>1. IInv => LinesKeptApart BY DEF IInv
<1> QED BY <1>1, Invariant, PTL

(* The messages bn_start_client() sends for a line are the line, cut at    *)
(* MAX_USER_MSG characters, for every MAX_USER_MSG, every size of the      *)
(* buffer of stdin and every length of the line (builtins.c:859-887).      *)
THEOREM SplitCorrect == Spec => []SplitExact
<1>1. IInv => SplitExact BY DEF IInv
<1> QED BY <1>1, Invariant, PTL
============================================================================
