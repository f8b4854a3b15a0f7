---------------------------- MODULE ChatProofs ----------------------------
(***************************************************************************)
(* The chat server is correct for any number of peers, any buffer size and *)
(* any number of messages, with and without Ctrl-C. The second part is     *)
(* about the server and the shell's own clients together, for any number   *)
(* of clients and sockets of any size: the clients are peers as ChatServer *)
(* has them, and none of them is ever thrown out.                          *)
(***************************************************************************)
EXTENDS ChatSystem, SequenceTheorems, WellFoundedInduction, TLAPS

(* A set of naturals has a least element. *)
LEMMA MinProperty ==
  ASSUME NEW S \in SUBSET Nat, S # {}
  PROVE  Min(S) \in S /\ \A y \in S : Min(S) <= y
<1>1. PICK x \in S : \A y \in S : ~(<<y, x>> \in OpToRel(<, Nat))
  BY WFMin, NatLessThanWellFounded
<1>2. \A y \in S : y < x => <<y, x>> \in OpToRel(<, Nat)
  <2>1. \A y \in S : y < x => <<y, x>> \in {ss \in Nat \X Nat : ss[1] < ss[2]}
    OBVIOUS
  <2> QED BY <2>1 DEF OpToRel
<1>3. \A y \in S : ~(y < x)
  BY <1>1, <1>2, Zenon
<1>4. \A y \in S : x <= y
  BY <1>3
<1> QED BY <1>4 DEF Min

(* find_network_newline() finds the first segment with a CRLF. *)
LEMMA NewlineProperty ==
  ASSUME NEW b \in Seq(Segments)
  PROVE  /\ find_network_newline(b) \in 0 .. Len(b)
         /\ find_network_newline(b) = 0 <=> \A i \in 1 .. Len(b) : b[i].kind = "part"
         /\ find_network_newline(b) # 0 =>
              /\ b[find_network_newline(b)].kind # "part"
              /\ \A i \in 1 .. find_network_newline(b) - 1 : b[i].kind = "part"
<1> DEFINE I == {i \in 1 .. Len(b) : b[i].kind # "part"}
<1>1. find_network_newline(b) = IF I # {} THEN Min(I) ELSE 0
  BY DEF find_network_newline, SelectInSeq
<1>2. I \in SUBSET Nat BY LenProperties
<1>3. I # {} => Min(I) \in I /\ \A y \in I : Min(I) <= y
  BY <1>2, MinProperty
<1>4. Len(b) \in Nat BY LenProperties
<1> HIDE DEF I
<1>5. CASE I = {}
  BY <1>1, <1>4, <1>5 DEF I
<1>6. CASE I # {}
  <2>1. find_network_newline(b) \in I /\ \A y \in I : find_network_newline(b) <= y
    BY <1>1, <1>3, <1>6
  <2> HIDE DEF find_network_newline
  <2>2. find_network_newline(b) \in 1 .. Len(b) /\ b[find_network_newline(b)].kind # "part"
    BY <2>1 DEF I
  <2>3. \A i \in 1 .. find_network_newline(b) - 1 : b[i].kind = "part"
    BY <2>1, <2>2, <1>4 DEF I
  <2> QED BY <2>2, <2>3, <1>4
<1> QED BY <1>5, <1>6

(* What is left of a sequence without its first k elements. *)
LEMMA DropProperty ==
  ASSUME NEW S, NEW s \in Seq(S), NEW k \in Nat, k <= Len(s)
  PROVE  LET rest == SubSeq(s, k + 1, Len(s)) IN
         /\ rest \in Seq(S) /\ Len(rest) = Len(s) - k /\ DOMAIN rest = 1 .. Len(s) - k
         /\ \A i \in 1 .. Len(s) - k : rest[i] = s[k + i]
<1> DEFINE rest == SubSeq(s, k + 1, Len(s))
<1>1. Len(s) \in Nat BY LenProperties
<1>2. \A i \in k + 1 .. Len(s) : s[i] \in S BY <1>1, ElementOfSeq
<1>3. /\ rest \in Seq(S)
      /\ Len(rest) = IF k + 1 <= Len(s) THEN Len(s) - (k + 1) + 1 ELSE 0
      /\ \A i \in 1 .. Len(s) - (k + 1) + 1 : rest[i] = s[(k + 1) + i - 1]
  BY <1>1, <1>2, SubSeqProperties
<1> HIDE DEF rest
<1>4. Len(rest) = Len(s) - k BY <1>1, <1>3
<1>5. DOMAIN rest = 1 .. Len(s) - k BY <1>3, <1>4, LenProperties
<1>6. ASSUME NEW i \in 1 .. Len(s) - k PROVE rest[i] = s[k + i]
  <2>1. i \in 1 .. Len(s) - (k + 1) + 1 /\ (k + 1) + i - 1 = k + i BY <1>1
  <2> QED BY <1>3, <2>1
<1> QED BY <1>3, <1>4, <1>5, <1>6 DEF rest

(* The list without one of its nodes. *)
LEMMA RemoveAtProperty ==
  ASSUME NEW S, NEW s \in Seq(S), NEW i \in 1 .. Len(s)
  PROVE  /\ RemoveAt(s, i) \in Seq(S)
         /\ Len(RemoveAt(s, i)) = Len(s) - 1
         /\ \A j \in 1 .. Len(s) - 1 :
              RemoveAt(s, i)[j] = IF j < i THEN s[j] ELSE s[j + 1]
<1> DEFINE a == SubSeq(s, 1, i - 1)  b == SubSeq(s, i + 1, Len(s))
<1>1. Len(s) \in Nat BY LenProperties
<1>2. /\ a \in Seq(S) /\ Len(a) = i - 1
      /\ \A j \in 1 .. i - 1 : a[j] = s[j]
  <2>1. \A j \in 1 .. i - 1 : s[j] \in S BY <1>1, ElementOfSeq
  <2> QED BY <1>1, <2>1, SubSeqProperties
<1>3. /\ b \in Seq(S) /\ Len(b) = Len(s) - i
      /\ \A j \in 1 .. Len(s) - i : b[j] = s[i + j]
  <2>1. \A j \in i + 1 .. Len(s) : s[j] \in S BY <1>1, ElementOfSeq
  <2> QED BY <1>1, <2>1, SubSeqProperties
<1> HIDE DEF a, b
<1>4. /\ a \o b \in Seq(S) /\ Len(a \o b) = Len(s) - 1
      /\ \A j \in 1 .. Len(s) - 1 : (a \o b)[j] = IF j <= i - 1 THEN a[j] ELSE b[j - (i - 1)]
  <2>1. Len(a) + Len(b) = Len(s) - 1 BY <1>1, <1>2, <1>3
  <2>2. /\ a \o b \in Seq(S) /\ Len(a \o b) = Len(a) + Len(b)
        /\ \A j \in 1 .. Len(a) + Len(b) : (a \o b)[j] = IF j <= Len(a) THEN a[j] ELSE b[j - Len(a)]
    BY <1>2, <1>3, ConcatProperties
  <2> QED BY <1>2, <2>1, <2>2
<1>5. ASSUME NEW j \in 1 .. Len(s) - 1
      PROVE (a \o b)[j] = IF j < i THEN s[j] ELSE s[j + 1]
  <2>1. CASE j < i BY <2>1, <1>1, <1>2, <1>4
  <2>2. CASE ~(j < i)
    <3>1. j - (i - 1) \in 1 .. Len(s) - i /\ i + (j - (i - 1)) = j + 1 BY <2>2, <1>1
    <3> QED BY <2>2, <3>1, <1>1, <1>3, <1>4
  <2> QED BY <2>1, <2>2
<1>6. RemoveAt(s, i) = a \o b BY DEF RemoveAt, a, b
<1> QED BY <1>4, <1>5, <1>6

(* The lists and sets of clients after one of the list operations. *)
LEMMA RemoveMember ==
  ASSUME NEW S, NEW s \in Seq(S), NEW i \in 1 .. Len(s), IsInjective(s)
  PROVE  /\ ToSet(RemoveAt(s, i)) = ToSet(s) \ {s[i]}
         /\ IsInjective(RemoveAt(s, i))
<1> DEFINE r == RemoveAt(s, i)
<1>1. /\ r \in Seq(S) /\ Len(r) = Len(s) - 1
      /\ \A j \in 1 .. Len(s) - 1 : r[j] = IF j < i THEN s[j] ELSE s[j + 1]
  BY RemoveAtProperty
<1> HIDE DEF r
<1>2. /\ Len(s) \in Nat /\ DOMAIN s = 1 .. Len(s) /\ DOMAIN r = 1 .. Len(s) - 1
  BY <1>1, LenProperties
<1>3. \A j, k \in 1 .. Len(s) : s[j] = s[k] => j = k
  BY <1>2 DEF IsInjective
<1>4. IsInjective(r)
  BY <1>1, <1>2, <1>3 DEF IsInjective
<1>5. ASSUME NEW x \in ToSet(r) PROVE x \in ToSet(s) /\ x # s[i]
  <2>1. PICK j \in 1 .. Len(s) - 1 : x = r[j] BY <1>2 DEF ToSet
  <2>2. CASE j < i BY <2>1, <2>2, <1>1, <1>2, <1>3 DEF ToSet
  <2>3. CASE ~(j < i)
    <3>1. j + 1 \in 1 .. Len(s) /\ j + 1 # i BY <2>3, <1>2
    <3> QED BY <2>1, <2>3, <3>1, <1>1, <1>2, <1>3 DEF ToSet
  <2> QED BY <2>2, <2>3
<1>6. ASSUME NEW x \in ToSet(s), x # s[i] PROVE x \in ToSet(r)
  <2>1. PICK j \in 1 .. Len(s) : x = s[j] BY <1>2 DEF ToSet
  <2>2. CASE j < i
    <3>1. j \in 1 .. Len(s) - 1 /\ r[j] = x BY <2>1, <2>2, <1>1, <1>2
    <3> QED BY <3>1, <1>2 DEF ToSet
  <2>3. CASE j > i
    <3>1. j - 1 \in 1 .. Len(s) - 1 /\ r[j - 1] = x BY <2>1, <2>3, <1>1, <1>2
    <3> QED BY <3>1, <1>2 DEF ToSet
  <2> QED BY <1>6, <2>1, <2>2, <2>3, <1>2
<1> QED BY <1>4, <1>5, <1>6 DEF r

LEMMA AppendMember ==
  ASSUME NEW S, NEW s \in Seq(S), NEW x \in S
  PROVE  /\ Append(s, x) \in Seq(S) /\ Len(Append(s, x)) = Len(s) + 1
         /\ ToSet(Append(s, x)) = ToSet(s) \cup {x}
         /\ IsInjective(s) /\ x \notin ToSet(s) => IsInjective(Append(s, x))
<1> DEFINE r == Append(s, x)
<1>1. /\ r \in Seq(S) /\ Len(r) = Len(s) + 1 /\ r[Len(s) + 1] = x
      /\ \A j \in 1 .. Len(s) : r[j] = s[j]
  BY AppendProperties
<1> HIDE DEF r
<1>2. /\ Len(s) \in Nat /\ DOMAIN s = 1 .. Len(s) /\ DOMAIN r = 1 .. Len(s) + 1
  BY <1>1, LenProperties
<1>3. ToSet(r) = ToSet(s) \cup {x}
  BY <1>1, <1>2 DEF ToSet
<1>4. IsInjective(s) /\ x \notin ToSet(s) => IsInjective(r)
  BY <1>1, <1>2 DEF ToSet, IsInjective
<1> QED BY <1>1, <1>3, <1>4 DEF r

LEMMA TailMember ==
  ASSUME NEW S, NEW s \in Seq(S), s # <<>>, IsInjective(s)
  PROVE  /\ Tail(s) \in Seq(S) /\ IsInjective(Tail(s))
         /\ Head(s) \in S /\ Head(s) \in ToSet(s)
         /\ ToSet(Tail(s)) = ToSet(s) \ {Head(s)}
<1> DEFINE r == Tail(s)
<1>1. /\ r \in Seq(S) /\ Len(r) = Len(s) - 1 /\ Head(s) = s[1]
      /\ \A j \in 1 .. Len(s) - 1 : r[j] = s[j + 1]
  BY HeadTailProperties
<1>2. Head(s) \in S BY HeadTailProperties
<1> HIDE DEF r
<1>3. /\ Len(s) \in Nat \ {0} /\ DOMAIN s = 1 .. Len(s) /\ DOMAIN r = 1 .. Len(s) - 1
  BY <1>1, LenProperties, EmptySeq
<1>4. \A j, k \in 1 .. Len(s) : s[j] = s[k] => j = k
  BY <1>3 DEF IsInjective
<1>5. IsInjective(r)
  BY <1>1, <1>3, <1>4 DEF IsInjective
<1>6. ASSUME NEW x \in ToSet(r) PROVE x \in ToSet(s) /\ x # s[1]
  <2>1. PICK j \in 1 .. Len(s) - 1 : x = r[j] BY <1>3 DEF ToSet
  <2>2. j + 1 \in 1 .. Len(s) /\ j + 1 # 1 /\ x = s[j + 1] BY <2>1, <1>1, <1>3
  <2> QED BY <2>2, <1>3, <1>4 DEF ToSet
<1>7. ASSUME NEW x \in ToSet(s), x # s[1] PROVE x \in ToSet(r)
  <2>1. PICK j \in 1 .. Len(s) : x = s[j] BY <1>3 DEF ToSet
  <2>2. j - 1 \in 1 .. Len(s) - 1 /\ r[j - 1] = x BY <1>7, <2>1, <1>1, <1>3
  <2> QED BY <2>2, <1>3 DEF ToSet
<1>8. s[1] \in ToSet(s) BY <1>3 DEF ToSet
<1> QED BY <1>1, <1>2, <1>5, <1>6, <1>7, <1>8 DEF r

---------------------------------------------------------------------------
(* The inductive invariant. *)

ListInv ==
  /\ all_fds = ToSet(clients) /\ IsInjective(clients)
  /\ \A c \in all_fds : conn[c] \notin {"none", "closed"}
  /\ Len(clients) <= client_connected

(* A connection enters the list from the backlog, and only once, with an   *)
(* empty buffer.                                                           *)
BacklogInv ==
  /\ IsInjective(backlog)
  /\ \A c \in ToSet(backlog) : c \notin all_fds /\ conn[c] \notin {"none", "closed"}
  /\ \A c \in Clients :
       conn[c] = "none" \/ c \in ToSet(backlog) => buf[c] = <<>> /\ got[c] = <<>>

(* While it broadcasts the server may have freed curr, but not dest. *)
CursorInv ==
  /\ pc \in {"read", "drain"} => curr \in all_fds
  /\ pc = "send" => curr \in Clients /\ (dest = NULL \/ dest \in all_fds)

NamesInv == NamesOK /\ \A c \in Clients : username[c] <= client_id

NoNewline(b) == \A i \in 1 .. Len(b) : b[i].kind = "part"

(* Only the client that is being served has complete messages. *)
BufInv ==
  Alive => \A c \in all_fds : (pc \in {"drain", "send"} /\ c = curr) \/ NoNewline(buf[c])

IInv == TypeOK /\ ListInv /\ BacklogInv /\ CursorInv /\ NamesInv /\ BufInv

LEMMA InitIInv == Init => IInv
<1> SUFFICES ASSUME Init PROVE IInv OBVIOUS
<1>1. /\ <<>> \in Seq(Clients) /\ <<>> \in Seq(Segments) /\ <<>> \in Seq(Nat)
      /\ <<>> \in Seq(Clients \X Nat)
  BY EmptySeq
<1>2. TypeOK
  BY <1>1, BoundsAssumption DEF Init, TypeOK
<1>3. Len(<<>>) = 0 /\ DOMAIN <<>> = {} OBVIOUS
<1>4. ToSet(<<>>) = {} BY <1>3 DEF ToSet
<1>5. ListInv /\ BacklogInv /\ CursorInv /\ NamesInv /\ BufInv
  BY <1>3, <1>4 DEF Init, ListInv, BacklogInv, CursorInv, NamesInv, NamesOK, BufInv, IsInjective
<1> QED BY <1>2, <1>5 DEF IInv

(* IndexOf() finds a node of the list. *)
LEMMA IndexOfProperty ==
  ASSUME TypeOK, ListInv, NEW c \in all_fds
  PROVE  /\ IndexOf(c) \in 1 .. Len(clients) /\ clients[IndexOf(c)] = c
         /\ c \in Clients /\ InList(c) /\ Len(clients) \in Nat
         /\ \A i \in 1 .. Len(clients) : clients[i] = c => i = IndexOf(c)
         /\ next(c) = NULL \/ next(c) \in all_fds \ {c}
<1>1. Len(clients) \in Nat /\ DOMAIN clients = 1 .. Len(clients)
  BY LenProperties DEF TypeOK
<1>2. \E i \in DOMAIN clients : clients[i] = c
  BY DEF ListInv, ToSet
<1>3. IndexOf(c) \in DOMAIN clients /\ clients[IndexOf(c)] = c
  BY <1>2 DEF IndexOf
<1>4. \A i \in 1 .. Len(clients) : clients[i] = c => i = IndexOf(c)
  BY <1>1, <1>3 DEF ListInv, IsInjective
<1>5. InList(c) BY <1>1, <1>3 DEF InList, Contains
<1>6. c \in Clients BY DEF TypeOK
<1>7. next(c) = NULL \/ next(c) \in all_fds \ {c}
  <2>1. CASE IndexOf(c) = Len(clients) BY <2>1 DEF next
  <2>2. CASE IndexOf(c) # Len(clients)
    <3> HIDE DEF IndexOf
    <3>1. IndexOf(c) + 1 \in 1 .. Len(clients) BY <2>2, <1>1, <1>3
    <3>2. clients[IndexOf(c) + 1] # c BY <3>1, <1>1, <1>3, <1>4
    <3>3. next(c) = clients[IndexOf(c) + 1] BY <2>2 DEF next
    <3> QED BY <3>1, <3>2, <3>3, <1>1 DEF ListInv, ToSet
  <2> QED BY <2>1, <2>2
<1> QED BY <1>1, <1>3, <1>4, <1>5, <1>6, <1>7

LEMMA InListProperty ==
  ASSUME TypeOK, ListInv, NEW c
  PROVE  InList(c) <=> c \in all_fds
<1>1. Len(clients) \in Nat /\ DOMAIN clients = 1 .. Len(clients)
  BY LenProperties DEF TypeOK
<1> QED BY <1>1 DEF ListInv, InList, Contains, ToSet

LEMMA FirstAhead ==
  ASSUME NEW list \in Seq(Clients), NEW watched,
         NEW ahead \in SUBSET (1 .. Len(list)), ahead # {}, \A j \in ahead : list[j] \in watched
  PROVE  list[Min(ahead)] \in ToSet(list) /\ list[Min(ahead)] \in watched
<1>1. Len(list) \in Nat /\ DOMAIN list = 1 .. Len(list) BY LenProperties
<1>2. ahead \in SUBSET Nat BY <1>1
<1>3. Min(ahead) \in ahead BY <1>2, MinProperty
<1>4. Min(ahead) \in 1 .. Len(list) /\ list[Min(ahead)] \in watched BY <1>1, <1>3
<1> QED BY <1>1, <1>4 DEF ToSet

LEMMA ProceedProperty ==
  ASSUME NEW list \in Seq(Clients), NEW watched \in SUBSET Clients, NEW i \in Nat \ {0},
         Proceed(list, watched, i)
  PROVE  \/ pc' = "select" /\ curr' = NULL /\ listen_fds' = {}
         \/ /\ pc' = "read" /\ curr' \in ToSet(list) /\ curr' \in watched
            /\ listen_fds' = watched
<1> DEFINE ahead == {j \in i .. Len(list) : list[j] \in watched}
<1>1. CASE ahead = {} BY <1>1 DEF Proceed
<1>2. CASE ahead # {}
  <2>1. pc' = "read" /\ curr' = list[Min(ahead)] /\ listen_fds' = watched BY <1>2 DEF Proceed
  <2>2. list[Min(ahead)] \in ToSet(list) /\ list[Min(ahead)] \in watched
    <3>1. ahead \in SUBSET (1 .. Len(list)) /\ \A j \in ahead : list[j] \in watched
      BY LenProperties
    <3> QED BY <1>2, <3>1, FirstAhead
  <2> QED BY <2>1, <2>2
<1> QED BY <1>1, <1>2

(* The same for the list as an earlier part of the step has left it. *)
LEMMA ProceedPrimed ==
  ASSUME clients' \in Seq(Clients), NEW watched \in SUBSET Clients, NEW i \in Nat \ {0},
         Proceed(clients', watched, i)
  PROVE  \/ pc' = "select" /\ curr' = NULL /\ listen_fds' = {}
         \/ /\ pc' = "read" /\ curr' \in ToSet(clients') /\ curr' \in watched
            /\ listen_fds' = watched
<1>1. PICK list \in Seq(Clients) : list = clients' OBVIOUS
<1> DEFINE ahead == {j \in i .. Len(list) : list[j] \in watched}
<1>2. IF ahead = {}
      THEN pc' = "select" /\ curr' = NULL /\ listen_fds' = {}
      ELSE pc' = "read" /\ curr' = list[Min(ahead)] /\ listen_fds' = watched
  BY <1>1 DEF Proceed
<1>3. ahead # {} => list[Min(ahead)] \in ToSet(list) /\ list[Min(ahead)] \in watched
  <2>1. ahead \in SUBSET (1 .. Len(list)) /\ \A j \in ahead : list[j] \in watched
    BY LenProperties
  <2> HIDE DEF ahead
  <2> QED BY <2>1, FirstAhead
<1> HIDE DEF ahead
<1> QED BY <1>1, <1>2, <1>3

---------------------------------------------------------------------------
(* One lemma per action. *)

LEMMA SelectPreserves == ASSUME IInv, Select PROVE IInv'
<1> DEFINE watched == {c \in all_fds : Readable(c)}
<1>1. /\ pc = "select" /\ Proceed(clients', watched, 1)
      /\ UNCHANGED <<username, buf, client_id, dest, conn, in, unread, sent, log, got>>
  BY DEF Select
<1>2. watched \in SUBSET Clients BY DEF IInv, TypeOK
<1> HIDE DEF watched
<1>3. /\ clients' \in Seq(Clients) /\ backlog' \in Seq(Clients)
      /\ client_connected' \in Nat /\ joined' \in [Clients -> Nat]
      /\ all_fds' \subseteq Clients /\ ListInv' /\ BacklogInv' /\ BufInv'
  <2>0. \A c \in all_fds : NoNewline(buf[c]) BY <1>1 DEF IInv, BufInv, Alive
  <2>1. CASE backlog # <<>> /\ accept_connection(Head(backlog))
    <3> DEFINE c == Head(backlog)
    <3>1. /\ Tail(backlog) \in Seq(Clients) /\ IsInjective(Tail(backlog))
          /\ c \in Clients /\ c \in ToSet(backlog)
          /\ ToSet(Tail(backlog)) = ToSet(backlog) \ {c}
      BY <2>1, TailMember DEF IInv, TypeOK, BacklogInv
    <3>2. /\ backlog' = Tail(backlog) /\ clients' = Append(clients, c)
          /\ all_fds' = all_fds \cup {c} /\ client_connected' = client_connected + 1
          /\ joined' = [joined EXCEPT ![c] = Len(log)]
      BY <2>1 DEF accept_connection
    <3> HIDE DEF c
    <3>3. c \notin all_fds /\ conn[c] \notin {"none", "closed"} /\ buf[c] = <<>>
      BY <3>1 DEF IInv, BacklogInv
    <3>4. /\ clients' \in Seq(Clients) /\ Len(clients') = Len(clients) + 1
          /\ ToSet(clients') = ToSet(clients) \cup {c} /\ IsInjective(clients')
      <4>1. clients \in Seq(Clients) /\ c \notin ToSet(clients) /\ IsInjective(clients)
        BY <3>3 DEF IInv, TypeOK, ListInv
      <4> QED BY <3>1, <3>2, <4>1, AppendMember
    <3>5. Len(clients) \in Nat /\ Len(log) \in Nat BY LenProperties DEF IInv, TypeOK
    <3>6. ListInv' BY <1>1, <3>2, <3>3, <3>4, <3>5 DEF IInv, TypeOK, ListInv
    <3>7. BacklogInv' BY <1>1, <3>1, <3>2 DEF IInv, BacklogInv
    <3>8. NoNewline(buf[c]) BY <3>3 DEF NoNewline
    <3>9. BufInv' BY <1>1, <2>0, <3>2, <3>8 DEF BufInv, NoNewline
    <3>10. client_connected' \in Nat /\ joined' \in [Clients -> Nat] /\ all_fds' \subseteq Clients
      <4>1. client_connected \in Nat /\ joined \in [Clients -> Nat] /\ all_fds \subseteq Clients
        BY DEF IInv, TypeOK
      <4> QED BY <3>1, <3>2, <3>5, <4>1
    <3> QED BY <3>1, <3>2, <3>4, <3>6, <3>7, <3>9, <3>10
  <2>2. CASE UNCHANGED <<backlog, clients, all_fds, client_connected, joined>>
    BY <1>1, <2>0, <2>2 DEF IInv, TypeOK, ListInv, BacklogInv, BufInv, NoNewline
  <2> QED BY <2>1, <2>2 DEF Select
<1>4. \/ pc' = "select" /\ curr' = NULL /\ listen_fds' = {}
      \/ /\ pc' = "read" /\ curr' \in ToSet(clients') /\ curr' \in watched
         /\ listen_fds' = watched
  <2>1. clients' \in Seq(Clients) BY <1>3
  <2>2. PICK i \in Nat \ {0} : i = 1 OBVIOUS
  <2>3. Proceed(clients', watched, i) BY <1>1, <2>2
  <2> QED BY <1>2, <2>1, <2>3, ProceedPrimed
<1>5. TypeOK' BY <1>1, <1>2, <1>3, <1>4 DEF IInv, TypeOK
<1>6. CursorInv' BY <1>3, <1>4 DEF CursorInv, ListInv
<1>7. NamesInv' BY <1>1, <1>4 DEF IInv, NamesInv, NamesOK
<1> QED BY <1>3, <1>5, <1>6, <1>7 DEF IInv

(* The buffers of the other clients have no complete message. *)
LEMMA ReadBytesPreserves == ASSUME IInv, ReadBytes PROVE IInv'
<1>1. /\ pc = "read" /\ curr \in all_fds /\ curr \in Clients
      /\ UNCHANGED <<clients, client_connected, all_fds, dest, conn, backlog, unread, sent,
                     history>>
  BY DEF ReadBytes, IInv, TypeOK, CursorInv
<1>2. PICK k \in 1 .. Len(in[curr]) :
        LET newbuf == buf[curr] \o SubSeq(in[curr], 1, k) IN
          /\ buf' = [buf EXCEPT ![curr] = newbuf]
          /\ in' = [in EXCEPT ![curr] = SubSeq(@, k + 1, Len(@))]
          /\ \/ /\ find_network_newline(newbuf) # 0
                /\ set_username(curr)
                /\ pc' = "drain"
                /\ UNCHANGED <<curr, listen_fds>>
             \/ /\ find_network_newline(newbuf) = 0
                /\ Proceed(clients, listen_fds, IndexOf(curr) + 1)
                /\ UNCHANGED <<client_id, username>>
  BY DEF ReadBytes
<1> DEFINE newbuf == buf[curr] \o SubSeq(in[curr], 1, k)
           rest == SubSeq(in[curr], k + 1, Len(in[curr]))
<1>3. newbuf \in Seq(Segments) /\ rest \in Seq(Segments)
  <2>1. in[curr] \in Seq(Segments) /\ buf[curr] \in Seq(Segments) BY <1>1 DEF IInv, TypeOK
  <2>2. Len(in[curr]) \in Nat BY <2>1, LenProperties
  <2>3. \A i \in 1 .. Len(in[curr]) : in[curr][i] \in Segments BY <2>1, ElementOfSeq
  <2>4. SubSeq(in[curr], 1, k) \in Seq(Segments) BY <2>2, <2>3, SubSeqProperties
  <2>5. rest \in Seq(Segments) BY <2>2, <2>3, SubSeqProperties
  <2> QED BY <2>1, <2>4, <2>5, ConcatProperties
<1>4. buf' = [buf EXCEPT ![curr] = newbuf] /\ in' = [in EXCEPT ![curr] = rest]
  BY <1>2
<1>5. /\ IndexOf(curr) + 1 \in Nat \ {0} /\ clients \in Seq(Clients)
      /\ listen_fds \in SUBSET Clients
  <2>1. TypeOK /\ ListInv BY DEF IInv
  <2>2. IndexOf(curr) \in 1 .. Len(clients) BY <1>1, <2>1, IndexOfProperty
  <2>3. clients \in Seq(Clients) /\ listen_fds \in SUBSET Clients BY <2>1 DEF TypeOK
  <2> QED BY <2>2, <2>3
<1>6. find_network_newline(newbuf) = 0 <=> NoNewline(newbuf)
  BY <1>3, NewlineProperty DEF NoNewline
<1>7. \A c \in all_fds : c # curr => NoNewline(buf[c])
  BY <1>1 DEF IInv, BufInv, Alive
<1>8. \A c \in ToSet(backlog) : c # curr
  BY <1>1 DEF IInv, BacklogInv
<1>9. conn[curr] # "none" BY <1>1 DEF IInv, ListInv
<1>10. CASE /\ find_network_newline(newbuf) # 0
            /\ set_username(curr)
            /\ pc' = "drain"
            /\ UNCHANGED <<curr, listen_fds>>
  <2> HIDE DEF newbuf, rest
  <2>1. /\ client_id' \in Nat /\ username' \in [Clients -> Nat]
        /\ NamesInv'
    <3>1. /\ client_id \in Nat /\ username \in [Clients -> Nat] /\ curr \in Clients
          /\ curr' = curr
          /\ \A c \in Clients : username[c] <= client_id
          /\ \A c, d \in Clients : username[c] = username[d] /\ username[c] # 0 => c = d
      BY <1>1, <1>10 DEF IInv, TypeOK, NamesInv, NamesOK
    <3>2. CASE username[curr] = 0
      <4>1. client_id' = client_id + 1 /\ username' = [username EXCEPT ![curr] = client_id + 1]
        BY <1>10, <3>2 DEF set_username
      <4> QED BY <3>1, <4>1 DEF NamesInv, NamesOK
    <3>3. CASE username[curr] # 0
      <4>1. client_id' = client_id /\ username' = username
        BY <1>10, <3>3 DEF set_username
      <4> QED BY <3>1, <3>3, <4>1 DEF NamesInv, NamesOK
    <3> QED BY <3>2, <3>3
  <2>2. TypeOK' BY <1>1, <1>3, <1>4, <1>10, <2>1 DEF IInv, TypeOK, history
  <2>3. ListInv' /\ CursorInv' BY <1>1, <1>10 DEF IInv, ListInv, CursorInv
  <2>4. BacklogInv' BY <1>1, <1>4, <1>8, <1>9 DEF IInv, TypeOK, BacklogInv, history
  <2>5. BufInv' BY <1>1, <1>4, <1>7, <1>10 DEF IInv, TypeOK, BufInv, NoNewline
  <2> QED BY <2>1, <2>2, <2>3, <2>4, <2>5 DEF IInv
<1>11. CASE /\ find_network_newline(newbuf) = 0
            /\ Proceed(clients, listen_fds, IndexOf(curr) + 1)
            /\ UNCHANGED <<client_id, username>>
  <2> HIDE DEF newbuf, rest
  <2>1. \/ pc' = "select" /\ curr' = NULL /\ listen_fds' = {}
        \/ /\ pc' = "read" /\ curr' \in ToSet(clients) /\ curr' \in listen_fds
           /\ listen_fds' = listen_fds
    BY <1>5, <1>11, ProceedProperty
  <2>2. TypeOK' BY <1>1, <1>3, <1>4, <1>5, <1>11, <2>1 DEF IInv, TypeOK, history
  <2>3. ListInv' /\ CursorInv' BY <1>1, <2>1 DEF IInv, ListInv, CursorInv
  <2>4. BacklogInv' BY <1>1, <1>4, <1>8, <1>9 DEF IInv, TypeOK, BacklogInv, history
  <2>5. NamesInv' BY <1>11, <2>1 DEF IInv, NamesInv, NamesOK
  <2>6. BufInv'
    <3>1. \A c \in all_fds : NoNewline(buf'[c])
      BY <1>1, <1>4, <1>6, <1>7, <1>11 DEF IInv, TypeOK
    <3> QED BY <1>1, <3>1 DEF BufInv, NoNewline
  <2> QED BY <2>2, <2>3, <2>4, <2>5, <2>6 DEF IInv
<1> QED BY <1>2, <1>10, <1>11

LEMMA BacklogClients == ASSUME TypeOK PROVE \A c \in ToSet(backlog) : c \in Clients
BY ElementOfSeq, LenProperties DEF TypeOK, ToSet

LEMMA DisconnectPreserves == ASSUME IInv, Disconnect PROVE IInv'
<1>1. /\ pc = "read" /\ curr \in all_fds /\ curr \in Clients
      /\ conn' = [conn EXCEPT ![curr] = "closed"] /\ all_fds' = all_fds \ {curr}
      /\ client_connected' = client_connected - 1
      /\ clients' = RemoveAt(clients, IndexOf(curr))
      /\ Proceed(clients', listen_fds, IndexOf(curr))
      /\ UNCHANGED <<username, buf, client_id, dest, backlog, in, unread, sent, history>>
  BY DEF Disconnect, CloseFd, remove_client, IInv, TypeOK, CursorInv
<1>2. TypeOK /\ ListInv BY DEF IInv
<1>3. IndexOf(curr) \in 1 .. Len(clients) /\ clients[IndexOf(curr)] = curr /\ Len(clients) \in Nat
  BY <1>1, <1>2, IndexOfProperty
<1>4. clients \in Seq(Clients) /\ IsInjective(clients) /\ listen_fds \in SUBSET Clients
  BY <1>2 DEF TypeOK, ListInv
<1>5. /\ clients' \in Seq(Clients) /\ Len(clients') = Len(clients) - 1
      /\ ToSet(clients') = ToSet(clients) \ {curr} /\ IsInjective(clients')
  BY <1>1, <1>3, <1>4, RemoveAtProperty, RemoveMember
<1>6. \/ pc' = "select" /\ curr' = NULL /\ listen_fds' = {}
      \/ /\ pc' = "read" /\ curr' \in ToSet(clients') /\ curr' \in listen_fds
         /\ listen_fds' = listen_fds
  <2>1. IndexOf(curr) \in Nat \ {0} BY <1>3
  <2> QED BY <1>1, <1>4, <1>5, <2>1, ProceedPrimed
<1>7. ListInv'
  <2>1. all_fds' = ToSet(clients') BY <1>1, <1>2, <1>5 DEF ListInv
  <2>2. \A c \in all_fds' : conn'[c] \notin {"none", "closed"}
    <3>1. conn \in [Clients -> {"none", "open", "fin", "reset", "closed"}] BY <1>2 DEF TypeOK
    <3> QED BY <1>1, <1>2, <3>1 DEF TypeOK, ListInv
  <2>3. Len(clients') <= client_connected'
    <3>1. client_connected \in Nat /\ Len(clients) <= client_connected
      BY <1>2 DEF TypeOK, ListInv
    <3> QED BY <1>1, <1>3, <1>5, <3>1
  <2> QED BY <1>5, <2>1, <2>2, <2>3 DEF ListInv
<1>8. TypeOK'
  <2>1. client_connected' \in Nat BY <1>1, <1>2, <1>3 DEF TypeOK, ListInv
  <2> QED BY <1>1, <1>2, <1>5, <1>6, <2>1 DEF TypeOK, history
<1>9. CursorInv' BY <1>6, <1>7 DEF CursorInv, ListInv
<1>10. BacklogInv'
  <2>1. \A c \in Clients : conn'[c] = IF c = curr THEN "closed" ELSE conn[c]
    BY <1>1, <1>2 DEF TypeOK
  <2>2. BacklogInv /\ \A c \in ToSet(backlog) : c \in Clients
    BY <1>2, BacklogClients DEF IInv
  <2>3. \A c \in ToSet(backlog) : c # curr BY <1>1, <2>2 DEF BacklogInv
  <2>4. backlog' = backlog /\ buf' = buf /\ got' = got /\ all_fds' \subseteq all_fds
    BY <1>1 DEF history
  <2>5. \A c \in ToSet(backlog) : c \notin all_fds' /\ conn'[c] \notin {"none", "closed"}
    BY <2>1, <2>2, <2>3, <2>4 DEF BacklogInv
  <2>6. \A c \in Clients :
          conn'[c] = "none" \/ c \in ToSet(backlog) => buf'[c] = <<>> /\ got'[c] = <<>>
    BY <2>1, <2>2, <2>4 DEF BacklogInv
  <2> QED BY <2>2, <2>4, <2>5, <2>6 DEF BacklogInv
<1>11. NamesInv' BY <1>1, <1>6 DEF IInv, NamesInv, NamesOK
<1>12. BufInv' BY <1>1 DEF IInv, BufInv, Alive, NoNewline
<1> QED BY <1>7, <1>8, <1>9, <1>10, <1>11, <1>12 DEF IInv

LEMMA DrainEndsPreserves == ASSUME IInv, DrainEnds PROVE IInv'
<1>1. /\ pc = "drain" /\ curr \in all_fds /\ curr \in Clients
      /\ find_network_newline(buf[curr]) = 0
      /\ Proceed(clients, listen_fds, IndexOf(curr) + 1)
      /\ UNCHANGED <<clients, username, buf, client_id, client_connected, all_fds, dest, peers,
                     history>>
  BY DEF DrainEnds, IInv, TypeOK, CursorInv
<1>2. TypeOK /\ ListInv BY DEF IInv
<1>3. IndexOf(curr) + 1 \in Nat \ {0}
  <2>1. IndexOf(curr) \in 1 .. Len(clients) BY <1>1, <1>2, IndexOfProperty
  <2> QED BY <2>1
<1>4. clients \in Seq(Clients) /\ listen_fds \in SUBSET Clients
  BY <1>2 DEF TypeOK
<1>5. \/ pc' = "select" /\ curr' = NULL /\ listen_fds' = {}
      \/ /\ pc' = "read" /\ curr' \in ToSet(clients) /\ curr' \in listen_fds
         /\ listen_fds' = listen_fds
  BY <1>1, <1>3, <1>4, ProceedProperty
<1>6. TypeOK' BY <1>1, <1>2, <1>5 DEF TypeOK, peers, history
<1>7. ListInv' /\ CursorInv' BY <1>1, <1>2, <1>5 DEF ListInv, CursorInv, peers
<1>8. BacklogInv' BY <1>1 DEF IInv, BacklogInv, peers, history
<1>9. NamesInv' BY <1>1, <1>5 DEF IInv, NamesInv, NamesOK
<1>10. BufInv'
  <2>1. buf[curr] \in Seq(Segments) BY <1>1, <1>2 DEF TypeOK
  <2>2. NoNewline(buf[curr]) BY <1>1, <2>1, NewlineProperty DEF NoNewline
  <2> QED BY <1>1, <1>5, <2>2 DEF IInv, BufInv, Alive, NoNewline
<1> QED BY <1>6, <1>7, <1>8, <1>9, <1>10 DEF IInv

(* get_message() takes the first complete message and what stands before   *)
(* it.                                                                     *)
LEMMA GetMessageProperty ==
  ASSUME TypeOK, curr \in Clients, get_message
  PROVE  \E k \in 1 .. Len(buf[curr]) :
           /\ buf' = [buf EXCEPT ![curr] = SubSeq(buf[curr], k + 1, Len(buf[curr]))]
           /\ SubSeq(buf[curr], k + 1, Len(buf[curr])) \in Seq(Segments)
           /\ Message = buf[curr][k] /\ buf[curr][k] \in Segments
           /\ \A i \in 1 .. k - 1 : buf[curr][i].kind = "part"
<1> DEFINE b == buf[curr]  k == find_network_newline(b)
<1>1. b \in Seq(Segments) BY DEF TypeOK
<1>2. Len(b) \in Nat /\ \A i \in 1 .. Len(b) : b[i] \in Segments
  BY <1>1, LenProperties, ElementOfSeq
<1>3. /\ k \in 0 .. Len(b)
      /\ k # 0 => \A i \in 1 .. k - 1 : b[i].kind = "part"
  BY <1>1, NewlineProperty
<1>4. k # 0 /\ buf' = [buf EXCEPT ![curr] = SubSeq(b, k + 1, Len(b))]
  BY DEF get_message
<1>5. Message = b[k] BY DEF Message
<1> HIDE DEF k, b
<1>6. SubSeq(b, k + 1, Len(b)) \in Seq(Segments)
  <2>1. \A i \in k + 1 .. Len(b) : b[i] \in Segments BY <1>2, <1>3
  <2> QED BY <1>2, <1>3, <2>1, SubSeqProperties
<1>7. k \in 1 .. Len(b) BY <1>2, <1>3, <1>4
<1>8. \E m \in 1 .. Len(b) :
        /\ buf' = [buf EXCEPT ![curr] = SubSeq(b, m + 1, Len(b))]
        /\ SubSeq(b, m + 1, Len(b)) \in Seq(Segments)
        /\ Message = b[m] /\ b[m] \in Segments
        /\ \A i \in 1 .. m - 1 : b[i].kind = "part"
  BY <1>2, <1>3, <1>4, <1>5, <1>6, <1>7
<1> QED BY <1>8 DEF b

(* A write changes one connection, and never opens or closes it. *)
LEMMA WriteProperty ==
  ASSUME TypeOK, NEW c \in Clients, CanWrite(c), WriteTo(c)
  PROVE  /\ conn[c] \in {"open", "fin"}
         /\ \E answer \in {"open", "fin", "reset"} :
              /\ conn' = [conn EXCEPT ![c] = answer]
              /\ answer = "open" <=> conn[c] = "open"
         /\ unread' \in [Clients -> 0 .. SockCap]
<1>1. /\ conn[c] \in {"open", "fin"}
      /\ \E answer \in {"open", "fin", "reset"} :
           /\ conn' = [conn EXCEPT ![c] = answer]
           /\ answer = "open" <=> conn[c] = "open"
  BY DEF CanWrite, WriteTo
<1>2. unread \in [Clients -> 0 .. SockCap] /\ SockCap \in Nat
  BY BoundsAssumption DEF TypeOK
<1>3. conn[c] = "open" => unread[c] < SockCap
  BY DEF CanWrite
<1>4. unread' \in [Clients -> 0 .. SockCap]
  BY <1>2, <1>3 DEF WriteTo
<1> QED BY <1>1, <1>4

(* The three steps that begin with get_message(). *)
LEMMA MessagePreserves ==
  ASSUME IInv, pc = "drain", get_message,
         pc' \in {"drain", "send"}, dest' \in Clients \cup {NULL},
         pc' = "send" => dest' = NULL \/ dest' \in all_fds,
         log' \in Seq(Clients \X Nat), unread' \in [Clients -> 0 .. SockCap],
         conn' \in [Clients -> {"none", "open", "fin", "reset", "closed"}],
         \A c \in Clients : conn'[c] = "none" <=> conn[c] = "none",
         \A c \in Clients : conn'[c] = "closed" <=> conn[c] = "closed",
         UNCHANGED <<clients, username, client_id, client_connected, all_fds, listen_fds, curr,
                     backlog, in, sent, joined, got>>
  PROVE  IInv'
<1>1. curr \in all_fds /\ curr \in Clients BY DEF IInv, TypeOK, CursorInv
<1>2. TypeOK BY DEF IInv
<1>3. PICK rest \in Seq(Segments) : buf' = [buf EXCEPT ![curr] = rest]
  BY <1>1, <1>2, GetMessageProperty
<1>4. TypeOK' BY <1>1, <1>2, <1>3 DEF TypeOK
<1>5. ListInv' BY <1>1, <1>2 DEF IInv, TypeOK, ListInv
<1>6. CursorInv' BY <1>1, <1>2 DEF CursorInv, TypeOK
<1>7. NamesInv' BY DEF IInv, NamesInv, NamesOK
<1>8. BacklogInv'
  <2>1. curr \notin ToSet(backlog) /\ conn[curr] # "none" BY <1>1 DEF IInv, ListInv, BacklogInv
  <2>2. \A c \in ToSet(backlog) : c \in Clients
    BY <1>2, BacklogClients
  <2> QED BY <1>1, <1>2, <1>3, <2>1, <2>2 DEF IInv, TypeOK, BacklogInv
<1>9. BufInv' BY <1>1, <1>2, <1>3 DEF IInv, TypeOK, BufInv, Alive, NoNewline
<1> QED BY <1>4, <1>5, <1>6, <1>7, <1>8, <1>9 DEF IInv

LEMMA ReplyCountPreserves == ASSUME IInv, ReplyCount \/ ReplyInterrupted PROVE IInv'
<1> USE DEF peers, history
<1>1. /\ pc = "drain" /\ get_message
      /\ UNCHANGED <<pc, clients, username, client_id, client_connected, all_fds, listen_fds,
                     curr, dest, backlog, in, sent, history>>
  BY DEF ReplyCount, ReplyInterrupted
<1>2. curr \in Clients /\ TypeOK BY <1>1 DEF IInv, TypeOK, CursorInv
<1>3. CASE CanWrite(curr) /\ WriteTo(curr)
  <2>1. /\ conn[curr] \in {"open", "fin"} /\ unread' \in [Clients -> 0 .. SockCap]
        /\ \E answer \in {"open", "fin", "reset"} : conn' = [conn EXCEPT ![curr] = answer]
    BY <1>2, <1>3, WriteProperty
  <2>2. /\ conn' \in [Clients -> {"none", "open", "fin", "reset", "closed"}]
        /\ \A c \in Clients : conn'[c] = "none" <=> conn[c] = "none"
        /\ \A c \in Clients : conn'[c] = "closed" <=> conn[c] = "closed"
    BY <1>2, <2>1 DEF TypeOK
  <2>3. log \in Seq(Clients \X Nat) /\ dest \in Clients \cup {NULL} BY <1>2 DEF TypeOK
  <2> QED BY <1>1, <2>1, <2>2, <2>3, MessagePreserves
<1>4. CASE UNCHANGED <<conn, unread>>
  <2>1. /\ log \in Seq(Clients \X Nat) /\ dest \in Clients \cup {NULL}
        /\ conn' \in [Clients -> {"none", "open", "fin", "reset", "closed"}]
        /\ unread' \in [Clients -> 0 .. SockCap]
    BY <1>2, <1>4 DEF TypeOK
  <2> QED BY <1>1, <1>4, <2>1, MessagePreserves
<1> QED BY <1>3, <1>4 DEF ReplyCount, ReplyInterrupted

LEMMA StartBroadcastPreserves == ASSUME IInv, StartBroadcast PROVE IInv'
<1> USE DEF peers, history
<1>1. /\ pc = "drain" /\ get_message /\ log' = Append(log, <<curr, Message.n>>)
      /\ dest' = First(clients) /\ pc' = "send"
      /\ UNCHANGED <<clients, username, client_id, client_connected, all_fds, listen_fds, curr,
                     peers, joined, got>>
  BY DEF StartBroadcast
<1>2. curr \in Clients /\ TypeOK BY <1>1 DEF IInv, TypeOK, CursorInv
<1>3. log' \in Seq(Clients \X Nat)
  <2>1. Message \in Segments BY <1>1, <1>2, GetMessageProperty
  <2>2. <<curr, Message.n>> \in Clients \X Nat BY <1>2, <2>1 DEF Segments
  <2>3. log \in Seq(Clients \X Nat) BY <1>2 DEF TypeOK
  <2> QED BY <1>1, <2>2, <2>3, AppendProperties
<1>4. dest' = NULL \/ dest' \in all_fds
  <2>1. clients \in Seq(Clients) /\ IsInjective(clients) /\ all_fds = ToSet(clients)
    BY DEF IInv, TypeOK, ListInv
  <2> QED BY <1>1, <2>1, TailMember DEF First
<1>5. /\ conn' \in [Clients -> {"none", "open", "fin", "reset", "closed"}]
      /\ unread' \in [Clients -> 0 .. SockCap] /\ all_fds \subseteq Clients
  BY <1>1, <1>2 DEF TypeOK
<1> QED BY <1>1, <1>3, <1>4, <1>5, MessagePreserves

LEMMA SendToPreserves == ASSUME IInv, SendTo PROVE IInv'
<1>1. /\ pc = "send" /\ dest # NULL /\ CanWrite(dest) /\ WriteTo(dest) /\ dest' = next(dest)
      /\ got' = [got EXCEPT ![dest] = IF conn[dest] = "open" THEN Append(@, Len(log)) ELSE @]
      /\ UNCHANGED <<pc, clients, username, buf, client_id, client_connected, all_fds,
                     listen_fds, curr, backlog, in, sent, log, joined>>
  BY DEF SendTo, Sending
<1>2. TypeOK /\ ListInv /\ dest \in all_fds /\ dest \in Clients
  BY <1>1 DEF IInv, TypeOK, CursorInv
<1>3. dest' = NULL \/ dest' \in all_fds BY <1>1, <1>2, IndexOfProperty
<1>4. /\ conn[dest] \in {"open", "fin"} /\ unread' \in [Clients -> 0 .. SockCap]
      /\ \E answer \in {"open", "fin", "reset"} : conn' = [conn EXCEPT ![dest] = answer]
  BY <1>1, <1>2, WriteProperty
<1>5. got' \in [Clients -> Seq(Nat)]
  <2>1. got \in [Clients -> Seq(Nat)] /\ Len(log) \in Nat BY <1>2, LenProperties DEF TypeOK
  <2>2. Append(got[dest], Len(log)) \in Seq(Nat) BY <1>2, <2>1, AppendProperties
  <2> QED BY <1>1, <1>2, <2>1, <2>2
<1>6. conn' \in [Clients -> {"none", "open", "fin", "reset", "closed"}]
  BY <1>2, <1>4 DEF TypeOK
<1>7. TypeOK' BY <1>1, <1>2, <1>3, <1>4, <1>5, <1>6 DEF TypeOK
<1>8. ListInv' BY <1>1, <1>2, <1>4 DEF TypeOK, ListInv
<1>9. CursorInv' BY <1>1, <1>3 DEF IInv, CursorInv
<1>10. BacklogInv'
  <2>1. dest \notin ToSet(backlog) /\ conn[dest] # "none"
    BY <1>2 DEF IInv, ListInv, BacklogInv
  <2>2. \A c \in ToSet(backlog) : c \in Clients
    BY <1>2, BacklogClients
  <2> QED BY <1>1, <1>2, <1>4, <2>1, <2>2 DEF IInv, TypeOK, BacklogInv
<1>11. NamesInv' BY <1>1 DEF IInv, NamesInv, NamesOK
<1>12. BufInv' BY <1>1 DEF IInv, BufInv, Alive, NoNewline
<1> QED BY <1>7, <1>8, <1>9, <1>10, <1>11, <1>12 DEF IInv

LEMMA SendInterruptedPreserves == ASSUME IInv, SendInterrupted PROVE IInv'
<1>1. /\ pc = "send" /\ dest # NULL /\ Blocked(dest)
      /\ \/ pc' = "uaf" /\ UNCHANGED <<dest, got>>
         \/ /\ dest' = next(dest) /\ pc' = pc
            /\ got' = [got EXCEPT ![dest] = Append(@, Len(log))]
      /\ UNCHANGED <<clients, username, buf, client_id, client_connected, all_fds, listen_fds,
                     curr, peers, log, joined>>
  BY DEF SendInterrupted, Sending
<1>2. TypeOK /\ ListInv /\ dest \in all_fds /\ dest \in Clients
  BY <1>1 DEF IInv, TypeOK, CursorInv
<1>3. dest' = dest \/ dest' = NULL \/ dest' \in all_fds BY <1>1, <1>2, IndexOfProperty
<1>4. got' \in [Clients -> Seq(Nat)]
  <2>1. got \in [Clients -> Seq(Nat)] /\ Len(log) \in Nat BY <1>2, LenProperties DEF TypeOK
  <2>2. Append(got[dest], Len(log)) \in Seq(Nat) BY <1>2, <2>1, AppendProperties
  <2> QED BY <1>1, <1>2, <2>1, <2>2
<1>5. TypeOK' BY <1>1, <1>2, <1>3, <1>4 DEF TypeOK, peers
<1>6. ListInv' BY <1>1, <1>2 DEF ListInv, peers
<1>7. CursorInv' BY <1>1, <1>2, <1>3 DEF IInv, CursorInv
<1>8. BacklogInv'
  <2>1. dest \notin ToSet(backlog) /\ conn[dest] # "none"
    BY <1>2 DEF IInv, ListInv, BacklogInv
  <2> QED BY <1>1, <1>2, <2>1 DEF IInv, TypeOK, BacklogInv, peers
<1>9. NamesInv' BY <1>1 DEF IInv, NamesInv, NamesOK
<1>10. BufInv' BY <1>1 DEF IInv, BufInv, Alive, NoNewline
<1> QED BY <1>5, <1>6, <1>7, <1>8, <1>9, <1>10 DEF IInv

LEMMA SendFailsPreserves == ASSUME IInv, SendFails PROVE IInv'
<1>1. /\ pc = "send" /\ dest # NULL
      /\ UNCHANGED <<username, buf, client_id, client_connected, listen_fds, curr, backlog, in,
                     unread, sent, history>>
  BY DEF SendFails, Sending
<1>2. TypeOK /\ ListInv /\ dest \in all_fds /\ dest \in Clients
  BY <1>1 DEF IInv, TypeOK, CursorInv
<1>3. CASE pc' = "uaf" /\ UNCHANGED <<clients, all_fds, dest, conn>>
  <2>1. TypeOK' BY <1>1, <1>2, <1>3 DEF TypeOK, history
  <2>2. ListInv' /\ CursorInv' /\ BacklogInv' /\ NamesInv' /\ BufInv'
    BY <1>1, <1>3 DEF IInv, ListInv, CursorInv, BacklogInv, NamesInv, NamesOK, BufInv, Alive,
       history
  <2> QED BY <2>1, <2>2 DEF IInv
<1>4. CASE /\ CloseFd(dest) /\ remove_client(dest)
           /\ dest' = AfterRemoval(dest) /\ UNCHANGED pc
  <2>1. /\ conn' = [conn EXCEPT ![dest] = "closed"] /\ all_fds' = all_fds \ {dest}
        /\ clients' = RemoveAt(clients, IndexOf(dest)) /\ dest' = next(dest) /\ pc' = pc
    BY <1>4 DEF CloseFd, remove_client, AfterRemoval
  <2>2. /\ IndexOf(dest) \in 1 .. Len(clients) /\ clients[IndexOf(dest)] = dest
        /\ Len(clients) \in Nat /\ (dest' = NULL \/ dest' \in all_fds \ {dest})
    BY <1>2, <2>1, IndexOfProperty
  <2>3. clients \in Seq(Clients) /\ IsInjective(clients)
    BY <1>2 DEF TypeOK, ListInv
  <2>4. /\ clients' \in Seq(Clients) /\ Len(clients') = Len(clients) - 1
        /\ ToSet(clients') = ToSet(clients) \ {dest} /\ IsInjective(clients')
    BY <2>1, <2>2, <2>3, RemoveAtProperty, RemoveMember
  <2>5. ListInv'
    <3>1. client_connected \in Nat /\ all_fds \subseteq Clients
          /\ conn \in [Clients -> {"none", "open", "fin", "reset", "closed"}]
      BY <1>2 DEF TypeOK
    <3>2. client_connected' = client_connected BY <1>1
    <3> QED BY <1>2, <2>1, <2>2, <2>4, <3>1, <3>2 DEF ListInv
  <2>6. TypeOK' BY <1>1, <1>2, <2>1, <2>2, <2>4 DEF TypeOK, history
  <2>7. CursorInv' BY <1>1, <2>1, <2>2 DEF IInv, CursorInv
  <2>8. BacklogInv'
    <3>1. \A c \in ToSet(backlog) : c \in Clients /\ c # dest
      BY <1>2, BacklogClients DEF IInv, BacklogInv
    <3>2. conn \in [Clients -> {"none", "open", "fin", "reset", "closed"}] BY <1>2 DEF TypeOK
    <3>3. \A c \in Clients : c # dest => conn'[c] = conn[c] BY <2>1, <3>2
    <3>4. conn'[dest] = "closed" BY <1>2, <2>1, <3>2
    <3>5. UNCHANGED <<backlog, buf, got>> BY <1>1 DEF history
    <3> QED BY <2>1, <3>1, <3>3, <3>4, <3>5 DEF IInv, BacklogInv
  <2>9. NamesInv' BY <1>1, <2>1 DEF IInv, NamesInv, NamesOK
  <2>10. BufInv' BY <1>1, <2>1 DEF IInv, BufInv, Alive, NoNewline
  <2> QED BY <2>5, <2>6, <2>7, <2>8, <2>9, <2>10 DEF IInv
<1> QED BY <1>3, <1>4 DEF SendFails

LEMMA BroadcastEndsPreserves == ASSUME IInv, BroadcastEnds PROVE IInv'
<1>1. /\ pc = "send" /\ pc' = IF Freed(curr) THEN "uaf" ELSE "drain"
      /\ UNCHANGED <<clients, username, buf, client_id, client_connected, all_fds, listen_fds,
                     curr, dest, peers, history>>
  BY DEF BroadcastEnds
<1>2. TypeOK /\ ListInv BY DEF IInv
<1>3. pc' = "drain" => curr \in all_fds BY <1>1, <1>2, InListProperty DEF Freed
<1>4. TypeOK' BY <1>1, <1>2 DEF TypeOK, peers, history
<1>5. ListInv' /\ CursorInv' /\ BacklogInv'
  BY <1>1, <1>3 DEF IInv, ListInv, CursorInv, BacklogInv, peers, history
<1>6. NamesInv' /\ BufInv'
  BY <1>1 DEF IInv, NamesInv, NamesOK, BufInv, Alive, NoNewline
<1> QED BY <1>4, <1>5, <1>6 DEF IInv

LEMMA PeerPreserves == ASSUME IInv, NEW c \in Clients, Peer(c) PROVE IInv'
<1> USE DEF server, history
<1>1. TypeOK BY DEF IInv
<1>2. CASE PeerConnects(c)
  <2>1. /\ conn[c] = "none" /\ conn' = [conn EXCEPT ![c] = "open"]
        /\ backlog' = Append(backlog, c) /\ UNCHANGED <<server, in, unread, sent, history>>
    BY <1>2 DEF PeerConnects
  <2>2. c \notin ToSet(backlog) /\ c \notin all_fds BY <2>1 DEF IInv, ListInv, BacklogInv
  <2>3. /\ backlog' \in Seq(Clients) /\ IsInjective(backlog')
        /\ ToSet(backlog') = ToSet(backlog) \cup {c}
    <3>1. backlog \in Seq(Clients) /\ IsInjective(backlog) BY <1>1 DEF IInv, TypeOK, BacklogInv
    <3> QED BY <2>1, <2>2, <3>1, AppendMember
  <2>4. TypeOK' BY <1>1, <2>1, <2>3 DEF TypeOK
  <2>5. ListInv' /\ CursorInv' BY <1>1, <2>1 DEF IInv, TypeOK, ListInv, CursorInv
  <2>6. BacklogInv'
    <3>1. \A d \in ToSet(backlog) : d \in Clients BY <1>1, BacklogClients
    <3>2. conn \in [Clients -> {"none", "open", "fin", "reset", "closed"}] BY <1>1 DEF TypeOK
    <3>3. buf[c] = <<>> /\ got[c] = <<>> BY <2>1 DEF IInv, BacklogInv
    <3> QED BY <2>1, <2>2, <2>3, <3>1, <3>2, <3>3 DEF IInv, BacklogInv
  <2>7. NamesInv' /\ BufInv' BY <2>1 DEF IInv, NamesInv, NamesOK, BufInv, Alive, NoNewline
  <2> QED BY <2>4, <2>5, <2>6, <2>7 DEF IInv
<1>3. CASE PeerReads(c)
  <2>1. /\ unread[c] > 0 /\ unread' = [unread EXCEPT ![c] = @ - 1]
        /\ UNCHANGED <<server, conn, backlog, in, sent, history>>
    BY <1>3 DEF PeerReads
  <2>2. unread' \in [Clients -> 0 .. SockCap]
    <3>1. unread \in [Clients -> 0 .. SockCap] /\ SockCap \in Nat
      BY <1>1, BoundsAssumption DEF TypeOK
    <3> QED BY <2>1, <3>1
  <2>3. TypeOK' BY <1>1, <2>1, <2>2 DEF TypeOK
  <2> QED BY <2>1, <2>3 DEF IInv, ListInv, CursorInv, BacklogInv, NamesInv, NamesOK, BufInv,
          Alive, NoNewline
<1>4. CASE PeerCloses(c)
  <2>1. /\ conn[c] = "open" /\ \E how \in {"reset", "fin"} : conn' = [conn EXCEPT ![c] = how]
        /\ UNCHANGED <<server, backlog, in, unread, sent, history>>
    BY <1>4 DEF PeerCloses
  <2>2. TypeOK' BY <1>1, <2>1 DEF TypeOK
  <2>3. ListInv' /\ CursorInv' BY <1>1, <2>1 DEF IInv, TypeOK, ListInv, CursorInv
  <2>4. BacklogInv'
    <3>1. \A d \in ToSet(backlog) : d \in Clients
      BY <1>1, BacklogClients
    <3> QED BY <1>1, <2>1, <3>1 DEF IInv, TypeOK, BacklogInv
  <2>5. NamesInv' /\ BufInv' BY <2>1 DEF IInv, NamesInv, NamesOK, BufInv, Alive, NoNewline
  <2> QED BY <2>2, <2>3, <2>4, <2>5 DEF IInv
<1>5. ASSUME NEW kind \in Sends, PeerSends(c, kind) PROVE IInv'
  <2> DEFINE chats == sent[c].chats + IF kind = "chat" THEN 1 ELSE 0
  <2>1. /\ in' = [in EXCEPT ![c] = Append(@, [kind |-> kind, n |-> chats])]
        /\ sent' = [sent EXCEPT ![c] = [segments |-> @.segments + 1, chats |-> chats]]
        /\ UNCHANGED <<server, conn, backlog, unread, history>>
    BY <1>5 DEF PeerSends
  <2>2. sent[c] \in [segments : Nat, chats : Nat] /\ in[c] \in Seq(Segments) BY <1>1 DEF TypeOK
  <2>3. chats \in Nat BY <2>2
  <2> HIDE DEF chats
  <2>4. [kind |-> kind, n |-> chats] \in Segments BY <2>3, SendsAssumption DEF Segments
  <2>5. Append(in[c], [kind |-> kind, n |-> chats]) \in Seq(Segments)
    BY <2>2, <2>4, AppendProperties
  <2>6. [segments |-> sent[c].segments + 1, chats |-> chats] \in [segments : Nat, chats : Nat]
    BY <2>2, <2>3
  <2>7. in' \in [Clients -> Seq(Segments)] /\ sent' \in [Clients -> [segments : Nat, chats : Nat]]
    BY <1>1, <2>1, <2>5, <2>6 DEF TypeOK
  <2>8. TypeOK' BY <1>1, <2>1, <2>7 DEF TypeOK
  <2> QED BY <2>1, <2>8 DEF IInv, ListInv, CursorInv, BacklogInv, NamesInv, NamesOK, BufInv,
          Alive, NoNewline
<1> QED BY <1>2, <1>3, <1>4, <1>5 DEF Peer

LEMMA NextIInv == IInv /\ [Next]_vars => IInv'
<1> SUFFICES ASSUME IInv, [Next]_vars PROVE IInv' OBVIOUS
<1>1. CASE UNCHANGED vars
  <2>1. UNCHANGED <<pc, clients, username, buf, client_id, client_connected, all_fds, listen_fds,
                    curr, dest, conn, backlog, in, unread, sent, log, joined, got>>
    BY <1>1 DEF vars, server, peers, history
  <2>2. TypeOK' BY <2>1 DEF IInv, TypeOK
  <2>3. ListInv' /\ CursorInv' BY <2>1 DEF IInv, ListInv, CursorInv
  <2>4. BacklogInv' BY <2>1 DEF IInv, BacklogInv
  <2>5. NamesInv' BY <2>1 DEF IInv, NamesInv, NamesOK
  <2>6. BufInv' BY <2>1 DEF IInv, BufInv, Alive, NoNewline
  <2> QED BY <2>2, <2>3, <2>4, <2>5, <2>6 DEF IInv
<1> QED BY <1>1, SelectPreserves, ReadBytesPreserves, DisconnectPreserves, DrainEndsPreserves,
        ReplyCountPreserves, StartBroadcastPreserves, SendToPreserves, SendInterruptedPreserves,
        SendFailsPreserves, BroadcastEndsPreserves, PeerPreserves DEF Next, run_server

LEMMA Invariant == Spec => []IInv
BY InitIInv, NextIInv, PTL DEF Spec

(* Types, for any number of peers. *)
THEOREM TypeCorrect == Spec => []TypeOK
<1>1. IInv => TypeOK BY DEF IInv
<1> QED BY Invariant, <1>1, PTL

(* The list of clients and the descriptor set of select() stay together,   *)
(* on both ways out of the list.                                           *)
THEOREM FdsCorrect == Spec => []FdsMatchList
<1>1. IInv => FdsMatchList BY DEF IInv, ListInv, FdsMatchList, IsInjective
<1> QED BY Invariant, <1>1, PTL

(* Every sender has a name, and no two clients have the same. *)
THEOREM NamesCorrect == Spec => []NamesOK
<1>1. IInv => NamesOK BY DEF IInv, NamesInv
<1> QED BY Invariant, <1>1, PTL

(* select() is never called while a buffer holds a complete message. *)
THEOREM NothingStuckCorrect == Spec => []NothingStuck
<1>1. ASSUME IInv PROVE NothingStuck
  <2> SUFFICES ASSUME pc = "select", NEW c \in ToSet(clients)
               PROVE  find_network_newline(buf[c]) = 0
    BY DEF NothingStuck
  <2>1. c \in all_fds /\ c \in Clients /\ NoNewline(buf[c])
    BY <1>1 DEF IInv, TypeOK, ListInv, BufInv, Alive
  <2>2. buf[c] \in Seq(Segments) BY <1>1, <2>1 DEF IInv, TypeOK
  <2> QED BY <2>1, <2>2, NewlineProperty DEF NoNewline
<1> QED BY Invariant, <1>1, PTL

---------------------------------------------------------------------------
(* Every client is sent every message: in the middle of a broadcast the    *)
(* clients from dest on miss exactly the message that is being sent.       *)

Due(c) ==
  /\ pc = "send" /\ dest # NULL
  /\ \E i, j \in 1 .. Len(clients) : i <= j /\ clients[i] = dest /\ clients[j] = c

Delivered(c, m) ==
  joined[c] <= m /\ got[c] = [i \in 1 .. m - joined[c] |-> joined[c] + i]

DeliveryInv ==
  Alive => \A c \in all_fds : conn[c] = "open" =>
             Delivered(c, IF Due(c) THEN Len(log) - 1 ELSE Len(log))

LEMMA DeliveredOneMore ==
  ASSUME NEW n \in Nat, NEW j \in Nat, j <= n - 1
  PROVE  Append([i \in 1 .. n - 1 - j |-> j + i], n) = [i \in 1 .. n - j |-> j + i]
<1> DEFINE g == [i \in 1 .. n - 1 - j |-> j + i]
<1>1. g \in Seq(Nat) /\ Len(g) = n - 1 - j
  <2>1. n - 1 - j \in Nat /\ \A i \in 1 .. n - 1 - j : j + i \in Nat OBVIOUS
  <2> QED BY <2>1, IsASeq, LenProperties
<1>2. \A i \in 1 .. n - 1 - j : g[i] = j + i OBVIOUS
<1> HIDE DEF g
<1>3. /\ Append(g, n) \in Seq(Nat) /\ Len(Append(g, n)) = n - j
      /\ \A i \in 1 .. n - 1 - j : Append(g, n)[i] = g[i]
      /\ Append(g, n)[n - j] = n
  BY <1>1, AppendProperties
<1> DEFINE h == Append(g, n)
<1>4. DOMAIN h = 1 .. n - j /\ h = [i \in DOMAIN h |-> h[i]]
  BY <1>3, LenProperties
<1>5. \A i \in 1 .. n - j : h[i] = j + i
  BY <1>2, <1>3
<1> HIDE DEF h
<1>6. h = [i \in 1 .. n - j |-> j + i]
  BY <1>4, <1>5
<1> QED BY <1>6 DEF g, h

(* A step outside the loop that sends. *)
LEMMA QuietDelivery ==
  ASSUME DeliveryInv, Alive, pc # "send", pc' # "send", all_fds' \subseteq all_fds,
         \A c \in all_fds : conn'[c] = "open" => conn[c] = "open",
         UNCHANGED <<log, joined, got>>
  PROVE  DeliveryInv'
BY DEF DeliveryInv, Delivered, Due

LEMMA SelectDelivery == ASSUME IInv, DeliveryInv, Select PROVE DeliveryInv'
<1>1. pc = "select" /\ pc' # "send" /\ UNCHANGED <<conn, log, got>>
  BY DEF Select, Proceed
<1>2. CASE backlog # <<>> /\ accept_connection(Head(backlog))
  <2>1. PICK c \in Clients : c = Head(backlog) /\ c \in ToSet(backlog)
    BY <1>2, TailMember DEF IInv, TypeOK, BacklogInv
  <2>2. all_fds' = all_fds \cup {c} /\ joined' = [joined EXCEPT ![c] = Len(log)]
    BY <1>2, <2>1 DEF accept_connection
  <2>3. c \notin all_fds /\ got[c] = <<>> BY <2>1 DEF IInv, BacklogInv
  <2>4. joined \in [Clients -> Nat] /\ all_fds \subseteq Clients BY DEF IInv, TypeOK
  <2>5. Len(log) \in Nat BY LenProperties DEF IInv, TypeOK
  <2>6. Delivered(c, Len(log))'
    <3>1. [i \in 1 .. Len(log) - Len(log) |-> Len(log) + i] = <<>>
      BY <2>5
    <3>2. joined'[c] = Len(log) /\ got'[c] = <<>> /\ log' = log
      BY <1>1, <2>1, <2>2, <2>3, <2>4
    <3>3. joined'[c] <= Len(log) BY <2>5, <3>2
    <3>4. got'[c] = [i \in 1 .. Len(log') - joined'[c] |-> joined'[c] + i]
      BY <3>1, <3>2
    <3> QED BY <3>2, <3>3, <3>4 DEF Delivered
  <2>7. \A d \in all_fds : joined'[d] = joined[d] BY <2>2, <2>3, <2>4
  <2>8. ASSUME NEW d \in all_fds, conn[d] = "open" PROVE Delivered(d, Len(log))'
    <3>1. Delivered(d, Len(log)) BY <1>1, <2>8 DEF DeliveryInv, Due, Alive
    <3> QED BY <1>1, <2>7, <3>1 DEF Delivered
  <2>9. \A d \in Clients : ~Due(d)' BY <1>1 DEF Due
  <2> HIDE DEF Due, Delivered
  <2>10. \A d \in all_fds' : conn'[d] = "open" => Delivered(d, Len(log))'
    BY <1>1, <2>2, <2>6, <2>8
  <2>11. \A d \in all_fds' : d \in Clients BY <2>1, <2>2, <2>4
  <2> QED BY <2>9, <2>10, <2>11 DEF DeliveryInv
<1>3. CASE UNCHANGED <<all_fds, joined>>
  BY <1>1, <1>3, QuietDelivery DEF Alive
<1> QED BY <1>2, <1>3 DEF Select

LEMMA StartBroadcastDelivery == ASSUME IInv, DeliveryInv, StartBroadcast PROVE DeliveryInv'
<1>1. /\ pc = "drain" /\ pc' = "send" /\ dest' = First(clients)
      /\ log' = Append(log, <<curr, Message.n>>)
      /\ UNCHANGED <<clients, all_fds, conn, joined, got>>
  BY DEF StartBroadcast, peers
<1>2. Len(log') = Len(log) + 1 /\ Len(log) \in Nat
  <2>1. log \in Seq(Clients \X Nat) /\ log' \in Seq(Clients \X Nat)
    BY StartBroadcastPreserves DEF IInv, TypeOK
  <2> QED BY <1>1, <2>1, LenProperties, AppendProperties
<1> SUFFICES ASSUME NEW c \in all_fds, conn[c] = "open"
             PROVE  Delivered(c, IF Due(c) THEN Len(log) - 1 ELSE Len(log))'
  BY <1>1 DEF DeliveryInv
<1>3. Delivered(c, Len(log)) BY <1>1 DEF DeliveryInv, Due, Alive
<1>4. Due(c)'
  <2>1. clients \in Seq(Clients) /\ all_fds = ToSet(clients) BY DEF IInv, TypeOK, ListInv
  <2>2. Len(clients) \in Nat /\ DOMAIN clients = 1 .. Len(clients) BY <2>1, LenProperties
  <2>3. PICK j \in 1 .. Len(clients) : clients[j] = c BY <2>1, <2>2 DEF ToSet
  <2>4. clients # <<>> /\ clients[1] \in Clients BY <2>1, <2>2, <2>3, ElementOfSeq
  <2>5. dest' = clients[1] BY <1>1, <2>4 DEF First
  <2> QED BY <1>1, <2>2, <2>3, <2>4, <2>5, ClientsAssumption DEF Due
<1> QED BY <1>1, <1>2, <1>3, <1>4 DEF Delivered

(* With its cursor moved on by one, the loop owes the message to the same  *)
(* clients but the one it has just served.                                 *)
LEMMA DueAfterNext ==
  ASSUME IInv, pc = "send", dest \in all_fds, UNCHANGED <<pc, clients>>, dest' = next(dest),
         NEW c \in all_fds
  PROVE  Due(c)' <=> Due(c) /\ c # dest
<1>1. TypeOK /\ ListInv BY DEF IInv
<1> DEFINE k == IndexOf(dest)
<1>2. /\ k \in 1 .. Len(clients) /\ clients[k] = dest /\ Len(clients) \in Nat
      /\ \A i \in 1 .. Len(clients) : clients[i] = dest => i = k
  BY <1>1, IndexOfProperty
<1>3. PICK j \in 1 .. Len(clients) :
        clients[j] = c /\ \A i \in 1 .. Len(clients) : clients[i] = c => i = j
  BY <1>1, IndexOfProperty
<1>4. dest' = IF k = Len(clients) THEN NULL ELSE clients[k + 1] BY DEF next
<1>5. \A i \in 1 .. Len(clients) : clients[i] # NULL
  BY <1>1, <1>2, ElementOfSeq, ClientsAssumption DEF TypeOK
<1>6. \A i, m \in 1 .. Len(clients) : clients[i] = clients[m] => i = m
  <2>1. clients \in Seq(Clients) BY <1>1 DEF TypeOK
  <2>2. DOMAIN clients = 1 .. Len(clients) BY <2>1, LenProperties
  <2> QED BY <1>1, <2>2 DEF ListInv, IsInjective
<1> HIDE DEF k
<1>7. Due(c) <=> k <= j
  BY <1>2, <1>3, <1>5 DEF Due
<1>8. Due(c)' <=> k < j
  <2>1. CASE k = Len(clients) BY <2>1, <1>2, <1>4 DEF Due
  <2>2. CASE k # Len(clients)
    <3>1. k + 1 \in 1 .. Len(clients) /\ dest' = clients[k + 1] /\ dest' # NULL
      BY <2>2, <1>2, <1>4, <1>5
    <3>2. \A i \in 1 .. Len(clients) : clients[i] = dest' => i = k + 1 BY <1>6, <3>1
    <3>3. Due(c)' <=> k + 1 <= j BY <1>3, <3>1, <3>2 DEF Due
    <3> QED BY <1>2, <3>3
  <2> QED BY <2>1, <2>2
<1>9. c # dest <=> j # k BY <1>2, <1>3
<1> QED BY <1>2, <1>7, <1>8, <1>9

(* dest has just been served, or removed from its debts. *)
LEMMA ServedDelivery ==
  ASSUME IInv, DeliveryInv, pc = "send", dest \in all_fds, dest' = next(dest),
         UNCHANGED <<pc, clients, all_fds, log, joined>>,
         \A c \in all_fds : conn'[c] = "open" => conn[c] = "open",
         \A c \in all_fds : c # dest => got'[c] = got[c],
         conn[dest] = "open" => got'[dest] = Append(got[dest], Len(log))
  PROVE  DeliveryInv'
<1> SUFFICES ASSUME NEW c \in all_fds, conn[c] = "open"
             PROVE  Delivered(c, IF Due(c) THEN Len(log) - 1 ELSE Len(log))'
  BY DEF DeliveryInv
<1>1. Delivered(c, IF Due(c) THEN Len(log) - 1 ELSE Len(log)) BY DEF DeliveryInv, Alive
<1>2. Due(c)' <=> Due(c) /\ c # dest BY DueAfterNext
<1>3. CASE c # dest BY <1>1, <1>2, <1>3 DEF Delivered
<1>4. CASE c = dest
  <2>1. Due(c)
    <3>1. TypeOK /\ ListInv BY DEF IInv
    <3>2. PICK k \in 1 .. Len(clients) : clients[k] = c BY <3>1, IndexOfProperty
    <3>4. k <= k OBVIOUS
    <3>3. c # NULL BY <3>1, ClientsAssumption DEF TypeOK
    <3> QED BY <1>4, <3>2, <3>3, <3>4 DEF Due
  <2>2. joined[c] \in Nat /\ Len(log) \in Nat BY LenProperties DEF IInv, TypeOK
  <2>3. /\ joined[c] <= Len(log) - 1
        /\ got[c] = [i \in 1 .. Len(log) - 1 - joined[c] |-> joined[c] + i]
    BY <1>1, <2>1 DEF Delivered
  <2>4. Append([i \in 1 .. Len(log) - 1 - joined[c] |-> joined[c] + i], Len(log))
          = [i \in 1 .. Len(log) - joined[c] |-> joined[c] + i]
    BY <2>2, <2>3, DeliveredOneMore
  <2>5. got'[c] = [i \in 1 .. Len(log) - joined[c] |-> joined[c] + i]
    <3>1. got'[c] = Append(got[c], Len(log)) BY <1>4
    <3> QED BY <2>3, <2>4, <3>1
  <2>6. joined[c] <= Len(log) BY <2>2, <2>3
  <2> QED BY <1>2, <1>4, <2>5, <2>6 DEF Delivered
<1> QED BY <1>3, <1>4

LEMMA SendDelivery == ASSUME IInv, DeliveryInv, SendTo \/ SendInterrupted PROVE DeliveryInv'
<1>1. TypeOK /\ pc = "send" /\ dest \in all_fds /\ dest \in Clients
  BY DEF SendTo, SendInterrupted, Sending, IInv, TypeOK, CursorInv
<1>2. CASE SendTo
  <2>1. /\ CanWrite(dest) /\ WriteTo(dest) /\ dest' = next(dest)
        /\ got' = [got EXCEPT ![dest] = IF conn[dest] = "open" THEN Append(@, Len(log)) ELSE @]
        /\ UNCHANGED <<pc, clients, all_fds, log, joined>>
    BY <1>2 DEF SendTo
  <2>2. \A c \in Clients : conn'[c] = "open" => conn[c] = "open"
    BY <1>1, <2>1, WriteProperty DEF TypeOK
  <2>3. got \in [Clients -> Seq(Nat)] /\ all_fds \subseteq Clients BY <1>1 DEF TypeOK
  <2> QED BY <1>1, <2>1, <2>2, <2>3, ServedDelivery
<1>3. CASE SendInterrupted
  <2>1. CASE pc' = "uaf" BY <2>1 DEF DeliveryInv, Alive
  <2>2. CASE pc' # "uaf"
    <3>1. /\ dest' = next(dest) /\ got' = [got EXCEPT ![dest] = Append(@, Len(log))]
          /\ UNCHANGED <<pc, clients, all_fds, conn, log, joined>>
      BY <1>3, <2>2 DEF SendInterrupted, peers
    <3>2. got \in [Clients -> Seq(Nat)] /\ all_fds \subseteq Clients BY <1>1 DEF TypeOK
    <3> QED BY <1>1, <3>1, <3>2, ServedDelivery
  <2> QED BY <2>1, <2>2
<1> QED BY <1>2, <1>3

(* A client that is removed leaves its place to the next one. *)
LEMMA SendFailsDelivery == ASSUME IInv, DeliveryInv, SendFails PROVE DeliveryInv'
<1>1. CASE pc' = "uaf" BY <1>1 DEF DeliveryInv, Alive
<1>2. CASE pc' # "uaf"
  <2>1. /\ pc = "send" /\ pc' = pc /\ dest # NULL
        /\ conn' = [conn EXCEPT ![dest] = "closed"] /\ all_fds' = all_fds \ {dest}
        /\ clients' = RemoveAt(clients, IndexOf(dest)) /\ dest' = next(dest)
        /\ UNCHANGED <<log, joined, got>>
    BY <1>2 DEF SendFails, Sending, CloseFd, remove_client, AfterRemoval, history
  <2>2. TypeOK /\ ListInv /\ dest \in all_fds /\ dest \in Clients
    BY <2>1 DEF IInv, TypeOK, CursorInv
  <2> SUFFICES ASSUME NEW c \in all_fds, c # dest, conn[c] = "open"
               PROVE  Delivered(c, IF Due(c) THEN Len(log) - 1 ELSE Len(log))'
    BY <2>1, <2>2 DEF DeliveryInv, TypeOK
  <2>3. Delivered(c, IF Due(c) THEN Len(log) - 1 ELSE Len(log)) BY <2>1 DEF DeliveryInv, Alive
  <2>4. Due(c)' <=> Due(c)
    <3> DEFINE k == IndexOf(dest)  n == Len(clients)
    <3>1. /\ k \in 1 .. n /\ clients[k] = dest /\ n \in Nat
          /\ \A i \in 1 .. n : clients[i] = dest => i = k
      BY <2>2, IndexOfProperty
    <3>2. PICK j \in 1 .. n : clients[j] = c /\ \A i \in 1 .. n : clients[i] = c => i = j
      BY <2>2, IndexOfProperty
    <3>3. clients \in Seq(Clients) BY <2>2 DEF TypeOK
    <3>4. /\ Len(clients') = n - 1
          /\ \A i \in 1 .. n - 1 : clients'[i] = IF i < k THEN clients[i] ELSE clients[i + 1]
      BY <2>1, <3>1, <3>3, RemoveAtProperty
    <3>5. dest' = IF k = n THEN NULL ELSE clients[k + 1] BY <2>1 DEF next
    <3>6. \A i \in 1 .. n : clients[i] # NULL BY <3>1, <3>3, ElementOfSeq, ClientsAssumption
    <3>7. \A i, m \in 1 .. n : clients[i] = clients[m] => i = m
      BY <2>2, <3>3, LenProperties DEF ListInv, IsInjective
    <3> HIDE DEF k
    <3>8. Due(c) <=> k < j
      BY <2>1, <3>1, <3>2, <3>6 DEF Due
    <3> HIDE DEF n
    <3>9. CASE k = n
      <4>1. ~Due(c)' BY <3>5, <3>9 DEF Due
      <4>2. ~(k < j) BY <3>1, <3>2, <3>9
      <4> QED BY <3>8, <4>1, <4>2
    <3>10. CASE k # n
      <4>1. k \in 1 .. n - 1 /\ clients'[k] = clients[k + 1] BY <3>1, <3>4, <3>10
      <4>2. dest' = clients'[k] /\ dest' # NULL /\ k + 1 \in 1 .. n /\ dest' = clients[k + 1]
        BY <3>1, <3>5, <3>6, <3>10, <4>1
      <4>3. \A i \in 1 .. n - 1 : clients'[i] = dest' => i = k
        <5> SUFFICES ASSUME NEW i \in 1 .. n - 1, clients'[i] = dest', i # k PROVE FALSE
          OBVIOUS
        <5>1. CASE i < k
          <6>1. i \in 1 .. n /\ clients'[i] = clients[i] /\ i # k + 1 BY <3>1, <3>4, <5>1
          <6> QED BY <3>7, <4>2, <6>1
        <5>2. CASE i > k
          <6>1. i + 1 \in 1 .. n /\ clients'[i] = clients[i + 1] /\ i + 1 # k + 1
            BY <3>1, <3>4, <5>2
          <6> QED BY <3>7, <4>2, <6>1
        <5> QED BY <3>1, <5>1, <5>2
      <4>4. k < j => j - 1 \in 1 .. n - 1 /\ clients'[j - 1] = c /\ k <= j - 1
        BY <3>1, <3>2, <3>4
      <4>5. ASSUME NEW i \in 1 .. n - 1, clients'[i] = c, k <= i PROVE k < j
        <5>1. i + 1 \in 1 .. n /\ clients[i + 1] = c BY <3>1, <3>4, <4>5
        <5> QED BY <3>1, <3>2, <4>5, <5>1
      <4>6. Due(c)' <=> \E i \in 1 .. n - 1 : k <= i /\ clients'[i] = c
        BY <2>1, <3>4, <4>1, <4>2, <4>3 DEF Due
      <4> QED BY <3>8, <4>4, <4>5, <4>6
    <3> QED BY <3>9, <3>10
  <2> QED BY <2>1, <2>3, <2>4 DEF Delivered
<1> QED BY <1>1, <1>2

LEMMA NextDelivery == IInv /\ DeliveryInv /\ [Next]_vars => DeliveryInv'
<1> SUFFICES ASSUME IInv, DeliveryInv, [Next]_vars PROVE DeliveryInv' OBVIOUS
<1>0. TypeOK /\ all_fds \subseteq Clients BY DEF IInv, TypeOK
<1>1. CASE ReadBytes \/ DrainEnds
  <2>1. /\ pc \in {"read", "drain"} /\ pc' # "send"
        /\ UNCHANGED <<all_fds, conn, log, joined, got>>
    BY <1>1 DEF ReadBytes, DrainEnds, Proceed, history, peers
  <2> QED BY <2>1, QuietDelivery DEF Alive
<1>2. CASE Disconnect
  <2>1. /\ pc = "read" /\ pc' # "send" /\ all_fds' \subseteq all_fds
        /\ conn' = [conn EXCEPT ![curr] = "closed"]
        /\ UNCHANGED <<log, joined, got>>
    BY <1>2 DEF Disconnect, CloseFd, Proceed, history
  <2>2. \A c \in all_fds : conn'[c] = "open" => conn[c] = "open" BY <1>0, <2>1 DEF TypeOK
  <2> QED BY <2>1, <2>2, QuietDelivery DEF Alive
<1>3. CASE ReplyCount
  <2>1. /\ pc = "drain" /\ pc' = pc /\ curr \in Clients
        /\ \/ CanWrite(curr) /\ WriteTo(curr)
           \/ conn' = conn
        /\ UNCHANGED <<all_fds, log, joined, got>>
    BY <1>0, <1>3 DEF ReplyCount, history, IInv, CursorInv
  <2>2. \A c \in all_fds : conn'[c] = "open" => conn[c] = "open"
    BY <1>0, <2>1, WriteProperty DEF TypeOK
  <2> QED BY <2>1, <2>2, QuietDelivery DEF Alive
<1>4. CASE ReplyInterrupted
  <2>1. pc = "drain" /\ pc' = pc /\ UNCHANGED <<all_fds, conn, log, joined, got>>
    BY <1>4 DEF ReplyInterrupted, history, peers
  <2> QED BY <2>1, QuietDelivery DEF Alive
<1>5. CASE BroadcastEnds
  <2>1. /\ pc = "send" /\ dest = NULL /\ pc' # "send"
        /\ UNCHANGED <<all_fds, conn, log, joined, got>>
    BY <1>5 DEF BroadcastEnds, history, peers
  <2> QED BY <2>1 DEF DeliveryInv, Delivered, Due, Alive
<1>6. ASSUME NEW c \in Clients, Peer(c) PROVE DeliveryInv'
  <2>1. UNCHANGED <<pc, clients, dest, all_fds, log, joined, got>>
    BY <1>6 DEF Peer, PeerConnects, PeerReads, PeerCloses, PeerSends, server, history
  <2>2. ASSUME NEW d \in all_fds, conn'[d] = "open" PROVE conn[d] = "open"
    BY <1>0, <1>6, <2>2 DEF Peer, PeerConnects, PeerReads, PeerCloses, PeerSends, TypeOK, IInv,
       ListInv
  <2> SUFFICES ASSUME NEW d \in all_fds, conn[d] = "open", Alive
               PROVE  Delivered(d, IF Due(d) THEN Len(log) - 1 ELSE Len(log))'
    BY <2>1, <2>2 DEF DeliveryInv, Alive
  <2>3. Delivered(d, IF Due(d) THEN Len(log) - 1 ELSE Len(log)) BY DEF DeliveryInv
  <2>4. Due(d)' <=> Due(d) BY <2>1 DEF Due
  <2> QED BY <2>1, <2>3, <2>4 DEF Delivered
<1>7. CASE UNCHANGED vars
  <2>1. UNCHANGED <<pc, clients, dest, all_fds, conn, log, joined, got>>
    BY <1>7 DEF vars, server, peers, history
  <2> SUFFICES ASSUME NEW d \in all_fds, conn[d] = "open", Alive
               PROVE  Delivered(d, IF Due(d) THEN Len(log) - 1 ELSE Len(log))'
    BY <2>1 DEF DeliveryInv, Alive
  <2>2. Delivered(d, IF Due(d) THEN Len(log) - 1 ELSE Len(log)) BY DEF DeliveryInv
  <2>3. Due(d)' <=> Due(d) BY <2>1 DEF Due
  <2> QED BY <2>1, <2>2, <2>3 DEF Delivered
<1> QED BY <1>1, <1>2, <1>3, <1>4, <1>5, <1>6, <1>7, SelectDelivery, StartBroadcastDelivery,
        SendDelivery, SendFailsDelivery DEF Next, run_server

(* A client that was sent everything was sent the messages of the others.  *)
LEMMA DeliveredInOrder ==
  ASSUME TypeOK, NEW c \in Clients, Delivered(c, Len(log))
  PROVE  /\ \A j, k \in DOMAIN got[c] : j < k => got[c][j] < got[c][k]
         /\ {i \in ToSet(got[c]) : log[i][1] # c}
              = {i \in joined[c] + 1 .. Len(log) : log[i][1] # c}
<1> DEFINE n == Len(log)
           m == joined[c]
<1>1. n \in Nat /\ m \in Nat /\ m <= n
  BY DEF TypeOK, Delivered
<1>2. /\ DOMAIN got[c] = 1 .. n - m
      /\ \A k \in 1 .. n - m : got[c][k] = m + k
  BY <1>1 DEF Delivered
<1> HIDE DEF n, m
<1>3. ToSet(got[c]) = m + 1 .. n
  <2>1. ToSet(got[c]) = {got[c][k] : k \in 1 .. n - m} BY <1>2 DEF ToSet
  <2>2. ASSUME NEW i \in m + 1 .. n PROVE i \in ToSet(got[c])
    <3>1. i - m \in 1 .. n - m /\ m + (i - m) = i BY <1>1, <2>2
    <3> QED BY <1>2, <2>1, <3>1
  <2>3. ASSUME NEW i \in ToSet(got[c]) PROVE i \in m + 1 .. n
    <3>1. PICK k \in 1 .. n - m : i = got[c][k] BY <2>1, <2>3
    <3> QED BY <1>1, <1>2, <3>1
  <2> QED BY <2>2, <2>3
<1>4. \A j, k \in DOMAIN got[c] : j < k => got[c][j] < got[c][k] BY <1>1, <1>2
<1> QED BY <1>3, <1>4 DEF n, m

(* Between two rounds every connected client has been sent every message   *)
(* of the others since it was accepted, once and in order, whoever has     *)
(* left or was interrupted meanwhile.                                      *)
THEOREM NoGapsCorrect == Spec => []NoGaps
<1>1. Init => DeliveryInv BY DEF Init, DeliveryInv
<1>2. IInv /\ DeliveryInv => NoGaps
  <2> SUFFICES ASSUME IInv, DeliveryInv, pc = "select", NEW c \in ToSet(clients),
                      conn[c] = "open"
               PROVE  /\ \A j, k \in DOMAIN got[c] : j < k => got[c][j] < got[c][k]
                      /\ {i \in ToSet(got[c]) : log[i][1] # c}
                           = {i \in joined[c] + 1 .. Len(log) : log[i][1] # c}
    BY DEF NoGaps
  <2>1. c \in Clients /\ TypeOK BY DEF IInv, ListInv, TypeOK, Alive
  <2>2. Delivered(c, Len(log)) BY DEF IInv, ListInv, DeliveryInv, Due, Alive
  <2> QED BY <2>1, <2>2, DeliveredInOrder
<1> QED BY Invariant, NextDelivery, <1>1, <1>2, PTL DEF Spec

---------------------------------------------------------------------------
(* Every message is broadcast once and in order. *)

(* The peer sends one segment more. *)
LEMMA NumberedSend ==
  ASSUME NEW c, NEW l \in Seq(Clients \X Nat), NEW stream \in Seq(Segments), NEW chats \in Nat,
         Numbered(c, l, stream, chats), NEW kind \in Kinds,
         NEW m \in Nat, m = chats + IF kind = "chat" THEN 1 ELSE 0
  PROVE  Numbered(c, l, Append(stream, [kind |-> kind, n |-> m]), m)
<1> DEFINE seg == [kind |-> kind, n |-> m]  new == Append(stream, seg)
           logged == {i \in DOMAIN l : l[i][1] = c}
           waiting == {i \in DOMAIN stream : stream[i].kind = "chat"}
           waiting2 == {i \in DOMAIN new : new[i].kind = "chat"}
<1>1. seg \in Segments /\ seg.kind = kind /\ seg.n = m BY DEF Segments
<1> HIDE DEF seg
<1>2. /\ new \in Seq(Segments) /\ Len(new) = Len(stream) + 1 /\ new[Len(stream) + 1] = seg
      /\ \A i \in 1 .. Len(stream) : new[i] = stream[i]
  BY <1>1, AppendProperties
<1> HIDE DEF new
<1>3. /\ Len(stream) \in Nat /\ DOMAIN stream = 1 .. Len(stream)
      /\ DOMAIN new = 1 .. Len(stream) + 1
  BY <1>2, LenProperties
<1>4. /\ \A i, j \in logged : i < j => l[i][2] < l[j][2]
      /\ \A i, j \in waiting : i < j => stream[i].n < stream[j].n
      /\ \A i \in logged, j \in waiting : l[i][2] < stream[j].n
      /\ {l[i][2] : i \in logged} \cup {stream[j].n : j \in waiting} = 1 .. chats
  BY DEF Numbered
<1>5. waiting2 = IF kind = "chat" THEN waiting \cup {Len(stream) + 1} ELSE waiting
  BY <1>1, <1>2, <1>3
<1>6. /\ \A i \in waiting : new[i] = stream[i] /\ stream[i].n \in 1 .. chats /\ i <= Len(stream)
      /\ \A i \in logged : l[i][2] \in 1 .. chats
  BY <1>2, <1>3, <1>4
<1> HIDE DEF logged, waiting, waiting2
<1>7. waiting \subseteq Nat BY <1>3 DEF waiting
<1>8. ASSUME NEW i \in waiting2, NEW j \in waiting2, i < j PROVE new[i].n < new[j].n
  <2>1. i \in waiting
    <3>1. i # Len(stream) + 1 BY <1>3, <1>5, <1>6, <1>7, <1>8
    <3> QED BY <1>5, <3>1
  <2>2. CASE j \in waiting BY <1>4, <1>6, <1>8, <2>1, <2>2
  <2>3. CASE j \notin waiting
    <3>1. kind = "chat" /\ j = Len(stream) + 1 BY <1>5, <2>3
    <3>2. new[j].n = chats + 1 BY <1>1, <1>2, <3>1
    <3>3. new[i].n \in 1 .. chats BY <1>6, <2>1
    <3> QED BY <3>2, <3>3
  <2> QED BY <2>2, <2>3
<1>9. ASSUME NEW i \in logged, NEW j \in waiting2 PROVE l[i][2] < new[j].n
  <2>1. CASE j \in waiting BY <1>4, <1>6, <2>1
  <2>2. CASE j \notin waiting
    <3>1. kind = "chat" /\ j = Len(stream) + 1 BY <1>5, <2>2
    <3>2. new[j].n = chats + 1 BY <1>1, <1>2, <3>1
    <3>3. l[i][2] \in 1 .. chats BY <1>6
    <3> QED BY <3>2, <3>3
  <2> QED BY <2>1, <2>2
<1>10. {l[i][2] : i \in logged} \cup {new[j].n : j \in waiting2} = 1 .. m
  <2>1. {new[j].n : j \in waiting2}
          = {stream[j].n : j \in waiting} \cup (IF kind = "chat" THEN {m} ELSE {})
    BY <1>1, <1>2, <1>5, <1>6
  <2>2. 1 .. m = (1 .. chats) \cup (IF kind = "chat" THEN {m} ELSE {}) OBVIOUS
  <2> QED BY <1>4, <2>1, <2>2
<1>11. Numbered(c, l, new, m)
  BY <1>4, <1>8, <1>9, <1>10 DEF Numbered, logged, waiting2
<1> QED BY <1>11 DEF new, seg

(* The server takes the first k segments of the stream, of which only the  *)
(* last can be a chat message; if it is one, it is broadcast.              *)
LEMMA NumberedTake ==
  ASSUME NEW c \in Clients, NEW l \in Seq(Clients \X Nat), NEW stream \in Seq(Segments),
         NEW chats \in Nat, Numbered(c, l, stream, chats),
         NEW k \in 1 .. Len(stream), \A i \in 1 .. k - 1 : stream[i].kind = "part"
  PROVE  LET rest == SubSeq(stream, k + 1, Len(stream)) IN
         /\ stream[k].kind # "chat" => Numbered(c, l, rest, chats)
         /\ stream[k].kind = "chat" => Numbered(c, Append(l, <<c, stream[k].n>>), rest, chats)
<1> DEFINE rest == SubSeq(stream, k + 1, Len(stream))
           logged == {i \in DOMAIN l : l[i][1] = c}
           waiting == {i \in DOMAIN stream : stream[i].kind = "chat"}
           waiting2 == {i \in DOMAIN rest : rest[i].kind = "chat"}
<1>1. /\ Len(stream) \in Nat /\ DOMAIN stream = 1 .. Len(stream)
      /\ \A i \in 1 .. Len(stream) : stream[i] \in Segments
  BY LenProperties, ElementOfSeq
<1>2. k \in Nat /\ 1 <= k /\ k <= Len(stream) BY <1>1
<1>3. /\ rest \in Seq(Segments) /\ DOMAIN rest = 1 .. Len(stream) - k
      /\ \A i \in 1 .. Len(stream) - k : rest[i] = stream[k + i]
  BY <1>2, DropProperty
<1>4. /\ \A i, j \in logged : i < j => l[i][2] < l[j][2]
      /\ \A i, j \in waiting : i < j => stream[i].n < stream[j].n
      /\ \A i \in logged, j \in waiting : l[i][2] < stream[j].n
      /\ {l[i][2] : i \in logged} \cup {stream[j].n : j \in waiting} = 1 .. chats
  BY DEF Numbered
<1> HIDE DEF rest
<1>5. ASSUME NEW i \in waiting2
      PROVE  i \in Nat \ {0} /\ k + i \in waiting /\ k + i > k /\ rest[i] = stream[k + i]
  <2>1. i \in 1 .. Len(stream) - k /\ rest[i].kind = "chat" BY <1>3
  <2>2. k + i \in 1 .. Len(stream) /\ rest[i] = stream[k + i] BY <1>1, <1>2, <1>3, <2>1
  <2> QED BY <1>1, <1>2, <2>1, <2>2
<1>6. ASSUME NEW i \in waiting, i # k
      PROVE  \E j \in waiting2 : rest[j] = stream[i]
  <2>1. i \in 1 .. Len(stream) /\ stream[i].kind = "chat" BY <1>1
  <2>2. ~(i < k) BY <1>2, <2>1
  <2>3. PICK j \in 1 .. Len(stream) - k : k + j = i
    <3>1. i - k \in 1 .. Len(stream) - k /\ k + (i - k) = i BY <1>1, <1>2, <1>6, <2>1, <2>2
    <3> QED BY <3>1
  <2> QED BY <1>3, <2>1, <2>3
<1>7. waiting \subseteq Nat /\ (k \in waiting <=> stream[k].kind = "chat")
  BY <1>1
<1> HIDE DEF waiting, waiting2
<1>8. ASSUME NEW i \in waiting2, NEW j \in waiting2, i < j PROVE rest[i].n < rest[j].n
  <2>1. k + i < k + j BY <1>2, <1>5, <1>8
  <2> QED BY <1>4, <1>5, <2>1
<1>9. CASE stream[k].kind # "chat"
  <2>1. {rest[j].n : j \in waiting2} = {stream[j].n : j \in waiting}
    <3>1. \A j \in waiting2 : rest[j].n \in {stream[i].n : i \in waiting} BY <1>5
    <3>2. \A i \in waiting : stream[i].n \in {rest[j].n : j \in waiting2} BY <1>6, <1>7, <1>9
    <3> QED BY <3>1, <3>2
  <2>2. \A i \in logged, j \in waiting2 : l[i][2] < rest[j].n BY <1>4, <1>5
  <2>3. Numbered(c, l, rest, chats) BY <1>4, <1>8, <2>1, <2>2 DEF Numbered, waiting2
  <2> QED BY <1>9, <2>3 DEF rest
<1>10. CASE stream[k].kind = "chat"
  <2> DEFINE m == <<c, stream[k].n>>  l2 == Append(l, m)
             logged2 == {i \in DOMAIN l2 : l2[i][1] = c}
  <2>1. m \in Clients \X Nat /\ m[1] = c /\ m[2] = stream[k].n
    <3>1. stream[k].n \in Nat BY <1>1 DEF Segments
    <3> QED BY <3>1
  <2> HIDE DEF m
  <2>2. /\ l2 \in Seq(Clients \X Nat) /\ Len(l2) = Len(l) + 1 /\ l2[Len(l) + 1] = m
        /\ \A i \in 1 .. Len(l) : l2[i] = l[i]
    BY <2>1, AppendProperties
  <2> HIDE DEF l2
  <2>3. Len(l) \in Nat /\ DOMAIN l = 1 .. Len(l) /\ DOMAIN l2 = 1 .. Len(l) + 1
    BY <2>2, LenProperties
  <2>4. logged2 = logged \cup {Len(l) + 1} BY <2>1, <2>2, <2>3
  <2>5. \A i \in logged : l2[i] = l[i] /\ i \in Nat /\ i <= Len(l) BY <2>2, <2>3
  <2> HIDE DEF logged, logged2
  <2>6. k \in waiting BY <1>7, <1>10
  <2>7. ASSUME NEW i \in logged2, NEW j \in logged2, i < j PROVE l2[i][2] < l2[j][2]
    <3>1. i \in logged BY <2>3, <2>4, <2>5, <2>7
    <3>2. CASE j \in logged BY <1>4, <2>5, <2>7, <3>1, <3>2
    <3>3. CASE j = Len(l) + 1 BY <1>4, <2>1, <2>2, <2>5, <2>6, <3>1, <3>3
    <3> QED BY <2>4, <3>2, <3>3
  <2>8. ASSUME NEW i \in logged2, NEW j \in waiting2 PROVE l2[i][2] < rest[j].n
    <3>1. CASE i \in logged BY <1>4, <1>5, <2>5, <3>1
    <3>2. CASE i = Len(l) + 1 BY <1>4, <1>5, <2>1, <2>2, <2>6, <3>2
    <3> QED BY <2>4, <3>1, <3>2
  <2>9. {l2[i][2] : i \in logged2} \cup {rest[j].n : j \in waiting2} = 1 .. chats
    <3>1. {l2[i][2] : i \in logged2} = {l[i][2] : i \in logged} \cup {stream[k].n}
      <4>1. \A i \in logged2 : l2[i][2] \in {l[j][2] : j \in logged} \cup {stream[k].n}
        BY <2>1, <2>2, <2>4, <2>5
      <4>2. Len(l) + 1 \in logged2 /\ l2[Len(l) + 1][2] = stream[k].n BY <2>1, <2>2, <2>4
      <4>3. \A j \in logged : j \in logged2 /\ l2[j][2] = l[j][2] BY <2>4, <2>5
      <4>4. PICK x : x = stream[k].n OBVIOUS
      <4>5. \A y \in {l2[i][2] : i \in logged2} : y \in {l[i][2] : i \in logged} \cup {x}
        BY <4>1, <4>4
      <4>6. x \in {l2[i][2] : i \in logged2} BY <4>2, <4>4
      <4>7. \A y \in {l[i][2] : i \in logged} : y \in {l2[i][2] : i \in logged2} BY <4>3
      <4> QED BY <4>4, <4>5, <4>6, <4>7
    <3>2. {rest[j].n : j \in waiting2} \cup {stream[k].n} = {stream[j].n : j \in waiting}
      <4>1. \A j \in waiting2 : rest[j].n \in {stream[i].n : i \in waiting} BY <1>5
      <4>2. \A i \in waiting : i = k \/ stream[i].n \in {rest[j].n : j \in waiting2} BY <1>6
      <4> QED BY <2>6, <4>1, <4>2
    <3> QED BY <1>4, <3>1, <3>2
  <2>10. Numbered(c, l2, rest, chats)
    BY <1>8, <2>7, <2>8, <2>9 DEF Numbered, waiting2, logged2
  <2> QED BY <1>10, <2>10 DEF rest, l2, m
<1> QED BY <1>9, <1>10

(* Another client's message does not count. *)
LEMMA NumberedOther ==
  ASSUME NEW c, NEW l \in Seq(Clients \X Nat), NEW stream, NEW chats,
         Numbered(c, l, stream, chats), NEW m \in Clients \X Nat, m[1] # c
  PROVE  Numbered(c, Append(l, m), stream, chats)
<1> DEFINE l2 == Append(l, m)
           logged == {i \in DOMAIN l : l[i][1] = c}
           logged2 == {i \in DOMAIN l2 : l2[i][1] = c}
<1>1. /\ l2 \in Seq(Clients \X Nat) /\ Len(l2) = Len(l) + 1 /\ l2[Len(l) + 1] = m
      /\ \A i \in 1 .. Len(l) : l2[i] = l[i]
  BY AppendProperties
<1> HIDE DEF l2
<1>2. Len(l) \in Nat /\ DOMAIN l = 1 .. Len(l) /\ DOMAIN l2 = 1 .. Len(l) + 1
  BY <1>1, LenProperties
<1>3. logged2 = logged /\ \A i \in logged : l2[i] = l[i]
  BY <1>1, <1>2
<1>4. {l2[i][2] : i \in logged2} = {l[i][2] : i \in logged}
  BY <1>3
<1>5. Numbered(c, l2, stream, chats)
  BY <1>3, <1>4 DEF Numbered
<1> QED BY <1>5 DEF l2

(* However they cut it, reads do not change the stream. *)
LEMMA StreamRead ==
  ASSUME NEW S, NEW b \in Seq(S), NEW s \in Seq(S), NEW k \in 1 .. Len(s)
  PROVE  (b \o SubSeq(s, 1, k)) \o SubSeq(s, k + 1, Len(s)) = b \o s
<1> DEFINE front == SubSeq(s, 1, k)  rest == SubSeq(s, k + 1, Len(s))
<1>1. Len(s) \in Nat /\ \A i \in 1 .. Len(s) : s[i] \in S BY LenProperties, ElementOfSeq
<1>2. k \in Nat /\ k <= Len(s) BY <1>1
<1>3. rest \in Seq(S) BY <1>2, DropProperty
<1>4. front \in Seq(S)
  <2>1. \A i \in 1 .. k : s[i] \in S BY <1>1, <1>2
  <2> QED BY <1>2, <2>1, SubSeqProperties
<1>5. front \o rest = s
  <2>1. front \o rest = SubSeq(s, 1, Len(s))
    <3>1. 1 \in 1 .. Len(s) + 1 /\ k \in 1 - 1 .. Len(s) /\ Len(s) \in k .. Len(s)
      BY <1>1, <1>2
    <3> QED BY <3>1, ConcatAdjacentSubSeq
  <2> QED BY <2>1, SubSeqFull
<1> HIDE DEF front, rest
<1>6. (b \o front) \o rest = b \o (front \o rest)
  <2>1. \A x, y, z \in Seq(S) : (x \o y) \o z = x \o (y \o z) OBVIOUS
  <2> QED BY <1>3, <1>4, <2>1, Zenon
<1> QED BY <1>5, <1>6 DEF front, rest

(* A message taken out of the buffer is taken from the front of the stream. *)
LEMMA NumberedMessage ==
  ASSUME NEW c \in Clients, NEW l \in Seq(Clients \X Nat), NEW b \in Seq(Segments),
         NEW s \in Seq(Segments), NEW chats \in Nat, Numbered(c, l, b \o s, chats),
         NEW k \in Nat, 1 <= k, k <= Len(b), \A i \in 1 .. k - 1 : b[i].kind = "part"
  PROVE  LET rest == SubSeq(b, k + 1, Len(b)) IN
         /\ b[k].kind # "chat" => Numbered(c, l, rest \o s, chats)
         /\ b[k].kind = "chat" => Numbered(c, Append(l, <<c, b[k].n>>), rest \o s, chats)
<1> DEFINE bs == b \o s  rest == SubSeq(b, k + 1, Len(b))  u == rest \o s
           v == SubSeq(bs, k + 1, Len(bs))
<1>1. Len(b) \in Nat /\ Len(s) \in Nat /\ k \in Nat /\ 1 <= k /\ k <= Len(b) BY LenProperties
<1>2. /\ bs \in Seq(Segments) /\ Len(bs) = Len(b) + Len(s)
      /\ \A i \in 1 .. Len(b) + Len(s) : bs[i] = IF i <= Len(b) THEN b[i] ELSE s[i - Len(b)]
  BY ConcatProperties
<1> HIDE DEF bs
<1>3. /\ rest \in Seq(Segments) /\ Len(rest) = Len(b) - k
      /\ \A i \in 1 .. Len(b) - k : rest[i] = b[k + i]
  BY <1>1, DropProperty
<1> HIDE DEF rest
<1>4. /\ v \in Seq(Segments) /\ Len(v) = Len(bs) - k
      /\ \A i \in 1 .. Len(bs) - k : v[i] = bs[k + i]
  <2>1. k <= Len(bs) BY <1>1, <1>2
  <2> QED BY <1>1, <1>2, <2>1, DropProperty
<1> HIDE DEF v
<1>5. /\ u \in Seq(Segments) /\ Len(u) = Len(rest) + Len(s)
      /\ \A i \in 1 .. Len(rest) + Len(s) :
           u[i] = IF i <= Len(rest) THEN rest[i] ELSE s[i - Len(rest)]
  BY <1>3, ConcatProperties
<1> HIDE DEF u
<1>6. Len(u) = Len(v) BY <1>1, <1>2, <1>3, <1>4, <1>5
<1>7. ASSUME NEW i \in 1 .. Len(u) PROVE u[i] = v[i]
  <2>1. i \in 1 .. Len(bs) - k /\ k + i \in 1 .. Len(b) + Len(s)
    BY <1>1, <1>2, <1>3, <1>5
  <2>2. v[i] = bs[k + i] BY <1>4, <2>1
  <2>3. CASE i <= Len(b) - k
    <3>0. i \in 1 .. Len(b) - k /\ i \in 1 .. Len(rest) + Len(s) /\ i <= Len(rest)
      BY <1>1, <1>3, <2>1, <2>3
    <3>1. u[i] = b[k + i] BY <1>3, <1>5, <3>0
    <3>2. bs[k + i] = b[k + i] BY <1>1, <1>2, <2>1, <2>3
    <3> QED BY <2>2, <3>1, <3>2
  <2>4. CASE ~(i <= Len(b) - k)
    <3>1. u[i] = s[i - (Len(b) - k)] BY <1>1, <1>3, <1>5, <2>1, <2>4
    <3>2. bs[k + i] = s[(k + i) - Len(b)] BY <1>1, <1>2, <2>1, <2>4
    <3>3. i - (Len(b) - k) = (k + i) - Len(b) BY <1>1, <2>1
    <3> QED BY <2>2, <3>1, <3>2, <3>3
  <2> QED BY <2>3, <2>4
<1>8. u = v BY <1>4, <1>5, <1>6, <1>7, SeqEqual
<1>9. k \in 1 .. Len(bs) /\ \A i \in 1 .. k : bs[i] = b[i] BY <1>1, <1>2
<1>10. Numbered(c, l, bs, chats) BY DEF bs
<1>11. bs[k] = b[k] /\ \A i \in 1 .. k - 1 : bs[i].kind = "part"
  <2>1. k \in 1 .. k /\ \A i \in 1 .. k - 1 : i \in 1 .. k BY <1>1
  <2> QED BY <1>9, <2>1
<1>12. /\ b[k].kind # "chat" => Numbered(c, l, u, chats)
       /\ b[k].kind = "chat" => Numbered(c, Append(l, <<c, b[k].n>>), u, chats)
  BY <1>2, <1>8, <1>9, <1>10, <1>11, NumberedTake DEF v
<1> QED BY <1>12 DEF u, rest

(* A segment sent is the last of the stream. *)
LEMMA StreamSend ==
  ASSUME NEW S, NEW b \in Seq(S), NEW s \in Seq(S), NEW x \in S
  PROVE  b \o Append(s, x) = Append(b \o s, x)
<1>1. <<x>> \in Seq(S) OBVIOUS
<1>2. b \o s \in Seq(S) BY ConcatProperties
<1>3. Append(s, x) = s \o <<x>> BY AppendIsConcat
<1>4. Append(b \o s, x) = (b \o s) \o <<x>> BY <1>2, AppendIsConcat, Zenon
<1>5. (b \o s) \o <<x>> = b \o (s \o <<x>>) BY <1>1, ConcatAssociative
<1> QED BY <1>3, <1>4, <1>5, Zenon

LEMMA FramingTypes ==
  ASSUME TypeOK, NEW c \in Clients
  PROVE  /\ buf[c] \in Seq(Segments) /\ in[c] \in Seq(Segments)
         /\ buf[c] \o in[c] \in Seq(Segments) /\ log \in Seq(Clients \X Nat)
         /\ sent[c].chats \in Nat
<1>1. /\ buf[c] \in Seq(Segments) /\ in[c] \in Seq(Segments) /\ log \in Seq(Clients \X Nat)
      /\ sent[c].chats \in Nat
  BY DEF TypeOK
<1> QED BY <1>1, ConcatProperties

(* A step that moves no segment of an open connection. *)
LEMMA FramingUnchanged ==
  ASSUME FramingExact, UNCHANGED <<log, sent>>,
         \A c \in Clients : conn'[c] # "closed" =>
            conn[c] # "closed" /\ buf'[c] \o in'[c] = buf[c] \o in[c]
  PROVE  FramingExact'
<1> SUFFICES ASSUME NEW c \in Clients, conn'[c] # "closed"
             PROVE  Numbered(c, log', buf'[c] \o in'[c], sent'[c].chats)
  BY DEF FramingExact
<1>1. Numbered(c, log, buf[c] \o in[c], sent[c].chats) BY DEF FramingExact
<1> QED BY <1>1

LEMMA ReadBytesFraming == ASSUME IInv, FramingExact, ReadBytes PROVE FramingExact'
<1>1. PICK k \in 1 .. Len(in[curr]) :
        /\ buf' = [buf EXCEPT ![curr] = buf[curr] \o SubSeq(in[curr], 1, k)]
        /\ in' = [in EXCEPT ![curr] = SubSeq(in[curr], k + 1, Len(in[curr]))]
  BY DEF ReadBytes
<1>2. TypeOK /\ pc = "read" /\ UNCHANGED <<conn, log, sent>> BY DEF ReadBytes, history, IInv
<1>3. curr \in Clients BY <1>2 DEF IInv, TypeOK, CursorInv
<1>4. buf'[curr] \o in'[curr] = buf[curr] \o in[curr]
  <2>1. buf[curr] \in Seq(Segments) /\ in[curr] \in Seq(Segments) BY <1>2, <1>3, FramingTypes
  <2>2. /\ buf'[curr] = buf[curr] \o SubSeq(in[curr], 1, k)
        /\ in'[curr] = SubSeq(in[curr], k + 1, Len(in[curr]))
    BY <1>1, <1>2, <1>3 DEF TypeOK
  <2> QED BY <2>1, <2>2, StreamRead
<1>5. \A c \in Clients : c # curr => buf'[c] = buf[c] /\ in'[c] = in[c]
  BY <1>1, <1>2 DEF TypeOK
<1> QED BY <1>2, <1>4, <1>5, FramingUnchanged

(* get_message() with the broadcast that follows it, or without one. *)
LEMMA MessageFraming ==
  ASSUME IInv, FramingExact, pc = "drain", get_message,
         \/ Message.kind # "chat" /\ log' = log
         \/ Message.kind = "chat" /\ log' = Append(log, <<curr, Message.n>>),
         UNCHANGED <<in, sent>>,
         \A c \in Clients : conn'[c] # "closed" => conn[c] # "closed"
  PROVE  FramingExact'
<1>1. TypeOK /\ curr \in Clients BY DEF IInv, TypeOK, CursorInv
<1>2. PICK k \in 1 .. Len(buf[curr]) :
        /\ buf' = [buf EXCEPT ![curr] = SubSeq(buf[curr], k + 1, Len(buf[curr]))]
        /\ Message = buf[curr][k] /\ Message \in Segments
        /\ \A i \in 1 .. k - 1 : buf[curr][i].kind = "part"
  BY <1>1, GetMessageProperty
<1> SUFFICES ASSUME NEW c \in Clients, conn'[c] # "closed"
             PROVE  Numbered(c, log', buf'[c] \o in'[c], sent'[c].chats)
  BY DEF FramingExact
<1>3. Numbered(c, log, buf[c] \o in[c], sent[c].chats) BY DEF FramingExact
<1>4. /\ buf[c] \in Seq(Segments) /\ in[c] \in Seq(Segments)
      /\ buf[c] \o in[c] \in Seq(Segments) /\ log \in Seq(Clients \X Nat)
      /\ sent[c].chats \in Nat
  BY <1>1, FramingTypes
<1>5. CASE c # curr
  <2>1. buf'[c] = buf[c] BY <1>1, <1>2, <1>5 DEF TypeOK
  <2>2. Message.n \in Nat BY <1>2 DEF Segments
  <2>3. <<curr, Message.n>> \in Clients \X Nat /\ <<curr, Message.n>>[1] # c
    BY <1>1, <1>5, <2>2
  <2>4. Numbered(c, Append(log, <<curr, Message.n>>), buf[c] \o in[c], sent[c].chats)
    BY <1>3, <1>4, <2>3, NumberedOther
  <2> QED BY <1>3, <2>1, <2>4
<1>6. CASE c = curr
  <2>1. buf'[c] = SubSeq(buf[c], k + 1, Len(buf[c])) BY <1>1, <1>2, <1>6 DEF TypeOK
  <2>2. k \in Nat /\ 1 <= k /\ k <= Len(buf[c]) BY <1>4, <1>6, LenProperties
  <2>3. PICK b \in Seq(Segments), s \in Seq(Segments) : b = buf[c] /\ s = in[c] BY <1>4
  <2>4. /\ k <= Len(b) /\ b[k] = Message /\ \A i \in 1 .. k - 1 : b[i].kind = "part"
        /\ Numbered(c, log, b \o s, sent[c].chats)
    BY <1>2, <1>3, <1>6, <2>2, <2>3
  <2>5. /\ b[k].kind # "chat" =>
             Numbered(c, log, SubSeq(b, k + 1, Len(b)) \o s, sent[c].chats)
        /\ b[k].kind = "chat" =>
             Numbered(c, Append(log, <<c, b[k].n>>), SubSeq(b, k + 1, Len(b)) \o s,
                      sent[c].chats)
    BY <1>4, <2>2, <2>4, NumberedMessage
  <2>6. buf'[c] \o in'[c] = SubSeq(b, k + 1, Len(b)) \o s BY <2>1, <2>3
  <2> QED BY <1>6, <2>4, <2>5, <2>6
<1> QED BY <1>5, <1>6

LEMMA PeerSendsFraming ==
  ASSUME IInv, FramingExact, NEW c \in Clients, NEW kind \in Sends, PeerSends(c, kind)
  PROVE  FramingExact'
<1>1. TypeOK /\ kind \in Kinds BY SendsAssumption DEF IInv
<1>2. /\ buf[c] \in Seq(Segments) /\ in[c] \in Seq(Segments)
      /\ buf[c] \o in[c] \in Seq(Segments) /\ log \in Seq(Clients \X Nat)
      /\ sent[c].chats \in Nat
  BY <1>1, FramingTypes
<1>3. PICK m \in Nat : m = sent[c].chats + IF kind = "chat" THEN 1 ELSE 0 BY <1>2
<1> DEFINE seg == [kind |-> kind, n |-> m]
<1>4. /\ in' = [in EXCEPT ![c] = Append(in[c], seg)] /\ UNCHANGED <<buf, log, conn>>
      /\ \E k : sent' = [sent EXCEPT ![c] = [segments |-> k, chats |-> m]]
      /\ conn[c] = "open"
  BY <1>3 DEF PeerSends, server, history
<1> SUFFICES ASSUME NEW d \in Clients, conn[d] # "closed"
             PROVE  Numbered(d, log, buf[d] \o in'[d], sent'[d].chats)
  BY <1>4 DEF FramingExact
<1>5. Numbered(d, log, buf[d] \o in[d], sent[d].chats) BY DEF FramingExact
<1>6. CASE d # c
  <2>1. in'[d] = in[d] /\ sent'[d] = sent[d] BY <1>1, <1>4, <1>6 DEF TypeOK
  <2> QED BY <1>5, <2>1
<1>7. CASE d = c
  <2>1. in'[c] = Append(in[c], seg) /\ sent'[c].chats = m BY <1>1, <1>4 DEF TypeOK
  <2>2. seg \in Segments BY <1>1 DEF Segments
  <2>3. buf[c] \o Append(in[c], seg) = Append(buf[c] \o in[c], seg)
    <3>1. PICK x \in Segments : x = seg BY <2>2
    <3>2. PICK b \in Seq(Segments), s \in Seq(Segments) : b = buf[c] /\ s = in[c] BY <1>2
    <3>3. b \o Append(s, x) = Append(b \o s, x) BY StreamSend
    <3> QED BY <3>1, <3>2, <3>3
  <2>4. Numbered(c, log, Append(buf[c] \o in[c], seg), m)
    BY <1>1, <1>2, <1>3, <1>5, <1>7, NumberedSend
  <2> QED BY <1>7, <2>1, <2>3, <2>4
<1> QED BY <1>6, <1>7

LEMMA NextFraming == IInv /\ FramingExact /\ [Next]_vars => FramingExact'
<1> SUFFICES ASSUME IInv, FramingExact, [Next]_vars PROVE FramingExact' OBVIOUS
<1>0. TypeOK /\ curr \in Clients \cup {NULL} BY DEF IInv, TypeOK
<1>1. CASE Select \/ DrainEnds \/ SendInterrupted \/ BroadcastEnds
  <2>1. UNCHANGED <<conn, buf, in, log, sent>>
    BY <1>1 DEF Select, DrainEnds, SendInterrupted, BroadcastEnds, peers, history
  <2> QED BY <2>1, FramingUnchanged
<1>2. CASE Disconnect \/ SendFails
  <2>1. /\ UNCHANGED <<buf, in, log, sent>>
        /\ conn' = conn \/ \E c : conn' = [conn EXCEPT ![c] = "closed"]
    BY <1>2 DEF Disconnect, SendFails, CloseFd, history
  <2>2. \A c \in Clients : conn'[c] # "closed" => conn[c] # "closed" BY <1>0, <2>1 DEF TypeOK
  <2> QED BY <2>1, <2>2, FramingUnchanged
<1>3. CASE SendTo
  <2>1. CanWrite(dest) /\ WriteTo(dest) /\ dest \in Clients /\ UNCHANGED <<buf, in, log, sent>>
    BY <1>0, <1>3 DEF SendTo, Sending, TypeOK
  <2>2. \A c \in Clients : conn'[c] # "closed" => conn[c] # "closed"
    BY <1>0, <2>1, WriteProperty DEF TypeOK
  <2> QED BY <2>1, <2>2, FramingUnchanged
<1>4. CASE ReplyCount \/ ReplyInterrupted
  <2>1. /\ pc = "drain" /\ get_message /\ Message.kind = "connected"
        /\ \/ CanWrite(curr) /\ WriteTo(curr)
           \/ conn' = conn
        /\ UNCHANGED <<in, log, sent>>
    BY <1>4 DEF ReplyCount, ReplyInterrupted, peers, history
  <2>2. curr \in Clients BY <2>1 DEF IInv, TypeOK, CursorInv
  <2>3. \A c \in Clients : conn'[c] # "closed" => conn[c] # "closed"
    BY <1>0, <2>1, <2>2, WriteProperty DEF TypeOK
  <2> QED BY <2>1, <2>3, MessageFraming
<1>5. CASE StartBroadcast
  BY <1>5, MessageFraming DEF StartBroadcast, peers
<1>6. ASSUME NEW c \in Clients, PeerConnects(c) \/ PeerReads(c) \/ PeerCloses(c)
      PROVE  FramingExact'
  <2>1. UNCHANGED <<buf, in, log, sent>>
    BY <1>6 DEF PeerConnects, PeerReads, PeerCloses, server, history
  <2>2. \A d \in Clients : conn'[d] # "closed" => conn[d] # "closed"
    BY <1>0, <1>6 DEF PeerConnects, PeerReads, PeerCloses, TypeOK
  <2> QED BY <2>1, <2>2, FramingUnchanged
<1>7. CASE UNCHANGED vars
  <2>1. UNCHANGED <<conn, buf, in, log, sent>> BY <1>7 DEF vars, server, peers, history
  <2> QED BY <2>1, FramingUnchanged
<1> QED BY <1>1, <1>2, <1>3, <1>4, <1>5, <1>6, <1>7, ReadBytesFraming, PeerSendsFraming
        DEF Next, run_server, Peer

(* Each message of a client is broadcast once and in the order in which it *)
(* was sent, however the stream is cut into reads.                         *)
THEOREM FramingCorrect == Spec => []FramingExact
<1>1. Init => FramingExact
  <2> SUFFICES ASSUME Init, NEW c \in Clients
               PROVE  Numbered(c, log, buf[c] \o in[c], sent[c].chats)
    BY DEF FramingExact
  <2>1. log = <<>> /\ buf[c] \o in[c] = <<>> /\ sent[c].chats = 0 BY DEF Init
  <2>2. Numbered(c, <<>>, <<>>, 0) BY DEF Numbered
  <2> QED BY <2>1, <2>2
<1> QED BY Invariant, NextFraming, <1>1, PTL DEF Spec

---------------------------------------------------------------------------
(* The server and the clients. *)

---------------------------------------------------------------------------
(* The inductive invariant. *)

Cpcs == {"shell", "select", "write", "rest", "socket", "send", "close", "gone"}

NoTwoParts(s) == \A k \in 1 .. Len(s) - 1 : s[k].kind = "part" => s[k + 1].kind # "part"

EndsWhole(s) == Len(s) > 0 => s[Len(s)].kind # "part"

(* A client cuts a message once at most, so that of what is on its way to  *)
(* the server a part without a CRLF is followed by the rest.               *)
StreamInv ==
  \A c \in Clients : /\ NoTwoParts(buf[c] \o in[c])
                     /\ cpc[c] \notin {"rest", "gone"} => EndsWhole(buf[c] \o in[c])

(* The clients the loop of the server has still to come to. *)
Ahead(c) == \E i, j \in 1 .. Len(clients) : i < j /\ clients[i] = curr /\ clients[j] = c

(* What select() found readable stays readable until its turn comes. *)
ReadyInv ==
  /\ pc = "read" => curr \in listen_fds /\ Readable(curr)
  /\ pc \in {"read", "drain", "send"} => \A c \in listen_fds : Ahead(c) => Readable(c)

(* Only a client that is gone has its connection closed by either side. *)
GoneInv == \A c \in Clients : conn[c] \in {"fin", "reset", "closed"} => cpc[c] = "gone"

SysInv == IInv /\ cpc \in [Clients -> Cpcs] /\ StreamInv /\ ReadyInv /\ GoneInv

---------------------------------------------------------------------------
(* A client of the shell is a peer. *)

LEMMA KindsSent == {"part", "chat", "connected"} = Sends
BY ClientAssumption DEF Kinds

LEMMA ClientStep ==
  ASSUME NEW c \in Clients,
         \/ UserTypes(c) \/ connect_to_server(c) \/ bn_start_client(c) \/ ClientLeaves(c)
         \/ SendConnects(c) \/ bn_send(c)
  PROVE  \/ UNCHANGED vars
         \/ PeerConnects(c) /\ cpc[c] = "shell"
         \/ PeerReads(c)
         \/ PeerCloses(c) /\ cpc' = [cpc EXCEPT ![c] = "gone"]
         \/ /\ PeerSends(c, "part") /\ cpc[c] = "write"
            /\ cpc' = [cpc EXCEPT ![c] = "rest"]
         \/ PeerSends(c, "chat") \/ PeerSends(c, "connected")
BY DEF UserTypes, connect_to_server, bn_start_client, ClientSelect, ClientWrites, MayCut,
   ClientReads, ClientLeaves, SendConnects, bn_send, SendWrites, SendCloses

LEMMA SysStep == [SysNext]_sysVars => [Next]_vars
<1> SUFFICES ASSUME [SysNext]_sysVars PROVE [Next]_vars OBVIOUS
<1>1. CASE UNCHANGED sysVars BY <1>1 DEF sysVars
<1>2. CASE run_server BY <1>2 DEF Next
<1>3. ASSUME NEW c \in Clients,
             \/ UserTypes(c) \/ connect_to_server(c) \/ bn_start_client(c) \/ ClientLeaves(c)
             \/ SendConnects(c) \/ bn_send(c)
      PROVE  [Next]_vars
  <2>1. UNCHANGED vars \/ Peer(c)
    BY <1>3, ClientStep, KindsSent DEF Peer
  <2> QED BY <2>1 DEF Next
<1> QED BY <1>1, <1>2, <1>3 DEF SysNext

(* Whatever the shell's own clients do, the server sees nothing that the   *)
(* peers of ChatServer do not do: with Spec they have all its theorems     *)
(* (builtins.c:780-930).                                                   *)
THEOREM ClientsArePeers == SysSpec => Spec
<1>1. SysInit => Init BY DEF SysInit
<1> QED BY <1>1, SysStep, PTL DEF SysSpec, Spec

---------------------------------------------------------------------------
(* The messages of a client in its stream. *)

LEMMA WholeSend ==
  ASSUME NEW s \in Seq(Segments), NEW x \in Segments, NoTwoParts(s),
         x.kind # "part" \/ EndsWhole(s)
  PROVE  NoTwoParts(Append(s, x)) /\ (x.kind # "part" => EndsWhole(Append(s, x)))
<1> DEFINE r == Append(s, x)
<1>1. /\ r \in Seq(Segments) /\ Len(r) = Len(s) + 1 /\ r[Len(s) + 1] = x
      /\ \A j \in 1 .. Len(s) : r[j] = s[j]
  BY AppendProperties
<1>2. Len(s) \in Nat BY LenProperties
<1> HIDE DEF r
<1>3. x.kind # "part" => EndsWhole(r) BY <1>1, <1>2 DEF EndsWhole
<1>4. ASSUME NEW k \in 1 .. Len(r) - 1, r[k].kind = "part" PROVE r[k + 1].kind # "part"
  <2>1. k \in 1 .. Len(s) /\ r[k] = s[k] BY <1>1, <1>2
  <2>2. CASE k = Len(s) BY <1>1, <1>2, <1>4, <2>1, <2>2 DEF EndsWhole
  <2>3. CASE k # Len(s)
    <3>1. k \in 1 .. Len(s) - 1 /\ r[k + 1] = s[k + 1] BY <1>1, <1>2, <2>1, <2>3
    <3> QED BY <1>4, <2>1, <3>1 DEF NoTwoParts
  <2> QED BY <2>2, <2>3
<1> QED BY <1>3, <1>4 DEF NoTwoParts, r

LEMMA WholeTake ==
  ASSUME NEW b \in Seq(Segments), NEW s \in Seq(Segments), NEW k \in Nat, k <= Len(b),
         NoTwoParts(b \o s)
  PROVE  LET rest == SubSeq(b, k + 1, Len(b)) IN
         NoTwoParts(rest \o s) /\ (EndsWhole(b \o s) => EndsWhole(rest \o s))
<1> DEFINE bs == b \o s  rest == SubSeq(b, k + 1, Len(b))  u == rest \o s
<1>1. Len(b) \in Nat /\ Len(s) \in Nat BY LenProperties
<1>2. /\ Len(bs) = Len(b) + Len(s)
      /\ \A i \in 1 .. Len(b) + Len(s) : bs[i] = IF i <= Len(b) THEN b[i] ELSE s[i - Len(b)]
  BY ConcatProperties
<1>3. /\ rest \in Seq(Segments) /\ Len(rest) = Len(b) - k
      /\ \A i \in 1 .. Len(b) - k : rest[i] = b[k + i]
  BY DropProperty
<1> HIDE DEF rest
<1>4. /\ Len(u) = Len(rest) + Len(s)
      /\ \A i \in 1 .. Len(rest) + Len(s) :
           u[i] = IF i <= Len(rest) THEN rest[i] ELSE s[i - Len(rest)]
  BY <1>3, ConcatProperties
<1>5. NoTwoParts(bs) OBVIOUS
<1> HIDE DEF bs, u
<1>6. /\ Len(u) = Len(bs) - k /\ Len(u) \in Nat
      /\ \A i \in 1 .. Len(u) : u[i] = bs[k + i]
  BY <1>1, <1>2, <1>3, <1>4
<1>7. NoTwoParts(u)
  <2> SUFFICES ASSUME NEW i \in 1 .. Len(u) - 1, u[i].kind = "part"
               PROVE  u[i + 1].kind # "part"
    BY DEF NoTwoParts
  <2>1. /\ i \in 1 .. Len(u) /\ i + 1 \in 1 .. Len(u)
        /\ k + i \in 1 .. Len(bs) - 1 /\ k + (i + 1) = (k + i) + 1
    BY <1>6
  <2>2. u[i] = bs[k + i] /\ u[i + 1] = bs[(k + i) + 1] BY <1>6, <2>1
  <2> QED BY <1>5, <2>1, <2>2 DEF NoTwoParts
<1>8. ASSUME EndsWhole(bs) PROVE EndsWhole(u)
  <2> SUFFICES ASSUME Len(u) > 0 PROVE u[Len(u)].kind # "part" BY DEF EndsWhole
  <2>1. Len(u) \in 1 .. Len(u) /\ k + Len(u) = Len(bs) /\ Len(bs) > 0 BY <1>6
  <2>2. u[Len(u)] = bs[Len(bs)] BY <1>6, <2>1
  <2> QED BY <1>8, <2>1, <2>2 DEF EndsWhole
<1> QED BY <1>7, <1>8 DEF bs, rest, u

LEMMA ReadBytesStream == ASSUME IInv, StreamInv, ReadBytes, UNCHANGED cpc PROVE StreamInv'
<1>1. PICK k \in 1 .. Len(in[curr]) :
        /\ buf' = [buf EXCEPT ![curr] = buf[curr] \o SubSeq(in[curr], 1, k)]
        /\ in' = [in EXCEPT ![curr] = SubSeq(in[curr], k + 1, Len(in[curr]))]
  BY DEF ReadBytes
<1>2. TypeOK /\ pc = "read" BY DEF ReadBytes, IInv
<1>3. curr \in Clients BY <1>2 DEF IInv, TypeOK, CursorInv
<1>4. buf'[curr] \o in'[curr] = buf[curr] \o in[curr]
  <2>1. /\ buf'[curr] = buf[curr] \o SubSeq(in[curr], 1, k)
        /\ in'[curr] = SubSeq(in[curr], k + 1, Len(in[curr]))
    BY <1>1, <1>2, <1>3 DEF TypeOK
  <2>2. buf[curr] \in Seq(Segments) /\ in[curr] \in Seq(Segments) BY <1>2, <1>3 DEF TypeOK
  <2>3. (buf[curr] \o SubSeq(in[curr], 1, k)) \o SubSeq(in[curr], k + 1, Len(in[curr]))
          = buf[curr] \o in[curr]
    BY <2>2, StreamRead
  <2> QED BY <2>1, <2>3
<1>5. \A c \in Clients : buf'[c] \o in'[c] = buf[c] \o in[c]
  BY <1>1, <1>2, <1>3, <1>4 DEF TypeOK
<1> QED BY <1>5 DEF StreamInv

LEMMA MessageStream ==
  ASSUME IInv, StreamInv, pc = "drain", get_message, UNCHANGED <<in, cpc>>
  PROVE  StreamInv'
<1>1. TypeOK /\ curr \in Clients BY DEF IInv, TypeOK, CursorInv
<1>2. PICK k \in 1 .. Len(buf[curr]) :
        buf' = [buf EXCEPT ![curr] = SubSeq(buf[curr], k + 1, Len(buf[curr]))]
  BY <1>1, GetMessageProperty
<1>3. \A c \in Clients : c # curr => buf'[c] = buf[c] BY <1>1, <1>2 DEF TypeOK
<1>4. buf'[curr] = SubSeq(buf[curr], k + 1, Len(buf[curr])) BY <1>1, <1>2 DEF TypeOK
<1>5. PICK b \in Seq(Segments), s \in Seq(Segments) : b = buf[curr] /\ s = in[curr]
  BY <1>1 DEF TypeOK
<1>6. k \in Nat /\ k <= Len(b) BY <1>5, LenProperties
<1>7. NoTwoParts(b \o s) /\ (cpc[curr] \notin {"rest", "gone"} => EndsWhole(b \o s))
  BY <1>1, <1>5 DEF StreamInv
<1>8. LET rest == SubSeq(b, k + 1, Len(b)) IN
        NoTwoParts(rest \o s) /\ (EndsWhole(b \o s) => EndsWhole(rest \o s))
  BY <1>6, <1>7, WholeTake
<1>9. /\ NoTwoParts(buf'[curr] \o in'[curr])
      /\ cpc'[curr] \notin {"rest", "gone"} => EndsWhole(buf'[curr] \o in'[curr])
  BY <1>4, <1>5, <1>7, <1>8
<1> QED BY <1>3, <1>9 DEF StreamInv

LEMMA SendsStream ==
  ASSUME IInv, StreamInv, cpc \in [Clients -> Cpcs], NEW c \in Clients, NEW kind \in Kinds,
         PeerSends(c, kind),
         \/ kind # "part" /\ \A d \in Clients \ {c} : cpc'[d] = cpc[d]
         \/ cpc[c] = "write" /\ cpc' = [cpc EXCEPT ![c] = "rest"]
  PROVE  StreamInv'
<1>1. TypeOK BY DEF IInv
<1>2. PICK s \in Seq(Segments) : s = buf[c] \o in[c] BY <1>1, FramingTypes
<1>3. PICK x \in Segments : x.kind = kind /\ in' = [in EXCEPT ![c] = Append(in[c], x)]
  <2>1. PICK m \in Nat : m = sent[c].chats + IF kind = "chat" THEN 1 ELSE 0
    BY <1>1, FramingTypes
  <2>2. [kind |-> kind, n |-> m] \in Segments BY DEF Segments
  <2>3. in' = [in EXCEPT ![c] = Append(in[c], [kind |-> kind, n |-> m])]
    BY <2>1 DEF PeerSends
  <2> QED BY <2>2, <2>3
<1>4. UNCHANGED buf BY DEF PeerSends, server
<1>5. \A d \in Clients \ {c} : in'[d] = in[d] /\ cpc'[d] = cpc[d] BY <1>1, <1>3 DEF TypeOK
<1>6. in'[c] = Append(in[c], x) BY <1>1, <1>3 DEF TypeOK
<1>7. buf'[c] \o in'[c] = Append(s, x)
  <2>1. buf[c] \in Seq(Segments) /\ in[c] \in Seq(Segments) BY <1>1, FramingTypes
  <2>2. PICK b \in Seq(Segments), t \in Seq(Segments) : b = buf[c] /\ t = in[c] BY <2>1
  <2>3. b \o Append(t, x) = Append(b \o t, x) BY StreamSend
  <2> QED BY <1>2, <1>4, <1>6, <2>2, <2>3
<1>8. NoTwoParts(s) /\ (cpc[c] = "write" => EndsWhole(s)) BY <1>2 DEF StreamInv
<1>9. NoTwoParts(Append(s, x)) /\ (x.kind # "part" => EndsWhole(Append(s, x)))
  BY <1>3, <1>8, WholeSend
<1>10. /\ NoTwoParts(buf'[c] \o in'[c])
       /\ cpc'[c] \notin {"rest", "gone"} => EndsWhole(buf'[c] \o in'[c])
  BY <1>3, <1>7, <1>9
<1> QED BY <1>4, <1>5, <1>10 DEF StreamInv

---------------------------------------------------------------------------
(* What select() has found readable. *)

(* Only the clients behind curr in the list can be next, and those behind  *)
(* the next one are among them.                                            *)
LEMMA ProceedAhead ==
  ASSUME clients' \in Seq(Clients), IsInjective(clients'), NEW watched \in SUBSET Clients,
         NEW i \in Nat \ {0}, Proceed(clients', watched, i),
         \A c \in watched, j \in i .. Len(clients') : clients'[j] = c => Readable(c)'
  PROVE  ReadyInv'
<1>1. PICK list \in Seq(Clients) : list = clients' OBVIOUS
<1> DEFINE ahead == {j \in i .. Len(list) : list[j] \in watched}
<1>2. IF ahead = {}
      THEN pc' = "select" /\ curr' = NULL /\ listen_fds' = {}
      ELSE pc' = "read" /\ curr' = list[Min(ahead)] /\ listen_fds' = watched
  BY <1>1 DEF Proceed
<1>3. CASE ahead = {} BY <1>2, <1>3 DEF ReadyInv
<1>4. CASE ahead # {}
  <2>1. Len(list) \in Nat /\ DOMAIN list = 1 .. Len(list) BY LenProperties
  <2>2. ahead \in SUBSET Nat BY <2>1
  <2>3. PICK m \in ahead : m = Min(ahead) BY <1>4, <2>2, MinProperty
  <2>4. m \in i .. Len(list) /\ m \in 1 .. Len(list) /\ list[m] \in watched BY <2>1
  <2>5. pc' = "read" /\ curr' = list[m] /\ listen_fds' = watched BY <1>2, <1>4, <2>3
  <2>6. Readable(curr)'
    <3>1. PICK d \in watched : d = list[m] BY <2>4
    <3>2. Readable(d)' BY <1>1, <2>4, <3>1
    <3> QED BY <2>5, <3>1, <3>2 DEF Readable
  <2>7. ASSUME NEW c \in watched, Ahead(c)' PROVE Readable(c)'
    <3>1. PICK x \in 1 .. Len(list), y \in 1 .. Len(list) :
            x < y /\ list[x] = list[m] /\ list[y] = c
      BY <1>1, <2>5, <2>7 DEF Ahead
    <3>2. x = m BY <1>1, <2>1, <2>4, <3>1 DEF IsInjective
    <3>3. y \in i .. Len(list) BY <2>1, <2>4, <3>1, <3>2
    <3> QED BY <1>1, <3>1, <3>3
  <2> QED BY <2>4, <2>5, <2>6, <2>7 DEF ReadyInv
<1> QED BY <1>3, <1>4

(* A step that goes on with the same client. *)
LEMMA ReadyKept ==
  ASSUME TypeOK, ReadyInv, UNCHANGED <<clients, curr, listen_fds>>,
         pc' = pc \/ (pc \in {"read", "drain", "send"} /\ pc' \in {"drain", "send"}) \/ pc' = "uaf",
         \A c \in Clients : Readable(c) => Readable(c)'
  PROVE  ReadyInv'
<1>1. listen_fds \subseteq Clients BY DEF TypeOK
<1>2. \A c : Ahead(c)' <=> Ahead(c) BY DEF Ahead
<1> QED BY <1>1, <1>2 DEF ReadyInv

(* The clients at the later places of the list are ahead, and curr is not. *)
LEMMA LaterIsAhead ==
  ASSUME IInv, curr \in all_fds, NEW j \in IndexOf(curr) + 1 .. Len(clients)
  PROVE  clients[j] # curr /\ Ahead(clients[j]) /\ clients[j] \in Clients
<1>1. TypeOK /\ ListInv BY DEF IInv
<1>2. /\ IndexOf(curr) \in 1 .. Len(clients) /\ clients[IndexOf(curr)] = curr
      /\ Len(clients) \in Nat
      /\ \A i \in 1 .. Len(clients) : clients[i] = curr => i = IndexOf(curr)
  BY <1>1, IndexOfProperty
<1>3. j \in 1 .. Len(clients) /\ IndexOf(curr) < j BY <1>2
<1>4. clients[j] \in Clients BY <1>1, <1>3, ElementOfSeq DEF TypeOK
<1> QED BY <1>2, <1>3, <1>4 DEF Ahead

LEMMA SelectReady == ASSUME IInv, Select PROVE ReadyInv'
<1>1. IInv' BY SelectPreserves
<1>2. clients' \in Seq(Clients) /\ IsInjective(clients') BY <1>1 DEF IInv, TypeOK, ListInv
<1> DEFINE watched == {c \in all_fds : Readable(c)}
<1>3. Proceed(clients', watched, 1) /\ UNCHANGED <<in, conn>> BY DEF Select
<1>4. watched \in SUBSET Clients BY DEF IInv, TypeOK
<1>5. \A c \in watched : Readable(c)' BY <1>3 DEF Readable
<1> HIDE DEF watched
<1> QED BY <1>2, <1>3, <1>4, <1>5, ProceedAhead

LEMMA DrainEndsReady == ASSUME IInv, ReadyInv, DrainEnds PROVE ReadyInv'
<1>1. /\ pc = "drain" /\ curr \in all_fds
      /\ Proceed(clients, listen_fds, IndexOf(curr) + 1)
      /\ UNCHANGED <<clients, in, conn>>
  BY DEF DrainEnds, IInv, CursorInv, peers
<1>2. TypeOK /\ ListInv BY DEF IInv
<1>3. IndexOf(curr) + 1 \in Nat \ {0}
  <2>1. IndexOf(curr) \in 1 .. Len(clients) BY <1>1, <1>2, IndexOfProperty
  <2> QED BY <2>1
<1>4. clients' \in Seq(Clients) /\ IsInjective(clients') /\ listen_fds \in SUBSET Clients
  BY <1>1, <1>2 DEF TypeOK, ListInv
<1>5. \A c \in listen_fds, j \in IndexOf(curr) + 1 .. Len(clients) :
        clients[j] = c => Readable(c)
  BY <1>1, LaterIsAhead DEF ReadyInv
<1>6. \A c \in listen_fds, j \in IndexOf(curr) + 1 .. Len(clients') :
        clients'[j] = c => Readable(c)'
  BY <1>1, <1>5 DEF Readable
<1>7. Proceed(clients', listen_fds, IndexOf(curr) + 1) BY <1>1 DEF Proceed
<1> QED BY <1>3, <1>4, <1>6, <1>7, ProceedAhead

LEMMA ReadBytesReady == ASSUME IInv, ReadyInv, ReadBytes PROVE ReadyInv'
<1>1. /\ pc = "read" /\ curr \in all_fds /\ UNCHANGED <<clients, conn>>
      /\ \/ pc' = "drain" /\ UNCHANGED <<curr, listen_fds>>
         \/ Proceed(clients, listen_fds, IndexOf(curr) + 1)
  BY DEF ReadBytes, IInv, CursorInv
<1>2. TypeOK /\ ListInv /\ curr \in Clients BY <1>1 DEF IInv, TypeOK
<1>3. \A c \in Clients : c # curr => in'[c] = in[c] BY <1>2 DEF ReadBytes, TypeOK
<1>4. \A c \in Clients : c # curr /\ Readable(c) => Readable(c)' BY <1>1, <1>3 DEF Readable
<1>5. CASE pc' = "drain" /\ UNCHANGED <<curr, listen_fds>>
  <2> SUFFICES ASSUME NEW c \in listen_fds, Ahead(c)' PROVE Readable(c)'
    BY <1>5 DEF ReadyInv
  <2>1. Ahead(c) BY <1>1, <1>5 DEF Ahead
  <2>2. c # curr
    <3>1. PICK x \in 1 .. Len(clients), y \in 1 .. Len(clients) :
            x < y /\ clients[x] = curr /\ clients[y] = c
      BY <2>1 DEF Ahead
    <3>2. \A i \in 1 .. Len(clients) : clients[i] = curr => i = IndexOf(curr)
      BY <1>1, <1>2, IndexOfProperty
    <3>3. Len(clients) \in Nat BY <1>2, LenProperties DEF TypeOK
    <3> QED BY <3>1, <3>2, <3>3
  <2>3. c \in Clients BY <1>2 DEF TypeOK
  <2> QED BY <1>1, <1>4, <2>1, <2>2, <2>3 DEF ReadyInv
<1>6. CASE Proceed(clients, listen_fds, IndexOf(curr) + 1)
  <2>1. IndexOf(curr) + 1 \in Nat \ {0}
    <3>1. IndexOf(curr) \in 1 .. Len(clients) BY <1>1, <1>2, IndexOfProperty
    <3> QED BY <3>1
  <2>2. clients' \in Seq(Clients) /\ IsInjective(clients') /\ listen_fds \in SUBSET Clients
    BY <1>1, <1>2 DEF TypeOK, ListInv
  <2>3. \A c \in listen_fds, j \in IndexOf(curr) + 1 .. Len(clients) :
          clients[j] = c => c # curr /\ c \in Clients /\ Readable(c)
    BY <1>1, LaterIsAhead DEF ReadyInv
  <2>4. \A c \in listen_fds, j \in IndexOf(curr) + 1 .. Len(clients') :
          clients'[j] = c => Readable(c)'
    BY <1>1, <1>4, <2>3
  <2>5. Proceed(clients', listen_fds, IndexOf(curr) + 1) BY <1>1, <1>6 DEF Proceed
  <2> QED BY <2>1, <2>2, <2>4, <2>5, ProceedAhead
<1> QED BY <1>1, <1>5, <1>6

LEMMA DisconnectReady == ASSUME IInv, ReadyInv, Disconnect PROVE ReadyInv'
<1>1. /\ pc = "read" /\ curr \in all_fds /\ UNCHANGED in
      /\ conn' = [conn EXCEPT ![curr] = "closed"]
      /\ clients' = RemoveAt(clients, IndexOf(curr))
      /\ Proceed(clients', listen_fds, IndexOf(curr))
  BY DEF Disconnect, CloseFd, remove_client, IInv, CursorInv
<1>2. TypeOK /\ ListInv /\ curr \in Clients BY <1>1 DEF IInv, TypeOK
<1>3. IndexOf(curr) \in 1 .. Len(clients) /\ Len(clients) \in Nat
  BY <1>1, <1>2, IndexOfProperty
<1>4. PICK k \in 1 .. Len(clients) : k = IndexOf(curr) BY <1>3
<1>5. clients \in Seq(Clients) /\ listen_fds \in SUBSET Clients BY <1>2 DEF TypeOK
<1>6. /\ Len(clients') = Len(clients) - 1
      /\ \A j \in 1 .. Len(clients) - 1 :
           clients'[j] = IF j < k THEN clients[j] ELSE clients[j + 1]
  BY <1>1, <1>4, <1>5, RemoveAtProperty
<1>7. IInv' BY DisconnectPreserves
<1>8. clients' \in Seq(Clients) /\ IsInjective(clients') BY <1>7 DEF IInv, TypeOK, ListInv
<1>9. ASSUME NEW c \in listen_fds, NEW j \in k .. Len(clients'), clients'[j] = c
      PROVE  Readable(c)'
  <2>1. j + 1 \in k + 1 .. Len(clients) /\ clients'[j] = clients[j + 1] BY <1>3, <1>6
  <2>2. clients[j + 1] # curr /\ Ahead(clients[j + 1]) /\ clients[j + 1] \in Clients
    BY <1>1, <1>4, <2>1, LaterIsAhead
  <2>3. c \in Clients /\ c = clients[j + 1] BY <1>9, <2>1, <2>2
  <2>4. Readable(c) BY <1>1, <2>2, <2>3 DEF ReadyInv
  <2>5. in'[c] = in[c] /\ conn'[c] = conn[c] BY <1>1, <1>2, <2>2, <2>3 DEF TypeOK
  <2> QED BY <2>4, <2>5 DEF Readable
<1>10. k \in Nat \ {0} BY <1>3
<1> QED BY <1>1, <1>4, <1>5, <1>8, <1>9, <1>10, ProceedAhead

(* The client that is removed may be curr, and then nobody is ahead. *)
LEMMA SendFailsReady == ASSUME IInv, ReadyInv, SendFails PROVE ReadyInv'
<1>1. pc = "send" /\ dest # NULL /\ UNCHANGED <<listen_fds, curr, in>>
  BY DEF SendFails, Sending
<1>2. TypeOK /\ ListInv /\ dest \in all_fds /\ dest \in Clients
  BY <1>1 DEF IInv, TypeOK, CursorInv
<1>3. CASE pc' = "uaf" BY <1>3 DEF ReadyInv
<1>4. CASE CloseFd(dest) /\ remove_client(dest) /\ UNCHANGED pc
  <2>1. /\ conn' = [conn EXCEPT ![dest] = "closed"]
        /\ clients' = RemoveAt(clients, IndexOf(dest))
    BY <1>4 DEF CloseFd, remove_client
  <2>2. /\ IndexOf(dest) \in 1 .. Len(clients) /\ Len(clients) \in Nat
        /\ \A j \in 1 .. Len(clients) : clients[j] = dest => j = IndexOf(dest)
    BY <1>2, IndexOfProperty
  <2>3. PICK k \in 1 .. Len(clients) : k = IndexOf(dest) BY <2>2
  <2>4. clients \in Seq(Clients) BY <1>2 DEF TypeOK
  <2>5. /\ Len(clients') = Len(clients) - 1
        /\ \A j \in 1 .. Len(clients) - 1 :
             clients'[j] = IF j < k THEN clients[j] ELSE clients[j + 1]
    BY <2>1, <2>3, <2>4, RemoveAtProperty
  <2> SUFFICES ASSUME NEW c \in listen_fds, Ahead(c)' PROVE Readable(c)'
    BY <1>1, <1>4 DEF ReadyInv
  <2>6. PICK x \in 1 .. Len(clients) - 1, y \in 1 .. Len(clients) - 1 :
          x < y /\ clients'[x] = curr /\ clients'[y] = c
    BY <1>1, <2>5 DEF Ahead
  <2>7. PICK x1 \in 1 .. Len(clients) : clients[x1] = curr /\ x1 = IF x < k THEN x ELSE x + 1
    BY <2>2, <2>5, <2>6
  <2>8. PICK y1 \in 1 .. Len(clients) : clients[y1] = c /\ y1 = IF y < k THEN y ELSE y + 1
    BY <2>2, <2>5, <2>6
  <2>9. x1 < y1 /\ y1 # k BY <2>2, <2>6, <2>7, <2>8
  <2>10. Ahead(c) BY <2>7, <2>8, <2>9 DEF Ahead
  <2>11. c # dest BY <2>2, <2>3, <2>8, <2>9
  <2>12. c \in Clients BY <1>2 DEF TypeOK
  <2>13. in'[c] = in[c] /\ conn'[c] = conn[c] BY <1>1, <1>2, <2>1, <2>11, <2>12 DEF TypeOK
  <2>14. Readable(c) BY <1>1, <2>10 DEF ReadyInv
  <2> QED BY <2>13, <2>14 DEF Readable
<1> QED BY <1>3, <1>4 DEF SendFails

(* A write to a peer leaves it readable. *)
LEMMA WriteReadable ==
  ASSUME TypeOK, NEW d \in Clients, CanWrite(d), WriteTo(d), UNCHANGED in
  PROVE  \A c \in Clients : Readable(c) => Readable(c)'
<1>1. PICK answer \in {"open", "fin", "reset"} :
        conn' = [conn EXCEPT ![d] = answer] /\ (answer = "open" <=> conn[d] = "open")
  BY WriteProperty
<1>2. \A c \in Clients : c # d => conn'[c] = conn[c] BY <1>1 DEF TypeOK
<1>3. conn'[d] = answer BY <1>1 DEF TypeOK
<1> QED BY <1>1, <1>2, <1>3 DEF Readable

LEMMA ServerReady == ASSUME IInv, ReadyInv, run_server PROVE ReadyInv'
<1>1. TypeOK BY DEF IInv
<1>2. CASE ReplyCount
  <2>1. /\ pc = "drain" /\ UNCHANGED <<pc, clients, curr, listen_fds, in>>
        /\ (CanWrite(curr) /\ WriteTo(curr)) \/ UNCHANGED conn
    BY <1>2 DEF ReplyCount
  <2>2. curr \in Clients BY <2>1 DEF IInv, TypeOK, CursorInv
  <2>3. \A c \in Clients : Readable(c) => Readable(c)'
    <3>1. CASE CanWrite(curr) /\ WriteTo(curr)
      <4>1. PICK d \in Clients : d = curr BY <2>2
      <4>2. CanWrite(d) /\ WriteTo(d) BY <3>1, <4>1
      <4> QED BY <1>1, <2>1, <4>2, WriteReadable
    <3>2. CASE UNCHANGED conn BY <2>1, <3>2 DEF Readable
    <3> QED BY <2>1, <3>1, <3>2
  <2> QED BY <1>1, <2>1, <2>3, ReadyKept
<1>3. CASE StartBroadcast \/ BroadcastEnds
  <2>1. /\ pc \in {"drain", "send"} /\ pc' \in {"drain", "send", "uaf"}
        /\ UNCHANGED <<clients, curr, listen_fds, in, conn>>
    BY <1>3 DEF StartBroadcast, BroadcastEnds, peers
  <2>2. \A c \in Clients : Readable(c) => Readable(c)' BY <2>1 DEF Readable
  <2> QED BY <1>1, <2>1, <2>2, ReadyKept
<1>4. CASE SendTo
  <2>1. /\ pc = "send" /\ dest # NULL /\ UNCHANGED <<pc, clients, curr, listen_fds, in>>
        /\ CanWrite(dest) /\ WriteTo(dest)
    BY <1>4 DEF SendTo, Sending
  <2>2. PICK d \in Clients : d = dest BY <2>1 DEF IInv, TypeOK
  <2>3. CanWrite(d) /\ WriteTo(d) BY <2>1, <2>2
  <2>4. \A c \in Clients : Readable(c) => Readable(c)' BY <1>1, <2>1, <2>3, WriteReadable
  <2> QED BY <1>1, <2>1, <2>4, ReadyKept
<1> QED BY <1>2, <1>3, <1>4, SelectReady, ReadBytesReady, DisconnectReady, DrainEndsReady,
        SendFailsReady DEF run_server

LEMMA PeerReady ==
  ASSUME IInv, ReadyInv, NEW c \in Clients,
         PeerConnects(c) \/ PeerReads(c) \/ PeerCloses(c) \/ \E kind \in Kinds : PeerSends(c, kind)
  PROVE  ReadyInv'
<1>1. TypeOK BY DEF IInv
<1>2. UNCHANGED <<pc, clients, curr, listen_fds>>
  BY DEF PeerConnects, PeerReads, PeerCloses, PeerSends, server
<1>3. \A d \in Clients : conn[d] \in {"fin", "reset"} => conn'[d] = conn[d]
  BY <1>1 DEF PeerConnects, PeerReads, PeerCloses, PeerSends, TypeOK
<1>4. \A d \in Clients : in[d] # <<>> => in'[d] # <<>>
  <2>1. CASE PeerConnects(c) \/ PeerReads(c) \/ PeerCloses(c)
    BY <2>1 DEF PeerConnects, PeerReads, PeerCloses
  <2>2. ASSUME NEW kind \in Kinds, PeerSends(c, kind)
        PROVE  \A d \in Clients : in[d] # <<>> => in'[d] # <<>>
    <3>1. PICK x : in' = [in EXCEPT ![c] = Append(in[c], x)] BY <2>2 DEF PeerSends
    <3>2. in[c] \in Seq(Segments) BY <1>1 DEF TypeOK
    <3>3. Append(in[c], x) # <<>> BY <3>2
    <3> QED BY <1>1, <3>1, <3>3 DEF TypeOK
  <2> QED BY <2>1, <2>2
<1>5. \A d \in Clients : Readable(d) => Readable(d)' BY <1>3, <1>4 DEF Readable
<1> QED BY <1>1, <1>2, <1>5, ReadyKept

---------------------------------------------------------------------------
(* Nobody is thrown out. *)

(* A buffer in which no message is complete holds one part at most. *)
LEMMA RoomLeft ==
  ASSUME NEW b \in Seq(Segments), NEW s \in Seq(Segments), NoTwoParts(b \o s), NoNewline(b)
  PROVE  Len(b) < BufCap
<1>1. Len(b) \in Nat /\ Len(s) \in Nat BY LenProperties
<1>2. BufCap \in Nat /\ BufCap >= 2 BY BoundsAssumption, ClientAssumption
<1>3. CASE Len(b) >= 2
  <2> DEFINE u == b \o s
  <2>1. /\ Len(u) = Len(b) + Len(s)
        /\ \A i \in 1 .. Len(b) + Len(s) : u[i] = IF i <= Len(b) THEN b[i] ELSE s[i - Len(b)]
    BY ConcatProperties
  <2>2. NoTwoParts(u) OBVIOUS
  <2> HIDE DEF u
  <2>3. u[1] = b[1] /\ u[2] = b[2] /\ 1 \in 1 .. Len(u) - 1 BY <1>1, <1>3, <2>1
  <2>4. b[1].kind = "part" /\ b[2].kind = "part" BY <1>1, <1>3 DEF NoNewline
  <2>5. u[1 + 1].kind # "part" BY <2>2, <2>3, <2>4 DEF NoTwoParts
  <2> QED BY <2>3, <2>4, <2>5
<1> QED BY <1>1, <1>2, <1>3

LEMMA DisconnectGone ==
  ASSUME IInv, StreamInv, ReadyInv, GoneInv, Disconnect
  PROVE  cpc[curr] = "gone" /\ curr \in Clients /\ conn' = [conn EXCEPT ![curr] = "closed"]
<1>1. /\ in[curr] = <<>> \/ Len(buf[curr]) = BufCap
      /\ conn' = [conn EXCEPT ![curr] = "closed"]
  BY DEF Disconnect, CloseFd
<1>2. curr \in all_fds /\ curr \in Clients /\ Readable(curr) /\ pc = "read"
  BY DEF Disconnect, IInv, TypeOK, CursorInv, ReadyInv
<1>3. PICK b \in Seq(Segments), s \in Seq(Segments) : b = buf[curr] /\ s = in[curr]
  BY <1>2 DEF IInv, TypeOK
<1>4. NoTwoParts(b \o s) BY <1>2, <1>3 DEF StreamInv
<1>5. NoNewline(b) BY <1>2, <1>3 DEF IInv, BufInv, Alive
<1>6. Len(b) < BufCap BY <1>4, <1>5, RoomLeft
<1>7. Len(b) \in Nat /\ BufCap \in Nat BY LenProperties, BoundsAssumption
<1>8. in[curr] = <<>> BY <1>1, <1>3, <1>6, <1>7
<1> QED BY <1>1, <1>2, <1>8 DEF Readable, GoneInv

LEMMA ServerGone ==
  ASSUME IInv, StreamInv, ReadyInv, GoneInv, run_server, UNCHANGED cpc
  PROVE  GoneInv'
<1>1. TypeOK BY DEF IInv
<1>2. CASE Disconnect
  <2>1. cpc[curr] = "gone" /\ curr \in Clients /\ conn' = [conn EXCEPT ![curr] = "closed"]
    BY <1>2, DisconnectGone
  <2> QED BY <1>1, <2>1 DEF GoneInv, TypeOK
<1>3. CASE SendFails
  <2>1. /\ conn[dest] = "reset" /\ dest \in Clients
        /\ UNCHANGED conn \/ conn' = [conn EXCEPT ![dest] = "closed"]
    BY <1>1, <1>3 DEF SendFails, Sending, CloseFd, TypeOK
  <2> QED BY <1>1, <2>1 DEF GoneInv, TypeOK
<1>4. ASSUME NEW d \in Clients, CanWrite(d), WriteTo(d) PROVE GoneInv'
  <2>1. /\ conn[d] \in {"open", "fin"}
        /\ \E answer \in {"open", "fin", "reset"} :
             conn' = [conn EXCEPT ![d] = answer] /\ (answer = "open" <=> conn[d] = "open")
    BY <1>1, <1>4, WriteProperty
  <2> QED BY <1>1, <2>1 DEF GoneInv, TypeOK
<1>5. CASE ReplyCount
  <2>1. (CanWrite(curr) /\ WriteTo(curr)) \/ UNCHANGED conn BY <1>5 DEF ReplyCount
  <2>2. PICK d \in Clients : d = curr BY <1>5 DEF ReplyCount, IInv, TypeOK, CursorInv
  <2>3. (CanWrite(d) /\ WriteTo(d)) \/ UNCHANGED conn BY <2>1, <2>2
  <2> QED BY <1>4, <2>3 DEF GoneInv
<1>6. CASE SendTo
  <2>1. dest # NULL /\ CanWrite(dest) /\ WriteTo(dest) BY <1>6 DEF SendTo, Sending
  <2>2. PICK d \in Clients : d = dest BY <1>1, <2>1 DEF TypeOK
  <2>3. CanWrite(d) /\ WriteTo(d) BY <2>1, <2>2
  <2> QED BY <1>4, <2>3
<1>7. CASE Select \/ ReadBytes \/ DrainEnds \/ StartBroadcast \/ BroadcastEnds
  <2>1. UNCHANGED conn
    BY <1>7 DEF Select, ReadBytes, DrainEnds, StartBroadcast, BroadcastEnds, peers
  <2> QED BY <2>1 DEF GoneInv
<1> QED BY <1>2, <1>3, <1>5, <1>6, <1>7 DEF run_server

LEMMA ServerStream ==
  ASSUME IInv, StreamInv, run_server, UNCHANGED cpc
  PROVE  StreamInv'
<1>1. CASE ReplyCount \/ StartBroadcast
  <2>1. pc = "drain" /\ get_message /\ UNCHANGED in
    BY <1>1 DEF ReplyCount, StartBroadcast, peers
  <2> QED BY <2>1, MessageStream
<1>2. CASE \/ Select \/ Disconnect \/ DrainEnds \/ SendTo \/ SendFails \/ BroadcastEnds
  <2>1. UNCHANGED <<buf, in>>
    BY <1>2 DEF Select, Disconnect, DrainEnds, SendTo, SendFails, BroadcastEnds, peers
  <2> QED BY <2>1 DEF StreamInv
<1> QED BY <1>1, <1>2, ReadBytesStream DEF run_server

(* What a step of a client does to where it stands. *)
LEMMA ClientCpc ==
  ASSUME cpc \in [Clients -> Cpcs], NEW c \in Clients,
         \/ UserTypes(c) \/ connect_to_server(c) \/ bn_start_client(c) \/ ClientLeaves(c)
         \/ SendConnects(c) \/ bn_send(c)
  PROVE  /\ cpc' \in [Clients -> Cpcs]
         /\ \A d \in Clients \ {c} : cpc'[d] = cpc[d]
         /\ cpc[c] # "gone"
         /\ cpc'[c] # "rest" => cpc'[c] = "gone" \/ cpc[c] # "rest" \/
                                PeerSends(c, "chat") \/ PeerSends(c, "connected")
         /\ cpc'[c] = "rest" =>
              cpc[c] = "write" /\ PeerSends(c, "part") /\ cpc' = [cpc EXCEPT ![c] = "rest"]
BY DEF UserTypes, connect_to_server, bn_start_client, ClientSelect, ClientWrites, MayCut,
   AfterWrite, ClientReads, ClientLeaves, SendConnects, bn_send, SendWrites, SendCloses, Cpcs

LEMMA ClientPreserves ==
  ASSUME SysInv, NEW c \in Clients,
         \/ UserTypes(c) \/ connect_to_server(c) \/ bn_start_client(c) \/ ClientLeaves(c)
         \/ SendConnects(c) \/ bn_send(c)
  PROVE  cpc' \in [Clients -> Cpcs] /\ StreamInv' /\ ReadyInv' /\ GoneInv'
<1>1. IInv /\ TypeOK /\ cpc \in [Clients -> Cpcs] /\ StreamInv /\ ReadyInv /\ GoneInv
  BY DEF SysInv, IInv
<1>2. /\ cpc' \in [Clients -> Cpcs]
      /\ \A d \in Clients \ {c} : cpc'[d] = cpc[d]
      /\ cpc[c] # "gone"
      /\ cpc'[c] # "rest" => cpc'[c] = "gone" \/ cpc[c] # "rest" \/
                             PeerSends(c, "chat") \/ PeerSends(c, "connected")
      /\ cpc'[c] = "rest" =>
           cpc[c] = "write" /\ PeerSends(c, "part") /\ cpc' = [cpc EXCEPT ![c] = "rest"]
  BY <1>1, ClientCpc
<1>3. \/ UNCHANGED vars
      \/ PeerConnects(c) /\ cpc[c] = "shell"
      \/ PeerReads(c)
      \/ PeerCloses(c) /\ cpc' = [cpc EXCEPT ![c] = "gone"]
      \/ /\ PeerSends(c, "part") /\ cpc[c] = "write"
         /\ cpc' = [cpc EXCEPT ![c] = "rest"]
      \/ PeerSends(c, "chat") \/ PeerSends(c, "connected")
  BY ClientStep
<1>4. ReadyInv'
  <2>1. CASE UNCHANGED vars
    BY <1>1, <2>1 DEF vars, server, peers, ReadyInv, Ahead, Readable
  <2>2. "part" \in Kinds /\ "chat" \in Kinds /\ "connected" \in Kinds BY DEF Kinds
  <2> QED BY <1>1, <1>3, <2>1, <2>2, PeerReady
<1>5. GoneInv'
  <2>1. \/ \A d \in Clients : conn'[d] = conn[d]
        \/ conn' = [conn EXCEPT ![c] = "open"]
        \/ cpc'[c] = "gone" /\ \A d \in Clients \ {c} : conn'[d] = conn[d]
    BY <1>1, <1>3
       DEF TypeOK, vars, peers, PeerConnects, PeerReads, PeerCloses, PeerSends
  <2>2. \A d \in Clients : conn'[d] \in {"fin", "reset", "closed"} =>
          conn[d] \in {"fin", "reset", "closed"} \/ (d = c /\ cpc'[c] = "gone")
    BY <1>1, <2>1 DEF TypeOK
  <2> QED BY <1>1, <1>2, <2>2 DEF GoneInv
<1>6. StreamInv'
  <2>1. CASE UNCHANGED <<buf, in>> /\ (cpc'[c] = "gone" \/ cpc[c] # "rest") /\ cpc'[c] # "rest"
    <3>1. \A d \in Clients : cpc'[d] \notin {"rest", "gone"} => cpc[d] \notin {"rest", "gone"}
      BY <1>2, <2>1
    <3> QED BY <1>1, <2>1, <3>1 DEF StreamInv
  <2>2. CASE PeerSends(c, "chat") \/ PeerSends(c, "connected")
    <3>1. PICK kind \in Kinds : kind # "part" /\ PeerSends(c, kind) BY <2>2 DEF Kinds
    <3> QED BY <1>1, <1>2, <3>1, SendsStream
  <2>3. CASE PeerSends(c, "part") /\ cpc[c] = "write" /\ cpc' = [cpc EXCEPT ![c] = "rest"]
    <3>1. PICK kind \in Kinds : kind = "part" BY DEF Kinds
    <3>2. PeerSends(c, kind) BY <2>3, <3>1
    <3> QED BY <1>1, <2>3, <3>2, SendsStream
  <2>4. CASE UNCHANGED vars \/ PeerConnects(c) \/ PeerReads(c) \/ PeerCloses(c)
    <3>1. UNCHANGED <<buf, in>>
      BY <2>4 DEF vars, server, peers, PeerConnects, PeerReads, PeerCloses
    <3> QED BY <1>2, <2>1, <2>2, <2>3, <3>1
  <2> QED BY <1>3, <2>2, <2>3, <2>4
<1> QED BY <1>2, <1>4, <1>5, <1>6

LEMMA SysInvariant == SysSpec => []SysInv
<1>1. SysInit => SysInv
  <2> SUFFICES ASSUME SysInit PROVE SysInv OBVIOUS
  <2>1. IInv BY InitIInv DEF SysInit
  <2>2. cpc \in [Clients -> Cpcs] BY DEF SysInit, Cpcs
  <2>3. \A c \in Clients : buf[c] \o in[c] = <<>>
    BY DEF SysInit, Init
  <2>4. NoTwoParts(<<>>) /\ EndsWhole(<<>>)
    <3>1. Len(<<>>) = 0 OBVIOUS
    <3> QED BY <3>1 DEF NoTwoParts, EndsWhole
  <2>5. StreamInv BY <2>3, <2>4 DEF StreamInv
  <2>6. ReadyInv /\ GoneInv BY DEF SysInit, Init, ReadyInv, GoneInv
  <2> QED BY <2>1, <2>2, <2>5, <2>6 DEF SysInv
<1>2. SysInv /\ [SysNext]_sysVars => SysInv'
  <2> SUFFICES ASSUME SysInv, [SysNext]_sysVars PROVE SysInv' OBVIOUS
  <2>1. IInv' BY SysStep, NextIInv DEF SysInv
  <2>2. CASE UNCHANGED sysVars
    BY <2>1, <2>2 DEF sysVars, clientVars, vars, server, peers, SysInv, StreamInv, ReadyInv,
       Ahead, Readable, GoneInv
  <2>3. CASE run_server /\ UNCHANGED clientVars
    <3>1. UNCHANGED cpc BY <2>3 DEF clientVars
    <3> QED BY <2>1, <2>3, <3>1, ServerStream, ServerReady, ServerGone DEF SysInv
  <2> QED BY <2>1, <2>2, <2>3, ClientPreserves DEF SysNext, SysInv
<1> QED BY <1>1, <1>2, PTL DEF SysSpec

(* No client that is still there has its connection closed by the server,  *)
(* whatever the number of clients, the sockets' sizes and the cuts that    *)
(* the messages suffer on the way (socket.c:65-82, server.c:242-247).      *)
THEOREM NeverThrownOutCorrect == SysSpec => []NeverThrownOut
<1>1. SysInv => NeverThrownOut BY DEF SysInv, GoneInv, NeverThrownOut
<1> QED BY SysInvariant, <1>1, PTL
===========================================================================
