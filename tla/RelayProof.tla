----------------------------- MODULE RelayProof ------------------------------
(***************************************************************************)
(* The arrays of a connection's thread are never overrun unnoticed, its    *)
(* sockets are accounted for, and a client gets the server's answer: for   *)
(* all sizes of the buffers, all requests and all answers.  What the       *)
(* proofs carry through the steps is where the bytes of the answer are     *)
(* (Moved), what of them is collected (Gathered), what a hit sends (Hits)  *)
(* and how many sockets each place of the thread stands for (Sockets); and *)
(* for the server's side, where the bytes of the request are (InOrder) and *)
(* what header its lines have made so far (AtLine).                        *)
(***************************************************************************)
EXTENDS Relay, Integers, ListLemmas

(* Whatever an array may hold.                                             *)
Bytes == Seq(Letters \cup Numbers)

Strings ==
    /\ sent \in Bytes /\ fromClient \in Bytes /\ rio_buf \in Bytes /\ line \in Bytes
    /\ buf \in Bytes /\ header \in Bytes
    /\ answer \in Bytes /\ fromServer \in Bytes /\ piece \in Bytes /\ data \in Bytes
    /\ out \in Bytes /\ toServer \in Bytes /\ toClient \in Bytes /\ stored \in Bytes

Flags == at \in Places /\ isHost \in BOOLEAN /\ hit \in BOOLEAN

(* A line that is being read has room for one byte more.                   *)
Sizes ==
    /\ Len(rio_buf) <= RIO_BUFSIZE
    /\ Len(line) < MAXLINE - 1 /\ Len(buf) < MAXLINE
    /\ Len(header) < MAXLINE \/ at = "overrun"
    /\ Len(piece) <= MAXLINE
    /\ Len(data) <= MAX_OBJECT_SIZE
    /\ Len(stored) <= MAX_OBJECT_SIZE

(* The sockets of the connection in service.                               *)
Held == IF at \in {"idle", "done"} THEN 0
        ELSE IF at \in Reading \cup {"refuse", "serve", "connect"} THEN 1 ELSE 2

Sockets ==
    /\ open \in 0 .. MaxOpen /\ refused \in 0 .. open
    /\ at \notin {"exit", "overrun"} => open = refused + Held

EndOf(t, s) == \E u \in Bytes : s = u \o t
StartOf(s, t) == \E u \in Bytes : t = s \o u

Unread == EndOf(fromClient, sent) /\ EndOf(fromServer, answer)

(* Before the first piece of an answer is read.                            *)
Asking == Reading \cup {"connect", "ask", "tell"}

Moved ==
    /\ at \in Asking => fromServer = answer /\ piece = <<>> /\ data = <<>> /\ toClient = <<>>
    /\ at = "read" => out = <<>> /\ (toClient \o piece) \o fromServer = answer
    /\ at = "forward" => (toClient \o out) \o fromServer = answer
    /\ at = "store" => out = <<>> /\ toClient = answer

(* All that was read is collected, until there is no room.                 *)
Whole(s) == \E k \in Nat : Len(s) = k * MAXLINE
Collects(s) == StartOf(data, s) /\ (Len(data) < MAX_OBJECT_SIZE => data = s)

Gathered ==
    /\ at = "read" =>
          Collects(toClient) /\ (Whole(toClient) \/ (fromServer = <<>> /\ piece = <<>>))
    /\ at = "forward" =>
          Collects(toClient \o out) /\ (Whole(toClient \o out) \/ fromServer = <<>>)
    /\ at = "store" => Collects(answer)

(* An array is only overrun by a header of MAXLINE bytes or more, or by an *)
(* answer that is longer than an object may be.                            *)
OnlyLongOverruns ==
    at = "overrun" => Len(header) >= MAXLINE \/ Len(answer) > MAX_OBJECT_SIZE

Hits ==
    /\ stored # <<>> => StartOf(Text(answer), stored)
    /\ hit => at \in {"serve", "done", "exit"}
    /\ at = "serve" => stored # <<>> /\ toClient \o out = stored
    /\ at = "done" /\ hit => stored # <<>> /\ toClient = stored

IInv == /\ OnlyLongOverruns
        /\ Strings /\ Flags /\ Sizes /\ Sockets /\ Unread /\ Moved /\ Gathered /\ Hits
-----------------------------------------------------------------------------
(* Sequences of bytes, cut and joined.                                     *)

(* The sizes are numbers.                                                  *)
LEMMA Numbered ==
    /\ MAXLINE \in Nat /\ MAXLINE > 2 /\ RIO_BUFSIZE \in Nat /\ RIO_BUFSIZE > 0
    /\ MAX_OBJECT_SIZE \in Nat /\ MAX_OBJECT_SIZE > 0 /\ MaxOpen \in Nat /\ MaxOpen > 0
    /\ MaxReaders \in Nat
BY RelayAssumption

(* The texts of the program are bytes.                                     *)
LEMMA Constants ==
    /\ <<>> \in Bytes /\ Len(<<>>) = 0
    /\ \A s \in Requests \cup Answers : s \in Bytes
    /\ CRLF \in Bytes /\ Len(CRLF) = 2
    /\ FixedHeader \in Bytes /\ Len(FixedHeader) = 1
    /\ HostLine \in Bytes /\ RequestLine \in Bytes
    /\ Refusal \in Bytes
    /\ \A text \in Leftovers : text \in Bytes /\ Len(text) <= 2
<1>1. \A a, b \in Letters : <<a>> \in Bytes /\ <<a, b>> \in Bytes /\ Len(<<a>>) = 1 /\ Len(<<a, b>>) = 2
  BY DEF Bytes
<1>2. <<>> \in Bytes /\ Len(<<>>) = 0
  BY DEF Bytes
<1>3. {"G", "H", "r", "n", "x", "U"} \subseteq Letters
  BY DEF Letters
<1>4. \A s \in Requests : s \in Bytes
  BY RelayAssumption, SeqMonotonic DEF Bytes
<1>5. \A s \in Answers : s \in Bytes
  BY RelayAssumption, SeqMonotonic DEF Bytes
<1>6. CRLF \in Bytes /\ Len(CRLF) = 2
  BY <1>1, <1>3 DEF CRLF
<1>7. HostLine \in Bytes
  BY <1>1, <1>3, <1>6, ConcatProperties DEF HostLine, Bytes
<1>8. FixedHeader \in Bytes /\ Len(FixedHeader) = 1 /\ RequestLine \in Bytes /\ Refusal \in Bytes
  BY <1>1, <1>3 DEF FixedHeader, RequestLine, Refusal
<1>9. \A text \in Leftovers : text \in Bytes /\ Len(text) <= 2
  <2>1. /\ <<"x", "n">> \in Bytes /\ Len(<<"x", "n">>) = 2
        /\ <<"G", "n">> \in Bytes /\ Len(<<"G", "n">>) = 2
    BY <1>1, <1>3
  <2>2. \A text \in Leftovers :
           text = <<>> \/ text = CRLF \/ text = <<"x", "n">> \/ text = <<"G", "n">>
    BY DEF Leftovers
  <2>3. 0 <= 2 /\ 2 <= 2
    OBVIOUS
  <2> QED BY <2>1, <2>2, <2>3, <1>2, <1>6, Zenon
<1> QED BY <1>2, <1>4, <1>5, <1>6, <1>7, <1>8, <1>9

(* Sequences joined.                                                       *)
LEMMA Join ==
    ASSUME NEW s \in Bytes, NEW t \in Bytes
    PROVE  /\ s \o t \in Bytes /\ Len(s \o t) = Len(s) + Len(t)
           /\ Len(s) \in Nat /\ Len(t) \in Nat
           /\ s \o <<>> = s /\ <<>> \o s = s
           /\ (s = <<>> <=> Len(s) = 0)
BY ConcatProperties, ConcatEmptySeq, EmptySeq, LenProperties DEF Bytes

(* Concatenation is associative.                                           *)
LEMMA JoinThree ==
    ASSUME NEW s \in Bytes, NEW t \in Bytes, NEW u \in Bytes
    PROVE  Associative(s, t, u)
BY ConcatAssociative DEF Bytes, Associative

(* What a read or a write moves, and what it leaves.                       *)
LEMMA Split ==
    ASSUME NEW s \in Bytes, NEW k \in 0 .. Len(s)
    PROVE  /\ FirstBytes(s, k) \in Bytes /\ Len(FirstBytes(s, k)) = k
           /\ AfterBytes(s, k) \in Bytes /\ Len(AfterBytes(s, k)) = Len(s) - k
           /\ s = FirstBytes(s, k) \o AfterBytes(s, k)
<1>1. Len(s) \in Nat /\ \A i \in 1 .. Len(s) : s[i] \in Letters \cup Numbers
  BY ElementOfSeq, LenProperties DEF Bytes
<1>2. \A i \in 1 .. k : s[i] \in Letters \cup Numbers
  BY <1>1
<1>3. \A i \in k + 1 .. Len(s) : s[i] \in Letters \cup Numbers
  BY <1>1
<1>4. FirstBytes(s, k) \in Bytes /\ Len(FirstBytes(s, k)) = k
  BY <1>1, <1>2, SubSeqProperties DEF FirstBytes, Bytes
<1>5. AfterBytes(s, k) \in Bytes /\ Len(AfterBytes(s, k)) = Len(s) - k
  BY <1>1, <1>3, SubSeqProperties DEF AfterBytes, Bytes
<1>6. 1 \in 1 .. Len(s) + 1 /\ k \in 1 - 1 .. Len(s) /\ Len(s) \in k .. Len(s)
  BY <1>1
<1>7. FirstBytes(s, k) \o AfterBytes(s, k) = SubSeq(s, 1, Len(s))
  BY <1>6, ConcatAdjacentSubSeq DEF FirstBytes, AfterBytes, Bytes
<1> QED BY <1>4, <1>5, <1>7, SubSeqFull DEF Bytes

(* The same, with names for the parts.                                     *)
LEMMA Parts ==
    ASSUME NEW s \in Bytes, NEW k \in 0 .. Len(s)
    PROVE  \E f \in Bytes, g \in Bytes :
              /\ FirstBytes(s, k) = f /\ AfterBytes(s, k) = g
              /\ s = f \o g /\ Len(f) = k
<1>1. /\ FirstBytes(s, k) \in Bytes /\ Len(FirstBytes(s, k)) = k
      /\ AfterBytes(s, k) \in Bytes
      /\ s = FirstBytes(s, k) \o AfterBytes(s, k)
  BY Split
<1> QED BY <1>1, Zenon

(* Bytes that move from the head of one sequence to the end of another.    *)
Moving(a, p, f, g) == (a \o p) \o (f \o g) = (a \o (p \o f)) \o g

(* Bytes that move from one end of a buffer to another keep their order.   *)
LEMMA MovingBytes ==
    ASSUME NEW a \in Bytes, NEW p \in Bytes, NEW f \in Bytes, NEW g \in Bytes
    PROVE  Moving(a, p, f, g)
<1>1. a \o p \in Bytes
  BY Join
<1>2. Associative(a \o p, f, g) /\ Associative(a, p, f)
  BY <1>1, JoinThree
<1> QED BY <1>2, Zenon DEF Moving, Associative

(* What StartOf and EndOf say, in the words of SequencesExt.               *)
LEMMA PrefixOf ==
    ASSUME NEW s \in Bytes, NEW t \in Bytes, StartOf(s, t)
    PROVE  IsPrefix(s, t)
<1>1. PICK u \in Bytes : t = s \o u
  BY DEF StartOf
<1>2. Len(t) = Len(s) + Len(u) /\ Len(s) \in Nat /\ Len(u) \in Nat
  BY <1>1, Join
<1>3. SubSeq(s, 1, Len(s)) = s
  BY SubSeqFull DEF Bytes
<1>4. SubSeq(t, 1, Len(s)) = s
  <2>1. CASE Len(s) = 0
    BY <2>1, <1>2, <1>3, SubSeqEmpty, Join
  <2>2. CASE Len(s) # 0
    <3>1. 1 \in 1 .. Len(s) /\ Len(s) \in 1 .. Len(s)
      BY <2>2, <1>2
    <3> QED BY <3>1, <1>1, <1>3, SubSeqOfConcat1 DEF Bytes
  <2> QED BY <2>1, <2>2
<1> QED BY <1>2, <1>3, <1>4 DEF IsPrefix

(* What ends a string is a suffix of it.                                   *)
LEMMA SuffixOf ==
    ASSUME NEW t \in Bytes, NEW s \in Bytes, EndOf(t, s)
    PROVE  IsSuffix(t, s)
<1>1. PICK u \in Bytes : s = u \o t
  BY DEF EndOf
<1>2. Len(s) = Len(u) + Len(t) /\ Len(t) \in Nat /\ Len(u) \in Nat
  BY <1>1, Join
<1>3. \A i \in 1 .. Len(t) : s[Len(s) - i + 1] = t[Len(t) - i + 1]
  <2> SUFFICES ASSUME NEW i \in 1 .. Len(t)
               PROVE  s[Len(s) - i + 1] = t[Len(t) - i + 1]
    OBVIOUS
  <2>1. Len(s) - i + 1 \in 1 .. Len(u) + Len(t) /\ ~ (Len(s) - i + 1 <= Len(u))
    BY <1>2
  <2>2. s[Len(s) - i + 1] = t[Len(s) - i + 1 - Len(u)]
    BY <2>1, <1>1, ConcatProperties DEF Bytes
  <2>3. Len(s) - i + 1 - Len(u) = Len(t) - i + 1
    BY <1>2
  <2> QED BY <2>2, <2>3
<1>4. /\ Len(Reverse(t)) = Len(t) /\ Len(Reverse(s)) = Len(s)
      /\ \A i \in 1 .. Len(t) : Reverse(t)[i] = t[Len(t) - i + 1]
      /\ \A i \in 1 .. Len(s) : Reverse(s)[i] = s[Len(s) - i + 1]
  BY <1>2 DEF Reverse
<1>5. \A i \in 1 .. Len(t) : Reverse(s)[i] = Reverse(t)[i]
  BY <1>2, <1>3, <1>4
<1>6. SubSeq(Reverse(t), 1, Len(t)) = SubSeq(Reverse(s), 1, Len(t))
  <2>1. \A i \in 1 .. Len(t) : t[Len(t) - i + 1] \in Letters \cup Numbers
    <3> SUFFICES ASSUME NEW i \in 1 .. Len(t)
                 PROVE  t[Len(t) - i + 1] \in Letters \cup Numbers
      OBVIOUS
    <3>1. Len(t) - i + 1 \in 1 .. Len(t)
      BY <1>2
    <3> QED BY <3>1, ElementOfSeq DEF Bytes
  <2>2. /\ \A i \in 1 .. Len(t) : Reverse(t)[i] \in Letters \cup Numbers
        /\ \A i \in 1 .. Len(t) : Reverse(s)[i] \in Letters \cup Numbers
    BY <2>1, <1>4, <1>5
  <2>3. /\ SubSeq(Reverse(t), 1, Len(t)) \in Bytes /\ SubSeq(Reverse(s), 1, Len(t)) \in Bytes
        /\ Len(SubSeq(Reverse(t), 1, Len(t))) = Len(t)
        /\ Len(SubSeq(Reverse(s), 1, Len(t))) = Len(t)
        /\ \A i \in 1 .. Len(t) : SubSeq(Reverse(t), 1, Len(t))[i] = Reverse(t)[i]
        /\ \A i \in 1 .. Len(t) : SubSeq(Reverse(s), 1, Len(t))[i] = Reverse(s)[i]
    BY <2>2, <1>2, SubSeqProperties DEF Bytes
  <2> QED BY <2>3, <1>5, SeqEqual DEF Bytes
<1> QED BY <1>2, <1>4, <1>6 DEF IsSuffix, IsPrefix

(* What is left of an end is an end.                                       *)
LEMMA EndOfAfter ==
    ASSUME NEW s \in Bytes, NEW t \in Bytes, EndOf(t, s), NEW k \in 0 .. Len(t)
    PROVE  EndOf(AfterBytes(t, k), s)
<1>1. PICK u \in Bytes : s = u \o t
  BY DEF EndOf
<1> PICK f \in Bytes, g \in Bytes : f = FirstBytes(t, k) /\ g = AfterBytes(t, k) /\ t = f \o g
  BY Split
<1>2. (u \o f) \o g = u \o (f \o g)
  <2>1. Associative(u, f, g)
    BY JoinThree
  <2> QED BY <2>1, Zenon DEF Associative
<1>4. u \o f \in Bytes
  BY Join
<1>3. s = (u \o f) \o g
  BY <1>1, <1>2, Zenon
<1> QED BY <1>3, <1>4 DEF EndOf

(* All of a sequence is an end of it.                                      *)
LEMMA EndOfSelf ==
    ASSUME NEW s \in Bytes
    PROVE  EndOf(s, s)
BY Join, Constants DEF EndOf

(* The places of the NULs decide what the text is.                         *)
Nuls(s) == {i \in 1 .. Len(s) : s[i] = 0}

(* A C string ends at the first NUL byte.                                  *)
LEMMA TextIs ==
    ASSUME NEW s \in Bytes
    PROVE  /\ Text(s) = IF Nuls(s) # {} THEN FirstBytes(s, Min(Nuls(s)) - 1) ELSE s
           /\ Nuls(s) # {} => Min(Nuls(s)) \in Nuls(s) /\ \A k \in Nuls(s) : Min(Nuls(s)) <= k
<1>1. Contains(s, 0) <=> Nuls(s) # {}
  BY DEF Contains, Nuls
<1>2. SelectInSeq(s, LAMBDA b : b = 0) = IF Nuls(s) # {} THEN Min(Nuls(s)) ELSE 0
  BY DEF SelectInSeq, Nuls
<1>3. Nuls(s) \in SUBSET Nat
  BY Join DEF Nuls
<1> QED BY <1>1, <1>2, <1>3, LeastOfSet DEF Text

(* A text is the start of what holds it.                                   *)
LEMMA TextStarts ==
    ASSUME NEW s \in Bytes
    PROVE  Text(s) \in Bytes /\ StartOf(Text(s), s)
<1>1. CASE Nuls(s) # {}
  <2>1. Min(Nuls(s)) - 1 \in 0 .. Len(s)
    <3>1. Min(Nuls(s)) \in Nuls(s) /\ Nuls(s) \subseteq 1 .. Len(s) /\ Len(s) \in Nat
      BY <1>1, TextIs, Join DEF Nuls
    <3> QED BY <3>1
  <2>2. Text(s) = FirstBytes(s, Min(Nuls(s)) - 1)
    BY <1>1, TextIs
  <2> PICK f \in Bytes, g \in Bytes : f = Text(s) /\ s = f \o g
    BY <2>1, <2>2, Split
  <2> QED BY DEF StartOf
<1>2. CASE Nuls(s) = {}
  BY <1>2, TextIs, Join, Constants DEF StartOf
<1> QED BY <1>1, <1>2

(* What comes behind a NUL changes no text; without one it belongs to it.  *)
LEMMA TextOfMore ==
    ASSUME NEW s \in Bytes, NEW u \in Bytes
    PROVE  /\ Nuls(s) # {} => Text(s \o u) = Text(s)
           /\ Nuls(s) = {} => Text(s) = s
           /\ Nuls(s) = {} /\ Nuls(u) = {} => Text(s \o u) = s \o u
<1>1. /\ s \o u \in Bytes /\ Len(s \o u) = Len(s) + Len(u) /\ Len(s) \in Nat /\ Len(u) \in Nat
      /\ \A i \in 1 .. Len(s) : (s \o u)[i] = s[i]
  <2>1. \A i \in 1 .. Len(s) + Len(u) :
           (s \o u)[i] = IF i <= Len(s) THEN s[i] ELSE u[i - Len(s)]
    BY ConcatProperties DEF Bytes
  <2> QED BY <2>1, Join
<1>2. \A i \in 1 .. Len(s) : i \in Nuls(s) <=> i \in Nuls(s \o u)
  BY <1>1 DEF Nuls
<1>3. CASE Nuls(s) # {}
  <2>1. /\ Min(Nuls(s)) \in 1 .. Len(s) /\ Min(Nuls(s)) \in Nuls(s)
        /\ \A k \in Nuls(s) : Min(Nuls(s)) <= k
    BY <1>3, TextIs DEF Nuls
  <2>2. Nuls(s \o u) # {}
    BY <2>1, <1>2
  <2>3. /\ Min(Nuls(s \o u)) \in Nuls(s \o u)
        /\ \A k \in Nuls(s \o u) : Min(Nuls(s \o u)) <= k
    BY <2>2, <1>1, TextIs
  <2>4. Min(Nuls(s \o u)) \in Nat /\ Min(Nuls(s \o u)) <= Min(Nuls(s)) /\ Min(Nuls(s \o u)) >= 1
    <3>1. Nuls(s \o u) \subseteq 1 .. Len(s) + Len(u)
      BY <1>1 DEF Nuls
    <3>2. Min(Nuls(s)) \in Nuls(s \o u)
      BY <2>1, <1>2
    <3> QED BY <3>1, <3>2, <2>3, <1>1
  <2>5. Min(Nuls(s \o u)) = Min(Nuls(s))
    <3>1. Min(Nuls(s \o u)) \in 1 .. Len(s)
      BY <2>1, <2>4, <1>1
    <3>2. Min(Nuls(s \o u)) \in Nuls(s)
      BY <3>1, <2>3, <1>2
    <3> QED BY <3>1, <3>2, <2>1, <2>4
  <2>6. FirstBytes(s \o u, Min(Nuls(s)) - 1) = FirstBytes(s, Min(Nuls(s)) - 1)
    <3>1. CASE Min(Nuls(s)) = 1
      BY <3>1, SubSeqEmpty DEF FirstBytes
    <3>2. CASE Min(Nuls(s)) # 1
      <4>1. 1 \in 1 .. Len(s) /\ Min(Nuls(s)) - 1 \in 1 .. Len(s)
        BY <3>2, <2>1, <1>1
      <4> QED BY <4>1, SubSeqOfConcat1 DEF FirstBytes, Bytes
    <3> QED BY <3>1, <3>2
  <2> QED BY <2>2, <2>5, <2>6, <1>1, <1>3, TextIs
<1>4. CASE Nuls(s) = {} /\ Nuls(u) = {}
  <2>1. \A i \in 1 .. Len(s) + Len(u) : (s \o u)[i] = IF i <= Len(s) THEN s[i] ELSE u[i - Len(s)]
    BY ConcatProperties DEF Bytes
  <2>2. \A i \in 1 .. Len(u) : u[i] # 0
    BY <1>4 DEF Nuls
  <2>3. \A i \in 1 .. Len(s) + Len(u) : ~ (i <= Len(s)) => i - Len(s) \in 1 .. Len(u)
    BY <1>1
  <2>4. Nuls(s \o u) = {}
    BY <1>1, <1>4, <2>1, <2>2, <2>3 DEF Nuls
  <2> QED BY <2>4, <1>1, <1>4, TextIs
<1>5. Nuls(s) = {} => Text(s) = s
  BY TextIs
<1> QED BY <1>3, <1>4, <1>5
-----------------------------------------------------------------------------
(* Each step preserves the invariant.                                      *)

(* It holds at the start.                                                  *)
LEMMA InitInv == Init => IInv
<1> SUFFICES ASSUME Init PROVE IInv
  OBVIOUS
<1> USE DEF Init
<1>1. <<>> \in Bytes /\ Len(<<>>) = 0 /\ answer \in Bytes
  BY Constants
<1>2. Strings
  BY <1>1 DEF Strings
<1>3. Flags
  BY DEF Flags, Places
<1>4. Sizes
  BY <1>1, Numbered DEF Sizes
<1>5. Sockets
  BY Numbered DEF Sockets, Held
<1>6. Unread
  BY <1>1, EndOfSelf DEF Unread
<1>7. Moved /\ Gathered /\ Hits /\ OnlyLongOverruns
  BY DEF Moved, Gathered, Hits, Asking, Reading, OnlyLongOverruns
<1> QED BY <1>2, <1>3, <1>4, <1>5, <1>6, <1>7 DEF IInv

(* A connection is accepted, or no more.                                   *)
LEMMA AcceptInv ==
    ASSUME IInv, NEW s \in Requests, AcceptConnection(s)
    PROVE  IInv'
<1> USE DEF AcceptConnection, rio_readinitb
<1>1. /\ <<>> \in Bytes /\ Len(<<>>) = 0 /\ s \in Bytes /\ answer \in Bytes /\ toClient \in Bytes
      /\ FixedHeader \in Bytes /\ Len(FixedHeader) = 1
  BY Constants DEF IInv, Strings
<1>2. Strings'
  BY <1>1 DEF IInv, Strings
<1>3. Flags' /\ OnlyLongOverruns'
  BY DEF Flags, Places, Reading, OnlyLongOverruns
<1>4. Sizes'
  BY <1>1, Numbered DEF IInv, Sizes
<1>5. Sockets'
  BY Numbered DEF IInv, Sockets, Held, Reading
<1>6. Unread'
  BY <1>1, EndOfSelf DEF Unread
<1>7. Moved'
  BY DEF Moved, Asking, Reading
<1>8. Gathered'
  BY DEF Gathered
<1>9. Hits'
  BY DEF IInv, Hits
<1> QED BY <1>2, <1>3, <1>4, <1>5, <1>6, <1>7, <1>8, <1>9 DEF IInv

(* The process ends.                                                       *)
LEMMA ExitInv ==
    ASSUME IInv, AcceptFails \/ WrapperFails
    PROVE  IInv'
<1>1. /\ at' = "exit" /\ at # "overrun"
      /\ UNCHANGED <<client, request, reply, written, cache, process>>
  BY DEF AcceptFails, WrapperFails, Reading, Writing
<1> USE <1>1 DEF client, request, reply, written, cache, process
<1>2. Strings'
  BY DEF IInv, Strings
<1>3. Flags' /\ OnlyLongOverruns'
  BY DEF IInv, Flags, Places, OnlyLongOverruns
<1>4. Sizes'
  BY DEF IInv, Sizes
<1>5. Sockets'
  BY DEF IInv, Sockets
<1>6. Unread'
  BY DEF IInv, Unread, EndOf
<1>7. Moved' /\ Gathered'
  BY DEF Moved, Gathered, Asking, Reading
<1>8. Hits'
  BY DEF IInv, Hits, StartOf
<1> QED BY <1>2, <1>3, <1>4, <1>5, <1>6, <1>7, <1>8 DEF IInv

(* A line of the request is parsed.                                        *)
LEMMA ParseInv ==
    ASSUME IInv, at \in Reading, NEW text \in Bytes, Len(text) < MAXLINE, Parse(text),
           UNCHANGED <<sent, reply, toServer, toClient, stored, process>>,
           EndOf(fromClient', sent), fromClient' \in Bytes,
           rio_buf' \in Bytes, Len(rio_buf') <= RIO_BUFSIZE, line' = <<>>
    PROVE  IInv'
<1> USE DEF reply, process
<1>1. /\ at' \in {"header", "refuse", "serve", "connect", "overrun"}
      /\ buf' \in Bytes /\ Len(buf') < MAXLINE
      /\ header' \in Bytes /\ (Len(header') < MAXLINE \/ at' = "overrun")
      /\ at' = "overrun" => Len(header') >= MAXLINE
      /\ isHost' \in BOOLEAN /\ hit' \in BOOLEAN /\ out' \in Bytes
      /\ (hit' <=> at' = "serve")
      /\ (at' = "serve" => stored # <<>> /\ out' = stored)
  <2>1. /\ buf \in Bytes /\ Len(buf) < MAXLINE /\ header \in Bytes /\ out \in Bytes
        /\ stored \in Bytes
        /\ Len(header) < MAXLINE /\ isHost \in BOOLEAN /\ hit = FALSE /\ at # "overrun"
    BY DEF IInv, Strings, Sizes, Flags, Hits, Reading
  <2>2. CASE at = "request" /\ ParseRequest(text)
    BY <2>1, <2>2, Constants DEF ParseRequest, Write, request
  <2>3. CASE at = "header" /\ ParseHeaderLine(text)
    <3>1. CASE text = CRLF /\ EndOfHeader
      <4>1. header' = header \o (IF isHost THEN <<>> ELSE HostLine) \o CRLF
        BY <3>1 DEF EndOfHeader, PutHeader
      <4>2. (IF isHost THEN <<>> ELSE HostLine) \in Bytes /\ CRLF \in Bytes
        BY Constants
      <4>3. header' \in Bytes /\ Len(header') \in Nat
        BY <4>1, <4>2, <2>1, Join
      <4>4. at' = IF Len(header') + 1 > MAXLINE THEN "overrun" ELSE "connect"
        BY <3>1 DEF EndOfHeader, PutHeader
      <4>5. buf' = text /\ out' = out /\ hit' = hit /\ isHost' = isHost
        BY <2>3, <3>1 DEF ParseHeaderLine, EndOfHeader
      <4>6. at' \in {"connect", "overrun"} /\ (Len(header') < MAXLINE \/ at' = "overrun")
           /\ (at' = "overrun" => Len(header') >= MAXLINE)
        BY <4>3, <4>4, Numbered
      <4> QED BY <2>1, <4>3, <4>5, <4>6
    <3>2. CASE UNCHANGED <<at, header, isHost>>
      BY <2>1, <2>3, <3>2 DEF ParseHeaderLine
    <3>3. CASE PutHeader(header \o text, "header") /\ isHost' = (isHost \/ Has(text, "H"))
      <4>1. header' \in Bytes /\ Len(header') \in Nat
        BY <3>3, <2>1, Join DEF PutHeader
      <4>2. at' = IF Len(header') + 1 > MAXLINE THEN "overrun" ELSE "header"
        BY <3>3 DEF PutHeader
      <4>3. buf' = text /\ out' = out /\ hit' = hit
        BY <2>3 DEF ParseHeaderLine
      <4>4. at' \in {"header", "overrun"} /\ (Len(header') < MAXLINE \/ at' = "overrun")
           /\ (at' = "overrun" => Len(header') >= MAXLINE)
        BY <4>1, <4>2, Numbered
      <4>5. isHost' \in BOOLEAN
        BY <3>3, <2>1 DEF Has, Contains
      <4> QED BY <2>1, <4>1, <4>3, <4>4, <4>5
    <3> QED BY <2>3, <3>1, <3>2, <3>3 DEF ParseHeaderLine
  <2> QED BY <2>2, <2>3 DEF Parse
<1>2. Strings'
  BY <1>1, Constants DEF IInv, Strings
<1>3. Flags' /\ OnlyLongOverruns'
  BY <1>1 DEF Flags, Places, Reading, Writing, OnlyLongOverruns
<1>4. Sizes'
  BY <1>1, Constants, Numbered DEF IInv, Sizes
<1>5. Sockets'
  BY <1>1 DEF IInv, Sockets, Held, Reading
<1>6. Unread'
  BY DEF IInv, Unread, EndOf
<1>7. Moved'
  BY <1>1 DEF IInv, Moved, Asking, Reading
<1>8. Gathered'
  BY <1>1 DEF Gathered
<1>9. Hits'
  <2>1. toClient = <<>> /\ stored \in Bytes
    BY DEF IInv, Moved, Asking, Strings
  <2>2. <<>> \o stored = stored
    BY <2>1, Join
  <2>3. at' = "serve" => stored' # <<>> /\ toClient' \o out' = stored'
    BY <2>1, <2>2, <1>1
  <2>4. stored' # <<>> => StartOf(Text(answer), stored)'
    BY DEF IInv, Hits, StartOf
  <2> QED BY <2>3, <2>4, <1>1 DEF Hits
<1> QED BY <1>2, <1>3, <1>4, <1>5, <1>6, <1>7, <1>8, <1>9 DEF IInv

(* rio_read fills its buffer.                                              *)
LEMMA RefillInv ==
    ASSUME IInv, Refill
    PROVE  IInv'
<1> USE DEF Refill, request, reply, written, cache, process
<1>1. PICK k \in 1 .. Least(RIO_BUFSIZE, Len(fromClient)) :
         rio_buf' = FirstBytes(fromClient, k) /\ fromClient' = AfterBytes(fromClient, k)
  OBVIOUS
<1>2. fromClient \in Bytes /\ Len(fromClient) \in Nat /\ sent \in Bytes
  BY Join DEF IInv, Strings
<1>3. k \in 0 .. Len(fromClient) /\ k <= RIO_BUFSIZE
  BY <1>2, Numbered DEF Least
<1>4. /\ rio_buf' \in Bytes /\ Len(rio_buf') = k /\ fromClient' \in Bytes
  BY <1>1, <1>2, <1>3, Split
<1>5. Strings'
  BY <1>4 DEF IInv, Strings
<1>6. Sizes'
  BY <1>3, <1>4 DEF IInv, Sizes
<1>7. Unread'
  <2>1. EndOf(fromClient', sent)
    BY <1>1, <1>2, <1>3, EndOfAfter DEF IInv, Unread
  <2> QED BY <2>1 DEF IInv, Unread, EndOf
<1>8. Flags' /\ Sockets' /\ Moved' /\ Hits' /\ OnlyLongOverruns'
  BY SMTT(30) DEF IInv, Flags, Sockets, Held, Moved, Hits, StartOf, OnlyLongOverruns
<1>9. Gathered'
  BY DEF Gathered, Reading
<1> QED BY <1>5, <1>6, <1>7, <1>8, <1>9 DEF IInv

(* A byte is taken from the buffer, or there are no more.                  *)
LEMMA TakeByteInv ==
    ASSUME IInv, TakeByte
    PROVE  IInv'
<1> USE DEF TakeByte
<1>1. /\ rio_buf \in Bytes /\ rio_buf # <<>> /\ line \in Bytes /\ fromClient \in Bytes
      /\ Len(rio_buf) <= RIO_BUFSIZE /\ Len(line) < MAXLINE - 1 /\ at \in Reading
  BY DEF IInv, Strings, Sizes
<1>2. /\ Head(rio_buf) \in Letters \cup Numbers
      /\ rio_buf' \in Bytes /\ Len(rio_buf') <= RIO_BUFSIZE
  <2>1. Len(Tail(rio_buf)) = Len(rio_buf) - 1 /\ Len(rio_buf) \in Nat
    BY <1>1, HeadTailProperties, LenProperties DEF Bytes
  <2>2. Head(rio_buf) \in Letters \cup Numbers /\ Tail(rio_buf) \in Bytes
    BY <1>1, HeadTailProperties DEF Bytes
  <2> QED BY <2>1, <2>2, <1>1, Numbered
<1> PICK text : text = Append(line, Head(rio_buf))
  OBVIOUS
<1>3. text \in Bytes /\ Len(text) = Len(line) + 1 /\ Len(line) \in Nat
  BY <1>1, <1>2, AppendProperties, LenProperties DEF Bytes
<1>4. EndOf(fromClient', sent) /\ fromClient' \in Bytes
  BY <1>1 DEF IInv, Unread
<1>5. CASE LineEnds(text)
  <2>1. line' = <<>> /\ Parse(text) /\ Len(text) < MAXLINE
    BY <1>1, <1>3, <1>5, Numbered
  <2> QED BY <2>1, <1>1, <1>2, <1>3, <1>4, ParseInv
<1>6. CASE ~ LineEnds(text)
  <2>1. line' = text /\ UNCHANGED <<at, request, out, hit>>
    BY <1>6
  <2>2. Len(text) # MAXLINE - 1
    BY <1>6 DEF LineEnds
  <2>3. Len(text) < MAXLINE - 1
    BY <2>2, <1>1, <1>3, Numbered
  <2> USE <2>1 DEF request, reply, process
  <2>4. Strings'
    BY <1>2, <1>3 DEF IInv, Strings
  <2>5. Sizes'
    BY <2>3, <1>2 DEF IInv, Sizes
  <2>6. Flags' /\ Sockets' /\ Unread' /\ Moved' /\ Hits' /\ OnlyLongOverruns'
    BY ZenonT(40) DEF IInv, Flags, Sockets, Held, Unread, EndOf, Moved, Hits, StartOf, OnlyLongOverruns
  <2>7. Gathered'
    BY <1>1 DEF Gathered, Reading
  <2> QED BY <2>4, <2>5, <2>6, <2>7 DEF IInv
<1> QED BY <1>5, <1>6

(* The client's end of file: what was read so far is parsed as it stands.  *)
LEMMA EndOfFileInv ==
    ASSUME IInv, EndOfFile
    PROVE  IInv'
<1> USE DEF EndOfFile
<1>1. PICK text : /\ Parse(text)
                  /\ text = line \/ text = buf \/ text \in Leftovers
  OBVIOUS
<1>2. /\ line \in Bytes /\ buf \in Bytes /\ rio_buf \in Bytes /\ fromClient \in Bytes
      /\ Len(line) < MAXLINE - 1 /\ Len(buf) < MAXLINE /\ Len(rio_buf) <= RIO_BUFSIZE
      /\ Len(line) \in Nat
  BY Join DEF IInv, Strings, Sizes
<1>3. text \in Bytes /\ Len(text) < MAXLINE
  <2>1. CASE text \in Leftovers
    <3>1. text \in Bytes /\ Len(text) <= 2 /\ Len(text) \in Nat
      BY <2>1, Constants, Join
    <3> QED BY <3>1, Numbered
  <2>2. CASE text = line \/ text = buf
    BY <2>2, <1>2, Numbered
  <2> QED BY <2>1, <2>2, <1>1
<1>4. EndOf(fromClient', sent) /\ line' = <<>> /\ at \in Reading
  BY DEF IInv, Unread
<1> QED BY <1>1, <1>2, <1>3, <1>4, ParseInv

(* The server is connected to.                                             *)
LEMMA ConnectInv ==
    ASSUME IInv, Open_clientfd
    PROVE  IInv'
<1> USE DEF Open_clientfd, Write, client, request, reply, cache
<1>1. CASE at' = "ask" /\ out' = RequestLine /\ open < MaxOpen /\ open' = open + 1
  <2>1. Strings'
    BY <1>1, Constants DEF IInv, Strings
  <2>2. Flags' /\ OnlyLongOverruns'
    BY <1>1 DEF IInv, Flags, Places, Writing, OnlyLongOverruns
  <2>3. Sizes'
    BY <1>1 DEF IInv, Sizes
  <2>4. Sockets'
    BY <1>1, Numbered DEF IInv, Sockets, Held, Reading
  <2>5. Unread' /\ Moved' /\ Hits'
    BY <1>1 DEF IInv, Unread, EndOf, Moved, Asking, Hits, StartOf
  <2>6. Gathered'
    BY <1>1 DEF Gathered
  <2> QED BY <2>1, <2>2, <2>3, <2>4, <2>5, <2>6 DEF IInv
<1>2. CASE at' = "exit" /\ UNCHANGED <<out, open>>
  <2>1. Strings' /\ Sizes' /\ Unread'
    BY <1>2 DEF IInv, Strings, Sizes, Unread, EndOf
  <2>2. Flags' /\ OnlyLongOverruns'
    BY <1>2 DEF IInv, Flags, Places, OnlyLongOverruns
  <2>3. Sockets' /\ Hits'
    BY <1>2 DEF IInv, Sockets, Hits, StartOf
  <2>4. Moved' /\ Gathered'
    BY <1>2 DEF Moved, Gathered, Asking, Reading
  <2> QED BY <2>1, <2>2, <2>3, <2>4 DEF IInv
<1> QED BY <1>1, <1>2 DEF open_clientfd

(* A part of a piece of the answer is read.                                *)
LEMMA ReadPieceInv ==
    ASSUME IInv, ReadPiece
    PROVE  IInv'
<1> USE DEF ReadPiece, client, request, written, cache, process
<1>1. PICK k \in 1 .. Least(MAXLINE - Len(piece), Len(fromServer)) :
         /\ piece' = piece \o FirstBytes(fromServer, k)
         /\ fromServer' = AfterBytes(fromServer, k)
  OBVIOUS
<1>2. /\ piece \in Bytes /\ fromServer \in Bytes /\ answer \in Bytes /\ toClient \in Bytes
      /\ Len(piece) \in Nat /\ Len(fromServer) \in Nat /\ Len(piece) <= MAXLINE
  BY Join DEF IInv, Strings, Sizes
<1>3. k \in 0 .. Len(fromServer) /\ k <= MAXLINE - Len(piece) /\ k > 0
  BY <1>2, Numbered DEF Least
<1>a. PICK f \in Bytes, g \in Bytes :
         /\ FirstBytes(fromServer, k) = f /\ AfterBytes(fromServer, k) = g
         /\ fromServer = f \o g /\ Len(f) = k
  <2> HIDE DEF ReadPiece
  <2> QED BY <1>2, <1>3, Parts
<1>4. piece' = piece \o f /\ fromServer' = g
  BY <1>1, <1>a
<1>5. piece' \in Bytes /\ Len(piece') = Len(piece) + k
  <2>1. piece \o f \in Bytes /\ Len(piece \o f) = Len(piece) + Len(f)
    BY <1>2, Join, Zenon
  <2> QED BY <2>1, <1>4, <1>a
<1>6. Strings'
  BY <1>4, <1>5 DEF IInv, Strings
<1>7. Sizes'
  BY <1>2, <1>3, <1>5, Numbered DEF IInv, Sizes
<1>8. Unread'
  <2>1. EndOf(fromServer', answer)
    BY <1>1, <1>2, <1>3, EndOfAfter DEF IInv, Unread
  <2> QED BY <2>1 DEF IInv, Unread, EndOf
<1>9. Moved'
  <2>1. (toClient \o piece) \o fromServer = answer /\ out = <<>> /\ at = "read"
    BY DEF IInv, Moved
  <2>2. (toClient \o piece) \o (f \o g) = (toClient \o (piece \o f)) \o g
    <3>1. Moving(toClient, piece, f, g)
      BY <1>2, MovingBytes
    <3> QED BY <3>1, Zenon DEF Moving
  <2>4. (toClient \o piece') \o fromServer' = answer
    BY <2>1, <2>2, <1>4, <1>a, Zenon
  <2> QED BY <2>1, <2>4 DEF Moved, Asking, Reading
<1>10. Flags' /\ Sockets' /\ Hits' /\ OnlyLongOverruns'
  BY DEF IInv, Flags, Sockets, Held, Hits, StartOf, OnlyLongOverruns
<1>11. Gathered'
  <2>1. Collects(toClient)' /\ at = "read" /\ Collects(toClient)
    BY DEF IInv, Gathered, Collects, StartOf
  <2>2. Whole(toClient)
    <3>1. ~ (fromServer = <<>>)
      BY <1>2, <1>3, Join
    <3> QED BY <3>1, <2>1 DEF IInv, Gathered
  <2>3. Whole(toClient)'
    BY <2>2 DEF Whole
  <2> QED BY <2>1, <2>3 DEF Gathered
<1> QED BY <1>6, <1>7, <1>8, <1>9, <1>10, <1>11 DEF IInv

(* A piece is collected and forwarded.                                     *)
LEMMA TakePieceInv ==
    ASSUME IInv, TakePiece
    PROVE  IInv'
<1>1. PICK readcnt \in 0 .. MaxReaders :
         IF Len(Collected(readcnt)) > MAX_OBJECT_SIZE
            THEN at' = "overrun" /\ UNCHANGED <<data, out>>
            ELSE data' = Collected(readcnt) /\ Write("forward", piece)
  BY DEF TakePiece
<1>2. /\ at = "read" /\ piece # <<>> /\ (Len(piece) = MAXLINE \/ fromServer = <<>>)
      /\ UNCHANGED <<client, request, answer, fromServer, piece, toServer, toClient, cache, process>>
  BY DEF TakePiece
<1>3. /\ piece \in Bytes /\ fromServer \in Bytes /\ answer \in Bytes /\ toClient \in Bytes
      /\ data \in Bytes /\ Len(piece) \in Nat /\ Len(piece) > 0 /\ Len(data) \in Nat
      /\ Len(toClient) \in Nat /\ Len(data) <= MAX_OBJECT_SIZE
  BY <1>2, Join, SMTT(30) DEF IInv, Strings, Sizes
<1> PICK sum \in Bytes : sum = toClient \o piece /\ Len(sum) = Len(toClient) + Len(piece)
  BY <1>3, Join
<1>4. sum \o fromServer = answer
  BY <1>2 DEF IInv, Moved
<1>5. Collects(toClient) /\ Whole(toClient)
  BY <1>2 DEF IInv, Gathered
<1>6. CASE /\ at' = "overrun" /\ UNCHANGED <<data, out>>
           /\ Len(Collected(readcnt)) > MAX_OBJECT_SIZE
  <2>5. Len(answer) > MAX_OBJECT_SIZE
    <3>1. Len(answer) = Len(sum) + Len(fromServer) /\ Len(fromServer) \in Nat /\ Len(answer) \in Nat
      BY <1>3, <1>4, Join
    <3>2. Len(data) <= Len(toClient)
      <4>1. PICK u \in Bytes : toClient = data \o u
        BY <1>5 DEF Collects, StartOf
      <4>2. Len(toClient) = Len(data) + Len(u) /\ Len(u) \in Nat
        BY <1>3, <4>1, Join
      <4> QED BY <4>2, <1>3
    <3>3. Collected(readcnt) = data \o piece /\ Len(data \o piece) = Len(data) + Len(piece)
      BY <1>3, <1>6, Join, Numbered DEF Collected
    <3> QED BY <3>1, <3>2, <3>3, <1>3, <1>6, Numbered
  <2> USE <1>2, <1>6 DEF client, request, cache, process
  <2>1. Strings' /\ Sizes' /\ Unread'
    BY DEF IInv, Strings, Sizes, Unread, EndOf
  <2>2. Flags' /\ OnlyLongOverruns'
    BY <2>5 DEF IInv, Flags, Places, OnlyLongOverruns
  <2>3. Sockets' /\ Hits'
    BY DEF IInv, Sockets, Hits, StartOf
  <2>4. Moved' /\ Gathered'
    BY DEF Moved, Gathered, Asking, Reading
  <2> QED BY <2>1, <2>2, <2>3, <2>4 DEF IInv
<1>7. CASE /\ at' = "forward" /\ out' = piece
           /\ data' = Collected(readcnt) /\ Len(data') <= MAX_OBJECT_SIZE
  <2>1. data' \in Bytes /\ StartOf(data', sum) /\ (Len(data') < MAX_OBJECT_SIZE => data' = sum)
    <3>1. CASE Len(data) < MAX_OBJECT_SIZE
      <4>1. data = toClient
        BY <3>1, <1>5 DEF Collects
      <4>2. Len(data) + readcnt <= MAX_OBJECT_SIZE
        <5>1. PICK k \in Nat : Len(data) = k * MAXLINE
          BY <4>1, <1>5 DEF Whole
        <5>2. k \in 0 .. MAX_OBJECT_SIZE
          <6>1. k <= k * MAXLINE
            BY Numbered
          <6> QED BY <6>1, <5>1, <3>1, Numbered
        <5>3. Len(data) + MaxReaders <= MAX_OBJECT_SIZE
          BY <5>1, <5>2, <3>1, RelayAssumption
        <5> QED BY <5>3, <1>3, Numbered
      <4>3. data' = sum
        BY <4>1, <4>2, <1>7 DEF Collected
      <4>4. sum = sum \o <<>> /\ <<>> \in Bytes
        BY Join, Constants
      <4>5. StartOf(data', sum)
        BY <4>3, <4>4, Zenon DEF StartOf
      <4> QED BY <4>3, <4>5
    <3>2. CASE ~ (Len(data) < MAX_OBJECT_SIZE)
      <4>1. Len(data) = MAX_OBJECT_SIZE
        BY <3>2, <1>3, Numbered
      <4>2. data' # data \o piece
        <5>1. Len(data \o piece) = Len(data) + Len(piece)
          BY <1>3, Join
        <5> QED BY <5>1, <4>1, <1>3, <1>7, Numbered
      <4>3. data' = data
        BY <4>2, <1>7 DEF Collected
      <4>4. PICK u \in Bytes : toClient = data \o u
        BY <1>5 DEF Collects, StartOf
      <4>5. Associative(data, u, piece) /\ u \o piece \in Bytes
        BY <1>3, <4>4, JoinThree, Join
      <4>6. sum = data \o (u \o piece)
        BY <4>4, <4>5, Zenon DEF Associative
      <4>7. StartOf(data', sum)
        BY <4>3, <4>5, <4>6, Zenon DEF StartOf
      <4> QED BY <4>1, <4>3, <4>7, <1>3, Numbered
    <3> QED BY <3>1, <3>2
  <2>2. Whole(sum) \/ fromServer = <<>>
    <3>1. CASE Len(piece) = MAXLINE
      <4>1. PICK k \in Nat : Len(toClient) = k * MAXLINE
        BY <1>5 DEF Whole
      <4>2. Len(sum) = k * MAXLINE + MAXLINE
        BY <3>1, <4>1
      <4>3. (k + 1) * MAXLINE = k * MAXLINE + MAXLINE /\ k + 1 \in Nat
        BY Numbered
      <4> QED BY <4>2, <4>3 DEF Whole
    <3> QED BY <3>1, <1>2
  <2>3. toClient' \o out' = sum
    BY <1>2, <1>7
  <2> USE <1>2, <1>7 DEF client, request, cache, process
  <2>4. Strings'
    BY <1>3, <2>1 DEF IInv, Strings
  <2>5. Flags' /\ OnlyLongOverruns'
    BY DEF IInv, Flags, Places, Writing, OnlyLongOverruns
  <2>6. Sizes'
    BY DEF IInv, Sizes
  <2>7. Sockets' /\ Unread' /\ Hits'
    BY DEF IInv, Sockets, Held, Reading, Unread, EndOf, Hits, StartOf
  <2>8. Moved'
    <3>1. (toClient' \o out') \o fromServer' = answer'
      BY <1>4, <2>3
    <3> QED BY <3>1 DEF Moved, Asking, Reading
  <2>9. Gathered'
    <3>1. Collects(toClient \o out)'
      BY <2>1, <2>3 DEF Collects, StartOf
    <3>2. (Whole(toClient \o out) \/ fromServer = <<>>)'
      BY <2>2, <2>3 DEF Whole
    <3> QED BY <3>1, <3>2 DEF Gathered
  <2> QED BY <2>4, <2>5, <2>6, <2>7, <2>8, <2>9 DEF IInv
<1>8. Collected(readcnt) \in Bytes
  BY <1>3, Join DEF Collected
<1>9. ~ (Len(Collected(readcnt)) > MAX_OBJECT_SIZE) => Len(Collected(readcnt)) <= MAX_OBJECT_SIZE
  BY <1>8, Join, Numbered
<1> QED BY <1>1, <1>6, <1>7, <1>9 DEF Write

(* The answer ends.                                                        *)
LEMMA EndOfAnswerInv ==
    ASSUME IInv, EndOfAnswer
    PROVE  IInv'
<1> USE DEF EndOfAnswer, client, request, reply, written, cache, process
<1>1. Strings' /\ Sizes' /\ Unread'
  BY DEF IInv, Strings, Sizes, Unread, EndOf
<1>2. Flags' /\ OnlyLongOverruns'
  BY DEF IInv, Flags, Places, OnlyLongOverruns
<1>3. Sockets' /\ Hits'
  BY DEF IInv, Sockets, Held, Reading, Hits, StartOf
<1>4. toClient = answer /\ out = <<>>
  <2>1. toClient \in Bytes /\ (toClient \o piece) \o fromServer = answer /\ out = <<>>
    BY DEF IInv, Strings, Moved
  <2>2. toClient \o <<>> = toClient
    BY <2>1, Join
  <2> QED BY <2>1, <2>2
<1>5. Moved'
  BY <1>4 DEF Moved, Asking, Reading
<1>6. Gathered'
  BY <1>4 DEF IInv, Gathered, Collects, StartOf
<1> QED BY <1>1, <1>2, <1>3, <1>5, <1>6 DEF IInv

(* What the stack holds behind the answer: its end, or one stray byte.      *)
Behind == {<<>>, <<255>>}

(* The cached item starts with the text of the answer, when it has room.   *)
Tells(a, item) ==
    item \in Bytes /\ (Len(item) <= MAX_OBJECT_SIZE => StartOf(Text(a), item))

(* What create_CI makes of a buffer that holds the answer as far as it fits. *)
LEMMA ItemText ==
    ASSUME NEW a \in Bytes, NEW d \in Bytes, StartOf(d, a),
           Len(d) < MAX_OBJECT_SIZE => d = a,
           NEW behind \in Behind
    PROVE  Tells(a, Append(Text(d \o behind), 0))
<1>1. behind \in Bytes /\ Nuls(behind) = {} /\ Len(behind) \in Nat
  <2>1. 255 \in Letters \cup Numbers
    BY DEF Numbers
  <2>2. CASE behind = <<>>
    BY <2>2, Constants DEF Nuls
  <2>3. CASE behind = <<255>>
    <3>1. behind \in Bytes /\ Len(behind) = 1 /\ behind[1] = 255
      BY <2>1, <2>3 DEF Bytes
    <3> QED BY <3>1 DEF Nuls
  <2> QED BY <2>2, <2>3 DEF Behind
<1>2. d \o behind \in Bytes /\ Len(d \o behind) = Len(d) + Len(behind) /\ Len(d) \in Nat
  BY <1>1, Join
<1> PICK text \in Bytes : text = Text(d \o behind)
  BY <1>2, TextStarts
<1>3. 0 \in Letters \cup Numbers
  BY DEF Numbers
<1>4. /\ Append(text, 0) \in Bytes
      /\ Len(Append(text, 0)) = Len(text) + 1 /\ Append(text, 0) = text \o <<0>> /\ <<0>> \in Bytes
  <2>1. <<0>> \in Bytes
    BY <1>3 DEF Bytes
  <2> QED BY <1>3, <2>1, AppendProperties, AppendIsConcat DEF Bytes
<1>5. Len(text) + 1 <= MAX_OBJECT_SIZE => text = Text(a) \/ (text = a \o behind /\ Text(a) = a)
  <2>1. CASE Nuls(d) # {}
    <3>1. PICK u \in Bytes : a = d \o u
      BY DEF StartOf
    <3>2. Text(a) = Text(d) /\ text = Text(d)
      BY <3>1, <2>1, <1>1, TextOfMore
    <3> QED BY <3>2
  <2>2. CASE Nuls(d) = {}
    <3>1. text = d \o behind /\ Text(d) = d
      BY <2>2, <1>1, TextOfMore
    <3>2. Len(text) + 1 <= MAX_OBJECT_SIZE => d = a
      BY <3>1, <1>1, <1>2, Numbered
    <3> QED BY <3>1, <3>2
  <2> QED BY <2>1, <2>2
<1>6. text = Text(a) => StartOf(Text(a), Append(text, 0))
  BY <1>4 DEF StartOf
<1>7. text = a \o behind /\ Text(a) = a => StartOf(Text(a), Append(text, 0))
  <2>4. HAVE text = a \o behind /\ Text(a) = a
  <2>1. (a \o behind) \o <<0>> = a \o (behind \o <<0>>)
    <3>1. Associative(a, behind, <<0>>)
      BY <1>1, <1>4, JoinThree
    <3> QED BY <3>1, Zenon DEF Associative
  <2>2. behind \o <<0>> \in Bytes
    BY <1>1, <1>4, Join
  <2>3. Append(text, 0) = a \o (behind \o <<0>>)
    BY <2>1, <1>4, <2>4, Zenon
  <2> QED BY <2>2, <2>3, <2>4 DEF StartOf
<1>8. Len(Append(text, 0)) <= MAX_OBJECT_SIZE => StartOf(Text(a), Append(text, 0))
  BY <1>4, <1>5, <1>6, <1>7
<1> QED BY <1>4, <1>8 DEF Tells

(* The answer is cached, and the sockets are closed.                       *)
LEMMA StoreInv ==
    ASSUME IInv, StoreObject
    PROVE  IInv'
<1> USE DEF StoreObject, client, request, reply, written
<1>1. /\ answer \in Bytes /\ data \in Bytes /\ stored \in Bytes
      /\ Collects(answer) /\ Len(stored) <= MAX_OBJECT_SIZE
  BY DEF IInv, Strings, Sizes, Gathered
<1>2. /\ stored' \in Bytes /\ Len(stored') <= MAX_OBJECT_SIZE
      /\ stored' # <<>> => StartOf(Text(answer), stored')
  <2>1. PICK behind \in {<<>>, <<255>>} : stored' = insert_cache(create_CI(behind))
    OBVIOUS
  <2>2. /\ create_CI(behind) \in Bytes
        /\ Len(create_CI(behind)) <= MAX_OBJECT_SIZE => StartOf(Text(answer), create_CI(behind))
    <3>1. behind \in {<<>>, <<255>>} /\ StartOf(data, answer)
          /\ (Len(data) < MAX_OBJECT_SIZE => data = answer)
      BY <1>1 DEF Collects
    <3>2. Tells(answer, create_CI(behind))
      BY <3>1, <1>1, ItemText, ZenonT(40) DEF create_CI, Behind
    <3> QED BY <3>2 DEF Tells
  <2>3. CASE Len(create_CI(behind)) > MAX_OBJECT_SIZE
    <3>1. stored' = stored
      BY <2>1, <2>3 DEF insert_cache
    <3> QED BY <3>1, <1>1 DEF IInv, Hits
  <2>4. CASE ~ (Len(create_CI(behind)) > MAX_OBJECT_SIZE)
    <3>1. stored' = create_CI(behind)
      BY <2>1, <2>4 DEF insert_cache
    <3>2. Len(stored') <= MAX_OBJECT_SIZE
      BY <3>1, <2>2, <2>4, Join, Numbered
    <3> QED BY <3>1, <3>2, <2>2
  <2> QED BY <2>3, <2>4
<1>3. Strings'
  BY <1>2 DEF IInv, Strings
<1>4. Flags' /\ OnlyLongOverruns'
  BY DEF IInv, Flags, Places, OnlyLongOverruns
<1>5. Sizes'
  BY <1>2 DEF IInv, Sizes
<1>6. Sockets'
  BY Numbered DEF IInv, Sockets, Held, Reading
<1>7. Unread'
  BY DEF IInv, Unread, EndOf
<1>8. Moved' /\ Gathered'
  BY DEF Moved, Gathered, Asking, Reading
<1>9. Hits'
  <2>1. ~ hit'
    BY DEF IInv, Hits
  <2>2. stored' # <<>> => StartOf(Text(answer), stored)'
    BY <1>2 DEF StartOf
  <2> QED BY <2>1, <2>2 DEF Hits
<1> QED BY <1>3, <1>4, <1>5, <1>6, <1>7, <1>8, <1>9 DEF IInv

(* Bytes are written, but not the last.                                    *)
LEMMA WriteSome ==
    ASSUME IInv, at \in Writing, NEW f \in Bytes, NEW g \in Bytes, out = f \o g,
           IF at \in {"ask", "tell"}
              THEN toServer' = toServer \o f /\ UNCHANGED toClient
              ELSE toClient' = toClient \o f /\ UNCHANGED toServer,
           out' = g,
           UNCHANGED <<at, process, piece, client, request, answer, fromServer, data, cache>>
    PROVE  IInv'
<1> USE DEF client, request, cache, process
<1>1. toClient \in Bytes /\ toServer \in Bytes
  BY DEF IInv, Strings
<1>2. toClient' \in Bytes /\ toServer' \in Bytes
  <2>1. toClient \o f \in Bytes /\ toServer \o f \in Bytes
    BY <1>1, Join
  <2> QED BY <2>1, <1>1
<1>3. at \notin Asking => toClient' \o out' = toClient \o out
  <2>1. Associative(toClient, f, g)
    BY <1>1, JoinThree
  <2>2. at \notin Asking => toClient' = toClient \o f
    BY DEF Asking
  <2> QED BY <2>1, <2>2, Zenon DEF Associative
<1>4. at \in Asking => toClient' = toClient
  BY DEF Asking, Writing, Reading
<1>5. at # "read" /\ at # "store" /\ at # "done"
  BY DEF Writing
<1>6. Strings'
  BY <1>2 DEF IInv, Strings
<1>7. Flags' /\ Sizes' /\ Sockets' /\ Unread' /\ OnlyLongOverruns'
  BY DEF IInv, Flags, Sizes, Sockets, Held, Unread, EndOf, OnlyLongOverruns
<1>8. Moved'
  <2>1. at = "forward" => (toClient' \o out') \o fromServer' = answer'
    BY <1>3 DEF IInv, Moved, Asking, Reading
  <2> QED BY <2>1, <1>4, <1>5 DEF IInv, Moved
<1>9. Gathered'
  <2>1. at = "forward" => toClient' \o out' = toClient \o out
    BY <1>3 DEF Asking, Reading
  <2> QED BY <2>1, <1>5 DEF IInv, Gathered, Collects, Whole, StartOf
<1>10. Hits'
  <2>1. at = "serve" => toClient' \o out' = toClient \o out
    BY <1>3 DEF Asking, Reading
  <2> QED BY <2>1, <1>5 DEF IInv, Hits, StartOf
<1> QED BY <1>6, <1>7, <1>8, <1>9, <1>10 DEF IInv

(* The last of the bytes is written.                                       *)
LEMMA WriteLast ==
    ASSUME IInv, at \in Writing,
           IF at \in {"ask", "tell"}
              THEN toServer' = toServer \o out /\ UNCHANGED toClient
              ELSE toClient' = toClient \o out /\ UNCHANGED toServer,
           Written,
           UNCHANGED <<client, request, answer, fromServer, data, cache>>
    PROVE  IInv'
<1> USE DEF client, request, cache, process, Write
<1>1. /\ toClient \in Bytes /\ toServer \in Bytes /\ out \in Bytes /\ header \in Bytes
      /\ piece \in Bytes /\ answer \in Bytes /\ fromServer \in Bytes /\ <<>> \in Bytes
      /\ Len(<<>>) = 0
  BY Constants DEF IInv, Strings
<1>2. toClient' \in Bytes /\ toServer' \in Bytes
  <2>1. toClient \o out \in Bytes /\ toServer \o out \in Bytes
    BY <1>1, Join
  <2> QED BY <2>1, <1>1
<1>3. Unread'
  BY DEF IInv, Unread, EndOf
<1>4. CASE at \in {"refuse", "serve"}
  <2>1. /\ at' = "done" /\ out' = <<>> /\ piece' = piece
        /\ at = "refuse" => refused' = refused + 1 /\ open' = open
        /\ at = "serve" => open' = open - 1 /\ refused' = refused
    BY <1>4 DEF Written, Refuse, CloseClient
  <2>2. toClient' = toClient \o out
    BY <1>4
  <2>3. Strings'
    BY <1>1, <1>2, <2>1 DEF IInv, Strings
  <2>4. Flags' /\ OnlyLongOverruns'
    BY <2>1 DEF IInv, Flags, Places, OnlyLongOverruns
  <2>8. Sizes'
    BY <1>4, <2>1 DEF IInv, Sizes
  <2>5. Sockets'
    BY <2>1, <1>4, Numbered DEF IInv, Sockets, Held, Reading
  <2>6. Moved' /\ Gathered'
    BY <2>1 DEF Moved, Gathered, Asking, Reading
  <2>7. Hits'
    BY <2>1, <2>2, <1>4 DEF IInv, Hits, StartOf
  <2> QED BY <1>3, <2>3, <2>4, <2>5, <2>6, <2>7, <2>8 DEF IInv
<1>5. CASE at = "ask"
  <2>1. at' = "tell" /\ out' = header /\ UNCHANGED <<process, piece>> /\ toClient' = toClient
    BY <1>5 DEF Written
  <2>2. Strings'
    BY <1>1, <1>2, <2>1 DEF IInv, Strings
  <2>3. Flags' /\ Sizes' /\ Sockets' /\ Hits' /\ OnlyLongOverruns'
    BY <1>5, <2>1 DEF IInv, Flags, Places, Writing, Sizes, Sockets, Held, Reading, Hits, StartOf,
                      OnlyLongOverruns
  <2>4. Moved' /\ Gathered'
    BY <1>5, <2>1 DEF IInv, Moved, Gathered, Asking, Reading
  <2> QED BY <1>3, <2>2, <2>3, <2>4 DEF IInv
<1>6. CASE at \in {"tell", "forward"}
  <2>1. at' = "read" /\ out' = <<>> /\ piece' = <<>> /\ UNCHANGED process
    BY <1>6 DEF Written, NextRead
  <2>2. Strings'
    BY <1>1, <1>2, <2>1 DEF IInv, Strings
  <2>3. Flags' /\ OnlyLongOverruns'
    BY <2>1 DEF IInv, Flags, Places, OnlyLongOverruns
  <2>9. Sizes'
    <3>1. Len(header) < MAXLINE
      BY <1>6 DEF IInv, Sizes
    <3>2. Len(piece') <= MAXLINE
      BY <2>1, <1>1, Numbered
    <3> QED BY <3>1, <3>2 DEF IInv, Sizes
  <2>4. Sockets' /\ Hits'
    BY <1>6, <2>1 DEF IInv, Sockets, Held, Reading, Hits, StartOf
  <2>5. toClient' \o piece' = toClient' /\ <<>> \o fromServer = fromServer /\ <<>> \o answer = answer
    BY <1>1, <1>2, <2>1, Join
  <2>6. toClient' \o fromServer = answer
    BY <1>6, <2>5 DEF IInv, Moved, Asking, Reading
  <2>7. Moved'
    BY <2>1, <2>5, <2>6 DEF Moved, Asking, Reading
  <2>8. Gathered'
    <3>1. Collects(toClient')
      <4>1. CASE at = "tell"
        <5>1. data = <<>> /\ toClient' = <<>>
          BY <4>1 DEF IInv, Moved, Asking
        <5> QED BY <5>1, <2>5, <1>1 DEF Collects, StartOf
      <4>2. CASE at = "forward"
        BY <4>2 DEF IInv, Gathered
      <4> QED BY <4>1, <4>2, <1>6
    <3>2. Collects(toClient)'
      BY <3>1 DEF Collects, StartOf
    <3>3. Whole(toClient') \/ fromServer = <<>>
      <4>1. CASE at = "tell"
        <5>1. Len(toClient') = 0 * MAXLINE
          BY <4>1, <1>1, Numbered DEF IInv, Moved, Asking
        <5> QED BY <5>1 DEF Whole
      <4>2. CASE at = "forward"
        BY <4>2 DEF IInv, Gathered
      <4> QED BY <4>1, <4>2, <1>6
    <3>4. (Whole(toClient) \/ (fromServer = <<>> /\ piece = <<>>))'
      BY <3>3, <2>1 DEF Whole
    <3> QED BY <3>2, <3>4, <2>1 DEF Gathered
  <2> QED BY <1>3, <2>2, <2>3, <2>4, <2>7, <2>8, <2>9 DEF IInv
<1> QED BY <1>4, <1>5, <1>6 DEF Writing

(* rio_writen: some of the bytes to send reach the client or the server.   *)
LEMMA WriteInv ==
    ASSUME IInv, rio_writen
    PROVE  IInv'
<1>1. at \in Writing /\ UNCHANGED <<client, request, answer, fromServer, data, cache>>
  BY DEF rio_writen
<1>2. PICK k \in 1 .. Len(out) :
         /\ IF at \in {"ask", "tell"}
               THEN toServer' = toServer \o FirstBytes(out, k) /\ UNCHANGED toClient
               ELSE toClient' = toClient \o FirstBytes(out, k) /\ UNCHANGED toServer
         /\ IF Remaining(k) = <<>>
               THEN Written
               ELSE out' = Remaining(k) /\ UNCHANGED <<at, process, piece>>
  BY DEF rio_writen
<1>3. out \in Bytes /\ Len(out) \in Nat
  BY Join DEF IInv, Strings
<1>4. k \in 0 .. Len(out)
  BY <1>3
<1>5. PICK f \in Bytes, g \in Bytes :
         /\ FirstBytes(out, k) = f /\ AfterBytes(out, k) = g /\ out = f \o g /\ Len(f) = k
  BY <1>3, <1>4, Parts
<1>6. CASE g = <<>>
  <2>1. f \o <<>> = f
    BY Join
  <2>2. out = f
    BY <2>1, <1>5, <1>6
  <2> QED BY <2>2, <1>1, <1>2, <1>5, <1>6, WriteLast DEF Remaining
<1>7. CASE g # <<>>
  <2>1. out' = g /\ UNCHANGED <<at, process, piece>>
    BY <1>2, <1>5, <1>7 DEF Remaining
  <2>2. IF at \in {"ask", "tell"}
           THEN toServer' = toServer \o f /\ UNCHANGED toClient
           ELSE toClient' = toClient \o f /\ UNCHANGED toServer
    BY <1>2, <1>5
  <2> QED BY <2>1, <2>2, <1>1, <1>5, WriteSome
<1> QED BY <1>6, <1>7

(* Nothing happens.                                                        *)
LEMMA StutterInv ==
    ASSUME IInv, UNCHANGED vars
    PROVE  IInv'
<1> USE DEF vars, client, request, reply, written, cache, process
<1>1. Strings' /\ Flags' /\ Sizes' /\ Sockets' /\ Unread' /\ OnlyLongOverruns'
  BY DEF IInv, Strings, Flags, Sizes, Sockets, Held, Unread, EndOf, OnlyLongOverruns
<1>2. Moved' /\ Gathered' /\ Hits'
  BY DEF IInv, Moved, Gathered, Collects, Whole, Hits, StartOf
<1> QED BY <1>1, <1>2 DEF IInv

(* Every step of the relay keeps the invariant.                            *)
LEMMA NextInv == IInv /\ [Next]_vars => IInv'
<1> SUFFICES ASSUME IInv, [Next]_vars PROVE IInv'
  OBVIOUS
<1>1. CASE \E s \in Requests : AcceptConnection(s)
  BY <1>1, AcceptInv
<1>2. CASE AcceptFails \/ WrapperFails
  BY <1>2, ExitInv
<1>3. CASE Serve
  BY <1>3, RefillInv, TakeByteInv, WriteInv, ConnectInv, ReadPieceInv, TakePieceInv,
     EndOfAnswerInv, StoreInv DEF Serve
<1>4. CASE EndOfFile
  BY <1>4, EndOfFileInv
<1>5. CASE UNCHANGED vars
  BY <1>5, StutterInv
<1> QED BY <1>1, <1>2, <1>3, <1>4, <1>5 DEF Next
-----------------------------------------------------------------------------
(* What the server is sent.  The rest of the request is always in order in *)
(* three places (InOrder), the line in the making begins where one of the  *)
(* request does, and the header is what the lines before it make (AtLine). *)

(* How much of the request was taken from the buffer, and how much of that *)
(* is in lines that were parsed.                                           *)
Reached == Len(sent) - Len(rio_buf) - Len(fromClient)
Taken == Reached - Len(line)

(* The rest of the request is, in this order, in line, which has no end    *)
(* yet, in rio_buf and with the client.                                    *)
InOrder ==
    /\ Taken \in 0 .. Reached /\ Reached \in 0 .. Len(sent)
    /\ \A k \in 1 .. Len(line) : line[k] = sent[Taken + k] /\ line[k] # "n"
    /\ \A k \in 1 .. Len(rio_buf) : rio_buf[k] = sent[Reached + k]
    /\ \A k \in 1 .. Len(fromClient) : fromClient[k] = sent[Reached + Len(rio_buf) + k]

(* What the first d bytes of a request s put into the header.              *)
Pieces(s) == [i \in DOMAIN s |-> Passing(s, i)]
Sofar(s, d) == FlattenSeq(SubSeq(Pieces(s), 1, d))

(* A line of the request begins behind byte d, and the header has not      *)
(* ended before.                                                           *)
Starts(s, d) ==
    /\ d = 0 \/ d \in Newlines(s)
    /\ \A j \in Newlines(s) : j <= d => ~ EndsHeader(s, j)

(* The line being read is where it should be, and the header has what it   *)
(* should so far.                                                          *)
Built(s, d, h, host) ==
    /\ h = FixedHeader \o Sofar(s, d)
    /\ host <=> Contains(Sofar(s, d), "H")

AtLine ==
    /\ at = "request" <=> Taken = 0
    /\ Starts(sent, Taken)
    /\ Built(sent, Reached, header, isHost)

Told == {"read", "forward", "store"}

HeaderBuilt ==
    /\ at \in Reading => InOrder /\ AtLine
    /\ at \in {"connect", "ask", "tell"} \cup Told => header = ExpectedHeader(sent)
    /\ at \in Reading \cup {"connect"} => toServer = <<>>
    /\ at = "ask" => toServer \o out = RequestLine
    /\ at = "tell" => toServer \o out = RequestLine \o header
    /\ at \in Told => toServer = RequestLine \o header

HInv == Fits(sent) => HeaderBuilt
-----------------------------------------------------------------------------
(* Lines of a request.                                                     *)

(* The line that ends at a newline begins behind the last newline before.  *)
LEMMA LineStarts ==
    ASSUME NEW s \in Bytes, NEW i \in 1 .. Len(s)
    PROVE  /\ Max({0} \cup Before(s, i)) \in {0} \cup Before(s, i)
           /\ \A j \in {0} \cup Before(s, i) : j <= Max({0} \cup Before(s, i))
           /\ {0} \cup Before(s, i) \subseteq 0 .. i - 1
<1>1. {0} \cup Before(s, i) \subseteq 0 .. i - 1 /\ Len(s) \in Nat /\ i \in Nat /\ DOMAIN s = 1 .. Len(s)
  <2>1. Len(s) \in Nat /\ DOMAIN s = 1 .. Len(s)
    BY DEF Bytes
  <2> QED BY <2>1 DEF Before, Newlines
<1> PICK S : S = {0} \cup Before(s, i)
  OBVIOUS
<1>2. S # {} /\ S \in SUBSET (0 .. i - 1) /\ i - 1 \in Nat
  BY <1>1
<1>3. Max(S) \in S /\ \A j \in S : j <= Max(S)
  BY <1>2, GreatestOfSet
<1> QED BY <1>2, <1>3

(* Bytes out of the middle of a sequence.                                  *)
LEMMA CutOut ==
    ASSUME NEW s \in Bytes, NEW m \in Nat \ {0}, NEW i \in 0 .. Len(s)
    PROVE  /\ SubSeq(s, m, i) \in Bytes
           /\ Len(SubSeq(s, m, i)) = IF m <= i THEN i - m + 1 ELSE 0
           /\ \A k \in 1 .. i - m + 1 : SubSeq(s, m, i)[k] = s[m + k - 1]
<1>1. i \in Int /\ m \in Int /\ Len(s) \in Nat
  BY Join
<1>2. \A k \in 1 .. Len(s) : s[k] \in Letters \cup Numbers
  BY ElementOfSeq DEF Bytes
<1>3. \A k \in m .. i : s[k] \in Letters \cup Numbers
  BY <1>1, <1>2
<1> QED BY <1>1, <1>3, SubSeqProperties DEF Bytes

(* What a line puts into the header is a sequence of bytes.                *)
LEMMA PassingType ==
    ASSUME NEW s \in Bytes, NEW i \in 1 .. Len(s)
    PROVE  Passing(s, i) \in Bytes
<1> PICK m \in Nat \ {0} : m = 1 + Max({0} \cup Before(s, i))
  <2>1. Max({0} \cup Before(s, i)) \in 0 .. i - 1
    BY LineStarts, Zenon
  <2> QED BY <2>1
<1>1. i \in 0 .. Len(s)
  BY Join
<1>2. SubSeq(s, m, i) \in Bytes
  BY <1>1, CutOut
<1>3. LineAt(s, i) \in Bytes
  BY <1>2 DEF LineAt
<1> QED BY <1>3, Constants DEF Passing

(* What one byte more puts into the header.                                *)
LEMMA SofarStep ==
    ASSUME NEW s \in Bytes
    PROVE  /\ Sofar(s, 0) = <<>>
           /\ Sofar(s, Len(s)) = Passed(s)
           /\ \A d \in 0 .. Len(s) : Sofar(s, d) \in Bytes
           /\ \A e \in 1 .. Len(s) : Sofar(s, e) = Sofar(s, e - 1) \o Passing(s, e)
<1> DEFINE P == Pieces(s)
<1>1. P \in Seq(Bytes) /\ Len(P) = Len(s) /\ Len(s) \in Nat
      /\ \A i \in 1 .. Len(s) : P[i] = Passing(s, i)
  <2>1. Len(s) \in Nat /\ DOMAIN s = 1 .. Len(s)
    BY DEF Bytes
  <2>2. \A i \in 1 .. Len(s) : Passing(s, i) \in Bytes
    BY PassingType
  <2>3. P = [i \in 1 .. Len(s) |-> Passing(s, i)]
    BY <2>1 DEF Pieces
  <2>4. P \in [1 .. Len(s) -> Bytes]
    BY <2>2, <2>3
  <2> HIDE DEF P
  <2> QED BY <2>1, <2>3, <2>4
<1>2. Passed(s) = FlattenSeq(P)
  BY DEF Passed, Pieces
<1>3. \A d \in 0 .. Len(s) : Sofar(s, d) = FlattenSeq(SubSeq(P, 1, d))
  BY DEF Sofar
<1> HIDE DEF P
<1>4. \A d \in 0 .. Len(s) : SubSeq(P, 1, d) \in Seq(Bytes)
  <2> SUFFICES ASSUME NEW d \in 0 .. Len(s)
               PROVE  SubSeq(P, 1, d) \in Seq(Bytes)
    OBVIOUS
  <2>1. d \in Int /\ \A i \in 1 .. d : P[i] \in Bytes
    <3>1. \A i \in 1 .. Len(P) : P[i] \in Bytes
      BY <1>1, ElementOfSeq
    <3> QED BY <3>1, <1>1
  <2> QED BY <2>1, SubSeqProperties
<1>5. \A d \in 0 .. Len(s) : Sofar(s, d) \in Bytes
  BY <1>3, <1>4, FlattenType DEF Bytes
<1>6. Sofar(s, 0) = <<>>
  <2>1. SubSeq(P, 1, 0) = <<>>
    BY SubSeqEmpty
  <2>2. FlattenSeq(<<>>) = <<>>
    BY DEF FlattenSeq
  <2>3. 0 \in 0 .. Len(s)
    BY <1>1
  <2> QED BY <1>3, <2>1, <2>2, <2>3
<1>7. Sofar(s, Len(s)) = Passed(s)
  <2>1. SubSeq(P, 1, Len(s)) = P /\ Len(s) \in 0 .. Len(s)
    BY <1>1, SubSeqFull
  <2> QED BY <1>2, <1>3, <2>1
<1>8. ASSUME NEW e \in 1 .. Len(s)
      PROVE  Sofar(s, e) = Sofar(s, e - 1) \o Passing(s, e)
  <2>1. e - 1 \in 0 .. Len(s) /\ e \in 0 .. Len(s) /\ 1 \in 1 .. Len(P) /\ e \in 1 .. Len(P)
    BY <1>1
  <2>2. SubSeq(P, 1, e) = SubSeq(P, 1, e - 1) \o <<P[e]>>
    BY <1>1, <2>1, SubSeqRecursiveSecond
  <2>3. P[e] \in Bytes /\ P[e] = Passing(s, e)
    BY <1>1, PassingType
  <2>4. <<P[e]>> \in Seq(Bytes) /\ SubSeq(P, 1, e - 1) \in Seq(Bytes)
    BY <2>3, <2>1, <1>4
  <2>5. FlattenSeq(SubSeq(P, 1, e - 1) \o <<P[e]>>)
           = FlattenSeq(SubSeq(P, 1, e - 1)) \o FlattenSeq(<<P[e]>>)
    BY <2>4, FlattenConcat DEF Bytes
  <2>6. FlattenSeq(<<P[e]>>) = P[e]
    BY <2>3, FlattenOne DEF Bytes
  <2> QED BY <1>3, <2>1, <2>2, <2>3, <2>5, <2>6
<1> QED BY <1>5, <1>6, <1>7, <1>8

(* A line ends: what it is, and what it puts into the header.              *)
LEMMA LineFound ==
    ASSUME NEW s \in Bytes, NEW d \in 0 .. Len(s), NEW e \in d + 1 .. Len(s),
           Starts(s, d), s[e] = "n", \A k \in d + 1 .. e - 1 : s[k] # "n"
    PROVE  /\ e \in Newlines(s) /\ LineAt(s, e) = SubSeq(s, d + 1, e)
           /\ \A j \in Newlines(s) : j <= e => j <= d \/ j = e
           /\ d = 0 => ~ EndsHeader(s, e) /\ Passing(s, e) = <<>>
           /\ d # 0 => /\ EndsHeader(s, e) <=> LineAt(s, e) = CRLF
                       /\ Passing(s, e) = IF LineAt(s, e) = CRLF \/ Dropped(LineAt(s, e))
                                          THEN <<>> ELSE LineAt(s, e)
<1>1. Len(s) \in Nat /\ DOMAIN s = 1 .. Len(s) /\ e \in 1 .. Len(s)
  <2>1. Len(s) \in Nat /\ DOMAIN s = 1 .. Len(s)
    BY DEF Bytes
  <2> QED BY <2>1
<1>2. e \in Newlines(s) /\ Newlines(s) \subseteq 1 .. Len(s)
  BY <1>1 DEF Newlines
<1>3. \A j \in Newlines(s) : j <= e => j <= d \/ j = e
  <2> SUFFICES ASSUME NEW j \in Newlines(s), j <= e, ~ (j <= d), j # e
               PROVE  FALSE
    OBVIOUS
  <2>1. j \in d + 1 .. e - 1 /\ s[j] = "n"
    BY <1>2 DEF Newlines
  <2> QED BY <2>1
<1>4. d \in {0} \cup Before(s, e) /\ \A j \in {0} \cup Before(s, e) : j <= d
  <2>1. d = 0 \/ d \in Newlines(s)
    BY DEF Starts
  <2>2. \A j \in Before(s, e) : j <= d
    BY <1>2, <1>3 DEF Before
  <2> QED BY <2>1, <2>2, <1>1 DEF Before
<1>5. Max({0} \cup Before(s, e)) = d
  <2>1. /\ Max({0} \cup Before(s, e)) \in {0} \cup Before(s, e)
        /\ d <= Max({0} \cup Before(s, e))
        /\ {0} \cup Before(s, e) \subseteq 0 .. e - 1
    BY <1>1, <1>4, LineStarts
  <2> QED BY <2>1, <1>4
<1>6. LineAt(s, e) = SubSeq(s, d + 1, e)
  <2>1. 1 + d = d + 1
    OBVIOUS
  <2> QED BY <1>5, <2>1 DEF LineAt
<1>7. Before(s, e) # {} <=> d # 0
  BY <1>2, <1>4 DEF Before
<1>8. \A j \in Before(s, e) : ~ EndsHeader(s, j)
  BY <1>2, <1>4 DEF Before, Starts
<1>9. d = 0 => ~ EndsHeader(s, e) /\ Passing(s, e) = <<>>
  BY <1>7 DEF EndsHeader, Passing, InHeader
<1>10. d # 0 => (EndsHeader(s, e) <=> LineAt(s, e) = CRLF)
  BY <1>7 DEF EndsHeader
<1>11. d # 0 => (InHeader(s, e) <=> LineAt(s, e) # CRLF)
  BY <1>7, <1>8, <1>10 DEF InHeader
<1>12. d # 0 => Passing(s, e) = IF LineAt(s, e) = CRLF \/ Dropped(LineAt(s, e))
                                THEN <<>> ELSE LineAt(s, e)
  BY <1>2, <1>11 DEF Passing, Dropped, Has
<1> QED BY <1>2, <1>3, <1>6, <1>9, <1>10, <1>12

(* Behind the end of the header nothing is put into it.                    *)
LEMMA HeaderEnds ==
    ASSUME NEW s \in Bytes, NEW e \in Newlines(s), EndsHeader(s, e)
    PROVE  Passed(s) = Sofar(s, e - 1)
<1>1. Len(s) \in Nat /\ e \in 1 .. Len(s) /\ Newlines(s) \subseteq 1 .. Len(s)
  <2>1. Len(s) \in Nat /\ DOMAIN s = 1 .. Len(s)
    BY DEF Bytes
  <2> QED BY <2>1 DEF Newlines
<1>2. ASSUME NEW i \in e .. Len(s)
      PROVE  Passing(s, i) = <<>>
  <2>1. i \in Newlines(s) => e \in Before(s, i) \cup {i}
    BY <1>1 DEF Before
  <2>2. i \in Newlines(s) => ~ InHeader(s, i)
    BY <2>1 DEF InHeader
  <2> QED BY <2>2 DEF Passing
<1> DEFINE R == {k \in Nat : e - 1 + k <= Len(s) => Sofar(s, e - 1 + k) = Sofar(s, e - 1)}
<1>3. 0 \in R
  <2>1. e - 1 + 0 = e - 1
    BY <1>1
  <2> QED BY <2>1
<1>4. ASSUME NEW k \in Nat, k \in R
      PROVE  k + 1 \in R
  <2> SUFFICES ASSUME e - 1 + (k + 1) <= Len(s)
               PROVE  Sofar(s, e - 1 + (k + 1)) = Sofar(s, e - 1)
    OBVIOUS
  <2>1. Sofar(s, e - 1 + k) = Sofar(s, e - 1)
    BY <1>1, <1>4
  <2>2. PICK i \in e .. Len(s) : i = e - 1 + (k + 1) /\ i - 1 = e - 1 + k /\ i \in 1 .. Len(s)
        /\ i - 1 \in 0 .. Len(s)
    BY <1>1
  <2>3. Sofar(s, i) = Sofar(s, i - 1) \o <<>> /\ Sofar(s, i - 1) \in Bytes
    BY <1>2, <2>2, SofarStep
  <2>4. Sofar(s, i) = Sofar(s, i - 1)
    BY <2>3, Join
  <2> QED BY <2>1, <2>2, <2>4
<1> HIDE DEF R
<1>5. Nat \subseteq R
  BY <1>3, <1>4, AllReached
<1>6. Len(s) - (e - 1) \in R /\ e - 1 + (Len(s) - (e - 1)) = Len(s)
  BY <1>1, <1>5
<1>7. Sofar(s, Len(s)) = Sofar(s, e - 1)
  BY <1>1, <1>6 DEF R
<1> QED BY <1>7, SofarStep

(* A request that the proxy has room for has a newline ahead, and no       *)
(* MAXLINE - 1 bytes before it.                                            *)
LEMMA NewlineAhead ==
    ASSUME NEW s \in Bytes, Fits(s), NEW d \in 0 .. Len(s), Starts(s, d)
    PROVE  \E e \in d + 1 .. Len(s) :
              /\ s[e] = "n" /\ e - d < MAXLINE
              /\ \A k \in d + 1 .. e - 1 : s[k] # "n"
<1>1. Len(s) \in Nat /\ Newlines(s) \subseteq 1 .. Len(s) /\ d \in Nat /\ DOMAIN s = 1 .. Len(s)
  <2>1. Len(s) \in Nat /\ DOMAIN s = 1 .. Len(s)
    BY DEF Bytes
  <2> QED BY <2>1 DEF Newlines
<1> DEFINE N == {j \in Newlines(s) : j > d}
<1>2. N \in SUBSET Nat /\ N # {}
  <2>1. PICK i \in Newlines(s) : EndsHeader(s, i)
    BY DEF Fits
  <2>2. ~ (i <= d)
    BY <2>1 DEF Starts
  <2> QED BY <2>2, <1>1
<1>3. Min(N) \in N /\ \A k \in N : Min(N) <= k
  <2> HIDE DEF N
  <2> QED BY <1>2, LeastOfSet
<1> PICK e \in Newlines(s) : e > d /\ \A k \in Newlines(s) : k > d => e <= k
  BY <1>3
<1>4. e \in d + 1 .. Len(s) /\ s[e] = "n"
  BY <1>1 DEF Newlines
<1>5. ASSUME NEW k \in d + 1 .. e - 1
      PROVE  s[k] # "n"
  <2>1. k \in 1 .. Len(s) /\ k > d /\ ~ (e <= k)
    BY <1>1, <1>4
  <2> QED BY <2>1, <1>1 DEF Newlines
<1>6. LineAt(s, e) = SubSeq(s, d + 1, e)
  BY <1>4, <1>5, LineFound
<1>7. Len(SubSeq(s, d + 1, e)) = e - d
  <2>1. d + 1 \in Nat \ {0} /\ e \in 0 .. Len(s) /\ d + 1 <= e
    BY <1>1, <1>4
  <2>2. Len(SubSeq(s, d + 1, e)) = e - (d + 1) + 1
    BY <2>1, CutOut
  <2> QED BY <2>2, <1>1, <1>4
<1>8. e - d < MAXLINE
  BY <1>6, <1>7 DEF Fits
<1> QED BY <1>4, <1>5, <1>8
-----------------------------------------------------------------------------
(* Each step keeps the header right.                                       *)

(* A text has a byte when one of the texts it is put together from has it. *)
LEMMA ContainsOfConcat ==
    ASSUME NEW s \in Bytes, NEW t \in Bytes, NEW b
    PROVE  Contains(s \o t, b) <=> Contains(s, b) \/ Contains(t, b)
<1>1. /\ Len(s \o t) = Len(s) + Len(t) /\ Len(s) \in Nat /\ Len(t) \in Nat
      /\ \A i \in 1 .. Len(s) + Len(t) : (s \o t)[i] = IF i <= Len(s) THEN s[i] ELSE t[i - Len(s)]
  BY Join, ConcatProperties DEF Bytes
<1>2. \A i \in 1 .. Len(s) : i \in 1 .. Len(s) + Len(t) /\ (s \o t)[i] = s[i]
  BY <1>1
<1>3. ASSUME NEW i \in 1 .. Len(t)
      PROVE  Len(s) + i \in 1 .. Len(s) + Len(t) /\ (s \o t)[Len(s) + i] = t[i]
  <2>1. Len(s) + i \in 1 .. Len(s) + Len(t) /\ ~ (Len(s) + i <= Len(s)) /\ (Len(s) + i) - Len(s) = i
    BY <1>1
  <2> QED BY <1>1, <2>1
<1>4. \A i \in 1 .. Len(s) + Len(t) : i \in 1 .. Len(s) \/ \E j \in 1 .. Len(t) : i = Len(s) + j
  <2> SUFFICES ASSUME NEW i \in 1 .. Len(s) + Len(t), i \notin 1 .. Len(s)
               PROVE  \E j \in 1 .. Len(t) : i = Len(s) + j
    OBVIOUS
  <2>1. i - Len(s) \in 1 .. Len(t) /\ i = Len(s) + (i - Len(s))
    BY <1>1
  <2> QED BY <2>1
<1>5. Contains(s \o t, b) => Contains(s, b) \/ Contains(t, b)
  <2>1. HAVE Contains(s \o t, b)
  <2>2. PICK i \in 1 .. Len(s) + Len(t) : (s \o t)[i] = b
    BY <2>1, <1>1 DEF Contains
  <2>3. CASE i \in 1 .. Len(s)
    BY <2>2, <2>3, <1>2 DEF Contains
  <2>4. CASE i \notin 1 .. Len(s)
    <3>1. PICK j \in 1 .. Len(t) : i = Len(s) + j
      BY <2>4, <1>4
    <3>2. t[j] = b
      BY <3>1, <2>2, <1>3
    <3> QED BY <3>2 DEF Contains
  <2> QED BY <2>3, <2>4
<1>6. Contains(s, b) => Contains(s \o t, b)
  BY <1>1, <1>2 DEF Contains
<1>7. Contains(t, b) => Contains(s \o t, b)
  <2>1. HAVE Contains(t, b)
  <2>2. PICK j \in 1 .. Len(t) : t[j] = b
    BY <2>1 DEF Contains
  <2>3. Len(s) + j \in 1 .. Len(s \o t) /\ (s \o t)[Len(s) + j] = b
    BY <2>2, <1>1, <1>3
  <2> QED BY <2>3 DEF Contains
<1> QED BY <1>5, <1>6, <1>7

(* A line is looked at and put into the header, dropped or ends it.        *)
LEMMA LineParsed ==
    ASSUME NEW s \in Bytes, NEW d \in 0 .. Len(s), NEW e \in d + 1 .. Len(s),
           Starts(s, d), s[e] = "n", \A k \in d + 1 .. e - 1 : s[k] # "n",
           isHost \in BOOLEAN, at \in Reading, at = "request" <=> d = 0,
           Built(s, e - 1, header, isHost), Parse(SubSeq(s, d + 1, e))
    PROVE  /\ at' \in {"header", "refuse", "serve", "connect", "overrun"}
           /\ at' = "header" => Starts(s, e) /\ Built(s, e, header', isHost')
           /\ at' = "connect" => header' = ExpectedHeader(s)
<1> PICK text : text = SubSeq(s, d + 1, e)
  OBVIOUS
<1>1. /\ e \in Newlines(s) /\ LineAt(s, e) = text
      /\ \A j \in Newlines(s) : j <= e => j <= d \/ j = e
      /\ d = 0 => ~ EndsHeader(s, e) /\ Passing(s, e) = <<>>
      /\ d # 0 => /\ EndsHeader(s, e) <=> text = CRLF
                  /\ Passing(s, e) = IF text = CRLF \/ Dropped(text) THEN <<>> ELSE text
  <2>1. /\ e \in Newlines(s) /\ LineAt(s, e) = SubSeq(s, d + 1, e)
        /\ \A j \in Newlines(s) : j <= e => j <= d \/ j = e
        /\ d = 0 => ~ EndsHeader(s, e) /\ Passing(s, e) = <<>>
        /\ d # 0 => /\ EndsHeader(s, e) <=> LineAt(s, e) = CRLF
                    /\ Passing(s, e) = IF LineAt(s, e) = CRLF \/ Dropped(LineAt(s, e))
                                       THEN <<>> ELSE LineAt(s, e)
    BY LineFound
  <2>2. LineAt(s, e) = text
    BY <2>1
  <2> QED BY <2>1, <2>2
<1>2. text \in Bytes /\ e \in 1 .. Len(s) /\ e - 1 \in 0 .. Len(s)
  <2>1. d + 1 \in Nat \ {0} /\ e \in 1 .. Len(s) /\ e \in 0 .. Len(s) /\ e - 1 \in 0 .. Len(s)
    BY Join
  <2> QED BY <2>1, CutOut
<1> PICK before \in Bytes : before = Sofar(s, e - 1)
  BY <1>2, SofarStep
<1>3. header = FixedHeader \o before /\ (isHost <=> Contains(before, "H"))
  BY DEF Built
<1>4. Sofar(s, e) = before \o Passing(s, e)
  BY <1>2, SofarStep
<1>5. ~ EndsHeader(s, e) => Starts(s, e)
  BY <1>1 DEF Starts
<1>6. Passing(s, e) = <<>> => Built(s, e, header, isHost)
  <2>1. before \o <<>> = before
    BY Join
  <2> QED BY <2>1, <1>3, <1>4 DEF Built
<1>7. CASE at = "request" /\ ParseRequest(text)
  <2>1. at' \in {"header", "refuse", "serve"} /\ header' = header /\ isHost' = isHost
    BY <1>7 DEF ParseRequest, Write, request
  <2> QED BY <2>1, <1>1, <1>5, <1>6, <1>7
<1>8. CASE at = "header" /\ ParseHeaderLine(text)
  <2>0. d # 0
    BY <1>8
  <2>1. CASE text = CRLF /\ EndOfHeader
    <3>1. /\ at' \in {"connect", "overrun"}
          /\ header' = header \o (IF isHost THEN <<>> ELSE HostLine) \o CRLF
      BY <2>1 DEF EndOfHeader, PutHeader
    <3>2. Passed(s) = before
      BY <1>1, <2>0, <2>1, HeaderEnds
    <3> QED BY <3>1, <3>2, <1>3 DEF ExpectedHeader
  <2>2. CASE text # CRLF /\ Dropped(text) /\ UNCHANGED <<at, header, isHost>>
    <3>1. Starts(s, e) /\ Built(s, e, header, isHost)
      BY <1>1, <1>5, <1>6, <2>0, <2>2
    <3> QED BY <3>1, <2>2, <1>8
  <2>3. CASE /\ text # CRLF /\ ~ Dropped(text)
             /\ PutHeader(header \o text, "header") /\ isHost' = (isHost \/ Has(text, "H"))
    <3>1. /\ at' \in {"header", "overrun"} /\ header' = header \o text
          /\ isHost' <=> isHost \/ Contains(text, "H")
      BY <2>3 DEF PutHeader, Has
    <3>2. Sofar(s, e) = before \o text /\ Starts(s, e)
      BY <1>1, <1>4, <1>5, <2>0, <2>3
    <3>3. header' = FixedHeader \o (before \o text)
      <4>1. Associative(FixedHeader, before, text)
        BY <1>2, Constants, JoinThree
      <4> QED BY <4>1, <3>1, <1>3, Zenon DEF Associative
    <3>4. isHost' <=> Contains(before \o text, "H")
      BY <3>1, <1>2, <1>3, ContainsOfConcat
    <3>5. Built(s, e, header', isHost')
      BY <3>2, <3>3, <3>4 DEF Built
    <3> QED BY <3>1, <3>2, <3>5
  <2> QED BY <1>8, <2>1, <2>2, <2>3 DEF ParseHeaderLine
<1> QED BY <1>7, <1>8 DEF Parse

(* It is right at the start,                                               *)
LEMMA InitHeader == Init => HInv
BY DEF Init, HInv, HeaderBuilt, Fits, Told, Reading

(* when a connection is accepted,                                          *)
LEMMA AcceptHeader ==
    ASSUME IInv, NEW s \in Requests, AcceptConnection(s)
    PROVE  HInv'
<1> USE DEF AcceptConnection, rio_readinitb
<1>1. /\ s \in Bytes /\ Len(s) \in Nat /\ Len(<<>>) = 0 /\ FixedHeader \in Bytes
  BY Constants, Join
<1>2. /\ at' = "request" /\ sent' = s /\ fromClient' = s /\ line' = <<>> /\ rio_buf' = <<>>
      /\ header' = FixedHeader /\ isHost' = FALSE /\ toServer' = <<>>
  OBVIOUS
<1> HIDE DEF AcceptConnection, rio_readinitb
<1>3. Reached' = 0 /\ Taken' = 0
  BY <1>1, <1>2 DEF Reached, Taken
<1>4. InOrder'
  BY <1>1, <1>2, <1>3 DEF InOrder
<1>5. AtLine'
  <2>1. FixedHeader \o <<>> = FixedHeader /\ Sofar(s, 0) = <<>> /\ ~ Contains(<<>>, "H")
    BY <1>1, Join, SofarStep DEF Contains
  <2>2. Built(s, 0, header', isHost')
    BY <2>1, <1>2 DEF Built
  <2>3. Newlines(s) \subseteq Nat \ {0}
    BY <1>1 DEF Newlines, Bytes
  <2>4. Starts(s, 0)
    BY <2>3 DEF Starts
  <2> QED BY <2>2, <2>4, <1>2, <1>3 DEF AtLine
<1> QED BY <1>2, <1>4, <1>5 DEF HInv, HeaderBuilt, Reading, Told

(* when a byte of it is taken or a line of it is parsed,                   *)
LEMMA TakeByteHeader ==
    ASSUME IInv, HInv, TakeByte
    PROVE  HInv'
<1>0. /\ at \in Reading /\ rio_buf # <<>> /\ rio_buf' = Tail(rio_buf)
      /\ UNCHANGED <<sent, fromClient, toServer>>
  BY DEF TakeByte
<1> SUFFICES ASSUME Fits(sent)
             PROVE  HeaderBuilt'
  BY <1>0 DEF HInv
<1>1. InOrder /\ AtLine /\ toServer = <<>>
  BY <1>0 DEF HInv, HeaderBuilt
<1>2. /\ sent \in Bytes /\ line \in Bytes /\ rio_buf \in Bytes /\ fromClient \in Bytes
      /\ Len(sent) \in Nat /\ Len(line) \in Nat /\ Len(rio_buf) \in Nat /\ Len(fromClient) \in Nat
      /\ Len(rio_buf) # 0 /\ isHost \in BOOLEAN
  BY <1>0, Join DEF IInv, Strings, Flags
<1> PICK d \in Nat, r \in Nat : d = Taken /\ r = Reached
  BY <1>1, <1>2 DEF InOrder
<1>3. /\ Head(rio_buf) = rio_buf[1] /\ rio_buf[1] \in Letters \cup Numbers
      /\ Len(rio_buf') = Len(rio_buf) - 1
      /\ \A k \in 1 .. Len(rio_buf) - 1 : rio_buf'[k] = rio_buf[k + 1]
  BY <1>0, <1>2, HeadTailProperties DEF Bytes
<1>4. /\ r = Len(sent) - Len(rio_buf) - Len(fromClient) /\ d = r - Len(line)
      /\ r + 1 \in d + 1 .. Len(sent) /\ d \in 0 .. Len(sent)
      /\ \A k \in 1 .. Len(line) : line[k] = sent[d + k] /\ line[k] # "n"
      /\ \A k \in 1 .. Len(rio_buf) : rio_buf[k] = sent[r + k]
      /\ \A k \in 1 .. Len(fromClient) : fromClient[k] = sent[r + Len(rio_buf) + k]
  <2>1. r = Len(sent) - Len(rio_buf) - Len(fromClient) /\ d = r - Len(line)
    BY DEF Reached, Taken
  <2> QED BY <2>1, <1>1, <1>2 DEF InOrder
<1>5. Reached' = r + 1
  BY <1>0, <1>2, <1>3, <1>4 DEF Reached
<1>6. /\ \A k \in 1 .. Len(rio_buf') : rio_buf'[k] = sent'[(r + 1) + k]
      /\ \A k \in 1 .. Len(fromClient') : fromClient'[k] = sent'[(r + 1) + Len(rio_buf') + k]
  <2>1. ASSUME NEW k \in 1 .. Len(rio_buf')
        PROVE  rio_buf'[k] = sent'[(r + 1) + k]
    <3>1. k \in 1 .. Len(rio_buf) - 1 /\ k + 1 \in 1 .. Len(rio_buf) /\ r + (k + 1) = (r + 1) + k
      BY <1>2, <1>3
    <3> QED BY <3>1, <1>0, <1>3, <1>4
  <2>2. (r + 1) + Len(rio_buf') = r + Len(rio_buf)
    BY <1>2, <1>3
  <2> QED BY <2>1, <2>2, <1>0, <1>4
<1> PICK text : text = Append(line, Head(rio_buf))
  OBVIOUS
<1>7. /\ Len(text) = Len(line) + 1
      /\ \A k \in 1 .. Len(line) + 1 : text[k] = sent[d + k]
      /\ \A k \in 1 .. Len(line) : text[k] # "n"
      /\ text \in Bytes
  <2>1. /\ Len(text) = Len(line) + 1 /\ text[Len(line) + 1] = rio_buf[1] /\ text \in Bytes
        /\ \A k \in 1 .. Len(line) : text[k] = line[k]
    BY <1>2, <1>3, AppendProperties DEF Bytes
  <2>2. rio_buf[1] = sent[d + (Len(line) + 1)]
    <3>1. 1 \in 1 .. Len(rio_buf) /\ r + 1 = d + (Len(line) + 1)
      BY <1>2, <1>4
    <3> QED BY <3>1, <1>4
  <2>3. \A k \in 1 .. Len(line) + 1 : k \in 1 .. Len(line) \/ k = Len(line) + 1
    BY <1>2
  <2> QED BY <2>1, <2>2, <2>3, <1>4
<1>8. Last(text) = sent[r + 1]
  <2>1. d + (Len(line) + 1) = r + 1 /\ Len(line) + 1 \in 1 .. Len(line) + 1
    BY <1>2, <1>4
  <2> QED BY <2>1, <1>7 DEF Last
<1>9. \A k \in d + 1 .. r : sent[k] # "n"
  <2> SUFFICES ASSUME NEW k \in d + 1 .. r
               PROVE  sent[k] # "n"
    OBVIOUS
  <2> PICK j \in 1 .. Len(line) : d + j = k
    <3>1. k - d \in 1 .. Len(line) /\ d + (k - d) = k
      BY <1>2, <1>4
    <3> QED BY <3>1
  <2>1. sent[d + j] # "n"
    BY <1>4
  <2> QED BY <2>1
<1>10. Starts(sent, d) /\ (at = "request" <=> d = 0) /\ Built(sent, r, header, isHost)
  BY <1>1 DEF AtLine
<1>11. LineEnds(text) => sent[r + 1] = "n"
  <2> SUFFICES ASSUME Len(text) = MAXLINE - 1, sent[r + 1] # "n"
               PROVE  FALSE
    BY <1>8 DEF LineEnds
  <2>1. PICK e \in d + 1 .. Len(sent) :
           /\ sent[e] = "n" /\ e - d < MAXLINE /\ \A k \in d + 1 .. e - 1 : sent[k] # "n"
    BY <1>2, <1>4, <1>10, NewlineAhead
  <2>2. e > r + 1
    BY <2>1, <1>4, <1>9
  <2> QED BY <2>1, <2>2, <1>2, <1>4, <1>7, Numbered
<1>12. CASE LineEnds(text)
  <2>1. line' = <<>> /\ Parse(text) /\ sent[r + 1] = "n"
    BY <1>11, <1>12 DEF TakeByte
  <2>2. text = SubSeq(sent, d + 1, r + 1)
    <3>1. d + 1 \in Nat \ {0} /\ r + 1 \in 0 .. Len(sent) /\ d + 1 <= r + 1
      BY <1>4
    <3> PICK cut : cut = SubSeq(sent, d + 1, r + 1)
      OBVIOUS
    <3>2. /\ cut \in Bytes /\ Len(cut) = (r + 1) - (d + 1) + 1
          /\ \A k \in 1 .. (r + 1) - (d + 1) + 1 : cut[k] = sent[(d + 1) + k - 1]
      BY <3>1, <1>2, CutOut
    <3>3. (r + 1) - (d + 1) + 1 = Len(line) + 1 /\ \A k \in 1 .. Len(line) + 1 : (d + 1) + k - 1 = d + k
      BY <1>2, <1>4
    <3>4. Len(cut) = Len(text) /\ \A k \in 1 .. Len(text) : text[k] = cut[k]
      BY <3>2, <3>3, <1>7
    <3>5. text = cut
      BY <3>2, <3>4, <1>7, SeqEqual DEF Bytes
    <3> QED BY <3>5
  <2>3. (r + 1) - 1 = r
    OBVIOUS
  <2>4. /\ at' \in {"header", "refuse", "serve", "connect", "overrun"}
        /\ at' = "header" => Starts(sent, r + 1) /\ Built(sent, r + 1, header', isHost')
        /\ at' = "connect" => header' = ExpectedHeader(sent)
    BY <1>0, <1>2, <1>4, <1>9, <1>10, <2>1, <2>2, <2>3, LineParsed
  <2>5. Taken' = r + 1 /\ Len(line') = 0
    <3>1. Len(<<>>) = 0
      OBVIOUS
    <3> QED BY <3>1, <1>5, <2>1 DEF Taken
  <2>6. InOrder'
    BY <1>0, <1>4, <1>5, <1>6, <2>1, <2>5 DEF InOrder
  <2>7. at' = "header" => AtLine'
    BY <1>0, <1>4, <1>5, <2>4, <2>5 DEF AtLine
  <2> QED BY <1>0, <1>1, <2>4, <2>6, <2>7 DEF HeaderBuilt, Reading, Told
<1>13. CASE ~ LineEnds(text)
  <2>1. line' = text /\ UNCHANGED <<at, header, isHost>> /\ sent[r + 1] # "n"
    BY <1>8, <1>13 DEF TakeByte, LineEnds, request
  <2>2. Taken' = d
    BY <1>2, <1>4, <1>5, <1>7, <2>1 DEF Taken
  <2>3. \A k \in 1 .. Len(line') : line'[k] = sent'[d + k] /\ line'[k] # "n"
    <3>1. \A k \in 1 .. Len(line') : k \in 1 .. Len(line) + 1
      BY <1>7, <2>1
    <3>2. text[Len(line) + 1] # "n" /\ \A k \in 1 .. Len(line) + 1 : k \in 1 .. Len(line) \/ k = Len(line) + 1
      BY <1>2, <1>7, <1>8, <2>1 DEF Last
    <3> QED BY <3>1, <3>2, <1>0, <1>7, <2>1
  <2>4. InOrder'
    <3>1. d \in 0 .. r + 1 /\ r + 1 \in 0 .. Len(sent')
      BY <1>0, <1>2, <1>4
    <3> QED BY <3>1, <1>5, <1>6, <2>2, <2>3 DEF InOrder
  <2>5. Built(sent, r + 1, header, isHost)
    <3>1. Passing(sent, r + 1) = <<>>
      BY <2>1 DEF Passing, Newlines
    <3>2. r + 1 \in 1 .. Len(sent) /\ (r + 1) - 1 = r /\ r \in 0 .. Len(sent)
      BY <1>2, <1>4
    <3>3. Sofar(sent, r + 1) = Sofar(sent, r) \o <<>> /\ Sofar(sent, r) \in Bytes
      BY <3>1, <3>2, <1>2, SofarStep
    <3>4. Sofar(sent, r + 1) = Sofar(sent, r)
      BY <3>3, Join
    <3> QED BY <3>4, <1>10 DEF Built
  <2>6. AtLine'
    BY <1>0, <1>5, <1>10, <2>1, <2>2, <2>5 DEF AtLine
  <2> QED BY <1>0, <1>1, <2>1, <2>4, <2>6 DEF HeaderBuilt, Reading, Told
<1> QED BY <1>12, <1>13

(* when the buffer is filled,                                              *)
LEMMA RefillHeader ==
    ASSUME IInv, HInv, Refill
    PROVE  HInv'
<1>0. /\ at \in Reading /\ rio_buf = <<>>
      /\ UNCHANGED <<at, sent, line, header, isHost, toServer>>
  BY DEF Refill, request, written
<1> SUFFICES ASSUME Fits(sent)
             PROVE  HeaderBuilt'
  BY <1>0 DEF HInv
<1>1. InOrder /\ AtLine /\ toServer = <<>>
  BY <1>0 DEF HInv, HeaderBuilt
<1>2. /\ fromClient \in Bytes /\ Len(fromClient) \in Nat /\ Len(rio_buf) = 0 /\ Len(sent) \in Nat
      /\ Len(line) \in Nat
  BY <1>0, Join DEF IInv, Strings
<1> PICK n \in 1 .. Len(fromClient) :
         rio_buf' = FirstBytes(fromClient, n) /\ fromClient' = AfterBytes(fromClient, n)
  BY <1>2, Numbered DEF Refill, Least
<1>3. /\ Len(rio_buf') = n /\ Len(fromClient') = Len(fromClient) - n
      /\ \A k \in 1 .. n : rio_buf'[k] = fromClient[k]
      /\ \A k \in 1 .. Len(fromClient) - n : fromClient'[k] = fromClient[n + k]
  <2>1. Len(rio_buf') = n /\ Len(fromClient') = Len(fromClient) - n
    BY <1>2, Split
  <2>2. ASSUME NEW k \in 1 .. n
        PROVE  rio_buf'[k] = fromClient[k]
    <3>1. 1 \in Nat \ {0} /\ n \in 0 .. Len(fromClient) /\ k \in 1 .. n - 1 + 1 /\ 1 + k - 1 = k
      BY <1>2
    <3>2. SubSeq(fromClient, 1, n)[k] = fromClient[1 + k - 1]
      BY <3>1, <1>2, CutOut
    <3> QED BY <3>1, <3>2 DEF FirstBytes
  <2>3. ASSUME NEW k \in 1 .. Len(fromClient) - n
        PROVE  fromClient'[k] = fromClient[n + k]
    <3>1. /\ n + 1 \in Nat \ {0} /\ Len(fromClient) \in 0 .. Len(fromClient)
          /\ k \in 1 .. Len(fromClient) - (n + 1) + 1 /\ (n + 1) + k - 1 = n + k
      BY <1>2
    <3>2. SubSeq(fromClient, n + 1, Len(fromClient))[k] = fromClient[(n + 1) + k - 1]
      BY <3>1, <1>2, CutOut
    <3> QED BY <3>1, <3>2 DEF AfterBytes
  <2> QED BY <2>1, <2>2, <2>3
<1>4. Reached' = Reached /\ Taken' = Taken /\ Reached \in Nat
  <2>1. Reached' = Reached
    BY <1>0, <1>2, <1>3 DEF Reached
  <2> QED BY <1>0, <1>1, <2>1 DEF Taken, InOrder
<1>5. InOrder'
  <2> PICK r \in Nat : r = Reached
    BY <1>4
  <2> PICK d : d = Taken
    OBVIOUS
  <2>1. \A k \in 1 .. Len(fromClient) : fromClient[k] = sent[r + k]
    <3>1. r + Len(rio_buf) = r
      BY <1>2
    <3> QED BY <3>1, <1>1 DEF InOrder
  <2>2. \A k \in 1 .. Len(rio_buf') : rio_buf'[k] = sent[r + k]
    BY <1>2, <1>3, <2>1
  <2>3. ASSUME NEW k \in 1 .. Len(fromClient')
        PROVE  fromClient'[k] = sent[r + Len(rio_buf') + k]
    <3>1. n + k \in 1 .. Len(fromClient) /\ k \in 1 .. Len(fromClient) - n
          /\ r + (n + k) = r + Len(rio_buf') + k
      BY <1>2, <1>3
    <3> QED BY <3>1, <1>3, <2>1
  <2>4. /\ d \in 0 .. r /\ r \in 0 .. Len(sent)
        /\ \A k \in 1 .. Len(line) : line[k] = sent[d + k] /\ line[k] # "n"
    BY <1>1 DEF InOrder
  <2> QED BY <1>0, <1>4, <2>2, <2>3, <2>4 DEF InOrder
<1>6. AtLine'
  BY <1>0, <1>1, <1>4 DEF AtLine
<1> QED BY <1>0, <1>1, <1>5, <1>6 DEF HeaderBuilt, Reading, Told

(* while the client's end of file comes only behind the header's,          *)
LEMMA EndOfFileHeader ==
    ASSUME IInv, HInv, EndOfFile
    PROVE  HInv'
<1>0. at \in Reading /\ rio_buf = <<>> /\ fromClient = <<>> /\ sent' = sent
  BY DEF EndOfFile
<1> SUFFICES ASSUME Fits(sent)
             PROVE  FALSE
  BY <1>0 DEF HInv
<1>1. InOrder /\ AtLine
  BY <1>0 DEF HInv, HeaderBuilt
<1>2. sent \in Bytes /\ Len(sent) \in Nat /\ Len(line) \in Nat /\ Len(rio_buf) = 0 /\ Len(fromClient) = 0
  BY <1>0, Join DEF IInv, Strings
<1> PICK d \in 0 .. Len(sent) : d = Taken /\ d + Len(line) = Len(sent)
  <2>1. Reached = Len(sent)
    BY <1>2 DEF Reached
  <2>2. Taken = Len(sent) - Len(line)
    BY <2>1 DEF Taken
  <2>3. Taken \in 0 .. Len(sent)
    BY <1>1, <2>1 DEF InOrder
  <2>4. Taken + Len(line) = Len(sent)
    BY <1>2, <2>2, <2>3
  <2> QED BY <2>3, <2>4
<1>3. PICK e \in d + 1 .. Len(sent) : sent[e] = "n"
  BY <1>1, <1>2, NewlineAhead DEF AtLine
<1> PICK k \in 1 .. Len(line) : d + k = e
  <2>1. e - d \in 1 .. Len(line) /\ d + (e - d) = e
    BY <1>2
  <2> QED BY <2>1
<1>4. line[k] = sent[d + k] /\ line[k] # "n"
  BY <1>1 DEF InOrder
<1> QED BY <1>3, <1>4

(* and while it is sent to the server.                                     *)
LEMMA WriteHeader ==
    ASSUME IInv, HInv, rio_writen
    PROVE  HInv'
<1>0. at \in Writing /\ UNCHANGED <<sent, header>>
  BY DEF rio_writen, client, request
<1> SUFFICES ASSUME Fits(sent)
             PROVE  HeaderBuilt'
  BY <1>0 DEF HInv
<1>1. /\ at \in {"ask", "tell", "forward"} => header = ExpectedHeader(sent)
      /\ at = "ask" => toServer \o out = RequestLine
      /\ at = "tell" => toServer \o out = RequestLine \o header
      /\ at = "forward" => toServer = RequestLine \o header
  BY DEF HInv, HeaderBuilt, Told
<1>2. /\ toServer \in Bytes /\ out \in Bytes /\ header \in Bytes /\ RequestLine \in Bytes
      /\ Len(out) \in Nat
  BY Constants, Join DEF IInv, Strings
<1>3. PICK k \in 1 .. Len(out) :
         /\ IF at \in {"ask", "tell"} THEN toServer' = toServer \o FirstBytes(out, k)
                                      ELSE toServer' = toServer
         /\ IF Remaining(k) = <<>>
               THEN Written
               ELSE out' = Remaining(k) /\ UNCHANGED at
  BY DEF rio_writen
<1>4. k \in 0 .. Len(out)
  BY <1>2
<1>5. PICK f \in Bytes, g \in Bytes :
         /\ FirstBytes(out, k) = f /\ AfterBytes(out, k) = g /\ out = f \o g /\ Len(f) = k
  BY <1>2, <1>4, Parts
<1>6. CASE g # <<>>
  <2>1. out' = g /\ at' = at
    BY <1>3, <1>5, <1>6 DEF Remaining
  <2>2. at \in {"ask", "tell"} => toServer' \o out' = toServer \o out
    <3>1. Associative(toServer, f, g)
      BY <1>2, JoinThree
    <3>2. at \in {"ask", "tell"} => toServer' = toServer \o f
      BY <1>3, <1>5
    <3> QED BY <3>1, <3>2, <2>1, <1>5, Zenon DEF Associative
  <2>3. at = "forward" => toServer' = toServer
    BY <1>3
  <2> QED BY <1>0, <1>1, <2>1, <2>2, <2>3 DEF HeaderBuilt, Reading, Writing, Told
<1>7. CASE g = <<>>
  <2>0. out = f
    <3>1. f \o <<>> = f
      BY Join
    <3> QED BY <3>1, <1>5, <1>7
  <2>1. Written /\ (at \in {"ask", "tell"} => toServer' = toServer \o out)
        /\ (at \notin {"ask", "tell"} => toServer' = toServer)
    BY <1>3, <1>5, <1>7, <2>0 DEF Remaining
  <2>2. CASE at \in {"refuse", "serve"}
    BY <2>1, <2>2 DEF Written, Refuse, CloseClient, Write, HeaderBuilt, Reading, Told
  <2>3. CASE at = "ask"
    <3>1. at' = "tell" /\ out' = header /\ toServer' = RequestLine
      BY <2>1, <2>3, <1>1 DEF Written, Write
    <3> QED BY <3>1, <2>3, <1>0, <1>1 DEF HeaderBuilt, Reading, Told
  <2>4. CASE at \in {"tell", "forward"}
    <3>1. at' = "read" /\ toServer' = RequestLine \o header
      BY <2>1, <2>4, <1>1 DEF Written, NextRead, Write
    <3> QED BY <3>1, <2>4, <1>0, <1>1 DEF HeaderBuilt, Reading, Told
  <2> QED BY <1>0, <2>2, <2>3, <2>4 DEF Writing
<1> QED BY <1>6, <1>7

(* The other steps change nothing about it.                                *)
LEMMA OtherHeader ==
    ASSUME IInv, HInv,
           \/ AcceptFails \/ WrapperFails \/ Open_clientfd \/ ReadPiece \/ TakePiece
           \/ EndOfAnswer \/ StoreObject \/ UNCHANGED vars
    PROVE  HInv'
<1> USE DEF client, request, reply, written, cache, process
<1>1. CASE AcceptFails \/ WrapperFails \/ StoreObject
  <2>1. at' \in {"exit", "done"}
    BY <1>1 DEF AcceptFails, WrapperFails, StoreObject
  <2> QED BY <2>1 DEF HInv, HeaderBuilt, Reading, Told
<1>2. CASE Open_clientfd
  <2>1. <<>> \o RequestLine = RequestLine
    BY Constants, Join
  <2>2. /\ at = "connect" /\ UNCHANGED <<sent, header, toServer>>
        /\ at' = "exit" \/ (at' = "ask" /\ out' = RequestLine)
    BY <1>2 DEF Open_clientfd, Write
  <2> QED BY <2>1, <2>2 DEF HInv, HeaderBuilt, Reading, Told
<1>3. CASE ReadPiece \/ TakePiece \/ EndOfAnswer
  <2>1. /\ at = "read" /\ at' \in Told \cup {"overrun"} /\ UNCHANGED <<sent, header, toServer>>
    BY <1>3 DEF ReadPiece, TakePiece, EndOfAnswer, Write, Told
  <2> QED BY <2>1 DEF HInv, HeaderBuilt, Reading, Told
<1>4. CASE UNCHANGED vars
  BY <1>4 DEF vars, HInv, HeaderBuilt, InOrder, AtLine, Taken, Reached
<1> QED BY <1>1, <1>2, <1>3, <1>4

(* Every step keeps the header right.                                      *)
LEMMA NextHeader == IInv /\ HInv /\ [Next]_vars => HInv'
<1> SUFFICES ASSUME IInv, HInv, [Next]_vars PROVE HInv'
  OBVIOUS
<1>1. CASE \E s \in Requests : AcceptConnection(s)
  BY <1>1, AcceptHeader
<1>2. CASE Serve
  BY <1>2, TakeByteHeader, RefillHeader, WriteHeader, OtherHeader DEF Serve
<1>3. CASE EndOfFile
  BY <1>3, EndOfFileHeader
<1>4. CASE AcceptFails \/ WrapperFails \/ UNCHANGED vars
  BY <1>4, OtherHeader
<1> QED BY <1>1, <1>2, <1>3, <1>4 DEF Next

-----------------------------------------------------------------------------
(* Whatever the client and the server send, wherever the bytes are cut and *)
(* whichever call fails: the invariant holds.                              *)
THEOREM Invariant == Spec => []IInv
<1> QED BY InitInv, NextInv, PTL DEF Spec

(* No array holds more than its size, but where the thread has overrun it; *)
(* what is unread is an end of what was sent; and a descriptor is open for *)
(* each refused connection.                                                *)
THEOREM TypeCorrect == Spec => []TypeOK
<1>1. IInv => TypeOK
  <2> SUFFICES ASSUME IInv PROVE TypeOK
    OBVIOUS
  <2>1. /\ Len(rio_buf) \in Nat /\ Len(line) \in Nat /\ Len(line) < MAXLINE - 1
        /\ Len(rio_buf) <= RIO_BUFSIZE
    BY Join DEF IInv, Strings, Sizes
  <2>2. Len(rio_buf) \in 0 .. RIO_BUFSIZE /\ Len(line) < MAXLINE
    BY <2>1, Numbered
  <2>3. IsSuffix(fromClient, sent) /\ IsSuffix(fromServer, answer)
    BY SuffixOf DEF IInv, Strings, Unread
  <2>4. open \in 0 .. MaxOpen /\ refused \in 0 .. open
    BY DEF IInv, Sockets
  <2> QED BY <2>2, <2>3, <2>4 DEF TypeOK, IInv, Flags, Sizes
<1> QED BY <1>1, Invariant, PTL

(* A client is sent the server's bytes in order and all of them, and the   *)
(* cache holds the text of an answer first, or does not hold it.           *)
THEOREM Relays == Spec => []AnswerRelayed
<1>1. IInv => AnswerRelayed
  <2> SUFFICES ASSUME IInv PROVE AnswerRelayed
    OBVIOUS
  <2>1. /\ answer \in Bytes /\ toClient \in Bytes /\ out \in Bytes /\ piece \in Bytes
        /\ fromServer \in Bytes /\ stored \in Bytes /\ Text(answer) \in Bytes
    BY TextStarts DEF IInv, Strings
  <2>2. at = "read" => IsPrefix(toClient \o out, answer)
    <3>0. HAVE at = "read"
    <3>1. out = <<>> /\ (toClient \o piece) \o fromServer = answer
      BY <3>0 DEF IInv, Moved
    <3>2. Associative(toClient, piece, fromServer) /\ piece \o fromServer \in Bytes
      BY <2>1, Join, JoinThree
    <3>3. answer = toClient \o (piece \o fromServer)
      BY <3>1, <3>2, Zenon DEF Associative
    <3>4. toClient \o out = toClient
      BY <3>1, <2>1, Join
    <3>5. StartOf(toClient, answer)
      BY <3>2, <3>3 DEF StartOf
    <3> QED BY <3>4, <3>5, <2>1, PrefixOf
  <2>3. at = "forward" => IsPrefix(toClient \o out, answer)
    <3>0. HAVE at = "forward"
    <3>1. toClient \o out \in Bytes /\ StartOf(toClient \o out, answer)
      BY <3>0, <2>1, Join DEF IInv, Moved, StartOf
    <3> QED BY <3>1, <2>1, PrefixOf
  <2>4. at = "store" => toClient = answer /\ IsPrefix(toClient \o out, answer)
    <3>0. HAVE at = "store"
    <3>1. out = <<>> /\ toClient = answer
      BY <3>0 DEF IInv, Moved
    <3>2. toClient \o out = answer /\ answer = answer \o <<>> /\ <<>> \in Bytes
      BY <3>1, <2>1, Join, Constants
    <3> QED BY <3>1, <3>2, <2>1, PrefixOf DEF StartOf
  <2>5. stored # <<>> => IsPrefix(Text(answer), stored)
    BY <2>1, PrefixOf DEF IInv, Hits
  <2>6. at = "done" /\ hit => IsPrefix(Text(answer), toClient)
    BY <2>5 DEF IInv, Hits
  <2> QED BY <2>2, <2>3, <2>4, <2>5, <2>6 DEF AnswerRelayed
<1> QED BY <1>1, Invariant, PTL

(* A header or an answer that fits its array never overruns it, whatever   *)
(* number of readers the limit is tested with.                             *)
THEOREM FitsOrOverruns == Spec => []OnlyLongOverruns
<1>1. IInv => OnlyLongOverruns
  BY DEF IInv
<1> QED BY <1>1, Invariant, PTL

(* A connection that is served closes both of its sockets once, and only   *)
(* refused ones leave theirs open.                                         *)
THEOREM SocketsClosed == Spec => [](at \in {"idle", "done"} => open = refused)
<1>1. IInv => (at \in {"idle", "done"} => open = refused)
  BY DEF IInv, Sockets, Held
<1> QED BY <1>1, Invariant, PTL

(* However the request and what is sent are cut into reads and writes, a   *)
(* server is sent the request line and the header the client's lines make. *)
THEOREM Forwards == Spec => []HeaderForwarded
<1>1. Spec => []HInv
  BY InitHeader, NextHeader, Invariant, PTL DEF Spec
<1>2. IInv /\ HInv => HeaderForwarded
  <2> SUFFICES ASSUME IInv, HInv, Fits(sent)
               PROVE  /\ at \in {"ask", "tell"} =>
                            IsPrefix(toServer, RequestLine \o ExpectedHeader(sent))
                      /\ at \in {"read", "forward", "store"} =>
                            toServer = RequestLine \o ExpectedHeader(sent)
    BY DEF HeaderForwarded
  <2>1. /\ at \in {"ask", "tell"} \cup Told => header = ExpectedHeader(sent)
        /\ at = "ask" => toServer \o out = RequestLine
        /\ at = "tell" => toServer \o out = RequestLine \o header
        /\ at \in Told => toServer = RequestLine \o header
    BY DEF HInv, HeaderBuilt
  <2>2. /\ toServer \in Bytes /\ out \in Bytes /\ header \in Bytes /\ RequestLine \in Bytes
        /\ RequestLine \o header \in Bytes
    BY Constants, Join DEF IInv, Strings
  <2>3. at \in {"ask", "tell"} => IsPrefix(toServer, RequestLine \o header)
    <3>1. CASE at = "ask"
      <4>1. Associative(toServer, out, header) /\ out \o header \in Bytes
        BY <2>2, Join, JoinThree
      <4>2. RequestLine \o header = toServer \o (out \o header)
        BY <3>1, <4>1, <2>1, Zenon DEF Associative
      <4>3. StartOf(toServer, RequestLine \o header)
        BY <4>1, <4>2, Zenon DEF StartOf
      <4> QED BY <4>3, <2>2, PrefixOf
    <3>2. CASE at = "tell"
      <4>1. StartOf(toServer, RequestLine \o header)
        BY <3>2, <2>1, <2>2 DEF StartOf
      <4> QED BY <4>1, <2>2, PrefixOf
    <3> QED BY <3>1, <3>2
  <2> QED BY <2>1, <2>3 DEF Told
<1> QED BY <1>1, <1>2, Invariant, PTL
=============================================================================
