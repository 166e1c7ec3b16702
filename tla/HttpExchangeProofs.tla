------------------------- MODULE HttpExchangeProofs -------------------------
(***************************************************************************)
(* For every set of streams and every size of the first read: file.read    *)
(* hands on every byte once and in order until a read fails, answers an    *)
(* empty string at the end of the stream only, and waits with something in *)
(* hand only when its buffers are full.  For all header fields, queries    *)
(* and bodies: wherever the reads cut a message, http.parse gives back its *)
(* fields, its body and its method and url, a request of version 1.1 as it *)
(* was given; the version of another and a status come back changed.       *)
(*                                                                         *)
(* The second proof goes in three steps: what has been read is parsed as   *)
(* the head of the message is; a text of lines or of parameters has        *)
(* exactly the matches it was written from; the last match of a name wins, *)
(* so that these give back the table.                                      *)
(***************************************************************************)
EXTENDS HttpExchange, SequenceTheorems, FiniteSetTheorems, WellFoundedInduction, TLAPS

-----------------------------------------------------------------------------
(* Concatenation                                                           *)

\* Concatenation under a name of its own, so that the provers apply these laws
\* instead of expanding it.
Join(s, t) == s \o t

\* The type and the length of a concatenation.
LEMMA JoinType ==
    ASSUME NEW S, NEW s \in Seq(S), NEW t \in Seq(S)
    PROVE  Join(s, t) \in Seq(S) /\ Len(Join(s, t)) = Len(s) + Len(t)
BY ConcatProperties DEF Join

\* Concatenation is associative.
LEMMA JoinAssociative ==
    ASSUME NEW S, NEW s \in Seq(S), NEW t \in Seq(S), NEW u \in Seq(S)
    PROVE  Join(Join(s, t), u) = Join(s, Join(t, u))
BY ConcatAssociative DEF Join

\* The empty sequence changes nothing.
LEMMA JoinEmpty ==
    ASSUME NEW S, NEW s \in Seq(S)
    PROVE  Join(s, <<>>) = s /\ Join(<<>>, s) = s /\ <<>> \in Seq(S) /\ Len(<<>>) = 0
BY ConcatEmptySeq, EmptySeq DEF Join

\* The two pieces of a sequence make up the sequence.
LEMMA Pieces ==
    ASSUME NEW S, NEW s \in Seq(S), NEW n \in 0 .. Len(s)
    PROVE  /\ SubSeq(s, 1, n) \in Seq(S) /\ Len(SubSeq(s, 1, n)) = n
           /\ SubSeq(s, n + 1, Len(s)) \in Seq(S)
           /\ Len(SubSeq(s, n + 1, Len(s))) = Len(s) - n
           /\ Join(SubSeq(s, 1, n), SubSeq(s, n + 1, Len(s))) = s
<1>1. Len(s) \in Nat /\ n \in Nat /\ \A k \in 1 .. Len(s) : s[k] \in S
  BY LenProperties, ElementOfSeq
<1>2. SubSeq(s, 1, n) \in Seq(S) /\ Len(SubSeq(s, 1, n)) = n
  <2>1. \A k \in 1 .. n : s[k] \in S  BY <1>1
  <2>. QED  BY <1>1, <2>1, SubSeqProperties
<1>3. SubSeq(s, n + 1, Len(s)) \in Seq(S) /\ Len(SubSeq(s, n + 1, Len(s))) = Len(s) - n
  <2>1. \A k \in n + 1 .. Len(s) : s[k] \in S  BY <1>1
  <2>. QED  BY <1>1, <2>1, SubSeqProperties
<1>4. SubSeq(s, 1, n) \o SubSeq(s, n + 1, Len(s)) = SubSeq(s, 1, Len(s))
  <2>1. 1 \in 1 .. Len(s) + 1 /\ n \in 1 - 1 .. Len(s) /\ Len(s) \in n .. Len(s)  BY <1>1
  <2>. QED  BY <2>1, ConcatAdjacentSubSeq
<1>. QED  BY <1>2, <1>3, <1>4, SubSeqFull DEF Join

\* A sequence over a set is one over a larger set.
LEMMA SeqGrows ==
    ASSUME NEW T, NEW S, T \subseteq S, NEW s \in Seq(T) PROVE s \in Seq(S)
<1>1. Len(s) \in Nat /\ s \in [1 .. Len(s) -> T]  BY LenProperties
<1>2. s \in [1 .. Len(s) -> S]  BY <1>1
<1>. QED  BY <1>1, <1>2

-----------------------------------------------------------------------------
(* file.read                                                               *)

TypeOK ==
    /\ {stream, unsent, socket, buffer, got} \subseteq Seq(Tokens)
    /\ peer \in {"open", "closed", "reset"}
    /\ pc \in {"lua", "read", "ended"}
    /\ rlen \in Nat \ {0}
    /\ lost \in {0, 1}

\* No read cuts off twice: what follows an ECONNRESET is the end of the stream.
FailsOnce == lost = 1 => peer = "closed" /\ socket = <<>>

\* The inductive invariant of file.read.
IInv == TypeOK /\ EveryByteOnce /\ FailsOnce

-----------------------------------------------------------------------------

-----------------------------------------------------------------------------

\* EveryByteOnce and the types, in a form the laws of Join apply to.
LEMMA Bytes ==
    /\ EveryByteOnce <=>
          IF lost = 0 THEN Join(Join(Join(got, buffer), socket), unsent) = stream
          ELSE Len(got) + Len(buffer) + 1 + Len(unsent) = Len(stream)
    /\ EveryByteOnce' <=>
          IF lost' = 0 THEN Join(Join(Join(got', buffer'), socket'), unsent') = stream'
          ELSE Len(got') + Len(buffer') + 1 + Len(unsent') = Len(stream')
BY DEF EveryByteOnce, Join

\* The sequences of a state are sequences of tokens.
LEMMA Types ==
    ASSUME TypeOK
    PROVE  \A s \in {stream, unsent, socket, buffer, got} :
              s \in Seq(Tokens) /\ Len(s) \in Nat /\ (s # <<>> => Len(s) # 0)
BY LenProperties, EmptySeq DEF TypeOK

\* The invariant holds at the start.
LEMMA InitIInv == Init => IInv
<1>. SUFFICES ASSUME Init PROVE IInv  OBVIOUS
<1>1. stream \in Seq(Tokens) /\ <<>> \in Seq(Tokens)
  BY StreamsAssumption, EmptySeq DEF Init
<1>2. Join(Join(Join(<<>>, <<>>), <<>>), stream) = stream
  BY <1>1, JoinEmpty
<1>3. EveryByteOnce  BY <1>2, Bytes DEF Init
<1>. QED  BY <1>1, <1>3, SizeAssumption DEF Init, IInv, TypeOK, FailsOnce

\* The peer's segments.
LEMMA SendKeeps == ASSUME IInv, NEW n \in 1 .. Len(unsent), Send(n) PROVE IInv'
<1>. DEFINE p == SubSeq(unsent, 1, n)
            q == SubSeq(unsent, n + 1, Len(unsent))
<1>1. unsent \in Seq(Tokens) /\ n \in 0 .. Len(unsent)
      /\ got \in Seq(Tokens) /\ buffer \in Seq(Tokens) /\ socket \in Seq(Tokens)
  BY Types DEF IInv
<1>2. p \in Seq(Tokens) /\ q \in Seq(Tokens) /\ Join(p, q) = unsent
  BY <1>1, Pieces
<1>3. /\ socket' = Join(socket, p) /\ unsent' = q /\ got' = got /\ buffer' = buffer
      /\ stream' = stream /\ lost' = lost
  BY DEF Send, Join
<1>4. lost = 0  BY DEF IInv, TypeOK, FailsOnce, Send
<1>. HIDE DEF p, q
<1>5. Join(Join(Join(got, buffer), Join(socket, p)), q) = stream
  <2>. DEFINE ours == Join(got, buffer)
  <2>1. ours \in Seq(Tokens)  BY <1>1, JoinType
  <2>. HIDE DEF ours
  <2>2. Join(ours, socket) \in Seq(Tokens)  BY <1>1, <2>1, JoinType
  <2>3. Join(ours, Join(socket, p)) = Join(Join(ours, socket), p)
    BY <1>1, <1>2, <2>1, JoinAssociative
  <2>4. Join(Join(Join(ours, socket), p), q) = Join(Join(ours, socket), Join(p, q))
    BY <1>2, <2>2, JoinAssociative
  <2>5. Join(Join(ours, socket), unsent) = stream  BY <1>4, Bytes DEF IInv, ours
  <2>. QED  BY <2>3, <2>4, <2>5, <1>2 DEF ours
<1>6. EveryByteOnce'  BY <1>3, <1>4, <1>5, Bytes
<1>7. Join(socket, p) \in Seq(Tokens)  BY <1>1, <1>2, JoinType
<1>. QED  BY <1>2, <1>3, <1>4, <1>6, <1>7 DEF IInv, TypeOK, FailsOnce, Send

\* A read that takes something; whether it was short does not matter.
LEMMA ReadSomeKeeps == ASSUME IInv, ReadSome PROVE IInv'
<1>. DEFINE n == IF Len(socket) < rlen THEN Len(socket) ELSE rlen
            p == SubSeq(socket, 1, n)
            q == SubSeq(socket, n + 1, Len(socket))
            so_far == Join(buffer, p)
<1>1. socket \in Seq(Tokens) /\ n \in 0 .. Len(socket)
      /\ got \in Seq(Tokens) /\ buffer \in Seq(Tokens) /\ unsent \in Seq(Tokens)
  BY Types DEF IInv, TypeOK
<1>2. p \in Seq(Tokens) /\ q \in Seq(Tokens) /\ Join(p, q) = socket
  <2>. HIDE DEF n
  <2>. QED  BY <1>1, Pieces
<1>3. lost = 0  BY DEF IInv, TypeOK, FailsOnce, ReadSome
<1>4. /\ socket' = q /\ unsent' = unsent /\ stream' = stream /\ peer' = peer /\ lost' = lost
      /\ \/ pc' = "lua" /\ got' = Join(got, so_far) /\ buffer' = <<>> /\ rlen' = LUAL_BUFFERSIZE
         \/ pc' = "read" /\ got' = got /\ buffer' = so_far /\ rlen' = 2 * rlen
  BY DEF ReadSome, Returns, ReadsOn, Doubled, LeftBehind, Join
<1>. HIDE DEF n, p, q
<1>5. so_far \in Seq(Tokens) /\ Join(got, so_far) \in Seq(Tokens) /\ <<>> \in Seq(Tokens)
  BY <1>1, <1>2, JoinType, JoinEmpty
<1>6. Join(Join(Join(got, so_far), q), unsent) = stream
  <2>1. Join(got, so_far) = Join(Join(got, buffer), p)
    BY <1>1, <1>2, JoinAssociative
  <2>2. Join(got, buffer) \in Seq(Tokens)  BY <1>1, JoinType
  <2>3. Join(Join(Join(got, buffer), p), q) = Join(Join(got, buffer), Join(p, q))
    BY <1>2, <2>2, JoinAssociative
  <2>. QED  BY <2>1, <2>3, <1>2, <1>3, Bytes DEF IInv
<1>. HIDE DEF so_far
<1>7. Join(Join(got, so_far), <<>>) = Join(got, so_far)  BY <1>5, JoinEmpty
<1>8. EveryByteOnce'  BY <1>3, <1>4, <1>6, <1>7, Bytes
<1>9. TypeOK'
  <2>1. rlen' \in Nat \ {0} /\ pc' \in {"lua", "read"}
    BY <1>4, SizeAssumption DEF IInv, TypeOK
  <2>2. {stream', unsent', socket', buffer', got'} \subseteq Seq(Tokens)
    BY <1>2, <1>4, <1>5 DEF IInv, TypeOK
  <2>. QED  BY <2>1, <2>2, <1>4 DEF IInv, TypeOK
<1>. QED  BY <1>3, <1>4, <1>8, <1>9 DEF IInv, FailsOnce

\* The end of the stream hands on what the call has.
LEMMA ReadEndKeeps == ASSUME IInv, ReadEnd PROVE IInv'
<1>1. got \in Seq(Tokens) /\ buffer \in Seq(Tokens) /\ Len(got) \in Nat
      /\ Len(buffer) \in Nat /\ Len(unsent) \in Nat
  BY Types DEF IInv
<1>2. Join(got, buffer) \in Seq(Tokens) /\ Len(Join(got, buffer)) = Len(got) + Len(buffer)
      /\ Join(Join(got, buffer), <<>>) = Join(got, buffer)
      /\ <<>> \in Seq(Tokens) /\ Len(<<>>) = 0
  BY <1>1, JoinType, JoinEmpty
<1>3. /\ got' = Join(got, buffer) /\ buffer' = <<>> /\ socket' = socket /\ unsent' = unsent
      /\ stream' = stream /\ lost' = lost /\ pc' = "lua" /\ peer' = peer
      /\ rlen' = LUAL_BUFFERSIZE /\ pc = "read"
  BY DEF ReadEnd, Returns, Join
<1>4. TypeOK'  BY <1>2, <1>3, SizeAssumption DEF IInv, TypeOK
<1>5. CASE lost = 0  BY <1>2, <1>3, <1>4, <1>5, Bytes DEF IInv, FailsOnce
<1>6. CASE lost # 0
  <2>1. Len(got) + Len(buffer) + 1 + Len(unsent) = Len(stream)
    BY <1>3, <1>6, Bytes DEF IInv
  <2>2. Len(got') + Len(buffer') + 1 + Len(unsent') = Len(stream')
    BY <2>1, <1>1, <1>2, <1>3
  <2>. QED  BY <2>2, <1>3, <1>4, <1>6, Bytes DEF IInv, FailsOnce
<1>. QED  BY <1>5, <1>6

\* A failed read takes a byte out of the buffer, or leaves the program.
LEMMA ReadFailsKeeps == ASSUME IInv, ReadFails PROVE IInv'
<1>1. lost = 0 /\ socket = <<>>  BY DEF IInv, TypeOK, FailsOnce, ReadFails
<1>2. /\ peer' = "closed"
      /\ stream' = stream /\ unsent' = unsent /\ socket' = socket
  BY DEF ReadFails
<1>3. CASE buffer = <<>>
  BY <1>1, <1>2, <1>3 DEF IInv, TypeOK, EveryByteOnce, FailsOnce, ReadFails
<1>4. CASE buffer # <<>>
  <2>. DEFINE n == Len(buffer) - 1
              cut == SubSeq(buffer, 1, n)
  <2>1. got \in Seq(Tokens) /\ buffer \in Seq(Tokens) /\ unsent \in Seq(Tokens)
        /\ Len(buffer) \in Nat /\ Len(buffer) # 0 /\ Len(got) \in Nat /\ Len(unsent) \in Nat
    BY <1>4, Types DEF IInv
  <2>2. n \in 0 .. Len(buffer)  BY <2>1
  <2>3. cut \in Seq(Tokens) /\ Len(cut) = n
    <3>. HIDE DEF n
    <3>. QED  BY <2>1, <2>2, Pieces
  <2>4. buffer' = cut /\ got' = got /\ pc' = "read" /\ rlen' = 2 * rlen
        /\ lost' = 1
    BY <1>1, <1>4 DEF ReadFails, ReadsOn, Doubled
  <2>5. Len(stream) = Len(got) + Len(buffer) + Len(unsent)
    <3>1. Join(got, buffer) \in Seq(Tokens) /\ Len(Join(got, buffer)) = Len(got) + Len(buffer)
      BY <2>1, JoinType
    <3>2. stream = Join(Join(got, buffer), unsent)
      BY <3>1, <1>1, JoinEmpty, Bytes DEF IInv
    <3>3. Len(Join(Join(got, buffer), unsent)) = Len(Join(got, buffer)) + Len(unsent)
      BY <2>1, <3>1, JoinType
    <3>. QED  BY <3>1, <3>2, <3>3
  <2>6. TypeOK'  BY <1>2, <2>3, <2>4 DEF IInv, TypeOK
  <2>7. EveryByteOnce'
    <3>. HIDE DEF cut
    <3>1. Len(got) + Len(cut) + 1 + Len(unsent) = Len(stream)  BY <2>1, <2>3, <2>5
    <3>. QED  BY <3>1, <1>2, <2>4, Bytes
  <2>. QED  BY <1>1, <1>2, <2>6, <2>7 DEF IInv, FailsOnce
<1>. QED  BY <1>3, <1>4

\* Every step of the peer and of a call keeps the invariant.
LEMMA StepIInv == IInv /\ [Next]_vars => IInv'
<1>. SUFFICES ASSUME IInv, [Next]_vars PROVE IInv'  OBVIOUS
<1>1. CASE ReadSome  BY <1>1, ReadSomeKeeps
<1>2. CASE ReadEnd  BY <1>2, ReadEndKeeps
<1>3. CASE ReadNothing
  BY <1>3 DEF IInv, TypeOK, EveryByteOnce, FailsOnce, ReadNothing, TriesAgain
<1>4. CASE ReadFails  BY <1>4, ReadFailsKeeps
<1>5. CASE Call  BY <1>5 DEF IInv, TypeOK, EveryByteOnce, FailsOnce, Call
<1>6. CASE Leave  BY <1>6, ResetAssumption DEF IInv, TypeOK, EveryByteOnce, FailsOnce, Leave
<1>7. CASE \E n \in 1 .. Len(unsent) : Send(n)  BY <1>7, SendKeeps
<1>8. CASE UNCHANGED vars  BY <1>8 DEF IInv, TypeOK, EveryByteOnce, FailsOnce, vars
<1>. QED
  BY <1>1, <1>2, <1>3, <1>4, <1>5, <1>6, <1>7, <1>8 DEF Next, ReadNext, Ended

\* file.read loses, repeats and swaps no byte, whatever the sizes of segments
\* and calls, until a read fails with bytes in hand; that one cuts off a single one.
THEOREM BytesArriveOnce == Spec => []EveryByteOnce
<1>1. IInv => EveryByteOnce  BY DEF IInv
<1>. QED  BY <1>1, InitIInv, StepIInv, PTL DEF Spec

\* A read that takes something makes the answer longer.
LEMMA ReadSomeGrows == ASSUME IInv, ReadSome, pc' = "lua" PROVE got' # got
<1>. DEFINE n == IF Len(socket) < rlen THEN Len(socket) ELSE rlen
            p == SubSeq(socket, 1, n)
<1>1. /\ socket \in Seq(Tokens) /\ buffer \in Seq(Tokens) /\ got \in Seq(Tokens)
      /\ Len(socket) \in Nat /\ Len(socket) # 0 /\ rlen \in Nat /\ rlen # 0
      /\ Len(got) \in Nat /\ Len(buffer) \in Nat
  BY Types DEF IInv, TypeOK, ReadSome
<1>2. n \in 0 .. Len(socket) /\ n \in Nat /\ n # 0  BY <1>1
<1>3. p \in Seq(Tokens) /\ Len(p) = n
  <2>. HIDE DEF n
  <2>. QED  BY <1>1, <1>2, Pieces
<1>4. got' = Join(got, Join(buffer, p))  BY DEF ReadSome, Returns, ReadsOn, Join
<1>. HIDE DEF p, n
<1>5. Join(buffer, p) \in Seq(Tokens) /\ Len(Join(buffer, p)) = Len(buffer) + Len(p)
  BY <1>1, <1>3, JoinType
<1>6. Len(Join(got, Join(buffer, p))) = Len(got) + Len(Join(buffer, p))
  BY <1>1, <1>5, JoinType
<1>. QED  BY <1>1, <1>2, <1>3, <1>4, <1>5, <1>6

\* A call that returns an empty string met the end of the stream.
THEOREM EmptyAtEnd == Spec => EmptyMeansEnd
<1>1. IInv /\ [Next]_vars => [pc = "read" /\ pc' = "lua" /\ got' = got =>
                                 peer = "closed" /\ socket = <<>>]_vars
  <2>. SUFFICES ASSUME IInv, Next, pc = "read", pc' = "lua", got' = got
                PROVE  peer = "closed" /\ socket = <<>>
    OBVIOUS
  <2>1. ~ ReadSome  BY ReadSomeGrows
  <2>. QED
    BY <2>1 DEF Next, ReadNext, ReadEnd, ReadNothing, TriesAgain, ReadFails, ReadsOn,
                Call, Leave, Ended, vars, Send
<1>. QED  BY <1>1, InitIInv, StepIInv, PTL DEF Spec, EmptyMeansEnd

-----------------------------------------------------------------------------
(* Where a call waits                                                      *)

\* Until a read fails, the next read asks for as much as the call has, and the
\* size of the first read more.
SizesInv ==
    lost = 0 =>
        /\ rlen = Len(buffer) + LUAL_BUFFERSIZE
        /\ \E k \in 0 .. Len(buffer) : Len(buffer) = k * LUAL_BUFFERSIZE /\ AllOnes(k)

\* An empty buffer has doubled no time.
LEMMA NoneIsAllOnes == AllOnes(0)
<1>1. {0} \in SUBSET (0 .. 0) /\ 0 \in {0} /\ \A m \in {0} : m = 0  OBVIOUS
<1>. QED  BY <1>1 DEF AllOnes

\* Doubling adds the size of the first read.
LEMMA NextAllOnes == ASSUME NEW k \in Nat, AllOnes(k) PROVE AllOnes(2 * k + 1)
<1>1. PICK chain \in SUBSET (0 .. k) :
         k \in chain /\ \A m \in chain : m = 0 \/ \E l \in chain : m = 2 * l + 1
  BY DEF AllOnes
<1>. DEFINE longer == chain \union {2 * k + 1}
<1>2. longer \in SUBSET (0 .. 2 * k + 1)  OBVIOUS
<1>3. ASSUME NEW m \in longer PROVE m = 0 \/ \E l \in longer : m = 2 * l + 1
  BY <1>1
<1>. QED  BY <1>2, <1>3 DEF AllOnes

\* An empty buffer and the first size.
LEMMA StartsAtBoundary ==
    /\ LUAL_BUFFERSIZE = Len(<<>>) + LUAL_BUFFERSIZE
    /\ \E k \in 0 .. Len(<<>>) : Len(<<>>) = k * LUAL_BUFFERSIZE /\ AllOnes(k)
<1>1. Len(<<>>) = 0 /\ 0 = 0 * LUAL_BUFFERSIZE /\ 0 \in 0 .. 0  BY EmptySeq, SizeAssumption
<1>. QED  BY <1>1, NoneIsAllOnes, SizeAssumption

\* A read that fills what it was given leaves the sizes as they have to be.
LEMMA FullReadAtBoundary ==
    ASSUME IInv, SizesInv, lost = 0, ReadSome, pc' = "read" PROVE SizesInv'
<1>. DEFINE n == IF Len(socket) < rlen THEN Len(socket) ELSE rlen
            p == SubSeq(socket, 1, n)
            b == LUAL_BUFFERSIZE
<1>1. socket \in Seq(Tokens) /\ buffer \in Seq(Tokens) /\ Len(socket) \in Nat
      /\ Len(buffer) \in Nat /\ rlen \in Nat /\ b \in Nat \ {0}
  BY Types, SizeAssumption DEF IInv, TypeOK
<1>2. /\ buffer' = Join(buffer, p) /\ rlen' = 2 * rlen /\ ~ (n < rlen)
      /\ rlen = Len(buffer) + b
  BY DEF ReadSome, Returns, ReadsOn, Doubled, Join, SizesInv
<1>3. n = rlen /\ n \in 0 .. Len(socket)  BY <1>1, <1>2
<1>. HIDE DEF n
<1>4. p \in Seq(Tokens) /\ Len(p) = n  BY <1>1, <1>3, Pieces
<1>. HIDE DEF p
<1>5. Len(buffer') = Len(buffer) + rlen  BY <1>1, <1>2, <1>3, <1>4, JoinType
<1>6. PICK k \in 0 .. Len(buffer) : Len(buffer) = k * b /\ AllOnes(k)
  BY DEF SizesInv
<1>. HIDE DEF b
<1>7. k * b + (k * b + b) = (2 * k + 1) * b  BY <1>1
<1>8. /\ 2 * k + 1 \in 0 .. Len(buffer') /\ Len(buffer') = (2 * k + 1) * b
      /\ rlen' = Len(buffer') + b
  <2>. DEFINE kb == k * b
  <2>1. kb = Len(buffer) /\ (2 * k + 1) * b = kb + (kb + b)  BY <1>6, <1>7
  <2>. HIDE DEF kb
  <2>. QED  BY <1>1, <1>2, <1>5, <2>1
<1>9. AllOnes(2 * k + 1)  BY <1>6, NextAllOnes
<1>. QED  BY <1>8, <1>9 DEF SizesInv, b

\* Every step keeps the sizes.
LEMMA SizesStep == IInv /\ SizesInv /\ [Next]_vars => SizesInv'
<1>. SUFFICES ASSUME IInv, SizesInv, [Next]_vars PROVE SizesInv'  OBVIOUS
<1>1. ASSUME UNCHANGED <<buffer, rlen, lost>> PROVE SizesInv'
  BY <1>1 DEF SizesInv
<1>2. ASSUME buffer' = <<>>, rlen' = LUAL_BUFFERSIZE PROVE SizesInv'
  BY <1>2, StartsAtBoundary DEF SizesInv
<1>3. CASE ReadSome
  <2>1. lost = 0  BY <1>3 DEF IInv, TypeOK, FailsOnce, ReadSome
  <2>2. CASE pc' = "read"  BY <1>3, <2>1, <2>2, FullReadAtBoundary
  <2>3. CASE pc' # "read"
    <3>1. buffer' = <<>> /\ rlen' = LUAL_BUFFERSIZE
      BY <1>3, <2>3 DEF ReadSome, Returns, ReadsOn
    <3>. QED  BY <3>1, <1>2
  <2>. QED  BY <2>2, <2>3
<1>4. CASE ReadEnd  BY <1>2, <1>4 DEF ReadEnd, Returns
<1>5. CASE ReadFails
  <2>1. lost = 0  BY <1>5 DEF IInv, TypeOK, FailsOnce, ReadFails
  <2>2. CASE buffer = <<>>  BY <1>1, <1>5, <2>2 DEF ReadFails
  <2>3. CASE buffer # <<>>
    <3>1. lost' = 1  BY <1>5, <2>1, <2>3 DEF ReadFails
    <3>. QED  BY <3>1 DEF SizesInv
  <2>. QED  BY <2>2, <2>3
<1>6. CASE ReadNothing \/ Call \/ Leave \/ Ended \/ UNCHANGED vars
           \/ \E n \in 1 .. Len(unsent) : Send(n)
  BY <1>1, <1>6 DEF ReadNothing, Call, Leave, Ended, Send, vars
<1>. QED
  BY <1>3, <1>4, <1>5, <1>6 DEF Next, ReadNext

\* A call waits, or turns in circles, with something in hand only when what has
\* come is one, three, seven, ... times the size of the first read.
THEOREM WaitsOnlyWhenFull == Spec => []WaitsAtBoundary
<1>1. Init => SizesInv  BY StartsAtBoundary DEF Init, SizesInv
<1>2. IInv /\ SizesInv => WaitsAtBoundary
  BY DEF IInv, TypeOK, FailsOnce, SizesInv, WaitsAtBoundary
<1>. QED  BY <1>1, <1>2, InitIInv, StepIInv, SizesStep, PTL DEF Spec

-----------------------------------------------------------------------------
(* Least and greatest elements                                             *)

\* A set of numbers has a least one: the order of the natural numbers is well-founded.
LEMMA LeastExists ==
    ASSUME NEW S \in SUBSET Nat, S # {}
    PROVE  \E k \in S : \A j \in S : k <= j
<1>. DEFINE Less == OpToRel(<, Nat)
<1>1. \E k \in S : \A j \in S : <<j, k>> \notin Less
  BY NatLessThanWellFounded, WFMin
<1>2. \A j, k \in Nat : j < k => <<j, k>> \in Less
  BY DEF OpToRel
<1>. HIDE DEF Less
<1>3. PICK k \in S : \A j \in S : <<j, k>> \notin Less  BY <1>1
<1>4. \A j \in S : ~ (j < k)  BY <1>2, <1>3
<1>. QED  BY <1>4

\* A bounded set of numbers has a greatest one.
LEMMA GreatestExists ==
    ASSUME NEW n \in Nat, NEW S \in SUBSET (0 .. n), S # {}
    PROVE  \E k \in S : \A j \in S : j <= k
<1>. DEFINE T == {n - k : k \in S}
<1>1. T \in SUBSET Nat /\ T # {}
  <2>1. PICK k \in S : TRUE  OBVIOUS
  <2>2. n - k \in T  BY <2>1
  <2>3. \A j \in S : n - j \in Nat  OBVIOUS
  <2>. QED  BY <2>2, <2>3
<1>. HIDE DEF T
<1>2. PICK l \in T : \A j \in T : l <= j  BY <1>1, LeastExists
<1>3. PICK k \in S : l = n - k  BY <1>2 DEF T
<1>4. \A j \in S : n - k <= n - j  BY <1>2, <1>3 DEF T
<1>. QED  BY <1>4

\* Min answers an element that none is below.
LEMMA MinIsLeast ==
    ASSUME NEW S \in SUBSET Nat, S # {}
    PROVE  Min(S) \in S /\ \A j \in S : Min(S) <= j
BY LeastExists DEF Min

\* No other element is.
LEMMA MinIs ==
    ASSUME NEW S \in SUBSET Nat, NEW k \in S, \A j \in S : k <= j
    PROVE  Min(S) = k
<1>1. Min(S) \in S /\ \A j \in S : Min(S) <= j  BY MinIsLeast
<1>2. Min(S) <= k /\ k <= Min(S) /\ k \in Nat /\ Min(S) \in Nat  BY <1>1
<1>. QED  BY <1>2

\* The same of Max, where there is a greatest element.
LEMMA MaxIs ==
    ASSUME NEW S \in SUBSET Nat, NEW k \in S, \A j \in S : j <= k
    PROVE  Max(S) = k
<1>1. Max(S) \in S /\ \A j \in S : j <= Max(S)
  BY DEF Max
<1>2. Max(S) <= k /\ k <= Max(S) /\ k \in Nat /\ Max(S) \in Nat  BY <1>1
<1>. QED  BY <1>2

-----------------------------------------------------------------------------
(* string.find                                                             *)

\* The first place of a token.
LEMMA FindIs ==
    ASSUME NEW s, NEW token, Len(s) \in Nat, NEW k \in 1 .. Len(s), s[k] = token,
           \A j \in 1 .. k - 1 : s[j] # token
    PROVE  Find(s, token) = k
<1>. DEFINE at == {j \in 1 .. Len(s) : s[j] = token}
<1>1. at \in SUBSET Nat /\ k \in at /\ \A j \in at : k <= j  OBVIOUS
<1>2. Find(s, token) = IF at # {} THEN Min(at) ELSE 0  BY DEF Find, SelectInSeq
<1>. HIDE DEF at
<1>3. Min(at) = k  BY <1>1, MinIs
<1>. QED  BY <1>1, <1>2, <1>3

\* string.find answers the first place of a token, and 0 where there is none.
LEMMA FindFinds ==
    ASSUME NEW s, NEW token, Len(s) \in Nat
    PROVE  /\ Find(s, token) \in 0 .. Len(s)
           /\ Find(s, token) = 0 <=> ~ Contains(s, token)
           /\ Find(s, token) # 0 =>
                 /\ s[Find(s, token)] = token
                 /\ \A j \in 1 .. Find(s, token) - 1 : s[j] # token
<1>. DEFINE at == {j \in 1 .. Len(s) : s[j] = token}
<1>1. at \in SUBSET Nat /\ at \subseteq 1 .. Len(s)  OBVIOUS
<1>2. Find(s, token) = IF at # {} THEN Min(at) ELSE 0  BY DEF Find, SelectInSeq
<1>3. at = {} <=> ~ Contains(s, token)  BY DEF Contains
<1>4. at # {} => Min(at) \in at /\ \A j \in at : Min(at) <= j
  <2>. HIDE DEF at
  <2>. QED  BY <1>1, MinIsLeast
<1>5. CASE at = {}  BY <1>2, <1>3, <1>5
<1>6. CASE at # {}
  <2>. DEFINE f == Min(at)
  <2>1. f \in at /\ (\A j \in at : f <= j) /\ Find(s, token) = f  BY <1>2, <1>4, <1>6
  <2>. HIDE DEF f
  <2>2. f \in 1 .. Len(s) /\ s[f] = token /\ \A j \in 1 .. f - 1 : s[j] # token
    BY <2>1
  <2>. QED  BY <1>3, <1>6, <2>1, <2>2
<1>. QED  BY <1>5, <1>6

\* The first line end that another one follows.
Blank(s, k) == s[k] = CRLF /\ s[k + 1] = CRLF

\* The first blank line is the one that is found.
LEMMA FindBlankLineIs ==
    ASSUME NEW s, Len(s) \in Nat, NEW k \in 1 .. Len(s) - 1, Blank(s, k),
           \A j \in 1 .. k - 1 : ~ Blank(s, j)
    PROVE  FindBlankLine(s) = k
<1>. DEFINE at == {j \in 1 .. Len(s) - 1 : s[j] = CRLF /\ s[j + 1] = CRLF}
<1>1. at \in SUBSET Nat /\ k \in at /\ \A j \in at : k <= j  BY DEF Blank
<1>2. FindBlankLine(s) = IF at = {} THEN 0 ELSE Min(at)  BY DEF FindBlankLine
<1>. HIDE DEF at
<1>3. Min(at) = k  BY <1>1, MinIs
<1>. QED  BY <1>1, <1>2, <1>3

\* A blank line is found where there is one.
LEMMA FindBlankLineFinds ==
    ASSUME NEW s, Len(s) \in Nat
    PROVE  LET k == FindBlankLine(s)
           IN  /\ k = 0 <=> \A j \in 1 .. Len(s) - 1 : ~ Blank(s, j)
               /\ k # 0 => k \in 1 .. Len(s) - 1 /\ Blank(s, k) /\ \A j \in 1 .. k - 1 : ~ Blank(s, j)
<1>. DEFINE at == {j \in 1 .. Len(s) - 1 : s[j] = CRLF /\ s[j + 1] = CRLF}
<1>1. at \in SUBSET Nat  OBVIOUS
<1>2. FindBlankLine(s) = IF at = {} THEN 0 ELSE Min(at)  BY DEF FindBlankLine
<1>3. at = {j \in 1 .. Len(s) - 1 : Blank(s, j)}  BY DEF Blank
<1>. HIDE DEF at
<1>4. CASE at = {}  BY <1>2, <1>3, <1>4
<1>5. CASE at # {}
  <2>. DEFINE f == Min(at)
  <2>1. f \in at /\ (\A j \in at : f <= j) /\ FindBlankLine(s) = f
    BY <1>1, <1>2, <1>5, MinIsLeast
  <2>. HIDE DEF f
  <2>2. f \in 1 .. Len(s) - 1 /\ Blank(s, f) /\ \A j \in 1 .. f - 1 : ~ Blank(s, j)
    BY <1>3, <2>1
  <2>. QED  BY <2>1, <2>2
<1>. QED  BY <1>4, <1>5

-----------------------------------------------------------------------------
(* Beginnings                                                              *)

\* t begins like s.
Begins(t, s) == Len(t) <= Len(s) /\ \A k \in 1 .. Len(t) : t[k] = s[k]

\* What begins alike is cut alike.
LEMMA SameBeginning ==
    ASSUME NEW S, NEW s \in Seq(S), NEW t \in Seq(S), Begins(t, s), NEW n \in 0 .. Len(t)
    PROVE  SubSeq(t, 1, n) = SubSeq(s, 1, n)
<1>1. Len(t) \in Nat /\ Len(s) \in Nat /\ Len(t) <= Len(s) /\ \A k \in 1 .. Len(t) : t[k] = s[k]
  BY LenProperties DEF Begins
<1>2. \A k \in 1 .. n : s[k] \in S /\ t[k] \in S
  BY <1>1, ElementOfSeq
<1>3. /\ SubSeq(t, 1, n) \in Seq(S) /\ Len(SubSeq(t, 1, n)) = n
      /\ \A k \in 1 .. n : SubSeq(t, 1, n)[k] = t[k]
  BY <1>1, <1>2, SubSeqProperties
<1>4. /\ SubSeq(s, 1, n) \in Seq(S) /\ Len(SubSeq(s, 1, n)) = n
      /\ \A k \in 1 .. n : SubSeq(s, 1, n)[k] = s[k]
  BY <1>1, <1>2, SubSeqProperties
<1>5. \A k \in 1 .. n : SubSeq(t, 1, n)[k] = SubSeq(s, 1, n)[k]  BY <1>1, <1>3, <1>4
<1>. QED  BY <1>3, <1>4, <1>5, SeqEqual

\* A beginning of a sequence begins like it.
LEMMA BeginningBegins ==
    ASSUME NEW S, NEW s \in Seq(S), NEW n \in 0 .. Len(s)
    PROVE  /\ SubSeq(s, 1, n) \in Seq(S) /\ Len(SubSeq(s, 1, n)) = n
           /\ Begins(SubSeq(s, 1, n), s)
<1>1. Len(s) \in Nat /\ n \in Nat /\ \A k \in 1 .. n : s[k] \in S
  BY LenProperties, ElementOfSeq
<1>2. /\ SubSeq(s, 1, n) \in Seq(S) /\ Len(SubSeq(s, 1, n)) = n
      /\ \A k \in 1 .. n : SubSeq(s, 1, n)[k] = s[k]
  BY <1>1, SubSeqProperties
<1>. QED  BY <1>1, <1>2 DEF Begins

\* A concatenation begins like its first part.
LEMMA BeginsJoin ==
    ASSUME NEW S, NEW s \in Seq(S), NEW t \in Seq(S)
    PROVE  Begins(s, Join(s, t))
<1>1. Len(s) \in Nat /\ Len(t) \in Nat  BY LenProperties
<1>2. /\ Len(s \o t) = Len(s) + Len(t)
      /\ \A k \in 1 .. Len(s) + Len(t) : (s \o t)[k] = IF k <= Len(s) THEN s[k] ELSE t[k - Len(s)]
  BY ConcatProperties
<1>. QED  BY <1>1, <1>2 DEF Begins, Join

\* Beginnings of beginnings are beginnings.
LEMMA BeginsBegins ==
    ASSUME NEW s, NEW t, NEW u, Len(s) \in Nat, Len(t) \in Nat, Len(u) \in Nat,
           Begins(s, t), Begins(t, u)
    PROVE  Begins(s, u)
BY DEF Begins

-----------------------------------------------------------------------------
(* http.parse looks at the head alone                                      *)

\* An answer with another body.
WithBody(answer, body) ==
    IF answer.is = "table" THEN [answer EXCEPT !.body = body] ELSE answer

\* The body goes into the answer as it is and changes nothing else.
LEMMA BodyOnly ==
    ASSUME NEW msghead, NEW head, NEW none, NEW body
    PROVE  /\ RequestOf(msghead, head, body) = WithBody(RequestOf(msghead, head, none), body)
           /\ ResponseOf(msghead, body) = WithBody(ResponseOf(msghead, none), body)
<1>1. RequestOf(msghead, head, body) = WithBody(RequestOf(msghead, head, none), body)
  BY DEF RequestOf, WithBody, Nil, LuaError
<1>2. ResponseOf(msghead, body) = WithBody(ResponseOf(msghead, none), body)
  BY DEF ResponseOf, WithBody, Nil, LuaError
<1>. QED  BY <1>1, <1>2

\* Where a message has its version: HTTP/1.1 comes first wherever it is.
VersionAt(data) ==
    IF Find(data, "HTTP/1.1") # 0 THEN Find(data, "HTTP/1.1") ELSE Find(data, "HTTP/1.0")

\* http.parse in terms of the two places it looks for.
LEMMA ParseIs ==
    ASSUME NEW data
    PROVE  LET crlf == FindBlankLine(data)
           IN  HttpParse(data) =
                  IF VersionAt(data) = 0 \/ crlf = 0 THEN Nil
                  ELSE IF VersionAt(data) = 1
                  THEN ResponseOf(SubSeq(data, 1, crlf - 1), BodyOf(data, crlf))
                  ELSE RequestOf(SubSeq(data, 1, crlf - 1), VersionAt(data), BodyOf(data, crlf))
BY DEF HttpParse, VersionAt

\* What is found in the beginning is found there in the whole.
LEMMA FoundEarly ==
    ASSUME NEW s, NEW t, NEW token, Len(s) \in Nat, Len(t) \in Nat, Begins(s, t),
           Contains(s, token)
    PROVE  Find(t, token) = Find(s, token)
<1>. DEFINE f == Find(s, token)
<1>1. f \in 1 .. Len(s) /\ s[f] = token /\ \A j \in 1 .. f - 1 : s[j] # token
  BY FindFinds
<1>. HIDE DEF f
<1>2. f \in 1 .. Len(t) /\ t[f] = token /\ \A j \in 1 .. f - 1 : t[j] # token
  BY <1>1 DEF Begins
<1>3. Find(t, token) = f  BY <1>2, FindIs
<1>. QED  BY <1>3 DEF f

\* What is not in a sequence is not in its beginning.
LEMMA NotFoundEarlier ==
    ASSUME NEW s, NEW t, NEW token, Len(s) \in Nat, Len(t) \in Nat, Begins(s, t),
           ~ Contains(t, token)
    PROVE  ~ Contains(s, token)
BY DEF Contains, Begins

\* The head has the mark that http.parse takes for the version of data.
SettlesVersion(head, data) ==
    \/ Contains(head, "HTTP/1.1")
    \/ Contains(head, "HTTP/1.0") /\ ~ Contains(data, "HTTP/1.1")

\* A head that settles the version settles it for all data that begin with it.
LEMMA SameVersion ==
    ASSUME NEW head, NEW data, Len(head) \in Nat, Len(data) \in Nat, Begins(head, data),
           SettlesVersion(head, data)
    PROVE  VersionAt(data) = VersionAt(head) /\ VersionAt(head) # 0
<1>1. CASE Contains(head, "HTTP/1.1")
  <2>1. Find(data, "HTTP/1.1") = Find(head, "HTTP/1.1")  BY <1>1, FoundEarly
  <2>2. Find(head, "HTTP/1.1") # 0  BY <1>1, FindFinds
  <2>. QED  BY <2>1, <2>2 DEF VersionAt
<1>2. CASE Contains(head, "HTTP/1.0") /\ ~ Contains(data, "HTTP/1.1")
  <2>1. Find(data, "HTTP/1.0") = Find(head, "HTTP/1.0")  BY <1>2, FoundEarly
  <2>2. Find(head, "HTTP/1.0") # 0  BY <1>2, FindFinds
  <2>3. ~ Contains(head, "HTTP/1.1")  BY <1>2, NotFoundEarlier
  <2>4. Find(data, "HTTP/1.1") = 0 /\ Find(head, "HTTP/1.1") = 0
    BY <1>2, <2>3, FindFinds
  <2>. QED  BY <2>1, <2>2, <2>4 DEF VersionAt
<1>. QED  BY <1>1, <1>2 DEF SettlesVersion

\* A head: a blank line at its end and none before.
IsHead(head) == Len(head) > 1 /\ FindBlankLine(head) = Len(head) - 1

\* Until the head is whole, http.parse finds no message.
LEMMA NothingBeforeTheHead ==
    ASSUME NEW data, NEW head, Len(data) \in Nat, Len(head) \in Nat, IsHead(head),
           Begins(data, head), Len(data) < Len(head)
    PROVE  HttpParse(data) = Nil
<1>1. \A j \in 1 .. Len(head) - 2 : ~ Blank(head, j)
  <2>. DEFINE c == FindBlankLine(head)
              l == Len(head)
  <2>1. c = l - 1 /\ l > 1 /\ l \in Nat  BY DEF IsHead
  <2>. HIDE DEF c, l
  <2>2. c # 0 /\ c - 1 = l - 2  BY <2>1
  <2>3. \A j \in 1 .. c - 1 : ~ Blank(head, j)  BY <2>2, FindBlankLineFinds DEF c
  <2>. QED  BY <2>2, <2>3 DEF l
<1>2. ASSUME NEW j \in 1 .. Len(data) - 1 PROVE ~ Blank(data, j)
  <2>1. j \in 1 .. Len(head) - 2 /\ j \in 1 .. Len(data) /\ j + 1 \in 1 .. Len(data)  OBVIOUS
  <2>2. ~ Blank(head, j)  BY <1>1, <2>1
  <2>3. data[j] = head[j] /\ data[j + 1] = head[j + 1]  BY <2>1 DEF Begins
  <2>. QED  BY <2>2, <2>3 DEF Blank
<1>3. FindBlankLine(data) = 0  BY <1>2, FindBlankLineFinds
<1>. QED  BY <1>3, ParseIs

\* What follows the head is the body and nothing else.
LEMMA HeadDecides ==
    ASSUME NEW S, NEW data \in Seq(S), NEW head \in Seq(S), IsHead(head),
           Begins(head, data), SettlesVersion(head, data)
    PROVE  HttpParse(data) = WithBody(HttpParse(head), SubSeq(data, Len(head) + 1, Len(data)))
<1>. DEFINE crlf == Len(head) - 1
            msghead == SubSeq(head, 1, crlf - 1)
            version == VersionAt(head)
            none == BodyOf(head, crlf)
            body == SubSeq(data, Len(head) + 1, Len(data))
<1>1. Len(data) \in Nat /\ Len(head) \in Nat /\ Len(head) > 1  BY LenProperties DEF IsHead
<1>2. Blank(head, crlf) /\ \A j \in 1 .. crlf - 1 : ~ Blank(head, j)
  BY <1>1, FindBlankLineFinds DEF IsHead
<1>3. crlf \in 1 .. Len(data) - 1 /\ Blank(data, crlf) /\ \A j \in 1 .. crlf - 1 : ~ Blank(data, j)
  <2>1. Len(head) <= Len(data) /\ \A k \in 1 .. Len(head) : data[k] = head[k]  BY DEF Begins
  <2>2. \A j \in 1 .. crlf : Blank(data, j) <=> Blank(head, j)
    <3>1. \A j \in 1 .. crlf : data[j] = head[j] /\ data[j + 1] = head[j + 1]  BY <1>1, <2>1
    <3>. QED  BY <3>1 DEF Blank
  <2>. QED  BY <1>1, <1>2, <2>1, <2>2
<1>4. FindBlankLine(data) = crlf /\ FindBlankLine(head) = crlf /\ crlf # 0
  <2>. HIDE DEF crlf
  <2>1. FindBlankLine(data) = crlf  BY <1>1, <1>3, FindBlankLineIs
  <2>2. FindBlankLine(head) = crlf  BY DEF IsHead, crlf
  <2>. QED  BY <1>3, <2>1, <2>2
<1>5. VersionAt(data) = version /\ version # 0  BY <1>1, SameVersion
<1>6. SubSeq(data, 1, crlf - 1) = msghead
  <2>1. crlf - 1 \in 0 .. Len(head)  BY <1>1
  <2>. DEFINE n == crlf - 1
  <2>. HIDE DEF n
  <2>2. SubSeq(head, 1, n) = SubSeq(data, 1, n)  BY <2>1, SameBeginning DEF n
  <2>. QED  BY <2>2 DEF n
<1>7. BodyOf(data, crlf) = body
  <2>1. crlf + 2 = Len(head) + 1  BY <1>1
  <2>. QED  BY <2>1 DEF BodyOf
<1>. HIDE DEF crlf, msghead, version, none, body
<1>8. HttpParse(head) = IF version = 1 THEN ResponseOf(msghead, none)
                                       ELSE RequestOf(msghead, version, none)
  BY <1>4, <1>5, ParseIs DEF msghead, version, none
<1>9. HttpParse(data) = IF version = 1 THEN ResponseOf(msghead, body)
                                       ELSE RequestOf(msghead, version, body)
  BY <1>4, <1>5, <1>6, <1>7, ParseIs
<1>10. HttpParse(data) = WithBody(HttpParse(head), body)
  <2>1. ResponseOf(msghead, body) = WithBody(ResponseOf(msghead, none), body)  BY BodyOnly
  <2>2. RequestOf(msghead, version, body) = WithBody(RequestOf(msghead, version, none), body)
    BY BodyOnly
  <2>3. CASE version = 1  BY <1>8, <1>9, <2>1, <2>3
  <2>4. CASE version # 1  BY <1>8, <1>9, <2>2, <2>4
  <2>. QED  BY <2>3, <2>4
<1>. QED  BY <1>10 DEF body

-----------------------------------------------------------------------------
(* Sequences made of parts                                                 *)

\* What holds of 0 and of the successor of everything it holds of holds up to n.
LEMMA Steps ==
    ASSUME NEW n \in Nat, NEW G \in SUBSET Nat, 0 \in G,
           \A k \in 0 .. n - 1 : k \in G => k + 1 \in G
    PROVE  \A k \in 0 .. n : k \in G
<1>. DEFINE Bad == (0 .. n) \ G
<1>. SUFFICES ASSUME Bad # {} PROVE FALSE  OBVIOUS
<1>1. Bad \in SUBSET Nat  OBVIOUS
<1>2. PICK k \in Bad : \A j \in Bad : k <= j
  <2>. HIDE DEF Bad
  <2>. QED  BY <1>1, LeastExists
<1>3. k \in 0 .. n /\ k \notin G /\ k # 0 /\ k - 1 \in 0 .. n - 1  OBVIOUS
<1>4. k - 1 \in G
  <2>1. k - 1 \notin Bad  BY <1>2, <1>3
  <2>. QED  BY <1>3, <2>1
<1>5. (k - 1) + 1 \in G  BY <1>3, <1>4
<1>. QED  BY <1>3, <1>5

\* A function on 1 .. n is a sequence of length n.
LEMMA SequenceOf ==
    ASSUME NEW n \in Nat, NEW S, NEW f \in [1 .. n -> S]
    PROVE  f \in Seq(S) /\ Len(f) = n
<1>1. f \in Seq(S)  BY SeqDef
<1>2. DOMAIN f = 1 .. Len(f) /\ Len(f) \in Nat  BY <1>1, LenProperties
<1>3. 1 .. n = 1 .. Len(f)  BY <1>2
<1>. QED  BY <1>1, <1>2, <1>3

\* s is made of n parts; the i-th of them ends at e[i].
MadeOf(S, s, parts, n, e) ==
    /\ n \in Nat /\ s \in Seq(S)
    /\ parts \in [1 .. n -> Seq(S)]
    /\ e \in [0 .. n -> Nat]
    /\ e[0] = 0 /\ e[n] = Len(s)
    /\ \A i \in 1 .. n :
          /\ e[i] = e[i - 1] + Len(parts[i])
          /\ \A j \in 1 .. Len(parts[i]) : s[e[i - 1] + j] = parts[i][j]

\* The ends of the parts come one after the other.
LEMMA EndsGrow ==
    ASSUME NEW S, NEW s, NEW parts, NEW n, NEW e, MadeOf(S, s, parts, n, e)
    PROVE  \A i \in 0 .. n : \A j \in 0 .. i : e[j] <= e[i] /\ e[i] <= Len(s)
<1>1. n \in Nat /\ e \in [0 .. n -> Nat] /\ e[n] = Len(s)  BY DEF MadeOf
<1>2. \A i \in 0 .. n - 1 : e[i] <= e[i + 1]
  <2>. SUFFICES ASSUME NEW i \in 0 .. n - 1 PROVE e[i] <= e[i + 1]  OBVIOUS
  <2>1. i + 1 \in 1 .. n /\ (i + 1) - 1 = i  BY <1>1
  <2>2. e[i + 1] = e[i] + Len(parts[i + 1]) /\ parts[i + 1] \in Seq(S)
    BY <2>1 DEF MadeOf
  <2>3. Len(parts[i + 1]) \in Nat  BY <2>2, LenProperties
  <2>. QED  BY <1>1, <2>1, <2>2, <2>3
<1>. DEFINE G == {i \in Nat : i <= n => \A j \in 0 .. i : e[j] <= e[i]}
<1>3. 0 \in G  BY <1>1
<1>4. \A k \in 0 .. n - 1 : k \in G => k + 1 \in G
  <2>. SUFFICES ASSUME NEW k \in 0 .. n - 1, k \in G PROVE k + 1 \in G  OBVIOUS
  <2>1. \A j \in 0 .. k : e[j] <= e[k]  BY <1>1
  <2>2. e[k] <= e[k + 1] /\ e[k] \in Nat /\ e[k + 1] \in Nat  BY <1>1, <1>2
  <2>3. \A j \in 0 .. k + 1 : j = k + 1 \/ j \in 0 .. k  BY <1>1
  <2>4. \A j \in 0 .. k : e[j] \in Nat  BY <1>1
  <2>5. \A j \in 0 .. k + 1 : e[j] <= e[k + 1]  BY <2>1, <2>2, <2>3, <2>4
  <2>. QED  BY <1>1, <2>5
<1>5. \A k \in 0 .. n : k \in G
  <2>. HIDE DEF G
  <2>1. G \in SUBSET Nat  BY DEF G
  <2>. QED  BY <1>1, <1>3, <1>4, <2>1, Steps
<1>6. \A i \in 0 .. n : \A j \in 0 .. i : e[j] <= e[i]  BY <1>1, <1>5
<1>7. \A i \in 0 .. n : i \in 0 .. n /\ n \in 0 .. n  BY <1>1
<1>. QED  BY <1>1, <1>6, <1>7

\* Every place of s is in one of its parts.
LEMMA PartOf ==
    ASSUME NEW S, NEW s, NEW parts, NEW n, NEW e, MadeOf(S, s, parts, n, e),
           NEW p \in 1 .. Len(s)
    PROVE  \E i \in 1 .. n : p \in e[i - 1] + 1 .. e[i]
<1>1. n \in Nat /\ e \in [0 .. n -> Nat] /\ e[n] = Len(s) /\ e[0] = 0  BY DEF MadeOf
<1>. DEFINE over == {i \in 0 .. n : p <= e[i]}
<1>2. over \in SUBSET Nat /\ n \in over  BY <1>1
<1>3. PICK i \in over : \A j \in over : i <= j
  <2>. HIDE DEF over
  <2>. QED  BY <1>2, LeastExists
<1>4. i \in 0 .. n /\ p <= e[i]  OBVIOUS
<1>5. i # 0  BY <1>1, <1>4
<1>6. i - 1 \in 0 .. n /\ i - 1 \notin over  BY <1>1, <1>3, <1>4, <1>5
<1>7. e[i - 1] < p  BY <1>1, <1>6
<1>. QED  BY <1>1, <1>4, <1>5, <1>6, <1>7

\* The empty sequence is made of no parts.
LEMMA MadeOfNothing == ASSUME NEW S PROVE MadeOf(S, <<>>, <<>>, 0, [i \in 0 .. 0 |-> 0])
BY EmptySeq DEF MadeOf

\* Where a part stands in the whole.
LEMMA PartAt ==
    ASSUME NEW S, NEW s, NEW parts, NEW n, NEW e, MadeOf(S, s, parts, n, e), NEW i \in 1 .. n
    PROVE  /\ parts[i] \in Seq(S) /\ Len(parts[i]) \in Nat
           /\ e[i - 1] \in Nat /\ e[i] \in Nat /\ e[i] = e[i - 1] + Len(parts[i])
           /\ Len(s) \in Nat /\ e[i] <= Len(s)
           /\ \A j \in 1 .. Len(parts[i]) :
                 e[i - 1] + j \in 1 .. Len(s) /\ s[e[i - 1] + j] = parts[i][j]
<1>1. n \in Nat /\ s \in Seq(S) /\ parts[i] \in Seq(S) /\ e \in [0 .. n -> Nat]
      /\ e[i] = e[i - 1] + Len(parts[i])
      /\ \A j \in 1 .. Len(parts[i]) : s[e[i - 1] + j] = parts[i][j]
  BY DEF MadeOf
<1>2. Len(parts[i]) \in Nat /\ Len(s) \in Nat  BY <1>1, LenProperties
<1>3. i \in 0 .. n /\ i - 1 \in 0 .. n /\ 0 \in 0 .. i  BY <1>1
<1>4. e[i] <= Len(s)  BY <1>3, EndsGrow
<1>5. e[i] \in Nat /\ e[i - 1] \in Nat  BY <1>1, <1>3
<1>6. \A j \in 1 .. Len(parts[i]) : e[i - 1] + j \in 1 .. Len(s)
  <2>. DEFINE l == Len(parts[i])
              m == Len(s)
              a == e[i - 1]
              z == e[i]
  <2>1. l \in Nat /\ m \in Nat /\ a \in Nat /\ z = a + l /\ z <= m  BY <1>1, <1>2, <1>4, <1>5
  <2>. HIDE DEF l, m, a, z
  <2>2. \A j \in 1 .. l : a + j \in 1 .. m  BY <2>1
  <2>. QED  BY <2>2 DEF l, m, a
<1>. QED  BY <1>1, <1>2, <1>4, <1>5, <1>6

\* Where the tokens of two sequences stand in their concatenation.
LEMMA JoinAt ==
    ASSUME NEW S, NEW s \in Seq(S), NEW t \in Seq(S)
    PROVE  /\ Join(s, t) \in Seq(S) /\ Len(Join(s, t)) = Len(s) + Len(t)
           /\ Len(s) \in Nat /\ Len(t) \in Nat
           /\ \A k \in 1 .. Len(s) : Join(s, t)[k] = s[k]
           /\ \A k \in 1 .. Len(t) : Join(s, t)[Len(s) + k] = t[k]
<1>1. Len(s) \in Nat /\ Len(t) \in Nat  BY LenProperties
<1>2. s \o t \in Seq(S) /\ Len(s \o t) = Len(s) + Len(t)  BY ConcatProperties
<1>3. \A k \in 1 .. Len(s) + Len(t) : (s \o t)[k] = IF k <= Len(s) THEN s[k] ELSE t[k - Len(s)]
  BY ConcatProperties
<1>4. \A k \in 1 .. Len(s) : (s \o t)[k] = s[k]  BY <1>1, <1>3
<1>5. ASSUME NEW k \in 1 .. Len(t) PROVE (s \o t)[Len(s) + k] = t[k]
  <2>. DEFINE q == Len(s) + k
  <2>1. q \in 1 .. Len(s) + Len(t) /\ ~ (q <= Len(s)) /\ q - Len(s) = k  BY <1>1
  <2>2. (s \o t)[q] = IF q <= Len(s) THEN s[q] ELSE t[q - Len(s)]  BY <1>3, <2>1
  <2>. QED  BY <2>1, <2>2
<1>. QED  BY <1>1, <1>2, <1>4, <1>5 DEF Join

\* The concatenation and its length.
LEMMA JoinSize ==
    ASSUME NEW S, NEW s \in Seq(S), NEW t \in Seq(S)
    PROVE  /\ Join(s, t) \in Seq(S) /\ Len(Join(s, t)) = Len(s) + Len(t)
           /\ Len(s) \in Nat /\ Len(t) \in Nat
BY JoinAt

\* The first sequence in the concatenation.
LEMMA JoinFirst ==
    ASSUME NEW S, NEW s \in Seq(S), NEW t \in Seq(S)
    PROVE  \A k \in 1 .. Len(s) : Join(s, t)[k] = s[k]
BY JoinAt

\* The second sequence in the concatenation.
LEMMA JoinSecond ==
    ASSUME NEW S, NEW s \in Seq(S), NEW t \in Seq(S)
    PROVE  \A k \in 1 .. Len(t) : Join(s, t)[Len(s) + k] = t[k]
BY JoinAt

\* A part more at the end.
LEMMA MadeOfMore ==
    ASSUME NEW S, NEW s, NEW parts, NEW n, NEW e, MadeOf(S, s, parts, n, e),
           NEW p \in Seq(S), NEW more \in [1 .. n + 1 -> Seq(S)],
           \A i \in 1 .. n : more[i] = parts[i], more[n + 1] = p
    PROVE  MadeOf(S, Join(s, p), more, n + 1,
                  [i \in 0 .. n + 1 |-> IF i <= n THEN e[i] ELSE e[n] + Len(p)])
<1>. DEFINE d == [i \in 0 .. n + 1 |-> IF i <= n THEN e[i] ELSE e[n] + Len(p)]
            t == Join(s, p)
<1>1. /\ n \in Nat /\ s \in Seq(S) /\ e \in [0 .. n -> Nat] /\ e[0] = 0 /\ e[n] = Len(s)
      /\ parts \in [1 .. n -> Seq(S)]
  BY DEF MadeOf
<1>2. /\ t \in Seq(S) /\ Len(t) = Len(s) + Len(p) /\ Len(s) \in Nat /\ Len(p) \in Nat
      /\ \A k \in 1 .. Len(s) : t[k] = s[k]
      /\ \A k \in 1 .. Len(p) : t[Len(s) + k] = p[k]
  <2>1. s \in Seq(S) /\ p \in Seq(S)  BY <1>1
  <2>2. t \in Seq(S) /\ Len(t) = Len(s) + Len(p) /\ Len(s) \in Nat /\ Len(p) \in Nat
    BY <2>1, JoinSize
  <2>3. \A k \in 1 .. Len(s) : t[k] = s[k]  BY <2>1, JoinFirst
  <2>4. \A k \in 1 .. Len(p) : t[Len(s) + k] = p[k]  BY <2>1, JoinSecond
  <2>. QED  BY <2>2, <2>3, <2>4
<1>. HIDE DEF t
<1>3. /\ d \in [0 .. n + 1 -> Nat] /\ d[n + 1] = Len(t)
      /\ \A i \in 0 .. n : d[i] = e[i]
  BY <1>1, <1>2
<1>. HIDE DEF d
<1>4. ASSUME NEW i \in 1 .. n + 1
      PROVE  /\ d[i] = d[i - 1] + Len(more[i])
             /\ \A j \in 1 .. Len(more[i]) : t[d[i - 1] + j] = more[i][j]
  <2>1. CASE i = n + 1
    <3>1. d[i - 1] = Len(s) /\ more[i] = p /\ d[i] = Len(s) + Len(p)
      BY <1>1, <1>2, <1>3, <2>1
    <3>. QED  BY <1>2, <3>1
  <2>2. CASE i # n + 1
    <3>1. i \in 1 .. n /\ i - 1 \in 0 .. n /\ i \in 0 .. n  BY <1>1, <2>2
    <3>2. d[i] = e[i] /\ d[i - 1] = e[i - 1] /\ more[i] = parts[i]  BY <1>3, <3>1
    <3>3. /\ e[i] = e[i - 1] + Len(parts[i])
          /\ \A j \in 1 .. Len(parts[i]) :
                e[i - 1] + j \in 1 .. Len(s) /\ s[e[i - 1] + j] = parts[i][j]
      BY <3>1, PartAt
    <3>4. \A j \in 1 .. Len(parts[i]) : t[e[i - 1] + j] = parts[i][j]  BY <1>2, <3>3
    <3>. QED  BY <3>2, <3>3, <3>4
  <2>. QED  BY <2>1, <2>2
<1>5. d[0] = 0  BY <1>1, <1>3
<1>6. MadeOf(S, t, more, n + 1, d)
  <2>1. n + 1 \in Nat /\ t \in Seq(S) /\ more \in [1 .. n + 1 -> Seq(S)]  BY <1>1, <1>2
  <2>2. d \in [0 .. n + 1 -> Nat] /\ d[0] = 0 /\ d[n + 1] = Len(t)  BY <1>3, <1>5
  <2>. QED  BY <1>4, <2>1, <2>2 DEF MadeOf
<1>. QED  BY <1>6 DEF t, d

\* A part more at the beginning.
LEMMA MadeOfFirst ==
    ASSUME NEW S, NEW s, NEW parts, NEW n, NEW e, MadeOf(S, s, parts, n, e),
           NEW p \in Seq(S), NEW more \in [1 .. n + 1 -> Seq(S)],
           more[1] = p, \A i \in 1 .. n : more[i + 1] = parts[i]
    PROVE  \E d : MadeOf(S, Join(p, s), more, n + 1, d)
<1>. DEFINE d == [i \in 0 .. n + 1 |-> IF i = 0 THEN 0 ELSE Len(p) + e[i - 1]]
            t == Join(p, s)
<1>1. /\ n \in Nat /\ s \in Seq(S) /\ e \in [0 .. n -> Nat] /\ e[0] = 0 /\ e[n] = Len(s)
      /\ parts \in [1 .. n -> Seq(S)]
  BY DEF MadeOf
<1>2. /\ t \in Seq(S) /\ Len(t) = Len(p) + Len(s) /\ Len(s) \in Nat /\ Len(p) \in Nat
      /\ \A k \in 1 .. Len(p) : t[k] = p[k]
      /\ \A k \in 1 .. Len(s) : t[Len(p) + k] = s[k]
  <2>1. s \in Seq(S) /\ p \in Seq(S)  BY <1>1
  <2>2. t \in Seq(S) /\ Len(t) = Len(p) + Len(s) /\ Len(s) \in Nat /\ Len(p) \in Nat
    BY <2>1, JoinSize
  <2>3. \A k \in 1 .. Len(p) : t[k] = p[k]  BY <2>1, JoinFirst
  <2>4. \A k \in 1 .. Len(s) : t[Len(p) + k] = s[k]  BY <2>1, JoinSecond
  <2>. QED  BY <2>2, <2>3, <2>4
<1>. HIDE DEF t
<1>3. /\ d \in [0 .. n + 1 -> Nat] /\ d[n + 1] = Len(t) /\ d[0] = 0
      /\ \A i \in 0 .. n : d[i + 1] = Len(p) + e[i]
  <2>1. \A i \in 0 .. n : i + 1 \in 0 .. n + 1 /\ i + 1 # 0 /\ (i + 1) - 1 = i  BY <1>1
  <2>2. \A i \in 0 .. n : d[i + 1] = Len(p) + e[i]  BY <2>1
  <2>3. d[0] = 0 /\ n \in 0 .. n  BY <1>1
  <2>4. d[n + 1] = Len(t)  BY <1>1, <1>2, <2>2, <2>3
  <2>5. \A i \in 0 .. n + 1 : i = 0 \/ i - 1 \in 0 .. n  BY <1>1
  <2>6. d \in [0 .. n + 1 -> Nat]  BY <1>1, <1>2, <2>5
  <2>. QED  BY <2>2, <2>3, <2>4, <2>6
<1>. HIDE DEF d
<1>4. ASSUME NEW i \in 1 .. n + 1
      PROVE  /\ d[i] = d[i - 1] + Len(more[i])
             /\ \A j \in 1 .. Len(more[i]) : t[d[i - 1] + j] = more[i][j]
  <2>1. CASE i = 1
    <3>1. d[i - 1] = 0 /\ d[0 + 1] = Len(p) + e[0] /\ more[i] = p
      BY <1>1, <1>3, <2>1
    <3>2. d[i] = Len(p)  BY <1>1, <1>2, <2>1, <3>1
    <3>. QED  BY <1>2, <3>1, <3>2
  <2>2. CASE i # 1
    <3>1. PICK k \in 1 .. n : i = k + 1
      <4>1. i - 1 \in 1 .. n /\ i = (i - 1) + 1  BY <1>1, <2>2
      <4>. QED  BY <4>1
    <3>2. k \in 0 .. n /\ k - 1 \in 0 .. n /\ (k - 1) + 1 = k /\ i - 1 = k  BY <1>1, <3>1
    <3>3. d[i] = Len(p) + e[k] /\ d[i - 1] = Len(p) + e[k - 1] /\ more[i] = parts[k]
      BY <1>3, <3>1, <3>2
    <3>4. /\ e[k] = e[k - 1] + Len(parts[k]) /\ e[k - 1] \in Nat /\ Len(parts[k]) \in Nat
          /\ \A j \in 1 .. Len(parts[k]) :
                e[k - 1] + j \in 1 .. Len(s) /\ s[e[k - 1] + j] = parts[k][j]
      BY PartAt
    <3>5. \A j \in 1 .. Len(parts[k]) : (Len(p) + e[k - 1]) + j = Len(p) + (e[k - 1] + j)
      BY <1>2, <3>4
    <3>6. ASSUME NEW j \in 1 .. Len(parts[k]) PROVE t[(Len(p) + e[k - 1]) + j] = parts[k][j]
      <4>1. e[k - 1] + j \in 1 .. Len(s) /\ s[e[k - 1] + j] = parts[k][j]  BY <3>4
      <4>2. t[Len(p) + (e[k - 1] + j)] = s[e[k - 1] + j]  BY <1>2, <4>1
      <4>. QED  BY <3>5, <4>1, <4>2
    <3>7. d[i] = d[i - 1] + Len(more[i])  BY <1>2, <3>3, <3>4
    <3>8. ASSUME NEW j \in 1 .. Len(more[i]) PROVE t[d[i - 1] + j] = more[i][j]
      <4>1. more[i] = parts[k] /\ d[i - 1] = Len(p) + e[k - 1]  BY <3>3
      <4>2. t[(Len(p) + e[k - 1]) + j] = parts[k][j]  BY <3>6, <4>1
      <4>. QED  BY <4>1, <4>2
    <3>. QED  BY <3>7, <3>8
  <2>. QED  BY <2>1, <2>2
<1>5. MadeOf(S, t, more, n + 1, d)
  <2>1. n + 1 \in Nat /\ t \in Seq(S) /\ more \in [1 .. n + 1 -> Seq(S)]  BY <1>1, <1>2
  <2>2. d \in [0 .. n + 1 -> Nat] /\ d[0] = 0 /\ d[n + 1] = Len(t)  BY <1>3
  <2>. QED  BY <1>4, <2>1, <2>2 DEF MadeOf
<1>. QED  BY <1>5 DEF t, d

\* The function SequencesExt defines FlattenSeq with.
Flat(parts, n) ==
    CHOOSE g : g = [i \in 1 .. n |-> IF i = 1 THEN parts[i] ELSE g[i - 1] \o parts[i]]

\* FlattenSeq by a recursive function.
LEMMA FlattenIsFlat ==
    ASSUME NEW S, NEW n \in Nat \ {0}, NEW parts \in [1 .. n -> Seq(S)]
    PROVE  FlattenSeq(parts) = Flat(parts, n)[n]
<1>1. Len(parts) = n  BY SequenceOf
<1>. QED  BY <1>1 DEF FlattenSeq, Flat

\* A recursive definition has its function.
LEMMA FlatIs ==
    ASSUME NEW S, NEW n \in Nat, NEW parts \in [1 .. n -> Seq(S)]
    PROVE  /\ Flat(parts, n) \in [1 .. n -> Seq(S)]
           /\ \A i \in 1 .. n : Flat(parts, n)[i] =
                 IF i = 1 THEN parts[i] ELSE Join(Flat(parts, n)[i - 1], parts[i])
<1>. DEFINE Up(g, k) == /\ g \in [1 .. k -> Seq(S)]
                        /\ \A i \in 1 .. k : g[i] = IF i = 1 THEN parts[i] ELSE Join(g[i - 1], parts[i])
            G == {k \in Nat : k <= n => \E g : Up(g, k)}
<1>1. 0 \in G
  <2>1. Up([i \in 1 .. 0 |-> <<>>], 0)  OBVIOUS
  <2>. QED  BY <2>1
<1>2. ASSUME NEW k \in 0 .. n - 1, k \in G PROVE k + 1 \in G
  <2>1. k \in Nat /\ k <= n /\ k + 1 \in 1 .. n /\ parts[k + 1] \in Seq(S)  OBVIOUS
  <2>2. PICK g : Up(g, k)  BY <1>2, <2>1
  <2>. DEFINE h == [i \in 1 .. k + 1 |-> IF i <= k THEN g[i]
                                         ELSE IF k = 0 THEN parts[1] ELSE Join(g[k], parts[k + 1])]
  <2>3. h \in [1 .. k + 1 -> Seq(S)]
    <3>1. k # 0 => Join(g[k], parts[k + 1]) \in Seq(S)
      <4>1. k # 0 => g[k] \in Seq(S)  BY <2>1, <2>2
      <4>. QED  BY <2>1, <4>1, JoinType
    <3>2. k = 0 => parts[1] \in Seq(S)  BY <2>1
    <3>3. \A i \in 1 .. k : g[i] \in Seq(S)  BY <2>2
    <3>. QED  BY <2>1, <3>1, <3>2, <3>3
  <2>4. ASSUME NEW i \in 1 .. k + 1
        PROVE  h[i] = IF i = 1 THEN parts[i] ELSE Join(h[i - 1], parts[i])
    <3>1. CASE i = k + 1
      <4>1. CASE k = 0  BY <2>1, <3>1, <4>1
      <4>2. CASE k # 0
        <5>1. h[i] = Join(g[k], parts[k + 1]) /\ i # 1 /\ i - 1 = k  BY <2>1, <3>1, <4>2
        <5>2. h[k] = g[k]  BY <2>1, <4>2
        <5>. QED  BY <3>1, <5>1, <5>2
      <4>. QED  BY <4>1, <4>2
    <3>2. CASE i # k + 1
      <4>1. i \in 1 .. k /\ (i # 1 => i - 1 \in 1 .. k)  BY <2>1, <3>2
      <4>2. h[i] = g[i] /\ (i # 1 => h[i - 1] = g[i - 1])  BY <2>1, <4>1
      <4>3. g[i] = IF i = 1 THEN parts[i] ELSE Join(g[i - 1], parts[i])  BY <2>2, <4>1
      <4>. QED  BY <4>2, <4>3
    <3>. QED  BY <3>1, <3>2
  <2>. HIDE DEF h
  <2>5. Up(h, k + 1)  BY <2>3, <2>4
  <2>. HIDE DEF Up
  <2>6. \E u : Up(u, k + 1)  BY <2>5
  <2>. QED  BY <2>1, <2>6
<1>3. \E g : Up(g, n)
  <2>. HIDE DEF Up
  <2>1. G \in SUBSET Nat  OBVIOUS
  <2>. HIDE DEF G
  <2>2. \A k \in 0 .. n : k \in G  BY <1>1, <1>2, <2>1, Steps
  <2>3. n \in G  BY <2>2
  <2>. QED  BY <2>3 DEF G
<1>4. PICK g : Up(g, n)  BY <1>3
<1>5. g = [i \in 1 .. n |-> IF i = 1 THEN parts[i] ELSE g[i - 1] \o parts[i]]
  BY <1>4 DEF Join
<1>6. Flat(parts, n) = [i \in 1 .. n |-> IF i = 1 THEN parts[i] ELSE Flat(parts, n)[i - 1] \o parts[i]]
  BY <1>5 DEF Flat
<1>. DEFINE f == Flat(parts, n)
<1>. HIDE DEF f
<1>7. f = [i \in 1 .. n |-> IF i = 1 THEN parts[i] ELSE Join(f[i - 1], parts[i])]
  BY <1>6 DEF Join, f
<1>8. \A i \in 1 .. n : f[i] = IF i = 1 THEN parts[i] ELSE Join(f[i - 1], parts[i])
  BY <1>7
<1>. DEFINE H == {k \in Nat : k \in 1 .. n => f[k] \in Seq(S)}
<1>9. 0 \in H  OBVIOUS
<1>10. ASSUME NEW k \in 0 .. n - 1, k \in H PROVE k + 1 \in H
  <2>1. k + 1 \in 1 .. n /\ (k + 1) - 1 = k /\ parts[k + 1] \in Seq(S)  OBVIOUS
  <2>2. f[k + 1] = IF k + 1 = 1 THEN parts[k + 1] ELSE Join(f[k], parts[k + 1])
    BY <1>8, <2>1
  <2>3. CASE k = 0  BY <2>1, <2>2, <2>3
  <2>4. CASE k # 0
    <3>1. f[k] \in Seq(S)  BY <1>10, <2>4
    <3>2. Join(f[k], parts[k + 1]) \in Seq(S)  BY <2>1, <3>1, JoinType
    <3>. QED  BY <2>1, <2>2, <2>4, <3>2
  <2>. QED  BY <2>3, <2>4
<1>11. \A k \in 1 .. n : f[k] \in Seq(S)
  <2>1. H \in SUBSET Nat  OBVIOUS
  <2>. HIDE DEF H
  <2>2. \A k \in 0 .. n : k \in H  BY <1>9, <1>10, <2>1, Steps
  <2>. QED  BY <2>2 DEF H
<1>12. f \in [1 .. n -> Seq(S)]  BY <1>7, <1>11
<1>. QED  BY <1>8, <1>12 DEF f

\* FlattenSeq makes a sequence of its parts.
LEMMA Flattened ==
    ASSUME NEW S, NEW n \in Nat, NEW parts \in [1 .. n -> Seq(S)]
    PROVE  \E e : MadeOf(S, FlattenSeq(parts), parts, n, e)
<1>. DEFINE f == Flat(parts, n)
            first(k) == [i \in 1 .. k |-> parts[i]]
            flat(k) == IF k = 0 THEN <<>> ELSE f[k]
            G == {k \in Nat : k <= n => \E e : MadeOf(S, flat(k), first(k), k, e)}
<1>1. /\ f \in [1 .. n -> Seq(S)]
      /\ \A i \in 1 .. n : f[i] = IF i = 1 THEN parts[i] ELSE Join(f[i - 1], parts[i])
  BY FlatIs
<1>. HIDE DEF f
<1>2. 0 \in G
  <2>1. first(0) = <<>>  OBVIOUS
  <2>2. MadeOf(S, flat(0), first(0), 0, [i \in 0 .. 0 |-> 0])  BY <2>1, MadeOfNothing
  <2>. QED  BY <2>2
<1>3. ASSUME NEW k \in 0 .. n - 1, k \in G PROVE k + 1 \in G
  <2>1. k \in Nat /\ k <= n /\ k + 1 \in 1 .. n /\ (k + 1) - 1 = k /\ parts[k + 1] \in Seq(S)
    OBVIOUS
  <2>2. PICK e : MadeOf(S, flat(k), first(k), k, e)  BY <1>3, <2>1
  <2>3. flat(k + 1) = Join(flat(k), parts[k + 1])
    <3>1. f[k + 1] = IF k = 0 THEN parts[k + 1] ELSE Join(f[k], parts[k + 1])  BY <1>1, <2>1
    <3>2. Join(<<>>, parts[k + 1]) = parts[k + 1]  BY <2>1, JoinEmpty
    <3>. QED  BY <2>1, <3>1, <3>2
  <2>4. /\ first(k + 1) \in [1 .. k + 1 -> Seq(S)]
        /\ \A i \in 1 .. k : first(k + 1)[i] = first(k)[i]
        /\ first(k + 1)[k + 1] = parts[k + 1]
    BY <2>1
  <2>. DEFINE a == flat(k)
              b == first(k)
              c == first(k + 1)
              p == parts[k + 1]
  <2>. HIDE DEF a, b, c, p
  <2>5. \E d : MadeOf(S, Join(a, p), c, k + 1, d)
    <3>1. MadeOf(S, a, b, k, e)  BY <2>2 DEF a, b
    <3>2. p \in Seq(S)  BY <2>1 DEF p
    <3>3. c \in [1 .. k + 1 -> Seq(S)] /\ (\A i \in 1 .. k : c[i] = b[i]) /\ c[k + 1] = p
      BY <2>4 DEF b, c, p
    <3>. QED  BY <3>1, <3>2, <3>3, MadeOfMore
  <2>6. \E d : MadeOf(S, flat(k + 1), first(k + 1), k + 1, d)
    BY <2>3, <2>5 DEF a, c, p
  <2>. HIDE DEF first, flat
  <2>. QED  BY <2>1, <2>6
<1>4. n \in G
  <2>1. G \in SUBSET Nat  OBVIOUS
  <2>. HIDE DEF G
  <2>2. \A k \in 0 .. n : k \in G  BY <1>2, <1>3, <2>1, Steps
  <2>. QED  BY <2>2
<1>5. first(n) = parts  OBVIOUS
<1>6. flat(n) = FlattenSeq(parts)
  <2>1. CASE n = 0
    <3>1. Len(parts) = 0 /\ parts = <<>>  BY <2>1, SequenceOf
    <3>. QED  BY <2>1, <3>1 DEF FlattenSeq
  <2>2. CASE n # 0  BY <2>2, FlattenIsFlat DEF f
  <2>. QED  BY <2>1, <2>2
<1>7. \E e : MadeOf(S, flat(n), first(n), n, e)
  <2>. HIDE DEF first, flat
  <2>. QED  BY <1>4
<1>. QED  BY <1>5, <1>6, <1>7

-----------------------------------------------------------------------------
(* Lines                                                                   *)

\* s is made of n parts, each of which ends with its only token of D.
LinesOf(S, s, parts, n, e, D) ==
    /\ MadeOf(S, s, parts, n, e)
    /\ \A i \in 1 .. n :
          /\ Len(parts[i]) >= 2
          /\ parts[i][Len(parts[i])] \in D
          /\ \A j \in 1 .. Len(parts[i]) - 1 : parts[i][j] \notin D

\* Where a line stands, and what separates it from its neighbours.
LEMMA LineAt ==
    ASSUME NEW S, NEW s, NEW parts, NEW n, NEW e, NEW D, LinesOf(S, s, parts, n, e, D),
           NEW i \in 1 .. n
    PROVE  /\ n \in Nat /\ Len(s) \in Nat /\ e[i - 1] \in Nat /\ e[i] \in Nat
           /\ e[i - 1] + 2 <= e[i] /\ e[i] <= Len(s)
           /\ s[e[i]] \in D /\ \A k \in e[i - 1] + 1 .. e[i] - 1 : s[k] \notin D
           /\ IF i = 1 THEN e[i - 1] = 0 ELSE s[e[i - 1]] \in D
           /\ IF i = n THEN e[i] = Len(s) ELSE e[i] < Len(s)
<1>. DEFINE l == Len(parts[i])
<1>1. /\ n \in Nat /\ l \in Nat /\ Len(s) \in Nat /\ e[i - 1] \in Nat /\ e[i] \in Nat
      /\ e[i] = e[i - 1] + l /\ e[i] <= Len(s)
      /\ \A j \in 1 .. l : s[e[i - 1] + j] = parts[i][j]
  <2>1. MadeOf(S, s, parts, n, e)  BY DEF LinesOf
  <2>2. n \in Nat  BY <2>1 DEF MadeOf
  <2>. QED  BY <2>1, <2>2, PartAt
<1>2. l >= 2 /\ parts[i][l] \in D /\ \A j \in 1 .. l - 1 : parts[i][j] \notin D
  BY DEF LinesOf
<1>. HIDE DEF l
<1>3. s[e[i]] \in D  BY <1>1, <1>2
<1>4. ASSUME NEW k \in e[i - 1] + 1 .. e[i] - 1 PROVE s[k] \notin D
  <2>. DEFINE j == k - e[i - 1]
  <2>1. j \in 1 .. l - 1 /\ k = e[i - 1] + j /\ j \in 1 .. l
    <3>. DEFINE a == e[i - 1]
                z == e[i]
    <3>1. a \in Nat /\ z = a + l /\ l \in Nat /\ k \in a + 1 .. z - 1  BY <1>1
    <3>. HIDE DEF a, z
    <3>2. k - a \in 1 .. l - 1 /\ k = a + (k - a) /\ k - a \in 1 .. l  BY <3>1
    <3>. QED  BY <3>2 DEF a
  <2>. HIDE DEF j
  <2>. QED  BY <1>1, <1>2, <2>1
<1>5. IF i = 1 THEN e[i - 1] = 0 ELSE s[e[i - 1]] \in D
  <2>1. CASE i = 1  BY <2>1 DEF LinesOf, MadeOf
  <2>2. CASE i # 1
    <3>. DEFINE k == i - 1
                m == Len(parts[k])
    <3>1. k \in 1 .. n  BY <1>1, <2>2
    <3>. HIDE DEF k
    <3>2. /\ m \in Nat /\ e[k - 1] \in Nat /\ e[k] = e[k - 1] + m
          /\ \A j \in 1 .. m : s[e[k - 1] + j] = parts[k][j]
      BY <3>1, PartAt DEF LinesOf
    <3>3. m >= 2 /\ parts[k][m] \in D  BY <3>1 DEF LinesOf
    <3>. HIDE DEF m
    <3>4. s[e[k]] \in D  BY <3>2, <3>3
    <3>. QED  BY <2>2, <3>4 DEF k
  <2>. QED  BY <2>1, <2>2
<1>6. IF i = n THEN e[i] = Len(s) ELSE e[i] < Len(s)
  <2>1. CASE i = n  BY <2>1 DEF LinesOf, MadeOf
  <2>2. CASE i # n
    <3>. DEFINE k == i + 1
    <3>1. k \in 1 .. n /\ k - 1 = i  BY <1>1, <2>2
    <3>. HIDE DEF k
    <3>2. Len(parts[k]) \in Nat /\ e[k] = e[i] + Len(parts[k]) /\ e[k] <= Len(s) /\ e[k] \in Nat
      BY <3>1, PartAt DEF LinesOf
    <3>3. Len(parts[k]) >= 2  BY <3>1 DEF LinesOf
    <3>4. e[i] \in Nat /\ Len(s) \in Nat  BY <1>1
    <3>. DEFINE q == Len(parts[k])
    <3>5. q \in Nat /\ q >= 2 /\ e[k] = e[i] + q  BY <3>2, <3>3
    <3>. HIDE DEF q
    <3>6. e[i] < Len(s)  BY <3>2, <3>4, <3>5
    <3>. QED  BY <2>2, <3>6
  <2>. QED  BY <2>1, <2>2
<1>. QED  BY <1>1, <1>2, <1>3, <1>4, <1>5, <1>6

\* A text without its last token.
Cut(s) == SubSeq(s, 1, Len(s) - 1)

\* Cut takes the last token away.
LEMMA CutIs ==
    ASSUME NEW S, NEW s \in Seq(S), Len(s) > 0
    PROVE  /\ Cut(s) \in Seq(S) /\ Len(Cut(s)) = Len(s) - 1 /\ Len(s) \in Nat
           /\ \A k \in 1 .. Len(s) - 1 : Cut(s)[k] = s[k]
<1>1. Len(s) \in Nat  BY LenProperties
<1>. DEFINE n == Len(s) - 1
<1>2. n \in 0 .. Len(s)  BY <1>1
<1>. HIDE DEF n
<1>3. /\ SubSeq(s, 1, n) \in Seq(S) /\ Len(SubSeq(s, 1, n)) = n
      /\ Begins(SubSeq(s, 1, n), s)
  BY <1>2, BeginningBegins
<1>4. \A k \in 1 .. n : SubSeq(s, 1, n)[k] = s[k]  BY <1>3 DEF Begins
<1>. QED  BY <1>1, <1>3, <1>4 DEF n, Cut

\* The stretch of the i-th line.
RowOf(e, i) == <<e[i - 1] + 1, e[i] - 1>>

\* Without the last mark, the lines are the stretches between the marks.
LEMMA StretchesOfLines ==
    ASSUME NEW S, NEW s, NEW parts, NEW n, NEW e, NEW D, LinesOf(S, s, parts, n, e, D),
           n >= 1
    PROVE  Stretches(Cut(s), D) = {RowOf(e, i) : i \in 1 .. n}
<1>. DEFINE t == Cut(s)
            m == Len(s) - 1
<1>1. n \in Nat /\ s \in Seq(S) /\ n \in 1 .. n  BY DEF LinesOf, MadeOf
<1>2. Len(s) \in Nat /\ Len(s) > 0  BY <1>1, LineAt
<1>3. Len(t) = m /\ m \in Nat /\ \A k \in 1 .. m : t[k] = s[k]  BY <1>1, <1>2, CutIs
<1>. HIDE DEF t
<1>4. ASSUME NEW i \in 1 .. n PROVE <<e[i - 1] + 1, e[i] - 1>> \in Stretches(t, D)
  <2>. DEFINE a == e[i - 1] + 1
              z == e[i] - 1
  <2>1. /\ a \in 1 .. m /\ z \in 1 .. m /\ a <= z
        /\ \A k \in a .. z : s[k] \notin D
        /\ a = 1 \/ s[a - 1] \in D
        /\ z = m \/ (z + 1 \in 1 .. m /\ s[z + 1] \in D)
    <3>0. /\ n \in Nat /\ Len(s) \in Nat /\ e[i - 1] \in Nat /\ e[i] \in Nat
          /\ e[i - 1] + 2 <= e[i] /\ e[i] <= Len(s)
          /\ s[e[i]] \in D /\ \A k \in e[i - 1] + 1 .. e[i] - 1 : s[k] \notin D
          /\ IF i = 1 THEN e[i - 1] = 0 ELSE s[e[i - 1]] \in D
          /\ IF i = n THEN e[i] = Len(s) ELSE e[i] < Len(s)
      BY LineAt
    <3>1. /\ e[i - 1] \in Nat /\ e[i] \in Nat /\ e[i - 1] + 2 <= e[i] /\ e[i] <= Len(s)
          /\ s[e[i]] \in D /\ \A k \in e[i - 1] + 1 .. e[i] - 1 : s[k] \notin D
      BY <3>0
    <3>2. IF i = 1 THEN e[i - 1] = 0 ELSE s[e[i - 1]] \in D  BY <3>0
    <3>3. IF i = n THEN e[i] = Len(s) ELSE e[i] < Len(s)  BY <3>0
    <3>4. a \in 1 .. m /\ z \in 1 .. m /\ a <= z
      <4>. DEFINE x == e[i - 1]
                  y == e[i]
                  l == Len(s)
      <4>1. x \in Nat /\ y \in Nat /\ l \in Nat /\ x + 2 <= y /\ y <= l  BY <1>2, <3>1
      <4>. HIDE DEF x, y, l
      <4>2. x + 1 \in 1 .. l - 1 /\ y - 1 \in 1 .. l - 1 /\ x + 1 <= y - 1  BY <4>1
      <4>. QED  BY <4>2 DEF x, y, l
    <3>5. a = 1 \/ s[a - 1] \in D  BY <3>1, <3>2
    <3>6. z = m \/ (z + 1 \in 1 .. m /\ s[z + 1] \in D)
      <4>1. z + 1 = e[i] /\ m = Len(s) - 1 /\ m \in Nat  BY <1>2, <3>1
      <4>2. CASE i = n  BY <3>1, <3>3, <4>1, <4>2
      <4>3. CASE i # n
        <5>1. e[i] < Len(s)  BY <3>3, <4>3
        <5>2. z + 1 \in 1 .. m  BY <1>2, <3>1, <4>1, <5>1
        <5>. QED  BY <3>1, <4>1, <5>2
      <4>. QED  BY <4>2, <4>3
    <3>. QED  BY <3>1, <3>4, <3>5, <3>6
  <2>. HIDE DEF a, z
  <2>2. \A k \in a .. z : k \in 1 .. m  BY <1>3, <2>1
  <2>3. a = 1 \/ a - 1 \in 1 .. m  BY <1>3, <2>1
  <2>4. <<a, z>> \in Stretches(t, D)  BY <1>3, <2>1, <2>2, <2>3 DEF Stretches
  <2>. QED  BY <2>4 DEF a, z
<1>5. ASSUME NEW r \in Stretches(t, D) PROVE \E i \in 1 .. n : r = <<e[i - 1] + 1, e[i] - 1>>
  <2>. DEFINE a == r[1]
              z == r[2]
  <2>1. /\ r = <<a, z>> /\ a \in 1 .. m /\ z \in 1 .. m /\ a <= z
        /\ \A k \in a .. z : t[k] \notin D
        /\ a = 1 \/ t[a - 1] \in D
        /\ z = m \/ t[z + 1] \in D
    BY <1>3 DEF Stretches
  <2>. HIDE DEF a, z
  <2>2. \A k \in a .. z : k \in 1 .. m /\ s[k] \notin D
    <3>1. \A k \in a .. z : k \in 1 .. m  BY <1>3, <2>1
    <3>. QED  BY <1>3, <2>1, <3>1
  <2>3. a = 1 \/ (a - 1 \in 1 .. m /\ s[a - 1] \in D)
    <3>1. a # 1 => a - 1 \in 1 .. m  BY <1>3, <2>1
    <3>. QED  BY <1>3, <2>1, <3>1
  <2>4. z = m \/ (z + 1 \in 1 .. m /\ s[z + 1] \in D)
    <3>1. z # m => z + 1 \in 1 .. m  BY <1>3, <2>1
    <3>. QED  BY <1>3, <2>1, <3>1
  <2>5. PICK i \in 1 .. n : a \in e[i - 1] + 1 .. e[i]
    <3>1. a \in 1 .. Len(s)  BY <1>2, <2>1
    <3>. QED  BY <3>1, PartOf DEF LinesOf
  <2>6. /\ e[i - 1] \in Nat /\ e[i] \in Nat /\ e[i - 1] + 2 <= e[i] /\ e[i] <= Len(s)
        /\ s[e[i]] \in D /\ \A k \in e[i - 1] + 1 .. e[i] - 1 : s[k] \notin D
    BY LineAt
  <2>7. a \in 1 .. m /\ z \in 1 .. m /\ a <= z  BY <2>1
  <2>8. a = e[i - 1] + 1
    <3>1. a # e[i]  BY <2>2, <2>6, <2>7
    <3>2. CASE a = 1  BY <2>5, <2>6, <3>2
    <3>3. CASE a # 1 /\ a # e[i - 1] + 1
      <4>1. a - 1 \in e[i - 1] + 1 .. e[i] - 1  BY <2>5, <2>6, <3>1, <3>3
      <4>. QED  BY <2>3, <2>6, <3>3, <4>1
    <3>. QED  BY <3>2, <3>3
  <2>9. z = e[i] - 1
    <3>1. z < e[i]
      <4>1. CASE z >= e[i]
        <5>1. e[i] \in a .. z  BY <2>5, <2>6, <2>7, <4>1
        <5>. QED  BY <2>2, <2>6, <5>1
      <4>2. z \in Int /\ e[i] \in Int  BY <2>6, <2>7
      <4>. QED  BY <4>1, <4>2
    <3>2. CASE z < e[i] - 1
      <4>1. z + 1 \in e[i - 1] + 1 .. e[i] - 1 /\ z # m
        <5>. DEFINE x == e[i - 1]
                    y == e[i]
                    l == Len(s)
        <5>1. x \in Nat /\ y \in Nat /\ l \in Nat /\ x + 2 <= y /\ y <= l  BY <1>2, <2>6
        <5>2. z \in Int /\ a <= z /\ a = x + 1 /\ z < y - 1  BY <2>7, <2>8, <3>2
        <5>. HIDE DEF x, y, l
        <5>3. z + 1 \in x + 1 .. y - 1 /\ z # l - 1  BY <5>1, <5>2
        <5>. QED  BY <5>3 DEF x, y, l
      <4>. QED  BY <2>4, <2>6, <4>1
    <3>3. z \in Int /\ e[i] \in Int  BY <2>6, <2>7
    <3>. QED  BY <3>1, <3>2, <3>3
  <2>. QED  BY <2>1, <2>8, <2>9
<1>6. Stretches(t, D) = {<<e[i - 1] + 1, e[i] - 1>> : i \in 1 .. n}  BY <1>4, <1>5
<1>. QED  BY <1>6 DEF t, RowOf

-----------------------------------------------------------------------------
(* Names and values                                                        *)

\* A name and a value, as http.create and url.create write them.
Pair(name, mark, value, sep) == name \o <<mark>> \o value \o <<sep>>

\* p is a pair, token by token.
IsPair(p, name, mark, value, sep) ==
    /\ Len(name) \in Nat /\ Len(value) \in Nat /\ Len(p) = Len(name) + Len(value) + 2
    /\ \A k \in 1 .. Len(name) : p[k] = name[k]
    /\ p[Len(name) + 1] = mark
    /\ \A k \in 1 .. Len(value) : p[Len(name) + 1 + k] = value[k]
    /\ p[Len(name) + Len(value) + 2] = sep

\* A pair, token by token.
LEMMA PairIs ==
    ASSUME NEW S, NEW name \in Seq(S), NEW mark \in S, NEW value \in Seq(S), NEW sep \in S
    PROVE  IsPair(Pair(name, mark, value, sep), name, mark, value, sep)
           /\ Pair(name, mark, value, sep) \in Seq(S)
<1>. DEFINE m == <<mark>>
            c == <<sep>>
            a == Join(name, m)
            b == Join(a, value)
            p == Join(b, c)
<1>1. m \in Seq(S) /\ Len(m) = 1 /\ m[1] = mark /\ c \in Seq(S) /\ Len(c) = 1 /\ c[1] = sep
  OBVIOUS
<1>. HIDE DEF m, c
<1>2. /\ a \in Seq(S) /\ Len(a) = Len(name) + 1 /\ Len(name) \in Nat
      /\ \A k \in 1 .. Len(name) : a[k] = name[k]
      /\ a[Len(name) + 1] = mark
  <2>0. name \in Seq(S) /\ m \in Seq(S)  BY <1>1
  <2>1. a \in Seq(S) /\ Len(a) = Len(name) + Len(m) /\ Len(name) \in Nat  BY <2>0, JoinSize
  <2>2. \A k \in 1 .. Len(name) : a[k] = name[k]  BY <2>0, JoinFirst
  <2>3. \A k \in 1 .. Len(m) : a[Len(name) + k] = m[k]  BY <2>0, JoinSecond
  <2>4. 1 \in 1 .. Len(m)  BY <1>1
  <2>. QED  BY <1>1, <2>1, <2>2, <2>3, <2>4
<1>. HIDE DEF a
<1>3. /\ b \in Seq(S) /\ Len(b) = Len(a) + Len(value) /\ Len(value) \in Nat
      /\ \A k \in 1 .. Len(a) : b[k] = a[k]
      /\ \A k \in 1 .. Len(value) : b[Len(a) + k] = value[k]
  <2>0. a \in Seq(S) /\ value \in Seq(S)  BY <1>2
  <2>1. b \in Seq(S) /\ Len(b) = Len(a) + Len(value) /\ Len(value) \in Nat  BY <2>0, JoinSize
  <2>2. \A k \in 1 .. Len(a) : b[k] = a[k]  BY <2>0, JoinFirst
  <2>3. \A k \in 1 .. Len(value) : b[Len(a) + k] = value[k]  BY <2>0, JoinSecond
  <2>. QED  BY <2>1, <2>2, <2>3
<1>. HIDE DEF b
<1>4. /\ p \in Seq(S) /\ Len(p) = Len(b) + 1
      /\ \A k \in 1 .. Len(b) : p[k] = b[k]
      /\ p[Len(b) + 1] = sep
  <2>0. b \in Seq(S) /\ c \in Seq(S)  BY <1>1, <1>3
  <2>1. p \in Seq(S) /\ Len(p) = Len(b) + Len(c)  BY <2>0, JoinSize
  <2>2. \A k \in 1 .. Len(b) : p[k] = b[k]  BY <2>0, JoinFirst
  <2>3. \A k \in 1 .. Len(c) : p[Len(b) + k] = c[k]  BY <2>0, JoinSecond
  <2>4. 1 \in 1 .. Len(c)  BY <1>1
  <2>. QED  BY <1>1, <2>1, <2>2, <2>3, <2>4
<1>. HIDE DEF p
<1>5. Len(b) = Len(name) + 1 + Len(value) /\ Len(b) + 1 = Len(name) + Len(value) + 2
  BY <1>2, <1>3
<1>6. \A k \in 1 .. Len(name) : k \in 1 .. Len(a) /\ k \in 1 .. Len(b)  BY <1>2, <1>3
<1>7. Len(name) + 1 \in 1 .. Len(a) /\ Len(name) + 1 \in 1 .. Len(b)  BY <1>2, <1>3
<1>8. \A k \in 1 .. Len(value) : Len(name) + 1 + k \in 1 .. Len(b)  BY <1>2, <1>3, <1>5
<1>9. \A k \in 1 .. Len(name) : p[k] = name[k]  BY <1>2, <1>3, <1>4, <1>6
<1>10. p[Len(name) + 1] = mark  BY <1>2, <1>3, <1>4, <1>7
<1>11. \A k \in 1 .. Len(value) : p[Len(name) + 1 + k] = value[k]  BY <1>2, <1>3, <1>4, <1>8
<1>12. p = Pair(name, mark, value, sep)  BY DEF Pair, p, b, a, m, c, Join
<1>13. Len(p) = Len(name) + Len(value) + 2 /\ p[Len(name) + Len(value) + 2] = sep
  BY <1>4, <1>5
<1>. QED  BY <1>2, <1>3, <1>4, <1>9, <1>10, <1>11, <1>12, <1>13 DEF IsPair

\* From the second on the parts are pairs of a name and a value.
PairsOf(S, parts, n, name, value, mark, sep) ==
    /\ mark \in S /\ sep \in S
    /\ \A i \in 2 .. n :
          /\ name[i] \in Seq(S) /\ name[i] # <<>>
          /\ value[i] \in Seq(S) /\ value[i] # <<>>
          /\ parts[i] = Pair(name[i], mark, value[i], sep)

\* Where the i-th part has its mark.
MarkAt(name, e, i) == e[i - 1] + Len(name[i]) + 1

\* Of the text t the i-th row is the i-th name, the mark and the i-th value.
PairFound(t, name, value, e, i, mark) ==
    LET p == MarkAt(name, e, i)
    IN  /\ e[i - 1] \in Nat /\ e[i] \in Nat
        /\ p \in e[i - 1] + 2 .. e[i] - 2 /\ e[i] - 1 <= Len(t) /\ Len(t) \in Nat
        /\ t[p] = mark
        /\ \A k \in e[i - 1] + 1 .. p - 1 :
              k - e[i - 1] \in 1 .. Len(name[i]) /\ t[k] = name[i][k - e[i - 1]]
        /\ \A k \in p + 1 .. e[i] - 1 :
              k - p \in 1 .. Len(value[i]) /\ t[k] = value[i][k - p]
        /\ e[i] - 1 = p + Len(value[i])
        /\ SubSeq(t, e[i - 1] + 1, p - 1) = name[i]
        /\ SubSeq(t, p + 1, e[i] - 1) = value[i]

\* Where name, mark and value of a line stand.
LEMMA PairAt ==
    ASSUME NEW S, NEW s, NEW parts, NEW n, NEW e, NEW D, LinesOf(S, s, parts, n, e, D),
           NEW name, NEW value, NEW mark, NEW sep,
           PairsOf(S, parts, n, name, value, mark, sep), NEW i \in 2 .. n
    PROVE  PairFound(Cut(s), name, value, e, i, mark)
<1>. DEFINE t == Cut(s)
            p == MarkAt(name, e, i)
            a == e[i - 1]
            z == e[i]
            x == name[i]
            v == value[i]
            l == parts[i]
<1>1. n \in Nat /\ s \in Seq(S) /\ i \in 1 .. n  BY DEF LinesOf, MadeOf
<1>2. /\ a \in Nat /\ z \in Nat /\ z = a + Len(l) /\ Len(s) \in Nat /\ z <= Len(s)
      /\ \A j \in 1 .. Len(l) : a + j \in 1 .. Len(s) /\ s[a + j] = l[j]
  <2>1. MadeOf(S, s, parts, n, e)  BY DEF LinesOf
  <2>. QED  BY <1>1, <2>1, PartAt
<1>3. /\ mark \in S /\ sep \in S /\ x \in Seq(S) /\ x # <<>> /\ v \in Seq(S) /\ v # <<>>
      /\ l = Pair(x, mark, v, sep)
  BY DEF PairsOf
<1>. HIDE DEF x, v, l
<1>4. /\ Len(x) \in Nat /\ Len(v) \in Nat /\ Len(l) = Len(x) + Len(v) + 2
      /\ \A k \in 1 .. Len(x) : l[k] = x[k]
      /\ l[Len(x) + 1] = mark
      /\ \A k \in 1 .. Len(v) : l[Len(x) + 1 + k] = v[k]
  <2>1. x \in Seq(S) /\ v \in Seq(S) /\ mark \in S /\ sep \in S  BY <1>3
  <2>2. l = Pair(x, mark, v, sep)  BY <1>3
  <2>3. IsPair(l, x, mark, v, sep)  BY <2>1, <2>2, PairIs
  <2>. QED  BY <2>3 DEF IsPair
<1>5. Len(x) >= 1 /\ Len(v) >= 1  BY <1>3, <1>4, EmptySeq
<1>6. p = a + Len(x) + 1  BY DEF MarkAt, x
<1>7. Len(s) > 0  BY <1>2, <1>4
<1>8. /\ t \in Seq(S) /\ Len(t) = Len(s) - 1
      /\ \A k \in 1 .. Len(s) - 1 : t[k] = s[k]
  BY <1>1, <1>7, CutIs
<1>. HIDE DEF a, z, p, t
<1>9. p \in a + 2 .. z - 2 /\ z - 1 <= Len(t) /\ Len(t) \in Nat /\ z - 1 = p + Len(v)
  BY <1>2, <1>4, <1>5, <1>6, <1>8
<1>10. \A k \in a + 1 .. z - 1 : k - a \in 1 .. Len(l) /\ t[k] = l[k - a]
  <2>. SUFFICES ASSUME NEW k \in a + 1 .. z - 1
                PROVE  k - a \in 1 .. Len(l) /\ t[k] = l[k - a]
    OBVIOUS
  <2>. DEFINE j == k - a
  <2>1. j \in 1 .. Len(l) /\ k = a + j /\ k \in 1 .. Len(s) - 1  BY <1>2, <1>4
  <2>. HIDE DEF j
  <2>2. s[k] = l[j]  BY <1>2, <2>1
  <2>3. t[k] = s[k]  BY <1>8, <2>1
  <2>. QED  BY <2>1, <2>2, <2>3 DEF j
<1>11. t[p] = mark
  <2>1. p \in a + 1 .. z - 1 /\ p - a = Len(x) + 1  BY <1>2, <1>4, <1>6, <1>9
  <2>. QED  BY <1>4, <1>10, <2>1
<1>12. \A k \in a + 1 .. p - 1 : k - a \in 1 .. Len(x) /\ t[k] = x[k - a]
  <2>. SUFFICES ASSUME NEW k \in a + 1 .. p - 1
                PROVE  k - a \in 1 .. Len(x) /\ t[k] = x[k - a]
    OBVIOUS
  <2>1. k \in a + 1 .. z - 1 /\ k - a \in 1 .. Len(x)  BY <1>2, <1>4, <1>6, <1>9
  <2>. QED  BY <1>4, <1>10, <2>1
<1>13. \A k \in p + 1 .. z - 1 : k - p \in 1 .. Len(v) /\ t[k] = v[k - p]
  <2>. SUFFICES ASSUME NEW k \in p + 1 .. z - 1
                PROVE  k - p \in 1 .. Len(v) /\ t[k] = v[k - p]
    OBVIOUS
  <2>1. k \in a + 1 .. z - 1 /\ k - p \in 1 .. Len(v) /\ k - a = Len(x) + 1 + (k - p)
    <3>. DEFINE m == Len(v)
                w == Len(x)
    <3>1. a \in Nat /\ z \in Nat /\ m \in Nat /\ w \in Nat  BY <1>2, <1>4
    <3>2. p = a + w + 1 /\ z - 1 = p + m  BY <1>6, <1>9
    <3>. HIDE DEF m, w
    <3>3. k \in a + 1 .. z - 1 /\ k - p \in 1 .. m /\ k - a = w + 1 + (k - p)
      BY <3>1, <3>2
    <3>. QED  BY <3>3 DEF m, w
  <2>. QED  BY <1>4, <1>10, <2>1
<1>14. SubSeq(t, a + 1, p - 1) = x
  <2>0. a \in Nat /\ Len(x) \in Nat /\ Len(x) >= 1 /\ p = a + Len(x) + 1
    <3>1. a \in Nat  BY <1>2
    <3>2. Len(x) \in Nat  BY <1>4
    <3>. QED  BY <1>5, <1>6, <3>1, <3>2
  <2>1. a + 1 \in Int /\ p - 1 \in Int /\ (p - 1) - (a + 1) + 1 = Len(x) /\ a + 1 <= p - 1
    BY <2>0
  <2>2. \A k \in a + 1 .. p - 1 : t[k] \in S
    <3>1. \A k \in a + 1 .. p - 1 : k \in 1 .. Len(t)  BY <1>2, <1>9
    <3>. QED  BY <1>8, <3>1, ElementOfSeq
  <2>. DEFINE u == SubSeq(t, a + 1, p - 1)
              f == a + 1
              g == p - 1
  <2>3. /\ u \in Seq(S) /\ Len(u) = Len(x)
        /\ \A j \in 1 .. Len(x) : u[j] = t[(a + 1) + j - 1]
    <3>. HIDE DEF f, g
    <3>1. /\ SubSeq(t, f, g) \in Seq(S)
          /\ Len(SubSeq(t, f, g)) = IF f <= g THEN g - f + 1 ELSE 0
          /\ \A j \in 1 .. g - f + 1 : SubSeq(t, f, g)[j] = t[f + j - 1]
      <4>1. f \in Int /\ g \in Int /\ \A k \in f .. g : t[k] \in S  BY <2>1, <2>2 DEF f, g
      <4>. QED  BY <4>1, SubSeqProperties
    <3>. QED  BY <2>1, <3>1 DEF f, g
  <2>. HIDE DEF u
  <2>4. \A j \in 1 .. Len(x) : u[j] = x[j]
    <3>1. \A j \in 1 .. Len(x) : (a + 1) + j - 1 \in a + 1 .. p - 1 /\ ((a + 1) + j - 1) - a = j
      BY <1>2, <1>4, <1>6
    <3>. QED  BY <1>12, <2>3, <3>1
  <2>. QED  BY <1>3, <2>3, <2>4, SeqEqual DEF u
<1>15. SubSeq(t, p + 1, z - 1) = v
  <2>1. p + 1 \in Int /\ z - 1 \in Int /\ (z - 1) - (p + 1) + 1 = Len(v) /\ p + 1 <= z - 1
    BY <1>2, <1>4, <1>5, <1>6, <1>9
  <2>2. \A k \in p + 1 .. z - 1 : t[k] \in S
    <3>1. \A k \in p + 1 .. z - 1 : k \in 1 .. Len(t)  BY <1>2, <1>9
    <3>. QED  BY <1>8, <3>1, ElementOfSeq
  <2>. DEFINE u == SubSeq(t, p + 1, z - 1)
              f == p + 1
              g == z - 1
  <2>3. /\ u \in Seq(S) /\ Len(u) = Len(v)
        /\ \A j \in 1 .. Len(v) : u[j] = t[(p + 1) + j - 1]
    <3>. HIDE DEF f, g
    <3>1. /\ SubSeq(t, f, g) \in Seq(S)
          /\ Len(SubSeq(t, f, g)) = IF f <= g THEN g - f + 1 ELSE 0
          /\ \A j \in 1 .. g - f + 1 : SubSeq(t, f, g)[j] = t[f + j - 1]
      <4>1. f \in Int /\ g \in Int /\ \A k \in f .. g : t[k] \in S  BY <2>1, <2>2 DEF f, g
      <4>. QED  BY <4>1, SubSeqProperties
    <3>. QED  BY <2>1, <3>1 DEF f, g
  <2>. HIDE DEF u
  <2>4. \A j \in 1 .. Len(v) : u[j] = v[j]
    <3>1. \A j \in 1 .. Len(v) : (p + 1) + j - 1 \in p + 1 .. z - 1 /\ ((p + 1) + j - 1) - p = j
      BY <1>2, <1>4, <1>6, <1>9
    <3>. QED  BY <1>13, <2>3, <3>1
  <2>. QED  BY <1>3, <2>3, <2>4, SeqEqual DEF u
<1>. QED
  BY <1>2, <1>9, <1>11, <1>12, <1>13, <1>14, <1>15 DEF PairFound, a, z, p, t, x, v

\* The match a pair is found as.
MatchOf(name, e, i) == [from |-> e[i - 1] + 1, at |-> MarkAt(name, e, i), to |-> e[i] - 1]

\* The places Fields looks at.
ColonsOf(t, r) == {p \in r[1] + 1 .. r[2] - 1 : t[p] = Colon /\ IsWord(t[p - 1])}
NameFrom(t, r, p) == Min({b \in r[1] .. p - 1 : \A k \in b .. p - 1 : IsWord(t[k])})

\* Fields with names for its parts.
LEMMA FieldsAre ==
    ASSUME NEW t
    PROVE  Fields(t) =
              {[from |-> NameFrom(t, r, Min(ColonsOf(t, r))), at |-> Min(ColonsOf(t, r)), to |-> r[2]] :
                  r \in {x \in Stretches(t, {CRLF}) : ColonsOf(t, x) # {}}}
BY DEF Fields, ColonsOf, NameFrom

\* Of the text t the i-th row is a field, found at its mark.
FieldFound(t, name, e, i) ==
    /\ ColonsOf(t, RowOf(e, i)) # {}
    /\ Min(ColonsOf(t, RowOf(e, i))) = MarkAt(name, e, i)
    /\ NameFrom(t, RowOf(e, i), MarkAt(name, e, i)) = e[i - 1] + 1

\* Lines as http.create writes them: the first one holds no field.
FieldLines(S, s, parts, n, e, name, value) ==
    /\ LinesOf(S, s, parts, n, e, {CRLF}) /\ n >= 1
    /\ PairsOf(S, parts, n, name, value, Colon, CRLF)
    /\ \A i \in 2 .. n : \A k \in 1 .. Len(name[i]) : IsWord(name[i][k])
    /\ \A j \in 1 .. Len(parts[1]) : parts[1][j] # Colon

\* In a line that http.create wrote the field is found as it was written.
LEMMA FieldOfLine ==
    ASSUME NEW S, NEW s, NEW parts, NEW n, NEW e, NEW name, NEW value,
           FieldLines(S, s, parts, n, e, name, value), NEW i \in 2 .. n
    PROVE  FieldFound(Cut(s), name, e, i)
<1>. DEFINE t == Cut(s)
            r == RowOf(e, i)
            a == e[i - 1]
            z == e[i]
            p == MarkAt(name, e, i)
            x == name[i]
<1>1. LinesOf(S, s, parts, n, e, {CRLF}) /\ PairsOf(S, parts, n, name, value, Colon, CRLF)
  BY DEF FieldLines
<1>2. PairFound(t, name, value, e, i, Colon)  BY <1>1, PairAt
<1>3. \A k \in 1 .. Len(x) : IsWord(x[k])  BY DEF FieldLines
<1>4. r = <<a + 1, z - 1>>  BY DEF RowOf
<1>5. r[1] = a + 1 /\ r[2] = z - 1  BY <1>4
<1>6. a \in Nat /\ z \in Nat /\ p \in a + 2 .. z - 2  BY <1>2 DEF PairFound
<1>15. t[p] = Colon  BY <1>2 DEF PairFound
<1>7. \A k \in a + 1 .. p - 1 : IsWord(t[k])  BY <1>2, <1>3 DEF PairFound
<1>. HIDE DEF t, r, a, z, p, x
<1>8. \A k \in a + 1 .. p - 1 : t[k] # Colon
  <2>1. ~ IsWord(Colon)  BY DEF IsWord, Marks
  <2>. QED  BY <1>7, <2>1
<1>11. ColonsOf(t, r) = {q \in a + 2 .. z - 2 : t[q] = Colon /\ IsWord(t[q - 1])}
  <2>1. r[1] + 1 .. r[2] - 1 = a + 2 .. z - 2  BY <1>5, <1>6
  <2>. QED  BY <2>1 DEF ColonsOf
<1>12. p \in ColonsOf(t, r)
  <2>1. p - 1 \in a + 1 .. p - 1  BY <1>6
  <2>. QED  BY <1>6, <1>7, <1>11, <1>15, <2>1
<1>13. \A q \in ColonsOf(t, r) : p <= q
  <2>. SUFFICES ASSUME NEW q \in ColonsOf(t, r) PROVE p <= q  OBVIOUS
  <2>1. q \in a + 2 .. z - 2  BY <1>11
  <2>3. t[q] = Colon  BY <1>11
  <2>2. ~ (q \in a + 1 .. p - 1)  BY <1>8, <2>3
  <2>. QED  BY <1>6, <2>1, <2>2
<1>14. ColonsOf(t, r) \in SUBSET Nat
  <2>1. \A q \in a + 2 .. z - 2 : q \in Nat  BY <1>6
  <2>. QED  BY <1>11, <2>1
<1>9. Min(ColonsOf(t, r)) = p  BY <1>12, <1>13, <1>14, MinIs
<1>10. NameFrom(t, r, p) = a + 1
  <2>. DEFINE B == {b \in a + 1 .. p - 1 : \A k \in b .. p - 1 : IsWord(t[k])}
  <2>1. a + 1 \in B
    <3>1. a + 1 \in a + 1 .. p - 1  BY <1>6
    <3>. QED  BY <1>7, <3>1
  <2>2. B \in SUBSET Nat /\ \A b \in B : a + 1 <= b
    <3>1. \A b \in B : b \in a + 1 .. p - 1  OBVIOUS
    <3>. HIDE DEF B
    <3>. QED  BY <1>6, <3>1
  <2>3. NameFrom(t, r, p) = Min(B)  BY <1>5 DEF NameFrom
  <2>. HIDE DEF B
  <2>4. Min(B) = a + 1  BY <2>1, <2>2, MinIs
  <2>. QED  BY <2>3, <2>4
<1>. QED  BY <1>12, <1>9, <1>10 DEF FieldFound, t, r, a, p

\* The first row of t begins with it and has no such token.
FirstRowWithout(t, e, token) ==
    /\ RowOf(e, 1)[1] = 1 /\ RowOf(e, 1)[2] = e[1] - 1 /\ e[1] \in Nat
    /\ \A k \in 1 .. e[1] - 1 : t[k] # token

\* The first line has no token that is not in its text.
LEMMA FirstRow ==
    ASSUME NEW S, NEW s, NEW parts, NEW n, NEW e, NEW D, LinesOf(S, s, parts, n, e, D), n >= 1,
           NEW token, \A j \in 1 .. Len(parts[1]) : parts[1][j] # token
    PROVE  FirstRowWithout(Cut(s), e, token)
<1>. DEFINE t == Cut(s)
<1>1. MadeOf(S, s, parts, n, e)  BY DEF LinesOf
<1>2. n \in Nat /\ s \in Seq(S) /\ e[0] = 0 /\ 1 \in 1 .. n /\ 1 - 1 = 0
  BY <1>1 DEF MadeOf
<1>3. /\ Len(parts[1]) \in Nat /\ e[1] = e[0] + Len(parts[1]) /\ Len(s) \in Nat /\ e[1] <= Len(s)
      /\ \A j \in 1 .. Len(parts[1]) : s[e[0] + j] = parts[1][j]
  BY <1>1, <1>2, PartAt
<1>4. Len(parts[1]) >= 2  BY <1>2 DEF LinesOf
<1>5. \A k \in 1 .. Len(s) - 1 : t[k] = s[k]
  <2>1. Len(s) > 0  BY <1>2, <1>3, <1>4
  <2>. QED  BY <1>2, <2>1, CutIs
<1>. HIDE DEF t
<1>6. \A k \in 1 .. e[1] - 1 : t[k] # token
  <2>. SUFFICES ASSUME NEW k \in 1 .. e[1] - 1 PROVE t[k] # token  OBVIOUS
  <2>1. k \in 1 .. Len(s) - 1 /\ k \in 1 .. Len(parts[1]) /\ e[0] + k = k  BY <1>2, <1>3
  <2>2. t[k] = parts[1][k]  BY <1>3, <1>5, <2>1
  <2>. QED  BY <2>1, <2>2
<1>7. RowOf(e, 1)[1] = 1 /\ RowOf(e, 1)[2] = e[1] - 1
  <2>1. RowOf(e, 1) = <<e[1 - 1] + 1, e[1] - 1>>  BY DEF RowOf
  <2>2. e[1 - 1] + 1 = 1  BY <1>2
  <2>. QED  BY <2>1, <2>2
<1>. QED  BY <1>2, <1>3, <1>6, <1>7 DEF FirstRowWithout, t

\* There is no field in the first line of a head.
LEMMA NoFieldInFirstLine ==
    ASSUME NEW S, NEW s, NEW parts, NEW n, NEW e, NEW name, NEW value,
           FieldLines(S, s, parts, n, e, name, value)
    PROVE  ColonsOf(Cut(s), RowOf(e, 1)) = {}
<1>. DEFINE t == Cut(s)
            r == RowOf(e, 1)
            z == e[1]
<1>1. LinesOf(S, s, parts, n, e, {CRLF}) /\ n >= 1 /\ \A j \in 1 .. Len(parts[1]) : parts[1][j] # Colon
  BY DEF FieldLines
<1>2. /\ r[1] = 1 /\ r[2] = z - 1 /\ z \in Nat
      /\ \A k \in 1 .. z - 1 : t[k] # Colon
  <2>1. FirstRowWithout(t, e, Colon)  BY <1>1, FirstRow
  <2>. QED  BY <2>1 DEF FirstRowWithout
<1>. HIDE DEF t, r, z
<1>3. \A q \in r[1] + 1 .. r[2] - 1 : q \in 1 .. z - 1
  <2>1. r[1] = 1 /\ r[2] = z - 1 /\ z \in Nat  BY <1>2
  <2>. QED  BY <2>1
<1>4. \A q \in r[1] + 1 .. r[2] - 1 : t[q] # Colon  BY <1>2, <1>3
<1>5. ColonsOf(t, r) = {}  BY <1>4 DEF ColonsOf
<1>. QED  BY <1>5 DEF t, r

\* The fields found in a head are those of its lines, each once.
LEMMA FieldsOfLines ==
    ASSUME NEW S, NEW s, NEW parts, NEW n, NEW e, NEW name, NEW value,
           FieldLines(S, s, parts, n, e, name, value)
    PROVE  Fields(Cut(s)) = {MatchOf(name, e, i) : i \in 2 .. n}
<1>. DEFINE t == Cut(s)
            M(r) == [from |-> NameFrom(t, r, Min(ColonsOf(t, r))), at |-> Min(ColonsOf(t, r)), to |-> r[2]]
            R == {x \in Stretches(t, {CRLF}) : ColonsOf(t, x) # {}}
<1>1. Stretches(t, {CRLF}) = {RowOf(e, i) : i \in 1 .. n}
  <2>1. LinesOf(S, s, parts, n, e, {CRLF}) /\ n >= 1  BY DEF FieldLines
  <2>. QED  BY <2>1, StretchesOfLines
<1>2. n \in Nat  BY DEF FieldLines, LinesOf, MadeOf
<1>3. ColonsOf(t, RowOf(e, 1)) = {}  BY NoFieldInFirstLine
<1>4. \A i \in 2 .. n : FieldFound(t, name, e, i)  BY FieldOfLine
<1>5. Fields(t) = {M(r) : r \in R}  BY FieldsAre
<1>. HIDE DEF t
<1>6. ASSUME NEW i \in 2 .. n
      PROVE  RowOf(e, i) \in R /\ M(RowOf(e, i)) = MatchOf(name, e, i)
  <2>1. FieldFound(t, name, e, i) /\ i \in 1 .. n  BY <1>2, <1>4
  <2>2. RowOf(e, i) \in R  BY <1>1, <2>1 DEF FieldFound
  <2>3. RowOf(e, i)[2] = e[i] - 1  BY DEF RowOf
  <2>. QED  BY <2>1, <2>2, <2>3 DEF MatchOf, FieldFound
<1>7. ASSUME NEW r \in R PROVE \E i \in 2 .. n : r = RowOf(e, i)
  <2>1. PICK i \in 1 .. n : r = RowOf(e, i)  BY <1>1
  <2>2. i # 1  BY <1>3, <2>1
  <2>3. i \in 2 .. n  BY <1>2, <2>2
  <2>. QED  BY <2>1, <2>3
<1>. HIDE DEF M, R
<1>8. \A f \in Fields(t) : \E i \in 2 .. n : f = MatchOf(name, e, i)
  <2>. SUFFICES ASSUME NEW f \in Fields(t) PROVE \E i \in 2 .. n : f = MatchOf(name, e, i)
    OBVIOUS
  <2>1. PICK r \in R : f = M(r)  BY <1>5
  <2>2. PICK i \in 2 .. n : r = RowOf(e, i)  BY <1>7
  <2>. QED  BY <1>6, <2>1, <2>2
<1>9. \A i \in 2 .. n : MatchOf(name, e, i) \in Fields(t)  BY <1>5, <1>6
<1>10. Fields(t) = {MatchOf(name, e, i) : i \in 2 .. n}  BY <1>8, <1>9
<1>. QED  BY <1>10 DEF t

-----------------------------------------------------------------------------
(* Tables filled from matches                                              *)

\* The key of a match.
KeyOf(t, m) == SubSeq(t, m.from, m.at - 1)
LastMatch(t, matches, k) ==
    CHOOSE m \in matches :
        /\ KeyOf(t, m) = k
        /\ \A other \in matches : KeyOf(t, other) = k => other.at <= m.at

\* Filled with names for its parts.
LEMMA FilledIs ==
    ASSUME NEW t, NEW matches
    PROVE  Filled(t, matches) =
              [k \in {KeyOf(t, m) : m \in matches} |->
                  SubSeq(t, LastMatch(t, matches, k).at + 1, LastMatch(t, matches, k).to)]
BY DEF Filled, KeyOf, LastMatch

\* The table of names and values in which the last value of a name wins.
LastWins(f, n, name, value) ==
    /\ f = [k \in DOMAIN f |-> f[k]]
    /\ DOMAIN f = {name[i] : i \in 2 .. n}
    /\ \A i \in 2 .. n : (\A j \in i + 1 .. n : name[j] # name[i]) => f[name[i]] = value[i]

\* The marks of later lines stand behind those of earlier ones.
LEMMA MarksGrow ==
    ASSUME NEW S, NEW s, NEW parts, NEW n, NEW e, NEW D, LinesOf(S, s, parts, n, e, D),
           NEW name, NEW value, NEW mark, NEW sep,
           PairsOf(S, parts, n, name, value, mark, sep), NEW i \in 2 .. n, NEW j \in 2 .. n, i < j
    PROVE  MarkAt(name, e, i) < MarkAt(name, e, j)
<1>1. MadeOf(S, s, parts, n, e) /\ n \in Nat  BY DEF LinesOf, MadeOf
<1>2. e[i] <= e[j - 1]
  <2>1. j - 1 \in 0 .. n /\ i \in 0 .. j - 1  BY <1>1
  <2>. QED  BY <1>1, <2>1, EndsGrow
<1>3. PairFound(Cut(s), name, value, e, i, mark) /\ PairFound(Cut(s), name, value, e, j, mark)
  BY PairAt
<1>4. e[i - 1] \in Nat /\ e[i] \in Nat /\ MarkAt(name, e, i) \in e[i - 1] + 2 .. e[i] - 2
  BY <1>3 DEF PairFound
<1>5. e[j - 1] \in Nat /\ e[j] \in Nat /\ MarkAt(name, e, j) \in e[j - 1] + 2 .. e[j] - 2
  BY <1>3 DEF PairFound
<1>. DEFINE a == e[i - 1]
            b == e[i]
            c == e[j - 1]
            d == e[j]
            p == MarkAt(name, e, i)
            q == MarkAt(name, e, j)
<1>. HIDE DEF a, b, c, d, p, q
<1>6. a \in Nat /\ b \in Nat /\ p \in a + 2 .. b - 2  BY <1>4 DEF a, b, p
<1>7. c \in Nat /\ d \in Nat /\ q \in c + 2 .. d - 2 /\ b <= c  BY <1>2, <1>5 DEF b, c, d, q
<1>8. p < q  BY <1>6, <1>7
<1>. QED  BY <1>8 DEF p, q

\* The matches of pairs give the table they were written from.
LEMMA FilledFromPairs ==
    ASSUME NEW S, NEW s, NEW parts, NEW n, NEW e, NEW D, LinesOf(S, s, parts, n, e, D),
           NEW name, NEW value, NEW mark, NEW sep,
           PairsOf(S, parts, n, name, value, mark, sep), NEW f, LastWins(f, n, name, value)
    PROVE  Filled(Cut(s), {MatchOf(name, e, i) : i \in 2 .. n}) = f
<1>. DEFINE t == Cut(s)
            ms == {MatchOf(name, e, i) : i \in 2 .. n}
            V(k) == SubSeq(t, LastMatch(t, ms, k).at + 1, LastMatch(t, ms, k).to)
            at(i) == MarkAt(name, e, i)
<1>1. n \in Nat  BY DEF LinesOf, MadeOf
<1>2. ASSUME NEW i \in 2 .. n
      PROVE  /\ MatchOf(name, e, i) \in ms
             /\ KeyOf(t, MatchOf(name, e, i)) = name[i]
             /\ SubSeq(t, MatchOf(name, e, i).at + 1, MatchOf(name, e, i).to) = value[i]
             /\ MatchOf(name, e, i).at = at(i)
             /\ at(i) \in Nat
  <2>1. PairFound(t, name, value, e, i, mark)  BY PairAt
  <2>2. /\ MatchOf(name, e, i).from = e[i - 1] + 1
        /\ MatchOf(name, e, i).at = at(i)
        /\ MatchOf(name, e, i).to = e[i] - 1
    BY DEF MatchOf
  <2>3. SubSeq(t, e[i - 1] + 1, at(i) - 1) = name[i] /\ SubSeq(t, at(i) + 1, e[i] - 1) = value[i]
    BY <2>1 DEF PairFound
  <2>4. KeyOf(t, MatchOf(name, e, i)) = name[i]  BY <2>2, <2>3 DEF KeyOf
  <2>5. SubSeq(t, MatchOf(name, e, i).at + 1, MatchOf(name, e, i).to) = value[i]  BY <2>2, <2>3
  <2>6. at(i) \in e[i - 1] + 2 .. e[i] - 2 /\ e[i - 1] \in Nat /\ e[i] \in Nat
    BY <2>1 DEF PairFound
  <2>. DEFINE p == at(i)
              a == e[i - 1]
              b == e[i]
  <2>. HIDE DEF p, a, b
  <2>7. p \in a + 2 .. b - 2 /\ a \in Nat /\ b \in Nat  BY <2>6 DEF p, a, b
  <2>8. p \in Nat  BY <2>7
  <2>. QED  BY <2>2, <2>4, <2>5, <2>8 DEF p
<1>3. \A i, j \in 2 .. n : i < j => at(i) < at(j)  BY MarksGrow
<1>. HIDE DEF t, at
<1>4. {KeyOf(t, m) : m \in ms} = {name[i] : i \in 2 .. n}
  <2>1. {KeyOf(t, m) : m \in ms} = {KeyOf(t, MatchOf(name, e, i)) : i \in 2 .. n}  OBVIOUS
  <2>. QED  BY <1>2, <2>1
<1>5. ASSUME NEW k \in {name[i] : i \in 2 .. n} PROVE V(k) = f[k]
  <2>. DEFINE I == {i \in 2 .. n : name[i] = k}
  <2>1. I \in SUBSET (0 .. n) /\ I # {}  BY <1>1
  <2>2. PICK i \in I : \A j \in I : j <= i
    <3>. HIDE DEF I
    <3>. QED  BY <1>1, <2>1, GreatestExists
  <2>3. i \in 2 .. n /\ name[i] = k  OBVIOUS
  <2>4. \A j \in i + 1 .. n : name[j] # name[i]
    <3>1. \A j \in i + 1 .. n : j \in 2 .. n /\ ~ (j <= i)  BY <1>1, <2>3
    <3>. QED  BY <2>2, <2>3, <3>1
  <2>5. f[k] = value[i]  BY <2>3, <2>4 DEF LastWins
  <2>. DEFINE Ok(m) == KeyOf(t, m) = k /\ \A other \in ms : KeyOf(t, other) = k => other.at <= m.at
              l == LastMatch(t, ms, k)
  <2>6. ASSUME NEW j \in 2 .. n, name[j] = k PROVE at(j) <= at(i)
    <3>1. j \in I  BY <2>6
    <3>2. j <= i  BY <2>2, <3>1
    <3>3. j = i \/ j < i  BY <2>3, <3>2
    <3>4. at(i) \in Nat /\ at(j) \in Nat  BY <1>2, <2>3
    <3>5. j < i => at(j) < at(i)  BY <1>3, <2>3
    <3>. QED  BY <3>3, <3>4, <3>5
  <2>7. Ok(MatchOf(name, e, i))
    <3>1. ASSUME NEW other \in ms, KeyOf(t, other) = k PROVE other.at <= MatchOf(name, e, i).at
      <4>1. PICK j \in 2 .. n : other = MatchOf(name, e, j)  OBVIOUS
      <4>2. name[j] = k /\ other.at = at(j)  BY <1>2, <3>1, <4>1
      <4>3. MatchOf(name, e, i).at = at(i)  BY <1>2, <2>3
      <4>. QED  BY <2>6, <4>2, <4>3
    <3>2. KeyOf(t, MatchOf(name, e, i)) = k  BY <1>2, <2>3
    <3>. QED  BY <3>1, <3>2
  <2>8. MatchOf(name, e, i) \in ms  BY <1>2, <2>3
  <2>. HIDE DEF ms
  <2>9. l \in ms /\ Ok(l)
    <3>1. l = CHOOSE m \in ms : Ok(m)  BY DEF LastMatch
    <3>. HIDE DEF l, Ok
    <3>. QED  BY <2>7, <2>8, <3>1
  <2>. HIDE DEF l
  <2>10. PICK j \in 2 .. n : l = MatchOf(name, e, j)  BY <2>9 DEF ms
  <2>11. name[j] = k /\ l.at = at(j)  BY <1>2, <2>9, <2>10
  <2>12. at(i) <= at(j)
    <3>1. MatchOf(name, e, i) \in ms /\ KeyOf(t, MatchOf(name, e, i)) = k
          /\ MatchOf(name, e, i).at = at(i)
      BY <1>2, <2>3, <2>8
    <3>. QED  BY <2>9, <2>11, <3>1
  <2>13. j = i
    <3>1. j \in I  BY <2>11
    <3>2. j <= i  BY <2>2, <3>1
    <3>3. j < i => at(j) < at(i)  BY <1>3, <2>3
    <3>4. at(i) \in Nat /\ at(j) \in Nat  BY <1>2, <2>3
    <3>5. ~ (j < i)  BY <2>12, <3>3, <3>4
    <3>. QED  BY <2>3, <3>2, <3>5
  <2>14. SubSeq(t, l.at + 1, l.to) = value[i]  BY <1>2, <2>10, <2>13
  <2>. QED  BY <2>5, <2>14 DEF l
<1>. DEFINE K == {name[i] : i \in 2 .. n}
<1>6. Filled(t, ms) = [k \in K |-> V(k)]
  <2>. HIDE DEF ms
  <2>1. Filled(t, ms) = [k \in {KeyOf(t, m) : m \in ms} |-> V(k)]  BY FilledIs
  <2>. QED  BY <1>4, <2>1
<1>. HIDE DEF V
<1>7. f = [k \in K |-> f[k]]  BY DEF LastWins
<1>8. Filled(t, ms) = f
  <2>. HIDE DEF ms, K
  <2>1. \A k \in K : V(k) = f[k]  BY <1>5 DEF K
  <2>. QED  BY <1>6, <1>7, <2>1
<1>. QED  BY <1>8 DEF t

-----------------------------------------------------------------------------
(* url.parse finds the parameters of url.create                            *)

\* The places Parameters looks at.
EqualsOf(t, r) == {p \in r[1] + 1 .. r[2] - 1 : t[p] = "="}

\* Parameters with names for its parts.
LEMMA ParametersAre ==
    ASSUME NEW t
    PROVE  Parameters(t) =
              {[from |-> r[1], at |-> Max(EqualsOf(t, r)), to |-> r[2]] :
                  r \in {x \in Stretches(t, {"?", "&"}) : EqualsOf(t, x) # {}}}
BY DEF Parameters, EqualsOf

\* A url as url.create writes it: no parameter before the mark.
UrlLines(S, s, parts, n, e, key, value) ==
    /\ LinesOf(S, s, parts, n, e, {"?", "&"}) /\ n >= 1
    /\ PairsOf(S, parts, n, key, value, "=", "&")
    /\ \A i \in 2 .. n : \A k \in 1 .. Len(value[i]) - 1 : value[i][k] # "="
    /\ \A j \in 1 .. Len(parts[1]) : parts[1][j] # "="

\* The last "=" of a line is the one behind its key.
LEMMA ParameterOfLine ==
    ASSUME NEW S, NEW s, NEW parts, NEW n, NEW e, NEW key, NEW value,
           UrlLines(S, s, parts, n, e, key, value), NEW i \in 2 .. n
    PROVE  /\ EqualsOf(Cut(s), RowOf(e, i)) # {}
           /\ Max(EqualsOf(Cut(s), RowOf(e, i))) = MarkAt(key, e, i)
<1>. DEFINE t == Cut(s)
            r == RowOf(e, i)
            a == e[i - 1]
            z == e[i]
            p == MarkAt(key, e, i)
            v == value[i]
            l == Len(v)
<1>1. LinesOf(S, s, parts, n, e, {"?", "&"}) /\ PairsOf(S, parts, n, key, value, "=", "&")
  BY DEF UrlLines
<1>2. PairFound(t, key, value, e, i, "=")  BY <1>1, PairAt
<1>3. \A k \in 1 .. l - 1 : v[k] # "="  BY DEF UrlLines
<1>4. r = <<a + 1, z - 1>>  BY DEF RowOf
<1>5. r[1] = a + 1 /\ r[2] = z - 1  BY <1>4
<1>6. a \in Nat /\ z \in Nat /\ p \in a + 2 .. z - 2 /\ z - 1 = p + l  BY <1>2 DEF PairFound
<1>7. t[p] = "="  BY <1>2 DEF PairFound
<1>15. l \in Nat
  <2>1. v \in Seq(S)  BY <1>1 DEF PairsOf
  <2>. QED  BY <2>1, LenProperties
<1>8. \A k \in p + 1 .. z - 1 : k - p \in 1 .. l /\ t[k] = v[k - p]  BY <1>2 DEF PairFound
<1>. HIDE DEF t, r, a, z, p, v, l
<1>9. EqualsOf(t, r) = {q \in a + 2 .. z - 2 : t[q] = "="}
  <2>1. r[1] + 1 .. r[2] - 1 = a + 2 .. z - 2  BY <1>5, <1>6
  <2>. QED  BY <2>1 DEF EqualsOf
<1>10. p \in EqualsOf(t, r)  BY <1>6, <1>7, <1>9
<1>11. \A k \in p + 1 .. z - 2 : t[k] # "="
  <2>1. \A k \in p + 1 .. z - 2 : k \in p + 1 .. z - 1 /\ k - p \in 1 .. l - 1
    BY <1>6, <1>15
  <2>. QED  BY <1>3, <1>8, <2>1
<1>12. \A q \in EqualsOf(t, r) : q <= p
  <2>. SUFFICES ASSUME NEW q \in EqualsOf(t, r) PROVE q <= p  OBVIOUS
  <2>1. q \in a + 2 .. z - 2  BY <1>9
  <2>2. t[q] = "="  BY <1>9
  <2>3. ~ (q \in p + 1 .. z - 2)  BY <1>11, <2>2
  <2>. QED  BY <1>6, <2>1, <2>3
<1>13. EqualsOf(t, r) \in SUBSET Nat
  <2>1. \A q \in a + 2 .. z - 2 : q \in Nat  BY <1>6
  <2>. QED  BY <1>9, <2>1
<1>14. Max(EqualsOf(t, r)) = p  BY <1>10, <1>12, <1>13, MaxIs
<1>. QED  BY <1>10, <1>14 DEF t, r, p

\* The parameters found in a url are those that were written, each once.
LEMMA ParametersOfLines ==
    ASSUME NEW S, NEW s, NEW parts, NEW n, NEW e, NEW key, NEW value,
           UrlLines(S, s, parts, n, e, key, value)
    PROVE  Parameters(Cut(s)) = {MatchOf(key, e, i) : i \in 2 .. n}
<1>. DEFINE t == Cut(s)
            M(r) == [from |-> r[1], at |-> Max(EqualsOf(t, r)), to |-> r[2]]
            R == {x \in Stretches(t, {"?", "&"}) : EqualsOf(t, x) # {}}
<1>0. LinesOf(S, s, parts, n, e, {"?", "&"}) /\ n >= 1  BY DEF UrlLines
<1>1. Stretches(t, {"?", "&"}) = {RowOf(e, i) : i \in 1 .. n}  BY <1>0, StretchesOfLines
<1>2. n \in Nat  BY DEF UrlLines, LinesOf, MadeOf
<1>3. EqualsOf(t, RowOf(e, 1)) = {}
  <2>1. \A j \in 1 .. Len(parts[1]) : parts[1][j] # "="  BY DEF UrlLines
  <2>2. /\ RowOf(e, 1)[1] = 1 /\ RowOf(e, 1)[2] = e[1] - 1 /\ e[1] \in Nat
        /\ \A k \in 1 .. e[1] - 1 : t[k] # "="
    <3>1. FirstRowWithout(t, e, "=")  BY <1>0, <2>1, FirstRow
    <3>. QED  BY <3>1 DEF FirstRowWithout
  <2>3. \A k \in 1 .. e[1] - 1 : t[k] # "="  BY <2>2
  <2>. DEFINE r == RowOf(e, 1)
              z == e[1]
  <2>. HIDE DEF r, z, t
  <2>4. \A q \in r[1] + 1 .. r[2] - 1 : q \in 1 .. z - 1
    <3>1. r[1] = 1 /\ r[2] = z - 1 /\ z \in Nat  BY <2>2 DEF r, z
    <3>. QED  BY <3>1
  <2>5. \A q \in r[1] + 1 .. r[2] - 1 : t[q] # "="  BY <2>3, <2>4 DEF z
  <2>6. EqualsOf(t, r) = {}  BY <2>5 DEF EqualsOf
  <2>. QED  BY <2>6 DEF r
<1>4. \A i \in 2 .. n : /\ EqualsOf(t, RowOf(e, i)) # {}
                        /\ Max(EqualsOf(t, RowOf(e, i))) = MarkAt(key, e, i)
  BY ParameterOfLine
<1>5. Parameters(t) = {M(r) : r \in R}  BY ParametersAre
<1>. HIDE DEF t
<1>6. ASSUME NEW i \in 2 .. n
      PROVE  RowOf(e, i) \in R /\ M(RowOf(e, i)) = MatchOf(key, e, i)
  <2>1. i \in 1 .. n  BY <1>2
  <2>2. RowOf(e, i) \in R  BY <1>1, <1>4, <2>1
  <2>3. RowOf(e, i)[1] = e[i - 1] + 1 /\ RowOf(e, i)[2] = e[i] - 1  BY DEF RowOf
  <2>. QED  BY <1>4, <2>2, <2>3 DEF MatchOf
<1>7. ASSUME NEW r \in R PROVE \E i \in 2 .. n : r = RowOf(e, i)
  <2>1. PICK i \in 1 .. n : r = RowOf(e, i)  BY <1>1
  <2>2. i # 1  BY <1>3, <2>1
  <2>3. i \in 2 .. n  BY <1>2, <2>2
  <2>. QED  BY <2>1, <2>3
<1>. HIDE DEF M, R
<1>8. \A f \in Parameters(t) : \E i \in 2 .. n : f = MatchOf(key, e, i)
  <2>. SUFFICES ASSUME NEW f \in Parameters(t) PROVE \E i \in 2 .. n : f = MatchOf(key, e, i)
    OBVIOUS
  <2>1. PICK r \in R : f = M(r)  BY <1>5
  <2>2. PICK i \in 2 .. n : r = RowOf(e, i)  BY <1>7
  <2>. QED  BY <1>6, <2>1, <2>2
<1>9. \A i \in 2 .. n : MatchOf(key, e, i) \in Parameters(t)  BY <1>5, <1>6
<1>10. Parameters(t) = {MatchOf(key, e, i) : i \in 2 .. n}  BY <1>8, <1>9
<1>. QED  BY <1>10 DEF t

-----------------------------------------------------------------------------
(* Tables written as lists of pairs                                        *)

\* An order of the names of a table has each of them once.
LEMMA OrderIs ==
    ASSUME NEW f, IsFiniteSet(DOMAIN f), NEW o \in Orders(f)
    PROVE  /\ Len(o) \in Nat /\ o \in [1 .. Len(o) -> DOMAIN f]
           /\ \A i, j \in 1 .. Len(o) : o[i] = o[j] => i = j
           /\ \A k \in DOMAIN f : \E i \in 1 .. Len(o) : o[i] = k
<1>. DEFINE D == DOMAIN f
            c == Cardinality(D)
<1>. HIDE DEF D
<1>1. c \in Nat /\ IsFiniteSet(D)  BY FS_CardinalityType DEF D
<1>2. o \in [1 .. c -> D] /\ \A i, j \in 1 .. c : i # j => o[i] # o[j]
  BY DEF Orders, SetToSeqs, D
<1>. HIDE DEF c
<1>3. Len(o) = c  BY <1>1, <1>2, SequenceOf
<1>4. o \in Injection(1 .. c, D)  BY <1>2 DEF Injection, IsInjective
<1>5. Cardinality(1 .. c) = c  BY <1>1, FS_Interval
<1>6. o \in Surjection(1 .. c, D)  BY <1>1, <1>4, <1>5, FS_Injection DEF c
<1>7. \A k \in D : \E i \in 1 .. c : o[i] = k  BY <1>6 DEF Surjection
<1>. QED  BY <1>1, <1>2, <1>3, <1>7 DEF D

\* text is made of k pairs of names and values.
Listed(S, text, k, name, value, mark, sep) ==
    /\ \E e : MadeOf(S, text, [i \in 1 .. k |-> Pair(name[i], mark, value[i], sep)], k, e)
    /\ mark \in S /\ sep \in S
    /\ \A i \in 1 .. k :
          /\ name[i] \in Seq(S) /\ name[i] # <<>>
          /\ value[i] \in Seq(S) /\ value[i] # <<>>

\* The table of k names and values in which the last value of a name wins.
Gives(f, k, name, value) ==
    /\ f = [x \in DOMAIN f |-> f[x]]
    /\ DOMAIN f = {name[i] : i \in 1 .. k}
    /\ \A i \in 1 .. k : (\A j \in i + 1 .. k : name[j] # name[i]) => f[name[i]] = value[i]

\* What is written for f in the order o.
Written(f, o, mark, sep) ==
    FlattenSeq([n \in 1 .. Len(o) |-> Pair(o[n], mark, f[o[n]], sep)])

\* A table of texts.
TextTable(S, f) ==
    /\ f \in [DOMAIN f -> Seq(S)] /\ IsFiniteSet(DOMAIN f)
    /\ \A k \in DOMAIN f : k \in Seq(S) /\ k # <<>> /\ f[k] # <<>>

\* A table written in any order is a list of its pairs.
LEMMA TableListed ==
    ASSUME NEW S, NEW f, TextTable(S, f), NEW o \in Orders(f), NEW mark \in S, NEW sep \in S
    PROVE  /\ Listed(S, Written(f, o, mark, sep), Len(o), o, [i \in 1 .. Len(o) |-> f[o[i]]], mark, sep)
           /\ Gives(f, Len(o), o, [i \in 1 .. Len(o) |-> f[o[i]]])
           /\ Len(o) \in Nat
<1>. DEFINE k == Len(o)
            value == [i \in 1 .. k |-> f[o[i]]]
            parts == [i \in 1 .. k |-> Pair(o[i], mark, f[o[i]], sep)]
<1>1. /\ k \in Nat /\ o \in [1 .. k -> DOMAIN f]
      /\ \A i, j \in 1 .. k : o[i] = o[j] => i = j
      /\ \A x \in DOMAIN f : \E i \in 1 .. k : o[i] = x
  BY OrderIs DEF TextTable
<1>. HIDE DEF k
<1>2. \A i \in 1 .. k : /\ o[i] \in Seq(S) /\ o[i] # <<>>
                        /\ f[o[i]] \in Seq(S) /\ f[o[i]] # <<>>
  BY <1>1 DEF TextTable
<1>3. \A i \in 1 .. k : Pair(o[i], mark, f[o[i]], sep) \in Seq(S)  BY <1>2, PairIs
<1>4. parts \in [1 .. k -> Seq(S)]  BY <1>3
<1>5. parts = [i \in 1 .. k |-> Pair(o[i], mark, value[i], sep)]
  <2>1. \A i \in 1 .. k : value[i] = f[o[i]]  OBVIOUS
  <2>. HIDE DEF value
  <2>. QED  BY <2>1
<1>6. \E e : MadeOf(S, FlattenSeq(parts), parts, k, e)
  <2>. HIDE DEF parts
  <2>. QED  BY <1>1, <1>4, Flattened
<1>7. Listed(S, FlattenSeq(parts), k, o, value, mark, sep)
  <2>1. \A i \in 1 .. k : value[i] = f[o[i]]  OBVIOUS
  <2>. HIDE DEF parts, value
  <2>. QED  BY <1>2, <1>5, <1>6, <2>1 DEF Listed
<1>8. Gives(f, k, o, value)
  <2>1. DOMAIN f = {o[i] : i \in 1 .. k}  BY <1>1
  <2>2. f = [x \in DOMAIN f |-> f[x]]  BY DEF TextTable
  <2>3. \A i \in 1 .. k : f[o[i]] = value[i]  OBVIOUS
  <2>. QED  BY <2>1, <2>2, <2>3 DEF Gives
<1>. QED  BY <1>1, <1>7, <1>8 DEF Written, k

\* One more, behind k of them.
Added(name, k, x) == [i \in 1 .. k + 1 |-> IF i <= k THEN name[i] ELSE x]

\* A pair more, whose value is the one that counts.
LEMMA ListedMore ==
    ASSUME NEW S, NEW text, NEW k \in Nat, NEW name, NEW value, NEW mark, NEW sep,
           Listed(S, text, k, name, value, mark, sep), NEW f, Gives(f, k, name, value),
           NEW x \in Seq(S), x # <<>>, NEW v \in Seq(S), v # <<>>
    PROVE  /\ Listed(S, Join(text, Pair(x, mark, v, sep)), k + 1, Added(name, k, x),
                     Added(value, k, v), mark, sep)
           /\ Gives(Assigned(f, Entry(x, v)), k + 1, Added(name, k, x), Added(value, k, v))
<1>. DEFINE nm == Added(name, k, x)
            vl == Added(value, k, v)
            parts == [i \in 1 .. k |-> Pair(name[i], mark, value[i], sep)]
            more == [i \in 1 .. k + 1 |-> Pair(nm[i], mark, vl[i], sep)]
            p == Pair(x, mark, v, sep)
            g == Assigned(f, Entry(x, v))
<1>1. /\ \A i \in 1 .. k : nm[i] = name[i] /\ vl[i] = value[i]
      /\ nm[k + 1] = x /\ vl[k + 1] = v
  BY DEF Added
<1>2. mark \in S /\ sep \in S  BY DEF Listed
<1>3. \A i \in 1 .. k : /\ name[i] \in Seq(S) /\ name[i] # <<>>
                        /\ value[i] \in Seq(S) /\ value[i] # <<>>
  BY DEF Listed
<1>4. \A i \in 1 .. k + 1 : i \in 1 .. k \/ i = k + 1  OBVIOUS
<1>5. \A i \in 1 .. k + 1 : /\ nm[i] \in Seq(S) /\ nm[i] # <<>>
                            /\ vl[i] \in Seq(S) /\ vl[i] # <<>>
  BY <1>1, <1>3, <1>4
<1>6. PICK e : MadeOf(S, text, parts, k, e)  BY DEF Listed
<1>7. p \in Seq(S)  BY <1>2, PairIs
<1>. HIDE DEF nm, vl
<1>8. \A i \in 1 .. k + 1 : more[i] \in Seq(S)  BY <1>2, <1>5, PairIs
<1>9. more \in [1 .. k + 1 -> Seq(S)]  BY <1>8
<1>10. \A i \in 1 .. k : more[i] = parts[i]  BY <1>1, <1>4
<1>11. more[k + 1] = p  BY <1>1
<1>12. \E d : MadeOf(S, Join(text, p), more, k + 1, d)
  <2>. HIDE DEF more, parts, p
  <2>. QED  BY <1>6, <1>7, <1>9, <1>10, <1>11, MadeOfMore
<1>13. Listed(S, Join(text, p), k + 1, nm, vl, mark, sep)
  BY <1>2, <1>5, <1>12 DEF Listed
<1>14. DOMAIN g = {x} \union DOMAIN f /\ g[x] = v /\ g = [y \in DOMAIN g |-> g[y]]
       /\ \A y \in DOMAIN f : y # x => g[y] = f[y]
  BY DEF Gives, Assigned, Entry
<1>. HIDE DEF g
<1>15. DOMAIN g = {nm[i] : i \in 1 .. k + 1}
  <2>. DEFINE N == {nm[i] : i \in 1 .. k + 1}
  <2>1. DOMAIN f = {name[i] : i \in 1 .. k} /\ DOMAIN g = {x} \union DOMAIN f
    BY <1>14 DEF Gives
  <2>2. k + 1 \in 1 .. k + 1 /\ \A i \in 1 .. k : i \in 1 .. k + 1  OBVIOUS
  <2>3. x \in N /\ \A i \in 1 .. k : name[i] \in N  BY <1>1, <2>2
  <2>4. \A i \in 1 .. k + 1 : nm[i] = x \/ nm[i] \in DOMAIN f  BY <1>1, <1>4, <2>1
  <2>5. DOMAIN g \subseteq N  BY <2>1, <2>3
  <2>6. N \subseteq DOMAIN g  BY <2>1, <2>4
  <2>. QED  BY <2>5, <2>6
<1>16. ASSUME NEW i \in 1 .. k + 1, \A j \in i + 1 .. k + 1 : nm[j] # nm[i]
       PROVE  g[nm[i]] = vl[i]
  <2>1. CASE i = k + 1  BY <1>1, <1>14, <2>1
  <2>2. CASE i \in 1 .. k
    <3>1. k + 1 \in i + 1 .. k + 1  BY <2>2
    <3>2. name[i] # x  BY <1>1, <1>16, <2>2, <3>1
    <3>3. \A j \in i + 1 .. k : name[j] # name[i]
      <4>1. \A j \in i + 1 .. k : j \in 1 .. k /\ j \in i + 1 .. k + 1  BY <2>2
      <4>. QED  BY <1>1, <1>16, <2>2, <4>1
    <3>4. f[name[i]] = value[i] /\ name[i] \in DOMAIN f  BY <2>2, <3>3 DEF Gives
    <3>. QED  BY <1>1, <1>14, <2>2, <3>2, <3>4
  <2>. QED  BY <1>4, <2>1, <2>2
<1>17. Gives(g, k + 1, nm, vl)  BY <1>14, <1>15, <1>16 DEF Gives
<1>. QED  BY <1>13, <1>17 DEF nm, vl, p, g

\* A table is empty when it has no name.
LEMMA EmptyTable ==
    ASSUME NEW f, f = [x \in DOMAIN f |-> f[x]]
    PROVE  f = <<>> <=> DOMAIN f = {}
<1>1. f = <<>> => DOMAIN f = {}  OBVIOUS
<1>2. ASSUME DOMAIN f = {} PROVE f = <<>>
  <2>1. f \in [1 .. 0 -> {}]  BY <1>2
  <2>2. f \in Seq({}) /\ Len(f) = 0  BY <2>1, SequenceOf
  <2>. QED  BY <2>2, EmptySeq
<1>. QED  BY <1>1, <1>2

-----------------------------------------------------------------------------
(* What was written is found                                               *)

\* A first part with pairs behind it.
Behind(first, k, name, mark, value, sep) ==
    [i \in 1 .. k + 1 |-> IF i = 1 THEN first ELSE Pair(name[i - 1], mark, value[i - 1], sep)]
Shifted(name, k) == [i \in 2 .. k + 1 |-> name[i - 1]]

\* Behind a first part the pairs are the parts from the second on.
LEMMA ListedBehind ==
    ASSUME NEW S, NEW text, NEW k \in Nat, NEW name, NEW value, NEW mark, NEW sep,
           Listed(S, text, k, name, value, mark, sep), NEW f, Gives(f, k, name, value),
           NEW first \in Seq(S)
    PROVE  /\ \E e : MadeOf(S, Join(first, text), Behind(first, k, name, mark, value, sep), k + 1, e)
           /\ PairsOf(S, Behind(first, k, name, mark, value, sep), k + 1,
                      Shifted(name, k), Shifted(value, k), mark, sep)
           /\ LastWins(f, k + 1, Shifted(name, k), Shifted(value, k))
<1>. DEFINE parts == [i \in 1 .. k |-> Pair(name[i], mark, value[i], sep)]
            more == Behind(first, k, name, mark, value, sep)
            nm == Shifted(name, k)
            vl == Shifted(value, k)
<1>1. mark \in S /\ sep \in S  BY DEF Listed
<1>2. \A i \in 1 .. k : /\ name[i] \in Seq(S) /\ name[i] # <<>>
                        /\ value[i] \in Seq(S) /\ value[i] # <<>>
  BY DEF Listed
<1>3. PICK e : MadeOf(S, text, parts, k, e)  BY DEF Listed
<1>4. \A i \in 1 .. k : Pair(name[i], mark, value[i], sep) \in Seq(S)  BY <1>1, <1>2, PairIs
<1>5. \A i \in 1 .. k + 1 : i = 1 \/ i - 1 \in 1 .. k  OBVIOUS
<1>6. more \in [1 .. k + 1 -> Seq(S)]
  <2>1. \A i \in 1 .. k + 1 :
           (IF i = 1 THEN first ELSE Pair(name[i - 1], mark, value[i - 1], sep)) \in Seq(S)
    BY <1>4, <1>5
  <2>. QED  BY <2>1 DEF Behind
<1>7. more[1] = first  BY DEF Behind
<1>8. \A i \in 1 .. k : more[i + 1] = parts[i]
  <2>1. \A i \in 1 .. k : i + 1 \in 1 .. k + 1 /\ i + 1 # 1 /\ (i + 1) - 1 = i  OBVIOUS
  <2>. QED  BY <2>1 DEF Behind
<1>9. \E d : MadeOf(S, Join(first, text), more, k + 1, d)
  <2>. HIDE DEF parts, more
  <2>1. first \in Seq(S)  OBVIOUS
  <2>. QED  BY <1>3, <1>6, <1>7, <1>8, <2>1, MadeOfFirst
<1>10. \A i \in 2 .. k + 1 : /\ i - 1 \in 1 .. k /\ nm[i] = name[i - 1] /\ vl[i] = value[i - 1]
                             /\ more[i] = Pair(name[i - 1], mark, value[i - 1], sep)
  <2>1. \A i \in 2 .. k + 1 : i - 1 \in 1 .. k /\ i # 1 /\ i \in 1 .. k + 1  OBVIOUS
  <2>. QED  BY <2>1 DEF Behind, Shifted
<1>. HIDE DEF more, nm, vl
<1>11. PairsOf(S, more, k + 1, nm, vl, mark, sep)  BY <1>1, <1>2, <1>10 DEF PairsOf
<1>12. \A i \in 1 .. k : i + 1 \in 2 .. k + 1 /\ nm[i + 1] = name[i]
  <2>1. \A i \in 1 .. k : i + 1 \in 2 .. k + 1 /\ (i + 1) - 1 = i  OBVIOUS
  <2>. QED  BY <1>10, <2>1
<1>13. DOMAIN f = {nm[i] : i \in 2 .. k + 1}
  <2>. DEFINE N == {nm[i] : i \in 2 .. k + 1}
  <2>1. DOMAIN f = {name[i] : i \in 1 .. k}  BY DEF Gives
  <2>2. DOMAIN f \subseteq N  BY <1>12, <2>1
  <2>3. N \subseteq DOMAIN f  BY <1>10, <2>1
  <2>. QED  BY <2>2, <2>3
<1>14. ASSUME NEW i \in 2 .. k + 1, \A j \in i + 1 .. k + 1 : nm[j] # nm[i]
       PROVE  f[nm[i]] = vl[i]
  <2>1. i - 1 \in 1 .. k /\ nm[i] = name[i - 1] /\ vl[i] = value[i - 1]  BY <1>10
  <2>2. \A j \in (i - 1) + 1 .. k : j + 1 \in i + 1 .. k + 1 /\ j \in 1 .. k  OBVIOUS
  <2>3. \A j \in (i - 1) + 1 .. k : name[j] # name[i - 1]  BY <1>12, <1>14, <2>1, <2>2
  <2>4. f[name[i - 1]] = value[i - 1]  BY <2>1, <2>3 DEF Gives
  <2>. QED  BY <2>1, <2>4
<1>15. LastWins(f, k + 1, nm, vl)  BY <1>13, <1>14 DEF LastWins, Gives
<1>. QED  BY <1>9, <1>11, <1>15 DEF more, nm, vl

\* p ends in the only token of it that is in D.
IsLine(p, D) ==
    Len(p) >= 2 /\ p[Len(p)] \in D /\ \A j \in 1 .. Len(p) - 1 : p[j] \notin D

\* A pair ends in its only separator.
LEMMA PairIsLine ==
    ASSUME NEW S, NEW name \in Seq(S), NEW mark \in S, NEW value \in Seq(S), NEW sep \in S,
           NEW D, sep \in D, mark \notin D,
           \A j \in 1 .. Len(name) : name[j] \notin D,
           \A j \in 1 .. Len(value) : value[j] \notin D
    PROVE  IsLine(Pair(name, mark, value, sep), D)
<1>. DEFINE p == Pair(name, mark, value, sep)
            x == Len(name)
            v == Len(value)
<1>1. IsPair(p, name, mark, value, sep)  BY PairIs
<1>2. x \in Nat /\ v \in Nat /\ Len(p) = x + v + 2  BY <1>1 DEF IsPair
<1>3. p[Len(p)] = sep  BY <1>1, <1>2 DEF IsPair
<1>4. (\A j \in 1 .. x : p[j] = name[j]) /\ p[x + 1] = mark
      /\ \A j \in 1 .. v : p[x + 1 + j] = value[j]
  BY <1>1 DEF IsPair
<1>. HIDE DEF p, x, v
<1>5. ASSUME NEW j \in 1 .. Len(p) - 1 PROVE p[j] \notin D
  <2>1. CASE j \in 1 .. x  BY <1>4, <2>1 DEF x
  <2>2. CASE j = x + 1  BY <1>4, <2>2
  <2>3. CASE j > x + 1
    <3>1. j - (x + 1) \in 1 .. v /\ x + 1 + (j - (x + 1)) = j  BY <1>2, <2>3
    <3>. DEFINE i == j - (x + 1)
    <3>. HIDE DEF i
    <3>2. i \in 1 .. v /\ x + 1 + i = j  BY <3>1 DEF i
    <3>3. p[j] = value[i]  BY <1>4, <3>2
    <3>. QED  BY <3>2, <3>3 DEF v
  <2>. QED  BY <1>2, <2>1, <2>2, <2>3
<1>6. Len(p) >= 2  BY <1>2
<1>. QED  BY <1>3, <1>5, <1>6 DEF IsLine, p

\* The token is not in s.
Without(s, token) == \A k \in 1 .. Len(s) : s[k] # token

\* A token in no part is not in the whole.
LEMMA MadeWithout ==
    ASSUME NEW S, NEW s, NEW parts, NEW n, NEW e, MadeOf(S, s, parts, n, e), NEW token,
           \A i \in 1 .. n : Without(parts[i], token)
    PROVE  Without(s, token)
<1>. SUFFICES ASSUME NEW p \in 1 .. Len(s) PROVE s[p] # token  BY DEF Without
<1>1. PICK i \in 1 .. n : p \in e[i - 1] + 1 .. e[i]  BY PartOf
<1>2. /\ e[i - 1] \in Nat /\ e[i] \in Nat /\ Len(parts[i]) \in Nat /\ e[i] = e[i - 1] + Len(parts[i])
      /\ \A j \in 1 .. Len(parts[i]) : s[e[i - 1] + j] = parts[i][j]
  BY PartAt
<1>. DEFINE a == e[i - 1]
            j == p - a
<1>3. j \in 1 .. Len(parts[i]) /\ a + j = p
  <2>. DEFINE z == e[i]
              l == Len(parts[i])
  <2>. HIDE DEF a, z, l
  <2>1. a \in Nat /\ z \in Nat /\ l \in Nat /\ z = a + l /\ p \in a + 1 .. z
    BY <1>1, <1>2 DEF a, z, l
  <2>2. j \in 1 .. l /\ a + j = p  BY <2>1
  <2>. QED  BY <2>2 DEF l
<1>. HIDE DEF j
<1>4. s[p] = parts[i][j]  BY <1>2, <1>3 DEF a
<1>. QED  BY <1>3, <1>4 DEF Without

\* A token in no part of a pair is not in the pair.
LEMMA PairWithout ==
    ASSUME NEW S, NEW name \in Seq(S), NEW mark \in S, NEW value \in Seq(S), NEW sep \in S,
           NEW token, mark # token, sep # token, Without(name, token), Without(value, token)
    PROVE  Without(Pair(name, mark, value, sep), token)
<1>. DEFINE p == Pair(name, mark, value, sep)
            x == Len(name)
            v == Len(value)
<1>1. IsPair(p, name, mark, value, sep)  BY PairIs
<1>2. x \in Nat /\ v \in Nat /\ Len(p) = x + v + 2  BY <1>1 DEF IsPair
<1>3. /\ \A j \in 1 .. x : p[j] = name[j]
      /\ p[x + 1] = mark
      /\ \A j \in 1 .. v : p[x + 1 + j] = value[j]
      /\ p[x + v + 2] = sep
  BY <1>1 DEF IsPair
<1>. HIDE DEF p, x, v
<1>4. ASSUME NEW j \in 1 .. Len(p) PROVE p[j] # token
  <2>1. CASE j \in 1 .. x  BY <1>3, <2>1 DEF x, Without
  <2>2. CASE j = x + 1  BY <1>3, <2>2
  <2>3. CASE j > x + 1 /\ j < x + v + 2
    <3>. DEFINE i == j - (x + 1)
    <3>2. i \in 1 .. v /\ x + 1 + i = j  BY <1>2, <2>3
    <3>. HIDE DEF i
    <3>3. p[j] = value[i]  BY <1>3, <3>2
    <3>. QED  BY <3>2, <3>3 DEF v, Without
  <2>4. CASE j = x + v + 2  BY <1>3, <2>4
  <2>. QED  BY <1>2, <2>1, <2>2, <2>3, <2>4
<1>. QED  BY <1>4 DEF Without, p

\* The marks of a head are no words and differ.
LEMMA MarksDiffer ==
    /\ ~ IsWord(CRLF) /\ ~ IsWord(Colon)
    /\ Colon # CRLF /\ Space # CRLF /\ Space # Colon
<1>1. ~ IsWord(CRLF) /\ ~ IsWord(Colon)  BY DEF IsWord, Marks
<1>2. Colon # CRLF /\ Space # CRLF /\ Space # Colon  BY Zenon DEF Colon, Space, CRLF
<1>. QED  BY <1>1, <1>2

\* Lines and an empty one are a head.
LEMMA LinesAreHead ==
    ASSUME NEW S, NEW s, NEW parts, NEW n, NEW e, LinesOf(S, s, parts, n, e, {CRLF}), n >= 1,
           CRLF \in S
    PROVE  IsHead(Join(s, <<CRLF>>))
<1>. DEFINE h == Join(s, <<CRLF>>)
            l == Len(s)
<1>1. n \in Nat /\ s \in Seq(S) /\ MadeOf(S, s, parts, n, e)  BY DEF LinesOf, MadeOf
<1>2. /\ Len(h) = l + 1 /\ l \in Nat
      /\ \A k \in 1 .. l : h[k] = s[k]
      /\ h[l + 1] = CRLF
  <2>. DEFINE c == <<CRLF>>
  <2>1. c \in Seq(S) /\ Len(c) = 1 /\ c[1] = CRLF /\ s \in Seq(S)  BY <1>1
  <2>. HIDE DEF c
  <2>2. Len(Join(s, c)) = Len(s) + Len(c) /\ Len(s) \in Nat  BY <2>1, JoinSize
  <2>3. \A k \in 1 .. Len(s) : Join(s, c)[k] = s[k]  BY <2>1, JoinFirst
  <2>6. c \in Seq(S) /\ s \in Seq(S)  BY <2>1
  <2>4. \A k \in 1 .. Len(c) : Join(s, c)[Len(s) + k] = c[k]  BY <2>6, JoinSecond
  <2>5. 1 \in 1 .. Len(c)  BY <2>1
  <2>. QED  BY <2>1, <2>2, <2>3, <2>4, <2>5 DEF c
<1>. HIDE DEF h, l
<1>3. l >= 2 /\ s[l] = CRLF
  <2>1. n \in 1 .. n  BY <1>1
  <2>2. e[n - 1] \in Nat /\ e[n] \in Nat /\ e[n - 1] + 2 <= e[n] /\ s[e[n]] \in {CRLF} /\ e[n] = l
    BY <2>1, LineAt DEF l
  <2>. QED  BY <2>2
<1>4. ASSUME NEW j \in 1 .. l - 1, s[j] = CRLF, s[j + 1] = CRLF PROVE FALSE
  <2>0. j \in 1 .. l /\ j + 1 \in 1 .. l  BY <1>2
  <2>1. PICK i \in 1 .. n : j \in e[i - 1] + 1 .. e[i]  BY <1>1, <2>0, PartOf DEF l
  <2>. DEFINE a == e[i - 1]
              z == e[i]
  <2>2. /\ a \in Nat /\ z \in Nat /\ a + 2 <= z
        /\ \A k \in a + 1 .. z - 1 : s[k] # CRLF
        /\ i = n => z = l
    <3>1. \A k \in e[i - 1] + 1 .. e[i] - 1 : s[k] \notin {CRLF}  BY LineAt
    <3>2. e[i - 1] \in Nat /\ e[i] \in Nat /\ e[i - 1] + 2 <= e[i] /\ (i = n => e[i] = l)
      BY LineAt DEF l
    <3>. QED  BY <3>1, <3>2
  <2>3. j = z
    <3>. HIDE DEF a, z
    <3>1. j \in a + 1 .. z  BY <2>1 DEF a, z
    <3>2. j \notin a + 1 .. z - 1  BY <1>4, <2>2
    <3>3. a \in Nat /\ z \in Nat  BY <2>2
    <3>. QED  BY <3>1, <3>2, <3>3
  <2>4. i # n  BY <1>2, <2>2, <2>3
  <2>5. i + 1 \in 1 .. n /\ (i + 1) - 1 = i  BY <1>1, <2>4
  <2>. DEFINE y == e[i + 1]
  <2>6. y \in Nat /\ z + 2 <= y /\ \A k \in z + 1 .. y - 1 : s[k] # CRLF
    <3>. DEFINE q == i + 1
    <3>. HIDE DEF q
    <3>0. q \in 1 .. n /\ q - 1 = i  BY <2>5 DEF q
    <3>1. \A k \in e[q - 1] + 1 .. e[q] - 1 : s[k] \notin {CRLF}  BY <3>0, LineAt
    <3>2. e[q] \in Nat /\ e[q - 1] + 2 <= e[q]  BY <3>0, LineAt
    <3>. QED  BY <3>0, <3>1, <3>2 DEF q
  <2>7. j + 1 \in z + 1 .. y - 1
    <3>. HIDE DEF z, y
    <3>1. z \in Nat /\ y \in Nat /\ z + 2 <= y  BY <2>2, <2>6
    <3>. QED  BY <2>3, <3>1
  <2>. QED  BY <1>4, <2>6, <2>7
<1>5. \A j \in 1 .. l - 1 : ~ Blank(h, j)
  <2>1. \A j \in 1 .. l - 1 : j \in 1 .. l /\ j + 1 \in 1 .. l  BY <1>2
  <2>. QED  BY <1>2, <1>4, <2>1 DEF Blank
<1>6. Blank(h, l)
  <2>1. l \in 1 .. l  BY <1>2, <1>3
  <2>. QED  BY <1>2, <1>3, <2>1 DEF Blank
<1>7. FindBlankLine(h) = l
  <2>1. Len(h) \in Nat /\ l \in 1 .. Len(h) - 1  BY <1>2, <1>3
  <2>. QED  BY <1>5, <1>6, <2>1, FindBlankLineIs
<1>8. Len(h) > 1 /\ Len(h) - 1 = l  BY <1>2, <1>3
<1>. QED  BY <1>7, <1>8 DEF IsHead, h

\* The fields of a table, behind a first line.
FieldsText(S, text, k, name, value, f) ==
    /\ k \in Nat
    /\ Listed(S, text, k, name, value, Colon, CRLF)
    /\ Gives(f, k, name, value)
    /\ \A i \in 1 .. k : \A j \in 1 .. Len(name[i]) : IsWord(name[i][j])
    /\ \A i \in 1 .. k : Without(value[i], CRLF)

\* full is a head, of which http.parse reads the fields of f.
HeadWithFields(full, f) ==
    /\ IsHead(Join(full, <<CRLF>>))
    /\ Filled(Cut(full), Fields(Cut(full))) = f

\* What http.create writes for a table http.parse reads as this table.
LEMMA FieldsAreRead ==
    ASSUME NEW S, NEW text, NEW k, NEW name, NEW value, NEW f,
           FieldsText(S, text, k, name, value, f), NEW first \in Seq(S),
           IsLine(first, {CRLF}), Without(first, Colon)
    PROVE  HeadWithFields(Join(first, text), f)
<1>. DEFINE full == Join(first, text)
            parts == Behind(first, k, name, Colon, value, CRLF)
            nm == Shifted(name, k)
            vl == Shifted(value, k)
            n == k + 1
<1>0. k \in Nat /\ n \in Nat /\ n >= 1  BY DEF FieldsText
<1>1. Listed(S, text, k, name, value, Colon, CRLF) /\ Gives(f, k, name, value)
  BY DEF FieldsText
<1>2. first \in Seq(S)  OBVIOUS
<1>3. /\ \E e : MadeOf(S, full, parts, n, e)
      /\ PairsOf(S, parts, n, nm, vl, Colon, CRLF)
      /\ LastWins(f, n, nm, vl)
  BY <1>0, <1>1, <1>2, ListedBehind
<1>4. PICK e : MadeOf(S, full, parts, n, e)  BY <1>3
<1>5. parts[1] = first  BY <1>0 DEF Behind
<1>6. \A i \in 2 .. n : /\ i - 1 \in 1 .. k /\ nm[i] = name[i - 1] /\ vl[i] = value[i - 1]
                        /\ parts[i] = Pair(name[i - 1], Colon, value[i - 1], CRLF)
  <2>1. \A i \in 2 .. n : i - 1 \in 1 .. k /\ i # 1 /\ i \in 1 .. k + 1  BY <1>0
  <2>. QED  BY <2>1 DEF Behind, Shifted
<1>. HIDE DEF parts, nm, vl, full, n
<1>7. Colon \in S /\ CRLF \in S  BY <1>1 DEF Listed
<1>8. ~ IsWord(CRLF) /\ Colon # CRLF  BY MarksDiffer
<1>9. \A i \in 1 .. n : IsLine(parts[i], {CRLF})
  <2>1. ASSUME NEW i \in 1 .. k PROVE IsLine(Pair(name[i], Colon, value[i], CRLF), {CRLF})
    <3>1. name[i] \in Seq(S) /\ value[i] \in Seq(S)  BY <1>1 DEF Listed
    <3>2. \A j \in 1 .. Len(name[i]) : name[i][j] \notin {CRLF}  BY <1>8 DEF FieldsText
    <3>3. \A j \in 1 .. Len(value[i]) : value[i][j] \notin {CRLF}  BY DEF FieldsText, Without
    <3>4. Colon \notin {CRLF} /\ CRLF \in {CRLF}  BY <1>8
    <3>. QED  BY <1>7, <3>1, <3>2, <3>3, <3>4, PairIsLine
  <2>2. \A i \in 1 .. n : i = 1 \/ i \in 2 .. n  BY <1>0
  <2>. QED  BY <1>5, <1>6, <2>1, <2>2
<1>10. LinesOf(S, full, parts, n, e, {CRLF})  BY <1>4, <1>9 DEF LinesOf, IsLine
<1>11. IsHead(Join(full, <<CRLF>>))  BY <1>0, <1>7, <1>10, LinesAreHead
<1>12. \A i \in 2 .. n : \A j \in 1 .. Len(nm[i]) : IsWord(nm[i][j])
  <2>1. \A i \in 1 .. k : \A j \in 1 .. Len(name[i]) : IsWord(name[i][j])  BY DEF FieldsText
  <2>. QED  BY <1>6, <2>1
<1>13. PairsOf(S, parts, n, nm, vl, Colon, CRLF) /\ LastWins(f, n, nm, vl)  BY <1>3
<1>14. FieldLines(S, full, parts, n, e, nm, vl)
  <2>1. \A j \in 1 .. Len(parts[1]) : parts[1][j] # Colon  BY <1>5 DEF Without
  <2>. QED  BY <1>0, <1>10, <1>12, <1>13, <2>1 DEF FieldLines
<1>15. Fields(Cut(full)) = {MatchOf(nm, e, i) : i \in 2 .. n}  BY <1>14, FieldsOfLines
<1>16. Filled(Cut(full), {MatchOf(nm, e, i) : i \in 2 .. n}) = f
  BY <1>10, <1>13, FilledFromPairs
<1>. QED  BY <1>11, <1>15, <1>16 DEF HeadWithFields, full

-----------------------------------------------------------------------------
(* Pieces and short sequences                                              *)

\* The piece of s that is t.
LEMMA SubSeqIs ==
    ASSUME NEW S, NEW s \in Seq(S), NEW t \in Seq(S), NEW a \in Nat, a >= 1,
           a + Len(t) - 1 <= Len(s), \A k \in 1 .. Len(t) : s[a + k - 1] = t[k]
    PROVE  SubSeq(s, a, a + Len(t) - 1) = t
<1>. DEFINE l == Len(t)
            b == a + l - 1
            u == SubSeq(s, a, b)
<1>1. l \in Nat /\ Len(s) \in Nat  BY LenProperties
<1>2. b \in Int /\ b - a + 1 = l /\ b <= Len(s)  BY <1>1
<1>3. \A k \in a .. b : s[k] \in S
  <2>1. \A k \in a .. b : k \in 1 .. Len(s)  BY <1>1, <1>2
  <2>. QED  BY <2>1, ElementOfSeq
<1>4. IF a <= b THEN b - a + 1 = l ELSE l = 0  BY <1>1, <1>2
<1>. HIDE DEF b
<1>5. /\ SubSeq(s, a, b) \in Seq(S)
      /\ Len(SubSeq(s, a, b)) = IF a <= b THEN b - a + 1 ELSE 0
      /\ \A j \in 1 .. b - a + 1 : SubSeq(s, a, b)[j] = s[a + j - 1]
  BY <1>2, <1>3, SubSeqProperties
<1>. HIDE DEF u, l
<1>6. u \in Seq(S) /\ Len(u) = l /\ \A j \in 1 .. l : u[j] = s[a + j - 1]
  BY <1>2, <1>4, <1>5 DEF u
<1>7. \A j \in 1 .. l : u[j] = t[j]  BY <1>6 DEF l
<1>8. u = t  BY <1>6, <1>7, SeqEqual DEF l
<1>. QED  BY <1>8 DEF u, b, l

\* The last token of a text is the last token of its second part.
LEMMA JoinCut ==
    ASSUME NEW S, NEW a \in Seq(S), NEW b \in Seq(S), Len(b) > 0
    PROVE  Join(a, Cut(b)) = Cut(Join(a, b))
<1>. DEFINE c == Cut(b)
            j == Join(a, b)
            x == Join(a, c)
            y == Cut(j)
<1>1. c \in Seq(S) /\ Len(c) = Len(b) - 1 /\ \A k \in 1 .. Len(b) - 1 : c[k] = b[k]
  BY CutIs
<1>. HIDE DEF c
<1>2. /\ j \in Seq(S) /\ Len(j) = Len(a) + Len(b) /\ Len(a) \in Nat /\ Len(b) \in Nat
      /\ \A k \in 1 .. Len(a) : j[k] = a[k]
      /\ \A k \in 1 .. Len(b) : j[Len(a) + k] = b[k]
  <2>1. j \in Seq(S) /\ Len(j) = Len(a) + Len(b) /\ Len(a) \in Nat /\ Len(b) \in Nat
    BY JoinSize
  <2>2. \A k \in 1 .. Len(a) : j[k] = a[k]  BY JoinFirst
  <2>3. \A k \in 1 .. Len(b) : j[Len(a) + k] = b[k]  BY JoinSecond
  <2>. QED  BY <2>1, <2>2, <2>3
<1>. HIDE DEF j
<1>3. y \in Seq(S) /\ Len(y) = Len(j) - 1 /\ \A k \in 1 .. Len(j) - 1 : y[k] = j[k]
  <2>1. j \in Seq(S) /\ Len(j) > 0  BY <1>2
  <2>. QED  BY <2>1, CutIs
<1>4. /\ x \in Seq(S) /\ Len(x) = Len(a) + Len(c)
      /\ \A k \in 1 .. Len(a) : x[k] = a[k]
      /\ \A k \in 1 .. Len(c) : x[Len(a) + k] = c[k]
  <2>0. a \in Seq(S) /\ c \in Seq(S)  BY <1>1
  <2>1. x \in Seq(S) /\ Len(x) = Len(a) + Len(c)  BY <2>0, JoinSize
  <2>2. \A k \in 1 .. Len(a) : x[k] = a[k]  BY <2>0, JoinFirst
  <2>3. \A k \in 1 .. Len(c) : x[Len(a) + k] = c[k]  BY <2>0, JoinSecond
  <2>. QED  BY <2>1, <2>2, <2>3
<1>. HIDE DEF x, y
<1>5. Len(x) = Len(y)  BY <1>1, <1>2, <1>3, <1>4
<1>6. ASSUME NEW k \in 1 .. Len(x) PROVE x[k] = y[k]
  <2>1. CASE k <= Len(a)
    <3>1. k \in 1 .. Len(a) /\ k \in 1 .. Len(j) - 1  BY <1>1, <1>2, <1>4, <2>1
    <3>. QED  BY <1>2, <1>3, <1>4, <3>1
  <2>2. CASE k > Len(a)
    <3>. DEFINE i == k - Len(a)
    <3>1. /\ i \in 1 .. Len(c) /\ i \in 1 .. Len(b) /\ i \in 1 .. Len(b) - 1
          /\ k = Len(a) + i /\ k \in 1 .. Len(j) - 1
      BY <1>1, <1>2, <1>4, <2>2
    <3>. HIDE DEF i
    <3>2. x[k] = b[i]  BY <1>1, <1>4, <3>1
    <3>3. y[k] = b[i]  BY <1>2, <1>3, <3>1
    <3>. QED  BY <3>2, <3>3
  <2>3. k \in Nat  OBVIOUS
  <2>. QED  BY <1>2, <2>1, <2>2, <2>3
<1>7. x = y  BY <1>3, <1>4, <1>5, <1>6, SeqEqual
<1>. QED  BY <1>7 DEF x, y, c, j

\* A token behind a sequence.
LEMMA JoinedOne ==
    ASSUME NEW S, NEW s \in Seq(S), NEW w \in S, NEW r \in Seq(S), Len(r) = Len(s) + 1,
           \A k \in 1 .. Len(s) : r[k] = s[k], r[Len(s) + 1] = w
    PROVE  s \o <<w>> = r
<1>. DEFINE c == <<w>>
            j == Join(s, c)
<1>1. c \in Seq(S) /\ Len(c) = 1 /\ c[1] = w  OBVIOUS
<1>. HIDE DEF c
<1>2. j \in Seq(S) /\ Len(j) = Len(s) + Len(c)  BY <1>1, JoinSize
<1>3. \A k \in 1 .. Len(s) : j[k] = s[k]  BY <1>1, JoinFirst
<1>4. \A k \in 1 .. Len(c) : j[Len(s) + k] = c[k]
  <2>0. s \in Seq(S) /\ c \in Seq(S)  BY <1>1
  <2>. QED  BY <2>0, JoinSecond
<1>5. j = s \o c  BY DEF Join
<1>. HIDE DEF j
<1>6. Len(s) \in Nat /\ 1 \in 1 .. Len(c)  BY <1>1
<1>7. j[Len(s) + 1] = w  BY <1>1, <1>4, <1>6
<1>8. \A k \in 1 .. Len(r) : j[k] = r[k]
  <2>1. \A k \in 1 .. Len(r) : k \in 1 .. Len(s) \/ k = Len(s) + 1  BY <1>6
  <2>. QED  BY <1>3, <1>7, <2>1
<1>9. Len(j) = Len(r)  BY <1>1, <1>2
<1>10. j = r  BY <1>2, <1>8, <1>9, SeqEqual
<1>. QED  BY <1>5, <1>10 DEF c

\* Two tokens.
LEMMA Joined1 ==
    ASSUME NEW a, NEW b
    PROVE  <<a>> \o <<b>> = <<a, b>>
<1>. DEFINE S == {a, b}
            s == <<a>>
            r == <<a, b>>
<1>1. s \in Seq(S) /\ Len(s) = 1 /\ s[1] = a /\ b \in S  OBVIOUS
<1>2. r \in Seq(S) /\ Len(r) = 2 /\ r[1] = a /\ r[2] = b  OBVIOUS
<1>. HIDE DEF S, s, r
<1>3. Len(r) = Len(s) + 1 /\ (\A k \in 1 .. Len(s) : k = 1) /\ Len(s) + 1 = 2  BY <1>1, <1>2
<1>4. \A k \in 1 .. Len(s) : r[k] = s[k]  BY <1>1, <1>2, <1>3
<1>5. r[Len(s) + 1] = b  BY <1>2, <1>3
<1>6. s \o <<b>> = r  BY <1>1, <1>2, <1>3, <1>4, <1>5, JoinedOne
<1>. QED  BY <1>6 DEF s, r

\* Three tokens.
LEMMA Joined2 ==
    ASSUME NEW a, NEW b, NEW c
    PROVE  <<a, b>> \o <<c>> = <<a, b, c>>
<1>. DEFINE S == {a, b, c}
            s == <<a, b>>
            r == <<a, b, c>>
<1>1. s \in Seq(S) /\ Len(s) = 2 /\ s[1] = a /\ s[2] = b /\ c \in S  OBVIOUS
<1>2. r \in Seq(S) /\ Len(r) = 3 /\ r[1] = a /\ r[2] = b /\ r[3] = c  OBVIOUS
<1>. HIDE DEF S, s, r
<1>3. Len(r) = Len(s) + 1 /\ (\A k \in 1 .. Len(s) : k = 1 \/ k = 2) /\ Len(s) + 1 = 3  BY <1>1, <1>2
<1>4. \A k \in 1 .. Len(s) : r[k] = s[k]  BY <1>1, <1>2, <1>3
<1>5. r[Len(s) + 1] = c  BY <1>2, <1>3
<1>6. s \o <<c>> = r  BY <1>1, <1>2, <1>3, <1>4, <1>5, JoinedOne
<1>. QED  BY <1>6 DEF s, r

\* Four tokens.
LEMMA Joined3 ==
    ASSUME NEW a, NEW b, NEW c, NEW d
    PROVE  <<a, b, c>> \o <<d>> = <<a, b, c, d>>
<1>. DEFINE S == {a, b, c, d}
            s == <<a, b, c>>
            r == <<a, b, c, d>>
<1>1. s \in Seq(S) /\ Len(s) = 3 /\ s[1] = a /\ s[2] = b /\ s[3] = c /\ d \in S  OBVIOUS
<1>2. r \in Seq(S) /\ Len(r) = 4 /\ r[1] = a /\ r[2] = b /\ r[3] = c /\ r[4] = d  OBVIOUS
<1>. HIDE DEF S, s, r
<1>3. Len(r) = Len(s) + 1 /\ (\A k \in 1 .. Len(s) : k = 1 \/ k = 2 \/ k = 3) /\ Len(s) + 1 = 4
  BY <1>1, <1>2
<1>4. \A k \in 1 .. Len(s) : r[k] = s[k]  BY <1>1, <1>2, <1>3
<1>5. r[Len(s) + 1] = d  BY <1>2, <1>3
<1>6. s \o <<d>> = r  BY <1>1, <1>2, <1>3, <1>4, <1>5, JoinedOne
<1>. QED  BY <1>6 DEF s, r

-----------------------------------------------------------------------------
(* Messages read in pieces                                                 *)

\* What has been read is a beginning of the stream.
LEMMA GotBegins == ASSUME IInv, lost = 0 PROVE Begins(got, stream)
<1>1. /\ got \in Seq(Tokens) /\ buffer \in Seq(Tokens) /\ socket \in Seq(Tokens)
      /\ unsent \in Seq(Tokens)
  BY Types DEF IInv
<1>2. Join(Join(Join(got, buffer), socket), unsent) = stream  BY Bytes DEF IInv
<1>. DEFINE ours == Join(got, buffer)
            come == Join(ours, socket)
<1>3. ours \in Seq(Tokens)  BY <1>1, JoinType
<1>4. Begins(got, ours)  BY <1>1, BeginsJoin
<1>. HIDE DEF ours
<1>5. come \in Seq(Tokens)  BY <1>1, <1>3, JoinType
<1>6. Begins(ours, come)  BY <1>1, <1>3, BeginsJoin
<1>. HIDE DEF come
<1>7. Begins(come, stream)
  <2>1. Begins(come, Join(come, unsent))  BY <1>1, <1>5, BeginsJoin
  <2>. QED  BY <1>2, <2>1 DEF come, ours
<1>8. stream \in Seq(Tokens)  BY Types DEF IInv
<1>9. Len(got) \in Nat /\ Len(ours) \in Nat /\ Len(come) \in Nat /\ Len(stream) \in Nat
  BY <1>1, <1>3, <1>5, <1>8, LenProperties
<1>10. Begins(got, come)  BY <1>4, <1>6, <1>9, BeginsBegins
<1>. QED  BY <1>7, <1>9, <1>10, BeginsBegins

\* The head of message m in stream s.
HeadOf(m, s) == SubSeq(s, 1, HeadEnd(m, s))

\* The whole head is parsed into the Answer to its message, and its url by url.parse.
HeadParses(m, s) ==
    /\ Len(Carried(m)) \in Nat
    /\ IsHead(HeadOf(m, s))
    /\ m.version \in Versions /\ Contains(HeadOf(m, s), m.version)
    /\ \/ m.version = "HTTP/1.0" /\ Contains(HeadOf(m, s), "HTTP/1.1")
       \/ HttpParse(HeadOf(m, s)) = Answer(m, <<>>)
    /\ m.msgtype = "REQUEST" => UrlParse(m.url) = UrlAnswer(m)

\* The expected answer to a request, field by field.
LEMMA AnswerToRequest ==
    ASSUME NEW m, NEW body, m.msgtype = "REQUEST"
    PROVE  Answer(m, body) =
              [is |-> "table", msgtype |-> "REQUEST", method |-> m.method, url |-> m.url,
               version |-> "HTTP/1.1", contents |-> Sent(m), body |-> body]
BY DEF Answer, Given, AsVersion11

\* The expected answer to a response with a field, field by field.
LEMMA AnswerToResponse ==
    ASSUME NEW m, NEW body, m.msgtype # "REQUEST", Sent(m) # <<>>
    PROVE  Answer(m, body) =
              [is |-> "table", msgtype |-> "RESPONSE", status |-> <<Space>> \o m.status,
               version |-> "HTTP/1.1", contents |-> Sent(m), body |-> body]
BY DEF Answer, Given, AsVersion11, WithSpace

\* The body goes into the expected answer as it is.
LEMMA AnswerWithBody ==
    ASSUME NEW m, NEW none, NEW body
    PROVE  Answer(m, body) = WithBody(Answer(m, none), body)
<1>1. CASE m.msgtype = "REQUEST"  BY <1>1, AnswerToRequest DEF WithBody
<1>2. CASE m.msgtype # "REQUEST" /\ Sent(m) = <<>>
  BY <1>2 DEF Answer, WithBody, LuaError
<1>3. CASE m.msgtype # "REQUEST" /\ Sent(m) # <<>>
  <2>. DEFINE status == <<Space>> \o m.status
  <2>1. \A b : Answer(m, b) =
           [is |-> "table", msgtype |-> "RESPONSE", status |-> status,
            version |-> "HTTP/1.1", contents |-> Sent(m), body |-> b]
    BY <1>3, AnswerToResponse
  <2>. HIDE DEF status
  <2>. QED  BY <2>1 DEF WithBody
<1>. QED  BY <1>1, <1>2, <1>3

\* A request of version 1.1 is expected to come back as it was given.
LEMMA RequestComesBack ==
    ASSUME NEW m, NEW body, m.msgtype = "REQUEST", m.version = "HTTP/1.1"
    PROVE  Answer(m, body) = Given(m, body)
BY AnswerToRequest DEF Given

\* If the whole head of a message is parsed as it should be, what has been read of
\* the message is parsed as it should be, at every cut.
THEOREM CutsDoNotMatter ==
    ASSUME NEW s \in Seq(Tokens), NEW data \in Seq(Tokens), Begins(data, s),
           NEW m, HeadParses(m, s), ~ (m.version = "HTTP/1.0" /\ Contains(data, "HTTP/1.1"))
    PROVE  HttpParse(data) =
              IF Len(data) >= HeadEnd(m, s)
              THEN Answer(m, SubSeq(data, HeadEnd(m, s) + 1, Len(data))) ELSE Nil
<1>. DEFINE h == HeadEnd(m, s)
            head == HeadOf(m, s)
<1>1. Len(s) \in Nat /\ Len(data) \in Nat /\ Len(Carried(m)) \in Nat
  BY LenProperties DEF HeadParses
<1>2. h \in Int /\ h <= Len(s)  BY <1>1 DEF HeadEnd
<1>3. IsHead(head)  BY DEF HeadParses
<1>4. h \in 0 .. Len(s)
  <2>1. CASE h < 1
    <3>1. head = <<>>  BY <1>2, <2>1, SubSeqEmpty DEF HeadOf
    <3>. QED  BY <3>1, <1>3, EmptySeq DEF IsHead
  <2>. QED  BY <1>2, <2>1
<1>5. head \in Seq(Tokens) /\ Len(head) = h /\ Begins(head, s)
  <2>. HIDE DEF h
  <2>1. head = SubSeq(s, 1, h)  BY DEF HeadOf, h
  <2>. QED  BY <1>4, <2>1, BeginningBegins
<1>6. CASE Len(data) < h
  <2>1. Begins(data, head)  BY <1>1, <1>5, <1>6 DEF Begins
  <2>. HIDE DEF head, h
  <2>2. HttpParse(data) = Nil  BY <1>1, <1>3, <1>4, <1>5, <1>6, <2>1, NothingBeforeTheHead
  <2>3. ~ (Len(data) >= h)  BY <1>1, <1>4, <1>6
  <2>. QED  BY <2>2, <2>3 DEF h
<1>7. CASE Len(data) >= h
  <2>1. Begins(head, data)  BY <1>1, <1>5, <1>7 DEF Begins
  <2>2. SettlesVersion(head, data)
    BY DEF HeadParses, Versions, SettlesVersion
  <2>3. ~ (m.version = "HTTP/1.0" /\ Contains(head, "HTTP/1.1"))
    <3>. HIDE DEF head
    <3>. QED  BY <1>1, <1>5, <2>1, NotFoundEarlier
  <2>4. HttpParse(head) = Answer(m, <<>>)  BY <2>3 DEF HeadParses
  <2>. HIDE DEF head, h
  <2>5. HttpParse(data) = WithBody(HttpParse(head), SubSeq(data, Len(head) + 1, Len(data)))
    BY <1>3, <1>5, <2>1, <2>2, HeadDecides
  <2>6. HttpParse(data) = Answer(m, SubSeq(data, h + 1, Len(data)))
    BY <1>5, <2>4, <2>5, AnswerWithBody
  <2>. QED  BY <1>7, <2>6 DEF h
<1>. QED  BY <1>1, <1>4, <1>6, <1>7

\* The head of every message is parsed into its Answer.
HeadsParse == \A s \in Streams : \A m \in MessagesOf[s] : HeadParses(m, s)

\* The stream is one the peer may have to say.
StreamInv == stream \in Streams

\* A stream is one of Streams and never changes.
LEMMA StreamStays ==
    /\ Init => StreamInv
    /\ StreamInv /\ [Next]_vars => StreamInv'
<1>1. Init => StreamInv  BY DEF Init, StreamInv
<1>2. Next => UNCHANGED stream
  BY DEF Next, ReadNext, ReadSome, ReadEnd, ReadNothing, ReadFails, Call, Leave, Ended,
         Send, vars
<1>3. StreamInv /\ [Next]_vars => StreamInv'  BY <1>2 DEF StreamInv, vars
<1>. QED  BY <1>1, <1>3

\* If every whole head is parsed as it should be, so is whatever has been read.
LEMMA ParsesAtEveryCut ==
    ASSUME HeadsParse, IInv, StreamInv PROVE ParsesWhatWasCreated
<1>. SUFFICES ASSUME lost = 0, NEW m \in MessagesOf[stream],
                     ~ (m.version = "HTTP/1.0" /\ Contains(got, "HTTP/1.1"))
              PROVE  /\ HttpParse(got) = Expected(m)
                     /\ m.msgtype = "REQUEST" /\ m.version = "HTTP/1.1" /\ HeadRead(m) =>
                           HttpParse(got) = Given(m, BodyRead(m))
                     /\ m.msgtype = "REQUEST" /\ HeadRead(m) =>
                           UrlParse(HttpParse(got).url) = UrlAnswer(m)
  BY DEF ParsesWhatWasCreated
<1>1. HeadParses(m, stream)  BY DEF HeadsParse, StreamInv
<1>2. got \in Seq(Tokens) /\ stream \in Seq(Tokens) /\ Begins(got, stream)
  BY Types, GotBegins DEF IInv
<1>3. HttpParse(got) =
         IF Len(got) >= HeadEnd(m, stream)
         THEN Answer(m, SubSeq(got, HeadEnd(m, stream) + 1, Len(got))) ELSE Nil
  BY <1>1, <1>2, CutsDoNotMatter
<1>4. HttpParse(got) = Expected(m)  BY <1>3 DEF Expected, HeadRead, BodyRead
<1>5. ASSUME m.msgtype = "REQUEST", HeadRead(m)
      PROVE  UrlParse(HttpParse(got).url) = UrlAnswer(m)
  <2>1. HttpParse(got) = Answer(m, SubSeq(got, HeadEnd(m, stream) + 1, Len(got)))
    BY <1>3, <1>5 DEF HeadRead
  <2>2. HttpParse(got).url = m.url  BY <1>5, <2>1, AnswerToRequest
  <2>. QED  BY <1>1, <1>5, <2>2 DEF HeadParses
<1>6. ASSUME m.msgtype = "REQUEST", m.version = "HTTP/1.1", HeadRead(m)
      PROVE  HttpParse(got) = Given(m, BodyRead(m))
  <2>1. HttpParse(got) = Answer(m, BodyRead(m))  BY <1>4, <1>6 DEF Expected
  <2>2. Answer(m, BodyRead(m)) = Given(m, BodyRead(m))  BY <1>6, RequestComesBack
  <2>. QED  BY <2>1, <2>2
<1>. QED  BY <1>4, <1>5, <1>6

-----------------------------------------------------------------------------
(* url.parse gives back what url.create was given                          *)

\* No token of D is in s.
NotAt(s, D) == \A k \in 1 .. Len(s) : s[k] \notin D

\* The parameters url.create is given.
Queried(S, q) ==
    /\ TextTable(S, q)
    /\ \A key \in DOMAIN q :
          /\ NotAt(key, {"?", "&"}) /\ NotAt(q[key], {"?", "&"})
          /\ \A k \in 1 .. Len(q[key]) - 1 : q[key][k] # "="

\* What stands before the parameters.
Base == <<"/index", "?">>

\* What url.create writes for a table url.parse reads as this table.
LEMMA ParametersRead ==
    ASSUME NEW S, {"/index", "?", "&", "="} \subseteq S, NEW q, Queried(S, q), NEW o \in Orders(q)
    PROVE  LET full == Join(Base, Written(q, o, "=", "&"))
           IN  Filled(Cut(full), Parameters(Cut(full))) = q
<1>. DEFINE text == Written(q, o, "=", "&")
            full == Join(Base, text)
            k == Len(o)
            value == [i \in 1 .. k |-> q[o[i]]]
            parts == Behind(Base, k, o, "=", value, "&")
            nm == Shifted(o, k)
            vl == Shifted(value, k)
            n == k + 1
<1>1. /\ "=" \in S /\ "&" \in S /\ "?" \in S /\ "/index" \in S
      /\ TextTable(S, q) /\ o \in Orders(q)
  BY DEF Queried
<1>2. Listed(S, text, k, o, value, "=", "&") /\ Gives(q, k, o, value) /\ k \in Nat
  BY <1>1, TableListed
<1>3. /\ Base \in Seq(S) /\ Len(Base) = 2 /\ Base[1] = "/index" /\ Base[2] = "?"
  BY <1>1 DEF Base
<1>4. \A i \in 1 .. k : value[i] = q[o[i]]  OBVIOUS
<1>5. \A i \in 1 .. k : o[i] \in DOMAIN q
  <2>1. o \in [1 .. k -> DOMAIN q]  BY <1>1, OrderIs DEF TextTable
  <2>. QED  BY <2>1
<1>. HIDE DEF text, k, value
<1>6. /\ \E e : MadeOf(S, full, parts, n, e)
      /\ PairsOf(S, parts, n, nm, vl, "=", "&")
      /\ LastWins(q, n, nm, vl)
  BY <1>2, <1>3, ListedBehind
<1>7. PICK e : MadeOf(S, full, parts, n, e)  BY <1>6
<1>8. parts[1] = Base /\ n \in Nat /\ n >= 1  BY <1>2 DEF Behind
<1>9. \A i \in 2 .. n : /\ i - 1 \in 1 .. k /\ nm[i] = o[i - 1] /\ vl[i] = value[i - 1]
                        /\ parts[i] = Pair(o[i - 1], "=", value[i - 1], "&")
  <2>1. \A i \in 2 .. n : i - 1 \in 1 .. k /\ i # 1 /\ i \in 1 .. k + 1  BY <1>2
  <2>. QED  BY <2>1 DEF Behind, Shifted
<1>10. \A i \in 1 .. n : i = 1 \/ i \in 2 .. n  BY <1>8
<1>. HIDE DEF parts, nm, vl, full, n
<1>11. ASSUME NEW i \in 1 .. k PROVE IsLine(Pair(o[i], "=", value[i], "&"), {"?", "&"})
  <2>1. o[i] \in Seq(S) /\ value[i] \in Seq(S)  BY <1>2 DEF Listed
  <2>2. \A j \in 1 .. Len(o[i]) : o[i][j] \notin {"?", "&"}  BY <1>5 DEF Queried, NotAt
  <2>3. \A j \in 1 .. Len(value[i]) : value[i][j] \notin {"?", "&"}
    BY <1>4, <1>5 DEF Queried, NotAt
  <2>4. "=" \notin {"?", "&"} /\ "&" \in {"?", "&"}  OBVIOUS
  <2>. QED  BY <1>1, <2>1, <2>2, <2>3, <2>4, PairIsLine
<1>12. IsLine(Base, {"?", "&"})
  <2>1. \A j \in 1 .. Len(Base) - 1 : j = 1  BY <1>3
  <2>. QED  BY <1>3, <2>1 DEF IsLine
<1>13. \A i \in 1 .. n : IsLine(parts[i], {"?", "&"})  BY <1>8, <1>9, <1>10, <1>11, <1>12
<1>14. LinesOf(S, full, parts, n, e, {"?", "&"})  BY <1>7, <1>13 DEF LinesOf, IsLine
<1>15. PairsOf(S, parts, n, nm, vl, "=", "&") /\ LastWins(q, n, nm, vl)  BY <1>6
<1>16. \A i \in 2 .. n : \A j \in 1 .. Len(vl[i]) - 1 : vl[i][j] # "="
  <2>1. \A i \in 1 .. k : \A j \in 1 .. Len(value[i]) - 1 : value[i][j] # "="
    BY <1>4, <1>5 DEF Queried
  <2>. QED  BY <1>9, <2>1
<1>17. \A j \in 1 .. Len(parts[1]) : parts[1][j] # "="
  <2>1. \A j \in 1 .. Len(Base) : j = 1 \/ j = 2  BY <1>3
  <2>2. "=" # "/index" /\ "=" # "?"  OBVIOUS
  <2>. QED  BY <1>3, <1>8, <2>1, <2>2
<1>18. UrlLines(S, full, parts, n, e, nm, vl)  BY <1>8, <1>14, <1>15, <1>16, <1>17 DEF UrlLines
<1>19. Parameters(Cut(full)) = {MatchOf(nm, e, i) : i \in 2 .. n}  BY <1>18, ParametersOfLines
<1>20. Filled(Cut(full), {MatchOf(nm, e, i) : i \in 2 .. n}) = q  BY <1>14, <1>15, FilledFromPairs
<1>. QED  BY <1>19, <1>20 DEF full, text

\* A table with entries is written as some text, one without as none.
LEMMA ListedLength ==
    ASSUME NEW S, NEW text, NEW k \in Nat, NEW name, NEW value, NEW mark, NEW sep,
           Listed(S, text, k, name, value, mark, sep), NEW f, Gives(f, k, name, value)
    PROVE  /\ text \in Seq(S) /\ Len(text) \in Nat
           /\ IF f = <<>> THEN Len(text) = 0 ELSE Len(text) > 0
<1>. DEFINE parts == [i \in 1 .. k |-> Pair(name[i], mark, value[i], sep)]
<1>1. PICK e : MadeOf(S, text, parts, k, e)  BY DEF Listed
<1>2. text \in Seq(S) /\ e[0] = 0 /\ e[k] = Len(text)  BY <1>1 DEF MadeOf
<1>3. Len(text) \in Nat  BY <1>2, LenProperties
<1>4. DOMAIN f = {name[i] : i \in 1 .. k} /\ (f = <<>> <=> DOMAIN f = {})
  BY EmptyTable DEF Gives
<1>5. CASE k = 0
  <2>1. f = <<>>  BY <1>4, <1>5
  <2>. QED  BY <1>2, <1>3, <1>5, <2>1
<1>6. CASE k # 0
  <2>1. k \in 1 .. k  BY <1>6
  <2>2. f # <<>>  BY <1>4, <2>1
  <2>3. Len(parts[k]) \in Nat /\ e[k - 1] \in Nat /\ e[k] \in Nat /\ e[k] = e[k - 1] + Len(parts[k])
    BY <1>1, <2>1, PartAt
  <2>4. parts[k] = Pair(name[k], mark, value[k], sep)  BY <2>1
  <2>5. IsPair(parts[k], name[k], mark, value[k], sep)
    <3>1. name[k] \in Seq(S) /\ value[k] \in Seq(S) /\ mark \in S /\ sep \in S
      BY <2>1 DEF Listed
    <3>. QED  BY <2>4, <3>1, PairIs
  <2>. DEFINE x == Len(name[k])
              v == Len(value[k])
              l == Len(parts[k])
              a == e[k - 1]
              z == e[k]
  <2>6. l = x + v + 2 /\ x \in Nat /\ v \in Nat  BY <2>5 DEF IsPair
  <2>7. a \in Nat /\ z = a + l  BY <2>3
  <2>. HIDE DEF x, v, l, a, z
  <2>8. z > 0  BY <2>6, <2>7
  <2>. QED  BY <1>2, <1>3, <2>2, <2>8 DEF z
<1>. QED  BY <1>2, <1>3, <1>5, <1>6

\* What is written for a table is text, and something if the table is not empty.
LEMMA WrittenIs ==
    ASSUME NEW S, NEW f, TextTable(S, f), NEW o \in Orders(f), NEW mark \in S, NEW sep \in S
    PROVE  /\ Written(f, o, mark, sep) \in Seq(S)
           /\ f # <<>> => Len(Written(f, o, mark, sep)) > 0
<1>1. /\ Listed(S, Written(f, o, mark, sep), Len(o), o, [i \in 1 .. Len(o) |-> f[o[i]]], mark, sep)
      /\ Gives(f, Len(o), o, [i \in 1 .. Len(o) |-> f[o[i]]])
      /\ Len(o) \in Nat
  BY TableListed
<1>. QED  BY <1>1, ListedLength

\* url.create cuts off the last separator.
LEMMA CreateIs ==
    \A q, o : UrlCreate(q, o) =
                 Sub(Written(q, o, "=", "&"), 1, Len(Written(q, o, "=", "&")) - 1)
BY DEF UrlCreate, Written, Pair

\* A url as http.create and url.parse get it.
LEMMA UrlIs ==
    ASSUME NEW S, {"/index", "?", "&", "="} \subseteq S, NEW q, Queried(S, q), NEW o \in Orders(q)
    PROVE  Url(q, o) = IF q = <<>> THEN <<"/index">>
                       ELSE Cut(Join(Base, Written(q, o, "=", "&")))
<1>. DEFINE text == Written(q, o, "=", "&")
<1>1. TextTable(S, q) /\ "=" \in S /\ "&" \in S  BY DEF Queried
<1>2. text \in Seq(S) /\ (q # <<>> => Len(text) > 0)  BY <1>1, WrittenIs
<1>3. Base \in Seq(S)  BY DEF Base
<1>4. UrlCreate(q, o) = Sub(text, 1, Len(text) - 1)  BY CreateIs
<1>. HIDE DEF text
<1>5. UrlCreate(q, o) = Cut(text)
  <2>1. Len(text) \in Nat  BY <1>2, LenProperties
  <2>2. Len(text) - 1 < Len(text)  BY <2>1
  <2>. QED  BY <1>4, <2>2 DEF Sub, Cut
<1>6. Url(q, o) = IF q = <<>> THEN <<"/index">> ELSE Join(Base, Cut(text))
  BY <1>5 DEF Url, Base, Join
<1>7. q # <<>> => Join(Base, Cut(text)) = Cut(Join(Base, text))  BY <1>2, <1>3, JoinCut
<1>. QED  BY <1>6, <1>7 DEF text

\* The first two tokens of a url with parameters.
LEMMA UrlBegins ==
    ASSUME NEW S, {"/index", "?", "&", "="} \subseteq S, NEW q, Queried(S, q), NEW o \in Orders(q),
           q # <<>>
    PROVE  /\ Url(q, o) \in Seq(S) /\ Len(Url(q, o)) \in Nat /\ Len(Url(q, o)) >= 2
           /\ Url(q, o)[1] = "/index" /\ Url(q, o)[2] = "?"
<1>. DEFINE text == Written(q, o, "=", "&")
            full == Join(Base, text)
            url == Cut(full)
<1>1. TextTable(S, q) /\ "=" \in S /\ "&" \in S  BY DEF Queried
<1>2. text \in Seq(S) /\ Len(text) > 0  BY <1>1, WrittenIs
<1>3. Base \in Seq(S) /\ Len(Base) = 2 /\ Base[1] = "/index" /\ Base[2] = "?"  BY DEF Base
<1>. HIDE DEF text
<1>4. /\ full \in Seq(S) /\ Len(full) = Len(Base) + Len(text) /\ Len(text) \in Nat
      /\ \A k \in 1 .. Len(Base) : full[k] = Base[k]
  <2>1. full \in Seq(S) /\ Len(full) = Len(Base) + Len(text) /\ Len(text) \in Nat
    BY <1>2, <1>3, JoinSize
  <2>0. Base \in Seq(S) /\ text \in Seq(S)  BY <1>2, <1>3
  <2>2. \A k \in 1 .. Len(Base) : full[k] = Base[k]  BY <2>0, JoinFirst
  <2>. QED  BY <2>1, <2>2
<1>. HIDE DEF full
<1>5. Len(full) >= 3 /\ Len(full) \in Nat  BY <1>2, <1>3, <1>4
<1>6. url \in Seq(S) /\ Len(url) = Len(full) - 1 /\ \A k \in 1 .. Len(full) - 1 : url[k] = full[k]
  <2>1. full \in Seq(S) /\ Len(full) > 0  BY <1>4, <1>5
  <2>. QED  BY <2>1, CutIs
<1>. HIDE DEF url
<1>7. 1 \in 1 .. Len(full) - 1 /\ 2 \in 1 .. Len(full) - 1 /\ Len(url) \in Nat /\ Len(url) >= 2
  BY <1>5, <1>6
<1>8. 1 \in 1 .. Len(Base) /\ 2 \in 1 .. Len(Base)  BY <1>3
<1>9. url[1] = "/index" /\ url[2] = "?"  BY <1>3, <1>4, <1>6, <1>7, <1>8
<1>10. Url(q, o) = url  BY UrlIs DEF url, full, text
<1>. QED  BY <1>6, <1>7, <1>9, <1>10

\* url.parse gives back what url.create was given, in whatever order it was written.
THEOREM UrlReadBack ==
    ASSUME NEW S, {"/index", "?", "&", "="} \subseteq S, NEW q, Queried(S, q), NEW o \in Orders(q)
    PROVE  UrlParse(Url(q, o)) =
              IF q = <<>> THEN Nil
              ELSE [is |-> "table", t |-> Assigned(Entry(<<"cmd">>, <<"/index">>), q)]
<1>. DEFINE url == Url(q, o)
<1>1. CASE q = <<>>
  <2>1. url = <<"/index">>  BY <1>1, UrlIs
  <2>2. Len(url) = 1 /\ url[1] = "/index"  BY <2>1
  <2>. HIDE DEF url
  <2>3. ~ Contains(url, "?")
    <3>1. \A i \in 1 .. Len(url) : i = 1  BY <2>2
    <3>. QED  BY <2>2, <3>1 DEF Contains
  <2>4. Len(url) \in Nat  BY <2>2
  <2>5. Find(url, "?") = 0  BY <2>3, <2>4, FindFinds
  <2>. QED  BY <1>1, <2>5 DEF UrlParse, url
<1>2. CASE q # <<>>
  <2>1. url \in Seq(S) /\ Len(url) \in Nat /\ Len(url) >= 2 /\ url[1] = "/index" /\ url[2] = "?"
    BY <1>2, UrlBegins
  <2>2. Filled(url, Parameters(url)) = q
    <3>1. url = Cut(Join(Base, Written(q, o, "=", "&")))  BY <1>2, UrlIs
    <3>. QED  BY <3>1, ParametersRead
  <2>. HIDE DEF url
  <2>3. Find(url, "?") = 2
    <3>1. 2 \in 1 .. Len(url) /\ \A j \in 1 .. 2 - 1 : j = 1  BY <2>1
    <3>2. \A j \in 1 .. 2 - 1 : url[j] # "?"  BY <2>1, <3>1
    <3>. QED  BY <2>1, <3>1, <3>2, FindIs
  <2>4. SubSeq(url, 1, 2 - 1) = <<"/index">>
    <3>. DEFINE t == <<"/index">>
    <3>1. t \in Seq(S) /\ Len(t) = 1 /\ t[1] = "/index"  OBVIOUS
    <3>. HIDE DEF t
    <3>2. 1 + Len(t) - 1 <= Len(url) /\ 1 + Len(t) - 1 = 2 - 1  BY <2>1, <3>1
    <3>3. \A k \in 1 .. Len(t) : k = 1 /\ 1 + k - 1 = 1  BY <3>1
    <3>4. \A k \in 1 .. Len(t) : url[1 + k - 1] = t[k]  BY <2>1, <3>1, <3>3
    <3>5. SubSeq(url, 1, 1 + Len(t) - 1) = t
      <4>. DEFINE a == 1
      <4>1. a \in Nat /\ a >= 1  OBVIOUS
      <4>. HIDE DEF a
      <4>2. t \in Seq(S) /\ url \in Seq(S)  BY <2>1, <3>1
      <4>3. a + Len(t) - 1 <= Len(url) /\ \A k \in 1 .. Len(t) : url[a + k - 1] = t[k]
        BY <3>2, <3>4 DEF a
      <4>4. SubSeq(url, a, a + Len(t) - 1) = t  BY <4>1, <4>2, <4>3, SubSeqIs
      <4>. QED  BY <4>4 DEF a
    <3>. QED  BY <3>2, <3>5 DEF t
  <2>5. UrlParse(url) = [is |-> "table", t |-> Assigned(Entry(<<"cmd">>, SubSeq(url, 1, 2 - 1)),
                                                        Filled(url, Parameters(url)))]
    BY <2>3 DEF UrlParse
  <2>. QED  BY <1>2, <2>2, <2>4, <2>5 DEF url
<1>. QED  BY <1>1, <1>2

\* A token of none of the parameters is not in the url.
LEMMA UrlWithout ==
    ASSUME NEW S, {"/index", "?", "&", "="} \subseteq S, NEW q, Queried(S, q), NEW o \in Orders(q),
           NEW token, token \notin {"/index", "?", "&", "="},
           \A key \in DOMAIN q : Without(key, token) /\ Without(q[key], token)
    PROVE  /\ Url(q, o) \in Seq(S) /\ Len(Url(q, o)) \in Nat /\ Len(Url(q, o)) >= 1
           /\ Without(Url(q, o), token)
<1>. DEFINE url == Url(q, o)
<1>1. CASE q = <<>>
  <2>1. url = <<"/index">>  BY <1>1, UrlIs
  <2>2. Len(url) = 1 /\ url[1] = "/index" /\ url \in Seq(S)  BY <2>1
  <2>. HIDE DEF url
  <2>3. \A i \in 1 .. Len(url) : i = 1  BY <2>2
  <2>4. Without(url, token)  BY <2>2, <2>3 DEF Without
  <2>5. Len(url) \in Nat /\ Len(url) >= 1  BY <2>2
  <2>. QED  BY <2>2, <2>4, <2>5 DEF url
<1>2. CASE q # <<>>
  <2>1. url \in Seq(S) /\ Len(url) \in Nat /\ Len(url) >= 2  BY <1>2, UrlBegins
  <2>. DEFINE text == Written(q, o, "=", "&")
              full == Join(Base, text)
              k == Len(o)
              value == [i \in 1 .. k |-> q[o[i]]]
              parts == Behind(Base, k, o, "=", value, "&")
              n == k + 1
  <2>2. url = Cut(full)  BY <1>2, UrlIs
  <2>3. TextTable(S, q) /\ o \in Orders(q) /\ "=" \in S /\ "&" \in S  BY DEF Queried
  <2>4. Listed(S, text, k, o, value, "=", "&") /\ Gives(q, k, o, value) /\ k \in Nat
    BY <2>3, TableListed
  <2>5. Base \in Seq(S) /\ Len(Base) = 2 /\ Base[1] = "/index" /\ Base[2] = "?"  BY DEF Base
  <2>6. \A i \in 1 .. k : o[i] \in DOMAIN q /\ value[i] = q[o[i]]
    <3>1. o \in [1 .. k -> DOMAIN q]  BY <2>3, OrderIs DEF TextTable
    <3>. QED  BY <3>1
  <2>. HIDE DEF text, k, value
  <2>7. PICK e : MadeOf(S, full, parts, n, e)  BY <2>4, <2>5, ListedBehind
  <2>8. \A i \in 1 .. k : Without(Pair(o[i], "=", value[i], "&"), token)
    <3>. SUFFICES ASSUME NEW i \in 1 .. k PROVE Without(Pair(o[i], "=", value[i], "&"), token)
      OBVIOUS
    <3>1. o[i] \in Seq(S) /\ value[i] \in Seq(S)  BY <2>4 DEF Listed
    <3>2. Without(o[i], token) /\ Without(value[i], token)  BY <2>6
    <3>. QED  BY <2>3, <3>1, <3>2, PairWithout
  <2>9. Without(Base, token)
    <3>1. \A i \in 1 .. Len(Base) : i = 1 \/ i = 2  BY <2>5
    <3>. QED  BY <2>5, <3>1 DEF Without
  <2>10. \A i \in 1 .. n : Without(parts[i], token)
    <3>1. \A i \in 1 .. n : i \in 1 .. k + 1 /\ (i = 1 \/ i - 1 \in 1 .. k)  BY <2>4
    <3>2. \A i \in 1 .. n :
             parts[i] = IF i = 1 THEN Base ELSE Pair(o[i - 1], "=", value[i - 1], "&")
      BY <3>1 DEF Behind
    <3>. QED  BY <2>8, <2>9, <3>1, <3>2
  <2>11. Without(full, token)
    <3>. HIDE DEF full, parts, n
    <3>. QED  BY <2>7, <2>10, MadeWithout
  <2>12. full \in Seq(S)  BY <2>7 DEF MadeOf
  <2>. HIDE DEF full, url
  <2>13. Len(full) > 0
    <3>1. Len(full) \in Nat  BY <2>12, LenProperties
    <3>2. CASE Len(full) = 0
      <4>1. full = <<>>  BY <2>12, <3>2, EmptySeq
      <4>2. url = SubSeq(full, 1, Len(full) - 1)  BY <2>2 DEF Cut
      <4>3. url = <<>>  BY <3>2, <4>1, <4>2, SubSeqEmpty
      <4>. QED  BY <2>1, <4>3, EmptySeq
    <3>. QED  BY <3>1, <3>2
  <2>14. Len(url) = Len(full) - 1 /\ Len(full) \in Nat /\ \A i \in 1 .. Len(full) - 1 : url[i] = full[i]
    BY <2>2, <2>12, <2>13, CutIs
  <2>15. \A i \in 1 .. Len(url) : i \in 1 .. Len(full) /\ i \in 1 .. Len(full) - 1  BY <2>14
  <2>16. Without(url, token)  BY <2>11, <2>14, <2>15 DEF Without
  <2>17. Len(url) >= 1  BY <2>1
  <2>. QED  BY <2>1, <2>16, <2>17 DEF url
<1>. QED  BY <1>1, <1>2

-----------------------------------------------------------------------------
(* What http.create writes                                                 *)

\* The first line http.create writes.
FirstLine(m) ==
    IF m.msgtype = "REQUEST" THEN m.method \o <<Space>> \o m.url \o <<Space, m.version, CRLF>>
    ELSE <<m.version, Space>> \o m.status \o <<CRLF>>

\* A message of texts, whose first line is one and not a field.
Wellformed(S, m) ==
    /\ m.msgtype \in {"REQUEST", "RESPONSE"}
    /\ {Colon, CRLF, "Content-Length"} \subseteq S
    /\ FirstLine(m) \in Seq(S) /\ IsLine(FirstLine(m), {CRLF}) /\ Without(FirstLine(m), Colon)
    /\ TextTable(S, m.contents)
    /\ \A name \in DOMAIN m.contents :
          /\ \A j \in 1 .. Len(name) : IsWord(name[j])
          /\ Without(m.contents[name], CRLF)
    /\ m.body # NoBody => /\ m.body \in Seq(S)
                          /\ ToString(Len(m.body)) \in S /\ ToString(Len(m.body)) # CRLF

\* The name http.create adds is a word.
LEMMA ContentLengthIsWord == IsWord("Content-Length")
BY Zenon DEF IsWord, Marks, Space, Colon, CRLF

\* The fields http.create writes, its own one last.
LEMMA FieldsWritten ==
    ASSUME NEW S, NEW m, Wellformed(S, m), NEW o \in Orders(m.contents)
    PROVE  /\ FieldsText(S, Written(m.contents, o, Colon, CRLF), Len(o), o,
                         [i \in 1 .. Len(o) |-> m.contents[o[i]]], m.contents)
           /\ Written(m.contents, o, Colon, CRLF) \in Seq(S)
<1>. DEFINE f == m.contents
            k == Len(o)
            value == [i \in 1 .. k |-> f[o[i]]]
            text == Written(f, o, Colon, CRLF)
<1>1. TextTable(S, f) /\ Colon \in S /\ CRLF \in S /\ o \in Orders(f)  BY DEF Wellformed
<1>. HIDE DEF f
<1>2. Listed(S, text, k, o, value, Colon, CRLF) /\ Gives(f, k, o, value) /\ k \in Nat
  BY <1>1, TableListed
<1>3. \A i \in 1 .. k : o[i] \in DOMAIN f /\ value[i] = f[o[i]]
  <2>1. o \in [1 .. k -> DOMAIN f]  BY <1>1, OrderIs DEF TextTable
  <2>. QED  BY <2>1
<1>4. text \in Seq(S)  BY <1>1, WrittenIs
<1>. HIDE DEF text, value, k
<1>5. \A i \in 1 .. k : /\ \A j \in 1 .. Len(o[i]) : IsWord(o[i][j])
                        /\ Without(value[i], CRLF)
  BY <1>3 DEF Wellformed, f
<1>6. FieldsText(S, text, k, o, value, f)  BY <1>2, <1>5 DEF FieldsText
<1>. QED  BY <1>4, <1>6 DEF text, value, k, f

\* The field http.create adds takes the place of one of the same name.
LEMMA OwnFieldWritten ==
    ASSUME NEW S, NEW text, NEW k, NEW name, NEW value, NEW f,
           FieldsText(S, text, k, name, value, f),
           NEW x \in Seq(S), x # <<>>, \A j \in 1 .. Len(x) : IsWord(x[j]),
           NEW v \in Seq(S), v # <<>>, Without(v, CRLF)
    PROVE  \E n, nm, vl :
              FieldsText(S, Join(text, Pair(x, Colon, v, CRLF)), n, nm, vl, Assigned(f, Entry(x, v)))
<1>. DEFINE n == k + 1
            nm == Added(name, k, x)
            vl == Added(value, k, v)
            t == Join(text, Pair(x, Colon, v, CRLF))
            g == Assigned(f, Entry(x, v))
<1>1. k \in Nat /\ Listed(S, text, k, name, value, Colon, CRLF) /\ Gives(f, k, name, value)
  BY DEF FieldsText
<1>2. Listed(S, t, n, nm, vl, Colon, CRLF) /\ Gives(g, n, nm, vl)  BY <1>1, ListedMore
<1>3. /\ \A i \in 1 .. k : nm[i] = name[i] /\ vl[i] = value[i]
      /\ nm[k + 1] = x /\ vl[k + 1] = v
  BY <1>1 DEF Added
<1>4. n \in Nat /\ \A i \in 1 .. n : i \in 1 .. k \/ i = k + 1  BY <1>1
<1>. HIDE DEF n, nm, vl, t, g
<1>5. \A i \in 1 .. k : /\ \A j \in 1 .. Len(name[i]) : IsWord(name[i][j])
                        /\ Without(value[i], CRLF)
  BY DEF FieldsText
<1>6. \A i \in 1 .. n : \A j \in 1 .. Len(nm[i]) : IsWord(nm[i][j])  BY <1>3, <1>4, <1>5
<1>7. \A i \in 1 .. n : Without(vl[i], CRLF)  BY <1>3, <1>4, <1>5
<1>8. FieldsText(S, t, n, nm, vl, g)  BY <1>2, <1>4, <1>6, <1>7 DEF FieldsText
<1>. QED  BY <1>8 DEF t, g

\* The message is its first line, its fields, an empty line and its body.
LEMMA MessageWritten ==
    ASSUME NEW S, NEW m, Wellformed(S, m), NEW o \in Orders(m.contents)
    PROVE  \E text, k, name, value :
              /\ FieldsText(S, text, k, name, value, Sent(m))
              /\ HttpCreate(m, o) = Join(Join(Join(FirstLine(m), text), <<CRLF>>), Carried(m))
<1>. DEFINE first == FirstLine(m)
            written == Written(m.contents, o, Colon, CRLF)
            c == <<CRLF>>
            own == <<"Content-Length">>
            v == <<ToString(Len(m.body))>>
            line == Pair(own, Colon, v, CRLF)
<1>1. first \in Seq(S) /\ c \in Seq(S) /\ CRLF \in S /\ Colon \in S  BY DEF Wellformed
<1>2. /\ FieldsText(S, written, Len(o), o, [i \in 1 .. Len(o) |-> m.contents[o[i]]], m.contents)
      /\ written \in Seq(S)
  BY FieldsWritten
<1>3. HttpCreate(m, o) = Join(Join(first, written),
                              IF m.body = NoBody THEN c ELSE Join(Join(line, c), m.body))
  <2>1. written = FlattenSeq([n \in 1 .. Len(o) |-> Line(o[n], m.contents[o[n]])])
    BY DEF Written, Pair, Line
  <2>2. line = Line(own, v)  BY DEF Pair, Line
  <2>. HIDE DEF written, line
  <2>. QED  BY <2>1, <2>2 DEF HttpCreate, Join, FirstLine, Wellformed
<1>. HIDE DEF first, written, c
<1>4. Join(first, written) \in Seq(S)  BY <1>1, <1>2, JoinType
<1>5. CASE m.body = NoBody
  <2>1. Sent(m) = m.contents /\ Carried(m) = <<>>  BY <1>5 DEF Sent, Carried
  <2>2. HttpCreate(m, o) = Join(Join(first, written), c)  BY <1>3, <1>5
  <2>3. Join(Join(first, written), c) \in Seq(S)  BY <1>1, <1>4, JoinType
  <2>4. HttpCreate(m, o) = Join(Join(Join(first, written), c), <<>>)  BY <2>2, <2>3, JoinEmpty
  <2>. QED  BY <1>2, <2>1, <2>4 DEF first, c
<1>6. CASE m.body # NoBody
  <2>1. /\ m.body \in Seq(S) /\ ToString(Len(m.body)) \in S /\ ToString(Len(m.body)) # CRLF
        /\ "Content-Length" \in S
    BY <1>6 DEF Wellformed
  <2>2. own \in Seq(S) /\ own # <<>> /\ Len(own) = 1 /\ own[1] = "Content-Length"  BY <2>1
  <2>3. v \in Seq(S) /\ v # <<>> /\ Len(v) = 1 /\ v[1] = ToString(Len(m.body))  BY <2>1
  <2>4. Sent(m) = Assigned(m.contents, Entry(own, v)) /\ Carried(m) = m.body
    BY <1>6 DEF Sent, Carried
  <2>. HIDE DEF own, v
  <2>5. \A j \in 1 .. Len(own) : IsWord(own[j])
    <3>1. \A j \in 1 .. Len(own) : j = 1  BY <2>2
    <3>. QED  BY <2>2, <3>1, ContentLengthIsWord
  <2>6. Without(v, CRLF)
    <3>1. \A j \in 1 .. Len(v) : j = 1  BY <2>3
    <3>. QED  BY <2>1, <2>3, <3>1 DEF Without
  <2>7. \E n, nm, vl : FieldsText(S, Join(written, line), n, nm, vl, Sent(m))
    BY <1>2, <2>2, <2>3, <2>4, <2>5, <2>6, OwnFieldWritten
  <2>8. line \in Seq(S)  BY <1>1, <2>2, <2>3, PairIs
  <2>. HIDE DEF line
  <2>9. HttpCreate(m, o) = Join(Join(first, written), Join(Join(line, c), m.body))  BY <1>3, <1>6
  <2>10. Join(line, c) \in Seq(S)  BY <1>1, <2>8, JoinType
  <2>11. HttpCreate(m, o) = Join(Join(Join(first, written), Join(line, c)), m.body)
    BY <1>4, <2>1, <2>9, <2>10, JoinAssociative
  <2>12. Join(Join(first, written), Join(line, c)) = Join(Join(Join(first, written), line), c)
    BY <1>1, <1>4, <2>8, JoinAssociative
  <2>13. Join(Join(first, written), line) = Join(first, Join(written, line))
    BY <1>1, <1>2, <2>8, JoinAssociative
  <2>14. HttpCreate(m, o) = Join(Join(Join(first, Join(written, line)), c), Carried(m))
    BY <2>4, <2>11, <2>12, <2>13
  <2>. QED  BY <2>7, <2>14 DEF first, c
<1>. QED  BY <1>5, <1>6

\* The head is full and an empty line.
HeadOfMessage(S, full, m, s) ==
    /\ full \in Seq(S) /\ Len(full) \in Nat /\ s \in Seq(S)
    /\ HeadOf(m, s) = Join(full, <<CRLF>>) /\ Len(Carried(m)) \in Nat
    /\ HeadWithFields(full, Sent(m))
    /\ Begins(FirstLine(m), full)
    /\ IF Sent(m) = <<>> THEN Len(full) = Len(FirstLine(m)) ELSE Len(full) > Len(FirstLine(m))

\* What http.create writes has a head, whose fields are those that were sent.
LEMMA HeadWritten ==
    ASSUME NEW S, NEW m, Wellformed(S, m), NEW o \in Orders(m.contents)
    PROVE  \E full : HeadOfMessage(S, full, m, HttpCreate(m, o))
<1>. DEFINE first == FirstLine(m)
            body == Carried(m)
            s == HttpCreate(m, o)
<1>1. PICK text, k, name, value :
         /\ FieldsText(S, text, k, name, value, Sent(m))
         /\ s = Join(Join(Join(first, text), <<CRLF>>), body)
  BY MessageWritten
<1>. DEFINE full == Join(first, text)
            head == Join(full, <<CRLF>>)
<1>2. /\ first \in Seq(S) /\ <<CRLF>> \in Seq(S)
      /\ IsLine(first, {CRLF}) /\ Without(first, Colon)
  BY DEF Wellformed
<1>3. body \in Seq(S)
  <2>1. CASE m.body = NoBody
    <3>1. body = <<>>  BY <2>1 DEF Carried
    <3>. QED  BY <3>1, EmptySeq
  <2>2. CASE m.body # NoBody  BY <2>2 DEF Carried, Wellformed
  <2>. QED  BY <2>1, <2>2
<1>. HIDE DEF first, body, s
<1>4. HeadWithFields(full, Sent(m))  BY <1>1, <1>2, FieldsAreRead
<1>5. text \in Seq(S) /\ Len(text) \in Nat /\ IF Sent(m) = <<>> THEN Len(text) = 0 ELSE Len(text) > 0
  <2>1. k \in Nat /\ Listed(S, text, k, name, value, Colon, CRLF) /\ Gives(Sent(m), k, name, value)
    BY <1>1 DEF FieldsText
  <2>. QED  BY <2>1, ListedLength
<1>6. full \in Seq(S) /\ Len(full) = Len(first) + Len(text)  BY <1>2, <1>5, JoinType
<1>7. Begins(first, full)  BY <1>2, <1>5, BeginsJoin
<1>. HIDE DEF full
<1>8. head \in Seq(S)  BY <1>2, <1>6, JoinType
<1>. HIDE DEF head
<1>9. s = Join(head, body)  BY <1>1 DEF head, full
<1>10. s \in Seq(S) /\ Len(s) = Len(head) + Len(body) /\ Begins(head, s)
  BY <1>3, <1>8, <1>9, JoinType, BeginsJoin
<1>11. Len(head) \in Nat /\ Len(body) \in Nat /\ Len(full) \in Nat /\ Len(first) \in Nat
  BY <1>2, <1>3, <1>6, <1>8, LenProperties
<1>12. HeadOf(m, s) = head
  <2>1. HeadEnd(m, s) = Len(head)
    <3>1. HeadEnd(m, s) = Len(s) - Len(body)  BY DEF HeadEnd, body
    <3>. QED  BY <1>10, <1>11, <3>1
  <2>2. Len(head) \in 0 .. Len(head)  BY <1>11
  <2>3. SubSeq(head, 1, Len(head)) = SubSeq(s, 1, Len(head))
    BY <1>8, <1>10, <2>2, SameBeginning
  <2>4. SubSeq(head, 1, Len(head)) = head
    <3>. DEFINE a == 1
    <3>1. a \in Nat /\ a >= 1 /\ a + Len(head) - 1 = Len(head)
          /\ \A i \in 1 .. Len(head) : a + i - 1 = i
      BY <1>11
    <3>2. a + Len(head) - 1 <= Len(head) /\ \A i \in 1 .. Len(head) : head[a + i - 1] = head[i]
      BY <1>11, <3>1
    <3>. HIDE DEF a
    <3>3. SubSeq(head, a, a + Len(head) - 1) = head  BY <1>8, <3>1, <3>2, SubSeqIs
    <3>4. SubSeq(head, a, Len(head)) = head  BY <3>1, <3>3
    <3>. QED  BY <3>4 DEF a
  <2>. QED  BY <2>1, <2>3, <2>4 DEF HeadOf
<1>13. IF Sent(m) = <<>> THEN Len(full) = Len(first) ELSE Len(full) > Len(first)
  BY <1>5, <1>6, <1>11
<1>14. HeadOfMessage(S, full, m, s)
  BY <1>4, <1>6, <1>7, <1>10, <1>11, <1>12, <1>13 DEF HeadOfMessage, head, first, body
<1>. QED  BY <1>14 DEF s

-----------------------------------------------------------------------------
(* http.parse and the heads http.create writes                             *)

\* A head is at least as long as its first line and begins with it.
HeadHas(S, full, first) ==
    /\ Cut(full) \in Seq(S) /\ Len(Cut(full)) = Len(full) - 1
    /\ Len(full) \in Nat /\ Len(full) >= Len(first) /\ Len(first) >= 2
    /\ \A k \in 1 .. Len(first) : full[k] = first[k]
    /\ \A k \in 1 .. Len(first) - 1 : Cut(full)[k] = first[k]

\* What stands in the beginning of the head stands in what http.parse looks at.
LEMMA MessageHead ==
    ASSUME NEW S, NEW full, NEW m, NEW s, HeadOfMessage(S, full, m, s), IsLine(FirstLine(m), {CRLF}),
           Len(FirstLine(m)) \in Nat
    PROVE  HeadHas(S, full, FirstLine(m))
<1>. DEFINE first == FirstLine(m)
            t == Cut(full)
            l == Len(full)
            n == Len(first)
<1>1. full \in Seq(S) /\ l \in Nat /\ n <= l /\ \A k \in 1 .. n : full[k] = first[k]
  BY DEF HeadOfMessage, Begins
<1>2. n >= 2 /\ n \in Nat  BY DEF IsLine
<1>. HIDE DEF first, n
<1>3. l > 0  BY <1>1, <1>2
<1>4. t \in Seq(S) /\ Len(t) = l - 1 /\ \A k \in 1 .. l - 1 : t[k] = full[k]  BY <1>1, <1>3, CutIs
<1>. HIDE DEF t, l
<1>5. \A k \in 1 .. n - 1 : k \in 1 .. l - 1 /\ k \in 1 .. n  BY <1>1, <1>2
<1>6. \A k \in 1 .. n - 1 : t[k] = first[k]  BY <1>1, <1>4, <1>5
<1>. QED  BY <1>1, <1>2, <1>4, <1>6 DEF HeadHas, t, l, n, first

\* http.parse takes the token at p for the version, or there is HTTP/1.1 in a head of version 1.0.
HeadParsed(full, m, s, p) ==
    /\ Contains(HeadOf(m, s), m.version)
    /\ \/ m.version = "HTTP/1.0" /\ Contains(HeadOf(m, s), "HTTP/1.1")
       \/ HttpParse(HeadOf(m, s)) = IF p = 1 THEN ResponseOf(Cut(full), <<>>)
                                    ELSE RequestOf(Cut(full), p, <<>>)

\* The version of a message is the first mark of a version, or HTTP/1.1 comes later.
LEMMA HeadIsParsed ==
    ASSUME NEW S, NEW full, NEW m, NEW s, HeadOfMessage(S, full, m, s), IsLine(FirstLine(m), {CRLF}),
           Len(FirstLine(m)) \in Nat, CRLF \in S,
           m.version \in Versions, NEW p \in 1 .. Len(FirstLine(m)), FirstLine(m)[p] = m.version,
           \A j \in 1 .. p - 1 : FirstLine(m)[j] \notin Versions
    PROVE  HeadParsed(full, m, s, p)
<1>. DEFINE first == FirstLine(m)
            n == Len(first)
            l == Len(full)
            c == <<CRLF>>
            head == Join(full, c)
<1>1. /\ Cut(full) \in Seq(S) /\ Len(Cut(full)) = l - 1 /\ l \in Nat /\ l >= n /\ n >= 2
      /\ \A k \in 1 .. n : full[k] = first[k]
  <2>1. HeadHas(S, full, FirstLine(m))  BY MessageHead
  <2>. QED  BY <2>1 DEF HeadHas
<1>2. full \in Seq(S) /\ HeadOf(m, s) = head /\ IsHead(head)
  BY DEF HeadOfMessage, HeadWithFields
<1>3. c \in Seq(S) /\ Len(c) = 1  OBVIOUS
<1>4. n \in Nat /\ p \in 1 .. n  OBVIOUS
<1>. HIDE DEF first, n, l, c
<1>5. /\ head \in Seq(S) /\ Len(head) = l + 1
      /\ \A k \in 1 .. l : head[k] = full[k]
  <2>0. full \in Seq(S) /\ c \in Seq(S)  BY <1>2, <1>3
  <2>1. head \in Seq(S) /\ Len(head) = Len(full) + Len(c)  BY <2>0, JoinSize
  <2>2. \A k \in 1 .. Len(full) : head[k] = full[k]  BY <2>0, JoinFirst
  <2>. QED  BY <1>3, <2>1, <2>2 DEF l
<1>. HIDE DEF head
<1>6. \A k \in 1 .. n : k \in 1 .. l /\ k \in 1 .. Len(head)  BY <1>1, <1>4, <1>5
<1>7. \A k \in 1 .. n : head[k] = first[k]  BY <1>1, <1>5, <1>6
<1>8. head[p] = m.version /\ p \in 1 .. Len(head) /\ Len(head) \in Nat
  BY <1>1, <1>4, <1>5, <1>6, <1>7 DEF first
<1>9. \A j \in 1 .. p - 1 : head[j] # "HTTP/1.1" /\ head[j] # "HTTP/1.0"
  <2>1. \A j \in 1 .. p - 1 : j \in 1 .. n  BY <1>4
  <2>2. \A j \in 1 .. p - 1 : head[j] \notin Versions  BY <1>7, <2>1 DEF first
  <2>. QED  BY <2>2 DEF Versions
<1>10. Contains(head, m.version)  BY <1>8 DEF Contains
<1>11. ASSUME ~ (m.version = "HTTP/1.0" /\ Contains(head, "HTTP/1.1")) PROVE VersionAt(head) = p
  <2>1. CASE m.version = "HTTP/1.1"
    <3>1. Find(head, "HTTP/1.1") = p  BY <1>8, <1>9, <2>1, FindIs
    <3>2. p # 0  BY <1>4
    <3>. QED  BY <3>1, <3>2 DEF VersionAt
  <2>2. CASE m.version = "HTTP/1.0"
    <3>1. Find(head, "HTTP/1.0") = p  BY <1>8, <1>9, <2>2, FindIs
    <3>2. Find(head, "HTTP/1.1") = 0  BY <1>8, <1>11, <2>2, FindFinds
    <3>. QED  BY <3>1, <3>2 DEF VersionAt
  <2>. QED  BY <2>1, <2>2 DEF Versions
<1>12. FindBlankLine(head) = l /\ l # 0  BY <1>1, <1>2, <1>5 DEF IsHead
<1>13. SubSeq(head, 1, l - 1) = Cut(full)
  <2>. DEFINE k == l - 1
  <2>1. k \in 0 .. Len(full) /\ Begins(full, head)
    BY <1>1, <1>5 DEF l, Begins
  <2>. HIDE DEF k
  <2>2. SubSeq(full, 1, k) = SubSeq(head, 1, k)  BY <1>2, <1>5, <2>1, SameBeginning
  <2>. QED  BY <2>2 DEF k, Cut, l
<1>14. BodyOf(head, l) = <<>>
  <2>. DEFINE a == l + 2
              b == l + 1
  <2>1. a \in Int /\ b \in Int /\ a > b  BY <1>1
  <2>. HIDE DEF a, b
  <2>2. SubSeq(head, a, b) = <<>>  BY <1>5, <2>1, SubSeqEmpty
  <2>. QED  BY <1>5, <2>2 DEF BodyOf, a, b
<1>15. ASSUME VersionAt(head) = p
       PROVE  HttpParse(head) = IF p = 1 THEN ResponseOf(Cut(full), <<>>)
                                ELSE RequestOf(Cut(full), p, <<>>)
  <2>1. p # 0  BY <1>4
  <2>. QED  BY <1>12, <1>13, <1>14, <1>15, <2>1, ParseIs
<1>. QED  BY <1>2, <1>10, <1>11, <1>15 DEF HeadParsed

\* The first line of a request, token by token.
RequestLine(line, url, version) ==
    LET u == Len(url)
    IN  /\ u \in Nat /\ u >= 1 /\ Len(line) = u + 5
        /\ line[1] = "GET" /\ line[2] = Space
        /\ \A k \in 1 .. u : line[2 + k] = url[k]
        /\ line[u + 3] = Space /\ line[u + 4] = version /\ line[u + 5] = CRLF

\* The first line of a request is made of its method, its url and its version.
LEMMA RequestLineIs ==
    ASSUME NEW S, NEW m, m.msgtype = "REQUEST", m.method = <<"GET">>, m.url \in Seq(S), Len(m.url) >= 1,
           {"GET", Space, CRLF} \subseteq S, m.version \in S
    PROVE  FirstLine(m) \in Seq(S) /\ RequestLine(FirstLine(m), m.url, m.version)
<1>. DEFINE url == m.url
            g == <<"GET">>
            w == <<Space>>
            a == Join(g, w)
            b == Join(a, url)
            c == <<Space, m.version, CRLF>>
            line == Join(b, c)
            u == Len(url)
<1>1. /\ g \in Seq(S) /\ Len(g) = 1 /\ g[1] = "GET"
      /\ w \in Seq(S) /\ Len(w) = 1 /\ w[1] = Space
      /\ c \in Seq(S) /\ Len(c) = 3 /\ c[1] = Space /\ c[2] = m.version /\ c[3] = CRLF
  OBVIOUS
<1>2. url \in Seq(S) /\ u >= 1 /\ u \in Nat  BY LenProperties
<1>3. FirstLine(m) = line  BY DEF FirstLine, Join
<1>. HIDE DEF g, w, c, url, u
<1>4. a \in Seq(S) /\ Len(a) = 2 /\ a[1] = "GET" /\ a[2] = Space
  <2>0. g \in Seq(S) /\ w \in Seq(S)  BY <1>1
  <2>1. a \in Seq(S) /\ Len(a) = Len(g) + Len(w)  BY <2>0, JoinSize
  <2>2. \A k \in 1 .. Len(g) : a[k] = g[k]  BY <2>0, JoinFirst
  <2>3. \A k \in 1 .. Len(w) : a[Len(g) + k] = w[k]  BY <2>0, JoinSecond
  <2>4. 1 \in 1 .. Len(g) /\ 1 \in 1 .. Len(w) /\ Len(g) + 1 = 2  BY <1>1
  <2>. QED  BY <1>1, <2>1, <2>2, <2>3, <2>4
<1>. HIDE DEF a
<1>5. b \in Seq(S) /\ Len(b) = u + 2 /\ b[1] = "GET" /\ b[2] = Space
      /\ \A k \in 1 .. u : b[2 + k] = url[k]
  <2>0. a \in Seq(S) /\ url \in Seq(S)  BY <1>2, <1>4
  <2>1. b \in Seq(S) /\ Len(b) = Len(a) + Len(url)  BY <2>0, JoinSize
  <2>2. \A k \in 1 .. Len(a) : b[k] = a[k]  BY <2>0, JoinFirst
  <2>3. \A k \in 1 .. Len(url) : b[Len(a) + k] = url[k]  BY <2>0, JoinSecond
  <2>4. 1 \in 1 .. Len(a) /\ 2 \in 1 .. Len(a) /\ Len(a) + Len(url) = u + 2  BY <1>2, <1>4 DEF u
  <2>. QED  BY <1>4, <2>1, <2>2, <2>3, <2>4 DEF u
<1>. HIDE DEF b
<1>6. line \in Seq(S) /\ Len(line) = u + 5
      /\ (\A k \in 1 .. u + 2 : line[k] = b[k])
      /\ line[u + 3] = Space /\ line[u + 4] = m.version /\ line[u + 5] = CRLF
  <2>0. b \in Seq(S) /\ c \in Seq(S)  BY <1>1, <1>5
  <2>1. line \in Seq(S) /\ Len(line) = Len(b) + Len(c)  BY <2>0, JoinSize
  <2>2. \A k \in 1 .. Len(b) : line[k] = b[k]  BY <2>0, JoinFirst
  <2>3. \A k \in 1 .. Len(c) : line[Len(b) + k] = c[k]  BY <2>0, JoinSecond
  <2>4. /\ 1 \in 1 .. Len(c) /\ 2 \in 1 .. Len(c) /\ 3 \in 1 .. Len(c)
        /\ Len(b) + 1 = u + 3 /\ Len(b) + 2 = u + 4 /\ Len(b) + 3 = u + 5
        /\ Len(b) + Len(c) = u + 5
    BY <1>1, <1>2, <1>5
  <2>. QED  BY <1>1, <1>5, <2>1, <2>2, <2>3, <2>4
<1>. HIDE DEF line
<1>7. line[1] = "GET" /\ line[2] = Space
  <2>1. 1 \in 1 .. u + 2 /\ 2 \in 1 .. u + 2  BY <1>2
  <2>. QED  BY <1>5, <1>6, <2>1
<1>8. \A k \in 1 .. u : line[2 + k] = url[k]
  <2>1. \A k \in 1 .. u : 2 + k \in 1 .. u + 2  BY <1>2
  <2>. QED  BY <1>5, <1>6, <2>1
<1>9. RequestLine(line, url, m.version)  BY <1>2, <1>6, <1>7, <1>8 DEF RequestLine, u
<1>. QED  BY <1>3, <1>6, <1>9 DEF url

\* The tokens of first lines differ from each other and from the marks.
LEMMA TokensDiffer ==
    /\ Versions = {"HTTP/1.0", "HTTP/1.1"}
    /\ "GET" \notin Versions /\ Space \notin Versions
    /\ \A v \in Versions : v # CRLF /\ v # Colon /\ v # Space
    /\ "GET" # CRLF /\ "GET" # Colon /\ "GET" # Space
    /\ "200" # CRLF /\ "200" # Colon
<1>1. Versions = {"HTTP/1.0", "HTTP/1.1"} /\ "GET" \notin Versions  BY DEF Versions
<1>2. Space \notin Versions  BY Zenon DEF Versions, Space
<1>3. \A v \in Versions : v # CRLF  BY DEF Versions, CRLF
<1>4. \A v \in Versions : v # Colon  BY Zenon DEF Versions, Colon
<1>5. \A v \in Versions : v # Space  BY Zenon DEF Versions, Space
<1>6. "GET" # CRLF /\ "GET" # Colon /\ "GET" # Space  BY Zenon DEF CRLF, Colon, Space
<1>7. "200" # CRLF /\ "200" # Colon  BY Zenon DEF CRLF, Colon
<1>. QED  BY <1>1, <1>2, <1>3, <1>4, <1>5, <1>6, <1>7

\* A url that fits between the other tokens of a request's first line.
FitsLine(url) == Without(url, CRLF) /\ Without(url, Colon) /\ NotAt(url, Versions)

\* The first line of a request is one line, without a field, whose version comes first.
LEMMA RequestLineFits ==
    ASSUME NEW line, NEW url, NEW version, RequestLine(line, url, version), FitsLine(url),
           version \in Versions
    PROVE  /\ IsLine(line, {CRLF}) /\ Without(line, Colon)
           /\ \A j \in 1 .. Len(url) + 3 : line[j] \notin Versions
<1>. DEFINE u == Len(url)
<1>1. u \in Nat /\ u >= 1 /\ Len(line) = u + 5  BY DEF RequestLine
<1>2. line[1] = "GET" /\ line[2] = Space /\ line[u + 3] = Space /\ line[u + 4] = version
      /\ line[u + 5] = CRLF
  BY DEF RequestLine
<1>3. \A k \in 1 .. u : line[2 + k] = url[k]  BY DEF RequestLine
<1>4. \A k \in 1 .. u : url[k] # CRLF /\ url[k] # Colon /\ url[k] \notin Versions
  BY DEF FitsLine, Without, NotAt
<1>. HIDE DEF u
<1>5. ASSUME NEW j \in 1 .. u + 5
      PROVE  j = 1 \/ j = 2 \/ (\E k \in 1 .. u : j = 2 + k) \/ j = u + 3 \/ j = u + 4 \/ j = u + 5
  <2>1. CASE j > 2 /\ j < u + 3
    <3>1. j - 2 \in 1 .. u /\ j = 2 + (j - 2)  BY <1>1, <2>1
    <3>. QED  BY <3>1
  <2>. QED  BY <1>1, <2>1
<1>6. CRLF # Colon /\ Space # CRLF /\ Space # Colon  BY MarksDiffer
<1>7. \A j \in 1 .. u + 5 : line[j] # Colon  BY <1>2, <1>3, <1>4, <1>5, <1>6, TokensDiffer
<1>8. \A j \in 1 .. u + 4 : line[j] # CRLF
  <2>1. \A j \in 1 .. u + 4 : j \in 1 .. u + 5 /\ j # u + 5  BY <1>1
  <2>. QED  BY <1>2, <1>3, <1>4, <1>5, <1>6, <2>1, TokensDiffer
<1>9. \A j \in 1 .. u + 3 : line[j] \notin Versions
  <2>1. \A j \in 1 .. u + 3 : j \in 1 .. u + 5 /\ j # u + 5 /\ j # u + 4  BY <1>1
  <2>. QED  BY <1>2, <1>3, <1>4, <1>5, <2>1, TokensDiffer
<1>10. IsLine(line, {CRLF})
  <2>1. Len(line) >= 2 /\ Len(line) - 1 = u + 4 /\ Len(line) = u + 5  BY <1>1
  <2>. QED  BY <1>2, <1>8, <2>1 DEF IsLine
<1>11. Without(line, Colon)  BY <1>1, <1>7 DEF Without
<1>. QED  BY <1>9, <1>10, <1>11 DEF u

\* The head is parsed as it should be, or there is HTTP/1.1 in a head of version 1.0.
HeadAnswered(m, s) ==
    /\ Contains(HeadOf(m, s), m.version)
    /\ \/ m.version = "HTTP/1.0" /\ Contains(HeadOf(m, s), "HTTP/1.1")
       \/ HttpParse(HeadOf(m, s)) = Answer(m, <<>>)

\* The head of a request is parsed into the Answer to the request.
LEMMA RequestParses ==
    ASSUME NEW S, NEW full, NEW m, NEW s, HeadOfMessage(S, full, m, s), CRLF \in S, "GET" \in S,
           m.msgtype = "REQUEST", m.method = <<"GET">>, m.version \in Versions,
           m.url \in Seq(S), RequestLine(FirstLine(m), m.url, m.version), FitsLine(m.url)
    PROVE  HeadAnswered(m, s)
<1>. DEFINE first == FirstLine(m)
            url == m.url
            u == Len(url)
            p == u + 4
            t == Cut(full)
<1>1. IsLine(first, {CRLF}) /\ \A j \in 1 .. u + 3 : first[j] \notin Versions
  BY RequestLineFits
<1>2. u \in Nat /\ u >= 1 /\ Len(first) = u + 5 /\ first[p] = m.version
  BY DEF RequestLine
<1>3. first[1] = "GET" /\ first[2] = Space /\ \A k \in 1 .. u : first[2 + k] = url[k]
  BY DEF RequestLine
<1>4. url \in Seq(S)  OBVIOUS
<1>. HIDE DEF first, url, u, p
<1>5. Len(first) \in Nat /\ p \in 1 .. Len(first) /\ p - 1 = u + 3 /\ p # 1 /\ p - 2 = u + 2
  BY <1>2 DEF p
<1>6. HeadParsed(full, m, s, p)
  <2>1. \A j \in 1 .. p - 1 : first[j] \notin Versions  BY <1>1, <1>5
  <2>. QED  BY <1>1, <1>2, <1>5, <2>1, HeadIsParsed DEF first
<1>7. HeadHas(S, full, first)  BY <1>1, <1>5, MessageHead DEF first
<1>8. t \in Seq(S) /\ Len(t) = Len(full) - 1 /\ Len(full) \in Nat /\ Len(full) >= Len(first)
      /\ \A k \in 1 .. Len(first) - 1 : t[k] = first[k]
  BY <1>7 DEF HeadHas
<1>9. Filled(t, Fields(t)) = Sent(m)  BY DEF HeadOfMessage, HeadWithFields
<1>. HIDE DEF t
<1>10. \A k \in 1 .. u + 4 : k \in 1 .. Len(t) /\ t[k] = first[k]
  <2>1. \A k \in 1 .. u + 4 : k \in 1 .. Len(first) - 1 /\ k \in 1 .. Len(t)  BY <1>2, <1>8
  <2>. QED  BY <1>8, <2>1
<1>11. Find(t, Space) = 2
  <2>1. 1 \in 1 .. u + 4 /\ 2 \in 1 .. u + 4 /\ Len(t) \in Nat /\ \A j \in 1 .. 2 - 1 : j = 1
    BY <1>2, <1>8
  <2>2. t[1] = "GET" /\ t[2] = Space /\ 2 \in 1 .. Len(t)  BY <1>3, <1>10, <2>1
  <2>3. \A j \in 1 .. 2 - 1 : t[j] # Space  BY <2>1, <2>2, TokensDiffer
  <2>. QED  BY <2>1, <2>2, <2>3, FindIs
<1>12. SubSeq(t, 1, 2 - 1) = <<"GET">>
  <2>. DEFINE a == 1
              g == <<"GET">>
  <2>1. g \in Seq(S) /\ Len(g) = 1 /\ g[1] = "GET"  OBVIOUS
  <2>. HIDE DEF g
  <2>2. a \in Nat /\ a >= 1 /\ a + Len(g) - 1 <= Len(t) /\ a + Len(g) - 1 = 2 - 1
        /\ 1 \in 1 .. u + 4 /\ \A k \in 1 .. Len(g) : k = 1 /\ a + k - 1 = 1
    BY <1>2, <1>8, <2>1
  <2>. HIDE DEF a
  <2>3. \A k \in 1 .. Len(g) : t[a + k - 1] = g[k]  BY <1>3, <1>10, <2>1, <2>2
  <2>4. SubSeq(t, a, a + Len(g) - 1) = g  BY <1>8, <2>1, <2>2, <2>3, SubSeqIs
  <2>5. SubSeq(t, a, 2 - 1) = g  BY <2>2, <2>4
  <2>. QED  BY <2>5 DEF a, g
<1>13. Sub(t, 2 + 1, p - 2) = url
  <2>. DEFINE a == 2 + 1
              b == p - 2
  <2>1. a \in Nat /\ a >= 1 /\ a + Len(url) - 1 <= Len(t) /\ a + Len(url) - 1 = b /\ b < Len(t)
        /\ \A k \in 1 .. u : a + k - 1 = 2 + k /\ 2 + k \in 1 .. u + 4
    BY <1>2, <1>5, <1>8 DEF u
  <2>. HIDE DEF a, b
  <2>2. \A k \in 1 .. Len(url) : t[a + k - 1] = url[k]  BY <1>3, <1>10, <2>1 DEF u
  <2>3. SubSeq(t, a, a + Len(url) - 1) = url  BY <1>4, <1>8, <2>1, <2>2, SubSeqIs
  <2>4. SubSeq(t, a, b) = url  BY <2>1, <2>3
  <2>. QED  BY <2>1, <2>4 DEF Sub, a, b
<1>14. RequestOf(t, p, <<>>) = Answer(m, <<>>)
  <2>. DEFINE g == <<"GET">>
  <2>1. "GET" \in Methods  BY DEF Methods
  <2>2. ~ \A x \in Methods : g # <<x>>  BY <2>1
  <2>3. m.method = g  OBVIOUS
  <2>4. SubSeq(t, 1, 2 - 1) = g  BY <1>12
  <2>. HIDE DEF g
  <2>. DEFINE f == Filled(t, Fields(t))
              v == Sub(t, 2 + 1, p - 2)
  <2>5. RequestOf(t, p, <<>>) =
           [is |-> "table", msgtype |-> "REQUEST", method |-> g, url |-> v,
            version |-> "HTTP/1.1", contents |-> f, body |-> <<>>]
    <3>1. 2 # 0  OBVIOUS
    <3>. QED  BY <1>11, <2>2, <2>4, <3>1, Zenon DEF RequestOf
  <2>6. f = Sent(m) /\ v = m.url  BY <1>9, <1>13 DEF url
  <2>. HIDE DEF f, v
  <2>7. RequestOf(t, p, <<>>) =
           [is |-> "table", msgtype |-> "REQUEST", method |-> m.method, url |-> m.url,
            version |-> "HTTP/1.1", contents |-> Sent(m), body |-> <<>>]
    BY <2>3, <2>5, <2>6
  <2>. QED  BY <2>7, AnswerToRequest, Zenon
<1>. QED  BY <1>5, <1>6, <1>14 DEF HeadParsed, HeadAnswered, t

\* The first line of a response, token by token.
LEMMA ResponseLineIs ==
    ASSUME NEW S, NEW m, m.msgtype = "RESPONSE", m.status = <<"200">>, m.version \in S,
           m.version \in Versions, {"200", Space, CRLF} \subseteq S
    PROVE  /\ FirstLine(m) \in Seq(S) /\ Len(FirstLine(m)) = 4
           /\ FirstLine(m)[1] = m.version /\ FirstLine(m)[2] = Space
           /\ FirstLine(m)[3] = "200" /\ FirstLine(m)[4] = CRLF
           /\ IsLine(FirstLine(m), {CRLF}) /\ Without(FirstLine(m), Colon)
<1>. DEFINE v == m.version
            w == "200"
<1>1. FirstLine(m) = <<v, Space, w, CRLF>>
  <2>1. <<v, Space>> \o <<w>> = <<v, Space, w>>  BY Joined2
  <2>2. <<v, Space, w>> \o <<CRLF>> = <<v, Space, w, CRLF>>  BY Joined3
  <2>3. FirstLine(m) = (<<v, Space>> \o m.status) \o <<CRLF>>  BY Zenon DEF FirstLine
  <2>. QED  BY <2>1, <2>2, <2>3, Zenon
<1>. DEFINE line == FirstLine(m)
<1>2. line \in Seq(S) /\ Len(line) = 4 /\ line[1] = m.version /\ line[2] = Space
      /\ line[3] = "200" /\ line[4] = CRLF
  BY <1>1
<1>. HIDE DEF line
<1>3. \A j \in 1 .. 4 : j = 1 \/ j = 2 \/ j = 3 \/ j = 4  OBVIOUS
<1>4. Without(line, Colon)  BY <1>2, <1>3, TokensDiffer, MarksDiffer DEF Without
<1>5. \A j \in 1 .. 3 : line[j] # CRLF
  <2>1. \A j \in 1 .. 3 : j = 1 \/ j = 2 \/ j = 3  OBVIOUS
  <2>. QED  BY <1>2, <2>1, TokensDiffer, MarksDiffer
<1>6. IsLine(line, {CRLF})
  <2>1. Len(line) >= 2 /\ Len(line) - 1 = 3  BY <1>2
  <2>. QED  BY <1>2, <1>5, <2>1 DEF IsLine
<1>. QED  BY <1>2, <1>4, <1>6 DEF line

\* The head of a response is parsed into the Answer to the response.
LEMMA ResponseParses ==
    ASSUME NEW S, NEW full, NEW m, NEW s, HeadOfMessage(S, full, m, s),
           m.msgtype = "RESPONSE", m.status = <<"200">>, m.version \in S,
           m.version \in Versions, {"200", Space, CRLF} \subseteq S
    PROVE  HeadAnswered(m, s)
<1>. DEFINE first == FirstLine(m)
            t == Cut(full)
            p == 1
<1>1. /\ first \in Seq(S) /\ Len(first) = 4
      /\ first[1] = m.version /\ first[2] = Space /\ first[3] = "200" /\ first[4] = CRLF
      /\ IsLine(first, {CRLF})
  BY ResponseLineIs
<1>. HIDE DEF first
<1>2. Len(first) \in Nat /\ p \in 1 .. Len(first) /\ \A j \in 1 .. p - 1 : FALSE  BY <1>1
<1>3. first[p] = m.version  BY <1>1
<1>. HIDE DEF p
<1>4. HeadParsed(full, m, s, p)
  <2>1. \A j \in 1 .. p - 1 : first[j] \notin Versions  BY <1>2
  <2>2. CRLF \in S  OBVIOUS
  <2>. QED  BY <1>1, <1>2, <1>3, <2>1, <2>2, HeadIsParsed DEF first
<1>5. HeadHas(S, full, first)  BY <1>1, <1>2, MessageHead DEF first
<1>6. t \in Seq(S) /\ Len(t) = Len(full) - 1 /\ Len(full) \in Nat /\ Len(full) >= 4
      /\ (\A k \in 1 .. 3 : t[k] = first[k]) /\ \A k \in 1 .. 4 : full[k] = first[k]
  <2>1. Len(first) - 1 = 3  BY <1>1
  <2>. QED  BY <1>1, <1>5, <2>1 DEF HeadHas
<1>7. Filled(t, Fields(t)) = Sent(m)  BY DEF HeadOfMessage, HeadWithFields
<1>8. IF Sent(m) = <<>> THEN Len(full) = 4 ELSE Len(full) > 4
  BY <1>1 DEF HeadOfMessage, first
<1>9. full \in Seq(S) /\ Len(full) > 0  BY <1>6 DEF HeadOfMessage
<1>10. \A k \in 1 .. Len(full) - 1 : t[k] = full[k]  BY <1>9, CutIs
<1>. HIDE DEF t
<1>11. \A k \in 1 .. 3 : t[k] # CRLF
  <2>1. \A k \in 1 .. 3 : k = 1 \/ k = 2 \/ k = 3  OBVIOUS
  <2>. QED  BY <1>1, <1>6, <2>1, TokensDiffer, MarksDiffer
<1>12. CASE Sent(m) = <<>>
  <2>1. Len(t) = 3
    <3>1. Len(full) = 4  BY <1>8, <1>12, Zenon
    <3>2. Len(t) = Len(full) - 1  BY <1>6
    <3>. QED  BY <3>1, <3>2
  <2>2. ~ Contains(t, CRLF)  BY <1>11, <2>1 DEF Contains
  <2>3. Find(t, CRLF) = 0
    <3>1. Len(t) \in Nat  BY <2>1
    <3>. QED  BY <2>2, <3>1, FindFinds
  <2>4. ResponseOf(t, <<>>) = LuaError  BY <2>3 DEF ResponseOf
  <2>5. Answer(m, <<>>) = LuaError  BY <1>12 DEF Answer
  <2>. QED  BY <1>4, <2>4, <2>5 DEF HeadParsed, HeadAnswered, p, t
<1>13. CASE Sent(m) # <<>>
  <2>1. Len(full) > 4 /\ 4 \in 1 .. Len(full) - 1 /\ Len(t) \in Nat /\ 4 \in 1 .. Len(t)
    BY <1>6, <1>8, <1>13
  <2>2. t[4] = CRLF
    <3>1. t[4] = full[4]  BY <1>10, <2>1
    <3>2. 4 \in 1 .. 4  OBVIOUS
    <3>3. full[4] = first[4]  BY <1>6, <3>2
    <3>. QED  BY <1>1, <3>1, <3>3
  <2>3. Find(t, CRLF) = 4
    <3>. DEFINE q == 4
    <3>1. q \in 1 .. Len(t) /\ t[q] = CRLF /\ \A j \in 1 .. q - 1 : j \in 1 .. 3  BY <2>1, <2>2
    <3>. HIDE DEF q
    <3>2. \A j \in 1 .. q - 1 : t[j] # CRLF  BY <1>11, <3>1
    <3>3. Find(t, CRLF) = q  BY <2>1, <3>1, <3>2, FindIs
    <3>. QED  BY <3>3 DEF q
  <2>4. SubSeq(t, 2, 4 - 1) = <<Space, "200">>
    <3>. DEFINE a == 2
                b == 4 - 1
                g == <<Space, "200">>
    <3>1. g \in Seq(S) /\ Len(g) = 2 /\ g[1] = Space /\ g[2] = "200"  OBVIOUS
    <3>2. \A k \in 1 .. 2 : k = 1 \/ k = 2  OBVIOUS
    <3>. HIDE DEF g
    <3>3. a \in Nat /\ a >= 1 /\ a + Len(g) - 1 <= Len(t) /\ a + Len(g) - 1 = b
          /\ a + 1 - 1 = 2 /\ a + 2 - 1 = 3 /\ 2 \in 1 .. 3 /\ 3 \in 1 .. 3
      BY <2>1, <3>1
    <3>. HIDE DEF a, b
    <3>4. t[2] = Space /\ t[3] = "200"  BY <1>1, <1>6, <3>3
    <3>5. \A k \in 1 .. Len(g) : t[a + k - 1] = g[k]  BY <3>1, <3>2, <3>3, <3>4
    <3>6. SubSeq(t, a, a + Len(g) - 1) = g  BY <1>6, <3>1, <3>3, <3>5, SubSeqIs
    <3>7. SubSeq(t, a, b) = g  BY <3>3, <3>6
    <3>. QED  BY <3>7 DEF a, b, g
  <2>5. ResponseOf(t, <<>>) =
           [is |-> "table", msgtype |-> "RESPONSE", status |-> <<Space, "200">>,
            version |-> "HTTP/1.1", contents |-> Sent(m), body |-> <<>>]
    <3>1. 4 # 0  OBVIOUS
    <3>. QED  BY <1>7, <2>3, <2>4, <3>1, Zenon DEF ResponseOf
  <2>6. <<Space>> \o m.status = <<Space, "200">>
    <3>1. <<Space>> \o <<"200">> = <<Space, "200">>  BY Joined1
    <3>. QED  BY <3>1, Zenon
  <2>7. Answer(m, <<>>) = ResponseOf(t, <<>>)
    <3>1. m.msgtype # "REQUEST"  OBVIOUS
    <3>. QED  BY <1>13, <2>5, <2>6, <3>1, AnswerToResponse, Zenon
  <2>. QED  BY <1>4, <2>7 DEF HeadParsed, HeadAnswered, p, t
<1>. QED  BY <1>12, <1>13

-----------------------------------------------------------------------------
(* Every message                                                           *)

\* All tokens, those http.create adds among them.
Universe ==
    Tokens \union Marks \union {"GET", "200", "Content-Length"} \union {ToString(n) : n \in Nat}

\* The universe has the tokens and the marks.
LEMMA UniverseHas ==
    /\ Tokens \subseteq Universe /\ Marks \subseteq Universe
    /\ {"GET", "200", "Content-Length"} \subseteq Universe
    /\ \A n \in Nat : ToString(n) \in Universe
BY DEF Universe

\* The marks http.create and url.create write are among Marks.
LEMMA MarksAre ==
    /\ Space \in Marks /\ Colon \in Marks /\ CRLF \in Marks /\ Versions \subseteq Marks
    /\ {"/index", "?", "&", "="} \subseteq Marks
<1>1. Versions \subseteq Marks  BY Zenon DEF Versions, Marks
<1>2. {"/index", "?", "&", "="} \subseteq Marks  BY Zenon DEF Marks
<1>3. Space \in Marks /\ Colon \in Marks /\ CRLF \in Marks  BY Zenon DEF Marks
<1>. QED  BY <1>1, <1>2, <1>3

\* A text is one of the universe.
LEMMA TextInUniverse ==
    ASSUME NEW s, NEW D, IsText(s, D) PROVE s \in Seq(Universe) /\ s # <<>> /\ NotAt(s, D)
<1>1. s \in Seq(Tokens)  BY DEF IsText
<1>2. s \in Seq(Universe)  BY <1>1, UniverseHas, SeqGrows
<1>. QED  BY <1>2 DEF IsText, NotAt

\* The fields of a message are as http.create needs them.
LEMMA ContentsAreTexts ==
    ASSUME NEW f \in Contents
    PROVE  /\ TextTable(Universe, f)
           /\ \A name \in DOMAIN f :
                 (\A j \in 1 .. Len(name) : IsWord(name[j])) /\ Without(f[name], CRLF)
<1>1. f \in [DOMAIN f -> Seq(Tokens)] /\ IsFiniteSet(DOMAIN f)
      /\ \A name \in DOMAIN f : IsText(name, Marks) /\ IsText(f[name], {CRLF})
  BY WellFormedAssumption DEF WellFormed
<1>2. ASSUME NEW name \in DOMAIN f
      PROVE  /\ name \in Seq(Universe) /\ name # <<>> /\ NotAt(name, Marks)
             /\ f[name] \in Seq(Universe) /\ f[name] # <<>> /\ NotAt(f[name], {CRLF})
  <2>1. IsText(name, Marks) /\ IsText(f[name], {CRLF})  BY <1>1
  <2>2. name \in Seq(Universe) /\ name # <<>> /\ NotAt(name, Marks)  BY <2>1, TextInUniverse
  <2>3. f[name] \in Seq(Universe) /\ f[name] # <<>> /\ NotAt(f[name], {CRLF})
    BY <2>1, TextInUniverse
  <2>. QED  BY <2>2, <2>3
<1>3. f \in [DOMAIN f -> Seq(Universe)]  BY <1>1, <1>2
<1>4. TextTable(Universe, f)  BY <1>1, <1>2, <1>3 DEF TextTable
<1>5. ASSUME NEW name \in DOMAIN f
      PROVE  (\A j \in 1 .. Len(name) : IsWord(name[j])) /\ Without(f[name], CRLF)
  <2>1. NotAt(name, Marks) /\ NotAt(f[name], {CRLF})  BY <1>2
  <2>2. \A j \in 1 .. Len(name) : IsWord(name[j])  BY <2>1 DEF NotAt, IsWord
  <2>3. Without(f[name], CRLF)  BY <2>1 DEF NotAt, Without
  <2>. QED  BY <2>2, <2>3
<1>. QED  BY <1>4, <1>5

\* The parameters of a url are as url.create and http.create need them.
LEMMA QueriesAreTexts ==
    ASSUME NEW q \in Queries
    PROVE  /\ Queried(Universe, q)
           /\ \A key \in DOMAIN q : NotAt(key, NotInUrl) /\ NotAt(q[key], NotInUrl)
<1>1. q \in [DOMAIN q -> Seq(Tokens)] /\ IsFiniteSet(DOMAIN q)
      /\ \A key \in DOMAIN q : /\ IsText(key, NotInUrl) /\ IsText(q[key], NotInUrl)
                               /\ \A k \in 1 .. Len(q[key]) - 1 : q[key][k] # "="
  BY WellFormedAssumption DEF WellFormed
<1>2. ASSUME NEW key \in DOMAIN q
      PROVE  /\ key \in Seq(Universe) /\ key # <<>> /\ NotAt(key, NotInUrl)
             /\ q[key] \in Seq(Universe) /\ q[key] # <<>> /\ NotAt(q[key], NotInUrl)
  <2>1. IsText(key, NotInUrl) /\ IsText(q[key], NotInUrl)  BY <1>1
  <2>2. key \in Seq(Universe) /\ key # <<>> /\ NotAt(key, NotInUrl)  BY <2>1, TextInUniverse
  <2>3. q[key] \in Seq(Universe) /\ q[key] # <<>> /\ NotAt(q[key], NotInUrl)
    BY <2>1, TextInUniverse
  <2>. QED  BY <2>2, <2>3
<1>3. q \in [DOMAIN q -> Seq(Universe)]  BY <1>1, <1>2
<1>4. TextTable(Universe, q)  BY <1>1, <1>2, <1>3 DEF TextTable
<1>5. {"?", "&"} \subseteq NotInUrl  BY Zenon DEF NotInUrl
<1>6. \A key \in DOMAIN q : NotAt(key, {"?", "&"}) /\ NotAt(q[key], {"?", "&"})
  BY <1>2, <1>5 DEF NotAt
<1>7. Queried(Universe, q)  BY <1>1, <1>4, <1>6 DEF Queried
<1>. QED  BY <1>2, <1>7

\* A body is text, and its length is no line end.
LEMMA BodiesAreTexts ==
    ASSUME NEW b \in Bodies, b # NoBody
    PROVE  b \in Seq(Universe) /\ ToString(Len(b)) \in Universe /\ ToString(Len(b)) # CRLF
<1>1. b \in Seq(Tokens) /\ ToString(Len(b)) # CRLF  BY WellFormedAssumption DEF WellFormed
<1>2. b \in Seq(Universe)  BY <1>1, UniverseHas, SeqGrows
<1>3. Len(b) \in Nat  BY <1>1, LenProperties
<1>. QED  BY <1>1, <1>2, <1>3, UniverseHas

\* A url of a query fits into the first line of a request.
LEMMA UrlFits ==
    ASSUME NEW q \in Queries, NEW o \in Orders(q)
    PROVE  /\ Url(q, o) \in Seq(Universe) /\ Len(Url(q, o)) >= 1 /\ FitsLine(Url(q, o))
<1>1. Queried(Universe, q) /\ \A key \in DOMAIN q : NotAt(key, NotInUrl) /\ NotAt(q[key], NotInUrl)
  BY QueriesAreTexts
<1>2. {"/index", "?", "&", "="} \subseteq Universe  BY MarksAre, UniverseHas
<1>3. ASSUME NEW token \in NotInUrl, token \notin {"/index", "?", "&", "="}
      PROVE  /\ Url(q, o) \in Seq(Universe) /\ Len(Url(q, o)) >= 1
             /\ Without(Url(q, o), token)
  <2>1. \A key \in DOMAIN q : Without(key, token) /\ Without(q[key], token)
    BY <1>1 DEF NotAt, Without
  <2>. QED  BY <1>1, <1>2, <1>3, <2>1, UrlWithout
<1>4. CRLF \in NotInUrl /\ Colon \in NotInUrl /\ Versions \subseteq NotInUrl
  BY Zenon DEF NotInUrl, Versions
<1>5. CRLF \notin {"/index", "?", "&", "="}  BY Zenon DEF CRLF
<1>6. Colon \notin {"/index", "?", "&", "="}  BY Zenon DEF Colon
<1>7. \A v \in Versions : v \notin {"/index", "?", "&", "="}  BY DEF Versions
<1>8. Url(q, o) \in Seq(Universe) /\ Len(Url(q, o)) >= 1 /\ Without(Url(q, o), CRLF)
  BY <1>3, <1>4, <1>5
<1>9. Without(Url(q, o), Colon)  BY <1>3, <1>4, <1>6
<1>10. \A v \in Versions : Without(Url(q, o), v)  BY <1>3, <1>4, <1>7
<1>11. NotAt(Url(q, o), Versions)  BY <1>10 DEF NotAt, Without
<1>. QED  BY <1>8, <1>9, <1>11 DEF FitsLine

\* What every message has.
LEMMA MessageHas ==
    ASSUME NEW m, m.contents \in Contents, m.body \in Bodies, m.version \in Versions,
           m.msgtype \in {"REQUEST", "RESPONSE"},
           FirstLine(m) \in Seq(Universe), IsLine(FirstLine(m), {CRLF}), Without(FirstLine(m), Colon)
    PROVE  Wellformed(Universe, m)
<1>1. {Colon, CRLF, "Content-Length"} \subseteq Universe  BY MarksAre, UniverseHas
<1>2. /\ TextTable(Universe, m.contents)
      /\ \A name \in DOMAIN m.contents :
            (\A j \in 1 .. Len(name) : IsWord(name[j])) /\ Without(m.contents[name], CRLF)
  BY ContentsAreTexts
<1>3. m.body # NoBody => /\ m.body \in Seq(Universe)
                         /\ ToString(Len(m.body)) \in Universe /\ ToString(Len(m.body)) # CRLF
  BY BodiesAreTexts
<1>. QED  BY <1>1, <1>2, <1>3 DEF Wellformed

\* Every request http.create makes, in every order of its fields, is parsed back.
LEMMA RequestsParse ==
    ASSUME NEW m \in Requests, NEW o \in Orders(m.contents)
    PROVE  HeadParses(m, HttpCreate(m, o))
<1>. DEFINE s == HttpCreate(m, o)
<1>1. PICK q \in Queries :
         m \in [msgtype : {"REQUEST"}, method : {<<"GET">>}, query : {q}, version : Versions,
                url : {Url(q, x) : x \in Orders(q)}, contents : Contents, body : Bodies]
  BY DEF Requests
<1>2. /\ m.msgtype = "REQUEST" /\ m.method = <<"GET">> /\ m.query = q /\ m.version \in Versions
      /\ m.contents \in Contents /\ m.body \in Bodies
  BY <1>1
<1>3. PICK x \in Orders(q) : m.url = Url(q, x)  BY <1>1
<1>4. m.url \in Seq(Universe) /\ Len(m.url) >= 1 /\ FitsLine(m.url)  BY <1>3, UrlFits
<1>5. {"GET", Space, CRLF} \subseteq Universe /\ m.version \in Universe
      /\ {"/index", "?", "&", "="} \subseteq Universe
  BY <1>2, MarksAre, UniverseHas
<1>6. FirstLine(m) \in Seq(Universe) /\ RequestLine(FirstLine(m), m.url, m.version)
  BY <1>2, <1>4, <1>5, RequestLineIs
<1>7. IsLine(FirstLine(m), {CRLF}) /\ Without(FirstLine(m), Colon)
  BY <1>2, <1>4, <1>6, RequestLineFits
<1>8. Wellformed(Universe, m)  BY <1>2, <1>6, <1>7, MessageHas
<1>9. PICK full : HeadOfMessage(Universe, full, m, s)  BY <1>8, HeadWritten
<1>10. HeadAnswered(m, s)
  <2>1. CRLF \in Universe /\ "GET" \in Universe  BY <1>5
  <2>. HIDE DEF s
  <2>. QED  BY <1>2, <1>4, <1>6, <1>9, <2>1, RequestParses
<1>11. UrlParse(m.url) = UrlAnswer(m)
  <2>1. Queried(Universe, q)  BY QueriesAreTexts
  <2>2. UrlParse(Url(q, x)) =
           IF q = <<>> THEN Nil
           ELSE [is |-> "table", t |-> Assigned(Entry(<<"cmd">>, <<"/index">>), q)]
    BY <1>5, <2>1, UrlReadBack
  <2>. QED  BY <1>2, <1>3, <2>2, Zenon DEF UrlAnswer
<1>12. IsHead(HeadOf(m, s)) /\ Len(Carried(m)) \in Nat
  BY <1>9 DEF HeadOfMessage, HeadWithFields
<1>. QED  BY <1>2, <1>10, <1>11, <1>12 DEF HeadParses, HeadAnswered

\* Every response http.create makes, in every order of its fields, is parsed back.
LEMMA ResponsesParse ==
    ASSUME NEW m \in Responses, NEW o \in Orders(m.contents)
    PROVE  HeadParses(m, HttpCreate(m, o))
<1>. DEFINE s == HttpCreate(m, o)
<1>1. /\ m.msgtype = "RESPONSE" /\ m.status = <<"200">> /\ m.version \in Versions
      /\ m.contents \in Contents /\ m.body \in Bodies
  BY DEF Responses
<1>2. {"200", Space, CRLF} \subseteq Universe /\ m.version \in Universe
  BY <1>1, MarksAre, UniverseHas
<1>3. /\ FirstLine(m) \in Seq(Universe)
      /\ IsLine(FirstLine(m), {CRLF}) /\ Without(FirstLine(m), Colon)
  BY <1>1, <1>2, ResponseLineIs
<1>4. Wellformed(Universe, m)  BY <1>1, <1>3, MessageHas
<1>5. PICK full : HeadOfMessage(Universe, full, m, s)  BY <1>4, HeadWritten
<1>6. HeadAnswered(m, s)
  <2>. HIDE DEF s
  <2>. QED  BY <1>1, <1>2, <1>5, ResponseParses
<1>7. IsHead(HeadOf(m, s)) /\ Len(Carried(m)) \in Nat
  BY <1>5 DEF HeadOfMessage, HeadWithFields
<1>. QED  BY <1>1, <1>6, <1>7 DEF HeadParses, HeadAnswered

\* The whole head of every message of every stream is parsed into Answer: what
\* http.create was given, but for its version, which comes back as 1.1, and its
\* status, which gets a space; a response without a field is a Lua error.
THEOREM EveryHeadParses == HeadsParse
<1>. SUFFICES ASSUME NEW s \in Streams, NEW m \in MessagesOf[s] PROVE HeadParses(m, s)
  BY DEF HeadsParse
<1>1. m \in Requests \union Responses /\ s \in Created({m})  BY DEF MessagesOf
<1>2. PICK o \in Orders(m.contents) : s = HttpCreate(m, o)  BY <1>1 DEF Created
<1>. QED  BY <1>1, <1>2, RequestsParse, ResponsesParse

\* Whatever http.create made of the fields, queries and bodies it may be given, and
\* wherever the reads cut it, http.parse finds nothing before the head is whole.
\* Then it gives back a request of version 1.1 exactly as http.create was given it, with its length;
\* another message with its version turned into 1.1 and a space before its status,
\* or a Lua error for a response without a field; and url.parse the parameters of
\* the url.  A message of version 1.0 with HTTP/1.1 in it is not spoken of.
THEOREM ParsesEveryMessage == Spec => []ParsesWhatWasCreated
<1>1. HeadsParse  BY EveryHeadParses
<1>2. IInv /\ StreamInv => ParsesWhatWasCreated  BY <1>1, ParsesAtEveryCut
<1>. QED  BY <1>2, InitIInv, StepIInv, StreamStays, PTL DEF Spec
=============================================================================
