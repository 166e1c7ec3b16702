-------------------------- MODULE FileWriteProofs --------------------------
(***************************************************************************)
(* For every length of the stream, every capacity of the kernel's buffer   *)
(* and every first read: bytes arrive once at most and in order, and what  *)
(* is missing is the end of a message; and a connection from accept, in a  *)
(* process that catches no signal, is what FileRead takes a peer to be.    *)
(***************************************************************************)
EXTENDS FileWrite, SequenceTheorems, TLAPS

Bytes == 1 .. Length

TypeOK ==
    /\ {unsent, rest, got, buffer, socket} \subseteq Seq(Bytes)
    /\ blocking \in BOOLEAN /\ signals \in BOOLEAN
    /\ writer \in {"lua", "write", "closed", "killed"}
    /\ reader \in {"there", "left"}
    /\ pc \in {"lua", "read"}
    /\ rlen \in Nat \ {0}
    /\ ends \subseteq Nat
    /\ Len(socket) <= Capacity

\* Where the stream stands: what messages have held of it, and what of that no
\* write() has still to hand over.
Said == Length - Len(unsent)
Handed == Said - Len(rest)

\* s is the run of bytes that begins after byte a.
Follows(s, a) == \A k \in 1 .. Len(s) : s[k] = a + k

\* The writer's side: what is left follows what was said, and a message that is
\* not being written has been handed over or given up.
WriterInv ==
    /\ Said \in ends
    /\ Follows(unsent, Said)
    /\ Follows(rest, Handed)
    /\ writer = "write" => rest # <<>>
    /\ writer \in {"lua", "closed"} => rest = <<>>

LastOf(s) == IF s = <<>> THEN 0 ELSE s[Len(s)]

\* OnlyTailsMissing of a sequence.
Tails(s, e) ==
    \A k \in 1 .. Len(s) :
        LET before == IF k = 1 THEN 0 ELSE s[k - 1]
        IN  s[k] > before /\ s[k] - 1 \in e \union {before}

\* Between the ends, while the reader is there: nothing arrives before it was
\* handed over, and the next byte to arrive follows the last one or begins a
\* message.
ArrivedInv ==
    /\ Tails(Arrived, ends)
    /\ reader = "there" => /\ LastOf(Arrived) <= Handed
                           /\ Handed \in ends \union {LastOf(Arrived)}

IInv == TypeOK /\ WriterInv /\ ArrivedInv
-----------------------------------------------------------------------------
(* Sequences                                                               *)

\* Concatenation under a name of its own, so that the provers apply these laws
\* instead of expanding it.
Join(s, t) == s \o t

LEMMA JoinProperties ==
    ASSUME NEW S, NEW s \in Seq(S), NEW t \in Seq(S)
    PROVE  /\ Join(s, t) \in Seq(S) /\ Len(Join(s, t)) = Len(s) + Len(t)
           /\ \A k \in 1 .. Len(s) + Len(t) :
                 Join(s, t)[k] = IF k <= Len(s) THEN s[k] ELSE t[k - Len(s)]
           /\ Join(s, <<>>) = s /\ Join(<<>>, s) = s
BY ConcatProperties, ConcatEmptySeq DEF Join

LEMMA JoinAssociative ==
    ASSUME NEW S, NEW s \in Seq(S), NEW t \in Seq(S), NEW u \in Seq(S)
    PROVE  Join(Join(s, t), u) = Join(s, Join(t, u))
BY ConcatAssociative DEF Join

LEMMA Lengths ==
    ASSUME NEW S, NEW s \in Seq(S)
    PROVE  /\ Len(s) \in Nat /\ (s = <<>> <=> Len(s) = 0)
           /\ \A k \in 1 .. Len(s) : s[k] \in S
BY LenProperties, EmptySeq, ElementOfSeq

\* The first n of a sequence and what comes after them.
First(s, n) == SubSeq(s, 1, n)
Others(s, n) == SubSeq(s, n + 1, Len(s))

LEMMA Pieces ==
    ASSUME NEW S, NEW s \in Seq(S), NEW n \in 0 .. Len(s)
    PROVE  /\ First(s, n) \in Seq(S) /\ Len(First(s, n)) = n
           /\ \A k \in 1 .. n : First(s, n)[k] = s[k]
           /\ Others(s, n) \in Seq(S) /\ Len(Others(s, n)) = Len(s) - n
           /\ \A k \in 1 .. Len(s) - n : Others(s, n)[k] = s[n + k]
           /\ Join(First(s, n), Others(s, n)) = s
<1>1. Len(s) \in Nat /\ n \in Nat /\ \A k \in 1 .. Len(s) : s[k] \in S
  BY Lengths
<1>2. /\ First(s, n) \in Seq(S) /\ Len(First(s, n)) = n
      /\ \A k \in 1 .. n : First(s, n)[k] = s[k]
  <2>1. \A k \in 1 .. n : s[k] \in S  BY <1>1
  <2>. QED  BY <1>1, <2>1, SubSeqProperties DEF First
<1>3. /\ Others(s, n) \in Seq(S) /\ Len(Others(s, n)) = Len(s) - n
      /\ \A k \in 1 .. Len(s) - n : Others(s, n)[k] = s[n + k]
  <2>1. \A k \in n + 1 .. Len(s) : s[k] \in S  BY <1>1
  <2>2. /\ Others(s, n) \in Seq(S)
        /\ Len(Others(s, n)) = IF n + 1 <= Len(s) THEN Len(s) - (n + 1) + 1 ELSE 0
        /\ \A k \in 1 .. Len(s) - (n + 1) + 1 : Others(s, n)[k] = s[n + 1 + k - 1]
    BY <1>1, <2>1, SubSeqProperties DEF Others
  <2>3. ASSUME NEW k \in 1 .. Len(s) - n PROVE Others(s, n)[k] = s[n + k]
    <3>1. k \in 1 .. Len(s) - (n + 1) + 1 /\ n + 1 + k - 1 = n + k  BY <1>1
    <3>. QED  BY <2>2, <3>1
  <2>4. Len(Others(s, n)) = Len(s) - n  BY <1>1, <2>2
  <2>. QED  BY <2>2, <2>3, <2>4
<1>4. Join(First(s, n), Others(s, n)) = SubSeq(s, 1, Len(s))
  <2>1. 1 \in 1 .. Len(s) + 1 /\ n \in 1 - 1 .. Len(s) /\ Len(s) \in n .. Len(s)  BY <1>1
  <2>. QED  BY <2>1, ConcatAdjacentSubSeq DEF Join, First, Others
<1>. QED  BY <1>2, <1>3, <1>4, SubSeqFull

\* What begins a concatenation can be taken from its first part.
LEMMA PiecesOfJoin ==
    ASSUME NEW S, NEW s \in Seq(S), NEW t \in Seq(S), NEW n \in 1 .. Len(s)
    PROVE  /\ n \in 1 .. Len(Join(s, t))
           /\ First(Join(s, t), n) = First(s, n)
           /\ Others(Join(s, t), n) = Join(Others(s, n), t)
<1>1. /\ Join(s, t) \in Seq(S) /\ Len(Join(s, t)) = Len(s) + Len(t)
      /\ \A k \in 1 .. Len(s) + Len(t) :
            Join(s, t)[k] = IF k <= Len(s) THEN s[k] ELSE t[k - Len(s)]
  BY JoinProperties
<1>2. Len(s) \in Nat /\ Len(t) \in Nat  BY Lengths
<1>3. n \in 0 .. Len(s) /\ n \in 0 .. Len(Join(s, t))  BY <1>1, <1>2
<1>4. First(Join(s, t), n) = First(s, n)
  <2>1. 1 \in 1 .. Len(s)  BY <1>2
  <2>. QED  BY <2>1, SubSeqOfConcat1 DEF First, Join
<1>5. Others(Join(s, t), n) = Join(Others(s, n), t)
  <2>. DEFINE j == Join(s, t)
              a == Others(j, n)
              o == Others(s, n)
              b == Join(o, t)
  <2>0. j \in Seq(S) /\ Len(j) = Len(s) + Len(t) /\ n \in 0 .. Len(j)  BY <1>1, <1>3
  <2>. HIDE DEF j
  <2>1. /\ a \in Seq(S) /\ Len(a) = Len(j) - n
        /\ \A k \in 1 .. Len(j) - n : a[k] = j[n + k]
    BY <2>0, Pieces
  <2>2. o \in Seq(S) /\ Len(o) = Len(s) - n /\ \A k \in 1 .. Len(s) - n : o[k] = s[n + k]
    BY <1>3, Pieces
  <2>. HIDE DEF o
  <2>3. /\ b \in Seq(S) /\ Len(b) = Len(o) + Len(t)
        /\ \A k \in 1 .. Len(o) + Len(t) : b[k] = IF k <= Len(o) THEN o[k] ELSE t[k - Len(o)]
    BY <2>2, JoinProperties
  <2>. HIDE DEF a, b
  <2>4. Len(a) = Len(b)  BY <1>2, <2>0, <2>1, <2>2, <2>3
  <2>5. ASSUME NEW k \in 1 .. Len(a) PROVE a[k] = b[k]
    <3>1. a[k] = IF n + k <= Len(s) THEN s[n + k] ELSE t[n + k - Len(s)]
      <4>1. k \in 1 .. Len(j) - n /\ n + k \in 1 .. Len(s) + Len(t)  BY <1>2, <1>3, <2>0, <2>1
      <4>. QED  BY <1>1, <2>1, <4>1 DEF j
    <3>2. b[k] = IF k <= Len(s) - n THEN s[n + k] ELSE t[k - (Len(s) - n)]
      <4>1. k \in 1 .. Len(o) + Len(t)  BY <1>2, <2>0, <2>1, <2>2
      <4>. QED  BY <1>2, <2>2, <2>3, <4>1
    <3>3. n + k - Len(s) = k - (Len(s) - n) /\ (n + k <= Len(s) <=> k <= Len(s) - n)
      BY <1>2, <2>0, <2>1
    <3>. QED  BY <3>1, <3>2, <3>3
  <2>6. a = b  BY <2>1, <2>3, <2>4, <2>5, SeqEqual
  <2>. QED  BY <2>6 DEF a, b, o, j
<1>. QED  BY <1>1, <1>2, <1>4, <1>5

-----------------------------------------------------------------------------
(* Runs of bytes, and what arrives of them                                 *)

LEMMA FollowsPieces ==
    ASSUME NEW s \in Seq(Bytes), NEW a \in Int, Follows(s, a), NEW n \in 0 .. Len(s)
    PROVE  Follows(First(s, n), a) /\ Follows(Others(s, n), a + n)
<1>1. Len(s) \in Nat /\ n \in Nat  BY Lengths
<1>. DEFINE f == First(s, n)
            o == Others(s, n)
<1>2. /\ Len(f) = n /\ \A k \in 1 .. n : f[k] = s[k]
      /\ Len(o) = Len(s) - n /\ \A k \in 1 .. Len(s) - n : o[k] = s[n + k]
  BY Pieces
<1>. HIDE DEF f, o
<1>3. ASSUME NEW k \in 1 .. Len(f) PROVE f[k] = a + k
  <2>1. k \in 1 .. n /\ k \in 1 .. Len(s)  BY <1>1, <1>2
  <2>. QED  BY <1>2, <2>1 DEF Follows
<1>4. ASSUME NEW k \in 1 .. Len(o) PROVE o[k] = a + n + k
  <2>1. k \in 1 .. Len(s) - n /\ n + k \in 1 .. Len(s)  BY <1>1, <1>2
  <2>2. o[k] = a + (n + k)  BY <1>2, <2>1 DEF Follows
  <2>. QED  BY <1>1, <2>2
<1>. QED  BY <1>3, <1>4 DEF Follows, f, o

LEMMA LastIsNat == ASSUME NEW s \in Seq(Bytes) PROVE LastOf(s) \in Nat
<1>1. s # <<>> => Len(s) \in 1 .. Len(s)  BY Lengths
<1>2. s # <<>> => s[Len(s)] \in Bytes  BY <1>1, ElementOfSeq
<1>3. Bytes \subseteq Nat  BY LengthAssumption DEF Bytes
<1>. QED  BY <1>2, <1>3 DEF LastOf

\* A run that begins behind all that has arrived, where a message begins or
\* where the last byte left off, keeps beginnings and middles complete.
LEMMA RunArrives ==
    ASSUME NEW s \in Seq(Bytes), NEW t \in Seq(Bytes), NEW e, NEW a \in Nat,
           Tails(s, e), Follows(t, a), LastOf(s) <= a, a \in e \union {LastOf(s)}
    PROVE  /\ Tails(Join(s, t), e)
           /\ LastOf(Join(s, t)) = IF t = <<>> THEN LastOf(s) ELSE a + Len(t)
<1>. DEFINE j == Join(s, t)
            m == Len(s)
            Previous(k) == IF k = 1 THEN 0 ELSE j[k - 1]
<1>1. /\ j \in Seq(Bytes) /\ Len(j) = m + Len(t)
      /\ \A k \in 1 .. m + Len(t) : j[k] = IF k <= m THEN s[k] ELSE t[k - m]
      /\ t = <<>> => j = s
  BY JoinProperties
<1>2. m \in Nat /\ Len(t) \in Nat /\ (t = <<>> <=> Len(t) = 0) /\ (s = <<>> <=> m = 0)
  BY Lengths
<1>3. LastOf(s) \in Nat  BY LastIsNat
<1>. HIDE DEF j
<1>4. ASSUME NEW k \in 1 .. Len(j)
      PROVE  j[k] > Previous(k) /\ j[k] - 1 \in e \union {Previous(k)}
  <2>. HIDE DEF m
  <2>0. k \in 1 .. m + Len(t) /\ k - 1 \in Int  BY <1>1, <1>2
  <2>1. CASE k <= m
    <3>1. k \in 1 .. m /\ j[k] = s[k]  BY <1>1, <1>2, <2>0, <2>1
    <3>2. k # 1 => k - 1 \in 1 .. m + Len(t) /\ k - 1 <= m  BY <1>2, <2>0, <2>1
    <3>3. k # 1 => j[k - 1] = s[k - 1]  BY <1>1, <3>2
    <3>4. Previous(k) = IF k = 1 THEN 0 ELSE s[k - 1]  BY <3>3
    <3>. QED  BY <3>1, <3>4 DEF Tails, m
  <2>2. CASE k = m + 1
    <3>1. 1 \in 1 .. Len(t) /\ k - m = 1  BY <1>2, <2>0, <2>2
    <3>2. j[k] = a + 1  BY <1>1, <2>0, <2>2, <3>1, <1>2 DEF Follows
    <3>3. Previous(k) = LastOf(s)
      <4>1. CASE m = 0  BY <1>2, <2>2, <4>1 DEF LastOf
      <4>2. CASE m # 0
        <5>1. k # 1 /\ k - 1 = m /\ m \in 1 .. m + Len(t)  BY <1>2, <2>2, <4>2
        <5>2. j[m] = s[m]  BY <1>1, <1>2, <5>1
        <5>. QED  BY <1>2, <4>2, <5>1, <5>2 DEF LastOf, m
      <4>. QED  BY <4>1, <4>2
    <3>. QED  BY <1>3, <3>2, <3>3
  <2>3. CASE k > m + 1
    <3>1. /\ k - m \in 1 .. Len(t) /\ k - 1 - m \in 1 .. Len(t) /\ k # 1
          /\ k - 1 \in 1 .. m + Len(t) /\ ~ (k <= m) /\ ~ (k - 1 <= m)
      BY <1>2, <2>0, <2>3
    <3>2. j[k] = t[k - m] /\ j[k - 1] = t[k - 1 - m]  BY <1>1, <2>0, <3>1
    <3>3. t[k - m] = a + (k - m) /\ t[k - 1 - m] = a + (k - 1 - m)  BY <3>1 DEF Follows
    <3>. QED  BY <1>2, <2>0, <3>1, <3>2, <3>3
  <2>. QED  BY <1>2, <2>0, <2>1, <2>2, <2>3
<1>5. Tails(j, e)  BY <1>4 DEF Tails
<1>6. LastOf(j) = IF t = <<>> THEN LastOf(s) ELSE a + Len(t)
  <2>1. CASE t = <<>>  BY <1>1, <2>1
  <2>2. CASE t # <<>>
    <3>1. /\ Len(j) # 0 /\ Len(j) \in 1 .. m + Len(t) /\ ~ (Len(j) <= m)
          /\ Len(j) - m = Len(t) /\ Len(t) \in 1 .. Len(t)
      BY <1>1, <1>2, <2>2
    <3>2. j[Len(j)] = t[Len(t)]  BY <1>1, <3>1
    <3>3. t[Len(t)] = a + Len(t)  BY <3>1 DEF Follows
    <3>4. j # <<>>  BY <1>1, <3>1, Lengths
    <3>. QED  BY <2>2, <3>2, <3>3, <3>4 DEF LastOf
  <2>. QED  BY <2>1, <2>2
<1>. QED  BY <1>5, <1>6 DEF j

\* More ends, or fewer bytes at the end.
LEMMA TailsKept ==
    ASSUME NEW s \in Seq(Bytes), NEW t \in Seq(Bytes), NEW e, NEW d,
           Tails(Join(s, t), e), e \subseteq d
    PROVE  Tails(s, d)
<1>. DEFINE j == Join(s, t)
            m == Len(s)
<1>1. /\ Len(j) = m + Len(t) /\ m \in Nat /\ Len(t) \in Nat
      /\ \A k \in 1 .. m + Len(t) : j[k] = IF k <= m THEN s[k] ELSE t[k - m]
  BY JoinProperties, Lengths
<1>2. Tails(j, e)  OBVIOUS
<1>. HIDE DEF j
<1>3. ASSUME NEW k \in 1 .. m
      PROVE  LET before == IF k = 1 THEN 0 ELSE s[k - 1]
             IN  s[k] > before /\ s[k] - 1 \in d \union {before}
  <2>. HIDE DEF m
  <2>1. k \in 1 .. m + Len(t) /\ k \in 1 .. Len(j) /\ k <= m  BY <1>1
  <2>2. j[k] = s[k]  BY <1>1, <2>1
  <2>3. k # 1 => k - 1 \in 1 .. m + Len(t) /\ k - 1 <= m  BY <1>1
  <2>4. k # 1 => j[k - 1] = s[k - 1]  BY <1>1, <2>3
  <2>. QED  BY <1>2, <2>1, <2>2, <2>4 DEF Tails
<1>. QED  BY <1>3 DEF Tails

-----------------------------------------------------------------------------
(* The invariant is inductive                                              *)

LEMMA Constants ==
    /\ Length \in Nat /\ Capacity \in Nat /\ LUAL_BUFFERSIZE \in Nat \ {0}
    /\ <<>> \in Seq(Bytes) /\ Len(<<>>) = 0
    /\ \A b \in Bytes : b \in Nat /\ b # 0 /\ b <= Length
    /\ \A a : Follows(<<>>, a)
<1>1. <<>> \in Seq(Bytes) /\ Len(<<>>) = 0  BY EmptySeq
<1>. QED
  BY <1>1, LengthAssumption, CapacityAssumption, BufferAssumption DEF Bytes, Follows

LEMMA Sequences ==
    ASSUME TypeOK
    PROVE  \A s \in {unsent, rest, got, buffer, socket} :
              s \in Seq(Bytes) /\ Len(s) \in Nat /\ (s = <<>> <=> Len(s) = 0)
BY Lengths DEF TypeOK

LEMMA ArrivedIs ==
    /\ Arrived = Join(Join(got, buffer), socket)
    /\ Arrived' = Join(Join(got', buffer'), socket')
BY DEF Arrived, Join

LEMMA Places ==
    ASSUME TypeOK, WriterInv
    PROVE  /\ Said \in Nat /\ Handed \in Nat /\ Said = Handed + Len(rest)
           /\ Said = Length - Len(unsent)
<1>1. /\ unsent \in Seq(Bytes) /\ Len(unsent) \in Nat
      /\ rest \in Seq(Bytes) /\ Len(rest) \in Nat
  BY Sequences
<1>2. Said \in Int /\ Handed \in Int /\ Said = Handed + Len(rest)
  BY <1>1, Constants DEF Said, Handed
<1>3. Said >= 0
  <2>1. CASE Len(unsent) = 0  BY <2>1, Constants DEF Said
  <2>2. CASE Len(unsent) # 0
    <3>1. 1 \in 1 .. Len(unsent)  BY <1>1, <2>2
    <3>2. unsent[1] = Said + 1 /\ unsent[1] \in Bytes
      BY <1>1, <3>1, ElementOfSeq DEF WriterInv, Follows
    <3>. QED  BY <1>2, <3>2, Constants
  <2>. QED  BY <2>1, <2>2
<1>4. Handed >= 0
  <2>1. CASE Len(rest) = 0  BY <1>2, <1>3, <2>1
  <2>2. CASE Len(rest) # 0
    <3>1. 1 \in 1 .. Len(rest)  BY <1>1, <2>2
    <3>2. rest[1] = Handed + 1 /\ rest[1] \in Bytes
      BY <1>1, <3>1, ElementOfSeq DEF WriterInv, Follows
    <3>. QED  BY <1>2, <3>2, Constants
  <2>. QED  BY <2>1, <2>2
<1>. QED  BY <1>2, <1>3, <1>4 DEF Said

LEMMA StreamIs ==
    LET s == [k \in 1 .. Length |-> k]
    IN  s \in Seq(Bytes) /\ Len(s) = Length /\ Follows(s, 0)
<1>. DEFINE s == [k \in 1 .. Length |-> k]
<1>1. s \in [1 .. Length -> Bytes]  BY DEF Bytes
<1>2. s \in Seq(Bytes) /\ DOMAIN s = 1 .. Length  BY <1>1, Constants, SeqDef
<1>3. Len(s) = Length  BY <1>2, Constants, LenProperties
<1>4. \A k \in 1 .. Length : s[k] = 0 + k  BY Constants
<1>. QED  BY <1>2, <1>3, <1>4 DEF Follows

LEMMA InitIInv == Init => IInv
<1>. SUFFICES ASSUME Init PROVE IInv  OBVIOUS
<1>1. unsent \in Seq(Bytes) /\ Len(unsent) = Length /\ Follows(unsent, 0)
  BY StreamIs DEF Init
<1>2. /\ rest = <<>> /\ got = <<>> /\ buffer = <<>> /\ socket = <<>> /\ ends = {0}
      /\ writer = "lua" /\ reader = "there"
  BY DEF Init
<1>3. Said = 0 /\ Handed = 0
  <2>1. Len(rest) = 0 /\ Length - Length = 0  BY <1>2, Constants
  <2>. QED  BY <1>1, <2>1 DEF Said, Handed
<1>4. Arrived = <<>>
  <2>1. Arrived = Join(Join(<<>>, <<>>), <<>>)  BY <1>2, ArrivedIs
  <2>. QED  BY <2>1, Constants, JoinProperties
<1>5. TypeOK  BY <1>1, <1>2, Constants DEF Init, TypeOK
<1>6. WriterInv  BY <1>1, <1>2, <1>3, Constants DEF WriterInv
<1>7. ArrivedInv  BY <1>2, <1>3, <1>4, Constants DEF ArrivedInv, Tails, LastOf
<1>. QED  BY <1>5, <1>6, <1>7 DEF IInv

\* What has arrived, and that it is a sequence.
LEMMA ArrivedType ==
    ASSUME TypeOK
    PROVE  /\ Arrived \in Seq(Bytes) /\ LastOf(Arrived) \in Nat
           /\ Join(got, buffer) \in Seq(Bytes)
BY Sequences, ArrivedIs, JoinProperties, LastIsNat

-----------------------------------------------------------------------------
(* The writer's steps                                                      *)

LEMMA WriteKeeps == ASSUME IInv, NEW n \in 1 .. Len(unsent), Write(n) PROVE IInv'
<1>1. /\ rest' = First(unsent, n) /\ unsent' = Others(unsent, n)
      /\ ends' = ends \union {unsent[n]} /\ writer = "lua" /\ writer' = "write"
      /\ UNCHANGED <<blocking, signals, reader, socket, pc, buffer, rlen, got>>
  BY DEF Write, First, Others, fixed, reading
<1>2. /\ unsent \in Seq(Bytes) /\ Len(unsent) \in Nat /\ n \in 0 .. Len(unsent) /\ n \in Nat
      /\ rest = <<>> /\ Len(rest) = 0
  BY <1>1, Sequences DEF IInv, WriterInv
<1>3. /\ rest' \in Seq(Bytes) /\ Len(rest') = n
      /\ unsent' \in Seq(Bytes) /\ Len(unsent') = Len(unsent) - n
  <2>1. unsent \in Seq(Bytes) /\ n \in 0 .. Len(unsent)  BY <1>2
  <2>2. /\ First(unsent, n) \in Seq(Bytes) /\ Len(First(unsent, n)) = n
        /\ Others(unsent, n) \in Seq(Bytes) /\ Len(Others(unsent, n)) = Len(unsent) - n
    BY <2>1, Pieces
  <2>. QED  BY <1>1, <2>2
<1>4. Said \in Nat /\ Handed = Said /\ Said' = Said + n /\ Handed' = Said
  <2>1. Said \in Nat  BY Places DEF IInv
  <2>2. Handed = Said  BY <1>2, <2>1 DEF Handed
  <2>3. Said' = Said + n  BY <1>2, <1>3, Constants DEF Said
  <2>4. Handed' = Said  BY <1>2, <1>3, <2>1, <2>3 DEF Handed
  <2>. QED  BY <2>1, <2>2, <2>3, <2>4
<1>5. Follows(rest', Said) /\ Follows(unsent', Said + n)
  BY <1>1, <1>2, <1>4, FollowsPieces DEF IInv, WriterInv
<1>6. unsent[n] = Said + n  BY DEF IInv, WriterInv, Follows
<1>7. Arrived' = Arrived  BY <1>1 DEF Arrived
<1>8. Tails(Arrived, ends')
  <2>1. Arrived \in Seq(Bytes) /\ Join(Arrived, <<>>) = Arrived /\ ends \subseteq ends'
    BY <1>1, ArrivedType, JoinProperties, Constants DEF IInv
  <2>. QED  BY <2>1, Constants, TailsKept DEF IInv, ArrivedInv
<1>9. TypeOK'
  BY <1>1, <1>3, <1>4, <1>6 DEF IInv, TypeOK
<1>10. rest' # <<>>  BY <1>3, Constants
<1>11. WriterInv'
  BY <1>1, <1>4, <1>5, <1>6, <1>10 DEF WriterInv
<1>12. ArrivedInv'
  BY <1>1, <1>4, <1>7, <1>8 DEF IInv, ArrivedInv, WriterInv
<1>. QED  BY <1>9, <1>11, <1>12 DEF IInv

\* The kernel takes n bytes of the message.
LEMMA TakesKeeps ==
    ASSUME IInv, reader = "there", NEW n \in 0 .. Len(rest), Takes(n),
           UNCHANGED <<got, buffer, ends>>
    PROVE  /\ socket' \in Seq(Bytes) /\ Len(socket') = Len(socket) + n
           /\ Tails(Arrived', ends) /\ LastOf(Arrived') <= Handed + n
           /\ n # 0 => LastOf(Arrived') = Handed + n
           /\ n = 0 => Arrived' = Arrived
<1>. DEFINE p == First(rest, n)
<1>1. rest \in Seq(Bytes) /\ socket \in Seq(Bytes) /\ n \in Nat /\ Len(rest) \in Nat
  BY Sequences DEF IInv
<1>2. p \in Seq(Bytes) /\ Len(p) = n  BY <1>1, Pieces
<1>3. Said \in Nat /\ Handed \in Nat  BY Places DEF IInv
<1>4. Follows(p, Handed)  BY <1>1, <1>3, FollowsPieces DEF IInv, WriterInv
<1>5. socket' = Join(socket, p)  BY DEF Takes, Join, First
<1>. HIDE DEF p
<1>6. Arrived' = Join(Arrived, p)
  BY <1>1, <1>2, <1>5, ArrivedIs, ArrivedType, JoinAssociative DEF IInv
<1>7. /\ Arrived \in Seq(Bytes) /\ Tails(Arrived, ends) /\ LastOf(Arrived) <= Handed
      /\ Handed \in ends \union {LastOf(Arrived)} /\ LastOf(Arrived) \in Nat
  BY ArrivedType DEF IInv, ArrivedInv
<1>8. /\ Tails(Arrived', ends)
      /\ LastOf(Arrived') = IF p = <<>> THEN LastOf(Arrived) ELSE Handed + n
  <2>. DEFINE s == Arrived
              a == Handed
  <2>0. /\ s \in Seq(Bytes) /\ a \in Nat /\ Tails(s, ends) /\ Follows(p, a)
        /\ LastOf(s) <= a /\ a \in ends \union {LastOf(s)}
    BY <1>3, <1>4, <1>7
  <2>. HIDE DEF s, a
  <2>1. /\ Tails(Join(s, p), ends)
        /\ LastOf(Join(s, p)) = IF p = <<>> THEN LastOf(s) ELSE a + Len(p)
    BY <2>0, <1>2, RunArrives
  <2>. QED  BY <1>2, <1>6, <2>1 DEF s, a
<1>9. p = <<>> <=> n = 0  BY <1>2, Lengths
<1>10. socket' \in Seq(Bytes) /\ Len(socket') = Len(socket) + n
  BY <1>1, <1>2, <1>5, JoinProperties
<1>11. n = 0 => Arrived' = Arrived
  BY <1>6, <1>7, <1>9, JoinProperties
<1>. QED  BY <1>1, <1>3, <1>7, <1>8, <1>9, <1>10, <1>11

LEMMA FitsType ==
    ASSUME TypeOK
    PROVE  Fits \in 0 .. Len(rest) /\ Len(socket) + Fits <= Capacity
<1>1. Len(rest) \in Nat /\ Len(socket) \in Nat /\ Len(socket) <= Capacity
  BY Sequences DEF TypeOK
<1>. QED  BY <1>1, Constants DEF Fits, Room

LEMMA HandsOverKeeps ==
    ASSUME IInv, NEW n \in 1 .. Fits, HandsOver(n) PROVE IInv'
<1>1. /\ Takes(n) /\ rest' = Others(rest, n) /\ writer = "write" /\ reader = "there"
      /\ writer' = IF n = Len(rest) THEN "lua" ELSE "write"
      /\ UNCHANGED <<blocking, signals, unsent, ends, reader, pc, buffer, rlen, got>>
  BY DEF HandsOver, After, IsAll, Others, fixed, reading
<1>2. /\ rest \in Seq(Bytes) /\ Len(rest) \in Nat
      /\ n \in 0 .. Len(rest) /\ n # 0 /\ n \in Nat /\ Len(socket) + n <= Capacity
  <2>1. rest \in Seq(Bytes) /\ Len(rest) \in Nat /\ Len(socket) \in Nat
    BY Sequences DEF IInv
  <2>2. Fits \in 0 .. Len(rest) /\ Len(socket) + Fits <= Capacity /\ Capacity \in Nat
    BY FitsType, Constants DEF IInv
  <2>. QED  BY <2>1, <2>2
<1>3. /\ socket' \in Seq(Bytes) /\ Len(socket') = Len(socket) + n
      /\ Tails(Arrived', ends) /\ LastOf(Arrived') = Handed + n
  BY <1>1, <1>2, TakesKeeps
<1>4. rest' \in Seq(Bytes) /\ Len(rest') = Len(rest) - n
  BY <1>1, <1>2, Pieces
<1>5. /\ Said \in Nat /\ Handed \in Nat /\ Said' = Said /\ Handed' = Handed + n
  <2>1. Said \in Nat /\ Handed \in Nat  BY Places DEF IInv
  <2>. QED  BY <1>1, <1>2, <1>4, <2>1 DEF Said, Handed
<1>6. Follows(rest', Handed + n)
  BY <1>1, <1>2, <1>5, FollowsPieces DEF IInv, WriterInv
<1>7. TypeOK'  BY <1>1, <1>2, <1>3, <1>4 DEF IInv, TypeOK
<1>8. rest' = <<>> <=> n = Len(rest)  BY <1>2, <1>4, Lengths
<1>9. WriterInv'
  <2>1. Follows(unsent, Said) /\ Said \in ends  BY DEF IInv, WriterInv
  <2>. QED  BY <1>1, <1>5, <1>6, <1>8, <2>1 DEF WriterInv
<1>10. ArrivedInv'
  <2>1. Handed + n <= Handed + n  BY <1>2, <1>5
  <2>2. LastOf(Arrived)' = Handed'  BY <1>3, <1>5
  <2>3. Handed' <= Handed'  BY <1>5, <2>1
  <2>4. Tails(Arrived, ends)'  BY <1>1, <1>3
  <2>. QED  BY <2>2, <2>3, <2>4 DEF ArrivedInv
<1>. QED  BY <1>7, <1>9, <1>10 DEF IInv

\* file.write comes back: the rest of the message is given up.
LEMMA ReturnsKeeps ==
    ASSUME IInv, Returns, UNCHANGED <<blocking, signals, reader, pc, buffer, rlen, got>>,
           socket' \in Seq(Bytes), Len(socket') <= Capacity, Tails(Arrived', ends),
           reader = "there" => LastOf(Arrived') <= Said
    PROVE  IInv'
<1>1. rest' = <<>> /\ writer' = "lua" /\ UNCHANGED <<unsent, ends>>  BY DEF Returns
<1>2. Said \in Nat /\ Said' = Said /\ Handed' = Said
  <2>1. Said \in Nat  BY Places DEF IInv
  <2>2. Said' = Said  BY <1>1 DEF Said
  <2>3. Len(rest') = 0  BY <1>1, Constants
  <2>. QED  BY <2>1, <2>2, <2>3 DEF Handed
<1>3. TypeOK'  BY <1>1, Constants DEF IInv, TypeOK
<1>4. WriterInv'
  <2>1. Follows(unsent, Said) /\ Said \in ends  BY DEF IInv, WriterInv
  <2>2. Follows(rest', Handed')  BY <1>1, Constants
  <2>. QED  BY <1>1, <1>2, <2>1, <2>2 DEF WriterInv
<1>5. ArrivedInv'
  <2>1. Handed' \in ends'  BY <1>1, <1>2 DEF IInv, WriterInv
  <2>2. Tails(Arrived, ends)' /\ (reader' = "there" => LastOf(Arrived)' <= Handed')
    BY <1>1, <1>2
  <2>. QED  BY <2>1, <2>2 DEF ArrivedInv
<1>. QED  BY <1>3, <1>4, <1>5 DEF IInv

LEMMA CutKeeps == ASSUME IInv, Cut PROVE IInv'
<1>1. /\ Takes(Fits) /\ Returns /\ reader = "there"
      /\ UNCHANGED <<blocking, signals, reader, pc, buffer, rlen, got>>
  BY DEF Cut, fixed, reading
<1>2. Fits \in 0 .. Len(rest) /\ Len(socket) + Fits <= Capacity
  BY FitsType DEF IInv
<1>3. UNCHANGED ends  BY <1>1 DEF Returns
<1>4. /\ socket' \in Seq(Bytes) /\ Len(socket') = Len(socket) + Fits
      /\ Tails(Arrived', ends) /\ LastOf(Arrived') <= Handed + Fits
  BY <1>1, <1>2, <1>3, TakesKeeps
<1>5. LastOf(Arrived') <= Said
  <2>1. /\ Handed \in Nat /\ Said \in Nat /\ Said = Handed + Len(rest) /\ Len(rest) \in Nat
        /\ got' \in Seq(Bytes) /\ buffer' \in Seq(Bytes)
    BY <1>1, Places, Sequences DEF IInv
  <2>2. LastOf(Arrived') \in Nat
    BY <1>4, <2>1, ArrivedIs, JoinProperties, LastIsNat
  <2>. QED  BY <1>2, <1>4, <2>1, <2>2
<1>. QED  BY <1>1, <1>2, <1>4, <1>5, ReturnsKeeps

LEMMA InterruptedKeeps == ASSUME IInv, Interrupted PROVE IInv'
<1>1. /\ Returns
      /\ UNCHANGED <<blocking, signals, reader, socket, pc, buffer, rlen, got>>
  BY DEF Interrupted, fixed, reading
<1>2. Arrived' = Arrived  BY <1>1 DEF Arrived
<1>3. socket' \in Seq(Bytes) /\ Len(socket') <= Capacity  BY <1>1 DEF IInv, TypeOK
<1>4. Tails(Arrived', ends)  BY <1>2 DEF IInv, ArrivedInv
<1>5. reader = "there" => LastOf(Arrived') <= Said
  <2>1. /\ Handed \in Nat /\ Said = Handed + Len(rest) /\ Len(rest) \in Nat
        /\ LastOf(Arrived) \in Nat
    BY Places, Sequences, ArrivedType DEF IInv
  <2>. QED  BY <1>2, <2>1 DEF IInv, ArrivedInv
<1>. QED  BY <1>1, <1>3, <1>4, <1>5, ReturnsKeeps

LEMMA WriteFailsKeeps == ASSUME IInv, WriteFails PROVE IInv'
<1>1. /\ reader = "left" /\ writer = "write"
      /\ UNCHANGED <<blocking, signals, reader, socket, pc, buffer, rlen, got>>
  BY DEF WriteFails, fixed, reading
<1>2. Arrived' = Arrived  BY <1>1 DEF Arrived
<1>3. socket' \in Seq(Bytes) /\ Len(socket') <= Capacity  BY <1>1 DEF IInv, TypeOK
<1>4. Tails(Arrived', ends)  BY <1>2 DEF IInv, ArrivedInv
<1>5. CASE Returns  BY <1>1, <1>3, <1>4, <1>5, ReturnsKeeps
<1>6. CASE writer' = "killed" /\ UNCHANGED <<unsent, rest, ends>>
  <2>1. TypeOK'  BY <1>1, <1>6 DEF IInv, TypeOK
  <2>2. Said' = Said /\ Handed' = Handed  BY <1>6 DEF Said, Handed
  <2>3. WriterInv'  BY <1>6, <2>2 DEF IInv, WriterInv
  <2>4. ArrivedInv'  BY <1>1, <1>4, <1>6 DEF ArrivedInv
  <2>. QED  BY <2>1, <2>3, <2>4 DEF IInv
<1>. QED  BY <1>5, <1>6 DEF WriteFails

LEMMA CloseKeeps == ASSUME IInv, Close PROVE IInv'
<1>1. /\ writer = "lua" /\ writer' = "closed"
      /\ UNCHANGED <<blocking, signals, unsent, rest, ends, reader, socket,
                     pc, buffer, rlen, got>>
  BY DEF Close, fixed, reading
<1>2. Arrived' = Arrived /\ Said' = Said /\ Handed' = Handed
  BY <1>1 DEF Arrived, Said, Handed
<1>3. TypeOK'  BY <1>1 DEF IInv, TypeOK
<1>4. WriterInv'  BY <1>1, <1>2 DEF IInv, WriterInv
<1>5. ArrivedInv'  BY <1>1, <1>2 DEF IInv, ArrivedInv
<1>. QED  BY <1>3, <1>4, <1>5 DEF IInv

-----------------------------------------------------------------------------
(* The reader's steps                                                      *)

\* A call moves bytes from the socket to its buffer and from there to Lua: what
\* has arrived stays as it is.
LEMMA ReadKeepsArrived ==
    ASSUME TypeOK, Read!Call \/ Read!ReadNext
    PROVE  /\ Arrived' = Arrived
           /\ {got', buffer', socket'} \subseteq Seq(Bytes) /\ Len(socket') <= Capacity
           /\ pc' \in {"lua", "read"} /\ rlen' \in Nat \ {0}
<1>1. /\ got \in Seq(Bytes) /\ buffer \in Seq(Bytes) /\ socket \in Seq(Bytes)
      /\ Len(socket) \in Nat /\ (socket = <<>> <=> Len(socket) = 0)
      /\ <<>> \in Seq(Bytes) /\ Len(socket) <= Capacity /\ rlen \in Nat \ {0}
  BY Sequences, Constants DEF TypeOK
<1>2. CASE Read!Call
  BY <1>1, <1>2 DEF Read!Call, Arrived
<1>3. CASE Read!ReadNothing
  BY <1>1, <1>3 DEF Read!ReadNothing, Read!TriesAgain, Arrived
<1>4. CASE Read!ReadFails
  BY <1>4 DEF Read!ReadFails
<1>5. CASE Read!ReadEnd
  <2>1. /\ got' = Join(got, buffer) /\ buffer' = <<>> /\ socket' = socket
        /\ pc' = "lua" /\ rlen' = LUAL_BUFFERSIZE
    BY <1>5 DEF Read!ReadEnd, Read!Returns, Join
  <2>. DEFINE b == Join(got, buffer)
  <2>2. b \in Seq(Bytes) /\ Join(b, <<>>) = b  BY <1>1, JoinProperties
  <2>. QED  BY <1>1, <2>1, <2>2, ArrivedIs, Constants
<1>6. CASE Read!ReadSome
  <2>. DEFINE n == IF Len(socket) < rlen THEN Len(socket) ELSE rlen
              p == First(socket, n)
              q == Others(socket, n)
              so_far == Join(buffer, p)
  <2>1. n \in 0 .. Len(socket)  BY <1>1
  <2>2. /\ socket' = q
        /\ \/ /\ got' = Join(got, so_far) /\ buffer' = <<>>
              /\ pc' = "lua" /\ rlen' = LUAL_BUFFERSIZE
           \/ /\ got' = got /\ buffer' = so_far
              /\ pc' = "read" /\ rlen' = 2 * rlen
    BY <1>6
    DEF Read!ReadSome, Read!LeftBehind, Read!Returns, Read!ReadsOn, Read!Doubled,
        Join, First, Others
  <2>. HIDE DEF n
  <2>3. p \in Seq(Bytes) /\ q \in Seq(Bytes) /\ Join(p, q) = socket /\ Len(q) = Len(socket) - n
    BY <1>1, <2>1, Pieces
  <2>. HIDE DEF p, q
  <2>4. so_far \in Seq(Bytes)  BY <1>1, <2>3, JoinProperties
  <2>. HIDE DEF so_far
  <2>5. Join(got, so_far) \in Seq(Bytes) /\ Join(got, buffer) \in Seq(Bytes)
    BY <1>1, <2>4, JoinProperties
  <2>6. Join(Join(got, so_far), q) = Arrived
    <3>1. Join(got, so_far) = Join(Join(got, buffer), p)
      BY <1>1, <2>3, JoinAssociative DEF so_far
    <3>2. Join(Join(Join(got, buffer), p), q) = Join(Join(got, buffer), Join(p, q))
      BY <2>3, <2>5, JoinAssociative
    <3>. QED  BY <2>3, <3>1, <3>2, ArrivedIs
  <2>7. Join(Join(got, so_far), <<>>) = Join(got, so_far)  BY <2>5, JoinProperties
  <2>8. Arrived' = Arrived  BY <2>2, <2>6, <2>7, ArrivedIs
  <2>9. 2 * rlen \in Nat \ {0} /\ Len(q) <= Capacity  BY <1>1, <2>1, <2>3, Constants
  <2>. QED  BY <1>1, <2>2, <2>3, <2>4, <2>5, <2>8, <2>9, Constants
<1>. QED  BY <1>2, <1>3, <1>4, <1>5, <1>6 DEF Read!ReadNext

LEMMA ReadsKeep == ASSUME IInv, ReaderReads PROVE IInv'
<1>1. UNCHANGED <<blocking, signals, unsent, rest, ends, writer, reader>>
  BY DEF ReaderReads, fixed, writing
<1>2. /\ Arrived' = Arrived
      /\ {got', buffer', socket'} \subseteq Seq(Bytes) /\ Len(socket') <= Capacity
      /\ pc' \in {"lua", "read"} /\ rlen' \in Nat \ {0}
  BY ReadKeepsArrived DEF IInv, ReaderReads
<1>3. Said' = Said /\ Handed' = Handed  BY <1>1 DEF Said, Handed
<1>4. TypeOK'  BY <1>1, <1>2 DEF IInv, TypeOK
<1>5. WriterInv'  BY <1>1, <1>3 DEF IInv, WriterInv
<1>6. ArrivedInv'  BY <1>1, <1>2, <1>3 DEF IInv, ArrivedInv
<1>. QED  BY <1>4, <1>5, <1>6 DEF IInv

LEMMA LeavesKeeps == ASSUME IInv, ReaderLeaves PROVE IInv'
<1>1. /\ reader' = "left" /\ socket' = <<>>
      /\ UNCHANGED <<blocking, signals, unsent, rest, ends, writer, pc, buffer, rlen, got>>
  BY DEF ReaderLeaves, fixed, writing, reading
<1>2. Said' = Said /\ Handed' = Handed  BY <1>1 DEF Said, Handed
<1>3. TypeOK'  BY <1>1, Constants DEF IInv, TypeOK
<1>4. WriterInv'  BY <1>1, <1>2 DEF IInv, WriterInv
<1>5. Tails(Arrived', ends)
  <2>. DEFINE ours == Join(got, buffer)
  <2>1. ours \in Seq(Bytes) /\ socket \in Seq(Bytes)  BY ArrivedType, Sequences DEF IInv
  <2>2. Join(ours, socket) = Arrived /\ Arrived' = ours
    BY <1>1, <2>1, ArrivedIs, JoinProperties
  <2>3. Tails(Join(ours, socket), ends)  BY <2>2 DEF IInv, ArrivedInv
  <2>. HIDE DEF ours
  <2>. QED  BY <2>1, <2>2, <2>3, TailsKept
<1>6. ArrivedInv'  BY <1>1, <1>5 DEF ArrivedInv
<1>. QED  BY <1>3, <1>4, <1>6 DEF IInv

LEMMA StepIInv == IInv /\ [Next]_vars => IInv'
<1>. SUFFICES ASSUME IInv, [Next]_vars PROVE IInv'  OBVIOUS
<1>1. ASSUME UNCHANGED vars PROVE IInv'
  <2>1. Arrived' = Arrived /\ Said' = Said /\ Handed' = Handed
    BY <1>1 DEF vars, fixed, writing, reading, Arrived, Said, Handed
  <2>. QED
    BY <1>1, <2>1
    DEF IInv, TypeOK, WriterInv, ArrivedInv, vars, fixed, writing, reading
<1>. QED
  BY <1>1, WriteKeeps, HandsOverKeeps, CutKeeps, InterruptedKeeps, WriteFailsKeeps,
     CloseKeeps, ReadsKeep, LeavesKeeps
  DEF Next, WriteNext, Ended

\* The inductive invariant, from which the theorems follow: what write() has still to
\* hand over follows what it has handed over, and what has arrived ends where the
\* next byte, or a message, begins.
THEOREM Inductive == Spec => []IInv
BY InitIInv, StepIInv, PTL DEF Spec

\* Bytes arrive once at most and in order, and what is missing of them is the
\* end of a message, for every length, capacity and first read and however
\* write() and the reader take turns.
THEOREM TailsMissing == Spec => []OnlyTailsMissing
<1>1. IInv => OnlyTailsMissing
  BY DEF IInv, ArrivedInv, Tails, OnlyTailsMissing, Before
<1>. QED  BY <1>1, Inductive, PTL

-----------------------------------------------------------------------------
(* The refinement                                                          *)

\* To the reader nothing of the stream is lost while the writer is in Lua.
ToCome == rest \o unsent
Peer == IF writer \in {"closed", "killed"} THEN "closed" ELSE "open"
readVars == <<stream, ToCome, socket, Peer, pc, buffer, rlen, got, lost>>

LEMMA ToComeIs ==
    ToCome = Join(rest, unsent) /\ ToCome' = Join(rest', unsent')
BY DEF ToCome, Join

LEMMA ReadInit == Init => Read!Init
<1>. SUFFICES ASSUME Init PROVE Read!Init  OBVIOUS
<1>1. stream = [k \in 1 .. Length |-> k] /\ unsent = stream /\ rest = <<>> /\ writer = "lua"
  BY DEF Init
<1>2. rest \o unsent = stream
  BY <1>1, StreamIs, JoinProperties DEF Join
<1>. QED  BY <1>1, <1>2 DEF Init, Read!Init

\* A new message changes nothing for the reader.
LEMMA WriteStutters ==
    ASSUME IInv, NEW n \in 1 .. Len(unsent), Write(n)
    PROVE  UNCHANGED readVars
<1>1. /\ rest' = First(unsent, n) /\ unsent' = Others(unsent, n)
      /\ writer = "lua" /\ writer' = "write"
      /\ UNCHANGED <<stream, socket, pc, buffer, rlen, got, lost>>
  BY DEF Write, First, Others, fixed, reading
<1>2. unsent \in Seq(Bytes) /\ Len(unsent) \in Nat /\ n \in 0 .. Len(unsent) /\ rest = <<>>
  BY <1>1, Sequences DEF IInv, WriterInv
<1>3. Join(First(unsent, n), Others(unsent, n)) = unsent /\ Join(<<>>, unsent) = unsent
  BY <1>2, Pieces, JoinProperties
<1>4. ToCome' = ToCome  BY <1>1, <1>2, <1>3, ToComeIs
<1>5. Peer' = Peer  BY <1>1 DEF Peer
<1>. QED  BY <1>1, <1>4, <1>5 DEF readVars

\* What write() hands over, the peer sends.
LEMMA HandsOverSends ==
    ASSUME IInv, NEW n \in 1 .. Fits, HandsOver(n)
    PROVE  \E m \in 1 .. Len(ToCome) : Read!Send(m)
<1>1. /\ socket' = socket \o First(rest, n) /\ rest' = Others(rest, n)
      /\ writer = "write" /\ writer' \in {"lua", "write"}
      /\ UNCHANGED <<stream, unsent, pc, buffer, rlen, got, lost>>
  BY DEF HandsOver, Takes, After, IsAll, First, Others, fixed, reading
<1>2. rest \in Seq(Bytes) /\ unsent \in Seq(Bytes) /\ n \in 1 .. Len(rest)
  <2>1. rest \in Seq(Bytes) /\ unsent \in Seq(Bytes) /\ Len(rest) \in Nat
    BY Sequences DEF IInv
  <2>2. Fits \in 0 .. Len(rest)  BY FitsType DEF IInv
  <2>. QED  BY <2>1, <2>2
<1>3. /\ n \in 1 .. Len(ToCome) /\ First(ToCome, n) = First(rest, n)
      /\ Others(ToCome, n) = Join(Others(rest, n), unsent)
  BY <1>2, PiecesOfJoin, ToComeIs
<1>4. socket' = socket \o SubSeq(rest \o unsent, 1, n)
  BY <1>1, <1>3 DEF First, ToCome
<1>5. rest' \o unsent' = SubSeq(rest \o unsent, n + 1, Len(rest \o unsent))
  BY <1>1, <1>3 DEF Others, ToCome, Join
<1>6. Read!Send(n)
  BY <1>1, <1>3, <1>4, <1>5 DEF Read!Send, ToCome
<1>. QED  BY <1>3, <1>6

LEMMA CloseLeaves == ASSUME Close PROVE Read!Leave
BY DEF Close, Read!Leave, fixed, reading

\* Where write() blocks and no signal cuts it short, and while the reader is
\* there, a step is the reader's, the peer's, or none of theirs.
LEMMA StepImplements ==
    ASSUME IInv, [Next]_vars, Reliable, reader' = "there"
    PROVE  Read!Next \/ UNCHANGED readVars
<1>1. CASE UNCHANGED vars
  BY <1>1 DEF vars, readVars, ToCome, Peer, fixed, writing, reading
<1>2. ASSUME NEW n \in 1 .. Len(unsent), Write(n) PROVE UNCHANGED readVars
  BY <1>2, WriteStutters
<1>3. ASSUME NEW n \in 1 .. Fits, HandsOver(n) PROVE Read!Next
  BY <1>3, HandsOverSends DEF Read!Next, ToCome
<1>4. CASE Cut \/ Interrupted
  BY <1>4 DEF Cut, Interrupted, Reliable
<1>5. CASE WriteFails \/ ReaderLeaves \/ Ended
  BY <1>5 DEF WriteFails, ReaderLeaves, Ended, vars, readVars, ToCome, Peer,
              fixed, writing, reading
<1>6. CASE Close
  BY <1>6, CloseLeaves DEF Read!Next
<1>7. CASE ReaderReads
  BY <1>7 DEF ReaderReads, Read!Next
<1>. QED
  BY <1>1, <1>2, <1>3, <1>4, <1>5, <1>6, <1>7 DEF Next, WriteNext

\* A connection from accept, in a process that catches no signal, is to the
\* other end what FileRead takes a peer to be, as long as that end is there:
\* what FileRead shows of the reader holds from end to end.
THEOREM PeerIsReliable == Spec => ImplementsRead
<1>1. IInv /\ [Next]_vars => [Reliable /\ reader' = "there" => Read!Next]_(Read!vars)
  BY StepImplements DEF readVars, ToCome, Peer, Read!vars
<1>2. Init => (Reliable => Read!Init)  BY ReadInit
<1>. QED  BY <1>1, <1>2, Inductive, PTL DEF Spec, ImplementsRead

\* What has arrived and what is to come make up the stream.
Whole == Reliable /\ reader = "there" => Join(Arrived, ToCome) = stream

LEMMA WholeKept ==
    ASSUME IInv, Whole, [Next]_vars, Reliable', reader' = "there"
    PROVE  Join(Arrived', ToCome') = stream'
<1>1. Reliable /\ stream' = stream
  <2>1. fixed' = fixed
    BY DEF Next, Write, HandsOver, WriteNext, Cut, Interrupted, WriteFails,
           Close, ReaderReads, ReaderLeaves, Ended, vars
  <2>2. UNCHANGED <<stream, blocking, signals>>  BY <2>1 DEF fixed
  <2>3. Reliable' <=> Reliable  BY <2>2 DEF Reliable
  <2>. QED  BY <2>2, <2>3
<1>2. reader = "there"
  BY DEF Next, Write, HandsOver, WriteNext, Cut, Interrupted, WriteFails,
         Close, ReaderReads, ReaderLeaves, Ended, vars
<1>3. Join(Arrived, ToCome) = stream  BY <1>1, <1>2 DEF Whole
<1>4. ASSUME UNCHANGED <<Arrived, ToCome>> PROVE Join(Arrived', ToCome') = stream'
  BY <1>1, <1>3, <1>4
<1>5. CASE \E n \in 1 .. Len(unsent) : Write(n)
  <2>1. UNCHANGED readVars  BY <1>5, WriteStutters
  <2>. QED  BY <2>1, <1>4 DEF readVars, Arrived
<1>6. ASSUME NEW n \in 1 .. Fits, HandsOver(n) PROVE Join(Arrived', ToCome') = stream'
  <2>. DEFINE p == First(rest, n)
              q == Others(rest, n)
  <2>1. /\ socket' = Join(socket, p) /\ rest' = q
        /\ UNCHANGED <<unsent, got, buffer>>
    BY <1>6 DEF HandsOver, Takes, After, First, Others, Join, reading
  <2>2. /\ rest \in Seq(Bytes) /\ unsent \in Seq(Bytes) /\ socket \in Seq(Bytes)
        /\ Arrived \in Seq(Bytes) /\ Join(got, buffer) \in Seq(Bytes)
        /\ n \in 0 .. Len(rest)
    <3>1. Fits \in 0 .. Len(rest)  BY FitsType DEF IInv
    <3>. QED  BY <3>1, Sequences, ArrivedType DEF IInv
  <2>3. p \in Seq(Bytes) /\ q \in Seq(Bytes) /\ Join(p, q) = rest
    BY <2>2, Pieces
  <2>. HIDE DEF p, q
  <2>4. Arrived' = Join(Arrived, p)
    BY <2>1, <2>2, <2>3, ArrivedIs, JoinAssociative
  <2>5. ToCome' = Join(q, unsent) /\ ToCome' \in Seq(Bytes) /\ ToCome = Join(p, ToCome')
    <3>1. ToCome' = Join(q, unsent)  BY <2>1, ToComeIs
    <3>2. Join(Join(p, q), unsent) = Join(p, Join(q, unsent))
      BY <2>2, <2>3, JoinAssociative
    <3>3. Join(q, unsent) \in Seq(Bytes)  BY <2>2, <2>3, JoinProperties
    <3>. QED  BY <2>3, <3>1, <3>2, <3>3, ToComeIs
  <2>6. Join(Join(Arrived, p), ToCome') = Join(Arrived, Join(p, ToCome'))
    BY <2>2, <2>3, <2>5, JoinAssociative
  <2>. QED  BY <1>1, <1>3, <2>4, <2>5, <2>6
<1>7. CASE ReaderReads
  <2>1. Arrived' = Arrived  BY <1>7, ReadKeepsArrived DEF IInv, ReaderReads
  <2>2. ToCome' = ToCome  BY <1>7 DEF ReaderReads, writing, ToCome
  <2>. QED  BY <2>1, <2>2, <1>4
<1>8. CASE Close \/ Ended \/ UNCHANGED vars
  BY <1>4, <1>8 DEF Close, Ended, vars, fixed, writing, reading, Arrived, ToCome
<1>9. ~ (Cut \/ Interrupted \/ WriteFails \/ ReaderLeaves)
  BY <1>1, <1>2 DEF Reliable, Cut, Interrupted, WriteFails, ReaderLeaves
<1>. QED
  BY <1>5, <1>6, <1>7, <1>8, <1>9 DEF Next, WriteNext

\* Over such a connection, while the reader is there, every byte is at one place:
\* with Lua at the other end, in the reader's buffer, in the kernel, or still
\* with the writer, in the order in which it was said.
THEOREM EndToEnd ==
    Spec => [](Reliable /\ reader = "there" =>
                  got \o buffer \o socket \o (rest \o unsent) = stream)
<1>1. Init => Whole
  <2>. SUFFICES ASSUME Init PROVE Join(Arrived, ToCome) = stream  BY DEF Whole
  <2>1. /\ got = <<>> /\ buffer = <<>> /\ socket = <<>> /\ rest = <<>> /\ unsent = stream
        /\ stream \in Seq(Bytes)
    BY StreamIs DEF Init
  <2>2. Join(<<>>, <<>>) = <<>> /\ Join(<<>>, stream) = stream
    BY <2>1, Constants, JoinProperties
  <2>. QED  BY <2>1, <2>2, ArrivedIs, ToComeIs
<1>2. IInv /\ Whole /\ [Next]_vars => Whole'
  BY WholeKept DEF Whole
<1>3. Whole => (Reliable /\ reader = "there" =>
                   got \o buffer \o socket \o (rest \o unsent) = stream)
  BY DEF Whole, Join, Arrived, ToCome
<1>. QED  BY <1>1, <1>2, <1>3, Inductive, PTL DEF Spec

-----------------------------------------------------------------------------
(* What WritesEnd needs of the code besides fairness.                       *)

\* Nothing but a full kernel keeps a write() from handing something over.
OnlyFullHolds == writer = "write" /\ Fits = 0 => Room = 0

\* As long as the write() runs, each step of it leaves it less, and the reader's steps
\* give it nothing to do again.
RestShrinks ==
    writer = "write" /\ writer' = "write" =>
        IF WriteNext THEN Len(rest') < Len(rest) ELSE rest' = rest

\* A write() makes no more steps than its message has bytes, and waits in between for
\* nothing but room.
THEOREM WritesAdvance == Spec => []OnlyFullHolds /\ [][RestShrinks]_vars
<1>1. IInv => OnlyFullHolds
  <2>. SUFFICES ASSUME IInv, writer = "write", Fits = 0 PROVE Room = 0
    BY DEF OnlyFullHolds
  <2>1. Len(rest) \in Nat /\ Len(rest) # 0
    BY Sequences DEF IInv, WriterInv
  <2>. QED  BY <2>1 DEF Fits
<1>2. ASSUME IInv, Next, writer = "write", writer' = "write"
      PROVE  IF WriteNext THEN Len(rest') < Len(rest) ELSE rest' = rest
  <2>1. ASSUME NEW n \in 1 .. Fits, HandsOver(n) PROVE Len(rest') < Len(rest)
    <3>1. Len(rest) \in Nat /\ Fits \in 0 .. Len(rest)
      BY <1>2, Sequences, FitsType DEF IInv
    <3>2. n \in 0 .. Len(rest) /\ n > 0  BY <3>1
    <3>3. rest \in Seq(Bytes)  BY <1>2 DEF IInv, TypeOK
    <3>4. rest' = Others(rest, n)  BY <2>1 DEF HandsOver, After, Others
    <3>5. Len(rest') = Len(rest) - n  BY <3>2, <3>3, <3>4, Pieces
    <3>. QED  BY <3>1, <3>2, <3>5
  <2>2. ~ (Cut \/ Interrupted \/ WriteFails)
    BY <1>2 DEF Cut, Interrupted, WriteFails, Returns
  <2>3. ~ (\E n \in 1 .. Len(unsent) : Write(n)) /\ ~ Close
    BY <1>2 DEF Write, Close
  <2>4. ReaderReads \/ ReaderLeaves \/ Ended => rest' = rest
    BY DEF ReaderReads, ReaderLeaves, Ended, vars, writing
  <2>. QED  BY <1>2, <2>1, <2>2, <2>3, <2>4 DEF Next, WriteNext
<1>3. IInv /\ [Next]_vars => [RestShrinks]_vars
  BY <1>2 DEF RestShrinks
<1>. QED  BY <1>1, <1>3, Inductive, PTL DEF Spec
=============================================================================
