------------------------------ MODULE FileRead ------------------------------
(***************************************************************************)
(* One descriptor at both its ends: a peer that sends, closes or resets,   *)
(* and nspr_luapi_file_api_read, which the coroutine calls again and again *)
(* to take what has come.  A call reads into a buffer that doubles until a *)
(* read is short.  A coroutine may be resumed on a report that is stale    *)
(* (Pipeline), so a call may find nothing.                                 *)
(*                                                                         *)
(* What is read is a sequence of tokens; LUAL_BUFFERSIZE counts them.      *)
(***************************************************************************)
EXTENDS Integers, Sequences

CONSTANTS
    Tokens,          \* what streams are made of
    Streams,         \* what the peer may have to say
    LUAL_BUFFERSIZE, \* the size of the first read
    MayReset         \* BOOLEAN: the peer may reset the connection

ASSUME StreamsAssumption == Streams \subseteq Seq(Tokens)
ASSUME SizeAssumption == LUAL_BUFFERSIZE \in Nat \ {0}
ASSUME ResetAssumption == MayReset \in BOOLEAN

VARIABLES
    stream, \* what the peer has to say
    unsent, \* what of it is not sent yet
    socket, \* what of it the kernel holds for the reader
    peer,   \* "open", "closed", or "reset" until a read has answered ECONNRESET
    pc,     \* "lua", "read" (in file.read), or "ended": an error has ended the coroutine
    buffer, \* the luaL_Buffer of the call
    rlen,
    got,    \* history: all that earlier calls returned
    lost    \* history: bytes cut off by a failed read

vars == <<stream, unsent, socket, peer, pc, buffer, rlen, got, lost>>

Init ==
    /\ stream \in Streams
    /\ unsent = stream
    /\ socket = <<>>
    /\ peer = "open"
    /\ pc = "lua"
    /\ buffer = <<>>
    /\ rlen = LUAL_BUFFERSIZE
    /\ got = <<>>
    /\ lost = 0

-----------------------------------------------------------------------------
(* The peer                                                                *)

Send(n) ==
    /\ peer = "open"
    /\ n \in 1 .. Len(unsent)
    /\ socket' = socket \o SubSeq(unsent, 1, n)
    /\ unsent' = SubSeq(unsent, n + 1, Len(unsent))
    /\ UNCHANGED <<stream, peer, pc, buffer, rlen, got, lost>>

\* At any place of the stream.  A reset leaves what has come to the reader.
Leave ==
    /\ peer = "open"
    /\ peer' \in {"closed"} \union (IF MayReset THEN {"reset"} ELSE {})
    /\ UNCHANGED <<stream, unsent, socket, pc, buffer, rlen, got, lost>>

-----------------------------------------------------------------------------
(* nspr_luapi_file_api_read                                                *)

Call ==
    /\ pc = "lua"
    /\ pc' = "read"
    /\ UNCHANGED <<stream, unsent, socket, peer, buffer, rlen, got, lost>>

\* luaL_pushresult
Returns(result) ==
    /\ pc' = "lua"
    /\ got' = got \o result
    /\ buffer' = <<>>
    /\ rlen' = LUAL_BUFFERSIZE

Same == rlen \* mutant: the buffer does not grow
\* rlen stays far below MAX_SIZE_T / 4.
Doubled == 2 * rlen

\* Another round of the loop.
ReadsOn(so_far) ==
    /\ pc' = "read"
    /\ buffer' = so_far
    /\ rlen' = Doubled
    /\ UNCHANGED got

AllTaken(n) == <<>> \* mutant: what does not fit into the buffer is dropped
LeftBehind(n) == SubSeq(socket, n + 1, Len(socket))

ReadSome ==
    /\ pc = "read"
    /\ socket # <<>>
    /\ LET n == IF Len(socket) < rlen THEN Len(socket) ELSE rlen
           so_far == buffer \o SubSeq(socket, 1, n)
       IN  /\ socket' = LeftBehind(n)
           /\ IF n < rlen THEN Returns(so_far) ELSE ReadsOn(so_far)
    /\ UNCHANGED <<stream, unsent, peer, lost>>

\* read() answers 0.
ReadEnd ==
    /\ pc = "read"
    /\ socket = <<>> /\ peer = "closed"
    /\ Returns(buffer)
    /\ UNCHANGED <<stream, unsent, socket, peer, lost>>

GivesUp == "lua" \* mutant: EAGAIN ends the loop
TriesAgain == "read"

\* EAGAIN, or a blocking descriptor on which read() does not come back.
ReadNothing ==
    /\ pc = "read"
    /\ socket = <<>> /\ peer = "open"
    /\ pc' = TriesAgain
    /\ UNCHANGED <<stream, unsent, socket, peer, buffer, rlen, got, lost>>

\* read() answers -1, which is added to the size of the buffer and, as a
\* size_t, is no short read.  An empty buffer then has the largest size there is:
\* the next luaL_prepbuffsize is the error "buffer too large", which
\* coroutine.resume keeps from the rest of the program.
ReadFails ==
    /\ pc = "read"
    /\ socket = <<>> /\ peer = "reset"
    /\ peer' = "closed"
    /\ \/ buffer = <<>> /\ pc' = "ended" /\ UNCHANGED <<buffer, rlen, got, lost>>
       \/ buffer # <<>> /\ ReadsOn(SubSeq(buffer, 1, Len(buffer) - 1)) /\ lost' = lost + 1
    /\ UNCHANGED <<stream, unsent, socket>>

Ended == pc = "ended" /\ UNCHANGED vars

-----------------------------------------------------------------------------

ReadNext == ReadSome \/ ReadEnd \/ ReadNothing \/ ReadFails

Next == ReadNext \/ Call \/ Leave \/ Ended \/ \E n \in 1 .. Len(unsent) : Send(n)

Spec == Init /\ [][Next]_vars

-----------------------------------------------------------------------------
(* Properties                                                              *)

\* However the stream is cut into segments and calls, every byte is returned
\* once and in its place, until a read fails with bytes in hand; that one cuts off
\* the last of them.
EveryByteOnce ==
    IF lost = 0
    THEN got \o buffer \o socket \o unsent = stream
    ELSE Len(got) + Len(buffer) + 1 + Len(unsent) = Len(stream)

\* tests/work.lua:71: an empty string means that the connection is closed.
EmptyMeansEnd ==
    [][pc = "read" /\ pc' = "lua" /\ got' = got => peer = "closed" /\ socket = <<>>]_vars

\* k is 0, 1, 3, 7, ..., one less than a power of two: each is one more than
\* twice the one before, down to 0.
AllOnes(k) ==
    \E chain \in SUBSET (0 .. k) :
        k \in chain /\ \A m \in chain : m = 0 \/ \E l \in chain : m = 2 * l + 1

\* A call that has taken something waits for more only if what had come filled
\* its buffers to the last byte: one, three, seven, ... times the first size.
WaitsAtBoundary ==
    pc = "read" /\ socket = <<>> /\ peer = "open" =>
        \E k \in 0 .. Len(buffer) : Len(buffer) = k * LUAL_BUFFERSIZE /\ AllOnes(k)
=============================================================================
