----------------------------- MODULE FileWrite -----------------------------
(***************************************************************************)
(* A connection from file.write to file.read: a coroutine that hands       *)
(* messages to pipeline.write, the kernel between the two ends, and at the *)
(* other end another nspider, whose file.read is that of FileRead.         *)
(*                                                                         *)
(* A descriptor from accept blocks: write() hands over all of a message    *)
(* however long the reader takes.  One from connect does not: write()      *)
(* hands over what fits.  file.write looks at no answer, so what was not   *)
(* taken is gone.  A coroutine may be resumed on a report that is stale    *)
(* (Pipeline), so a call may find no room at all.                          *)
(*                                                                         *)
(* What the bytes are does not matter: a byte is its place in the stream.  *)
(***************************************************************************)
EXTENDS Integers, Sequences

CONSTANTS
    Length,         \* of the stream, all that the writer has to say
    Capacity,       \* bytes the kernel holds on their way
    LUAL_BUFFERSIZE \* the reader's

ASSUME LengthAssumption == Length \in Nat
ASSUME CapacityAssumption == Capacity \in Nat \ {0}
ASSUME BufferAssumption == LUAL_BUFFERSIZE \in Nat \ {0}

VARIABLES
    stream,   \* all the writer has to say
    blocking, \* the writer's descriptor came from accept
    signals,  \* the writer's process catches signals
    unsent,   \* what no message has held yet
    rest,     \* what the running write() has not handed over
    ends,     \* history: the places where messages end
    writer,   \* "lua", "write", "closed" or "killed"
    reader,   \* the other end: "there" or "left"
    socket, pc, buffer, rlen, got, lost \* as in FileRead

fixed == <<stream, blocking, signals>>
writing == <<unsent, rest, ends, writer>>
reading == <<pc, buffer, rlen, got, lost>>
vars == <<fixed, writing, reader, socket, reading>>

\* The reader's end.  To it the peer is open until the writer's process has
\* closed the descriptor, or has come to its end.
Read == INSTANCE FileRead WITH
    Tokens <- 1 .. Length, Streams <- {[k \in 1 .. Length |-> k]},
    MayReset <- FALSE, unsent <- rest \o unsent,
    peer <- IF writer \in {"closed", "killed"} THEN "closed" ELSE "open"

Init ==
    /\ blocking \in BOOLEAN
    /\ signals \in BOOLEAN
    /\ stream = [k \in 1 .. Length |-> k]
    /\ unsent = stream
    /\ rest = <<>>
    /\ ends = {0}
    /\ writer = "lua"
    /\ reader = "there"
    /\ socket = <<>>
    /\ pc = "lua" /\ buffer = <<>> /\ rlen = LUAL_BUFFERSIZE /\ got = <<>> /\ lost = 0

-----------------------------------------------------------------------------
(* pipeline.write and file.write                                           *)

\* The next n bytes are a message.
Write(n) ==
    /\ writer = "lua"
    /\ n \in 1 .. Len(unsent)
    /\ rest' = SubSeq(unsent, 1, n)
    /\ unsent' = SubSeq(unsent, n + 1, Len(unsent))
    /\ ends' = ends \union {unsent[n]}
    /\ writer' = "write"
    /\ UNCHANGED <<fixed, reader, socket, reading>>

Room == Capacity - Len(socket)
Fits == IF Len(rest) < Room THEN Len(rest) ELSE Room

Takes(n) == socket' = socket \o SubSeq(rest, 1, n)

Again(n) == rest \* mutant: what was taken is handed over again
After(n) == SubSeq(rest, n + 1, Len(rest))

Never(n) == FALSE \* mutant: the call does not come back
AtOnce(n) == TRUE \* mutant: a short write is taken for a whole one
IsAll(n) == n = Len(rest)

\* A blocking write() goes on until all is handed over.
HandsOver(n) ==
    /\ writer = "write" /\ reader = "there"
    /\ blocking
    /\ n \in 1 .. Fits
    /\ Takes(n)
    /\ rest' = After(n)
    /\ writer' = IF IsAll(n) THEN "lua" ELSE "write"
    /\ UNCHANGED <<fixed, unsent, ends, reader, reading>>

\* Something of the message is handed over.
Begun == rest # <<>> /\ rest[1] - 1 \notin ends

\* file.write comes back and does not look at the answer.
Returns == rest' = <<>> /\ writer' = "lua" /\ UNCHANGED <<unsent, ends>>

\* One that does not block hands over what fits, if it is nothing (EAGAIN).
Cut ==
    /\ writer = "write" /\ reader = "there"
    /\ ~ blocking
    /\ Takes(Fits)
    /\ Returns
    /\ UNCHANGED <<fixed, reader, reading>>

\* A signal that nspr_event_add_signal has a handler for ends a blocking write()
\* that has handed something over (one that has not is started again).
Interrupted ==
    /\ writer = "write"
    /\ blocking /\ signals
    /\ Begun
    /\ Returns
    /\ UNCHANGED <<fixed, reader, socket, reading>>

\* The reader has gone: an error, or SIGPIPE, which nobody catches.
WriteFails ==
    /\ writer = "write" /\ reader = "left"
    /\ \/ Returns
       \/ writer' = "killed" /\ UNCHANGED <<unsent, rest, ends>>
    /\ UNCHANGED <<fixed, reader, socket, reading>>

\* pipeline.close
Close ==
    /\ writer = "lua"
    /\ writer' = "closed"
    /\ UNCHANGED <<fixed, unsent, rest, ends, reader, socket, reading>>

-----------------------------------------------------------------------------
(* The other end                                                           *)

ReaderReads ==
    /\ reader = "there"
    /\ UNCHANGED <<fixed, writing, reader>>
    /\ Read!Call \/ Read!ReadNext

\* It closes, with or without all that has come.
ReaderLeaves ==
    /\ reader = "there" /\ pc = "lua"
    /\ reader' = "left"
    /\ socket' = <<>>
    /\ UNCHANGED <<fixed, writing, reading>>

-----------------------------------------------------------------------------

WriteNext == Cut \/ Interrupted \/ WriteFails \/ \E n \in 1 .. Fits : HandsOver(n)

Ended == writer \in {"closed", "killed"} /\ reader = "left" /\ UNCHANGED vars

Next ==
    \/ \E n \in 1 .. Len(unsent) : Write(n)
    \/ WriteNext \/ Close \/ ReaderReads \/ ReaderLeaves \/ Ended

Spec == Init /\ [][Next]_vars

\* A write() that can go on does; whether the other end reads is left open.
FairSpec == Spec /\ WF_vars(WriteNext)

-----------------------------------------------------------------------------
(* Properties                                                              *)

\* A descriptor from accept, in a process that catches no signal, is what
\* FileRead takes a peer to be: nothing is lost or cut, and all FileRead shows
\* of the reader holds from end to end.
Reliable == blocking /\ ~ signals
ImplementsRead ==
    /\ Reliable => Read!Init
    /\ [][Reliable /\ reader' = "there" => Read!Next]_(Read!vars)

\* In the other cases bytes arrive once at most and in order, and what is
\* missing of a message is its end, which may be all of it (EAGAIN), never a
\* beginning or middle of one whose rest arrives.
Arrived == got \o buffer \o socket
Before(k) == IF k = 1 THEN 0 ELSE Arrived[k - 1]
OnlyTailsMissing ==
    \A k \in 1 .. Len(Arrived) :
        /\ Arrived[k] > Before(k)
        /\ Arrived[k] - 1 \in ends \union {Before(k)}

\* Only a reader that stays and takes nothing more can hold a writer up.
WritesEnd ==
    []<>(Room > 0 \/ reader = "left") => (writer = "write" ~> writer # "write")
=============================================================================
