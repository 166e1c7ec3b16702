---------------------------- MODULE Descriptors ----------------------------
(***************************************************************************)
(* How the process comes to its descriptors and gives them back:           *)
(* nspr_inet.c, nspr_file.c and their bindings in luapi.c.  A call from    *)
(* Lua is a sequence of system calls, each of which may fail, and peers    *)
(* and children move between any two of them.  Lua makes one call at a     *)
(* time, in any order, on the numbers it was given; as pipeline.lua does,  *)
(* it accepts when select() has reported the listener, writes when it has  *)
(* reported the descriptor, and gives a descriptor back once.              *)
(*                                                                         *)
(* The bytes that are written and read are in FileWrite and FileRead.      *)
(***************************************************************************)
EXTENDS Integers, FiniteSets

CONSTANTS
    Fds,       \* the descriptor numbers the process may have; 0 is not one
    MaxWaiting \* connections that wait at a listener

ASSUME FdsAssumption == \A f \in Fds : f \in Nat /\ f > 0
ASSUME MaxWaitingAssumption == MaxWaiting \in Nat \ {0}

NoFd == -1

VARIABLES
    sock,        \* what each number stands for in the kernel
    nonblocking, \* the sockets that were made so
    waiting,     \* connections that wait at each listener
    children,    \* pipes whose command runs
    held,        \* the numbers Lua was given and has not given back
    call         \* the C function that runs, the system call it comes to, its fd

vars == <<sock, nonblocking, waiting, children, held, call>>

\* "dialling": connect() is under way; "refused": it has failed, and nobody was
\* told; "broken": the peer has gone, and a write fails or raises SIGPIPE.
Kinds == {"none", "bare", "listening", "dialling", "connected", "refused", "broken", "pipe"}

Ops ==
    {"lua", "listen", "connect", "accept", "getifaceinfo", "write", "popen", "pclose", "killed"}
Steps ==
    {"lua", "setsockopt", "bind", "listen", "err", "ioctl", "connect", "accept",
     "SIOCGIFHWADDR", "SIOCGIFADDR", "SIOCGIFBRDADDR", "SIOCGIFNETMASK", "failed",
     "write", "popen", "wait"}

NoCall == [op |-> "lua", at |-> "lua", fd |-> NoFd]
Killed == [NoCall EXCEPT !.op = "killed"]

Init ==
    /\ sock = [f \in Fds |-> "none"]
    /\ nonblocking = {}
    /\ waiting = [f \in Fds |-> 0]
    /\ children = {}
    /\ held = {}
    /\ call = NoCall

-----------------------------------------------------------------------------

Open == {f \in Fds : sock[f] # "none"}
Free == Fds \ Open
Lowest == {f \in Free : \A g \in Free : f <= g}

Local == {call.fd} \ {NoFd}

\* Open, and neither Lua nor the running call knows of it.
Mislaid == Open \ (held \union Local)

At(op, step) == call.op = op /\ call.at = step
GoesTo(step) == call' = [call EXCEPT !.at = step]

Becomes(f, kind) == sock' = [sock EXCEPT ![f] = kind]

\* The kernel's close(); on -1 it changes nothing.
CloseFd(f) ==
    /\ sock' = [g \in Fds |-> IF g = f THEN "none" ELSE sock[g]]
    /\ nonblocking' = nonblocking \ {f}
    /\ waiting' = [g \in Fds |-> IF g = f THEN 0 ELSE waiting[g]]

Answers(f) == call' = NoCall /\ held' = held \union {f}
AnswersError == call' = NoCall /\ UNCHANGED held

Begins(op, step, f) ==
    /\ call = NoCall
    /\ call' = [op |-> op, at |-> step, fd |-> f]
    /\ UNCHANGED <<sock, nonblocking, waiting, children, held>>

\* socket(), the start of three calls.  For listen and connect the answer is an
\* error without it, and nothing has changed.
NewSocket(op, step) ==
    /\ call = NoCall
    /\ \E f \in Lowest :
         /\ Becomes(f, "bare")
         /\ call' = [op |-> op, at |-> step, fd |-> f]
    /\ UNCHANGED <<nonblocking, waiting, children, held>>

-----------------------------------------------------------------------------
(* nspr_create_ipv4_tcp_listen                                             *)

Listen == NewSocket("listen", "setsockopt")

AfterSuccess == [setsockopt |-> "bind", bind |-> "listen"]

SetSockOptOrBind ==
    /\ call.op = "listen" /\ call.at \in {"setsockopt", "bind"}
    /\ \E step \in {AfterSuccess[call.at], "err"} : GoesTo(step)
    /\ UNCHANGED <<sock, nonblocking, waiting, children, held>>

ListenReturns ==
    /\ At("listen", "listen")
    /\ \/ Becomes(call.fd, "listening") /\ Answers(call.fd)
       \/ GoesTo("err") /\ UNCHANGED <<sock, held>>
    /\ UNCHANGED <<nonblocking, waiting, children>>

NotClosed == UNCHANGED <<sock, nonblocking, waiting>> \* mutant: err without close
ClosesIt == CloseFd(call.fd)

ListenErr ==
    /\ At("listen", "err")
    /\ ClosesIt
    /\ AnswersError
    /\ UNCHANGED children

-----------------------------------------------------------------------------
(* nspr_create_ipv4_tcp_connect                                            *)

Connect == NewSocket("connect", "ioctl")

\* nspr_inet.c does not look at the answer of ioctl(FIONBIO), which does not fail.
Ioctl ==
    /\ At("connect", "ioctl")
    /\ nonblocking' = nonblocking \union {call.fd}
    /\ GoesTo("connect")
    /\ UNCHANGED <<sock, waiting, children, held>>

\* connect() succeeds at once, or goes on (EINPROGRESS), or fails: then the
\* answer is an error and the socket stays open.
AnswersAnyway == Answers(call.fd) \* mutant: every error is taken for EINPROGRESS
ConnectError == AnswersError

ConnectReturns ==
    /\ At("connect", "connect")
    /\ \/ \E kind \in {"connected", "dialling"} : Becomes(call.fd, kind) /\ Answers(call.fd)
       \/ ConnectError /\ UNCHANGED sock
    /\ UNCHANGED <<nonblocking, waiting, children>>

-----------------------------------------------------------------------------
(* nspr_create_ipv4_tcp_accept                                             *)

Unasked(f) == TRUE \* mutant: accept without a report of select()
Reported(f) == waiting[f] > 0

Accept(f) ==
    /\ f \in held /\ sock[f] = "listening"
    /\ Reported(f)
    /\ Begins("accept", "accept", f)

\* The listener is a blocking one: accept() waits for a connection.  The answer
\* is an error when no number is free, among others; the connection waits on.
AcceptReturns ==
    /\ At("accept", "accept") /\ waiting[call.fd] > 0
    /\ \/ \E f \in Lowest :
            /\ Becomes(f, "connected")
            /\ waiting' = [waiting EXCEPT ![call.fd] = @ - 1]
            /\ Answers(f)
       \/ AnswersError /\ UNCHANGED <<sock, waiting>>
    /\ UNCHANGED <<nonblocking, children>>

-----------------------------------------------------------------------------
(* nspr_get_iface_info                                                     *)

AfterIoctl ==
    [SIOCGIFHWADDR |-> "SIOCGIFADDR", SIOCGIFADDR |-> "SIOCGIFBRDADDR",
     SIOCGIFBRDADDR |-> "SIOCGIFNETMASK", SIOCGIFNETMASK |-> "failed"]

\* Without a socket it goes on with -1.
GetIfaceInfo ==
    \/ NewSocket("getifaceinfo", "SIOCGIFHWADDR")
    \/ Begins("getifaceinfo", "SIOCGIFHWADDR", NoFd)

IfaceIoctl ==
    /\ call.op = "getifaceinfo" /\ call.at \in DOMAIN AfterIoctl
    /\ \/ call.fd # NoFd /\ GoesTo(AfterIoctl[call.at])
       \/ GoesTo("failed")
    /\ UNCHANGED <<sock, nonblocking, waiting, children, held>>

\* The label both ways lead to.
IfaceFailed ==
    /\ At("getifaceinfo", "failed")
    /\ CloseFd(call.fd)
    /\ AnswersError
    /\ UNCHANGED children

-----------------------------------------------------------------------------
(* nspr_file.c                                                             *)

\* write() on a socket.  It may be one that still dials: pipeline.connect comes
\* back when select() reports it, whatever the report means.
Write(f) ==
    /\ f \in held /\ sock[f] \in {"dialling", "connected", "refused", "broken"}
    /\ Begins("write", "write", f)

\* Nobody looks at the answer.  A refused socket answers with its error once.
WriteReturns ==
    /\ At("write", "write")
    /\ IF sock[call.fd] = "refused" THEN Becomes(call.fd, "broken") ELSE UNCHANGED sock
    /\ \/ call' = NoCall
       \/ sock[call.fd] = "broken" /\ call' = Killed
    /\ UNCHANGED <<nonblocking, waiting, children, held>>

Close(f) ==
    /\ call = NoCall
    /\ f \in held /\ sock[f] # "pipe"
    /\ CloseFd(f)
    /\ held' = held \ {f}
    /\ UNCHANGED <<children, call>>

Popen == Begins("popen", "popen", NoFd)

\* popen() takes two numbers for a moment, and keeps the lower one.  Without
\* them, or without a process, it answers NULL, and fileno(NULL) ends the process.
PopenReturns ==
    /\ At("popen", "popen")
    /\ \/ /\ Cardinality(Free) > 1
          /\ \E f \in Lowest :
               /\ Becomes(f, "pipe")
               /\ children' = children \union {f}
               /\ Answers(f)
       \/ call' = Killed /\ UNCHANGED <<sock, children, held>>
    /\ UNCHANGED <<nonblocking, waiting>>

\* pclose() closes the pipe and waits for the command.
Pclose(f) ==
    /\ call = NoCall
    /\ f \in held /\ sock[f] = "pipe"
    /\ CloseFd(f)
    /\ held' = held \ {f}
    /\ call' = [op |-> "pclose", at |-> "wait", fd |-> f]
    /\ UNCHANGED children

PcloseReturns ==
    /\ At("pclose", "wait") /\ call.fd \notin children
    /\ call' = NoCall
    /\ UNCHANGED <<sock, nonblocking, waiting, children, held>>

IsKilled == call = Killed /\ UNCHANGED vars

-----------------------------------------------------------------------------
(* Peers and children                                                      *)

PeerConnects(f) ==
    /\ sock[f] = "listening" /\ waiting[f] < MaxWaiting
    /\ waiting' = [waiting EXCEPT ![f] = @ + 1]
    /\ UNCHANGED <<sock, nonblocking, children, held, call>>

DialEnds(f) ==
    /\ sock[f] = "dialling"
    /\ \E kind \in {"connected", "refused"} : Becomes(f, kind)
    /\ UNCHANGED <<nonblocking, waiting, children, held, call>>

PeerLeaves(f) ==
    /\ sock[f] = "connected"
    /\ Becomes(f, "broken")
    /\ UNCHANGED <<nonblocking, waiting, children, held, call>>

ChildExits(f) ==
    /\ f \in children
    /\ children' = children \ {f}
    /\ UNCHANGED <<sock, nonblocking, waiting, held, call>>

-----------------------------------------------------------------------------

Asks ==
    \/ Listen \/ Connect \/ GetIfaceInfo \/ Popen
    \/ \E f \in held : Accept(f) \/ Write(f) \/ Close(f) \/ Pclose(f)

GoesOn ==
    \/ SetSockOptOrBind \/ ListenReturns \/ ListenErr
    \/ Ioctl \/ ConnectReturns
    \/ AcceptReturns
    \/ IfaceIoctl \/ IfaceFailed
    \/ WriteReturns \/ PopenReturns \/ PcloseReturns

Outside == \E f \in Fds : PeerConnects(f) \/ DialEnds(f) \/ PeerLeaves(f) \/ ChildExits(f)

Next == Asks \/ GoesOn \/ Outside \/ IsKilled

Spec == Init /\ [][Next]_vars

\* A call runs on while it can; nothing is said of Lua, of peers and of children.
FairSpec == Spec /\ WF_vars(GoesOn)

-----------------------------------------------------------------------------
(* Properties                                                              *)

TypeOK ==
    /\ sock \in [Fds -> Kinds]
    /\ nonblocking \subseteq Open
    /\ waiting \in [Fds -> 0 .. MaxWaiting]
    /\ children \subseteq Fds
    /\ held \subseteq Fds
    /\ call \in [op : Ops, at : Steps, fd : Fds \union {NoFd}]

\* What Lua holds is open and ready for use, and cannot stop the process while
\* the peer makes up its mind: whichever system call fails, and wherever, no
\* half-made socket gets out, and no call closes what another one gave.
HandsOutReady ==
    \A f \in held :
        /\ sock[f] \notin {"none", "bare"}
        /\ sock[f] = "dialling" => f \in nonblocking

\* For Lua each call is one step: it gives a number nobody else has, or takes
\* one back, or fails without a trace.  Only a connect that fails leaves its
\* socket open for good (nspr_inet.c:79).
Calls == INSTANCE DescriptorCalls WITH mislaid <- Mislaid, op <- call.op
ImplementsCalls == Calls!Spec

\* Of these calls pclose can hold the process up as long as its command runs, and
\* write as long as the peer does not read (FileWrite, here it comes back); the
\* others come back whatever the peers do, accept because it was reported.
CallsReturn ==
    (\A f \in Fds : []<>(f \notin children)) =>
        (call.op # "lua" ~> call.op \in {"lua", "killed"})
=============================================================================
