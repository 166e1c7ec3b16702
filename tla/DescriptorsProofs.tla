------------------------- MODULE DescriptorsProofs -------------------------
(***************************************************************************)
(* An inductive invariant of Descriptors, and what follows from it for any *)
(* descriptor numbers: nothing half-made reaches Lua, and the calls        *)
(* implement DescriptorCalls.                                              *)
(***************************************************************************)
EXTENDS Descriptors, TLAPS

\* Where the descriptor of the running call stands: still its own, or one that
\* Lua holds, or none.
CallInv ==
    /\ call.op \in {"lua", "killed", "popen"} => call.fd = NoFd
    /\ call.op \in {"listen", "connect"} => call.fd \in Open \ held
    /\ call.op = "getifaceinfo" => call.fd = NoFd \/ call.fd \in Open \ held
    /\ call.op \in {"accept", "write"} => call.fd \in held
    /\ call.op = "pclose" => call.fd \notin Open
    /\ At("connect", "connect") => call.fd \in nonblocking

\* Whoever holds it, a socket that still dials does not block.
DialsAside == \A f \in Fds : sock[f] = "dialling" => f \in nonblocking

NothingBare == \A f \in held : sock[f] \notin {"none", "bare"}

IInv == TypeOK /\ CallInv /\ DialsAside /\ NothingBare

-----------------------------------------------------------------------------

LEMMA NoFdIsNone == NoFd \notin Fds
BY FdsAssumption DEF NoFd

LEMMA InitHolds == Init => IInv
<1> SUFFICES ASSUME Init PROVE IInv
  OBVIOUS
<1>1. TypeOK
  BY MaxWaitingAssumption DEF Init, TypeOK, Kinds, Ops, Steps, NoCall, Open, NoFd
<1>2. CallInv
  BY DEF Init, CallInv, NoCall, At
<1> QED BY <1>1, <1>2 DEF Init, IInv, DialsAside, NothingBare

\* close() of a number that Lua does not hold, or gives up.
LEMMA ClosingKeeps ==
    ASSUME IInv, NEW f \in Fds \union {NoFd}, CloseFd(f)
    PROVE  /\ sock' \in [Fds -> Kinds]
           /\ nonblocking' \subseteq Open'
           /\ waiting' \in [Fds -> 0 .. MaxWaiting]
           /\ DialsAside'
           /\ Open' = Open \ {f}
           /\ \A g \in Fds \ {f} : sock'[g] = sock[g]
<1>0. TypeOK /\ DialsAside
  BY DEF IInv
<1>1. sock' \in [Fds -> Kinds]
  BY <1>0 DEF CloseFd, TypeOK, Kinds
<1>2. \A g \in Fds : sock'[g] = IF g = f THEN "none" ELSE sock[g]
  BY DEF CloseFd
<1>3. Open' = Open \ {f}
  BY <1>2 DEF Open
<1>4. nonblocking' \subseteq Open'
  BY <1>0, <1>3 DEF CloseFd, TypeOK
<1>5. waiting' \in [Fds -> 0 .. MaxWaiting]
  BY <1>0, MaxWaitingAssumption DEF CloseFd, TypeOK
<1>6. DialsAside'
  BY <1>0, <1>2 DEF DialsAside, CloseFd
<1> QED BY <1>1, <1>2, <1>3, <1>4, <1>5, <1>6

\* A number whose entry in sock changes and stays open.
LEMMA BecomingKeeps ==
    ASSUME IInv, NEW f \in Fds, NEW kind \in Kinds \ {"none"}, Becomes(f, kind),
           nonblocking' = nonblocking, kind = "dialling" => f \in nonblocking
    PROVE  /\ sock' \in [Fds -> Kinds]
           /\ nonblocking' \subseteq Open'
           /\ DialsAside'
           /\ Open' = Open \union {f}
           /\ sock'[f] = kind
           /\ \A g \in Fds \ {f} : sock'[g] = sock[g]
<1>0. TypeOK /\ DialsAside
  BY DEF IInv
<1>1. sock' \in [Fds -> Kinds]
  BY <1>0 DEF Becomes, TypeOK
<1>2. sock'[f] = kind /\ \A g \in Fds \ {f} : sock'[g] = sock[g]
  BY <1>0 DEF Becomes, TypeOK
<1>3. Open' = Open \union {f}
  BY <1>2 DEF Open
<1>4. nonblocking' \subseteq Open'
  BY <1>0, <1>3 DEF TypeOK
<1>5. DialsAside'
  BY <1>0, <1>2 DEF DialsAside
<1> QED BY <1>1, <1>2, <1>3, <1>4, <1>5

\* What the next lemmas need of the invariant when sock does not change.
LEMMA KernelStays ==
    ASSUME IInv, UNCHANGED <<sock, nonblocking, waiting, held>>
    PROVE  /\ DialsAside' /\ NothingBare' /\ Open' = Open
           /\ sock' \in [Fds -> Kinds] /\ nonblocking' \subseteq Open'
           /\ waiting' \in [Fds -> 0 .. MaxWaiting] /\ held' \subseteq Fds
BY DEF IInv, TypeOK, DialsAside, NothingBare, Open

LEMMA NewSocketKeeps ==
    ASSUME IInv, NEW op \in {"listen", "connect", "getifaceinfo"}, NEW step \in Steps,
           NewSocket(op, step), step # "connect"
    PROVE  IInv'
<1>0. TypeOK /\ NothingBare /\ call = NoCall
  BY DEF IInv, NewSocket
<1>1. PICK f \in Fds : /\ f \notin Open /\ Becomes(f, "bare")
                       /\ call' = [op |-> op, at |-> step, fd |-> f]
  BY DEF NewSocket, Lowest, Free
<1>2. UNCHANGED <<nonblocking, waiting, children, held>>
  BY DEF NewSocket
<1>3. /\ sock' \in [Fds -> Kinds] /\ nonblocking' \subseteq Open' /\ DialsAside'
      /\ Open' = Open \union {f} /\ sock'[f] = "bare"
      /\ \A g \in Fds \ {f} : sock'[g] = sock[g]
  BY <1>1, <1>2, BecomingKeeps DEF Kinds
<1>4. f \notin held
  BY <1>0, <1>1 DEF NothingBare, TypeOK, Open
<1>5. TypeOK'
  BY <1>0, <1>1, <1>2, <1>3 DEF TypeOK, Ops
<1>6. CallInv'
  BY <1>1, <1>2, <1>3, <1>4 DEF CallInv, At
<1>7. NothingBare'
  BY <1>0, <1>2, <1>3, <1>4 DEF NothingBare, TypeOK
<1> QED BY <1>3, <1>5, <1>6, <1>7 DEF IInv

\* Steps that leave the kernel and Lua alone.
LEMMA CallKeeps ==
    ASSUME IInv, UNCHANGED <<sock, nonblocking, waiting, held>>, children' \subseteq Fds,
           call' \in [op : Ops, at : Steps, fd : Fds \union {NoFd}], CallInv'
    PROVE  IInv'
BY KernelStays DEF IInv, TypeOK

LEMMA BeginsKeeps ==
    ASSUME IInv, NEW op \in Ops, NEW step \in Steps, NEW f \in Fds \union {NoFd},
           Begins(op, step, f),
           \/ op \in {"popen", "getifaceinfo"} /\ f = NoFd
           \/ op \in {"accept", "write"} /\ f \in held
    PROVE  IInv'
<1>1. /\ call' = [op |-> op, at |-> step, fd |-> f]
      /\ UNCHANGED <<sock, nonblocking, waiting, children, held>>
  BY DEF Begins
<1>2. Open' = Open
  BY <1>1 DEF Open
<1>3. CallInv'
  BY <1>1, <1>2 DEF CallInv, At
<1> QED BY <1>1, <1>3, CallKeeps DEF IInv, TypeOK

\* The call comes to its next system call.
LEMMA GoesToKeeps ==
    ASSUME IInv, NEW step \in Steps, GoesTo(step),
           UNCHANGED <<sock, nonblocking, waiting, children, held>>,
           call.op # "connect"
    PROVE  IInv'
<1>0. TypeOK /\ CallInv
  BY DEF IInv
<1>1. /\ call' \in [op : Ops, at : Steps, fd : Fds \union {NoFd}]
      /\ call'.op = call.op /\ call'.fd = call.fd
  BY <1>0 DEF TypeOK, GoesTo
<1>2. Open' = Open
  BY DEF Open
<1>3. CallInv'
  BY <1>0, <1>1, <1>2 DEF CallInv, At
<1> QED BY <1>0, <1>1, <1>3, CallKeeps DEF TypeOK

\* The call is over, and Lua has what it had.
LEMMA EndKeeps ==
    ASSUME IInv, call' \in {NoCall, Killed},
           UNCHANGED <<sock, nonblocking, waiting, held>>, children' = children
    PROVE  IInv'
<1>1. call' \in [op : Ops, at : Steps, fd : Fds \union {NoFd}]
  BY DEF NoCall, Killed, Ops, Steps
<1>2. CallInv'
  BY DEF CallInv, NoCall, Killed, At
<1> QED BY <1>1, <1>2, CallKeeps DEF IInv, TypeOK

\* The call is over and gives Lua a number that has become something to use.
LEMMA AnswerKeeps ==
    ASSUME IInv, NEW f \in Fds, Answers(f), children' \subseteq Fds,
           waiting' \in [Fds -> 0 .. MaxWaiting], nonblocking' = nonblocking,
           NEW kind \in Kinds \ {"none", "bare"}, Becomes(f, kind),
           kind = "dialling" => f \in nonblocking
    PROVE  IInv'
<1>0. TypeOK /\ NothingBare
  BY DEF IInv
<1>1. call' = NoCall /\ held' = held \union {f}
  BY DEF Answers
<1>2. /\ sock' \in [Fds -> Kinds] /\ nonblocking' \subseteq Open' /\ DialsAside'
      /\ sock'[f] = kind /\ \A g \in Fds \ {f} : sock'[g] = sock[g]
  BY BecomingKeeps
<1>3. NothingBare'
  BY <1>0, <1>1, <1>2 DEF NothingBare, TypeOK
<1>4. CallInv'
  BY <1>1 DEF CallInv, NoCall, At
<1>5. TypeOK'
  BY <1>0, <1>1, <1>2 DEF TypeOK, NoCall, Ops, Steps
<1> QED BY <1>2, <1>3, <1>4, <1>5 DEF IInv

\* The kernel moves: an open number stays open and does not come to dial.
LEMMA OutsideKeeps ==
    ASSUME IInv, NEW f \in Fds, UNCHANGED <<nonblocking, children, held, call, waiting>>,
           f \in Open, NEW kind \in {"connected", "refused", "broken"}, Becomes(f, kind)
    PROVE  IInv'
<1>0. TypeOK /\ CallInv /\ NothingBare
  BY DEF IInv
<1>1. /\ sock' \in [Fds -> Kinds] /\ nonblocking' \subseteq Open' /\ DialsAside'
      /\ Open' = Open \union {f} /\ sock'[f] = kind
      /\ \A g \in Fds \ {f} : sock'[g] = sock[g]
  BY BecomingKeeps DEF Kinds
<1>2. Open' = Open
  BY <1>1
<1>3. TypeOK'
  BY <1>0, <1>1 DEF TypeOK
<1>4. CallInv'
  BY <1>0, <1>2 DEF CallInv, At
<1>5. NothingBare'
  BY <1>0, <1>1 DEF NothingBare, TypeOK
<1> QED BY <1>1, <1>3, <1>4, <1>5 DEF IInv

\* A number that Lua does not hold any more is closed.
LEMMA CloseKeeps ==
    ASSUME IInv, NEW f \in Fds \union {NoFd}, CloseFd(f), children' = children,
           held' = held \ {f},
           \/ call' = NoCall
           \/ call' = [op |-> "pclose", at |-> "wait", fd |-> f]
    PROVE  IInv'
<1>0. TypeOK /\ NothingBare
  BY DEF IInv
<1>1. /\ sock' \in [Fds -> Kinds] /\ nonblocking' \subseteq Open'
      /\ waiting' \in [Fds -> 0 .. MaxWaiting] /\ DialsAside'
      /\ Open' = Open \ {f} /\ \A g \in Fds \ {f} : sock'[g] = sock[g]
  BY ClosingKeeps
<1>2. CallInv'
  BY <1>1 DEF CallInv, NoCall, At
<1>3. NothingBare'
  BY <1>0, <1>1 DEF NothingBare, TypeOK
<1>4. TypeOK'
  BY <1>0, <1>1 DEF TypeOK, NoCall, Ops, Steps
<1> QED BY <1>1, <1>2, <1>3, <1>4 DEF IInv

-----------------------------------------------------------------------------
(* The invariant                                                           *)

LEMMA AskingKeeps == IInv /\ Asks => IInv'
<1> SUFFICES ASSUME IInv, Asks PROVE IInv'
  OBVIOUS
<1>0. TypeOK
  BY DEF IInv
<1>1. CASE Listen
  BY <1>1, NewSocketKeeps DEF Listen, Steps
<1>2. CASE Connect
  BY <1>2, NewSocketKeeps DEF Connect, Steps
<1>3. CASE GetIfaceInfo
  <2>1. CASE NewSocket("getifaceinfo", "SIOCGIFHWADDR")
    BY <2>1, NewSocketKeeps DEF Steps
  <2>2. CASE Begins("getifaceinfo", "SIOCGIFHWADDR", NoFd)
    BY <2>2, BeginsKeeps DEF Ops, Steps
  <2> QED BY <1>3, <2>1, <2>2 DEF GetIfaceInfo
<1>4. CASE Popen
  BY <1>4, BeginsKeeps DEF Popen, Ops, Steps
<1>5. ASSUME NEW f \in held, Accept(f) PROVE IInv'
  BY <1>0, <1>5, BeginsKeeps DEF Accept, TypeOK, Ops, Steps
<1>6. ASSUME NEW f \in held, Write(f) PROVE IInv'
  BY <1>0, <1>6, BeginsKeeps DEF Write, TypeOK, Ops, Steps
<1>7. ASSUME NEW f \in held, Close(f) PROVE IInv'
  BY <1>0, <1>7, CloseKeeps DEF Close, TypeOK
<1>8. ASSUME NEW f \in held, Pclose(f) PROVE IInv'
  BY <1>0, <1>8, CloseKeeps DEF Pclose, TypeOK
<1> QED BY <1>1, <1>2, <1>3, <1>4, <1>5, <1>6, <1>7, <1>8 DEF Asks

LEMMA GoingOnKeeps == IInv /\ GoesOn => IInv'
<1> SUFFICES ASSUME IInv, GoesOn PROVE IInv'
  OBVIOUS
<1>0. TypeOK /\ CallInv /\ NoFd \notin Fds
  BY NoFdIsNone DEF IInv
<1>1. CASE SetSockOptOrBind
  <2>1. PICK step \in Steps : GoesTo(step)
    BY <1>1 DEF SetSockOptOrBind, AfterSuccess, Steps
  <2> QED BY <1>1, <2>1, GoesToKeeps DEF SetSockOptOrBind
<1>2. CASE ListenReturns
  <2>1. call.fd \in Fds /\ call.op = "listen" /\ UNCHANGED <<nonblocking, waiting, children>>
    BY <1>0, <1>2 DEF ListenReturns, At, CallInv, Open
  <2>2. CASE Becomes(call.fd, "listening") /\ Answers(call.fd)
    BY <1>0, <2>1, <2>2, AnswerKeeps DEF Kinds, TypeOK
  <2>3. CASE GoesTo("err") /\ UNCHANGED <<sock, held>>
    BY <2>1, <2>3, GoesToKeeps DEF Steps
  <2> QED BY <1>2, <2>2, <2>3 DEF ListenReturns
<1>3. CASE ListenErr
  <2>1. call.fd \in Fds \ held /\ CloseFd(call.fd) /\ call' = NoCall /\ held' = held
    BY <1>0, <1>3 DEF ListenErr, At, CallInv, Open, ClosesIt, AnswersError
  <2> QED BY <1>3, <2>1, CloseKeeps DEF ListenErr
<1>4. CASE Ioctl
  <2>1. /\ call.fd \in Open \ held /\ nonblocking' = nonblocking \union {call.fd}
        /\ call' = [call EXCEPT !.at = "connect"]
        /\ UNCHANGED <<sock, waiting, children, held>>
    BY <1>0, <1>4 DEF Ioctl, At, CallInv, GoesTo
  <2>2. Open' = Open
    BY <2>1 DEF Open
  <2>3. TypeOK'
    BY <1>0, <2>1, <2>2 DEF TypeOK, Steps
  <2>4. CallInv'
    BY <1>0, <2>1, <2>2 DEF CallInv, At, TypeOK
  <2>5. DialsAside' /\ NothingBare'
    BY <2>1 DEF IInv, DialsAside, NothingBare
  <2> QED BY <2>3, <2>4, <2>5 DEF IInv
<1>5. CASE ConnectReturns
  <2>1. /\ call.fd \in Fds /\ call.fd \in nonblocking
        /\ UNCHANGED <<nonblocking, waiting, children>>
    BY <1>0, <1>5 DEF ConnectReturns, At, CallInv, Open
  <2>2. ASSUME NEW kind \in {"connected", "dialling"}, Becomes(call.fd, kind), Answers(call.fd)
        PROVE  IInv'
    BY <1>0, <2>1, <2>2, AnswerKeeps DEF Kinds, TypeOK
  <2>3. CASE ConnectError /\ UNCHANGED sock
    BY <2>1, <2>3, EndKeeps DEF ConnectError, AnswersError
  <2> QED BY <1>5, <2>2, <2>3 DEF ConnectReturns
<1>6. CASE AcceptReturns
  <2>1. UNCHANGED <<nonblocking, children>>
    BY <1>6 DEF AcceptReturns
  <2>2. ASSUME NEW f \in Lowest, Becomes(f, "connected"), Answers(f),
               waiting' = [waiting EXCEPT ![call.fd] = @ - 1]
        PROVE  IInv'
    <3>1. waiting[call.fd] > 0 /\ call.fd \in Fds
      BY <1>0, <1>6 DEF AcceptReturns, At, CallInv, TypeOK
    <3>2. waiting' \in [Fds -> 0 .. MaxWaiting]
      BY <1>0, <2>2, <3>1, MaxWaitingAssumption DEF TypeOK
    <3> QED BY <1>0, <2>1, <2>2, <3>2, AnswerKeeps DEF Kinds, TypeOK, Lowest, Free
  <2>3. CASE AnswersError /\ UNCHANGED <<sock, waiting>>
    BY <2>1, <2>3, EndKeeps DEF AnswersError
  <2> QED BY <1>6, <2>2, <2>3 DEF AcceptReturns
<1>7. CASE IfaceIoctl
  <2>1. PICK step \in Steps : GoesTo(step)
    BY <1>7 DEF IfaceIoctl, AfterIoctl, Steps
  <2> QED BY <1>7, <2>1, GoesToKeeps DEF IfaceIoctl
<1>8. CASE IfaceFailed
  <2>1. /\ call.fd \in Fds \union {NoFd} /\ call.fd \notin held /\ CloseFd(call.fd)
        /\ call' = NoCall /\ held' = held
    BY <1>0, <1>8 DEF IfaceFailed, At, CallInv, TypeOK, AnswersError
  <2> QED BY <1>8, <2>1, CloseKeeps DEF IfaceFailed
<1>9. CASE WriteReturns
  <2>1. /\ call.fd \in Fds /\ call' \in {NoCall, Killed}
        /\ UNCHANGED <<nonblocking, waiting, children, held>>
    BY <1>0, <1>9 DEF WriteReturns, At, CallInv, TypeOK
  <2>2. CASE UNCHANGED sock
    BY <2>1, <2>2, EndKeeps
  <2>3. CASE sock[call.fd] = "refused" /\ Becomes(call.fd, "broken")
    <3>1. /\ sock' \in [Fds -> Kinds] /\ nonblocking' \subseteq Open' /\ DialsAside'
          /\ sock'[call.fd] = "broken" /\ \A g \in Fds \ {call.fd} : sock'[g] = sock[g]
      BY <2>1, <2>3, BecomingKeeps DEF Kinds
    <3>2. NothingBare'
      BY <1>0, <2>1, <3>1 DEF IInv, NothingBare, TypeOK
    <3>3. TypeOK'
      BY <1>0, <2>1, <3>1 DEF TypeOK, NoCall, Killed, Ops, Steps
    <3>4. CallInv'
      BY <2>1 DEF CallInv, NoCall, Killed, At
    <3> QED BY <3>1, <3>2, <3>3, <3>4 DEF IInv
  <2> QED BY <1>9, <2>2, <2>3 DEF WriteReturns
<1>10. CASE PopenReturns
  <2>1. UNCHANGED <<nonblocking, waiting>>
    BY <1>10 DEF PopenReturns
  <2>2. ASSUME NEW f \in Lowest, Becomes(f, "pipe"), Answers(f), children' = children \union {f}
        PROVE  IInv'
    <3>1. f \in Fds /\ children' \subseteq Fds
      BY <1>0, <2>2 DEF TypeOK, Lowest, Free
    <3> QED BY <1>0, <2>1, <2>2, <3>1, AnswerKeeps DEF Kinds, TypeOK
  <2>3. CASE call' = Killed /\ UNCHANGED <<sock, children, held>>
    BY <2>1, <2>3, EndKeeps
  <2> QED BY <1>10, <2>2, <2>3 DEF PopenReturns
<1>11. CASE PcloseReturns
  BY <1>11, EndKeeps DEF PcloseReturns
<1> QED
  BY <1>1, <1>2, <1>3, <1>4, <1>5, <1>6, <1>7, <1>8, <1>9, <1>10, <1>11 DEF GoesOn

LEMMA MovingKeeps == IInv /\ Outside => IInv'
<1> SUFFICES ASSUME IInv, NEW f \in Fds,
                    PeerConnects(f) \/ DialEnds(f) \/ PeerLeaves(f) \/ ChildExits(f)
             PROVE  IInv'
  BY DEF Outside
<1>0. TypeOK /\ CallInv
  BY DEF IInv
<1>1. CASE PeerConnects(f)
  <2>1. UNCHANGED <<sock, nonblocking, children, held, call>>
    BY <1>1 DEF PeerConnects
  <2>2. waiting' \in [Fds -> 0 .. MaxWaiting]
    BY <1>0, <1>1, MaxWaitingAssumption DEF PeerConnects, TypeOK
  <2> QED BY <2>1, <2>2 DEF IInv, TypeOK, CallInv, At, DialsAside, NothingBare, Open
<1>2. CASE DialEnds(f)
  BY <1>2, OutsideKeeps DEF DialEnds, Open
<1>3. CASE PeerLeaves(f)
  BY <1>3, OutsideKeeps DEF PeerLeaves, Open
<1>4. CASE ChildExits(f)
  <2>1. /\ UNCHANGED <<sock, nonblocking, waiting, held, call>> /\ children' \subseteq Fds
    BY <1>0, <1>4 DEF ChildExits, TypeOK
  <2> QED BY <2>1 DEF IInv, TypeOK, CallInv, At, DialsAside, NothingBare, Open
<1> QED BY <1>1, <1>2, <1>3, <1>4

LEMMA Invariance == Spec => []IInv
<1>1. IInv /\ UNCHANGED vars => IInv'
  BY DEF vars, IInv, TypeOK, CallInv, At, DialsAside, NothingBare, Open
<1>2. IInv /\ [Next]_vars => IInv'
  BY <1>1, AskingKeeps, GoingOnKeeps, MovingKeeps DEF Next, IsKilled
<1> QED BY InitHolds, <1>2, PTL DEF Spec

\* Every variable keeps its type, for any numbers and any length of the queues.
THEOREM DescriptorTypes == Spec => []TypeOK
BY Invariance, PTL DEF IInv

\* Whichever system call fails, a number that Lua holds is open, finished, and
\* does not block while it dials.
THEOREM NothingHalfMade == Spec => []HandsOutReady
<1>1. IInv => HandsOutReady
  BY DEF IInv, TypeOK, DialsAside, NothingBare, HandsOutReady
<1> QED BY <1>1, Invariance, PTL

-----------------------------------------------------------------------------
(* Refinement                                                              *)

LEMMA CallsInit == Init => Calls!Init
BY DEF Init, Calls!Init, NoCall, Mislaid, Open, Local

\* While a call only goes on, Lua and the mislaid numbers stay as they are.
LEMMA SameMislaid ==
    ASSUME Open' = Open, UNCHANGED held, call'.fd = call.fd
    PROVE  Calls!ChangesNothing
BY DEF Calls!ChangesNothing, Mislaid, Local

\* A number the call had for itself, or none, is closed with the call.
LEMMA SameWhenDropped ==
    ASSUME TypeOK, call.fd \notin held, CloseFd(call.fd), UNCHANGED held, call' = NoCall, IInv
    PROVE  Calls!ChangesNothing
<1>1. Open' = Open \ {call.fd}
  BY ClosingKeeps DEF TypeOK
<1>2. Local' = {}
  BY DEF Local, NoCall
<1> QED BY <1>1, <1>2, NoFdIsNone DEF Calls!ChangesNothing, Mislaid, Local, Open

\* A number that is free, or the call's own, goes to Lua.
LEMMA GivenToLua ==
    ASSUME IInv, call.op \in {"listen", "connect", "accept", "popen"}, NEW f \in Fds,
           f \notin held, f \notin Mislaid, Answers(f), Open' = Open \union {f},
           call.fd = f \/ call.fd \in held \union {NoFd}
    PROVE  Calls!Gives
<1>1. call' = NoCall /\ held' = held \union {f}
  BY DEF Answers
<1>2. Mislaid' = Mislaid
  BY <1>1, NoFdIsNone DEF Mislaid, Local, NoCall, Open
<1> QED BY <1>1, <1>2 DEF Calls!Gives, NoCall

LEMMA AsksStep == IInv /\ Asks => Calls!Next
<1> SUFFICES ASSUME IInv, Asks PROVE Calls!Next
  OBVIOUS
<1>0. TypeOK /\ CallInv /\ NothingBare /\ NoFd \notin Fds
  BY NoFdIsNone DEF IInv
<1>1. ASSUME NEW op \in Ops, NEW step \in Steps, NewSocket(op, step)
      PROVE  Calls!ChangesNothing
  <2>1. PICK f \in Fds : /\ f \notin Open /\ Becomes(f, "bare")
                         /\ call' = [op |-> op, at |-> step, fd |-> f]
    BY <1>1 DEF NewSocket, Lowest, Free
  <2>2. call = NoCall /\ UNCHANGED <<nonblocking, held>>
    BY <1>1 DEF NewSocket
  <2>3. Open' = Open \union {f}
    BY <2>1, <2>2, BecomingKeeps DEF Kinds
  <2>4. Local = {} /\ Local' = {f}
    BY <1>0, <2>1, <2>2 DEF Local, NoCall
  <2> QED BY <2>1, <2>2, <2>3, <2>4 DEF Calls!ChangesNothing, Mislaid
<1>2. ASSUME NEW op \in Ops, NEW step \in Steps, NEW f \in held \union {NoFd},
             Begins(op, step, f)
      PROVE  Calls!ChangesNothing
  <2>1. /\ call = NoCall /\ call' = [op |-> op, at |-> step, fd |-> f]
        /\ UNCHANGED <<sock, held>>
    BY <1>2 DEF Begins
  <2>2. Open' = Open /\ Local = {} /\ Local' \subseteq held
    BY <2>1 DEF Open, Local, NoCall
  <2> QED BY <2>1, <2>2 DEF Calls!ChangesNothing, Mislaid
<1>3. ASSUME NEW f \in held, CloseFd(f), held' = held \ {f}, call = NoCall,
             \/ call' = call
             \/ call' = [op |-> "pclose", at |-> "wait", fd |-> f]
      PROVE  Calls!TakesBack
  <2>1. Open' = Open \ {f}
    BY <1>0, <1>3, ClosingKeeps DEF TypeOK
  <2>2. Local = {} /\ Local' \subseteq {f}
    BY <1>3 DEF Local, NoCall
  <2>3. Mislaid' = Mislaid
    BY <1>3, <2>1, <2>2 DEF Mislaid
  <2> QED BY <1>3, <2>3 DEF Calls!TakesBack, NoCall
<1>4. CASE Listen \/ Connect
  BY <1>4, <1>1 DEF Listen, Connect, Ops, Steps, Calls!Next
<1>5. CASE GetIfaceInfo \/ Popen
  BY <1>5, <1>1, <1>2 DEF GetIfaceInfo, Popen, Ops, Steps, Calls!Next
<1>6. ASSUME NEW f \in held, Accept(f) \/ Write(f) PROVE Calls!Next
  BY <1>6, <1>2 DEF Accept, Write, Ops, Steps, Calls!Next
<1>7. ASSUME NEW f \in held, Close(f) \/ Pclose(f) PROVE Calls!Next
  BY <1>7, <1>3 DEF Close, Pclose, Calls!Next
<1> QED BY <1>4, <1>5, <1>6, <1>7 DEF Asks

LEMMA GoesOnStep == IInv /\ GoesOn => Calls!Next
<1> SUFFICES ASSUME IInv, GoesOn PROVE Calls!Next
  OBVIOUS
<1>0. TypeOK /\ CallInv /\ NoFd \notin Fds
  BY NoFdIsNone DEF IInv
<1>1. CASE SetSockOptOrBind \/ Ioctl \/ IfaceIoctl
  <2>1. UNCHANGED <<sock, held>> /\ call'.fd = call.fd
    BY <1>0, <1>1 DEF SetSockOptOrBind, Ioctl, IfaceIoctl, GoesTo, TypeOK
  <2> QED BY <2>1, SameMislaid DEF Open, Calls!Next
<1>2. CASE ListenReturns
  <2>1. call.fd \in Open \ held /\ call.op = "listen" /\ nonblocking' = nonblocking
    BY <1>0, <1>2 DEF ListenReturns, At, CallInv
  <2>2. CASE Becomes(call.fd, "listening") /\ Answers(call.fd)
    <3>1. Open' = Open \union {call.fd}
      BY <2>1, <2>2, BecomingKeeps DEF Kinds, Open
    <3>2. call.fd \in Fds \ (held \union Mislaid)
      BY <1>0, <2>1 DEF Mislaid, Local, Open
    <3> QED BY <1>0, <2>1, <2>2, <3>1, <3>2, GivenToLua DEF Calls!Next
  <2>3. CASE GoesTo("err") /\ UNCHANGED <<sock, held>>
    BY <1>0, <2>3, SameMislaid DEF GoesTo, TypeOK, Open, Calls!Next
  <2> QED BY <1>2, <2>2, <2>3 DEF ListenReturns
<1>3. CASE ListenErr \/ IfaceFailed
  <2>1. call.fd \notin held /\ CloseFd(call.fd) /\ UNCHANGED held /\ call' = NoCall
    BY <1>0, <1>3
    DEF ListenErr, IfaceFailed, ClosesIt, AnswersError, At, CallInv, TypeOK
  <2> QED BY <1>0, <2>1, SameWhenDropped DEF Calls!Next
<1>4. CASE ConnectReturns
  <2>1. /\ call.fd \in Open \ held /\ call.op = "connect" /\ nonblocking' = nonblocking
        /\ call.fd \in nonblocking
    BY <1>0, <1>4 DEF ConnectReturns, At, CallInv
  <2>2. ASSUME NEW kind \in {"connected", "dialling"}, Becomes(call.fd, kind), Answers(call.fd)
        PROVE  Calls!Next
    <3>1. Open' = Open \union {call.fd}
      BY <2>1, <2>2, BecomingKeeps DEF Kinds, Open
    <3>2. call.fd \in Fds \ (held \union Mislaid)
      BY <1>0, <2>1 DEF Mislaid, Local, Open
    <3> QED BY <1>0, <2>1, <2>2, <3>1, <3>2, GivenToLua DEF Calls!Next
  <2>3. CASE ConnectError /\ UNCHANGED sock
    <3>1. call' = NoCall /\ UNCHANGED held /\ Open' = Open
      BY <2>3 DEF ConnectError, AnswersError, Open
    <3>2. call.fd \in Fds \ (held \union Mislaid) /\ Mislaid' = Mislaid \union {call.fd}
      BY <1>0, <2>1, <3>1 DEF Mislaid, Local, NoCall, Open
    <3> QED BY <2>1, <3>1, <3>2 DEF Calls!Mislays, Calls!Next, NoCall
  <2> QED BY <1>4, <2>2, <2>3 DEF ConnectReturns
<1>5. CASE AcceptReturns
  <2>1. call.fd \in held /\ call.op = "accept" /\ UNCHANGED <<nonblocking, children>>
    BY <1>0, <1>5 DEF AcceptReturns, At, CallInv
  <2>2. ASSUME NEW f \in Lowest, Becomes(f, "connected"), Answers(f)
        PROVE  Calls!Next
    <3>1. f \in Fds \ Open
      BY <2>2 DEF Lowest, Free
    <3>2. Open' = Open \union {f} /\ f \notin held
      BY <2>1, <2>2, <3>1, BecomingKeeps DEF Kinds, IInv, NothingBare, Open
    <3> QED BY <2>1, <2>2, <3>1, <3>2, GivenToLua DEF Mislaid, Calls!Next
  <2>3. CASE AnswersError /\ UNCHANGED <<sock, waiting>>
    BY <1>0, <2>1, <2>3
    DEF AnswersError, NoCall, Open, Mislaid, Local, Calls!ChangesNothing, Calls!Next
  <2> QED BY <1>5, <2>2, <2>3 DEF AcceptReturns
<1>6. CASE WriteReturns
  <2>1. /\ call.fd \in held /\ call' \in {NoCall, Killed}
        /\ UNCHANGED <<nonblocking, held>>
    BY <1>0, <1>6 DEF WriteReturns, At, CallInv
  <2>2. CASE UNCHANGED sock
    BY <2>1, <2>2 DEF NoCall, Killed, Open, Mislaid, Local, Calls!ChangesNothing, Calls!Next
  <2>3. CASE sock[call.fd] = "refused" /\ Becomes(call.fd, "broken")
    <3>1. Open' = Open \union {call.fd}
      BY <1>0, <2>1, <2>3, BecomingKeeps DEF Kinds, TypeOK
    <3> QED BY <2>1, <3>1
         DEF NoCall, Killed, Mislaid, Local, Calls!ChangesNothing, Calls!Next
  <2> QED BY <1>6, <2>2, <2>3 DEF WriteReturns
<1>7. CASE PopenReturns
  <2>1. call.fd = NoFd /\ call.op = "popen" /\ nonblocking' = nonblocking
    BY <1>0, <1>7 DEF PopenReturns, At, CallInv
  <2>2. ASSUME NEW f \in Lowest, Becomes(f, "pipe"), Answers(f)
        PROVE  Calls!Next
    <3>1. f \in Fds \ Open
      BY <2>2 DEF Lowest, Free
    <3>2. Open' = Open \union {f} /\ f \notin held
      BY <2>1, <2>2, <3>1, BecomingKeeps DEF Kinds, IInv, NothingBare, Open
    <3> QED BY <2>1, <2>2, <3>1, <3>2, GivenToLua DEF Mislaid, Calls!Next
  <2>3. CASE call' = Killed /\ UNCHANGED <<sock, children, held>>
    BY <2>1, <2>3
    DEF NoCall, Killed, Open, Mislaid, Local, Calls!ChangesNothing, Calls!Next
  <2> QED BY <1>7, <2>2, <2>3 DEF PopenReturns
<1>8. CASE PcloseReturns
  <2>1. /\ call.fd \notin Open /\ call' = NoCall /\ UNCHANGED <<sock, held>>
    BY <1>0, <1>8 DEF PcloseReturns, At, CallInv
  <2> QED BY <2>1 DEF NoCall, Open, Mislaid, Local, Calls!ChangesNothing, Calls!Next
<1> QED BY <1>1, <1>2, <1>3, <1>4, <1>5, <1>6, <1>7, <1>8 DEF GoesOn

LEMMA OutsideStep == IInv /\ Outside => Calls!Next
<1> SUFFICES ASSUME IInv, NEW f \in Fds,
                    PeerConnects(f) \/ DialEnds(f) \/ PeerLeaves(f) \/ ChildExits(f)
             PROVE  Calls!ChangesNothing
  BY DEF Outside, Calls!Next
<1>1. UNCHANGED <<nonblocking, held, call>>
  BY DEF PeerConnects, DialEnds, PeerLeaves, ChildExits
<1>2. Open' = Open
  <2>1. CASE UNCHANGED sock
    BY <2>1 DEF Open
  <2>2. ASSUME f \in Open, NEW kind \in {"connected", "refused", "broken"}, Becomes(f, kind)
        PROVE  Open' = Open
    BY <1>1, <2>2, BecomingKeeps DEF Kinds
  <2> QED BY <2>1, <2>2 DEF PeerConnects, DialEnds, PeerLeaves, ChildExits, Open
<1> QED BY <1>1, <1>2, SameMislaid

\* However a call is cut into system calls, and whatever peers and children do
\* between them, to Lua it is one step of DescriptorCalls.
THEOREM CallsImplemented == Spec => ImplementsCalls
<1>1. IInv /\ [Next]_vars => [Calls!Next]_(Calls!vars)
  <2>1. UNCHANGED vars => UNCHANGED Calls!vars
    BY DEF vars, Calls!vars, Mislaid, Open, Local
  <2> QED BY <2>1, AsksStep, GoesOnStep, OutsideStep DEF Next, IsKilled
<1> QED BY <1>1, CallsInit, Invariance, PTL DEF Spec, ImplementsCalls, Calls!Spec

-----------------------------------------------------------------------------
(* What CallsReturn needs of the code besides fairness.                     *)

\* The system calls a call from Lua has before it.
CallsLeft ==
    CASE call.op = "listen"  -> [setsockopt |-> 4, bind |-> 3, listen |-> 2, err |-> 1][call.at]
      [] call.op = "connect" -> IF call.at = "ioctl" THEN 2 ELSE 1
      [] call.op = "getifaceinfo" ->
           [SIOCGIFHWADDR |-> 5, SIOCGIFADDR |-> 4, SIOCGIFBRDADDR |-> 3,
            SIOCGIFNETMASK |-> 2, failed |-> 1][call.at]
      [] call.op \in {"lua", "killed"} -> 0
      [] OTHER -> 1

\* Where each call may stand, and accept has a connection before it.
PlacesInv ==
    /\ call.op = "listen" => call.at \in {"setsockopt", "bind", "listen", "err"}
    /\ call.op = "connect" => call.at \in {"ioctl", "connect"}
    /\ call.op = "getifaceinfo" => call.at \in DOMAIN AfterIoctl \union {"failed"}
    /\ call.op = "accept" => waiting[call.fd] > 0

LEMMA CallsLeftAreFew == PlacesInv => CallsLeft \in 0 .. 5
BY DEF PlacesInv, CallsLeft, AfterIoctl

LEMMA PlacesStep == IInv /\ PlacesInv /\ [Next]_vars => PlacesInv'
<1> SUFFICES ASSUME IInv, PlacesInv, [Next]_vars PROVE PlacesInv'
  OBVIOUS
<1>0. /\ call \in [op : Ops, at : Steps, fd : Fds \union {NoFd}]
      /\ waiting \in [Fds -> 0 .. MaxWaiting] /\ held \subseteq Fds
  BY DEF IInv, TypeOK
<1>1. ASSUME call' \in {NoCall, Killed} PROVE PlacesInv'
  BY <1>1 DEF NoCall, Killed, PlacesInv
<1>2. CASE Listen \/ Connect \/ NewSocket("getifaceinfo", "SIOCGIFHWADDR")
  BY <1>2 DEF Listen, Connect, NewSocket, PlacesInv, AfterIoctl
<1>3. CASE Popen \/ Begins("getifaceinfo", "SIOCGIFHWADDR", NoFd)
  BY <1>3 DEF Popen, Begins, PlacesInv, AfterIoctl
<1>4. ASSUME NEW f \in held, Accept(f) PROVE PlacesInv'
  <2>1. /\ call'.op = "accept" /\ call'.fd = f
        /\ waiting' = waiting /\ waiting[f] > 0
    BY <1>4 DEF Accept, Reported, Begins
  <2> QED BY <2>1 DEF PlacesInv
<1>5. ASSUME NEW f \in held, Write(f) \/ Close(f) \/ Pclose(f) PROVE PlacesInv'
  <2>1. call'.op \in {"write", "lua", "pclose"}
    BY <1>5 DEF Write, Begins, Close, NoCall, Pclose
  <2> QED BY <2>1 DEF PlacesInv
<1>6. CASE SetSockOptOrBind
  <2>1. call.op = "listen" /\ call.at \in {"setsockopt", "bind"}
    BY <1>6 DEF SetSockOptOrBind
  <2>2. call'.op = "listen" /\ call'.at \in {"bind", "listen", "err"}
    BY <1>0, <1>6, <2>1 DEF SetSockOptOrBind, GoesTo, AfterSuccess
  <2> QED BY <2>2 DEF PlacesInv
<1>7. CASE ListenReturns
  BY <1>0, <1>1, <1>7 DEF ListenReturns, At, Answers, GoesTo, PlacesInv
<1>8. CASE Ioctl
  BY <1>0, <1>8 DEF Ioctl, At, GoesTo, PlacesInv
<1>9. CASE ListenErr \/ ConnectReturns \/ AcceptReturns \/ IfaceFailed
  BY <1>1, <1>9 DEF ListenErr, ConnectReturns, ConnectError, AcceptReturns, IfaceFailed, Answers,
                    AnswersError
<1>10. CASE WriteReturns \/ PopenReturns \/ PcloseReturns
  BY <1>1, <1>10 DEF WriteReturns, PopenReturns, PcloseReturns, Answers
<1>11. CASE IfaceIoctl
  <2>1. call'.op = "getifaceinfo" /\ call'.at \in DOMAIN AfterIoctl \union {"failed"}
    BY <1>0, <1>11 DEF IfaceIoctl, GoesTo, AfterIoctl
  <2> QED BY <2>1 DEF PlacesInv
<1>12. ASSUME NEW f \in Fds, PeerConnects(f) \/ DialEnds(f) \/ PeerLeaves(f) \/ ChildExits(f)
       PROVE  PlacesInv'
  <2>1. call' = call
    BY <1>12 DEF PeerConnects, DialEnds, PeerLeaves, ChildExits
  <2>2. \A g \in Fds : waiting[g] > 0 => waiting'[g] > 0
    BY <1>0, <1>12, MaxWaitingAssumption DEF PeerConnects, DialEnds, PeerLeaves, ChildExits
  <2>3. call.op = "accept" => call.fd \in Fds
    BY <1>0 DEF IInv, CallInv
  <2> QED BY <2>1, <2>2, <2>3 DEF PlacesInv
<1>13. CASE UNCHANGED vars
  BY <1>13 DEF vars, PlacesInv
<1>14. Asks => PlacesInv'
  BY <1>2, <1>3, <1>4, <1>5 DEF Asks, GetIfaceInfo
<1>15. GoesOn => PlacesInv'
  BY <1>6, <1>7, <1>8, <1>9, <1>10, <1>11 DEF GoesOn
<1> QED BY <1>12, <1>13, <1>14, <1>15 DEF Next, Outside, IsKilled

\* A system call that comes back leaves the call fewer of them; nothing else moves it.
CallsAdvance ==
    call.op # "lua" => IF GoesOn THEN CallsLeft' < CallsLeft ELSE call' = call

LEMMA CallsGoOn == ASSUME IInv, PlacesInv, Next PROVE CallsAdvance
<1> SUFFICES ASSUME call.op # "lua"
             PROVE  IF GoesOn THEN CallsLeft' < CallsLeft ELSE call' = call
  BY DEF CallsAdvance
<1>0. call \in [op : Ops, at : Steps, fd : Fds \union {NoFd}]
  BY DEF IInv, TypeOK
<1>1. ~ Asks
  BY DEF Asks, Listen, Connect, GetIfaceInfo, NewSocket, Popen, Accept, Write, Begins, Close,
         Pclose, NoCall
<1>2. Outside \/ IsKilled => call' = call
  BY DEF Outside, PeerConnects, DialEnds, PeerLeaves, ChildExits, IsKilled, vars
<1>3. ASSUME GoesOn PROVE CallsLeft' < CallsLeft
  <2>1. ASSUME call' \in {NoCall, Killed}, call.op # "killed" PROVE CallsLeft' < CallsLeft
    <3>1. CallsLeft' = 0  BY <2>1 DEF NoCall, Killed, CallsLeft
    <3>2. CallsLeft \in 1 .. 5  BY <2>1 DEF PlacesInv, CallsLeft, AfterIoctl
    <3> QED BY <3>1, <3>2
  <2>2. CASE SetSockOptOrBind
    <3>1. /\ call.op = "listen" /\ call'.op = "listen"
          /\ \/ call.at = "setsockopt" /\ call'.at \in {"bind", "err"}
             \/ call.at = "bind" /\ call'.at \in {"listen", "err"}
      BY <1>0, <2>2 DEF SetSockOptOrBind, GoesTo, AfterSuccess
    <3> QED BY <3>1 DEF CallsLeft
  <2>3. CASE ListenReturns
    <3>1. CASE call' = NoCall
      BY <2>1, <2>3, <3>1 DEF ListenReturns, At
    <3>2. CASE GoesTo("err")
      <4>1. call.op = "listen" /\ call.at = "listen" /\ call'.op = "listen" /\ call'.at = "err"
        BY <1>0, <2>3, <3>2 DEF ListenReturns, At, GoesTo
      <4> QED BY <4>1 DEF CallsLeft
    <3> QED BY <2>3, <3>1, <3>2 DEF ListenReturns, Answers
  <2>4. CASE Ioctl
    <3>1. /\ call.op = "connect" /\ call.at = "ioctl"
          /\ call'.op = "connect" /\ call'.at = "connect"
      BY <1>0, <2>4 DEF Ioctl, At, GoesTo
    <3> QED BY <3>1 DEF CallsLeft
  <2>5. CASE ListenErr \/ ConnectReturns \/ AcceptReturns \/ IfaceFailed
    <3>1. call' = NoCall /\ call.op # "killed"
      BY <2>5 DEF ListenErr, ConnectReturns, ConnectError, AcceptReturns, IfaceFailed, Answers,
                  AnswersError, At
    <3> QED BY <2>1, <3>1
  <2>6. CASE WriteReturns \/ PopenReturns \/ PcloseReturns
    <3>1. call' \in {NoCall, Killed} /\ call.op # "killed"
      BY <2>6 DEF WriteReturns, PopenReturns, PcloseReturns, Answers, At
    <3> QED BY <2>1, <3>1
  <2>7. CASE IfaceIoctl
    <3>1. /\ call.op = "getifaceinfo" /\ call'.op = "getifaceinfo"
          /\ call.at \in DOMAIN AfterIoctl /\ call'.at \in {AfterIoctl[call.at], "failed"}
      BY <1>0, <2>7 DEF IfaceIoctl, GoesTo
    <3> QED BY <3>1 DEF CallsLeft, AfterIoctl
  <2> QED BY <1>3, <2>2, <2>3, <2>4, <2>5, <2>6, <2>7 DEF GoesOn
<1> QED BY <1>1, <1>2, <1>3 DEF Next

\* A call makes five system calls at most, and moves on with each one that comes back,
\* whatever Lua, peers and children do; accept, on a listener that blocks, is only made
\* with a connection waiting, which nothing takes away meanwhile.
THEOREM CallsAreShort ==
    Spec => [](CallsLeft \in 0 .. 5 /\ PlacesInv) /\ [][CallsAdvance]_vars
<1>1. Init => PlacesInv
  BY DEF Init, NoCall, PlacesInv
<1>2. IInv /\ PlacesInv /\ [Next]_vars => [CallsAdvance]_vars
  BY CallsGoOn
<1> QED BY <1>1, <1>2, PlacesStep, CallsLeftAreFew, Invariance, PTL DEF Spec
=============================================================================
