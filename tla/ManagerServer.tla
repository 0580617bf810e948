---------------------------- MODULE ManagerServer ----------------------------
(***************************************************************************)
(* sys.manager serving its clients: Manager::run (cmd/manager/Manager.cc), *)
(* the descriptor side of EventLoop::loop (lib/eci/Event-Poll.cc), and     *)
(* WSRPCListener with the receiving side of its transports                 *)
(* (lib/eci/WSRPC.cc).  Clients connect, write messages, close or die at   *)
(* any moment.  A message is the two writes of writeObj, its length and its*)
(* body; of the body only its kind matters.  The signal side is module     *)
(* EventLoopPoll; here SIGINT is the only signal, and lines 302-303, which *)
(* may lose it, are two steps.                                             *)
(***************************************************************************)
EXTENDS Naturals, SequencesExt

CONSTANTS
    Client,   \* peers; each connects at most once
    FD,       \* descriptors accept() can return
    ListenFD, \* the listening socket
    None,     \* no client
    MaxMsgs   \* bound: messages of all clients together

(* A body is a request with an id, which is always answered, or anything   *)
(* else, which never is: no id, not parseable, not a request.              *)
Kind == {"call", "other"}

ASSUME ServerAssumption ==
    /\ FD \subseteq Nat /\ ListenFD \in Nat \ FD
    /\ IsFiniteSet(Client) /\ None \notin Client
    /\ MaxMsgs \in Nat

VARIABLES
    mode,         \* "run", "exited", killed by "sigpipe", "aborted" by assert,
                  \* or at large in freed memory ("dangling")
    pc, i,        \* next step of the manager; index into pFDs
    shouldRun, sigint,      \* sigint: "no", "flagged", "lost" or "seen"
    pFDs, fdSources,        \* event loop; pFDs without the self-pipe
    clientXprts, curMsgLen, \* transports by descriptor; length received
    msg,                    \* body being processed
    owner, backlog,         \* kernel: peer of a descriptor, pending connects
    peer, sock,             \* clients; what they wrote and is not received
    written, calls, replies \* history: writes and calls made, calls answered

table  == <<pFDs, fdSources, clientXprts>>
socket == <<owner, backlog>>
world  == <<peer, sock, written, calls>>
vars == <<mode, pc, i, shouldRun, sigint, table, curMsgLen, msg, socket, world,
          replies>>

Open(f) == owner[f] # None
Watched(c) == \E k \in DOMAIN pFDs : pFDs[k].fd \in FD /\ owner[pFDs[k].fd] = c

TypeOK ==
    /\ mode \in {"run", "exited", "sigpipe", "aborted", "dangling"}
    /\ pc \in {"loop", "pass", "clear", "poll", "scan", "body", "handle"}
    /\ i \in Nat \ {0} /\ shouldRun \in BOOLEAN
    /\ sigint \in {"no", "flagged", "lost", "seen"}
    /\ pFDs \in Seq([fd : FD \cup {ListenFD}, revents : SUBSET {"IN", "HUP"}])
    /\ fdSources \subseteq FD \cup {ListenFD} /\ clientXprts \subseteq FD
    /\ curMsgLen \in [FD -> BOOLEAN] /\ msg \in Kind \cup {"none"}
    /\ owner \in [FD -> Client \cup {None}] /\ backlog \in Seq(Client)
    /\ peer \in [Client -> {"new", "open", "shut", "closed"}]
    /\ sock \in [Client -> Seq(Kind \cup {"length"})]
    /\ written \in [Client -> 0 .. 2 * MaxMsgs]
    /\ calls \in [Client -> 0 .. MaxMsgs] /\ replies \in [Client -> Nat]

(* Manager::init has added the listening socket; no client yet.            *)
Init ==
    /\ mode = "run" /\ pc = "loop" /\ i = 1 /\ shouldRun = TRUE /\ sigint = "no"
    /\ pFDs = <<[fd |-> ListenFD, revents |-> {}]>> /\ fdSources = {ListenFD}
    /\ clientXprts = {} /\ curMsgLen = [f \in FD |-> FALSE] /\ msg = "none"
    /\ owner = [f \in FD |-> None] /\ backlog = <<>>
    /\ peer = [c \in Client |-> "new"] /\ sock = [c \in Client |-> <<>>]
    /\ written = [c \in Client |-> 0]
    /\ calls = [c \in Client |-> 0] /\ replies = [c \in Client |-> 0]

----------------------------------------------------------------------------
(* The clients and the kernel.  After the manager has gone nothing is      *)
(* modelled.                                                               *)

manager == <<mode, pc, i, shouldRun, table, curMsgLen, msg, owner, replies>>

Connect(c) ==
    /\ peer[c] = "new"
    /\ peer' = [peer EXCEPT ![c] = "open"]
    /\ backlog' = Append(backlog, c)
    /\ UNCHANGED <<manager, sigint, sock, written, calls>>

(* writeObj in the client: a write for the length, a write for the body.   *)
MidMessage(c) == written[c] % 2 = 1
Begun == {m \in Client \X (1 .. MaxMsgs) : 2 * m[2] - 1 <= written[m[1]]}

WriteLength(c) ==
    /\ peer[c] = "open" /\ ~MidMessage(c) /\ Cardinality(Begun) < MaxMsgs
    /\ sock' = [sock EXCEPT ![c] = Append(@, "length")]
    /\ written' = [written EXCEPT ![c] = @ + 1]
    /\ UNCHANGED <<manager, backlog, sigint, peer, calls>>

WriteBody(c) ==
    /\ peer[c] = "open" /\ MidMessage(c)
    /\ \E k \in Kind :
          /\ sock' = [sock EXCEPT ![c] = Append(@, k)]
          /\ calls' = [calls EXCEPT ![c] = @ + (IF k = "call" THEN 1 ELSE 0)]
    /\ written' = [written EXCEPT ![c] = @ + 1]
    /\ UNCHANGED <<manager, backlog, sigint, peer>>

(* close(), or the client dies; what it has written can still be received. *)
Close(c) ==
    /\ peer[c] \in {"open", "shut"}
    /\ peer' = [peer EXCEPT ![c] = "closed"]
    /\ UNCHANGED <<manager, backlog, sigint, sock, written, calls>>

(* shutdown(SHUT_WR): no more to send, still reading.                      *)
Shutdown(c) ==
    /\ peer[c] = "open"
    /\ peer' = [peer EXCEPT ![c] = "shut"]
    /\ UNCHANGED <<manager, backlog, sigint, sock, written, calls>>

(* SIGINT arrives.  "lost" is a signal in signalsFired that signalFired no *)
(* longer announces; a further signal (SIGUSR1 too) announces it again.    *)
Interrupt ==
    /\ sigint \in {"no", "lost"} /\ mode = "run"
    /\ sigint' = "flagged"
    /\ UNCHANGED <<manager, backlog, world>>

----------------------------------------------------------------------------
(* Manager::run and EventLoop::loop.                                       *)

Running == mode = "run" /\ mode' = "run"

(* signalEvent: shouldRun = false on SIGINT.                               *)
SignalEventIgnored ==
    IF sigint = "flagged" THEN sigint' = "seen" /\ UNCHANGED shouldRun
                          ELSE UNCHANGED <<sigint, shouldRun>>
SignalEvent ==
    IF sigint = "flagged" THEN sigint' = "seen" /\ shouldRun' = FALSE
                          ELSE UNCHANGED <<sigint, shouldRun>>

(* while (shouldRun) loop(NULL): oldSigFired = signalFired ...             *)
CallLoop ==
    /\ Running /\ pc = "loop" /\ shouldRun
    /\ pc' = IF sigint = "flagged" THEN "pass" ELSE "clear"
    /\ UNCHANGED <<i, shouldRun, sigint, table, curMsgLen, msg, socket, world,
                   replies>>

(* ... signalFired = false, and the pass over the signals if oldSigFired.  *)
(* A SIGINT that came after the read is in signalsFired only.              *)
ClearSignalFired ==
    /\ Running /\ pc \in {"pass", "clear"}
    /\ \/ pc = "pass" /\ SignalEvent
       \/ /\ pc = "clear" /\ shouldRun' = shouldRun
          /\ sigint' = IF sigint = "flagged" THEN "lost" ELSE sigint
    /\ pc' = "poll"
    /\ UNCHANGED <<i, table, curMsgLen, msg, socket, world, replies>>

Exit ==
    /\ mode = "run" /\ pc = "loop" /\ ~shouldRun
    /\ mode' = "exited"
    /\ UNCHANGED <<pc, i, shouldRun, sigint, table, curMsgLen, msg, socket,
                   world, replies>>

(* What poll() reports for a stream socket.                                *)
Ready(f) ==
    IF f = ListenFD THEN {e \in {"IN"} : backlog # <<>>}
    ELSE {e \in {"IN"} : sock[owner[f]] # <<>> \/ peer[owner[f]] # "open"}
         \cup {e \in {"HUP"} : peer[owner[f]] = "closed"}

(* poll() blocks until something is ready; the self-pipe stays ready for   *)
(* ever after the first signal.                                            *)
Poll ==
    /\ Running /\ pc = "poll"
    /\ sigint # "no" \/ \E k \in DOMAIN pFDs : Ready(pFDs[k].fd) # {}
    /\ pFDs' = [k \in DOMAIN pFDs |-> [pFDs[k] EXCEPT !.revents = Ready(pFDs[k].fd)]]
    /\ i' = 1 /\ pc' = "scan"
    /\ UNCHANGED <<shouldRun, sigint, fdSources, clientXprts, curMsgLen, msg,
                   socket, world, replies>>

(* pFDs[i].revents = 0 at the end of a turn, after whatever the handler did*)
(* to the array; the index goes on by one.                                 *)
EndTurn(t) ==
    /\ pFDs' = IF i <= Len(t) THEN [t EXCEPT ![i].revents = {}] ELSE t
    /\ i' = i + 1

(* No event, or no source for the descriptor, which is only logged.        *)
ScanIdle ==
    /\ Running /\ pc = "scan" /\ i <= Len(pFDs)
    /\ pFDs[i].revents # {} => pFDs[i].fd \notin fdSources
    /\ EndTurn(pFDs)
    /\ UNCHANGED <<pc, shouldRun, sigint, fdSources, clientXprts, curMsgLen, msg,
                   socket, world, replies>>

(* A SIGINT that came meanwhile is dispatched before loop() returns: line  *)
(* 407 has seen signalFired, and nothing but line 303 takes it down.       *)
ScanEnds ==
    /\ Running /\ pc = "scan" /\ i > Len(pFDs)
    /\ SignalEvent
    /\ pc' = "loop"
    /\ UNCHANGED <<i, table, curMsgLen, msg, socket, world, replies>>

(* The turn of an entry with revents, whose source is found.               *)
Turn(f) ==
    /\ mode = "run" /\ pc = "scan" /\ i <= Len(pFDs)
    /\ pFDs[i].revents # {} /\ pFDs[i].fd = f /\ f \in fdSources

HungUp == "HUP" \in pFDs[i].revents

----------------------------------------------------------------------------
(* Manager::fdEvent, WSRPCListener::fdEvent and the transports.            *)

(* delFD: the source and the first pollfd with that descriptor go, the     *)
(* entries behind it move up.                                              *)
delFD(f) == RemoveFirstMatch(pFDs, LAMBDA e : e.fd = f)

(* POLLHUP: clientDisconnected (delFD), erase, close.  Whatever the client *)
(* wrote before it closed goes with the descriptor.                        *)
DropClientKeepsSource(f) ==
    /\ Running /\ Turn(f) /\ HungUp /\ f \in clientXprts
    /\ clientXprts' = clientXprts \ {f} /\ owner' = [owner EXCEPT ![f] = None]
    /\ EndTurn(pFDs)
    /\ UNCHANGED <<pc, shouldRun, sigint, fdSources, curMsgLen, msg, backlog,
                   world, replies>>
DropClientMissed(f) ==
    /\ Running /\ Turn(f) /\ HungUp /\ EndTurn(pFDs)
    /\ UNCHANGED <<pc, shouldRun, sigint, fdSources, clientXprts, curMsgLen, msg,
                   socket, world, replies>>
DropClient(f) ==
    /\ Running /\ Turn(f) /\ HungUp /\ f \in clientXprts
    /\ EndTurn(delFD(f)) /\ fdSources' = fdSources \ {f}
    /\ clientXprts' = clientXprts \ {f}
    /\ owner' = [owner EXCEPT ![f] = None]
    /\ UNCHANGED <<pc, shouldRun, sigint, curMsgLen, msg, backlog, world,
                   replies>>

(* addFD's new pollfd: revents is set, realloc() does not clear it.        *)
NewEntryUnset(f) == [fd |-> f, revents |-> {"IN", "HUP"}]
NewEntry(f) == [fd |-> f, revents |-> {}]

(* accept() takes the lowest free descriptor; the new transport starts with*)
(* curMsgLen = 0.  clientConnected adds it to the event loop, which may    *)
(* fail for lack of memory: that is only logged.  When it fails after      *)
(* realloc() has moved the array, pFDs points to freed memory.             *)
Accept ==
    /\ Turn(ListenFD) /\ ~HungUp /\ backlog # <<>>
    /\ \E f \in FD :
          /\ ~Open(f) /\ \A g \in FD : g < f => Open(g)
          /\ owner' = [owner EXCEPT ![f] = Head(backlog)]
          /\ clientXprts' = clientXprts \cup {f}
          /\ curMsgLen' = [curMsgLen EXCEPT ![f] = FALSE]
          /\ \/ /\ EndTurn(Append(pFDs, NewEntry(f)))
                /\ fdSources' = fdSources \cup {f} /\ mode' = mode
             \/ /\ EndTurn(pFDs)
                /\ fdSources' = fdSources /\ mode' \in {mode, "dangling"}
    /\ backlog' = Tail(backlog)
    /\ UNCHANGED <<pc, shouldRun, sigint, msg, world, replies>>

(* No descriptor is left: the connection stays in the backlog.             *)
AcceptFails ==
    /\ Running /\ Turn(ListenFD) /\ ~HungUp /\ \A f \in FD : Open(f)
    /\ EndTurn(pFDs)
    /\ UNCHANGED <<pc, shouldRun, sigint, fdSources, clientXprts, curMsgLen, msg,
                   socket, world, replies>>

(* doRecv, first half: the length, unless it was received before.  At the  *)
(* end of the stream recv() returns 0 and assert(len == 4) aborts.         *)
ReadLength(f) ==
    /\ Running /\ Turn(f) /\ ~HungUp /\ f \in clientXprts
    /\ \/ curMsgLen[f] /\ UNCHANGED <<curMsgLen, sock>>
       \/ /\ ~curMsgLen[f] /\ sock[owner[f]] # <<>>
          /\ curMsgLen' = [curMsgLen EXCEPT ![f] = TRUE]
          /\ sock' = [sock EXCEPT ![owner[f]] = Tail(@)]
    /\ pc' = "body"
    /\ UNCHANGED <<i, shouldRun, sigint, table, msg, socket, peer, written, calls,
                   replies>>

ReadLengthAborts(f) ==
    /\ Turn(f) /\ ~HungUp /\ f \in clientXprts
    /\ ~curMsgLen[f] /\ sock[owner[f]] = <<>>
    /\ mode' = "aborted"
    /\ UNCHANGED <<pc, i, shouldRun, sigint, table, curMsgLen, msg, socket,
                   world, replies>>

(* doRecv, second half, and parseMessage.  recv() blocks while the client  *)
(* is there and has not written the body.                                  *)
ReceivedKeepsLength(f) == curMsgLen
Received(f) == [curMsgLen EXCEPT ![f] = FALSE]
ReadBody(f) ==
    /\ Running /\ pc = "body" /\ pFDs[i].fd = f /\ sock[owner[f]] # <<>>
    /\ msg' = Head(sock[owner[f]])
    /\ sock' = [sock EXCEPT ![owner[f]] = Tail(@)]
    /\ curMsgLen' = Received(f)
    /\ pc' = "handle"
    /\ UNCHANGED <<i, shouldRun, sigint, table, socket, peer, written, calls,
                   replies>>

(* The stream ends before the body: recv() returns 0 and doRecv false.     *)
ReadBodyEnds(f) ==
    /\ Running /\ pc = "body" /\ pFDs[i].fd = f
    /\ sock[owner[f]] = <<>> /\ peer[owner[f]] # "open"
    /\ EndTurn(pFDs) /\ pc' = "scan"
    /\ UNCHANGED <<shouldRun, sigint, fdSources, clientXprts, curMsgLen, msg,
                   socket, world, replies>>

(* sendReply or sendError: one of them, once.                              *)
AnsweredTwice(f) == [replies EXCEPT ![owner[f]] = @ + 2]
AnswerForgotten(f) == replies
Answered(f) == [replies EXCEPT ![owner[f]] = @ + 1]

(* processMessage: the service's method, then for a request with an id the *)
(* answer; writeObj to a closed socket raises SIGPIPE.                     *)
ProcessMessage(f) ==
    /\ mode = "run" /\ pc = "handle" /\ pFDs[i].fd = f
    /\ \/ /\ msg = "call" /\ peer[owner[f]] = "closed"
          /\ mode' = "sigpipe" /\ UNCHANGED replies
       \/ /\ msg = "call" /\ peer[owner[f]] # "closed"
          /\ replies' = Answered(f) /\ mode' = mode
       \/ msg # "call" /\ UNCHANGED <<mode, replies>>
    /\ msg' = "none"
    /\ EndTurn(pFDs) /\ pc' = "scan"
    /\ UNCHANGED <<shouldRun, sigint, fdSources, clientXprts, curMsgLen, socket,
                   world>>

----------------------------------------------------------------------------
ClientStep == mode = "run" /\ \E c \in Client :
    Connect(c) \/ WriteLength(c) \/ WriteBody(c) \/ Close(c) \/ Shutdown(c)

ManagerStep ==
    \/ CallLoop \/ ClearSignalFired \/ Exit \/ Poll \/ ScanIdle \/ ScanEnds
    \/ Accept \/ AcceptFails
    \/ \E f \in FD : \/ DropClient(f) \/ ReadLength(f) \/ ReadLengthAborts(f)
                     \/ ReadBody(f) \/ ReadBodyEnds(f) \/ ProcessMessage(f)

(* The manager has exited or was killed.                                   *)
Gone == mode # "run" /\ UNCHANGED vars

Next == ClientStep \/ Interrupt \/ ManagerStep \/ Gone

(* The manager is scheduled, and a client between the two writes of        *)
(* writeObj makes the second or dies.                                      *)
GoOn(c) == mode = "run" /\ (WriteBody(c) \/ (MidMessage(c) /\ Close(c)))
Fairness == WF_vars(ManagerStep) /\ \A c \in Client : WF_vars(GoOn(c))

Spec == Init /\ [][Next]_vars
FairSpec == Spec /\ Fairness

----------------------------------------------------------------------------
(* The pollfd array, the sources, the transports and the kernel's table    *)
(* name the same descriptors: nothing is watched that was closed, and no   *)
(* open connection is without a transport (delFD, addFD, lines 525-549).   *)
DescriptorsAgree ==
    /\ {pFDs[k].fd : k \in DOMAIN pFDs} = fdSources
    /\ Cardinality(fdSources) = Len(pFDs)
    /\ ListenFD \in fdSources /\ fdSources \subseteq clientXprts \cup {ListenFD}
    /\ clientXprts = {f \in FD : Open(f)}

(* An event still to be dispatched in this scan is true of the connection  *)
(* that has the descriptor now, although descriptors are closed, reused and*)
(* moved in the array during the scan: nobody is dropped for another's     *)
(* hang-up, and recv() finds what poll() announced.                        *)
ReportedEventIsTrue ==
    pc \in {"scan", "body", "handle"} =>
        \A k \in i .. Len(pFDs) :
            LET f == pFDs[k].fd IN
            f \in FD => /\ "HUP" \in pFDs[k].revents => peer[owner[f]] = "closed"
                        /\ "IN" \in pFDs[k].revents /\ (k > i \/ pc = "scan") =>
                             sock[owner[f]] # <<>> \/ peer[owner[f]] # "open"

(* The stream stays in step: a transport that has a length finds a body    *)
(* next, one that has none finds a length (doRecv's curMsgLen, line 404).  *)
FramingInStep ==
    \A f \in clientXprts : sock[owner[f]] # <<>> =>
        (Head(sock[owner[f]]) = "length" <=> ~curMsgLen[f])

CallsIn(c) == Cardinality({k \in DOMAIN sock[c] : sock[c][k] = "call"})
InHand(c) == pc = "handle" /\ msg = "call" /\ owner[pFDs[i].fd] = c

(* While a client is connected every call it has made was answered once, is*)
(* being handled, or waits to be received.                                 *)
EveryCallAccountedFor ==
    mode = "run" => \A c \in Client :
        Watched(c) =>
            calls[c] = replies[c] + CallsIn(c) + (IF InHand(c) THEN 1 ELSE 0)

(* A call of a watched client is answered, whatever the other clients do,  *)
(* unless the client closes or the manager stops.                          *)
CallIsAnswered ==
    \A c \in Client, n \in 1 .. MaxMsgs :
        (Watched(c) /\ calls[c] >= n) ~>
            (replies[c] >= n \/ peer[c] = "closed" \/ mode # "run" \/ ~shouldRun)

(* A client that has closed is dropped and its descriptor freed, although a*)
(* drop makes the scan pass over the entry that moved into its place.      *)
ClosedClientIsDropped ==
    \A c \in Client :
        (Watched(c) /\ peer[c] = "closed") ~>
            (~Watched(c) \/ mode # "run" \/ ~shouldRun)

(* SIGINT ends the manager however busy its clients keep it, unless it     *)
(* came between lines 302 and 303 of loop(); one lost there is made good by*)
(* the next.  A client that stops between its two writes holds the manager *)
(* in recv(): the property rests on GoOn.                                  *)
InterruptStops == (sigint = "flagged" /\ pc # "clear") ~> mode # "run"
=============================================================================
