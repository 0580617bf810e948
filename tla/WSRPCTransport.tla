--------------------------- MODULE WSRPCTransport ---------------------------
(* The calling side of a WSRPC transport (src/lib/eci/WSRPC.cc) and of the   *)
(* stubs wsrpcgen makes for it: sendMessage, awaitReply, doRecv, the replies *)
(* processMessage sorts, and synchronous calls made inside the handlers of   *)
(* requests and replies.  The process is single-threaded; what it is doing   *)
(* is a stack of activations.  The peer is another transport, which writes a *)
(* length and then a body and may be slow, stop half-way, or go away.        *)
EXTENDS Integers, FiniteSets, Sequences, SequencesExt

CONSTANTS SyncCalls,   \* calls made through X_vN(): sendMessage and wait()
          AsyncCalls,  \* calls made through X_vN_async(): with a delegate
          PeerReqs,    \* the requests the peer makes of us
          Long         \* the calls and requests of which the peer's message
                       \* is long enough to arrive in two pieces

ASSUME TransportAssumption == /\ SyncCalls \cap AsyncCalls = {}
                              /\ IsFiniteSet(SyncCalls) /\ IsFiniteSet(AsyncCalls)
                              /\ Long \subseteq SyncCalls \cup AsyncCalls \cup PeerReqs

Calls == SyncCalls \cup AsyncCalls
Ids == 1..Cardinality(Calls)

NoMsg == [type |-> "none"]
Replies == [type : {"reply"}, call : Calls, id : Ids, ok : BOOLEAN]
Requests == [type : {"request"}, req : PeerReqs]
Junk == [type |-> "junk"]            \* parses, but is no message of the protocol
Unparsable == [type |-> "unparsable"]

VARIABLES
  id,        \* WSRPCCompletion::id of each call sent, 0 before
  err,       \* WSRPCCompletion::err of each call
  done,      \* for each call, the calls whose replies completeWith was given
  ret,       \* what the stub of a synchronous call returned
  received,  \* WSRPCTransport::received
  stack,     \* activations, the innermost first
  rx,        \* curMsgLen # 0, whether curMsgOff > 0
  stream,    \* what the peer has written and recv() has not taken
  asked,     \* calls the peer has got and not answered
  ran,       \* calls the peer has run the method of
  out,       \* the message the peer is writing, and how far it is
  unmade,    \* requests the peer has not made yet
  answered,  \* requests of the peer that we have answered
  life       \* of both ends

clientVars == <<id, err, done, ret, received, stack, rx>>
peerVars == <<asked, ran, out, unmade>>
vars == <<clientVars, peerVars, stream, answered, life>>

Init == /\ id = [c \in Calls |-> 0]
        /\ err = [c \in Calls |-> "success"]
        /\ done = [c \in Calls |-> <<>>]
        /\ ret = [c \in SyncCalls |-> "none"]
        /\ received = <<>>
        /\ stack = <<>>
        /\ rx = [len |-> FALSE, part |-> FALSE]
        /\ stream = <<>>
        /\ asked = {} /\ ran = {} /\ unmade = PeerReqs /\ answered = {}
        /\ out = [msg |-> NoMsg, at |-> "idle"]
        /\ life = [client |-> "up", peer |-> "up"]

Top == stack[1]
InAwait(pc) == stack # <<>> /\ Top.kind = "await" /\ Top.pc = pc
Running == life.client = "up"
AtPc(pc) == <<[Top EXCEPT !.pc = pc]>> \o Tail(stack)
Readable == stream # <<>> \/ life.peer = "closed"

-----------------------------------------------------------------------------
(* Making calls.  Nobody seeds rand(), so its values come in one fixed       *)
(* order; the i-th is the number i here.  write() to a peer that has gone    *)
(* raises SIGPIPE.                                                           *)
RandRepeats == 1

Rand == 1 + Cardinality({c \in Calls : id[c] # 0})

MayCall == Running /\ (stack # <<>> => Top.kind = "callback")

Dies == /\ life' = [life EXCEPT !.client = "dead"]
        /\ UNCHANGED <<clientVars, peerVars, stream, answered>>

Sent(c) == /\ id' = [id EXCEPT ![c] = Rand]
           /\ asked' = asked \cup {c}
           /\ UNCHANGED <<err, done, ret, received, rx, ran, out, unmade, stream, answered, life>>

sendMessage(c) ==
  /\ MayCall /\ id[c] = 0
  /\ \/ life.peer = "closed" /\ Dies
     \/ /\ life.peer = "up"
        /\ Sent(c)
        /\ stack' = IF c \in SyncCalls
                    THEN <<[kind |-> "await", call |-> c, pc |-> "poll"]>> \o stack
                    ELSE stack

-----------------------------------------------------------------------------
(* Receiving.  readyForRead is called by the event loop; awaitReply polls    *)
(* the socket itself, and sets the error to kReplyTimeout whatever poll()    *)
(* says.  doRecv first takes the length, if no message is under way: at the  *)
(* end of the stream its assertion fails.                                    *)
TakeLength == IF rx.len THEN UNCHANGED <<rx, stream>>
              ELSE /\ stream # <<>>
                   /\ rx' = [len |-> TRUE, part |-> FALSE]
                   /\ stream' = Tail(stream)

readyForRead ==
  /\ Running /\ stack = <<>> /\ Readable
  /\ TakeLength
  /\ stack' = <<[kind |-> "read", pc |-> "recv"]>>
  /\ UNCHANGED <<id, err, done, ret, received, peerVars, answered, life>>

AwaitPolls ==
  /\ Running /\ InAwait("poll") /\ Readable
  /\ TakeLength
  /\ err' = [err EXCEPT ![Top.call] = "timeout"]
  /\ stack' = AtPc("recv")
  /\ UNCHANGED <<id, done, ret, received, peerVars, answered, life>>

LengthMissing ==
  /\ Running /\ (stack # <<>> => Top.kind = "await" /\ Top.pc = "poll")
  /\ ~rx.len /\ stream = <<>> /\ life.peer = "closed"
  /\ Dies

(* awaitReply returns and the stub returns comp->err.                        *)
StubReturns(e) == /\ ret' = [ret EXCEPT ![Top.call] = e]
                  /\ stack' = Tail(stack)

(* The deadline may pass whenever there is nothing to read; that it is 2 s   *)
(* at first and 0 after an incomplete message makes no difference to that.   *)
AwaitNeverTimesOut == FALSE /\ UNCHANGED vars

AwaitTimesOut ==
  /\ Running /\ InAwait("poll") /\ ~Readable
  /\ err' = [err EXCEPT ![Top.call] = "timeout"]
  /\ StubReturns("timeout")
  /\ UNCHANGED <<id, done, received, rx, peerVars, stream, answered, life>>

(* recv() of the body waits until there is some of it, or the stream ends.   *)
Receiving == Running /\ stack # <<>> /\ Top.kind # "callback" /\ Top.pc = "recv"

RecvPart ==
  /\ Receiving /\ Readable
  /\ stream # <<>> => Head(stream).at = "first"
  /\ rx' = [rx EXCEPT !.part = @ \/ stream # <<>>]
  /\ stream' = IF stream = <<>> THEN <<>> ELSE Tail(stream)
  /\ stack' = IF Top.kind = "await" THEN AtPc("poll") ELSE Tail(stack)
  /\ UNCHANGED <<id, err, done, ret, received, peerVars, answered, life>>

(* A second piece is written over the first: what is parsed then is the tail *)
(* of the message.                                                           *)
Parsed(body) == IF rx.part THEN {body, Junk, Unparsable} ELSE {body}

ReceivedKeepsLength == [len |-> TRUE, part |-> FALSE]

Received == [len |-> FALSE, part |-> FALSE]

-----------------------------------------------------------------------------
(* Dispatching a message.                                                    *)
AnyReply(m, c) == m.type = "reply"

IsReplyTo(m, c) == m.type = "reply" /\ m.id = id[c]

completeWith(c, m) ==
  /\ done' = [done EXCEPT ![c] = Append(@, m.call)]
  /\ err' = [err EXCEPT ![c] = IF m.ok THEN "success" ELSE "error"]

Completions(m) == {c \in AsyncCalls : id[c] # 0 /\ IsReplyTo(m, c)}

Callback(req) == <<[kind |-> "callback", req |-> req]>>

(* processMessage on top of the activations st.                              *)
processMessage(m, st) ==
  \/ /\ m.type = "reply" /\ Completions(m) # {}
     /\ \E c \in Completions(m) : completeWith(c, m)
     /\ stack' = Callback("none") \o st
     /\ UNCHANGED received
  \/ /\ m.type = "reply" /\ Completions(m) = {}
     /\ received' = Append(received, m)
     /\ stack' = st
     /\ UNCHANGED <<done, err>>
  \/ /\ m.type = "request"
     /\ stack' = Callback(m.req) \o st
     /\ UNCHANGED <<received, done, err>>
  \/ /\ m.type = "junk"
     /\ stack' = st
     /\ UNCHANGED <<received, done, err>>

ReadProcesses(m) ==
  /\ Top.kind = "read"
  /\ \/ m = Unparsable /\ stack' = Tail(stack) /\ UNCHANGED <<received, done, err>>
     \/ m # Unparsable /\ processMessage(m, Tail(stack))
  /\ UNCHANGED ret

AwaitUnparsable(m) ==
  /\ Top.kind = "await" /\ m = Unparsable
  /\ StubReturns(err[Top.call])
  /\ UNCHANGED <<err, done, received>>

AwaitOwnReply(m) ==
  /\ Top.kind = "await" /\ IsReplyTo(m, Top.call)
  /\ completeWith(Top.call, m)
  /\ StubReturns(IF m.ok THEN "success" ELSE "error")
  /\ UNCHANGED received

AwaitOther(m) ==
  /\ Top.kind = "await" /\ m # Unparsable /\ ~IsReplyTo(m, Top.call)
  /\ processMessage(m, AtPc("scan"))
  /\ UNCHANGED ret

RecvMessage ==
  /\ Receiving /\ stream # <<>> /\ Head(stream).at \in {"whole", "rest"}
  /\ rx' = Received
  /\ stream' = Tail(stream)
  /\ \E m \in Parsed(Head(stream).msg) :
       ReadProcesses(m) \/ AwaitUnparsable(m) \/ AwaitOwnReply(m) \/ AwaitOther(m)
  /\ UNCHANGED <<id, peerVars, answered, life>>

StoredForgotten(c) == {}

Stored(c) == {i \in DOMAIN received : IsReplyTo(received[i], c)}

WithoutStored(i) == RemoveAt(received, i)

(* The scan of received after processMessage, then goto retry.  Removing the *)
(* element the loop stands on leaves it on a freed node: it may carry on, or *)
(* the process may crash.                                                    *)
AwaitScans ==
  /\ Running /\ InAwait("scan")
  /\ \/ /\ Stored(Top.call) = {}
        /\ stack' = AtPc("poll")
        /\ UNCHANGED <<id, err, done, ret, received, rx, peerVars, stream, answered, life>>
     \/ \E i \in Stored(Top.call) :
          \/ Dies
          \/ /\ completeWith(Top.call, received[i])
             /\ received' = WithoutStored(i)
             /\ stack' = AtPc("poll")
             /\ UNCHANGED <<id, ret, rx, peerVars, stream, answered, life>>

(* A handler or delegate returns; processMessage sends the reply.            *)
CallbackReturns ==
  /\ Running /\ stack # <<>> /\ Top.kind = "callback"
  /\ \/ Top.req # "none" /\ life.peer = "closed" /\ Dies
     \/ /\ Top.req = "none" \/ life.peer = "up"
        /\ stack' = Tail(stack)
        /\ answered' = IF Top.req = "none" THEN answered ELSE answered \cup {Top.req}
        /\ UNCHANGED <<id, err, done, ret, received, rx, peerVars, stream, life>>

-----------------------------------------------------------------------------
(* The peer: another process running the same code.                          *)
PeerUp == life.peer = "up"
PeerIdle == PeerUp /\ out.at = "idle"

PeerAnswers(c) ==
  /\ PeerIdle /\ c \in asked
  /\ asked' = asked \ {c}
  /\ ran' = ran \cup {c}
  /\ \E ok \in BOOLEAN : out' = [msg |-> [type |-> "reply", call |-> c, id |-> id[c], ok |-> ok], at |-> "len"]
  /\ UNCHANGED <<clientVars, unmade, stream, answered, life>>

PeerCalls(r) ==
  /\ PeerIdle /\ r \in unmade
  /\ unmade' = unmade \ {r}
  /\ out' = [msg |-> [type |-> "request", req |-> r], at |-> "len"]
  /\ UNCHANGED <<clientVars, asked, ran, stream, answered, life>>

About(m) == IF m.type = "reply" THEN m.call ELSE m.req

After(at) == CASE at = "len" -> {"whole"} \cup (IF About(out.msg) \in Long THEN {"first"} ELSE {})
               [] at = "first" -> {"rest"}
               [] OTHER -> {"idle"}

PeerWrites ==
  /\ PeerUp /\ out.at # "idle"
  /\ stream' = Append(stream, out)
  /\ \E at \in After(out.at) : out' = IF at = "idle" THEN [msg |-> NoMsg, at |-> "idle"] ELSE [out EXCEPT !.at = at]
  /\ UNCHANGED <<clientVars, asked, ran, unmade, answered, life>>

PeerCloses ==
  /\ PeerUp
  /\ life' = [life EXCEPT !.peer = "closed"]
  /\ UNCHANGED <<clientVars, peerVars, stream, answered>>

-----------------------------------------------------------------------------
ClientStep == \/ readyForRead \/ AwaitPolls \/ LengthMissing \/ RecvPart
              \/ RecvMessage \/ AwaitScans \/ CallbackReturns

Next == \/ ClientStep \/ AwaitTimesOut
        \/ \E c \in Calls : sendMessage(c) \/ PeerAnswers(c)
        \/ \E r \in PeerReqs : PeerCalls(r)
        \/ PeerWrites \/ PeerCloses

Spec == Init /\ [][Next]_vars

(* The client's thread runs on, poll() reaches its deadline, and a peer that *)
(* has begun a message finishes it unless it closes.                         *)
Fairness == WF_vars(ClientStep) /\ WF_vars(AwaitTimesOut) /\ WF_vars(PeerWrites)

FairSpec == Spec /\ Fairness

-----------------------------------------------------------------------------
Frames == [kind : {"await"}, call : SyncCalls, pc : {"poll", "recv", "scan"}]
          \cup [kind : {"read"}, pc : {"recv"}]
          \cup [kind : {"callback"}, req : PeerReqs \cup {"none"}]

(* Types of the transport's fields, of the stubs' results and of the stream. *)
TypeOK ==
  /\ id \in [Calls -> Ids \cup {0}]
  /\ err \in [Calls -> {"success", "error", "timeout"}]
  /\ ret \in [SyncCalls -> {"none", "success", "error", "timeout"}]
  /\ \A c \in Calls : \A i \in DOMAIN done[c] : done[c][i] \in Calls
  /\ \A i \in DOMAIN received : received[i] \in Replies
  /\ \A i \in DOMAIN stack : stack[i] \in Frames
  /\ rx \in [len : BOOLEAN, part : BOOLEAN]
  /\ answered \subseteq PeerReqs

(* completeWith hands a call the reply to that call and to no other, however *)
(* the calls nest and however late replies of given-up calls arrive.         *)
OwnReplyOnly == \A c \in Calls : done[c] \in {<<>>, <<c>>}

(* awaitReply never goes back to poll() while the reply it waits for lies in *)
(* received, where nothing would wake it.                                    *)
NoReplyOverlooked ==
  InAwait("poll") => \A i \in DOMAIN received : received[i].call # Top.call

(* The process keeps its place in the stream: what recv() finds next is a    *)
(* length when no message is under way and a piece of its body otherwise,    *)
(* also when a call gave up in the middle of a message (doRecv).             *)
InStep == stream # <<>> /\ Running =>
            Head(stream).at \in IF ~rx.len THEN {"len"} ELSE IF rx.part THEN {"rest"} ELSE {"whole", "first"}

(* The transport implements the promise of RPCService.                       *)
Outcome(c) ==
  IF id[c] = 0 THEN "none"
  ELSE IF c \in SyncCalls
  THEN IF ret[c] = "none" THEN "called"
       ELSE IF ret[c] # "timeout" /\ done[c] # <<c>> THEN "wrong" ELSE ret[c]
  ELSE IF done[c] = <<>> THEN "called" ELSE IF done[c] = <<c>> THEN err[c] ELSE "wrong"

Promise == INSTANCE RPCService WITH executed <- ran, outcome <- [c \in Calls |-> Outcome(c)]

KeepsPromise == Promise!Spec

(* Every synchronous call returns while the peer stays: a lost reply, a late *)
(* one, nested calls and half a message only cost time (awaitReply).         *)
CallReturns ==
  \A c \in SyncCalls : id[c] # 0 ~> (ret[c] # "none" \/ life # [client |-> "up", peer |-> "up"])
=============================================================================
