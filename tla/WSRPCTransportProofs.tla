------------------------ MODULE WSRPCTransportProofs ------------------------
(* Proofs about the calling side of a transport, for any calls, requests of  *)
(* the peer and lengths of messages: completions get their own reply, none   *)
(* is overlooked, the process keeps its place in the stream, and the whole   *)
(* implements RPCService.                                                    *)
EXTENDS WSRPCTransport, FiniteSetTheorems, SequenceTheorems, TLAPS

(* What the peer may be writing, and what recv() may find.                   *)
Messages == Replies \cup Requests
Pieces == [msg : Messages, at : {"len", "whole", "first", "rest"}]
NotWriting == [msg |-> NoMsg, at |-> "idle"]

(* Types of all the variables.                                               *)
Types ==
  /\ id \in [Calls -> Ids \cup {0}]
  /\ err \in [Calls -> {"success", "error", "timeout"}]
  /\ done \in [Calls -> Seq(Calls)]
  /\ ret \in [SyncCalls -> {"none", "success", "error", "timeout"}]
  /\ received \in Seq(Replies)
  /\ stack \in Seq(Frames)
  /\ rx \in [len : BOOLEAN, part : BOOLEAN]
  /\ stream \in Seq(Pieces)
  /\ asked \subseteq Calls /\ ran \subseteq Calls
  /\ out \in Pieces \cup {NotWriting}
  /\ unmade \subseteq PeerReqs /\ answered \subseteq PeerReqs
  /\ life \in [client : {"up", "dead"}, peer : {"up", "closed"}]

Made == {c \in Calls : id[c] # 0}

(* Ids come in order and are given out once.                                 *)
IdsDistinct ==
  /\ \A c \in Calls : id[c] <= Cardinality(Made)
  /\ \A c, d \in Calls : id[c] # 0 /\ id[c] = id[d] => c = d

(* The peer has what was sent, and answers it once.                          *)
PeerInStep ==
  /\ asked \cup ran \subseteq Made
  /\ asked \cap ran = {}
  /\ \A c \in Calls : done[c] # <<>> => c \in ran
  /\ \A c \in SyncCalls : id[c] = 0 => ret[c] = "none"

(* A reply is of a call that ran, and has the id of that call.               *)
Truthful(m) == m.type = "reply" => m.call \in ran /\ m.id = id[m.call]

RepliesTruthful ==
  /\ Truthful(out.msg)
  /\ \A i \in 1..Len(stream) : Truthful(stream[i].msg)
  /\ \A i \in 1..Len(received) : Truthful(received[i])

(* Where the reply to a call is: being written, with its last piece in the   *)
(* stream, stored in received, or given to a completion.                     *)
Writing(c) == out.msg.type = "reply" /\ out.msg.call = c
Carries(p, c) == p.at \in {"whole", "rest"} /\ p.msg.type = "reply" /\ p.msg.call = c
Brings(s, c) == \E i \in 1..Len(s) : Carries(s[i], c)
BringsOnce(s, c) == \A i, j \in 1..Len(s) : Carries(s[i], c) /\ Carries(s[j], c) => i = j
Keeps(s, c) == \E i \in 1..Len(s) : s[i].call = c
KeepsOnce(s, c) == \A i, j \in 1..Len(s) : s[i].call = c /\ s[j].call = c => i = j

ReplyInOnePlace ==
  \A c \in Calls :
    /\ Writing(c) => ~Brings(stream, c)
    /\ Keeps(received, c) => ~Writing(c) /\ ~Brings(stream, c)
    /\ done[c] # <<>> => ~Writing(c) /\ ~Brings(stream, c) /\ ~Keeps(received, c)
    /\ BringsOnce(stream, c) /\ KeepsOnce(received, c)

(* Below the innermost activation there are handlers, and calls that will    *)
(* scan received when the handler above them returns; a call waits once.     *)
Resumes(f) == f.kind = "callback" \/ (f.kind = "await" /\ f.pc = "scan")
WellNested(st) ==
  /\ \A i \in 2..Len(st) : Resumes(st[i])
  /\ \A i, j \in 1..Len(st) :
       st[i].kind = "await" /\ st[j].kind = "await" /\ st[i].call = st[j].call => i = j
Awaiting(st) == {c \in SyncCalls : \E i \in 1..Len(st) : st[i].kind = "await" /\ st[i].call = c}

StackShape ==
  /\ WellNested(stack)
  /\ \A c \in Awaiting(stack) : id[c] # 0 /\ ret[c] = "none"

(* In recv() the length is known, and a call that waits has its error set;   *)
(* neither there nor in poll() is its reply stored.                          *)
AwaitState ==
  stack # <<>> =>
    /\ Top.kind # "callback" /\ Top.pc = "recv" => rx.len
    /\ Top.kind = "await" /\ Top.pc = "recv" => err[Top.call] = "timeout"
    /\ Top.kind = "await" /\ Top.pc \in {"poll", "recv"} => ~Keeps(received, Top.call)

(* The pieces follow each other from what recv() waits for to what the peer  *)
(* writes next.                                                              *)
Follows(at) == CASE at = "len" -> {"whole", "first"}
                 [] at = "first" -> {"rest"}
                 [] OTHER -> {"len"}
Expected == IF ~rx.len THEN {"len"} ELSE IF rx.part THEN {"rest"} ELSE {"whole", "first"}
Coming == IF out.at = "idle" THEN "len" ELSE out.at

Linked(s) == \A i \in 1..(Len(s) - 1) : s[i + 1].at \in Follows(s[i].at)

StreamShape ==
  /\ rx.part => rx.len
  /\ Linked(stream)
  /\ stream = <<>> => Coming \in Expected
  /\ stream # <<>> => /\ stream[1].at \in Expected
                      /\ Coming \in Follows(stream[Len(stream)].at)

IInv == /\ Types /\ IdsDistinct /\ PeerInStep /\ RepliesTruthful /\ OwnReplyOnly
        /\ ReplyInOnePlace /\ StackShape /\ AwaitState /\ StreamShape

-----------------------------------------------------------------------------
(* The stack of activations.                                                 *)

(* The three kinds of activation and what each of them holds.                *)
LEMMA FrameKinds ==
  ASSUME NEW f \in Frames
  PROVE  /\ f.kind \in {"await", "read", "callback"}
         /\ f.kind = "await" => f.call \in SyncCalls /\ f.pc \in {"poll", "recv", "scan"}
         /\ f.kind = "read" => f.pc = "recv"
         /\ f.kind = "callback" => f.req \in PeerReqs \cup {"none"}
  BY DEF Frames

(* An activation of awaitReply at another place is still one, of the same    *)
(* call.                                                                     *)
LEMMA MovedFrame ==
  ASSUME NEW f \in Frames, f.kind = "await", NEW p \in {"poll", "recv", "scan"}
  PROVE  /\ [f EXCEPT !.pc = p] \in Frames
         /\ [f EXCEPT !.pc = p].kind = "await"
         /\ [f EXCEPT !.pc = p].call = f.call
         /\ [f EXCEPT !.pc = p].pc = p
  BY DEF Frames

(* When the innermost activation returns, the one below it goes on, and no   *)
(* call is waited for that was not before.                                   *)
LEMMA PopNested ==
  ASSUME NEW st \in Seq(Frames), st # <<>>, WellNested(st)
  PROVE  /\ Tail(st) \in Seq(Frames)
         /\ WellNested(Tail(st))
         /\ Tail(st) # <<>> => Resumes(Tail(st)[1])
         /\ Awaiting(Tail(st)) \subseteq Awaiting(st)
         /\ st[1].kind = "await" => st[1].call \in Awaiting(st) /\ st[1].call \notin Awaiting(Tail(st))
<1>1. /\ Tail(st) \in Seq(Frames) /\ Len(Tail(st)) = Len(st) - 1
      /\ \A i \in 1..(Len(st) - 1) : Tail(st)[i] = st[i + 1]
      /\ Len(st) \in Nat \ {0}
      /\ st[1] \in Frames
  OBVIOUS
<1>2. Tail(st) # <<>> => Resumes(Tail(st)[1])
  BY <1>1 DEF WellNested
<1>3. WellNested(Tail(st))
  <2>1. \A i \in 2..Len(Tail(st)) : Resumes(Tail(st)[i])
    BY <1>1 DEF WellNested
  <2>2. ASSUME NEW i \in 1..Len(Tail(st)), NEW j \in 1..Len(Tail(st)),
               Tail(st)[i].kind = "await", Tail(st)[j].kind = "await", Tail(st)[i].call = Tail(st)[j].call
        PROVE  i = j
    <3>1. i + 1 \in 1..Len(st) /\ j + 1 \in 1..Len(st) /\ Tail(st)[i] = st[i + 1] /\ Tail(st)[j] = st[j + 1]
      BY <1>1
    <3> QED  BY <2>2, <3>1 DEF WellNested
  <2> QED  BY <2>1, <2>2 DEF WellNested
<1>4. Awaiting(Tail(st)) \subseteq Awaiting(st)
  BY <1>1 DEF Awaiting
<1>5. st[1].kind = "await" => st[1].call \in Awaiting(st) /\ st[1].call \notin Awaiting(Tail(st))
  <2> SUFFICES ASSUME st[1].kind = "await"
               PROVE  st[1].call \in Awaiting(st) /\ st[1].call \notin Awaiting(Tail(st))
    OBVIOUS
  <2>1. st[1].call \in Awaiting(st)
    BY <1>1, FrameKinds DEF Awaiting
  <2>2. ASSUME NEW i \in 1..Len(Tail(st)), Tail(st)[i].kind = "await", Tail(st)[i].call = st[1].call
        PROVE  FALSE
    <3>1. i + 1 \in 1..Len(st) /\ 1 \in 1..Len(st) /\ Tail(st)[i] = st[i + 1] /\ i + 1 # 1
      BY <1>1
    <3> QED  BY <2>2, <3>1 DEF WellNested
  <2> QED  BY <2>1, <2>2 DEF Awaiting
<1> QED  BY <1>1, <1>2, <1>3, <1>4, <1>5

(* A frame pushed on a stack, and what is under it.                          *)
LEMMA PushProperties ==
  ASSUME NEW S, NEW s \in Seq(S), NEW f \in S
  PROVE  /\ <<f>> \o s \in Seq(S)
         /\ <<f>> \o s # <<>>
         /\ Len(<<f>> \o s) = Len(s) + 1
         /\ (<<f>> \o s)[1] = f
         /\ \A i \in 2..(Len(s) + 1) : (<<f>> \o s)[i] = s[i - 1]
  OBVIOUS

(* The top of a stack exchanged for another frame.                           *)
LEMMA ReplaceTopProperties ==
  ASSUME NEW S, NEW s \in Seq(S), s # <<>>, NEW f \in S
  PROVE  /\ <<f>> \o Tail(s) \in Seq(S)
         /\ Len(<<f>> \o Tail(s)) = Len(s)
         /\ (<<f>> \o Tail(s))[1] = f
         /\ \A i \in 2..Len(s) : (<<f>> \o Tail(s))[i] = s[i]
  OBVIOUS

(* A handler or completion that is run on top of an activation that waits    *)
(* for it adds no awaited call.                                              *)
LEMMA PushCallbackNested ==
  ASSUME NEW st \in Seq(Frames), WellNested(st), st # <<>> => Resumes(st[1]),
         NEW req \in PeerReqs \cup {"none"}
  PROVE  /\ Callback(req) \o st \in Seq(Frames)
         /\ Callback(req) \o st # <<>>
         /\ (Callback(req) \o st)[1].kind = "callback"
         /\ WellNested(Callback(req) \o st)
         /\ Awaiting(Callback(req) \o st) = Awaiting(st)
<1> DEFINE f == [kind |-> "callback", req |-> req]
           new == <<f>> \o st
<1>1. f \in Frames /\ f.kind = "callback"
  BY DEF Frames
<1>2. /\ new \in Seq(Frames) /\ new # <<>> /\ Len(new) = Len(st) + 1 /\ new[1] = f
      /\ \A i \in 2..(Len(st) + 1) : new[i] = st[i - 1]
      /\ \A i \in 1..Len(st) : st[i] = new[i + 1]
      /\ Len(st) \in Nat
      /\ st # <<>> <=> Len(st) > 0
  BY <1>1, PushProperties
<1> HIDE DEF new, f
<1>3. WellNested(new)
  <2>1. ASSUME NEW i \in 2..Len(new)
        PROVE  Resumes(new[i])
    <3>1. i - 1 \in 1..Len(st) /\ new[i] = st[i - 1]
      BY <1>2
    <3>2. CASE i = 2
      BY <1>1, <1>2, <3>1, <3>2 DEF Resumes
    <3>3. CASE i # 2
      BY <1>2, <3>1, <3>3 DEF WellNested
    <3> QED  BY <3>2, <3>3
  <2>2. ASSUME NEW i \in 1..Len(new), NEW j \in 1..Len(new),
               new[i].kind = "await", new[j].kind = "await", new[i].call = new[j].call
        PROVE  i = j
    <3>1. \A k \in 1..Len(new) : k = 1 \/ (k - 1 \in 1..Len(st) /\ new[k] = st[k - 1])
      BY <1>2
    <3>2. i # 1 /\ j # 1
      BY <1>1, <1>2, <2>2
    <3>3. i - 1 = j - 1
      BY <2>2, <3>1, <3>2 DEF WellNested
    <3> QED  BY <3>3
  <2> QED  BY <2>1, <2>2 DEF WellNested
<1>4. Awaiting(new) = Awaiting(st)
  <2>1. \A i \in 1..Len(st) : i + 1 \in 1..Len(new) /\ new[i + 1] = st[i]
    BY <1>2
  <2>2. \A i \in 1..Len(new) : new[i].kind = "await" => i - 1 \in 1..Len(st) /\ new[i] = st[i - 1]
    BY <1>1, <1>2
  <2> QED  BY <2>1, <2>2 DEF Awaiting
<1> USE DEF new, f
<1> QED  BY <1>1, <1>2, <1>3, <1>4 DEF Callback

(* A handler that makes a synchronous call adds that call to the awaited     *)
(* ones.                                                                     *)
LEMMA PushAwaitNested ==
  ASSUME NEW st \in Seq(Frames), WellNested(st), st # <<>> => st[1].kind = "callback",
         NEW c \in SyncCalls, c \notin Awaiting(st)
  PROVE  LET new == <<[kind |-> "await", call |-> c, pc |-> "poll"]>> \o st
         IN  /\ new \in Seq(Frames) /\ new # <<>>
             /\ new[1] = [kind |-> "await", call |-> c, pc |-> "poll"]
             /\ WellNested(new)
             /\ Awaiting(new) = Awaiting(st) \cup {c}
<1> DEFINE f == [kind |-> "await", call |-> c, pc |-> "poll"]
           new == <<f>> \o st
<1>1. f \in Frames /\ f.kind = "await" /\ f.call = c
  BY DEF Frames
<1>2. /\ new \in Seq(Frames) /\ new # <<>> /\ Len(new) = Len(st) + 1 /\ new[1] = f
      /\ \A i \in 2..(Len(st) + 1) : new[i] = st[i - 1]
      /\ \A i \in 1..Len(st) : st[i] = new[i + 1] /\ st[i] \in Frames
      /\ Len(st) \in Nat
      /\ st # <<>> <=> Len(st) > 0
  BY <1>1, PushProperties
<1>3. \A i \in 1..Len(st) : st[i].kind = "await" => st[i].call \in SyncCalls /\ st[i].call # c
  BY <1>2, FrameKinds DEF Awaiting
<1> HIDE DEF new, f
<1>4. WellNested(new)
  <2>1. ASSUME NEW i \in 2..Len(new)
        PROVE  Resumes(new[i])
    <3>1. i - 1 \in 1..Len(st) /\ new[i] = st[i - 1]
      BY <1>2
    <3>2. CASE i = 2
      BY <1>1, <1>2, <3>1, <3>2 DEF Resumes
    <3>3. CASE i # 2
      BY <1>2, <3>1, <3>3 DEF WellNested
    <3> QED  BY <3>2, <3>3
  <2>2. ASSUME NEW i \in 1..Len(new), NEW j \in 1..Len(new),
               new[i].kind = "await", new[j].kind = "await", new[i].call = new[j].call
        PROVE  i = j
    <3>1. \A k \in 1..Len(new) : k = 1 \/ (k - 1 \in 1..Len(st) /\ new[k] = st[k - 1])
      BY <1>2
    <3>2. i = 1 <=> j = 1
      BY <1>1, <1>2, <1>3, <2>2, <3>1
    <3>3. i # 1 => i - 1 = j - 1
      BY <2>2, <3>1, <3>2 DEF WellNested
    <3> QED  BY <3>2, <3>3
  <2> QED  BY <2>1, <2>2 DEF WellNested
<1>5. Awaiting(new) = Awaiting(st) \cup {c}
  <2>1. \A i \in 1..Len(st) : i + 1 \in 1..Len(new) /\ new[i + 1] = st[i]
    BY <1>2
  <2>2. \A i \in 1..Len(new) : i = 1 \/ (i - 1 \in 1..Len(st) /\ new[i] = st[i - 1])
    BY <1>2
  <2>3. 1 \in 1..Len(new)
    BY <1>2
  <2>4. c \in Awaiting(new)
    BY <1>1, <1>2, <2>3 DEF Awaiting
  <2>5. Awaiting(st) \subseteq Awaiting(new)
    BY <2>1 DEF Awaiting
  <2>6. Awaiting(new) \subseteq Awaiting(st) \cup {c}
    BY <1>1, <1>2, <2>2 DEF Awaiting
  <2> QED  BY <2>4, <2>5, <2>6
<1> USE DEF new, f
<1> QED  BY <1>1, <1>2, <1>4, <1>5

(* awaitReply going from poll() to recv() or to the scan of received leaves  *)
(* the nesting as it is.                                                     *)
LEMMA MoveTopNested ==
  ASSUME NEW st \in Seq(Frames), st # <<>>, WellNested(st), st[1].kind = "await",
         NEW p \in {"poll", "recv", "scan"}
  PROVE  LET new == <<[st[1] EXCEPT !.pc = p]>> \o Tail(st)
         IN  /\ new \in Seq(Frames) /\ new # <<>>
             /\ new[1].kind = "await" /\ new[1].call = st[1].call /\ new[1].pc = p
             /\ WellNested(new)
             /\ Awaiting(new) = Awaiting(st)
<1> DEFINE f == [st[1] EXCEPT !.pc = p]
           new == <<f>> \o Tail(st)
<1>1. st[1] \in Frames /\ Len(st) \in Nat \ {0}
  OBVIOUS
<1>2. f \in Frames /\ f.kind = "await" /\ f.call = st[1].call /\ f.pc = p
  BY <1>1, MovedFrame
<1>3. /\ new \in Seq(Frames) /\ new # <<>> /\ Len(new) = Len(st) /\ new[1] = f
      /\ \A i \in 2..Len(st) : new[i] = st[i]
  <2> HIDE DEF f
  <2> QED  BY <1>2, ReplaceTopProperties
<1> HIDE DEF new, f
<1>4. WellNested(new)
  BY <1>1, <1>2, <1>3 DEF WellNested
<1>5. Awaiting(new) = Awaiting(st)
  <2>1. \A i \in 1..Len(st) : new[i].kind = st[i].kind /\ (st[i].kind = "await" => new[i].call = st[i].call)
    BY <1>1, <1>2, <1>3
  <2> QED  BY <1>3, <2>1 DEF Awaiting
<1> USE DEF new, f
<1> QED  BY <1>2, <1>3, <1>4, <1>5

-----------------------------------------------------------------------------
(* The stream, and the stored replies.                                       *)

(* Taking a piece off the stream leaves the others as they were, and no      *)
(* second last piece of a message whose last piece it was (recv() in doRecv).*)
LEMMA TakePiece ==
  ASSUME NEW s \in Seq(Pieces), s # <<>>
  PROVE  /\ Tail(s) \in Seq(Pieces)
         /\ \A i \in 1..Len(Tail(s)) : \E j \in 1..Len(s) : Tail(s)[i] = s[j]
         /\ Linked(s) => Linked(Tail(s))
         /\ Linked(s) /\ Tail(s) # <<>> => /\ Tail(s)[1].at \in Follows(s[1].at)
                                           /\ Tail(s)[Len(Tail(s))] = s[Len(s)]
         /\ Tail(s) = <<>> => s[Len(s)] = s[1]
         /\ \A c : Brings(Tail(s), c) => Brings(s, c)
         /\ \A c : BringsOnce(s, c) => /\ BringsOnce(Tail(s), c)
                                       /\ Carries(s[1], c) => ~Brings(Tail(s), c)
         /\ \A c : Carries(s[1], c) => Brings(s, c)
<1>1. /\ Tail(s) \in Seq(Pieces) /\ Len(Tail(s)) = Len(s) - 1 /\ Len(s) \in Nat \ {0}
      /\ \A i \in 1..(Len(s) - 1) : Tail(s)[i] = s[i + 1] /\ i + 1 \in 1..Len(s)
      /\ Tail(s) = <<>> <=> Len(s) = 1
  <2>1. Tail(s) \in Seq(Pieces) /\ Len(Tail(s)) = Len(s) - 1 /\ Len(s) \in Nat \ {0}
    OBVIOUS
  <2>2. \A i \in 1..(Len(s) - 1) : Tail(s)[i] = s[i + 1] /\ i + 1 \in 1..Len(s)
    BY <2>1
  <2>3. Tail(s) = <<>> <=> Len(s) = 1
    BY <2>1
  <2> QED  BY <2>1, <2>2, <2>3
<1> HIDE DEF Pieces
<1>2. \A i \in 1..Len(Tail(s)) : \E j \in 1..Len(s) : Tail(s)[i] = s[j]
  BY <1>1
<1>3. Linked(s) => Linked(Tail(s))
  <2> SUFFICES ASSUME Linked(s), NEW i \in 1..(Len(Tail(s)) - 1)
               PROVE  Tail(s)[i + 1].at \in Follows(Tail(s)[i].at)
    BY DEF Linked
  <2>1. i + 1 \in 1..(Len(s) - 1) /\ Tail(s)[i] = s[i + 1] /\ Tail(s)[i + 1] = s[(i + 1) + 1]
    BY <1>1
  <2> QED  BY <2>1 DEF Linked
<1>4. Linked(s) /\ Tail(s) # <<>> => /\ Tail(s)[1].at \in Follows(s[1].at)
                                    /\ Tail(s)[Len(Tail(s))] = s[Len(s)]
  <2> SUFFICES ASSUME Linked(s), Tail(s) # <<>>
               PROVE  /\ Tail(s)[1].at \in Follows(s[1].at)
                      /\ Tail(s)[Len(Tail(s))] = s[Len(s)]
    OBVIOUS
  <2>1. 1 \in 1..(Len(s) - 1) /\ Tail(s)[1] = s[1 + 1]
    BY <1>1
  <2>2. Len(s) - 1 \in 1..(Len(s) - 1) /\ Tail(s)[Len(s) - 1] = s[(Len(s) - 1) + 1]
    BY <1>1
  <2> QED  BY <1>1, <2>1, <2>2 DEF Linked
<1>5. \A c : Brings(Tail(s), c) => Brings(s, c)
  BY <1>1 DEF Brings
<1>6. ASSUME NEW c, BringsOnce(s, c)
      PROVE  BringsOnce(Tail(s), c) /\ (Carries(s[1], c) => ~Brings(Tail(s), c))
  <2>1. ASSUME NEW i \in 1..Len(Tail(s)), NEW j \in 1..Len(Tail(s)), Carries(Tail(s)[i], c), Carries(Tail(s)[j], c)
        PROVE  i = j
    <3>1. /\ i + 1 \in 1..Len(s) /\ j + 1 \in 1..Len(s)
          /\ Carries(s[i + 1], c) /\ Carries(s[j + 1], c)
      BY <1>1, <2>1
    <3>2. i + 1 = j + 1
      BY <1>6, <3>1 DEF BringsOnce
    <3> QED  BY <3>2
  <2>2. ASSUME NEW i \in 1..Len(Tail(s)), Carries(Tail(s)[i], c), Carries(s[1], c)
        PROVE  FALSE
    <3>1. i + 1 \in 1..Len(s) /\ 1 \in 1..Len(s) /\ Carries(s[i + 1], c) /\ i + 1 # 1
      BY <1>1, <2>2
    <3> QED  BY <1>6, <2>2, <3>1 DEF BringsOnce
  <2> QED  BY <2>1, <2>2 DEF BringsOnce, Brings
<1>7. \A c : Carries(s[1], c) => Brings(s, c)
  BY <1>1 DEF Brings
<1> QED  BY <1>1, <1>2, <1>3, <1>4, <1>5, <1>6, <1>7

(* What the peer's write() adds to the stream.                               *)
LEMMA AddPiece ==
  ASSUME NEW s \in Seq(Pieces), NEW p \in Pieces
  PROVE  /\ Append(s, p) \in Seq(Pieces) /\ Append(s, p) # <<>>
         /\ \A i \in 1..Len(Append(s, p)) : Append(s, p)[i] = p \/ \E j \in 1..Len(s) : Append(s, p)[i] = s[j]
         /\ Append(s, p)[Len(Append(s, p))] = p
         /\ Append(s, p)[1] = IF s = <<>> THEN p ELSE s[1]
         /\ Linked(s) /\ (s # <<>> => p.at \in Follows(s[Len(s)].at)) => Linked(Append(s, p))
         /\ \A c : Brings(Append(s, p), c) <=> Brings(s, c) \/ Carries(p, c)
         /\ \A c : BringsOnce(s, c) /\ (Carries(p, c) => ~Brings(s, c)) => BringsOnce(Append(s, p), c)
<1> DEFINE a == Append(s, p)
<1>1. /\ a \in Seq(Pieces) /\ a # <<>> /\ Len(a) = Len(s) + 1 /\ Len(s) \in Nat
      /\ \A i \in 1..Len(s) : a[i] = s[i]
      /\ a[Len(s) + 1] = p
      /\ s = <<>> <=> Len(s) = 0
  OBVIOUS
<1> HIDE DEF a, Pieces
<1>2. \A i \in 1..Len(a) : i \in 1..Len(s) \/ i = Len(a)
  BY <1>1
<1>3. \A i \in 1..Len(a) : a[i] = p \/ \E j \in 1..Len(s) : a[i] = s[j]
  BY <1>1, <1>2
<1>4. a[1] = IF s = <<>> THEN p ELSE s[1]
  BY <1>1
<1>5. Linked(s) /\ (s # <<>> => p.at \in Follows(s[Len(s)].at)) => Linked(a)
  BY <1>1 DEF Linked
<1>6. \A c : Brings(a, c) <=> Brings(s, c) \/ Carries(p, c)
  BY <1>1, <1>2 DEF Brings
<1>7. \A c : BringsOnce(s, c) /\ (Carries(p, c) => ~Brings(s, c)) => BringsOnce(a, c)
  BY <1>1, <1>2 DEF BringsOnce, Brings
<1> USE DEF a
<1> QED  BY <1>1, <1>3, <1>4, <1>5, <1>6, <1>7

(* Storing a reply (processMessage) and taking one out (awaitReply).         *)
LEMMA StoreReply ==
  ASSUME NEW s \in Seq(Replies), NEW m \in Replies
  PROVE  /\ Append(s, m) \in Seq(Replies)
         /\ \A i \in 1..Len(Append(s, m)) : Append(s, m)[i] = m \/ \E j \in 1..Len(s) : Append(s, m)[i] = s[j]
         /\ \A c : Keeps(Append(s, m), c) <=> Keeps(s, c) \/ m.call = c
         /\ \A c : KeepsOnce(s, c) /\ (m.call = c => ~Keeps(s, c)) => KeepsOnce(Append(s, m), c)
<1> DEFINE a == Append(s, m)
<1>1. /\ a \in Seq(Replies) /\ Len(a) = Len(s) + 1 /\ Len(s) \in Nat
      /\ \A i \in 1..Len(s) : a[i] = s[i]
      /\ a[Len(s) + 1] = m
  OBVIOUS
<1> HIDE DEF a, Replies
<1>2. \A i \in 1..Len(a) : i \in 1..Len(s) \/ i = Len(a)
  BY <1>1
<1>3. \A i \in 1..Len(a) : a[i] = m \/ \E j \in 1..Len(s) : a[i] = s[j]
  BY <1>1, <1>2
<1>4. \A c : Keeps(a, c) <=> Keeps(s, c) \/ m.call = c
  BY <1>1, <1>2 DEF Keeps
<1>5. \A c : KeepsOnce(s, c) /\ (m.call = c => ~Keeps(s, c)) => KeepsOnce(a, c)
  BY <1>1, <1>2 DEF KeepsOnce, Keeps
<1> USE DEF a
<1> QED  BY <1>1, <1>3, <1>4, <1>5

(* RemoveAt leaves out one element and closes the gap.                       *)
LEMMA RemoveAtProperties ==
  ASSUME NEW S, NEW s \in Seq(S), NEW p \in 1..Len(s)
  PROVE  /\ RemoveAt(s, p) \in Seq(S)
         /\ Len(RemoveAt(s, p)) = Len(s) - 1
         /\ \A j \in 1..(Len(s) - 1) : RemoveAt(s, p)[j] = IF j < p THEN s[j] ELSE s[j + 1]
<1> DEFINE a == SubSeq(s, 1, p - 1)
           b == SubSeq(s, p + 1, Len(s))
<1>1. /\ a \in Seq(S) /\ Len(a) = p - 1
      /\ \A j \in 1..(p - 1) : a[j] = s[j]
  BY SubSeqProperties
<1>2. /\ b \in Seq(S) /\ Len(b) = Len(s) - p
      /\ \A j \in 1..(Len(s) - p) : b[j] = s[p + j]
  BY SubSeqProperties
<1>3. RemoveAt(s, p) = a \o b
  BY DEF RemoveAt
<1>4. a \in Seq(S) /\ b \in Seq(S)
  BY <1>1, <1>2
<1> HIDE DEF a, b
<1>5. /\ a \o b \in Seq(S)
      /\ Len(a \o b) = Len(a) + Len(b)
      /\ \A j \in 1..(Len(a) + Len(b)) : (a \o b)[j] = IF j <= Len(a) THEN a[j] ELSE b[j - Len(a)]
  BY <1>4
<1> QED  BY <1>1, <1>2, <1>3, <1>5

(* Taking one reply out of received leaves the others, and no second one of  *)
(* its call.                                                                 *)
LEMMA RemoveReply ==
  ASSUME NEW s \in Seq(Replies), NEW k \in 1..Len(s)
  PROVE  /\ RemoveAt(s, k) \in Seq(Replies)
         /\ \A i \in 1..Len(RemoveAt(s, k)) : \E j \in 1..Len(s) : RemoveAt(s, k)[i] = s[j]
         /\ \A c : Keeps(RemoveAt(s, k), c) => Keeps(s, c)
         /\ \A c : KeepsOnce(s, c) => /\ KeepsOnce(RemoveAt(s, k), c)
                                      /\ s[k].call = c => ~Keeps(RemoveAt(s, k), c)
<1> DEFINE a == RemoveAt(s, k)
           Old(i) == IF i < k THEN i ELSE i + 1
<1>1. /\ a \in Seq(Replies) /\ Len(a) = Len(s) - 1 /\ Len(s) \in Nat
      /\ \A i \in 1..(Len(s) - 1) : a[i] = IF i < k THEN s[i] ELSE s[i + 1]
  <2>1. Len(s) \in Nat
    OBVIOUS
  <2> QED  BY <2>1, RemoveAtProperties, Zenon
<1> HIDE DEF a, Replies
<1>2. \A i \in 1..Len(a) : Old(i) \in 1..Len(s) /\ Old(i) # k /\ a[i] = s[Old(i)]
  BY <1>1
<1>3. \A i, j \in 1..Len(a) : Old(i) = Old(j) => i = j
  BY <1>1
<1> HIDE DEF Old
<1>4. \A i \in 1..Len(a) : \E j \in 1..Len(s) : a[i] = s[j]
  BY <1>2
<1>5. \A c : Keeps(a, c) => Keeps(s, c)
  BY <1>2 DEF Keeps
<1>6. \A c : KeepsOnce(s, c) => KeepsOnce(a, c) /\ (s[k].call = c => ~Keeps(a, c))
  BY <1>2, <1>3 DEF Keeps, KeepsOnce
<1> USE DEF a
<1> QED  BY <1>1, <1>4, <1>5, <1>6

-----------------------------------------------------------------------------
(* The steps.                                                                *)

(* The next value of rand() is the id of no call yet.                        *)
LEMMA RandFresh ==
  ASSUME Types, IdsDistinct, NEW c \in Calls, id[c] = 0
  PROVE  /\ Rand \in Ids
         /\ \A d \in Calls : id[d] < Rand
         /\ Cardinality(Made \cup {c}) = Rand
<1>1. IsFiniteSet(Calls)
  BY TransportAssumption, FS_Union DEF Calls
<1>2. IsFiniteSet(Made) /\ Made \cup {c} \subseteq Calls /\ c \notin Made
  BY <1>1, FS_Subset DEF Made
<1>3. Cardinality(Made \cup {c}) = Cardinality(Made) + 1 /\ Cardinality(Made) \in Nat
  BY <1>2, FS_AddElement, FS_CardinalityType
<1>4. Cardinality(Made \cup {c}) <= Cardinality(Calls) /\ Cardinality(Calls) \in Nat
  BY <1>1, <1>2, FS_Subset, FS_CardinalityType
<1>5. Rand = Cardinality(Made) + 1
  BY <1>3 DEF Rand, Made
<1>6. \A d \in Calls : id[d] \in Int /\ id[d] <= Cardinality(Made)
  BY <1>4 DEF Ids, IdsDistinct, Types
<1>7. \A d \in Calls : id[d] < Rand
  BY <1>3, <1>5, <1>6
<1>8. Rand \in Ids
  BY <1>3, <1>4, <1>5 DEF Ids
<1> QED  BY <1>3, <1>5, <1>7, <1>8

(* What is stored are replies, of calls that the peer has run.               *)
LEMMA StoredReplies ==
  ASSUME Types, RepliesTruthful, NEW i \in 1..Len(received)
  PROVE  /\ received[i] \in Replies /\ received[i].type = "reply"
         /\ received[i].call \in ran /\ received[i].call \in Calls
         /\ received[i].id = id[received[i].call] /\ id[received[i].call] # 0
<1>1. received[i] \in Replies
  BY DEF Types
<1>2. received[i].type = "reply" /\ received[i].id \in Ids
  BY <1>1 DEF Replies
<1>3. received[i].id # 0
  BY <1>2 DEF Ids
<1> QED  BY <1>1, <1>2, <1>3 DEF RepliesTruthful, Truthful, Types

(* Dies changes nothing the invariant speaks of.                             *)
LEMMA DiesStep ==
  ASSUME IInv, Dies
  PROVE  IInv'
<1> USE DEF Dies, clientVars, peerVars
<1>1. Types'  BY DEF IInv, Types
<1>2. IdsDistinct'  BY DEF IInv, IdsDistinct, Made
<1>3. PeerInStep'  BY DEF IInv, PeerInStep, Made
<1>4. RepliesTruthful'  BY DEF IInv, RepliesTruthful, Truthful
<1>5. OwnReplyOnly'  BY DEF IInv, OwnReplyOnly
<1>6. ReplyInOnePlace'  BY DEF IInv, ReplyInOnePlace, Writing
<1>7. StackShape'  BY DEF IInv, StackShape
<1>8. AwaitState'  BY DEF IInv, AwaitState, Top
<1>9. StreamShape'  BY DEF IInv, StreamShape, Coming, Expected
<1> QED  BY <1>1, <1>2, <1>3, <1>4, <1>5, <1>6, <1>7, <1>8, <1>9 DEF IInv

(* sendMessage keeps the invariant: its id is new, so no reply of it is      *)
(* anywhere.                                                                 *)
LEMMA SendMessageStep ==
  ASSUME IInv, NEW c \in Calls, sendMessage(c)
  PROVE  IInv'
<1>1. CASE Dies
  BY <1>1, DiesStep
<1>2. CASE /\ Sent(c)
           /\ stack' = IF c \in SyncCalls THEN <<[kind |-> "await", call |-> c, pc |-> "poll"]>> \o stack
                       ELSE stack
  <2> USE <1>2 DEF Sent
  <2>1. Types /\ IdsDistinct /\ PeerInStep /\ RepliesTruthful /\ OwnReplyOnly /\ ReplyInOnePlace
        /\ StackShape /\ AwaitState /\ StreamShape
    BY DEF IInv
  <2>2. id[c] = 0 /\ MayCall
    BY DEF sendMessage
  <2>3. /\ Rand \in Ids /\ Cardinality(Made \cup {c}) = Rand
        /\ \A d \in Calls : id[d] < Rand
    BY <2>1, <2>2, RandFresh
  <2>4. /\ id' \in [Calls -> Ids \cup {0}]
        /\ id'[c] = Rand /\ Rand # 0
        /\ \A d \in Calls : d # c => id'[d] = id[d]
    BY <2>1, <2>3 DEF Types, Ids
  <2>5. Made' = Made \cup {c}
    BY <2>4 DEF Made
  <2>6. c \notin ran /\ c \notin asked /\ done[c] = <<>>
    BY <2>1, <2>2 DEF PeerInStep, Made
  <2>7. c \notin Awaiting(stack)
    BY <2>1, <2>2 DEF StackShape
  <2>8. /\ stack' \in Seq(Frames)
        /\ WellNested(stack')
        /\ Awaiting(stack') \subseteq Awaiting(stack) \cup {c}
        /\ stack' = stack \/ stack'[1] = [kind |-> "await", call |-> c, pc |-> "poll"]
    <3>1. CASE c \in SyncCalls
      BY <2>1, <2>2, <2>7, <3>1, PushAwaitNested DEF Types, StackShape, MayCall, Top
    <3>2. CASE c \notin SyncCalls
      BY <2>1, <3>2 DEF Types, StackShape
    <3> QED  BY <3>1, <3>2
  <2>11. Types'
    BY <2>1, <2>4, <2>8 DEF Types
  <2>12. IdsDistinct'
    <3>1. \A d \in Calls : id'[d] <= Rand
      <4>1. Rand \in Int /\ \A d \in Calls : id[d] \in Int
        BY <2>1, <2>3 DEF Types, Ids
      <4> QED  BY <2>3, <2>4, <4>1
    <3>2. ASSUME NEW d \in Calls, NEW e \in Calls, id'[d] # 0, id'[d] = id'[e]
          PROVE  d = e
      <4>1. \A x \in Calls : id[x] # Rand
        <5>1. Rand \in Int /\ \A x \in Calls : id[x] \in Int
          BY <2>1, <2>3 DEF Types, Ids
        <5> QED  BY <2>3, <5>1
      <4> QED  BY <2>1, <2>4, <3>2, <4>1 DEF IdsDistinct
    <3> QED  BY <2>3, <2>5, <3>1, <3>2 DEF IdsDistinct
  <2>13. PeerInStep'
    BY <2>1, <2>2, <2>4, <2>5, <2>6 DEF PeerInStep
  <2>14. RepliesTruthful'
    BY <2>1, <2>4, <2>6 DEF RepliesTruthful, Truthful, Types
  <2>15. OwnReplyOnly'
    BY <2>1 DEF OwnReplyOnly
  <2>16. ReplyInOnePlace'
    BY <2>1 DEF ReplyInOnePlace, Writing
  <2>17. StackShape'
    BY <2>1, <2>2, <2>4, <2>8 DEF StackShape, PeerInStep, Awaiting, Calls
  <2>18. AwaitState'
    <3>1. CASE stack' = stack
      BY <2>1, <3>1 DEF AwaitState, Top
    <3>2. CASE stack'[1] = [kind |-> "await", call |-> c, pc |-> "poll"]
      <4>1. ~Keeps(received, c)
        BY <2>1, <2>6, StoredReplies DEF RepliesTruthful, Keeps
      <4> QED  BY <3>2, <4>1 DEF AwaitState, Top
    <3> QED  BY <2>8, <3>1, <3>2
  <2>19. StreamShape'
    BY <2>1 DEF StreamShape, Coming, Expected
  <2> QED  BY <2>11, <2>12, <2>13, <2>14, <2>15, <2>16, <2>17, <2>18, <2>19 DEF IInv
<1> QED  BY <1>1, <1>2 DEF sendMessage

(* A handler or a call that is resumed finds nothing promised of it.         *)
LEMMA ResumedState ==
  ASSUME stack' # <<>> => Resumes(stack'[1])
  PROVE  AwaitState'
  BY DEF AwaitState, Top, Resumes

(* A stream of which only the front was taken.                               *)
LEMMA ShrunkStream ==
  ASSUME IInv, UNCHANGED <<out, received, done, ran, id>>,
         \A i \in 1..Len(stream') : \E j \in 1..Len(stream) : stream'[i] = stream[j],
         \A c : Brings(stream', c) => Brings(stream, c),
         \A c : BringsOnce(stream, c) => BringsOnce(stream', c)
  PROVE  RepliesTruthful' /\ ReplyInOnePlace'
<1>1. RepliesTruthful /\ ReplyInOnePlace
  BY DEF IInv
<1>2. RepliesTruthful'
  BY <1>1 DEF RepliesTruthful, Truthful
<1>3. ReplyInOnePlace'
  BY <1>1 DEF ReplyInOnePlace, Writing
<1> QED  BY <1>2, <1>3

(* Reading the length of a message takes one piece off the stream and brings *)
(* no reply in.                                                              *)
LEMMA TakeLengthEffect ==
  ASSUME IInv, TakeLength, out' = out
  PROVE  /\ rx' \in [len : BOOLEAN, part : BOOLEAN] /\ rx'.len
         /\ stream' \in Seq(Pieces)
         /\ StreamShape'
         /\ \A i \in 1..Len(stream') : \E j \in 1..Len(stream) : stream'[i] = stream[j]
         /\ \A c : Brings(stream', c) => Brings(stream, c)
         /\ \A c : BringsOnce(stream, c) => BringsOnce(stream', c)
<1>1. Types /\ StreamShape
  BY DEF IInv
<1>2. CASE rx.len
  BY <1>1, <1>2 DEF TakeLength, Types, StreamShape, Coming, Expected
<1>3. CASE ~rx.len
  <2>1. /\ stream # <<>> /\ stream' = Tail(stream)
        /\ rx' = [len |-> TRUE, part |-> FALSE]
    BY <1>3 DEF TakeLength
  <2>2. stream \in Seq(Pieces) /\ stream[1].at = "len"
    BY <1>1, <1>3, <2>1 DEF Types, StreamShape, Expected
  <2>3. StreamShape'
    <3>1. Follows("len") = {"whole", "first"} /\ Expected' = {"whole", "first"} /\ Coming' = Coming
      BY <2>1 DEF Follows, Expected, Coming
    <3>2. Linked(stream')
      BY <1>1, <2>1, <2>2, TakePiece DEF StreamShape
    <3>3. CASE stream' = <<>>
      <4>1. stream[Len(stream)] = stream[1]
        BY <2>1, <2>2, <3>3, TakePiece
      <4> QED  BY <1>1, <2>1, <2>2, <3>1, <3>2, <3>3, <4>1 DEF StreamShape
    <3>4. CASE stream' # <<>>
      <4>1. stream'[1].at \in Follows(stream[1].at) /\ stream'[Len(stream')] = stream[Len(stream)]
        BY <1>1, <2>1, <2>2, <3>4, TakePiece DEF StreamShape
      <4> QED  BY <1>1, <2>1, <2>2, <3>1, <3>2, <3>4, <4>1 DEF StreamShape
    <3> QED  BY <3>3, <3>4
  <2> QED  BY <2>1, <2>2, <2>3, TakePiece
<1> QED  BY <1>2, <1>3

(* The event loop finds the socket readable and the length is read.          *)
LEMMA ReadyForReadStep ==
  ASSUME IInv, readyForRead
  PROVE  IInv'
<1> USE DEF readyForRead, peerVars
<1>1. Types /\ IdsDistinct /\ PeerInStep /\ RepliesTruthful /\ OwnReplyOnly /\ ReplyInOnePlace
      /\ StackShape /\ AwaitState /\ StreamShape
  BY DEF IInv
<1>2. /\ rx' \in [len : BOOLEAN, part : BOOLEAN] /\ rx'.len
      /\ stream' \in Seq(Pieces)
      /\ StreamShape'
      /\ RepliesTruthful' /\ ReplyInOnePlace'
  BY TakeLengthEffect, ShrunkStream
<1>3. [kind |-> "read", pc |-> "recv"] \in Frames
  BY DEF Frames
<1>4. /\ stack' \in Seq(Frames) /\ Len(stack') = 1 /\ stack'[1] = [kind |-> "read", pc |-> "recv"]
  BY <1>3
<1>5. Awaiting(stack') = {} /\ WellNested(stack')
  <2>1. \A i \in 1..Len(stack') : i = 1
    BY <1>4
  <2>2. stack'[1].kind # "await"
    BY <1>4
  <2> QED  BY <1>4, <2>1, <2>2 DEF Awaiting, WellNested
<1>11. Types'
  BY <1>1, <1>2, <1>4 DEF Types
<1>12. IdsDistinct'
  BY <1>1 DEF IdsDistinct, Made
<1>13. PeerInStep'
  BY <1>1 DEF PeerInStep, Made
<1>15. OwnReplyOnly'
  BY <1>1 DEF OwnReplyOnly
<1>17. StackShape'
  BY <1>1, <1>5 DEF StackShape
<1>18. AwaitState'
  BY <1>2, <1>4 DEF AwaitState, Top
<1> QED  BY <1>2, <1>11, <1>12, <1>13, <1>15, <1>17, <1>18 DEF IInv

(* awaitReply finds the socket readable and the length is read.              *)
LEMMA AwaitPollsStep ==
  ASSUME IInv, AwaitPolls
  PROVE  IInv'
<1> USE DEF AwaitPolls, peerVars
<1>1. Types /\ IdsDistinct /\ PeerInStep /\ RepliesTruthful /\ OwnReplyOnly /\ ReplyInOnePlace
      /\ StackShape /\ AwaitState /\ StreamShape
  BY DEF IInv
<1>2. /\ rx' \in [len : BOOLEAN, part : BOOLEAN] /\ rx'.len
      /\ stream' \in Seq(Pieces)
      /\ StreamShape'
      /\ RepliesTruthful' /\ ReplyInOnePlace'
  BY TakeLengthEffect, ShrunkStream
<1>3. stack # <<>> /\ Top.kind = "await" /\ Top.pc = "poll" /\ Top \in Frames
  BY <1>1 DEF InAwait, Types, Top
<1>4. /\ stack' \in Seq(Frames) /\ stack' # <<>>
      /\ Top'.kind = "await" /\ Top'.call = Top.call /\ Top'.pc = "recv"
      /\ WellNested(stack') /\ Awaiting(stack') = Awaiting(stack)
  BY <1>1, <1>3, MoveTopNested DEF StackShape, Types, AtPc, Top
<1>5. Top.call \in SyncCalls /\ Top.call \in Calls
  BY <1>3, FrameKinds DEF Calls
<1>6. err' \in [Calls -> {"success", "error", "timeout"}] /\ err'[Top.call] = "timeout"
  BY <1>1, <1>5 DEF Types
<1>11. Types'
  BY <1>1, <1>2, <1>4, <1>6 DEF Types
<1>12. IdsDistinct'
  BY <1>1 DEF IdsDistinct, Made
<1>13. PeerInStep'
  BY <1>1 DEF PeerInStep, Made
<1>15. OwnReplyOnly'
  BY <1>1 DEF OwnReplyOnly
<1>17. StackShape'
  BY <1>1, <1>4 DEF StackShape
<1>18. AwaitState'
  <2>1. ~Keeps(received, Top.call)
    BY <1>1, <1>3 DEF AwaitState
  <2> QED  BY <1>2, <1>4, <1>6, <2>1 DEF AwaitState
<1> QED  BY <1>2, <1>11, <1>12, <1>13, <1>15, <1>17, <1>18 DEF IInv

(* awaitReply gives up: its call fails and the activation below goes on.     *)
LEMMA AwaitTimesOutStep ==
  ASSUME IInv, AwaitTimesOut
  PROVE  IInv'
<1> USE DEF AwaitTimesOut, StubReturns, peerVars
<1>1. Types /\ IdsDistinct /\ PeerInStep /\ RepliesTruthful /\ OwnReplyOnly /\ ReplyInOnePlace
      /\ StackShape /\ AwaitState /\ StreamShape
  BY DEF IInv
<1>2. stack # <<>> /\ Top.kind = "await" /\ Top \in Frames
  BY <1>1 DEF InAwait, Types, Top
<1>3. Top.call \in SyncCalls /\ Top.call \in Calls
  BY <1>2, FrameKinds DEF Calls
<1>4. /\ stack' \in Seq(Frames) /\ WellNested(stack')
      /\ stack' # <<>> => Resumes(stack'[1])
      /\ Awaiting(stack') \subseteq Awaiting(stack)
      /\ Top.call \in Awaiting(stack) /\ Top.call \notin Awaiting(stack')
  BY <1>1, <1>2, PopNested DEF StackShape, Types, Top
<1>5. id[Top.call] # 0
  BY <1>1, <1>4 DEF StackShape
<1>6. /\ ret' \in [SyncCalls -> {"none", "success", "error", "timeout"}]
      /\ \A c \in SyncCalls : c # Top.call => ret'[c] = ret[c]
  BY <1>1, <1>3 DEF Types
<1>11. Types'
  BY <1>1, <1>4, <1>6 DEF Types
<1>12. IdsDistinct'
  BY <1>1 DEF IdsDistinct, Made
<1>13. PeerInStep'
  BY <1>1, <1>5, <1>6 DEF PeerInStep, Made
<1>14. RepliesTruthful'
  BY <1>1 DEF RepliesTruthful, Truthful
<1>15. OwnReplyOnly'
  BY <1>1 DEF OwnReplyOnly
<1>16. ReplyInOnePlace'
  BY <1>1 DEF ReplyInOnePlace, Writing
<1>17. StackShape'
  BY <1>1, <1>4, <1>6 DEF StackShape, Awaiting
<1>18. AwaitState'
  BY <1>4, ResumedState
<1>19. StreamShape'
  BY <1>1 DEF StreamShape, Coming, Expected
<1> QED  BY <1>11, <1>12, <1>13, <1>14, <1>15, <1>16, <1>17, <1>18, <1>19 DEF IInv

(* recv() gives the first half of a message.                                 *)
LEMMA RecvPartStep ==
  ASSUME IInv, RecvPart
  PROVE  IInv'
<1> USE DEF RecvPart, peerVars
<1>1. Types /\ IdsDistinct /\ PeerInStep /\ RepliesTruthful /\ OwnReplyOnly /\ ReplyInOnePlace
      /\ StackShape /\ AwaitState /\ StreamShape
  BY DEF IInv
<1>2. stack # <<>> /\ Top.kind # "callback" /\ Top.pc = "recv" /\ Top \in Frames /\ rx.len
  BY <1>1 DEF Receiving, Types, Top, AwaitState
<1>3. stream = <<>> => stream' = <<>> /\ rx' = rx
  BY <1>1 DEF Types
<1>4. stream # <<>> => /\ stream' = Tail(stream) /\ rx' = [len |-> TRUE, part |-> TRUE]
                       /\ stream \in Seq(Pieces) /\ stream[1].at = "first"
  <2> SUFFICES ASSUME stream # <<>>
               PROVE  /\ stream' = Tail(stream) /\ rx' = [len |-> TRUE, part |-> TRUE]
                      /\ stream \in Seq(Pieces) /\ stream[1].at = "first"
    OBVIOUS
  <2>1. stream \in Seq(Pieces) /\ Head(stream) = stream[1] /\ stream' = Tail(stream)
    BY <1>1 DEF Types
  <2>2. rx' = [rx EXCEPT !.part = TRUE]
    OBVIOUS
  <2>3. rx' = [len |-> TRUE, part |-> TRUE]
    BY <1>1, <1>2, <2>2 DEF Types
  <2> QED  BY <2>1, <2>3
<1>5. /\ stream' \in Seq(Pieces) /\ rx' \in [len : BOOLEAN, part : BOOLEAN] /\ rx'.len
      /\ RepliesTruthful' /\ ReplyInOnePlace'
  <2>1. CASE stream = <<>>
    BY <1>1, <1>2, <1>3, <2>1 DEF Types, RepliesTruthful, Truthful, ReplyInOnePlace, Writing
  <2>2. CASE stream # <<>>
    BY <1>4, <2>2, TakePiece, ShrunkStream
  <2> QED  BY <2>1, <2>2
<1>6. StreamShape'
  <2>1. CASE stream = <<>>
    BY <1>1, <1>3, <2>1 DEF StreamShape, Coming, Expected
  <2>2. CASE stream # <<>>
    <3>1. Follows("first") = {"rest"} /\ Expected' = {"rest"} /\ Coming' = Coming
      BY <1>4, <2>2 DEF Follows, Expected, Coming
    <3>2. Linked(stream')
      BY <1>1, <1>4, <2>2, TakePiece DEF StreamShape
    <3>3. CASE stream' = <<>>
      <4>1. stream[Len(stream)] = stream[1]
        BY <1>4, <2>2, <3>3, TakePiece
      <4> QED  BY <1>1, <1>4, <2>2, <3>1, <3>2, <3>3, <4>1 DEF StreamShape
    <3>4. CASE stream' # <<>>
      <4>1. stream'[1].at \in Follows(stream[1].at) /\ stream'[Len(stream')] = stream[Len(stream)]
        BY <1>1, <1>4, <2>2, <3>4, TakePiece DEF StreamShape
      <4> QED  BY <1>1, <1>4, <2>2, <3>1, <3>2, <3>4, <4>1 DEF StreamShape
    <3> QED  BY <3>3, <3>4
  <2> QED  BY <2>1, <2>2
<1>7. /\ stack' \in Seq(Frames) /\ WellNested(stack') /\ Awaiting(stack') \subseteq Awaiting(stack)
      /\ AwaitState'
  <2>1. CASE Top.kind = "await"
    <3>1. /\ stack' \in Seq(Frames) /\ stack' # <<>>
          /\ Top'.kind = "await" /\ Top'.call = Top.call /\ Top'.pc = "poll"
          /\ WellNested(stack') /\ Awaiting(stack') = Awaiting(stack)
      BY <1>1, <1>2, <2>1, MoveTopNested DEF StackShape, Types, AtPc, Top
    <3>2. ~Keeps(received, Top.call)
      BY <1>1, <1>2, <2>1 DEF AwaitState
    <3>3. AwaitState'
      BY <3>1, <3>2 DEF AwaitState
    <3> QED  BY <3>1, <3>3
  <2>2. CASE Top.kind # "await"
    <3>1. /\ stack' \in Seq(Frames) /\ WellNested(stack')
          /\ stack' # <<>> => Resumes(stack'[1])
          /\ Awaiting(stack') \subseteq Awaiting(stack)
      BY <1>1, <1>2, <2>2, PopNested DEF StackShape, Types, Top
    <3> QED  BY <3>1, ResumedState
  <2> QED  BY <2>1, <2>2
<1>11. Types'
  BY <1>1, <1>5, <1>7 DEF Types
<1>12. IdsDistinct'
  BY <1>1 DEF IdsDistinct, Made
<1>13. PeerInStep'
  BY <1>1 DEF PeerInStep, Made
<1>15. OwnReplyOnly'
  BY <1>1 DEF OwnReplyOnly
<1>17. StackShape'
  BY <1>1, <1>7 DEF StackShape
<1> QED  BY <1>5, <1>6, <1>7, <1>11, <1>12, <1>13, <1>15, <1>17 DEF IInv

(* A handler returns; what it interrupted goes on.                           *)
LEMMA CallbackReturnsStep ==
  ASSUME IInv, CallbackReturns
  PROVE  IInv'
<1>1. Types /\ IdsDistinct /\ PeerInStep /\ RepliesTruthful /\ OwnReplyOnly /\ ReplyInOnePlace
      /\ StackShape /\ AwaitState /\ StreamShape
  BY DEF IInv
<1>2. CASE Dies
  BY <1>2, DiesStep
<1>3. CASE /\ stack' = Tail(stack)
           /\ answered' = IF Top.req = "none" THEN answered ELSE answered \cup {Top.req}
           /\ UNCHANGED <<id, err, done, ret, received, rx, peerVars, stream, life>>
  <2> USE <1>3 DEF peerVars
  <2>1. stack # <<>> /\ Top.kind = "callback" /\ Top \in Frames
    BY <1>1 DEF CallbackReturns, Types, Top
  <2>2. Top.req \in PeerReqs \cup {"none"}
    BY <2>1, FrameKinds
  <2>3. /\ stack' \in Seq(Frames) /\ WellNested(stack')
        /\ stack' # <<>> => Resumes(stack'[1])
        /\ Awaiting(stack') \subseteq Awaiting(stack)
    BY <1>1, <2>1, PopNested DEF StackShape, Types, Top
  <2>11. Types'
    BY <1>1, <2>2, <2>3 DEF Types
  <2>12. IdsDistinct'
    BY <1>1 DEF IdsDistinct, Made
  <2>13. PeerInStep'
    BY <1>1 DEF PeerInStep, Made
  <2>14. RepliesTruthful'
    BY <1>1 DEF RepliesTruthful, Truthful
  <2>15. OwnReplyOnly'
    BY <1>1 DEF OwnReplyOnly
  <2>16. ReplyInOnePlace'
    BY <1>1 DEF ReplyInOnePlace, Writing
  <2>17. StackShape'
    BY <1>1, <2>3 DEF StackShape
  <2>18. AwaitState'
    BY <2>3, ResumedState
  <2>19. StreamShape'
    BY <1>1 DEF StreamShape, Coming, Expected
  <2> QED  BY <2>11, <2>12, <2>13, <2>14, <2>15, <2>16, <2>17, <2>18, <2>19 DEF IInv
<1> QED  BY <1>2, <1>3 DEF CallbackReturns

(* Giving a completion the reply to its own call, for the first time.        *)
LEMMA CompleteEffect ==
  ASSUME Types, OwnReplyOnly, NEW c \in Calls, NEW m \in Replies, m.call = c, done[c] = <<>>,
         completeWith(c, m)
  PROVE  /\ done' \in [Calls -> Seq(Calls)] /\ done'[c] = <<c>>
         /\ \A d \in Calls : d # c => done'[d] = done[d] /\ err'[d] = err[d]
         /\ err' \in [Calls -> {"success", "error", "timeout"}]
         /\ err'[c] = IF m.ok THEN "success" ELSE "error"
         /\ OwnReplyOnly'
<1>1. done' = [done EXCEPT ![c] = <<c>>]
  BY DEF completeWith, Types
<1>2. done' \in [Calls -> Seq(Calls)] /\ done'[c] = <<c>> /\ \A d \in Calls : d # c => done'[d] = done[d]
  BY <1>1 DEF Types
<1>3. /\ err' \in [Calls -> {"success", "error", "timeout"}]
      /\ err'[c] = IF m.ok THEN "success" ELSE "error"
      /\ \A d \in Calls : d # c => err'[d] = err[d]
  BY DEF completeWith, Types
<1>4. OwnReplyOnly'
  BY <1>2 DEF OwnReplyOnly
<1> QED  BY <1>2, <1>3, <1>4

(* After a handler has returned, awaitReply looks for its reply among the    *)
(* ones stored meanwhile, takes it or goes back to poll().                   *)
LEMMA AwaitScansStep ==
  ASSUME IInv, AwaitScans
  PROVE  IInv'
<1>1. Types /\ IdsDistinct /\ PeerInStep /\ RepliesTruthful /\ OwnReplyOnly /\ ReplyInOnePlace
      /\ StackShape /\ AwaitState /\ StreamShape
  BY DEF IInv
<1>2. stack # <<>> /\ Top.kind = "await" /\ Top \in Frames
  BY <1>1 DEF AwaitScans, InAwait, Types, Top
<1>3. Top.call \in SyncCalls /\ Top.call \in Calls
  BY <1>2, FrameKinds DEF Calls
<1>4. Top.call \in Awaiting(stack)
  BY <1>1, <1>2, PopNested DEF StackShape, Types, Top
<1>5. id[Top.call] # 0 /\ ret[Top.call] = "none"
  BY <1>1, <1>4 DEF StackShape
<1>6. \A i \in 1..Len(received) : i \in Stored(Top.call) <=> received[i].call = Top.call
  <2> SUFFICES ASSUME NEW i \in 1..Len(received)
               PROVE  i \in Stored(Top.call) <=> received[i].call = Top.call
    OBVIOUS
  <2>1. /\ received[i].type = "reply" /\ received[i].call \in Calls
        /\ received[i].id = id[received[i].call] /\ id[received[i].call] # 0
    BY <1>1, StoredReplies
  <2>2. i \in DOMAIN received
    BY <1>1 DEF Types
  <2> QED  BY <1>1, <1>3, <2>1, <2>2 DEF Stored, IsReplyTo, IdsDistinct
<1>7. ASSUME stack' = AtPc("poll")
      PROVE  /\ stack' \in Seq(Frames) /\ stack' # <<>>
             /\ Top'.kind = "await" /\ Top'.call = Top.call /\ Top'.pc = "poll"
             /\ WellNested(stack') /\ Awaiting(stack') = Awaiting(stack)
  BY <1>1, <1>2, <1>7, MoveTopNested DEF StackShape, Types, AtPc, Top
<1>8. CASE /\ Stored(Top.call) = {}
           /\ stack' = AtPc("poll")
           /\ UNCHANGED <<id, err, done, ret, received, rx, peerVars, stream, answered, life>>
  <2> USE <1>8 DEF peerVars
  <2>1. ~Keeps(received, Top.call)
    BY <1>6 DEF Keeps
  <2>11. Types'
    BY <1>1, <1>7 DEF Types
  <2>12. IdsDistinct'
    BY <1>1 DEF IdsDistinct, Made
  <2>13. PeerInStep'
    BY <1>1 DEF PeerInStep, Made
  <2>14. RepliesTruthful'
    BY <1>1 DEF RepliesTruthful, Truthful
  <2>15. OwnReplyOnly'
    BY <1>1 DEF OwnReplyOnly
  <2>16. ReplyInOnePlace'
    BY <1>1 DEF ReplyInOnePlace, Writing
  <2>17. StackShape'
    BY <1>1, <1>7 DEF StackShape
  <2>18. AwaitState'
    BY <1>7, <2>1 DEF AwaitState
  <2>19. StreamShape'
    BY <1>1 DEF StreamShape, Coming, Expected
  <2> QED  BY <2>11, <2>12, <2>13, <2>14, <2>15, <2>16, <2>17, <2>18, <2>19 DEF IInv
<1>9. ASSUME NEW i \in Stored(Top.call), Dies
      PROVE  IInv'
  BY <1>9, DiesStep
<1>10. ASSUME NEW i \in Stored(Top.call),
              completeWith(Top.call, received[i]),
              received' = WithoutStored(i),
              stack' = AtPc("poll"),
              UNCHANGED <<id, ret, rx, peerVars, stream, answered, life>>
       PROVE  IInv'
  <2> USE <1>10 DEF peerVars
  <2> DEFINE c == Top.call
  <2>1. i \in 1..Len(received) /\ received[i].call = c
    BY <1>1, <1>6 DEF Stored, Types
  <2>2. received[i] \in Replies /\ c \in ran
    BY <1>1, <2>1, StoredReplies
  <2>3. Keeps(received, c) /\ done[c] = <<>>
    BY <1>1, <1>3, <2>1 DEF Keeps, ReplyInOnePlace
  <2>4. /\ done' \in [Calls -> Seq(Calls)] /\ done'[c] = <<c>>
        /\ \A d \in Calls : d # c => done'[d] = done[d]
        /\ err' \in [Calls -> {"success", "error", "timeout"}]
        /\ OwnReplyOnly'
    BY <1>1, <1>3, <2>1, <2>2, <2>3, CompleteEffect
  <2>5. /\ received' \in Seq(Replies)
        /\ \A k \in 1..Len(received') : \E j \in 1..Len(received) : received'[k] = received[j]
        /\ \A d : Keeps(received', d) => Keeps(received, d)
        /\ \A d : KeepsOnce(received, d) => KeepsOnce(received', d)
        /\ ~Keeps(received', c)
    BY <1>1, <1>3, <2>1, RemoveReply DEF WithoutStored, Types, ReplyInOnePlace
  <2>11. Types'
    BY <1>1, <1>7, <2>4, <2>5 DEF Types
  <2>12. IdsDistinct'
    BY <1>1 DEF IdsDistinct, Made
  <2>13. PeerInStep'
    BY <1>1, <2>2, <2>4 DEF PeerInStep, Made
  <2>14. RepliesTruthful'
    BY <1>1, <2>5 DEF RepliesTruthful, Truthful
  <2>16. ReplyInOnePlace'
    BY <1>1, <2>3, <2>4, <2>5 DEF ReplyInOnePlace, Writing
  <2>17. StackShape'
    BY <1>1, <1>7 DEF StackShape
  <2>18. AwaitState'
    BY <1>7, <2>5 DEF AwaitState
  <2>19. StreamShape'
    BY <1>1 DEF StreamShape, Coming, Expected
  <2> QED  BY <2>4, <2>11, <2>12, <2>13, <2>14, <2>16, <2>17, <2>18, <2>19 DEF IInv
<1> QED  BY <1>8, <1>9, <1>10 DEF AwaitScans

(* The peer takes up a call that was sent to it, and answers it once.        *)
LEMMA PeerAnswersStep ==
  ASSUME IInv, NEW c \in Calls, PeerAnswers(c)
  PROVE  IInv'
<1> USE DEF PeerAnswers, clientVars
<1>1. Types /\ IdsDistinct /\ PeerInStep /\ RepliesTruthful /\ OwnReplyOnly /\ ReplyInOnePlace
      /\ StackShape /\ AwaitState /\ StreamShape
  BY DEF IInv
<1>2. PICK ok \in BOOLEAN : out' = [msg |-> [type |-> "reply", call |-> c, id |-> id[c], ok |-> ok], at |-> "len"]
  OBVIOUS
<1>3. c \in asked /\ c \notin ran /\ id[c] # 0 /\ id[c] \in Ids /\ out.at = "idle"
  BY <1>1 DEF PeerInStep, Made, Types, PeerIdle
<1>4. /\ out'.msg.type = "reply" /\ out'.msg.call = c /\ out'.msg.id = id[c] /\ out'.at = "len"
      /\ out' \in Pieces
  BY <1>2, <1>3 DEF Pieces, Messages, Replies
<1>5. ~Brings(stream, c) /\ ~Keeps(received, c) /\ done[c] = <<>>
  <2>1. ~Brings(stream, c)
    BY <1>1, <1>3 DEF Brings, Carries, RepliesTruthful, Truthful
  <2>2. ~Keeps(received, c)
    BY <1>1, <1>3, StoredReplies DEF Keeps
  <2> QED  BY <1>1, <1>3, <2>1, <2>2 DEF PeerInStep
<1>11. Types'
  BY <1>1, <1>4 DEF Types
<1>12. IdsDistinct'
  BY <1>1 DEF IdsDistinct, Made
<1>13. PeerInStep'
  BY <1>1, <1>3 DEF PeerInStep, Made
<1>14. RepliesTruthful'
  BY <1>1, <1>4 DEF RepliesTruthful, Truthful
<1>15. OwnReplyOnly'
  BY <1>1 DEF OwnReplyOnly
<1>16. ReplyInOnePlace'
  BY <1>1, <1>4, <1>5 DEF ReplyInOnePlace, Writing
<1>17. StackShape'
  BY <1>1 DEF StackShape
<1>18. AwaitState'
  BY <1>1 DEF AwaitState, Top
<1>19. StreamShape'
  BY <1>1, <1>3, <1>4 DEF StreamShape, Coming, Expected
<1> QED  BY <1>11, <1>12, <1>13, <1>14, <1>15, <1>16, <1>17, <1>18, <1>19 DEF IInv

(* The peer begins to write a request of its own.                            *)
LEMMA PeerCallsStep ==
  ASSUME IInv, NEW r \in PeerReqs, PeerCalls(r)
  PROVE  IInv'
<1> USE DEF PeerCalls, clientVars
<1>1. Types /\ IdsDistinct /\ PeerInStep /\ RepliesTruthful /\ OwnReplyOnly /\ ReplyInOnePlace
      /\ StackShape /\ AwaitState /\ StreamShape
  BY DEF IInv
<1>2. out'.msg.type = "request" /\ out'.at = "len" /\ out' \in Pieces /\ out.at = "idle"
  BY DEF Pieces, Messages, Requests, PeerIdle
<1>11. Types'
  BY <1>1, <1>2 DEF Types
<1>12. IdsDistinct'
  BY <1>1 DEF IdsDistinct, Made
<1>13. PeerInStep'
  BY <1>1 DEF PeerInStep, Made
<1>14. RepliesTruthful'
  BY <1>1, <1>2 DEF RepliesTruthful, Truthful
<1>15. OwnReplyOnly'
  BY <1>1 DEF OwnReplyOnly
<1>16. ReplyInOnePlace'
  BY <1>1, <1>2 DEF ReplyInOnePlace, Writing
<1>17. StackShape'
  BY <1>1 DEF StackShape
<1>18. AwaitState'
  BY <1>1 DEF AwaitState, Top
<1>19. StreamShape'
  BY <1>1, <1>2 DEF StreamShape, Coming, Expected
<1> QED  BY <1>11, <1>12, <1>13, <1>14, <1>15, <1>16, <1>17, <1>18, <1>19 DEF IInv

(* A piece of the message being written enters the stream behind the others. *)
LEMMA PeerWritesStep ==
  ASSUME IInv, PeerWrites
  PROVE  IInv'
<1> USE DEF PeerWrites, clientVars
<1>1. Types /\ IdsDistinct /\ PeerInStep /\ RepliesTruthful /\ OwnReplyOnly /\ ReplyInOnePlace
      /\ StackShape /\ AwaitState /\ StreamShape
  BY DEF IInv
<1>2. PICK at \in After(out.at) : out' = IF at = "idle" THEN NotWriting ELSE [out EXCEPT !.at = at]
  BY DEF NotWriting
<1>3. out \in Pieces /\ stream \in Seq(Pieces) /\ out.at # "idle"
  BY <1>1 DEF Types, NotWriting
<1>4. out.at \in {"len", "whole", "first", "rest"} /\ out.msg \in Messages
  BY <1>3 DEF Pieces
<1>5. at \in {"whole", "first", "rest", "idle"} /\ (at = "idle" <=> out.at \in {"whole", "rest"})
      /\ (IF at = "idle" THEN "len" ELSE at) \in Follows(out.at)
  BY <1>2, <1>4 DEF After, Follows
<1>6. /\ out' \in Pieces \cup {NotWriting}
      /\ Coming' \in Follows(out.at)
      /\ out'.msg.type = "reply" => out'.msg = out.msg /\ out.at \notin {"whole", "rest"}
      /\ out'.msg = out.msg \/ out'.msg.type # "reply"
  <2>1. CASE at = "idle"
    BY <1>2, <1>5, <2>1 DEF NotWriting, NoMsg, Coming
  <2>2. CASE at # "idle"
    <3>1. out' = [msg |-> out.msg, at |-> at]
      BY <1>2, <1>3, <2>2 DEF Pieces
    <3> QED  BY <1>4, <1>5, <2>2, <3>1 DEF Coming, Pieces
  <2> QED  BY <2>1, <2>2
<1>7. /\ stream' \in Seq(Pieces) /\ stream' # <<>>
      /\ \A i \in 1..Len(stream') : stream'[i] = out \/ \E j \in 1..Len(stream) : stream'[i] = stream[j]
      /\ stream'[Len(stream')] = out
      /\ stream'[1] = IF stream = <<>> THEN out ELSE stream[1]
      /\ Linked(stream) /\ (stream # <<>> => out.at \in Follows(stream[Len(stream)].at)) => Linked(stream')
      /\ \A c : Brings(stream', c) <=> Brings(stream, c) \/ Carries(out, c)
      /\ \A c : BringsOnce(stream, c) /\ (Carries(out, c) => ~Brings(stream, c)) => BringsOnce(stream', c)
  BY <1>3, AddPiece
<1>8. Coming = out.at
  BY <1>3 DEF Coming
<1>9. \A c : Carries(out, c) => Writing(c)
  BY DEF Carries, Writing
<1>11. Types'
  BY <1>1, <1>6, <1>7 DEF Types
<1>12. IdsDistinct'
  BY <1>1 DEF IdsDistinct, Made
<1>13. PeerInStep'
  BY <1>1 DEF PeerInStep, Made
<1>14. RepliesTruthful'
  BY <1>1, <1>6, <1>7 DEF RepliesTruthful, Truthful
<1>15. OwnReplyOnly'
  BY <1>1 DEF OwnReplyOnly
<1>16. ReplyInOnePlace'
  <2> SUFFICES ASSUME NEW c \in Calls
               PROVE  /\ Writing(c)' => ~Brings(stream', c)
                      /\ Keeps(received, c) => ~Writing(c)' /\ ~Brings(stream', c)
                      /\ done[c] # <<>> => ~Writing(c)' /\ ~Brings(stream', c) /\ ~Keeps(received, c)
                      /\ BringsOnce(stream', c) /\ KeepsOnce(received, c)
    BY DEF ReplyInOnePlace
  <2>1. Writing(c)' => Writing(c) /\ ~Carries(out, c)
    BY <1>6 DEF Writing, Carries
  <2> QED  BY <1>1, <1>7, <1>9, <2>1 DEF ReplyInOnePlace
<1>17. StackShape'
  BY <1>1 DEF StackShape
<1>18. AwaitState'
  BY <1>1 DEF AwaitState, Top
<1>19. StreamShape'
  BY <1>1, <1>6, <1>7, <1>8 DEF StreamShape, Expected
<1> QED  BY <1>11, <1>12, <1>13, <1>14, <1>15, <1>16, <1>17, <1>18, <1>19 DEF IInv

(* The peer closes; what is in the stream stays.                             *)
LEMMA PeerClosesStep ==
  ASSUME IInv, PeerCloses
  PROVE  IInv'
<1> USE DEF PeerCloses, clientVars, peerVars
<1>1. Types'  BY DEF IInv, Types
<1>2. IdsDistinct'  BY DEF IInv, IdsDistinct, Made
<1>3. PeerInStep'  BY DEF IInv, PeerInStep, Made
<1>4. RepliesTruthful'  BY DEF IInv, RepliesTruthful, Truthful
<1>5. OwnReplyOnly'  BY DEF IInv, OwnReplyOnly
<1>6. ReplyInOnePlace'  BY DEF IInv, ReplyInOnePlace, Writing
<1>7. StackShape'  BY DEF IInv, StackShape
<1>8. AwaitState'  BY DEF IInv, AwaitState, Top
<1>9. StreamShape'  BY DEF IInv, StreamShape, Coming, Expected
<1> QED  BY <1>1, <1>2, <1>3, <1>4, <1>5, <1>6, <1>7, <1>8, <1>9 DEF IInv

(* What becomes of a message m that was taken off the stream: a completion   *)
(* gets it, it is stored, or it leaves no trace.                             *)
Completed(m) == \E c \in Calls : /\ m.type = "reply" /\ id[c] # 0 /\ m.id = id[c]
                                 /\ completeWith(c, m) /\ received' = received
StoredAway(m) == m.type = "reply" /\ received' = Append(received, m) /\ UNCHANGED <<done, err>>
Fate(m) == Completed(m) \/ StoredAway(m) \/ UNCHANGED <<received, done, err>>

(* A whole message that parses as a reply is the reply that is in the        *)
(* stream, and nowhere else.                                                 *)
LEMMA ParsedReply ==
  ASSUME IInv, stream # <<>>, Head(stream).at \in {"whole", "rest"},
         NEW m \in Parsed(Head(stream).msg)
  PROVE  /\ m.type = "reply" =>
               /\ m \in Replies /\ m.call \in Calls /\ Carries(stream[1], m.call)
               /\ m.call \in ran /\ m.id = id[m.call]
               /\ done[m.call] = <<>> /\ ~Keeps(received, m.call) /\ ~Writing(m.call)
               /\ \A c \in Calls : id[c] # 0 /\ m.id = id[c] => m.call = c
         /\ m.type = "request" => m.req \in PeerReqs
<1>1. Types /\ IdsDistinct /\ RepliesTruthful /\ ReplyInOnePlace
  BY DEF IInv
<1>2. /\ stream \in Seq(Pieces) /\ Head(stream) = stream[1] /\ stream[1] \in Pieces
      /\ 1 \in 1..Len(stream)
  BY <1>1 DEF Types
<1>3. m \in {stream[1].msg, Junk, Unparsable} /\ stream[1].msg \in Messages
  BY <1>2 DEF Parsed, Pieces
<1>4. m.type \in {"reply", "request"} => m = stream[1].msg
  BY <1>3 DEF Junk, Unparsable
<1>5. m.type = "request" => m.req \in PeerReqs
  BY <1>3, <1>4 DEF Messages, Replies, Requests
<1>6. ASSUME m.type = "reply"
      PROVE  /\ m \in Replies /\ m.call \in Calls /\ Carries(stream[1], m.call)
             /\ m.call \in ran /\ m.id = id[m.call]
             /\ done[m.call] = <<>> /\ ~Keeps(received, m.call) /\ ~Writing(m.call)
             /\ \A c \in Calls : id[c] # 0 /\ m.id = id[c] => m.call = c
  <2>1. m \in Replies /\ m.call \in Calls
    BY <1>3, <1>4, <1>6 DEF Messages, Replies, Requests
  <2>2. Carries(stream[1], m.call)
    BY <1>2, <1>4, <1>6 DEF Carries
  <2>3. m.call \in ran /\ m.id = id[m.call]
    BY <1>1, <1>2, <1>4, <1>6 DEF RepliesTruthful, Truthful
  <2>4. Brings(stream, m.call)
    BY <1>2, <2>2 DEF Brings
  <2>5. done[m.call] = <<>> /\ ~Keeps(received, m.call) /\ ~Writing(m.call)
    BY <1>1, <2>1, <2>4 DEF ReplyInOnePlace
  <2>6. \A c \in Calls : id[c] # 0 /\ m.id = id[c] => m.call = c
    BY <1>1, <2>1, <2>3 DEF IdsDistinct
  <2> QED  BY <2>1, <2>2, <2>3, <2>5, <2>6
<1> QED  BY <1>5, <1>6

(* Whatever becomes of it, replies stay true and in one place.               *)
LEMMA FateEffect ==
  ASSUME IInv, stream # <<>>, Head(stream).at \in {"whole", "rest"},
         NEW m \in Parsed(Head(stream).msg), stream' = Tail(stream), Fate(m),
         UNCHANGED <<id, ran, asked, out>>
  PROVE  /\ stream' \in Seq(Pieces) /\ received' \in Seq(Replies)
         /\ done' \in [Calls -> Seq(Calls)] /\ err' \in [Calls -> {"success", "error", "timeout"}]
         /\ \A c \in Calls : done'[c] # <<>> => c \in ran
         /\ RepliesTruthful' /\ OwnReplyOnly' /\ ReplyInOnePlace'
<1>1. Types /\ PeerInStep /\ RepliesTruthful /\ OwnReplyOnly /\ ReplyInOnePlace
  BY DEF IInv
<1>2. /\ stream \in Seq(Pieces) /\ stream' \in Seq(Pieces)
      /\ \A i \in 1..Len(stream') : \E j \in 1..Len(stream) : stream'[i] = stream[j]
      /\ \A c : Brings(stream', c) => Brings(stream, c)
      /\ \A c : BringsOnce(stream, c) => BringsOnce(stream', c) /\ (Carries(stream[1], c) => ~Brings(stream', c))
  BY <1>1, TakePiece DEF Types
<1>3. CASE Completed(m)
  <2>1. PICK c \in Calls : /\ m.type = "reply" /\ id[c] # 0 /\ m.id = id[c]
                           /\ completeWith(c, m) /\ received' = received
    BY <1>3 DEF Completed
  <2>2. m \in Replies /\ m.call = c /\ Carries(stream[1], c) /\ c \in ran
        /\ done[c] = <<>> /\ ~Keeps(received, c) /\ ~Writing(c)
    BY <2>1, ParsedReply
  <2>3. /\ done' \in [Calls -> Seq(Calls)] /\ done'[c] = <<c>>
        /\ \A d \in Calls : d # c => done'[d] = done[d]
        /\ err' \in [Calls -> {"success", "error", "timeout"}]
        /\ OwnReplyOnly'
    BY <1>1, <2>1, <2>2, CompleteEffect
  <2>4. \A d \in Calls : done'[d] # <<>> => d \in ran
    BY <1>1, <2>2, <2>3 DEF PeerInStep
  <2>5. RepliesTruthful'
    BY <1>1, <1>2, <2>1 DEF RepliesTruthful, Truthful
  <2>6. ReplyInOnePlace'
    <3> SUFFICES ASSUME NEW d \in Calls
                 PROVE  /\ Writing(d)' => ~Brings(stream', d)
                        /\ Keeps(received', d) => ~Writing(d)' /\ ~Brings(stream', d)
                        /\ done'[d] # <<>> => ~Writing(d)' /\ ~Brings(stream', d) /\ ~Keeps(received', d)
                        /\ BringsOnce(stream', d) /\ KeepsOnce(received', d)
      BY DEF ReplyInOnePlace
    <3>1. Writing(d)' = Writing(d)
      BY DEF Writing
    <3> QED  BY <1>1, <1>2, <2>1, <2>2, <2>3, <3>1 DEF ReplyInOnePlace
  <2> QED  BY <1>1, <1>2, <2>1, <2>3, <2>4, <2>5, <2>6 DEF Types
<1>4. CASE StoredAway(m)
  <2>1. m \in Replies /\ Carries(stream[1], m.call) /\ m.call \in ran /\ m.call \in Calls
        /\ m.id = id[m.call] /\ done[m.call] = <<>> /\ ~Keeps(received, m.call) /\ ~Writing(m.call)
    BY <1>4, ParsedReply DEF StoredAway
  <2>2. /\ received' \in Seq(Replies)
        /\ \A i \in 1..Len(received') : received'[i] = m \/ \E j \in 1..Len(received) : received'[i] = received[j]
        /\ \A c : Keeps(received', c) <=> Keeps(received, c) \/ m.call = c
        /\ \A c : KeepsOnce(received, c) /\ (m.call = c => ~Keeps(received, c)) => KeepsOnce(received', c)
    BY <1>1, <1>4, <2>1, StoreReply DEF StoredAway, Types
  <2>3. done' = done /\ err' = err
    BY <1>4 DEF StoredAway
  <2>4. RepliesTruthful'
    BY <1>1, <1>2, <2>1, <2>2 DEF RepliesTruthful, Truthful
  <2>5. ReplyInOnePlace'
    <3> SUFFICES ASSUME NEW d \in Calls
                 PROVE  /\ Writing(d)' => ~Brings(stream', d)
                        /\ Keeps(received', d) => ~Writing(d)' /\ ~Brings(stream', d)
                        /\ done'[d] # <<>> => ~Writing(d)' /\ ~Brings(stream', d) /\ ~Keeps(received', d)
                        /\ BringsOnce(stream', d) /\ KeepsOnce(received', d)
      BY DEF ReplyInOnePlace
    <3>1. Writing(d)' = Writing(d)
      BY DEF Writing
    <3> QED  BY <1>1, <1>2, <2>1, <2>2, <2>3, <3>1 DEF ReplyInOnePlace
  <2>6. OwnReplyOnly'
    BY <1>1, <2>3 DEF OwnReplyOnly
  <2> QED  BY <1>1, <1>2, <2>2, <2>3, <2>4, <2>5, <2>6 DEF Types, PeerInStep
<1>5. CASE UNCHANGED <<received, done, err>>
  <2>1. RepliesTruthful' /\ ReplyInOnePlace'
    BY <1>2, <1>5, ShrunkStream
  <2>2. OwnReplyOnly'
    BY <1>1, <1>5 DEF OwnReplyOnly
  <2> QED  BY <1>1, <1>2, <1>5, <2>1, <2>2 DEF Types, PeerInStep
<1> QED  BY <1>3, <1>4, <1>5 DEF Fate

(* The activations a message leaves: what is resumed next is a handler or a  *)
(* call that will scan received, and a stub that returned waits no more.     *)
Resumption ==
  /\ stack' \in Seq(Frames) /\ WellNested(stack')
  /\ stack' # <<>> => Resumes(stack'[1])
  /\ Awaiting(stack') \subseteq Awaiting(stack)
  /\ \/ ret' = ret
     \/ /\ Top.kind = "await" /\ Top.call \notin Awaiting(stack')
        /\ \E e \in {"success", "error", "timeout"} : ret' = [ret EXCEPT ![Top.call] = e]

(* processMessage gives a reply to a completion, stores it, or runs a        *)
(* handler for a request, over the stack it was called with.                 *)
LEMMA ProcessMessageEffect ==
  ASSUME NEW m, NEW st \in Seq(Frames), WellNested(st), st # <<>> => Resumes(st[1]),
         m.type = "request" => m.req \in PeerReqs, processMessage(m, st)
  PROVE  /\ Fate(m)
         /\ stack' \in Seq(Frames) /\ WellNested(stack')
         /\ stack' # <<>> => Resumes(stack'[1])
         /\ Awaiting(stack') = Awaiting(st)
<1>1. CASE /\ m.type = "reply" /\ Completions(m) # {}
           /\ \E c \in Completions(m) : completeWith(c, m)
           /\ stack' = Callback("none") \o st
           /\ UNCHANGED received
  <2>1. Completed(m)
    BY <1>1 DEF Completed, Completions, IsReplyTo, Calls
  <2> QED  BY <1>1, <2>1, PushCallbackNested DEF Fate, Resumes
<1>2. CASE /\ m.type = "reply" /\ Completions(m) = {}
           /\ received' = Append(received, m)
           /\ stack' = st
           /\ UNCHANGED <<done, err>>
  BY <1>2 DEF Fate, StoredAway
<1>3. CASE /\ m.type = "request"
           /\ stack' = Callback(m.req) \o st
           /\ UNCHANGED <<received, done, err>>
  BY <1>3, PushCallbackNested DEF Fate, Resumes
<1>4. CASE /\ m.type = "junk"
           /\ stack' = st
           /\ UNCHANGED <<received, done, err>>
  BY <1>4 DEF Fate
<1> QED  BY <1>1, <1>2, <1>3, <1>4 DEF processMessage

(* Each of the four ways to deal with a whole message is a fate of it, and   *)
(* leaves a stack on which the innermost activation can go on.               *)
LEMMA RecvMessageEffect ==
  ASSUME IInv, RecvMessage,
         NEW m \in Parsed(Head(stream).msg),
         ReadProcesses(m) \/ AwaitUnparsable(m) \/ AwaitOwnReply(m) \/ AwaitOther(m)
  PROVE  Fate(m) /\ Resumption
<1>1. Types /\ StackShape /\ AwaitState
  BY DEF IInv
<1>2. stack # <<>> /\ Top \in Frames /\ Top = stack[1] /\ stack \in Seq(Frames)
      /\ Top.kind # "callback" /\ Top.pc = "recv"
  BY <1>1 DEF RecvMessage, Receiving, Types, Top
<1>3. m.type = "request" => m.req \in PeerReqs
  BY ParsedReply DEF RecvMessage
<1>4. /\ Tail(stack) \in Seq(Frames) /\ WellNested(Tail(stack))
      /\ Tail(stack) # <<>> => Resumes(Tail(stack)[1])
      /\ Awaiting(Tail(stack)) \subseteq Awaiting(stack)
      /\ Top.kind = "await" => Top.call \in Awaiting(stack) /\ Top.call \notin Awaiting(Tail(stack))
  BY <1>1, <1>2, PopNested DEF StackShape
<1>5. Top.kind = "await" => Top.call \in SyncCalls /\ Top.call \in Calls /\ id[Top.call] # 0
  BY <1>1, <1>2, <1>4, FrameKinds DEF StackShape, Calls
<1>6. CASE ReadProcesses(m)
  <2>1. CASE m = Unparsable /\ stack' = Tail(stack) /\ UNCHANGED <<received, done, err>>
    BY <1>4, <1>6, <2>1 DEF ReadProcesses, Fate, Resumption
  <2>2. CASE m # Unparsable /\ processMessage(m, Tail(stack))
    BY <1>3, <1>4, <1>6, <2>2, ProcessMessageEffect DEF ReadProcesses, Resumption
  <2> QED  BY <1>6, <2>1, <2>2 DEF ReadProcesses
<1>7. CASE AwaitUnparsable(m)
  <2>1. err[Top.call] \in {"success", "error", "timeout"}
    BY <1>1, <1>5, <1>7 DEF AwaitUnparsable, Types
  <2> QED  BY <1>4, <1>7, <2>1 DEF AwaitUnparsable, StubReturns, Fate, Resumption
<1>8. CASE AwaitOwnReply(m)
  <2>1. Completed(m)
    BY <1>5, <1>8 DEF AwaitOwnReply, IsReplyTo, Completed
  <2> QED  BY <1>4, <1>8, <2>1 DEF AwaitOwnReply, StubReturns, Fate, Resumption
<1>9. CASE AwaitOther(m)
  <2>1. /\ AtPc("scan") \in Seq(Frames) /\ WellNested(AtPc("scan"))
        /\ Resumes(AtPc("scan")[1]) /\ Awaiting(AtPc("scan")) = Awaiting(stack)
    BY <1>1, <1>2, <1>9, MoveTopNested DEF AwaitOther, StackShape, AtPc, Resumes
  <2> QED  BY <1>3, <1>9, <2>1, ProcessMessageEffect DEF AwaitOther, Resumption
<1> QED  BY <1>6, <1>7, <1>8, <1>9

(* A message is read to its end and dealt with.                              *)
LEMMA RecvMessageStep ==
  ASSUME IInv, RecvMessage
  PROVE  IInv'
<1> USE DEF RecvMessage, peerVars
<1>1. Types /\ IdsDistinct /\ PeerInStep /\ RepliesTruthful /\ OwnReplyOnly /\ ReplyInOnePlace
      /\ StackShape /\ AwaitState /\ StreamShape
  BY DEF IInv
<1>2. PICK m \in Parsed(Head(stream).msg) : ReadProcesses(m) \/ AwaitUnparsable(m) \/ AwaitOwnReply(m) \/ AwaitOther(m)
  OBVIOUS
<1>3. Fate(m) /\ Resumption
  BY <1>2, RecvMessageEffect
<1>4. /\ stream' \in Seq(Pieces) /\ received' \in Seq(Replies)
      /\ done' \in [Calls -> Seq(Calls)] /\ err' \in [Calls -> {"success", "error", "timeout"}]
      /\ \A c \in Calls : done'[c] # <<>> => c \in ran
      /\ RepliesTruthful' /\ OwnReplyOnly' /\ ReplyInOnePlace'
  BY <1>3, FateEffect
<1>5. /\ ret' \in [SyncCalls -> {"none", "success", "error", "timeout"}]
      /\ \A c \in SyncCalls : id[c] = 0 => ret'[c] = "none"
      /\ \A c \in Awaiting(stack') : ret'[c] = "none"
  <2>1. CASE ret' = ret
    BY <1>1, <1>3, <2>1 DEF Types, PeerInStep, Resumption, StackShape
  <2>2. CASE ret' # ret
    <3>1. PICK e \in {"success", "error", "timeout"} :
            ret' = [ret EXCEPT ![Top.call] = e] /\ Top.kind = "await" /\ Top.call \notin Awaiting(stack')
      BY <1>3, <2>2 DEF Resumption
    <3>2. Top.call \in Awaiting(stack) /\ Top.call \in SyncCalls
      BY <1>1, <3>1, PopNested DEF StackShape, Types, Top, Receiving, Awaiting
    <3>3. id[Top.call] # 0
      BY <1>1, <3>2 DEF StackShape
    <3>4. \A c \in SyncCalls : c # Top.call => ret'[c] = ret[c]
      BY <1>1, <3>1 DEF Types
    <3>5. Awaiting(stack') \subseteq Awaiting(stack) /\ Awaiting(stack) \subseteq SyncCalls
      BY <1>3 DEF Resumption, Awaiting
    <3> QED  BY <1>1, <3>1, <3>2, <3>3, <3>4, <3>5 DEF Types, PeerInStep, StackShape
  <2> QED  BY <2>1, <2>2
<1>11. Types'
  BY <1>1, <1>3, <1>4, <1>5 DEF Types, Resumption, Received
<1>12. IdsDistinct'
  BY <1>1 DEF IdsDistinct, Made
<1>13. PeerInStep'
  BY <1>1, <1>4, <1>5 DEF PeerInStep, Made
<1>17. StackShape'
  BY <1>1, <1>3, <1>5 DEF StackShape, Resumption
<1>18. AwaitState'
  BY <1>3, ResumedState DEF Resumption
<1>19. StreamShape'
  <2>1. stream \in Seq(Pieces) /\ Head(stream) = stream[1] /\ rx'.len = FALSE /\ rx'.part = FALSE
    BY <1>1 DEF Types, Received
  <2>2. Follows(stream[1].at) = {"len"} /\ Expected' = {"len"} /\ Coming' = Coming
    BY <2>1 DEF Follows, Expected, Coming
  <2>3. Linked(stream')
    BY <1>1, <2>1, TakePiece DEF StreamShape
  <2>4. CASE stream' = <<>>
    <3>1. stream[Len(stream)] = stream[1]
      BY <2>1, <2>4, TakePiece
    <3> QED  BY <1>1, <2>1, <2>2, <2>3, <2>4, <3>1 DEF StreamShape
  <2>5. CASE stream' # <<>>
    <3>1. stream'[1].at \in Follows(stream[1].at) /\ stream'[Len(stream')] = stream[Len(stream)]
      BY <1>1, <2>1, <2>5, TakePiece DEF StreamShape
    <3> QED  BY <1>1, <2>1, <2>2, <2>3, <2>5, <3>1 DEF StreamShape
  <2> QED  BY <2>4, <2>5
<1> QED  BY <1>4, <1>11, <1>12, <1>13, <1>17, <1>18, <1>19 DEF IInv

-----------------------------------------------------------------------------
(* The invariant of the transport.                                           *)

(* Nothing has been called or written.                                       *)
LEMMA InitIInv == Init => IInv
<1> SUFFICES ASSUME Init PROVE IInv
  OBVIOUS
<1> USE DEF Init
<1>1. Types
  BY DEF Types, NotWriting
<1>2. IdsDistinct
  <2>1. Made = {} /\ Cardinality({}) = 0
    BY FS_EmptySet DEF Made
  <2> QED  BY <2>1 DEF IdsDistinct
<1>3. PeerInStep
  BY DEF PeerInStep, Made
<1>4. RepliesTruthful
  BY DEF RepliesTruthful, Truthful, NoMsg
<1>5. OwnReplyOnly
  BY DEF OwnReplyOnly
<1>6. ReplyInOnePlace
  BY DEF ReplyInOnePlace, Writing, NoMsg, Brings, BringsOnce, Keeps, KeepsOnce
<1>7. StackShape
  BY DEF StackShape, WellNested, Awaiting
<1>8. AwaitState
  BY DEF AwaitState
<1>9. StreamShape
  BY DEF StreamShape, Linked, Coming, Expected
<1> QED  BY <1>1, <1>2, <1>3, <1>4, <1>5, <1>6, <1>7, <1>8, <1>9 DEF IInv

(* Every step of the process and of its peer keeps the invariant.            *)
LEMMA NextIInv == IInv /\ [Next]_vars => IInv'
<1> SUFFICES ASSUME IInv, [Next]_vars PROVE IInv'
  OBVIOUS
<1>1. CASE UNCHANGED vars
  <2> USE <1>1 DEF vars, clientVars, peerVars
  <2>1. Types'  BY DEF IInv, Types
  <2>2. IdsDistinct'  BY DEF IInv, IdsDistinct, Made
  <2>3. PeerInStep'  BY DEF IInv, PeerInStep, Made
  <2>4. RepliesTruthful'  BY DEF IInv, RepliesTruthful, Truthful
  <2>5. OwnReplyOnly'  BY DEF IInv, OwnReplyOnly
  <2>6. ReplyInOnePlace'  BY DEF IInv, ReplyInOnePlace, Writing
  <2>7. StackShape'  BY DEF IInv, StackShape
  <2>8. AwaitState'  BY DEF IInv, AwaitState, Top
  <2>9. StreamShape'  BY DEF IInv, StreamShape, Coming, Expected
  <2> QED  BY <2>1, <2>2, <2>3, <2>4, <2>5, <2>6, <2>7, <2>8, <2>9 DEF IInv
<1>2. CASE readyForRead  BY <1>2, ReadyForReadStep
<1>3. CASE AwaitPolls  BY <1>3, AwaitPollsStep
<1>4. CASE LengthMissing  BY <1>4, DiesStep DEF LengthMissing
<1>5. CASE RecvPart  BY <1>5, RecvPartStep
<1>6. CASE RecvMessage  BY <1>6, RecvMessageStep
<1>7. CASE AwaitScans  BY <1>7, AwaitScansStep
<1>8. CASE CallbackReturns  BY <1>8, CallbackReturnsStep
<1>9. CASE AwaitTimesOut  BY <1>9, AwaitTimesOutStep
<1>10. ASSUME NEW c \in Calls, sendMessage(c) PROVE IInv'  BY <1>10, SendMessageStep
<1>11. ASSUME NEW c \in Calls, PeerAnswers(c) PROVE IInv'  BY <1>11, PeerAnswersStep
<1>12. ASSUME NEW r \in PeerReqs, PeerCalls(r) PROVE IInv'  BY <1>12, PeerCallsStep
<1>13. CASE PeerWrites  BY <1>13, PeerWritesStep
<1>14. CASE PeerCloses  BY <1>14, PeerClosesStep
<1> QED
  BY <1>1, <1>2, <1>3, <1>4, <1>5, <1>6, <1>7, <1>8, <1>9, <1>10, <1>11, <1>12, <1>13, <1>14
  DEF Next, ClientStep

(* The inductive invariant holds for any calls and any peer.                 *)
THEOREM Invariance == Spec => []IInv
  BY InitIInv, NextIInv, PTL DEF Spec

(* Types of the transport (WSRPC.hh).                                        *)
THEOREM TypeCorrect == Spec => []TypeOK
<1>1. IInv => TypeOK
  BY DEF IInv, Types, TypeOK
<1> QED  BY <1>1, Invariance, PTL

(* A completion or a waiting stub is only ever given the reply to its own    *)
(* call, whatever is nested in whatever (WSRPCTransport::processMessage,     *)
(* awaitReply).                                                              *)
THEOREM OwnReply == Spec => []OwnReplyOnly
<1>1. IInv => OwnReplyOnly
  BY DEF IInv
<1> QED  BY <1>1, Invariance, PTL

(* awaitReply does not sleep in poll() while its reply is stored in          *)
(* received: the scan after each handler has found it (awaitReply).          *)
THEOREM NothingOverlooked == Spec => []NoReplyOverlooked
<1>1. IInv => NoReplyOverlooked
  <2> SUFFICES ASSUME IInv, InAwait("poll"), NEW i \in DOMAIN received
               PROVE  received[i].call # Top.call
    BY DEF NoReplyOverlooked
  <2>1. ~Keeps(received, Top.call) /\ i \in 1..Len(received)
    BY DEF IInv, Types, AwaitState, InAwait
  <2> QED  BY <2>1 DEF Keeps
<1> QED  BY <1>1, Invariance, PTL

(* The process always takes the next bytes of the stream for what they are,  *)
(* a length or the rest of a message (rx, readyForRead).                     *)
THEOREM KeepsPlace == Spec => []InStep
<1>1. IInv => InStep
  BY DEF IInv, Types, StreamShape, Expected, InStep
<1> QED  BY <1>1, Invariance, PTL

-----------------------------------------------------------------------------
(* The transport implements RPCService.                                      *)

(* Steps that leave id, done, ret and err of a call alone leave its outcome. *)
LEMMA SameOutcome ==
  ASSUME NEW c \in Calls, id'[c] = id[c],
         c \in SyncCalls => ret'[c] = ret[c],
         done'[c] = done[c] \/ (c \in SyncCalls /\ ret[c] = "none"),
         c \notin SyncCalls => err'[c] = err[c]
  PROVE  Outcome(c)' = Outcome(c)
  BY DEF Outcome

(* A call that was made has been called in RPCService too, or has an outcome *)
(* there.                                                                    *)
LEMMA OutcomeNamed ==
  ASSUME Types, OwnReplyOnly, NEW c \in Calls, id[c] # 0
  PROVE  Outcome(c) # "none"
<1>1. CASE c \in SyncCalls
  BY <1>1 DEF Outcome
<1>2. CASE c \notin SyncCalls
  <2>1. err[c] # "none"
    BY DEF Types
  <2> QED  BY <1>2, <2>1 DEF Outcome
<1> QED  BY <1>1, <1>2

(* A call that ran and gets its reply is settled in RPCService, if no other  *)
(* call changes.                                                             *)
LEMMA Settles ==
  ASSUME NEW c \in Calls, c \in ran, UNCHANGED ran, Outcome(c) = "called",
         Outcome(c)' \in {"success", "error"},
         \A d \in Calls : d # c => Outcome(d)' = Outcome(d)
  PROVE  Promise!Next
<1>1. [d \in Calls |-> Outcome(d)]' = [[d \in Calls |-> Outcome(d)] EXCEPT ![c] = Outcome(c)']
  OBVIOUS
<1> QED  BY <1>1 DEF Promise!Next, Promise!Settle

(* A call that is timed out is given up in RPCService.                       *)
LEMMA GivesUp ==
  ASSUME NEW c \in Calls, UNCHANGED ran, Outcome(c) = "called", Outcome(c)' = "timeout",
         \A d \in Calls : d # c => Outcome(d)' = Outcome(d)
  PROVE  Promise!Next
<1>1. [d \in Calls |-> Outcome(d)]' = [[d \in Calls |-> Outcome(d)] EXCEPT ![c] = "timeout"]
  OBVIOUS
<1> QED  BY <1>1 DEF Promise!Next, Promise!GiveUp

(* A step that changes no outcome and nothing the peer ran is a stutter of   *)
(* RPCService.                                                               *)
LEMMA Stutters ==
  ASSUME UNCHANGED ran, \A d \in Calls : Outcome(d)' = Outcome(d)
  PROVE  UNCHANGED Promise!svcVars
  BY DEF Promise!svcVars

(* The top of the stack is a call that was made and has not returned.        *)
LEMMA TopCall ==
  ASSUME IInv, stack # <<>>, Top.kind = "await"
  PROVE  /\ Top.call \in SyncCalls /\ Top.call \in Calls
         /\ id[Top.call] # 0 /\ ret[Top.call] = "none"
         /\ Outcome(Top.call) = "called"
<1>1. Top.call \in Awaiting(stack)
  BY PopNested DEF IInv, Types, StackShape, Top
<1>2. Top.call \in SyncCalls /\ id[Top.call] # 0 /\ ret[Top.call] = "none"
  BY <1>1 DEF IInv, StackShape, Awaiting
<1> QED  BY <1>2 DEF Outcome, Calls

(* No settled call is settled again: all a completion can change is a call   *)
(* that has no outcome yet.                                                  *)
LEMMA CompletionSettles ==
  ASSUME IInv, NEW c \in AsyncCalls, NEW m \in Replies, m.call = c, c \in ran, done[c] = <<>>,
         completeWith(c, m), UNCHANGED <<id, ret, ran>>
  PROVE  Promise!Next
<1>1. Types /\ OwnReplyOnly /\ PeerInStep /\ c \in Calls /\ c \notin SyncCalls
  BY TransportAssumption DEF IInv, Calls
<1>2. /\ done'[c] = <<c>>
      /\ \A d \in Calls : d # c => done'[d] = done[d] /\ err'[d] = err[d]
      /\ err'[c] = IF m.ok THEN "success" ELSE "error"
  BY <1>1, CompleteEffect
<1>3. id[c] # 0
  BY <1>1 DEF PeerInStep, Made
<1>4. Outcome(c) = "called" /\ Outcome(c)' \in {"success", "error"}
  BY <1>1, <1>2, <1>3 DEF Outcome
<1>5. \A d \in Calls : d # c => Outcome(d)' = Outcome(d)
  BY <1>2, SameOutcome
<1> QED  BY <1>1, <1>4, <1>5, Settles

(* A reply that processMessage gives to a completion settles that call;      *)
(* anything else changes no outcome.                                         *)
LEMMA ProcessMessageSettles ==
  ASSUME IInv, stream # <<>>, Head(stream).at \in {"whole", "rest"},
         NEW m \in Parsed(Head(stream).msg), NEW st, processMessage(m, st),
         UNCHANGED <<id, ret, ran>>
  PROVE  Promise!Next \/ UNCHANGED Promise!svcVars
<1>1. CASE UNCHANGED <<done, err>>
  BY <1>1, SameOutcome, Stutters
<1>2. CASE m.type = "reply" /\ \E c \in Completions(m) : completeWith(c, m)
  <2>1. PICK c \in Completions(m) : completeWith(c, m)
    BY <1>2
  <2>2. c \in AsyncCalls /\ c \in Calls /\ id[c] # 0 /\ m.id = id[c]
    BY <2>1 DEF Completions, IsReplyTo, Calls
  <2>3. m \in Replies /\ m.call = c /\ c \in ran /\ done[c] = <<>>
    BY <1>2, <2>2, ParsedReply
  <2> QED  BY <2>1, <2>2, <2>3, CompletionSettles
<1> QED  BY <1>1, <1>2 DEF processMessage

(* Dealing with a message is a settlement in RPCService or a stutter.        *)
LEMMA RecvMessageRefines ==
  ASSUME IInv, RecvMessage
  PROVE  Promise!Next \/ UNCHANGED Promise!svcVars
<1> USE DEF RecvMessage, peerVars
<1>1. PICK m \in Parsed(Head(stream).msg) : ReadProcesses(m) \/ AwaitUnparsable(m) \/ AwaitOwnReply(m) \/ AwaitOther(m)
  OBVIOUS
<1>2. Types /\ OwnReplyOnly /\ AwaitState /\ stack # <<>> /\ Top.pc = "recv"
  BY DEF IInv, Receiving
<1>3. CASE ReadProcesses(m)
  <2>1. CASE UNCHANGED <<done, err>>
    BY <1>3, <2>1, SameOutcome, Stutters DEF ReadProcesses
  <2>2. CASE processMessage(m, Tail(stack))
    BY <1>3, <2>2, ProcessMessageSettles DEF ReadProcesses
  <2> QED  BY <1>3, <2>1, <2>2 DEF ReadProcesses
<1>4. CASE AwaitUnparsable(m)
  <2>1. PICK c \in SyncCalls : c = Top.call
    BY <1>2, <1>4, TopCall DEF AwaitUnparsable
  <2>2. c \in Calls /\ id[c] # 0 /\ Outcome(c) = "called" /\ err[c] = "timeout"
    BY <1>2, <1>4, <2>1, TopCall DEF AwaitUnparsable, AwaitState
  <2>3. ret' = [ret EXCEPT ![c] = "timeout"] /\ UNCHANGED <<id, err, done>>
    BY <1>4, <2>1, <2>2 DEF AwaitUnparsable, StubReturns
  <2>4. ret'[c] = "timeout" /\ \A d \in SyncCalls : d # c => ret'[d] = ret[d]
    BY <1>2, <2>3 DEF Types
  <2>5. Outcome(c)' = "timeout"
    BY <2>2, <2>3, <2>4 DEF Outcome
  <2>6. \A d \in Calls : d # c => Outcome(d)' = Outcome(d)
    BY <2>3, <2>4, SameOutcome
  <2> QED  BY <2>2, <2>5, <2>6, GivesUp
<1>5. CASE AwaitOwnReply(m)
  <2>1. PICK c \in SyncCalls : c = Top.call
    BY <1>2, <1>5, TopCall DEF AwaitOwnReply
  <2>2. c \in Calls /\ id[c] # 0 /\ Outcome(c) = "called"
    BY <1>2, <1>5, <2>1, TopCall DEF AwaitOwnReply
  <2>3. m.type = "reply" /\ m.id = id[c] /\ completeWith(c, m)
    BY <1>5, <2>1 DEF AwaitOwnReply, IsReplyTo
  <2>4. m \in Replies /\ m.call = c /\ c \in ran /\ done[c] = <<>>
    BY <2>2, <2>3, ParsedReply
  <2>5. /\ done'[c] = <<c>>
        /\ \A d \in Calls : d # c => done'[d] = done[d] /\ err'[d] = err[d]
    BY <1>2, <2>2, <2>3, <2>4, CompleteEffect
  <2>6. /\ ret'[c] \in {"success", "error"}
        /\ \A d \in SyncCalls : d # c => ret'[d] = ret[d]
    BY <1>2, <1>5, <2>1 DEF AwaitOwnReply, StubReturns, Types
  <2>7. Outcome(c)' \in {"success", "error"}
    BY <2>2, <2>5, <2>6 DEF Outcome
  <2>8. \A d \in Calls : d # c => Outcome(d)' = Outcome(d)
    BY <2>5, <2>6, SameOutcome
  <2> QED  BY <2>2, <2>4, <2>7, <2>8, Settles
<1>6. CASE AwaitOther(m)
  BY <1>6, ProcessMessageSettles DEF AwaitOther
<1> QED  BY <1>1, <1>3, <1>4, <1>5, <1>6

(* Sending a call is making it in RPCService.                                *)
LEMMA SendMessageRefines ==
  ASSUME IInv, NEW c \in Calls, sendMessage(c)
  PROVE  Promise!Next \/ UNCHANGED Promise!svcVars
<1>1. CASE Dies
  BY <1>1, SameOutcome, Stutters DEF Dies, clientVars, peerVars
<1>2. CASE Sent(c)
  <2> USE <1>2 DEF Sent
  <2>1. Types /\ IdsDistinct /\ PeerInStep /\ id[c] = 0
    BY DEF IInv, sendMessage
  <2>2. done[c] = <<>> /\ (c \in SyncCalls => ret[c] = "none")
    BY <2>1 DEF PeerInStep, Made
  <2>3. Rand # 0
    <3>1. Rand \in Ids
      BY <2>1, RandFresh
    <3> QED  BY <3>1 DEF Ids
  <2>4. id'[c] # 0 /\ \A d \in Calls : d # c => id'[d] = id[d]
    BY <2>1, <2>3 DEF Types
  <2>5. Outcome(c) = "none" /\ Outcome(c)' = "called"
    <3>1. Outcome(c) = "none"
      BY <2>1 DEF Outcome
    <3>2. done'[c] = <<>> /\ (c \in SyncCalls => ret'[c] = "none")
      BY <2>2
    <3>3. Outcome(c)' = "called"
      BY <2>4, <3>2 DEF Outcome
    <3> QED  BY <3>1, <3>3
  <2>6. \A d \in Calls : d # c => Outcome(d)' = Outcome(d)
    BY <2>4, SameOutcome
  <2>7. [d \in Calls |-> Outcome(d)]' = [[d \in Calls |-> Outcome(d)] EXCEPT ![c] = "called"]
    BY <2>5, <2>6
  <2> QED  BY <2>5, <2>7 DEF Promise!Next, Promise!Invoke
<1> QED  BY <1>1, <1>2 DEF sendMessage

(* The peer executing a call is its execution in RPCService.                 *)
LEMMA PeerAnswersRefines ==
  ASSUME IInv, NEW c \in Calls, PeerAnswers(c)
  PROVE  Promise!Next
<1>1. c \notin ran /\ id[c] # 0 /\ ran' = ran \cup {c}
  BY DEF IInv, PeerInStep, Made, PeerAnswers
<1>2. \A d \in Calls : Outcome(d)' = Outcome(d)
  BY SameOutcome DEF PeerAnswers, clientVars
<1>3. Outcome(c) # "none"
  <2>1. OwnReplyOnly /\ Types
    BY DEF IInv
  <2> QED  BY <1>1, <2>1, OutcomeNamed
<1> QED  BY <1>1, <1>2, <1>3 DEF Promise!Next, Promise!Execute

(* A timeout is giving up in RPCService.                                     *)
LEMMA AwaitTimesOutRefines ==
  ASSUME IInv, AwaitTimesOut
  PROVE  Promise!Next
<1> USE DEF AwaitTimesOut, StubReturns, peerVars
<1>1. PICK c \in SyncCalls : c = Top.call
  BY TopCall DEF InAwait
<1>2. c \in Calls /\ id[c] # 0 /\ Outcome(c) = "called" /\ Types
  BY <1>1, TopCall DEF InAwait, IInv
<1>3. /\ ret'[c] = "timeout" /\ \A d \in SyncCalls : d # c => ret'[d] = ret[d]
      /\ \A d \in Calls : d # c => err'[d] = err[d]
  BY <1>1, <1>2 DEF Types
<1>4. Outcome(c)' = "timeout"
  BY <1>2, <1>3 DEF Outcome
<1>5. \A d \in Calls : d # c => Outcome(d)' = Outcome(d)
  BY <1>3, SameOutcome
<1> QED  BY <1>2, <1>4, <1>5, GivesUp

(* Finding the reply among the stored ones is a settlement.                  *)
LEMMA AwaitScansRefines ==
  ASSUME IInv, AwaitScans
  PROVE  UNCHANGED Promise!svcVars
<1>1. CASE UNCHANGED <<id, err, done, ret, ran>>
  BY <1>1, SameOutcome, Stutters
<1>2. ASSUME NEW i \in Stored(Top.call), completeWith(Top.call, received[i]), UNCHANGED <<id, ret, ran>>
      PROVE  UNCHANGED Promise!svcVars
  <2>1. PICK c \in SyncCalls : c = Top.call
    BY TopCall DEF AwaitScans, InAwait
  <2>2. ret[c] = "none" /\ Types
    BY <2>1, TopCall DEF AwaitScans, InAwait, IInv
  <2>3. \A d \in Calls : d # c => done'[d] = done[d] /\ err'[d] = err[d]
    BY <1>2, <2>1, <2>2 DEF completeWith, Types
  <2>4. \A d \in Calls : Outcome(d)' = Outcome(d)
    BY <1>2, <2>2, <2>3, SameOutcome
  <2> QED  BY <1>2, <2>4, Stutters
<1> QED  BY <1>1, <1>2 DEF AwaitScans, Dies, clientVars, peerVars

(* No call has been made at the start, here and in RPCService.               *)
LEMMA InitRefines == Init => Promise!Init
<1> SUFFICES ASSUME Init PROVE Promise!Init
  OBVIOUS
<1>1. \A c \in Calls : Outcome(c) = "none"
  BY DEF Init, Outcome
<1> QED  BY <1>1 DEF Init, Promise!Init

(* Every step is one of RPCService or a stutter.                             *)
LEMMA NextRefines == IInv /\ [Next]_vars => [Promise!Next]_Promise!svcVars
<1> SUFFICES ASSUME IInv, [Next]_vars PROVE Promise!Next \/ UNCHANGED Promise!svcVars
  OBVIOUS
<1>1. ASSUME UNCHANGED <<id, err, done, ret, ran>> PROVE UNCHANGED Promise!svcVars
  BY <1>1, SameOutcome, Stutters
<1> USE DEF clientVars, peerVars, Dies
<1>2. CASE UNCHANGED vars  BY <1>1, <1>2 DEF vars
<1>3. CASE readyForRead  BY <1>1, <1>3 DEF readyForRead
<1>4. CASE AwaitPolls
  <2>1. PICK c \in SyncCalls : c = Top.call
    BY <1>4, TopCall DEF AwaitPolls, InAwait
  <2>2. \A d \in Calls : d # c => err'[d] = err[d]
    BY <1>4, <2>1 DEF AwaitPolls, IInv, Types
  <2>3. \A d \in Calls : Outcome(d)' = Outcome(d)
    BY <1>4, <2>2, SameOutcome DEF AwaitPolls
  <2> QED  BY <1>4, <2>3, Stutters DEF AwaitPolls
<1>5. CASE LengthMissing  BY <1>1, <1>5 DEF LengthMissing
<1>6. CASE RecvPart  BY <1>1, <1>6 DEF RecvPart
<1>7. CASE RecvMessage  BY <1>7, RecvMessageRefines
<1>8. CASE AwaitScans  BY <1>8, AwaitScansRefines
<1>9. CASE CallbackReturns  BY <1>1, <1>9 DEF CallbackReturns
<1>10. CASE AwaitTimesOut  BY <1>10, AwaitTimesOutRefines
<1>11. ASSUME NEW c \in Calls, sendMessage(c) PROVE Promise!Next \/ UNCHANGED Promise!svcVars
  BY <1>11, SendMessageRefines
<1>12. ASSUME NEW c \in Calls, PeerAnswers(c) PROVE Promise!Next
  BY <1>12, PeerAnswersRefines
<1>13. ASSUME NEW r \in PeerReqs, PeerCalls(r) PROVE UNCHANGED Promise!svcVars
  BY <1>1, <1>13 DEF PeerCalls
<1>14. CASE PeerWrites  BY <1>1, <1>14 DEF PeerWrites
<1>15. CASE PeerCloses  BY <1>1, <1>15 DEF PeerCloses
<1> QED
  BY <1>2, <1>3, <1>4, <1>5, <1>6, <1>7, <1>8, <1>9, <1>10, <1>11, <1>12, <1>13, <1>14, <1>15
  DEF Next, ClientStep

(* The transport implements RPCService: every call is executed at most once  *)
(* and gets one outcome, its own (WSRPCTransport, awaitReply,                *)
(* processMessage).                                                          *)
THEOREM PromiseKept == Spec => KeepsPromise
<1>1. Spec => []IInv
  BY Invariance
<1> QED  BY <1>1, InitRefines, NextRefines, PTL DEF Spec, KeepsPromise, Promise!Spec
=============================================================================
