------------------------- MODULE ManagerServerProofs -------------------------
(* Proofs about the manager and its clients, for any clients, descriptors    *)
(* and messages.                                                             *)
EXTENDS ManagerServer, FiniteSetTheorems, SequenceTheorems, TLAPS

Entries == [fd : FD \cup {ListenFD}, revents : SUBSET {"IN", "HUP"}]

(* DescriptorsAgree, with the pollfd array without duplicates instead of as  *)
(* long as there are sources.                                                *)
Tables ==
  /\ {pFDs[k].fd : k \in DOMAIN pFDs} = fdSources
  /\ \A k, l \in DOMAIN pFDs : pFDs[k].fd = pFDs[l].fd => k = l
  /\ ListenFD \in fdSources /\ fdSources \subseteq clientXprts \cup {ListenFD}
  /\ clientXprts = {f \in FD : Open(f)}

(* A client has one connection, which is pending or accepted.                *)
Waiting(c) == peer[c] = "new" \/ \E a \in 1..Len(backlog) : backlog[a] = c

Owners ==
  /\ \A f, g \in FD : Open(f) /\ owner[f] = owner[g] => f = g
  /\ \A f \in FD : Open(f) => ~Waiting(owner[f])
  /\ \A a \in 1..Len(backlog) : peer[backlog[a]] # "new"
  /\ \A a, b \in 1..Len(backlog) : backlog[a] = backlog[b] => a = b

(* Between the two halves of doRecv and in processMessage the scan is at the *)
(* entry of an open connection, with the length received, or the body.       *)
TurnState ==
  /\ pc \in {"body", "handle"} => i \in DOMAIN pFDs /\ pFDs[i].fd \in FD
  /\ pc = "body" => curMsgLen[pFDs[i].fd]
  /\ IF pc = "handle" THEN msg \in Kind ELSE msg = "none"

(* Lengths and bodies take turns in what a client has written; the last one  *)
(* is what it wrote last.                                                    *)
Alternates(s) == \A k \in 1..(Len(s) - 1) : s[k] = "length" <=> s[k + 1] # "length"

(* What comes next in a stream, seen from the receiving end.                 *)
BodyNext(c) == IF sock[c] = <<>> THEN MidMessage(c) ELSE sock[c][1] # "length"

Framing ==
  /\ \A c \in Client : /\ Alternates(sock[c])
                       /\ sock[c] # <<>> => (sock[c][Len(sock[c])] = "length" <=> MidMessage(c))
                       /\ Waiting(c) => ~BodyNext(c)
  /\ \A f \in FD : Open(f) => (curMsgLen[f] <=> BodyNext(owner[f]))

(* EveryCallAccountedFor, also before the connection is accepted or while    *)
(* nobody watches it.                                                        *)
Balanced(c) == calls[c] = replies[c] + CallsIn(c) + (IF InHand(c) THEN 1 ELSE 0)

Accounts ==
  mode = "run" => \A c \in Client : Waiting(c) \/ (\E f \in FD : owner[f] = c) => Balanced(c)

CallsFew == \A c \in Client : 2 * calls[c] <= written[c]

IInv == /\ TypeOK /\ CallsFew /\ Tables /\ Owners /\ TurnState
        /\ ReportedEventIsTrue /\ Framing /\ Accounts

-----------------------------------------------------------------------------
(* Calls in a stream.                                                        *)
CallsOf(s) == {k \in DOMAIN s : s[k] = "call"}

(* A write adds the call it makes, if it is one.                             *)
LEMMA AppendCounts ==
  ASSUME NEW S, NEW s \in Seq(S), NEW x \in S
  PROVE  /\ Cardinality(CallsOf(s)) \in Nat
         /\ Cardinality(CallsOf(Append(s, x))) = Cardinality(CallsOf(s)) + IF x = "call" THEN 1 ELSE 0
<1>1. Len(s) \in Nat /\ DOMAIN s = 1..Len(s)
  OBVIOUS
<1>2. IsFiniteSet(CallsOf(s)) /\ Cardinality(CallsOf(s)) \in Nat /\ Len(s) + 1 \notin CallsOf(s)
  <2>1. IsFiniteSet(1..Len(s)) /\ CallsOf(s) \in SUBSET (1..Len(s))
    BY <1>1, FS_Interval DEF CallsOf
  <2>2. IsFiniteSet(CallsOf(s))
    BY <2>1, FS_Subset
  <2>3. Len(s) + 1 \notin 1..Len(s)
    BY <1>1
  <2> QED  BY <2>1, <2>2, <2>3, FS_CardinalityType
<1>3. CallsOf(Append(s, x)) = IF x = "call" THEN CallsOf(s) \cup {Len(s) + 1} ELSE CallsOf(s)
  <2> DEFINE t == Append(s, x)
  <2>1. DOMAIN t = 1..(Len(s) + 1) /\ t[Len(s) + 1] = x /\ \A k \in 1..Len(s) : t[k] = s[k]
    OBVIOUS
  <2>4. Len(s) + 1 \in DOMAIN t
    OBVIOUS
  <2> HIDE DEF t
  <2>2. \A n \in Nat : \A k \in 1..(n + 1) : k \in 1..n \/ k = n + 1
    OBVIOUS
  <2>3. \A n \in Nat : \A k \in 1..n : k \in 1..(n + 1)
    OBVIOUS
  <2> QED  BY <1>1, <2>1, <2>2, <2>3, <2>4 DEF CallsOf, t
<1>4. CASE x = "call"
  <2>1. Cardinality(CallsOf(s) \cup {Len(s) + 1}) = Cardinality(CallsOf(s)) + 1
    BY <1>2, FS_AddElement
  <2> QED  BY <1>2, <1>3, <1>4, <2>1
<1>5. CASE x # "call"
  BY <1>2, <1>3, <1>5
<1> QED  BY <1>4, <1>5

(* A receive takes the first away.                                           *)
LEMMA TailCounts ==
  ASSUME NEW S, NEW s \in Seq(S), s # <<>>
  PROVE  Cardinality(CallsOf(s)) = Cardinality(CallsOf(Tail(s))) + IF s[1] = "call" THEN 1 ELSE 0
<1> DEFINE t == Tail(s)
           rest == CallsOf(s) \ {1}
           up == [k \in CallsOf(t) |-> k + 1]
<1>1. /\ Len(s) \in Nat /\ Len(s) >= 1 /\ DOMAIN s = 1..Len(s) /\ DOMAIN t = 1..(Len(s) - 1)
      /\ \A k \in 1..(Len(s) - 1) : t[k] = s[k + 1]
      /\ t \in Seq(S) /\ Len(t) = Len(s) - 1
  OBVIOUS
<1> HIDE DEF t
<1>2. IsFiniteSet(CallsOf(s)) /\ IsFiniteSet(CallsOf(t))
  <2>1. IsFiniteSet(1..Len(s)) /\ CallsOf(s) \in SUBSET (1..Len(s))
    BY <1>1, FS_Interval DEF CallsOf
  <2>2. IsFiniteSet(1..(Len(s) - 1)) /\ CallsOf(t) \in SUBSET (1..(Len(s) - 1))
    BY <1>1, FS_Interval DEF CallsOf
  <2> QED  BY <2>1, <2>2, FS_Subset
<1>3. up \in Bijection(CallsOf(t), rest)
  <2>1. \A k \in CallsOf(t) : k \in 1..(Len(s) - 1) /\ k + 1 \in 1..Len(s) /\ k + 1 # 1 /\ s[k + 1] = "call"
    BY <1>1 DEF CallsOf
  <2>2. up \in [CallsOf(t) -> rest]
    BY <1>1, <2>1 DEF CallsOf
  <2>3. \A k, l \in CallsOf(t) : k + 1 = l + 1 => k = l
    BY <2>1
  <2>4. \A m \in rest : m - 1 \in CallsOf(t) /\ (m - 1) + 1 = m
    <3> TAKE m \in rest
    <3>1. m \in 1..Len(s) /\ m # 1 /\ s[m] = "call"
      BY <1>1 DEF CallsOf
    <3>2. m - 1 \in 1..(Len(s) - 1) /\ (m - 1) + 1 = m
      BY <1>1, <3>1
    <3> QED  BY <1>1, <3>1, <3>2 DEF CallsOf
  <2> HIDE DEF rest
  <2>5. up \in Injection(CallsOf(t), rest)
    BY <2>2, <2>3 DEF Injection, IsInjective
  <2>6. up \in Surjection(CallsOf(t), rest)
    BY <2>2, <2>4 DEF Surjection
  <2> QED  BY <2>5, <2>6 DEF Bijection
<1>4. Cardinality(rest) = Cardinality(CallsOf(t))
  BY <1>2, <1>3, FS_Bijection DEF ExistsBijection
<1>5. Cardinality(rest) = IF 1 \in CallsOf(s) THEN Cardinality(CallsOf(s)) - 1 ELSE Cardinality(CallsOf(s))
  BY <1>2, FS_RemoveElement
<1>6. 1 \in CallsOf(s) <=> s[1] = "call"
  BY <1>1 DEF CallsOf
<1>7. Cardinality(CallsOf(s)) \in Nat
  BY <1>2, FS_CardinalityType
<1> HIDE DEF rest
<1> QED  BY <1>4, <1>5, <1>6, <1>7 DEF t

-----------------------------------------------------------------------------
(* The end of a turn clears one entry and goes on.                           *)
LEMMA EndTurnEffect ==
  ASSUME NEW t \in Seq(Entries), i \in Nat \ {0}, EndTurn(t)
  PROVE  /\ pFDs' \in Seq(Entries) /\ Len(pFDs') = Len(t)
         /\ \A k \in 1..Len(t) : pFDs'[k].fd = t[k].fd /\ (k # i => pFDs'[k] = t[k])
         /\ i' = i + 1 /\ i' \in Nat \ {0}
<1>1. i' = i + 1 /\ i' \in Nat \ {0}
  BY DEF EndTurn
<1>2. CASE i <= Len(t)
  <2>1. i \in 1..Len(t) /\ t[i] \in Entries
    BY <1>2
  <2> DEFINE e == [t[i] EXCEPT !.revents = {}]
  <2>2. e \in Entries /\ e.fd = t[i].fd
    BY <2>1 DEF Entries
  <2>3. pFDs' = [t EXCEPT ![i] = e]
    BY <1>2 DEF EndTurn
  <2> HIDE DEF e
  <2>4. /\ pFDs' \in Seq(Entries) /\ Len(pFDs') = Len(t)
        /\ \A k \in 1..Len(t) : pFDs'[k] = IF k = i THEN e ELSE t[k]
    BY <2>1, <2>2, <2>3
  <2> QED  BY <1>1, <2>2, <2>4
<1>3. CASE ~(i <= Len(t))
  BY <1>1, <1>3 DEF EndTurn
<1> QED  BY <1>2, <1>3

(* The tables agree as long as entries keep their descriptors.               *)
LEMMA TablesKept ==
  ASSUME Tables, pFDs \in Seq(Entries), pFDs' \in Seq(Entries), Len(pFDs') = Len(pFDs),
         \A k \in 1..Len(pFDs) : pFDs'[k].fd = pFDs[k].fd,
         UNCHANGED <<fdSources, clientXprts, owner>>
  PROVE  Tables'
<1>1. DOMAIN pFDs = 1..Len(pFDs) /\ DOMAIN pFDs' = 1..Len(pFDs)
  OBVIOUS
<1>2. {pFDs'[k].fd : k \in DOMAIN pFDs'} = {pFDs[k].fd : k \in DOMAIN pFDs}
  BY <1>1
<1> QED  BY <1>1, <1>2 DEF Tables, Open

(* Events further on stay true when the scan goes on by one.                 *)
LEMMA ReportedKept ==
  ASSUME pFDs \in Seq(Entries), i \in Nat \ {0}, ReportedEventIsTrue, pc \in {"scan", "body", "handle"},
         i' = i + 1, Len(pFDs') = Len(pFDs),
         \A k \in 1..Len(pFDs) : k # i => pFDs'[k] = pFDs[k],
         UNCHANGED <<peer, sock, owner>>
  PROVE  ReportedEventIsTrue'
<1> SUFFICES ASSUME NEW k \in (i + 1)..Len(pFDs), pFDs'[k].fd \in FD
             PROVE  /\ "HUP" \in pFDs'[k].revents => peer[owner[pFDs'[k].fd]] = "closed"
                    /\ "IN" \in pFDs'[k].revents =>
                         sock[owner[pFDs'[k].fd]] # <<>> \/ peer[owner[pFDs'[k].fd]] # "open"
  BY DEF ReportedEventIsTrue
<1>1. k \in i..Len(pFDs) /\ k > i /\ pFDs'[k] = pFDs[k]
  OBVIOUS
<1> QED  BY <1>1 DEF ReportedEventIsTrue

(* Nothing is received, answered or connected.                               *)
LEMMA AccountsKept ==
  ASSUME Accounts, UNCHANGED <<sock, calls, replies, owner, peer, backlog>>,
         mode' = "run" => mode = "run", pc # "handle", pc' # "handle"
  PROVE  Accounts'
<1>1. \A c \in Client : Balanced(c)' <=> Balanced(c)
  BY DEF Balanced, CallsIn, InHand
<1> QED  BY <1>1 DEF Accounts, Waiting

(* No stream, length or connection changes.                                  *)
LEMMA FramingKept ==
  ASSUME Framing, UNCHANGED <<sock, written, curMsgLen, owner, peer, backlog>>
  PROVE  Framing'
  BY DEF Framing, BodyNext, MidMessage, Waiting, Open

(* No connection is made, accepted or closed.                                *)
LEMMA OwnersKept ==
  ASSUME Owners, UNCHANGED <<owner, peer, backlog>>
  PROVE  Owners'
  BY DEF Owners, Waiting, Open

(* The parts of the invariant, and the pollfd array as a sequence.           *)
LEMMA Parts == IInv => /\ TypeOK /\ CallsFew /\ Tables /\ Owners /\ TurnState
                       /\ ReportedEventIsTrue /\ Framing /\ Accounts
                       /\ pFDs \in Seq(Entries) /\ i \in Nat \ {0}
                       /\ Len(pFDs) \in Nat /\ DOMAIN pFDs = 1..Len(pFDs)
<1>1. TypeOK => pFDs \in Seq(Entries) /\ i \in Nat \ {0}
  BY DEF TypeOK, Entries
<1>2. pFDs \in Seq(Entries) => Len(pFDs) \in Nat /\ DOMAIN pFDs = 1..Len(pFDs)
  OBVIOUS
<1> QED  BY <1>1, <1>2 DEF IInv

(* A turn in which no connection changes.                                    *)
LEMMA TurnEnds ==
  ASSUME IInv, pc \in {"scan", "body", "handle"}, EndTurn(pFDs), pc' = "scan", msg' = "none",
         mode' \in {"run", "exited", "sigpipe", "aborted"}, replies' \in [Client -> Nat], Accounts',
         UNCHANGED <<shouldRun, sigint, fdSources, clientXprts, curMsgLen, socket, world>>
  PROVE  IInv'
<1> USE DEF socket, world
<1>1. /\ TypeOK /\ CallsFew /\ Tables /\ Owners /\ ReportedEventIsTrue /\ Framing
      /\ pFDs \in Seq(Entries) /\ i \in Nat \ {0}
  BY Parts
<1>2. /\ pFDs' \in Seq(Entries) /\ Len(pFDs') = Len(pFDs)
      /\ \A k \in 1..Len(pFDs) : pFDs'[k].fd = pFDs[k].fd /\ (k # i => pFDs'[k] = pFDs[k])
      /\ i' = i + 1 /\ i' \in Nat \ {0}
  BY <1>1, EndTurnEffect
<1>3. TypeOK'
  BY <1>1, <1>2 DEF TypeOK, Entries
<1>4. Tables'
  BY <1>1, <1>2, TablesKept
<1>5. ReportedEventIsTrue'
  BY <1>1, <1>2, ReportedKept
<1>6. Framing' /\ Owners' /\ CallsFew' /\ TurnState'
  BY <1>1, FramingKept, OwnersKept DEF CallsFew, TurnState
<1> QED  BY <1>3, <1>4, <1>5, <1>6 DEF IInv

(* A step that only moves the manager along its loop.                        *)
LEMMA LoopMoves ==
  ASSUME IInv, pc \in {"loop", "pass", "clear", "poll", "scan"},
         pc' \in {"loop", "pass", "clear", "poll", "scan"},
         pc' = "scan" => pc = "scan",
         mode' \in {"run", "exited", "aborted"}, mode = "run",
         shouldRun' \in BOOLEAN, sigint' \in {"no", "flagged", "lost", "seen"},
         UNCHANGED <<i, table, curMsgLen, msg, socket, world, replies>>
  PROVE  IInv'
<1> USE DEF socket, world, table
<1>1. /\ TypeOK /\ CallsFew /\ Tables /\ Owners /\ ReportedEventIsTrue /\ Framing /\ TurnState /\ Accounts
      /\ pFDs \in Seq(Entries) /\ i \in Nat \ {0}
  BY Parts
<1>2. TypeOK'
  BY <1>1 DEF TypeOK
<1>3. Tables'
  BY <1>1, TablesKept
<1>4. ReportedEventIsTrue'
  BY <1>1 DEF ReportedEventIsTrue
<1>5. Framing' /\ Owners' /\ CallsFew' /\ TurnState'
  BY <1>1, FramingKept, OwnersKept DEF CallsFew, TurnState
<1>6. Accounts'
  BY <1>1, AccountsKept
<1> QED  BY <1>2, <1>3, <1>4, <1>5, <1>6 DEF IInv

(* The steps of loop() that dispatch nothing to a client.                    *)
LEMMA LoopStep ==
  ASSUME IInv, CallLoop \/ ClearSignalFired \/ Exit \/ ScanEnds \/ ScanIdle \/ AcceptFails
  PROVE  IInv'
<1>1. TypeOK /\ TurnState /\ Accounts
  BY Parts
<1>2. SignalEvent => shouldRun' \in BOOLEAN /\ sigint' \in {"no", "flagged", "lost", "seen"}
  BY <1>1 DEF SignalEvent, TypeOK
<1>3. CASE CallLoop
  BY <1>1, <1>3, LoopMoves DEF CallLoop, Running, TypeOK
<1>9. CASE ClearSignalFired
  <2>1. shouldRun' \in BOOLEAN /\ sigint' \in {"no", "flagged", "lost", "seen"}
    BY <1>1, <1>2, <1>9 DEF ClearSignalFired, TypeOK
  <2> QED  BY <1>9, <2>1, LoopMoves DEF ClearSignalFired, Running
<1>4. CASE Exit
  BY <1>1, <1>4, LoopMoves DEF Exit, TypeOK
<1>5. CASE ScanEnds
  BY <1>2, <1>5, LoopMoves DEF ScanEnds, Running
<1>6. ASSUME Running, pc = "scan", EndTurn(pFDs),
             UNCHANGED <<pc, shouldRun, sigint, fdSources, clientXprts, curMsgLen, msg, socket, world, replies>>
      PROVE  IInv'
  <2>1. msg' = "none" /\ replies' \in [Client -> Nat]
    BY <1>1, <1>6 DEF TurnState, TypeOK
  <2>2. Accounts'
    BY <1>1, <1>6, AccountsKept DEF Running, socket, world
  <2> QED  BY <1>6, <2>1, <2>2, TurnEnds DEF Running
<1>7. CASE ScanIdle
  BY <1>6, <1>7 DEF ScanIdle
<1>8. CASE AcceptFails
  BY <1>6, <1>8 DEF AcceptFails, Turn
<1> QED  BY <1>3, <1>4, <1>5, <1>7, <1>8, <1>9

(* poll() reports what is true of the connections now.                       *)
LEMMA PollStep ==
  ASSUME IInv, Poll
  PROVE  IInv'
<1> USE DEF socket, world
<1>1. /\ TypeOK /\ CallsFew /\ Tables /\ Owners /\ Framing /\ TurnState /\ Accounts
      /\ pFDs \in Seq(Entries) /\ Len(pFDs) \in Nat /\ DOMAIN pFDs = 1..Len(pFDs)
  BY Parts
<1>2. /\ Running /\ pc = "poll" /\ i' = 1 /\ pc' = "scan"
      /\ pFDs' = [k \in DOMAIN pFDs |-> [pFDs[k] EXCEPT !.revents = Ready(pFDs[k].fd)]]
      /\ UNCHANGED <<shouldRun, sigint, fdSources, clientXprts, curMsgLen, msg, socket, world, replies>>
  BY DEF Poll
<1>3. \A k \in DOMAIN pFDs : LET e == [pFDs[k] EXCEPT !.revents = Ready(pFDs[k].fd)]
                             IN  e \in Entries /\ e.fd = pFDs[k].fd /\ e.revents = Ready(pFDs[k].fd)
  <2> TAKE k \in DOMAIN pFDs
  <2>1. pFDs[k] \in Entries
    BY <1>1
  <2>2. Ready(pFDs[k].fd) \in SUBSET {"IN", "HUP"}
    BY DEF Ready
  <2> QED  BY <2>1, <2>2 DEF Entries
<1>4. /\ pFDs' \in Seq(Entries) /\ Len(pFDs') = Len(pFDs)
      /\ \A k \in 1..Len(pFDs) : pFDs'[k].fd = pFDs[k].fd /\ pFDs'[k].revents = Ready(pFDs[k].fd)
  <2>1. pFDs' \in [1..Len(pFDs) -> Entries]
    BY <1>1, <1>2, <1>3
  <2>2. pFDs' \in Seq(Entries) /\ Len(pFDs') = Len(pFDs)
    BY <1>1, <2>1, SeqDef
  <2> QED  BY <1>1, <1>2, <1>3, <2>2
<1>5. TypeOK'
  <2>1. i' \in Nat \ {0} /\ mode' = "run" /\ pc' = "scan"
    BY <1>2 DEF Running
  <2> QED  BY <1>1, <1>2, <1>4, <2>1 DEF TypeOK, Entries
<1>6. Tables'
  BY <1>1, <1>2, <1>4, TablesKept
<1>7. ReportedEventIsTrue'
  <2> SUFFICES ASSUME NEW k \in 1..Len(pFDs), pFDs'[k].fd \in FD
               PROVE  /\ "HUP" \in pFDs'[k].revents => peer[owner[pFDs'[k].fd]] = "closed"
                      /\ "IN" \in pFDs'[k].revents =>
                           sock[owner[pFDs'[k].fd]] # <<>> \/ peer[owner[pFDs'[k].fd]] # "open"
    BY <1>2, <1>4 DEF ReportedEventIsTrue
  <2>1. pFDs[k].fd # ListenFD /\ pFDs'[k].fd = pFDs[k].fd /\ pFDs'[k].revents = Ready(pFDs[k].fd)
    BY <1>4, ServerAssumption
  <2> QED  BY <2>1 DEF Ready
<1>8. Framing' /\ Owners' /\ CallsFew' /\ TurnState'
  BY <1>1, <1>2, FramingKept, OwnersKept DEF CallsFew, TurnState
<1>9. Accounts'
  BY <1>1, <1>2, AccountsKept DEF Running
<1> QED  BY <1>5, <1>6, <1>7, <1>8, <1>9 DEF IInv

-----------------------------------------------------------------------------
(* What the clients do.  The manager and its descriptors stay.               *)

(* One of two numbers that follow one another is odd.                        *)
LEMMA Parity ==
  ASSUME NEW n \in Nat
  PROVE  (n + 1) % 2 = 1 <=> ~(n % 2 = 1)
  OBVIOUS

(* The manager's own state is as before.                                     *)
LEMMA ClientMoves ==
  ASSUME IInv, mode = "run", UNCHANGED <<manager, sigint>>, backlog' \in Seq(Client),
         peer' \in [Client -> {"new", "open", "shut", "closed"}],
         sock' \in [Client -> Seq(Kind \cup {"length"})],
         written' \in [Client -> 0..(2 * MaxMsgs)], calls' \in [Client -> 0..MaxMsgs],
         \A f \in FD : Open(f) => /\ peer[owner[f]] = "closed" => peer'[owner[f]] = "closed"
                                  /\ peer[owner[f]] # "open" => peer'[owner[f]] # "open"
                                  /\ sock[owner[f]] # <<>> => sock'[owner[f]] # <<>>,
         CallsFew', Owners', Framing', Accounts'
  PROVE  IInv'
<1> USE DEF manager, table
<1>1. /\ TypeOK /\ Tables /\ TurnState /\ ReportedEventIsTrue
      /\ pFDs \in Seq(Entries) /\ DOMAIN pFDs = 1..Len(pFDs) /\ i \in Nat \ {0}
  BY Parts
<1>2. TypeOK'
  BY <1>1 DEF TypeOK
<1>3. Tables' /\ TurnState'
  BY <1>1, TablesKept DEF TurnState
<1>4. ReportedEventIsTrue'
  <2> SUFFICES ASSUME pc \in {"scan", "body", "handle"}, NEW k \in i..Len(pFDs), pFDs[k].fd \in FD
               PROVE  LET f == pFDs[k].fd
                      IN  /\ "HUP" \in pFDs[k].revents => peer'[owner[f]] = "closed"
                          /\ "IN" \in pFDs[k].revents /\ (k > i \/ pc = "scan") =>
                               sock'[owner[f]] # <<>> \/ peer'[owner[f]] # "open"
    BY DEF ReportedEventIsTrue
  <2>1. k \in DOMAIN pFDs
    BY <1>1
  <2>2. pFDs[k].fd \in fdSources /\ pFDs[k].fd # ListenFD
    BY <1>1, <2>1, ServerAssumption DEF Tables
  <2>3. Open(pFDs[k].fd)
    BY <1>1, <2>2 DEF Tables
  <2> QED  BY <1>1, <2>3 DEF ReportedEventIsTrue
<1> QED  BY <1>2, <1>3, <1>4 DEF IInv

(* A new client goes to the backlog: it was waiting before and is now.       *)
LEMMA ConnectStep ==
  ASSUME IInv, mode = "run", NEW c \in Client, Connect(c)
  PROVE  IInv'
<1> USE DEF Connect
<1>1. TypeOK /\ CallsFew /\ Owners /\ Framing /\ Accounts
  BY Parts
<1>2. /\ peer[c] = "new" /\ peer' = [peer EXCEPT ![c] = "open"] /\ backlog' = Append(backlog, c)
      /\ UNCHANGED <<manager, sigint, sock, written, calls>>
  OBVIOUS
<1>3. UNCHANGED <<mode, pc, i, pFDs, curMsgLen, msg, owner, replies>>
  BY <1>2 DEF manager, table
<1>4. peer \in [Client -> {"new", "open", "shut", "closed"}] /\ backlog \in Seq(Client)
  BY <1>1 DEF TypeOK
<1>5. peer' \in [Client -> {"new", "open", "shut", "closed"}] /\ backlog' \in Seq(Client)
  BY <1>2, <1>4
<1>6. \A d \in Client : /\ peer[d] = "closed" => peer'[d] = "closed"
                        /\ peer[d] # "open" /\ d # c => peer'[d] # "open"
                        /\ d # c => peer'[d] = peer[d]
  BY <1>2, <1>4
<1>7. \A d \in Client : Waiting(d)' <=> Waiting(d)
  <2> TAKE d \in Client
  <2>1. /\ Len(backlog') = Len(backlog) + 1 /\ backlog'[Len(backlog) + 1] = c /\ Len(backlog) \in Nat
        /\ \A a \in 1..Len(backlog) : backlog'[a] = backlog[a]
    BY <1>2, <1>4
  <2>2. CASE d = c
    <3>1. Len(backlog) + 1 \in 1..Len(backlog')
      BY <2>1
    <3> QED  BY <1>2, <2>1, <2>2, <3>1 DEF Waiting
  <2>3. CASE d # c
    <3>1. \A a \in 1..Len(backlog') : a \in 1..Len(backlog) \/ a = Len(backlog) + 1
      BY <2>1
    <3>2. \A a \in 1..Len(backlog) : a \in 1..Len(backlog')
      BY <2>1
    <3> QED  BY <1>6, <2>1, <2>3, <3>1, <3>2 DEF Waiting
  <2> QED  BY <2>2, <2>3
<1>8. Owners'
  <2>1. /\ Len(backlog') = Len(backlog) + 1 /\ backlog'[Len(backlog) + 1] = c /\ Len(backlog) \in Nat
        /\ \A a \in 1..Len(backlog) : backlog'[a] = backlog[a]
    BY <1>2, <1>4
  <2>2. \A a \in 1..Len(backlog') : a \in 1..Len(backlog) \/ a = Len(backlog) + 1
    BY <2>1
  <2>3. \A a \in 1..Len(backlog) : backlog[a] \in Client /\ backlog[a] # c
    BY <1>1, <1>2, <1>4 DEF Owners
  <2>4. \A a \in 1..Len(backlog') : peer'[backlog'[a]] # "new"
    BY <1>1, <1>2, <1>4, <1>6, <2>1, <2>2, <2>3 DEF Owners
  <2>5. \A a, b \in 1..Len(backlog') : backlog'[a] = backlog'[b] => a = b
    BY <1>1, <2>1, <2>2, <2>3 DEF Owners
  <2>6. \A f \in FD : Open(f) => owner[f] \in Client
    BY <1>1 DEF Open, TypeOK
  <2> QED  BY <1>1, <1>3, <1>7, <2>4, <2>5, <2>6 DEF Owners, Open
<1>9. Framing'
  BY <1>1, <1>2, <1>3, <1>7 DEF Framing, BodyNext, MidMessage, Open
<1>10. Accounts'
  <2>1. \A d \in Client : Balanced(d)' <=> Balanced(d)
    BY <1>2, <1>3 DEF Balanced, CallsIn, InHand
  <2> QED  BY <1>1, <1>3, <1>7, <2>1 DEF Accounts
<1>11. CallsFew'
  BY <1>1, <1>2 DEF CallsFew
<1>12. \A f \in FD : Open(f) => owner[f] \in Client /\ owner[f] # c
  BY <1>1, <1>2 DEF Open, TypeOK, Owners, Waiting
<1>13. \A f \in FD : Open(f) => peer'[owner[f]] = peer[owner[f]] /\ sock'[owner[f]] = sock[owner[f]]
  BY <1>2, <1>6, <1>12
<1>14. /\ sock' \in [Client -> Seq(Kind \cup {"length"})]
       /\ written' \in [Client -> 0..(2 * MaxMsgs)] /\ calls' \in [Client -> 0..MaxMsgs]
  BY <1>1, <1>2 DEF TypeOK
<1> QED  BY <1>2, <1>5, <1>8, <1>9, <1>10, <1>11, <1>13, <1>14, ClientMoves

(* The client has closed or shut its end.                                    *)
LEMMA CloseStep ==
  ASSUME IInv, mode = "run", NEW c \in Client, Close(c) \/ Shutdown(c)
  PROVE  IInv'
<1>1. TypeOK /\ CallsFew /\ Owners /\ Framing /\ Accounts
  BY Parts
<1>2. PICK p \in {"closed", "shut"} : /\ peer' = [peer EXCEPT ![c] = p]
                                      /\ peer[c] \in {"open", "shut"} /\ (p = "shut" => peer[c] = "open")
  BY DEF Close, Shutdown
<1>3. UNCHANGED <<manager, backlog, sigint, sock, written, calls>>
  BY DEF Close, Shutdown
<1>4. UNCHANGED <<mode, pc, i, pFDs, curMsgLen, msg, owner, replies>>
  BY <1>3 DEF manager, table
<1>5. /\ peer' \in [Client -> {"new", "open", "shut", "closed"}] /\ backlog' \in Seq(Client)
      /\ sock' \in [Client -> Seq(Kind \cup {"length"})]
      /\ written' \in [Client -> 0..(2 * MaxMsgs)] /\ calls' \in [Client -> 0..MaxMsgs]
  BY <1>1, <1>2, <1>3 DEF TypeOK
<1>6. \A d \in Client : /\ peer[d] = "closed" => peer'[d] = "closed"
                        /\ peer[d] # "open" => peer'[d] # "open"
                        /\ peer'[d] = "new" <=> peer[d] = "new"
  BY <1>1, <1>2 DEF TypeOK
<1>7. \A d \in Client : Waiting(d)' <=> Waiting(d)
  BY <1>3, <1>6 DEF Waiting
<1>8. \A f \in FD : Open(f) => owner[f] \in Client
  BY <1>1 DEF Open, TypeOK
<1>9. Owners'
  <2>1. \A a \in 1..Len(backlog) : backlog[a] \in Client
    BY <1>1 DEF TypeOK
  <2> QED  BY <1>1, <1>3, <1>4, <1>6, <1>7, <1>8, <2>1 DEF Owners, Open
<1>10. Framing'
  BY <1>1, <1>3, <1>4, <1>7 DEF Framing, BodyNext, MidMessage, Open
<1>11. Accounts'
  <2>1. \A d \in Client : Balanced(d)' <=> Balanced(d)
    BY <1>3, <1>4 DEF Balanced, CallsIn, InHand
  <2> QED  BY <1>1, <1>4, <1>7, <2>1 DEF Accounts
<1>12. CallsFew'
  BY <1>1, <1>3 DEF CallsFew
<1>13. \A f \in FD : Open(f) => /\ peer[owner[f]] = "closed" => peer'[owner[f]] = "closed"
                                /\ peer[owner[f]] # "open" => peer'[owner[f]] # "open"
                                /\ sock'[owner[f]] = sock[owner[f]]
  BY <1>3, <1>6, <1>8
<1> QED  BY <1>3, <1>5, <1>9, <1>10, <1>11, <1>12, <1>13, ClientMoves

(* Who writes has not written all there may be.                              *)
LEMMA RoomToWrite ==
  ASSUME TypeOK, NEW c \in Client, Cardinality(Begun) < MaxMsgs, ~MidMessage(c)
  PROVE  written[c] + 1 <= 2 * MaxMsgs
<1>1. MaxMsgs \in Nat /\ IsFiniteSet(Client) /\ written[c] \in 0..(2 * MaxMsgs)
  BY ServerAssumption DEF TypeOK
<1> SUFFICES ASSUME written[c] = 2 * MaxMsgs PROVE FALSE
  BY <1>1
<1> DEFINE own == {c} \X (1..MaxMsgs)
<1>2. own \subseteq Begun
  <2> SUFFICES ASSUME NEW n \in 1..MaxMsgs PROVE <<c, n>> \in Begun
    OBVIOUS
  <2>1. 2 * n - 1 <= written[c]
    BY <1>1
  <2> QED  BY <2>1 DEF Begun
<1>3. IsFiniteSet(1..MaxMsgs) /\ Cardinality(1..MaxMsgs) = MaxMsgs
  BY <1>1, FS_Interval
<1>4. IsFiniteSet({c}) /\ Cardinality({c}) = 1
  BY FS_Singleton
<1>5. IsFiniteSet(own) /\ Cardinality(own) = MaxMsgs
  <2> DEFINE one == {c}
             all == 1..MaxMsgs
  <2>1. IsFiniteSet(one) /\ Cardinality(one) = 1 /\ IsFiniteSet(all) /\ Cardinality(all) = MaxMsgs
    BY <1>3, <1>4
  <2>2. own = one \X all
    OBVIOUS
  <2> HIDE DEF one, all, own
  <2>3. IsFiniteSet(one \X all) /\ Cardinality(one \X all) = Cardinality(one) * Cardinality(all)
    BY <2>1, FS_Product
  <2>4. 1 * MaxMsgs = MaxMsgs
    BY <1>1
  <2> QED  BY <2>1, <2>2, <2>3, <2>4
<1>6. IsFiniteSet(Client \X (1..MaxMsgs)) /\ Begun \in SUBSET (Client \X (1..MaxMsgs))
  BY <1>1, <1>3, FS_Product DEF Begun
<1>7. IsFiniteSet(Begun) /\ Cardinality(Begun) \in Nat
  BY <1>6, FS_Subset, FS_CardinalityType
<1> HIDE DEF own
<1>8. Cardinality(own) <= Cardinality(Begun)
  BY <1>2, <1>7, FS_Subset
<1> QED  BY <1>1, <1>5, <1>7, <1>8

(* Half of an odd number is rounded down.                                    *)
LEMMA OddRoom ==
  ASSUME NEW n \in Nat, NEW m \in Nat, n % 2 = 1, 2 * m <= n
  PROVE  2 * (m + 1) <= n + 1
<1>1. 2 * m # n
  <2>1. (2 * m) % 2 = 0
    OBVIOUS
  <2> QED  BY <2>1
<1> QED  BY <1>1

(* Lengths and bodies still take turns after a write.                        *)
LEMMA AlternatesAppend ==
  ASSUME NEW S, NEW s \in Seq(S), NEW x \in S, Alternates(s),
         s # <<>> => (s[Len(s)] = "length" <=> x # "length")
  PROVE  Alternates(Append(s, x))
<1> DEFINE t == Append(s, x)
<1>1. /\ Len(s) \in Nat /\ Len(t) = Len(s) + 1 /\ t[Len(s) + 1] = x
      /\ \A k \in 1..Len(s) : t[k] = s[k]
  OBVIOUS
<1> HIDE DEF t
<1> SUFFICES ASSUME NEW k \in 1..(Len(t) - 1)
             PROVE  t[k] = "length" <=> t[k + 1] # "length"
  BY DEF Alternates, t
<1>2. k \in 1..Len(s) /\ Len(s) >= 1
  BY <1>1
<1>3. CASE k = Len(s)
  <2>1. s # <<>>
    BY <1>2
  <2> QED  BY <1>1, <1>2, <1>3, <2>1
<1>4. CASE k # Len(s)
  <2>1. k \in 1..(Len(s) - 1) /\ k + 1 \in 1..Len(s)
    BY <1>1, <1>2, <1>4
  <2> QED  BY <1>1, <1>2, <2>1 DEF Alternates
<1> QED  BY <1>3, <1>4

(* A client writes the half of a message that is due.                        *)
LEMMA WriteStep ==
  ASSUME IInv, mode = "run", NEW c \in Client, NEW x \in Kind \cup {"length"},
         x = "length" <=> ~MidMessage(c), written[c] + 1 <= 2 * MaxMsgs,
         sock' = [sock EXCEPT ![c] = Append(@, x)],
         written' = [written EXCEPT ![c] = @ + 1],
         calls' = [calls EXCEPT ![c] = @ + (IF x = "call" THEN 1 ELSE 0)],
         UNCHANGED <<manager, backlog, sigint, peer>>
  PROVE  IInv'
<1> DEFINE Item == Kind \cup {"length"}
           s == sock[c]
           t == sock'[c]
<1>1. TypeOK /\ CallsFew /\ Owners /\ Framing /\ Accounts
  BY Parts
<1>2. UNCHANGED <<mode, pc, i, pFDs, curMsgLen, msg, owner, replies>>
  BY DEF manager, table
<1>3. /\ sock \in [Client -> Seq(Item)] /\ written \in [Client -> 0..(2 * MaxMsgs)]
      /\ calls \in [Client -> 0..MaxMsgs] /\ s \in Seq(Item) /\ MaxMsgs \in Nat
      /\ written[c] \in Nat /\ calls[c] \in Nat
  <2>1. /\ sock \in [Client -> Seq(Item)] /\ written \in [Client -> 0..(2 * MaxMsgs)]
        /\ calls \in [Client -> 0..MaxMsgs] /\ s \in Seq(Item)
    BY <1>1 DEF TypeOK
  <2>2. MaxMsgs \in Nat
    BY ServerAssumption
  <2> QED  BY <2>1, <2>2
<1>4. /\ t = Append(s, x) /\ t \in Seq(Item) /\ sock' \in [Client -> Seq(Item)]
      /\ written'[c] = written[c] + 1 /\ calls'[c] = calls[c] + IF x = "call" THEN 1 ELSE 0
      /\ \A d \in Client : d # c => sock'[d] = sock[d] /\ written'[d] = written[d] /\ calls'[d] = calls[d]
  BY <1>3
<1>5. CallsFew'
  <2>1. 2 * calls'[c] <= written'[c]
    <3>1. 2 * calls[c] <= written[c]
      BY <1>1 DEF CallsFew
    <3>2. CASE x = "call"
      <4>1. written[c] % 2 = 1
        BY <3>2 DEF MidMessage
      <4>2. 2 * (calls[c] + 1) <= written[c] + 1
        BY <1>3, <3>1, <4>1, OddRoom
      <4> QED  BY <1>4, <3>2, <4>2
    <3>3. CASE x # "call"
      BY <1>3, <1>4, <3>1, <3>3
    <3> QED  BY <3>2, <3>3
  <2> QED  BY <1>1, <1>4, <2>1 DEF CallsFew
<1>6. written' \in [Client -> 0..(2 * MaxMsgs)] /\ calls' \in [Client -> 0..MaxMsgs]
  <2>1. written'[c] \in 0..(2 * MaxMsgs)
    BY <1>3, <1>4
  <2>2. calls'[c] \in Nat /\ 2 * calls'[c] <= written'[c]
    BY <1>3, <1>4, <1>5 DEF CallsFew
  <2>3. calls'[c] \in 0..MaxMsgs
    BY <1>3, <2>1, <2>2
  <2>4. written' = [written EXCEPT ![c] = written'[c]] /\ calls' = [calls EXCEPT ![c] = calls'[c]]
    BY <1>3
  <2> QED  BY <1>3, <2>1, <2>3, <2>4
<1>7. \A d \in Client : Waiting(d)' <=> Waiting(d)
  BY DEF Waiting
<1>8. MidMessage(c)' <=> ~MidMessage(c)
  BY <1>3, <1>4, Parity DEF MidMessage
<1>9. Alternates(t) /\ t # <<>> /\ t[Len(t)] = x
  <2>1. Alternates(s) /\ (s # <<>> => (s[Len(s)] = "length" <=> x # "length"))
    BY <1>1 DEF Framing
  <2>2. Alternates(Append(s, x))
    BY <1>3, <2>1, AlternatesAppend
  <2> HIDE DEF s, t
  <2> QED  BY <1>3, <1>4, <2>2
<1>10. \A d \in Client : BodyNext(d)' <=> BodyNext(d)
  <2> TAKE d \in Client
  <2>1. CASE d # c
    BY <1>4, <2>1 DEF BodyNext, MidMessage
  <2>2. CASE d = c /\ s = <<>>
    <3>1. t[1] = x
      BY <1>4, <2>2
    <3> QED  BY <1>9, <2>2, <3>1 DEF BodyNext
  <2>3. CASE d = c /\ s # <<>>
    <3>1. t[1] = s[1]
      BY <1>3, <1>4, <2>3
    <3> QED  BY <1>9, <2>3, <3>1 DEF BodyNext
  <2> QED  BY <2>1, <2>2, <2>3
<1>11. \A f \in FD : Open(f) => owner[f] \in Client
  BY <1>1 DEF Open, TypeOK
<1>12. Framing'
  <2>1. \A d \in Client : /\ Alternates(sock'[d])
                          /\ sock'[d] # <<>> => (sock'[d][Len(sock'[d])] = "length" <=> MidMessage(d)')
    <3> TAKE d \in Client
    <3>1. CASE d = c
      BY <1>8, <1>9, <3>1
    <3>2. CASE d # c
      BY <1>1, <1>4, <3>2 DEF Framing, MidMessage
    <3> QED  BY <3>1, <3>2
  <2>2. \A d \in Client : Waiting(d)' => ~BodyNext(d)'
    BY <1>1, <1>7, <1>10 DEF Framing
  <2>3. \A f \in FD : Open(f)' => (curMsgLen'[f] <=> BodyNext(owner[f])')
    BY <1>1, <1>2, <1>10, <1>11 DEF Framing, Open
  <2> QED  BY <1>2, <2>1, <2>2, <2>3 DEF Framing
<1>13. \A d \in Client : Balanced(d) => Balanced(d)'
  <2> TAKE d \in Client
  <2>1. CASE d = c
    <3>1. CallsIn(c) \in Nat /\ CallsIn(c)' = CallsIn(c) + IF x = "call" THEN 1 ELSE 0
      <4>1. CallsIn(c) = Cardinality(CallsOf(s)) /\ CallsIn(c)' = Cardinality(CallsOf(t))
        BY DEF CallsIn, CallsOf
      <4> HIDE DEF s, t
      <4> QED  BY <1>3, <1>4, <4>1, AppendCounts
    <3>2. InHand(c)' <=> InHand(c)
      BY <1>2 DEF InHand
    <3>3. replies[c] \in Nat
      BY <1>1 DEF TypeOK
    <3> QED  BY <1>2, <1>3, <1>4, <2>1, <3>1, <3>2, <3>3 DEF Balanced
  <2>2. CASE d # c
    BY <1>2, <1>4, <2>2 DEF Balanced, CallsIn, InHand
  <2> QED  BY <2>1, <2>2
<1>14. Accounts'
  BY <1>1, <1>2, <1>7, <1>13 DEF Accounts
<1>15. Owners'
  BY <1>1, <1>2, OwnersKept
<1>16. \A f \in FD : Open(f) => (sock[owner[f]] # <<>> => sock'[owner[f]] # <<>>)
  BY <1>4, <1>9, <1>11
<1>17. peer' \in [Client -> {"new", "open", "shut", "closed"}] /\ backlog' \in Seq(Client)
  BY <1>1 DEF TypeOK
<1> QED  BY <1>4, <1>5, <1>6, <1>12, <1>14, <1>15, <1>16, <1>17, ClientMoves

(* Both writes of writeObj are instances of the step above; the bound on     *)
(* messages leaves room for them.                                            *)
LEMMA WritesStep ==
  ASSUME IInv, mode = "run", NEW c \in Client, WriteLength(c) \/ WriteBody(c)
  PROVE  IInv'
<1>1. TypeOK
  BY Parts
<1>2. /\ calls \in [Client -> 0..MaxMsgs] /\ written[c] \in 0..(2 * MaxMsgs)
      /\ MaxMsgs \in Nat /\ written[c] \in Nat
  BY <1>1, ServerAssumption DEF TypeOK
<1>3. CASE WriteLength(c)
  <2>1. calls' = [calls EXCEPT ![c] = @ + (IF "length" = "call" THEN 1 ELSE 0)]
    <3>1. calls[c] + 0 = calls[c] /\ calls' = calls
      BY <1>2, <1>3 DEF WriteLength
    <3> QED  BY <1>2, <3>1
  <2>2. written[c] + 1 <= 2 * MaxMsgs
    BY <1>1, <1>3, RoomToWrite DEF WriteLength
  <2> QED  BY <1>3, <2>1, <2>2, WriteStep DEF WriteLength
<1>4. CASE WriteBody(c)
  <2>1. PICK k \in Kind : /\ sock' = [sock EXCEPT ![c] = Append(@, k)]
                          /\ calls' = [calls EXCEPT ![c] = @ + (IF k = "call" THEN 1 ELSE 0)]
    BY <1>4 DEF WriteBody
  <2>2. written[c] + 1 <= 2 * MaxMsgs
    <3>1. (2 * MaxMsgs) % 2 = 0
      BY <1>2
    <3>2. written[c] # 2 * MaxMsgs
      BY <1>4, <3>1 DEF WriteBody, MidMessage
    <3> QED  BY <1>2, <3>2
  <2>3. k # "length"
    BY DEF Kind
  <2> QED  BY <1>4, <2>1, <2>2, <2>3, WriteStep DEF WriteBody
<1> QED  BY <1>3, <1>4

(* SIGINT only raises the flag.                                              *)
LEMMA InterruptStep ==
  ASSUME IInv, Interrupt
  PROVE  IInv'
<1>1. TypeOK /\ CallsFew /\ Owners /\ Framing /\ Accounts /\ Tables /\ TurnState /\ ReportedEventIsTrue
  BY Parts
<1>2. sigint' = "flagged" /\ UNCHANGED <<manager, backlog, world>>
  BY DEF Interrupt
<1> USE DEF manager, world, table
<1>3. TypeOK'
  BY <1>1, <1>2 DEF TypeOK
<1>4. Framing' /\ Owners' /\ CallsFew' /\ TurnState' /\ ReportedEventIsTrue'
  BY <1>1, <1>2, FramingKept, OwnersKept DEF CallsFew, TurnState, ReportedEventIsTrue
<1>5. Tables'
  BY <1>1, <1>2 DEF Tables, Open
<1>6. Accounts'
  BY <1>1, <1>2 DEF Accounts, Balanced, CallsIn, InHand, Waiting
<1> QED  BY <1>3, <1>4, <1>5, <1>6 DEF IInv

-----------------------------------------------------------------------------
(* What the manager does for its clients.                                    *)

(* The scan is at the entry of an open connection, which no other descriptor *)
(* and no pending connect shares.                                            *)
LEMMA Served ==
  ASSUME IInv, NEW f \in FD, i \in DOMAIN pFDs, pFDs[i].fd = f
  PROVE  /\ f \in clientXprts /\ f # ListenFD /\ Open(f)
         /\ owner[f] \in Client /\ ~Waiting(owner[f])
         /\ \A g \in FD : g # f => owner[g] # owner[f]
         /\ \A k \in DOMAIN pFDs : k # i => pFDs[k].fd # f
<1>1. TypeOK /\ Tables /\ Owners
  BY Parts
<1>2. f # ListenFD
  BY ServerAssumption
<1>3. f \in fdSources
  BY <1>1 DEF Tables
<1>4. f \in clientXprts /\ Open(f) /\ (\A k \in DOMAIN pFDs : k # i => pFDs[k].fd # f)
  BY <1>1, <1>2, <1>3 DEF Tables
<1>5. owner[f] \in Client
  BY <1>1, <1>4 DEF Open, TypeOK
<1> QED  BY <1>1, <1>2, <1>4, <1>5 DEF Owners

(* doRecv takes the first item of the stream: a length is remembered, a body *)
(* handed on.                                                                *)
LEMMA ReceiveStep ==
  ASSUME IInv, NEW f \in FD, i \in DOMAIN pFDs, pFDs[i].fd = f, pc \in {"scan", "body"},
         mode = "run", mode' = "run", sock[owner[f]] # <<>>,
         sock' = [sock EXCEPT ![owner[f]] = Tail(@)],
         NEW b \in BOOLEAN, curMsgLen' = [curMsgLen EXCEPT ![f] = b],
         b <=> Head(sock[owner[f]]) = "length",
         IF b THEN pc' = "body" /\ msg' = "none" ELSE pc' = "handle" /\ msg' = Head(sock[owner[f]]),
         UNCHANGED <<i, shouldRun, sigint, table, socket, peer, written, calls, replies>>
  PROVE  IInv'
<1> DEFINE Item == Kind \cup {"length"}
           c == owner[f]
           s == sock[c]
           t == sock'[c]
<1>1. /\ TypeOK /\ CallsFew /\ Tables /\ Owners /\ TurnState /\ Framing /\ Accounts /\ ReportedEventIsTrue
      /\ pFDs \in Seq(Entries) /\ i \in Nat \ {0} /\ DOMAIN pFDs = 1..Len(pFDs)
  BY Parts
<1>2. /\ Open(f) /\ c \in Client /\ ~Waiting(c) /\ (\A g \in FD : g # f => owner[g] # c)
      /\ \A k \in DOMAIN pFDs : k # i => pFDs[k].fd # f
  BY Served
<1>3. UNCHANGED <<pFDs, fdSources, clientXprts, owner, backlog>>
  BY DEF table, socket
<1>4. sock \in [Client -> Seq(Item)] /\ s \in Seq(Item) /\ s # <<>> /\ curMsgLen \in [FD -> BOOLEAN]
  BY <1>1, <1>2 DEF TypeOK
<1>5. /\ sock' \in [Client -> Seq(Item)] /\ t = Tail(s) /\ (\A d \in Client : d # c => sock'[d] = sock[d])
      /\ curMsgLen' \in [FD -> BOOLEAN] /\ curMsgLen'[f] = b
      /\ \A g \in FD : g # f => curMsgLen'[g] = curMsgLen[g]
  BY <1>2, <1>4
<1>6. /\ Head(s) = s[1] /\ s[1] \in Item /\ Len(s) \in Nat \ {0} /\ Len(t) = Len(s) - 1
      /\ \A k \in 1..Len(t) : t[k] = s[k + 1]
  BY <1>4, <1>5
<1>7. ~b => s[1] \in Kind
  BY <1>6
<1>8. TypeOK'
  BY <1>1, <1>3, <1>5, <1>6, <1>7 DEF TypeOK
<1>9. Tables' /\ Owners' /\ CallsFew'
  BY <1>1, <1>3, TablesKept, OwnersKept DEF CallsFew
<1>10. TurnState'
  BY <1>1, <1>3, <1>5, <1>6, <1>7 DEF TurnState
<1>11. ReportedEventIsTrue'
  <2> SUFFICES ASSUME NEW k \in i..Len(pFDs), pFDs[k].fd \in FD
               PROVE  /\ "HUP" \in pFDs[k].revents => peer[owner[pFDs[k].fd]] = "closed"
                      /\ "IN" \in pFDs[k].revents /\ k > i =>
                           sock'[owner[pFDs[k].fd]] # <<>> \/ peer[owner[pFDs[k].fd]] # "open"
    BY <1>3 DEF ReportedEventIsTrue
  <2>1. k \in DOMAIN pFDs
    BY <1>1
  <2>2. "HUP" \in pFDs[k].revents => peer[owner[pFDs[k].fd]] = "closed"
    BY <1>1 DEF ReportedEventIsTrue
  <2>3. ASSUME "IN" \in pFDs[k].revents, k > i
        PROVE  sock'[owner[pFDs[k].fd]] # <<>> \/ peer[owner[pFDs[k].fd]] # "open"
    <3>1. pFDs[k].fd # f
      BY <1>1, <1>2, <2>1, <2>3
    <3>2. owner[pFDs[k].fd] # c
      BY <1>2, <3>1
    <3>3. sock'[owner[pFDs[k].fd]] = sock[owner[pFDs[k].fd]]
      BY <1>4, <3>2
    <3> QED  BY <1>1, <2>3, <3>3 DEF ReportedEventIsTrue
  <2> QED  BY <2>2, <2>3
<1>12. Alternates(t) /\ (t # <<>> => (t[Len(t)] = "length" <=> MidMessage(c)))
  <2>1. Alternates(s) /\ (s[Len(s)] = "length" <=> MidMessage(c))
    BY <1>1, <1>2, <1>4 DEF Framing
  <2> HIDE DEF s, t
  <2>2. Alternates(t)
    <3> SUFFICES ASSUME NEW k \in 1..(Len(t) - 1) PROVE t[k] = "length" <=> t[k + 1] # "length"
      BY DEF Alternates
    <3>1. k \in 1..Len(t) /\ k + 1 \in 1..Len(t) /\ k + 1 \in 1..(Len(s) - 1)
      BY <1>6
    <3> QED  BY <1>6, <2>1, <3>1 DEF Alternates
  <2>3. ASSUME t # <<>> PROVE t[Len(t)] = s[Len(s)]
    <3>1. Len(t) \in 1..Len(t) /\ Len(t) + 1 = Len(s)
      BY <1>4, <1>5, <1>6, <2>3
    <3> QED  BY <1>6, <3>1
  <2> QED  BY <2>1, <2>2, <2>3
<1>13. BodyNext(c)' <=> b
  <2>1. Alternates(s) /\ (s[Len(s)] = "length" <=> MidMessage(c))
    BY <1>1, <1>2, <1>4 DEF Framing
  <2>2. CASE t = <<>>
    <3>1. Len(s) = 1
      <4>1. Len(t) = 0
        BY <2>2
      <4> HIDE DEF s, t
      <4> QED  BY <1>6, <4>1
    <3> QED  BY <1>3, <1>6, <2>1, <2>2, <3>1 DEF BodyNext, MidMessage
  <2>3. CASE t # <<>>
    <3>1. 1 \in 1..Len(t) /\ 1 \in 1..(Len(s) - 1) /\ 1 + 1 = 2
      <4> HIDE DEF s, t
      <4> QED  BY <1>4, <1>5, <1>6, <2>3
    <3>2. t[1] = s[2] /\ (s[1] = "length" <=> s[2] # "length")
      BY <1>6, <2>1, <3>1 DEF Alternates
    <3> QED  BY <1>3, <1>6, <2>3, <3>2 DEF BodyNext
  <2> QED  BY <2>2, <2>3
<1>14. Framing'
  <2>1. \A d \in Client : Waiting(d)' <=> Waiting(d)
    BY <1>3 DEF Waiting
  <2>2. \A d \in Client : d # c => (BodyNext(d)' <=> BodyNext(d))
    BY <1>5 DEF BodyNext, MidMessage
  <2>3. \A d \in Client : /\ Alternates(sock'[d])
                          /\ sock'[d] # <<>> => (sock'[d][Len(sock'[d])] = "length" <=> MidMessage(d)')
                          /\ Waiting(d)' => ~BodyNext(d)'
    <3> TAKE d \in Client
    <3>1. CASE d = c
      BY <1>2, <1>12, <2>1, <3>1 DEF MidMessage
    <3>2. CASE d # c
      BY <1>1, <1>5, <2>1, <2>2, <3>2 DEF Framing, MidMessage
    <3> QED  BY <3>1, <3>2
  <2>4. \A g \in FD : Open(g)' => (curMsgLen'[g] <=> BodyNext(owner[g])')
    <3> TAKE g \in FD
    <3>1. CASE g = f
      BY <1>5, <1>13, <3>1, <1>3
    <3>2. CASE g # f /\ Open(g)
      <4>1. owner[g] \in Client /\ owner[g] # c
        BY <1>1, <1>2, <3>2 DEF Open, TypeOK
      <4> QED  BY <1>1, <1>3, <1>5, <2>2, <3>2, <4>1 DEF Framing
    <3> QED  BY <1>3, <3>1, <3>2 DEF Open
  <2> QED  BY <1>3, <2>3, <2>4 DEF Framing
<1>15. Accounts'
  <2>1. \A d \in Client : Balanced(d) => Balanced(d)'
    <3> TAKE d \in Client
    <3>1. CASE d = c
      <4>1. CallsIn(c) = CallsIn(c)' + IF s[1] = "call" THEN 1 ELSE 0
        <5>1. CallsIn(c) = Cardinality(CallsOf(s)) /\ CallsIn(c)' = Cardinality(CallsOf(t))
          BY <1>3 DEF CallsIn, CallsOf
        <5> HIDE DEF s, t
        <5> QED  BY <1>4, <1>5, <5>1, TailCounts
      <4>2. ~InHand(c) /\ (InHand(c)' <=> s[1] = "call")
        BY <1>3, <1>6 DEF InHand
      <4>3. CallsIn(c)' \in Nat /\ replies[c] \in Nat
        <5>1. t \in Seq(Item) /\ replies[c] \in Nat
          BY <1>1, <1>2, <1>5 DEF TypeOK
        <5> HIDE DEF t
        <5>2. Len(t) \in Nat /\ DOMAIN t = 1..Len(t)
          BY <5>1
        <5>3. IsFiniteSet(1..Len(t)) /\ CallsOf(t) \in SUBSET (1..Len(t))
          BY <5>2, FS_Interval DEF CallsOf
        <5>4. Cardinality(CallsOf(t)) \in Nat
          BY <5>3, FS_Subset, FS_CardinalityType
        <5> QED  BY <1>3, <5>1, <5>4 DEF CallsIn, CallsOf, t
      <4> QED  BY <1>3, <3>1, <4>1, <4>2, <4>3 DEF Balanced
    <3>2. CASE d # c
      <4>1. CallsIn(d)' = CallsIn(d) /\ ~InHand(d) /\ ~InHand(d)'
        BY <1>3, <1>5, <3>2 DEF CallsIn, InHand
      <4> QED  BY <4>1 DEF Balanced
    <3> QED  BY <3>1, <3>2
  <2> QED  BY <1>1, <1>3, <2>1 DEF Accounts, Waiting
<1> QED  BY <1>8, <1>9, <1>10, <1>11, <1>14, <1>15 DEF IInv

(* doRecv, first half: the length is taken, unless it was before.            *)
LEMMA ReadLengthStep ==
  ASSUME IInv, NEW f \in FD, ReadLength(f)
  PROVE  IInv'
<1>1. /\ TypeOK /\ CallsFew /\ Tables /\ Owners /\ TurnState /\ Framing /\ Accounts /\ ReportedEventIsTrue
      /\ pFDs \in Seq(Entries) /\ i \in Nat \ {0} /\ DOMAIN pFDs = 1..Len(pFDs)
  BY Parts
<1>2. Running /\ pc = "scan" /\ i <= Len(pFDs) /\ pFDs[i].fd = f /\ pc' = "body"
  BY DEF ReadLength, Turn
<1>3. i \in DOMAIN pFDs
  BY <1>1, <1>2
<1>4. Open(f) /\ owner[f] \in Client
  BY <1>2, <1>3, Served
<1>5. UNCHANGED <<i, shouldRun, sigint, table, msg, socket, peer, written, calls, replies>>
  BY DEF ReadLength
<1>6. msg' = "none"
  BY <1>1, <1>2, <1>5 DEF TurnState
<1>7. CASE curMsgLen[f] /\ UNCHANGED <<curMsgLen, sock>>
  <2> USE DEF table, socket
  <2>1. TypeOK'
    BY <1>1, <1>2, <1>5, <1>7 DEF TypeOK, Running
  <2>2. Tables' /\ Owners' /\ CallsFew' /\ Framing'
    BY <1>1, <1>5, <1>7, TablesKept, OwnersKept, FramingKept DEF CallsFew
  <2>3. TurnState'
    BY <1>1, <1>2, <1>3, <1>5, <1>6, <1>7 DEF TurnState
  <2>4. ReportedEventIsTrue'
    BY <1>1, <1>2, <1>5, <1>7 DEF ReportedEventIsTrue
  <2>5. Accounts'
    BY <1>1, <1>2, <1>5, <1>7, AccountsKept DEF Running
  <2> QED  BY <2>1, <2>2, <2>3, <2>4, <2>5 DEF IInv
<1>8. CASE /\ ~curMsgLen[f] /\ sock[owner[f]] # <<>>
           /\ curMsgLen' = [curMsgLen EXCEPT ![f] = TRUE]
           /\ sock' = [sock EXCEPT ![owner[f]] = Tail(@)]
  <2>1. sock[owner[f]] \in Seq(Kind \cup {"length"})
    BY <1>1, <1>4 DEF TypeOK
  <2>2. ~BodyNext(owner[f])
    BY <1>1, <1>4, <1>8 DEF Framing
  <2>3. Head(sock[owner[f]]) = "length"
    BY <1>8, <2>1, <2>2 DEF BodyNext
  <2> QED  BY <1>2, <1>3, <1>5, <1>6, <1>8, <2>3, ReceiveStep DEF Running
<1> QED  BY <1>7, <1>8 DEF ReadLength

(* doRecv, second half: a transport that has a length finds a body.          *)
LEMMA ReadBodyStep ==
  ASSUME IInv, NEW f \in FD, ReadBody(f)
  PROVE  IInv'
<1>1. TypeOK /\ TurnState /\ Framing
  BY Parts
<1>2. Running /\ pc = "body" /\ pFDs[i].fd = f /\ sock[owner[f]] # <<>>
  BY DEF ReadBody
<1>3. i \in DOMAIN pFDs /\ curMsgLen[f]
  BY <1>1, <1>2 DEF TurnState
<1>4. Open(f) /\ owner[f] \in Client
  BY <1>2, <1>3, Served
<1>5. sock[owner[f]] \in Seq(Kind \cup {"length"})
  BY <1>1, <1>4 DEF TypeOK
<1>6. BodyNext(owner[f])
  BY <1>1, <1>3, <1>4 DEF Framing
<1>7. Head(sock[owner[f]]) # "length"
  BY <1>2, <1>5, <1>6 DEF BodyNext
<1>8. /\ sock' = [sock EXCEPT ![owner[f]] = Tail(@)] /\ curMsgLen' = [curMsgLen EXCEPT ![f] = FALSE]
      /\ pc' = "handle" /\ msg' = Head(sock[owner[f]])
      /\ UNCHANGED <<i, shouldRun, sigint, table, socket, peer, written, calls, replies>>
  BY DEF ReadBody, Received
<1> QED  BY <1>2, <1>3, <1>7, <1>8, ReceiveStep DEF Running

(* The end of a connection in the middle of a message, or before one.        *)
LEMMA StreamEndsStep ==
  ASSUME IInv, NEW f \in FD, ReadBodyEnds(f) \/ ReadLengthAborts(f)
  PROVE  IInv'
<1>1. TypeOK /\ TurnState /\ Accounts
  BY Parts
<1>2. CASE ReadBodyEnds(f)
  <2>1. /\ Running /\ pc = "body" /\ EndTurn(pFDs) /\ pc' = "scan"
        /\ UNCHANGED <<shouldRun, sigint, fdSources, clientXprts, curMsgLen, msg, socket, world, replies>>
    BY <1>2 DEF ReadBodyEnds
  <2>2. msg' = "none" /\ replies' \in [Client -> Nat]
    BY <1>1, <2>1 DEF TurnState, TypeOK
  <2>3. Accounts'
    BY <1>1, <2>1, AccountsKept DEF Running, socket, world
  <2> QED  BY <2>1, <2>2, <2>3, TurnEnds DEF Running
<1>3. CASE ReadLengthAborts(f)
  <2>1. shouldRun' \in BOOLEAN /\ sigint' \in {"no", "flagged", "lost", "seen"}
    BY <1>1, <1>3 DEF ReadLengthAborts, TypeOK
  <2> QED  BY <1>3, <2>1, LoopMoves DEF ReadLengthAborts, Turn
<1> QED  BY <1>2, <1>3

(* A call in hand is answered once.                                          *)
LEMMA ProcessMessageStep ==
  ASSUME IInv, NEW f \in FD, ProcessMessage(f)
  PROVE  IInv'
<1> DEFINE c == owner[f]
<1>1. TypeOK /\ TurnState /\ Accounts
  BY Parts
<1>2. /\ mode = "run" /\ pc = "handle" /\ pFDs[i].fd = f /\ msg' = "none" /\ EndTurn(pFDs) /\ pc' = "scan"
      /\ UNCHANGED <<shouldRun, sigint, fdSources, clientXprts, curMsgLen, socket, world>>
  BY DEF ProcessMessage
<1>3. i \in DOMAIN pFDs
  BY <1>1, <1>2 DEF TurnState
<1>4. c \in Client
  BY <1>2, <1>3, Served
<1>5. replies \in [Client -> Nat] /\ calls \in [Client -> 0..MaxMsgs]
  BY <1>1 DEF TypeOK
<1>6. UNCHANGED <<sock, calls, peer, owner, backlog>>
  BY <1>2 DEF socket, world
<1>7. CASE msg = "call" /\ mode' = "sigpipe" /\ UNCHANGED replies
  <2>1. Accounts'
    BY <1>7 DEF Accounts
  <2> QED  BY <1>2, <1>5, <1>7, <2>1, TurnEnds
<1>8. ASSUME mode' = mode, replies' = IF msg = "call" THEN [replies EXCEPT ![c] = @ + 1] ELSE replies
      PROVE  IInv'
  <2>1. replies' \in [Client -> Nat]
    <3>1. replies[c] + 1 \in Nat
      BY <1>4, <1>5
    <3> QED  BY <1>5, <1>8, <3>1
  <2>2. \A d \in Client : Balanced(d) => Balanced(d)'
    <3> TAKE d \in Client
    <3>1. CallsIn(d)' = CallsIn(d) /\ ~InHand(d)'
      BY <1>2, <1>6 DEF CallsIn, InHand
    <3>2. InHand(d) <=> msg = "call" /\ d = c
      BY <1>2 DEF InHand
    <3>3. replies'[d] = replies[d] + IF InHand(d) THEN 1 ELSE 0
      BY <1>4, <1>5, <1>8, <3>2
    <3>4. CallsIn(d) \in Nat
      <4>1. sock[d] \in Seq(Kind \cup {"length"}) /\ "call" \in Kind \cup {"length"}
        BY <1>1 DEF TypeOK, Kind
      <4>2. Cardinality(CallsOf(sock[d])) \in Nat
        BY <4>1, AppendCounts
      <4> QED  BY <4>2 DEF CallsIn, CallsOf
    <3>5. replies[d] \in Nat
      BY <1>5
    <3> QED  BY <1>6, <3>1, <3>3, <3>4, <3>5 DEF Balanced
  <2>3. Accounts'
    BY <1>1, <1>6, <1>8, <2>2 DEF Accounts, Waiting
  <2> QED  BY <1>2, <1>8, <2>1, <2>3, TurnEnds
<1> QED  BY <1>2, <1>7, <1>8 DEF ProcessMessage, Answered

(* RemoveAt leaves out one element and closes the gap.                       *)
LEMMA RemoveAtProperties ==
  ASSUME NEW S, NEW s \in Seq(S), NEW p \in 1..Len(s)
  PROVE  /\ RemoveAt(s, p) \in Seq(S)
         /\ Len(RemoveAt(s, p)) = Len(s) - 1
         /\ \A j \in 1..(Len(s) - 1) : RemoveAt(s, p)[j] = IF j < p THEN s[j] ELSE s[j + 1]
<1> DEFINE a == SubSeq(s, 1, p - 1)
           b == SubSeq(s, p + 1, Len(s))
<1>1. /\ a \in Seq(S) /\ Len(a) = p - 1
      /\ \A j \in 1..(p - 1) : a[j] = s[j]
  BY SubSeqProperties
<1>2. /\ b \in Seq(S) /\ Len(b) = Len(s) - p
      /\ \A j \in 1..(Len(s) - p) : b[j] = s[p + j]
  BY SubSeqProperties
<1>3. RemoveAt(s, p) = a \o b
  BY DEF RemoveAt
<1>4. a \in Seq(S) /\ b \in Seq(S)
  BY <1>1, <1>2
<1> HIDE DEF a, b
<1>5. /\ a \o b \in Seq(S)
      /\ Len(a \o b) = Len(a) + Len(b)
      /\ \A j \in 1..(Len(a) + Len(b)) : (a \o b)[j] = IF j <= Len(a) THEN a[j] ELSE b[j - Len(a)]
  BY <1>4
<1> QED  BY <1>1, <1>2, <1>3, <1>5

(* delFD takes out the entry the scan is at: no other has the descriptor.    *)
LEMMA delFDEffect ==
  ASSUME IInv, NEW f \in FD, i \in DOMAIN pFDs, pFDs[i].fd = f
  PROVE  delFD(f) = RemoveAt(pFDs, i)
<1>1. pFDs \in Seq(Entries) /\ DOMAIN pFDs = 1..Len(pFDs) /\ i \in Nat
  BY Parts
<1>2. {k \in 1..Len(pFDs) : pFDs[k].fd = f} = {i}
  BY <1>1, Served
<1>3. Min({i}) = i
  BY <1>1 DEF Min
<1>4. SelectInSeq(pFDs, LAMBDA e : e.fd = f) = i
  BY <1>2, <1>3 DEF SelectInSeq
<1>5. \E k \in 1..Len(pFDs) : pFDs[k].fd = f
  BY <1>1
<1> QED  BY <1>4, <1>5 DEF delFD, RemoveFirstMatch

(* A client that hung up is dropped; the entries behind it move up.          *)
LEMMA DropClientStep ==
  ASSUME IInv, NEW f \in FD, DropClient(f)
  PROVE  IInv'
<1> DEFINE t == RemoveAt(pFDs, i)
           n == Len(pFDs)
<1>1. /\ TypeOK /\ CallsFew /\ Tables /\ Owners /\ TurnState /\ Framing /\ Accounts /\ ReportedEventIsTrue
      /\ pFDs \in Seq(Entries) /\ i \in Nat \ {0} /\ n \in Nat /\ DOMAIN pFDs = 1..n
  BY Parts
<1>2. /\ Running /\ pc = "scan" /\ i <= n /\ pFDs[i].fd = f
      /\ EndTurn(delFD(f)) /\ fdSources' = fdSources \ {f}
      /\ clientXprts' = clientXprts \ {f} /\ owner' = [owner EXCEPT ![f] = None]
      /\ UNCHANGED <<pc, shouldRun, sigint, curMsgLen, msg, backlog, world, replies>>
  BY DEF DropClient, Turn
<1>3. UNCHANGED <<peer, sock, written, calls>>
  BY <1>2 DEF world
<1>4. i \in 1..n
  BY <1>1, <1>2
<1>5. f # ListenFD /\ \A k \in 1..n : k # i => pFDs[k].fd # f
  BY <1>1, <1>2, <1>4, Served
<1>6. /\ t \in Seq(Entries) /\ Len(t) = n - 1
      /\ \A k \in 1..(n - 1) : t[k] = IF k < i THEN pFDs[k] ELSE pFDs[k + 1]
  BY <1>1, <1>4, RemoveAtProperties
<1>7. EndTurn(t)
  BY <1>1, <1>2, <1>4, delFDEffect
<1> HIDE DEF t
<1>8. /\ pFDs' \in Seq(Entries) /\ Len(pFDs') = n - 1 /\ i' = i + 1 /\ i' \in Nat \ {0}
      /\ \A k \in 1..(n - 1) : pFDs'[k].fd = t[k].fd /\ (k # i => pFDs'[k] = t[k])
  BY <1>1, <1>6, <1>7, EndTurnEffect
<1>9. DOMAIN pFDs' = 1..(n - 1)
  BY <1>8
<1> DEFINE Old(k) == IF k < i THEN k ELSE k + 1
<1>10. \A k \in 1..(n - 1) : Old(k) \in 1..n /\ Old(k) # i /\ pFDs'[k].fd = pFDs[Old(k)].fd
  BY <1>1, <1>4, <1>6, <1>8
<1>11. owner \in [FD -> Client \cup {None}] /\ owner'[f] = None /\ \A g \in FD : g # f => owner'[g] = owner[g]
  BY <1>1, <1>2 DEF TypeOK
<1>12. Tables'
  <2>1. {pFDs'[k].fd : k \in 1..(n - 1)} = {pFDs[k].fd : k \in 1..n} \ {f}
    <3>1. ASSUME NEW k \in 1..(n - 1) PROVE pFDs'[k].fd \in {pFDs[l].fd : l \in 1..n} \ {f}
      BY <1>5, <1>10
    <3>2. ASSUME NEW k \in 1..n, pFDs[k].fd # f PROVE \E l \in 1..(n - 1) : pFDs'[l].fd = pFDs[k].fd
      <4>1. CASE k < i
        <5>1. k \in 1..(n - 1) /\ Old(k) = k
          BY <1>1, <1>4, <4>1
        <5> QED  BY <1>10, <5>1
      <4>2. CASE k > i
        <5>1. k - 1 \in 1..(n - 1) /\ Old(k - 1) = k
          BY <1>1, <1>4, <4>2
        <5> QED  BY <1>10, <5>1
      <4> QED  BY <1>1, <1>2, <3>2, <4>1, <4>2
    <3> QED  BY <3>1, <3>2
  <2>2. \A k, l \in 1..(n - 1) : Old(k) = Old(l) => k = l
    BY <1>1
  <2>3. \A k, l \in 1..n : pFDs[k].fd = pFDs[l].fd => k = l
    BY <1>1 DEF Tables
  <2> HIDE DEF Old
  <2>4. \A k, l \in DOMAIN pFDs' : pFDs'[k].fd = pFDs'[l].fd => k = l
    BY <1>9, <1>10, <2>2, <2>3
  <2>5. {pFDs'[k].fd : k \in DOMAIN pFDs'} = fdSources'
    BY <1>1, <1>2, <1>9, <2>1 DEF Tables
  <2>6. ListenFD \in fdSources' /\ fdSources' \subseteq clientXprts' \cup {ListenFD}
    BY <1>1, <1>2, <1>5 DEF Tables
  <2>7. clientXprts' = {g \in FD : Open(g)'}
    <3>1. \A g \in FD : Open(g)' <=> Open(g) /\ g # f
      BY <1>11 DEF Open
    <3>2. clientXprts = {g \in FD : Open(g)}
      BY <1>1 DEF Tables
    <3> QED  BY <1>2, <3>1, <3>2
  <2> QED  BY <2>4, <2>5, <2>6, <2>7 DEF Tables
<1>13. TypeOK'
  BY <1>1, <1>2, <1>3, <1>8 DEF TypeOK, Entries, Running
<1>14. Owners' /\ CallsFew' /\ TurnState'
  <2>1. \A d \in Client : Waiting(d)' <=> Waiting(d)
    BY <1>2, <1>3 DEF Waiting
  <2>2. \A g \in FD : Open(g) => owner[g] \in Client
    BY <1>1 DEF Open, TypeOK
  <2>3. Owners'
    BY <1>1, <1>2, <1>3, <1>11, <2>1, <2>2 DEF Owners, Open
  <2> QED  BY <1>1, <1>2, <1>3, <2>3 DEF CallsFew, TurnState
<1>15. Framing'
  BY <1>1, <1>2, <1>3, <1>11 DEF Framing, BodyNext, MidMessage, Waiting, Open
<1>16. ReportedEventIsTrue'
  <2> SUFFICES ASSUME NEW k \in (i + 1)..(n - 1), pFDs'[k].fd \in FD
               PROVE  /\ "HUP" \in pFDs'[k].revents => peer[owner'[pFDs'[k].fd]] = "closed"
                      /\ "IN" \in pFDs'[k].revents =>
                           sock[owner'[pFDs'[k].fd]] # <<>> \/ peer[owner'[pFDs'[k].fd]] # "open"
    BY <1>3, <1>8 DEF ReportedEventIsTrue
  <2>1. k \in 1..(n - 1) /\ k # i /\ ~(k < i) /\ k + 1 \in i..n /\ k + 1 > i /\ k + 1 \in 1..n /\ k + 1 # i
    BY <1>1, <1>4
  <2>2. pFDs'[k] = pFDs[k + 1] /\ pFDs[k + 1].fd # f
    BY <1>5, <1>6, <1>8, <2>1
  <2>3. owner'[pFDs'[k].fd] = owner[pFDs[k + 1].fd]
    BY <1>11, <2>2
  <2> QED  BY <1>1, <1>2, <2>1, <2>2, <2>3 DEF ReportedEventIsTrue
<1>17. Accounts'
  <2>1. \A d \in Client : Balanced(d)' <=> Balanced(d)
    BY <1>2, <1>3 DEF Balanced, CallsIn, InHand
  <2>2. \A d \in Client : Waiting(d)' => Waiting(d)
    BY <1>2, <1>3 DEF Waiting
  <2>3. \A d \in Client : (\E g \in FD : owner'[g] = d) => \E g \in FD : owner[g] = d
    BY <1>11, ServerAssumption
  <2> QED  BY <1>1, <1>2, <2>1, <2>2, <2>3 DEF Accounts, Running
<1> QED  BY <1>12, <1>13, <1>14, <1>15, <1>16, <1>17 DEF IInv

(* A pending connect becomes a transport, watched unless addFD fails.        *)
LEMMA AcceptStep ==
  ASSUME IInv, Accept
  PROVE  IInv'
<1> DEFINE n == Len(pFDs)
<1>1. /\ TypeOK /\ CallsFew /\ Tables /\ Owners /\ TurnState /\ Framing /\ Accounts /\ ReportedEventIsTrue
      /\ pFDs \in Seq(Entries) /\ i \in Nat \ {0} /\ n \in Nat /\ DOMAIN pFDs = 1..n
  BY Parts
<1>2. /\ mode = "run" /\ mode' \in {"run", "dangling"} /\ pc = "scan" /\ i <= n /\ backlog # <<>> /\ backlog' = Tail(backlog)
      /\ UNCHANGED <<pc, shouldRun, sigint, msg, world, replies>>
  BY DEF Accept, Turn
<1>3. PICK c \in Client : c = Head(backlog)
  <2>1. backlog \in Seq(Client)
    BY <1>1 DEF TypeOK
  <2> QED  BY <1>2, <2>1
<1>4. PICK f \in FD :
        /\ ~Open(f) /\ owner' = [owner EXCEPT ![f] = c] /\ clientXprts' = clientXprts \cup {f}
        /\ curMsgLen' = [curMsgLen EXCEPT ![f] = FALSE]
        /\ \/ EndTurn(Append(pFDs, NewEntry(f))) /\ fdSources' = fdSources \cup {f}
           \/ EndTurn(pFDs) /\ fdSources' = fdSources
  BY <1>3 DEF Accept
<1>5. UNCHANGED <<peer, sock, written, calls>>
  BY <1>2 DEF world
<1>6. f # ListenFD /\ f \notin clientXprts /\ f \notin fdSources
  <2>1. f # ListenFD
    BY ServerAssumption
  <2>2. f \notin clientXprts
    BY <1>1, <1>4 DEF Tables
  <2> QED  BY <1>1, <2>1, <2>2 DEF Tables
<1>7. \A k \in 1..n : pFDs[k].fd \in fdSources
  BY <1>1 DEF Tables
<1>8. /\ NewEntry(f) \in Entries /\ NewEntry(f).fd = f /\ NewEntry(f).revents = {}
  BY DEF NewEntry, Entries
<1>9. PICK t \in Seq(Entries) :
        /\ EndTurn(t) /\ (\A k \in 1..n : t[k] = pFDs[k])
        /\ \/ Len(t) = n /\ fdSources' = fdSources
           \/ Len(t) = n + 1 /\ t[n + 1] = NewEntry(f) /\ fdSources' = fdSources \cup {f}
  <2>1. CASE EndTurn(Append(pFDs, NewEntry(f))) /\ fdSources' = fdSources \cup {f}
    <3> DEFINE e == NewEntry(f)
    <3> HIDE DEF e
    <3>1. e \in Entries
      BY <1>8 DEF e
    <3>2. /\ Append(pFDs, e) \in Seq(Entries) /\ Len(Append(pFDs, e)) = n + 1 /\ Append(pFDs, e)[n + 1] = e
          /\ \A k \in 1..n : Append(pFDs, e)[k] = pFDs[k]
      BY <1>1, <3>1
    <3> QED  BY <2>1, <3>2 DEF e
  <2>2. CASE EndTurn(pFDs) /\ fdSources' = fdSources
    BY <1>1, <2>2
  <2> QED  BY <1>4, <2>1, <2>2
<1>10. /\ pFDs' \in Seq(Entries) /\ Len(pFDs') = Len(t) /\ i' = i + 1 /\ i' \in Nat \ {0}
      /\ \A k \in 1..Len(t) : pFDs'[k].fd = t[k].fd /\ (k # i => pFDs'[k] = t[k])
  BY <1>1, <1>9, EndTurnEffect
<1>11. DOMAIN pFDs' = 1..Len(t)
  BY <1>10
<1>12. /\ backlog \in Seq(Client) /\ backlog' \in Seq(Client) /\ c \in Client /\ c = backlog[1] /\ c # None
       /\ Len(backlog) \in Nat \ {0} /\ Len(backlog') = Len(backlog) - 1
       /\ \A a \in 1..(Len(backlog) - 1) : backlog'[a] = backlog[a + 1]
  <2>1. backlog \in Seq(Client)
    BY <1>1 DEF TypeOK
  <2>2. backlog' \in Seq(Client) /\ c \in Client /\ c = backlog[1]
       /\ Len(backlog) \in Nat \ {0} /\ Len(backlog') = Len(backlog) - 1
       /\ \A a \in 1..(Len(backlog) - 1) : backlog'[a] = backlog[a + 1]
    BY <1>2, <1>3, <2>1
  <2> QED  BY <2>1, <2>2, ServerAssumption
<1>13. \A a \in 1..Len(backlog') : a + 1 \in 1..Len(backlog) /\ a + 1 # 1 /\ backlog'[a] = backlog[a + 1]
  BY <1>12
<1>14. Waiting(c) /\ ~Waiting(c)'
  <2>1. 1 \in 1..Len(backlog)
    BY <1>12
  <2>2. peer[c] # "new" /\ \A a \in 1..Len(backlog') : backlog'[a] # c
    BY <1>1, <1>12, <1>13, <2>1 DEF Owners
  <2> QED  BY <1>5, <1>12, <2>1, <2>2 DEF Waiting
<1>15. \A d \in Client : Waiting(d)' => Waiting(d)
  BY <1>5, <1>13 DEF Waiting
<1>16. \A g \in FD : owner[g] # c
  BY <1>1, <1>12, <1>14 DEF Owners, Open
<1>17. /\ owner \in [FD -> Client \cup {None}] /\ owner'[f] = c
       /\ \A g \in FD : g # f => owner'[g] = owner[g]
  BY <1>1, <1>4 DEF TypeOK
<1>18. TypeOK'
  <2>1. /\ curMsgLen' \in [FD -> BOOLEAN] /\ owner' \in [FD -> Client \cup {None}] /\ clientXprts' \subseteq FD
        /\ fdSources' \subseteq FD \cup {ListenFD}
    BY <1>1, <1>4, <1>12 DEF TypeOK
  <2> QED  BY <1>1, <1>2, <1>5, <1>10, <1>12, <2>1 DEF TypeOK, Entries
<1>19. Tables'
  <2>1. clientXprts' = {g \in FD : Open(g)'}
    <3>1. \A g \in FD : Open(g)' <=> Open(g) \/ g = f
      BY <1>12, <1>17 DEF Open
    <3>2. clientXprts = {g \in FD : Open(g)}
      BY <1>1 DEF Tables
    <3> QED  BY <1>4, <3>1, <3>2
  <2>2. ListenFD \in fdSources' /\ fdSources' \subseteq clientXprts' \cup {ListenFD}
    BY <1>1, <1>4 DEF Tables
  <2>3. /\ {pFDs[k].fd : k \in 1..n} = fdSources
        /\ \A k, l \in 1..n : pFDs[k].fd = pFDs[l].fd => k = l
    BY <1>1 DEF Tables
  <2>4. CASE Len(t) = n /\ fdSources' = fdSources
    <3>1. \A k \in 1..n : pFDs'[k].fd = pFDs[k].fd
      BY <1>9, <1>10, <2>4
    <3>2. {pFDs'[k].fd : k \in 1..n} = {pFDs[k].fd : k \in 1..n}
      BY <3>1
    <3> QED  BY <1>11, <2>1, <2>2, <2>3, <2>4, <3>1, <3>2 DEF Tables
  <2>5. CASE Len(t) = n + 1 /\ t[n + 1] = NewEntry(f) /\ fdSources' = fdSources \cup {f}
    <3>1. \A k \in 1..(n + 1) : k \in 1..n \/ k = n + 1
      BY <1>1
    <3>2. n + 1 \in 1..(n + 1) /\ \A k \in 1..n : k \in 1..(n + 1)
      BY <1>1
    <3>3. (\A k \in 1..n : pFDs'[k].fd = pFDs[k].fd) /\ pFDs'[n + 1].fd = f
      BY <1>8, <1>9, <1>10, <2>5, <3>2
    <3>4. {pFDs'[k].fd : k \in 1..(n + 1)} = {pFDs[k].fd : k \in 1..n} \cup {f}
      BY <3>1, <3>2, <3>3
    <3>5. \A k, l \in 1..(n + 1) : pFDs'[k].fd = pFDs'[l].fd => k = l
      BY <1>6, <1>7, <2>3, <3>1, <3>3
    <3> QED  BY <1>11, <2>1, <2>2, <2>3, <2>5, <3>4, <3>5 DEF Tables
  <2> QED  BY <1>9, <2>4, <2>5
<1>20. Owners'
  <2>1. \A a, b \in 1..Len(backlog') : backlog'[a] = backlog'[b] => a = b
    <3>1. \A a, b \in 1..Len(backlog') : backlog'[a] = backlog'[b] => a + 1 = b + 1
      BY <1>1, <1>13 DEF Owners
    <3>2. \A a, b \in 1..Len(backlog') : a + 1 = b + 1 => a = b
      BY <1>12
    <3> QED  BY <3>1, <3>2
  <2>2. \A a \in 1..Len(backlog') : peer'[backlog'[a]] # "new"
    BY <1>1, <1>5, <1>13 DEF Owners
  <2>3. \A g, h \in FD : Open(g)' /\ owner'[g] = owner'[h] => g = h
    BY <1>1, <1>12, <1>16, <1>17 DEF Owners, Open
  <2>4. \A g \in FD : Open(g)' => ~Waiting(owner[g])'
    <3> TAKE g \in FD
    <3>1. CASE g = f
      BY <1>14, <1>17, <3>1 DEF Waiting
    <3>2. CASE g # f /\ Open(g)
      <4>1. owner'[g] = owner[g] /\ owner[g] \in Client /\ ~Waiting(owner[g])
        BY <1>1, <1>17, <3>2 DEF Open, Owners
      <4> QED  BY <1>15, <4>1 DEF Waiting
    <3> QED  BY <1>17, <3>1, <3>2 DEF Open
  <2> QED  BY <2>1, <2>2, <2>3, <2>4 DEF Owners
<1>21. CallsFew' /\ TurnState'
  BY <1>1, <1>2, <1>5 DEF CallsFew, TurnState
<1>22. Framing'
  <2>1. \A d \in Client : BodyNext(d)' <=> BodyNext(d)
    BY <1>5 DEF BodyNext, MidMessage
  <2>2. ~BodyNext(c)
    BY <1>1, <1>12, <1>14 DEF Framing
  <2>3. curMsgLen'[f] = FALSE /\ \A g \in FD : g # f => curMsgLen'[g] = curMsgLen[g]
    BY <1>1, <1>4 DEF TypeOK
  <2>4. \A g \in FD : Open(g)' => (curMsgLen'[g] <=> BodyNext(owner[g])')
    <3> TAKE g \in FD
    <3>1. CASE g = f
      BY <1>5, <1>17, <2>2, <2>3, <3>1 DEF BodyNext, MidMessage
    <3>2. CASE g # f
      BY <1>1, <1>5, <1>17, <2>3, <3>2 DEF Framing, Open, BodyNext, MidMessage
    <3> QED  BY <3>1, <3>2
  <2> QED  BY <1>1, <1>5, <1>15, <2>1, <2>4 DEF Framing, MidMessage
<1>23. ReportedEventIsTrue'
  <2> SUFFICES ASSUME NEW k \in (i + 1)..Len(t), pFDs'[k].fd \in FD
               PROVE  /\ "HUP" \in pFDs'[k].revents => peer[owner'[pFDs'[k].fd]] = "closed"
                      /\ "IN" \in pFDs'[k].revents =>
                           sock[owner'[pFDs'[k].fd]] # <<>> \/ peer[owner'[pFDs'[k].fd]] # "open"
    BY <1>5, <1>10 DEF ReportedEventIsTrue
  <2>1. /\ k \in 1..Len(t) /\ k # i /\ k > i
        /\ (k = n + 1 /\ Len(t) # n) \/ (k \in i..n /\ k \in 1..n)
    <3>1. (Len(t) = n \/ Len(t) = n + 1) /\ Len(t) \in Nat
      BY <1>9
    <3> QED  BY <1>1, <3>1
  <2>2. CASE k = n + 1 /\ Len(t) # n
    BY <1>8, <1>9, <1>10, <2>1, <2>2
  <2>3. CASE k \in i..n /\ k \in 1..n
    <3>1. pFDs'[k] = pFDs[k] /\ pFDs[k].fd # f
      BY <1>6, <1>7, <1>9, <1>10, <2>1, <2>3
    <3>2. owner'[pFDs[k].fd] = owner[pFDs[k].fd]
      BY <1>17, <3>1
    <3> QED  BY <1>1, <1>2, <2>1, <2>3, <3>1, <3>2 DEF ReportedEventIsTrue
  <2> QED  BY <2>1, <2>2, <2>3
<1>24. Accounts'
  <2>1. \A d \in Client : Balanced(d)' <=> Balanced(d)
    BY <1>2, <1>5 DEF Balanced, CallsIn, InHand
  <2>2. \A d \in Client : Waiting(d)' \/ (\E g \in FD : owner'[g] = d) =>
                             Waiting(d) \/ \E g \in FD : owner[g] = d
    BY <1>14, <1>15, <1>17
  <2> QED  BY <1>1, <1>2, <2>1, <2>2 DEF Accounts
<1> QED  BY <1>18, <1>19, <1>20, <1>21, <1>22, <1>23, <1>24 DEF IInv

-----------------------------------------------------------------------------
(* When the manager starts there is nothing but the listening socket.        *)
LEMMA InitIInv == Init => IInv
<1> SUFFICES ASSUME Init PROVE IInv
  OBVIOUS
<1> DEFINE e == [fd |-> ListenFD, revents |-> {}]
<1>1. /\ MaxMsgs \in Nat /\ None \notin Client /\ ListenFD \notin FD /\ 1 \in Nat \ {0}
  BY ServerAssumption
<1>2. e \in Entries /\ e.fd = ListenFD /\ e.revents = {}
  BY DEF Entries
<1>3. pFDs = <<e>> /\ mode = "run" /\ pc = "loop" /\ i = 1 /\ msg = "none" /\ fdSources = {ListenFD}
  BY DEF Init
<1> HIDE DEF e
<1>4. pFDs \in Seq(Entries) /\ DOMAIN pFDs = {1} /\ pFDs[1].fd = ListenFD
  BY <1>2, <1>3
<1>5. /\ \A c \in Client : peer[c] = "new" /\ sock[c] = <<>> /\ written[c] = 0 /\ calls[c] = 0 /\ replies[c] = 0
      /\ backlog = <<>> /\ Len(backlog) = 0 /\ \A f \in FD : owner[f] = None /\ curMsgLen[f] = FALSE
  BY DEF Init
<1>6. TypeOK
  <2>1. /\ written \in [Client -> 0..(2 * MaxMsgs)] /\ calls \in [Client -> 0..MaxMsgs]
        /\ replies \in [Client -> Nat]
    <3>1. 0 \in 0..(2 * MaxMsgs) /\ 0 \in 0..MaxMsgs
      BY <1>1
    <3> QED  BY <3>1 DEF Init
  <2>2. backlog \in Seq(Client) /\ sock \in [Client -> Seq(Kind \cup {"length"})]
    BY DEF Init
  <2> QED  BY <1>1, <1>3, <1>4, <2>1, <2>2 DEF Init, TypeOK, Entries
<1>7. CallsFew
  BY <1>5 DEF CallsFew
<1>8. Tables
  <2>1. clientXprts = {} /\ \A f \in FD : ~Open(f)
    BY <1>5 DEF Init, Open
  <2> QED  BY <1>3, <1>4, <2>1 DEF Tables
<1>9. Owners /\ TurnState /\ ReportedEventIsTrue
  <2>1. \A a \in 1..Len(backlog) : FALSE
    BY <1>5
  <2> QED  BY <1>3, <1>5, <2>1 DEF Owners, Open, TurnState, ReportedEventIsTrue
<1>10. Framing
  <2>1. \A c \in Client : ~MidMessage(c) /\ Alternates(sock[c])
    <3> TAKE c \in Client
    <3>1. \A k \in 1..(Len(<<>>) - 1) : FALSE
      OBVIOUS
    <3> QED  BY <1>5, <3>1 DEF MidMessage, Alternates
  <2> QED  BY <1>5, <2>1 DEF Framing, BodyNext, Open
<1>11. Accounts
  <2>1. CallsOf(<<>>) = {}
    BY DEF CallsOf
  <2>2. Cardinality(CallsOf(<<>>)) = 0
    BY <2>1, FS_EmptySet
  <2>3. \A c \in Client : CallsIn(c) = 0 /\ ~InHand(c)
    BY <1>3, <1>5, <2>2 DEF CallsIn, CallsOf, InHand
  <2> QED  BY <1>5, <2>3 DEF Accounts, Balanced
<1> QED  BY <1>6, <1>7, <1>8, <1>9, <1>10, <1>11 DEF IInv

(* Every step keeps the invariant.                                           *)
LEMMA NextIInv == IInv /\ [Next]_vars => IInv'
<1> SUFFICES ASSUME IInv, [Next]_vars PROVE IInv'
  OBVIOUS
<1>1. CASE ClientStep
  <2>1. mode = "run"
    BY <1>1 DEF ClientStep
  <2>2. PICK c \in Client : Connect(c) \/ WriteLength(c) \/ WriteBody(c) \/ Close(c) \/ Shutdown(c)
    BY <1>1 DEF ClientStep
  <2> QED  BY <2>1, <2>2, ConnectStep, WritesStep, CloseStep
<1>2. CASE ManagerStep
  <2>1. CASE CallLoop \/ ClearSignalFired \/ Exit \/ ScanEnds \/ ScanIdle \/ AcceptFails
    BY <2>1, LoopStep
  <2>2. CASE Poll \/ Accept
    BY <2>2, PollStep, AcceptStep
  <2>3. CASE \E f \in FD : \/ DropClient(f) \/ ReadLength(f) \/ ReadLengthAborts(f)
                           \/ ReadBody(f) \/ ReadBodyEnds(f) \/ ProcessMessage(f)
    BY <2>3, DropClientStep, ReadLengthStep, ReadBodyStep, StreamEndsStep, ProcessMessageStep
  <2> QED  BY <1>2, <2>1, <2>2, <2>3 DEF ManagerStep
<1>3. CASE UNCHANGED vars
  <2> USE DEF vars, table, socket, world
  <2>1. TypeOK /\ CallsFew /\ Tables /\ Owners /\ TurnState /\ Framing /\ Accounts /\ ReportedEventIsTrue
    BY Parts
  <2>2. TypeOK'
    BY <1>3, <2>1 DEF TypeOK
  <2>3. Framing' /\ Owners' /\ CallsFew' /\ TurnState' /\ ReportedEventIsTrue'
    BY <1>3, <2>1, FramingKept, OwnersKept DEF CallsFew, TurnState, ReportedEventIsTrue
  <2>4. Tables'
    BY <1>3, <2>1 DEF Tables, Open
  <2>5. Accounts'
    BY <1>3, <2>1 DEF Accounts, Balanced, CallsIn, InHand, Waiting
  <2> QED  BY <2>2, <2>3, <2>4, <2>5 DEF IInv
<1> QED  BY <1>1, <1>2, <1>3, InterruptStep DEF Next, Gone

(* The inductive invariant holds in every state of sys.manager.              *)
THEOREM ServerInvariant == Spec => []IInv
  BY InitIInv, NextIInv, PTL DEF Spec

(* Every variable keeps its type, whatever the clients write.                *)
THEOREM ServerTypes == Spec => []TypeOK
<1>1. IInv => TypeOK
  BY DEF IInv
<1> QED  BY <1>1, ServerInvariant, PTL

(* The pollfd array has as many entries as there are sources: they are one   *)
(* to one.                                                                   *)
LEMMA DescriptorsFromTables == IInv => DescriptorsAgree
<1> SUFFICES ASSUME IInv PROVE DescriptorsAgree
  OBVIOUS
<1>1. Tables /\ Len(pFDs) \in Nat /\ DOMAIN pFDs = 1..Len(pFDs)
  BY Parts
<1> DEFINE at == [k \in 1..Len(pFDs) |-> pFDs[k].fd]
           D == 1..Len(pFDs)
<1>2. IsFiniteSet(D) /\ Cardinality(D) = Len(pFDs)
  <2> DEFINE n == Len(pFDs)
  <2>1. n \in Nat
    BY <1>1
  <2> HIDE DEF n
  <2>2. IsFiniteSet(1..n) /\ Cardinality(1..n) = n
    BY <2>1, FS_Interval
  <2> QED  BY <2>2 DEF n
<1>3. /\ at \in [D -> fdSources]
      /\ \A k, l \in D : at[k] = at[l] => k = l
      /\ \A f \in fdSources : \E k \in D : at[k] = f
  BY <1>1 DEF Tables
<1> HIDE DEF at, D
<1>4. at \in Bijection(D, fdSources)
  BY <1>3 DEF Bijection, Injection, Surjection, IsInjective
<1>5. Cardinality(fdSources) = Cardinality(D)
  BY <1>2, <1>4, FS_Bijection DEF ExistsBijection
<1> QED  BY <1>1, <1>2, <1>5 DEF DescriptorsAgree, Tables

(* The pollfd array, the sources, the transports and the open descriptors    *)
(* agree after every accept, drop and failed addFD, in any order.            *)
THEOREM TablesAgree == Spec => []DescriptorsAgree
  BY DescriptorsFromTables, ServerInvariant, PTL

(* No event is dispatched to a connection it is not true of, although        *)
(* descriptors are closed, reused and moved while the array is scanned.      *)
THEOREM EventsAreTrue == Spec => []ReportedEventIsTrue
<1>1. IInv => ReportedEventIsTrue
  BY DEF IInv
<1> QED  BY <1>1, ServerInvariant, PTL

(* doRecv never takes a body for a length or a length for a body.            *)
THEOREM StreamsInStep == Spec => []FramingInStep
<1>1. IInv => FramingInStep
  <2> SUFFICES ASSUME IInv, NEW f \in clientXprts, sock[owner[f]] # <<>>
               PROVE  Head(sock[owner[f]]) = "length" <=> ~curMsgLen[f]
    BY DEF FramingInStep
  <2>1. TypeOK /\ Tables /\ Framing
    BY Parts
  <2>2. f \in FD /\ Open(f)
    BY <2>1 DEF Tables
  <2>3. owner[f] \in Client
    BY <2>1, <2>2 DEF Open, TypeOK
  <2>4. sock[owner[f]] \in Seq(Kind \cup {"length"})
    BY <2>1, <2>3 DEF TypeOK
  <2>5. curMsgLen[f] <=> sock[owner[f]][1] # "length"
    BY <2>1, <2>2 DEF Framing, BodyNext
  <2> QED  BY <2>4, <2>5
<1> QED  BY <1>1, ServerInvariant, PTL

(* While the manager runs, every call of a connected client was answered     *)
(* once, is in hand or waits in the stream: none is lost or answered twice.  *)
THEOREM CallsAccounted == Spec => []EveryCallAccountedFor
<1>1. IInv => EveryCallAccountedFor
  <2> SUFFICES ASSUME IInv, mode = "run", NEW c \in Client, Watched(c)
               PROVE  Balanced(c)
    BY DEF EveryCallAccountedFor, Balanced
  <2>1. Accounts
    BY Parts
  <2>2. \E f \in FD : owner[f] = c
    BY DEF Watched
  <2> QED  BY <2>1, <2>2 DEF Accounts
<1> QED  BY <1>1, ServerInvariant, PTL
=============================================================================
