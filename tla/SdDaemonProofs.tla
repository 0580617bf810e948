--------------------------- MODULE SdDaemonProofs ---------------------------
(* Proofs about the sd-daemon library, for any environment, any descriptors  *)
(* passed and any number of calls.                                           *)
EXTENDS SdDaemon, FiniteSetTheorems, TLAPS

(* Types of all the variables.                                               *)
Types ==
  /\ env \in Environments /\ root \in BOOLEAN
  /\ errno \in Errors \ {"EINVAL", "ENOMEM", "ETIMEDOUT"}
  /\ open \subseteq DOMAIN Passed /\ cloexec \subseteq open
  /\ last.r.ok \in BOOLEAN
  /\ IF last.r.ok THEN last.r.n \in 0..Cardinality(DOMAIN Passed) \cup {1} ELSE last.r.e \in Errors \ {"0"}
  /\ pc \in {"idle", "waiting", "spinning", "crashed"}
  /\ calls \in 0..MaxCalls /\ (pc = "waiting" => calls < MaxCalls)
  /\ queue \in Seq({"state", "barrier"})
  /\ sent \in Nat /\ read \in Nat /\ mark \in Nat
  /\ manager \in {"up", "down"}

(* No datagram is lost while the service manager is there.                   *)
AllQueued == manager = "up" => sent = read + Len(queue)

(* The barrier a daemon waits for is in the queue, behind all that was sent  *)
(* before it, until the service manager reads it or goes.                    *)
BarrierQueued ==
  pc = "waiting" /\ manager = "up" /\ read <= mark =>
    mark + 1 - read \in 1..Len(queue) /\ queue[mark + 1 - read] = "barrier"

IInv == Types /\ AllQueued /\ BarrierQueued /\ BarrierMeansConsumed

-----------------------------------------------------------------------------
(* Results.                                                                  *)
Result(r) ==
  /\ r.ok \in BOOLEAN
  /\ IF r.ok THEN r.n \in 0..Cardinality(DOMAIN Passed) \cup {1} ELSE r.e \in Errors \ {"0"}

Errnos == Errors \ {"EINVAL", "ENOMEM", "ETIMEDOUT"}

(* The descriptors passed are finitely many.                                 *)
LEMMA PassedCount == Cardinality(DOMAIN Passed) \in Nat
  BY SdAssumption, FS_CardinalityType

(* A result is a number or an error.                                         *)
LEMMA ResultRecords ==
  /\ \A n : Ok(n).ok = TRUE /\ Ok(n).n = n
  /\ \A e : Err(e).ok = FALSE /\ Err(e).e = e
  /\ \A e : e # "0" => NegErrno(e) = Err(e)
  /\ NegErrno("0") = Ok(0)
  BY DEF Ok, Err, NegErrno

(* 0, 1 and the errors are results.                                          *)
LEMMA SmallResults ==
  /\ Result(Ok(0)) /\ Result(Ok(1))
  /\ \A e \in Errors \ {"0"} : Result(Err(e))
  /\ \A e \in Errors : Result(NegErrno(e))
<1>1. Result(Ok(0)) /\ Result(Ok(1))
  BY PassedCount DEF Result, Ok
<1>2. \A e \in Errors \ {"0"} : Result(Err(e))
  BY DEF Result, Err
<1>3. \A e \in Errors : Result(NegErrno(e))
  BY <1>1, <1>2 DEF NegErrno
<1> QED  BY <1>1, <1>2, <1>3

-----------------------------------------------------------------------------
(* sd_listen_fds and sd_watchdog_enabled.                                    *)

(* What a number narrows to is an integer, and no number stays none.         *)
LEMMA NarrowedInt ==
  ASSUME NEW v \in Numeric
  PROVE  Narrowed(v) \in Int /\ (v \in {Unset, Bad, Huge} => Narrowed(v) < 0)
<1>1. IntMax \in Nat
  BY SdAssumption
<1>2. CASE v < 0
  BY <1>2 DEF Narrowed, Numeric, Unset, Bad, Huge
<1>3. CASE v \in Nat
  <2> DEFINE m == 2 * (IntMax + 1)
  <2>1. m \in Nat /\ m > 0
    BY <1>1
  <2> HIDE DEF m
  <2>2. v % m \in Int
    BY <1>3, <2>1
  <2>3. Narrowed(v) = IF v % m > IntMax THEN (v % m) - m ELSE v % m
    BY <1>3 DEF Narrowed, m
  <2> QED  BY <1>1, <1>3, <2>1, <2>2, <2>3 DEF Unset, Bad, Huge
<1> QED  BY <1>2, <1>3 DEF Numeric, Unset, Bad, Huge

(* The arms of sd_listen_fds, in the order of its early returns.             *)
LEMMA ListenArms ==
  ASSUME Types
  PROVE  LET pid == Narrowed(env.listenPid)
             n == Narrowed(env.listenFds)
             Plain(r, e) == [r |-> r, errno |-> e, cloexec |-> cloexec]
         IN  /\ env.listenPid = Unset => ListenFds = Plain(Ok(0), errno)
             /\ env.listenPid = Huge => ListenFds = Plain(Err("ERANGE"), "ERANGE")
             /\ env.listenPid \notin {Unset, Huge} =>
                  /\ errno # "0" => ListenFds = Plain(Err(errno), errno)
                  /\ errno = "0" /\ pid <= 0 => ListenFds = Plain(Err("EINVAL"), "0")
                  /\ errno = "0" /\ pid > 0 /\ ~ForUs => ListenFds = Plain(Ok(0), "0")
                  /\ errno = "0" /\ ForUs =>
                       /\ env.listenFds = Unset => ListenFds = Plain(Ok(0), "0")
                       /\ env.listenFds = Huge => ListenFds = Plain(Err("ERANGE"), "ERANGE")
                       /\ env.listenFds \notin {Unset, Huge} =>
                            /\ n \notin 1..(IntMax - SD_LISTEN_FDS_START) =>
                                 ListenFds = Plain(Err("EINVAL"), "0")
                            /\ n \in 1..(IntMax - SD_LISTEN_FDS_START) =>
                                 ListenFds = IF ListenRange(n) \subseteq open
                                             THEN [r |-> Ok(n), errno |-> "0", cloexec |-> SetCloexec(n)]
                                             ELSE [r |-> Err("EBADF"), errno |-> "EBADF",
                                                   cloexec |-> SetCloexec(n)]
<1> DEFINE pid == Narrowed(env.listenPid)
           n == Narrowed(env.listenFds)
           Plain(r, e) == [r |-> r, errno |-> e, cloexec |-> cloexec]
<1>0. /\ pid \in Int /\ n \in Int
      /\ env.listenPid \in {Unset, Huge} => pid < 0
      /\ Unset # Huge
  BY NarrowedInt DEF Types, Environments, Unset, Huge
<1>a. ForUs <=> pid = SelfPid
  BY DEF ForUs
<1> HIDE DEF pid, n
<1> USE DEF Strtoul
<1>1. env.listenPid = Unset => ListenFds = Plain(Ok(0), errno)
  BY <1>0, <1>a DEF ListenFds, SelfPid, pid
<1>2. env.listenPid = Huge => ListenFds = Plain(Err("ERANGE"), "ERANGE")
  BY <1>0, <1>a, ResultRecords DEF ListenFds, SelfPid, pid
<1>3. ASSUME env.listenPid \notin {Unset, Huge}
      PROVE  /\ errno # "0" => ListenFds = Plain(Err(errno), errno)
             /\ errno = "0" /\ pid <= 0 => ListenFds = Plain(Err("EINVAL"), "0")
             /\ errno = "0" /\ pid > 0 /\ ~ForUs => ListenFds = Plain(Ok(0), "0")
  <2>1. errno # "0" => ListenFds = Plain(Err(errno), errno)
    BY <1>0, <1>a, <1>3, ResultRecords DEF ListenFds, SelfPid, pid
  <2>2. errno = "0" /\ pid <= 0 => ListenFds = Plain(Err("EINVAL"), "0")
    BY <1>0, <1>a, <1>3 DEF ListenFds, SelfPid, pid
  <2>3. errno = "0" /\ pid > 0 /\ ~ForUs => ListenFds = Plain(Ok(0), "0")
    BY <1>0, <1>a, <1>3 DEF ListenFds, SelfPid, pid
  <2> QED  BY <2>1, <2>2, <2>3
<1>4. ASSUME env.listenPid \notin {Unset, Huge}, errno = "0", ForUs
      PROVE  /\ env.listenFds = Unset => ListenFds = Plain(Ok(0), "0")
             /\ env.listenFds = Huge => ListenFds = Plain(Err("ERANGE"), "ERANGE")
             /\ env.listenFds \notin {Unset, Huge} =>
                  /\ n \notin 1..(IntMax - SD_LISTEN_FDS_START) => ListenFds = Plain(Err("EINVAL"), "0")
                  /\ n \in 1..(IntMax - SD_LISTEN_FDS_START) =>
                       ListenFds = IF ListenRange(n) \subseteq open
                                   THEN [r |-> Ok(n), errno |-> "0", cloexec |-> SetCloexec(n)]
                                   ELSE [r |-> Err("EBADF"), errno |-> "EBADF", cloexec |-> SetCloexec(n)]
  <2>1. pid > 0
    BY <1>a, <1>4 DEF SelfPid
  <2>2. env.listenFds = Unset => ListenFds = Plain(Ok(0), "0")
    BY <1>0, <1>4, <2>1 DEF ListenFds, pid, n
  <2>3. env.listenFds = Huge => ListenFds = Plain(Err("ERANGE"), "ERANGE")
    BY <1>0, <1>4, <2>1, ResultRecords DEF ListenFds, pid, n
  <2>4. env.listenFds \notin {Unset, Huge} /\ n \notin 1..(IntMax - SD_LISTEN_FDS_START) =>
          ListenFds = Plain(Err("EINVAL"), "0")
    BY <1>0, <1>4, <2>1 DEF ListenFds, pid, n
  <2>5. env.listenFds \notin {Unset, Huge} /\ n \in 1..(IntMax - SD_LISTEN_FDS_START) =>
          ListenFds = IF ListenRange(n) \subseteq open
                      THEN [r |-> Ok(n), errno |-> "0", cloexec |-> SetCloexec(n)]
                      ELSE [r |-> Err("EBADF"), errno |-> "EBADF", cloexec |-> SetCloexec(n)]
    BY <1>0, <1>4, <2>1 DEF ListenFds, pid, n
  <2> QED  BY <2>2, <2>3, <2>4, <2>5
<1> QED  BY <1>1, <1>2, <1>3, <1>4 DEF pid, n

(* What sd_listen_fds announces is open and closed on exec; its result is in *)
(* range.                                                                    *)
LEMMA ListenAnswer ==
  ASSUME Types
  PROVE  /\ Result(ListenFds.r) /\ ListenFds.errno \in Errnos /\ ListenFds.cloexec \subseteq open
         /\ ListenFds.r.ok => ListenRange(ListenFds.r.n) \subseteq ListenFds.cloexec \cap open
<1> DEFINE pid == Narrowed(env.listenPid)
           n == Narrowed(env.listenFds)
           Plain(r, e) == [r |-> r, errno |-> e, cloexec |-> cloexec]
           Goal == /\ Result(ListenFds.r) /\ ListenFds.errno \in Errnos /\ ListenFds.cloexec \subseteq open
                   /\ ListenFds.r.ok => ListenRange(ListenFds.r.n) \subseteq ListenFds.cloexec \cap open
<1>0. /\ pid \in Int /\ n \in Int
      /\ errno \in Errnos /\ "0" \in Errnos /\ "ERANGE" \in Errnos /\ "EBADF" \in Errnos
      /\ open \subseteq DOMAIN Passed /\ cloexec \subseteq open
  BY NarrowedInt DEF Types, Environments, Errnos, Errors
<1>1. ListenRange(0) = {}
  BY DEF ListenRange, SD_LISTEN_FDS_START
<1>2. SetCloexec(n) \subseteq open
  BY <1>0 DEF SetCloexec, ListenRange, SD_LISTEN_FDS_START
<1>3. ASSUME NEW e \in Errnos, ListenFds = Plain(Ok(0), e) PROVE Goal
  BY <1>0, <1>1, <1>3, SmallResults, ResultRecords
<1>4. ASSUME NEW x \in Errors \ {"0"}, NEW e \in Errnos, ListenFds = Plain(Err(x), e) PROVE Goal
  BY <1>0, <1>4, SmallResults, ResultRecords
<1>5. {"ERANGE", "EINVAL", "EBADF"} \subseteq Errors \ {"0"} /\ (errno # "0" => errno \in Errors \ {"0"})
  BY <1>0 DEF Errnos, Errors
<1>6. ASSUME ListenFds = [r |-> Err("EBADF"), errno |-> "EBADF", cloexec |-> SetCloexec(n)] PROVE Goal
  BY <1>0, <1>2, <1>5, <1>6, SmallResults, ResultRecords
<1>7. ASSUME n > 0, ListenRange(n) \subseteq open,
             ListenFds = [r |-> Ok(n), errno |-> "0", cloexec |-> SetCloexec(n)]
      PROVE  Goal
  <2>1. n \in 0..Cardinality(DOMAIN Passed)
    <3>1. n \in Nat /\ SD_LISTEN_FDS_START + n - 1 \in DOMAIN Passed
      BY <1>0, <1>7 DEF ListenRange, SD_LISTEN_FDS_START
    <3> QED  BY <1>7, <3>1, PassedCount, SdAssumption DEF SD_LISTEN_FDS_START
  <2>2. Result(Ok(n))
    BY <2>1 DEF Result, Ok
  <2>3. ListenRange(n) \subseteq SetCloexec(n)
    BY <1>0, <1>7 DEF SetCloexec, ListenRange, SD_LISTEN_FDS_START
  <2> QED  BY <1>0, <1>2, <1>7, <2>2, <2>3, ResultRecords
<1> SUFFICES Goal
  OBVIOUS
<1> HIDE DEF Goal
<1>8. CASE env.listenPid = Unset
  <2>a. ListenFds = Plain(Ok(0), errno)
    BY <1>8, ListenArms
  <2> QED  BY <1>0, <1>3, <2>a
<1>9. CASE env.listenPid = Huge
  <2>a. ListenFds = Plain(Err("ERANGE"), "ERANGE")
    BY <1>9, ListenArms
  <2> QED  BY <1>0, <1>4, <1>5, <2>a
<1>10. CASE env.listenPid \notin {Unset, Huge}
  <2>1. CASE errno # "0"
    <3>a. ListenFds = Plain(Err(errno), errno)
      BY <1>10, <2>1, ListenArms
    <3> QED  BY <1>0, <1>4, <1>5, <2>1, <3>a
  <2>2. CASE errno = "0" /\ pid <= 0
    <3>a. ListenFds = Plain(Err("EINVAL"), "0")
      BY <1>10, <2>2, ListenArms
    <3> QED  BY <1>0, <1>4, <1>5, <3>a
  <2>3. CASE errno = "0" /\ pid > 0 /\ ~ForUs
    <3>a. ListenFds = Plain(Ok(0), "0")
      BY <1>10, <2>3, ListenArms
    <3> QED  BY <1>0, <1>3, <3>a
  <2>4. CASE errno = "0" /\ ForUs
    <3>1. CASE env.listenFds = Unset
      <4>a. ListenFds = Plain(Ok(0), "0")
        BY <1>10, <2>4, <3>1, ListenArms
      <4> QED  BY <1>0, <1>3, <4>a
    <3>2. CASE env.listenFds = Huge
      <4>a. ListenFds = Plain(Err("ERANGE"), "ERANGE")
        BY <1>10, <2>4, <3>2, ListenArms
      <4> QED  BY <1>0, <1>4, <1>5, <4>a
    <3>3. CASE env.listenFds \notin {Unset, Huge} /\ n \notin 1..(IntMax - SD_LISTEN_FDS_START)
      <4>a. ListenFds = Plain(Err("EINVAL"), "0")
        BY <1>10, <2>4, <3>3, ListenArms
      <4> QED  BY <1>0, <1>4, <1>5, <4>a
    <3>4. CASE env.listenFds \notin {Unset, Huge} /\ n \in 1..(IntMax - SD_LISTEN_FDS_START)
      <4>1. n > 0
        BY <1>0, <3>4
      <4>2. CASE ListenRange(n) \subseteq open
        <5>a. ListenFds = [r |-> Ok(n), errno |-> "0", cloexec |-> SetCloexec(n)]
          BY <1>10, <2>4, <3>4, <4>2, ListenArms
        <5> QED  BY <1>7, <4>1, <4>2, <5>a
      <4>3. CASE ~(ListenRange(n) \subseteq open)
        <5>a. ListenFds = [r |-> Err("EBADF"), errno |-> "EBADF", cloexec |-> SetCloexec(n)]
          BY <1>10, <2>4, <3>4, <4>3, ListenArms
        <5> QED  BY <1>6, <5>a
      <4> QED  BY <4>2, <4>3
    <3> QED  BY <3>1, <3>2, <3>3, <3>4
  <2> QED  BY <1>0, <2>1, <2>2, <2>3, <2>4
<1> QED  BY <1>8, <1>9, <1>10

(* The result of sd_watchdog_enabled is in range.                            *)
LEMMA WatchdogAnswer ==
  ASSUME Types
  PROVE  Result(Watchdog.r) /\ Watchdog.errno \in Errnos
<1> DEFINE e1 == Strtoul(env.usec)
           e2 == IF env.wdPid = Huge THEN "ERANGE" ELSE e1
           Shape == \/ \E e \in Errnos \ {"0"} : Watchdog = [r |-> NegErrno(e), errno |-> e]
                    \/ \E r \in {Ok(0), Ok(1), Err("EINVAL")} : Watchdog = [r |-> r, errno |-> errno]
<1>0. errno \in Errnos /\ e1 \in Errnos /\ e2 \in Errnos
  BY DEF Types, Errnos, Errors, Strtoul
<1>1. Shape
  BY <1>0 DEF Watchdog, Res, Truth
<1> HIDE DEF Shape
<1>2. ASSUME NEW e \in Errnos \ {"0"}, Watchdog = [r |-> NegErrno(e), errno |-> e]
      PROVE  Result(Watchdog.r) /\ Watchdog.errno \in Errnos
  BY <1>2, SmallResults DEF Errnos
<1>3. ASSUME NEW r \in {Ok(0), Ok(1), Err("EINVAL")}, Watchdog = [r |-> r, errno |-> errno]
      PROVE  Result(Watchdog.r) /\ Watchdog.errno \in Errnos
  BY <1>0, <1>3, SmallResults DEF Errors
<1> QED  BY <1>1, <1>2, <1>3 DEF Shape

-----------------------------------------------------------------------------
(* Classifying descriptors.                                                  *)

(* Results of the predicates are in range.                                   *)
LEMMA SameFileResult ==
  ASSUME Types, NEW fd, NEW path
  PROVE  Result(SameFile(fd, path).r) /\ SameFile(fd, path).errno \in Errnos
<1>1. errno \in Errnos
  BY DEF Types, Errnos
<1>2. CASE path = "NULL"
  BY <1>1, <1>2, SmallResults DEF SameFile, Res
<1>3. CASE path = "missing"
  BY <1>3, SmallResults DEF SameFile, Errnos, Errors
<1>4. CASE path = "denied"
  BY <1>4, SmallResults DEF SameFile, Fails, Errnos, Errors
<1>5. CASE path \notin {"NULL", "missing", "denied"}
  BY <1>1, <1>5, SmallResults DEF SameFile, Res, Truth
<1> QED  BY <1>2, <1>3, <1>4, <1>5

(* The socket tests return a result and leave errno one that the library     *)
(* sets.                                                                     *)
LEMMA SocketResult ==
  ASSUME Types, NEW fd, NEW kind, NEW listening, NEW test \in BOOLEAN
  PROVE  LET s == sd_is_socket_internal(fd, kind, listening)
         IN  /\ Result(s.r) /\ s.errno \in Errnos
             /\ Result(AndThen(s, test).r) /\ AndThen(s, test).errno \in Errnos
<1> DEFINE s == sd_is_socket_internal(fd, kind, listening)
<1>1. errno \in Errnos
  BY DEF Types, Errnos
<1>2. Result(s.r) /\ s.errno \in Errnos
  <2>1. CASE IsClosed(fd)
    BY <2>1, SmallResults DEF sd_is_socket_internal, Fails, Errnos, Errors
  <2>2. CASE ~IsClosed(fd) /\ Passed[fd].type # "sock"
    BY <1>1, <2>2, SmallResults DEF sd_is_socket_internal, Res
  <2>3. CASE ~IsClosed(fd) /\ Passed[fd].type = "sock"
    BY <1>1, <2>3, SmallResults DEF sd_is_socket_internal, Res, Truth
  <2> QED  BY <2>1, <2>2, <2>3
<1> HIDE DEF s
<1>3. Result(AndThen(s, test).r) /\ AndThen(s, test).errno \in Errnos
  BY <1>1, <1>2, SmallResults DEF AndThen, Res, Truth
<1> QED  BY <1>2, <1>3 DEF s

(* So do the tests for FIFOs and special files.                              *)
LEMMA FileResult ==
  ASSUME Types, NEW fd, NEW path
  PROVE  /\ Result(sd_is_fifo(fd, path).r) /\ sd_is_fifo(fd, path).errno \in Errnos
         /\ Result(sd_is_spskal(fd, path).r) /\ sd_is_spskal(fd, path).errno \in Errnos
<1>1. errno \in Errnos
  BY DEF Types, Errnos
<1>2. CASE IsClosed(fd)
  BY <1>2, SmallResults DEF sd_is_fifo, sd_is_spskal, Fails, Errnos, Errors
<1>3. CASE ~IsClosed(fd)
  BY <1>1, <1>3, SmallResults, SameFileResult DEF sd_is_fifo, sd_is_spskal, Res
<1> QED  BY <1>2, <1>3

-----------------------------------------------------------------------------
(* The steps.                                                                *)

(* Unsetting variables leaves an environment.                                *)
LEMMA EnvKept ==
  ASSUME Types, NEW unset \in BOOLEAN
  PROVE  /\ unsetenv_all(unset) => env' \in Environments
         /\ UnsetNotify(unset) \in Environments
         /\ [env EXCEPT !.usec = Unset, !.wdPid = Unset] \in Environments
<1>1. Unset \in Numeric /\ env \in Environments
  BY DEF Types, Numeric, Unset
<1>2. [env EXCEPT !.listenPid = Unset, !.listenFds = Unset, !.names = "unset"] \in Environments
  BY <1>1 DEF Environments
<1>3. [env EXCEPT !.notify = FALSE] \in Environments
  BY <1>1 DEF Environments
<1>4. [env EXCEPT !.usec = Unset, !.wdPid = Unset] \in Environments
  BY <1>1 DEF Environments
<1> QED  BY <1>1, <1>2, <1>3, <1>4 DEF unsetenv_all, UnsetNotify

(* A call that sends nothing.                                                *)
LEMMA CallStep ==
  ASSUME IInv, Calling, env' \in Environments, errno' \in Errnos, cloexec' \subseteq open,
         NEW f, NEW r, Returns(f, r), Result(r), f = "barrier" => r # Ok(1),
         UNCHANGED <<root, open, pc, queue, sent, read, mark, manager>>
  PROVE  IInv'
<1>1. last'.fn = f /\ last'.r = r /\ calls' = calls + 1
  BY DEF Returns
<1>2. Types'
  <2>1. calls' \in 0..MaxCalls
    BY <1>1, SdAssumption DEF IInv, Types, Calling
  <2>2. pc' # "waiting"
    BY DEF Calling
  <2>3. Result(last'.r)
    BY <1>1
  <2> QED  BY <2>1, <2>2, <2>3 DEF IInv, Types, Result, Errnos
<1>3. AllQueued' /\ BarrierQueued'
  BY DEF IInv, AllQueued, BarrierQueued
<1>4. BarrierMeansConsumed'
  BY <1>1 DEF BarrierMeansConsumed
<1> QED  BY <1>2, <1>3, <1>4 DEF IInv

(* sd_listen_fds, by either name.                                            *)
LEMMA ListenStep ==
  ASSUME IInv, NEW unset \in BOOLEAN, sd_listen_fds(unset) \/ sd_listen_fds_with_names(unset)
  PROVE  IInv'
<1>1. Types
  BY DEF IInv
<1>2. ASSUME Calling, errno' = ListenFds.errno, cloexec' = ListenFds.cloexec, unsetenv_all(unset),
             Returns("listen", ListenFds.r), UNCHANGED <<root, open, pc, queue, sent, read, mark, manager>>
      PROVE  IInv'
  <2>1. Result(ListenFds.r) /\ ListenFds.errno \in Errnos /\ ListenFds.cloexec \subseteq open
    BY <1>1, ListenAnswer
  <2>2. env' \in Environments
    BY <1>1, <1>2, EnvKept
  <2> QED  BY <1>2, <2>1, <2>2, CallStep
<1>3. ASSUME pc = "idle", pc' \in {"spinning", "crashed"},
             UNCHANGED <<errno, cloexec, env, last, calls, root, open, queue, sent, read, mark, manager>>
      PROVE  IInv'
  BY <1>3 DEF IInv, Types, AllQueued, BarrierQueued, BarrierMeansConsumed
<1> QED  BY <1>2, <1>3 DEF sd_listen_fds, sd_listen_fds_with_names, Calling

(* sd_watchdog_enabled.                                                      *)
LEMMA WatchdogStep ==
  ASSUME IInv, NEW unset \in BOOLEAN, sd_watchdog_enabled(unset)
  PROVE  IInv'
<1>1. Types /\ cloexec \subseteq open /\ env \in Environments
  BY DEF IInv, Types
<1>2. Result(Watchdog.r) /\ Watchdog.errno \in Errnos
  BY <1>1, WatchdogAnswer
<1>3. env' \in Environments
  BY <1>1, EnvKept DEF sd_watchdog_enabled
<1> QED  BY <1>1, <1>2, <1>3, CallStep DEF sd_watchdog_enabled

(* The sd_is_ functions change errno at most.                                *)
LEMMA ClassifyStep ==
  ASSUME IInv, Classifies
  PROVE  IInv'
<1>1. Types /\ cloexec \subseteq open /\ env \in Environments /\ errno \in Errnos
  BY DEF IInv, Types, Errnos
<1>2. ASSUME NEW res, Classify(res), Result(res.r), res.errno \in Errnos
      PROVE  IInv'
  BY <1>1, <1>2, CallStep DEF Classify
<1>3. PICK fd \in DOMAIN Passed :
        \/ \E path \in Paths : Classify(sd_is_fifo(fd, path)) \/ Classify(sd_is_spskal(fd, path))
        \/ Classify(sd_is_socket(fd, "any", "any", "any"))
        \/ Classify(sd_is_socket_inet(fd, "any", "any", "any", 80))
        \/ Classify(sd_is_socket_sockaddr(fd, "any", "inet", "lo", 0, "any"))
        \/ Classify(sd_is_socket_unix(fd, "any", "any", "NULL"))
        \/ Classify(sd_is_mq)
  BY DEF Classifies
<1>4. ASSUME NEW path \in Paths, Classify(sd_is_fifo(fd, path)) \/ Classify(sd_is_spskal(fd, path))
      PROVE  IInv'
  BY <1>1, <1>2, <1>4, FileResult
<1>5. CASE Classify(sd_is_socket(fd, "any", "any", "any"))
  BY <1>1, <1>2, <1>5, SocketResult DEF sd_is_socket
<1>6. CASE Classify(sd_is_socket_inet(fd, "any", "any", "any", 80))
  BY <1>1, <1>2, <1>6, SocketResult DEF sd_is_socket_inet
<1>7. CASE Classify(sd_is_socket_sockaddr(fd, "any", "inet", "lo", 0, "any"))
  BY <1>1, <1>2, <1>7, SocketResult DEF sd_is_socket_sockaddr
<1>8. CASE Classify(sd_is_socket_unix(fd, "any", "any", "NULL"))
  BY <1>1, <1>2, <1>8, SocketResult DEF sd_is_socket_unix
<1>9. CASE Classify(sd_is_mq)
  BY <1>1, <1>2, <1>9, SmallResults DEF sd_is_mq, Res
<1> QED  BY <1>3, <1>4, <1>5, <1>6, <1>7, <1>8, <1>9

(* sd_pid_notify_with_fds answers 1 just when the datagram was queued.       *)
LEMMA OutcomeProperties ==
  ASSUME Types, NEW ucred \in BOOLEAN, NEW d, NEW o \in Outcome(ucred, d)
  PROVE  /\ o.errno \in Errnos /\ Result(o.r)
         /\ \/ o.r # Ok(1) /\ o.queue = queue
            \/ o.r = Ok(1) /\ manager = "up" /\ o.queue = Append(queue, d)
<1> USE ResultRecords
<1>1. errno \in Errnos /\ Ok(0) # Ok(1) /\ \A e : Err(e) # Ok(1)
  BY DEF Types, Errnos
<1>2. CASE ~env.notify
  BY <1>1, <1>2, SmallResults DEF Outcome
<1>3. CASE env.notify
  <2>1. CASE o = [r |-> Err("EMFILE"), errno |-> "EMFILE", queue |-> queue]
    BY <1>1, <2>1, SmallResults DEF Errnos, Errors
  <2>2. ASSUME NEW e \in AfterSndbuf,
               o = [r |-> IF manager = "down" THEN Err("ECONNREFUSED") ELSE Ok(1),
                    errno |-> IF FirstFails(ucred) THEN (IF manager = "down" THEN "ECONNREFUSED" ELSE "EPERM") ELSE e,
                    queue |-> IF manager = "down" THEN queue ELSE Append(queue, d)]
        PROVE  /\ o.errno \in Errnos /\ Result(o.r)
               /\ \/ o.r # Ok(1) /\ o.queue = queue
                  \/ o.r = Ok(1) /\ manager = "up" /\ o.queue = Append(queue, d)
    <3>1. e \in Errnos
      BY <1>1 DEF AfterSndbuf, Errnos, Errors
    <3>2. manager \in {"up", "down"}
      BY DEF Types
    <3>3. o.errno \in Errnos
      BY <2>2, <3>1 DEF Errnos, Errors
    <3>4. CASE manager = "down"
      BY <1>1, <2>2, <3>3, <3>4, SmallResults DEF Errors
    <3>5. CASE manager = "up"
      BY <1>1, <2>2, <3>3, <3>5, SmallResults
    <3> QED  BY <3>2, <3>4, <3>5
  <2> QED  BY <1>3, <2>1, <2>2 DEF Outcome, NotifyOutcomes
<1> QED  BY <1>2, <1>3

(* A queue that has got longer keeps what it had.                            *)
LEMMA QueueAppend ==
  ASSUME Types, NEW d \in {"state", "barrier"}
  PROVE  /\ Append(queue, d) \in Seq({"state", "barrier"})
         /\ Len(Append(queue, d)) = Len(queue) + 1 /\ Len(queue) \in Nat
         /\ Append(queue, d)[Len(queue) + 1] = d
  BY DEF Types

(* sd_pid_notify_with_fds queues one datagram or none.                       *)
LEMMA NotifyStep ==
  ASSUME IInv, NEW unset \in BOOLEAN, sd_pid_notify_with_fds(unset)
  PROVE  IInv'
<1> USE DEF sd_pid_notify_with_fds
<1>1. Types /\ AllQueued /\ BarrierQueued /\ BarrierMeansConsumed /\ pc = "idle" /\ calls < MaxCalls
  BY DEF IInv, Calling
<1>2. PICK ucred \in BOOLEAN : \E o \in Outcome(ucred, "state") :
        /\ errno' = o.errno
        /\ queue' = o.queue
        /\ sent' = sent + Len(o.queue) - Len(queue)
        /\ Returns("notify", o.r)
  BY DEF Credentials
<1>3. PICK o \in Outcome(ucred, "state") :
        /\ errno' = o.errno
        /\ queue' = o.queue
        /\ sent' = sent + Len(o.queue) - Len(queue)
        /\ Returns("notify", o.r)
  BY <1>2
<1>4. /\ o.errno \in Errnos /\ Result(o.r)
      /\ o.queue = queue \/ (manager = "up" /\ o.queue = Append(queue, "state"))
  BY <1>1, OutcomeProperties
<1>5. /\ queue' \in Seq({"state", "barrier"})
      /\ (queue' = queue /\ sent' = sent) \/ (Len(queue') = Len(queue) + 1 /\ sent' = sent + 1)
  <2>1. sent \in Nat /\ Len(queue) \in Nat
    BY <1>1 DEF Types
  <2>2. CASE o.queue = queue
    BY <1>1, <1>3, <2>1, <2>2 DEF Types
  <2>3. CASE o.queue = Append(queue, "state")
    BY <1>1, <1>3, <2>1, <2>3, QueueAppend
  <2> QED  BY <1>4, <2>2, <2>3
<1>6. last'.fn = "notify" /\ last'.r = o.r /\ calls' = calls + 1
  BY <1>3 DEF Returns
<1>7. env' \in Environments
  BY <1>1, EnvKept
<1>11. Types'
  <2>1. calls' \in 0..MaxCalls
    BY <1>1, <1>6, SdAssumption DEF Types
  <2>2. sent' \in Nat
    BY <1>1, <1>5 DEF Types
  <2> QED  BY <1>1, <1>3, <1>4, <1>5, <1>6, <1>7, <2>1, <2>2 DEF Types, Result, Errnos
<1>12. AllQueued'
  BY <1>1, <1>5 DEF AllQueued, Types
<1>13. BarrierQueued' /\ BarrierMeansConsumed'
  BY <1>1, <1>6 DEF BarrierQueued, BarrierMeansConsumed
<1> QED  BY <1>11, <1>12, <1>13 DEF IInv

(* sd_notify_barrier queues its datagram behind those sent before, and       *)
(* waits.                                                                    *)
LEMMA BarrierStep ==
  ASSUME IInv, NEW unset \in BOOLEAN, sd_notify_barrier(unset)
  PROVE  IInv'
<1> USE DEF sd_notify_barrier
<1>1. Types /\ AllQueued /\ BarrierQueued /\ BarrierMeansConsumed /\ pc = "idle" /\ calls < MaxCalls
  BY DEF IInv, Calling
<1>2. PICK o \in Outcome(FALSE, "barrier") :
        /\ errno' = o.errno
        /\ queue' = o.queue
        /\ sent' = sent + Len(o.queue) - Len(queue)
        /\ IF o.r = Ok(1)
           THEN pc' = "waiting" /\ mark' = sent /\ UNCHANGED <<last, calls>>
           ELSE Returns("barrier", NegErrno(o.errno)) /\ UNCHANGED <<pc, mark>>
  OBVIOUS
<1>3. /\ o.errno \in Errnos
      /\ \/ o.r # Ok(1) /\ o.queue = queue
         \/ o.r = Ok(1) /\ manager = "up" /\ o.queue = Append(queue, "barrier")
  BY <1>1, OutcomeProperties
<1>4. env' \in Environments
  BY <1>1, EnvKept
<1>5. sent \in Nat /\ read \in Nat /\ Len(queue) \in Nat
  BY <1>1 DEF Types
<1>6. CASE o.r # Ok(1) /\ o.queue = queue
  <2>1. sent' = sent /\ queue' = queue
    BY <1>2, <1>5, <1>6
  <2>2. Result(NegErrno(o.errno)) /\ NegErrno(o.errno) # Ok(1)
    BY <1>3, SmallResults, ResultRecords DEF Errnos
  <2>3. Returns("barrier", NegErrno(o.errno)) /\ cloexec \subseteq open
    BY <1>1, <1>2, <1>6 DEF Types
  <2> QED  BY <1>2, <1>3, <1>4, <1>6, <2>1, <2>2, <2>3, CallStep
<1>7. CASE o.r = Ok(1) /\ manager = "up" /\ o.queue = Append(queue, "barrier")
  <2>1. /\ queue' \in Seq({"state", "barrier"}) /\ Len(queue') = Len(queue) + 1
        /\ queue'[Len(queue) + 1] = "barrier"
    BY <1>1, <1>2, <1>7, QueueAppend
  <2>2. sent' = sent + 1 /\ pc' = "waiting" /\ mark' = sent /\ UNCHANGED <<last, calls>>
    BY <1>2, <1>5, <1>7, <2>1
  <2>3. Types'
    BY <1>1, <1>2, <1>3, <1>4, <1>5, <2>1, <2>2 DEF Types, Errnos
  <2>4. AllQueued'
    BY <1>1, <1>5, <2>1, <2>2 DEF AllQueued
  <2>5. BarrierQueued'
    <3>1. sent + 1 - read = Len(queue) + 1
      BY <1>1, <1>5, <1>7 DEF AllQueued
    <3> QED  BY <1>5, <2>1, <2>2, <3>1 DEF BarrierQueued
  <2>6. BarrierMeansConsumed'
    BY <2>2 DEF BarrierMeansConsumed
  <2> QED  BY <2>3, <2>4, <2>5, <2>6 DEF IInv
<1> QED  BY <1>3, <1>6, <1>7

(* fd_wait_for_event returns: the other end was closed, or it fails.         *)
LEMMA WaitStep ==
  ASSUME IInv, fd_wait_for_event
  PROVE  IInv'
<1>1. Types /\ AllQueued /\ BarrierQueued /\ BarrierMeansConsumed
  BY DEF IInv
<1>2. ASSUME NEW r, NEW e \in Errnos, Result(r), BarrierEnds(r, e), r = Ok(1) => HungUp
      PROVE  IInv'
  <2> USE DEF BarrierEnds
  <2>1. last'.fn = "barrier" /\ last'.r = r /\ calls' = calls + 1
    BY <1>2 DEF Returns
  <2>2. Types'
    <3>1. calls' \in 0..MaxCalls
      BY <1>1, <1>2, <2>1, SdAssumption DEF Types
    <3> QED  BY <1>1, <1>2, <2>1, <3>1 DEF Types, Result, Errnos
  <2>3. AllQueued' /\ BarrierQueued'
    BY <1>1, <1>2 DEF AllQueued, BarrierQueued
  <2>4. BarrierMeansConsumed'
    <3> SUFFICES ASSUME r = Ok(1), manager = "up" PROVE read > mark
      BY <1>1, <1>2, <2>1 DEF BarrierMeansConsumed, Types
    <3>1. HungUp /\ DOMAIN queue = 1..Len(queue)
      BY <1>1, <1>2 DEF Types
    <3>2. ~(read <= mark)
      BY <1>1, <1>2, <3>1 DEF BarrierQueued, HungUp
    <3> QED  BY <1>1, <3>2 DEF Types
  <2> QED  BY <2>2, <2>3, <2>4 DEF IInv
<1>3. errno \in Errnos /\ "EINTR" \in Errnos /\ \A e : Err(e) # Ok(1)
  BY <1>1, ResultRecords DEF Types, Errnos, Errors
<1>4. Result(Ok(1)) /\ Result(Err("ETIMEDOUT")) /\ Result(Err("EINTR"))
  BY SmallResults DEF Errors
<1> QED  BY <1>2, <1>3, <1>4 DEF fd_wait_for_event

(* The service manager reads a datagram, and closes the descriptor that came *)
(* with a barrier, or goes away.                                             *)
LEMMA ManagerStep ==
  ASSUME IInv, ManagerReads \/ ManagerGoes
  PROVE  IInv'
<1>1. Types /\ AllQueued /\ BarrierQueued /\ BarrierMeansConsumed
  BY DEF IInv
<1>2. CASE ManagerReads
  <2> USE <1>2 DEF ManagerReads
  <2>1. /\ queue' \in Seq({"state", "barrier"}) /\ Len(queue') = Len(queue) - 1 /\ Len(queue) \in Nat
        /\ \A i \in 1..Len(queue') : queue'[i] = queue[i + 1]
    BY <1>1 DEF Types
  <2>2. Types'
    BY <1>1, <2>1 DEF Types
  <2>3. AllQueued'
    BY <1>1, <2>1 DEF AllQueued, Types
  <2>4. BarrierQueued'
    <3> SUFFICES ASSUME pc = "waiting", read + 1 <= mark
                 PROVE  mark + 1 - (read + 1) \in 1..Len(queue') /\ queue'[mark + 1 - (read + 1)] = "barrier"
      BY DEF BarrierQueued
    <3>1. read \in Nat /\ mark \in Nat
      BY <1>1 DEF Types
    <3>2. mark + 1 - read \in 1..Len(queue) /\ queue[mark + 1 - read] = "barrier"
      BY <1>1, <3>1 DEF BarrierQueued
    <3>3. mark + 1 - (read + 1) \in 1..Len(queue') /\ (mark + 1 - (read + 1)) + 1 = mark + 1 - read
      BY <2>1, <3>1, <3>2
    <3> QED  BY <2>1, <3>2, <3>3
  <2>5. BarrierMeansConsumed'
    BY <1>1 DEF BarrierMeansConsumed, Types
  <2> QED  BY <2>2, <2>3, <2>4, <2>5 DEF IInv
<1>3. CASE ManagerGoes
  BY <1>1, <1>3 DEF ManagerGoes, IInv, Types, AllQueued, BarrierQueued, BarrierMeansConsumed
<1> QED  BY <1>2, <1>3

(* A daemon that was just started.                                           *)
LEMMA InitIInv == Init => IInv
<1> SUFFICES ASSUME Init PROVE IInv
  OBVIOUS
<1> USE DEF Init
<1>1. Types
  <2>1. env \in Environments /\ calls \in 0..MaxCalls
    BY SdAssumption
  <2>2. Result(last.r) /\ pc # "waiting"
    BY SmallResults
  <2>3. queue \in Seq({"state", "barrier"}) /\ sent \in Nat /\ read \in Nat /\ mark \in Nat
    OBVIOUS
  <2>4. errno \in Errors \ {"EINVAL", "ENOMEM", "ETIMEDOUT"}
    BY DEF Errors
  <2> QED  BY <2>1, <2>2, <2>3, <2>4 DEF Types, Result
<1> QED  BY <1>1 DEF IInv, AllQueued, BarrierQueued, BarrierMeansConsumed

(* Every call and every step of the service manager keeps the invariant.     *)
LEMMA NextIInv == IInv /\ [Next]_vars => IInv'
<1> SUFFICES ASSUME IInv, [Next]_vars PROVE IInv'
  OBVIOUS
<1>1. Types /\ env \in Environments /\ errno \in Errnos /\ cloexec \subseteq open
  BY DEF IInv, Types, Errnos
<1>2. \A e : Err(e) # Ok(1)
  BY ResultRecords
<1>3. CASE UNCHANGED vars
  BY <1>3 DEF vars, IInv, Types, AllQueued, BarrierQueued, BarrierMeansConsumed
<1>4. ASSUME NEW unset \in BOOLEAN, sd_listen_fds(unset) \/ sd_listen_fds_with_names(unset) PROVE IInv'
  BY <1>4, ListenStep
<1>5. ASSUME NEW unset \in BOOLEAN, sd_pid_notify_with_fds(unset) PROVE IInv'
  BY <1>5, NotifyStep
<1>6. ASSUME NEW unset \in BOOLEAN, sd_pid_notifyf(unset) PROVE IInv'
  <2>1. env' \in Environments
    BY <1>1, <1>6, EnvKept DEF sd_pid_notifyf
  <2>2. Result(Err("ENOMEM")) /\ Result(Err("EINVAL"))
    BY SmallResults DEF Errors
  <2> QED  BY <1>1, <1>6, <2>1, <2>2, CallStep DEF sd_pid_notifyf
<1>7. ASSUME NEW unset \in BOOLEAN, sd_notify_barrier(unset) PROVE IInv'
  BY <1>7, BarrierStep
<1>8. ASSUME NEW unset \in BOOLEAN, sd_watchdog_enabled(unset) PROVE IInv'
  BY <1>8, WatchdogStep
<1>9. CASE Classifies  BY <1>9, ClassifyStep
<1>10. CASE sd_booted
  <2>1. PICK e \in {"0", "ENOENT", "EACCES"} :
          /\ errno' = IF e = "0" THEN errno ELSE e
          /\ Returns("booted", IF e = "0" THEN Ok(1) ELSE IF e = "ENOENT" THEN Ok(0) ELSE Err(e))
    BY <1>10 DEF sd_booted
  <2>2. errno' \in Errnos /\ Result(IF e = "0" THEN Ok(1) ELSE IF e = "ENOENT" THEN Ok(0) ELSE Err(e))
    BY <1>1, <2>1, SmallResults DEF Errnos, Errors
  <2> QED  BY <1>1, <1>10, <2>1, <2>2, CallStep DEF sd_booted
<1>11. CASE PipeFails
  <2>1. Result(Err("EMFILE")) /\ "EMFILE" \in Errnos
    BY SmallResults DEF Errors, Errnos
  <2> QED  BY <1>1, <1>2, <1>11, <2>1, CallStep DEF PipeFails
<1>12. CASE fd_wait_for_event  BY <1>12, WaitStep
<1>13. ASSUME NEW fd \in DOMAIN Passed, DaemonCloses(fd) PROVE IInv'
  BY <1>13 DEF DaemonCloses, IInv, Types, AllQueued, BarrierQueued, BarrierMeansConsumed
<1>14. CASE ManagerReads \/ ManagerGoes  BY <1>14, ManagerStep
<1> QED
  BY <1>3, <1>4, <1>5, <1>6, <1>7, <1>8, <1>9, <1>10, <1>11, <1>12, <1>13, <1>14 DEF Next

(* The inductive invariant holds for any environment and descriptors.        *)
THEOREM Invariance == Spec => []IInv
  BY InitIInv, NextIInv, PTL DEF Spec

(* Types, and results that are a count or an error (sd-daemon.c).            *)
THEOREM TypeCorrect == Spec => []TypeOK
<1>1. IInv => TypeOK
  BY DEF IInv, Types, TypeOK
<1> QED  BY <1>1, Invariance, PTL

(* A barrier that succeeds means that everything sent before it was read, or *)
(* that there is no manager to read it (sd_notify_barrier).                  *)
THEOREM BarrierConsumed == Spec => []BarrierMeansConsumed
<1>1. IInv => BarrierMeansConsumed
  BY DEF IInv
<1> QED  BY <1>1, Invariance, PTL

-----------------------------------------------------------------------------
(* Only sd_listen_fds, by either name, returns what ListenFds says.          *)
LEMMA WhoAnswers ==
  ASSUME Types, [Next]_vars
  PROVE  Answers("listen") => /\ last'.r = ListenFds.r
                              /\ cloexec' = ListenFds.cloexec /\ open' = open
<1> DEFINE Goal == Answers("listen") => /\ last'.r = ListenFds.r
                                        /\ cloexec' = ListenFds.cloexec /\ open' = open
<1> SUFFICES Goal
  OBVIOUS
<1>1. \A r : Returns("notify", r) \/ Returns("barrier", r) \/ Returns("is", r) \/ Returns("booted", r) => Goal
  BY DEF Returns, Answers
<1>2. CASE UNCHANGED calls
  BY <1>2 DEF Answers
<1>3. ASSUME NEW unset \in BOOLEAN, sd_listen_fds(unset) \/ sd_listen_fds_with_names(unset) PROVE Goal
  BY <1>3 DEF sd_listen_fds, sd_listen_fds_with_names, Returns, Answers
<1>4. ASSUME NEW unset \in BOOLEAN, sd_watchdog_enabled(unset) PROVE Goal
  BY <1>4 DEF sd_watchdog_enabled, Returns, Answers
<1> HIDE DEF Goal
<1>5. ASSUME NEW unset \in BOOLEAN,
             sd_pid_notify_with_fds(unset) \/ sd_pid_notifyf(unset) \/ sd_notify_barrier(unset)
      PROVE  Goal
  <2>1. (\E r : Returns("notify", r) \/ Returns("barrier", r)) \/ UNCHANGED calls
    BY <1>5 DEF sd_pid_notify_with_fds, sd_pid_notifyf, sd_notify_barrier
  <2> QED  BY <1>1, <1>2, <2>1
<1>6. CASE Classifies
  <2>1. \E r : Returns("is", r)
    BY <1>6 DEF Classifies, Classify
  <2> QED  BY <1>1, <2>1
<1>7. CASE sd_booted \/ PipeFails \/ fd_wait_for_event
  <2>1. CASE sd_booted
    <3>1. \E r : Returns("booted", r)
      BY <2>1 DEF sd_booted
    <3> QED  BY <1>1, <3>1
  <2>2. CASE PipeFails
    BY <1>1, <2>2 DEF PipeFails
  <2>3. CASE fd_wait_for_event
    <3>1. \E r : Returns("barrier", r)
      BY <2>3 DEF fd_wait_for_event, BarrierEnds
    <3> QED  BY <1>1, <3>1
  <2> QED  BY <1>7, <2>1, <2>2, <2>3
<1>8. CASE (\E fd \in DOMAIN Passed : DaemonCloses(fd)) \/ ManagerReads \/ ManagerGoes \/ UNCHANGED vars
  BY <1>2, <1>8 DEF DaemonCloses, ManagerReads, ManagerGoes, vars
<1> QED  BY <1>3, <1>4, <1>5, <1>6, <1>7, <1>8 DEF Next, Goal

(* Whatever the variables hold, numbers that wrap included, and whatever was *)
(* closed or tried before, the descriptors a call of sd_listen_fds announces *)
(* are open and closed on exec.                                              *)
THEOREM ClaimUsable == Spec => ClaimIsUsable
<1>1. ASSUME IInv, [Next]_vars
      PROVE  Answers("listen") /\ last'.r.ok => ListenRange(last'.r.n) \subseteq cloexec' \cap open'
  <2>1. Types
    BY <1>1 DEF IInv
  <2>2. SUFFICES ASSUME Answers("listen"), last'.r.ok
                 PROVE  ListenRange(last'.r.n) \subseteq cloexec' \cap open'
    OBVIOUS
  <2>3. last'.r = ListenFds.r /\ cloexec' = ListenFds.cloexec /\ open' = open
    BY <1>1, <2>1, <2>2, WhoAnswers
  <2> QED  BY <2>1, <2>2, <2>3, ListenAnswer
<1> QED  BY <1>1, Invariance, PTL DEF Spec, ClaimIsUsable

-----------------------------------------------------------------------------
(* What the predicates test of an open descriptor; of a closed one they say  *)
(* nothing.                                                                  *)
LEMMA SocketYes ==
  ASSUME Types, NEW fd, NEW test \in BOOLEAN
  PROVE  Yes(AndThen(sd_is_socket_internal(fd, "any", "any"), test)) <=>
           fd \in open /\ Passed[fd].type = "sock" /\ test
<1> DEFINE s == sd_is_socket_internal(fd, "any", "any")
<1>1. Ok(0) # Ok(1) /\ \A e : Err(e) # Ok(1)
  BY ResultRecords
<1>2. CASE IsClosed(fd)
  <2>1. s.r = Err("EBADF")
    BY <1>2 DEF sd_is_socket_internal, Fails
  <2> QED  BY <1>1, <1>2, <2>1 DEF AndThen, Yes, IsClosed
<1>3. CASE ~IsClosed(fd) /\ Passed[fd].type # "sock"
  <2>1. s.r = Ok(0)
    BY <1>3 DEF sd_is_socket_internal, Res
  <2> QED  BY <1>1, <1>3, <2>1 DEF AndThen, Yes
<1>4. CASE ~IsClosed(fd) /\ Passed[fd].type = "sock"
  <2>1. s.r = Ok(1)
    BY <1>4 DEF sd_is_socket_internal, Res, Truth
  <2> QED  BY <1>1, <1>4, <2>1 DEF AndThen, Yes, Res, Truth, IsClosed
<1> QED  BY <1>2, <1>3, <1>4

(* A fifo, or a special or regular file, is what the type says it is.        *)
LEMMA FileYes ==
  ASSUME Types, NEW fd, NEW path
  PROVE  /\ Yes(sd_is_fifo(fd, path)) => fd \in open /\ Passed[fd].type = "fifo"
         /\ Yes(sd_is_spskal(fd, path)) => fd \in open /\ Passed[fd].type \in {"reg", "chr"}
<1>1. Ok(0) # Ok(1) /\ \A e : Err(e) # Ok(1)
  BY ResultRecords
<1>2. CASE IsClosed(fd)
  BY <1>1, <1>2 DEF sd_is_fifo, sd_is_spskal, Fails, Yes
<1>3. CASE ~IsClosed(fd)
  BY <1>1, <1>3 DEF sd_is_fifo, sd_is_spskal, Res, Yes, IsClosed
<1> QED  BY <1>2, <1>3

(* The predicates never contradict each other, whichever descriptors are     *)
(* still open.                                                               *)
THEOREM KindsNeverMix == Spec => []KindsExclusive
<1>1. IInv => KindsExclusive
  <2> SUFFICES ASSUME IInv, NEW fd \in DOMAIN Passed
               PROVE  LET Inet(port) == Yes(sd_is_socket_inet(fd, "any", "any", "any", port))
                          Local(ns) == Yes(sd_is_socket_unix(fd, "any", "any", ns))
                          Socket(family) == Yes(sd_is_socket(fd, family, "any", "any"))
                      IN  /\ \A ns \in {"NULL", "path", "abstract", "unnamed"} :
                                Local(ns) => Socket("unix") /\ ~Inet(0)
                          /\ \A port \in {0, 80} : Inet(port) => Inet(0) /\ (Socket("inet") \/ Socket("inet6"))
                          /\ \A f \in {"inet", "inet6"}, a \in {"any", "lo"} :
                                Yes(sd_is_socket_sockaddr(fd, "any", f, a, 0, "any")) => Inet(0) /\ Socket(f)
                          /\ \A path \in Paths :
                                Yes(sd_is_fifo(fd, path)) => ~Socket("any") /\ ~Yes(sd_is_spskal(fd, "NULL"))
    BY DEF KindsExclusive
  <2> DEFINE Inet(port) == Yes(sd_is_socket_inet(fd, "any", "any", "any", port))
             Local(ns) == Yes(sd_is_socket_unix(fd, "any", "any", ns))
             Socket(family) == Yes(sd_is_socket(fd, family, "any", "any"))
             Addr(f, a) == Yes(sd_is_socket_sockaddr(fd, "any", f, a, 0, "any"))
             IsSocket == fd \in open /\ Passed[fd].type = "sock"
  <2>0. Types
    BY DEF IInv
  <2>1. \A port : Inet(port) <=> /\ IsSocket /\ Passed[fd].family \in {"inet", "inet6"}
                                 /\ port \in {0, Passed[fd].port}
    BY <2>0, SocketYes DEF sd_is_socket_inet
  <2>2. \A ns : Local(ns) <=> IsSocket /\ Passed[fd].family = "unix" /\ ns \in {"NULL", Passed[fd].ns}
    BY <2>0, SocketYes DEF sd_is_socket_unix
  <2>3. \A family : Socket(family) <=> IsSocket /\ family \in {"any", Passed[fd].family}
    <3> TAKE family
    <3> DEFINE test == family \in {"any", Passed[fd].family}
    <3>1. Socket(family) <=> Yes(AndThen(sd_is_socket_internal(fd, "any", "any"), test))
      BY DEF sd_is_socket
    <3>2. Yes(AndThen(sd_is_socket_internal(fd, "any", "any"), test)) <=> IsSocket /\ test
      <4>1. test \in BOOLEAN
        OBVIOUS
      <4> HIDE DEF test
      <4> QED  BY <2>0, <4>1, SocketYes
    <3> QED  BY <3>1, <3>2
  <2>4. \A f, a : Addr(f, a) => IsSocket /\ Passed[fd].family = f
    BY <2>0, SocketYes DEF sd_is_socket_sockaddr
  <2>5. \A path : /\ Yes(sd_is_fifo(fd, path)) => Passed[fd].type = "fifo"
                  /\ Yes(sd_is_spskal(fd, path)) => Passed[fd].type \in {"reg", "chr"}
    BY <2>0, FileYes
  <2> HIDE DEF Inet, Local, Socket, Addr
  <2>6. \A ns : Local(ns) => Socket("unix") /\ ~Inet(0)
    BY <2>1, <2>2, <2>3
  <2>7. \A port : Inet(port) => Inet(0) /\ (Socket("inet") \/ Socket("inet6"))
    BY <2>1, <2>3
  <2>8. \A f \in {"inet", "inet6"}, a \in {"any", "lo"} : Addr(f, a) => Inet(0) /\ Socket(f)
    BY <2>1, <2>3, <2>4
  <2>9. \A path : Yes(sd_is_fifo(fd, path)) => ~Socket("any") /\ ~Yes(sd_is_spskal(fd, "NULL"))
    BY <2>3, <2>5
  <2> QED  BY <2>6, <2>7, <2>8, <2>9 DEF Inet, Local, Socket, Addr
<1> QED  BY <1>1, Invariance, PTL
=============================================================================
