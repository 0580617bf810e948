------------------------------ MODULE SdDaemon ------------------------------
(* The sd-daemon compatibility library (src/lib/eci-daemon/sd-daemon.c) in a *)
(* daemon that makes any calls in any order, and the service manager at the  *)
(* other end of $NOTIFY_SOCKET.  What the calls share is the environment,    *)
(* errno, which no call clears and several test, and the descriptor table.   *)
EXTENDS Integers, Sequences, FiniteSets

CONSTANTS Passed,      \* the descriptors handed over: a function from numbers
                       \* 3, 4, ... to descriptors
          Envs,        \* the environments the daemon may be started with
          IntMax,      \* the largest int and pid_t, 2^31 - 1 in the build
          MaxCalls     \* bound: calls made of the library

SD_LISTEN_FDS_START == 3

(* Values of a numeric variable: no variable, text that is no number, text   *)
(* that strtoul() finds too large, or the unsigned long it gives.  Of        *)
(* WATCHDOG_USEC USEC_INFINITY is refused as 0 is, and counts as Bad.        *)
Unset == -1
Bad == -2
Huge == -3
SelfPid == 1

Sockets == [type : {"sock"}, node : {"sock"}, kind : {"stream", "dgram"}, listening : BOOLEAN,
            family : {"inet", "inet6", "unix", "other"}, addr : {"any", "lo"}, port : {0, 80},
            ns : {"unnamed", "path", "abstract"}]
Files == [type : {"fifo", "reg", "chr"}, node : {"A", "B"}]

Numeric == {Unset, Bad, Huge} \cup Nat
Environments == [listenPid : Numeric, listenFds : Numeric, names : {"unset", "empty", "two"},
                 notify : BOOLEAN, usec : Numeric, wdPid : Numeric]

ASSUME SdAssumption ==
  /\ Envs \subseteq Environments
  /\ IsFiniteSet(DOMAIN Passed)
  /\ DOMAIN Passed = SD_LISTEN_FDS_START..(SD_LISTEN_FDS_START + Cardinality(DOMAIN Passed) - 1)
  /\ \A fd \in DOMAIN Passed : Passed[fd] \in Sockets \cup Files
  /\ MaxCalls \in Nat
  /\ IntMax \in Nat /\ IntMax >= SD_LISTEN_FDS_START + Cardinality(DOMAIN Passed)

VARIABLES
  env,        \* LISTEN_PID, LISTEN_FDS, LISTEN_FDNAMES, NOTIFY_SOCKET, WATCHDOG_*
  root,       \* may the daemon pass SO_SNDBUFFORCE and foreign credentials?
  errno, open, cloexec,         \* of the daemon
  last,       \* the call that returned last, with what it returned
  pc,         \* "idle", or where in a call the daemon is
  calls,      \* calls made
  queue,      \* datagrams on the notification socket
  sent, read, \* datagrams sent, and read by the service manager
  mark,       \* sent, when the current barrier was sent
  manager     \* "up" or "down"

vars == <<env, root, errno, open, cloexec, last, pc, calls, queue, sent, read, mark, manager>>

Ok(n) == [ok |-> TRUE, n |-> n]
Err(e) == [ok |-> FALSE, e |-> e]
NegErrno(e) == IF e = "0" THEN Ok(0) ELSE Err(e)

Init == /\ env \in Envs
        /\ root \in BOOLEAN
        /\ errno = "0"
        /\ open = DOMAIN Passed /\ cloexec = {}
        /\ last = [fn |-> "none", r |-> Ok(0)]
        /\ pc = "idle" /\ calls = 0
        /\ queue = <<>> /\ sent = 0 /\ read = 0 /\ mark = 0
        /\ manager = "up"

Calling == pc = "idle" /\ calls < MaxCalls
Returns(f, r) == /\ last' = [fn |-> f, r |-> r]
                 /\ calls' = calls + 1

-----------------------------------------------------------------------------
(* Socket activation.                                                        *)
unsetenv_all(unset) ==
  env' = IF unset THEN [env EXCEPT !.listenPid = Unset, !.listenFds = Unset, !.names = "unset"] ELSE env

(* The value strtoul() leaves in errno.                                      *)
Strtoul(v) == IF v = Huge THEN "ERANGE" ELSE errno

ListenRange(n) == SD_LISTEN_FDS_START..(SD_LISTEN_FDS_START + n - 1)

(* The loop sets the flag up to the first descriptor that is not open.       *)
SetCloexecShort(n) == cloexec \cup {fd \in ListenRange(n) : SD_LISTEN_FDS_START..(fd + 1) \subseteq open}

SetCloexec(n) == cloexec \cup {fd \in ListenRange(n) : SD_LISTEN_FDS_START..fd \subseteq open}

(* An unsigned long assigned to an int or a pid_t; what is no number stays   *)
(* negative.                                                                 *)
Narrowed(v) ==
  LET low == v % (2 * (IntMax + 1))
  IN  IF v < 0 THEN v ELSE IF low > IntMax THEN low - 2 * (IntMax + 1) ELSE low

ForUs == Narrowed(env.listenPid) = SelfPid

(* What the call returns, the errno and the close-on-exec flags it leaves.   *)
ListenFds ==
  LET e1 == Strtoul(env.listenPid)
      e2 == IF env.listenFds = Huge THEN "ERANGE" ELSE e1
      pid == Narrowed(env.listenPid)
      n == Narrowed(env.listenFds)
      Plain(r, e) == [r |-> r, errno |-> e, cloexec |-> cloexec]
  IN  CASE env.listenPid = Unset -> Plain(Ok(0), errno)
        [] env.listenPid # Unset /\ e1 # "0" -> Plain(NegErrno(e1), e1)
        [] env.listenPid # Unset /\ e1 = "0" /\ pid <= 0 -> Plain(Err("EINVAL"), e1)
        [] e1 = "0" /\ pid > 0 /\ ~ForUs -> Plain(Ok(0), e1)
        [] ForUs /\ e1 = "0" /\ env.listenFds = Unset -> Plain(Ok(0), e1)
        [] ForUs /\ e1 = "0" /\ env.listenFds # Unset /\ e2 # "0" -> Plain(NegErrno(e2), e2)
        [] ForUs /\ e2 = "0" /\ env.listenFds # Unset /\ n \notin 1..(IntMax - SD_LISTEN_FDS_START) ->
             Plain(Err("EINVAL"), e2)
        [] OTHER -> IF ListenRange(n) \subseteq open
                    THEN [r |-> Ok(n), errno |-> e2, cloexec |-> SetCloexec(n)]
                    ELSE [r |-> Err("EBADF"), errno |-> "EBADF", cloexec |-> SetCloexec(n)]

sd_listen_fds(unset) ==
  /\ Calling
  /\ errno' = ListenFds.errno
  /\ cloexec' = ListenFds.cloexec
  /\ unsetenv_all(unset)
  /\ Returns("listen", ListenFds.r)
  /\ UNCHANGED <<root, open, pc, queue, sent, read, mark, manager>>

(* With names, strtok_r() is called once and its result tested for ever, the *)
(* array growing until there is no memory left; an empty list is a write     *)
(* through NULL.  Without, the names are "unknown".                          *)
sd_listen_fds_with_names(unset) ==
  /\ Calling
  /\ \/ /\ env.names = "unset"
        /\ errno' = ListenFds.errno
        /\ cloexec' = ListenFds.cloexec
        /\ unsetenv_all(unset)
        /\ Returns("listen", ListenFds.r)
        /\ UNCHANGED pc
     \/ /\ env.names # "unset"
        /\ pc' \in IF env.names = "empty" THEN {"crashed"} ELSE {"spinning", "crashed"}
        /\ UNCHANGED <<errno, cloexec, env, last, calls>>
  /\ UNCHANGED <<root, open, queue, sent, read, mark, manager>>

-----------------------------------------------------------------------------
(* Classifying descriptors; the node of a file is its inode, that of a       *)
(* character device its device number.  Each operator gives the result and   *)
(* the errno the call leaves; fstat() fails on a closed descriptor.          *)
Res(r) == [r |-> r, errno |-> errno]
Fails(e) == [r |-> Err(e), errno |-> e]
Truth(b) == Ok(IF b THEN 1 ELSE 0)
IsClosed(fd) == fd \notin open

Paths == {"NULL", "missing", "denied", "A", "B"}

(* The comparison of an open file with the one stat() finds at path.         *)
SameFile(fd, path) ==
  CASE path = "NULL" -> Res(Ok(1))
    [] path = "missing" -> [r |-> Ok(0), errno |-> "ENOENT"]
    [] path = "denied" -> Fails("EACCES")
    [] OTHER -> Res(Truth(Passed[fd].node = path))

sd_is_fifo(fd, path) ==
  CASE IsClosed(fd) -> Fails("EBADF")
    [] ~IsClosed(fd) /\ Passed[fd].type # "fifo" -> Res(Ok(0))
    [] OTHER -> SameFile(fd, path)

sd_is_spskal(fd, path) ==
  CASE IsClosed(fd) -> Fails("EBADF")
    [] ~IsClosed(fd) /\ Passed[fd].type \notin {"reg", "chr"} -> Res(Ok(0))
    [] OTHER -> SameFile(fd, path)

(* type "any" is the code's 0, listening "any" its -1.                       *)
sd_is_socket_internal(fd, kind, listening) ==
  CASE IsClosed(fd) -> Fails("EBADF")
    [] ~IsClosed(fd) /\ Passed[fd].type # "sock" -> Res(Ok(0))
    [] OTHER -> Res(Truth(/\ kind \in {"any", Passed[fd].kind}
                          /\ listening \in {"any", IF Passed[fd].listening THEN "yes" ELSE "no"}))

AndThen(res, test) == IF res.r = Ok(1) THEN Res(Truth(test)) ELSE res

sd_is_socket(fd, family, kind, listening) ==
  AndThen(sd_is_socket_internal(fd, kind, listening), family \in {"any", Passed[fd].family})

sd_is_socket_inet(fd, family, kind, listening, port) ==
  AndThen(sd_is_socket_internal(fd, kind, listening),
          /\ Passed[fd].family \in {"inet", "inet6"}
          /\ family \in {"any", Passed[fd].family}
          /\ port \in {0, Passed[fd].port})

sd_is_socket_sockaddr(fd, kind, family, addr, port, listening) ==
  AndThen(sd_is_socket_internal(fd, kind, listening),
          /\ Passed[fd].family = family
          /\ port \in {0, Passed[fd].port}
          /\ Passed[fd].addr = addr)

sd_is_socket_unix_any(fd, kind, listening, ns) ==
  AndThen(sd_is_socket_internal(fd, kind, listening), ns \in {"NULL", Passed[fd].ns})

sd_is_socket_unix(fd, kind, listening, ns) ==
  AndThen(sd_is_socket_internal(fd, kind, listening),
          /\ Passed[fd].family = "unix"
          /\ ns \in {"NULL", Passed[fd].ns})

sd_is_mq == Res(Ok(0))

Classify(res) ==
  /\ Calling
  /\ errno' = res.errno
  /\ Returns("is", res.r)
  /\ UNCHANGED <<env, root, open, cloexec, pc, queue, sent, read, mark, manager>>

Classifies ==
  \E fd \in DOMAIN Passed :
    \/ \E path \in Paths : Classify(sd_is_fifo(fd, path)) \/ Classify(sd_is_spskal(fd, path))
    \/ Classify(sd_is_socket(fd, "any", "any", "any"))
    \/ Classify(sd_is_socket_inet(fd, "any", "any", "any", 80))
    \/ Classify(sd_is_socket_sockaddr(fd, "any", "inet", "lo", 0, "any"))
    \/ Classify(sd_is_socket_unix(fd, "any", "any", "NULL"))
    \/ Classify(sd_is_mq)

(* The daemon closes a descriptor it was passed.                             *)
DaemonCloses(fd) ==
  /\ pc = "idle" /\ fd \in open
  /\ open' = open \ {fd}
  /\ cloexec' = cloexec \ {fd}
  /\ UNCHANGED <<env, root, errno, last, pc, calls, queue, sent, read, mark, manager>>

-----------------------------------------------------------------------------
(* Notifications.  Enlarging the socket's buffer is tried and its failure    *)
(* ignored, but SO_SNDBUFFORCE leaves EPERM in errno without privilege.      *)
AfterSndbuf == IF root THEN {errno} ELSE {errno, "EPERM"}

Credentials == BOOLEAN       \* pid of another process, or set-uid: send_ucred

UnsetNotify(unset) == IF unset THEN [env EXCEPT !.notify = FALSE] ELSE env

(* The two sendmsg(): the second, without credentials, is tried when the     *)
(* first was refused for them.                                               *)
FirstFails(ucred) == manager = "down" \/ (ucred /\ ~root)

(* sd_pid_notify_with_fds with its result, errno and datagram; d is a        *)
(* descriptor passed along.  socket() may fail.                              *)
NotifyOutcomes(ucred, d) ==
  {[r |-> Err("EMFILE"), errno |-> "EMFILE", queue |-> queue]} \cup
  {[r |-> IF manager = "down" THEN Err("ECONNREFUSED") ELSE Ok(1),
    errno |-> IF FirstFails(ucred) THEN (IF manager = "down" THEN "ECONNREFUSED" ELSE "EPERM") ELSE e,
    queue |-> IF manager = "down" THEN queue ELSE Append(queue, d)] : e \in AfterSndbuf}

Outcome(ucred, d) == IF env.notify THEN NotifyOutcomes(ucred, d)
                     ELSE {[r |-> Ok(0), errno |-> errno, queue |-> queue]}

sd_pid_notify_with_fds(unset) ==
  /\ Calling
  /\ \E ucred \in Credentials : \E o \in Outcome(ucred, "state") :
       /\ errno' = o.errno
       /\ queue' = o.queue
       /\ sent' = sent + Len(o.queue) - Len(queue)
       /\ Returns("notify", o.r)
  /\ env' = UnsetNotify(unset)
  /\ UNCHANGED <<root, open, cloexec, pc, read, mark, manager>>

(* The formatting wrappers: no memory for the text, or no format, which is   *)
(* a NULL state.                                                             *)
sd_pid_notifyf(unset) ==
  /\ Calling
  /\ \/ Returns("notify", Err("ENOMEM")) /\ UNCHANGED env
     \/ Returns("notify", Err("EINVAL")) /\ env' = UnsetNotify(unset)
  /\ UNCHANGED <<root, errno, open, cloexec, pc, queue, sent, read, mark, manager>>

(* A barrier: a pipe of which the service manager gets the only writing end. *)
sd_notify_barrier(unset) ==
  /\ Calling
  /\ env' = UnsetNotify(unset)
  /\ \E o \in Outcome(FALSE, "barrier") :
       /\ errno' = o.errno
       /\ queue' = o.queue
       /\ sent' = sent + Len(o.queue) - Len(queue)
       /\ IF o.r = Ok(1)
          THEN pc' = "waiting" /\ mark' = sent /\ UNCHANGED <<last, calls>>
          ELSE Returns("barrier", NegErrno(o.errno)) /\ UNCHANGED <<pc, mark>>
  /\ UNCHANGED <<root, open, cloexec, read, manager>>

PipeFails ==
  /\ Calling
  /\ errno' = "EMFILE"
  /\ Returns("barrier", Err("EMFILE"))
  /\ UNCHANGED <<env, root, open, cloexec, pc, queue, sent, read, mark, manager>>

(* The writing end is gone once no datagram holds it.                        *)
HungUpEarly == TRUE

HungUp == \A i \in DOMAIN queue : queue[i] # "barrier"

BarrierEnds(r, e) ==
  /\ pc = "waiting"
  /\ pc' = "idle"
  /\ errno' = e
  /\ Returns("barrier", r)
  /\ UNCHANGED <<env, root, open, cloexec, queue, sent, read, mark, manager>>

fd_wait_for_event == \/ HungUp /\ BarrierEnds(Ok(1), errno)
                     \/ ~HungUp /\ BarrierEnds(Err("ETIMEDOUT"), errno)
                     \/ BarrierEnds(Err("EINTR"), "EINTR")

sd_booted ==
  /\ Calling
  /\ \E e \in {"0", "ENOENT", "EACCES"} :
       /\ errno' = IF e = "0" THEN errno ELSE e
       /\ Returns("booted", IF e = "0" THEN Ok(1) ELSE IF e = "ENOENT" THEN Ok(0) ELSE Err(e))
  /\ UNCHANGED <<env, root, open, cloexec, pc, queue, sent, read, mark, manager>>

(* The watchdog: WATCHDOG_USEC keeps its width, WATCHDOG_PID is narrowed.    *)
Watchdog ==
  LET e1 == Strtoul(env.usec)
      e2 == IF env.wdPid = Huge THEN "ERANGE" ELSE e1
      pid == Narrowed(env.wdPid)
  IN  CASE env.usec = Unset -> Res(Ok(0))
        [] env.usec # Unset /\ e1 # "0" -> [r |-> NegErrno(e1), errno |-> e1]
        [] env.usec # Unset /\ e1 = "0" /\ env.usec <= 0 -> Res(Err("EINVAL"))
        [] env.usec > 0 /\ e1 = "0" /\ env.wdPid # Unset /\ e2 # "0" ->
             [r |-> NegErrno(e2), errno |-> e2]
        [] env.usec > 0 /\ e2 = "0" /\ env.wdPid # Unset /\ pid <= 0 -> Res(Err("EINVAL"))
        [] OTHER -> Res(Truth(env.wdPid = Unset \/ pid = SelfPid))

sd_watchdog_enabled(unset) ==
  /\ Calling
  /\ errno' = Watchdog.errno
  /\ Returns("watchdog", Watchdog.r)
  /\ env' = IF unset THEN [env EXCEPT !.usec = Unset, !.wdPid = Unset] ELSE env
  /\ UNCHANGED <<root, open, cloexec, pc, queue, sent, read, mark, manager>>

-----------------------------------------------------------------------------
(* The service manager reads a datagram, closing what came with it, or goes. *)
ManagerReads ==
  /\ manager = "up" /\ queue # <<>>
  /\ queue' = Tail(queue)
  /\ read' = read + 1
  /\ UNCHANGED <<env, root, errno, open, cloexec, last, pc, calls, sent, mark, manager>>

ManagerGoes ==
  /\ manager = "up"
  /\ manager' = "down"
  /\ queue' = <<>>
  /\ UNCHANGED <<env, root, errno, open, cloexec, last, pc, calls, sent, read, mark>>

Next ==
  \/ \E unset \in BOOLEAN :
       \/ sd_listen_fds(unset) \/ sd_listen_fds_with_names(unset)
       \/ sd_pid_notify_with_fds(unset) \/ sd_pid_notifyf(unset)
       \/ sd_notify_barrier(unset) \/ sd_watchdog_enabled(unset)
  \/ Classifies \/ sd_booted \/ PipeFails \/ fd_wait_for_event
  \/ \E fd \in DOMAIN Passed : DaemonCloses(fd)
  \/ ManagerReads \/ ManagerGoes

Spec == Init /\ [][Next]_vars

-----------------------------------------------------------------------------
Errors == {"0", "EINVAL", "ERANGE", "EBADF", "ENOENT", "EACCES", "EPERM", "EMFILE",
           "ENOMEM", "ECONNREFUSED", "ETIMEDOUT", "EINTR"}

(* Types, and that errno never holds a value a call returns by itself.       *)
TypeOK ==
  /\ errno \in Errors \ {"EINVAL", "ENOMEM", "ETIMEDOUT"}
  /\ open \subseteq DOMAIN Passed /\ cloexec \subseteq open
  /\ calls \in 0..MaxCalls
  /\ IF last.r.ok THEN last.r.n \in 0..Cardinality(DOMAIN Passed) \cup {1} ELSE last.r.e \in Errors \ {"0"}
  /\ pc \in {"idle", "waiting", "spinning", "crashed"}

(* A barrier that succeeds was read, and all that was sent before it, unless *)
(* the service manager is gone (sd_notify_barrier, sd-daemon.h:291).         *)
BarrierMeansConsumed ==
  pc = "idle" /\ last.fn = "barrier" /\ last.r = Ok(1) => read > mark \/ manager = "down"

Answers(f) == calls' # calls /\ last'.fn = f

(* Descriptors sd_listen_fds announces are all open and will not be          *)
(* inherited, whatever number LISTEN_FDS wraps to, also when some were       *)
(* closed since or an earlier attempt failed half-way (sd-daemon.h:65-67).   *)
ClaimIsUsable ==
  [][Answers("listen") /\ last'.r.ok => ListenRange(last'.r.n) \subseteq cloexec' \cap open']_vars

(* The predicates agree with each other: a descriptor is of one kind, an     *)
(* Internet or a local socket is a socket of that family, and never both.    *)
Yes(res) == res.r = Ok(1)

KindsExclusive ==
  \A fd \in DOMAIN Passed :
    LET Inet(port) == Yes(sd_is_socket_inet(fd, "any", "any", "any", port))
        Local(ns) == Yes(sd_is_socket_unix(fd, "any", "any", ns))
        Socket(family) == Yes(sd_is_socket(fd, family, "any", "any"))
    IN  /\ \A ns \in {"NULL", "path", "abstract", "unnamed"} : Local(ns) => Socket("unix") /\ ~Inet(0)
        /\ \A port \in {0, 80} : Inet(port) => Inet(0) /\ (Socket("inet") \/ Socket("inet6"))
        /\ \A f \in {"inet", "inet6"}, a \in {"any", "lo"} :
              Yes(sd_is_socket_sockaddr(fd, "any", f, a, 0, "any")) => Inet(0) /\ Socket(f)
        /\ \A path \in Paths :
              Yes(sd_is_fifo(fd, path)) => ~Socket("any") /\ ~Yes(sd_is_spskal(fd, "NULL"))
=============================================================================
