---------------------------- MODULE IP2UnixSocket ----------------------------
(***************************************************************************)
(* The socket interception state machine of ip2unix (src/socket.cc).      *)
(*                                                                         *)
(* The target program holds descriptors it believes are AF_INET sockets.  *)
(* For each of them the preloaded library keeps a Socket in the process-  *)
(* wide Socket::registry; on bind/connect/sendto the Socket switches its  *)
(* descriptor to an AF_UNIX socket (make_unix: socket, option replay,     *)
(* dup2) and binds or connects it to a path formatted from a rule.  The   *)
(* set of paths bound by Sockets of the process is Socket::sockpath_      *)
(* registry.                                                               *)
(*                                                                         *)
(* The kernel side is modelled as far as the code depends on it: the      *)
(* descriptor table (lowest free number first), socket objects with the   *)
(* path they are bound to and the options applied to them, and the       *)
(* socket files in the file system.  Descriptors are reference-counted:  *)
(* an object lives while some descriptor refers to it.                    *)
(*                                                                         *)
(* Only Socket::registry is guarded by a mutex, and only in create(); so  *)
(* bind is split at its check-then-act point (has_sockpath, then bind and *)
(* insert) and close at the point between real::close and the registry    *)
(* erase, where other threads of the program may run.                     *)
(***************************************************************************)
EXTENDS Integers, Sequences, FiniteSets, FiniteSetsExt, SequencesExt, TLC

CONSTANTS
    Fds,        \* descriptor numbers the kernel can hand to the process
    FileStates, \* what may be at a socket path when the program starts
    Paths,      \* socket paths format_sockpath can produce from the rules
    EphPorts,   \* ephemeral range of the per-Socket port pool (Ports)
    UserPort,   \* the non-zero port the program passes to bind and connect
    EphBinds,   \* ports of the ephemeral range the program binds to loopback
                \* (a fixed server port such as 50051 can lie in the range)
    MaxOpts,    \* bound: setsockopt/ioctl calls per descriptor
    SockTypes,  \* the socket types the program creates
    MaxSockets, \* bound: sockets the program gets from socket() and accept()
    SingleThreaded, \* TRUE: the program makes one call at a time
    MixBindConnect, \* TRUE: the program may bind (or activate) a socket
                    \* that has an address, or connect one twice; a
                    \* connect after bind is always possible
    RuleKinds,  \* the kinds of rule (struct Rule) the rules give a bind:
                \* "socket_path", "blackhole", "socket_activation"
    SystemdFd,  \* descriptor passed by systemd for socket activation, or None
    ActPath,    \* the path the systemd socket is bound to
    None,       \* absent optional value
    NoObj,      \* free descriptor slot
    Absent,     \* no file at a path
    Stale,      \* a socket file whose socket is gone
    External,   \* a socket file bound by another process
    BhPath      \* a path made by BlackHole (unique, never in Paths)

ASSUME Fds \subseteq Nat /\ EphPorts \subseteq Nat \ {0}
ASSUME FileStates \subseteq {Absent, Stale, External}
ASSUME SingleThreaded \in BOOLEAN /\ MixBindConnect \in BOOLEAN
ASSUME SystemdFd \in Fds \cup {None} /\ ActPath \in Paths
ASSUME RuleKinds \subseteq {"socket_path", "blackhole", "socket_activation"}
ASSUME ("socket_activation" \in RuleKinds) <=> SystemdFd # None
ASSUME SockTypes \subseteq {"TCP", "UDP"}
ASSUME UserPort \in Nat \ ({0} \cup EphPorts)
ASSUME EphBinds \subseteq EphPorts
ASSUME Cardinality(EphPorts) >= 2

Objs == 1..Cardinality(Fds)     \* at most one live object per open descriptor
Types == {"TCP", "UDP"}

(***************************************************************************)
(* Fabricated IP addresses (SockAddr).  A host is what the properties    *)
(* tell apart: loopback, the program's wildcard or remote host, a host    *)
(* derived from our own or a peer's credentials, a random host.           *)
(***************************************************************************)
Hosts == {"lo", "any", "remote", "self", "peer", "rnd"}
PortVals == {0, UserPort} \cup EphPorts
Addr == [host : Hosts, port : PortVals]
IsLoopback(a) == a.host = "lo"
BindAddrs == {[host |-> "lo", port |-> 0], [host |-> "any", port |-> UserPort]}
                \cup {[host |-> "lo", port |-> p] : p \in EphBinds}
PeerAddrs == {[host |-> "lo", port |-> UserPort], [host |-> "remote", port |-> UserPort]}

(***************************************************************************)
(* Socket options: two SOL_SOCKET options, one IPPROTO_TCP option and    *)
(* one ioctl.  A UNIX socket refuses the TCP-level option and, since      *)
(* Linux restricted SO_REUSEPORT to inet sockets, SO_REUSEPORT.           *)
(***************************************************************************)
SockOpts == {"SO_REUSEADDR", "SO_REUSEPORT", "TCP_NODELAY"}
TcpLevelOpts == {"TCP_NODELAY"}
IoctlReqs == {"FIONBIO"}
UnixOpts == {"SO_REUSEADDR", "FIONBIO"}
IsUnixOpt(o) == o \in UnixOpts
IsReplayed(o) == o \notin TcpLevelOpts
Refused(o) == ~IsUnixOpt(o)

VARIABLES
    registry,   \* Socket::registry: descriptor -> Socket, None if absent
    sockpaths,  \* Socket::sockpath_registry
    fdtab,      \* kernel descriptor table: descriptor -> object, NoObj if free
    kobj,       \* kernel socket objects
    fsys,       \* socket files: path -> object bound there, Stale, External, Absent
    bindop,     \* Socket::bind between has_sockpath and real::bind, per descriptor
    closeop,    \* Socket::close calls between real::close and registry.erase
    progfds,    \* the descriptors the program holds (auxiliary)
    progopts,   \* options the program set successfully, per descriptor (auxiliary)
    nsockets    \* sockets the program has got so far (bounded by MaxSockets)

vars == <<registry, sockpaths, fdtab, kobj, fsys, bindop, closeop, progfds, progopts,
          nsockets>>

FreeObject == [fam |-> "free", type |-> "TCP", path |-> None, opts |-> <<>>, listening |-> FALSE]

\* The shape of a Socket's shadow state.
IsFunc(f, D, R) == DOMAIN f \subseteq D /\ \A x \in DOMAIN f : f[x] \in R
IsSocket(s) ==
    /\ DOMAIN s = {"type", "is_unix", "bound", "activated", "is_blackhole", "binding",
                   "connection", "sockpath", "sockopts", "ports", "peermap",
                   "revpeermap", "bhref"}
    /\ s.type \in Types
    /\ {s.is_unix, s.bound, s.activated, s.is_blackhole, s.bhref} \subseteq BOOLEAN
    /\ s.binding \in Addr \cup {None} /\ s.connection \in Addr \cup {None}
    /\ s.sockpath \in Paths \cup {None}
    /\ s.sockopts \in Seq(SockOpts \cup IoctlReqs) /\ s.ports \subseteq PortVals
    /\ IsFunc(s.peermap, Addr, Paths) /\ IsFunc(s.revpeermap, Paths, Addr)

\* Socket::Socket: a fresh shadow state for a descriptor of socket type t.
NewSocket(t) ==
    [type |-> t, is_unix |-> FALSE, bound |-> FALSE, activated |-> FALSE, is_blackhole |-> FALSE,
     binding |-> None, connection |-> None, sockpath |-> None, sockopts |-> <<>>,
     ports |-> {}, peermap |-> <<>>, revpeermap |-> <<>>, bhref |-> FALSE]

(***************************************************************************)
(* The kernel, as a record k = [fd, obj, fs] so that the steps of one     *)
(* handler can be composed.                                               *)
(***************************************************************************)
Kernel == [fd |-> fdtab, obj |-> kobj, fs |-> fsys]
SetKernel(k) == fdtab' = k.fd /\ kobj' = k.obj /\ fsys' = k.fs
FreeFdsOf(k) == {f \in Fds : k.fd[f] = NoObj}
LowestFree(k) == Min(FreeFdsOf(k))

\* socket(2): a new object at the lowest free descriptor.
KSocket(k, fam, t) ==
    LET f == LowestFree(k)
        o == Min({x \in Objs : k.obj[x].fam = "free"})
    IN  [k EXCEPT !.fd[f] = o,
                  !.obj[o] = [fam |-> fam, type |-> t, path |-> None, opts |-> <<>>,
                               listening |-> FALSE]]

\* close(2): drop a descriptor; an object nothing refers to any more is
\* released and the file it was bound to stays behind, stale.
KClose(k, f) ==
    LET o    == k.fd[f]
        fd2  == [k.fd EXCEPT ![f] = NoObj]
        gone == \A g \in Fds : fd2[g] # o
    IN  [fd  |-> fd2,
         obj |-> IF gone THEN [k.obj EXCEPT ![o] = FreeObject] ELSE k.obj,
         fs  |-> IF gone THEN [p \in Paths |-> IF k.fs[p] = o THEN Stale ELSE k.fs[p]]
                         ELSE k.fs]

\* dup2(2): f now refers to the object of nf; f's old object loses a reference.
KDup2(k, nf, f) ==
    LET k1 == KClose(k, f) IN [k1 EXCEPT !.fd[f] = k.fd[nf]]

\* unlink(2) of a socket path, whoever bound it.
KUnlink(k, p) == [k EXCEPT !.fs[p] = Absent]

\* A live socket is bound at p and accepts a connection from type t: a
\* stream socket only once it listens.
Reachable(k, p, t) ==
    \/ k.fs[p] = External
    \/ /\ k.fs[p] \in Objs /\ k.obj[k.fs[p]].type = t
       /\ t = "TCP" => k.obj[k.fs[p]].listening

(***************************************************************************)
(* Ports::acquire, Ports::reserve (per-Socket pool, spec-modelled).       *)
(***************************************************************************)
Acquire(ports) == Min(EphPorts \ ports)
\* Bound: the model stops a Socket's calls once its pool is exhausted
\* (what Ports does then is not in the repository).
PoolLeft(s) == EphPorts \ s.ports # {}

(***************************************************************************)
(* SockoptCache::replay (spec-modelled): the cached entries in insertion *)
(* order, TCP-level ones filtered out, applied until one fails; replay    *)
(* succeeds iff all of them were applied.                                 *)
(***************************************************************************)
Replay(cache) == SelectSeq(cache, IsReplayed)
ReplayOk(cache) == SelectInSeq(Replay(cache), Refused) = 0
Applied(cache) ==
    IF ReplayOk(cache) THEN Replay(cache)
    ELSE SubSeq(Replay(cache), 1, SelectInSeq(Replay(cache), Refused) - 1)

\* Variant of MakeUnix that forgets to replay the option cache.
MakeUnixNoReplay(s, f, k) ==
    IF s.is_unix THEN [ok |-> TRUE, s |-> s, k |-> k]
    ELSE IF FreeFdsOf(k) = {} THEN [ok |-> FALSE, s |-> s, k |-> k]
    ELSE [ok |-> TRUE, s |-> [s EXCEPT !.is_unix = TRUE],
          k |-> KDup2(KSocket(k, "unix", s.type), LowestFree(k), f)]

(***************************************************************************)
(* Socket::make_unix: a new AF_UNIX socket of the same type, the option  *)
(* cache replayed onto it, dup2 over the program's descriptor.  newfd is  *)
(* left open after the dup2.  If the replay fails, newfd is closed again, *)
(* which leaves the kernel as it was.  Result: [ok, s, k].                *)
(***************************************************************************)
MakeUnix(s, f, k) ==
    IF s.is_unix THEN [ok |-> TRUE, s |-> s, k |-> k]
    ELSE IF FreeFdsOf(k) = {} \/ ~ReplayOk(s.sockopts) THEN [ok |-> FALSE, s |-> s, k |-> k]
    ELSE LET nf == LowestFree(k)
             k1 == KSocket(k, "unix", s.type)
             k2 == [k1 EXCEPT !.obj[k1.fd[nf]].opts = Replay(s.sockopts)]
         IN  [ok |-> TRUE, s |-> [s EXCEPT !.is_unix = TRUE], k |-> KDup2(k2, nf, f)]

\* Variant of CreateBinding that never stamps the acquired port.
CreateBindingNoPort(s, a) ==
    [s EXCEPT !.binding = [host |-> IF IsLoopback(a) THEN "lo" ELSE "self", port |-> 0]]

\* Socket::create_binding: the implicit local address of a connect or
\* sendto without bind: loopback if the peer is, else from our credentials.
CreateBinding(s, a) ==
    LET port == Acquire(s.ports)
    IN  [s EXCEPT !.binding = [host |-> IF IsLoopback(a) THEN "lo" ELSE "self",
                               port |-> port],
                  !.ports = @ \cup {port}]

\* Variant of ImplicitBinding without the !this->binding test.
ImplicitBindingAlways(s, a) == [CreateBinding(s, a) EXCEPT !.ports = @ \cup {a.port}]

\* Socket::connect after a successful real::connect: without a binding, an
\* implicit one, and the remote port reserved in the pool.
ImplicitBinding(s, a) ==
    IF s.binding = None THEN [CreateBinding(s, a) EXCEPT !.ports = @ \cup {a.port}] ELSE s

\* Variant of RewriteDest that records the blackhole as the socket path.
RewriteDestBhSockpath(s, a, f, k) ==
    LET mu  == MakeUnix(s, f, k)
        obj == mu.k.fd[f]
    IN  IF ~mu.ok \/ mu.s.binding # None \/ mu.k.obj[obj].path # None
        THEN [ok |-> mu.ok /\ mu.s.binding # None, s |-> mu.s, k |-> mu.k]
        ELSE [ok |-> TRUE,
              s  |-> [CreateBinding(mu.s, a) EXCEPT !.is_blackhole = TRUE, !.bhref = TRUE,
                                                    !.sockpath = BhPath],
              k  |-> [mu.k EXCEPT !.obj[obj].path = BhPath]]

(***************************************************************************)
(* Socket::rewrite_dest (datagram sockets): make_unix and, without a     *)
(* binding, bind to a BlackHole path, create_binding and keep the        *)
(* blackhole, so that the peer can tell us apart.  Result: [ok, s, k].   *)
(***************************************************************************)
RewriteDest(s, a, f, k) ==
    LET mu  == MakeUnix(s, f, k)
        obj == mu.k.fd[f]
    IN  IF ~mu.ok THEN [ok |-> FALSE, s |-> s, k |-> k]
        ELSE IF mu.s.binding # None THEN mu
        ELSE IF mu.k.obj[obj].path # None THEN [mu EXCEPT !.ok = FALSE]
        ELSE [ok |-> TRUE,
              s  |-> [CreateBinding(mu.s, a) EXCEPT !.is_blackhole = TRUE, !.bhref = TRUE],
              k  |-> [mu.k EXCEPT !.obj[obj].path = BhPath]]

\* Variant of RewriteSrc that only fills the forward map.
RewriteSrcOneMap(s, p) ==
    IF s.binding = None \/ p \in DOMAIN s.revpeermap THEN s
    ELSE LET peer == [host |-> IF IsLoopback(s.binding) THEN "lo" ELSE "rnd",
                      port |-> Acquire(s.ports)]
         IN  [s EXCEPT !.ports = @ \cup {peer.port}, !.peermap = (peer :> p) @@ @]

\* Variant of RewriteSrc that makes up a new peer for every datagram and
\* retires the previous one from both maps.
RewriteSrcRenew(s, p) ==
    IF s.binding = None THEN s
    ELSE LET peer == [host |-> IF IsLoopback(s.binding) THEN "lo" ELSE "rnd",
                      port |-> Acquire(s.ports)]
             kept == {a \in DOMAIN s.peermap : s.peermap[a] # p}
         IN  [s EXCEPT !.ports = @ \cup {peer.port},
                       !.peermap = (peer :> p) @@ [a \in kept |-> s.peermap[a]],
                       !.revpeermap = (p :> peer) @@ @]

(***************************************************************************)
(* Socket::rewrite_src: the fabricated address of the datagram peer      *)
(* bound at path p, made up and remembered in both maps on first sight.  *)
(***************************************************************************)
RewriteSrc(s, p) ==
    IF s.binding = None \/ p \in DOMAIN s.revpeermap THEN s
    ELSE LET peer == [host |-> IF IsLoopback(s.binding) THEN "lo" ELSE "rnd",
                      port |-> Acquire(s.ports)]
         IN  [s EXCEPT !.ports = @ \cup {peer.port},
                       !.peermap = (peer :> p) @@ @,
                       !.revpeermap = (p :> peer) @@ @]

\* The listening stream socket systemd passes in, bound at ActPath.
SystemdObject == [fam |-> "unix", type |-> "TCP", path |-> ActPath, opts |-> <<>>,
                  listening |-> TRUE]

(***************************************************************************)
(* Socket::make_unix(filedes) as activate calls it: the cached options    *)
(* replayed onto the systemd socket, which is dup2ed over the program's   *)
(* descriptor and stays open at filedes.  Nothing happens if the Socket   *)
(* is a UNIX socket already.  If the replay fails, newfd, which is        *)
(* filedes here, is closed.  On a closed filedes, replay or dup2 fails   *)
(* with EBADF and nothing changes.  Result: [ok, s, k].                   *)
(***************************************************************************)
AdoptSystemdFd(s, f, k) ==
    IF s.is_unix THEN [ok |-> TRUE, s |-> s, k |-> k]
    ELSE IF k.fd[SystemdFd] = NoObj THEN [ok |-> FALSE, s |-> s, k |-> k]
    ELSE LET k1 == [k EXCEPT !.obj[k.fd[SystemdFd]].opts = @ \o Applied(s.sockopts)]
         IN  IF ReplayOk(s.sockopts)
             THEN [ok |-> TRUE, s |-> [s EXCEPT !.is_unix = TRUE], k |-> KDup2(k1, SystemdFd, f)]
             ELSE [ok |-> FALSE, s |-> s, k |-> KClose(k1, SystemdFd)]

-----------------------------------------------------------------------------
Init ==
    /\ registry = [f \in Fds |-> None]
    /\ sockpaths = {}
    /\ fdtab = [f \in Fds |-> IF f = SystemdFd THEN 1 ELSE NoObj]
    /\ kobj = [o \in Objs |-> IF o = 1 /\ SystemdFd # None THEN SystemdObject ELSE FreeObject]
    /\ fsys \in {fs \in [Paths -> FileStates \cup {1}] :
                   \A p \in Paths : fs[p] = 1 <=> SystemdFd # None /\ p = ActPath}
    /\ bindop = [f \in Fds |-> None]
    /\ closeop = {}
    /\ progfds = {}
    /\ progopts = [f \in Fds |-> <<>>]
    /\ nsockets = 0

\* A program thread may start a call: any time, or, in a single-threaded
\* program, when no other call is in progress.
MayCall == SingleThreaded => closeop = {} /\ \A g \in Fds : bindop[g] = None
\* A descriptor the program holds and no call of the program is using.
Idle(f) == MayCall /\ f \in progfds /\ bindop[f] = None
Sock(f) == registry[f]

\* socket(AF_INET, t): real::socket, then Socket::create under registry_mutex.
Socket(t) ==
    /\ MayCall
    /\ nsockets < MaxSockets
    /\ nsockets' = nsockets + 1
    /\ FreeFdsOf(Kernel) # {}
    /\ LET f == LowestFree(Kernel)
       IN  /\ SetKernel(KSocket(Kernel, "ip", t))
           /\ registry' = [registry EXCEPT ![f] = NewSocket(t)]
           /\ progfds' = progfds \cup {f}
           /\ progopts' = [progopts EXCEPT ![f] = <<>>]
    /\ UNCHANGED <<sockpaths, bindop, closeop>>

\* Socket::setsockopt and Socket::ioctl: the real call; on success the
\* option is cached unless the descriptor is a UNIX socket already.  A
\* descriptor without a Socket gets the real call only.
SetOption(f, o) ==
    /\ Idle(f)
    /\ Len(progopts[f]) < MaxOpts
    /\ LET obj == fdtab[f]
       IN  /\ kobj[obj].fam = "ip" \/ IsUnixOpt(o)
           /\ kobj' = [kobj EXCEPT ![obj].opts = Append(@, o)]
    /\ progopts' = [progopts EXCEPT ![f] = Append(@, o)]
    /\ registry' = IF Sock(f) # None /\ ~Sock(f).is_unix
                   THEN [registry EXCEPT ![f].sockopts = Append(@, o)]
                   ELSE registry
    /\ UNCHANGED <<sockpaths, fdtab, fsys, bindop, closeop, progfds, nsockets>>

SetSockOpt(f) == \E o \in SockOpts : SetOption(f, o)
Ioctl(f) == \E o \in IoctlReqs : SetOption(f, o)

\* Socket::has_sockpath: the path is in sockpath_registry.
HasSockpath(p) == p \in sockpaths

\* Socket::blackhole, which bind() calls first under a blackhole rule.
Blackhole(s) == [s EXCEPT !.is_blackhole = TRUE]

(***************************************************************************)
(* Socket::bind, first half: make_unix, a port from the pool for port 0,  *)
(* the formatted path, and the has_sockpath check deciding whether the    *)
(* socket goes to a blackhole.  The rule is a socket_path rule or a      *)
(* blackhole rule.                                                        *)
(***************************************************************************)
BindCheck(f) ==
    /\ Idle(f) /\ Sock(f) # None /\ PoolLeft(Sock(f))
    /\ MixBindConnect \/ (~Sock(f).bound /\ Sock(f).connection = None)
    /\ \E a \in BindAddrs, p \in Paths, rule \in RuleKinds \ {"socket_activation"} :
        LET s0   == IF rule = "blackhole" THEN Blackhole(Sock(f)) ELSE Sock(f)
            mu   == MakeUnix(s0, f, Kernel)
            port == IF a.port = 0 THEN Acquire(mu.s.ports) ELSE a.port
            s1   == IF a.port = 0 THEN [mu.s EXCEPT !.ports = @ \cup {port}] ELSE mu.s
        IN  IF ~mu.ok
            \* bind() returns -1; only the blackhole mark stays behind.
            THEN /\ s0 # Sock(f)
                 /\ registry' = [registry EXCEPT ![f] = s0]
                 /\ UNCHANGED <<fdtab, kobj, fsys, bindop>>
            ELSE /\ SetKernel(mu.k)
                 /\ registry' = [registry EXCEPT ![f] = s1]
                 /\ bindop' = [bindop EXCEPT ![f] =
                                 [sock |-> s1, addr |-> [a EXCEPT !.port = port],
                                  path |-> p, bh |-> s1.is_blackhole \/ HasSockpath(p)]]
    /\ UNCHANGED <<sockpaths, closeop, progfds, progopts, nsockets>>

\* Socket::bind: sockpath_registry.insert(newpath) once real::bind to the
\* formatted path succeeded.
RegisterPath(paths, op, ok) == IF ok /\ ~op.bh THEN paths \cup {op.path} ELSE paths

\* Variant of BindSucceeded that does not reserve the bound port.
BindSucceededNoReserve(sock, op) ==
    [sock EXCEPT !.is_blackhole = @ \/ op.bh,
                 !.sockpath = IF op.bh THEN @ ELSE op.path,
                 !.bound = TRUE,
                 !.binding = op.addr]

\* Socket::bind once real::bind returned 0: the blackhole mark or the
\* registered path, ports.reserve(port), bound and the binding.
BindSucceeded(sock, op) ==
    [sock EXCEPT !.is_blackhole = @ \/ op.bh,
                 !.sockpath = IF op.bh THEN @ ELSE op.path,
                 !.ports = @ \cup {op.addr.port},
                 !.bound = TRUE,
                 !.binding = op.addr]

(***************************************************************************)
(* Socket::bind, second half: real::bind to a BlackHole path or to the   *)
(* formatted path (registering it); on success reserve the port and      *)
(* record the binding.  The kernel refuses a second bind of an object    *)
(* (EINVAL) and a path that exists (EADDRINUSE).                          *)
(***************************************************************************)
BindFinish(f) ==
    /\ bindop[f] # None
    /\ LET op == bindop[f]
           o  == fdtab[f]
           ok == kobj[o].path = None /\ (op.bh \/ fsys[op.path] = Absent)
           s  == IF ~ok THEN op.sock ELSE BindSucceeded(op.sock, op)
           fs1 == IF ok /\ ~op.bh THEN [fsys EXCEPT ![op.path] = o] ELSE fsys
       IN  /\ kobj' = IF ok THEN [kobj EXCEPT ![o].path = IF op.bh THEN BhPath ELSE op.path]
                            ELSE kobj
           /\ sockpaths' = RegisterPath(sockpaths, op, ok)
           \* A racing close may have erased the registry entry meanwhile; the
           \* Socket then dies when bind returns and its destructor unlinks.
           /\ IF Sock(f) # None
              THEN /\ registry' = [registry EXCEPT ![f] = s]
                   /\ fsys' = fs1
              ELSE /\ fsys' = IF s.sockpath # None /\ s.bound /\ ~s.activated
                              THEN [fs1 EXCEPT ![s.sockpath] = Absent] ELSE fs1
                   /\ UNCHANGED registry
    /\ bindop' = [bindop EXCEPT ![f] = None]
    /\ UNCHANGED <<fdtab, closeop, progfds, progopts, nsockets>>

\* The outcome of real::connect to path p: the socket there must be alive,
\* of our type, and willing (accepted), and ours must not be listening
\* (EINVAL); on success s becomes sok.
ConnectOutcome(f, s, sok, p, k, accepted) ==
    /\ SetKernel(k)
    /\ registry' = [registry EXCEPT ![f] =
                      IF accepted /\ Reachable(k, p, s.type) /\ ~k.obj[k.fd[f]].listening
                      THEN sok ELSE s]

(***************************************************************************)
(* connect(): connect_peermap for a datagram peer we fabricated, the      *)
(* rewrite_dest path for a datagram socket without binding, else          *)
(* Socket::connect proper, which makes an implicit binding after a        *)
(* successful connect.  Each records the connection and the path.        *)
(***************************************************************************)
Connect(f) ==
    /\ Idle(f) /\ Sock(f) # None /\ PoolLeft(Sock(f))
    /\ MixBindConnect \/ (Sock(f).connection = None /\ ~Sock(f).activated)
    /\ LET s == Sock(f) IN
       \E a \in PeerAddrs \cup DOMAIN s.peermap, p \in Paths, accepted \in BOOLEAN :
         \/ /\ s.type = "UDP" /\ a \in DOMAIN s.peermap
            /\ ConnectOutcome(f, s, [s EXCEPT !.connection = a, !.sockpath = s.peermap[a]],
                              s.peermap[a], Kernel, accepted)
         \/ /\ s.type = "UDP" /\ a \notin DOMAIN s.peermap /\ s.binding = None
            /\ LET rd == RewriteDest(s, a, f, Kernel)
               IN  /\ rd.k # Kernel \/ rd.s # s
                   /\ IF rd.ok
                      THEN ConnectOutcome(f, rd.s, [rd.s EXCEPT !.connection = a, !.sockpath = p],
                                          p, rd.k, accepted)
                      ELSE SetKernel(rd.k) /\ registry' = [registry EXCEPT ![f] = rd.s]
         \/ /\ s.type = "TCP" \/ (a \notin DOMAIN s.peermap /\ s.binding # None)
            /\ LET mu == MakeUnix(s, f, Kernel)
                   s1 == ImplicitBinding(mu.s, a)
               IN  /\ mu.ok
                   /\ ConnectOutcome(f, mu.s, [s1 EXCEPT !.connection = a, !.sockpath = p],
                                     p, mu.k, accepted)
    /\ UNCHANGED <<sockpaths, bindop, closeop, progfds, progopts, nsockets>>

\* Variant of AcceptPeer that takes the port from the new Socket's pool
\* before the local port is reserved there.
AcceptPeerChildPool(s) ==
    [host |-> IF IsLoopback(s.binding) THEN "lo" ELSE "peer", port |-> Acquire({})]

\* Socket::accept's fabricated peer: the loopback host of the binding, or
\* a host from SO_PEERCRED, and a port acquired from the listener's pool.
AcceptPeer(s) ==
    [host |-> IF IsLoopback(s.binding) THEN "lo" ELSE "peer", port |-> Acquire(s.ports)]

(***************************************************************************)
(* accept(): real::accept hands over a connected UNIX socket at the       *)
(* lowest free descriptor; Socket::accept fabricates the peer address    *)
(* (loopback, or from SO_PEERCRED) with a port from the listener's pool   *)
(* and registers a child Socket with the listener's binding.             *)
(***************************************************************************)
Accept(f) ==
    /\ Idle(f) /\ Sock(f) # None /\ PoolLeft(Sock(f)) /\ Sock(f).type = "TCP"
    /\ kobj[fdtab[f]].listening /\ kobj[fdtab[f]].path \in Paths
    /\ FreeFdsOf(Kernel) # {}
    /\ nsockets < MaxSockets
    /\ nsockets' = nsockets + 1
    /\ LET s  == Sock(f)
           nf == LowestFree(Kernel)
       IN  /\ SetKernel(KSocket(Kernel, "unix", "TCP"))
           /\ IF s.binding = None
              THEN UNCHANGED <<registry, progfds, progopts>>
              ELSE LET peer  == AcceptPeer(s)
                       child == [NewSocket(s.type) EXCEPT !.ports = {s.binding.port},
                                                          !.binding = s.binding,
                                                          !.connection = peer]
                   IN  /\ registry' = [registry EXCEPT ![f].ports = @ \cup {peer.port},
                                                       ![nf] = child]
                       /\ progfds' = progfds \cup {nf}
                       /\ progopts' = [progopts EXCEPT ![nf] = <<>>]
    /\ UNCHANGED <<sockpaths, bindop, closeop>>

\* sendto() to an address the program did not get from recvfrom: the
\* rule's path through rewrite_dest.  (An address from the peer map takes
\* rewrite_dest_peermap, which changes no state.)
SendTo(f) ==
    /\ Idle(f) /\ Sock(f) # None /\ PoolLeft(Sock(f)) /\ Sock(f).type = "UDP"
    /\ \E a \in PeerAddrs :
        LET rd == RewriteDest(Sock(f), a, f, Kernel)
        IN  /\ rd.k # Kernel \/ rd.s # Sock(f)
            /\ SetKernel(rd.k)
            /\ registry' = [registry EXCEPT ![f] = rd.s]
    /\ UNCHANGED <<sockpaths, bindop, closeop, progfds, progopts, nsockets>>

\* recvfrom() of a datagram sent from path p: rewrite_src.
RecvFrom(f) ==
    /\ Idle(f) /\ Sock(f) # None /\ PoolLeft(Sock(f)) /\ Sock(f).type = "UDP"
    /\ kobj[fdtab[f]].fam = "unix" /\ kobj[fdtab[f]].path # None
    /\ \E p \in Paths :
        /\ Reachable(Kernel, p, "UDP")
        /\ registry' = [registry EXCEPT ![f] = RewriteSrc(@, p)]
    /\ UNCHANGED <<sockpaths, fdtab, kobj, fsys, bindop, closeop, progfds, progopts, nsockets>>

(***************************************************************************)
(* bind() under a socket_activation rule: Socket::activate adopts the    *)
(* systemd descriptor (make_unix(filedes)) and records the program's     *)
(* address as the binding, without a port from the pool.  If make_unix   *)
(* fails, activate returns -1 before touching the Socket.                *)
(***************************************************************************)
Activate(f) ==
    /\ "socket_activation" \in RuleKinds /\ Idle(f) /\ Sock(f) # None
    /\ MixBindConnect \/ (~Sock(f).bound /\ Sock(f).connection = None)
    /\ \E a \in BindAddrs :
        LET ad == AdoptSystemdFd(Sock(f), f, Kernel)
        IN  /\ SetKernel(ad.k)
            /\ registry' = IF ~ad.ok THEN registry
                            ELSE [registry EXCEPT ![f] =
                                    [ad.s EXCEPT !.bound = TRUE, !.binding = a, !.activated = TRUE]]
    /\ UNCHANGED <<sockpaths, bindop, closeop, progfds, progopts, nsockets>>

(***************************************************************************)
(* listen(): Socket::listen returns 0 at once for an activated Socket     *)
(* (systemd's socket listens already); otherwise real::listen, which      *)
(* makes a bound AF_UNIX stream socket listen.  On a datagram socket    *)
(* and on a connected one (a stream Socket has a connection exactly when  *)
(* its kernel socket is connected) it fails; on a listening one it       *)
(* changes nothing.                                                       *)
(***************************************************************************)
Listen(f) ==
    /\ Idle(f) /\ Sock(f) # None /\ ~Sock(f).activated /\ Sock(f).connection = None
    /\ LET o == fdtab[f] IN
       /\ kobj[o].fam = "unix" /\ kobj[o].type = "TCP" /\ kobj[o].path # None
       /\ ~kobj[o].listening
       /\ kobj' = [kobj EXCEPT ![o].listening = TRUE]
    /\ UNCHANGED <<registry, sockpaths, fdtab, fsys, bindop, closeop, progfds, progopts, nsockets>>

(***************************************************************************)
(* Socket::close, first half: for an activated Socket nothing (the       *)
(* descriptor belongs to systemd); else real::close, then unlink and     *)
(* unregister the socket path if the Socket is bound to it and is no     *)
(* blackhole.  A descriptor without a Socket gets the real close only.   *)
(***************************************************************************)
\* Socket::close's test for unlinking and unregistering the socket path.
CloseUnlinks(s) ==
    s # None /\ ~s.activated /\ s.sockpath # None /\ s.bound /\ ~s.is_blackhole

CloseBegin(f) ==
    /\ Idle(f)
    /\ LET s   == Sock(f)
           act == s # None /\ s.activated
           unl == CloseUnlinks(s)
           k1  == IF act THEN Kernel ELSE KClose(Kernel, f)
           s1  == IF unl THEN [s EXCEPT !.sockpath = None] ELSE s
       IN  /\ SetKernel(IF unl THEN KUnlink(k1, s.sockpath) ELSE k1)
           /\ sockpaths' = IF unl THEN sockpaths \ {s.sockpath} ELSE sockpaths
           /\ registry' = IF s = None THEN registry ELSE [registry EXCEPT ![f] = s1]
           /\ closeop' = IF s = None THEN closeop ELSE closeop \cup {[fd |-> f, sock |-> s1]}
    /\ progfds' = progfds \ {f}
    /\ UNCHANGED <<bindop, progopts, nsockets>>

\* Socket::registry.erase(this->fd): whatever entry the number has now.
RegistryErase(fd) == [registry EXCEPT ![fd] = None]

(***************************************************************************)
(* Socket::close, second half: registry.erase(this->fd), whatever Socket *)
(* is registered at that number by now, and the destructors of the       *)
(* Sockets that dies with it: ~Socket unlinks the path of a bound Socket. *)
(* A Socket another call still holds dies when that call returns.        *)
(***************************************************************************)
CloseEnd(c) ==
    /\ LET victim == registry[c.fd]
           held   == bindop[c.fd] # None \/ \E d \in closeop \ {c} : d.sock = victim
           dead   == {c.sock} \cup (IF victim = None \/ held THEN {} ELSE {victim})
           unl    == {d.sockpath : d \in {x \in dead : x.sockpath # None /\ x.bound /\ ~x.activated}}
       IN  /\ registry' = RegistryErase(c.fd)
           /\ fsys' = [p \in Paths |-> IF p \in unl THEN Absent ELSE fsys[p]]
    /\ closeop' = closeop \ {c}
    /\ UNCHANGED <<sockpaths, fdtab, kobj, bindop, progfds, progopts, nsockets>>

-----------------------------------------------------------------------------
\* Socket::getsockname and Socket::getpeername: the stored binding or
\* connection; None stands for the EFAULT they return without one.
GetSockName(s) == IF s.binding # None THEN s.binding ELSE None
GetPeerName(s) == IF s.connection # None THEN s.connection ELSE None

Next ==
    \/ \E t \in SockTypes : Socket(t)
    \/ \E f \in Fds :
        \/ SetSockOpt(f) \/ Ioctl(f)
        \/ BindCheck(f) \/ BindFinish(f) \/ Activate(f)
        \/ SendTo(f) \/ Connect(f) \/ Listen(f) \/ Accept(f) \/ RecvFrom(f)
        \/ CloseBegin(f)
    \/ \E c \in closeop : CloseEnd(c)

Spec == Init /\ [][Next]_vars

-----------------------------------------------------------------------------
(***************************************************************************)
(* Properties.                                                             *)
(***************************************************************************)
TypeOK ==
    /\ \A f \in Fds : registry[f] = None \/ IsSocket(registry[f])
    /\ sockpaths \subseteq Paths
    /\ fdtab \in [Fds -> Objs \cup {NoObj}]
    /\ \A o \in Objs : /\ kobj[o].fam \in {"free", "ip", "unix"}
                       /\ kobj[o].path \in Paths \cup {None, BhPath}
                       /\ kobj[o].opts \in Seq(SockOpts \cup IoctlReqs)
                       /\ kobj[o].listening \in BOOLEAN
    /\ fsys \in [Paths -> Objs \cup {Absent, Stale, External}]
    /\ \A f \in Fds : bindop[f] = None \/ bindop[f].path \in Paths
    /\ progfds \subseteq Fds
    /\ progopts \in [Fds -> Seq(SockOpts \cup IoctlReqs)]
    /\ nsockets \in 0..MaxSockets

\* rewrite_src and connect_peermap/rewrite_dest_peermap read two maps that
\* rewrite_src fills together: peermap and revpeermap of every Socket are
\* inverse to each other, so a reply to a fabricated peer address reaches
\* the path its datagrams came from.
PeerMapsInverse ==
    \A f \in Fds : registry[f] # None =>
        LET s == registry[f] IN
        /\ \A a \in DOMAIN s.peermap :
              s.peermap[a] \in DOMAIN s.revpeermap /\ s.revpeermap[s.peermap[a]] = a
        /\ \A q \in DOMAIN s.revpeermap :
              s.revpeermap[q] \in DOMAIN s.peermap /\ s.peermap[s.revpeermap[q]] = q

\* recvfrom on a descriptor the program keeps reports one and the same
\* fabricated address for every datagram from one path (rewrite_src never
\* replaces a peer once made up).
PeerAddressStable ==
    [][\A f \in progfds \cap progfds' :
         registry[f] # None /\ registry'[f] # None =>
           \A q \in DOMAIN registry[f].revpeermap :
              q \in DOMAIN registry'[f].revpeermap
              /\ registry'[f].revpeermap[q] = registry[f].revpeermap[q]]_vars

\* Option replay: once a Socket is a UNIX socket, the options in effect on
\* its descriptor are exactly the options the program set successfully,
\* in order, those a UNIX socket refuses left out (setsockopt/ioctl cache
\* before make_unix, replay in make_unix, direct calls after it).
OptionsReplayed ==
    \A f \in progfds :
        registry[f] # None /\ registry[f].is_unix =>
            kobj[fdtab[f]].opts = SelectSeq(progopts[f], IsUnixOpt)

\* getsockname after connect or accept: a Socket with a connection always
\* has a local binding with a real (non-zero) port.
ConnectedHasBinding ==
    \A f \in Fds : registry[f] # None /\ registry[f].connection # None =>
        registry[f].binding # None /\ registry[f].binding.port # 0

\* spec.md S3 and 4.G (accept: "allocate a fresh peer port"): the address
\* getpeername reports for a Socket is never the one getsockname reports.
\* bind, create_binding and accept reserve the local port in the Socket's
\* pool before acquire can hand it out as a fabricated peer port; it
\* breaks if a binding's port is left unreserved.
PeerDiffersFromLocal ==
    \A f \in Fds : registry[f] # None /\ registry[f].connection # None =>
        GetPeerName(registry[f]) # GetSockName(registry[f])

\* make_unix's socket is closed after the dup2: every open descriptor of
\* the process is one the program holds (or one a close is releasing).
NoLeakedDescriptor ==
    \A f \in Fds : fdtab[f] # NoObj => f \in progfds

\* A socket the program holds that is bound to a path stays reachable
\* through that path: no close of another Socket unlinks it.
BoundPathIntact ==
    \A f \in progfds :
        kobj[fdtab[f]].path \in Paths => fsys[kobj[fdtab[f]].path] = fdtab[f]

\* Socket::find finds a Socket for every descriptor the program got from
\* socket() or accept() and has not closed.
RegistryTracksProgramFds ==
    \A f \in progfds : registry[f] # None

\* A bind to a path that a Socket of this process has bound goes to a
\* blackhole and succeeds (the has_sockpath case); it never reaches
\* real::bind on that path.
CollidingBindIsBlackholed ==
    [][\A f \in Fds :
         bindop[f] # None /\ bindop'[f] = None /\ ~bindop[f].bh
            => fsys[bindop[f].path] \notin Objs]_vars


(***************************************************************************)
(* Refinement: the program's view of every descriptor it holds follows    *)
(* SocketLifecycle.  The phase is read off the Socket's flags, the local  *)
(* and remote addresses are its binding and connection (what getsockname *)
(* and getpeername return).                                               *)
(***************************************************************************)
LifecyclePhase(s) ==
    CASE s.activated          -> "activated"
      [] s.connection # None  -> "connected"
      [] s.binding # None     -> "bound"
      [] s.is_unix            -> "unix"
      [] OTHER                -> "new"
Held(f) == f \in progfds /\ registry[f] # None

Lifecycle == INSTANCE SocketLifecycle WITH
    Addrs  <- Addr,
    phase  <- [f \in Fds |-> IF Held(f) THEN LifecyclePhase(registry[f]) ELSE "none"],
    local  <- [f \in Fds |-> IF Held(f) THEN GetSockName(registry[f]) ELSE None],
    remote <- [f \in Fds |-> IF Held(f) THEN GetPeerName(registry[f]) ELSE None]

\* bind, connect, sendto, accept, activate and close move each descriptor
\* along the spec's state machine: no phase goes back, getsockname never
\* changes once set (connect keeps an existing binding; only activate
\* replaces it), and an accepted socket starts connected with the
\* listener's local address.
LifecycleRefined == Lifecycle!Spec

\* spec.md 4.G activate: the Socket adopts the descriptor systemd passed,
\* so an activated descriptor the program holds refers to the socket
\* bound at the activation path (make_unix(filedes) and its dup2).
ActivatedAdoptsSystemdSocket ==
    \A g \in progfds :
        registry[g] # None /\ registry[g].activated => kobj[fdtab[g]].path = ActPath

\* Socket::close leaves an activated descriptor open because it belongs to
\* systemd (spec: "ownership belongs elsewhere"): whatever the program
\* does, descriptor SystemdFd stays open on the listening socket at ActPath,
\* also when activate fails (make_unix(filedes) and its error paths).
SystemdSocketKept ==
    SystemdFd # None => fdtab[SystemdFd] # NoObj /\ kobj[fdtab[SystemdFd]].path = ActPath
=============================================================================
