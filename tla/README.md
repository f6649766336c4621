# TLA+ models of ip2unix

ip2unix runs a program with a preloaded library. The library turns the
program's AF_INET/AF_INET6 sockets into AF_UNIX sockets. The program keeps
believing it talks IP: the library makes up the addresses, ports and peers
it reports. This directory holds TLA+ models of the library's socket state
machine (`src/src/socket.cc`), of its type classification, of the
`ip2unix` command (`src/src/ip2unix.cc`), and TLC runs that check them.

## 1. Inventory

### Components and their state

| Component | Source | State | Operations |
|---|---|---|---|
| Socket registry | socket.cc 10-48 | `Socket::registry` (fd → Socket, with `registry_mutex` taken only in `create`), `Socket::sockpath_registry` (paths bound by this process) | `find`, `has_sockpath`, `create`, `registry.erase` in `close` |
| Socket shadow state | socket.cc 50-92 | `type`, `is_unix`, `bound`, `activated`, `is_blackhole`, `binding`, `connection`, `sockpath`, `sockopts`, `ports`, `peermap`, `revpeermap`, `blackhole_ref` | constructor, destructor (unlinks `sockpath` of a bound Socket), `blackhole` |
| Option cache | socket.cc 94-124, 178-205 | `sockopts` | `setsockopt`, `ioctl` (cache while not `is_unix`), replay in `make_unix` |
| Conversion | socket.cc 178-205 | the kernel descriptor table | `make_unix`: `real::socket(AF_UNIX)`, replay, `dup2` over the program's fd |
| Bind | socket.cc 261-308 | `sockpath_registry`, `binding`, `bound`, `ports`, `is_blackhole` | port 0 → ephemeral port; `has_sockpath` → blackhole; else bind and register the path |
| Connect | socket.cc 210-235, 310-375 | `connection`, `sockpath`, `binding`, `ports` | `connect_peermap`, datagram connect via `rewrite_dest`, stream connect with implicit `create_binding` |
| Accept | socket.cc 377-430 | the registry, the listener's `ports` | made-up peer (loopback or SO_PEERCRED) and a child Socket |
| Datagram peers | socket.cc 455-545 | `peermap`, `revpeermap`, `blackhole_ref` | `rewrite_src` (recvfrom), `rewrite_dest_peermap` and `rewrite_dest` (sendto) |
| Close | socket.cc 547-568 | everything above | `real::close`, unlink and unregister the path, `registry.erase` |
| Activation | socket.cc 127-137, 238-249 | `activated` | `listen`, `activate` (only with `SOCKET_ACTIVATION`) |
| Pure helpers | socket.cc 34-44, 139-170 | none | `get_sotype`, `format_sockpath` |
| Rules | rules.hh | `Rule` records | (the matcher is not in the repository) |
| CLI | ip2unix.cc | none shared | getopt, rule loading, `run_preload` |

The intercept layer that calls into `Socket` is not in the repository.
Neither are `SockAddr`, `Ports`, `BlackHole` or `SockoptCache`. spec.md
describes them, and the model takes their behaviour from there; those
definitions are marked `spec_modelled` in PROJECT.json.

### How the parts interact, and what is hard

- Every intercepted call finds the Socket of its fd in the process-wide
  registry. Threads of the program call concurrently. Only `create` takes
  the mutex. `bind`, `close` and `accept` touch the registries without it.
- `make_unix` swaps the kernel object behind the program's fd while the
  program keeps using the same number. Option replay must carry over what
  the program already set. A replay can fail: SOL_SOCKET options are
  replayed, not filtered (spec.md 4.E), and a UNIX socket refuses
  `SO_REUSEPORT` on Linux since it was restricted to inet sockets.
- File system paths are shared with other processes and with other Sockets
  of this one. `close` and `~Socket` unlink paths. Which path a Socket
  unlinks depends on the last writer of `sockpath`: `bind`, `connect` and
  `connect_peermap` all write it.
- Datagram peers get made-up addresses. The two maps must stay consistent
  across `recvfrom`, `sendto` and `connect`.

### What makes each component correct (the properties)

- The registry tracks every fd the program holds (`RegistryTracksProgramFds`).
- No fd is open that the program does not hold (`NoLeakedDescriptor`).
- A bound socket's path is unlinked only by that socket's own close
  (`BoundPathIntact`).
- A bind to a path this process already uses goes to a blackhole
  (`CollidingBindIsBlackholed`).
- After conversion, the UNIX socket carries the options the program set,
  in order (`OptionsReplayed`).
- A connected Socket has a binding with a real port (`ConnectedHasBinding`).
- A Socket's fabricated peer address is never its own address
  (`PeerDiffersFromLocal`, spec.md S3 and 4.G). Every code path that sets a
  binding must reserve its port in the pool that `accept` and
  `rewrite_src` draw peer ports from.
- The descriptor systemd passed stays open on its listening socket,
  whatever the program does (`SystemdSocketKept`).
- The peer maps are inverse (`PeerMapsInverse`). Peer addresses never change
  while the fd is open (`PeerAddressStable`).
- An activated descriptor is the systemd socket (`ActivatedAdoptsSystemdSocket`).
- What the program observes follows the abstract lifecycle of spec.md 4.G
  (`LifecycleRefined`).
- `get_sotype` calls only stream sockets TCP and only datagram sockets UDP
  (`SotypeMatchesBaseType`).
- The command execs the program with the rules, preload list and verbosity
  its command line asks for (`ExecEnvironment`).

## 2. Modules

| Module | Models |
|---|---|
| `IP2UnixSocket.tla` | the Socket layer together with the kernel objects it manipulates |
| `MCIP2UnixSocket.tla` | constant values for TLC |
| `SocketLifecycle.tla` | the abstract per-descriptor lifecycle that `IP2UnixSocket` refines |
| `FormatSockpath.tla` | the pure function `format_sockpath`; the Socket model only sees its results, as the model values of `Paths` |
| `SoType.tla` | `get_sotype`, with the Bitwise module's `&` and `\|` |
| `IP2UnixCli.tla` | `main` and `run_preload` of `ip2unix.cc` |

### State

| Variable | Code |
|---|---|
| `registry` | `Socket::registry`; each entry is a record with the Socket's fields |
| `sockpaths` | `Socket::sockpath_registry` |
| `fdtab`, `kobj`, `fsys` | the kernel: descriptor → object, objects (family, type, bound path, options), socket files |
| `bindop` | a bind between its `has_sockpath` check (284) and `real::bind` (297) |
| `closeop` | a close between `real::close` (554) and `registry.erase` (565) |
| `progfds`, `progopts` | auxiliary: the fds the program holds and the options it set |
| `nsockets` | bound on `socket()` and `accept()` calls |

Addresses are records `[host, port]`. The host is one of a few classes:
loopback, any, remote, self, peer, random. Paths are model values, so the
formatted path of a rule is a choice among `Paths`.

### Actions

Each action is one intercepted call, with every state change of the
`Socket` method it reaches:

- `Socket`: `socket()` and `Socket::create`.
- `SetSockOpt`, `Ioctl`: both go through `SetOption`.
- `BindCheck` and `BindFinish`: `bind`, split at its non-atomic point.
  `BindSucceeded` is what a successful `real::bind` leaves in the Socket,
  `ports.reserve` of the bound port included (303).
- `Connect`, with three disjuncts:
  1. `connect_peermap`;
  2. a datagram socket without a binding, through `RewriteDest`;
  3. `connect` proper, with `MakeUnix` and `CreateBinding`.
- `Accept`.
- `SendTo`: `rewrite_dest`.
- `RecvFrom`: `rewrite_src`.
- `Activate`: `bind` under a socket-activation rule, that is `Socket::activate`.
  `AdoptSystemdFd` is `make_unix(filedes)`: the systemd socket is dup2'ed
  over the program's descriptor unless the Socket is already AF_UNIX.
  With `SystemdFd # None` the systemd socket is open at that descriptor
  and bound at `ActPath` from the start. When the replay fails,
  `make_unix` closes `newfd`, which here is the systemd descriptor, and
  `activate` returns -1.
- Option replay (`Replay`, `ReplayOk`, `Applied`): the cache without its
  TCP-level entries, applied in order until the kernel refuses one. In
  `make_unix` a failed replay closes the fresh socket again, so the kernel
  is as before and the call fails.
- `Listen`: `Socket::listen`. Nothing for an activated Socket (systemd's
  socket listens already), else `real::listen`, which sets the kernel
  object's `listening` flag. A stream `connect` reaches only a listening
  socket, and `accept` needs one.
- `GetSockName`, `GetPeerName`: `getsockname` and `getpeername`, the
  stored binding and connection or EFAULT. They are the refinement
  mapping's `local` and `remote`.
- `CloseBegin` and `CloseEnd`: `close`, split at `real::close` / `registry.erase`. `CloseEnd` also runs `~Socket` for the Socket that dies. `RegistryErase` is the erase itself (565).

Kernel calls are operators on a record `k`: `KSocket`, `KClose`, `KDup2`,
`KUnlink`. This lets one action compose the several system calls of a
handler in the order the code makes them.

`SingleThreaded = TRUE` allows at most one call in progress at a time.
With `FALSE`, the split actions of several threads interleave.

A socket may always connect after bind, the usual client pattern.
`MixBindConnect = FALSE` refuses what a program does not do: a bind or
activation on a socket that has an address, a second connect, and a
connect on an activated (listening) socket. A retry after a failed call
is still allowed. With `TRUE`, a socket may also be bound twice, the
second time under an activation rule. The kernel part refuses `listen` on
a connected stream socket and `connect` on a listening one (EINVAL).

`RuleKinds` says which kinds of rule (`struct Rule` in rules.hh) a bind
may match. A `socket_path` rule reaches `Socket::bind`. A `blackhole` rule
calls `Socket::blackhole()` first, so bind goes to a BlackHole path (spec.md
4.G, bind step 4). A `socket_activation` rule reaches `Socket::activate`.
A bind that fails in `make_unix` still keeps the blackhole mark. The options
and lifecycle runs have blackhole rules; the violation runs have only the
rules their trace needs.

### Refinement

`SocketLifecycle.tla` is what the program can observe of each descriptor
it holds. It has a phase (none, new, unix, bound, connected, activated)
and the getsockname/getpeername values. In `IP2UnixSocket`, `Lifecycle`
instantiates it with a mapping:

- the phase is read off the Socket's `activated`, `connection`, `binding`
  and `is_unix` fields;
- local is `GetSockName` (the binding, or None for EFAULT);
- remote is `GetPeerName` (the connection, or None);
- a descriptor the program does not hold maps to "none".

`LifecycleRefined` is `Lifecycle!Spec`, checked as a PROPERTY. Every step
of the Socket model is a step of the lifecycle or leaves the observed
state unchanged. The abstract actions say how an address function may
change with `NewAt` (only at the descriptor of the step, only to an
address) instead of choosing the new address with `\E`, so that TLC
checks a step without enumerating addresses.

### The command (`IP2UnixCli.tla`)

The command line is a sequence of tokens: the options of
`"+hcpr:f:F:v"`, `--version`, an unknown option, `--`, and words. Each turn
of the `getopt_long` loop is one step:

- `GetOptDone` stops at the first word or `--`;
- `GetOptExit` handles help, version and `'?'`;
- `GetOptFlag` handles `-c`, `-p` and `-v`;
- `GetOptArg` handles `-r`, `-f` and `-F`.

`Validate`, `LoadRules` and `Run` follow, in the order of the code. In `Run`,
readlink and execvpe may fail. `env` holds LD_PRELOAD as a list of
libraries, plus the two `__IP2UNIX_*` variables. `env0` is the environment
at start. `ExecEnvironment` compares the result with a recursive reference
parse of the command line (`OptPositions`).

### Plan for the next modules (most important first)

1. Paths formatted from templates: compose `FormatSockpath` into the bind
   and connect actions, so that a `%p` template makes the path depend on
   the port. Per-Socket pools then give two port-0 servers the same path
   (hazard at socket.cc:271).
2. Accepted peers: two children of one listener get distinct peer ports
   (spec S4). This needs a third socket in the lifecycle run; with fds
   3..7 that run did not finish in 7 minutes.

## 3. Runs

Every run of `IP2UnixSocket` uses `Paths = {p1, p2}` and `EphPorts = 32768..32771`. The
bounds were chosen so that each run's question needs every element of
them. Two paths are enough for one Socket to be bound to one path and
connected to the other.

| Run | Config | Expect | What it shows |
|---|---|---|---|
| options | MCOptions.cfg | pass | With one socket, stream or datagram (so the split actions never interleave with another call), under socket_path and blackhole rules, with stale and foreign files at the paths: `TypeOK`; `OptionsReplayed` for up to two options per fd, before and after the switch; `PeerMapsInverse` and `PeerAddressStable` over sendto, connect, recvfrom from both paths, and close; `ConnectedHasBinding` over bind, connect and close (one socket, so no accept: the lifecycle run covers it); `PeerDiffersFromLocal` with the program also binding 127.0.0.1:32768, inside the ephemeral range, so that a peer port from the pool could collide with it (999k states). |
| format | FormatSockpath.cfg | pass | `FormatMatchesReference`: the recursive translation of the scanning loop equals a non-recursive definition (the template split into one- and two-character tokens at a set of start positions, maximal munch), for all 9331 templates of up to 5 characters over `% a p t x /`, with host and port present or absent and each socket type. |
| lifecycle | MCLifecycle.cfg | pass | `LifecycleRefined`: with a systemd socket at fd 3 and clients that connect after bind, the Socket layer implements `SocketLifecycle` over stream and datagram sockets, accept only from a bound or activated listener, activation and close with socket_path, blackhole and activation rules (1.6M states, fds 3..7, about 2.5 minutes). `PeerDiffersFromLocal`: a child accepted on a listener bound to port 0 never gets the listener's port as its peer port, because bind reserved it before accept acquires. Five descriptors let two Sockets hold paths at once: the systemd one, and a server and a client that each leak one descriptor in conversion. |
| cli | MCIP2UnixCli.cfg | pass | `TypeOK`, `ExecEnvironment` for every command line of up to 4 tokens, every starting LD_PRELOAD (unset, empty, one library) and inherited verbosity, with readlink and execvpe failures (525k states). |
| leak | MCLeak.cfg | violation | `make_unix` leaks its temporary descriptor (socket.cc:197). |
| unlink | MCUnlink.cfg | violation | Single-threaded: bind p1, another socket binds p2, connect to p2, close. The close unlinks p2 (socket.cc:373, 556). |
| erase_race | MCEraseRace.cfg | violation | `socket()` in another thread reuses the number between `real::close` and `registry.erase`, and its Socket is erased (socket.cc:565). |
| bind_race | MCBindRace.cfg | violation | Two binds of one path pass `has_sockpath` together; the second fails with EADDRINUSE instead of going to a blackhole (socket.cc:284). |
| activate_unix | MCActivateUnix.cfg | violation | A connect fails after making the socket AF_UNIX. A bind under an activation rule then marks it activated, but `make_unix(filedes)` returns early, so the descriptor is not the systemd socket (socket.cc:239, 182). |
| accept_self | MCAcceptSelf.cfg | violation | A server is activated on 127.0.0.1:32768, a fixed port inside the ephemeral range. `activate` does not reserve the port, so `accept` takes it from the pool as the child's peer port, and the child's getpeername equals its getsockname (socket.cc:243, 415). |
| activate_replay | MCActivateReplay.cfg | violation | `setsockopt(SO_REUSEPORT)`, then bind under an activation rule: the replay onto the systemd socket fails and `make_unix` closes the systemd descriptor (socket.cc:193). |
| sotype | SoType.cfg | violation | `get_sotype(SOCK_SEQPACKET)` is TCP (socket.cc:36). |

### Bounds

- `MaxSockets` (1 or 2) limits `socket()` and `accept()` calls.
- `MaxOpts` limits option calls per fd.
- `SystemdFd` (3 or None) and `ActPath` (p1) place the systemd socket.
  The activation runs use fds 3..6, the lifecycle run 3..7.
- `MaxArgs = 4` limits the command line. Four tokens are enough to combine
  an argument option, a flag and a program, to repeat a source, or to give
  an option argument that looks like an option.
- Fds are 3..5. The `unlink` and `bind_race` runs use 3..6, because each
  conversion leaks a descriptor: two UNIX sockets need four numbers.
- `EphBinds` is the set of ephemeral-range ports the program binds to
  loopback: `{32768}` in the options and accept_self runs, where it is the
  port `acquire` hands out first, else empty.
- `PoolLeft` stops a Socket's calls when its port pool is empty. What
  `Ports::acquire` does then is not in the repository.

Every bound appears in a guard and is named as a constant. The deadlock
check is off: the program may stop after closing its sockets.

### Fairness

The library has no loops, waits or retries: every call returns after a
bounded number of steps, and whether the program makes another call is
up to the program. The Socket model therefore has no fairness, and its
properties are safety and refinement properties. `ip2unix` itself runs
from `main` to exit or exec; each step of the model advances `optind` or
the program counter over a finite argv, so its termination follows from
the shape of the model and is not checked as a property.

## 4. Not modelled

- Rule parsing and encoding (`parse_rules`, `parse_rule_arg`,
  `encode_rules`): not in the repository. The CLI model takes the parser's
  verdict as the set `ParseOk`. The encoded rules carry the parsed ones.
- `listen` on a socket that is still AF_INET (the kernel would bind it to
  an ephemeral port): the model's `Listen` covers bound AF_UNIX stream
  sockets only. Pending-connection queues are abstracted: `Accept` may
  take a connection whenever the listener listens on a path.
- Clustered short options and attached option arguments: `getopt`
  treats them like the separate forms that the model has.
- Rule matching: not in the repository. The model allows any path for
  every call.
- The encoding of addresses (`apply_addr`, `set_host` from credentials):
  the properties only compare addresses, so host classes are enough.
- Torn updates of the `unordered_map`/`unordered_set` under a data race:
  each registry write is one atomic step.
- Ports pool exhaustion (see above). Nothing in socket.cc releases a port.
- `ConnectedHasBinding` is not checked with activation. `activate` keeps
  the program's address, port 0 included (spec.md 4.G: binding = addr).
  A child accepted on such a listener then has local port 0, and TLC
  finds the property violated; PROJECT.json lists this as a hazard.
- The registry invariant of spec.md 3 (`sockpath_registry` holds exactly
  the paths live owning Sockets are bound to) is not checked by any run.
  With bind-then-connect it breaks right after the connect, because
  connect overwrites `sockpath` with the peer's path (socket.cc:373), the
  bug the unlink run shows. A second bind under an activation rule would
  also leave a path registered (socket.cc:551); PROJECT.json lists that
  as a hazard.
- bind or connect on an accepted socket. The child Socket starts with
  `is_unix` false, so `make_unix` would replace the live connection by a
  fresh UNIX socket. TLC shows that a port-0 bind on such a child then
  takes its peer's port. The calls are a program error, so no run enables
  them; PROJECT.json lists the hazard (socket.cc:421).
- The intercept layer that decides which socket types reach `Socket`.
  `SoType` checks `get_sotype` for every type socket(2) knows.
