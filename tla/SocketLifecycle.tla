-------------------------- MODULE SocketLifecycle --------------------------
(***************************************************************************)
(* What the Socket layer promises the program about each descriptor it    *)
(* holds (spec.md, 4.G, "State machine"): a socket goes from NEW to UNIX, *)
(* to BOUND by bind, to CONNECTED by connect (implicitly bound), or to     *)
(* ACTIVATED, and close ends it.  Besides the phase the program observes  *)
(* two addresses: getsockname (local) and getpeername (remote).           *)
(*                                                                         *)
(* The promises are in the transitions: a phase never goes back; a local *)
(* address, once there, changes only by activation (connect keeps it);    *)
(* an accepted socket starts connected with its listener's local address. *)
(***************************************************************************)
CONSTANTS
    Fds,        \* descriptor numbers
    Addrs,      \* IP addresses the program can observe
    None        \* no address

VARIABLES
    phase,      \* descriptor -> phase of the Socket the program holds there
    local,      \* descriptor -> getsockname result, or None
    remote      \* descriptor -> getpeername result, or None

lvars == <<phase, local, remote>>

Phases == {"none", "new", "unix", "bound", "connected", "activated"}

TypeOK ==
    /\ phase \in [Fds -> Phases]
    /\ local \in [Fds -> Addrs \cup {None}]
    /\ remote \in [Fds -> Addrs \cup {None}]

Init ==
    /\ phase = [f \in Fds |-> "none"]
    /\ local = [f \in Fds |-> None]
    /\ remote = [f \in Fds |-> None]

\* In a step of descriptor f, the address function fn changes at most at
\* f, and only to an address.
NewAt(fn, f) ==
    /\ DOMAIN fn' = Fds
    /\ \A g \in Fds \ {f} : fn'[g] = fn[g]
    /\ fn'[f] \in Addrs

\* socket(): a fresh IP socket.
Open(f) ==
    /\ phase[f] = "none"
    /\ phase' = [phase EXCEPT ![f] = "new"]
    /\ UNCHANGED <<local, remote>>

\* A call switched the socket to AF_UNIX and then failed.
Convert(f) ==
    /\ phase[f] = "new"
    /\ phase' = [phase EXCEPT ![f] = "unix"]
    /\ UNCHANGED <<local, remote>>

\* bind, or the implicit binding of a datagram sendto: a first local address.
Bind(f) ==
    /\ phase[f] \in {"new", "unix"}
    /\ phase' = [phase EXCEPT ![f] = "bound"]
    /\ NewAt(local, f)
    /\ UNCHANGED remote

\* connect: a peer address; a local address only if there was none.
Connect(f) ==
    /\ phase[f] \in {"new", "unix", "bound", "connected"}
    /\ phase' = [phase EXCEPT ![f] = "connected"]
    /\ NewAt(remote, f)
    /\ NewAt(local, f)
    /\ local[f] # None => local'[f] = local[f]

\* activate: the socket is the one systemd passed, at the program's address.
Activate(f) ==
    /\ phase[f] # "none"
    /\ phase' = [phase EXCEPT ![f] = "activated"]
    /\ NewAt(local, f)
    /\ UNCHANGED remote

\* accept on listener f, which bind or activation gave its address (spec:
\* BOUND -- accept): a connected socket at g with f's local address.
Accept(f, g) ==
    /\ phase[f] \in {"bound", "activated"} /\ phase[g] = "none"
    /\ phase' = [phase EXCEPT ![g] = "connected"]
    /\ local' = [local EXCEPT ![g] = local[f]]
    /\ NewAt(remote, g)

Close(f) ==
    /\ phase[f] # "none"
    /\ phase' = [phase EXCEPT ![f] = "none"]
    /\ local' = [local EXCEPT ![f] = None]
    /\ remote' = [remote EXCEPT ![f] = None]

Next ==
    \E f \in Fds :
        \/ Open(f) \/ Convert(f) \/ Bind(f) \/ Connect(f) \/ Activate(f) \/ Close(f)
        \/ \E g \in Fds : Accept(f, g)

Spec == Init /\ [][Next]_lvars
=============================================================================
