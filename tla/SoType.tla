------------------------------- MODULE SoType -------------------------------
(***************************************************************************)
(* get_sotype (src/socket.cc): the Socket constructor classifies the type *)
(* argument of socket() as TCP, UDP or INVALID.  Socket::type then picks  *)
(* the code paths (datagram peers, rewrite_dest, %t), while make_unix     *)
(* creates the UNIX socket with the unclassified typearg.                 *)
(*                                                                         *)
(* The type argument is an int: a base type in its low four bits          *)
(* (SOCK_TYPE_MASK on Linux) and the creation flags SOCK_NONBLOCK and     *)
(* SOCK_CLOEXEC.  The values below are Linux's.                           *)
(***************************************************************************)
EXTENDS Integers, Bitwise

SOCK_STREAM    == 1
SOCK_DGRAM     == 2
SOCK_RAW       == 3
SOCK_RDM       == 4
SOCK_SEQPACKET == 5
SOCK_DCCP      == 6
SOCK_PACKET    == 10
SOCK_NONBLOCK  == 2048
SOCK_CLOEXEC   == 524288
SOCK_TYPE_MASK == 15

BaseTypes == {SOCK_STREAM, SOCK_DGRAM, SOCK_RAW, SOCK_RDM,
              SOCK_SEQPACKET, SOCK_DCCP, SOCK_PACKET}
FlagSets  == {0, SOCK_NONBLOCK, SOCK_CLOEXEC, SOCK_NONBLOCK + SOCK_CLOEXEC}

\* The type arguments socket() accepts: a base type and any creation flags.
TypeArgs == {b + fl : b \in BaseTypes, fl \in FlagSets}

\* get_sotype: switch on type & (SOCK_STREAM | SOCK_DGRAM).
GetSotype(type) ==
    CASE (type & (SOCK_STREAM | SOCK_DGRAM)) = SOCK_STREAM -> "TCP"
      [] (type & (SOCK_STREAM | SOCK_DGRAM)) = SOCK_DGRAM  -> "UDP"
      [] OTHER                                             -> "INVALID"

\* Reference: the base type, with the creation flags stripped, is a stream
\* or a datagram socket; every other kind of socket is not TCP or UDP.
BaseClass(type) ==
    CASE (type & SOCK_TYPE_MASK) = SOCK_STREAM -> "TCP"
      [] (type & SOCK_TYPE_MASK) = SOCK_DGRAM  -> "UDP"
      [] OTHER                                 -> "INVALID"

VARIABLE typearg

Init == typearg \in TypeArgs

Spec == Init /\ [][UNCHANGED typearg]_typearg

\* spec.md 3: a Socket's type is "derived TCP/UDP/INVALID" from the type
\* argument, and Sockets are made for SOCK_STREAM and SOCK_DGRAM: the
\* constructor's get_sotype(stype) should call a socket TCP or UDP only
\* when its base type is SOCK_STREAM or SOCK_DGRAM, whatever its flags.
SotypeMatchesBaseType == GetSotype(typearg) = BaseClass(typearg)
=============================================================================
