--------------------------- MODULE FormatSockpath ---------------------------
(***************************************************************************)
(* Socket::format_sockpath (src/socket.cc): placeholder expansion of a    *)
(* rule's socket path template.  %% gives %, %a the host of the address,  *)
(* %p its port, %t the socket type; any other character, a % before an    *)
(* unknown character and a trailing % are copied.                         *)
(*                                                                         *)
(* A template is a sequence of characters from a small alphabet: the four *)
(* characters that follow % in a placeholder, one other letter and the    *)
(* separator.  A host or port string is one symbol of the output: what    *)
(* matters is where it is inserted, not its digits.                       *)
(***************************************************************************)
EXTENDS Integers, Sequences, SequencesExt, FiniteSets

CONSTANTS
    Hosts,      \* host strings an address can carry
    Ports,      \* port strings an address can carry
    NoValue,    \* get_host() / get_port_str() without a value
    MaxLen      \* bound: length of the templates checked

Chars == {"%", "a", "p", "t", "x", "/"}
SocketTypes == {"TCP", "UDP", "INVALID"}

\* value_or("unknown") of an optional string.
ValueOr(v) == IF v = NoValue THEN "unknown" ELSE v

\* The %t expansion of this->type.
TypeStr(type) ==
    CASE type = "TCP" -> "tcp"
      [] type = "UDP" -> "udp"
      [] OTHER        -> "unknown"

\* What the placeholder character c after a % expands to.
Placeholder(c, host, port, type) ==
    CASE c = "%" -> <<"%">>
      [] c = "a" -> <<ValueOr(host)>>
      [] c = "p" -> <<ValueOr(port)>>
      [] c = "t" -> <<TypeStr(type)>>
IsPlaceholder(c) == c \in {"%", "a", "p", "t"}

\* Variant that copies the second % of %% as well (no i++ after it).
RECURSIVE FormatSockpathNoSkip(_, _, _, _)
FormatSockpathNoSkip(path, host, port, type) ==
    IF path = <<>> THEN <<>>
    ELSE IF Head(path) = "%" /\ Len(path) > 1 /\ IsPlaceholder(path[2])
    THEN IF path[2] = "%"
         THEN <<"%">> \o FormatSockpathNoSkip(Tail(path), host, port, type)
         ELSE Placeholder(path[2], host, port, type)
                \o FormatSockpathNoSkip(Tail(Tail(path)), host, port, type)
    ELSE <<Head(path)>> \o FormatSockpathNoSkip(Tail(path), host, port, type)

\* The loop of format_sockpath: a placeholder consumes two characters,
\* everything else (including a % not followed by one) one.
RECURSIVE FormatSockpath(_, _, _, _)
FormatSockpath(path, host, port, type) ==
    IF path = <<>> THEN <<>>
    ELSE IF Head(path) = "%" /\ Len(path) > 1 /\ IsPlaceholder(path[2])
    THEN Placeholder(path[2], host, port, type)
           \o FormatSockpath(Tail(Tail(path)), host, port, type)
    ELSE <<Head(path)>> \o FormatSockpath(Tail(path), host, port, type)

(***************************************************************************)
(* Reference definition, without recursion: a template splits into       *)
(* tokens of one or two characters at a set of start positions; a       *)
(* two-character token is a placeholder, and a % that can start one must *)
(* (maximal munch, left to right).  The output is the concatenation of   *)
(* the tokens' expansions.                                                 *)
(***************************************************************************)
IsSplit(path, S) ==
    LET n   == Len(path)
        len(s) == IF s + 1 \in S \/ s = n THEN 1 ELSE 2
    IN  /\ n > 0 => 1 \in S
        /\ \A s \in S :
             /\ len(s) = 2 => path[s] = "%" /\ IsPlaceholder(path[s + 1])
             /\ len(s) = 2 => s + 2 \in S \/ s + 2 = n + 1
        /\ \A s \in S : path[s] = "%" /\ s < n /\ IsPlaceholder(path[s + 1]) => s + 1 \notin S
        /\ \A s \in 1..n : s \notin S => s - 1 \in S

ReferenceFormat(path, host, port, type) ==
    LET n      == Len(path)
        S      == CHOOSE S \in SUBSET (1..n) : IsSplit(path, S)
        starts == SetToSortSeq(S, <)
        tok(s) == IF s + 1 \in S \/ s = n THEN <<path[s]>>
                  ELSE Placeholder(path[s + 1], host, port, type)
    IN  FlattenSeq([i \in DOMAIN starts |-> tok(starts[i])])

(***************************************************************************)
(* The checked behaviour: the template grows one character at a time, so *)
(* that every template up to MaxLen is visited.                           *)
(***************************************************************************)
VARIABLE path

Init == path = <<>>

Extend == \E c \in Chars : Len(path) < MaxLen /\ path' = Append(path, c)

Spec == Init /\ [][Extend]_path

\* format_sockpath agrees with the placeholder rules for every address
\* (host and port present or absent) and every socket type: the scanning
\* loop, with its i + 1 < path_len test and its i++ after a placeholder,
\* expands exactly the maximal-munch placeholders and copies the rest.
FormatMatchesReference ==
    \A h \in Hosts \cup {NoValue}, p \in Ports \cup {NoValue}, ty \in SocketTypes :
        FormatSockpath(path, h, p, ty) = ReferenceFormat(path, h, p, ty)
=============================================================================
