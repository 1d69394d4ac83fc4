----------------------------- MODULE NetAddress -----------------------------
(***************************************************************************)
(* net/sockaddr/sockaddr.c and net/hostport/hostport.c: addresses and host *)
(* names with a port, read from a text and written back. An IPv6 address   *)
(* is two halves of 8 bytes, of which a struct sockaddr holds the first.   *)
(* A text fits the buffers of the code (126 characters).                   *)
(***************************************************************************)
EXTENDS Text

CONSTANTS
    Ip4, Ip6,        \* inet_pton: the addresses of the texts it accepts
    Text4, Text6,    \* inet_ntop
    Letters,         \* characters of host names but the digits and "-"
    MaxLabel,        \* 63, the longest part of a host name
    MaxHost,         \* 253, the longest host name
    Texts, Ports     \* what the calls are given

\* the values of a uint16_t, and what becomes of a number
PortNumbers == 0..65535
Port16(n) == n % 65536

\* an address is what inet_pton makes of what inet_ntop writes of it, which has
\* none of the characters that set it apart from its port, nor has a host name
ASSUME AddressesAssumption ==
    /\ DOMAIN Ip4 \subseteq Seq(STRING) /\ DOMAIN Ip6 \subseteq Seq(STRING)
    /\ \A i \in Range(Ip4) : /\ Text4[i] \in DOMAIN Ip4 /\ Ip4[Text4[i]] = i
                            /\ Text4[i] # <<>> /\ Text4[i][1] # "["
                            /\ \A k \in DOMAIN Text4[i] : Text4[i][k] # ":"
    /\ \A i \in Range(Ip6) : /\ Text6[i] \in DOMAIN Ip6 /\ Ip6[Text6[i]] = i
                            /\ \A k \in DOMAIN Text6[i] : Text6[i][k] # "]"
    /\ Letters \cap {":", "["} = {}

ASSUME CallsAssumption == Texts \subseteq Seq(STRING) /\ Ports \subseteq PortNumbers

ASSUME LimitsAssumption == MaxLabel \in Nat /\ MaxHost \in Nat

VARIABLES
    addr,   \* a sockaddr_t, or NoAddr
    host    \* a hostport_t, or NoHost

netVars == <<addr, host>>

NoAddr == [family |-> "none"]
NoHost == [hostname |-> <<"none">>]

NetInit == addr = NoAddr /\ host = NoHost

-----------------------------------------------------------------------------
(* sockaddr.c                                                               *)

\* sockaddr_set_ip_str, on a block of zeroes
IpOf(family, text) ==
    CASE family = "inet"  /\ text \in DOMAIN Ip4 -> [family |-> "inet", ip |-> Ip4[text], port |-> 0]
      [] family = "inet6" /\ text \in DOMAIN Ip6 -> [family |-> "inet6", ip |-> Ip6[text], port |-> 0]
      [] OTHER -> NoAddr

\* the port must be all that is left, but may be nothing
WithPort(a, text) == LET port == Strtol(text)
                     IN  IF a = NoAddr \/ port.length # Len(text) THEN NoAddr
                         ELSE [a EXCEPT !.port = Port16(port.value)]

SockaddrParse(text) ==
    LET bracket == text # <<>> /\ text[1] = "["
        start == IF bracket THEN 2 ELSE 1
        close == Find(text, "]", 2)
        colon == Find(text, ":", IF bracket THEN close + 1 ELSE 1)
        end == IF bracket THEN close - 1 ELSE IF colon = 0 THEN Len(text) ELSE colon - 1
        a == IpOf(IF bracket THEN "inet6" ELSE "inet", SubSeq(text, start, end))
    IN  IF bracket /\ close = 0 THEN NoAddr
        ELSE IF colon = 0 THEN a
        ELSE WithPort(a, From(text, colon + 1))

IpText(a) == IF a.family = "inet6" THEN Text6[a.ip] ELSE Text4[a.ip]

\* mutant: no brackets
SockaddrToStringBare(a) == IpText(a) \o (IF a.port = 0 THEN <<>> ELSE <<":">> \o Decimal(a.port))
SockaddrToString(a) ==
    (IF a.family = "inet6" THEN <<"[">> \o IpText(a) \o <<"]">> ELSE IpText(a))
        \o (IF a.port = 0 THEN <<>> ELSE <<":">> \o Decimal(a.port))

-----------------------------------------------------------------------------
(* hostport.c                                                               *)

HostChar(c) == IsDigit(c) \/ c \in Letters \/ c = "-"

\* find_hostname_end: the length of the host name, -1 if a part of it is empty
\* or too long
HostnameEnd(text) ==
    LET n == CHOOSE i \in 0..Len(text) :
                /\ \A j \in 1..i : HostChar(text[j]) \/ text[j] = "."
                /\ i = Len(text) \/ i = MaxHost \/ ~(HostChar(text[i + 1]) \/ text[i + 1] = ".")
                /\ i <= MaxHost
        label(i) == i - Max({0} \cup {j \in 1..(i - 1) : text[j] = "."})
    IN  IF \E i \in 1..n : IF text[i] = "." THEN label(i) = 1 ELSE label(i) > MaxLabel
        THEN -1 ELSE n

\* hostport_parse: an address, or a name with a port of which only the start
\* need be digits
HostportParse(text) ==
    LET a == SockaddrParse(text)
        n == HostnameEnd(text)
        port == Strtol(From(text, n + 2))
        named == [hostname |-> SubSeq(text, 1, n), port |-> 0, ip |-> FALSE]
    IN  CASE a # NoAddr -> [hostname |-> IpText(a), port |-> a.port, ip |-> TRUE]
          [] a = NoAddr /\ n = -1 -> NoHost
          [] a = NoAddr /\ n = Len(text) -> named
          [] a = NoAddr /\ n \in 0..(Len(text) - 1) ->
                IF text[n + 1] # ":" \/ port.length = 0 THEN NoHost
                ELSE [named EXCEPT !.port = Port16(port.value)]

\* hostport_new
HostportNew(text, port) == LET h == HostportParse(text)
                           IN  IF h = NoHost THEN NoHost ELSE [h EXCEPT !.port = port]

HostportToString(h) == h.hostname \o <<":">> \o Decimal(h.port)

-----------------------------------------------------------------------------
\* one object at a time is made, and freed
Fresh == addr = NoAddr /\ host = NoHost

ReadAddress(text) == Fresh /\ addr' = SockaddrParse(text) /\ UNCHANGED host
ReadHost(text)    == Fresh /\ host' = HostportParse(text) /\ UNCHANGED addr
NewHost(text, p)  == Fresh /\ host' = HostportNew(text, p) /\ UNCHANGED addr
Free              == ~Fresh /\ addr' = NoAddr /\ host' = NoHost

\* sockaddr_set_ip and sockaddr_set_port, on an address that is there
SetIp(family, ip) == /\ addr # NoAddr
                     /\ addr' = [addr EXCEPT !.family = family, !.ip = ip]
                     /\ UNCHANGED host
SetPort(p) == /\ addr # NoAddr
              /\ addr' = [addr EXCEPT !.port = p]
              /\ UNCHANGED host

NetNext == \/ \E t \in Texts : ReadAddress(t) \/ ReadHost(t) \/ \E p \in Ports : NewHost(t, p)
           \/ \E i \in Range(Ip4) : SetIp("inet", i)
           \/ \E i \in Range(Ip6) : SetIp("inet6", i)
           \/ \E p \in Ports : SetPort(p)
           \/ Free

NetSpec == NetInit /\ [][NetNext]_netVars

-----------------------------------------------------------------------------
\* An address written is read back the same, with or without a port, of either
\* family; so is a host, its port included, except an IPv6 address, which
\* hostport.c writes without brackets, and a name that is an address followed by
\* a bad port.
WrittenIsReadBack ==
    /\ addr # NoAddr => SockaddrParse(SockaddrToString(addr)) = addr
    /\ host # NoHost =>
          \/ HostportParse(HostportToString(host)) = host
          \/ host.ip /\ host.hostname \in DOMAIN Ip6
          \/ ~host.ip /\ host.hostname \in DOMAIN Ip4

=============================================================================
