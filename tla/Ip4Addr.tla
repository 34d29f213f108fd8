------------------------------ MODULE Ip4Addr -------------------------------
(***************************************************************************)
(* HIp4Addr (src/src/haddr.{h,cpp}): addresses of IPv4 and their ports as  *)
(* texts, as integers and as they lie in a sockaddr_in.  An integer of     *)
(* four or of two bytes is the sequence of its bytes, the highest first;   *)
(* the host is little-endian, so that htonl, htons and their inverses turn *)
(* it round, and so does a look at the bytes of an integer in memory.      *)
(* m_addr has the address and the port as integers.                        *)
(***************************************************************************)
EXTENDS HStr, Integers

CONSTANTS Octets, Ports,    \* the bytes and ports that are sampled
          OctetTexts,       \* and the texts of which an address is made
          MaxIfs            \* how many interfaces the host has
AddrAssumption == Octets \subseteq 0 .. 255 /\ Ports \subseteq 0 .. 65535 /\ MaxIfs \in Nat

htonl(n) == Reverse(n)
htons(n) == Reverse(n)
Memory(n) == Reverse(n)
Short(n)  == <<(n \div 256) % 256, n % 256>>      \* an int passed as an uint16_t
Number(s) == s[1] * 256 + s[2]

\* "%d" and std::stoi, which throws for a text without a digit.
Figures == <<"0", "1", "2", "3", "4", "5", "6", "7", "8", "9">>
Format(n) == LET from[m \in Nat] == IF m < 10 THEN <<Figures[m + 1]>>
                                    ELSE Append(from[m \div 10], Figures[(m % 10) + 1])
             IN  from[n]
Value(c)    == (CHOOSE i \in DOMAIN Figures : Figures[i] = c) - 1
Read(s, base) == FoldLeft(LAMBDA n, c : n * base + Value(c), 0, s)
ToN(s)      == Read(s, 10)

\* inet_ntoa and inet_addr, of a text of four parts of digits; a part that begins
\* with 0 is octal, and ~0 stands for a text that is no address.
None4 == <<255, 255, 255, 255>>
inet_ntoa(sin_addr) ==
    LET m == Memory(sin_addr) IN V2Str([i \in 1 .. 4 |-> Format(m[i])], <<".">>)
inet_addr(ip) ==
    LET ps   == Split(ip, <<".">>)
        oct(p) == Len(p) > 1 /\ p[1] = "0"
        n(p) == IF oct(p) THEN Read(p, 8) ELSE ToN(p)
        bad(p) == p = <<>> \/ n(p) > 255 \/ (oct(p) /\ \E i \in DOMAIN p : Value(p[i]) > 7)
    IN  IF Len(ps) # 4 \/ \E i \in DOMAIN ps : bad(ps[i]) THEN None4
        ELSE Memory([i \in 1 .. 4 |-> n(ps[i])])

\* The constructors and init; SetupNetWithIpString never fails.
init(addr_bytes, port) == [sin_addr |-> addr_bytes, sin_port |-> htons(Short(port))]
SetupNetWithIpString(ip, port) == init(inet_addr(ip), port)
SetPort(m_addr, port) == [m_addr EXCEPT !.sin_port = htons(Short(port))]
GetAddrInfo(m_addr) ==
    [strIp |-> inet_ntoa(m_addr.sin_addr), iPort |-> Number(htons(m_addr.sin_port))]
\* ToString.
AddrString(m_addr) ==
    LET info == GetAddrInfo(m_addr) IN info.strIp \o <<":">> \o Format(info.iPort)

\* Everything zero, and INVL_PARA.
Zero4 == <<0, 0, 0, 0>>
Invalid == init(Zero4, 0)
ParseNetFromString(str) ==
    LET pos  == Find(str, <<":">>, 1)
        ssip == SubSeq(str, 1, pos - 1)
    IN  IF pos = 0 \/ pos = Len(str) THEN Invalid
        ELSE IF ~IsAllDigitAndDos(ssip) THEN Invalid
        ELSE SetupNetWithIpString(ssip, ToN(SubSeq(str, pos + 1, Len(str))))

\* Of a text no piece of which is empty: ToN throws for an empty one.
IsIp4Str(strIp) ==
    LET ncs == Split(strIp, <<".">>) IN
    /\ Len(strIp) <= 15 /\ strIp # <<>> /\ Len(ncs) = 4
    /\ \A i \in DOMAIN ncs : IsAllDigit(ncs[i]) /\ ToN(ncs[i]) \in 0 .. 255

StringIpToInt(strIp) == htonl(inet_addr(strIp))
ToStringIp(ll)       == inet_ntoa(htonl(ll))
AddrTypeToInt(iaddr) == htonl(iaddr)

\* GetLocalAddr and GetLocalIp: the first interface that is up, is no loopback and
\* has an address of IPv4 that is not bad.
is_bad_address4_for_us(addr) == htonl(addr) \in {<<127, 0, 0, 1>>, Zero4, None4}
isBadAddressForUs(p) == p.family # "AF_INET" \/ is_bad_address4_for_us(p.addr)
GetLocalAddr(ifap) ==
    LET addressIsNull(ss) == ss = Zero4
        skipped(p) == ~p.up \/ p.loopback \/ isBadAddressForUs(p)
    IN  FoldLeft(LAMBDA ss, p : IF ~skipped(p) /\ addressIsNull(ss) THEN p.addr ELSE ss,
                 Zero4, ifap)
GetLocalIp(ifap) == inet_ntoa(GetLocalAddr(ifap))

-----------------------------------------------------------------------------
(* Samples: an address and a port, a text of four parts, and interfaces *)

Quads == [1 .. 4 -> Octets]
Faces == [up : BOOLEAN, loopback : BOOLEAN, family : {"AF_INET", "AF_INET6"},
          addr : {<<1, 0, 0, 127>>, Zero4, <<1, 0, 168, 192>>, <<2, 0, 168, 192>>}]
PickAddr ==
    /\ sample.k = "none"
    /\ \/ \E a \in Quads, p \in Ports : sample' = [k |-> "addr", of |-> a, port |-> p]
       \/ \E ps \in [1 .. 4 -> OctetTexts] : sample' = [k |-> "ip", of |-> V2Str(ps, <<".">>)]
       \/ \E n \in 0 .. MaxIfs : \E ifap \in [1 .. n -> Faces] :
             sample' = [k |-> "ifs", of |-> ifap]

\* An address and its port, turned to text and read again, are the same; so is an
\* address by way of an integer, which is the one its text is read as; a port more
\* than two bytes wide is cut.
AddrExact(a, p) ==
    LET m  == init(Memory(a), p)
        ip == GetAddrInfo(m).strIp
    IN  /\ ParseNetFromString(AddrString(m)) = m
        /\ SetupNetWithIpString(ip, p + 65536) = m /\ SetPort(Invalid, p).sin_port = m.sin_port
        /\ GetAddrInfo(m).iPort = p
        /\ IsIp4Str(ip)
        /\ StringIpToInt(ip) = a /\ AddrTypeToInt(Memory(a)) = a /\ ToStringIp(a) = ip
        /\ \A s \in {ip, ip \o <<":">>, <<"x">> \o AddrString(m)} : ParseNetFromString(s) = Invalid

\* What passes IsIp4Str is read as the address that it says, unless one of its parts
\* has a zero in front; what does not is read as no address.
IpExact(ip) ==
    LET ps == Split(ip, <<".">>)
        plain == \A i \in DOMAIN ps : Len(ps[i]) > 1 => ps[i][1] # "0"
    IN  plain => IF IsIp4Str(ip) THEN inet_ntoa(inet_addr(ip)) = ip
                 ELSE inet_addr(ip) = None4

\* The address taken for this host's own is of one of its interfaces that serve, and
\* there is none before it; 0.0.0.0 stands for none.
LocalExact(ifap) ==
    LET serves == {i \in DOMAIN ifap :
                     /\ ifap[i].up /\ ~ifap[i].loopback /\ ifap[i].family = "AF_INET"
                     /\ ifap[i].addr \notin {<<1, 0, 0, 127>>, Zero4}}
    IN  IF serves = {} THEN GetLocalIp(ifap) = <<"0", ".", "0", ".", "0", ".", "0">>
        ELSE \E i \in serves : /\ \A j \in serves : i <= j
                               /\ StringIpToInt(GetLocalIp(ifap)) = Memory(ifap[i].addr)

\* All of these, of every sample.
AddressesExact ==
    /\ sample.k = "addr" => AddrExact(sample.of, sample.port)
    /\ sample.k = "ip"   => IpExact(sample.of)
    /\ sample.k = "ifs"  => LocalExact(sample.of)
=============================================================================
