---------------------------- MODULE MCMultiAddr ----------------------------
(* A small instance of MultiAddr: addresses that convert both ways, and the *)
(* ones at the edges of the conversions.                                    *)
EXTENDS MultiAddr

Word(t)    == <<Slash, t>>
ShortId    == Id(<<18, 32, 1, 2, 3>>)
LongId     == Id([i \in 1 .. 64 |-> 7])
Ip4(o)     == Word(P("ip4")) \o Word(Ip(o))
Tcp(n)     == Word(P("tcp")) \o Word(Port(n))
Udp(n)     == Word(P("udp")) \o Word(Port(n))
Ipfs(t)    == Word(P("ipfs")) \o Word(t)
Closed(s)  == s \o <<Slash>>

MCStrings ==
  { <<Slash>>,
    Ip4(<<127, 0, 0, 1>>) \o Tcp(4001),
    Closed(Ip4(<<192, 168, 1, 1>>) \o Tcp(9999) \o Ipfs(ShortId)),
    Closed(Ip4(<<1, 6, 0, 80>>)),
    Closed(Ip4(<<0, 0, 0, 1>>) \o Tcp(80)),
    Closed(Word(P("tcp")) \o Word(Ip(<<9, 0, 0, 1>>))),
    Closed(Tcp(65535)), Closed(Udp(70000)), Word(P("http")),
    Closed(Ipfs(LongId)) }

MCAdditions ==
  { Closed(Tcp(256)), Udp(9999), Closed(Ipfs(ShortId)) }

MCNeedles ==
  { <<P("tcp")>>, <<P("udp")>>, <<P("ip4")>>, Word(P("tcp")) }
=============================================================================
