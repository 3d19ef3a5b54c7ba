--------------------------- MODULE MCMediaClient ---------------------------
(***************************************************************************)
(* MediaClient with two phones behind one host: the first calls twice, the *)
(* second time perhaps before the first call is over, the second once.     *)
(***************************************************************************)
EXTENDS MediaClient, TLC

CONSTANTS receiver, first, again, other, none, opus, pcmu

MCCalls == {first, again, other}

MCClients == MCCalls \cup {receiver}

MCRemoteHost == [c \in MCCalls |-> <<1, 0>>]

MCRemotePort == [c \in MCCalls |-> IF c = other THEN <<7>> ELSE <<5>>]

MCLocalPorts == 60000 .. 60002

MCCodecs == {opus}

\* The receiver's threads may outlast their answers.
MCSlots == [k \in MCClients |-> IF k = receiver THEN 2 ELSE 1]

\* The two calls of one phone are alike.
OnePhone == Permutations({first, again})

MCListening == {other}

\* The same phone twice, with readers, and perhaps with a codec that cannot be
\* played; a thread ends before its client asks again.
TwiceCalls == {first, again}

TwiceClients == TwiceCalls \cup {receiver}

TwiceHost == [c \in TwiceCalls |-> MCRemoteHost[c]]

TwicePort == [c \in TwiceCalls |-> MCRemotePort[c]]

TwiceCodecs == {opus, pcmu}

TwiceSlots == [k \in TwiceClients |-> 1]
=============================================================================
