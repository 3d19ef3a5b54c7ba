-------------------------- MODULE MCIvrApplication --------------------------
(***************************************************************************)
(* IvrApplication with two calls, one caller and one agent, and with every *)
(* datagram the server sends to the IVR, in any order and number: two      *)
(* calls are what it takes for a handler of one to run while the reader of *)
(* the other is anywhere, and to see the receiver return to the second     *)
(* after it slept for the first.                                           *)
(***************************************************************************)
EXTENDS IvrApplication

CONSTANTS alice, bob, ivr, call1, call2, none

MCUsers == {alice, bob}
MCAgents == {bob}
MCCallIds == {call1, call2}

Incoming(type, cseq, c, sdp) ==
  [Message(type, cseq, c, alice, ivr, ivr) EXCEPT !.contact = alice, !.sdp = sdp]

MCWire ==
  { Incoming("INVITE", "INVITE", c, sdp) : c \in MCCallIds, sdp \in {alice, none} }
  \cup { Incoming(method, method, c, none) :
           method \in {"ACK", "BYE", "CANCEL"}, c \in MCCallIds }
  \cup { Incoming(type, "REFER", c, none) :
           type \in {"202", "480", "486"}, c \in MCCallIds }
  \cup { Incoming("200", cseq, c, none) :
           cseq \in {"BYE", "REGISTER"}, c \in MCCallIds }
=============================================================================
