---------------------------- MODULE MCSipServer ----------------------------
(***************************************************************************)
(* SipServer with one caller, one agent, the IVR and one Call-ID, and with *)
(* every datagram these parties could send in any order, each as often as  *)
(* it likes: no phone is trusted to follow the protocol.                   *)
(***************************************************************************)
EXTENDS SipText

CONSTANTS alice, bob, ivr, call1, none

MCUsers == {alice, bob}
MCCallIds == {call1}
MCParties == {alice, bob, ivr}

Proto(type, cseq, from, to, peer, contact, sdp) ==
  [Message(type, cseq, call1, from, to, peer) EXCEPT !.contact = contact, !.sdp = sdp]

Registers ==
  { Proto("REGISTER", "REGISTER", n, n, n, contact, none) :
      n \in MCParties, contact \in {alice, none, ExpiresZero} }

Invites ==
  { Proto("INVITE", "INVITE", from, to, from, from, sdp) :
      from \in {alice, bob}, to \in {bob, ivr}, sdp \in {alice, none} }

Requests ==
  { Proto(method, method, from, to, from, from, none) :
      method \in {"ACK", "BYE", "CANCEL"}, from \in MCParties, to \in MCParties }

Refers ==
  { [Proto("REFER", "REFER", ivr, alice, ivr, ivr, none) EXCEPT !.referTo = to] :
      to \in {alice, bob, none} }

Answers ==
  { Proto("200", "INVITE", from, to, to, contact, sdp) :
      from \in {alice, ivr}, to \in MCParties, contact \in {alice, none},
      sdp \in {bob, none} }

Failures ==
  { Proto(type, "INVITE", from, to, to, to, none) :
      type \in {"100", "180", "202", "480", "486", "487"},
      from \in {alice, ivr}, to \in MCParties }

Byes ==
  { Proto("200", cseq, from, to, to, contact, none) :
      cseq \in {"BYE", "CANCEL"}, from \in {alice, ivr}, to \in MCParties,
      contact \in {alice, bob, none} }

MCWire == {m \in Registers \cup Invites \cup Requests \cup Refers
                   \cup Answers \cup Failures \cup Byes : m.from # m.to \/ m.type = "REGISTER"}
============================================================================
