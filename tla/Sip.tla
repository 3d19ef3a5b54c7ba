------------------------------- MODULE Sip -------------------------------
(***************************************************************************)
(* The SIP datagrams that the SIP server (src/sipserver), the IVR          *)
(* application (src/ivr/gstivr) and the softphones exchange.               *)
(*                                                                         *)
(* Both programs keep a message as text and read a dozen fields out of it; *)
(* a datagram here is the record of the fields that some handler tests or  *)
(* rewrites.  Tags, branches, Via lines and the port numbers inside an SDP *)
(* body are abstracted: an SDP body is named by the party whose RTP        *)
(* address it describes, and a UDP address by the number that owns it.     *)
(***************************************************************************)
CONSTANTS Users,     \* the numbers of the phones: callers and agents
          Ivr,       \* the number of the IVR application, "mvnivr"
          CallIds,   \* the Call-ID values in use
          None       \* an absent header, an empty shared_ptr

Numbers == Users \cup {Ivr}

\* What the contact of a REGISTER is reduced to when it holds "expires=0".
ExpiresZero == "expires=0"

ASSUME SipAssumption ==
  /\ Ivr \notin Users
  /\ None \notin Numbers
  /\ ExpiresZero \notin Numbers \cup {None}

Methods == {"REGISTER", "INVITE", "ACK", "BYE", "CANCEL", "REFER"}

Responses == {"100", "180", "200", "202", "404", "480", "486", "487"}

\* The first line of a datagram.  "garbled" is a first line that no program
\* recognises: SetContact produces it.
Types == Methods \cup Responses \cup {"garbled"}

OrNone(S) == S \cup {None}

(***************************************************************************)
(* peer is the address a datagram comes from while it is being handled and *)
(* the address it goes to once it has been sent.                           *)
(***************************************************************************)
Datagram ==
  [type : Types, cseq : Methods, callID : CallIds, from : Numbers,
   to : Numbers, contact : OrNone(Numbers) \cup {ExpiresZero},
   referTo : OrNone(Numbers), sdp : OrNone(Numbers), peer : Numbers]

\* A datagram with neither Contact, nor Refer-To, nor body.
Message(type, cseq, callID, from, to, peer) ==
  [type |-> type, cseq |-> cseq, callID |-> callID, from |-> from, to |-> to,
   contact |-> None, referTo |-> None, sdp |-> None, peer |-> peer]

Request(method, callID, from, to, peer) ==
  Message(method, method, callID, from, to, peer)

(***************************************************************************)
(* SipMessage::setContact replaces the old Contact line by the new one.    *)
(* Without an old one it searches for the empty string, finds it at        *)
(* position 0 and so prefixes the new line to the first line.              *)
(***************************************************************************)
SetContact(m, number) ==
  IF m.contact = None THEN [m EXCEPT !.type = "garbled"]
                      ELSE [m EXCEPT !.contact = number]
==========================================================================
