------------------------------ MODULE SipText ------------------------------
(***************************************************************************)
(* The text under the SIP server's datagrams.  The server never composes a *)
(* message it passes on: SipMessage keeps the text as it was received and  *)
(* the lines it parsed out of it, and every setter looks for the old line  *)
(* in the text and puts the new one in its place.  A handler makes up to   *)
(* five such edits, some of them twice, and sends the text in between.     *)
(*                                                                         *)
(* Sip takes a datagram for a record of fields; this module runs SipServer *)
(* together with the edits of its handlers, so that the records sent and   *)
(* the texts sent can be compared.                                         *)
(***************************************************************************)
EXTENDS SipServer, SequencesExt

VARIABLE text   \* the texts of the datagrams in sent

textVars == <<clients, sessions, sent, fault, text>>

(***************************************************************************)
(* A text is a sequence of lines, a line its name and its value; the value *)
(* stands for the number, the method or the body that is read out of it.   *)
(***************************************************************************)
Line(name, value) == <<name, value>>

HeaderNames ==
  {"first", "Via", "From", "To", "Call-ID", "CSeq", "Contact", "Refer-To", "body"}

Optional(name, value) == IF value = None THEN <<>> ELSE <<Line(name, value)>>

\* The text of a datagram as phones, the IVR and the server write it.
Text(m) ==
  << Line("first", m.type), Line("Via", m.peer), Line("From", m.from), Line("To", m.to),
     Line("Call-ID", m.callID), Line("CSeq", m.cseq) >>
  \o Optional("Contact", m.contact)
  \o Optional("Refer-To", m.referTo)
  \o Optional("body", m.sdp)

\* parse: of two lines with the same name the later one counts.
Field(lines, name) ==
  LET own == SelectSeq(lines, LAMBDA l : l[1] = name)
  IN  IF own = <<>> THEN None ELSE Last(own)

\* A received message: its text and the lines parsed out of it.
Received(lines) == [text |-> lines, fields |-> [n \in HeaderNames |-> Field(lines, n)]]

\* isValidMessage: createMessage drops what lacks one of these lines.
ValidWithoutContact(m) == \A n \in {"Via", "From", "To", "Call-ID", "CSeq"} :
  Field(Text(m), n) # None
Valid(m) ==
  /\ \A n \in {"Via", "From", "To", "Call-ID", "CSeq"} : Field(Text(m), n) # None
  /\ m.type \in {"INVITE", "REGISTER"} => m.contact # None

\* A search for a To line also finds the end of a Refer-To line.
FoundIn(line, l) == line = l \/ (l[1] = "To" /\ line = Line("Refer-To", l[2]))

(***************************************************************************)
(* The setters.  What is not found throws and ends the process: None.      *)
(* Without an old line the empty string is found in front of the text.     *)
(***************************************************************************)
SetAndForget(o, edit) ==
  LET old == o.fields[edit[1]]
      at == SelectInSeq(o.text, LAMBDA l : FoundIn(l, old))
  IN  IF old = None THEN [o EXCEPT !.text = <<edit>> \o @]
      ELSE IF at = 0 THEN None
      ELSE [o EXCEPT !.text[at] = edit]
Set(o, edit) ==
  LET old == o.fields[edit[1]]
      at == SelectInSeq(o.text, LAMBDA l : FoundIn(l, old))
      edited == IF old = None THEN <<edit>> \o o.text ELSE [o.text EXCEPT ![at] = edit]
  IN  IF old # None /\ at = 0 THEN None
      ELSE [text |-> edited, fields |-> [o.fields EXCEPT ![edit[1]] = edit]]

Edited(o, edits) ==
  FoldLeft(LAMBDA p, e : IF p = None THEN None ELSE Set(p, e), o, edits)
-----------------------------------------------------------------------------
(***************************************************************************)
(* The edits of the handlers: for each datagram sent, whom it is sent to   *)
(* and the edits made since the one before.                                *)
(***************************************************************************)
Send(to, edits) == [to |-> to, edits |-> edits]

Header(type) == Line("first", type)

AckEdits == <<Header("ACK"), Line("CSeq", "ACK")>>

OnInviteEdits(m) ==
  IF Reachable(m.to)
  THEN <<Send(m.to, <<Line("Contact", m.from)>>)>>
  ELSE <<Send(m.from, <<Header("404"), Line("Contact", m.from)>>)>>

\* OnBusy has its setHeader commented out.
FailedEdits(s, m) ==
  LET again == IF m.type = "480" THEN <<Header("480")>> ELSE <<>>
  IN  IF s.referedDest = None THEN <<Send(m.from, <<>>)>>
      ELSE <<Send(s.dest, again), Send(s.referedDest, AckEdits)>>

CancelEdits == <<Header("CANCEL"), Line("CSeq", "CANCEL")>>

ByeEdits(s, m) ==
  IF s.referedDest = None THEN <<Send(m.to, <<>>)>>
  ELSE IF m.from = s.src
  THEN << Send(m.to, <<>>),
          Send(s.referedDest,
               <<Header("BYE"), Line("To", s.referedDest)>>
               \o IF s.referedToMedia # None THEN <<>>
                  ELSE CancelEdits \o <<Line("Via", s.src)>>) >>
  ELSE IF m.from = s.referedDest
  THEN << Send(s.src, << Line("From", s.dest),
                         Line("Via", IF m.peer = s.referedDest THEN s.dest ELSE m.peer),
                         Line("Contact", s.dest), Line("CSeq", "BYE") >>) >>
  ELSE <<>>

OkByeEdits(s, m) ==
  IF s.referedDest = None THEN <<Send(m.from, <<>>)>>
  ELSE IF m.contact = s.src /\ s.referedToMedia = None THEN <<Send(s.src, <<>>)>>
  ELSE IF m.contact = s.src
  THEN << Send(s.referedDest,
               << Line("From", s.referedDest),
                  Line("Via", IF m.peer = s.dest THEN s.referedDest ELSE m.peer) >>) >>
  ELSE <<Send(s.src, <<Line("From", s.dest)>>)>>

OnOkEdits(s, m) ==
  IF s.state = "Cancel" THEN <<Send(m.from, <<>>)>>
  ELSE IF m.cseq = "INVITE" THEN <<Send(m.from, <<Line("Contact", m.to)>>)>>
  ELSE OkByeEdits(s, m)

Edits(m) ==
  LET s == sessions[m.callID]
  IN  CASE m.type = "REGISTER" ->
             << Send(m.from, << Header("200"), Line("Via", m.peer),
                                Line("To", m.to), Line("Contact", m.from) >>) >>
        [] m.type = "INVITE" -> OnInviteEdits(m)
        [] m.type \in {"100", "180"} -> <<Send(m.from, <<>>)>>
        [] m.type \in {"CANCEL", "ACK"} -> <<Send(m.to, <<>>)>>
        [] m.type = "487" -> IF HasSession(m.callID) THEN <<Send(m.from, <<>>)>>
                             ELSE <<Send(m.to, AckEdits)>>
        [] m.type \in {"480", "486"} -> FailedEdits(s, m)
        [] m.type = "REFER" -> <<Send(s.dest, <<Header("480")>>)>>
        [] m.type = "BYE" -> ByeEdits(s, m)
        [] m.type = "200" -> OnOkEdits(s, m)

\* What the handler makes up itself, with other parties' names: the 202, the
\* INVITEs, the ACKs and the BYE of a referral.
MakesUp(m) ==
  /\ HasSession(m.callID)
  /\ LET s == sessions[m.callID]
     IN  \/ m.type = "REFER" /\ m.referTo \in clients
         \/ /\ m.type = "200"
            /\ m.cseq = "INVITE"
            /\ s.state # "Cancel"
            /\ Transfered(s, m) \/ UpdateMedia(s, m)

\* endHandle turns what nobody is registered for into a 404.
Registry(m) == IF m.type = "REGISTER" THEN clients \cup clients' ELSE clients

Bounce(m, to) == IF to \in Registry(m) THEN <<>> ELSE <<Header("404")>>

\* The object after the first i sends.
After(m, i) ==
  LET sends == Edits(m)
  IN  FoldLeft(LAMBDA o, j : IF o = None THEN None
                             ELSE Edited(o, sends[j].edits \o Bounce(m, sends[j].to)),
               Received(Text(m)), [j \in 1..i |-> j])

TextSent(m, i) ==
  IF MakesUp(m) THEN Text(sent'[i])
  ELSE LET o == After(m, i) IN IF o = None THEN <<>> ELSE o.text

TextInit == Init /\ text = <<>>

TextHandle(m) ==
  /\ Handle(m)
  /\ text' = [i \in DOMAIN sent' |-> TextSent(m, i)]

Discard ==
  /\ fault = "none"
  /\ sent' = <<>>
  /\ text' = <<>>
  /\ UNCHANGED <<clients, sessions, fault>>

TextNext == \E m \in Wire : IF Valid(m) THEN TextHandle(m) ELSE Discard

TextSpec == TextInit /\ [][TextNext]_textVars
-----------------------------------------------------------------------------
\* What a receiver reads in a text: a first line it does not know if anything
\* was put in front of it, and of each name the last line.
Reads(lines, peer) ==
  LET value(n) == LET l == Field(lines, n) IN IF l = None THEN None ELSE l[2]
  IN  [type |-> IF lines[1][1] = "first" THEN value("first") ELSE "garbled",
       cseq |-> value("CSeq"), callID |-> value("Call-ID"), from |-> value("From"),
       to |-> value("To"), contact |-> value("Contact"), referTo |-> value("Refer-To"),
       sdp |-> value("body"), peer |-> peer]

\* Every text the server sends says what its handler meant: however many edits
\* were made in place, each found its line, none hit another, and the receiver
\* reads the record that SipServer sends.  A garbled message is garbled, and
\* nothing can be said of the rest of it.
TextAgrees ==
  \A i \in DOMAIN sent :
    /\ text[i] # <<>>
    /\ LET read == Reads(text[i], sent[i].peer)
       IN  IF sent[i].type = "garbled" THEN read.type = "garbled" ELSE read = sent[i]
=============================================================================
