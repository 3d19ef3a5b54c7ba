-------------------------- MODULE CallGuidedProofs --------------------------
(***************************************************************************)
(* What holds of whole calls, for every set of callers and agents, while   *)
(* datagrams are neither lost nor repeated nor overtaken and nobody        *)
(* presses a key over a referral.                                          *)
(*                                                                         *)
(* One thing at a time leads a call on: its INVITE, the answer, the ACK,   *)
(* the REFER its reader is about to send or the REFER itself.  So at most  *)
(* one datagram on all links does (Lone), no agent takes part before the   *)
(* IVR is about to hear of its referral (Asked), and reader, state and     *)
(* caller's phone go together (InTime).                                    *)
(*                                                                         *)
(* From the referral on, server, caller's phone and agent's phone agree on *)
(* who is in the call (Met): one agent is offered it, and takes it before  *)
(* the caller hears of it.  So CallFlow implements Call.  And the agent    *)
(* accepts the call or refuses it (Decided), so that server and IVR can    *)
(* tell a referral that failed from one that did not.                      *)
(***************************************************************************)
EXTENDS CallPromiseProofs
-----------------------------------------------------------------------------
(***************************************************************************)
(* One datagram at a time moves a call on.                                 *)
(***************************************************************************)
\* A link has no datagram that leads call c, ...
Quiet(c, q) == \A m \in In(q) : ~Leads(c, m)

\* ... or at most one.
Single(c, q) == \A i, j \in 1 .. Len(q) : Leads(c, q[i]) /\ Leads(c, q[j]) => i = j

\* Both links of every number.
Ends == Numbers \X {"up", "down"}

Link(k) == IF k[2] = "up" THEN uplink[k[1]] ELSE downlink[k[1]]

Free(c) == \A k \in Ends : Quiet(c, Link(k))

Lone(c) ==
  /\ \A k \in Ends : Single(c, Link(k))
  /\ \A k, l \in Ends : k # l => Quiet(c, Link(k)) \/ Quiet(c, Link(l))

\* A quiet link has at most one lead, and one that lost its only lead has none.
LEMMA QuietSingle ==
  ASSUME NEW c, NEW S, NEW q \in Seq(S)
  PROVE  /\ Quiet(c, q) => Single(c, q)
         /\ q # <<>> => (Quiet(c, q) => Quiet(c, Tail(q))) /\ (Single(c, q) => Single(c, Tail(q)))
         /\ q # <<>> /\ Single(c, q) /\ Leads(c, Head(q)) => Quiet(c, Tail(q))
<1>1. Quiet(c, q) => Single(c, q)
  BY DEF Quiet, Single, In
<1>2. q # <<>> /\ Quiet(c, q) => Quiet(c, Tail(q))
  BY InTail DEF Quiet
<1>t. q # <<>> => Len(q) \in Nat /\ Len(q) >= 1 /\ Len(Tail(q)) = Len(q) - 1
                  /\ Head(q) = q[1] /\ \A i \in 1 .. Len(Tail(q)) : Tail(q)[i] = q[i + 1]
  OBVIOUS
<1>3. q # <<>> /\ Single(c, q) => Single(c, Tail(q))
  <2> SUFFICES ASSUME q # <<>>, Single(c, q), NEW i \in 1 .. Len(Tail(q)), NEW j \in 1 .. Len(Tail(q)),
                      Leads(c, Tail(q)[i]), Leads(c, Tail(q)[j])
               PROVE  i = j
    BY DEF Single
  <2>1. Leads(c, q[i + 1]) /\ Leads(c, q[j + 1]) /\ i + 1 \in 1 .. Len(q) /\ j + 1 \in 1 .. Len(q)
    BY <1>t
  <2>2. i + 1 = j + 1
    BY <2>1 DEF Single
  <2> QED BY <2>2
<1>4. q # <<>> /\ Single(c, q) /\ Leads(c, Head(q)) => Quiet(c, Tail(q))
  <2> SUFFICES ASSUME q # <<>>, Single(c, q), Leads(c, Head(q)), NEW i \in 1 .. Len(Tail(q)),
                      Leads(c, Tail(q)[i])
               PROVE  FALSE
    BY DEF Quiet, In
  <2>1. Leads(c, q[i + 1]) /\ Leads(c, q[1]) /\ i + 1 \in 1 .. Len(q) /\ 1 \in 1 .. Len(q)
    BY <1>t
  <2>2. i + 1 = 1
    BY <2>1 DEF Single
  <2> QED BY <2>2
<1> QED BY <1>1, <1>2, <1>3, <1>4

\* What is put behind a link.
LEMMA QuietConcat ==
  ASSUME NEW c, NEW S, NEW q \in Seq(S), NEW r \in Seq(S)
  PROVE  /\ Quiet(c, q) /\ Quiet(c, r) => Quiet(c, q \o r)
         /\ Single(c, q) /\ Quiet(c, r) => Single(c, q \o r)
         /\ Quiet(c, q) /\ Single(c, r) => Single(c, q \o r)
<1>c. /\ Len(q) \in Nat /\ Len(r) \in Nat /\ Len(q \o r) = Len(q) + Len(r)
      /\ \A i \in 1 .. Len(q) : (q \o r)[i] = q[i]
      /\ \A i \in 1 .. Len(q \o r) : i > Len(q) => i - Len(q) \in 1 .. Len(r) /\ (q \o r)[i] = r[i - Len(q)]
  OBVIOUS
<1>1. Quiet(c, q) /\ Quiet(c, r) => Quiet(c, q \o r)
  BY InConcat DEF Quiet
<1>2. ASSUME Single(c, q), Quiet(c, r)
      PROVE  Single(c, q \o r)
  <2>1. \A i \in 1 .. Len(q \o r) : Leads(c, (q \o r)[i]) => i \in 1 .. Len(q) /\ Leads(c, q[i])
    BY <1>2, <1>c DEF Quiet, In
  <2> QED BY <1>2, <2>1 DEF Single
<1>3. ASSUME Quiet(c, q), Single(c, r)
      PROVE  Single(c, q \o r)
  <2>1. \A i \in 1 .. Len(q \o r) :
          Leads(c, (q \o r)[i]) => i - Len(q) \in 1 .. Len(r) /\ Leads(c, r[i - Len(q)])
    BY <1>3, <1>c DEF Quiet, In
  <2> SUFFICES ASSUME NEW i \in 1 .. Len(q \o r), NEW j \in 1 .. Len(q \o r),
                      Leads(c, (q \o r)[i]), Leads(c, (q \o r)[j])
               PROVE  i = j
    BY DEF Single
  <2>2. i - Len(q) = j - Len(q)
    BY <1>3, <2>1 DEF Single
  <2> QED BY <1>c, <2>2
<1> QED BY <1>1, <1>2, <1>3

\* No lead is put on any link: there is at most one still.
LEMMA LoneStays ==
  ASSUME NEW c, Lone(c),
         \A k \in Ends : /\ Quiet(c, Link(k)) => Quiet(c, Link(k)')
                         /\ Single(c, Link(k)) => Single(c, Link(k)')
  PROVE  Lone(c)' /\ (Free(c) => Free(c)')
<1>1. \A k \in Ends : Single(c, Link(k)')
  BY DEF Lone
<1>2. \A k, l \in Ends : k # l => Quiet(c, Link(k)') \/ Quiet(c, Link(l)')
  BY DEF Lone
<1>3. Free(c) => \A k \in Ends : Quiet(c, Link(k)')
  BY DEF Free
<1> QED BY <1>1, <1>2, <1>3 DEF Lone, Free, Quiet, Single, Leads, Opens

\* What becomes of link q when it may lose its head and gain members of S.
Grows(q, r, S) == \E s \in Seq(S) : r = q \o s \/ (q # <<>> /\ r = Tail(q) \o s)

\* A link that gains no lead stays quiet, or with one lead at most.
LEMMA GrowsKeeps ==
  ASSUME NEW c, NEW S \in SUBSET Datagram, NEW q \in Seq(Datagram), NEW r, Grows(q, r, S),
         \A x \in S : ~Leads(c, x)
  PROVE  (Quiet(c, q) => Quiet(c, r)) /\ (Single(c, q) => Single(c, r))
<1>1. PICK s \in Seq(S) : r = q \o s \/ (q # <<>> /\ r = Tail(q) \o s)
  BY DEF Grows
<1>2. Quiet(c, s) /\ s \in Seq(Datagram)
  <2>1. In(s) \subseteq S
    BY InType
  <2> QED BY <2>1 DEF Quiet
<1>3. CASE r = q \o s
  BY <1>2, <1>3, QuietConcat
<1>4. CASE q # <<>> /\ r = Tail(q) \o s
  <2>1. Tail(q) \in Seq(Datagram)
    BY <1>4, InTail
  <2> QED BY <1>2, <1>4, <2>1, QuietConcat, QuietSingle
<1> QED BY <1>1, <1>3, <1>4

\* Three parts that are put on a queue one by one, or together.
Cat(q, s) == q \o s

LEMMA CatRegroups ==
  ASSUME NEW S, NEW q \in Seq(S), NEW a \in Seq(S), NEW b \in Seq(S), NEW e \in Seq(S)
  PROVE  Cat(Cat(Cat(q, a), b), e) = Cat(q, Cat(Cat(a, b), e))
<1>1. ASSUME NEW x \in Seq(S), NEW y \in Seq(S), NEW z \in Seq(S)
      PROVE  Cat(Cat(x, y), z) = Cat(x, Cat(y, z)) /\ Cat(x, y) \in Seq(S)
  <2>1. (x \o y) \o z = x \o (y \o z)
    BY SMTT(30)
  <2>2. x \o y \in Seq(S)
    OBVIOUS
  <2> QED BY <2>1, <2>2, Zenon DEF Cat
<1>2. Cat(Cat(q, a), b) = Cat(q, Cat(a, b)) /\ Cat(a, b) \in Seq(S)
  BY <1>1
<1> QED BY <1>1, <1>2

\* What is delivered on a link.
LEMMA DeliveredTo ==
  ASSUME NEW link \in [Numbers -> Seq(Datagram)], NEW S \in SUBSET Datagram, sent' \in Seq(S),
         NEW n \in Numbers
  PROVE  \E s \in Seq({x \in S : x.peer = n}) : Delivered(link)[n] = link[n] \o s
<1> DEFINE T == {x \in S : x.peer = n}
<1>t. T \in SUBSET Datagram
  OBVIOUS
<1>i. ASSUME NEW i \in 1 .. 3
      PROVE  Nth(i, n) \in Seq(T)
  <2>1. CASE i <= Len(sent') /\ sent'[i].peer = n
    <3>1. sent'[i] \in T
      BY <2>1
    <3>2. Nth(i, n) = <<sent'[i]>>
      BY <2>1 DEF Nth
    <3> HIDE DEF T
    <3> QED BY <3>1, <3>2
  <2>2. CASE ~(i <= Len(sent') /\ sent'[i].peer = n)
    <3>1. Nth(i, n) = <<>>
      BY <2>2 DEF Nth
    <3> QED BY <3>1
  <2> QED BY <2>1, <2>2
<1> HIDE DEF T
<1>1. Nth(1, n) \in Seq(T) /\ Nth(2, n) \in Seq(T) /\ Nth(3, n) \in Seq(T)
  BY <1>i
<1>2. PICK a \in {Nth(1, n)}, b \in {Nth(2, n)}, e \in {Nth(3, n)} : TRUE
  OBVIOUS
<1> DEFINE s == a \o b \o e
<1>7. s \in Seq(T)
  BY <1>1, <1>2
<1>3. link[n] \in Seq(Datagram) /\ a \in Seq(Datagram) /\ b \in Seq(Datagram) /\ e \in Seq(Datagram)
  BY <1>1, <1>2, <1>t
<1>4. Delivered(link)[n] = Cat(Cat(Cat(link[n], a), b), e)
  BY <1>2 DEF Delivered, Cat
<1>5. Delivered(link)[n] = Cat(link[n], Cat(Cat(a, b), e))
  BY <1>3, <1>4, CatRegroups
<1>6. Delivered(link)[n] = link[n] \o s
  BY <1>5, Zenon DEF Cat
<1> QED BY <1>6, <1>7 DEF T

\* It is of the datagrams that are sent.
LEMMA DeliveredGrows ==
  ASSUME NEW link \in [Numbers -> Seq(Datagram)], NEW S \in SUBSET Datagram, sent' \in Seq(S),
         NEW n \in Numbers
  PROVE  \E s \in Seq(S) : Delivered(link)[n] = link[n] \o s
<1>1. PICK s \in Seq({x \in S : x.peer = n}) : Delivered(link)[n] = link[n] \o s
  BY DeliveredTo
<1>2. In(s) \subseteq S
  BY InType
<1>3. s \in Seq(S)
  BY <1>2, SeqOfIn
<1> QED BY <1>1, <1>3

\* Nothing that was on it is lost, and what is for its number is put on it.
LEMMA DeliveredAll ==
  ASSUME NEW link \in [Numbers -> Seq(Datagram)], sent' \in Seq(Datagram), Len(sent') <= 3,
         NEW n \in Numbers
  PROVE  In(link[n]) \cup {x \in In(sent') : x.peer = n} \subseteq In(Delivered(link)[n])
<1>0. PICK a \in {Nth(1, n)}, b \in {Nth(2, n)}, e \in {Nth(3, n)} : TRUE
  OBVIOUS
<1>n. Nth(1, n) \in Seq(Datagram) /\ Nth(2, n) \in Seq(Datagram) /\ Nth(3, n) \in Seq(Datagram)
  BY DEF Nth
<1>1. link[n] \in Seq(Datagram) /\ a \in Seq(Datagram) /\ b \in Seq(Datagram) /\ e \in Seq(Datagram)
  BY <1>0, <1>n
<1>2. Delivered(link)[n] = link[n] \o a \o b \o e
  BY <1>0 DEF Delivered
<1>3. In(Delivered(link)[n]) = In(link[n]) \cup In(a) \cup In(b) \cup In(e)
  <2>q. PICK q \in {link[n]} : TRUE
    OBVIOUS
  <2>f. PICK f \in {q \o a} : TRUE
    OBVIOUS
  <2>g. PICK g \in {f \o b} : TRUE
    OBVIOUS
  <2>1. q = link[n] /\ q \in Seq(Datagram) /\ f = q \o a /\ g = f \o b
    BY <1>1, <2>q, <2>f, <2>g
  <2>5. f \in Seq(Datagram) /\ In(f) = In(link[n]) \cup In(a)
    BY <1>1, <2>1, InConcat
  <2>6. f \o b \in Seq(Datagram) /\ In(f \o b) = In(f) \cup In(b)
    BY <1>1, <2>5, InConcat
  <2>2. g \in Seq(Datagram) /\ In(g) = In(f) \cup In(b)
    BY <2>1, <2>6
  <2>3. Delivered(link)[n] = g \o e
    BY <1>2, <2>1
  <2>4. In(g \o e) = In(g) \cup In(e)
    BY <1>1, <2>2, InConcat
  <2> QED BY <2>5, <2>2, <2>3, <2>4
<1>4. ASSUME NEW x \in In(sent'), x.peer = n
      PROVE  x \in In(a) \cup In(b) \cup In(e)
  <2>1. PICK i \in 1 .. Len(sent') : x = sent'[i]
    BY <1>4 DEF In
  <2>2. i \in 1 .. 3 /\ Nth(i, n) = <<x>>
    BY <1>4, <2>1 DEF Nth
  <2>3. x \in In(Nth(i, n))
    BY <2>2, InOne
  <2>4. i = 1 \/ i = 2 \/ i = 3
    BY <2>2
  <2>5. In(Nth(1, n)) = In(a) /\ In(Nth(2, n)) = In(b) /\ In(Nth(3, n)) = In(e)
    BY <1>0
  <2> QED BY <2>3, <2>4, <2>5
<1> QED BY <1>3, <1>4

\* A single datagram is put on the link of its number.
LEMMA DeliveredOne ==
  ASSUME NEW link \in [Numbers -> Seq(Datagram)], NEW x \in Datagram, sent' = <<x>>,
         NEW n \in Numbers
  PROVE  Delivered(link)[n] = IF x.peer = n THEN link[n] \o <<x>> ELSE link[n]
<1> DEFINE a == IF x.peer = n THEN <<x>> ELSE <<>>
<1>1. Nth(1, n) = a /\ Nth(2, n) = <<>> /\ Nth(3, n) = <<>>
  BY DEF Nth
<1>3. link[n] \in Seq(Datagram) /\ a \in Seq(Datagram)
  OBVIOUS
<1> HIDE DEF a
<1>2. Delivered(link)[n] = link[n] \o a \o <<>> \o <<>>
  BY <1>1 DEF Delivered
<1>4. link[n] \o a \o <<>> \o <<>> = link[n] \o a /\ link[n] \o <<>> = link[n]
  BY <1>3
<1> QED BY <1>2, <1>4 DEF a

\* The links, two by two.
Links == uplink \in [Numbers -> Seq(Datagram)] /\ downlink \in [Numbers -> Seq(Datagram)]

\* The ends, by number and direction.
LEMMA LinkIs ==
  /\ \A n \in Numbers : /\ <<n, "up">> \in Ends /\ Link(<<n, "up">>) = uplink[n]
                        /\ Link(<<n, "up">>)' = uplink'[n]
                        /\ <<n, "down">> \in Ends /\ Link(<<n, "down">>) = downlink[n]
                        /\ Link(<<n, "down">>)' = downlink'[n]
  /\ \A k \in Ends : \E n \in Numbers : k = <<n, "up">> \/ k = <<n, "down">>
BY DEF Ends, Link

\* A step puts nothing that leads call c on any link.
LEMMA NoLead ==
  ASSUME Links, NEW c, NEW S \in SUBSET Datagram, \A x \in S : ~Leads(c, x), Lone(c),
         \A n \in Numbers : Grows(uplink[n], uplink'[n], S) /\ Grows(downlink[n], downlink'[n], S)
  PROVE  Lone(c)' /\ (Free(c) => Free(c)')
<1>1. ASSUME NEW n \in Numbers
      PROVE  /\ (Quiet(c, uplink[n]) => Quiet(c, uplink'[n])) /\ (Single(c, uplink[n]) => Single(c, uplink'[n]))
             /\ Quiet(c, downlink[n]) => Quiet(c, downlink'[n])
             /\ Single(c, downlink[n]) => Single(c, downlink'[n])
  <2>1. uplink[n] \in Seq(Datagram) /\ downlink[n] \in Seq(Datagram)
    BY DEF Links
  <2>2. PICK q \in {uplink'[n]}, r \in {downlink'[n]} : TRUE
    OBVIOUS
  <2>3. Grows(uplink[n], q, S) /\ Grows(downlink[n], r, S)
    BY <2>2
  <2>4. /\ (Quiet(c, uplink[n]) => Quiet(c, q)) /\ (Single(c, uplink[n]) => Single(c, q))
        /\ (Quiet(c, downlink[n]) => Quiet(c, r)) /\ (Single(c, downlink[n]) => Single(c, r))
    BY <2>1, <2>3, GrowsKeeps
  <2> QED BY <2>2, <2>4
<1>2. \A k \in Ends : /\ Quiet(c, Link(k)) => Quiet(c, Link(k)')
                      /\ Single(c, Link(k)) => Single(c, Link(k)')
  BY <1>1 DEF Ends, Link
<1> QED BY <1>2, LoneStays

\* The datagram that leads call c on is taken in: no other is under way.
LEMMA LeadTaken ==
  ASSUME Links, NEW c, Lone(c), NEW n \in Numbers
  PROVE  /\ uplink[n] # <<>> /\ Leads(c, Head(uplink[n])) =>
              /\ Quiet(c, Tail(uplink[n]))
              /\ \A k \in Numbers \ {n} : Quiet(c, uplink[k])
              /\ \A k \in Numbers : Quiet(c, downlink[k])
         /\ downlink[n] # <<>> /\ Leads(c, Head(downlink[n])) =>
              /\ Quiet(c, Tail(downlink[n]))
              /\ \A k \in Numbers \ {n} : Quiet(c, downlink[k])
              /\ \A k \in Numbers : Quiet(c, uplink[k])
<1>1. uplink[n] \in Seq(Datagram) /\ downlink[n] \in Seq(Datagram)
  BY DEF Links
<1>2. Single(c, uplink[n]) /\ Single(c, downlink[n])
  BY LinkIs DEF Lone
<1>3. /\ \A k \in Numbers \ {n} : Quiet(c, uplink[n]) \/ Quiet(c, uplink[k])
      /\ \A k \in Numbers \ {n} : Quiet(c, downlink[n]) \/ Quiet(c, downlink[k])
      /\ \A k \in Numbers : Quiet(c, uplink[n]) \/ Quiet(c, downlink[k])
      /\ \A k \in Numbers : Quiet(c, uplink[k]) \/ Quiet(c, downlink[n])
  <2>1. /\ \A k \in Numbers \ {n} : <<n, "up">> # <<k, "up">> /\ <<n, "down">> # <<k, "down">>
        /\ \A k \in Numbers : <<n, "up">> # <<k, "down">> /\ <<n, "down">> # <<k, "up">>
    OBVIOUS
  <2>2. \A k, l \in Ends : k # l => Quiet(c, Link(k)) \/ Quiet(c, Link(l))
    BY DEF Lone
  <2>3. /\ <<n, "up">> \in Ends /\ Link(<<n, "up">>) = uplink[n]
        /\ <<n, "down">> \in Ends /\ Link(<<n, "down">>) = downlink[n]
    BY LinkIs
  <2>4. ASSUME NEW k \in Numbers
        PROVE  /\ k # n => Quiet(c, uplink[n]) \/ Quiet(c, uplink[k])
               /\ k # n => Quiet(c, downlink[n]) \/ Quiet(c, downlink[k])
               /\ Quiet(c, uplink[n]) \/ Quiet(c, downlink[k])
               /\ Quiet(c, uplink[k]) \/ Quiet(c, downlink[n])
    <3>1. /\ <<k, "up">> \in Ends /\ Link(<<k, "up">>) = uplink[k]
          /\ <<k, "down">> \in Ends /\ Link(<<k, "down">>) = downlink[k]
      BY LinkIs
    <3>2. k # n => Quiet(c, uplink[n]) \/ Quiet(c, uplink[k])
      BY <2>1, <2>2, <2>3, <3>1
    <3>3. k # n => Quiet(c, downlink[n]) \/ Quiet(c, downlink[k])
      BY <2>1, <2>2, <2>3, <3>1
    <3>4. Quiet(c, uplink[n]) \/ Quiet(c, downlink[k])
      BY <2>1, <2>2, <2>3, <3>1
    <3>5. Quiet(c, uplink[k]) \/ Quiet(c, downlink[n])
      BY <2>1, <2>2, <2>3, <3>1
    <3> QED BY <3>2, <3>3, <3>4, <3>5
  <2> QED BY <2>4
<1>4. ASSUME NEW q \in Seq(Datagram), q # <<>>, Leads(c, Head(q)), Single(c, q)
      PROVE  ~Quiet(c, q) /\ Quiet(c, Tail(q))
  <2>1. Head(q) \in In(q)
    BY <1>4, InTail
  <2> QED BY <1>4, <2>1, QuietSingle DEF Quiet
<1> QED BY <1>1, <1>2, <1>3, <1>4

\* No link leads call c, ...
LEMMA FreeAgain ==
  ASSUME NEW c, Links', \A n \in Numbers : Quiet(c, uplink'[n]) /\ Quiet(c, downlink'[n])
  PROVE  Free(c)' /\ Lone(c)'
<1>1. \A k \in Ends : Quiet(c, Link(k)') /\ Link(k)' \in Seq(Datagram)
  BY DEF Ends, Link, Links
<1>2. \A k \in Ends : Single(c, Link(k)')
  <2> SUFFICES ASSUME NEW k \in Ends
               PROVE  Single(c, Link(k)')
    OBVIOUS
  <2>1. PICK q \in {Link(k)'} : TRUE
    OBVIOUS
  <2>2. Quiet(c, q) /\ q \in Seq(Datagram)
    BY <1>1, <2>1
  <2> QED BY <2>1, <2>2, QuietSingle
<1> QED BY <1>1, <1>2 DEF Lone, Free, Quiet, Single, Leads, Opens

\* ... or only one does.
LEMMA OnlyUp ==
  ASSUME NEW c, Links', NEW p \in Numbers, \A n \in Numbers \ {p} : Quiet(c, uplink'[n]),
         Single(c, uplink'[p]), \A n \in Numbers : Quiet(c, downlink'[n])
  PROVE  Lone(c)'
<1> DEFINE e == <<p, "up">>
<1>1. e \in Ends /\ Link(e)' = uplink'[p]
  BY LinkIs
<1>2. \A k \in Ends \ {e} : Quiet(c, Link(k)') /\ Link(k)' \in Seq(Datagram)
  BY DEF Ends, Link, Links
<1>3. \A k \in Ends : Single(c, Link(k)')
  <2> SUFFICES ASSUME NEW k \in Ends, k # e
               PROVE  Single(c, Link(k)')
    BY <1>1
  <2>1. PICK q \in {Link(k)'} : TRUE
    OBVIOUS
  <2>2. Quiet(c, q) /\ q \in Seq(Datagram)
    BY <1>2, <2>1
  <2> QED BY <2>1, <2>2, QuietSingle
<1>4. \A k, l \in Ends : k # l => Quiet(c, Link(k)') \/ Quiet(c, Link(l)')
  BY <1>2
<1> QED BY <1>3, <1>4 DEF Lone, Quiet, Single, Leads, Opens

\* The same of a datagram that falls.
LEMMA OnlyDown ==
  ASSUME NEW c, Links', NEW p \in Numbers, \A n \in Numbers \ {p} : Quiet(c, downlink'[n]),
         Single(c, downlink'[p]), \A n \in Numbers : Quiet(c, uplink'[n])
  PROVE  Lone(c)'
<1> DEFINE e == <<p, "down">>
<1>1. e \in Ends /\ Link(e)' = downlink'[p]
  BY LinkIs
<1>2. \A k \in Ends \ {e} : Quiet(c, Link(k)') /\ Link(k)' \in Seq(Datagram)
  BY DEF Ends, Link, Links
<1>3. \A k \in Ends : Single(c, Link(k)')
  <2> SUFFICES ASSUME NEW k \in Ends, k # e
               PROVE  Single(c, Link(k)')
    BY <1>1
  <2>1. PICK q \in {Link(k)'} : TRUE
    OBVIOUS
  <2>2. Quiet(c, q) /\ q \in Seq(Datagram)
    BY <1>2, <2>1
  <2> QED BY <2>1, <2>2, QuietSingle
<1>4. \A k, l \in Ends : k # l => Quiet(c, Link(k)') \/ Quiet(c, Link(l)')
  BY <1>2
<1> QED BY <1>3, <1>4 DEF Lone, Quiet, Single, Leads, Opens
-----------------------------------------------------------------------------
(***************************************************************************)
(* The state of a call when no datagram is lost, repeated or overtaken,    *)
(* and no key is pressed while a referral is on its way.                   *)
(***************************************************************************)
\* The IVR has not taken the call, has given it up or away, or is about to
\* hear what has become of the referral it asked for.
Asked(c) ==
  \/ calls[c] = None
  \/ calls[c].state # "Connected"
  \/ \E m \in Falls(c, Ivr) : m.cseq = "REFER"

\* The reader of the call waits for keys, or is not there.
Resting(c) == reader[c] \in {"none", "polling", "exited"}

\* It sets no announcement and makes no REFER, if the call is no more connected.
Silent(c) == Resting(c) \/ reader[c] \in {"event", "raced"}

\* Another caller has called.
Others(c) == \E d \in CallIds \ {c} : phone[d] # "idle"

\* What is so when a datagram leads the call on: the ACK comes when the caller
\* has the answer, whatever else comes to the IVR before that, and a REFER when
\* the reader rests.
Guides(c, m) ==
  /\ Opens(m) => (m.type = "ACK" <=> ~Waiting(c)) /\ phone[c] # "idle" /\ reader[c] = "none"
  /\ m.type = "REFER" => ~Waiting(c) /\ Resting(c)

\* The IVR hears what has become of its REFER.
Settles(c, m) == m.cseq = "REFER" => m.type \in {"202", "480"} /\ ~Waiting(c) /\ Resting(c)

\* The reader of the call, its state in the IVR and its caller go together.
InTime(c) ==
  /\ Waiting(c) => reader[c] = "none"
  /\ phone[c] = "idle" => calls[c] = None
  /\ reader[c] = "refer" => Free(c) /\ \A m \in Falls(c, Ivr) : m.cseq # "REFER"
  /\ calls[c] # None /\ calls[c].state # "Connected" => Silent(c)
  /\ reader[c] = "raced" => calls[c] = None \/ Others(c)

GuidedCall(c) ==
  /\ Lone(c)
  /\ Agentless(c) \/ Asked(c)
  /\ Waiting(c) \/ ~Free(c) \/ reader[c] = "refer" => Agentless(c)
  /\ \A n \in Numbers : \A m \in Rises(c, n) \cup Falls(c, n) : Guides(c, m)
  /\ \A m \in Falls(c, Ivr) : Settles(c, m)
  /\ InTime(c)

\* The receiver sleeps in OnReferAccepted.
Redirecting ==
  rx.at = "redirecting" => calls[rx.call] # None /\ calls[rx.call].state = "Referring"

Guided == (\A c \in CallIds : GuidedCall(c)) /\ Redirecting

\* A reader that goes on without a key.
ReaderGoes(c) ==
  /\ reader[c] = "none" => reader'[c] = "none"
  /\ Resting(c) => Resting(c)'
  /\ reader'[c] = "refer" => reader[c] = "refer"
  /\ Silent(c) => Silent(c)'
  /\ reader'[c] = "raced" => reader[c] = "raced" \/ calls'[c] = None \/ Others(c)'

\* A call that stays as it is, fails, is refered or ends.
CallGoes(c) ==
  \/ calls'[c] = calls[c]
  \/ calls[c] # None /\ (calls'[c] = None \/ (calls'[c].state # "Connected" /\ Silent(c)'))

\* What comes onto the links leads nothing, and settles nothing.
LinksGo(c) ==
  \A n \in Numbers :
    /\ \A m \in Rises(c, n)' : m \in Rises(c, n) \/ ~Leads(c, m)
    /\ \A m \in Falls(c, n)' : m \in Falls(c, n) \/ (~Leads(c, m) /\ (n = Ivr => m.cseq # "REFER"))

\* A step that does not lead the call on.
LEMMA GuidedStays ==
  ASSUME NEW c \in CallIds, GuidedCall(c), Lone(c)', Free(c) => Free(c)', LinksGo(c),
         Waiting(c)' <=> Waiting(c), phone'[c] = "idle" => phone[c] = "idle",
         Others(c) => Others(c)', ReaderGoes(c), CallGoes(c),
         Agentless(c) => Agentless(c)', Asked(c) => Asked(c)'
  PROVE  GuidedCall(c)'
<1>1. Agentless(c)' \/ Asked(c)'
  BY DEF GuidedCall
<1>2. Waiting(c)' \/ ~Free(c)' \/ reader'[c] = "refer" => Agentless(c)'
  BY DEF GuidedCall, ReaderGoes
<1>3. ASSUME NEW n \in Numbers, NEW m \in Rises(c, n)' \cup Falls(c, n)'
      PROVE  Guides(c, m)'
  <2>1. m \in Rises(c, n) \cup Falls(c, n) \/ ~Leads(c, m)
    BY DEF LinksGo
  <2>2. m.callID = c
    BY DEF Rises, Falls
  <2>3. CASE m \in Rises(c, n) \cup Falls(c, n)
    BY <2>3 DEF GuidedCall, Guides, ReaderGoes, Opens
  <2>4. CASE ~Leads(c, m)
    BY <2>2, <2>4 DEF Leads, Guides, Opens
  <2> QED BY <2>1, <2>3, <2>4
<1>4. ASSUME NEW m \in Falls(c, Ivr)'
      PROVE  Settles(c, m)'
  <2>1. m \in Falls(c, Ivr) \/ m.cseq # "REFER"
    BY DEF LinksGo, Numbers
  <2> QED BY <2>1 DEF GuidedCall, Settles, ReaderGoes
<1>5. InTime(c)'
  <2>1. Waiting(c)' => reader'[c] = "none"
    BY DEF GuidedCall, InTime, ReaderGoes
  <2>2. phone'[c] = "idle" => calls'[c] = None
    BY DEF GuidedCall, InTime, CallGoes
  <2>3. ASSUME reader'[c] = "refer"
        PROVE  Free(c)' /\ \A m \in Falls(c, Ivr)' : m.cseq # "REFER"
    <3>1. Free(c) /\ \A m \in Falls(c, Ivr) : m.cseq # "REFER"
      BY <2>3 DEF GuidedCall, InTime, ReaderGoes
    <3> QED BY <3>1 DEF LinksGo, Numbers
  <2>4. calls'[c] # None /\ calls'[c].state # "Connected" => Silent(c)'
    BY DEF GuidedCall, InTime, ReaderGoes, CallGoes
  <2>5. reader'[c] = "raced" => calls'[c] = None \/ Others(c)'
    BY DEF GuidedCall, InTime, ReaderGoes, CallGoes
  <2> QED BY <2>1, <2>2, <2>3, <2>4, <2>5 DEF InTime
<1>6. Lone(c)'
  OBVIOUS
<1>7. GuidedCall(c)' <=>
        /\ Lone(c)'
        /\ Agentless(c)' \/ Asked(c)'
        /\ Waiting(c)' \/ ~Free(c)' \/ reader'[c] = "refer" => Agentless(c)'
        /\ \A n \in Numbers : \A m \in Rises(c, n)' \cup Falls(c, n)' : Guides(c, m)'
        /\ \A m \in Falls(c, Ivr)' : Settles(c, m)'
        /\ InTime(c)'
  BY DEF GuidedCall
<1> QED BY <1>1, <1>2, <1>3, <1>4, <1>5, <1>6, <1>7
-----------------------------------------------------------------------------
(***************************************************************************)
(* The server guides a call.                                               *)
(***************************************************************************)
\* Where nobody but the caller and the IVR speaks, nobody is heard of.
LEMMA PlainKept ==
  ASSUME NEW c, OnlyPlain(c),
         \A n \in Numbers : /\ \A m \in Rises(c, n)' : m \in Rises(c, n) \/ Plain(c, m)
                            /\ \A m \in Falls(c, n)' : m \in Falls(c, n) \/ Plain(c, m)
  PROVE  OnlyPlain(c)'
<1>1. \A n \in Numbers : \A m \in Rises(c, n)' \cup Falls(c, n)' : Plain(c, m)
  BY DEF OnlyPlain
<1> QED BY <1>1 DEF OnlyPlain, Plain

\* The links in a step of the server.
LEMMA ServerLinks ==
  ASSUME Kept, NEW n \in Numbers, ServerStep(n), Kept', NEW S \in SUBSET Datagram, sent' \in Seq(S)
  PROVE  /\ Links /\ Links'
         /\ \A k \in Numbers : Grows(uplink[k], uplink'[k], S) /\ Grows(downlink[k], downlink'[k], S)
         /\ \A d, k \in Numbers : /\ Rises(d, k)' \subseteq Rises(d, k)
                                  /\ Falls(d, k) \subseteq Falls(d, k)'
                                  /\ \A x \in In(sent') : x.peer = k /\ x.callID = d => x \in Falls(d, k)'
                                  /\ \A x \in Falls(d, k)' : x \in Falls(d, k)
                                       \/ (x \in In(sent') /\ x.callID = d /\ x.peer = k)
<1>1. Links /\ Links' /\ sent' \in Seq(Datagram) /\ Len(sent') <= 3
  BY DEF Kept, Up, Down, Links, Programs, Outcome
<1>2. uplink[n] # <<>> /\ uplink' = [uplink EXCEPT ![n] = Tail(@)] /\ downlink' = Delivered(downlink)
  BY DEF ServerStep
<1>3. ASSUME NEW k \in Numbers
      PROVE  Grows(uplink[k], uplink'[k], S) /\ Grows(downlink[k], downlink'[k], S)
  <2>1. uplink[k] \in Seq(Datagram) /\ <<>> \in Seq(S)
    BY <1>1 DEF Links
  <2>2. k = n => uplink'[k] = Tail(uplink[k]) \o <<>> /\ uplink[k] # <<>>
    <3>1. uplink[n] \in Seq(Datagram) /\ Tail(uplink[n]) \in Seq(Datagram)
      BY <1>1, <1>2, InTail DEF Links
    <3> QED BY <1>1, <1>2, <3>1 DEF Links
  <2>3. k # n => uplink'[k] = uplink[k] \o <<>>
    BY <1>1, <1>2, <2>1 DEF Links
  <2>4. Grows(uplink[k], uplink'[k], S)
    BY <2>1, <2>2, <2>3 DEF Grows
  <2>6. downlink \in [Numbers -> Seq(Datagram)]
    BY <1>1 DEF Links
  <2>7. \E s \in Seq(S) : Delivered(downlink)[k] = downlink[k] \o s
    BY <2>6, DeliveredGrows
  <2>5. \E s \in Seq(S) : downlink'[k] = downlink[k] \o s
    BY <1>2, <2>7
  <2> QED BY <2>4, <2>5 DEF Grows
<1>4. ASSUME NEW k \in Numbers
      PROVE  /\ In(uplink'[k]) \subseteq In(uplink[k])
             /\ In(downlink[k]) \cup {x \in In(sent') : x.peer = k} = In(downlink'[k])
  <2>1. In(uplink'[k]) \subseteq In(uplink[k])
    BY <1>1, <1>2, TailLink DEF Links
  <2>2. downlink \in [Numbers -> Seq(Datagram)]
    BY <1>1 DEF Links
  <2>3. In(downlink[k]) \cup {x \in In(sent') : x.peer = k} \subseteq In(Delivered(downlink)[k])
    BY <1>1, <2>2, DeliveredAll
  <2>4. In(Delivered(downlink)[k]) \subseteq In(downlink[k]) \cup {x \in In(sent') : x.peer = k}
    BY <1>1, <2>2, InDelivered
  <2> QED BY <1>2, <2>1, <2>3, <2>4
<1>5. \A d, k \in Numbers : /\ Rises(d, k)' \subseteq Rises(d, k)
                            /\ Falls(d, k) \subseteq Falls(d, k)'
                            /\ \A x \in In(sent') : x.peer = k /\ x.callID = d => x \in Falls(d, k)'
                            /\ \A x \in Falls(d, k)' : x \in Falls(d, k)
                                 \/ (x \in In(sent') /\ x.callID = d /\ x.peer = k)
  BY <1>4 DEF Rises, Falls
<1> QED BY <1>1, <1>3, <1>5

\* A call in which no agent is stays so, unless it is refered.
LEMMA ServerAgentless ==
  ASSUME Kept, NEW n \in Numbers, ServerStep(n), Kept', NEW c \in CallIds, Agentless(c),
         NEW m, ServerDoes(n, m, c), m \in Rises(c, n), m.type # "REGISTER", ~Accepts(c, m)
  PROVE  Agentless(c)'
<1>0. m \in Of(c) /\ Server!Handle(m) /\ m.callID = c /\ ServerKeeps /\ c \in Numbers
      /\ sent' \in Seq(Of(c)) /\ UNCHANGED dialog /\ Of(c) \in SUBSET Datagram
  BY PartyType DEF ServerDoes, Serves, Speaks, Rises, Kept, Programs, phoneVars, Of
<1>1. Plain(c, m) /\ PlainSession(c) /\ OnlyPlain(c)
  BY DEF Agentless, OnlyPlain
<1>2. \A x \in In(sent') : Echoes(m, x)
  BY <1>0, <1>1, HandleEchoes
<1>3. \A x \in In(sent') : Plain(c, x)
  <2>1. "ACK" # "INVITE"
    OBVIOUS
  <2> QED BY <1>1, <1>2, <2>1 DEF Echoes, Plain
<1>4. PlainSession(c)'
  <2> SUFFICES ASSUME sessions'[c] # None
               PROVE  sessions'[c].referedDest = None /\ sessions'[c].dest \in {None, Ivr}
    BY DEF PlainSession
  <2>1. Turned(sessions[c], sessions'[c], m)
    BY <1>0, HandleTurns
  <2>2. sessions'[c].referedDest = None
    BY <1>1, <2>1 DEF Turned, PlainSession
  <2>3. OkInvite(m) => m.to = Ivr
    BY <1>1 DEF OkInvite, Plain
  <2>4. sessions'[c].dest \in {None, Ivr}
    BY <1>1, <2>1, <2>3 DEF Turned, PlainSession
  <2> QED BY <2>2, <2>4
<1>5. OnlyPlain(c)'
  BY <1>0, <1>1, <1>3, ServerLinks, PlainKept
<1> QED BY <1>0, <1>4, <1>5 DEF Agentless

\* The calls that the datagram is not of.
LEMMA ServerOthers ==
  ASSUME Kept, NEW n \in Numbers, ServerStep(n), Kept', NEW c \in CallIds, NEW m, ServerDoes(n, m, c),
         NEW d \in CallIds \ {c}, GuidedCall(d)
  PROVE  GuidedCall(d)'
<1>0. sent' \in Seq(Of(c)) /\ Of(c) \in SUBSET Datagram /\ sessions'[d] = sessions[d]
      /\ UNCHANGED <<ivrVars, phoneVars>> /\ d \in Numbers
  BY PartyType DEF ServerDoes, Serves, Speaks, Of
<1>1. \A x \in Of(c) : ~Leads(d, x)
  BY DEF Of, Leads
<1>2. In(sent') \subseteq Of(c)
  BY <1>0, InType
<1>3. Lone(d)' /\ (Free(d) => Free(d)')
  BY <1>0, <1>1, ServerLinks, NoLead DEF GuidedCall
<1>4. \A k \in Numbers : Rises(d, k)' \subseteq Rises(d, k) /\ Falls(d, k)' = Falls(d, k)
  <2>1. \A x \in In(sent') : x.callID # d
    BY <1>2 DEF Of
  <2>2. /\ \A k \in Numbers : Rises(d, k)' \subseteq Rises(d, k)
        /\ \A k \in Numbers : Falls(d, k) \subseteq Falls(d, k)'
        /\ \A k \in Numbers : \A x \in Falls(d, k)' : x \in Falls(d, k) \/ (x \in In(sent') /\ x.callID = d)
    BY <1>0, ServerLinks
  <2>3. \A k \in Numbers : Falls(d, k)' \subseteq Falls(d, k)
    BY <2>1, <2>2
  <2> QED BY <2>2, <2>3
<1>5. LinksGo(d)
  BY <1>4 DEF LinksGo
<1>6. Agentless(d) => Agentless(d)'
  <2>1. OnlyPlain(d) => OnlyPlain(d)'
    BY <1>4, PlainKept
  <2> QED BY <1>0, <2>1 DEF Agentless, PlainSession, phoneVars
<1>7. Asked(d) => Asked(d)'
  BY <1>0, <1>4 DEF Asked, ivrVars, Numbers
<1>8. /\ Waiting(d)' <=> Waiting(d)
      /\ phone'[d] = "idle" => phone[d] = "idle"
      /\ Others(d) => Others(d)'
      /\ ReaderGoes(d) /\ CallGoes(d)
  BY <1>0 DEF Waiting, Others, ReaderGoes, CallGoes, Resting, Silent, ivrVars, phoneVars
<1> QED BY <1>3, <1>5, <1>6, <1>7, <1>8, GuidedStays

\* The server's step on datagram m of call c from n, and what is known of it.
Served(n, m, c) ==
  /\ ServerDoes(n, m, c) /\ m \in Rises(c, n) /\ m.type # "REGISTER"
  /\ DuesOf(c, m)

\* What stays in any step of the server.
LEMMA ServedStays ==
  ASSUME Kept, NEW n \in Numbers, NEW m, NEW c \in CallIds, Served(n, m, c)
  PROVE  /\ Server!Handle(m) /\ m.callID = c /\ m \in Of(c) /\ uplink[n] # <<>> /\ m = Head(uplink[n])
         /\ sent' \in Seq(Of(c)) /\ Of(c) \in SUBSET Datagram /\ In(sent') \subseteq Of(c)
         /\ UNCHANGED <<calls, reader, phone, dialog>>
         /\ (Waiting(c)' <=> Waiting(c)) /\ (Others(c)' <=> Others(c))
         /\ (Resting(c)' <=> Resting(c)) /\ ReaderGoes(c) /\ CallGoes(c)
         /\ \A x \in In(sent') : Leads(c, x) => Opens(x) /\ Opens(m) /\ (x.type = "ACK" <=> m.type = "ACK")
         /\ \A x \in In(sent') : x.cseq = "REFER" => m.type = "REFER"
<1>1. /\ Server!Handle(m) /\ m.callID = c /\ m \in Of(c) /\ uplink[n] # <<>> /\ m = Head(uplink[n])
      /\ sent' \in Seq(Of(c)) /\ Of(c) \in SUBSET Datagram
      /\ UNCHANGED <<calls, reader, phone, dialog>>
  BY DEF Served, ServerDoes, Serves, Speaks, Of, Rises, ivrVars, phoneVars
<1>2. In(sent') \subseteq Of(c)
  BY <1>1, InType
<1>3. /\ (Waiting(c)' <=> Waiting(c)) /\ (Others(c)' <=> Others(c))
      /\ (Resting(c)' <=> Resting(c)) /\ ReaderGoes(c) /\ CallGoes(c)
  BY <1>1 DEF Waiting, Others, Resting, Silent, ReaderGoes, CallGoes
<1>4. \A x \in In(sent') : Due(c, m, x.peer, x)
  BY DEF Served, DuesOf
<1> QED BY <1>1, <1>2, <1>3, <1>4 DEF Due, Hears, Leads

\* A datagram that does not lead the call on.
LEMMA ServerIdles ==
  ASSUME Kept, NEW n \in Numbers, ServerStep(n), Kept', NEW m, NEW c \in CallIds, Served(n, m, c),
         ~Leads(c, m), GuidedCall(c)
  PROVE  GuidedCall(c)'
<1>0. ~Opens(m) /\ m.type # "REFER" /\ c \in Numbers /\ ~Accepts(c, m)
  BY ServedStays, PartyType DEF Leads, Accepts
<1> DEFINE S == {x \in Of(c) : ~Leads(c, x)}
<1>1. In(sent') \subseteq S
  BY <1>0, ServedStays
<1>2. S \in SUBSET Datagram /\ sent' \in Seq(S)
  BY <1>1, ServedStays, SeqOfIn
<1>3. \A x \in S : ~Leads(c, x)
  OBVIOUS
<1> HIDE DEF S
<1>4. Lone(c)' /\ (Free(c) => Free(c)')
  BY <1>2, <1>3, ServerLinks, NoLead DEF GuidedCall
<1>5. \A k \in Numbers : /\ Rises(c, k)' \subseteq Rises(c, k)
                         /\ Falls(c, k) \subseteq Falls(c, k)'
                         /\ \A x \in Falls(c, k)' : x \in Falls(c, k) \/ x \in In(sent')
  BY <1>0, <1>2, ServerLinks
<1>6. LinksGo(c)
  BY <1>0, <1>1, <1>3, <1>5, ServedStays DEF LinksGo
<1>7. Agentless(c) => Agentless(c)'
  BY <1>0, ServerAgentless DEF Served
<1>8. Asked(c) => Asked(c)'
  BY <1>5, ServedStays DEF Asked, Numbers
<1> QED BY <1>4, <1>6, <1>7, <1>8, ServedStays, GuidedStays

\* A datagram that leads the call on: it is the only one.
LEMMA ServerLeads ==
  ASSUME Kept, NEW n \in Numbers, ServerStep(n), Kept', NEW m, NEW c \in CallIds, Served(n, m, c),
         Leads(c, m), GuidedCall(c)
  PROVE  /\ Lone(c)'
         /\ (\A x \in In(sent') : ~Leads(c, x)) => Free(c)'
         /\ \A k \in Numbers : /\ \A x \in Rises(c, k)' : x \in Rises(c, k) /\ ~Leads(c, x)
                               /\ \A x \in Falls(c, k)' : (x \in Falls(c, k) /\ ~Leads(c, x)) \/ x \in In(sent')
<1>0. /\ uplink[n] # <<>> /\ m = Head(uplink[n]) /\ sent' \in Seq(Of(c)) /\ Of(c) \in SUBSET Datagram
      /\ c \in Numbers /\ uplink' = [uplink EXCEPT ![n] = Tail(@)] /\ downlink' = Delivered(downlink)
      /\ sent' \in Seq(Datagram)
  BY ServedStays, PartyType DEF ServerStep
<1>1. Links /\ Links'
  BY DEF Kept, Up, Down, Links
<1>2. Quiet(c, Tail(uplink[n])) /\ (\A k \in Numbers \ {n} : Quiet(c, uplink[k])) /\ \A k \in Numbers : Quiet(c, downlink[k])
  BY <1>0, <1>1, LeadTaken DEF GuidedCall
<1>3. \A k \in Numbers : Quiet(c, uplink'[k])
  BY <1>0, <1>1, <1>2 DEF Links
<1>4. ASSUME \A x \in In(sent') : ~Leads(c, x)
      PROVE  Free(c)' /\ Lone(c)'
  <2> DEFINE S == {x \in Of(c) : ~Leads(c, x)}
  <2>1. S \in SUBSET Datagram /\ sent' \in Seq(S) /\ \A x \in S : ~Leads(c, x)
    <3>1. In(sent') \subseteq S
      BY <1>4, ServedStays
    <3> QED BY <1>0, <3>1, SeqOfIn
  <2> HIDE DEF S
  <2>2. \A k \in Numbers : Quiet(c, downlink'[k])
    <3> SUFFICES ASSUME NEW k \in Numbers
                 PROVE  Quiet(c, downlink'[k])
      OBVIOUS
    <3>1. PICK q \in {downlink'[k]} : TRUE
      OBVIOUS
    <3>2. Grows(downlink[k], q, S) /\ downlink[k] \in Seq(Datagram)
      BY <1>1, <2>1, <3>1, ServerLinks, ZenonT(60) DEF Links
    <3>3. Quiet(c, downlink[k])
      BY <1>2
    <3>4. PICK p \in {downlink[k]} : TRUE
      OBVIOUS
    <3>5. p \in Seq(Datagram) /\ Grows(p, q, S) /\ Quiet(c, p)
      BY <3>2, <3>3, <3>4
    <3>6. Quiet(c, q)
      BY <2>1, <3>5, GrowsKeeps
    <3> QED BY <3>1, <3>6
  <2> QED BY <1>1, <1>3, <2>2, FreeAgain
<1>5. ASSUME NEW y \in In(sent'), Leads(c, y)
      PROVE  Lone(c)'
  <2>1. Len(sent') <= 1
    BY <1>5, ServedStays DEF Served, DuesOf
  <2>2. y \in Datagram
    BY ServedStays
  <2>3. sent' = <<y>>
    <3>1. PICK i \in 1 .. Len(sent') : y = sent'[i]
      BY DEF In
    <3>2. Len(sent') \in Nat
      BY <1>0
    <3>4. \A l \in Nat : \A j \in 1 .. l : l <= 1 => j = 1 /\ l = 1
      OBVIOUS
    <3>3. i = 1 /\ Len(sent') = 1
      BY <2>1, <3>1, <3>2, <3>4
    <3> QED BY <1>0, <3>1, <3>3
  <2>4. ASSUME NEW k \in Numbers
        PROVE  downlink'[k] = IF y.peer = k THEN downlink[k] \o <<y>> ELSE downlink[k]
    <3>1. downlink \in [Numbers -> Seq(Datagram)]
      BY <1>1 DEF Links
    <3>2. Delivered(downlink)[k] = IF y.peer = k THEN downlink[k] \o <<y>> ELSE downlink[k]
      BY <2>2, <2>3, <3>1, DeliveredOne
    <3> QED BY <1>0, <3>2
  <2>5. y.peer \in Numbers
    BY <2>2 DEF Datagram
  <2>6. \A k \in Numbers \ {y.peer} : Quiet(c, downlink'[k])
    BY <1>2, <2>4
  <2>7. Single(c, downlink'[y.peer])
    <3>1. Single(c, <<y>>)
      BY DEF Single
    <3>2. PICK p \in {y.peer} : TRUE
      OBVIOUS
    <3>3. downlink[p] \in Seq(Datagram) /\ <<y>> \in Seq(Datagram) /\ Quiet(c, downlink[p])
      BY <1>1, <1>2, <2>2, <2>5, <3>2 DEF Links
    <3>4. Single(c, downlink[p] \o <<y>>)
      BY <3>1, <3>3, QuietConcat
    <3> QED BY <2>4, <2>5, <3>2, <3>4
  <2> QED BY <1>1, <1>3, <2>5, <2>6, <2>7, OnlyDown
<1>6. \A k \in Numbers : /\ Rises(c, k)' \subseteq Rises(c, k)
                         /\ \A x \in Falls(c, k)' : x \in Falls(c, k) \/ x \in In(sent')
  BY <1>0, ServerLinks
<1>7. \A k \in Numbers : (\A x \in Rises(c, k)' : ~Leads(c, x)) /\ \A x \in Falls(c, k) : ~Leads(c, x)
  BY <1>2, <1>3 DEF Quiet, Rises, Falls
<1> QED BY <1>4, <1>5, <1>6, <1>7

\* A call with a lead under way is not free.
LEMMA LedIsNotFree ==
  ASSUME NEW c, NEW n \in Numbers, NEW m \in Rises(c, n) \cup Falls(c, n), Leads(c, m)
  PROVE  ~Free(c)
<1>1. CASE m \in Rises(c, n)
  BY <1>1, LinkIs DEF Rises, Free, Quiet
<1>2. CASE m \in Falls(c, n)
  BY <1>2, LinkIs DEF Falls, Free, Quiet
<1> QED BY <1>1, <1>2

\* What is known when the lead is taken in.
LEMMA ServedLead ==
  ASSUME Kept, NEW n \in Numbers, NEW m, NEW c \in CallIds, Served(n, m, c), Leads(c, m),
         GuidedCall(c)
  PROVE  Guides(c, m) /\ Agentless(c)
<1>1. m \in Rises(c, n)
  BY DEF Served
<1>2. ~Free(c)
  BY <1>1, LedIsNotFree
<1> QED BY <1>1, <1>2 DEF GuidedCall

\* The INVITE, its answer or the ACK is passed on.
LEMMA ServerOpens ==
  ASSUME Kept, NEW n \in Numbers, ServerStep(n), Kept', NEW m, NEW c \in CallIds, Served(n, m, c),
         Opens(m), GuidedCall(c)
  PROVE  GuidedCall(c)'
<1>0. m.type # "REFER" /\ Leads(c, m) /\ c \in Numbers /\ ~Accepts(c, m) /\ m \in Rises(c, n)
  BY ServedStays, PartyType DEF Leads, Accepts, Opens, Served
<1>1. Guides(c, m) /\ Agentless(c)
  BY <1>0, ServedLead
<1>2. (m.type = "ACK" <=> ~Waiting(c)) /\ phone[c] # "idle" /\ reader[c] = "none"
  BY <1>1 DEF Guides
<1>3. Agentless(c)'
  BY <1>0, <1>1, ServerAgentless DEF Served
<1>4. Lone(c)'
  BY <1>0, ServerLeads
<1>5. UNCHANGED <<calls, reader, phone>> /\ (Waiting(c)' <=> Waiting(c)) /\ (Others(c)' <=> Others(c))
  BY ServedStays
<1>6. ASSUME NEW k \in Numbers, NEW x \in Rises(c, k)' \cup Falls(c, k)'
      PROVE  Guides(c, x)'
  <2>1. ~Leads(c, x) \/ x \in In(sent')
    BY <1>0, ServerLeads
  <2>2. x.callID = c
    BY DEF Rises, Falls
  <2>3. CASE ~Leads(c, x)
    BY <2>2, <2>3 DEF Leads, Guides, Opens
  <2>4. CASE Leads(c, x) /\ x \in In(sent')
    <3>1. Opens(x) /\ (x.type = "ACK" <=> m.type = "ACK")
      BY <2>4, ServedStays
    <3> QED BY <1>2, <1>5, <3>1 DEF Guides, Opens
  <2> QED BY <2>1, <2>3, <2>4
<1>7. ASSUME NEW x \in Falls(c, Ivr)'
      PROVE  Settles(c, x)'
  <2>1. x \in Falls(c, Ivr) \/ x \in In(sent')
    BY <1>0, ServerLeads DEF Numbers
  <2>2. CASE x \in Falls(c, Ivr)
    BY <1>5, <2>2 DEF GuidedCall, Settles, Resting
  <2>3. CASE x \in In(sent')
    BY <1>0, <2>3, ServedStays DEF Settles
  <2> QED BY <2>1, <2>2, <2>3
<1>8. InTime(c)'
  BY <1>2, <1>5 DEF GuidedCall, InTime, Silent, Resting
<1> QED BY <1>3, <1>4, <1>6, <1>7, <1>8 DEF GuidedCall

\* What the server answers to a REFER, in a call in which no agent is.
LEMMA ReferAnswered ==
  ASSUME Kept, NEW n \in Numbers, ServerStep(n), Kept', NEW m, NEW c \in CallIds, Served(n, m, c),
         m.type = "REFER", Agentless(c)
  PROVE  /\ \A x \in In(sent') : x.cseq = "REFER" => x.type \in {"202", "480"}
         /\ Accepts(c, m) => \E x \in Falls(c, Ivr)' : x.cseq = "REFER"
<1>0. /\ Server!Handle(m) /\ m.callID = c /\ m \in Of(c) /\ Ivr \in clients /\ Ivr \in Numbers
      /\ sent' \in Seq(Of(c)) /\ Of(c) \in SUBSET Datagram /\ c \in Numbers
  BY ServedStays, PartyType DEF Kept, Known, Numbers
<1>1. Server!OnRefer(m)
  BY <1>0 DEF Server!Handle, Server!OnRegister, Server!OnInvite, Server!OnTrying, Server!OnRinging,
     Server!OnCancel, Server!OnReqTerminated, Server!OnBusy, Server!OnUnavailable, Server!OnOk,
     Server!OnAck, Server!OnBye, Server!OnUnknown
<1>2. CASE sent' = <<>>
  BY <1>2, InNone DEF Accepts
<1>3. CASE sessions[c] # None /\ sessions[c].dest # None
           /\ Server!Forward(sessions[c].dest, [m EXCEPT !.type = "480"])
  <2>1. sessions[c].dest = Ivr
    BY <1>3 DEF Agentless, PlainSession
  <2> DEFINE y == [m EXCEPT !.type = "480"]
  <2>2. y.type = "480"
    BY <1>0 DEF Of, Datagram
  <2>3. y \in Datagram
    BY <1>0, RewriteOf DEF Of, Types, Responses
  <2> HIDE DEF y
  <2>4. PICK z \in {[y EXCEPT !.peer = Ivr]} : TRUE
    OBVIOUS
  <2>5. z.type = "480"
    BY <2>2, <2>3, <2>4 DEF Datagram
  <2>6. sent' = <<z>>
    BY <1>0, <1>3, <2>1, <2>4 DEF Server!Forward, Server!Route, Server!EndHandle, y
  <2>7. In(sent') = {z}
    BY <2>6, InOne
  <2>8. ~Accepts(c, m)
    BY <2>6 DEF Accepts
  <2> QED BY <2>5, <2>7, <2>8
<1>4. CASE Accepts(c, m)
  <2> DEFINE y == AcceptedOf(c, sessions[c])
             r == RingOf(c, sessions[c], m.referTo)
  <2>2. PICK z \in {Server!Route(Ivr, y)}, w \in {Server!Route(m.referTo, r)} : TRUE
    OBVIOUS
  <2>3. sent' = <<z, w>>
    BY <1>4, <2>2 DEF Accepts
  <2>4. In(sent') = {z, w}
    BY <2>3, InTwo
  <2>5. z = [y EXCEPT !.peer = Ivr] /\ w = [r EXCEPT !.peer = m.referTo]
    BY <1>0, <1>4, <2>2 DEF Accepts, Server!Route, Server!EndHandle
  <2>6. z.type = "202" /\ z.cseq = "REFER" /\ z.callID = c /\ z.peer = Ivr
    BY <2>5 DEF AcceptedOf, Made
  <2>7. w.cseq = "INVITE"
    BY <2>5 DEF RingOf, Made
  <2>8. z \in Falls(c, Ivr)'
    BY <1>0, <2>4, <2>6, ServerLinks
  <2> QED BY <2>4, <2>6, <2>7, <2>8
<1> QED BY <1>0, <1>1, <1>2, <1>3, <1>4, OnReferDoes

\* The REFER is taken in: nothing leads the call on now.
LEMMA ServerRefers ==
  ASSUME Kept, NEW n \in Numbers, ServerStep(n), Kept', NEW m, NEW c \in CallIds, Served(n, m, c),
         m.type = "REFER", GuidedCall(c)
  PROVE  GuidedCall(c)'
<1>0. Leads(c, m) /\ c \in Numbers /\ m \in Rises(c, n) /\ ~Opens(m)
  BY ServedStays, PartyType DEF Leads, Opens, Served
<1>1. Guides(c, m) /\ Agentless(c)
  BY <1>0, ServedLead
<1>2. ~Waiting(c) /\ Resting(c)
  BY <1>1 DEF Guides
<1>3. UNCHANGED <<calls, reader, phone>> /\ (Waiting(c)' <=> Waiting(c)) /\ (Others(c)' <=> Others(c))
  BY ServedStays
<1>4. \A x \in In(sent') : ~Leads(c, x)
  BY <1>0, ServedStays
<1>5. Lone(c)' /\ Free(c)'
  BY <1>0, <1>4, ServerLeads
<1>6. Agentless(c)' \/ Asked(c)'
  <2>1. CASE Accepts(c, m)
    <3>1. \E x \in Falls(c, Ivr)' : x.cseq = "REFER"
      BY <1>1, <2>1, ReferAnswered
    <3> QED BY <3>1 DEF Asked
  <2>2. CASE ~Accepts(c, m)
    BY <1>0, <1>1, <2>2, ServerAgentless DEF Served
  <2> QED BY <2>1, <2>2
<1>7. ASSUME NEW k \in Numbers, NEW x \in Rises(c, k)' \cup Falls(c, k)'
      PROVE  Guides(c, x)'
  <2>1. ~Leads(c, x)
    BY <1>0, <1>4, ServerLeads
  <2>2. x.callID = c
    BY DEF Rises, Falls
  <2> QED BY <2>1, <2>2 DEF Leads, Guides, Opens
<1>8. ASSUME NEW x \in Falls(c, Ivr)'
      PROVE  Settles(c, x)'
  <2>1. x \in Falls(c, Ivr) \/ x \in In(sent')
    BY <1>0, ServerLeads DEF Numbers
  <2>2. CASE x \in Falls(c, Ivr)
    BY <1>3, <2>2 DEF GuidedCall, Settles, Resting
  <2>3. CASE x \in In(sent')
    BY <1>1, <1>2, <1>3, <2>3, ReferAnswered DEF Settles, Resting
  <2> QED BY <2>1, <2>2, <2>3
<1>9. InTime(c)'
  BY <1>2, <1>3 DEF GuidedCall, InTime, Silent, Resting, Waiting
<1>a. Waiting(c)' \/ ~Free(c)' \/ reader'[c] = "refer" => Agentless(c)'
  BY <1>2, <1>3, <1>5 DEF Resting
<1> QED BY <1>5, <1>6, <1>7, <1>8, <1>9, <1>a DEF GuidedCall

\* The server leaves every call guided.
LEMMA ServerGuided ==
  ASSUME Kept, Told, Usual, Guided, NEW n \in Numbers, ServerStep(n)
  PROVE  Guided'
<1>1. PICK m \in Datagram, c \in CallIds :
           /\ ServerDoes(n, m, c) /\ m \in Rises(c, n) /\ m.type # "REGISTER" /\ DuesOf(c, m)
  BY ServerWorks
<1>2. Kept'
  BY ServerStepDoes
<1>3. Served(n, m, c)
  BY <1>1 DEF Served
<1>4. GuidedCall(c)'
  BY <1>2, <1>3, ServedStays, ServerIdles, ServerOpens, ServerRefers DEF Guided, Leads
<1>5. \A d \in CallIds \ {c} : GuidedCall(d)'
  BY <1>1, <1>2, ServerOthers DEF Guided
<1>6. Redirecting'
  BY <1>1 DEF ServerDoes, ivrVars, Guided, Redirecting
<1> QED BY <1>4, <1>5, <1>6 DEF Guided
-----------------------------------------------------------------------------
(***************************************************************************)
(* The IVR guides a call.                                                  *)
(***************************************************************************)
\* A step of the IVR on call c.
IvrTurns(c) ==
  /\ IvrDoes(c) /\ Listening(Ivr)
  /\ uplink' = Delivered(uplink) \/ UNCHANGED uplink

\* The links in a step of the IVR.
LEMMA IvrLinks ==
  ASSUME Kept, Kept', NEW c, IvrTurns(c), NEW S \in SUBSET Datagram, sent' \in Seq(S)
  PROVE  /\ Links /\ Links'
         /\ \A k \in Numbers : Grows(uplink[k], uplink'[k], S) /\ Grows(downlink[k], downlink'[k], S)
         /\ \A d, k \in Numbers : /\ Falls(d, k)' \subseteq Falls(d, k)
                                  /\ \A x \in Rises(d, k)' : x \in Rises(d, k)
                                       \/ (x \in In(sent') /\ x.callID = d /\ x.peer = k)
                                  /\ \A x \in Falls(d, k) : x \in Falls(d, k)'
                                       \/ (~UNCHANGED downlink /\ x = Head(downlink[Ivr]))
<1>1. Links /\ Links' /\ sent' \in Seq(Datagram) /\ Ivr \in Numbers
  BY DEF Kept, Up, Down, Links, Programs, Outcome, Numbers
<1>2. ASSUME NEW k \in Numbers
      PROVE  Grows(uplink[k], uplink'[k], S) /\ Grows(downlink[k], downlink'[k], S)
  <2>1. uplink[k] \in Seq(Datagram) /\ downlink[k] \in Seq(Datagram) /\ <<>> \in Seq(S)
    BY <1>1 DEF Links
  <2>2. ASSUME UNCHANGED uplink
        PROVE  Grows(uplink[k], uplink'[k], S)
    <3>1. uplink'[k] = uplink[k] \o <<>>
      BY <2>1, <2>2
    <3> QED BY <2>1, <3>1 DEF Grows
  <2>3. ASSUME uplink' = Delivered(uplink)
        PROVE  Grows(uplink[k], uplink'[k], S)
    <3>1. uplink \in [Numbers -> Seq(Datagram)]
      BY <1>1 DEF Links
    <3>2. \E s \in Seq(S) : Delivered(uplink)[k] = uplink[k] \o s
      BY <3>1, DeliveredGrows
    <3> QED BY <2>3, <3>2 DEF Grows
  <2>4. Grows(uplink[k], uplink'[k], S)
    BY <2>2, <2>3 DEF IvrTurns
  <2>5. CASE downlink'[k] = downlink[k]
    <3>1. downlink'[k] = downlink[k] \o <<>>
      BY <2>1, <2>5
    <3> QED BY <2>1, <2>4, <3>1 DEF Grows
  <2>6. CASE k = Ivr /\ downlink[k] # <<>> /\ downlink'[k] = Tail(downlink[k])
    <3>1. Tail(downlink[k]) \in Seq(Datagram)
      BY <2>1, <2>6, InTail
    <3>2. downlink'[k] = Tail(downlink[k]) \o <<>>
      BY <2>6, <3>1
    <3> QED BY <2>1, <2>4, <2>6, <3>2 DEF Grows
  <2>7. downlink'[k] = downlink[k] \/ (k = Ivr /\ downlink[k] # <<>> /\ downlink'[k] = Tail(downlink[k]))
    BY <1>1 DEF IvrTurns, Listening, Links
  <2> QED BY <2>5, <2>6, <2>7
<1>3. ASSUME NEW k \in Numbers
      PROVE  /\ In(uplink'[k]) \subseteq In(uplink[k]) \cup {x \in In(sent') : x.peer = k}
             /\ In(downlink'[k]) \subseteq In(downlink[k])
             /\ \A x \in In(downlink[k]) : x \in In(downlink'[k])
                  \/ (~UNCHANGED downlink /\ x = Head(downlink[Ivr]))
  <2>1. uplink \in [Numbers -> Seq(Datagram)] /\ downlink[k] \in Seq(Datagram)
        /\ downlink \in [Numbers -> Seq(Datagram)]
    BY <1>1 DEF Links
  <2>2. In(Delivered(uplink)[k]) \subseteq In(uplink[k]) \cup {x \in In(sent') : x.peer = k}
    BY <1>1, <2>1, InDelivered
  <2>3. In(uplink'[k]) \subseteq In(uplink[k]) \cup {x \in In(sent') : x.peer = k}
    BY <2>2 DEF IvrTurns
  <2>4. CASE downlink'[k] = downlink[k]
    BY <2>3, <2>4
  <2>5. CASE k = Ivr /\ downlink[k] # <<>> /\ downlink'[k] = Tail(downlink[k]) /\ ~UNCHANGED downlink
    <3>1. In(downlink[k]) = {Head(downlink[k])} \cup In(Tail(downlink[k]))
      BY <2>1, <2>5, InTail
    <3> QED BY <2>3, <2>5, <3>1
  <2>6. \/ downlink'[k] = downlink[k]
        \/ k = Ivr /\ downlink[k] # <<>> /\ downlink'[k] = Tail(downlink[k]) /\ ~UNCHANGED downlink
    BY <2>1 DEF IvrTurns, Listening
  <2> QED BY <2>4, <2>5, <2>6
<1>4. \A d, k \in Numbers : /\ Falls(d, k)' \subseteq Falls(d, k)
                            /\ \A x \in Rises(d, k)' : x \in Rises(d, k)
                                 \/ (x \in In(sent') /\ x.callID = d /\ x.peer = k)
                            /\ \A x \in Falls(d, k) : x \in Falls(d, k)'
                                 \/ (~UNCHANGED downlink /\ x = Head(downlink[Ivr]))
  BY <1>3 DEF Rises, Falls
<1> QED BY <1>1, <1>2, <1>4

\* The calls that the step is not about.
LEMMA IvrOthers ==
  ASSUME Kept, Kept', NEW c \in CallIds, IvrTurns(c), NEW d \in CallIds \ {c}, GuidedCall(d),
         UNCHANGED downlink \/ Head(downlink[Ivr]).callID = c,
         calls'[d] = calls[d],
         reader'[d] = reader[d] \/ (reader[d] = "event" /\ reader'[d] = "raced" /\ phone[c] # "idle")
  PROVE  GuidedCall(d)'
<1>0. sent' \in Seq(Voice(c)) /\ Voice(c) \in SUBSET Datagram /\ UNCHANGED <<serverVars, phoneVars>>
      /\ d \in Numbers
  BY PartyType DEF IvrTurns, IvrDoes, Attends, Answers, Voice, Of
<1>1. \A x \in Voice(c) : ~Leads(d, x) /\ x.callID # d
  BY DEF Voice, Of, Leads
<1>2. In(sent') \subseteq Voice(c)
  BY <1>0, InType
<1>3. Lone(d)' /\ (Free(d) => Free(d)')
  BY <1>0, <1>1, IvrLinks, NoLead DEF GuidedCall
<1>4. \A k \in Numbers : Rises(d, k)' \subseteq Rises(d, k) /\ Falls(d, k)' = Falls(d, k)
  <2>1. /\ \A k \in Numbers : Falls(d, k)' \subseteq Falls(d, k)
        /\ \A k \in Numbers : \A x \in Rises(d, k)' : x \in Rises(d, k) \/ x \in In(sent')
        /\ \A k \in Numbers : \A x \in Falls(d, k) : x \in Falls(d, k)'
             \/ (~UNCHANGED downlink /\ x = Head(downlink[Ivr]))
    BY <1>0, IvrLinks
  <2>2. \A k \in Numbers : \A x \in Falls(d, k) \cup Rises(d, k)' : x.callID = d
    BY DEF Falls, Rises
  <2>3. \A k \in Numbers : Falls(d, k) \subseteq Falls(d, k)'
    BY <2>1, <2>2
  <2>4. \A k \in Numbers : Rises(d, k)' \subseteq Rises(d, k)
    BY <1>1, <1>2, <2>1, <2>2
  <2> QED BY <2>1, <2>3, <2>4
<1>5. LinksGo(d)
  BY <1>4 DEF LinksGo
<1>6. Agentless(d) => Agentless(d)'
  <2>1. OnlyPlain(d) => OnlyPlain(d)'
    BY <1>4, PlainKept
  <2> QED BY <1>0, <2>1 DEF Agentless, PlainSession, phoneVars, serverVars
<1>7. Asked(d) => Asked(d)'
  BY <1>4 DEF Asked, Numbers
<1>8. /\ Waiting(d)' <=> Waiting(d)
      /\ phone'[d] = "idle" => phone[d] = "idle"
      /\ Others(d) => Others(d)'
      /\ reader'[d] = reader[d] \/ Others(d)'
      /\ CallGoes(d)
  BY <1>0 DEF Waiting, Others, CallGoes, phoneVars
<1>9. ReaderGoes(d)
  BY <1>8 DEF ReaderGoes, Resting, Silent
<1> QED BY <1>3, <1>5, <1>6, <1>7, <1>8, <1>9, GuidedStays

\* The outcome of a referral stays asked for, unless the IVR hears it.
LEMMA AskedStays ==
  ASSUME Kept, Kept', NEW c \in CallIds, IvrTurns(c), CallGoes(c),
         UNCHANGED downlink \/ Head(downlink[Ivr]).cseq # "REFER" \/ calls'[c] = None
  PROVE  Asked(c) => Asked(c)'
<1>1. sent' \in Seq(Datagram) /\ c \in Numbers /\ Ivr \in Numbers
  BY PartyType DEF Kept, Programs, Outcome, Numbers
<1>2. \A x \in Falls(c, Ivr) : x \in Falls(c, Ivr)' \/ (~UNCHANGED downlink /\ x = Head(downlink[Ivr]))
  BY <1>1, IvrLinks
<1> QED BY <1>2 DEF Asked, CallGoes

\* What the IVR says that leads nothing.
Idles(c) ==
  \/ sent' = <<>>
  \/ \E x : sent' = <<x>> /\ ~Leads(c, x) /\ (OnlyPlain(c) => Plain(c, x))

\* A step that does not lead the call on.
LEMMA IvrStays ==
  ASSUME Kept, Kept', NEW c \in CallIds, IvrTurns(c), GuidedCall(c), Idles(c), ReaderGoes(c),
         CallGoes(c), Asked(c) => Asked(c)'
  PROVE  GuidedCall(c)'
<1> DEFINE S == {x \in Datagram : ~Leads(c, x)}
<1>0. sent' \in Seq(Datagram) /\ UNCHANGED <<serverVars, phoneVars>> /\ c \in Numbers
  BY PartyType DEF IvrTurns, IvrDoes, Kept, Programs, Outcome
<1>1. In(sent') \subseteq Datagram
  BY <1>0, InType
<1>2. \A x \in In(sent') : ~Leads(c, x) /\ (OnlyPlain(c) => Plain(c, x))
  BY InNone, InOne DEF Idles
<1>3. S \in SUBSET Datagram /\ sent' \in Seq(S) /\ \A x \in S : ~Leads(c, x)
  <2>1. In(sent') \subseteq S
    BY <1>1, <1>2
  <2> QED BY <1>0, <2>1, SeqOfIn
<1> HIDE DEF S
<1>4. Lone(c)' /\ (Free(c) => Free(c)')
  BY <1>3, IvrLinks, NoLead DEF GuidedCall
<1>5. \A k \in Numbers : /\ Falls(c, k)' \subseteq Falls(c, k)
                         /\ \A x \in Rises(c, k)' : x \in Rises(c, k) \/ x \in In(sent')
  BY <1>0, IvrLinks
<1>6. LinksGo(c)
  BY <1>2, <1>5 DEF LinksGo
<1>7. Agentless(c) => Agentless(c)'
  <2>1. OnlyPlain(c) => OnlyPlain(c)'
    BY <1>2, <1>5, PlainKept
  <2> QED BY <1>0, <2>1 DEF Agentless, PlainSession, phoneVars, serverVars
<1>8. /\ Waiting(c)' <=> Waiting(c)
      /\ phone'[c] = "idle" => phone[c] = "idle"
      /\ Others(c) => Others(c)'
  BY <1>0 DEF Waiting, Others, phoneVars
<1> QED BY <1>4, <1>6, <1>7, <1>8, GuidedStays

\* The IVR takes in datagram m of call c, and survives.
Taken(c, m) ==
  /\ IvrTurns(c) /\ fault' = "none"
  /\ downlink[Ivr] # <<>> /\ m = Head(downlink[Ivr])
  /\ downlink' = [downlink EXCEPT ![Ivr] = Tail(@)] /\ uplink' = Delivered(uplink)
  /\ m \in Falls(c, Ivr) /\ m \in Of(c) /\ Hears(c, Ivr, m)

\* It is the only lead of the call.
LEMMA LeadHeard ==
  ASSUME Kept, Kept', NEW c \in CallIds, NEW m, Taken(c, m), Leads(c, m), GuidedCall(c)
  PROVE  /\ Guides(c, m) /\ Agentless(c)
         /\ \A k \in Numbers : Quiet(c, uplink[k]) /\ Quiet(c, downlink'[k])
<1>0. Links /\ Ivr \in Numbers /\ m \in Falls(c, Ivr)
  BY DEF Kept, Up, Down, Links, Numbers, Taken
<1>1. /\ Quiet(c, Tail(downlink[Ivr]))
      /\ \A k \in Numbers \ {Ivr} : Quiet(c, downlink[k])
      /\ \A k \in Numbers : Quiet(c, uplink[k])
  BY <1>0, LeadTaken DEF Taken, GuidedCall
<1>2. \A k \in Numbers : Quiet(c, uplink[k]) /\ Quiet(c, downlink'[k])
  BY <1>0, <1>1 DEF Taken, Links
<1>3. ~Free(c)
  BY <1>0, LedIsNotFree DEF Taken
<1> QED BY <1>0, <1>2, <1>3 DEF GuidedCall

\* It says one thing, and nothing else leads the call on.
LEMMA IvrLeads ==
  ASSUME Kept, Kept', NEW c, uplink' = Delivered(uplink), NEW x \in Datagram, sent' = <<x>>,
         x.peer = Ivr,
         \A k \in Numbers : Quiet(c, uplink[k]) /\ Quiet(c, downlink'[k])
  PROVE  Lone(c)'
<1>0. Links /\ Links' /\ Ivr \in Numbers /\ uplink \in [Numbers -> Seq(Datagram)]
  BY DEF Kept, Up, Down, Links, Numbers
<1>1. ASSUME NEW k \in Numbers
      PROVE  uplink'[k] = IF x.peer = k THEN uplink[k] \o <<x>> ELSE uplink[k]
  <2>1. Delivered(uplink)[k] = IF x.peer = k THEN uplink[k] \o <<x>> ELSE uplink[k]
    BY <1>0, DeliveredOne
  <2> QED BY <2>1
<1>2. \A k \in Numbers \ {Ivr} : Quiet(c, uplink'[k])
  BY <1>1
<1>3. Single(c, uplink'[Ivr])
  <2>1. Single(c, <<x>>)
    BY DEF Single
  <2>2. PICK q \in {uplink[Ivr]} : TRUE
    OBVIOUS
  <2>3. q \in Seq(Datagram) /\ <<x>> \in Seq(Datagram) /\ Quiet(c, q)
    BY <1>0, <2>2
  <2>4. Single(c, q \o <<x>>)
    BY <2>1, <2>3, QuietConcat
  <2>5. uplink'[Ivr] = q \o <<x>>
    BY <1>0, <1>1, <2>2
  <2> QED BY <2>4, <2>5
<1> QED BY <1>0, <1>2, <1>3, OnlyUp

\* What the IVR answers, but to an INVITE, leads nothing.
LEMMA EchoIdles ==
  ASSUME NEW c \in CallIds, NEW m, Taken(c, m), App!Receive(m), m.type # "INVITE"
  PROVE  Idles(c)
<1>0. m \in Of(c) /\ Hears(c, Ivr, m) /\ m \in Falls(c, Ivr) /\ Ivr \in Numbers
  BY DEF Taken, Numbers
<1>1. CASE sent' # <<>>
  <2>1. PICK x : sent' = <<x>> /\ Echoed(m, x)
    BY <1>0, <1>1, ReceiveSends
  <2>2. x.type = "200" /\ x.cseq = "BYE" /\ x.cseq = m.cseq /\ x.from = m.from /\ x.to = m.to
    BY <2>1 DEF Echoed
  <2>3. ~Leads(c, x)
    BY <2>2 DEF Leads, Opens
  <2>4. OnlyPlain(c) => Plain(c, x)
    BY <1>0, <2>2 DEF OnlyPlain, Plain
  <2> QED BY <2>1, <2>3, <2>4 DEF Idles
<1> QED BY <1>1 DEF Idles

\* The INVITE.
LEMMA InviteGuided ==
  ASSUME Kept, Kept', NEW c \in CallIds, NEW m, Taken(c, m), App!Receive(m), App!OnInvite(m),
         GuidedCall(c)
  PROVE  GuidedCall(c)'
<1>0. m.type = "INVITE" /\ m.cseq = "INVITE" /\ m.to = Ivr /\ m.from = c /\ m.callID = c
      /\ c \in Numbers /\ Ivr \in Numbers /\ AppKeeps
  <2>1. m.type = "INVITE" /\ Hears(c, Ivr, m) /\ m \in Of(c) /\ c \in Numbers /\ c # Ivr
    BY PartyType DEF App!OnInvite, Taken
  <2> QED BY <2>1 DEF Hears, Of, Numbers, Kept, Programs
<1>1. Leads(c, m)
  BY <1>0 DEF Leads, Opens
<1>2. /\ Guides(c, m) /\ Agentless(c)
      /\ \A k \in Numbers : Quiet(c, uplink[k]) /\ Quiet(c, downlink'[k])
  BY <1>1, LeadHeard
<1>3. Waiting(c) /\ phone[c] # "idle" /\ reader[c] = "none"
  BY <1>0, <1>2 DEF Guides, Opens
<1>4. CASE (sent' = <<>> /\ UNCHANGED <<calls, reader>>) \/ App!Refused(m)
  <2>1. sent' = <<>> /\ calls'[c] = calls[c] /\ reader'[c] = "none"
    BY <1>3, <1>4 DEF App!Refused, App!MapChanges
  <2>2. ReaderGoes(c) /\ CallGoes(c) /\ Idles(c)
    BY <1>3, <2>1 DEF ReaderGoes, CallGoes, Idles, Resting, Silent
  <2>3. Asked(c) => Asked(c)'
    BY <1>0, <2>2, AskedStays DEF Taken
  <2> QED BY <2>2, <2>3, IvrStays DEF Taken
<1>5. CASE /\ calls' = [calls EXCEPT ![c] = App!NewCall(m)] /\ sent' # <<>>
           /\ App!MapChanges
  <2>1. PICK x : sent' = <<x>> /\ Echoed(m, x)
    <3>1. m \in Of(c) /\ Hears(c, Ivr, m)
      BY DEF Taken
    <3> QED BY <1>5, <3>1, ReceiveSends
  <2>2. x.type = "200" /\ x.cseq = "INVITE" /\ x.from = c /\ x.to = Ivr /\ x.callID = c
    BY <1>0, <2>1 DEF Echoed
  <2>3. x \in Datagram /\ x.peer = Ivr
    <3>1. In(sent') \subseteq Voice(c)
      BY InType DEF Taken, IvrTurns, IvrDoes, Attends, Answers
    <3>2. x \in Voice(c)
      BY <2>1, <3>1, InOne
    <3> QED BY <3>2 DEF Voice, Of
  <2>4. Lone(c)'
    BY <1>2, <2>1, <2>3, IvrLeads DEF Taken
  <2>5. calls'[c] # None /\ calls'[c].state = "Connected" /\ reader'[c] = "none"
    <3>1. calls'[c] = App!NewCall(m) /\ calls'[c] \in OrNone(App!CallSession)
      BY <1>0, <1>5 DEF AppKeeps, Kept, Programs
    <3>2. calls'[c].state = "Connected" /\ calls'[c] = [state |-> "Connected", src |-> c]
      BY <1>0, <3>1 DEF App!NewCall
    <3>3. calls'[c] \in App!CallSession
      BY <1>0, <3>2 DEF App!CallSession, App!CallStates, App!Numbers, Numbers
    <3>4. None \notin App!CallSession
      BY NoSessionAssumption
    <3>5. reader'[c] = "none"
      BY <1>3, <1>5 DEF App!MapChanges
    <3> QED BY <3>2, <3>3, <3>4, <3>5
  <2>6. /\ \A k \in Numbers : Falls(c, k)' \subseteq Falls(c, k)
        /\ \A k \in Numbers : \A y \in Rises(c, k)' : y \in Rises(c, k) \/ y = x
    <3>1. sent' \in Seq(Datagram)
      BY DEF Kept, Programs, Outcome
    <3>2. /\ \A k \in Numbers : Falls(c, k)' \subseteq Falls(c, k)
          /\ \A k \in Numbers : \A y \in Rises(c, k)' : y \in Rises(c, k) \/ y \in In(sent')
      BY <1>0, <3>1, IvrLinks DEF Taken
    <3> QED BY <2>1, <3>2, InOne
  <2>7. UNCHANGED <<serverVars, phoneVars>>
    BY DEF Taken, IvrTurns, IvrDoes
  <2>8. Agentless(c)'
    <3>1. OnlyPlain(c)
      BY <1>2 DEF Agentless
    <3>2. Plain(c, x)
      BY <2>2 DEF Plain
    <3>3. OnlyPlain(c)'
      BY <2>6, <3>1, <3>2, PlainKept
    <3> QED BY <1>2, <2>7, <3>3 DEF Agentless, PlainSession, serverVars, phoneVars
  <2>9. ASSUME NEW k \in Numbers, NEW y \in Rises(c, k)' \cup Falls(c, k)'
        PROVE  Guides(c, y)'
    <3>1. y \in Rises(c, k) \cup Falls(c, k) \/ y = x
      BY <2>6
    <3>2. Waiting(c)' /\ phone'[c] # "idle"
      BY <1>3, <2>7 DEF Waiting, phoneVars
    <3>3. CASE y = x
      BY <2>2, <2>5, <3>2, <3>3 DEF Guides, Opens
    <3>4. CASE y \in Rises(c, k) \cup Falls(c, k)
      <4>1. Guides(c, y)
        BY <3>4 DEF GuidedCall
      <4> QED BY <1>3, <2>5, <3>2, <4>1 DEF Guides, Opens
    <3> QED BY <3>1, <3>3, <3>4
  <2>a. ASSUME NEW y \in Falls(c, Ivr)'
        PROVE  Settles(c, y)'
    <3>1. Settles(c, y)
      BY <1>0, <2>6 DEF GuidedCall
    <3> QED BY <1>3, <3>1 DEF Settles
  <2>b. InTime(c)'
    BY <1>3, <2>5, <2>7 DEF InTime, phoneVars
  <2> QED BY <2>4, <2>8, <2>9, <2>a, <2>b DEF GuidedCall
<1>6. \/ sent' = <<>> /\ UNCHANGED <<calls, reader>>
      \/ App!Refused(m)
      \/ /\ calls' = [calls EXCEPT ![c] = App!NewCall(m)] /\ sent' # <<>>
         /\ App!MapChanges
  <2>1. fault' = "none"
    BY DEF Taken
  <2> QED BY <1>0, <2>1 DEF App!OnInvite, App!Ignore, App!Crash, App!Send
<1> QED BY <1>4, <1>5, <1>6

\* A free call has no lead under way.
LEMMA FreeLeadsNot ==
  ASSUME NEW c, Free(c)', NEW n \in Numbers, NEW m \in Rises(c, n)' \cup Falls(c, n)'
  PROVE  ~Leads(c, m)
<1>1. CASE m \in Rises(c, n)'
  BY <1>1, LinkIs DEF Rises, Free, Quiet, Leads, Opens
<1>2. CASE m \in Falls(c, n)'
  BY <1>2, LinkIs DEF Falls, Free, Quiet, Leads, Opens
<1> QED BY <1>1, <1>2

\* The ACK.
LEMMA AckGuided ==
  ASSUME Kept, Kept', NEW c \in CallIds, NEW m, Taken(c, m), App!OnAck(m), GuidedCall(c)
  PROVE  GuidedCall(c)'
<1>0. m.type = "ACK" /\ m.to = Ivr /\ m.callID = c /\ c \in Numbers /\ Ivr \in Numbers /\ AppKeeps
      /\ fault' = "none" /\ UNCHANGED <<serverVars, phoneVars>>
  <2>1. m.type = "ACK" /\ Hears(c, Ivr, m) /\ m \in Of(c) /\ c \in Numbers
    BY PartyType DEF App!OnAck, Taken
  <2> QED BY <2>1 DEF Hears, Of, Numbers, Kept, Programs, Taken, IvrTurns, IvrDoes
<1>1. Leads(c, m)
  BY <1>0 DEF Leads, Opens
<1>2. /\ Guides(c, m) /\ Agentless(c)
      /\ \A k \in Numbers : Quiet(c, uplink[k]) /\ Quiet(c, downlink'[k])
  BY <1>1, LeadHeard
<1>3. ~Waiting(c) /\ reader[c] = "none"
  BY <1>0, <1>2 DEF Guides, Opens
<1>4. CASE App!Ignore
  <2>1. sent' = <<>> /\ UNCHANGED <<calls, reader>>
    BY <1>4 DEF App!Ignore
  <2>2. ReaderGoes(c) /\ CallGoes(c) /\ Idles(c)
    BY <2>1 DEF ReaderGoes, CallGoes, Idles, Resting, Silent
  <2>3. m.cseq # "REFER"
    BY <1>0 DEF Taken, Hears
  <2>4. Asked(c) => Asked(c)'
    BY <1>0, <2>2, <2>3, AskedStays DEF Taken
  <2> QED BY <2>2, <2>4, IvrStays DEF Taken
<1>5. CASE /\ calls[c] # None /\ App!SetState(c, "Connected") /\ sent' = <<>>
           /\ reader' = [reader EXCEPT ![c] = "polling"]
  <2>1. calls'[c] # None /\ calls'[c].state = "Connected" /\ reader'[c] = "polling"
    <3>1. calls[c] \in App!CallSession /\ None \notin App!CallSession
      BY <1>0, <1>5, NoSessionAssumption DEF AppKeeps, OrNone
    <3>2. calls'[c] = [calls[c] EXCEPT !.state = "Connected"]
      BY <1>0, <1>5 DEF AppKeeps, App!SetState
    <3>3. calls'[c] \in App!CallSession /\ calls'[c].state = "Connected"
      BY <3>1, <3>2 DEF App!CallSession, App!CallStates
    <3>4. reader'[c] = "polling"
      BY <1>0, <1>5 DEF AppKeeps
    <3> QED BY <3>1, <3>3, <3>4
  <2>2. /\ \A k \in Numbers : Falls(c, k)' \subseteq Falls(c, k)
        /\ \A k \in Numbers : Rises(c, k)' \subseteq Rises(c, k)
    <3>1. sent' \in Seq(Datagram) /\ In(sent') = {}
      BY <1>5, InNone DEF Kept, Programs, Outcome
    <3> QED BY <1>0, <3>1, IvrLinks DEF Taken
  <2>3. Lone(c)' /\ Free(c)'
    <3>1. Links' /\ \A k \in Numbers : Grows(uplink[k], uplink'[k], {}) /\ uplink[k] \in Seq(Datagram)
      <4>1. {} \in SUBSET Datagram /\ sent' \in Seq({})
        BY <1>5
      <4> QED BY <4>1, IvrLinks DEF Taken, Links
    <3>2. \A k \in Numbers : Quiet(c, uplink'[k])
      <4> SUFFICES ASSUME NEW k \in Numbers
                   PROVE  Quiet(c, uplink'[k])
        OBVIOUS
      <4>1. PICK q \in {uplink'[k]} : TRUE
        OBVIOUS
      <4>2. Grows(uplink[k], q, {}) /\ uplink[k] \in Seq(Datagram)
        BY <3>1, <4>1
      <4> QED BY <1>2, <4>1, <4>2, GrowsKeeps
    <3> QED BY <1>2, <3>1, <3>2, FreeAgain
  <2>4. Agentless(c)'
    <3>1. OnlyPlain(c)'
      BY <1>2, <2>2, PlainKept DEF Agentless
    <3> QED BY <1>0, <1>2, <3>1 DEF Agentless, PlainSession, serverVars, phoneVars
  <2>5. ASSUME NEW k \in Numbers, NEW y \in Rises(c, k)' \cup Falls(c, k)'
        PROVE  Guides(c, y)'
    <3>1. ~Leads(c, y)
      BY <2>3, FreeLeadsNot
    <3>2. y.callID = c
      BY DEF Rises, Falls
    <3> QED BY <3>1, <3>2 DEF Leads, Guides, Opens
  <2>6. ~Waiting(c)' /\ phone'[c] # "idle"
    BY <1>0, <1>3 DEF Waiting, phoneVars
  <2>7. ASSUME NEW y \in Falls(c, Ivr)'
        PROVE  Settles(c, y)'
    <3>1. Settles(c, y)
      BY <1>0, <2>2 DEF GuidedCall
    <3> QED BY <2>1, <2>6, <3>1 DEF Settles, Resting
  <2>8. InTime(c)'
    BY <2>1, <2>6 DEF InTime
  <2> QED BY <2>3, <2>4, <2>5, <2>7, <2>8 DEF GuidedCall
<1>6. \/ App!Ignore
      \/ /\ calls[c] # None /\ App!SetState(c, "Connected") /\ sent' = <<>>
         /\ reader' = [reader EXCEPT ![c] = "polling"]
  BY <1>0 DEF App!OnAck, App!Crash, App!HasCall
<1> QED BY <1>4, <1>5, <1>6

\* When the IVR is told of a referral, or of its agent, the reader of the call
\* writes no announcement.
LEMMA OutcomeSilent ==
  ASSUME NEW c \in CallIds, NEW m \in Falls(c, Ivr), Hears(c, Ivr, m), GuidedCall(c),
         m.type \in {"202", "480", "486"}
  PROVE  calls[c] = None \/ Silent(c)
<1>0. Ivr \in Numbers /\ c \notin Agents /\ Ivr \notin Agents
  BY PartyType, SipAssumption, CallFlowAssumption DEF Numbers
<1>1. CASE m.cseq = "REFER"
  BY <1>1 DEF GuidedCall, Settles, Silent
<1>2. CASE m.cseq # "REFER"
  <2>1. m.to \in Agents
    BY <1>2 DEF Hears
  <2>2. ~Agentless(c)
    BY <1>0, <2>1 DEF Agentless, OnlyPlain, Plain
  <2>3. Asked(c)
    BY <2>2 DEF GuidedCall
  <2>4. CASE \E x \in Falls(c, Ivr) : x.cseq = "REFER"
    BY <2>4 DEF GuidedCall, Settles, Silent
  <2> QED BY <2>3, <2>4 DEF Asked, GuidedCall, InTime
<1> QED BY <1>1, <1>2

\* The IVR hears of the referral, or of its agent.
LEMMA OutcomeGuided ==
  ASSUME Kept, Kept', NEW c \in CallIds, NEW m, Taken(c, m), App!Receive(m), GuidedCall(c),
         App!OnBusy(m) \/ App!OnUnavailable(m) \/ App!OnReferAccepted(m)
  PROVE  GuidedCall(c)'
<1>0. m.type \in {"202", "480", "486"} /\ m.callID = c /\ AppKeeps /\ fault' = "none" /\ Ivr \in Numbers
      /\ m \in Falls(c, Ivr) /\ Hears(c, Ivr, m)
  BY DEF App!OnBusy, App!OnUnavailable, App!OnReferAccepted, Taken, Of, Kept, Programs, Numbers
<1>1. Idles(c)
  BY <1>0, EchoIdles
<1>2. CASE App!Ignore /\ (m.type \in {"202", "480"} => calls[c] = None)
  <2>1. UNCHANGED <<calls, reader>>
    BY <1>2 DEF App!Ignore
  <2>2. ReaderGoes(c) /\ CallGoes(c)
    BY <2>1 DEF ReaderGoes, CallGoes, Resting, Silent
  <2>3. m.cseq = "REFER" => m.type \in {"202", "480"}
    BY <1>0 DEF GuidedCall, Settles
  <2>4. Asked(c) => Asked(c)'
    BY <1>0, <1>2, <2>1, <2>2, <2>3, AskedStays DEF Taken
  <2> QED BY <1>1, <2>2, <2>4, IvrStays DEF Taken
<1>3. CASE /\ calls[c] # None /\ UNCHANGED reader
           /\ \E st \in {"Busy", "Unavailable", "Referring"} : App!SetState(c, st)
  <2>1. Silent(c)
    BY <1>0, <1>3, OutcomeSilent
  <2>2. calls'[c].state # "Connected"
    <3>1. calls[c] \in App!CallSession
      BY <1>0, <1>3 DEF AppKeeps, OrNone
    <3>2. PICK st \in {"Busy", "Unavailable", "Referring"} : App!SetState(c, st)
      BY <1>3
    <3>3. calls'[c] = [calls[c] EXCEPT !.state = st]
      BY <1>0, <3>2 DEF AppKeeps, App!SetState
    <3> QED BY <3>1, <3>2, <3>3 DEF App!CallSession
  <2>3. ReaderGoes(c) /\ CallGoes(c)
    BY <1>3, <2>1, <2>2 DEF ReaderGoes, CallGoes, Resting, Silent
  <2>4. Asked(c)'
    BY <2>2 DEF Asked
  <2> QED BY <1>1, <2>3, <2>4, IvrStays DEF Taken
<1>4. \/ App!Ignore /\ (m.type \in {"202", "480"} => calls[c] = None)
      \/ /\ calls[c] # None /\ UNCHANGED reader
         /\ \E st \in {"Busy", "Unavailable", "Referring"} : App!SetState(c, st)
  BY <1>0 DEF App!OnBusy, App!OnUnavailable, App!OnReferAccepted, App!Announce, App!Overwritten,
     App!Crash, App!HasCall, App!StartsReferring, App!ReaderUnchanged
<1> QED BY <1>2, <1>3, <1>4

\* What ends the call, and what changes nothing.
LEMMA ClosingGuided ==
  ASSUME Kept, Kept', NEW c \in CallIds, NEW m, Taken(c, m), App!Receive(m), GuidedCall(c),
         App!OnBye(m) \/ App!OnOk(m) \/ App!OnNothing(m)
  PROVE  GuidedCall(c)'
<1>0. m.type \notin {"INVITE", "202", "480"} /\ m.callID = c /\ AppKeeps /\ Ivr \in Numbers
      /\ m \in Falls(c, Ivr)
  BY DEF App!OnBye, App!OnOk, App!OnNothing, Taken, Of, Kept, Programs, Numbers
<1>1. Idles(c)
  BY <1>0, EchoIdles
<1>2. m.cseq # "REFER"
  BY <1>0 DEF GuidedCall, Settles
<1>3. CASE App!Ignore
  <2>1. UNCHANGED <<calls, reader>>
    BY <1>3 DEF App!Ignore
  <2>2. ReaderGoes(c) /\ CallGoes(c)
    BY <2>1 DEF ReaderGoes, CallGoes, Resting, Silent
  <2>3. Asked(c) => Asked(c)'
    BY <1>2, <2>2, AskedStays DEF Taken
  <2> QED BY <1>1, <2>2, <2>3, IvrStays DEF Taken
<1>4. CASE calls[c] # None /\ calls' = [calls EXCEPT ![c] = None] /\ App!MapChanges
  <2>1. calls'[c] = None /\ reader'[c] = IF reader[c] = "event" THEN "raced" ELSE reader[c]
    BY <1>0, <1>4 DEF AppKeeps, App!MapChanges
  <2>2. ReaderGoes(c) /\ CallGoes(c) /\ Asked(c)'
    BY <1>4, <2>1 DEF ReaderGoes, CallGoes, Resting, Silent, Asked
  <2> QED BY <1>1, <2>2, IvrStays DEF Taken
<1>5. App!Ignore \/ (calls[c] # None /\ calls' = [calls EXCEPT ![c] = None] /\ App!MapChanges)
  BY <1>0 DEF App!OnBye, App!OnOk, App!OnNothing, App!EndCall, App!HasCall
<1> QED BY <1>3, <1>4, <1>5

\* What a handler of the IVR leaves alone.
LEMMA ReceiveApart ==
  ASSUME Kept, NEW c \in CallIds, NEW m, Taken(c, m), App!Receive(m), GuidedCall(c)
  PROVE  \A d \in CallIds \ {c} :
           /\ calls'[d] = calls[d]
           /\ \/ reader'[d] = reader[d]
              \/ reader[d] = "event" /\ reader'[d] = "raced" /\ phone[c] # "idle"
<1>0. m.callID = c /\ AppKeeps /\ fault' = "none" /\ Ivr \in Numbers /\ m \in Falls(c, Ivr)
  BY DEF Taken, Of, Kept, Programs, Numbers
<1>1. CASE App!OnInvite(m)
  <2>1. m.type = "INVITE" /\ m.to = Ivr
    BY <1>0, <1>1 DEF App!OnInvite, Taken, Hears
  <2>2. phone[c] # "idle"
    BY <1>0, <2>1 DEF GuidedCall, Guides, Opens
  <2>3. \/ UNCHANGED <<calls, reader>>
        \/ UNCHANGED calls /\ App!MapChanges
        \/ calls' = [calls EXCEPT ![c] = App!NewCall(m)] /\ App!MapChanges
    BY <1>0, <1>1 DEF App!OnInvite, App!Ignore, App!Crash, App!Refused
  <2> QED BY <1>0, <2>2, <2>3 DEF AppKeeps, App!MapChanges
<1>2. CASE App!OnAck(m)
  <2>1. \/ UNCHANGED <<calls, reader>>
        \/ App!SetState(c, "Connected") /\ reader' = [reader EXCEPT ![c] = "polling"]
    BY <1>0, <1>2 DEF App!OnAck, App!Ignore, App!Crash
  <2> QED BY <1>0, <2>1 DEF AppKeeps, App!SetState
<1>3. CASE App!OnBusy(m) \/ App!OnUnavailable(m) \/ App!OnReferAccepted(m)
  <2>1. UNCHANGED reader /\ (UNCHANGED calls \/ \E st : App!SetState(c, st))
    BY <1>0, <1>3 DEF App!OnBusy, App!OnUnavailable, App!OnReferAccepted, App!Announce,
       App!Overwritten, App!Ignore, App!Crash, App!StartsReferring, App!ReaderUnchanged
  <2> QED BY <1>0, <2>1 DEF AppKeeps, App!SetState
<1>4. CASE App!OnBye(m) \/ App!OnOk(m) \/ App!OnNothing(m)
  <2>1. \/ UNCHANGED <<calls, reader>>
        \/ calls[c] # None /\ calls' = [calls EXCEPT ![c] = None] /\ App!MapChanges
    BY <1>0, <1>4 DEF App!OnBye, App!OnOk, App!OnNothing, App!EndCall, App!HasCall, App!Ignore
  <2>2. calls[c] # None => phone[c] # "idle"
    BY DEF GuidedCall, InTime
  <2> QED BY <1>0, <2>1, <2>2 DEF AppKeeps, App!MapChanges
<1> QED BY <1>1, <1>2, <1>3, <1>4 DEF App!Receive

\* The receiver sleeps in OnReferAccepted only once it has set the state.
LEMMA ReceiveRedirects ==
  ASSUME Kept, NEW c \in CallIds, NEW m, Taken(c, m), App!Receive(m)
  PROVE  Redirecting'
<1>0. m.callID = c /\ AppKeeps /\ fault' = "none" /\ rx.at = "idle"
  BY DEF Taken, Of, Kept, Programs, App!Receive, App!Idle
<1>1. CASE App!OnInvite(m) \/ App!OnAck(m)
  <2>1. rx' = rx
    BY <1>1 DEF App!OnInvite, App!OnAck, App!Ignore, App!Crash, App!Refused
  <2> QED BY <1>0, <2>1 DEF Redirecting
<1>2. CASE App!OnBusy(m) \/ App!OnUnavailable(m)
  <2>1. rx' = rx \/ rx'.at = "announcing"
    BY <1>2 DEF App!OnBusy, App!OnUnavailable, App!Announce, App!Overwritten, App!Ignore, App!Crash,
       App!Busy
  <2> QED BY <1>0, <2>1 DEF Redirecting
<1>3. CASE App!OnReferAccepted(m)
  <2>1. \/ rx' = rx
        \/ /\ rx' = [at |-> "redirecting", call |-> c] /\ calls[c] # None
           /\ App!SetState(c, "Referring")
    BY <1>0, <1>3 DEF App!OnReferAccepted, App!Overwritten, App!Ignore, App!Crash, App!Busy,
       App!StartsReferring, App!HasCall
  <2>2. ASSUME rx' = [at |-> "redirecting", call |-> c], calls[c] # None, App!SetState(c, "Referring")
        PROVE  Redirecting'
    <3>1. calls[c] \in App!CallSession /\ None \notin App!CallSession
      BY <1>0, <2>2, NoSessionAssumption DEF AppKeeps, OrNone
    <3>2. calls'[c] = [calls[c] EXCEPT !.state = "Referring"]
      BY <1>0, <2>2 DEF AppKeeps, App!SetState
    <3>3. calls'[c] \in App!CallSession /\ calls'[c].state = "Referring"
      BY <3>1, <3>2 DEF App!CallSession, App!CallStates
    <3> QED BY <2>2, <3>1, <3>3 DEF Redirecting
  <2> QED BY <1>0, <2>1, <2>2 DEF Redirecting
<1>4. CASE App!OnBye(m) \/ App!OnOk(m) \/ App!OnNothing(m)
  <2>1. rx' = rx \/ rx'.at = "joining"
    BY <1>4 DEF App!OnBye, App!OnOk, App!OnNothing, App!EndCall, App!Ignore, App!StopReadDTMF, App!Busy
  <2> QED BY <1>0, <2>1 DEF Redirecting
<1> QED BY <1>1, <1>2, <1>3, <1>4 DEF App!Receive

\* A datagram that comes to the IVR.
LEMMA ReceiveTakes ==
  ASSUME Kept, Usual, IvrReceives, fault' = "none"
  PROVE  Kept' /\ \E c \in CallIds, m \in Datagram : Taken(c, m) /\ App!Receive(m)
<1>1. PICK m \in Datagram, c \in CallIds :
        /\ downlink[Ivr] # <<>> /\ m = Head(downlink[Ivr])
        /\ m \in In(downlink[Ivr]) /\ m.callID = c /\ App!Receive(m) /\ IvrDoes(c)
  BY IvrReceivesDoes
<1>2. Ivr \in Numbers /\ Kept'
  BY IvrReceivesDoes DEF Numbers
<1>3. m \in Falls(c, Ivr) /\ Hears(c, Ivr, m) /\ m \in Of(c)
  BY <1>1, <1>2 DEF Usual, UsualOf, Falls, Kept, Down, Falling
<1>4. downlink' = [downlink EXCEPT ![Ivr] = Tail(@)] /\ uplink' = Delivered(uplink)
  BY DEF IvrReceives
<1>5. Taken(c, m)
  BY <1>1, <1>3, <1>4 DEF Taken, IvrTurns, Listening
<1> QED BY <1>1, <1>2, <1>5

\* The IVR takes in a datagram.
LEMMA ReceiveGuided ==
  ASSUME Kept, Usual, Guided, IvrReceives, fault' = "none"
  PROVE  Guided'
<1>1. PICK c \in CallIds, m \in Datagram : Taken(c, m) /\ App!Receive(m)
  BY ReceiveTakes
<1>2. Kept' /\ GuidedCall(c)
  BY ReceiveTakes DEF Guided
<1>3. GuidedCall(c)'
  BY <1>1, <1>2, InviteGuided, AckGuided, OutcomeGuided, ClosingGuided DEF App!Receive
<1>4. ASSUME NEW d \in CallIds \ {c}
      PROVE  GuidedCall(d)'
  <2>1. /\ calls'[d] = calls[d]
        /\ \/ reader'[d] = reader[d]
           \/ reader[d] = "event" /\ reader'[d] = "raced" /\ phone[c] # "idle"
    BY <1>1, <1>2, ReceiveApart
  <2>2. IvrTurns(c) /\ Head(downlink[Ivr]).callID = c
    BY <1>1 DEF Taken, Of
  <2> QED BY <1>2, <2>1, <2>2, IvrOthers DEF Guided
<1> QED BY <1>1, <1>3, <1>4, ReceiveRedirects DEF Guided
-----------------------------------------------------------------------------
\* A call that the step does not change.
LEMMA SameCall ==
  ASSUME Kept, Kept', NEW c \in CallIds, IvrTurns(c), UNCHANGED downlink, GuidedCall(c), Idles(c),
         calls'[c] = calls[c], ReaderGoes(c)
  PROVE  GuidedCall(c)'
<1>1. CallGoes(c)
  BY DEF CallGoes
<1>2. Asked(c) => Asked(c)'
  BY <1>1, AskedStays
<1> QED BY <1>1, <1>2, IvrStays

\* What it says on its own, but a REFER, leads nothing.
LEMMA VoiceIdles ==
  ASSUME NEW c \in CallIds, NEW x, sent' = <<x>>, Voiced(c, x), x.type = "BYE"
  PROVE  Idles(c)
<1>1. ~Leads(c, x) /\ Plain(c, x)
  BY DEF Voiced, Leads, Opens, Plain
<1> QED BY <1>1 DEF Idles

\* The receiver wakes up.
LEMMA WakeGuided ==
  ASSUME Kept, Told, Usual, Guided, IvrWakes, fault' = "none"
  PROVE  Guided'
<1>1. PICK c \in CallIds : c = rx.call /\ IvrDoes(c)
  BY IvrWakesDoes
<1>2. /\ Kept' /\ AppKeeps /\ OwnCalls /\ RefersAgents(c) /\ KnownCaller(c)
      /\ uplink' = Delivered(uplink) /\ UNCHANGED downlink
      /\ App!Announced \/ App!Redirected \/ App!Joined
  BY IvrWakesDoes DEF Kept, Programs, Told, ToldOf, Usual, UsualOf, IvrWakes
<1>3. IvrTurns(c)
  BY <1>1, <1>2 DEF IvrTurns, Listening
<1>4. Idles(c)
  <2>1. CASE sent' = <<>>
    BY <2>1 DEF Idles
  <2>2. CASE sent' # <<>>
    <3>1. PICK x : sent' = <<x>> /\ Voiced(c, x) /\ (App!MakeRefer(c) \/ x.type = "BYE")
      BY <1>1, <1>2, <2>2, VoiceSends
    <3>2. ~App!MakeRefer(c)
      <4>1. App!MakeRefer(c) => rx' = rx /\ reader[c] = "refer" /\ reader'[c] = "polling"
        BY <1>2 DEF App!MakeRefer, App!Goto, AppKeeps
      <4>2. CASE App!Announced
        BY <4>1, <4>2 DEF App!Announced
      <4>3. CASE App!Redirected
        BY <4>1, <4>3 DEF App!Redirected, App!Overwritten, App!Crash, App!ReaderUnchanged
      <4>4. CASE App!Joined
        BY <1>1, <4>1, <4>4 DEF App!Joined
      <4> QED BY <1>2, <4>2, <4>3, <4>4
    <3> QED BY <3>1, <3>2, VoiceIdles
  <2> QED BY <2>1, <2>2
<1>5. /\ UNCHANGED calls /\ \A d \in CallIds \ {c} : reader'[d] = reader[d]
      /\ reader'[c] = reader[c] \/ (reader[c] \in {"none", "exited"} /\ reader'[c] = "none")
      /\ rx'.at # "redirecting"
  <2>1. CASE App!Announced
    BY <1>1, <2>1 DEF App!Announced, App!StopReadDTMF, App!Busy
  <2>2. CASE App!Redirected
    BY <1>1, <2>2 DEF App!Redirected, App!Overwritten, App!Crash, App!ReaderUnchanged, App!Idle
  <2>3. CASE App!Joined
    BY <1>1, <1>2, <2>3 DEF App!Joined, App!Idle, AppKeeps
  <2> QED BY <1>2, <2>1, <2>2, <2>3
<1>6. ReaderGoes(c)
  BY <1>5 DEF ReaderGoes, Resting, Silent
<1>7. GuidedCall(c)'
  BY <1>2, <1>3, <1>4, <1>5, <1>6, SameCall DEF Guided
<1>8. \A d \in CallIds \ {c} : GuidedCall(d)'
  BY <1>2, <1>3, <1>5, IvrOthers DEF Guided
<1>9. Redirecting'
  BY <1>5 DEF Redirecting
<1> QED BY <1>7, <1>8, <1>9 DEF Guided
-----------------------------------------------------------------------------
\* A call is free if no datagram of it leads it on.
LEMMA FreeIs ==
  ASSUME NEW c, \A n \in Numbers : \A m \in Rises(c, n) \cup Falls(c, n) : ~Leads(c, m)
  PROVE  Free(c)
<1>1. \A n \in Numbers : Quiet(c, uplink[n]) /\ Quiet(c, downlink[n])
  BY DEF Quiet, Rises, Falls, Leads
<1> QED BY <1>1, LinkIs DEF Free

\* Nothing leads the call on, and nothing is said.
LEMMA FreeStays ==
  ASSUME Kept, Kept', NEW c \in CallIds, IvrTurns(c), UNCHANGED downlink, GuidedCall(c), sent' = <<>>,
         Free(c), ~Waiting(c), \A m \in Falls(c, Ivr) : m.cseq # "REFER", calls'[c] = calls[c],
         reader'[c] # "raced", calls[c] = None \/ calls[c].state = "Connected" \/ Silent(c)',
         reader'[c] = "refer" => Agentless(c)
  PROVE  GuidedCall(c)'
<1>0. sent' \in Seq({}) /\ {} \in SUBSET Datagram /\ c \in Numbers /\ Ivr \in Numbers
      /\ UNCHANGED <<serverVars, phoneVars>> /\ In(sent') = {}
  BY PartyType, InNone DEF IvrTurns, IvrDoes, Numbers
<1>1. Lone(c)' /\ Free(c)'
  BY <1>0, IvrLinks, NoLead DEF GuidedCall
<1>2. \A k \in Numbers : Falls(c, k)' \subseteq Falls(c, k) /\ Rises(c, k)' \subseteq Rises(c, k)
  BY <1>0, IvrLinks
<1>3. Agentless(c) => Agentless(c)'
  <2>1. OnlyPlain(c) => OnlyPlain(c)'
    BY <1>2, PlainKept
  <2> QED BY <1>0, <2>1 DEF Agentless, PlainSession, phoneVars, serverVars
<1>4. Agentless(c)' \/ Asked(c)'
  <2>1. CallGoes(c)
    BY DEF CallGoes
  <2>2. Asked(c) => Asked(c)'
    BY <2>1, AskedStays
  <2> QED BY <1>3, <2>2 DEF GuidedCall
<1>5. ~Waiting(c)' /\ phone'[c] # "idle"
  BY <1>0 DEF Waiting, phoneVars
<1>6. Waiting(c)' \/ ~Free(c)' \/ reader'[c] = "refer" => Agentless(c)'
  BY <1>1, <1>3, <1>5
<1>7. ASSUME NEW k \in Numbers, NEW y \in Rises(c, k)' \cup Falls(c, k)'
      PROVE  Guides(c, y)'
  <2>1. ~Leads(c, y)
    BY <1>1, FreeLeadsNot
  <2>2. y.callID = c
    BY DEF Rises, Falls
  <2> QED BY <2>1, <2>2 DEF Leads, Guides, Opens
<1>8. \A y \in Falls(c, Ivr)' : y.cseq # "REFER"
  BY <1>0, <1>2
<1>9. InTime(c)'
  BY <1>1, <1>5, <1>8 DEF InTime
<1>a. \A y \in Falls(c, Ivr)' : Settles(c, y)'
  BY <1>8 DEF Settles
<1> QED BY <1>1, <1>4, <1>6, <1>7, <1>9, <1>a DEF GuidedCall

\* A key is acted on: nothing has been heard or said of a referral.
LEMMA ChooseGuided ==
  ASSUME Kept, Kept', NEW c \in CallIds, IvrTurns(c), UNCHANGED <<downlink, calls>>, GuidedCall(c),
         sent' = <<>>, reader[c] \in {"event", "raced"}, calls[c] # None, calls[c].state = "Connected",
         reader'[c] \in {"replay", "refuse", "refer"}
  PROVE  GuidedCall(c)'
<1>1. \A m \in Falls(c, Ivr) : m.cseq # "REFER"
  BY DEF GuidedCall, Settles, Resting
<1>2. Free(c)
  <2>1. \A n \in Numbers : \A m \in Rises(c, n) \cup Falls(c, n) : ~Leads(c, m)
    BY DEF GuidedCall, Guides, Resting, Leads
  <2> QED BY <2>1, FreeIs
<1>3. Agentless(c)
  BY <1>1 DEF GuidedCall, Asked
<1>4. ~Waiting(c)
  BY DEF GuidedCall, InTime
<1> QED BY <1>1, <1>2, <1>3, <1>4, FreeStays

\* The REFER is sent.
LEMMA MakeReferGuided ==
  ASSUME Kept, Kept', NEW c \in CallIds, IvrTurns(c), UNCHANGED <<downlink, calls>>, GuidedCall(c),
         uplink' = Delivered(uplink), NEW x, sent' = <<x>>, Voiced(c, x),
         reader[c] = "refer", reader'[c] = "polling"
  PROVE  GuidedCall(c)'
<1>0. /\ sent' \in Seq(Datagram) /\ c \in Numbers /\ Ivr \in Numbers /\ c # Ivr
      /\ UNCHANGED <<serverVars, phoneVars>> /\ In(sent') = {x}
      /\ x \in Datagram /\ x.peer = Ivr
  <2>1. sent' \in Seq(Voice(c)) /\ sent' \in Seq(Datagram)
    BY DEF IvrTurns, IvrDoes, Attends, Answers, Kept, Programs, Outcome
  <2>2. In(sent') \subseteq Voice(c) /\ In(sent') = {x}
    BY <2>1, InType, InOne
  <2> QED BY <2>1, <2>2, PartyType DEF IvrTurns, IvrDoes, Numbers, Voice, Of
<1>1. Free(c) /\ (\A m \in Falls(c, Ivr) : m.cseq # "REFER") /\ ~Waiting(c) /\ Agentless(c)
  BY DEF GuidedCall, InTime
<1>2. \A k \in Numbers : Quiet(c, uplink[k]) /\ Quiet(c, downlink[k])
  BY <1>1, LinkIs DEF Free
<1>3. Lone(c)'
  BY <1>0, <1>2, IvrLeads
<1>4. /\ \A k \in Numbers : Falls(c, k)' \subseteq Falls(c, k)
      /\ \A k \in Numbers : \A y \in Rises(c, k)' : y \in Rises(c, k) \/ y = x
  <2>1. /\ \A k \in Numbers : Falls(c, k)' \subseteq Falls(c, k)
        /\ \A k \in Numbers : \A y \in Rises(c, k)' : y \in Rises(c, k) \/ y \in In(sent')
    BY <1>0, IvrLinks
  <2> QED BY <1>0, <2>1
<1>5. Agentless(c)'
  <2>1. Plain(c, x)
    BY DEF Voiced, Plain
  <2>2. OnlyPlain(c)'
    BY <1>1, <1>4, <2>1, PlainKept DEF Agentless
  <2> QED BY <1>0, <1>1, <2>2 DEF Agentless, PlainSession, serverVars, phoneVars
<1>6. ~Waiting(c)' /\ phone'[c] # "idle"
  BY <1>0, <1>1 DEF Waiting, phoneVars
<1>7. ASSUME NEW k \in Numbers, NEW y \in Rises(c, k)' \cup Falls(c, k)'
      PROVE  Guides(c, y)'
  <2>1. y \in Rises(c, k) \cup Falls(c, k) \/ y = x
    BY <1>4
  <2>2. CASE y = x
    BY <1>0, <1>6, <2>2 DEF Voiced, Guides, Opens, Resting
  <2>3. CASE y \in Rises(c, k) \cup Falls(c, k)
    <3>1. ~Leads(c, y) /\ y.callID = c
      BY <1>2, <2>3 DEF Rises, Falls, Quiet
    <3> QED BY <3>1 DEF Leads, Guides, Opens
  <2> QED BY <2>1, <2>2, <2>3
<1>8. \A y \in Falls(c, Ivr)' : Settles(c, y)'
  BY <1>0, <1>1, <1>4 DEF Settles
<1>9. InTime(c)'
  BY <1>6 DEF InTime, Silent, Resting
<1> QED BY <1>3, <1>5, <1>7, <1>8, <1>9 DEF GuidedCall

\* A reader goes on.
LEMMA ReaderGuided ==
  ASSUME Kept, Told, Usual, Guided, NEW c \in CallIds, ReaderSteps(c), fault' = "none"
  PROVE  Guided'
<1>1. /\ Kept' /\ IvrDoes(c) /\ AppKeeps /\ OwnCalls /\ RefersAgents(c) /\ KnownCaller(c)
      /\ uplink' = Delivered(uplink) /\ UNCHANGED downlink /\ App!ReaderStep(c) /\ GuidedCall(c)
  BY ReaderStepsDoes DEF Kept, Programs, Told, ToldOf, Usual, UsualOf, ReaderSteps, Guided
<1>2. IvrTurns(c)
  BY <1>1 DEF IvrTurns, Listening
<1>g. \A at : App!Goto(c, at) => /\ reader'[c] = at
                                 /\ \A d \in CallIds \ {c} : reader'[d] = reader[d]
  BY <1>1 DEF AppKeeps, App!Goto
<1>3. /\ UNCHANGED <<calls, rx>> /\ \A d \in CallIds \ {c} : reader'[d] = reader[d]
      /\ \/ sent' = <<>> /\ reader[c] \in {"event", "raced"} /\ reader'[c] = "polling"
         \/ /\ sent' = <<>> /\ reader[c] \in {"event", "raced"} /\ calls[c] # None
            /\ calls[c].state = "Connected" /\ reader'[c] \in {"replay", "refuse", "refer"}
         \/ App!MakeRefer(c) /\ reader[c] = "refer" /\ reader'[c] = "polling" /\ sent' # <<>>
         \/ sent' = <<>> /\ reader[c] \in {"replay", "refuse", "invalid", "restore"}
            /\ reader'[c] \in {"polling", "invalid", "restore"}
         \/ sent' = <<>> /\ reader[c] = "polling" /\ reader'[c] = "exited"
  <2>1. CASE App!OnDTMFEvent(c)
    <3>1. ~App!LookupFails(c)
      BY DEF App!LookupFails, App!Crash
    <3>2. /\ reader[c] \in {"event", "raced"} /\ sent' = <<>> /\ UNCHANGED <<calls, rx>>
          /\ \/ App!StillConnected(c) /\ App!Choose(c)
             \/ App!Goto(c, "polling")
      BY <2>1, <3>1 DEF App!OnDTMFEvent
    <3> QED BY <1>g, <3>2 DEF App!StillConnected, App!HasCall, App!Choose
  <2>2. CASE App!MakeRefer(c)
    <3>1. sent' # <<>>
      BY <2>2 DEF App!MakeRefer, App!Send
    <3> QED BY <1>g, <2>2, <3>1 DEF App!MakeRefer
  <2>3. CASE App!ReplayGuide(c) \/ App!InvalidChoose(c) \/ App!InvalidChosen(c) \/ App!RestoreGuide(c)
    BY <1>g, <2>3 DEF App!ReplayGuide, App!InvalidChoose, App!InvalidChosen, App!RestoreGuide,
       App!Replays
  <2>4. CASE App!Exit(c)
    BY <1>g, <2>4 DEF App!Exit
  <2> QED BY <1>1, <2>1, <2>2, <2>3, <2>4 DEF App!ReaderStep
<1>4. GuidedCall(c)'
  <2>1. CASE App!MakeRefer(c) /\ reader[c] = "refer" /\ reader'[c] = "polling" /\ sent' # <<>>
    <3>1. PICK x : sent' = <<x>> /\ Voiced(c, x)
      BY <1>1, <2>1, VoiceSends
    <3> QED BY <1>1, <1>2, <1>3, <2>1, <3>1, MakeReferGuided
  <2>2. CASE /\ sent' = <<>> /\ reader[c] \in {"event", "raced"} /\ calls[c] # None
             /\ calls[c].state = "Connected" /\ reader'[c] \in {"replay", "refuse", "refer"}
    BY <1>1, <1>2, <1>3, <2>2, ChooseGuided
  <2>3. CASE /\ sent' = <<>>
             /\ \/ reader[c] \in {"event", "raced"} /\ reader'[c] = "polling"
                \/ reader[c] \in {"replay", "refuse", "invalid", "restore"}
                   /\ reader'[c] \in {"polling", "invalid", "restore"}
                \/ reader[c] = "polling" /\ reader'[c] = "exited"
    <3>1. ReaderGoes(c) /\ Idles(c)
      BY <2>3 DEF ReaderGoes, Resting, Silent, Idles
    <3> QED BY <1>1, <1>2, <1>3, <3>1, SameCall
  <2> QED BY <1>3, <2>1, <2>2, <2>3
<1>5. \A d \in CallIds \ {c} : GuidedCall(d)'
  BY <1>1, <1>2, <1>3, IvrOthers DEF Guided
<1>6. Redirecting'
  BY <1>3 DEF Redirecting, Guided
<1> QED BY <1>4, <1>5, <1>6 DEF Guided

\* A key is pressed, while no referral is on its way.
LEMMA KeyGuided ==
  ASSUME ~Hasty, Kept, Usual, Guided, NEW c \in CallIds, PressKey(c)
  PROVE  Guided'
<1>1. /\ Kept' /\ IvrDoes(c) /\ GuidedCall(c) /\ UsualOf(c) /\ AppKeeps /\ ~Referring(c)
      /\ UNCHANGED <<uplink, downlink, calls, rx>> /\ reader[c] = "polling" /\ sent' = <<>>
      /\ phone[c] = "talking" /\ App!Goto(c, "event")
  BY PressKeyDoes DEF Kept, Programs, Usual, PressKey, Guided, App!ReadDTMF, netVars
<1>2. IvrTurns(c)
  BY <1>1 DEF IvrTurns, Listening
<1>3. reader'[c] = "event" /\ \A d \in CallIds \ {c} : reader'[d] = reader[d]
  BY <1>1 DEF AppKeeps, App!Goto
<1>4. /\ \A m \in In(uplink[Ivr]) : m.type # "REFER"
      /\ \A m \in In(downlink[Ivr]) : m.cseq # "REFER"
  <2>1. uplink[Ivr] \in Seq(Datagram) /\ downlink[Ivr] \in Seq(Datagram)
    BY DEF Kept, Up, Down, Numbers
  <2>2. DOMAIN uplink[Ivr] = 1 .. Len(uplink[Ivr]) /\ DOMAIN downlink[Ivr] = 1 .. Len(downlink[Ivr])
    BY <2>1
  <2> QED BY <1>1, <2>2 DEF Referring, In
<1>5. Free(c)
  <2>1. \A n \in Numbers : \A m \in Rises(c, n) \cup Falls(c, n) : m.type # "REFER"
    BY <1>1, <1>4 DEF UsualOf, Utters, Hears, Rises
  <2>2. \A n \in Numbers : \A m \in Rises(c, n) \cup Falls(c, n) : ~Leads(c, m)
    BY <1>1, <2>1 DEF GuidedCall, Guides, Leads
  <2> QED BY <2>2, FreeIs
<1>6. ~Waiting(c) /\ \A m \in Falls(c, Ivr) : m.cseq # "REFER"
  BY <1>1, <1>4 DEF Waiting, Falls
<1>7. GuidedCall(c)'
  <2>1. Silent(c)'
    BY <1>3 DEF Silent
  <2> QED BY <1>1, <1>2, <1>3, <1>5, <1>6, <2>1, FreeStays
<1>8. \A d \in CallIds \ {c} : GuidedCall(d)'
  BY <1>1, <1>2, <1>3, IvrOthers DEF Guided
<1>9. Redirecting'
  BY <1>1 DEF Redirecting, Guided
<1> QED BY <1>7, <1>8, <1>9 DEF Guided
-----------------------------------------------------------------------------
(***************************************************************************)
(* The phones leave a call guided.                                         *)
(***************************************************************************)
\* The links in a step of a phone.
LEMMA PhoneTurns ==
  ASSUME Kept, Kept', NEW u \in Numbers, NEW S \in SUBSET Datagram, NEW ms \in Seq(S),
         Sends(u, ms), Listening(u)
  PROVE  /\ Links /\ Links'
         /\ \A k \in Numbers : Grows(uplink[k], uplink'[k], S) /\ Grows(downlink[k], downlink'[k], S)
         /\ \A k \in Numbers \ {u} : uplink'[k] = uplink[k] /\ downlink'[k] = downlink[k]
         /\ uplink'[u] = uplink[u] \o ms
         /\ \A k \in Numbers : In(downlink'[k]) \subseteq In(downlink[k])
         /\ In(uplink'[u]) = In(uplink[u]) \cup In(ms) /\ In(ms) \subseteq S
<1>1. Links /\ Links' /\ ms \in Seq(Datagram) /\ <<>> \in Seq(S)
  BY DEF Kept, Up, Down, Links
<1>2. /\ uplink'[u] = uplink[u] \o ms
      /\ \A k \in Numbers \ {u} : uplink'[k] = uplink[k] /\ downlink'[k] = downlink[k]
      /\ downlink'[u] = downlink[u] \/ (downlink[u] # <<>> /\ downlink'[u] = Tail(downlink[u]))
  BY <1>1 DEF Sends, Listening, Links
<1>3. \A k \in Numbers : uplink[k] \in Seq(Datagram) /\ downlink[k] \in Seq(Datagram)
  BY <1>1 DEF Links
<1>4. In(uplink[u] \o ms) = In(uplink[u]) \cup In(ms) /\ In(ms) \subseteq S
  BY <1>1, <1>3, InConcat, InType
<1>5. ASSUME NEW k \in Numbers
      PROVE  /\ Grows(uplink[k], uplink'[k], S) /\ Grows(downlink[k], downlink'[k], S)
             /\ In(downlink'[k]) \subseteq In(downlink[k])
  <2>1. uplink[k] \in Seq(Datagram) /\ downlink[k] \in Seq(Datagram)
    BY <1>3
  <2>2. Grows(uplink[k], uplink'[k], S)
    <3>1. CASE k = u
      BY <1>2, <3>1 DEF Grows
    <3>2. CASE k # u
      <4>1. uplink'[k] = uplink[k] \o <<>>
        BY <1>2, <2>1, <3>2
      <4> QED BY <1>1, <4>1 DEF Grows
    <3> QED BY <3>1, <3>2
  <2>3. CASE downlink'[k] = downlink[k]
    <3>1. downlink'[k] = downlink[k] \o <<>>
      BY <2>1, <2>3
    <3> QED BY <1>1, <2>2, <2>3, <3>1 DEF Grows
  <2>4. CASE k = u /\ downlink[k] # <<>> /\ downlink'[k] = Tail(downlink[k])
    <3>1. Tail(downlink[k]) \in Seq(Datagram) /\ In(Tail(downlink[k])) \subseteq In(downlink[k])
      BY <2>1, <2>4, InTail
    <3>2. downlink'[k] = Tail(downlink[k]) \o <<>>
      BY <2>4, <3>1
    <3> QED BY <1>1, <2>2, <2>4, <3>1, <3>2 DEF Grows
  <2> QED BY <1>2, <2>3, <2>4
<1> QED BY <1>1, <1>2, <1>4, <1>5

\* A call that the step of a phone does not lead on.
LEMMA PhoneStays ==
  ASSUME Kept, Kept', NEW u \in Numbers \ {Ivr}, NEW S \in SUBSET Datagram, NEW ms \in Seq(S),
         Sends(u, ms), Listening(u), Apart, NEW d \in CallIds, GuidedCall(d),
         \A x \in S : ~Leads(d, x), Agentless(d) => \A x \in In(ms) : x.callID = d => Plain(d, x),
         Waiting(d)' <=> Waiting(d), phone'[d] = "idle" => phone[d] = "idle",
         Others(d) => Others(d)', Agentless(d) => \A a \in Agents : dialog'[a] # d
  PROVE  GuidedCall(d)'
<1>1. Lone(d)' /\ (Free(d) => Free(d)')
  BY PhoneTurns, NoLead DEF GuidedCall
<1>t. /\ \A k \in Numbers \ {u} : uplink'[k] = uplink[k]
      /\ In(uplink'[u]) = In(uplink[u]) \cup In(ms)
      /\ \A k \in Numbers : In(downlink'[k]) \subseteq In(downlink[k])
      /\ In(ms) \subseteq S
  BY PhoneTurns
<1>2. \A k \in Numbers : /\ \A x \in Rises(d, k)' : x \in Rises(d, k) \/ (x \in In(ms) /\ x.callID = d)
                         /\ Falls(d, k)' \subseteq Falls(d, k)
  BY <1>t DEF Rises, Falls
<1>3. In(ms) \subseteq S
  BY <1>t
<1>4. LinksGo(d)
  BY <1>2, <1>3 DEF LinksGo
<1>5. Agentless(d) => Agentless(d)'
  <2>1. Agentless(d) => OnlyPlain(d)'
    BY <1>2, PlainKept DEF Agentless
  <2> QED BY <2>1 DEF Agentless, PlainSession, Apart, serverVars
<1>6. Asked(d) => Asked(d)'
  <2>1. Falls(d, Ivr)' = Falls(d, Ivr)
    BY PhoneTurns DEF Falls, Numbers
  <2> QED BY <2>1 DEF Asked, Apart, ivrVars
<1>7. ReaderGoes(d) /\ CallGoes(d)
  BY DEF ReaderGoes, CallGoes, Resting, Silent, Apart, ivrVars
<1> QED BY <1>1, <1>4, <1>5, <1>6, <1>7, GuidedStays

\* What the caller says leaves the other calls as they are.
LEMMA CallerOthers ==
  ASSUME Kept, Kept', NEW c \in CallIds, NEW ms \in Seq(Of(c)), Sends(c, ms), Listening(c), Apart,
         UNCHANGED dialog, \A v \in Users \ {c} : phone'[v] = phone[v],
         phone[c] # "idle" => phone'[c] # "idle", NEW d \in CallIds \ {c}, GuidedCall(d)
  PROVE  GuidedCall(d)'
<1>0. c \in Numbers \ {Ivr} /\ Of(c) \in SUBSET Datagram /\ CallIds \subseteq Users
  BY CallFlowAssumption, PartyType DEF Of
<1>1. \A x \in Of(c) : ~Leads(d, x) /\ x.callID # d
  BY DEF Of, Leads
<1>2. In(ms) \subseteq Of(c)
  BY InType
<1>3. phone'[d] = phone[d] /\ (Waiting(d)' <=> Waiting(d))
  BY <1>0 DEF Waiting
<1>4. Others(d) => Others(d)'
  BY <1>0 DEF Others
<1> QED BY <1>0, <1>1, <1>2, <1>3, <1>4, PhoneStays DEF Agentless

\* The INVITE of the caller, field by field.
LEMMA InvitationIs ==
  ASSUME NEW c \in CallIds
  PROVE  /\ Invitation(c) \in Of(c) /\ Invitation(c).type = "INVITE"
         /\ Invitation(c).cseq = "INVITE" /\ Invitation(c).from = c /\ Invitation(c).to = Ivr
<1> DEFINE x == Own("INVITE", c, c, Ivr)
<1>1. x = Made("INVITE", "INVITE", c, c, Ivr, c, None, c)
  BY OwnFields
<1>2. "INVITE" \in Types /\ "INVITE" \in Methods /\ c \in OrNone(Numbers) /\ None \in OrNone(Numbers)
  BY PartyType DEF Types, Methods, OrNone
<1> HIDE DEF x
<1>3. x \in Of(c) /\ x.type = "INVITE" /\ x.cseq = "INVITE" /\ x.from = c /\ x.to = Ivr
  <2>1. x \in Of(c)
    BY <1>1, <1>2, MadeOf, PartyType
  <2> QED BY <1>1, <2>1, MadeIs
<1>4. Invitation(c) = [x EXCEPT !.sdp = c]
  BY DEF Invitation, x
<1> QED BY <1>2, <1>3, <1>4 DEF Of, Datagram

\* The caller calls.
LEMMA DialGuided ==
  ASSUME Kept, Guided, NEW c \in CallIds, Dial(c)
  PROVE  Guided'
<1> DEFINE x == Invitation(c)
<1>1. /\ Kept' /\ Apart /\ UNCHANGED <<downlink, dialog>>
      /\ phone[c] = "idle" /\ phone'[c] = "calling"
      /\ \A v \in Users \ {c} : phone'[v] = phone[v]
      /\ uplink' = [uplink EXCEPT ![c] = @ \o <<x>>] /\ GuidedCall(c)
  BY DialDoes DEF Guided
<1>2. x \in Of(c) /\ x.type = "INVITE" /\ x.cseq = "INVITE" /\ x.from = c /\ x.to = Ivr
  BY InvitationIs
<1> HIDE DEF x
<1>3. /\ Sends(c, <<x>>) /\ Listening(c) /\ <<x>> \in Seq(Of(c)) /\ c \in Numbers \ {Ivr}
      /\ In(<<x>>) = {x} /\ x \in Datagram /\ Of(c) \in SUBSET Datagram
      /\ UNCHANGED <<serverVars, ivrVars>>
  BY <1>1, <1>2, PartyType, InOne DEF Sends, Apart, Listening, Of
<1>4. Waiting(c) /\ Waiting(c)' /\ reader[c] = "none" /\ Agentless(c) /\ calls[c] = None
  BY <1>1 DEF Waiting, GuidedCall, InTime
<1>5. \A k \in Numbers : Quiet(c, uplink[k]) /\ Quiet(c, downlink[k])
  <2>1. \A k \in Numbers : \A m \in Rises(c, k) \cup Falls(c, k) : ~Leads(c, m)
    BY <1>1, <1>4 DEF GuidedCall, Guides, Leads
  <2> QED BY <2>1 DEF Quiet, Rises, Falls, Leads
<1>6. /\ Links /\ Links' /\ uplink'[c] = uplink[c] \o <<x>>
      /\ \A k \in Numbers \ {c} : uplink'[k] = uplink[k]
      /\ \A k \in Numbers : downlink'[k] = downlink[k]
      /\ In(uplink'[c]) = In(uplink[c]) \cup {x}
  <2>1. PICK ms \in {<<x>>}, S \in {Of(c)} : TRUE
    OBVIOUS
  <2>2. ms \in Seq(S) /\ S \in SUBSET Datagram /\ Sends(c, ms) /\ In(ms) = {x}
    BY <1>3, <2>1
  <2>3. /\ Links /\ Links' /\ uplink'[c] = uplink[c] \o ms
        /\ \A k \in Numbers \ {c} : uplink'[k] = uplink[k]
        /\ In(uplink'[c]) = In(uplink[c]) \cup In(ms)
    <3>1. Kept' /\ Listening(c) /\ c \in Numbers
      BY <1>1, <1>3
    <3> QED BY <2>2, <3>1, PhoneTurns
  <2> QED BY <1>1, <2>1, <2>2, <2>3
<1>7. Lone(c)'
  <2>1. PICK q \in {uplink[c]} : TRUE
    OBVIOUS
  <2>2. q \in Seq(Datagram) /\ <<x>> \in Seq(Datagram) /\ Quiet(c, q)
    BY <1>3, <1>5, <1>6, <2>1 DEF Links
  <2>3. Single(c, <<x>>)
    BY DEF Single
  <2>4. Single(c, q \o <<x>>)
    BY <2>2, <2>3, QuietConcat
  <2>5. Single(c, uplink'[c])
    BY <1>6, <2>1, <2>4
  <2> QED BY <1>3, <1>5, <1>6, <2>5, OnlyUp
<1>8. \A k \in Numbers : /\ \A y \in Rises(c, k)' : y \in Rises(c, k) \/ y = x
                         /\ Falls(c, k)' = Falls(c, k)
  BY <1>6 DEF Rises, Falls
<1>9. Agentless(c)'
  <2>1. Plain(c, x)
    BY <1>2 DEF Plain
  <2>2. OnlyPlain(c)'
    BY <1>4, <1>8, <2>1, PlainKept DEF Agentless
  <2> QED BY <1>1, <1>3, <1>4, <2>2 DEF Agentless, PlainSession, serverVars
<1>a. reader'[c] = "none" /\ calls'[c] = None
  BY <1>3, <1>4 DEF ivrVars
<1>b. ASSUME NEW k \in Numbers, NEW y \in Rises(c, k)' \cup Falls(c, k)'
      PROVE  Guides(c, y)'
  <2>1. y \in Rises(c, k) \cup Falls(c, k) \/ y = x
    BY <1>8
  <2>2. CASE y = x
    BY <1>1, <1>2, <1>4, <1>a, <2>2 DEF Guides, Opens
  <2>3. CASE y \in Rises(c, k) \cup Falls(c, k)
    <3>1. ~Leads(c, y) /\ y.callID = c
      BY <1>5, <2>3 DEF Rises, Falls, Quiet
    <3> QED BY <3>1 DEF Leads, Guides, Opens
  <2> QED BY <2>1, <2>2, <2>3
<1>c. ASSUME NEW y \in Falls(c, Ivr)'
      PROVE  Settles(c, y)'
  <2>1. Settles(c, y)
    BY <1>1, <1>8 DEF GuidedCall, Numbers
  <2> QED BY <1>4, <2>1 DEF Settles
<1>d. InTime(c)'
  BY <1>1, <1>a DEF InTime
<1>e. GuidedCall(c)'
  BY <1>7, <1>9, <1>b, <1>c, <1>d DEF GuidedCall
<1>f. \A d \in CallIds \ {c} : GuidedCall(d)'
  BY <1>1, <1>3, CallerOthers DEF Guided
<1>g. Redirecting'
  BY <1>3 DEF Guided, Redirecting, ivrVars
<1> QED BY <1>e, <1>f, <1>g DEF Guided

\* An answer comes to the caller.
AnswerComes(c) ==
  /\ downlink[c] # <<>> /\ downlink' = [downlink EXCEPT ![c] = Tail(@)]
  /\ Head(downlink[c]).type = "200" /\ Head(downlink[c]).cseq = "INVITE"

\* It is the IVR's, and the caller, who waits, says ms.
LEMMA AnswerGuided ==
  ASSUME Kept, Kept', NEW c \in CallIds, NEW ms \in Seq(Of(c)), Sends(c, ms), Listening(c), Apart,
         UNCHANGED dialog, GuidedCall(c), Waiting(c), ~Waiting(c)', Single(c, ms),
         \A x \in In(ms) : Plain(c, x) /\ (Leads(c, x) => x.type = "ACK"),
         AnswerComes(c)
  PROVE  GuidedCall(c)'
<1>0. /\ c \in Numbers \ {Ivr} /\ Of(c) \in SUBSET Datagram /\ Links /\ ms \in Seq(Datagram)
      /\ UNCHANGED <<serverVars, ivrVars>>
  BY PartyType DEF Of, Kept, Up, Down, Links, Apart
<1>m. PICK m \in {Head(downlink[c])} : TRUE
  OBVIOUS
<1>1. m \in Falls(c, c) /\ m.type = "200" /\ m.cseq = "INVITE" /\ m \in Of(c)
  <2>1. m \in In(downlink[c])
    BY <1>0, <1>m, InTail DEF Links, AnswerComes
  <2>2. m \in Of(c)
    BY <1>0, <1>m, OwnDownlink DEF Kept, AnswerComes
  <2> QED BY <1>m, <2>1, <2>2 DEF Falls, Of, AnswerComes
<1>2. Agentless(c) /\ reader[c] = "none"
  BY DEF GuidedCall, InTime
<1>3. Leads(c, m)
  <2>1. Plain(c, m)
    BY <1>0, <1>1, <1>2 DEF Agentless, OnlyPlain
  <2> QED BY <1>1, <2>1 DEF Plain, Leads, Opens, Of
<1>4. /\ Quiet(c, Tail(downlink[c])) /\ \A k \in Numbers \ {c} : Quiet(c, downlink[k])
      /\ \A k \in Numbers : Quiet(c, uplink[k])
  BY <1>0, <1>m, <1>3, LeadTaken DEF GuidedCall, AnswerComes
<1>5. /\ Links' /\ uplink'[c] = uplink[c] \o ms
      /\ \A k \in Numbers \ {c} : uplink'[k] = uplink[k]
      /\ \A k \in Numbers : In(downlink'[k]) \subseteq In(downlink[k])
      /\ In(uplink'[c]) = In(uplink[c]) \cup In(ms)
  <2>1. PICK S \in {Of(c)} : TRUE
    OBVIOUS
  <2>2. S \in SUBSET Datagram /\ ms \in Seq(S) /\ c \in Numbers
    BY <1>0, <2>1
  <2> QED BY <2>2, PhoneTurns
<1>6. \A k \in Numbers : Quiet(c, downlink'[k])
  BY <1>0, <1>4 DEF Links, AnswerComes
<1>7. Lone(c)'
  <2>1. PICK q \in {uplink[c]} : TRUE
    OBVIOUS
  <2>2. q \in Seq(Datagram) /\ Quiet(c, q)
    BY <1>0, <1>4, <2>1 DEF Links
  <2>3. Single(c, q \o ms)
    BY <1>0, <2>2, QuietConcat
  <2>4. Single(c, uplink'[c])
    BY <1>5, <2>1, <2>3
  <2> QED BY <1>0, <1>4, <1>5, <1>6, <2>4, OnlyUp
<1>8. \A k \in Numbers : /\ \A y \in Rises(c, k)' : y \in Rises(c, k) \/ y \in In(ms)
                         /\ Falls(c, k)' \subseteq Falls(c, k)
  BY <1>5 DEF Rises, Falls
<1>9. Agentless(c)'
  <2>1. OnlyPlain(c)'
    BY <1>2, <1>8, PlainKept DEF Agentless
  <2> QED BY <1>0, <1>2, <2>1 DEF Agentless, PlainSession, serverVars
<1>a. reader'[c] = "none" /\ calls'[c] = calls[c] /\ phone'[c] # "idle"
  BY <1>0, <1>2 DEF ivrVars, Waiting
<1>b. ASSUME NEW k \in Numbers, NEW y \in Rises(c, k)' \cup Falls(c, k)'
      PROVE  Guides(c, y)'
  <2>1. ~Leads(c, y) \/ y.type = "ACK"
    <3>1. CASE y \in Falls(c, k)'
      BY <1>6, <3>1 DEF Falls, Quiet, Leads, Opens
    <3>2. CASE y \in Rises(c, k)'
      BY <1>4, <1>8, <3>2 DEF Rises, Quiet
    <3> QED BY <3>1, <3>2
  <2>2. y.callID = c
    BY DEF Rises, Falls
  <2> QED BY <1>a, <2>1, <2>2 DEF Leads, Guides, Opens
<1>c. ASSUME NEW y \in Falls(c, Ivr)'
      PROVE  Settles(c, y)'
  <2>1. Settles(c, y)
    BY <1>8 DEF GuidedCall, Numbers
  <2> QED BY <2>1 DEF Settles
<1>d. InTime(c)'
  BY <1>a DEF InTime, Silent, Resting
<1> QED BY <1>7, <1>9, <1>b, <1>c, <1>d DEF GuidedCall

\* A caller's phone.
LEMMA CallerGuided ==
  ASSUME Kept, Usual, Guided, NEW c \in CallIds, CallerActs(c)
  PROVE  Guided'
<1>1. /\ Kept' /\ Apart /\ Listening(c) /\ UNCHANGED dialog
      /\ \A v \in Users \ {c} : phone'[v] = phone[v]
      /\ phone[c] # "idle" => phone'[c] # "idle" /\ GuidedCall(c)
  BY CallerDoes DEF Guided, PhoneDoes
<1>2. /\ ~Waiting(c) => ~Waiting(c)'
      /\ \/ Waiting(c) => Waiting(c)'
         \/ /\ downlink[c] # <<>> /\ downlink' = [downlink EXCEPT ![c] = Tail(@)]
            /\ Head(downlink[c]).type = "200" /\ Head(downlink[c]).cseq = "INVITE"
  BY CallerSends DEF Usual
<1>3. PICK ms : /\ Sends(c, ms)
                /\ \/ ms \in Seq(Shut(c))
                   \/ Answering(c) /\ (ms = <<IvrAck(c)>> \/ ms = <<IvrAck(c), CallersBye(c)>>)
  BY CallerSends DEF Usual
<1>4. /\ c \in Numbers \ {Ivr} /\ Shut(c) \in SUBSET Of(c) /\ Of(c) \in SUBSET Datagram
      /\ CallIds \subseteq Users /\ GuidedCall(c)
  BY PartyType, CallFlowAssumption DEF Of, Shut, Guided
<1>5. PICK y \in {IvrAck(c)}, z \in {CallersBye(c)} : TRUE
  OBVIOUS
<1>6. /\ z \in Shut(c) /\ z \in Of(c) /\ y \in Of(c) /\ Plain(c, y) /\ y.type = "ACK"
  BY <1>4, <1>5, CallersOwn, PartyType
<1>7. ms \in Seq(Of(c))
  <2>1. \A q \in Seq(Shut(c)) : q \in Seq(Of(c))
    BY <1>4
  <2>2. <<y>> \in Seq(Of(c)) /\ <<y, z>> \in Seq(Of(c))
    BY <1>6
  <2> QED BY <1>3, <1>5, <2>1, <2>2
<1>8. \A d \in CallIds \ {c} : GuidedCall(d)'
  BY <1>1, <1>3, <1>7, CallerOthers DEF Guided
<1>9. Others(c) => Others(c)'
  BY <1>1, <1>4 DEF Others
<1>a. Answering(c) => Waiting(c) /\ ~Waiting(c)'
  <2> SUFFICES ASSUME Answering(c) PROVE Waiting(c)
    BY DEF Answering
  <2>m. PICK m \in {Head(downlink[c])} : TRUE
    OBVIOUS
  <2>1. downlink[c] # <<>> /\ m.type = "200" /\ m.cseq = "INVITE" /\ m.to = Ivr
    BY <2>m DEF Answering
  <2>2. m \in Falls(c, c)
    <3>1. m \in Of(c)
      BY <1>4, <2>m, <2>1, OwnDownlink DEF Kept
    <3>2. m \in In(downlink[c])
      BY <1>4, <2>m, <2>1, InTail DEF Kept, Down
    <3> QED BY <3>1, <3>2 DEF Falls, Of
  <2>3. Guides(c, m)
    BY <1>4, <2>2 DEF GuidedCall
  <2> QED BY <2>1, <2>3 DEF Guides, Opens
<1>b. CASE (Waiting(c)' <=> Waiting(c)) /\ ms \in Seq(Shut(c))
  <2>1. In(ms) \subseteq Shut(c)
    BY <1>b, InType
  <2>2. \A x \in Shut(c) : ~Leads(c, x) /\ (OnlyPlain(c) => Plain(c, x))
    BY DEF Shut
  <2>3. phone'[c] = "idle" => phone[c] = "idle"
    BY <1>1
  <2>4. GuidedCall(c)'
    BY <1>1, <1>3, <1>4, <1>9, <1>b, <2>1, <2>2, <2>3, PhoneStays DEF Agentless
  <2>5. Redirecting'
    BY <1>1 DEF Apart, ivrVars, Guided, Redirecting
  <2> QED BY <1>8, <2>4, <2>5 DEF Guided
<1>c. CASE Waiting(c) /\ ~Waiting(c)'
  <2>1. AnswerComes(c)
    BY <1>2, <1>c DEF AnswerComes
  <2>2. OnlyPlain(c)
    BY <1>4, <1>c DEF GuidedCall, Agentless
  <2>3. \A x \in Shut(c) : ~Leads(c, x) /\ Plain(c, x)
    BY <2>2 DEF Shut
  <2>4. Single(c, ms) /\ \A x \in In(ms) : Plain(c, x) /\ (Leads(c, x) => x.type = "ACK")
    <3>1. CASE ms \in Seq(Shut(c))
      <4>1. In(ms) \subseteq Shut(c)
        BY <3>1, InType
      <4>2. Quiet(c, ms)
        BY <2>3, <4>1 DEF Quiet
      <4> QED BY <1>7, <2>3, <4>1, <4>2, QuietSingle
    <3>2. CASE ms = <<y>>
      <4>1. Single(c, <<y>>)
        BY DEF Single
      <4> QED BY <1>6, <3>2, <4>1, InOne
    <3>3. CASE ms = <<y, z>>
      <4>1. Len(ms) = 2 /\ ms[1] = y /\ ms[2] = z
        BY <3>3
      <4>2. Single(c, ms)
        <5>1. \A i \in 1 .. 2 : i = 1 \/ i = 2
          OBVIOUS
        <5> QED BY <1>6, <2>3, <4>1, <5>1 DEF Single
      <4> QED BY <1>6, <2>3, <3>3, <4>2, InTwo
    <3> QED BY <1>3, <1>5, <3>1, <3>2, <3>3
  <2>5. GuidedCall(c)'
    BY <1>1, <1>3, <1>4, <1>7, <1>c, <2>1, <2>4, AnswerGuided
  <2>6. Redirecting'
    BY <1>1 DEF Apart, ivrVars, Guided, Redirecting
  <2> QED BY <1>8, <2>5, <2>6 DEF Guided
<1> QED BY <1>2, <1>3, <1>a, <1>b, <1>c

\* An agent's phone.
LEMMA AgentGuided ==
  ASSUME Kept, Usual, Guided, NEW a \in Agents, AgentActs(a)
  PROVE  Guided'
<1>1. Kept' /\ a \in Numbers \ {Ivr} /\ a \in Users /\ CallIds \subseteq Users \ {a}
  BY AgentDoes, CallFlowAssumption, SipAssumption DEF Numbers
<1>2. Listening(a) /\ Apart
  BY AgentSpeaks DEF Kept
<1>3. /\ \A v \in Users \ {a} : phone'[v] = phone[v]
      /\ \A b \in Agents \ {a} : dialog'[b] = dialog[b]
  BY AgentDoes DEF PhoneDoes, Engaging
<1>4. PICK k \in CallIds : \E ms \in Seq(AgentSays(a, k)) : Sends(a, ms) /\ (Agentless(k) => ms = <<>>)
  BY AgentSends
<1>5. PICK ms \in Seq(AgentSays(a, k)) : Sends(a, ms) /\ (Agentless(k) => ms = <<>>)
  BY <1>4
<1> DEFINE S == AgentSays(a, k)
<1>6. S \in SUBSET Datagram /\ In(ms) \subseteq S /\ \A x \in S : x.callID = k /\ ~Leads(k, x)
  BY InType DEF AgentSays, Of
<1>s. ms \in Seq(S)
  OBVIOUS
<1> HIDE DEF S
<1>7. ASSUME NEW d \in CallIds
      PROVE  GuidedCall(d)'
  <2>1. \A x \in S : ~Leads(d, x)
    BY <1>6 DEF Leads
  <2>2. phone'[d] = phone[d] /\ (Waiting(d)' <=> Waiting(d)) /\ (Others(d)' <=> Others(d))
    BY <1>1, <1>3 DEF Waiting, Others
  <2>3. Agentless(d) => \A b \in Agents : dialog'[b] # d
    BY <1>3, AgentSends DEF Agentless
  <2>4. GuidedCall(d)
    BY DEF Guided
  <2>5. CASE Agentless(d) /\ d = k
    <3>1. In(ms) = {}
      BY <1>5, <2>5, InNone
    <3> QED BY <1>1, <1>2, <1>5, <1>6, <1>s, <2>1, <2>2, <2>3, <2>4, <3>1, PhoneStays
  <2>6. CASE d # k
    <3>1. \A x \in In(ms) : x.callID # d
      BY <1>6, <2>6
    <3> QED BY <1>1, <1>2, <1>5, <1>6, <1>s, <2>1, <2>2, <2>3, <2>4, <3>1, PhoneStays
  <2>7. CASE ~Agentless(d)
    BY <1>1, <1>2, <1>5, <1>6, <1>s, <2>1, <2>2, <2>3, <2>4, <2>7, PhoneStays
  <2> QED BY <2>5, <2>6, <2>7
<1>8. Redirecting'
  BY <1>2 DEF Apart, ivrVars, Guided, Redirecting
<1> QED BY <1>7, <1>8 DEF Guided
-----------------------------------------------------------------------------
\* A step that changes nothing.
LEMMA StutterGuided ==
  ASSUME Guided, UNCHANGED vars
  PROVE  Guided'
<1>1. UNCHANGED <<clients, sessions, calls, media, reader, running, pending, playing, rx,
                  uplink, downlink, phone, rtp, dialog>>
  BY DEF vars, serverVars, ivrVars, netVars, phoneVars
<1>2. /\ \A k : Link(k)' = Link(k)
      /\ \A c, n : Rises(c, n)' = Rises(c, n) /\ Falls(c, n)' = Falls(c, n)
  BY <1>1 DEF Link, Rises, Falls
<1>3. ASSUME NEW c \in CallIds
      PROVE  GuidedCall(c)'
  <2>1. Lone(c)' /\ (Free(c) <=> Free(c)')
    BY <1>2 DEF Guided, GuidedCall, Lone, Free, Quiet, Single, Leads, Opens
  <2>2. Agentless(c)' <=> Agentless(c)
    BY <1>1, <1>2 DEF Agentless, PlainSession, OnlyPlain, Plain
  <2>3. Asked(c) => Asked(c)'
    BY <1>1, <1>2 DEF Asked
  <2>4. InTime(c)'
    BY <1>1, <1>2, <2>1 DEF Guided, GuidedCall, InTime, Waiting, Silent, Resting, Others
  <2>5. /\ \A n \in Numbers : \A m \in Rises(c, n)' \cup Falls(c, n)' : Guides(c, m)'
        /\ \A m \in Falls(c, Ivr)' : Settles(c, m)'
    BY <1>1, <1>2 DEF Guided, GuidedCall, Guides, Settles, Waiting, Resting, Opens
  <2> QED BY <1>1, <2>1, <2>2, <2>3, <2>4, <2>5 DEF Guided, GuidedCall, Waiting
<1> QED BY <1>1, <1>3 DEF Guided, Redirecting

\* The calls stay guided on a network that makes no mistake, while no caller
\* presses a key over a referral.
LEMMA NextGuided ==
  ASSUME MaxTrouble = 0, ~Hasty, Kept, Told, Usual, Guided, [Next]_vars, fault' = "none"
  PROVE  Guided'
<1>1. CASE UNCHANGED vars
  BY <1>1, StutterGuided
<1>2. CASE \E n \in Numbers : ServerStep(n)
  BY <1>2, ServerGuided
<1>3. CASE IvrReceives
  BY <1>3, ReceiveGuided
<1>4. CASE IvrWakes
  BY <1>4, WakeGuided
<1>5. CASE \E c \in CallIds : ReaderSteps(c) \/ PressKey(c)
  BY <1>5, ReaderGuided, KeyGuided
<1>6. CASE \E c \in CallIds : Dial(c) \/ CallerActs(c)
  BY <1>6, DialGuided, CallerGuided
<1>7. CASE \E a \in Agents : AgentActs(a)
  BY <1>7, AgentGuided
<1>8. ~Trouble
  <2>1. trouble \in 0 .. 0
    BY DEF Kept, Phones
  <2> QED BY <2>1 DEF Trouble
<1> QED BY <1>1, <1>2, <1>3, <1>4, <1>5, <1>6, <1>7, <1>8 DEF Next, CallerActs, AgentActs, Callers

\* At first nothing is on its way, and nobody has called.
LEMMA InitGuided == Init => Guided
<1> SUFFICES ASSUME Init PROVE Guided
  OBVIOUS
<1>1. /\ \A k \in Ends : Link(k) = <<>>
      /\ \A c \in CallIds : \A n \in Numbers : Rises(c, n) = {} /\ Falls(c, n) = {}
  BY InNone DEF Init, Link, Ends, Rises, Falls
<1>2. ASSUME NEW c \in CallIds
      PROVE  GuidedCall(c)
  <2>1. Free(c)
    BY <1>1, InNone DEF Free, Quiet
  <2>2. Lone(c)
    BY <1>1, <2>1 DEF Lone, Free, Single
  <2>3. Agentless(c)
    BY <1>1, SipAssumption, CallFlowAssumption DEF Init, Agentless, PlainSession, OnlyPlain, Numbers
  <2>4. InTime(c)
    BY <1>1, <2>1 DEF InTime, Init, App!Init
  <2> QED BY <1>1, <2>2, <2>3, <2>4 DEF GuidedCall, Numbers
<1>3. Redirecting
  BY DEF Init, App!Init, App!Idle, Redirecting
<1> QED BY <1>2, <1>3 DEF Guided
-----------------------------------------------------------------------------
(***************************************************************************)
(* What a caller hears.                                                    *)
(***************************************************************************)
\* A process that has crashed takes no more steps.
LEMMA Stopped ==
  ASSUME Next
  PROVE  fault = "none"
<1>1. ASSUME NEW n \in Numbers, ServerStep(n)
      PROVE  fault = "none"
  BY <1>1 DEF ServerStep, Server!Handle
<1>2. IvrReceives => fault = "none"
  BY DEF IvrReceives, App!Receive
<1>3. IvrWakes => fault = "none"
  BY DEF IvrWakes, App!Announced, App!Redirected, App!Joined
<1>4. ASSUME NEW c, ReaderSteps(c) \/ PressKey(c)
      PROVE  fault = "none"
  BY <1>4 DEF ReaderSteps, PressKey, App!ReadDTMF, App!ReaderStep, App!OnDTMFEvent, App!MakeRefer,
     App!ReplayGuide, App!InvalidChoose, App!InvalidChosen, App!RestoreGuide, App!Replays, App!Exit
<1>5. ASSUME NEW c, Dial(c) \/ CallerActs(c)
      PROVE  fault = "none"
  BY <1>5 DEF Dial, CallerActs, Abandon, CallerHangsUp, CallerReceives, CallerAnswered,
     CallerReinvited, CallerToldBye, CallerByeAnswered, CallerToldTerminated, CallerIgnores, Acts, Takes
<1>6. ASSUME NEW a, AgentActs(a)
      PROVE  fault = "none"
  BY <1>6 DEF AgentActs, AgentAnswers, AgentRejects, AgentHangsUp, AgentReceives, AgentInvited,
     AgentCancelled, AgentAcknowledged, AgentToldBye, AgentByeAnswered, AgentIgnores, Acts, Takes
<1>7. Trouble => fault = "none"
  BY DEF Trouble
<1> QED BY <1>1, <1>2, <1>3, <1>4, <1>5, <1>6, <1>7 DEF Next, CallerActs, AgentActs

\* What caller c hears fits the state of its call.
HearsState(c) ==
  calls[c] # None =>
    /\ calls[c].state = "Referring" => playing[c] \in {"redirecting", "holding"}
    /\ calls[c].state \in {"Busy", "Unavailable"} => playing[c] = "agent_busy"

\* A crash changes neither.
LEMMA CrashKeeps ==
  ASSUME IvrReceives \/ IvrWakes \/ \E c \in CallIds : ReaderSteps(c) \/ PressKey(c), fault' # "none"
  PROVE  UNCHANGED <<calls, reader, playing, rx, phone>>
<1>0. UNCHANGED phone
  BY DEF IvrReceives, IvrWakes, ReaderSteps, PressKey, phoneVars
<1>1. ASSUME NEW m, App!Receive(m)
      PROVE  UNCHANGED <<calls, reader, playing, rx>>
  BY <1>1 DEF App!Receive, App!OnInvite, App!OnAck, App!OnBusy, App!OnUnavailable, App!OnReferAccepted,
     App!StartsReferring, App!OnBye, App!OnOk, App!OnNothing, App!Refused, App!Ignore, App!Crash,
     App!Announce, App!Overwritten, App!EndCall
<1>2. App!Announced \/ App!Redirected \/ App!Joined => UNCHANGED <<calls, reader, playing, rx>>
  BY DEF App!Announced, App!Redirected, App!Joined, App!Overwritten, App!Crash
<1>3. ASSUME NEW c, App!ReaderStep(c) \/ App!ReadDTMF(c)
      PROVE  UNCHANGED <<calls, reader, playing, rx>>
  BY <1>3 DEF App!ReaderStep, App!ReadDTMF, App!OnDTMFEvent, App!LookupFails, App!Answers, App!MakeRefer,
     App!ReplayGuide, App!InvalidChoose, App!InvalidChosen, App!RestoreGuide, App!Exit,
     App!Replays, App!Crash
<1> QED BY <1>0, <1>1, <1>2, <1>3 DEF IvrReceives, IvrWakes, ReaderSteps, PressKey

\* A handler that goes on with a call sets the announcement with the state.
LEMMA ReceiveHears ==
  ASSUME Kept, NEW c \in CallIds, NEW m, Taken(c, m), App!Receive(m), GuidedCall(c), HearsOutcome
  PROVE  HearsOutcome'
<1>0. /\ m.callID = c /\ AppKeeps /\ fault' = "none"
      /\ None \notin App!CallSession /\ HearsState(c)
  BY NoSessionAssumption DEF Taken, Of, Kept, Programs, HearsOutcome, HearsState, Callers
<1>1. \A d \in CallIds \ {c} : calls'[d] = calls[d]
  BY ReceiveApart
<1>s. ASSUME NEW st \in App!CallStates, calls[c] # None, App!SetState(c, st)
      PROVE  calls'[c].state = st
  <2>1. calls[c] \in App!CallSession
    BY <1>0, <1>s DEF AppKeeps, App!OrNone, OrNone
  <2>2. calls'[c] = [calls[c] EXCEPT !.state = st]
    BY <1>0, <1>s DEF AppKeeps, App!SetState
  <2> QED BY <2>1, <2>2 DEF App!CallSession
<1>2. /\ \A d \in CallIds \ {c} : playing'[d] = playing[d]
      /\ HearsState(c)'
  <2>1. CASE App!OnInvite(m)
    <3>1. \/ UNCHANGED <<calls, playing>>
          \/ /\ calls' = [calls EXCEPT ![c] = App!NewCall(m)]
             /\ playing' = [playing EXCEPT ![c] = None]
      BY <1>0, <2>1 DEF App!OnInvite, App!Ignore, App!Crash, App!Refused
    <3>2. App!NewCall(m).state = "Connected"
      BY DEF App!NewCall
    <3> QED BY <1>0, <3>1, <3>2 DEF AppKeeps, HearsState
  <2>2. CASE App!OnAck(m)
    <3>1. \/ UNCHANGED <<calls, playing>>
          \/ App!SetState(c, "Connected") /\ calls[c] # None /\ App!Plays(c, "welcome")
      BY <1>0, <2>2 DEF App!OnAck, App!Ignore, App!Crash, App!HasCall
    <3> QED BY <1>0, <1>s, <3>1 DEF AppKeeps, HearsState, App!CallStates, App!Plays
  <2>3. CASE App!OnBusy(m) \/ App!OnUnavailable(m)
    <3>1. \/ UNCHANGED <<calls, playing>>
          \/ /\ \E st \in {"Busy", "Unavailable"} : App!SetState(c, st)
             /\ calls[c] # None /\ App!Plays(c, "agent_busy")
      BY <1>0, <2>3 DEF App!OnBusy, App!OnUnavailable, App!Announce, App!Overwritten, App!Ignore,
         App!Crash, App!HasCall
    <3> QED BY <1>0, <1>s, <3>1 DEF AppKeeps, HearsState, App!CallStates, App!Plays
  <2>4. CASE App!OnReferAccepted(m)
    <3>1. \/ UNCHANGED <<calls, playing>>
          \/ App!SetState(c, "Referring") /\ calls[c] # None /\ App!Plays(c, "redirecting")
      BY <1>0, <2>4 DEF App!OnReferAccepted, App!Overwritten, App!Ignore, App!Crash, App!HasCall,
         App!StartsReferring
    <3> QED BY <1>0, <1>s, <3>1 DEF AppKeeps, HearsState, App!CallStates, App!Plays
  <2>5. CASE App!OnBye(m) \/ App!OnOk(m) \/ App!OnNothing(m)
    <3>1. \/ UNCHANGED <<calls, playing>>
          \/ UNCHANGED playing /\ calls' = [calls EXCEPT ![c] = None]
      BY <1>0, <2>5 DEF App!OnBye, App!OnOk, App!OnNothing, App!EndCall, App!Ignore
    <3> QED BY <1>0, <3>1 DEF AppKeeps, HearsState
  <2> QED BY <2>1, <2>2, <2>3, <2>4, <2>5 DEF App!Receive
<1> QED BY <1>1, <1>2 DEF HearsOutcome, HearsState, Callers

\* Every step.
LEMMA NextHears ==
  ASSUME Kept, Usual, fault = "none" => Guided, HearsOutcome, [Next]_vars
  PROVE  HearsOutcome'
<1>0. UNCHANGED <<calls, playing>> => HearsOutcome'
  BY DEF HearsOutcome
<1>1. CASE UNCHANGED vars
  BY <1>0, <1>1 DEF vars, ivrVars
<1>2. CASE \E n \in Numbers : ServerStep(n)
  BY <1>0, <1>2 DEF ServerStep, ivrVars
<1>3. CASE \/ \E c \in CallIds : Dial(c) \/ CallerActs(c)
           \/ \E a \in Agents : AgentActs(a)
  <2>1. Apart
    BY <1>3, DialDoes, CallerDoes, AgentDoes DEF PhoneDoes
  <2> QED BY <1>0, <2>1 DEF Apart, ivrVars
<1>4. CASE Trouble
  BY <1>0, <1>4 DEF Trouble, ivrVars
<1>5. CASE /\ IvrReceives \/ IvrWakes \/ \E c \in CallIds : ReaderSteps(c) \/ PressKey(c)
           /\ fault' # "none"
  BY <1>0, <1>5, CrashKeeps
<1>g. Next => Guided /\ AppKeeps
  BY Stopped DEF Kept, Programs
<1>6. CASE IvrReceives /\ fault' = "none"
  <2>1. Guided
    BY <1>6, <1>g DEF Next
  <2>2. PICK c \in CallIds, m \in Datagram : Taken(c, m) /\ App!Receive(m)
    BY <1>6, ReceiveTakes
  <2> QED BY <2>1, <2>2, ReceiveHears DEF Guided
<1>7. CASE IvrWakes /\ fault' = "none"
  <2>1. Guided /\ AppKeeps
    BY <1>7, <1>g DEF Next
  <2>2. CASE App!Announced \/ App!Joined
    BY <1>0, <2>2 DEF App!Announced, App!Joined
  <2>3. CASE App!Redirected
    <3>1. /\ UNCHANGED calls /\ playing' = [playing EXCEPT ![rx.call] = "holding"]
          /\ rx.at = "redirecting"
      BY <1>7, <2>3 DEF App!Redirected, App!Overwritten, App!Crash, App!Plays
    <3>2. calls[rx.call] # None /\ calls[rx.call].state = "Referring"
      BY <2>1, <3>1 DEF Guided, Redirecting
    <3> QED BY <2>1, <3>1, <3>2 DEF HearsOutcome, AppKeeps, Callers
  <2> QED BY <1>7, <2>2, <2>3 DEF IvrWakes
<1>8. ASSUME NEW c \in CallIds, ReaderSteps(c), fault' = "none"
      PROVE  HearsOutcome'
  <2>1. Guided /\ AppKeeps
    BY <1>8, <1>g DEF Next, Callers
  <2>2. CASE UNCHANGED <<calls, playing>>
    BY <1>0, <2>2
  <2>3. CASE /\ reader[c] \in {"replay", "refuse", "restore"} /\ UNCHANGED calls
             /\ \E file : App!Plays(c, file)
    <3>1. calls[c] # None => calls[c].state = "Connected"
      BY <2>1, <2>3 DEF Guided, GuidedCall, InTime, Silent, Resting
    <3>2. \A d \in CallIds \ {c} : playing'[d] = playing[d]
      BY <2>1, <2>3 DEF App!Plays, AppKeeps
    <3> QED BY <2>3, <3>1, <3>2 DEF HearsOutcome, Callers
  <2>4. UNCHANGED calls /\ (\/ UNCHANGED playing
                            \/ /\ reader[c] \in {"replay", "refuse", "restore"}
                               /\ \E file : App!Plays(c, file))
    BY <1>8 DEF ReaderSteps, App!ReaderStep, App!OnDTMFEvent, App!LookupFails, App!Crash, App!MakeRefer,
       App!ReplayGuide, App!InvalidChoose, App!InvalidChosen, App!RestoreGuide, App!Exit, App!Replays
  <2> QED BY <2>2, <2>3, <2>4
<1>9. CASE \E c \in CallIds : PressKey(c)
  BY <1>0, <1>9 DEF PressKey, App!ReadDTMF
<1> QED BY <1>1, <1>2, <1>3, <1>4, <1>5, <1>6, <1>7, <1>8, <1>9 DEF Next, CallerActs, AgentActs, Callers
-----------------------------------------------------------------------------
(***************************************************************************)
(* What crashes the process.                                               *)
(***************************************************************************)
\* A caller's phone that waits for nothing is in a call, or has been.
LEMMA PhoneEngaged ==
  ASSUME Kept, NEW c \in CallIds, ~Waiting(c)
  PROVE  phone[c] \in {"talking", "hanging", "done"}
BY PartyType, CallFlowAssumption DEF Kept, Phones, CallerStates, Waiting

\* The handlers: a 480 for a call that is over is all that the IVR fails on.
LEMMA ReceiveCrashes ==
  ASSUME Kept, Usual, Guided, Bodies, IvrReceives, fault' # "none"
  PROVE  fault' = "OnUnavailable" /\ \E c \in Callers : EndedInIvr(c)'
<1>1. PICK m \in Datagram, c \in CallIds :
        m \in In(downlink[Ivr]) /\ m.callID = c /\ App!Receive(m)
  BY IvrReceivesDoes
<1>2. Ivr \in Numbers /\ fault = "none" /\ Ivr \notin Agents /\ c \notin Agents
  BY <1>1, SipAssumption, CallFlowAssumption DEF Numbers, App!Receive
<1>3. m \in Falls(c, Ivr) /\ Hears(c, Ivr, m) /\ GuidedCall(c)
  BY <1>1, <1>2 DEF Usual, UsualOf, Falls, Guided
<1>4. \/ m.type = "INVITE" /\ m.sdp = None
      \/ m.type = "ACK" /\ reader[c] # "none"
      \/ m.type \in {"202", "480", "486"} /\ calls[c] # None /\ App!SettingFile(c)
      \/ m.type = "480" /\ calls[c] = None /\ fault' = "OnUnavailable"
  BY <1>1, <1>2
  DEF App!Receive, App!OnInvite, App!OnAck, App!OnBusy, App!OnUnavailable, App!OnReferAccepted,
      App!StartsReferring, App!OnBye, App!OnOk, App!OnNothing, App!Refused, App!Ignore, App!Crash,
      App!Announce, App!Overwritten, App!EndCall, App!HasCall
<1>5. ~(m.type = "INVITE" /\ m.sdp = None)
  BY <1>1, <1>2 DEF Bodies
<1>6. ~(m.type = "ACK" /\ reader[c] # "none")
  BY <1>2, <1>3 DEF Hears, GuidedCall, Guides, Opens
<1>7. ~(m.type \in {"202", "480", "486"} /\ calls[c] # None /\ App!SettingFile(c))
  BY <1>3, OutcomeSilent DEF App!SettingFile, Silent, Resting
<1>8. m.type = "480" /\ calls[c] = None /\ fault' = "OnUnavailable"
  BY <1>4, <1>5, <1>6, <1>7
<1>9. ~Waiting(c)
  <2>1. CASE m.cseq = "REFER"
    BY <1>3, <2>1 DEF GuidedCall, Settles
  <2>2. CASE m.cseq # "REFER"
    <3>1. m.to \in Agents
      BY <1>3, <1>8, <2>2 DEF Hears
    <3>2. ~Agentless(c)
      BY <1>2, <1>3, <3>1 DEF Agentless, OnlyPlain, Plain
    <3> QED BY <1>3, <3>2 DEF GuidedCall
  <2> QED BY <2>1, <2>2
<1>a. EndedInIvr(c)'
  <2>1. UNCHANGED <<calls, phone>>
    BY CrashKeeps
  <2> QED BY <1>8, <1>9, <2>1, PhoneEngaged DEF EndedInIvr
<1> QED BY <1>8, <1>a DEF Callers

\* The reader: the call it looks up is gone, or another caller's was put in or
\* taken out meanwhile.
LEMMA ReaderCrashes ==
  ASSUME Kept, Guided, NEW c \in CallIds, ReaderSteps(c), fault' # "none"
  PROVE  /\ fault' \in {"onDTMFEvent", "findSession"}
         /\ \/ reader'[c] \in {"event", "raced"} /\ EndedInIvr(c)'
            \/ reader'[c] = "raced" /\ \E d \in Callers \ {c} : phone'[d] # "idle"
<1>1. GuidedCall(c) /\ UNCHANGED <<calls, reader, phone>>
  BY CrashKeeps DEF Guided
<1>2. fault' \in {"onDTMFEvent", "findSession"} /\ (reader[c] = "raced" \/ (reader[c] = "event" /\ calls[c] = None))
  BY DEF ReaderSteps, App!ReaderStep, App!OnDTMFEvent, App!LookupFails, App!Crash, App!HasCall,
     App!MakeRefer, App!ReplayGuide, App!InvalidChoose, App!InvalidChosen, App!RestoreGuide, App!Exit,
     App!Replays
<1>3. CASE calls[c] = None
  <2>1. ~Waiting(c)
    BY <1>1, <1>2 DEF GuidedCall, InTime
  <2> QED BY <1>1, <1>2, <1>3, <2>1, PhoneEngaged DEF EndedInIvr
<1>4. CASE calls[c] # None
  <2>1. reader[c] = "raced" /\ Others(c)
    BY <1>1, <1>2, <1>4 DEF GuidedCall, InTime
  <2> QED BY <1>1, <1>2, <2>1 DEF Others, Callers
<1> QED BY <1>3, <1>4

\* The receiver that wakes up: a reader sets no announcement during a referral.
LEMMA WakeSurvives ==
  ASSUME Kept, Guided, IvrWakes
  PROVE  fault' = "none"
<1>0. rx.call \in CallIds
  BY IvrWakesDoes
<1>1. ~(App!Redirected /\ App!SettingFile(rx.call))
  BY <1>0 DEF App!Redirected, App!SettingFile, Guided, GuidedCall, Redirecting, InTime, Silent, Resting
<1> QED BY <1>1 DEF IvrWakes, App!Announced, App!Redirected, App!Joined, App!Overwritten

\* Every step.
LEMMA NextCrashes ==
  ASSUME Kept, Usual, Setup, Bodies, fault = "none" => Guided, CrashNeedsCrossing, [Next]_vars
  PROVE  CrashNeedsCrossing'
<1>0. fault' = "none" => CrashNeedsCrossing'
  BY DEF CrashNeedsCrossing
<1>g. Next => Guided /\ fault = "none"
  BY Stopped
<1>1. CASE UNCHANGED vars
  BY <1>1 DEF vars, ivrVars, phoneVars, CrashNeedsCrossing, EndedInIvr
<1>2. CASE \E n \in Numbers : ServerStep(n)
  <2>1. PICK n \in Numbers : ServerStep(n)
    BY <1>2
  <2>2. PICK m \in Datagram, c \in CallIds : ServerDoes(n, m, c)
    BY <2>1, ServerStepDoes
  <2>3. fault' = "none" \/ fault' = "OnRefer"
    BY <2>2, ServerRuns DEF Kept, ServerDoes
  <2> QED BY <1>0, <2>1, <2>3, ServerSurvives
<1>3. CASE \/ \E c \in CallIds : Dial(c) \/ CallerActs(c)
           \/ \E a \in Agents : AgentActs(a)
  <2>1. Apart
    BY <1>3, DialDoes, CallerDoes, AgentDoes DEF PhoneDoes
  <2>2. fault = "none"
    BY <1>3, <1>g DEF Next, CallerActs, AgentActs, Callers
  <2> QED BY <1>0, <2>1, <2>2 DEF Apart
<1>4. CASE Trouble
  BY <1>0, <1>4 DEF Trouble
<1>5. CASE IvrReceives /\ fault' # "none"
  <2>1. Guided
    BY <1>5, <1>g DEF Next
  <2> QED BY <1>5, <2>1, ReceiveCrashes DEF CrashNeedsCrossing
<1>6. CASE IvrWakes
  <2>1. Guided
    BY <1>6, <1>g DEF Next
  <2> QED BY <1>0, <1>6, <2>1, WakeSurvives
<1>7. ASSUME NEW c \in CallIds, ReaderSteps(c), fault' # "none"
      PROVE  CrashNeedsCrossing'
  <2>1. Guided
    BY <1>7, <1>g DEF Next, Callers
  <2> QED BY <1>7, <2>1, ReaderCrashes DEF CrashNeedsCrossing, Callers
<1>8. CASE \E c \in CallIds : PressKey(c)
  BY <1>0, <1>8 DEF PressKey, App!ReadDTMF
<1> QED BY <1>0, <1>1, <1>2, <1>3, <1>4, <1>5, <1>6, <1>7, <1>8
        DEF Next, CallerActs, AgentActs, Callers
-----------------------------------------------------------------------------
(***************************************************************************)
(* The invariant of guided calls, and what follows from it.                *)
(***************************************************************************)
GuidedInv ==
  /\ Kept /\ Told /\ Usual /\ Setup /\ Bodies
  /\ fault = "none" => Guided
  /\ HearsOutcome /\ CrashNeedsCrossing

\* While datagrams are neither lost, repeated nor overtaken and nobody presses
\* a key over a referral, every call goes from stage to stage as one datagram
\* or the REFER of its reader leads it.
THEOREM CallsGuided ==
  ASSUME MaxTrouble = 0, ~Hasty
  PROVE  Spec => []GuidedInv
<1>1. Init => GuidedInv
  <2>1. Init => HearsOutcome /\ CrashNeedsCrossing
    BY DEF Init, App!Init, HearsOutcome, CrashNeedsCrossing, Callers
  <2>2. Init => Bodies
    BY InNone DEF Init, Bodies
  <2> QED BY <2>1, <2>2, InitKept, InitTold, InitUsual, InitSetup, InitGuided DEF GuidedInv
<1>2. GuidedInv /\ [Next]_vars => GuidedInv'
  <2> SUFFICES ASSUME GuidedInv, [Next]_vars PROVE GuidedInv'
    OBVIOUS
  <2>1. Kept' /\ Usual' /\ Bodies'
    BY NextKept, NextUsual, NextBodies DEF GuidedInv
  <2>2. Setup'
    BY NextSetup DEF GuidedInv
  <2>3. Told'
    <3>1. CASE UNCHANGED vars
      BY <3>1 DEF GuidedInv, vars, serverVars, ivrVars, netVars, phoneVars, Told, ToldOf, Rises, Falls,
         Spoken, Heard, KnownCaller, Parting, Ended
    <3> QED BY <3>1, NextTold DEF GuidedInv
  <2>4. fault' = "none" => Guided'
    <3> SUFFICES ASSUME fault' = "none" PROVE Guided'
      OBVIOUS
    <3>1. CASE UNCHANGED vars
      BY <3>1, StutterGuided DEF GuidedInv, vars
    <3>2. CASE Next
      <4>1. Guided
        BY <3>2, Stopped DEF GuidedInv
      <4> QED BY <3>2, <4>1, NextGuided DEF GuidedInv
    <3> QED BY <3>1, <3>2
  <2>5. HearsOutcome' /\ CrashNeedsCrossing'
    BY NextHears, NextCrashes DEF GuidedInv
  <2> QED BY <2>1, <2>2, <2>3, <2>4, <2>5 DEF GuidedInv
<1> QED BY <1>1, <1>2, PTL DEF Spec

\* On such a network, whoever calls: nothing but a 480 or a key that crosses the
\* end of its call, or a key looked up while another's call comes or goes,
\* crashes the process.
THEOREM CrashesCross ==
  ASSUME MaxTrouble = 0, ~Hasty
  PROVE  Spec => []CrashNeedsCrossing
<1>1. GuidedInv => CrashNeedsCrossing
  BY DEF GuidedInv
<1> QED BY <1>1, CallsGuided, PTL

\* On such a network the announcement of every call fits its state: the threads
\* of receiver and reader do not overwrite each other's.
THEOREM OutcomeHeard ==
  ASSUME MaxTrouble = 0, ~Hasty
  PROVE  Spec => []HearsOutcome
<1>1. GuidedInv => HearsOutcome
  BY DEF GuidedInv
<1> QED BY <1>1, CallsGuided, PTL
-----------------------------------------------------------------------------
(***************************************************************************)
(* Callers and agents.                                                     *)
(*                                                                         *)
(* A call is referred to one agent, who rings at most once.  From then on  *)
(* the agent's phone, the server's session and the caller's audio go       *)
(* together, and so does what is on its way between them (Met).            *)
(***************************************************************************)
\* The INVITE of call c is on its way to agent a, ...
Rings(c, m) == m.callID = c /\ m.type = "INVITE"

Rung(c, a) == \E m \in Falls(c, a) : m.type = "INVITE"

\* ... or the agent's phone is in the call.
Engaged(c, a) == dialog[a] = c \/ Rung(c, a)

Unoffered(c) == \A a \in Agents : ~Engaged(c, a)

\* The agent has taken the call: the phone waits for the ACK, or the caller hears it.
Holds(c, a) == a \in Agents /\ dialog[a] = c /\ (phone[a] = "answered" \/ rtp[c] = a)

\* One INVITE, to one agent.
Once(c, q) == \A i, j \in 1 .. Len(q) : Rings(c, q[i]) /\ Rings(c, q[j]) => i = j

Sole(c) ==
  /\ \A a \in Agents : Once(c, downlink[a])
  /\ \A a, b \in Agents : Engaged(c, a) /\ Engaged(c, b) => a = b
  /\ \A a \in Agents : Rung(c, a) => dialog[a] # c

\* The session knows the agent.
Refers(c) ==
  sessions[c] # None =>
    /\ sessions[c].state # "Cancel"
    /\ \A a \in Agents : Engaged(c, a) => sessions[c].referedDest = a
    /\ Ended(c) \/ sessions[c].dest \in {None, Ivr}

\* So does the caller's phone.
InTouch(c) ==
  /\ IF phone[c] = "talking" THEN rtp[c] \in Agents \cup {Ivr} ELSE rtp[c] = None
  /\ rtp[c] \in Agents => dialog[rtp[c]] = c /\ phone[rtp[c]] # "ringing"

\* What a datagram that rises from n tells, ...
Reports(c, n, m) ==
  /\ m.type \in {"480", "486"} => Unoffered(c)
  /\ OkInvite(m) /\ n \in Agents => Ended(c) \/ Holds(c, n)
  /\ OkInvite(m) /\ n = c => Ended(c) \/ rtp[c] \in Agents
  /\ m.type = "ACK" /\ m.to # Ivr => Ended(c)
  /\ m.type = "487" => Ended(c)

\* ... and one that falls to k.
Brings(c, k, m) ==
  /\ m.type = "INVITE" /\ k = c => Ended(c) \/ Holds(c, m.sdp)
  /\ OkInvite(m) => m.sdp = m.to /\ (k = c => Ended(c) \/ m.to = Ivr)
  /\ m.type = "ACK" /\ k \in Agents => m.to \in Agents /\ (Ended(c) \/ rtp[c] = k \/ Unoffered(c))
  /\ m.type = "487" => Ended(c)
  /\ m.type = "BYE" /\ k \in Agents => Ended(c)

MetCall(c) ==
  /\ Sole(c) /\ Refers(c) /\ InTouch(c)
  /\ \A n \in Numbers : /\ \A m \in Rises(c, n) : Reports(c, n, m)
                        /\ \A m \in Falls(c, n) : Brings(c, n, m)

\* A phone that is idle is in no call.
Unengaged == \A a \in Agents : phone[a] = "idle" => dialog[a] = None

Met == Unengaged /\ \A c \in CallIds : MetCall(c)

\* A link that gains no INVITE, ...
LEMMA OnceGrows ==
  ASSUME NEW c, NEW S \in SUBSET Datagram, NEW q \in Seq(Datagram), NEW r, Grows(q, r, S),
         \A x \in S : ~Rings(c, x), Once(c, q)
  PROVE  Once(c, r)
<1>1. PICK s \in Seq(S) : r = q \o s \/ (q # <<>> /\ r = Tail(q) \o s)
  BY DEF Grows
<1>2. \E d \in {0, 1} : \A i \in 1 .. Len(r) : Rings(c, r[i]) => i + d \in 1 .. Len(q) /\ Rings(c, q[i + d])
  <2>s. s \in Seq(Datagram) /\ \A i \in 1 .. Len(s) : ~Rings(c, s[i])
    OBVIOUS
  <2>1. CASE r = q \o s
    <3>1. /\ Len(q) \in Nat /\ Len(r) = Len(q) + Len(s)
          /\ \A i \in 1 .. Len(r) : \/ i \in 1 .. Len(q) /\ r[i] = q[i]
                                    \/ i - Len(q) \in 1 .. Len(s) /\ r[i] = s[i - Len(q)]
      BY <2>1, <2>s
    <3>2. \A i \in 1 .. Len(r) : Rings(c, r[i]) => i + 0 \in 1 .. Len(q) /\ Rings(c, q[i + 0])
      BY <3>1, <2>s
    <3> QED BY <3>2
  <2>2. CASE q # <<>> /\ r = Tail(q) \o s
    <3>1. PICK t \in Seq(Datagram) : t = Tail(q)
      BY <2>2, InTail
    <3>2. Len(q) \in Nat /\ Len(t) = Len(q) - 1 /\ \A i \in 1 .. Len(t) : t[i] = q[i + 1]
      BY <2>2, <3>1
    <3>3. /\ Len(r) = Len(t) + Len(s)
          /\ \A i \in 1 .. Len(r) : \/ i \in 1 .. Len(t) /\ r[i] = t[i]
                                    \/ i - Len(t) \in 1 .. Len(s) /\ r[i] = s[i - Len(t)]
      BY <2>2, <2>s, <3>1
    <3>4. \A i \in 1 .. Len(r) : Rings(c, r[i]) => i + 1 \in 1 .. Len(q) /\ Rings(c, q[i + 1])
      BY <3>2, <3>3, <2>s
    <3> QED BY <3>4
  <2> QED BY <1>1, <2>1, <2>2
<1>3. PICK d \in {0, 1} :
        \A i \in 1 .. Len(r) : Rings(c, r[i]) => i + d \in 1 .. Len(q) /\ Rings(c, q[i + d])
  BY <1>2
<1> SUFFICES ASSUME NEW i \in 1 .. Len(r), NEW j \in 1 .. Len(r), Rings(c, r[i]), Rings(c, r[j])
             PROVE  i = j
  BY DEF Once
<1>4. i + d = j + d
  BY <1>3 DEF Once
<1> QED BY <1>4

\* ... one that loses the INVITE, ...
LEMMA OnceTaken ==
  ASSUME NEW c, NEW q \in Seq(Datagram), q # <<>>, Once(c, q), Rings(c, Head(q))
  PROVE  \A x \in In(Tail(q)) : ~Rings(c, x)
<1> SUFFICES ASSUME NEW i \in 1 .. Len(Tail(q)), Rings(c, Tail(q)[i])
             PROVE  FALSE
  BY DEF In
<1>1. /\ Len(q) \in Nat /\ Len(q) >= 1 /\ Len(Tail(q)) = Len(q) - 1
      /\ Head(q) = q[1] /\ Tail(q)[i] = q[i + 1]
  OBVIOUS
<1>2. i + 1 \in 1 .. Len(q) /\ 1 \in 1 .. Len(q)
  BY <1>1
<1>3. i + 1 = 1
  BY <1>1, <1>2 DEF Once
<1> QED BY <1>3

\* ... and one on which there was none.
LEMMA OncePut ==
  ASSUME NEW c, NEW q \in Seq(Datagram), \A x \in In(q) : ~Rings(c, x), NEW y \in Datagram
  PROVE  Once(c, q \o <<y>>)
<1>1. /\ Len(q) \in Nat /\ Len(q \o <<y>>) = Len(q) + 1
      /\ \A i \in 1 .. Len(q) : (q \o <<y>>)[i] = q[i]
  OBVIOUS
<1>2. \A i \in 1 .. Len(q) : ~Rings(c, q[i])
  BY DEF In
<1>3. \A i \in 1 .. Len(q \o <<y>>) : Rings(c, (q \o <<y>>)[i]) => i = Len(q) + 1
  BY <1>1, <1>2
<1> QED BY <1>3 DEF Once

\* A step that takes nobody out of touch, and sends what fits.
LEMMA MetStays ==
  ASSUME NEW c \in CallIds, UsualOf(c), MetCall(c), Sole(c)', Refers(c)', InTouch(c)',
         Ended(c) => Ended(c)',
         \A a \in Agents : Holds(c, a) => Holds(c, a)' \/ Ended(c)',
         rtp[c] \in Agents => rtp'[c] = rtp[c] \/ Ended(c)',
         OnlyPlain(c) \/ (Unoffered(c) => Unoffered(c)'),
         \A n \in Numbers : /\ \A m \in Rises(c, n)' : m \in Rises(c, n) \/ Reports(c, n, m)'
                            /\ \A m \in Falls(c, n)' : m \in Falls(c, n) \/ Brings(c, n, m)'
  PROVE  MetCall(c)'
<1>p. c \notin Agents /\ Ivr \notin Agents
  BY PartyType, CallFlowAssumption, SipAssumption DEF Callers
<1>1. ASSUME NEW n \in Numbers, NEW m \in Rises(c, n)
      PROVE  Reports(c, n, m)'
  <2>1. Reports(c, n, m) /\ Utters(c, n, m) /\ (OnlyPlain(c) => Plain(c, m))
    BY <1>1 DEF MetCall, UsualOf, OnlyPlain
  <2>2. m.type \in {"480", "486"} => Unoffered(c)'
    BY <1>p, <2>1 DEF Reports, Utters, Plain
  <2>3. OkInvite(m) /\ n \in Agents => Ended(c)' \/ Holds(c, n)'
    BY <2>1 DEF Reports
  <2>4. OkInvite(m) /\ n = c => Ended(c)' \/ rtp'[c] \in Agents
    BY <2>1 DEF Reports
  <2> QED BY <2>1, <2>2, <2>3, <2>4 DEF Reports
<1>2. ASSUME NEW n \in Numbers, NEW m \in Falls(c, n)
      PROVE  Brings(c, n, m)'
  <2>1. Brings(c, n, m) /\ Hears(c, n, m) /\ (OnlyPlain(c) => Plain(c, m))
    BY <1>2 DEF MetCall, UsualOf, OnlyPlain
  <2>2. m.type = "INVITE" /\ n = c => Ended(c)' \/ Holds(c, m.sdp)'
    BY <2>1 DEF Brings, Holds
  <2>3. ASSUME m.type = "ACK", n \in Agents
        PROVE  m.to \in Agents /\ (Ended(c)' \/ rtp'[c] = n \/ Unoffered(c)')
    BY <1>p, <2>1, <2>3 DEF Brings, Plain
  <2> QED BY <2>1, <2>2, <2>3 DEF Brings
<1>3. \A n \in Numbers : /\ \A m \in Rises(c, n)' : Reports(c, n, m)'
                         /\ \A m \in Falls(c, n)' : Brings(c, n, m)'
  BY <1>1, <1>2
<1> QED BY <1>3 DEF MetCall
-----------------------------------------------------------------------------
(***************************************************************************)
(* The server brings caller and agent together.                            *)
(***************************************************************************)

\* An answer that is neither the refered agent's nor the caller's to the
\* re-INVITE is the IVR's.
LEMMA AnswerIsIvrs ==
  ASSUME NEW c \in CallIds, NEW n, NEW m, Comes(c, n, m), Reports(c, n, m), Refers(c), InTouch(c),
         OkInvite(m), sessions[c] # None, ~Transfers(c, m), ~Updates(c, m)
  PROVE  Ended(c) \/ m.to = Ivr
<1>0. /\ m.to = n /\ n \in Party(c) /\ c \notin Agents /\ c # Ivr /\ Ivr \notin Agents
      /\ sessions[c].src = c /\ None \notin Party(c)
  BY ArrivesFrom, PartyType DEF Comes, Arrives, Utters, OkInvite
<1>1. CASE n \in Agents
  <2>1. Ended(c) \/ dialog[n] = c
    BY <1>1 DEF Reports, Holds
  <2>2. dialog[n] = c => sessions[c].referedDest = n
    BY <1>1 DEF Refers, Engaged
  <2> QED BY <1>0, <1>1, <2>1, <2>2 DEF Transfers, Server!Transfered
<1>2. CASE n = c
  <2>1. Ended(c) \/ (rtp[c] \in Agents /\ dialog[rtp[c]] = c)
    BY <1>2 DEF Reports, InTouch
  <2>2. rtp[c] \in Agents /\ dialog[rtp[c]] = c => sessions[c].referedDest = rtp[c]
    BY DEF Refers, Engaged
  <2>3. rtp[c] \in Agents => rtp[c] \in Party(c) /\ rtp[c] # c
    BY <1>0 DEF Party
  <2> QED BY <1>0, <1>2, <2>1, <2>2, <2>3 DEF Updates, Server!UpdateMedia
<1> QED BY <1>0, <1>1, <1>2 DEF Party

\* What is made of a datagram fits, unless it is a referral that is accepted.
LEMMA GivesBrings ==
  ASSUME NEW c \in CallIds, NEW n, NEW m, Comes(c, n, m), Reports(c, n, m), Refers(c), InTouch(c),
         ~Accepts(c, m), NEW k, NEW x, Gives(c, m, k, x)
  PROVE  Brings(c, k, x)
<1>0. /\ n \in Party(c) /\ c \notin Agents /\ c # Ivr /\ Ivr \notin Agents /\ None \notin Party(c)
      /\ Agents \subseteq Party(c) /\ Utters(c, n, m) /\ Spoken(c, n, m)
  BY ArrivesFrom, PartyType DEF Comes, Arrives
<1>s. sessions[c] # None => sessions[c].src = c /\ sessions[c].referedDest \in OrNone(Agents)
                            /\ sessions[c].state # "Cancel"
  BY DEF Comes, Arrives, Refers
<1>u. Updates(c, m) => n = c /\ (Ended(c) \/ (rtp[c] \in Agents /\ sessions[c].referedDest = rtp[c]))
  <2> SUFFICES ASSUME Updates(c, m)
               PROVE  n = c /\ (Ended(c) \/ (rtp[c] \in Agents /\ sessions[c].referedDest = rtp[c]))
    OBVIOUS
  <2>1. OkInvite(m) /\ sessions[c] # None /\ m.to = c /\ m.to = n
    BY <1>0, <1>s DEF Updates, Server!UpdateMedia, Utters, OkInvite
  <2>2. Ended(c) \/ (rtp[c] \in Agents /\ dialog[rtp[c]] = c)
    BY <2>1 DEF Reports, InTouch
  <2>3. rtp[c] \in Agents /\ dialog[rtp[c]] = c => sessions[c].referedDest = rtp[c]
    BY <2>1 DEF Refers, Engaged
  <2> QED BY <2>1, <2>2, <2>3
<1>1. x.type = "INVITE" /\ k = c => Ended(c) \/ Holds(c, x.sdp)
  <2> SUFFICES ASSUME x.type = "INVITE", k = c
               PROVE  Ended(c) \/ Holds(c, x.sdp)
    OBVIOUS
  <2>1. Transfers(c, m) /\ x.sdp = m.sdp
    BY <1>0 DEF Gives
  <2>2. OkInvite(m) /\ m.to = n /\ m.sdp = n /\ n \in Agents
    BY <1>0, <1>s, <2>1 DEF Transfers, Server!Transfered, Utters, OkInvite, OrNone
  <2> QED BY <2>1, <2>2 DEF Reports
<1>2. OkInvite(x) => x.sdp = x.to /\ (k = c => Ended(c) \/ x.to = Ivr)
  <2> SUFFICES ASSUME OkInvite(x)
               PROVE  x.sdp = x.to /\ (Ended(c) \/ x.to = Ivr)
    OBVIOUS
  <2>1. OkInvite(m) /\ x.to = m.to /\ x.sdp = m.sdp /\ sessions[c] # None
        /\ ~Transfers(c, m) /\ ~Updates(c, m)
    BY <1>s DEF Gives
  <2>2. m.sdp = m.to
    BY <1>0, <2>1 DEF Utters, OkInvite
  <2> QED BY <2>1, <2>2, AnswerIsIvrs
<1>3. ASSUME x.type = "ACK", k \in Agents
      PROVE  x.to \in Agents /\ (Ended(c) \/ rtp[c] = k \/ Unoffered(c))
  <2>1. CASE m.type = "ACK" /\ m.to = k /\ x.to = k
    BY <1>0, <1>3, <2>1 DEF Reports
  <2>2. CASE m.type \in {"480", "486", "487"} /\ x.to = m.to
    BY <1>0, <2>2 DEF Reports, Utters
  <2>3. CASE Updates(c, m) /\ k = sessions[c].referedDest /\ x.to = k
    BY <1>3, <1>u, <2>3
  <2> QED BY <1>3, <2>1, <2>2, <2>3 DEF Gives
<1>4. x.type = "487" => Ended(c)
  BY DEF Gives, Reports
<1>5. ASSUME x.type = "BYE", k \in Agents
      PROVE  Ended(c)
  <2>1. CASE m.type = "BYE" /\ m.from = c
    BY <1>0, <2>1 DEF Spoken
  <2>2. CASE Updates(c, m) /\ k = sessions[c].dest
    <3>1. sessions[c] # None /\ k # None /\ k # Ivr
      BY <1>0, <1>5, <2>2 DEF Updates
    <3> QED BY <2>2, <3>1 DEF Refers
  <2> QED BY <1>5, <2>1, <2>2 DEF Gives
<1> QED BY <1>1, <1>2, <1>3, <1>4, <1>5 DEF Brings

-----------------------------------------------------------------------------
(***************************************************************************)
(* Steps that leave a call to itself, and steps of the programs.           *)
(***************************************************************************)
\* A step after which the phones of the call are where they were, and only the
\* IVR has said something.
LEMMA MetApart ==
  ASSUME NEW c \in CallIds, UsualOf(c), UsualOf(c)', MetCall(c),
         sessions'[c] = sessions[c], phone'[c] = phone[c], rtp'[c] = rtp[c],
         \A a \in Agents : /\ dialog'[a] = c <=> dialog[a] = c
                           /\ dialog[a] = c => phone'[a] = phone[a]
                           /\ Once(c, downlink'[a]),
         \A n \in Numbers : /\ n = Ivr \/ Rises(c, n)' \subseteq Rises(c, n)
                            /\ Falls(c, n)' \subseteq Falls(c, n)
  PROVE  MetCall(c)'
<1>p. c \notin Agents /\ Ivr \notin Agents /\ c # Ivr /\ Agents \subseteq Numbers
  BY PartyType, CallFlowAssumption, SipAssumption DEF Callers, Numbers
<1>1. \A a \in Agents : (Rung(c, a)' => Rung(c, a)) /\ (Engaged(c, a)' => Engaged(c, a))
  BY <1>p DEF Rung, Engaged
<1>2. /\ \A a \in Agents : Holds(c, a)' <=> Holds(c, a)
      /\ Ended(c)' <=> Ended(c)
      /\ Unoffered(c) => Unoffered(c)'
  BY <1>1 DEF Holds, Ended, Unoffered
<1>3. Sole(c)'
  <2>1. \A a \in Agents : Rung(c, a)' => dialog'[a] # c
    BY <1>1 DEF MetCall, Sole
  <2>2. \A a, b \in Agents : Engaged(c, a)' /\ Engaged(c, b)' => a = b
    BY <1>1 DEF MetCall, Sole
  <2> QED BY <2>1, <2>2 DEF Sole
<1>4. Refers(c)'
  BY <1>1, <1>2 DEF MetCall, Refers
<1>5. InTouch(c)'
  BY DEF MetCall, InTouch
<1>6. \A n \in Numbers : /\ \A m \in Rises(c, n)' : m \in Rises(c, n) \/ Reports(c, n, m)'
                         /\ \A m \in Falls(c, n)' : m \in Falls(c, n) \/ Brings(c, n, m)'
  <2>1. ASSUME NEW m \in Rises(c, Ivr)', Ivr \in Numbers
        PROVE  Reports(c, Ivr, m)'
    <3>1. Utters(c, Ivr, m)'
      BY <2>1 DEF UsualOf
    <3>2. Utters(c, Ivr, m)
      BY <3>1 DEF Utters
    <3> QED BY <1>p, <3>2 DEF Utters, Reports
  <2> QED BY <2>1
<1> QED BY <1>2, <1>3, <1>4, <1>5, <1>6, MetStays

\* A link that gains nothing of a call has no INVITE of it more than before.
LEMMA OnceApart ==
  ASSUME NEW c \in CallIds, NEW d \in CallIds \ {c}, NEW q \in Seq(Datagram), NEW r,
         NEW S \in SUBSET Of(c), Grows(q, r, S), Once(d, q)
  PROVE  Once(d, r)
<1>1. S \in SUBSET Datagram /\ \A x \in S : ~Rings(d, x)
  BY DEF Of, Rings
<1> QED BY <1>1, OnceGrows

\* The calls that the server's datagram is not of.
LEMMA ServerMetOthers ==
  ASSUME Kept, NEW n \in Numbers, ServerStep(n), Kept', NEW c \in CallIds, NEW m, ServerDoes(n, m, c),
         NEW d \in CallIds \ {c}, UsualOf(d), UsualOf(d)', MetCall(d)
  PROVE  MetCall(d)'
<1>0. sent' \in Seq(Of(c)) /\ Of(c) \in SUBSET Datagram /\ sessions'[d] = sessions[d]
      /\ UNCHANGED <<phone, rtp, dialog>> /\ d \in Numbers /\ Agents \subseteq Numbers
  BY PartyType, CallFlowAssumption DEF ServerDoes, Serves, Speaks, Of, phoneVars, Numbers
<1>2. \A x \in In(sent') : x.callID # d
  <2>1. In(sent') \subseteq Of(c)
    BY <1>0, InType
  <2> QED BY <2>1 DEF Of
<1>4. \A k \in Numbers : Rises(d, k)' \subseteq Rises(d, k) /\ Falls(d, k)' \subseteq Falls(d, k)
  <2>1. \A k \in Numbers : Rises(d, k)' \subseteq Rises(d, k)
    BY <1>0, ServerLinks
  <2>2. \A k \in Numbers : \A x \in Falls(d, k)' : x \in Falls(d, k) \/ (x \in In(sent') /\ x.callID = d)
    BY <1>0, ServerLinks
  <2> QED BY <1>2, <2>1, <2>2
<1>5. \A a \in Agents : Once(d, downlink'[a])
  <2> SUFFICES ASSUME NEW a \in Agents
               PROVE  Once(d, downlink'[a])
    OBVIOUS
  <2>1. PICK q \in {downlink'[a]} : TRUE
    OBVIOUS
  <2>a. a \in Numbers /\ downlink[a] \in Seq(Datagram)
    BY <1>0 DEF Kept, Down
  <2>b. Grows(downlink[a], downlink'[a], Of(c))
    BY <1>0, <2>a, ServerLinks
  <2>2. Grows(downlink[a], q, Of(c)) /\ downlink[a] \in Seq(Datagram)
    BY <2>1, <2>a, <2>b
  <2>3. Of(c) \in SUBSET Of(c) /\ Once(d, downlink[a])
    BY DEF MetCall, Sole
  <2> QED BY <2>1, <2>2, <2>3, OnceApart
<1> QED BY <1>0, <1>4, <1>5, MetApart

\* No agent is offered a call in which none is.
LEMMA AgentlessUnoffered ==
  ASSUME NEW c \in CallIds, UsualOf(c), Agentless(c)
  PROVE  Unoffered(c)
<1>p. c \notin Agents /\ Ivr \notin Agents /\ Agents \subseteq Numbers
  BY PartyType, CallFlowAssumption, SipAssumption DEF Callers, Numbers
<1>1. \A a \in Agents : \A m \in Falls(c, a) : Plain(c, m) /\ Hears(c, a, m)
  BY <1>p DEF Agentless, OnlyPlain, UsualOf
<1>2. \A a \in Agents : \A m \in Falls(c, a) : m.type # "INVITE"
  BY <1>p, <1>1 DEF Plain, Hears
<1> QED BY <1>2 DEF Agentless, Unoffered, Engaged, Rung

\* The session still knows the agent.
LEMMA ServerRefersOn ==
  ASSUME Kept, NEW n \in Numbers, NEW m, NEW c \in CallIds, Served(n, m, c), Comes(c, n, m),
         GuidedCall(c), UsualOf(c), MetCall(c), ~Accepts(c, m),
         UNCHANGED phone, \A a \in Agents : Engaged(c, a)' => Engaged(c, a)
  PROVE  Refers(c)'
<1> SUFFICES ASSUME sessions'[c] # None
             PROVE  /\ sessions'[c].state # "Cancel"
                    /\ \A a \in Agents : Engaged(c, a) => sessions'[c].referedDest = a
                    /\ Ended(c) \/ sessions'[c].dest \in {None, Ivr}
  BY DEF Refers, Ended
<1>0. Server!Handle(m) /\ m.callID = c /\ ServerKeeps /\ m \in Rises(c, n) /\ Utters(c, n, m)
      /\ Arrives(c, n, m)
  BY ServedStays DEF Served, Kept, Programs, Comes
<1>1. Reports(c, n, m) /\ Refers(c) /\ InTouch(c)
  BY <1>0 DEF MetCall
<1>2. Turned(sessions[c], sessions'[c], m)
  BY <1>0, HandleTurns
<1>3. sessions'[c].state # "Cancel"
  BY <1>0, <1>1, <1>2 DEF Turned, Utters, Refers
<1>4. ASSUME NEW a \in Agents, Engaged(c, a)
      PROVE  sessions'[c].referedDest = a
  <2>1. ~Unoffered(c)
    BY <1>4 DEF Unoffered
  <2>2. m.type # "INVITE"
    <3> SUFFICES ASSUME m.type = "INVITE"
                 PROVE  FALSE
      OBVIOUS
    <3>1. m = Invitation(c)
      BY <1>0 DEF Arrives
    <3>2. Leads(c, m)
      BY <1>0, <3>1, InvitationIs DEF Leads, Opens
    <3> QED BY <2>1, <3>2, ServedLead, AgentlessUnoffered
  <2>3. m.type \notin {"480", "486"}
    BY <1>1, <2>1 DEF Reports
  <2> QED BY <1>1, <1>2, <1>4, <2>2, <2>3 DEF Turned, Refers
<1>5. Ended(c) \/ sessions'[c].dest \in {None, Ivr}
  <2>1. CASE sessions'[c].dest = None
    BY <2>1
  <2>2. CASE sessions[c] # None /\ sessions'[c].dest = sessions[c].dest
    BY <1>1, <2>2 DEF Refers
  <2>3. CASE /\ OkInvite(m) /\ sessions'[c].dest = m.to
             /\ sessions[c] # None /\ ~Server!Transfered(sessions[c], m)
             /\ ~Server!UpdateMedia(sessions[c], m)
    <3>1. ~Transfers(c, m) /\ ~Updates(c, m)
      BY <2>3 DEF Transfers, Updates
    <3> QED BY <1>1, <2>3, <3>1, AnswerIsIvrs
  <2> QED BY <1>2, <2>1, <2>2, <2>3 DEF Turned
<1> QED BY <1>3, <1>4, <1>5

\* The server passes on what the parties of a call say.
LEMMA ServerPasses ==
  ASSUME Kept, NEW n \in Numbers, ServerStep(n), Kept', NEW m, NEW c \in CallIds, Served(n, m, c),
         Comes(c, n, m), GuidedCall(c), UsualOf(c), MetCall(c), ~Accepts(c, m)
  PROVE  MetCall(c)'
<1>0. /\ sent' \in Seq(Of(c)) /\ Of(c) \in SUBSET Datagram /\ UNCHANGED <<phone, rtp, dialog>>
      /\ c \in Numbers /\ c \notin Agents /\ Ivr \notin Agents /\ Agents \subseteq Numbers
      /\ m \in Rises(c, n) /\ In(sent') \in SUBSET Datagram
  BY ServedStays, PartyType, CallFlowAssumption, SipAssumption
     DEF Served, ServerDoes, phoneVars, Numbers, Callers
<1>1. Reports(c, n, m) /\ Refers(c) /\ InTouch(c) /\ Sole(c)
  BY <1>0 DEF MetCall
<1>2. \A x \in In(sent') : Gives(c, m, x.peer, x)
  BY DEF Served, DuesOf, Due
<1>3. \A k \in Numbers : /\ Rises(c, k)' \subseteq Rises(c, k)
                         /\ Falls(c, k) \subseteq Falls(c, k)'
                         /\ \A x \in Falls(c, k)' : x \in Falls(c, k) \/ (x \in In(sent') /\ x.peer = k)
  BY <1>0, ServerLinks
<1>4. \A a \in Agents : \A x \in In(sent') : x.peer = a => x.type # "INVITE"
  BY <1>0, <1>2 DEF Gives
<1>5. ASSUME NEW a \in Agents
      PROVE  Once(c, downlink'[a])
  <2> DEFINE S == {x \in In(sent') : x.peer = a}
  <2>1. PICK q \in {downlink'[a]} : TRUE
    OBVIOUS
  <2>2. downlink \in [Numbers -> Seq(Datagram)] /\ sent' \in Seq(In(sent')) /\ downlink' = Delivered(downlink)
    BY <1>0, SeqOfIn DEF Kept, Down, ServerStep
  <2>a. PICK W \in {In(sent')} : TRUE
    OBVIOUS
  <2>b. W \in SUBSET Datagram /\ sent' \in Seq(W) /\ a \in Numbers
    BY <1>0, <2>2, <2>a
  <2>c. \E s \in Seq({x \in W : x.peer = a}) : Delivered(downlink)[a] = downlink[a] \o s
    BY <2>2, <2>b, DeliveredTo
  <2>3. \E s \in Seq(S) : q = downlink[a] \o s
    BY <2>1, <2>2, <2>a, <2>c
  <2>4. /\ S \in SUBSET Datagram /\ \A x \in S : ~Rings(c, x)
        /\ downlink[a] \in Seq(Datagram) /\ Once(c, downlink[a])
    BY <1>0, <1>1, <1>4, <2>2 DEF Rings, Sole
  <2> HIDE DEF S
  <2>5. Grows(downlink[a], q, S)
    BY <2>3 DEF Grows
  <2> QED BY <2>1, <2>4, <2>5, OnceGrows
<1>6. \A a \in Agents : (Rung(c, a)' <=> Rung(c, a)) /\ (Engaged(c, a)' <=> Engaged(c, a))
  BY <1>0, <1>3, <1>4 DEF Rung, Engaged
<1>7. /\ \A a \in Agents : Holds(c, a)' <=> Holds(c, a)
      /\ Ended(c)' <=> Ended(c)
      /\ Unoffered(c)' <=> Unoffered(c)
  BY <1>0, <1>6 DEF Holds, Ended, Unoffered
<1>8. Sole(c)'
  <2>1. \A a \in Agents : Rung(c, a)' => dialog'[a] # c
    BY <1>0, <1>1, <1>6 DEF Sole
  <2>2. \A a, b \in Agents : Engaged(c, a)' /\ Engaged(c, b)' => a = b
    BY <1>1, <1>6 DEF Sole
  <2> QED BY <1>5, <2>1, <2>2 DEF Sole
<1>9. Refers(c)'
  BY <1>0, <1>6, ServerRefersOn
<1>10. InTouch(c)'
  BY <1>0, <1>1 DEF InTouch
<1>11. ASSUME NEW k \in Numbers, NEW x \in Falls(c, k)', x \notin Falls(c, k)
       PROVE  Brings(c, k, x)'
  <2>1. Gives(c, m, k, x)
    BY <1>2, <1>3, <1>11
  <2>2. Brings(c, k, x)
    BY <1>1, <2>1, GivesBrings
  <2>3. Holds(c, x.sdp) => Holds(c, x.sdp)'
    BY <1>7 DEF Holds
  <2> QED BY <1>0, <1>7, <2>2, <2>3 DEF Brings
<1> QED BY <1>0, <1>3, <1>7, <1>8, <1>9, <1>10, <1>11, MetStays

\* The second of two datagrams is put on the link of its number.
LEMMA DeliveredSecond ==
  ASSUME NEW link \in [Numbers -> Seq(Datagram)], NEW x \in Datagram, NEW y \in Datagram,
         sent' = <<x, y>>, NEW n \in Numbers, x.peer # n
  PROVE  Delivered(link)[n] = IF y.peer = n THEN link[n] \o <<y>> ELSE link[n]
<1> DEFINE a == IF y.peer = n THEN <<y>> ELSE <<>>
<1>1. Nth(1, n) = <<>> /\ Nth(2, n) = a /\ Nth(3, n) = <<>>
  BY DEF Nth
<1>3. link[n] \in Seq(Datagram) /\ a \in Seq(Datagram)
  OBVIOUS
<1> HIDE DEF a
<1>2. Delivered(link)[n] = link[n] \o <<>> \o a \o <<>>
  BY <1>1 DEF Delivered
<1>4. link[n] \o <<>> \o a \o <<>> = link[n] \o a /\ link[n] \o <<>> = link[n]
  BY <1>3
<1> QED BY <1>2, <1>4 DEF a

\* What the server sends when it accepts a referral, and what it remembers.
LEMMA ReferralIs ==
  ASSUME Kept, NEW n \in Numbers, NEW m, NEW c \in CallIds, Served(n, m, c), Accepts(c, m)
  PROVE  /\ sessions[c] # None /\ sessions'[c].state = sessions[c].state
         /\ sessions'[c].dest = Ivr /\ sessions'[c].referedDest = m.referTo
         /\ \E z, w \in Datagram : /\ sent' = <<z, w>> /\ In(sent') = {z, w}
                                   /\ z.type = "202" /\ z.peer = Ivr
                                   /\ w.type = "INVITE" /\ w.peer = m.referTo
<1>0. Ivr \in clients /\ sent' \in Seq(Datagram) /\ sessions \in [CallIds -> OrNone(Server!Session)]
  BY ServedStays DEF Kept, Known, Programs, ServerKeeps
<1>1. /\ sessions[c] # None /\ sessions[c].dest = Ivr /\ m.referTo \in clients
      /\ sessions' = [sessions EXCEPT ![c] = [sessions[c] EXCEPT !.referedDest = m.referTo]]
  BY DEF Accepts
<1>2. sessions'[c] = [sessions[c] EXCEPT !.referedDest = m.referTo] /\ sessions[c] \in Server!Session
  BY <1>0, <1>1 DEF OrNone
<1>3. /\ sessions'[c].state = sessions[c].state
      /\ sessions'[c].dest = Ivr /\ sessions'[c].referedDest = m.referTo
  BY <1>1, <1>2 DEF Server!Session
<1> DEFINE y == AcceptedOf(c, sessions[c])
           r == RingOf(c, sessions[c], m.referTo)
<1>4. PICK z \in {Server!Route(Ivr, y)}, w \in {Server!Route(m.referTo, r)} : TRUE
  OBVIOUS
<1>5. sent' = <<z, w>>
  BY <1>4 DEF Accepts
<1>6. In(sent') = {z, w}
  BY <1>5, InTwo
<1>7. z \in Datagram /\ w \in Datagram
  BY <1>0, <1>6, InType
<1>8. z = [y EXCEPT !.peer = Ivr] /\ w = [r EXCEPT !.peer = m.referTo]
  BY <1>0, <1>1, <1>4 DEF Server!Route, Server!EndHandle
<1>9. z.type = "202" /\ z.peer = Ivr
  BY <1>8 DEF AcceptedOf, Made
<1>10. w.type = "INVITE" /\ w.peer = m.referTo
  BY <1>8 DEF RingOf, Made
<1> QED BY <1>1, <1>3, <1>5, <1>6, <1>7, <1>9, <1>10

\* The server offers a call to an agent: none has been offered it before.
LEMMA ServerOffers ==
  ASSUME Kept, NEW n \in Numbers, ServerStep(n), Kept', NEW m, NEW c \in CallIds, Served(n, m, c),
         GuidedCall(c), UsualOf(c), MetCall(c), Accepts(c, m)
  PROVE  MetCall(c)'
<1>0. /\ sent' \in Seq(Of(c)) /\ Of(c) \in SUBSET Datagram /\ UNCHANGED <<phone, rtp, dialog>>
      /\ c \in Numbers /\ c \notin Agents /\ Ivr \notin Agents /\ Agents \subseteq Numbers
      /\ m \in Rises(c, n) /\ m.type = "REFER" /\ m.callID = c
  <2>1. UNCHANGED <<phone, rtp, dialog>> /\ m \in Rises(c, n)
    BY DEF Served, ServerDoes, phoneVars
  <2>2. c \in Numbers /\ c \notin Agents /\ Ivr \notin Agents /\ Agents \subseteq Numbers
    BY PartyType, CallFlowAssumption, SipAssumption DEF Numbers, Callers
  <2>3. m.type = "REFER"
    BY DEF Accepts
  <2> QED BY <2>1, <2>2, <2>3, ServedStays
<1>1. Refers(c) /\ InTouch(c) /\ Sole(c) /\ m.referTo \in Agents
  BY <1>0 DEF MetCall, UsualOf, Utters
<1>2. Leads(c, m)
  BY <1>0 DEF Leads
<1>3. Agentless(c)
  BY <1>2, ServedLead
<1>4. Unoffered(c) /\ OnlyPlain(c)
  BY <1>3, AgentlessUnoffered DEF Agentless
<1>5. /\ sessions[c] # None /\ sessions'[c].state = sessions[c].state
      /\ sessions'[c].dest = Ivr /\ sessions'[c].referedDest = m.referTo
  BY ReferralIs
<1>6. PICK z, w \in Datagram : /\ sent' = <<z, w>> /\ In(sent') = {z, w}
                               /\ z.type = "202" /\ z.peer = Ivr
                               /\ w.type = "INVITE" /\ w.peer = m.referTo
  BY ReferralIs
<1>7. \A k \in Numbers : /\ Rises(c, k)' \subseteq Rises(c, k)
                         /\ \A x \in Falls(c, k)' : x \in Falls(c, k) \/ (x \in In(sent') /\ x.peer = k)
  BY <1>0, ServerLinks
<1>8. ASSUME NEW a \in Agents
      PROVE  Once(c, downlink'[a])
  <2>1. downlink \in [Numbers -> Seq(Datagram)] /\ downlink' = Delivered(downlink) /\ a \in Numbers
    BY <1>0 DEF Kept, Down, ServerStep
  <2>2. downlink[a] \in Seq(Datagram)
    BY <2>1
  <2>a. z.peer # a /\ sent' = <<z, w>>
    BY <1>0, <1>6
  <2>b. Delivered(downlink)[a] = IF w.peer = a THEN downlink[a] \o <<w>> ELSE downlink[a]
    BY <2>1, <2>a, DeliveredSecond, SMTT(30)
  <2>3. downlink'[a] = IF w.peer = a THEN downlink[a] \o <<w>> ELSE downlink[a]
    BY <2>1, <2>b
  <2>4. \A x \in In(downlink[a]) : ~Rings(c, x)
    BY <1>4 DEF Unoffered, Engaged, Rung, Falls, Rings
  <2>5. Once(c, downlink[a]) /\ Once(c, downlink[a] \o <<w>>)
    BY <1>1, <2>2, <2>4, OncePut DEF Sole
  <2> QED BY <2>3, <2>5
<1>9. \A a \in Agents : /\ Engaged(c, a)' => a = m.referTo
                        /\ dialog[a] # c
  <2>1. \A a \in Agents : \A x \in Falls(c, a) : x.type # "INVITE"
    BY <1>4 DEF Unoffered, Engaged, Rung
  <2>2. \A a \in Agents : \A x \in Falls(c, a)' : x.type = "INVITE" => a = m.referTo
    BY <1>0, <1>6, <1>7, <2>1
  <2> QED BY <1>0, <1>4, <2>2 DEF Unoffered, Engaged, Rung
<1>10. Sole(c)'
  <2>1. \A a \in Agents : Rung(c, a)' => dialog'[a] # c
    BY <1>0, <1>9
  <2>2. \A a, b \in Agents : Engaged(c, a)' /\ Engaged(c, b)' => a = b
    BY <1>9
  <2> QED BY <1>8, <2>1, <2>2 DEF Sole
<1>11. Refers(c)'
  BY <1>1, <1>5, <1>9 DEF Refers
<1>12. InTouch(c)'
  BY <1>0, <1>1 DEF InTouch
<1>13. ASSUME NEW k \in Numbers, NEW x \in Falls(c, k)', x \notin Falls(c, k)
       PROVE  Brings(c, k, x)'
  <2>1. x.peer = k /\ x \in {z, w}
    BY <1>6, <1>7, <1>13
  <2> QED BY <1>0, <1>1, <1>6, <2>1 DEF Brings, OkInvite
<1>14. (\A a \in Agents : ~Holds(c, a)) /\ (Ended(c)' <=> Ended(c))
  BY <1>0, <1>9 DEF Holds, Ended
<1> QED BY <1>0, <1>4, <1>7, <1>10, <1>11, <1>12, <1>13, <1>14, MetStays

\* No step of the server takes anybody out of touch.
LEMMA ServerMet ==
  ASSUME Kept, Told, Usual, Usual', Guided, Met, NEW n \in Numbers, ServerStep(n)
  PROVE  Met'
<1>1. PICK m \in Datagram, c \in CallIds :
           /\ ServerDoes(n, m, c) /\ m \in Rises(c, n) /\ m.type # "REGISTER"
           /\ Comes(c, n, m) /\ DuesOf(c, m)
  BY ServerWorks
<1>2. Kept'
  BY ServerStepDoes
<1>3. Served(n, m, c) /\ GuidedCall(c)
  BY <1>1 DEF Served, Guided
<1>4. MetCall(c)'
  BY <1>1, <1>2, <1>3, ServerPasses, ServerOffers DEF Met, Usual
<1>5. \A d \in CallIds \ {c} : MetCall(d)'
  BY <1>1, <1>2, ServerMetOthers DEF Met, Usual
<1>6. Unengaged'
  BY <1>1 DEF ServerDoes, phoneVars, Met, Unengaged
<1> QED BY <1>4, <1>5, <1>6 DEF Met

\* No step of the IVR does.
LEMMA IvrMet ==
  ASSUME Kept, Usual, Usual', Met, NEW c, IvrDoes(c), \A a \in Agents : downlink'[a] = downlink[a]
  PROVE  Met'
<1>1. /\ UNCHANGED <<sessions, phone, rtp, dialog>>
      /\ \A k \in Numbers \ {Ivr} : uplink'[k] = uplink[k]
      /\ \A k \in Numbers : In(downlink'[k]) \subseteq In(downlink[k])
  BY DEF IvrDoes, serverVars, phoneVars
<1>2. ASSUME NEW d \in CallIds
      PROVE  MetCall(d)'
  <2>1. \A k \in Numbers : /\ k = Ivr \/ Rises(d, k)' \subseteq Rises(d, k)
                           /\ Falls(d, k)' \subseteq Falls(d, k)
    BY <1>1 DEF Rises, Falls
  <2>2. \A a \in Agents : Once(d, downlink'[a])
    BY DEF Met, MetCall, Sole
  <2> QED BY <1>1, <2>1, <2>2, MetApart DEF Met, Usual
<1>3. Unengaged'
  BY <1>1 DEF Met, Unengaged
<1> QED BY <1>2, <1>3 DEF Met
-----------------------------------------------------------------------------
(***************************************************************************)
(* What a caller's phone does.                                             *)
(***************************************************************************)
\* A phone's step is not that of another's.
Aside(u) == \A v \in Users \ {u} : phone'[v] = phone[v] /\ rtp'[v] = rtp[v]

\* Nobody can tell, or the caller dials, is greeted by the IVR, is joined to
\* the agent, or is through with the call.
CallerMoves(c) ==
  \/ /\ rtp'[c] = rtp[c]
     /\ \/ phone'[c] = phone[c]
        \/ {phone[c], phone'[c]} \subseteq {"calling", "abandoning"}
        \/ Ended(c) /\ Ended(c)'
  \/ phone[c] = "idle" /\ phone'[c] = "calling" /\ rtp'[c] = None
  \/ phone[c] \in {"calling", "abandoning"} /\ phone'[c] = "talking" /\ rtp'[c] = Ivr
  \/ /\ phone[c] = "talking" /\ phone'[c] = "talking" /\ rtp[c] = Ivr
     /\ Holds(c, rtp'[c])
  \/ phone[c] \in {"calling", "abandoning", "talking"} /\ Ended(c)' /\ rtp'[c] = None

\* What a phone says of a call is so.
Tells(c, u) ==
  \E ms \in Seq(Of(c)) : Sends(u, ms) /\ \A x \in In(ms) : Reports(c, u, x)'

CallerGoes(c) == CallerMoves(c) /\ Aside(c) /\ Tells(c, c)

\* What the caller is told.
CallerTold(c, m) ==
  /\ downlink[c] # <<>> /\ m = Head(downlink[c]) /\ m \in Of(c)
  /\ Hears(c, c, m) /\ Brings(c, c, m)
  /\ Waiting(c) => Plain(c, m)

\* A phone that becomes something else.
LEMMA BecomesAside ==
  ASSUME Phones, NEW u \in Users, NEW st, NEW to, Becomes(u, st, to)
  PROVE  phone'[u] = st /\ rtp'[u] = to /\ Aside(u)
BY DEF Phones, Becomes, Aside

\* A phone that says nothing, ...
LEMMA NothingTold ==
  ASSUME NEW c, NEW u, Sends(u, <<>>)
  PROVE  Tells(c, u)
<1>1. <<>> \in Seq(Of(c)) /\ In(<<>>) = {}
  BY InNone
<1> QED BY <1>1 DEF Tells

\* ... one thing ...
LEMMA OneTold ==
  ASSUME NEW c, NEW u, NEW x \in Of(c), Sends(u, <<x>>), Reports(c, u, x)'
  PROVE  Tells(c, u)
<1>1. <<x>> \in Seq(Of(c)) /\ In(<<x>>) = {x}
  BY InOne
<1> QED BY <1>1 DEF Tells

\* ... or two.
LEMMA TwoTold ==
  ASSUME NEW c, NEW u, NEW x \in Of(c), NEW y \in Of(c), Sends(u, <<x, y>>),
         Reports(c, u, x)', Reports(c, u, y)'
  PROVE  Tells(c, u)
<1>1. <<x, y>> \in Seq(Of(c)) /\ In(<<x, y>>) = {x, y}
  BY InTwo
<1> QED BY <1>1 DEF Tells

\* The BYE, and the ACK.
LEMMA CallersTell ==
  ASSUME NEW c \in CallIds, NEW to \in Party(c)
  PROVE  /\ Own("BYE", c, c, Ivr) \in Of(c) /\ Reports(c, c, Own("BYE", c, c, Ivr))'
         /\ Own("ACK", c, c, to) \in Of(c)
         /\ Ended(c)' \/ to = Ivr => Reports(c, c, Own("ACK", c, c, to))'
<1>0. c \in Party(c) /\ Ivr \in Party(c)
  BY PartyType
<1>1. PICK x \in {Own("ACK", c, c, to)}, y \in {Own("BYE", c, c, Ivr)} : TRUE
  OBVIOUS
<1>2. x \in Of(c) /\ y \in Of(c)
  BY <1>0, <1>1, OwnUtter DEF Utter
<1>3. x.type = "ACK" /\ x.to = to /\ y.type = "BYE"
  BY <1>1, OwnFields DEF Made
<1>4. Reports(c, c, y)' /\ (Ended(c)' \/ to = Ivr => Reports(c, c, x)')
  BY <1>3 DEF Reports, OkInvite
<1> QED BY <1>1, <1>2, <1>4

\* The answer to the caller's INVITE is the IVR's.
LEMMA AnsweredGoes ==
  ASSUME Phones, NEW c \in CallIds, NEW m, CallerTold(c, m), CallerAnswered(c, m)
  PROVE  CallerGoes(c)
<1>0. /\ c \in Users /\ m.to \in Party(c) /\ m.type = "200" /\ m.cseq = "INVITE"
      /\ m.sdp = m.to /\ (Ended(c) \/ m.to = Ivr)
  BY CallFlowAssumption DEF CallerTold, CallerAnswered, Brings, OkInvite, Of
<1>b. \A st, to : Becomes(c, st, to) => phone'[c] = st /\ rtp'[c] = to /\ Aside(c)
  BY <1>0, BecomesAside
<1>w. Waiting(c) => m.to = Ivr
  BY <1>0 DEF CallerTold, Plain
<1>1. PICK x \in {Own("ACK", c, c, m.to)}, y \in {Own("BYE", c, c, Ivr)} : TRUE
  OBVIOUS
<1>2. x \in Of(c) /\ y \in Of(c) /\ Reports(c, c, y)' /\ (Ended(c)' \/ m.to = Ivr => Reports(c, c, x)')
  <2>1. Reports(c, c, Own("BYE", c, c, Ivr))' /\ (Ended(c)' \/ m.to = Ivr => Reports(c, c, Own("ACK", c, c, m.to))')
    BY <1>0, CallersTell
  <2> QED BY <1>0, <1>1, <2>1, CallersTell
<1>3. CASE phone[c] = "calling" /\ Becomes(c, "talking", m.sdp) /\ Takes(c, <<x>>)
  <2>1. m.to = Ivr /\ Sends(c, <<x>>)
    BY <1>3, <1>w DEF Waiting, Takes
  <2>2. CallerMoves(c) /\ Aside(c)
    BY <1>0, <1>b, <1>3, <2>1 DEF CallerMoves
  <2> QED BY <1>2, <2>1, <2>2, OneTold DEF CallerGoes
<1>4. CASE phone[c] = "abandoning" /\ Becomes(c, "hanging", None) /\ Takes(c, <<x, y>>)
  <2>1. m.to = Ivr /\ Sends(c, <<x, y>>)
    BY <1>4, <1>w DEF Waiting, Takes
  <2>2. CallerMoves(c) /\ Aside(c)
    BY <1>b, <1>4 DEF CallerMoves, Ended
  <2> QED BY <1>2, <2>1, <2>2, TwoTold DEF CallerGoes
<1>5. CASE Takes(c, <<x>>) /\ UNCHANGED <<phone, rtp>>
  <2>1. Sends(c, <<x>>) /\ (Ended(c)' \/ m.to = Ivr)
    BY <1>0, <1>5 DEF Takes, Ended
  <2>2. CallerMoves(c) /\ Aside(c)
    BY <1>5 DEF CallerMoves, Aside
  <2> QED BY <1>2, <2>1, <2>2, OneTold DEF CallerGoes
<1> QED BY <1>1, <1>3, <1>4, <1>5 DEF CallerAnswered

\* The re-INVITE is for the agent who has taken the call.
LEMMA ReinvitedGoes ==
  ASSUME Phones, NEW c \in CallIds, NEW m, CallerTold(c, m), Sole(c), InTouch(c), CallerReinvited(c, m)
  PROVE  CallerGoes(c)
<1>0. /\ c \in Users /\ m.type = "INVITE" /\ m.cseq = "INVITE" /\ m.sdp \in Agents /\ m \in Datagram /\ m \in Of(c)
      /\ Ended(c) \/ Holds(c, m.sdp)
  BY CallFlowAssumption DEF CallerTold, CallerReinvited, Brings, Hears, Of
<1>1. CASE Takes(c, <<>>) /\ UNCHANGED <<phone, rtp>>
  <2>1. Sends(c, <<>>) /\ CallerMoves(c) /\ Aside(c)
    BY <1>1 DEF Takes, CallerMoves, Aside
  <2> QED BY <2>1, NothingTold DEF CallerGoes
<1>2. CASE /\ phone[c] = "talking" /\ Becomes(c, "talking", m.sdp)
           /\ Takes(c, <<[Reply("200", c, m) EXCEPT !.sdp = c]>>)
  <2>1. phone'[c] = "talking" /\ rtp'[c] = m.sdp /\ Aside(c)
    BY <1>0, <1>2, BecomesAside
  <2>2. Holds(c, m.sdp)
    BY <1>0, <1>2 DEF Ended
  <2>3. rtp[c] = m.sdp \/ rtp[c] = Ivr
    <3>1. rtp[c] \in Agents => Engaged(c, rtp[c])
      BY DEF InTouch, Engaged
    <3>2. Engaged(c, m.sdp)
      BY <2>2 DEF Holds, Engaged
    <3> QED BY <1>0, <1>2, <3>1, <3>2 DEF Sole, InTouch
  <2>4. CallerMoves(c)
    BY <1>2, <2>1, <2>2, <2>3 DEF CallerMoves
  <2>5. PICK x \in {[Reply("200", c, m) EXCEPT !.sdp = c]} : TRUE
    OBVIOUS
  <2>6. x \in Of(c)
    <3>1. c \in Party(c)
      BY PartyType
    <3>2. [Reply("200", c, m) EXCEPT !.sdp = c] \in Utter(c, c)
      BY <1>0, <3>1, ReplyUtter
    <3>3. x \in Utter(c, c)
      BY <2>5, <3>2
    <3> QED BY <3>3 DEF Utter
  <2>7. x.type = "200" /\ x.cseq = "INVITE"
    <3>1. /\ [Reply("200", c, m) EXCEPT !.sdp = c].type = "200"
          /\ [Reply("200", c, m) EXCEPT !.sdp = c].cseq = "INVITE"
      BY <1>0, ReplyFields
    <3> QED BY <2>5, <3>1
  <2>8. c \notin Agents
    BY PartyType
  <2>9. Reports(c, c, x)'
    BY <1>0, <2>1, <2>7, <2>8 DEF Reports
  <2>10. Sends(c, <<x>>)
    BY <1>2, <2>5 DEF Takes
  <2> QED BY <2>1, <2>4, <2>6, <2>9, <2>10, OneTold DEF CallerGoes
<1> QED BY <1>1, <1>2 DEF CallerReinvited

\* The caller is told that the call is over, or is not disturbed.
LEMMA ToldGoes ==
  ASSUME Phones, NEW c \in CallIds, NEW m, CallerTold(c, m),
         \/ CallerToldBye(c, m) \/ CallerByeAnswered(c, m)
         \/ CallerToldTerminated(c, m) \/ CallerIgnores(c, m)
  PROVE  CallerGoes(c)
<1>0. /\ c \in Users /\ m \in Datagram /\ m \in Of(c) /\ m.to \in Party(c) /\ c \in Party(c)
      /\ (m.type = "487" => Ended(c)) /\ (m.type = "BYE" => m.cseq = "BYE")
  BY CallFlowAssumption, PartyType DEF CallerTold, Brings, Hears, Of
<1>b. \A st, to : Becomes(c, st, to) => phone'[c] = st /\ rtp'[c] = to /\ Aside(c)
  BY <1>0, BecomesAside
<1>1. PICK x \in {Reply("200", c, m)}, y \in {[m EXCEPT !.type = "ACK", !.cseq = "ACK", !.peer = c]} : TRUE
  OBVIOUS
<1>2. x \in Of(c) /\ y \in Of(c)
  <2>1. /\ Reply("200", c, m) \in Utter(c, c)
        /\ [m EXCEPT !.type = "ACK", !.cseq = "ACK", !.peer = c] \in Utter(c, c)
    BY <1>0, ReplyUtter
  <2>2. x \in Utter(c, c) /\ y \in Utter(c, c)
    BY <1>1, <2>1
  <2> QED BY <2>2 DEF Utter
<1>3. x.type = "200" /\ x.cseq = m.cseq /\ y.type = "ACK"
  <2>1. /\ Reply("200", c, m).type = "200" /\ Reply("200", c, m).cseq = m.cseq
        /\ [m EXCEPT !.type = "ACK", !.cseq = "ACK", !.peer = c].type = "ACK"
    BY <1>0, ReplyFields
  <2> QED BY <1>1, <2>1
<1>4. /\ m.cseq = "BYE" => Reports(c, c, x)'
      /\ Ended(c)' => Reports(c, c, y)'
  BY <1>3 DEF Reports, OkInvite
<1>5. CASE Takes(c, <<>>) /\ UNCHANGED <<phone, rtp>>
  <2>1. Sends(c, <<>>) /\ CallerMoves(c) /\ Aside(c)
    BY <1>5 DEF Takes, CallerMoves, Aside
  <2> QED BY <2>1, NothingTold DEF CallerGoes
<1>6. CASE CallerToldBye(c, m) /\ Takes(c, <<x>>)
  <2>1. m.cseq = "BYE" /\ Sends(c, <<x>>)
    BY <1>0, <1>6 DEF CallerToldBye, Takes
  <2>2. CASE phone[c] = "talking" /\ Becomes(c, "done", None)
    BY <1>2, <1>4, <1>b, <2>1, <2>2, OneTold DEF CallerGoes, CallerMoves, Ended
  <2>3. CASE UNCHANGED <<phone, rtp>>
    BY <1>2, <1>4, <2>1, <2>3, OneTold DEF CallerGoes, CallerMoves, Aside
  <2>4. CASE phone[c] \notin {"talking", "hanging"}
    BY <1>6, <2>3, <2>4 DEF CallerToldBye
  <2> QED BY <1>6, <2>2, <2>3 DEF CallerToldBye
<1>7. CASE CallerByeAnswered(c, m)
  <2>1. Sends(c, <<>>)
    BY <1>7 DEF CallerByeAnswered, Takes
  <2>2. rtp'[c] = rtp[c] /\ (phone'[c] = phone[c] \/ (phone[c] = "hanging" /\ phone'[c] = "done")) /\ Aside(c)
    BY <1>7, <1>b DEF CallerByeAnswered
  <2> QED BY <2>1, <2>2, NothingTold DEF CallerGoes, CallerMoves, Ended
<1>8. CASE CallerToldTerminated(c, m) /\ Takes(c, <<y>>)
  <2>1. Sends(c, <<y>>) /\ UNCHANGED <<phone, rtp>> /\ Ended(c)'
    BY <1>0, <1>8 DEF CallerToldTerminated, Takes, Ended
  <2> QED BY <1>2, <1>4, <2>1, OneTold DEF CallerGoes, CallerMoves, Aside
<1> QED BY <1>1, <1>5, <1>6, <1>7, <1>8 DEF CallerToldBye, CallerToldTerminated, CallerIgnores

\* The caller's INVITE.
LEMMA DialGoes ==
  ASSUME Kept, NEW c \in CallIds, InTouch(c), Dial(c)
  PROVE  CallerGoes(c)
<1>0. c \in Users /\ Phones
  BY CallFlowAssumption DEF Kept
<1>1. phone[c] = "idle" /\ phone'[c] = "calling" /\ rtp'[c] = None /\ Aside(c)
  BY <1>0, BecomesAside DEF Dial
<1>2. PICK x \in {Invitation(c)} : TRUE
  OBVIOUS
<1>3. x \in Of(c) /\ x.type = "INVITE"
  BY <1>2, InvitationIs
<1>4. Sends(c, <<Invitation(c)>>)
  BY DEF Dial, Acts, Invitation
<1>5. Sends(c, <<x>>)
  BY <1>2, <1>4
<1>6. Reports(c, c, x)'
  BY <1>3 DEF Reports, OkInvite
<1> QED BY <1>1, <1>3, <1>5, <1>6, OneTold DEF CallerGoes, CallerMoves

\* In each of its steps a caller's phone goes on so.
LEMMA CallerGoesOn ==
  ASSUME Kept, Usual, Guided, Met, NEW c \in CallIds, Dial(c) \/ CallerActs(c)
  PROVE  CallerGoes(c)
<1>0. /\ c \in Users /\ c \in Numbers /\ Phones /\ downlink \in [Numbers -> Seq(Datagram)]
      /\ Sole(c) /\ InTouch(c) /\ MetCall(c) /\ UsualOf(c) /\ GuidedCall(c)
  BY CallFlowAssumption, PartyType DEF Kept, Down, Met, MetCall, Usual, Guided
<1>b. \A st, to : Becomes(c, st, to) => phone'[c] = st /\ rtp'[c] = to /\ Aside(c)
  BY <1>0, BecomesAside
<1>1. CASE Dial(c)
  BY <1>0, <1>1, DialGoes
<1>2. CASE Abandon(c)
  <2>1. Sends(c, <<>>) /\ phone[c] = "calling" /\ rtp[c] = None
    BY <1>0, <1>2 DEF Abandon, Acts, InTouch
  <2>2. CallerMoves(c) /\ Aside(c)
    BY <1>2, <1>b, <2>1 DEF Abandon, CallerMoves
  <2> QED BY <2>1, <2>2, NothingTold DEF CallerGoes
<1>3. CASE CallerHangsUp(c)
  <2>1. PICK y \in {Own("BYE", c, c, Ivr)} : TRUE
    OBVIOUS
  <2>2. y \in Of(c) /\ Reports(c, c, y)'
    BY <2>1, CallersTell, PartyType
  <2>3. Sends(c, <<y>>) /\ CallerMoves(c) /\ Aside(c)
    BY <1>3, <1>b, <2>1 DEF CallerHangsUp, Acts, CallerMoves, Ended
  <2> QED BY <2>2, <2>3, OneTold DEF CallerGoes
<1>4. CASE CallerReceives(c)
  <2>1. PICK m \in {Head(downlink[c])} : TRUE
    OBVIOUS
  <2>2. /\ downlink[c] # <<>>
        /\ \/ CallerAnswered(c, m) \/ CallerReinvited(c, m) \/ CallerToldBye(c, m)
           \/ CallerByeAnswered(c, m) \/ CallerToldTerminated(c, m) \/ CallerIgnores(c, m)
    BY <1>4, <2>1 DEF CallerReceives
  <2>3. m \in Of(c)
    BY <1>0, <2>1, <2>2, OwnDownlink DEF Kept
  <2>4. m \in Falls(c, c)
    <3>1. m \in In(downlink[c])
      BY <1>0, <2>1, <2>2, InTail
    <3> QED BY <2>3, <3>1 DEF Falls, Of
  <2>5. Hears(c, c, m) /\ Brings(c, c, m) /\ (Waiting(c) => Plain(c, m))
    BY <1>0, <2>4 DEF UsualOf, MetCall, GuidedCall, Agentless, OnlyPlain
  <2>6. CallerTold(c, m)
    BY <2>1, <2>2, <2>3, <2>5 DEF CallerTold
  <2> QED BY <1>0, <2>2, <2>6, AnsweredGoes, ReinvitedGoes, ToldGoes
<1> QED BY <1>1, <1>2, <1>3, <1>4 DEF CallerActs

\* The caller's phone and the agent's stay in touch.
LEMMA CallerTouch ==
  ASSUME NEW c \in CallIds, MetCall(c), CallerMoves(c), Aside(c), UNCHANGED dialog
  PROVE  /\ InTouch(c)' /\ (Ended(c) => Ended(c)')
         /\ rtp[c] \in Agents => rtp'[c] = rtp[c] \/ Ended(c)'
<1>0. c \notin Agents /\ Ivr \notin Agents /\ None \notin Agents /\ Agents \subseteq Users
  BY PartyType, CallFlowAssumption, SipAssumption DEF Callers, Numbers
<1>1. InTouch(c) /\ \A a \in Agents : phone'[a] = phone[a]
  BY <1>0 DEF MetCall, Aside
<1>2. rtp'[c] = rtp[c] /\ (phone'[c] = "talking" <=> phone[c] = "talking") => InTouch(c)'
  BY <1>1 DEF InTouch
<1>3. rtp'[c] = Ivr /\ phone'[c] = "talking" => InTouch(c)'
  BY <1>0 DEF InTouch
<1>4. rtp'[c] = None /\ phone'[c] # "talking" => InTouch(c)'
  BY <1>0 DEF InTouch
<1>5. phone'[c] = "talking" /\ rtp[c] = Ivr /\ Holds(c, rtp'[c]) => InTouch(c)'
  BY <1>0, <1>1 DEF InTouch, Holds
<1>6. InTouch(c)'
  BY <1>2, <1>3, <1>4, <1>5 DEF CallerMoves, Ended
<1>7. (Ended(c) => Ended(c)') /\ (rtp[c] \in Agents => rtp'[c] = rtp[c] \/ Ended(c)')
  BY <1>0, <1>1 DEF CallerMoves, InTouch, Ended
<1> QED BY <1>6, <1>7

\* A caller's phone does not put anybody out of touch.
LEMMA CallerMet ==
  ASSUME Kept, Kept', Usual, Usual', Met, NEW c \in CallIds, CallerGoes(c), Listening(c), Apart,
         UNCHANGED dialog
  PROVE  Met'
<1>0. /\ c \notin Agents /\ Ivr \notin Agents /\ Agents \subseteq Users /\ Agents \subseteq Numbers
      /\ c \in Numbers /\ CallIds \subseteq Users /\ MetCall(c) /\ Of(c) \in SUBSET Datagram
      /\ UNCHANGED sessions
  BY PartyType, CallFlowAssumption, SipAssumption DEF Callers, Numbers, Met, Of, Apart, serverVars
<1>1. /\ \A a \in Agents : phone'[a] = phone[a]
      /\ \A d \in CallIds \ {c} : phone'[d] = phone[d] /\ rtp'[d] = rtp[d]
  BY <1>0 DEF CallerGoes, Aside
<1>2. PICK ms \in Seq(Of(c)) : Sends(c, ms) /\ \A x \in In(ms) : Reports(c, c, x)'
  BY DEF CallerGoes, Tells
<1>3. PICK S \in {Of(c)} : TRUE
  OBVIOUS
<1>4. /\ \A k \in Numbers \ {c} : uplink'[k] = uplink[k] /\ downlink'[k] = downlink[k]
      /\ \A k \in Numbers : In(downlink'[k]) \subseteq In(downlink[k])
      /\ In(uplink'[c]) = In(uplink[c]) \cup In(ms) /\ In(ms) \subseteq S
  BY <1>0, <1>2, <1>3, PhoneTurns
<1>5. \A d \in CallIds, k \in Numbers : Falls(d, k)' \subseteq Falls(d, k)
  BY <1>4 DEF Falls
<1>6. \A d \in CallIds, a \in Agents : downlink'[a] = downlink[a] /\ Once(d, downlink'[a])
  BY <1>0, <1>4 DEF Met, MetCall, Sole
<1>7. ASSUME NEW d \in CallIds \ {c}
      PROVE  MetCall(d)'
  <2>1. \A k \in Numbers : Rises(d, k)' \subseteq Rises(d, k)
    BY <1>3, <1>4 DEF Rises, Of
  <2> QED BY <1>0, <1>1, <1>5, <1>6, <2>1, MetApart DEF Met, Usual
<1>8. /\ InTouch(c)' /\ (Ended(c) => Ended(c)')
      /\ rtp[c] \in Agents => rtp'[c] = rtp[c] \/ Ended(c)'
  BY <1>0, CallerTouch DEF CallerGoes
<1>9. \A a \in Agents : (Rung(c, a)' <=> Rung(c, a)) /\ (Engaged(c, a)' <=> Engaged(c, a))
  BY <1>0, <1>6 DEF Rung, Engaged, Falls
<1>10. Sole(c)'
  <2>1. \A a \in Agents : Rung(c, a)' => dialog'[a] # c
    BY <1>0, <1>9 DEF MetCall, Sole
  <2>2. \A a, b \in Agents : Engaged(c, a)' /\ Engaged(c, b)' => a = b
    BY <1>0, <1>9 DEF MetCall, Sole
  <2> QED BY <1>6, <2>1, <2>2 DEF Sole
<1>11. Refers(c)'
  BY <1>0, <1>8, <1>9 DEF MetCall, Refers
<1>12. \A a \in Agents : Holds(c, a) => Holds(c, a)' \/ Ended(c)'
  BY <1>1, <1>8 DEF Holds
<1>13. Unoffered(c) => Unoffered(c)'
  BY <1>9 DEF Unoffered
<1>14. \A k \in Numbers : \A x \in Rises(c, k)' : x \in Rises(c, k) \/ Reports(c, k, x)'
  BY <1>2, <1>4 DEF Rises
<1>15. MetCall(c)'
  BY <1>0, <1>5, <1>8, <1>10, <1>11, <1>12, <1>13, <1>14, MetStays DEF Usual
<1>16. Unengaged'
  BY <1>1 DEF Met, Unengaged
<1> QED BY <1>7, <1>15, <1>16 DEF Met
-----------------------------------------------------------------------------
(***************************************************************************)
(* What an agent's phone does.                                             *)
(***************************************************************************)
\* The phone stays, is offered the call, accepts it, is bridged, hangs up,
\* or lets the call go.
AgentMoves(a, k) ==
  /\ \A b \in Agents \ {a} : dialog'[b] = dialog[b]
  /\ \/ phone'[a] = phone[a] /\ dialog'[a] = dialog[a]
     \/ /\ phone[a] = "idle" /\ phone'[a] = "ringing" /\ dialog'[a] = k
        /\ Rung(k, a) /\ ~Rung(k, a)'
     \/ /\ dialog[a] = k /\ dialog'[a] = k
        /\ \/ phone[a] = "ringing" /\ phone'[a] = "answered"
           \/ phone[a] = "answered" /\ phone'[a] = "talking" /\ (rtp[k] = a \/ Ended(k))
           \/ phone[a] = "talking" /\ phone'[a] = "hanging"
     \/ /\ dialog[a] = k /\ dialog'[a] = None /\ phone'[a] = "idle"
        /\ phone[a] = "ringing" \/ (phone[a] # "idle" /\ Ended(k))

AgentGoes(a, k) == AgentMoves(a, k) /\ Aside(a) /\ Tells(k, a)

\* What the agent is told of call k.
AgentTold(a, k, m) ==
  /\ downlink[a] # <<>> /\ m = Head(downlink[a]) /\ downlink' = [downlink EXCEPT ![a] = Tail(@)]
  /\ m \in Of(k) /\ m \in Falls(k, a) /\ Hears(k, a, m) /\ Heard(k, a, m) /\ Brings(k, a, m)

\* What the phone's own state is.
LEMMA AgentIs ==
  ASSUME Kept, NEW a \in Agents
  PROVE  /\ a \in Users /\ a \in Numbers /\ a \notin CallIds /\ a # Ivr
         /\ phone[a] # "idle" => dialog[a] \in CallIds
         /\ \A st, to : Becomes(a, st, to) => phone'[a] = st /\ Aside(a)
         /\ \A k : Engages(a, k) => dialog'[a] = k /\ \A b \in Agents \ {a} : dialog'[b] = dialog[b]
         /\ downlink \in [Numbers -> Seq(Datagram)]
<1>1. /\ a \in Users /\ a \in Numbers /\ a \notin CallIds /\ a # Ivr
      /\ phone[a] # "idle" => dialog[a] \in CallIds
      /\ dialog \in [Agents -> OrNone(CallIds)] /\ Phones
      /\ downlink \in [Numbers -> Seq(Datagram)]
  BY CallFlowAssumption, SipAssumption, PartyType DEF Kept, Phones, Down, Numbers, OrNone
<1>2. \A st, to : Becomes(a, st, to) => phone'[a] = st /\ Aside(a)
  BY <1>1, BecomesAside
<1>3. \A k : Engages(a, k) => dialog'[a] = k /\ \A b \in Agents \ {a} : dialog'[b] = dialog[b]
  BY <1>1 DEF Engages
<1> QED BY <1>1, <1>2, <1>3

\* Once the agent has taken in the INVITE, it is not on the way.
LEMMA InviteTaken ==
  ASSUME Kept, NEW a \in Agents, NEW k \in CallIds, NEW m, AgentTold(a, k, m), m.type = "INVITE", Sole(k)
  PROVE  Rung(k, a) /\ ~Rung(k, a)'
<1>1. downlink \in [Numbers -> Seq(Datagram)] /\ a \in Numbers
  BY AgentIs
<1>2. /\ downlink[a] \in Seq(Datagram) /\ downlink[a] # <<>> /\ m = Head(downlink[a])
      /\ downlink'[a] = Tail(downlink[a]) /\ Once(k, downlink[a]) /\ Rings(k, m)
  BY <1>1 DEF AgentTold, Sole, Rings, Of
<1>3. \A x \in In(Tail(downlink[a])) : ~Rings(k, x)
  BY <1>2, OnceTaken
<1>4. \A x \in In(downlink'[a]) : ~Rings(k, x)
  BY <1>2, <1>3
<1> QED BY <1>4 DEF Rung, Falls, Rings, AgentTold

\* Where the agent is out of the call, nobody is in it.
LEMMA OtherwiseUnoffered ==
  ASSUME NEW a \in Agents, NEW k, Sole(k), Engaged(k, a), ~Engaged(k, a)',
         \A b \in Agents \ {a} : dialog'[b] = dialog[b],
         \A b \in Agents : Falls(k, b)' \subseteq Falls(k, b)
  PROVE  Unoffered(k)'
<1>1. \A b \in Agents \ {a} : ~Engaged(k, b)
  BY DEF Sole
<1>2. \A b \in Agents \ {a} : ~Engaged(k, b)'
  BY <1>1 DEF Engaged, Rung
<1> QED BY <1>2 DEF Unoffered

\* The agent answers, rejects the call or hangs up.
LEMMA AgentActsGoes ==
  ASSUME Kept, NEW a \in Agents, Met, AgentAnswers(a) \/ AgentRejects(a) \/ AgentHangsUp(a)
  PROVE  dialog[a] \in CallIds /\ AgentGoes(a, dialog[a])
<1>0. /\ \A st, to : Becomes(a, st, to) => phone'[a] = st /\ Aside(a)
      /\ \A k : Engages(a, k) => dialog'[a] = k /\ \A b \in Agents \ {a} : dialog'[b] = dialog[b]
  BY AgentIs
<1>1. dialog[a] \in CallIds
  BY AgentIs DEF AgentAnswers, AgentRejects, AgentHangsUp
<1>k. PICK k \in CallIds : k = dialog[a]
  BY <1>1
<1>2. Sole(k) /\ Engaged(k, a) /\ ~Rung(k, a) /\ k # None /\ k \notin Agents /\ a \in Party(k) /\ k \in Party(k)
  BY <1>k, PartyType DEF Met, MetCall, Sole, Engaged
<1>3. CASE AgentAnswers(a)
  <2>1. PICK x \in {[Response("200", k, a) EXCEPT !.sdp = a]} : TRUE
    OBVIOUS
  <2>2. x \in Of(k)
    <3>1. [Response("200", k, a) EXCEPT !.sdp = a] \in Utter(a, k)
      BY ResponseUtter
    <3> QED BY <2>1, <3>1 DEF Utter
  <2>3. x.type = "200"
    <3>1. [Response("200", k, a) EXCEPT !.sdp = a].type = "200"
      BY UtterFields
    <3> QED BY <2>1, <3>1
  <2>4. Sends(a, <<x>>)
    BY <1>3, <1>k, <2>1 DEF AgentAnswers, Acts
  <2>5. phone[a] = "ringing" /\ phone'[a] = "answered" /\ Aside(a) /\ UNCHANGED dialog
    BY <1>0, <1>3 DEF AgentAnswers
  <2>6. Reports(k, a, x)'
    BY <1>2, <1>k, <2>3, <2>5 DEF Reports, Holds
  <2> QED BY <1>k, <2>2, <2>4, <2>5, <2>6, OneTold DEF AgentGoes, AgentMoves
<1>4. CASE AgentRejects(a)
  <2>1. PICK type \in {"480", "486"} : Acts(a, <<Response(type, k, a)>>)
    BY <1>4, <1>k DEF AgentRejects
  <2>2. phone[a] = "ringing" /\ phone'[a] = "idle" /\ Aside(a) /\ dialog'[a] = None
        /\ \A b \in Agents \ {a} : dialog'[b] = dialog[b]
    BY <1>0, <1>4 DEF AgentRejects
  <2>3. Response(type, k, a) \in Of(k) /\ Response(type, k, a).type = type
    <3>1. type \in {"180", "200", "480", "486", "487"}
      OBVIOUS
    <3>2. Response(type, k, a) \in Utter(a, k)
      BY <3>1, ResponseUtter
    <3>3. Response(type, k, a).type = type
      BY DEF Response, Message
    <3> QED BY <3>2, <3>3 DEF Utter
  <2>4. Unoffered(k)'
    <3>1. \A b \in Agents : Falls(k, b)' = Falls(k, b)
      BY <2>1 DEF Acts, Falls
    <3>2. ~Engaged(k, a)'
      BY <1>2, <2>2, <3>1 DEF Engaged, Rung
    <3> QED BY <1>2, <2>2, <3>1, <3>2, OtherwiseUnoffered
  <2>5. Reports(k, a, Response(type, k, a))'
    BY <2>3, <2>4 DEF Reports, OkInvite
  <2>6. Sends(a, <<Response(type, k, a)>>)
    BY <2>1 DEF Acts
  <2>7. Tells(k, a)
    BY <2>3, <2>5, <2>6, OneTold
  <2> QED BY <1>k, <2>2, <2>7 DEF AgentGoes, AgentMoves
<1>5. CASE AgentHangsUp(a)
  <2>1. phone[a] = "talking" /\ phone'[a] = "hanging" /\ Aside(a) /\ UNCHANGED dialog
    BY <1>0, <1>5 DEF AgentHangsUp
  <2>2. Sends(a, <<Own("BYE", k, a, k)>>)
    BY <1>5, <1>k DEF AgentHangsUp, Acts
  <2>3. Own("BYE", k, a, k) \in Of(k) /\ Own("BYE", k, a, k).type = "BYE"
    BY <1>2, OwnUtter, UtterFields, SMTT(30) DEF Utter
  <2>4. Reports(k, a, Own("BYE", k, a, k))'
    BY <2>3 DEF Reports, OkInvite
  <2>5. Tells(k, a)
    BY <2>2, <2>3, <2>4, OneTold
  <2> QED BY <1>k, <2>1, <2>5 DEF AgentGoes, AgentMoves
<1> QED BY <1>1, <1>k, <1>3, <1>4, <1>5

\* The agent's phone is offered a call, or is busy.
LEMMA InvitedGoes ==
  ASSUME Kept, NEW a \in Agents, NEW k \in CallIds, NEW m, AgentTold(a, k, m), Sole(k), Unengaged,
         AgentInvited(a, m)
  PROVE  AgentGoes(a, k)
<1>0. /\ m.callID = k /\ m.type = "INVITE" /\ k # None
      /\ \A st, to : Becomes(a, st, to) => phone'[a] = st /\ Aside(a)
      /\ \A d : Engages(a, d) => dialog'[a] = d /\ \A b \in Agents \ {a} : dialog'[b] = dialog[b]
  BY AgentIs, PartyType DEF AgentTold, AgentInvited, Of
<1>1. Rung(k, a) /\ ~Rung(k, a)'
  BY <1>0, InviteTaken
<1>r. \A type \in {"180", "486"} : Response(type, k, a) \in Of(k) /\ Response(type, k, a).type = type
  <2> SUFFICES ASSUME NEW type \in {"180", "486"}
               PROVE  Response(type, k, a) \in Of(k) /\ Response(type, k, a).type = type
    OBVIOUS
  <2>1. type \in {"180", "200", "480", "486", "487"}
    OBVIOUS
  <2>2. Response(type, k, a) \in Utter(a, k)
    BY <2>1, ResponseUtter
  <2>3. Response(type, k, a).type = type
    BY DEF Response, Message
  <2> QED BY <2>2, <2>3 DEF Utter
<1>2. CASE /\ phone[a] = "idle" /\ Becomes(a, "ringing", m.sdp) /\ Engages(a, k)
           /\ Takes(a, <<Response("180", k, a)>>)
  <2>1. AgentMoves(a, k) /\ Aside(a)
    BY <1>0, <1>1, <1>2 DEF AgentMoves
  <2>2. Reports(k, a, Response("180", k, a))'
    BY <1>r DEF Reports, OkInvite
  <2>3. Sends(a, <<Response("180", k, a)>>)
    BY <1>2 DEF Takes
  <2>4. Tells(k, a)
    BY <1>r, <2>2, <2>3, OneTold
  <2> QED BY <2>1, <2>4 DEF AgentGoes
<1>3. CASE Takes(a, <<>>) /\ UNCHANGED <<phone, rtp, dialog>>
  <2>1. Sends(a, <<>>) /\ AgentMoves(a, k) /\ Aside(a)
    BY <1>3 DEF Takes, AgentMoves, Aside
  <2> QED BY <2>1, NothingTold DEF AgentGoes
<1>4. CASE k # dialog[a] /\ Takes(a, <<Response("486", k, a)>>) /\ UNCHANGED <<phone, rtp, dialog>>
  <2>1. AgentMoves(a, k) /\ Aside(a)
    BY <1>4 DEF AgentMoves, Aside
  <2>2. Unoffered(k)'
    <3>1. Engaged(k, a) /\ ~Engaged(k, a)'
      BY <1>1, <1>4 DEF Engaged
    <3>2. \A b \in Agents : Falls(k, b)' \subseteq Falls(k, b)
      <4>1. downlink[a] \in Seq(Datagram) /\ downlink[a] # <<>>
        BY AgentIs DEF AgentTold
      <4>2. In(Tail(downlink[a])) \subseteq In(downlink[a])
        BY <4>1, InTail
      <4> QED BY <4>2, AgentIs DEF AgentTold, Falls
    <3> QED BY <1>4, <3>1, <3>2, OtherwiseUnoffered
  <2>3. Reports(k, a, Response("486", k, a))'
    BY <1>r, <2>2 DEF Reports, OkInvite
  <2>4. Sends(a, <<Response("486", k, a)>>)
    BY <1>4 DEF Takes
  <2>5. Tells(k, a)
    BY <1>r, <2>3, <2>4, OneTold
  <2> QED BY <2>1, <2>5 DEF AgentGoes
<1> QED BY <1>0, <1>2, <1>3, <1>4 DEF AgentInvited

\* A CANCEL and a BYE reach it when the caller is through with the call.
LEMMA EndedGoes ==
  ASSUME Kept, NEW a \in Agents, NEW k \in CallIds, NEW m, AgentTold(a, k, m),
         AgentCancelled(a, m) \/ AgentToldBye(a, m)
  PROVE  AgentGoes(a, k)
<1>0. /\ m.callID = k /\ m \in Of(k) /\ m \in Datagram /\ a \in Party(k) /\ k \notin Agents
      /\ m.cseq = m.type /\ Ended(k) /\ m.type \in {"BYE", "CANCEL"}
      /\ \A st, to : Becomes(a, st, to) => phone'[a] = st /\ Aside(a)
      /\ \A d : Engages(a, d) => dialog'[a] = d /\ \A b \in Agents \ {a} : dialog'[b] = dialog[b]
  BY AgentIs, PartyType
     DEF AgentTold, AgentCancelled, AgentToldBye, Of, Hears, Heard, Brings
<1>1. PICK x \in {Reply("200", a, m)}, y \in {Response("487", k, a)} : TRUE
  OBVIOUS
<1>2. x \in Of(k) /\ y \in Of(k)
  <2>1. Reply("200", a, m) \in Utter(a, k)
    BY <1>0, ReplyUtter
  <2>2. Response("487", k, a) \in Utter(a, k)
    BY ResponseUtter
  <2> QED BY <1>1, <2>1, <2>2 DEF Utter
<1>3. x.type = "200" /\ x.cseq = m.cseq /\ y.type = "487"
  <2>1. Reply("200", a, m).type = "200" /\ Reply("200", a, m).cseq = m.cseq
    BY <1>0, ReplyFields
  <2>2. Response("487", k, a).type = "487"
    BY DEF Response, Message
  <2> QED BY <1>1, <2>1, <2>2
<1>4. AgentMoves(a, k) /\ Aside(a)
  <2>1. /\ phone[a] # "idle" /\ dialog[a] = k /\ phone'[a] = "idle" /\ dialog'[a] = None /\ Aside(a)
        /\ \A b \in Agents \ {a} : dialog'[b] = dialog[b]
    BY <1>0 DEF AgentCancelled, AgentToldBye
  <2> QED BY <1>0, <2>1 DEF AgentMoves
<1>5. Ended(k)'
  <2>1. k \in Users \ {a}
    BY <1>0, CallFlowAssumption
  <2> QED BY <1>0, <1>4, <2>1 DEF Aside, Ended
<1>6. Reports(k, a, x)' /\ Reports(k, a, y)'
  BY <1>0, <1>3, <1>5 DEF Reports, OkInvite
<1>7. Sends(a, <<x, y>>) \/ Sends(a, <<x>>)
  BY <1>0, <1>1 DEF AgentCancelled, AgentToldBye, Takes
<1>8. Tells(k, a)
  BY <1>2, <1>6, <1>7, OneTold, TwoTold
<1> QED BY <1>4, <1>8 DEF AgentGoes

\* The ACK bridges the call, a BYE that is answered ends it, and the rest is ignored.
LEMMA QuietlyGoes ==
  ASSUME Kept, NEW a \in Agents, NEW k \in CallIds, NEW m, AgentTold(a, k, m),
         AgentAcknowledged(a, m) \/ AgentByeAnswered(a, m) \/ AgentIgnores(a, m)
  PROVE  AgentGoes(a, k)
<1>0. /\ m.callID = k
      /\ \A st, to : Becomes(a, st, to) => phone'[a] = st /\ Aside(a)
      /\ \A d : Engages(a, d) => dialog'[a] = d /\ \A b \in Agents \ {a} : dialog'[b] = dialog[b]
  BY AgentIs DEF AgentTold, Of
<1>1. Sends(a, <<>>)
  BY DEF AgentAcknowledged, AgentByeAnswered, AgentIgnores, Takes
<1>2. CASE AgentAcknowledged(a, m)
  <2>1. dialog[a] = k => ~Unoffered(k)
    BY DEF Unoffered, Engaged
  <2>2. /\ phone[a] = "answered" /\ phone'[a] = "talking" /\ Aside(a) /\ UNCHANGED dialog
        /\ dialog[a] = k /\ m.type = "ACK"
    BY <1>0, <1>2 DEF AgentAcknowledged
  <2>3. rtp[k] = a \/ Ended(k)
    BY <2>1, <2>2 DEF AgentTold, Brings
  <2>4. AgentMoves(a, k)
    BY <2>2, <2>3 DEF AgentMoves
  <2> QED BY <1>1, <2>2, <2>4, NothingTold DEF AgentGoes
<1>3. CASE AgentByeAnswered(a, m)
  <2>1. Ended(k)
    BY <1>3 DEF AgentByeAnswered, AgentTold, Heard
  <2>2. /\ phone[a] = "hanging" /\ phone'[a] = "idle" /\ Aside(a) /\ dialog[a] = k /\ dialog'[a] = None
        /\ \A b \in Agents \ {a} : dialog'[b] = dialog[b]
    BY <1>0, <1>3 DEF AgentByeAnswered
  <2> QED BY <1>1, <2>1, <2>2, NothingTold DEF AgentGoes, AgentMoves
<1>4. CASE AgentIgnores(a, m)
  <2>1. AgentMoves(a, k) /\ Aside(a)
    BY <1>4 DEF AgentIgnores, AgentMoves, Aside, phoneVars
  <2> QED BY <1>1, <2>1, NothingTold DEF AgentGoes
<1> QED BY <1>2, <1>3, <1>4

\* In each of its steps an agent's phone goes on so, in one call.
LEMMA AgentGoesOn ==
  ASSUME Kept, Told, Usual, Met, NEW a \in Agents, AgentActs(a)
  PROVE  \E k \in CallIds : AgentGoes(a, k)
<1>1. CASE AgentAnswers(a) \/ AgentRejects(a) \/ AgentHangsUp(a)
  BY <1>1, AgentActsGoes
<1>2. CASE AgentReceives(a)
  <2>m. PICK m \in {Head(downlink[a])} : TRUE
    OBVIOUS
  <2>k. PICK k \in {m.callID} : TRUE
    OBVIOUS
  <2>0. a \in Numbers /\ downlink \in [Numbers -> Seq(Datagram)]
    BY AgentIs
  <2>1. m \in Of(k) /\ k \in CallIds /\ downlink[a] # <<>>
    BY <1>2, <2>0, <2>m, <2>k, OwnDownlink DEF AgentReceives, Kept
  <2>2. m \in Falls(k, a)
    <3>1. m \in In(downlink[a])
      BY <2>0, <2>1, <2>m, InTail
    <3> QED BY <2>k, <3>1 DEF Falls
  <2>3. \/ AgentInvited(a, m) \/ AgentCancelled(a, m) \/ AgentAcknowledged(a, m)
        \/ AgentToldBye(a, m) \/ AgentByeAnswered(a, m) \/ AgentIgnores(a, m)
    BY <1>2, <2>m DEF AgentReceives
  <2>4. Hears(k, a, m) /\ Heard(k, a, m) /\ Brings(k, a, m) /\ Sole(k) /\ Unengaged
    BY <2>0, <2>1, <2>2 DEF Told, ToldOf, Usual, UsualOf, Met, MetCall
  <2>5. downlink' = [downlink EXCEPT ![a] = Tail(@)]
    BY <2>3 DEF AgentInvited, AgentCancelled, AgentAcknowledged, AgentToldBye, AgentByeAnswered,
                AgentIgnores, Takes
  <2>6. AgentTold(a, k, m)
    BY <2>m, <2>1, <2>2, <2>4, <2>5 DEF AgentTold
  <2> QED BY <2>1, <2>3, <2>4, <2>6, InvitedGoes, EndedGoes, QuietlyGoes
<1> QED BY <1>1, <1>2 DEF AgentActs

\* A link off which a datagram is taken.
LEMMA OnceHeard ==
  ASSUME NEW c, NEW q \in Seq(Datagram), NEW r, Once(c, q), r = q \/ (q # <<>> /\ r = Tail(q))
  PROVE  Once(c, r)
<1>1. <<>> \in Seq({}) /\ {} \in SUBSET Datagram /\ q \o <<>> = q
  OBVIOUS
<1>2. q # <<>> => Tail(q) \o <<>> = Tail(q)
  BY InTail
<1>3. Grows(q, r, {})
  BY <1>1, <1>2 DEF Grows
<1> QED BY <1>1, <1>3, OnceGrows

\* What an agent's step leaves alone: the other calls.
LEMMA AgentMetOthers ==
  ASSUME Kept, Kept', Usual, Usual', Met, NEW a \in Agents, NEW k \in CallIds, AgentGoes(a, k),
         Listening(a), Apart, NEW d \in CallIds \ {k}
  PROVE  MetCall(d)'
<1>0. /\ Agents \subseteq Users /\ a \in Numbers /\ d \in Users \ {a} /\ None \notin CallIds
      /\ Of(k) \in SUBSET Datagram /\ UNCHANGED sessions /\ MetCall(d) /\ Unengaged /\ Agents \subseteq Numbers
      /\ downlink \in [Numbers -> Seq(Datagram)]
  <2>1. Agents \subseteq Users /\ Agents \subseteq Numbers /\ d \in Users \ {a} /\ None \notin CallIds
    BY AgentIs, PartyType, CallFlowAssumption, SipAssumption DEF Callers, Numbers
  <2>2. Of(k) \in SUBSET Datagram /\ UNCHANGED sessions /\ MetCall(d) /\ Unengaged
    BY DEF Met, Of, Apart, serverVars
  <2> QED BY <2>1, <2>2, AgentIs
<1>1. phone'[d] = phone[d] /\ rtp'[d] = rtp[d] /\ \A b \in Agents \ {a} : phone'[b] = phone[b]
  BY <1>0 DEF AgentGoes, Aside
<1>2. PICK ms \in Seq(Of(k)) : Sends(a, ms)
  BY DEF AgentGoes, Tells
<1>3. PICK S \in {Of(k)} : TRUE
  OBVIOUS
<1>4. /\ \A n \in Numbers \ {a} : uplink'[n] = uplink[n] /\ downlink'[n] = downlink[n]
      /\ \A n \in Numbers : In(downlink'[n]) \subseteq In(downlink[n])
      /\ In(uplink'[a]) = In(uplink[a]) \cup In(ms) /\ In(ms) \subseteq S
  BY <1>0, <1>2, <1>3, PhoneTurns, SMTT(30)
<1>5. \A n \in Numbers : Rises(d, n)' \subseteq Rises(d, n) /\ Falls(d, n)' \subseteq Falls(d, n)
  BY <1>3, <1>4 DEF Rises, Falls, Of
<1>6. (dialog'[a] = d <=> dialog[a] = d) /\ (dialog[a] = d => phone'[a] = phone[a])
  BY <1>0 DEF AgentGoes, AgentMoves, Unengaged
<1>7. \A b \in Agents \ {a} : dialog'[b] = dialog[b]
  BY DEF AgentGoes, AgentMoves
<1>8. ASSUME NEW b \in Agents
      PROVE  Once(d, downlink'[b])
  <2>1. Once(d, downlink[b]) /\ downlink[b] \in Seq(Datagram)
    BY <1>0 DEF MetCall, Sole
  <2>2. downlink'[b] = downlink[b] \/ (downlink[b] # <<>> /\ downlink'[b] = Tail(downlink[b]))
    BY <1>0, <1>4 DEF Listening
  <2> QED BY <2>1, <2>2, OnceHeard
<1> QED BY <1>0, <1>1, <1>5, <1>6, <1>7, <1>8, MetApart DEF Usual

\* An agent's phone does not put anybody out of touch.
LEMMA AgentMet ==
  ASSUME Kept, Kept', Usual, Usual', Met, NEW a \in Agents, NEW k \in CallIds, AgentGoes(a, k),
         Listening(a), Apart
  PROVE  Met'
<1>0. /\ Agents \subseteq Users /\ a \in Numbers /\ k \in Users \ {a} /\ None \notin CallIds
      /\ Of(k) \in SUBSET Datagram /\ UNCHANGED sessions /\ MetCall(k) /\ Unengaged /\ Agents \subseteq Numbers
      /\ downlink \in [Numbers -> Seq(Datagram)] /\ None \notin Agents /\ Ivr \notin Agents
  <2>1. /\ Agents \subseteq Users /\ Agents \subseteq Numbers /\ k \in Users \ {a} /\ None \notin CallIds
        /\ None \notin Agents /\ Ivr \notin Agents
    BY AgentIs, PartyType, CallFlowAssumption, SipAssumption DEF Callers, Numbers
  <2>2. Of(k) \in SUBSET Datagram /\ UNCHANGED sessions /\ MetCall(k) /\ Unengaged
    BY DEF Met, Of, Apart, serverVars
  <2> QED BY <2>1, <2>2, AgentIs
<1>1. /\ phone'[k] = phone[k] /\ rtp'[k] = rtp[k]
      /\ \A b \in Agents \ {a} : phone'[b] = phone[b] /\ dialog'[b] = dialog[b]
  BY <1>0 DEF AgentGoes, AgentMoves, Aside
<1>2. PICK ms \in Seq(Of(k)) : Sends(a, ms) /\ \A x \in In(ms) : Reports(k, a, x)'
  BY DEF AgentGoes, Tells
<1>3. PICK S \in {Of(k)} : TRUE
  OBVIOUS
<1>4. /\ \A n \in Numbers \ {a} : uplink'[n] = uplink[n] /\ downlink'[n] = downlink[n]
      /\ \A n \in Numbers : In(downlink'[n]) \subseteq In(downlink[n])
      /\ In(uplink'[a]) = In(uplink[a]) \cup In(ms)
  BY <1>0, <1>2, <1>3, PhoneTurns
<1>5. \A n \in Numbers : Falls(k, n)' \subseteq Falls(k, n)
  BY <1>4 DEF Falls
<1>6. \A n \in Numbers : \A x \in Rises(k, n)' : x \in Rises(k, n) \/ Reports(k, n, x)'
  BY <1>2, <1>4 DEF Rises
<1>m. AgentMoves(a, k)
  BY DEF AgentGoes
<1>7. \A b \in Agents : (Rung(k, b)' => Rung(k, b)) /\ (Engaged(k, b)' => Engaged(k, b))
  <2>1. \A b \in Agents : Rung(k, b)' => Rung(k, b)
    BY <1>0, <1>5 DEF Rung
  <2>2. dialog'[a] = k => Engaged(k, a)
    BY <1>0, <1>m DEF AgentMoves, Engaged
  <2> QED BY <1>1, <2>1, <2>2 DEF Engaged
<1>8. Sole(k)'
  <2>1. ASSUME NEW b \in Agents
        PROVE  Once(k, downlink'[b])
    <3>1. Once(k, downlink[b]) /\ downlink[b] \in Seq(Datagram)
      BY <1>0 DEF MetCall, Sole
    <3>2. downlink'[b] = downlink[b] \/ (downlink[b] # <<>> /\ downlink'[b] = Tail(downlink[b]))
      BY <1>0, <1>4 DEF Listening
    <3> QED BY <3>1, <3>2, OnceHeard
  <2>2. \A b, e \in Agents : Engaged(k, b)' /\ Engaged(k, e)' => b = e
    BY <1>0, <1>7 DEF MetCall, Sole
  <2>3. \A b \in Agents : Rung(k, b) => dialog[b] # k
    BY <1>0 DEF MetCall, Sole
  <2>4. Rung(k, a)' => dialog'[a] # k
    BY <1>7, <1>m, <2>3 DEF AgentMoves
  <2>5. \A b \in Agents : Rung(k, b)' => dialog'[b] # k
    BY <1>1, <1>7, <2>3, <2>4
  <2> QED BY <2>1, <2>2, <2>5 DEF Sole
<1>9. Ended(k)' <=> Ended(k)
  BY <1>1 DEF Ended
<1>10. Refers(k)'
  BY <1>0, <1>7, <1>9 DEF MetCall, Refers
<1>t. /\ InTouch(k) /\ (phone[a] = "idle" => dialog[a] # k)
      /\ rtp[k] = a => dialog[a] = k /\ phone[a] # "ringing" /\ ~Ended(k)
  BY <1>0 DEF MetCall, InTouch, Unengaged, Ended
<1>11. InTouch(k)'
  <2>1. rtp[k] = a => dialog'[a] = k /\ phone'[a] # "ringing"
    BY <1>t, <1>m DEF AgentMoves
  <2>2. rtp[k] \in Agents => dialog'[rtp[k]] = k /\ phone'[rtp[k]] # "ringing"
    BY <1>1, <1>t, <2>1 DEF InTouch
  <2> QED BY <1>1, <1>t, <2>2 DEF InTouch
<1>12. \A b \in Agents : Holds(k, b) => Holds(k, b)' \/ Ended(k)'
  <2>1. Holds(k, a) => Holds(k, a)' \/ Ended(k)
    BY <1>1, <1>t, <1>m DEF AgentMoves, Holds
  <2>2. \A b \in Agents \ {a} : Holds(k, b) => Holds(k, b)'
    BY <1>1 DEF Holds
  <2> QED BY <1>9, <2>1, <2>2
<1>13. Unoffered(k) => Unoffered(k)'
  BY <1>7 DEF Unoffered
<1>14. MetCall(k)'
  BY <1>0, <1>1, <1>5, <1>6, <1>8, <1>9, <1>10, <1>11, <1>12, <1>13, MetStays DEF Usual
<1>15. Unengaged'
  BY <1>0, <1>1, <1>m DEF AgentMoves, Unengaged
<1>16. \A d \in CallIds \ {k} : MetCall(d)'
  BY AgentMetOthers
<1> QED BY <1>14, <1>15, <1>16 DEF Met
-----------------------------------------------------------------------------
(***************************************************************************)
(* No step takes anybody out of touch.                                     *)
(***************************************************************************)
\* The programs leave the phones alone; a phone goes on in its call.
LEMMA NextMoves ==
  ASSUME MaxTrouble = 0, Kept, Told, Usual, Usual', Guided, Met, [Next]_vars
  PROVE  \/ UNCHANGED phoneVars /\ Met'
         \/ \E c \in CallIds : CallerGoes(c) /\ Listening(c) /\ Apart /\ UNCHANGED dialog
         \/ \E a \in Agents, k \in CallIds : AgentGoes(a, k) /\ Listening(a) /\ Apart
<1>1. CASE UNCHANGED vars
  BY <1>1 DEF vars, serverVars, netVars, phoneVars, Met, Unengaged, MetCall, Sole, Refers, InTouch,
              Reports, Brings, Engaged, Rung, Unoffered, Holds, Rises, Falls, Ended
<1>2. CASE \E n \in Numbers : ServerStep(n)
  BY <1>2, ServerMet DEF ServerStep
<1>3. CASE IvrReceives
  <2>1. PICK c \in CallIds : IvrDoes(c)
    BY <1>3, IvrReceivesDoes
  <2>2. \A a \in Agents : downlink'[a] = downlink[a]
    BY <1>3, SipAssumption, CallFlowAssumption DEF IvrReceives, Kept, Down
  <2> QED BY <2>1, <2>2, IvrMet DEF IvrDoes
<1>4. CASE IvrWakes
  <2>1. PICK c \in CallIds : IvrDoes(c)
    BY <1>4, IvrWakesDoes
  <2> QED BY <1>4, <2>1, IvrMet DEF IvrWakes
<1>5. ASSUME NEW c \in CallIds, ReaderSteps(c) \/ PressKey(c)
      PROVE  UNCHANGED phoneVars /\ Met'
  <2>1. IvrDoes(c)
    BY <1>5, ReaderStepsDoes, PressKeyDoes
  <2>2. UNCHANGED downlink
    BY <1>5 DEF ReaderSteps, PressKey, netVars
  <2> QED BY <2>1, <2>2, IvrMet DEF IvrDoes
<1>6. ASSUME NEW c \in CallIds, Dial(c) \/ CallerActs(c)
      PROVE  CallerGoes(c) /\ Listening(c) /\ Apart /\ UNCHANGED dialog
  <2>1. CallerGoes(c)
    BY <1>6, CallerGoesOn
  <2>2. Listening(c) /\ Apart /\ UNCHANGED dialog
    BY <1>6, DialDoes, CallerDoes DEF PhoneDoes, Listening
  <2> QED BY <2>1, <2>2
<1>7. ASSUME NEW a \in Agents, AgentActs(a)
      PROVE  \E k \in CallIds : AgentGoes(a, k) /\ Listening(a) /\ Apart
  <2>1. PICK k \in CallIds : AgentGoes(a, k)
    BY <1>7, AgentGoesOn
  <2>2. Listening(a) /\ Apart
    BY <1>7, AgentSpeaks DEF Kept
  <2> QED BY <2>1, <2>2
<1>8. ~Trouble
  <2>1. trouble \in 0 .. 0
    BY DEF Kept, Phones
  <2> QED BY <2>1 DEF Trouble
<1> QED BY <1>1, <1>2, <1>3, <1>4, <1>5, <1>6, <1>7, <1>8 DEF Next, CallerActs, AgentActs, Callers

LEMMA NextMet ==
  ASSUME MaxTrouble = 0, Kept, Kept', Told, Usual, Usual', Guided, Met, [Next]_vars
  PROVE  Met'
BY NextMoves, CallerMet, AgentMet

\* At first nobody is in a call.
LEMMA InitMet == Init => Met
<1> SUFFICES ASSUME Init PROVE Met
  OBVIOUS
<1>1. \A c \in CallIds : \A n \in Numbers : Rises(c, n) = {} /\ Falls(c, n) = {}
  BY InNone DEF Init, Rises, Falls
<1>2. /\ Agents \subseteq Numbers /\ Agents \subseteq Users /\ CallIds \subseteq Users
      /\ None \notin CallIds /\ None \notin Agents
  BY SipAssumption, CallFlowAssumption DEF Numbers
<1>3. Unengaged
  BY DEF Init, Unengaged
<1>4. ASSUME NEW c \in CallIds
      PROVE  MetCall(c)
  <2>1. \A a \in Agents : dialog[a] # c /\ ~Rung(c, a) /\ ~Engaged(c, a) /\ Once(c, downlink[a])
    BY <1>1, <1>2 DEF Init, Rung, Engaged, Once
  <2>2. Sole(c)
    BY <2>1 DEF Sole
  <2>3. Refers(c) /\ InTouch(c)
    BY <1>2 DEF Init, Refers, InTouch
  <2> QED BY <1>1, <2>2, <2>3 DEF MetCall
<1> QED BY <1>3, <1>4 DEF Met
-----------------------------------------------------------------------------
(***************************************************************************)
(* The promise of Call.                                                    *)
(***************************************************************************)
\* What a caller can tell is in the state of the phone.
LEMMA StageIs ==
  ASSUME Kept, NEW c \in CallIds
  PROVE  /\ phone[c] = "idle" => CallerStage(c) = "idle"
         /\ phone[c] \in {"calling", "abandoning"} => CallerStage(c) = "waiting"
         /\ phone[c] = "talking" => CallerStage(c) = "talking"
         /\ Ended(c) => CallerStage(c) = "over"
         /\ phone'[c] = "idle" => CallerStage(c)' = "idle"
         /\ phone'[c] \in {"calling", "abandoning"} => CallerStage(c)' = "waiting"
         /\ phone'[c] = "talking" => CallerStage(c)' = "talking"
         /\ Ended(c)' => CallerStage(c)' = "over"
         /\ phone'[c] = phone[c] => CallerStage(c)' = CallerStage(c)
<1>1. phone[c] \in CallerStates
  BY CallFlowAssumption DEF Kept, Phones
<1> QED BY <1>1 DEF CallerStage, Ended, CallerStates

\* A step of one caller, ...
LEMMA StageMaps ==
  ASSUME Kept, NEW c \in CallIds, Aside(c), UNCHANGED dialog, NEW stage, NEW party,
         CallerStage(c)' = stage, rtp'[c] = party
  PROVE  Promise!Stage(c, stage, party)
<1>0. CallIds \subseteq Users /\ Agents \subseteq Users /\ c \notin Agents
  BY CallFlowAssumption
<1>1. \A d \in CallIds \ {c} : CallerStage(d)' = CallerStage(d) /\ rtp'[d] = rtp[d]
  BY <1>0, StageIs DEF Aside
<1>2. \A a \in Agents : AgentStage(a)' = AgentStage(a)
  BY <1>0 DEF Aside, AgentStage
<1>3. [d \in CallIds |-> CallerStage(d)]' = [[d \in CallIds |-> CallerStage(d)] EXCEPT ![c] = stage]
  BY <1>1
<1>4. [d \in CallIds |-> rtp[d]]' = [[d \in CallIds |-> rtp[d]] EXCEPT ![c] = party]
  BY <1>1
<1>5. [a \in Agents |-> AgentStage(a)]' = [a \in Agents |-> AgentStage(a)]
  BY <1>2
<1> QED BY <1>3, <1>4, <1>5 DEF Promise!Stage, Callers

\* ... and of one agent.
LEMMA BecomesMaps ==
  ASSUME Kept, Kept', NEW a \in Agents, Aside(a), \A b \in Agents \ {a} : dialog'[b] = dialog[b],
         NEW stage, NEW c, AgentStage(a)' = stage, dialog'[a] = c
  PROVE  Promise!Becomes(a, stage, c)
<1>0. CallIds \subseteq Users \ {a} /\ Agents \subseteq Users
  BY CallFlowAssumption
<1>1. \A d \in CallIds : CallerStage(d)' = CallerStage(d) /\ rtp'[d] = rtp[d]
  BY <1>0, StageIs DEF Aside
<1>2. \A b \in Agents \ {a} : AgentStage(b)' = AgentStage(b)
  BY <1>0 DEF Aside, AgentStage
<1>3. [d \in CallIds |-> CallerStage(d)]' = [d \in CallIds |-> CallerStage(d)]
  BY <1>1
<1>4. [d \in CallIds |-> rtp[d]]' = [d \in CallIds |-> rtp[d]]
  BY <1>1
<1>5. [b \in Agents |-> AgentStage(b)]' = [[b \in Agents |-> AgentStage(b)] EXCEPT ![a] = stage]
  BY <1>2
<1>6. dialog' = [dialog EXCEPT ![a] = c]
  BY DEF Kept, Phones
<1> QED BY <1>3, <1>4, <1>5, <1>6 DEF Promise!Becomes, Callers

\* What a caller's phone does is a step that its caller can tell, or none.
LEMMA CallerMaps ==
  ASSUME Kept, Kept', NEW c \in CallIds, InTouch(c), CallerGoes(c), UNCHANGED dialog
  PROVE  [Promise!Next]_(Promise!vars)
<1>0. /\ Aside(c) /\ c \in Callers /\ c \notin Agents /\ Ivr \notin Agents
      /\ [d \in Callers |-> CallerStage(d)][c] = CallerStage(c)
      /\ [d \in Callers |-> rtp[d]][c] = rtp[c]
  BY PartyType, CallFlowAssumption, SipAssumption DEF CallerGoes, Callers, Numbers
<1>1. CASE rtp'[c] = rtp[c] /\ CallerStage(c)' = CallerStage(c)
  <2>1. \A d \in CallIds : CallerStage(d)' = CallerStage(d) /\ rtp'[d] = rtp[d]
    BY <1>0, <1>1, StageIs, CallFlowAssumption DEF Aside
  <2>2. \A a \in Agents : AgentStage(a)' = AgentStage(a)
    BY <1>0, CallFlowAssumption DEF Aside, AgentStage
  <2>3. /\ [d \in CallIds |-> CallerStage(d)]' = [d \in CallIds |-> CallerStage(d)]
        /\ [d \in CallIds |-> rtp[d]]' = [d \in CallIds |-> rtp[d]]
    BY <2>1
  <2>4. [a \in Agents |-> AgentStage(a)]' = [a \in Agents |-> AgentStage(a)]
    BY <2>2
  <2> QED BY <2>3, <2>4 DEF Promise!vars, Callers
<1>2. CASE phone[c] = "idle" /\ phone'[c] = "calling" /\ rtp'[c] = None
  <2>1. Promise!Dials(c)
    BY <1>0, <1>2, StageIs, StageMaps DEF Promise!Dials
  <2> QED BY <1>0, <2>1 DEF Promise!Next
<1>3. CASE phone[c] \in {"calling", "abandoning"} /\ phone'[c] = "talking" /\ rtp'[c] = Ivr
  <2>1. Promise!Greeted(c)
    BY <1>0, <1>3, StageIs, StageMaps DEF Promise!Greeted
  <2> QED BY <1>0, <2>1 DEF Promise!Next
<1>4. CASE /\ phone[c] = "talking" /\ phone'[c] = "talking" /\ rtp[c] = Ivr
           /\ Holds(c, rtp'[c])
  <2>1. PICK a \in Agents : rtp'[c] = a /\ dialog[a] = c /\ phone[a] = "answered"
    BY <1>0, <1>4 DEF Holds
  <2>2. [b \in Agents |-> AgentStage(b)][a] = "answered"
    BY <2>1 DEF AgentStage
  <2>3. Promise!Stage(c, "talking", a)
    BY <1>0, <1>4, <2>1, StageIs, StageMaps
  <2>4. Promise!Joined(c, a)
    BY <1>0, <1>4, <2>1, <2>2, <2>3, StageIs DEF Promise!Joined
  <2> QED BY <1>0, <2>4 DEF Promise!Next
<1>5. CASE phone[c] \in {"calling", "abandoning", "talking"} /\ Ended(c)' /\ rtp'[c] = None
  <2>1. Promise!Ends(c)
    BY <1>0, <1>5, StageIs, StageMaps DEF Promise!Ends
  <2> QED BY <1>0, <2>1 DEF Promise!Next
<1>6. \/ rtp'[c] = rtp[c] /\ CallerStage(c)' = CallerStage(c)
      \/ phone[c] = "idle" /\ phone'[c] = "calling" /\ rtp'[c] = None
      \/ phone[c] \in {"calling", "abandoning"} /\ phone'[c] = "talking" /\ rtp'[c] = Ivr
      \/ /\ phone[c] = "talking" /\ phone'[c] = "talking" /\ rtp[c] = Ivr
         /\ Holds(c, rtp'[c])
      \/ phone[c] \in {"calling", "abandoning", "talking"} /\ Ended(c)' /\ rtp'[c] = None
  BY StageIs DEF CallerGoes, CallerMoves
<1> QED BY <1>1, <1>2, <1>3, <1>4, <1>5, <1>6

\* An agent is offered a call only while the caller hears the IVR, or has gone.
LEMMA OfferMaps ==
  ASSUME Kept, NEW a \in Agents, NEW k \in CallIds, UsualOf(k), GuidedCall(k), MetCall(k), Rung(k, a)
  PROVE  /\ (phone[k] = "talking" /\ rtp[k] = Ivr) \/ Ended(k)
         /\ \A b \in Agents : dialog[b] # k
<1>1. Sole(k) /\ InTouch(k) /\ Engaged(k, a) /\ dialog[a] # k
  BY DEF MetCall, Sole, Engaged
<1>2. \A b \in Agents : dialog[b] # k
  BY <1>1 DEF Sole, Engaged
<1>3. ~Waiting(k)
  <2>1. ~Unoffered(k)
    BY <1>1 DEF Unoffered
  <2>2. ~Agentless(k)
    BY <2>1, AgentlessUnoffered
  <2> QED BY <2>2 DEF GuidedCall
<1>4. phone[k] = "talking" \/ Ended(k)
  BY <1>3, PhoneEngaged DEF Ended
<1>5. phone[k] = "talking" => rtp[k] = Ivr
  BY <1>1, <1>2 DEF InTouch
<1> QED BY <1>2, <1>4, <1>5

\* What an agent's phone does is a step that its agent can tell, or none.
LEMMA AgentMaps ==
  ASSUME Kept, Kept', NEW a \in Agents, NEW k \in CallIds, UsualOf(k), GuidedCall(k), MetCall(k),
         AgentGoes(a, k)
  PROVE  [Promise!Next]_(Promise!vars)
<1>0. /\ Aside(a) /\ AgentMoves(a, k) /\ k \in Callers /\ \A b \in Agents \ {a} : dialog'[b] = dialog[b]
      /\ [b \in Agents |-> AgentStage(b)][a] = AgentStage(a)
      /\ [d \in Callers |-> CallerStage(d)][k] = CallerStage(k)
      /\ [d \in Callers |-> rtp[d]][k] = rtp[k]
      /\ phone[a] \in AgentStates
  BY CallFlowAssumption DEF AgentGoes, AgentMoves, Callers, Kept, Phones
<1>s. /\ phone[a] # "idle" => AgentStage(a) = phone[a]
      /\ phone[a] = "idle" => AgentStage(a) = "free"
      /\ phone'[a] # "idle" => AgentStage(a)' = phone'[a]
      /\ phone'[a] = "idle" => AgentStage(a)' = "free"
  BY DEF AgentStage
<1>1. CASE phone'[a] = phone[a] /\ dialog'[a] = dialog[a]
  <2>1. \A d \in CallIds : CallerStage(d)' = CallerStage(d) /\ rtp'[d] = rtp[d]
    BY <1>0, StageIs, CallFlowAssumption DEF Aside
  <2>2. \A b \in Agents : AgentStage(b)' = AgentStage(b)
    BY <1>0, <1>1, CallFlowAssumption DEF Aside, AgentStage
  <2>3. /\ [d \in CallIds |-> CallerStage(d)]' = [d \in CallIds |-> CallerStage(d)]
        /\ [d \in CallIds |-> rtp[d]]' = [d \in CallIds |-> rtp[d]]
    BY <2>1
  <2>4. [b \in Agents |-> AgentStage(b)]' = [b \in Agents |-> AgentStage(b)]
    BY <2>2
  <2>5. dialog' = dialog
    BY <1>0, <1>1 DEF Kept, Phones
  <2> QED BY <2>3, <2>4, <2>5 DEF Promise!vars, Callers
<1>2. CASE /\ phone[a] = "idle" /\ phone'[a] = "ringing" /\ dialog'[a] = k
           /\ Rung(k, a)
  <2>1. /\ (CallerStage(k) = "talking" /\ rtp[k] = Ivr) \/ CallerStage(k) = "over"
        /\ \A b \in Agents : dialog[b] # k
    BY <1>2, OfferMaps, StageIs
  <2>2. Promise!Becomes(a, "ringing", k)
    BY <1>0, <1>2, <1>s, BecomesMaps
  <2>3. Promise!Offered(a, k)
    BY <1>0, <1>2, <1>s, <2>1, <2>2 DEF Promise!Offered
  <2> QED BY <1>0, <2>3 DEF Promise!Next
<1>3. CASE dialog[a] = k /\ dialog'[a] = k /\ phone[a] = "ringing" /\ phone'[a] = "answered"
  <2>1. Promise!Becomes(a, "answered", k)
    BY <1>0, <1>3, <1>s, BecomesMaps
  <2>2. Promise!Accepts(a)
    BY <1>0, <1>3, <1>s, <2>1 DEF Promise!Accepts
  <2> QED BY <2>2 DEF Promise!Next
<1>4. CASE /\ dialog[a] = k /\ dialog'[a] = k /\ phone[a] = "answered" /\ phone'[a] = "talking"
           /\ rtp[k] = a \/ Ended(k)
  <2>1. Promise!Becomes(a, "talking", k)
    BY <1>0, <1>4, <1>s, BecomesMaps
  <2>2. CallerStage(k) = "over" \/ rtp[k] = a
    BY <1>4, StageIs
  <2>3. Promise!Bridged(a)
    BY <1>0, <1>4, <1>s, <2>1, <2>2 DEF Promise!Bridged
  <2> QED BY <2>3 DEF Promise!Next
<1>5. CASE dialog[a] = k /\ dialog'[a] = k /\ phone[a] = "talking" /\ phone'[a] = "hanging"
  <2>1. Promise!Becomes(a, "hanging", k)
    BY <1>0, <1>5, <1>s, BecomesMaps
  <2>2. Promise!Leaves(a)
    BY <1>0, <1>5, <1>s, <2>1 DEF Promise!Leaves
  <2> QED BY <2>2 DEF Promise!Next
<1>6. CASE dialog[a] = k /\ dialog'[a] = None /\ phone'[a] = "idle" /\ phone[a] = "ringing"
  <2>1. Promise!Becomes(a, "free", None)
    BY <1>0, <1>6, <1>s, BecomesMaps
  <2>2. Promise!Withdrawn(a)
    BY <1>0, <1>6, <1>s, <2>1 DEF Promise!Withdrawn
  <2> QED BY <2>2 DEF Promise!Next
<1>7. CASE /\ dialog[a] = k /\ dialog'[a] = None /\ phone'[a] = "idle"
           /\ phone[a] \notin {"idle", "ringing"} /\ Ended(k)
  <2>1. Promise!Becomes(a, "free", None)
    BY <1>0, <1>7, <1>s, BecomesMaps
  <2>2. CallerStage(k) = "over" /\ phone[a] \in {"answered", "talking", "hanging"}
    BY <1>0, <1>7, StageIs DEF AgentStates
  <2>3. Promise!Released(a)
    BY <1>0, <1>7, <1>s, <2>1, <2>2 DEF Promise!Released
  <2> QED BY <2>3 DEF Promise!Next
<1> QED BY <1>0, <1>1, <1>2, <1>3, <1>4, <1>5, <1>6, <1>7 DEF AgentMoves

\* Every step is one of Call, or none.
LEMMA NextMaps ==
  ASSUME MaxTrouble = 0, Kept, Kept', Told, Usual, Usual', Guided, Met, [Next]_vars
  PROVE  [Promise!Next]_(Promise!vars)
<1>0. \A c \in CallIds : UsualOf(c) /\ GuidedCall(c) /\ MetCall(c) /\ InTouch(c)
  BY DEF Usual, Guided, Met, MetCall
<1>1. CASE UNCHANGED phoneVars
  <2>1. UNCHANGED <<phone, rtp, dialog>>
    BY <1>1 DEF phoneVars
  <2> QED BY <2>1 DEF Promise!vars, CallerStage, AgentStage
<1> QED BY <1>0, <1>1, NextMoves, CallerMaps, AgentMaps

\* So is the beginning.
LEMMA InitMaps == Init => Promise!Init
<1> SUFFICES ASSUME Init PROVE Promise!Init
  OBVIOUS
<1>1. CallIds \subseteq Users /\ Agents \subseteq Users
  BY CallFlowAssumption
<1>2. \A c \in CallIds : CallerStage(c) = "idle" /\ rtp[c] = None
  BY <1>1 DEF Init, CallerStage
<1>3. \A a \in Agents : AgentStage(a) = "free"
  BY <1>1 DEF Init, AgentStage
<1> QED BY <1>2, <1>3 DEF Promise!Init, Init, Callers
-----------------------------------------------------------------------------
(***************************************************************************)
(* What follows from it.                                                   *)
(***************************************************************************)
MetInv == GuidedInv /\ Met

\* On such a network server, caller's phone and agent's phone agree on who is in
\* a call with whom: while the agent's answer travels to the server, the
\* re-INVITE to the caller and the ACK back, and whoever hangs up meanwhile.
THEOREM CallsMet ==
  ASSUME MaxTrouble = 0, ~Hasty
  PROVE  Spec => []MetInv
<1>1. Init => Met
  BY InitMet
<1>2. GuidedInv /\ GuidedInv' /\ Met /\ [Next]_vars => Met'
  <2> SUFFICES ASSUME GuidedInv, GuidedInv', Met, [Next]_vars PROVE Met'
    OBVIOUS
  <2>1. CASE UNCHANGED vars
    BY <2>1 DEF vars, serverVars, netVars, phoneVars, Met, Unengaged, MetCall, Sole, Refers, InTouch,
                Reports, Brings, Engaged, Rung, Unoffered, Holds, Rises, Falls, Ended
  <2>2. CASE Next
    <3>1. Guided
      BY <2>2, Stopped DEF GuidedInv
    <3> QED BY <3>1, NextMet DEF GuidedInv
  <2> QED BY <2>1, <2>2
<1> QED BY <1>1, <1>2, CallsGuided, PTL DEF Spec, MetInv

\* On such a network a caller who was connected to an agent is not left behind:
\* the agent's phone stays in the call until the caller's is told of its end.
THEOREM AgentKept ==
  ASSUME MaxTrouble = 0, ~Hasty
  PROVE  Spec => []CallerKeepsAgent
<1>1. MetInv => CallerKeepsAgent
  BY DEF MetInv, Met, MetCall, InTouch, CallerKeepsAgent, Callers
<1> QED BY <1>1, CallsMet, PTL

\* On such a network server, IVR and the messages between them keep the promise of
\* Call, for any number of callers and agents: the caller talks to the IVR first,
\* then to one agent and never back, calls are offered to one agent at a time, and
\* no agent who took a call is let go while the caller is in it.
THEOREM PromiseKept ==
  ASSUME MaxTrouble = 0, ~Hasty
  PROVE  Spec => KeepsPromise
<1>1. Init => Promise!Init
  BY InitMaps
<1>2. MetInv /\ MetInv' /\ [Next]_vars => [Promise!Next]_(Promise!vars)
  <2> SUFFICES ASSUME MetInv, MetInv', [Next]_vars PROVE [Promise!Next]_(Promise!vars)
    OBVIOUS
  <2>1. CASE UNCHANGED vars
    <3>1. UNCHANGED <<phone, rtp, dialog>>
      BY <2>1 DEF vars, phoneVars
    <3> QED BY <3>1 DEF Promise!vars, CallerStage, AgentStage
  <2>2. CASE Next
    <3>1. Guided
      BY <2>2, Stopped DEF MetInv, GuidedInv
    <3> QED BY <3>1, NextMaps DEF MetInv, GuidedInv
  <2> QED BY <2>1, <2>2
<1> QED BY <1>1, <1>2, CallsMet, PTL DEF Spec, KeepsPromise, Promise!Spec

\* What is proved of Call holds of what implements it.
Pairing == INSTANCE CallProofs WITH
  caller <- [c \in Callers |-> CallerStage(c)],
  hears <- [c \in Callers |-> rtp[c]],
  agent <- [a \in Agents |-> AgentStage(a)],
  serves <- dialog

\* So callers and agents are joined in pairs: a call has at most one agent, a
\* caller who talks to an agent has that agent, and an agent in a call has the
\* caller or is the last one in it.
THEOREM PairedKept ==
  ASSUME MaxTrouble = 0, ~Hasty
  PROVE  Spec => []Promise!Paired
<1>1. Promise!Distinct
  BY CallFlowAssumption, SipAssumption DEF Promise!Distinct, Callers, Numbers
<1>2. Pairing!Distinct
  BY <1>1 DEF Promise!Distinct, Pairing!Distinct
<1>3. Pairing!Spec => [](Pairing!TypeOK /\ Pairing!Paired)
  BY <1>2, Pairing!CallersHaveTheirAgents
<1>4. Promise!Init => Pairing!Init
  BY DEF Promise!Init, Pairing!Init
<1>5. [Promise!Next]_(Promise!vars) => [Pairing!Next]_(Pairing!vars)
  BY DEF Promise!Next, Promise!vars, Promise!Dials, Promise!Greeted, Promise!Ends, Promise!Joined,
         Promise!Offered, Promise!Accepts, Promise!Withdrawn, Promise!Bridged, Promise!Leaves,
         Promise!Released, Promise!Stage, Promise!Becomes,
         Pairing!Next, Pairing!vars, Pairing!Dials, Pairing!Greeted, Pairing!Ends, Pairing!Joined,
         Pairing!Offered, Pairing!Accepts, Pairing!Withdrawn, Pairing!Bridged, Pairing!Leaves,
         Pairing!Released, Pairing!Stage, Pairing!Becomes
<1>6. Pairing!TypeOK /\ Pairing!Paired => Promise!Paired
  BY DEF Pairing!Paired, Promise!Paired
<1> QED BY <1>3, <1>4, <1>5, <1>6, PromiseKept, PTL DEF KeepsPromise, Promise!Spec, Pairing!Spec
-----------------------------------------------------------------------------
(***************************************************************************)
(* Agents decide.                                                          *)
(*                                                                         *)
(* An agent accepts or refuses, not both, and the server hears of it: it   *)
(* takes the answer of the agent for that of the agent it refers to, and   *)
(* keeps an agent's media only of one who has answered (Decided).          *)
(***************************************************************************)
\* An agent is offered the call, and has not decided, ...
OfferedTo(c, a) == Rung(c, a) \/ (dialog[a] = c /\ phone[a] = "ringing")

Undecided(c) == \E a \in Agents : OfferedTo(c, a)

\* ... or has refused it.
Refused(c) == \E a \in Agents : \E m \in Rises(c, a) : m.type \in {"480", "486"}

\* No agent has answered.
NoAnswer(c) ==
  /\ sessions[c] # None => sessions[c].referedToMedia = None
  /\ \A n \in Agents \cup {c} : \A m \in Rises(c, n) : ~OkInvite(m)
  /\ \A m \in Falls(c, c) : m.type # "INVITE"

\* An answer finds the referral it is for.
Owed(c) ==
  sessions[c] # None =>
    /\ sessions[c].dest \in {None, Ivr}
    /\ sessions[c].referedDest = None => sessions[c].referedToMedia = None
    /\ \A a \in Agents : \A m \in Rises(c, a) : OkInvite(m) => sessions[c].referedDest = a
    /\ \A m \in Rises(c, c) : OkInvite(m) => sessions[c].referedDest # None
    /\ \A m \in Falls(c, c) : m.type = "INVITE" => sessions[c].referedDest # None

DecidedCall(c) == (Undecided(c) \/ Refused(c) => NoAnswer(c)) /\ Owed(c)

Decided == \A c \in CallIds : DecidedCall(c)

\* A step after which nobody is offered the call anew, and only the IVR has said
\* something.
LEMMA DecidedApart ==
  ASSUME NEW c \in CallIds, DecidedCall(c), sessions'[c] = sessions[c], Undecided(c)' => Undecided(c),
         \A n \in Numbers : /\ n = Ivr \/ Rises(c, n)' \subseteq Rises(c, n)
                            /\ Falls(c, n)' \subseteq Falls(c, n)
  PROVE  DecidedCall(c)'
<1>1. c \in Numbers /\ c # Ivr /\ Ivr \notin Agents /\ Agents \subseteq Numbers
  BY PartyType, CallFlowAssumption, SipAssumption DEF Numbers
<1>2. /\ \A n \in Agents \cup {c} : Rises(c, n)' \subseteq Rises(c, n)
      /\ Falls(c, c)' \subseteq Falls(c, c)
  BY <1>1
<1>3. (Refused(c)' => Refused(c)) /\ (NoAnswer(c) => NoAnswer(c)')
  BY <1>2 DEF Refused, NoAnswer
<1>4. Owed(c) => Owed(c)'
  BY <1>2 DEF Owed
<1> QED BY <1>3, <1>4 DEF DecidedCall

\* Where the caller speaks with nobody but the IVR, no agent has answered.
LEMMA AgentlessNoAnswer ==
  ASSUME NEW c \in CallIds, UsualOf(c), Agentless(c), Owed(c)
  PROVE  NoAnswer(c)
<1>1. c \in Numbers /\ c # Ivr /\ Ivr \notin Agents /\ Agents \subseteq Numbers
  BY PartyType, CallFlowAssumption, SipAssumption DEF Numbers
<1>2. ASSUME NEW n \in Agents \cup {c}, NEW m \in Rises(c, n)
      PROVE  ~OkInvite(m)
  BY <1>1, <1>2 DEF UsualOf, Utters, Agentless, OnlyPlain, Plain, OkInvite
<1>3. \A m \in Falls(c, c) : m.type # "INVITE"
  BY <1>1 DEF UsualOf, Hears, Agentless, OnlyPlain, Plain
<1>4. sessions[c] # None => sessions[c].referedToMedia = None
  BY DEF Agentless, PlainSession, Owed
<1> QED BY <1>2, <1>3, <1>4 DEF NoAnswer

\* The server accepts a referral: no agent has answered.
LEMMA DecidedOffer ==
  ASSUME Kept, NEW n \in Numbers, ServerStep(n), Kept', NEW m, NEW c \in CallIds, Served(n, m, c),
         GuidedCall(c), UsualOf(c), DecidedCall(c), Accepts(c, m)
  PROVE  DecidedCall(c)'
<1>0. /\ sent' \in Seq(Of(c)) /\ Of(c) \in SUBSET Datagram /\ m \in Rises(c, n) /\ m.callID = c
      /\ c \in Numbers /\ c \notin Agents /\ c # Ivr /\ Ivr \notin Agents /\ Agents \subseteq Numbers
  <2>1. m \in Rises(c, n)
    BY DEF Served
  <2>2. c \in Numbers /\ c \notin Agents /\ c # Ivr /\ Ivr \notin Agents /\ Agents \subseteq Numbers
    BY PartyType, CallFlowAssumption, SipAssumption DEF Numbers
  <2> QED BY <2>1, <2>2, ServedStays
<1>1. m.type = "REFER" /\ m.referTo \in Agents
  BY <1>0 DEF Accepts, UsualOf, Utters
<1>2. Agentless(c) /\ NoAnswer(c)
  <2>1. Leads(c, m)
    BY <1>0, <1>1 DEF Leads
  <2> QED BY <2>1, ServedLead, AgentlessNoAnswer DEF DecidedCall
<1>3. /\ sessions[c] # None /\ sessions'[c].dest = Ivr /\ sessions'[c].referedDest = m.referTo
      /\ \A x \in In(sent') : x.type = "INVITE" => x.peer = m.referTo
  BY ReferralIs
<1>4. sessions'[c].referedToMedia = sessions[c].referedToMedia
  <2>1. sessions' = [sessions EXCEPT ![c] = [sessions[c] EXCEPT !.referedDest = m.referTo]]
    BY DEF Accepts
  <2>2. sessions \in [CallIds -> OrNone(Server!Session)]
    BY DEF Kept, Programs, ServerKeeps
  <2>3. sessions'[c] = [sessions[c] EXCEPT !.referedDest = m.referTo] /\ sessions[c] \in Server!Session
    BY <1>3, <2>1, <2>2 DEF OrNone
  <2> QED BY <2>3 DEF Server!Session
<1>5. /\ \A k \in Numbers : Rises(c, k)' \subseteq Rises(c, k)
      /\ \A x \in Falls(c, c)' : x \in Falls(c, c) \/ (x \in In(sent') /\ x.peer = c)
  BY <1>0, ServerLinks
<1>6. NoAnswer(c)'
  BY <1>0, <1>1, <1>2, <1>3, <1>4, <1>5 DEF NoAnswer
<1>7. Owed(c)'
  <2>1. m.referTo # None
    BY <1>1, CallFlowAssumption, SipAssumption DEF Numbers
  <2> QED BY <1>3, <1>6, <2>1 DEF Owed, NoAnswer
<1> QED BY <1>6, <1>7 DEF DecidedCall

\* The server passes on an answer or a refusal.
LEMMA ServerDecides ==
  ASSUME Kept, NEW n \in Numbers, ServerStep(n), Kept', NEW m, NEW c \in CallIds, Served(n, m, c),
         Comes(c, n, m), GuidedCall(c), UsualOf(c), DecidedCall(c), ~Accepts(c, m)
  PROVE  DecidedCall(c)'
<1> DEFINE s == sessions[c]
           t == sessions'[c]
<1>0. /\ sent' \in Seq(Of(c)) /\ Of(c) \in SUBSET Datagram /\ UNCHANGED <<phone, dialog>>
      /\ c \in Numbers /\ c \notin Agents /\ c # Ivr /\ Ivr \notin Agents /\ Agents \subseteq Numbers
      /\ None \notin Agents /\ m \in Rises(c, n) /\ m.callID = c /\ Server!Handle(m) /\ ServerKeeps
  <2>1. UNCHANGED <<phone, dialog>> /\ m \in Rises(c, n) /\ ServerKeeps
    BY DEF Served, ServerDoes, phoneVars, Kept, Programs
  <2>2. c \in Numbers /\ c \notin Agents /\ c # Ivr /\ Ivr \notin Agents /\ Agents \subseteq Numbers
        /\ None \notin Agents
    BY PartyType, CallFlowAssumption, SipAssumption DEF Numbers
  <2> QED BY <2>1, <2>2, ServedStays
<1>1. /\ Utters(c, n, m) /\ n \in {c, Ivr} \cup Agents /\ Owed(c)
      /\ m.type = "INVITE" => m = Invitation(c)
      /\ s # None => s.src = c /\ s.referedDest \in OrNone(Agents)
  BY ArrivesFrom DEF Comes, Arrives, Party, DecidedCall
<1>t. Transfers(c, m) => OkInvite(m) /\ n \in Agents /\ s # None /\ s.referedDest = n
  BY <1>0, <1>1 DEF Transfers, Server!Transfered, Utters, OkInvite, OrNone
<1>2. \A x \in In(sent') : Gives(c, m, x.peer, x)
  BY DEF Served, DuesOf, Due
<1>3. \A k \in Numbers : /\ Rises(c, k)' \subseteq Rises(c, k)
                         /\ \A x \in Falls(c, k)' : x \in Falls(c, k) \/ (x \in In(sent') /\ x.peer = k)
  BY <1>0, ServerLinks
<1>4. \A x \in Falls(c, c)' : x.type = "INVITE" => x \in Falls(c, c) \/ Transfers(c, m)
  BY <1>0, <1>2, <1>3 DEF Gives
<1>5. \A a \in Agents : Rung(c, a)' => Rung(c, a)
  BY <1>0, <1>2, <1>3 DEF Gives, Rung
<1>6. Undecided(c)' \/ Refused(c)' => Undecided(c) \/ Refused(c)
  BY <1>0, <1>3, <1>5 DEF Undecided, Refused, OfferedTo
<1>7. t # None => Turned(s, t, m)
  BY <1>0, HandleTurns
<1>8. NoAnswer(c) => NoAnswer(c)'
  <2> SUFFICES ASSUME NoAnswer(c)
               PROVE  NoAnswer(c)'
    OBVIOUS
  <2>1. ~Transfers(c, m)
    BY <1>0, <1>t DEF NoAnswer
  <2>2. t # None => t.referedToMedia = None
    BY <1>7, <2>1 DEF Turned, NoAnswer, Transfers
  <2> QED BY <1>0, <1>3, <1>4, <2>1, <2>2 DEF NoAnswer
<1>9. Owed(c)'
  <2> SUFFICES ASSUME t # None
               PROVE  Owed(c)'
    BY DEF Owed
  <2>1. CASE s = None
    <3>1. m = Invitation(c) /\ t.referedDest = None /\ t.dest = None
      BY <1>1, <1>7, <2>1 DEF Turned
    <3>2. Leads(c, m)
      BY <1>0, <3>1, InvitationIs DEF Leads, Opens
    <3>3. NoAnswer(c)'
      BY <1>1, <1>8, <3>2, ServedLead, AgentlessNoAnswer
    <3> QED BY <1>0, <3>1, <3>3 DEF Owed, NoAnswer
  <2>2. CASE s # None /\ t.referedDest = s.referedDest
    <3>1. ASSUME OkInvite(m), ~Server!Transfered(s, m), ~Server!UpdateMedia(s, m)
          PROVE  m.to = Ivr
      <4>1. m.to = n
        BY <1>1, <3>1 DEF Utters, OkInvite
      <4>2. CASE n \in Agents
        BY <1>0, <1>1, <2>2, <3>1, <4>1, <4>2 DEF Owed, Server!Transfered
      <4>3. CASE n = c
        BY <1>0, <1>1, <2>2, <3>1, <4>1, <4>3 DEF Owed, Server!UpdateMedia, OrNone
      <4> QED BY <1>1, <4>1, <4>2, <4>3
    <3>2. t.dest \in {None, Ivr}
      BY <1>1, <1>7, <2>2, <3>1 DEF Turned, Owed
    <3>3. t.referedDest = None => t.referedToMedia = None
      BY <1>1, <1>7, <2>2 DEF Turned, Owed, Server!Transfered
    <3>4. \A a \in Agents : \A x \in Rises(c, a)' : OkInvite(x) => t.referedDest = a
      BY <1>0, <1>1, <1>3, <2>2 DEF Owed
    <3>5. \A x \in Rises(c, c)' : OkInvite(x) => t.referedDest # None
      BY <1>0, <1>1, <1>3, <2>2 DEF Owed
    <3>6. \A x \in Falls(c, c)' : x.type = "INVITE" => t.referedDest # None
      BY <1>0, <1>1, <1>t, <1>4, <2>2 DEF Owed
    <3> QED BY <3>2, <3>3, <3>4, <3>5, <3>6 DEF Owed
  <2>3. CASE s # None /\ m.type \in {"480", "486"} /\ t.referedDest = None
    <3>1. Refused(c)
      BY <1>0, <1>1, <2>3 DEF Refused, Utters
    <3>2. NoAnswer(c)'
      BY <1>8, <3>1 DEF DecidedCall
    <3>3. t.dest \in {None, Ivr}
      BY <1>1, <1>7, <2>3 DEF Turned, Owed, OkInvite
    <3> QED BY <1>0, <2>3, <3>2, <3>3 DEF Owed, NoAnswer
  <2> QED BY <1>7, <2>1, <2>2, <2>3 DEF Turned
<1> QED BY <1>6, <1>8, <1>9 DEF DecidedCall

\* No step of the server decides for an agent.
LEMMA ServerDecided ==
  ASSUME Kept, Told, Usual, Guided, Decided, NEW n \in Numbers, ServerStep(n)
  PROVE  Decided'
<1>1. PICK m \in Datagram, c \in CallIds :
           /\ ServerDoes(n, m, c) /\ m \in Rises(c, n) /\ m.type # "REGISTER"
           /\ Comes(c, n, m) /\ DuesOf(c, m)
  BY ServerWorks
<1>2. Kept'
  BY ServerStepDoes
<1>3. Served(n, m, c) /\ GuidedCall(c)
  BY <1>1 DEF Served, Guided
<1>4. DecidedCall(c)'
  BY <1>1, <1>2, <1>3, ServerDecides, DecidedOffer DEF Decided, Usual
<1>5. ASSUME NEW d \in CallIds \ {c}
      PROVE  DecidedCall(d)'
  <2>0. sent' \in Seq(Of(c)) /\ Of(c) \in SUBSET Datagram /\ sessions'[d] = sessions[d]
        /\ UNCHANGED <<phone, dialog>> /\ d \in Numbers /\ Agents \subseteq Numbers
    BY <1>1, PartyType, CallFlowAssumption DEF ServerDoes, Serves, Speaks, Of, phoneVars, Numbers
  <2>1. \A x \in In(sent') : x.callID # d
    <3>1. In(sent') \subseteq Of(c)
      BY <2>0, InType
    <3> QED BY <3>1 DEF Of
  <2>2. \A k \in Numbers : Rises(d, k)' \subseteq Rises(d, k) /\ Falls(d, k)' \subseteq Falls(d, k)
    <3>1. \A k \in Numbers : Rises(d, k)' \subseteq Rises(d, k)
      BY <1>2, <2>0, ServerLinks
    <3>2. \A k \in Numbers : \A x \in Falls(d, k)' : x \in Falls(d, k) \/ (x \in In(sent') /\ x.callID = d)
      BY <1>2, <2>0, ServerLinks
    <3> QED BY <2>1, <3>1, <3>2
  <2>3. Undecided(d)' => Undecided(d)
    BY <2>0, <2>2 DEF Undecided, OfferedTo, Rung
  <2> QED BY <2>0, <2>2, <2>3, DecidedApart DEF Decided
<1> QED BY <1>4, <1>5 DEF Decided

\* Nor does the IVR.
LEMMA IvrDecided ==
  ASSUME Decided, NEW c, IvrDoes(c)
  PROVE  Decided'
<1>1. /\ UNCHANGED <<sessions, phone, dialog>>
      /\ \A k \in Numbers \ {Ivr} : uplink'[k] = uplink[k]
      /\ \A k \in Numbers : In(downlink'[k]) \subseteq In(downlink[k])
  BY DEF IvrDoes, serverVars, phoneVars
<1>2. Agents \subseteq Numbers
  BY CallFlowAssumption DEF Numbers
<1>3. ASSUME NEW d \in CallIds
      PROVE  DecidedCall(d)'
  <2>1. \A k \in Numbers : /\ k = Ivr \/ Rises(d, k)' \subseteq Rises(d, k)
                           /\ Falls(d, k)' \subseteq Falls(d, k)
    BY <1>1 DEF Rises, Falls
  <2>2. Undecided(d)' => Undecided(d)
    BY <1>1, <1>2, <2>1 DEF Undecided, OfferedTo, Rung
  <2> QED BY <1>1, <2>1, <2>2, DecidedApart DEF Decided
<1> QED BY <1>3 DEF Decided
-----------------------------------------------------------------------------
(***************************************************************************)
(* The phones decide.                                                      *)
(***************************************************************************)
\* What a phone sends is all that rises anew from it: nothing, ...
LEMMA SaysOnly ==
  ASSUME Kept, NEW u \in Numbers, NEW S, NEW ms \in Seq(S), Sends(u, ms)
  PROVE  \A k : \A x \in Rises(k, u)' : x \in Rises(k, u) \/ (x \in In(ms) /\ x.callID = k)
<1> DEFINE T == Datagram \cup S
<1>1. uplink \in [Numbers -> Seq(Datagram)] /\ uplink'[u] = uplink[u] \o ms
  BY DEF Kept, Up, Sends
<1>2. In(uplink[u]) \subseteq T /\ In(ms) \subseteq T
  BY <1>1, InType
<1>3. uplink[u] \in Seq(T) /\ ms \in Seq(T)
  <2> HIDE DEF T
  <2> QED BY <1>1, <1>2, SeqOfIn
<1> HIDE DEF T
<1>4. In(uplink'[u]) = In(uplink[u]) \cup In(ms)
  BY <1>1, <1>3, InConcat
<1> QED BY <1>4 DEF Rises

\* ... one datagram ...
LEMMA SaysOne ==
  ASSUME Kept, NEW u \in Numbers, NEW y, Sends(u, <<y>>)
  PROVE  \A k : \A x \in Rises(k, u)' : x \in Rises(k, u) \/ (x = y /\ y.callID = k)
<1>1. <<y>> \in Seq({y}) /\ In(<<y>>) = {y}
  BY InOne
<1> QED BY <1>1, SaysOnly

\* ... or two.
LEMMA SaysTwo ==
  ASSUME Kept, NEW u \in Numbers, NEW y, NEW z, Sends(u, <<y, z>>)
  PROVE  \A k : \A x \in Rises(k, u)' : x \in Rises(k, u) \/ x \in {y, z}
<1>1. <<y, z>> \in Seq({y, z}) /\ In(<<y, z>>) = {y, z}
  BY InTwo
<1> QED BY <1>1, SaysOnly

\* A phone that says nothing.
LEMMA SaysNothing ==
  ASSUME Kept, NEW u \in Numbers, Sends(u, <<>>)
  PROVE  \A k : Rises(k, u)' \subseteq Rises(k, u)
<1>1. <<>> \in Seq({}) /\ In(<<>>) = {}
  BY InNone
<1> QED BY <1>1, SaysOnly

\* What is on its way to a phone that takes it in.
LEMMA HeadFalls ==
  ASSUME Kept, NEW u \in Numbers, downlink[u] # <<>>
  PROVE  /\ Head(downlink[u]).callID \in CallIds /\ Head(downlink[u]) \in Datagram
         /\ Head(downlink[u]) \in Falls(Head(downlink[u]).callID, u)
         /\ u \in CallIds => Head(downlink[u]).callID = u
<1>1. downlink[u] \in Seq(Datagram) /\ Down
  BY DEF Kept, Down
<1>2. Head(downlink[u]) \in In(downlink[u]) /\ Head(downlink[u]) \in Datagram
  BY <1>1, InTail
<1> QED BY <1>1, <1>2, OwnDownlink DEF Falls

\* A caller's phone answers an INVITE with a 200 when it gets one.
LEMMA CallerSays ==
  ASSUME Kept, Usual, NEW c \in CallIds, Dial(c) \/ CallerActs(c)
  PROVE  \A x \in Rises(c, c)' : x \in Rises(c, c) \/
           (OkInvite(x) => \E m \in Falls(c, c) : m.type = "INVITE")
<1>0. c \in Numbers
  BY PartyType
<1>f. \A to : OkInvite(Own("BYE", c, c, to)) = FALSE /\ OkInvite(Own("ACK", c, c, to)) = FALSE
  BY UtterFields DEF OkInvite
<1>1. CASE Dial(c)
  <2>1. Sends(c, <<Invitation(c)>>)
    BY <1>1 DEF Dial, Acts, Invitation
  <2>2. ~OkInvite(Invitation(c))
    BY InvitationIs DEF OkInvite
  <2> QED BY <1>0, <2>1, <2>2, SaysOne
<1>2. CASE Abandon(c)
  BY <1>0, <1>2, SaysNothing DEF Abandon, Acts
<1>3. CASE CallerHangsUp(c)
  BY <1>0, <1>3, <1>f, SaysOne DEF CallerHangsUp, Acts
<1>4. CASE CallerReceives(c)
  <2>1. PICK m \in {Head(downlink[c])} : TRUE
    OBVIOUS
  <2>2. /\ downlink[c] # <<>>
        /\ \/ CallerAnswered(c, m) \/ CallerReinvited(c, m) \/ CallerToldBye(c, m)
           \/ CallerByeAnswered(c, m) \/ CallerToldTerminated(c, m) \/ CallerIgnores(c, m)
    BY <1>4, <2>1 DEF CallerReceives
  <2>3. m \in Falls(c, c) /\ m \in Datagram
    BY <1>0, <2>1, <2>2, HeadFalls
  <2>4. Hears(c, c, m)
    BY <1>0, <2>3 DEF Usual, UsualOf
  <2>5. CASE m.type = "INVITE"
    BY <2>3, <2>5
  <2>6. CASE Takes(c, <<>>)
    BY <1>0, <2>6, SaysNothing DEF Takes
  <2>7. CASE CallerAnswered(c, m)
    <3>1. PICK y \in {Own("ACK", c, c, m.to)}, z \in {Own("BYE", c, c, Ivr)} : TRUE
      OBVIOUS
    <3>2. ~OkInvite(y) /\ ~OkInvite(z)
      BY <1>f, <3>1
    <3>3. Sends(c, <<y>>) \/ Sends(c, <<y, z>>)
      BY <2>7, <3>1 DEF CallerAnswered, Takes
    <3> QED BY <1>0, <3>2, <3>3, SaysOne, SaysTwo
  <2>8. CASE m.type = "BYE" /\ Takes(c, <<Reply("200", c, m)>>)
    <3>1. Reply("200", c, m).cseq = "BYE"
      BY <2>3, <2>4, <2>8, ReplyFields DEF Hears
    <3>2. ~OkInvite(Reply("200", c, m))
      BY <3>1 DEF OkInvite
    <3> QED BY <1>0, <2>8, <3>2, SaysOne DEF Takes
  <2>9. CASE Takes(c, <<[m EXCEPT !.type = "ACK", !.cseq = "ACK", !.peer = c]>>)
    <3>1. ~OkInvite([m EXCEPT !.type = "ACK", !.cseq = "ACK", !.peer = c])
      BY <2>3, ReplyFields DEF OkInvite
    <3> QED BY <1>0, <2>9, <3>1, SaysOne DEF Takes
  <2> QED BY <2>2, <2>5, <2>6, <2>7, <2>8, <2>9
          DEF CallerReinvited, CallerToldBye, CallerByeAnswered, CallerToldTerminated, CallerIgnores
<1> QED BY <1>1, <1>2, <1>3, <1>4 DEF CallerActs

\* An agent's phone says neither, refuses a call that it is offered, or answers it.
Chooses(k, a) ==
  \/ \A x \in Rises(k, a)' : x \in Rises(k, a) \/ (~OkInvite(x) /\ x.type \notin {"480", "486"})
  \/ OfferedTo(k, a) /\ \A x \in Rises(k, a)' : x \in Rises(k, a) \/ ~OkInvite(x)
  \/ /\ phone[a] = "ringing" /\ phone'[a] = "answered" /\ dialog[a] = k /\ dialog'[a] = k
     /\ \A x \in Rises(k, a)' : x \in Rises(k, a) \/ x.type \notin {"480", "486"}

\* It does no more than that.
LEMMA AgentChooses ==
  ASSUME Kept, Usual, NEW a \in Agents, AgentActs(a), NEW k \in CallIds
  PROVE  Chooses(k, a)
<1>0. /\ a \in Numbers
      /\ \A st, to : Becomes(a, st, to) => phone'[a] = st
  BY AgentIs
<1>r. \A type, c : /\ Response(type, c, a).type = type /\ Response(type, c, a).callID = c
                   /\ [Response(type, c, a) EXCEPT !.sdp = a].type = type
                   /\ [Response(type, c, a) EXCEPT !.sdp = a].callID = c
  BY DEF Response, Message
<1>1. CASE AgentAnswers(a)
  <2>1. PICK y \in {[Response("200", dialog[a], a) EXCEPT !.sdp = a]} : TRUE
    OBVIOUS
  <2>2. Sends(a, <<y>>) /\ phone[a] = "ringing" /\ phone'[a] = "answered" /\ dialog' = dialog
    BY <1>0, <1>1, <2>1 DEF AgentAnswers, Acts
  <2>r. PICK c \in {dialog[a]} : TRUE
    OBVIOUS
  <2>y. y = [Response("200", c, a) EXCEPT !.sdp = a] /\ c = dialog[a]
    BY <2>1, <2>r
  <2>3. y.type = "200" /\ y.callID = dialog[a]
    BY <1>r, <2>y
  <2>4. \A x \in Rises(k, a)' : x \in Rises(k, a) \/ (x = y /\ y.callID = k)
    BY <1>0, <2>2, SaysOne
  <2>5. CASE k = dialog[a]
    BY <2>2, <2>3, <2>4, <2>5 DEF Chooses
  <2>6. CASE k # dialog[a]
    BY <2>3, <2>4, <2>6 DEF Chooses
  <2> QED BY <2>5, <2>6
<1>2. CASE AgentRejects(a)
  <2>1. PICK type \in {"480", "486"} : Acts(a, <<Response(type, dialog[a], a)>>)
    BY <1>2 DEF AgentRejects
  <2>2. PICK y \in {Response(type, dialog[a], a)} : TRUE
    OBVIOUS
  <2>3. Sends(a, <<y>>) /\ phone[a] = "ringing" /\ ~OkInvite(y) /\ y.callID = dialog[a]
    BY <1>2, <1>r, <2>1, <2>2 DEF AgentRejects, Acts, OkInvite
  <2> QED BY <1>0, <2>3, SaysOne DEF OfferedTo, Chooses
<1>3. CASE AgentHangsUp(a)
  <2>1. PICK y \in {Own("BYE", dialog[a], a, dialog[a])} : TRUE
    OBVIOUS
  <2>2. Sends(a, <<y>>) /\ y.type = "BYE"
    BY <1>3, <2>1, UtterFields DEF AgentHangsUp, Acts
  <2> QED BY <1>0, <2>2, SaysOne DEF OkInvite, Chooses
<1>4. CASE AgentReceives(a)
  <2>m. PICK m \in {Head(downlink[a])} : TRUE
    OBVIOUS
  <2>1. /\ downlink[a] # <<>>
        /\ \/ AgentInvited(a, m) \/ AgentCancelled(a, m) \/ AgentAcknowledged(a, m)
           \/ AgentToldBye(a, m) \/ AgentByeAnswered(a, m) \/ AgentIgnores(a, m)
    BY <1>4, <2>m DEF AgentReceives
  <2>2. m.callID \in CallIds /\ m \in Datagram /\ m \in Falls(m.callID, a)
    BY <1>0, <2>m, <2>1, HeadFalls
  <2>3. m.type \in {"BYE", "CANCEL"} => m.cseq = m.type
    BY <1>0, <2>2 DEF Usual, UsualOf, Hears
  <2>4. CASE Takes(a, <<>>)
    BY <1>0, <2>4, SaysNothing DEF Takes, Chooses
  <2>5. CASE Takes(a, <<Response("180", m.callID, a)>>)
    <3>1. PICK y \in {Response("180", m.callID, a)} : TRUE
      OBVIOUS
    <3>2. Sends(a, <<y>>) /\ y.type = "180"
      BY <1>r, <2>5, <3>1 DEF Takes
    <3> QED BY <1>0, <3>2, SaysOne DEF OkInvite, Chooses
  <2>6. CASE m.type = "INVITE" /\ Takes(a, <<Response("486", m.callID, a)>>)
    <3>1. PICK y \in {Response("486", m.callID, a)} : TRUE
      OBVIOUS
    <3>2. Sends(a, <<y>>) /\ ~OkInvite(y) /\ y.callID = m.callID
      BY <1>r, <2>6, <3>1 DEF Takes, OkInvite
    <3>3. Rung(m.callID, a)
      BY <2>2, <2>6 DEF Rung
    <3> QED BY <1>0, <3>2, <3>3, SaysOne DEF OfferedTo, Chooses
  <2>7. CASE AgentCancelled(a, m) \/ AgentToldBye(a, m)
    <3>1. PICK y \in {Reply("200", a, m)}, z \in {Response("487", m.callID, a)} : TRUE
      OBVIOUS
    <3>2. y.type = "200" /\ y.cseq # "INVITE" /\ z.type = "487"
      <4>1. Reply("200", a, m).type = "200" /\ Reply("200", a, m).cseq = m.cseq
        BY <2>2, ReplyFields
      <4> QED BY <1>r, <2>3, <2>7, <3>1, <4>1 DEF AgentCancelled, AgentToldBye
    <3>3. Sends(a, <<y>>) \/ Sends(a, <<y, z>>)
      BY <2>7, <3>1 DEF AgentCancelled, AgentToldBye, Takes
    <3>4. \A x \in {y, z} : ~OkInvite(x) /\ x.type \notin {"480", "486"}
      BY <3>2 DEF OkInvite
    <3> QED BY <1>0, <3>3, <3>4, SaysOne, SaysTwo DEF Chooses
  <2>8. CASE AgentInvited(a, m)
    BY <2>4, <2>5, <2>6, <2>8 DEF AgentInvited
  <2>9. CASE AgentAcknowledged(a, m) \/ AgentByeAnswered(a, m) \/ AgentIgnores(a, m)
    BY <2>4, <2>9 DEF AgentAcknowledged, AgentByeAnswered, AgentIgnores
  <2> QED BY <2>1, <2>7, <2>8, <2>9
<1>5. AgentAnswers(a) \/ AgentRejects(a) \/ AgentHangsUp(a) \/ AgentReceives(a)
  BY DEF AgentActs
<1> QED BY <1>1, <1>2, <1>3, <1>4, <1>5

\* The caller's phone answers the re-INVITE only after the agent.
LEMMA CallerDecided ==
  ASSUME Kept, Kept', Usual, Decided, NEW c \in CallIds, CallerGoes(c), Dial(c) \/ CallerActs(c),
         Listening(c), Apart, UNCHANGED dialog
  PROVE  Decided'
<1>0. /\ c \notin Agents /\ Ivr \notin Agents /\ Agents \subseteq Users /\ Agents \subseteq Numbers
      /\ c \in Numbers /\ c # Ivr /\ Of(c) \in SUBSET Datagram /\ UNCHANGED sessions
  BY PartyType, CallFlowAssumption, SipAssumption DEF Numbers, Of, Apart, serverVars
<1>1. \A a \in Agents : phone'[a] = phone[a] /\ dialog'[a] = dialog[a]
  BY <1>0 DEF CallerGoes, Aside
<1>2. PICK ms \in Seq(Of(c)) : Sends(c, ms)
  BY DEF CallerGoes, Tells
<1>3. PICK S \in {Of(c)} : TRUE
  OBVIOUS
<1>4. /\ \A k \in Numbers \ {c} : uplink'[k] = uplink[k]
      /\ \A k \in Numbers : In(downlink'[k]) \subseteq In(downlink[k])
      /\ In(uplink'[c]) = In(uplink[c]) \cup In(ms) /\ In(ms) \subseteq S
  BY <1>0, <1>2, <1>3, PhoneTurns
<1>5. ASSUME NEW d \in CallIds
      PROVE  /\ \A k \in Numbers : Falls(d, k)' \subseteq Falls(d, k)
             /\ \A k \in Numbers \ {c} : Rises(d, k)' = Rises(d, k)
             /\ Undecided(d)' => Undecided(d)
  <2>1. /\ \A k \in Numbers : Falls(d, k)' \subseteq Falls(d, k)
        /\ \A k \in Numbers \ {c} : Rises(d, k)' = Rises(d, k)
    BY <1>4 DEF Rises, Falls
  <2> QED BY <1>0, <1>1, <2>1 DEF Undecided, OfferedTo, Rung
<1>6. ASSUME NEW d \in CallIds \ {c}
      PROVE  DecidedCall(d)'
  <2>1. Rises(d, c)' \subseteq Rises(d, c)
    BY <1>3, <1>4 DEF Rises, Of
  <2> QED BY <1>0, <1>5, <2>1, DecidedApart DEF Decided
<1>7. DecidedCall(c)'
  <2>1. \A x \in Rises(c, c)' : x \in Rises(c, c) \/
           (OkInvite(x) => \E m \in Falls(c, c) : m.type = "INVITE")
    BY CallerSays
  <2>2. \A a \in Agents : Rises(c, a)' = Rises(c, a)
    BY <1>0, <1>5
  <2>3. Refused(c)' => Refused(c)
    BY <2>2 DEF Refused
  <2>4. NoAnswer(c) => NoAnswer(c)'
    BY <1>0, <1>5, <2>1, <2>2 DEF NoAnswer
  <2>5. Owed(c) => Owed(c)'
    BY <1>0, <1>5, <2>1, <2>2 DEF Owed
  <2> QED BY <1>5, <2>3, <2>4, <2>5 DEF Decided, DecidedCall
<1> QED BY <1>6, <1>7 DEF Decided

\* An agent decides once, and is the one whom the server refers to.
LEMMA AgentDecided ==
  ASSUME Kept, Kept', Usual, Met, Met', Decided, NEW a \in Agents, NEW k \in CallIds, AgentGoes(a, k),
         AgentActs(a), Listening(a), Apart
  PROVE  Decided'
<1>0. /\ Agents \subseteq Users /\ Agents \subseteq Numbers /\ a \in Numbers /\ None \notin CallIds
      /\ k \in Numbers /\ k # a /\ a # Ivr /\ a \notin CallIds
      /\ Of(k) \in SUBSET Datagram /\ UNCHANGED sessions /\ MetCall(k) /\ Unengaged
  <2>1. Agents \subseteq Users /\ Agents \subseteq Numbers /\ None \notin CallIds /\ k \in Numbers
    BY PartyType, CallFlowAssumption, SipAssumption DEF Numbers
  <2>2. Of(k) \in SUBSET Datagram /\ UNCHANGED sessions /\ MetCall(k) /\ Unengaged
    BY DEF Met, Of, Apart, serverVars
  <2> QED BY <2>1, <2>2, AgentIs
<1>1. \A b \in Agents \ {a} : phone'[b] = phone[b] /\ dialog'[b] = dialog[b]
  BY <1>0 DEF AgentGoes, AgentMoves, Aside
<1>2. PICK ms \in Seq(Of(k)) : Sends(a, ms) /\ \A x \in In(ms) : Reports(k, a, x)'
  BY DEF AgentGoes, Tells
<1>3. PICK S \in {Of(k)} : TRUE
  OBVIOUS
<1>4. /\ \A n \in Numbers \ {a} : uplink'[n] = uplink[n]
      /\ \A n \in Numbers : In(downlink'[n]) \subseteq In(downlink[n])
      /\ In(uplink'[a]) = In(uplink[a]) \cup In(ms) /\ In(ms) \subseteq S
  BY <1>0, <1>2, <1>3, PhoneTurns
<1>m. AgentMoves(a, k)
  BY DEF AgentGoes
<1>5. ASSUME NEW d \in CallIds
      PROVE  /\ \A n \in Numbers : Falls(d, n)' \subseteq Falls(d, n)
             /\ \A n \in Numbers \ {a} : Rises(d, n)' = Rises(d, n)
  BY <1>4 DEF Rises, Falls
<1>6. ASSUME NEW d \in CallIds \ {k}
      PROVE  DecidedCall(d)'
  <2>1. Rises(d, a)' \subseteq Rises(d, a)
    BY <1>3, <1>4 DEF Rises, Of
  <2>2. (dialog'[a] = d <=> dialog[a] = d) /\ (dialog[a] = d => phone'[a] = phone[a])
    BY <1>0, <1>m DEF AgentMoves, Unengaged
  <2>3. Undecided(d)' => Undecided(d)
    BY <1>0, <1>1, <1>5, <2>2 DEF Undecided, OfferedTo, Rung
  <2> QED BY <1>0, <1>5, <2>1, <2>3, DecidedApart DEF Decided
<1>7. \A b \in Agents : OfferedTo(k, b)' => OfferedTo(k, b)
  <2>1. \A b \in Agents : Rung(k, b)' => Rung(k, b)
    BY <1>0, <1>5 DEF Rung
  <2>2. dialog'[a] = k /\ phone'[a] = "ringing" => OfferedTo(k, a)
    BY <1>0, <1>m DEF AgentMoves, OfferedTo
  <2> QED BY <1>1, <2>1, <2>2 DEF OfferedTo
<1>8. DecidedCall(k) /\ Chooses(k, a)
  BY AgentChooses DEF Decided
<1>9. ASSUME \A x \in Rises(k, a)' : x \in Rises(k, a) \/ ~OkInvite(x)
      PROVE  DecidedCall(k)'
  <2>1. NoAnswer(k) => NoAnswer(k)'
    BY <1>0, <1>5, <1>9 DEF NoAnswer
  <2>2. Owed(k) => Owed(k)'
    BY <1>0, <1>5, <1>9 DEF Owed
  <2>3. \/ OfferedTo(k, a)
        \/ \A x \in Rises(k, a)' : x \in Rises(k, a) \/ x.type \notin {"480", "486"}
    BY <1>8 DEF Chooses
  <2>4. Undecided(k)' \/ Refused(k)' => Undecided(k) \/ Refused(k)
    BY <1>0, <1>5, <1>7, <2>3 DEF Undecided, Refused
  <2> QED BY <1>8, <2>1, <2>2, <2>4 DEF DecidedCall
<1>10. ASSUME phone[a] = "ringing", phone'[a] = "answered", dialog[a] = k, dialog'[a] = k,
              \A x \in Rises(k, a)' : x \in Rises(k, a) \/ x.type \notin {"480", "486"}
       PROVE  DecidedCall(k)'
  <2>1. Sole(k) /\ Refers(k) /\ Engaged(k, a) /\ ~Unoffered(k)
    BY <1>0, <1>10 DEF MetCall, Engaged, Unoffered
  <2>2. ~Undecided(k)'
    <3>1. \A b \in Agents : OfferedTo(k, b) => b = a
      BY <2>1 DEF Sole, Engaged, OfferedTo
    <3>2. ~OfferedTo(k, a)'
      <4>1. ~Rung(k, a)
        BY <1>10, <2>1 DEF Sole
      <4>2. ~Rung(k, a)'
        BY <1>0, <1>5, <4>1 DEF Rung
      <4> QED BY <1>10, <4>2 DEF OfferedTo
    <3> QED BY <1>7, <3>1, <3>2 DEF Undecided
  <2>3. ~Refused(k)'
    <3>1. \A n \in Numbers : \A x \in Rises(k, n) : x.type \notin {"480", "486"}
      BY <1>0, <2>1 DEF MetCall, Reports
    <3> QED BY <1>0, <1>5, <1>10, <3>1 DEF Refused
  <2>4. Owed(k)'
    <3>1. sessions[k] # None => sessions[k].referedDest = a
      BY <2>1 DEF Refers
    <3>2. Owed(k)
      BY <1>8 DEF DecidedCall
    <3>3. \A b \in Agents : \A x \in Rises(k, b)' : x \in Rises(k, b) \/ b = a
      BY <1>0, <1>5
    <3> QED BY <1>0, <1>5, <3>1, <3>2, <3>3 DEF Owed
  <2> QED BY <2>2, <2>3, <2>4 DEF DecidedCall
<1>11. DecidedCall(k)'
  BY <1>8, <1>9, <1>10 DEF Chooses
<1> QED BY <1>6, <1>11 DEF Decided

\* No step decides twice.
LEMMA NextDecided ==
  ASSUME MaxTrouble = 0, Kept, Kept', Told, Usual, Guided, Met, Met', Decided, Next
  PROVE  Decided'
<1>2. CASE \E n \in Numbers : ServerStep(n)
  BY <1>2, ServerDecided
<1>3. CASE IvrReceives
  BY <1>3, IvrReceivesDoes, IvrDecided
<1>4. CASE IvrWakes
  BY <1>4, IvrWakesDoes, IvrDecided
<1>5. ASSUME NEW c \in CallIds, ReaderSteps(c) \/ PressKey(c)
      PROVE  Decided'
  BY <1>5, ReaderStepsDoes, PressKeyDoes, IvrDecided
<1>6. ASSUME NEW c \in CallIds, Dial(c) \/ CallerActs(c)
      PROVE  Decided'
  <2>1. CallerGoes(c)
    BY <1>6, CallerGoesOn
  <2>2. Listening(c) /\ Apart /\ UNCHANGED dialog
    BY <1>6, DialDoes, CallerDoes DEF PhoneDoes, Listening
  <2> QED BY <1>6, <2>1, <2>2, CallerDecided
<1>7. ASSUME NEW a \in Agents, AgentActs(a)
      PROVE  Decided'
  <2>1. PICK k \in CallIds : AgentGoes(a, k)
    BY <1>7, AgentGoesOn
  <2>2. Listening(a) /\ Apart
    BY <1>7, AgentSpeaks DEF Kept
  <2> QED BY <1>7, <2>1, <2>2, AgentDecided
<1>8. ~Trouble
  <2>1. trouble \in 0 .. 0
    BY DEF Kept, Phones
  <2> QED BY <2>1 DEF Trouble
<1> QED BY <1>2, <1>3, <1>4, <1>5, <1>6, <1>7, <1>8 DEF Next, CallerActs, AgentActs, Callers

\* At first there is nothing to decide.
LEMMA InitDecided == Init => Decided
<1> SUFFICES ASSUME Init PROVE Decided
  OBVIOUS
<1>1. \A c \in CallIds : \A n \in Numbers : Rises(c, n) = {} /\ Falls(c, n) = {}
  BY InNone DEF Init, Rises, Falls
<1>2. /\ Agents \subseteq Numbers /\ CallIds \subseteq Numbers /\ None \notin CallIds
      /\ \A c \in CallIds : sessions[c] = None
      /\ \A a \in Agents : dialog[a] = None
  BY SipAssumption, CallFlowAssumption DEF Numbers, Init
<1>3. ASSUME NEW c \in CallIds
      PROVE  DecidedCall(c)
  <2>1. ~Undecided(c) /\ ~Refused(c)
    BY <1>1, <1>2 DEF Undecided, OfferedTo, Rung, Refused
  <2>2. Owed(c)
    BY <1>2 DEF Owed
  <2> QED BY <2>1, <2>2 DEF DecidedCall
<1> QED BY <1>3 DEF Decided

\* With that, a call is well met and decided.
DecidedInv == MetInv /\ Decided

\* Where nothing happens nothing is decided.
LEMMA StutterDecided ==
  ASSUME Decided, UNCHANGED vars
  PROVE  Decided'
<1>1. UNCHANGED <<sessions, uplink, downlink, phone, dialog>>
  BY DEF vars, serverVars, netVars, phoneVars
<1> QED BY <1>1 DEF Decided, DecidedCall, Undecided, Refused, NoAnswer, Owed, OfferedTo, Rung,
                    Rises, Falls

\* On a network that neither loses, repeats nor reorders datagrams, and unless a
\* key is pressed over a referral, an agent accepts a call or refuses it, the
\* server takes nobody else's answer for the agent's, and has an agent's media
\* only when that agent has accepted.
THEOREM AgentsDecide ==
  ASSUME MaxTrouble = 0, ~Hasty
  PROVE  Spec => []DecidedInv
<1>1. Init => Decided
  BY InitDecided
<1>2. MetInv /\ MetInv' /\ Decided /\ [Next]_vars => Decided'
  <2> SUFFICES ASSUME MetInv, MetInv', Decided, [Next]_vars PROVE Decided'
    OBVIOUS
  <2>1. CASE UNCHANGED vars
    BY <2>1, StutterDecided
  <2>2. CASE Next
    <3>1. Guided
      BY <2>2, Stopped DEF MetInv, GuidedInv
    <3> QED BY <2>2, <3>1, NextDecided DEF MetInv, GuidedInv
  <2> QED BY <2>1, <2>2
<1> QED BY <1>1, <1>2, CallsMet, PTL DEF Spec, DecidedInv

\* The server ends a referral only for a refusal, and tells the IVR of it.
LEMMA FailureTold ==
  ASSUME Kept, Told, Usual, Guided, Decided, NEW n \in Numbers, ServerStep(n), NEW c \in CallIds,
         sessions[c] # None, sessions[c].referedDest # None,
         sessions'[c] # None, sessions'[c].referedDest = None
  PROVE  sent'[1].peer = Ivr
<1>1. PICK m \in Datagram, k \in CallIds : ServerDoes(n, m, k) /\ Comes(k, n, m)
  BY ServerWorks
<1>2. k = c /\ Server!Handle(m) /\ m.callID = c
  BY <1>1 DEF ServerDoes, Of
<1>3. ServerKeeps /\ Ivr \in clients /\ None \notin Agents /\ UsualOf(c)
  BY CallFlowAssumption, SipAssumption DEF Kept, Programs, Known, Numbers, Usual
<1>4. sessions[c].dest = Ivr
  <2>1. sessions[c].dest \in {None, Ivr}
    BY DEF Decided, DecidedCall, Owed
  <2>2. sessions[c].dest # None
    BY <1>3 DEF ServerKeeps, SP!ReferNeedsDest, SP!HasSession
  <2> QED BY <2>1, <2>2
<1>5. ~Accepts(c, m)
  <2> SUFFICES ASSUME Accepts(c, m)
               PROVE  FALSE
    OBVIOUS
  <2>1. m.referTo \in Agents
    BY <1>1, <1>2 DEF Accepts, Comes, Utters
  <2>2. sessions[c] \in Server!Session /\ sessions \in [CallIds -> OrNone(Server!Session)]
    BY <1>3 DEF ServerKeeps, OrNone
  <2>3. sessions'[c] = [sessions[c] EXCEPT !.referedDest = m.referTo]
    BY <2>2 DEF Accepts
  <2>4. sessions'[c].referedDest = m.referTo
    BY <2>2, <2>3 DEF Server!Session
  <2> QED BY <1>3, <2>1, <2>4
<1>6. Turned(sessions[c], sessions'[c], m)
  BY <1>2, <1>3, <1>5, HandleTurns
<1>7. m.type \in {"480", "486"}
  BY <1>6 DEF Turned
<1>8. \E st : Server!Failed(m, st)
  BY <1>2, <1>7 DEF Server!Handle, Server!OnRegister, Server!OnInvite, Server!OnTrying,
     Server!OnRinging, Server!OnCancel, Server!OnReqTerminated, Server!OnBusy, Server!OnUnavailable,
     Server!OnRefer, Server!OnOk, Server!OnAck, Server!OnBye, Server!OnUnknown
<1>9. sent' = <<Server!Route(Ivr, m), Server!Route(sessions[c].referedDest, Server!AckOf(m))>>
  BY <1>2, <1>4, <1>8 DEF Server!Failed, Server!HasSession, Server!FailureTarget
<1>10. sent'[1] = [m EXCEPT !.peer = Ivr]
  BY <1>3, <1>9 DEF Server!Route, Server!EndHandle
<1> QED BY <1>1, <1>10 DEF Datagram

\* The server answers a hang-up with a BYE for an agent only when it has the media
\* of the agent who accepted: nobody is offered the call then.
LEMMA ByeIsForAnswered ==
  ASSUME Kept, Told, Usual, Guided, Decided, NEW n \in Numbers, ServerStep(n),
         NEW x \in In(sent'), x.type = "BYE", x.peer \in Agents
  PROVE  ~(phone[x.peer] = "ringing" /\ dialog[x.peer] = x.callID)
<1>1. PICK m \in Datagram, c \in CallIds :
           /\ ServerDoes(n, m, c) /\ m \in Rises(c, n) /\ Comes(c, n, m) /\ DuesOf(c, m)
           /\ sent' \in Seq(Of(c))
  BY ServerWorks
<1>2. /\ m \in Of(c) /\ Server!Handle(m) /\ m.callID = c /\ x \in Of(c) /\ x.callID = c
      /\ c \in Numbers /\ c \notin Agents /\ Ivr \notin Agents /\ None \notin Agents
      /\ Spoken(c, n, m) /\ Owed(c) /\ Gives(c, m, x.peer, x)
  <2>1. In(sent') \subseteq Of(c)
    BY <1>1, InType
  <2>2. Spoken(c, n, m) /\ Owed(c) /\ Gives(c, m, x.peer, x)
    BY <1>1 DEF Told, ToldOf, Decided, DecidedCall, DuesOf, Due
  <2> QED BY <1>1, <2>1, <2>2, PartyType, CallFlowAssumption, SipAssumption DEF ServerDoes, Of, Numbers
<1>3. m.type = "BYE" /\ m.from = c /\ m.to = Ivr
  <2>1. ~(Updates(c, m) /\ x.peer = sessions[c].dest)
    BY <1>2 DEF Owed, Updates
  <2>2. m.type = "BYE" /\ m.from = c
    BY <1>2, <2>1 DEF Gives
  <2>3. m.peer = n
    BY <1>1 DEF ServerDoes, Rising
  <2> QED BY <1>2, <2>2 DEF Spoken
<1>4. Server!OnBye(m)
  BY <1>2, <1>3 DEF Server!Handle, Server!OnRegister, Server!OnInvite, Server!OnTrying,
     Server!OnRinging, Server!OnCancel, Server!OnReqTerminated, Server!OnBusy, Server!OnUnavailable,
     Server!OnRefer, Server!OnOk, Server!OnAck, Server!OnUnknown
<1>5. Ivr \in clients
  BY DEF Kept, Known
<1>6. PICK y \in {Server!Route(Ivr, m)} : TRUE
  OBVIOUS
<1>7. y.peer = Ivr
  BY <1>2, <1>5, <1>6 DEF Server!Route, Server!EndHandle, Of, Datagram
<1>8. sessions[c] # None /\ sessions[c].referedToMedia # None
  <2>1. x # y
    BY <1>2, <1>7
  <2>d. sessions[c] # None => sessions[c].src = c
    BY <1>1 DEF Told, ToldOf, KnownCaller
  <2>s. \/ sent' = <<>> \/ sent' = <<y>>
        \/ /\ sessions[c] # None
           /\ sent' = <<y, Server!Route(sessions[c].referedDest, Server!ByeForAgent(sessions[c], m))>>
    BY <1>2, <1>3, <1>4, <1>6, <2>d DEF Server!OnBye, Server!Drop, Server!Forward, Server!HasSession
  <2>2. \/ In(sent') = {} \/ In(sent') = {y}
        \/ /\ sessions[c] # None
           /\ In(sent') = {y, Server!Route(sessions[c].referedDest, Server!ByeForAgent(sessions[c], m))}
    BY <2>s, InNone, InOne, InTwo
  <2>3. /\ sessions[c] # None
        /\ x = Server!Route(sessions[c].referedDest, Server!ByeForAgent(sessions[c], m))
    BY <2>1, <2>2
  <2>4. CASE sessions[c].referedToMedia = None
    <3>1. PICK z \in {Server!ByeForAgent(sessions[c], m)} : TRUE
      OBVIOUS
    <3>2. z = [m EXCEPT !.to = sessions[c].referedDest, !.type = "CANCEL", !.cseq = "CANCEL"]
      BY <2>4, <3>1 DEF Server!ByeForAgent
    <3>3. z.type = "CANCEL" /\ [z EXCEPT !.peer = sessions[c].referedDest].type = "CANCEL"
          /\ [z EXCEPT !.type = "404"].type = "404"
      BY <1>2, <3>2 DEF Of, Datagram
    <3>4. \/ x = [z EXCEPT !.peer = sessions[c].referedDest]
          \/ x = [z EXCEPT !.type = "404"]
      BY <2>3, <3>1, <3>3 DEF Server!Route, Server!EndHandle
    <3> QED BY <3>3, <3>4
  <2> QED BY <2>3, <2>4
<1>9. ~Undecided(c)
  BY <1>1, <1>8 DEF Decided, DecidedCall, NoAnswer
<1> QED BY <1>2, <1>9 DEF Undecided, OfferedTo

\* Nobody but the server touches a session, or sends to an agent.
LEMMA OthersSilent ==
  ASSUME MaxTrouble = 0, Kept, Next, ~\E n \in Numbers : ServerStep(n)
  PROVE  UNCHANGED sessions /\ \A i \in DOMAIN sent' : sent'[i].peer \notin Agents
<1>1. ASSUME NEW c \in CallIds, IvrDoes(c)
      PROVE  UNCHANGED sessions /\ \A i \in DOMAIN sent' : sent'[i].peer \notin Agents
  <2>1. sent' \in Seq(Voice(c)) /\ UNCHANGED sessions
    BY <1>1 DEF IvrDoes, Attends, Answers, serverVars
  <2>2. \A i \in DOMAIN sent' : sent'[i].peer = Ivr
    BY <2>1 DEF Voice
  <2>3. Ivr \notin Agents
    BY CallFlowAssumption, SipAssumption DEF Numbers
  <2> QED BY <2>1, <2>2, <2>3
<1>2. ASSUME Apart
      PROVE  UNCHANGED sessions /\ \A i \in DOMAIN sent' : sent'[i].peer \notin Agents
  BY <1>2 DEF Apart, serverVars
<1>3. IvrReceives \/ IvrWakes => \E c \in CallIds : IvrDoes(c)
  BY IvrReceivesDoes, IvrWakesDoes
<1>4. ASSUME NEW c \in CallIds, ReaderSteps(c) \/ PressKey(c)
      PROVE  IvrDoes(c)
  BY <1>4, ReaderStepsDoes, PressKeyDoes
<1>5. ASSUME NEW c \in CallIds, Dial(c) \/ CallerActs(c)
      PROVE  Apart
  BY <1>5, DialDoes, CallerDoes DEF PhoneDoes
<1>6. ASSUME NEW a \in Agents, AgentActs(a)
      PROVE  Apart
  BY <1>6, AgentSpeaks DEF Kept
<1>7. ~Trouble
  <2>1. trouble \in 0 .. 0
    BY DEF Kept, Phones
  <2> QED BY <2>1 DEF Trouble
<1> QED BY <1>1, <1>2, <1>3, <1>4, <1>5, <1>6, <1>7 DEF Next, CallerActs, AgentActs, Callers

\* On such a network the IVR hears of every refusal: the server ends a referral
\* by sending to it, and not to whoever answered last.
THEOREM FailureReachesIvr ==
  ASSUME MaxTrouble = 0, ~Hasty
  PROVE  Spec => FailureGoesToIvr
<1>1. DecidedInv /\ [Next]_vars => [\A c \in Callers :
         /\ sessions[c] # None
         /\ sessions[c].referedDest # None
         /\ sessions'[c] # None
         /\ sessions'[c].referedDest = None
         => sent'[1].peer = Ivr]_vars
  <2> SUFFICES ASSUME DecidedInv, Next, NEW c \in Callers,
                      sessions[c] # None, sessions[c].referedDest # None,
                      sessions'[c] # None, sessions'[c].referedDest = None
               PROVE  sent'[1].peer = Ivr
    OBVIOUS
  <2>1. Kept /\ Told /\ Usual /\ Guided /\ Decided
    BY Stopped DEF DecidedInv, MetInv, GuidedInv
  <2>2. PICK n \in Numbers : ServerStep(n)
    BY <2>1, OthersSilent
  <2> QED BY <2>1, <2>2, FailureTold DEF Callers
<1> QED BY <1>1, AgentsDecide, PTL DEF Spec, FailureGoesToIvr

\* On such a network an agent whose phone rings for a call gets no BYE of it: what
\* the caller's hanging up sends there is a CANCEL, for the server has the media
\* of no agent who has not answered.
THEOREM RingingCancelled ==
  ASSUME MaxTrouble = 0, ~Hasty
  PROVE  Spec => RingingAgentIsCancelled
<1>1. DecidedInv /\ [Next]_vars => [\A i \in DOMAIN sent' :
         sent'[i].type = "BYE" /\ sent'[i].peer \in Agents
           => ~(phone[sent'[i].peer] = "ringing" /\ dialog[sent'[i].peer] = sent'[i].callID)]_vars
  <2> SUFFICES ASSUME DecidedInv, Next, NEW i \in DOMAIN sent',
                      sent'[i].type = "BYE", sent'[i].peer \in Agents
               PROVE  ~(phone[sent'[i].peer] = "ringing" /\ dialog[sent'[i].peer] = sent'[i].callID)
    OBVIOUS
  <2>1. Kept /\ Told /\ Usual /\ Guided /\ Decided
    BY Stopped DEF DecidedInv, MetInv, GuidedInv
  <2>2. PICK n \in Numbers : ServerStep(n)
    BY <2>1, OthersSilent
  <2>3. PICK x \in {sent'[i]} : TRUE
    OBVIOUS
  <2>4. x \in In(sent')
    <3>1. PICK c \in CallIds : sent' \in Seq(Of(c))
      BY <2>1, <2>2, ServerWorks
    <3> QED BY <2>3, <3>1 DEF In
  <2> QED BY <2>1, <2>2, <2>3, <2>4, ByeIsForAnswered
<1> QED BY <1>1, AgentsDecide, PTL DEF Spec, RingingAgentIsCancelled
=============================================================================
