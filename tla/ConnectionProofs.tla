-------------------------- MODULE ConnectionProofs --------------------------
(***************************************************************************)
(* What Connection promises, for any addresses and any trusted proxies.    *)
(***************************************************************************)
EXTENDS Connection, SequenceTheorems, WellFoundedInduction, TLAPS

(* A nonempty set of naturals has a least element. *)
LEMMA LeastNumber ==
  ASSUME NEW T, T \subseteq Nat, T # {}
  PROVE  \E x \in T : \A y \in T : x <= y
<1> DEFINE R == OpToRel(<, Nat)
<1>1. ASSUME NEW x \in T, NEW y \in T, <<y, x>> \notin R
      PROVE  x <= y
  BY <1>1 DEF OpToRel
<1>2. IsWellFoundedOn(R, Nat)
  BY NatLessThanWellFounded
<1> HIDE DEF R
<1>3. \E x \in T : \A y \in T : <<y, x>> \notin R
  BY <1>2, WFMin
<1> QED
  BY <1>1, <1>3

(* The ways of requests are sequences of one address or more, and the      *)
(* stations but the last are what the proxies have written.                *)
LEMMA WayShape ==
  ASSUME NEW w \in Ways
  PROVE  /\ w \in Seq(Address) /\ Len(w) \in Nat \ {0}
         /\ Last(w) = w[Len(w)] /\ Last(w) \in Address /\ w[1] \in Address
         /\ Front(w) \in Seq(Address) /\ Len(Front(w)) = Len(w) - 1
         /\ \A i \in 1 .. Len(w) - 1 : Front(w)[i] = w[i]
         /\ ToSet(w) = {w[i] : i \in 1 .. Len(w)}
<1>1. PICK m \in 0 .. MaxStations : w \in [1 .. m -> Address]
  BY DEF Ways, SeqOf
<1>2. w \in Seq(Address) /\ Len(w) = m /\ w # <<>>
  BY <1>1, ConnectionAssumption DEF Ways
<1>3. Len(w) \in Nat \ {0}
  BY <1>1, <1>2, ConnectionAssumption
<1>4. /\ Front(w) \in Seq(Address) /\ Len(Front(w)) = Len(w) - 1
      /\ \A i \in 1 .. Len(w) - 1 : Front(w)[i] = w[i]
  BY <1>2, <1>3 DEF Front
<1>5. ToSet(w) = {w[i] : i \in 1 .. Len(w)}
  BY <1>2 DEF ToSet
<1> QED
  BY <1>2, <1>3, <1>4, <1>5 DEF Last

LEMMA RequestShape ==
  ASSUME NEW q \in HttpRequest
  PROVE  /\ q.method \in {"GET", "HEAD", "PUT", "OPTIONS"}
         /\ q.route \in {"found", "other", "none"}
         /\ q.flaw \in {"none", "nohost", "foreign", "large"}
         /\ q.way \in Ways /\ q.claims \in SeqOf(Address, MaxClaims)
         /\ q.expect \in BOOLEAN /\ q.upgrade \in BOOLEAN
BY DEF HttpRequest

(* The header is what the client has claimed and then whom it has met.     *)
LEMMA ForwardedShape ==
  ASSUME NEW q \in HttpRequest
  PROVE  LET f == Forwarded(q)
             k == Len(q.claims)
             n == Len(q.way) - 1
         IN /\ f \in Seq(Address) /\ k \in Nat /\ n \in Nat /\ Len(f) = k + n
            /\ \A i \in 1 .. k : f[i] = q.claims[i]
            /\ \A i \in 1 .. n : f[k + i] = q.way[i]
            /\ ToSet(q.claims) = {q.claims[i] : i \in 1 .. k}
            /\ q.claims = <<>> <=> k = 0
<1> DEFINE c == q.claims
           w == q.way
           fr == Front(w)
<1>1. PICK m \in 0 .. MaxClaims : c \in [1 .. m -> Address]
  BY RequestShape DEF SeqOf
<1>2. c \in Seq(Address) /\ Len(c) = m /\ m \in Nat
  BY <1>1, ConnectionAssumption
<1>3. /\ fr \in Seq(Address) /\ Len(fr) = Len(w) - 1 /\ Len(w) - 1 \in Nat
      /\ \A i \in 1 .. Len(w) - 1 : fr[i] = w[i]
  BY RequestShape, WayShape
<1>4. ToSet(c) = {c[i] : i \in 1 .. Len(c)} /\ (c = <<>> <=> Len(c) = 0)
  BY <1>2 DEF ToSet
<1>5. Forwarded(q) = c \o fr
  BY DEF Forwarded
<1> HIDE DEF c, w, fr
<1>6. /\ c \o fr \in Seq(Address) /\ Len(c \o fr) = Len(c) + Len(fr)
      /\ \A i \in 1 .. Len(c) : (c \o fr)[i] = c[i]
      /\ \A i \in 1 .. Len(fr) : (c \o fr)[Len(c) + i] = fr[i]
  <2>1. c \in Seq(Address) /\ fr \in Seq(Address)
    BY <1>2, <1>3
  <2>2. \A i \in 1 .. Len(c) + Len(fr) :
          (c \o fr)[i] = IF i <= Len(c) THEN c[i] ELSE fr[i - Len(c)]
    BY <2>1, ConcatProperties
  <2>3. Len(c) \in Nat /\ Len(fr) \in Nat /\ Len(c \o fr) = Len(c) + Len(fr)
        /\ c \o fr \in Seq(Address)
    BY <2>1
  <2>4. ASSUME NEW i \in 1 .. Len(c) PROVE (c \o fr)[i] = c[i]
    BY <2>2, <2>3
  <2>5. ASSUME NEW i \in 1 .. Len(fr) PROVE (c \o fr)[Len(c) + i] = fr[i]
    BY <2>2, <2>3
  <2> QED
    BY <2>3, <2>4, <2>5
<1> QED
  BY <1>2, <1>3, <1>4, <1>5, <1>6 DEF c, w

(* What resolveClientIp takes from a header is its leftmost outsider, and  *)
(* if it names none, its first name.                                       *)
LEMMA ResolvedIsLeftmost ==
  ASSUME NEW d \in Trusted, NEW f \in Seq(Address), f # <<>>
  PROVE  \E m \in 1 .. Len(f) :
           /\ Resolved(d, f) = f[m]
           /\ \A i \in 1 .. m - 1 : f[i] \in Trusted
           /\ f[m] \in Trusted => m = 1 /\ \A i \in 1 .. Len(f) : f[i] \in Trusted
<1> DEFINE clients == {i \in DOMAIN f : f[i] \notin Trusted}
<1>1. DOMAIN f = 1 .. Len(f) /\ Len(f) \in Nat \ {0}
  OBVIOUS
<1>2. CASE clients = {}
  <2>1. Resolved(d, f) = f[1]
    BY <1>2 DEF Resolved
  <2> QED
    BY <1>1, <1>2, <2>1
<1>3. CASE clients # {}
  <2>1. Resolved(d, f) = f[Min(clients)]
    BY <1>3 DEF Resolved
  <2>2. \A i \in clients : i \in 1 .. Len(f) /\ f[i] \notin Trusted
    BY <1>1
  <2>3. \A i \in 1 .. Len(f) : f[i] \notin Trusted => i \in clients
    BY <1>1
  <2> HIDE DEF clients
  <2>4. Min(clients) \in clients /\ \A i \in clients : Min(clients) <= i
    <3>1. \E x \in clients : \A y \in clients : x <= y
      <4>1. clients \subseteq Nat
        BY <2>2
      <4> QED
        BY <1>3, <4>1, LeastNumber
    <3> QED
      BY <3>1 DEF Min
  <2>5. \A i \in 1 .. Min(clients) - 1 : f[i] \in Trusted
    BY <1>1, <2>2, <2>3, <2>4
  <2> QED
    BY <2>1, <2>2, <2>4, <2>5
<1> QED
  BY <1>2, <1>3

(* The client that resolveClientIp finds is one that the request may be    *)
(* counted for.                                                            *)
LEMMA ResolvedIsCounted ==
  ASSUME NEW q \in HttpRequest
  PROVE  LET x == Resolved(Last(q.way), Forwarded(q))
         IN  x \in Address /\ CountedFor(q, x)
<1> DEFINE w == q.way
           f == Forwarded(q)
           k == Len(q.claims)
           n == Len(w) - 1
           x == Resolved(Last(w), f)
           names == ToSet(q.claims) \cup ToSet(w)
           claimed == ToSet(q.claims) \ Trusted
<1>1. /\ Len(w) \in Nat \ {0} /\ Last(w) = w[Len(w)] /\ Last(w) \in Address
      /\ w[1] \in Address /\ ToSet(w) = {w[i] : i \in 1 .. Len(w)}
  BY RequestShape, WayShape
<1>2. /\ f \in Seq(Address) /\ k \in Nat /\ n \in Nat /\ Len(f) = k + n
      /\ \A i \in 1 .. k : f[i] = q.claims[i]
      /\ \A i \in 1 .. n : f[k + i] = w[i]
      /\ ToSet(q.claims) = {q.claims[i] : i \in 1 .. k}
      /\ q.claims = <<>> <=> k = 0
  BY ForwardedShape
<1>3. SUFFICES x \in Address /\ CountedFor(q, x)
  OBVIOUS
<1>4. CASE Last(w) \notin Trusted
  <2>1. x = Last(w)
    BY <1>4 DEF Resolved
  <2> QED
    BY <1>1, <1>4, <2>1 DEF CountedFor
<1>5. CASE Last(w) \in Trusted /\ f = <<>>
  <2>1. k = 0 /\ n = 0 /\ x = Last(w)
    <3>1. Len(f) = 0
      BY <1>5
    <3>2. k = 0 /\ n = 0
      <4> HIDE DEF f, n, k
      <4> QED
        BY <1>2, <3>1
    <3> QED
      BY <1>5, <3>2 DEF Resolved
  <2>2. Len(w) = 1 /\ x = w[1] /\ ToSet(q.claims) = {} /\ x \in ToSet(w)
    BY <1>1, <1>2, <2>1
  <2>3. x \in Trusted => names \subseteq Trusted
    BY <1>1, <2>2
  <2> QED
    BY <1>1, <1>5, <2>2, <2>3 DEF CountedFor
<1>6. CASE Last(w) \in Trusted /\ f # <<>>
  <2>1. PICK m \in 1 .. Len(f) :
          /\ x = f[m]
          /\ \A i \in 1 .. m - 1 : f[i] \in Trusted
          /\ f[m] \in Trusted => m = 1 /\ \A i \in 1 .. Len(f) : f[i] \in Trusted
    BY <1>2, <1>6, ResolvedIsLeftmost
  <2> HIDE DEF x, f, w
  <2>2. m \in Nat /\ 1 <= m /\ m <= k + n
    BY <1>2, <2>1
  <2>3. x \in Address
    BY <1>2, <2>1
  <2>4. x \in names
    <3>1. CASE m <= k
      BY <1>2, <2>1, <2>2, <3>1
    <3>2. CASE ~(m <= k)
      <4>1. m - k \in 1 .. n /\ m = k + (m - k)
        BY <1>2, <2>2, <3>2
      <4>2. f[m] = w[m - k]
        BY <1>2, <4>1
      <4>3. m - k \in 1 .. Len(w)
        BY <1>1, <4>1
      <4> QED
        BY <1>1, <2>1, <4>2, <4>3
    <3> QED
      BY <3>1, <3>2
  <2>5. ASSUME x \in Trusted PROVE names \subseteq Trusted
    <3>1. \A i \in 1 .. Len(f) : f[i] \in Trusted
      BY <2>1, <2>5
    <3>2. \A i \in 1 .. k : q.claims[i] \in Trusted
      <4>1. \A i \in 1 .. k : i \in 1 .. Len(f)
        BY <1>2
      <4> QED
        BY <1>2, <3>1, <4>1
    <3>3. \A i \in 1 .. n : k + i \in 1 .. Len(f)
      BY <1>2
    <3>4. \A i \in 1 .. n : w[i] \in Trusted
      BY <1>2, <3>1, <3>3
    <3>5. \A i \in 1 .. Len(w) : i \in 1 .. n \/ i = Len(w)
      BY <1>1
    <3>6. \A i \in 1 .. Len(w) : w[i] \in Trusted
      BY <1>1, <1>6, <3>4, <3>5
    <3> QED
      BY <1>1, <1>2, <3>2, <3>6
  <2>6. ASSUME claimed # {} PROVE x \in claimed
    <3>1. PICK j \in 1 .. k : q.claims[j] \notin Trusted
      BY <1>2, <2>6
    <3>2. j \in 1 .. Len(f) /\ f[j] \notin Trusted
      BY <1>2, <3>1
    <3>3. m <= j
      BY <1>2, <2>1, <2>2, <3>1, <3>2
    <3>4. m \in 1 .. k /\ x = q.claims[m]
      BY <1>2, <2>1, <2>2, <3>1, <3>3
    <3>5. x \notin Trusted
      BY <2>1, <3>2
    <3> QED
      BY <1>2, <3>4, <3>5
  <2>7. ASSUME claimed = {}, w[1] \notin Trusted PROVE x = w[1]
    <3>1. \A i \in 1 .. k : f[i] \in Trusted
      BY <1>2, <2>7
    <3>2. n >= 1
      BY <1>1, <1>2, <1>6, <2>7
    <3>3. 1 \in 1 .. n /\ k + 1 \in 1 .. Len(f) /\ f[k + 1] = w[1]
      BY <1>2, <3>2
    <3>4. f[m] \notin Trusted
      BY <2>1, <2>7, <3>3
    <3>5. m = k + 1
      BY <1>2, <2>1, <2>2, <2>7, <3>1, <3>3, <3>4
    <3> QED
      BY <2>1, <3>3, <3>5
  <2>8. ASSUME q.claims = <<>>, names \subseteq Trusted PROVE x = w[1]
    <3>1. k = 0 /\ n >= 1
      BY <1>2, <2>2, <2>8
    <3>2. f[m] \in Trusted
      BY <2>1, <2>4, <2>8
    <3>3. m = 1 /\ f[0 + 1] = w[1]
      BY <1>2, <2>1, <3>1, <3>2
    <3> QED
      BY <2>1, <3>3
  <2> QED
    BY <1>6, <2>3, <2>4, <2>5, <2>6, <2>7, <2>8 DEF CountedFor, w
<1> QED
  BY <1>4, <1>5, <1>6

LEMMA LogShape ==
  ASSUME NEW x \in Address \cup {None}
  PROVE  /\ <<>> \in SeqOf(Address \cup {None}, 1)
         /\ <<x>> \in SeqOf(Address \cup {None}, 1)
         /\ Append(<<>>, x) = <<x>>
<1>1. <<>> \in [1 .. 0 -> Address \cup {None}] /\ <<x>> \in [1 .. 1 -> Address \cup {None}]
  OBVIOUS
<1> QED
  BY <1>1 DEF SeqOf
-----------------------------------------------------------------------------
(* A request is being read, handled or is done with, and the peer has      *)
(* forwarded it.                                                           *)
RequestOK ==
  /\ phase \in {"header", "body", "handling", "done"} => request \in HttpRequest
  /\ phase \in {"header", "body", "handling"} => Last(request.way) = peer

(* Nobody is counted or logged before the middleware or the answer.        *)
AccountOK ==
  /\ phase \in {"reading", "header", "body"} => asked = None /\ log = <<>>
  /\ phase = "handling" => CountedFor(request, client) /\ asked = client /\ log = <<>>

(* The text of the next answer is withheld for this request or for a HEAD  *)
(* that was refused before it.                                             *)
SkipOK ==
  /\ phase = "reading" => (skip <=> headRefused)
  /\ phase \in {"header", "body", "handling"} =>
       (skip <=> headRefused \/ request.method = "HEAD")
  /\ phase = "done" =>
       CASE answer.by = "handler" -> ~skip
         [] answer.by \in {"middleware", "connection"} ->
              (skip <=> headRefused \/ request.method = "HEAD")
         [] answer.by = "nobody" -> answer.text = "unsent"
         [] OTHER -> answer.by = "early"

(* The code that the router has set lasts until the header has been read.  *)
CodeOK ==
  /\ phase = "header" /\ request.route = "none" => code >= 400 /\ request.method # "OPTIONS"
  /\ phase \in {"body", "handling"} /\ request.route = "none" => code >= 400 \/ request.expect
  /\ phase = "handling" => request.flaw = "none" /\ ~request.upgrade

IInv ==
  /\ TypeOK /\ RequestOK /\ AccountOK /\ SkipOK /\ CodeOK
  /\ EachRequestAccounted /\ TextWithheldFromHead /\ UnroutedRefused
-----------------------------------------------------------------------------
LEMMA InitIInv == Init => IInv
<1>1. <<>> \in SeqOf(Address \cup {None}, 1)
  BY LogShape
<1>2. ASSUME Init PROVE TypeOK
  <2>1. log \in SeqOf(Address \cup {None}, 1) /\ answer \in Answers
    BY <1>1, <1>2 DEF Init, NoAnswer, Answers
  <2> QED
    BY <1>2, <2>1 DEF Init, TypeOK, Phases
<1>3. Init => RequestOK /\ AccountOK /\ SkipOK /\ CodeOK
              /\ EachRequestAccounted /\ TextWithheldFromHead /\ UnroutedRefused
  BY DEF Init, RequestOK, AccountOK, SkipOK, CodeOK, EachRequestAccounted,
         TextWithheldFromHead, UnroutedRefused, NoAnswer
<1> QED
  BY <1>2, <1>3 DEF IInv

LEMMA UrlStep ==
  ASSUME IInv, NEW q \in HttpRequest, Url(q)
  PROVE  IInv'
<1>1. /\ phase = "reading" /\ Last(q.way) = peer
      /\ request' = q
      /\ UNCHANGED <<peer, client, asked, headRefused>>
  BY DEF Url
<1>2. TypeOK /\ SkipOK /\ asked = None /\ log = <<>>
  BY <1>1 DEF IInv, AccountOK
<1>3. client \in Address \cup {None} /\ answer \in Answers
  BY <1>2 DEF TypeOK
<1>4. CASE Unmatched(q)
  <2>1. /\ phase' = "done" /\ code' = 404 /\ answer' = [by |-> "early", text |-> "status"]
        /\ log' = <<client>> /\ skip' = skip
    <3>1. /\ phase' = "done" /\ code' = 404 /\ answer' = [by |-> "early", text |-> Text(404, FALSE)]
          /\ log' = Append(log, client) /\ skip' = skip
      BY <1>4 DEF Url, Finish, Logged
    <3>2. Text(404, FALSE) = "status"
      BY DEF Text, Kept
    <3> QED
      BY <1>2, <1>3, <3>1, <3>2, LogShape
  <2>2. log' \in SeqOf(Address \cup {None}, 1)
    BY <1>3, <2>1, LogShape
  <2>3. TypeOK'
    BY <1>1, <1>2, <2>1, <2>2 DEF TypeOK, Phases, Answers
  <2>4. (RequestOK /\ AccountOK /\ SkipOK /\ CodeOK)'
    BY <1>1, <2>1 DEF RequestOK, AccountOK, SkipOK, CodeOK
  <2>5. (EachRequestAccounted /\ TextWithheldFromHead /\ UnroutedRefused)'
    BY <1>1, <1>2, <2>1 DEF EachRequestAccounted, TextWithheldFromHead, UnroutedRefused, HasText
  <2> QED
    BY <2>3, <2>4, <2>5 DEF IInv
<1>5. CASE ~Unmatched(q)
  <2>1. /\ phase' = "header"
        /\ code' = IF q.method = "OPTIONS" THEN 204
                   ELSE CASE q.route = "found" -> 200
                          [] q.route = "other" -> 405
                          [] q.route = "none" -> 404
        /\ skip' = (skip \/ q.method = "HEAD")
        /\ UNCHANGED <<answer, log>>
    BY <1>5 DEF Url
  <2>2. code' \in {200, 204, 404, 405} /\ (q.route = "none" => code' >= 400 /\ q.method # "OPTIONS")
    <3>1. CASE q.method = "OPTIONS"
      BY <1>5, <2>1, <3>1 DEF Unmatched
    <3>2. CASE q.method # "OPTIONS"
      BY <2>1, <3>2, RequestShape
    <3> QED
      BY <3>1, <3>2
  <2>3. log' \in SeqOf(Address \cup {None}, 1)
    BY <1>2, <2>1, LogShape
  <2>4. TypeOK'
    BY <1>1, <1>2, <1>3, <2>1, <2>2, <2>3 DEF TypeOK, Phases
  <2>5. (RequestOK /\ AccountOK /\ SkipOK /\ CodeOK)'
    <3>1. (RequestOK /\ AccountOK /\ SkipOK)'
      BY <1>1, <1>2, <2>1 DEF RequestOK, AccountOK, SkipOK, TypeOK
    <3>2. CodeOK'
      BY <1>1, <2>1, <2>2 DEF CodeOK
    <3> QED
      BY <3>1, <3>2
  <2>6. (EachRequestAccounted /\ TextWithheldFromHead /\ UnroutedRefused)'
    BY <2>1 DEF EachRequestAccounted, TextWithheldFromHead, UnroutedRefused
  <2> QED
    BY <2>4, <2>5, <2>6 DEF IInv
<1> QED
  BY <1>4, <1>5

LEMMA HeaderStep ==
  ASSUME IInv, Header
  PROVE  IInv'
<1> DEFINE c == IF request.expect THEN 200 ELSE code
<1>1. phase = "header" /\ UNCHANGED <<peer, request, skip, client, asked, headRefused>>
  BY DEF Header
<1>2. TypeOK /\ RequestOK /\ AccountOK /\ SkipOK /\ CodeOK
  BY DEF IInv
<1>3. /\ request \in HttpRequest /\ asked = None /\ log = <<>>
      /\ request.route = "none" => code >= 400 /\ request.method # "OPTIONS"
      /\ c \in {200, 204, 400, 403, 404, 405, 413, 429}
      /\ c = code \/ request.expect
  BY <1>1, <1>2 DEF TypeOK, RequestOK, AccountOK, CodeOK
<1>4. client \in Address \cup {None} /\ log \in SeqOf(Address \cup {None}, 1)
  BY <1>2 DEF TypeOK
<1>5. CASE request.method = "OPTIONS"
  <2> DEFINE text == IF c >= 400 THEN "status" ELSE "none"
  <2>1. /\ phase' = "done" /\ code' = c /\ answer' = [by |-> "early", text |-> text]
        /\ log' = <<client>>
    BY <1>3, <1>4, <1>5, LogShape DEF Header, Finish, Logged, Text, Kept
  <2>2. log' \in SeqOf(Address \cup {None}, 1)
    BY <1>4, <2>1, LogShape
  <2>3. TypeOK'
    BY <1>1, <1>2, <1>3, <2>1, <2>2 DEF TypeOK, Phases, Answers
  <2>4. (RequestOK /\ AccountOK /\ SkipOK /\ CodeOK)'
    BY <1>1, <1>3, <2>1 DEF RequestOK, AccountOK, SkipOK, CodeOK
  <2>5. (EachRequestAccounted /\ TextWithheldFromHead /\ UnroutedRefused)'
    <3>1. EachRequestAccounted' /\ TextWithheldFromHead'
      BY <1>1, <1>3, <2>1 DEF EachRequestAccounted, TextWithheldFromHead, HasText
    <3>2. UnroutedRefused'
      BY <1>1, <1>3, <1>5, <2>1 DEF UnroutedRefused
    <3> QED
      BY <3>1, <3>2
  <2> QED
    BY <2>3, <2>4, <2>5 DEF IInv
<1>6. CASE request.method # "OPTIONS"
  <2>1. phase' = "body" /\ code' = c /\ UNCHANGED <<answer, log>>
    BY <1>6 DEF Header
  <2>2. TypeOK'
    BY <1>1, <1>2, <1>3, <2>1 DEF TypeOK, Phases
  <2>3. (RequestOK /\ AccountOK /\ SkipOK /\ CodeOK)'
    BY <1>1, <1>2, <1>3, <2>1 DEF RequestOK, AccountOK, SkipOK, CodeOK
  <2>4. (EachRequestAccounted /\ TextWithheldFromHead /\ UnroutedRefused)'
    BY <2>1 DEF EachRequestAccounted, TextWithheldFromHead, UnroutedRefused
  <2> QED
    BY <2>2, <2>3, <2>4 DEF IInv
<1> QED
  BY <1>5, <1>6

LEMMA NoHostStep ==
  ASSUME IInv, NoHost
  PROVE  IInv'
<1>1. /\ phase = "body" /\ phase' = "done" /\ code' = 400
      /\ answer' = [by |-> "connection", text |-> "status"] /\ client' = None
      /\ UNCHANGED <<peer, request, skip, asked, log, headRefused>>
  BY DEF NoHost, Finish, Text, Kept, history
<1>2. TypeOK /\ RequestOK /\ AccountOK /\ SkipOK
  BY DEF IInv
<1>3. TypeOK'
  BY <1>1, <1>2 DEF TypeOK, Phases, Answers
<1>4. (RequestOK /\ AccountOK /\ SkipOK /\ CodeOK)'
  BY <1>1, <1>2 DEF RequestOK, AccountOK, SkipOK, CodeOK
<1>5. (EachRequestAccounted /\ TextWithheldFromHead /\ UnroutedRefused)'
  BY <1>1, <1>2 DEF AccountOK, EachRequestAccounted, TextWithheldFromHead, UnroutedRefused, HasText
<1> QED
  BY <1>3, <1>4, <1>5 DEF IInv

(* The client the limiter is asked about. *)
LEMMA BeforeFacts ==
  ASSUME IInv, Before
  PROVE  /\ phase = "body" /\ request \in HttpRequest /\ Last(request.way) = peer
         /\ asked' = client' /\ CountedFor(request, client') /\ client' \in Address
         /\ asked = None /\ log = <<>>
         /\ UNCHANGED <<peer, request, skip, headRefused>>
<1>1. phase = "body" /\ request \in HttpRequest /\ Last(request.way) = peer
      /\ asked = None /\ log = <<>>
  BY DEF IInv, RequestOK, AccountOK, Before
<1> QED
  BY <1>1, ResolvedIsCounted DEF Before

LEMMA AdmitStep ==
  ASSUME IInv, Admit
  PROVE  IInv'
<1>1. /\ phase = "body" /\ request \in HttpRequest /\ Last(request.way) = peer
      /\ asked' = client' /\ CountedFor(request, client') /\ client' \in Address /\ log = <<>>
      /\ UNCHANGED <<peer, request, skip, headRefused>>
  BY BeforeFacts DEF Admit
<1>2. /\ request.flaw = "none" /\ ~request.upgrade
      /\ phase' = "handling" /\ UNCHANGED <<code, answer, log>>
  BY DEF Admit
<1>3. TypeOK /\ SkipOK /\ CodeOK
  BY DEF IInv
<1>4. TypeOK'
  BY <1>1, <1>2, <1>3 DEF TypeOK, Phases
<1>5. (RequestOK /\ AccountOK)'
  BY <1>1, <1>2 DEF RequestOK, AccountOK
<1>6. (SkipOK /\ CodeOK)'
  BY <1>1, <1>2, <1>3 DEF SkipOK, CodeOK
<1>7. (EachRequestAccounted /\ TextWithheldFromHead /\ UnroutedRefused)'
  BY <1>2 DEF EachRequestAccounted, TextWithheldFromHead, UnroutedRefused
<1> QED
  BY <1>4, <1>5, <1>6, <1>7 DEF IInv

LEMMA RefuseStep ==
  ASSUME IInv, NEW c \in Refusals(request), Refuse(c)
  PROVE  IInv'
<1>1. /\ phase = "body" /\ request \in HttpRequest
      /\ asked' = client' /\ CountedFor(request, client') /\ client' \in Address /\ log = <<>>
      /\ UNCHANGED <<peer, request, skip, headRefused>>
  BY BeforeFacts DEF Refuse
<1>3. c \in {403, 413, 429}
  BY DEF Refusals
<1> DEFINE text == IF skip THEN "status" ELSE "own"
<1>2. /\ phase' = "done" /\ code' = c /\ answer' = [by |-> "middleware", text |-> text]
      /\ log' = Append(log, client') /\ ~request.upgrade
  <2>1. Text(c, TRUE) = text
    BY <1>3 DEF Text, Kept
  <2> QED
    BY <2>1 DEF Refuse, Finish, Logged
<1>4. log' = <<client'>> /\ log' \in SeqOf(Address \cup {None}, 1)
  BY <1>1, <1>2, LogShape
<1>5. TypeOK /\ SkipOK
  BY DEF IInv
<1>6. TypeOK'
  BY <1>1, <1>2, <1>3, <1>4, <1>5 DEF TypeOK, Phases, Answers
<1>7. (RequestOK /\ AccountOK /\ CodeOK)'
  BY <1>1, <1>2 DEF RequestOK, AccountOK, CodeOK
<1>8. (SkipOK /\ TextWithheldFromHead)'
  BY <1>1, <1>2, <1>3, <1>5 DEF SkipOK, TextWithheldFromHead, HasText
<1>9. (EachRequestAccounted /\ UnroutedRefused)'
  BY <1>1, <1>2, <1>3, <1>4 DEF EachRequestAccounted, UnroutedRefused
<1> QED
  BY <1>6, <1>7, <1>8, <1>9 DEF IInv

LEMMA UpgradeStep ==
  ASSUME IInv, NEW refused \in BOOLEAN, Upgrade(refused)
  PROVE  IInv'
<1>1. /\ phase = "body" /\ request \in HttpRequest
      /\ asked' = client' /\ CountedFor(request, client') /\ client' \in Address /\ log = <<>>
      /\ UNCHANGED <<peer, request, skip, headRefused>>
  BY BeforeFacts DEF Upgrade
<1> DEFINE who == IF refused THEN "middleware" ELSE "nobody"
<1>2. /\ phase' = "done" /\ request.upgrade /\ code' \in {404, 405}
      /\ answer' = [by |-> who, text |-> "unsent"]
      /\ log' = IF refused THEN Append(log, client') ELSE log
  BY DEF Upgrade, UpgradeCode, Logged
<1>3. /\ log' = IF refused THEN <<client'>> ELSE <<>>
      /\ log' \in SeqOf(Address \cup {None}, 1)
  BY <1>1, <1>2, LogShape
<1>4. TypeOK /\ SkipOK
  BY DEF IInv
<1>5. TypeOK'
  BY <1>1, <1>2, <1>3, <1>4 DEF TypeOK, Phases, Answers
<1>6. (RequestOK /\ AccountOK /\ CodeOK)'
  BY <1>1, <1>2 DEF RequestOK, AccountOK, CodeOK
<1>7. (SkipOK /\ TextWithheldFromHead)'
  BY <1>1, <1>2, <1>4 DEF SkipOK, TextWithheldFromHead
<1>8. EachRequestAccounted'
  BY <1>1, <1>2, <1>3 DEF EachRequestAccounted
<1>9. UnroutedRefused'
  BY <1>2 DEF UnroutedRefused
<1> QED
  BY <1>5, <1>6, <1>7, <1>8, <1>9 DEF IInv

LEMMA HandleStep ==
  ASSUME IInv, NEW c \in {200, 404}, Handle(c)
  PROVE  IInv'
<1>1. /\ phase = "handling" /\ phase' = "done" /\ skip' = FALSE
      /\ log' = Append(log, client)
      /\ UNCHANGED <<peer, request, client, asked, headRefused>>
  BY DEF Handle, Finish, Logged
<1> DEFINE own == request.route = "found"
           text == IF own /\ ~skip THEN "own" ELSE IF code' >= 400 THEN "status" ELSE "none"
<1>2. /\ code' = IF own THEN c ELSE code
      /\ answer' = [by |-> "handler", text |-> text]
  BY DEF Handle, Finish, Text, Kept
<1>3. TypeOK /\ RequestOK /\ AccountOK /\ SkipOK /\ CodeOK
  BY DEF IInv
<1>4. /\ request \in HttpRequest /\ log = <<>> /\ asked = client
      /\ CountedFor(request, client) /\ ~request.upgrade
      /\ client \in Address \cup {None}
  BY <1>1, <1>3 DEF RequestOK, AccountOK, CodeOK, TypeOK
<1>5. log' = <<client>> /\ log' \in SeqOf(Address \cup {None}, 1)
  BY <1>1, <1>4, LogShape
<1>6. TypeOK'
  <2>1. answer' \in Answers
    BY <1>2 DEF Answers
  <2>2. code' \in {200, 204, 400, 403, 404, 405, 413, 429}
    <3>1. code \in {200, 204, 400, 403, 404, 405, 413, 429} /\ code' \in {c, code}
      BY <1>2, <1>3 DEF TypeOK
    <3> QED
      BY <3>1
  <2>3. log' \in SeqOf(Address \cup {None}, 1)
    BY <1>5
  <2>4. /\ peer' \in Address /\ request' \in HttpRequest \cup {None} /\ headRefused' \in BOOLEAN
        /\ client' \in Address \cup {None} /\ asked' \in Address \cup {None}
    BY <1>1, <1>3 DEF TypeOK
  <2>5. phase' \in Phases /\ skip' \in BOOLEAN
    BY <1>1 DEF Phases
  <2> QED
    BY <2>1, <2>2, <2>3, <2>4, <2>5 DEF TypeOK
<1>7. (RequestOK /\ AccountOK /\ SkipOK /\ CodeOK)'
  BY <1>1, <1>2, <1>4 DEF RequestOK, AccountOK, SkipOK, CodeOK
<1>8. TextWithheldFromHead'
  BY <1>1, <1>2, <1>3, <1>4 DEF SkipOK, TextWithheldFromHead, HasText
<1>9. EachRequestAccounted'
  <2>1. answer'.by = "handler"
    BY <1>2
  <2>2. CountedFor(request', asked') /\ log' = <<asked'>>
    BY <1>1, <1>4, <1>5
  <2> QED
    BY <2>1, <2>2 DEF EachRequestAccounted
<1>10. UnroutedRefused'
  BY <1>1, <1>2, <1>3, <1>4 DEF CodeOK, UnroutedRefused
<1> QED
  BY <1>6, <1>7, <1>8, <1>9, <1>10 DEF IInv

LEMMA CloseStep == IInv /\ Close => IInv'
<1> SUFFICES ASSUME IInv, Close PROVE IInv'
  OBVIOUS
<1>1. phase' = "closed" /\ UNCHANGED <<peer, request, code, skip, client, answer, asked, log, headRefused>>
  BY DEF Close, history
<1>2. TypeOK'
  BY <1>1 DEF IInv, TypeOK, Phases
<1> QED
  BY <1>1, <1>2 DEF IInv, RequestOK, AccountOK, SkipOK, CodeOK, EachRequestAccounted,
                    TextWithheldFromHead, UnroutedRefused

LEMMA ContinueStep == IInv /\ Continue => IInv'
<1> SUFFICES ASSUME IInv, Continue PROVE IInv'
  OBVIOUS
<1>1. /\ phase = "done"
      /\ phase' = IF answer.by = "early" \/ answer.text = "unsent" \/ request.final
                    THEN "closed" ELSE "reading"
      /\ request' = None /\ code' = 200
      /\ headRefused' = (answer.by # "handler" /\ (request.method = "HEAD" \/ headRefused))
      /\ answer' = NoAnswer /\ asked' = None /\ log' = <<>>
      /\ UNCHANGED <<peer, skip, client>>
  BY DEF Continue
<1>2. TypeOK /\ SkipOK
  BY DEF IInv
<1>3. TypeOK'
  <2>1. log' \in SeqOf(Address \cup {None}, 1) /\ answer' \in Answers
    BY <1>1, LogShape DEF NoAnswer, Answers
  <2> QED
    BY <1>1, <1>2, <2>1 DEF TypeOK, Phases
<1>4. (RequestOK /\ AccountOK /\ CodeOK)'
  BY <1>1 DEF RequestOK, AccountOK, CodeOK
<1>5. SkipOK'
  BY <1>1, <1>2 DEF SkipOK
<1>6. (EachRequestAccounted /\ TextWithheldFromHead /\ UnroutedRefused)'
  BY <1>1 DEF EachRequestAccounted, TextWithheldFromHead, UnroutedRefused
<1> QED
  BY <1>3, <1>4, <1>5, <1>6 DEF IInv

LEMMA AcceptStep == Accept => IInv'
<1> SUFFICES ASSUME Accept PROVE IInv'
  OBVIOUS
<1>1. <<>> \in SeqOf(Address \cup {None}, 1)
  BY LogShape
<1>2. TypeOK'
  BY <1>1 DEF Accept, TypeOK, Phases, NoAnswer, Answers
<1>3. (RequestOK /\ AccountOK /\ SkipOK /\ CodeOK
       /\ EachRequestAccounted /\ TextWithheldFromHead /\ UnroutedRefused)'
  BY DEF Accept, RequestOK, AccountOK, SkipOK, CodeOK, EachRequestAccounted,
         TextWithheldFromHead, UnroutedRefused
<1> QED
  BY <1>2, <1>3 DEF IInv
-----------------------------------------------------------------------------
(* The invariant behind the theorems below: what the connection carries    *)
(* over from one request to the next, and until when.                      *)
THEOREM Invariance == Spec => []IInv
<1>1. IInv /\ [Next]_vars => IInv'
  <2> SUFFICES ASSUME IInv, [Next]_vars PROVE IInv'
    OBVIOUS
  <2>1. CASE phase = "reading" /\ \E q \in HttpRequest : Url(q)
    BY <2>1, UrlStep
  <2>2. CASE Header
    BY <2>2, HeaderStep
  <2>3. CASE NoHost \/ Admit
    BY <2>3, NoHostStep, AdmitStep
  <2>4. CASE \/ phase = "body" /\ \E c \in Refusals(request) : Refuse(c)
             \/ \E refused \in BOOLEAN : Upgrade(refused)
    BY <2>4, RefuseStep, UpgradeStep
  <2>5. CASE \E c \in {200, 404} : Handle(c)
    BY <2>5, HandleStep
  <2>6. CASE Close \/ Continue \/ Accept
    BY <2>6, CloseStep, ContinueStep, AcceptStep
  <2>7. CASE UNCHANGED vars
    <3>1. UNCHANGED <<peer, phase, request, code, skip, client, answer, asked, log, headRefused>>
      BY <2>7 DEF vars, history
    <3>2. TypeOK'
      BY <3>1 DEF IInv, TypeOK
    <3>3. (RequestOK /\ AccountOK /\ SkipOK /\ CodeOK)'
      BY <3>1 DEF IInv, RequestOK, AccountOK, SkipOK, CodeOK
    <3>4. EachRequestAccounted'
      <4>1. EachRequestAccounted
        BY DEF IInv
      <4> QED
        BY <3>1, <4>1 DEF EachRequestAccounted
    <3>5. (TextWithheldFromHead /\ UnroutedRefused)'
      BY <3>1 DEF IInv, TextWithheldFromHead, UnroutedRefused, HasText
    <3> QED
      BY <3>2, <3>3, <3>4, <3>5 DEF IInv
  <2> QED
    BY <2>1, <2>2, <2>3, <2>4, <2>5, <2>6, <2>7 DEF Next
<1> QED
  BY <1>1, InitIInv, PTL DEF Spec

(* middleware.cpp and rate_limiter.cpp's resolveClientIp: each request that*)
(* the middleware sees is counted once, for its true client as far as the  *)
(* header's names are true, and logged once unless it is let through to    *)
(* upgrade.                                                                *)
THEOREM RequestsAreAccounted == Spec => []EachRequestAccounted
<1>1. IInv => EachRequestAccounted
  BY DEF IInv
<1> QED
  BY <1>1, Invariance, PTL

(* res.skip_body: an answer's own text is withheld from a HEAD, and from   *)
(* others only after a refused HEAD; what is withheld of a failure is      *)
(* replaced by the status line's words, and an upgrade gets nothing.       *)
THEOREM TextsReachTheirRequests == Spec => []TextWithheldFromHead
<1>1. IInv => TextWithheldFromHead
  BY DEF IInv
<1> QED
  BY <1>1, Invariance, PTL

(* http_connection.h and its router: what no route matches fails, unless it*)
(* was told to continue.                                                   *)
THEOREM UnroutedFail == Spec => []UnroutedRefused
<1>1. IInv => UnroutedRefused
  BY DEF IInv
<1> QED
  BY <1>1, Invariance, PTL

(* Type correctness of the connection. *)
THEOREM Types == Spec => []TypeOK
<1>1. IInv => TypeOK
  BY DEF IInv
<1> QED
  BY <1>1, Invariance, PTL
=============================================================================
