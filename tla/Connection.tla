----------------------------- MODULE Connection -----------------------------
(***************************************************************************)
(* A keep-alive connection of Crow (libs/crow/http_connection.h), its      *)
(* requests one after another, and what http::SecurityMiddleware makes of  *)
(* them (src/http/middleware.cpp): which requests reach a handler, whom the*)
(* limiter counts them for, what is logged and what text is sent.          *)
(*                                                                         *)
(* The connection keeps its response object and its middleware context from*)
(* request to request, and a request may end at five places: after its URL *)
(* or its header (answered by Crow), before its handler (by the middleware,*)
(* or in the branch for an Upgrade, which answers nobody), and in its      *)
(* handler.                                                                *)
(***************************************************************************)
EXTENDS Naturals, Sequences, SequencesExt

CONSTANTS
  Address,  \* of clients and proxies
  Trusted,  \* trusted_proxies_
  None,     \* no request, no client
  MaxStations,  \* bound: addresses a request passes
  MaxClaims     \* bound: addresses its client writes into X-Forwarded-For

VARIABLES
  peer,     \* the other end of the connection
  phase,    \* what the connection waits for or does
  request,  \* the request it reads, handles or has answered
  code,     \* res.code
  skip,     \* res.skip_body
  client,   \* ctx_.client_ip
  answer,   \* who decided on the request, and which text was written
  asked,    \* whom the limiter was asked about for this request (history)
  log,      \* the clients that the log lines of this request name (history)
  headRefused  \* a HEAD was refused since the last handler ran (history)

history == <<asked, log, headRefused>>
vars == <<peer, phase, request, code, skip, client, answer, history>>

ASSUME ConnectionAssumption ==
  /\ Trusted \subseteq Address /\ None \notin Address
  /\ MaxStations \in Nat /\ MaxClaims \in Nat

(* The addresses a request has passed, from its client to the peer. *)
Ways == SeqOf(Address, MaxStations) \ {<<>>}

(* What a request says.  way ends in the peer; claims: what X-Forwarded-For*)
(* held when the client sent it, true or not; foreign: from the page of    *)
(* another site, without a key; upgrade: to anything but h2, by HTTP/1.1   *)
(* (its body is not read); expect: 100-continue; final: close after.       *)
HttpRequest ==
  {q \in [way : Ways, claims : SeqOf(Address, MaxClaims),
          method : {"GET", "HEAD", "PUT", "OPTIONS"},
          route : {"found", "other", "none"}, flaw : {"none", "nohost", "foreign", "large"},
          upgrade : BOOLEAN, expect : BOOLEAN, final : BOOLEAN] :
     /\ q.flaw \in {"foreign", "large"} => q.method = "PUT"
     /\ q.upgrade => q.flaw # "large"}

(* X-Forwarded-For as it arrives: every station has appended whom it heard.*)
Forwarded(q) == q.claims \o Front(q.way)

Phases == {"reading", "header", "body", "handling", "done", "closed"}

NoAnswer == [by |-> "nobody", text |-> "none"]

(* text: the answer's own, the words of the status line, an empty one, or  *)
(* nothing at all, not even a header.                                      *)
Answers == [by : {"nobody", "early", "connection", "middleware", "handler"},
            text : {"own", "status", "none", "unsent"}]

Init ==
  /\ peer \in Address
  /\ phase = "reading" /\ request = None /\ code = 200 /\ skip = FALSE /\ client = None
  /\ answer = NoAnswer /\ asked = None /\ log = <<>> /\ headRefused = FALSE
-----------------------------------------------------------------------------
(* res.end() empties the text of an answer that is to skip its body.       *)
Kept(own) == own /\ ~skip

(* write_header_into_buffer gives an empty body under an error code the    *)
(* words of the status line.                                               *)
Text(c, own) ==
  IF Kept(own) THEN "own" ELSE IF c >= 400 THEN "status" ELSE "none"

(* complete_request; own: the answer has a text of its own. *)
Finish(c, by, own) ==
  /\ phase' = "done" /\ code' = c
  /\ answer' = [by |-> by, text |-> Text(c, own)]

(* after_handle, with the context it is given. *)
Logged(name) == log' = Append(log, name)

(* handle_url: Crow answers a HEAD that no GET route or HEAD route matches,*)
(* and an OPTIONS for a path without any route, at once, with the context  *)
(* that the last request left.  Of every other request it sets the code.   *)
Unmatched(q) ==
  \/ q.method = "HEAD" /\ q.route # "found"
  \/ q.method = "OPTIONS" /\ q.route = "none"

Url(q) ==
  /\ phase = "reading" /\ Last(q.way) = peer
  /\ request' = q
  /\ IF Unmatched(q)
       THEN /\ Finish(404, "early", FALSE)
            /\ Logged(client)
            /\ UNCHANGED skip
       ELSE /\ phase' = "header"
            /\ code' = IF q.method = "OPTIONS" THEN 204
                       ELSE CASE q.route = "found" -> 200
                              [] q.route = "other" -> 405
                              [] q.route = "none" -> 404
            /\ skip' = (skip \/ q.method = "HEAD")
            /\ UNCHANGED <<answer, log>>
  /\ UNCHANGED <<peer, client, asked, headRefused>>

(* handle_header: 100 Continue is written, which clears res with its code; *)
(* then an OPTIONS is answered, again with the context of the last request.*)
Header ==
  /\ phase = "header"
  /\ LET c == IF request.expect THEN 200 ELSE code IN
       IF request.method = "OPTIONS"
         THEN Finish(c, "early", FALSE) /\ Logged(client)
         ELSE phase' = "body" /\ code' = c /\ UNCHANGED <<answer, log>>
  /\ UNCHANGED <<peer, request, skip, client, asked, headRefused>>
-----------------------------------------------------------------------------
(* A faulty variant: the proxy nearest to the server is taken for the client. *)
ResolvedLast(direct, forwarded) ==
  IF direct \notin Trusted \/ forwarded = <<>> THEN direct ELSE Last(forwarded)

(* resolveClientIp: the leftmost address of the header that is no trusted  *)
(* proxy, else the first.                                                  *)
Resolved(direct, forwarded) ==
  LET clients == {i \in DOMAIN forwarded : forwarded[i] \notin Trusted}
  IN  IF direct \notin Trusted \/ forwarded = <<>> THEN direct
      ELSE forwarded[IF clients = {} THEN 1 ELSE Min(clients)]

(* HTTP/1.1 without a Host: no middleware, no line. *)
NoHost ==
  /\ phase = "body" /\ request.flaw = "nohost"
  /\ Finish(400, "connection", FALSE)
  /\ client' = None
  /\ UNCHANGED <<peer, request, skip, history>>

(* before_handle finds out the client and asks the limiter about it. *)
Before ==
  /\ phase = "body" /\ request.flaw # "nohost"
  /\ client' = Resolved(peer, Forwarded(request))
  /\ asked' = client'
  /\ UNCHANGED <<peer, request, skip, headRefused>>

Admit ==
  /\ Before /\ ~request.upgrade
  /\ request.flaw = "none"
  /\ phase' = "handling"
  /\ UNCHANGED <<code, answer, log>>

(* A faulty variant: complete_request calls after_handle once more.        *)
RefuseLogged(c) ==
  /\ Before /\ ~request.upgrade
  /\ Finish(c, "middleware", TRUE)
  /\ log' = log \o <<client', client'>>

(* The limiter says no, or a flaw is found after it has said yes.  The     *)
(* helper that called before_handle calls after_handle.                    *)
Refusals(q) ==
  {429} \cup (CASE q.flaw = "foreign" -> {403} [] q.flaw = "large" -> {413} [] OTHER -> {})

Refuse(c) ==
  /\ Before /\ ~request.upgrade
  /\ Finish(c, "middleware", TRUE)
  /\ Logged(client')

(* handle_upgrade looks for a route of the request's own method, and no    *)
(* route here takes an upgrade.                                            *)
UpgradeCode(q) == IF q.route = "other" \/ q.method = "HEAD" THEN 405 ELSE 404

(* A request with an Upgrade is counted, and refused or not, but either way*)
(* goes on to handle_upgrade, whose 404 or 405 nobody writes; the          *)
(* connection is dropped.  Only a refusal is logged.                       *)
Upgrade(refused) ==
  /\ Before /\ request.upgrade
  /\ refused \/ request.flaw = "none"
  /\ phase' = "done"
  /\ code' = UpgradeCode(request)
  /\ answer' = [by |-> IF refused THEN "middleware" ELSE "nobody", text |-> "unsent"]
  /\ IF refused THEN Logged(client') ELSE UNCHANGED log

(* A faulty variant: skip_body outlives the answer it was meant for.       *)
HandleSkipping(c) ==
  /\ phase = "handling"
  /\ IF request.route = "found"
       THEN Finish(c, "handler", TRUE)
       ELSE Finish(code, "handler", FALSE)
  /\ Logged(client)
  /\ UNCHANGED <<peer, request, skip, client, asked, headRefused>>

(* A faulty variant: the catch-all answers like any other handler.         *)
HandleAll(c) ==
  /\ phase = "handling"
  /\ Finish(c, "handler", TRUE)
  /\ skip' = FALSE
  /\ Logged(client)
  /\ UNCHANGED <<peer, request, client, asked, headRefused>>

(* The route's handler, or for a path without one the empty catch-all; then*)
(* res.end() and complete_request, which calls after_handle.               *)
Handle(c) ==
  /\ phase = "handling"
  /\ IF request.route = "found"
       THEN Finish(c, "handler", TRUE)
       ELSE Finish(code, "handler", FALSE)
  /\ skip' = FALSE
  /\ Logged(client)
  /\ UNCHANGED <<peer, request, client, asked, headRefused>>
-----------------------------------------------------------------------------
(* The deadline or the peer closes a connection that waits for bytes. *)
Close ==
  /\ phase \in {"reading", "header", "body"}
  /\ phase' = "closed"
  /\ UNCHANGED <<peer, request, code, skip, client, answer, history>>

(* After an answer the connection reads on, unless the request was the last*)
(* or the parser was stopped in its middle (handle_url, handle_header), or *)
(* no answer was written.                                                  *)
Continue ==
  /\ phase = "done"
  /\ phase' = IF answer.by = "early" \/ answer.text = "unsent" \/ request.final
                THEN "closed" ELSE "reading"
  /\ request' = None /\ code' = 200
  /\ headRefused' = (answer.by # "handler" /\ (request.method = "HEAD" \/ headRefused))
  /\ answer' = NoAnswer /\ asked' = None /\ log' = <<>>
  /\ UNCHANGED <<peer, skip, client>>

(* Another connection, with objects of its own. *)
Accept ==
  /\ phase = "closed"
  /\ peer' \in Address
  /\ phase' = "reading" /\ request' = None /\ code' = 200 /\ skip' = FALSE /\ client' = None
  /\ answer' = NoAnswer /\ asked' = None /\ log' = <<>> /\ headRefused' = FALSE

Next ==
  \/ phase = "reading" /\ \E q \in HttpRequest : Url(q)
  \/ Header
  \/ NoHost \/ Admit
  \/ phase = "body" /\ \E c \in Refusals(request) : Refuse(c)
  \/ \E refused \in BOOLEAN : Upgrade(refused)
  \/ \E c \in {200, 404} : Handle(c)
  \/ Close \/ Continue \/ Accept

Spec == Init /\ [][Next]_vars
-----------------------------------------------------------------------------
TypeOK ==
  /\ peer \in Address /\ phase \in Phases
  /\ request \in HttpRequest \cup {None}
  /\ code \in {200, 204, 400, 403, 404, 405, 413, 429}
  /\ skip \in BOOLEAN /\ headRefused \in BOOLEAN
  /\ client \in Address \cup {None} /\ asked \in Address \cup {None}
  /\ answer \in Answers
  /\ log \in SeqOf(Address \cup {None}, 1)

(* Whom a request may be counted for.  Without a proxy of ours it is the   *)
(* peer, whatever the header says.  Through one it is the request's true   *)
(* client, if the client is not ours and has not named another outsider;   *)
(* and our own client, if the request has met nobody else and claims       *)
(* nothing.  A proxy of ours is charged only when nobody else was met or   *)
(* named.  But an outsider whom the client has named is believed.          *)
CountedFor(q, x) ==
  LET names == ToSet(q.claims) \cup ToSet(q.way)
      claimed == ToSet(q.claims) \ Trusted
  IN IF Last(q.way) \notin Trusted THEN x = Last(q.way)
     ELSE /\ claimed = {} /\ q.way[1] \notin Trusted => x = q.way[1]
          /\ q.claims = <<>> /\ names \subseteq Trusted => x = q.way[1]
          /\ x \in names /\ (x \in Trusted => names \subseteq Trusted)
          /\ claimed # {} => x \in claimed

(* A connection from a proxy carries the requests of many clients.  Each   *)
(* request that the middleware sees is counted once, for the client it came*)
(* from as far as CountedFor says, and has one line in the log, which names*)
(* that client -- refused, handled or without a route; a request to upgrade*)
(* has its line only if it was refused.  A request without a Host has no   *)
(* line; one answered before its body is counted for nobody, and its one   *)
(* line names whom the connection last served.                             *)
EachRequestAccounted ==
  phase = "done" =>
    CASE answer.by \in {"middleware", "handler"} ->
           CountedFor(request, asked) /\ log = <<asked>>
      [] answer.by = "nobody" ->
           CountedFor(request, asked) /\ log = <<>> /\ request.upgrade
      [] answer.by = "connection" -> asked = None /\ log = <<>>
      [] answer.by = "early" -> asked = None /\ log = <<client>>

(* The answers with a text of their own. *)
HasText ==
  \/ answer.by = "middleware"
  \/ answer.by = "handler" /\ request.route = "found"

(* http_response.h:56 "Whether this is a response to a HEAD request": an   *)
(* answer's own text is withheld from a HEAD and from nobody else, unless a*)
(* HEAD on the same connection was refused and no handler has run since.   *)
(* But a withheld text, like one that never was, is replaced by the words  *)
(* of the status line when the request failed, for a HEAD too; and a       *)
(* request to upgrade is written nothing.                                  *)
TextWithheldFromHead ==
  phase = "done" =>
    LET withheld == request.method = "HEAD" \/ headRefused IN
    answer.text =
      CASE answer.by \in {"nobody", "middleware"} /\ request.upgrade ->
             "unsent"
        [] OTHER -> IF HasText /\ ~withheld THEN "own"
                    ELSE IF code >= 400 THEN "status" ELSE "none"

(* A request that no route matches fails, whoever answers it and whatever  *)
(* else is wrong with it -- except one that was told to continue, which has*)
(* cost it its code, unless it was to upgrade.                             *)
UnroutedRefused ==
  phase = "done" /\ request.route = "none" =>
    code >= 400 \/ (request.expect /\ ~request.upgrade)
=============================================================================
