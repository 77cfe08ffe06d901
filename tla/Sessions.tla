------------------------------ MODULE Sessions ------------------------------
(***************************************************************************)
(* The sessions of security::Auth (src/security/auth.cpp) and the routes   *)
(* that use them (src/routes/webui.cpp; isAuthorized in every write route).*)
(* Each operation runs under session_mutex_ and so is one step here; the   *)
(* three readings of the clock in createSession, one after the other, are  *)
(* taken as one.  The clock counts ticks, TicksPerSec to the second, and   *)
(* ages are truncated to seconds as duration_cast does.                    *)
(*                                                                         *)
(* A login with a wrong key, or a request with a good API key, does not    *)
(* come near the sessions and is left out.                                 *)
(***************************************************************************)
EXTENDS Integers, FiniteSets

CONSTANTS
  Address,      \* client addresses
  Token,        \* session tokens; generateToken draws one at random
  NoSession,    \* a token that is not in sessions_
  MaxSessions,  \* max_sessions_
  Timeout,      \* session_timeout_, in seconds; negative if so configured
  TicksPerSec,  \* resolution of the clock
  Horizon       \* bound: the last tick

VARIABLES
  now,        \* steady_clock
  bind,       \* bind_session_to_ip_, set once at startup
  sessions,   \* [Token -> Session or NoSession]
  issued,     \* tokens drawn so far: a random token is not drawn twice (history)
  loggedOut,  \* tokens whose owner has logged out (history)
  ended,      \* tokens logged out, purged, or refused for their age (history)
  lastUse,    \* [Token -> time of the login or last accepted request] (history)
  outcome     \* of the last login: "none", "in" or "away" (history)

vars == <<now, bind, sessions, issued, loggedOut, ended, lastUse, outcome>>

Session == [ip : Address, created : Nat, seen : Nat]

ASSUME SessionAssumption ==
  /\ IsFiniteSet(Token)
  /\ NoSession \notin Session
  /\ MaxSessions \in Nat /\ Timeout \in Int
  /\ TicksPerSec \in Nat \ {0} /\ Horizon \in Nat

Init ==
  /\ now = 0
  /\ bind \in BOOLEAN
  /\ sessions = [t \in Token |-> NoSession]
  /\ issued = {} /\ loggedOut = {} /\ ended = {}
  /\ lastUse = [t \in Token |-> 0]
  /\ outcome = "none"
-----------------------------------------------------------------------------
Seconds(d) == d \div TicksPerSec

Active(table) == {t \in Token : table[t] # NoSession}

Full(table) == Cardinality(Active(table)) >= MaxSessions

Expired(t) == Seconds(now - sessions[t].seen) > Timeout

Stale == {t \in Active(sessions) : Expired(t)}

(* A faulty variant: a session's age is counted from its creation.         *)
PurgedByCreation ==
  [t \in Token |->
     IF sessions[t] # NoSession /\ Seconds(now - sessions[t].created) > Timeout
     THEN NoSession ELSE sessions[t]]

(* cleanExpiredSessionsUnlocked *)
Purged == [t \in Token |-> IF t \in Stale THEN NoSession ELSE sessions[t]]

(* createSession purges only when the table is full. *)
Room == IF Full(sessions) THEN Purged ELSE sessions

LostTo(table) == Active(sessions) \ Active(table)

(* A faulty variant: the purge is trusted to have made room.               *)
LoginUnchecked(ip, t) ==
  /\ t \notin issued
  /\ sessions' = [Room EXCEPT ![t] = [ip |-> ip, created |-> now, seen |-> now]]
  /\ issued' = issued \cup {t}
  /\ ended' = ended \cup LostTo(Room)
  /\ lastUse' = [lastUse EXCEPT ![t] = now]
  /\ outcome' = "in"
  /\ UNCHANGED <<now, bind, loggedOut>>

(* A faulty variant: the session keeps the address it was constructed with.*)
LoginNameless(ip, t) ==
  /\ t \notin issued
  /\ ~Full(Room)
  /\ sessions' = [Room EXCEPT ![t] = [ip |-> NoSession, created |-> now, seen |-> now]]
  /\ issued' = issued \cup {t}
  /\ ended' = ended \cup LostTo(Room)
  /\ lastUse' = [lastUse EXCEPT ![t] = now]
  /\ outcome' = "in"
  /\ UNCHANGED <<now, bind, loggedOut>>

(* POST /webui/login with the right key. *)
Login(ip, t) ==
  /\ t \notin issued
  /\ ~Full(Room)
  /\ sessions' = [Room EXCEPT ![t] = [ip |-> ip, created |-> now, seen |-> now]]
  /\ issued' = issued \cup {t}
  /\ ended' = ended \cup LostTo(Room)
  /\ lastUse' = [lastUse EXCEPT ![t] = now]
  /\ outcome' = "in"
  /\ UNCHANGED <<now, bind, loggedOut>>

(* A faulty variant: no purge before a login is turned away.               *)
TurnAwayUnpurged ==
  /\ Full(sessions)
  /\ outcome' = "away"
  /\ UNCHANGED <<now, bind, sessions, issued, loggedOut, ended, lastUse>>

(* The same when there is no room: 503, though the stale sessions are gone.*)
TurnAway ==
  /\ Full(Room)
  /\ sessions' = Room
  /\ ended' = ended \cup LostTo(Room)
  /\ outcome' = "away"
  /\ UNCHANGED <<now, bind, issued, loggedOut, lastUse>>

(* validateSession: the page "/", and isAuthorized given a cookie. *)
Accept(t, ip) ==
  /\ sessions[t] # NoSession /\ ~Expired(t)
  /\ bind => sessions[t].ip = ip
  /\ sessions' = [sessions EXCEPT ![t].seen = now]
  /\ lastUse' = [lastUse EXCEPT ![t] = now]
  /\ UNCHANGED <<now, bind, issued, loggedOut, ended, outcome>>

(* A faulty variant: last_activity is updated before the age is looked at. *)
RefuseLate(t) ==
  /\ sessions[t] # NoSession /\ Expired(t)
  /\ sessions' = [sessions EXCEPT ![t].seen = now]
  /\ ended' = ended \cup {t}
  /\ UNCHANGED <<now, bind, issued, loggedOut, lastUse, outcome>>

(* A request too late is refused and leaves the session where it is; one   *)
(* from another address, or with an unknown token, changes nothing at all. *)
Refuse(t) ==
  /\ sessions[t] # NoSession /\ Expired(t)
  /\ ended' = ended \cup {t}
  /\ UNCHANGED <<now, bind, sessions, issued, loggedOut, lastUse, outcome>>

(* POST /webui/logout: destroySession, from whatever address. *)
Logout(t) ==
  /\ sessions[t] # NoSession
  /\ sessions' = [sessions EXCEPT ![t] = NoSession]
  /\ loggedOut' = loggedOut \cup {t}
  /\ ended' = ended \cup {t}
  /\ UNCHANGED <<now, bind, issued, lastUse, outcome>>

(* cleanExpiredSessions, called by main's loop every five minutes. *)
Cleanup ==
  /\ sessions' = Purged
  /\ ended' = ended \cup LostTo(Purged)
  /\ UNCHANGED <<now, bind, issued, loggedOut, lastUse, outcome>>

Tick ==
  /\ now < Horizon
  /\ now' = now + 1
  /\ UNCHANGED <<bind, sessions, issued, loggedOut, ended, lastUse, outcome>>

Next ==
  \/ \E ip \in Address, t \in Token : Login(ip, t) \/ Accept(t, ip)
  \/ \E t \in Token : Refuse(t) \/ Logout(t)
  \/ TurnAway \/ Cleanup \/ Tick

Spec == Init /\ [][Next]_vars
-----------------------------------------------------------------------------
TypeOK ==
  /\ now \in Nat /\ bind \in BOOLEAN
  /\ sessions \in [Token -> Session \cup {NoSession}]
  /\ issued \subseteq Token /\ loggedOut \subseteq Token /\ ended \subseteq Token
  /\ lastUse \in [Token -> Nat]
  /\ outcome \in {"none", "in", "away"}

(* README.md:87 "Maximum concurrent sessions": the table never holds more, *)
(* whether or not the purge of a full table made room for a login.         *)
WithinCapacity == Cardinality(Active(sessions)) <= MaxSessions

(* The table agrees with what the users did: a session in it dates from    *)
(* its owner's last accepted request, and who has logged in, not logged out*)
(* and been away for no more than the timeout is still in it -- whatever   *)
(* the logins of others and the cleanup have purged meanwhile.             *)
ActiveUsersStayIn ==
  \A t \in Token :
    /\ sessions[t] # NoSession =>
         t \in issued \ loggedOut /\ sessions[t].seen = lastUse[t]
    /\ t \in issued \ loggedOut /\ Seconds(now - lastUse[t]) <= Timeout =>
         sessions[t] # NoSession

(* A session that was logged out, purged or refused for its age is never   *)
(* accepted again.                                                         *)
EndedForGood ==
  [][\A t \in ended, ip \in Address : ~Accept(t, ip)]_vars

(* A login is turned away only when MaxSessions users are within their     *)
(* timeout: stale sessions never keep anybody out ("Enforce max sessions", *)
(* auth.cpp:82).                                                           *)
TurnedAwayOnlyWhenFull ==
  [][outcome # "away" /\ outcome' = "away" =>
       Cardinality({t \in Active(sessions) : Seconds(now - lastUse[t]) <= Timeout})
         >= MaxSessions]_vars
=============================================================================
