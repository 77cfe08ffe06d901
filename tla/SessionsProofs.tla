--------------------------- MODULE SessionsProofs ---------------------------
(***************************************************************************)
(* What Sessions promises, for every set of tokens and every setting.      *)
(***************************************************************************)
EXTENDS Sessions, FiniteSetTheorems, TLAPS

(* The clock does not run backwards, nor do ages truncated to seconds.     *)
LEMMA AgesGrow ==
  ASSUME NEW x \in Nat, NEW y \in Nat, NEW z \in Nat, x <= y, y <= z
  PROVE  Seconds(y - x) \in Int /\ Seconds(z - x) \in Int
         /\ Seconds(y - x) <= Seconds(z - x)
<1>1. ASSUME NEW k \in Nat \ {0}, NEW a \in Nat, NEW b \in Nat, a <= b
      PROVE  a \div k \in Int /\ b \div k \in Int /\ a \div k <= b \div k
  BY <1>1
<1>2. y - x \in Nat /\ z - x \in Nat /\ y - x <= z - x /\ TicksPerSec \in Nat \ {0}
  BY SessionAssumption
<1> QED
  BY <1>1, <1>2 DEF Seconds

LEMMA AgeType ==
  ASSUME NEW x \in Nat, NEW y \in Nat, x <= y
  PROVE  Seconds(y - x) \in Int
<1>1. y <= y
  OBVIOUS
<1> QED
  BY <1>1, AgesGrow

(* Who has ended is out of the table or too old, and nothing is newer than *)
(* the clock.                                                              *)
EndedOK ==
  /\ loggedOut \subseteq ended
  /\ \A t \in ended : t \in issued /\ (sessions[t] # NoSession => Expired(t))

ClockOK ==
  \A t \in Token : lastUse[t] <= now

IInv == TypeOK /\ ActiveUsersStayIn /\ WithinCapacity /\ EndedOK /\ ClockOK
-----------------------------------------------------------------------------
LEMMA InitIInv == Init => IInv
<1> SUFFICES ASSUME Init PROVE IInv
  OBVIOUS
<1>1. TypeOK /\ ActiveUsersStayIn /\ EndedOK /\ ClockOK
  BY DEF Init, TypeOK, ActiveUsersStayIn, EndedOK, ClockOK
<1>2. Active(sessions) = {}
  BY DEF Init, Active
<1>3. WithinCapacity
  BY <1>2, FS_EmptySet, SessionAssumption DEF WithinCapacity
<1> QED
  BY <1>1, <1>3 DEF IInv

(* A step that adds nobody to the table keeps it within its capacity.      *)
LEMMA NobodyAdded ==
  ASSUME WithinCapacity, Active(sessions') \subseteq Active(sessions)
  PROVE  WithinCapacity'
<1>1. IsFiniteSet(Active(sessions))
  BY SessionAssumption, FS_Subset DEF Active
<1>2. /\ Cardinality(Active(sessions')) \in Nat
      /\ Cardinality(Active(sessions')) <= Cardinality(Active(sessions))
      /\ Cardinality(Active(sessions)) \in Nat
  BY <1>1, FS_Subset, FS_CardinalityType
<1> QED
  BY <1>2, SessionAssumption DEF WithinCapacity

(* The purge drops only sessions beyond their timeout. *)
LEMMA PurgeFacts ==
  ASSUME TypeOK
  PROVE  /\ Purged \in [Token -> Session \cup {NoSession}]
         /\ Room \in [Token -> Session \cup {NoSession}]
         /\ \A t \in Token :
              /\ Purged[t] = sessions[t] \/ (Expired(t) /\ Purged[t] = NoSession)
              /\ Room[t] = sessions[t] \/ (Expired(t) /\ Room[t] = NoSession)
<1>1. \A t \in Token :
        Purged[t] = sessions[t] \/ (Expired(t) /\ Purged[t] = NoSession)
  BY DEF Purged, Stale
<1>2. Purged \in [Token -> Session \cup {NoSession}]
  BY DEF TypeOK, Purged
<1> QED
  BY <1>1, <1>2 DEF Room, TypeOK

(* A table from which stale sessions have been dropped is as good as the   *)
(* table before.                                                           *)
LEMMA DroppingStale ==
  ASSUME IInv, NEW table \in [Token -> Session \cup {NoSession}],
         \A t \in Token : table[t] = sessions[t] \/ (Expired(t) /\ table[t] = NoSession)
  PROVE  /\ \A t \in Token :
              /\ table[t] # NoSession =>
                   t \in issued \ loggedOut /\ table[t].seen = lastUse[t]
              /\ t \in issued \ loggedOut /\ Seconds(now - lastUse[t]) <= Timeout =>
                   table[t] # NoSession
         /\ \A t \in ended \cup LostTo(table) :
              /\ t \in issued
              /\ table[t] # NoSession => Seconds(now - table[t].seen) > Timeout
         /\ Active(table) \subseteq Active(sessions)
         /\ ended \cup LostTo(table) \subseteq Token
<1>1. TypeOK /\ ActiveUsersStayIn /\ EndedOK
  BY DEF IInv
<1>2. ASSUME NEW t \in Token
      PROVE  /\ table[t] # NoSession =>
                  t \in issued \ loggedOut /\ table[t].seen = lastUse[t]
             /\ t \in issued \ loggedOut /\ Seconds(now - lastUse[t]) <= Timeout =>
                  table[t] # NoSession
  <2>1. Seconds(now - lastUse[t]) \in Int /\ Timeout \in Int
    <3>1. now \in Nat /\ lastUse[t] \in Nat /\ lastUse[t] <= now
      BY DEF IInv, TypeOK, ClockOK
    <3> QED
      BY <3>1, AgeType, SessionAssumption
  <2> HIDE DEF Seconds
  <2>2. sessions[t] # NoSession => t \in issued \ loggedOut /\ sessions[t].seen = lastUse[t]
    BY <1>1 DEF ActiveUsersStayIn
  <2>3. t \in issued \ loggedOut /\ Seconds(now - lastUse[t]) <= Timeout =>
          sessions[t] # NoSession
    BY <1>1 DEF ActiveUsersStayIn
  <2>4. table[t] = sessions[t] \/ (Expired(t) /\ table[t] = NoSession)
    OBVIOUS
  <2>5. CASE table[t] = sessions[t]
    BY <2>2, <2>3, <2>5
  <2>6. CASE Expired(t) /\ table[t] = NoSession
    <3>1. CASE sessions[t] = NoSession
      BY <2>2, <2>3, <2>6, <3>1
    <3>2. CASE sessions[t] # NoSession
      <4>1. Seconds(now - lastUse[t]) > Timeout
        BY <2>2, <2>6, <3>2 DEF Expired
      <4> QED
        BY <2>1, <2>6, <4>1
    <3> QED
      BY <3>1, <3>2
  <2> QED
    BY <2>4, <2>5, <2>6
<1>3. ASSUME NEW t \in ended \cup LostTo(table)
      PROVE  /\ t \in issued
             /\ table[t] # NoSession => Seconds(now - table[t].seen) > Timeout
  BY <1>1, <1>3 DEF EndedOK, Expired, LostTo, Active, ActiveUsersStayIn, TypeOK
<1>4. /\ Active(table) \subseteq Active(sessions)
      /\ ended \cup LostTo(table) \subseteq Token
  BY <1>1 DEF Active, LostTo, TypeOK
<1> QED
  BY <1>2, <1>3, <1>4
-----------------------------------------------------------------------------
LEMMA StepIInv == IInv /\ [Next]_vars => IInv'
<1> SUFFICES ASSUME IInv, [Next]_vars PROVE IInv'
  OBVIOUS
<1>0. TypeOK /\ ActiveUsersStayIn /\ WithinCapacity /\ EndedOK /\ ClockOK
  BY DEF IInv
<1>a. now \in Nat /\ Timeout \in Int /\ (\A t \in Token : lastUse[t] \in Nat)
  BY <1>0, SessionAssumption DEF TypeOK
<1>1. CASE UNCHANGED vars
  BY <1>0, <1>1 DEF vars, IInv, TypeOK, ActiveUsersStayIn, WithinCapacity, EndedOK,
                    ClockOK, Expired, Active
<1>2. ASSUME NEW ip \in Address, NEW t \in Token, Login(ip, t)
      PROVE  IInv'
  <2> PICK s \in Session : s = [ip |-> ip, created |-> now, seen |-> now]
    BY <1>a DEF Session
  <2>1. /\ t \notin issued /\ ~Full(Room)
        /\ sessions' = [Room EXCEPT ![t] = s]
        /\ issued' = issued \cup {t} /\ ended' = ended \cup LostTo(Room)
        /\ lastUse' = [lastUse EXCEPT ![t] = now]
        /\ outcome' = "in" /\ UNCHANGED <<now, bind, loggedOut>>
    BY <1>2 DEF Login
  <2>2. /\ Room \in [Token -> Session \cup {NoSession}]
        /\ \A u \in Token : Room[u] = sessions[u] \/ (Expired(u) /\ Room[u] = NoSession)
    BY <1>0, PurgeFacts
  <2>3. /\ sessions'[t] = s /\ \A u \in Token : u # t => sessions'[u] = Room[u]
        /\ lastUse'[t] = now /\ \A u \in Token : u # t => lastUse'[u] = lastUse[u]
        /\ s.seen = now /\ s # NoSession
    BY <1>0, <2>1, <2>2, SessionAssumption DEF TypeOK, Session
  <2>4. /\ \A u \in Token :
             /\ Room[u] # NoSession =>
                  u \in issued \ loggedOut /\ Room[u].seen = lastUse[u]
             /\ u \in issued \ loggedOut /\ Seconds(now - lastUse[u]) <= Timeout =>
                  Room[u] # NoSession
        /\ \A u \in ended \cup LostTo(Room) :
             /\ u \in issued
             /\ Room[u] # NoSession => Seconds(now - Room[u].seen) > Timeout
        /\ ended \cup LostTo(Room) \subseteq Token
    BY <2>2, DroppingStale
  <2>5. TypeOK'
    BY <1>0, <1>a, <2>1, <2>2, <2>4 DEF TypeOK
  <2>6. t \notin loggedOut
    <3>1. loggedOut \subseteq issued
      BY <1>0 DEF TypeOK, EndedOK
    <3> QED
      BY <2>1, <3>1
  <2>7. ActiveUsersStayIn'
    BY <2>1, <2>3, <2>4, <2>6 DEF ActiveUsersStayIn
  <2>8. EndedOK'
    BY <1>0, <2>1, <2>3, <2>4 DEF EndedOK, Expired
  <2>9. ClockOK'
    BY <1>0, <1>a, <2>1, <2>3 DEF ClockOK
  <2>10. WithinCapacity'
    <3>1. Active(sessions') = Active(Room) \cup {t}
      BY <2>1, <2>2, <2>3 DEF Active
    <3> PICK here : here = Active(Room)
      OBVIOUS
    <3>2. IsFiniteSet(here)
      BY SessionAssumption, FS_Subset DEF Active
    <3>3. Cardinality(here) \in Nat /\ MaxSessions \in Nat
      BY <3>2, FS_CardinalityType, SessionAssumption
    <3>4. Cardinality(here) < MaxSessions
      BY <2>1, <3>3 DEF Full
    <3>5. Cardinality(here \cup {t}) =
            IF t \in here THEN Cardinality(here) ELSE Cardinality(here) + 1
      BY ONLY <3>2, FS_AddElement
    <3>6. Cardinality(here \cup {t}) <= MaxSessions
      BY ONLY <3>3, <3>4, <3>5
    <3> QED
      BY <3>1, <3>6 DEF WithinCapacity
  <2> QED
    BY <2>5, <2>7, <2>8, <2>9, <2>10 DEF IInv
<1>3. ASSUME NEW table \in {Room, Purged},
             sessions' = table, ended' = ended \cup LostTo(table),
             UNCHANGED <<now, bind, issued, loggedOut, lastUse>>,
             outcome' \in {"none", "in", "away"}
      PROVE  IInv'
  <2>1. /\ table \in [Token -> Session \cup {NoSession}]
        /\ \A u \in Token : table[u] = sessions[u] \/ (Expired(u) /\ table[u] = NoSession)
    BY <1>0, PurgeFacts
  <2>2. /\ \A u \in Token :
             /\ table[u] # NoSession =>
                  u \in issued \ loggedOut /\ table[u].seen = lastUse[u]
             /\ u \in issued \ loggedOut /\ Seconds(now - lastUse[u]) <= Timeout =>
                  table[u] # NoSession
        /\ \A u \in ended \cup LostTo(table) :
             /\ u \in issued
             /\ table[u] # NoSession => Seconds(now - table[u].seen) > Timeout
        /\ Active(table) \subseteq Active(sessions)
        /\ ended \cup LostTo(table) \subseteq Token
    BY <2>1, DroppingStale
  <2>3. TypeOK'
    BY <1>0, <1>3, <2>1, <2>2 DEF TypeOK
  <2>4. ActiveUsersStayIn'
    BY <1>3, <2>2 DEF ActiveUsersStayIn
  <2>5. EndedOK'
    BY <1>0, <1>3, <2>2 DEF EndedOK, Expired
  <2>6. WithinCapacity' /\ ClockOK'
    BY <1>0, <1>3, <2>2, NobodyAdded DEF ClockOK
  <2> QED
    BY <2>3, <2>4, <2>5, <2>6 DEF IInv
<1>4. ASSUME NEW ip \in Address, NEW t \in Token, Accept(t, ip)
      PROVE  IInv'
  <2> PICK s : s = [sessions[t] EXCEPT !.seen = now]
    OBVIOUS
  <2>1. /\ sessions[t] # NoSession /\ ~Expired(t)
        /\ sessions' = [sessions EXCEPT ![t] = s]
        /\ lastUse' = [lastUse EXCEPT ![t] = now]
        /\ UNCHANGED <<now, bind, issued, loggedOut, ended, outcome>>
    BY <1>4 DEF Accept
  <2>2. s \in Session /\ s.seen = now /\ s # NoSession
    BY <1>0, <1>a, <2>1, SessionAssumption DEF TypeOK, Session
  <2>3. /\ sessions'[t] = s /\ \A u \in Token : u # t => sessions'[u] = sessions[u]
        /\ lastUse'[t] = now /\ \A u \in Token : u # t => lastUse'[u] = lastUse[u]
    BY <1>0, <2>1 DEF TypeOK
  <2>4. TypeOK'
    BY <1>0, <1>a, <2>1, <2>2 DEF TypeOK
  <2>5. ActiveUsersStayIn'
    BY <1>0, <2>1, <2>2, <2>3 DEF ActiveUsersStayIn
  <2>6. t \notin ended
    BY <1>0, <2>1 DEF EndedOK
  <2>7. EndedOK'
    BY <1>0, <2>1, <2>3, <2>6 DEF EndedOK, Expired, TypeOK
  <2>8. ClockOK'
    BY <1>0, <1>a, <2>1, <2>3 DEF ClockOK
  <2>9. WithinCapacity'
    BY <1>0, <2>1, <2>3, NobodyAdded DEF Active
  <2> QED
    BY <2>4, <2>5, <2>7, <2>8, <2>9 DEF IInv
<1>5. ASSUME NEW t \in Token, Refuse(t)
      PROVE  IInv'
  BY <1>0, <1>5 DEF Refuse, IInv, TypeOK, ActiveUsersStayIn, WithinCapacity, EndedOK,
                    ClockOK, Expired, Active
<1>6. ASSUME NEW t \in Token, Logout(t)
      PROVE  IInv'
  <2>1. /\ sessions[t] # NoSession
        /\ sessions' = [sessions EXCEPT ![t] = NoSession]
        /\ loggedOut' = loggedOut \cup {t} /\ ended' = ended \cup {t}
        /\ UNCHANGED <<now, bind, issued, lastUse, outcome>>
    BY <1>6 DEF Logout
  <2>2. sessions'[t] = NoSession /\ \A u \in Token : u # t => sessions'[u] = sessions[u]
    BY <1>0, <2>1 DEF TypeOK
  <2>3. TypeOK' /\ ClockOK'
    BY <1>0, <2>1 DEF TypeOK, ClockOK
  <2>4. ActiveUsersStayIn'
    BY <1>0, <2>1, <2>2 DEF ActiveUsersStayIn
  <2>5. EndedOK'
    BY <1>0, <2>1, <2>2 DEF EndedOK, Expired, ActiveUsersStayIn, TypeOK
  <2>6. WithinCapacity'
    BY <1>0, <2>2, NobodyAdded DEF Active
  <2> QED
    BY <2>3, <2>4, <2>5, <2>6 DEF IInv
<1>7. CASE Tick
  <2>1. now' = now + 1 /\ UNCHANGED <<bind, sessions, issued, loggedOut, ended, lastUse, outcome>>
    BY <1>7 DEF Tick
  <2> PICK n \in Nat : n = now + 1
    BY <1>a
  <2>2. now' = n /\ now <= n
    BY <1>a, <2>1
  <2>3. ASSUME NEW t \in Token
        PROVE  /\ lastUse[t] <= n
               /\ Seconds(now - lastUse[t]) \in Int /\ Seconds(n - lastUse[t]) \in Int
               /\ Seconds(now - lastUse[t]) <= Seconds(n - lastUse[t])
    <3>1. lastUse[t] <= now /\ lastUse[t] <= n
      BY <1>0, <1>a, <2>2 DEF ClockOK
    <3> QED
      BY <1>a, <2>2, <3>1, AgesGrow
  <2>4. TypeOK' /\ ClockOK'
    BY <1>0, <2>1, <2>2, <2>3 DEF TypeOK, ClockOK
  <2>5. ActiveUsersStayIn'
    BY <1>0, <1>a, <2>1, <2>2, <2>3 DEF ActiveUsersStayIn
  <2>6. EndedOK'
    <3> SUFFICES ASSUME NEW t \in ended, sessions[t] # NoSession
                 PROVE  Expired(t)'
      BY <1>0, <2>1 DEF EndedOK
    <3>1. t \in Token /\ Expired(t) /\ sessions[t].seen = lastUse[t]
      BY <1>0 DEF EndedOK, ActiveUsersStayIn, TypeOK
    <3>2. Seconds(now - lastUse[t]) > Timeout
      BY <3>1 DEF Expired
    <3>3. Seconds(n - lastUse[t]) > Timeout
      <4> HIDE DEF Seconds
      <4> QED
        BY <1>a, <2>3, <3>1, <3>2
    <3> QED
      BY <2>1, <2>2, <3>1, <3>3 DEF Expired
  <2>7. WithinCapacity'
    BY <1>0, <2>1, NobodyAdded
  <2> QED
    BY <2>4, <2>5, <2>6, <2>7 DEF IInv
<1>8. CASE TurnAway
  BY <1>3, <1>8 DEF TurnAway
<1>9. CASE Cleanup
  BY <1>0, <1>3, <1>9 DEF Cleanup, TypeOK
<1> QED
  BY <1>1, <1>2, <1>4, <1>5, <1>6, <1>7, <1>8, <1>9 DEF Next

THEOREM Invariance == Spec => []IInv
BY InitIInv, StepIInv, PTL DEF Spec
-----------------------------------------------------------------------------
(* Type correctness of the session table of auth.cpp and its history. *)
THEOREM Types == Spec => []TypeOK
BY Invariance, PTL DEF IInv

(* The table never holds more than MaxSessions sessions. *)
THEOREM CapacityIsKept == Spec => []WithinCapacity
BY Invariance, PTL DEF IInv

(* Who comes back in time is still logged in. *)
THEOREM ActiveUsersAreKept == Spec => []ActiveUsersStayIn
BY Invariance, PTL DEF IInv

(* A session that ended stays ended. *)
THEOREM NoSessionRevives == Spec => EndedForGood
<1>1. IInv => \A t \in ended, ip \in Address : ~Accept(t, ip)
  BY DEF IInv, EndedOK, Accept
<1>2. IInv /\ [Next]_vars => [\A t \in ended, ip \in Address : ~Accept(t, ip)]_vars
  BY <1>1
<1> QED
  BY <1>2, Invariance, PTL DEF Spec, EndedForGood

(* Stale sessions keep nobody out. *)
THEOREM StaleSessionsKeepNobodyOut == Spec => TurnedAwayOnlyWhenFull
<1>1. ASSUME IInv, Next, outcome # "away", outcome' = "away"
      PROVE  Cardinality({t \in Active(sessions) : Seconds(now - lastUse[t]) <= Timeout})
               >= MaxSessions
  <2> DEFINE fresh == {t \in Active(sessions) : Seconds(now - lastUse[t]) <= Timeout}
  <2>1. TurnAway
    BY <1>1 DEF Next, Login, Accept, Refuse, Logout, Cleanup, Tick
  <2>2. Full(sessions) /\ Full(Purged)
    BY <2>1 DEF TurnAway, Room
  <2>3. Active(Purged) = fresh
    <3>1. ASSUME NEW t \in Active(sessions)
          PROVE  ~Expired(t) <=> Seconds(now - lastUse[t]) <= Timeout
      <4>1. /\ t \in Token /\ sessions[t].seen = lastUse[t] /\ lastUse[t] <= now
            /\ now \in Nat /\ lastUse[t] \in Nat
        BY <1>1, <3>1 DEF IInv, TypeOK, ActiveUsersStayIn, Active, ClockOK
      <4>2. Seconds(now - lastUse[t]) \in Int /\ Timeout \in Int
        BY <4>1, AgeType, SessionAssumption
      <4> QED
        BY <4>1, <4>2 DEF Expired
    <3> QED
      BY <3>1 DEF Active, Purged, Stale
  <2> QED
    BY <2>2, <2>3 DEF Full
<1>2. IInv /\ [Next]_vars =>
        [outcome # "away" /\ outcome' = "away" =>
           Cardinality({t \in Active(sessions) : Seconds(now - lastUse[t]) <= Timeout})
             >= MaxSessions]_vars
  BY <1>1
<1> QED
  BY <1>2, Invariance, PTL DEF Spec, TurnedAwayOnlyWhenFull
=============================================================================
