---------------------------- MODULE AuthBanProofs ----------------------------
(***************************************************************************)
(* What the log-in counters of AuthBan guarantee for any users, passwords, *)
(* clients and any configuration of the ban.                               *)
(***************************************************************************)
EXTENDS AuthBan, TLAPS

Counter == [first_failed_ts : 0..MaxTime, failed_nr : 0..Needed,
            banned_until_ts : 0..(MaxTime + ban_duration)]

\* A counter at the limit belongs to a banned user: no failure is counted past it.
BelowLimit == \A u \in Users : ~Banned(u) => umusers[u].failed_nr < Needed

IInv == TypeOK /\ BelowLimit

\* An attempt to log in moves the counters of one user in one of three ways.
CountersStep(u) ==
  \/ UNCHANGED <<umusers, fails>>
  \/ umusers' = [umusers EXCEPT ![u] = Zero] /\ fails' = [fails EXCEPT ![u] = <<>>]
  \/ /\ ~Banned(u)
     /\ umusers' = [umusers EXCEPT ![u] = Limit(Window(Counted(@)))]
     /\ fails' = [fails EXCEPT ![u] = Append(@, now)]

-----------------------------------------------------------------------------
\* max_failed_nr may be 0: a count of at least one is at the limit if it is at
\* Needed.
LEMMA NeededIsLimit ==
  /\ Needed \in Nat \ {0}
  /\ \A k \in Nat \ {0} : k >= max_failed_nr <=> k >= Needed
BY AuthAssumption DEF Needed

\* One more failure of a user who is not banned gives a counter that is at the
\* limit only with a ban.
LEMMA FailureCounted ==
  ASSUME NEW r \in Counter, now \in 1..MaxTime,
         r.failed_nr < Needed
  PROVE  /\ Limit(Window(Counted(r))) \in Counter
         /\ Limit(Window(Counted(r))).banned_until_ts = 0
              => Limit(Window(Counted(r))).failed_nr < Needed
<1> DEFINE a == Counted(r)
           b == Window(a)
<1>1. a \in Counter /\ a.failed_nr \in Nat \ {0}
  <2>1. a = [first_failed_ts |-> IF r.failed_nr = 0 THEN now ELSE r.first_failed_ts,
             failed_nr |-> r.failed_nr + 1, banned_until_ts |-> r.banned_until_ts]
    <3> DEFINE t == IF r.failed_nr = 0 THEN now ELSE r.first_failed_ts
               n == r.failed_nr + 1
    <3>1. a = [r EXCEPT !.failed_nr = n, !.first_failed_ts = t]
      BY DEF Counted
    <3> HIDE DEF n, t, a
    <3>2. a = [first_failed_ts |-> t, failed_nr |-> n, banned_until_ts |-> r.banned_until_ts]
      BY <3>1 DEF Counter
    <3> QED BY <3>2 DEF n, t
  <2>2. /\ r.failed_nr + 1 \in 0..Needed
        /\ (IF r.failed_nr = 0 THEN now ELSE r.first_failed_ts) \in 0..MaxTime
        /\ r.banned_until_ts \in 0..(MaxTime + ban_duration)
    BY AuthAssumption, NeededIsLimit DEF Counter
  <2>3. a.failed_nr \in Nat \ {0}
    BY <2>1, NeededIsLimit DEF Counter
  <2> HIDE DEF a
  <2> QED BY <2>1, <2>2, <2>3 DEF Counter
<1>2. b \in Counter /\ b.failed_nr \in Nat \ {0}
  <2> HIDE DEF a
  <2>1. CASE now - a.first_failed_ts > failed_time_span
    <3>1. b = [first_failed_ts |-> now, failed_nr |-> 1, banned_until_ts |-> a.banned_until_ts]
      BY <1>1, <2>1 DEF Window, Counter
    <3>2. now \in 0..MaxTime /\ 1 \in 0..Needed
      BY AuthAssumption, NeededIsLimit
    <3> HIDE DEF b
    <3> QED BY <1>1, <3>1, <3>2 DEF Counter
  <2>2. CASE ~(now - a.first_failed_ts > failed_time_span)
    BY <1>1, <2>2 DEF Window
  <2> QED BY <2>1, <2>2
<1>3. /\ Limit(b) \in Counter
      /\ Limit(b).banned_until_ts = 0 => Limit(b).failed_nr < Needed
  <2> HIDE DEF b
  <2>1. b.failed_nr >= max_failed_nr <=> b.failed_nr >= Needed
    BY <1>2, NeededIsLimit
  <2>2. b.failed_nr \in 0..Needed /\ Needed \in Nat
    BY <1>2, NeededIsLimit DEF Counter
  <2>3. now + ban_duration \in 0..(MaxTime + ban_duration) /\ now + ban_duration # 0
    BY AuthAssumption
  <2>4. CASE b.failed_nr >= max_failed_nr
    <3>1. Limit(b) = [b EXCEPT !.banned_until_ts = now + ban_duration]
      BY <2>4 DEF Limit
    <3> QED BY <1>2, <2>3, <3>1 DEF Counter
  <2>5. CASE ~(b.failed_nr >= max_failed_nr)
    BY <1>2, <2>1, <2>2, <2>5 DEF Limit
  <2> QED BY <2>4, <2>5
<1> QED BY <1>3

\* The three ways keep the counters' types and BelowLimit.
LEMMA CountersPreserved ==
  ASSUME IInv, NEW u \in Users, CountersStep(u)
  PROVE  /\ umusers' \in [Users -> Counter]
         /\ fails' \in [Users -> Seq(1..MaxTime)]
         /\ BelowLimit'
<1>1. /\ umusers \in [Users -> Counter] /\ fails \in [Users -> Seq(1..MaxTime)]
      /\ BelowLimit /\ now \in 1..MaxTime
  BY DEF IInv, TypeOK, Counter
<1>2. CASE UNCHANGED <<umusers, fails>>
  BY <1>1, <1>2 DEF BelowLimit, Banned
<1>3. CASE umusers' = [umusers EXCEPT ![u] = Zero] /\ fails' = [fails EXCEPT ![u] = <<>>]
  <2>1. Zero \in Counter /\ Zero.failed_nr = 0 /\ <<>> \in Seq(1..MaxTime)
    BY AuthAssumption, NeededIsLimit DEF Zero, Counter
  <2>2. 0 < Needed
    BY NeededIsLimit
  <2> QED BY <1>1, <1>3, <2>1, <2>2 DEF BelowLimit, Banned
<1>4. CASE /\ ~Banned(u)
           /\ umusers' = [umusers EXCEPT ![u] = Limit(Window(Counted(@)))]
           /\ fails' = [fails EXCEPT ![u] = Append(@, now)]
  <2> DEFINE r == Limit(Window(Counted(umusers[u])))
  <2>1. umusers[u] \in Counter /\ umusers[u].failed_nr < Needed
    BY <1>1, <1>4 DEF BelowLimit
  <2>2. r \in Counter /\ (r.banned_until_ts = 0 => r.failed_nr < Needed)
    BY <1>1, <2>1, FailureCounted
  <2>3. umusers' = [umusers EXCEPT ![u] = r]
    BY <1>4
  <2>4. Append(fails[u], now) \in Seq(1..MaxTime)
    BY <1>1
  <2> HIDE DEF r
  <2>5. r.banned_until_ts \in Nat
    BY <2>2, AuthAssumption DEF Counter
  <2>6. BelowLimit'
    BY <1>1, <2>2, <2>3, <2>5 DEF BelowLimit, Banned
  <2> QED BY <1>1, <1>4, <2>2, <2>3, <2>4, <2>6
<1> QED BY <1>2, <1>3, <1>4 DEF CountersStep

\* Every attempt to log in is such a step of the counters, and leaves the table
\* and the messages alone.
LEMMA AttemptIsCountersStep ==
  ASSUME NEW c \in Clients, NEW u \in Users,
         \/ Refuse(c, u)
         \/ \E p \in Passwords \cup {NoPassword} :
              cb_basic_auth(c, u, p) \/ mosquitto_auth_unpwd_check(c, u, p)
         \/ \E iat \in 0..now : cb_basic_auth_jwt(c, u, iat)
  PROVE  /\ CountersStep(u) /\ UNCHANGED <<tableVars, msgVars>>
         /\ \E res \in {"auth", "success"}, right \in BOOLEAN : Answer(c, u, right, res)
<1>1. ASSUME NEW right \in BOOLEAN, Checked(c, u, right)
      PROVE  /\ CountersStep(u)
             /\ \E res \in {"auth", "success"}, r \in BOOLEAN : Answer(c, u, r, res)
  BY <1>1 DEF Checked, CountersStep, RefuseBanned, EndBan, WrongPassword, Success
<1>2. CASE Refuse(c, u)
  BY <1>2 DEF Refuse, CountersStep
<1>3. ASSUME NEW p \in Passwords \cup {NoPassword}, cb_basic_auth(c, u, p)
      PROVE  /\ CountersStep(u) /\ UNCHANGED <<tableVars, msgVars>>
             /\ \E res \in {"auth", "success"}, right \in BOOLEAN : Answer(c, u, right, res)
  BY <1>1, <1>3 DEF cb_basic_auth, CountersStep
<1>4. ASSUME NEW p \in Passwords \cup {NoPassword}, mosquitto_auth_unpwd_check(c, u, p)
      PROVE  /\ CountersStep(u) /\ UNCHANGED <<tableVars, msgVars>>
             /\ \E res \in {"auth", "success"}, right \in BOOLEAN : Answer(c, u, right, res)
  BY <1>4 DEF mosquitto_auth_unpwd_check, CountersStep
<1>5. ASSUME NEW iat \in 0..now, cb_basic_auth_jwt(c, u, iat)
      PROVE  /\ CountersStep(u) /\ UNCHANGED <<tableVars, msgVars>>
             /\ \E res \in {"auth", "success"}, right \in BOOLEAN : Answer(c, u, right, res)
  BY <1>1, <1>5 DEF cb_basic_auth_jwt, CountersStep
<1> QED BY <1>2, <1>3, <1>4, <1>5

-----------------------------------------------------------------------------
\* The broker starts with counters that are zero, and after a restart has them again.
LEMMA ZeroCounters ==
  /\ Zero \in Counter /\ Zero.failed_nr < Needed /\ <<>> \in Seq(1..MaxTime)
  /\ [u \in Users |-> Zero] \in [Users -> Counter]
  /\ [u \in Users |-> <<>>] \in [Users -> Seq(1..MaxTime)]
<1>1. Zero \in Counter /\ Zero.failed_nr = 0 /\ <<>> \in Seq(1..MaxTime)
  BY AuthAssumption, NeededIsLimit DEF Zero, Counter
<1>2. 0 < Needed
  BY NeededIsLimit
<1> QED BY <1>1, <1>2

LEMMA InitInv == Init => IInv
<1> SUFFICES ASSUME Init PROVE IInv
  OBVIOUS
<1>1. umusers \in [Users -> Counter] /\ fails \in [Users -> Seq(1..MaxTime)]
  BY ZeroCounters DEF Init
<1>2. BelowLimit
  BY ZeroCounters DEF Init, BelowLimit
<1>3. /\ version \in {4, 5} /\ now \in 1..MaxTime /\ edits \in 0..MaxEdits
      /\ user \in [Users -> Row \cup {NoRow}] /\ pending = <<>>
  BY AuthAssumption DEF Init
<1>4. sessions \in [Clients -> Users \cup {NoUser}]
  BY DEF Init
<1> QED BY <1>1, <1>2, <1>3, <1>4 DEF IInv, TypeOK, Counter

LEMMA NextInv == IInv /\ [Next]_vars => IInv'
<1> SUFFICES ASSUME IInv, [Next]_vars PROVE IInv'
  OBVIOUS
<1> USE DEF tableVars, msgVars
<1>0. /\ umusers \in [Users -> Counter] /\ TypeOK /\ BelowLimit
  BY DEF IInv, TypeOK, Counter
<1>a. ASSUME UNCHANGED <<umusers, fails>>
      PROVE  BelowLimit' /\ umusers' \in [Users -> Counter]
  BY <1>0, <1>a DEF BelowLimit, Banned
<1>1. CASE Tick
  <2>1. now' \in 1..MaxTime
    BY <1>0, <1>1, AuthAssumption DEF Tick, TypeOK
  <2> QED BY <1>0, <1>1, <1>a, <2>1 DEF Tick, IInv, TypeOK
<1>2. CASE cb_pld_mod
  BY <1>0, <1>2, <1>a DEF cb_pld_mod, IInv, TypeOK
<1>3. CASE DropMessage \/ HandOn
  BY <1>0, <1>3, <1>a DEF DropMessage, HandOn, IInv, TypeOK
<1>4. CASE Restart
  <2>1. BelowLimit'
    BY <1>4, ZeroCounters DEF Restart, BelowLimit
  <2>2. umusers' \in [Users -> Counter] /\ fails' \in [Users -> Seq(1..MaxTime)]
    BY <1>4, ZeroCounters DEF Restart
  <2> QED BY <1>0, <1>4, <2>1, <2>2 DEF Restart, IInv, TypeOK, Counter
<1>5. ASSUME NEW u \in Users, EditUser(u) PROVE IInv'
  <2>1. edits' \in 0..MaxEdits
    BY <1>0, <1>5, AuthAssumption DEF EditUser, TypeOK
  <2>2. user' \in [Users -> Row \cup {NoRow}]
    BY <1>0, <1>5 DEF EditUser, TypeOK
  <2>3. edits' = edits + 1 /\ edits \in Nat /\ UNCHANGED pending
    BY <1>0, <1>5 DEF EditUser, TypeOK
  <2>4. 0..edits \subseteq 0..edits'
    BY <2>3
  <2>5. pending' = <<>> \/ pending' \in [usr : Users, admin : BOOLEAN, pld : Payloads, edits : 0..edits']
    BY <1>0, <2>3, <2>4 DEF TypeOK
  <2> QED BY <1>0, <1>5, <1>a, <2>1, <2>2, <2>5 DEF EditUser, IInv, TypeOK
<1>6. ASSUME NEW c \in Clients, Disconnect(c) PROVE IInv'
  BY <1>0, <1>6, <1>a DEF Disconnect, IInv, TypeOK
<1>7. ASSUME NEW c \in Clients, NEW admin \in BOOLEAN, NEW pld \in Payloads,
             cb_acl_check(c, admin, pld)
      PROVE  IInv'
  <2>1. pending' \in [usr : Users, admin : BOOLEAN, pld : Payloads, edits : 0..edits']
    <3>1. sessions[c] \in Users /\ edits' = edits /\ edits \in 0..edits
      BY <1>0, <1>7 DEF cb_acl_check, TypeOK
    <3> QED BY <1>7, <3>1 DEF cb_acl_check
  <2> QED BY <1>0, <1>7, <1>a, <2>1 DEF cb_acl_check, IInv, TypeOK
<1>8. ASSUME NEW c \in Clients, NEW u \in Users,
             \/ Refuse(c, u)
             \/ \E p \in Passwords \cup {NoPassword} :
                  cb_basic_auth(c, u, p) \/ mosquitto_auth_unpwd_check(c, u, p)
             \/ \E iat \in 0..now : cb_basic_auth_jwt(c, u, iat)
      PROVE  IInv'
  <2>1. /\ CountersStep(u) /\ UNCHANGED <<tableVars, msgVars>>
        /\ \E res \in {"auth", "success"}, right \in BOOLEAN : Answer(c, u, right, res)
    BY <1>8, AttemptIsCountersStep
  <2>2. /\ umusers' \in [Users -> Counter] /\ fails' \in [Users -> Seq(1..MaxTime)]
        /\ BelowLimit'
    BY <2>1, CountersPreserved
  <2>3. sessions' \in [Clients -> Users \cup {NoUser}]
    BY <1>0, <2>1 DEF Answer, TypeOK
  <2> QED BY <1>0, <2>1, <2>2, <2>3 DEF IInv, TypeOK, Counter
<1>9. CASE UNCHANGED vars
  BY <1>0, <1>9, <1>a DEF vars, IInv, TypeOK
<1> QED BY <1>1, <1>2, <1>3, <1>4, <1>5, <1>6, <1>7, <1>8, <1>9 DEF Next

LEMMA InvHolds == Spec => []IInv
BY InitInv, NextInv, PTL DEF Spec

\* The counters of cb_basic_auth keep their bounds; in particular no user has
\* more than max_failed_nr failures on the count, whatever the clock, edits of
\* the user table and restarts do.
THEOREM AuthTypeCorrect == Spec => []TypeOK
<1>1. IInv => TypeOK
  BY DEF IInv
<1> QED BY <1>1, InvHolds, PTL

-----------------------------------------------------------------------------
\* cb_basic_auth lets a client in only with the user's password or token and
\* without a ban, except on the first attempt after one: for any users and any
\* interleaving of attempts, edits of the table and restarts.
THEOREM AcceptsRightly == Spec => []AcceptedRightly
<1>1. Init => AcceptedRightly
  BY DEF Init, AcceptedRightly
<1>2. IInv /\ AcceptedRightly /\ [Next]_vars => AcceptedRightly'
  <2> SUFFICES ASSUME IInv, AcceptedRightly, [Next]_vars PROVE AcceptedRightly'
    OBVIOUS
  <2> USE DEF tableVars, msgVars
  <2>0. ASSUME NEW u \in Users PROVE umusers[u].banned_until_ts \in Nat /\ now \in Nat
    BY <2>0, AuthAssumption DEF IInv, TypeOK
  <2>1. CASE UNCHANGED <<version, last>>
    BY <2>1 DEF AcceptedRightly
  <2>2. CASE Restart
    BY <2>2 DEF Restart, AcceptedRightly
  <2>3. ASSUME NEW c \in Clients, NEW u \in Users, NEW right, Answer(c, u, right, "auth")
        PROVE  AcceptedRightly'
    BY <2>3 DEF Answer, AcceptedRightly
  <2>4. ASSUME NEW c \in Clients, NEW u \in Users, NEW right, Checked(c, u, right)
        PROVE  AcceptedRightly'
    <3>1. CASE RefuseBanned(c, u, right) \/ WrongPassword(c, u)
      BY <2>3, <3>1 DEF RefuseBanned, WrongPassword
    <3>2. CASE EndBan(c, u, right)
      <4>1. umusers[u].banned_until_ts # 0 /\ ~(now <= umusers[u].banned_until_ts)
        BY <2>0, <3>2 DEF EndBan, Banned, StillBanned
      <4> QED BY <3>2, <4>1 DEF EndBan, Answer, AcceptedRightly
    <3>3. CASE Success(c, u)
      <4>1. umusers[u].banned_until_ts = 0
        BY <2>0, <3>3 DEF Success, Banned
      <4> QED BY <3>3, <4>1 DEF Success, Answer, AcceptedRightly
    <3> QED BY <2>4, <3>1, <3>2, <3>3 DEF Checked
  <2>5. ASSUME NEW c \in Clients, NEW u \in Users, Refuse(c, u) PROVE AcceptedRightly'
    BY <2>3, <2>5 DEF Refuse
  <2>6. ASSUME NEW c \in Clients, NEW u \in Users, NEW p, cb_basic_auth(c, u, p)
        PROVE  AcceptedRightly'
    BY <2>3, <2>4, <2>6 DEF cb_basic_auth
  <2>7. ASSUME NEW c \in Clients, NEW u \in Users, NEW iat, cb_basic_auth_jwt(c, u, iat)
        PROVE  AcceptedRightly'
    BY <2>3, <2>4, <2>7 DEF cb_basic_auth_jwt
  <2>8. ASSUME NEW c \in Clients, NEW u \in Users, NEW p, mosquitto_auth_unpwd_check(c, u, p)
        PROVE  AcceptedRightly'
    BY <2>8 DEF mosquitto_auth_unpwd_check, AcceptedRightly
  <2>9. ASSUME Next
        PROVE  \/ UNCHANGED <<version, last>> \/ Restart
               \/ \E c \in Clients, u \in Users :
                    \/ Refuse(c, u)
                    \/ \E p \in Passwords \cup {NoPassword} :
                         cb_basic_auth(c, u, p) \/ mosquitto_auth_unpwd_check(c, u, p)
                    \/ \E iat \in 0..now : cb_basic_auth_jwt(c, u, iat)
    BY <2>9 DEF Next, Tick, cb_pld_mod, DropMessage, HandOn, EditUser, Disconnect, cb_acl_check
  <2> QED BY <2>1, <2>2, <2>5, <2>6, <2>7, <2>8, <2>9 DEF vars
<1> QED BY <1>1, <1>2, InvHolds, PTL DEF Spec

\* As long as the table is not edited, what cb_acl_check found is still so.
StillAllowed == pending # <<>> /\ edits = pending.edits => Allowed(pending.usr, pending.admin)

\* Only a message event, or the broker on its own, hands a message on.
LEMMA WhoHandsOn ==
  ASSUME Next, delivered' # delivered, delivered' # <<>>
  PROVE  cb_pld_mod \/ HandOn
<1> USE DEF tableVars, msgVars
<1>1. ASSUME NEW c \in Clients, NEW u \in Users,
             \/ Refuse(c, u)
             \/ \E p \in Passwords \cup {NoPassword} :
                  cb_basic_auth(c, u, p) \/ mosquitto_auth_unpwd_check(c, u, p)
             \/ \E iat \in 0..now : cb_basic_auth_jwt(c, u, iat)
      PROVE  FALSE
  BY <1>1, AttemptIsCountersStep
<1>2. ~Tick /\ ~DropMessage /\ ~Restart
  BY DEF Tick, DropMessage, Restart
<1>3. \A u \in Users : ~EditUser(u)
  BY DEF EditUser
<1>4. \A c \in Clients : /\ ~Disconnect(c)
                        /\ \A admin \in BOOLEAN, pld \in Payloads : ~cb_acl_check(c, admin, pld)
  BY DEF Disconnect, cb_acl_check
<1> QED BY <1>1, <1>2, <1>3, <1>4 DEF Next

LEMMA AllowedKept == IInv /\ StillAllowed /\ [Next]_vars => StillAllowed'
<1> SUFFICES ASSUME IInv, StillAllowed, [Next]_vars PROVE StillAllowed'
  OBVIOUS
<1> USE DEF tableVars, msgVars
<1>1. CASE UNCHANGED <<user, edits, pending>>
  BY <1>1 DEF StillAllowed, Allowed, umdb_mngr_uget
<1>2. CASE pending' = <<>>
  BY <1>2 DEF StillAllowed
<1>3. ASSUME NEW u \in Users, EditUser(u) PROVE StillAllowed'
  <2>1. edits' = edits + 1 /\ edits \in Nat /\ pending' = pending
    BY <1>3 DEF EditUser, IInv, TypeOK
  <2>2. pending # <<>> => pending.edits \in 0..edits
    BY DEF IInv, TypeOK
  <2>3. pending # <<>> => edits' # pending.edits
    BY <2>1, <2>2
  <2> QED BY <2>1, <2>3 DEF StillAllowed
<1>4. ASSUME NEW c \in Clients, NEW admin \in BOOLEAN, NEW pld \in Payloads,
             cb_acl_check(c, admin, pld)
      PROVE  StillAllowed'
  <2>1. /\ pending'.usr = sessions[c] /\ pending'.admin = admin
        /\ Allowed(sessions[c], admin) /\ UNCHANGED user
    BY <1>4 DEF cb_acl_check
  <2> QED BY <2>1 DEF StillAllowed, Allowed, umdb_mngr_uget
<1>5. ASSUME NEW c \in Clients, NEW u \in Users,
             \/ Refuse(c, u)
             \/ \E p \in Passwords \cup {NoPassword} :
                  cb_basic_auth(c, u, p) \/ mosquitto_auth_unpwd_check(c, u, p)
             \/ \E iat \in 0..now : cb_basic_auth_jwt(c, u, iat)
      PROVE  UNCHANGED <<user, edits, pending>>
  BY <1>5, AttemptIsCountersStep
<1>6. Tick \/ (\E c \in Clients : Disconnect(c)) => UNCHANGED <<user, edits, pending>>
  BY DEF Tick, Disconnect
<1>7. cb_pld_mod \/ DropMessage \/ HandOn \/ Restart => pending' = <<>>
  BY DEF cb_pld_mod, DropMessage, HandOn, Restart
<1> QED BY <1>1, <1>2, <1>3, <1>4, <1>5, <1>6, <1>7 DEF Next, vars

\* What cb_pld_mod hands on names the sender's row as it is then, and the row
\* that cb_acl_check saw if nobody has edited the table; only what is no JSON or
\* asks for it has no header, and none is the client's.
THEOREM HeadersAreSenders == Spec => HeaderIsSenders
<1> DEFINE Right ==
      version = 5 /\ delivered' # delivered /\ delivered' # <<>> =>
       LET hdr == delivered'.hdr
       IN  /\ delivered'.usr = pending.usr
           /\ IF pending.pld \in {"no json", "skip"} THEN hdr.kind = "none"
              ELSE /\ hdr.kind = "ours"
                   /\ IF user[pending.usr] = NoRow THEN hdr.uid = -1
                      ELSE hdr.flags = user[pending.usr].flags
                   /\ edits = pending.edits =>
                        hdr.uid >= 1 /\ (pending.admin => hdr.flags = 1)
<1>1. IInv /\ StillAllowed /\ [Next]_vars => [Right]_vars
  <2> SUFFICES ASSUME IInv, StillAllowed, Next, version = 5, delivered' # delivered, delivered' # <<>>
               PROVE  Right
    OBVIOUS
  <2>1. cb_pld_mod /\ pending # <<>>
    BY WhoHandsOn DEF HandOn, cb_pld_mod
  <2>2. PICK row : row = umdb_mngr_uget(pending.usr)
    OBVIOUS
  <2>3. delivered' = [usr |-> pending.usr, hdr |-> Header(pending.pld, row)]
    BY <2>1, <2>2 DEF cb_pld_mod
  <2>4. IF user[pending.usr] = NoRow THEN row.id = -1 ELSE row.flags = user[pending.usr].flags
    BY <2>2 DEF umdb_mngr_uget
  <2>5. edits = pending.edits => row.id >= 1 /\ (pending.admin => row.flags = 1)
    BY <2>1, <2>2 DEF StillAllowed, Allowed
  <2>6. pending.pld \in Payloads
    BY <2>1 DEF IInv, TypeOK
  <2>7. CASE pending.pld \in {"no json", "skip"}
    BY <2>3, <2>7 DEF Header
  <2>8. CASE pending.pld \in {"plain", "own header"}
    <3>1. delivered'.hdr = [kind |-> "ours", uid |-> row.id, flags |-> row.flags]
      BY <2>3, <2>8 DEF Header
    <3>2. /\ delivered'.usr = pending.usr /\ delivered'.hdr.kind = "ours"
          /\ delivered'.hdr.uid = row.id /\ delivered'.hdr.flags = row.flags
      BY <2>3, <3>1
    <3>3. pending.pld \notin {"no json", "skip"}
      BY <2>8
    <3> QED BY <2>4, <2>5, <3>2, <3>3, Zenon
  <2> QED BY <2>6, <2>7, <2>8 DEF Payloads
<1>2. Init => StillAllowed
  BY DEF Init, StillAllowed
<1> QED BY <1>1, <1>2, AllowedKept, InvHolds, PTL DEF Spec, HeaderIsSenders

-----------------------------------------------------------------------------
(* The ban policy.  q is the history of a user's failures, r the counter.  *)

\* The most failures within one time span.
Most == IF Needed = 1 THEN 1 ELSE 2 * Needed - 2

\* Failures are recorded in the order of time ...
Sorted(q) == \A i, j \in 1..Len(q) : i <= j => q[i] <= q[j]

\* ... and are as far apart as AttemptsBounded wants them.
Spread(q) == \A k \in 1..(Len(q) - Most) : q[k + Most] - q[k] > failed_time_span

\* The counter counts the last failures, from first_failed_ts on ...
CountsLast(nr, first, q) ==
  /\ nr <= Len(q) /\ (nr = 0 => Len(q) = 0)
  /\ nr > 0 => q[Len(q) - nr + 1] = first

\* ... and a window starts later than the span after what lies max_failed_nr - 1
\* or more failures before it.
WindowApart(nr, first, q) ==
  nr > 0 => \A i \in 1..Len(q) :
              i + nr + Needed - 2 <= Len(q) /\ Needed > 1
                => first - q[i] > failed_time_span

\* Both hold at time t of a user who is not banned.
History(r, q, t) ==
  /\ \A i \in 1..Len(q) : q[i] <= t
  /\ CountsLast(r.failed_nr, r.first_failed_ts, q)
  /\ WindowApart(r.failed_nr, r.first_failed_ts, q)

\* What BanJustified says of one user.
Justified(r, q) ==
  /\ Len(q) >= Needed
  /\ q[Len(q)] - q[Len(q) - Needed + 1] <= failed_time_span
  /\ r.banned_until_ts = q[Len(q)] + ban_duration

\* The inductive invariant of the ban policy.
HistoryInv ==
  \A u \in Users :
    /\ Sorted(fails[u]) /\ Spread(fails[u])
    /\ ~Banned(u) => History(umusers[u], fails[u], now)
    /\ Banned(u) => Justified(umusers[u], fails[u])

\* What one more failure makes of a counter: it goes on with the window, or
\* starts a new one; at the limit it bans.
LEMMA FailureResult ==
  ASSUME NEW r \in Counter, now \in 1..MaxTime, r.failed_nr < Needed,
         r.banned_until_ts = 0,
         NEW r2, r2 = Limit(Window(Counted(r)))
  PROVE  /\ \/ /\ r.failed_nr = 0 /\ r2.failed_nr = 1 /\ r2.first_failed_ts = now
            \/ /\ r.failed_nr > 0 /\ now - r.first_failed_ts <= failed_time_span
               /\ r2.failed_nr = r.failed_nr + 1 /\ r2.first_failed_ts = r.first_failed_ts
            \/ /\ r.failed_nr > 0 /\ now - r.first_failed_ts > failed_time_span
               /\ r2.failed_nr = 1 /\ r2.first_failed_ts = now
         /\ r2.failed_nr < Needed => r2.banned_until_ts = 0
         /\ r2.failed_nr >= Needed => r2.banned_until_ts = now + ban_duration
<1> DEFINE n == r.failed_nr + 1
           t == IF r.failed_nr = 0 THEN now ELSE r.first_failed_ts
           a == [first_failed_ts |-> t, failed_nr |-> n, banned_until_ts |-> 0]
           b == IF now - t > failed_time_span
                THEN [first_failed_ts |-> now, failed_nr |-> 1, banned_until_ts |-> 0] ELSE a
<1>1. Counted(r) = a
  <2>1. Counted(r) = [r EXCEPT !.failed_nr = n, !.first_failed_ts = t]
    BY DEF Counted
  <2> HIDE DEF n, t
  <2> QED BY <2>1 DEF Counter
<1>2. Window(a) = b
  <2> HIDE DEF n, t
  <2>1. CASE now - t > failed_time_span
    <3>1. Window(a) = [a EXCEPT !.failed_nr = 1, !.first_failed_ts = now]
      BY <2>1 DEF Window
    <3> QED BY <2>1, <3>1
  <2>2. CASE ~(now - t > failed_time_span)
    BY <2>2 DEF Window
  <2> QED BY <2>1, <2>2
<1>3. /\ r2.failed_nr = b.failed_nr /\ r2.first_failed_ts = b.first_failed_ts
      /\ r2.banned_until_ts = IF b.failed_nr >= Needed THEN now + ban_duration ELSE 0
  <2>1. r2 = Limit(b)
    BY <1>1, <1>2
  <2>2. b = [first_failed_ts |-> b.first_failed_ts, failed_nr |-> b.failed_nr, banned_until_ts |-> 0]
    <3> HIDE DEF n, t
    <3> QED OBVIOUS
  <2>3. b.failed_nr >= max_failed_nr <=> b.failed_nr >= Needed
    <3>1. b.failed_nr \in {1, n} /\ r.failed_nr \in Nat
      BY NeededIsLimit DEF Counter
    <3> QED BY <3>1, NeededIsLimit
  <2> HIDE DEF b
  <2> QED BY <2>1, <2>2, <2>3 DEF Limit
<1>4. /\ r.failed_nr \in Nat /\ r.first_failed_ts \in Nat /\ now \in Nat
      /\ failed_time_span \in Nat /\ Needed \in Nat
  BY AuthAssumption, NeededIsLimit DEF Counter
<1>5. CASE r.failed_nr = 0
  <2>1. b.failed_nr = 1 /\ b.first_failed_ts = now
    BY <1>4, <1>5
  <2> HIDE DEF b
  <2> QED BY <1>3, <1>4, <1>5, <2>1
<1>6. CASE r.failed_nr > 0 /\ now - r.first_failed_ts <= failed_time_span
  <2>1. b.failed_nr = r.failed_nr + 1 /\ b.first_failed_ts = r.first_failed_ts
    BY <1>4, <1>6
  <2> HIDE DEF b
  <2> QED BY <1>3, <1>4, <1>6, <2>1
<1>7. CASE r.failed_nr > 0 /\ now - r.first_failed_ts > failed_time_span
  <2>1. b.failed_nr = 1 /\ b.first_failed_ts = now
    BY <1>4, <1>7
  <2> HIDE DEF b
  <2> QED BY <1>3, <1>4, <1>7, <2>1
<1> QED BY <1>4, <1>5, <1>6, <1>7

\* One more failure keeps the history as the policy wants it.
LEMMA FailureHistory ==
  ASSUME NEW r \in Counter, NEW q \in Seq(1..MaxTime), now \in 1..MaxTime,
         r.failed_nr < Needed, r.banned_until_ts = 0,
         Sorted(q), Spread(q), History(r, q, now),
         NEW r2, r2 = Limit(Window(Counted(r))),
         NEW q2, q2 = Append(q, now)
  PROVE  /\ Sorted(q2) /\ Spread(q2)
         /\ r2.banned_until_ts = 0 => History(r2, q2, now)
         /\ r2.banned_until_ts # 0 => Justified(r2, q2)
<1> DEFINE n == Len(q)
           m == Needed
           nr == r.failed_nr
           first == r.first_failed_ts
<1>1. /\ n \in Nat /\ nr \in Nat /\ first \in Nat /\ now \in Nat /\ m \in Nat \ {0}
      /\ failed_time_span \in Nat /\ ban_duration \in Nat /\ nr < m
      /\ now >= 1 /\ \A i \in 1..n : q[i] \in Nat
  BY AuthAssumption, NeededIsLimit DEF Counter
<1>2. /\ Len(q2) = n + 1 /\ q2[n + 1] = now
      /\ \A i \in 1..n : q2[i] = q[i]
  OBVIOUS
<1>3. /\ \/ /\ nr = 0 /\ r2.failed_nr = 1 /\ r2.first_failed_ts = now
         \/ /\ nr > 0 /\ now - first <= failed_time_span
            /\ r2.failed_nr = nr + 1 /\ r2.first_failed_ts = first
         \/ /\ nr > 0 /\ now - first > failed_time_span
            /\ r2.failed_nr = 1 /\ r2.first_failed_ts = now
      /\ r2.failed_nr < m => r2.banned_until_ts = 0
      /\ r2.failed_nr >= m => r2.banned_until_ts = now + ban_duration
  BY FailureResult
<1>4. /\ \A i \in 1..n : q[i] <= now
      /\ nr <= n /\ (nr = 0 => n = 0)
      /\ nr > 0 => q[n - nr + 1] = first
      /\ nr > 0 => \A i \in 1..n : i + nr + m - 2 <= n /\ m > 1 => first - q[i] > failed_time_span
  BY DEF History, CountsLast, WindowApart
<1>5. \A i, j \in 1..n : i <= j => q[i] <= q[j]
  BY DEF Sorted
<1>6. \A k \in 1..(n - Most) : q[k + Most] - q[k] > failed_time_span
  BY DEF Spread
<1>7. Most \in Nat \ {0} /\ (m = 1 => Most = 1) /\ (m > 1 => Most = 2 * m - 2)
  BY <1>1 DEF Most
<1> HIDE DEF n, m, nr, first
<1>8. Sorted(q2)
  BY <1>1, <1>2, <1>4, <1>5 DEF Sorted
<1>9. \A i \in 1..(n + 1) : q2[i] <= now
  BY <1>1, <1>2, <1>4
<1>10. ASSUME nr > 0, now - first > failed_time_span,
              NEW i \in 1..n, i + m - 1 <= n + 1
       PROVE  now - q[i] > failed_time_span
  <2>1. i <= n - nr + 1 /\ n - nr + 1 \in 1..n
    BY <1>1, <1>4, <1>10
  <2> QED BY <1>1, <1>4, <1>5, <1>10, <2>1
<1>11. Spread(q2)
  <2> SUFFICES ASSUME NEW k \in 1..(n + 1 - Most)
               PROVE  q2[k + Most] - q2[k] > failed_time_span
    <3>1. Len(q2) - Most = n + 1 - Most
      BY <1>1, <1>2, <1>7 DEF n
    <3> QED BY <3>1, Zenon DEF Spread
  <2>0. k \in Nat /\ k >= 1 /\ k + Most <= n + 1
    BY <1>1, <1>7
  <2>1. CASE k + Most <= n
    <3>1. k \in 1..(n - Most) /\ k \in 1..n /\ k + Most \in 1..n
      BY <1>1, <1>7, <2>1
    <3> QED BY <1>2, <1>6, <3>1
  <2>2. CASE k + Most = n + 1
    <3>0. k \in 1..n /\ nr > 0
      BY <1>1, <1>4, <1>7, <2>0, <2>2
    <3>1. k \in 1..n /\ q2[k + Most] = now /\ q2[k] = q[k] /\ nr > 0
      BY <1>2, <2>2, <3>0
    <3>2. m > 1 /\ k + 2 * m - 2 = n + 1
      BY <1>1, <1>7, <2>2, <3>1
    <3>3. CASE now - first > failed_time_span
      <4>1. k + m - 1 <= n + 1
        BY <1>1, <3>1, <3>2
      <4> QED BY <1>10, <3>1, <3>3, <4>1
    <3>4. CASE ~(now - first > failed_time_span)
      <4>1. k + nr + m - 2 <= n
        BY <1>1, <3>1, <3>2
      <4>2. first - q[k] > failed_time_span
        BY <1>4, <3>1, <3>2, <4>1
      <4>3. first <= now
        <5>1. n - nr + 1 \in 1..n
          BY <1>1, <1>4, <3>1
        <5> QED BY <1>4, <3>1, <5>1
      <4> QED BY <1>1, <3>1, <4>2, <4>3
    <3> QED BY <3>3, <3>4
  <2>3. k + Most <= n \/ k + Most = n + 1
    BY <1>1, <1>7, <2>0
  <2> QED BY <2>1, <2>2, <2>3
<1>12. CountsLast(r2.failed_nr, r2.first_failed_ts, q2)
  BY <1>1, <1>2, <1>3, <1>4 DEF CountsLast
<1>13. WindowApart(r2.failed_nr, r2.first_failed_ts, q2)
  <2> SUFFICES ASSUME NEW i \in 1..(n + 1), i + r2.failed_nr + m - 2 <= n + 1, m > 1
               PROVE  r2.first_failed_ts - q2[i] > failed_time_span
    BY <1>2 DEF WindowApart, m
  <2>1. r2.failed_nr \in Nat \ {0} /\ i \in 1..n
    BY <1>1, <1>3
  <2>2. CASE nr = 0
    BY <1>1, <1>4, <2>1, <2>2
  <2>3. CASE nr > 0 /\ now - first <= failed_time_span
    <3>1. r2.failed_nr = nr + 1 /\ r2.first_failed_ts = first
      BY <1>1, <1>3, <2>3
    <3>2. i + nr + m - 2 <= n
      BY <1>1, <3>1
    <3> QED BY <1>2, <1>4, <2>1, <2>3, <3>1, <3>2
  <2>4. CASE nr > 0 /\ now - first > failed_time_span
    <3>1. r2.failed_nr = 1 /\ r2.first_failed_ts = now
      BY <1>1, <1>3, <2>4
    <3>2. i + m - 1 <= n + 1
      BY <1>1, <3>1
    <3> QED BY <1>2, <1>10, <2>1, <2>4, <3>1, <3>2
  <2> QED BY <1>3, <2>2, <2>3, <2>4
<1>14. r2.banned_until_ts = 0 => History(r2, q2, now)
  BY <1>2, <1>9, <1>12, <1>13 DEF History
<1>15. r2.banned_until_ts # 0 => Justified(r2, q2)
  <2> SUFFICES ASSUME r2.banned_until_ts # 0 PROVE Justified(r2, q2)
    OBVIOUS
  <2>1. r2.failed_nr = m /\ r2.banned_until_ts = now + ban_duration
    BY <1>1, <1>3
  <2>2. /\ m <= n + 1 /\ q2[n + 1 - m + 1] = r2.first_failed_ts
    BY <1>1, <1>2, <1>12, <2>1 DEF CountsLast
  <2>3. now - r2.first_failed_ts <= failed_time_span
    BY <1>1, <1>3, <2>1
  <2> QED BY <1>1, <1>2, <2>1, <2>2, <2>3 DEF Justified, m
<1> QED BY <1>8, <1>11, <1>14, <1>15

\* A counter that is zero goes with an empty history.
LEMMA EmptyHistory ==
  ASSUME NEW t
  PROVE  Sorted(<<>>) /\ Spread(<<>>) /\ History(Zero, <<>>, t) /\ ~(Zero.banned_until_ts > 0)
<1>1. Most \in Nat
  BY NeededIsLimit DEF Most
<1>2. 1..(0 - Most) = {}
  BY <1>1
<1>3. Spread(<<>>)
  BY <1>2 DEF Spread
<1> QED BY <1>3 DEF Sorted, History, CountsLast, WindowApart, Zero

\* A step that leaves counters and histories alone keeps the invariant, also when
\* the clock goes on.
LEMMA HistoryStutters ==
  ASSUME IInv, HistoryInv, UNCHANGED <<umusers, fails>>, now' \in Nat, now <= now'
  PROVE  HistoryInv'
<1> SUFFICES ASSUME NEW u \in Users, ~Banned(u), History(umusers[u], fails[u], now)
             PROVE  History(umusers[u], fails[u], now')
  BY DEF HistoryInv, Banned
<1>1. now \in Nat /\ \A i \in 1..Len(fails[u]) : fails[u][i] \in Nat
  BY AuthAssumption DEF IInv, TypeOK
<1> QED BY <1>1 DEF History

\* So does an attempt to log in.
LEMMA HistoryPreserved ==
  ASSUME IInv, HistoryInv, NEW u \in Users, CountersStep(u), now' = now
  PROVE  HistoryInv'
<1>1. /\ umusers \in [Users -> Counter] /\ fails \in [Users -> Seq(1..MaxTime)]
      /\ now \in 1..MaxTime /\ now \in Nat
  BY AuthAssumption DEF IInv, TypeOK, Counter
<1>2. CASE UNCHANGED <<umusers, fails>>
  BY <1>1, <1>2, HistoryStutters
<1>3. ASSUME NEW r, NEW q, umusers' = [umusers EXCEPT ![u] = r], fails' = [fails EXCEPT ![u] = q],
             Sorted(q), Spread(q),
             ~(r.banned_until_ts > 0) => History(r, q, now),
             r.banned_until_ts > 0 => Justified(r, q)
      PROVE  HistoryInv'
  <2> SUFFICES ASSUME NEW v \in Users
               PROVE  /\ Sorted(fails'[v]) /\ Spread(fails'[v])
                      /\ ~(umusers'[v].banned_until_ts > 0) => History(umusers'[v], fails'[v], now)
                      /\ umusers'[v].banned_until_ts > 0 => Justified(umusers'[v], fails'[v])
    BY DEF HistoryInv, Banned
  <2>1. CASE v = u
    BY <1>1, <1>3, <2>1
  <2>2. CASE v # u
    <3>1. umusers'[v] = umusers[v] /\ fails'[v] = fails[v]
      BY <1>1, <1>3, <2>2
    <3> QED BY <3>1 DEF HistoryInv, Banned
  <2> QED BY <2>1, <2>2
<1>4. CASE umusers' = [umusers EXCEPT ![u] = Zero] /\ fails' = [fails EXCEPT ![u] = <<>>]
  BY <1>3, <1>4, EmptyHistory
<1>5. CASE /\ ~Banned(u)
           /\ umusers' = [umusers EXCEPT ![u] = Limit(Window(Counted(@)))]
           /\ fails' = [fails EXCEPT ![u] = Append(@, now)]
  <2> DEFINE r == Limit(Window(Counted(umusers[u])))
             q == Append(fails[u], now)
  <2>1. /\ umusers[u] \in Counter /\ umusers[u].failed_nr < Needed
        /\ fails[u] \in Seq(1..MaxTime)
    BY <1>1, <1>5 DEF IInv, BelowLimit
  <2>2. umusers[u].banned_until_ts = 0
    BY <1>5, <2>1, AuthAssumption DEF Counter, Banned
  <2>3. Sorted(fails[u]) /\ Spread(fails[u]) /\ History(umusers[u], fails[u], now)
    BY <1>5 DEF HistoryInv
  <2>4. /\ Sorted(q) /\ Spread(q)
        /\ r.banned_until_ts = 0 => History(r, q, now)
        /\ r.banned_until_ts # 0 => Justified(r, q)
    BY <1>1, <2>1, <2>2, <2>3, FailureHistory
  <2>5. r \in Counter
    BY <1>1, <2>1, FailureCounted
  <2>6. umusers' = [umusers EXCEPT ![u] = r] /\ fails' = [fails EXCEPT ![u] = q]
    BY <1>5
  <2> HIDE DEF r, q
  <2>7. r.banned_until_ts \in Nat
    BY <2>5, AuthAssumption DEF Counter
  <2>8. /\ ~(r.banned_until_ts > 0) => History(r, q, now)
        /\ r.banned_until_ts > 0 => Justified(r, q)
    BY <2>4, <2>7
  <2> QED BY <1>3, <2>4, <2>6, <2>8
<1> QED BY <1>2, <1>4, <1>5 DEF CountersStep

LEMMA HistoryInductive == IInv /\ HistoryInv /\ [Next]_vars => HistoryInv'
<1> SUFFICES ASSUME IInv, HistoryInv, [Next]_vars PROVE HistoryInv'
  OBVIOUS
<1> USE DEF tableVars, msgVars
<1>1. now \in Nat
  BY AuthAssumption DEF IInv, TypeOK
<1>2. CASE UNCHANGED <<umusers, fails, now>>
  BY <1>1, <1>2, HistoryStutters
<1>3. CASE Tick
  BY <1>1, <1>3, HistoryStutters DEF Tick
<1>4. CASE Restart
  <2> SUFFICES ASSUME NEW v \in Users
               PROVE  /\ Sorted(fails'[v]) /\ Spread(fails'[v])
                      /\ ~(umusers'[v].banned_until_ts > 0) => History(umusers'[v], fails'[v], now')
                      /\ umusers'[v].banned_until_ts > 0 => Justified(umusers'[v], fails'[v])
    BY DEF HistoryInv, Banned
  <2>1. umusers'[v] = Zero /\ fails'[v] = <<>> /\ now' = now
    BY <1>4 DEF Restart
  <2> QED BY <2>1, EmptyHistory
<1>5. ASSUME NEW c \in Clients, NEW u \in Users,
             \/ Refuse(c, u)
             \/ \E p \in Passwords \cup {NoPassword} :
                  cb_basic_auth(c, u, p) \/ mosquitto_auth_unpwd_check(c, u, p)
             \/ \E iat \in 0..now : cb_basic_auth_jwt(c, u, iat)
      PROVE  HistoryInv'
  BY <1>5, AttemptIsCountersStep, HistoryPreserved
<1>6. ASSUME Next
      PROVE  \/ UNCHANGED <<umusers, fails, now>> \/ Tick \/ Restart
             \/ \E c \in Clients, u \in Users :
                  \/ Refuse(c, u)
                  \/ \E p \in Passwords \cup {NoPassword} :
                       cb_basic_auth(c, u, p) \/ mosquitto_auth_unpwd_check(c, u, p)
                  \/ \E iat \in 0..now : cb_basic_auth_jwt(c, u, iat)
  BY <1>6 DEF Next, cb_pld_mod, DropMessage, HandOn, EditUser, Disconnect, cb_acl_check
<1> QED BY <1>2, <1>3, <1>4, <1>5, <1>6 DEF vars

\* The counters of cb_basic_auth keep the ban policy for every limit, span and
\* duration, 0 included: a ban rests on max_failed_nr failures within the span, and
\* of the failures since the last success, ban or start no span sees more than
\* 2 * max_failed_nr - 2.
THEOREM BansFollowPolicy == Spec => []BanPolicy
<1>1. Init => HistoryInv
  BY EmptyHistory DEF Init, HistoryInv, Banned
<1>2. HistoryInv => BanPolicy
  <2> SUFFICES ASSUME HistoryInv PROVE BanPolicy
    OBVIOUS
  <2>1. BanJustified
    BY DEF HistoryInv, Justified, BanJustified
  <2>2. AttemptsBounded
    BY DEF HistoryInv, Spread, Most, AttemptsBounded
  <2> QED BY <2>1, <2>2 DEF BanPolicy
<1> QED BY <1>1, <1>2, HistoryInductive, InvHolds, PTL DEF Spec
=============================================================================
