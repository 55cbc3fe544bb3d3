------------------------------- MODULE AuthBan -------------------------------
(***************************************************************************)
(* The broker's side: the Mosquitto plugins that authenticate clients      *)
(* against the user table, count wrong passwords and ban users for a while *)
(* (plg_mosquitto_auth_v5.c), and the older plugin without bans            *)
(* (plg_mosquitto_auth.c).  A broker loads one of them; it calls the       *)
(* plugin from one thread, so that a callback is one action.  The user     *)
(* table (umdb.c) is a data base file that others may edit between two     *)
(* callbacks, and any access to it may fail.                               *)
(*                                                                         *)
(* Names, passwords and topics are model values; a token is the user that  *)
(* it was issued to and when; a payload is what it holds under "mink_usr". *)
(* The entry of umusers that is created for a user is all zero and does    *)
(* what no entry does, so that every user has one.                         *)
(***************************************************************************)
EXTENDS Integers, Sequences, FiniteSets

CONSTANTS
  Users, Passwords, Clients,
  NoUser, NoRow, NoPassword,
  max_failed_nr, failed_time_span, ban_duration,  \* user_ban_cfg
  jwt_exp,
  MaxTime,                                        \* bound on the clock
  MaxEdits                                        \* bound on edits of the user table

ASSUME AuthAssumption ==
  /\ max_failed_nr \in Nat /\ failed_time_span \in Nat /\ ban_duration \in Nat   \* uint32_t
  /\ jwt_exp \in Int /\ MaxTime \in Nat \ {0} /\ MaxEdits \in Nat
  /\ NoUser \notin Users /\ NoPassword \notin Passwords

VARIABLES
  version,   \* 5 or 4: which plugin the broker has loaded
  now,       \* the clock, in seconds
  user,      \* the data base's user table
  edits,
  umusers,   \* failed logins of each user
  sessions,  \* the user name the broker holds for each client
  pending,   \* a message between the broker's ACL check and its message event, and
             \* (history) how often the table had been edited at the check
  delivered, \* history: the last message handed on
  last,      \* history: the last attempt to log in and its outcome
  fails      \* history: times of the wrong passwords counted since the last success,
             \* end of a ban or start

vars == <<version, now, user, edits, umusers, sessions, pending, delivered, last, fails>>
msgVars == <<pending, delivered>>
tableVars == <<version, now, user, edits>>

Row == [id : {1}, flags : {0, 1}, password : Passwords]
NotFound == [id |-> -1, flags |-> 0, auth |-> -1]
Zero == [first_failed_ts |-> 0, failed_nr |-> 0, banned_until_ts |-> 0]

\* What a client sends as "mink_usr": not JSON, none, one of its own, a request
\* to leave it out.
Payloads == {"no json", "plain", "own header", "skip"}

Init ==
  /\ version \in {4, 5} /\ now = 1
  /\ user \in [Users -> Row] /\ edits = 0
  /\ umusers = [u \in Users |-> Zero]
  /\ sessions = [c \in Clients |-> NoUser]
  /\ pending = <<>> /\ delivered = <<>>
  /\ last = <<>> /\ fails = [u \in Users |-> <<>>]

-----------------------------------------------------------------------------
(* The user table.                                                         *)

\* the row of u and whether p is its password
umdb_mngr_uauth(u, p) ==
  IF user[u] = NoRow THEN NotFound
  ELSE [id |-> user[u].id, flags |-> user[u].flags,
        auth |-> IF user[u].password = p THEN 1 ELSE 0]

umdb_mngr_uget(u) ==
  IF user[u] = NoRow THEN [id |-> -1, flags |-> 0]
  ELSE [id |-> user[u].id, flags |-> user[u].flags]

\* Somebody edits the table.
EditUser(u) ==
  /\ edits < MaxEdits
  /\ edits' = edits + 1
  /\ \E r \in Row \cup {NoRow} : r # user[u] /\ user' = [user EXCEPT ![u] = r]
  /\ UNCHANGED <<version, now, umusers, sessions, msgVars, last, fails>>

Tick ==
  /\ now < MaxTime
  /\ now' = now + 1
  /\ UNCHANGED <<version, user, edits, umusers, sessions, msgVars, last, fails>>

-----------------------------------------------------------------------------
(* cb_basic_auth.                                                          *)

\* The outcome of an attempt of client c to log in as u: "auth" (MOSQ_ERR_AUTH)
\* or "success", after which the broker holds the name for the client.
Answer(c, u, right, res) ==
  /\ last' = [usr |-> u, right |-> right, res |-> res,
              ban |-> IF umusers[u].banned_until_ts = 0 THEN "none"
                      ELSE IF now <= umusers[u].banned_until_ts THEN "running" ELSE "over"]
  /\ sessions' = [sessions EXCEPT ![c] = IF res = "success" THEN u ELSE NoUser]

Banned(u) == umusers[u].banned_until_ts > 0

\* Fault: a ban is over as soon as it is looked at.
StillBannedNever(u) == FALSE

\* clk.tv_sec <= umuser->banned_until_ts
StillBanned(u) == now <= umusers[u].banned_until_ts

RefuseBanned(c, u, right) ==
  /\ Banned(u) /\ StillBanned(u)
  /\ Answer(c, u, right, "auth")
  /\ UNCHANGED <<umusers, fails>>

\* The first attempt after the ban resets the counters and is answered at once.
EndBan(c, u, right) ==
  /\ Banned(u) /\ ~StillBanned(u)
  /\ umusers' = [umusers EXCEPT ![u] = Zero]
  /\ fails' = [fails EXCEPT ![u] = <<>>]
  /\ Answer(c, u, right, "success")

\* Fault: the window is not looked at.
WindowForever(r) == r

\* the counter with one more failure starts again when the first one is too old
Window(r) ==
  IF now - r.first_failed_ts > failed_time_span
  THEN [r EXCEPT !.failed_nr = 1, !.first_failed_ts = now] ELSE r

\* one more failed attempt
Counted(r) ==
  [r EXCEPT !.failed_nr = @ + 1, !.first_failed_ts = IF r.failed_nr = 0 THEN now ELSE @]

\* Fault: the ban comes one attempt late.
LimitLate(r) ==
  IF r.failed_nr > max_failed_nr THEN [r EXCEPT !.banned_until_ts = now + ban_duration] ELSE r

\* the ban, if the limit is reached
Limit(r) ==
  IF r.failed_nr >= max_failed_nr THEN [r EXCEPT !.banned_until_ts = now + ban_duration] ELSE r

WrongPassword(c, u) ==
  /\ ~Banned(u)
  /\ umusers' = [umusers EXCEPT ![u] = Limit(Window(Counted(@)))]
  /\ fails' = [fails EXCEPT ![u] = Append(@, now)]
  /\ Answer(c, u, FALSE, "auth")

Success(c, u) ==
  /\ ~Banned(u)
  /\ umusers' = [umusers EXCEPT ![u] = Zero]
  /\ fails' = [fails EXCEPT ![u] = <<>>]
  /\ Answer(c, u, TRUE, "success")

\* What follows once the user is known, and authenticated (right) or not, by
\* password or by token; that is looked at only if there was no ban.
Checked(c, u, right) ==
  \/ RefuseBanned(c, u, right)
  \/ EndBan(c, u, right)
  \/ ~right /\ WrongPassword(c, u)
  \/ right /\ Success(c, u)

\* No user name; the key cannot be read; the data base fails.
Refuse(c, u) ==
  /\ Answer(c, u, FALSE, "auth")
  /\ UNCHANGED <<umusers, fails, tableVars, msgVars>>

\* Name and password.  Without a password, or with one for a name that is not
\* in the table, the client is refused.
cb_basic_auth(c, u, p) ==
  /\ version = 5
  /\ LET uauth == umdb_mngr_uauth(u, p)
     IN  IF p = NoPassword \/ uauth.id < 1
         THEN Answer(c, u, FALSE, "auth") /\ UNCHANGED <<umusers, fails>>
         ELSE Checked(c, u, uauth.auth = 1)
  /\ UNCHANGED <<tableVars, msgVars>>

\* A signed token in the place of the user name: until it expires it stands for
\* the password and the table is not asked; afterwards it is an unknown name.
cb_basic_auth_jwt(c, u, iat) ==
  /\ version = 5
  /\ IF iat + jwt_exp > now
     THEN Checked(c, u, TRUE)
     ELSE Answer(c, u, FALSE, "auth") /\ UNCHANGED <<umusers, fails>>
  /\ UNCHANGED <<tableVars, msgVars>>

\* mosquitto_auth_unpwd_check of the older plugin: umdb_mngr_uauth first reads a
\* field of uauth that nothing has set, and takes 1 for an answer.
mosquitto_auth_unpwd_check(c, u, p) ==
  /\ version = 4
  /\ \E unset \in BOOLEAN :
       LET right == p # NoPassword /\ umdb_mngr_uauth(u, p).auth = 1
       IN  Answer(c, u, right, IF right \/ unset THEN "success" ELSE "auth")
  /\ UNCHANGED <<umusers, fails, tableVars, msgVars>>

-----------------------------------------------------------------------------
(* cb_acl_check and cb_pld_mod.                                            *)

\* The user of the client may use the topic (admin or not).
Allowed(u, admin) ==
  LET uauth == umdb_mngr_uget(u) IN uauth.id >= 1 /\ (admin => uauth.flags = 1)

\* A message to a topic "mink/...": the broker asks cb_acl_check, the older
\* plugin's mosquitto_auth_acl_check likewise; what is not allowed, or cannot be
\* looked up, is dropped.
cb_acl_check(c, admin, pld) ==
  /\ pending = <<>> /\ sessions[c] # NoUser
  /\ Allowed(sessions[c], admin)
  /\ pending' = [usr |-> sessions[c], admin |-> admin, pld |-> pld, edits |-> edits]
  /\ delivered' = <<>>
  /\ UNCHANGED <<tableVars, umusers, sessions, last, fails>>

\* Fault: a header of the client's own is left in the payload.
HeaderKept(pld, uauth) ==
  IF pld = "own header" THEN [kind |-> "client's"]
  ELSE IF pld = "plain" THEN [kind |-> "ours", uid |-> uauth.id, flags |-> uauth.flags]
  ELSE [kind |-> "none"]

\* The header of the payload that cb_pld_mod makes: what is no JSON stays as it
\* is; "mink_usr" of the client is removed and ours takes its place.
Header(pld, uauth) ==
  IF pld \in {"plain", "own header"} THEN [kind |-> "ours", uid |-> uauth.id, flags |-> uauth.flags]
  ELSE [kind |-> "none"]

\* The message event (version 5); the table is asked again.
cb_pld_mod ==
  /\ pending # <<>> /\ version = 5
  /\ delivered' = [usr |-> pending.usr, hdr |-> Header(pending.pld, umdb_mngr_uget(pending.usr))]
  /\ pending' = <<>>
  /\ UNCHANGED <<tableVars, umusers, sessions, last, fails>>

\* The table cannot be read, or the new payload not be made: the message is
\* dropped.
DropMessage ==
  /\ pending # <<>> /\ version = 5
  /\ pending' = <<>>
  /\ UNCHANGED <<tableVars, umusers, sessions, delivered, last, fails>>

\* The older plugin has no such event: the broker hands the message on as the
\* client sent it.
HandOn ==
  /\ pending # <<>> /\ version = 4
  /\ delivered' = [usr |-> pending.usr,
                   hdr |-> [kind |-> IF pending.pld \in {"own header", "skip"} THEN "client's" ELSE "none"]]
  /\ pending' = <<>>
  /\ UNCHANGED <<tableVars, umusers, sessions, last, fails>>

\* The broker stops and starts again: mosquitto_plugin_cleanup empties umusers,
\* mosquitto_plugin_init connects to the data base (without it the broker does
\* not start).
Restart ==
  /\ umusers' = [u \in Users |-> Zero]
  /\ fails' = [u \in Users |-> <<>>]
  /\ sessions' = [c \in Clients |-> NoUser]
  /\ pending' = <<>> /\ delivered' = <<>> /\ last' = <<>>
  /\ UNCHANGED tableVars

\* the client disconnects
Disconnect(c) ==
  /\ sessions[c] # NoUser
  /\ sessions' = [sessions EXCEPT ![c] = NoUser]
  /\ UNCHANGED <<tableVars, umusers, msgVars, last, fails>>

Next ==
  \/ Tick \/ cb_pld_mod \/ DropMessage \/ HandOn \/ Restart
  \/ \E u \in Users : EditUser(u)
  \/ \E c \in Clients :
       \/ Disconnect(c)
       \/ \E admin \in BOOLEAN, pld \in Payloads : cb_acl_check(c, admin, pld)
       \/ \E u \in Users :
            \/ Refuse(c, u)
            \/ \E p \in Passwords \cup {NoPassword} :
                 cb_basic_auth(c, u, p) \/ mosquitto_auth_unpwd_check(c, u, p)
            \/ \E iat \in 0..now : cb_basic_auth_jwt(c, u, iat)

Spec == Init /\ [][Next]_vars

-----------------------------------------------------------------------------
(* Properties.                                                             *)

\* How many failures it takes to be banned: the first one is counted before the
\* limit is looked at, also when the limit is 0.
Needed == IF max_failed_nr = 0 THEN 1 ELSE max_failed_nr

TypeOK ==
  /\ version \in {4, 5} /\ now \in 1..MaxTime /\ edits \in 0..MaxEdits
  /\ user \in [Users -> Row \cup {NoRow}]
  /\ umusers \in [Users -> [first_failed_ts : 0..MaxTime, failed_nr : 0..Needed,
                            banned_until_ts : 0..(MaxTime + ban_duration)]]
  /\ sessions \in [Clients -> Users \cup {NoUser}]
  /\ pending = <<>> \/ pending \in [usr : Users, admin : BOOLEAN, pld : Payloads, edits : 0..edits]
  /\ fails \in [Users -> Seq(1..MaxTime)]

\* A ban is no accident: it rests on max_failed_nr wrong passwords (at least
\* one) within failed_time_span, none of them from before a success, and ends
\* ban_duration after the last of them.
BanJustified ==
  \A u \in Users : Banned(u) =>
    LET n == Len(fails[u])
    IN  /\ n >= Needed
        /\ fails[u][n] - fails[u][n - Needed + 1] <= failed_time_span
        /\ umusers[u].banned_until_ts = fails[u][n] + ban_duration

\* Although the window restarts, repeated failures are slowed down: of the
\* failures since the last success, end of a ban or start of the broker, no time
\* span of that length sees more than 2 * max_failed_nr - 2 (1 if the first one
\* bans).  Across these three the counters start again from zero.
AttemptsBounded ==
  LET most == IF Needed = 1 THEN 1 ELSE 2 * Needed - 2
  IN  \A u \in Users : \A k \in 1..(Len(fails[u]) - most) :
        fails[u][k + most] - fails[u][k] > failed_time_span

\* What cb_basic_auth's counters promise about bans.
BanPolicy == BanJustified /\ AttemptsBounded

\* A client is let in only with the password or a token of the user, and never
\* during a ban, with whatever it shows.  The one exception is the first attempt
\* after a ban, which is answered with success.  (Of the older plugin, which
\* reads an unset field, this cannot be said.)
AcceptedRightly ==
  version = 5 /\ last # <<>> /\ last.res = "success" =>
    last.ban = "over" \/ (last.ban = "none" /\ last.right)

\* With the plugin of version 5 receivers can rely on "mink_usr".  A message that
\* is handed on carries the header of its sender, with the row as it is at the
\* event, or the mark that there is no row any more; it carries none only if it
\* is no JSON or asked for none; never the client's own.  Unless the table was
\* edited between the ACL check and the event the header agrees with what was
\* checked: a known user, on an admin topic one with the admin flag.  (The older
\* plugin has no event and hands the client's own header on.)
HeaderIsSenders ==
  [][version = 5 /\ delivered' # delivered /\ delivered' # <<>> =>
       LET hdr == delivered'.hdr
       IN  /\ delivered'.usr = pending.usr
           /\ IF pending.pld \in {"no json", "skip"} THEN hdr.kind = "none"
              ELSE /\ hdr.kind = "ours"
                   /\ IF user[pending.usr] = NoRow THEN hdr.uid = -1
                      ELSE hdr.flags = user[pending.usr].flags
                   /\ edits = pending.edits =>
                        hdr.uid >= 1 /\ (pending.admin => hdr.flags = 1)]_vars
=============================================================================
