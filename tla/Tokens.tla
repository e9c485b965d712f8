------------------------------- MODULE Tokens -------------------------------
(***************************************************************************)
(* Tokens of the phones and of the dashboard (app/core/security.py,        *)
(* app/core/deps.py, api/routes/auth.py): login, renewal, logout, and what *)
(* a new password, a switched off or a deleted account does to them.       *)
(*                                                                         *)
(* A JWT carries its second of issue and no identifier: two tokens of an   *)
(* account issued in the same second are the same string. The list of      *)
(* revoked tokens is kept in Redis, which may be down, lose its keys, or   *)
(* evict any of them when its memory is full (allkeys-lru).                *)
(***************************************************************************)
EXTENDS Integers

CONSTANTS
  Comptes,     \* accounts
  Workers,     \* requests served at the same time
  NULL,        \* SQL NULL, an account without row, no token
  Forces,      \* values of force_change an administrator sends
  PerSecond,   \* instants in a second
  AccessLife,  \* ACCESS_TOKEN_EXPIRE_MINUTES, in seconds
  RefreshLife, \* REFRESH_TOKEN_EXPIRE_DAYS, in seconds
  LastInstant, \* bound: instants of the model
  MaxMdp       \* bound: passwords an account has in its life, less one

ASSUME TokensAssumption ==
  /\ PerSecond \in Nat \ {0} /\ LastInstant \in Nat /\ MaxMdp \in Nat
  /\ AccessLife \in Nat \ {0} /\ RefreshLife \in Nat \ {0}
  /\ NULL \notin Int /\ Forces \subseteq BOOLEAN

VARIABLES
  comptes,  \* table users; mdp numbers the password, 0 the one given at creation
  emis,     \* tokens delivered, each with the password its holder has proved
  revoques, \* keys revoked_token:* written to Redis and not lost, each with its expiry
  sortis,   \* tokens given to revoke_token while Redis answered, whose key was not lost
  redis,    \* whether Redis answers
  req,      \* req[w]: the request of worker w and what it has loaded
  instant   \* the clock

vars == <<comptes, emis, revoques, sortis, redis, req, instant>>

-----------------------------------------------------------------------------
(* Accounts and tokens *)

Instants == 0..LastInstant
Second(t) == t \div PerSecond
Seconds == {Second(t) : t \in Instants}

Compte == [mdp : 0..MaxMdp, doit_changer : BOOLEAN, actif : BOOLEAN,
           depuis : Seconds \cup {NULL}]

Jeton == [compte : Comptes, type : {"access", "refresh"}, iat : Seconds]

Idle == [op |-> "idle"]

Exp(j) == j.iat + (IF j.type = "access" THEN AccessLife ELSE RefreshLife)

\* decode_token: python-jose refuses a token once the clock is past its second exp.
Decodes(j) == Second(instant) <= Exp(j)

\* is_token_revoked: without Redis no token counts as revoked.
Revoked(j) == redis /\ \E k \in revoques : k.jeton = j /\ instant < k.fin

\* Tokens of before the last change of password are refused, whatever the device.
IssuedSince(j, compte) == compte.depuis # NULL => compte.depuis <= j.iat

\* What get_current_user and refresh answer to a token at this moment.
Accepted(j) ==
  /\ Decodes(j) /\ ~Revoked(j)
  /\ comptes[j.compte] # NULL
  /\ comptes[j.compte].actif
  /\ IssuedSince(j, comptes[j.compte])

Init ==
  /\ comptes = [c \in Comptes |-> [mdp |-> 0, doit_changer |-> TRUE, actif |-> TRUE, depuis |-> NULL]]
  /\ emis = {} /\ revoques = {} /\ sortis = {}
  /\ redis = TRUE
  /\ req = [w \in Workers |-> Idle]
  /\ instant = 0

Arrive(w, request) ==
  /\ req[w] = Idle
  /\ req' = [req EXCEPT ![w] = request]
  /\ UNCHANGED <<comptes, emis, revoques, sortis, redis, instant>>

Done(w) == req' = [req EXCEPT ![w] = Idle]

-----------------------------------------------------------------------------
(* Issue and renewal *)

TokenPair(c) == {[compte |-> c, type |-> t, iat |-> Second(instant)] : t \in {"access", "refresh"}}

\* login: the password is verified against the row loaded, which takes a while.
ReadLogin(w, c) ==
  /\ comptes[c] # NULL /\ comptes[c].actif
  /\ Arrive(w, [op |-> "issue", compte |-> c, mdp |-> comptes[c].mdp])

\* refresh: the row first, then Redis. The refresh token stays usable.
ReadRefresh(w, e) ==
  /\ e \in emis /\ e.jeton.type = "refresh"
  /\ Decodes(e.jeton)
  /\ comptes[e.jeton.compte] # NULL /\ comptes[e.jeton.compte].actif
  /\ IssuedSince(e.jeton, comptes[e.jeton.compte])
  /\ Arrive(w, [op |-> "check", session |-> e])

CheckRefresh(w) ==
  /\ req[w].op = "check"
  /\ req' = [req EXCEPT ![w] =
               IF Revoked(req[w].session.jeton) THEN Idle
               ELSE [op |-> "issue", compte |-> req[w].session.jeton.compte,
                     mdp |-> req[w].session.mdp]]
  /\ UNCHANGED <<comptes, emis, revoques, sortis, redis, instant>>

Issue(w) ==
  /\ req[w].op = "issue"
  /\ emis' = emis \cup {[jeton |-> j, mdp |-> req[w].mdp] : j \in TokenPair(req[w].compte)}
  /\ Done(w)
  /\ UNCHANGED <<comptes, revoques, sortis, redis, instant>>

-----------------------------------------------------------------------------
(* Requests under a token *)

\* get_current_user: decoded, looked for in Redis, then its account is loaded.
Present(w, j, op) ==
  /\ j \in {e.jeton : e \in emis} /\ j.type = "access"
  /\ Decodes(j) /\ ~Revoked(j)
  /\ Arrive(w, [op |-> "present", jeton |-> j, pour |-> op])

Authenticate(w) ==
  /\ req[w].op = "present"
  /\ LET c == comptes[req[w].jeton.compte]
     IN req' = [req EXCEPT ![w] =
                  IF c # NULL /\ c.actif /\ IssuedSince(req[w].jeton, c)
                  THEN [op |-> req[w].pour, jeton |-> req[w].jeton] ELSE Idle]
  /\ UNCHANGED <<comptes, emis, revoques, sortis, redis, instant>>

\* Faulty variant: the key expires a second before the token.
ShortTtl(j) == Exp(j) - Second(instant) - 1

\* Seconds a revoked token still has to live: at 0 or below nothing is written.
Ttl(j) == Exp(j) - Second(instant)

\* A key for each of the tokens K, in the place of the one it had.
Blacklist(K) ==
  revoques' = {k \in revoques : k.jeton \notin K}
                \cup {[jeton |-> j, fin |-> instant + Ttl(j) * PerSecond] : j \in K}

\* Faulty variant: only tokens of the kind get_current_user accepts.
RevokeAccess(J) ==
  /\ Blacklist({j \in J : redis /\ Ttl(j) > 0 /\ j.type = "access"})
  /\ sortis' = IF redis THEN sortis \cup J ELSE sortis

\* revoke_token, once per token: an outage of Redis is logged and forgotten.
RevokeTokens(J) ==
  /\ Blacklist({j \in J : redis /\ Ttl(j) > 0})
  /\ sortis' = IF redis THEN sortis \cup J ELSE sortis

\* logout: the token presented, and the refresh token the phone gives, if it does.
Logout(w, J) ==
  /\ req[w].op = "logout"
  /\ J \subseteq {e.jeton : e \in emis}
  /\ \A j \in J : j.type = "refresh" /\ Decodes(j)
  /\ RevokeTokens({req[w].jeton} \cup J)
  /\ Done(w)
  /\ UNCHANGED <<comptes, emis, redis, instant>>

\* Faulty variant: the instant of the change is rounded up to a second.
FromNextSecond == Second(instant + PerSecond - 1)

\* tokens_valid_from of a new password: the clock less its fraction of a second.
FromNow == Second(instant)

\* change_password: the row is flushed, the token presented is revoked; COMMIT follows.
ChangePassword(w) ==
  /\ req[w].op = "change"
  /\ RevokeTokens({req[w].jeton})
  /\ req' = [req EXCEPT ![w] = [op |-> "set", compte |-> req[w].jeton.compte,
                                depuis |-> FromNow, doit_changer |-> FALSE]]
  /\ UNCHANGED <<comptes, emis, redis, instant>>

-----------------------------------------------------------------------------
(* Other changes of an account *)

\* reset_password, from the phone.
ResetPassword(w, c) ==
  /\ comptes[c] # NULL /\ comptes[c].actif
  /\ Arrive(w, [op |-> "set", compte |-> c, depuis |-> FromNow, doit_changer |-> FALSE])

\* admin_reset_password, from the dashboard.
AdminResetPassword(w, c, force) ==
  /\ comptes[c] # NULL
  /\ Arrive(w, [op |-> "set", compte |-> c, depuis |-> FromNow, doit_changer |-> force])

CommitPassword(w) ==
  /\ req[w].op = "set"
  /\ LET c == req[w].compte
     IN /\ comptes[c] # NULL
        /\ comptes[c].mdp < MaxMdp
        /\ comptes' = [comptes EXCEPT ![c].mdp = @ + 1, ![c].depuis = req[w].depuis,
                                      ![c].doit_changer = req[w].doit_changer]
  /\ Done(w)
  /\ UNCHANGED <<emis, revoques, sortis, redis, instant>>

\* update_user with a password: the tokens delivered stay valid.
UpdatePassword(c) ==
  /\ comptes[c] # NULL
  /\ comptes[c].mdp < MaxMdp
  /\ comptes' = [comptes EXCEPT ![c].mdp = @ + 1]
  /\ UNCHANGED <<emis, revoques, sortis, redis, req, instant>>

\* toggle_status assigns the opposite of the status it has loaded.
ReadToggle(w, c) ==
  /\ comptes[c] # NULL
  /\ Arrive(w, [op |-> "toggle", compte |-> c, actif |-> ~comptes[c].actif])

CommitToggle(w) ==
  /\ req[w].op = "toggle"
  /\ comptes[req[w].compte] # NULL
  /\ comptes' = [comptes EXCEPT ![req[w].compte].actif = req[w].actif]
  /\ Done(w)
  /\ UNCHANGED <<emis, revoques, sortis, redis, instant>>

DeleteUser(c) ==
  /\ comptes[c] # NULL
  /\ comptes' = [comptes EXCEPT ![c] = NULL]
  /\ UNCHANGED <<emis, revoques, sortis, redis, req, instant>>

\* The request is answered, or it failed: its transaction is rolled back, what it
\* has told Redis stays.
Rollback(w) ==
  /\ req[w] # Idle
  /\ Done(w)
  /\ UNCHANGED <<comptes, emis, revoques, sortis, redis, instant>>

-----------------------------------------------------------------------------
(* The environment *)

RedisFails ==
  /\ redis
  /\ redis' = FALSE
  /\ UNCHANGED <<comptes, emis, revoques, sortis, req, instant>>

RedisReturns ==
  /\ ~redis
  /\ redis' = TRUE
  /\ \/ UNCHANGED <<revoques, sortis>>
     \/ revoques' = {} /\ sortis' = {}
  /\ UNCHANGED <<comptes, emis, req, instant>>

\* maxmemory is reached: any key may go, that of a revoked token too.
Evict(j) ==
  /\ redis /\ j \in {k.jeton : k \in revoques}
  /\ revoques' = {k \in revoques : k.jeton # j} /\ sortis' = sortis \ {j}
  /\ UNCHANGED <<comptes, emis, redis, req, instant>>

Tick ==
  /\ instant < LastInstant
  /\ instant' = instant + 1
  /\ UNCHANGED <<comptes, emis, revoques, sortis, redis, req>>

Next ==
  \/ \E w \in Workers, c \in Comptes :
       \/ ReadLogin(w, c) \/ ReadToggle(w, c)
       \/ ResetPassword(w, c)
       \/ \E force \in Forces : AdminResetPassword(w, c, force)
  \/ \E w \in Workers, e \in emis :
       \/ ReadRefresh(w, e)
       \/ \E op \in {"logout", "change"} : Present(w, e.jeton, op)
  \/ \E w \in Workers :
       \/ CheckRefresh(w) \/ Issue(w) \/ Authenticate(w)
       \/ \E J \in SUBSET {e.jeton : e \in emis} : Logout(w, J)
       \/ ChangePassword(w) \/ CommitPassword(w) \/ CommitToggle(w) \/ Rollback(w)
  \/ \E c \in Comptes : UpdatePassword(c) \/ DeleteUser(c)
  \/ \E k \in revoques : Evict(k.jeton)
  \/ RedisFails \/ RedisReturns \/ Tick

Spec == Init /\ [][Next]_vars

-----------------------------------------------------------------------------
(* Properties *)

\* Every variable keeps its type; a key of Redis expires in its token's last second.
TypeOK ==
  /\ comptes \in [Comptes -> Compte \cup {NULL}]
  /\ \A e \in emis : e.jeton \in Jeton /\ e.mdp \in 0..MaxMdp
  /\ \A k \in revoques : k.jeton \in Jeton /\ k.fin \in Int /\ Second(k.fin) = Exp(k.jeton)
  /\ sortis \subseteq Jeton /\ redis \in BOOLEAN
  /\ instant \in Instants

\* Nobody is sent back to the login screen without a reason: a token obtained with the
\* account's present password, or renewed from one, is accepted for its whole life
\* unless it was revoked or the account is switched off. This holds within the second
\* of a change of password (tokens_valid_from is truncated for it), when changes of
\* password cross each other, and while Redis is down (the blacklist fails open).
NoSpuriousRefusal ==
  \A e \in emis :
    LET c == comptes[e.jeton.compte]
    IN /\ c # NULL /\ c.actif /\ e.mdp = c.mdp
       /\ Second(instant) <= Exp(e.jeton)
       /\ ~Revoked(e.jeton)
       => Accepted(e.jeton)

\* A logout lasts, as far as Redis does: a token of either kind that was given to
\* revoke_token while Redis answered is refused whenever Redis answers, until the token's
\* last second, unless Redis has lost or evicted its key since. It is so whatever was
\* committed, rolled back or revoked a second time, and when too little of the token's
\* life was left to write a key at all.
LoggedOutRefused ==
  redis => \A j \in sortis : Accepted(j) => Exp(j) <= Second(instant)
=============================================================================
