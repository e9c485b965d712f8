---------------------------- MODULE TokensProof ----------------------------
(***************************************************************************)
(* Theorems about module Tokens, for every set of accounts and workers,    *)
(* every life of a token, every grain of the clock and every bound.        *)
(***************************************************************************)
EXTENDS Tokens, TLAPS

-----------------------------------------------------------------------------
(* Seconds *)

\* The quotient of a division, by its remainder.
LEMMA DivMod ==
  ASSUME NEW a \in Int, NEW p \in Nat \ {0}
  PROVE  a \div p \in Int /\ p * (a \div p) <= a /\ a < p * (a \div p) + p
  OBVIOUS

\* No other number is the quotient.
LEMMA DivUnique ==
  ASSUME NEW a \in Int, NEW p \in Nat \ {0}, NEW q \in Int, p * q <= a, a < p * q + p
  PROVE  a \div p = q
<1>1. PICK d \in Int : d = a \div p
  OBVIOUS
<1>2. p * d <= a /\ a < p * d + p
  BY <1>1, DivMod
<1>3. CASE d < q
  <2>1. p * (d + 1) <= p * q
    BY <1>3
  <2>. QED
    BY <2>1, <1>2
<1>4. CASE q < d
  <2>1. p * (q + 1) <= p * d
    BY <1>4
  <2>. QED
    BY <2>1, <1>2
<1>. QED
  BY <1>1, <1>3, <1>4

\* Whole seconds added to an instant are added to its second.
LEMMA DivAdd ==
  ASSUME NEW a \in Int, NEW p \in Nat \ {0}, NEW b \in Int
  PROVE  (a + b * p) \div p = a \div p + b
<1>1. PICK d \in Int : d = a \div p
  OBVIOUS
<1>2. p * d <= a /\ a < p * d + p
  BY <1>1, DivMod
<1>3. PICK e \in Int : e = p * d
  OBVIOUS
<1>4. PICK f \in Int : f = b * p
  OBVIOUS
<1>5. p * (d + b) = e + f
  BY <1>3, <1>4
<1>6. p * (d + b) <= a + f /\ a + f < p * (d + b) + p
  BY <1>2, <1>3, <1>5
<1>. QED
  BY <1>1, <1>4, <1>6, DivUnique

\* A later instant is in the same second or in a later one.
LEMMA DivMonotone ==
  ASSUME NEW a \in Int, NEW b \in Int, NEW p \in Nat \ {0}, a <= b
  PROVE  a \div p <= b \div p
<1>1. PICK d \in Int, e \in Int : d = a \div p /\ e = b \div p
  OBVIOUS
<1>2. p * d <= a /\ b < p * e + p
  BY <1>1, DivMod
<1>3. CASE e < d
  <2>1. p * (e + 1) <= p * d
    BY <1>3
  <2>. QED
    BY <2>1, <1>2
<1>. QED
  BY <1>1, <1>3

\* The seconds of instants are numbers, and follow them.
LEMMA SecondsFollow ==
  /\ \A t \in Int : Second(t) \in Int
  /\ \A t \in Instants : Second(t) \in Seconds
  /\ Seconds \subseteq Int
  /\ \A t, u \in Int : t <= u => Second(t) <= Second(u)
  /\ \A t, n \in Int : Second(t + n * PerSecond) = Second(t) + n
<1>1. \A t \in Int : Second(t) \in Int
  BY TokensAssumption, DivMod DEF Second
<1>2. \A t, u \in Int : t <= u => Second(t) <= Second(u)
  BY TokensAssumption, DivMonotone DEF Second
<1>3. \A t, n \in Int : Second(t + n * PerSecond) = Second(t) + n
  BY TokensAssumption, DivAdd DEF Second
<1>4. \A t \in Instants : Second(t) \in Seconds
  BY DEF Seconds
<1>5. Seconds \subseteq Int
  <2>1. \A t \in Instants : t \in Int
    BY TokensAssumption DEF Instants
  <2>. QED
    BY <1>1, <2>1 DEF Seconds
<1>. QED
  BY <1>1, <1>2, <1>3, <1>4, <1>5

\* A token expires in a second.
LEMMA ExpIsSecond == \A j \in Jeton : Exp(j) \in Int
<1> TAKE j \in Jeton
<1>1. j.iat \in Int
  BY SecondsFollow DEF Jeton
<1>2. AccessLife \in Int /\ RefreshLife \in Int
  BY TokensAssumption
<1>. QED
  BY <1>1, <1>2 DEF Exp

-----------------------------------------------------------------------------
(* The inductive invariant *)

\* The fields of a request, by the step it has reached; the moment of a change of
\* password is past.
Typed(r) ==
  /\ r.op = "issue" => r.compte \in Comptes /\ r.mdp \in 0..MaxMdp
  /\ r.op = "check" => r.session.jeton \in Jeton /\ r.session.mdp \in 0..MaxMdp
  /\ r.op = "present" => r.jeton \in Jeton /\ r.pour \in {"logout", "change"}
  /\ r.op \in {"logout", "change"} => r.jeton \in Jeton
  /\ r.op = "set" => /\ r.compte \in Comptes /\ r.doit_changer \in BOOLEAN
                     /\ r.depuis \in Seconds /\ r.depuis <= Second(instant)
  /\ r.op = "toggle" => r.compte \in Comptes /\ r.actif \in BOOLEAN

\* The password somebody has proved is the account's, or one before it.
Proved(c, mdp) == comptes[c] # NULL => mdp <= comptes[c].mdp

Held(r) ==
  /\ r.op = "issue" => Proved(r.compte, r.mdp)
  /\ r.op = "check" => Proved(r.session.jeton.compte, r.session.mdp)

Requests ==
  /\ req = [w \in Workers |-> req[w]]
  /\ \A w \in Workers : Typed(req[w]) /\ Held(req[w])

\* A token was delivered for the account's password or one before it, and for its
\* present one after the moment since which tokens are valid.
Delivered ==
  \A e \in emis :
    LET c == comptes[e.jeton.compte]
    IN c # NULL => e.mdp <= c.mdp /\ (e.mdp = c.mdp => IssuedSince(e.jeton, c))

\* The moment since which tokens are valid is past.
ValidFromPast ==
  \A c \in Comptes : comptes[c] # NULL /\ comptes[c].depuis # NULL =>
    comptes[c].depuis <= Second(instant)

\* A token given to revoke_token has its key, but in its last second or after.
Kept ==
  \A j \in sortis : Exp(j) <= Second(instant) \/ \E k \in revoques : k.jeton = j

Tables == TypeOK /\ Delivered /\ ValidFromPast /\ Kept

IInv == Tables /\ Requests

\* The present second is a number.
LEMMA NowIsSecond ==
  ASSUME IInv
  PROVE  Second(instant) \in Seconds /\ Second(instant) \in Int /\ Second(instant) <= Second(instant)
<1>1. Second(instant) \in Seconds /\ Second(instant) \in Int
  BY SecondsFollow DEF IInv, Tables, TypeOK
<1>. QED
  BY <1>1

\* What every step preserves for the requests under way.
Advances ==
  /\ instant' \in Instants /\ instant <= instant'
  /\ \A c \in Comptes : comptes'[c] # NULL =>
       comptes[c] # NULL /\ comptes'[c].mdp \in Nat /\ comptes[c].mdp <= comptes'[c].mdp

\* A request holds on to what it may rely on.
LEMMA HeldOn ==
  ASSUME IInv, Advances, NEW v \in Workers, req'[v] = req[v]
  PROVE  Typed(req[v])' /\ Held(req[v])'
<1>1. Typed(req[v]) /\ Held(req[v])
  BY DEF IInv, Requests
<1>2. Second(instant) \in Int /\ Second(instant') \in Int /\ Second(instant) <= Second(instant')
  <2>1. instant \in Int /\ instant' \in Int /\ instant <= instant'
    BY TokensAssumption DEF IInv, Tables, TypeOK, Advances, Instants
  <2>. QED
    BY <2>1, SecondsFollow
<1>3. Seconds \subseteq Int
  BY SecondsFollow
<1>4. Typed(req[v])'
  <2>1. CASE req[v].op = "set"
    <3>1. /\ req'[v].compte \in Comptes /\ req'[v].doit_changer \in BOOLEAN
          /\ req'[v].depuis \in Seconds /\ req'[v].depuis \in Int
          /\ req'[v].depuis <= Second(instant) /\ req'[v].op = "set"
      BY <1>1, <1>3, <2>1 DEF Typed
    <3>2. req'[v].depuis <= Second(instant')
      BY <1>2, <3>1
    <3>. QED
      BY <3>1, <3>2 DEF Typed
  <2>2. CASE req[v].op # "set"
    BY <1>1, <2>2 DEF Typed
  <2>. QED
    BY <2>1, <2>2
<1>5. \A c \in Comptes : comptes[c] # NULL => comptes[c].mdp \in Nat
  BY DEF IInv, Tables, TypeOK, Compte
<1>6. \A c \in Comptes, m \in 0..MaxMdp : Proved(c, m) => (comptes'[c] # NULL => m <= comptes'[c].mdp)
  BY <1>5, TokensAssumption DEF Proved, Advances
<1>7. Held(req[v])'
  BY <1>1, <1>6 DEF Held, Typed, Proved, Jeton
<1>. QED
  BY <1>4, <1>7

\* The others, and the one that goes on, arrives or leaves.
LEMMA RequestsKept ==
  ASSUME IInv, Advances, NEW w \in Workers, NEW r, req' = [req EXCEPT ![w] = r],
         Typed(r)', Held(r)'
  PROVE  Requests'
<1>1. \A v \in Workers : req'[v] = IF v = w THEN r ELSE req[v]
  BY DEF IInv, Requests
<1>2. req' = [v \in Workers |-> req'[v]]
  BY DEF IInv, Requests
<1>3. ASSUME NEW v \in Workers PROVE Typed(req[v])' /\ Held(req[v])'
  <2>1. CASE v = w
    BY <1>1, <2>1 DEF Typed, Held, Proved
  <2>2. CASE v # w
    BY <1>1, <2>2, HeldOn
  <2>. QED
    BY <2>1, <2>2
<1>. QED
  BY <1>2, <1>3 DEF Requests

\* A step that goes on with no request.
LEMMA AllRequestsKept ==
  ASSUME IInv, Advances, UNCHANGED req
  PROVE  Requests'
<1>1. \A v \in Workers : Typed(req[v])' /\ Held(req[v])'
  BY HeldOn
<1>. QED
  BY <1>1 DEF IInv, Requests

\* What Redis has it keeps, and time goes on.
LEMMA KeptOn ==
  ASSUME IInv, Advances, UNCHANGED <<revoques, sortis>>
  PROVE  Kept'
<1>1. /\ sortis \subseteq Jeton /\ instant \in Int /\ instant' \in Int /\ instant <= instant'
  BY TokensAssumption DEF IInv, Tables, TypeOK, Advances, Instants
<1>2. Second(instant) \in Int /\ Second(instant') \in Int /\ Second(instant) <= Second(instant')
  BY <1>1, SecondsFollow
<1>3. SUFFICES ASSUME NEW j \in sortis
               PROVE  Exp(j) <= Second(instant') \/ \E k \in revoques : k.jeton = j
  BY DEF Kept, Second, Exp
<1>4. Exp(j) \in Int
  BY <1>1, ExpIsSecond
<1>5. Exp(j) <= Second(instant) \/ \E k \in revoques : k.jeton = j
  BY DEF IInv, Tables, Kept
<1>. QED
  BY <1>2, <1>4, <1>5

\* A step that writes no table.
LEMMA TablesKept ==
  ASSUME IInv, UNCHANGED <<comptes, emis, revoques, sortis, redis, instant>>
  PROVE  Tables' /\ Advances
<1>1. TypeOK' /\ Delivered' /\ ValidFromPast'
  BY DEF IInv, Tables, TypeOK, Delivered, ValidFromPast, IssuedSince
<1>2. Advances
  BY TokensAssumption DEF IInv, Tables, TypeOK, Advances, Instants, Compte
<1>3. Kept'
  BY <1>2, KeptOn
<1>. QED
  BY <1>1, <1>2, <1>3 DEF Tables

\* A request arrives, goes on or leaves, and writes no table.
LEMMA RequestStep ==
  ASSUME IInv, NEW w \in Workers, NEW r, req' = [req EXCEPT ![w] = r], Typed(r), Held(r),
         UNCHANGED <<comptes, emis, revoques, sortis, redis, instant>>
  PROVE  IInv'
<1>1. Tables' /\ Advances
  BY TablesKept
<1>2. Typed(r)' /\ Held(r)'
  BY DEF Typed, Held, Proved
<1>. QED
  BY <1>1, <1>2, RequestsKept DEF IInv

\* A request is over.
LEMMA DoneStep ==
  ASSUME IInv, Advances, Tables', NEW w \in Workers, Done(w)
  PROVE  IInv'
<1>1. PICK r : r = Idle
  OBVIOUS
<1>2. Typed(r)' /\ Held(r)' /\ req' = [req EXCEPT ![w] = r]
  BY <1>1 DEF Typed, Held, Idle, Done
<1>. QED
  BY <1>2, RequestsKept DEF IInv

-----------------------------------------------------------------------------
(* Issue and renewal *)

\* login has compared the password.
LEMMA ReadLoginStep ==
  ASSUME IInv, NEW w \in Workers, NEW c \in Comptes, ReadLogin(w, c)
  PROVE  IInv'
<1>1. PICK m : m = comptes[c].mdp
  OBVIOUS
<1>2. m \in 0..MaxMdp
  BY <1>1 DEF ReadLogin, IInv, Tables, TypeOK, Compte
<1>3. PICK r : r = [op |-> "issue", compte |-> c, mdp |-> m]
  OBVIOUS
<1>4. Typed(r) /\ Held(r)
  BY <1>1, <1>2, <1>3, TokensAssumption DEF Typed, Held, Proved
<1>5. req' = [req EXCEPT ![w] = r] /\ UNCHANGED <<comptes, emis, revoques, sortis, redis, instant>>
  BY <1>1, <1>3 DEF ReadLogin, Arrive
<1>. QED
  BY <1>4, <1>5, RequestStep

\* refresh has loaded the account.
LEMMA ReadRefreshStep ==
  ASSUME IInv, NEW w \in Workers, NEW e \in emis, ReadRefresh(w, e)
  PROVE  IInv'
<1>1. PICK r : r = [op |-> "check", session |-> e]
  OBVIOUS
<1>2. Typed(r) /\ Held(r)
  BY <1>1 DEF Typed, Held, Proved, IInv, Tables, TypeOK, Delivered
<1>3. req' = [req EXCEPT ![w] = r] /\ UNCHANGED <<comptes, emis, revoques, sortis, redis, instant>>
  BY <1>1 DEF ReadRefresh, Arrive
<1>. QED
  BY <1>2, <1>3, RequestStep

\* refresh has looked the token up in Redis.
LEMMA CheckRefreshStep ==
  ASSUME IInv, NEW w \in Workers, CheckRefresh(w)
  PROVE  IInv'
<1>1. PICK q : q = req[w]
  OBVIOUS
<1>2. q.op = "check" /\ Typed(q) /\ Held(q)
  BY <1>1 DEF CheckRefresh, IInv, Requests
<1>3. PICK r : r = IF Revoked(q.session.jeton) THEN Idle
                   ELSE [op |-> "issue", compte |-> q.session.jeton.compte, mdp |-> q.session.mdp]
  OBVIOUS
<1>4. req' = [req EXCEPT ![w] = r] /\ UNCHANGED <<comptes, emis, revoques, sortis, redis, instant>>
  BY <1>1, <1>3 DEF CheckRefresh
<1>5. q.session.jeton.compte \in Comptes /\ q.session.mdp \in 0..MaxMdp
  BY <1>2 DEF Typed, Jeton
<1>6. Typed(r) /\ Held(r)
  <2>1. CASE r = Idle
    BY <2>1 DEF Typed, Held, Idle
  <2>2. CASE r = [op |-> "issue", compte |-> q.session.jeton.compte, mdp |-> q.session.mdp]
    BY <1>2, <1>5, <2>2 DEF Typed, Held
  <2>. QED
    BY <1>3, <2>1, <2>2
<1>. QED
  BY <1>4, <1>6, RequestStep

\* A pair of tokens is issued.
LEMMA IssueStep ==
  ASSUME IInv, NEW w \in Workers, Issue(w)
  PROVE  IInv'
<1>1. PICK c \in Comptes, m \in 0..MaxMdp : c = req[w].compte /\ m = req[w].mdp /\ Proved(c, m)
  BY DEF Issue, IInv, Requests, Typed, Held
<1>2. UNCHANGED <<comptes, revoques, sortis, redis, instant>> /\ Done(w)
  BY DEF Issue
<1>3. \A e \in emis' : \/ e \in emis
                       \/ /\ e.jeton \in Jeton /\ e.mdp = m
                          /\ e.jeton.compte = c /\ e.jeton.iat = Second(instant)
  <2>1. Second(instant) \in Seconds
    BY SecondsFollow DEF IInv, Tables, TypeOK
  <2>. QED
    BY <1>1, <2>1 DEF Issue, TokenPair, Jeton
<1>4. TypeOK'
  BY <1>2, <1>3 DEF IInv, Tables, TypeOK
<1>5. Delivered'
  <2>1. comptes[c] # NULL => /\ m <= comptes[c].mdp
                             /\ comptes[c].depuis # NULL => comptes[c].depuis <= Second(instant)
    BY <1>1 DEF Proved, IInv, Tables, ValidFromPast
  <2>2. ASSUME NEW e \in emis'
        PROVE  comptes[e.jeton.compte] # NULL =>
                 /\ e.mdp <= comptes[e.jeton.compte].mdp
                 /\ e.mdp = comptes[e.jeton.compte].mdp =>
                      IssuedSince(e.jeton, comptes[e.jeton.compte])
    <3>1. CASE e \in emis
      BY <3>1 DEF IInv, Tables, Delivered
    <3>2. CASE e \notin emis
      BY <1>3, <2>1, <3>2 DEF IssuedSince
    <3>. QED
      BY <3>1, <3>2
  <2>. QED
    BY <1>2, <2>2 DEF Delivered, IssuedSince
<1>6. ValidFromPast'
  BY <1>2 DEF IInv, Tables, ValidFromPast
<1>7. Advances
  BY <1>2, TokensAssumption DEF IInv, Tables, TypeOK, Advances, Instants, Compte
<1>8. Kept'
  BY <1>2, <1>7, KeptOn
<1>. QED
  BY <1>2, <1>4, <1>5, <1>6, <1>7, <1>8, DoneStep DEF Tables

-----------------------------------------------------------------------------
(* Requests under a token *)

\* A token arrives.
LEMMA PresentStep ==
  ASSUME IInv, NEW w \in Workers, NEW e \in emis, NEW op \in {"logout", "change"},
         Present(w, e.jeton, op)
  PROVE  IInv'
<1>1. PICK r : r = [op |-> "present", jeton |-> e.jeton, pour |-> op]
  OBVIOUS
<1>2. Typed(r) /\ Held(r)
  BY <1>1 DEF Typed, Held, IInv, Tables, TypeOK
<1>3. req' = [req EXCEPT ![w] = r] /\ UNCHANGED <<comptes, emis, revoques, sortis, redis, instant>>
  BY <1>1 DEF Present, Arrive
<1>. QED
  BY <1>2, <1>3, RequestStep

\* get_current_user accepts or refuses the token.
LEMMA AuthenticateStep ==
  ASSUME IInv, NEW w \in Workers, Authenticate(w)
  PROVE  IInv'
<1>1. PICK j \in Jeton, op \in {"logout", "change"} : j = req[w].jeton /\ op = req[w].pour
  BY DEF Authenticate, IInv, Requests, Typed
<1>2. PICK r : r = IF /\ comptes[j.compte] # NULL /\ comptes[j.compte].actif
                      /\ IssuedSince(j, comptes[j.compte])
                   THEN [op |-> op, jeton |-> j] ELSE Idle
  OBVIOUS
<1>3. req' = [req EXCEPT ![w] = r] /\ UNCHANGED <<comptes, emis, revoques, sortis, redis, instant>>
  BY <1>1, <1>2 DEF Authenticate
<1>4. Typed(r) /\ Held(r)
  <2>1. CASE r = Idle
    BY <2>1 DEF Typed, Held, Idle
  <2>2. CASE r = [op |-> op, jeton |-> j]
    BY <2>2 DEF Typed, Held
  <2>. QED
    BY <1>2, <2>1, <2>2
<1>. QED
  BY <1>3, <1>4, RequestStep

\* The key of a revoked token expires in the token's last second.
LEMMA RevokedTyped ==
  ASSUME IInv, NEW J \in SUBSET Jeton, RevokeTokens(J)
  PROVE  \A k \in revoques' : k.jeton \in Jeton /\ k.fin \in Int /\ Second(k.fin) = Exp(k.jeton)
<1>1. ASSUME NEW j \in Jeton
      PROVE  /\ instant + Ttl(j) * PerSecond \in Int
             /\ Second(instant + Ttl(j) * PerSecond) = Exp(j)
  <2>1. instant \in Int /\ Exp(j) \in Int
    BY ExpIsSecond, TokensAssumption DEF IInv, Tables, TypeOK, Instants
  <2>2. Second(instant) \in Int
    BY <2>1, SecondsFollow
  <2>3. Ttl(j) \in Int /\ Second(instant) + Ttl(j) = Exp(j)
    BY <2>1, <2>2 DEF Ttl
  <2>4. instant + Ttl(j) * PerSecond \in Int
    BY <2>1, <2>3, TokensAssumption
  <2>. QED
    BY <2>1, <2>3, <2>4, SecondsFollow
<1>2. \A k \in revoques' :
        \/ k \in revoques
        \/ \E j \in J : k = [jeton |-> j, fin |-> instant + Ttl(j) * PerSecond]
  BY DEF RevokeTokens, Blacklist
<1>3. \A k \in revoques : k.jeton \in Jeton /\ k.fin \in Int /\ Second(k.fin) = Exp(k.jeton)
  BY DEF IInv, Tables, TypeOK
<1>. QED
  BY <1>1, <1>2, <1>3

\* A token that revoke_token was given has its key, or too little left to live.
LEMMA RevokedKept ==
  ASSUME IInv, NEW J \in SUBSET Jeton, RevokeTokens(J), UNCHANGED instant
  PROVE  Kept'
<1>1. PICK K : K = {j \in J : redis /\ Ttl(j) > 0}
  OBVIOUS
<1>2. /\ revoques' = {k \in revoques : k.jeton \notin K}
                       \cup {[jeton |-> j, fin |-> instant + Ttl(j) * PerSecond] : j \in K}
      /\ sortis' = IF redis THEN sortis \cup J ELSE sortis
  BY <1>1 DEF RevokeTokens, Blacklist
<1>3. ASSUME NEW j \in K PROVE \E k \in revoques' : k.jeton = j
  <2>1. PICK k : k = [jeton |-> j, fin |-> instant + Ttl(j) * PerSecond]
    OBVIOUS
  <2>2. k \in revoques' /\ k.jeton = j
    BY <1>2, <2>1
  <2>. QED
    BY <2>2
<1>4. \A k \in revoques : k \in revoques' \/ k.jeton \in K
  BY <1>2
<1>5. SUFFICES ASSUME NEW j \in sortis'
               PROVE  Exp(j) <= Second(instant) \/ \E k \in revoques' : k.jeton = j
  BY DEF Kept, Second, Exp
<1>6. CASE j \in sortis
  <2>1. Exp(j) <= Second(instant) \/ \E k \in revoques : k.jeton = j
    BY <1>6 DEF IInv, Tables, Kept
  <2>. QED
    BY <1>3, <1>4, <2>1
<1>7. CASE j \notin sortis
  <2>1. redis /\ j \in J
    BY <1>2, <1>7
  <2>2. CASE j \in K
    BY <1>3, <2>2
  <2>3. CASE j \notin K
    <3>1. ~(Ttl(j) > 0)
      BY <1>1, <2>1, <2>3
    <3>2. Exp(j) \in Int /\ Second(instant) \in Int
      BY <2>1, ExpIsSecond, NowIsSecond
    <3>. QED
      BY <3>1, <3>2 DEF Ttl
  <2>. QED
    BY <2>2, <2>3
<1>. QED
  BY <1>6, <1>7

\* A step that only tells Redis.
LEMMA RevokeStep ==
  ASSUME IInv, NEW w \in Workers, NEW r, NEW J \in SUBSET Jeton, RevokeTokens(J),
         req' = [req EXCEPT ![w] = r], Typed(r), Held(r),
         UNCHANGED <<comptes, emis, redis, instant>>
  PROVE  IInv'
<1>0. sortis' = IF redis THEN sortis \cup J ELSE sortis
  BY DEF RevokeTokens
<1>1. TypeOK'
  BY <1>0, RevokedTyped DEF IInv, Tables, TypeOK
<1>2. Delivered' /\ ValidFromPast'
  BY DEF IInv, Tables, Delivered, ValidFromPast, IssuedSince
<1>3. Advances
  BY TokensAssumption DEF IInv, Tables, TypeOK, Advances, Instants, Compte
<1>4. Typed(r)' /\ Held(r)'
  BY DEF Typed, Held, Proved
<1>5. Kept'
  BY RevokedKept
<1>. QED
  BY <1>1, <1>2, <1>3, <1>4, <1>5, RequestsKept DEF IInv, Tables

\* logout puts the token on the blacklist, if Redis is up.
LEMMA LogoutStep ==
  ASSUME IInv, NEW w \in Workers, NEW J \in SUBSET {e.jeton : e \in emis}, Logout(w, J)
  PROVE  IInv'
<1>1. PICK K \in SUBSET Jeton : K = {req[w].jeton} \cup J
  <2>1. req[w].jeton \in Jeton
    BY DEF Logout, IInv, Requests, Typed
  <2>2. J \subseteq Jeton
    BY DEF IInv, Tables, TypeOK
  <2>. QED
    BY <2>1, <2>2
<1>2. PICK r : r = Idle
  OBVIOUS
<1>3. Typed(r) /\ Held(r)
  BY <1>2 DEF Typed, Held, Idle
<1>4. /\ RevokeTokens(K) /\ req' = [req EXCEPT ![w] = r]
      /\ UNCHANGED <<comptes, emis, redis, instant>>
  BY <1>1, <1>2 DEF Logout, Done
<1>. QED
  BY <1>3, <1>4, RevokeStep

\* change_password has compared the old password.
LEMMA ChangePasswordStep ==
  ASSUME IInv, NEW w \in Workers, ChangePassword(w)
  PROVE  IInv'
<1>1. PICK j \in Jeton : j = req[w].jeton
  BY DEF ChangePassword, IInv, Requests, Typed
<1>2. PICK K \in SUBSET Jeton : K = {j}
  OBVIOUS
<1>3. PICK s : s = FromNow
  OBVIOUS
<1>4. s \in Seconds /\ s <= Second(instant)
  BY <1>3, NowIsSecond DEF FromNow
<1>5. PICK r : r = [op |-> "set", compte |-> j.compte, depuis |-> s, doit_changer |-> FALSE]
  OBVIOUS
<1>6. Typed(r) /\ Held(r)
  BY <1>4, <1>5 DEF Typed, Held, Jeton
<1>7. /\ RevokeTokens(K) /\ req' = [req EXCEPT ![w] = r]
      /\ UNCHANGED <<comptes, emis, redis, instant>>
  BY <1>1, <1>2, <1>3, <1>5 DEF ChangePassword
<1>. QED
  BY <1>6, <1>7, RevokeStep

-----------------------------------------------------------------------------
(* Changes of an account *)

\* A new password on its way.
LEMMA ResetStep ==
  ASSUME IInv, NEW w \in Workers, NEW c \in Comptes, NEW force \in BOOLEAN,
         Arrive(w, [op |-> "set", compte |-> c, depuis |-> FromNow, doit_changer |-> force])
  PROVE  IInv'
<1>1. PICK s : s = FromNow
  OBVIOUS
<1>2. s \in Seconds /\ s <= Second(instant)
  BY <1>1, NowIsSecond DEF FromNow
<1>3. PICK r : r = [op |-> "set", compte |-> c, depuis |-> s, doit_changer |-> force]
  OBVIOUS
<1>4. Typed(r) /\ Held(r)
  BY <1>2, <1>3 DEF Typed, Held
<1>5. req' = [req EXCEPT ![w] = r] /\ UNCHANGED <<comptes, emis, revoques, sortis, redis, instant>>
  BY <1>1, <1>3 DEF Arrive
<1>. QED
  BY <1>4, <1>5, RequestStep

\* An account after a COMMIT: the same password and the same moment, or a new
\* password and a moment that is past.
Follows(c, x) ==
  /\ comptes[c] # NULL /\ x \in Compte
  /\ \/ x.mdp = comptes[c].mdp /\ x.depuis = comptes[c].depuis
     \/ /\ x.mdp = comptes[c].mdp + 1
        /\ x.depuis # NULL => x.depuis <= Second(instant)

\* A write of the account that leaves the tokens as they are.
LEMMA AccountStep ==
  ASSUME IInv, NEW c \in Comptes, NEW x, Follows(c, x), comptes' = [comptes EXCEPT ![c] = x],
         UNCHANGED <<emis, revoques, sortis, redis, instant>>
  PROVE  Tables' /\ Advances
<1>1. /\ comptes \in [Comptes -> Compte \cup {NULL}] /\ instant \in Instants
      /\ \A e \in emis : e.jeton \in Jeton /\ e.jeton.compte \in Comptes /\ e.mdp \in 0..MaxMdp
  BY DEF IInv, Tables, TypeOK, Jeton
<1>2. \A d \in Comptes : comptes'[d] = IF d = c THEN x ELSE comptes[d]
  BY <1>1
<1>3. comptes[c] \in Compte /\ comptes[c].mdp \in 0..MaxMdp /\ x.mdp \in 0..MaxMdp
  BY <1>1 DEF Follows, Compte
<1>4. MaxMdp \in Nat
  BY TokensAssumption
<1>5. TypeOK'
  BY <1>1 DEF IInv, Tables, TypeOK, Follows
<1>6. Delivered'
  <2> SUFFICES ASSUME NEW e \in emis
               PROVE  comptes'[e.jeton.compte] # NULL =>
                        /\ e.mdp <= comptes'[e.jeton.compte].mdp
                        /\ e.mdp = comptes'[e.jeton.compte].mdp =>
                             IssuedSince(e.jeton, comptes'[e.jeton.compte])
    BY DEF Delivered, IssuedSince
  <2>1. comptes[e.jeton.compte] # NULL =>
          /\ e.mdp <= comptes[e.jeton.compte].mdp
          /\ e.mdp = comptes[e.jeton.compte].mdp => IssuedSince(e.jeton, comptes[e.jeton.compte])
    BY DEF IInv, Tables, Delivered
  <2>2. CASE e.jeton.compte # c
    BY <1>1, <1>2, <2>1, <2>2
  <2>3. CASE e.jeton.compte = c
    <3>1. e.mdp <= x.mdp /\ (e.mdp = x.mdp => x.depuis = comptes[c].depuis /\ e.mdp = comptes[c].mdp)
      BY <1>1, <1>3, <1>4, <2>1, <2>3 DEF Follows
    <3>2. e.mdp = x.mdp => IssuedSince(e.jeton, x)
      BY <2>1, <2>3, <3>1 DEF Follows, IssuedSince
    <3>. QED
      BY <1>2, <2>3, <3>1, <3>2
  <2>. QED
    BY <2>2, <2>3
<1>7. ValidFromPast'
  BY <1>2 DEF IInv, Tables, ValidFromPast, Follows
<1>8. Advances
  <2>1. \A d \in Comptes : comptes[d] # NULL => comptes[d].mdp \in Nat
    BY <1>1, <1>4 DEF Compte
  <2>2. x.mdp \in Nat /\ comptes[c].mdp <= x.mdp /\ instant \in Int
    BY <1>1, <1>3, <1>4, TokensAssumption DEF Follows, Instants
  <2>. QED
    BY <1>1, <1>2, <2>1, <2>2 DEF Advances, Follows
<1>9. Kept'
  BY <1>8, KeptOn
<1>. QED
  BY <1>5, <1>6, <1>7, <1>8, <1>9 DEF Tables

\* A new password commits, with tokens_valid_from.
LEMMA CommitPasswordStep ==
  ASSUME IInv, NEW w \in Workers, CommitPassword(w)
  PROVE  IInv'
<1>1. PICK c \in Comptes, s \in Seconds, f \in BOOLEAN :
        c = req[w].compte /\ s = req[w].depuis /\ f = req[w].doit_changer /\ s <= Second(instant)
  BY DEF CommitPassword, IInv, Requests, Typed
<1>2. PICK o : o = comptes[c]
  OBVIOUS
<1>3. PICK x : x = [o EXCEPT !.mdp = @ + 1, !.depuis = s, !.doit_changer = f]
  OBVIOUS
<1>4. /\ o # NULL /\ o.mdp < MaxMdp /\ comptes' = [comptes EXCEPT ![c] = x]
      /\ UNCHANGED <<emis, revoques, sortis, redis, instant>> /\ Done(w)
  BY <1>1, <1>2, <1>3 DEF CommitPassword
<1>5. o \in Compte
  BY <1>2, <1>4 DEF IInv, Tables, TypeOK
<1>6. x.mdp = o.mdp + 1 /\ x.mdp \in 0..MaxMdp /\ x.depuis = s
  BY <1>3, <1>4, <1>5, TokensAssumption DEF Compte
<1>7. x \in Compte
  BY <1>3, <1>5, <1>6 DEF Compte
<1>8. Follows(c, x)
  BY <1>1, <1>2, <1>4, <1>6, <1>7 DEF Follows
<1>. QED
  BY <1>4, <1>8, AccountStep, DoneStep

\* The dashboard sets a password.
LEMMA UpdatePasswordStep ==
  ASSUME IInv, NEW c \in Comptes, UpdatePassword(c)
  PROVE  IInv'
<1>1. PICK o : o = comptes[c]
  OBVIOUS
<1>2. PICK x : x = [o EXCEPT !.mdp = @ + 1]
  OBVIOUS
<1>3. /\ o # NULL /\ o.mdp < MaxMdp /\ comptes' = [comptes EXCEPT ![c] = x]
      /\ UNCHANGED <<emis, revoques, sortis, redis, instant>> /\ UNCHANGED req
  BY <1>1, <1>2 DEF UpdatePassword
<1>4. o \in Compte
  BY <1>1, <1>3 DEF IInv, Tables, TypeOK
<1>5. o.depuis # NULL => o.depuis <= Second(instant)
  BY <1>1, <1>3 DEF IInv, Tables, ValidFromPast
<1>6. Follows(c, x)
  BY <1>1, <1>2, <1>3, <1>4, <1>5, TokensAssumption DEF Follows, Compte
<1>7. Tables' /\ Advances
  BY <1>3, <1>6, AccountStep
<1>. QED
  BY <1>3, <1>7, AllRequestsKept DEF IInv

\* toggle_status has loaded the account.
LEMMA ReadToggleStep ==
  ASSUME IInv, NEW w \in Workers, NEW c \in Comptes, ReadToggle(w, c)
  PROVE  IInv'
<1>1. PICK r : r = [op |-> "toggle", compte |-> c, actif |-> ~comptes[c].actif]
  OBVIOUS
<1>2. req' = [req EXCEPT ![w] = r] /\ UNCHANGED <<comptes, emis, revoques, sortis, redis, instant>>
  BY <1>1 DEF ReadToggle, Arrive
<1>3. r.op = "toggle" /\ r.compte = c /\ r.actif \in BOOLEAN
  BY <1>1
<1>4. Typed(r) /\ Held(r)
  BY <1>3 DEF Typed, Held
<1>. QED
  BY <1>2, <1>4, RequestStep

\* The status commits.
LEMMA CommitToggleStep ==
  ASSUME IInv, NEW w \in Workers, CommitToggle(w)
  PROVE  IInv'
<1>1. PICK c \in Comptes, a \in BOOLEAN : c = req[w].compte /\ a = req[w].actif
  BY DEF CommitToggle, IInv, Requests, Typed
<1>2. PICK o : o = comptes[c]
  OBVIOUS
<1>3. PICK x : x = [o EXCEPT !.actif = a]
  OBVIOUS
<1>4. /\ o # NULL /\ comptes' = [comptes EXCEPT ![c] = x]
      /\ UNCHANGED <<emis, revoques, sortis, redis, instant>> /\ Done(w)
  BY <1>1, <1>2, <1>3 DEF CommitToggle
<1>5. o \in Compte
  BY <1>2, <1>4 DEF IInv, Tables, TypeOK
<1>6. Follows(c, x)
  BY <1>1, <1>2, <1>3, <1>4, <1>5 DEF Follows, Compte
<1>. QED
  BY <1>4, <1>6, AccountStep, DoneStep

\* The account is deleted.
LEMMA DeleteUserStep ==
  ASSUME IInv, NEW c \in Comptes, DeleteUser(c)
  PROVE  IInv'
<1>1. /\ comptes' = [comptes EXCEPT ![c] = NULL]
      /\ UNCHANGED <<emis, revoques, sortis, redis, instant>> /\ UNCHANGED req
  BY DEF DeleteUser
<1>2. comptes \in [Comptes -> Compte \cup {NULL}]
  BY DEF IInv, Tables, TypeOK
<1>3. \A d \in Comptes : comptes'[d] # NULL => d # c /\ comptes'[d] = comptes[d]
  BY <1>1, <1>2
<1>4. \A e \in emis : e.jeton.compte \in Comptes
  BY DEF IInv, Tables, TypeOK, Jeton
<1>5. TypeOK'
  BY <1>1, <1>2 DEF IInv, Tables, TypeOK
<1>6. Delivered' /\ ValidFromPast'
  BY <1>1, <1>3, <1>4 DEF IInv, Tables, Delivered, ValidFromPast, IssuedSince
<1>7. Advances
  BY <1>1, <1>2, <1>3, TokensAssumption DEF IInv, Tables, TypeOK, Advances, Instants, Compte
<1>8. Kept'
  BY <1>1, <1>7, KeptOn
<1>. QED
  BY <1>1, <1>5, <1>6, <1>7, <1>8, AllRequestsKept DEF IInv, Tables

\* A request ends without effect.
LEMMA RollbackStep ==
  ASSUME IInv, NEW w \in Workers, Rollback(w)
  PROVE  IInv'
<1>1. Tables' /\ Advances
  BY TablesKept DEF Rollback
<1>. QED
  BY <1>1, DoneStep DEF Rollback

-----------------------------------------------------------------------------
(* The environment *)

\* Redis goes down, is back, or evicts a key.
LEMMA RedisStep ==
  ASSUME IInv, RedisFails \/ RedisReturns \/ \E t \in revoques : Evict(t.jeton)
  PROVE  IInv'
<1>1. /\ UNCHANGED <<comptes, emis, instant, req>> /\ redis' \in BOOLEAN
      /\ revoques' \subseteq revoques /\ sortis' \subseteq sortis
  BY DEF RedisFails, RedisReturns, Evict, IInv, Tables, TypeOK
<1>2. \A k \in revoques : k \in revoques' \/ k.jeton \notin sortis'
  BY DEF RedisFails, RedisReturns, Evict
<1>3. TypeOK' /\ Delivered' /\ ValidFromPast'
  BY <1>1 DEF IInv, Tables, TypeOK, Delivered, ValidFromPast, IssuedSince
<1>4. Kept'
  BY <1>1, <1>2 DEF IInv, Tables, Kept
<1>5. Advances
  BY <1>1, TokensAssumption DEF IInv, Tables, TypeOK, Advances, Instants, Compte
<1>. QED
  BY <1>1, <1>3, <1>4, <1>5, AllRequestsKept DEF IInv, Tables

\* A second passes.
LEMMA TickStep ==
  ASSUME IInv, Tick
  PROVE  IInv'
<1>1. UNCHANGED <<comptes, emis, revoques, sortis, redis>> /\ UNCHANGED req
  BY DEF Tick
<1>2. instant' \in Instants /\ instant \in Int /\ instant' \in Int /\ instant <= instant'
  BY TokensAssumption DEF Tick, IInv, Tables, TypeOK, Instants
<1>3. TypeOK'
  BY <1>1, <1>2 DEF IInv, Tables, TypeOK
<1>4. Delivered'
  BY <1>1 DEF IInv, Tables, Delivered, IssuedSince
<1>5. ValidFromPast'
  <2> SUFFICES ASSUME NEW c \in Comptes, comptes[c] # NULL, comptes[c].depuis # NULL
               PROVE  comptes[c].depuis <= Second(instant')
    BY <1>1 DEF ValidFromPast
  <2>1. comptes[c].depuis \in Int /\ comptes[c].depuis <= Second(instant)
    BY SecondsFollow DEF IInv, Tables, TypeOK, ValidFromPast, Compte
  <2>2. Second(instant) \in Int /\ Second(instant') \in Int /\ Second(instant) <= Second(instant')
    BY <1>2, SecondsFollow
  <2>. QED
    BY <2>1, <2>2
<1>6. Advances
  BY <1>1, <1>2, TokensAssumption DEF IInv, Tables, TypeOK, Advances, Compte
<1>7. Kept'
  BY <1>1, <1>6, KeptOn
<1>. QED
  BY <1>1, <1>3, <1>4, <1>5, <1>6, <1>7, AllRequestsKept DEF IInv, Tables

-----------------------------------------------------------------------------
(* The theorems *)

\* At first there is no token.
LEMMA InitInv == Init => IInv
<1> SUFFICES ASSUME Init PROVE IInv
  OBVIOUS
<1>1. TypeOK
  BY TokensAssumption DEF Init, TypeOK, Instants, Compte
<1>2. Delivered /\ ValidFromPast /\ Kept
  BY DEF Init, Delivered, ValidFromPast, Kept
<1>3. Requests
  BY DEF Init, Requests, Typed, Held, Idle
<1>. QED
  BY <1>1, <1>2, <1>3 DEF IInv, Tables

\* Every step keeps the invariant.
LEMMA NextInv == IInv /\ [Next]_vars => IInv'
<1> SUFFICES ASSUME IInv, [Next]_vars PROVE IInv'
  OBVIOUS
<1>1. ASSUME NEW w \in Workers, NEW c \in Comptes,
             \/ ReadLogin(w, c) \/ ReadToggle(w, c) \/ ResetPassword(w, c)
             \/ \E force \in Forces : AdminResetPassword(w, c, force)
      PROVE  IInv'
  <2>1. CASE ReadLogin(w, c) \/ ReadToggle(w, c)
    BY <2>1, ReadLoginStep, ReadToggleStep
  <2>2. CASE ResetPassword(w, c)
    BY <2>2, ResetStep DEF ResetPassword
  <2>3. CASE \E force \in Forces : AdminResetPassword(w, c, force)
    <3>1. PICK force \in BOOLEAN : AdminResetPassword(w, c, force)
      BY <2>3, TokensAssumption
    <3>. QED
      BY <3>1, ResetStep DEF AdminResetPassword
  <2>. QED
    BY <1>1, <2>1, <2>2, <2>3
<1>2. ASSUME NEW w \in Workers, NEW e \in emis,
             \/ ReadRefresh(w, e)
             \/ \E op \in {"logout", "change"} : Present(w, e.jeton, op)
      PROVE  IInv'
  BY <1>2, ReadRefreshStep, PresentStep
<1>3. ASSUME NEW w \in Workers,
             \/ CheckRefresh(w) \/ Issue(w) \/ Authenticate(w)
             \/ \E J \in SUBSET {e.jeton : e \in emis} : Logout(w, J)
             \/ ChangePassword(w) \/ CommitPassword(w) \/ CommitToggle(w) \/ Rollback(w)
      PROVE  IInv'
  BY <1>3, CheckRefreshStep, IssueStep, AuthenticateStep, LogoutStep, ChangePasswordStep,
     CommitPasswordStep, CommitToggleStep, RollbackStep
<1>4. ASSUME NEW c \in Comptes, UpdatePassword(c) \/ DeleteUser(c)
      PROVE  IInv'
  BY <1>4, UpdatePasswordStep, DeleteUserStep
<1>5. CASE RedisFails \/ RedisReturns \/ Tick \/ \E k \in revoques : Evict(k.jeton)
  BY <1>5, RedisStep, TickStep
<1>6. CASE UNCHANGED vars
  <2>1. UNCHANGED <<comptes, emis, revoques, sortis, redis, instant>> /\ UNCHANGED req
    BY <1>6 DEF vars
  <2>2. Tables' /\ Advances
    BY <2>1, TablesKept
  <2>. QED
    BY <2>1, <2>2, AllRequestsKept DEF IInv
<1>. QED
  BY <1>1, <1>2, <1>3, <1>4, <1>5, <1>6 DEF Next

\* The inductive invariant holds in every behaviour.
THEOREM Invariant == Spec => []IInv
  BY InitInv, NextInv, PTL DEF Spec

\* Every table keeps its type, and a revoked token's key expires in its last second.
THEOREM TokensTypes == Spec => []TypeOK
<1>1. IInv => TypeOK
  BY DEF IInv, Tables
<1>. QED
  BY <1>1, Invariant, PTL

\* A token of the present password is refused only when it is revoked or over, or its
\* account switched off, however the grain of the clock cuts the requests.
THEOREM NobodySentAway == Spec => []NoSpuriousRefusal
<1>1. IInv => NoSpuriousRefusal
  BY DEF IInv, Tables, Delivered, NoSpuriousRefusal, Accepted, Decodes
<1>. QED
  BY <1>1, Invariant, PTL

\* What was logged out while Redis answered is refused whenever Redis answers, until its
\* last second, unless Redis has lost or evicted the key.
THEOREM LogoutsLast == Spec => []LoggedOutRefused
<1>1. IInv => LoggedOutRefused
  <2> SUFFICES ASSUME IInv, redis, NEW j \in sortis, Accepted(j)
               PROVE  Exp(j) <= Second(instant)
    BY DEF LoggedOutRefused
  <2>1. CASE \E k \in revoques : k.jeton = j
    <3>1. PICK k \in revoques : k.jeton = j
      BY <2>1
    <3>2. Second(k.fin) = Exp(j) /\ k.fin \in Int /\ instant \in Int
      BY <3>1, TokensAssumption DEF IInv, Tables, TypeOK, Instants
    <3>3. ~(instant < k.fin)
      BY <3>1 DEF Accepted, Revoked
    <3>4. k.fin <= instant
      BY <3>2, <3>3
    <3>. QED
      BY <3>2, <3>4, SecondsFollow
  <2>2. CASE ~\E k \in revoques : k.jeton = j
    BY <2>2 DEF IInv, Tables, Kept
  <2>. QED
    BY <2>1, <2>2
<1>. QED
  BY <1>1, Invariant, PTL
=============================================================================
