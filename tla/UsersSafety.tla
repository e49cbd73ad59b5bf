----------------------------- MODULE UsersSafety ----------------------------
(***************************************************************************)
(* Sessions and users, for any number of clients, replicas and users and   *)
(* any lifetimes and skew of the clocks.                                   *)
(***************************************************************************)
EXTENDS Users, TLAPS

\* What a pair's dates say about the time the client got it: it was signed by
\* a clock that was at most MaxSkew ahead.
SignedOnce(c) ==
    \E d \in 0 .. MaxSkew :
        /\ session[c].access.notBefore = since[c] + d
        /\ session[c].access.expires = since[c] + d + AccessTTL
        /\ session[c].refresh.notBefore = since[c] + d
        /\ session[c].refresh.expires = since[c] + d + RefreshTTL

DatesOK == \A c \in Client : session[c] # None => SignedOnce(c)

\* The inductive invariant.
UInv == UsersTypeOK /\ ClaimsCurrent /\ DatesOK

LEMMA UInitInv == UInit => UInv
  <1> SUFFICES ASSUME UInit PROVE UInv
    OBVIOUS
  <1> USE DEF UInit
  <1>1. UsersTypeOK
    <2>1. PICK n \in Username, e \in Email, p \in Role :
            users = [u \in UserId |->
                IF u = Admin
                THEN [username |-> n, email |-> e, role |-> p, key |-> "seeded"]
                ELSE None]
      OBVIOUS
    <2>2. [username |-> n, email |-> e, role |-> p, key |-> "seeded"] \in UserRow
      BY DEF UserRow
    <2>3. users \in [UserId -> UserRow \cup {None}] /\ users[Admin] # None
      BY <2>1, <2>2, UsersAssumption, RowAssumption
    <2> QED
      BY <2>3 DEF UsersTypeOK
  <1>2. ClaimsCurrent /\ DatesOK
    BY DEF ClaimsCurrent, DatesOK
  <1> QED
    BY <1>1, <1>2 DEF UInv

-----------------------------------------------------------------------------
(* Steps *)

\* A client is given a pair with claims that are current.
LEMMA OpenedInv ==
    ASSUME UInv, NEW c \in Client, NEW r \in Replica, NEW claims \in Claims,
           Opened(c, GenerateTokenPair(claims, Clock(r))),
           users[claims.user] # None, claims = ClaimsOf(claims.user),
           UNCHANGED <<users, now, skew, faults>>
    PROVE  UInv'
  <1> DEFINE pair == GenerateTokenPair(claims, Clock(r))
  <1> USE DEF UInv
  <1>1. now \in Nat /\ skew[r] \in 0 .. MaxSkew /\ skew[r] \in Nat
    BY UsersAssumption DEF UsersTypeOK
  <1>2. /\ pair.access.claims = claims /\ pair.refresh.claims = claims
        /\ pair.access.notBefore = now + skew[r]
        /\ pair.access.expires = now + skew[r] + AccessTTL
        /\ pair.refresh.notBefore = now + skew[r]
        /\ pair.refresh.expires = now + skew[r] + RefreshTTL
    BY DEF GenerateTokenPair, Signed, Clock
  <1>3. pair \in [access : Token, refresh : Token]
    BY <1>1, UsersAssumption DEF GenerateTokenPair, Signed, Token, Clock
  <1>4. /\ session'[c] = pair /\ since'[c] = now
        /\ \A d \in Client : d # c => session'[d] = session[d] /\ since'[d] = since[d]
    BY DEF Opened, UsersTypeOK
  <1>5. UsersTypeOK'
    BY <1>1, <1>3 DEF UsersTypeOK, Opened
  <1>6. ClaimsCurrent'
    BY <1>2, <1>4 DEF ClaimsCurrent, ClaimsOf
  <1>7. DatesOK'
    BY <1>1, <1>2, <1>4 DEF DatesOK, SignedOnce
  <1> QED
    BY <1>5, <1>6, <1>7

LEMMA LoginInv ==
    ASSUME UInv, NEW c \in Client, NEW r \in Replica, Login(c, r)
    PROVE  UInv'
  <1>1. PICK u \in UserId :
            users[u] # None /\ Opened(c, GenerateTokenPair(ClaimsOf(u), Clock(r)))
    BY DEF Login, HasRow
  <1>2. ClaimsOf(u) \in Claims /\ ClaimsOf(u).user = u
    BY <1>1 DEF ClaimsOf, Claims, UInv, UsersTypeOK, UserRow
  <1> QED
    BY <1>1, <1>2, OpenedInv DEF Login, NoFault

LEMMA RefreshInv ==
    ASSUME UInv, NEW c \in Client, NEW r \in Replica, Refresh(c, r)
    PROVE  UInv'
  <1> DEFINE claims == session[c].refresh.claims
  <1>1. session[c] # None /\ Opened(c, GenerateTokenPair(claims, Clock(r)))
    BY DEF Refresh, RefreshToken
  <1>2. claims \in Claims
    BY <1>1 DEF UInv, UsersTypeOK, Token
  <1>3. users[claims.user] # None /\ claims = ClaimsOf(claims.user)
    BY <1>1 DEF UInv, ClaimsCurrent
  <1> QED
    BY <1>1, <1>2, <1>3, OpenedInv DEF Refresh, NoFault

\* A row is inserted under an id that had none.
LEMMA InsertInv ==
    ASSUME UInv, NEW u \in UserId, NEW row \in UserRow, users[u] = None,
           users' = [users EXCEPT ![u] = row],
           faults' \in Nat, UNCHANGED <<now, skew, session, since>>
    PROVE  UInv'
  <1> USE DEF UInv
  <1>1. u # Admin
    BY DEF UsersTypeOK
  <1>3. /\ users'[u] = row
        /\ \A v \in UserId : v # u => users'[v] = users[v]
    BY DEF UsersTypeOK
  <1>4. UsersTypeOK'
    BY <1>1, <1>3, UsersAssumption DEF UsersTypeOK
  <1>5. ClaimsCurrent'
    <2> SUFFICES ASSUME NEW c \in Client, session[c] # None
                 PROVE  /\ session[c].access.claims = session[c].refresh.claims
                        /\ users'[session[c].refresh.claims.user] # None
                        /\ session[c].refresh.claims = ClaimsOf(session[c].refresh.claims.user)'
      BY DEF ClaimsCurrent
    <2> DEFINE owner == session[c].refresh.claims.user
    <2>1. owner \in UserId
      BY DEF UsersTypeOK, Token, Claims
    <2>2. /\ session[c].access.claims = session[c].refresh.claims
          /\ users[owner] # None
          /\ session[c].refresh.claims = ClaimsOf(owner)
      BY DEF ClaimsCurrent
    <2>3. users'[owner] = users[owner]
      BY <1>3, <2>1, <2>2
    <2> QED
      BY <2>2, <2>3 DEF ClaimsOf
  <1>6. DatesOK'
    BY DEF DatesOK, SignedOnce
  <1> QED
    BY <1>4, <1>5, <1>6

\* A step that leaves the table alone and gives or takes no pair, except that
\* the client c may forget its own.
LEMMA QuietInv ==
    ASSUME UInv, UNCHANGED <<users, skew, since>>, now' \in Nat, faults' \in Nat,
           \/ session' = session
           \/ \E c \in Client : session' = [session EXCEPT ![c] = None]
    PROVE  UInv'
  <1> USE DEF UInv
  <1>1. \A c \in Client : session'[c] \in {session[c], None}
    BY DEF UsersTypeOK
  <1>2. UsersTypeOK'
    BY DEF UsersTypeOK
  <1>3. ClaimsCurrent'
    BY <1>1 DEF ClaimsCurrent, ClaimsOf
  <1>4. DatesOK'
    BY <1>1 DEF DatesOK, SignedOnce
  <1> QED
    BY <1>2, <1>3, <1>4

LEMMA CreateUserInv ==
    ASSUME UInv, NEW c \in Client, NEW r \in Replica, CreateUser(c, r)
    PROVE  UInv'
  <1>1. PICK u \in UserId, n \in Username, e \in Email, p \in Role :
            /\ users[u] = None
            /\ users' = [users EXCEPT ![u] = NewUser(n, e, p)] \/ UNCHANGED users
    BY DEF CreateUser, Create, HasRow
  <1>2. NewUser(n, e, p) \in UserRow
    BY DEF NewUser, UserRow
  <1>3. now \in Nat /\ faults' \in Nat /\ UNCHANGED <<now, skew, session, since>>
    BY DEF CreateUser, NoFault, Fault, UInv, UsersTypeOK
  <1> QED
    BY <1>1, <1>2, <1>3, InsertInv, QuietInv

LEMMA UNextInv == UInv /\ [UNext]_uvars => UInv'
  <1> SUFFICES ASSUME UInv, [UNext]_uvars PROVE UInv'
    OBVIOUS
  <1>1. now \in Nat /\ faults \in Nat
    BY DEF UInv, UsersTypeOK
  <1>2. ASSUME NEW c \in Client, NEW r \in Replica,
               Login(c, r) \/ Refresh(c, r) \/ CreateUser(c, r)
        PROVE  UInv'
    BY <1>2, LoginInv, RefreshInv, CreateUserInv
  <1>3. ASSUME NEW c \in Client, LoginRefused(c) \/ Logout(c) PROVE UInv'
    BY <1>1, <1>3, QuietInv DEF LoginRefused, Logout, NoFault, Fault
  <1>4. ASSUME NEW c \in Client, NEW r \in Replica, RefreshRefused(c, r) \/ Unauthorized(c, r)
        PROVE  UInv'
    BY <1>1, <1>4, QuietInv DEF RefreshRefused, Unauthorized, NoFault
  <1>5. CASE Tick
    BY <1>1, <1>5, QuietInv DEF Tick, NoFault
  <1>6. CASE UNCHANGED uvars
    BY <1>6 DEF uvars, UInv, UsersTypeOK, ClaimsCurrent, ClaimsOf, DatesOK, SignedOnce
  <1> QED
    BY <1>2, <1>3, <1>4, <1>5, <1>6 DEF UNext

LEMMA UInvariance == USpec => []UInv
  BY UInitInv, UNextInv, PTL DEF USpec

-----------------------------------------------------------------------------
(* Theorems *)

\* Every variable of Users has its type.
THEOREM UsersTyped == USpec => []UsersTypeOK
  <1>1. UInv => UsersTypeOK
    BY DEF UInv
  <1> QED
    BY <1>1, UInvariance, PTL

\* A token's claims are those of its user's row, however often it was
\* refreshed without a look at the table.
THEOREM ClaimsStayCurrent == USpec => []ClaimsCurrent
  <1>1. UInv => ClaimsCurrent
    BY DEF UInv
  <1> QED
    BY <1>1, UInvariance, PTL

\* Whatever the replicas' clocks, within MaxSkew, a pair works on all of them
\* from MaxSkew after it was signed until MaxSkew before it expires.
THEOREM SessionsKept == USpec => []SessionKept
  <1>1. UInv => SessionKept
    <2> SUFFICES ASSUME UInv, NEW c \in Client, NEW r \in Replica,
                        session[c] # None, since[c] + MaxSkew <= now
                 PROVE  /\ now + MaxSkew < since[c] + AccessTTL =>
                            ValidateToken(r, session[c].access)
                        /\ now + MaxSkew < since[c] + RefreshTTL =>
                            ValidateToken(r, session[c].refresh)
      BY DEF SessionKept
    <2>1. PICK d \in 0 .. MaxSkew :
            /\ session[c].access.notBefore = since[c] + d
            /\ session[c].access.expires = since[c] + d + AccessTTL
            /\ session[c].refresh.notBefore = since[c] + d
            /\ session[c].refresh.expires = since[c] + d + RefreshTTL
      BY DEF UInv, DatesOK, SignedOnce
    <2>2. /\ now \in Nat /\ since[c] \in Nat /\ skew[r] \in 0 .. MaxSkew
          /\ MaxSkew \in Nat /\ AccessTTL \in Nat /\ RefreshTTL \in Nat
      BY UsersAssumption DEF UInv, UsersTypeOK
    <2> QED
      BY <2>1, <2>2 DEF ValidateToken, Clock
  <1> QED
    BY <1>1, UInvariance, PTL
=============================================================================
