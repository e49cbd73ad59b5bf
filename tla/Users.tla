-------------------------------- MODULE Users --------------------------------
(***************************************************************************)
(* Users and their sessions: the users table, Login, Refresh, CreateUser,  *)
(* and the tokens JWTManager signs on one replica and validates on any     *)
(* other.  A tick is the second a token's dates are truncated to.          *)
(***************************************************************************)
EXTENDS Integers

CONSTANTS Replica,     \* processes of the server, one secret, own clocks
          Client,      \* clients, each with at most one session
          UserId,      \* user UUIDs
          Username, Email, Role,
          Admin,       \* the id of the seeded row
          None,        \* no row, no session
          AccessTTL,   \* cfg.Auth.AccessTokenTTL
          RefreshTTL,  \* cfg.Auth.RefreshTokenTTL
          MaxSkew,     \* how far two replicas' clocks may differ
          MaxTime,     \* bound: ticks
          MaxFaults    \* bound: statements that fail

ASSUME UsersAssumption ==
    /\ Admin \in UserId
    /\ None \notin UserId \cup Replica
    /\ AccessTTL \in Nat /\ RefreshTTL \in Nat
    /\ MaxSkew \in Nat /\ MaxTime \in Nat /\ MaxFaults \in Nat

VARIABLES users,    \* table users
          now,      \* the time
          skew,     \* how much the clock of each replica is ahead of it
          session,  \* the token pair each client holds
          since,    \* history: the time each client got its pair
          answer,   \* history: the last step's answer to CreateUser, if it gave one
          faults    \* failed statements so far

uvars == <<users, now, skew, session, since, answer, faults>>

\* access_key_id is the seeded user's own, or the empty string.
UserRow == [username : Username, email : Email, role : Role,
            key : {"seeded", ""}]

ASSUME RowAssumption == None \notin UserRow

\* Policies, which no query loads, is always empty.
Claims == [user : UserId, username : Username, role : Role]

Token == [claims : Claims, notBefore : Nat, expires : Nat]

UInit ==
    /\ \E n \in Username, e \in Email, p \in Role :
        users = [u \in UserId |->
            IF u = Admin
            THEN [username |-> n, email |-> e, role |-> p, key |-> "seeded"]
            ELSE None]
    /\ now = 0
    /\ skew \in [Replica -> 0 .. MaxSkew]
    /\ session = [c \in Client |-> None]
    /\ since = [c \in Client |-> 0]
    /\ answer = None
    /\ faults = 0

Clock(r) == now + skew[r]

NoFault == UNCHANGED faults

Fault == faults < MaxFaults /\ faults' = faults + 1

-----------------------------------------------------------------------------
(* JWTManager *)

Signed(claims, issued, ttl) ==
    [claims |-> claims, notBefore |-> issued, expires |-> issued + ttl]

(* Mutated form of GenerateTokenPair: the two lifetimes are swapped. *)
GenerateSwapped(claims, issued) ==
    [access  |-> Signed(claims, issued, RefreshTTL),
     refresh |-> Signed(claims, issued, AccessTTL)]

GenerateTokenPair(claims, issued) ==
    [access  |-> Signed(claims, issued, AccessTTL),
     refresh |-> Signed(claims, issued, RefreshTTL)]

(* Mutated form of RefreshToken: two of the three strings are swapped. *)
RefreshSwapped(token, issued) ==
    GenerateTokenPair([user |-> token.claims.user, username |-> token.claims.role,
                       role |-> token.claims.username], issued)

\* The new pair repeats the claims of the old one.
RefreshToken(token, issued) == GenerateTokenPair(token.claims, issued)

\* The signature of a token the server signed is right; its dates are checked
\* against the clock of the replica that validates it.
ValidateToken(r, token) ==
    token.notBefore <= Clock(r) /\ Clock(r) < token.expires

-----------------------------------------------------------------------------
(* Handlers *)

\* UserRepository.GetByUsername finds the row; no user is ever disabled.
HasRow(u) == users[u] # None

\* UserRepository.Create.
Create(u, row) == users' = [users EXCEPT ![u] = row]

ClaimsOf(u) ==
    [user |-> u, username |-> users[u].username, role |-> users[u].role]

Opened(c, pair) ==
    /\ session' = [session EXCEPT ![c] = pair]
    /\ since' = [since EXCEPT ![c] = now]

\* The right password of a user whose row is found.
Login(c, r) ==
    /\ \E u \in UserId :
        HasRow(u) /\ Opened(c, GenerateTokenPair(ClaimsOf(u), Clock(r)))
    /\ answer' = None
    /\ NoFault
    /\ UNCHANGED <<users, now, skew>>

\* Any failure, the database's included, is "invalid credentials".
LoginRefused(c) ==
    /\ NoFault \/ Fault
    /\ answer' = None
    /\ UNCHANGED <<users, now, skew, session, since>>

\* The table users is not read.
Refresh(c, r) ==
    /\ session[c] # None
    /\ ValidateToken(r, session[c].refresh)
    /\ Opened(c, RefreshToken(session[c].refresh, Clock(r)))
    /\ answer' = None
    /\ NoFault
    /\ UNCHANGED <<users, now, skew>>

\* 401: the client has to log in again.
RefreshRefused(c, r) ==
    /\ session[c] # None
    /\ ~ValidateToken(r, session[c].refresh)
    /\ session' = [session EXCEPT ![c] = None]
    /\ answer' = None
    /\ NoFault
    /\ UNCHANGED <<users, now, skew, since>>

\* Logout does nothing in the server: the client forgets its pair.
Logout(c) ==
    /\ session[c] # None
    /\ session' = [session EXCEPT ![c] = None]
    /\ answer' = None
    /\ NoFault
    /\ UNCHANGED <<users, now, skew, since>>

\* username, email and access_key_id are UNIQUE, and an empty access_key_id is
\* a string like any other.
Conflict(row) ==
    \E u \in UserId : HasRow(u) /\
        \/ users[u].username = row.username
        \/ users[u].email = row.email
        \/ users[u].key = row.key

\* The row CreateUser builds: it sets no access key.
NewUser(n, e, p) == [username |-> n, email |-> e, role |-> p, key |-> ""]

Answered(row, code) == answer' = [row |-> row, code |-> code]

\* WithAuth lets the request of a valid access token through.  Every error of
\* the INSERT, a conflict or not, is the answer 409.
CreateUser(c, r) ==
    /\ session[c] # None /\ ValidateToken(r, session[c].access)
    /\ \E u \in UserId, n \in Username, e \in Email, p \in Role :
        LET row == NewUser(n, e, p)
        IN /\ ~HasRow(u)
           /\ \/ ~Conflict(row) /\ Create(u, row) /\ Answered(row, 201) /\ NoFault
              \/ Conflict(row) /\ UNCHANGED users /\ Answered(row, 409) /\ NoFault
              \/ /\ UNCHANGED users \/ (~Conflict(row) /\ Create(u, row))
                 /\ Answered(row, 409) /\ Fault
    /\ UNCHANGED <<now, skew, session, since>>

\* The access token has expired, or is not valid yet by this clock: 401.
Unauthorized(c, r) ==
    /\ session[c] # None /\ ~ValidateToken(r, session[c].access)
    /\ answer' = None
    /\ NoFault
    /\ UNCHANGED <<users, now, skew, session, since>>

Tick ==
    /\ now < MaxTime
    /\ now' = now + 1
    /\ answer' = None
    /\ NoFault
    /\ UNCHANGED <<users, skew, session, since>>

UNext ==
    \/ \E c \in Client :
        \/ LoginRefused(c) \/ Logout(c)
        \/ \E r \in Replica :
            Login(c, r) \/ Refresh(c, r) \/ RefreshRefused(c, r)
            \/ CreateUser(c, r) \/ Unauthorized(c, r)
    \/ Tick

USpec == UInit /\ [][UNext]_uvars

-----------------------------------------------------------------------------
(* Type invariant *)

UsersTypeOK ==
    /\ users \in [UserId -> UserRow \cup {None}]
    /\ users[Admin] # None
    /\ now \in Nat
    /\ skew \in [Replica -> 0 .. MaxSkew]
    /\ session \in [Client -> [access : Token, refresh : Token] \cup {None}]
    /\ since \in [Client -> Nat]
    /\ faults \in Nat

-----------------------------------------------------------------------------
(* Properties *)

\* The claims of every token, refreshed any number of times without a look at
\* users, are still those of the user's row: no handler changes or removes a
\* row, and a second CreateUser of a name does not replace the first.
ClaimsCurrent ==
    \A c \in Client : session[c] # None =>
        LET claims == session[c].refresh.claims
        IN /\ session[c].access.claims = claims
           /\ users[claims.user] # None
           /\ claims = ClaimsOf(claims.user)

\* With clocks that differ by MaxSkew, every replica accepts a pair from
\* MaxSkew after it was signed until MaxSkew before it expires, whichever
\* replica signed it: a client that refreshes in time stays logged in.
SessionKept ==
    \A c \in Client, r \in Replica :
        session[c] # None /\ since[c] + MaxSkew <= now =>
            /\ now + MaxSkew < since[c] + AccessTTL =>
                ValidateToken(r, session[c].access)
            /\ now + MaxSkew < since[c] + RefreshTTL =>
                ValidateToken(r, session[c].refresh)

\* The answer "username or email already exists" is given when one of the two
\* is taken, or a statement has failed.
ConflictIsOfNames ==
    answer # None /\ answer.code = 409 /\ faults = 0 =>
        \E u \in UserId : users[u] # None /\
            \/ users[u].username = answer.row.username
            \/ users[u].email = answer.row.email
=============================================================================
