--------------------------------- MODULE Auth ---------------------------------
(***************************************************************************)
(* Accounts and sessions (apps/api/src/auth, apps/api/src/users): the      *)
(* tables users and refresh_tokens.  A session is a chain of refresh       *)
(* tokens, each exchanged for the next; a client may repeat a call, so a   *)
(* token it has ever been given can come in again.  A step is one database *)
(* statement; a call turned down by its first one is not a step.           *)
(***************************************************************************)
EXTENDS Naturals, FiniteSets

CONSTANTS Emails, Usernames,
          Profiles,          \* Google accounts
          ProfileEmail,      \* Google account -> its e-mail
          ProfileUsername,   \* Google account -> the name made of its display name
          NoProfile,         \* googleId of a user who never came from Google
          Calls,             \* slots for calls in progress at the same time
          MaxUsers, MaxTokens   \* bounds on the rows ever inserted

\* Google has one account for an e-mail.
ASSUME ProfilesAssumption ==
  /\ ProfileEmail \in [Profiles -> Emails]
  /\ \A p, q \in Profiles : ProfileEmail[p] = ProfileEmail[q] => p = q
  /\ ProfileUsername \in [Profiles -> Usernames]
  /\ NoProfile \notin Profiles

ASSUME BoundsAssumption == MaxUsers \in Nat /\ MaxTokens \in Nat

VARIABLES
  users,          \* rows; email, username and googleId are @unique
  refreshTokens,  \* rows
  call,           \* call slot -> what the call is about to do
  issued,         \* history: token id -> the token it came from, 0 for a sign-in,
                  \* and the first token of its session
  loggedOut,      \* history: tokens a logout has removed
  signedIn        \* history: pairs <<profile, user id>> of Google sign-ins

vars == <<users, refreshTokens, call, issued, loggedOut, signedIn>>

Idle == [step |-> "idle"]

User == [id : 1..MaxUsers, email : Emails, username : Usernames,
         googleId : Profiles \cup {NoProfile}, password : BOOLEAN]

RefreshToken == [id : 1..MaxTokens, userId : 1..MaxUsers, expired : BOOLEAN]

AuthCall ==
  [step : {"create"}, profile : Profiles]
    \cup [step : {"link"}, profile : Profiles, userId : 1..MaxUsers]
    \cup [step : {"delete"}, token : RefreshToken]
    \cup [step : {"tokens"}, userId : 1..MaxUsers, from : 0..MaxTokens]

\* Whoever has a session or is about to have one has an account.
TypeOK ==
  /\ users \subseteq User
  /\ refreshTokens \subseteq RefreshToken
  /\ call \in [Calls -> {Idle} \cup AuthCall]
  /\ DOMAIN issued \subseteq 1..MaxTokens
  /\ issued \in [DOMAIN issued -> [from : {0} \cup DOMAIN issued, session : DOMAIN issued]]
  /\ loggedOut \subseteq DOMAIN issued
  /\ signedIn \subseteq Profiles \X (1..MaxUsers)
  /\ \A t \in refreshTokens : \E u \in users : u.id = t.userId
  /\ \A c \in Calls : call[c].step \in {"link", "tokens"} =>
                        \E u \in users : u.id = call[c].userId

Init ==
  /\ users = {} /\ refreshTokens = {}
  /\ call = [c \in Calls |-> Idle]
  /\ issued = << >> /\ loggedOut = {} /\ signedIn = {}

-----------------------------------------------------------------------------
Goto(c, next) == call' = [call EXCEPT ![c] = next]

ToTokens(id, from) == [step |-> "tokens", userId |-> id, from |-> from]

\* Mutant: users without the unique indexes.
AcceptsAny(row) == TRUE

\* The unique indexes of users let the row in.
Accepts(row) ==
  \A u \in users :
    /\ u.email # row.email /\ u.username # row.username
    /\ row.googleId # NoProfile => u.googleId # row.googleId

\* Mutant: the conflict is not thrown.
RegisterAnyway(c, email, username) ==
  \E id \in 1..MaxUsers :
    LET row == [id |-> id, email |-> email, username |-> username,
                googleId |-> NoProfile, password |-> TRUE] IN
    /\ call[c] = Idle
    /\ id = 1 + Cardinality(users)
    /\ users' = IF Accepts(row) THEN users \cup {row} ELSE users
    /\ Goto(c, ToTokens(id, 0))
    /\ UNCHANGED <<refreshTokens, issued, loggedOut, signedIn>>

\* register: the insert, which throws when the e-mail or the name is taken.
Register(c, email, username) ==
  \E id \in 1..MaxUsers :
    LET row == [id |-> id, email |-> email, username |-> username,
                googleId |-> NoProfile, password |-> TRUE] IN
    /\ call[c] = Idle
    /\ id = 1 + Cardinality(users) /\ Accepts(row)
    /\ users' = users \cup {row}
    /\ Goto(c, ToTokens(id, 0))
    /\ UNCHANGED <<refreshTokens, issued, loggedOut, signedIn>>

\* login of a user who has a password, with the right one.
Login(c, u) ==
  /\ call[c] = Idle /\ u.password
  /\ Goto(c, ToTokens(u.id, 0))
  /\ UNCHANGED <<users, refreshTokens, issued, loggedOut, signedIn>>

\* googleLogin: user.findFirst by the Google id or by the e-mail.
GoogleLogin(c, p) ==
  LET found == {u \in users : u.googleId = p \/ u.email = ProfileEmail[p]} IN
  /\ call[c] = Idle
  /\ \/ /\ found = {}
        /\ Goto(c, [step |-> "create", profile |-> p])
        /\ UNCHANGED signedIn
     \/ \E u \in found :
          IF u.googleId = NoProfile
            THEN /\ Goto(c, [step |-> "link", profile |-> p, userId |-> u.id])
                 /\ UNCHANGED signedIn
            ELSE /\ Goto(c, ToTokens(u.id, 0))
                 /\ signedIn' = signedIn \cup {<<p, u.id>>}
  /\ UNCHANGED <<users, refreshTokens, issued, loggedOut>>

\* user.create throws when somebody has registered in between.
CreateGoogleUser(c) ==
  \E id \in 1..MaxUsers :
    LET p == call[c].profile
        row == [id |-> id, email |-> ProfileEmail[p], username |-> ProfileUsername[p],
                googleId |-> p, password |-> FALSE] IN
    /\ call[c].step = "create"
    /\ id = 1 + Cardinality(users)
    /\ IF Accepts(row)
         THEN /\ users' = users \cup {row}
              /\ Goto(c, ToTokens(id, 0))
              /\ signedIn' = signedIn \cup {<<p, id>>}
         ELSE Goto(c, Idle) /\ UNCHANGED <<users, signedIn>>
    /\ UNCHANGED <<refreshTokens, issued, loggedOut>>

\* user.update sets the Google id, whatever it is by now.
LinkGoogle(c) ==
  LET p == call[c].profile
      id == call[c].userId IN
  /\ call[c].step = "link"
  /\ IF \E u \in users : u.googleId = p /\ u.id # id
       THEN Goto(c, Idle) /\ UNCHANGED <<users, signedIn>>
       ELSE /\ users' = {IF u.id = id THEN [u EXCEPT !.googleId = p] ELSE u : u \in users}
            /\ Goto(c, ToTokens(id, 0))
            /\ signedIn' = signedIn \cup {<<p, id>>}
  /\ UNCHANGED <<refreshTokens, issued, loggedOut>>

\* updateProfile with a new name, which throws when the name is taken.
UpdateProfile(u, username) ==
  /\ \A v \in users : v.username # username
  /\ users' = (users \ {u}) \cup {[u EXCEPT !.username = username]}
  /\ UNCHANGED <<refreshTokens, call, issued, loggedOut, signedIn>>

-----------------------------------------------------------------------------
\* generateTokens: the insert of the new token.
GenerateTokens(c) ==
  \E id \in 1..MaxTokens :
    /\ call[c].step = "tokens"
    /\ id = 1 + Cardinality(DOMAIN issued)
    /\ refreshTokens' = refreshTokens \cup
         {[id |-> id, userId |-> call[c].userId, expired |-> FALSE]}
    /\ issued' = [t \in DOMAIN issued \cup {id} |->
                    IF t # id THEN issued[t]
                    ELSE [from |-> call[c].from,
                          session |-> IF call[c].from = 0 THEN id
                                      ELSE issued[call[c].from].session]]
    /\ Goto(c, Idle)
    /\ UNCHANGED <<users, loggedOut, signedIn>>

\* refresh: the token is there and has not expired.
Refresh(c, t) ==
  /\ call[c] = Idle /\ ~t.expired
  /\ Goto(c, [step |-> "delete", token |-> t])
  /\ UNCHANGED <<users, refreshTokens, issued, loggedOut, signedIn>>

\* The row of token t, whatever has become of it.
Stored(t) == {r \in refreshTokens : r.id = t.id}

\* Mutant: deleteMany, which does not mind that the row has gone.
DeleteManyTokens(c) ==
  LET t == call[c].token IN
  /\ call[c].step = "delete"
  /\ refreshTokens' = refreshTokens \ Stored(t)
  /\ Goto(c, ToTokens(t.userId, t.id))
  /\ UNCHANGED <<users, issued, loggedOut, signedIn>>

\* Mutant: the token that came in is not deleted.
KeepToken(c) ==
  LET t == call[c].token IN
  /\ call[c].step = "delete"
  /\ Goto(c, IF Stored(t) = {} THEN Idle ELSE ToTokens(t.userId, t.id))
  /\ UNCHANGED <<users, refreshTokens, issued, loggedOut, signedIn>>

\* refreshToken.delete throws when the row has gone.  The user is read next: no
\* code deletes users.
DeleteToken(c) ==
  LET t == call[c].token IN
  /\ call[c].step = "delete"
  /\ refreshTokens' = refreshTokens \ Stored(t)
  /\ Goto(c, IF Stored(t) = {} THEN Idle ELSE ToTokens(t.userId, t.id))
  /\ UNCHANGED <<users, issued, loggedOut, signedIn>>

\* logout: deleteMany.
Logout(t) ==
  /\ refreshTokens' = refreshTokens \ {t}
  /\ loggedOut' = loggedOut \cup {t.id}
  /\ UNCHANGED <<users, call, issued, signedIn>>

\* Seven days pass for a token.
Expire(t) ==
  /\ ~t.expired
  /\ refreshTokens' = (refreshTokens \ {t}) \cup {[t EXCEPT !.expired = TRUE]}
  /\ UNCHANGED <<users, call, issued, loggedOut, signedIn>>

\* The process dies: calls stop where they are.
Crash ==
  /\ \E c \in Calls : call[c] # Idle
  /\ call' = [c \in Calls |-> Idle]
  /\ UNCHANGED <<users, refreshTokens, issued, loggedOut, signedIn>>

Next ==
  \/ \E c \in Calls :
       \/ \E email \in Emails, username \in Usernames : Register(c, email, username)
       \/ \E u \in users : Login(c, u)
       \/ \E p \in Profiles : GoogleLogin(c, p)
       \/ CreateGoogleUser(c) \/ LinkGoogle(c) \/ GenerateTokens(c)
       \/ \E t \in refreshTokens : Refresh(c, t)
       \/ DeleteToken(c)
  \/ \E u \in users, username \in Usernames : UpdateProfile(u, username)
  \/ \E t \in refreshTokens : Logout(t) \/ Expire(t)
  \/ Crash

Spec == Init /\ [][Next]_vars

-----------------------------------------------------------------------------
(* Properties.                                                             *)

SessionOf(t) == issued[t].session

\* A refresh token is spent once, however often it is sent: it is exchanged for
\* at most one token, and for none when a logout has removed it.
SpentOnce ==
  \A t \in DOMAIN issued :
    LET next == {n \in DOMAIN issued : issued[n].from = t} IN
    Cardinality(next) <= 1 /\ (t \in loggedOut => next = {})

\* A session has at most one token that is good, however its refreshes cross.
OneTokenPerSession ==
  \A r, s \in refreshTokens : SessionOf(r.id) = SessionOf(s.id) => r = s

\* A Google account always signs in to the same user, and no other one does,
\* however its first sign-in crosses with another or with a registration under
\* its e-mail.
OneUserPerProfile ==
  \A s, t \in signedIn : s[1] = t[1] \/ s[2] = t[2] => s = t

\* The tokens implement sessions: whatever calls cross, fail or are repeated, a
\* session goes from token to token without ever having two ways to go on, and
\* once it is over no call brings it back.
Abstract == INSTANCE Sessions WITH
  Ids <- 1..MaxTokens,
  opened <- {SessionOf(t) : t \in DOMAIN issued},
  live <- {SessionOf(r.id) : r \in refreshTokens},
  renewing <- {SessionOf(call[c].from) :
                 c \in {c \in Calls : call[c].step = "tokens" /\ call[c].from # 0}}

ImplementsSessions == Abstract!Spec
=============================================================================
