------------------------------ MODULE AuthProofs ------------------------------
(***************************************************************************)
(* Proofs about Auth.tla, for any accounts, any number of calls at the     *)
(* same time and any bounds on the rows.                                   *)
(*                                                                         *)
(* The invariant has two halves that know nothing of each other: accounts  *)
(* (who is linked to which Google account) and sessions (which token, or   *)
(* which call, a session goes on with).                                    *)
(***************************************************************************)
EXTENDS Auth, FiniteSetTheorems, TLAPS

-----------------------------------------------------------------------------
(* Accounts.                                                               *)

\* The id of a user is its key, and the users are numbered.
UserKeys ==
  /\ IsFiniteSet(users)
  /\ \A u \in users : u.id \in 1..Cardinality(users)
  /\ \A u, v \in users : u.id = v.id => u = v

\* A user who is linked to a Google account has its e-mail, one who is about to
\* be linked has it too, and no Google account is linked twice.
LinkedByEmail ==
  /\ \A u \in users : u.googleId # NoProfile => u.email = ProfileEmail[u.googleId]
  /\ \A u, v \in users : u.googleId # NoProfile /\ u.googleId = v.googleId => u = v
  /\ \A c \in Calls : call[c].step = "link" =>
       \A u \in users : u.id = call[c].userId => u.email = ProfileEmail[call[c].profile]

\* Who has signed in with a Google account is linked to it.
SignedInLinked ==
  \A s \in signedIn : \E u \in users : u.id = s[2] /\ u.googleId = s[1]

AccountInv == UserKeys /\ LinkedByEmail /\ SignedInLinked

-----------------------------------------------------------------------------
(* Sessions.                                                               *)

\* Call c is about to insert the token that comes after token t.
Renews(c, t) == call[c].step = "tokens" /\ call[c].from = t /\ t # 0

\* The tokens ever issued are numbered, a row in the table is one of them, and a
\* call in progress works with one of them and for a user who is there.
TokenKeys ==
  /\ IsFiniteSet(DOMAIN issued)
  /\ \A t \in DOMAIN issued : t \in 1..Cardinality(DOMAIN issued)
  /\ \A r \in refreshTokens : r.id \in DOMAIN issued
  /\ \A r, s \in refreshTokens : r.id = s.id => r = s
  /\ \A c \in Calls :
       /\ call[c].step = "delete" =>
            /\ call[c].token.id \in DOMAIN issued
            /\ \E u \in users : u.id = call[c].token.userId
       /\ call[c].step = "tokens" => call[c].from \in {0} \cup DOMAIN issued

\* No token came from token t, and no logout has removed it.
Unspent(t) == t \notin loggedOut /\ \A n \in DOMAIN issued : issued[n].from # t

\* A token in the table is unspent, and so is one that is deleted and about to be
\* exchanged; two tokens never came from the same one.
SpendsOnce ==
  /\ \A r \in refreshTokens : Unspent(r.id)
  /\ \A c \in Calls, t \in DOMAIN issued : Renews(c, t) => Unspent(t)
  /\ \A m, n \in DOMAIN issued :
       issued[m].from = issued[n].from /\ issued[m].from # 0 => m = n
  /\ \A n \in DOMAIN issued : issued[n].from \notin loggedOut

\* A session goes on with one thing at most: a token in the table, or a call that
\* is about to insert the next one.
OneHead ==
  /\ \A r, s \in refreshTokens : SessionOf(r.id) = SessionOf(s.id) => r = s
  /\ \A c \in Calls, t \in DOMAIN issued : Renews(c, t) =>
       /\ \A r \in refreshTokens : SessionOf(r.id) # SessionOf(t)
       /\ \A d \in Calls, s \in DOMAIN issued :
            Renews(d, s) /\ SessionOf(s) = SessionOf(t) => d = c

SessionInv == TokenKeys /\ SpendsOnce /\ OneHead

AuthInv == TypeOK /\ AccountInv /\ SessionInv

-----------------------------------------------------------------------------
(* Lemmas about types and calls.                                           *)

\* The step of a call says which fields it has.
LEMMA CallKinds ==
  ASSUME TypeOK, NEW c \in Calls
  PROVE  /\ call[c].step = "create" => call[c].profile \in Profiles
         /\ call[c].step = "link" =>
              call[c].profile \in Profiles /\ call[c].userId \in 1..MaxUsers
         /\ call[c].step = "delete" => call[c].token \in RefreshToken
         /\ call[c].step = "tokens" =>
              call[c].userId \in 1..MaxUsers /\ call[c].from \in 0..MaxTokens
  BY DEF TypeOK, Idle, AuthCall

\* A call that is to insert a token.
LEMMA ToTokensType ==
  ASSUME NEW id \in 1..MaxUsers, NEW from \in 0..MaxTokens
  PROVE  /\ ToTokens(id, from) \in AuthCall
         /\ ToTokens(id, from).step = "tokens"
         /\ ToTokens(id, from).userId = id /\ ToTokens(id, from).from = from
  BY DEF ToTokens, AuthCall

\* What Goto does to the calls.
LEMMA GotoType ==
  ASSUME TypeOK, NEW c \in Calls, NEW next \in {Idle} \cup AuthCall, Goto(c, next)
  PROVE  /\ call' \in [Calls -> {Idle} \cup AuthCall]
         /\ \A d \in Calls : call'[d] = IF d = c THEN next ELSE call[d]
  BY DEF TypeOK, Goto

\* The row that register and googleLogin insert is a user, under the next number.
LEMMA NewUser ==
  ASSUME AuthInv, NEW id \in 1..MaxUsers, id = 1 + Cardinality(users), NEW row \in User,
         row.id = id, Accepts(row), users' = users \cup {row},
         row.googleId # NoProfile => row.email = ProfileEmail[row.googleId],
         \A c \in Calls : call'[c].step = "link" => call'[c] = call[c],
         \A s \in signedIn' : s \in signedIn \/ (s[1] = row.googleId /\ s[2] = id)
  PROVE  AccountInv'
  <1>1. /\ IsFiniteSet(users) /\ Cardinality(users) \in Nat
        /\ \A u \in users : u.id \in 1..Cardinality(users)
        /\ \A u, v \in users : u.id = v.id => u = v
    BY FS_CardinalityType DEF AuthInv, AccountInv, UserKeys
  <1>2. \A u \in users : u.id # id
    BY <1>1
  <1>3. Cardinality(users') = Cardinality(users) + 1 /\ IsFiniteSet(users')
    BY <1>1, <1>2, FS_AddElement
  <1>4. UserKeys'
    <2>1. \A u \in users' : u.id \in 1..(Cardinality(users) + 1)
      BY <1>1
    <2>2. \A u, v \in users' : u.id = v.id => u = v
      BY <1>1, <1>2
    <2> QED
      BY <1>3, <2>1, <2>2 DEF UserKeys
  <1>5. LinkedByEmail'
    <2>1. \A u \in users' : u.googleId # NoProfile => u.email = ProfileEmail[u.googleId]
      BY DEF AuthInv, AccountInv, LinkedByEmail
    <2>2. \A u, v \in users' : u.googleId # NoProfile /\ u.googleId = v.googleId => u = v
      BY DEF AuthInv, AccountInv, LinkedByEmail, Accepts
    <2>3. ASSUME NEW c \in Calls, call'[c].step = "link", NEW u \in users',
                 u.id = call'[c].userId
          PROVE  u.email = ProfileEmail[call'[c].profile]
      <3>1. call'[c] = call[c]
        BY <2>3
      <3>2. PICK v \in users : v.id = call[c].userId
        BY <2>3, <3>1 DEF AuthInv, TypeOK
      <3>3. u \in users
        BY <1>2, <2>3, <3>1, <3>2
      <3> QED
        BY <2>3, <3>1, <3>3 DEF AuthInv, AccountInv, LinkedByEmail
    <2> QED
      BY <2>1, <2>2, <2>3 DEF LinkedByEmail
  <1>6. SignedInLinked'
    BY DEF AuthInv, AccountInv, SignedInLinked
  <1> QED
    BY <1>4, <1>5, <1>6 DEF AccountInv

\* A step that leaves the users as they are keeps what is known of accounts,
\* when a call that is to link was told to by the e-mail.
LEMMA UsersUntouched ==
  ASSUME AuthInv, users' = users,
         \A c \in Calls :
           call'[c].step = "link" =>
             \/ call'[c] = call[c]
             \/ \A u \in users : u.id = call'[c].userId =>
                                   u.email = ProfileEmail[call'[c].profile],
         \A s \in signedIn' : s \in signedIn
                                \/ \E u \in users : u.id = s[2] /\ u.googleId = s[1]
  PROVE  AccountInv'
  <1>1. UserKeys'
    BY DEF AuthInv, AccountInv, UserKeys
  <1>2. LinkedByEmail'
    BY DEF AuthInv, AccountInv, LinkedByEmail
  <1>3. SignedInLinked'
    BY DEF AuthInv, AccountInv, SignedInLinked
  <1> QED
    BY <1>1, <1>2, <1>3 DEF AccountInv

\* A step that leaves the tokens alone keeps what is known of sessions, when no
\* user disappears and a call that goes on starts a session or has read a token.
LEMMA TokensUntouched ==
  ASSUME AuthInv, UNCHANGED <<refreshTokens, issued, loggedOut>>,
         \A u \in users : \E v \in users' : v.id = u.id,
         \A c \in Calls :
           \/ call'[c] = call[c]
           \/ call'[c].step \notin {"delete", "tokens"}
           \/ call'[c].step = "tokens" /\ call'[c].from = 0
           \/ call'[c].step = "delete" /\ call'[c].token \in refreshTokens
  PROVE  SessionInv'
  <1>1. \A c \in Calls : \A t : Renews(c, t)' => Renews(c, t)
    BY DEF Renews
  <1>2. TokenKeys'
    <2>1. ASSUME NEW c \in Calls
          PROVE  /\ call'[c].step = "delete" =>
                      /\ call'[c].token.id \in DOMAIN issued
                      /\ \E u \in users' : u.id = call'[c].token.userId
                 /\ call'[c].step = "tokens" => call'[c].from \in {0} \cup DOMAIN issued
      <3>1. \A r \in refreshTokens : /\ r.id \in DOMAIN issued
                                     /\ \E u \in users : u.id = r.userId
        BY DEF AuthInv, TypeOK, SessionInv, TokenKeys
      <3> QED
        BY <3>1 DEF AuthInv, SessionInv, TokenKeys
    <2> QED
      BY <2>1 DEF AuthInv, SessionInv, TokenKeys
  <1>3. SpendsOnce'
    BY <1>1 DEF AuthInv, SessionInv, SpendsOnce, Unspent
  <1>4. OneHead'
    BY <1>1 DEF AuthInv, SessionInv, OneHead, SessionOf
  <1> QED
    BY <1>2, <1>3, <1>4 DEF SessionInv

\* What a step that only moves a call on must show of its types.
LEMMA TypesKeep ==
  ASSUME TypeOK, NEW c \in Calls, NEW next \in {Idle} \cup AuthCall, Goto(c, next),
         UNCHANGED <<issued, loggedOut>>, users' \subseteq User,
         \A u \in users : \E v \in users' : v.id = u.id,
         refreshTokens' \subseteq refreshTokens, signedIn' \subseteq Profiles \X (1..MaxUsers),
         next.step \in {"link", "tokens"} => \E u \in users' : u.id = next.userId
  PROVE  TypeOK'
  <1>1. /\ call' \in [Calls -> {Idle} \cup AuthCall]
        /\ \A d \in Calls : call'[d] = IF d = c THEN next ELSE call[d]
    BY GotoType
  <1>2. \A t \in refreshTokens' : \E u \in users' : u.id = t.userId
    BY DEF TypeOK
  <1>3. \A d \in Calls : call'[d].step \in {"link", "tokens"} =>
                           \E u \in users' : u.id = call'[d].userId
    BY <1>1 DEF TypeOK
  <1> QED
    BY <1>1, <1>2, <1>3 DEF TypeOK

\* A call that goes on without a write: it has found a user, or a token.
LEMMA MoveKeeps ==
  ASSUME AuthInv, NEW c \in Calls, NEW next \in {Idle} \cup AuthCall, Goto(c, next),
         UNCHANGED <<users, refreshTokens, issued, loggedOut>>,
         signedIn' \subseteq Profiles \X (1..MaxUsers),
         \A s \in signedIn' : s \in signedIn
                                \/ \E u \in users : u.id = s[2] /\ u.googleId = s[1],
         next.step = "link" =>
           /\ \E u \in users : u.id = next.userId
           /\ \A u \in users : u.id = next.userId => u.email = ProfileEmail[next.profile],
         next.step = "tokens" => next.from = 0 /\ \E u \in users : u.id = next.userId,
         next.step = "delete" => next.token \in refreshTokens
  PROVE  AuthInv'
  <1>1. /\ call' \in [Calls -> {Idle} \cup AuthCall]
        /\ \A d \in Calls : call'[d] = IF d = c THEN next ELSE call[d]
    BY GotoType DEF AuthInv
  <1>2. TypeOK'
    BY TypesKeep DEF AuthInv, TypeOK
  <1>3. AccountInv'
    BY <1>1, UsersUntouched
  <1>4. SessionInv'
    BY <1>1, TokensUntouched
  <1> QED
    BY <1>2, <1>3, <1>4 DEF AuthInv

\* A Google account and a user with its e-mail or its id: linked to no other.
LEMMA FoundByProfile ==
  ASSUME AuthInv, NEW p \in Profiles, NEW u \in users,
         u.googleId = p \/ u.email = ProfileEmail[p]
  PROVE  /\ u.googleId \in {p, NoProfile}
         /\ u.email = ProfileEmail[p]
  <1>1. u.googleId \in Profiles \cup {NoProfile}
    BY DEF AuthInv, TypeOK, User
  <1>2. u.googleId # NoProfile => u.email = ProfileEmail[u.googleId]
    BY DEF AuthInv, AccountInv, LinkedByEmail
  <1> QED
    BY <1>1, <1>2, ProfilesAssumption

-----------------------------------------------------------------------------
(* The steps.                                                              *)

\* register: the new row is let in by the unique indexes.
LEMMA RegisterKeeps ==
  ASSUME AuthInv, NEW c \in Calls, NEW email \in Emails, NEW username \in Usernames,
         Register(c, email, username)
  PROVE  AuthInv'
  <1>1. PICK id \in 1..MaxUsers :
          LET row == [id |-> id, email |-> email, username |-> username,
                      googleId |-> NoProfile, password |-> TRUE] IN
          /\ id = 1 + Cardinality(users) /\ Accepts(row)
          /\ users' = users \cup {row}
          /\ Goto(c, ToTokens(id, 0))
          /\ UNCHANGED <<refreshTokens, issued, loggedOut, signedIn>>
    BY DEF Register
  <1> DEFINE row == [id |-> id, email |-> email, username |-> username,
                     googleId |-> NoProfile, password |-> TRUE]
             next == ToTokens(id, 0)
  <1>2. row \in User /\ row.id = id /\ row.googleId = NoProfile
    BY DEF User
  <1>3. /\ next \in AuthCall /\ next.step = "tokens" /\ next.from = 0 /\ next.userId = id
    BY BoundsAssumption, ToTokensType
  <1>4. /\ id = 1 + Cardinality(users) /\ Accepts(row) /\ users' = users \cup {row}
        /\ Goto(c, next) /\ UNCHANGED <<refreshTokens, issued, loggedOut, signedIn>>
    BY <1>1
  <1> HIDE DEF row, next
  <1>5. \A d \in Calls : call'[d] = IF d = c THEN next ELSE call[d]
    BY <1>3, <1>4, GotoType DEF AuthInv
  <1>6. TypeOK'
    BY <1>2, <1>3, <1>4, TypesKeep DEF AuthInv, TypeOK
  <1>7. AccountInv'
    BY <1>2, <1>3, <1>4, <1>5, NewUser
  <1>8. SessionInv'
    BY <1>3, <1>4, <1>5, TokensUntouched
  <1> QED
    BY <1>6, <1>7, <1>8 DEF AuthInv

\* login starts a session for a user who is there.
LEMMA LoginKeeps ==
  ASSUME AuthInv, NEW c \in Calls, NEW u \in users, Login(c, u)
  PROVE  AuthInv'
  <1> DEFINE next == ToTokens(u.id, 0)
  <1>1. u.id \in 1..MaxUsers
    BY DEF AuthInv, TypeOK, User
  <1>2. /\ next \in AuthCall /\ next.step = "tokens" /\ next.from = 0 /\ next.userId = u.id
    BY <1>1, BoundsAssumption, ToTokensType
  <1>3. /\ Goto(c, next) /\ UNCHANGED <<users, refreshTokens, issued, loggedOut, signedIn>>
        /\ signedIn' \subseteq Profiles \X (1..MaxUsers)
    BY DEF Login, AuthInv, TypeOK
  <1> HIDE DEF next
  <1> QED
    BY <1>2, <1>3, MoveKeeps

\* googleLogin: what the read has found is still true when the call goes on.
LEMMA GoogleLoginKeeps ==
  ASSUME AuthInv, NEW c \in Calls, NEW p \in Profiles, GoogleLogin(c, p)
  PROVE  AuthInv'
  <1>1. /\ UNCHANGED <<users, refreshTokens, issued, loggedOut>>
        /\ signedIn \subseteq Profiles \X (1..MaxUsers)
    BY DEF GoogleLogin, AuthInv, TypeOK
  <1>2. CASE Goto(c, [step |-> "create", profile |-> p]) /\ UNCHANGED signedIn
    <2> DEFINE next == [step |-> "create", profile |-> p]
    <2>1. next \in AuthCall /\ next.step = "create"
      BY DEF AuthCall
    <2>2. Goto(c, next) /\ signedIn' = signedIn
      BY <1>2
    <2> HIDE DEF next
    <2> QED
      BY <1>1, <2>1, <2>2, MoveKeeps
  <1>3. ASSUME NEW u \in users, u.googleId = p \/ u.email = ProfileEmail[p],
               IF u.googleId = NoProfile
                 THEN /\ Goto(c, [step |-> "link", profile |-> p, userId |-> u.id])
                      /\ UNCHANGED signedIn
                 ELSE /\ Goto(c, ToTokens(u.id, 0))
                      /\ signedIn' = signedIn \cup {<<p, u.id>>}
        PROVE  AuthInv'
    <2>1. u.googleId \in {p, NoProfile} /\ u.email = ProfileEmail[p]
      BY <1>3, FoundByProfile
    <2>2. u.id \in 1..MaxUsers /\ \A v \in users : v.id = u.id => v = u
      BY DEF AuthInv, TypeOK, User, AccountInv, UserKeys
    <2>3. CASE u.googleId = NoProfile
      <3> DEFINE next == [step |-> "link", profile |-> p, userId |-> u.id]
      <3>1. /\ next \in AuthCall /\ next.step = "link"
            /\ next.profile = p /\ next.userId = u.id
        BY <2>2 DEF AuthCall
      <3>2. Goto(c, next) /\ signedIn' = signedIn
        BY <1>3, <2>3
      <3> HIDE DEF next
      <3> QED
        BY <1>1, <2>1, <2>2, <3>1, <3>2, MoveKeeps
    <2>4. CASE u.googleId # NoProfile
      <3> DEFINE next == ToTokens(u.id, 0)
      <3>1. /\ next \in AuthCall /\ next.step = "tokens"
            /\ next.from = 0 /\ next.userId = u.id
        BY <2>2, BoundsAssumption, ToTokensType
      <3>2. /\ Goto(c, next) /\ signedIn' = signedIn \cup {<<p, u.id>>}
            /\ signedIn' \subseteq Profiles \X (1..MaxUsers) /\ u.googleId = p
        BY <1>1, <1>3, <2>1, <2>2, <2>4
      <3> HIDE DEF next
      <3>3. \A s \in signedIn' : s \in signedIn
                                   \/ \E v \in users : v.id = s[2] /\ v.googleId = s[1]
        BY <3>2
      <3> QED
        BY <1>1, <3>1, <3>2, <3>3, MoveKeeps
    <2> QED
      BY <2>3, <2>4
  <1> QED
    BY <1>2, <1>3 DEF GoogleLogin

\* user.create: the row is new, and linked to an account nobody else is linked to.
LEMMA CreateGoogleUserKeeps ==
  ASSUME AuthInv, NEW c \in Calls, CreateGoogleUser(c)
  PROVE  AuthInv'
  <1> DEFINE p == call[c].profile
             Row(id) == [id |-> id, email |-> ProfileEmail[p], username |-> ProfileUsername[p],
                         googleId |-> p, password |-> FALSE]
  <1>1. p \in Profiles /\ p # NoProfile
    BY CallKinds, ProfilesAssumption DEF CreateGoogleUser, AuthInv
  <1>2. PICK id \in 1..MaxUsers :
          /\ id = 1 + Cardinality(users)
          /\ IF Accepts(Row(id))
               THEN /\ users' = users \cup {Row(id)}
                    /\ Goto(c, ToTokens(id, 0))
                    /\ signedIn' = signedIn \cup {<<p, id>>}
               ELSE Goto(c, Idle) /\ UNCHANGED <<users, signedIn>>
          /\ UNCHANGED <<refreshTokens, issued, loggedOut>>
    BY DEF CreateGoogleUser
  <1> DEFINE row == Row(id)
             next == ToTokens(id, 0)
  <1>3. /\ row \in User /\ row.id = id /\ row.googleId = p
        /\ row.email = ProfileEmail[p]
    BY <1>1, ProfilesAssumption DEF User
  <1>4. /\ next \in AuthCall /\ next.step = "tokens" /\ next.from = 0 /\ next.userId = id
    BY BoundsAssumption, ToTokensType
  <1>5. signedIn \subseteq Profiles \X (1..MaxUsers)
    BY DEF AuthInv, TypeOK
  <1>6. CASE Accepts(row)
    <2>1. /\ id = 1 + Cardinality(users) /\ users' = users \cup {row}
          /\ Goto(c, next) /\ UNCHANGED <<refreshTokens, issued, loggedOut>>
          /\ signedIn' = signedIn \cup {<<p, id>>}
      BY <1>2, <1>6
    <2> HIDE DEF row, next, p
    <2>2. signedIn' \subseteq Profiles \X (1..MaxUsers)
      BY <1>1, <1>5, <2>1
    <2>3. \A d \in Calls : call'[d] = IF d = c THEN next ELSE call[d]
      BY <1>4, <2>1, GotoType DEF AuthInv
    <2>4. TypeOK'
      BY <1>3, <1>4, <2>1, <2>2, TypesKeep DEF AuthInv, TypeOK
    <2>5. AccountInv'
      <3>1. \A s \in signedIn' : s \in signedIn \/ (s[1] = row.googleId /\ s[2] = id)
        BY <1>3, <2>1
      <3>2. \A d \in Calls : call'[d].step = "link" => call'[d] = call[d]
        BY <1>4, <2>3
      <3> QED
        BY <1>3, <1>6, <2>1, <3>1, <3>2, NewUser
    <2>6. SessionInv'
      BY <1>4, <2>1, <2>3, TokensUntouched
    <2> QED
      BY <2>4, <2>5, <2>6 DEF AuthInv
  <1>7. CASE ~Accepts(row)
    <2>1. Goto(c, Idle) /\ UNCHANGED <<users, refreshTokens, issued, loggedOut, signedIn>>
      BY <1>2, <1>7
    <2> QED
      BY <1>5, <2>1, MoveKeeps DEF Idle
  <1> QED
    BY <1>6, <1>7

\* Users who are updated keep their ids, and so they stay numbered.
LEMMA UpdateKeepsKeys ==
  ASSUME AuthInv,
         \A u \in users : \E v \in users' : v.id = u.id,
         \A v \in users' : \E u \in users : u.id = v.id,
         \A u, v \in users' : u.id = v.id => u = v
  PROVE  UserKeys'
  <1>1. /\ IsFiniteSet(users) /\ \A u \in users : u.id \in 1..Cardinality(users)
        /\ \A u, v \in users : u.id = v.id => u = v
    BY DEF AuthInv, AccountInv, UserKeys
  <1>2. IsFiniteSet(users') /\ Cardinality(users') = Cardinality(users)
    <2> DEFINE updated == [u \in users |-> CHOOSE v \in users' : v.id = u.id]
    <2>1. \A u \in users : updated[u] \in users' /\ updated[u].id = u.id
      OBVIOUS
    <2>2. updated \in [users -> users']
      BY <2>1
    <2> HIDE DEF updated
    <2>3. updated \in Bijection(users, users')
      BY <1>1, <2>1, <2>2 DEF Bijection, Injection, Surjection, IsInjective
    <2> QED
      BY <1>1, <2>3, FS_Bijection DEF ExistsBijection
  <1>3. \A v \in users' : v.id \in 1..Cardinality(users')
    BY <1>1, <1>2
  <1> QED
    BY <1>2, <1>3 DEF UserKeys

\* user.update: the user, found by the e-mail, can only have been linked to the
\* same Google account in the meantime.
LEMMA LinkGoogleKeeps ==
  ASSUME AuthInv, NEW c \in Calls, LinkGoogle(c)
  PROVE  AuthInv'
  <1> DEFINE p == call[c].profile
             id == call[c].userId
             next == ToTokens(id, 0)
             linked(u) == IF u.id = id THEN [u EXCEPT !.googleId = p] ELSE u
  <1>1. /\ p \in Profiles /\ p # NoProfile /\ id \in 1..MaxUsers
        /\ \E u \in users : u.id = id
        /\ \A u \in users : u.id = id => u.email = ProfileEmail[p]
        /\ call[c].step = "link"
    BY CallKinds, ProfilesAssumption
       DEF LinkGoogle, AuthInv, TypeOK, AccountInv, LinkedByEmail
  <1>2. signedIn \subseteq Profiles \X (1..MaxUsers)
    BY DEF AuthInv, TypeOK
  <1>3. CASE \E u \in users : u.googleId = p /\ u.id # id
    <2>1. Goto(c, Idle) /\ UNCHANGED <<users, refreshTokens, issued, loggedOut, signedIn>>
      BY <1>3 DEF LinkGoogle
    <2> QED
      BY <1>2, <2>1, MoveKeeps DEF Idle
  <1>4. CASE ~ \E u \in users : u.googleId = p /\ u.id # id
    <2>1. /\ users' = {linked(u) : u \in users}
          /\ Goto(c, next) /\ UNCHANGED <<refreshTokens, issued, loggedOut>>
          /\ signedIn' = signedIn \cup {<<p, id>>}
      BY <1>4 DEF LinkGoogle
    <2>2. next \in AuthCall /\ next.step = "tokens" /\ next.from = 0 /\ next.userId = id
      BY <1>1, BoundsAssumption, ToTokensType
    <2>3. \A u \in User :
            /\ linked(u) \in User /\ linked(u).id = u.id /\ linked(u).email = u.email
            /\ linked(u).googleId = IF u.id = id THEN p ELSE u.googleId
      BY <1>1 DEF User
    <2>4. users \subseteq User
      BY DEF AuthInv, TypeOK
    <2> HIDE DEF linked, next, p, id
    <2>5. \A d \in Calls : call'[d] = IF d = c THEN next ELSE call[d]
      BY <2>1, <2>2, GotoType DEF AuthInv
    <2>6. /\ users' \subseteq User
          /\ \A u \in users : \E v \in users' : v.id = u.id
          /\ \A v \in users' : \E u \in users : u.id = v.id
          /\ signedIn' \subseteq Profiles \X (1..MaxUsers)
          /\ \E v \in users' : v.id = id
      BY <1>1, <1>2, <2>1, <2>3, <2>4
    <2>7. TypeOK'
      BY <2>1, <2>2, <2>6, TypesKeep DEF AuthInv, TypeOK
    <2>8. UserKeys'
      <3>1. ASSUME NEW u \in users', NEW v \in users', u.id = v.id
            PROVE  u = v
        <4>1. PICK u1 \in users : u = linked(u1)
          BY <2>1
        <4>2. PICK v1 \in users : v = linked(v1)
          BY <2>1
        <4>3. u1.id = v1.id
          BY <2>3, <2>4, <3>1, <4>1, <4>2
        <4> QED
          BY <4>1, <4>2, <4>3 DEF AuthInv, AccountInv, UserKeys
      <3> QED
        BY <2>6, <3>1, UpdateKeepsKeys
    <2>9. LinkedByEmail'
      <3>1. ASSUME NEW v \in users', v.googleId # NoProfile
            PROVE  v.email = ProfileEmail[v.googleId]
        <4>1. PICK u \in users : v = linked(u)
          BY <2>1
        <4> QED
          BY <1>1, <2>3, <2>4, <3>1, <4>1 DEF AuthInv, AccountInv, LinkedByEmail
      <3>2. ASSUME NEW u \in users', NEW v \in users',
                   u.googleId # NoProfile, u.googleId = v.googleId
            PROVE  u = v
        <4>1. PICK u1 \in users : u = linked(u1)
          BY <2>1
        <4>2. PICK v1 \in users : v = linked(v1)
          BY <2>1
        <4>3. u1 = v1
          BY <1>4, <2>3, <2>4, <3>2, <4>1, <4>2
             DEF AuthInv, AccountInv, UserKeys, LinkedByEmail
        <4> QED
          BY <4>1, <4>2, <4>3
      <3>3. ASSUME NEW d \in Calls, call'[d].step = "link", NEW v \in users',
                   v.id = call'[d].userId
            PROVE  v.email = ProfileEmail[call'[d].profile]
        <4>1. PICK u \in users : v = linked(u)
          BY <2>1
        <4>2. call'[d] = call[d]
          BY <2>2, <2>5, <3>3
        <4> QED
          BY <2>3, <2>4, <3>3, <4>1, <4>2 DEF AuthInv, AccountInv, LinkedByEmail
      <3> QED
        BY <3>1, <3>2, <3>3 DEF LinkedByEmail
    <2>10. SignedInLinked'
      <3> SUFFICES ASSUME NEW s \in signedIn'
                   PROVE  \E v \in users' : v.id = s[2] /\ v.googleId = s[1]
        BY DEF SignedInLinked
      <3>1. CASE s \in signedIn
        <4>1. PICK u \in users : u.id = s[2] /\ u.googleId = s[1]
          BY <3>1 DEF AuthInv, AccountInv, SignedInLinked
        <4>2. s[1] \in Profiles
          BY <1>2, <3>1
        <4>3. ASSUME u.id = id
              PROVE  u.googleId = p
          <5>1. u.email = ProfileEmail[p] /\ p \in Profiles
            BY <1>1, <4>3
          <5>2. u.googleId \in {p, NoProfile}
            BY <5>1, FoundByProfile
          <5> QED
            BY <4>1, <4>2, <5>2, ProfilesAssumption
        <4>4. linked(u) \in users' /\ linked(u).id = s[2] /\ linked(u).googleId = s[1]
          BY <2>1, <2>3, <2>4, <4>1, <4>3
        <4> QED
          BY <4>4
      <3>2. CASE s = <<p, id>>
        <4>1. PICK u \in users : u.id = id
          BY <1>1
        <4>2. linked(u) \in users' /\ linked(u).id = id /\ linked(u).googleId = p
          BY <2>1, <2>3, <2>4, <4>1
        <4> QED
          BY <3>2, <4>2
      <3> QED
        BY <2>1, <3>1, <3>2
    <2>11. SessionInv'
      BY <2>1, <2>2, <2>5, <2>6, TokensUntouched
    <2> QED
      BY <2>7, <2>8, <2>9, <2>10, <2>11 DEF AuthInv, AccountInv
  <1> QED
    BY <1>3, <1>4

\* updateProfile changes neither the key nor the link of a user.
LEMMA UpdateProfileKeeps ==
  ASSUME AuthInv, NEW u \in users, NEW username \in Usernames, UpdateProfile(u, username)
  PROVE  AuthInv'
  <1> DEFINE renamed == [u EXCEPT !.username = username]
  <1>1. /\ users' = (users \ {u}) \cup {renamed}
        /\ UNCHANGED <<refreshTokens, call, issued, loggedOut, signedIn>>
        /\ users \subseteq User
        /\ \A v, w \in users : v.id = w.id => v = w
    BY DEF UpdateProfile, AuthInv, TypeOK, AccountInv, UserKeys
  <1>2. /\ renamed \in User /\ renamed.id = u.id /\ renamed.email = u.email
        /\ renamed.googleId = u.googleId
    BY <1>1 DEF User
  <1> HIDE DEF renamed
  <1>3. /\ users' \subseteq User
        /\ \A v \in users : \E w \in users' :
             w.id = v.id /\ w.email = v.email /\ w.googleId = v.googleId
        /\ \A w \in users' : \E v \in users :
             w.id = v.id /\ w.email = v.email /\ w.googleId = v.googleId
        /\ \A v, w \in users' : v.id = w.id => v = w
    BY <1>1, <1>2
  <1>4. TypeOK'
    <2>1. \A t \in refreshTokens : \E v \in users' : v.id = t.userId
      BY <1>3 DEF AuthInv, TypeOK
    <2>2. \A c \in Calls : call[c].step \in {"link", "tokens"} =>
                             \E v \in users' : v.id = call[c].userId
      BY <1>3 DEF AuthInv, TypeOK
    <2> QED
      BY <1>1, <1>3, <2>1, <2>2 DEF AuthInv, TypeOK
  <1>5. UserKeys'
    <2>1. /\ \A v \in users : \E w \in users' : w.id = v.id
          /\ \A w \in users' : \E v \in users : v.id = w.id
      BY <1>3
    <2> QED
      BY <1>3, <2>1, UpdateKeepsKeys
  <1>6. LinkedByEmail'
    <2>1. ASSUME NEW v \in users', v.googleId # NoProfile
          PROVE  v.email = ProfileEmail[v.googleId]
      BY <1>3, <2>1 DEF AuthInv, AccountInv, LinkedByEmail
    <2>2. ASSUME NEW v \in users', NEW w \in users',
                 v.googleId # NoProfile, v.googleId = w.googleId
          PROVE  v = w
      <3>1. PICK v1 \in users : v1.id = v.id /\ v1.googleId = v.googleId
        BY <1>3
      <3>2. PICK w1 \in users : w1.id = w.id /\ w1.googleId = w.googleId
        BY <1>3
      <3>3. v1 = w1
        BY <2>2, <3>1, <3>2 DEF AuthInv, AccountInv, LinkedByEmail
      <3> QED
        BY <1>3, <3>1, <3>2, <3>3
    <2>3. ASSUME NEW c \in Calls, call[c].step = "link", NEW v \in users',
                 v.id = call[c].userId
          PROVE  v.email = ProfileEmail[call[c].profile]
      BY <1>3, <2>3 DEF AuthInv, AccountInv, LinkedByEmail
    <2> QED
      BY <1>1, <2>1, <2>2, <2>3 DEF LinkedByEmail
  <1>7. SignedInLinked'
    <2> SUFFICES ASSUME NEW s \in signedIn
                 PROVE  \E v \in users' : v.id = s[2] /\ v.googleId = s[1]
      BY <1>1 DEF SignedInLinked
    <2>1. PICK v \in users : v.id = s[2] /\ v.googleId = s[1]
      BY DEF AuthInv, AccountInv, SignedInLinked
    <2> QED
      BY <1>3, <2>1
  <1>8. SessionInv'
    <2>1. \A v \in users : \E w \in users' : w.id = v.id
      BY <1>3
    <2> QED
      BY <1>1, <2>1, TokensUntouched
  <1> QED
    BY <1>4, <1>5, <1>6, <1>7, <1>8 DEF AuthInv, AccountInv

\* refresh has read a token that is there.
LEMMA RefreshKeeps ==
  ASSUME AuthInv, NEW c \in Calls, NEW t \in refreshTokens, Refresh(c, t)
  PROVE  AuthInv'
  <1> DEFINE next == [step |-> "delete", token |-> t]
  <1>1. next \in AuthCall /\ next.step = "delete" /\ next.token = t
    BY DEF AuthCall, AuthInv, TypeOK
  <1>2. /\ Goto(c, next) /\ UNCHANGED <<users, refreshTokens, issued, loggedOut, signedIn>>
        /\ signedIn' \subseteq Profiles \X (1..MaxUsers)
    BY DEF Refresh, AuthInv, TypeOK
  <1> HIDE DEF next
  <1> QED
    BY <1>1, <1>2, MoveKeeps

\* The process dies: nobody renews any more.
LEMMA CrashKeeps ==
  ASSUME AuthInv, Crash
  PROVE  AuthInv'
  <1>1. /\ \A c \in Calls : call'[c].step = "idle"
        /\ call' \in [Calls -> {Idle} \cup AuthCall]
        /\ UNCHANGED <<users, refreshTokens, issued, loggedOut, signedIn>>
    BY DEF Crash, Idle
  <1>2. TypeOK'
    BY <1>1 DEF AuthInv, TypeOK
  <1>3. AccountInv'
    BY <1>1, UsersUntouched
  <1>4. SessionInv'
    BY <1>1, TokensUntouched
  <1> QED
    BY <1>2, <1>3, <1>4 DEF AuthInv

-----------------------------------------------------------------------------
(* The steps that write tokens.                                            *)

\* What GenerateTokens does to the history of a token.
NewToken(c, id) ==
  [from |-> call[c].from,
   session |-> IF call[c].from = 0 THEN id ELSE SessionOf(call[c].from)]

\* generateTokens, with the facts its proofs need: the id is new, and what the new
\* token carries on from is a token that only this call renews.
LEMMA GenerateTokensDoes ==
  ASSUME AuthInv, NEW c \in Calls, GenerateTokens(c)
  PROVE  \E id \in 1..MaxTokens :
           /\ id = 1 + Cardinality(DOMAIN issued)
           /\ id \notin DOMAIN issued
           /\ call[c].from \in {0} \cup DOMAIN issued
           /\ refreshTokens' = refreshTokens \cup
                {[id |-> id, userId |-> call[c].userId, expired |-> FALSE]}
           /\ DOMAIN issued' = DOMAIN issued \cup {id}
           /\ \A t \in DOMAIN issued : issued'[t] = issued[t]
           /\ issued'[id] = NewToken(c, id)
           /\ issued' = [t \in DOMAIN issued' |-> issued'[t]]
           /\ \A d \in Calls : call'[d] = IF d = c THEN Idle ELSE call[d]
           /\ call' \in [Calls -> {Idle} \cup AuthCall]
           /\ UNCHANGED <<users, loggedOut, signedIn>>
  <1>1. PICK id \in 1..MaxTokens :
          /\ id = 1 + Cardinality(DOMAIN issued)
          /\ refreshTokens' = refreshTokens \cup
               {[id |-> id, userId |-> call[c].userId, expired |-> FALSE]}
          /\ issued' = [t \in DOMAIN issued \cup {id} |->
                          IF t # id THEN issued[t] ELSE NewToken(c, id)]
          /\ Goto(c, Idle)
          /\ UNCHANGED <<users, loggedOut, signedIn>>
    BY DEF GenerateTokens, NewToken, SessionOf
  <1>2. Cardinality(DOMAIN issued) \in Nat /\ id \notin DOMAIN issued
    BY <1>1, FS_CardinalityType DEF AuthInv, SessionInv, TokenKeys
  <1>3. call[c].from \in {0} \cup DOMAIN issued
    BY DEF GenerateTokens, AuthInv, SessionInv, TokenKeys
  <1>4. /\ \A d \in Calls : call'[d] = IF d = c THEN Idle ELSE call[d]
        /\ call' \in [Calls -> {Idle} \cup AuthCall]
    BY <1>1, GotoType DEF AuthInv
  <1> HIDE DEF Idle
  <1>5. /\ DOMAIN issued' = DOMAIN issued \cup {id}
        /\ \A t \in DOMAIN issued : issued'[t] = issued[t]
        /\ issued'[id] = NewToken(c, id)
        /\ issued' = [t \in DOMAIN issued' |-> issued'[t]]
    BY <1>1, <1>2
  <1> QED
    BY <1>1, <1>2, <1>3, <1>4, <1>5

\* generateTokens: the new token is the one way its session goes on.
LEMMA GenerateTokensKeeps ==
  ASSUME AuthInv, NEW c \in Calls, GenerateTokens(c)
  PROVE  AuthInv'
  <1> DEFINE f == call[c].from
  <1>1. PICK id \in 1..MaxTokens :
           /\ id = 1 + Cardinality(DOMAIN issued)
           /\ id \notin DOMAIN issued
           /\ f \in {0} \cup DOMAIN issued
           /\ refreshTokens' = refreshTokens \cup
                {[id |-> id, userId |-> call[c].userId, expired |-> FALSE]}
           /\ DOMAIN issued' = DOMAIN issued \cup {id}
           /\ \A t \in DOMAIN issued : issued'[t] = issued[t]
           /\ issued'[id] = NewToken(c, id)
           /\ issued' = [t \in DOMAIN issued' |-> issued'[t]]
           /\ \A d \in Calls : call'[d] = IF d = c THEN Idle ELSE call[d]
           /\ call' \in [Calls -> {Idle} \cup AuthCall]
           /\ UNCHANGED <<users, loggedOut, signedIn>>
    BY GenerateTokensDoes
  <1> DEFINE row == [id |-> id, userId |-> call[c].userId, expired |-> FALSE]
  <1>2. /\ call[c].step = "tokens" /\ call[c].userId \in 1..MaxUsers
        /\ \E u \in users : u.id = call[c].userId
    BY CallKinds DEF GenerateTokens, AuthInv, TypeOK
  <1>3. row \in RefreshToken /\ row.id = id /\ row.userId = call[c].userId
    BY <1>2 DEF RefreshToken
  <1>4. /\ issued'[id].from = f
        /\ issued'[id].session = IF f = 0 THEN id ELSE issued[f].session
    BY <1>1 DEF NewToken, SessionOf
  <1>5. refreshTokens' = refreshTokens \cup {row}
    BY <1>1
  <1>6. f # 0 => Renews(c, f)
    BY <1>2 DEF Renews
  <1>7. Idle.step = "idle"
    BY DEF Idle
  <1>8. \A d \in Calls : \A t : Renews(d, t)' => d # c /\ Renews(d, t)
    BY <1>1, <1>7 DEF Renews
  <1> HIDE DEF row, f
  <1>9. /\ DOMAIN issued \subseteq 1..MaxTokens
        /\ issued = [t \in DOMAIN issued |-> issued[t]]
        /\ \A t \in DOMAIN issued :
             /\ issued[t] \in [from : {0} \cup DOMAIN issued, session : DOMAIN issued]
             /\ issued[t].from \in {0} \cup DOMAIN issued
             /\ issued[t].session \in DOMAIN issued
    BY DEF AuthInv, TypeOK
  <1>10. TypeOK'
    <2>1. issued'[id] \in [from : {0} \cup DOMAIN issued', session : DOMAIN issued']
      BY <1>1, <1>4, <1>9 DEF NewToken, SessionOf, f
    <2>2. \A t \in DOMAIN issued :
            issued'[t] \in [from : {0} \cup DOMAIN issued', session : DOMAIN issued']
      <3> SUFFICES ASSUME NEW t \in DOMAIN issued
                   PROVE  issued[t] \in [from : {0} \cup DOMAIN issued',
                                         session : DOMAIN issued']
        BY <1>1
      <3> QED
        BY <1>1, <1>9
    <2>3. issued' \in [DOMAIN issued' -> [from : {0} \cup DOMAIN issued',
                                          session : DOMAIN issued']]
      BY <1>1, <2>1, <2>2
    <2>4. \A d \in Calls : call'[d].step \in {"link", "tokens"} =>
                             \E u \in users : u.id = call'[d].userId
      BY <1>1, <1>7 DEF AuthInv, TypeOK
    <2>5. \A t \in refreshTokens' : \E u \in users : u.id = t.userId
      BY <1>2, <1>3, <1>5 DEF AuthInv, TypeOK
    <2>6. /\ refreshTokens' \subseteq RefreshToken /\ DOMAIN issued' \subseteq 1..MaxTokens
          /\ loggedOut' \subseteq DOMAIN issued' /\ users' \subseteq User
          /\ signedIn' \subseteq Profiles \X (1..MaxUsers)
      BY <1>1, <1>3, <1>5, <1>9 DEF AuthInv, TypeOK
    <2> QED
      BY <1>1, <2>3, <2>4, <2>5, <2>6 DEF TypeOK
  <1>11. AccountInv'
    <2>1. \A d \in Calls : call'[d].step = "link" => call'[d] = call[d]
      BY <1>1, <1>7
    <2> QED
      BY <1>1, <2>1, UsersUntouched
  <1>12. TokenKeys'
    <2>1. /\ IsFiniteSet(DOMAIN issued) /\ Cardinality(DOMAIN issued) \in Nat
          /\ \A t \in DOMAIN issued : t \in 1..Cardinality(DOMAIN issued)
      BY FS_CardinalityType DEF AuthInv, SessionInv, TokenKeys
    <2>2. /\ IsFiniteSet(DOMAIN issued')
          /\ Cardinality(DOMAIN issued') = Cardinality(DOMAIN issued) + 1
      <3>1. DOMAIN issued' = DOMAIN issued \cup {id} /\ id \notin DOMAIN issued
        BY <1>1
      <3> QED
        BY ONLY <2>1, <3>1, FS_AddElement
    <2>3. \A t \in DOMAIN issued' : t \in 1..Cardinality(DOMAIN issued')
      BY <1>1, <2>1, <2>2
    <2>4. \A r \in refreshTokens' : r.id \in DOMAIN issued'
      BY <1>1, <1>3, <1>5 DEF AuthInv, SessionInv, TokenKeys
    <2>5. \A r, s \in refreshTokens' : r.id = s.id => r = s
      BY <1>1, <1>3, <1>5 DEF AuthInv, SessionInv, TokenKeys
    <2>6. \A d \in Calls :
            /\ call'[d].step = "delete" =>
                 /\ call'[d].token.id \in DOMAIN issued'
                 /\ \E u \in users' : u.id = call'[d].token.userId
            /\ call'[d].step = "tokens" => call'[d].from \in {0} \cup DOMAIN issued'
      BY <1>1, <1>7 DEF AuthInv, SessionInv, TokenKeys
    <2> QED
      BY <2>2, <2>3, <2>4, <2>5, <2>6 DEF TokenKeys
  <1>13. \A t \in DOMAIN issued : Unspent(t) /\ t # f => Unspent(t)'
    BY <1>1, <1>4 DEF Unspent
  <1>14. SpendsOnce'
    <2>1. Unspent(id)'
      <3>1. id \notin loggedOut' /\ id # 0
        BY <1>1 DEF AuthInv, TypeOK
      <3>2. \A n \in DOMAIN issued' : issued'[n].from # id
        BY <1>1, <1>4, <1>9, <3>1
      <3> QED
        BY <3>1, <3>2 DEF Unspent
    <2>2. ASSUME NEW r \in refreshTokens'
          PROVE  Unspent(r.id)'
      <3>1. CASE r \in refreshTokens
        <4>1. r.id \in DOMAIN issued /\ Unspent(r.id)
          BY <3>1 DEF AuthInv, SessionInv, TokenKeys, SpendsOnce
        <4>2. r.id # f
          BY <1>1, <1>6, <1>9, <3>1, <4>1 DEF AuthInv, SessionInv, OneHead, SessionOf
        <4> QED
          BY <1>13, <4>1, <4>2
      <3> QED
        BY <1>3, <1>5, <2>1, <3>1
    <2>3. ASSUME NEW d \in Calls, NEW t \in DOMAIN issued', Renews(d, t)'
          PROVE  Unspent(t)'
      <3>1. d # c /\ Renews(d, t) /\ t \in DOMAIN issued
        BY <1>8, <2>3 DEF Renews, AuthInv, SessionInv, TokenKeys
      <3>2. Unspent(t)
        BY <3>1 DEF AuthInv, SessionInv, SpendsOnce
      <3>3. t # f
        <4> SUFFICES ASSUME t = f PROVE FALSE
          OBVIOUS
        <4>1. Renews(c, t)
          BY <1>6, <3>1 DEF Renews
        <4> QED
          BY <3>1, <4>1 DEF AuthInv, SessionInv, OneHead
      <3> QED
        BY <1>13, <3>1, <3>2, <3>3
    <2>4. f # 0 => f \in DOMAIN issued /\ Unspent(f)
      BY <1>1, <1>6 DEF AuthInv, SessionInv, SpendsOnce
    <2>5. ASSUME NEW m \in DOMAIN issued', NEW n \in DOMAIN issued',
                 issued'[m].from = issued'[n].from, issued'[m].from # 0
          PROVE  m = n
      <3>1. f # 0 => \A k \in DOMAIN issued : issued[k].from # f
        BY <2>4 DEF Unspent
      <3>2. \A j, k \in DOMAIN issued :
              issued[j].from = issued[k].from /\ issued[j].from # 0 => j = k
        BY DEF AuthInv, SessionInv, SpendsOnce
      <3> QED
        BY <1>1, <1>4, <2>5, <3>1, <3>2
    <2>6. \A n \in DOMAIN issued' : issued'[n].from \notin loggedOut'
      <3>1. 0 \notin loggedOut
        BY <1>9 DEF AuthInv, TypeOK
      <3> QED
        BY <1>1, <1>4, <2>4, <3>1 DEF AuthInv, SessionInv, SpendsOnce, Unspent
    <2> QED
      BY <2>2, <2>3, <2>5, <2>6 DEF SpendsOnce
  <1>15. OneHead'
    <2>1. \A t \in DOMAIN issued : issued'[t].session = issued[t].session
      BY <1>1
    <2>2. ASSUME NEW r \in refreshTokens
          PROVE  r.id \in DOMAIN issued /\ issued[r.id].session # issued'[id].session
      <3>1. r.id \in DOMAIN issued
        BY DEF AuthInv, SessionInv, TokenKeys
      <3>2. f # 0 => issued[r.id].session # issued[f].session
        BY <1>1, <1>6 DEF AuthInv, SessionInv, OneHead, SessionOf
      <3> QED
        BY <1>1, <1>4, <1>9, <3>1, <3>2
    <2>3. ASSUME NEW r \in refreshTokens', NEW s \in refreshTokens',
                 issued'[r.id].session = issued'[s.id].session
          PROVE  r = s
      BY <1>3, <1>5, <2>1, <2>2, <2>3 DEF AuthInv, SessionInv, OneHead, SessionOf
    <2>4. ASSUME NEW d \in Calls, NEW t \in DOMAIN issued', Renews(d, t)'
          PROVE  /\ \A r \in refreshTokens' : issued'[r.id].session # issued'[t].session
                 /\ \A e \in Calls, s \in DOMAIN issued' :
                      Renews(e, s)' /\ issued'[s].session = issued'[t].session => e = d
      <3>1. \A e \in Calls, s \in DOMAIN issued' :
              Renews(e, s)' => e # c /\ Renews(e, s) /\ s \in DOMAIN issued
        BY <1>8 DEF Renews, AuthInv, SessionInv, TokenKeys
      <3>2. d # c /\ Renews(d, t) /\ t \in DOMAIN issued
        BY <2>4, <3>1
      <3>3. issued[t].session # issued'[id].session
        <4>1. CASE f = 0
          BY <1>1, <1>4, <1>9, <3>2, <4>1
        <4>2. CASE f # 0
          <5>1. f \in DOMAIN issued /\ Renews(c, f)
            BY <1>1, <1>6, <4>2
          <5> QED
            BY <1>4, <3>2, <4>2, <5>1 DEF AuthInv, SessionInv, OneHead, SessionOf
        <4> QED
          BY <4>1, <4>2
      <3>4. \A r \in refreshTokens : issued[r.id].session # issued[t].session
        BY <3>2 DEF AuthInv, SessionInv, OneHead, SessionOf
      <3>5. \A r \in refreshTokens' : issued'[r.id].session # issued'[t].session
        BY <1>3, <1>5, <2>1, <2>2, <3>2, <3>3, <3>4
      <3>6. \A e \in Calls, s \in DOMAIN issued :
              Renews(e, s) /\ issued[s].session = issued[t].session => e = d
        BY <3>2 DEF AuthInv, SessionInv, OneHead, SessionOf
      <3> QED
        BY <2>1, <3>1, <3>2, <3>5, <3>6
    <2> QED
      BY <2>3, <2>4 DEF OneHead, SessionOf
  <1> QED
    BY <1>10, <1>11, <1>12, <1>14, <1>15 DEF AuthInv, SessionInv

\* Rows that disappear, or only expire, take nothing with them that is known of the
\* sessions, when no call starts to renew.
LEMMA FewerTokens ==
  ASSUME AuthInv, UNCHANGED <<users, issued>>,
         \A r \in refreshTokens' : \E s \in refreshTokens : s.id = r.id,
         \A r, s \in refreshTokens' : r.id = s.id => r = s,
         loggedOut \subseteq loggedOut',
         \A t \in loggedOut' \ loggedOut :
           /\ \E r \in refreshTokens : r.id = t
           /\ \A r \in refreshTokens' : r.id # t,
         \A d \in Calls : call'[d] = call[d]
  PROVE  SessionInv'
  <1>1. \A d \in Calls : \A t : Renews(d, t)' <=> Renews(d, t)
    BY DEF Renews
  <1>2. \A r \in refreshTokens' : r.id \in DOMAIN issued
    BY DEF AuthInv, SessionInv, TokenKeys
  <1>3. TokenKeys'
    BY <1>2 DEF AuthInv, SessionInv, TokenKeys
  <1>4. \A r \in refreshTokens' : Unspent(r.id) /\ r.id \notin loggedOut'
    BY DEF AuthInv, SessionInv, SpendsOnce, Unspent
  <1>5. ASSUME NEW d \in Calls, NEW t \in DOMAIN issued, Renews(d, t)
        PROVE  Unspent(t) /\ t \notin loggedOut'
    <2>1. Unspent(t) /\ \A r \in refreshTokens : r.id # t
      BY <1>5 DEF AuthInv, SessionInv, SpendsOnce, OneHead
    <2> QED
      BY <2>1 DEF Unspent
  <1>6. \A n \in DOMAIN issued : issued[n].from \notin loggedOut'
    BY DEF AuthInv, SessionInv, SpendsOnce, Unspent
  <1>7. SpendsOnce'
    <2>1. \A r \in refreshTokens' : Unspent(r.id)'
      BY <1>4 DEF Unspent
    <2>2. \A d \in Calls, t \in DOMAIN issued' : Renews(d, t)' => Unspent(t)'
      BY <1>1, <1>5 DEF Unspent
    <2> QED
      BY <1>6, <2>1, <2>2 DEF AuthInv, SessionInv, SpendsOnce
  <1>8. OneHead'
    <2>1. \A r, s \in refreshTokens' :
            issued[r.id].session = issued[s.id].session => r = s
      BY DEF AuthInv, SessionInv, OneHead, SessionOf
    <2>2. \A d \in Calls, t \in DOMAIN issued : Renews(d, t) =>
            \A r \in refreshTokens' : issued[r.id].session # issued[t].session
      BY DEF AuthInv, SessionInv, OneHead, SessionOf
    <2>3. \A d \in Calls, t \in DOMAIN issued : Renews(d, t) =>
            \A e \in Calls, s \in DOMAIN issued :
              Renews(e, s) /\ issued[s].session = issued[t].session => e = d
      BY DEF AuthInv, SessionInv, OneHead, SessionOf
    <2> QED
      BY <1>1, <2>1, <2>2, <2>3 DEF OneHead, SessionOf
  <1> QED
    BY <1>3, <1>7, <1>8 DEF SessionInv

\* logout: the token can be nobody's to renew, for it is still there.
LEMMA LogoutKeeps ==
  ASSUME AuthInv, NEW t \in refreshTokens, Logout(t)
  PROVE  AuthInv'
  <1>1. /\ refreshTokens' = refreshTokens \ {t} /\ loggedOut' = loggedOut \cup {t.id}
        /\ UNCHANGED <<users, call, issued, signedIn>>
    BY DEF Logout
  <1>2. /\ t.id \in DOMAIN issued
        /\ \A r, s \in refreshTokens : r.id = s.id => r = s
    BY DEF AuthInv, SessionInv, TokenKeys
  <1>3. TypeOK'
    BY <1>1, <1>2 DEF AuthInv, TypeOK
  <1>4. AccountInv'
    BY <1>1, UsersUntouched
  <1>5. SessionInv'
    <2>1. /\ \A r \in refreshTokens' : \E s \in refreshTokens : s.id = r.id
          /\ \A r, s \in refreshTokens' : r.id = s.id => r = s
          /\ \A k \in loggedOut' \ loggedOut :
               /\ \E r \in refreshTokens : r.id = k
               /\ \A r \in refreshTokens' : r.id # k
      BY <1>1, <1>2
    <2> QED
      BY <1>1, <2>1, FewerTokens
  <1> QED
    BY <1>3, <1>4, <1>5 DEF AuthInv

\* A token that expires is the same token.
LEMMA ExpireKeeps ==
  ASSUME AuthInv, NEW t \in refreshTokens, Expire(t)
  PROVE  AuthInv'
  <1> DEFINE late == [t EXCEPT !.expired = TRUE]
  <1>1. /\ refreshTokens' = (refreshTokens \ {t}) \cup {late}
        /\ UNCHANGED <<users, call, issued, loggedOut, signedIn>>
    BY DEF Expire
  <1>2. t \in RefreshToken /\ \A r, s \in refreshTokens : r.id = s.id => r = s
    BY DEF AuthInv, TypeOK, SessionInv, TokenKeys
  <1>3. late \in RefreshToken /\ late.id = t.id /\ late.userId = t.userId
    BY <1>2 DEF RefreshToken
  <1> HIDE DEF late
  <1>4. TypeOK'
    <2>1. refreshTokens' \subseteq RefreshToken
      BY <1>1, <1>3 DEF AuthInv, TypeOK
    <2>2. \A r \in refreshTokens' : \E u \in users : u.id = r.userId
      BY <1>1, <1>3 DEF AuthInv, TypeOK
    <2> QED
      BY <1>1, <2>1, <2>2 DEF AuthInv, TypeOK
  <1>5. AccountInv'
    BY <1>1, UsersUntouched
  <1>6. SessionInv'
    <2>1. /\ \A r \in refreshTokens' : \E s \in refreshTokens : s.id = r.id
          /\ \A r, s \in refreshTokens' : r.id = s.id => r = s
      BY <1>1, <1>2, <1>3
    <2> QED
      BY <1>1, <2>1, FewerTokens
  <1> QED
    BY <1>4, <1>5, <1>6 DEF AuthInv

\* refreshToken.delete: the call that finds the row is the one way its session goes
\* on from here.
LEMMA DeleteTokenKeeps ==
  ASSUME AuthInv, NEW c \in Calls, DeleteToken(c)
  PROVE  AuthInv'
  <1> DEFINE t == call[c].token
             next == ToTokens(t.userId, t.id)
  <1>1. /\ call[c].step = "delete"
        /\ refreshTokens' = refreshTokens \ Stored(t)
        /\ Goto(c, IF Stored(t) = {} THEN Idle ELSE next)
        /\ UNCHANGED <<users, issued, loggedOut, signedIn>>
    BY DEF DeleteToken
  <1>2. t \in RefreshToken /\ t.id \in DOMAIN issued /\ \E u \in users : u.id = t.userId
    BY <1>1, CallKinds DEF AuthInv, SessionInv, TokenKeys
  <1>3. /\ t.id \in 0..MaxTokens /\ t.id # 0 /\ t.userId \in 1..MaxUsers
        /\ DOMAIN issued \subseteq 1..MaxTokens
    BY <1>2, BoundsAssumption DEF RefreshToken, AuthInv, TypeOK
  <1>4. /\ next \in AuthCall /\ next.step = "tokens" /\ next.from = t.id
        /\ next.userId = t.userId
    BY <1>3, ToTokensType
  <1>5. signedIn \subseteq Profiles \X (1..MaxUsers)
    BY DEF AuthInv, TypeOK
  <1>6. CASE Stored(t) = {}
    <2>1. Goto(c, Idle) /\ UNCHANGED <<users, refreshTokens, issued, loggedOut, signedIn>>
      BY <1>1, <1>6
    <2> QED
      BY <1>5, <2>1, MoveKeeps DEF Idle
  <1>7. CASE Stored(t) # {}
    <2>1. PICK stored \in refreshTokens : stored.id = t.id
      BY <1>7 DEF Stored
    <2>2. Goto(c, next) /\ refreshTokens' \subseteq refreshTokens
      BY <1>1, <1>7
    <2>3. \A r \in refreshTokens' : r.id # t.id
      BY <1>1 DEF Stored
    <2> HIDE DEF next, t
    <2>4. \A d \in Calls : call'[d] = IF d = c THEN next ELSE call[d]
      BY <1>4, <2>2, GotoType DEF AuthInv
    <2>5. TypeOK'
      BY <1>1, <1>2, <1>4, <1>5, <2>2, TypesKeep DEF AuthInv, TypeOK
    <2>6. AccountInv'
      BY <1>1, <1>4, <2>4, UsersUntouched
    <2>7. TokenKeys'
      BY <1>1, <1>2, <1>4, <2>2, <2>4 DEF AuthInv, SessionInv, TokenKeys
    <2>8. Unspent(t.id)
      BY <2>1 DEF AuthInv, SessionInv, SpendsOnce
    <2>9. \A d \in Calls, k \in DOMAIN issued :
            Renews(d, k)' => IF d = c THEN k = t.id ELSE Renews(d, k)
      BY <1>4, <2>4 DEF Renews
    <2>10. SpendsOnce'
      <3>1. \A d \in Calls, k \in DOMAIN issued : Renews(d, k)' => Unspent(k)
        BY <2>8, <2>9 DEF AuthInv, SessionInv, SpendsOnce
      <3>2. \A r \in refreshTokens' : Unspent(r.id)
        BY <2>2 DEF AuthInv, SessionInv, SpendsOnce
      <3>3. \A k : Unspent(k)' <=> Unspent(k)
        BY <1>1 DEF Unspent
      <3> QED
        BY <1>1, <3>1, <3>2, <3>3 DEF AuthInv, SessionInv, SpendsOnce
    <2>11. OneHead'
      <3>1. \A r, s \in refreshTokens :
              issued[r.id].session = issued[s.id].session => r = s
        BY DEF AuthInv, SessionInv, OneHead, SessionOf
      <3>2. \A r \in refreshTokens' : issued[r.id].session # issued[t.id].session
        BY <2>1, <2>2, <2>3, <3>1
      <3>3. ASSUME NEW d \in Calls, NEW k \in DOMAIN issued, Renews(d, k)
            PROVE  /\ \A r \in refreshTokens : issued[r.id].session # issued[k].session
                   /\ \A e \in Calls, s \in DOMAIN issued :
                        Renews(e, s) /\ issued[s].session = issued[k].session => e = d
        BY <3>3 DEF AuthInv, SessionInv, OneHead, SessionOf
      <3>4. \A d \in Calls, k \in DOMAIN issued :
              Renews(d, k) => issued[k].session # issued[t.id].session
        BY <2>1, <3>3
      <3>5. ASSUME NEW d \in Calls, NEW k \in DOMAIN issued, Renews(d, k)'
            PROVE  /\ \A r \in refreshTokens' : issued[r.id].session # issued[k].session
                   /\ \A e \in Calls, s \in DOMAIN issued :
                        Renews(e, s)' /\ issued[s].session = issued[k].session => e = d
        BY <2>2, <2>9, <3>2, <3>3, <3>4, <3>5
      <3> QED
        BY <1>1, <2>2, <3>1, <3>5 DEF OneHead, SessionOf
    <2> QED
      BY <2>5, <2>6, <2>7, <2>10, <2>11 DEF AuthInv, SessionInv
  <1> QED
    BY <1>6, <1>7

-----------------------------------------------------------------------------
(* The theorems.                                                           *)

\* Every step keeps the invariant.
LEMMA AuthInvStep ==
  AuthInv /\ [Next]_vars => AuthInv'
  <1> SUFFICES ASSUME AuthInv, [Next]_vars
               PROVE  AuthInv'
    OBVIOUS
  <1>1. CASE UNCHANGED vars
    <2>1. TypeOK'
      BY <1>1 DEF AuthInv, TypeOK, vars
    <2>2. AccountInv'
      BY <1>1, UsersUntouched DEF vars
    <2>3. SessionInv'
      BY <1>1, TokensUntouched DEF vars
    <2> QED
      BY <2>1, <2>2, <2>3 DEF AuthInv
  <1>2. ASSUME NEW c \in Calls,
               \/ \E email \in Emails, username \in Usernames : Register(c, email, username)
               \/ \E u \in users : Login(c, u)
               \/ \E p \in Profiles : GoogleLogin(c, p)
               \/ CreateGoogleUser(c) \/ LinkGoogle(c) \/ GenerateTokens(c)
               \/ \E t \in refreshTokens : Refresh(c, t)
               \/ DeleteToken(c)
        PROVE  AuthInv'
    BY <1>2, RegisterKeeps, LoginKeeps, GoogleLoginKeeps, CreateGoogleUserKeeps,
       LinkGoogleKeeps, GenerateTokensKeeps, RefreshKeeps, DeleteTokenKeeps
  <1>3. CASE \E u \in users, username \in Usernames : UpdateProfile(u, username)
    BY <1>3, UpdateProfileKeeps
  <1>4. CASE \E t \in refreshTokens : Logout(t) \/ Expire(t)
    BY <1>4, LogoutKeeps, ExpireKeeps
  <1>5. CASE Crash
    BY <1>5, CrashKeeps
  <1> QED
    BY <1>1, <1>2, <1>3, <1>4, <1>5 DEF Next

\* It holds at the start: no rows, no calls.
LEMMA AuthInvInit ==
  Init => AuthInv
  <1> SUFFICES ASSUME Init PROVE AuthInv
    OBVIOUS
  <1>1. /\ users = {} /\ refreshTokens = {} /\ loggedOut = {} /\ signedIn = {}
        /\ DOMAIN issued = {} /\ \A c \in Calls : call[c] = Idle
        /\ call \in [Calls -> {Idle} \cup AuthCall]
        /\ issued \in [DOMAIN issued -> [from : {0} \cup DOMAIN issued,
                                        session : DOMAIN issued]]
    BY DEF Init
  <1>2. IsFiniteSet({}) /\ Cardinality({}) = 0
    BY FS_EmptySet
  <1>3. TypeOK
    BY <1>1 DEF TypeOK, Idle
  <1>4. AccountInv
    BY <1>1, <1>2 DEF AccountInv, UserKeys, LinkedByEmail, SignedInLinked, Idle
  <1>5. SessionInv
    BY <1>1, <1>2 DEF SessionInv, TokenKeys, SpendsOnce, OneHead, Renews, Idle
  <1> QED
    BY <1>3, <1>4, <1>5 DEF AuthInv

\* So it always holds.
LEMMA AuthInvariant ==
  Spec => []AuthInv
  BY AuthInvInit, AuthInvStep, PTL DEF Spec

\* Rows and calls always have their types, and whoever has a session, or a call
\* that is to give them one, has an account.
THEOREM AuthTypeCorrect ==
  Spec => []TypeOK
  <1>1. AuthInv => TypeOK
    BY DEF AuthInv
  <1> QED
    BY <1>1, AuthInvariant, PTL

\* A Google account always signs in to the same user and no other one does: the
\* read of user.findFirst may be stale, but the user it has found can by then only
\* have been linked to this very account.
THEOREM OneUserEach ==
  Spec => []OneUserPerProfile
  <1>1. AuthInv => OneUserPerProfile
    <2> SUFFICES ASSUME AuthInv, NEW s \in signedIn, NEW t \in signedIn,
                        s[1] = t[1] \/ s[2] = t[2]
                 PROVE  s = t
      BY DEF OneUserPerProfile
    <2>1. PICK u \in users : u.id = s[2] /\ u.googleId = s[1]
      BY DEF AuthInv, AccountInv, SignedInLinked
    <2>2. PICK v \in users : v.id = t[2] /\ v.googleId = t[1]
      BY DEF AuthInv, AccountInv, SignedInLinked
    <2>3. /\ s \in Profiles \X (1..MaxUsers) /\ t \in Profiles \X (1..MaxUsers)
          /\ s[1] # NoProfile
      BY ProfilesAssumption DEF AuthInv, TypeOK
    <2>4. u = v
      BY <2>1, <2>2, <2>3 DEF AuthInv, AccountInv, UserKeys, LinkedByEmail
    <2> QED
      BY <2>1, <2>2, <2>3, <2>4
  <1> QED
    BY <1>1, AuthInvariant, PTL

\* A refresh token is exchanged once at most, and never after a logout.
THEOREM TokensSpentOnce ==
  Spec => []SpentOnce
  <1>1. AuthInv => SpentOnce
    <2> SUFFICES ASSUME AuthInv, NEW t \in DOMAIN issued
                 PROVE  LET next == {n \in DOMAIN issued : issued[n].from = t} IN
                        Cardinality(next) <= 1 /\ (t \in loggedOut => next = {})
      BY DEF SpentOnce
    <2> DEFINE next == {n \in DOMAIN issued : issued[n].from = t}
    <2>1. t # 0
      BY DEF AuthInv, TypeOK
    <2>2. \A m, n \in next : m = n
      BY <2>1 DEF AuthInv, SessionInv, SpendsOnce
    <2>3. t \in loggedOut => next = {}
      BY DEF AuthInv, SessionInv, SpendsOnce
    <2>4. next = {} \/ \E n : next = {n}
      BY <2>2
    <2>5. Cardinality(next) <= 1
      <3> HIDE DEF next
      <3>1. CASE next = {}
        <4>1. Cardinality(next) = 0
          BY <3>1, FS_EmptySet
        <4> QED
          BY <4>1
      <3>2. ASSUME NEW n, next = {n}
            PROVE  Cardinality(next) <= 1
        <4>1. Cardinality({n}) = 1
          BY FS_Singleton
        <4> QED
          BY <3>2, <4>1
      <3> QED
        BY <2>4, <3>1, <3>2
    <2> QED
      BY <2>3, <2>5
  <1> QED
    BY <1>1, AuthInvariant, PTL

\* However its refreshes cross, a session has one good token at most.
THEOREM OneTokenEach ==
  Spec => []OneTokenPerSession
  <1>1. AuthInv => OneTokenPerSession
    BY DEF AuthInv, SessionInv, OneHead, OneTokenPerSession
  <1> QED
    BY <1>1, AuthInvariant, PTL

-----------------------------------------------------------------------------
(* The tokens implement sessions.                                          *)

\* The values that stand for the variables of Sessions.
Opened == {SessionOf(t) : t \in DOMAIN issued}
Live == {SessionOf(r.id) : r \in refreshTokens}
Renewing == {SessionOf(call[c].from) :
               c \in {c \in Calls : call[c].step = "tokens" /\ call[c].from # 0}}

\* Who renews a session.
LEMMA RenewingHas ==
  ASSUME AuthInv, NEW s
  PROVE  s \in Renewing <=>
           \E c \in Calls, t \in DOMAIN issued : Renews(c, t) /\ s = issued[t].session
  <1>1. \A c \in Calls : call[c].step = "tokens" /\ call[c].from # 0 =>
                            call[c].from \in DOMAIN issued
    BY DEF AuthInv, SessionInv, TokenKeys
  <1>2. \A t \in DOMAIN issued : t # 0
    BY DEF AuthInv, TypeOK
  <1> QED
    BY <1>1, <1>2 DEF Renewing, Renews, SessionOf

\* The same of the state after a step.
LEMMA RenewingHasNext ==
  ASSUME AuthInv', NEW s
  PROVE  s \in Renewing' <=>
           \E c \in Calls, t \in DOMAIN issued' : Renews(c, t)' /\ s = issued'[t].session
  <1>1. \A c \in Calls : call'[c].step = "tokens" /\ call'[c].from # 0 =>
                            call'[c].from \in DOMAIN issued'
    BY DEF AuthInv, SessionInv, TokenKeys
  <1>2. \A t \in DOMAIN issued' : t # 0
    BY DEF AuthInv, TypeOK
  <1> QED
    BY <1>1, <1>2 DEF Renewing, Renews, SessionOf

\* What does not touch the tokens changes no session, when no call starts or stops
\* to renew one.
LEMMA SessionsStay ==
  ASSUME AuthInv, AuthInv', issued' = issued, Live' = Live,
         \A c \in Calls, t \in DOMAIN issued : Renews(c, t)' <=> Renews(c, t)
  PROVE  UNCHANGED Abstract!vars
  <1>1. Opened' = Opened
    BY DEF Opened, SessionOf
  <1>2. Renewing' = Renewing
    BY RenewingHas, RenewingHasNext
  <1> QED
    BY <1>1, <1>2 DEF Abstract!vars, Opened, Live, Renewing

\* So it is for a call that goes on without a session in hand.
LEMMA MoveStays ==
  ASSUME AuthInv, AuthInv', NEW c \in Calls, NEW next, Goto(c, next),
         call[c].step # "tokens", next.step = "tokens" => next.from = 0,
         UNCHANGED <<refreshTokens, issued>>
  PROVE  UNCHANGED Abstract!vars
  <1>1. \A d \in Calls : call'[d] = IF d = c THEN next ELSE call[d]
    BY DEF Goto, AuthInv, TypeOK
  <1>2. \A d \in Calls, t \in DOMAIN issued : Renews(d, t)' <=> Renews(d, t)
    BY <1>1 DEF Renews
  <1>3. Live' = Live
    BY DEF Live, SessionOf
  <1> QED
    BY <1>2, <1>3, SessionsStay

\* Registering, signing in and asking for a refresh change no session.
LEMMA SignInStays ==
  ASSUME AuthInv, AuthInv', NEW c \in Calls,
         \/ \E email \in Emails, username \in Usernames : Register(c, email, username)
         \/ \E u \in users : Login(c, u)
         \/ \E p \in Profiles : GoogleLogin(c, p)
         \/ CreateGoogleUser(c) \/ LinkGoogle(c)
         \/ \E t \in refreshTokens : Refresh(c, t)
  PROVE  UNCHANGED Abstract!vars
  <1>1. UNCHANGED <<refreshTokens, issued>> /\ call[c].step # "tokens"
    <2>1. Idle.step # "tokens"
      BY DEF Idle
    <2>2. CASE \E email \in Emails, username \in Usernames : Register(c, email, username)
      BY <2>1, <2>2 DEF Register
    <2>3. CASE \E u \in users : Login(c, u)
      BY <2>1, <2>3 DEF Login
    <2>4. CASE \E p \in Profiles : GoogleLogin(c, p)
      BY <2>1, <2>4 DEF GoogleLogin
    <2>5. CASE CreateGoogleUser(c)
      BY <2>5 DEF CreateGoogleUser
    <2>6. CASE LinkGoogle(c)
      BY <2>6 DEF LinkGoogle
    <2>7. CASE \E t \in refreshTokens : Refresh(c, t)
      BY <2>1, <2>7 DEF Refresh
    <2> QED
      BY <2>2, <2>3, <2>4, <2>5, <2>6, <2>7
  <1>2. \E next : Goto(c, next) /\ (next.step = "tokens" => next.from = 0)
    <2>1. \A id : ToTokens(id, 0).from = 0
      BY DEF ToTokens
    <2>2. Idle.step # "tokens"
      BY DEF Idle
    <2>3. CASE \E email \in Emails, username \in Usernames : Register(c, email, username)
      BY <2>1, <2>3 DEF Register
    <2>4. CASE \E u \in users : Login(c, u)
      BY <2>1, <2>4 DEF Login
    <2>5. ASSUME NEW p \in Profiles, GoogleLogin(c, p)
          PROVE  \E next : Goto(c, next) /\ (next.step = "tokens" => next.from = 0)
      <3>1. /\ [step |-> "create", profile |-> p].step # "tokens"
            /\ \A id : [step |-> "link", profile |-> p, userId |-> id].step # "tokens"
        OBVIOUS
      <3>2. \/ Goto(c, [step |-> "create", profile |-> p])
            \/ \E u \in users : \/ Goto(c, [step |-> "link", profile |-> p, userId |-> u.id])
                               \/ Goto(c, ToTokens(u.id, 0))
        BY <2>5 DEF GoogleLogin
      <3> QED
        BY <2>1, <3>1, <3>2
    <2>6. CASE CreateGoogleUser(c)
      BY <2>1, <2>2, <2>6 DEF CreateGoogleUser
    <2>7. CASE LinkGoogle(c)
      BY <2>1, <2>2, <2>7 DEF LinkGoogle
    <2>8. ASSUME NEW t \in refreshTokens, Refresh(c, t)
          PROVE  \E next : Goto(c, next) /\ (next.step = "tokens" => next.from = 0)
      <3>1. [step |-> "delete", token |-> t].step # "tokens"
        OBVIOUS
      <3> QED
        BY <2>8, <3>1 DEF Refresh
    <2> QED
      BY <2>3, <2>4, <2>5, <2>6, <2>7, <2>8
  <1> QED
    BY <1>1, <1>2, MoveStays

\* The steps of Sessions, told with the values that stand for its variables.
LEMMA Opens ==
  ASSUME NEW s \in (1..MaxTokens) \ Opened, Opened' = Opened \cup {s},
         Live' = Live \cup {s}, Renewing' = Renewing
  PROVE  Abstract!Next
  BY DEF Abstract!Next, Abstract!Open, Opened, Live, Renewing

\* A live session whose token is taken.
LEMMA Exchanges ==
  ASSUME NEW s \in 1..MaxTokens, s \in Live, Opened' = Opened,
         Live' = Live \ {s}, Renewing' = Renewing \cup {s}
  PROVE  Abstract!Next
  BY DEF Abstract!Next, Abstract!Exchange, Opened, Live, Renewing

\* A session that gets its next token.
LEMMA Continues ==
  ASSUME NEW s \in 1..MaxTokens, s \in Renewing, Opened' = Opened,
         Live' = Live \cup {s}, Renewing' = Renewing \ {s}
  PROVE  Abstract!Next
  BY DEF Abstract!Next, Abstract!Renew, Opened, Live, Renewing

\* A live session that is ended.
LEMMA Ends ==
  ASSUME NEW s \in 1..MaxTokens, s \in Live, Opened' = Opened,
         Live' = Live \ {s}, Renewing' = Renewing
  PROVE  Abstract!Next
  BY DEF Abstract!Next, Abstract!Logout, Opened, Live, Renewing

\* The insert of a token opens a session, or renews the one it carries on.
LEMMA GenerateTokensMaps ==
  ASSUME AuthInv, AuthInv', NEW c \in Calls, GenerateTokens(c)
  PROVE  Abstract!Next
  <1> DEFINE f == call[c].from
  <1>1. PICK id \in 1..MaxTokens :
           /\ id = 1 + Cardinality(DOMAIN issued)
           /\ id \notin DOMAIN issued
           /\ f \in {0} \cup DOMAIN issued
           /\ refreshTokens' = refreshTokens \cup
                {[id |-> id, userId |-> call[c].userId, expired |-> FALSE]}
           /\ DOMAIN issued' = DOMAIN issued \cup {id}
           /\ \A t \in DOMAIN issued : issued'[t] = issued[t]
           /\ issued'[id] = NewToken(c, id)
           /\ issued' = [t \in DOMAIN issued' |-> issued'[t]]
           /\ \A d \in Calls : call'[d] = IF d = c THEN Idle ELSE call[d]
           /\ call' \in [Calls -> {Idle} \cup AuthCall]
           /\ UNCHANGED <<users, loggedOut, signedIn>>
    BY GenerateTokensDoes
  <1> DEFINE s == issued'[id].session
  <1>2. s = IF f = 0 THEN id ELSE issued[f].session
    BY <1>1 DEF NewToken, SessionOf
  <1>3. Opened' = Opened \cup {s}
    BY <1>1 DEF Opened, SessionOf
  <1>4. Live' = Live \cup {s}
    <2>1. \A r \in refreshTokens : r.id \in DOMAIN issued
      BY DEF AuthInv, SessionInv, TokenKeys
    <2> DEFINE row == [id |-> id, userId |-> call[c].userId, expired |-> FALSE]
    <2>2. row.id = id /\ refreshTokens' = refreshTokens \cup {row}
      BY <1>1
    <2> HIDE DEF row
    <2>3. \A r \in refreshTokens : issued'[r.id] = issued[r.id]
      BY <1>1, <2>1
    <2> QED
      BY <2>2, <2>3 DEF Live, SessionOf
  <1>5. \A t \in DOMAIN issued : issued[t].session \in DOMAIN issued
    BY DEF AuthInv, TypeOK
  <1>6. call[c].step = "tokens" /\ Idle.step # "tokens"
    BY DEF GenerateTokens, Idle
  <1>7. \A d \in Calls, t \in DOMAIN issued' :
          Renews(d, t)' <=> d # c /\ Renews(d, t) /\ t \in DOMAIN issued
    BY <1>1, <1>6 DEF Renews, AuthInv, SessionInv, TokenKeys
  <1>8. CASE f = 0
    <2>1. \A t : ~Renews(c, t)
      BY <1>8 DEF Renews
    <2>2. Renewing' = Renewing
      <3> SUFFICES ASSUME NEW x
                   PROVE  x \in Renewing' <=> x \in Renewing
        BY DEF Renewing
      <3> QED
        BY <1>1, <1>7, <2>1, RenewingHas, RenewingHasNext
    <2>3. s \in (1..MaxTokens) \ Opened
      BY <1>1, <1>2, <1>5, <1>8 DEF Opened, SessionOf
    <2> QED
      BY <1>3, <1>4, <2>2, <2>3, Opens
  <1>9. CASE f # 0
    <2>1. f \in DOMAIN issued /\ Renews(c, f) /\ s = issued[f].session
      BY <1>1, <1>2, <1>6, <1>9 DEF Renews
    <2>2. s \in Renewing /\ s \in Opened
      BY <2>1, RenewingHas DEF Opened, SessionOf
    <2>3. \A d \in Calls, t \in DOMAIN issued :
            Renews(d, t) /\ issued[t].session = s => d = c
      BY <2>1 DEF AuthInv, SessionInv, OneHead, SessionOf
    <2>4. \A t : Renews(c, t) => t = f
      BY DEF Renews
    <2>5. Renewing' = Renewing \ {s}
      BY <1>1, <1>7, <2>1, <2>3, <2>4, RenewingHas, RenewingHasNext
    <2>6. Opened' = Opened
      BY <1>3, <2>2
    <2>7. s \in 1..MaxTokens
      BY <1>5, <2>1 DEF AuthInv, TypeOK
    <2> QED
      BY <1>4, <2>2, <2>5, <2>6, <2>7, Continues
  <1> QED
    BY <1>8, <1>9

\* The delete of a token that is there exchanges it.
LEMMA DeleteTokenMaps ==
  ASSUME AuthInv, AuthInv', NEW c \in Calls, DeleteToken(c)
  PROVE  Abstract!Next \/ UNCHANGED Abstract!vars
  <1> DEFINE t == call[c].token
             next == ToTokens(t.userId, t.id)
             s == issued[t.id].session
  <1>1. /\ call[c].step = "delete"
        /\ refreshTokens' = refreshTokens \ Stored(t)
        /\ Goto(c, IF Stored(t) = {} THEN Idle ELSE next)
        /\ UNCHANGED <<users, issued, loggedOut, signedIn>>
    BY DEF DeleteToken
  <1>2. /\ t.id \in DOMAIN issued /\ t.id # 0 /\ s \in 1..MaxTokens
        /\ DOMAIN issued \subseteq 1..MaxTokens
    BY <1>1 DEF AuthInv, TypeOK, SessionInv, TokenKeys
  <1>3. next.step = "tokens" /\ next.from = t.id
    BY DEF ToTokens
  <1>4. CASE Stored(t) = {}
    BY <1>1, <1>4, MoveStays DEF Idle
  <1>5. CASE Stored(t) # {}
    <2>1. PICK stored \in refreshTokens : stored.id = t.id /\ Stored(t) = {stored}
      BY <1>5 DEF Stored, AuthInv, SessionInv, TokenKeys
    <2>2. Goto(c, next) /\ refreshTokens' = refreshTokens \ {stored}
      BY <1>1, <1>5, <2>1
    <2> HIDE DEF next, t
    <2>3. \A d \in Calls : call'[d] = IF d = c THEN next ELSE call[d]
      BY <2>2 DEF Goto, AuthInv, TypeOK
    <2>4. \A d \in Calls, k \in DOMAIN issued :
            Renews(d, k)' <=> IF d = c THEN k = t.id ELSE Renews(d, k)
      BY <1>2, <1>3, <2>3 DEF Renews
    <2>5. \A k : ~Renews(c, k)
      BY <1>1 DEF Renews
    <2>6. Renewing' = Renewing \cup {s}
      BY <1>1, <1>2, <2>4, <2>5, RenewingHas, RenewingHasNext
    <2>7. Live' = Live \ {s} /\ s \in Live
      BY <1>1, <2>1, <2>2 DEF Live, SessionOf, AuthInv, SessionInv, OneHead
    <2>8. Opened' = Opened
      BY <1>1 DEF Opened, SessionOf
    <2> QED
      BY <1>2, <2>6, <2>7, <2>8, Exchanges
  <1> QED
    BY <1>4, <1>5

\* Every step of the tokens is a step of the sessions, or none.
LEMMA SessionSteps ==
  AuthInv /\ AuthInv' /\ [Next]_vars => [Abstract!Next]_(Abstract!vars)
  <1> SUFFICES ASSUME AuthInv, AuthInv', [Next]_vars
               PROVE  Abstract!Next \/ UNCHANGED Abstract!vars
    OBVIOUS
  <1>1. CASE UNCHANGED vars
    BY <1>1, SessionsStay DEF vars, Live, SessionOf, Renews
  <1>2. ASSUME NEW c \in Calls,
               \/ \E email \in Emails, username \in Usernames : Register(c, email, username)
               \/ \E u \in users : Login(c, u)
               \/ \E p \in Profiles : GoogleLogin(c, p)
               \/ CreateGoogleUser(c) \/ LinkGoogle(c) \/ GenerateTokens(c)
               \/ \E t \in refreshTokens : Refresh(c, t)
               \/ DeleteToken(c)
        PROVE  Abstract!Next \/ UNCHANGED Abstract!vars
    BY <1>2, SignInStays, GenerateTokensMaps, DeleteTokenMaps
  <1>3. CASE \E u \in users, username \in Usernames : UpdateProfile(u, username)
    <2>1. UNCHANGED <<refreshTokens, issued, call>>
      BY <1>3 DEF UpdateProfile
    <2> QED
      BY <2>1, SessionsStay DEF Live, SessionOf, Renews
  <1>4. ASSUME NEW t \in refreshTokens, Expire(t)
        PROVE  UNCHANGED Abstract!vars
    <2> DEFINE late == [t EXCEPT !.expired = TRUE]
    <2>1. /\ refreshTokens' = (refreshTokens \ {t}) \cup {late}
          /\ UNCHANGED <<issued, call>>
      BY <1>4 DEF Expire
    <2>2. late.id = t.id
      BY DEF AuthInv, TypeOK, RefreshToken
    <2> HIDE DEF late
    <2>3. Live' = Live
      BY <2>1, <2>2 DEF Live, SessionOf
    <2> QED
      BY <2>1, <2>3, SessionsStay DEF Renews
  <1>5. ASSUME NEW t \in refreshTokens, Logout(t)
        PROVE  Abstract!Next
    <2> DEFINE s == issued[t.id].session
    <2>1. /\ refreshTokens' = refreshTokens \ {t} /\ UNCHANGED <<issued, call>>
      BY <1>5 DEF Logout
    <2>2. Live' = Live \ {s} /\ s \in Live
      BY <2>1 DEF Live, SessionOf, AuthInv, SessionInv, OneHead
    <2>3. Opened' = Opened /\ Renewing' = Renewing
      BY <2>1 DEF Opened, Renewing, SessionOf
    <2>4. s \in 1..MaxTokens
      BY DEF AuthInv, TypeOK, SessionInv, TokenKeys
    <2> QED
      BY <2>2, <2>3, <2>4, Ends
  <1>6. CASE Crash
    <2>1. /\ UNCHANGED <<refreshTokens, issued>>
          /\ \A c \in Calls : call'[c].step = "idle"
      BY <1>6 DEF Crash, Idle
    <2>2. Opened' = Opened /\ Live' = Live
      BY <2>1 DEF Opened, Live, SessionOf
    <2>3. Renewing' = {}
      BY <2>1 DEF Renewing
    <2>4. Abstract!Crash
      BY <2>2, <2>3 DEF Abstract!Crash, Opened, Live, Renewing
    <2> QED
      BY <2>4 DEF Abstract!Next
  <1> QED
    BY <1>1, <1>2, <1>3, <1>4, <1>5, <1>6 DEF Next

\* The tokens implement sessions: no session ever has two ways to go on, and none
\* comes back once it is over, whatever calls cross, fail or are repeated.
THEOREM TokensImplementSessions ==
  Spec => ImplementsSessions
  <1>1. Init => Abstract!Init
    BY DEF Init, Abstract!Init, Idle
  <1> QED
    BY <1>1, SessionSteps, AuthInvariant, PTL DEF Spec, ImplementsSessions, Abstract!Spec
=============================================================================
