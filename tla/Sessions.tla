------------------------------ MODULE Sessions ------------------------------
(***************************************************************************)
(* Sign-in and refresh tokens of the identity service (services/identity). *)
(* A refresh token is a signed JWT, and it can be used as long as Redis    *)
(* has the key refresh:<jti>: login stores one, a refresh replaces it by   *)
(* another, logout deletes it, and Redis drops it when its time is up.     *)
(*                                                                         *)
(* Every call of Redis and of PostgreSQL that a handler makes is a step,   *)
(* and a handler can stop before each of them: an error, an abandoned      *)
(* request, a crash.                                                       *)
(*                                                                         *)
(* Abstracted: passwords and signatures (a token is its jti, and one that  *)
(* was not issued is refused), the organisation, which is part of a user's *)
(* name, and the access token, which is checked against no state.          *)
(***************************************************************************)
EXTENDS Naturals, FiniteSets

CONSTANTS Users,      \* the users, by organisation and email
          Handlers,   \* requests that can be served at a time
          MaxTokens,  \* bound on the refresh tokens issued
          MaxExtra    \* bound on the failed and second revocations of a sign-in

ASSUME HandlersAssumption == IsFiniteSet(Handlers)
ASSUME SessionBoundsAssumption == MaxTokens \in Nat /\ MaxExtra \in Nat

VARIABLES users,      \* users[u]: no row, or a row and its is_active
          live,       \* the jtis Redis has
          tokens,     \* tokens[j]: whose token j is and the sign-in it goes back to
          handler,    \* what a request is doing
          extra,      \* by sign-in: revocations that failed or came second
          ended,      \* the jtis deleted or expired
          logouts     \* by sign-in: logouts with a token that worked and was not
                      \* being refreshed

sessionVars == <<users, live, tokens, handler, extra, ended, logouts>>

Jtis       == 1..MaxTokens
NotServing == [phase |-> "idle"]
NoToken    == [user |-> "", login |-> 0]
Issued     == {j \in Jtis : tokens[j] # NoToken}

SessionInit ==
  /\ users = [u \in Users |-> "none"]
  /\ live = {} /\ ended = {}
  /\ tokens = [j \in Jtis |-> NoToken]
  /\ handler = [h \in Handlers |-> NotServing]
  /\ extra = [j \in Jtis |-> 0] /\ logouts = [j \in Jtis |-> 0]

Become(h, state) == handler' = [handler EXCEPT ![h] = state]

\* One revocation more that failed or came second.
Excess(login) == /\ extra[login] < MaxExtra
                 /\ extra' = [extra EXCEPT ![login] = @ + 1]

\* The requests that hold a token of a sign-in, or are about to issue one.
InFlight(login) == {h \in Handlers : /\ handler[h].phase \in {"read", "revoked", "issue"}
                                     /\ handler[h].login = login}

\* A request has read the token and not revoked it yet.
Reads(h, j) == handler[h].phase = "read" /\ handler[h].jti = j

(***************************************************************************)
(* Users: Register and AddMember create them, DELETE deactivates them and  *)
(* leaves their tokens in Redis                                            *)
(***************************************************************************)

CreateUser(u) == /\ users[u] = "none"
                 /\ users' = [users EXCEPT ![u] = "active"]
                 /\ UNCHANGED <<live, tokens, handler, extra, ended, logouts>>

DeactivateUser(u) ==
  /\ users[u] # "none"
  /\ users' = [users EXCEPT ![u] = "inactive"]
  /\ UNCHANGED <<live, tokens, handler, extra, ended, logouts>>

(***************************************************************************)
(* Login, Refresh and Logout                                               *)
(***************************************************************************)

\* GetUserByEmail, the checks of the row and of the password.
Login(h, u) ==
  /\ handler[h] = NotServing
  /\ users[u] = "active"
  /\ Become(h, [phase |-> "issue", user |-> u, login |-> 0])
  /\ UNCHANGED <<users, live, tokens, extra, ended, logouts>>

\* Mutant: the signature of the token is enough.
GetRefreshToken_Signed(j) == j \in Issued

\* The key is there.
GetRefreshToken(j) == j \in live

\* Refresh up to the answer of GetRefreshToken.
Refresh(h, j) ==
  /\ handler[h] = NotServing
  /\ j \in Issued
  /\ GetRefreshToken(j)
  /\ Become(h, [phase |-> "read", jti |-> j, user |-> tokens[j].user,
                login |-> tokens[j].login])
  /\ IF \E g \in Handlers : Reads(g, j)
     THEN Excess(tokens[j].login) ELSE UNCHANGED extra
  /\ UNCHANGED <<users, live, tokens, ended, logouts>>

\* Mutant: a refresh leaves the old token to its expiry.
Revoke_Never(h) ==
  /\ handler[h].phase = "read"
  /\ Become(h, [handler[h] EXCEPT !.phase = "revoked"])
  /\ UNCHANGED <<users, live, tokens, extra, ended, logouts>>

\* RevokeRefreshToken; its error is dropped.
Revoke(h) ==
  /\ handler[h].phase = "read"
  /\ \/ /\ live' = live \ {handler[h].jti} /\ ended' = ended \cup {handler[h].jti}
        /\ UNCHANGED extra
     \/ /\ Excess(handler[h].login)
        /\ UNCHANGED <<live, ended>>
  /\ Become(h, [handler[h] EXCEPT !.phase = "revoked"])
  /\ UNCHANGED <<users, tokens, logouts>>

\* Mutant: the row is read, and is_active is not looked at.
StillActive_Row(u) == users[u] # "none"

StillActive(u) == users[u] = "active"

\* GetUserByID: the user is read again after the old token is gone.
LoadUser(h) ==
  /\ handler[h].phase = "revoked"
  /\ Become(h, IF StillActive(handler[h].user)
               THEN [phase |-> "issue", user |-> handler[h].user,
                     login |-> handler[h].login]
               ELSE NotServing)
  /\ UNCHANGED <<users, live, tokens, extra, ended, logouts>>

\* A new jti, and the sign-in it goes back to.
IssueRefreshToken(h, j) ==
  tokens' = [tokens EXCEPT ![j] =
    [user |-> handler[h].user,
     login |-> IF handler[h].login = 0 THEN j ELSE handler[h].login]]

\* Mutant: the error of Redis is dropped, and the token is answered.
Store_Anyway(h) ==
  /\ handler[h].phase = "issue"
  /\ \E j \in Jtis : /\ j = Cardinality(Issued) + 1
                     /\ IssueRefreshToken(h, j)
                     /\ live' \in {live, live \cup {j}}
  /\ Become(h, NotServing)
  /\ UNCHANGED <<users, extra, ended, logouts>>

\* IssueRefreshToken and StoreRefreshToken, then the answer; when Redis refuses
\* the key the answer is 500 (Stop).
Store(h) ==
  /\ handler[h].phase = "issue"
  /\ \E j \in Jtis : /\ j = Cardinality(Issued) + 1
                     /\ IssueRefreshToken(h, j)
                     /\ live' = live \cup {j}
  /\ Become(h, NotServing)
  /\ UNCHANGED <<users, extra, ended, logouts>>

\* Logout: the presented token is deleted; an error is dropped.
Logout(j) ==
  /\ j \in Issued
  /\ live' \in {live, live \ {j}}
  /\ ended' = IF j \in live' THEN ended ELSE ended \cup {j}
  /\ logouts' = IF j \in live \ live' /\ \A h \in Handlers : ~Reads(h, j)
                THEN [logouts EXCEPT ![tokens[j].login] = @ + 1] ELSE logouts
  /\ UNCHANGED <<users, tokens, handler, extra>>

\* The time to live of a key is up, and the expiry in the token with it.
Expire(j) == /\ j \in live
             /\ live' = live \ {j} /\ ended' = ended \cup {j}
             /\ UNCHANGED <<users, tokens, handler, extra, logouts>>

\* An error, an abandoned request or a crash, wherever the handler is.
Stop(h) == /\ handler[h] # NotServing
           /\ Become(h, NotServing)
           /\ UNCHANGED <<users, live, tokens, extra, ended, logouts>>

SessionNext ==
  \/ \E u \in Users : CreateUser(u) \/ DeactivateUser(u)
  \/ \E h \in Handlers : \/ \E u \in Users : Login(h, u)
                         \/ \E j \in Jtis : Refresh(h, j)
                         \/ Revoke(h) \/ LoadUser(h) \/ Store(h) \/ Stop(h)
  \/ \E j \in Jtis : Logout(j) \/ Expire(j)

SessionSpec == SessionInit /\ [][SessionNext]_sessionVars

(***************************************************************************)
(* Properties                                                              *)
(***************************************************************************)

\* One sign-in has one token that works or is being replaced, one more for every
\* revocation that failed and every refresh that read a token another one had
\* read, and one fewer for every logout of a token that worked and that no refresh
\* had read (Refresh, auth.go:200-206; Logout, auth.go:254-270).
OneTokenPerSignIn ==
  \A login \in Issued :
    Cardinality({j \in live : tokens[j].login = login})
      + Cardinality({h \in InFlight(login) : handler[h].phase # "read"})
    <= 1 + extra[login] - logouts[login]

\* Whatever tokens clients still hold and whatever was refreshed meanwhile, a
\* sign-in is over once it was logged out of a token that worked and that no refresh
\* had read, and once more for every revocation that failed and every second reader:
\* none of its tokens works and no request is left that could issue one (Logout,
\* auth.go:254-270).
LogoutIsFinal ==
  \A login \in Issued : logouts[login] > extra[login] =>
    InFlight(login) = {} /\ \A j \in live : tokens[j].login # login

\* A token that was answered works until a refresh or a logout deletes it or it
\* expires: no answer comes before its key, and no step loses the key of another
\* token (auth.go:235-244, session.go:31-38).
AnsweredTokenWorks == Issued \subseteq live \cup ended

\* The tokens of a user that work, and the requests about to issue one more.
Remaining(u) ==
  Cardinality({j \in live : tokens[j].user = u})
    + Cardinality({h \in Handlers : handler[h].phase = "issue" /\ handler[h].user = u})

\* A deactivation leaves the tokens of the user in Redis, and a request that read
\* the row before still issues one; from then on what remains of the sessions only
\* dies out, however refreshes of several tokens overlap and fail
\* (auth.go:218-222; DeactivateUser, repository.go:195-206).
DeactivatedDieOut ==
  [][\A u \in Users : users[u] = "inactive" => Remaining(u)' <= Remaining(u)]_sessionVars

\* Requests and tokens have their types, and only issued tokens are live.
SessionTypeOK ==
  /\ users \in [Users -> {"none", "active", "inactive"}]
  /\ live \subseteq Issued /\ ended \subseteq Issued
  /\ tokens \in [Jtis -> {NoToken} \cup [user : Users, login : Jtis]]
  /\ handler \in [Handlers ->
       {NotServing} \cup [phase : {"read", "revoked"}, jti : Jtis, user : Users, login : Jtis]
              \cup [phase : {"issue"}, user : Users, login : {0} \cup Jtis]]
  /\ extra \in [Jtis -> 0..MaxExtra] /\ logouts \in [Jtis -> Nat]

\* The tokens that work are those of the sign-ins: one each, up to failed
\* revocations, overlapping refreshes and logouts, and every answered one
\* (auth.go:200-270).
TokensFollowSignIns == SessionTypeOK /\ OneTokenPerSignIn /\ AnsweredTokenWorks

\* What ends a session ends it: enough logouts the tokens of their sign-in, also
\* after failed and overlapping revocations, and a deactivation lets the tokens of
\* the user only die out (auth.go:218-222, 254-270).
EndedIsFinal == []LogoutIsFinal /\ DeactivatedDieOut
=============================================================================
