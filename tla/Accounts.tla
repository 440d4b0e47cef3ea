------------------------------ MODULE Accounts ------------------------------
(***************************************************************************)
(* Accounts, their sessions and the links that reset a password: the auth    *)
(* service, the user service of the back office, and their repositories and *)
(* queries.                                                                 *)
(*                                                                          *)
(* Grain.  One query is one step; the transaction that creates an account,   *)
(* which takes no lock another step waits for, is one too.  A refresh token  *)
(* is a JWT without a nonce: one user's tokens of one second are the same    *)
(* string.  The service finds it by comparing it with the stored one, and    *)
(* never parses it.  Reset tokens are random, and known by the call of       *)
(* ForgotPassword that made them.  Access tokens outlive everything here:    *)
(* whoever ever had a session may still call what they allow.               *)
(***************************************************************************)
EXTENDS Integers, FiniteSets

CONSTANTS
  Ids,           \* ids of users, those never created included
  Emails,
  Root,          \* a tenant who is signed in at the start
  RootEmail,
  FirstLink,     \* a reset token mailed to him before, or Nil
  Nil,
  Requests,      \* calls of the two services
  AccountFaults, \* whether a query, the mail or the enforcer may fail
  MaxSecond      \* bound on the clock of the tokens

ASSUME AccountsAssumption ==
  /\ Root \in Ids /\ RootEmail \in Emails
  /\ Nil \notin Ids \cup Emails \cup Requests /\ FirstLink \notin Requests
  /\ Nil \notin [user : Ids, email : Emails, second : 0..MaxSecond]
  /\ AccountFaults \in BOOLEAN /\ MaxSecond \in Nat

VARIABLES
  people,    \* people[u]: a row of users
  request,   \* request[c]: a call of a service
  second,    \* the clock the tokens are signed with
  mailed,    \* reset tokens in somebody's mailbox
  handed,    \* refresh tokens somebody was given
  resets,    \* history: resets[u]: how often u's password was reset
  since,     \* history: since[u]: resets[u] when the call that stored u's
             \* token had read u
  ended,     \* history: tokens that were stored and are no longer
  resigned,  \* history: tokens two calls have signed
  spent,     \* history: spent[l]: passwords reset with the link l
  contested, \* history: emails two creations did not find at the same time,
             \* or an administrator gave
  doubled,   \* history: links two calls had found at the same time
  overtaken  \* history: users whose password was reset between the read and
             \* the store of another call

accountVars == <<people, request, second, mailed, handed, resets, since, ended,
                 resigned, spent, contested, doubled, overtaken>>

Token(u, e, s) == [user |-> u, email |-> e, second |-> s]
Links == (Requests \cup {FirstLink}) \ {Nil}

Unborn == [state |-> "unborn", email |-> RootEmail, local |-> FALSE, owner |-> Nil,
           refresh |-> Nil, reset |-> Nil, expired |-> FALSE]
NoRequest == [pc |-> "new", op |-> "login", email |-> Nil, user |-> Nil, token |-> Nil,
              link |-> Nil, read |-> 0]

AccountsInit ==
  /\ people = [u \in Ids |-> IF u # Root THEN Unborn ELSE
       [Unborn EXCEPT !.state = "live", !.local = TRUE, !.reset = FirstLink,
                      !.refresh = Token(Root, RootEmail, 0)]]
  /\ mailed = {FirstLink} \ {Nil}
  /\ request = [c \in Requests |-> NoRequest]
  /\ second = 0
  /\ handed = {Token(Root, RootEmail, 0)}
  /\ resets = [u \in Ids |-> 0] /\ since = [u \in Ids |-> 0]
  /\ ended = {} /\ resigned = {}
  /\ spent = [l \in Links |-> 0]
  /\ contested = {} /\ doubled = {} /\ overtaken = {}

Live(u) == u \in Ids /\ people[u].state = "live"

(***************************************************************************)
(* The queries.                                                             *)
(***************************************************************************)

GetUserByEmail(e) == {u \in Ids : Live(u) /\ people[u].email = e}
GetUserByResetToken(l) == {u \in Ids : Live(u) /\ people[u].reset = l}
GetUserByRefreshToken(t) == {u \in Ids : Live(u) /\ people[u].refresh = t}

Upsert(u, row) == people' = [people EXCEPT ![u] = row]

(* An UPDATE of a row that is gone changes nothing.                         *)
Set(u, row) == people' = [people EXCEPT ![u] = IF Live(u) THEN row ELSE @]

(* The token that is stored no longer.                                      *)
Ends(u, t) == ended' = IF Live(u) /\ people[u].refresh \notin {Nil, t}
                         THEN ended \cup {people[u].refresh} ELSE ended

UpdateRefreshToken(u, t) == Set(u, [people[u] EXCEPT !.refresh = t]) /\ Ends(u, t)

LogoutKeeps(u) == UNCHANGED people /\ Ends(u, Nil)

ClearRefreshToken(u) == Set(u, [people[u] EXCEPT !.refresh = Nil]) /\ Ends(u, Nil)

SetResetPasswordToken(u, l) ==
  Set(u, [people[u] EXCEPT !.reset = l, !.expired = FALSE]) /\ UNCHANGED ended

KeepSession(u) ==
  Set(u, [people[u] EXCEPT !.local = TRUE, !.reset = Nil]) /\ Ends(u, Nil)

KeepLink(u) ==
  Set(u, [people[u] EXCEPT !.local = TRUE, !.refresh = Nil]) /\ Ends(u, Nil)

UpdatePasswordAndClearTokens(u) ==
  Set(u, [people[u] EXCEPT !.local = TRUE, !.refresh = Nil, !.reset = Nil])
  /\ Ends(u, Nil)

(***************************************************************************)
(* The calls.  A call that ends forgets what it worked on.                  *)
(***************************************************************************)

history == <<resets, since, ended, resigned, spent, contested, doubled, overtaken>>

End(c) == request' = [request EXCEPT ![c] = [NoRequest EXCEPT !.pc = "done"]]

Goes(c, pc) == request' = [request EXCEPT ![c].pc = pc]

Begins(c, op, fields) ==
  /\ request[c].pc = "new"
  /\ request' = [request EXCEPT ![c] = [fields EXCEPT !.pc = "find", !.op = op]]
  /\ UNCHANGED <<people, second, mailed, handed, history>>

RegisterUser(c, e) == Begins(c, "register", [NoRequest EXCEPT !.email = e])
ValidateSocialUser(c, e) == Begins(c, "social", [NoRequest EXCEPT !.email = e])
LoginUser(c, e) == Begins(c, "login", [NoRequest EXCEPT !.email = e])
ForgotPassword(c, e) == Begins(c, "forgot", [NoRequest EXCEPT !.email = e])
ResetPassword(c, l) == l \in mailed /\ Begins(c, "reset", [NoRequest EXCEPT !.link = l])
RefreshAccessToken(c, t) == t \in handed /\ Begins(c, "refresh", [NoRequest EXCEPT !.token = t])

(* A query fails: the call answers with an error.                           *)
Fail(c) ==
  /\ AccountFaults /\ request[c].pc \notin {"new", "done"}
  /\ End(c)
  /\ UNCHANGED <<people, second, mailed, handed, history>>

(* A token is signed now; the query after stores it.                        *)
Sign(c, u, e) ==
  LET t == Token(u, e, second) IN
  /\ request' = [request EXCEPT ![c].pc = "store", ![c].user = u, ![c].token = t,
                               ![c].read = resets[u]]
  /\ resigned' = IF \/ t \in ended \cup handed
                    \/ people[u].refresh = t
                    \/ \E d \in Requests : request[d].pc = "store" /\ request[d].token = t
                 THEN resigned \cup {t} ELSE resigned

(* LoginUser, ValidateSocialUser and RefreshAccessToken with a user found:   *)
(* a login needs the user to have a password, and the right one.            *)
Authenticate(c) ==
  /\ request[c].pc = "find"
  /\ \E u \in IF request[c].op = "refresh" THEN GetUserByRefreshToken(request[c].token)
              ELSE GetUserByEmail(request[c].email) :
        /\ \/ request[c].op \in {"social", "refresh"}
           \/ request[c].op = "login" /\ people[u].local
        /\ Sign(c, u, people[u].email)
  /\ UNCHANGED <<people, second, mailed, handed, resets, since, ended, spent,
                 contested, doubled, overtaken>>

(* The call ends here: the user is not there, or is when he should not be,   *)
(* or the password is wrong or the link has expired.                        *)
Refuse(c) ==
  LET r == request[c] IN
  /\ r.pc = "find"
  /\ \/ r.op \in {"login", "forgot"}
     \/ r.op = "refresh" /\ GetUserByRefreshToken(r.token) = {}
     \/ r.op = "register" /\ GetUserByEmail(r.email) # {}
     \/ r.op = "reset" /\ (\/ GetUserByResetToken(r.link) = {}
                           \/ \E u \in GetUserByResetToken(r.link) : people[u].expired)
  /\ End(c)
  /\ UNCHANGED <<people, second, mailed, handed, history>>

SignupAlways(c) ==
  LET e == request[c].email IN
  /\ request[c].pc = "find" /\ request[c].op \in {"register", "social"}
  /\ Goes(c, "create")
  /\ contested' = IF \E d \in Requests : request[d].pc = "create" /\ request[d].email = e
                  THEN contested \cup {e} ELSE contested
  /\ UNCHANGED <<people, second, mailed, handed, resets, since, ended, resigned, spent,
                 doubled, overtaken>>

(* Nobody has the email: the free package and the tenant role are looked up. *)
ResolveSignupDefaults(c) ==
  LET e == request[c].email IN
  /\ request[c].pc = "find" /\ request[c].op \in {"register", "social"}
  /\ GetUserByEmail(e) = {}
  /\ Goes(c, "create")
  /\ contested' = IF \E d \in Requests : request[d].pc = "create" /\ request[d].email = e
                  THEN contested \cup {e} ELSE contested
  /\ UNCHANGED <<people, second, mailed, handed, resets, since, ended, resigned, spent,
                 doubled, overtaken>>

(* The user, his role and his subscription; nothing makes the email unique.  *)
CreateUserWithFreePlan(c, u) ==
  /\ request[c].pc = "create" /\ people[u].state = "unborn"
  /\ people' = [people EXCEPT ![u] = [Unborn EXCEPT !.state = "live",
                  !.email = request[c].email, !.local = request[c].op = "register"]]
  /\ request' = [request EXCEPT ![c].pc = "bind", ![c].user = u]
  /\ UNCHANGED <<second, mailed, handed, history>>

(* The user is bound to his role in Casbin, and the tokens are signed.  From *)
(* here on a failure leaves the account behind.                             *)
AddGroupingPolicy(c) ==
  /\ request[c].pc = "bind"
  /\ Sign(c, request[c].user, request[c].email)
  /\ UNCHANGED <<people, second, mailed, handed, resets, since, ended, spent, contested,
                 doubled, overtaken>>

(* GenerateTokens stores the refresh token, and the call answers with it.    *)
GenerateTokens(c) ==
  LET u == request[c].user IN
  /\ request[c].pc = "store"
  /\ UpdateRefreshToken(u, request[c].token)
  /\ since' = [since EXCEPT ![u] = IF Live(u) THEN request[c].read ELSE @]
  /\ handed' = handed \cup {request[c].token}
  /\ End(c)
  /\ UNCHANGED <<second, mailed, resets, resigned, spent, contested, doubled, overtaken>>

(* ForgotPassword with a user who has a password.                           *)
StoreLink(c) ==
  /\ request[c].pc = "find" /\ request[c].op = "forgot"
  /\ \E u \in GetUserByEmail(request[c].email) :
       /\ people[u].local
       /\ request' = [request EXCEPT ![c].pc = "link", ![c].user = u]
  /\ UNCHANGED <<people, second, mailed, handed, history>>

KeepResetToken(c) ==
  /\ request[c].pc = "link"
  /\ SetResetPasswordToken(request[c].user, c)
  /\ Goes(c, "mail")
  /\ UNCHANGED <<second, mailed, handed, resets, since, resigned, spent, contested,
                 doubled, overtaken>>

SendPasswordResetEmail(c) ==
  /\ request[c].pc = "mail"
  /\ mailed' = mailed \cup {c}
  /\ End(c)
  /\ UNCHANGED <<people, second, handed, history>>

(* ResetPassword finds the user of a link that has not expired, hashes the   *)
(* password and stores it for that user, whatever became of the link.       *)
FindByLink(c) ==
  /\ request[c].pc = "find" /\ request[c].op = "reset"
  /\ \E u \in GetUserByResetToken(request[c].link) :
       /\ ~people[u].expired
       /\ request' = [request EXCEPT ![c].pc = "change", ![c].user = u]
  /\ doubled' = IF \E d \in Requests : request[d].pc = "change"
                                       /\ request[d].link = request[c].link
                THEN doubled \cup {request[c].link} ELSE doubled
  /\ UNCHANGED <<people, second, mailed, handed, resets, since, ended, resigned, spent,
                 contested, overtaken>>

ChangePassword(c) ==
  LET u == request[c].user IN
  /\ request[c].pc = "change"
  /\ UpdatePasswordAndClearTokens(u)
  /\ resets' = [resets EXCEPT ![u] = IF Live(u) THEN @ + 1 ELSE @]
  /\ spent' = [spent EXCEPT ![request[c].link] = IF Live(u) THEN @ + 1 ELSE @]
  /\ overtaken' = IF \E d \in Requests : request[d].pc = "store" /\ request[d].user = u
                  THEN overtaken \cup {u} ELSE overtaken
  /\ End(c)
  /\ UNCHANGED <<second, mailed, handed, since, resigned, contested, doubled>>

(* Whoever was given a session has an access token.                         *)
SignedIn(u) == \E t \in handed : t.user = u

Logout(c, u) ==
  /\ request[c].pc = "new" /\ SignedIn(u)
  /\ ClearRefreshToken(u)
  /\ End(c)
  /\ UNCHANGED <<second, mailed, handed, resets, since, resigned, spent, contested,
                 doubled, overtaken>>

(***************************************************************************)
(* The user service.                                                        *)
(***************************************************************************)

OwnAccount(u) == u

resolvePrimaryUserID(u) == IF people[u].owner = Nil THEN u ELSE people[u].owner

(* An administrator adds a user of his tenant, whose row must be there.      *)
CreateSubUser(c, by, u, e) ==
  /\ request[c].pc = "new" /\ SignedIn(by) /\ people[u].state = "unborn"
  /\ Live(resolvePrimaryUserID(by))
  /\ people' = [people EXCEPT ![u] = [Unborn EXCEPT !.state = "live", !.email = e,
                  !.local = TRUE, !.owner = resolvePrimaryUserID(by)]]
  /\ contested' = contested \cup {e}
  /\ End(c)
  /\ UNCHANGED <<second, mailed, handed, resets, since, ended, resigned, spent,
                 doubled, overtaken>>

(* Update reads the profile and sets what was sent: the email, or the        *)
(* password, which leaves the sessions and the links as they are.           *)
UpdateUser(c, u) ==
  /\ request[c].pc = "new" /\ Live(u) /\ \E by \in Ids : SignedIn(by)
  /\ request' = [request EXCEPT ![c] = [NoRequest EXCEPT !.pc = "profile", !.op = "update",
                                                        !.user = u]]
  /\ UNCHANGED <<people, second, mailed, handed, history>>

UpdateUserProfile(c, e) ==
  LET u == request[c].user IN
  /\ request[c].pc = "profile"
  /\ Set(u, IF e = Nil THEN [people[u] EXCEPT !.local = TRUE] ELSE [people[u] EXCEPT !.email = e])
  /\ contested' = contested \cup ({e} \ {Nil})
  /\ End(c)
  /\ UNCHANGED <<second, mailed, handed, resets, since, ended, resigned, spent,
                 doubled, overtaken>>

(* The users of a tenant go with him.                                       *)
DeleteUser(c, u) ==
  /\ request[c].pc = "new" /\ Live(u) /\ \E by \in Ids : SignedIn(by)
  /\ people' = [v \in Ids |-> IF v = u \/ people[v].owner = u
                              THEN [Unborn EXCEPT !.state = "removed"] ELSE people[v]]
  /\ End(c)
  /\ UNCHANGED <<second, mailed, handed, history>>

(***************************************************************************)
(* Time.                                                                    *)
(***************************************************************************)

Tick ==
  /\ second < MaxSecond /\ second' = second + 1
  /\ UNCHANGED <<people, request, mailed, handed, history>>

Expire(u) ==
  /\ Live(u) /\ people[u].reset # Nil /\ ~people[u].expired
  /\ people' = [people EXCEPT ![u].expired = TRUE]
  /\ UNCHANGED <<request, second, mailed, handed, history>>

AccountsStep(c) ==
  \/ \E e \in Emails : RegisterUser(c, e) \/ ValidateSocialUser(c, e) \/ LoginUser(c, e)
                       \/ ForgotPassword(c, e) \/ UpdateUserProfile(c, e)
  \/ UpdateUserProfile(c, Nil)
  \/ \E l \in mailed : ResetPassword(c, l)
  \/ \E t \in handed : RefreshAccessToken(c, t)
  \/ Fail(c) \/ Authenticate(c) \/ Refuse(c) \/ ResolveSignupDefaults(c)
  \/ AddGroupingPolicy(c) \/ GenerateTokens(c) \/ StoreLink(c) \/ KeepResetToken(c)
  \/ SendPasswordResetEmail(c) \/ FindByLink(c) \/ ChangePassword(c)
  \/ \E u \in Ids :
        \/ CreateUserWithFreePlan(c, u) \/ Logout(c, u) \/ UpdateUser(c, u) \/ DeleteUser(c, u)
        \/ \E by \in Ids, e \in Emails : CreateSubUser(c, by, u, e)

AccountsNext ==
  \/ \E c \in Requests : AccountsStep(c)
  \/ Tick
  \/ \E u \in Ids : Expire(u)

AccountsSpec == AccountsInit /\ [][AccountsNext]_accountVars

(***************************************************************************)
(* Properties.                                                              *)
(***************************************************************************)

Tokens == [user : Ids, email : Emails, second : 0..MaxSecond]
Person == [state : {"unborn", "live", "removed"}, email : Emails, local : BOOLEAN,
           owner : Ids \cup {Nil}, refresh : Tokens \cup {Nil}, reset : Links \cup {Nil},
           expired : BOOLEAN]
Request == [pc : {"new", "find", "create", "bind", "store", "link", "mail", "change",
                  "profile", "done"},
            op : {"register", "social", "login", "forgot", "reset", "refresh", "update"},
            email : Emails \cup {Nil}, user : Ids \cup {Nil}, token : Tokens \cup {Nil},
            link : Links \cup {Nil}, read : Nat]

(* Every variable has its type; a call that writes knows for whom, and only  *)
(* a user who is there has tokens.                                          *)
AccountsTypeOK ==
  /\ people \in [Ids -> Person]
  /\ request \in [Requests -> Request]
  /\ second \in 0..MaxSecond
  /\ mailed \subseteq Links /\ handed \subseteq Tokens
  /\ resets \in [Ids -> Nat] /\ since \in [Ids -> Nat]
  /\ ended \subseteq Tokens /\ resigned \subseteq Tokens
  /\ spent \in [Links -> Nat]
  /\ contested \subseteq Emails /\ doubled \subseteq Links /\ overtaken \subseteq Ids
  /\ \A c \in Requests : request[c].pc \in {"bind", "store", "link", "mail", "change", "profile"}
                            => request[c].user \in Ids
  /\ \A u \in Ids : people[u].state # "live" => people[u].refresh = Nil /\ people[u].reset = Nil

(* Nothing in the database makes an email unique.  Still two accounts share  *)
(* one only when two sign-ups for it both looked before either created it,   *)
(* or when an administrator, whose calls do not look, gave it.               *)
OneAccountUnlessRaced ==
  \A e \in Emails \ contested : Cardinality(GetUserByEmail(e)) <= 1

(* A link resets a password once, whatever else goes on, unless two calls    *)
(* have found its user before either stores.                                *)
ResetOnceUnlessRaced ==
  \A l \in Links \ doubled : spent[l] <= 1

(* The token of a session that was refreshed, logged out or ended by a reset *)
(* is not accepted again, unless the same string was signed a second time:   *)
(* within a second all tokens of a user are one.                            *)
EndedStaysEnded ==
  \A t \in ended \ resigned : GetUserByRefreshToken(t) = {}

(* After a reset no session lives that was opened with what was there before *)
(* it, unless the reset came between the read and the store of another call. *)
ResetEndsSessions ==
  \A u \in Ids \ overtaken : Live(u) /\ people[u].refresh # Nil => since[u] = resets[u]

(* Tenants are one level deep, whoever adds a user, and a user goes with his *)
(* tenant.                                                                  *)
TenantsWhole ==
  \A u \in Ids : Live(u) /\ people[u].owner # Nil =>
     Live(people[u].owner) /\ people[people[u].owner].owner = Nil
=============================================================================
