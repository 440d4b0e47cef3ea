-------------------------- MODULE Accounts_proofs --------------------------
(***************************************************************************)
(* Theorems about Accounts, for any users, emails, calls and seconds.       *)
(***************************************************************************)
EXTENDS Accounts, FiniteSetTheorems, TLAPS

-----------------------------------------------------------------------------
(* Types.                                                                    *)

(* What a call carries at each point, beside its type. *)
Carries(c) ==
  /\ request[c].pc = "find" /\ request[c].op \in {"register", "social", "login", "forgot"} =>
        request[c].email \in Emails
  /\ request[c].pc = "find" /\ request[c].op = "reset" => request[c].link \in Links
  /\ request[c].pc \in {"create", "bind"} =>
        request[c].email \in Emails /\ request[c].op \in {"register", "social"}
  /\ request[c].pc = "store" =>
        request[c].token \in Tokens /\ request[c].token.user = request[c].user
  /\ request[c].pc = "change" => request[c].link \in Links

(* A row that is not there is blank, and a token is its user's. *)
Blank(u) ==
  /\ people[u].state # "live" => people[u].owner = Nil
  /\ people[u].refresh # Nil => people[u].refresh.user = u

Inv == /\ AccountsTypeOK
       /\ \A c \in Requests : Carries(c)
       /\ \A u \in Ids : Blank(u)

LEMMA Apart == Root \in Ids /\ RootEmail \in Emails /\ Nil \notin Ids /\ Nil \notin Emails
               /\ Nil \notin Requests /\ MaxSecond \in Nat /\ 0 \in 0..MaxSecond
<1>1. MaxSecond \in Nat BY AccountsAssumption
<1> QED BY <1>1, AccountsAssumption

LEMMA LinkTypes == /\ \A c \in Requests : c \in Links
                   /\ {FirstLink} \ {Nil} \subseteq Links
                   /\ FirstLink \in Links \cup {Nil}
                   /\ \A l \in Links : l # Nil
BY Apart DEF Links

LEMMA TokenTypes ==
  /\ \A u \in Ids, e \in Emails, s \in 0..MaxSecond :
        Token(u, e, s) \in Tokens /\ Token(u, e, s).user = u
BY DEF Token, Tokens

LEMMA NoRequestType == NoRequest \in Request /\ NoRequest.pc = "new"
BY DEF NoRequest, Request

LEMMA UnbornType ==
  /\ Unborn \in Person /\ Unborn.state = "unborn" /\ Unborn.owner = Nil
  /\ Unborn.refresh = Nil /\ Unborn.reset = Nil
  /\ [Unborn EXCEPT !.state = "removed"] \in Person
BY Apart DEF Unborn, Person

(* What the invariant says, in the pieces the proofs use. *)
LEMMA Typed ==
  ASSUME Inv
  PROVE  /\ people \in [Ids -> Person] /\ request \in [Requests -> Request]
         /\ \A u \in Ids : people[u] \in Person /\ Blank(u)
         /\ \A c \in Requests : request[c] \in Request /\ Carries(c)
         /\ second \in 0..MaxSecond /\ mailed \subseteq Links /\ handed \subseteq Tokens
         /\ resets \in [Ids -> Nat] /\ since \in [Ids -> Nat]
         /\ ended \subseteq Tokens /\ resigned \subseteq Tokens /\ spent \in [Links -> Nat]
         /\ contested \subseteq Emails /\ doubled \subseteq Links /\ overtaken \subseteq Ids
         /\ \A c \in Requests :
               request[c].pc \in {"bind", "store", "link", "mail", "change", "profile"} =>
                  request[c].user \in Ids
         /\ \A u \in Ids : people[u].state # "live" =>
               people[u].refresh = Nil /\ people[u].reset = Nil
BY DEF Inv, AccountsTypeOK


LEMMA RequestStep ==
  ASSUME Inv, NEW c \in Requests, NEW r \in Request, request' = [request EXCEPT ![c] = r],
         r.pc \in {"bind", "store", "link", "mail", "change", "profile"} => r.user \in Ids,
         r.pc = "find" /\ r.op \in {"register", "social", "login", "forgot"} => r.email \in Emails,
         r.pc = "find" /\ r.op = "reset" => r.link \in Links,
         r.pc \in {"create", "bind"} => r.email \in Emails /\ r.op \in {"register", "social"},
         r.pc = "store" => r.token \in Tokens /\ r.token.user = r.user,
         r.pc = "change" => r.link \in Links,
         people' \in [Ids -> Person], \A u \in Ids : Blank(u)',
         \A u \in Ids : people'[u].state # "live" =>
            people'[u].refresh = Nil /\ people'[u].reset = Nil,
         second' \in 0..MaxSecond, mailed' \subseteq Links, handed' \subseteq Tokens,
         resets' \in [Ids -> Nat], since' \in [Ids -> Nat],
         ended' \subseteq Tokens, resigned' \subseteq Tokens, spent' \in [Links -> Nat],
         contested' \subseteq Emails, doubled' \subseteq Links, overtaken' \subseteq Ids
  PROVE  Inv'
<1>1. /\ request' \in [Requests -> Request] /\ request'[c] = r
      /\ \A d \in Requests : d # c => request'[d] = request[d]
  BY Typed
<1>2. ASSUME NEW d \in Requests PROVE Carries(d)'
  <2>1. CASE d = c BY <1>1, <2>1 DEF Carries
  <2>2. CASE d # c
    <3>1. request'[d] = request[d] /\ Carries(d) BY <1>1, <2>2, Typed
    <3> QED BY <3>1 DEF Carries
  <2> QED BY <2>1, <2>2
<1>3. \A d \in Requests : request'[d].pc \in {"bind", "store", "link", "mail", "change", "profile"}
                             => request'[d].user \in Ids
  BY <1>1, Typed
<1>4. AccountsTypeOK' BY <1>1, <1>3 DEF AccountsTypeOK
<1> QED BY <1>2, <1>4 DEF Inv

(* An UPDATE of one user's row. *)
LEMMA SetStep ==
  ASSUME Inv, NEW u \in Ids, NEW row \in Person, Set(u, row),
         Live(u) => row.state = "live", row.refresh # Nil => row.refresh.user = u
  PROVE  /\ people' \in [Ids -> Person]
         /\ \A v \in Ids : Blank(v)'
         /\ \A v \in Ids : people'[v].state # "live" =>
               people'[v].refresh = Nil /\ people'[v].reset = Nil
<1>1. /\ people' \in [Ids -> Person] /\ people'[u] = (IF Live(u) THEN row ELSE people[u])
      /\ \A v \in Ids : v # u => people'[v] = people[v]
  BY Typed DEF Set
<1>2. ASSUME NEW v \in Ids
      PROVE  /\ Blank(v)'
             /\ people'[v].state # "live" => people'[v].refresh = Nil /\ people'[v].reset = Nil
  <2>1. CASE v = u /\ Live(u) BY <1>1, <2>1 DEF Blank
  <2>2. CASE people'[v] = people[v] BY <2>2, Typed DEF Blank
  <2> QED BY <1>1, <2>1, <2>2
<1> QED BY <1>1, <1>2

LEMMA EndsType ==
  ASSUME Inv, NEW u \in Ids, NEW t, Ends(u, t)
  PROVE  ended' \subseteq Tokens
<1>1. people[u].refresh \in Tokens \cup {Nil} BY Typed DEF Person
<1> QED BY <1>1, Typed DEF Ends

LEMMA DoneType == /\ [NoRequest EXCEPT !.pc = "done"] \in Request
                  /\ [NoRequest EXCEPT !.pc = "done"].pc = "done"
BY DEF NoRequest, Request

(* The call ends and one user's row may have been updated. *)
LEMMA EndType ==
  ASSUME Inv, NEW c \in Requests, End(c),
         people' \in [Ids -> Person], \A u \in Ids : Blank(u)',
         \A u \in Ids : people'[u].state # "live" =>
            people'[u].refresh = Nil /\ people'[u].reset = Nil,
         second' = second, mailed' \subseteq Links, handed' \subseteq Tokens,
         resets' \in [Ids -> Nat], since' \in [Ids -> Nat],
         ended' \subseteq Tokens, resigned' \subseteq Tokens, spent' \in [Links -> Nat],
         contested' \subseteq Emails, doubled' \subseteq Links, overtaken' \subseteq Ids
  PROVE  Inv'
<1> DEFINE r == [NoRequest EXCEPT !.pc = "done"]
<1>1. r \in Request /\ r.pc = "done" BY DoneType
<1>2. request' = [request EXCEPT ![c] = r] /\ second' \in 0..MaxSecond BY Typed DEF End
<1> HIDE DEF r
<1> QED BY <1>1, <1>2, RequestStep

LEMMA BlankKept == ASSUME Inv, people' = people PROVE \A u \in Ids : Blank(u)'
BY Typed DEF Blank

LEMMA BeginsType ==
  ASSUME Inv, NEW c \in Requests, NEW op \in {"register", "social", "login", "forgot", "reset", "refresh"},
         NEW fields \in Request, Begins(c, op, fields),
         op \in {"register", "social", "login", "forgot"} => fields.email \in Emails,
         op = "reset" => fields.link \in Links
  PROVE  Inv'
<1> DEFINE r == [fields EXCEPT !.pc = "find", !.op = op]
<1>1. r \in Request /\ r.pc = "find" /\ r.op = op /\ r.email = fields.email /\ r.link = fields.link
  BY DEF Request
<1>2. request' = [request EXCEPT ![c] = r] /\ UNCHANGED <<people, second, mailed, handed, history>>
  BY DEF Begins
<1> HIDE DEF r
<1> QED BY <1>1, <1>2, Typed, BlankKept, RequestStep DEF history

LEMMA SignType ==
  ASSUME Inv, NEW c \in Requests, NEW u \in Ids, NEW e \in Emails, Sign(c, u, e),
         UNCHANGED <<people, second, mailed, handed, resets, since, ended, spent, contested,
                     doubled, overtaken>>
  PROVE  Inv'
<1> DEFINE t == Token(u, e, second)
           r == [request[c] EXCEPT !.pc = "store", !.user = u, !.token = t, !.read = resets[u]]
<1>1. t \in Tokens /\ t.user = u BY Typed, TokenTypes
<1>2. resigned' \subseteq Tokens BY <1>1, Typed DEF Sign
<1>3. request[c] \in Request /\ resets[u] \in Nat BY Typed
<1>4. request' = [request EXCEPT ![c] = r] BY <1>3, Typed DEF Sign, Request
<1> HIDE DEF t
<1>5. r \in Request /\ r.pc = "store" /\ r.user = u /\ r.token = t BY <1>1, <1>3 DEF Request
<1> HIDE DEF r
<1> QED BY <1>1, <1>2, <1>4, <1>5, Typed, BlankKept, RequestStep

(* Only the program counter moves, past a point where what the call carries  *)
(* is looked at again.                                                      *)
LEMMA GoesType ==
  ASSUME Inv, NEW c \in Requests, NEW pc \in {"create", "mail"}, Goes(c, pc),
         pc = "mail" => request[c].user \in Ids,
         pc = "create" => request[c].email \in Emails /\ request[c].op \in {"register", "social"},
         people' \in [Ids -> Person], \A u \in Ids : Blank(u)',
         \A u \in Ids : people'[u].state # "live" =>
            people'[u].refresh = Nil /\ people'[u].reset = Nil,
         UNCHANGED <<second, mailed, handed, resets, since, ended, resigned, spent, doubled, overtaken>>,
         contested' \subseteq Emails
  PROVE  Inv'
<1> DEFINE r == [request[c] EXCEPT !.pc = pc]
<1>1. request[c] \in Request BY Typed
<1>2. /\ r \in Request /\ r.pc = pc /\ r.user = request[c].user /\ r.email = request[c].email
      /\ r.op = request[c].op
  BY <1>1 DEF Request
<1>3. request' = [request EXCEPT ![c] = r] BY DEF Goes
<1> HIDE DEF r
<1> QED BY <1>2, <1>3, Typed, RequestStep

(* The steps at the start of a call. *)
LEMMA StartType ==
  ASSUME Inv, NEW c \in Requests,
         \/ \E e \in Emails : \/ RegisterUser(c, e) \/ ValidateSocialUser(c, e)
                              \/ LoginUser(c, e) \/ ForgotPassword(c, e)
         \/ \E l \in mailed : ResetPassword(c, l)
         \/ \E t \in handed : RefreshAccessToken(c, t)
  PROVE  Inv'
<1>1. ASSUME NEW e \in Emails PROVE [NoRequest EXCEPT !.email = e] \in Request
                                    /\ [NoRequest EXCEPT !.email = e].email = e
  BY DEF NoRequest, Request
<1>2. ASSUME NEW l \in Links PROVE [NoRequest EXCEPT !.link = l] \in Request
                                   /\ [NoRequest EXCEPT !.link = l].link = l
  BY DEF NoRequest, Request
<1>3. ASSUME NEW t \in Tokens PROVE [NoRequest EXCEPT !.token = t] \in Request
  BY DEF NoRequest, Request
<1>4. ASSUME NEW e \in Emails, NEW op \in {"register", "social", "login", "forgot"},
             Begins(c, op, [NoRequest EXCEPT !.email = e]) PROVE Inv'
  <2> DEFINE r == [NoRequest EXCEPT !.email = e]
  <2>1. r \in Request /\ r.email = e /\ Begins(c, op, r) BY <1>1, <1>4
  <2> HIDE DEF r
  <2> QED BY <2>1, BeginsType
<1>5. ASSUME NEW l \in Links, Begins(c, "reset", [NoRequest EXCEPT !.link = l]) PROVE Inv'
  <2> DEFINE r == [NoRequest EXCEPT !.link = l]
  <2>1. r \in Request /\ r.link = l /\ Begins(c, "reset", r) BY <1>2, <1>5
  <2> HIDE DEF r
  <2> QED BY <2>1, BeginsType
<1>6. ASSUME NEW t \in Tokens, Begins(c, "refresh", [NoRequest EXCEPT !.token = t]) PROVE Inv'
  <2> DEFINE r == [NoRequest EXCEPT !.token = t]
  <2>1. r \in Request /\ Begins(c, "refresh", r) BY <1>3, <1>6
  <2> HIDE DEF r
  <2> QED BY <2>1, BeginsType
<1> QED
  BY <1>4, <1>5, <1>6, Typed DEF RegisterUser, ValidateSocialUser, LoginUser, ForgotPassword,
     ResetPassword, RefreshAccessToken

LEMMA NotThereKept ==
  ASSUME Inv, people' = people
  PROVE  /\ people' \in [Ids -> Person] /\ \A u \in Ids : Blank(u)'
         /\ \A u \in Ids : people'[u].state # "live" =>
               people'[u].refresh = Nil /\ people'[u].reset = Nil
BY Typed DEF Blank

(* The call gets a user and goes on, without a write. *)
LEMMA FoundType ==
  ASSUME Inv, NEW c \in Requests, NEW u \in Ids, NEW pc \in {"link", "change"},
         request' = [request EXCEPT ![c].pc = pc, ![c].user = u],
         pc = "change" => request[c].link \in Links,
         UNCHANGED <<people, second, mailed, handed, resets, since, ended, resigned, spent,
                     contested, overtaken>>,
         doubled' \subseteq Links
  PROVE  Inv'
<1> DEFINE r == [request[c] EXCEPT !.pc = pc, !.user = u]
<1>1. request[c] \in Request BY Typed
<1>2. r \in Request /\ r.pc = pc /\ r.user = u /\ r.link = request[c].link BY <1>1 DEF Request
<1>3. request' = [request EXCEPT ![c] = r] BY <1>1, Typed DEF Request
<1> HIDE DEF r
<1> QED BY ZenonT(60), <1>2, <1>3, Typed, NotThereKept, RequestStep

LEMMA LookType ==
  ASSUME Inv, NEW c \in Requests,
         Fail(c) \/ Authenticate(c) \/ Refuse(c) \/ ResolveSignupDefaults(c)
         \/ AddGroupingPolicy(c) \/ StoreLink(c) \/ SendPasswordResetEmail(c) \/ FindByLink(c)
  PROVE  Inv'
<1>1. CASE Fail(c) \/ Refuse(c)
  <2>1. End(c) /\ UNCHANGED <<people, second, mailed, handed, history>>
    BY <1>1 DEF Fail, Refuse
  <2> QED BY <2>1, Typed, NotThereKept, EndType DEF history
<1>2. CASE Authenticate(c)
  <2>1. PICK u \in Ids : Sign(c, u, people[u].email)
    BY <1>2 DEF Authenticate, GetUserByRefreshToken, GetUserByEmail
  <2>2. people[u].email \in Emails BY Typed DEF Person
  <2> QED BY <1>2, <2>1, <2>2, SignType DEF Authenticate
<1>3. CASE ResolveSignupDefaults(c)
  <2>1. request[c].email \in Emails /\ request[c].op \in {"register", "social"}
    BY <1>3, Typed DEF ResolveSignupDefaults, Carries
  <2>2. contested' \subseteq Emails BY <1>3, <2>1, Typed DEF ResolveSignupDefaults
  <2> QED BY <1>3, <2>1, <2>2, NotThereKept, GoesType DEF ResolveSignupDefaults
<1>4. CASE AddGroupingPolicy(c)
  <2>1. request[c].user \in Ids /\ request[c].email \in Emails
    BY <1>4, Typed DEF AddGroupingPolicy, Carries
  <2> QED BY <1>4, <2>1, SignType DEF AddGroupingPolicy
<1>5. CASE StoreLink(c)
  <2>1. PICK u \in Ids : request' = [request EXCEPT ![c].pc = "link", ![c].user = u]
    BY <1>5 DEF StoreLink, GetUserByEmail
  <2>2. UNCHANGED <<people, second, mailed, handed, history>> BY <1>5 DEF StoreLink
  <2> QED BY <2>1, <2>2, Typed, FoundType DEF history
<1>6. CASE SendPasswordResetEmail(c)
  <2>1. /\ End(c) /\ UNCHANGED <<people, second, handed, history>> /\ mailed' = mailed \cup {c}
    BY <1>6 DEF SendPasswordResetEmail
  <2> QED BY <2>1, Typed, LinkTypes, NotThereKept, EndType DEF history
<1>7. CASE FindByLink(c)
  <2>1. PICK u \in Ids : request' = [request EXCEPT ![c].pc = "change", ![c].user = u]
    BY <1>7 DEF FindByLink, GetUserByResetToken
  <2>2. request[c].link \in Links BY <1>7, Typed DEF FindByLink, Carries
  <2>3. doubled' \subseteq Links BY <1>7, <2>2, Typed DEF FindByLink
  <2> QED BY <1>7, <2>1, <2>2, <2>3, FoundType DEF FindByLink
<1> QED BY <1>1, <1>2, <1>3, <1>4, <1>5, <1>6, <1>7

LEMMA WriteType ==
  ASSUME Inv, NEW c \in Requests,
         GenerateTokens(c) \/ KeepResetToken(c) \/ ChangePassword(c)
  PROVE  Inv'
<1> DEFINE u == request[c].user
<1>1. CASE GenerateTokens(c)
  <2>1. /\ u \in Ids /\ request[c].token \in Tokens /\ request[c].token.user = u
        /\ request[c].read \in Nat
    BY <1>1, Typed DEF GenerateTokens, Carries, Request
  <2> DEFINE row == [people[u] EXCEPT !.refresh = request[c].token]
  <2>2. people[u] \in Person BY <2>1, Typed
  <2>3. row \in Person /\ row.state = people[u].state /\ row.refresh = request[c].token
    BY <2>1, <2>2 DEF Person
  <2>4. Set(u, row) /\ Ends(u, request[c].token) BY <1>1 DEF GenerateTokens, UpdateRefreshToken
  <2> HIDE DEF row
  <2>5. /\ people' \in [Ids -> Person] /\ \A v \in Ids : Blank(v)'
        /\ \A v \in Ids : people'[v].state # "live" =>
              people'[v].refresh = Nil /\ people'[v].reset = Nil
    BY <2>1, <2>3, <2>4, SetStep DEF Live
  <2>6. ended' \subseteq Tokens BY <2>1, <2>4, EndsType
  <2>7. since' \in [Ids -> Nat] /\ handed' \subseteq Tokens
    BY <1>1, <2>1, Typed DEF GenerateTokens
  <2> QED BY <1>1, <2>5, <2>6, <2>7, Typed, EndType DEF GenerateTokens
<1>2. CASE KeepResetToken(c)
  <2>1. u \in Ids BY <1>2, Typed DEF KeepResetToken
  <2> DEFINE row == [people[u] EXCEPT !.reset = c, !.expired = FALSE]
  <2>2. people[u] \in Person /\ Blank(u) BY <2>1, Typed
  <2>3. row \in Person /\ row.state = people[u].state /\ row.refresh = people[u].refresh
    BY <2>2, LinkTypes DEF Person
  <2>4. Set(u, row) /\ ended' = ended BY <1>2 DEF KeepResetToken, SetResetPasswordToken
  <2> HIDE DEF row
  <2>5. /\ people' \in [Ids -> Person] /\ \A v \in Ids : Blank(v)'
        /\ \A v \in Ids : people'[v].state # "live" =>
              people'[v].refresh = Nil /\ people'[v].reset = Nil
    BY <2>1, <2>2, <2>3, <2>4, SetStep DEF Live, Blank
  <2> QED BY <1>2, <2>1, <2>4, <2>5, Typed, GoesType DEF KeepResetToken
<1>3. CASE ChangePassword(c)
  <2>1. u \in Ids /\ request[c].link \in Links BY <1>3, Typed DEF ChangePassword, Carries
  <2> DEFINE row == [people[u] EXCEPT !.local = TRUE, !.refresh = Nil, !.reset = Nil]
  <2>2. people[u] \in Person BY <2>1, Typed
  <2>3. row \in Person /\ row.state = people[u].state /\ row.refresh = Nil
    BY <2>2 DEF Person
  <2>4. Set(u, row) /\ Ends(u, Nil) BY <1>3 DEF ChangePassword, UpdatePasswordAndClearTokens
  <2> HIDE DEF row
  <2>5. /\ people' \in [Ids -> Person] /\ \A v \in Ids : Blank(v)'
        /\ \A v \in Ids : people'[v].state # "live" =>
              people'[v].refresh = Nil /\ people'[v].reset = Nil
    BY <2>1, <2>3, <2>4, SetStep DEF Live
  <2>6. ended' \subseteq Tokens BY <2>1, <2>4, EndsType
  <2>7. /\ resets' = [resets EXCEPT ![u] = IF Live(u) THEN @ + 1 ELSE @]
        /\ spent' = [spent EXCEPT ![request[c].link] = IF Live(u) THEN @ + 1 ELSE @]
    BY <1>3 DEF ChangePassword
  <2>8. resets' \in [Ids -> Nat] /\ spent' \in [Links -> Nat]
    <3>1. resets[u] + 1 \in Nat /\ resets[u] \in Nat BY <2>1, Typed
    <3>2. spent[request[c].link] + 1 \in Nat /\ spent[request[c].link] \in Nat BY <2>1, Typed
    <3> QED BY <2>1, <2>7, <3>1, <3>2, Typed
  <2>9. overtaken' \subseteq Ids BY <1>3, <2>1, Typed DEF ChangePassword
  <2> QED BY <1>3, <2>5, <2>6, <2>8, <2>9, Typed, EndType DEF ChangePassword
<1> QED BY <1>1, <1>2, <1>3

LEMMA AdminType ==
  ASSUME Inv, NEW c \in Requests, NEW u \in Ids,
         \/ CreateUserWithFreePlan(c, u) \/ Logout(c, u) \/ UpdateUser(c, u) \/ DeleteUser(c, u)
         \/ \E by \in Ids, e \in Emails : CreateSubUser(c, by, u, e)
         \/ \E e \in Emails \cup {Nil} : UpdateUserProfile(c, e)
  PROVE  Inv'
<1>1. CASE CreateUserWithFreePlan(c, u)
  <2> DEFINE row == [Unborn EXCEPT !.state = "live", !.email = request[c].email,
                                   !.local = request[c].op = "register"]
             r == [request[c] EXCEPT !.pc = "bind", !.user = u]
  <2>1. request[c].email \in Emails /\ request[c].op \in {"register", "social"} /\ request[c] \in Request
    BY <1>1, Typed DEF CreateUserWithFreePlan, Carries
  <2>2. row \in Person /\ row.state = "live" /\ row.refresh = Nil
    BY <2>1, UnbornType DEF Unborn, Person
  <2>3. r \in Request /\ r.pc = "bind" /\ r.user = u /\ r.email = request[c].email
        /\ r.op = request[c].op BY <2>1 DEF Request
  <2>4. request' = [request EXCEPT ![c] = r] BY <1>1, <2>1, Typed DEF CreateUserWithFreePlan, Request
  <2>5. people' = [people EXCEPT ![u] = row] BY <1>1 DEF CreateUserWithFreePlan
  <2> HIDE DEF row, r
  <2>6. /\ people' \in [Ids -> Person] /\ \A v \in Ids : Blank(v)'
        /\ \A v \in Ids : people'[v].state # "live" =>
              people'[v].refresh = Nil /\ people'[v].reset = Nil
    BY <2>2, <2>5, Typed DEF Blank
  <2>7. UNCHANGED <<second, mailed, handed, history>> BY <1>1 DEF CreateUserWithFreePlan
  <2> QED BY <2>1, <2>3, <2>4, <2>6, <2>7, Typed, RequestStep DEF history
<1>2. CASE Logout(c, u)
  <2> DEFINE row == [people[u] EXCEPT !.refresh = Nil]
  <2>1. people[u] \in Person BY Typed
  <2>2. row \in Person /\ row.state = people[u].state /\ row.refresh = Nil BY <2>1 DEF Person
  <2>3. Set(u, row) /\ Ends(u, Nil) BY <1>2 DEF Logout, ClearRefreshToken
  <2> HIDE DEF row
  <2>4. /\ people' \in [Ids -> Person] /\ \A v \in Ids : Blank(v)'
        /\ \A v \in Ids : people'[v].state # "live" =>
              people'[v].refresh = Nil /\ people'[v].reset = Nil
    BY <2>2, <2>3, SetStep DEF Live
  <2>5. ended' \subseteq Tokens BY <2>3, EndsType
  <2> QED BY <1>2, <2>4, <2>5, Typed, EndType DEF Logout
<1>3. CASE UpdateUser(c, u)
  <2> DEFINE r == [NoRequest EXCEPT !.pc = "profile", !.op = "update", !.user = u]
  <2>1. r \in Request /\ r.pc = "profile" /\ r.user = u BY DEF NoRequest, Request
  <2>2. request' = [request EXCEPT ![c] = r] /\ UNCHANGED <<people, second, mailed, handed, history>>
    BY <1>3 DEF UpdateUser
  <2> HIDE DEF r
  <2> QED BY <2>1, <2>2, Typed, NotThereKept, RequestStep DEF history
<1>4. CASE DeleteUser(c, u)
  <2> DEFINE row == [Unborn EXCEPT !.state = "removed"]
  <2>1. /\ row \in Person /\ row.owner = Nil /\ row.refresh = Nil /\ row.reset = Nil
    BY UnbornType DEF Unborn
  <2>2. people' = [v \in Ids |-> IF v = u \/ people[v].owner = u THEN row ELSE people[v]]
    BY <1>4 DEF DeleteUser
  <2> HIDE DEF row
  <2>3. /\ people' \in [Ids -> Person] /\ \A v \in Ids : Blank(v)'
        /\ \A v \in Ids : people'[v].state # "live" =>
              people'[v].refresh = Nil /\ people'[v].reset = Nil
    BY <2>1, <2>2, Typed DEF Blank
  <2>4. End(c) /\ UNCHANGED <<second, mailed, handed, history>> BY <1>4 DEF DeleteUser
  <2> QED BY <2>3, <2>4, Typed, EndType DEF history
<1>5. ASSUME NEW by \in Ids, NEW e \in Emails, CreateSubUser(c, by, u, e) PROVE Inv'
  <2> DEFINE row == [Unborn EXCEPT !.state = "live", !.email = e, !.local = TRUE,
                                   !.owner = resolvePrimaryUserID(by)]
  <2>1. resolvePrimaryUserID(by) \in Ids BY <1>5 DEF CreateSubUser, Live
  <2>2. row \in Person /\ row.state = "live" /\ row.refresh = Nil
    BY <2>1, UnbornType DEF Unborn, Person
  <2>3. people' = [people EXCEPT ![u] = row] BY <1>5 DEF CreateSubUser
  <2> HIDE DEF row
  <2>4. /\ people' \in [Ids -> Person] /\ \A v \in Ids : Blank(v)'
        /\ \A v \in Ids : people'[v].state # "live" =>
              people'[v].refresh = Nil /\ people'[v].reset = Nil
    BY <2>2, <2>3, Typed DEF Blank
  <2>5. contested' \subseteq Emails BY <1>5, Typed DEF CreateSubUser
  <2> QED BY <1>5, <2>4, <2>5, Typed, EndType DEF CreateSubUser
<1>6. ASSUME NEW e \in Emails \cup {Nil}, UpdateUserProfile(c, e) PROVE Inv'
  <2> DEFINE v == request[c].user
             row == IF e = Nil THEN [people[v] EXCEPT !.local = TRUE] ELSE [people[v] EXCEPT !.email = e]
  <2>1. v \in Ids BY <1>6, Typed DEF UpdateUserProfile
  <2>2. people[v] \in Person /\ Blank(v) BY <2>1, Typed
  <2>3. row \in Person /\ row.state = people[v].state /\ row.refresh = people[v].refresh
    BY <2>2 DEF Person
  <2>4. Set(v, row) BY <1>6 DEF UpdateUserProfile
  <2> HIDE DEF row
  <2>5. /\ people' \in [Ids -> Person] /\ \A w \in Ids : Blank(w)'
        /\ \A w \in Ids : people'[w].state # "live" =>
              people'[w].refresh = Nil /\ people'[w].reset = Nil
    BY <2>1, <2>2, <2>3, <2>4, SetStep DEF Live, Blank
  <2>6. contested' \subseteq Emails BY <1>6, Typed DEF UpdateUserProfile
  <2> QED BY <1>6, <2>5, <2>6, Typed, EndType DEF UpdateUserProfile
<1> QED BY <1>1, <1>2, <1>3, <1>4, <1>5, <1>6

LEMMA TimeType ==
  ASSUME Inv, Tick \/ \E u \in Ids : Expire(u)
  PROVE  Inv'
<1>1. CASE Tick
  <2>1. second' \in 0..MaxSecond
    <3>1. second \in 0..MaxSecond /\ second < MaxSecond /\ second' = second + 1
      BY <1>1, Typed DEF Tick
    <3> QED BY <3>1, Apart
  <2>2. UNCHANGED <<people, request, mailed, handed, history>> BY <1>1 DEF Tick
  <2>3. AccountsTypeOK' BY <2>1, <2>2, Typed DEF AccountsTypeOK, history
  <2>4. /\ \A c \in Requests : Carries(c)'
        /\ \A u \in Ids : Blank(u)'
    BY <2>2, Typed DEF Carries, Blank
  <2> QED BY <2>3, <2>4 DEF Inv
<1>2. ASSUME NEW u \in Ids, Expire(u) PROVE Inv'
  <2>1. people' = [people EXCEPT ![u].expired = TRUE] /\ UNCHANGED <<request, second, mailed, handed, history>>
    BY <1>2 DEF Expire
  <2>2. /\ people' \in [Ids -> Person]
        /\ \A v \in Ids : /\ people'[v].state = people[v].state /\ people'[v].owner = people[v].owner
                           /\ people'[v].refresh = people[v].refresh
                           /\ people'[v].reset = people[v].reset
    BY ZenonT(60), <2>1, Typed DEF Person
  <2>3. AccountsTypeOK' BY <2>1, <2>2, Typed DEF AccountsTypeOK, history
  <2>4. \A c \in Requests : Carries(c)' BY <2>1, Typed DEF Carries
  <2>5. \A v \in Ids : Blank(v)' BY <2>2, Typed DEF Blank
  <2> QED BY <2>3, <2>4, <2>5 DEF Inv
<1> QED BY <1>1, <1>2

LEMMA InvStep == Inv /\ [AccountsNext]_accountVars => Inv'
<1> SUFFICES ASSUME Inv, [AccountsNext]_accountVars PROVE Inv'
  OBVIOUS
<1>1. ASSUME NEW c \in Requests, AccountsStep(c) PROVE Inv'
  BY <1>1, StartType, LookType, WriteType, AdminType, Apart DEF AccountsStep
<1>2. CASE UNCHANGED accountVars
  BY <1>2 DEF accountVars, Inv, AccountsTypeOK, Carries, Blank
<1> QED BY <1>1, <1>2, TimeType DEF AccountsNext

LEMMA InvInit == AccountsInit => Inv
<1> SUFFICES ASSUME AccountsInit PROVE Inv
  OBVIOUS
<1> DEFINE t == Token(Root, RootEmail, 0)
           row == [Unborn EXCEPT !.state = "live", !.local = TRUE, !.reset = FirstLink, !.refresh = t]
<1>1. t \in Tokens /\ t.user = Root BY Apart, TokenTypes
<1>2. row \in Person /\ row.state = "live" /\ row.refresh = t
  BY <1>1, UnbornType, LinkTypes DEF Unborn, Person
<1>3. people = [u \in Ids |-> IF u # Root THEN Unborn ELSE row] BY DEF AccountsInit
<1> HIDE DEF row
<1>4. /\ people \in [Ids -> Person] /\ \A u \in Ids : Blank(u)
      /\ \A u \in Ids : people[u].state # "live" => people[u].refresh = Nil /\ people[u].reset = Nil
  BY <1>1, <1>2, <1>3, UnbornType, Apart DEF Blank
<1>5. request \in [Requests -> Request] /\ \A c \in Requests : request[c].pc = "new"
  BY NoRequestType DEF AccountsInit
<1>6. \A c \in Requests : Carries(c) BY <1>5 DEF Carries
<1>7. mailed \subseteq Links /\ handed \subseteq Tokens BY <1>1, LinkTypes DEF AccountsInit
<1>8. /\ second \in 0..MaxSecond /\ resets \in [Ids -> Nat] /\ since \in [Ids -> Nat]
      /\ ended = {} /\ resigned = {} /\ spent \in [Links -> Nat]
      /\ contested = {} /\ doubled = {} /\ overtaken = {}
  BY Apart DEF AccountsInit
<1> QED BY <1>4, <1>5, <1>6, <1>7, <1>8 DEF Inv, AccountsTypeOK

(* Every variable of the accounts has its type in every reachable state, and *)
(* only a user who is there has a refresh token or a reset link.            *)
THEOREM AccountsTypeCorrect == AccountsSpec => []AccountsTypeOK
<1>1. Inv => AccountsTypeOK BY DEF Inv
<1> QED BY <1>1, InvInit, InvStep, PTL DEF AccountsSpec

-----------------------------------------------------------------------------
(* What each kind of step does to the rows.                                  *)

(* The steps that create a row or remove one. *)
Births(c) == \E u \in Ids : \/ CreateUserWithFreePlan(c, u) \/ DeleteUser(c, u)
                            \/ \E by \in Ids, e \in Emails : CreateSubUser(c, by, u, e)

(* An UPDATE keeps what it does not set. *)
LEMMA SetRows ==
  ASSUME Inv, NEW u \in Ids, NEW row, Set(u, row)
  PROVE  /\ people'[u] = IF people[u].state = "live" THEN row ELSE people[u]
         /\ \A v \in Ids : v # u => people'[v] = people[v]
BY Typed DEF Set, Live

LEMMA OwnersKept ==
  ASSUME Inv, AccountsNext, \A c \in Requests : ~Births(c)
  PROVE  \A v \in Ids : people'[v].state = people[v].state /\ people'[v].owner = people[v].owner
<1> DEFINE Goal == \A v \in Ids : people'[v].state = people[v].state /\ people'[v].owner = people[v].owner
<1>1. ASSUME NEW u \in Ids, NEW row, Set(u, row), row.state = people[u].state,
             row.owner = people[u].owner PROVE Goal
  BY <1>1, SetRows
<1>2. ASSUME NEW u \in Ids PROVE people[u] \in Person BY Typed
<1>3. ASSUME NEW c \in Requests, GenerateTokens(c) PROVE Goal
  <2>1. request[c].user \in Ids BY <1>3, Typed DEF GenerateTokens
  <2> QED BY <1>1, <1>2, <1>3, <2>1 DEF GenerateTokens, UpdateRefreshToken, Person
<1>4. ASSUME NEW c \in Requests, KeepResetToken(c) PROVE Goal
  <2>1. request[c].user \in Ids BY <1>4, Typed DEF KeepResetToken
  <2> QED BY <1>1, <1>2, <1>4, <2>1 DEF KeepResetToken, SetResetPasswordToken, Person
<1>5. ASSUME NEW c \in Requests, ChangePassword(c) PROVE Goal
  <2>1. request[c].user \in Ids BY <1>5, Typed DEF ChangePassword
  <2> QED BY <1>1, <1>2, <1>5, <2>1 DEF ChangePassword, UpdatePasswordAndClearTokens, Person
<1>6. ASSUME NEW c \in Requests, NEW u \in Ids, Logout(c, u) PROVE Goal
  BY <1>1, <1>2, <1>6 DEF Logout, ClearRefreshToken, Person
<1>7. ASSUME NEW c \in Requests, NEW e, UpdateUserProfile(c, e) PROVE Goal
  <2> DEFINE u == request[c].user
             row == IF e = Nil THEN [people[u] EXCEPT !.local = TRUE] ELSE [people[u] EXCEPT !.email = e]
  <2>1. u \in Ids BY <1>7, Typed DEF UpdateUserProfile
  <2>2. row.state = people[u].state /\ row.owner = people[u].owner BY <1>2, <2>1 DEF Person
  <2>3. Set(u, row) BY <1>7 DEF UpdateUserProfile
  <2> HIDE DEF row
  <2> QED BY <1>1, <2>1, <2>2, <2>3
<1>8. ASSUME NEW u \in Ids, Expire(u) PROVE Goal
  BY <1>8, Typed DEF Expire, Person
<1>9. CASE people' = people
  BY <1>9
<1>10. ASSUME NEW c \in Requests, AccountsStep(c) PROVE Goal
  BY <1>3, <1>4, <1>5, <1>6, <1>7, <1>9, <1>10 DEF AccountsStep, Births, RegisterUser,
     ValidateSocialUser, LoginUser, ForgotPassword, ResetPassword, RefreshAccessToken, Begins,
     Fail, Authenticate, Refuse, ResolveSignupDefaults, AddGroupingPolicy, StoreLink,
     SendPasswordResetEmail, FindByLink, UpdateUser
<1> QED BY <1>8, <1>9, <1>10 DEF AccountsNext, Tick

-----------------------------------------------------------------------------
(* Tenants and their users.                                                  *)

LEMMA TenantsStep ==
  ASSUME Inv, TenantsWhole, AccountsNext
  PROVE  TenantsWhole'
<1>0. /\ people \in [Ids -> Person]
      /\ \A u \in Ids : people[u].state # "live" => people[u].owner = Nil
      /\ Nil \notin Ids
  BY Typed, Apart DEF Blank
<1>1. ASSUME NEW c \in Requests, NEW u \in Ids, CreateUserWithFreePlan(c, u)
      PROVE  TenantsWhole'
  <2>1. /\ people[u].state = "unborn" /\ people'[u].owner = Nil
        /\ \A v \in Ids : v # u => people'[v] = people[v]
    BY <1>0, <1>1 DEF CreateUserWithFreePlan, Unborn
  <2> QED BY <2>1 DEF TenantsWhole, Live
<1>2. ASSUME NEW c \in Requests, NEW u \in Ids, NEW by \in Ids, NEW e \in Emails,
             CreateSubUser(c, by, u, e)
      PROVE  TenantsWhole'
  <2> DEFINE w == resolvePrimaryUserID(by)
  <2>1. /\ people[u].state = "unborn" /\ people'[u].owner = w
        /\ \A v \in Ids : v # u => people'[v] = people[v]
    BY <1>0, <1>2 DEF CreateSubUser, Unborn
  <2>2. w \in Ids /\ people[w].state = "live" BY <1>2 DEF CreateSubUser, Live
  <2>3. people[w].owner = Nil
    BY <1>0, <2>2 DEF resolvePrimaryUserID, TenantsWhole, Live
  <2> HIDE DEF w
  <2> QED BY <2>1, <2>2, <2>3 DEF TenantsWhole, Live
<1>3. ASSUME NEW c \in Requests, NEW u \in Ids, DeleteUser(c, u)
      PROVE  TenantsWhole'
  <2>1. people' = [v \in Ids |-> IF v = u \/ people[v].owner = u
                     THEN [Unborn EXCEPT !.state = "removed"] ELSE people[v]]
    BY <1>3 DEF DeleteUser
  <2>2. [Unborn EXCEPT !.state = "removed"].state = "removed" BY DEF Unborn
  <2>3. ASSUME NEW v \in Ids, people'[v].state = "live", people'[v].owner # Nil
        PROVE  /\ people'[v].owner \in Ids /\ people'[people'[v].owner].state = "live"
               /\ people'[people'[v].owner].owner = Nil
    <3> DEFINE w == people[v].owner
    <3>1. v # u /\ w # u /\ people'[v] = people[v] BY <2>1, <2>2, <2>3
    <3>2. w \in Ids /\ people[w].state = "live" /\ people[w].owner = Nil
      BY <2>3, <3>1 DEF TenantsWhole, Live
    <3>3. people'[w] = people[w] BY <1>0, <2>1, <3>1, <3>2
    <3> QED BY <3>1, <3>2, <3>3
  <2> QED BY <2>3 DEF TenantsWhole, Live
<1>4. CASE \A c \in Requests : ~Births(c)
  <2>1. \A v \in Ids : people'[v].state = people[v].state /\ people'[v].owner = people[v].owner
    BY <1>4, OwnersKept
  <2> QED BY <1>0, <2>1 DEF TenantsWhole, Live
<1> QED BY <1>1, <1>2, <1>3, <1>4 DEF Births

(* A user of a tenant is under one that is there and is not a sub-user       *)
(* himself, whoever added him and whatever was deleted meanwhile.           *)
THEOREM TenantsCorrect == AccountsSpec => []TenantsWhole
<1>1. AccountsInit => TenantsWhole
  <2>1. ASSUME AccountsInit, NEW u \in Ids PROVE people[u].owner = Nil
    BY <2>1 DEF AccountsInit, Unborn
  <2> QED BY <2>1 DEF TenantsWhole
<1>2. Inv /\ TenantsWhole /\ [AccountsNext]_accountVars => TenantsWhole'
  <2>1. CASE UNCHANGED accountVars BY <2>1 DEF accountVars, TenantsWhole, Live
  <2> QED BY <2>1, TenantsStep
<1> QED BY <1>1, <1>2, InvInit, InvStep, PTL DEF AccountsSpec

-----------------------------------------------------------------------------
(* What a step does to the calls: only the call that moves changes, and the  *)
(* points that matter below are reached by one action each.                 *)

LEMMA CallsKept ==
  ASSUME Inv, NEW c \in Requests, AccountsStep(c)
  PROVE  /\ \A d \in Requests : d # c => request'[d] = request[d]
         /\ request'[c].pc = "create" => ResolveSignupDefaults(c)
         /\ request'[c].pc = "store" => Authenticate(c) \/ AddGroupingPolicy(c)
         /\ request'[c].pc = "change" => FindByLink(c)
         /\ request'[c].pc = "mail" => KeepResetToken(c)
         /\ request'[c].pc # "new"
<1> DEFINE Only == \A d \in Requests : d # c => request'[d] = request[d]
<1>0. request \in [Requests -> Request] /\ request[c] \in Request BY Typed
<1>1. ASSUME End(c) PROVE Only /\ request'[c].pc = "done"
  BY <1>0, <1>1, DoneType DEF End
<1>2. ASSUME NEW op, NEW fields \in Request, Begins(c, op, fields) PROVE Only /\ request'[c].pc = "find"
  BY <1>0, <1>2 DEF Begins, Request
<1>3. ASSUME NEW pc, Goes(c, pc) PROVE Only /\ request'[c].pc = pc
  BY <1>0, <1>3 DEF Goes, Request
<1>4. ASSUME NEW e \in Emails, \/ RegisterUser(c, e) \/ ValidateSocialUser(c, e)
                                \/ LoginUser(c, e) \/ ForgotPassword(c, e)
      PROVE  Only /\ request'[c].pc = "find"
  <2>1. [NoRequest EXCEPT !.email = e] \in Request BY NoRequestType DEF Request
  <2> QED BY <1>2, <1>4, <2>1 DEF RegisterUser, ValidateSocialUser, LoginUser, ForgotPassword
<1>5. ASSUME NEW l \in mailed, ResetPassword(c, l) PROVE Only /\ request'[c].pc = "find"
  <2>1. l \in Links BY Typed
  <2>2. [NoRequest EXCEPT !.link = l] \in Request BY <2>1, NoRequestType DEF Request
  <2> QED BY <1>2, <1>5, <2>2 DEF ResetPassword
<1>6. ASSUME NEW t \in handed, RefreshAccessToken(c, t) PROVE Only /\ request'[c].pc = "find"
  <2>1. t \in Tokens BY Typed
  <2>2. [NoRequest EXCEPT !.token = t] \in Request BY <2>1, NoRequestType DEF Request
  <2> QED BY <1>2, <1>6, <2>2 DEF RefreshAccessToken
<1>7. ASSUME NEW u, NEW e, Sign(c, u, e) PROVE Only /\ request'[c].pc = "store"
  BY <1>0, <1>7 DEF Sign, Request
<1>8. ASSUME NEW u, NEW pc, request' = [request EXCEPT ![c].pc = pc, ![c].user = u]
       PROVE  Only /\ request'[c].pc = pc
  BY <1>0, <1>8 DEF Request
<1>9. ASSUME NEW u \in Ids, UpdateUser(c, u) PROVE Only /\ request'[c].pc = "profile"
  BY <1>0, <1>9 DEF UpdateUser, NoRequest
<1> HIDE DEF Only
<1> QED
  <2>1. Only /\ (\/ request'[c].pc \in {"find", "done", "bind", "link", "profile"}
                 \/ request'[c].pc = "store" /\ (Authenticate(c) \/ AddGroupingPolicy(c))
                 \/ request'[c].pc = "create" /\ ResolveSignupDefaults(c)
                 \/ request'[c].pc = "change" /\ FindByLink(c)
                 \/ request'[c].pc = "mail" /\ KeepResetToken(c))
    <3>1. CASE \E u \in Ids : UpdateUser(c, u) BY <1>9, <3>1
    <3>2. CASE StoreLink(c)
      <4>1. Only /\ request'[c].pc = "link" BY <1>8, <3>2 DEF StoreLink
      <4> QED BY <4>1
    <3>3. CASE \E u \in Ids : CreateUserWithFreePlan(c, u)
      <4>1. Only /\ request'[c].pc = "bind" BY <1>8, <3>3 DEF CreateUserWithFreePlan
      <4> QED BY <4>1
    <3>4. CASE Authenticate(c) \/ AddGroupingPolicy(c) BY <1>7, <3>4 DEF Authenticate, AddGroupingPolicy
    <3>5. CASE ResolveSignupDefaults(c) BY <1>3, <3>5 DEF ResolveSignupDefaults
    <3>6. CASE FindByLink(c)
      <4>1. Only /\ request'[c].pc = "change" BY <1>8, <3>6 DEF FindByLink
      <4> QED BY <4>1, <3>6
    <3>7. CASE KeepResetToken(c) BY <1>3, <3>7 DEF KeepResetToken
    <3>8. CASE \/ Fail(c) \/ Refuse(c) \/ GenerateTokens(c) \/ SendPasswordResetEmail(c)
               \/ ChangePassword(c) \/ \E e : UpdateUserProfile(c, e)
               \/ \E u \in Ids : \/ Logout(c, u) \/ DeleteUser(c, u)
                                \/ \E by \in Ids, e \in Emails : CreateSubUser(c, by, u, e)
      BY <1>1, <3>8 DEF Fail, Refuse, GenerateTokens, SendPasswordResetEmail, ChangePassword,
         UpdateUserProfile, Logout, DeleteUser, CreateSubUser
    <3> QED BY <1>4, <1>5, <1>6, <3>1, <3>2, <3>3, <3>4, <3>5, <3>6, <3>7, <3>8 DEF AccountsStep
  <2> QED BY <2>1 DEF Only

-----------------------------------------------------------------------------
(* One account for an email.                                                 *)

(* Two users of one email, or two calls about to create one, make the email  *)
(* contested, and so does a call about to create one that is there.          *)
Single ==
  /\ \A u, v \in Ids : u # v /\ people[u].state = "live" /\ people[v].state = "live"
                          /\ people[u].email = people[v].email => people[u].email \in contested
  /\ \A c \in Requests, u \in Ids :
        request[c].pc = "create" /\ people[u].state = "live"
        /\ people[u].email = request[c].email => people[u].email \in contested
  /\ \A c, d \in Requests :
        c # d /\ request[c].pc = "create" /\ request[d].pc = "create"
        /\ request[c].email = request[d].email => request[c].email \in contested

(* The steps that give a user an email. *)
Names(c) == \/ \E u \in Ids : CreateUserWithFreePlan(c, u)
            \/ \E u, by \in Ids, e \in Emails : CreateSubUser(c, by, u, e)
            \/ \E e \in Emails : UpdateUserProfile(c, e)

LEMMA EmailsKept ==
  ASSUME Inv, NEW c \in Requests, AccountsStep(c), ~Names(c)
  PROVE  \A v \in Ids : people'[v].state = "live" =>
            people[v].state = "live" /\ people'[v].email = people[v].email
<1> DEFINE Goal == \A v \in Ids : people'[v].state = "live" =>
                      people[v].state = "live" /\ people'[v].email = people[v].email
<1>1. ASSUME NEW u \in Ids, NEW row, Set(u, row), row.email = people[u].email PROVE Goal
  BY <1>1, SetRows
<1>2. ASSUME NEW u \in Ids PROVE people[u] \in Person BY Typed
<1>3. ASSUME GenerateTokens(c) PROVE Goal
  <2>1. request[c].user \in Ids BY <1>3, Typed DEF GenerateTokens
  <2> QED BY <1>1, <1>2, <1>3, <2>1 DEF GenerateTokens, UpdateRefreshToken, Person
<1>4. ASSUME KeepResetToken(c) PROVE Goal
  <2>1. request[c].user \in Ids BY <1>4, Typed DEF KeepResetToken
  <2> QED BY <1>1, <1>2, <1>4, <2>1 DEF KeepResetToken, SetResetPasswordToken, Person
<1>5. ASSUME ChangePassword(c) PROVE Goal
  <2>1. request[c].user \in Ids BY <1>5, Typed DEF ChangePassword
  <2> QED BY <1>1, <1>2, <1>5, <2>1 DEF ChangePassword, UpdatePasswordAndClearTokens, Person
<1>6. ASSUME NEW u \in Ids, Logout(c, u) PROVE Goal
  BY <1>1, <1>2, <1>6 DEF Logout, ClearRefreshToken, Person
<1>7. ASSUME UpdateUserProfile(c, Nil) PROVE Goal
  <2>1. request[c].user \in Ids BY <1>7, Typed DEF UpdateUserProfile
  <2>2. Set(request[c].user, [people[request[c].user] EXCEPT !.local = TRUE])
    BY <1>7 DEF UpdateUserProfile
  <2> QED BY <1>1, <1>2, <2>1, <2>2 DEF Person
<1>8. ASSUME NEW u \in Ids, DeleteUser(c, u) PROVE Goal
  <2>1. people' = [v \in Ids |-> IF v = u \/ people[v].owner = u
                     THEN [Unborn EXCEPT !.state = "removed"] ELSE people[v]]
    BY <1>8 DEF DeleteUser
  <2>2. [Unborn EXCEPT !.state = "removed"].state = "removed" BY DEF Unborn
  <2> QED BY <2>1, <2>2
<1>9. CASE people' = people
  BY <1>9
<1> QED
  BY <1>3, <1>4, <1>5, <1>6, <1>7, <1>8, <1>9 DEF AccountsStep, Names, RegisterUser,
     ValidateSocialUser, LoginUser, ForgotPassword, ResetPassword, RefreshAccessToken, Begins,
     Fail, Authenticate, Refuse, ResolveSignupDefaults, AddGroupingPolicy, StoreLink,
     SendPasswordResetEmail, FindByLink, UpdateUser

LEMMA ContestedGrows ==
  ASSUME Inv, NEW c \in Requests, AccountsStep(c)
  PROVE  contested \subseteq contested'
BY DEF AccountsStep, RegisterUser, ValidateSocialUser, LoginUser, ForgotPassword, ResetPassword,
   RefreshAccessToken, Begins, Fail, Authenticate, Refuse, ResolveSignupDefaults,
   AddGroupingPolicy, StoreLink, SendPasswordResetEmail, FindByLink, UpdateUser, GenerateTokens,
   KeepResetToken, ChangePassword, Logout, UpdateUserProfile, DeleteUser, CreateSubUser,
   CreateUserWithFreePlan, history

LEMMA SingleStep ==
  ASSUME Inv, Single, AccountsNext
  PROVE  Single'
<1>1. ASSUME NEW c \in Requests, AccountsStep(c) PROVE Single'
  <2>0. /\ contested \subseteq contested'
        /\ \A d \in Requests : d # c => request'[d] = request[d]
        /\ request'[c].pc = "create" => ResolveSignupDefaults(c)
        /\ people \in [Ids -> Person] /\ Nil \notin Emails
    BY <1>1, CallsKept, ContestedGrows, Typed, Apart
  <2>1. ASSUME NEW u \in Ids, CreateUserWithFreePlan(c, u) PROVE Single'
    <3>1. /\ people'[u].email = request[c].email /\ request[c].pc = "create"
          /\ people[u].state = "unborn"
          /\ \A v \in Ids : v # u => people'[v] = people[v]
          /\ request'[c].pc = "bind"
      <4>1. request[c] \in Request BY Typed
      <4> QED BY <2>0, <2>1, <4>1, Typed DEF CreateUserWithFreePlan, Unborn, Request
    <3> QED BY <2>0, <3>1 DEF Single
  <2>2. ASSUME NEW u \in Ids, NEW by \in Ids, NEW e \in Emails, CreateSubUser(c, by, u, e)
        PROVE  Single'
    <3>1. /\ people'[u].email = e /\ e \in contested'
          /\ \A v \in Ids : v # u => people'[v] = people[v]
      BY <2>0, <2>2 DEF CreateSubUser, Unborn
    <3>2. request'[c].pc # "create" BY <2>2, DoneType, Typed DEF CreateSubUser, End
    <3> QED BY <2>0, <3>1, <3>2 DEF Single
  <2>3. ASSUME NEW e \in Emails, UpdateUserProfile(c, e) PROVE Single'
    <3> DEFINE u == request[c].user
    <3>1. u \in Ids BY <2>3, Typed DEF UpdateUserProfile
    <3>2. people[u] \in Person BY <3>1, Typed
    <3>3. Set(u, [people[u] EXCEPT !.email = e]) BY <2>0, <2>3 DEF UpdateUserProfile
    <3>4. /\ [people[u] EXCEPT !.email = e].state = people[u].state
          /\ [people[u] EXCEPT !.email = e].email = e
      BY <3>2 DEF Person
    <3>5. /\ \A v \in Ids : v # u => people'[v] = people[v]
          /\ people'[u].state = people[u].state
          /\ people'[u].state = "live" => people'[u].email = e
      BY <3>1, <3>3, <3>4, SetRows
    <3>6. e \in contested' BY <2>0, <2>3 DEF UpdateUserProfile
    <3>7. request'[c].pc # "create" BY <2>3, DoneType, Typed DEF UpdateUserProfile, End
    <3> HIDE DEF u
    <3> QED BY <2>0, <3>1, <3>5, <3>6, <3>7 DEF Single
  <2>4. CASE ResolveSignupDefaults(c)
    <3> DEFINE e == request[c].email
    <3>1. /\ request'[c].pc = "create" /\ request'[c].email = e
          /\ people' = people /\ GetUserByEmail(e) = {}
          /\ (\E d \in Requests : request[d].pc = "create" /\ request[d].email = e)
                => e \in contested'
          /\ request[c].pc = "find"
      <4>1. request[c] \in Request BY Typed
      <4> QED BY <2>4, <4>1, Typed DEF ResolveSignupDefaults, Goes, Request
    <3>2. \A v \in Ids : people[v].state = "live" => people[v].email # e
      BY <3>1 DEF GetUserByEmail, Live
    <3> HIDE DEF e
    <3> QED BY <2>0, <3>1, <3>2 DEF Single
  <2>5. CASE ~Names(c) /\ ~ResolveSignupDefaults(c)
    <3>1. \A v \in Ids : people'[v].state = "live" =>
            people[v].state = "live" /\ people'[v].email = people[v].email
      BY <1>1, <2>5, EmailsKept
    <3> QED BY <2>0, <2>5, <3>1 DEF Single
  <2> QED BY <2>1, <2>2, <2>3, <2>4, <2>5 DEF Names
<1>2. ASSUME NEW u \in Ids, Expire(u) PROVE Single'
  <2>1. /\ request' = request /\ contested' = contested
        /\ \A v \in Ids : people'[v].state = people[v].state /\ people'[v].email = people[v].email
    BY <1>2, Typed DEF Expire, history, Person
  <2> QED BY <2>1 DEF Single
<1>3. CASE Tick BY <1>3 DEF Tick, history, Single
<1> QED BY <1>1, <1>2, <1>3 DEF AccountsNext

LEMMA AtMostOne ==
  ASSUME NEW S, \A x, y \in S : x = y
  PROVE  Cardinality(S) <= 1
<1>1. CASE S = {} BY <1>1, FS_EmptySet
<1>2. ASSUME NEW x \in S PROVE Cardinality(S) <= 1
  <2>1. S = {x} BY <1>2
  <2>2. Cardinality(S) = 1 BY <2>1, FS_Singleton
  <2> QED BY <2>2
<1> QED BY <1>1, <1>2

(* Two accounts have one email only when two sign-ups for it overlapped, or  *)
(* an administrator gave it, although nothing in the database says so.       *)
THEOREM OneAccountCorrect == AccountsSpec => []OneAccountUnlessRaced
<1>1. AccountsInit => Single
  <2>1. ASSUME AccountsInit
        PROVE  /\ \A c \in Requests : request[c].pc = "new"
               /\ \A u \in Ids : people[u].state = "live" => u = Root
    <3>1. NoRequest.pc = "new" BY DEF NoRequest
    <3>2. Unborn.state = "unborn" BY DEF Unborn
    <3> QED BY <2>1, <3>1, <3>2 DEF AccountsInit
  <2> QED BY <2>1 DEF Single
<1>2. Inv /\ Single /\ [AccountsNext]_accountVars => Single'
  <2>1. CASE UNCHANGED accountVars BY <2>1 DEF accountVars, Single
  <2> QED BY <2>1, SingleStep
<1>3. Single => OneAccountUnlessRaced
  <2> SUFFICES ASSUME Single, NEW e \in Emails \ contested
               PROVE  Cardinality(GetUserByEmail(e)) <= 1
    BY DEF OneAccountUnlessRaced
  <2>1. \A x, y \in GetUserByEmail(e) : x = y BY DEF GetUserByEmail, Single, Live
  <2> QED BY <2>1, AtMostOne
<1> QED BY <1>1, <1>2, <1>3, InvInit, InvStep, PTL DEF AccountsSpec

-----------------------------------------------------------------------------
(* What the steps do to the stored tokens and links.                         *)

LEMMA SentStays ==
  ASSUME Inv, NEW c \in Requests, AccountsStep(c), request[c].pc \in {"mail", "done"}
  PROVE  request'[c].pc \in {"mail", "done"}
<1>1. CASE SendPasswordResetEmail(c) \/ Fail(c)
  BY <1>1, DoneType, Typed DEF SendPasswordResetEmail, Fail, End
<1> QED
  BY <1>1 DEF AccountsStep, RegisterUser, ValidateSocialUser, LoginUser, ForgotPassword,
     ResetPassword, RefreshAccessToken, Begins, Authenticate, Refuse, ResolveSignupDefaults,
     AddGroupingPolicy, StoreLink, FindByLink, UpdateUser, GenerateTokens, KeepResetToken,
     ChangePassword, Logout, UpdateUserProfile, DeleteUser, CreateSubUser, CreateUserWithFreePlan

(* A token is stored by GenerateTokens alone, a link by KeepResetToken; what *)
(* else is stored was there or is cleared, and a token cleared has ended.    *)
TokensLeft == \A v \in Ids : people'[v].refresh \in {people[v].refresh, Nil}
LinksLeft == \A v \in Ids : people'[v].reset \in {people[v].reset, Nil}
EndsCleared ==
  \A t \in ended' \ ended :
     t # Nil /\ \E u \in Ids : people[u].refresh = t /\ people'[u].refresh = Nil

LEMMA SetLeft ==
  ASSUME Inv, NEW u \in Ids, NEW row, Set(u, row)
  PROVE  /\ row.refresh \in {people[u].refresh, Nil} => TokensLeft
         /\ row.reset \in {people[u].reset, Nil} => LinksLeft
BY SetRows DEF TokensLeft, LinksLeft

LEMMA ClearLeft ==
  ASSUME Inv, NEW u \in Ids, NEW row, Set(u, row), row.refresh = Nil, Ends(u, Nil)
  PROVE  EndsCleared
BY SetRows DEF Ends, Live, EndsCleared

LEMMA GoneLeft ==
  ASSUME Inv, NEW c \in Requests, NEW u \in Ids, DeleteUser(c, u)
  PROVE  TokensLeft /\ LinksLeft
<1>1. people' = [v \in Ids |-> IF v = u \/ people[v].owner = u
                   THEN [Unborn EXCEPT !.state = "removed"] ELSE people[v]]
  BY DEF DeleteUser
<1>2. /\ [Unborn EXCEPT !.state = "removed"].refresh = Nil
      /\ [Unborn EXCEPT !.state = "removed"].reset = Nil
  BY DEF Unborn
<1> QED BY <1>1, <1>2 DEF TokensLeft, LinksLeft

LEMMA RowsLeft ==
  ASSUME Inv, NEW c \in Requests, AccountsStep(c)
  PROVE  /\ ~GenerateTokens(c) => TokensLeft /\ EndsCleared
         /\ ~KeepResetToken(c) => LinksLeft
<1>0. ASSUME NEW u \in Ids PROVE people[u] \in Person BY Typed
<1>1. CASE GenerateTokens(c)
  <2> DEFINE u == request[c].user
             row == [people[u] EXCEPT !.refresh = request[c].token]
  <2>1. u \in Ids BY <1>1, Typed DEF GenerateTokens
  <2>2. row.reset = people[u].reset BY <1>0, <2>1 DEF Person
  <2>3. Set(u, row) BY <1>1 DEF GenerateTokens, UpdateRefreshToken
  <2>4. ~KeepResetToken(c) BY <1>1 DEF GenerateTokens, KeepResetToken
  <2> HIDE DEF row
  <2> QED BY <1>1, <2>1, <2>2, <2>3, SetLeft
<1>2. CASE KeepResetToken(c)
  <2> DEFINE u == request[c].user
             row == [people[u] EXCEPT !.reset = c, !.expired = FALSE]
  <2>1. u \in Ids BY <1>2, Typed DEF KeepResetToken
  <2>2. row.refresh = people[u].refresh BY <1>0, <2>1 DEF Person
  <2>3. Set(u, row) /\ ended' = ended BY <1>2 DEF KeepResetToken, SetResetPasswordToken
  <2> HIDE DEF row
  <2> QED BY <1>2, <2>1, <2>2, <2>3, SetLeft DEF EndsCleared
<1>3. CASE ChangePassword(c)
  <2> DEFINE u == request[c].user
             row == [people[u] EXCEPT !.local = TRUE, !.refresh = Nil, !.reset = Nil]
  <2>1. u \in Ids BY <1>3, Typed DEF ChangePassword
  <2>2. row.refresh = Nil /\ row.reset = Nil BY <1>0, <2>1 DEF Person
  <2>3. Set(u, row) /\ Ends(u, Nil) BY <1>3 DEF ChangePassword, UpdatePasswordAndClearTokens
  <2> HIDE DEF row
  <2> QED BY <2>1, <2>2, <2>3, SetLeft, ClearLeft
<1>4. ASSUME NEW u \in Ids, Logout(c, u) PROVE TokensLeft /\ LinksLeft /\ EndsCleared
  <2> DEFINE row == [people[u] EXCEPT !.refresh = Nil]
  <2>1. row.refresh = Nil /\ row.reset = people[u].reset BY <1>0 DEF Person
  <2>2. Set(u, row) /\ Ends(u, Nil) BY <1>4 DEF Logout, ClearRefreshToken
  <2> HIDE DEF row
  <2> QED BY <2>1, <2>2, SetLeft, ClearLeft
<1>5. ASSUME NEW e, UpdateUserProfile(c, e) PROVE TokensLeft /\ LinksLeft /\ EndsCleared
  <2> DEFINE u == request[c].user
             row == IF e = Nil THEN [people[u] EXCEPT !.local = TRUE] ELSE [people[u] EXCEPT !.email = e]
  <2>1. u \in Ids BY <1>5, Typed DEF UpdateUserProfile
  <2>2. row.refresh = people[u].refresh /\ row.reset = people[u].reset BY <1>0, <2>1 DEF Person
  <2>3. Set(u, row) /\ ended' = ended BY <1>5 DEF UpdateUserProfile
  <2> HIDE DEF row
  <2> QED BY <2>1, <2>2, <2>3, SetLeft DEF EndsCleared
<1>6. ASSUME NEW u \in Ids, DeleteUser(c, u) PROVE TokensLeft /\ LinksLeft /\ EndsCleared
  BY <1>6, GoneLeft DEF DeleteUser, history, EndsCleared
<1>7. ASSUME NEW u \in Ids, CreateUserWithFreePlan(c, u) \/
             \E by \in Ids, e \in Emails : CreateSubUser(c, by, u, e)
      PROVE  TokensLeft /\ LinksLeft /\ EndsCleared
  <2>1. /\ people'[u].refresh = Nil /\ people'[u].reset = Nil /\ ended' = ended
        /\ \A v \in Ids : v # u => people'[v] = people[v]
    <3>1. CASE CreateUserWithFreePlan(c, u)
      BY <3>1, Typed DEF CreateUserWithFreePlan, Unborn, history
    <3>2. ASSUME NEW by \in Ids, NEW e \in Emails, CreateSubUser(c, by, u, e)
          PROVE  /\ people'[u].refresh = Nil /\ people'[u].reset = Nil /\ ended' = ended
                 /\ \A v \in Ids : v # u => people'[v] = people[v]
      BY <3>2, Typed DEF CreateSubUser, Unborn
    <3> QED BY <1>7, <3>1, <3>2
  <2> QED BY <2>1 DEF TokensLeft, LinksLeft, EndsCleared
<1>8. ASSUME people' = people, ended' = ended PROVE TokensLeft /\ LinksLeft /\ EndsCleared
  BY <1>8 DEF TokensLeft, LinksLeft, EndsCleared
<1>9. ASSUME \/ \E e \in Emails : RegisterUser(c, e) \/ ValidateSocialUser(c, e) \/ LoginUser(c, e)
                                  \/ ForgotPassword(c, e)
             \/ \E l \in mailed : ResetPassword(c, l)
             \/ \E t \in handed : RefreshAccessToken(c, t)
             \/ Fail(c) \/ Authenticate(c) \/ Refuse(c) \/ ResolveSignupDefaults(c)
             \/ AddGroupingPolicy(c) \/ StoreLink(c)
             \/ SendPasswordResetEmail(c) \/ FindByLink(c)
             \/ \E u \in Ids : UpdateUser(c, u)
      PROVE  people' = people /\ ended' = ended
  BY <1>9 DEF RegisterUser, ValidateSocialUser, LoginUser, ForgotPassword, ResetPassword,
     RefreshAccessToken, Begins, Fail, Authenticate, Refuse, ResolveSignupDefaults,
     AddGroupingPolicy, StoreLink, SendPasswordResetEmail, FindByLink, UpdateUser, history
<1> QED BY <1>1, <1>2, <1>3, <1>4, <1>5, <1>6, <1>7, <1>8, <1>9 DEF AccountsStep

(* What the steps do to the histories. *)
LEMMA HistoriesLeft ==
  ASSUME Inv, NEW c \in Requests, AccountsStep(c)
  PROVE  /\ ~ChangePassword(c) => UNCHANGED <<resets, spent, overtaken>>
         /\ ~GenerateTokens(c) => since' = since
         /\ ~FindByLink(c) => doubled' = doubled
         /\ ~Authenticate(c) /\ ~AddGroupingPolicy(c) => resigned' = resigned
BY DEF AccountsStep, RegisterUser, ValidateSocialUser, LoginUser, ForgotPassword, ResetPassword,
   RefreshAccessToken, Begins, Fail, Authenticate, Refuse, ResolveSignupDefaults,
   AddGroupingPolicy, StoreLink, SendPasswordResetEmail, FindByLink, UpdateUser, GenerateTokens,
   KeepResetToken, ChangePassword, Logout, UpdateUserProfile, DeleteUser, CreateSubUser,
   CreateUserWithFreePlan, history

-----------------------------------------------------------------------------
(* A reset ends the sessions.                                                *)

(* A call about to store a token has read its user as he is, unless he was   *)
(* overtaken.                                                               *)
Reads ==
  /\ \A c \in Requests : request[c].pc = "store" /\ request[c].user \notin overtaken =>
        request[c].read = resets[request[c].user]
  /\ \A u \in Ids \ overtaken : people[u].refresh # Nil => since[u] = resets[u]

LEMMA Signs ==
  ASSUME Inv, NEW c \in Requests, Authenticate(c) \/ AddGroupingPolicy(c)
  PROVE  /\ people' = people /\ ended' = ended
         /\ \E u \in Ids, e \in Emails : Sign(c, u, e)
<1>1. CASE Authenticate(c)
  BY <1>1, Typed DEF Authenticate, GetUserByEmail, GetUserByRefreshToken, Person
<1>2. CASE AddGroupingPolicy(c)
  <2>1. request[c].user \in Ids /\ request[c].email \in Emails
    BY <1>2, Typed DEF AddGroupingPolicy, Carries
  <2> QED BY <1>2, <2>1 DEF AddGroupingPolicy
<1> QED BY <1>1, <1>2

LEMMA ReadsStep ==
  ASSUME Inv, Reads, AccountsNext
  PROVE  Reads'
<1>1. ASSUME NEW c \in Requests, AccountsStep(c) PROVE Reads'
  <2>0. /\ \A d \in Requests : d # c => request'[d] = request[d]
        /\ request'[c].pc = "store" => Authenticate(c) \/ AddGroupingPolicy(c)
        /\ request[c] \in Request
        /\ request \in [Requests -> Request] /\ resets \in [Ids -> Nat] /\ since \in [Ids -> Nat]
        /\ \A d \in Requests : request[d].pc = "store" => request[d].user \in Ids
    BY <1>1, CallsKept, Typed
  <2>1. CASE Authenticate(c) \/ AddGroupingPolicy(c)
    <3>1. PICK u \in Ids, e \in Emails : Sign(c, u, e) BY <2>1, Signs
    <3>2. request'[c].user = u /\ request'[c].read = resets[u] BY <2>0, <3>1 DEF Sign, Request
    <3>3. people' = people /\ UNCHANGED <<resets, since, overtaken>>
      BY <2>1 DEF Authenticate, AddGroupingPolicy
    <3> QED BY <2>0, <3>2, <3>3 DEF Reads
  <2>2. CASE GenerateTokens(c)
    <3> DEFINE u == request[c].user
    <3>1. /\ u \in Ids /\ request[c].pc = "store" /\ UNCHANGED <<resets, overtaken>>
          /\ since' = [since EXCEPT ![u] = IF Live(u) THEN request[c].read ELSE @]
          /\ Set(u, [people[u] EXCEPT !.refresh = request[c].token])
      BY <2>2, Typed DEF GenerateTokens, UpdateRefreshToken
    <3>2. request'[c].pc # "store" BY <2>0, <2>2 DEF GenerateTokens, Authenticate, AddGroupingPolicy
    <3>3. \A v \in Ids : v # u => people'[v] = people[v] /\ since'[v] = since[v]
      BY <2>0, <3>1, SetRows
    <3>4. ~Live(u) => people'[u] = people[u] /\ since'[u] = since[u]
      BY <2>0, <3>1, SetRows DEF Live
    <3>5. Live(u) => since'[u] = request[c].read BY <2>0, <3>1
    <3> HIDE DEF u
    <3>6. \A v \in Ids \ overtaken' : people'[v].refresh # Nil => since'[v] = resets'[v]
      BY <2>0, <3>1, <3>3, <3>4, <3>5 DEF Reads, u
    <3>7. \A d \in Requests : request'[d].pc = "store" /\ request'[d].user \notin overtaken' =>
            request'[d].read = resets'[request'[d].user]
      BY <2>0, <3>1, <3>2 DEF Reads
    <3> QED BY <3>6, <3>7 DEF Reads
  <2>3. CASE ChangePassword(c)
    <3> DEFINE u == request[c].user
               row == [people[u] EXCEPT !.local = TRUE, !.refresh = Nil, !.reset = Nil]
    <3>1. /\ u \in Ids /\ since' = since
          /\ resets' = [resets EXCEPT ![u] = IF Live(u) THEN @ + 1 ELSE @]
          /\ overtaken' = IF \E d \in Requests : request[d].pc = "store" /\ request[d].user = u
                          THEN overtaken \cup {u} ELSE overtaken
          /\ Set(u, row)
      BY <2>3, Typed DEF ChangePassword, UpdatePasswordAndClearTokens
    <3>2. row.refresh = Nil BY <3>1, Typed DEF Person
    <3> HIDE DEF row
    <3>3. request'[c].pc # "store" BY <2>0, <2>3 DEF ChangePassword, Authenticate, AddGroupingPolicy
    <3>4. /\ \A v \in Ids : v # u => people'[v] = people[v] /\ resets'[v] = resets[v]
          /\ people'[u].refresh = Nil
      BY <2>0, <3>1, <3>2, SetRows, Typed
    <3> HIDE DEF u
    <3>5. \A v \in Ids \ overtaken' : people'[v].refresh # Nil => since'[v] = resets'[v]
      BY <3>1, <3>4 DEF Reads
    <3>6. \A d \in Requests : request'[d].pc = "store" /\ request'[d].user \notin overtaken' =>
            request'[d].read = resets'[request'[d].user]
      BY <2>0, <3>1, <3>3, <3>4 DEF Reads
    <3> QED BY <3>5, <3>6 DEF Reads
  <2>4. CASE ~Authenticate(c) /\ ~AddGroupingPolicy(c) /\ ~GenerateTokens(c) /\ ~ChangePassword(c)
    <3>1. UNCHANGED <<resets, since, overtaken>> /\ TokensLeft
      BY <1>1, <2>4, HistoriesLeft, RowsLeft
    <3> QED BY <2>0, <2>4, <3>1 DEF Reads, TokensLeft
  <2> QED BY <2>1, <2>2, <2>3, <2>4
<1>2. ASSUME NEW u \in Ids, Expire(u) PROVE Reads'
  <2>1. /\ UNCHANGED <<request, resets, since, overtaken>>
        /\ \A v \in Ids : people'[v].refresh = people[v].refresh
    BY <1>2, Typed DEF Expire, history, Person
  <2> QED BY <2>1 DEF Reads
<1>3. CASE Tick BY <1>3 DEF Tick, history, Reads
<1> QED BY <1>1, <1>2, <1>3 DEF AccountsNext

LEMMA NoneAtStart == AccountsInit => \A c \in Requests : request[c].pc = "new"
<1>1. NoRequest.pc = "new" BY DEF NoRequest
<1> QED BY <1>1 DEF AccountsInit

(* After a reset no session lives that was opened before it, unless the reset *)
(* fell between the read and the store of another call.                      *)
THEOREM ResetEndsCorrect == AccountsSpec => []ResetEndsSessions
<1>1. AccountsInit => Reads
  <2>1. AccountsInit => \A u \in Ids : since[u] = resets[u] BY DEF AccountsInit
  <2> QED BY <2>1, NoneAtStart DEF Reads
<1>2. Inv /\ Reads /\ [AccountsNext]_accountVars => Reads'
  <2>1. CASE UNCHANGED accountVars BY <2>1 DEF accountVars, Reads
  <2> QED BY <2>1, ReadsStep
<1>3. Reads => ResetEndsSessions BY DEF Reads, ResetEndsSessions
<1> QED BY <1>1, <1>2, <1>3, InvInit, InvStep, PTL DEF AccountsSpec

-----------------------------------------------------------------------------
(* What has ended stays ended.                                               *)

(* A token about to be stored, and signed once, is nowhere else; one that    *)
(* has ended and was signed once is stored for nobody.                      *)
Ends1 ==
  \A c \in Requests : request[c].pc = "store" /\ request[c].token \notin resigned =>
     /\ request[c].token \notin ended
     /\ \A u \in Ids : people[u].refresh # request[c].token
     /\ \A d \in Requests : d # c /\ request[d].pc = "store" =>
           request[d].token # request[c].token
Ends2 == \A t \in ended \ resigned, u \in Ids : people[u].refresh # t

LEMMA OwnTokens ==
  ASSUME Inv
  PROVE  /\ \A u, v \in Ids : people[u].refresh # Nil /\ people[u].refresh = people[v].refresh => u = v
         /\ \A c \in Requests : request[c].pc = "store" =>
               /\ request[c].token \in Tokens /\ request[c].token.user = request[c].user
               /\ request[c].token # Nil
<1>1. \A t \in Tokens : t # Nil BY AccountsAssumption DEF Tokens
<1>2. ASSUME NEW u \in Ids, NEW v \in Ids, people[u].refresh # Nil, people[u].refresh = people[v].refresh
      PROVE  u = v
  BY <1>2, Typed DEF Blank
<1> QED BY <1>1, <1>2, Typed DEF Carries

LEMMA EndedStep ==
  ASSUME Inv, Ends1, Ends2, AccountsNext
  PROVE  Ends1' /\ Ends2'
<1>1. ASSUME NEW c \in Requests, AccountsStep(c) PROVE Ends1' /\ Ends2'
  <2>0. /\ \A d \in Requests : d # c => request'[d] = request[d]
        /\ request'[c].pc = "store" => Authenticate(c) \/ AddGroupingPolicy(c)
        /\ request[c] \in Request
        /\ request \in [Requests -> Request]
    BY <1>1, CallsKept, Typed
  <2>1. CASE Authenticate(c) \/ AddGroupingPolicy(c)
    <3>1. PICK u \in Ids, e \in Emails : Sign(c, u, e) BY <2>1, Signs
    <3> DEFINE t == Token(u, e, second)
    <3>2. /\ request'[c].pc = "store" /\ request'[c].token = t
          /\ resigned' = IF \/ t \in ended \cup handed
                            \/ people[u].refresh = t
                            \/ \E d \in Requests : request[d].pc = "store" /\ request[d].token = t
                         THEN resigned \cup {t} ELSE resigned
      BY <2>0, <3>1 DEF Sign, Request
    <3>3. people' = people /\ ended' = ended BY <2>1, Signs
    <3>4. \A v \in Ids : people[v].refresh = t => v = u
      <4>1. t.user = u BY DEF Token
      <4>2. t # Nil => \A v \in Ids : people[v].refresh = t => t.user = v BY Typed DEF Blank
      <4>3. t \in Tokens BY Typed, TokenTypes
      <4> QED BY <4>1, <4>2, <4>3, AccountsAssumption DEF Tokens
    <3> HIDE DEF t
    <3>5. Ends2' BY <3>2, <3>3 DEF Ends2
    <3>6. resigned \subseteq resigned' /\ (t \notin resigned' =>
             /\ t \notin ended /\ people[u].refresh # t
             /\ \A d \in Requests : ~(request[d].pc = "store" /\ request[d].token = t))
      BY <3>2
    <3>7. \A v \in Ids : t \notin resigned' => people[v].refresh # t BY <3>4, <3>6
    <3>8. ASSUME NEW d \in Requests, request'[d].pc = "store", request'[d].token \notin resigned'
          PROVE  /\ request'[d].token \notin ended'
                 /\ \A v \in Ids : people'[v].refresh # request'[d].token
                 /\ \A g \in Requests : g # d /\ request'[g].pc = "store" =>
                       request'[g].token # request'[d].token
      <4>1. CASE d = c
        BY <2>0, <3>2, <3>3, <3>6, <3>7, <3>8, <4>1
      <4>2. CASE d # c
        <5>1. request'[d] = request[d] /\ request[d].token \notin resigned BY <2>0, <3>6, <3>8, <4>2
        <5>2. request[d].token = t => t \in resigned' BY <3>2, <3>8, <5>1
        <5> QED BY <2>0, <3>2, <3>3, <3>8, <5>1, <5>2 DEF Ends1
      <4> QED BY <4>1, <4>2
    <3> QED BY <3>5, <3>8 DEF Ends1
  <2>2. CASE GenerateTokens(c)
    <3> DEFINE u == request[c].user
               t == request[c].token
    <3>1. /\ u \in Ids /\ request[c].pc = "store" /\ resigned' = resigned
          /\ Set(u, [people[u] EXCEPT !.refresh = t])
          /\ ended' = IF Live(u) /\ people[u].refresh \notin {Nil, t}
                         THEN ended \cup {people[u].refresh} ELSE ended
      BY <2>2, Typed DEF GenerateTokens, UpdateRefreshToken, Ends
    <3>2. request'[c].pc # "store" BY <2>0, <2>2 DEF GenerateTokens, Authenticate, AddGroupingPolicy
    <3>3. [people[u] EXCEPT !.refresh = t].refresh = t BY <3>1, Typed DEF Person
    <3>4. /\ \A v \in Ids : v # u => people'[v] = people[v]
          /\ Live(u) => people'[u].refresh = t
          /\ ~Live(u) => people'[u] = people[u]
      BY <3>1, <3>3, SetRows DEF Live
    <3>5. \A v \in Ids : people[v].refresh = people[u].refresh /\ people[u].refresh # Nil => v = u
      BY <3>1, OwnTokens
    <3>6. t \notin resigned =>
            /\ t \notin ended /\ \A v \in Ids : people[v].refresh # t
            /\ \A d \in Requests : d # c /\ request[d].pc = "store" => request[d].token # t
      BY <3>1 DEF Ends1
    <3> HIDE DEF u, t
    <3>7. Ends2' BY <3>1, <3>4, <3>5, <3>6 DEF Ends2
    <3>8. ASSUME NEW d \in Requests, request'[d].pc = "store", request'[d].token \notin resigned'
          PROVE  /\ request'[d].token \notin ended'
                 /\ \A v \in Ids : people'[v].refresh # request'[d].token
                 /\ \A g \in Requests : g # d /\ request'[g].pc = "store" =>
                       request'[g].token # request'[d].token
      <4>1. d # c /\ request'[d] = request[d] /\ request[d].token \notin resigned
        BY <2>0, <3>1, <3>2, <3>8
      <4>2. request[d].token # t BY <3>6, <3>8, <4>1
      <4>3. /\ request[d].token \notin ended /\ \A v \in Ids : people[v].refresh # request[d].token
            /\ \A g \in Requests : g # d /\ request[g].pc = "store" => request[g].token # request[d].token
        BY <3>8, <4>1 DEF Ends1
      <4> QED BY <2>0, <3>1, <3>2, <3>4, <4>1, <4>2, <4>3
    <3> QED BY <3>7, <3>8 DEF Ends1
  <2>3. CASE ~Authenticate(c) /\ ~AddGroupingPolicy(c) /\ ~GenerateTokens(c)
    <3>1. resigned' = resigned /\ TokensLeft /\ EndsCleared
      BY <1>1, <2>3, HistoriesLeft, RowsLeft
    <3>2. Ends2'
      <4> SUFFICES ASSUME NEW t \in ended' \ resigned', NEW v \in Ids, people'[v].refresh = t
                   PROVE  FALSE
        BY DEF Ends2
      <4>1. CASE t \in ended
        <5>1. people[v].refresh # t BY <3>1, <4>1 DEF Ends2
        <5>2. t = Nil BY <3>1, <5>1 DEF TokensLeft
        <5>3. t \in Tokens BY <4>1, Typed
        <5> QED BY <5>2, <5>3, AccountsAssumption DEF Tokens
      <4>2. CASE t \notin ended
        <5>1. t # Nil BY <3>1, <4>2 DEF EndsCleared
        <5>2. PICK u \in Ids : people[u].refresh = t /\ people'[u].refresh = Nil
          BY <3>1, <4>2 DEF EndsCleared
        <5>3. people[v].refresh = t BY <3>1, <5>1 DEF TokensLeft
        <5> QED BY <5>1, <5>2, <5>3, OwnTokens
      <4> QED BY <4>1, <4>2
    <3>3. ASSUME NEW d \in Requests, request'[d].pc = "store", request'[d].token \notin resigned'
          PROVE  /\ request'[d].token \notin ended'
                 /\ \A v \in Ids : people'[v].refresh # request'[d].token
                 /\ \A g \in Requests : g # d /\ request'[g].pc = "store" =>
                       request'[g].token # request'[d].token
      <4>1. d # c /\ request'[d] = request[d] /\ request[d].token \notin resigned
        BY <2>0, <2>3, <3>1, <3>3
      <4>2. request'[c].pc # "store" BY <2>0, <2>3
      <4>3. /\ request[d].token \notin ended /\ \A v \in Ids : people[v].refresh # request[d].token
            /\ \A g \in Requests : g # d /\ request[g].pc = "store" => request[g].token # request[d].token
            /\ request[d].token # Nil
        BY <3>3, <4>1, OwnTokens DEF Ends1
      <4> QED BY <2>0, <3>1, <4>1, <4>2, <4>3 DEF TokensLeft, EndsCleared
    <3> QED BY <3>2, <3>3 DEF Ends1
  <2> QED BY <2>1, <2>2, <2>3
<1>2. ASSUME NEW u \in Ids, Expire(u) PROVE Ends1' /\ Ends2'
  <2>1. /\ UNCHANGED <<request, ended, resigned>>
        /\ \A v \in Ids : people'[v].refresh = people[v].refresh
    BY <1>2, Typed DEF Expire, history, Person
  <2> QED BY <2>1 DEF Ends1, Ends2
<1>3. CASE Tick BY <1>3 DEF Tick, history, Ends1, Ends2
<1> QED BY <1>1, <1>2, <1>3 DEF AccountsNext

(* A token that ended is accepted no more, unless two calls signed it.       *)
THEOREM EndedStaysCorrect == AccountsSpec => []EndedStaysEnded
<1>1. AccountsInit => Ends1 /\ Ends2
  <2>1. AccountsInit => ended = {} BY DEF AccountsInit
  <2> QED BY <2>1, NoneAtStart DEF Ends1, Ends2
<1>2. Inv /\ Ends1 /\ Ends2 /\ [AccountsNext]_accountVars => Ends1' /\ Ends2'
  <2>1. CASE UNCHANGED accountVars BY <2>1 DEF accountVars, Ends1, Ends2
  <2> QED BY <2>1, EndedStep
<1>3. Ends2 => EndedStaysEnded BY DEF Ends2, EndedStaysEnded, GetUserByRefreshToken
<1> QED BY <1>1, <1>2, <1>3, InvInit, InvStep, PTL DEF AccountsSpec

-----------------------------------------------------------------------------
(* A link resets one password.                                               *)

(* Who may yet be reset by a link: who has it, and who was found by it. *)
Aims(l, u) == \/ people[u].reset = l
              \/ \E d \in Requests : request[d].pc = "change" /\ request[d].link = l
                                   /\ request[d].user = u

Unsent(l) == l \in Requests /\ request[l].pc \notin {"mail", "done"}

(* A link nobody stored yet aims at nobody and has reset nothing; it never   *)
(* aims at two users; and unless it was found twice, one call changes by it  *)
(* and after that it aims at nobody.                                        *)
LinkOnce(l) ==
  /\ Unsent(l) => spent[l] = 0 /\ \A u \in Ids : ~Aims(l, u)
  /\ \A u, v \in Ids : Aims(l, u) /\ Aims(l, v) => u = v
  /\ l \notin doubled =>
        /\ \A c, d \in Requests : /\ request[c].pc = "change" /\ request[c].link = l
                                 /\ request[d].pc = "change" /\ request[d].link = l => c = d
        /\ spent[l] = 0 \/ (spent[l] = 1 /\ \A u \in Ids : ~Aims(l, u))

(* A step that finds and stores no link leaves a link no more aims. *)
LEMMA AimsLeft ==
  ASSUME Inv, NEW c \in Requests, AccountsStep(c), ~KeepResetToken(c), ~FindByLink(c),
         NEW l \in Links
  PROVE  /\ \A u \in Ids : Aims(l, u)' => Aims(l, u)
         /\ \A d \in Requests : request'[d].pc = "change" => d # c /\ request'[d] = request[d]
<1>1. LinksLeft BY RowsLeft
<1>2. \A d \in Requests : request'[d].pc = "change" => d # c /\ request'[d] = request[d] BY CallsKept
<1>3. l # Nil BY LinkTypes
<1> QED BY <1>1, <1>2, <1>3 DEF LinksLeft, Aims

LEMMA UnsentLeft ==
  ASSUME Inv, NEW c \in Requests, AccountsStep(c), NEW l, Unsent(l)'
  PROVE  Unsent(l)
BY SentStays, CallsKept DEF Unsent

LEMMA OnceStep ==
  ASSUME Inv, NEW c \in Requests, AccountsStep(c), NEW l \in Links, LinkOnce(l)
  PROVE  LinkOnce(l)'
<1>0. /\ \A d \in Requests : d # c => request'[d] = request[d]
      /\ request'[c].pc = "change" => FindByLink(c)
      /\ Unsent(l)' => Unsent(l)
      /\ request \in [Requests -> Request] /\ request[c] \in Request /\ spent \in [Links -> Nat]
      /\ l # Nil /\ c \in Links
  BY CallsKept, UnsentLeft, Typed, LinkTypes
<1>1. CASE KeepResetToken(c)
  <2> DEFINE w == request[c].user
  <2>1. /\ w \in Ids /\ request[c].pc = "link" /\ Set(w, [people[w] EXCEPT !.reset = c, !.expired = FALSE])
    BY <1>1, Typed DEF KeepResetToken, SetResetPasswordToken
  <2>2. people[w] \in Person BY <2>1, Typed
  <2>3. [people[w] EXCEPT !.reset = c, !.expired = FALSE].reset = c BY <2>2 DEF Person
  <2>4. /\ \A v \in Ids : v # w => people'[v] = people[v]
        /\ people'[w].reset \in {people[w].reset, c}
    BY <2>1, <2>3, SetRows
  <2>5. request'[c].pc = "mail" BY <1>0, <1>1 DEF KeepResetToken, Goes, Request
  <2>6. /\ spent' = spent /\ doubled' = doubled BY <1>1 DEF KeepResetToken
  <2>7. \A d \in Requests : request'[d].pc = "change" => d # c /\ request'[d] = request[d]
    BY <1>0, <2>5
  <2> HIDE DEF w
  <2>8. CASE l # c
    <3>1. \A u \in Ids : Aims(l, u)' => Aims(l, u) BY <2>4, <2>7, <2>8 DEF Aims
    <3> QED BY <1>0, <2>6, <2>7, <3>1 DEF LinkOnce
  <2>9. CASE l = c
    <3>1. spent[l] = 0 /\ \A u \in Ids : ~Aims(l, u) BY <2>1, <2>9 DEF LinkOnce, Unsent
    <3>2. \A u \in Ids : Aims(l, u)' => u = w BY <2>4, <2>7, <2>9, <3>1 DEF Aims
    <3>3. ~Unsent(l)' BY <2>5, <2>9 DEF Unsent
    <3> QED BY <1>0, <2>6, <2>7, <3>1, <3>2, <3>3 DEF LinkOnce
  <2> QED BY <2>8, <2>9
<1>2. CASE FindByLink(c)
  <2>1. PICK w \in Ids : /\ people[w].reset = request[c].link
                         /\ request' = [request EXCEPT ![c].pc = "change", ![c].user = w]
    BY <1>2 DEF FindByLink, GetUserByResetToken
  <2>2. /\ request'[c].pc = "change" /\ request'[c].user = w /\ request'[c].link = request[c].link
    BY <1>0, <2>1 DEF Request
  <2>3. /\ people' = people /\ spent' = spent
        /\ doubled' = IF \E d \in Requests : request[d].pc = "change"
                                            /\ request[d].link = request[c].link
                       THEN doubled \cup {request[c].link} ELSE doubled
        /\ request[c].pc = "find"
    BY <1>2 DEF FindByLink
  <2>4. \A u \in Ids : Aims(l, u)' => Aims(l, u) BY <1>0, <2>1, <2>2, <2>3 DEF Aims
  <2>5. ASSUME l \notin doubled'
        PROVE  /\ l \notin doubled
               /\ request[c].link = l => \A d \in Requests : ~(request[d].pc = "change" /\ request[d].link = l)
    BY <2>3, <2>5
  <2>6. ASSUME NEW a \in Requests, NEW b \in Requests, l \notin doubled',
               request'[a].pc = "change", request'[a].link = l,
               request'[b].pc = "change", request'[b].link = l
        PROVE  a = b
    <3>1. CASE a # c /\ b # c BY <1>0, <2>5, <2>6, <3>1 DEF LinkOnce
    <3>2. CASE a = c BY <1>0, <2>2, <2>5, <2>6, <3>2
    <3>3. CASE b = c BY <1>0, <2>2, <2>5, <2>6, <3>3
    <3> QED BY <3>1, <3>2, <3>3
  <2> QED BY <1>0, <2>3, <2>4, <2>5, <2>6 DEF LinkOnce
<1>3. CASE ChangePassword(c)
  <2> DEFINE w == request[c].user
             k == request[c].link
             row == [people[w] EXCEPT !.local = TRUE, !.refresh = Nil, !.reset = Nil]
  <2>1. /\ w \in Ids /\ k \in Links /\ request[c].pc = "change" /\ doubled' = doubled
        /\ Set(w, row) /\ spent' = [spent EXCEPT ![k] = IF Live(w) THEN @ + 1 ELSE @]
    BY <1>3, Typed DEF ChangePassword, UpdatePasswordAndClearTokens, Carries
  <2>2. row.reset = Nil BY <2>1, Typed DEF Person
  <2> HIDE DEF row
  <2>3. people'[w].reset = Nil
    BY <2>1, <2>2, SetRows, Typed DEF AccountsTypeOK, Inv
  <2>4. ~KeepResetToken(c) /\ ~FindByLink(c) BY <2>1 DEF KeepResetToken, FindByLink
  <2>5. /\ \A u \in Ids : Aims(l, u)' => Aims(l, u)
        /\ \A d \in Requests : request'[d].pc = "change" => d # c /\ request'[d] = request[d]
    BY <2>4, AimsLeft
  <2>6. k = l => Aims(l, w) BY <2>1 DEF Aims
  <2>7. k # l \/ ~Live(w) => spent'[l] = spent[l] BY <1>0, <2>1
  <2>8. k = l /\ Live(w) => spent'[l] = spent[l] + 1 BY <1>0, <2>1
  <2> HIDE DEF w, k
  <2>9. CASE k # l \/ ~Live(w)
    BY <1>0, <2>1, <2>5, <2>7, <2>9 DEF LinkOnce
  <2>10. CASE k = l /\ Live(w)
    <3>1. ~Unsent(l) BY <2>1, <2>6, <2>10 DEF LinkOnce
    <3>2. \A u \in Ids : Aims(l, u)' => u = w BY <2>1, <2>5, <2>6, <2>10 DEF LinkOnce
    <3>3. ASSUME l \notin doubled
          PROVE  spent'[l] = 1 /\ \A u \in Ids : ~Aims(l, u)'
      <4>1. spent[l] = 0 BY <2>1, <2>6, <2>10, <3>3 DEF LinkOnce
      <4>2. \A d \in Requests : ~(request'[d].pc = "change" /\ request'[d].link = l)
        BY <2>1, <2>5, <2>10, <3>3 DEF LinkOnce, k
      <4>3. \A u \in Ids : ~Aims(l, u)' BY <1>0, <2>3, <3>2, <4>2 DEF Aims
      <4> QED BY <2>8, <2>10, <4>1, <4>3
    <3> QED BY <1>0, <2>1, <2>5, <3>1, <3>3 DEF LinkOnce
  <2> QED BY <2>9, <2>10
<1>4. CASE ~KeepResetToken(c) /\ ~FindByLink(c) /\ ~ChangePassword(c)
  <2>1. spent' = spent /\ doubled' = doubled BY <1>4, HistoriesLeft
  <2> QED BY <1>0, <1>4, <2>1, AimsLeft DEF LinkOnce
<1> QED BY <1>1, <1>2, <1>3, <1>4

(* A link resets a password once, unless two calls had found its user before *)
(* either stored.                                                           *)
THEOREM ResetOnceCorrect == AccountsSpec => []ResetOnceUnlessRaced
<1> DEFINE Once == \A l \in Links : LinkOnce(l)
<1>1. AccountsInit => Once
  <2> SUFFICES ASSUME AccountsInit, NEW l \in Links PROVE LinkOnce(l)
    OBVIOUS
  <2>1. \A c \in Requests : request[c].pc = "new" BY NoneAtStart
  <2>2. spent[l] = 0 BY DEF AccountsInit
  <2>3. \A u \in Ids : people[u].reset = IF u = Root THEN FirstLink ELSE Nil
    BY DEF AccountsInit, Unborn
  <2>4. l # Nil /\ (l = FirstLink => l \notin Requests) BY LinkTypes, AccountsAssumption
  <2> QED BY <2>1, <2>2, <2>3, <2>4 DEF LinkOnce, Unsent, Aims
<1>2. Inv /\ Once /\ [AccountsNext]_accountVars => Once'
  <2> SUFFICES ASSUME Inv, [AccountsNext]_accountVars, NEW l \in Links, LinkOnce(l)
               PROVE  LinkOnce(l)'
    BY DEF Once
  <2>1. ASSUME NEW u \in Ids, Expire(u) PROVE LinkOnce(l)'
    <3>1. /\ UNCHANGED <<request, spent, doubled>>
          /\ \A v \in Ids : people'[v].reset = people[v].reset
      BY <2>1, Typed DEF Expire, history, Person
    <3> QED BY <3>1 DEF LinkOnce, Aims, Unsent
  <2>2. CASE Tick BY <2>2 DEF Tick, history, LinkOnce, Aims, Unsent
  <2>3. CASE UNCHANGED accountVars BY <2>3 DEF accountVars, LinkOnce, Aims, Unsent
  <2> QED BY <2>1, <2>2, <2>3, OnceStep DEF AccountsNext
<1>3. Once => ResetOnceUnlessRaced
  BY DEF LinkOnce, ResetOnceUnlessRaced
<1> QED BY <1>1, <1>2, <1>3, InvInit, InvStep, PTL DEF AccountsSpec
=============================================================================
