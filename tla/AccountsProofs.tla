---------------------------- MODULE AccountsProofs ----------------------------
(***************************************************************************)
(* Proofs about module Accounts, for any sets of users, emails, passwords, *)
(* places and concurrent requests.  AccountsInv is inductive.  Most        *)
(* requests end without touching a table or a token, which QuietStep says  *)
(* once for all of them; the others get a step of their own.               *)
(***************************************************************************)
EXTENDS Accounts, TLAPS

(* A request that ends and changes neither a table nor a token preserves   *)
(* the invariant: the other requests still name the rows they named.       *)
LEMMA QuietStep ==
  ASSUME AccountsInv, NEW s \in Session,
         Goto(s, "idle", Nil, Nil),
         answer' \in [code : Codes \cup {0}, duplicate : BOOLEAN],
         UNCHANGED <<userVars, token, placeVars>>
  PROVE  AccountsInv'
<1>1. AccountsTypeOK'
  BY DEF AccountsInv, AccountsTypeOK, Goto, userVars, placeVars
<1>2. OwnersAreRows'
  BY DEF AccountsInv, AccountsTypeOK, OwnersAreRows, Goto, userVars, placeVars
<1>3. EmailNeverReused'
  BY DEF AccountsInv, EmailNeverReused, userVars
<1>4. \A r \in Session : pc'[r] = "authorized" => token'[subject'[r]] # "none"
  BY DEF AccountsInv, AccountsTypeOK, Goto
<1> QED
  BY <1>1, <1>2, <1>3, <1>4 DEF AccountsInv

(* A finished request is a quiet one if its status is one the API uses. *)
LEMMA FinishStep ==
  ASSUME AccountsInv, NEW s \in Session, NEW code \in Codes,
         Finish(s, code),
         UNCHANGED <<userVars, token, placeVars>>
  PROVE  AccountsInv'
<1>1. answer' \in [code : Codes \cup {0}, duplicate : BOOLEAN]
  BY DEF Finish
<1> QED
  BY <1>1, QuietStep DEF Finish

(* A new row with an email that no row has keeps the emails distinct. *)
LEMMA InsertKeepsEmails ==
  ASSUME AccountsInv, NEW u \in User, NEW e \in Email, NEW w \in Password,
         InsertUser(u, e, w)
  PROVE  EmailNeverReused'
<1> USE DEF AccountsInv, AccountsTypeOK, InsertUser
<1>1. \A v \in User \ {u} : row'[v] = row[v] /\ email'[v] = email[v]
  OBVIOUS
<1>2. \A v \in User \ {u} : row'[v] # "absent" => email'[v] # e
  BY <1>1 DEF Taken
<1>3. email'[u] = e
  OBVIOUS
<1> QED
  BY <1>1, <1>2, <1>3 DEF EmailNeverReused

(* The actions that begin a request. *)
LEMMA NewRequestStep ==
  ASSUME AccountsInv, NEW s \in Session, NewRequest(s)
  PROVE  AccountsInv'
<1> USE DEF Codes
<1>1. CASE RefuseInput(s)
  BY <1>1, FinishStep DEF RefuseInput
<1>2. CASE InternalError(s)
  BY <1>2, FinishStep DEF InternalError
<1>3. CASE Unauthorized(s)
  BY <1>3, FinishStep DEF Unauthorized
<1>4. ASSUME NEW u \in User, NEW e \in Email, NEW w \in Password,
             Register(s, u, e, w)
      PROVE  AccountsInv'
  <2> USE DEF AccountsInv, AccountsTypeOK, Register, InsertUser, Goto, placeVars, NoAnswer
  <2>1. AccountsTypeOK'
    BY <1>4 DEF RowState
  <2>2. OwnersAreRows'
    BY <1>4 DEF OwnersAreRows
  <2>3. EmailNeverReused'
    BY <1>4, InsertKeepsEmails
  <2>4. \A r \in Session : pc'[r] = "authorized" => token'[subject'[r]] # "none"
    BY <1>4
  <2> QED
    BY <2>1, <2>2, <2>3, <2>4
<1>5. ASSUME NEW u \in User, NEW e \in Email, NEW w \in Password,
             CreateUser(s, u, e, w)
      PROVE  AccountsInv'
  <2> USE DEF AccountsInv, AccountsTypeOK, CreateUser, InsertUser, Finish, Goto, placeVars
  <2>1. AccountsTypeOK'
    BY <1>5 DEF RowState
  <2>2. OwnersAreRows'
    BY <1>5 DEF OwnersAreRows
  <2>3. EmailNeverReused'
    BY <1>5, InsertKeepsEmails
  <2>4. \A r \in Session : pc'[r] = "authorized" => token'[subject'[r]] # "none"
    BY <1>5
  <2> QED
    BY <2>1, <2>2, <2>3, <2>4
<1>6. ASSUME NEW u \in User, NEW e \in Email, NEW w \in Password,
             LoginFound(s, u, e, w)
      PROVE  AccountsInv'
  <2> USE DEF AccountsInv, AccountsTypeOK, LoginFound, Goto, userVars, placeVars, NoAnswer
  <2>1. AccountsTypeOK'
    BY <1>6
  <2>2. OwnersAreRows'
    BY <1>6 DEF OwnersAreRows
  <2>3. EmailNeverReused'
    BY <1>6 DEF EmailNeverReused
  <2>4. \A r \in Session : pc'[r] = "authorized" => token'[subject'[r]] # "none"
    BY <1>6
  <2> QED
    BY <2>1, <2>2, <2>3, <2>4
<1>7. ASSUME NEW e \in Email, DuplicateEmail(s, e)
      PROVE  AccountsInv'
  BY <1>7, QuietStep DEF DuplicateEmail
<1>8. ASSUME NEW e \in Email, LoginNotFound(s, e)
      PROVE  AccountsInv'
  BY <1>8, FinishStep DEF LoginNotFound
<1>9. ASSUME NEW u \in User, NEW e \in Email, UpdateUser(s, u, e)
      PROVE  AccountsInv'
  BY <1>9, FinishStep DEF UpdateUser
<1>10. ASSUME NEW u \in User, DeleteUser(s, u)
       PROVE  AccountsInv'
  <2> USE DEF AccountsInv, AccountsTypeOK, DeleteUser, Finish, Goto, placeVars
  <2>1. AccountsTypeOK'
    BY <1>10 DEF RowState
  <2>2. \A v \in User : row'[v] # "absent" <=> row[v] # "absent"
    BY <1>10
  <2>3. OwnersAreRows'
    BY <1>10, <2>2 DEF OwnersAreRows
  <2>4. EmailNeverReused'
    BY <1>10, <2>2 DEF EmailNeverReused
  <2>5. \A r \in Session : pc'[r] = "authorized" => token'[subject'[r]] # "none"
    BY <1>10
  <2> QED
    BY <2>1, <2>3, <2>4, <2>5
<1>11. ASSUME NEW u \in User, Authorize(s, u)
       PROVE  AccountsInv'
  <2> USE DEF AccountsInv, AccountsTypeOK, Authorize, Goto, userVars, placeVars, NoAnswer
  <2>1. AccountsTypeOK'
    BY <1>11
  <2>2. OwnersAreRows'
    BY <1>11 DEF OwnersAreRows
  <2>3. EmailNeverReused'
    BY <1>11 DEF EmailNeverReused
  <2>4. \A r \in Session : pc'[r] = "authorized" => token'[subject'[r]] # "none"
    BY <1>11
  <2> QED
    BY <2>1, <2>2, <2>3, <2>4
<1>12. ASSUME NEW p \in Place, UpdatePlace(s, p)
       PROVE  AccountsInv'
  BY <1>12, FinishStep DEF UpdatePlace
<1>13. ASSUME NEW p \in Place, DeletePlace(s, p)
       PROVE  AccountsInv'
  <2> USE DEF AccountsInv, AccountsTypeOK, DeletePlace, Finish, Goto, userVars
  <2>1. AccountsTypeOK'
    BY <1>13 DEF RowState
  <2>2. \A q \in Place : placeRow'[q] # "absent" <=> placeRow[q] # "absent"
    BY <1>13
  <2>3. OwnersAreRows'
    BY <1>13, <2>2 DEF OwnersAreRows
  <2>4. EmailNeverReused'
    BY <1>13 DEF EmailNeverReused
  <2>5. \A r \in Session : pc'[r] = "authorized" => token'[subject'[r]] # "none"
    BY <1>13
  <2> QED
    BY <2>1, <2>3, <2>4, <2>5
<1>14. ASSUME NEW u \in User, GetUser(s, u)
       PROVE  AccountsInv'
  BY <1>14, FinishStep DEF GetUser
<1>15. ASSUME NEW p \in Place, GetPlace(s, p)
       PROVE  AccountsInv'
  BY <1>15, FinishStep DEF GetPlace
<1> QED
  BY <1>1, <1>2, <1>3, <1>4, <1>5, <1>6, <1>7, <1>8, <1>9, <1>10, <1>11,
     <1>12, <1>13, <1>14, <1>15
  DEF NewRequest

(* The actions of a request that has begun. *)
LEMMA SessionStepStep ==
  ASSUME AccountsInv, NEW s \in Session, SessionStep(s)
  PROVE  AccountsInv'
<1> USE DEF Codes
<1>1. CASE PasswordMatches(s)
  <2> USE DEF AccountsInv, AccountsTypeOK, PasswordMatches, Goto, userVars, placeVars, NoAnswer
  <2>1. AccountsTypeOK'
    BY <1>1
  <2>2. OwnersAreRows'
    BY <1>1 DEF OwnersAreRows
  <2>3. EmailNeverReused'
    BY <1>1 DEF EmailNeverReused
  <2>4. \A r \in Session : pc'[r] = "authorized" => token'[subject'[r]] # "none"
    BY <1>1
  <2> QED
    BY <2>1, <2>2, <2>3, <2>4
<1>2. CASE PasswordWrong(s)
  BY <1>2, FinishStep DEF PasswordWrong
<1>3. CASE GenerateToken(s)
  <2> USE DEF AccountsInv, AccountsTypeOK, GenerateToken, Finish, Goto, userVars, placeVars
  <2>1. subject[s] \in User /\ row[subject[s]] # "absent"
    BY <1>3 DEF OwnersAreRows
  <2>2. AccountsTypeOK'
    <3> DEFINE c == IF pc[s] = "registered" THEN 201 ELSE 200
    <3>1. c \in Codes /\ Finish(s, c)
      BY <1>3
    <3> HIDE DEF c
    <3>2. answer' \in [code : Codes \cup {0}, duplicate : BOOLEAN]
      BY <3>1
    <3>3. /\ pc' \in [Session -> {"idle", "registered", "found", "checked", "authorized"}]
          /\ subject' \in [Session -> User \cup {Nil}]
          /\ cred' \in [Session -> Password \cup {Nil}]
      BY <3>1
    <3>4. token' \in [User -> {"none", "valid", "expired"}]
      BY <1>3, <2>1
    <3> QED
      BY <1>3, <3>2, <3>3, <3>4
  <2>3. \A u \in User : token[u] # "none" => token'[u] # "none"
    BY <1>3
  <2>4. OwnersAreRows'
    BY <1>3, <2>1, <2>3 DEF OwnersAreRows
  <2>5. EmailNeverReused'
    BY <1>3 DEF EmailNeverReused
  <2>6. \A r \in Session : pc'[r] = "authorized" => token'[subject'[r]] # "none"
    BY <1>3, <2>3 DEF OwnersAreRows
  <2> QED
    BY <2>2, <2>4, <2>5, <2>6
<1>4. CASE PlaceRefused(s)
  BY <1>4, FinishStep DEF PlaceRefused
<1>5. ASSUME NEW p \in Place, CreatePlace(s, p)
      PROVE  AccountsInv'
  <2> USE DEF AccountsInv, AccountsTypeOK, CreatePlace, Finish, Goto, userVars
  <2>1. subject[s] \in User /\ token[subject[s]] # "none"
    BY <1>5 DEF OwnersAreRows
  <2>2. AccountsTypeOK'
    BY <1>5, <2>1 DEF RowState
  <2>3. OwnersAreRows'
    BY <1>5, <2>1 DEF OwnersAreRows
  <2>4. EmailNeverReused'
    BY <1>5 DEF EmailNeverReused
  <2>5. \A r \in Session : pc'[r] = "authorized" => token'[subject'[r]] # "none"
    BY <1>5
  <2> QED
    BY <2>2, <2>3, <2>4, <2>5
<1>6. CASE TokenNotSigned(s)
  BY <1>6, FinishStep DEF TokenNotSigned
<1> QED
  BY <1>1, <1>2, <1>3, <1>4, <1>5, <1>6 DEF SessionStep

(* A token that expires changes nothing else. *)
LEMMA ExpiryStep ==
  ASSUME AccountsInv, NEW u \in User, TokenExpires(u)
  PROVE  AccountsInv'
<1> USE DEF AccountsInv, AccountsTypeOK, TokenExpires, userVars, placeVars, sessionVars, NoAnswer
<1>1. AccountsTypeOK'
  OBVIOUS
<1>2. \A v \in User : token'[v] # "none" <=> token[v] # "none"
  OBVIOUS
<1>3. OwnersAreRows'
  BY <1>2 DEF OwnersAreRows
<1>4. EmailNeverReused'
  BY DEF EmailNeverReused
<1>5. \A r \in Session : pc'[r] = "authorized" => token'[subject'[r]] # "none"
  BY <1>2 DEF OwnersAreRows
<1> QED
  BY <1>1, <1>3, <1>4, <1>5

(* AccountsInv holds in every reachable state. *)
THEOREM AccountsInvariance == AccountsSpec => []AccountsInv
<1>1. AccountsInit => AccountsInv
  BY DEF AccountsInit, NoAnswer, AccountsInv, AccountsTypeOK, OwnersAreRows,
         EmailNeverReused, RowState
<1>2. AccountsInv /\ [AccountsNext]_accountsVars => AccountsInv'
  <2> SUFFICES ASSUME AccountsInv, [AccountsNext]_accountsVars
               PROVE  AccountsInv'
    OBVIOUS
  <2>1. CASE UNCHANGED accountsVars
    BY <2>1 DEF accountsVars, AccountsInv, AccountsTypeOK, OwnersAreRows,
                EmailNeverReused
  <2>2. CASE AccountsNext
    BY <2>2, NewRequestStep, SessionStepStep, ExpiryStep DEF AccountsNext
  <2> QED
    BY <2>1, <2>2
<1> QED
  BY <1>1, <1>2, PTL DEF AccountsSpec

(* Every variable of Accounts keeps its type (internal/users, auth, places).*)
THEOREM AccountsTypeCorrect == AccountsSpec => []AccountsTypeOK
<1>1. AccountsInv => AccountsTypeOK
  BY DEF AccountsInv
<1> QED
  BY <1>1, AccountsInvariance, PTL

(* Tokens, requests in flight and places never name a user that was not    *)
(* created, whatever is deleted meanwhile, and a place belongs to a user   *)
(* who was given a token (auth/middleware.go 24-29, places/service.go      *)
(* 31-41).                                                                 *)
THEOREM AccountsOwnersAreRows == AccountsSpec => []OwnersAreRows
<1>1. AccountsInv => OwnersAreRows
  BY DEF AccountsInv
<1> QED
  BY <1>1, AccountsInvariance, PTL

(* No two rows of users, deleted ones included, share an email             *)
(* (models/user.go 12).                                                    *)
THEOREM AccountsEmailNeverReused == AccountsSpec => []EmailNeverReused
<1>1. AccountsInv => EmailNeverReused
  BY DEF AccountsInv
<1> QED
  BY <1>1, AccountsInvariance, PTL

-----------------------------------------------------------------------------
(***************************************************************************)
(* DeletedLosesAccess without its fairness.  Each clause says of a deleted *)
(* account what a step may never give back to it.                          *)
(***************************************************************************)
LoggingIn(u) ==
  {s \in Session : pc[s] \in {"registered", "found", "checked"} /\ subject[s] = u}
Inside(u) == {s \in Session : pc[s] = "authorized" /\ subject[s] = u}

(* The row stays deleted and no login of the account begins.  A token is   *)
(* signed only at the end of a login that had begun, a request gets past   *)
(* the middleware only with a valid token, and a place is created only by  *)
(* a request that got past it.                                             *)
DeletedNeverGains ==
  \A u \in User : row[u] = "deleted" =>
    /\ row'[u] = "deleted"
    /\ LoggingIn(u)' \subseteq LoggingIn(u)
    /\ token'[u] = "valid" => token[u] = "valid" \/ LoggingIn(u)' # LoggingIn(u)
    /\ Inside(u)' \subseteq Inside(u) \/ token[u] = "valid"
    /\ \A p \in Place :
         createdBy'[p] = u => createdBy[p] = u \/ Inside(u)' # Inside(u)

(* The sets of requests after one of them has moved. *)
LEMMA RequestMoves ==
  ASSUME AccountsTypeOK, NEW s \in Session, NEW state, NEW v, NEW w,
         Goto(s, state, v, w)
  PROVE  \A u \in User :
           /\ LoggingIn(u)' \ {s} = LoggingIn(u) \ {s}
           /\ Inside(u)' \ {s} = Inside(u) \ {s}
           /\ s \in LoggingIn(u)' <=>
                state \in {"registered", "found", "checked"} /\ v = u
           /\ s \in Inside(u)' <=> state = "authorized" /\ v = u
<1> SUFFICES ASSUME NEW u \in User
             PROVE  /\ LoggingIn(u)' \ {s} = LoggingIn(u) \ {s}
                    /\ Inside(u)' \ {s} = Inside(u) \ {s}
                    /\ s \in LoggingIn(u)' <=>
                         state \in {"registered", "found", "checked"} /\ v = u
                    /\ s \in Inside(u)' <=> state = "authorized" /\ v = u
  OBVIOUS
<1>1. /\ pc'[s] = state /\ subject'[s] = v
      /\ \A r \in Session \ {s} : pc'[r] = pc[r] /\ subject'[r] = subject[r]
  BY DEF Goto, AccountsTypeOK
<1>2. LoggingIn(u)' = {r \in Session : pc'[r] \in {"registered", "found", "checked"} /\ subject'[r] = u}
  BY DEF LoggingIn
<1>3. Inside(u)' = {r \in Session : pc'[r] = "authorized" /\ subject'[r] = u}
  BY DEF Inside
<1>4. LoggingIn(u)' \ {s} = LoggingIn(u) \ {s} /\ Inside(u)' \ {s} = Inside(u) \ {s}
  BY <1>1, <1>2, <1>3 DEF LoggingIn, Inside
<1>5. s \in LoggingIn(u)' <=> state \in {"registered", "found", "checked"} /\ v = u
  BY <1>1, <1>2
<1>6. s \in Inside(u)' <=> state = "authorized" /\ v = u
  BY <1>1, <1>3
<1> QED
  BY <1>4, <1>5, <1>6

(* A request that ends gives nobody anything. *)
LEMMA EndGivesNothing ==
  ASSUME AccountsInv, NEW s \in Session, Goto(s, "idle", Nil, Nil),
         \A u \in User : row[u] = "deleted" => row'[u] = "deleted",
         UNCHANGED <<token, createdBy>>
  PROVE  DeletedNeverGains
<1>1. \A u \in User : LoggingIn(u)' \subseteq LoggingIn(u) /\ Inside(u)' \subseteq Inside(u)
  BY RequestMoves DEF AccountsInv
<1> QED
  BY <1>1 DEF DeletedNeverGains

(* No request, and no expiry, gives a deleted account anything. *)
LEMMA DeletedNeverGainsStep ==
  ASSUME AccountsInv, AccountsNext
  PROVE  DeletedNeverGains
<1>0. AccountsTypeOK /\ OwnersAreRows
  BY DEF AccountsInv
<1>1. ASSUME NEW s \in Session, NEW state, NEW v \in User, NEW w,
             Goto(s, state, v, w), UNCHANGED <<token, createdBy>>,
             \A u \in User : row[u] = "deleted" => row'[u] = "deleted",
             \/ row[v] # "deleted"
             \/ state = "checked" /\ s \in LoggingIn(v)
             \/ state = "authorized" /\ token[v] = "valid"
      PROVE  DeletedNeverGains
  <2>1. ASSUME NEW u \in User, row[u] = "deleted"
        PROVE  /\ LoggingIn(u)' \subseteq LoggingIn(u)
               /\ Inside(u)' \subseteq Inside(u) \/ token[u] = "valid"
    <3>1. /\ LoggingIn(u)' \ {s} = LoggingIn(u) \ {s}
          /\ Inside(u)' \ {s} = Inside(u) \ {s}
          /\ s \in LoggingIn(u)' <=>
               state \in {"registered", "found", "checked"} /\ v = u
          /\ s \in Inside(u)' <=> state = "authorized" /\ v = u
      BY <1>0, <1>1, RequestMoves
    <3>2. s \in LoggingIn(u)' => s \in LoggingIn(u)
      BY <1>1, <2>1, <3>1
    <3>3. s \in Inside(u)' => token[u] = "valid"
      BY <1>1, <2>1, <3>1
    <3> QED
      BY <3>1, <3>2, <3>3
  <2> QED
    BY <1>1, <2>1 DEF DeletedNeverGains
<1>2. ASSUME NEW s \in Session, NewRequest(s) PROVE DeletedNeverGains
  <2>1. ASSUME NEW u \in User, NEW e \in Email, NEW w \in Password, Register(s, u, e, w)
        PROVE  DeletedNeverGains
    BY <1>0, <1>1, <2>1 DEF Register, InsertUser, placeVars, AccountsTypeOK
  <2>2. ASSUME NEW u \in User, NEW e \in Email, NEW w \in Password, LoginFound(s, u, e, w)
        PROVE  DeletedNeverGains
    BY <1>1, <2>2 DEF LoginFound, userVars, placeVars
  <2>3. ASSUME NEW u \in User, Authorize(s, u)
        PROVE  DeletedNeverGains
    BY <1>1, <2>3 DEF Authorize, userVars, placeVars
  <2>4. CASE \/ RefuseInput(s) \/ InternalError(s) \/ Unauthorized(s)
             \/ \E e \in Email : DuplicateEmail(s, e) \/ LoginNotFound(s, e)
             \/ \E u \in User, e \in Email : UpdateUser(s, u, e)
             \/ \E u \in User : GetUser(s, u)
             \/ \E p \in Place : GetPlace(s, p) \/ UpdatePlace(s, p) \/ DeletePlace(s, p)
    <3>1. Goto(s, "idle", Nil, Nil) /\ UNCHANGED <<row, token, createdBy>>
      BY <2>4
      DEF RefuseInput, InternalError, Unauthorized, DuplicateEmail, LoginNotFound,
          UpdateUser, GetUser, GetPlace, UpdatePlace, DeletePlace, Finish,
          userVars, placeVars
    <3> QED
      BY <3>1, EndGivesNothing
  <2>5. ASSUME NEW u \in User, NEW e \in Email, NEW w \in Password, CreateUser(s, u, e, w)
        PROVE  DeletedNeverGains
    BY <1>0, <2>5, EndGivesNothing DEF CreateUser, InsertUser, Finish, placeVars, AccountsTypeOK
  <2>6. ASSUME NEW u \in User, DeleteUser(s, u)
        PROVE  DeletedNeverGains
    BY <1>0, <2>6, EndGivesNothing DEF DeleteUser, Finish, placeVars, AccountsTypeOK
  <2> QED
    BY <1>2, <2>1, <2>2, <2>3, <2>4, <2>5, <2>6 DEF NewRequest
<1>3. ASSUME NEW s \in Session, SessionStep(s) PROVE DeletedNeverGains
  <2>1. CASE PasswordMatches(s)
    <3>1. subject[s] \in User /\ s \in LoggingIn(subject[s])
      BY <1>0, <2>1 DEF PasswordMatches, OwnersAreRows, LoggingIn
    <3> QED
      BY <1>1, <2>1, <3>1 DEF PasswordMatches, userVars, placeVars
  <2>2. CASE PasswordWrong(s) \/ PlaceRefused(s) \/ TokenNotSigned(s)
    BY <2>2, EndGivesNothing
    DEF PasswordWrong, PlaceRefused, TokenNotSigned, Finish, userVars, placeVars
  <2>3. CASE GenerateToken(s)
    <3>1. Goto(s, "idle", Nil, Nil) /\ UNCHANGED <<row, createdBy>>
          /\ token' = [token EXCEPT ![subject[s]] = "valid"]
      BY <2>3 DEF GenerateToken, Finish, userVars, placeVars
    <3>2. \A u \in User : /\ LoggingIn(u)' \subseteq LoggingIn(u) /\ s \notin LoggingIn(u)'
                         /\ Inside(u)' \subseteq Inside(u)
      BY <1>0, <3>1, RequestMoves
    <3>3. \A u \in User : u # subject[s] => token'[u] = token[u]
      BY <1>0, <3>1 DEF AccountsTypeOK
    <3>4. subject[s] \in User => s \in LoggingIn(subject[s])
      BY <2>3 DEF GenerateToken, LoggingIn
    <3> QED
      BY <3>1, <3>2, <3>3, <3>4 DEF DeletedNeverGains
  <2>4. ASSUME NEW p \in Place, CreatePlace(s, p)
        PROVE  DeletedNeverGains
    <3>1. Goto(s, "idle", Nil, Nil) /\ UNCHANGED <<row, token>>
          /\ createdBy' = [createdBy EXCEPT ![p] = subject[s]]
      BY <2>4 DEF CreatePlace, Finish, userVars
    <3>2. \A u \in User : /\ LoggingIn(u)' \subseteq LoggingIn(u)
                         /\ Inside(u)' \subseteq Inside(u) /\ s \notin Inside(u)'
      BY <1>0, <3>1, RequestMoves
    <3>3. \A u \in User : u = subject[s] => s \in Inside(u)
      BY <2>4 DEF CreatePlace, Inside
    <3>4. \A q \in Place, u \in User :
            createdBy'[q] = u => createdBy[q] = u \/ u = subject[s]
      BY <1>0, <3>1 DEF AccountsTypeOK
    <3> QED
      BY <3>1, <3>2, <3>3, <3>4 DEF DeletedNeverGains
  <2> QED
    BY <1>3, <2>1, <2>2, <2>3, <2>4 DEF SessionStep
<1>4. ASSUME NEW u \in User, TokenExpires(u) PROVE DeletedNeverGains
  <2>1. \A v \in User : LoggingIn(v)' = LoggingIn(v) /\ Inside(v)' = Inside(v)
    BY <1>4 DEF TokenExpires, sessionVars, LoggingIn, Inside
  <2>2. \A v \in User : token'[v] = "valid" => token[v] = "valid"
    BY <1>0, <1>4 DEF TokenExpires, AccountsTypeOK
  <2>3. UNCHANGED <<row, createdBy>>
    BY <1>4 DEF TokenExpires, userVars, placeVars
  <2> QED
    BY <2>1, <2>2, <2>3 DEF DeletedNeverGains
<1> QED
  BY <1>2, <1>3, <1>4 DEF AccountsNext

(* A deleted account can only lose: with the logins that read its row      *)
(* before the deletion over and its token expired, nothing lets it in      *)
(* again and nothing is created in its name (auth_handler.go 76-89,        *)
(* auth.go 25-47, middleware.go 17-31).                                    *)
THEOREM AccountsDeletedNeverGains ==
  AccountsSpec => [][DeletedNeverGains]_accountsVars
<1>1. AccountsInv /\ [AccountsNext]_accountsVars => [DeletedNeverGains]_accountsVars
  BY DeletedNeverGainsStep
<1> QED
  BY <1>1, AccountsInvariance, PTL DEF AccountsSpec

(* A deleted account with no valid token and no request in flight stays    *)
(* like that for ever: this is the state that DeletedLosesAccess arrives   *)
(* in (auth_handler.go 76-89, middleware.go 17-31).                        *)
Gone(u) ==
  row[u] = "deleted" /\ token[u] # "valid" /\ LoggingIn(u) = {} /\ Inside(u) = {}

(* Such an account stays as it is, whatever requests come (middleware.go   *)
(* 17-31).                                                                 *)
THEOREM AccountsGoneForGood ==
  ASSUME NEW u \in User
  PROVE  AccountsSpec => [](Gone(u) => []Gone(u))
<1>1. AccountsInv /\ [AccountsNext]_accountsVars => (Gone(u) => Gone(u)')
  <2> SUFFICES ASSUME AccountsInv, [AccountsNext]_accountsVars, Gone(u)
               PROVE  Gone(u)'
    OBVIOUS
  <2>1. CASE AccountsNext
    <3>1. DeletedNeverGains
      BY <2>1, DeletedNeverGainsStep
    <3>2. /\ row'[u] = "deleted" /\ LoggingIn(u)' = {} /\ Inside(u)' = {}
          /\ token'[u] # "valid"
      BY <3>1 DEF Gone, DeletedNeverGains
    <3> QED
      BY <3>2 DEF Gone
  <2>2. CASE UNCHANGED accountsVars
    BY <2>2 DEF accountsVars, Gone, LoggingIn, Inside
  <2> QED
    BY <2>1, <2>2
<1> QED
  BY <1>1, AccountsInvariance, PTL DEF AccountsSpec
=============================================================================
