------------------------------ MODULE Accounts ------------------------------
(***************************************************************************)
(* Users, tokens and the places they own: internal/users, internal/auth,   *)
(* internal/places and the two Postgres repositories.  Rows are soft-      *)
(* deleted; a token is a signed statement that nothing on the server       *)
(* records or revokes.  Login, registration and place creation take        *)
(* several steps, so other requests run between them.                      *)
(***************************************************************************)
CONSTANTS
  User,      \* primary keys that may come to exist in users
  Email,
  Password,
  Place,     \* primary keys that may come to exist in places
  Session,   \* concurrent HTTP requests
  Nil

ASSUME AccountsAssumption == Nil \notin User \cup Email \cup Password

VARIABLES
  row,        \* row[u]: "absent", "live" or "deleted" (deleted_at is set)
  email,      \* email[u], Nil while the row is absent
  password,   \* password[u]: what the stored hash was made from
  token,      \* token[u]: the best token issued for u: "none", "valid", "expired"
  placeRow,   \* as row, for places
  createdBy,  \* the column created_by
  pc,         \* control state of each request
  subject,    \* the user the request has in hand, or Nil
  cred,       \* the password the request came with, or Nil
  answer      \* the status this step sent, and whether a duplicate key caused it

sessionVars == <<pc, subject, cred>>
userVars == <<row, email, password>>
placeVars == <<placeRow, createdBy>>
accountsVars == <<row, email, password, token, placeRow, createdBy, pc, subject, cred, answer>>

RowState == {"absent", "live", "deleted"}

(* What the handlers send.  api/openapi.yaml also promises 409, of which   *)
(* ConflictIsReported speaks, and 204 for a deletion, which the handlers   *)
(* answer 200.                                                             *)
Codes == {200, 201, 400, 401, 404, 429, 500}

AccountsTypeOK ==
  /\ row \in [User -> RowState]
  /\ email \in [User -> Email \cup {Nil}]
  /\ password \in [User -> Password \cup {Nil}]
  /\ token \in [User -> {"none", "valid", "expired"}]
  /\ placeRow \in [Place -> RowState]
  /\ createdBy \in [Place -> User \cup {Nil}]
  /\ pc \in [Session -> {"idle", "registered", "found", "checked", "authorized"}]
  /\ subject \in [Session -> User \cup {Nil}]
  /\ cred \in [Session -> Password \cup {Nil}]
  /\ answer \in [code : Codes \cup {0}, duplicate : BOOLEAN]

NoAnswer == [code |-> 0, duplicate |-> FALSE]

AccountsInit ==
  /\ row = [u \in User |-> "absent"]
  /\ email = [u \in User |-> Nil]
  /\ password = [u \in User |-> Nil]
  /\ token = [u \in User |-> "none"]
  /\ placeRow = [p \in Place |-> "absent"]
  /\ createdBy = [p \in Place |-> Nil]
  /\ pc = [s \in Session |-> "idle"]
  /\ subject = [s \in Session |-> Nil]
  /\ cred = [s \in Session |-> Nil]
  /\ answer = NoAnswer
-----------------------------------------------------------------------------
Goto(s, state, u, w) ==
  /\ pc' = [pc EXCEPT ![s] = state]
  /\ subject' = [subject EXCEPT ![s] = u]
  /\ cred' = [cred EXCEPT ![s] = w]

(* The request in hand ends with a status; its slot is free for another. *)
Finish(s, code) ==
  /\ Goto(s, "idle", Nil, Nil)
  /\ answer' = [code |-> code, duplicate |-> FALSE]

(* Mutant of Taken: a partial index, WHERE deleted_at IS NULL. *)
TakenLive(e) == \E u \in User : row[u] = "live" /\ email[u] = e

(* The unique index on email has no condition on deleted_at. *)
Taken(e) == \E u \in User : row[u] # "absent" /\ email[u] = e

InsertUser(u, e, w) ==
  /\ row[u] = "absent"
  /\ ~Taken(e)
  /\ row' = [row EXCEPT ![u] = "live"]
  /\ email' = [email EXCEPT ![u] = e]
  /\ password' = [password EXCEPT ![u] = w]

(* A handler refuses the body, the id or a field: 400 before any query. *)
RefuseInput(s) ==
  /\ pc[s] = "idle"
  /\ Finish(s, 400)
  /\ UNCHANGED <<userVars, token, placeVars>>

(* The only query of a handler fails, or bcrypt refuses a password of more *)
(* than 72 bytes, which validation (64 runes) lets through.                *)
InternalError(s) ==
  /\ pc[s] = "idle"
  /\ Finish(s, 500)
  /\ UNCHANGED <<userVars, token, placeVars>>

(* POST /auth/register: UserService.Create, then GenerateToken. *)
Register(s, u, e, w) ==
  /\ pc[s] = "idle"
  /\ InsertUser(u, e, w)
  /\ Goto(s, "registered", u, Nil)
  /\ answer' = NoAnswer
  /\ UNCHANGED <<token, placeVars>>

(* The insert violates the unique index.  repo.Create returns gorm's error *)
(* as it is, never ErrConflict, so both handlers take their last branch.   *)
DuplicateEmail(s, e) ==
  /\ pc[s] = "idle"
  /\ Taken(e)
  /\ Goto(s, "idle", Nil, Nil)
  /\ answer' = [code |-> 500, duplicate |-> TRUE]
  /\ UNCHANGED <<userVars, token, placeVars>>

(* POST /users: the same insert, no token. *)
CreateUser(s, u, e, w) ==
  /\ pc[s] = "idle"
  /\ InsertUser(u, e, w)
  /\ Finish(s, 201)
  /\ UNCHANGED <<token, placeVars>>

(* Mutant of LoginFound: the lookup is Unscoped. *)
LoginFoundUnscoped(s, u, e, w) ==
  /\ pc[s] = "idle"
  /\ row[u] # "absent" /\ email[u] = e
  /\ Goto(s, "found", u, w)
  /\ answer' = NoAnswer
  /\ UNCHANGED <<userVars, token, placeVars>>

(* POST /auth/login: GetByEmail sees live rows only. *)
LoginFound(s, u, e, w) ==
  /\ pc[s] = "idle"
  /\ row[u] = "live" /\ email[u] = e
  /\ Goto(s, "found", u, w)
  /\ answer' = NoAnswer
  /\ UNCHANGED <<userVars, token, placeVars>>

LoginNotFound(s, e) ==
  /\ pc[s] = "idle"
  /\ ~\E u \in User : row[u] = "live" /\ email[u] = e
  /\ Finish(s, 401)
  /\ UNCHANGED <<userVars, token, placeVars>>

(* ValidatePassword compares with the hash of the row that was read. *)
PasswordMatches(s) ==
  /\ pc[s] = "found"
  /\ password[subject[s]] = cred[s]
  /\ Goto(s, "checked", subject[s], Nil)
  /\ answer' = NoAnswer
  /\ UNCHANGED <<userVars, token, placeVars>>

PasswordWrong(s) ==
  /\ pc[s] = "found"
  /\ password[subject[s]] # cred[s]
  /\ Finish(s, 401)
  /\ UNCHANGED <<userVars, token, placeVars>>

(* jwtService.GenerateToken(user.ID) and the answer. *)
GenerateToken(s) ==
  /\ pc[s] \in {"registered", "checked"}
  /\ token' = [token EXCEPT ![subject[s]] = "valid"]
  /\ Finish(s, IF pc[s] = "registered" THEN 201 ELSE 200)
  /\ UNCHANGED <<userVars, placeVars>>

(* GenerateToken fails.  A user who was registering stays registered.      *)
TokenNotSigned(s) ==
  /\ pc[s] \in {"registered", "checked"}
  /\ Finish(s, 500)
  /\ UNCHANGED <<userVars, token, placeVars>>

(* Time passes JWTExpirationHours; NewJWTService makes it positive. *)
TokenExpires(u) ==
  /\ token[u] = "valid"
  /\ token' = [token EXCEPT ![u] = "expired"]
  /\ answer' = NoAnswer
  /\ UNCHANGED <<userVars, placeVars, sessionVars>>

(* GET /users/{id} *)
GetUser(s, u) ==
  /\ pc[s] = "idle"
  /\ Finish(s, IF row[u] = "live" THEN 200 ELSE 404)
  /\ UNCHANGED <<userVars, token, placeVars>>

(* Mutant of DeleteUser: the row is removed, with nothing that cascades. *)
DeleteUserHard(s, u) ==
  /\ pc[s] = "idle"
  /\ row' = [row EXCEPT ![u] = IF @ = "live" THEN "absent" ELSE @]
  /\ Finish(s, IF row[u] = "live" THEN 200 ELSE 404)
  /\ UNCHANGED <<email, password, token, placeVars>>

(* PATCH /users/{id}: `updates' is empty when its length is tested, so the *)
(* repository only looks the row up.                                       *)
UpdateUser(s, u, e) ==
  /\ pc[s] = "idle"
  /\ Finish(s, IF row[u] = "live" THEN 200 ELSE 404)
  /\ UNCHANGED <<userVars, token, placeVars>>

DeleteUser(s, u) ==
  /\ pc[s] = "idle"
  /\ row' = [row EXCEPT ![u] = IF @ = "live" THEN "deleted" ELSE @]
  /\ Finish(s, IF row[u] = "live" THEN 200 ELSE 404)
  /\ UNCHANGED <<email, password, token, placeVars>>

(* POST /places: JWTMiddleware takes the user from the token alone. *)
Authorize(s, u) ==
  /\ pc[s] = "idle"
  /\ token[u] = "valid"
  /\ Goto(s, "authorized", u, Nil)
  /\ answer' = NoAnswer
  /\ UNCHANGED <<userVars, token, placeVars>>

(* No token, a malformed one, or one that has expired. *)
Unauthorized(s) ==
  /\ pc[s] = "idle"
  /\ Finish(s, 401)
  /\ UNCHANGED <<userVars, token, placeVars>>

(* Mutant of PlaceRefused: a status of its own for what cannot be stored. *)
PlaceRefusedUnprocessable(s) ==
  /\ pc[s] = "authorized"
  /\ \E code \in {400, 422, 429} : Finish(s, code)
  /\ UNCHANGED <<userVars, token, placeVars>>

(* The hourly limiter, or a body that is refused or cannot be stored: the  *)
(* handler answers 400 to every error of the service.                      *)
PlaceRefused(s) ==
  /\ pc[s] = "authorized"
  /\ \E code \in {400, 429} : Finish(s, code)
  /\ UNCHANGED <<userVars, token, placeVars>>

CreatePlace(s, p) ==
  /\ pc[s] = "authorized"
  /\ placeRow[p] = "absent"
  /\ placeRow' = [placeRow EXCEPT ![p] = "live"]
  /\ createdBy' = [createdBy EXCEPT ![p] = subject[s]]
  /\ Finish(s, 201)
  /\ UNCHANGED <<userVars, token>>

(* GET /places/{id} *)
GetPlace(s, p) ==
  /\ pc[s] = "idle"
  /\ Finish(s, IF placeRow[p] = "live" THEN 200 ELSE 404)
  /\ UNCHANGED <<userVars, token, placeVars>>

(* PATCH and DELETE /places/{id} ask for no token; the update is as empty  *)
(* as that of a user.                                                      *)
UpdatePlace(s, p) ==
  /\ pc[s] = "idle"
  /\ Finish(s, IF placeRow[p] = "live" THEN 200 ELSE 404)
  /\ UNCHANGED <<userVars, token, placeVars>>

DeletePlace(s, p) ==
  /\ pc[s] = "idle"
  /\ placeRow' = [placeRow EXCEPT ![p] = IF @ = "live" THEN "deleted" ELSE @]
  /\ Finish(s, IF placeRow[p] = "live" THEN 200 ELSE 404)
  /\ UNCHANGED <<userVars, token, createdBy>>

(* The steps of a request that has begun. *)
SessionStep(s) ==
  \/ PasswordMatches(s) \/ PasswordWrong(s)
  \/ GenerateToken(s) \/ TokenNotSigned(s)
  \/ PlaceRefused(s)
  \/ \E p \in Place : CreatePlace(s, p)

NewRequest(s) ==
  \/ RefuseInput(s) \/ InternalError(s) \/ Unauthorized(s)
  \/ \E u \in User, e \in Email, w \in Password :
       Register(s, u, e, w) \/ CreateUser(s, u, e, w) \/ LoginFound(s, u, e, w)
  \/ \E e \in Email : DuplicateEmail(s, e) \/ LoginNotFound(s, e)
  \/ \E u \in User, e \in Email : UpdateUser(s, u, e)
  \/ \E u \in User : GetUser(s, u) \/ DeleteUser(s, u) \/ Authorize(s, u)
  \/ \E p \in Place : GetPlace(s, p) \/ UpdatePlace(s, p) \/ DeletePlace(s, p)

AccountsNext ==
  \/ \E s \in Session : NewRequest(s) \/ SessionStep(s)
  \/ \E u \in User : TokenExpires(u)

AccountsSpec == AccountsInit /\ [][AccountsNext]_accountsVars

(* A request that has begun is carried to its answer, and time passes. *)
FairAccountsSpec ==
  /\ AccountsSpec
  /\ \A s \in Session : WF_accountsVars(SessionStep(s))
  /\ \A u \in User : WF_accountsVars(TokenExpires(u))
-----------------------------------------------------------------------------
(* Whatever a token or a request in flight names as its user is a row of   *)
(* the users table, deleted or not, and a place belongs to a user who was  *)
(* once given a token, although created_by has no foreign key and a user   *)
(* may be deleted at any moment (service.go 31-41 of places, middleware.go *)
(* 24-29, postgresql_user_repository.go 73-82).                            *)
OwnersAreRows ==
  /\ \A u \in User : token[u] # "none" => row[u] # "absent"
  /\ \A s \in Session : pc[s] # "idle" => subject[s] \in User /\ row[subject[s]] # "absent"
  /\ \A p \in Place : placeRow[p] # "absent" =>
       createdBy[p] \in User /\ token[createdBy[p]] # "none"

(* An email belongs to one row for good: the address of a deleted account  *)
(* is never given to another one, so an old token never speaks for a new   *)
(* account of the same address (models/user.go 12).                        *)
EmailNeverReused ==
  \A u, v \in User :
    u # v /\ row[u] # "absent" /\ row[v] # "absent" => email[u] # email[v]

(* What every step preserves: a request that has passed the middleware     *)
(* speaks for a user who has been given a token.                           *)
AccountsInv ==
  /\ AccountsTypeOK
  /\ OwnersAreRows
  /\ EmailNeverReused
  /\ \A s \in Session : pc[s] = "authorized" => token[subject[s]] # "none"

(* A deleted account loses its access for good: a login that read the row  *)
(* before its deletion may still sign a token, but it is the last one, and *)
(* it expires (auth_handler.go 76-89, auth.go 25-47).                      *)
DeletedLosesAccess ==
  \A u \in User : row[u] = "deleted" ~> [](token[u] # "valid")

(* api/openapi.yaml promises 409 "Email already exists" from /auth/register*)
(* and 409 "Username or email already exists" from /users.                 *)
ConflictIsReported == answer.duplicate => answer.code = 409

(* api/openapi.yaml describes the 200 answer of PATCH /users/{id} as       *)
(* "Updated user": the row should have the email that was asked for.       *)
UpdateTakesEffect ==
  [][\A s \in Session, u \in User, e \in Email :
       UpdateUser(s, u, e) /\ answer'.code = 200 /\ row[u] = row'[u]
         => email'[u] = e]_accountsVars
=============================================================================
