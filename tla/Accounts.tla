------------------------------- MODULE Accounts -------------------------------
(***************************************************************************)
(* register and login of backend/app/main.py, and the token check and the  *)
(* roles of backend/app/auth.py, on the users table.                       *)
(*                                                                         *)
(* Both handlers are plain functions, which FastAPI runs on a pool of      *)
(* threads: requests overlap.  A registration looks its name up, hashes    *)
(* its password and commits; the unique column `username` refuses a second *)
(* row, and nothing catches that: the answer is 500.  Nothing changes or   *)
(* deletes a user.  A hash is the password it verifies; a token names its  *)
(* user.  bcrypt, the JWT library and the database are external.           *)
(***************************************************************************)
EXTENDS Naturals

CONSTANTS
  Username, Password,
  NoPassword, \* stands for a name without an account
  Registration, \* requests to /oauth/register
  Hours,      \* ACCESS_TOKEN_EXPIRE_MINUTES, in hours: 8
  MaxHour     \* bound: hours of the clock

ASSUME AccountsConstantsOK ==
  /\ NoPassword \notin Password
  /\ Hours \in Nat \ {0} /\ MaxHour \in Nat

VARIABLES
  hour,     \* the server's clock
  users,    \* the hashed_password of every username in the table
  form,     \* the form of each registration
  handler,  \* where each registration is: "new", "hashing", or its status code
  tokens,   \* tokens given out
  answer,   \* the status of the last login or authorised request, 0 before
  raced     \* registrations during which another one of the name committed (history)

accountVars == <<hour, users, form, handler, tokens, answer, raced>>

Forms == [username : Username, password : Password]
Tokens == [sub : Username, exp : Nat]

\* ROLE_HIERARCHY; register makes every account a technician.
Rank == [readonly |-> 0, technician |-> 1, lead |-> 2, admin |-> 3]
RoleOf(name) == "technician"

AccountsInit ==
  /\ hour = 0
  /\ users = [n \in Username |-> NoPassword]
  /\ form \in [Registration -> Forms]
  /\ handler = [r \in Registration |-> "new"]
  /\ tokens = {} /\ answer = 0 /\ raced = {}

HasAccount(name) == users[name] # NoPassword

\* create_access_token
CreateAccessToken(name) == tokens' = tokens \cup {[sub |-> name, exp |-> hour + Hours]}
-----------------------------------------------------------------------------
HourPasses ==
  /\ hour < MaxHour /\ hour' = hour + 1
  /\ UNCHANGED <<users, form, handler, tokens, answer, raced>>

\* register: the name is taken.
RegisterRefused(r) ==
  /\ handler[r] = "new" /\ HasAccount(form[r].username)
  /\ handler' = [handler EXCEPT ![r] = "400"]
  /\ UNCHANGED <<hour, users, form, tokens, answer, raced>>

\* register: the name is free; the password is hashed.
RegisterLookup(r) ==
  /\ handler[r] = "new" /\ ~HasAccount(form[r].username)
  /\ handler' = [handler EXCEPT ![r] = "hashing"]
  /\ UNCHANGED <<hour, users, form, tokens, answer, raced>>

\* Faulty variant of RegisterCommit: the column is not unique; a second row is
\* written, and the later one is found.
RegisterCommitAnyway(r) ==
  /\ handler[r] = "hashing"
  /\ users' = [users EXCEPT ![form[r].username] = form[r].password]
  /\ handler' = [handler EXCEPT ![r] = "200"]
  /\ CreateAccessToken(form[r].username)
  /\ UNCHANGED <<hour, form, answer, raced>>

\* register: commit, then the token.
RegisterCommit(r) ==
  /\ handler[r] = "hashing" /\ ~HasAccount(form[r].username)
  /\ users' = [users EXCEPT ![form[r].username] = form[r].password]
  /\ handler' = [handler EXCEPT ![r] = "200"]
  /\ CreateAccessToken(form[r].username)
  /\ raced' = raced \cup {q \in Registration \ {r} : /\ handler[q] = "hashing"
                                                     /\ form[q].username = form[r].username}
  /\ UNCHANGED <<hour, form, answer>>

\* register: the commit violates the unique column.
RegisterCollides(r) ==
  /\ handler[r] = "hashing" /\ HasAccount(form[r].username)
  /\ handler' = [handler EXCEPT ![r] = "500"]
  /\ UNCHANGED <<hour, users, form, tokens, answer, raced>>

\* login: authenticate_user, then a token.
Login(name, password) ==
  /\ IF HasAccount(name) /\ users[name] = password
     THEN CreateAccessToken(name) /\ answer' = 200
     ELSE answer' = 400 /\ UNCHANGED tokens
  /\ UNCHANGED <<hour, users, form, handler, raced>>

\* get_current_user and require_role, of a request with token t.
Authorise(t, minimumRole) ==
  /\ answer' = CASE t.exp < hour \/ ~HasAccount(t.sub) -> 401
                 [] t.exp >= hour /\ HasAccount(t.sub)
                    /\ Rank[RoleOf(t.sub)] < Rank[minimumRole] -> 403
                 [] OTHER -> 200
  /\ UNCHANGED <<hour, users, form, handler, tokens, raced>>

AccountsNext ==
  \/ HourPasses
  \/ \E r \in Registration : \/ RegisterRefused(r) \/ RegisterLookup(r)
                        \/ RegisterCommit(r) \/ RegisterCollides(r)
  \/ \E n \in Username, p \in Password : Login(n, p)
  \/ \E t \in tokens, role \in DOMAIN Rank : Authorise(t, role)

AccountsSpec == AccountsInit /\ [][AccountsNext]_accountVars
-----------------------------------------------------------------------------
AccountsTypeOK ==
  /\ hour \in 0..MaxHour
  /\ users \in [Username -> Password \cup {NoPassword}]
  /\ form \in [Registration -> Forms]
  /\ handler \in [Registration -> {"new", "hashing", "200", "400", "500"}]
  /\ tokens \subseteq Tokens /\ answer \in {0, 200, 400, 401, 403}
  /\ raced \subseteq Registration

(* A registration that was answered 200 owns its name for good: the account  *)
(* has its password, and no other registration of the name got an account or *)
(* a token.  One that was answered with a server error lost a race against   *)
(* another of the same name; one after the fact gets the documented 400.     *)
RegisteredOnce ==
  /\ \A r \in Registration :
       /\ handler[r] = "200" => users[form[r].username] = form[r].password
       /\ handler[r] = "500" => r \in raced
       /\ \A q \in Registration \ {r} :
            handler[r] = "200" /\ handler[q] = "200" => form[r].username # form[q].username
  /\ \A t \in tokens : HasAccount(t.sub)
===============================================================================
