------------------------------ MODULE Accounts ------------------------------
(***************************************************************************)
(* Registration, login and tokens: AuthService (src/api/auth.cpp) with     *)
(* handle_register, handle_login and get_user_from_auth of                 *)
(* src/api/routes.cpp, over the users table, whose usernames and emails    *)
(* are unique.                                                             *)
(*                                                                         *)
(* A user's identifier is the place of its row.  A token whose signature   *)
(* does not check is of no interest: a token stands for its payload.       *)
(* Of a salted hash the model keeps what it is equal to: that of the same  *)
(* password under the same salt.  Bodies are those HttpApi calls "fine".   *)
(* A transaction may throw, the insertion's also when it has committed.    *)
(***************************************************************************)
EXTENDS Base64, FiniteSets

CONSTANTS
  Username, Email, Password,
  Json,       \* the bytes that stand for the claims of a payload
  Second,     \* the ticks of a second of system_clock
  Lifetime,   \* token_lifetime_, in ticks: whole hours
  NoUser,     \* no user is identified
  MaxUsers,   \* bound: the rows of users
  MaxTokens,  \* bound: the tokens issued
  MaxFaults,  \* bound: the transactions that throw
  MaxClock    \* bound: the last tick

ASSUME TimeAssumption ==
  /\ {Second, Lifetime} \subseteq Nat \ {0}
  /\ Lifetime % Second = 0
ASSUME BoundsAssumption == {MaxUsers, MaxTokens, MaxFaults, MaxClock} \subseteq Nat

(* The claims a payload may make; nlohmann::json dumps no two alike        *)
PayloadClaims == [username : Username, user_id : 1 .. MaxUsers, iat : 0 .. MaxClock \div Second,
                  exp : 0 .. (MaxClock + Lifetime) \div Second]

ASSUME JsonAssumption ==
  /\ Json \in [PayloadClaims -> Seq(0 .. 255)]
  /\ \A c, d \in PayloadClaims : Json[c] = Json[d] => c = d
ASSUME NoUserAssumption == NoUser \notin Nat

VARIABLES
  users,    \* the users table
  tokens,   \* the tokens handed out
  clock,    \* system_clock
  reply,    \* the status of the last answer and the user it is about, with
            \* whether a transaction of its request threw as history
  faults    \* the transactions that have thrown

vars == <<users, tokens, clock, reply, faults>>

Hash(password, salt) == <<salt, password>>   \* hash_password

Row == [username : Username, email : Email, password_hash : Seq(Nat \cup Password)]

(* A token's payload, as it is handed out, with whom it was issued to and  *)
(* when as history                                                         *)
Token == [payload : Seq(0 .. 255), holder : Nat \ {0}, issued : Nat]

Reply == [status : {201, 200, 401, 409, 500}, user_id : Nat \cup {NoUser}, fault : BOOLEAN]

(* Every variable keeps its type, and no two rows share a username or an   *)
(* email.                                                                  *)
TypeOK ==
  /\ users \in Seq(Row)
  /\ Len(users) <= MaxUsers
  /\ \A i, j \in 1 .. Len(users) :
       users[i].username = users[j].username \/ users[i].email = users[j].email => i = j
  /\ tokens \subseteq Token
  /\ \A t \in tokens : t.holder <= Len(users)
  /\ clock \in 0 .. MaxClock
  /\ reply \in Reply
  /\ faults \in 0 .. MaxFaults

Init ==
  /\ users = <<>>
  /\ tokens = {}
  /\ clock = 0
  /\ reply = [status |-> 401, user_id |-> NoUser, fault |-> FALSE]
  /\ faults = 0

-----------------------------------------------------------------------------
Answer(status, user) == reply' = [status |-> status, user_id |-> user, fault |-> FALSE]

(* generate_jwt, whose claims iat and exp count whole seconds              *)
Claims(user, username) ==
  [username |-> username, user_id |-> user,
   iat |-> clock \div Second, exp |-> (clock + Lifetime) \div Second]

Jwt(user, username) ==
  [payload |-> Encode(Json[Claims(user, username)]), holder |-> user, issued |-> clock]

(* verify_jwt: the claims its payload decodes to, if it can be parsed; the *)
(* expiry is compared as a moment, not in seconds                          *)
Claimed(t) ==
  LET json == Decode(t.payload)
  IN  {c \in PayloadClaims : Json[c] = json}

ValidBySeconds(t) == {c \in Claimed(t) : clock \div Second <= c.exp}

Valid(t) == {c \in Claimed(t) : clock <= c.exp * Second}

(* verify_password                                                         *)
Verifies(password, hash) == Hash(password, hash[1]) = hash

Taken(field, value) == \E i \in 1 .. Len(users) : users[i][field] = value

(* A transaction of a handler throws: the error is reported as internal    *)
Throw ==
  /\ faults < MaxFaults
  /\ faults' = faults + 1
  /\ reply' = [status |-> 500, user_id |-> NoUser, fault |-> TRUE]

(* The two SELECTs of handle_register                                      *)
FoundByUsername(n, e) == Taken("username", n)

Found(n, e) == Taken("username", n) \/ Taken("email", e)

(* handle_register: 409 if either SELECT finds a row; otherwise the row is *)
(* inserted, if the table's constraints let it, and a token issued         *)
Register(n, e, p) ==
  /\ Len(users) < MaxUsers
  /\ UNCHANGED clock
  /\ LET user == Len(users) + 1
         insert == users' = Append(users, [username |-> n, email |-> e,
                                           password_hash |-> Hash(p, user)])
     IN  \/ /\ Found(n, e)
            /\ Answer(409, NoUser)
            /\ UNCHANGED <<users, tokens, faults>>
         \/ /\ ~Found(n, e) /\ (Taken("username", n) \/ Taken("email", e))
            /\ Answer(500, NoUser)
            /\ UNCHANGED <<users, tokens, faults>>
         \/ /\ ~Found(n, e) /\ ~Taken("username", n) /\ ~Taken("email", e)
            /\ insert
            /\ \/ /\ Cardinality(tokens) < MaxTokens
                  /\ tokens' = tokens \cup {Jwt(user, n)}
                  /\ Answer(201, user)
                  /\ UNCHANGED faults
               \/ Throw /\ UNCHANGED tokens   \* it has committed
         \/ Throw /\ UNCHANGED <<users, tokens>>

(* handle_login                                                            *)
Login(n, p) ==
  /\ UNCHANGED <<users, clock>>
  /\ \/ /\ \E i \in 1 .. Len(users) :
               /\ users[i].username = n
               /\ Verifies(p, users[i].password_hash)
               /\ Cardinality(tokens) < MaxTokens
               /\ tokens' = tokens \cup {Jwt(i, n)}
               /\ Answer(200, i)
        /\ UNCHANGED faults
     \/ /\ \A i \in 1 .. Len(users) :
              users[i].username = n => ~Verifies(p, users[i].password_hash)
        /\ Answer(401, NoUser)
        /\ UNCHANGED <<tokens, faults>>
     \/ Throw /\ UNCHANGED tokens

(* A request with a token: get_user_from_auth                              *)
Use(t) ==
  /\ \/ \E c \in Valid(t) : Answer(200, c.user_id)
     \/ Valid(t) = {} /\ Answer(401, NoUser)
  /\ UNCHANGED <<users, tokens, clock, faults>>

Tick ==
  /\ clock < MaxClock
  /\ clock' = clock + 1
  /\ UNCHANGED <<users, tokens, reply, faults>>

Next ==
  \/ \E n \in Username, e \in Email, p \in Password : Register(n, e, p)
  \/ \E n \in Username, p \in Password : Login(n, p)
  \/ \E t \in tokens : Use(t)
  \/ Tick

Spec == Init /\ [][Next]_vars

-----------------------------------------------------------------------------
(* A token is good for its lifetime, to within the second its expiry is    *)
(* truncated to, and never longer, whichever part of a second it was       *)
(* issued and is used in.                                                  *)
TokensLastTheirLifetime ==
  \A t \in tokens :
    /\ Valid(t) # {} => clock <= t.issued + Lifetime
    /\ clock <= t.issued + Lifetime - Second => Valid(t) # {}

(* The bytes of a token's claims come back from its payload, in whichever  *)
(* place a byte falls, though the accumulators of both loops are shifted   *)
(* for every byte, never masked, and overflow: a request made with a token *)
(* is its holder's, under the name the holder registered.                  *)
TokensNameTheirHolder ==
  \A t \in tokens :
    Claimed(t) = {[username |-> users[t.holder].username, user_id |-> t.holder,
                   iat |-> t.issued \div Second, exp |-> (t.issued + Lifetime) \div Second]}

(* A request is answered as an internal error only when a transaction of   *)
(* its own threw, whatever happened to those before it: a registration     *)
(* that is tried again after one that was reported as failed and had       *)
(* committed is a conflict, be it the username or the email that is taken. *)
ErrorsAreFaults == reply.status = 500 => reply.fault
=============================================================================
