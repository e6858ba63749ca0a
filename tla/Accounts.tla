------------------------------ MODULE Accounts ------------------------------
(***************************************************************************)
(* Accounts and access tokens: AuthService.register and login, each SELECT *)
(* and COMMIT a step of its own, the tokens they grant, and what a visit   *)
(* to a protected endpoint does with the credentials it carries            *)
(* (get_current_user, get_current_document_user).  Accounts are never      *)
(* deleted.  API keys are a table here; ApiKeys has their changes.         *)
(*                                                                         *)
(* A definition marked "deviant" is what the next one would be with a bug. *)
(***************************************************************************)
EXTENDS Naturals

CONSTANTS
  Users,                 \* user ids
  Spellings,             \* e-mail addresses as clients write them
  Mails,                 \* addresses stripped and in lower case
  Normalized,            \* [Spellings -> Mails, or Malformed]
  Passwords,
  Entries,               \* register and login requests; each gets one token at most
  Visits,                \* requests to protected endpoints
  Keys, KeyOwner,        \* API keys; [Keys -> owner, NoUser of an unknown key]
  Ttl,                   \* access_token_ttl_seconds
  TicksPerSecond,        \* the clock is finer than the seconds of "exp"
  MaxNow,                \* bound on the clock
  NoUser, NoMail, NoPassword, Malformed,
  NoCredential, Junk     \* no header; a bearer that is neither token nor key

ASSUME AccountNulls ==
  /\ NoUser \notin Users /\ NoMail \notin Mails /\ Malformed \notin Mails
  /\ Entries \cap Keys = {} /\ {NoCredential, Junk} \cap (Entries \cup Keys) = {}
ASSUME NormalizedType == Normalized \in [Spellings -> Mails \cup {Malformed}]
ASSUME KeyOwnerType   == KeyOwner \in [Keys -> Users \cup {NoUser}]
ASSUME ClockType      == /\ Ttl \in Nat \ {0} /\ TicksPerSecond \in Nat \ {0}
                         /\ MaxNow \in Nat

VARIABLES
  account,   \* [Users -> row of users, NoAccount when there is none]
  entry,     \* [Entries -> local variables, and the token that was granted]
  visit,     \* [Visits -> credentials and answer]
  now        \* ticks

accountVars == <<account, entry, visit, now>>

NoAccount == [mail |-> NoMail, password |-> NoPassword]
Account   == [mail : Mails, password : Passwords] \cup {NoAccount}

(* 201, 200; 409, 400, 401 *)
Granted  == {"registered", "loggedIn"}
EntryPcs == {"idle", "inserting", "inserted", "verified", "taken", "invalid", "denied"}
            \cup Granted

(* granted is the time at which the token was made; nothing reads it *)
Entry == [pc : EntryPcs, mail : Mails \cup {NoMail}, password : Passwords \cup {NoPassword},
          user : Users \cup {NoUser}, exp : Nat, granted : Nat]

EntryAt(e, pc) == entry[e].pc = pc
EntryGo(e, pc) == entry' = [entry EXCEPT ![e].pc = pc]

Asked(e, pc, m, p, u) ==
  entry' = [entry EXCEPT ![e].pc = pc, ![e].mail = m, ![e].password = p, ![e].user = u]

(* SELECT ... WHERE email = m *)
Registered(m) == \E u \in Users : account[u].mail = m

(* ix_users_email refuses the row *)
NotIndexed(m) == FALSE                 \* deviant
Refused(m)    == Registered(m)

(* _is_email_unique_violation recognises the index *)
Untranslated   == "errored"            \* deviant
EmailViolation == "taken"

(* verify_password *)
AnyPassword(u, p) == TRUE              \* deviant
Verified(u, p)    == account[u].password = p

-----------------------------------------------------------------------------
(***************************************************************************)
(* register and login                                                      *)
(***************************************************************************)
CheckRegister(e) ==
  /\ EntryAt(e, "idle")
  /\ \E s \in Spellings, p \in Passwords :
       LET m == Normalized[s]
       IN  \/ m = Malformed /\ EntryGo(e, "invalid")
           \/ /\ m # Malformed
              /\ Asked(e, IF Registered(m) THEN "taken" ELSE "inserting", m, p, NoUser)
  /\ UNCHANGED <<account, visit, now>>

CommitRegister(e) ==
  LET m == entry[e].mail
      p == entry[e].password
  IN  /\ EntryAt(e, "inserting")
      /\ \/ \E u \in Users :
              /\ account[u] = NoAccount /\ ~Refused(m)
              /\ account' = [account EXCEPT ![u] = [mail |-> m, password |-> p]]
              /\ Asked(e, "inserted", m, p, u)
         \/ Refused(m) /\ account' = account /\ EntryGo(e, EmailViolation)
      /\ UNCHANGED <<visit, now>>

(* one SELECT, then the slow comparison of the password *)
Login(e) ==
  /\ EntryAt(e, "idle")
  /\ \E s \in Spellings, p \in Passwords :
       LET m == Normalized[s]
       IN  \/ m = Malformed /\ EntryGo(e, "denied")
           \/ /\ m # Malformed
              /\ \/ /\ \A u \in Users : account[u].mail = m => ~Verified(u, p)
                    /\ Asked(e, "denied", m, p, NoUser)
                 \/ \E u \in Users : /\ account[u].mail = m /\ Verified(u, p)
                                     /\ Asked(e, "verified", m, p, u)
  /\ UNCHANGED <<account, visit, now>>

(* create_access_token: exp is a whole number of seconds *)
RoundedUp(t) == (t + TicksPerSecond - 1) \div TicksPerSecond   \* deviant
Seconds(t)   == t \div TicksPerSecond                           \* int(timestamp)

Grant(e) ==
  /\ EntryAt(e, "inserted") \/ EntryAt(e, "verified")
  /\ entry' = [entry EXCEPT
       ![e].pc = IF EntryAt(e, "inserted") THEN "registered" ELSE "loggedIn",
       ![e].exp = Seconds(now + Ttl * TicksPerSecond),
       ![e].granted = now]
  /\ UNCHANGED <<account, visit, now>>

-----------------------------------------------------------------------------
(***************************************************************************)
(* A visit.  The bearer is the token granted to an entry, an API key, Junk *)
(* or nothing; the X-API-Key header is an API key or nothing.              *)
(***************************************************************************)
VisitAnswers == {"accepted", "unauthorized", "invalidToken", "expired", "invalidKey"}
Bearers == Entries \cup Keys \cup {Junk, NoCredential}
Headers == Keys \cup {NoCredential}

Visit == [pc : VisitAnswers \cup {"idle"}, bearer : Bearers, header : Headers,
          user : Users \cup {NoUser}]

Answer(pc, u) == [pc |-> pc, user |-> u]

(* decode_access_token *)
Expired(e) == entry[e].exp * TicksPerSecond <= now

(* decode_access_token and session.get(UserModel); accounts are never deleted *)
ByToken(b) == IF b \notin Entries THEN Answer("invalidToken", NoUser)
              ELSE IF Expired(b) THEN Answer("expired", NoUser)
              ELSE Answer("accepted", entry[b].user)

(* get_user_from_api_key; a key exists from the time its owner registered *)
ByKey(k) == IF KeyOwner[k] = NoUser \/ account[KeyOwner[k]] = NoAccount
            THEN Answer("invalidKey", NoUser)
            ELSE Answer("accepted", KeyOwner[k])

CurrentUser(b) == IF b = NoCredential THEN Answer("unauthorized", NoUser) ELSE ByToken(b)

NoConflict(k, h) == FALSE              \* deviant
Conflict(k, h)   == h \notin {NoCredential, k}

CurrentDocumentUser(b, h) ==
  IF b \in Keys THEN IF Conflict(b, h) THEN Answer("unauthorized", NoUser) ELSE ByKey(b)
  ELSE IF b # NoCredential THEN ByToken(b)
  ELSE IF h # NoCredential THEN ByKey(h)
  ELSE Answer("unauthorized", NoUser)

Carried(b) == b \in Entries => entry[b].pc \in Granted

Arrive(v) ==
  /\ visit[v].pc = "idle"
  /\ \E b \in Bearers, h \in Headers :
       /\ Carried(b)
       /\ \E a \in {CurrentUser(b), CurrentDocumentUser(b, h)} :
            visit' = [visit EXCEPT ![v] = [pc |-> a.pc, bearer |-> b, header |-> h,
                                           user |-> a.user]]
  /\ UNCHANGED <<account, entry, now>>

Tick == now < MaxNow /\ now' = now + 1 /\ UNCHANGED <<account, entry, visit>>

Init == /\ account = [u \in Users |-> NoAccount]
        /\ entry = [e \in Entries |-> [pc |-> "idle", mail |-> NoMail, password |-> NoPassword,
                                       user |-> NoUser, exp |-> 0, granted |-> 0]]
        /\ visit = [v \in Visits |-> [pc |-> "idle", bearer |-> NoCredential,
                                      header |-> NoCredential, user |-> NoUser]]
        /\ now = 0

Next == \/ \E e \in Entries : CheckRegister(e) \/ CommitRegister(e) \/ Login(e) \/ Grant(e)
        \/ \E v \in Visits : Arrive(v)
        \/ Tick

Spec == Init /\ [][Next]_accountVars

-----------------------------------------------------------------------------
TypeOK == /\ account \in [Users -> Account]
          /\ entry \in [Entries -> Entry]
          /\ visit \in [Visits -> Visit]
          /\ now \in Nat

(***************************************************************************)
(* One account per address, however it is written and although register    *)
(* looks for the address before it inserts.                                *)
(***************************************************************************)
EmailsUnique ==
  \A u, v \in Users : account[u].mail = account[v].mail /\ account[u] # NoAccount => u = v

(***************************************************************************)
(* Whoever was given a token, also as one of two that raced for an         *)
(* address, had given the address and the password of the account that the *)
(* token names.                                                            *)
(***************************************************************************)
TokenNamesAccount ==
  \A e \in Entries : entry[e].pc \in Granted =>
    account[entry[e].user] = [mail |-> entry[e].mail, password |-> entry[e].password]

(***************************************************************************)
(* A token works for expiresIn seconds at most, and for more than a second *)
(* less than that: "exp" is rounded down and compared with <=.             *)
(***************************************************************************)
Age(e) == now - entry[e].granted

TokenLife ==
  [][\A v \in Visits : visit'[v] # visit[v] /\ visit'[v].bearer \in Entries =>
       /\ visit'[v].pc = "accepted" => Age(visit'[v].bearer) < Ttl * TicksPerSecond
       /\ visit'[v].pc = "expired"  => Age(visit'[v].bearer) > (Ttl - 1) * TicksPerSecond
    ]_accountVars

(***************************************************************************)
(* A visit without a token is never taken for a user while it carries an   *)
(* API key of another.                                                     *)
(***************************************************************************)
KeysAgree ==
  \A v \in Visits : visit[v].pc = "accepted" /\ visit[v].bearer \notin Entries =>
    \A k \in {visit[v].bearer, visit[v].header} \ {NoCredential} :
      KeyOwner[k] = visit[v].user
=============================================================================
