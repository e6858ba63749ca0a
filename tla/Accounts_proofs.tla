-------------------------- MODULE Accounts_proofs --------------------------
(***************************************************************************)
(* Proofs about Accounts, for any users, addresses, passwords and          *)
(* concurrent requests, any lifetime and any precision of the clock.       *)
(***************************************************************************)
EXTENDS Accounts, TLAPS

(***************************************************************************)
(* What an entry carries: the password and address it was asked with, and  *)
(* from the commit or the SELECT on, the account that has them.            *)
(***************************************************************************)
Owning == {"inserted", "verified"} \cup Granted

EntryShape ==
  \A e \in Entries :
    /\ entry[e].pc = "inserting" => entry[e].mail \in Mails /\ entry[e].password \in Passwords
    /\ entry[e].pc \in Owning =>
         /\ entry[e].user \in Users
         /\ entry[e].mail \in Mails /\ entry[e].password \in Passwords
         /\ account[entry[e].user] = [mail |-> entry[e].mail, password |-> entry[e].password]

(* "exp" is the last whole second of the life of the token *)
LastSecond(exp, granted) ==
  /\ exp * TicksPerSecond <= granted + Ttl * TicksPerSecond
  /\ exp * TicksPerSecond > granted + Ttl * TicksPerSecond - TicksPerSecond

ExpInLife == \A e \in Entries : entry[e].pc \in Granted =>
               LastSecond(entry[e].exp, entry[e].granted)

AccountsInv == TypeOK /\ EntryShape /\ ExpInLife /\ EmailsUnique

LEMMA Division ==
  ASSUME NEW a \in Nat, NEW b \in Nat, b > 0
  PROVE  /\ a \div b \in Nat
         /\ (a \div b) * b <= a
         /\ (a \div b) * b > a - b
OBVIOUS

LEMMA SecondsInLife ==
  ASSUME now \in Nat
  PROVE  /\ Seconds(now + Ttl * TicksPerSecond) \in Nat
         /\ LastSecond(Seconds(now + Ttl * TicksPerSecond), now)
<1> DEFINE a == now + Ttl * TicksPerSecond
           q == a \div TicksPerSecond
<1>1. a \in Nat /\ TicksPerSecond \in Nat /\ TicksPerSecond > 0
  BY ClockType
<1>2. q \in Nat /\ q * TicksPerSecond <= a /\ q * TicksPerSecond > a - TicksPerSecond
  <2> HIDE DEF a
  <2> QED BY <1>1, Division
<1>3. Seconds(a) = q
  BY DEF Seconds
<1>4. LastSecond(q, now)
  <2> HIDE DEF q
  <2> QED BY <1>1, <1>2, ClockType DEF LastSecond
<1> HIDE DEF q
<1>5. QED BY <1>2, <1>3, <1>4

-----------------------------------------------------------------------------
(***************************************************************************)
(* Steps of an entry that leave the accounts alone                         *)
(***************************************************************************)
LEMMA EntryMoves ==
  ASSUME AccountsInv, NEW e \in Entries, NEW r \in Entry,
         entry' = [entry EXCEPT ![e] = r], UNCHANGED <<account, visit, now>>,
         r.pc = "inserting" => r.mail \in Mails /\ r.password \in Passwords,
         r.pc \in Owning => /\ r.user \in Users
                            /\ r.mail \in Mails /\ r.password \in Passwords
                            /\ account[r.user] = [mail |-> r.mail, password |-> r.password],
         r.pc \in Granted => LastSecond(r.exp, r.granted)
  PROVE  AccountsInv'
<1>1. TypeOK'
  BY DEF AccountsInv, TypeOK
<1>2. entry'[e] = r /\ \A d \in Entries \ {e} : entry'[d] = entry[d]
  BY DEF AccountsInv, TypeOK
<1>3. EntryShape'
  BY <1>2 DEF AccountsInv, EntryShape
<1>4. ExpInLife'
  BY <1>2 DEF AccountsInv, ExpInLife
<1>5. EmailsUnique'
  BY DEF AccountsInv, EmailsUnique
<1>6. QED BY <1>1, <1>3, <1>4, <1>5 DEF AccountsInv

LEMMA AskedMoves ==
  ASSUME AccountsInv, NEW e \in Entries, NEW pc \in EntryPcs \ Granted,
         NEW m \in Mails \cup {NoMail}, NEW p \in Passwords \cup {NoPassword},
         NEW u \in Users \cup {NoUser}, Asked(e, pc, m, p, u),
         UNCHANGED <<account, visit, now>>,
         pc = "inserting" => m \in Mails /\ p \in Passwords,
         pc \in Owning => /\ u \in Users /\ m \in Mails /\ p \in Passwords
                          /\ account[u] = [mail |-> m, password |-> p]
  PROVE  AccountsInv'
<1> DEFINE r == [entry[e] EXCEPT !.pc = pc, !.mail = m, !.password = p, !.user = u]
<1>1. entry[e] \in Entry
  BY DEF AccountsInv, TypeOK
<1>2. r \in Entry /\ r.pc = pc /\ r.mail = m /\ r.password = p /\ r.user = u
  BY <1>1 DEF Entry
<1>3. entry' = [entry EXCEPT ![e] = r]
  BY DEF Asked
<1>4. QED
  <2> HIDE DEF r
  <2> QED BY <1>2, <1>3, EntryMoves DEF Owning

LEMMA GoMoves ==
  ASSUME AccountsInv, NEW e \in Entries, NEW pc \in EntryPcs \ (Owning \cup {"inserting"}),
         EntryGo(e, pc), UNCHANGED <<account, visit, now>>
  PROVE  AccountsInv'
<1> DEFINE r == [entry[e] EXCEPT !.pc = pc]
<1>1. entry[e] \in Entry
  BY DEF AccountsInv, TypeOK
<1>2. r \in Entry /\ r.pc = pc
  BY <1>1 DEF Entry
<1>3. entry' = [entry EXCEPT ![e] = r]
  BY DEF EntryGo
<1>4. QED
  <2> HIDE DEF r
  <2> QED BY <1>2, <1>3, EntryMoves DEF Owning

-----------------------------------------------------------------------------
(***************************************************************************)
(* The steps                                                               *)
(***************************************************************************)
LEMMA RegisterSteps ==
  ASSUME AccountsInv, NEW e \in Entries, CheckRegister(e) \/ Login(e)
  PROVE  AccountsInv'
<1>1. CASE CheckRegister(e)
  <2>1. PICK s \in Spellings, p \in Passwords :
          \/ Normalized[s] = Malformed /\ EntryGo(e, "invalid")
          \/ /\ Normalized[s] # Malformed
             /\ Asked(e, IF Registered(Normalized[s]) THEN "taken" ELSE "inserting",
                      Normalized[s], p, NoUser)
    BY <1>1 DEF CheckRegister
  <2>2. UNCHANGED <<account, visit, now>>
    BY <1>1 DEF CheckRegister
  <2>3. CASE EntryGo(e, "invalid")
    BY <2>2, <2>3, GoMoves DEF EntryPcs, Owning, Granted
  <2>4. CASE ~EntryGo(e, "invalid")
    <3>1. Normalized[s] \in Mails
      BY <2>1, <2>4, NormalizedType
    <3>2. PICK pc \in {"taken", "inserting"} : Asked(e, pc, Normalized[s], p, NoUser)
      BY <2>1, <2>4
    <3>3. pc \in EntryPcs \ Granted /\ pc \notin Owning
      BY <3>2 DEF EntryPcs, Owning, Granted
    <3>4. QED BY <2>2, <3>1, <3>2, <3>3, AskedMoves
  <2>5. QED BY <2>3, <2>4
<1>2. CASE Login(e)
  <2>1. PICK s \in Spellings, p \in Passwords :
          \/ Normalized[s] = Malformed /\ EntryGo(e, "denied")
          \/ /\ Normalized[s] # Malformed
             /\ \/ Asked(e, "denied", Normalized[s], p, NoUser)
                \/ \E u \in Users : /\ account[u].mail = Normalized[s] /\ Verified(u, p)
                                    /\ Asked(e, "verified", Normalized[s], p, u)
    BY <1>2 DEF Login
  <2>2. UNCHANGED <<account, visit, now>>
    BY <1>2 DEF Login
  <2>3. CASE EntryGo(e, "denied")
    BY <2>2, <2>3, GoMoves DEF EntryPcs, Owning, Granted
  <2>4. CASE Normalized[s] # Malformed /\ Asked(e, "denied", Normalized[s], p, NoUser)
    <3>1. "denied" \in EntryPcs \ Granted /\ "denied" \notin Owning
      BY DEF EntryPcs, Owning, Granted
    <3>2. QED BY <2>2, <2>4, <3>1, NormalizedType, AskedMoves
  <2>5. ASSUME NEW u \in Users, Normalized[s] # Malformed,
               account[u].mail = Normalized[s], Verified(u, p),
               Asked(e, "verified", Normalized[s], p, u)
        PROVE  AccountsInv'
    <3>1. Normalized[s] \in Mails
      BY <2>5, NormalizedType
    <3>2. account[u] = [mail |-> Normalized[s], password |-> p]
      <4>1. account[u] \in Account
        BY DEF AccountsInv, TypeOK
      <4>2. QED BY <2>5, <3>1, <4>1, AccountNulls DEF Account, NoAccount, Verified
    <3>3. "verified" \in EntryPcs \ Granted
      BY DEF EntryPcs, Granted
    <3>4. QED BY <2>2, <2>5, <3>1, <3>2, <3>3, AskedMoves
  <2>6. QED BY <2>1, <2>3, <2>4, <2>5
<1>3. QED BY <1>1, <1>2

LEMMA GrantStep ==
  ASSUME AccountsInv, NEW e \in Entries, Grant(e)
  PROVE  AccountsInv'
<1> DEFINE s == Seconds(now + Ttl * TicksPerSecond)
           pc == IF EntryAt(e, "inserted") THEN "registered" ELSE "loggedIn"
           r == [entry[e] EXCEPT !.pc = pc, !.exp = s, !.granted = now]
<1>1. entry[e] \in Entry /\ now \in Nat
  BY DEF AccountsInv, TypeOK
<1>2. s \in Nat /\ LastSecond(s, now)
  BY <1>1, SecondsInLife
<1>3. pc \in Granted /\ pc \in EntryPcs
  BY DEF Granted, EntryPcs
<1>4. entry' = [entry EXCEPT ![e] = r] /\ UNCHANGED <<account, visit, now>>
  BY DEF Grant
<1>5. entry[e].pc \in Owning
  BY DEF Grant, EntryAt, Owning
<1>6. /\ entry[e].user \in Users /\ entry[e].mail \in Mails /\ entry[e].password \in Passwords
      /\ account[entry[e].user] = [mail |-> entry[e].mail, password |-> entry[e].password]
  BY <1>5 DEF AccountsInv, EntryShape
<1> HIDE DEF s, pc
<1>7. /\ r \in Entry /\ r.pc = pc /\ r.exp = s /\ r.granted = now
      /\ r.user = entry[e].user /\ r.mail = entry[e].mail /\ r.password = entry[e].password
  BY <1>1, <1>2, <1>3 DEF Entry
<1>8. pc # "inserting"
  BY <1>3 DEF Granted
<1> HIDE DEF r
<1>9. QED BY <1>2, <1>3, <1>4, <1>6, <1>7, <1>8, EntryMoves

LEMMA CommitStep ==
  ASSUME AccountsInv, NEW e \in Entries, CommitRegister(e)
  PROVE  AccountsInv'
<1> DEFINE m == entry[e].mail
           p == entry[e].password
<1>1. entry[e].pc = "inserting" /\ m \in Mails /\ p \in Passwords /\ entry[e] \in Entry
  BY DEF CommitRegister, EntryAt, AccountsInv, EntryShape, TypeOK
<1>2. CASE account' = account /\ EntryGo(e, EmailViolation)
  BY <1>2, GoMoves DEF CommitRegister, EmailViolation, EntryPcs, Owning, Granted
<1>3. ASSUME NEW u \in Users, account[u] = NoAccount, ~Refused(m),
             account' = [account EXCEPT ![u] = [mail |-> m, password |-> p]],
             Asked(e, "inserted", m, p, u)
      PROVE  AccountsInv'
  <2> DEFINE r == [entry[e] EXCEPT !.pc = "inserted", !.mail = m, !.password = p, !.user = u]
  <2>1. /\ r \in Entry /\ r.pc = "inserted" /\ r.mail = m /\ r.password = p /\ r.user = u
    BY <1>1 DEF Entry, EntryPcs
  <2>2. entry' = [entry EXCEPT ![e] = r] /\ UNCHANGED <<visit, now>>
    BY ZenonT(60), <1>3 DEF Asked, CommitRegister
  <2> HIDE DEF r
  <2>3. /\ entry'[e] = r /\ \A d \in Entries \ {e} : entry'[d] = entry[d]
        /\ account'[u] = [mail |-> m, password |-> p]
        /\ \A v \in Users \ {u} : account'[v] = account[v]
    BY <1>3, <2>2 DEF AccountsInv, TypeOK
  <2>4. TypeOK'
    BY <1>1, <1>3, <2>1, <2>2 DEF AccountsInv, TypeOK, Account
  <2>5. \A d \in Entries \ {e} : entry[d].pc \in Owning => entry[d].user # u
    <3>1. account[u].mail \notin Mails
      BY <1>3, AccountNulls DEF NoAccount
    <3>2. \A d \in Entries : entry[d].pc \in Owning => account[entry[d].user].mail \in Mails
      <4> SUFFICES ASSUME NEW d \in Entries, entry[d].pc \in Owning
                   PROVE  account[entry[d].user].mail \in Mails
        OBVIOUS
      <4>1. /\ entry[d].mail \in Mails
            /\ account[entry[d].user] = [mail |-> entry[d].mail, password |-> entry[d].password]
        BY DEF AccountsInv, EntryShape
      <4>2. QED BY <4>1
    <3>3. QED BY <3>1, <3>2
  <2>6. EntryShape'
    BY <1>1, <2>1, <2>3, <2>5 DEF AccountsInv, EntryShape
  <2>7. ExpInLife'
    BY <2>1, <2>3 DEF AccountsInv, ExpInLife, Granted
  <2>8. EmailsUnique'
    BY <1>3, <2>3 DEF AccountsInv, EmailsUnique, Refused, Registered, NoAccount
  <2>9. QED BY <2>4, <2>6, <2>7, <2>8 DEF AccountsInv
<1>4. QED BY <1>2, <1>3 DEF CommitRegister

LEMMA OtherSteps ==
  ASSUME AccountsInv, (\E v \in Visits : Arrive(v)) \/ Tick \/ UNCHANGED accountVars
  PROVE  AccountsInv'
<1>1. account' = account /\ entry' = entry
  BY DEF Arrive, Tick, accountVars
<1>2. EntryShape' /\ ExpInLife' /\ EmailsUnique'
  BY <1>1 DEF AccountsInv, EntryShape, ExpInLife, EmailsUnique
<1>3. now' \in Nat
  BY DEF AccountsInv, TypeOK, Arrive, Tick, accountVars
<1>4. visit' \in [Visits -> Visit]
  <2>1. CASE visit' = visit
    BY <2>1 DEF AccountsInv, TypeOK
  <2>2. ASSUME NEW v \in Visits, Arrive(v)
        PROVE  visit' \in [Visits -> Visit]
    <3>a. PICK b \in Bearers, h \in Headers :
            \E a \in {CurrentUser(b), CurrentDocumentUser(b, h)} :
              visit' = [visit EXCEPT ![v] = [pc |-> a.pc, bearer |-> b, header |-> h,
                                             user |-> a.user]]
      BY <2>2 DEF Arrive
    <3>1. PICK a \in {CurrentUser(b), CurrentDocumentUser(b, h)} :
            visit' = [visit EXCEPT ![v] = [pc |-> a.pc, bearer |-> b, header |-> h,
                                           user |-> a.user]]
      BY <3>a
    <3>2. a.pc \in VisitAnswers /\ a.user \in Users \cup {NoUser}
      <4>1. \A k \in Keys : KeyOwner[k] \in Users \cup {NoUser}
        BY KeyOwnerType
      <4>2. \A e \in Entries : entry[e].user \in Users \cup {NoUser}
        BY DEF AccountsInv, TypeOK, Entry
      <4>3. QED
        BY <3>1, <4>1, <4>2 DEF CurrentUser, CurrentDocumentUser, ByToken, ByKey, Answer,
           VisitAnswers, Bearers, Headers
    <3>3. [pc |-> a.pc, bearer |-> b, header |-> h, user |-> a.user] \in Visit
      BY <3>2 DEF Visit
    <3>4. QED BY <3>1, <3>3 DEF AccountsInv, TypeOK
  <2>3. QED BY <2>1, <2>2 DEF Tick, accountVars
<1>5. QED BY <1>1, <1>2, <1>3, <1>4 DEF AccountsInv, TypeOK

LEMMA AccountsInit == Init => AccountsInv
<1> SUFFICES ASSUME Init PROVE AccountsInv
  OBVIOUS
<1>1. TypeOK
  BY DEF Init, TypeOK, Account, Entry, EntryPcs, Granted, Visit, VisitAnswers, Bearers, Headers
<1>2. \A e \in Entries : entry[e].pc = "idle"
  BY DEF Init
<1>3. EntryShape /\ ExpInLife
  BY <1>2 DEF EntryShape, ExpInLife, Owning, Granted
<1>4. EmailsUnique
  BY DEF Init, EmailsUnique
<1>5. QED BY <1>1, <1>3, <1>4 DEF AccountsInv

LEMMA AccountsNext == AccountsInv /\ [Next]_accountVars => AccountsInv'
<1> SUFFICES ASSUME AccountsInv, [Next]_accountVars PROVE AccountsInv'
  OBVIOUS
<1>1. CASE \E e \in Entries : CheckRegister(e) \/ Login(e)
  BY <1>1, RegisterSteps
<1>2. CASE \E e \in Entries : CommitRegister(e)
  BY <1>2, CommitStep
<1>3. CASE \E e \in Entries : Grant(e)
  BY <1>3, GrantStep
<1>4. CASE (\E v \in Visits : Arrive(v)) \/ Tick \/ UNCHANGED accountVars
  BY <1>4, OtherSteps
<1>5. QED BY <1>1, <1>2, <1>3, <1>4 DEF Next

(***************************************************************************)
(* The inductive invariant: types, what an entry carries, the life of a    *)
(* token and one account per address.                                      *)
(***************************************************************************)
THEOREM AccountsInvariant == Spec => []AccountsInv
<1>1. QED BY AccountsInit, AccountsNext, PTL DEF Spec

-----------------------------------------------------------------------------
(***************************************************************************)
(* register: the unique index keeps addresses apart; the look-up before it *)
(* is not needed for that.                                                 *)
(***************************************************************************)
THEOREM UniqueEmails == Spec => []EmailsUnique
<1>1. AccountsInv => EmailsUnique
  BY DEF AccountsInv
<1>2. QED BY <1>1, AccountsInvariant, PTL

(***************************************************************************)
(* register and login: a token names the account whose address and         *)
(* password were given for it.                                             *)
(***************************************************************************)
THEOREM TokenOwner == Spec => []TokenNamesAccount
<1>1. AccountsInv => TokenNamesAccount
  BY DEF AccountsInv, EntryShape, TokenNamesAccount, Owning
<1>2. QED BY <1>1, AccountsInvariant, PTL

(* the answer that a visit with a token gets *)
LEMMA TokenLifeStep ==
  ASSUME AccountsInv, [Next]_accountVars, NEW v \in Visits,
         visit'[v] # visit[v], visit'[v].bearer \in Entries
  PROVE  /\ visit'[v].pc = "accepted" => Age(visit'[v].bearer) < Ttl * TicksPerSecond
         /\ visit'[v].pc = "expired"  => Age(visit'[v].bearer) > (Ttl - 1) * TicksPerSecond
<1>1. PICK w \in Visits : Arrive(w)
  BY DEF Next, CheckRegister, CommitRegister, Login, Grant, Tick, accountVars
<1>a. PICK b \in Bearers, h \in Headers :
        /\ Carried(b)
        /\ \E a \in {CurrentUser(b), CurrentDocumentUser(b, h)} :
             visit' = [visit EXCEPT ![w] = [pc |-> a.pc, bearer |-> b, header |-> h,
                                            user |-> a.user]]
  BY <1>1 DEF Arrive
<1>2. PICK a \in {CurrentUser(b), CurrentDocumentUser(b, h)} :
        visit' = [visit EXCEPT ![w] = [pc |-> a.pc, bearer |-> b, header |-> h,
                                       user |-> a.user]]
  BY <1>a
<1>3. visit'[v].bearer = b /\ visit'[v].pc = a.pc
  BY <1>2 DEF AccountsInv, TypeOK
<1>4. b \in Entries /\ b \notin Keys /\ b # NoCredential
  BY <1>3, AccountNulls
<1>5. a = ByToken(b)
  BY <1>2, <1>4 DEF CurrentUser, CurrentDocumentUser
<1>6. LastSecond(entry[b].exp, entry[b].granted)
  BY <1>a, <1>4 DEF Carried, AccountsInv, ExpInLife
<1>7. /\ a.pc = "accepted" => ~Expired(b)
      /\ a.pc = "expired" => Expired(b)
  BY <1>4, <1>5 DEF ByToken, Answer
<1>8. entry[b].exp \in Nat /\ entry[b].granted \in Nat /\ now \in Nat
  BY <1>4 DEF AccountsInv, TypeOK, Entry
<1> DEFINE x == entry[b].exp
           g == entry[b].granted
<1>9. /\ a.pc = "accepted" => now - g < Ttl * TicksPerSecond
      /\ a.pc = "expired"  => now - g > (Ttl - 1) * TicksPerSecond
  <2>1. (Ttl - 1) * TicksPerSecond = Ttl * TicksPerSecond - TicksPerSecond
    BY ClockType
  <2>2. /\ x * TicksPerSecond \in Nat /\ Ttl * TicksPerSecond \in Nat
        /\ TicksPerSecond \in Nat
    BY <1>8, ClockType
  <2>3. QED BY <1>6, <1>7, <1>8, <2>1, <2>2 DEF LastSecond, Expired
<1>10. QED BY <1>3, <1>9 DEF Age

(***************************************************************************)
(* create_access_token and decode_access_token: for every lifetime and     *)
(* every instant of a second, a token is accepted within its life and      *)
(* refused as expired only in its last second or later.                    *)
(***************************************************************************)
THEOREM TokenLifetime == Spec => TokenLife
<1>1. AccountsInv /\ [Next]_accountVars =>
        [\A v \in Visits : visit'[v] # visit[v] /\ visit'[v].bearer \in Entries =>
           /\ visit'[v].pc = "accepted" => Age(visit'[v].bearer) < Ttl * TicksPerSecond
           /\ visit'[v].pc = "expired"  => Age(visit'[v].bearer) > (Ttl - 1) * TicksPerSecond
        ]_accountVars
  BY TokenLifeStep
<1>2. QED BY <1>1, AccountsInvariant, PTL DEF Spec, TokenLife
(***************************************************************************)
(* Accounts, entries and visits keep the types the code gives them.        *)
(***************************************************************************)
THEOREM AccountsTyped == Spec => []TypeOK
<1>1. AccountsInv => TypeOK
  BY DEF AccountsInv
<1>2. QED BY <1>1, AccountsInvariant, PTL

-----------------------------------------------------------------------------
(***************************************************************************)
(* get_current_document_user: the two ways to send an API key              *)
(***************************************************************************)
LEMMA KeyAnswers ==
  ASSUME NEW b \in Bearers, NEW h \in Headers, b \notin Entries,
         NEW a \in {CurrentUser(b), CurrentDocumentUser(b, h)}, a.pc = "accepted",
         NEW k \in {b, h} \ {NoCredential}
  PROVE  KeyOwner[k] = a.user
<1>1. b \in Keys \cup {Junk, NoCredential} /\ h \in Keys \cup {NoCredential}
  BY DEF Bearers, Headers
<1>2. ByToken(b).pc = "invalidToken" /\ CurrentUser(b).pc # "accepted"
  BY DEF ByToken, CurrentUser, Answer
<1>3. a = CurrentDocumentUser(b, h)
  BY <1>2
<1>4. \A o : ByKey(o).pc = "accepted" => ByKey(o).user = KeyOwner[o]
  BY DEF ByKey, Answer
<1>5. CASE b \in Keys
  <2>1. ~Conflict(b, h) /\ a = ByKey(b)
    BY <1>3, <1>5 DEF CurrentDocumentUser, Answer
  <2>2. k = b
    BY <2>1 DEF Conflict
  <2>3. QED BY <1>4, <2>1, <2>2
<1>6. CASE b \notin Keys
  <2>1. b = NoCredential /\ h # NoCredential /\ a = ByKey(h)
    BY <1>1, <1>2, <1>3, <1>6 DEF CurrentDocumentUser, Answer
  <2>2. k = h
    BY <2>1
  <2>3. QED BY <1>4, <2>1, <2>2
<1>7. QED BY <1>5, <1>6

LEMMA KeysAgreeStep ==
  ASSUME AccountsInv, KeysAgree, [Next]_accountVars
  PROVE  KeysAgree'
<1>1. CASE visit' = visit
  BY <1>1 DEF KeysAgree
<1>2. ASSUME NEW w \in Visits, Arrive(w)
      PROVE  KeysAgree'
  <2>a. PICK b \in Bearers, h \in Headers :
          \E a \in {CurrentUser(b), CurrentDocumentUser(b, h)} :
            visit' = [visit EXCEPT ![w] = [pc |-> a.pc, bearer |-> b, header |-> h,
                                           user |-> a.user]]
    BY <1>2 DEF Arrive
  <2>1. PICK a \in {CurrentUser(b), CurrentDocumentUser(b, h)} :
          visit' = [visit EXCEPT ![w] = [pc |-> a.pc, bearer |-> b, header |-> h,
                                         user |-> a.user]]
    BY <2>a
  <2>2. /\ visit'[w].pc = a.pc /\ visit'[w].bearer = b /\ visit'[w].header = h
        /\ visit'[w].user = a.user
        /\ \A v \in Visits \ {w} : visit'[v] = visit[v]
    BY <2>1 DEF AccountsInv, TypeOK
  <2>3. ASSUME a.pc = "accepted", b \notin Entries, NEW k \in {b, h} \ {NoCredential}
        PROVE  KeyOwner[k] = a.user
    BY <2>1, <2>3, KeyAnswers
  <2>4. QED BY <2>2, <2>3 DEF KeysAgree
<1>3. QED
  BY <1>1, <1>2 DEF Next, CheckRegister, CommitRegister, Login, Grant, Tick, accountVars

(***************************************************************************)
(* A visit that is accepted without a token is accepted for the owner of   *)
(* every API key it carries.                                               *)
(***************************************************************************)
THEOREM NoKeyOfAnother == Spec => []KeysAgree
<1>1. Init => KeysAgree
  BY DEF Init, KeysAgree
<1>2. QED BY <1>1, KeysAgreeStep, AccountsInit, AccountsNext, PTL DEF Spec

=============================================================================
