------------------------- MODULE RedisQueue_proofs -------------------------
(***************************************************************************)
(* Proofs about RedisQueue, for any numbers of calls, with or without      *)
(* password and database, any times with a grace above the delay, and any  *)
(* faults.                                                                 *)
(***************************************************************************)
EXTENDS RedisQueue, SequenceTheorems, TLAPS

-----------------------------------------------------------------------------
(***************************************************************************)
(* The inductive invariant, one call at a time.                            *)
(***************************************************************************)
Command(c) == Commands(c)[call[c].step]
Main(c)    == IF c \in Pushes THEN "RPUSH" ELSE "BLPOP"

(* the connection is open exactly while the call reads *)
OpenWhileReading(c) ==
  /\ call[c].step \in 1..Len(Commands(c))
  /\ At(c, "idle") => conn[c].link = "none"
  /\ At(c, "reading") <=> conn[c].link \in {"up", "lost", "silent"}
  /\ conn[c].link \in {"lost", "silent"} => conn[c].cut
  /\ conn[c].reply # "pending" => At(c, "reading")

(* a command not served yet is the last one sent and has moved nothing     *)
Unserved(c) ==
  conn[c].request # "none" =>
    /\ conn[c].reply = "pending" /\ conn[c].moved = NoItem
    /\ At(c, "reading") \/ At(c, "raised")
    /\ At(c, "reading") => conn[c].request = Command(c)
    /\ conn[c].request = "SELECT" => WithDatabase
    /\ conn[c].request \in {"RPUSH", "BLPOP"} =>
         conn[c].request = Main(c) /\ conn[c].database = Home

(* RPUSH or BLPOP is sent to the database that the URL names *)
InHome(c) ==
  /\ At(c, "idle") => conn[c].request = "none" /\ conn[c].moved = NoItem
  /\ ~WithDatabase => conn[c].database = "0"
  /\ At(c, "reading") /\ IsMain(c) => conn[c].database = Home
  /\ At(c, "reading") /\ Command(c) = "SELECT" /\ conn[c].reply = "ok" =>
       conn[c].database = "named"

(* a reply says what the command has moved *)
ReplyTells(c) ==
  /\ At(c, "reading") /\ ~IsMain(c) =>
       conn[c].moved = NoItem /\ conn[c].reply \in {"pending", "ok", "error"}
  /\ conn[c].reply \in {"error", "nil"} => conn[c].moved = NoItem
  /\ conn[c].reply = "nil" => c \in Polls
  /\ conn[c].reply = "ok" /\ IsMain(c) => c \in Pushes /\ conn[c].moved = c
  /\ conn[c].reply \in Pushes => c \in Polls /\ conn[c].moved = conn[c].reply

(* a connection that stays up is answered in time *)
AnsweredInTime(c) ==
  /\ At(c, "reading") /\ c \in Polls /\ conn[c].link = "up" => call[c].waited <= Due(c)
  /\ call[c].pc \in Ended /\ ~conn[c].cut =>
       conn[c].request = "none" /\ (c \in Polls => call[c].item = conn[c].moved)

Sound(c) == /\ OpenWhileReading(c) /\ Unserved(c) /\ InHome(c) /\ ReplyTells(c)
            /\ AnsweredInTime(c)

QueueInv == TypeOK /\ \A c \in Calls : Sound(c)
-----------------------------------------------------------------------------
(***************************************************************************)
(* Commands                                                                *)
(***************************************************************************)
LEMMA CommandFacts ==
  ASSUME NEW c \in Calls
  PROVE  /\ Commands(c) \in Seq(CommandNames)
         /\ Len(Commands(c)) \in 1..3
         /\ Commands(c)[Len(Commands(c))] = Main(c)
         /\ \A i \in 1..(Len(Commands(c)) - 1) : Commands(c)[i] \in {"AUTH", "SELECT"}
         /\ WithDatabase => /\ Len(Commands(c)) > 1
                            /\ Commands(c)[Len(Commands(c)) - 1] = "SELECT"
         /\ \A i \in 1..Len(Commands(c)) : /\ Commands(c)[i] \in CommandNames
                                         /\ Commands(c)[i] = "SELECT" => WithDatabase
<1> DEFINE auth   == IF WithPassword THEN <<"AUTH">> ELSE <<>>
           select == IF WithDatabase THEN <<"SELECT">> ELSE <<>>
           main   == <<Main(c)>>
           before == auth \o select
<1>a. /\ <<>> \in Seq(CommandNames) /\ Len(<<>>) = 0
      /\ \A n \in CommandNames : <<n>> \in Seq(CommandNames) /\ Len(<<n>>) = 1 /\ <<n>>[1] = n
  OBVIOUS
<1>1. /\ auth \in Seq(CommandNames) /\ Len(auth) \in 0..1
      /\ Len(auth) = 1 => auth[1] = "AUTH"
  <2>1. CASE WithPassword
    BY <1>a, <2>1 DEF CommandNames
  <2>2. CASE ~WithPassword
    BY <1>a, <2>2
  <2>3. QED BY <2>1, <2>2
<1>2. /\ select \in Seq(CommandNames) /\ Len(select) = IF WithDatabase THEN 1 ELSE 0
      /\ Len(select) = 1 => select[1] = "SELECT"
  <2>1. CASE WithDatabase
    BY <1>a, <2>1 DEF CommandNames
  <2>2. CASE ~WithDatabase
    BY <1>a, <2>2
  <2>3. QED BY <2>1, <2>2
<1>3. main \in Seq(CommandNames) /\ Len(main) = 1 /\ main[1] = Main(c)
  BY DEF CommandNames, Main
<1>4. Commands(c) = before \o main
  BY DEF Commands, Main
<1> HIDE DEF auth, select, main
<1>5. /\ before \in Seq(CommandNames) /\ Len(before) = Len(auth) + Len(select)
      /\ \A i \in 1..Len(before) : before[i] \in {"AUTH", "SELECT"}
      /\ \A i \in 1..Len(before) : before[i] = "SELECT" => WithDatabase
      /\ WithDatabase => Len(before) > 0 /\ before[Len(before)] = "SELECT"
  <2>1. /\ before \in Seq(CommandNames) /\ Len(before) = Len(auth) + Len(select)
        /\ \A i \in 1..Len(before) :
             before[i] = IF i <= Len(auth) THEN auth[i] ELSE select[i - Len(auth)]
    BY <1>1, <1>2, ConcatProperties
  <2>2. QED BY <1>1, <1>2, <2>1
<1> HIDE DEF before
<1>6. /\ Commands(c) \in Seq(CommandNames) /\ Len(Commands(c)) = Len(before) + 1
      /\ \A i \in 1..Len(before) : Commands(c)[i] = before[i]
      /\ Commands(c)[Len(before) + 1] = Main(c)
  <2>1. before \in Seq(CommandNames)
    BY <1>5
  <2>2. /\ before \o main \in Seq(CommandNames)
        /\ Len(before \o main) = Len(before) + Len(main)
        /\ \A i \in 1..Len(before) + Len(main) :
             (before \o main)[i] = IF i <= Len(before) THEN before[i]
                                   ELSE main[i - Len(before)]
    BY <1>3, <2>1, ConcatProperties
  <2>3. Len(before) \in Nat
    BY <1>5
  <2>4. /\ \A i \in 1..Len(before) : (before \o main)[i] = before[i]
        /\ (before \o main)[Len(before) + 1] = main[1]
    BY <1>3, <2>2, <2>3
  <2>5. QED BY <1>3, <1>4, <2>2, <2>4
<1>7. /\ Len(before) \in 0..2 /\ (WithDatabase => Len(before) > 0)
      /\ Len(Commands(c)) - 1 = Len(before)
  <2>1. Len(auth) \in 0..1 /\ Len(select) \in 0..1
    BY <1>1, <1>2
  <2>2. Len(before) = Len(auth) + Len(select) /\ Len(before) \in Nat
    BY <1>5
  <2>3. Len(before) \in 0..2
    <3>1. \A a, b \in 0..1 : a + b \in 0..2
      OBVIOUS
    <3>2. QED BY <2>1, <2>2, <3>1
  <2>4. WithDatabase => Len(before) > 0
    BY <1>5
  <2>5. Len(Commands(c)) = Len(before) + 1
    BY <1>6
  <2>6. QED BY <2>3, <2>4, <2>5
<1>8. \A i \in 1..Len(Commands(c)) : i \in 1..Len(before) \/ i = Len(before) + 1
  BY <1>6, <1>7
<1>9. \A i \in 1..Len(Commands(c)) : /\ Commands(c)[i] \in CommandNames
                                     /\ Commands(c)[i] = "SELECT" => WithDatabase
  BY <1>5, <1>6, <1>8 DEF CommandNames, Main
<1>10. Len(Commands(c)) \in 1..3 /\ Len(Commands(c)) = Len(before) + 1
  <2>1. Len(Commands(c)) = Len(before) + 1
    BY <1>6
  <2>2. \A a \in 0..2 : a + 1 \in 1..3
    OBVIOUS
  <2>3. QED BY <1>7, <2>1, <2>2
<1>11. WithDatabase => /\ Len(Commands(c)) > 1
                      /\ Commands(c)[Len(Commands(c)) - 1] = "SELECT"
  BY <1>5, <1>6, <1>7
<1>12. \A i \in 1..(Len(Commands(c)) - 1) : Commands(c)[i] \in {"AUTH", "SELECT"}
  <2>1. ASSUME NEW i \in 1..(Len(Commands(c)) - 1)
        PROVE  Commands(c)[i] \in {"AUTH", "SELECT"}
    <3>1. i \in 1..Len(before)
      BY <1>7
    <3>2. Commands(c)[i] = before[i]
      BY <3>1, <1>6
    <3>3. before[i] \in {"AUTH", "SELECT"}
      BY <3>1, <1>5
    <3>4. QED BY <3>2, <3>3
  <2>2. QED BY <2>1
<1>13. QED BY <1>6, <1>9, <1>10, <1>11, <1>12

(* a command at its place: RPUSH or BLPOP last, AUTH and SELECT before it   *)
LEMMA CommandAt ==
  ASSUME NEW c \in Calls, NEW s \in 1..Len(Commands(c))
  PROVE  /\ s \in 1..3 /\ s \in Int
         /\ Commands(c)[s] \in CommandNames /\ (Commands(c)[s] = "SELECT" => WithDatabase)
         /\ s = Len(Commands(c)) => Commands(c)[s] = Main(c)
         /\ s # Len(Commands(c)) => /\ Commands(c)[s] \in {"AUTH", "SELECT"}
                                    /\ s + 1 \in 1..Len(Commands(c))
         /\ WithDatabase /\ s + 1 = Len(Commands(c)) => Commands(c)[s] = "SELECT"
<1> DEFINE n == Len(Commands(c))
<1>1. n \in 1..3
  BY CommandFacts
<1> HIDE DEF n
<1>2. s \in 1..n
  BY DEF n
<1>3. s \in 1..3 /\ s \in Int /\ (s # n => s \in 1..(n - 1) /\ s + 1 \in 1..n)
  BY <1>1, <1>2
<1>4. WithDatabase /\ s + 1 = n => s = n - 1
  BY <1>3, <1>1
<1>5. QED BY <1>3, <1>4, CommandFacts DEF n

(* the first command goes to the database that the URL names unless SELECT *)
(* is still to come                                                        *)
LEMMA FirstCommand ==
  ASSUME NEW c \in Calls
  PROVE  1 \in 1..Len(Commands(c)) /\ (Len(Commands(c)) = 1 => ~WithDatabase)
<1>1. \A n \in 1..3 : 1 \in 1..n /\ ~(n > 1 /\ n = 1)
  OBVIOUS
<1>2. QED BY <1>1, CommandFacts

-----------------------------------------------------------------------------
(***************************************************************************)
(* What the client's and the server's steps leave behind.                  *)
(***************************************************************************)
Elsewhere(c) == \A d \in Calls \ {c} : call'[d] = call[d] /\ conn'[d] = conn[d]

LEMMA OthersSound ==
  ASSUME QueueInv, NEW c \in Calls, TypeOK', Elsewhere(c), Sound(c)'
  PROVE  QueueInv'
<1>1. ASSUME NEW d \in Calls \ {c}
      PROVE  Sound(d)'
  <2>1. call'[d] = call[d] /\ conn'[d] = conn[d] /\ Sound(d)
    BY DEF Elsewhere, QueueInv
  <2>2. OpenWhileReading(d)' /\ Unserved(d)'
    BY <2>1 DEF Sound, OpenWhileReading, Unserved, At, Command
  <2>3. InHome(d)' /\ ReplyTells(d)'
    BY <2>1 DEF Sound, InHome, ReplyTells, At, Command, IsMain
  <2>4. AnsweredInTime(d)'
    BY <2>1 DEF Sound, AnsweredInTime, At, Due, IsMain
  <2>5. QED BY <2>2, <2>3, <2>4 DEF Sound
<1>2. QED BY <1>1 DEF QueueInv

CallType == [pc : CallPcs, step : 1..3, waited : 0..(PollTimeout + Grace),
             item : Pushes \cup {NoItem}]
ConnType == [link : Links, request : CommandNames \cup {"none"}, reply : Replies,
             database : {"0", Home}, moved : Pushes \cup {NoItem}, cut : BOOLEAN]

(* a step of one call: its call becomes r and its connection q              *)
Steps(c, r, q) == call' = [call EXCEPT ![c] = r] /\ conn' = [conn EXCEPT ![c] = q]

LEMMA StepLeaves ==
  ASSUME TypeOK, NEW c \in Calls, NEW r, NEW q, Steps(c, r, q)
  PROVE  call'[c] = r /\ conn'[c] = q /\ Elsewhere(c)
BY DEF TypeOK, Steps, Elsewhere

LEMMA StepTyped ==
  ASSUME TypeOK, NEW c \in Calls, NEW r \in CallType, NEW q \in ConnType, Steps(c, r, q),
         lists' \in [{"0", Home} -> Seq(Pushes)]
  PROVE  TypeOK'
<1>1. call \in [Calls -> CallType] /\ conn \in [Calls -> ConnType]
  BY DEF TypeOK, CallType, ConnType
<1>2. call' \in [Calls -> CallType] /\ conn' \in [Calls -> ConnType]
  BY <1>1 DEF Steps
<1>3. QED BY <1>2 DEF TypeOK, CallType, ConnType

LEMMA RecordsTyped ==
  ASSUME TypeOK, NEW c \in Calls
  PROVE  call[c] \in CallType /\ conn[c] \in ConnType
BY DEF TypeOK, CallType, ConnType

(* a call may end if nothing it sent is still to be served, or if it       *)
(* raises; one whose connection held ends with what Redis moved for it     *)
LEMMA EndSound ==
  ASSUME QueueInv, NEW c \in Calls, NEW pc \in Ended, NEW item \in Pushes \cup {NoItem},
         End(c, pc, item), UNCHANGED lists,
         conn[c].request # "none" => pc = "raised",
         ~conn[c].cut => conn[c].request = "none" /\ (c \in Polls => item = conn[c].moved)
  PROVE  QueueInv'
<1> DEFINE r == [pc |-> pc, step |-> 1, waited |-> 0, item |-> item]
           q == [conn[c] EXCEPT !.link = "closed", !.reply = "pending"]
<1>1. TypeOK /\ Sound(c) /\ conn[c] \in ConnType
  BY RecordsTyped DEF QueueInv
<1>2. r \in CallType /\ q \in ConnType
  <2>1. r \in CallType
    BY TimesType DEF CallType, CallPcs
  <2>2. q \in ConnType
    BY <1>1 DEF ConnType, Links, Replies
  <2>3. QED BY <2>1, <2>2
<1>3. Steps(c, r, q)
  BY <1>1 DEF Steps, End, TypeOK
<1>4. lists' \in [{"0", Home} -> Seq(Pushes)]
  BY <1>1 DEF TypeOK
<1>5. TypeOK' /\ call'[c] = r /\ conn'[c] = q /\ Elsewhere(c)
  <2> HIDE DEF r, q
  <2>1. QED BY <1>1, <1>2, <1>3, <1>4, StepLeaves, StepTyped
<1>6. /\ call'[c].pc = pc /\ call'[c].step = 1 /\ call'[c].item = item
      /\ conn'[c].link = "closed" /\ conn'[c].reply = "pending"
      /\ conn'[c].request = conn[c].request /\ conn'[c].database = conn[c].database
      /\ conn'[c].moved = conn[c].moved /\ conn'[c].cut = conn[c].cut
  BY <1>1, <1>5 DEF ConnType
<1>7. OpenWhileReading(c)'
  BY <1>6, FirstCommand DEF OpenWhileReading, At, Ended
<1>8. Unserved(c)'
  BY <1>1, <1>6 DEF Sound, Unserved, At, Ended
<1>9. InHome(c)' /\ ReplyTells(c)'
  BY <1>1, <1>6, RepliesDistinct DEF Sound, InHome, ReplyTells, At, Ended
<1>10. AnsweredInTime(c)'
  BY <1>6 DEF AnsweredInTime, At, Ended
<1>11. QED BY <1>5, <1>7, <1>8, <1>9, <1>10, OthersSound DEF Sound

(* the next command may be sent once the one before it is answered, to the *)
(* database the URL names if it is the last                                *)
LEMMA WriteSound ==
  ASSUME QueueInv, NEW c \in Calls, NEW s \in 1..Len(Commands(c)), WriteCommand(c, s),
         UNCHANGED lists,
         conn[c].link \in {"none", "up", "lost"},
         conn[c].link # "none" => ~At(c, "idle"),
         conn[c].request = "none", conn[c].moved = NoItem,
         s = Len(Commands(c)) => conn[c].database = Home
  PROVE  QueueInv'
<1> DEFINE r == [call[c] EXCEPT !.pc = "reading", !.step = s, !.waited = 0]
           q == [conn[c] EXCEPT !.link = IF @ = "none" THEN "up" ELSE @,
                                !.request = IF conn[c].link = "lost" THEN "none"
                                            ELSE Commands(c)[s],
                                !.reply = "pending"]
<1>1. TypeOK /\ Sound(c) /\ call[c] \in CallType /\ conn[c] \in ConnType
  BY RecordsTyped DEF QueueInv
<1>2. /\ s \in 1..3 /\ Commands(c)[s] \in CommandNames
      /\ Commands(c)[s] = "SELECT" => WithDatabase
      /\ Commands(c)[s] \in {"RPUSH", "BLPOP"} => s = Len(Commands(c))
      /\ s = Len(Commands(c)) => Commands(c)[s] = Main(c)
  BY CommandAt
<1>3. r \in CallType /\ q \in ConnType
  <2>1. r \in CallType
    <3>1. 0 \in 0..(PollTimeout + Grace) /\ "reading" \in CallPcs
      BY TimesType DEF CallPcs
    <3>2. QED BY <1>1, <1>2, <3>1 DEF CallType
  <2>2. q \in ConnType
    BY <1>1, <1>2 DEF ConnType, Links, Replies
  <2>3. QED BY <2>1, <2>2
<1>4. Steps(c, r, q)
  BY <1>1 DEF Steps, WriteCommand, TypeOK
<1>5. lists' \in [{"0", Home} -> Seq(Pushes)]
  BY <1>1 DEF TypeOK
<1>6. TypeOK' /\ call'[c] = r /\ conn'[c] = q /\ Elsewhere(c)
  <2> HIDE DEF r, q
  <2>1. QED BY <1>1, <1>3, <1>4, <1>5, StepLeaves, StepTyped
<1>7. /\ call'[c].pc = "reading" /\ call'[c].step = s /\ call'[c].waited = 0
      /\ conn'[c].link = IF conn[c].link = "none" THEN "up" ELSE conn[c].link
      /\ conn'[c].request \in {"none", Commands(c)[s]} /\ conn'[c].reply = "pending"
      /\ conn'[c].database = conn[c].database
      /\ conn'[c].moved = conn[c].moved /\ conn'[c].cut = conn[c].cut
  BY <1>1, <1>6 DEF CallType, ConnType
<1>8. OpenWhileReading(c)'
  BY <1>1, <1>7 DEF Sound, OpenWhileReading, At
<1>9. Unserved(c)'
  BY <1>2, <1>7 DEF Unserved, At, Command
<1>10. InHome(c)'
  BY <1>1, <1>7 DEF Sound, InHome, At, IsMain
<1>11. ReplyTells(c)'
  BY <1>7, RepliesDistinct DEF ReplyTells, At, IsMain
<1>12. AnsweredInTime(c)'
  BY <1>7, TimesType DEF AnsweredInTime, At, Due, Ended
<1>13. QED BY <1>6, <1>8, <1>9, <1>10, <1>11, <1>12, OthersSound DEF Sound

(* Redis serves a command: the reply it sends tells what it has moved      *)
LEMMA ServeSound ==
  ASSUME QueueInv, NEW c \in Calls, NEW reply \in Replies \ {"pending"}, NEW q \in ConnType,
         Steps(c, call[c], q), lists' \in [{"0", Home} -> Seq(Pushes)],
         conn[c].request # "none", q.request = "none", q.reply = Sent(c, reply),
         q.link = conn[c].link, q.cut = conn[c].cut,
         q.database # conn[c].database => conn[c].request = "SELECT" /\ q.database = "named",
         conn[c].request = "SELECT" /\ reply = "ok" => q.database = "named",
         conn[c].request \in {"AUTH", "SELECT"} => q.moved = NoItem /\ reply \in {"ok", "error"},
         reply \in {"error", "nil"} => q.moved = NoItem,
         reply = "nil" => c \in Polls,
         conn[c].request \in {"RPUSH", "BLPOP"} /\ reply = "ok" => c \in Pushes /\ q.moved = c,
         reply \in Pushes => c \in Polls /\ q.moved = reply
  PROVE  QueueInv'
<1>1. TypeOK /\ Sound(c) /\ call[c] \in CallType /\ conn[c] \in ConnType
  BY RecordsTyped DEF QueueInv
<1>4. TypeOK' /\ call'[c] = call[c] /\ conn'[c] = q /\ Elsewhere(c)
  BY <1>1, StepLeaves, StepTyped
<1>5. /\ conn'[c].request = "none" /\ conn'[c].database = q.database
      /\ conn'[c].moved = q.moved
      /\ conn'[c].reply = IF conn[c].link = "up" THEN reply ELSE "pending"
      /\ conn'[c].link = conn[c].link /\ conn'[c].cut = conn[c].cut
  BY <1>4 DEF Sent
<1>6. conn[c].request \in CommandNames /\ (~WithDatabase => Home = "0")
  BY <1>1 DEF ConnType, Home
<1>7. At(c, "reading") => /\ conn[c].request = Command(c)
                          /\ IsMain(c) <=> conn[c].request \in {"RPUSH", "BLPOP"}
  <2>1. call[c].step \in 1..Len(Commands(c))
    BY <1>1 DEF Sound, OpenWhileReading
  <2>2. QED BY <1>1, <2>1, CommandAt DEF Sound, Unserved, IsMain, Command, Main
<1>8. /\ At(c, "reading") \/ (At(c, "raised") /\ conn[c].cut)
      /\ At(c, "raised") => conn[c].link \notin {"up", "lost", "silent"}
  BY <1>1 DEF Sound, OpenWhileReading, Unserved, AnsweredInTime, At, Ended
<1>9. OpenWhileReading(c)'
  BY <1>1, <1>4, <1>5, <1>8 DEF Sound, OpenWhileReading, At
<1>10. Unserved(c)'
  BY <1>5 DEF Unserved
<1>11. InHome(c)'
  BY <1>1, <1>4, <1>5, <1>6, <1>7, <1>8 DEF Sound, InHome, Unserved, At, IsMain, Command
<1>12. ReplyTells(c)'
  BY <1>1, <1>4, <1>5, <1>6, <1>7, <1>8, RepliesDistinct
  DEF ReplyTells, At, IsMain, CommandNames
<1>13. AnsweredInTime(c)'
  BY <1>1, <1>4, <1>5, <1>8 DEF Sound, AnsweredInTime, At, Due, IsMain, Ended
<1>14. QED BY <1>4, <1>9, <1>10, <1>11, <1>12, <1>13, OthersSound DEF Sound

LEMMA AnswerSound ==
  ASSUME QueueInv, NEW c \in Calls, NEW reply \in Replies \ {"pending"},
         NEW item \in Pushes \cup {NoItem}, Answer(c, reply, item), UNCHANGED call,
         lists' \in [{"0", Home} -> Seq(Pushes)],
         conn[c].request # "none",
         conn[c].request = "SELECT" => reply # "ok",
         conn[c].request \in {"AUTH", "SELECT"} => item = NoItem /\ reply \in {"ok", "error"},
         reply \in {"error", "nil"} => item = NoItem,
         reply = "nil" => c \in Polls,
         conn[c].request \in {"RPUSH", "BLPOP"} /\ reply = "ok" => c \in Pushes /\ item = c,
         reply \in Pushes => c \in Polls /\ item = reply
  PROVE  QueueInv'
<1> DEFINE q == [conn[c] EXCEPT !.request = "none", !.reply = Sent(c, reply), !.moved = item]
<1>1. TypeOK /\ conn[c] \in ConnType
  BY RecordsTyped DEF QueueInv
<1>2. q \in ConnType
  BY <1>1 DEF ConnType, Sent, Replies
<1>3. /\ q.request = "none" /\ q.reply = Sent(c, reply) /\ q.moved = item
      /\ q.link = conn[c].link /\ q.cut = conn[c].cut /\ q.database = conn[c].database
  BY <1>1 DEF ConnType
<1>4. Steps(c, call[c], q)
  BY <1>1 DEF Steps, Answer, TypeOK
<1> HIDE DEF q
<1>5. QED BY <1>2, <1>3, <1>4, ServeSound

-----------------------------------------------------------------------------
(***************************************************************************)
(* Every action keeps the invariant.                                       *)
(***************************************************************************)
LEMMA ConnectSound ==
  ASSUME QueueInv, NEW c \in Calls, Connect(c)
  PROVE  QueueInv'
<1>1. /\ Sound(c) /\ At(c, "idle") /\ conn[c].link = "none" /\ conn[c].request = "none"
      /\ conn[c].moved = NoItem /\ (~WithDatabase => conn[c].database = Home)
  BY DEF QueueInv, Sound, Connect, OpenWhileReading, InHome, Home
<1>2. CASE WriteCommand(c, 1)
  BY <1>1, <1>2, FirstCommand, WriteSound DEF Connect
<1>3. CASE End(c, "raised", NoItem)
  BY <1>1, <1>3, EndSound DEF Connect, Ended
<1>4. QED BY <1>2, <1>3 DEF Connect

(* what a call that has a reply knows *)
LEMMA Answered ==
  ASSUME QueueInv, NEW c \in Calls, At(c, "reading"), conn[c].reply # "pending"
  PROVE  /\ conn[c].request = "none"
         /\ conn[c].reply = "error" => conn[c].moved = NoItem
         /\ ~IsMain(c) /\ conn[c].reply # "error" =>
              /\ conn[c].moved = NoItem
              /\ call[c].step + 1 \in 1..Len(Commands(c))
              /\ call[c].step + 1 = Len(Commands(c)) => conn[c].database = Home
         /\ IsMain(c) /\ conn[c].reply = "nil" => conn[c].moved = NoItem /\ c \in Polls
         /\ IsMain(c) /\ conn[c].reply \notin {"error", "nil"} =>
              /\ conn[c].moved # NoItem
              /\ c \in Polls => conn[c].reply \in Pushes /\ conn[c].moved = conn[c].reply
<1>1. Sound(c) /\ conn[c].reply \in Replies /\ call[c].step \in 1..Len(Commands(c))
  BY RecordsTyped DEF QueueInv, Sound, OpenWhileReading, ConnType
<1>2. conn[c].request = "none"
  BY <1>1 DEF Sound, Unserved
<1>3. ~IsMain(c) /\ conn[c].reply # "error" =>
        /\ conn[c].moved = NoItem
        /\ call[c].step + 1 \in 1..Len(Commands(c))
        /\ call[c].step + 1 = Len(Commands(c)) => conn[c].database = Home
  <2>1. CASE WithDatabase
    BY <1>1, <2>1, CommandAt DEF Sound, ReplyTells, InHome, IsMain, Command, Home
  <2>2. CASE ~WithDatabase
    BY <1>1, <2>2, CommandAt DEF Sound, ReplyTells, InHome, IsMain, Home
  <2>3. QED BY <2>1, <2>2
<1>4. QED
  BY <1>1, <1>2, <1>3, CallsDistinct, RepliesDistinct DEF Sound, ReplyTells, Replies

LEMMA ReadResponseSound ==
  ASSUME QueueInv, NEW c \in Calls, ReadResponse(c)
  PROVE  QueueInv'
<1> DEFINE reply == conn[c].reply
<1>1. /\ At(c, "reading") /\ reply # "pending" /\ UNCHANGED lists
      /\ conn[c].link \in {"up", "lost"} /\ (conn[c].link = "lost" => conn[c].cut)
      /\ conn[c].request = "none"
  BY Answered DEF ReadResponse, QueueInv, Sound, OpenWhileReading
<1>2. CASE Raises(reply) /\ End(c, "raised", NoItem)
  BY <1>1, <1>2, Answered, EndSound DEF Raises, Ended
<1>3. CASE ~Raises(reply) /\ ~IsMain(c) /\ WriteCommand(c, call[c].step + 1)
  BY <1>1, <1>3, Answered, WriteSound DEF Raises, At
<1>4. CASE conn[c].link = "lost" /\ End(c, "raised", NoItem)
  BY <1>1, <1>4, EndSound DEF Ended
<1>5. CASE /\ ~Raises(reply) /\ IsMain(c)
           /\ End(c, Outcome(reply), IF reply \in Pushes THEN reply ELSE NoItem)
  <2> DEFINE item == IF reply \in Pushes THEN reply ELSE NoItem
  <2>1. item \in Pushes \cup {NoItem} /\ Outcome(reply) \in Ended
    BY DEF Outcome, Ended
  <2>2. c \in Polls => item = conn[c].moved
    BY <1>1, <1>5, Answered, RepliesDistinct DEF Raises
  <2> HIDE DEF item
  <2>3. End(c, Outcome(reply), item)
    BY <1>5 DEF item
  <2>4. QED BY <1>1, <2>1, <2>2, <2>3, EndSound
<1>6. QED BY <1>2, <1>3, <1>4, <1>5 DEF ReadResponse

LEMMA GiveUpSound ==
  ASSUME QueueInv, NEW c \in Calls, ReadEndOfFile(c) \/ ReadTimeout(c)
  PROVE  QueueInv'
<1>1. TypeOK /\ Sound(c) /\ call[c] \in CallType
  BY RecordsTyped DEF QueueInv
<1>2. ReadTimeout(c) => conn[c].link # "up"
  <2>1. Due(c) < PollTimeout + Grace /\ Due(c) \in Nat /\ call[c].waited \in Nat
    BY <1>1, TimesType DEF Due, CallType
  <2>2. QED BY <1>1, <2>1, TimesType DEF ReadTimeout, TimeoutFor, Sound, AnsweredInTime
<1>3. conn[c].cut /\ End(c, "raised", NoItem) /\ UNCHANGED lists
  BY <1>1, <1>2
  DEF Sound, OpenWhileReading, ReadEndOfFile, GiveUp, ReadTimeout, At
<1>4. QED BY <1>3, EndSound DEF Ended

LEMMA ExecuteSound ==
  ASSUME QueueInv, NEW c \in Calls, Execute(c)
  PROVE  QueueInv'
<1>1. /\ TypeOK /\ Sound(c) /\ conn[c] \in ConnType /\ conn[c].database \in {"0", Home}
      /\ lists \in [{"0", Home} -> Seq(Pushes)]
  BY RecordsTyped DEF QueueInv, TypeOK, ConnType
<1>2. CASE ExecuteAuth(c)
  BY <1>1, <1>2, RepliesDistinct, AnswerSound DEF ExecuteAuth, Replies
<1>3. CASE ExecuteSelect(c)
  <2> DEFINE q == [conn[c] EXCEPT !.request = "none", !.reply = Sent(c, "ok"),
                                  !.database = "named"]
  <2>1. WithDatabase /\ conn[c].request = "SELECT" /\ conn[c].moved = NoItem
    BY <1>1, <1>3 DEF ExecuteSelect, Sound, Unserved
  <2>2. q \in ConnType
    BY <1>1, <2>1 DEF ConnType, Sent, Replies, Home
  <2>3. /\ q.request = "none" /\ q.reply = Sent(c, "ok") /\ q.moved = NoItem
        /\ q.link = conn[c].link /\ q.cut = conn[c].cut /\ q.database = "named"
    BY <1>1, <2>1 DEF ConnType
  <2>4. Steps(c, call[c], q)
    BY <1>1, <1>3 DEF Steps, ExecuteSelect, TypeOK
  <2>5. UNCHANGED lists /\ "ok" \in Replies \ {"pending"}
    BY <1>3 DEF ExecuteSelect, Replies
  <2> HIDE DEF q
  <2>6. QED BY <1>1, <2>1, <2>2, <2>3, <2>4, <2>5, RepliesDistinct, ServeSound
<1>4. CASE ExecuteRpush(c)
  BY <1>1, <1>4, RepliesDistinct, AnswerSound, CallsDistinct
  DEF ExecuteRpush, Database, Replies, Sound, Unserved, Main
<1>5. CASE ExecuteBlpop(c)
  <2> DEFINE list == lists[conn[c].database]
             item == Head(list)
  <2>1. list \in Seq(Pushes) /\ list # <<>>
    BY <1>1, <1>5 DEF ExecuteBlpop, Database
  <2>2. item \in Pushes /\ Tail(list) \in Seq(Pushes)
    BY <2>1, HeadTailProperties
  <2>3. /\ lists' = [lists EXCEPT ![conn[c].database] = Tail(list)]
        /\ conn[c].request = "BLPOP" /\ Answer(c, item, item) /\ UNCHANGED call
    BY <1>5 DEF ExecuteBlpop, Database
  <2> HIDE DEF list, item
  <2>4. lists' \in [{"0", Home} -> Seq(Pushes)]
    BY <1>1, <2>2, <2>3
  <2>5. item \in Replies \ {"pending"} /\ item \notin {"ok", "error", "nil"}
    BY <2>2, RepliesDistinct DEF Replies
  <2>6. c \in Polls
    BY <1>1, <2>3 DEF Sound, Unserved, Main, Calls
  <2>7. QED BY <2>2, <2>3, <2>4, <2>5, <2>6, AnswerSound
<1>6. CASE BlpopTimesOut(c)
  BY <1>1, <1>6, RepliesDistinct, AnswerSound
  DEF BlpopTimesOut, Replies, Sound, Unserved, Main, Calls
<1>7. QED BY <1>2, <1>3, <1>4, <1>5, <1>6 DEF Execute

LEMMA NetworkSound ==
  ASSUME QueueInv, NEW c \in Calls, Cut(c) \/ Discard(c)
  PROVE  QueueInv'
<1> DEFINE k == conn[c]
<1>1. TypeOK /\ Sound(c) /\ call[c] \in CallType /\ k \in ConnType
  BY RecordsTyped DEF QueueInv
<1>2. ASSUME NEW q \in ConnType, Steps(c, call[c], q), UNCHANGED lists
      PROVE  TypeOK' /\ call'[c] = call[c] /\ conn'[c] = q /\ Elsewhere(c)
  <2>1. lists' \in [{"0", Home} -> Seq(Pushes)]
    BY <1>1, <1>2 DEF TypeOK
  <2>2. QED BY <1>1, <1>2, <2>1, StepLeaves, StepTyped
<1>3. CASE Cut(c)
  <2>1. PICK how \in {"lost", "silent"} :
          k.link = "up" /\ conn' = [conn EXCEPT ![c].link = how, ![c].cut = TRUE]
    BY <1>3 DEF Cut
  <2> DEFINE q == [k EXCEPT !.link = how, !.cut = TRUE]
  <2>2. q \in ConnType
    BY <1>1, <2>1 DEF ConnType, Links
  <2>3. Steps(c, call[c], q) /\ UNCHANGED lists
    BY <1>1, <1>3, <2>1 DEF Steps, Cut, TypeOK
  <2>4. /\ q.link = how /\ q.cut /\ q.request = k.request /\ q.reply = k.reply
        /\ q.database = k.database /\ q.moved = k.moved
    BY <1>1 DEF ConnType
  <2> HIDE DEF q
  <2>5. TypeOK' /\ call'[c] = call[c] /\ conn'[c] = q /\ Elsewhere(c)
    BY <1>2, <2>2, <2>3
  <2>6. OpenWhileReading(c)'
    BY <1>1, <2>1, <2>4, <2>5 DEF Sound, OpenWhileReading, At
  <2>7. Unserved(c)' /\ InHome(c)' /\ ReplyTells(c)'
    BY <1>1, <2>4, <2>5
    DEF Sound, Unserved, InHome, ReplyTells, At, IsMain, Command
  <2>8. AnsweredInTime(c)'
    BY <1>1, <2>1, <2>4, <2>5 DEF AnsweredInTime, At
  <2>9. QED BY <2>5, <2>6, <2>7, <2>8, OthersSound DEF Sound
<1>4. CASE Discard(c)
  <2> DEFINE q == [k EXCEPT !.request = "none"]
  <2>1. q \in ConnType
    BY <1>1 DEF ConnType
  <2>2. Steps(c, call[c], q) /\ UNCHANGED lists
    BY <1>1, <1>4 DEF Steps, Discard, TypeOK
  <2>3. /\ q.link = k.link /\ q.cut = k.cut /\ q.request = "none" /\ q.reply = k.reply
        /\ q.database = k.database /\ q.moved = k.moved
    BY <1>1 DEF ConnType
  <2> HIDE DEF q
  <2>4. TypeOK' /\ call'[c] = call[c] /\ conn'[c] = q /\ Elsewhere(c)
    BY <1>2, <2>1, <2>2
  <2>5. OpenWhileReading(c)' /\ Unserved(c)'
    BY <1>1, <2>3, <2>4 DEF Sound, OpenWhileReading, Unserved, At
  <2>6. InHome(c)' /\ ReplyTells(c)'
    BY <1>1, <2>3, <2>4 DEF Sound, InHome, ReplyTells, At, IsMain, Command
  <2>7. AnsweredInTime(c)'
    BY <1>1, <2>3, <2>4 DEF Sound, AnsweredInTime, At, Due, IsMain
  <2>8. QED BY <2>4, <2>5, <2>6, <2>7, OthersSound DEF Sound
<1>5. QED BY <1>3, <1>4

LEMMA TickSound ==
  ASSUME QueueInv, Tick
  PROVE  QueueInv'
<1>1. /\ TypeOK /\ UNCHANGED <<conn, lists>>
      /\ \A c \in Calls : call[c] \in CallType
  BY RecordsTyped DEF QueueInv, Tick
<1>2. ASSUME NEW c \in Calls
      PROVE  /\ call'[c] \in CallType
             /\ call'[c].pc = call[c].pc /\ call'[c].step = call[c].step
             /\ call'[c].item = call[c].item
             /\ \/ call'[c].waited = call[c].waited
                \/ call'[c].waited = call[c].waited + 1
             /\ At(c, "reading") /\ c \in Polls /\ conn[c].link = "up" =>
                  call[c].waited < Due(c)
  <2> DEFINE late == c \in Polls /\ At(c, "reading") /\ call[c].waited < PollTimeout + Grace
  <2>1. call'[c] = IF late THEN [call[c] EXCEPT !.waited = @ + 1] ELSE call[c]
    BY DEF Tick
  <2>2. late => call[c].waited + 1 \in 0..(PollTimeout + Grace)
    BY <1>1, TimesType DEF CallType
  <2> HIDE DEF late
  <2>3. call'[c] \in CallType
    BY <1>1, <2>1, <2>2 DEF CallType
  <2>4. /\ call'[c].pc = call[c].pc /\ call'[c].step = call[c].step
        /\ call'[c].item = call[c].item
        /\ \/ call'[c].waited = call[c].waited
           \/ call'[c].waited = call[c].waited + 1
    BY <1>1, <2>1 DEF CallType
  <2>5. QED BY <2>3, <2>4 DEF Tick
<1>3. TypeOK'
  <2>1. call' \in [Calls -> CallType]
    BY <1>2 DEF Tick
  <2>2. QED BY <1>1, <2>1 DEF TypeOK, CallType
<1>4. ASSUME NEW c \in Calls
      PROVE  Sound(c)'
  <2>1. Sound(c)
    BY DEF QueueInv
  <2>2. OpenWhileReading(c)' /\ Unserved(c)'
    BY <1>1, <1>2, <2>1 DEF Sound, OpenWhileReading, Unserved, At, Command
  <2>3. InHome(c)' /\ ReplyTells(c)'
    BY <1>1, <1>2, <2>1 DEF Sound, InHome, ReplyTells, At, IsMain, Command
  <2>4. call[c].waited \in Nat /\ Due(c) \in Nat /\ Due(c)' = Due(c)
    BY <1>1, <1>2, TimesType DEF CallType, Due, IsMain
  <2>5. AnsweredInTime(c)'
    BY <1>1, <1>2, <2>1, <2>4 DEF Sound, AnsweredInTime, At
  <2>6. QED BY <2>2, <2>3, <2>5 DEF Sound
<1>5. QED BY <1>3, <1>4 DEF QueueInv

LEMMA RefuseSound ==
  ASSUME QueueInv, NEW c \in Calls, RefuseCommand(c)
  PROVE  QueueInv'
<1>1. lists' \in [{"0", Home} -> Seq(Pushes)] /\ UNCHANGED call /\ Answer(c, "error", NoItem)
  BY DEF QueueInv, TypeOK, RefuseCommand
<1>2. "error" \in Replies \ {"pending"} /\ conn[c].request # "none"
  BY DEF Replies, RefuseCommand
<1>3. QED BY <1>1, <1>2, RepliesDistinct, AnswerSound

LEMMA InitSound == Init => QueueInv
<1> SUFFICES ASSUME Init PROVE QueueInv
  OBVIOUS
<1>1. \A c \in Calls :
        /\ call[c] = [pc |-> "idle", step |-> 1, waited |-> 0, item |-> NoItem]
        /\ conn[c] = [link |-> "none", request |-> "none", reply |-> "pending",
                      database |-> "0", moved |-> NoItem, cut |-> FALSE]
  BY DEF Init
<1>2. TypeOK
  <2>1. 0 \in 0..(PollTimeout + Grace)
    BY TimesType
  <2>2. call \in [Calls -> CallType]
    BY <2>1 DEF Init, CallType, CallPcs
  <2>3. conn \in [Calls -> ConnType]
    BY DEF Init, ConnType, Links, Replies
  <2>4. lists \in [{"0", Home} -> Seq(Pushes)]
    BY DEF Init
  <2>5. QED BY <2>2, <2>3, <2>4 DEF TypeOK, CallType, ConnType
<1>3. ASSUME NEW c \in Calls
      PROVE  Sound(c)
  <2>1. OpenWhileReading(c) /\ Unserved(c)
    BY <1>1, FirstCommand DEF OpenWhileReading, Unserved, At
  <2>2. InHome(c) /\ ReplyTells(c)
    BY <1>1, RepliesDistinct DEF InHome, ReplyTells, At
  <2>3. AnsweredInTime(c)
    BY <1>1 DEF AnsweredInTime, At, Ended
  <2>4. QED BY <2>1, <2>2, <2>3 DEF Sound
<1>4. QED BY <1>2, <1>3 DEF QueueInv

LEMMA QueueNext == QueueInv /\ [Next]_vars => QueueInv'
<1> SUFFICES ASSUME QueueInv, [Next]_vars PROVE QueueInv'
  OBVIOUS
<1>1. ASSUME NEW c \in Calls,
             Connect(c) \/ Client(c) \/ Execute(c) \/ RefuseCommand(c) \/ Cut(c) \/ Discard(c)
      PROVE  QueueInv'
  BY <1>1, ConnectSound, ReadResponseSound, GiveUpSound, ExecuteSound, RefuseSound,
     NetworkSound DEF Client
<1>2. CASE Tick
  BY <1>2, TickSound
<1>3. CASE UNCHANGED vars
  <2>1. TypeOK'
    BY <1>3 DEF QueueInv, TypeOK, vars
  <2>2. ASSUME NEW c \in Calls
        PROVE  Sound(c)'
    <3>1. Sound(c) /\ UNCHANGED <<call, conn>>
      BY <1>3 DEF QueueInv, vars
    <3>2. OpenWhileReading(c)' /\ Unserved(c)'
      BY <3>1 DEF Sound, OpenWhileReading, Unserved, At, Command
    <3>3. InHome(c)' /\ ReplyTells(c)'
      BY <3>1 DEF Sound, InHome, ReplyTells, At, IsMain, Command
    <3>4. AnsweredInTime(c)'
      BY <3>1 DEF Sound, AnsweredInTime, At, Due, IsMain
    <3>5. QED BY <3>2, <3>3, <3>4 DEF Sound
  <2>3. QED BY <2>1, <2>2 DEF QueueInv
<1>4. QED BY <1>1, <1>2, <1>3 DEF Next

-----------------------------------------------------------------------------
(***************************************************************************)
(* The invariant holds in every reachable state.                           *)
(***************************************************************************)
LEMMA QueueInvariant == Spec => []QueueInv
BY InitSound, QueueNext, PTL DEF Spec

(***************************************************************************)
(* Every call, its connection and both lists keep their types: no item     *)
(* lands in a third database, and no wait outlasts the socket's time-out   *)
(* (_send_command).                                                        *)
(***************************************************************************)
THEOREM QueueTyped == Spec => []TypeOK
<1>1. QueueInv => TypeOK
  BY DEF QueueInv
<1>2. QED BY <1>1, QueueInvariant, PTL

(***************************************************************************)
(* A poll whose connection stayed up ends with the item Redis removed for  *)
(* it, or with none when Redis removed none, for any poll time-out and any *)
(* grace above the delay (dequeue_parse_job, _BLOCKING_READ_GRACE_SECONDS).*)
(***************************************************************************)
THEOREM HealthyPollLosesNothing == Spec => []NothingLostWhileHealthy
<1>1. QueueInv => NothingLostWhileHealthy
  BY DEF QueueInv, Sound, AnsweredInTime, NothingLostWhileHealthy, Calls
<1>2. QED BY <1>1, QueueInvariant, PTL

-----------------------------------------------------------------------------
(***************************************************************************)
(* The detailed queue implements the abstract one: every step of a client, *)
(* of Redis or of the network is a step of QueueService or changes nothing *)
(* QueueService sees.                                                      *)
(***************************************************************************)
Status == [c \in Calls |-> CallStatus(c)]
Moved  == [c \in Calls |-> conn[c].moved]

LEMMA CallLeaves ==
  ASSUME TypeOK, NEW c \in Calls, Elsewhere(c)
  PROVE  /\ Status' = [Status EXCEPT ![c] = CallStatus(c)']
         /\ Moved' = [Moved EXCEPT ![c] = conn'[c].moved]
<1>1. \A d \in Calls \ {c} : CallStatus(d)' = CallStatus(d) /\ conn'[d].moved = conn[d].moved
  BY DEF Elsewhere, CallStatus, At
<1>2. Status' = [Status EXCEPT ![c] = CallStatus(c)']
  BY <1>1 DEF Status
<1>3. QED BY <1>1, <1>2 DEF Moved

LEMMA EndLeaves ==
  ASSUME TypeOK, NEW c \in Calls, NEW pc \in Ended, NEW item, End(c, pc, item)
  PROVE  Status' = [Status EXCEPT ![c] = pc] /\ Moved' = Moved
<1>1. Elsewhere(c) /\ call'[c].pc = pc /\ conn'[c].moved = conn[c].moved
  BY DEF End, Elsewhere, TypeOK
<1>2. CallStatus(c)' = pc
  BY <1>1 DEF CallStatus, At, Ended
<1>3. Moved = [Moved EXCEPT ![c] = conn[c].moved]
  BY DEF Moved
<1>4. QED BY <1>1, <1>2, <1>3, CallLeaves

LEMMA WriteLeaves ==
  ASSUME TypeOK, NEW c \in Calls, NEW s, WriteCommand(c, s)
  PROVE  Status' = [Status EXCEPT ![c] = "busy"] /\ Moved' = Moved
<1>1. Elsewhere(c) /\ call'[c].pc = "reading" /\ conn'[c].moved = conn[c].moved
  BY DEF WriteCommand, Elsewhere, TypeOK
<1>2. CallStatus(c)' = "busy"
  BY <1>1 DEF CallStatus, At
<1>3. Moved = [Moved EXCEPT ![c] = conn[c].moved]
  BY DEF Moved
<1>4. QED BY <1>1, <1>2, <1>3, CallLeaves

LEMMA AnswerLeaves ==
  ASSUME TypeOK, NEW c \in Calls, NEW reply, NEW item, Answer(c, reply, item), UNCHANGED call
  PROVE  Status' = Status /\ Moved' = [Moved EXCEPT ![c] = item]
<1>1. Elsewhere(c) /\ conn'[c].moved = item
  BY DEF Answer, Elsewhere, TypeOK
<1>2. Status' = Status
  BY DEF Status, CallStatus, At
<1>3. QED BY <1>1, <1>2, CallLeaves

(* the mapped state, and what Service sees of it *)
LEMMA Mapped ==
  ASSUME NEW c \in Calls
  PROVE  /\ Status[c] = CallStatus(c) /\ Moved[c] = conn[c].moved
         /\ At(c, "reading") => Status[c] = "busy" /\ Status = [Status EXCEPT ![c] = "busy"]
         /\ At(c, "idle") => Status[c] = "idle"
         /\ At(c, "raised") => Status[c] = "raised"
BY DEF Status, Moved, CallStatus, At

Stutters == UNCHANGED <<lists[Home], Status, Moved>>

LEMMA ConnectMaps ==
  ASSUME QueueInv, NEW c \in Calls, Connect(c)
  PROVE  Service!Begin(c) \/ Service!Raise(c)
<1>1. TypeOK /\ UNCHANGED lists /\ Status[c] = "idle"
  BY Mapped DEF QueueInv, Connect
<1>2. CASE WriteCommand(c, 1)
  BY <1>1, <1>2, WriteLeaves DEF Service!Begin, Service!Go, Status, Moved
<1>3. CASE End(c, "raised", NoItem)
  BY <1>1, <1>3, EndLeaves DEF Service!Raise, Service!Go, Status, Moved, Ended
<1>4. QED BY <1>2, <1>3 DEF Connect

LEMMA ReadResponseMaps ==
  ASSUME QueueInv, NEW c \in Calls, ReadResponse(c)
  PROVE  \/ Service!Raise(c) \/ Service!Return(c)
         \/ c \in Polls /\ Service!ReturnNone(c)
         \/ Stutters
<1> DEFINE reply == conn[c].reply
<1>1. /\ TypeOK /\ UNCHANGED lists /\ At(c, "reading") /\ reply # "pending"
      /\ Status[c] = "busy" /\ Status = [Status EXCEPT ![c] = "busy"]
      /\ Moved[c] = conn[c].moved
  BY Mapped DEF QueueInv, ReadResponse
<1>2. CASE End(c, "raised", NoItem)
  BY <1>1, <1>2, EndLeaves DEF Service!Raise, Service!Go, Status, Moved, Ended
<1>3. CASE WriteCommand(c, call[c].step + 1)
  BY <1>1, <1>3, WriteLeaves DEF Stutters
<1>4. CASE /\ ~Raises(reply) /\ IsMain(c)
           /\ End(c, Outcome(reply), IF reply \in Pushes THEN reply ELSE NoItem)
  <2>1. CASE reply = "nil"
    <3>1. c \in Polls /\ Moved[c] = NoItem
      BY <1>1, <1>4, <2>1, Answered
    <3>2. Status' = [Status EXCEPT ![c] = "none"] /\ Moved' = Moved
      BY <1>1, <1>4, <2>1, EndLeaves DEF Outcome, Ended
    <3>3. QED BY <1>1, <3>1, <3>2 DEF Service!ReturnNone, Service!Go, Status, Moved
  <2>2. CASE reply # "nil"
    <3>1. Moved[c] # NoItem
      BY <1>1, <1>4, <2>2, Answered DEF Raises
    <3>2. Status' = [Status EXCEPT ![c] = "returned"] /\ Moved' = Moved
      BY <1>1, <1>4, <2>2, EndLeaves DEF Outcome, Ended
    <3>3. QED BY <1>1, <3>1, <3>2 DEF Service!Return, Service!Go, Status, Moved
  <2>3. QED BY <2>1, <2>2
<1>5. QED BY <1>2, <1>3, <1>4 DEF ReadResponse

LEMMA GiveUpMaps ==
  ASSUME QueueInv, NEW c \in Calls, ReadEndOfFile(c) \/ ReadTimeout(c)
  PROVE  Service!Raise(c)
<1>1. /\ TypeOK /\ UNCHANGED lists /\ Status[c] = "busy" /\ End(c, "raised", NoItem)
  BY Mapped DEF QueueInv, ReadEndOfFile, GiveUp, ReadTimeout
<1>2. QED BY <1>1, EndLeaves DEF Service!Raise, Service!Go, Status, Moved, Ended

LEMMA ExecuteMaps ==
  ASSUME QueueInv, NEW c \in Calls, Execute(c)
  PROVE  \/ c \in Pushes /\ Service!Put(c)
         \/ c \in Polls /\ Service!Take(c)
         \/ Stutters
<1>1. TypeOK /\ Sound(c) /\ lists \in [{"0", Home} -> Seq(Pushes)]
  BY DEF QueueInv, TypeOK
<1>2. conn[c].request # "none" => /\ Status[c] \in {"busy", "raised"} /\ Moved[c] = NoItem
                                  /\ conn[c].moved = NoItem
  BY <1>1, Mapped DEF Sound, Unserved
<1>3. conn[c].request \in {"RPUSH", "BLPOP"} =>
        conn[c].request = Main(c) /\ conn[c].database = Home
  BY <1>1 DEF Sound, Unserved
<1>4. Moved = [Moved EXCEPT ![c] = Moved[c]]
  BY DEF Moved
<1>5. CASE ExecuteAuth(c)
  BY <1>1, <1>2, <1>4, <1>5, AnswerLeaves DEF ExecuteAuth, Stutters
<1>6. CASE ExecuteSelect(c)
  <2>1. /\ Elsewhere(c) /\ conn'[c].moved = conn[c].moved /\ call' = call
        /\ UNCHANGED lists
    BY <1>1, <1>6 DEF ExecuteSelect, Elsewhere, TypeOK
  <2>2. Status' = Status /\ Moved' = Moved
    <3>1. Moved' = [Moved EXCEPT ![c] = conn[c].moved]
      BY <1>1, <2>1, CallLeaves
    <3>2. Status' = Status
      BY <2>1 DEF Status, CallStatus, At
    <3>3. QED BY <1>4, <3>1, <3>2, Mapped
  <2>3. QED BY <2>1, <2>2 DEF Stutters
<1>7. CASE ExecuteRpush(c)
  <2>1. c \in Pushes /\ conn[c].database = Home
    BY <1>3, <1>7 DEF ExecuteRpush, Main
  <2>2. Status' = Status /\ Moved' = [Moved EXCEPT ![c] = c]
    BY <1>1, <1>7, <2>1, AnswerLeaves DEF ExecuteRpush, Database
  <2>3. lists'[Home] = Append(lists[Home], c)
    BY <1>1, <1>7, <2>1 DEF ExecuteRpush, Database
  <2>4. Status[c] \in {"busy", "raised"} /\ Moved[c] = NoItem
    BY <1>2, <1>7 DEF ExecuteRpush
  <2>5. QED BY <2>1, <2>2, <2>3, <2>4 DEF Service!Put, Service!MayMove, Status, Moved
<1>8. CASE ExecuteBlpop(c)
  <2>1. c \in Polls /\ conn[c].database = Home
    BY <1>3, <1>8 DEF ExecuteBlpop, Main, Calls
  <2>2. Status' = Status /\ Moved' = [Moved EXCEPT ![c] = Head(lists[Home])]
    BY <1>1, <1>8, <2>1, AnswerLeaves DEF ExecuteBlpop, Database
  <2>3. lists[Home] # <<>> /\ lists'[Home] = Tail(lists[Home])
    BY <1>1, <1>8, <2>1 DEF ExecuteBlpop, Database
  <2>4. Status[c] \in {"busy", "raised"} /\ Moved[c] = NoItem
    BY <1>2, <1>8 DEF ExecuteBlpop
  <2>5. QED BY <2>1, <2>2, <2>3, <2>4 DEF Service!Take, Service!MayMove, Status, Moved
<1>9. CASE BlpopTimesOut(c)
  BY <1>1, <1>2, <1>4, <1>9, AnswerLeaves DEF BlpopTimesOut, Stutters
<1>10. QED BY <1>5, <1>6, <1>7, <1>8, <1>9 DEF Execute

LEMMA UnseenStutters ==
  ASSUME QueueInv,
         \/ \E c \in Calls : RefuseCommand(c) \/ Cut(c) \/ Discard(c)
         \/ Tick
         \/ UNCHANGED vars
  PROVE  Stutters
<1>1. TypeOK
  BY DEF QueueInv
<1>2. ASSUME NEW c \in Calls, RefuseCommand(c)
      PROVE  Stutters
  <2>1. Moved[c] = NoItem /\ UNCHANGED <<call, lists>> /\ Answer(c, "error", NoItem)
    BY <1>2, Mapped DEF RefuseCommand, QueueInv, Sound, Unserved
  <2>2. Moved = [Moved EXCEPT ![c] = Moved[c]]
    BY DEF Moved
  <2>3. QED BY <1>1, <2>1, <2>2, AnswerLeaves DEF Stutters
<1>3. ASSUME NEW c \in Calls, Cut(c) \/ Discard(c)
      PROVE  Stutters
  <2>1. /\ UNCHANGED <<call, lists>>
        /\ \A d \in Calls : conn'[d].moved = conn[d].moved
    <3>1. CASE Cut(c)
      BY <1>1, <3>1 DEF Cut, TypeOK
    <3>2. CASE Discard(c)
      BY <1>1, <3>2 DEF Discard, TypeOK
    <3>3. QED BY <1>3, <3>1, <3>2
  <2>2. QED BY <2>1 DEF Stutters, Status, Moved, CallStatus, At
<1>4. CASE Tick
  <2>1. UNCHANGED <<conn, lists>> /\ \A d \in Calls : call'[d].pc = call[d].pc
    BY <1>1, <1>4 DEF Tick, TypeOK
  <2>2. QED BY <2>1 DEF Stutters, Status, Moved, CallStatus, At
<1>5. CASE UNCHANGED vars
  BY <1>5 DEF vars, Stutters, Status, Moved, CallStatus, At
<1>6. QED BY <1>2, <1>3, <1>4, <1>5

LEMMA NextMaps == QueueInv /\ [Next]_vars => [Service!Next]_(Service!serviceVars)
<1> SUFFICES ASSUME QueueInv, [Next]_vars
             PROVE  [Service!Next]_(Service!serviceVars)
  OBVIOUS
<1>1. Stutters => UNCHANGED Service!serviceVars
  BY DEF Stutters, Service!serviceVars, Status, Moved
<1>2. ASSUME NEW c \in Calls,
             Connect(c) \/ Client(c) \/ Execute(c)
      PROVE  Service!Next \/ Stutters
  BY <1>2, ConnectMaps, ReadResponseMaps, GiveUpMaps, ExecuteMaps
  DEF Client, Service!Next, Service!Calls, Calls
<1>3. QED BY <1>1, <1>2, UnseenStutters DEF Next

(***************************************************************************)
(* RedisParseJobQueue is a first-in first-out queue: a call that returned  *)
(* had its one effect on the list of its own database, a poll returns the  *)
(* item it removed, and a call that raised had its effect at most once,    *)
(* with any interleaving of the calls and any faults.                      *)
(***************************************************************************)
THEOREM ImplementsService == Spec => ImplementsQueueService
<1>1. Init => Service!Init
  <2> SUFFICES ASSUME Init PROVE Service!Init
    OBVIOUS
  <2>1. \A c \in Calls : CallStatus(c) = "idle" /\ conn[c].moved = NoItem
    BY DEF Init, CallStatus, At
  <2>2. lists[Home] = <<>>
    BY DEF Init
  <2>3. QED BY <2>1, <2>2 DEF Service!Init, Service!Calls, Calls
<1>2. QED BY <1>1, NextMaps, QueueInvariant, PTL
          DEF Spec, ImplementsQueueService, Service!Spec

=============================================================================
