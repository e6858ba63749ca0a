----------------------------- MODULE RedisQueue -----------------------------
(***************************************************************************)
(* RedisParseJobQueue: each enqueue or dequeue opens a connection, sends   *)
(* AUTH and SELECT when the URL asks for them, then RPUSH or BLPOP, reads  *)
(* one reply to each command and closes the connection.                    *)
(*                                                                         *)
(* The client half translates _send_command, _write_command,               *)
(* _read_response and their two callers.  The server half is Redis as this *)
(* client uses it, and the network between them: a connection may be       *)
(* refused, be lost or go silent, and a command already sent may still     *)
(* take effect after its caller has given up.                              *)
(*                                                                         *)
(* Time is counted for dequeues only, the one call with a read time-out,   *)
(* from the moment a read begins.  Redis answers within Lag of the time it *)
(* owes the answer, unless the connection is silent.                       *)
(***************************************************************************)
EXTENDS Integers, Sequences

CONSTANTS
  Pushes, Polls,   \* calls of enqueue_parse_job and of dequeue_parse_job
  NoItem,
  WithPassword,    \* the URL names a password
  WithDatabase,    \* the URL names a database other than 0
  PollTimeout,     \* worker_poll_timeout_seconds
  Grace,           \* _BLOCKING_READ_GRACE_SECONDS
  Lag,             \* Redis and network delay
  Faults           \* what may go wrong

ASSUME CallsDistinct == Pushes \cap Polls = {} /\ NoItem \notin Pushes
(* an item is not an error, a status or a nil reply: RESP tells them apart *)
ASSUME RepliesDistinct == Pushes \cap {"pending", "ok", "error", "nil"} = {}
ASSUME SettingsType  == WithPassword \in BOOLEAN /\ WithDatabase \in BOOLEAN
(* validate_positive_worker_timeout: a zero would make BLPOP wait for ever *)
ASSUME TimesType     == /\ PollTimeout \in Nat \ {0}
                        /\ Grace \in Nat /\ Lag \in Nat /\ Lag < Grace
ASSUME FaultsType    == Faults \subseteq {"refuse", "lose", "silence", "error"}

VARIABLES
  call,    \* [Calls -> state of the client call]
  conn,    \* [Calls -> state of its connection and of the server's side of it]
  lists    \* the Redis list in the database the URL names and in database 0

vars == <<call, conn, lists>>

Calls == Pushes \cup Polls

-----------------------------------------------------------------------------
(***************************************************************************)
(* Client                                                                  *)
(***************************************************************************)
Ended   == {"returned", "none", "raised"}
CallPcs == {"idle", "reading"} \cup Ended

Commands(c) == (IF WithPassword THEN <<"AUTH">> ELSE <<>>)
            \o (IF WithDatabase THEN <<"SELECT">> ELSE <<>>)
            \o <<IF c \in Pushes THEN "RPUSH" ELSE "BLPOP">>

CommandNames == {"AUTH", "SELECT", "RPUSH", "BLPOP"}

IsMain(c)  == call[c].step = Len(Commands(c))

At(c, pc) == call[c].pc = pc

(* leaving the with block closes the socket, however the call ends; what   *)
(* was still to be read is gone                                            *)
End(c, pc, item) ==
  /\ call' = [call EXCEPT ![c] = [pc |-> pc, step |-> 1, waited |-> 0, item |-> item]]
  /\ conn' = [conn EXCEPT ![c].link = "closed", ![c].reply = "pending"]

(***************************************************************************)
(* _write_command, in one step with the connect or the read before it: a   *)
(* connection cut in between is one cut before the read or after the       *)
(* write.  On a lost connection the bytes go nowhere, or sendall raises.   *)
(***************************************************************************)
WriteCommand(c, step) ==
  /\ call' = [call EXCEPT ![c].pc = "reading", ![c].step = step, ![c].waited = 0]
  /\ conn' = [conn EXCEPT ![c].link = IF @ = "none" THEN "up" ELSE @,
                          ![c].request = IF conn[c].link = "lost" THEN "none"
                                         ELSE Commands(c)[step],
                          ![c].reply = "pending"]

(* socket.create_connection and, for rediss, the TLS handshake *)
Connect(c) ==
  /\ At(c, "idle")
  /\ \/ WriteCommand(c, 1)
     \/ "refuse" \in Faults /\ End(c, "raised", NoItem)
  /\ UNCHANGED lists

(* an error reply to any command, also to AUTH or SELECT, raises *)
NoReplyRaises(reply) == FALSE   \* deviant: the reply's kind is not looked at
Raises(reply)        == reply = "error"

(* what the reply to RPUSH or BLPOP makes the call return *)
AsReplied(reply) == reply   \* deviant
Outcome(reply) == IF reply = "nil" THEN "none" ELSE "returned"

ReadResponse(c) ==
  LET reply == conn[c].reply
  IN  /\ At(c, "reading")
      /\ reply # "pending" /\ conn[c].link \in {"up", "lost"}
      /\ \/ Raises(reply) /\ End(c, "raised", NoItem)
         \/ /\ ~Raises(reply) /\ ~IsMain(c)
            /\ \/ WriteCommand(c, call[c].step + 1)
               \/ conn[c].link = "lost" /\ End(c, "raised", NoItem)
         \/ /\ ~Raises(reply) /\ IsMain(c)
            /\ End(c, Outcome(reply), IF reply \in Pushes THEN reply ELSE NoItem)
      /\ UNCHANGED lists

(* end of file where a reply, or the rest of one, should be *)
ReadAgain(c)  == call' = call /\ conn' = conn   \* deviant: taken for no data yet
GiveUp(c)     == End(c, "raised", NoItem)

ReadEndOfFile(c) == /\ At(c, "reading") /\ conn[c].link = "lost"
                    /\ GiveUp(c)
                    /\ UNCHANGED lists

(* settimeout(read_timeout_seconds) for BLPOP, settimeout(None) for RPUSH *)
Never(c)       == FALSE                                         \* deviant
NoGraceFor(c)  == c \in Polls /\ call[c].waited >= PollTimeout  \* deviant
TimeoutFor(c)  == c \in Polls /\ call[c].waited >= PollTimeout + Grace

ReadTimeout(c) == /\ At(c, "reading") /\ TimeoutFor(c)
                  /\ End(c, "raised", NoItem)
                  /\ UNCHANGED lists

Client(c) == ReadResponse(c) \/ ReadEndOfFile(c) \/ ReadTimeout(c)

-----------------------------------------------------------------------------
(***************************************************************************)
(* Server and network                                                      *)
(***************************************************************************)
Links   == {"none", "up", "lost", "silent", "closed"}
Replies == {"pending", "ok", "error", "nil"} \cup Pushes

Home     == IF WithDatabase THEN "named" ELSE "0"
Database(c) == conn[c].database

Sent(c, reply) == IF conn[c].link = "up" THEN reply ELSE "pending"

Answer(c, reply, item) ==
  conn' = [conn EXCEPT ![c].request = "none", ![c].reply = Sent(c, reply),
                       ![c].moved = item]

ExecuteAuth(c) == /\ conn[c].request = "AUTH"
                  /\ Answer(c, "ok", NoItem)
                  /\ UNCHANGED <<call, lists>>

ExecuteSelect(c) ==
  /\ conn[c].request = "SELECT"
  /\ conn' = [conn EXCEPT ![c].request = "none", ![c].reply = Sent(c, "ok"),
                          ![c].database = "named"]
  /\ UNCHANGED <<call, lists>>

ExecuteRpush(c) ==
  /\ conn[c].request = "RPUSH"
  /\ lists' = [lists EXCEPT ![Database(c)] = Append(@, c)]
  /\ Answer(c, "ok", IF Database(c) = Home THEN c ELSE NoItem)
  /\ UNCHANGED call

(* BLPOP waits on an empty list until an item comes or its time is up *)
ExecuteBlpop(c) ==
  /\ conn[c].request = "BLPOP" /\ lists[Database(c)] # <<>>
  /\ lists' = [lists EXCEPT ![Database(c)] = Tail(@)]
  /\ Answer(c, Head(lists[Database(c)]), Head(lists[Database(c)]))
  /\ UNCHANGED call

BlpopTimesOut(c) ==
  /\ conn[c].request = "BLPOP" /\ lists[Database(c)] = <<>>
  /\ call[c].waited >= PollTimeout
  /\ Answer(c, "nil", NoItem)
  /\ UNCHANGED <<call, lists>>

Execute(c) == \/ ExecuteAuth(c) \/ ExecuteSelect(c) \/ ExecuteRpush(c)
              \/ ExecuteBlpop(c) \/ BlpopTimesOut(c)

(* wrong password, no such database, out of memory: no effect *)
RefuseCommand(c) == /\ "error" \in Faults
                    /\ conn[c].request # "none"
                    /\ Answer(c, "error", NoItem)
                    /\ UNCHANGED <<call, lists>>

Cut(c) == /\ conn[c].link = "up"
          /\ \E how \in {"lost", "silent"} :
               /\ (how = "lost" => "lose" \in Faults)
               /\ (how = "silent" => "silence" \in Faults)
               /\ conn' = [conn EXCEPT ![c].link = how, ![c].cut = TRUE]
          /\ UNCHANGED <<call, lists>>

(* what was sent on a connection that is no longer up may never arrive *)
Discard(c) == /\ conn[c].link \in {"lost", "silent", "closed"}
              /\ conn[c].request # "none"
              /\ conn' = [conn EXCEPT ![c].request = "none"]
              /\ UNCHANGED <<call, lists>>

(* Redis owes a poll its answer by then, one Lag included *)
Due(c) == IF IsMain(c) THEN PollTimeout + Lag ELSE Lag

Tick ==
  LET waiting == {c \in Polls : At(c, "reading")}
  IN  /\ \A c \in waiting : conn[c].link = "up" => call[c].waited < Due(c)
      /\ \E c \in waiting : call[c].waited < PollTimeout + Grace
      /\ call' = [c \in Calls |->
                    IF c \in waiting /\ call[c].waited < PollTimeout + Grace
                    THEN [call[c] EXCEPT !.waited = @ + 1] ELSE call[c]]
      /\ UNCHANGED <<conn, lists>>

-----------------------------------------------------------------------------
Init ==
  /\ call = [c \in Calls |-> [pc |-> "idle", step |-> 1, waited |-> 0, item |-> NoItem]]
  /\ conn = [c \in Calls |-> [link |-> "none", request |-> "none", reply |-> "pending",
                              database |-> "0", moved |-> NoItem, cut |-> FALSE]]
  /\ lists = [d \in {"0", Home} |-> <<>>]

Next == \/ \E c \in Calls : \/ Connect(c) \/ Client(c) \/ Execute(c)
                            \/ RefuseCommand(c) \/ Cut(c) \/ Discard(c)
        \/ Tick

Spec == Init /\ [][Next]_vars

(***************************************************************************)
(* The code between two socket operations runs, Redis serves the clients   *)
(* it can reach, time passes.  Nothing obliges anyone to call.             *)
(***************************************************************************)
FairSpec == /\ Spec
            /\ \A c \in Calls : /\ WF_vars(Client(c))
                                /\ WF_vars(Execute(c) /\ conn[c].link = "up")
            /\ WF_vars(Tick)

-----------------------------------------------------------------------------
TypeOK ==
  /\ call \in [Calls -> [pc : CallPcs, step : 1..3, waited : 0..(PollTimeout + Grace),
                         item : Pushes \cup {NoItem}]]
  /\ conn \in [Calls -> [link : Links, request : CommandNames \cup {"none"},
                         reply : Replies, database : {"0", Home},
                         moved : Pushes \cup {NoItem}, cut : BOOLEAN]]
  /\ lists \in [{"0", Home} -> Seq(Pushes)]

(***************************************************************************)
(* A call that returned did on the list of its own database what it says,  *)
(* once, and a poll returns exactly the item it removed, in the order the  *)
(* items were pushed (enqueue_parse_job, dequeue_parse_job).               *)
(***************************************************************************)
CallStatus(c) == IF At(c, "reading") THEN "busy" ELSE call[c].pc

Service == INSTANCE QueueService
             WITH items <- lists[Home],
                  status <- [c \in Calls |-> CallStatus(c)],
                  moved <- [c \in Calls |-> conn[c].moved]

ImplementsQueueService == Service!Spec

(***************************************************************************)
(* A poll whose connection stayed up never loses the item Redis removed    *)
(* for it: Redis's own time-out comes before the socket's, for Redis's     *)
(* last-moment answers too (_BLOCKING_READ_GRACE_SECONDS).                 *)
(***************************************************************************)
NothingLostWhileHealthy ==
  \A c \in Polls : call[c].pc \in Ended /\ ~conn[c].cut => call[c].item = conn[c].moved

(***************************************************************************)
(* A poll ends whatever happens to its connection, so a silent Redis never *)
(* stops a worker for good.                                                *)
(***************************************************************************)
DequeueEnds == \A c \in Polls : ~At(c, "idle") ~> call[c].pc \in Ended

(***************************************************************************)
(* A push ends unless its connection goes silent; then it does not, for it *)
(* has no read time-out, and with it waits the upload request.             *)
(***************************************************************************)
PushEndsUnlessSilent ==
  \A c \in Pushes : ~At(c, "idle") ~> call[c].pc \in Ended \/ conn[c].link = "silent"
=============================================================================
