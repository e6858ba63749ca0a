---------------------------- MODULE QueueService ----------------------------
(***************************************************************************)
(* What the parse job queue promises its callers, whatever stands behind   *)
(* it: a first-in first-out list on which every call has one effect at     *)
(* most.  A call that returned has had its effect.  A call that raised may *)
(* have had it, or may still have it later: the caller cannot tell.        *)
(***************************************************************************)
EXTENDS Sequences

CONSTANTS Pushes,   \* calls of enqueue_parse_job; each pushes an item of its own
          Polls,    \* calls of dequeue_parse_job
          NoItem

VARIABLES items,    \* the queue, oldest first
          status,   \* [Calls -> where the call is]
          moved     \* [Calls -> item it put in or took out, NoItem before]

Calls == Pushes \cup Polls

serviceVars == <<items, status, moved>>

Init == /\ items = <<>>
        /\ status = [c \in Calls |-> "idle"]
        /\ moved = [c \in Calls |-> NoItem]

Go(c, from, to) == status[c] = from /\ status' = [status EXCEPT ![c] = to]

Begin(c) == Go(c, "idle", "busy") /\ UNCHANGED <<items, moved>>

(* the one effect of a call: not before it began, perhaps after it raised *)
MayMove(c) == status[c] \in {"busy", "raised"} /\ moved[c] = NoItem

Put(c) == /\ MayMove(c)
          /\ items' = Append(items, c)
          /\ moved' = [moved EXCEPT ![c] = c]
          /\ UNCHANGED status

Take(c) == /\ MayMove(c) /\ items # <<>>
           /\ items' = Tail(items)
           /\ moved' = [moved EXCEPT ![c] = Head(items)]
           /\ UNCHANGED status

(* a call returns what it moved; only a poll may return empty-handed *)
Return(c) == /\ moved[c] # NoItem
             /\ Go(c, "busy", "returned")
             /\ UNCHANGED <<items, moved>>

ReturnNone(c) == /\ moved[c] = NoItem
                 /\ Go(c, "busy", "none")
                 /\ UNCHANGED <<items, moved>>

(* at the door, or later *)
Raise(c) == /\ Go(c, "idle", "raised") \/ Go(c, "busy", "raised")
            /\ UNCHANGED <<items, moved>>

Next == \/ \E c \in Calls : Begin(c) \/ Return(c) \/ Raise(c)
        \/ \E c \in Pushes : Put(c)
        \/ \E c \in Polls : Take(c) \/ ReturnNone(c)

Spec == Init /\ [][Next]_serviceVars
=============================================================================
