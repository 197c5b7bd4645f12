------------------------------- MODULE TrapSend -------------------------------
(***************************************************************************)
(* What sending a trap promises, whatever the transport.  An invocation    *)
(* fixes a limit on its failed attempts, then either refuses before any    *)
(* attempt, or tries until one attempt is accepted or the limit is spent.  *)
(* Delivery is at most once per attempt: a failed attempt may have reached *)
(* the wire all the same.                                                  *)
(***************************************************************************)
EXTENDS Naturals

CONSTANTS Proc,       \* the invocations
          Limit       \* the limits an invocation may have on its failures

VARIABLES status,     \* "idle", "trying", "sent", "refused" or "gave up"
          limit,      \* failed attempts allowed, fixed by Begin
          failed,     \* failed attempts so far
          copies      \* datagrams of this invocation on the wire

vars == <<status, limit, failed, copies>>

Init == /\ status = [p \in Proc |-> "idle"]
        /\ limit  = [p \in Proc |-> 0]
        /\ failed = [p \in Proc |-> 0]
        /\ copies = [p \in Proc |-> 0]

Begin(p) ==
    /\ status[p] = "idle"
    /\ status' = [status EXCEPT ![p] = "trying"]
    /\ \E n \in Limit : limit' = [limit EXCEPT ![p] = n]
    /\ UNCHANGED <<failed, copies>>

Refuse(p) ==
    /\ status[p] = "trying" /\ failed[p] = 0
    /\ status' = [status EXCEPT ![p] = "refused"]
    /\ UNCHANGED <<limit, failed, copies>>

Accepted(p) ==
    /\ status[p] = "trying" /\ failed[p] < limit[p]
    /\ status' = [status EXCEPT ![p] = "sent"]
    /\ copies' = [copies EXCEPT ![p] = @ + 1]
    /\ UNCHANGED <<limit, failed>>

Rejected(p) ==
    /\ status[p] = "trying" /\ failed[p] < limit[p]
    /\ failed' = [failed EXCEPT ![p] = @ + 1]
    /\ \E n \in {0, 1} : copies' = [copies EXCEPT ![p] = @ + n]
    /\ UNCHANGED <<status, limit>>

GiveUp(p) ==
    /\ status[p] = "trying" /\ failed[p] = limit[p]
    /\ status' = [status EXCEPT ![p] = "gave up"]
    /\ UNCHANGED <<limit, failed, copies>>

Next == \E p \in Proc :
            Begin(p) \/ Refuse(p) \/ Accepted(p) \/ Rejected(p) \/ GiveUp(p)

Spec == Init /\ [][Next]_vars
===============================================================================
