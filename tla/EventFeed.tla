----------------------------- MODULE EventFeed -----------------------------
(***************************************************************************)
(* What the binlog service promises: a feed of the database server's rows  *)
(* that is durable.  Rows are handed out without gaps, some of them again  *)
(* after a restart, and a position is saved only when all rows up to it    *)
(* have been handed out.  Until the first position is saved the feed may   *)
(* begin anew at the server's own position and give up what it missed;     *)
(* from then on only a position that another node vouches for lets rows    *)
(* go.  Nothing is said of goroutines, signals, canals, status bits,       *)
(* crashes or shutdown: Binlog is shown to implement this.                 *)
(***************************************************************************)
EXTENDS Integers

CONSTANTS
    LastEvent,     \* number of events the database server ever writes
    RowCount,      \* RowCount[e]: rows of event e
    BadRows,       \* rows that cannot be encoded, and are left out
    Vouched        \* positions that other nodes may vouch for

VARIABLES
    head,          \* events written by the database server so far
    base,          \* where the feed first began, 0 before that, or a vouched position
    anew,          \* where it last began anew, 0 if it never did
    sent,          \* rows handed out
    mark           \* the saved position, which a restart resumes from, 0 if none

vars == <<head, base, anew, sent, mark>>

\* The first n rows of event e are handed out.
RowsSent(e, n) == \A r \in 1..n : <<e, r>> \in sent \cup BadRows

\* Every row of the feed up to position p is handed out.
SentUpTo(p) ==
    \A e \in 1..LastEvent :
        base < e /\ anew < e /\ e <= p => RowsSent(e, RowCount[e])

Init == head = 1 /\ base = 0 /\ anew = 0 /\ sent = {} /\ mark = 0

\* The server writes an event.
Publish ==
    /\ head < LastEvent
    /\ head' = head + 1
    /\ UNCHANGED <<base, anew, sent, mark>>

\* The feed begins, once, at the server's own position.
Start ==
    /\ base = 0 /\ mark = 0
    /\ base' = head
    /\ UNCHANGED <<head, anew, sent, mark>>

\* It begins anew there, which it may only as long as nothing was ever saved.
StartAnew ==
    /\ base # 0 /\ mark = 0
    /\ anew' = head
    /\ UNCHANGED <<head, base, sent, mark>>

\* Another node vouches for the rows up to a position.
Vouch(p) ==
    /\ base # 0 /\ base < p /\ p <= head
    /\ base' = p
    /\ UNCHANGED <<head, anew, sent, mark>>

\* A row is handed out, for the first time or again, after all rows before it.
Send(e, r) ==
    /\ base # 0 /\ e <= head /\ r <= RowCount[e]
    /\ SentUpTo(e - 1) /\ RowsSent(e, r - 1)
    /\ sent' = sent \cup {<<e, r>>}
    /\ UNCHANGED <<head, base, anew, mark>>

\* A position is saved, for good: it may be replaced but not withdrawn.
Save(p) ==
    /\ base # 0 /\ SentUpTo(p)
    /\ mark' = p
    /\ UNCHANGED <<head, base, anew, sent>>

Next ==
    \/ Publish \/ Start \/ StartAnew
    \/ \E p \in Vouched : Vouch(p)
    \/ \E p \in 1..head : Save(p)
    \/ \E e \in 1..LastEvent : \E r \in 1..RowCount[e] : Send(e, r)

Spec == Init /\ [][Next]_vars
=============================================================================
