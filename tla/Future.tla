------------------------------- MODULE Future -------------------------------
(***************************************************************************)
(* What an awaitable promises to the coroutine that awaits it: the value   *)
(* settles once and stays settled, and the coroutine goes on once, and     *)
(* only after the value has settled.                                       *)
(***************************************************************************)
VARIABLES settled,      \* the value is there
          waiter        \* the awaiting coroutine

Waiters == {"absent", "waiting", "resumed"}

Init == settled = FALSE /\ waiter = "absent"

Settle == ~settled /\ settled' = TRUE /\ UNCHANGED waiter

Wait == waiter = "absent" /\ waiter' = "waiting" /\ UNCHANGED settled

Resume ==
    /\ settled
    /\ waiter \in {"absent", "waiting"}
    /\ waiter' = "resumed"
    /\ UNCHANGED settled

Next == Settle \/ Wait \/ Resume

Spec == Init /\ [][Next]_<<settled, waiter>>
=============================================================================
