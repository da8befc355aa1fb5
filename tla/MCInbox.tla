------------------------------- MODULE MCInbox -------------------------------
(* Model checking of Inbox: one waiter wants two of the calls, one wants   *)
(* any caller (an empty number matches every call), one wants a single     *)
(* caller.                                                                 *)
EXTENDS Inbox

CONSTANTS c1, c2, c3, w1, w2, w3

MCWanted == (w1 :> {c1, c2}) @@ (w2 :> {c1, c2, c3}) @@ (w3 :> {c3})
=============================================================================
