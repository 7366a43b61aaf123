--------------------------- MODULE SerialService ----------------------------
(***************************************************************************)
(* What aesdsocket amounts to, whatever its threads do: a server that has  *)
(* one client at a time and, once it has stopped, takes no more.           *)
(***************************************************************************)
CONSTANTS Clients, Nobody

VARIABLES serving, up

Init == serving = Nobody /\ up = TRUE

Begin(c) == up /\ serving = Nobody /\ serving' = c /\ UNCHANGED up

End == up /\ serving' = Nobody /\ UNCHANGED up

Stop == up /\ up' = FALSE /\ UNCHANGED serving

Next == (\E c \in Clients : Begin(c)) \/ End \/ Stop

Spec == Init /\ [][Next]_<<serving, up>>
=============================================================================
