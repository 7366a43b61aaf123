----------------------------- MODULE PacketLog ------------------------------
(***************************************************************************)
(* What the aesdchar device promises the programs that write to it: the    *)
(* bytes of all writers form one stream in the order their writes were     *)
(* accepted, the stream is cut into packets behind a newline, and the last *)
(* Capacity packets are kept, whole, in order and byte for byte.  Bytes    *)
(* are numbered as they are accepted.                                      *)
(***************************************************************************)
EXTENDS Naturals, Sequences

CONSTANTS
    Capacity,
    MaxWrite    \* the most bytes one write offers

VARIABLES
    packets,    \* complete packets, oldest first
    pending,    \* the bytes behind the last newline
    accepted    \* how many bytes were ever accepted

vars == <<packets, pending, accepted>>

Fresh(n) == [i \in 1 .. n |-> accepted + i]

Push(l, p) == IF Len(l) < Capacity THEN Append(l, p) ELSE Append(Tail(l), p)

Init == packets = << >> /\ pending = << >> /\ accepted = 0

\* n bytes are accepted, none of them the end of a packet.
Accept(n) ==
    /\ pending' = pending \o Fresh(n)
    /\ accepted' = accepted + n
    /\ UNCHANGED packets

\* n bytes are accepted and the last byte of the stream is a newline.
Complete(n) ==
    /\ packets' = Push(packets, pending \o Fresh(n))
    /\ pending' = << >>
    /\ accepted' = accepted + n

\* The module is removed, and all it kept with it.
Forget ==
    /\ packets' = << >>
    /\ pending' = << >>
    /\ UNCHANGED accepted

Unwritten == 0

\* A write finds no memory: the bytes behind the last newline are lost and
\* their number is not, so the next packet begins with as many that nobody wrote.
Lose ==
    /\ pending' = [i \in DOMAIN pending |-> Unwritten]
    /\ UNCHANGED <<packets, accepted>>

Next == (\E n \in 0 .. MaxWrite : Accept(n) \/ Complete(n)) \/ Lose \/ Forget

Spec == Init /\ [][Next]_vars
=============================================================================
