----------------------------- MODULE MCCollector -----------------------------
(***************************************************************************)
(* A small instance of Collector, whose polls bring each kind of response. *)
(***************************************************************************)
EXTENDS Collector, TLC

CONSTANTS a, b, t1, t2

Seen(icao24, time) == [icao24 |-> icao24, last_contact |-> time, fits |-> TRUE]

\* An observation twice, an aircraft without a time twice, one without a name, and
\* an aircraft at two times; then some of it again.
First == <<Seen(a, t1), Seen(a, t1), Seen(b, None), Seen(None, t1), Seen(b, None), Seen(a, t2)>>
Again == <<Seen(a, t2), Seen(b, None)>>

Answer(states) == [readable |-> TRUE, states |-> states]
Unreadable == [readable |-> FALSE, states |-> <<>>]

Polled == <<Answer(First), Unreadable, Answer(<<>>), Answer(Again)>>
=============================================================================
