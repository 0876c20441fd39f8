----------------------------- MODULE MCDelivery -----------------------------
(***************************************************************************)
(* A small instance of Delivery: a batch that ingestion refuses, one that  *)
(* repeats observations, and one that repeats some of these once more.     *)
(***************************************************************************)
EXTENDS Delivery, MCCollector

Unfit == <<Seen(a, t1), [icao24 |-> b, last_contact |-> t1, fits |-> FALSE]>>

Delivered == <<Answer(Unfit), Answer(First), Answer(Again)>>
=============================================================================
