----------------------------- MODULE MC_CdiLayout -----------------------------
(* Every segment of up to four elements: names, ints with and without      *)
(* size and offset, eventids, and groups with and without offset and       *)
(* replication, nested in every document order.                            *)
EXTENDS CdiLayout
=============================================================================
