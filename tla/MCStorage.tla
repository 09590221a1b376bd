----------------------------- MODULE MCStorage -----------------------------
(* Small instances of Storage. *)
EXTENDS Storage

\* Keys that go to the second of two shards, and to the only one of one
MCHashOf == [key \in Key |-> 5]
=============================================================================
