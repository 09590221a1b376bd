---------------------------- MODULE Attestation ----------------------------
(***************************************************************************)
(* The path of an output hash to the chain: Attestor::sign and the stub    *)
(* SolanaAttestor::submit of kernelflow-attest, and the Anchor program     *)
(* that keeps one account per workflow.                                    *)
(*                                                                         *)
(* Several operators attest the same workflows, possibly to different      *)
(* hashes (a node that fetches prices is not deterministic).  Nothing in   *)
(* the repository sends the transactions yet; they are what a client of    *)
(* the program sends.  Transactions wait in a pool, are executed in any    *)
(* order or get lost, and a client that hears nothing sends them again.    *)
(* Timestamps are left out.                                                *)
(***************************************************************************)
EXTENDS Integers, Sequences, FiniteSets

CONSTANTS
  Operator,     \* the holders of signing keys
  Workflow,     \* workflow ids
  OutputHash,
  NoRecord,
  MaxSends      \* bound: transactions sent

ASSUME AttestationAssumption ==
  /\ MaxSends \in Nat
  /\ NoRecord \notin [workflow_id : Workflow, output_hash : OutputHash, signer : Operator]

VARIABLES
  attestations, \* everything signed
  receipt,      \* what SolanaAttestor::submit returned last
  pool,         \* transactions on their way to the program
  sends,        \* how many were sent
  accounts,     \* the program's accounts by address
  emitted,      \* the program's AttestationStored events
  refused       \* transactions that failed

vars == <<attestations, receipt, pool, sends, accounts, emitted, refused>>
chain == <<accounts, emitted, refused>>

Record == [workflow_id : Workflow, output_hash : OutputHash, signer : Operator]

\* ed25519 over "{workflow_id}|{output_hash}", which determines both
Signature(key, w, h) == [key |-> key, workflow_id |-> w, output_hash |-> h]
Attestations == [workflow_id : Workflow, output_hash : OutputHash, signer : Operator,
                 signature : [key : Operator, workflow_id : Workflow, output_hash : OutputHash]]

\* Mutant: one account for all workflows
PdaConstant(w) == <<"att">>

\* seeds = [b"att", workflow_id]
Pda(w) == <<"att", w>>
Address == {Pda(w) : w \in Workflow}

Init ==
  /\ attestations = {}
  /\ receipt = "none"
  /\ pool = {}
  /\ sends = 0
  /\ accounts = [a \in Address |-> NoRecord]
  /\ emitted = << >>
  /\ refused = {}
-----------------------------------------------------------------------------
\* Attestor::sign, when an operator has run a workflow; it runs each one once
Sign(o, w, h) ==
  /\ \A att \in attestations : <<att.signer, att.workflow_id>> # <<o, w>>
  /\ attestations' = attestations \cup
       {[workflow_id |-> w, output_hash |-> h, signer |-> o, signature |-> Signature(o, w, h)]}
  /\ UNCHANGED <<receipt, pool, sends, chain>>

\* SolanaAttestor::submit: a health check of the RPC node.  Nothing reaches the
\* program; Ok carries a made-up transaction id.
Submit(att, answer) ==
  /\ att \in attestations
  /\ receipt' = answer
  /\ UNCHANGED <<attestations, pool, sends, chain>>

\* A client sends the transaction for an attestation it holds, again if need be.
\* The program takes the workflow id and the hash, not the signature.
Send(att) ==
  /\ att \in attestations
  /\ sends < MaxSends
  /\ sends' = sends + 1
  /\ pool' = pool \cup {[workflow_id |-> att.workflow_id, output_hash |-> att.output_hash, signer |-> att.signer]}
  /\ UNCHANGED <<attestations, receipt, chain>>

\* A transaction expires
Lose(tx) ==
  /\ tx \in pool
  /\ pool' = pool \ {tx}
  /\ UNCHANGED <<attestations, receipt, sends, chain>>

\* Mutant: init_if_needed for init
CanInitAlways(w) == TRUE

\* The `init` constraint: the account must not exist
CanInit(w) == accounts[Pda(w)] = NoRecord

\* submit_attestation: `init` fails the transaction when the account exists;
\* otherwise the account is filled in and the event emitted
SubmitAttestation(tx) ==
  /\ tx \in pool
  /\ pool' = pool \ {tx}
  /\ IF CanInit(tx.workflow_id)
     THEN /\ accounts' = [accounts EXCEPT ![Pda(tx.workflow_id)] = tx]
          /\ emitted' = Append(emitted, tx)
          /\ UNCHANGED refused
     ELSE /\ refused' = refused \cup {tx}
          /\ UNCHANGED <<accounts, emitted>>
  /\ UNCHANGED <<attestations, receipt, sends>>

Next ==
  \/ \E o \in Operator, w \in Workflow, h \in OutputHash : Sign(o, w, h)
  \/ \E att \in attestations : Send(att) \/ \E answer \in {"simulated", "err"} : Submit(att, answer)
  \/ \E tx \in pool : Lose(tx) \/ SubmitAttestation(tx)

Spec == Init /\ [][Next]_vars
-----------------------------------------------------------------------------
\* Type correctness.  Every signature verifies under the public key in the same
\* attestation and covers its workflow and hash (test sign_verify_roundtrip).
TypeOK ==
  /\ attestations \subseteq Attestations
  /\ \A att \in attestations : att.signature = Signature(att.signer, att.workflow_id, att.output_hash)
  /\ receipt \in {"none", "simulated", "err"}
  /\ pool \subseteq Record
  /\ accounts \in [Address -> Record \cup {NoRecord}]
  /\ emitted \in Seq(Record)
  /\ refused \subseteq Record

\* The first attestation of a workflow stands, and an indexer can rebuild the
\* accounts from the events: the events emitted so far are the records, each
\* once, although transactions are repeated, reordered and refused, and other
\* operators attest another hash.
EventsAreRecords ==
  /\ \A i \in DOMAIN emitted : accounts[Pda(emitted[i].workflow_id)] = emitted[i]
  /\ Len(emitted) = Cardinality({a \in Address : accounts[a] # NoRecord})

\* Workflows do not get into each other's way: a transaction fails only if its
\* own workflow has a record, the operator's own or another one's.
RefusedOnlyIfRecorded ==
  \A tx \in refused :
    accounts[Pda(tx.workflow_id)] # NoRecord /\ accounts[Pda(tx.workflow_id)].workflow_id = tx.workflow_id
=============================================================================
