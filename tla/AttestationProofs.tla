------------------------- MODULE AttestationProofs -------------------------
(***************************************************************************)
(* What operators and indexers may rely on, for any operators, workflows   *)
(* and hashes and any number of transactions: the first record of a        *)
(* workflow stands, and the events are the records.                        *)
(***************************************************************************)
EXTENDS Attestation, FiniteSetTheorems, TLAPS

Recorded == {a \in Address : accounts[a] # NoRecord}

\* An account belongs to the workflow its address is derived from, and there
\* are finitely many
AccountInv ==
  /\ IsFiniteSet(Recorded)
  /\ \A w \in Workflow : accounts[Pda(w)] # NoRecord => accounts[Pda(w)].workflow_id = w

ChainInv == TypeOK /\ AccountInv /\ EventsAreRecords /\ RefusedOnlyIfRecorded

LEMMA InitChain == Init => ChainInv
  <1> SUFFICES ASSUME Init PROVE ChainInv
    OBVIOUS
  <1>1. Recorded = {} /\ DOMAIN emitted = {} /\ Len(emitted) = 0
    BY DEF Init, Recorded
  <1>2. IsFiniteSet({}) /\ Cardinality({}) = 0
    BY FS_EmptySet
  <1>3. AccountInv
    BY <1>1, <1>2 DEF Init, AccountInv, Address
  <1>4. EventsAreRecords
    BY <1>1, <1>2 DEF EventsAreRecords, Recorded
  <1> QED  BY <1>3, <1>4 DEF Init, ChainInv, TypeOK, RefusedOnlyIfRecorded

\* Steps that do not reach the program leave the chain as it is
LEMMA OffChain ==
  ASSUME ChainInv, TypeOK', UNCHANGED chain
  PROVE  ChainInv'
  <1>1. Recorded' = Recorded
    BY DEF chain, Recorded
  <1>2. AccountInv'
    BY <1>1 DEF ChainInv, AccountInv, chain
  <1>3. EventsAreRecords' /\ RefusedOnlyIfRecorded'
    BY DEF ChainInv, EventsAreRecords, RefusedOnlyIfRecorded, chain
  <1> QED  BY <1>2, <1>3 DEF ChainInv

\* A transaction that finds the account free creates it and emits its event
LEMMA Stored ==
  ASSUME ChainInv, NEW tx \in Record, CanInit(tx.workflow_id), TypeOK',
         accounts' = [accounts EXCEPT ![Pda(tx.workflow_id)] = tx],
         emitted' = Append(emitted, tx), UNCHANGED refused
  PROVE  ChainInv'
  <1> DEFINE a == Pda(tx.workflow_id)
  <1>1. tx.workflow_id \in Workflow /\ a \in Address /\ tx # NoRecord /\ accounts[a] = NoRecord
    BY AttestationAssumption DEF Record, Address, CanInit
  <1>2. /\ accounts \in [Address -> Record \cup {NoRecord}] /\ emitted \in Seq(Record)
        /\ refused \subseteq Record
    BY DEF ChainInv, TypeOK
  <1>3. accounts'[a] = tx /\ \A b \in Address : b # a => accounts'[b] = accounts[b]
    BY <1>1, <1>2
  <1>4. Recorded' = Recorded \cup {a} /\ a \notin Recorded
    BY <1>1, <1>3 DEF Recorded
  <1>5. IsFiniteSet(Recorded') /\ Cardinality(Recorded') = Cardinality(Recorded) + 1
    BY <1>4, FS_AddElement DEF ChainInv, AccountInv
  <1>6. \A w \in Workflow : Pda(w) \in Address /\ (Pda(w) = a => w = tx.workflow_id)
    BY DEF Pda, Address
  <1>7. \A w \in Workflow : accounts'[Pda(w)] # NoRecord => accounts'[Pda(w)].workflow_id = w
    BY <1>3, <1>6 DEF ChainInv, AccountInv
  <1>8. EventsAreRecords'
    <2>1. Len(emitted') = Cardinality(Recorded')
      BY <1>2, <1>5 DEF ChainInv, EventsAreRecords, Recorded
    <2>2. ASSUME NEW i \in DOMAIN emitted' PROVE accounts'[Pda(emitted'[i].workflow_id)] = emitted'[i]
      <3>1. CASE i = Len(emitted) + 1
        <4>1. emitted'[i] = tx
          BY <1>2, <3>1
        <4> QED  BY <1>3, <4>1
      <3>2. CASE i # Len(emitted) + 1
        <4>1. i \in DOMAIN emitted /\ emitted'[i] = emitted[i] /\ emitted[i] \in Record
          BY <1>2, <2>2, <3>2
        <4>2. accounts[Pda(emitted[i].workflow_id)] = emitted[i] /\ emitted[i] # NoRecord
          BY <4>1, AttestationAssumption DEF ChainInv, EventsAreRecords, Record
        <4>3. emitted[i].workflow_id \in Workflow /\ Pda(emitted[i].workflow_id) # a
          BY <1>1, <4>1, <4>2 DEF Record
        <4> QED  BY <1>3, <1>6, <4>1, <4>2, <4>3
      <3> QED  BY <3>1, <3>2
    <2> QED  BY <2>1, <2>2 DEF EventsAreRecords, Recorded
  <1>9. RefusedOnlyIfRecorded'
    <2> SUFFICES ASSUME NEW t \in refused
                 PROVE  accounts'[Pda(t.workflow_id)] # NoRecord /\ accounts'[Pda(t.workflow_id)].workflow_id = t.workflow_id
      BY DEF RefusedOnlyIfRecorded
    <2>1. t.workflow_id \in Workflow
      BY <1>2 DEF Record
    <2>2. accounts[Pda(t.workflow_id)] # NoRecord
      BY DEF ChainInv, RefusedOnlyIfRecorded
    <2> QED  BY <1>1, <1>3, <1>6, <1>7, <2>1, <2>2
  <1> QED  BY <1>5, <1>7, <1>8, <1>9 DEF ChainInv, AccountInv

\* A transaction that finds a record is refused, and changes nothing else
LEMMA Refused ==
  ASSUME ChainInv, NEW tx \in Record, ~CanInit(tx.workflow_id), TypeOK',
         UNCHANGED <<accounts, emitted>>, refused' = refused \cup {tx}
  PROVE  ChainInv'
  <1>1. Recorded' = Recorded
    BY DEF Recorded
  <1>2. AccountInv' /\ EventsAreRecords'
    BY <1>1 DEF ChainInv, AccountInv, EventsAreRecords
  <1>3. tx.workflow_id \in Workflow /\ accounts[Pda(tx.workflow_id)] # NoRecord
    BY DEF Record, CanInit
  <1>4. RefusedOnlyIfRecorded'
    BY <1>3 DEF ChainInv, AccountInv, RefusedOnlyIfRecorded
  <1> QED  BY <1>2, <1>4 DEF ChainInv

LEMMA TypeInductive ==
  ASSUME TypeOK, [Next]_vars
  PROVE  TypeOK'
  <1> USE DEF TypeOK, chain
  <1>1. ASSUME NEW o \in Operator, NEW w \in Workflow, NEW h \in OutputHash, Sign(o, w, h) PROVE TypeOK'
    <2> DEFINE att == [workflow_id |-> w, output_hash |-> h, signer |-> o, signature |-> Signature(o, w, h)]
    <2>1. att \in Attestations /\ att.signature = Signature(att.signer, att.workflow_id, att.output_hash)
      BY DEF Attestations, Signature
    <2>2. attestations' = attestations \cup {att} /\ UNCHANGED <<receipt, pool, accounts, emitted, refused>>
      BY <1>1 DEF Sign
    <2> HIDE DEF att
    <2> QED  BY <2>1, <2>2
  <1>2. ASSUME NEW att \in attestations, NEW answer \in {"simulated", "err"}, Submit(att, answer) PROVE TypeOK'
    BY <1>2 DEF Submit
  <1>3. ASSUME NEW att \in attestations, Send(att) PROVE TypeOK'
    <2>1. [workflow_id |-> att.workflow_id, output_hash |-> att.output_hash, signer |-> att.signer] \in Record
      BY DEF Attestations, Record
    <2> QED  BY <1>3, <2>1 DEF Send
  <1>4. ASSUME NEW tx \in pool, Lose(tx) PROVE TypeOK'
    BY <1>4 DEF Lose
  <1>5. ASSUME NEW tx \in pool, SubmitAttestation(tx) PROVE TypeOK'
    <2>1. tx \in Record
      OBVIOUS
    <2>2. CASE CanInit(tx.workflow_id)
      <3>1. /\ accounts' = [accounts EXCEPT ![Pda(tx.workflow_id)] = tx] /\ emitted' = Append(emitted, tx)
            /\ pool' = pool \ {tx} /\ UNCHANGED <<refused, attestations, receipt>>
        BY <1>5, <2>2 DEF SubmitAttestation
      <3>2. accounts' \in [Address -> Record \cup {NoRecord}]
        BY <2>1, <3>1
      <3>3. emitted' \in Seq(Record)
        BY <2>1, <3>1
      <3> QED  BY <3>1, <3>2, <3>3
    <2>3. CASE ~CanInit(tx.workflow_id)
      BY <1>5, <2>1, <2>3 DEF SubmitAttestation
    <2> QED  BY <2>2, <2>3
  <1>6. CASE UNCHANGED vars
    BY <1>6 DEF vars
  <1> QED  BY <1>1, <1>2, <1>3, <1>4, <1>5, <1>6 DEF Next

LEMMA ChainInductive ==
  ASSUME ChainInv, [Next]_vars
  PROVE  ChainInv'
  <1>1. TypeOK'
    BY TypeInductive DEF ChainInv
  <1>2. ASSUME NEW tx \in pool, SubmitAttestation(tx) PROVE ChainInv'
    <2>1. tx \in Record
      BY DEF ChainInv, TypeOK
    <2>2. CASE CanInit(tx.workflow_id)
      BY <1>1, <1>2, <2>1, <2>2, Stored DEF SubmitAttestation
    <2>3. CASE ~CanInit(tx.workflow_id)
      BY <1>1, <1>2, <2>1, <2>3, Refused DEF SubmitAttestation
    <2> QED  BY <2>2, <2>3
  <1>3. ASSUME UNCHANGED chain PROVE ChainInv'
    BY <1>1, <1>3, OffChain
  <1>4. ASSUME NEW o \in Operator, NEW w \in Workflow, NEW h \in OutputHash, Sign(o, w, h) PROVE UNCHANGED chain
    BY <1>4 DEF Sign
  <1>5. ASSUME NEW att \in attestations, Send(att) \/ \E answer \in {"simulated", "err"} : Submit(att, answer)
        PROVE  UNCHANGED chain
    BY <1>5 DEF Send, Submit
  <1>6. ASSUME NEW tx \in pool, Lose(tx) PROVE UNCHANGED chain
    BY <1>6 DEF Lose
  <1>7. CASE UNCHANGED vars
    BY <1>3, <1>7 DEF vars, chain
  <1> QED  BY <1>2, <1>3, <1>4, <1>5, <1>6, <1>7 DEF Next

LEMMA ChainInvariant == Spec => []ChainInv
  BY InitChain, ChainInductive, PTL DEF Spec

\* Type correctness of signing, transactions and accounts, for any operators
\* and workflows; every signature verifies under the key next to it.
THEOREM TypeCorrect == Spec => []TypeOK
  <1>1. ChainInv => TypeOK
    BY DEF ChainInv
  <1> QED  BY <1>1, ChainInvariant, PTL

\* submit_attestation: the first record of a workflow stands and the events are
\* the records, each once, whatever is repeated, reordered or lost.
THEOREM FirstStands == Spec => []EventsAreRecords
  <1>1. ChainInv => EventsAreRecords
    BY DEF ChainInv
  <1> QED  BY <1>1, ChainInvariant, PTL

\* The seeds of the account: a transaction fails only because of a record of
\* its own workflow.
THEOREM WorkflowsApart == Spec => []RefusedOnlyIfRecorded
  <1>1. ChainInv => RefusedOnlyIfRecorded
    BY DEF ChainInv
  <1> QED  BY <1>1, ChainInvariant, PTL
=============================================================================
