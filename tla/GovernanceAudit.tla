-------------------------- MODULE GovernanceAudit --------------------------
(***************************************************************************)
(* GovernanceAuditLog: entries in memory, each with the hash of the one    *)
(* before it, and their rows in a SQLiteJsonTable, from which a new        *)
(* process reads them back.  ExecutionRecordStore chains its records the   *)
(* same way.                                                               *)
(***************************************************************************)
EXTENDS Integers, Sequences, FiniteSets

CONSTANTS
  MaxAudit,     \* bound on the entries of the log
  MaxClock      \* bound on the clock that stamps them

ASSUME AuditAssumption == MaxAudit \in Nat /\ MaxClock \in Nat

VARIABLES
  audit,       \* _entries
  auditSeq,    \* _seq
  auditRows,   \* the rows, by seq
  auditLost,   \* a row could not be written
  auditClock

auditVars == <<audit, auditSeq, auditRows, auditLost, auditClock>>

NoEntry == [seq |-> -1, stamp |-> -1, previous |-> -1]

AuditInit ==
  /\ audit = <<>> /\ auditSeq = 0 /\ auditRows = [n \in 0..MaxAudit |-> NoEntry]
  /\ auditLost = FALSE /\ auditClock = 0

(* verify_chain; the hash of an entry is stood for by its number.          *)
Verifies(log) ==
  \A i \in 1..Len(log) : log[i].previous = IF i = 1 THEN -1 ELSE log[i - 1].seq

Sealed(n) ==
  [seq |-> n, stamp |-> auditClock, previous |-> IF audit = <<>> THEN -1 ELSE audit[Len(audit)].seq]

(* record: memory first, then the row, which may raise.                    *)
Audits(ok) ==
  /\ auditSeq < MaxAudit /\ Len(audit) < MaxAudit
  /\ audit' = Append(audit, Sealed(auditSeq)) /\ auditSeq' = auditSeq + 1
  /\ auditRows' = IF ok THEN [auditRows EXCEPT ![auditSeq] = Sealed(auditSeq)] ELSE auditRows
  /\ auditLost' = (auditLost \/ ~ok)
  /\ UNCHANGED auditClock

(* Mutant: a new process numbers its entries from zero.                    *)
ReloadedSeqZero(log) == 0

(* _load_backing: in order of stamp and number, numbering on.              *)
ReloadedSeq(log) == IF log = <<>> THEN 0 ELSE
  CHOOSE n \in 1..MaxAudit : /\ \E i \in DOMAIN log : log[i].seq = n - 1
                             /\ \A i \in DOMAIN log : log[i].seq < n
Before(a, b) == a.stamp < b.stamp \/ (a.stamp = b.stamp /\ a.seq < b.seq)
Written == {auditRows[n] : n \in 0..MaxAudit} \ {NoEntry}
Reloaded ==
  CHOOSE log \in [1..Cardinality(Written) -> Written] :
    \A i, j \in DOMAIN log : i < j => Before(log[i], log[j])
ReopensAudit ==
  /\ audit' = Reloaded /\ auditSeq' = ReloadedSeq(Reloaded)
  /\ UNCHANGED <<auditRows, auditLost, auditClock>>
TicksAudit ==
  /\ auditClock < MaxClock /\ auditClock' = auditClock + 1
  /\ UNCHANGED <<audit, auditSeq, auditRows, auditLost>>

AuditNext == (\E ok \in BOOLEAN : Audits(ok)) \/ ReopensAudit \/ TicksAudit

(* The chain verifies, also after any number of restarts and with entries  *)
(* of equal stamps, as long as every row was written: no untampered log is *)
(* reported as tampered with.                                              *)
ChainVerifies == auditLost \/ Verifies(audit)
=============================================================================
