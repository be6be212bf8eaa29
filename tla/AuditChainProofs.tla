--------------------------- MODULE AuditChainProofs ---------------------------
(***************************************************************************)
(* Safety of AuditChain for any number of calls, faults and exits.         *)
(*                                                                         *)
(* The argument: the history variable read names the row whose hash a      *)
(* logger holds, unless the read failed and it holds the genesis hash; a   *)
(* row keeps the number its task had read. Rows are never changed, so this *)
(* stays true as the log grows, and a row whose previous_hash is not that  *)
(* of the row above has read fewer rows or none at all.                    *)
(***************************************************************************)
EXTENDS AuditChain, SequenceTheorems, TLAPS

(* The log is a sequence.                                                  *)
IsSequence == \E S : log \in Seq(S)

(* A logger that has not written yet holds the hash of the row it read.    *)
TailWasRead ==
  \A o \in Ops : pc[o] # "logged" =>
    tail[o] = IF o \in blind THEN GENESIS_HASH ELSE HashAt(read[o])

(* Every row is chained to the row its task had read.                      *)
RowsWereRead ==
  \A i \in DOMAIN log :
    /\ log[i].read \in 0..(i - 1)
    /\ \/ log[i].prev = HashAt(log[i].read)
       \/ log[i].op \in blind /\ log[i].prev = GENESIS_HASH

(* A task that is connected has not tried to read the last hash yet.       *)
BlindInv == \A o \in blind : pc[o] \notin {"new", "spawned", "facts", "connected"}

Inv == AuditTypeOK /\ IsSequence /\ TailWasRead /\ RowsWereRead /\ BlindInv /\ LoggedOnce

(* What Append does to a sequence of any elements.                         *)
LEMMA AppendRow ==
  ASSUME NEW S, NEW s \in Seq(S), NEW e
  PROVE  /\ Append(s, e) \in Seq(S \cup {e})
         /\ Len(s) \in Nat
         /\ Len(Append(s, e)) = Len(s) + 1
         /\ DOMAIN s = 1..Len(s)
         /\ DOMAIN Append(s, e) = 1..(Len(s) + 1)
         /\ \A i \in 1..Len(s) : Append(s, e)[i] = s[i]
         /\ Append(s, e)[Len(s) + 1] = e
<1> DEFINE T == S \cup {e}
<1>1. s \in Seq(T) /\ e \in T
  OBVIOUS
<1>2. Append(s, e) \in Seq(T)
  BY <1>1
<1> QED
  BY <1>1, <1>2, AppendProperties, LenProperties

(* The log after Insert has written its row.                               *)
LEMMA RowWritten ==
  ASSUME Inv, NEW o \in Ops, pc[o] = "open", log' = Append(log, Entry(o))
  PROVE  /\ IsSequence'
         /\ Len(log) \in Nat
         /\ Len(log') = Len(log) + 1
         /\ DOMAIN log = 1..Len(log)
         /\ DOMAIN log' = 1..(Len(log) + 1)
         /\ \A i \in 1..Len(log) : log'[i] = log[i]
         /\ log'[Len(log) + 1] = Entry(o)
<1>1. PICK S : log \in Seq(S)
  BY DEF Inv, IsSequence
<1>2. log' \in Seq(S \cup {Entry(o)})
  BY <1>1, AppendRow
<1>3. IsSequence'
  BY <1>2 DEF IsSequence
<1>4. /\ Len(log) \in Nat
      /\ Len(log') = Len(log) + 1
      /\ DOMAIN log = 1..Len(log)
      /\ DOMAIN log' = 1..(Len(log) + 1)
      /\ \A i \in 1..Len(log) : log'[i] = log[i]
      /\ log'[Len(log) + 1] = Entry(o)
  BY <1>1, AppendRow
<1> QED
  BY <1>3, <1>4

LEMMA LogIsFinite ==
  ASSUME IsSequence
  PROVE  /\ Len(log) \in Nat
         /\ DOMAIN log = 1..Len(log)
  BY LenProperties DEF IsSequence

LEMMA InitInv == AuditInit => Inv
<1> SUFFICES ASSUME AuditInit PROVE Inv
  OBVIOUS
<1> USE DEF AuditInit
<1>1. log \in Seq({}) /\ DOMAIN log = {} /\ Len(log) = 0
  BY LenProperties
<1>2. AuditTypeOK
  BY <1>1, AuditAssumption DEF AuditTypeOK, Kinds, Hashes
<1>3. IsSequence
  BY <1>1 DEF IsSequence
<1>4. TailWasRead /\ RowsWereRead /\ BlindInv /\ LoggedOnce
  BY <1>1 DEF TailWasRead, RowsWereRead, BlindInv, LoggedOnce, HashAt
<1> QED
  BY <1>2, <1>3, <1>4 DEF Inv

(* A step that leaves the log alone, and changes a logger only to make it  *)
(* hold the hash of the last row, or the genesis hash after a failed read. *)
LEMMA LogUntouched ==
  ASSUME Inv, UNCHANGED log, blind \subseteq blind',
         \A o \in Ops : pc'[o] = "logged" <=> pc[o] = "logged",
         \A o \in Ops : \/ /\ tail'[o] = tail[o] /\ read'[o] = read[o]
                           /\ o \in blind' <=> o \in blind
                        \/ /\ tail'[o] = IF o \in blind' THEN GENESIS_HASH ELSE LastHash
                           /\ read'[o] = Len(log)
  PROVE  IsSequence' /\ TailWasRead' /\ RowsWereRead' /\ LoggedOnce'
<1> USE DEF Inv
<1>1. IsSequence'
  BY DEF IsSequence
<1>2. Len(log) \in Nat /\ DOMAIN log = 1..Len(log)
  BY LogIsFinite
<1>3. LastHash = HashAt(Len(log))
  <2>1. log = <<>> <=> Len(log) = 0
    BY EmptySeq DEF IsSequence
  <2> QED
    BY <2>1 DEF LastHash, HashAt
<1>4. TailWasRead'
  <2> SUFFICES ASSUME NEW o \in Ops, pc'[o] # "logged"
               PROVE  (tail[o] = IF o \in blind THEN GENESIS_HASH ELSE HashAt(read[o]))'
    BY DEF TailWasRead
  <2>1. CASE /\ tail'[o] = tail[o] /\ read'[o] = read[o]
             /\ o \in blind' <=> o \in blind
    BY <2>1 DEF TailWasRead, HashAt
  <2>2. CASE /\ tail'[o] = IF o \in blind' THEN GENESIS_HASH ELSE LastHash
             /\ read'[o] = Len(log)
    BY <2>2, <1>3 DEF HashAt
  <2> QED
    BY <2>1, <2>2
<1>5. RowsWereRead'
  BY DEF RowsWereRead, HashAt
<1>6. LoggedOnce'
  <2> SUFFICES ASSUME NEW i \in DOMAIN log, NEW j \in DOMAIN log
               PROVE  /\ pc'[log[i].op] = "logged"
                      /\ log[i].op = log[j].op => i = j
    BY DEF LoggedOnce
  <2>1. log[i].op \in Ops
    BY DEF AuditTypeOK
  <2> QED
    BY <2>1 DEF LoggedOnce
<1> QED
  BY <1>1, <1>4, <1>5, <1>6
(* Insert writes a row chained to the row its logger had read.             *)
LEMMA RowInserted ==
  ASSUME Inv, NEW o \in Ops, Insert(o), log' = Append(log, Entry(o))
  PROVE  Inv'
<1> USE DEF Inv
<1> DEFINE n == Len(log)
<1>1. pc[o] = "open"
  BY DEF Insert
<1>2. /\ IsSequence'
      /\ n \in Nat
      /\ Len(log') = n + 1
      /\ DOMAIN log = 1..n
      /\ DOMAIN log' = 1..(n + 1)
      /\ \A i \in 1..n : log'[i] = log[i]
      /\ log'[n + 1] = Entry(o)
  BY <1>1, RowWritten
<1>3. log' # log
  <2>1. n + 1 \in DOMAIN log' /\ n + 1 \notin DOMAIN log
    BY <1>2
  <2> QED
    BY <2>1
<1>4. /\ pc' = [pc EXCEPT ![o] = "logged"]
      /\ tail' = [tail EXCEPT ![o] = Entry(o).hash]
      /\ UNCHANGED <<kind, read, blind, taskFaults, kills>>
  BY <1>3 DEF Insert
<1>5. /\ pc'[o] = "logged" /\ tail'[o] = Entry(o).hash
      /\ \A p \in Ops : p # o => pc'[p] = pc[p] /\ tail'[p] = tail[p]
  BY <1>4 DEF AuditTypeOK
<1>6. AuditTypeOK'
  <2>1. pc' \in [Ops -> {"new", "spawned", "facts", "connected", "open", "logged",
                        "unlogged", "panicked"}]
    BY <1>4 DEF AuditTypeOK
  <2>2. tail' \in [Ops -> Hashes']
    <3>1. Hashes \subseteq Hashes'
      BY <1>2 DEF Hashes
    <3>2. Entry(o).hash \in Hashes'
      BY <1>2 DEF Hashes
    <3> QED
      BY <1>4, <3>1, <3>2 DEF AuditTypeOK
  <2>3. \A p \in Ops : read'[p] <= Len(log')
    BY <1>2, <1>4 DEF AuditTypeOK
  <2>4. \A i \in DOMAIN log' :
          /\ DOMAIN log'[i] = {"op", "prev", "hash", "read"}
          /\ log'[i].op \in Ops
          /\ log'[i].hash = ChainHash(log'[i].prev, log'[i].op)
    <3> SUFFICES ASSUME NEW i \in 1..(n + 1)
                 PROVE  /\ DOMAIN log'[i] = {"op", "prev", "hash", "read"}
                        /\ log'[i].op \in Ops
                        /\ log'[i].hash = ChainHash(log'[i].prev, log'[i].op)
      BY <1>2
    <3>1. CASE i \in 1..n
      BY <3>1, <1>2 DEF AuditTypeOK
    <3>2. CASE i = n + 1
      BY <3>2, <1>2 DEF Entry
    <3> QED
      BY <3>1, <3>2, <1>2
  <2> QED
    BY <1>4, <2>1, <2>2, <2>3, <2>4 DEF AuditTypeOK
<1>7. \A k \in 0..n : HashAt(k)' = HashAt(k)
  BY <1>2 DEF HashAt
<1>8. TailWasRead'
  <2> SUFFICES ASSUME NEW p \in Ops, pc'[p] # "logged"
               PROVE  (tail[p] = IF p \in blind THEN GENESIS_HASH ELSE HashAt(read[p]))'
    BY DEF TailWasRead
  <2>1. p # o /\ pc[p] # "logged" /\ tail'[p] = tail[p] /\ read'[p] = read[p]
    BY <1>4, <1>5
  <2>2. read[p] \in 0..n
    BY <1>2 DEF AuditTypeOK
  <2>3. (HashAt(read[p]))' = HashAt(read[p])
    BY <2>1, <2>2, <1>2 DEF HashAt
  <2>4. tail[p] = IF p \in blind THEN GENESIS_HASH ELSE HashAt(read[p])
    BY <2>1 DEF TailWasRead
  <2> QED
    BY <2>1, <2>3, <2>4, <1>4
<1>9. RowsWereRead'
  <2> SUFFICES ASSUME NEW i \in 1..(n + 1)
               PROVE  /\ log'[i].read \in 0..(i - 1)
                      /\ (\/ log[i].prev = HashAt(log[i].read)
                          \/ log[i].op \in blind /\ log[i].prev = GENESIS_HASH)'
    BY <1>2 DEF RowsWereRead
  <2>1. CASE i \in 1..n
    <3>1. /\ log[i].read \in 0..(i - 1)
          /\ \/ log[i].prev = HashAt(log[i].read)
             \/ log[i].op \in blind /\ log[i].prev = GENESIS_HASH
      BY <2>1, <1>2 DEF RowsWereRead
    <3>2. log[i].read \in 0..n
      BY <2>1, <3>1, <1>2
    <3>3. log'[i] = log[i] /\ blind' = blind
      BY <2>1, <1>2, <1>4
    <3>4. (HashAt(log[i].read))' = HashAt(log[i].read)
      BY <3>2, <3>3, <1>2 DEF HashAt
    <3> QED
      BY <3>1, <3>3, <3>4 DEF GENESIS_HASH
  <2>2. CASE i = n + 1
    <3>1. log'[i].read = read[o] /\ log'[i].prev = tail[o] /\ log'[i].op = o
      BY <2>2, <1>2 DEF Entry
    <3>2. read[o] \in 0..n
      BY <1>2 DEF AuditTypeOK
    <3>3. tail[o] = IF o \in blind THEN GENESIS_HASH ELSE HashAt(read[o])
      BY <1>1 DEF TailWasRead
    <3>4. (HashAt(log[i].read))' = HashAt(read[o]) /\ blind' = blind
      BY <3>1, <3>2, <1>2, <1>4 DEF HashAt
    <3>5. log'[i].read \in 0..(i - 1)
      BY <2>2, <3>1, <3>2, <1>2
    <3> QED
      BY <3>1, <3>3, <3>4, <3>5 DEF GENESIS_HASH
  <2> QED
    BY <2>1, <2>2, <1>2
<1>10. LoggedOnce'
  <2> SUFFICES ASSUME NEW i \in 1..(n + 1), NEW j \in 1..(n + 1)
               PROVE  /\ pc'[log'[i].op] = "logged"
                      /\ log'[i].op = log'[j].op => i = j
    BY <1>2 DEF LoggedOnce
  <2>1. \A k \in 1..n : log'[k].op # o /\ pc'[log'[k].op] = "logged"
    <3> SUFFICES ASSUME NEW k \in 1..n
                 PROVE  log'[k].op # o /\ pc'[log'[k].op] = "logged"
      OBVIOUS
    <3>1. log'[k].op = log[k].op /\ log[k].op \in Ops /\ pc[log[k].op] = "logged"
      BY <1>2 DEF AuditTypeOK, LoggedOnce
    <3> QED
      BY <3>1, <1>1, <1>5
  <2>2. log'[n + 1].op = o
    BY <1>2 DEF Entry
  <2>3. i \in 1..n \/ i = n + 1
    BY <1>2
  <2>4. j \in 1..n \/ j = n + 1
    BY <1>2
  <2>5. i \in 1..n /\ j \in 1..n /\ log'[i].op = log'[j].op => i = j
    BY <1>2 DEF LoggedOnce
  <2> QED
    BY <2>1, <2>2, <2>3, <2>4, <2>5, <1>5
<1>11. BlindInv'
  BY <1>4, <1>5 DEF BlindInv, AuditTypeOK
<1> QED
  BY <1>2, <1>6, <1>8, <1>9, <1>10, <1>11

LEMMA NextInv == Inv /\ [AuditNext]_auditVars => Inv'
<1> SUFFICES ASSUME Inv, [AuditNext]_auditVars PROVE Inv'
  OBVIOUS
<1> USE DEF Inv
<1>1. ASSUME NEW o \in Ops, Answer(o) \/ Connect(o) \/ Extract(o) PROVE Inv'
  <2>1. /\ UNCHANGED <<tail, read, blind, log, kills>>
        /\ pc[o] \in {"new", "spawned", "facts"}
        /\ \A p \in Ops : p # o => pc'[p] = pc[p]
        /\ pc'[o] \in {"unlogged", "spawned", "facts", "connected", "panicked"}
    BY <1>1 DEF Answer, Connect, Extract, AuditTypeOK
  <2>2. Hashes' = Hashes
    BY <2>1 DEF Hashes
  <2>3. /\ pc' \in [Ops -> {"new", "spawned", "facts", "connected", "open", "logged",
                           "unlogged", "panicked"}]
        /\ kind' \in [Ops -> Kinds]
    BY <1>1 DEF Answer, Connect, Extract, AuditTypeOK
  <2>4. taskFaults' \in 0..MaxTaskFaults
    BY <1>1, AuditAssumption DEF Answer, Connect, Extract, TaskFails, AuditTypeOK
  <2>5. AuditTypeOK'
    BY <2>1, <2>2, <2>3, <2>4 DEF AuditTypeOK
  <2>6. BlindInv'
    BY <2>1 DEF BlindInv, AuditTypeOK
  <2> QED
    BY <2>1, <2>5, <2>6, LogUntouched
<1>2. ASSUME NEW o \in Ops, Open(o) PROVE Inv'
  <2>1. Len(log) \in Nat /\ DOMAIN log = 1..Len(log)
    BY LogIsFinite
  <2>2. LastHash \in Hashes
    <3>1. log = <<>> \/ Len(log) \in DOMAIN log
      BY <2>1, EmptySeq DEF IsSequence
    <3> QED
      BY <3>1 DEF LastHash, Hashes
  <2>3. AuditTypeOK'
    <3>1. Hashes' = Hashes
      BY <1>2 DEF Open, Hashes
    <3>2. taskFaults' \in 0..MaxTaskFaults
      BY <1>2, AuditAssumption DEF Open, TaskFails, AuditTypeOK
    <3>3. /\ pc' \in [Ops -> {"new", "spawned", "facts", "connected", "open", "logged",
                        "unlogged", "panicked"}]
          /\ UNCHANGED <<log, kind, kills>>
      BY <1>2 DEF Open, AuditTypeOK
    <3>4. tail' \in [Ops -> Hashes] /\ blind' \in SUBSET Ops
      BY <1>2, <2>2 DEF Open, AuditTypeOK, Hashes
    <3>5. read' \in [Ops -> Nat] /\ \A p \in Ops : read'[p] <= Len(log)
      <4> DEFINE n == Len(log)
      <4>1. read \in [Ops -> Nat] /\ \A p \in Ops : read[p] <= n
        BY DEF AuditTypeOK
      <4>2. read' = read \/ read' = [read EXCEPT ![o] = n]
        BY <1>2 DEF Open
      <4>3. n \in Nat
        BY <2>1
      <4> HIDE DEF n
      <4>4. read' \in [Ops -> Nat] /\ \A p \in Ops : read'[p] <= n
        BY <4>1, <4>2, <4>3
      <4> QED
        BY <4>4 DEF n
    <3>6. \A i \in DOMAIN log' :
            /\ DOMAIN log'[i] = {"op", "prev", "hash", "read"}
            /\ log'[i].op \in Ops
            /\ log'[i].hash = ChainHash(log'[i].prev, log'[i].op)
      BY <3>3 DEF AuditTypeOK
    <3>7. kind' \in [Ops -> Kinds] /\ kills' \in 0..MaxKills
      BY <3>3 DEF AuditTypeOK
    <3>8. tail' \in [Ops -> Hashes']
      BY <3>1, <3>4
    <3>9. \A p \in Ops : read'[p] <= Len(log')
      BY <3>3, <3>5
    <3> QED
      BY <3>2, <3>3, <3>4, <3>5, <3>6, <3>7, <3>8, <3>9 DEF AuditTypeOK
  <2>4. /\ UNCHANGED log /\ blind \subseteq blind'
        /\ \A p \in Ops : pc'[p] = "logged" <=> pc[p] = "logged"
    BY <1>2 DEF Open, AuditTypeOK
  <2>5. pc[o] = "connected" /\ o \notin blind
    BY <1>2 DEF Open, BlindInv
  <2>6. /\ tail'[o] = IF o \in blind' THEN GENESIS_HASH ELSE LastHash
        /\ read'[o] = Len(log)
    <3>1. \/ tail' = [tail EXCEPT ![o] = LastHash] /\ blind' = blind
          \/ tail' = [tail EXCEPT ![o] = GENESIS_HASH] /\ blind' = blind \cup {o}
      BY <1>2 DEF Open
    <3>2. read'[o] = Len(log)
      BY <1>2 DEF Open, AuditTypeOK
    <3>3. tail'[o] = IF o \in blind' THEN GENESIS_HASH ELSE LastHash
      BY <3>1, <2>5 DEF AuditTypeOK
    <3> QED BY <3>2, <3>3
  <2>7. \A p \in Ops : p # o =>
          /\ tail'[p] = tail[p] /\ read'[p] = read[p]
          /\ p \in blind' <=> p \in blind
    BY <1>2 DEF Open, AuditTypeOK
  <2>8. BlindInv'
    BY <1>2 DEF Open, BlindInv, AuditTypeOK
  <2>9. \A p \in Ops : \/ /\ tail'[p] = tail[p] /\ read'[p] = read[p]
                          /\ p \in blind' <=> p \in blind
                       \/ /\ tail'[p] = IF p \in blind' THEN GENESIS_HASH ELSE LastHash
                          /\ read'[p] = Len(log)
    BY <2>6, <2>7
  <2>10. IsSequence' /\ TailWasRead' /\ RowsWereRead' /\ LoggedOnce'
    BY <2>4, <2>9, LogUntouched
  <2> QED
    BY <2>3, <2>8, <2>10
<1>3. ASSUME NEW o \in Ops, Insert(o) PROVE Inv'
  <2>1. CASE log' = Append(log, Entry(o))
    BY <1>3, <2>1, RowInserted
  <2>2. CASE log' # Append(log, Entry(o))
    <3>1. /\ pc[o] = "open"
          /\ TaskFails
          /\ pc' = [pc EXCEPT ![o] = "unlogged"]
          /\ UNCHANGED <<tail, log, kind, read, blind, kills>>
      BY <1>3, <2>2 DEF Insert
    <3>2. AuditTypeOK'
      BY <3>1, AuditAssumption DEF TaskFails, AuditTypeOK, Hashes
    <3>3. \A p \in Ops : pc'[p] = "logged" <=> pc[p] = "logged"
      BY <3>1 DEF AuditTypeOK
    <3>4. BlindInv'
      BY <3>1 DEF BlindInv, AuditTypeOK
    <3> QED
      BY <3>1, <3>2, <3>3, <3>4, LogUntouched
  <2> QED
    BY <2>1, <2>2
<1>4. ASSUME Kill PROVE Inv'
  <2>1. AuditTypeOK'
    BY <1>4, AuditAssumption DEF Kill, AuditTypeOK, Hashes
  <2>2. /\ UNCHANGED <<tail, read, blind, log>>
        /\ \A p \in Ops : pc'[p] = IF Pending(p) THEN "unlogged" ELSE pc[p]
    BY <1>4 DEF Kill, AuditTypeOK
  <2>3. \A p \in Ops : pc'[p] = "logged" <=> pc[p] = "logged"
    BY <2>2 DEF Pending
  <2>4. BlindInv'
    BY <2>2 DEF BlindInv, AuditTypeOK
  <2> QED
    BY <2>1, <2>2, <2>3, <2>4, LogUntouched
<1>5. ASSUME UNCHANGED auditVars PROVE Inv'
  <2>1. AuditTypeOK'
    BY <1>5 DEF auditVars, AuditTypeOK, Hashes
  <2>2. BlindInv'
    BY <1>5 DEF auditVars, BlindInv
  <2> QED
    BY <1>5, <2>1, <2>2, LogUntouched DEF auditVars
<1> QED
  BY <1>1, <1>2, <1>3, <1>4, <1>5 DEF AuditNext, TaskStep

LEMMA Invariance == AuditSpec => []Inv
  BY InitInv, NextInv, PTL DEF AuditSpec

-----------------------------------------------------------------------------
(* Types, and every logger holds the hash of a row of the log.             *)
THEOREM AuditTypes == AuditSpec => []AuditTypeOK
<1>1. Inv => AuditTypeOK
  BY DEF Inv
<1> QED
  BY <1>1, Invariance, PTL

(* What verify_chain reports is always a row whose task had read the log   *)
(* before the row above was written and is chained to the last row of that *)
(* time, or one whose task could not read it.                              *)
THEOREM BreaksHaveCauses == AuditSpec => []BreakHasCause
<1>1. Inv => BreakHasCause
  <2> SUFFICES ASSUME Inv, NEW i \in 1..(Len(log) - 1), log[i + 1].prev # log[i].hash,
                      ~(log[i + 1].op \in blind /\ log[i + 1].prev = GENESIS_HASH)
               PROVE  log[i + 1].read < i /\ log[i + 1].prev = HashAt(log[i + 1].read)
    BY DEF BreakHasCause
  <2>1. i \in Nat \ {0} /\ i + 1 \in DOMAIN log
    BY LogIsFinite DEF Inv
  <2>2. /\ log[i + 1].read \in 0..((i + 1) - 1)
        /\ log[i + 1].prev = HashAt(log[i + 1].read)
    BY <2>1 DEF Inv, RowsWereRead
  <2>3. log[i + 1].read # i
    BY <2>1, <2>2 DEF HashAt
  <2> QED
    BY <2>1, <2>2, <2>3
<1> QED
  BY <1>1, Invariance, PTL

(* An operation is logged at most once, and only after its answer.         *)
THEOREM OperationsLoggedOnce == AuditSpec => []LoggedOnce
<1>1. Inv => LoggedOnce
  BY DEF Inv
<1> QED
  BY <1>1, Invariance, PTL
=============================================================================
