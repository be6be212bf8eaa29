------------------------------ MODULE LibraryProofs ------------------------------
(***************************************************************************)
(* Properties of the smaller parts, each by itself.                        *)
(*                                                                         *)
(* Migrations, for any number of processes, memories, openings, failures   *)
(* and exits.  The database only grows: tables, rows and the index.  So    *)
(* what a process has established by the statements it ran (ProgressOf)    *)
(* stays true while the others run theirs, and each action is looked at    *)
(* for its own process only.                                               *)
(*                                                                         *)
(* The checkpoint of a reindex and the backups, for any counts, files and  *)
(* failures; streams, tags, entities and relationships of the registry,    *)
(* for any names, tags, memories, words and hops.                          *)
(*                                                                         *)
(* The front ends, the rate limiter, the tokens, the context compiler, the *)
(* notes, the imports and the redaction of secrets, which have no state,   *)
(* for inputs of any length.                                               *)
(***************************************************************************)
EXTENDS MCLibrary, FiniteSetTheorems, FunctionTheorems, SequenceTheorems, WellFoundedInduction, TLAPS

(* Induction, used for what recursive functions compute.                   *)

(* Induction over the naturals: a set that is not empty has a least one.   *)
LEMMA LeastNatural ==
  ASSUME NEW T, T \subseteq Nat, T # {}
  PROVE  \E n \in T : \A k \in T : n <= k
<1>1. \E n \in T : \A k \in T : ~ (<<k, n>> \in OpToRel(<, Nat))
  BY WFMin, NatLessThanWellFounded
<1>2. PICK n \in T : \A k \in T : ~ (<<k, n>> \in OpToRel(<, Nat))
  BY <1>1
<1>3. \A k \in T : ~ (k < n)
  BY <1>2 DEF OpToRel
<1> QED BY <1>3

(* What holds of 0 and goes from each number to the next holds up to n.    *)
LEMMA StepsReach ==
  ASSUME NEW n \in Nat, NEW T, 0 \in T,
         \A i \in 1 .. n : i - 1 \in T => i \in T
  PROVE  0 .. n \subseteq T
<1> DEFINE Missed == {i \in 0 .. n : i \notin T}
<1> SUFFICES ASSUME Missed # {} PROVE FALSE
  OBVIOUS
<1>1. Missed \subseteq Nat
  OBVIOUS
<1>2. PICK i \in Missed : \A k \in Missed : i <= k
  BY <1>1, LeastNatural
<1>3. i \in 1 .. n /\ i - 1 \in 0 .. n
  BY <1>2
<1>4. i - 1 \notin Missed
  BY <1>2, <1>3
<1> QED BY <1>3, <1>4

(* A recursive function of n steps is there, if each step leads from S to S. *)
Turns(n, S) == [(1 .. n) \X S -> S]

IsRun(f, n, S, start, turn) ==
  f \in [0 .. n -> S] /\ f[0] = start /\ \A i \in 1 .. n : f[i] = turn[<<i, f[i - 1]>>]

LEMMA RunExists ==
  ASSUME NEW n \in Nat, NEW S, NEW start \in S, NEW turn \in Turns(n, S)
  PROVE  \E f : IsRun(f, n, S, start, turn)
<1> USE DEF Turns
<1> DEFINE Run(k, f) == f[0] = start /\ \A i \in 1 .. k : f[i] = turn[<<i, f[i - 1]>>]
           T == {k \in 0 .. n : \E f \in [0 .. k -> S] : Run(k, f)}
<1>1. 0 \in T
  <2> DEFINE f == [i \in 0 .. 0 |-> start]
  <2>1. f \in [0 .. 0 -> S] /\ Run(0, f)
    OBVIOUS
  <2> HIDE DEF f, Run
  <2>2. 0 \in 0 .. n
    OBVIOUS
  <2> QED BY <2>1, <2>2
<1>2. ASSUME NEW k \in 1 .. n, k - 1 \in T PROVE k \in T
  <2>1. PICK f \in [0 .. k - 1 -> S] : Run(k - 1, f)
    BY <1>2
  <2>2. f[k - 1] \in S /\ k - 1 \in 0 .. k - 1
    BY <1>2
  <2>3. turn[<<k, f[k - 1]>>] \in S
    BY <1>2, <2>2
  <2> DEFINE g == [i \in 0 .. k |-> IF i = k THEN turn[<<k, f[k - 1]>>] ELSE f[i]]
  <2>4. g \in [0 .. k -> S]
    <3>1. \A i \in 0 .. k : i # k => i \in 0 .. k - 1
      OBVIOUS
    <3> QED BY <2>3, <3>1
  <2>5. g[0] = start
    BY <2>1
  <2>6. ASSUME NEW i \in 1 .. k PROVE g[i] = turn[<<i, g[i - 1]>>]
    <3>1. CASE i = k
      <4>1. k \in 0 .. k /\ k - 1 \in 0 .. k /\ k - 1 # k
        OBVIOUS
      <4>2. g[k - 1] = f[k - 1] /\ g[k] = turn[<<k, f[k - 1]>>]
        BY <4>1
      <4> QED BY <3>1, <4>2
    <3>2. CASE i # k
      <4>1. i \in 1 .. k - 1 /\ i \in 0 .. k /\ i - 1 \in 0 .. k /\ i - 1 # k
        BY <3>2
      <4>2. g[i - 1] = f[i - 1] /\ g[i] = f[i]
        BY <3>2, <4>1
      <4> QED BY <2>1, <4>1, <4>2
    <3> QED BY <3>1, <3>2
  <2> HIDE DEF g
  <2>7. Run(k, g)
    BY <2>5, <2>6
  <2> QED BY <2>4, <2>7
<1> HIDE DEF T
<1>3. 0 .. n \subseteq T
  BY <1>1, <1>2, StepsReach
<1>4. n \in T
  BY <1>3
<1> QED BY <1>4 DEF T, IsRun

(* The lesser of two numbers.                                              *)
LEMMA MinIs ==
  ASSUME NEW a \in Nat, NEW b \in Nat
  PROVE  Min({a, b}) = IF a <= b THEN a ELSE b
<1>1. (IF a <= b THEN a ELSE b) \in {a, b} /\ \A x \in {a, b} : (IF a <= b THEN a ELSE b) <= x
  OBVIOUS
<1>2. \A y, z \in {a, b} : y <= z /\ z <= y => y = z
  OBVIOUS
<1>3. Min({a, b}) \in {a, b} /\ \A x \in {a, b} : Min({a, b}) <= x
  BY <1>1 DEF Min
<1> QED BY <1>1, <1>2, <1>3

(* The greater of two numbers.                                             *)
LEMMA MaxIs ==
  ASSUME NEW a \in Nat, NEW b \in Nat
  PROVE  Max({a, b}) = IF a >= b THEN a ELSE b
<1>1. (IF a >= b THEN a ELSE b) \in {a, b} /\ \A x \in {a, b} : (IF a >= b THEN a ELSE b) >= x
  OBVIOUS
<1>2. \A y, z \in {a, b} : y >= z /\ z >= y => y = z
  OBVIOUS
<1>3. Max({a, b}) \in {a, b} /\ \A x \in {a, b} : Max({a, b}) >= x
  BY <1>1 DEF Max
<1> QED BY <1>1, <1>2, <1>3

(* A bounded set of numbers has a greatest one.                              *)
LEMMA GreatestIs ==
  ASSUME NEW n \in Nat, NEW P \in SUBSET (1 .. n), P # {}
  PROVE  Max(P) \in P /\ \A k \in P : Max(P) >= k
<1> DEFINE U == {m \in 0 .. n : \A k \in P : m >= k}
<1>1. n \in U /\ U \subseteq Nat
  OBVIOUS
<1>2. PICK m \in U : \A k \in U : m <= k
  BY <1>1, LeastNatural
<1>3. m \in P
  <2> SUFFICES ASSUME m \notin P PROVE FALSE
    OBVIOUS
  <2>1. \A k \in P : k \in Nat /\ m >= k /\ k # m /\ k >= 1
    BY <1>2
  <2>2. m \in 1 .. n
    <3>1. PICK k \in P : TRUE
      OBVIOUS
    <3>2. m \in 0 .. n /\ m >= k /\ k \in Nat /\ k >= 1
      BY <1>2, <2>1, <3>1
    <3> QED BY <3>2
  <2>3. m - 1 \in 0 .. n /\ \A k \in P : m - 1 >= k
    BY <2>1, <2>2
  <2> QED BY <1>2, <2>2, <2>3
<1>4. \E x \in P : \A y \in P : x >= y
  BY <1>2, <1>3
<1> QED BY <1>4 DEF Max

(* The members of a set of numbers up to i.                                  *)
UpTo(P, i) == {k \in P : k <= i}

LEMMA UpToIs ==
  ASSUME NEW n \in Nat, NEW P \in SUBSET (1 .. n), NEW i \in 0 .. n
  PROVE  /\ IsFiniteSet(UpTo(P, i)) /\ Cardinality(UpTo(P, i)) \in Nat
         /\ UpTo(P, 0) = {} /\ UpTo(P, n) = P
         /\ \A k \in 0 .. i : Cardinality(UpTo(P, k)) <= Cardinality(UpTo(P, i))
<1>1. ASSUME NEW k \in 0 .. n
      PROVE  IsFiniteSet(UpTo(P, k)) /\ Cardinality(UpTo(P, k)) \in Nat
  <2>1. UpTo(P, k) \subseteq 1 .. n
    BY DEF UpTo
  <2>2. IsFiniteSet(1 .. n)
    BY FS_Interval
  <2> QED BY <2>1, <2>2, FS_Subset, FS_CardinalityType
<1>2. UpTo(P, 0) = {} /\ UpTo(P, n) = P
  <2>1. \A k \in P : k \in Nat /\ 1 <= k /\ k <= n
    OBVIOUS
  <2>2. UpTo(P, 0) = {}
    <3> SUFFICES ASSUME NEW k \in UpTo(P, 0) PROVE FALSE
      OBVIOUS
    <3>1. k \in P /\ k <= 0
      BY DEF UpTo
    <3> QED BY <2>1, <3>1
  <2>3. \A k : k \in UpTo(P, n) <=> k \in P
    BY <2>1 DEF UpTo
  <2> QED BY <2>2, <2>3
<1>3. ASSUME NEW k \in 0 .. i PROVE Cardinality(UpTo(P, k)) <= Cardinality(UpTo(P, i))
  <2>1. \A j \in P : j \in Nat
    OBVIOUS
  <2>2. \A j \in P : j <= k => j <= i
    BY <2>1
  <2>3. UpTo(P, k) \subseteq UpTo(P, i)
    BY <2>2 DEF UpTo
  <2> QED BY <1>1, <2>3, FS_Subset
<1> QED BY <1>1, <1>2, <1>3

(* Each of them adds one to their number.                                    *)
LEMMA UpToNext ==
  ASSUME NEW n \in Nat, NEW P \in SUBSET (1 .. n), NEW i \in 1 .. n
  PROVE  /\ UpTo(P, i) = IF i \in P THEN UpTo(P, i - 1) \cup {i} ELSE UpTo(P, i - 1)
         /\ Cardinality(UpTo(P, i)) = Cardinality(UpTo(P, i - 1)) + (IF i \in P THEN 1 ELSE 0)
<1>1. \A j \in P : j \in Nat /\ (j <= i <=> j <= i - 1 \/ j = i)
  OBVIOUS
<1>2. i \notin UpTo(P, i - 1)
  BY DEF UpTo
<1>3. UpTo(P, i) = IF i \in P THEN UpTo(P, i - 1) \cup {i} ELSE UpTo(P, i - 1)
  BY <1>1 DEF UpTo
<1>4. i - 1 \in 0 .. n
  OBVIOUS
<1>5. IsFiniteSet(UpTo(P, i - 1)) /\ Cardinality(UpTo(P, i - 1)) \in Nat
  BY <1>4, UpToIs
<1>6. i \in P => Cardinality(UpTo(P, i - 1) \cup {i}) = Cardinality(UpTo(P, i - 1)) + 1
  BY <1>2, <1>5, FS_AddElement
<1> QED BY <1>3, <1>5, <1>6

LEMMA UpToGrows ==
  ASSUME NEW n \in Nat, NEW P \in SUBSET (1 .. n)
  PROVE  /\ \A i \in 1 .. n : i \in P => /\ UpTo(P, i) = UpTo(P, i - 1) \cup {i}
                                       /\ Cardinality(UpTo(P, i)) = Cardinality(UpTo(P, i - 1)) + 1
         /\ \A i \in 1 .. n : i \notin P => UpTo(P, i) = UpTo(P, i - 1)
<1>1. ASSUME NEW i \in 1 .. n
      PROVE  /\ UpTo(P, i) = IF i \in P THEN UpTo(P, i - 1) \cup {i} ELSE UpTo(P, i - 1)
             /\ Cardinality(UpTo(P, i)) = Cardinality(UpTo(P, i - 1)) + (IF i \in P THEN 1 ELSE 0)
  BY UpToNext
<1> QED BY <1>1

--------------------------------------------------------------------------------
(* Migrations.                                                             *)

(* What a process may rely on at each of its steps.                        *)
ProgressOf(p) ==
  /\ step[p] \in {"log", "run", "succeed"} /\ at[p].version = 2 => Base \subseteq tables
  /\ step[p] = "log" => at[p].next = 1
  /\ step[p] = "run" =>
       /\ at[p].next \in 1 .. Len(Statements(at[p].version))
       /\ \A i \in 1 .. at[p].next - 1 :
            Statements(at[p].version)[i] \in AllTables =>
              Statements(at[p].version)[i] \in tables
  /\ step[p] = "succeed" /\ at[p].version = 1 => Base \subseteq tables
  /\ step[p] = "succeed" /\ at[p].version = 2 =>
       tables = AllTables /\ seen[p] \subseteq Indexed
  /\ step[p] \in Ready => tables = AllTables /\ seen[p] \subseteq Indexed
  /\ step[p] = "index" => pending[p] \in Memories
  /\ step[p] \in {"fail", "failed"} => session[p] \in hurt
  /\ step[p] # "closed" => session[p] \in Sessions

(* A version is recorded only after its tables, and a store of a later     *)
(* release is never opened.                                                *)
VersionsTrue ==
  /\ 1 \in recorded => Base \subseteq tables
  /\ Current + 1 \in recorded =>
       \A p \in Processes : step[p] \in {"closed", "check", "refused"}

SeenWereRows == \A p \in Processes : seen[p] \subseteq rows

IInv ==
  /\ TypeOK
  /\ VersionsTrue
  /\ SeenWereRows
  /\ \A p \in Processes : ProgressOf(p)
  /\ LogTellsOutcome

--------------------------------------------------------------------------------
(* The version that is read.                                               *)
LEMMA NewestIs ==
  ASSUME recorded \subseteq {1, Current + 1}
  PROVE  Newest = IF Current + 1 \in recorded THEN 3 ELSE IF 1 \in recorded THEN 1 ELSE 0
<1>1. CASE recorded = {}
  BY <1>1 DEF Newest, Current
<1>2. CASE recorded = {1}
  <2>1. \A v \in recorded : (\A w \in recorded : w <= v) => v = 1
    BY <1>2
  <2>2. \E v \in recorded : \A w \in recorded : w <= v
    BY <1>2
  <2> QED BY <1>2, <2>1, <2>2 DEF Newest, Current
<1>3. CASE 3 \in recorded
  <2>1. \A v \in recorded : (\A w \in recorded : w <= v) => v = 3
    BY <1>3 DEF Current
  <2>2. \E v \in recorded : \A w \in recorded : w <= v
    BY <1>3 DEF Current
  <2> QED BY <1>3, <2>1, <2>2 DEF Newest, Current
<1>4. 3 \notin recorded /\ 1 \notin recorded => recorded = {}
  BY DEF Current
<1>5. 3 \notin recorded /\ 1 \in recorded => recorded = {1}
  <2>1. \A v : v \in recorded => v = 1 \/ v = 3
    BY DEF Current
  <2> QED BY <2>1
<1> QED BY <1>1, <1>2, <1>3, <1>4, <1>5

(* The statements of the two versions.                                     *)
LEMMA StatementsAre ==
  /\ Len(Statements(1)) = 5
  /\ Len(Statements(2)) = 2
  /\ Statements(1)[1] = "schema_version" /\ Statements(1)[2] = "migration_log"
  /\ Statements(1)[3] = "memories" /\ Statements(1)[4] = "others"
  /\ Statements(1)[5] = "record"
  /\ Statements(2)[1] = "memories_fts" /\ Statements(2)[2] = "populate"
BY DEF Statements

(* Nothing in the database is ever removed.                                *)
Grows ==
  /\ tables \subseteq tables'
  /\ tables' \subseteq AllTables
  /\ Indexed \subseteq Indexed'
  /\ hurt \subseteq hurt'

(* What a process relies on survives the steps of the others.              *)
LEMMA OthersKeep ==
  ASSUME NEW q \in Processes, ProgressOf(q), Grows,
         step'[q] = step[q], at'[q] = at[q], session'[q] = session[q],
         seen'[q] = seen[q], pending'[q] = pending[q]
  PROVE  ProgressOf(q)'
<1>1. tables = AllTables => tables' = AllTables
  BY DEF Grows
<1>2. seen[q] \subseteq Indexed => seen'[q] \subseteq Indexed'
  BY DEF Grows
<1>3. Base \subseteq tables => Base \subseteq tables'
  BY DEF Grows
<1>4. \A s : s \in tables => s \in tables'
  BY DEF Grows
<1>5. session[q] \in hurt => session'[q] \in hurt'
  BY DEF Grows
<1> QED BY <1>1, <1>2, <1>3, <1>4, <1>5 DEF ProgressOf

(* ... and of steps of its own that change nothing it relies on.           *)
LEMMA IndexGrows ==
  ASSUME TypeOK, NEW g \in [Memories -> Nat], fts' = g,
         \A m \in Memories : fts[m] <= g[m]
  PROVE  Indexed \subseteq Indexed'
BY DEF TypeOK, Indexed

(* No statement of the migrations is ever refused.                         *)
LEMMA NeverRefused ==
  ASSUME TypeOK, NEW p \in Processes, ProgressOf(p), step[p] = "run"
  PROVE  ~ Refused(Statement(p))
<1>1. at[p].version \in {1, 2}
  BY DEF TypeOK, Versions, Current
<1>2. CASE at[p].version = 1
  <2>1. at[p].next \in 1 .. 5
    BY <1>2, StatementsAre DEF ProgressOf
  <2>2. at[p].next = 5 => "schema_version" \in tables
    <3>1. SUFFICES ASSUME at[p].next = 5 PROVE "schema_version" \in tables
      OBVIOUS
    <3>2. 1 \in 1 .. at[p].next - 1
      BY <3>1
    <3> QED BY <1>2, <3>2, StatementsAre DEF ProgressOf, AllTables, Base
  <2> QED BY <1>2, <2>1, <2>2, StatementsAre DEF Statement, Refused, AllTables, Base
<1>3. CASE at[p].version = 2
  <2>1. at[p].next \in 1 .. 2
    BY <1>3, StatementsAre DEF ProgressOf
  <2>2. at[p].next = 2 => "memories_fts" \in tables
    <3>1. SUFFICES ASSUME at[p].next = 2 PROVE "memories_fts" \in tables
      OBVIOUS
    <3>2. 1 \in 1 .. at[p].next - 1
      BY <3>1
    <3> QED BY <1>3, <3>2, StatementsAre DEF ProgressOf, AllTables, Base
  <2>3. "memories" \in tables
    BY <1>3 DEF ProgressOf, Base
  <2> QED BY <1>3, <2>1, <2>2, <2>3, StatementsAre DEF Statement, Refused, AllTables, Base
<1> QED BY <1>1, <1>2, <1>3

--------------------------------------------------------------------------------
(* What every step leaves of the other processes' own variables.           *)
OnlyOwn(p) ==
  \A q \in Processes \ {p} :
    /\ step'[q] = step[q] /\ at'[q] = at[q] /\ session'[q] = session[q]
    /\ seen'[q] = seen[q] /\ pending'[q] = pending[q]

Act(p) ==
  \/ Open(p) \/ Check(p) \/ ReadVersion(p) \/ LogStart(p)
  \/ CreateTable(p) \/ RecordVersion(p) \/ Populate(p) \/ StatementFails(p)
  \/ Succeed(p) \/ FailMigration(p) \/ OpenReader(p)
  \/ \E m \in Memories : RetainRow(p, m)
  \/ RetainIndex(p) \/ Close(p)

LEMMA StepIsOwn ==
  ASSUME TypeOK, NEW p \in Processes, Act(p)
  PROVE  OnlyOwn(p)
<1> USE DEF TypeOK, OnlyOwn, Goto, database, history
<1>1. CASE Open(p)
  BY <1>1 DEF Open
<1>2. CASE Check(p)
  BY <1>2 DEF Check
<1>3. CASE ReadVersion(p)
  BY <1>3 DEF ReadVersion
<1>4. CASE LogStart(p)
  BY <1>4 DEF LogStart
<1>5. CASE CreateTable(p)
  BY <1>5 DEF CreateTable, Advance
<1>6. CASE RecordVersion(p)
  BY <1>6 DEF RecordVersion, Advance
<1>7. CASE Populate(p)
  BY <1>7 DEF Populate, Advance
<1>8. CASE StatementFails(p)
  BY <1>8 DEF StatementFails
<1>9. CASE Succeed(p)
  BY <1>9 DEF Succeed
<1>10. CASE FailMigration(p)
  BY <1>10 DEF FailMigration
<1>11. CASE OpenReader(p)
  BY <1>11 DEF OpenReader
<1>12. ASSUME NEW m \in Memories, RetainRow(p, m)
       PROVE  OnlyOwn(p)
  BY <1>12 DEF RetainRow
<1>13. CASE RetainIndex(p)
  BY <1>13 DEF RetainIndex
<1>14. CASE Close(p)
  BY <1>14 DEF Close
<1> QED
  BY <1>1, <1>2, <1>3, <1>4, <1>5, <1>6, <1>7, <1>8, <1>9, <1>10, <1>11, <1>12,
     <1>13, <1>14 DEF Act

(* The database only grows.                                                *)
LEMMA StepGrows ==
  ASSUME TypeOK, NEW p \in Processes, ProgressOf(p), Act(p)
  PROVE  Grows
<1> USE DEF Grows, database, history
<1>0. tables \subseteq AllTables
  BY DEF TypeOK
<1>s. fts' = fts => Indexed' = Indexed
  BY DEF Indexed
<1>1. CASE Open(p)
  BY <1>1, <1>0, <1>s DEF Open
<1>2. CASE Check(p)
  BY <1>2, <1>0, <1>s DEF Check
<1>3. CASE ReadVersion(p)
  BY <1>3, <1>0, <1>s DEF ReadVersion
<1>4. CASE LogStart(p)
  BY <1>4, <1>0, <1>s DEF LogStart
<1>5. CASE CreateTable(p)
  BY <1>5, <1>0, <1>s DEF CreateTable
<1>6. CASE RecordVersion(p)
  BY <1>6, <1>0, <1>s DEF RecordVersion
<1>7. CASE Populate(p)
  <2>1. fts \in [Memories -> Nat]
    BY DEF TypeOK
  <2> DEFINE g == [m \in Memories |-> IF m \in rows THEN fts[m] + 1 ELSE fts[m]]
  <2>2. g \in [Memories -> Nat] /\ \A m \in Memories : fts[m] <= g[m]
    BY <2>1
  <2>3. fts' = g
    BY <1>7 DEF Populate
  <2> HIDE DEF g
  <2>4. Indexed \subseteq Indexed'
    BY <2>2, <2>3, IndexGrows
  <2> QED BY <1>7, <1>0, <2>4 DEF Populate
<1>8. CASE StatementFails(p)
  BY <1>8, <1>0, <1>s DEF StatementFails
<1>9. CASE Succeed(p)
  BY <1>9, <1>0, <1>s DEF Succeed
<1>10. CASE FailMigration(p)
  BY <1>10, <1>0, <1>s DEF FailMigration
<1>11. CASE OpenReader(p)
  BY <1>11, <1>0, <1>s DEF OpenReader
<1>12. ASSUME NEW m \in Memories, RetainRow(p, m)
       PROVE  Grows
  BY <1>12, <1>0, <1>s DEF RetainRow
<1>13. CASE RetainIndex(p)
  <2>1. fts \in [Memories -> Nat] /\ pending[p] \in Memories
    BY <1>13 DEF TypeOK, RetainIndex, ProgressOf
  <2> DEFINE g == [fts EXCEPT ![pending[p]] = @ + 1]
  <2>2. g \in [Memories -> Nat] /\ \A m \in Memories : fts[m] <= g[m]
    BY <2>1
  <2>3. fts' = g \/ fts' = fts
    BY <1>13 DEF RetainIndex
  <2> HIDE DEF g
  <2>4. Indexed \subseteq Indexed'
    BY <2>2, <2>3, <1>s, IndexGrows
  <2> QED BY <1>13, <1>0, <2>4 DEF RetainIndex
<1>14. CASE Close(p)
  BY <1>14, <1>0, <1>s DEF Close
<1> QED
  BY <1>1, <1>2, <1>3, <1>4, <1>5, <1>6, <1>7, <1>8, <1>9, <1>10, <1>11, <1>12,
     <1>13, <1>14 DEF Act

(* Types.                                                                  *)
LEMMA StepTypes ==
  ASSUME TypeOK, NEW p \in Processes, ProgressOf(p), Act(p)
  PROVE  TypeOK'
<1> USE MigrationsAssumption DEF TypeOK, Goto, database, history, Steps
<1>1. CASE Open(p)
  BY <1>1 DEF Open
<1>2. CASE Check(p)
  BY <1>2 DEF Check
<1>3. CASE ReadVersion(p)
  <2>1. Newest \in {0, 1, 3}
    BY NewestIs
  <2>2. step' \in [Processes -> Steps]
    BY <1>3 DEF ReadVersion
  <2>3. at' \in [Processes -> [version : Versions, next : 1 .. 6]]
    BY <1>3, <2>1 DEF ReadVersion, Versions, Current
  <2> QED BY <1>3, <2>2, <2>3 DEF ReadVersion
<1>v. step[p] # "closed" => session[p] \in Sessions /\ at[p].version \in Versions
  BY DEF ProgressOf
<1>l. ASSUME step[p] # "closed", NEW s \in Statuses, SetLog(p, s)
      PROVE  log' \in [Sessions -> [Versions -> Statuses]]
  BY <1>v, <1>l DEF SetLog
<1>u. Unlogged => log' = log /\ faults' \in 0 .. MaxFaults
  BY DEF Unlogged
<1>n. step[p] = "run" =>
        /\ at[p].next \in 1 .. 5
        /\ at[p].next = 5 => at[p].version = 1
        /\ Statement(p) = "record" => at[p].version = 1
  <2>1. at[p].version \in {1, 2}
    BY DEF Versions, Current
  <2>2. step[p] = "run" => at[p].next \in 1 .. Len(Statements(at[p].version))
    BY DEF ProgressOf
  <2>3. CASE at[p].version = 2
    <3>1. step[p] = "run" => at[p].next \in 1 .. 2
      BY <2>2, <2>3, StatementsAre
    <3>2. at[p].next \in 1 .. 2 => Statement(p) # "record"
      BY <2>3, StatementsAre DEF Statement
    <3> QED BY <3>1, <3>2
  <2>4. CASE at[p].version = 1
    BY <2>2, <2>4, StatementsAre
  <2> QED BY <2>1, <2>3, <2>4
<1>a. step[p] = "run" /\ Advance(p) =>
        /\ at' \in [Processes -> [version : Versions, next : 1 .. 6]]
        /\ step' \in [Processes -> Steps]
  BY <1>n DEF Advance
<1>4. CASE LogStart(p)
  BY <1>4, <1>l, <1>u DEF LogStart, Statuses
<1>5. CASE CreateTable(p)
  BY <1>5, <1>a DEF CreateTable
<1>6. CASE RecordVersion(p)
  BY <1>6, <1>a, <1>n DEF RecordVersion
<1>7. CASE Populate(p)
  BY <1>7, <1>a DEF Populate
<1>8. CASE StatementFails(p)
  BY <1>8, <1>v, NeverRefused DEF StatementFails
<1>9. CASE Succeed(p)
  <2>1. log' \in [Sessions -> [Versions -> Statuses]] /\ faults' \in 0 .. MaxFaults
    BY <1>9, <1>l, <1>u DEF Succeed, Statuses
  <2>2. at' \in [Processes -> [version : Versions, next : 1 .. 6]]
    BY <1>9 DEF Succeed, Versions, Current
  <2> QED BY <1>9, <2>1, <2>2 DEF Succeed
<1>10. CASE FailMigration(p)
  BY <1>10, <1>l, <1>u DEF FailMigration, Statuses
<1>11. CASE OpenReader(p)
  BY <1>11, <1>v DEF OpenReader
<1>12. ASSUME NEW m \in Memories, RetainRow(p, m)
       PROVE  TypeOK'
  BY <1>12 DEF RetainRow
<1>13. CASE RetainIndex(p)
  BY <1>13 DEF RetainIndex, ProgressOf
<1>14. CASE Close(p)
  BY <1>14 DEF Close
<1> QED
  BY <1>1, <1>2, <1>3, <1>4, <1>5, <1>6, <1>7, <1>8, <1>9, <1>10, <1>11, <1>12,
     <1>13, <1>14 DEF Act

--------------------------------------------------------------------------------
(* The own progress of the process that moves.                             *)
LEMMA StepProgress ==
  ASSUME IInv, TypeOK', NEW p \in Processes, Act(p), Grows
  PROVE  ProgressOf(p)'
<1> USE DEF Goto, database, history
<1>p. ProgressOf(p)
  BY DEF IInv
<1>t. /\ step \in [Processes -> Steps] /\ session \in [Processes -> 0 .. MaxOpens]
      /\ at \in [Processes -> [version : Versions, next : 1 .. 6]]
      /\ pending \in [Processes -> Memories \cup {None}]
      /\ fts \in [Memories -> Nat] /\ seen \in [Processes -> SUBSET Memories]
      /\ rows \subseteq Memories /\ tables \subseteq AllTables /\ opens \in 0 .. MaxOpens
      /\ recorded \subseteq {1, Current + 1}
  BY DEF IInv, TypeOK
<1>i. at[p].version \in {1, 2}
  BY <1>t DEF Versions, Current
<1>g. /\ tables \subseteq tables' /\ tables' \subseteq AllTables
      /\ Indexed \subseteq Indexed' /\ hurt \subseteq hurt'
  BY DEF Grows
<1>b. Base \subseteq AllTables
  BY DEF AllTables
<1>1. CASE Open(p)
  BY <1>1, <1>t, MigrationsAssumption DEF Open, ProgressOf, Ready, Sessions
<1>2. CASE Check(p)
  BY <1>2, <1>t, <1>p, <1>g DEF Check, ProgressOf, Ready
<1>3. CASE ReadVersion(p)
  <2>1. Current + 1 \notin recorded
    BY <1>3 DEF ReadVersion, IInv, VersionsTrue
  <2>2. Newest = (IF 1 \in recorded THEN 1 ELSE 0)
    BY <2>1, <1>t, NewestIs
  <2>3. step'[p] = "log" /\ at'[p] = [version |-> Newest + 1, next |-> 1]
    BY <1>3, <2>2, <1>t DEF ReadVersion, Current
  <2>4. 1 \in recorded => Base \subseteq tables'
    BY <1>g DEF IInv, VersionsTrue
  <2>5. at'[p].version = 2 => Base \subseteq tables'
    BY <2>2, <2>3, <2>4
  <2>6. session'[p] \in Sessions
    BY <1>3, <1>p DEF ReadVersion, ProgressOf
  <2> QED BY <2>3, <2>5, <2>6 DEF ProgressOf, Ready
<1>4. CASE LogStart(p)
  <2>1. step'[p] = "run" /\ at' = at /\ session' = session /\ step[p] = "log"
    BY <1>4, <1>t DEF LogStart
  <2>2. at[p].next = 1 /\ at'[p].next \in 1 .. Len(Statements(at'[p].version))
    BY <2>1, <1>p, <1>i, StatementsAre DEF ProgressOf
  <2> QED BY <2>1, <2>2, <1>p, <1>g DEF ProgressOf, Ready
<1>r. ASSUME step[p] = "run", Advance(p), session' = session, seen' = seen,
             Statement(p) \in AllTables => Statement(p) \in tables',
             Statement(p) = "populate" => seen[p] \subseteq Indexed'
      PROVE  ProgressOf(p)'
  <2> DEFINE v == at[p].version
             n == at[p].next
  <2>1. /\ at'[p].version = v /\ at'[p].next = n + 1
        /\ step'[p] = IF n < Len(Statements(v)) THEN "run" ELSE "succeed"
    BY <1>r, <1>t DEF Advance
  <2>2. n \in 1 .. Len(Statements(v)) /\ session[p] \in Sessions
    BY <1>r, <1>p DEF ProgressOf
  <2>3. \A i \in 1 .. n : Statements(v)[i] \in AllTables => Statements(v)[i] \in tables'
    <3>1. TAKE i \in 1 .. n
    <3>2. CASE i = n
      BY <3>2, <1>r DEF Statement
    <3>3. CASE i # n
      <4>1. i \in 1 .. n - 1
        BY <3>3, <2>2
      <4> QED BY <4>1, <1>r, <1>p, <1>g DEF ProgressOf
    <3> QED BY <3>2, <3>3
  <2>4. Len(Statements(v)) \in Nat
    BY <1>i, StatementsAre
  <2>5. CASE n < Len(Statements(v))
    <3>1. n + 1 \in 1 .. Len(Statements(v)) /\ (n + 1) - 1 = n
      BY <2>2, <2>4, <2>5
    <3>2. v = 2 => Base \subseteq tables'
      BY <1>r, <1>p, <1>g DEF ProgressOf
    <3>3. step'[p] = "run"
      BY <2>1, <2>5
    <3>4. session'[p] \in Sessions
      BY <2>2, <1>r
    <3> HIDE DEF v, n
    <3> QED BY <2>1, <2>3, <3>1, <3>2, <3>3, <3>4 DEF ProgressOf, Ready
  <2>6. CASE ~ (n < Len(Statements(v)))
    <3>0. step'[p] = "succeed" /\ n = Len(Statements(v))
      BY <2>1, <2>2, <2>4, <2>6
    <3>1. CASE v = 1
      <4>1. n = 5
        BY <3>0, <3>1, StatementsAre
      <4>2. Base \subseteq tables'
        <5>1. 1 \in 1 .. n /\ 2 \in 1 .. n /\ 3 \in 1 .. n /\ 4 \in 1 .. n
          BY <4>1
        <5> QED BY <2>3, <5>1, <3>1, StatementsAre DEF Base, AllTables
      <4>3. session'[p] \in Sessions
        BY <2>2, <1>r
      <4> QED BY <3>0, <3>1, <4>2, <4>3, <2>1 DEF ProgressOf, Ready
    <3>2. CASE v = 2
      <4>1. n = 2
        BY <3>0, <3>2, StatementsAre
      <4>2. Base \subseteq tables'
        BY <1>r, <1>p, <1>g, <3>2 DEF ProgressOf
      <4>3. "memories_fts" \in tables'
        <5>1. 1 \in 1 .. n
          BY <4>1
        <5> QED BY <2>3, <5>1, <3>2, StatementsAre DEF AllTables
      <4>4. tables' = AllTables
        BY <4>2, <4>3, <1>g DEF AllTables
      <4>5. seen'[p] \subseteq Indexed'
        BY <4>1, <3>2, <1>r, StatementsAre DEF Statement
      <4>6. session'[p] \in Sessions
        BY <2>2, <1>r
      <4> QED BY <3>0, <3>2, <4>2, <4>4, <4>5, <4>6, <2>1 DEF ProgressOf, Ready
    <3> QED BY <1>i, <3>1, <3>2
  <2> QED BY <2>5, <2>6
<1>5. CASE CreateTable(p)
  <2>1. Statement(p) # "populate"
    BY <1>5 DEF CreateTable, AllTables, Base
  <2> QED BY <1>5, <1>r, <2>1 DEF CreateTable
<1>6. CASE RecordVersion(p)
  <2>1. Statement(p) # "populate" /\ Statement(p) \notin AllTables
    BY <1>6 DEF RecordVersion, AllTables, Base
  <2> QED BY <1>6, <1>r, <2>1 DEF RecordVersion
<1>7. CASE Populate(p)
  <2>1. Statement(p) \notin AllTables
    BY <1>7 DEF Populate, AllTables, Base
  <2>2. \A m \in rows : m \in Memories /\ fts'[m] > 0
    BY <1>7, <1>t DEF Populate
  <2>3. seen[p] \subseteq Indexed'
    BY <2>2 DEF Indexed, IInv, SeenWereRows
  <2> QED BY <1>7, <1>r, <2>1, <2>3 DEF Populate
<1>8. CASE StatementFails(p)
  <2>1. ~ Refused(Statement(p))
    BY <1>8, <1>p, NeverRefused DEF StatementFails, IInv
  <2>2. step'[p] = "fail" /\ session'[p] \in hurt' /\ session'[p] \in Sessions
    BY <1>8, <2>1, <1>t, <1>p DEF StatementFails, ProgressOf
  <2> QED BY <2>2 DEF ProgressOf, Ready
<1>9. CASE Succeed(p)
  <2>1. session'[p] \in Sessions
    BY <1>9, <1>p DEF Succeed, ProgressOf
  <2>2. CASE at[p].version = 1
    <3>1. step'[p] = "log" /\ at'[p] = [version |-> 2, next |-> 1]
      BY <1>9, <2>2, <1>t DEF Succeed, Current
    <3>2. Base \subseteq tables'
      BY <1>9, <2>2, <1>p, <1>g DEF Succeed, ProgressOf
    <3> QED BY <3>1, <3>2, <2>1 DEF ProgressOf, Ready
  <2>3. CASE at[p].version = 2
    <3>1. step'[p] = "reader"
      BY <1>9, <2>3, <1>t DEF Succeed, Current
    <3>2. tables' = AllTables /\ seen'[p] \subseteq Indexed'
      BY <1>9, <2>3, <1>p, <1>g DEF Succeed, ProgressOf
    <3> QED BY <3>1, <3>2, <2>1 DEF ProgressOf, Ready
  <2> QED BY <1>i, <2>2, <2>3
<1>10. CASE FailMigration(p)
  BY <1>10, <1>p, <1>t DEF FailMigration, ProgressOf, Ready
<1>11. CASE OpenReader(p)
  <2>1. tables' = AllTables /\ seen'[p] \subseteq Indexed' /\ session'[p] \in Sessions
    BY <1>11, <1>p, <1>g DEF OpenReader, ProgressOf, Ready
  <2>2. step'[p] = "open" \/ (step'[p] = "failed" /\ session'[p] \in hurt')
    BY <1>11, <1>t DEF OpenReader
  <2> QED BY <2>1, <2>2 DEF ProgressOf, Ready
<1>12. ASSUME NEW m \in Memories, RetainRow(p, m)
       PROVE  ProgressOf(p)'
  <2>1. tables' = AllTables /\ seen'[p] \subseteq Indexed' /\ session'[p] \in Sessions
    BY <1>12, <1>p, <1>g DEF RetainRow, ProgressOf, Ready
  <2>2. step'[p] = "index" /\ pending'[p] \in Memories
    BY <1>12, <1>t DEF RetainRow
  <2> QED BY <2>1, <2>2 DEF ProgressOf, Ready
<1>13. CASE RetainIndex(p)
  <2>1. tables' = AllTables /\ seen'[p] \subseteq Indexed' /\ session'[p] \in Sessions
    BY <1>13, <1>p, <1>g DEF RetainIndex, ProgressOf, Ready
  <2>2. step'[p] = "open"
    BY <1>13, <1>t DEF RetainIndex
  <2> QED BY <2>1, <2>2 DEF ProgressOf, Ready
<1>14. CASE Close(p)
  <2>1. step'[p] = "closed"
    BY <1>14, <1>t DEF Close
  <2> QED BY <2>1 DEF ProgressOf, Ready
<1> QED
  BY <1>1, <1>2, <1>3, <1>4, <1>5, <1>6, <1>7, <1>8, <1>9, <1>10, <1>11, <1>12,
     <1>13, <1>14 DEF Act

--------------------------------------------------------------------------------
(* Recorded versions stay true.                                            *)
LEMMA StepVersions ==
  ASSUME IInv, NEW p \in Processes, Act(p), Grows
  PROVE  VersionsTrue'
<1> USE DEF Goto, database, history
<1>t. /\ step \in [Processes -> Steps] /\ recorded \subseteq {1, Current + 1}
      /\ at[p].version \in {1, 2}
  BY DEF IInv, TypeOK, Versions, Current
<1>p. ProgressOf(p)
  BY DEF IInv
<1>1. CASE RecordVersion(p)
  <2>1. step[p] = "run" /\ Statement(p) = "record"
    BY <1>1 DEF RecordVersion
  <2>2. at[p].next \in 1 .. Len(Statements(at[p].version))
    BY <2>1, <1>p DEF ProgressOf
  <2>3. at[p].version # 2
    <3>1. SUFFICES ASSUME at[p].version = 2 PROVE FALSE
      OBVIOUS
    <3>2. at[p].next \in 1 .. 2
      BY <2>2, <3>1, StatementsAre
    <3> QED BY <2>1, <3>1, <3>2, StatementsAre DEF Statement
  <2>4. at[p].version = 1 /\ at[p].next \in 1 .. 5
    BY <2>2, <2>3, <1>t, StatementsAre
  <2>5. at[p].next = 5
    BY <2>1, <2>4, StatementsAre DEF Statement
  <2>6. Base \subseteq tables
    <3>1. /\ 1 \in 1 .. at[p].next - 1 /\ 2 \in 1 .. at[p].next - 1
          /\ 3 \in 1 .. at[p].next - 1 /\ 4 \in 1 .. at[p].next - 1
      BY <2>5
    <3> QED BY <1>p, <2>1, <2>4, <3>1, StatementsAre DEF ProgressOf, Base, AllTables
  <2>7. Current + 1 \notin recorded
    BY <2>1 DEF IInv, VersionsTrue
  <2>8. recorded' = recorded \cup {1} /\ tables' = tables
    BY <1>1, <2>4 DEF RecordVersion
  <2> QED BY <2>6, <2>7, <2>8 DEF VersionsTrue, Current
<1>2. ASSUME recorded' = recorded,
             Current + 1 \in recorded => step'[p] \in {"closed", "check", "refused"}
      PROVE  VersionsTrue'
  <2>1. \A q \in Processes \ {p} : step'[q] = step[q]
    BY StepIsOwn DEF OnlyOwn, IInv
  <2> QED BY <1>2, <2>1 DEF VersionsTrue, IInv, Grows
<1>3. CASE step[p] \in {"closed", "check", "refused"}
  <2>1. CASE Open(p)
    <3>1. recorded' = recorded /\ step'[p] = "check"
      BY <2>1, <1>t DEF Open
    <3> QED BY <3>1, <1>2
  <2>2. CASE Check(p)
    <3>1. Current + 1 \in recorded => Newest = 3
      BY <1>t, NewestIs
    <3>2. Current + 1 \in recorded => step'[p] = "refused"
      BY <2>2, <3>1, <1>t DEF Check, Current
    <3> QED BY <2>2, <3>2, <1>2 DEF Check
  <2>3. CASE Close(p)
    <3>1. recorded' = recorded /\ step'[p] = "closed"
      BY <2>3, <1>t DEF Close
    <3> QED BY <3>1, <1>2
  <2> QED
    BY <1>3, <2>1, <2>2, <2>3
    DEF Act, ReadVersion, LogStart, CreateTable, RecordVersion, Populate,
        StatementFails, Succeed, FailMigration, OpenReader, RetainRow, RetainIndex
<1>4. CASE step[p] \notin {"closed", "check", "refused"} /\ ~ RecordVersion(p)
  <2>1. Current + 1 \notin recorded
    BY <1>4 DEF IInv, VersionsTrue
  <2>2. recorded' = recorded
    BY <1>4
    DEF Act, Open, Check, ReadVersion, LogStart, CreateTable, Populate, StatementFails,
        Succeed, FailMigration, OpenReader, RetainRow, RetainIndex, Close
  <2> QED BY <2>1, <2>2, <1>2
<1> QED BY <1>1, <1>3, <1>4

(* Rows are never removed, so what an opening has seen is still there.     *)
LEMMA StepSeen ==
  ASSUME IInv, NEW p \in Processes, Act(p)
  PROVE  SeenWereRows'
<1> USE DEF database, history
<1>1. rows \subseteq rows'
  BY DEF Act, Open, Check, ReadVersion, LogStart, CreateTable, RecordVersion, Populate,
         StatementFails, Succeed, FailMigration, OpenReader, RetainRow, RetainIndex, Close
<1>2. seen' = seen \/ seen' = [seen EXCEPT ![p] = rows]
  BY DEF Act, Open, Check, ReadVersion, LogStart, CreateTable, RecordVersion, Populate,
         StatementFails, Succeed, FailMigration, OpenReader, RetainRow, RetainIndex, Close
<1>3. seen \in [Processes -> SUBSET Memories] /\ \A q \in Processes : seen[q] \subseteq rows
  BY DEF IInv, TypeOK, SeenWereRows
<1> QED BY <1>1, <1>2, <1>3 DEF SeenWereRows

(* The log stays true.                                                     *)
LEMMA StepLog ==
  ASSUME IInv, NEW p \in Processes, Act(p), Grows
  PROVE  LogTellsOutcome'
<1> USE DEF database, history
<1>t. /\ log \in [Sessions -> [Versions -> Statuses]] /\ at[p].version \in {1, 2}
      /\ tables \subseteq AllTables
  BY DEF IInv, TypeOK, Versions, Current
<1>p. ProgressOf(p)
  BY DEF IInv
<1>0. ASSUME NEW s \in Sessions, NEW v \in Versions, log'[s][v] = log[s][v]
      PROVE  /\ log'[s][v] = "success" =>
                  IF v = 1 THEN Base \subseteq tables' ELSE tables' = AllTables
             /\ log'[s][v] = "failed" => s \in hurt'
  BY <1>0 DEF IInv, LogTellsOutcome, Grows
<1>1. CASE log' = log
  BY <1>1, <1>0 DEF LogTellsOutcome
<1>2. ASSUME step[p] # "closed", NEW x, SetLog(p, x),
             x = "success" =>
               IF at[p].version = 1 THEN Base \subseteq tables' ELSE tables' = AllTables,
             x = "failed" => session[p] \in hurt'
      PROVE  LogTellsOutcome'
  <2>1. session[p] \in Sessions
    BY <1>2, <1>p DEF ProgressOf
  <2>2. \A s \in Sessions, v \in Versions :
          log'[s][v] = IF s = session[p] /\ v = at[p].version THEN x ELSE log[s][v]
    BY <1>2, <2>1, <1>t DEF SetLog, Versions, Current
  <2> QED BY <1>2, <2>2, <1>0 DEF LogTellsOutcome
<1>3. CASE LogStart(p)
  <2>1. log' = log \/ SetLog(p, "in_progress")
    BY <1>3 DEF LogStart, Unlogged
  <2> QED BY <1>3, <2>1, <1>1, <1>2 DEF LogStart
<1>4. CASE Succeed(p)
  <2>1. log' = log \/ SetLog(p, "success")
    BY <1>4 DEF Succeed, Unlogged
  <2>2. at[p].version = 1 => Base \subseteq tables'
    BY <1>4, <1>p DEF Succeed, ProgressOf, Grows
  <2>3. at[p].version = 2 => tables' = AllTables
    BY <1>4, <1>p DEF Succeed, ProgressOf, Grows
  <2> QED BY <1>4, <2>1, <2>2, <2>3, <1>1, <1>2, <1>t DEF Succeed
<1>5. CASE FailMigration(p)
  <2>1. log' = log \/ SetLog(p, "failed")
    BY <1>5 DEF FailMigration, Unlogged
  <2>2. session[p] \in hurt'
    BY <1>5, <1>p DEF FailMigration, ProgressOf, Grows
  <2> QED BY <1>5, <2>1, <2>2, <1>1, <1>2 DEF FailMigration
<1>6. CASE ~ LogStart(p) /\ ~ Succeed(p) /\ ~ FailMigration(p)
  <2>1. log' = log
    BY <1>6
    DEF Act, Open, Check, ReadVersion, CreateTable, RecordVersion, Populate, StatementFails,
        OpenReader, RetainRow, RetainIndex, Close
  <2> QED BY <2>1, <1>1
<1> QED BY <1>3, <1>4, <1>5, <1>6

--------------------------------------------------------------------------------
(* The inductive invariant.                                                *)
LEMMA InitInv == Init => IInv
<1> SUFFICES ASSUME Init PROVE IInv
  OBVIOUS
<1> USE MigrationsAssumption DEF Init
<1>0. /\ tables \subseteq AllTables /\ recorded \subseteq {1, Current + 1}
      /\ rows \subseteq Memories /\ (1 \in recorded => Base \subseteq tables)
  BY DEF Fresh, FirstRelease, LaterRelease, AllTables
<1>1. TypeOK
  BY <1>0 DEF TypeOK, Steps, Statuses, Versions, Current
<1>2. VersionsTrue /\ SeenWereRows
  BY <1>0 DEF VersionsTrue, SeenWereRows
<1>3. \A p \in Processes : ProgressOf(p)
  BY DEF ProgressOf, Ready
<1>4. LogTellsOutcome
  BY DEF LogTellsOutcome
<1> QED BY <1>1, <1>2, <1>3, <1>4 DEF IInv

LEMMA NextInv == IInv /\ [Next]_vars => IInv'
<1> SUFFICES ASSUME IInv, [Next]_vars PROVE IInv'
  OBVIOUS
<1>1. ASSUME NEW p \in Processes, Act(p)
      PROVE  IInv'
  <2>1. TypeOK /\ ProgressOf(p)
    BY DEF IInv
  <2>2. TypeOK' /\ Grows /\ OnlyOwn(p)
    BY <1>1, <2>1, StepTypes, StepGrows, StepIsOwn
  <2>3. VersionsTrue' /\ SeenWereRows' /\ LogTellsOutcome'
    BY <1>1, <2>2, StepVersions, StepSeen, StepLog
  <2>4. ProgressOf(p)'
    BY <1>1, <2>2, StepProgress
  <2>5. \A q \in Processes : ProgressOf(q)'
    <3>1. TAKE q \in Processes
    <3>2. CASE q = p
      BY <2>4, <3>2
    <3>3. CASE q # p
      BY <2>2, <3>3, OthersKeep DEF OnlyOwn, IInv
    <3> QED BY <3>2, <3>3
  <2> QED BY <2>2, <2>3, <2>5 DEF IInv
<1>2. CASE UNCHANGED vars
  <2>1. TypeOK'
    BY <1>2 DEF IInv, TypeOK, vars, database, history
  <2>2. VersionsTrue' /\ SeenWereRows' /\ LogTellsOutcome'
    BY <1>2 DEF IInv, VersionsTrue, SeenWereRows, LogTellsOutcome, vars, database, history
  <2>3. Indexed' = Indexed
    BY <1>2 DEF Indexed, vars, database
  <2>4. \A p \in Processes : ProgressOf(p)'
    BY <1>2, <2>3 DEF IInv, ProgressOf, vars, database, history
  <2> QED BY <2>1, <2>2, <2>4 DEF IInv
<1>3. Next => \E p \in Processes : Act(p)
  BY DEF Next, Act
<1> QED BY <1>1, <1>2, <1>3

LEMMA SpecInv == Spec => []IInv
BY InitInv, NextInv, PTL DEF Spec

(* Types, for any number of processes that open the database.              *)
THEOREM MigrationsTypes == Spec => []TypeOK
<1>1. IInv => TypeOK
  BY DEF IInv
<1> QED BY <1>1, SpecInv, PTL

(* Whoever has opened the database finds all its tables and no version it  *)
(* does not know.                                                          *)
THEOREM OpenedIsReady == Spec => []OpenIsReady
<1>1. IInv => OpenIsReady
  <2> SUFFICES ASSUME IInv, NEW p \in Processes, step[p] \in Ready
               PROVE  tables = AllTables /\ Newest <= Current
    BY DEF OpenIsReady
  <2>1. tables = AllTables
    BY DEF IInv, ProgressOf
  <2>2. Current + 1 \notin recorded
    BY DEF IInv, VersionsTrue, Ready
  <2>3. Newest \in {0, 1}
    BY <2>2, NewestIs DEF IInv, TypeOK
  <2> QED BY <2>1, <2>3 DEF Current
<1> QED BY <1>1, SpecInv, PTL

(* No state that exits, failures or other processes leave behind makes a   *)
(* later opening fail.                                                     *)
THEOREM OpeningsRecover == Spec => []OnlyFaultsFail
<1>1. IInv => OnlyFaultsFail
  BY DEF IInv, OnlyFaultsFail, ProgressOf
<1> QED BY <1>1, SpecInv, PTL

(* Every opening leaves the memories it found in the full-text index.      *)
THEOREM OpeningsRepairIndex == Spec => []OpenRepairsIndex
<1>1. IInv => OpenRepairsIndex
  BY DEF IInv, OpenRepairsIndex, ProgressOf
<1> QED BY <1>1, SpecInv, PTL

(* The migration log never claims what did not happen.                     *)
THEOREM LogIsTrue == Spec => []LogTellsOutcome
<1>1. IInv => LogTellsOutcome
  BY DEF IInv
<1> QED BY <1>1, SpecInv, PTL

--------------------------------------------------------------------------------
(* The checkpoint of a reindex.  A save is under way only for the count    *)
(* that began last, unless the file was cleared meanwhile.                 *)
CheckpointInv ==
  /\ checkpoint \in Nat \cup {Absent, Torn}
  /\ saving \in Nat \cup {NoCount}
  /\ started \in Nat \cup {NoCount}
  /\ checkpoint = Absent <=> started = NoCount
  /\ checkpoint \in Nat => checkpoint = started
  /\ saving # NoCount /\ checkpoint # Absent => saving = started

LEMMA CheckpointStepInv == CheckpointInv /\ [WorkspaceNext]_workspaceVars => CheckpointInv'
<1> SUFFICES ASSUME CheckpointInv, [WorkspaceNext]_workspaceVars PROVE CheckpointInv'
  OBVIOUS
<1> USE DEF CheckpointInv, Absent, Torn, NoCount
<1>1. ASSUME NEW n \in 0 .. MaxProcessed, BeginSave(n) PROVE CheckpointInv'
  BY <1>1, WorkspaceAssumption DEF BeginSave
<1>2. CASE FinishSave
  BY <1>2 DEF FinishSave
<1>3. CASE BreakSave
  BY <1>3 DEF BreakSave
<1>4. CASE ClearReindexState
  BY <1>4 DEF ClearReindexState
<1>5. CASE UNCHANGED checkpointVars
  BY <1>5 DEF checkpointVars
<1>6. BackupStep => UNCHANGED checkpointVars
  BY DEF BackupStep, Tick, BeginBackup, WriteBackup, BreakBackup, BeginCleanup, ReadEntry,
         RemoveNext, FinishCleanup, FailCleanup
<1> QED
  BY <1>1, <1>2, <1>3, <1>4, <1>5, <1>6
  DEF WorkspaceNext, CheckpointStep, workspaceVars, checkpointVars

(* A checkpoint is never answered with a count that is not the last one    *)
(* begun, and a broken one never counts as none.                           *)
THEOREM CheckpointIsHonest == WorkspaceSpec => []TornIsReported
<1>1. WorkspaceInit => CheckpointInv
  BY DEF WorkspaceInit, CheckpointInv, Absent, NoCount
<1>2. CheckpointInv => TornIsReported
  BY DEF CheckpointInv, TornIsReported, LoadReindexState, Absent, Torn, NoCount
<1> QED BY <1>1, <1>2, CheckpointStepInv, PTL DEF WorkspaceSpec

--------------------------------------------------------------------------------
(* Backups.  An entry is what the clean-up has listed of a file.           *)
Entries == [path : Path, mtime : Nat]

(* The entries that the sort puts in front of another. *)
InFront(listed, i) ==
  {j \in DOMAIN listed : \/ listed[j].mtime > listed[i].mtime
                         \/ (listed[j].mtime = listed[i].mtime /\ j < i)}

(* The parts of a listed entry.                                            *)
LEMMA EntryTypes ==
  ASSUME NEW listed \in Seq(Entries), NEW i \in DOMAIN listed
  PROVE  i \in Nat /\ listed[i] \in Entries /\ listed[i].mtime \in Nat /\ listed[i].path \in Path
<1>1. Len(listed) \in Nat /\ DOMAIN listed = 1 .. Len(listed)
  OBVIOUS
<1>2. listed[i] \in Entries
  BY <1>1
<1> QED BY <1>1, <1>2 DEF Entries

(* A rank counts finitely many entries.                                    *)
LEMMA InFrontFinite ==
  ASSUME NEW listed \in Seq(Entries), NEW i \in DOMAIN listed
  PROVE  /\ IsFiniteSet(DOMAIN listed) /\ IsFiniteSet(InFront(listed, i))
         /\ Rank(listed, i) = Cardinality(InFront(listed, i))
         /\ Rank(listed, i) \in Nat
<1>1. Len(listed) \in Nat /\ DOMAIN listed = 1 .. Len(listed)
  OBVIOUS
<1>2. IsFiniteSet(1 .. Len(listed))
  BY <1>1, FS_Interval
<1>3. IsFiniteSet(DOMAIN listed)
  BY <1>1, <1>2
<1>4. InFront(listed, i) \subseteq DOMAIN listed
  BY DEF InFront
<1>5. IsFiniteSet(InFront(listed, i))
  BY <1>3, <1>4, FS_Subset
<1>6. Rank(listed, i) = Cardinality(InFront(listed, i))
  BY DEF Rank, InFront
<1> QED BY <1>3, <1>5, <1>6, FS_CardinalityType

(* The sort orders any two entries, and ranks follow it.                   *)
LEMMA InFrontOrders ==
  ASSUME NEW listed \in Seq(Entries), NEW i \in DOMAIN listed, NEW j \in DOMAIN listed
  PROVE  /\ i \in InFront(listed, j) => Rank(listed, i) < Rank(listed, j)
         /\ i = j \/ i \in InFront(listed, j) \/ j \in InFront(listed, i)
<1>1. \A k \in DOMAIN listed : listed[k].mtime \in Nat /\ k \in Nat
  BY EntryTypes
<1>2. ASSUME i \in InFront(listed, j)
      PROVE  Rank(listed, i) < Rank(listed, j)
  <2>1. InFront(listed, i) \subseteq InFront(listed, j)
    BY <1>1, <1>2 DEF InFront
  <2>2. i \notin InFront(listed, i)
    BY <1>1 DEF InFront
  <2>3. /\ Cardinality(InFront(listed, i)) <= Cardinality(InFront(listed, j))
        /\ Cardinality(InFront(listed, i)) # Cardinality(InFront(listed, j))
    BY <2>1, <2>2, <1>2, InFrontFinite, FS_Subset
  <2> QED BY <2>3, InFrontFinite
<1>3. i = j \/ i \in InFront(listed, j) \/ j \in InFront(listed, i)
  BY <1>1 DEF InFront
<1> QED BY <1>2, <1>3

(* Each place in the sorted list is the rank of exactly one entry.         *)
LEMMA RankIsPlace ==
  ASSUME NEW listed \in Seq(Entries)
  PROVE  /\ \A i \in DOMAIN listed : Rank(listed, i) \in 0 .. Len(listed) - 1
         /\ \A i, j \in DOMAIN listed : Rank(listed, i) = Rank(listed, j) => i = j
         /\ \A r \in 0 .. Len(listed) - 1 : \E i \in DOMAIN listed : Rank(listed, i) = r
<1> DEFINE n == Len(listed)
           D == DOMAIN listed
           f == [i \in D |-> Rank(listed, i)]
<1>1. n \in Nat /\ D = 1 .. n
  OBVIOUS
<1>2. IsFiniteSet(D) /\ Cardinality(D) = n
  BY <1>1, FS_Interval
<1>3. ASSUME NEW i \in D PROVE Rank(listed, i) \in 0 .. n - 1
  <2>1. i \notin InFront(listed, i)
    BY EntryTypes DEF InFront
  <2>2. InFront(listed, i) \subseteq D \ {i}
    BY <2>1 DEF InFront
  <2>3. IsFiniteSet(D \ {i}) /\ Cardinality(D \ {i}) = n - 1
    BY <1>2, FS_RemoveElement
  <2>4. Cardinality(InFront(listed, i)) <= n - 1
    BY <2>2, <2>3, FS_Subset
  <2> QED BY <2>4, <1>1, InFrontFinite
<1>4. \A i, j \in D : Rank(listed, i) = Rank(listed, j) => i = j
  BY InFrontOrders, InFrontFinite
<1>5. IsFiniteSet(0 .. n - 1) /\ Cardinality(0 .. n - 1) = n
  BY <1>1, FS_Interval
<1> HIDE DEF n, D
<1>6. f \in [D -> 0 .. n - 1]
  BY <1>3
<1>7. \A i, j \in D : f[i] = f[j] => i = j
  BY <1>4
<1> HIDE DEF f
<1>8. f \in Injection(D, 0 .. n - 1)
  BY <1>6, <1>7, Fun_IsInj
<1>9. f \in Surjection(D, 0 .. n - 1)
  BY <1>2, <1>5, <1>8, FS_Injection
<1>10. \A r \in 0 .. n - 1 : \E i \in D : f[i] = r
  BY <1>9, Fun_SurjectionProperties
<1> QED BY <1>3, <1>4, <1>10 DEF f, n, D

(* What is surplus is listed, behind the first `keep`.                     *)
LEMMA SurplusIs ==
  ASSUME NEW listed \in Seq(Entries), NEW keep \in Nat, NEW k \in DOMAIN Surplus(listed, keep)
  PROVE  \E i \in DOMAIN listed : Surplus(listed, keep)[k] = listed[i] /\ Rank(listed, i) >= keep
<1>1. Len(listed) \in Nat /\ k \in 1 .. Len(listed) - keep
  BY DEF Surplus
<1> DEFINE i == CHOOSE i \in DOMAIN listed : Rank(listed, i) = keep + k - 1
<1>2. keep + k - 1 \in 0 .. Len(listed) - 1 /\ keep + k - 1 >= keep
  BY <1>1
<1>3. \E j \in DOMAIN listed : Rank(listed, j) = keep + k - 1
  BY <1>2, RankIsPlace
<1>4. i \in DOMAIN listed /\ Rank(listed, i) = keep + k - 1
  BY <1>3
<1>5. Surplus(listed, keep)[k] = listed[i]
  BY <1>1 DEF Surplus
<1> QED BY <1>2, <1>4, <1>5

(* The surplus is a sequence, also when there are too few entries.         *)
LEMMA SurplusSeq ==
  ASSUME NEW listed \in Seq(Entries), NEW keep \in Nat
  PROVE  Surplus(listed, keep) \in Seq(Entries)
<1>1. \A k \in DOMAIN Surplus(listed, keep) : Surplus(listed, keep)[k] \in Entries
  BY SurplusIs
<1>2. Len(listed) \in Nat
  OBVIOUS
<1>3. \E n \in Nat : 1 .. Len(listed) - keep = 1 .. n
  <2>1. CASE Len(listed) - keep \in Nat
    BY <2>1
  <2>2. CASE Len(listed) - keep < 0
    BY <2>2, <1>2, 1 .. Len(listed) - keep = 1 .. 0
  <2> QED BY <2>1, <2>2, <1>2
<1>4. PICK n \in Nat : 1 .. Len(listed) - keep = 1 .. n
  BY <1>3
<1>5. Surplus(listed, keep) \in [1 .. n -> Entries]
  BY <1>1, <1>4 DEF Surplus
<1> QED BY <1>5

(* Of the entries in front of the surplus there are `keep`, none older. *)
LEMMA KeptAreNewer ==
  ASSUME NEW listed \in Seq(Entries), NEW keep \in Nat, NEW i \in DOMAIN listed, Rank(listed, i) >= keep
  PROVE  LET kept == {j \in DOMAIN listed : Rank(listed, j) < keep}
         IN  /\ IsFiniteSet(kept) /\ Cardinality(kept) = keep
             /\ \A j \in kept : listed[j].mtime >= listed[i].mtime
<1> DEFINE kept == {j \in DOMAIN listed : Rank(listed, j) < keep}
           f == [j \in kept |-> Rank(listed, j)]
<1>1. IsFiniteSet(kept)
  <2>1. kept \subseteq DOMAIN listed
    OBVIOUS
  <2> QED BY <2>1, InFrontFinite, FS_Subset
<1>2. IsFiniteSet(0 .. keep - 1) /\ Cardinality(0 .. keep - 1) = keep
  <2>1. 0 \in Int /\ keep - 1 \in Int /\ (0 > keep - 1 => keep = 0) /\ keep - 1 - 0 + 1 = keep
    OBVIOUS
  <2> QED BY <2>1, FS_Interval
<1>3. f \in [kept -> 0 .. keep - 1]
  BY InFrontFinite
<1>4. \A j, k \in kept : f[j] = f[k] => j = k
  BY RankIsPlace
<1>5. ASSUME NEW r \in 0 .. keep - 1 PROVE \E j \in kept : f[j] = r
  <2>1. Rank(listed, i) \in 0 .. Len(listed) - 1 /\ Len(listed) \in Nat
    BY RankIsPlace
  <2>2. r \in 0 .. Len(listed) - 1
    BY <2>1
  <2>3. PICK j \in DOMAIN listed : Rank(listed, j) = r
    BY <2>2, RankIsPlace
  <2>4. j \in kept
    BY <2>3
  <2> QED BY <2>3, <2>4
<1>6. ASSUME NEW j \in kept PROVE listed[j].mtime >= listed[i].mtime
  <2>1. j \in DOMAIN listed /\ Rank(listed, j) < Rank(listed, i)
    BY InFrontFinite
  <2>2. j \in InFront(listed, i)
    BY <2>1, InFrontOrders, InFrontFinite
  <2> QED BY <2>1, <2>2, EntryTypes DEF InFront
<1> HIDE DEF f, kept
<1>7. f \in Bijection(kept, 0 .. keep - 1)
  BY <1>3, <1>4, <1>5, Fun_IsBij
<1>8. Cardinality(kept) = keep
  BY <1>1, <1>2, <1>7, FS_Bijection DEF ExistsBijection
<1> QED BY <1>1, <1>6, <1>8 DEF kept

(* The file of an entry is there, as it was listed or written again since. *)
Still(e) == e.path \in DOMAIN backups /\ backups[e.path].mtime >= e.mtime

(* A file that is not whole is being written, or a write has failed.       *)
FilesInv ==
  /\ clock \in 0 .. MaxClock
  /\ diskFaults \in Nat
  /\ DOMAIN backups \subseteq Path /\ IsFiniteSet(DOMAIN backups)
  /\ \A p \in DOMAIN backups :
       /\ backups[p].mtime \in 0 .. clock
       /\ backups[p].whole \/ p = copying \/ diskFaults > 0
  /\ copying \in Path \cup {NoPath}

(* An entry that a clean-up can meet.                                      *)
Listed == [path : Path, mtime : 0 .. MaxClock]

(* Each path is listed once.  All that is listed is there until the first  *)
(* removal, and then all that is kept; only surplus is left to remove.     *)
ListingInv ==
  /\ cleaning \in [keep : Nat, unread : SUBSET Path, listed : Seq(Listed), left : Seq(Listed),
                    busy : BOOLEAN]
  /\ \A i \in DOMAIN cleaning.listed :
       /\ cleaning.listed[i].path \notin cleaning.unread
       /\ \A j \in DOMAIN cleaning.listed :
            cleaning.listed[i].path = cleaning.listed[j].path => i = j
       /\ cleaning.unread # {} \/ Rank(cleaning.listed, i) < cleaning.keep => Still(cleaning.listed[i])
  /\ \A k \in DOMAIN cleaning.left : \E i \in DOMAIN cleaning.listed :
       cleaning.left[k] = cleaning.listed[i] /\ Rank(cleaning.listed, i) >= cleaning.keep

(* Every step, of the backup and of the clean-up, keeps the files so.      *)
LEMMA FilesStepInv == FilesInv /\ [WorkspaceNext]_workspaceVars => FilesInv'
<1> SUFFICES ASSUME FilesInv, [WorkspaceNext]_workspaceVars
             PROVE  FilesInv'
  OBVIOUS
<1> USE WorkspaceAssumption DEF FilesInv
<1>1. CASE Tick
  BY <1>1 DEF Tick
<1>2. ASSUME NEW path \in Path, BeginBackup(path) PROVE FilesInv'
  <2>1. /\ DOMAIN backups' = DOMAIN backups \cup {path} /\ copying' = path /\ copying = NoPath
        /\ clock' = clock /\ diskFaults' = diskFaults
        /\ backups'[path] = [mtime |-> clock, whole |-> FALSE]
        /\ \A p \in DOMAIN backups : p # path => backups'[p] = backups[p]
    BY <1>2 DEF BeginBackup
  <2>2. IsFiniteSet(DOMAIN backups')
    BY <2>1, FS_AddElement
  <2> QED BY <2>1, <2>2
<1>3. CASE WriteBackup
  <2>1. CASE copying \in DOMAIN backups
    <3>1. /\ DOMAIN backups' = DOMAIN backups /\ copying' = NoPath
          /\ clock' = clock /\ diskFaults' = diskFaults
          /\ backups'[copying] = [mtime |-> clock, whole |-> TRUE]
          /\ \A p \in DOMAIN backups : p # copying => backups'[p] = backups[p]
      BY <1>3, <2>1 DEF WriteBackup
    <3> QED BY <3>1
  <2>2. CASE copying \notin DOMAIN backups
    BY <1>3, <2>2 DEF WriteBackup
  <2> QED BY <2>1, <2>2
<1>4. CASE BreakBackup
  BY <1>4 DEF BreakBackup, DiskFault
<1>5. ASSUME NEW k \in Retention, BeginCleanup(k) PROVE FilesInv'
  BY <1>5 DEF BeginCleanup
<1>6. ASSUME NEW path \in Path, ReadEntry(path) PROVE FilesInv'
  BY <1>6 DEF ReadEntry
<1>7. CASE RemoveNext
  <2>1. /\ DOMAIN backups' \subseteq DOMAIN backups
        /\ \A p \in DOMAIN backups' : backups'[p] = backups[p]
        /\ UNCHANGED <<clock, copying, diskFaults>>
    BY <1>7 DEF RemoveNext, Restrict
  <2>2. IsFiniteSet(DOMAIN backups')
    BY <2>1, FS_Subset
  <2> QED BY <2>1, <2>2
<1>8. CASE FinishCleanup
  BY <1>8 DEF FinishCleanup
<1>9. CASE FailCleanup
  BY <1>9 DEF FailCleanup, DiskFault
<1>10. CASE CheckpointStep
  BY <1>10 DEF CheckpointStep, BeginSave, FinishSave, BreakSave, ClearReindexState, DiskFault, backupVars
<1>11. CASE UNCHANGED workspaceVars
  BY <1>11 DEF workspaceVars
<1> QED BY <1>1, <1>2, <1>3, <1>4, <1>5, <1>6, <1>7, <1>8, <1>9, <1>10, <1>11 DEF WorkspaceNext, BackupStep

(* What is listed keeps its file, or the file is written again. *)
LEMMA StillKept ==
  ASSUME FilesInv, NEW e \in Listed, Still(e),
         \/ Tick \/ (\E p \in Path : BeginBackup(p)) \/ WriteBackup
         \/ UNCHANGED backups
  PROVE  Still(e)'
<1> USE WorkspaceAssumption DEF FilesInv, Still, Listed
<1>1. /\ e.path \in DOMAIN backups /\ backups[e.path].mtime \in 0 .. clock
      /\ e.mtime \in 0 .. MaxClock /\ clock \in Nat /\ e.mtime <= clock
  OBVIOUS
<1>2. CASE UNCHANGED backups
  BY <1>2
<1>3. CASE Tick
  BY <1>3 DEF Tick
<1>4. ASSUME NEW p \in Path, BeginBackup(p) PROVE Still(e)'
  <2>1. /\ DOMAIN backups' = DOMAIN backups \cup {p} 
        /\ backups'[p] = [mtime |-> clock, whole |-> FALSE]
        /\ \A q \in DOMAIN backups : q # p => backups'[q] = backups[q]
    BY <1>4 DEF BeginBackup
  <2> QED BY <1>1, <2>1
<1>5. CASE WriteBackup
  <2>1. CASE copying \in DOMAIN backups
    <3>1. /\ DOMAIN backups' = DOMAIN backups
          /\ backups'[copying] = [mtime |-> clock, whole |-> TRUE]
          /\ \A p \in DOMAIN backups : p # copying => backups'[p] = backups[p]
      BY <1>5, <2>1 DEF WriteBackup
    <3> QED BY <1>1, <3>1
  <2>2. CASE copying \notin DOMAIN backups
    BY <1>1, <1>5, <2>2 DEF WriteBackup
  <2> QED BY <2>1, <2>2
<1> QED BY <1>2, <1>3, <1>4, <1>5

(* Listed entries are entries.                                             *)
LEMMA ListedAreEntries ==
  ASSUME NEW s \in Seq(Listed)
  PROVE  s \in Seq(Entries)
<1>1. Listed \subseteq Entries
  BY WorkspaceAssumption DEF Listed, Entries
<1>2. Len(s) \in Nat /\ s \in [1 .. Len(s) -> Listed]
  OBVIOUS
<1>3. s \in [1 .. Len(s) -> Entries]
  BY <1>1, <1>2
<1> QED BY <1>2, <1>3

(* Reading one more entry lists a file that is there.                      *)
LEMMA ReadStepInv ==
  ASSUME FilesInv, ListingInv, NEW path \in Path, ReadEntry(path)
  PROVE  ListingInv'
<1> DEFINE old == cleaning.listed
           listed == IF path \in DOMAIN backups
                     THEN Append(old, [path |-> path, mtime |-> backups[path].mtime]) ELSE old
           left == Surplus(listed, cleaning.keep)
<1> USE WorkspaceAssumption
<1>1. /\ old \in Seq(Listed) /\ cleaning.keep \in Nat /\ cleaning.unread \subseteq Path
      /\ path \in cleaning.unread
  BY DEF ListingInv, ReadEntry
<1>2. path \in DOMAIN backups => [path |-> path, mtime |-> backups[path].mtime] \in Listed
  BY DEF FilesInv, Listed
<1>3. listed \in Seq(Listed)
  BY <1>1, <1>2
<1>4. listed \in Seq(Entries)
  BY <1>3, ListedAreEntries
<1>5. /\ cleaning' = [cleaning EXCEPT !.unread = cleaning.unread \ {path}, !.listed = listed, !.left = left]
      /\ UNCHANGED backups
  BY DEF ReadEntry
<1>6. \A k \in DOMAIN left : \E i \in DOMAIN listed : left[k] = listed[i] /\ Rank(listed, i) >= cleaning.keep
  BY <1>1, <1>4, SurplusIs
<1>7. left \in Seq(Listed)
  <2>1. Len(listed) \in Nat /\ \A i \in DOMAIN listed : listed[i] \in Listed
    BY <1>3
  <2>2. \A k \in DOMAIN left : left[k] \in Listed
    BY <1>6, <2>1
  <2>3. left \in Seq(Entries)
    BY <1>1, <1>4, SurplusSeq
  <2>4. Len(left) \in Nat /\ DOMAIN left = 1 .. Len(left) /\ left = [k \in 1 .. Len(left) |-> left[k]]
    BY <2>3
  <2> HIDE DEF left
  <2>5. left \in [1 .. Len(left) -> Listed]
    BY <2>2, <2>4
  <2> QED BY <2>4, <2>5
<1>8. \A i \in DOMAIN old : old[i].path # path /\ Still(old[i]) /\ old[i].path \notin cleaning.unread
  BY <1>1 DEF ListingInv
<1>9. \A i, j \in DOMAIN old : old[i].path = old[j].path => i = j
  BY DEF ListingInv
<1>10. \A i \in DOMAIN listed :
         /\ listed[i].path \notin cleaning.unread \ {path}
         /\ Still(listed[i])
         /\ \A j \in DOMAIN listed : listed[i].path = listed[j].path => i = j
  <2>1. CASE path \notin DOMAIN backups
    BY <2>1, <1>8, <1>9
  <2>2. CASE path \in DOMAIN backups
    <3> DEFINE e == [path |-> path, mtime |-> backups[path].mtime]
    <3>1. /\ listed = Append(old, e) /\ Len(old) \in Nat /\ DOMAIN old = 1 .. Len(old)
          /\ DOMAIN listed = 1 .. Len(old) + 1 /\ listed[Len(old) + 1] = e
          /\ \A i \in DOMAIN old : listed[i] = old[i]
      BY <1>1, <2>2
    <3>2. e.path = path /\ Still(e)
      BY <2>2 DEF Still, FilesInv
    <3>3. ASSUME NEW i \in DOMAIN listed
          PROVE  i \in DOMAIN old \/ i = Len(old) + 1
      BY <3>1
    <3> HIDE DEF e, listed
    <3> QED BY <3>1, <3>2, <3>3, <1>8, <1>9
  <2> QED BY <2>1, <2>2
<1>11. /\ cleaning'.keep = cleaning.keep /\ cleaning'.unread = cleaning.unread \ {path}
       /\ cleaning'.listed = listed /\ cleaning'.left = left
       /\ cleaning' \in [keep : Nat, unread : SUBSET Path, listed : Seq(Listed), left : Seq(Listed),
                          busy : BOOLEAN]
  BY <1>1, <1>3, <1>5, <1>7 DEF ListingInv
<1>12. \A i \in DOMAIN listed :
         listed[i].path \in DOMAIN backups' /\ backups'[listed[i].path].mtime >= listed[i].mtime
  BY <1>5, <1>10 DEF Still
<1> HIDE DEF listed, left
<1> QED BY <1>6, <1>10, <1>11, <1>12 DEF ListingInv, Still

(* The entry that is removed next, and why the entries kept are not it. *)
LEMMA NextIs ==
  ASSUME ListingInv, RemoveNext
  PROVE  \E i \in DOMAIN cleaning.listed :
           /\ Head(cleaning.left) = cleaning.listed[i]
           /\ Rank(cleaning.listed, i) >= cleaning.keep
           /\ DOMAIN backups' = DOMAIN backups \ {cleaning.listed[i].path}
           /\ \A p \in DOMAIN backups' : backups'[p] = backups[p]
<1>1. cleaning.left \in Seq(Listed) /\ cleaning.left # <<>>
  BY DEF ListingInv, RemoveNext
<1>2. 1 \in DOMAIN cleaning.left /\ Head(cleaning.left) = cleaning.left[1]
  BY <1>1
<1>3. PICK i \in DOMAIN cleaning.listed :
        cleaning.left[1] = cleaning.listed[i] /\ Rank(cleaning.listed, i) >= cleaning.keep
  BY <1>2 DEF ListingInv
<1>4. backups' = Restrict(backups, DOMAIN backups \ {cleaning.listed[i].path})
  BY <1>2, <1>3 DEF RemoveNext
<1> QED BY <1>2, <1>3, <1>4 DEF Restrict

(* A removal touches nothing that is kept.                                 *)
LEMMA RemoveStepInv ==
  ASSUME ListingInv, RemoveNext
  PROVE  ListingInv'
<1>1. PICK i \in DOMAIN cleaning.listed :
           /\ Head(cleaning.left) = cleaning.listed[i]
           /\ Rank(cleaning.listed, i) >= cleaning.keep
           /\ DOMAIN backups' = DOMAIN backups \ {cleaning.listed[i].path}
           /\ \A p \in DOMAIN backups' : backups'[p] = backups[p]
  BY NextIs
<1>2. /\ cleaning.left \in Seq(Listed) /\ cleaning.left # <<>> /\ cleaning.unread = {}
      /\ cleaning' = [cleaning EXCEPT !.left = Tail(cleaning.left)]
  BY DEF ListingInv, RemoveNext
<1>3. /\ Tail(cleaning.left) \in Seq(Listed)
      /\ \A k \in DOMAIN Tail(cleaning.left) :
           k + 1 \in DOMAIN cleaning.left /\ Tail(cleaning.left)[k] = cleaning.left[k + 1]
  BY <1>2
<1>4. /\ cleaning'.keep = cleaning.keep /\ cleaning'.unread = cleaning.unread
      /\ cleaning'.listed = cleaning.listed /\ cleaning'.left = Tail(cleaning.left)
      /\ cleaning' \in [keep : Nat, unread : SUBSET Path, listed : Seq(Listed), left : Seq(Listed),
                         busy : BOOLEAN]
  BY <1>2, <1>3 DEF ListingInv
<1>5. cleaning.keep \in Nat /\ cleaning.listed \in Seq(Listed)
  BY DEF ListingInv
<1>6. ASSUME NEW j \in DOMAIN cleaning.listed, Rank(cleaning.listed, j) < cleaning.keep
      PROVE  Still(cleaning.listed[j])'
  <2>1. Still(cleaning.listed[j]) /\ Rank(cleaning.listed, i) \in Nat /\ Rank(cleaning.listed, j) \in Nat
    BY <1>5, <1>6, ListedAreEntries, InFrontFinite DEF ListingInv
  <2>2. i # j
    BY <1>1, <1>5, <1>6, <2>1
  <2>3. cleaning.listed[i].path # cleaning.listed[j].path
    BY <2>2 DEF ListingInv
  <2> QED BY <1>1, <1>4, <2>1, <2>3 DEF Still
<1>7. \A k \in DOMAIN Tail(cleaning.left) : \E j \in DOMAIN cleaning.listed :
        Tail(cleaning.left)[k] = cleaning.listed[j] /\ Rank(cleaning.listed, j) >= cleaning.keep
  BY <1>3 DEF ListingInv
<1>8. \A j \in DOMAIN cleaning.listed :
       /\ cleaning.listed[j].path \notin cleaning.unread
       /\ \A k \in DOMAIN cleaning.listed :
            cleaning.listed[j].path = cleaning.listed[k].path => j = k
  BY DEF ListingInv
<1> QED BY <1>2, <1>4, <1>6, <1>7, <1>8 DEF ListingInv

(* Backups that are written meanwhile do not disturb the list.             *)
LEMMA ListingStepInv == FilesInv /\ ListingInv /\ [WorkspaceNext]_workspaceVars => ListingInv'
<1> SUFFICES ASSUME FilesInv, ListingInv, [WorkspaceNext]_workspaceVars
             PROVE  ListingInv'
  OBVIOUS
<1>1. CASE /\ UNCHANGED cleaning
           /\ Tick \/ (\E p \in Path : BeginBackup(p)) \/ WriteBackup \/ UNCHANGED backups
  <2>1. \A i \in DOMAIN cleaning.listed : cleaning.listed[i] \in Listed
    BY DEF ListingInv
  <2>2. \A i \in DOMAIN cleaning.listed : Still(cleaning.listed[i]) => Still(cleaning.listed[i])'
    <3> TAKE i \in DOMAIN cleaning.listed
    <3> DEFINE e == cleaning.listed[i]
    <3>1. HAVE Still(cleaning.listed[i])
    <3>2. e \in Listed /\ Still(e) /\ (Still(e)' <=> Still(cleaning.listed[i])')
      BY <2>1, <3>1
    <3>3. Still(e)'
      BY <1>1, <2>1, <3>1, StillKept DEF Still
    <3> QED BY <3>3
  <2> QED BY <1>1, <2>2 DEF ListingInv
<1>2. CASE cleaning' = NotCleaning
  BY <1>2 DEF ListingInv, NotCleaning
<1>3. ASSUME NEW k \in Retention, BeginCleanup(k) PROVE ListingInv'
  <2>1. k \in Nat
    BY WorkspaceAssumption
  <2>2. cleaning' = [keep |-> k, unread |-> Path, listed |-> <<>>, left |-> <<>>, busy |-> TRUE]
    BY <1>3 DEF BeginCleanup, NotCleaning
  <2> QED BY <2>1, <2>2 DEF ListingInv
<1>4. ASSUME NEW path \in Path, ReadEntry(path) PROVE ListingInv'
  BY <1>4, ReadStepInv
<1>5. CASE RemoveNext
  BY <1>5, RemoveStepInv
<1>6. CASE Tick \/ (\E p \in Path : BeginBackup(p)) \/ WriteBackup \/ BreakBackup
  BY <1>1, <1>6 DEF Tick, BeginBackup, WriteBackup, BreakBackup
<1>7. CASE FinishCleanup \/ FailCleanup
  BY <1>2, <1>7 DEF FinishCleanup, FailCleanup
<1>8. CASE CheckpointStep
  BY <1>1, <1>8 DEF CheckpointStep, BeginSave, FinishSave, BreakSave, ClearReindexState, backupVars
<1>9. CASE UNCHANGED workspaceVars
  BY <1>1, <1>9 DEF workspaceVars
<1> QED BY <1>3, <1>4, <1>5, <1>6, <1>7, <1>8, <1>9 DEF WorkspaceNext, BackupStep

(* No other step makes a file disappear.                                   *)
LEMMA OnlyCleanupRemoves ==
  ASSUME [WorkspaceNext]_workspaceVars, ~ RemoveNext
  PROVE  DOMAIN backups \subseteq DOMAIN backups'
<1>1. CASE \E p \in Path : BeginBackup(p)
  BY <1>1 DEF BeginBackup
<1>2. CASE WriteBackup
  BY <1>2 DEF WriteBackup
<1>3. CASE UNCHANGED backups
  BY <1>3
<1> QED
  BY <1>1, <1>2, <1>3 DEF WorkspaceNext, BackupStep, Tick, BreakBackup, BeginCleanup, ReadEntry, FinishCleanup,
     FailCleanup, CheckpointStep, BeginSave, FinishSave, BreakSave, ClearReindexState, backupVars, workspaceVars

(* The paths of the kept entries are `keep` different files that are left. *)
LEMMA EnoughAreLeft ==
  ASSUME FilesInv, FilesInv', ListingInv, RemoveNext, NEW p \in DOMAIN backups \ DOMAIN backups'
  PROVE  \E since \in 0 .. MaxClock :
             /\ [path |-> p, mtime |-> since] \in ToSet(cleaning.listed)
             /\ cleaning.keep <= Cardinality({q \in DOMAIN backups' :
                    /\ backups'[q].mtime >= since
                    /\ VerifyBackup(q)' \/ q = copying \/ diskFaults > 0})
<1> DEFINE listed == cleaning.listed
           keep == cleaning.keep
<1>1. PICK i \in DOMAIN listed :
           /\ Rank(listed, i) >= keep
           /\ DOMAIN backups' = DOMAIN backups \ {listed[i].path}
           /\ \A q \in DOMAIN backups' : backups'[q] = backups[q]
  BY NextIs
<1> DEFINE since == listed[i].mtime
           good == {q \in DOMAIN backups' :
                      /\ backups'[q].mtime >= since
                      /\ VerifyBackup(q)' \/ q = copying \/ diskFaults > 0}
           kept == {j \in DOMAIN listed : Rank(listed, j) < keep}
           f == [j \in kept |-> listed[j].path]
<1>2. listed \in Seq(Listed) /\ listed \in Seq(Entries) /\ keep \in Nat
  BY ListedAreEntries DEF ListingInv
<1>3. ASSUME NEW j \in DOMAIN listed
      PROVE  /\ listed[j].mtime \in 0 .. MaxClock
             /\ listed[j] = [path |-> listed[j].path, mtime |-> listed[j].mtime]
  <2>1. listed[j] \in Listed
    BY <1>2
  <2> QED BY <2>1 DEF Listed
<1>4. p = listed[i].path /\ since \in 0 .. MaxClock /\ [path |-> p, mtime |-> since] \in ToSet(listed)
  BY <1>1, <1>3 DEF ToSet
<1>5. IsFiniteSet(kept) /\ Cardinality(kept) = keep /\ \A j \in kept : listed[j].mtime >= since
  BY <1>1, <1>2, KeptAreNewer
<1>6. ASSUME NEW j \in kept PROVE listed[j].path \in good
  <2>1. j \in DOMAIN listed /\ Rank(listed, j) < keep /\ Rank(listed, j) \in Nat /\ Rank(listed, i) \in Nat
    BY <1>2, InFrontFinite
  <2>2. i # j
    BY <1>1, <1>2, <2>1
  <2>3. listed[j].path # listed[i].path
    BY <2>1, <2>2 DEF ListingInv
  <2>4. listed[j].path \in DOMAIN backups /\ backups[listed[j].path].mtime >= listed[j].mtime
    BY <2>1 DEF ListingInv, Still
  <2>5. listed[j].mtime \in Nat /\ since \in Nat /\ listed[j].mtime >= since
    <3>1. listed[j].mtime \in 0 .. MaxClock /\ since \in 0 .. MaxClock
      BY <1>3, <1>4, <2>1
    <3>2. listed[j].mtime >= since
      BY <1>5
    <3> HIDE DEF since, listed
    <3> QED BY <3>1, <3>2, WorkspaceAssumption
  <2>6. PICK q : q = listed[j].path
    OBVIOUS
  <2>7. /\ q \in DOMAIN backups' /\ backups'[q] = backups[q] /\ backups[q].mtime >= listed[j].mtime
        /\ q \in DOMAIN backups
    BY <1>1, <2>3, <2>4, <2>6
  <2>8. backups[q].mtime \in Nat /\ (backups[q].whole \/ q = copying \/ diskFaults > 0)
    BY <2>7, WorkspaceAssumption DEF FilesInv
  <2>9. backups'[q].mtime >= since
    <3> DEFINE t == backups[q].mtime
               u == listed[j].mtime
               v == since
    <3>1. t \in Nat /\ u \in Nat /\ v \in Nat /\ t >= u /\ u >= v
      BY <2>5, <2>7, <2>8
    <3> HIDE DEF t, u, v
    <3>2. t >= v
      BY <3>1
    <3> QED BY <2>7, <3>2 DEF t, v
  <2>10. VerifyBackup(q)' \/ q = copying \/ diskFaults > 0
    BY <2>7, <2>8 DEF VerifyBackup
  <2>11. q \in good
    BY <2>7, <2>9, <2>10
  <2> QED BY <2>6, <2>11
<1>7. IsFiniteSet(good)
  <2>1. good \subseteq DOMAIN backups'
    OBVIOUS
  <2> QED BY <2>1, FS_Subset DEF FilesInv
<1>8. \A j, k \in kept : listed[j].path = listed[k].path => j = k
  BY DEF ListingInv
<1>9. keep <= Cardinality(good)
  <2> HIDE DEF good, kept
  <2>1. f \in [kept -> good] /\ \A j, k \in kept : f[j] = f[k] => j = k
    BY <1>6, <1>8
  <2>2. f \in Injection(kept, good)
    BY <2>1, Fun_IsInj
  <2> QED BY <1>5, <1>7, <2>2, FS_Injection
<1> QED BY <1>4, <1>9

(* A clean-up removes a backup only while as many newer ones are left as it *)
(* is to keep, whatever is written meanwhile.                              *)
THEOREM BackupsOutliveCleanups == WorkspaceSpec => BackupsSurvive
<1>1. WorkspaceInit => FilesInv /\ ListingInv
  <2> SUFFICES ASSUME WorkspaceInit PROVE FilesInv /\ ListingInv
    OBVIOUS
  <2>1. DOMAIN backups = {}
    BY DEF WorkspaceInit
  <2>2. FilesInv
    BY <2>1, WorkspaceAssumption, FS_EmptySet DEF WorkspaceInit, FilesInv
  <2>3. ListingInv
    BY DEF WorkspaceInit, ListingInv, NotCleaning
  <2> QED BY <2>2, <2>3
<1>2. FilesInv /\ ListingInv /\ [WorkspaceNext]_workspaceVars => (FilesInv /\ ListingInv)'
  BY FilesStepInv, ListingStepInv
<1>3. FilesInv /\ ListingInv /\ [WorkspaceNext]_workspaceVars =>
        [\A p \in DOMAIN backups \ DOMAIN backups' :
          \E since \in 0 .. MaxClock :
             /\ [path |-> p, mtime |-> since] \in ToSet(cleaning.listed)
             /\ cleaning.keep <= Cardinality({q \in DOMAIN backups' :
                    /\ backups'[q].mtime >= since
                    /\ VerifyBackup(q)' \/ q = copying \/ diskFaults > 0})]_workspaceVars
  BY FilesStepInv, OnlyCleanupRemoves, EnoughAreLeft
<1>4. WorkspaceSpec => [](FilesInv /\ ListingInv)
  BY <1>1, <1>2, PTL DEF WorkspaceSpec
<1>5. WorkspaceSpec => [][WorkspaceNext]_workspaceVars
  BY PTL DEF WorkspaceSpec
<1> QED BY <1>3, <1>4, <1>5, PTL DEF BackupsSurvive

--------------------------------------------------------------------------------
(* Streams.                                                                *)
HasItsTags(s) == GetStreamTags(s) = asked[s].tags

StreamTypes ==
  /\ streams \in Seq([name : Name, owner : User, visibility : {"private", "team", "org"}])
  /\ asked \in Seq([tags : SUBSET Tag, answer : {Nobody, "ok", "error"}])
  /\ Len(asked) = Len(streams)
  /\ streamTags \subseteq (1 .. Len(streams)) \X Tag
  /\ creating # Nobody => creating \in [stream : 1 .. Len(streams), left : Seq(Tag)]

(* What is there and what is still to come are together what was asked for. *)
StreamInv ==
  /\ StreamTypes
  /\ \A s \in 1 .. Len(streams) :
        /\ GetStreamTags(s) \subseteq asked[s].tags
        /\ asked[s].answer = "ok" => HasItsTags(s)
  /\ creating # Nobody =>
        /\ asked[creating.stream].answer # "ok"
        /\ GetStreamTags(creating.stream) \cup ToSet(creating.left) = asked[creating.stream].tags

LEMMA ToSetIs ==
  ASSUME NEW q \in Seq(Tag)
  PROVE  /\ ToSet(q) \subseteq Tag
         /\ q = <<>> => ToSet(q) = {}
         /\ q # <<>> => ToSet(q) = {Head(q)} \cup ToSet(Tail(q))
<1>1. ToSet(q) = {q[i] : i \in 1 .. Len(q)}
  BY DEF ToSet
<1>2. CASE q # <<>>
  <2>1. Tail(q) \in Seq(Tag) /\ Len(Tail(q)) = Len(q) - 1 /\ Len(q) \in Nat \ {0} /\ Head(q) = q[1]
    BY <1>2, EmptySeq
  <2>2. \A i \in 1 .. Len(Tail(q)) : Tail(q)[i] = q[i + 1]
    BY <1>2, <2>1
  <2>3. ToSet(Tail(q)) = {Tail(q)[i] : i \in 1 .. Len(Tail(q))}
    <3> DEFINE r == Tail(q)
    <3>1. DOMAIN r = 1 .. Len(r)
      BY <2>1
    <3> HIDE DEF r
    <3>2. ToSet(r) = {r[i] : i \in 1 .. Len(r)}
      BY <3>1 DEF ToSet
    <3> QED BY <3>2 DEF r
  <2>4. ASSUME NEW x \in ToSet(q) PROVE x \in {Head(q)} \cup ToSet(Tail(q))
    <3>1. PICK i \in 1 .. Len(q) : x = q[i]
      BY <2>4, <1>1
    <3>2. CASE i = 1
      BY <3>1, <3>2, <2>1
    <3>3. CASE i # 1
      <4>1. i - 1 \in 1 .. Len(Tail(q)) /\ (i - 1) + 1 = i
        BY <3>1, <3>3, <2>1
      <4>2. Tail(q)[i - 1] = x
        BY <4>1, <2>2, <3>1
      <4> QED BY <4>1, <4>2, <2>3
    <3> QED BY <3>2, <3>3
  <2>5. ASSUME NEW x \in {Head(q)} \cup ToSet(Tail(q)) PROVE x \in ToSet(q)
    <3>1. CASE x = Head(q)
      <4>1. 1 \in 1 .. Len(q)
        BY <2>1
      <4> QED BY <4>1, <3>1, <2>1, <1>1
    <3>2. CASE x \in ToSet(Tail(q))
      <4>1. PICK i \in 1 .. Len(Tail(q)) : x = Tail(q)[i]
        BY <3>2, <2>3
      <4>2. i + 1 \in 1 .. Len(q)
        BY <4>1, <2>1
      <4> QED BY <4>1, <4>2, <2>2, <1>1
    <3> QED BY <2>5, <3>1, <3>2
  <2>6. ToSet(q) \subseteq Tag
    BY <1>1
  <2> QED BY <1>2, <2>4, <2>5, <2>6
<1>3. CASE q = <<>>
  BY <1>3, <1>1
<1> QED BY <1>2, <1>3

(* The steps that touch the tags of memories, and those that touch names.  *)
LEMMA OnlyTagSteps ==
  ASSUME [RegistryNext]_registryVars
  PROVE  \/ \E m \in Memory, t \in Tag : AddMemoryTag(m, t) \/ RemoveMemoryTag(m, t)
         \/ \E old, new \in Tag : RenameTag(old, new)
         \/ UNCHANGED memoryTags
BY DEF RegistryNext, StreamStep, TagStep, NameStep, LinkStep, CreateStream, InsertStreamTag,
       FinishStream, ExitWhileCreating, GrantWriteAccess, CreateEntity, AddAlias, RemoveAlias, AddLink,
       registryVars

LEMMA OnlyNameSteps ==
  ASSUME [RegistryNext]_registryVars
  PROVE  \/ \E w \in Word : CreateEntity(w)
         \/ \E w \in Word, e \in DOMAIN entities : AddAlias(w, e) \/ RemoveAlias(w, e)
         \/ UNCHANGED <<entities, aliases>>
BY DEF RegistryNext, StreamStep, TagStep, NameStep, LinkStep, CreateStream, InsertStreamTag,
       FinishStream, ExitWhileCreating, GrantWriteAccess, AddMemoryTag, RemoveMemoryTag, RenameTag,
       AddLink, registryVars, graphVars

LEMMA StreamStepInv == StreamInv /\ [RegistryNext]_registryVars => StreamInv'
<1> SUFFICES ASSUME StreamInv, [RegistryNext]_registryVars PROVE StreamInv'
  OBVIOUS
<1> DEFINE Row == [name : Name, owner : User, visibility : {"private", "team", "org"}]
           Ask == [tags : SUBSET Tag, answer : {Nobody, "ok", "error"}]
           N == Len(streams)
<1>t. /\ streams \in Seq(Row) /\ asked \in Seq(Ask)
      /\ N \in Nat /\ Len(asked) = N
      /\ streamTags \subseteq (1 .. N) \X Tag
      /\ creating # Nobody => creating \in [stream : 1 .. N, left : Seq(Tag)]
  BY DEF StreamInv, StreamTypes
<1>n. Nobody # "ok" /\ Nobody # "error"
  BY RegistryAssumption
<1>1. ASSUME NEW n \in Name, NEW u \in User, NEW v \in {"private", "team", "org"},
             NEW ts \in BoundedSeq(Tag, 2), CreateStream(n, u, v, ts)
      PROVE  StreamInv'
  <2>1. ts \in Seq(Tag)
    <3>1. PICK k \in 0 .. 2 : ts \in [1 .. k -> Tag]
      BY DEF BoundedSeq, SeqOf
    <3> QED BY <3>1
  <2>2. /\ streams' \in Seq(Row) /\ Len(streams') = N + 1
    BY <1>1, <1>t DEF CreateStream
  <2>3. [tags |-> ToSet(ts), answer |-> Nobody] \in Ask
    BY <2>1, ToSetIs
  <2>4. /\ asked' \in Seq(Ask) /\ Len(asked') = N + 1
        /\ asked'[N + 1] = [tags |-> ToSet(ts), answer |-> Nobody]
        /\ \A s \in 1 .. N : asked'[s] = asked[s]
    BY <1>1, <1>t, <2>3 DEF CreateStream
  <2>5. creating' = [stream |-> N + 1, left |-> ts] /\ streamTags' = streamTags
    BY <1>1 DEF CreateStream
  <2>6. StreamTypes'
    <3>1. 1 .. N \subseteq 1 .. N + 1 /\ N + 1 \in 1 .. N + 1
      BY <1>t
    <3> QED BY <1>t, <2>1, <2>2, <2>4, <2>5, <3>1 DEF StreamTypes
  <2>7. \A s \in 1 .. N + 1 : GetStreamTags(s)' = GetStreamTags(s)
    BY <2>5 DEF GetStreamTags
  <2>8. GetStreamTags(N + 1) = {}
    <3>1. N + 1 \notin 1 .. N
      BY <1>t
    <3> QED BY <1>t, <3>1 DEF GetStreamTags
  <2>9. ASSUME NEW s \in 1 .. N + 1
        PROVE  /\ GetStreamTags(s)' \subseteq asked'[s].tags
               /\ asked'[s].answer = "ok" => HasItsTags(s)'
    <3>1. CASE s = N + 1
      BY <3>1, <2>4, <2>7, <2>8, <1>n DEF HasItsTags
    <3>2. CASE s # N + 1
      <4>1. s \in 1 .. N
        BY <3>2, <1>t
      <4> QED BY <4>1, <2>4, <2>7 DEF StreamInv, HasItsTags
    <3> QED BY <3>1, <3>2
  <2>10. /\ asked'[creating'.stream].answer # "ok"
         /\ GetStreamTags(creating.stream)' \cup ToSet(creating'.left) = asked'[creating'.stream].tags
    <3>1. GetStreamTags(creating.stream)' = {}
      BY <2>5, <2>8 DEF GetStreamTags
    <3> QED BY <3>1, <2>4, <2>5, <1>n
  <2> QED BY <2>2, <2>6, <2>9, <2>10 DEF StreamInv
<1>a. ASSUME NEW answer \in {"ok", "error"}, creating # Nobody, Answer(answer),
             UNCHANGED <<streams, streamTags>>, answer = "ok" => HasItsTags(creating.stream)
      PROVE  StreamInv'
  <2>1. creating.stream \in 1 .. N
    BY <1>a, <1>t
  <2> DEFINE answered == [asked[creating.stream] EXCEPT !.answer = answer]
  <2>e. \A s \in 1 .. N : asked[s] \in Ask
    <3> HIDE DEF Ask, N
    <3> QED BY <1>t, ElementOfSeq
  <2>o. answered \in Ask /\ answered.tags = asked[creating.stream].tags /\ answered.answer = answer
    BY <2>e, <2>1
  <2>2. /\ asked' \in Seq(Ask) /\ Len(asked') = N
        /\ \A s \in 1 .. N : asked'[s] = IF s = creating.stream THEN answered ELSE asked[s]
    <3>1. asked' = [asked EXCEPT ![creating.stream] = answered]
      BY <1>a DEF Answer
    <3> HIDE DEF Ask, N, answered
    <3> QED BY <3>1, <1>t, <2>1, <2>o, ExceptSeq
  <2>3. \A s \in 1 .. N : asked'[s].tags = asked[s].tags
                          /\ asked'[s].answer = IF s = creating.stream THEN answer ELSE asked[s].answer
    <3> HIDE DEF answered
    <3> QED BY <2>2, <2>o
  <2>4. \A s \in 1 .. N : GetStreamTags(s)' = GetStreamTags(s)
    BY <1>a DEF GetStreamTags
  <2>5. creating' = Nobody
    BY <1>a DEF Answer
  <2>6. StreamTypes'
    BY <1>a, <1>t, <2>2, <2>5 DEF StreamTypes
  <2>7. \A s \in 1 .. N : /\ GetStreamTags(s)' \subseteq asked'[s].tags
                          /\ asked'[s].answer = "ok" => HasItsTags(s)'
    BY <1>a, <2>3, <2>4 DEF StreamInv, HasItsTags
  <2> QED BY <1>a, <2>5, <2>6, <2>7 DEF StreamInv
<1>2. CASE InsertStreamTag
  <2> DEFINE c == creating.stream
             q == creating.left
             row == <<c, Head(q)>>
  <2>1. creating # Nobody /\ q # <<>> /\ c \in 1 .. N /\ q \in Seq(Tag) /\ streams' = streams
    BY <1>2, <1>t DEF InsertStreamTag
  <2>2. Head(q) \in Tag /\ Tail(q) \in Seq(Tag) /\ ToSet(q) = {Head(q)} \cup ToSet(Tail(q))
    BY <2>1, ToSetIs
  <2>3. CASE Answer("error") /\ streamTags' = streamTags
    BY <2>1, <2>3, <1>a
  <2>4. CASE /\ row \notin streamTags
             /\ streamTags' = streamTags \cup {row}
             /\ creating' = [creating EXCEPT !.left = Tail(@)]
             /\ asked' = asked
    <3>1. creating' = [stream |-> c, left |-> Tail(q)]
      BY <2>4, <2>1, <1>t
    <3>2. StreamTypes'
      <4>1. creating' \in [stream : 1 .. N, left : Seq(Tag)]
        BY <3>1, <2>1, <2>2
      <4>2. streamTags' \subseteq (1 .. N) \X Tag
        BY <1>t, <2>1, <2>2, <2>4
      <4> QED BY <1>t, <2>1, <2>4, <4>1, <4>2 DEF StreamTypes
    <3>3. \A s \in 1 .. N : GetStreamTags(s)' = IF s = c THEN GetStreamTags(s) \cup {Head(q)} ELSE GetStreamTags(s)
      BY <2>2, <2>4 DEF GetStreamTags
    <3>4. asked[c].answer # "ok" /\ GetStreamTags(c) \cup ToSet(q) = asked[c].tags
      BY <2>1 DEF StreamInv
    <3>5. ASSUME NEW s \in 1 .. N
          PROVE  /\ GetStreamTags(s)' \subseteq asked'[s].tags
                 /\ asked'[s].answer = "ok" => HasItsTags(s)'
      BY <2>2, <2>4, <3>3, <3>4 DEF StreamInv, HasItsTags
    <3>6. /\ asked'[creating'.stream].answer # "ok"
          /\ GetStreamTags(creating.stream)' \cup ToSet(creating'.left) = asked'[creating'.stream].tags
      <4>1. GetStreamTags(creating.stream)' = GetStreamTags(c) \cup {Head(q)}
        BY <2>2, <2>4, <3>1 DEF GetStreamTags
      <4> QED BY <4>1, <2>2, <2>4, <3>1, <3>4
    <3> QED BY <2>1, <3>2, <3>5, <3>6 DEF StreamInv
  <2> QED BY <1>2, <2>3, <2>4 DEF InsertStreamTag
<1>3. CASE FinishStream
  <2>1. creating # Nobody /\ creating.left = <<>> /\ creating.left \in Seq(Tag)
    BY <1>3, <1>t DEF FinishStream
  <2>2. ToSet(creating.left) = {}
    BY <2>1, ToSetIs
  <2>3. HasItsTags(creating.stream)
    BY <2>1, <2>2 DEF StreamInv, HasItsTags
  <2> QED BY <1>3, <2>1, <2>3, <1>a DEF FinishStream
<1>4. CASE ExitWhileCreating
  <2>1. creating' = Nobody /\ UNCHANGED <<streams, streamTags, asked>>
    BY <1>4 DEF ExitWhileCreating
  <2> QED BY <2>1 DEF StreamInv, StreamTypes, GetStreamTags, HasItsTags
<1>5. CASE UNCHANGED <<streams, streamTags, creating, asked>>
  BY <1>5 DEF StreamInv, StreamTypes, GetStreamTags, HasItsTags
<1>6. \A s \in DOMAIN streams, u \in User : GrantWriteAccess(s, u) => UNCHANGED <<streams, streamTags, creating, asked>>
  BY DEF GrantWriteAccess
<1>7. TagStep \/ NameStep \/ LinkStep => UNCHANGED <<streams, streamTags, creating, asked>>
  BY DEF TagStep, NameStep, LinkStep, AddMemoryTag, RemoveMemoryTag, RenameTag, CreateEntity,
         AddAlias, RemoveAlias, AddLink, streamVars
<1> QED
  BY <1>1, <1>2, <1>3, <1>4, <1>5, <1>6, <1>7 DEF RegistryNext, StreamStep, registryVars

(* A stream that was created with success has exactly the tags it was asked *)
(* for, whatever fails, exits or runs between the statements of others.     *)
THEOREM CreatedStreamsAreWhole == RegistrySpec => []OkStreamsAreWhole
<1>1. RegistryInit => StreamInv
  BY DEF RegistryInit, StreamInv, StreamTypes
<1>2. StreamInv => OkStreamsAreWhole
  BY DEF StreamInv, StreamTypes, HasItsTags, OkStreamsAreWhole, GetStream
<1> QED BY <1>1, <1>2, StreamStepInv, PTL DEF RegistrySpec

--------------------------------------------------------------------------------
(* Tags of memories.                                                       *)
TagInv ==
  /\ memoryTags \subseteq Memory \X Tag
  /\ \A m \in Memory : IsFiniteSet(TagsOfMemory(m))

LEMMA AddedOrRemoved ==
  ASSUME TagInv, NEW m \in Memory, NEW t \in Tag, AddMemoryTag(m, t) \/ RemoveMemoryTag(m, t)
  PROVE  /\ TagInv'
         /\ \A n \in Memory \ {m} : TagsOfMemory(n)' = TagsOfMemory(n)
<1>1. \A n \in Memory \ {m} : TagsOfMemory(n)' = TagsOfMemory(n)
  BY DEF AddMemoryTag, RemoveMemoryTag, TagsOfMemory
<1>2. TagsOfMemory(m)' = TagsOfMemory(m) \cup {t} \/ TagsOfMemory(m)' = TagsOfMemory(m) \ {t}
  BY DEF AddMemoryTag, RemoveMemoryTag, TagsOfMemory
<1>3. IsFiniteSet(TagsOfMemory(m))
  BY DEF TagInv
<1>4. IsFiniteSet(TagsOfMemory(m)')
  BY <1>2, <1>3, FS_AddElement, FS_RemoveElement
<1>5. memoryTags' \subseteq Memory \X Tag
  BY DEF TagInv, AddMemoryTag, RemoveMemoryTag
<1>6. \A n \in Memory : IsFiniteSet(TagsOfMemory(n)')
  BY <1>1, <1>4 DEF TagInv
<1> QED BY <1>1, <1>5, <1>6 DEF TagInv

(* The memories that have the old name get the new one for it.             *)
LEMMA Renamed ==
  ASSUME TagInv, NEW old \in Tag, NEW new \in Tag, RenameTag(old, new), NEW m \in Memory
  PROVE  TagsOfMemory(m)' = IF old \in TagsOfMemory(m) THEN (TagsOfMemory(m) \ {old}) \cup {new}
                            ELSE TagsOfMemory(m)
<1> DEFINE New(row) == IF row[2] = old THEN <<row[1], new>> ELSE row
<1>1. memoryTags' = {New(row) : row \in memoryTags}
  BY DEF RenameTag
<1>2. \A row \in memoryTags : row \in Memory \X Tag
  BY DEF TagInv
<1>3. ASSUME NEW t \in Tag, <<m, t>> \in memoryTags'
      PROVE  (t = new /\ <<m, old>> \in memoryTags) \/ (t # old /\ <<m, t>> \in memoryTags)
  <2>1. PICK row \in memoryTags : <<m, t>> = New(row)
    BY <1>1, <1>3
  <2>2. row = <<row[1], row[2]>>
    BY <1>2
  <2> QED BY <2>1, <2>2
<1>4. ASSUME NEW t \in Tag, t # old, <<m, t>> \in memoryTags PROVE <<m, t>> \in memoryTags'
  <2>1. New(<<m, t>>) = <<m, t>>
    BY <1>4
  <2> QED BY <2>1, <1>1, <1>4
<1>5. ASSUME <<m, old>> \in memoryTags PROVE <<m, new>> \in memoryTags'
  <2>1. New(<<m, old>>) = <<m, new>>
    OBVIOUS
  <2> QED BY <2>1, <1>1, <1>5
<1> HIDE DEF New
<1> QED BY <1>3, <1>4, <1>5 DEF TagsOfMemory

LEMMA RenameKeepsCount ==
  ASSUME TagInv, NEW old \in Tag, NEW new \in Tag, RenameTag(old, new), NEW m \in Memory
  PROVE  /\ IsFiniteSet(TagsOfMemory(m)')
         /\ Cardinality(TagsOfMemory(m)') = Cardinality(TagsOfMemory(m))
<1> DEFINE T == TagsOfMemory(m)
<1>1. IsFiniteSet(T)
  BY DEF TagInv
<1>2. CASE old \notin T \/ old = new
  <2>1. TagsOfMemory(m)' = T
    BY <1>2, Renamed
  <2> QED BY <2>1, <1>1
<1>3. CASE old \in T /\ old # new
  <2>1. new \notin T
    BY <1>3 DEF RenameTag, Clash, TagsOfMemory
  <2>2. TagsOfMemory(m)' = (T \ {old}) \cup {new}
    BY <1>3, Renamed
  <2> HIDE DEF T
  <2>3. Cardinality(T) \in Nat
    BY <1>1, FS_CardinalityType
  <2>4. IsFiniteSet(T \ {old}) /\ Cardinality(T \ {old}) = Cardinality(T) - 1
    BY <1>1, <1>3, FS_RemoveElement
  <2>5. IsFiniteSet((T \ {old}) \cup {new}) /\ Cardinality((T \ {old}) \cup {new}) = Cardinality(T \ {old}) + 1
    BY <2>1, <2>4, FS_AddElement
  <2> QED BY <2>2, <2>3, <2>4, <2>5 DEF T
<1> QED BY <1>2, <1>3

LEMMA TagStepInv == TagInv /\ [RegistryNext]_registryVars => TagInv'
<1> SUFFICES ASSUME TagInv, [RegistryNext]_registryVars PROVE TagInv'
  OBVIOUS
<1>1. ASSUME NEW m \in Memory, NEW t \in Tag, AddMemoryTag(m, t) \/ RemoveMemoryTag(m, t) PROVE TagInv'
  BY <1>1, AddedOrRemoved
<1>2. ASSUME NEW old \in Tag, NEW new \in Tag, RenameTag(old, new) PROVE TagInv'
  <2>1. \A m \in Memory : IsFiniteSet(TagsOfMemory(m)')
    BY <1>2, RenameKeepsCount
  <2>2. memoryTags' \subseteq Memory \X Tag
    BY <1>2 DEF RenameTag, TagInv
  <2> QED BY <2>1, <2>2 DEF TagInv
<1>3. CASE UNCHANGED memoryTags
  BY <1>3 DEF TagInv, TagsOfMemory
<1> QED BY <1>1, <1>2, <1>3, OnlyTagSteps

(* Renaming a tag leaves every memory as many tags as it had.              *)
THEOREM RenamingKeepsTags == RegistrySpec => RenamesKeepTags
<1>1. RegistryInit => TagInv
  <2> SUFFICES ASSUME RegistryInit PROVE TagInv
    OBVIOUS
  <2>1. \A m \in Memory : TagsOfMemory(m) = {}
    BY DEF RegistryInit, TagsOfMemory
  <2> QED BY <2>1, FS_EmptySet DEF TagInv, RegistryInit
<1> DEFINE changed == {m \in Memory : TagsOfMemory(m)' # TagsOfMemory(m)}
           Keeps == Cardinality(changed) > 1 =>
                      \A m \in changed : Cardinality(TagsOfMemory(m)') = Cardinality(TagsOfMemory(m))
<1>2. TagInv /\ [RegistryNext]_registryVars => [Keeps]_registryVars
  <2> SUFFICES ASSUME TagInv, RegistryNext PROVE Keeps
    OBVIOUS
  <2>1. ASSUME NEW m \in Memory, NEW t \in Tag, AddMemoryTag(m, t) \/ RemoveMemoryTag(m, t) PROVE Keeps
    <3>1. changed \in SUBSET {m}
      BY <2>1, AddedOrRemoved
    <3>2. IsFiniteSet({m}) /\ Cardinality({m}) = 1
      BY FS_Singleton
    <3> HIDE DEF changed
    <3>3. Cardinality(changed) \in Nat /\ Cardinality(changed) <= 1
      BY <3>1, <3>2, FS_Subset, FS_CardinalityType
    <3> QED BY <3>3
  <2>2. ASSUME NEW old \in Tag, NEW new \in Tag, RenameTag(old, new) PROVE Keeps
    BY <2>2, RenameKeepsCount
  <2>3. CASE UNCHANGED memoryTags
    BY <2>3 DEF TagsOfMemory
  <2> HIDE DEF Keeps
  <2> QED BY <2>1, <2>2, <2>3, OnlyTagSteps
<1> QED BY <1>1, <1>2, TagStepInv, PTL DEF RegistrySpec, RenamesKeepTags

--------------------------------------------------------------------------------
(* The graph of entities.                                                  *)
LEMMA EntityStepInv == entities \in Seq(Word) /\ [RegistryNext]_registryVars => (entities \in Seq(Word))'
<1> SUFFICES ASSUME entities \in Seq(Word), [RegistryNext]_registryVars PROVE entities' \in Seq(Word)
  OBVIOUS
<1>1. ASSUME NEW w \in Word, CreateEntity(w) PROVE entities' \in Seq(Word)
  BY <1>1 DEF CreateEntity
<1>2. ASSUME NEW w \in Word, NEW e, AddAlias(w, e) \/ RemoveAlias(w, e) PROVE entities' \in Seq(Word)
  BY <1>2 DEF AddAlias, RemoveAlias
<1>3. CASE UNCHANGED <<entities, aliases>>
  BY <1>3
<1> QED BY <1>1, <1>2, <1>3, OnlyNameSteps

(* No alias that is added takes a name away from its entity.               *)
THEOREM MeaningsAreKept == RegistrySpec => MentionsKeepMeaning
<1>1. RegistryInit => entities \in Seq(Word)
  BY DEF RegistryInit
<1> DEFINE Keeps(w) == \A e \in Resolve(w) \ Resolve(w)' :
                          \/ e \in FindByAlias(w) \ FindByAlias(w)'
                          \/ FindEntity(w) = {} /\ FindEntity(w)' # {}
<1>2. entities \in Seq(Word) /\ [RegistryNext]_registryVars => [\A w \in Word : Keeps(w)]_registryVars
  <2> SUFFICES ASSUME entities \in Seq(Word), RegistryNext, NEW w \in Word PROVE Keeps(w)
    OBVIOUS
  <2>1. ASSUME NEW word \in Word, CreateEntity(word) PROVE Keeps(w)
    <3>1. \A e \in DOMAIN entities : e \in DOMAIN entities' /\ entities'[e] = entities[e]
      BY <2>1 DEF CreateEntity
    <3>2. FindEntity(w) \subseteq FindEntity(w)'
      BY <3>1 DEF FindEntity
    <3>3. FindByAlias(w)' = FindByAlias(w)
      BY <2>1 DEF CreateEntity, FindByAlias
    <3> QED BY <3>2, <3>3 DEF Resolve
  <2>2. ASSUME NEW word \in Word, NEW e \in DOMAIN entities, AddAlias(word, e) \/ RemoveAlias(word, e)
        PROVE  Keeps(w)
    <3>1. FindEntity(w)' = FindEntity(w)
      BY <2>2 DEF AddAlias, RemoveAlias, FindEntity
    <3>2. CASE AddAlias(word, e)
      <4>1. FindByAlias(w) \subseteq FindByAlias(w)'
        BY <3>2 DEF AddAlias, FindByAlias
      <4> QED BY <3>1, <4>1 DEF Resolve
    <3>3. CASE RemoveAlias(word, e)
      BY <3>1 DEF Resolve
    <3> QED BY <2>2, <3>2, <3>3
  <2>3. CASE UNCHANGED <<entities, aliases>>
    <3>1. FindEntity(w)' = FindEntity(w) /\ FindByAlias(w)' = FindByAlias(w)
      BY <2>3 DEF FindEntity, FindByAlias
    <3> QED BY <3>1 DEF Resolve
  <2> HIDE DEF Keeps
  <2> QED BY <2>1, <2>2, <2>3, OnlyNameSteps
<1> QED BY <1>1, <1>2, EntityStepInv, PTL DEF RegistrySpec, MentionsKeepMeaning

--------------------------------------------------------------------------------
(* Walks in the graph of entities.                                        *)

(* A bounded sequence is a sequence that is short enough.                  *)
LEMMA WalkIs ==
  ASSUME NEW S, NEW n \in Nat, NEW walk
  PROVE  walk \in BoundedSeq(S, n) <=> walk \in Seq(S) /\ Len(walk) <= n
<1>1. ASSUME walk \in BoundedSeq(S, n) PROVE walk \in Seq(S) /\ Len(walk) <= n
  BY <1>1 DEF BoundedSeq, SeqOf
<1>2. ASSUME walk \in Seq(S), Len(walk) <= n PROVE walk \in BoundedSeq(S, n)
  BY <1>2 DEF BoundedSeq, SeqOf
<1> QED BY <1>1, <1>2

(* Some relationship joins the two, whichever way it points.               *)
Adjacent(f, g) == \E k \in DOMAIN links : {k[1], k[2]} = {f, g}

(* The entities that a relationship joins to one of a set.  *)
Joined(set) ==
  {f \in DOMAIN entities : \E g \in set : Adjacent(g, f)}

(* A relationship joins entities that are there.                           *)
LinksJoinEntities ==
  \A k \in DOMAIN links : k[1] \in DOMAIN entities /\ k[2] \in DOMAIN entities

(* A walk of n relationships from an entity to another.  *)
IsWalk(walk, entity, f, n) ==
  /\ walk \in Seq(DOMAIN entities) /\ Len(walk) \in 1 .. n + 1
  /\ walk[1] = entity /\ walk[Len(walk)] = f
  /\ \A i \in 1 .. Len(walk) - 1 : Adjacent(walk[i], walk[i + 1])

(* Near in terms of walks.                                                 *)
LEMMA NearIs ==
  ASSUME NEW entity, NEW n \in Nat
  PROVE  Near(entity, n) = {f \in DOMAIN entities : \E walk : IsWalk(walk, entity, f, n)}
<1>1. ASSUME NEW f \in DOMAIN entities, NEW walk
      PROVE  IsWalk(walk, entity, f, n) <=>
               /\ walk \in BoundedSeq(DOMAIN entities, n + 1)
               /\ walk # <<>> /\ Head(walk) = entity /\ Last(walk) = f
               /\ \A i \in 1 .. Len(walk) - 1 : Adjacent(walk[i], walk[i + 1])
  <2>1. n + 1 \in Nat
    OBVIOUS
  <2>2. walk \in BoundedSeq(DOMAIN entities, n + 1) <=> walk \in Seq(DOMAIN entities) /\ Len(walk) <= n + 1
    BY <2>1, WalkIs
  <2>3. ASSUME walk \in Seq(DOMAIN entities)
        PROVE  (walk # <<>> /\ Head(walk) = entity /\ Last(walk) = f /\ Len(walk) <= n + 1)
                  <=> (Len(walk) \in 1 .. n + 1 /\ walk[1] = entity /\ walk[Len(walk)] = f)
    BY <2>3 DEF Last
  <2> QED BY <2>2, <2>3 DEF IsWalk
<1> QED BY <1>1 DEF Near, Adjacent

(* No relationship leads nowhere else.                                     *)
LEMMA NearNothing ==
  ASSUME NEW entity \in DOMAIN entities
  PROVE  Near(entity, 0) = {entity}
<1>1. ASSUME NEW f, NEW walk, IsWalk(walk, entity, f, 0)
      PROVE  f = entity
  <2>1. Len(walk) \in 1 .. 1 /\ walk[1] = entity /\ walk[Len(walk)] = f
    BY <1>1 DEF IsWalk
  <2>2. Len(walk) = 1
    BY <2>1
  <2> QED BY <2>1, <2>2
<1>2. IsWalk(<<entity>>, entity, entity, 0)
  <2> DEFINE walk == <<entity>>
  <2>1. walk \in Seq(DOMAIN entities) /\ Len(walk) = 1 /\ walk[1] = entity
    OBVIOUS
  <2> HIDE DEF walk
  <2>2. IsWalk(walk, entity, entity, 0)
    BY <2>1 DEF IsWalk
  <2> QED BY <2>2 DEF walk
<1> QED BY <1>1, <1>2, NearIs

(* One more relationship reaches the neighbours of what was near.          *)
LEMMA NearStep ==
  ASSUME NEW entity \in DOMAIN entities, NEW n \in Nat
  PROVE  Near(entity, n + 1) = Near(entity, n) \cup Joined(Near(entity, n))
<1> USE NearIs
<1>1. ASSUME NEW f \in Near(entity, n + 1)
      PROVE  f \in Near(entity, n) \cup Joined(Near(entity, n))
  <2>1. PICK walk : IsWalk(walk, entity, f, n + 1)
    OBVIOUS
  <2>2. CASE Len(walk) <= n + 1
    <3>1. IsWalk(walk, entity, f, n)
      BY <2>1, <2>2 DEF IsWalk
    <3> QED BY <3>1
  <2>3. CASE Len(walk) = n + 2
    <3> DEFINE front == SubSeq(walk, 1, n + 1)
               g == walk[n + 1]
    <3>1. walk \in Seq(DOMAIN entities) /\ n + 1 \in 1 .. Len(walk)
      BY <2>1, <2>3 DEF IsWalk
    <3>2. /\ front \in Seq(DOMAIN entities) /\ Len(front) = n + 1
          /\ \A i \in 1 .. n + 1 : front[i] = walk[i]
      BY <3>1
    <3>3. g \in DOMAIN entities
      BY <3>1
    <3> HIDE DEF front
    <3>4. IsWalk(front, entity, g, n)
      BY <2>1, <2>3, <3>1, <3>2 DEF IsWalk
    <3>5. g \in Near(entity, n)
      BY <3>3, <3>4
    <3>6. Adjacent(g, f)
      <4>1. n + 1 \in 1 .. Len(walk) - 1 /\ walk[(n + 1) + 1] = f
        BY <2>1, <2>3 DEF IsWalk
      <4> QED BY <2>1, <4>1 DEF IsWalk
    <3>7. f \in DOMAIN entities
      OBVIOUS
    <3> QED BY <3>5, <3>6, <3>7 DEF Joined
  <2>4. Len(walk) <= n + 1 \/ Len(walk) = n + 2
    BY <2>1 DEF IsWalk
  <2> QED BY <2>2, <2>3, <2>4
<1>2. ASSUME NEW f \in Near(entity, n)
      PROVE  f \in Near(entity, n + 1)
  <2>1. PICK walk : IsWalk(walk, entity, f, n)
    OBVIOUS
  <2>2. IsWalk(walk, entity, f, n + 1)
    BY <2>1 DEF IsWalk
  <2> QED BY <2>2
<1>3. ASSUME NEW f \in Joined(Near(entity, n))
      PROVE  f \in Near(entity, n + 1)
  <2>1. PICK g \in Near(entity, n) : Adjacent(g, f)
    BY DEF Joined
  <2>2. PICK walk : IsWalk(walk, entity, g, n)
    BY <2>1
  <2> DEFINE longer == Append(walk, f)
             l == Len(walk)
  <2>3. f \in DOMAIN entities
    BY DEF Joined
  <2>4. walk \in Seq(DOMAIN entities) /\ l \in 1 .. n + 1
    BY <2>2 DEF IsWalk
  <2>5. /\ longer \in Seq(DOMAIN entities) /\ Len(longer) = l + 1
        /\ longer[l + 1] = f /\ \A i \in 1 .. l : longer[i] = walk[i]
    BY <2>3, <2>4
  <2> HIDE DEF longer
  <2>6. ASSUME NEW i \in 1 .. Len(longer) - 1
        PROVE  Adjacent(longer[i], longer[i + 1])
    <3>1. CASE i = l
      <4>1. longer[i] = g /\ longer[i + 1] = f
        BY <3>1, <2>2, <2>4, <2>5 DEF IsWalk
      <4> QED BY <4>1, <2>1
    <3>2. CASE i # l
      <4>1. i \in 1 .. l - 1 /\ longer[i] = walk[i] /\ longer[i + 1] = walk[i + 1]
        BY <3>2, <2>4, <2>5
      <4> QED BY <4>1, <2>2 DEF IsWalk
    <3> QED BY <3>1, <3>2
  <2>7. IsWalk(longer, entity, f, n + 1)
    BY <2>2, <2>4, <2>5, <2>6 DEF IsWalk
  <2> QED BY <2>3, <2>7
<1>4. Near(entity, n + 1) \subseteq DOMAIN entities
  OBVIOUS
<1> QED BY <1>1, <1>2, <1>3

(* The entities that n rounds have visited, and what they have found then. *)
Visited(entity, n) == IF n = 0 THEN {} ELSE Near(entity, n - 1)

(* The memories of the relationships that touch one of a set.              *)
MemoriesOf(set) == {links[k] : k \in {l \in DOMAIN links : l[1] \in set \/ l[2] \in set}} \ {Nobody}

(* What n rounds of traverse leave: the frontier are the neighbours of the *)
(* entities that the last round was the first to visit.                    *)
After(entity, n) ==
  [visited |-> Visited(entity, n),
   frontier |-> IF n = 0 THEN {entity} ELSE Joined(Visited(entity, n) \ Visited(entity, n - 1)),
   found |-> MemoriesOf(Visited(entity, n))]

(* One round more.  Nothing is missed by looking at the new entities only: *)
(* the neighbours of the others have been visited by then.                 *)
LEMMA HopIs ==
  ASSUME LinksJoinEntities, NEW entity \in DOMAIN entities, NEW n \in Nat
  PROVE  Hop(After(entity, n)) = After(entity, n + 1)
<1> DEFINE old == Visited(entity, n)
           all == Visited(entity, n + 1)
           acc == After(entity, n)
           new == acc.frontier \ acc.visited
           out == UNION {Outgoing(e) : e \in new}
           in == UNION {Incoming(e) : e \in new}
<1>1. /\ acc.visited = old /\ acc.found = MemoriesOf(old)
      /\ acc.frontier = IF n = 0 THEN {entity} ELSE Joined(old \ Visited(entity, n - 1))
  BY DEF After
<1>2. all = old \cup acc.frontier
  <2>1. CASE n = 0
    BY <2>1, <1>1, NearNothing DEF Visited
  <2>2. CASE n # 0
    <3> DEFINE before == Visited(entity, n - 1)
    <3>1. n - 1 \in Nat /\ all = Near(entity, n) /\ old = Near(entity, n - 1)
      BY <2>2 DEF Visited
    <3>2. all = old \cup Joined(old)
      BY <3>1, NearStep
    <3>3. Joined(before) \subseteq old
      <4>1. CASE n = 1
        BY <4>1 DEF Visited, Joined
      <4>2. CASE n # 1
        <5>1. n - 2 \in Nat /\ before = Near(entity, n - 2) /\ (n - 2) + 1 = n - 1
          BY <4>2, <2>2 DEF Visited
        <5> QED BY <5>1, <3>1, NearStep
      <4> QED BY <4>1, <4>2
    <3>4. Joined(old) \subseteq Joined(before) \cup Joined(old \ before)
      BY DEF Joined
    <3>5. Joined(old \ before) \subseteq Joined(old)
      BY DEF Joined
    <3> QED BY <1>1, <2>2, <3>2, <3>3, <3>4, <3>5
  <2> QED BY <2>1, <2>2
<1>3. new = all \ old
  BY <1>1, <1>2
<1>4. /\ out = {k \in DOMAIN links : k[1] \in new}
      /\ in = {k \in DOMAIN links : k[2] \in new}
  BY DEF Outgoing, Incoming
<1> HIDE DEF new, out, in, acc, old, all
<1>5. {k[2] : k \in out} \cup {k[1] : k \in in} = Joined(new)
  <2>1. ASSUME NEW k \in out PROVE k[2] \in Joined(new)
    <3>1. k[2] \in DOMAIN entities /\ k[1] \in new /\ k \in DOMAIN links
      BY <1>4 DEF LinksJoinEntities
    <3> QED BY <3>1 DEF Joined, Adjacent
  <2>2. ASSUME NEW k \in in PROVE k[1] \in Joined(new)
    <3>1. k[1] \in DOMAIN entities /\ k[2] \in new /\ k \in DOMAIN links /\ {k[1], k[2]} = {k[2], k[1]}
      BY <1>4 DEF LinksJoinEntities
    <3> QED BY <3>1 DEF Joined, Adjacent
  <2>3. ASSUME NEW f \in Joined(new)
        PROVE  f \in {k[2] : k \in out} \cup {k[1] : k \in in}
    <3>1. PICK g \in new : Adjacent(g, f)
      BY DEF Joined
    <3>2. PICK k \in DOMAIN links : {k[1], k[2]} = {g, f}
      BY <3>1 DEF Adjacent
    <3>3. (k[1] = g /\ k[2] = f) \/ (k[1] = f /\ k[2] = g)
      BY <3>2
    <3>4. (k \in out /\ k[2] = f) \/ (k \in in /\ k[1] = f)
      BY <3>3, <1>4
    <3> QED BY <3>4
  <2> QED BY <2>1, <2>2, <2>3
<1>6. MemoriesOf(old) \cup ({links[k] : k \in out \cup in} \ {Nobody}) = MemoriesOf(all)
  <2>1. {l \in DOMAIN links : l[1] \in all \/ l[2] \in all}
          = {l \in DOMAIN links : l[1] \in old \/ l[2] \in old} \cup (out \cup in)
    BY <1>2, <1>1, <1>3, <1>4
  <2> QED BY <2>1 DEF MemoriesOf
<1>7. acc.visited \cup new = all
  BY <1>1, <1>2, <1>3
<1>8. Hop(acc) = [visited |-> acc.visited \cup new,
                 frontier |-> {k[2] : k \in out} \cup {k[1] : k \in in},
                 found |-> acc.found \cup ({links[k] : k \in out \cup in} \ {Nobody})]
  BY DEF Hop, new, out, in
<1>9. Hop(acc) = [visited |-> all, frontier |-> Joined(new), found |-> MemoriesOf(all)]
  BY <1>1, <1>5, <1>6, <1>7, <1>8
<1>10. After(entity, n + 1) = [visited |-> all, frontier |-> Joined(all \ old), found |-> MemoriesOf(all)]
  BY DEF After, all, old
<1> QED BY <1>3, <1>9, <1>10 DEF acc

(* So the recursion of traverse goes through After.                        *)
LEMMA TraverseIs ==
  ASSUME LinksJoinEntities, NEW entity \in DOMAIN entities, NEW hops \in Nat
  PROVE  Traverse(entity, hops) = MemoriesOf(Visited(entity, hops))
<1> DEFINE Start == [visited |-> {}, frontier |-> {entity}, found |-> {}]
           F(f) == [n \in 0 .. hops |-> IF n = 0 THEN Start ELSE Hop(f[n - 1])]
           g == [n \in 0 .. hops |-> After(entity, n)]
           f == CHOOSE h : h = F(h)
           Same == {n \in 0 .. hops : f[n] = g[n]}
<1>1. g = F(g)
  <2>1. After(entity, 0) = Start
    BY DEF After, Visited, MemoriesOf
  <2>2. ASSUME NEW n \in 1 .. hops
        PROVE  After(entity, n) = Hop(After(entity, n - 1))
    <3>1. n - 1 \in Nat /\ (n - 1) + 1 = n
      OBVIOUS
    <3> QED BY <3>1, HopIs
  <2>3. \A n \in 0 .. hops : n # 0 => n \in 1 .. hops /\ n - 1 \in 0 .. hops
    OBVIOUS
  <2> HIDE DEF Start
  <2>4. \A n \in 0 .. hops : After(entity, n) = IF n = 0 THEN Start ELSE Hop(g[n - 1])
    BY <2>1, <2>2, <2>3
  <2> QED BY <2>4
<1>2. f = F(f)
  <2> HIDE DEF g, F
  <2> QED BY <1>1
<1> HIDE DEF f, g
<1>3. 0 \in Same
  BY <1>1, <1>2
<1>4. ASSUME NEW n \in 1 .. hops, n - 1 \in Same
      PROVE  n \in Same
  <2>1. n \in 0 .. hops /\ n # 0
    OBVIOUS
  <2>2. f[n] = Hop(f[n - 1]) /\ g[n] = Hop(g[n - 1])
    BY <2>1, <1>1, <1>2
  <2> QED BY <2>1, <2>2, <1>4
<1> HIDE DEF Same
<1>5. 0 .. hops \subseteq Same
  BY <1>3, <1>4, StepsReach
<1>6. f[hops] = After(entity, hops)
  BY <1>5 DEF Same, g
<1>7. Traverse(entity, hops) = f[hops].found
  BY DEF Traverse, f
<1> QED BY <1>6, <1>7 DEF After

(* Relationships join entities that are there: none is ever removed. *)
LinkInv == entities \in Seq(Word) /\ LinksJoinEntities

(* Entities are only added, and a relationship is between two of them.     *)
LEMMA LinkStepInv == LinkInv /\ [RegistryNext]_registryVars => LinkInv'
<1> SUFFICES ASSUME LinkInv, [RegistryNext]_registryVars PROVE LinkInv'
  OBVIOUS
<1> USE DEF LinkInv, LinksJoinEntities
<1>1. ASSUME NEW e \in DOMAIN entities, NEW f \in DOMAIN entities, NEW r, NEW m, AddLink(e, f, r, m)
      PROVE  LinkInv'
  <2>1. /\ DOMAIN links' = DOMAIN links \cup {<<e, f, r>>}
        /\ entities' = entities
    BY <1>1 DEF AddLink
  <2> QED BY <2>1
<1>2. ASSUME NEW w \in Word, CreateEntity(w)
      PROVE  LinkInv'
  <2>1. entities' = Append(entities, w) /\ links' = links
    BY <1>2 DEF CreateEntity
  <2>2. entities' \in Seq(Word) /\ DOMAIN entities \subseteq DOMAIN entities'
    BY <2>1
  <2> QED BY <2>1, <2>2
<1>3. CASE UNCHANGED <<entities, links>>
  BY <1>3
<1>4. \/ \E e, f \in DOMAIN entities, r \in Relation, m \in Memory \cup {Nobody} : AddLink(e, f, r, m)
      \/ \E w \in Word : CreateEntity(w)
      \/ UNCHANGED <<entities, links>>
  BY DEF RegistryNext, StreamStep, TagStep, NameStep, LinkStep, CreateStream, InsertStreamTag,
         FinishStream, ExitWhileCreating, GrantWriteAccess, AddMemoryTag, RemoveMemoryTag,
         RenameTag, AddAlias, RemoveAlias, registryVars, graphVars, Answer
<1> QED BY <1>1, <1>2, <1>3, <1>4

(* A traversal of n hops finds the memories of the relationships that      *)
(* touch an entity within n - 1 of the first, and no other memory.         *)
THEOREM TraversalIsExact == RegistrySpec => []TraverseFindsNear
<1>1. RegistryInit => LinkInv
  BY DEF RegistryInit, LinkInv, LinksJoinEntities
<1>2. LinkInv => TraverseFindsNear
  <2> SUFFICES ASSUME LinkInv, NEW e \in DOMAIN entities, NEW hops \in 1 .. MaxHops
               PROVE  Traverse(e, hops)
                        = {links[k] : k \in {l \in DOMAIN links :
                             {l[1], l[2]} \cap Near(e, hops - 1) # {}}} \ {Nobody}
    BY DEF TraverseFindsNear
  <2>1. Traverse(e, hops) = MemoriesOf(Near(e, hops - 1))
    <3>1. hops \in Nat /\ hops # 0
      OBVIOUS
    <3> QED BY <3>1, TraverseIs DEF LinkInv, Visited
  <2>2. \A l, set : {l[1], l[2]} \cap set # {} <=> l[1] \in set \/ l[2] \in set
    OBVIOUS
  <2> QED BY <2>1, <2>2 DEF MemoriesOf
<1> QED BY <1>1, <1>2, LinkStepInv, PTL DEF RegistrySpec

--------------------------------------------------------------------------------
(* What callers are told.                                                  *)

(* The lines of a client of the MCP server, their ids and their answers.    *)
LineKinds == {"request", "blank", "unreadable", "notification", "garbage"}

McpLines(Id, Method, Tool) ==
  [kind : {"request"}, id : Id, method : Method, tool : Tool] \cup [kind : LineKinds \ {"request"}]

IdOf(line) == IF line.kind = "request" THEN line.id ELSE NoId

AnswerTo(line) == IF line.kind = "request" THEN McpAnswer(line) ELSE [id |-> NoId, error |-> -32700]

ServerStates(Lines) == [answers : Seq({AnswerTo(l) : l \in Lines}), serving : BOOLEAN]

(* A turn either stops the server, or it answers, or it does nothing.        *)
LEMMA TurnIs ==
  ASSUME NEW Lines, NEW a \in ServerStates(Lines), NEW line \in Lines, line.kind \in LineKinds, NEW writable \in Nat
  PROVE  /\ McpTurn(a, line, writable) =
              IF ~ a.serving \/ line.kind = "blank" THEN a
              ELSE IF line.kind = "unreadable" \/ Len(a.answers) = writable
                   THEN [a EXCEPT !.serving = FALSE]
                   ELSE [a EXCEPT !.answers = Append(a.answers, AnswerTo(line))]
         /\ McpTurn(a, line, writable) \in ServerStates(Lines)
         /\ AnswerTo(line).id = IdOf(line)
<1> DEFINE b == McpTurn(a, line, writable)
           A == {AnswerTo(l) : l \in Lines}
<1>1. b = IF ~ a.serving \/ line.kind = "blank" THEN a
          ELSE IF line.kind = "unreadable" \/ Len(a.answers) = writable
               THEN [a EXCEPT !.serving = FALSE]
               ELSE [a EXCEPT !.answers = Append(a.answers, AnswerTo(line))]
  BY DEF McpTurn, LineKinds, AnswerTo
<1>2. AnswerTo(line) \in A /\ a.answers \in Seq(A)
  BY DEF ServerStates
<1> HIDE DEF A
<1>3. Append(a.answers, AnswerTo(line)) \in Seq(A)
  BY <1>2
<1>4. b \in [answers : Seq(A), serving : BOOLEAN]
  <2>1. a \in [answers : Seq(A), serving : BOOLEAN]
    BY DEF ServerStates, A
  <2> HIDE DEF b
  <2>2. CASE b = a
    BY <2>1, <2>2
  <2>3. CASE b = [a EXCEPT !.serving = FALSE]
    BY <2>1, <2>3
  <2>4. CASE b = [a EXCEPT !.answers = Append(a.answers, AnswerTo(line))]
    BY <1>3, <2>1, <2>4
  <2> QED BY <1>1, <2>2, <2>3, <2>4
<1>5. AnswerTo(line).id = IdOf(line)
  BY DEF AnswerTo, IdOf, McpAnswer
<1> QED BY <1>1, <1>4, <1>5 DEF ServerStates, A

(* The lines up to one of them that ask for an answer.  *)
AskingTo(lines, i) == {k \in Asking(lines) : k <= i}

(* Each line that asks adds one to their number.                             *)
LEMMA AskingIs ==
  ASSUME NEW L, NEW lines \in Seq(L), NEW i \in 0 .. Len(lines)
  PROVE  /\ IsFiniteSet(AskingTo(lines, i)) /\ Cardinality(AskingTo(lines, i)) \in Nat
         /\ AskingTo(lines, 0) = {}
         /\ AskingTo(lines, Len(lines)) = Asking(lines)
         /\ \A k \in 0 .. i : Cardinality(AskingTo(lines, k)) <= Cardinality(AskingTo(lines, i))
         /\ i # 0 => AskingTo(lines, i) = IF i \in Asking(lines) THEN AskingTo(lines, i - 1) \cup {i}
                                          ELSE AskingTo(lines, i - 1)
         /\ i # 0 => Cardinality(AskingTo(lines, i)) =
                       Cardinality(AskingTo(lines, i - 1)) + (IF i \in Asking(lines) THEN 1 ELSE 0)
<1>1. Len(lines) \in Nat /\ DOMAIN lines = 1 .. Len(lines) /\ Asking(lines) \subseteq 1 .. Len(lines)
  BY DEF Asking
<1>2. ASSUME NEW k \in 0 .. Len(lines)
      PROVE  IsFiniteSet(AskingTo(lines, k)) /\ Cardinality(AskingTo(lines, k)) \in Nat
  <2>1. AskingTo(lines, k) \subseteq 1 .. Len(lines)
    BY <1>1 DEF AskingTo
  <2>2. IsFiniteSet(1 .. Len(lines))
    BY <1>1, FS_Interval
  <2> QED BY <2>1, <2>2, FS_Subset, FS_CardinalityType
<1>3. AskingTo(lines, 0) = {} /\ AskingTo(lines, Len(lines)) = Asking(lines)
  BY <1>1 DEF AskingTo
<1>4. ASSUME NEW k \in 0 .. i PROVE Cardinality(AskingTo(lines, k)) <= Cardinality(AskingTo(lines, i))
  <2>1. AskingTo(lines, k) \subseteq AskingTo(lines, i)
    BY <1>1 DEF AskingTo
  <2> QED BY <1>2, <2>1, FS_Subset
<1>5. ASSUME i # 0
      PROVE  AskingTo(lines, i) = IF i \in Asking(lines) THEN AskingTo(lines, i - 1) \cup {i}
                                  ELSE AskingTo(lines, i - 1)
  BY <1>1, <1>5 DEF AskingTo
<1>6. ASSUME i # 0
      PROVE  Cardinality(AskingTo(lines, i)) =
               Cardinality(AskingTo(lines, i - 1)) + (IF i \in Asking(lines) THEN 1 ELSE 0)
  <2>1. i - 1 \in 0 .. Len(lines)
    BY <1>1, <1>6
  <2>2. i \notin AskingTo(lines, i - 1)
    BY <1>1 DEF AskingTo
  <2> QED BY <1>2, <1>5, <1>6, <2>1, <2>2, FS_AddElement
<1> QED BY <1>2, <1>3, <1>4, <1>5, <1>6

(* By induction on the lines read: while the server serves, it has answered  *)
(* as many lines as have asked, in their order.                              *)
LEMMA ServeIs ==
  ASSUME NEW Id, NEW Method, NEW Tool,
         NEW lines \in Seq(McpLines(Id, Method, Tool)), NEW writable \in Nat
  PROVE  LET served == ServeStdio(lines, writable)
             Turn(i) == Cardinality({k \in Asking(lines) : k <= i})
             all == Cardinality(Asking(lines))
         IN  /\ Len(served.answers) = IF all <= writable THEN all ELSE writable
             /\ \A i \in Asking(lines) :
                  Turn(i) <= Len(served.answers) => served.answers[Turn(i)].id = IdOf(lines[i])
             /\ served.serving <=> /\ \A i \in DOMAIN lines : lines[i].kind # "unreadable"
                                  /\ all <= writable
<1> DEFINE n == Len(lines)
           Lines == McpLines(Id, Method, Tool)
           S == ServerStates(Lines)
           start == [answers |-> <<>>, serving |-> TRUE]
           F(f) == [i \in 0 .. n |-> IF i = 0 THEN start ELSE McpTurn(f[i - 1], lines[i], writable)]
           acc == CHOOSE f : f = F(f)
           turn == [p \in (1 .. n) \X S |-> McpTurn(p[2], lines[p[1]], writable)]
           Count(i) == Cardinality(AskingTo(lines, i))
<1>1. n \in Nat /\ \A i \in 1 .. n : lines[i] \in Lines /\ lines[i].kind \in LineKinds
  <2>1. \A l \in Lines : l.kind \in LineKinds
    BY DEF McpLines, LineKinds
  <2> QED BY <2>1
<1>2. ASSUME NEW a \in S, NEW i \in 1 .. n
      PROVE  McpTurn(a, lines[i], writable) \in S
  BY <1>1, TurnIs
<1>3. start \in S
  BY DEF ServerStates
<1> HIDE DEF S, start, n
<1>4. turn \in Turns(n, S)
  BY <1>2 DEF Turns
<1>5. \E f : f = F(f)
  <2> HIDE DEF turn
  <2>1. PICK f : IsRun(f, n, S, start, turn)
    BY <1>1, <1>3, <1>4, RunExists
  <2>2. \A i \in 1 .. n : i - 1 \in 0 .. n /\ f[i - 1] \in S
    BY <1>1, <2>1 DEF IsRun
  <2>3. \A i \in 1 .. n : turn[<<i, f[i - 1]>>] = McpTurn(f[i - 1], lines[i], writable)
    BY <2>2 DEF turn
  <2>4. \A i \in 0 .. n : i = 0 \/ i \in 1 .. n
    OBVIOUS
  <2>5. f = F(f)
    BY <2>1, <2>3, <2>4 DEF IsRun
  <2> QED BY <2>5
<1>6. acc = F(acc)
  BY <1>5
<1> HIDE DEF acc
<1> HIDE DEF turn
<1>7. acc[0] = start /\ \A i \in 1 .. n : acc[i] = McpTurn(acc[i - 1], lines[i], writable)
  BY <1>1, <1>6
<1> DEFINE Good(i) ==
             /\ acc[i] \in S
             /\ Len(acc[i].answers) = IF Count(i) <= writable THEN Count(i) ELSE writable
             /\ \A j \in AskingTo(lines, i) :
                  Count(j) <= Len(acc[i].answers) => acc[i].answers[Count(j)].id = IdOf(lines[j])
             /\ acc[i].serving <=> (\A k \in 1 .. i : lines[k].kind # "unreadable") /\ Count(i) <= writable
           Same == {i \in 0 .. n : Good(i)}
<1>8. 0 \in Same
  <2>1. AskingTo(lines, 0) = {} /\ Count(0) = 0
    BY <1>1, AskingIs, FS_EmptySet DEF n
  <2>2. acc[0].answers = <<>> /\ acc[0].serving /\ acc[0] \in S /\ 0 \in 0 .. n
    BY <1>1, <1>3, <1>7 DEF start
  <2> HIDE DEF Count
  <2> QED BY <2>1, <2>2
<1>9. ASSUME NEW i \in 1 .. n, i - 1 \in Same
      PROVE  i \in Same
  <2> DEFINE a == acc[i - 1]
             b == acc[i]
             line == lines[i]
             answer == AnswerTo(lines[i])
  <2>1. Good(i - 1) /\ a \in S /\ i \in 0 .. n /\ i # 0
    BY <1>9
  <2>2. /\ b = IF ~ a.serving \/ line.kind = "blank" THEN a
               ELSE IF line.kind = "unreadable" \/ Len(a.answers) = writable
                    THEN [a EXCEPT !.serving = FALSE]
                    ELSE [a EXCEPT !.answers = Append(a.answers, answer)]
        /\ answer.id = IdOf(line) /\ b \in S
    <3> DEFINE t == McpTurn(a, line, writable)
    <3>1. a \in ServerStates(Lines) /\ line \in Lines /\ line.kind \in LineKinds
      BY <1>1, <2>1 DEF S
    <3>2. b = t
      BY <1>7
    <3> HIDE DEF a, b, line, Lines
    <3>3. /\ t = IF ~ a.serving \/ line.kind = "blank" THEN a
                 ELSE IF line.kind = "unreadable" \/ Len(a.answers) = writable
                      THEN [a EXCEPT !.serving = FALSE]
                      ELSE [a EXCEPT !.answers = Append(a.answers, AnswerTo(line))]
          /\ t \in ServerStates(Lines) /\ AnswerTo(line).id = IdOf(line)
      BY <3>1, TurnIs
    <3> HIDE DEF t
    <3> QED BY <3>2, <3>3 DEF S, line
  <2>3. /\ Count(i) \in Nat /\ Count(i - 1) \in Nat
        /\ AskingTo(lines, i) = IF i \in Asking(lines) THEN AskingTo(lines, i - 1) \cup {i} ELSE AskingTo(lines, i - 1)
        /\ Count(i) = Count(i - 1) + (IF i \in Asking(lines) THEN 1 ELSE 0)
    <3>1. i - 1 \in 0 .. n
      BY <1>1
    <3> QED BY <2>1, <3>1, AskingIs DEF n
  <2>4. \A j \in AskingTo(lines, i - 1) : Count(j) <= Count(i - 1) /\ Count(j) \in Nat /\ Count(j) # 0
    <3>1. ASSUME NEW j \in AskingTo(lines, i - 1) PROVE Count(j) <= Count(i - 1) /\ Count(j) \in Nat /\ Count(j) # 0
      <4>1. j \in 1 .. i - 1 /\ j \in 0 .. n /\ i - 1 \in 0 .. n /\ j \in Asking(lines) /\ j - 1 \in 0 .. n
        BY <1>1 DEF AskingTo, Asking, n
      <4>2. Count(j) = Count(j - 1) + 1 /\ Count(j - 1) \in Nat
        BY <4>1, AskingIs DEF n
      <4> QED BY <4>1, <4>2, AskingIs, SMTT(30) DEF n
    <3> QED BY <3>1
  <2>5. i \in Asking(lines) <=> /\ line.kind # "blank" /\ line.kind # "unreadable"
                                /\ \A k \in 1 .. i - 1 : lines[k].kind # "unreadable"
    <3>1. \A k \in 1 .. i : k = i \/ k \in 1 .. i - 1
      OBVIOUS
    <3> QED BY <1>1, <3>1 DEF Asking, n
  <2>6. a \in [answers : Seq({AnswerTo(l) : l \in Lines}), serving : BOOLEAN]
    BY <2>1 DEF S, ServerStates
  <2>7. (\A k \in 1 .. i : lines[k].kind # "unreadable")
          <=> line.kind # "unreadable" /\ \A k \in 1 .. i - 1 : lines[k].kind # "unreadable"
    <3>1. \A k \in 1 .. i : k = i \/ k \in 1 .. i - 1
      OBVIOUS
    <3> QED BY <3>1
  <2> HIDE DEF a, b, answer, line, Lines, Count
  <2>8. Good(i)
    <3>1. CASE ~ a.serving
      <4>1. b = a
        BY <2>2, <3>1
      <4>2. CASE \E k \in 1 .. i - 1 : lines[k].kind = "unreadable"
        <5>1. i \notin Asking(lines)
          BY <2>5, <4>2
        <5> QED BY <2>1, <2>2, <2>3, <2>7, <3>1, <4>1, <4>2, <5>1 DEF a, b
      <4>3. CASE Count(i - 1) > writable
        <5>1. Len(a.answers) = writable /\ Count(i) > writable
          BY <2>1, <2>3, <4>3 DEF a
        <5>2. ASSUME NEW j \in AskingTo(lines, i), Count(j) <= Len(b.answers)
              PROVE  b.answers[Count(j)].id = IdOf(lines[j])
          <6>1. j # i
            BY <2>3, <4>1, <5>1, <5>2
          <6> QED BY <2>1, <2>3, <4>1, <5>2, <6>1 DEF a
        <5> QED BY <2>2, <2>3, <3>1, <4>1, <5>1, <5>2 DEF b
      <4> QED BY <2>1, <2>3, <3>1, <4>2, <4>3 DEF a
    <3>2. CASE a.serving /\ line.kind \in {"blank", "unreadable"}
      <4>1. i \notin Asking(lines)
        BY <2>5, <3>2
      <4>2. b.answers = a.answers /\ (b.serving <=> line.kind # "unreadable")
        BY <2>1, <2>2, <2>6, <3>2
      <4> QED BY <2>1, <2>2, <2>3, <2>7, <3>2, <4>1, <4>2 DEF a, b
    <3>3. CASE a.serving /\ line.kind \notin {"blank", "unreadable"}
      <4>1. /\ i \in Asking(lines) /\ Count(i) = Count(i - 1) + 1 /\ Count(i - 1) <= writable
            /\ Len(a.answers) = Count(i - 1) /\ \A k \in 1 .. i : lines[k].kind # "unreadable"
        BY <2>1, <2>3, <2>5, <2>7, <3>3 DEF a
      <4>2. CASE Len(a.answers) = writable
        <5>1. b.answers = a.answers /\ ~ b.serving
          BY <2>1, <2>2, <2>6, <3>3, <4>2
        <5>2. ASSUME NEW j \in AskingTo(lines, i), Count(j) <= Len(b.answers)
              PROVE  b.answers[Count(j)].id = IdOf(lines[j])
          <6>1. j # i
            BY <2>3, <4>1, <4>2, <5>1, <5>2
          <6> QED BY <2>1, <2>3, <5>1, <5>2, <6>1 DEF a
        <5> QED BY <2>2, <2>3, <4>1, <4>2, <5>1, <5>2 DEF b
      <4>3. CASE Len(a.answers) # writable
        <5>1. b.answers = Append(a.answers, answer) /\ b.serving
          BY <2>1, <2>2, <2>6, <3>3, <4>3
        <5>2. /\ Len(b.answers) = Count(i) /\ b.answers[Count(i)] = answer
              /\ \A k \in 1 .. Count(i - 1) : b.answers[k] = a.answers[k]
          BY <2>3, <2>6, <4>1, <5>1
        <5>3. ASSUME NEW j \in AskingTo(lines, i), Count(j) <= Len(b.answers)
              PROVE  b.answers[Count(j)].id = IdOf(lines[j])
          <6>1. CASE j = i
            BY <2>2, <5>2, <6>1 DEF line
          <6>2. CASE j # i
            <7>1. j \in AskingTo(lines, i - 1) /\ Count(j) \in 1 .. Count(i - 1)
              BY <2>3, <2>4, <4>1, <6>2
            <7>2. a.answers[Count(j)].id = IdOf(lines[j])
              BY <2>1, <2>3, <4>1, <7>1 DEF a
            <7> QED BY <5>2, <7>1, <7>2
          <6> QED BY <6>1, <6>2
        <5>4. Len(b.answers) = Count(i) /\ Count(i) <= writable
          BY <2>3, <4>1, <4>3, <5>2
        <5> QED BY <2>2, <4>1, <5>1, <5>3, <5>4 DEF b
      <4> QED BY <4>2, <4>3
    <3> QED BY <3>1, <3>2, <3>3
  <2> QED BY <2>1, <2>8
<1> HIDE DEF Same
<1>10. 0 .. n \subseteq Same
  BY <1>1, <1>8, <1>9, StepsReach
<1>11. Good(n) /\ AskingTo(lines, n) = Asking(lines)
  <2>1. n \in 0 .. n
    BY <1>1
  <2> QED BY <1>10, <2>1, AskingIs DEF Same, n
<1>12. ServeStdio(lines, writable) = acc[n]
  BY DEF ServeStdio, acc, start, n
<1>13. DOMAIN lines = 1 .. n /\ \A i : AskingTo(lines, i) = {k \in Asking(lines) : k <= i}
  BY DEF AskingTo, n
<1> QED BY <1>11, <1>12, <1>13

(* Any lines with any ids, methods and tools, however many answers can be     *)
(* written.                                                                  *)
McpCalls(Id, Method, Tool) == [kind : {"mcp"}, lines : Seq(McpLines(Id, Method, Tool)), writable : Nat]

(* AnswersMatchRequests for lines of any number: no answer of the MCP server *)
(* belongs to another request, none is lost and none comes twice             *)
(* (server/mcp.rs, serve_stdio).                                             *)
THEOREM CallersAreAnswered ==
  ASSUME NEW Id, NEW Method, NEW Tool, input \in McpCalls(Id, Method, Tool)
  PROVE  AnswersMatchRequests
<1> DEFINE lines == input.lines
           writable == input.writable
           served == ServeStdio(lines, writable)
           Turn(i) == Cardinality({k \in Asking(lines) : k <= i})
           all == Cardinality(Asking(lines))
<1>1. lines \in Seq(McpLines(Id, Method, Tool)) /\ writable \in Nat /\ input.kind = "mcp"
  BY DEF McpCalls
<1>2. /\ Len(served.answers) = IF all <= writable THEN all ELSE writable
      /\ \A i \in Asking(lines) :
           Turn(i) <= Len(served.answers) => served.answers[Turn(i)].id = IdOf(lines[i])
      /\ served.serving <=> (\A i \in DOMAIN lines : lines[i].kind # "unreadable") /\ all <= writable
  <2> HIDE DEF lines, writable
  <2> QED BY <1>1, ServeIs
<1>3. Min({all, writable}) = IF all <= writable THEN all ELSE writable
  <2>1. Len(lines) \in Nat /\ DOMAIN lines = 1 .. Len(lines)
    BY <1>1
  <2> HIDE DEF lines
  <2>2. IsFiniteSet(1 .. Len(lines)) /\ Asking(lines) \subseteq 1 .. Len(lines)
    BY <2>1, FS_Interval DEF Asking
  <2>3. all \in Nat
    BY <2>2, FS_Subset, FS_CardinalityType
  <2> HIDE DEF all
  <2> QED BY <1>1, <2>3, MinIs
<1>4. /\ Len(served.answers) = Min({all, writable})
      /\ \A i \in Asking(lines) : Turn(i) <= Len(served.answers) =>
           served.answers[Turn(i)].id = IF lines[i].kind = "request" THEN lines[i].id ELSE NoId
      /\ served.serving <=> (\A i \in DOMAIN lines : lines[i].kind # "unreadable") /\ all <= writable
  <2> HIDE DEF all, served, Turn, lines, writable
  <2> QED BY <1>2, <1>3 DEF IdOf
<1> QED BY <1>4 DEF AnswersMatchRequests

--------------------------------------------------------------------------------
(* Clients and tokens.                                                     *)

(* The n-th of a set of places is the one up to which there are n.           *)
LEMMA NthIs ==
  ASSUME NEW n \in Nat, NEW P \in SUBSET (1 .. n)
  PROVE  /\ \A c \in 1 .. Cardinality(P) : NthPlace(P, c) \in P
         /\ \A k \in P : NthPlace(P, Cardinality(UpTo(P, k))) = k
<1> DEFINE Count(i) == Cardinality(UpTo(P, i))
<1>1. \A i \in 0 .. n : Count(i) \in Nat
  BY UpToIs
<1>2. \A i \in 1 .. n : Count(i) = Count(i - 1) + (IF i \in P THEN 1 ELSE 0)
  BY UpToNext
<1>3. \A i \in 0 .. n : \A k \in 0 .. i : Count(k) <= Count(i)
  BY UpToIs
<1>4. Count(0) = 0 /\ Count(n) = Cardinality(P)
  <2>1. 0 \in 0 .. n /\ n \in 0 .. n
    OBVIOUS
  <2>2. UpTo(P, 0) = {} /\ UpTo(P, n) = P
    BY <2>1, UpToIs
  <2> QED BY <2>2, FS_EmptySet
<1> HIDE DEF Count
<1>5. ASSUME NEW c \in 1 .. Cardinality(P) PROVE \E k \in P : Count(k) = c
  <2> DEFINE T == {i \in 0 .. n : Count(i) >= c}
  <2>1. n \in T /\ T \subseteq Nat
    BY <1>1, <1>4
  <2>2. PICK i \in T : \A k \in T : i <= k
    BY <2>1, LeastNatural
  <2>3. i \in 1 .. n /\ i - 1 \in 0 .. n /\ i - 1 \notin T
    BY <1>4, <2>2
  <2>4. Count(i - 1) < c
    BY <1>1, <2>3
  <2> QED BY <1>1, <1>2, <2>2, <2>3, <2>4
<1>6. ASSUME NEW j \in P, NEW k \in P, Count(j) = Count(k) PROVE j = k
  <2> SUFFICES ASSUME NEW a \in P, NEW b \in P, a < b, Count(a) = Count(b) PROVE FALSE
    BY <1>6
  <2>1. b \in 1 .. n /\ b - 1 \in 0 .. n /\ a \in 0 .. b - 1
    OBVIOUS
  <2>2. Count(b) = Count(b - 1) + 1 /\ Count(a) <= Count(b - 1)
    BY <1>2, <1>3, <2>1
  <2> QED BY <1>1, <2>1, <2>2
<1>7. \A c : NthPlace(P, c) = CHOOSE k \in P : Count(k) = c
  BY DEF NthPlace, Count, UpTo
<1>8. \A k \in P : NthPlace(P, Count(k)) = k
  BY <1>6, <1>7
<1> QED BY <1>5, <1>7, <1>8 DEF Count

(* The limits, the requests and the limiters of any clients.                *)
RateConfigs ==
  [enabled : BOOLEAN, read_rpm : Nat, write_rpm : Nat, reflect_rpm : Nat, auth_rpm : Nat, purge_rph : Nat]

RateRequests(Client) == [client : Client, category : Categories, at : Nat]

RateStates(Client) ==
  [limiters : UNION {[D -> Nat] : D \in SUBSET (Client \X Categories)}, answers : Seq(BOOLEAN)]

(* Two states that do not tell one limiter from the other.                    *)
SameLimiter(a, b, key) ==
  /\ key \in DOMAIN a.limiters <=> key \in DOMAIN b.limiters
  /\ key \in DOMAIN a.limiters => a.limiters[key] = b.limiters[key]

(* A check changes the limiter of its request only, by what that one was.    *)
LEMMA CheckIs ==
  ASSUME NEW Client, NEW config \in RateConfigs, NEW a \in RateStates(Client), NEW c \in RateStates(Client),
         NEW r \in RateRequests(Client)
  PROVE  LET b == CheckRate(config, a, r)
             d == CheckRate(config, c, r)
         IN  /\ b \in RateStates(Client)
             /\ \E ok \in BOOLEAN : b.answers = Append(a.answers, ok)
             /\ \A key : key # LimiterKey(r) => SameLimiter(a, b, key)
             /\ SameLimiter(a, c, LimiterKey(r)) =>
                  /\ SameLimiter(b, d, LimiterKey(r))
                  /\ b.answers[Len(a.answers) + 1] = d.answers[Len(c.answers) + 1]
<1> DEFINE key == LimiterKey(r)
           rpm == RpmForCategory(config, r.category)
           Tat(s) == IF key \in DOMAIN s.limiters THEN s.limiters[key] ELSE r.at
           Lets(s) == Admits(Tat(s), rpm, r.at)
           Later(s) == IF Lets(s) THEN Charge(Tat(s), r.at) ELSE Tat(s)
           free == ~ config.enabled \/ rpm = 0
           Limits(s) == [k \in DOMAIN s.limiters \cup {key} |-> IF k # key THEN s.limiters[k] ELSE Later(s)]
<1>1. ASSUME NEW s \in RateStates(Client)
      PROVE  /\ free => CheckRate(config, s, r) = [limiters |-> s.limiters, answers |-> Append(s.answers, TRUE)]
             /\ ~ free => CheckRate(config, s, r) = [limiters |-> Limits(s), answers |-> Append(s.answers, Lets(s))]
  BY DEF CheckRate, RateStates, NewLimiter
<1>2. ASSUME NEW s \in RateStates(Client)
      PROVE  /\ Lets(s) \in BOOLEAN /\ Later(s) \in Nat /\ s.answers \in Seq(BOOLEAN)
             /\ Limits(s) \in UNION {[D -> Nat] : D \in SUBSET (Client \X Categories)}
  <2>1. key \in Client \X Categories /\ r.at \in Nat
    BY DEF LimiterKey, RateRequests
  <2>2. PICK D \in SUBSET (Client \X Categories) : s.limiters \in [D -> Nat]
    BY DEF RateStates
  <2>3. Tat(s) \in Nat
    BY <2>1, <2>2
  <2>4. Later(s) \in Nat /\ Lets(s) \in BOOLEAN
    <3> HIDE DEF Tat
    <3> QED BY <2>1, <2>3, MaxIs DEF Charge, Admits
  <2>5. Limits(s) \in [D \cup {key} -> Nat]
    <3> HIDE DEF Later, key
    <3> QED BY <2>2, <2>4
  <2>6. D \cup {key} \in SUBSET (Client \X Categories)
    BY <2>1, <2>2
  <2> HIDE DEF Limits, key
  <2> QED BY <2>4, <2>5, <2>6 DEF RateStates
<1>3. ASSUME SameLimiter(a, c, key)
      PROVE  Lets(a) = Lets(c) /\ Later(a) = Later(c)
  BY <1>3 DEF SameLimiter
<1>4. ASSUME NEW s \in RateStates(Client)
      PROVE  /\ DOMAIN Limits(s) = DOMAIN s.limiters \cup {key}
             /\ Limits(s)[key] = Later(s)
             /\ \A k \in DOMAIN s.limiters : k # key => Limits(s)[k] = s.limiters[k]
  OBVIOUS
<1> HIDE DEF key, rpm, free, Lets, Later, Limits
<1>5. ASSUME NEW s \in RateStates(Client)
      PROVE  /\ CheckRate(config, s, r) \in RateStates(Client)
             /\ CheckRate(config, s, r).limiters = (IF free THEN s.limiters ELSE Limits(s))
             /\ CheckRate(config, s, r).answers = Append(s.answers, IF free THEN TRUE ELSE Lets(s))
             /\ (IF free THEN TRUE ELSE Lets(s)) \in BOOLEAN
  <2>1. Append(s.answers, TRUE) \in Seq(BOOLEAN) /\ Append(s.answers, Lets(s)) \in Seq(BOOLEAN)
    BY <1>2
  <2>2. s.limiters \in UNION {[D -> Nat] : D \in SUBSET (Client \X Categories)}
    BY DEF RateStates
  <2>3. CASE free
    <3>1. CheckRate(config, s, r) = [limiters |-> s.limiters, answers |-> Append(s.answers, TRUE)]
      BY <1>1, <2>3
    <3>2. CheckRate(config, s, r).limiters = s.limiters /\ CheckRate(config, s, r).answers = Append(s.answers, TRUE)
      <4>1. \A x, y : [limiters |-> x, answers |-> y].limiters = x /\ [limiters |-> x, answers |-> y].answers = y
        OBVIOUS
      <4> QED BY <3>1, <4>1
    <3>3. CheckRate(config, s, r) \in RateStates(Client)
      BY <2>1, <2>2, <3>1 DEF RateStates
    <3> QED BY <2>3, <3>2, <3>3
  <2>4. CASE ~ free
    <3>1. CheckRate(config, s, r) = [limiters |-> Limits(s), answers |-> Append(s.answers, Lets(s))]
      BY <1>1, <2>4
    <3> QED BY <1>2, <2>1, <2>4, <3>1 DEF RateStates
  <2> QED BY <2>3, <2>4
<1>6. \A k : k # key => SameLimiter(a, CheckRate(config, a, r), k)
  BY <1>4, <1>5 DEF SameLimiter
<1>7. ASSUME SameLimiter(a, c, key)
      PROVE  /\ SameLimiter(CheckRate(config, a, r), CheckRate(config, c, r), key)
             /\ CheckRate(config, a, r).answers[Len(a.answers) + 1] = CheckRate(config, c, r).answers[Len(c.answers) + 1]
  <2>1. Lets(a) = Lets(c) /\ Later(a) = Later(c)
    BY <1>3, <1>7
  <2>2. SameLimiter(CheckRate(config, a, r), CheckRate(config, c, r), key)
    <3>1. CASE free
      BY <1>5, <1>7, <3>1 DEF SameLimiter
    <3>2. CASE ~ free
      <4>1. key \in DOMAIN Limits(a) /\ key \in DOMAIN Limits(c) /\ Limits(a)[key] = Limits(c)[key]
        BY <1>4, <2>1
      <4> QED BY <1>5, <3>2, <4>1 DEF SameLimiter
    <3> QED BY <3>1, <3>2
  <2>3. a.answers \in Seq(BOOLEAN) /\ c.answers \in Seq(BOOLEAN)
    BY DEF RateStates
  <2>4. ASSUME NEW s \in Seq(BOOLEAN), NEW ok \in BOOLEAN PROVE Append(s, ok)[Len(s) + 1] = ok
    OBVIOUS
  <2> DEFINE Verdict(s) == IF free THEN TRUE ELSE Lets(s)
  <2>5. Verdict(a) \in BOOLEAN /\ Verdict(c) \in BOOLEAN /\ Verdict(a) = Verdict(c)
    BY <1>5, <2>1
  <2>6. /\ CheckRate(config, a, r).answers = Append(a.answers, Verdict(a))
        /\ CheckRate(config, c, r).answers = Append(c.answers, Verdict(c))
    BY <1>5
  <2> HIDE DEF Verdict
  <2>7. CheckRate(config, a, r).answers[Len(a.answers) + 1] = Verdict(a)
    BY <2>3, <2>4, <2>5, <2>6
  <2>8. CheckRate(config, c, r).answers[Len(c.answers) + 1] = Verdict(c)
    BY <2>3, <2>4, <2>5, <2>6
  <2> QED BY <2>2, <2>5, <2>7, <2>8
<1> QED BY <1>5, <1>6, <1>7 DEF key

(* The states of the limiters while the requests are checked in turn.        *)
RateRun(run, Client, config, requests) ==
  /\ run[0] = [limiters |-> <<>>, answers |-> <<>>]
  /\ \A i \in 0 .. Len(requests) : run[i] \in RateStates(Client) /\ Len(run[i].answers) = i
  /\ \A i \in 1 .. Len(requests) :
       /\ run[i] = CheckRate(config, run[i - 1], requests[i])
       /\ Answers(config, requests)[i] = run[i].answers[i]
  /\ Len(Answers(config, requests)) = Len(requests)

(* There is one, as each check leads from such a state to another.            *)
LEMMA RateRunExists ==
  ASSUME NEW Client, NEW config \in RateConfigs, NEW requests \in Seq(RateRequests(Client))
  PROVE  \E run : RateRun(run, Client, config, requests)
<1> DEFINE n == Len(requests)
           S == RateStates(Client)
           start == [limiters |-> <<>>, answers |-> <<>>]
           F(f) == [i \in 0 .. n |-> IF i = 0 THEN start ELSE CheckRate(config, f[i - 1], requests[i])]
           acc == CHOOSE f : f = F(f)
           turn == [p \in (1 .. n) \X S |-> CheckRate(config, p[2], requests[p[1]])]
<1>1. n \in Nat /\ \A i \in 1 .. n : requests[i] \in RateRequests(Client)
  OBVIOUS
<1>2. ASSUME NEW a \in S, NEW i \in 1 .. n
      PROVE  /\ CheckRate(config, a, requests[i]) \in S
             /\ \E ok \in BOOLEAN : CheckRate(config, a, requests[i]).answers = Append(a.answers, ok)
  BY <1>1, CheckIs
<1>3. start \in S
  <2>1. <<>> \in [{} -> Nat] /\ {} \in SUBSET (Client \X Categories)
    OBVIOUS
  <2>2. <<>> \in UNION {[D -> Nat] : D \in SUBSET (Client \X Categories)} /\ <<>> \in Seq(BOOLEAN)
    <3> DEFINE D == {}
    <3>1. D \in SUBSET (Client \X Categories) /\ <<>> \in [D -> Nat]
      BY <2>1
    <3> HIDE DEF D
    <3> QED BY <3>1
  <2> QED BY <2>2 DEF RateStates
<1> HIDE DEF S, start, n
<1>4. turn \in Turns(n, S)
  BY <1>2 DEF Turns
<1>5. \E f : f = F(f)
  <2> HIDE DEF turn
  <2>1. PICK f : IsRun(f, n, S, start, turn)
    BY <1>1, <1>3, <1>4, RunExists
  <2>2. \A i \in 1 .. n : i - 1 \in 0 .. n /\ f[i - 1] \in S
    BY <1>1, <2>1 DEF IsRun
  <2>3. \A i \in 1 .. n : turn[<<i, f[i - 1]>>] = CheckRate(config, f[i - 1], requests[i])
    BY <2>2 DEF turn
  <2>4. \A i \in 0 .. n : i = 0 \/ i \in 1 .. n
    OBVIOUS
  <2>5. f = F(f)
    BY <2>1, <2>3, <2>4 DEF IsRun
  <2> QED BY <2>5
<1>6. acc = F(acc)
  BY <1>5
<1>7. Answers(config, requests) = acc[n].answers
  BY DEF Answers, acc, start, n
<1> HIDE DEF acc, turn
<1>8. acc[0] = start /\ \A i \in 1 .. n : acc[i] = CheckRate(config, acc[i - 1], requests[i])
  BY <1>1, <1>6
<1> DEFINE Good(i) == /\ acc[i] \in S /\ Len(acc[i].answers) = i
                      /\ \A j \in 1 .. i : acc[i].answers[j] = acc[j].answers[j]
           Same == {i \in 0 .. n : Good(i)}
<1>9. 0 \in Same
  <2>1. acc[0].answers = <<>> /\ acc[0] \in S /\ 0 \in 0 .. n
    BY <1>1, <1>3, <1>8 DEF start
  <2> QED BY <2>1
<1>10. ASSUME NEW i \in 1 .. n, i - 1 \in Same
       PROVE  i \in Same
  <2>1. acc[i - 1] \in S /\ Len(acc[i - 1].answers) = i - 1 /\ i \in 0 .. n
    BY <1>10
  <2>2. acc[i] \in S /\ \E ok \in BOOLEAN : acc[i].answers = Append(acc[i - 1].answers, ok)
    BY <1>2, <1>8, <2>1
  <2>3. acc[i - 1].answers \in Seq(BOOLEAN)
    BY <2>1 DEF S, RateStates
  <2>4. Len(acc[i].answers) = i /\ \A j \in 1 .. i - 1 : acc[i].answers[j] = acc[i - 1].answers[j]
    BY <2>1, <2>2, <2>3
  <2>5. \A j \in 1 .. i : acc[i].answers[j] = acc[j].answers[j]
    <3>1. \A j \in 1 .. i - 1 : acc[i - 1].answers[j] = acc[j].answers[j]
      BY <1>10
    <3>2. \A j \in 1 .. i : j = i \/ j \in 1 .. i - 1
      OBVIOUS
    <3> QED BY <2>4, <3>1, <3>2
  <2> QED BY <2>1, <2>2, <2>4, <2>5
<1> HIDE DEF Same
<1>11. 0 .. n \subseteq Same
  BY <1>1, <1>9, <1>10, StepsReach
<1>12. \A i \in 0 .. n : Good(i)
  BY <1>11 DEF Same
<1>13. n \in 0 .. n
  BY <1>1
<1>14. RateRun(acc, Client, config, requests)
  <2>1. \A i \in 0 .. n : acc[i] \in RateStates(Client) /\ Len(acc[i].answers) = i
    BY <1>12 DEF S
  <2>2. \A i \in 1 .. n : Answers(config, requests)[i] = acc[i].answers[i]
    BY <1>7, <1>12, <1>13
  <2>3. Len(Answers(config, requests)) = n
    BY <1>7, <1>12, <1>13
  <2> QED BY <1>8, <2>1, <2>2, <2>3 DEF RateRun, n, start
<1> QED BY <1>14

(* By induction on the requests in front of the i-th: its limiter is the one  *)
(* of the run that sees the requests of its client and category only.        *)
LEMMA OwnAnswerIs ==
  ASSUME NEW Client, NEW config \in RateConfigs, NEW requests \in Seq(RateRequests(Client)),
         NEW i \in DOMAIN requests
  PROVE  Answers(config, requests)[i] = OwnAnswer(config, requests, i)
<1> DEFINE places == OwnPlaces(requests, i)
           Count(j) == Cardinality(UpTo(places, j))
           own == [c \in 1 .. Cardinality(places) |-> requests[NthPlace(places, c)]]
           key == LimiterKey(requests[i])
<1>1. i \in Nat /\ i \in 1 .. Len(requests) /\ Len(requests) \in Nat
  OBVIOUS
<1>2. places \in SUBSET (1 .. i) /\ i \in places
  BY <1>1 DEF OwnPlaces
<1>3. /\ \A j \in 1 .. i : requests[j] \in RateRequests(Client)
      /\ \A j \in 1 .. i : j \in places <=> LimiterKey(requests[j]) = key
  BY <1>1 DEF OwnPlaces, LimiterKey
<1> HIDE DEF places, key
<1>4. Count(i) = Cardinality(places) /\ Count(0) = 0 /\ \A j \in 0 .. i : Count(j) \in 0 .. Cardinality(places)
  <2>1. i \in 0 .. i
    BY <1>1
  <2>2. UpTo(places, 0) = {} /\ UpTo(places, i) = places
    BY <1>1, <1>2, <2>1, UpToIs
  <2>3. \A j \in 0 .. i : Count(j) \in Nat
    BY <1>1, <1>2, UpToIs
  <2>4. \A j \in 0 .. i : Count(j) <= Count(i)
    BY <1>1, <1>2, <2>1, UpToIs
  <2>5. Count(i) = Cardinality(places) /\ Count(0) = 0
    BY <2>2, FS_EmptySet
  <2> HIDE DEF Count
  <2> QED BY <2>1, <2>3, <2>4, <2>5
<1>5. \A j \in 1 .. i : Count(j) = Count(j - 1) + (IF j \in places THEN 1 ELSE 0)
  BY <1>1, <1>2, UpToNext
<1>6. /\ \A c \in 1 .. Cardinality(places) : NthPlace(places, c) \in places
      /\ \A j \in places : NthPlace(places, Count(j)) = j
  BY <1>1, <1>2, NthIs
<1>7. /\ own \in Seq(RateRequests(Client)) /\ Len(own) = Cardinality(places)
      /\ \A j \in places : Count(j) \in 1 .. Len(own) => own[Count(j)] = requests[j]
  <2>1. Cardinality(places) \in Nat
    BY <1>1, <1>4
  <2>2. \A c \in 1 .. Cardinality(places) : own[c] \in RateRequests(Client)
    BY <1>2, <1>3, <1>6
  <2>3. own \in Seq(RateRequests(Client)) /\ Len(own) = Cardinality(places)
    BY <2>1, <2>2
  <2> QED BY <1>6, <2>3
<1> HIDE DEF Count, own
<1>8. PICK f : RateRun(f, Client, config, requests)
  BY RateRunExists
<1>9. PICK g : RateRun(g, Client, config, own)
  BY <1>7, RateRunExists
<1> DEFINE Good(j) == /\ SameLimiter(f[j], g[Count(j)], key)
                      /\ j \in places => f[j].answers[j] = g[Count(j)].answers[Count(j)]
           Same == {j \in 0 .. i : Good(j)}
<1>10. 0 \in Same
  <2>1. f[0] = g[0] /\ 0 \notin places
    BY <1>2, <1>8, <1>9 DEF RateRun
  <2> QED BY <1>1, <1>4, <2>1 DEF SameLimiter
<1>11. ASSUME NEW j \in 1 .. i, j - 1 \in Same
       PROVE  j \in Same
  <2> DEFINE c == Count(j)
             d == Count(j - 1)
             r == requests[j]
  <2>1. /\ j - 1 \in 0 .. i /\ j \in 0 .. i /\ j \in 1 .. Len(requests) /\ j - 1 \in 0 .. Len(requests)
        /\ SameLimiter(f[j - 1], g[d], key)
    BY <1>1, <1>11
  <2>2. /\ f[j - 1] \in RateStates(Client) /\ f[j] \in RateStates(Client) /\ r \in RateRequests(Client)
        /\ Len(f[j - 1].answers) = j - 1
        /\ f[j] = CheckRate(config, f[j - 1], r)
    BY <1>3, <1>8, <2>1 DEF RateRun
  <2>3. c \in 0 .. Len(own) /\ d \in 0 .. Len(own) /\ c = d + (IF j \in places THEN 1 ELSE 0)
    BY <1>4, <1>5, <1>7, <2>1
  <2>4. g[d] \in RateStates(Client) /\ Len(g[d].answers) = d
    BY <1>9, <2>3 DEF RateRun
  <2>5. CASE j \notin places
    <3>1. key # LimiterKey(r) /\ c = d
      BY <1>3, <2>3, <2>5
    <3>2. SameLimiter(f[j - 1], f[j], key)
      BY <2>2, <3>1, CheckIs
    <3>3. SameLimiter(f[j], g[c], key)
      BY <2>1, <3>1, <3>2 DEF SameLimiter
    <3> QED BY <2>1, <2>5, <3>3
  <2>6. CASE j \in places
    <3>1. key = LimiterKey(r) /\ c = d + 1 /\ c \in 1 .. Len(own) /\ own[c] = r
      BY <1>3, <1>7, <2>3, <2>6
    <3>2. g[c] = CheckRate(config, g[d], r)
      BY <1>9, <2>3, <3>1 DEF RateRun
    <3>3. SameLimiter(f[j], g[c], key) /\ f[j].answers[Len(f[j - 1].answers) + 1] = g[c].answers[Len(g[d].answers) + 1]
      <4> DEFINE a == f[j - 1]
                 s == g[d]
      <4>1. a \in RateStates(Client) /\ s \in RateStates(Client) /\ SameLimiter(a, s, LimiterKey(r))
        BY <2>1, <2>2, <2>4, <3>1
      <4> HIDE DEF a, s, r
      <4>2. /\ SameLimiter(CheckRate(config, a, r), CheckRate(config, s, r), LimiterKey(r))
            /\ CheckRate(config, a, r).answers[Len(a.answers) + 1] = CheckRate(config, s, r).answers[Len(s.answers) + 1]
        BY <2>2, <4>1, CheckIs
      <4> QED BY <2>2, <3>1, <3>2, <4>2 DEF a, s
    <3>4. f[j].answers[j] = g[c].answers[c]
      BY <2>2, <2>4, <3>1, <3>3
    <3> QED BY <2>1, <3>3, <3>4
  <2> QED BY <2>5, <2>6
<1> HIDE DEF Same
<1>12. 0 .. i \subseteq Same
  BY <1>1, <1>10, <1>11, StepsReach
<1>13. f[i].answers[i] = g[Len(own)].answers[Len(own)]
  <2>1. i \in 0 .. i
    BY <1>1
  <2> QED BY <1>2, <1>4, <1>7, <1>12, <2>1 DEF Same
<1>14. Len(own) \in 1 .. Len(own)
  <2>1. Cardinality(places) # 0
    <3>1. i \in 1 .. i /\ i - 1 \in 0 .. i
      BY <1>1
    <3> QED BY <1>2, <1>4, <1>5, <3>1
  <2> QED BY <1>1, <1>4, <1>7, <2>1
<1>15. Answers(config, own)[Len(own)] = g[Len(own)].answers[Len(own)] /\ Len(Answers(config, own)) = Len(own)
  BY <1>9, <1>14 DEF RateRun
<1>16. Answers(config, requests)[i] = f[i].answers[i]
  BY <1>1, <1>8 DEF RateRun
<1>17. OwnAnswer(config, requests, i) = Last(Answers(config, own))
  BY DEF OwnAnswer, own, places
<1> QED BY <1>13, <1>15, <1>16, <1>17 DEF Last

(* The entries of a table of tokens.                                         *)
TokenEntries(Hash, Id, ScopeName) == [hash : Hash, id : Id, scope : ScopeName, expires : Nat \cup {Never}]

(* The token of an entry is good for a scope.                                *)
GoodFor(entry, required, now) ==
  /\ entry.expires = Never \/ now <= entry.expires
  /\ Satisfies(ParseScope(entry.scope), required)

(* A token is admitted by the last entry of its hash.                        *)
LEMMA AdmitIs ==
  ASSUME NEW Hash, NEW Id, NEW ScopeName, NEW entries \in Seq(TokenEntries(Hash, Id, ScopeName)),
         entries # <<>>, NEW hash, NEW required, NEW now \in Nat
  PROVE  LET own == {i \in DOMAIN entries : entries[i].hash = hash}
         IN  /\ own # {} => Max(own) \in DOMAIN entries
             /\ Admit(entries, hash, required, now) <=> own # {} /\ GoodFor(entries[Max(own)], required, now)
<1> DEFINE own == {i \in DOMAIN entries : entries[i].hash = hash}
           table == TokenTable(entries)
           v == Validate(table, hash, now)
<1>1. Len(entries) \in Nat /\ DOMAIN entries = 1 .. Len(entries) /\ own \in SUBSET (1 .. Len(entries)) /\ 1 \in DOMAIN entries
  OBVIOUS
<1>2. own # {} => Max(own) \in own
  <2> HIDE DEF own
  <2> QED BY <1>1, GreatestIs
<1>3. DOMAIN table = {entries[i].hash : i \in DOMAIN entries} /\ DOMAIN table # {}
  BY <1>1 DEF TokenTable
<1>4. CASE own = {}
  <2>1. hash \notin DOMAIN table
    BY <1>3, <1>4
  <2> HIDE DEF table
  <2>2. v = [ok |-> FALSE, why |-> "invalid"]
    BY <1>3, <2>1 DEF Validate
  <2>3. v.ok = FALSE
    BY <2>2
  <2> QED BY <1>4, <2>3 DEF Admit, table
<1>5. CASE own # {}
  <2> DEFINE last == Max(own)
             e == entries[last]
  <2>1. hash \in DOMAIN table
    BY <1>3, <1>5
  <2>2. SelectLastInSeq(entries, LAMBDA x : x.hash = hash) = last
    <3>1. own = {i \in 1 .. Len(entries) : entries[i].hash = hash}
      BY <1>1
    <3> QED BY <1>5, <3>1 DEF SelectLastInSeq
  <2>3. table[hash] = [id |-> e.id, scope |-> ParseScope(e.scope), expires |-> e.expires]
    BY <2>1, <2>2 DEF TokenTable
  <2>4. last \in DOMAIN entries /\ e \in TokenEntries(Hash, Id, ScopeName)
    BY <1>2, <1>5
  <2>5. e.expires \in Nat \cup {Never}
    BY <2>4 DEF TokenEntries
  <2> HIDE DEF table, e
  <2>6. CASE e.expires # Never /\ now > e.expires
    <3>1. v = [ok |-> FALSE, why |-> "expired"]
      BY <1>3, <2>1, <2>3, <2>6 DEF Validate
    <3>2. ~ (now <= e.expires)
      BY <2>5, <2>6
    <3> QED BY <1>5, <2>4, <2>6, <3>1, <3>2 DEF Admit, GoodFor, table, e
  <2>7. CASE ~ (e.expires # Never /\ now > e.expires)
    <3>1. v = [ok |-> TRUE, id |-> e.id, scope |-> ParseScope(e.scope)]
      BY <1>3, <2>1, <2>3, <2>7 DEF Validate
    <3>2. e.expires = Never \/ now <= e.expires
      BY <2>5, <2>7
    <3> QED BY <1>5, <2>4, <3>1, <3>2 DEF Admit, GoodFor, table, e
  <2> QED BY <2>6, <2>7
<1> QED BY <1>4, <1>5

(* So the others may as well not be there.                                   *)
LEMMA OwnTokenIs ==
  ASSUME NEW Hash, NEW Id, NEW ScopeName, NEW entries \in Seq(TokenEntries(Hash, Id, ScopeName)),
         entries # <<>>, NEW hash, NEW required, NEW now \in Nat
  PROVE  LET own == {i \in DOMAIN entries : entries[i].hash = hash}
         IN  Admit(entries, hash, required, now)
               <=> own # {} /\ Admit(<<entries[Max(own)]>>, hash, required, now)
<1> DEFINE own == {i \in DOMAIN entries : entries[i].hash = hash}
           e == entries[Max(own)]
           one == <<e>>
<1>1. /\ own # {} => Max(own) \in DOMAIN entries
      /\ Admit(entries, hash, required, now) <=> own # {} /\ GoodFor(e, required, now)
  BY AdmitIs
<1>2. CASE own # {}
  <2>1. Max(own) \in own
    <3>1. own \in SUBSET (1 .. Len(entries)) /\ Len(entries) \in Nat
      OBVIOUS
    <3> HIDE DEF own
    <3> QED BY <1>2, <3>1, GreatestIs
  <2>2. e \in TokenEntries(Hash, Id, ScopeName) /\ e.hash = hash
    BY <2>1
  <2> HIDE DEF e
  <2>3. one \in Seq(TokenEntries(Hash, Id, ScopeName)) /\ one # <<>> /\ DOMAIN one = {1} /\ one[1] = e
    BY <2>2
  <2> HIDE DEF one
  <2> DEFINE mine == {i \in DOMAIN one : one[i].hash = hash}
  <2>4. mine = {1}
    BY <2>2, <2>3
  <2>5. Max({1}) = 1
    <3>1. 1 \in {1} /\ \A y \in {1} : 1 >= y
      OBVIOUS
    <3> QED BY <3>1 DEF Max
  <2>6. Admit(one, hash, required, now) <=> GoodFor(e, required, now)
    <3>1. Admit(one, hash, required, now) <=> mine # {} /\ GoodFor(one[Max(mine)], required, now)
      BY <2>3, AdmitIs
    <3> QED BY <2>3, <2>4, <2>5, <3>1
  <2> QED BY <1>1, <1>2, <2>6 DEF one, e
<1>3. CASE own = {}
  BY <1>1, <1>3
<1> QED BY <1>2, <1>3

(* Any tables of tokens and any requests at any rates.                        *)
AccessCalls(Client, Hash, Id, ScopeName) ==
  [kind : {"rate"}, config : RateConfigs, requests : Seq(RateRequests(Client))]
    \cup [kind : {"token"}, entries : Seq(TokenEntries(Hash, Id, ScopeName)), hash : Hash, required : Scopes, now : Nat]

(* ClientsAreSeparate for any clients, limits, requests and entries: a client *)
(* is admitted as if the requests of the others had not been made, a token as *)
(* if the other entries were not there (security/rate_limiter.rs, auth.rs).  *)
THEOREM ClientsDoNotDisturb ==
  ASSUME NEW Client, NEW Hash, NEW Id, NEW ScopeName, input \in AccessCalls(Client, Hash, Id, ScopeName)
  PROVE  ClientsAreSeparate
<1>1. CASE input \in [kind : {"rate"}, config : RateConfigs, requests : Seq(RateRequests(Client))]
  <2>1. input.config \in RateConfigs /\ input.requests \in Seq(RateRequests(Client)) /\ input.kind = "rate"
    BY <1>1
  <2>2. \A i \in DOMAIN input.requests :
          Answers(input.config, input.requests)[i] = OwnAnswer(input.config, input.requests, i)
    BY <2>1, OwnAnswerIs
  <2>3. input.kind # "token"
    BY <2>1
  <2> QED BY <2>2, <2>3 DEF ClientsAreSeparate
<1>2. CASE input \in [kind : {"token"}, entries : Seq(TokenEntries(Hash, Id, ScopeName)), hash : Hash, required : Scopes,
                      now : Nat]
  <2>1. input.entries \in Seq(TokenEntries(Hash, Id, ScopeName)) /\ input.now \in Nat /\ input.kind = "token"
    BY <1>2
  <2> DEFINE own == {i \in DOMAIN input.entries : input.entries[i].hash = input.hash}
  <2>2. input.entries # <<>> =>
          (Admit(input.entries, input.hash, input.required, input.now)
             <=> own # {} /\ Admit(<<input.entries[Max(own)]>>, input.hash, input.required, input.now))
    <3> DEFINE entries == input.entries
               hash == input.hash
               required == input.required
               now == input.now
    <3>1. entries \in Seq(TokenEntries(Hash, Id, ScopeName)) /\ now \in Nat
      BY <2>1
    <3> HIDE DEF entries, hash, required, now
    <3>2. ASSUME entries # <<>>
          PROVE  LET mine == {i \in DOMAIN entries : entries[i].hash = hash}
                 IN  Admit(entries, hash, required, now)
                       <=> mine # {} /\ Admit(<<entries[Max(mine)]>>, hash, required, now)
      BY <3>1, <3>2, OwnTokenIs
    <3> QED BY Zenon, <3>2 DEF entries, hash, required, now
  <2>3. input.kind # "rate"
    BY <2>1
  <2> QED BY <2>2, <2>3 DEF ClientsAreSeparate
<1> QED BY <1>1, <1>2 DEF AccessCalls

--------------------------------------------------------------------------------
(* The context that is compiled.                                             *)

(* The partial sums of a sequence.                                           *)
SumRun(f, s) == f \in [0 .. Len(s) -> Nat] /\ f[0] = 0 /\ \A i \in 1 .. Len(s) : f[i] = f[i - 1] + s[i]

LEMMA SumRunIs ==
  ASSUME NEW s \in Seq(Nat)
  PROVE  \E f : SumRun(f, s) /\ Total(s) = f[Len(s)]
<1> DEFINE n == Len(s)
           F(f) == [i \in 0 .. n |-> IF i = 0 THEN 0 ELSE f[i - 1] + s[i]]
           sum == CHOOSE f : f = F(f)
           turn == [p \in (1 .. n) \X Nat |-> p[2] + s[p[1]]]
<1>1. n \in Nat /\ \A i \in 1 .. n : s[i] \in Nat
  OBVIOUS
<1>2. Total(s) = sum[n]
  BY DEF Total
<1> HIDE DEF n
<1>3. turn \in Turns(n, Nat)
  BY <1>1 DEF Turns
<1>4. \E f : f = F(f) /\ f \in [0 .. n -> Nat]
  <2> HIDE DEF turn
  <2>1. PICK f : IsRun(f, n, Nat, 0, turn)
    BY <1>1, <1>3, RunExists
  <2>2. \A i \in 1 .. n : i - 1 \in 0 .. n /\ f[i - 1] \in Nat
    BY <1>1, <2>1 DEF IsRun
  <2>3. \A i \in 1 .. n : turn[<<i, f[i - 1]>>] = f[i - 1] + s[i]
    BY <2>2 DEF turn
  <2>4. \A i \in 0 .. n : i = 0 \/ i \in 1 .. n
    OBVIOUS
  <2>5. f = F(f)
    BY <2>1, <2>3, <2>4 DEF IsRun
  <2> QED BY <2>1, <2>5 DEF IsRun
<1>5. sum = F(sum)
  BY <1>4
<1> HIDE DEF sum
<1>6. sum[0] = 0 /\ \A i \in 1 .. n : sum[i] = sum[i - 1] + s[i]
  BY <1>1, <1>5
<1> DEFINE Same == {i \in 0 .. n : sum[i] \in Nat}
<1>7. 0 \in Same
  BY <1>1, <1>6
<1>8. ASSUME NEW i \in 1 .. n, i - 1 \in Same PROVE i \in Same
  <2>1. s[i] \in Nat /\ sum[i - 1] \in Nat /\ sum[i] = sum[i - 1] + s[i]
    BY <1>1, <1>6, <1>8
  <2> QED BY <2>1
<1> HIDE DEF Same
<1>9. 0 .. n \subseteq Same
  BY <1>1, <1>7, <1>8, StepsReach
<1>10. sum \in [0 .. n -> Nat]
  <2>1. \A i \in 0 .. n : sum[i] \in Nat
    BY <1>9 DEF Same
  <2>2. sum = [i \in 0 .. n |-> sum[i]]
    BY <1>5
  <2> QED BY <2>1, <2>2
<1> QED BY <1>2, <1>6, <1>10 DEF SumRun, n

LEMMA TotalIs ==
  ASSUME NEW s \in Seq(Nat)
  PROVE  /\ Total(s) \in Nat
         /\ Len(s) = 0 => Total(s) = 0
         /\ \A t \in Seq(Nat) : Len(t) = Len(s) + 1 /\ (\A k \in 1 .. Len(s) : t[k] = s[k]) =>
              Total(t) = Total(s) + t[Len(t)]
<1> DEFINE n == Len(s)
<1>1. PICK f : SumRun(f, s) /\ Total(s) = f[n]
  BY SumRunIs
<1>2. n \in Nat /\ n \in 0 .. n
  OBVIOUS
<1>3. Total(s) \in Nat /\ (n = 0 => Total(s) = 0)
  BY <1>1, <1>2 DEF SumRun
<1>4. ASSUME NEW t \in Seq(Nat), Len(t) = n + 1, \A k \in 1 .. n : t[k] = s[k]
      PROVE  Total(t) = Total(s) + t[Len(t)]
  <2>1. PICK g : SumRun(g, t) /\ Total(t) = g[Len(t)]
    BY SumRunIs
  <2> HIDE DEF n
  <2> DEFINE Same == {i \in 0 .. n : f[i] = g[i]}
  <2>2. 0 \in Same
    BY <1>1, <1>2, <2>1 DEF SumRun
  <2>3. ASSUME NEW i \in 1 .. n, i - 1 \in Same PROVE i \in Same
    <3>1. i \in 1 .. Len(s) /\ i \in 1 .. Len(t) /\ i \in 0 .. n
      BY <1>2, <1>4 DEF n
    <3> QED BY <1>1, <1>4, <2>1, <2>3, <3>1 DEF SumRun
  <2> HIDE DEF Same
  <2>4. 0 .. n \subseteq Same
    BY <1>2, <2>2, <2>3, StepsReach
  <2>5. f[n] = g[n]
    BY <1>2, <2>4 DEF Same
  <2>6. g[n + 1] = g[n] + t[n + 1]
    <3>1. n + 1 \in 1 .. Len(t) /\ (n + 1) - 1 = n
      BY <1>2, <1>4
    <3> QED BY <2>1, <3>1 DEF SumRun
  <2> QED BY <1>1, <1>4, <2>1, <2>5, <2>6
<1> QED BY <1>3, <1>4

Texts(Hash) == [hash : Hash, len : Nat]
Offers(Hash) == [layer : {"L0", "L1", "L2", "L3"}, text : Texts(Hash)]

(* A text has at least one token and fewer than four bytes more than four per token. *)
LEMMA TokensAre ==
  ASSUME NEW len \in Nat
  PROVE  EstimateTokens(len) \in Nat /\ EstimateTokens(len) >= 1 /\ len <= 4 * EstimateTokens(len) + 3
<1> DEFINE q == len \div 4
<1>1. q \in Nat /\ len <= 4 * q + 3
  OBVIOUS
<1> HIDE DEF q
<1>2. EstimateTokens(len) = IF q >= 1 THEN q ELSE 1
  <2>1. EstimateTokens(len) = Max({q, 1})
    BY DEF EstimateTokens, q
  <2> QED BY <1>1, <2>1, MaxIs
<1> QED BY <1>1, <1>2

LEMMA TokensToIs ==
  ASSUME NEW Hash, NEW offers \in Seq(Offers(Hash)), NEW S
  PROVE  /\ TokensTo(offers, S, 0) = 0
         /\ \A i \in 0 .. Len(offers) : TokensTo(offers, S, i) \in Nat
         /\ \A i \in 1 .. Len(offers) :
              TokensTo(offers, S, i) =
                TokensTo(offers, S, i - 1) + (IF i \in S THEN EstimateTokens(offers[i].text.len) ELSE 0)
<1> DEFINE Cost(k) == IF k \in S THEN EstimateTokens(offers[k].text.len) ELSE 0
           Costs(i) == [k \in 1 .. i |-> Cost(k)]
<1>1. \A k \in 1 .. Len(offers) : Cost(k) \in Nat
  <2>1. \A k \in 1 .. Len(offers) : offers[k] \in Offers(Hash)
    OBVIOUS
  <2>2. \A o \in Offers(Hash) : o.text.len \in Nat
    BY DEF Offers, Texts
  <2> QED BY <2>1, <2>2, TokensAre
<1>2. \A i : TokensTo(offers, S, i) = Total(Costs(i))
  BY DEF TokensTo
<1>3. Len(offers) \in Nat
  OBVIOUS
<1> HIDE DEF Cost
<1>4. ASSUME NEW i \in 0 .. Len(offers)
      PROVE  Costs(i) \in Seq(Nat) /\ Len(Costs(i)) = i
  BY <1>1, <1>3
<1>5. ASSUME NEW i \in 1 .. Len(offers)
      PROVE  Total(Costs(i)) = Total(Costs(i - 1)) + Cost(i)
  <2>1. /\ i - 1 \in 0 .. Len(offers) /\ i \in 0 .. Len(offers) /\ Len(Costs(i)) = i /\ Len(Costs(i - 1)) = i - 1
        /\ Costs(i) \in Seq(Nat) /\ Costs(i - 1) \in Seq(Nat)
    BY <1>3, <1>4
  <2>2. \A k \in 1 .. i - 1 : Costs(i)[k] = Costs(i - 1)[k]
    OBVIOUS
  <2>3. Costs(i)[i] = Cost(i)
    OBVIOUS
  <2> DEFINE s == Costs(i - 1)
             t == Costs(i)
  <2>4. s \in Seq(Nat) /\ t \in Seq(Nat) /\ Len(t) = Len(s) + 1 /\ \A k \in 1 .. Len(s) : t[k] = s[k]
    <3> HIDE DEF Costs
    <3> QED BY <2>1, <2>2
  <2> HIDE DEF s, t
  <2>5. Total(t) = Total(s) + t[Len(t)]
    BY <2>4, TotalIs
  <2> HIDE DEF Costs
  <2> QED BY <2>1, <2>3, <2>5 DEF s, t
<1>6. 0 \in 0 .. Len(offers)
  BY <1>3
<1> HIDE DEF Costs
<1> QED BY <1>2, <1>4, <1>5, <1>6, TotalIs DEF Cost

LEMMA TokensGrow ==
  ASSUME NEW Hash, NEW offers \in Seq(Offers(Hash)), NEW S
  PROVE  /\ \A i \in 1 .. Len(offers) :
              i \in S => TokensTo(offers, S, i) = TokensTo(offers, S, i - 1) + EstimateTokens(offers[i].text.len)
         /\ \A i \in 1 .. Len(offers) : i \notin S => TokensTo(offers, S, i) = TokensTo(offers, S, i - 1)
<1>1. ASSUME NEW i \in 1 .. Len(offers)
      PROVE  /\ TokensTo(offers, S, i - 1) \in Nat
             /\ TokensTo(offers, S, i) =
                  TokensTo(offers, S, i - 1) + (IF i \in S THEN EstimateTokens(offers[i].text.len) ELSE 0)
  <2>1. i - 1 \in 0 .. Len(offers)
    OBVIOUS
  <2> DEFINE T(k) == TokensTo(offers, S, k)
             C(k) == IF k \in S THEN EstimateTokens(offers[k].text.len) ELSE 0
  <2>2. /\ \A k \in 0 .. Len(offers) : T(k) \in Nat
        /\ \A k \in 1 .. Len(offers) : T(k) = T(k - 1) + C(k)
    BY TokensToIs
  <2> HIDE DEF T, C
  <2>3. T(i - 1) \in Nat /\ T(i) = T(i - 1) + C(i)
    BY <2>1, <2>2
  <2> QED BY <2>3 DEF T, C
<1> QED BY <1>1

(* Which offers are taken: whatever fits beside those in front of it.         *)
Fits(budget, known, offers, S) ==
  \A i \in 1 .. Len(offers) :
     i \in S <=> /\ ~ Unwanted(known, offers[i])
                /\ TokensTo(offers, S, i - 1) + EstimateTokens(offers[i].text.len) <= budget

(* There is only one such set, as each place depends on those in front of it. *)
LEMMA FirstFitIs ==
  ASSUME NEW offers, Len(offers) \in Nat, NEW budget, NEW known,
         NEW S \in SUBSET (1 .. Len(offers)), Fits(budget, known, offers, S)
  PROVE  FirstFit(budget, known, offers) = S
<1> DEFINE n == Len(offers)
<1>1. ASSUME NEW R \in SUBSET (1 .. n), Fits(budget, known, offers, R)
      PROVE  R = S
  <2> DEFINE Same == {i \in 0 .. n : \A k \in 1 .. i : k \in R <=> k \in S}
  <2>1. 0 \in Same
    OBVIOUS
  <2>2. ASSUME NEW i \in 1 .. n, i - 1 \in Same PROVE i \in Same
    <3>1. \A k \in 1 .. i - 1 : k \in R <=> k \in S
      BY <2>2
    <3>2. TokensTo(offers, R, i - 1) = TokensTo(offers, S, i - 1)
      <4>1. [k \in 1 .. i - 1 |-> IF k \in R THEN EstimateTokens(offers[k].text.len) ELSE 0]
              = [k \in 1 .. i - 1 |-> IF k \in S THEN EstimateTokens(offers[k].text.len) ELSE 0]
        BY <3>1
      <4> QED BY <4>1 DEF TokensTo
    <3>3. i \in R <=> i \in S
      BY <1>1, <3>2 DEF Fits
    <3>4. \A k \in 1 .. i : k = i \/ k \in 1 .. i - 1
      OBVIOUS
    <3>5. i \in 0 .. n
      OBVIOUS
    <3> QED BY <3>1, <3>3, <3>4, <3>5
  <2> HIDE DEF Same
  <2>3. 0 .. n \subseteq Same
    BY <2>1, <2>2, StepsReach
  <2>4. \A k \in 1 .. n : k \in R <=> k \in S
    BY <2>3 DEF Same
  <2> QED BY <2>4
<1>2. FirstFit(budget, known, offers) = CHOOSE R \in SUBSET (1 .. n) : Fits(budget, known, offers, R)
  BY DEF FirstFit, Fits
<1> QED BY <1>1, <1>2

CompilerStates(Hash) == [taken : Seq(Offers(Hash)), remaining : Nat, l2_count : Nat, l3_count : Nat]

(* One turn of compile: an offer that is wanted and fits is taken.            *)
CompileTurn(acc, known, offer) ==
  IF offer.layer \in {"L0", "L1"} THEN PutFixed(acc, offer) ELSE PutMemory(acc, known, offer)

LEMMA CompileTurnIs ==
  ASSUME NEW Hash, NEW a \in CompilerStates(Hash), NEW known, NEW o \in Offers(Hash)
  PROVE  /\ CompileTurn(a, known, o) =
              IF ~ Unwanted(known, o) /\ EstimateTokens(o.text.len) <= a.remaining THEN Put(a, o) ELSE a
         /\ CompileTurn(a, known, o) \in CompilerStates(Hash)
<1> DEFINE tokens == EstimateTokens(o.text.len)
           b == CompileTurn(a, known, o)
<1>1. o.text.len \in Nat /\ o.layer \in {"L0", "L1", "L2", "L3"} /\ a.remaining \in Nat
  BY DEF Offers, Texts, CompilerStates
<1>2. tokens \in Nat /\ tokens >= 1
  BY <1>1, TokensAre
<1> HIDE DEF tokens
<1>3. b = IF ~ Unwanted(known, o) /\ tokens <= a.remaining THEN Put(a, o) ELSE a
  <2>1. CASE o.layer \in {"L0", "L1"}
    <3>1. Unwanted(known, o) <=> o.layer = "L1" /\ ~ (o.text.len > 0)
      BY <1>1, <2>1 DEF Unwanted
    <3> QED BY <2>1, <3>1 DEF CompileTurn, PutFixed, tokens
  <2>2. CASE o.layer \in {"L2", "L3"}
    <3>1. Unwanted(known, o) <=> IsDuplicate(known, o.text)
      BY <2>2 DEF Unwanted
    <3>2. b = PutMemory(a, known, o)
      BY <2>2 DEF CompileTurn
    <3>3. b = IF a.remaining = 0 \/ IsDuplicate(known, o.text) \/ tokens > a.remaining THEN a ELSE Put(a, o)
      BY <3>2 DEF PutMemory, tokens
    <3> HIDE DEF b
    <3> QED BY <1>1, <1>2, <3>1, <3>3
  <2> QED BY <1>1, <2>1, <2>2
<1>4. tokens <= a.remaining => Put(a, o) \in CompilerStates(Hash)
  <2>1. a.taken \in Seq(Offers(Hash)) /\ a.l2_count \in Nat /\ a.l3_count \in Nat
    BY DEF CompilerStates
  <2>2. Append(a.taken, o) \in Seq(Offers(Hash))
    BY <2>1
  <2>3. ASSUME tokens <= a.remaining PROVE a.remaining - tokens \in Nat
    BY <1>1, <1>2, <2>3
  <2>4. a.l2_count + (IF o.layer = "L2" THEN 1 ELSE 0) \in Nat /\ a.l3_count + (IF o.layer = "L3" THEN 1 ELSE 0) \in Nat
    BY <2>1
  <2> QED BY <2>2, <2>3, <2>4 DEF CompilerStates, Put, tokens
<1> HIDE DEF b
<1>5. b \in CompilerStates(Hash)
  BY <1>3, <1>4
<1> QED BY <1>3, <1>5 DEF tokens, b

AllTokens(taken) == TokensTo(taken, 1 .. Len(taken), Len(taken))
InLayer(taken, layer) == {k \in DOMAIN taken : taken[k].layer = layer}

(* What one more offer adds to the sums and counts.                           *)
LEMMA AppendAdds ==
  ASSUME NEW Hash, NEW taken \in Seq(Offers(Hash)), NEW o \in Offers(Hash)
  PROVE  LET more == Append(taken, o)
         IN  /\ AllTokens(taken) \in Nat /\ PrintedBytes(taken) \in Nat
             /\ AllTokens(more) = AllTokens(taken) + EstimateTokens(o.text.len)
             /\ PrintedBytes(more) = PrintedBytes(taken) + o.text.len
             /\ \A layer : Cardinality(InLayer(more, layer)) =
                             Cardinality(InLayer(taken, layer)) + (IF o.layer = layer THEN 1 ELSE 0)
<1> DEFINE more == Append(taken, o)
           n == Len(taken)
<1>1. /\ more \in Seq(Offers(Hash)) /\ n \in Nat /\ Len(more) = n + 1 /\ more[n + 1] = o
      /\ \A k \in 1 .. n : more[k] = taken[k]
      /\ DOMAIN taken = 1 .. n /\ DOMAIN more = 1 .. n + 1
  OBVIOUS
<1>2. \A x \in Offers(Hash) : x.text.len \in Nat /\ EstimateTokens(x.text.len) \in Nat
  <2>1. \A x \in Offers(Hash) : x.text.len \in Nat
    BY DEF Offers, Texts
  <2> QED BY <2>1, TokensAre
<1>3. \A k \in 1 .. n : taken[k] \in Offers(Hash)
  OBVIOUS
<1> HIDE DEF more, n
<1>4. AllTokens(taken) \in Nat /\ AllTokens(more) = AllTokens(taken) + EstimateTokens(o.text.len)
  <2> DEFINE s == [k \in 1 .. n |-> EstimateTokens(taken[k].text.len)]
             t == [k \in 1 .. n + 1 |-> EstimateTokens(more[k].text.len)]
  <2>1. AllTokens(taken) = Total(s)
    <3>1. s = [k \in 1 .. n |-> IF k \in 1 .. n THEN EstimateTokens(taken[k].text.len) ELSE 0]
      OBVIOUS
    <3> QED BY <3>1 DEF AllTokens, TokensTo, n
  <2>2. AllTokens(more) = Total(t)
    <3>1. t = [k \in 1 .. n + 1 |-> IF k \in 1 .. n + 1 THEN EstimateTokens(more[k].text.len) ELSE 0]
      OBVIOUS
    <3> QED BY <1>1, <3>1 DEF AllTokens, TokensTo
  <2>3. s \in Seq(Nat) /\ Len(s) = n
    BY <1>1, <1>2, <1>3
  <2>4. t \in Seq(Nat) /\ Len(t) = n + 1
    <3>1. \A k \in 1 .. n + 1 : more[k] \in Offers(Hash)
      BY <1>1
    <3> QED BY <1>1, <1>2, <3>1
  <2>5. t[n + 1] = EstimateTokens(o.text.len) /\ \A k \in 1 .. n : t[k] = s[k]
    BY <1>1
  <2> HIDE DEF s, t
  <2> QED BY <2>1, <2>2, <2>3, <2>4, <2>5, TotalIs
<1>5. PrintedBytes(taken) \in Nat /\ PrintedBytes(more) = PrintedBytes(taken) + o.text.len
  <2> DEFINE s == [k \in 1 .. n |-> taken[k].text.len]
             t == [k \in 1 .. n + 1 |-> more[k].text.len]
  <2>1. PrintedBytes(taken) = Total(s) /\ PrintedBytes(more) = Total(t)
    BY <1>1 DEF PrintedBytes, n
  <2>2. s \in Seq(Nat) /\ Len(s) = n
    BY <1>1, <1>2, <1>3
  <2>3. t \in Seq(Nat) /\ Len(t) = n + 1
    <3>1. \A k \in 1 .. n + 1 : more[k] \in Offers(Hash)
      BY <1>1
    <3> QED BY <1>1, <1>2, <3>1
  <2>4. t[n + 1] = o.text.len /\ \A k \in 1 .. n : t[k] = s[k]
    BY <1>1
  <2> HIDE DEF s, t
  <2> QED BY <2>1, <2>2, <2>3, <2>4, TotalIs
<1>6. ASSUME NEW layer
      PROVE  Cardinality(InLayer(more, layer)) =
               Cardinality(InLayer(taken, layer)) + (IF o.layer = layer THEN 1 ELSE 0)
  <2>1. InLayer(more, layer) = IF o.layer = layer THEN InLayer(taken, layer) \cup {n + 1} ELSE InLayer(taken, layer)
    <3>1. \A k \in 1 .. n + 1 : k = n + 1 \/ k \in 1 .. n
      BY <1>1
    <3>2. \A k \in 1 .. n : k \in 1 .. n + 1
      BY <1>1
    <3>3. n + 1 \in 1 .. n + 1
      BY <1>1
    <3> QED BY <1>1, <3>1, <3>2, <3>3 DEF InLayer
  <2>2. InLayer(taken, layer) \subseteq 1 .. n /\ n + 1 \notin InLayer(taken, layer)
    BY <1>1 DEF InLayer
  <2>3. IsFiniteSet(1 .. n)
    BY <1>1, FS_Interval
  <2>4. IsFiniteSet(InLayer(taken, layer)) /\ Cardinality(InLayer(taken, layer)) \in Nat
    BY <2>2, <2>3, FS_Subset, FS_CardinalityType
  <2>5. Cardinality(InLayer(taken, layer) \cup {n + 1}) = Cardinality(InLayer(taken, layer)) + 1
    BY <2>2, <2>4, FS_AddElement
  <2> QED BY <2>1, <2>4, <2>5
<1> QED BY <1>4, <1>5, <1>6 DEF more

(* What has been assembled after some of the offers.                          *)
CompileRun(run, Hash, budget, known, offers) ==
  /\ run[0] = Assembled(budget)
  /\ \A i \in 0 .. Len(offers) : run[i] \in CompilerStates(Hash)
  /\ \A i \in 1 .. Len(offers) : run[i] = CompileTurn(run[i - 1], known, offers[i])

IsOutcome(c, all, budget) ==
  /\ c.taken = all.taken /\ c.tokens_used = budget - all.remaining
  /\ c.l2_count = all.l2_count /\ c.l3_count = all.l3_count

LEMMA CompileRunExists ==
  ASSUME NEW Hash, NEW budget \in Nat, NEW known, NEW l0, NEW l1, NEW l2, NEW l3,
         Offered(l0, l1, l2, l3) \in Seq(Offers(Hash))
  PROVE  \E run : /\ CompileRun(run, Hash, budget, known, Offered(l0, l1, l2, l3))
                  /\ IsOutcome(Compile(budget, known, l0, l1, l2, l3), run[Len(Offered(l0, l1, l2, l3))], budget)
<1> DEFINE offers == Offered(l0, l1, l2, l3)
           n == Len(offers)
           S == CompilerStates(Hash)
           start == Assembled(budget)
           F(f) == [i \in 0 .. n |-> IF i = 0 THEN Assembled(budget)
                                     ELSE IF offers[i].layer \in {"L0", "L1"} THEN PutFixed(f[i - 1], offers[i])
                                     ELSE PutMemory(f[i - 1], known, offers[i])]
           acc == CHOOSE f : f = F(f)
           turn == [p \in (1 .. n) \X S |-> CompileTurn(p[2], known, offers[p[1]])]
           c == Compile(budget, known, l0, l1, l2, l3)
<1>1. n \in Nat /\ \A i \in 1 .. n : offers[i] \in Offers(Hash)
  OBVIOUS
<1>2. /\ c.taken = acc[n].taken /\ c.tokens_used = budget - acc[n].remaining
      /\ c.l2_count = acc[n].l2_count /\ c.l3_count = acc[n].l3_count
  BY DEF Compile
<1> HIDE DEF offers, n, c
<1>3. start \in S
  BY DEF Assembled, CompilerStates
<1>4. ASSUME NEW a \in S, NEW i \in 1 .. n PROVE CompileTurn(a, known, offers[i]) \in S
  BY <1>1, CompileTurnIs
<1> HIDE DEF S, start
<1>5. turn \in Turns(n, S)
  BY <1>4 DEF Turns
<1>6. \E f : f = F(f) /\ IsRun(f, n, S, start, turn)
  <2> HIDE DEF turn
  <2>1. PICK f : IsRun(f, n, S, start, turn)
    BY <1>1, <1>3, <1>5, RunExists
  <2>2. \A i \in 1 .. n : i - 1 \in 0 .. n /\ f[i - 1] \in S
    BY <1>1, <2>1 DEF IsRun
  <2>3. \A i \in 1 .. n : turn[<<i, f[i - 1]>>] = CompileTurn(f[i - 1], known, offers[i])
    BY <2>2 DEF turn
  <2>4. \A i \in 0 .. n : i = 0 \/ i \in 1 .. n
    OBVIOUS
  <2>5. f = F(f)
    <3>1. f = [i \in 0 .. n |-> f[i]]
      BY <2>1 DEF IsRun
    <3>2. \A i \in 0 .. n : f[i] = F(f)[i]
      <4>1. F(f)[0] = f[0]
        BY <1>1, <2>1 DEF IsRun, start
      <4>2. ASSUME NEW i \in 1 .. n PROVE F(f)[i] = f[i]
        <5>1. i \in 0 .. n /\ i # 0
          BY <1>1
        <5>2. F(f)[i] = CompileTurn(f[i - 1], known, offers[i])
          BY <5>1 DEF CompileTurn
        <5> QED BY <2>1, <2>3, <5>2 DEF IsRun
      <4> QED BY <2>4, <4>1, <4>2
    <3> QED BY <3>1, <3>2
  <2> QED BY <2>1, <2>5
<1>7. acc = F(acc)
  BY <1>6
<1> HIDE DEF acc
<1>8. acc[0] = start /\ \A i \in 1 .. n : acc[i] = CompileTurn(acc[i - 1], known, offers[i])
  <2>1. acc[0] = start
    BY <1>1, <1>7 DEF start
  <2>2. ASSUME NEW i \in 1 .. n PROVE acc[i] = CompileTurn(acc[i - 1], known, offers[i])
    <3>1. i \in 0 .. n /\ i # 0
      BY <1>1
    <3>2. acc[i] = F(acc)[i]
      BY <1>7
    <3> QED BY <3>1, <3>2 DEF CompileTurn
  <2> QED BY <2>1, <2>2
<1> DEFINE Same == {i \in 0 .. n : acc[i] \in S}
<1>9. 0 \in Same
  BY <1>1, <1>3, <1>8
<1>10. ASSUME NEW i \in 1 .. n, i - 1 \in Same PROVE i \in Same
  <2>1. acc[i - 1] \in S /\ i \in 0 .. n
    BY <1>1, <1>10
  <2> QED BY <1>4, <1>8, <2>1
<1> HIDE DEF Same
<1>11. 0 .. n \subseteq Same
  BY <1>1, <1>9, <1>10, StepsReach
<1>12. CompileRun(acc, Hash, budget, known, offers)
  BY <1>8, <1>11 DEF CompileRun, Same, S, start, n
<1> QED BY <1>2, <1>12 DEF offers, n, c, IsOutcome

(* By induction on the offers: the places that are taken so far are those of a first fit. *)
LEMMA CompileIs ==
  ASSUME NEW Hash, NEW budget \in Nat, NEW known, NEW l0, NEW l1, NEW l2, NEW l3,
         Offered(l0, l1, l2, l3) \in Seq(Offers(Hash))
  PROVE  LET offers == Offered(l0, l1, l2, l3)
             c == Compile(budget, known, l0, l1, l2, l3)
             S == FirstFit(budget, known, offers)
         IN  /\ c.taken \in Seq(Offers(Hash))
             /\ Len(c.taken) = Cardinality(S) /\ \A i \in S : c.taken[Cardinality(UpTo(S, i))] = offers[i]
             /\ c.tokens_used = AllTokens(c.taken)
             /\ c.tokens_used <= budget /\ Len(c.taken) <= c.tokens_used
             /\ PrintedBytes(c.taken) <= 4 * c.tokens_used + 3 * Len(c.taken)
             /\ c.tokens_used \in Nat /\ PrintedBytes(c.taken) \in Nat
             /\ c.l2_count = Cardinality(InLayer(c.taken, "L2"))
             /\ c.l3_count = Cardinality(InLayer(c.taken, "L3"))
<1> DEFINE offers == Offered(l0, l1, l2, l3)
           n == Len(offers)
           c == Compile(budget, known, l0, l1, l2, l3)
           Tokens(i) == EstimateTokens(offers[i].text.len)
<1>1. PICK run : CompileRun(run, Hash, budget, known, offers) /\ IsOutcome(c, run[n], budget)
  BY CompileRunExists
<1> DEFINE S == {i \in 1 .. n : ~ Unwanted(known, offers[i]) /\ Tokens(i) <= run[i - 1].remaining}
           Count(i) == Cardinality(UpTo(S, i))
<1>2. n \in Nat /\ offers \in Seq(Offers(Hash)) /\ \A i \in 1 .. n : offers[i] \in Offers(Hash)
  OBVIOUS
<1> HIDE DEF offers, c
<1>3. S \in SUBSET (1 .. n)
  OBVIOUS
<1>4. \A i \in 1 .. n : offers[i].text.len \in Nat /\ Tokens(i) \in Nat /\ Tokens(i) >= 1 /\ offers[i].text.len <= 4 * Tokens(i) + 3
  <2>1. \A o \in Offers(Hash) : o.text.len \in Nat
    BY DEF Offers, Texts
  <2> QED BY <1>2, <2>1, TokensAre
<1>5. ASSUME NEW i \in 1 .. n
      PROVE  /\ run[i] = IF i \in S THEN Put(run[i - 1], offers[i]) ELSE run[i - 1]
             /\ i - 1 \in 0 .. n /\ i \in 0 .. n
             /\ run[i - 1] \in CompilerStates(Hash) /\ run[i] \in CompilerStates(Hash)
  <2>1. i - 1 \in 0 .. n /\ i \in 0 .. n
    BY <1>2
  <2>2. /\ run[i - 1] \in CompilerStates(Hash) /\ run[i] \in CompilerStates(Hash)
        /\ run[i] = CompileTurn(run[i - 1], known, offers[i])
    BY <1>1, <2>1 DEF CompileRun
  <2>3. CompileTurn(run[i - 1], known, offers[i]) =
          IF ~ Unwanted(known, offers[i]) /\ Tokens(i) <= run[i - 1].remaining THEN Put(run[i - 1], offers[i]) ELSE run[i - 1]
    BY <1>2, <2>2, CompileTurnIs
  <2> QED BY <2>1, <2>2, <2>3
<1> HIDE DEF n, S
<1>6. /\ Count(0) = 0 /\ Count(n) = Cardinality(S) /\ UpTo(S, 0) = {} /\ UpTo(S, n) = S
      /\ \A i \in 0 .. n : Count(i) \in Nat
  <2>1. 0 \in 0 .. n /\ n \in 0 .. n
    BY <1>2
  <2>2. UpTo(S, 0) = {} /\ UpTo(S, n) = S
    BY <1>2, <1>3, <2>1, UpToIs
  <2>3. \A i \in 0 .. n : Count(i) \in Nat
    BY <1>2, <1>3, UpToIs
  <2> QED BY <2>2, <2>3, FS_EmptySet
<1>7. \A i \in 0 .. n : \A k \in 0 .. i : Count(k) <= Count(i)
  BY <1>2, <1>3, UpToIs
<1>8. /\ \A i \in 1 .. n : i \in S => UpTo(S, i) = UpTo(S, i - 1) \cup {i} /\ Count(i) = Count(i - 1) + 1
      /\ \A i \in 1 .. n : i \notin S => UpTo(S, i) = UpTo(S, i - 1)
  BY <1>2, <1>3, UpToGrows
<1>9. /\ TokensTo(offers, S, 0) = 0
      /\ \A i \in 0 .. n : TokensTo(offers, S, i) \in Nat
      /\ \A i \in 1 .. n : i \in S => TokensTo(offers, S, i) = TokensTo(offers, S, i - 1) + Tokens(i)
      /\ \A i \in 1 .. n : i \notin S => TokensTo(offers, S, i) = TokensTo(offers, S, i - 1)
  <2>1. TokensTo(offers, S, 0) = 0
    BY <1>2, TokensToIs
  <2>2. \A i \in 0 .. n : TokensTo(offers, S, i) \in Nat
    BY <1>2, TokensToIs DEF n
  <2>3. /\ \A i \in 1 .. n : i \in S => TokensTo(offers, S, i) = TokensTo(offers, S, i - 1) + Tokens(i)
        /\ \A i \in 1 .. n : i \notin S => TokensTo(offers, S, i) = TokensTo(offers, S, i - 1)
    BY <1>2, TokensGrow DEF n
  <2> QED BY <2>1, <2>2, <2>3
<1> HIDE DEF Count, Tokens
<1> DEFINE Good(i) ==
             LET a == run[i]
             IN  /\ a.remaining = budget - TokensTo(offers, S, i)
                 /\ Len(a.taken) = Count(i) /\ \A j \in UpTo(S, i) : Count(j) \in 1 .. Count(i) /\ a.taken[Count(j)] = offers[j]
                 /\ AllTokens(a.taken) = TokensTo(offers, S, i) /\ Len(a.taken) <= TokensTo(offers, S, i)
                 /\ PrintedBytes(a.taken) <= 4 * TokensTo(offers, S, i) + 3 * Len(a.taken)
                 /\ a.l2_count = Cardinality(InLayer(a.taken, "L2"))
                 /\ a.l3_count = Cardinality(InLayer(a.taken, "L3"))
           Same == {i \in 0 .. n : Good(i)}
<1>10. 0 \in Same
  <2>1. run[0] = Assembled(budget)
    BY <1>1 DEF CompileRun
  <2>2. run[0].taken = <<>> /\ run[0].remaining = budget /\ run[0].l2_count = 0 /\ run[0].l3_count = 0
    BY <2>1 DEF Assembled
  <2>3. AllTokens(<<>>) = 0 /\ PrintedBytes(<<>>) = 0
    <3>1. \A s \in Seq(Nat) : Len(s) = 0 => Total(s) = 0
      BY TotalIs
    <3>2. \A s : s = [k \in 1 .. 0 |-> s[k]] => s \in Seq(Nat) /\ Len(s) = 0
      OBVIOUS
    <3> QED BY <3>1, <3>2 DEF AllTokens, TokensTo, PrintedBytes
  <2>4. \A layer : Cardinality(InLayer(<<>>, layer)) = 0
    <3>1. \A layer : InLayer(<<>>, layer) = {}
      BY DEF InLayer
    <3> QED BY <3>1, FS_EmptySet
  <2>5. 0 \in 0 .. n
    BY <1>2
  <2> QED BY <1>6, <1>9, <2>2, <2>3, <2>4, <2>5
<1>11. ASSUME NEW i \in 1 .. n, i - 1 \in Same PROVE i \in Same
  <2> DEFINE a == run[i - 1]
             b == run[i]
             o == offers[i]
  <2>1. Good(i - 1) /\ i \in 0 .. n /\ i - 1 \in 0 .. n
    BY <1>5, <1>11
  <2>2. CASE i \notin S
    <3>1. b = a /\ Count(i) = Count(i - 1) /\ UpTo(S, i) = UpTo(S, i - 1) /\ TokensTo(offers, S, i) = TokensTo(offers, S, i - 1)
      BY <1>5, <1>8, <1>9, <2>2 DEF Count
    <3>2. Good(i)
      BY <2>1, <3>1
    <3> HIDE DEF Good
    <3> QED BY <2>1, <3>2
  <2>3. CASE i \in S
    <3>1. /\ b = Put(a, o) /\ Count(i) = Count(i - 1) + 1 /\ UpTo(S, i) = UpTo(S, i - 1) \cup {i}
          /\ TokensTo(offers, S, i) = TokensTo(offers, S, i - 1) + Tokens(i)
      BY <1>5, <1>8, <1>9, <2>3
    <3>2. a.taken \in Seq(Offers(Hash)) /\ o \in Offers(Hash)
      BY <1>2, <1>5 DEF CompilerStates
    <3>3. /\ b.taken = Append(a.taken, o) /\ b.remaining = a.remaining - Tokens(i)
          /\ b.l2_count = a.l2_count + (IF o.layer = "L2" THEN 1 ELSE 0)
          /\ b.l3_count = a.l3_count + (IF o.layer = "L3" THEN 1 ELSE 0)
      BY <3>1 DEF Put, Tokens
    <3>4. /\ AllTokens(a.taken) \in Nat /\ PrintedBytes(a.taken) \in Nat
          /\ AllTokens(b.taken) = AllTokens(a.taken) + Tokens(i)
          /\ PrintedBytes(b.taken) = PrintedBytes(a.taken) + o.text.len
      BY <3>2, <3>3, AppendAdds DEF Tokens
    <3>5. \A layer : Cardinality(InLayer(b.taken, layer)) =
                       Cardinality(InLayer(a.taken, layer)) + (IF o.layer = layer THEN 1 ELSE 0)
      BY <3>2, <3>3, AppendAdds
    <3>6. Len(b.taken) = Count(i) /\ Len(a.taken) = Count(i - 1) /\ Count(i - 1) \in Nat
      BY <1>6, <2>1, <3>1, <3>2, <3>3
    <3>7. ASSUME NEW j \in UpTo(S, i) PROVE Count(j) \in 1 .. Count(i) /\ b.taken[Count(j)] = offers[j]
      <4>1. CASE j = i
        BY <3>1, <3>2, <3>3, <3>6, <4>1
      <4>2. CASE j # i
        <5>1. j \in UpTo(S, i - 1)
          BY <3>1, <4>2
        <5>2. Count(j) \in 1 .. Count(i - 1) /\ a.taken[Count(j)] = offers[j]
          BY <2>1, <5>1
        <5> QED BY <3>1, <3>2, <3>3, <3>6, <5>2
      <4> QED BY <4>1, <4>2
    <3>8. b.remaining = budget - TokensTo(offers, S, i) /\ AllTokens(b.taken) = TokensTo(offers, S, i)
      BY <1>4, <1>9, <2>1, <3>1, <3>3, <3>4
    <3>9. /\ Len(b.taken) <= TokensTo(offers, S, i)
          /\ PrintedBytes(b.taken) <= 4 * TokensTo(offers, S, i) + 3 * Len(b.taken)
      <4> DEFINE p == PrintedBytes(a.taken)
                 u == TokensTo(offers, S, i - 1)
                 m == Count(i - 1)
                 x == o.text.len
                 q == Tokens(i)
      <4>1. p \in Nat /\ u \in Nat /\ m \in Nat /\ x \in Nat /\ q \in Nat /\ q >= 1 /\ x <= 4 * q + 3 /\ m <= u /\ p <= 4 * u + 3 * m
        BY <1>4, <1>9, <2>1, <3>4, <3>6
      <4>2. PrintedBytes(b.taken) = p + x /\ TokensTo(offers, S, i) = u + q /\ Len(b.taken) = m + 1
        BY <3>1, <3>4, <3>6
      <4> HIDE DEF p, u, m, x, q
      <4>3. m + 1 <= u + q /\ p + x <= 4 * (u + q) + 3 * (m + 1)
        BY <4>1
      <4> QED BY <4>2, <4>3
    <3>10. b.l2_count = Cardinality(InLayer(b.taken, "L2")) /\ b.l3_count = Cardinality(InLayer(b.taken, "L3"))
      BY <2>1, <3>3, <3>5
    <3>11. Good(i)
      BY <3>6, <3>7, <3>8, <3>9, <3>10
    <3> HIDE DEF Good
    <3> QED BY <2>1, <3>11
  <2> QED BY <2>2, <2>3
<1> HIDE DEF Same
<1>12. 0 .. n \subseteq Same
  BY <1>2, <1>10, <1>11, StepsReach
<1>13. \A i \in 0 .. n : Good(i)
  BY <1>12 DEF Same
<1> HIDE DEF Good
<1>14. FirstFit(budget, known, offers) = S
  <2>1. ASSUME NEW i \in 1 .. n
        PROVE  i \in S <=> /\ ~ Unwanted(known, offers[i])
                          /\ TokensTo(offers, S, i - 1) + Tokens(i) <= budget
    <3>1. run[i - 1].remaining = budget - TokensTo(offers, S, i - 1)
      BY <1>5, <1>13 DEF Good
    <3>2. TokensTo(offers, S, i - 1) \in Nat /\ Tokens(i) \in Nat
      BY <1>4, <1>5, <1>9
    <3>3. i \in S <=> ~ Unwanted(known, offers[i]) /\ Tokens(i) <= run[i - 1].remaining
      BY DEF S
    <3> QED BY <3>1, <3>2, <3>3
  <2>2. Fits(budget, known, offers, S)
    BY <2>1 DEF Fits, Tokens, n
  <2> QED BY <1>2, <1>3, <2>2, FirstFitIs DEF n
<1>15. n \in 0 .. n
  BY <1>2
<1>16. run[n] \in CompilerStates(Hash)
  BY <1>1, <1>15 DEF CompileRun, n
<1> DEFINE all == run[n]
           used == TokensTo(offers, S, n)
<1>17. /\ all.remaining = budget - used /\ all.remaining \in Nat /\ used \in Nat
       /\ Len(all.taken) = Cardinality(S) /\ \A i \in S : all.taken[Count(i)] = offers[i]
       /\ AllTokens(all.taken) = used /\ Len(all.taken) <= used
       /\ PrintedBytes(all.taken) <= 4 * used + 3 * Len(all.taken)
       /\ all.l2_count = Cardinality(InLayer(all.taken, "L2"))
       /\ all.l3_count = Cardinality(InLayer(all.taken, "L3"))
  BY <1>6, <1>9, <1>13, <1>15, <1>16 DEF Good, CompilerStates
<1>18. all.taken \in Seq(Offers(Hash)) /\ PrintedBytes(all.taken) \in Nat
  <2>1. all.taken \in Seq(Offers(Hash))
    BY <1>16 DEF CompilerStates
  <2>2. \A o \in Offers(Hash) : PrintedBytes(all.taken) \in Nat
    BY <2>1, AppendAdds
  <2>3. all.taken # <<>> => all.taken[1] \in Offers(Hash)
    BY <2>1
  <2>4. PrintedBytes(<<>>) = 0
    <3>1. \A s \in Seq(Nat) : Len(s) = 0 => Total(s) = 0
      BY TotalIs
    <3>2. \A s : s = [k \in 1 .. 0 |-> s[k]] => s \in Seq(Nat) /\ Len(s) = 0
      OBVIOUS
    <3> QED BY <3>1, <3>2 DEF PrintedBytes
  <2> QED BY <2>1, <2>2, <2>3, <2>4
<1>19. budget - (budget - used) = used /\ used <= budget
  BY <1>17
<1> HIDE DEF used, all
<1>20. c.taken = all.taken /\ c.tokens_used = used /\ c.l2_count = all.l2_count /\ c.l3_count = all.l3_count
  BY <1>1, <1>17, <1>19 DEF all, IsOutcome
<1> QED BY <1>14, <1>17, <1>18, <1>19, <1>20 DEF Count, offers, c

(* What layers render is a number of bytes.                                   *)
LEMMA RenderedIs ==
  ASSUME NEW lens \in Seq(Nat), NEW separator \in Nat
  PROVE  RenderedLen(lens, separator) \in Nat
<1>1. Total(lens) \in Nat
  BY TotalIs
<1>2. lens # <<>> => Len(lens) - 1 \in Nat
  OBVIOUS
<1>3. ASSUME NEW k \in Nat PROVE separator * k \in Nat
  OBVIOUS
<1> QED BY <1>1, <1>2, <1>3 DEF RenderedLen

LEMMA OfferedIs ==
  ASSUME NEW Hash, NEW l0 \in Texts(Hash), NEW l1 \in Texts(Hash), NEW l2 \in Seq(Texts(Hash)), NEW l3 \in Seq(Texts(Hash))
  PROVE  Offered(l0, l1, l2, l3) \in Seq(Offers(Hash))
<1> DEFINE first == <<[layer |-> "L0", text |-> l0], [layer |-> "L1", text |-> l1]>>
           second == [i \in 1 .. Len(l2) |-> [layer |-> "L2", text |-> l2[i]]]
           third == [i \in 1 .. Len(l3) |-> [layer |-> "L3", text |-> l3[i]]]
<1>1. \A layer \in {"L0", "L1", "L2", "L3"}, text \in Texts(Hash) : [layer |-> layer, text |-> text] \in Offers(Hash)
  BY DEF Offers
<1>2. first \in Seq(Offers(Hash))
  <2>1. [layer |-> "L0", text |-> l0] \in Offers(Hash) /\ [layer |-> "L1", text |-> l1] \in Offers(Hash)
    BY <1>1
  <2> QED BY <2>1
<1>3. second \in Seq(Offers(Hash))
  <2>1. \A i \in 1 .. Len(l2) : [layer |-> "L2", text |-> l2[i]] \in Offers(Hash)
    BY <1>1
  <2> QED BY <2>1
<1>4. third \in Seq(Offers(Hash))
  <2>1. \A i \in 1 .. Len(l3) : [layer |-> "L3", text |-> l3[i]] \in Offers(Hash)
    BY <1>1
  <2> QED BY <2>1
<1>5. Offered(l0, l1, l2, l3) = first \o second \o third
  BY DEF Offered
<1> HIDE DEF first, second, third
<1> QED BY <1>2, <1>3, <1>4, <1>5

(* Any budget, layers, memories and known contents.                           *)
Contents(Hash) == [hash : Hash, paragraphs : Seq(Texts(Hash))]

CompileCalls(Hash) ==
  [kind : {"compile"}, budget : Nat, known : Seq(Contents(Hash)),
   l0 : [tier : Nat, optional : Seq(Nat)], l1 : [description : Seq(Nat), facts : Seq(Nat)],
   l2 : Seq(Texts(Hash)), l3 : Seq(Texts(Hash))]

(* CompileIsFirstFit for any of them: the context is the first fit of what is *)
(* offered, and its tokens, bytes and counts are those of what was taken      *)
(* (context/compiler.rs, compile).                                            *)
THEOREM CompilingIsFirstFit ==
  ASSUME NEW Hash, input \in CompileCalls(Hash)
  PROVE  CompileIsFirstFit
<1> DEFINE Hashes == Hash \cup {"l0", "l1"}
           known == FoldLeft(RegisterKnownContent, {}, input.known)
           l0 == [hash |-> "l0", len |-> L0Len(input.l0)]
           l1 == [hash |-> "l1", len |-> L1Len(input.l1)]
           l2 == input.l2
           l3 == input.l3
           budget == input.budget
           offers == Offered(l0, l1, l2, l3)
           c == Compile(budget, known, l0, l1, l2, l3)
           S == FirstFit(budget, known, offers)
<1>1. /\ budget \in Nat /\ l2 \in Seq(Texts(Hash)) /\ l3 \in Seq(Texts(Hash))
      /\ input.l0 \in [tier : Nat, optional : Seq(Nat)] /\ input.l1 \in [description : Seq(Nat), facts : Seq(Nat)]
  BY DEF CompileCalls
<1>2. l0 \in Texts(Hashes) /\ l1 \in Texts(Hashes)
  <2>1. <<input.l0.tier>> \o input.l0.optional \in Seq(Nat) /\ input.l1.description \o input.l1.facts \in Seq(Nat)
    BY <1>1
  <2>2. L0Len(input.l0) \in Nat /\ L1Len(input.l1) \in Nat
    BY <2>1, RenderedIs DEF L0Len, L1Len
  <2> QED BY <2>2 DEF Texts
<1>3. l2 \in Seq(Texts(Hashes)) /\ l3 \in Seq(Texts(Hashes))
  <2>1. \A t \in Texts(Hash) : t \in Texts(Hashes)
    BY DEF Texts
  <2> HIDE DEF Hashes
  <2> QED BY <1>1, <2>1
<1> HIDE DEF Hashes, known, l0, l1, l2, l3, budget
<1>4. offers \in Seq(Offers(Hashes))
  BY <1>2, <1>3, OfferedIs
<1>5. /\ c.taken \in Seq(Offers(Hashes))
      /\ Len(c.taken) = Cardinality(S) /\ \A i \in S : c.taken[Cardinality(UpTo(S, i))] = offers[i]
      /\ c.tokens_used = AllTokens(c.taken)
      /\ c.tokens_used <= budget /\ Len(c.taken) <= c.tokens_used
      /\ PrintedBytes(c.taken) <= 4 * c.tokens_used + 3 * Len(c.taken)
      /\ c.tokens_used \in Nat /\ PrintedBytes(c.taken) \in Nat
      /\ c.l2_count = Cardinality(InLayer(c.taken, "L2"))
      /\ c.l3_count = Cardinality(InLayer(c.taken, "L3"))
  BY <1>1, <1>4, CompileIs
<1> HIDE DEF c, S, offers
<1>6. PrintedBytes(c.taken) < 4 * (c.tokens_used + Len(c.taken)) \/ c.taken = <<>>
  <2> DEFINE p == PrintedBytes(c.taken)
             u == c.tokens_used
             m == Len(c.taken)
  <2>1. p \in Nat /\ u \in Nat /\ m \in Nat /\ p <= 4 * u + 3 * m /\ (m = 0 => c.taken = <<>>)
    BY <1>5
  <2> HIDE DEF p, u, m
  <2>2. m # 0 => p < 4 * (u + m)
    BY <2>1
  <2> QED BY <2>1, <2>2 DEF p, u, m
<1>7. \A i \in S : c.taken[Cardinality({k \in S : k <= i})] = offers[i]
  BY <1>5 DEF UpTo
<1>8. /\ c.l2_count = Cardinality({k \in DOMAIN c.taken : c.taken[k].layer = "L2"})
      /\ c.l3_count = Cardinality({k \in DOMAIN c.taken : c.taken[k].layer = "L3"})
      /\ c.tokens_used = TokensTo(c.taken, 1 .. Len(c.taken), Len(c.taken))
  BY <1>5 DEF InLayer, AllTokens
<1> QED BY <1>5, <1>6, <1>7, <1>8, Zenon DEF CompileIsFirstFit, known, l0, l1, l2, l3, budget, offers, c, S

--------------------------------------------------------------------------------
(* The sections of notes.                                                    *)

(* A line that is a heading has a mark in it.                                *)
Lines == {l \in [kind : {"heading", "text"}, len : Nat, splits : BOOLEAN] : l.kind = "heading" => l.len > 0}

(* A part of a sequence and its blank lines.                                 *)
LEMMA PartIs ==
  ASSUME NEW lines \in Seq(Lines), NEW a \in 1 .. Len(lines) + 1, NEW b \in a - 1 .. Len(lines)
  PROVE  /\ SubSeq(lines, a, b) \in Seq(Lines) /\ Len(SubSeq(lines, a, b)) = b - a + 1
         /\ \A k \in 1 .. b - a + 1 : SubSeq(lines, a, b)[k] = lines[a + k - 1]
         /\ AllBlank(SubSeq(lines, a, b)) <=> \A k \in a .. b : lines[k].len = 0
<1> DEFINE n == Len(lines)
           part == SubSeq(lines, a, b)
<1>1. n \in Nat /\ a \in Nat /\ a >= 1 /\ b \in Int /\ a - 1 <= b /\ b <= n
  OBVIOUS
<1>2. part = [k \in 1 .. b - a + 1 |-> lines[a + k - 1]]
  BY <1>1
<1>3. \A k \in 1 .. n : lines[k] \in Lines
  OBVIOUS
<1>4. b - a + 1 \in Nat /\ \A k \in 1 .. b - a + 1 : a + k - 1 \in 1 .. n
  BY <1>1
<1> HIDE DEF part, n
<1>5. part \in Seq(Lines) /\ Len(part) = b - a + 1 /\ DOMAIN part = 1 .. b - a + 1
  BY <1>2, <1>3, <1>4
<1>6. \A k \in 1 .. b - a + 1 : part[k] = lines[a + k - 1]
  BY <1>2
<1>7. AllBlank(part) <=> \A k \in a .. b : lines[k].len = 0
  <2>1. ASSUME AllBlank(part), NEW k \in a .. b PROVE lines[k].len = 0
    <3>1. k - a + 1 \in 1 .. b - a + 1 /\ a + (k - a + 1) - 1 = k
      BY <1>1
    <3> QED BY <1>5, <1>6, <2>1, <3>1 DEF AllBlank, IsBlank
  <2>2. ASSUME \A k \in a .. b : lines[k].len = 0, NEW k \in 1 .. b - a + 1 PROVE part[k].len = 0
    <3>1. a + k - 1 \in a .. b
      BY <1>1
    <3> QED BY <1>6, <2>2, <3>1
  <2> QED BY <1>5, <2>1, <2>2 DEF AllBlank, IsBlank
<1> QED BY <1>5, <1>6, <1>7 DEF part

LEMMA PartGrows ==
  ASSUME NEW lines \in Seq(Lines), NEW b \in 1 .. Len(lines), NEW a \in 1 .. b
  PROVE  /\ SubSeq(lines, a, b) = Append(SubSeq(lines, a, b - 1), lines[b])
         /\ SubSeq(lines, b, b) = <<lines[b]>>
<1> DEFINE long == SubSeq(lines, a, b)
           short == SubSeq(lines, a, b - 1)
           one == SubSeq(lines, b, b)
<1>1. /\ a \in 1 .. Len(lines) + 1 /\ b \in a - 1 .. Len(lines) /\ b - 1 \in a - 1 .. Len(lines)
      /\ b \in 1 .. Len(lines) + 1 /\ b \in b - 1 .. Len(lines)
      /\ a \in Nat /\ b \in Nat /\ a <= b /\ a >= 1
  OBVIOUS
<1>2. /\ long \in Seq(Lines) /\ Len(long) = b - a + 1 /\ \A k \in 1 .. b - a + 1 : long[k] = lines[a + k - 1]
  BY <1>1, PartIs
<1>3. /\ short \in Seq(Lines) /\ Len(short) = (b - 1) - a + 1 /\ \A k \in 1 .. (b - 1) - a + 1 : short[k] = lines[a + k - 1]
  BY <1>1, PartIs
<1>4. one \in Seq(Lines) /\ Len(one) = b - b + 1 /\ \A k \in 1 .. b - b + 1 : one[k] = lines[b + k - 1]
  BY <1>1, PartIs
<1> HIDE DEF long, short, one
<1>5. one = <<lines[b]>>
  <2>1. Len(one) = 1 /\ one[1] = lines[b]
    BY <1>1, <1>4
  <2> QED BY <1>4, <2>1
<1>6. long = Append(short, lines[b])
  <2> DEFINE more == Append(short, lines[b])
             m == b - a
  <2>1. m \in Nat /\ Len(long) = m + 1 /\ Len(short) = m /\ a + (m + 1) - 1 = b
    BY <1>1, <1>2, <1>3
  <2>2. lines[b] \in Lines
    OBVIOUS
  <2>3. more \in Seq(Lines) /\ Len(more) = m + 1 /\ more[m + 1] = lines[b] /\ \A k \in 1 .. m : more[k] = short[k]
    BY <1>3, <2>1, <2>2
  <2>4. \A k \in 1 .. m + 1 : long[k] = more[k]
    <3>1. \A k \in 1 .. m + 1 : k = m + 1 \/ k \in 1 .. m
      BY <2>1
    <3>2. long[m + 1] = lines[b]
      BY <1>1, <1>2, <2>1
    <3>3. \A k \in 1 .. m : long[k] = lines[a + k - 1] /\ short[k] = lines[a + k - 1]
      BY <1>1, <1>2, <1>3
    <3> QED BY <2>3, <3>1, <3>2, <3>3
  <2> HIDE DEF more, m
  <2> QED BY <1>2, <2>1, <2>3, <2>4 DEF more
<1> QED BY <1>5, <1>6 DEF long, short, one

LEMMA CutsAre ==
  ASSUME NEW lines \in Seq(Lines), lines # <<>>
  PROVE  /\ Cuts(lines) \in SUBSET (2 .. Len(lines)) /\ Starts(lines) \in SUBSET (1 .. Len(lines))
         /\ \A i \in Cuts(lines) : lines[i].len > 0
         /\ \A i \in 1 .. Len(lines) : i \in Cuts(lines) <=> IsHeading(lines[i]) /\ \E k \in 1 .. i - 1 : lines[k].len # 0
<1>1. Len(lines) \in Nat /\ Len(lines) >= 1 /\ \A i \in 1 .. Len(lines) : lines[i] \in Lines
  OBVIOUS
<1>2. ASSUME NEW i \in 1 .. Len(lines)
      PROVE  i \in Cuts(lines) <=> IsHeading(lines[i]) /\ \E k \in 1 .. i - 1 : lines[k].len # 0
  <2>1. 1 \in 1 .. Len(lines) + 1 /\ i - 1 \in 1 - 1 .. Len(lines)
    BY <1>1
  <2>2. AllBlank(SubSeq(lines, 1, i - 1)) <=> \A k \in 1 .. i - 1 : lines[k].len = 0
    BY <2>1, PartIs
  <2> QED BY <2>2 DEF Cuts
<1>3. 1 \notin Cuts(lines)
  BY <1>1, <1>2
<1>4. \A i \in Cuts(lines) : i \in 1 .. Len(lines) /\ lines[i].len > 0
  <2>1. \A l \in Lines : IsHeading(l) => l.len > 0
    BY DEF Lines, IsHeading
  <2> QED BY <1>1, <2>1 DEF Cuts
<1>5. \A i \in 1 .. Len(lines) : i = 1 \/ i \in 2 .. Len(lines)
  BY <1>1
<1> QED BY <1>1, <1>2, <1>3, <1>4, <1>5 DEF Starts

(* Where a section ends.                                                     *)
LEMMA SectionEnds ==
  ASSUME NEW lines \in Seq(Lines), NEW i \in 1 .. Len(lines), NEW j \in i .. Len(lines),
         \A k \in i + 1 .. j : k \notin Cuts(lines), j = Len(lines) \/ j + 1 \in Cuts(lines)
  PROVE  SectionAt(lines, i) = SubSeq(lines, i, j)
<1> DEFINE T == {m \in i .. Len(lines) : \A k \in i + 1 .. m : k \notin Cuts(lines)}
<1>1. Len(lines) \in Nat
  OBVIOUS
<1>2. j \in T
  OBVIOUS
<1>3. ASSUME NEW y \in T PROVE j >= y
  <2>1. CASE j = Len(lines)
    BY <1>1, <2>1
  <2>2. CASE j + 1 \in Cuts(lines)
    <3>1. j + 1 \notin i + 1 .. y
      BY <2>2
    <3> QED BY <1>1, <3>1
  <2> QED BY <2>1, <2>2
<1>4. \A y \in T : y \in Nat
  OBVIOUS
<1> HIDE DEF T
<1>5. Max(T) = j
  <2>1. Max(T) \in T /\ \A y \in T : Max(T) >= y
    BY <1>2, <1>3 DEF Max
  <2>2. Max(T) >= j /\ j >= Max(T) /\ Max(T) \in Nat /\ j \in Nat
    BY <1>2, <1>3, <1>4, <2>1
  <2> QED BY <2>2
<1> QED BY <1>5 DEF SectionAt, T

SplitStates == [sections : Seq(Seq(Lines)), current : Seq(Lines)]
NoSections == [sections |-> <<>>, current |-> <<>>]

LEMMA PutLineType ==
  ASSUME NEW a \in SplitStates, NEW line \in Lines
  PROVE  PutLine(a, line) \in SplitStates
<1>1. a.sections \in Seq(Seq(Lines)) /\ a.current \in Seq(Lines)
  BY DEF SplitStates
<1>2. Append(a.sections, a.current) \in Seq(Seq(Lines)) /\ Append(a.current, line) \in Seq(Lines) /\ <<line>> \in Seq(Lines)
  BY <1>1
<1>3. ASSUME NEW s \in Seq(Lines) PROVE [a EXCEPT !.current = s] \in SplitStates
  <2> DEFINE Q == Seq(Seq(Lines))
             P == Seq(Lines)
  <2>1. a \in [sections : Q, current : P] /\ s \in P
    BY DEF SplitStates
  <2> HIDE DEF Q, P
  <2>2. [a EXCEPT !.current = s] \in [sections : Q, current : P]
    BY <2>1
  <2> QED BY <2>2 DEF SplitStates, Q, P
<1>4. [sections |-> Append(a.sections, a.current), current |-> <<line>>] \in SplitStates
  BY <1>2 DEF SplitStates
<1> QED BY <1>2, <1>3, <1>4 DEF PutLine

(* What has been split after some of the lines.                              *)
SplitRun(run, lines) ==
  /\ run[0] = NoSections
  /\ \A i \in 0 .. Len(lines) : run[i] \in SplitStates
  /\ \A i \in 1 .. Len(lines) : run[i] = PutLine(run[i - 1], lines[i])

Closed(all) == IF AllBlank(all.current) THEN all.sections ELSE Append(all.sections, all.current)

LEMMA SplitRunExists ==
  ASSUME NEW lines \in Seq(Lines)
  PROVE  \E run : SplitRun(run, lines) /\ SplitByHeadings(lines) = Closed(run[Len(lines)])
<1> DEFINE n == Len(lines)
           S == SplitStates
           start == NoSections
           F(f) == [i \in 0 .. n |-> IF i = 0 THEN [sections |-> <<>>, current |-> <<>>] ELSE PutLine(f[i - 1], lines[i])]
           acc == CHOOSE f : f = F(f)
           turn == [p \in (1 .. n) \X S |-> PutLine(p[2], lines[p[1]])]
<1>1. n \in Nat /\ \A i \in 1 .. n : lines[i] \in Lines
  OBVIOUS
<1>2. SplitByHeadings(lines) = Closed(acc[n])
  BY DEF SplitByHeadings, Closed
<1> HIDE DEF n
<1>3. start \in S
  BY DEF NoSections, SplitStates
<1>4. ASSUME NEW a \in S, NEW i \in 1 .. n PROVE PutLine(a, lines[i]) \in S
  BY <1>1, PutLineType
<1> HIDE DEF S
<1>5. turn \in Turns(n, S)
  BY <1>4 DEF Turns
<1>6. \E f : f = F(f) /\ IsRun(f, n, S, start, turn)
  <2> HIDE DEF turn, start
  <2>1. PICK f : IsRun(f, n, S, start, turn)
    BY <1>1, <1>3, <1>5, RunExists
  <2>2. \A i \in 1 .. n : i - 1 \in 0 .. n /\ f[i - 1] \in S
    BY <1>1, <2>1 DEF IsRun
  <2>3. \A i \in 1 .. n : turn[<<i, f[i - 1]>>] = PutLine(f[i - 1], lines[i])
    BY <2>2 DEF turn
  <2>4. \A i \in 0 .. n : i = 0 \/ i \in 1 .. n
    OBVIOUS
  <2>5. f = F(f)
    <3>1. f = [i \in 0 .. n |-> f[i]]
      BY <2>1 DEF IsRun
    <3>2. \A i \in 0 .. n : f[i] = F(f)[i]
      <4>1. F(f)[0] = f[0]
        BY <1>1, <2>1 DEF IsRun, start, NoSections
      <4>2. ASSUME NEW i \in 1 .. n PROVE F(f)[i] = f[i]
        <5>1. i \in 0 .. n /\ i # 0
          BY <1>1
        <5>2. F(f)[i] = PutLine(f[i - 1], lines[i])
          BY <5>1
        <5> QED BY <2>1, <2>3, <5>2 DEF IsRun
      <4> QED BY <2>4, <4>1, <4>2
    <3> QED BY <3>1, <3>2
  <2> QED BY <2>1, <2>5
<1>7. acc = F(acc)
  BY <1>6
<1> HIDE DEF acc
<1>8. acc[0] = start /\ \A i \in 1 .. n : acc[i] = PutLine(acc[i - 1], lines[i])
  <2>1. acc[0] = start
    BY <1>1, <1>7 DEF NoSections
  <2>2. ASSUME NEW i \in 1 .. n PROVE acc[i] = PutLine(acc[i - 1], lines[i])
    <3>1. i \in 0 .. n /\ i # 0
      BY <1>1
    <3>2. acc[i] = F(acc)[i]
      BY <1>7
    <3> QED BY <3>1, <3>2
  <2> QED BY <2>1, <2>2
<1> DEFINE Same == {i \in 0 .. n : acc[i] \in S}
<1>9. 0 \in Same
  BY <1>1, <1>3, <1>8
<1>10. ASSUME NEW i \in 1 .. n, i - 1 \in Same PROVE i \in Same
  <2>1. acc[i - 1] \in S /\ i \in 0 .. n
    BY <1>1, <1>10
  <2> QED BY <1>4, <1>8, <2>1
<1> HIDE DEF Same
<1>11. 0 .. n \subseteq Same
  BY <1>1, <1>9, <1>10, StepsReach
<1>12. SplitRun(acc, lines)
  BY <1>8, <1>11 DEF SplitRun, Same, S, n
<1> QED BY <1>2, <1>12 DEF n

(* After line i the current section began at last and is the only one that is not closed. *)
SplitTo(a, lines, i, last) ==
  LET C == Starts(lines)
      Count(j) == Cardinality(UpTo(C, j))
  IN  /\ last \in C /\ last \in 1 .. i /\ \A k \in last + 1 .. i : k \notin Cuts(lines)
      /\ a.current = SubSeq(lines, last, i)
      /\ Count(i) = Len(a.sections) + 1 /\ Count(last) = Len(a.sections) + 1
      /\ \A j \in UpTo(C, i) : j = last \/ (Count(j) \in 1 .. Len(a.sections) /\ a.sections[Count(j)] = SectionAt(lines, j))

(* By induction on the lines.                                                *)
LEMMA SplitToIs ==
  ASSUME NEW lines \in Seq(Lines), lines # <<>>, NEW run, SplitRun(run, lines)
  PROVE  \E last : SplitTo(run[Len(lines)], lines, Len(lines), last)
<1> DEFINE n == Len(lines)
           C == Starts(lines)
           Count(i) == Cardinality(UpTo(C, i))
           Same == {i \in 0 .. n : i = 0 \/ \E last : SplitTo(run[i], lines, i, last)}
<1>1. n \in Nat /\ n >= 1 /\ \A i \in 1 .. n : lines[i] \in Lines
  OBVIOUS
<1>2. /\ Cuts(lines) \in SUBSET (2 .. n) /\ C \in SUBSET (1 .. n)
      /\ \A i \in 1 .. n : i \in Cuts(lines) <=> IsHeading(lines[i]) /\ \E k \in 1 .. i - 1 : lines[k].len # 0
      /\ \A i \in Cuts(lines) : lines[i].len > 0
  BY CutsAre
<1>3. 1 \in C /\ \A i \in 1 .. n : i # 1 => (i \in C <=> i \in Cuts(lines))
  BY <1>2 DEF Starts
<1> HIDE DEF C
<1>4. UpTo(C, 0) = {} /\ \A i \in 0 .. n : Count(i) \in Nat
  BY <1>1, <1>2, UpToIs
<1>5. /\ \A i \in 1 .. n : i \in C => UpTo(C, i) = UpTo(C, i - 1) \cup {i} /\ Count(i) = Count(i - 1) + 1
      /\ \A i \in 1 .. n : i \notin C => UpTo(C, i) = UpTo(C, i - 1)
  BY <1>1, <1>2, UpToGrows
<1>6. ASSUME NEW i \in 1 .. n
      PROVE  /\ run[i] = PutLine(run[i - 1], lines[i]) /\ run[i - 1] \in SplitStates /\ run[i] \in SplitStates
             /\ i - 1 \in 0 .. n /\ i \in 0 .. n
  BY <1>1 DEF SplitRun
<1>7. 0 \in Same
  BY <1>1
<1> HIDE DEF Count, n
<1>8. ASSUME NEW i \in 1 .. n, i - 1 \in Same PROVE i \in Same
  <2> DEFINE a == run[i - 1]
             b == run[i]
  <2>0. i \in 0 .. n /\ i \in Nat /\ i >= 1 /\ lines[i] \in Lines
    BY <1>1
  <2>1. a.sections \in Seq(Seq(Lines)) /\ a.current \in Seq(Lines)
    BY <1>6 DEF SplitStates
  <2>2. b = IF IsHeading(lines[i]) /\ ~ AllBlank(a.current)
            THEN [sections |-> Append(a.sections, a.current), current |-> <<lines[i]>>]
            ELSE [a EXCEPT !.current = Append(@, lines[i])]
    BY <1>6 DEF PutLine
  <2>3. CASE i = 1
    <3>1. a = NoSections
      BY <2>3 DEF SplitRun
    <3>2. AllBlank(a.current)
      BY <3>1 DEF NoSections, AllBlank
    <3>3. b.sections = <<>> /\ b.current = <<lines[1]>>
      BY <2>2, <2>3, <3>1, <3>2 DEF NoSections
    <3>4. SubSeq(lines, 1, 1) = <<lines[1]>>
      BY <2>0, <2>3, PartGrows DEF n
    <3>5. UpTo(C, 1) = {1} /\ Count(1) = 1
      <4>1. UpTo(C, 1) = UpTo(C, 0) \cup {1}
        BY <1>3, <1>5, <2>3
      <4> QED BY <1>4, <4>1, FS_Singleton, ZenonT(30) DEF Count
    <3>6. SplitTo(b, lines, 1, 1)
      BY <1>3, <3>3, <3>4, <3>5 DEF SplitTo, C, Count
    <3> QED BY <2>0, <2>3, <3>6
  <2>4. CASE i # 1
    <3>0. i - 1 \in Nat /\ i - 1 >= 1 /\ i - 1 \in 1 .. n /\ i - 1 \in 0 .. n
      BY <1>1, <2>0, <2>4
    <3>1. PICK last : SplitTo(a, lines, i - 1, last)
      BY <1>8, <2>4, <3>0
    <3>2. /\ last \in C /\ last \in 1 .. i - 1 /\ last \in 1 .. n /\ last \in Nat
          /\ \A k \in last + 1 .. i - 1 : k \notin Cuts(lines)
          /\ a.current = SubSeq(lines, last, i - 1)
          /\ Count(i - 1) = Len(a.sections) + 1 /\ Count(last) = Len(a.sections) + 1
      BY <1>1, <3>0, <3>1 DEF SplitTo, C, Count
    <3>3. \A j \in UpTo(C, i - 1) : j = last \/ (Count(j) \in 1 .. Len(a.sections) /\ a.sections[Count(j)] = SectionAt(lines, j))
      BY <3>1 DEF SplitTo, C, Count
    <3>4. AllBlank(a.current) <=> \A k \in last .. i - 1 : lines[k].len = 0
      <4>1. last \in 1 .. n + 1 /\ i - 1 \in last - 1 .. n
        BY <1>1, <3>0, <3>2
      <4> QED BY <3>2, <4>1, PartIs DEF n
    <3>5. i \in Cuts(lines) <=> IsHeading(lines[i]) /\ ~ AllBlank(a.current)
      <4>1. CASE last = 1
        BY <1>2, <3>4, <4>1
      <4>2. CASE last # 1
        <5>1. lines[last].len # 0
          <6>1. lines[last].len > 0 /\ lines[last] \in Lines
            BY <1>1, <1>2, <1>3, <3>2, <4>2
          <6> QED BY <6>1
        <5>2. last \in last .. i - 1 /\ last \in 1 .. i - 1
          BY <3>2
        <5> QED BY <1>2, <3>4, <5>1, <5>2
      <4> QED BY <4>1, <4>2
    <3>6. SubSeq(lines, last, i) = Append(SubSeq(lines, last, i - 1), lines[i]) /\ SubSeq(lines, i, i) = <<lines[i]>>
      <4>1. last \in 1 .. i
        BY <3>2, <2>0
      <4> QED BY <4>1, PartGrows DEF n
    <3>7. CASE i \in Cuts(lines)
      <4>1. b.sections = Append(a.sections, a.current) /\ b.current = <<lines[i]>>
        BY <2>2, <3>5, <3>7
      <4>2. i \in C /\ UpTo(C, i) = UpTo(C, i - 1) \cup {i} /\ Count(i) = Count(i - 1) + 1
        BY <1>3, <1>5, <2>4, <3>7
      <4>3. Len(b.sections) = Len(a.sections) + 1 /\ Len(a.sections) \in Nat
            /\ b.sections[Len(a.sections) + 1] = a.current
            /\ \A k \in 1 .. Len(a.sections) : b.sections[k] = a.sections[k]
        BY <2>1, <4>1
      <4>4. SectionAt(lines, last) = SubSeq(lines, last, i - 1)
        <5>1. i - 1 \in last .. n /\ (i - 1) + 1 = i
          BY <1>1, <2>0, <3>2, <3>0
        <5> QED BY <3>2, <3>7, <5>1, SectionEnds DEF n
      <4>5. Count(i) = Len(b.sections) + 1
        BY <3>2, <4>2, <4>3
      <4>6. ASSUME NEW j \in UpTo(C, i)
            PROVE  j = i \/ (Count(j) \in 1 .. Len(b.sections) /\ b.sections[Count(j)] = SectionAt(lines, j))
        <5>1. CASE j = i
          BY <5>1
        <5>2. CASE j = last
          <6>1. Count(j) = Len(a.sections) + 1 /\ b.sections[Count(j)] = SectionAt(lines, j)
            BY <3>2, <4>3, <4>4, <5>2
          <6> QED BY <4>3, <6>1
        <5>3. CASE j # i /\ j # last
          <6>1. Count(j) \in 1 .. Len(a.sections) /\ a.sections[Count(j)] = SectionAt(lines, j)
            BY <3>3, <4>2, <5>3
          <6> QED BY <4>3, <6>1
        <5> QED BY <5>1, <5>2, <5>3
      <4>7. i \in 1 .. i /\ \A k \in i + 1 .. i : k \notin Cuts(lines)
        BY <2>0
      <4>8. SplitTo(b, lines, i, i)
        <5> HIDE DEF b
        <5> QED BY <3>6, <4>1, <4>2, <4>5, <4>6, <4>7 DEF SplitTo, C, Count
      <4> QED BY <2>0, <4>8
    <3>8. CASE i \notin Cuts(lines)
      <4>1. b.sections = a.sections /\ b.current = SubSeq(lines, last, i)
        <5>1. b = [a EXCEPT !.current = Append(@, lines[i])]
          BY <2>2, <3>5, <3>8
        <5>2. a \in SplitStates
          BY <1>6
        <5> QED BY <3>2, <3>6, <5>1, <5>2 DEF SplitStates
      <4>2. i \notin C /\ UpTo(C, i) = UpTo(C, i - 1) /\ Count(i) = Count(i - 1)
        BY <1>3, <1>5, <2>4, <3>8 DEF Count
      <4>3. last \in 1 .. i /\ \A k \in last + 1 .. i : k \notin Cuts(lines)
        <5>1. \A k \in last + 1 .. i : k = i \/ k \in last + 1 .. i - 1
          BY <2>0, <3>2
        <5> QED BY <2>0, <3>2, <3>8, <5>1
      <4>4. SplitTo(b, lines, i, last)
        <5> HIDE DEF a, b
        <5> QED BY <3>2, <3>3, <4>1, <4>2, <4>3 DEF SplitTo, C, Count
      <4> QED BY <2>0, <4>4
    <3> QED BY <3>7, <3>8
  <2> QED BY <2>3, <2>4
<1> HIDE DEF Same
<1>9. 0 .. n \subseteq Same
  BY <1>1, <1>7, <1>8, StepsReach
<1>10. n \in 0 .. n /\ n # 0
  BY <1>1
<1> QED BY <1>9, <1>10 DEF Same, n

LEMMA SplitIs ==
  ASSUME NEW lines \in Seq(Lines)
  PROVE  /\ SplitByHeadings(lines) \in Seq(Seq(Lines))
         /\ AllBlank(lines) => SplitByHeadings(lines) = <<>>
         /\ ~ AllBlank(lines) =>
              /\ Len(SplitByHeadings(lines)) = Cardinality(Starts(lines))
              /\ \A i \in Starts(lines) :
                   SplitByHeadings(lines)[Cardinality(UpTo(Starts(lines), i))] = SectionAt(lines, i)
<1> DEFINE n == Len(lines)
           sections == SplitByHeadings(lines)
           C == Starts(lines)
<1>1. PICK run : SplitRun(run, lines) /\ sections = Closed(run[n])
  BY SplitRunExists
<1> DEFINE all == run[n]
<1>2. n \in Nat /\ n \in 0 .. n /\ DOMAIN lines = 1 .. n /\ (n = 0 <=> lines = <<>>)
  OBVIOUS
<1>3. AllBlank(lines) <=> \A k \in 1 .. n : lines[k].len = 0
  BY <1>2 DEF AllBlank, IsBlank
<1>4. all.sections \in Seq(Seq(Lines)) /\ all.current \in Seq(Lines)
  BY <1>1, <1>2 DEF SplitRun, SplitStates
<1>5. sections = IF AllBlank(all.current) THEN all.sections ELSE Append(all.sections, all.current)
  BY <1>1 DEF Closed
<1>6. sections \in Seq(Seq(Lines))
  BY <1>4, <1>5
<1>7. CASE lines = <<>>
  <2>1. all = NoSections
    BY <1>1, <1>2, <1>7 DEF SplitRun
  <2>2. sections = <<>>
    BY <1>5, <2>1 DEF NoSections, AllBlank
  <2>3. AllBlank(lines)
    BY <1>2, <1>3, <1>7
  <2> QED BY <1>6, <2>2, <2>3
<1>8. CASE lines # <<>>
  <2>0. n >= 1
    BY <1>2, <1>8
  <2>1. PICK last : SplitTo(all, lines, n, last)
    BY <1>1, <1>8, SplitToIs
  <2> HIDE DEF all, sections
  <2>2. /\ last \in C /\ last \in 1 .. n /\ \A k \in last + 1 .. n : k \notin Cuts(lines)
        /\ all.current = SubSeq(lines, last, n)
        /\ Cardinality(UpTo(C, n)) = Len(all.sections) + 1
        /\ Cardinality(UpTo(C, last)) = Len(all.sections) + 1
    BY <2>1 DEF SplitTo
  <2>3. \A j \in UpTo(C, n) : j = last \/ /\ Cardinality(UpTo(C, j)) \in 1 .. Len(all.sections)
                                          /\ all.sections[Cardinality(UpTo(C, j))] = SectionAt(lines, j)
    BY <2>1 DEF SplitTo
  <2>4. /\ Cuts(lines) \in SUBSET (2 .. n) /\ C \in SUBSET (1 .. n)
        /\ \A i \in Cuts(lines) : lines[i].len > 0
        /\ \A i \in 1 .. n : i \in Cuts(lines) => \E k \in 1 .. i - 1 : lines[k].len # 0
    BY <1>8, CutsAre
  <2>5. AllBlank(all.current) <=> \A k \in last .. n : lines[k].len = 0
    <3>1. last \in 1 .. n + 1 /\ n \in last - 1 .. n
      BY <1>2, <2>2
    <3> QED BY <2>2, <3>1, PartIs DEF n
  <2>6. UpTo(C, n) = C
    BY <1>2, <2>4, UpToIs
  <2>7. CASE AllBlank(lines)
    <3>1. Cuts(lines) = {}
      <4> SUFFICES ASSUME NEW i \in Cuts(lines) PROVE FALSE
        OBVIOUS
      <4>1. i \in 1 .. n /\ i - 1 <= n
        BY <1>2, <2>4
      <4>2. PICK k \in 1 .. i - 1 : lines[k].len # 0
        BY <2>4, <4>1
      <4>3. k \in 1 .. n
        BY <1>2, <4>1
      <4> QED BY <1>3, <2>7, <4>2, <4>3
    <3>2. Cardinality(C) = 1
      BY <3>1, FS_Singleton DEF Starts
    <3>3. all.sections = <<>>
      <4>1. Len(all.sections) = 0
        BY <1>4, <2>2, <2>6, <3>2
      <4> QED BY <1>4, <4>1
    <3>4. AllBlank(all.current)
      BY <1>2, <1>3, <2>2, <2>5, <2>7
    <3> QED BY <1>5, <1>6, <2>7, <3>3, <3>4 DEF sections
  <2>8. CASE ~ AllBlank(lines)
    <3>1. ~ AllBlank(all.current)
      <4>1. CASE last = 1
        BY <1>3, <2>5, <2>8, <4>1
      <4>2. CASE last # 1
        <5>1. lines[last].len > 0 /\ lines[last] \in Lines
          BY <2>2, <2>4, <4>2 DEF Starts
        <5>2. lines[last].len # 0 /\ last \in last .. n
          BY <1>2, <2>2, <5>1
        <5> QED BY <2>5, <5>2
      <4> QED BY <4>1, <4>2
    <3>2. sections = Append(all.sections, all.current)
      BY <1>5, <3>1
    <3>3. /\ Len(sections) = Len(all.sections) + 1 /\ sections[Len(all.sections) + 1] = all.current
          /\ \A k \in 1 .. Len(all.sections) : sections[k] = all.sections[k]
      BY <1>4, <3>2
    <3>4. SectionAt(lines, last) = all.current
      <4>1. n \in last .. n
        BY <1>2, <2>2
      <4> QED BY <2>2, <4>1, SectionEnds DEF n
    <3>5. Len(sections) = Cardinality(C)
      BY <2>2, <2>6, <3>3
    <3>6. ASSUME NEW i \in C PROVE sections[Cardinality(UpTo(C, i))] = SectionAt(lines, i)
      <4>1. CASE i = last
        BY <2>2, <3>3, <3>4, <4>1
      <4>2. CASE i # last
        BY <2>3, <2>6, <3>3, <4>2
      <4> QED BY <4>1, <4>2
    <3> QED BY <1>6, <2>8, <3>5, <3>6 DEF sections
  <2> QED BY <2>7, <2>8
<1> QED BY <1>7, <1>8

(* What the filter keeps.                                                    *)
LongTurn(kept, section) == IF TrimmedLen(section) > MinSection THEN Append(kept, section) ELSE kept

LongRun(run, X, sections) ==
  /\ run[0] = <<>>
  /\ \A i \in 0 .. Len(sections) : run[i] \in Seq(X)
  /\ \A i \in 1 .. Len(sections) : run[i] = LongTurn(run[i - 1], sections[i])

LEMMA LongRunExists ==
  ASSUME NEW X, NEW sections \in Seq(X)
  PROVE  \E run : LongRun(run, X, sections) /\ LongSections(sections) = run[Len(sections)]
<1> DEFINE n == Len(sections)
           S == Seq(X)
           start == <<>>
           F(f) == [i \in 0 .. n |-> IF i = 0 THEN <<>>
                                     ELSE IF TrimmedLen(sections[i]) > MinSection THEN Append(f[i - 1], sections[i])
                                     ELSE f[i - 1]]
           acc == CHOOSE f : f = F(f)
           turn == [p \in (1 .. n) \X S |-> LongTurn(p[2], sections[p[1]])]
<1>1. n \in Nat /\ \A i \in 1 .. n : sections[i] \in X
  OBVIOUS
<1>2. LongSections(sections) = acc[n]
  BY DEF LongSections
<1> HIDE DEF n
<1>3. start \in S
  OBVIOUS
<1>4. ASSUME NEW a \in S, NEW i \in 1 .. n PROVE LongTurn(a, sections[i]) \in S
  BY <1>1 DEF LongTurn
<1> HIDE DEF S
<1>5. turn \in Turns(n, S)
  BY <1>4 DEF Turns
<1>6. \E f : f = F(f) /\ IsRun(f, n, S, start, turn)
  <2> HIDE DEF turn, start
  <2>1. PICK f : IsRun(f, n, S, start, turn)
    BY <1>1, <1>3, <1>5, RunExists
  <2>2. \A i \in 1 .. n : i - 1 \in 0 .. n /\ f[i - 1] \in S
    BY <1>1, <2>1 DEF IsRun
  <2>3. \A i \in 1 .. n : turn[<<i, f[i - 1]>>] = LongTurn(f[i - 1], sections[i])
    BY <2>2 DEF turn
  <2>4. \A i \in 0 .. n : i = 0 \/ i \in 1 .. n
    OBVIOUS
  <2>5. f = F(f)
    <3>1. f = [i \in 0 .. n |-> f[i]]
      BY <2>1 DEF IsRun
    <3>2. \A i \in 0 .. n : f[i] = F(f)[i]
      <4>1. F(f)[0] = f[0]
        BY <1>1, <2>1 DEF IsRun, start
      <4>2. ASSUME NEW i \in 1 .. n PROVE F(f)[i] = f[i]
        <5>1. i \in 0 .. n /\ i # 0
          BY <1>1
        <5>2. F(f)[i] = LongTurn(f[i - 1], sections[i])
          BY <5>1 DEF LongTurn
        <5> QED BY <2>1, <2>3, <5>2 DEF IsRun
      <4> QED BY <2>4, <4>1, <4>2
    <3> QED BY <3>1, <3>2
  <2> QED BY <2>1, <2>5
<1>7. acc = F(acc)
  BY <1>6
<1> HIDE DEF acc
<1>8. acc[0] = start /\ \A i \in 1 .. n : acc[i] = LongTurn(acc[i - 1], sections[i])
  <2>1. acc[0] = start
    BY <1>1, <1>7
  <2>2. ASSUME NEW i \in 1 .. n PROVE acc[i] = LongTurn(acc[i - 1], sections[i])
    <3>1. i \in 0 .. n /\ i # 0
      BY <1>1
    <3>2. acc[i] = F(acc)[i]
      BY <1>7
    <3> QED BY <3>1, <3>2 DEF LongTurn
  <2> QED BY <2>1, <2>2
<1> DEFINE Same == {i \in 0 .. n : acc[i] \in S}
<1>9. 0 \in Same
  BY <1>1, <1>3, <1>8
<1>10. ASSUME NEW i \in 1 .. n, i - 1 \in Same PROVE i \in Same
  <2>1. acc[i - 1] \in S /\ i \in 0 .. n
    BY <1>1, <1>10
  <2> QED BY <1>4, <1>8, <2>1
<1> HIDE DEF Same
<1>11. 0 .. n \subseteq Same
  BY <1>1, <1>9, <1>10, StepsReach
<1>12. LongRun(acc, X, sections)
  BY <1>8, <1>11 DEF LongRun, Same, S, n
<1> QED BY <1>2, <1>12 DEF n

LEMMA LongSectionsAre ==
  ASSUME NEW X, NEW sections \in Seq(X)
  PROVE  /\ LongSections(sections) \in Seq(X)
         /\ \A k \in DOMAIN LongSections(sections) : TrimmedLen(LongSections(sections)[k]) > MinSection
         /\ \A i \in DOMAIN sections : TrimmedLen(sections[i]) > MinSection => sections[i] \in ToSet(LongSections(sections))
<1> DEFINE n == Len(sections)
<1>1. PICK run : LongRun(run, X, sections) /\ LongSections(sections) = run[n]
  BY LongRunExists
<1>2. n \in Nat /\ DOMAIN sections = 1 .. n /\ \A i \in 1 .. n : sections[i] \in X
  OBVIOUS
<1> HIDE DEF n
<1> DEFINE Good(i) == /\ \A k \in DOMAIN run[i] : TrimmedLen(run[i][k]) > MinSection
                      /\ \A j \in 1 .. i : TrimmedLen(sections[j]) > MinSection => sections[j] \in ToSet(run[i])
           Same == {i \in 0 .. n : Good(i)}
<1>3. 0 \in Same
  <2>1. run[0] = <<>> /\ DOMAIN run[0] = {} /\ 0 \in 0 .. n
    BY <1>1, <1>2 DEF LongRun
  <2> QED BY <2>1
<1>4. ASSUME NEW i \in 1 .. n, i - 1 \in Same PROVE i \in Same
  <2> DEFINE a == run[i - 1]
             b == run[i]
  <2>1. i - 1 \in 0 .. n /\ i \in 0 .. n /\ Good(i - 1)
    BY <1>2, <1>4
  <2>2. a \in Seq(X) /\ b = LongTurn(a, sections[i]) /\ sections[i] \in X
    BY <1>1, <1>2, <2>1 DEF LongRun, n
  <2>3. \A j \in 1 .. i : j = i \/ j \in 1 .. i - 1
    BY <1>2
  <2>4. CASE TrimmedLen(sections[i]) > MinSection
    <3>1. b = Append(a, sections[i])
      BY <2>2, <2>4 DEF LongTurn
    <3>2. /\ DOMAIN b = 1 .. Len(a) + 1 /\ DOMAIN a = 1 .. Len(a) /\ Len(a) \in Nat
          /\ b[Len(a) + 1] = sections[i] /\ \A k \in 1 .. Len(a) : b[k] = a[k]
      BY <2>2, <3>1
    <3>3. \A k \in 1 .. Len(a) + 1 : k = Len(a) + 1 \/ k \in 1 .. Len(a)
      BY <3>2
    <3>4. sections[i] \in ToSet(b) /\ ToSet(a) \subseteq ToSet(b)
      <4>1. Len(a) + 1 \in DOMAIN b /\ \A k \in DOMAIN a : k \in DOMAIN b /\ b[k] = a[k]
        BY <3>2
      <4> QED BY <3>2, <4>1 DEF ToSet
    <3>5. \A k \in DOMAIN b : TrimmedLen(b[k]) > MinSection
      BY <2>1, <2>4, <3>2, <3>3
    <3>6. \A j \in 1 .. i : TrimmedLen(sections[j]) > MinSection => sections[j] \in ToSet(b)
      BY <2>1, <2>3, <3>4
    <3> QED BY <2>1, <3>5, <3>6
  <2>5. CASE ~ (TrimmedLen(sections[i]) > MinSection)
    <3>1. b = a
      BY <2>2, <2>5 DEF LongTurn
    <3> QED BY <2>1, <2>3, <2>5, <3>1
  <2> QED BY <2>4, <2>5
<1> HIDE DEF Same
<1>5. 0 .. n \subseteq Same
  BY <1>2, <1>3, <1>4, StepsReach
<1>6. n \in 0 .. n
  BY <1>2
<1>7. Good(n) /\ run[n] \in Seq(X)
  BY <1>1, <1>5, <1>6 DEF Same, LongRun, n
<1> QED BY <1>1, <1>2, <1>7

(* The notes of any lines.                                                   *)
NoteCalls == [kind : {"note"}, lines : Seq(Lines)]

(* NoteSectionsAreWhole for notes of any length: the sections are those that  *)
(* begin at the headings, whole and in their order, the short ones are left   *)
(* out, and a summary panics only on the first line of a section that is kept *)
(* (import/markdown.rs).                                                      *)
THEOREM NotesAreSplit ==
  ASSUME input \in NoteCalls
  PROVE  NoteSectionsAreWhole
<1> DEFINE lines == input.lines
           sections == SplitByHeadings(lines)
           kept == LongSections(sections)
           note == ParseNote(lines)
           starts == Starts(lines)
<1>1. lines \in Seq(Lines)
  BY DEF NoteCalls
<1>2. note.sections = kept /\ (note.panic <=> \E i \in DOMAIN kept : SummaryPanics(FirstLine(kept[i])))
  BY DEF ParseNote
<1> HIDE DEF lines, note
<1>3. /\ sections \in Seq(Seq(Lines))
      /\ AllBlank(lines) => sections = <<>>
      /\ ~ AllBlank(lines) =>
           Len(sections) = Cardinality(starts) /\ \A i \in starts : sections[Cardinality(UpTo(starts, i))] = SectionAt(lines, i)
  BY <1>1, SplitIs
<1>4. ~ AllBlank(lines) =>
        /\ Len(sections) = Cardinality(starts)
        /\ \A i \in starts : sections[Cardinality({k \in starts : k <= i})] = SectionAt(lines, i)
  BY <1>3 DEF UpTo
<1> HIDE DEF sections, starts
<1>5. /\ kept \in Seq(Seq(Lines)) /\ \A k \in DOMAIN kept : TrimmedLen(kept[k]) > MinSection
      /\ \A i \in DOMAIN sections : TrimmedLen(sections[i]) > MinSection => sections[i] \in ToSet(kept)
  BY <1>3, LongSectionsAre
<1> HIDE DEF kept
<1>6. \A s \in ToSet(sections) \ ToSet(note.sections) : ~ (TrimmedLen(s) > MinSection)
  BY <1>2, <1>5 DEF ToSet
<1>7. ASSUME note.panic
      PROVE  \E s \in ToSet(note.sections) : \E i \in DOMAIN s : s[i].splits /\ AllBlank(SubSeq(s, 1, i - 1))
  <2>1. PICK p \in DOMAIN kept : SummaryPanics(FirstLine(kept[p]))
    BY <1>2, <1>7
  <2> DEFINE s == kept[p]
             places == {i \in DOMAIN s : ~ IsBlank(s[i])}
             first == Min(places)
  <2>2. s \in Seq(Lines) /\ s \in ToSet(note.sections)
    BY <1>2, <1>5 DEF ToSet
  <2>3. TrimmedLen(s) > MinSection /\ FirstLine(s).splits
    BY <1>5, <2>1 DEF SummaryPanics
  <2> HIDE DEF s
  <2>4. DOMAIN s = 1 .. Len(s) /\ Len(s) \in Nat
    BY <2>2
  <2>5. places # {}
    <3> SUFFICES ASSUME places = {} PROVE FALSE
      OBVIOUS
    <3>1. TrimmedLen(s) = 0
      BY Zenon DEF TrimmedLen
    <3> QED BY <2>3, <3>1 DEF MinSection
  <2>6. places \subseteq Nat
    BY <2>4
  <2>7. FirstLine(s) = s[first]
    BY DEF FirstLine
  <2>8. PICK m \in places : \A k \in places : m <= k
    BY <2>5, <2>6, LeastNatural
  <2>9. first \in places /\ \A k \in places : first <= k
    BY <2>8 DEF Min
  <2> HIDE DEF first
  <2>10. first \in DOMAIN s /\ first \in 1 .. Len(s)
    BY <2>4, <2>9
  <2>11. \A k \in 1 .. first - 1 : s[k].len = 0
    <3> SUFFICES ASSUME NEW k \in 1 .. first - 1, s[k].len # 0 PROVE FALSE
      OBVIOUS
    <3>1. k \in DOMAIN s /\ ~ (first <= k)
      BY <2>4, <2>10
    <3> QED BY <2>9, <3>1 DEF IsBlank
  <2>12. AllBlank(SubSeq(s, 1, first - 1))
    <3>1. 1 \in 1 .. Len(s) + 1 /\ first - 1 \in 1 - 1 .. Len(s)
      BY <2>4, <2>10
    <3> QED BY <2>2, <2>11, <3>1, PartIs
  <2> QED BY <2>2, <2>3, <2>7, <2>10, <2>12
<1> QED BY <1>3, <1>4, <1>6, <1>7, Zenon DEF NoteSectionsAreWhole, lines, sections, note, starts

--------------------------------------------------------------------------------
(* The redaction of secrets.                                                 *)

(* A stable sort by descending keys: what comes in front of i, and its turn. *)
Ahead(key, n, i) == {j \in 1 .. n : key[j] > key[i] \/ (key[j] = key[i] /\ j < i)}
TurnOf(key, n, i) == 1 + Cardinality(Ahead(key, n, i))

LEMMA TurnsOrder ==
  ASSUME NEW n \in Nat, NEW key \in [1 .. n -> Int], NEW i \in 1 .. n, NEW j \in 1 .. n
  PROVE  /\ IsFiniteSet(Ahead(key, n, i)) /\ Cardinality(Ahead(key, n, i)) \in 0 .. n - 1
         /\ i \in Ahead(key, n, j) => TurnOf(key, n, i) < TurnOf(key, n, j)
         /\ i = j \/ i \in Ahead(key, n, j) \/ j \in Ahead(key, n, i)
<1>1. \A k \in 1 .. n : key[k] \in Int /\ k \in Nat
  OBVIOUS
<1>2. IsFiniteSet(1 .. n) /\ Cardinality(1 .. n) = n
  BY FS_Interval
<1>3. ASSUME NEW k \in 1 .. n
      PROVE  k \notin Ahead(key, n, k) /\ IsFiniteSet(Ahead(key, n, k)) /\ Cardinality(Ahead(key, n, k)) \in 0 .. n - 1
  <2>1. k \notin Ahead(key, n, k)
    BY <1>1 DEF Ahead
  <2>2. Ahead(key, n, k) \subseteq (1 .. n) \ {k}
    BY <2>1 DEF Ahead
  <2>3. IsFiniteSet((1 .. n) \ {k}) /\ Cardinality((1 .. n) \ {k}) = n - 1
    BY <1>2, FS_RemoveElement
  <2>4. /\ IsFiniteSet(Ahead(key, n, k)) /\ Cardinality(Ahead(key, n, k)) <= n - 1
        /\ Cardinality(Ahead(key, n, k)) \in Nat
    BY <2>2, <2>3, FS_Subset, FS_CardinalityType
  <2> QED BY <2>1, <2>4
<1>4. ASSUME i \in Ahead(key, n, j)
      PROVE  TurnOf(key, n, i) < TurnOf(key, n, j)
  <2>1. Ahead(key, n, i) \subseteq Ahead(key, n, j)
    BY <1>1, <1>4 DEF Ahead
  <2>2. /\ Cardinality(Ahead(key, n, i)) <= Cardinality(Ahead(key, n, j))
        /\ Cardinality(Ahead(key, n, i)) # Cardinality(Ahead(key, n, j))
    BY <1>3, <1>4, <2>1, FS_Subset
  <2> QED BY <1>3, <2>2 DEF TurnOf
<1>5. i = j \/ i \in Ahead(key, n, j) \/ j \in Ahead(key, n, i)
  BY <1>1 DEF Ahead
<1> QED BY <1>3, <1>4, <1>5

(* Each place of the sorted sequence is the turn of exactly one index.       *)
LEMMA TurnsAre ==
  ASSUME NEW n \in Nat, NEW key \in [1 .. n -> Int]
  PROVE  /\ \A i \in 1 .. n : TurnOf(key, n, i) \in 1 .. n
         /\ \A i, j \in 1 .. n : TurnOf(key, n, i) = TurnOf(key, n, j) => i = j
         /\ \A k \in 1 .. n : \E i \in 1 .. n : TurnOf(key, n, i) = k
<1> DEFINE D == 1 .. n
           f == [i \in D |-> TurnOf(key, n, i)]
<1>1. \A i \in D : TurnOf(key, n, i) \in D
  BY TurnsOrder DEF TurnOf
<1>2. \A i, j \in D : TurnOf(key, n, i) = TurnOf(key, n, j) => i = j
  <2> SUFFICES ASSUME NEW i \in D, NEW j \in D, TurnOf(key, n, i) = TurnOf(key, n, j) PROVE i = j
    OBVIOUS
  <2>1. TurnOf(key, n, i) \in Nat
    BY <1>1
  <2>2. ~ (TurnOf(key, n, i) < TurnOf(key, n, j)) /\ ~ (TurnOf(key, n, j) < TurnOf(key, n, i))
    BY <2>1
  <2> QED BY <2>2, TurnsOrder
<1>3. IsFiniteSet(D)
  BY FS_Interval
<1> HIDE DEF D
<1>4. f \in [D -> D]
  BY <1>1
<1>5. \A i, j \in D : f[i] = f[j] => i = j
  BY <1>2
<1> HIDE DEF f
<1>6. f \in Injection(D, D)
  BY <1>4, <1>5, Fun_IsInj
<1>7. f \in Surjection(D, D)
  BY <1>3, <1>6, FS_Injection
<1>8. \A k \in D : \E i \in D : f[i] = k
  BY <1>7, Fun_SurjectionProperties
<1> QED BY <1>1, <1>2, <1>8 DEF f, D

(* The matches of patterns in a text of n characters.                        *)
MatchesIn(n) == {m \in [pattern : 1 .. Len(MarkerLen), start : Nat, end : Nat] : m.start < m.end /\ m.end <= n}

(* The order in which they are replaced.                                     *)
IsOrder(order, sorted, matches) ==
  /\ \A k \in DOMAIN matches : order[k] \in DOMAIN matches /\ sorted[k] = matches[order[k]]
  /\ \A i \in DOMAIN matches : \E k \in DOMAIN matches : order[k] = i
  /\ \A k, l \in DOMAIN matches : k < l => order[k] # order[l] /\ sorted[k].start >= sorted[l].start

LEMMA SortedIs ==
  ASSUME NEW size \in Nat, NEW matches \in Seq(MatchesIn(size))
  PROVE  \E order : IsOrder(order, SortedMatches(matches), matches)
<1> DEFINE n == Len(matches)
           D == DOMAIN matches
           key == [i \in 1 .. n |-> matches[i].start]
           order == [k \in 1 .. n |-> CHOOSE i \in D : TurnOf(key, n, i) = k]
           sorted == SortedMatches(matches)
<1>1. n \in Nat /\ D = 1 .. n /\ \A i \in D : matches[i] \in MatchesIn(size)
  OBVIOUS
<1>2. key \in [1 .. n -> Int] /\ \A i \in 1 .. n : key[i] \in Nat
  BY <1>1 DEF MatchesIn
<1>3. \A k \in 1 .. n : order[k] \in D /\ TurnOf(key, n, order[k]) = k
  <2> SUFFICES ASSUME NEW k \in 1 .. n PROVE order[k] \in D /\ TurnOf(key, n, order[k]) = k
    OBVIOUS
  <2>1. \E i \in 1 .. n : TurnOf(key, n, i) = k
    <3> HIDE DEF key, n
    <3> QED BY <1>1, <1>2, TurnsAre
  <2>2. \E i \in D : TurnOf(key, n, i) = k
    BY <1>1, <2>1
  <2> QED BY <2>2
<1>4. \A k \in 1 .. n : sorted[k] = matches[order[k]]
  <2>1. ASSUME NEW i \in D
        PROVE  TurnOf(key, n, i) = 1 + Cardinality({j \in D : \/ matches[j].start > matches[i].start
                                                              \/ matches[j].start = matches[i].start /\ j < i})
    <3>1. Ahead(key, n, i) = {j \in D : \/ matches[j].start > matches[i].start
                                        \/ matches[j].start = matches[i].start /\ j < i}
      BY <1>1 DEF Ahead
    <3> QED BY <3>1 DEF TurnOf
  <2>2. ASSUME NEW k \in 1 .. n PROVE sorted[k] = matches[order[k]]
    <3> DEFINE Turn(i) == 1 + Cardinality({j \in D : \/ matches[j].start > matches[i].start
                                                     \/ matches[j].start = matches[i].start /\ j < i})
    <3>1. sorted[k] = matches[CHOOSE i \in D : Turn(i) = k]
      BY DEF SortedMatches
    <3>2. \A i \in D : Turn(i) = TurnOf(key, n, i)
      BY <2>1
    <3> HIDE DEF Turn, sorted, key
    <3>3. (CHOOSE i \in D : Turn(i) = k) = CHOOSE i \in D : TurnOf(key, n, i) = k
      BY <3>2
    <3> QED BY <3>1, <3>3
  <2> QED BY <2>2
<1> HIDE DEF sorted, order
<1>5. ASSUME NEW i \in D PROVE \E k \in D : order[k] = i
  <2>1. TurnOf(key, n, i) \in 1 .. n
    BY <1>1, <1>2, TurnsAre
  <2>2. \A a, b \in 1 .. n : TurnOf(key, n, a) = TurnOf(key, n, b) => a = b
    <3> HIDE DEF key, n
    <3> QED BY <1>1, <1>2, TurnsAre
  <2> HIDE DEF key
  <2>3. order[TurnOf(key, n, i)] = i
    <3>1. order[TurnOf(key, n, i)] \in 1 .. n /\ TurnOf(key, n, order[TurnOf(key, n, i)]) = TurnOf(key, n, i)
      BY <1>1, <1>3, <2>1
    <3> QED BY <1>1, <2>2, <3>1
  <2> QED BY <1>1, <2>1, <2>3
<1>6. ASSUME NEW k \in D, NEW l \in D, k < l PROVE order[k] # order[l] /\ sorted[k].start >= sorted[l].start
  <2> DEFINE i == order[k]
             j == order[l]
  <2>1. i \in 1 .. n /\ j \in 1 .. n /\ TurnOf(key, n, i) = k /\ TurnOf(key, n, j) = l /\ k \in Nat /\ l \in Nat
    BY <1>1, <1>3
  <2>2. key[i] = sorted[k].start /\ key[j] = sorted[l].start /\ key[i] \in Nat /\ key[j] \in Nat
    BY <1>1, <1>2, <1>4, <2>1
  <2> HIDE DEF key, i, j
  <2>3. i # j
    BY <1>6, <2>1
  <2>4. ~ (j \in Ahead(key, n, i))
    <3>1. j \in Ahead(key, n, i) => TurnOf(key, n, j) < TurnOf(key, n, i)
      BY <1>1, <1>2, <2>1, TurnsOrder
    <3> QED BY <1>6, <2>1, <3>1
  <2>5. i \in Ahead(key, n, j)
    <3>1. i = j \/ i \in Ahead(key, n, j) \/ j \in Ahead(key, n, i)
      BY <1>1, <1>2, <2>1, TurnsOrder
    <3> QED BY <2>3, <2>4, <3>1
  <2>6. key[i] >= key[j]
    BY <2>2, <2>5 DEF Ahead
  <2> QED BY <2>2, <2>3, <2>6 DEF i, j
<1> QED BY <1>1, <1>3, <1>4, <1>5, <1>6 DEF IsOrder, sorted

(* The halves of a concatenation.                                            *)
LEMMA Halves ==
  ASSUME NEW X, NEW s \in Seq(X), NEW t \in Seq(X)
  PROVE  /\ SubSeq(s \o t, 1, Len(s)) = s
         /\ SubSeq(s \o t, Len(s) + 1, Len(s \o t)) = t
<1> DEFINE w == s \o t
           a == Len(s)
           b == Len(t)
<1>1. /\ w \in Seq(X) /\ Len(w) = a + b /\ a \in Nat /\ b \in Nat
      /\ \A i \in 1 .. a + b : w[i] = IF i <= a THEN s[i] ELSE t[i - a]
      /\ \A i \in 1 .. a + b : w[i] \in X
  BY ConcatProperties
<1> HIDE DEF w
<1>2. SubSeq(w, 1, a) = s
  <2> DEFINE p == SubSeq(w, 1, a)
  <2>1. \A i \in 1 .. a : w[i] \in X
    BY <1>1
  <2>2. p \in Seq(X) /\ Len(p) = a /\ \A i \in 1 .. a - 1 + 1 : p[i] = w[1 + i - 1]
    BY <1>1, <2>1, SubSeqProperties
  <2> HIDE DEF p
  <2>3. \A i \in 1 .. Len(p) : p[i] = s[i]
    <3> SUFFICES ASSUME NEW i \in 1 .. a PROVE p[i] = s[i]
      BY <2>2
    <3>1. i \in 1 .. a - 1 + 1 /\ 1 + i - 1 = i /\ i \in 1 .. a + b /\ i <= a
      BY <1>1
    <3>2. p[i] = w[i]
      BY <2>2, <3>1
    <3> QED BY <1>1, <3>1, <3>2
  <2>4. p = s
    BY <2>2, <2>3, SeqEqual
  <2> QED BY <2>4 DEF p
<1>3. SubSeq(w, a + 1, a + b) = t
  <2> DEFINE p == SubSeq(w, a + 1, a + b)
             m == a + 1
             n == a + b
  <2>1. m \in Int /\ n \in Int /\ \A i \in m .. n : w[i] \in X
    BY <1>1
  <2>2. p \in Seq(X) /\ Len(p) = (IF m <= n THEN n - m + 1 ELSE 0) /\ \A i \in 1 .. n - m + 1 : p[i] = w[m + i - 1]
    <3> HIDE DEF m, n
    <3>1. LET q == SubSeq(w, m, n)
          IN  q \in Seq(X) /\ Len(q) = (IF m <= n THEN n - m + 1 ELSE 0) /\ \A i \in 1 .. n - m + 1 : q[i] = w[m + i - 1]
      BY <2>1, SubSeqProperties
    <3> QED BY <3>1 DEF m, n
  <2> HIDE DEF p
  <2>3. Len(p) = b
    BY <1>1, <2>2
  <2>4. \A i \in 1 .. Len(p) : p[i] = t[i]
    <3> SUFFICES ASSUME NEW i \in 1 .. b PROVE p[i] = t[i]
      BY <2>3
    <3>1. i \in 1 .. n - m + 1 /\ m + i - 1 = a + i /\ a + i \in 1 .. a + b /\ ~ (a + i <= a) /\ a + i - a = i
      BY <1>1
    <3>2. p[i] = w[m + i - 1]
      BY <2>2, <3>1
    <3>3. w[a + i] = t[a + i - a]
      BY <1>1, <3>1
    <3>4. p[i] = w[a + i]
      BY <3>1, <3>2
    <3> QED BY <3>1, <3>3, <3>4
  <2>5. p = t
    BY <2>2, <2>3, <2>4, SeqEqual
  <2> QED BY <2>5 DEF p
<1> QED BY <1>1, <1>2, <1>3 DEF w

(* Texts, markers and what is scanned.                                       *)
Chars == ({"char"} \X Nat) \cup ({"marker"} \X Nat)

LEMMA MarkerIs ==
  ASSUME NEW p \in 1 .. Len(MarkerLen)
  PROVE  Marker(p) \in Seq(Chars)
<1>1. p \in Nat /\ MarkerLen[p] \in Nat
  BY SecretAssumption
<1>2. <<"marker", p>> \in Chars
  BY <1>1 DEF Chars
<1> DEFINE m == MarkerLen[p]
           c == <<"marker", p>>
           marker == [i \in 1 .. m |-> c]
<1>3. m \in Nat /\ c \in Chars
  BY <1>1, <1>2
<1>4. Marker(p) = marker
  BY DEF Marker
<1> HIDE DEF m, c
<1>5. marker \in Seq(Chars)
  BY <1>3
<1> QED BY <1>4, <1>5

LEMMA TextIs ==
  ASSUME NEW n \in Nat
  PROVE  TextOf(n) \in Seq(Chars) /\ Len(TextOf(n)) = n
<1>1. \A i \in 1 .. n : <<"char", i>> \in Chars
  BY DEF Chars
<1> QED BY <1>1 DEF TextOf

HitsIn(n) == [1 .. Len(MarkerLen) -> Seq({s \in Nat \X Nat : s[1] < s[2] /\ s[2] <= n})]

LEMMA ScanIs ==
  ASSUME NEW size \in Nat, NEW hits \in HitsIn(size)
  PROVE  Scan(hits) \in Seq(MatchesIn(size)) /\ (Scan(hits) = <<>> <=> ~ HasSecrets(hits))
<1> DEFINE n == Len(MarkerLen)
           S == Seq(MatchesIn(size))
           start == <<>>
           Found(p) == [i \in 1 .. Len(hits[p]) |-> [pattern |-> p, start |-> hits[p][i][1], end |-> hits[p][i][2]]]
           F(f) == [p \in 0 .. n |-> IF p = 0 THEN <<>>
                                     ELSE f[p - 1] \o Found(p)]
           acc == CHOOSE f : f = F(f)
           turn == [q \in (1 .. n) \X S |-> q[2] \o Found(q[1])]
<1>1. n \in Nat /\ DOMAIN MarkerLen = 1 .. n
  BY SecretAssumption
<1>2. Scan(hits) = acc[n]
  BY DEF Scan
<1>3. ASSUME NEW p \in 1 .. n
      PROVE  Found(p) \in S /\ (Found(p) = <<>> <=> hits[p] = <<>>)
  <2> DEFINE Span == {s \in Nat \X Nat : s[1] < s[2] /\ s[2] <= size}
             found == Found(p)
  <2>1. hits[p] \in Seq(Span)
    BY DEF HitsIn
  <2>2. \A s \in Span : [pattern |-> p, start |-> s[1], end |-> s[2]] \in MatchesIn(size)
    BY DEF MatchesIn
  <2>3. \A i \in 1 .. Len(hits[p]) : hits[p][i] \in Span
    BY <2>1
  <2> HIDE DEF Span
  <2>4. \A i \in 1 .. Len(hits[p]) : [pattern |-> p, start |-> hits[p][i][1], end |-> hits[p][i][2]] \in MatchesIn(size)
    BY <2>2, <2>3
  <2>5. found \in S /\ Len(found) = Len(hits[p])
    BY <2>1, <2>4
  <2> HIDE DEF found
  <2>6. found = <<>> <=> hits[p] = <<>>
    BY <2>1, <2>5
  <2> QED BY <2>5, <2>6 DEF found
<1> HIDE DEF n
<1>4. start \in S
  OBVIOUS
<1>5. ASSUME NEW a \in S, NEW p \in 1 .. n PROVE a \o Found(p) \in S
  <2> HIDE DEF Found
  <2> QED BY <1>3
<1> HIDE DEF S, Found
<1>6. turn \in Turns(n, S)
  BY <1>5 DEF Turns
<1>7. \E f : f = F(f) /\ IsRun(f, n, S, start, turn)
  <2> HIDE DEF turn, start
  <2>1. PICK f : IsRun(f, n, S, start, turn)
    BY <1>1, <1>4, <1>6, RunExists
  <2>2. \A i \in 1 .. n : i - 1 \in 0 .. n /\ f[i - 1] \in S
    BY <1>1, <2>1 DEF IsRun
  <2>3. \A i \in 1 .. n : turn[<<i, f[i - 1]>>] = f[i - 1] \o Found(i)
    BY <2>2 DEF turn
  <2>4. \A i \in 0 .. n : i = 0 \/ i \in 1 .. n
    OBVIOUS
  <2>5. f = F(f)
    <3>1. f = [i \in 0 .. n |-> f[i]]
      BY <2>1 DEF IsRun
    <3>2. \A i \in 0 .. n : f[i] = F(f)[i]
      <4>1. F(f)[0] = f[0]
        BY <1>1, <2>1 DEF IsRun, start
      <4>2. ASSUME NEW i \in 1 .. n PROVE F(f)[i] = f[i]
        <5>1. i \in 0 .. n /\ i # 0
          BY <1>1
        <5>2. F(f)[i] = f[i - 1] \o Found(i)
          BY <5>1, Zenon
        <5> QED BY <2>1, <2>3, <5>2 DEF IsRun
      <4> QED BY <2>4, <4>1, <4>2
    <3> QED BY <3>1, <3>2
  <2> QED BY <2>1, <2>5
<1>8. acc = F(acc)
  BY <1>7
<1> HIDE DEF acc
<1>9. acc[0] = start /\ \A i \in 1 .. n : acc[i] = acc[i - 1] \o Found(i)
  <2>1. acc[0] = start
    BY <1>1, <1>8
  <2>2. ASSUME NEW i \in 1 .. n PROVE acc[i] = acc[i - 1] \o Found(i)
    <3>1. i \in 0 .. n /\ i # 0
      BY <1>1
    <3>2. acc[i] = F(acc)[i]
      BY <1>8
    <3>3. F(acc)[i] = acc[i - 1] \o Found(i)
      BY <3>1, Zenon
    <3> HIDE DEF F
    <3> QED BY <3>2, <3>3, Zenon
  <2> QED BY <2>1, <2>2
<1> DEFINE Same == {i \in 0 .. n : acc[i] \in S /\ (acc[i] = <<>> <=> \A p \in 1 .. i : hits[p] = <<>>)}
<1>10. 0 \in Same
  <2>1. 0 \in 0 .. n /\ 1 .. 0 = {}
    BY <1>1
  <2> QED BY <1>4, <1>9, <2>1
<1>11. ASSUME NEW i \in 1 .. n, i - 1 \in Same PROVE i \in Same
  <2>1. acc[i - 1] \in S /\ i \in 0 .. n /\ (acc[i - 1] = <<>> <=> \A p \in 1 .. i - 1 : hits[p] = <<>>)
    BY <1>1, <1>11
  <2>2. Found(i) \in S /\ (Found(i) = <<>> <=> hits[i] = <<>>)
    BY <1>3
  <2>3. acc[i] = acc[i - 1] \o Found(i)
    BY <1>9
  <2> HIDE DEF Found
  <2>4. acc[i] = <<>> <=> acc[i - 1] = <<>> /\ Found(i) = <<>>
    BY <2>1, <2>2, <2>3, ConcatEqualIffEmpty DEF S
  <2>5. \A p \in 1 .. i : p = i \/ p \in 1 .. i - 1
    BY <1>1
  <2>6. i \in 1 .. i /\ \A p \in 1 .. i - 1 : p \in 1 .. i
    BY <1>1
  <2>7. acc[i] \in S
    BY <1>5, <2>1, <2>3 DEF Found
  <2> QED BY <2>1, <2>2, <2>4, <2>5, <2>6, <2>7
<1> HIDE DEF Same
<1>12. 0 .. n \subseteq Same
  BY <1>1, <1>10, <1>11, StepsReach
<1>13. n \in 0 .. n
  BY <1>1
<1>14. acc[n] \in S /\ (acc[n] = <<>> <=> \A p \in 1 .. n : hits[p] = <<>>)
  BY <1>12, <1>13 DEF Same
<1> QED BY <1>1, <1>2, <1>14 DEF S, HasSecrets, Pattern

(* What has been replaced after some of the matches.                         *)
RedactStates == [text : Seq(Chars), panic : BOOLEAN]

LEMMA ReplaceRangeType ==
  ASSUME NEW size \in Nat, NEW a \in RedactStates, NEW m \in MatchesIn(size)
  PROVE  /\ ReplaceRange(a, m) \in RedactStates
         /\ (a.panic \/ m.end > Len(a.text)) => ReplaceRange(a, m).panic /\ ReplaceRange(a, m).text = a.text
         /\ ~ (a.panic \/ m.end > Len(a.text)) =>
              /\ ReplaceRange(a, m).text = SubSeq(a.text, 1, m.start) \o Marker(m.pattern) \o SubSeq(a.text, m.end + 1, Len(a.text))
              /\ ~ ReplaceRange(a, m).panic
<1> DEFINE T == Seq(Chars)
           new == SubSeq(a.text, 1, m.start) \o Marker(m.pattern) \o SubSeq(a.text, m.end + 1, Len(a.text))
           b == ReplaceRange(a, m)
<1>1. a.text \in T /\ Len(a.text) \in Nat /\ a.panic \in BOOLEAN
  BY DEF RedactStates
<1>2. m.pattern \in 1 .. Len(MarkerLen) /\ m.start \in Nat /\ m.end \in Nat /\ m.start < m.end
  BY DEF MatchesIn
<1>3. b = IF a.panic \/ m.end > Len(a.text) THEN [a EXCEPT !.panic = TRUE] ELSE [a EXCEPT !.text = new]
  BY DEF ReplaceRange
<1>4. ASSUME ~ (a.panic \/ m.end > Len(a.text)) PROVE new \in T
  <2>1. m.start \in 0 .. Len(a.text) /\ m.end \in 0 .. Len(a.text)
    BY <1>1, <1>2, <1>4
  <2>2. /\ \A i \in 1 .. m.start : a.text[i] \in Chars
        /\ \A i \in m.end + 1 .. Len(a.text) : a.text[i] \in Chars
    BY <1>1, <2>1
  <2>3. SubSeq(a.text, 1, m.start) \in T
    BY <1>2, <2>2, SubSeqProperties
  <2>4. SubSeq(a.text, m.end + 1, Len(a.text)) \in T
    <3>1. m.end + 1 \in Int /\ Len(a.text) \in Int
      BY <1>1, <1>2
    <3> QED BY <2>2, <3>1, SubSeqProperties
  <2>5. Marker(m.pattern) \in T
    BY <1>2, MarkerIs
  <2> QED BY <2>3, <2>4, <2>5, ConcatProperties
<1> HIDE DEF new, b, T
<1>5. a \in [text : T, panic : BOOLEAN]
  BY DEF RedactStates, T
<1>6. CASE a.panic \/ m.end > Len(a.text)
  <2>1. b = [a EXCEPT !.panic = TRUE]
    BY <1>3, <1>6
  <2>2. b \in [text : T, panic : BOOLEAN] /\ b.panic /\ b.text = a.text
    BY <1>5, <2>1
  <2> QED BY <1>6, <2>2 DEF RedactStates, T, b
<1>7. CASE ~ (a.panic \/ m.end > Len(a.text))
  <2>1. b = [a EXCEPT !.text = new] /\ new \in T
    BY <1>3, <1>4, <1>7
  <2>2. b \in [text : T, panic : BOOLEAN] /\ b.panic = a.panic /\ b.text = new
    BY <1>5, <2>1
  <2> QED BY <1>7, <2>2 DEF RedactStates, T, b, new
<1> QED BY <1>6, <1>7

RedactRun(run, text, sorted, n) ==
  /\ run[0] = [text |-> text, panic |-> FALSE]
  /\ \A k \in 0 .. n : run[k] \in RedactStates
  /\ \A k \in 1 .. n : run[k] = ReplaceRange(run[k - 1], sorted[k])

LEMMA RedactRunExists ==
  ASSUME NEW size \in Nat, NEW text \in Seq(Chars), NEW matches \in Seq(MatchesIn(size))
  PROVE  \E run : /\ RedactRun(run, text, SortedMatches(matches), Len(matches))
                  /\ Redact(text, matches) = run[Len(matches)]
<1> DEFINE n == Len(matches)
           S == RedactStates
           start == [text |-> text, panic |-> FALSE]
           sorted == SortedMatches(matches)
           F(f) == [k \in 0 .. n |-> IF k = 0 THEN [text |-> text, panic |-> FALSE] ELSE ReplaceRange(f[k - 1], sorted[k])]
           acc == CHOOSE f : f = F(f)
           turn == [q \in (1 .. n) \X S |-> ReplaceRange(q[2], sorted[q[1]])]
<1>1. n \in Nat /\ DOMAIN matches = 1 .. n
  OBVIOUS
<1>2. Redact(text, matches) = acc[n]
  BY DEF Redact
<1> HIDE DEF sorted
<1>3. \A k \in 1 .. n : sorted[k] \in MatchesIn(size)
  <2>1. PICK order : IsOrder(order, sorted, matches)
    BY SortedIs DEF sorted
  <2>2. \A i \in DOMAIN matches : matches[i] \in MatchesIn(size)
    OBVIOUS
  <2> HIDE DEF n
  <2>3. \A k \in DOMAIN matches : order[k] \in DOMAIN matches /\ sorted[k] = matches[order[k]]
    BY <2>1 DEF IsOrder
  <2> QED BY <1>1, <2>2, <2>3
<1> HIDE DEF n
<1>4. start \in S
  BY DEF RedactStates
<1>5. ASSUME NEW a \in S, NEW k \in 1 .. n PROVE ReplaceRange(a, sorted[k]) \in S
  BY <1>3, ReplaceRangeType
<1> HIDE DEF S
<1>6. turn \in Turns(n, S)
  BY <1>5 DEF Turns
<1>7. \E f : f = F(f) /\ IsRun(f, n, S, start, turn)
  <2> HIDE DEF turn, start
  <2>1. PICK f : IsRun(f, n, S, start, turn)
    BY <1>1, <1>4, <1>6, RunExists
  <2>2. \A i \in 1 .. n : i - 1 \in 0 .. n /\ f[i - 1] \in S
    BY <1>1, <2>1 DEF IsRun
  <2>3. \A i \in 1 .. n : turn[<<i, f[i - 1]>>] = ReplaceRange(f[i - 1], sorted[i])
    BY <2>2 DEF turn
  <2>4. \A i \in 0 .. n : i = 0 \/ i \in 1 .. n
    OBVIOUS
  <2>5. f = F(f)
    <3>1. f = [i \in 0 .. n |-> f[i]]
      BY <2>1 DEF IsRun
    <3>2. \A i \in 0 .. n : f[i] = F(f)[i]
      <4>1. F(f)[0] = f[0]
        BY <1>1, <2>1 DEF IsRun, start
      <4>2. ASSUME NEW i \in 1 .. n PROVE F(f)[i] = f[i]
        <5>1. i \in 0 .. n /\ i # 0
          BY <1>1
        <5>2. F(f)[i] = ReplaceRange(f[i - 1], sorted[i])
          BY <5>1
        <5> QED BY <2>1, <2>3, <5>2 DEF IsRun
      <4> QED BY <2>4, <4>1, <4>2
    <3> QED BY <3>1, <3>2
  <2> QED BY <2>1, <2>5
<1>8. acc = F(acc)
  BY <1>7
<1> HIDE DEF acc
<1>9. acc[0] = start /\ \A i \in 1 .. n : acc[i] = ReplaceRange(acc[i - 1], sorted[i])
  <2>1. acc[0] = start
    BY <1>1, <1>8
  <2>2. ASSUME NEW i \in 1 .. n PROVE acc[i] = ReplaceRange(acc[i - 1], sorted[i])
    <3>1. i \in 0 .. n /\ i # 0
      BY <1>1
    <3>2. acc[i] = F(acc)[i]
      BY <1>8
    <3> QED BY <3>1, <3>2
  <2> QED BY <2>1, <2>2
<1> DEFINE Same == {i \in 0 .. n : acc[i] \in S}
<1>10. 0 \in Same
  BY <1>1, <1>4, <1>9
<1>11. ASSUME NEW i \in 1 .. n, i - 1 \in Same PROVE i \in Same
  <2>1. acc[i - 1] \in S /\ i \in 0 .. n
    BY <1>1, <1>11
  <2> QED BY <1>5, <1>9, <2>1
<1> HIDE DEF Same
<1>12. 0 .. n \subseteq Same
  BY <1>1, <1>10, <1>11, StepsReach
<1>13. RedactRun(acc, text, sorted, n)
  BY <1>9, <1>12 DEF RedactRun, Same, S
<1> QED BY <1>2, <1>13 DEF n, sorted

(* What is shown of the first characters.                                    *)
ShownRun(run, text, matches) ==
  /\ run[0] = <<>>
  /\ \A i \in 0 .. Len(text) : run[i] \in Seq(Chars)
  /\ \A i \in 1 .. Len(text) : run[i] = run[i - 1] \o Shown(text, matches, i)

LEMMA ShownRunExists ==
  ASSUME NEW size \in Nat, NEW text \in Seq(Chars), NEW matches \in Seq(MatchesIn(size))
  PROVE  \E run : ShownRun(run, text, matches) /\ Replaced(text, matches) = run[Len(text)]
<1> DEFINE n == Len(text)
           S == Seq(Chars)
           start == <<>>
           F(f) == [i \in 0 .. n |-> IF i = 0 THEN <<>> ELSE f[i - 1] \o Shown(text, matches, i)]
           acc == CHOOSE f : f = F(f)
           turn == [q \in (1 .. n) \X S |-> q[2] \o Shown(text, matches, q[1])]
<1>1. n \in Nat
  OBVIOUS
<1>2. Replaced(text, matches) = acc[n]
  BY DEF Replaced
<1>3. ASSUME NEW i \in 1 .. n PROVE Shown(text, matches, i) \in S
  <2>1. <<text[i]>> \in S /\ <<>> \in S
    OBVIOUS
  <2>2. \A k \in DOMAIN matches : Marker(matches[k].pattern) \in S
    <3>1. \A k \in DOMAIN matches : matches[k].pattern \in 1 .. Len(MarkerLen)
      BY DEF MatchesIn
    <3> QED BY <3>1, MarkerIs
  <2> QED BY <2>1, <2>2 DEF Shown
<1> HIDE DEF n
<1>4. start \in S
  OBVIOUS
<1>5. ASSUME NEW a \in S, NEW i \in 1 .. n PROVE a \o Shown(text, matches, i) \in S
  BY <1>3, ConcatProperties
<1> HIDE DEF S
<1>6. turn \in Turns(n, S)
  BY <1>5 DEF Turns
<1>7. \E f : f = F(f) /\ IsRun(f, n, S, start, turn)
  <2> HIDE DEF turn, start
  <2>1. PICK f : IsRun(f, n, S, start, turn)
    BY <1>1, <1>4, <1>6, RunExists
  <2>2. \A i \in 1 .. n : i - 1 \in 0 .. n /\ f[i - 1] \in S
    BY <1>1, <2>1 DEF IsRun
  <2>3. \A i \in 1 .. n : turn[<<i, f[i - 1]>>] = f[i - 1] \o Shown(text, matches, i)
    BY <2>2 DEF turn
  <2>4. \A i \in 0 .. n : i = 0 \/ i \in 1 .. n
    OBVIOUS
  <2>5. f = F(f)
    <3>1. f = [i \in 0 .. n |-> f[i]]
      BY <2>1 DEF IsRun
    <3>2. \A i \in 0 .. n : f[i] = F(f)[i]
      <4>1. F(f)[0] = f[0]
        BY <1>1, <2>1 DEF IsRun, start
      <4>2. ASSUME NEW i \in 1 .. n PROVE F(f)[i] = f[i]
        <5>1. i \in 0 .. n /\ i # 0
          BY <1>1
        <5>2. F(f)[i] = f[i - 1] \o Shown(text, matches, i)
          BY <5>1, Zenon
        <5> QED BY <2>1, <2>3, <5>2 DEF IsRun
      <4> QED BY <2>4, <4>1, <4>2
    <3> QED BY <3>1, <3>2
  <2> QED BY <2>1, <2>5
<1>8. acc = F(acc)
  BY <1>7
<1> HIDE DEF acc
<1>9. acc[0] = start /\ \A i \in 1 .. n : acc[i] = acc[i - 1] \o Shown(text, matches, i)
  <2>1. acc[0] = start
    BY <1>1, <1>8
  <2>2. ASSUME NEW i \in 1 .. n PROVE acc[i] = acc[i - 1] \o Shown(text, matches, i)
    <3>1. i \in 0 .. n /\ i # 0
      BY <1>1
    <3>2. acc[i] = F(acc)[i]
      BY <1>8
    <3> QED BY <3>1, <3>2
  <2> QED BY <2>1, <2>2
<1> DEFINE Same == {i \in 0 .. n : acc[i] \in S}
<1>10. 0 \in Same
  BY <1>1, <1>4, <1>9
<1>11. ASSUME NEW i \in 1 .. n, i - 1 \in Same PROVE i \in Same
  <2>1. acc[i - 1] \in S /\ i \in 0 .. n
    BY <1>1, <1>11
  <2> QED BY <1>5, <1>9, <2>1
<1> HIDE DEF Same
<1>12. 0 .. n \subseteq Same
  BY <1>1, <1>10, <1>11, StepsReach
<1>13. ShownRun(acc, text, matches)
  BY <1>9, <1>12 DEF ShownRun, Same, S, n
<1> QED BY <1>2, <1>13 DEF n

JoinAnyWay(x, y, z) == (x \o y) \o z = x \o (y \o z)

LEMMA JoinsClosed ==
  ASSUME NEW X, NEW x \in Seq(X), NEW y \in Seq(X), NEW z \in Seq(X)
  PROVE  JoinAnyWay(x, y, z)
<1>1. (x \o y) \o z = x \o (y \o z)
  BY ConcatAssociative, Z3
<1> QED BY <1>1, Zenon DEF JoinAnyWay

LEMMA Joins ==
  \A x, y, z \in Seq(Chars) : (x \o y) \o z = x \o (y \o z) /\ x \o y \in Seq(Chars)
<1> SUFFICES ASSUME NEW x \in Seq(Chars), NEW y \in Seq(Chars), NEW z \in Seq(Chars)
             PROVE  (x \o y) \o z = x \o (y \o z) /\ x \o y \in Seq(Chars)
  OBVIOUS
<1>1. (x \o y) \o z = x \o (y \o z)
  BY ConcatAssociative, Z3
<1> QED BY <1>1, ConcatProperties

(* What each character of a match, and each other character, becomes.       *)
LEMMA ShownIs ==
  ASSUME NEW size \in Nat, NEW text \in Seq(Chars), NEW matches \in Seq(MatchesIn(size)), Disjoint(matches)
  PROVE  /\ \A k \in DOMAIN matches : Shown(text, matches, matches[k].start + 1) = Marker(matches[k].pattern)
         /\ \A k \in DOMAIN matches : \A i \in matches[k].start + 2 .. matches[k].end : Shown(text, matches, i) = <<>>
         /\ \A i \in Nat : ~ Covered(matches, i) => Shown(text, matches, i) = <<text[i]>>
<1>1. \A k \in DOMAIN matches : matches[k] \in MatchesIn(size)
  OBVIOUS
<1>2. \A k \in DOMAIN matches : matches[k].start \in Nat /\ matches[k].end \in Nat /\ matches[k].start < matches[k].end
  BY <1>1 DEF MatchesIn
<1> DEFINE D == DOMAIN matches
<1>3. ASSUME NEW k \in D, NEW l \in D, k # l
      PROVE  matches[k].end <= matches[l].start \/ matches[l].end <= matches[k].start
  BY <1>3 DEF Disjoint
<1> HIDE DEF D
<1>4. ASSUME NEW k \in D PROVE Shown(text, matches, matches[k].start + 1) = Marker(matches[k].pattern)
  <2> DEFINE i == matches[k].start + 1
  <2>1. i - 1 = matches[k].start
    BY <1>2, <1>4 DEF D
  <2>2. \A l \in D : matches[l].start = i - 1 => l = k
    <3> SUFFICES ASSUME NEW l \in D, matches[l].start = matches[k].start, l # k PROVE FALSE
      BY <2>1
    <3>1. matches[k].end <= matches[l].start \/ matches[l].end <= matches[k].start
      BY <1>3
    <3> QED BY <1>2, <3>1 DEF D
  <2> HIDE DEF i
  <2>3. (CHOOSE l \in D : matches[l].start = i - 1) = k
    BY <2>1, <2>2
  <2>4. \E l \in DOMAIN matches : matches[l].start = i - 1
    BY <2>1 DEF D
  <2>5. Shown(text, matches, i) = Marker(matches[CHOOSE l \in DOMAIN matches : matches[l].start = i - 1].pattern)
    BY <2>4 DEF Shown
  <2> QED BY <2>3, <2>5 DEF D, i
<1>5. ASSUME NEW k \in D, NEW i \in matches[k].start + 2 .. matches[k].end PROVE Shown(text, matches, i) = <<>>
  <2>1. i \in Int /\ matches[k].start < i - 1 /\ i - 1 < matches[k].end /\ matches[k].start < i /\ i <= matches[k].end
    BY <1>2 DEF D
  <2>2. ~ \E l \in D : matches[l].start = i - 1
    <3> SUFFICES ASSUME NEW l \in D, matches[l].start = i - 1 PROVE FALSE
      OBVIOUS
    <3>1. k # l
      BY <2>1, <1>2 DEF D
    <3>2. matches[k].end <= matches[l].start \/ matches[l].end <= matches[k].start
      BY <1>3, <3>1
    <3> QED BY <1>2, <2>1, <3>2 DEF D
  <2>3. Covered(matches, i)
    BY <2>1 DEF Covered, D
  <2> QED BY <2>2, <2>3 DEF Shown, D
<1>6. ASSUME NEW i \in Nat, ~ Covered(matches, i) PROVE Shown(text, matches, i) = <<text[i]>>
  <2>1. ~ \E l \in DOMAIN matches : matches[l].start = i - 1
    <3> SUFFICES ASSUME NEW l \in DOMAIN matches, matches[l].start = i - 1 PROVE FALSE
      OBVIOUS
    <3>1. matches[l].start < i /\ i <= matches[l].end
      BY <1>2
    <3> QED BY <1>6, <3>1 DEF Covered
  <2> QED BY <1>6, <2>1 DEF Shown
<1> QED BY <1>4, <1>5, <1>6 DEF D

(* A match turns into its marker.                                            *)
LEMMA MatchIsMarked ==
  ASSUME NEW text \in Seq(Chars), NEW matches \in Seq(MatchesIn(Len(text))), Disjoint(matches),
         NEW run, ShownRun(run, text, matches), NEW k \in DOMAIN matches
  PROVE  run[matches[k].end] = run[matches[k].start] \o Marker(matches[k].pattern)
<1> DEFINE s == matches[k].start
           e == matches[k].end
           marked == run[s] \o Marker(matches[k].pattern)
           d == e - s - 1
           Same == {j \in 0 .. d : run[s + 1 + j] = marked}
<1>1. matches[k] \in MatchesIn(Len(text))
  OBVIOUS
<1>2. s \in Nat /\ e \in Nat /\ s < e /\ e <= Len(text) /\ Len(text) \in Nat /\ d \in Nat
  BY <1>1 DEF MatchesIn
<1>3. /\ Shown(text, matches, s + 1) = Marker(matches[k].pattern)
      /\ \A i \in s + 2 .. e : Shown(text, matches, i) = <<>>
  BY <1>2, ShownIs
<1> HIDE DEF s, e
<1>4. 0 \in Same
  <2>1. s + 1 \in 1 .. Len(text) /\ s + 1 - 1 = s /\ s + 1 + 0 = s + 1 /\ 0 \in 0 .. d
    BY <1>2
  <2> DEFINE i == s + 1
  <2>2. i \in 1 .. Len(text) /\ i - 1 = s
    BY <1>2, <2>1
  <2> HIDE DEF i
  <2>3. run[i] = run[i - 1] \o Shown(text, matches, i)
    BY <2>2 DEF ShownRun
  <2>4. run[i] = run[s] \o Shown(text, matches, i)
    BY <2>2, <2>3
  <2> QED BY <1>3, <2>1, <2>4 DEF i
<1>5. ASSUME NEW j \in 1 .. d, j - 1 \in Same PROVE j \in Same
  <2> DEFINE i == s + 1 + j
  <2>1. i \in 1 .. Len(text) /\ i - 1 \in 0 .. Len(text) /\ i \in s + 2 .. e /\ i - 1 = s + 1 + (j - 1) /\ j \in 0 .. d
    BY <1>2
  <2>2. run[i] = run[i - 1] \o Shown(text, matches, i) /\ run[i - 1] \in Seq(Chars)
    BY <2>1 DEF ShownRun
  <2>3. run[i - 1] \o <<>> = run[i - 1]
    BY <2>2, ConcatEmptySeq
  <2>4. run[i - 1] = marked
    BY <1>5, <2>1
  <2>5. run[i] = marked
    BY <1>3, <2>1, <2>2, <2>3, <2>4
  <2> QED BY <2>1, <2>5
<1> HIDE DEF Same
<1>6. 0 .. d \subseteq Same
  BY <1>2, <1>4, <1>5, StepsReach
<1>7. d \in 0 .. d /\ s + 1 + d = e
  BY <1>2
<1> QED BY <1>6, <1>7 DEF Same, s, e

(* Characters outside all matches stay.                                      *)
LEMMA OthersStay ==
  ASSUME NEW text \in Seq(Chars), NEW matches \in Seq(MatchesIn(Len(text))), Disjoint(matches),
         NEW run, ShownRun(run, text, matches), NEW e \in 0 .. Len(text), NEW s \in e .. Len(text),
         \A i \in e + 1 .. s : ~ Covered(matches, i)
  PROVE  run[s] = run[e] \o SubSeq(text, e + 1, s)
<1> DEFINE d == s - e
           Same == {j \in 0 .. d : run[e + j] = run[e] \o SubSeq(text, e + 1, e + j)}
<1>1. Len(text) \in Nat /\ d \in Nat /\ e \in Nat /\ s \in Nat /\ s <= Len(text)
  OBVIOUS
<1>2. run[e] \in Seq(Chars)
  BY DEF ShownRun
<1>3. 0 \in Same
  <2>1. SubSeq(text, e + 1, e) = <<>>
    BY <1>1, SubSeqEmpty
  <2>2. run[e] \o <<>> = run[e]
    BY <1>2, ConcatEmptySeq
  <2>3. 0 \in 0 .. d /\ e + 0 = e
    BY <1>1
  <2> QED BY <2>1, <2>2, <2>3
<1>4. ASSUME NEW j \in 1 .. d, j - 1 \in Same PROVE j \in Same
  <2> DEFINE i == e + j
  <2>1. i \in 1 .. Len(text) /\ i \in e + 1 .. s /\ i - 1 = e + (j - 1) /\ j \in 0 .. d /\ e + 1 \in 1 .. Len(text) /\ i \in e + 1 .. Len(text) /\ i \in Nat
    BY <1>1
  <2>2. Shown(text, matches, i) = <<text[i]>>
    BY <1>1, <2>1, ShownIs
  <2>3. run[i] = run[i - 1] \o <<text[i]>>
    BY <2>1, <2>2 DEF ShownRun
  <2>4. run[i - 1] = run[e] \o SubSeq(text, e + 1, i - 1)
    BY <1>4, <2>1
  <2> HIDE DEF i
  <2>5. SubSeq(text, e + 1, i) = SubSeq(text, e + 1, i - 1) \o <<text[i]>>
    BY <2>1, SubSeqRecursiveSecond
  <2>6. SubSeq(text, e + 1, i - 1) \in Seq(Chars) /\ <<text[i]>> \in Seq(Chars)
    <3>1. \A c \in e + 1 .. i - 1 : text[c] \in Chars
      BY <1>1, <2>1
    <3>2. e + 1 \in Int /\ i - 1 \in Int
      BY <1>1, <2>1
    <3> QED BY <2>1, <3>1, <3>2, SubSeqProperties
  <2>7. (run[e] \o SubSeq(text, e + 1, i - 1)) \o <<text[i]>> = run[e] \o (SubSeq(text, e + 1, i - 1) \o <<text[i]>>)
    BY <1>2, <2>6, Joins, Zenon
  <2>8. run[i] = run[e] \o SubSeq(text, e + 1, i)
    BY <2>3, <2>4, <2>5, <2>7
  <2> QED BY <2>1, <2>8 DEF i
<1> HIDE DEF Same
<1>5. 0 .. d \subseteq Same
  BY <1>1, <1>3, <1>4, StepsReach
<1>6. d \in 0 .. d /\ e + d = s
  BY <1>1
<1> QED BY <1>5, <1>6 DEF Same

(* A text cut in two, with a tail behind it.                                 *)
LEMMA CutAt ==
  ASSUME NEW text \in Seq(Chars), NEW tail \in Seq(Chars), NEW cut \in 0 .. Len(text), NEW e \in 0 .. cut
  PROVE  /\ SubSeq(text, 1, e) \in Seq(Chars) /\ SubSeq(text, e + 1, cut) \in Seq(Chars) /\ SubSeq(text, 1, cut) \in Seq(Chars)
         /\ Len(SubSeq(text, 1, cut) \o tail) = cut + Len(tail)
         /\ SubSeq(SubSeq(text, 1, cut) \o tail, 1, e) = SubSeq(text, 1, e)
         /\ SubSeq(SubSeq(text, 1, cut) \o tail, e + 1, Len(SubSeq(text, 1, cut) \o tail)) = SubSeq(text, e + 1, cut) \o tail
<1> DEFINE a == SubSeq(text, 1, e)
           b == SubSeq(text, e + 1, cut)
           c == SubSeq(text, 1, cut)
<1>1. \A i \in 1 .. Len(text) : text[i] \in Chars
  OBVIOUS
<1>2. /\ e \in Int /\ cut \in Int /\ 1 \in Int /\ e + 1 \in Int /\ e \in Nat /\ cut \in Nat /\ e <= cut
      /\ \A i \in 1 .. e : i \in 1 .. Len(text)
      /\ \A i \in e + 1 .. cut : i \in 1 .. Len(text)
      /\ \A i \in 1 .. cut : i \in 1 .. Len(text)
  OBVIOUS
<1>3. a \in Seq(Chars) /\ Len(a) = e
  <2>1. a \in Seq(Chars) /\ Len(a) = IF 1 <= e THEN e - 1 + 1 ELSE 0
    BY <1>1, <1>2, SubSeqProperties
  <2> QED BY <1>2, <2>1
<1>4. b \in Seq(Chars)
  BY <1>1, <1>2, SubSeqProperties
<1>5. c \in Seq(Chars) /\ Len(c) = cut
  <2>1. c \in Seq(Chars) /\ Len(c) = IF 1 <= cut THEN cut - 1 + 1 ELSE 0
    BY <1>1, <1>2, SubSeqProperties
  <2> QED BY <1>2, <2>1
<1>6. a \o b = c
  <2>1. 1 \in 1 .. Len(text) + 1 /\ e \in 1 - 1 .. Len(text) /\ cut \in e .. Len(text)
    BY <1>2
  <2> QED BY <2>1, ConcatAdjacentSubSeq
<1> HIDE DEF a, b, c
<1>7. c \o tail = a \o (b \o tail) /\ b \o tail \in Seq(Chars)
  <2>1. (a \o b) \o tail = a \o (b \o tail)
    BY <1>3, <1>4, Joins, Zenon
  <2>2. b \o tail \in Seq(Chars)
    BY <1>4, ConcatProperties
  <2> QED BY <1>6, <2>1, <2>2
<1>8. Len(c \o tail) = cut + Len(tail)
  BY <1>5, ConcatProperties
<1>9. SubSeq(a \o (b \o tail), 1, e) = a /\ SubSeq(a \o (b \o tail), e + 1, Len(a \o (b \o tail))) = b \o tail
  BY <1>3, <1>7, Halves
<1> QED BY <1>3, <1>4, <1>5, <1>7, <1>8, <1>9 DEF a, b, c

CutPlaces(sorted, n, size) == [k \in 0 .. n |-> IF k = 0 THEN size ELSE sorted[k].start]

(* Disjoint matches in their order: each ends where the next one, already    *)
(* replaced, starts, or before, and between them is nothing of any match.    *)
LEMMA CutPlacesAre ==
  ASSUME NEW size \in Nat, NEW matches \in Seq(MatchesIn(size)), Disjoint(matches),
         NEW order, NEW sorted, IsOrder(order, sorted, matches),
         NEW n, n = Len(matches), NEW cut, cut = CutPlaces(sorted, n, size)
  PROVE  /\ \A k \in 0 .. n : cut[k] \in 0 .. size
         /\ \A k \in 1 .. n :
              /\ sorted[k].start = cut[k] /\ cut[k] < sorted[k].end /\ sorted[k].end <= cut[k - 1]
              /\ \A i \in sorted[k].end + 1 .. cut[k - 1] : ~ Covered(matches, i)
         /\ \A i \in 1 .. cut[n] : ~ Covered(matches, i)
<1> DEFINE D == DOMAIN matches
<1>1. n \in Nat /\ D = 1 .. n /\ \A i \in D : matches[i] \in MatchesIn(size)
  OBVIOUS
<1>2. \A k \in D : order[k] \in D /\ sorted[k] = matches[order[k]]
  BY DEF IsOrder
<1>3. /\ \A i \in D : \E k \in D : order[k] = i
      /\ \A k, l \in D : k < l => order[k] # order[l] /\ sorted[k].start >= sorted[l].start
  BY DEF IsOrder
<1>4. \A i, j \in D : i # j => matches[i].end <= matches[j].start \/ matches[j].end <= matches[i].start
  BY DEF Disjoint
<1>5. cut[0] = size /\ \A k \in 1 .. n : cut[k] = sorted[k].start
  <2>1. 0 \in 0 .. n
    BY <1>1
  <2>2. ASSUME NEW k \in 1 .. n PROVE cut[k] = sorted[k].start
    <3>1. k \in 0 .. n /\ k # 0
      BY <1>1
    <3> QED BY <3>1 DEF CutPlaces
  <2> QED BY <2>1, <2>2 DEF CutPlaces
<1>6. \A i \in Int : Covered(matches, i) => \E q \in D : matches[q].start < i /\ i <= matches[q].end
  BY DEF Covered
<1> HIDE DEF D
<1>7. \A k \in D : /\ sorted[k].start \in Nat /\ sorted[k].end \in Nat
                   /\ sorted[k].start < sorted[k].end /\ sorted[k].end <= size
  BY <1>1, <1>2 DEF MatchesIn
<1>8. \A k, l \in D : k < l => sorted[l].end <= sorted[k].start
  <2> SUFFICES ASSUME NEW k \in D, NEW l \in D, k < l PROVE sorted[l].end <= sorted[k].start
    OBVIOUS
  <2>1. order[k] \in D /\ order[l] \in D /\ order[k] # order[l] /\ sorted[k].start >= sorted[l].start
    BY <1>2, <1>3
  <2>2. sorted[k].end <= sorted[l].start \/ sorted[l].end <= sorted[k].start
    BY <1>2, <1>4, <2>1
  <2> QED BY <1>7, <2>1, <2>2
<1>9. ASSUME NEW i \in Int, Covered(matches, i) PROVE \E q \in D : sorted[q].start < i /\ i <= sorted[q].end
  <2>1. PICK p \in D : matches[p].start < i /\ i <= matches[p].end
    BY <1>6, <1>9
  <2>2. PICK q \in D : order[q] = p
    BY <1>3
  <2>3. sorted[q] = matches[p]
    BY <1>2, <2>2
  <2> QED BY <2>1, <2>3
<1>10. \A k \in 0 .. n : cut[k] \in 0 .. size
  <2> SUFFICES ASSUME NEW k \in 0 .. n PROVE cut[k] \in 0 .. size
    OBVIOUS
  <2>1. CASE k = 0
    BY <1>5, <2>1
  <2>2. CASE k # 0
    <3>1. k \in 1 .. n
      BY <1>1, <2>2
    <3> QED BY <1>1, <1>5, <1>7, <3>1
  <2> QED BY <2>1, <2>2
<1>11. ASSUME NEW k \in 1 .. n
       PROVE  /\ sorted[k].start = cut[k] /\ cut[k] < sorted[k].end /\ sorted[k].end <= cut[k - 1]
              /\ \A i \in sorted[k].end + 1 .. cut[k - 1] : ~ Covered(matches, i)
  <2>1. k \in D /\ k \in Nat /\ k > 0
    BY <1>1
  <2>2. sorted[k].end <= cut[k - 1]
    <3>1. CASE k = 1
      BY <1>5, <1>7, <2>1, <3>1
    <3>2. CASE k # 1
      <4>1. k - 1 \in 1 .. n /\ k - 1 \in D /\ k - 1 < k
        BY <1>1, <2>1, <3>2
      <4> QED BY <1>5, <1>8, <2>1, <4>1
    <3> QED BY <3>1, <3>2
  <2>3. ASSUME NEW i \in sorted[k].end + 1 .. cut[k - 1] PROVE ~ Covered(matches, i)
    <3>1. i \in Int /\ sorted[k].end < i /\ i <= cut[k - 1]
      <4>1. k - 1 \in 0 .. n
        BY <1>1
      <4> QED BY <1>7, <1>10, <2>1, <2>3, <4>1
    <3> SUFFICES ASSUME NEW q \in D, sorted[q].start < i, i <= sorted[q].end PROVE FALSE
      BY <1>9, <3>1
    <3>2. q \in Nat
      BY <1>1
    <3>3. CASE q < k
      <4>1. k - 1 \in 1 .. n /\ k - 1 \in D
        BY <1>1, <2>1, <3>2, <3>3
      <4>2. cut[k - 1] <= sorted[q].start
        <5>1. CASE q = k - 1
          BY <1>5, <1>7, <4>1, <5>1
        <5>2. CASE q # k - 1
          <6>1. q < k - 1
            BY <2>1, <3>2, <3>3, <5>2
          <6>2. cut[k - 1] = sorted[k - 1].start
            BY <1>5, <4>1
          <6>3. sorted[k - 1].end <= sorted[q].start
            BY <1>8, <4>1, <6>1
          <6> QED BY <1>7, <4>1, <6>2, <6>3
        <5> QED BY <5>1, <5>2
      <4>3. cut[k - 1] \in Nat
        BY <1>5, <1>7, <4>1
      <4> QED BY <1>7, <3>1, <4>2, <4>3
    <3>4. CASE q = k
      BY <1>7, <3>1, <3>4
    <3>5. CASE k < q
      <4>1. sorted[q].end <= sorted[k].start
        BY <1>8, <2>1, <3>5
      <4> QED BY <1>7, <2>1, <3>1, <4>1
    <3> QED BY <2>1, <3>2, <3>3, <3>4, <3>5
  <2> QED BY <1>5, <1>7, <2>1, <2>2, <2>3
<1>12. ASSUME NEW i \in 1 .. cut[n] PROVE ~ Covered(matches, i)
  <2>1. n \in 0 .. n /\ i \in Int
    BY <1>1
  <2>2. i <= cut[n] /\ cut[n] \in Nat
    BY <1>10, <2>1
  <2> SUFFICES ASSUME NEW q \in D, sorted[q].start < i, i <= sorted[q].end PROVE FALSE
    BY <1>9, <2>1
  <2>3. n \in 1 .. n /\ n \in D /\ q \in Nat /\ q <= n
    BY <1>1
  <2>4. cut[n] = sorted[n].start
    BY <1>5, <2>3
  <2>5. CASE q = n
    BY <1>7, <2>1, <2>2, <2>4, <2>5
  <2>6. CASE q < n
    <3>1. sorted[n].end <= sorted[q].start
      BY <1>8, <2>3, <2>6
    <3> QED BY <1>7, <2>1, <2>2, <2>3, <2>4, <3>1
  <2> QED BY <1>1, <2>3, <2>5, <2>6
<1>13. \A k \in 1 .. n : /\ sorted[k].start = cut[k] /\ cut[k] < sorted[k].end /\ sorted[k].end <= cut[k - 1]
                          /\ \A i \in sorted[k].end + 1 .. cut[k - 1] : ~ Covered(matches, i)
  BY <1>11
<1>14. \A i \in 1 .. cut[n] : ~ Covered(matches, i)
  BY <1>12
<1> QED BY <1>10, <1>13, <1>14, Zenon

(* One replacement, in the text and in what is shown.                        *)
LEMMA OneReplaced ==
  ASSUME NEW text \in Seq(Chars), NEW a \in RedactStates, NEW m \in MatchesIn(Len(text)),
         NEW cut \in 0 .. Len(text), NEW tail \in Seq(Chars), m.end <= cut,
         ~ a.panic, a.text = SubSeq(text, 1, cut) \o tail
  PROVE  /\ ~ ReplaceRange(a, m).panic
         /\ ReplaceRange(a, m).text =
              SubSeq(text, 1, m.start) \o (Marker(m.pattern) \o (SubSeq(text, m.end + 1, cut) \o tail))
         /\ Marker(m.pattern) \o (SubSeq(text, m.end + 1, cut) \o tail) \in Seq(Chars)
<1>1. m.pattern \in 1 .. Len(MarkerLen) /\ m.start \in Nat /\ m.end \in Nat /\ m.start < m.end
  BY DEF MatchesIn
<1>2. m.start \in 0 .. cut /\ m.end \in 0 .. cut /\ cut \in Nat /\ Len(tail) \in Nat
  BY <1>1
<1> DEFINE head == SubSeq(text, 1, m.start)
           middle == SubSeq(text, m.end + 1, cut)
           front == SubSeq(text, 1, cut)
           marker == Marker(m.pattern)
           b == ReplaceRange(a, m)
<1>3. /\ middle \in Seq(Chars) /\ front \in Seq(Chars)
      /\ Len(front \o tail) = cut + Len(tail)
      /\ SubSeq(front \o tail, m.end + 1, Len(front \o tail)) = middle \o tail
  BY <1>2, CutAt
<1>4. head \in Seq(Chars) /\ SubSeq(front \o tail, 1, m.start) = head
  BY <1>2, CutAt
<1>5. marker \in Seq(Chars)
  BY <1>1, MarkerIs
<1>6. ~ (a.panic \/ m.end > Len(a.text))
  BY <1>2, <1>3
<1>7. /\ b.text = SubSeq(a.text, 1, m.start) \o marker \o SubSeq(a.text, m.end + 1, Len(a.text))
      /\ ~ b.panic
  <2> HIDE DEF marker
  <2>1. /\ ReplaceRange(a, m).text = SubSeq(a.text, 1, m.start) \o Marker(m.pattern) \o SubSeq(a.text, m.end + 1, Len(a.text))
        /\ ~ ReplaceRange(a, m).panic
    <3>1. Len(text) \in Nat
      OBVIOUS
    <3> QED BY <1>6, <3>1, ReplaceRangeType
  <2> QED BY <2>1 DEF marker
<1> HIDE DEF head, middle, front, marker, b
<1>8. b.text = (head \o marker) \o (middle \o tail)
  BY <1>3, <1>4, <1>7 DEF front
<1>9. middle \o tail \in Seq(Chars)
  BY <1>3, Joins, Zenon
<1>10. b.text = head \o (marker \o (middle \o tail))
  <2>1. (head \o marker) \o (middle \o tail) = head \o (marker \o (middle \o tail))
    <3> DEFINE z == middle \o tail
    <3>1. z \in Seq(Chars) /\ head \in Seq(Chars) /\ marker \in Seq(Chars)
      BY <1>4, <1>5, <1>9
    <3> HIDE DEF z
    <3>2. JoinAnyWay(head, marker, z)
      BY <3>1, JoinsClosed
    <3>3. (head \o marker) \o z = head \o (marker \o z)
      BY <3>2, Zenon DEF JoinAnyWay
    <3> QED BY <3>3, Zenon DEF z
  <2> QED BY <1>8, <2>1
<1>11. marker \o (middle \o tail) \in Seq(Chars)
  BY <1>5, <1>9, Joins, Zenon
<1> QED BY <1>7, <1>10, <1>11 DEF head, middle, marker, b

Joint(x, y, z, w) == ((x \o y) \o z) \o w = x \o (y \o (z \o w))

LEMMA JoinsTwice ==
  \A x, y, z, w \in Seq(Chars) : Joint(x, y, z, w)
<1> SUFFICES ASSUME NEW x \in Seq(Chars), NEW y \in Seq(Chars), NEW z \in Seq(Chars), NEW w \in Seq(Chars)
             PROVE  Joint(x, y, z, w)
  OBVIOUS
<1> DEFINE u == x \o y
           v == z \o w
<1>1. u \in Seq(Chars)
  BY ONLY x \in Seq(Chars), y \in Seq(Chars), Joins
<1>2. v \in Seq(Chars)
  BY ONLY z \in Seq(Chars), w \in Seq(Chars), Joins
<1>3. (x \o y) \o v = x \o (y \o v)
  <2> HIDE DEF v
  <2> QED BY ONLY x \in Seq(Chars), y \in Seq(Chars), <1>2, Joins
<1>4. (u \o z) \o w = u \o (z \o w)
  <2> HIDE DEF u
  <2> QED BY ONLY z \in Seq(Chars), w \in Seq(Chars), <1>1, Joins
<1> QED BY <1>3, <1>4 DEF Joint

(* Disjoint matches are replaced by their markers and nothing else changes.  *)
LEMMA RedactReplaces ==
  ASSUME NEW text \in Seq(Chars), NEW matches \in Seq(MatchesIn(Len(text))), Disjoint(matches)
  PROVE  ~ Redact(text, matches).panic /\ Redact(text, matches).text = Replaced(text, matches)
<1> DEFINE size == Len(text)
           n == Len(matches)
           sorted == SortedMatches(matches)
           cut == CutPlaces(sorted, n, size)
<1>1. size \in Nat /\ n \in Nat /\ DOMAIN matches = 1 .. n /\ \A i \in DOMAIN matches : matches[i] \in MatchesIn(size)
  OBVIOUS
<1>2. PICK shown : ShownRun(shown, text, matches) /\ Replaced(text, matches) = shown[size]
  BY <1>1, ShownRunExists
<1>3. PICK run : RedactRun(run, text, sorted, n) /\ Redact(text, matches) = run[n]
  BY <1>1, RedactRunExists
<1>4. PICK order : IsOrder(order, sorted, matches)
  BY <1>1, SortedIs
<1> HIDE DEF sorted, cut
<1>5. /\ \A k \in 0 .. n : cut[k] \in 0 .. size
      /\ \A k \in 1 .. n :
           /\ sorted[k].start = cut[k] /\ cut[k] < sorted[k].end /\ sorted[k].end <= cut[k - 1]
           /\ \A i \in sorted[k].end + 1 .. cut[k - 1] : ~ Covered(matches, i)
      /\ \A i \in 1 .. cut[n] : ~ Covered(matches, i)
  BY <1>1, <1>4, CutPlacesAre DEF cut
<1>6. \A k \in 1 .. n : order[k] \in DOMAIN matches /\ sorted[k] = matches[order[k]]
  BY <1>1, <1>4 DEF IsOrder
<1>7. cut[0] = size
  <2>1. 0 \in 0 .. n
    BY <1>1
  <2> QED BY <2>1 DEF cut, CutPlaces
<1> HIDE DEF n
<1> DEFINE Agrees(k, tail) == /\ run[k].text = SubSeq(text, 1, cut[k]) \o tail
                            /\ shown[size] = shown[cut[k]] \o tail
           Same == {k \in 0 .. n : run[k] \in RedactStates /\ ~ run[k].panic /\ \E tail \in Seq(Chars) : Agrees(k, tail)}
<1>8. \A i \in 0 .. size : shown[i] \in Seq(Chars)
  BY <1>2 DEF ShownRun
<1>9. 0 \in Same
  <2>1. run[0] = [text |-> text, panic |-> FALSE] /\ run[0] \in RedactStates /\ 0 \in 0 .. n
    BY <1>1, <1>3 DEF RedactRun
  <2>2. SubSeq(text, 1, size) = text /\ text \o <<>> = text /\ shown[size] \o <<>> = shown[size] /\ <<>> \in Seq(Chars)
    <3>1. SubSeq(text, 1, size) = text
      BY SubSeqFull
    <3>2. shown[size] \in Seq(Chars)
      BY <1>1, <1>8
    <3> QED BY <3>1, <3>2, ConcatEmptySeq
  <2>3. Agrees(0, <<>>)
    BY <1>7, <2>1, <2>2
  <2>4. ~ run[0].panic
    BY <2>1
  <2> HIDE DEF Agrees
  <2>5. \E tail \in Seq(Chars) : Agrees(0, tail)
    BY <2>2, <2>3
  <2> QED BY <2>1, <2>4, <2>5
<1>10. ASSUME NEW k \in 1 .. n, k - 1 \in Same PROVE k \in Same
  <2> DEFINE m == sorted[k]
             c == cut[k - 1]
  <2>1. k \in 0 .. n /\ k - 1 \in 0 .. n
    BY <1>1
  <2>2. PICK tail \in Seq(Chars) : Agrees(k - 1, tail)
    BY <1>10
  <2>3. run[k - 1] \in RedactStates /\ ~ run[k - 1].panic
    BY <1>10
  <2>4. /\ m \in MatchesIn(size) /\ c \in 0 .. size /\ m.start = cut[k] /\ m.start < m.end /\ m.end <= c
        /\ \A i \in m.end + 1 .. c : ~ Covered(matches, i)
    BY <1>1, <1>5, <1>6, <2>1
  <2>5. m.end \in 0 .. size /\ c \in m.end .. size /\ m.start \in 0 .. size
    <3> HIDE DEF m, c, size
    <3>1. m.start \in Nat /\ m.end \in Nat
      BY <2>4 DEF MatchesIn
    <3> QED BY <1>1, <2>4, <3>1
  <2> DEFINE marker == Marker(m.pattern)
             middle == SubSeq(text, m.end + 1, c)
             new == marker \o (middle \o tail)
  <2>6. run[k] = ReplaceRange(run[k - 1], m) /\ run[k] \in RedactStates
    BY <1>3, <2>1 DEF RedactRun
  <2>7. ~ run[k].panic /\ run[k].text = SubSeq(text, 1, m.start) \o new /\ new \in Seq(Chars)
    <3>1. run[k - 1].text = SubSeq(text, 1, c) \o tail
      BY <2>2
    <3> HIDE DEF m, c
    <3>2. /\ ~ ReplaceRange(run[k - 1], m).panic
          /\ ReplaceRange(run[k - 1], m).text =
               SubSeq(text, 1, m.start) \o (Marker(m.pattern) \o (SubSeq(text, m.end + 1, c) \o tail))
          /\ Marker(m.pattern) \o (SubSeq(text, m.end + 1, c) \o tail) \in Seq(Chars)
      BY <2>3, <2>4, <3>1, OneReplaced
    <3> DEFINE b == ReplaceRange(run[k - 1], m)
    <3>3. ~ b.panic /\ b.text = SubSeq(text, 1, m.start) \o new /\ new \in Seq(Chars) /\ run[k] = b
      BY <2>6, <3>2, Zenon
    <3> HIDE DEF b, new
    <3> QED BY <3>3, Zenon
  <2>8. shown[c] = shown[m.end] \o middle
    <3> HIDE DEF m, c
    <3> QED BY <1>2, <2>4, <2>5, OthersStay
  <2>9. shown[m.end] = shown[m.start] \o marker
    <3>1. PICK i \in DOMAIN matches : m = matches[i]
      BY <1>6
    <3>2. shown[matches[i].end] = shown[matches[i].start] \o Marker(matches[i].pattern)
      BY <1>2, MatchIsMarked
    <3> HIDE DEF m
    <3> QED BY <3>1, <3>2
  <2>10. marker \in Seq(Chars) /\ middle \in Seq(Chars)
    <3>1. m.pattern \in 1 .. Len(MarkerLen)
      BY <2>4 DEF MatchesIn
    <3> HIDE DEF m, c
    <3>2. Marker(m.pattern) \in Seq(Chars)
      BY <3>1, MarkerIs
    <3>3. m.end \in 0 .. c
      BY <1>1, <2>5
    <3>4. SubSeq(text, m.end + 1, c) \in Seq(Chars)
      BY <2>4, <3>3, CutAt
    <3> QED BY <3>2, <3>4
  <2>11. shown[m.start] \in Seq(Chars)
    BY <1>8, <2>5
  <2>12. shown[size] = shown[c] \o tail
    BY <2>2
  <2> HIDE DEF m, c, marker, middle
  <2>13. shown[size] = shown[m.start] \o new
    <3> DEFINE x == shown[m.start]
    <3>1. x \in Seq(Chars)
      BY <2>11
    <3> HIDE DEF x
    <3>2. Joint(x, marker, middle, tail)
      BY <2>2, <2>10, <3>1, JoinsTwice
    <3> QED BY <2>8, <2>9, <2>12, <3>2 DEF x, Joint
  <2>14. Agrees(k, new)
    BY <2>4, <2>7, <2>13
  <2> HIDE DEF Agrees, new
  <2> QED BY <2>1, <2>6, <2>7, <2>14
<1> HIDE DEF Same
<1>11. 0 .. n \subseteq Same
  BY <1>1, <1>9, <1>10, StepsReach
<1>12. n \in Same /\ n \in 0 .. n
  BY <1>1, <1>11
<1>13. PICK tail \in Seq(Chars) : Agrees(n, tail)
  BY <1>12 DEF Same
<1>14. ~ run[n].panic
  BY <1>12 DEF Same
<1>15. shown[cut[n]] = SubSeq(text, 1, cut[n])
  <2>1. cut[n] \in 0 .. size /\ 0 \in 0 .. size /\ \A i \in 0 + 1 .. cut[n] : ~ Covered(matches, i)
    BY <1>1, <1>5, <1>12
  <2>2. shown[cut[n]] = shown[0] \o SubSeq(text, 0 + 1, cut[n])
    BY <1>2, <2>1, OthersStay
  <2>3. shown[0] = <<>>
    BY <1>2 DEF ShownRun
  <2>4. SubSeq(text, 1, cut[n]) \in Seq(Chars)
    <3>1. cut[n] \in 0 .. cut[n]
      BY <2>1
    <3> QED BY <2>1, <3>1, CutAt
  <2>5. <<>> \o SubSeq(text, 1, cut[n]) = SubSeq(text, 1, cut[n])
    BY <2>4, ConcatEmptySeq
  <2> QED BY <2>2, <2>3, <2>5
<1> QED BY <1>2, <1>3, <1>13, <1>14, <1>15

(* Whatever the matches are, what stands in front of all of them is kept.    *)
LEMMA FrontIs ==
  ASSUME NEW text \in Seq(Chars), NEW matches \in Seq(MatchesIn(Len(text)))
  PROVE  \E b \in 0 .. Len(text) : /\ Before(text, matches) = SubSeq(text, 1, b)
                                   /\ \A k \in DOMAIN matches : b <= matches[k].start
<1> DEFINE S == {Len(text)} \cup {matches[k].start : k \in DOMAIN matches}
           b == Min(S)
<1>1. \A k \in DOMAIN matches : matches[k] \in MatchesIn(Len(text))
  OBVIOUS
<1>2. \A k \in DOMAIN matches : matches[k].start \in Nat
  BY <1>1 DEF MatchesIn
<1>3. S \subseteq Nat /\ Len(text) \in S
  BY <1>2
<1>4. \A k \in DOMAIN matches : matches[k].start \in S
  OBVIOUS
<1>5. Before(text, matches) = SubSeq(text, 1, b)
  BY DEF Before
<1> HIDE DEF S
<1>6. \E x \in S : \A y \in S : x <= y
  BY <1>3, LeastNatural
<1>7. b \in S /\ \A y \in S : b <= y
  BY <1>6 DEF Min
<1> HIDE DEF b
<1>8. b \in 0 .. Len(text)
  BY <1>3, <1>7
<1> QED BY <1>4, <1>5, <1>7, <1>8

LEMMA RedactKeepsFront ==
  ASSUME NEW text \in Seq(Chars), NEW matches \in Seq(MatchesIn(Len(text)))
  PROVE  IsPrefix(Before(text, matches), Redact(text, matches).text)
<1> DEFINE size == Len(text)
           n == Len(matches)
           sorted == SortedMatches(matches)
<1>1. size \in Nat /\ n \in Nat /\ DOMAIN matches = 1 .. n /\ \A i \in DOMAIN matches : matches[i] \in MatchesIn(size)
  OBVIOUS
<1>2. PICK run : RedactRun(run, text, sorted, n) /\ Redact(text, matches) = run[n]
  BY <1>1, RedactRunExists
<1>3. PICK order : IsOrder(order, sorted, matches)
  BY <1>1, SortedIs
<1>4. PICK b \in 0 .. size : Before(text, matches) = SubSeq(text, 1, b) /\ \A k \in DOMAIN matches : b <= matches[k].start
  BY FrontIs
<1> HIDE DEF sorted
<1>5. \A k \in 1 .. n : sorted[k] \in MatchesIn(size) /\ b <= sorted[k].start
  <2>1. \A k \in 1 .. n : order[k] \in DOMAIN matches /\ sorted[k] = matches[order[k]]
    BY <1>1, <1>3 DEF IsOrder
  <2> HIDE DEF n
  <2> QED BY <1>1, <1>4, <2>1
<1> DEFINE front == SubSeq(text, 1, b)
           Same == {k \in 0 .. n : run[k] \in RedactStates /\ \E tail \in Seq(Chars) : run[k].text = front \o tail}
<1>6. front \in Seq(Chars) /\ Len(front) = b
  <2>1. 1 \in Int /\ b \in Int /\ \A i \in 1 .. b : text[i] \in Chars
    BY <1>1
  <2>2. front \in Seq(Chars) /\ Len(front) = IF 1 <= b THEN b - 1 + 1 ELSE 0
    BY <2>1, SubSeqProperties
  <2> QED BY <1>1, <2>2
<1> HIDE DEF n
<1>7. 0 \in Same
  <2> DEFINE tail == SubSeq(text, b + 1, size)
  <2>1. run[0] = [text |-> text, panic |-> FALSE] /\ run[0] \in RedactStates /\ 0 \in 0 .. n
    BY <1>1, <1>2 DEF RedactRun
  <2>2. front \o tail = text
    <3>1. 1 \in 1 .. Len(text) + 1 /\ b \in 1 - 1 .. Len(text) /\ size \in b .. Len(text)
      BY <1>1
    <3>2. front \o tail = SubSeq(text, 1, size)
      BY <3>1, ConcatAdjacentSubSeq
    <3>3. SubSeq(text, 1, size) = text
      BY SubSeqFull
    <3> QED BY <3>2, <3>3
  <2>3. tail \in Seq(Chars)
    <3>1. b + 1 \in Int /\ size \in Int /\ \A i \in b + 1 .. size : text[i] \in Chars
      BY <1>1
    <3> QED BY <3>1, SubSeqProperties
  <2>4. run[0].text = text
    BY <2>1
  <2> HIDE DEF tail, front
  <2>5. \E t \in Seq(Chars) : run[0].text = front \o t
    BY <2>2, <2>3, <2>4
  <2> QED BY <2>1, <2>5
<1> HIDE DEF front
<1>8. ASSUME NEW k \in 1 .. n, k - 1 \in Same PROVE k \in Same
  <2> DEFINE m == sorted[k]
             a == run[k - 1]
             w == a.text
  <2>1. k \in 0 .. n /\ k - 1 \in 0 .. n
    BY <1>1
  <2>2. PICK tail \in Seq(Chars) : w = front \o tail
    BY <1>8
  <2>3. a \in RedactStates /\ w \in Seq(Chars)
    BY <1>8 DEF RedactStates
  <2>4. m \in MatchesIn(size) /\ b <= m.start
    BY <1>5
  <2>5. run[k] = ReplaceRange(a, m) /\ run[k] \in RedactStates
    BY <1>2, <2>1 DEF RedactRun
  <2> HIDE DEF m, a
  <2>6. /\ (a.panic \/ m.end > Len(w)) => run[k].text = w
        /\ ~ (a.panic \/ m.end > Len(w)) =>
             run[k].text = SubSeq(w, 1, m.start) \o Marker(m.pattern) \o SubSeq(w, m.end + 1, Len(w))
    BY <1>1, <2>3, <2>4, <2>5, ReplaceRangeType
  <2>7. m.pattern \in 1 .. Len(MarkerLen) /\ m.start \in Nat /\ m.end \in Nat /\ m.start < m.end
    BY <2>4 DEF MatchesIn
  <2> HIDE DEF w
  <2>8. CASE a.panic \/ m.end > Len(w)
    <3>1. run[k].text = front \o tail
      BY <2>2, <2>6, <2>8
    <3> QED BY <2>1, <2>5, <3>1
  <2>9. CASE ~ (a.panic \/ m.end > Len(w))
    <3> DEFINE x == SubSeq(w, b + 1, m.start)
               y == Marker(m.pattern)
               z == SubSeq(w, m.end + 1, Len(w))
    <3>1. Len(w) \in Nat /\ m.end <= Len(w) /\ b \in 0 .. Len(w) /\ m.start \in b .. Len(w)
      BY <1>1, <2>3, <2>4, <2>7, <2>9
    <3>2. SubSeq(w, 1, b) = front
      BY <1>6, <2>2, Halves
    <3>3. SubSeq(w, 1, b) \o x = SubSeq(w, 1, m.start)
      <4>1. 1 \in 1 .. Len(w) + 1 /\ b \in 1 - 1 .. Len(w)
        BY <3>1
      <4> QED BY <2>3, <3>1, <4>1, ConcatAdjacentSubSeq
    <3>4. x \in Seq(Chars) /\ z \in Seq(Chars)
      <4>1. \A i \in 1 .. Len(w) : w[i] \in Chars
        BY <2>3
      <4>2. /\ \A i \in b + 1 .. m.start : i \in 1 .. Len(w)
            /\ \A i \in m.end + 1 .. Len(w) : i \in 1 .. Len(w)
            /\ b + 1 \in Int /\ m.start \in Int /\ m.end + 1 \in Int /\ Len(w) \in Int
        BY <2>7, <3>1
      <4>3. /\ \A i \in b + 1 .. m.start : w[i] \in Chars
            /\ \A i \in m.end + 1 .. Len(w) : w[i] \in Chars
        BY <4>1, <4>2
      <4> QED BY <4>2, <4>3, SubSeqProperties
    <3>5. y \in Seq(Chars)
      BY <2>7, MarkerIs
    <3>6. run[k].text = ((front \o x) \o y) \o z
      BY <2>6, <2>9, <3>2, <3>3
    <3> HIDE DEF x, y, z
    <3>7. Joint(front, x, y, z)
      BY <1>6, <3>4, <3>5, JoinsTwice
    <3>8. run[k].text = front \o (x \o (y \o z))
      BY <3>6, <3>7 DEF Joint
    <3>9. x \o (y \o z) \in Seq(Chars)
      <4>1. y \o z \in Seq(Chars)
        BY <3>4, <3>5, ConcatProperties
      <4> QED BY <3>4, <4>1, ConcatProperties
    <3> QED BY <2>1, <2>5, <3>8, <3>9
  <2> QED BY <2>8, <2>9
<1> HIDE DEF Same
<1>9. 0 .. n \subseteq Same
  BY <1>1, <1>7, <1>8, StepsReach
<1>10. n \in 0 .. n
  BY <1>1
<1>11. PICK tail \in Seq(Chars) : run[n].text = front \o tail
  BY <1>9, <1>10 DEF Same
<1>12. Len(front) <= Len(front \o tail) /\ SubSeq(front, 1, Len(front)) = SubSeq(front \o tail, 1, Len(front))
  <2>1. Len(front \o tail) = Len(front) + Len(tail) /\ Len(front) \in Nat /\ Len(tail) \in Nat
    <3>1. front \in Seq(Chars) /\ tail \in Seq(Chars)
      BY <1>6, <1>11
    <3> QED BY ONLY <3>1, ConcatProperties
  <2>2. SubSeq(front \o tail, 1, Len(front)) = front
    BY <1>6, Halves
  <2>3. SubSeq(front, 1, Len(front)) = front
    BY <1>6, SubSeqFull
  <2> QED BY <2>1, <2>2, <2>3
<1>13. IsPrefix(front, front \o tail)
  BY <1>12 DEF IsPrefix
<1> QED BY <1>2, <1>4, <1>11, <1>13 DEF front

(* The higher of two classifications.                                        *)
LEMMA HigherOfTwo ==
  ASSUME NEW a, NEW b
  PROVE  EffectiveClassification(<<a, b>>) = MaxClass(a, b)
<1> DEFINE s == <<a, b>>
           F(f) == [i \in 1 .. Len(s) |-> IF i = 1 THEN s[1] ELSE MaxClass(f[i - 1], s[i])]
           highest == CHOOSE f : f = F(f)
           g == [i \in 1 .. 2 |-> IF i = 1 THEN a ELSE MaxClass(a, b)]
<1>1. Len(s) = 2 /\ s # <<>> /\ s[1] = a /\ s[2] = b
  OBVIOUS
<1>2. g = F(g)
  <2>1. g[1] = a /\ g[2] = MaxClass(a, b)
    OBVIOUS
  <2>2. F(g)[1] = a /\ F(g)[2] = MaxClass(g[1], b)
    BY <1>1
  <2>3. F(g) = [i \in 1 .. 2 |-> F(g)[i]]
    BY <1>1
  <2>4. \A i \in 1 .. 2 : i = 1 \/ i = 2
    OBVIOUS
  <2>5. \A i \in 1 .. 2 : F(g)[i] = g[i]
    BY <2>1, <2>2, <2>4
  <2> HIDE DEF F
  <2> QED BY <2>3, <2>5
<1>3. highest = F(highest)
  <2> HIDE DEF F, g
  <2> QED BY <1>2
<1>4. EffectiveClassification(s) = highest[2]
  BY <1>1 DEF EffectiveClassification
<1> HIDE DEF highest
<1>5. highest[1] = a
  BY <1>1, <1>3
<1>6. highest[2] = MaxClass(highest[1], b)
  BY <1>1, <1>3
<1> QED BY <1>4, <1>5, <1>6

(* Retaining a text of a given length, whatever the patterns match in it.    *)
SecretCalls(size) == [kind : {"secret"}, len : {size}, mode : STRING, hits : HitsIn(size), requested : STRING, default : STRING]

(* SecretsAreReplaced for any of them: whatever the patterns match and        *)
(* however long the markers are, disjoint matches are replaced and nothing    *)
(* else, a text in front of all matches is kept, and the class stored is      *)
(* never below the one its content calls for (security/redactor.rs, redact;   *)
(* engine/mod.rs, retain).                                                    *)
THEOREM RedactionIsExact ==
  ASSUME NEW size \in Nat, input \in SecretCalls(size)
  PROVE  SecretsAreReplaced
<1> DEFINE text == TextOf(input.len)
           hits == input.hits
           matches == Scan(hits)
           requested == ParsedClass(input.requested)
           wanted == IF requested = "none" THEN input.default ELSE requested
           raised == IF HasSecrets(hits) THEN MaxClass(wanted, "confidential") ELSE wanted
           redacted == Redact(text, matches)
           r == RetainPolicy(input.mode, text, hits, requested, input.default)
<1>1. input.len = size /\ hits \in HitsIn(size)
  BY DEF SecretCalls
<1>2. text \in Seq(Chars) /\ Len(text) = size
  BY <1>1, TextIs
<1>3. matches \in Seq(MatchesIn(Len(text))) /\ (matches = <<>> <=> ~ HasSecrets(hits))
  BY <1>1, <1>2, ScanIs
<1>4. r = CASE input.mode = "block" -> IF HasSecrets(hits) THEN [outcome |-> "refused"]
                                       ELSE [outcome |-> "stored", text |-> text, class |-> wanted]
            [] input.mode = "redact" -> IF redacted.panic THEN [outcome |-> "panic"]
                                        ELSE [outcome |-> "stored", text |-> redacted.text, class |-> raised]
            [] OTHER -> [outcome |-> "stored", text |-> text, class |-> raised]
  BY DEF RetainPolicy
<1> HIDE DEF text, hits, matches, requested, redacted, wanted
<1>5. r.outcome = "stored" => r.class = raised
  <2>1. CASE input.mode = "block"
    BY <1>4, <2>1
  <2>2. CASE input.mode = "redact"
    BY <1>4, <2>2
  <2>3. CASE input.mode # "block" /\ input.mode # "redact"
    BY <1>4, <2>3
  <2> QED BY <2>1, <2>2, <2>3
<1>6. input.mode = "redact" =>
         /\ (~ redacted.panic => (r.outcome = "stored" /\ r.text = redacted.text))
         /\ (r.outcome = "stored" => r.text = redacted.text)
  BY <1>4
<1> HIDE DEF r
<1>7. r.outcome = "stored" => MaxClass(wanted, ClassifyContent(hits)) = r.class \/ matches = <<>>
  BY <1>3, <1>5 DEF ClassifyContent
<1>8. r.outcome = "stored" => EffectiveClassification(<<wanted, r.class>>) = r.class
  <2>1. MaxClass(wanted, raised) = raised
    BY DEF MaxClass
  <2>2. EffectiveClassification(<<wanted, raised>>) = MaxClass(wanted, raised)
    BY HigherOfTwo
  <2> HIDE DEF raised
  <2> QED BY <1>5, <2>1, <2>2
<1>9. (input.mode = "redact" /\ Disjoint(matches)) => (r.outcome = "stored" /\ r.text = Replaced(text, matches))
  <2> SUFFICES ASSUME input.mode = "redact", Disjoint(matches) PROVE r.outcome = "stored" /\ r.text = Replaced(text, matches)
    OBVIOUS
  <2>1. ~ redacted.panic /\ redacted.text = Replaced(text, matches)
    BY <1>2, <1>3, RedactReplaces DEF redacted
  <2> QED BY <1>6, <2>1
<1>10. (input.mode = "redact" /\ r.outcome = "stored") => IsPrefix(Before(text, matches), r.text)
  <2>1. IsPrefix(Before(text, matches), redacted.text)
    BY <1>2, <1>3, RedactKeepsFront DEF redacted
  <2> QED BY <1>6, <2>1
<1> QED BY <1>7, <1>8, <1>9, <1>10, Zenon DEF SecretsAreReplaced, text, hits, matches, requested, wanted, r

--------------------------------------------------------------------------------
(* Imports.                                                                  *)

(* Sequences one behind the other.                                           *)
FlatRun(run, seqs, X) ==
  /\ run[0] = <<>>
  /\ \A i \in 0 .. Len(seqs) : run[i] \in Seq(X)
  /\ \A i \in 1 .. Len(seqs) : run[i] = run[i - 1] \o seqs[i]

LEMMA FlattenIs ==
  ASSUME NEW X, NEW seqs \in Seq(Seq(X))
  PROVE  \E run : FlatRun(run, seqs, X) /\ FlattenSeq(seqs) = run[Len(seqs)]
<1> DEFINE n == Len(seqs)
           S == Seq(X)
           start == <<>>
           turn == [q \in (1 .. n) \X S |-> q[2] \o seqs[q[1]]]
           F(f) == [i \in 1 .. n |-> IF i = 1 THEN seqs[i] ELSE f[i - 1] \o seqs[i]]
           acc == CHOOSE f : f = F(f)
<1>1. n \in Nat /\ \A i \in 1 .. n : seqs[i] \in S
  OBVIOUS
<1>2. FlattenSeq(seqs) = IF n = 0 THEN seqs ELSE acc[n]
  BY DEF FlattenSeq
<1>3. n = 0 => seqs = <<>>
  OBVIOUS
<1>4. \A a, b \in S : a \o b \in S
  BY ConcatProperties
<1>5. \A a \in S : <<>> \o a = a
  BY ConcatEmptySeq
<1>6. start \in S
  OBVIOUS
<1> HIDE DEF n, S
<1>7. turn \in Turns(n, S)
  BY <1>1, <1>4 DEF Turns
<1> HIDE DEF start
<1>8. PICK g : IsRun(g, n, S, start, turn)
  BY <1>1, <1>6, <1>7, RunExists
<1>9. g[0] = start /\ \A i \in 1 .. n : g[i] = g[i - 1] \o seqs[i] /\ g[i - 1] \in S
  <2>1. \A i \in 1 .. n : i - 1 \in 0 .. n /\ g[i - 1] \in S /\ g[i] = turn[<<i, g[i - 1]>>]
    <3> HIDE DEF turn
    <3>1. g \in [0 .. n -> S] /\ \A i \in 1 .. n : g[i] = turn[<<i, g[i - 1]>>]
      BY <1>8 DEF IsRun
    <3>2. \A i \in 1 .. n : i - 1 \in 0 .. n
      BY <1>1
    <3> QED BY <3>1, <3>2
  <2>2. \A i \in 1 .. n : turn[<<i, g[i - 1]>>] = g[i - 1] \o seqs[i]
    BY <2>1
  <2>3. g[0] = start
    BY <1>8 DEF IsRun
  <2> QED BY <2>1, <2>2, <2>3
<1> DEFINE h == [i \in 1 .. n |-> g[i]]
<1>10. \A i \in 1 .. n : h[i] = F(h)[i]
  <2> SUFFICES ASSUME NEW i \in 1 .. n PROVE h[i] = F(h)[i]
    OBVIOUS
  <2>1. h[i] = g[i - 1] \o seqs[i]
    BY <1>9
  <2>2. CASE i = 1
    <3>1. h[i] = start \o seqs[i] /\ F(h)[i] = seqs[i]
      <4>1. i - 1 = 0
        BY <2>2
      <4> QED BY <1>9, <2>1, <2>2, <4>1
    <3>2. start \o seqs[i] = seqs[i]
      BY <1>1, <1>5 DEF start
    <3> QED BY <3>1, <3>2
  <2>3. CASE i # 1
    <3>1. i - 1 \in 1 .. n
      BY <1>1, <2>3
    <3>2. F(h)[i] = h[i - 1] \o seqs[i] /\ h[i - 1] = g[i - 1]
      BY <2>3, <3>1
    <3> QED BY <2>1, <3>2
  <2> QED BY <2>2, <2>3
<1>11. h = F(h)
  <2>1. F(h) = [i \in 1 .. n |-> F(h)[i]] /\ h = [i \in 1 .. n |-> h[i]]
    OBVIOUS
  <2> HIDE DEF h, F
  <2> QED BY <1>10, <2>1
<1>12. acc = F(acc)
  <2> HIDE DEF h, F
  <2> QED BY <1>11
<1> HIDE DEF acc, h
<1> DEFINE run == [i \in 0 .. n |-> IF i = 0 THEN start ELSE acc[i]]
<1>13. run[0] = start /\ \A i \in 1 .. n : run[i] = acc[i]
  <2>1. 0 \in 0 .. n /\ \A i \in 1 .. n : i \in 0 .. n /\ i # 0
    BY <1>1
  <2> QED BY <2>1
<1>14. \A i \in 1 .. n : run[i] = run[i - 1] \o seqs[i]
  <2> SUFFICES ASSUME NEW i \in 1 .. n PROVE run[i] = run[i - 1] \o seqs[i]
    OBVIOUS
  <2>1. acc[i] = F(acc)[i]
    BY <1>12
  <2>2. CASE i = 1
    <3>1. start \o seqs[i] = seqs[i]
      BY <1>1, <1>5 DEF start
    <3>2. acc[i] = seqs[i]
      BY <2>1, <2>2
    <3>3. run[i - 1] = start
      BY <1>13, <2>2
    <3> QED BY <1>13, <3>1, <3>2, <3>3
  <2>3. CASE i # 1
    <3>1. i - 1 \in 1 .. n
      BY <1>1, <2>3
    <3>2. acc[i] = acc[i - 1] \o seqs[i]
      BY <2>1, <2>3
    <3>3. run[i - 1] = acc[i - 1] /\ run[i] = acc[i]
      BY <1>13, <3>1
    <3> QED BY <3>2, <3>3
  <2> QED BY <2>2, <2>3
<1> HIDE DEF run
<1> DEFINE Same == {i \in 0 .. n : run[i] \in S}
<1>15. 0 \in Same
  BY <1>1, <1>6, <1>13
<1>16. ASSUME NEW i \in 1 .. n, i - 1 \in Same PROVE i \in Same
  <2>1. run[i - 1] \in S /\ seqs[i] \in S /\ i \in 0 .. n
    BY <1>1, <1>16
  <2> QED BY <1>4, <1>14, <2>1
<1> HIDE DEF Same
<1>17. 0 .. n \subseteq Same
  BY <1>1, <1>15, <1>16, StepsReach
<1>18. \A i \in 0 .. n : run[i] \in S
  BY <1>17 DEF Same
<1>19. FlatRun(run, seqs, X)
  BY <1>13, <1>14, <1>18 DEF FlatRun, S, n, start
<1>20. FlattenSeq(seqs) = run[n]
  <2>1. CASE n = 0
    BY <1>2, <1>3, <1>13, <2>1 DEF start
  <2>2. CASE n # 0
    <3>1. n \in 1 .. n
      BY <1>1, <2>2
    <3> QED BY <1>2, <1>13, <2>2, <3>1
  <2> QED BY <2>1, <2>2
<1> QED BY <1>19, <1>20 DEF n

(* What grows by the same sequences is the same.                             *)
LEMMA FlattenByRun ==
  ASSUME NEW X, NEW seqs \in Seq(Seq(X)), NEW h, h[0] = <<>>, \A i \in 1 .. Len(seqs) : h[i] = h[i - 1] \o seqs[i]
  PROVE  FlattenSeq(seqs) = h[Len(seqs)] /\ FlattenSeq(seqs) \in Seq(X)
<1> DEFINE n == Len(seqs)
<1>1. n \in Nat
  OBVIOUS
<1>2. PICK run : FlatRun(run, seqs, X) /\ FlattenSeq(seqs) = run[n]
  BY FlattenIs
<1> DEFINE Same == {i \in 0 .. n : run[i] = h[i]}
<1>3. 0 \in Same
  BY <1>1, <1>2 DEF FlatRun
<1>4. ASSUME NEW i \in 1 .. n, i - 1 \in Same PROVE i \in Same
  <2>1. run[i - 1] = h[i - 1] /\ i \in 0 .. n
    BY <1>1, <1>4
  <2>2. run[i] = run[i - 1] \o seqs[i]
    BY <1>2 DEF FlatRun
  <2> QED BY <2>1, <2>2
<1> HIDE DEF Same
<1>5. 0 .. n \subseteq Same
  BY <1>1, <1>3, <1>4, StepsReach
<1>6. n \in 0 .. n
  BY <1>1
<1>7. run[n] = h[n]
  BY <1>5, <1>6 DEF Same
<1>8. run[n] \in Seq(X)
  BY <1>2, <1>6 DEF FlatRun
<1> QED BY <1>2, <1>7, <1>8

LEMMA FlattenFew ==
  ASSUME NEW X, NEW s \in Seq(X)
  PROVE  FlattenSeq(<<>>) = <<>> /\ FlattenSeq(<<s>>) = s
<1>1. FlattenSeq(<<>>) = <<>>
  BY DEF FlattenSeq
<1> DEFINE seqs == <<s>>
           h == [i \in 0 .. 1 |-> IF i = 0 THEN <<>> ELSE s]
<1>2. seqs \in Seq(Seq(X)) /\ Len(seqs) = 1 /\ seqs[1] = s
  OBVIOUS
<1>3. h[0] = <<>> /\ h[1] = s
  OBVIOUS
<1>4. <<>> \o s = s
  BY ConcatEmptySeq
<1>5. \A i \in 1 .. Len(seqs) : h[i] = h[i - 1] \o seqs[i]
  <2>1. \A i \in 1 .. 1 : i = 1 /\ i - 1 = 0
    OBVIOUS
  <2> HIDE DEF h
  <2> QED BY <1>2, <1>3, <1>4, <2>1
<1> HIDE DEF h, seqs
<1>6. FlattenSeq(seqs) = h[Len(seqs)]
  BY <1>2, <1>3, <1>5, FlattenByRun
<1> QED BY <1>1, <1>2, <1>3, <1>6 DEF seqs

LEMMA FlattenJoins ==
  ASSUME NEW X, NEW s \in Seq(Seq(X)), NEW t \in Seq(Seq(X))
  PROVE  /\ FlattenSeq(s \o t) = FlattenSeq(s) \o FlattenSeq(t)
         /\ FlattenSeq(s) \in Seq(X) /\ FlattenSeq(t) \in Seq(X)
<1> DEFINE a == Len(s)
           b == Len(t)
           w == s \o t
<1>1. /\ a \in Nat /\ b \in Nat /\ w \in Seq(Seq(X)) /\ Len(w) = a + b
      /\ \A i \in 1 .. a + b : w[i] = IF i <= a THEN s[i] ELSE t[i - a]
  BY ConcatProperties
<1>2. PICK f : FlatRun(f, s, X) /\ FlattenSeq(s) = f[a]
  BY FlattenIs
<1>3. PICK g : FlatRun(g, t, X) /\ FlattenSeq(t) = g[b]
  BY FlattenIs
<1>4. /\ f[0] = <<>> /\ \A i \in 0 .. a : f[i] \in Seq(X)
      /\ \A i \in 1 .. a : f[i] = f[i - 1] \o s[i]
  BY <1>2 DEF FlatRun
<1>5. /\ g[0] = <<>> /\ \A i \in 0 .. b : g[i] \in Seq(X)
      /\ \A i \in 1 .. b : g[i] = g[i - 1] \o t[i]
  BY <1>3 DEF FlatRun
<1>6. \A i \in 1 .. b : t[i] \in Seq(X)
  OBVIOUS
<1> DEFINE h == [i \in 0 .. a + b |-> IF i <= a THEN f[i] ELSE f[a] \o g[i - a]]
<1> HIDE DEF a, b, w
<1>7. \A i \in 0 .. a + b : h[i] = IF i <= a THEN f[i] ELSE f[a] \o g[i - a]
  OBVIOUS
<1> HIDE DEF h
<1>8. f[a] \in Seq(X) /\ g[b] \in Seq(X)
  BY <1>1, <1>4, <1>5
<1>9. f[a] \o g[0] = f[a]
  BY <1>5, <1>8, ConcatEmptySeq
<1>10. h[0] = <<>>
  BY <1>1, <1>4, <1>7
<1>11. ASSUME NEW i \in 1 .. a + b PROVE h[i] = h[i - 1] \o w[i]
  <2>1. i \in 0 .. a + b /\ i - 1 \in 0 .. a + b /\ i \in Nat
    BY <1>1
  <2>2. CASE i <= a
    <3>1. i \in 1 .. a /\ i - 1 <= a
      BY <1>1, <2>2
    <3>2. h[i] = f[i] /\ h[i - 1] = f[i - 1] /\ w[i] = s[i]
      BY <1>1, <1>7, <2>1, <3>1
    <3> QED BY <1>4, <3>1, <3>2
  <2>3. CASE ~ (i <= a)
    <3> DEFINE j == i - a
    <3>1. j \in 1 .. b /\ j - 1 \in 0 .. b /\ i - 1 - a = j - 1
      BY <1>1, <2>1, <2>3
    <3>2. h[i] = f[a] \o g[j] /\ w[i] = t[j]
      BY <1>1, <1>7, <2>1, <2>3
    <3>3. h[i - 1] = f[a] \o g[j - 1]
      <4>1. CASE i - 1 <= a
        <5>1. i - 1 = a /\ j - 1 = 0
          BY <1>1, <2>1, <2>3, <4>1
        <5>2. h[i - 1] = f[a]
          BY <1>7, <2>1, <4>1, <5>1
        <5> QED BY <1>9, <5>1, <5>2
      <4>2. CASE ~ (i - 1 <= a)
        <5>1. h[i - 1] = f[a] \o g[i - 1 - a]
          BY <1>7, <2>1, <4>2
        <5> QED BY <3>1, <5>1
      <4> QED BY <4>1, <4>2
    <3> HIDE DEF j
    <3>4. g[j] = g[j - 1] \o t[j] /\ g[j - 1] \in Seq(X) /\ t[j] \in Seq(X)
      BY <1>5, <1>6, <3>1
    <3> DEFINE x == f[a]
               y == g[j - 1]
               z == t[j]
    <3>5. x \in Seq(X) /\ y \in Seq(X) /\ z \in Seq(X)
      BY <1>8, <3>4
    <3> HIDE DEF x, y, z
    <3>6. JoinAnyWay(x, y, z)
      BY <3>5, JoinsClosed
    <3>7. (x \o y) \o z = x \o (y \o z)
      BY <3>6, Zenon DEF JoinAnyWay
    <3> QED BY <3>2, <3>3, <3>4, <3>7 DEF x, y, z
  <2> QED BY <2>2, <2>3
<1>12. FlattenSeq(w) = h[Len(w)]
  BY <1>1, <1>10, <1>11, FlattenByRun
<1>13. h[a + b] = f[a] \o g[b]
  <2>1. a + b \in 0 .. a + b
    BY <1>1
  <2>2. CASE b = 0
    <3>1. a + b <= a /\ a + b = a
      BY <1>1, <2>2
    <3> QED BY <1>7, <1>9, <2>1, <2>2, <3>1
  <2>3. CASE b # 0
    <3>1. ~ (a + b <= a) /\ a + b - a = b
      BY <1>1, <2>3
    <3> DEFINE i == a + b
    <3>2. i \in 0 .. a + b /\ ~ (i <= a) /\ i - a = b
      BY <1>1, <2>1, <3>1
    <3> HIDE DEF i
    <3>3. h[i] = f[a] \o g[i - a]
      BY <1>7, <3>2
    <3> QED BY <3>2, <3>3 DEF i
  <2> QED BY <2>2, <2>3
<1> QED BY <1>1, <1>2, <1>3, <1>8, <1>12, <1>13 DEF w

(* Flattening twice is flattening the flat parts.                            *)
LEMMA FlattenTwice ==
  ASSUME NEW X, NEW parts \in Seq(Seq(Seq(X))), NEW flat \in Seq(Seq(X)), Len(flat) = Len(parts),
         \A i \in 1 .. Len(parts) : flat[i] = FlattenSeq(parts[i])
  PROVE  FlattenSeq(FlattenSeq(parts)) = FlattenSeq(flat) /\ FlattenSeq(parts) \in Seq(Seq(X))
<1> DEFINE n == Len(parts)
<1>1. n \in Nat /\ \A i \in 1 .. n : parts[i] \in Seq(Seq(X))
  OBVIOUS
<1>2. PICK r : FlatRun(r, parts, Seq(X)) /\ FlattenSeq(parts) = r[n]
  BY FlattenIs
<1>3. /\ r[0] = <<>> /\ \A i \in 0 .. n : r[i] \in Seq(Seq(X))
      /\ \A i \in 1 .. n : r[i] = r[i - 1] \o parts[i]
  BY <1>2 DEF FlatRun
<1> DEFINE h == [i \in 0 .. n |-> FlattenSeq(r[i])]
<1> HIDE DEF n
<1>4. \A i \in 0 .. n : h[i] = FlattenSeq(r[i])
  OBVIOUS
<1> HIDE DEF h
<1>5. h[0] = <<>>
  <2>1. 0 \in 0 .. n
    BY <1>1
  <2> QED BY <1>3, <1>4, <2>1 DEF FlattenSeq
<1>6. ASSUME NEW i \in 1 .. n PROVE h[i] = h[i - 1] \o flat[i]
  <2>1. i - 1 \in 0 .. n /\ i \in 0 .. n
    BY <1>1
  <2>2. r[i - 1] \in Seq(Seq(X)) /\ parts[i] \in Seq(Seq(X)) /\ r[i] = r[i - 1] \o parts[i]
    BY <1>1, <1>3, <2>1
  <2>3. FlattenSeq(r[i - 1] \o parts[i]) = FlattenSeq(r[i - 1]) \o FlattenSeq(parts[i])
    BY <2>2, FlattenJoins
  <2>4. flat[i] = FlattenSeq(parts[i])
    BY DEF n
  <2> QED BY <1>4, <2>1, <2>2, <2>3, <2>4
<1>7. FlattenSeq(flat) = h[Len(flat)]
  BY <1>5, <1>6, FlattenByRun DEF n
<1>8. n \in 0 .. n /\ Len(flat) = n
  BY <1>1 DEF n
<1> QED BY <1>2, <1>3, <1>4, <1>7, <1>8

LEMMA FlattenSingles ==
  ASSUME NEW X, NEW t \in Seq(X), NEW seqs \in Seq(Seq(X)), Len(seqs) = Len(t), \A i \in 1 .. Len(t) : seqs[i] = <<t[i]>>
  PROVE  FlattenSeq(seqs) = t
<1> DEFINE n == Len(t)
           h == [i \in 0 .. n |-> SubSeq(t, 1, i)]
<1>1. n \in Nat
  OBVIOUS
<1>2. \A i \in 0 .. n : h[i] = SubSeq(t, 1, i)
  OBVIOUS
<1> HIDE DEF h
<1>3. h[0] = <<>>
  <2>1. 0 \in 0 .. n
    BY <1>1
  <2>2. SubSeq(t, 1, 0) = <<>>
    BY SubSeqEmpty
  <2> QED BY <1>2, <2>1, <2>2
<1>4. ASSUME NEW i \in 1 .. n PROVE h[i] = h[i - 1] \o seqs[i]
  <2>1. i - 1 \in 0 .. n /\ i \in 0 .. n /\ 1 \in 1 .. Len(t) /\ i \in 1 .. Len(t)
    BY <1>1
  <2>2. SubSeq(t, 1, i) = SubSeq(t, 1, i - 1) \o <<t[i]>>
    BY <2>1, SubSeqRecursiveSecond
  <2> QED BY <1>2, <2>1, <2>2
<1>5. FlattenSeq(seqs) = h[Len(seqs)]
  BY <1>3, <1>4, FlattenByRun
<1>6. n \in 0 .. n /\ SubSeq(t, 1, n) = t
  BY <1>1, SubSeqFull
<1> QED BY <1>2, <1>5, <1>6

(* The texts of a file that are not empty.                                   *)
Filled(texts, k) == {i \in 1 .. k : texts[i] # ""}

LEMMA NonEmptyIs ==
  ASSUME NEW T, NEW texts \in Seq(T)
  PROVE  /\ NonEmpty(texts) \in Seq(T)
         /\ ToSet(NonEmpty(texts)) = {texts[i] : i \in Filled(texts, Len(texts))}
         /\ Len(NonEmpty(texts)) = Cardinality(Filled(texts, Len(texts)))
         /\ IsFiniteSet(Filled(texts, Len(texts)))
         /\ (\A i \in 1 .. Len(texts) : texts[i] # "") => NonEmpty(texts) = texts
<1> DEFINE n == Len(texts)
           parts == [i \in DOMAIN texts |-> IF texts[i] = "" THEN <<>> ELSE <<texts[i]>>]
<1>1. n \in Nat /\ DOMAIN texts = 1 .. n /\ \A i \in 1 .. n : texts[i] \in T
  OBVIOUS
<1>2. NonEmpty(texts) = FlattenSeq(parts)
  BY DEF NonEmpty
<1>3. parts \in Seq(Seq(T)) /\ Len(parts) = n
  <2>1. parts = [i \in 1 .. n |-> IF texts[i] = "" THEN <<>> ELSE <<texts[i]>>]
    BY <1>1
  <2>2. \A i \in 1 .. n : (IF texts[i] = "" THEN <<>> ELSE <<texts[i]>>) \in Seq(T)
    <3> SUFFICES ASSUME NEW i \in 1 .. n PROVE (IF texts[i] = "" THEN <<>> ELSE <<texts[i]>>) \in Seq(T)
      OBVIOUS
    <3>1. texts[i] \in T
      BY <1>1
    <3>2. <<>> \in Seq(T) /\ <<texts[i]>> \in Seq(T)
      BY <3>1
    <3> QED BY <3>2
  <2> HIDE DEF parts
  <2>3. parts \in [1 .. n -> Seq(T)]
    BY <2>1, <2>2
  <2> HIDE DEF n
  <2> QED BY <1>1, <2>3
<1>4. \A i \in 1 .. n : parts[i] = IF texts[i] = "" THEN <<>> ELSE <<texts[i]>>
  BY <1>1
<1> HIDE DEF parts
<1>5. PICK r : FlatRun(r, parts, T) /\ FlattenSeq(parts) = r[n]
  BY <1>3, FlattenIs
<1>6. r[0] = <<>> /\ (\A i \in 0 .. n : r[i] \in Seq(T)) /\ \A i \in 1 .. n : r[i] = r[i - 1] \o parts[i]
  BY <1>3, <1>5 DEF FlatRun
<1> HIDE DEF n
<1> DEFINE Good(k) == /\ \A x : (\E i \in DOMAIN r[k] : r[k][i] = x) <=> \E i \in Filled(texts, k) : texts[i] = x
                      /\ IsFiniteSet(Filled(texts, k)) /\ Len(r[k]) = Cardinality(Filled(texts, k))
           Same == {k \in 0 .. n : Good(k)}
<1>7. 0 \in Same
  <2>1. Filled(texts, 0) = {} /\ 0 \in 0 .. n
    BY <1>1 DEF Filled
  <2>2. DOMAIN r[0] = {} /\ Len(r[0]) = 0
    BY <1>6
  <2> QED BY <2>1, <2>2, FS_EmptySet
<1>8. ASSUME NEW k \in 1 .. n, k - 1 \in Same PROVE k \in Same
  <2>1. k \in 0 .. n /\ k - 1 \in 0 .. n /\ k \in Nat /\ Good(k - 1)
    BY <1>1, <1>8
  <2>2. r[k - 1] \in Seq(T) /\ r[k] = r[k - 1] \o parts[k] /\ texts[k] \in T
    BY <1>1, <1>6, <2>1
  <2>3. k \notin Filled(texts, k - 1)
    <3>1. ~ (k \in 1 .. k - 1)
      BY <2>1
    <3> QED BY <3>1 DEF Filled
  <2>4. CASE texts[k] = ""
    <3>1. r[k] = r[k - 1]
      BY <1>4, <2>2, <2>4, ConcatEmptySeq
    <3>2. Filled(texts, k) = Filled(texts, k - 1)
      <4>1. \A i \in 1 .. k : i = k \/ i \in 1 .. k - 1
        BY <2>1
      <4>2. \A i \in 1 .. k - 1 : i \in 1 .. k
        BY <2>1
      <4> QED BY <2>4, <4>1, <4>2 DEF Filled
    <3> QED BY <2>1, <3>1, <3>2
  <2>5. CASE texts[k] # ""
    <3>1. r[k] = Append(r[k - 1], texts[k])
      <4>1. r[k] = r[k - 1] \o <<texts[k]>>
        BY <1>4, <2>2, <2>5
      <4>2. Append(r[k - 1], texts[k]) = r[k - 1] \o <<texts[k]>>
        BY <2>2, AppendIsConcat
      <4> QED BY <4>1, <4>2
    <3>2. Filled(texts, k) = Filled(texts, k - 1) \cup {k}
      <4>1. \A i \in 1 .. k : i = k \/ i \in 1 .. k - 1
        BY <2>1
      <4>2. k \in 1 .. k /\ \A i \in 1 .. k - 1 : i \in 1 .. k
        BY <2>1
      <4> QED BY <2>5, <4>1, <4>2 DEF Filled
    <3>3. /\ IsFiniteSet(Filled(texts, k)) /\ Cardinality(Filled(texts, k)) = Cardinality(Filled(texts, k - 1)) + 1
      <4> DEFINE S == Filled(texts, k - 1)
      <4>1. IsFiniteSet(S) /\ k \notin S
        BY <2>1, <2>3
      <4> HIDE DEF S
      <4>2. IsFiniteSet(S \cup {k}) /\ Cardinality(S \cup {k}) = Cardinality(S) + 1
        BY <4>1, FS_AddElement
      <4> QED BY <3>2, <4>2 DEF S
    <3> DEFINE s == r[k - 1]
               e == texts[k]
    <3>4. /\ Len(Append(s, e)) = Len(s) + 1 /\ Len(s) \in Nat
          /\ \A i \in 1 .. Len(s) : Append(s, e)[i] = s[i]
          /\ Append(s, e)[Len(s) + 1] = e
      BY <2>2, AppendProperties
    <3>5. DOMAIN s = 1 .. Len(s) /\ DOMAIN Append(s, e) = 1 .. Len(s) + 1
      BY <2>2, <3>4
    <3> HIDE DEF s, e
    <3>6. ASSUME NEW x
          PROVE  (\E i \in DOMAIN Append(s, e) : Append(s, e)[i] = x) <=> ((\E i \in DOMAIN s : s[i] = x) \/ x = e)
      <4>1. \A i \in 1 .. Len(s) + 1 : i \in 1 .. Len(s) \/ i = Len(s) + 1
        BY <3>4
      <4>2. Len(s) + 1 \in 1 .. Len(s) + 1 /\ \A i \in 1 .. Len(s) : i \in 1 .. Len(s) + 1
        BY <3>4
      <4> QED BY <3>4, <3>5, <4>1, <4>2
    <3>7. ASSUME NEW x
          PROVE  (\E i \in Filled(texts, k) : texts[i] = x) <=> ((\E i \in Filled(texts, k - 1) : texts[i] = x) \/ x = e)
      BY <3>2 DEF e
    <3>8. \A x : (\E i \in DOMAIN s : s[i] = x) <=> \E i \in Filled(texts, k - 1) : texts[i] = x
      BY <2>1 DEF s
    <3>9. \A x : (\E i \in DOMAIN r[k] : r[k][i] = x) <=> \E i \in Filled(texts, k) : texts[i] = x
      <4>1. r[k] = Append(s, e)
        BY <3>1 DEF s, e
      <4> QED BY <3>6, <3>7, <3>8, <4>1
    <3>10. Len(r[k]) = Cardinality(Filled(texts, k))
      BY <2>1, <3>1, <3>3, <3>4 DEF s, e
    <3> QED BY <2>1, <3>3, <3>9, <3>10
  <2> QED BY <2>4, <2>5
<1> HIDE DEF Same
<1>9. 0 .. n \subseteq Same
  BY <1>1, <1>7, <1>8, StepsReach
<1>10. n \in 0 .. n
  BY <1>1
<1>11. Good(n)
  BY <1>9, <1>10 DEF Same
<1>12. ToSet(r[n]) = {texts[i] : i \in Filled(texts, n)}
  BY <1>11 DEF ToSet
<1>13. ASSUME \A i \in 1 .. n : texts[i] # "" PROVE FlattenSeq(parts) = texts
  <2>1. \A i \in 1 .. n : parts[i] = <<texts[i]>>
    BY <1>4, <1>13
  <2> QED BY <1>3, <2>1, FlattenSingles DEF n
<1> QED BY <1>2, <1>5, <1>6, <1>10, <1>11, <1>12, <1>13 DEF n

(* A file with any texts; each message of an export has a node of its own.   *)
Files(T) ==
  {f \in [ext : STRING, shape : STRING, texts : Seq(T), nodes : Seq(Nat), cuts : SUBSET Nat] :
     /\ Len(f.texts) <= Len(f.nodes)
     /\ \A i, j \in 1 .. Len(f.nodes) : f.nodes[i] = f.nodes[j] => i = j}

(* Sorting the messages by node loses none and doubles none.                 *)
IsShuffle(order, n) ==
  /\ \A k \in 1 .. n : order[k] \in 1 .. n
  /\ \A k, l \in 1 .. n : order[k] = order[l] => k = l
  /\ \A i \in 1 .. n : \E k \in 1 .. n : order[k] = i

LEMMA ByNodeIs ==
  ASSUME NEW T, NEW file \in Files(T)
  PROVE  /\ ByNode(file) \in Seq(T) /\ Len(ByNode(file)) = Len(file.texts)
         /\ \E order : /\ IsShuffle(order, Len(file.texts))
                       /\ \A k \in 1 .. Len(file.texts) : ByNode(file)[k] = file.texts[order[k]]
<1> DEFINE n == Len(file.texts)
           D == DOMAIN file.texts
           nodes == file.nodes
           key == [i \in 1 .. n |-> 0 - nodes[i]]
           order == [k \in 1 .. n |-> CHOOSE i \in D : TurnOf(key, n, i) = k]
           by == ByNode(file)
<1>1. n \in Nat /\ D = 1 .. n /\ file.texts \in Seq(T) /\ \A i \in D : file.texts[i] \in T
  BY DEF Files
<1>2. /\ \A i \in 1 .. n : nodes[i] \in Nat
      /\ \A i, j \in 1 .. n : nodes[i] = nodes[j] => i = j
  <2>1. nodes \in Seq(Nat) /\ n <= Len(nodes) /\ \A i, j \in 1 .. Len(nodes) : nodes[i] = nodes[j] => i = j
    BY DEF Files
  <2>2. \A i \in 1 .. n : i \in 1 .. Len(nodes)
    BY <1>1, <2>1
  <2> QED BY <2>1, <2>2
<1>3. key \in [1 .. n -> Int] /\ \A i \in 1 .. n : key[i] = 0 - nodes[i]
  BY <1>2
<1> HIDE DEF key
<1>4. \A k \in 1 .. n : order[k] \in D /\ TurnOf(key, n, order[k]) = k
  <2> SUFFICES ASSUME NEW k \in 1 .. n PROVE order[k] \in D /\ TurnOf(key, n, order[k]) = k
    OBVIOUS
  <2>1. \E i \in 1 .. n : TurnOf(key, n, i) = k
    <3> HIDE DEF n
    <3> QED BY <1>1, <1>3, TurnsAre
  <2>2. \E i \in D : TurnOf(key, n, i) = k
    BY <1>1, <2>1
  <2> QED BY <2>2
<1>5. \A i \in D : TurnOf(key, n, i) = 1 + Cardinality({j \in D : nodes[j] < nodes[i]})
  <2> SUFFICES ASSUME NEW i \in D PROVE Ahead(key, n, i) = {j \in D : nodes[j] < nodes[i]}
    BY DEF TurnOf
  <2>1. ASSUME NEW j \in D PROVE (key[j] > key[i] \/ (key[j] = key[i] /\ j < i)) <=> nodes[j] < nodes[i]
    <3>1. i \in 1 .. n /\ j \in 1 .. n /\ nodes[i] \in Nat /\ nodes[j] \in Nat /\ i \in Nat
      BY <1>1, <1>2
    <3>2. key[i] = 0 - nodes[i] /\ key[j] = 0 - nodes[j]
      BY <1>3, <3>1
    <3>3. nodes[i] = nodes[j] => i = j
      BY <1>2, <3>1
    <3> QED BY <3>1, <3>2, <3>3
  <2> QED BY <1>1, <2>1 DEF Ahead
<1>6. \A k \in 1 .. n : by[k] = file.texts[order[k]]
  <2> SUFFICES ASSUME NEW k \in 1 .. n PROVE by[k] = file.texts[order[k]]
    OBVIOUS
  <2> DEFINE Turn(i) == 1 + Cardinality({j \in D : nodes[j] < nodes[i]})
  <2>1. by[k] = file.texts[CHOOSE i \in D : Turn(i) = k]
    BY DEF ByNode
  <2>2. \A i \in D : Turn(i) = TurnOf(key, n, i)
    BY <1>5
  <2> HIDE DEF Turn, by
  <2>3. (CHOOSE i \in D : Turn(i) = k) = CHOOSE i \in D : TurnOf(key, n, i) = k
    BY <2>2
  <2> QED BY <2>1, <2>3
<1>7. by \in Seq(T) /\ Len(by) = n
  <2>1. by = [k \in 1 .. n |-> by[k]]
    BY DEF ByNode
  <2>2. \A k \in 1 .. n : by[k] \in T
    BY <1>1, <1>4, <1>6
  <2> HIDE DEF by, n
  <2>3. by \in [1 .. n -> T]
    BY <2>1, <2>2
  <2> QED BY <1>1, <2>3
<1> HIDE DEF by, order
<1>8. \A i \in 1 .. n : \E k \in 1 .. n : order[k] = i
  <2> SUFFICES ASSUME NEW i \in 1 .. n PROVE \E k \in 1 .. n : order[k] = i
    OBVIOUS
  <2> DEFINE k == TurnOf(key, n, i)
  <2>1. k \in 1 .. n
    BY <1>1, <1>3, TurnsAre
  <2>2. \A a, b \in 1 .. n : TurnOf(key, n, a) = TurnOf(key, n, b) => a = b
    <3> HIDE DEF n
    <3> QED BY <1>1, <1>3, TurnsAre
  <2>3. order[k] \in 1 .. n /\ TurnOf(key, n, order[k]) = TurnOf(key, n, i)
    BY <1>1, <1>4, <2>1
  <2>4. order[k] = i
    BY <2>2, <2>3
  <2> QED BY <2>1, <2>4
<1>9. \A k, l \in 1 .. n : order[k] = order[l] => k = l
  BY <1>4
<1>10. IsShuffle(order, n)
  BY <1>1, <1>4, <1>8, <1>9 DEF IsShuffle
<1> QED BY <1>6, <1>7, <1>10 DEF by

LEMMA SortingKeepsTexts ==
  ASSUME NEW T, NEW file \in Files(T)
  PROVE  /\ NonEmpty(ByNode(file)) \in Seq(T)
         /\ ToSet(NonEmpty(ByNode(file))) = ToSet(NonEmpty(file.texts))
         /\ Len(NonEmpty(ByNode(file))) = Len(NonEmpty(file.texts))
<1> DEFINE n == Len(file.texts)
           texts == file.texts
           by == ByNode(file)
           A == Filled(by, n)
           B == Filled(texts, n)
<1>1. texts \in Seq(T) /\ by \in Seq(T) /\ Len(by) = n
  BY ByNodeIs DEF Files
<1>2. PICK order : IsShuffle(order, n) /\ \A k \in 1 .. n : by[k] = texts[order[k]]
  BY ByNodeIs
<1>3. /\ NonEmpty(by) \in Seq(T) /\ ToSet(NonEmpty(by)) = {by[i] : i \in A}
      /\ Len(NonEmpty(by)) = Cardinality(A) /\ IsFiniteSet(A)
  <2> HIDE DEF by
  <2> QED BY <1>1, NonEmptyIs
<1>4. ToSet(NonEmpty(texts)) = {texts[i] : i \in B} /\ Len(NonEmpty(texts)) = Cardinality(B) /\ IsFiniteSet(B)
  <2> HIDE DEF texts
  <2> QED BY <1>1, NonEmptyIs DEF texts
<1>5. \A k \in A : order[k] \in B /\ by[k] = texts[order[k]]
  BY <1>2 DEF Filled, IsShuffle
<1>6. \A i \in B : \E k \in A : order[k] = i
  BY <1>2 DEF Filled, IsShuffle
<1>7. \A k, l \in A : order[k] = order[l] => k = l
  BY <1>2 DEF Filled, IsShuffle
<1> HIDE DEF A, B, by, texts
<1>8. {by[i] : i \in A} = {texts[i] : i \in B}
  <2>1. \A k \in A : \E i \in B : by[k] = texts[i]
    BY <1>5
  <2>2. \A i \in B : \E k \in A : by[k] = texts[i]
    BY <1>5, <1>6
  <2> QED BY <2>1, <2>2
<1> DEFINE f == [k \in A |-> order[k]]
<1>9. f \in [A -> B]
  BY <1>5
<1>10. f \in Injection(A, B)
  <2>1. \A a, b \in A : f[a] = f[b] => a = b
    BY <1>7
  <2> HIDE DEF f
  <2> QED BY <1>9, <2>1, Fun_IsInj
<1>11. f \in Surjection(A, B)
  <2>1. \A i \in B : \E k \in A : f[k] = i
    BY <1>6
  <2> HIDE DEF f
  <2> QED BY <1>9, <2>1, Fun_IsSurj
<1> HIDE DEF f
<1>12. Cardinality(A) = Cardinality(B)
  BY <1>3, <1>10, <1>11, FS_Surjection
<1> QED BY <1>3, <1>4, <1>8, <1>12 DEF by, texts

(* A file that is read gives memories that hold these texts in their order.  *)
Reads(p, T, texts) == p.ok /\ p.memories \in Seq(Seq(T)) /\ TextsOf(p.memories) = texts

LEMMA OneMemory ==
  ASSUME NEW T, NEW s \in Seq(T)
  PROVE  /\ <<>> \in Seq(Seq(T)) /\ TextsOf(<<>>) = <<>>
         /\ <<s>> \in Seq(Seq(T)) /\ TextsOf(<<s>>) = s
         /\ OneConversation(s) \in Seq(Seq(T)) /\ TextsOf(OneConversation(s)) = s
<1>1. <<>> \in Seq(Seq(T)) /\ <<s>> \in Seq(Seq(T))
  OBVIOUS
<1>2. FlattenSeq(<<>>) = <<>> /\ FlattenSeq(<<s>>) = s
  BY FlattenFew
<1> QED BY <1>1, <1>2, Zenon DEF OneConversation, TextsOf

LEMMA MemoryEach ==
  ASSUME NEW T, NEW t \in Seq(T)
  PROVE  /\ [i \in DOMAIN t |-> <<t[i]>>] \in Seq(Seq(T))
         /\ TextsOf([i \in DOMAIN t |-> <<t[i]>>]) = t
<1> DEFINE n == Len(t)
           seqs == [i \in DOMAIN t |-> <<t[i]>>]
<1>1. n \in Nat /\ DOMAIN t = 1 .. n /\ \A i \in 1 .. n : t[i] \in T
  OBVIOUS
<1>2. seqs \in Seq(Seq(T)) /\ Len(seqs) = n
  <2>1. seqs = [i \in 1 .. n |-> <<t[i]>>]
    BY <1>1
  <2>2. \A i \in 1 .. n : <<t[i]>> \in Seq(T)
    BY <1>1
  <2> HIDE DEF seqs
  <2>3. seqs \in [1 .. n -> Seq(T)]
    BY <2>1, <2>2
  <2> HIDE DEF n
  <2> QED BY <1>1, <2>3
<1>3. \A i \in 1 .. Len(t) : seqs[i] = <<t[i]>>
  BY <1>1
<1> HIDE DEF seqs
<1>4. FlattenSeq(seqs) = t
  BY <1>2, <1>3, FlattenSingles
<1> QED BY <1>2, <1>4 DEF seqs, TextsOf

LEMMA FilledAre ==
  ASSUME NEW T, NEW file \in Files(T)
  PROVE  /\ NonEmpty(file.texts) \in Seq(T) /\ (file.texts = <<>> => NonEmpty(file.texts) = <<>>)
         /\ file.shape \in STRING /\ file.ext \in STRING
<1>1. file.texts \in Seq(T) /\ file.shape \in STRING /\ file.ext \in STRING
  BY DEF Files
<1>2. NonEmpty(file.texts) \in Seq(T)
  <2> DEFINE texts == file.texts
  <2> HIDE DEF texts
  <2>1. texts \in Seq(T)
    BY <1>1 DEF texts
  <2>2. NonEmpty(texts) \in Seq(T)
    BY <2>1, NonEmptyIs
  <2> QED BY <2>2 DEF texts
<1>3. NonEmpty(<<>>) = <<>>
  <2> DEFINE e == <<>>
             parts == [i \in DOMAIN e |-> IF e[i] = "" THEN <<>> ELSE <<e[i]>>]
  <2>1. parts = <<>>
    OBVIOUS
  <2>2. NonEmpty(<<>>) = FlattenSeq(parts)
    BY DEF NonEmpty
  <2> HIDE DEF parts
  <2>3. FlattenSeq(<<>>) = <<>>
    BY DEF FlattenSeq
  <2> QED BY <2>1, <2>2, <2>3
<1> QED BY <1>1, <1>2, <1>3

(* A list has a first place with a property if it has one.                   *)
LEMMA LeastIs ==
  ASSUME NEW n \in Nat, NEW P \in SUBSET (1 .. n)
  PROVE  LET k == IF P # {} THEN Min(P) ELSE 0
         IN  (k = 0 <=> P = {}) /\ (k # 0 => k \in P)
<1>1. CASE P = {}
  BY <1>1
<1>2. CASE P # {}
  <2>1. P \subseteq Nat /\ \A i \in P : i # 0
    OBVIOUS
  <2>2. \E i \in P : \A k \in P : i <= k
    BY <1>2, <2>1, LeastNatural
  <2>3. Min(P) \in P
    BY <2>2 DEF Min
  <2> QED BY <1>2, <2>1, <2>3
<1> QED BY <1>1, <1>2

(* What a file is read as: its texts, an error or a panic over a summary.    *)
LEMMA FileResults ==
  /\ \A memories : Ok(memories).ok /\ Ok(memories).memories = memories
  /\ \A why : ~ Err(why).ok /\ Err(why).why = why
BY Zenon DEF Ok, Err

(* A text that is cut is a first text or one of its own; a cut content is 0. *)
LEMMA CutsSomewhere ==
  ASSUME NEW T, NEW file \in Files(T)
  PROVE  /\ CutsAText(file) => file.cuts # {}
         /\ \A i : i \in file.cuts => file.cuts # {}
BY DEF CutsAText

LEMMA ClaudeCodeReads ==
  ASSUME NEW T, NEW file \in Files(T)
  PROVE  LET p == ClaudeCodeFile(file)
         IN  /\ p.ok => IsJson(file) /\ Reads(p, T, IF file.shape = "chats" THEN <<>> ELSE NonEmpty(file.texts))
             /\ ~ p.ok => \/ p.why = "parse" /\ ~ IsJson(file)
                          \/ p.why = "panic" /\ IsJson(file) /\ file.shape # "chats" /\ file.cuts # {}
<1> DEFINE filled == NonEmpty(file.texts)
           p == ClaudeCodeFile(file)
           memories == IF HasMessages(file) THEN OneConversation(Messages(file)) ELSE Whole(file)
           cut == HasMessages(file) /\ Messages(file) # <<>> /\ FirstText(file) \in file.cuts
<1>1. CASE ~ IsJson(file)
  <2>1. p = Err("parse")
    BY <1>1, Zenon DEF ClaudeCodeFile
  <2> HIDE DEF p
  <2> QED BY <1>1, <2>1, FileResults DEF p
<1>2. CASE IsJson(file) /\ ~ cut
  <2>1. p = Ok(memories)
    BY <1>2, Zenon DEF ClaudeCodeFile
  <2>2. filled \in Seq(T) /\ <<>> \in Seq(T)
    BY FilledAre
  <2>3. CASE file.shape = "chats"
    <3>1. memories = OneConversation(<<>>)
      BY <2>3 DEF HasMessages, Messages
    <3> HIDE DEF memories, p
    <3>2. memories \in Seq(Seq(T)) /\ TextsOf(memories) = <<>>
      BY <2>2, <3>1, OneMemory
    <3> QED BY <1>2, <2>1, <2>3, <3>2 DEF Reads, Ok, p
  <2>4. CASE file.shape # "chats"
    <3>1. memories = OneConversation(filled) \/ memories = <<filled>>
      BY <2>4, Zenon DEF HasMessages, Messages, Whole
    <3> HIDE DEF memories, p, filled
    <3>2. memories \in Seq(Seq(T)) /\ TextsOf(memories) = filled
      BY <2>2, <3>1, OneMemory
    <3> QED BY <1>2, <2>1, <2>4, <3>2 DEF Reads, Ok, p, filled
  <2> QED BY <2>3, <2>4
<1>3. CASE IsJson(file) /\ cut
  <2>1. p = Err("panic")
    BY <1>3, Zenon DEF ClaudeCodeFile
  <2>2. file.shape # "chats"
    BY <1>3 DEF Messages
  <2>3. file.cuts # {}
    BY <1>3
  <2> HIDE DEF p, cut
  <2> QED BY <1>3, <2>1, <2>2, <2>3, FileResults DEF p
<1> QED BY <1>1, <1>2, <1>3

LEMMA CopilotReads ==
  ASSUME NEW T, NEW file \in Files(T)
  PROVE  LET p == CopilotFile(file)
         IN  /\ p.ok => file.shape # "unreadable" /\ Reads(p, T, NonEmpty(file.texts))
             /\ ~ p.ok => \/ p.why = "parse" /\ file.shape = "unreadable"
                          \/ p.why = "panic" /\ file.shape # "unreadable" /\ file.cuts # {}
<1> DEFINE filled == NonEmpty(file.texts)
           p == CopilotFile(file)
           talks == HasMessages(file) /\ Messages(file) # <<>>
           memories == IF talks THEN <<Messages(file)>> ELSE Whole(file)
           place == IF talks THEN FirstText(file) ELSE 0
           a == file.shape = "unreadable"
           b == file.texts = <<>> /\ ~ IsJson(file)
<1>1. p = IF a THEN Err("parse") ELSE IF b THEN Ok(<<>>) ELSE IF place \in file.cuts THEN Err("panic") ELSE Ok(memories)
  BY DEF CopilotFile
<1>2. filled \in Seq(T) /\ (file.texts = <<>> => filled = <<>>)
  BY FilledAre
<1>3. memories = <<filled>>
  BY DEF HasMessages, Messages, Whole
<1>4. place \in file.cuts => file.cuts # {}
  OBVIOUS
<1>5. /\ <<>> \in Seq(Seq(T)) /\ TextsOf(<<>>) = <<>>
      /\ <<filled>> \in Seq(Seq(T)) /\ TextsOf(<<filled>>) = filled
  <2> HIDE DEF filled
  <2> QED BY <1>2, OneMemory
<1> HIDE DEF p, memories, place, filled
<1>6. CASE a
  <2>1. p = Err("parse")
    BY <1>1, <1>6
  <2> QED BY <1>6, <2>1, FileResults DEF p
<1>7. CASE ~ a /\ b
  <2>1. p = Ok(<<>>) /\ filled = <<>>
    BY <1>1, <1>2, <1>7
  <2>2. p.ok /\ p.memories = <<>>
    BY <2>1, FileResults
  <2>3. Reads(p, T, filled)
    BY <1>5, <2>1, <2>2 DEF Reads
  <2> QED BY <1>7, <2>2, <2>3 DEF p, filled
<1>8. CASE ~ a /\ ~ b /\ place \in file.cuts
  <2>1. p = Err("panic")
    BY <1>1, <1>8
  <2> QED BY <1>4, <1>8, <2>1, FileResults DEF p
<1>9. CASE ~ a /\ ~ b /\ place \notin file.cuts
  <2>1. p = Ok(<<filled>>)
    BY <1>1, <1>3, <1>9
  <2>2. p.ok /\ p.memories = <<filled>>
    BY <2>1, FileResults
  <2>3. Reads(p, T, filled)
    BY <1>5, <2>2 DEF Reads
  <2> QED BY <1>9, <2>2, <2>3 DEF p, filled
<1> QED BY <1>6, <1>7, <1>8, <1>9

LEMMA EachTextReads ==
  ASSUME NEW T, NEW file \in Files(T)
  PROVE  LET p == MarkdownFile(file)
             q == ClearFile(file)
         IN  /\ p.ok => file.shape # "unreadable" /\ Reads(p, T, NonEmpty(file.texts))
             /\ ~ p.ok => file.shape = "unreadable" \/ file.cuts # {}
             /\ q.ok => file.shape = "clear" /\ Reads(q, T, NonEmpty(file.texts))
<1> DEFINE filled == NonEmpty(file.texts)
           p == MarkdownFile(file)
           q == ClearFile(file)
           memories == [i \in DOMAIN filled |-> <<filled[i]>>]
<1>1. filled \in Seq(T)
  BY FilledAre
<1>2. memories \in Seq(Seq(T)) /\ TextsOf(memories) = filled
  <2> HIDE DEF filled
  <2> QED BY <1>1, MemoryEach
<1>3. p = IF file.shape = "unreadable" THEN Err("parse") ELSE IF CutsAText(file) THEN Err("panic") ELSE Ok(memories)
  BY DEF MarkdownFile
<1>4. q = IF file.shape # "clear" THEN Err("parse") ELSE IF CutsAText(file) THEN Err("panic") ELSE Ok(memories)
  BY DEF ClearFile
<1> HIDE DEF memories, p, q, filled
<1>5. CutsAText(file) => file.cuts # {}
  BY CutsSomewhere
<1>6. /\ p.ok => file.shape # "unreadable" /\ Reads(p, T, filled)
      /\ ~ p.ok => file.shape = "unreadable" \/ file.cuts # {}
  BY <1>2, <1>3, <1>5, FileResults DEF Reads
<1>7. q.ok => file.shape = "clear" /\ Reads(q, T, filled)
  BY <1>2, <1>4, FileResults DEF Reads
<1> QED BY <1>6, <1>7 DEF p, q, filled

LEMMA ChatGptReads ==
  ASSUME NEW T, NEW file \in Files(T)
  PROVE  /\ ChatGptFile(file).ok <=> file.shape \in {"array", "chats"}
         /\ file.shape = "array" => Reads(ChatGptFile(file), T, <<>>)
         /\ file.shape = "chats" => Reads(ChatGptFile(file), T, NonEmpty(ByNode(file)))
<1> DEFINE sorted == NonEmpty(ByNode(file))
           p == ChatGptFile(file)
<1>1. sorted \in Seq(T)
  BY SortingKeepsTexts
<1>2. /\ file.shape \notin {"array", "chats"} => p = Err("parse")
      /\ file.shape = "array" => p = Ok(<<>>)
      /\ file.shape = "chats" => p = Ok(OneConversation(sorted))
  BY DEF ChatGptFile
<1> HIDE DEF sorted, p
<1>3. /\ OneConversation(sorted) \in Seq(Seq(T)) /\ TextsOf(OneConversation(sorted)) = sorted
      /\ <<>> \in Seq(Seq(T)) /\ TextsOf(<<>>) = <<>>
  BY <1>1, OneMemory
<1>4. /\ p.ok <=> file.shape \in {"array", "chats"}
      /\ file.shape = "array" => Reads(p, T, <<>>)
      /\ file.shape = "chats" => Reads(p, T, sorted)
  <2>1. CASE file.shape \notin {"array", "chats"}
    BY <1>2, <2>1 DEF Err
  <2>2. CASE file.shape = "array"
    <3> DEFINE none == <<>>
    <3>1. p = Ok(none) /\ none \in Seq(Seq(T)) /\ TextsOf(none) = none
      BY <1>2, <1>3, <2>2
    <3> HIDE DEF none
    <3>2. Reads(p, T, none)
      BY <3>1 DEF Reads, Ok
    <3>3. p.ok
      BY <3>2 DEF Reads
    <3> QED BY <2>2, <3>2, <3>3 DEF none
  <2>3. CASE file.shape = "chats"
    BY <1>2, <1>3, <2>3 DEF Reads, Ok
  <2> QED BY <2>1, <2>2, <2>3
<1> QED BY <1>4 DEF sorted, p

LEMMA NoMemory ==
  ASSUME NEW T
  PROVE  <<>> \in Seq(Seq(T)) /\ TextsOf(<<>>) = <<>>
<1>1. <<>> \in Seq(T)
  OBVIOUS
<1> QED BY <1>1, OneMemory

(* What each file of a directory gives, one after the other.                 *)
LEMMA PartsRead ==
  ASSUME NEW T, NEW parts \in Seq(Seq(Seq(T))), NEW flat \in Seq(Seq(T)), Len(flat) = Len(parts),
         \A i \in 1 .. Len(parts) : TextsOf(parts[i]) = flat[i]
  PROVE  /\ FlattenSeq(parts) \in Seq(Seq(T)) /\ TextsOf(FlattenSeq(parts)) = FlattenSeq(flat)
         /\ FlattenSeq(flat) \in Seq(T)
<1>1. \A i \in 1 .. Len(parts) : flat[i] = FlattenSeq(parts[i])
  BY DEF TextsOf
<1>2. FlattenSeq(FlattenSeq(parts)) = FlattenSeq(flat) /\ FlattenSeq(parts) \in Seq(Seq(T))
  BY <1>1, FlattenTwice
<1>3. FlattenSeq(flat) \in Seq(T)
  <2>1. PICK run : FlatRun(run, flat, T) /\ FlattenSeq(flat) = run[Len(flat)]
    BY FlattenIs
  <2>2. Len(flat) \in 0 .. Len(flat)
    OBVIOUS
  <2> QED BY <2>1, <2>2 DEF FlatRun
<1> QED BY <1>2, <1>3 DEF TextsOf

(* The texts of the files of a directory.                                    *)
LEMMA FilesRead ==
  ASSUME NEW T, NEW files \in Seq(Files(T)), NEW name, NEW parts, parts = [i \in DOMAIN files |-> parts[i]],
         \A i \in DOMAIN files :
            /\ parts[i] \in Seq(Seq(T))
            /\ TextsOf(parts[i]) = IF Readable(files[i], name) THEN NonEmpty(files[i].texts) ELSE <<>>
  PROVE  /\ FlattenSeq(parts) \in Seq(Seq(T)) /\ TextsOf(FlattenSeq(parts)) = TextsIn(files, name)
         /\ TextsIn(files, name) \in Seq(T)
<1> DEFINE n == Len(files)
           Flat(i) == IF Readable(files[i], name) THEN NonEmpty(files[i].texts) ELSE <<>>
           flat == [i \in DOMAIN files |-> Flat(i)]
<1>1. n \in Nat /\ DOMAIN files = 1 .. n /\ \A i \in 1 .. n : files[i] \in Files(T)
  OBVIOUS
<1>2. TextsIn(files, name) = FlattenSeq(flat)
  BY DEF TextsIn
<1>3. \A i \in 1 .. n : Flat(i) \in Seq(T)
  <2> SUFFICES ASSUME NEW i \in 1 .. n PROVE Flat(i) \in Seq(T)
    OBVIOUS
  <2>1. files[i] \in Files(T)
    BY <1>1
  <2>2. NonEmpty(files[i].texts) \in Seq(T)
    BY <2>1, FilledAre
  <2>3. <<>> \in Seq(T)
    OBVIOUS
  <2> QED BY <2>2, <2>3
<1>4. flat = [i \in 1 .. n |-> flat[i]] /\ \A i \in 1 .. n : flat[i] = Flat(i)
  BY <1>1
<1>5. \A i \in 1 .. n : parts[i] \in Seq(Seq(T)) /\ TextsOf(parts[i]) = Flat(i)
  BY <1>1
<1>6. parts = [i \in 1 .. n |-> parts[i]]
  BY <1>1
<1> HIDE DEF flat, n, Flat
<1> DEFINE S == Seq(T)
           SS == Seq(S)
<1> HIDE DEF S, SS
<1>7. parts \in [1 .. n -> SS] /\ flat \in [1 .. n -> S]
  BY <1>3, <1>4, <1>5, <1>6 DEF S, SS
<1>8. \A i \in 1 .. n : TextsOf(parts[i]) = flat[i]
  BY <1>4, <1>5
<1>9. parts \in Seq(SS) /\ flat \in Seq(S) /\ Len(flat) = n /\ Len(parts) = n
  BY <1>1, <1>7
<1>10. /\ FlattenSeq(parts) \in Seq(Seq(T)) /\ TextsOf(FlattenSeq(parts)) = FlattenSeq(flat)
       /\ FlattenSeq(flat) \in Seq(T)
  BY <1>8, <1>9, PartsRead DEF S, SS
<1> QED BY <1>2, <1>10

LEMMA ClaudeCodeDir ==
  ASSUME NEW T, NEW files \in Seq(Files(T))
  PROVE  LET q == ReadEach(files, {"json"}, ClaudeCodeFile)
         IN  /\ q.ok => Reads(q, T, TextsIn(files, "claude_code"))
             /\ ~ q.ok => q.why = "panic" /\ \E i \in DOMAIN files : Stops(files[i], "claude_code")
<1> DEFINE q == ReadEach(files, {"json"}, ClaudeCodeFile)
           parts == [i \in DOMAIN files |-> IF files[i].ext \in {"json"} /\ ClaudeCodeFile(files[i]).ok
                                            THEN ClaudeCodeFile(files[i]).memories ELSE <<>>]
           bad == \E i \in DOMAIN files : files[i].ext \in {"json"} /\ Panics(ClaudeCodeFile(files[i]))
<1>1. q = IF bad THEN Err("panic") ELSE Ok(FlattenSeq(parts))
  BY DEF ReadEach
<1>2. parts = [i \in DOMAIN files |-> parts[i]]
  OBVIOUS
<1>3. ASSUME NEW i \in DOMAIN files
      PROVE  /\ (files[i].ext \in {"json"} /\ Panics(ClaudeCodeFile(files[i]))) => Stops(files[i], "claude_code")
             /\ ~ (files[i].ext \in {"json"} /\ Panics(ClaudeCodeFile(files[i]))) =>
                  /\ parts[i] \in Seq(Seq(T))
                  /\ TextsOf(parts[i]) = IF Readable(files[i], "claude_code") THEN NonEmpty(files[i].texts) ELSE <<>>
  <2> DEFINE file == files[i]
             p == ClaudeCodeFile(file)
             filled == NonEmpty(file.texts)
             part == parts[i]
  <2>1. file \in Files(T)
    OBVIOUS
  <2>2. /\ p.ok => IsJson(file) /\ Reads(p, T, IF file.shape = "chats" THEN <<>> ELSE filled)
        /\ ~ p.ok => \/ p.why = "parse" /\ ~ IsJson(file)
                     \/ p.why = "panic" /\ IsJson(file) /\ file.shape # "chats" /\ file.cuts # {}
    <3> HIDE DEF file
    <3> QED BY <2>1, ClaudeCodeReads
  <2>3. part = IF file.ext = "json" /\ p.ok THEN p.memories ELSE <<>>
    OBVIOUS
  <2>4. Readable(file, "claude_code") <=> file.ext = "json" /\ IsJson(file) /\ file.shape # "chats"
    BY DEF Readable
  <2>5. <<>> \in Seq(Seq(T)) /\ TextsOf(<<>>) = <<>>
    BY NoMemory
  <2> HIDE DEF part, p, filled, file
  <2>6. (file.ext = "json" /\ Panics(p)) => Stops(file, "claude_code")
    BY <2>2, <2>4 DEF Panics, Stops
  <2>7. ASSUME ~ (file.ext = "json" /\ Panics(p))
        PROVE  part \in Seq(Seq(T)) /\ TextsOf(part) = IF Readable(file, "claude_code") THEN filled ELSE <<>>
    <3>1. CASE file.ext = "json" /\ p.ok
      <4>1. Reads(p, T, IF file.shape = "chats" THEN <<>> ELSE filled) /\ part = p.memories /\ IsJson(file)
        BY <2>2, <2>3, <3>1
      <4> QED BY <2>4, <3>1, <4>1 DEF Reads
    <3>2. CASE ~ (file.ext = "json" /\ p.ok)
      <4>1. ~ Readable(file, "claude_code")
        BY <2>2, <2>4, <2>7, <3>2 DEF Panics
      <4> QED BY <2>3, <2>5, <3>2, <4>1
    <3> QED BY <3>1, <3>2
  <2> QED BY <2>6, <2>7 DEF part, p, filled, file
<1>4. CASE bad
  <2>1. \E i \in DOMAIN files : Stops(files[i], "claude_code")
    BY <1>3, <1>4
  <2>2. q = Err("panic")
    BY <1>1, <1>4
  <2> HIDE DEF q, bad
  <2> QED BY <2>1, <2>2, FileResults DEF q
<1>5. CASE ~ bad
  <2>1. ASSUME NEW i \in DOMAIN files
        PROVE  /\ parts[i] \in Seq(Seq(T))
               /\ TextsOf(parts[i]) = IF Readable(files[i], "claude_code") THEN NonEmpty(files[i].texts) ELSE <<>>
    BY <1>3, <1>5
  <2>2. q = Ok(FlattenSeq(parts))
    BY <1>1, <1>5
  <2> HIDE DEF parts, q, bad
  <2>3. FlattenSeq(parts) \in Seq(Seq(T)) /\ TextsOf(FlattenSeq(parts)) = TextsIn(files, "claude_code")
    BY <1>2, <2>1, FilesRead
  <2>4. q.ok /\ Reads(q, T, TextsIn(files, "claude_code"))
    BY <2>2, <2>3, FileResults DEF Reads
  <2> QED BY <2>4 DEF q
<1> QED BY <1>4, <1>5

LEMMA CopilotDir ==
  ASSUME NEW T, NEW files \in Seq(Files(T))
  PROVE  LET q == ReadEach(files, {"log", "json"}, CopilotFile)
         IN  /\ q.ok => Reads(q, T, TextsIn(files, "copilot"))
             /\ ~ q.ok => q.why = "panic" /\ \E i \in DOMAIN files : Stops(files[i], "copilot")
<1> DEFINE q == ReadEach(files, {"log", "json"}, CopilotFile)
           parts == [i \in DOMAIN files |-> IF files[i].ext \in {"log", "json"} /\ CopilotFile(files[i]).ok
                                            THEN CopilotFile(files[i]).memories ELSE <<>>]
           bad == \E i \in DOMAIN files : files[i].ext \in {"log", "json"} /\ Panics(CopilotFile(files[i]))
<1>1. q = IF bad THEN Err("panic") ELSE Ok(FlattenSeq(parts))
  BY DEF ReadEach
<1>2. parts = [i \in DOMAIN files |-> parts[i]]
  OBVIOUS
<1>3. ASSUME NEW i \in DOMAIN files
      PROVE  /\ (files[i].ext \in {"log", "json"} /\ Panics(CopilotFile(files[i]))) => Stops(files[i], "copilot")
             /\ ~ (files[i].ext \in {"log", "json"} /\ Panics(CopilotFile(files[i]))) =>
                  /\ parts[i] \in Seq(Seq(T))
                  /\ TextsOf(parts[i]) = IF Readable(files[i], "copilot") THEN NonEmpty(files[i].texts) ELSE <<>>
  <2> DEFINE file == files[i]
             p == CopilotFile(file)
             filled == NonEmpty(file.texts)
             part == parts[i]
  <2>1. file \in Files(T)
    OBVIOUS
  <2>2. /\ p.ok => file.shape # "unreadable" /\ Reads(p, T, filled)
        /\ ~ p.ok => \/ p.why = "parse" /\ file.shape = "unreadable"
                     \/ p.why = "panic" /\ file.shape # "unreadable" /\ file.cuts # {}
    <3> HIDE DEF file
    <3> QED BY <2>1, CopilotReads
  <2>3. part = IF file.ext \in {"log", "json"} /\ p.ok THEN p.memories ELSE <<>>
    OBVIOUS
  <2>4. Readable(file, "copilot") <=> file.ext \in {"log", "json"} /\ file.shape # "unreadable"
    BY DEF Readable
  <2>5. <<>> \in Seq(Seq(T)) /\ TextsOf(<<>>) = <<>>
    BY NoMemory
  <2> HIDE DEF part, p, filled, file
  <2>6. (file.ext \in {"log", "json"} /\ Panics(p)) => Stops(file, "copilot")
    BY <2>2, <2>4 DEF Panics, Stops
  <2>7. ASSUME ~ (file.ext \in {"log", "json"} /\ Panics(p))
        PROVE  part \in Seq(Seq(T)) /\ TextsOf(part) = IF Readable(file, "copilot") THEN filled ELSE <<>>
    <3>1. CASE file.ext \in {"log", "json"} /\ p.ok
      <4>1. Reads(p, T, filled) /\ part = p.memories /\ file.shape # "unreadable"
        BY <2>2, <2>3, <3>1
      <4> QED BY <2>4, <3>1, <4>1 DEF Reads
    <3>2. CASE ~ (file.ext \in {"log", "json"} /\ p.ok)
      <4>1. ~ Readable(file, "copilot")
        BY <2>2, <2>4, <2>7, <3>2 DEF Panics
      <4> QED BY <2>3, <2>5, <3>2, <4>1
    <3> QED BY <3>1, <3>2
  <2> QED BY <2>6, <2>7 DEF part, p, filled, file
<1>4. CASE bad
  <2>1. \E i \in DOMAIN files : Stops(files[i], "copilot")
    BY <1>3, <1>4
  <2>2. q = Err("panic")
    BY <1>1, <1>4
  <2> HIDE DEF q, bad
  <2> QED BY <2>1, <2>2, FileResults DEF q
<1>5. CASE ~ bad
  <2>1. ASSUME NEW i \in DOMAIN files
        PROVE  /\ parts[i] \in Seq(Seq(T))
               /\ TextsOf(parts[i]) = IF Readable(files[i], "copilot") THEN NonEmpty(files[i].texts) ELSE <<>>
    BY <1>3, <1>5
  <2>2. q = Ok(FlattenSeq(parts))
    BY <1>1, <1>5
  <2> HIDE DEF parts, q, bad
  <2>3. FlattenSeq(parts) \in Seq(Seq(T)) /\ TextsOf(FlattenSeq(parts)) = TextsIn(files, "copilot")
    BY <1>2, <2>1, FilesRead
  <2>4. q.ok /\ Reads(q, T, TextsIn(files, "copilot"))
    BY <2>2, <2>3, FileResults DEF Reads
  <2> QED BY <2>4 DEF q
<1> QED BY <1>4, <1>5

LEMMA MarkdownDir ==
  ASSUME NEW T, NEW files \in Seq(Files(T))
  PROVE  LET p == ReadAll(files, {"md", "txt"}, MarkdownFile)
         IN  /\ p.ok => Reads(p, T, TextsIn(files, "markdown"))
             /\ ~ p.ok => \E i \in DOMAIN files : Stops(files[i], "markdown")
<1> DEFINE p == ReadAll(files, {"md", "txt"}, MarkdownFile)
           parts == [i \in DOMAIN files |-> IF files[i].ext \in {"md", "txt"} THEN MarkdownFile(files[i]).memories ELSE <<>>]
           bad == SelectInSeq(files, LAMBDA f : f.ext \in {"md", "txt"} /\ ~ MarkdownFile(f).ok)
           failing == {i \in 1 .. Len(files) : files[i].ext \in {"md", "txt"} /\ ~ MarkdownFile(files[i]).ok}
<1>1. p = IF bad # 0 THEN Err(MarkdownFile(files[bad]).why) ELSE Ok(FlattenSeq(parts))
  BY DEF ReadAll
<1>2. parts = [i \in DOMAIN files |-> parts[i]]
  OBVIOUS
<1>3. bad = IF failing # {} THEN Min(failing) ELSE 0
  BY DEF SelectInSeq
<1>4. (bad = 0 <=> failing = {}) /\ Len(files) \in Nat /\ DOMAIN files = 1 .. Len(files)
  <2>1. Len(files) \in Nat /\ failing \in SUBSET (1 .. Len(files)) /\ DOMAIN files = 1 .. Len(files)
    OBVIOUS
  <2> HIDE DEF bad, failing
  <2> QED BY <1>3, <2>1, LeastIs
<1>5. ASSUME NEW i \in DOMAIN files
      PROVE  /\ MarkdownFile(files[i]).ok => /\ files[i].shape # "unreadable"
                                             /\ Reads(MarkdownFile(files[i]), T, NonEmpty(files[i].texts))
             /\ ~ MarkdownFile(files[i]).ok => files[i].shape = "unreadable" \/ files[i].cuts # {}
  <2> DEFINE file == files[i]
  <2>1. file \in Files(T)
    OBVIOUS
  <2> HIDE DEF file
  <2>2. /\ MarkdownFile(file).ok => file.shape # "unreadable" /\ Reads(MarkdownFile(file), T, NonEmpty(file.texts))
        /\ ~ MarkdownFile(file).ok => file.shape = "unreadable" \/ file.cuts # {}
    BY <2>1, EachTextReads
  <2> QED BY <2>2 DEF file
<1>6. ASSUME failing = {}, NEW i \in DOMAIN files
      PROVE  /\ parts[i] \in Seq(Seq(T))
             /\ TextsOf(parts[i]) = IF Readable(files[i], "markdown") THEN NonEmpty(files[i].texts) ELSE <<>>
  <2> DEFINE file == files[i]
             q == MarkdownFile(file)
             filled == NonEmpty(file.texts)
             part == parts[i]
  <2>1. file.ext \in {"md", "txt"} => file.shape # "unreadable" /\ Reads(q, T, filled)
    BY <1>4, <1>5, <1>6
  <2>2. part = IF file.ext \in {"md", "txt"} THEN q.memories ELSE <<>>
    OBVIOUS
  <2>3. Readable(file, "markdown") <=> file.ext \in {"md", "txt"} /\ file.shape # "unreadable"
    BY DEF Readable
  <2>4. <<>> \in Seq(Seq(T)) /\ TextsOf(<<>>) = <<>>
    BY NoMemory
  <2> HIDE DEF part, q, filled, file
  <2>5. part \in Seq(Seq(T)) /\ TextsOf(part) = IF Readable(file, "markdown") THEN filled ELSE <<>>
    BY <2>1, <2>2, <2>3, <2>4 DEF Reads
  <2> QED BY <2>5 DEF part, filled, file
<1>7. CASE failing # {}
  <2>1. PICK i \in failing : TRUE
    BY <1>7
  <2>2. /\ i \in DOMAIN files /\ files[i].ext \in {"md", "txt"}
        /\ files[i].shape = "unreadable" \/ files[i].cuts # {}
    BY <1>4, <1>5, <2>1
  <2>3. Stops(files[i], "markdown")
    <3> DEFINE f == files[i]
    <3>1. f.ext \in {"md", "txt"} /\ (f.shape = "unreadable" \/ f.cuts # {})
      BY <2>2
    <3> HIDE DEF f
    <3>2. Readable(f, "markdown") <=> f.ext \in {"md", "txt"} /\ f.shape # "unreadable"
      BY DEF Readable
    <3>3. Stops(f, "markdown")
      BY <3>1, <3>2 DEF Stops
    <3> QED BY <3>3 DEF f
  <2>4. ~ p.ok
    <3> HIDE DEF p, bad, failing
    <3> QED BY <1>1, <1>4, <1>7, FileResults
  <2> QED BY <2>2, <2>3, <2>4
<1>8. CASE failing = {}
  <2>1. FlattenSeq(parts) \in Seq(Seq(T)) /\ TextsOf(FlattenSeq(parts)) = TextsIn(files, "markdown")
    <3>1. \A i \in DOMAIN files :
            /\ parts[i] \in Seq(Seq(T))
            /\ TextsOf(parts[i]) = IF Readable(files[i], "markdown") THEN NonEmpty(files[i].texts) ELSE <<>>
      BY <1>6, <1>8
    <3> HIDE DEF parts
    <3> QED BY <1>2, <3>1, FilesRead
  <2>2. p = Ok(FlattenSeq(parts))
    <3> HIDE DEF p, parts, failing, bad
    <3> QED BY <1>1, <1>4, <1>8
  <2> HIDE DEF p, parts
  <2>3. Reads(p, T, TextsIn(files, "markdown")) /\ p.ok
    BY <2>1, <2>2, FileResults DEF Reads
  <2> QED BY <2>3 DEF p
<1> QED BY <1>7, <1>8

LEMMA ChannelReads ==
  ASSUME NEW T, NEW files \in Seq(Files(T))
  PROVE  /\ SlackChannel(files) \in Seq(Seq(T)) /\ TextsOf(SlackChannel(files)) = TextsIn(files, "slack")
         /\ TextsIn(files, "slack") \in Seq(T)
<1> DEFINE parts == [i \in DOMAIN files |-> IF files[i].ext = "json" /\ files[i].shape \in {"array", "chats"}
                                            THEN OneConversation(Messages(files[i])) ELSE <<>>]
<1>1. SlackChannel(files) = FlattenSeq(parts)
  BY DEF SlackChannel
<1>2. parts = [i \in DOMAIN files |-> parts[i]]
  OBVIOUS
<1>3. ASSUME NEW i \in DOMAIN files
      PROVE  /\ parts[i] \in Seq(Seq(T))
             /\ TextsOf(parts[i]) = IF Readable(files[i], "slack") THEN NonEmpty(files[i].texts) ELSE <<>>
  <2> DEFINE file == files[i]
             filled == NonEmpty(file.texts)
             said == Messages(file)
             part == parts[i]
  <2>1. file \in Files(T)
    OBVIOUS
  <2>2. filled \in Seq(T) /\ <<>> \in Seq(T)
    <3> HIDE DEF file
    <3> QED BY <2>1, FilledAre
  <2>3. part = IF file.ext = "json" /\ file.shape \in {"array", "chats"} THEN OneConversation(said) ELSE <<>>
    OBVIOUS
  <2>4. Readable(file, "slack") <=> file.ext = "json" /\ file.shape = "array"
    BY DEF Readable
  <2>5. said = IF file.shape = "chats" THEN <<>> ELSE filled
    BY DEF Messages
  <2>6. <<>> \in Seq(Seq(T)) /\ TextsOf(<<>>) = <<>>
    BY NoMemory
  <2> HIDE DEF part, said, filled, file
  <2>7. said \in Seq(T)
    BY <2>2, <2>5
  <2>8. OneConversation(said) \in Seq(Seq(T)) /\ TextsOf(OneConversation(said)) = said
    BY <2>7, OneMemory
  <2>9. part \in Seq(Seq(T)) /\ TextsOf(part) = IF Readable(file, "slack") THEN filled ELSE <<>>
    <3>1. CASE file.ext = "json" /\ file.shape = "array"
      <4>1. part = OneConversation(said) /\ said = filled
        BY <2>3, <2>5, <3>1
      <4> QED BY <2>4, <2>8, <3>1, <4>1
    <3>2. CASE file.ext = "json" /\ file.shape = "chats"
      <4>1. part = OneConversation(said) /\ said = <<>> /\ ~ Readable(file, "slack")
        BY <2>3, <2>4, <2>5, <3>2
      <4> QED BY <2>8, <4>1
    <3>3. CASE ~ (file.ext = "json" /\ file.shape \in {"array", "chats"})
      BY <2>3, <2>4, <2>6, <3>3
    <3> QED BY <3>1, <3>2, <3>3
  <2> QED BY <2>9 DEF part, filled, file
<1> HIDE DEF parts
<1>4. /\ FlattenSeq(parts) \in Seq(Seq(T)) /\ TextsOf(FlattenSeq(parts)) = TextsIn(files, "slack")
      /\ TextsIn(files, "slack") \in Seq(T)
  BY <1>2, <1>3, FilesRead
<1> QED BY <1>1, <1>4

LEMMA SlackReads ==
  ASSUME NEW T, NEW dirs \in Seq(Seq(Files(T)))
  PROVE  Reads(Ok(FlattenSeq([i \in DOMAIN dirs |-> SlackChannel(dirs[i])])), T,
               FlattenSeq([i \in DOMAIN dirs |-> TextsIn(dirs[i], "slack")]))
<1> DEFINE n == Len(dirs)
           parts == [i \in DOMAIN dirs |-> SlackChannel(dirs[i])]
           flat == [i \in DOMAIN dirs |-> TextsIn(dirs[i], "slack")]
           S == Seq(T)
           SS == Seq(S)
<1>1. n \in Nat /\ DOMAIN dirs = 1 .. n /\ \A i \in 1 .. n : dirs[i] \in Seq(Files(T))
  OBVIOUS
<1>2. /\ parts = [i \in 1 .. n |-> parts[i]] /\ flat = [i \in 1 .. n |-> flat[i]]
      /\ \A i \in 1 .. n : parts[i] = SlackChannel(dirs[i]) /\ flat[i] = TextsIn(dirs[i], "slack")
  BY <1>1
<1> HIDE DEF parts, flat, S, SS, n
<1>3. \A i \in 1 .. n : parts[i] \in SS /\ flat[i] \in S /\ TextsOf(parts[i]) = flat[i]
  <2> SUFFICES ASSUME NEW i \in 1 .. n PROVE parts[i] \in SS /\ flat[i] \in S /\ TextsOf(parts[i]) = flat[i]
    OBVIOUS
  <2>1. dirs[i] \in Seq(Files(T))
    BY <1>1
  <2>2. /\ SlackChannel(dirs[i]) \in Seq(Seq(T)) /\ TextsOf(SlackChannel(dirs[i])) = TextsIn(dirs[i], "slack")
        /\ TextsIn(dirs[i], "slack") \in Seq(T)
    BY <2>1, ChannelReads
  <2> QED BY <1>2, <2>2 DEF S, SS
<1>4. parts \in [1 .. n -> SS] /\ flat \in [1 .. n -> S]
  BY <1>2, <1>3
<1>5. parts \in Seq(SS) /\ flat \in Seq(S) /\ Len(flat) = n /\ Len(parts) = n
  BY <1>1, <1>4
<1>6. FlattenSeq(parts) \in Seq(Seq(T)) /\ TextsOf(FlattenSeq(parts)) = FlattenSeq(flat)
  BY <1>3, <1>5, PartsRead DEF S, SS
<1>7. Reads(Ok(FlattenSeq(parts)), T, FlattenSeq(flat))
  BY <1>6 DEF Reads, Ok
<1> QED BY <1>7 DEF parts, flat

(* A path: nothing, a file, or a directory with its files and those of its   *)
(* subdirectories.                                                           *)
PathsOf(T) ==
  [type : {"missing"}] \cup [type : {"file"}, file : Files(T)]
    \cup [type : {"dir"}, files : Seq(Files(T)), subdirs : Seq(Seq(Files(T)))]

Sound(p, T) == p.ok => p.memories \in Seq(Seq(T))

LEMMA FormatsAreSound ==
  ASSUME NEW T, NEW path \in PathsOf(T), path.type # "missing"
  PROVE  /\ Sound(ParseClear(path), T) /\ Sound(ParseMarkdown(path), T) /\ Sound(ParseChatGpt(path), T)
         /\ Sound(ParseClaudeCode(path), T) /\ Sound(ParseCopilot(path), T) /\ Sound(ParseSlack(path), T)
<1>1. CASE path.type = "file"
  <2> DEFINE file == path.file
  <2>1. file \in Files(T)
    BY <1>1 DEF PathsOf
  <2>2. /\ ParseClear(path) = ClearFile(file) /\ ParseMarkdown(path) = MarkdownFile(file)
        /\ ParseChatGpt(path) = ChatGptFile(file) /\ ParseClaudeCode(path) = ClaudeCodeFile(file)
        /\ ParseCopilot(path) = CopilotFile(file) /\ ParseSlack(path) = Err("parse")
    BY <1>1, Zenon DEF ParseClear, ParseMarkdown, ParseChatGpt, ParseClaudeCode, ParseCopilot, ParseSlack
  <2> HIDE DEF file
  <2>3. Sound(ClearFile(file), T) /\ Sound(MarkdownFile(file), T)
    BY <2>1, EachTextReads DEF Sound, Reads
  <2>4. Sound(ChatGptFile(file), T)
    BY <2>1, ChatGptReads DEF Sound, Reads
  <2>5. Sound(ClaudeCodeFile(file), T) /\ Sound(CopilotFile(file), T)
    BY <2>1, ClaudeCodeReads, CopilotReads DEF Sound, Reads
  <2>6. Sound(Err("parse"), T)
    BY DEF Sound, Err
  <2> QED BY <2>2, <2>3, <2>4, <2>5, <2>6
<1>2. CASE path.type = "dir"
  <2> DEFINE files == path.files
             dirs == path.subdirs
  <2>1. files \in Seq(Files(T)) /\ dirs \in Seq(Seq(Files(T)))
    BY <1>2 DEF PathsOf
  <2>2. /\ ParseClear(path) = Err("parse") /\ ParseChatGpt(path) = Err("parse")
        /\ ParseMarkdown(path) = ReadAll(files, {"md", "txt"}, MarkdownFile)
        /\ ParseClaudeCode(path) = ReadEach(files, {"json"}, ClaudeCodeFile)
        /\ ParseCopilot(path) = ReadEach(files, {"log", "json"}, CopilotFile)
        /\ ParseSlack(path) = Ok(FlattenSeq([i \in DOMAIN dirs |-> SlackChannel(dirs[i])]))
    BY <1>2 DEF ParseClear, ParseMarkdown, ParseChatGpt, ParseClaudeCode, ParseCopilot, ParseSlack
  <2> HIDE DEF files, dirs
  <2>3. Sound(ReadAll(files, {"md", "txt"}, MarkdownFile), T)
    BY <2>1, MarkdownDir DEF Sound, Reads
  <2>4. Sound(ReadEach(files, {"json"}, ClaudeCodeFile), T) /\ Sound(ReadEach(files, {"log", "json"}, CopilotFile), T)
    BY <2>1, ClaudeCodeDir, CopilotDir DEF Sound, Reads
  <2>5. Sound(Ok(FlattenSeq([i \in DOMAIN dirs |-> SlackChannel(dirs[i])])), T)
    BY <2>1, SlackReads DEF Sound, Reads
  <2>6. Sound(Err("parse"), T)
    BY DEF Sound, Err
  <2> QED BY <2>2, <2>3, <2>4, <2>5, <2>6
<1> QED BY <1>1, <1>2 DEF PathsOf

LEMMA ParseIs ==
  ASSUME NEW T, NEW path \in PathsOf(T), NEW name
  PROVE  /\ Sound(Parse(path, name), T)
         /\ (name \in Formats /\ path.type # "missing") =>
               Parse(path, name) = CASE name = "clear" -> ParseClear(path)
                                     [] name = "markdown" -> ParseMarkdown(path)
                                     [] name = "chatgpt" -> ParseChatGpt(path)
                                     [] name = "claude_code" -> ParseClaudeCode(path)
                                     [] name = "copilot" -> ParseCopilot(path)
                                     [] name = "slack" -> ParseSlack(path)
<1> DEFINE format == IF name = "auto" THEN DetectFormat(path) ELSE name
           Of(f) == CASE f = "clear" -> ParseClear(path)
                      [] f = "markdown" -> ParseMarkdown(path)
                      [] f = "chatgpt" -> ParseChatGpt(path)
                      [] f = "claude_code" -> ParseClaudeCode(path)
                      [] f = "copilot" -> ParseCopilot(path)
                      [] f = "slack" -> ParseSlack(path)
<1>1. Parse(path, name) = IF format \notin Formats THEN Err(format)
                          ELSE IF path.type = "missing" THEN Err("parse") ELSE Of(format)
  BY DEF Parse
<1>2. name \in Formats => format = name
  BY DEF Formats
<1>3. Sound(Err("parse"), T) /\ Sound(Err(format), T)
  BY DEF Sound, Err
<1>4. ASSUME path.type # "missing", NEW f \in Formats PROVE Sound(Of(f), T)
  <2>1. Of(f) \in {ParseClear(path), ParseMarkdown(path), ParseChatGpt(path),
                   ParseClaudeCode(path), ParseCopilot(path), ParseSlack(path)}
    BY DEF Formats
  <2> HIDE DEF Of
  <2> QED BY <1>4, <2>1, FormatsAreSound
<1>5. Sound(Parse(path, name), T)
  <2> HIDE DEF format, Of
  <2>1. CASE format \notin Formats
    BY <1>1, <1>3, <2>1
  <2>2. CASE format \in Formats /\ path.type = "missing"
    BY <1>1, <1>3, <2>2
  <2>3. CASE format \in Formats /\ path.type # "missing"
    BY <1>1, <1>4, <2>3
  <2> QED BY <2>1, <2>2, <2>3
<1>6. (name \in Formats /\ path.type # "missing") => Parse(path, name) = Of(name)
  <2> HIDE DEF format, Of
  <2> QED BY <1>1, <1>2
<1> QED BY <1>5, <1>6, Zenon

(* The content of each row.                                                  *)
Maps(X, Y) == [X -> Y]
Mapped(s, f) == [i \in DOMAIN s |-> f[s[i]]]

LEMMA MappedIs ==
  ASSUME NEW X, NEW Y, NEW f \in Maps(X, Y), NEW s \in Seq(X)
  PROVE  /\ Mapped(s, f) \in Seq(Y) /\ Len(Mapped(s, f)) = Len(s)
         /\ \A i \in 1 .. Len(s) : Mapped(s, f)[i] = f[s[i]]
<1> DEFINE n == Len(s)
           m == Mapped(s, f)
<1>1. n \in Nat /\ DOMAIN s = 1 .. n /\ \A i \in 1 .. n : s[i] \in X
  OBVIOUS
<1>2. m = [i \in 1 .. n |-> f[s[i]]]
  BY <1>1 DEF Mapped
<1>3. \A i \in 1 .. n : m[i] = f[s[i]] /\ m[i] \in Y
  BY <1>1, <1>2 DEF Maps
<1> HIDE DEF n, m
<1>4. m \in [1 .. n -> Y]
  BY <1>1, <1>2, <1>3
<1>5. m \in Seq(Y) /\ Len(m) = n
  BY <1>1, <1>4
<1> QED BY <1>3, <1>5 DEF n, m

LEMMA MappedJoins ==
  ASSUME NEW X, NEW Y, NEW f \in Maps(X, Y), NEW s \in Seq(X), NEW t \in Seq(X)
  PROVE  Mapped(s \o t, f) = Mapped(s, f) \o Mapped(t, f)
<1> DEFINE a == Len(s)
           b == Len(t)
           w == s \o t
           u == Mapped(s, f)
           v == Mapped(t, f)
           l == Mapped(w, f)
           r == u \o v
<1>1. /\ a \in Nat /\ b \in Nat /\ w \in Seq(X) /\ Len(w) = a + b
      /\ \A i \in 1 .. a + b : w[i] = IF i <= a THEN s[i] ELSE t[i - a]
  BY ConcatProperties
<1>2. u \in Seq(Y) /\ Len(u) = a /\ \A i \in 1 .. a : u[i] = f[s[i]]
  BY MappedIs
<1>3. v \in Seq(Y) /\ Len(v) = b /\ \A i \in 1 .. b : v[i] = f[t[i]]
  BY MappedIs
<1> HIDE DEF w
<1>4. w \in Seq(X)
  BY <1>1
<1>5. l \in Seq(Y) /\ Len(l) = Len(w) /\ \A i \in 1 .. Len(w) : l[i] = f[w[i]]
  BY <1>4, MappedIs
<1> HIDE DEF u, v, a, b
<1>6. /\ r \in Seq(Y) /\ Len(r) = a + b
      /\ \A i \in 1 .. a + b : r[i] = IF i <= a THEN u[i] ELSE v[i - a]
  <2>1. u \in Seq(Y) /\ v \in Seq(Y)
    BY <1>2, <1>3
  <2>2. /\ r \in Seq(Y) /\ Len(r) = Len(u) + Len(v)
        /\ \A i \in 1 .. Len(u) + Len(v) : r[i] = IF i <= Len(u) THEN u[i] ELSE v[i - Len(u)]
    BY ONLY <2>1, ConcatProperties
  <2>3. Len(u) = a /\ Len(v) = b
    BY <1>2, <1>3
  <2> QED BY <2>2, <2>3
<1> HIDE DEF l, r, a, b
<1>7. ASSUME NEW i \in 1 .. a + b PROVE l[i] = r[i]
  <2>1. CASE i <= a
    <3>1. i \in 1 .. a
      BY <1>1, <2>1
    <3>2. w[i] = s[i] /\ r[i] = u[i]
      BY <1>1, <1>6, <2>1
    <3> QED BY <1>1, <1>2, <1>5, <3>1, <3>2
  <2>2. CASE ~ (i <= a)
    <3> DEFINE j == i - a
    <3>1. j \in 1 .. b
      BY <1>1, <2>2
    <3>2. w[i] = t[j] /\ r[i] = v[j]
      BY <1>1, <1>6, <2>2
    <3> HIDE DEF j
    <3> QED BY <1>1, <1>3, <1>5, <3>1, <3>2
  <2> QED BY <2>1, <2>2
<1>8. l = r
  BY <1>1, <1>5, <1>6, <1>7, SeqEqual
<1> QED BY <1>8 DEF l, r, w, u, v

PartsMapped(s, t, f, X, Y) ==
  /\ f \in Maps(X, Y) /\ s \in Seq(Seq(X)) /\ t \in Seq(Seq(Y)) /\ Len(t) = Len(s)
  /\ \A i \in 1 .. Len(s) : t[i] = Mapped(s[i], f)

LEMMA MappedFlat ==
  ASSUME NEW X, NEW Y, NEW f, NEW s, NEW t, PartsMapped(s, t, f, X, Y)
  PROVE  Mapped(FlattenSeq(s), f) = FlattenSeq(t) /\ FlattenSeq(s) \in Seq(X)
<1> DEFINE n == Len(s)
<1> USE DEF PartsMapped
<1>1. n \in Nat /\ \A i \in 1 .. n : s[i] \in Seq(X)
  OBVIOUS
<1>2. PICK run : FlatRun(run, s, X) /\ FlattenSeq(s) = run[n]
  BY FlattenIs
<1>3. /\ run[0] = <<>> /\ \A i \in 0 .. n : run[i] \in Seq(X)
      /\ \A i \in 1 .. n : run[i] = run[i - 1] \o s[i]
  BY <1>2 DEF FlatRun
<1> DEFINE h == [i \in 0 .. n |-> Mapped(run[i], f)]
<1>4. \A i \in 0 .. n : h[i] = Mapped(run[i], f)
  OBVIOUS
<1> HIDE DEF h, n
<1>5. h[0] = <<>>
  <2>1. 0 \in 0 .. n
    BY <1>1
  <2>2. Mapped(run[0], f) = <<>>
    BY <1>3 DEF Mapped
  <2> QED BY <1>4, <2>1, <2>2
<1>6. ASSUME NEW i \in 1 .. n PROVE h[i] = h[i - 1] \o t[i]
  <2>1. i - 1 \in 0 .. n /\ i \in 0 .. n
    BY <1>1
  <2>2. run[i - 1] \in Seq(X) /\ s[i] \in Seq(X) /\ run[i] = run[i - 1] \o s[i]
    BY <1>1, <1>3, <2>1
  <2>3. Mapped(run[i - 1] \o s[i], f) = Mapped(run[i - 1], f) \o Mapped(s[i], f)
    BY <2>2, MappedJoins
  <2>4. t[i] = Mapped(s[i], f)
    BY DEF n
  <2> QED BY <1>4, <2>1, <2>2, <2>3, <2>4
<1>7. FlattenSeq(t) = h[Len(t)]
  BY <1>5, <1>6, FlattenByRun DEF n
<1>8. n \in 0 .. n /\ Len(t) = n
  BY <1>1 DEF n
<1> QED BY <1>2, <1>3, <1>4, <1>7, <1>8

(* What is not empty stays.                                                  *)
LEMMA NonEmptyTwice ==
  ASSUME NEW T, NEW texts \in Seq(T)
  PROVE  NonEmpty(texts) \in Seq(T) /\ NonEmpty(NonEmpty(texts)) = NonEmpty(texts)
<1> DEFINE s == NonEmpty(texts)
<1>1. s \in Seq(T) /\ ToSet(s) = {texts[i] : i \in Filled(texts, Len(texts))}
  BY NonEmptyIs
<1> HIDE DEF s
<1>2. \A i \in 1 .. Len(s) : s[i] # ""
  <2> SUFFICES ASSUME NEW i \in 1 .. Len(s) PROVE s[i] # ""
    OBVIOUS
  <2>1. i \in DOMAIN s
    BY <1>1
  <2>2. s[i] \in ToSet(s)
    BY <2>1 DEF ToSet
  <2> QED BY <1>1, <2>2 DEF Filled
<1>3. NonEmpty(s) = s
  BY <1>1, <1>2, NonEmptyIs
<1> QED BY <1>1, <1>3 DEF s

(* The columns found among the first headers.                                *)
Roles == [date : Nat, author : Nat, content : Nat]
NamedTurn(m, header, i) == IF header \in DOMAIN Columns THEN [m EXCEPT ![header] = i] ELSE m

LEMMA NamedTurnIs ==
  ASSUME NEW m \in Roles, NEW header, NEW i \in Nat
  PROVE  /\ NamedTurn(m, header, i) \in Roles
         /\ NamedTurn(m, header, i).content = IF header = "content" THEN i ELSE m.content
<1>1. DOMAIN Columns = {"date", "author", "content"}
  BY DEF Columns
<1>2. CASE header = "content"
  <2>1. NamedTurn(m, header, i) = [m EXCEPT !.content = i]
    BY <1>1, <1>2 DEF NamedTurn
  <2> QED BY <1>2, <2>1 DEF Roles
<1>3. CASE header = "date"
  <2>1. NamedTurn(m, header, i) = [m EXCEPT !.date = i]
    BY <1>1, <1>3 DEF NamedTurn
  <2> QED BY <1>3, <2>1 DEF Roles
<1>4. CASE header = "author"
  <2>1. NamedTurn(m, header, i) = [m EXCEPT !.author = i]
    BY <1>1, <1>4 DEF NamedTurn
  <2> QED BY <1>4, <2>1 DEF Roles
<1>5. CASE header \notin {"date", "author", "content"}
  <2>1. NamedTurn(m, header, i) = m
    BY <1>1, <1>5 DEF NamedTurn
  <2> QED BY <1>5, <2>1 DEF Roles
<1> QED BY <1>2, <1>3, <1>4, <1>5

HeadersNamed(headers, k) == {i \in 1 .. k : headers[i] = "content"}
LastNamed(c, S) == IF S = {} THEN c = NoColumn ELSE c \in S /\ \A j \in S : j <= c

LEMMA NamedIs ==
  ASSUME NEW headers \in Seq(STRING)
  PROVE  /\ Named(headers) \in Roles
         /\ LastNamed(Named(headers).content, HeadersNamed(headers, Len(headers)))
<1> DEFINE n == Len(headers)
           S == Roles
           start == Columns
           F(f) == [i \in 0 .. n |-> IF i = 0 THEN Columns
                                    ELSE IF headers[i] \in DOMAIN Columns THEN [f[i - 1] EXCEPT ![headers[i]] = i]
                                    ELSE f[i - 1]]
           acc == CHOOSE f : f = F(f)
           turn == [p \in (1 .. n) \X S |-> NamedTurn(p[2], headers[p[1]], p[1])]
<1>1. n \in Nat
  OBVIOUS
<1>2. Named(headers) = acc[n]
  BY DEF Named
<1> HIDE DEF n
<1>3. start \in S /\ start.content = NoColumn
  BY DEF Columns, Roles, NoColumn
<1>4. ASSUME NEW a \in S, NEW i \in 1 .. n
      PROVE  /\ NamedTurn(a, headers[i], i) \in S
             /\ NamedTurn(a, headers[i], i).content = IF headers[i] = "content" THEN i ELSE a.content
  <2>1. i \in Nat /\ a \in Roles
    BY <1>1
  <2> QED BY <2>1, NamedTurnIs
<1> HIDE DEF S, start
<1>5. turn \in Turns(n, S)
  BY <1>4 DEF Turns
<1>6. \E f : f = F(f)
  <2> HIDE DEF turn
  <2>1. PICK f : IsRun(f, n, S, start, turn)
    BY <1>1, <1>3, <1>5, RunExists
  <2>2. \A i \in 1 .. n : i - 1 \in 0 .. n /\ f[i - 1] \in S
    BY <1>1, <2>1 DEF IsRun
  <2>3. \A i \in 1 .. n : turn[<<i, f[i - 1]>>] = NamedTurn(f[i - 1], headers[i], i)
    BY <2>2 DEF turn
  <2>4. \A i \in 0 .. n : i = 0 \/ i \in 1 .. n
    OBVIOUS
  <2>5. f = F(f)
    <3>1. f = [i \in 0 .. n |-> f[i]]
      BY <2>1 DEF IsRun
    <3>2. \A i \in 0 .. n : f[i] = F(f)[i]
      <4>1. F(f)[0] = f[0]
        BY <1>1, <2>1 DEF IsRun, start
      <4>2. ASSUME NEW i \in 1 .. n PROVE F(f)[i] = f[i]
        <5>1. i \in 0 .. n /\ i # 0
          BY <1>1
        <5>2. F(f)[i] = NamedTurn(f[i - 1], headers[i], i)
          BY <5>1 DEF NamedTurn
        <5> QED BY <2>1, <2>3, <5>2 DEF IsRun
      <4> QED BY <2>4, <4>1, <4>2
    <3> QED BY <3>1, <3>2
  <2> QED BY <2>5
<1>7. acc = F(acc)
  BY <1>6
<1> HIDE DEF acc
<1>8. acc[0] = start /\ \A i \in 1 .. n : acc[i] = NamedTurn(acc[i - 1], headers[i], i)
  <2>1. acc[0] = start
    BY <1>1, <1>7 DEF start
  <2>2. ASSUME NEW i \in 1 .. n PROVE acc[i] = NamedTurn(acc[i - 1], headers[i], i)
    <3>1. i \in 0 .. n /\ i # 0
      BY <1>1
    <3>2. acc[i] = F(acc)[i]
      BY <1>7
    <3> QED BY <3>1, <3>2 DEF NamedTurn
  <2> QED BY <2>1, <2>2
<1> HIDE DEF F, turn
<1> DEFINE Same == {i \in 0 .. n : acc[i] \in S /\ LastNamed(acc[i].content, HeadersNamed(headers, i))}
<1>9. 0 \in Same
  <2>1. HeadersNamed(headers, 0) = {} /\ 0 \in 0 .. n
    BY <1>1 DEF HeadersNamed
  <2> QED BY <1>3, <1>8, <2>1 DEF LastNamed
<1>10. ASSUME NEW i \in 1 .. n, i - 1 \in Same PROVE i \in Same
  <2> DEFINE A == HeadersNamed(headers, i - 1)
             B == HeadersNamed(headers, i)
             c == acc[i - 1].content
             d == acc[i].content
  <2>1. acc[i - 1] \in S /\ i \in 0 .. n /\ i \in Nat /\ LastNamed(c, A)
    BY <1>1, <1>10
  <2>2. acc[i] \in S /\ d = IF headers[i] = "content" THEN i ELSE c
    BY <1>4, <1>8, <2>1
  <2>3. \A j \in 1 .. i : j = i \/ j \in 1 .. i - 1
    BY <2>1
  <2>4. i \in 1 .. i /\ \A j \in 1 .. i - 1 : j \in 1 .. i /\ j <= i
    BY <2>1
  <2>5. CASE headers[i] = "content"
    <3>1. i \in B /\ \A j \in B : j <= i
      BY <2>1, <2>4, <2>5 DEF HeadersNamed
    <3> QED BY <2>1, <2>2, <2>5, <3>1 DEF LastNamed
  <2>6. CASE headers[i] # "content"
    <3>1. B = A
      BY <2>3, <2>4, <2>6 DEF HeadersNamed
    <3> QED BY <2>1, <2>2, <2>6, <3>1
  <2> QED BY <2>5, <2>6
<1> HIDE DEF Same
<1>11. 0 .. n \subseteq Same
  BY <1>1, <1>9, <1>10, StepsReach
<1>12. n \in 0 .. n
  BY <1>1
<1> QED BY <1>2, <1>11, <1>12 DEF Same, S, n

LEMMA AutoMapIs ==
  ASSUME NEW headers \in Seq(STRING), headers # <<>>
  PROVE  /\ AutoMap(headers) \in Roles /\ AutoMap(headers).content = ContentColumn(headers)
         /\ ContentColumn(headers) \in 1 .. Len(headers)
<1> DEFINE n == Len(headers)
           m == Named(headers)
           B == HeadersNamed(headers, n)
           c == ContentColumn(headers)
<1>1. n \in Nat /\ n \in 1 .. n
  OBVIOUS
<1>2. m \in Roles /\ LastNamed(m.content, B)
  BY NamedIs
<1>3. AutoMap(headers) = IF m.content = NoColumn THEN [m EXCEPT !.content = n] ELSE m
  BY DEF AutoMap
<1>4. c = IF B = {} THEN n ELSE CHOOSE i \in B : \A j \in B : j <= i
  BY DEF ContentColumn, HeadersNamed
<1>5. B \subseteq 1 .. n
  BY DEF HeadersNamed
<1> HIDE DEF m, c, B, n
<1>6. CASE B = {}
  <2>1. m.content = NoColumn /\ c = n
    BY <1>2, <1>4, <1>6 DEF LastNamed
  <2>2. AutoMap(headers) = [m EXCEPT !.content = n]
    BY <1>3, <2>1
  <2>3. AutoMap(headers) \in Roles /\ AutoMap(headers).content = n
    BY <1>1, <1>2, <2>2 DEF Roles
  <2> QED BY <1>1, <2>1, <2>3 DEF c, n
<1>7. CASE B # {}
  <2>1. m.content \in B /\ \A j \in B : j <= m.content
    BY <1>2, <1>7 DEF LastNamed
  <2>2. c \in B /\ \A j \in B : j <= c
    BY <1>4, <1>7, <2>1
  <2>3. m.content = c /\ c \in 1 .. n /\ c # 0
    <3> DEFINE x == m.content
    <3>1. x <= c /\ c <= x
      BY <2>1, <2>2
    <3>2. x \in 1 .. n /\ c \in 1 .. n
      BY <1>5, <2>1, <2>2
    <3> HIDE DEF x
    <3>3. x = c /\ c # 0
      BY <1>1, <3>1, <3>2
    <3> QED BY <3>2, <3>3 DEF x
  <2>4. AutoMap(headers) = m
    BY <1>3, <2>3 DEF NoColumn
  <2> QED BY <1>2, <2>3, <2>4 DEF c, n
<1> QED BY <1>6, <1>7

(* The memories of a table without a mapping: its rows with content.         *)
RowOf(r, columns) == [date |-> Cell(r, columns.date), author |-> Cell(r, columns.author), content |-> Cell(r, columns.content)]
Rows(U) == [date : U, author : U, content : U]

LEMMA RowIs ==
  ASSUME NEW T, NEW r \in Seq(T), NEW columns \in Roles, columns.content \in 1 .. Len(r)
  PROVE  /\ RowOf(r, columns) \in Rows(T \cup {""}) /\ RowOf(r, columns).content = r[columns.content]
         /\ r[columns.content] \in T
<1>1. ASSUME NEW c PROVE Cell(r, c) \in T \cup {""}
  <2>1. \A k \in DOMAIN r : r[k] \in T
    OBVIOUS
  <2> QED BY <2>1 DEF Cell
<1>2. columns.content \in DOMAIN r /\ r[columns.content] \in T
  OBVIOUS
<1>3. Cell(r, columns.content) = r[columns.content]
  BY <1>2 DEF Cell
<1> QED BY <1>1, <1>2, <1>3 DEF RowOf, Rows

LEMMA TableRows ==
  ASSUME NEW headers \in Seq(STRING), headers # <<>>, NEW T, NEW records \in Seq(Seq(T)), CsvToClear(headers, records, <<>>).ok
  PROVE  LET memories == CsvToClear(headers, records, <<>>).memories
             column == [i \in DOMAIN records |-> records[i][ContentColumn(headers)]]
         IN  /\ [i \in DOMAIN memories |-> memories[i].content] = NonEmpty(column)
             /\ column \in Seq(T \cup {""})
<1> DEFINE U == T \cup {""}
           R == Rows(U)
           n == Len(records)
           columns == AutoMap(headers)
           c == ContentColumn(headers)
           clear == CsvToClear(headers, records, <<>>)
           Row(i) == RowOf(records[i], columns)
           parts == [i \in DOMAIN records |-> IF Row(i).content = "" THEN <<>> ELSE <<Row(i)>>]
           column == [i \in DOMAIN records |-> records[i][c]]
           cells == [i \in DOMAIN column |-> IF column[i] = "" THEN <<>> ELSE <<column[i]>>]
           f == [r \in R |-> r.content]
           odd == \E i \in DOMAIN records : Len(records[i]) # Len(headers)
<1>1. n \in Nat /\ DOMAIN records = 1 .. n /\ \A i \in 1 .. n : records[i] \in Seq(T)
  OBVIOUS
<1>2. columns \in Roles /\ columns.content = c /\ c \in 1 .. Len(headers)
  BY AutoMapIs
<1>3. clear = IF odd THEN [ok |-> FALSE] ELSE [ok |-> TRUE, memories |-> FlattenSeq(parts)]
  BY DEF CsvToClear, RowOf
<1>4. ~ odd /\ clear.memories = FlattenSeq(parts)
  <2> HIDE DEF clear, parts, odd
  <2>1. clear.ok
    BY DEF clear
  <2> QED BY <1>3, <2>1
<1>5. ASSUME NEW i \in 1 .. n
      PROVE  Row(i) \in R /\ Row(i).content = records[i][c] /\ records[i][c] \in T
  <2>1. records[i] \in Seq(T) /\ Len(records[i]) = Len(headers)
    BY <1>1, <1>4
  <2> HIDE DEF columns, c
  <2>2. columns.content \in 1 .. Len(records[i])
    BY <1>2, <2>1
  <2> DEFINE r == records[i]
  <2>3. r \in Seq(T) /\ columns.content \in 1 .. Len(r)
    BY <2>1, <2>2
  <2> HIDE DEF r
  <2>4. /\ RowOf(r, columns) \in Rows(T \cup {""}) /\ RowOf(r, columns).content = r[columns.content]
        /\ r[columns.content] \in T
    BY <1>2, <2>3, RowIs
  <2> QED BY <1>2, <2>4 DEF r
<1> HIDE DEF Row, columns, c, clear
<1>6. column \in Seq(U) /\ Len(column) = n /\ \A i \in 1 .. n : column[i] = records[i][c]
  <2>1. column = [i \in 1 .. n |-> records[i][c]]
    BY <1>1
  <2>2. \A i \in 1 .. n : records[i][c] \in U
    BY <1>5
  <2> HIDE DEF U, column, n
  <2>3. column \in [1 .. n -> U] /\ \A i \in 1 .. n : column[i] = records[i][c]
    BY <2>1, <2>2
  <2> QED BY <1>1, <2>3
<1>7. NonEmpty(column) = FlattenSeq(cells)
  BY DEF NonEmpty
<1>8. DOMAIN column = 1 .. n
  BY <1>1
<1>9. /\ parts = [i \in 1 .. n |-> parts[i]] /\ \A i \in 1 .. n : parts[i] = IF Row(i).content = "" THEN <<>> ELSE <<Row(i)>>
      /\ cells = [i \in 1 .. n |-> cells[i]] /\ \A i \in 1 .. n : cells[i] = IF column[i] = "" THEN <<>> ELSE <<column[i]>>
  BY <1>1, <1>8
<1>10. f \in Maps(R, U) /\ \A r \in R : f[r] = r.content
  BY DEF Maps, Rows
<1> HIDE DEF parts, cells, column, f, R, U, n
<1>11. ASSUME NEW i \in 1 .. n
       PROVE  parts[i] \in Seq(R) /\ cells[i] \in Seq(U) /\ cells[i] = Mapped(parts[i], f)
  <2> DEFINE x == Row(i)
             v == records[i][c]
  <2>1. x \in R /\ x.content = v /\ v \in U /\ column[i] = v /\ f[x] = v
    BY <1>5, <1>6, <1>10 DEF U
  <2>2. parts[i] = (IF v = "" THEN <<>> ELSE <<x>>) /\ cells[i] = IF v = "" THEN <<>> ELSE <<v>>
    BY <1>9, <2>1
  <2> HIDE DEF x, v
  <2>3. CASE v = ""
    <3>1. parts[i] = <<>> /\ cells[i] = <<>>
      BY <2>2, <2>3
    <3>2. Mapped(<<>>, f) = <<>>
      BY DEF Mapped
    <3>3. <<>> \in Seq(R) /\ <<>> \in Seq(U)
      OBVIOUS
    <3> QED BY <3>1, <3>2, <3>3
  <2>4. CASE v # ""
    <3>1. parts[i] = <<x>> /\ cells[i] = <<v>>
      BY <2>2, <2>4
    <3>2. Mapped(<<x>>, f) = <<v>>
      <4> DEFINE s == <<x>>
      <4>1. DOMAIN s = 1 .. 1 /\ s[1] = x
        OBVIOUS
      <4> HIDE DEF s
      <4>2. \A k \in DOMAIN s : f[s[k]] = v
        BY <2>1, <4>1
      <4>3. [k \in DOMAIN s |-> f[s[k]]] = [k \in 1 .. 1 |-> v]
        BY <4>1, <4>2
      <4>4. [k \in 1 .. 1 |-> v] = <<v>>
        OBVIOUS
      <4> QED BY <4>3, <4>4 DEF Mapped, s
    <3>3. <<x>> \in Seq(R) /\ <<v>> \in Seq(U)
      BY <2>1
    <3> QED BY <3>1, <3>2, <3>3
  <2> QED BY <2>3, <2>4
<1>12. parts \in Seq(Seq(R)) /\ cells \in Seq(Seq(U)) /\ Len(parts) = n /\ Len(cells) = n
  <2> DEFINE A == Seq(R)
             B == Seq(U)
  <2>1. \A i \in 1 .. n : parts[i] \in A /\ cells[i] \in B
    BY <1>11
  <2> HIDE DEF A, B
  <2>2. parts \in [1 .. n -> A] /\ cells \in [1 .. n -> B]
    BY <1>9, <2>1
  <2>3. n \in Nat
    BY <1>1 DEF n
  <2>4. parts \in Seq(A) /\ cells \in Seq(B) /\ Len(parts) = n /\ Len(cells) = n
    BY <2>2, <2>3
  <2> QED BY <2>4 DEF A, B
<1> DEFINE memories == FlattenSeq(parts)
<1>13. Mapped(memories, f) = FlattenSeq(cells) /\ memories \in Seq(R)
  <2>1. \A i \in 1 .. Len(parts) : cells[i] = Mapped(parts[i], f)
    BY <1>11, <1>12
  <2>2. f \in Maps(R, U) /\ parts \in Seq(Seq(R)) /\ cells \in Seq(Seq(U)) /\ Len(cells) = Len(parts)
    BY <1>10, <1>12
  <2>3. PartsMapped(parts, cells, f, R, U)
    BY <2>1, <2>2, Zenon DEF PartsMapped
  <2> QED BY <2>3, MappedFlat, Zenon
<1> HIDE DEF memories
<1>14. Mapped(memories, f) = [i \in DOMAIN memories |-> memories[i].content]
  <2>1. \A i \in DOMAIN memories : memories[i] \in R
    BY <1>13
  <2>2. \A i \in DOMAIN memories : f[memories[i]] = memories[i].content
    BY <1>10, <2>1
  <2> QED BY <2>2 DEF Mapped
<1>15. clear.memories = memories
  BY <1>4 DEF memories
<1> QED BY <1>6, <1>7, <1>13, <1>14, <1>15 DEF clear, column, c, U

LEMMA TableReads ==
  ASSUME NEW headers \in Seq(STRING), headers # <<>>, NEW T, NEW records \in Seq(Seq(T)), NEW cuts,
         CsvToClear(headers, records, <<>>).ok
  PROVE  LET memories == CsvToClear(headers, records, <<>>).memories
             contents == NonEmpty([i \in DOMAIN records |-> records[i][ContentColumn(headers)]])
             read == ClearFile([shape |-> "clear", cuts |-> cuts,
                                texts |-> [i \in DOMAIN memories |-> memories[i].content]])
         IN  /\ read.ok => TextsOf(read.memories) = contents
             /\ ~ read.ok => cuts \cap DOMAIN contents # {}
<1> DEFINE memories == CsvToClear(headers, records, <<>>).memories
           column == [i \in DOMAIN records |-> records[i][ContentColumn(headers)]]
           texts == [i \in DOMAIN memories |-> memories[i].content]
           file == [shape |-> "clear", cuts |-> cuts, texts |-> texts]
           read == ClearFile(file)
           U == T \cup {""}
<1>1. texts = NonEmpty(column) /\ column \in Seq(U)
  BY TableRows
<1> HIDE DEF texts, column, U
<1>2. texts \in Seq(U) /\ NonEmpty(texts) = texts
  BY <1>1, NonEmptyTwice
<1>3. file.shape = "clear" /\ file.texts = texts /\ file.cuts = cuts
  OBVIOUS
<1> HIDE DEF file
<1>4. read = IF CutsAText(file) THEN Err("panic") ELSE Ok([i \in DOMAIN texts |-> <<texts[i]>>])
  BY <1>2, <1>3 DEF ClearFile
<1>5. TextsOf([i \in DOMAIN texts |-> <<texts[i]>>]) = texts
  BY <1>2, MemoryEach
<1>6. CutsAText(file) => cuts \cap DOMAIN texts # {}
  BY <1>3 DEF CutsAText
<1> HIDE DEF read
<1>7. /\ read.ok => TextsOf(read.memories) = texts
      /\ ~ read.ok => cuts \cap DOMAIN texts # {}
  <2>1. CASE CutsAText(file)
    BY <1>4, <1>6, <2>1, FileResults
  <2>2. CASE ~ CutsAText(file)
    BY <1>4, <1>5, <2>2, FileResults
  <2> QED BY <2>1, <2>2
<1> QED BY <1>1, <1>7 DEF read, file, texts, column

LEMMA ImportStores ==
  ASSUME NEW X, NEW p, p.ok => p.memories \in Seq(X), NEW fails, NEW good \in Nat
  PROVE  LET done == ImportCommand(p, fails, good)
         IN  /\ p.ok => IsPrefix(done.stored, p.memories)
             /\ done.says = "imported" => p.ok /\ done.stored = p.memories
<1> DEFINE done == ImportCommand(p, fails, good)
           all == p.memories
           n == Len(all)
<1>1. CASE ~ p.ok
  BY <1>1 DEF ImportCommand
<1>2. CASE p.ok
  <2>1. all \in Seq(X) /\ n \in Nat
    BY <1>2
  <2>2. \/ done.stored = <<>> /\ done.says # "imported"
        \/ good < n /\ done.stored = SubSeq(all, 1, good) /\ done.says # "imported"
        \/ done.stored = all
    BY <1>2 DEF ImportCommand
  <2> HIDE DEF done, all
  <2>3. IsPrefix(<<>>, all)
    <3>1. SubSeq(<<>>, 1, 0) = <<>> /\ SubSeq(all, 1, 0) = <<>>
      BY <2>1, SubSeqEmpty
    <3> DEFINE none == <<>>
    <3>2. Len(none) = 0 /\ SubSeq(none, 1, 0) = none /\ none = <<>>
      BY <3>1
    <3> HIDE DEF none
    <3>3. IsPrefix(none, all)
      BY <2>1, <3>1, <3>2 DEF IsPrefix
    <3> QED BY <3>2, <3>3
  <2>4. good < n => IsPrefix(SubSeq(all, 1, good), all)
    <3> SUFFICES ASSUME good < n PROVE IsPrefix(SubSeq(all, 1, good), all)
      OBVIOUS
    <3> DEFINE s == SubSeq(all, 1, good)
    <3>1. \A i \in 1 .. good : i \in 1 .. n
      BY <2>1
    <3>2. s \in Seq(X) /\ Len(s) = good
      BY <2>1, <3>1, SubSeqProperties
    <3>3. s = SubSeq(all, 1, good)
      OBVIOUS
    <3> HIDE DEF s
    <3>4. SubSeq(s, 1, good) = s
      BY <3>2, SubSeqFull
    <3> QED BY <2>1, <3>2, <3>3, <3>4 DEF IsPrefix
  <2>5. IsPrefix(all, all)
    BY <2>1 DEF IsPrefix
  <2> QED BY <1>2, <2>2, <2>3, <2>4, <2>5 DEF done, all
<1> QED BY <1>1, <1>2

(* An import of any path with any texts, whatever its lines are cut by.      *)
ImportCalls(T) == [kind : {"import"}, path : PathsOf(T), format : STRING, fails : STRING, good : Nat]

(* ImportKeepsTexts for any of them: directories with any number of files    *)
(* and texts, in any order (import/; main.rs, cmd_import).                   *)
THEOREM ImportsKeepTexts ==
  ASSUME NEW T, input \in ImportCalls(T)
  PROVE  ImportKeepsTexts
<1> DEFINE path == input.path
           format == input.format
           read == Parse(path, format)
           done == ImportCommand(read, input.fails, input.good)
<1>1. input.kind = "import" /\ path \in PathsOf(T) /\ input.good \in Nat
  BY DEF ImportCalls
<1>2. path.type = "dir" => path.files \in Seq(Files(T)) /\ path.subdirs \in Seq(Seq(Files(T)))
  BY <1>1 DEF PathsOf
<1>3. path.type = "file" => path.file \in Files(T)
  BY <1>1 DEF PathsOf
<1> HIDE DEF path, format
<1>4. /\ Sound(read, T)
      /\ (format \in Formats /\ path.type # "missing") =>
            read = CASE format = "clear" -> ParseClear(path)
                     [] format = "markdown" -> ParseMarkdown(path)
                     [] format = "chatgpt" -> ParseChatGpt(path)
                     [] format = "claude_code" -> ParseClaudeCode(path)
                     [] format = "copilot" -> ParseCopilot(path)
                     [] format = "slack" -> ParseSlack(path)
  BY <1>1, ParseIs
<1> HIDE DEF read
<1>5. /\ (format = "markdown" /\ path.type # "missing") => read = ParseMarkdown(path)
      /\ (format = "chatgpt" /\ path.type # "missing") => read = ParseChatGpt(path)
      /\ (format = "claude_code" /\ path.type # "missing") => read = ParseClaudeCode(path)
      /\ (format = "copilot" /\ path.type # "missing") => read = ParseCopilot(path)
      /\ (format = "slack" /\ path.type # "missing") => read = ParseSlack(path)
  BY <1>4 DEF Formats
<1>6. ASSUME path.type = "dir", format \in {"claude_code", "copilot", "markdown"}
      PROVE  /\ read.ok => TextsOf(read.memories) = TextsIn(path.files, format)
             /\ ~ read.ok => /\ \E f \in ToSet(path.files) : Stops(f, format)
                             /\ format # "markdown" => read.why = "panic"
  <2> DEFINE files == path.files
  <2>1. files \in Seq(Files(T))
    BY <1>2, <1>6
  <2>2. CASE format = "claude_code"
    <3>1. read = ReadEach(files, {"json"}, ClaudeCodeFile)
      BY <1>5, <1>6, <2>2 DEF ParseClaudeCode
    <3> HIDE DEF files
    <3>2. /\ read.ok => Reads(read, T, TextsIn(files, "claude_code"))
          /\ ~ read.ok => read.why = "panic" /\ \E i \in DOMAIN files : Stops(files[i], "claude_code")
      BY <2>1, <3>1, ClaudeCodeDir
    <3>3. ~ read.ok => \E f \in ToSet(files) : Stops(f, "claude_code")
      BY <3>2 DEF ToSet
    <3> QED BY <2>2, <3>2, <3>3 DEF Reads, files
  <2>3. CASE format = "copilot"
    <3>1. read = ReadEach(files, {"log", "json"}, CopilotFile)
      BY <1>5, <1>6, <2>3 DEF ParseCopilot
    <3> HIDE DEF files
    <3>2. /\ read.ok => Reads(read, T, TextsIn(files, "copilot"))
          /\ ~ read.ok => read.why = "panic" /\ \E i \in DOMAIN files : Stops(files[i], "copilot")
      BY <2>1, <3>1, CopilotDir
    <3>3. ~ read.ok => \E f \in ToSet(files) : Stops(f, "copilot")
      BY <3>2 DEF ToSet
    <3> QED BY <2>3, <3>2, <3>3 DEF Reads, files
  <2>4. CASE format = "markdown"
    <3>1. read = ReadAll(files, {"md", "txt"}, MarkdownFile)
      BY <1>5, <1>6, <2>4 DEF ParseMarkdown
    <3> HIDE DEF files
    <3>2. /\ read.ok => Reads(read, T, TextsIn(files, "markdown"))
          /\ ~ read.ok => \E i \in DOMAIN files : Stops(files[i], "markdown")
      BY <2>1, <3>1, MarkdownDir
    <3>3. ~ read.ok => \E f \in ToSet(files) : Stops(f, "markdown")
      BY <3>2 DEF ToSet
    <3> QED BY <2>4, <3>2, <3>3 DEF Reads, files
  <2> QED BY <1>6, <2>2, <2>3, <2>4
<1>7. ASSUME path.type = "dir", format = "slack"
      PROVE  /\ read.ok
             /\ TextsOf(read.memories) = FlattenSeq([i \in DOMAIN path.subdirs |-> TextsIn(path.subdirs[i], "slack")])
  <2> DEFINE dirs == path.subdirs
  <2>1. dirs \in Seq(Seq(Files(T)))
    BY <1>2, <1>7
  <2>2. read = Ok(FlattenSeq([i \in DOMAIN dirs |-> SlackChannel(dirs[i])]))
    BY <1>5, <1>7 DEF ParseSlack
  <2> HIDE DEF dirs
  <2>3. Reads(read, T, FlattenSeq([i \in DOMAIN dirs |-> TextsIn(dirs[i], "slack")]))
    BY <2>1, <2>2, SlackReads
  <2> QED BY <2>3 DEF Reads, dirs
<1>8. ASSUME path.type = "file", format = "chatgpt", read.ok, path.file.shape = "chats"
      PROVE  LET texts == TextsOf(read.memories)
             IN  ToSet(texts) = ToSet(NonEmpty(path.file.texts)) /\ Len(texts) = Len(NonEmpty(path.file.texts))
  <2> DEFINE file == path.file
             texts == TextsOf(read.memories)
  <2>1. file \in Files(T) /\ file.shape = "chats"
    BY <1>3, <1>8
  <2>2. read = ChatGptFile(file)
    BY <1>5, <1>8 DEF ParseChatGpt
  <2> HIDE DEF file
  <2>3. texts = NonEmpty(ByNode(file))
    BY <2>1, <2>2, ChatGptReads DEF Reads
  <2>4. ToSet(texts) = ToSet(NonEmpty(file.texts)) /\ Len(texts) = Len(NonEmpty(file.texts))
    BY <2>1, <2>3, SortingKeepsTexts
  <2> QED BY <2>4 DEF file
<1>9. /\ read.ok => IsPrefix(done.stored, read.memories)
      /\ done.says = "imported" => read.ok /\ done.stored = read.memories
  BY <1>1, <1>4, ImportStores DEF Sound
<1> QED BY <1>1, <1>6, <1>7, <1>8, <1>9, Zenon DEF ImportKeepsTexts, path, format, read

(* A table of any size, converted without or with a mapping, and any places  *)
(* of contents whose first line is cut inside a character.                   *)
TableCalls(T) ==
  [kind : {"csv"}, headers : Seq(STRING), records : Seq(Seq(T)), mapping : Seq([role : STRING, header : STRING]),
   cuts : SUBSET Nat]

(* TableKeepsContents for any of them (import/converter.rs).                 *)
THEOREM TablesKeepContents ==
  ASSUME NEW T, input \in TableCalls(T)
  PROVE  TableKeepsContents
<1> DEFINE headers == input.headers
           records == input.records
           cuts == input.cuts
           clear == CsvToClear(headers, records, <<>>)
           contents == NonEmpty([i \in DOMAIN records |-> records[i][ContentColumn(headers)]])
           read == ClearFile([shape |-> "clear", cuts |-> cuts,
                              texts |-> [i \in DOMAIN clear.memories |-> clear.memories[i].content]])
<1>1. input.kind = "csv" /\ headers \in Seq(STRING) /\ records \in Seq(Seq(T))
  BY DEF TableCalls
<1>2. ASSUME headers # <<>>, clear.ok
      PROVE  /\ read.ok => TextsOf(read.memories) = contents
             /\ ~ read.ok => cuts \cap DOMAIN contents # {}
  <2> HIDE DEF headers, records, cuts
  <2> QED BY <1>1, <1>2, TableReads
<1>3. input.mapping = <<>> => CsvToClear(headers, records, input.mapping) = clear
  OBVIOUS
<1> QED BY <1>1, <1>2, <1>3, Zenon DEF TableKeepsContents
================================================================================
