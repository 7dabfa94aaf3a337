----------------------------- MODULE EventsProofs -----------------------------
(***************************************************************************)
(* Proofs about Events, for any sessions, devices and viewers, any size of *)
(* the broadcast channel and of the list, and any number of reports.  What *)
(* a stream has yielded is added up by a recursive function; induction on  *)
(* the number of items is stated with a set (InductionBySets).             *)
(***************************************************************************)
EXTENDS Events, FiniteSetTheorems, WellFoundedInduction, TLAPS

(* A set of natural numbers has a least element.                           *)
LEMMA LeastNumber ==
    ASSUME NEW T, T \subseteq Nat, T # {}
    PROVE  \E x \in T : \A y \in T : x <= y
<1>1. \E x \in T : \A y \in T : ~ (<<y, x>> \in OpToRel(<, Nat))
  <2>1. IsWellFoundedOn(OpToRel(<, Nat), Nat)
    BY NatLessThanWellFounded
  <2> QED BY <2>1, WFMin
<1>2. PICK x \in T : \A y \in T : ~ (<<y, x>> \in OpToRel(<, Nat))
  BY <1>1
<1>3. ASSUME NEW y \in T PROVE x <= y
  <2>1. x \in Nat /\ y \in Nat
    OBVIOUS
  <2>2. ~ (<<y, x>> \in OpToRel(<, Nat))
    BY <1>2
  <2>3. ~ (y < x)
    BY <2>1, <2>2 DEF OpToRel
  <2> QED BY <2>1, <2>3
<1> QED BY <1>3

(* Induction on the natural numbers, stated with a set.                     *)
LEMMA InductionBySets ==
    ASSUME NEW S, 0 \in S, \A m \in Nat : m \in S => m + 1 \in S
    PROVE  Nat \subseteq S
<1> SUFFICES ASSUME Nat \ S # {} PROVE FALSE
  OBVIOUS
<1>1. PICK x \in Nat \ S : \A y \in Nat \ S : x <= y
  <2>1. Nat \ S \subseteq Nat
    OBVIOUS
  <2> QED BY <2>1, LeastNumber
<1>2. x # 0 /\ x - 1 \in Nat /\ x = (x - 1) + 1
  BY <1>1
<1>3. x - 1 \in S
  BY <1>1, <1>2
<1> QED BY <1>1, <1>2, <1>3

(* There is a function that adds up the values of w, starting with b.       *)
LEMMA SumExists ==
    ASSUME NEW n \in Nat, NEW b \in Nat, NEW w \in [1 .. n -> Nat]
    PROVE  \E p \in [0 .. n -> Nat] :
              p = [k \in 0 .. n |-> IF k = 0 THEN b ELSE p[k - 1] + w[k]]
<1> DEFINE Sums(m, p) == \A k \in 0 .. m : p[k] = IF k = 0 THEN b ELSE p[k - 1] + w[k]
           Ok(m) == \E p \in [0 .. m -> Nat] : Sums(m, p)
           S == {m \in Nat : m <= n => Ok(m)}
<1>1. Ok(0)
  <2> DEFINE p == [k \in 0 .. 0 |-> b]
  <2>1. p \in [0 .. 0 -> Nat] /\ Sums(0, p)
    OBVIOUS
  <2> QED BY <2>1
<1>2. ASSUME NEW m \in Nat, m + 1 <= n, Ok(m) PROVE Ok(m + 1)
  <2>1. PICK p \in [0 .. m -> Nat] : Sums(m, p)
    BY <1>2
  <2> DEFINE q == [k \in 0 .. m + 1 |-> IF k = m + 1 THEN p[m] + w[m + 1] ELSE p[k]]
  <2>2. m \in 0 .. m /\ m + 1 \in 1 .. n /\ p[m] \in Nat /\ w[m + 1] \in Nat
    BY <1>2
  <2>3. q \in [0 .. m + 1 -> Nat]
    <3>1. \A k \in 0 .. m + 1 : k = m + 1 \/ k \in 0 .. m
      OBVIOUS
    <3> QED BY <2>2, <3>1
  <2>4. ASSUME NEW k \in 0 .. m + 1 PROVE q[k] = IF k = 0 THEN b ELSE q[k - 1] + w[k]
    <3>1. CASE k = m + 1
      <4>1. q[k] = p[m] + w[k] /\ k # 0 /\ q[k - 1] = p[m]
        BY <3>1
      <4> QED BY <4>1
    <3>2. CASE k \in 1 .. m
      <4>1. q[k] = p[k] /\ q[k - 1] = p[k - 1] /\ k # 0 /\ k \in 0 .. m
        BY <3>2
      <4>2. p[k] = p[k - 1] + w[k]
        BY <2>1, <4>1
      <4> QED BY <4>1, <4>2
    <3>3. CASE k = 0
      <4>1. q[k] = p[0] /\ 0 \in 0 .. m
        BY <3>3
      <4> QED BY <2>1, <3>3, <4>1
    <3> QED BY <3>1, <3>2, <3>3
  <2> QED BY <2>3, <2>4
<1>3. Ok(n)
  <2> HIDE DEF Ok
  <2>1. 0 \in S /\ \A m \in Nat : m \in S => m + 1 \in S
    BY <1>1, <1>2
  <2>2. n \in S
    BY <2>1, InductionBySets
  <2> QED BY <2>2
<1>4. PICK p \in [0 .. n -> Nat] : Sums(n, p)
  BY <1>3
<1>5. p = [k \in 0 .. n |-> IF k = 0 THEN b ELSE p[k - 1] + w[k]]
  BY <1>4
<1> QED BY <1>5
-----------------------------------------------------------------------------
(* How far a stream has brought its viewer, and one more item.              *)

(* Every item stands for at least one announcement.                         *)
LEMMA AdvanceType == \A x \in Yield : Advance(x) \in Nat \ {0}
  BY BoundAssumption DEF Yield, Advance, Reports

(* The defining equations of Brought.                                       *)
LEMMA BroughtIs ==
    ASSUME NEW t \in Seq(Yield), NEW b \in Nat
    PROVE  /\ Brought(t, b) \in [0 .. Len(t) -> Nat]
           /\ Brought(t, b)[0] = b
           /\ \A k \in 1 .. Len(t) :
                Brought(t, b)[k] = Brought(t, b)[k - 1] + Advance(t[k])
<1> DEFINE n == Len(t)
           w == [k \in 1 .. n |-> Advance(t[k])]
           Is(p) == p = [k \in 0 .. n |-> IF k = 0 THEN b ELSE p[k - 1] + Advance(t[k])]
<1>1. n \in Nat /\ \A k \in 1 .. n : t[k] \in Yield /\ Advance(t[k]) \in Nat
  BY AdvanceType
<1>2. w \in [1 .. n -> Nat]
  BY <1>1
<1>3. PICK p \in [0 .. n -> Nat] :
        p = [k \in 0 .. n |-> IF k = 0 THEN b ELSE p[k - 1] + w[k]]
  <2> HIDE DEF n, w
  <2> QED BY <1>1, <1>2, SumExists
<1>4. Is(p)
  <2>1. \A k \in 0 .. n : k # 0 => w[k] = Advance(t[k])
    BY <1>1
  <2> HIDE DEF w
  <2> QED BY <1>3, <2>1
<1>5. Is(Brought(t, b))
  <2>1. Brought(t, b) = CHOOSE q : Is(q)
    BY DEF Brought
  <2> HIDE DEF Is
  <2> QED BY <1>4, <2>1
<1> DEFINE B == Brought(t, b)
<1>6. /\ B = [k \in 0 .. n |-> B[k]]
      /\ B[0] = b
      /\ \A k \in 1 .. n : B[k] = B[k - 1] + Advance(t[k])
  <2>1. B = [k \in 0 .. n |-> IF k = 0 THEN b ELSE B[k - 1] + Advance(t[k])]
    BY <1>5
  <2>2. 0 \in 0 .. n /\ \A k \in 1 .. n : k \in 0 .. n /\ k # 0
    BY <1>1
  <2> HIDE DEF B, n
  <2> QED BY <2>1, <2>2
<1>7. \A k \in 0 .. n : B[k] \in Nat
  <2> DEFINE S == {k \in Nat : k <= n => B[k] \in Nat}
  <2> HIDE DEF B, n
  <2>1. 0 \in S
    BY <1>1, <1>6
  <2>2. ASSUME NEW m \in Nat, m \in S PROVE m + 1 \in S
    <3> SUFFICES ASSUME m + 1 <= n PROVE B[m + 1] \in Nat
      OBVIOUS
    <3>1. m + 1 \in 0 .. n /\ m + 1 \in 1 .. n /\ B[m] \in Nat /\ (m + 1) - 1 = m /\ m + 1 # 0
      BY <1>1, <2>2
    <3>2. B[m + 1] = B[m] + Advance(t[m + 1])
      BY <1>6, <3>1
    <3> QED BY <1>1, <3>1, <3>2
  <2>3. Nat \subseteq S
    <3> HIDE DEF S
    <3> QED BY <2>1, <2>2, InductionBySets
  <2> QED BY <1>1, <2>3
<1> QED
  <2> HIDE DEF B, n
  <2>1. B \in [0 .. n -> Nat]
    BY <1>6, <1>7
  <2> QED BY <2>1, <1>6 DEF B, n

(* One more item leaves the others where they are.                          *)
LEMMA BroughtAppend ==
    ASSUME NEW t \in Seq(Yield), NEW b \in Nat, NEW x \in Yield
    PROVE  /\ \A k \in 0 .. Len(t) : Brought(Append(t, x), b)[k] = Brought(t, b)[k]
           /\ Brought(Append(t, x), b)[Len(t) + 1] = Brought(t, b)[Len(t)] + Advance(x)
<1> DEFINE n == Len(t)
           u == Append(t, x)
           B == Brought(t, b)
           C == Brought(u, b)
<1>1. /\ n \in Nat /\ u \in Seq(Yield) /\ Len(u) = n + 1
      /\ u[n + 1] = x /\ \A k \in 1 .. n : u[k] = t[k]
  OBVIOUS
<1>2. B[0] = b /\ \A k \in 1 .. n : B[k] = B[k - 1] + Advance(t[k])
  BY BroughtIs
<1>3. C[0] = b /\ \A k \in 1 .. n + 1 : C[k] = C[k - 1] + Advance(u[k])
  <2> HIDE DEF u
  <2> QED BY <1>1, BroughtIs
<1> HIDE DEF n, u, B, C
<1>4. \A k \in 0 .. n : C[k] = B[k]
  <2> DEFINE S == {k \in Nat : k <= n => C[k] = B[k]}
  <2>1. 0 \in S
    BY <1>2, <1>3
  <2>2. ASSUME NEW m \in Nat, m \in S PROVE m + 1 \in S
    <3> SUFFICES ASSUME m + 1 <= n PROVE C[m + 1] = B[m + 1]
      OBVIOUS
    <3>1. m + 1 \in 1 .. n /\ m + 1 \in 1 .. n + 1 /\ C[m] = B[m] /\ (m + 1) - 1 = m
      BY <1>1, <2>2
    <3> QED BY <1>1, <1>2, <1>3, <3>1
  <2>3. Nat \subseteq S
    <3> HIDE DEF S
    <3> QED BY <2>1, <2>2, InductionBySets
  <2> QED BY <1>1, <2>3
<1>5. C[n + 1] = B[n] + Advance(x)
  <2>1. n + 1 \in 1 .. n + 1 /\ (n + 1) - 1 = n /\ n \in 0 .. n
    BY <1>1
  <2> QED BY <1>1, <1>3, <1>4, <2>1
<1> QED BY <1>4, <1>5 DEF n, u, B, C

-----------------------------------------------------------------------------
(* A report received is the last one, and the session holds its number.     *)
LEMMA ReceiveGrows ==
    ASSUME TypeOK, NEW s \in Sessions, NEW kind \in Kinds, Receive(s, kind)
    PROVE  /\ received' \in Seq([by : Sessions, kind : Kinds])
           /\ Len(received) \in Nat /\ Len(received) < MaxReports
           /\ Len(received') = Len(received) + 1
           /\ received'[Len(received) + 1] = [by |-> s, kind |-> kind]
           /\ \A n \in 1 .. Len(received) : received'[n] = received[n]
           /\ cur' = [cur EXCEPT ![s] = Len(received) + 1]
  BY BoundAssumption DEF Receive, TypeOK

(* The channel grows at its end by what the session holds, or not at all.   *)
LEMMA SendGrows ==
    ASSUME TypeOK, HandlesLast, Known, NEW s \in Sessions, Send(s)
    PROVE  /\ cur[s] \in Reports /\ Len(announced) \in Nat
           /\ \/ announced' = announced /\ \A v \in Viewers : ~open[v]
              \/ /\ announced' \in Seq(Reports)
                 /\ Len(announced') = Len(announced) + 1
                 /\ announced'[Len(announced) + 1] = cur[s]
                 /\ \A k \in 1 .. Len(announced) : announced'[k] = announced[k]
<1>1. cur[s] \in Reports
  BY BoundAssumption DEF Send, HandlesLast, Known, TypeOK, Reports
<1>2. announced \in Seq(Reports) /\ Len(announced) \in Nat
  BY DEF TypeOK
<1>3. CASE \E v \in Viewers : open[v]
  <2>1. announced' = Append(announced, cur[s])
    BY <1>3 DEF Send
  <2> HIDE DEF Reports
  <2> QED BY <1>1, <1>2, <2>1
<1>4. CASE ~ \E v \in Viewers : open[v]
  BY <1>1, <1>2, <1>4 DEF Send
<1> QED BY <1>3, <1>4

(* No report is announced twice, so the channel never holds more than there *)
(* were reports.                                                            *)
LEMMA AnnouncedShort ==
    ASSUME TypeOK, Known, SentOnce, SessionOrder
    PROVE  Len(announced) \in 0 .. MaxReports
<1> DEFINE n == Len(announced)
           m == Len(received)
<1>1. n \in Nat /\ m \in Nat /\ m <= MaxReports
  BY DEF TypeOK, Known
<1>2. announced \in [1 .. n -> 1 .. m]
  BY DEF TypeOK, SentOnce
<1>3. ASSUME NEW j \in 1 .. n, NEW k \in 1 .. n, j < k PROVE announced[j] # announced[k]
  <2>1. announced[j] \in Nat
    BY <1>2
  <2> QED BY <1>3, <2>1 DEF SessionOrder
<1>4. ~ (m < n)
  <2> SUFFICES ASSUME m < n PROVE FALSE
    OBVIOUS
  <2>1. /\ IsFiniteSet(1 .. n) /\ Cardinality(1 .. n) = n
        /\ IsFiniteSet(1 .. m) /\ Cardinality(1 .. m) = m
    <3>1. 1 \in Int /\ n \in Int /\ m \in Int
      BY <1>1
    <3>2. /\ IsFiniteSet(1 .. n) /\ Cardinality(1 .. n) = IF 1 > n THEN 0 ELSE n - 1 + 1
          /\ IsFiniteSet(1 .. m) /\ Cardinality(1 .. m) = IF 1 > m THEN 0 ELSE m - 1 + 1
      BY <3>1, FS_Interval
    <3> QED BY <1>1, <3>2
  <2>2. \E j, k \in 1 .. n : j # k /\ announced[j] = announced[k]
    <3> HIDE DEF n, m
    <3> QED BY <1>2, <2>1, FS_PigeonHole
  <2>3. PICK j \in 1 .. n, k \in 1 .. n : j # k /\ announced[j] = announced[k]
    BY <2>2
  <2>4. j < k \/ k < j
    BY <1>1, <2>3
  <2> QED BY <1>3, <2>3, <2>4
<1> QED BY <1>1, <1>4, BoundAssumption

-----------------------------------------------------------------------------

(* The oldest row of an answer.                                             *)
LEMMA OldestIs ==
    ASSUME NEW S, S \subseteq [id : Reports, dev : Devices, at : 0 .. MaxTime]
    PROVE  /\ Oldest(S) \in 0 .. MaxTime
           /\ S # {} => (\E e \in S : e.at = Oldest(S)) /\ \A e \in S : e.at >= Oldest(S)
<1>1. CASE S = {}
  BY <1>1, BoundAssumption DEF Oldest
<1>2. CASE S # {}
  <2> DEFINE T == {e.at : e \in S}
             Least(t) == (\E e \in S : e.at = t) /\ \A e \in S : e.at >= t
  <2>1. T \subseteq Nat /\ T # {} /\ T \subseteq 0 .. MaxTime
    BY <1>2, BoundAssumption
  <2>2. PICK t \in T : \A u \in T : t <= u
    <3> HIDE DEF T
    <3> QED BY <2>1, LeastNumber
  <2>3. t \in 0 .. MaxTime /\ Least(t)
    BY <2>1, <2>2
  <2>4. Oldest(S) = CHOOSE x \in 0 .. MaxTime : Least(x)
    BY <1>2 DEF Oldest
  <2> HIDE DEF Least
  <2>5. Oldest(S) \in 0 .. MaxTime /\ Least(Oldest(S))
    BY <2>3, <2>4
  <2> QED BY <2>5 DEF Least
<1> QED BY <1>1, <1>2

(* Every step keeps the types.                                              *)
LEMMA TypeStep ==
    ASSUME TypeOK, HandlesLast, Known, SentOnce, Seats, SessionOrder, [Next]_vars PROVE TypeOK'
<1>1. ASSUME NEW s \in Sessions, NEW kind \in Kinds, Receive(s, kind) PROVE
      TypeOK'
  <2>1. received' \in Seq([by : Sessions, kind : Kinds]) /\ Len(received) + 1 \in 0 .. MaxReports
    <3>1. /\ received' \in Seq([by : Sessions, kind : Kinds])
          /\ Len(received) \in Nat /\ Len(received) < MaxReports
      BY <1>1, ReceiveGrows
    <3> QED BY <3>1, BoundAssumption
  <2>2. cur' \in [Sessions -> 0 .. MaxReports]
    BY <1>1, <2>1 DEF Receive, TypeOK
  <2> QED BY <1>1, <2>1, <2>2 DEF Receive, TypeOK, database, viewer
<1>2. ASSUME NEW s \in Sessions, Update(s) PROVE TypeOK'
  <2>1. cur[s] \in 0 .. MaxReports /\ 0 \in 0 .. MaxReports /\ 0 \in 0 .. MaxTime
    BY BoundAssumption DEF TypeOK
  <2>2. shown' \in [Devices -> [Columns -> 0 .. MaxReports]]
    BY <1>2, <2>1 DEF Update, ShownAfter, TypeOK
  <2>3. done' \in [Sessions -> [Columns -> 0 .. MaxReports]]
    BY <1>2, <2>1 DEF Update, TypeOK
  <2>4. /\ pc' \in [Sessions -> {"recv", "update", "insert", "send"}]
        /\ cur' \in [Sessions -> 0 .. MaxReports] /\ at' \in [Sessions -> 0 .. MaxTime]
    <3>1. CASE KindOf(s) = "traffic_stats"
      <4>1. Loop(s)
        BY <1>2, <3>1 DEF Update
      <4> QED BY <4>1, <2>1 DEF Loop, TypeOK
    <3>2. CASE KindOf(s) # "traffic_stats"
      <4>1. /\ pc' = [pc EXCEPT ![s] = "insert"]
            /\ at' = [at EXCEPT ![s] = clock] /\ cur' = cur
        BY <1>2, <3>2 DEF Update
      <4> QED BY <4>1 DEF TypeOK
    <3> QED BY <3>1, <3>2
  <2> QED BY <1>2, <2>2, <2>3, <2>4 DEF Update, TypeOK, viewer
<1>3. ASSUME NEW s \in Sessions, Insert(s) PROVE TypeOK'
  <2>1. cur[s] \in Reports
    BY <1>3, BoundAssumption DEF Insert, HandlesLast, Known, TypeOK, Reports
  <2>2. [id |-> cur[s], dev |-> dev[s], at |-> at[s]]
           \in [id : Reports, dev : Devices, at : 0 .. MaxTime]
    BY <2>1 DEF TypeOK
  <2> QED BY <1>3, <2>2 DEF Insert, TypeOK, viewer
<1>4. ASSUME NEW s \in Sessions, Fail(s) PROVE TypeOK'
  <2>1. 0 \in 0 .. MaxReports /\ 0 \in 0 .. MaxTime
    BY BoundAssumption
  <2> QED BY <1>4, <2>1 DEF Fail, Loop, TypeOK, database, viewer
<1>5. ASSUME NEW s \in Sessions, Send(s) PROVE TypeOK'
  <2>1. 0 \in 0 .. MaxReports /\ 0 \in 0 .. MaxTime
    BY BoundAssumption
  <2>2. announced' \in Seq(Reports)
    BY <1>5, SendGrows DEF TypeOK
  <2> QED BY <1>5, <2>1, <2>2 DEF Send, Loop, TypeOK, database, viewer
<1>6. ASSUME NEW d \in Devices, DeleteDevice(d) PROVE TypeOK'
  BY <1>6 DEF DeleteDevice, TypeOK, session, viewer
<1>7. CASE Tick
  BY <1>7, BoundAssumption DEF Tick, TypeOK, session, database, viewer
<1>8. ASSUME NEW v \in Viewers, Subscribe(v) PROVE TypeOK'
  <2>1. Len(announced) \in 0 .. MaxReports
    BY AnnouncedShort
  <2> QED BY <1>8, <2>1 DEF Subscribe, TypeOK, session, database
<1>9. ASSUME NEW v \in Viewers, Lagged(v) PROVE TypeOK'
  <2>1. Len(announced) \in 0 .. MaxReports /\ next[v] \in Nat
    BY AnnouncedShort DEF TypeOK
  <2>2. Missed(v) \in Reports /\ Len(announced) - Cap \in 0 .. MaxReports
    BY <1>9, <2>1, CapAssumption, BoundAssumption DEF Lagged, Behind, Missed, Reports
  <2>3. [kind |-> "error", missed |-> Missed(v)] \in Yield
    BY <2>2 DEF Yield
  <2>4. items' \in [Viewers -> Seq(Yield)]
    BY <1>9, <2>3 DEF Lagged, TypeOK
  <2>5. next' \in [Viewers -> 0 .. MaxReports]
    BY <1>9, <2>2 DEF Lagged, TypeOK
  <2> QED BY <1>9, <2>4, <2>5 DEF Lagged, TypeOK, session, database
<1>10. ASSUME NEW v \in Viewers, NextItem(v) PROVE TypeOK'
  <2>1. Len(announced) \in 0 .. MaxReports /\ next[v] \in Nat
    BY AnnouncedShort DEF TypeOK
  <2>2. next[v] + 1 \in 1 .. Len(announced) /\ next[v] + 1 \in 0 .. MaxReports
    BY <1>10, <2>1, BoundAssumption DEF NextItem
  <2>3. announced[next[v] + 1] \in Reports
    BY <2>2 DEF TypeOK
  <2>4. [kind |-> "event", id |-> announced[next[v] + 1]] \in Yield
    BY <2>3 DEF Yield
  <2>5. items' \in [Viewers -> Seq(Yield)]
    BY <1>10, <2>4 DEF NextItem, TypeOK
  <2>6. next' \in [Viewers -> 0 .. MaxReports]
    BY <1>10, <2>2 DEF NextItem, TypeOK
  <2> QED BY <1>10, <2>5, <2>6 DEF NextItem, TypeOK, session, database
<1>11. ASSUME NEW v \in Viewers, Leave(v) PROVE TypeOK'
  <2>1. 0 \in 0 .. MaxReports /\ 0 \in 0 .. MaxTime
    BY BoundAssumption
  <2> QED BY <1>11, <2>1 DEF Leave, NoList, TypeOK, session, database
<1>12. ASSUME NEW v \in Viewers, List(v) PROVE TypeOK'
  <2>1. PICK R \in Newest(Limit) : listed' = [listed EXCEPT ![v] = ListOf(R)]
    BY <1>12 DEF List, ListOf
  <2>2. R \subseteq stored
    BY DEF Newest
  <2>3. Oldest(R) \in 0 .. MaxTime
    BY <2>2, OldestIs, BoundAssumption DEF TypeOK
  <2>4. {e.id : e \in R} \in SUBSET Reports
    BY <2>2 DEF TypeOK
  <2>5. ListOf(R) \in [taken : BOOLEAN, ids : SUBSET Reports,
                       full : BOOLEAN, oldest : 0 .. MaxTime]
    BY <2>3, <2>4 DEF ListOf
  <2> QED BY <1>12, <2>1, <2>5 DEF List, TypeOK, session, database
<1>13. CASE UNCHANGED <<vars>>
  BY <1>13 DEF vars, session, database, viewer, TypeOK
<1> QED
  BY <1>1, <1>2, <1>3, <1>4, <1>5, <1>6, <1>7, <1>8, <1>9, <1>10, <1>11,
     <1>12, <1>13
  DEF Next, SessionStep, ViewerStep, vars, session, database, viewer

(* A session handles the last report it received.                           *)
LEMMA LastStep ==
    ASSUME TypeOK, HandlesLast, [Next]_vars PROVE HandlesLast'
<1>1. ASSUME NEW s \in Sessions, NEW kind \in Kinds, Receive(s, kind) PROVE
      HandlesLast'
  <2> DEFINE n == Len(received)
  <2>0. /\ n \in Nat /\ Len(received') = n + 1
        /\ received'[n + 1] = [by |-> s, kind |-> kind]
        /\ \A m \in 1 .. n : received'[m] = received[m]
        /\ cur' = [cur EXCEPT ![s] = n + 1]
    BY <1>1, ReceiveGrows
  <2>1. /\ n \in Nat /\ Len(received') = n + 1 /\ received'[n + 1].by = s
        /\ \A m \in 1 .. n : received'[m] = received[m]
        /\ cur' = [cur EXCEPT ![s] = n + 1]
    BY <2>0
  <2>2. /\ pc'[s] # "recv" /\ cur'[s] = n + 1 /\ pc[s] = "recv"
        /\ \A t \in Sessions \ {s} : pc'[t] = pc[t] /\ cur'[t] = cur[t]
    BY <1>1, <2>1 DEF Receive, TypeOK
  <2>3. \A m \in 1 .. n + 1 : m \in 1 .. n \/ m = n + 1
    BY <2>1
  <2> HIDE DEF n
  <2>4. ASSUME NEW t \in Sessions
        PROVE  IF pc'[t] = "recv" THEN cur'[t] = 0
               ELSE /\ cur'[t] \in 1 .. n + 1 /\ received'[cur'[t]].by = t
                    /\ \A m \in 1 .. n + 1 : received'[m].by = t => m <= cur'[t]
    <3>1. CASE t = s
      BY <2>1, <2>2, <3>1
    <3>2. CASE t # s
      BY <2>1, <2>2, <2>3, <3>2 DEF HandlesLast, n
    <3> QED BY <3>1, <3>2
  <2> QED BY <2>1, <2>4 DEF HandlesLast
<1>2. ASSUME NEW s \in Sessions, Update(s) PROVE HandlesLast'
  <2>1. /\ received' = received
        /\ \A t \in Sessions \ {s} : pc'[t] = pc[t] /\ cur'[t] = cur[t]
        /\ pc'[s] = "recv" => cur'[s] = 0
        /\ pc'[s] # "recv" => pc[s] # "recv" /\ cur'[s] = cur[s]
    BY <1>2 DEF Update, Loop, TypeOK
  <2> QED BY <2>1 DEF HandlesLast
<1>3. ASSUME NEW s \in Sessions, Insert(s) PROVE HandlesLast'
  BY <1>3 DEF Insert, HandlesLast, TypeOK
<1>4. ASSUME NEW s \in Sessions, Fail(s) PROVE HandlesLast'
  BY <1>4 DEF Fail, Loop, HandlesLast, TypeOK
<1>5. ASSUME NEW s \in Sessions, Send(s) PROVE HandlesLast'
  BY <1>5 DEF Send, Loop, HandlesLast, TypeOK
<1>6. CASE UNCHANGED <<pc, cur, received>>
  BY <1>6 DEF HandlesLast, TypeOK
<1> QED
  BY <1>1, <1>2, <1>3, <1>4, <1>5, <1>6
  DEF Next, SessionStep, ViewerStep, vars, session, database, viewer,
      DeleteDevice, Tick, Subscribe, Lagged, NextItem, Leave, List

(* Whatever is stored or shown was received.                                *)
LEMMA KnownStep ==
    ASSUME TypeOK, HandlesLast, Known, [Next]_vars PROVE Known'
<1>1. ASSUME NEW s \in Sessions, NEW kind \in Kinds, Receive(s, kind) PROVE
      Known'
  <2>1. /\ Len(received) \in Nat /\ Len(received) < MaxReports
        /\ Len(received') = Len(received) + 1
        /\ \A n \in 1 .. Len(received) : received'[n] = received[n]
    BY <1>1, ReceiveGrows
  <2>2. dev' = dev /\ shown' = shown /\ stored' = stored
    BY <1>1 DEF Receive, database
  <2>3. Len(received') <= MaxReports
    BY <2>1, BoundAssumption
  <2>4. \A d \in Devices, k \in Columns : shown[d][k] <= Len(received')
    BY <2>1 DEF Known, TypeOK
  <2>5. \A e \in stored : e.id \in 1 .. Len(received') /\ e.dev = dev[received'[e.id].by]
    <3> SUFFICES ASSUME NEW e \in stored
                 PROVE  e.id \in 1 .. Len(received') /\ e.dev = dev[received'[e.id].by]
      OBVIOUS
    <3>1. e.id \in 1 .. Len(received) /\ e.dev = dev[received[e.id].by]
      BY DEF Known
    <3>2. received'[e.id] = received[e.id] /\ e.id \in 1 .. Len(received')
      BY <2>1, <3>1
    <3> QED BY <3>1, <3>2
  <2> QED BY <2>2, <2>3, <2>4, <2>5 DEF Known
<1>2. ASSUME NEW s \in Sessions, Update(s) PROVE Known'
  <2>1. dev' = dev /\ received' = received /\ stored' = stored
    BY <1>2 DEF Update
  <2>2. cur[s] <= Len(received)
    BY <1>2 DEF Update, HandlesLast, TypeOK
  <2>3. \A d \in Devices, k \in Columns : shown'[d][k] \in {shown[d][k], cur[s]}
    BY <1>2 DEF Update, ShownAfter, TypeOK
  <2>4. \A d \in Devices, k \in Columns : shown'[d][k] <= Len(received)
    BY <2>2, <2>3 DEF Known
  <2> QED BY <2>1, <2>4 DEF Known
<1>3. ASSUME NEW s \in Sessions, Insert(s) PROVE Known'
  <2> DEFINE row == [id |-> cur[s], dev |-> dev[s], at |-> at[s]]
  <2>1. dev' = dev /\ received' = received /\ shown' = shown /\ stored' = stored \cup {row}
    BY <1>3 DEF Insert
  <2>2. cur[s] \in 1 .. Len(received) /\ received[cur[s]].by = s
    BY <1>3 DEF Insert, HandlesLast
  <2>3. row.id = cur[s] /\ row.dev = dev[s]
    OBVIOUS
  <2> HIDE DEF row
  <2>4. IsFiniteSet(stored \cup {row})
    BY FS_AddElement DEF Known
  <2> QED BY <2>1, <2>2, <2>3, <2>4 DEF Known
<1>4. ASSUME NEW d \in Devices, DeleteDevice(d) PROVE Known'
  <2>1. dev' = dev /\ received' = received /\ shown' = shown /\ stored' \subseteq stored
    BY <1>4 DEF DeleteDevice
  <2>2. IsFiniteSet(stored')
    BY <2>1, FS_Subset DEF Known
  <2> QED BY <2>1, <2>2 DEF Known
<1>5. CASE UNCHANGED <<dev, received, shown, stored>>
  BY <1>5 DEF Known, TypeOK
<1> QED
  BY <1>1, <1>2, <1>3, <1>4, <1>5
  DEF Next, SessionStep, ViewerStep, vars, session, database, viewer, Fail,
      Send, Tick, Subscribe, Lagged, NextItem, Leave, List, Loop

(* What a session handles has not been announced yet, nor anything it       *)
(* received later.                                                          *)
LEMMA SentStep ==
    ASSUME TypeOK, HandlesLast, Known, SentOnce, [Next]_vars PROVE SentOnce'
<1>1. ASSUME NEW s \in Sessions, NEW kind \in Kinds, Receive(s, kind) PROVE
      SentOnce'
  <2> DEFINE n == Len(received)
  <2>1. /\ n \in Nat /\ Len(received') = n + 1
        /\ \A m \in 1 .. n : received'[m] = received[m]
    BY <1>1, ReceiveGrows
  <2>2. /\ announced' = announced /\ cur'[s] = n + 1
        /\ \A t \in Sessions \ {s} : pc'[t] = pc[t] /\ cur'[t] = cur[t]
    BY <1>1 DEF Receive, TypeOK
  <2>3. \A k \in 1 .. Len(announced) :
          announced[k] \in 1 .. n /\ received'[announced[k]] = received[announced[k]]
    BY <2>1 DEF SentOnce
  <2> HIDE DEF n
  <2>4. \A k \in 1 .. Len(announced) : announced[k] \in 1 .. n + 1 /\ announced[k] < n + 1
    BY <2>1, <2>3
  <2>5. ASSUME NEW k \in 1 .. Len(announced), NEW t \in Sessions,
               received'[announced[k]].by = t, pc'[t] # "recv"
        PROVE  announced[k] < cur'[t]
    <3>1. CASE t = s
      BY <2>2, <2>4, <3>1
    <3>2. CASE t # s
      BY <2>2, <2>3, <2>5, <3>2 DEF SentOnce
    <3> QED BY <3>1, <3>2
  <2> QED BY <2>1, <2>2, <2>4, <2>5 DEF SentOnce
<1>2. ASSUME NEW s \in Sessions, Update(s) PROVE SentOnce'
  <2>1. /\ received' = received /\ announced' = announced
        /\ \A t \in Sessions : pc'[t] # "recv" => pc[t] # "recv" /\ cur'[t] = cur[t]
    BY <1>2 DEF Update, Loop, TypeOK
  <2> QED BY <2>1 DEF SentOnce
<1>3. ASSUME NEW s \in Sessions, Insert(s) PROVE SentOnce'
  BY <1>3 DEF Insert, SentOnce, HandlesLast, TypeOK
<1>4. ASSUME NEW s \in Sessions, Fail(s) PROVE SentOnce'
  BY <1>4 DEF Fail, Loop, SentOnce, HandlesLast, TypeOK
<1>5. ASSUME NEW s \in Sessions, Send(s) PROVE SentOnce'
  <2>1. /\ received' = received /\ pc'[s] = "recv" /\ pc[s] # "recv"
        /\ \A t \in Sessions \ {s} : pc'[t] = pc[t] /\ cur'[t] = cur[t]
    BY <1>5 DEF Send, Loop, TypeOK
  <2>2. cur[s] \in 1 .. Len(received) /\ received[cur[s]].by = s
    BY <2>1 DEF HandlesLast
  <2>3. \A k \in 1 .. Len(announced') :
          \/ k \in 1 .. Len(announced) /\ announced'[k] = announced[k]
          \/ announced'[k] = cur[s]
    BY <1>5, SendGrows
  <2> QED BY <2>1, <2>2, <2>3 DEF SentOnce
<1>6. CASE UNCHANGED <<announced, received, pc, cur>>
  BY <1>6 DEF SentOnce, HandlesLast, TypeOK
<1> QED
  BY <1>1, <1>2, <1>3, <1>4, <1>5, <1>6
  DEF Next, SessionStep, ViewerStep, vars, session, database, viewer,
      DeleteDevice, Tick, Subscribe, Lagged, NextItem, Leave, List

(* What is about to be announced is stored, or its device is gone.          *)
LEMMA SendsStep ==
    ASSUME TypeOK, HandlesLast, Known, SendsStored, [Next]_vars PROVE SendsStored'
<1>1. ASSUME NEW s \in Sessions, NEW kind \in Kinds, Receive(s, kind) PROVE
      SendsStored'
  <2>1. /\ stored' = stored /\ rows' = rows /\ dev' = dev /\ pc'[s] # "send"
        /\ \A t \in Sessions \ {s} : pc'[t] = pc[t] /\ cur'[t] = cur[t]
    BY <1>1 DEF Receive, TypeOK, database
  <2>2. \A m \in 1 .. Len(received) : received'[m] = received[m]
    BY <1>1, ReceiveGrows
  <2>3. \A t \in Sessions : pc[t] = "send" => cur[t] \in 1 .. Len(received)
    BY DEF HandlesLast
  <2> QED BY <2>1, <2>2, <2>3 DEF SendsStored, Gone
<1>2. ASSUME NEW s \in Sessions, Update(s) PROVE SendsStored'
  <2>1. /\ stored' = stored /\ rows' = rows /\ dev' = dev /\ received' = received
        /\ pc'[s] # "send"
        /\ \A t \in Sessions \ {s} : pc'[t] = pc[t] /\ cur'[t] = cur[t]
    BY <1>2 DEF Update, Loop, TypeOK
  <2> QED BY <2>1 DEF SendsStored, Gone
<1>3. ASSUME NEW s \in Sessions, Insert(s) PROVE SendsStored'
  <2> DEFINE row == [id |-> cur[s], dev |-> dev[s], at |-> at[s]]
  <2>1. /\ stored' = stored \cup {row} /\ rows' = rows /\ dev' = dev
        /\ received' = received /\ cur' = cur
        /\ \A t \in Sessions \ {s} : pc'[t] = pc[t]
    BY <1>3 DEF Insert, TypeOK
  <2>2. row.id = cur[s] /\ row \in stored'
    BY <2>1
  <2> HIDE DEF row
  <2> QED BY <2>1, <2>2 DEF SendsStored, Gone
<1>4. ASSUME NEW s \in Sessions, Fail(s) PROVE SendsStored'
  <2>1. /\ stored' = stored /\ rows' = rows /\ dev' = dev /\ received' = received
        /\ pc'[s] # "send"
        /\ \A t \in Sessions \ {s} : pc'[t] = pc[t] /\ cur'[t] = cur[t]
    BY <1>4 DEF Fail, Loop, TypeOK, database
  <2> QED BY <2>1 DEF SendsStored, Gone
<1>5. ASSUME NEW s \in Sessions, Send(s) PROVE SendsStored'
  <2>1. /\ stored' = stored /\ rows' = rows /\ dev' = dev /\ received' = received
        /\ pc'[s] # "send"
        /\ \A t \in Sessions \ {s} : pc'[t] = pc[t] /\ cur'[t] = cur[t]
    BY <1>5 DEF Send, Loop, TypeOK, database
  <2> QED BY <2>1 DEF SendsStored, Gone
<1>6. ASSUME NEW d \in Devices, DeleteDevice(d) PROVE SendsStored'
  <2>1. /\ dev' = dev /\ received' = received /\ pc' = pc /\ cur' = cur
        /\ rows' = rows \ {d} /\ stored' = {e \in stored : e.dev # d}
    BY <1>6 DEF DeleteDevice, session
  <2>2. ASSUME NEW t \in Sessions, pc[t] = "send", NEW e \in stored, e.id = cur[t]
        PROVE  Gone(cur[t])' \/ e \in stored'
    BY <2>1, <2>2 DEF Known, Gone
  <2> QED BY <2>1, <2>2 DEF SendsStored, Gone
<1>7. CASE UNCHANGED <<pc, cur, dev, rows, received, stored>>
  BY <1>7 DEF SendsStored, Gone, TypeOK
<1> QED
  BY <1>1, <1>2, <1>3, <1>4, <1>5, <1>6, <1>7
  DEF Next, SessionStep, ViewerStep, vars, session, database, viewer, Tick,
      Subscribe, Lagged, NextItem, Leave, List

(* A new item brings the viewer of a stream on by what it stands for.       *)
LEMMA ItemAdded ==
    ASSUME TypeOK, NEW v \in Viewers, NEW x \in Yield,
           items' = [items EXCEPT ![v] = Append(items[v], x)], since' = since
    PROVE  /\ Len(items[v]) \in Nat
           /\ Len(items'[v]) = Len(items[v]) + 1
           /\ items'[v][Len(items[v]) + 1] = x
           /\ \A k \in 1 .. Len(items[v]) : items'[v][k] = items[v][k]
           /\ \A k \in 0 .. Len(items[v]) : Position(v)'[k] = Position(v)[k]
           /\ Position(v)'[Len(items[v]) + 1] = Position(v)[Len(items[v])] + Advance(x)
           /\ \A u \in Viewers \ {v} : items'[u] = items[u] /\ Position(u)' = Position(u)
<1>1. /\ items[v] \in Seq(Yield) /\ since[v] \in Nat
      /\ items'[v] = Append(items[v], x)
      /\ \A u \in Viewers \ {v} : items'[u] = items[u]
  BY BoundAssumption DEF TypeOK
<1>2. Position(v)' = Brought(Append(items[v], x), since[v])
  BY <1>1 DEF Position
<1>3. /\ \A k \in 0 .. Len(items[v]) : Position(v)'[k] = Position(v)[k]
      /\ Position(v)'[Len(items[v]) + 1] = Position(v)[Len(items[v])] + Advance(x)
  BY <1>1, <1>2, BroughtAppend DEF Position
<1>4. \A u \in Viewers \ {v} : Position(u)' = Position(u)
  BY <1>1 DEF Position
<1>5. /\ Len(items[v]) \in Nat /\ Len(items'[v]) = Len(items[v]) + 1
      /\ items'[v][Len(items[v]) + 1] = x
      /\ \A k \in 1 .. Len(items[v]) : items'[v][k] = items[v][k]
  <2> HIDE DEF Yield
  <2> QED BY <1>1
<1> QED BY <1>1, <1>3, <1>4, <1>5

(* What both kinds of items do: the viewer moves on to `there`, by as much  *)
(* as the item stands for.                                                  *)
LEMMA SeatsAfter ==
    ASSUME TypeOK, Seats, NoSilentGap, NEW v \in Viewers, NEW x \in Yield,
           NEW there \in 1 .. Len(announced), next[v] + Advance(x) = there,
           x.kind = "event" => x.id = announced[there],
           announced' = announced, open' = open, listed' = listed, since' = since,
           next' = [next EXCEPT ![v] = there], open[v],
           items' = [items EXCEPT ![v] = Append(items[v], x)]
    PROVE  (Seats /\ NoSilentGap)'
<1> DEFINE n == Len(items[v])
<1>1. /\ n \in Nat /\ Len(items'[v]) = n + 1 /\ items'[v][n + 1] = x
      /\ \A k \in 1 .. n : items'[v][k] = items[v][k]
      /\ \A k \in 0 .. n : Position(v)'[k] = Position(v)[k]
      /\ Position(v)'[n + 1] = Position(v)[n] + Advance(x)
      /\ \A u \in Viewers \ {v} : items'[u] = items[u] /\ Position(u)' = Position(u)
  BY ItemAdded
<1>2. Position(v)[n] = next[v] /\ Position(v)'[n + 1] = there
  BY <1>1 DEF NoSilentGap
<1>3. /\ next'[v] = there
      /\ \A u \in Viewers \ {v} : next'[u] = next[u] /\ Wrote(u)' = Wrote(u)
  BY <1>1 DEF TypeOK, Wrote
<1>4. Len(announced) \in Nat /\ \A k \in 1 .. n + 1 : k \in 1 .. n \/ k = n + 1
  BY <1>1 DEF TypeOK
<1> HIDE DEF n
<1>5. \A k \in 1 .. n + 1 : Position(v)'[k] \in 1 .. Len(announced)
  <2>1. \A k \in 1 .. n : Position(v)[k] \in 1 .. Len(announced) /\ k \in 0 .. n
    BY <1>1 DEF Seats, n
  <2> QED BY <1>1, <1>2, <1>4, <2>1
<1>6. Seats'
  <2>1. ASSUME NEW u \in Viewers \ {v}
        PROVE  /\ next'[u] <= Len(announced) /\ since[u] <= Len(announced)
               /\ ~open[u] => listed[u] = NoList /\ items'[u] = << >>
               /\ \A k \in 1 .. Len(items'[u]) : Position(u)'[k] \in 1 .. Len(announced)
    BY <1>1, <1>3 DEF Seats
  <2>2. /\ next'[v] <= Len(announced) /\ since[v] <= Len(announced)
        /\ \A k \in 1 .. Len(items'[v]) : Position(v)'[k] \in 1 .. Len(announced)
    BY <1>1, <1>3, <1>4, <1>5 DEF Seats
  <2> QED BY <2>1, <2>2 DEF Seats
<1>7. NoSilentGap'
  <2> SUFFICES ASSUME NEW u \in Viewers
               PROVE  /\ Position(u)'[Len(items'[u])] = next'[u]
                      /\ \A k \in Wrote(u)' : items'[u][k].id = announced'[Position(u)'[k]]
    BY DEF NoSilentGap
  <2>1. CASE u # v
    BY <1>1, <1>3, <2>1 DEF NoSilentGap
  <2>2. Position(v)'[Len(items'[v])] = next'[v]
    BY <1>1, <1>2, <1>3
  <2>3. ASSUME NEW k \in Wrote(v)'
        PROVE  items'[v][k].id = announced[Position(v)'[k]]
    <3>1. k \in 1 .. n + 1 /\ items'[v][k].kind = "event"
      BY <1>1 DEF Wrote
    <3>2. CASE k = n + 1
      BY <1>1, <1>2, <3>1, <3>2
    <3>3. CASE k \in 1 .. n
      <4>1. k \in Wrote(v) /\ k \in 0 .. n
        BY <1>1, <3>1, <3>3 DEF Wrote, n
      <4>2. items[v][k].id = announced[Position(v)[k]]
        BY <4>1 DEF NoSilentGap
      <4> QED BY <1>1, <3>3, <4>1, <4>2
    <3> QED BY <1>4, <3>1, <3>2, <3>3
  <2> QED BY <2>1, <2>2, <2>3
<1> QED BY <1>6, <1>7

(* A viewer is nowhere but where the items of its stream have brought it.   *)
LEMMA SeatsStep ==
    ASSUME TypeOK, HandlesLast, Known, SentOnce, SessionOrder, Seats, NoSilentGap,
           [Next]_vars
    PROVE  (Seats /\ NoSilentGap)'
<1>1. ASSUME NEW s \in Sessions, Send(s) PROVE (Seats /\ NoSilentGap)'
  <2>1. /\ open' = open /\ next' = next /\ items' = items /\ listed' = listed
        /\ since' = since
    BY <1>1 DEF Send, viewer
  <2>2. /\ Len(announced) \in Nat /\ Len(announced') \in Nat
        /\ Len(announced) <= Len(announced')
        /\ \A k \in 1 .. Len(announced) : announced'[k] = announced[k]
    BY <1>1, SendGrows
  <2>3. \A u \in Viewers : /\ Position(u)' = Position(u) /\ Wrote(u)' = Wrote(u)
                          /\ next[u] \in Nat /\ since[u] \in Nat
    BY <2>1, BoundAssumption DEF Position, Wrote, TypeOK
  <2>4. Seats'
    <3> SUFFICES ASSUME NEW u \in Viewers
                 PROVE  /\ next[u] <= Len(announced') /\ since[u] <= Len(announced')
                        /\ \A k \in 1 .. Len(items[u]) :
                             Position(u)[k] \in 1 .. Len(announced')
      BY <2>1, <2>3 DEF Seats
    <3>1. /\ next[u] <= Len(announced) /\ since[u] <= Len(announced)
          /\ \A k \in 1 .. Len(items[u]) : Position(u)[k] \in 1 .. Len(announced)
      BY DEF Seats
    <3> QED BY <2>2, <2>3, <3>1
  <2>5. NoSilentGap'
    <3> SUFFICES ASSUME NEW u \in Viewers
                 PROVE  /\ Position(u)[Len(items[u])] = next[u]
                        /\ \A k \in Wrote(u) : items[u][k].id = announced'[Position(u)[k]]
      BY <2>1, <2>3 DEF NoSilentGap
    <3>1. Position(u)[Len(items[u])] = next[u]
      BY DEF NoSilentGap
    <3>2. ASSUME NEW k \in Wrote(u) PROVE items[u][k].id = announced'[Position(u)[k]]
      <4>1. k \in 1 .. Len(items[u]) /\ items[u][k].id = announced[Position(u)[k]]
        BY DEF Wrote, NoSilentGap
      <4>2. Position(u)[k] \in 1 .. Len(announced)
        BY <4>1 DEF Seats
      <4> QED BY <2>2, <4>1, <4>2
    <3> QED BY <3>1, <3>2
  <2> QED BY <2>4, <2>5
<1>2. ASSUME NEW v \in Viewers, Subscribe(v) PROVE (Seats /\ NoSilentGap)'
  <2>1. /\ announced' = announced /\ items' = items /\ listed' = listed
        /\ next' = [next EXCEPT ![v] = Len(announced)]
        /\ since' = [since EXCEPT ![v] = Len(announced)]
        /\ open' = [open EXCEPT ![v] = TRUE] /\ ~open[v]
    BY <1>2 DEF Subscribe
  <2>2. Len(announced) \in Nat /\ items[v] = << >> /\ << >> \in Seq(Yield) /\ Len(<< >>) = 0
    BY <2>1 DEF Seats, TypeOK
  <2>3. /\ next'[v] = Len(announced) /\ since'[v] = Len(announced) /\ open'[v] = TRUE
        /\ \A u \in Viewers \ {v} : next'[u] = next[u] /\ since'[u] = since[u] /\ open'[u] = open[u]
    BY <2>1 DEF TypeOK
  <2>4. Position(v)'[0] = Len(announced) /\ Wrote(v)' = {} /\ 1 .. Len(items[v]) = {}
    <3>1. Position(v)' = Brought(<< >>, Len(announced))
      BY <2>1, <2>2, <2>3 DEF Position
    <3>2. Brought(<< >>, Len(announced))[0] = Len(announced)
      BY <2>2, BroughtIs
    <3> QED BY <2>1, <2>2, <3>1, <3>2 DEF Wrote
  <2>5. \A u \in Viewers \ {v} : Position(u)' = Position(u) /\ Wrote(u)' = Wrote(u)
    BY <2>1, <2>3 DEF Position, Wrote
  <2>6. Seats'
    BY <2>1, <2>2, <2>3, <2>4, <2>5 DEF Seats
  <2>7. NoSilentGap'
    BY <2>1, <2>2, <2>3, <2>4, <2>5 DEF NoSilentGap
  <2> QED BY <2>6, <2>7
<1>3. ASSUME NEW v \in Viewers, Lagged(v) PROVE (Seats /\ NoSilentGap)'
  <2> DEFINE x == [kind |-> "error", missed |-> Missed(v)]
             there == Len(announced) - Cap
  <2>1. /\ announced' = announced /\ open' = open /\ listed' = listed /\ since' = since
        /\ next' = [next EXCEPT ![v] = there] /\ open[v]
        /\ items' = [items EXCEPT ![v] = Append(items[v], x)]
    BY <1>3 DEF Lagged
  <2>2. /\ Len(announced) \in 0 .. MaxReports /\ next[v] \in Nat
        /\ next[v] + Cap < Len(announced) /\ Missed(v) = Len(announced) - Cap - next[v]
    BY <1>3, AnnouncedShort DEF Lagged, Behind, Missed, TypeOK
  <2>3. /\ there \in 1 .. Len(announced) /\ Missed(v) \in Reports
        /\ next[v] + Missed(v) = there
    BY <2>2, CapAssumption, BoundAssumption DEF Reports
  <2>4. x \in Yield /\ Advance(x) = Missed(v) /\ x.kind # "event"
    BY <2>3 DEF Yield, Advance
  <2> HIDE DEF x, there
  <2> QED BY <2>1, <2>3, <2>4, SeatsAfter
<1>4. ASSUME NEW v \in Viewers, NextItem(v) PROVE (Seats /\ NoSilentGap)'
  <2> DEFINE x == [kind |-> "event", id |-> announced[next[v] + 1]]
             there == next[v] + 1
  <2>1. /\ announced' = announced /\ open' = open /\ listed' = listed /\ since' = since
        /\ next' = [next EXCEPT ![v] = there] /\ open[v]
        /\ items' = [items EXCEPT ![v] = Append(items[v], x)]
    BY <1>4 DEF NextItem
  <2>2. /\ Len(announced) \in Nat /\ next[v] \in Nat /\ next[v] < Len(announced)
    BY <1>4 DEF NextItem, TypeOK
  <2>3. there \in 1 .. Len(announced) /\ next[v] + 1 = there
    BY <2>2
  <2>4. announced[there] \in Reports
    BY <2>3 DEF TypeOK
  <2>5. x \in Yield /\ Advance(x) = 1 /\ x.id = announced[there]
    BY <2>4 DEF Yield, Advance
  <2> HIDE DEF x, there
  <2> QED BY <2>1, <2>3, <2>5, SeatsAfter
<1>5. ASSUME NEW v \in Viewers, Leave(v) PROVE (Seats /\ NoSilentGap)'
  <2>1. /\ announced' = announced
        /\ next' = [next EXCEPT ![v] = 0] /\ since' = [since EXCEPT ![v] = 0]
        /\ open' = [open EXCEPT ![v] = FALSE]
        /\ items' = [items EXCEPT ![v] = << >>]
        /\ listed' = [listed EXCEPT ![v] = NoList]
    BY <1>5 DEF Leave
  <2>2. Len(announced) \in Nat /\ << >> \in Seq(Yield) /\ Len(<< >>) = 0
    BY DEF TypeOK
  <2>3. /\ next'[v] = 0 /\ since'[v] = 0 /\ items'[v] = << >> /\ listed'[v] = NoList
        /\ \A u \in Viewers \ {v} :
             /\ next'[u] = next[u] /\ since'[u] = since[u] /\ open'[u] = open[u]
             /\ items'[u] = items[u] /\ listed'[u] = listed[u]
    BY <2>1 DEF TypeOK
  <2>4. Position(v)'[0] = 0 /\ Wrote(v)' = {} /\ 1 .. Len(items'[v]) = {} /\ Len(items'[v]) = 0
    <3>1. Position(v)' = Brought(<< >>, 0)
      BY <2>3 DEF Position
    <3>2. Brought(<< >>, 0)[0] = 0
      BY <2>2, BroughtIs
    <3> QED BY <2>2, <2>3, <3>1, <3>2 DEF Wrote
  <2>5. \A u \in Viewers \ {v} : Position(u)' = Position(u) /\ Wrote(u)' = Wrote(u)
    BY <2>3 DEF Position, Wrote
  <2>6. Seats'
    BY <2>1, <2>2, <2>3, <2>4, <2>5 DEF Seats
  <2>7. NoSilentGap'
    BY <2>1, <2>2, <2>3, <2>4, <2>5 DEF NoSilentGap
  <2> QED BY <2>6, <2>7
<1>6. ASSUME NEW v \in Viewers, List(v) PROVE (Seats /\ NoSilentGap)'
  <2>1. /\ announced' = announced /\ open' = open /\ next' = next /\ items' = items
        /\ since' = since /\ open[v]
        /\ \A u \in Viewers \ {v} : listed'[u] = listed[u]
    BY <1>6 DEF List, TypeOK
  <2>2. \A u \in Viewers : Position(u)' = Position(u) /\ Wrote(u)' = Wrote(u)
    BY <2>1 DEF Position, Wrote
  <2> QED BY <2>1, <2>2 DEF Seats, NoSilentGap
<1>7. CASE UNCHANGED <<announced, open, next, items, listed, since>>
  BY <1>7 DEF Seats, NoSilentGap, Wrote, Position
<1> QED
  BY <1>1, <1>2, <1>3, <1>4, <1>5, <1>6, <1>7
  DEF Next, SessionStep, ViewerStep, vars, session, database, viewer, Receive,
      Update, Insert, Fail, DeleteDevice, Tick, Loop

(* What was announced stays stored as long as its device.                   *)
LEMMA StoredStep ==
    ASSUME TypeOK, HandlesLast, Known, SentOnce, SendsStored, AnnouncedStored,
           [Next]_vars
    PROVE  AnnouncedStored'
<1>1. ASSUME NEW s \in Sessions, NEW kind \in Kinds, Receive(s, kind) PROVE
      AnnouncedStored'
  <2>1. stored' = stored /\ rows' = rows /\ dev' = dev /\ announced' = announced
    BY <1>1 DEF Receive, database
  <2>2. \A m \in 1 .. Len(received) : received'[m] = received[m]
    BY <1>1, ReceiveGrows
  <2>3. \A k \in 1 .. Len(announced) : announced[k] \in 1 .. Len(received)
    BY DEF SentOnce
  <2> QED BY <2>1, <2>2, <2>3 DEF AnnouncedStored, Gone
<1>2. ASSUME NEW s \in Sessions, Insert(s) PROVE AnnouncedStored'
  <2>1. /\ stored \subseteq stored' /\ rows' = rows /\ dev' = dev
        /\ announced' = announced /\ received' = received
    BY <1>2 DEF Insert
  <2> QED BY <2>1 DEF AnnouncedStored, Gone
<1>3. ASSUME NEW s \in Sessions, Send(s) PROVE AnnouncedStored'
  <2>1. /\ stored' = stored /\ rows' = rows /\ dev' = dev /\ received' = received
        /\ pc[s] = "send"
    BY <1>3 DEF Send, database
  <2>2. Gone(cur[s]) \/ \E e \in stored : e.id = cur[s]
    BY <2>1 DEF SendsStored
  <2>3. \A k \in 1 .. Len(announced') :
          \/ k \in 1 .. Len(announced) /\ announced'[k] = announced[k]
          \/ announced'[k] = cur[s]
    BY <1>3, SendGrows
  <2> QED BY <2>1, <2>2, <2>3 DEF AnnouncedStored, Gone
<1>4. ASSUME NEW d \in Devices, DeleteDevice(d) PROVE AnnouncedStored'
  <2>1. /\ dev' = dev /\ received' = received /\ announced' = announced
        /\ rows' = rows \ {d} /\ stored' = {e \in stored : e.dev # d}
    BY <1>4 DEF DeleteDevice
  <2>2. ASSUME NEW k \in 1 .. Len(announced), NEW e \in stored, e.id = announced[k]
        PROVE  Gone(announced[k])' \/ e \in stored'
    BY <2>1, <2>2 DEF Known, Gone
  <2> QED BY <2>1, <2>2 DEF AnnouncedStored, Gone
<1>5. CASE UNCHANGED <<dev, rows, stored, announced, received>>
  BY <1>5 DEF AnnouncedStored, Gone, TypeOK
<1> QED
  BY <1>1, <1>2, <1>3, <1>4, <1>5
  DEF Next, SessionStep, ViewerStep, vars, session, database, viewer, Update,
      Fail, Tick, Subscribe, Lagged, NextItem, Leave, List, Loop

(* A session announces its reports in their order, and each once.           *)
LEMMA OrderStep ==
    ASSUME TypeOK, HandlesLast, Known, SentOnce, SessionOrder, [Next]_vars PROVE SessionOrder'
<1>1. ASSUME NEW s \in Sessions, NEW kind \in Kinds, Receive(s, kind) PROVE
      SessionOrder'
  <2>1. announced' = announced
    BY <1>1 DEF Receive
  <2>2. \A m \in 1 .. Len(received) : received'[m] = received[m]
    BY <1>1, ReceiveGrows
  <2>3. \A k \in 1 .. Len(announced) : announced[k] \in 1 .. Len(received)
    BY DEF SentOnce
  <2> QED BY <2>1, <2>2, <2>3 DEF SessionOrder
<1>2. ASSUME NEW s \in Sessions, Send(s) PROVE SessionOrder'
  <2> DEFINE n == Len(announced)
  <2>1. received' = received /\ pc[s] # "recv"
    BY <1>2 DEF Send
  <2>2. received[cur[s]].by = s /\ n \in Nat
    BY <2>1 DEF HandlesLast, TypeOK
  <2>3. CASE announced' = announced
    BY <2>1, <2>3 DEF SessionOrder
  <2>4. CASE /\ Len(announced') = n + 1 /\ announced'[n + 1] = cur[s]
             /\ \A k \in 1 .. n : announced'[k] = announced[k]
    <3>1. ASSUME NEW j \in 1 .. n + 1, NEW k \in 1 .. n + 1, j < k,
                 received[announced'[j]].by = received[announced'[k]].by
          PROVE  announced'[j] < announced'[k]
      <4>1. j \in 1 .. n
        BY <2>2, <3>1
      <4>2. CASE k \in 1 .. n
        BY <2>4, <3>1, <4>1, <4>2 DEF SessionOrder
      <4>3. CASE k = n + 1
        <5>1. announced'[k] = cur[s] /\ announced'[j] = announced[j]
          BY <2>4, <4>1, <4>3
        <5>2. received[announced[j]].by = s
          BY <2>2, <3>1, <5>1
        <5> QED BY <2>1, <4>1, <5>1, <5>2 DEF SentOnce
      <4> QED BY <2>2, <4>2, <4>3
    <3> QED BY <2>1, <2>4, <3>1 DEF SessionOrder
  <2> QED BY <1>2, <2>3, <2>4, SendGrows
<1>3. CASE UNCHANGED <<announced, received>>
  BY <1>3 DEF SessionOrder, TypeOK
<1> QED
  BY <1>1, <1>2, <1>3
  DEF Next, SessionStep, ViewerStep, vars, session, database, viewer, Update,
      Insert, Fail, DeleteDevice, Tick, Subscribe, Lagged, NextItem, Leave,
      List, Loop

(* Columns show no older report of a session than the last one it           *)
(* completed.                                                               *)
LEMMA ShownStep ==
    ASSUME TypeOK, HandlesLast, Known, LastReportShown, [Next]_vars PROVE LastReportShown'
<1>1. ASSUME NEW s \in Sessions, NEW kind \in Kinds, Receive(s, kind) PROVE
      LastReportShown'
  <2>1. shown' = shown /\ rows' = rows /\ dev' = dev /\ done' = done
    BY <1>1 DEF Receive, database
  <2>2. \A m \in 1 .. Len(received) : received'[m] = received[m]
    BY <1>1, ReceiveGrows
  <2>3. \A d \in Devices, k \in Columns : shown[d][k] \in Nat /\ shown[d][k] <= Len(received)
    BY BoundAssumption DEF Known, TypeOK
  <2>4. \A d \in Devices, k \in Columns :
          shown[d][k] # 0 => received'[shown[d][k]] = received[shown[d][k]]
    BY <2>2, <2>3
  <2>5. \A t \in Sessions : dev[t] \in Devices
    BY DEF TypeOK
  <2> QED BY <2>1, <2>4, <2>5 DEF LastReportShown
<1>2. ASSUME NEW s \in Sessions, Update(s) PROVE LastReportShown'
  <2>1. /\ dev' = dev /\ rows' = rows /\ received' = received /\ pc[s] = "update"
        /\ \A k \in Columns : /\ done'[s][k] = IF k \in ColumnsOf(KindOf(s)) THEN cur[s]
                                                                         ELSE done[s][k]
        /\ \A t \in Sessions \ {s} : done'[t] = done[t]
    BY <1>2 DEF Update, TypeOK
  <2>2. /\ \A k \in Columns :
             shown'[dev[s]][k] = IF k \in ColumnsOf(KindOf(s)) /\ dev[s] \in rows
                                 THEN cur[s] ELSE shown[dev[s]][k]
        /\ \A d \in Devices \ {dev[s]} : shown'[d] = shown[d]
    BY <1>2 DEF Update, ShownAfter, TypeOK
  <2>3. cur[s] \in Nat /\ cur[s] # 0 /\ received[cur[s]].by = s
    BY <2>1 DEF HandlesLast, TypeOK
  <2> SUFFICES ASSUME NEW t \in Sessions, NEW k \in Columns,
                      dev[t] \in rows, done'[t][k] # 0
               PROVE  /\ shown'[dev[t]][k] # 0
                      /\ received[shown'[dev[t]][k]].by = t => shown'[dev[t]][k] >= done'[t][k]
    BY <2>1 DEF LastReportShown
  <2>4. dev[t] \in Devices /\ dev[s] \in Devices
    BY DEF TypeOK
  <2>5. CASE k \in ColumnsOf(KindOf(s)) /\ dev[t] = dev[s]
    <3>1. shown'[dev[t]][k] = cur[s]
      BY <2>2, <2>5
    <3>2. CASE t = s
      BY <2>1, <2>3, <2>5, <3>1, <3>2
    <3>3. CASE t # s
      BY <2>3, <3>1, <3>3
    <3> QED BY <3>2, <3>3
  <2>6. CASE ~ (k \in ColumnsOf(KindOf(s)) /\ dev[t] = dev[s])
    <3>1. shown'[dev[t]][k] = shown[dev[t]][k]
      BY <2>2, <2>4, <2>6
    <3>2. done'[t][k] = done[t][k]
      BY <2>1, <2>6
    <3> QED BY <3>1, <3>2 DEF LastReportShown
  <2> QED BY <2>5, <2>6
<1>3. ASSUME NEW d \in Devices, DeleteDevice(d) PROVE LastReportShown'
  BY <1>3 DEF DeleteDevice, LastReportShown, TypeOK
<1>4. CASE UNCHANGED <<dev, rows, shown, received, done>>
  BY <1>4 DEF LastReportShown, TypeOK
<1> QED
  BY <1>1, <1>2, <1>3, <1>4
  DEF Next, SessionStep, ViewerStep, vars, session, database, viewer, Insert,
      Fail, Send, Tick, Subscribe, Lagged, NextItem, Leave, List, Loop

(* Whatever is stored is in the list, in the stream, or still to be         *)
(* announced.                                                               *)
LEMMA CaughtStep ==
    ASSUME TypeOK, HandlesLast, Known, Seats, CaughtUp, [Next]_vars PROVE CaughtUp'
<1>1. ASSUME NEW s \in Sessions, NEW kind \in Kinds, Receive(s, kind) PROVE
      CaughtUp'
  <2>1. /\ stored' = stored /\ announced' = announced /\ open' = open
        /\ listed' = listed /\ since' = since /\ pc[s] = "recv"
        /\ \A t \in Sessions \ {s} : pc'[t] = pc[t] /\ cur'[t] = cur[t]
    BY <1>1 DEF Receive, TypeOK, database, viewer
  <2> QED BY <2>1 DEF CaughtUp
<1>2. ASSUME NEW s \in Sessions, Update(s) PROVE CaughtUp'
  <2>1. /\ stored' = stored /\ announced' = announced /\ open' = open
        /\ listed' = listed /\ since' = since /\ pc[s] = "update"
        /\ \A t \in Sessions \ {s} : pc'[t] = pc[t] /\ cur'[t] = cur[t]
    BY <1>2 DEF Update, Loop, TypeOK, viewer
  <2> QED BY <2>1 DEF CaughtUp
<1>3. ASSUME NEW s \in Sessions, Insert(s) PROVE CaughtUp'
  <2> DEFINE row == [id |-> cur[s], dev |-> dev[s], at |-> at[s]]
  <2>1. /\ stored' = stored \cup {row} /\ announced' = announced /\ open' = open
        /\ listed' = listed /\ since' = since /\ pc[s] = "insert" /\ cur' = cur
        /\ pc'[s] = "send" /\ \A t \in Sessions \ {s} : pc'[t] = pc[t]
    BY <1>3 DEF Insert, TypeOK, viewer
  <2>2. row.id = cur[s]
    OBVIOUS
  <2> HIDE DEF row
  <2>3. \A t \in Sessions : pc[t] = "send" => pc'[t] = "send"
    BY <2>1
  <2> SUFFICES ASSUME NEW v \in Viewers, open[v], listed[v].taken, NEW e \in stored'
               PROVE  \/ e.id \in listed[v].ids
                      \/ \E k \in since[v] + 1 .. Len(announced) : announced[k] = e.id
                      \/ \E t \in Sessions : pc'[t] = "send" /\ cur[t] = e.id
                      \/ listed[v].full /\ e.at <= listed[v].oldest
    BY <2>1 DEF CaughtUp
  <2>4. CASE e = row
    BY <2>1, <2>2, <2>4
  <2>5. CASE e \in stored
    BY <2>3, <2>5 DEF CaughtUp
  <2> QED BY <2>1, <2>4, <2>5
<1>4. ASSUME NEW s \in Sessions, Fail(s) PROVE CaughtUp'
  <2>1. /\ stored' = stored /\ announced' = announced /\ open' = open
        /\ listed' = listed /\ since' = since /\ pc[s] # "send"
        /\ \A t \in Sessions \ {s} : pc'[t] = pc[t] /\ cur'[t] = cur[t]
    BY <1>4 DEF Fail, Loop, TypeOK, database, viewer
  <2> QED BY <2>1 DEF CaughtUp
<1>5. ASSUME NEW s \in Sessions, Send(s) PROVE CaughtUp'
  <2> DEFINE n == Len(announced)
  <2>1. /\ stored' = stored /\ open' = open /\ listed' = listed /\ since' = since
        /\ \A t \in Sessions \ {s} : pc'[t] = pc[t] /\ cur'[t] = cur[t]
    BY <1>5 DEF Send, Loop, TypeOK, database, viewer
  <2>2. CASE \A v \in Viewers : ~open[v]
    BY <2>1, <2>2 DEF CaughtUp
  <2>3. CASE /\ Len(announced') = n + 1 /\ announced'[n + 1] = cur[s]
             /\ \A k \in 1 .. n : announced'[k] = announced[k]
    <3> SUFFICES ASSUME NEW v \in Viewers, open[v], listed[v].taken, NEW e \in stored
                 PROVE  \/ e.id \in listed[v].ids
                        \/ \E k \in since[v] + 1 .. n + 1 : announced'[k] = e.id
                        \/ \E t \in Sessions : pc'[t] = "send" /\ cur'[t] = e.id
                        \/ listed[v].full /\ e.at <= listed[v].oldest
      BY <2>1, <2>3 DEF CaughtUp
    <3>1. since[v] \in Nat /\ n \in Nat /\ since[v] <= n
      BY BoundAssumption DEF TypeOK, Seats
    <3>2. CASE \E k \in since[v] + 1 .. n : announced[k] = e.id
      <4>1. PICK k \in since[v] + 1 .. n : announced[k] = e.id
        BY <3>2
      <4>2. k \in since[v] + 1 .. n + 1 /\ announced'[k] = e.id
        BY <2>3, <3>1, <4>1
      <4> QED BY <4>2
    <3>3. CASE cur[s] = e.id
      <4>1. n + 1 \in since[v] + 1 .. n + 1 /\ announced'[n + 1] = e.id
        BY <2>3, <3>1, <3>3
      <4> QED BY <4>1
    <3>4. CASE \E t \in Sessions \ {s} : pc[t] = "send" /\ cur[t] = e.id
      BY <2>1, <3>4
    <3>5. \/ e.id \in listed[v].ids
          \/ \E k \in since[v] + 1 .. n : announced[k] = e.id
          \/ \E t \in Sessions : pc[t] = "send" /\ cur[t] = e.id
          \/ listed[v].full /\ e.at <= listed[v].oldest
      BY DEF CaughtUp
    <3> QED BY <3>2, <3>3, <3>4, <3>5
  <2>4. \/ \A v \in Viewers : ~open[v]
        \/ /\ Len(announced') = n + 1 /\ announced'[n + 1] = cur[s]
           /\ \A k \in 1 .. n : announced'[k] = announced[k]
    BY <1>5, SendGrows
  <2> QED BY <2>2, <2>3, <2>4
<1>6. ASSUME NEW d \in Devices, DeleteDevice(d) PROVE CaughtUp'
  <2>1. /\ stored' \subseteq stored /\ announced' = announced /\ open' = open
        /\ listed' = listed /\ since' = since /\ pc' = pc /\ cur' = cur
    BY <1>6 DEF DeleteDevice, session, viewer
  <2> QED BY <2>1 DEF CaughtUp
<1>7. ASSUME NEW v \in Viewers, Subscribe(v) PROVE CaughtUp'
  <2>1. /\ stored' = stored /\ announced' = announced /\ listed' = listed
        /\ pc' = pc /\ cur' = cur /\ ~open[v]
        /\ \A u \in Viewers \ {v} : open'[u] = open[u] /\ since'[u] = since[u]
    BY <1>7 DEF Subscribe, TypeOK, session, database
  <2>2. ~ listed[v].taken
    BY <2>1 DEF Seats, NoList
  <2> QED BY <2>1, <2>2 DEF CaughtUp
<1>8. ASSUME NEW v \in Viewers, Leave(v) PROVE CaughtUp'
  <2>1. /\ stored' = stored /\ announced' = announced /\ pc' = pc /\ cur' = cur
        /\ open'[v] = FALSE
        /\ \A u \in Viewers \ {v} :
             open'[u] = open[u] /\ since'[u] = since[u] /\ listed'[u] = listed[u]
    BY <1>8 DEF Leave, TypeOK, session, database
  <2> QED BY <2>1 DEF CaughtUp
<1>9. ASSUME NEW v \in Viewers, List(v) PROVE CaughtUp'
  <2>1. PICK R \in Newest(Limit) : listed' = [listed EXCEPT ![v] = ListOf(R)]
    BY <1>9 DEF List
  <2>2. /\ stored' = stored /\ announced' = announced /\ open' = open /\ since' = since
        /\ pc' = pc /\ cur' = cur /\ listed'[v] = ListOf(R)
        /\ \A u \in Viewers \ {v} : listed'[u] = listed[u]
    BY <1>9, <2>1 DEF List, TypeOK, session, database
  <2>3. ASSUME NEW e \in stored
        PROVE  \/ e.id \in ListOf(R).ids
               \/ ListOf(R).full /\ e.at <= ListOf(R).oldest
    <3>1. /\ R \subseteq stored /\ \A x \in R, f \in stored \ R : f.at <= x.at
          /\ Cardinality(R) = IF Limit < Cardinality(stored) THEN Limit ELSE Cardinality(stored)
      BY DEF Newest
    <3>2. CASE e \in R
      BY <3>2 DEF ListOf
    <3>3. CASE e \notin R
      <4>1. Cardinality(R) = Limit
        <5>1. IsFiniteSet(stored)
          BY DEF Known
        <5>2. Cardinality(R) # Cardinality(stored)
          BY <3>1, <3>3, <5>1, FS_Subset
        <5> QED BY <3>1, <5>2
      <4>2. R # {}
        BY <4>1, FS_EmptySet, CapAssumption
      <4>3. PICK x \in R : x.at = Oldest(R)
        <5>1. R \subseteq [id : Reports, dev : Devices, at : 0 .. MaxTime]
          BY <3>1 DEF TypeOK
        <5> QED BY <4>2, <5>1, OldestIs
      <4>4. e.at <= Oldest(R)
        BY <3>1, <3>3, <4>3
      <4> QED BY <4>1, <4>4 DEF ListOf
    <3> QED BY <3>2, <3>3
  <2> SUFFICES ASSUME NEW u \in Viewers, open[u], listed'[u].taken, NEW e \in stored
               PROVE  \/ e.id \in listed'[u].ids
                      \/ \E k \in since[u] + 1 .. Len(announced) : announced[k] = e.id
                      \/ \E t \in Sessions : pc[t] = "send" /\ cur[t] = e.id
                      \/ listed'[u].full /\ e.at <= listed'[u].oldest
    BY <2>2 DEF CaughtUp
  <2>4. CASE u = v
    BY <2>2, <2>3, <2>4
  <2>5. CASE u # v
    BY <2>2, <2>5 DEF CaughtUp
  <2> QED BY <2>4, <2>5
<1>10. CASE UNCHANGED <<stored, announced, open, listed, since, pc, cur>>
  BY <1>10 DEF CaughtUp
<1> QED
  BY <1>1, <1>2, <1>3, <1>4, <1>5, <1>6, <1>7, <1>8, <1>9, <1>10
  DEF Next, SessionStep, ViewerStep, vars, session, database, viewer, Tick,
      Lagged, NextItem

-----------------------------------------------------------------------------
(* The initial states satisfy the inductive invariant ...                   *)
LEMMA InitInv == Init => EventsInv
<1> SUFFICES ASSUME Init PROVE EventsInv
  OBVIOUS
<1>1. 0 \in 0 .. MaxReports /\ 0 \in 0 .. MaxTime
  BY BoundAssumption
<1>2. TypeOK
  BY <1>1 DEF Init, TypeOK, NoList
<1>3. Len(announced) = 0 /\ Len(received) = 0 /\ 1 .. 0 = {}
  BY DEF Init
<1>4. HandlesLast /\ SendsStored /\ SentOnce /\ SessionOrder /\ AnnouncedStored
  BY <1>3 DEF Init, HandlesLast, SendsStored, SentOnce, SessionOrder, AnnouncedStored
<1>5. Known
  BY <1>3, BoundAssumption, FS_EmptySet DEF Init, Known
<1>6. CaughtUp /\ LastReportShown
  BY DEF Init, CaughtUp, LastReportShown
<1>7. Seats /\ NoSilentGap
  <2>1. \A v \in Viewers : /\ items[v] = << >> /\ since[v] = 0 /\ next[v] = 0
                          /\ ~open[v] /\ listed[v] = NoList
    BY DEF Init
  <2>2. << >> \in Seq(Yield) /\ Len(<< >>) = 0
    OBVIOUS
  <2>3. \A v \in Viewers : Position(v)[0] = 0 /\ Wrote(v) = {} /\ Len(items[v]) = 0
    <3>1. Brought(<< >>, 0)[0] = 0
      BY <2>2, BroughtIs
    <3>2. \A v \in Viewers : Position(v) = Brought(<< >>, 0)
      BY <2>1 DEF Position
    <3>3. \A v \in Viewers : Wrote(v) = {}
      BY <2>1, <2>2, <1>3 DEF Wrote
    <3> QED BY <2>1, <2>2, <3>1, <3>2, <3>3
  <2> QED BY <1>3, <2>1, <2>3 DEF Seats, NoSilentGap
<1> QED BY <1>2, <1>4, <1>5, <1>6, <1>7 DEF EventsInv

(* ... and every step keeps it.                                             *)
LEMMA InvStep == EventsInv /\ [Next]_vars => EventsInv'
  BY TypeStep, LastStep, KnownStep, SentStep, SendsStep, SeatsStep, StoredStep,
     OrderStep, ShownStep, CaughtStep DEF EventsInv

(* The inductive invariant of reports, streams and lists.                   *)
THEOREM EventsInvariance == Spec => []EventsInv
  BY InitInv, InvStep, PTL DEF Spec

(* Every variable keeps its type.                                           *)
THEOREM EventsTypes == Spec => []TypeOK
<1>1. EventsInv => TypeOK
  BY DEF EventsInv
<1> QED BY <1>1, EventsInvariance, PTL

(* A stream leaves nothing out in silence, whatever the size of the channel *)
(* and however often the viewer is overtaken.                               *)
THEOREM GapsAreTold == Spec => []NoSilentGap
<1>1. EventsInv => NoSilentGap
  BY DEF EventsInv
<1> QED BY <1>1, EventsInvariance, PTL

(* Whoever subscribes and then lists misses no stored event.                *)
THEOREM ListAndStreamMeet == Spec => []CaughtUp
<1>1. EventsInv => CaughtUp
  BY DEF EventsInv
<1> QED BY <1>1, EventsInvariance, PTL

(* What was announced can be looked up while its device exists.             *)
THEOREM AnnouncedIsStored == Spec => []AnnouncedStored
<1>1. EventsInv => AnnouncedStored
  BY DEF EventsInv
<1> QED BY <1>1, EventsInvariance, PTL

(* The reports of a session are announced in their order, each once.        *)
THEOREM OrderIsKept == Spec => []SessionOrder
<1>1. EventsInv => SessionOrder
  BY DEF EventsInv
<1> QED BY <1>1, EventsInvariance, PTL

(* A device never shows an older report of a session than the last one that *)
(* session completed.                                                       *)
THEOREM LastReportIsShown == Spec => []LastReportShown
<1>1. EventsInv => LastReportShown
  BY DEF EventsInv
<1> QED BY <1>1, EventsInvariance, PTL
=============================================================================
