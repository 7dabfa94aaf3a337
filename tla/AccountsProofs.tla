---------------------------- MODULE AccountsProofs ----------------------------
(***************************************************************************)
(* Proofs about module Accounts, for any columns, users, sources, requests *)
(* and bounds: AccountsInv is inductive.  A hub that serves has a matching *)
(* certificate and key, all columns and its administrator, and a lock-out  *)
(* is earned.                                                              *)
(***************************************************************************)
EXTENDS Accounts, FiniteSetTheorems, TLAPS

(* There is at least one request, and finitely many are late.               *)
LEMMA SomeRequests == Cardinality(Requests) \in Nat \ {0}
BY RequestsAssumption, FS_CardinalityType, FS_EmptySet

LEMMA LateType ==
    ASSUME NEW k \in Keys
    PROVE  IsFiniteSet(Late(k)) /\ Cardinality(Late(k)) \in Nat
<1>1. Late(k) \in SUBSET Requests
  BY DEF Late
<1> QED BY <1>1, RequestsAssumption, FS_Subset, FS_CardinalityType

(* The initial states satisfy the inductive invariant.                      *)
LEMMA InitInv == Init => AccountsInv
<1> SUFFICES ASSUME Init PROVE AccountsInv
  OBVIOUS
<1> USE StartsAssumption, TimeAssumption
<1>1. StartupTypeOK
  <2>1. role \in [Names -> Roles] /\ file.role \in [Names -> Roles]
    BY DEF Init, StartupInit, Roles
  <2>2. 0 \in 0 .. Foreign /\ Foreign \in 0 .. Foreign
    BY DEF Foreign
  <2>3. tls \in Pairs /\ served \in Pairs /\ file.tls \in Pairs
    BY <2>2 DEF Init, StartupInit, NoPair, Pair, Pairs
  <2>4. file \in [role : [Names -> Roles], tls : Pairs]
    BY <2>1, <2>3 DEF Init, StartupInit
  <2>5. /\ phase = "down" /\ starts = 0 /\ missing = {} /\ cols \subseteq Columns
        /\ replaced = FALSE
    BY DEF Init, StartupInit
  <2>6. starts \in 0 .. MaxStarts /\ missing \subseteq Columns
    BY <2>5
  <2>7. replaced \in BOOLEAN
    BY <2>5, Zenon
  <2> QED BY <2>1, <2>3, <2>4, <2>5, <2>6, <2>7, Zenon DEF StartupTypeOK
<1>2. TypeOK
  BY <1>1 DEF Init, TypeOK, NoFailures, NoneInRow, AllIdle, NoKeys, NoTimes, NoEntry,
              MaxFailures
<1>3. StartupInv
  BY DEF Init, StartupInit, StartupInv, ServesPair, AdminThere, Serving, NoPair, Pair
<1>4. LoginInv
  BY DEF Init, LoginInv, NoFailures, NoneInRow, AllIdle, NoTimes, NoEntry
<1>5. LateInv
  <2> SUFFICES ASSUME NEW k \in Keys
               PROVE  inRow[k] + Cardinality(Late(k)) <=
                          failures[k].count + Cardinality(Requests) - 1
    BY DEF LateInv
  <2>1. Late(k) = {}
    BY DEF Init, Late, AllIdle
  <2>2. Cardinality(Late(k)) = 0
    BY <2>1, FS_EmptySet
  <2>3. failures[k].count = 0 /\ inRow[k] = 0
    BY DEF Init, NoFailures, NoneInRow, NoEntry
  <2> QED BY <2>2, <2>3, SomeRequests
<1> QED BY <1>2, <1>3, <1>4, <1>5 DEF AccountsInv

-----------------------------------------------------------------------------
(* The statements of main, and the requests that change the same rows.      *)

(* What a start changes keeps the types of Startup.                         *)
LEMMA MainTypes ==
    ASSUME StartupTypeOK, MainStep \/ Stop PROVE StartupTypeOK'
<1> USE StartsAssumption DEF StartupTypeOK, Pairs, Foreign, tables
<1>1. CASE Start
  BY <1>1 DEF Start
<1>2. ASSUME NEW c \in Columns, AddColumn(c) PROVE StartupTypeOK'
  BY <1>2 DEF AddColumn
<1>3. CASE ColumnsDone
  BY <1>3 DEF ColumnsDone
<1>4. CASE CountAdmin
  BY <1>4 DEF CountAdmin
<1>5. CASE InsertAdmin
  BY <1>5 DEF InsertAdmin, Names, Roles
<1>6. CASE TlsGet
  BY <1>6 DEF TlsGet
<1>7. CASE SetCert
  BY <1>7 DEF SetCert
<1>8. CASE SetKey
  BY <1>8 DEF SetKey
<1>9. CASE Load
  <2>1. served' = tls \/ served' = NoPair
    BY <1>9 DEF Load
  <2>2. served' \in Pairs
    BY <2>1 DEF NoPair
  <2>3. phase' \in {"serving", "down"} /\ UNCHANGED <<starts, missing, tables, file>>
        /\ replaced' \in BOOLEAN
    BY <1>9 DEF Load
  <2> QED BY <2>2, <2>3
<1>10. CASE Stop
  BY <1>10 DEF Stop, NoPair
<1> QED
  BY <1>1, <1>2, <1>3, <1>4, <1>5, <1>6, <1>7, <1>8, <1>9, <1>10 DEF MainStep

(* What a start changes keeps its invariant.                                *)
LEMMA MainKeeps ==
    ASSUME StartupTypeOK, StartupInv, MainStep \/ Stop PROVE StartupInv'
<1> USE StartsAssumption
    DEF StartupInv, ServesPair, AdminThere, Serving, tables
<1>1. CASE Start
  BY <1>1 DEF Start, StartupTypeOK
<1>2. ASSUME NEW c \in Columns, AddColumn(c) PROVE StartupInv'
  BY <1>2 DEF AddColumn
<1>3. CASE ColumnsDone
  BY <1>3 DEF ColumnsDone, StartupTypeOK
<1>4. CASE CountAdmin
  BY <1>4 DEF CountAdmin, AdminCounted
<1>5. CASE InsertAdmin
  BY <1>5 DEF InsertAdmin, StartupTypeOK, Names
<1>6. CASE TlsGet
  BY <1>6 DEF TlsGet, HasPair
<1>7. CASE SetCert
  BY <1>7 DEF SetCert, StartupTypeOK, Pairs
<1>8. CASE SetKey
  BY <1>8 DEF SetKey, StartupTypeOK, Pairs
<1>9. CASE Load
  BY <1>9 DEF Load
<1>10. CASE Stop
  BY <1>10 DEF Stop
<1> QED
  BY <1>1, <1>2, <1>3, <1>4, <1>5, <1>6, <1>7, <1>8, <1>9, <1>10 DEF MainStep

(* Requests and imports keep the invariant of Startup.                      *)
LEMMA AccountsKeep ==
    ASSUME StartupTypeOK, StartupInv, AccountStep PROVE StartupTypeOK' /\ StartupInv'
<1> USE UsersAssumption
    DEF StartupTypeOK, StartupInv, ServesPair, AdminThere, Serving, tables, main
<1>1. ASSUME NEW n \in Names, Register(n) PROVE StartupTypeOK' /\ StartupInv'
  BY <1>1 DEF Register, Roles, Names
<1>2. ASSUME NEW n \in Names, DeleteAccount(n) PROVE StartupTypeOK' /\ StartupInv'
  BY <1>2 DEF DeleteAccount, Roles, Names
<1>3. ASSUME NEW n \in Names, ExportUser(n) PROVE StartupTypeOK' /\ StartupInv'
  BY <1>3, StartsAssumption DEF ExportUser, NoPair, Pairs, Foreign, Roles
<1>4. CASE ExportFull
  BY <1>4 DEF ExportFull
<1>5. CASE Overwrite
  BY <1>5, StartsAssumption DEF Overwrite, Pairs, Foreign
<1>6. CASE Merge
  <2>1. StartupTypeOK'
    BY <1>6, StartsAssumption DEF Merge, Pairs, Foreign, Roles
  <2>2. tls'.cert = tls'.key
    BY <1>6 DEF Merge
  <2>3. role'["admin"] = role["admin"]
    BY <1>6 DEF Merge, Names
  <2> QED BY <1>6, <2>1, <2>2, <2>3 DEF Merge
<1> QED BY <1>1, <1>2, <1>3, <1>4, <1>5, <1>6 DEF AccountStep

-----------------------------------------------------------------------------
(* The login.                                                               *)

(* What record_login_failure makes of an entry.                             *)
LEMMA EntryFacts ==
    ASSUME NEW e \in [count : 0 .. MaxFailures - 1, until : 0 .. MaxTime + LockTime],
           NEW t \in 0 .. MaxTime
    PROVE  LET f == EntryAfter(e, t) IN
           /\ f \in [count : 0 .. MaxFailures - 1, until : 0 .. MaxTime + LockTime]
           /\ f.until # e.until => f.count = 0
           /\ f.count <= e.count + 1
           /\ f.until > e.until => e.count >= MaxFailures - 1 /\ f.until = t + LockTime
BY TimeAssumption DEF EntryAfter, MaxFailures

(* An attempt that is finished leaves its request idle.                     *)
LEMMA FinishTypes ==
    ASSUME TypeOK, NEW r \in Requests, Finish(r)
    PROVE  /\ pc' \in [Requests -> {"idle", "check", "find", "failed", "verified"}]
           /\ key' \in [Requests -> Keys \cup {NoKey}]
           /\ now' \in [Requests -> 0 .. MaxTime]
           /\ \A q \in Requests : pc'[q] # "idle" => pc'[q] = pc[q] /\ key'[q] = key[q]
           /\ \A q \in Requests : now'[q] = 0 \/ now'[q] = now[q]
BY TimeAssumption DEF TypeOK, Finish

(* Logins and lock-outs keep their invariant.                               *)
LEMMA LoginKeeps ==
    ASSUME TypeOK, LoginInv, NEW r \in Requests, LoginStep(r)
    PROVE  TypeOK' /\ LoginInv'
<1> USE TimeAssumption
<1>0. /\ clock \in Nat /\ now \in [Requests -> 0 .. MaxTime]
      /\ UNCHANGED hub => (StartupTypeOK' <=> StartupTypeOK)
  BY DEF TypeOK, hub, main, tables, StartupTypeOK
<1>1. ASSUME NEW k \in Keys, Login(r, k) PROVE TypeOK' /\ LoginInv'
  BY <1>0, <1>1 DEF Login, TypeOK, LoginInv
<1>2. CASE Refuse(r) \/ Abandon(r)
  <2>1. Finish(r) /\ UNCHANGED <<hub, clock, failures, inRow>>
    BY <1>2 DEF Refuse, Abandon
  <2>2. TypeOK'
    BY <1>0, <2>1, FinishTypes DEF TypeOK
  <2>3. LoginInv'
    BY <1>0, <2>1, FinishTypes DEF LoginInv
  <2> QED BY <2>2, <2>3
<1>3. CASE Admit(r)
  BY <1>0, <1>3 DEF Admit, TypeOK, LoginInv
<1>4. CASE FindNot(r)
  BY <1>0, <1>4 DEF FindNot, TypeOK, LoginInv
<1>5. CASE Find(r)
  BY <1>0, <1>5 DEF Find, TypeOK, LoginInv
<1>6. CASE RecordFailure(r)
  <2> DEFINE k == key[r]
             e == EntryAfter(failures[k], now[r])
  <2>1. k \in Keys /\ now[r] \in 0 .. MaxTime
    BY <1>0, <1>6 DEF RecordFailure, LoginInv
  <2>2. failures[k] \in [count : 0 .. MaxFailures - 1, until : 0 .. MaxTime + LockTime]
    BY <2>1 DEF TypeOK
  <2>3. /\ e \in [count : 0 .. MaxFailures - 1, until : 0 .. MaxTime + LockTime]
        /\ e.until # failures[k].until => e.count = 0
        /\ e.count <= failures[k].count + 1
    BY <2>1, <2>2, EntryFacts
  <2>4. /\ failures' = [failures EXCEPT ![k] = e]
        /\ inRow' = [inRow EXCEPT ![k] = IF e.until # failures[k].until THEN 0 ELSE @ + 1]
        /\ Finish(r) /\ UNCHANGED <<hub, clock>>
    BY <1>6 DEF RecordFailure
  <2> HIDE DEF e, k
  <2>5. TypeOK'
    BY <1>0, <2>1, <2>3, <2>4, FinishTypes DEF TypeOK
  <2>6. \A q \in Keys : failures'[q].count <= inRow'[q]
    <3> TAKE q \in Keys
    <3>1. inRow[q] \in Nat /\ failures[q].count <= inRow[q]
      BY DEF TypeOK, LoginInv
    <3>2. CASE q # k
      BY <2>4, <3>1, <3>2 DEF TypeOK
    <3>3. CASE q = k
      <4>1. failures'[k] = e
        BY <2>1, <2>4 DEF TypeOK
      <4>2. inRow'[k] = IF e.until # failures[k].until THEN 0 ELSE inRow[k] + 1
        BY <2>1, <2>4 DEF TypeOK
      <4>3. e.count \in Nat /\ failures[k].count \in Nat
        BY <2>2, <2>3 DEF MaxFailures
      <4> QED BY <2>3, <3>1, <3>3, <4>1, <4>2, <4>3
    <3> QED BY <3>2, <3>3
  <2>7. LoginInv'
    BY <1>0, <2>4, <2>6, FinishTypes DEF LoginInv
  <2> QED BY <2>5, <2>7
<1>7. CASE Succeed(r)
  <2>1. key[r] \in Keys /\ Finish(r) /\ UNCHANGED <<hub, clock>>
    BY <1>7 DEF Succeed, LoginInv
  <2>2. /\ failures' = [failures EXCEPT ![key[r]] = NoEntry]
        /\ inRow' = [inRow EXCEPT ![key[r]] = 0]
    BY <1>7 DEF Succeed
  <2>3. NoEntry \in [count : 0 .. MaxFailures - 1, until : 0 .. MaxTime + LockTime]
        /\ NoEntry.count = 0
    BY DEF NoEntry, MaxFailures
  <2>4. TypeOK'
    BY <1>0, <2>1, <2>2, <2>3, FinishTypes DEF TypeOK
  <2>5. \A q \in Keys : failures'[q].count <= inRow'[q]
    BY <2>1, <2>2, <2>3 DEF TypeOK, LoginInv
  <2>6. LoginInv'
    BY <1>0, <2>1, <2>5, FinishTypes DEF LoginInv
  <2> QED BY <2>4, <2>6
<1> QED BY <1>1, <1>2, <1>3, <1>4, <1>5, <1>6, <1>7 DEF LoginStep

(* A source of which nothing more is recorded, and no login more is late,   *)
(* keeps its bound.                                                         *)
LEMMA LateShrinks ==
    ASSUME TypeOK, LateInv, NEW k \in Keys, Late(k)' \subseteq Late(k),
           failures'[k].count = failures[k].count, inRow'[k] = inRow[k]
    PROVE  inRow'[k] + Cardinality(Late(k)') <=
               failures'[k].count + Cardinality(Requests) - 1
<1>1. Cardinality(Late(k)') \in Nat /\ Cardinality(Late(k)') <= Cardinality(Late(k))
  <2>1. Late(k)' \in SUBSET Late(k)
    OBVIOUS
  <2> QED BY <2>1, LateType, FS_Subset, FS_CardinalityType
<1>2. failures[k].count \in Nat /\ inRow[k] \in Nat
  BY DEF TypeOK, MaxFailures
<1>3. inRow[k] + Cardinality(Late(k)) <= failures[k].count + Cardinality(Requests) - 1
  BY DEF LateInv
<1> QED BY <1>1, <1>2, <1>3, LateType, SomeRequests

(* A source whose row is empty keeps it, when some request is not late.     *)
LEMMA LateRestarts ==
    ASSUME NEW k \in Keys, NEW r \in Requests, r \notin Late(k)',
           failures'[k].count \in Nat, inRow'[k] = 0
    PROVE  inRow'[k] + Cardinality(Late(k)') <=
               failures'[k].count + Cardinality(Requests) - 1
<1>1. Late(k)' \in SUBSET (Requests \ {r})
  BY DEF Late
<1>2. IsFiniteSet(Requests \ {r})
      /\ Cardinality(Requests \ {r}) = Cardinality(Requests) - 1
  BY RequestsAssumption, FS_RemoveElement
<1>3. Cardinality(Late(k)') \in Nat
      /\ Cardinality(Late(k)') <= Cardinality(Requests \ {r})
  BY <1>1, <1>2, FS_Subset, FS_CardinalityType
<1> QED BY <1>2, <1>3, SomeRequests

(* Logins keep the bound: what is recorded late leaves Late, what is        *)
(* recorded in time is counted, or locks the source out.                    *)
LEMMA LateKept ==
    ASSUME TypeOK, LoginInv, LateInv, NEW r \in Requests, LoginStep(r)
    PROVE  LateInv'
<1> SUFFICES ASSUME NEW k \in Keys
             PROVE  inRow'[k] + Cardinality(Late(k)') <=
                        failures'[k].count + Cardinality(Requests) - 1
  BY DEF LateInv
<1> USE TimeAssumption
<1>0. /\ clock \in Nat
      /\ pc \in [Requests -> {"idle", "check", "find", "failed", "verified"}]
      /\ key \in [Requests -> Keys \cup {NoKey}]
      /\ now \in [Requests -> 0 .. MaxTime] /\ now[r] \in Nat /\ now[r] <= clock
      /\ failures \in [Keys -> [count : 0 .. MaxFailures - 1, until : 0 .. MaxTime + LockTime]]
      /\ inRow \in [Keys -> Nat] /\ inRow[k] \in Nat
      /\ failures[k] \in [count : 0 .. MaxFailures - 1, until : 0 .. MaxTime + LockTime]
      /\ failures[k].count \in Nat /\ failures[k].until \in Nat
  BY DEF TypeOK, LoginInv, MaxFailures
<1>1. ASSUME NEW q \in Keys, Login(r, q) PROVE Late(k)' \subseteq Late(k)
  BY <1>0, <1>1 DEF Login, Late
<1>2. CASE Refuse(r) \/ Abandon(r)
  <2>1. Late(k)' \subseteq Late(k)
    BY <1>0, <1>2, FinishTypes DEF Refuse, Abandon, Late, Finish
  <2> QED BY <1>2, <2>1, LateShrinks DEF Refuse, Abandon
<1>3. CASE Admit(r)
  <2>1. key[r] = k => ~ (clock < failures[k].until)
    BY <1>0, <1>3 DEF Admit, Locked
  <2>2. Late(k)' \subseteq Late(k)
    BY <1>0, <1>3, <2>1 DEF Admit, Late
  <2> QED BY <1>3, <2>2, LateShrinks DEF Admit
<1>4. CASE FindNot(r)
  <2>1. Late(k)' \subseteq Late(k)
    BY <1>0, <1>4 DEF FindNot, Late
  <2> QED BY <1>4, <2>1, LateShrinks DEF FindNot
<1>5. CASE Find(r)
  <2>1. Late(k)' \subseteq Late(k)
    BY <1>0, <1>5 DEF Find, Late
  <2> QED BY <1>5, <2>1, LateShrinks DEF Find
<1>6. CASE RecordFailure(r)
  <2> DEFINE e == EntryAfter(failures[key[r]], now[r])
  <2>1. /\ key[r] \in Keys /\ pc[r] = "failed"
        /\ failures' = [failures EXCEPT ![key[r]] = e]
        /\ inRow' = [inRow EXCEPT ![key[r]] =
                         IF e.until # failures[key[r]].until THEN 0 ELSE @ + 1]
        /\ clock' = clock
        /\ pc' = [pc EXCEPT ![r] = "idle"]
        /\ key' = [key EXCEPT ![r] = NoKey]
        /\ now' = [now EXCEPT ![r] = 0]
    BY <1>6 DEF RecordFailure, LoginInv, Finish
  <2>2. r \notin Late(k)'
    BY <1>0, <2>1 DEF Late
  <2>3. CASE key[r] # k
    <3>1. failures'[k] = failures[k] /\ inRow'[k] = inRow[k]
      BY <1>0, <2>1, <2>3
    <3>2. Late(k)' \subseteq Late(k)
      BY <1>0, <2>1, <3>1 DEF Late
    <3> QED BY <3>1, <3>2, LateShrinks
  <2>4. CASE key[r] = k /\ e.until # failures[k].until
    <3>1. failures'[k] = e /\ inRow'[k] = 0
      BY <1>0, <2>1, <2>4
    <3>2. e.count = 0
      BY <1>0, <2>4, EntryFacts
    <3> QED BY <2>2, <3>1, <3>2, LateRestarts
  <2>5. CASE key[r] = k /\ e.until = failures[k].until
    <3>1. failures'[k] = e /\ inRow'[k] = inRow[k] + 1
      BY <1>0, <2>1, <2>5
    <3>2. Late(k)' \subseteq Late(k) \ {r}
      BY <1>0, <2>1, <2>2, <2>5, <3>1 DEF Late
    <3>3. IsFiniteSet(Late(k) \ {r})
          /\ Cardinality(Late(k) \ {r}) = IF r \in Late(k) THEN Cardinality(Late(k)) - 1
                                                           ELSE Cardinality(Late(k))
      BY LateType, FS_RemoveElement
    <3>4. Cardinality(Late(k)') \in Nat
          /\ Cardinality(Late(k)') <= Cardinality(Late(k) \ {r})
      <4>1. Late(k)' \in SUBSET (Late(k) \ {r})
        BY <3>2
      <4> QED BY <3>3, <4>1, FS_Subset, FS_CardinalityType
    <3>5. IF r \in Late(k) THEN e.count = failures[k].count
                           ELSE e.count = failures[k].count + 1
      <4>1. r \in Late(k) <=> now[r] < failures[k].until
        BY <2>1, <2>5 DEF Late
      <4>2. e = EntryAfter(failures[k], now[r])
        BY <2>5
      <4> QED BY <1>0, <2>5, <4>1, <4>2 DEF EntryAfter, MaxFailures
    <3>6. inRow[k] + Cardinality(Late(k)) <= failures[k].count + Cardinality(Requests) - 1
      BY DEF LateInv
    <3> HIDE DEF e
    <3> QED BY <1>0, <3>1, <3>3, <3>4, <3>5, <3>6, LateType, SomeRequests
  <2> QED BY <2>3, <2>4, <2>5
<1>7. CASE Succeed(r)
  <2>1. /\ key[r] \in Keys
        /\ failures' = [failures EXCEPT ![key[r]] = NoEntry]
        /\ inRow' = [inRow EXCEPT ![key[r]] = 0]
        /\ clock' = clock
        /\ pc' = [pc EXCEPT ![r] = "idle"]
        /\ key' = [key EXCEPT ![r] = NoKey]
        /\ now' = [now EXCEPT ![r] = 0]
    BY <1>7 DEF Succeed, LoginInv, Finish
  <2>2. CASE key[r] # k
    <3>1. failures'[k] = failures[k] /\ inRow'[k] = inRow[k]
      BY <1>0, <2>1, <2>2
    <3>2. Late(k)' \subseteq Late(k)
      BY <1>0, <2>1, <3>1 DEF Late
    <3> QED BY <3>1, <3>2, LateShrinks
  <2>3. CASE key[r] = k
    <3>1. r \notin Late(k)' /\ failures'[k].count = 0 /\ inRow'[k] = 0
      BY <1>0, <2>1, <2>3 DEF Late, NoEntry
    <3> QED BY <3>1, LateRestarts
  <2> QED BY <2>2, <2>3
<1>8. ASSUME NEW q \in Keys, Login(r, q)
      PROVE  inRow'[k] + Cardinality(Late(k)') <=
                 failures'[k].count + Cardinality(Requests) - 1
  BY <1>1, <1>8, LateShrinks DEF Login
<1> QED BY <1>2, <1>3, <1>4, <1>5, <1>6, <1>7, <1>8 DEF LoginStep

-----------------------------------------------------------------------------
(* Every step keeps the inductive invariant.                                *)
LEMMA InvStep == AccountsInv /\ [Next]_vars => AccountsInv'
<1> SUFFICES ASSUME AccountsInv, [Next]_vars PROVE AccountsInv'
  OBVIOUS
<1>0. TypeOK /\ StartupTypeOK /\ StartupInv /\ LoginInv /\ LateInv
  BY DEF AccountsInv, TypeOK
<1>1. CASE (MainStep \/ AccountStep) /\ UNCHANGED memory
  <2>1. StartupTypeOK' /\ StartupInv'
    BY <1>0, <1>1, MainTypes, MainKeeps, AccountsKeep
  <2>2. TypeOK' /\ LoginInv'
    BY <1>0, <1>1, <2>1 DEF TypeOK, LoginInv, memory, request
  <2>3. LateInv'
    BY <1>0, <1>1 DEF LateInv, Late, memory, request
  <2> QED BY <2>1, <2>2, <2>3 DEF AccountsInv
<1>2. CASE StopHub
  <2>1. Stop
    BY <1>2 DEF StopHub
  <2>2. StartupTypeOK' /\ StartupInv'
    BY <1>0, <2>1, MainTypes, MainKeeps
  <2>3. TypeOK'
    BY <1>0, <1>2, <2>2, TimeAssumption
    DEF StopHub, TypeOK, NoFailures, NoneInRow, AllIdle, NoKeys, NoTimes, NoEntry,
        MaxFailures
  <2>4. LoginInv'
    BY <1>0, <1>2
    DEF StopHub, TypeOK, LoginInv, NoFailures, NoneInRow, AllIdle, NoTimes, NoEntry
  <2>5. LateInv'
    <3> SUFFICES ASSUME NEW k \in Keys
                 PROVE  inRow'[k] + Cardinality(Late(k)') <=
                            failures'[k].count + Cardinality(Requests) - 1
      BY DEF LateInv
    <3>1. Late(k)' = {} /\ failures'[k].count = 0 /\ inRow'[k] = 0
      BY <1>2 DEF StopHub, Late, NoFailures, NoneInRow, AllIdle, NoEntry
    <3>2. PICK r \in Requests : TRUE
      BY RequestsAssumption
    <3> QED BY <3>1, <3>2, LateRestarts
  <2> QED BY <2>2, <2>3, <2>4, <2>5 DEF AccountsInv
<1>3. CASE Tick
  <2>1. StartupTypeOK' /\ StartupInv'
    BY <1>0, <1>3 DEF Tick, hub, main, tables, StartupTypeOK, StartupInv, ServesPair,
                     AdminThere, Serving
  <2>2. TypeOK' /\ LoginInv'
    BY <1>0, <1>3, <2>1, TimeAssumption DEF Tick, TypeOK, LoginInv, request
  <2>3. LateInv'
    <3> SUFFICES ASSUME NEW k \in Keys
                 PROVE  inRow'[k] + Cardinality(Late(k)') <=
                            failures'[k].count + Cardinality(Requests) - 1
      BY DEF LateInv
    <3>1. clock \in Nat /\ failures[k].until \in Nat
      BY <1>0, TimeAssumption DEF TypeOK
    <3>2. Late(k)' \subseteq Late(k)
      BY <1>3, <3>1 DEF Tick, Late, request
    <3> QED BY <1>0, <1>3, <3>2, LateShrinks DEF Tick
  <2> QED BY <2>1, <2>2, <2>3 DEF AccountsInv
<1>4. ASSUME NEW r \in Requests, LoginStep(r) PROVE AccountsInv'
  <2>1. UNCHANGED hub
    BY <1>4 DEF LoginStep, Login, Refuse, Admit, FindNot, Find, Abandon, RecordFailure,
                Succeed
  <2>2. StartupInv'
    BY <1>0, <2>1 DEF hub, main, tables, StartupInv, ServesPair, AdminThere, Serving
  <2> QED BY <1>0, <1>4, <2>2, LoginKeeps, LateKept DEF AccountsInv
<1>5. CASE UNCHANGED vars
  <2>1. StartupTypeOK' /\ StartupInv'
    BY <1>0, <1>5 DEF vars, hub, main, tables, StartupTypeOK, StartupInv, ServesPair,
                     AdminThere, Serving
  <2>2. TypeOK' /\ LoginInv'
    BY <1>0, <1>5, <2>1 DEF vars, memory, request, TypeOK, LoginInv
  <2>3. LateInv'
    BY <1>0, <1>5 DEF vars, memory, request, LateInv, Late
  <2> QED BY <2>1, <2>2, <2>3 DEF AccountsInv
<1> QED BY <1>1, <1>2, <1>3, <1>4, <1>5 DEF Next

(* The invariant, and with it every variable's type.                        *)
THEOREM AccountsInvariance == Spec => []AccountsInv
BY InitInv, InvStep, PTL DEF Spec

(* Every variable of Startup and Accounts keeps its type.                   *)
THEOREM AccountsTypes == Spec => []TypeOK
<1>1. AccountsInv => TypeOK
  BY DEF AccountsInv
<1> QED BY <1>1, AccountsInvariance, PTL

(* Whoever is connected gets a certificate together with its own key, and   *)
(* every statement finds its columns, however often earlier starts were     *)
(* interrupted and whatever was imported.                                   *)
THEOREM PairIsServed == Spec => []ServesPair
<1>1. AccountsInv => ServesPair
  BY DEF AccountsInv, StartupInv
<1> QED BY <1>1, AccountsInvariance, PTL

(* A served hub has an account "admin", until an overwrite removes it.      *)
THEOREM AdminIsThere == Spec => []AdminThere
<1>1. AccountsInv => AdminThere
  BY DEF AccountsInv, StartupInv
<1> QED BY <1>1, AccountsInvariance, PTL

(* However many logins of a source are served at once, it is told "wrong"   *)
(* in a row (since a success, a lock-out or a start) twice at most, and     *)
(* once more for each of the other logins that were past the check when it  *)
(* was locked out.                                                          *)
THEOREM GuessesAreBounded == Spec => []GuessesBounded
<1>1. AccountsInv => GuessesBounded
  <2> SUFFICES ASSUME AccountsInv, NEW k \in Keys
               PROVE  inRow[k] <= (MaxFailures - 1) + (Cardinality(Requests) - 1)
    BY DEF GuessesBounded
  <2>1. failures[k].count \in 0 .. MaxFailures - 1 /\ inRow[k] \in Nat
    BY DEF AccountsInv, TypeOK
  <2>2. inRow[k] + Cardinality(Late(k)) <= failures[k].count + Cardinality(Requests) - 1
    BY DEF AccountsInv, LateInv
  <2> QED BY <2>1, <2>2, LateType, SomeRequests DEF MaxFailures
<1> QED BY <1>1, AccountsInvariance, PTL

-----------------------------------------------------------------------------
(* The step behind LockEarned.                                              *)
Earned ==
    \A k \in Keys :
        failures'[k].until > failures[k].until =>
            inRow[k] >= MaxFailures - 1 /\ failures'[k].until <= clock + LockTime

(* A step that locks a source out follows two failures in a row.            *)
LEMMA EarnedStep == AccountsInv /\ [Next]_vars => [Earned]_vars
<1> SUFFICES ASSUME AccountsInv, [Next]_vars PROVE Earned
  OBVIOUS
<1> SUFFICES ASSUME NEW k \in Keys, failures'[k].until > failures[k].until
             PROVE  inRow[k] >= MaxFailures - 1 /\ failures'[k].until <= clock + LockTime
  BY DEF Earned
<1>0. /\ failures \in [Keys -> [count : 0 .. MaxFailures - 1, until : 0 .. MaxTime + LockTime]]
      /\ failures[k].until \in Nat /\ failures[k].count \in Nat
      /\ failures[k] \in [count : 0 .. MaxFailures - 1, until : 0 .. MaxTime + LockTime]
      /\ inRow[k] \in Nat /\ failures[k].count <= inRow[k] /\ clock \in Nat
  BY TimeAssumption DEF AccountsInv, TypeOK, LoginInv, MaxFailures
<1>1. failures' # failures
  BY <1>0
<1>2. ASSUME NEW r \in Requests, RecordFailure(r)
      PROVE  inRow[k] >= MaxFailures - 1 /\ failures'[k].until <= clock + LockTime
  <2>1. key[r] \in Keys /\ now[r] \in 0 .. MaxTime /\ now[r] <= clock
    BY <1>2 DEF AccountsInv, TypeOK, LoginInv, RecordFailure
  <2>2. failures' = [failures EXCEPT ![key[r]] = EntryAfter(failures[key[r]], now[r])]
    BY <1>2 DEF RecordFailure
  <2>3. key[r] = k
    BY <1>0, <2>2
  <2>4. failures'[k] = EntryAfter(failures[k], now[r])
    BY <1>0, <2>2, <2>3
  <2>5. failures[k].count >= MaxFailures - 1 /\ failures'[k].until = now[r] + LockTime
    BY <1>0, <2>1, <2>4, EntryFacts
  <2> QED BY <1>0, <2>1, <2>5, TimeAssumption DEF MaxFailures
<1>3. ASSUME NEW r \in Requests, Succeed(r) PROVE FALSE
  BY <1>0, <1>3 DEF Succeed, NoEntry
<1>4. CASE StopHub
  BY <1>0, <1>4 DEF StopHub, NoFailures, NoEntry
<1>5. CASE (MainStep \/ AccountStep) /\ UNCHANGED memory
  BY <1>1, <1>5 DEF memory
<1>6. CASE Tick
  BY <1>1, <1>6 DEF Tick
<1>7. ASSUME NEW r \in Requests, LoginStep(r), ~RecordFailure(r), ~Succeed(r) PROVE FALSE
  BY <1>1, <1>7 DEF LoginStep, Login, Refuse, Admit, FindNot, Find, Abandon
<1>8. CASE UNCHANGED vars
  BY <1>1, <1>8 DEF vars, memory
<1> QED BY <1>2, <1>3, <1>4, <1>5, <1>6, <1>7, <1>8 DEF Next

(* Nobody is locked out for less than three failures that no success and no *)
(* earlier lock-out came between, and then for LockTime at most.            *)
THEOREM LockIsEarned == Spec => LockEarned
<1>1. AccountsInv /\ [Next]_vars => [Earned]_vars
  BY EarnedStep
<1> QED BY <1>1, AccountsInvariance, PTL DEF Spec, LockEarned, Earned
=============================================================================
