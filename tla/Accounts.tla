------------------------------- MODULE Accounts -------------------------------
(***************************************************************************)
(* The hub's process as its users meet it: module Startup, and the login   *)
(* with its lock-out, whose state is in memory and gone with the process.  *)
(*                                                                         *)
(* A handler is split where it waits: for the lock of login_failures and   *)
(* for the database.  What it has read before it keeps: the time.          *)
(* Passwords are right or wrong; hashing and signing are library code.     *)
(***************************************************************************)
EXTENDS Startup, FiniteSets

CONSTANTS
    Keys,           \* values of login_failure_key: a forwarded address, "local"
    Requests,       \* logins that may be served at a time
    LockTime,       \* seconds a source is locked out: 600 in the code
    MaxTime         \* bound: seconds that pass

ASSUME TimeAssumption == LockTime \in Nat \ {0} /\ MaxTime \in Nat
ASSUME RequestsAssumption == IsFiniteSet(Requests) /\ Requests # {}

VARIABLES
    clock,          \* db::now()
    failures,       \* login_failures: [count, until] per source
    pc, key, now,   \* per request: its point in login, its source, a time read
    inRow           \* history: failures told since the last success or
                    \* lock-out of the source, or the start of the process

request == <<pc, key, now>>
memory  == <<clock, failures, request, inRow>>
vars    == <<hub, memory>>

-----------------------------------------------------------------------------
MaxFailures == 3
NoEntry     == [count |-> 0, until |-> 0]     \* or_insert's; also: no entry
NoKey       == "no key"

TypeOK ==
    /\ StartupTypeOK
    /\ clock \in 0 .. MaxTime
    /\ failures \in [Keys -> [count : 0 .. MaxFailures - 1,
                              until : 0 .. MaxTime + LockTime]]
    /\ pc \in [Requests -> {"idle", "check", "find", "failed", "verified"}]
    /\ key \in [Requests -> Keys \cup {NoKey}]
    /\ now \in [Requests -> 0 .. MaxTime]
    /\ inRow \in [Keys -> Nat]

NoFailures  == [k \in Keys |-> NoEntry]
NoneInRow   == [k \in Keys |-> 0]
AllIdle     == [r \in Requests |-> "idle"]
NoKeys      == [r \in Requests |-> NoKey]
NoTimes     == [r \in Requests |-> 0]

Init ==
    /\ StartupInit
    /\ clock = 0 /\ failures = NoFailures /\ inRow = NoneInRow
    /\ pc = AllIdle /\ key = NoKeys /\ now = NoTimes

-----------------------------------------------------------------------------
Tick ==
    /\ Serving
    /\ clock < MaxTime
    /\ clock' = clock + 1
    /\ UNCHANGED <<hub, failures, request, inRow>>

(* login: now() is read, then the lock is waited for.                       *)
Login(r, k) ==
    /\ Serving
    /\ pc[r] = "idle"
    /\ pc' = [pc EXCEPT ![r] = "check"]
    /\ key' = [key EXCEPT ![r] = k]
    /\ now' = [now EXCEPT ![r] = clock]
    /\ UNCHANGED <<hub, clock, failures, inRow>>

Finish(r) ==
    /\ pc' = [pc EXCEPT ![r] = "idle"]
    /\ key' = [key EXCEPT ![r] = NoKey]
    /\ now' = [now EXCEPT ![r] = 0]

Locked(k, t) == failures[k].until > t

Refuse(r) ==
    /\ pc[r] = "check" /\ Locked(key[r], now[r])
    /\ Finish(r)
    /\ UNCHANGED <<hub, clock, failures, inRow>>

(* Mutant of Admit: the lock is not looked at.                              *)
AdmitLocked(r) ==
    /\ pc[r] = "check"
    /\ pc' = [pc EXCEPT ![r] = "find"]
    /\ now' = [now EXCEPT ![r] = 0]
    /\ UNCHANGED <<hub, clock, failures, key, inRow>>

Admit(r) ==
    /\ pc[r] = "check" /\ ~Locked(key[r], now[r])
    /\ pc' = [pc EXCEPT ![r] = "find"]
    /\ now' = [now EXCEPT ![r] = 0]
    /\ UNCHANGED <<hub, clock, failures, key, inRow>>

(* find_user and verify_password: no such user, or a wrong password, and    *)
(* record_login_failure reads the time.                                     *)
FindNot(r) ==
    /\ pc[r] = "find"
    /\ pc' = [pc EXCEPT ![r] = "failed"]
    /\ now' = [now EXCEPT ![r] = clock]
    /\ UNCHANGED <<hub, clock, failures, key, inRow>>

Find(r) ==
    /\ pc[r] = "find"
    /\ \E n \in Names : role[n] # "none"
    /\ pc' = [pc EXCEPT ![r] = "verified"]
    /\ UNCHANGED <<hub, clock, failures, key, now, inRow>>

(* The query fails, or the browser goes away while something is awaited.    *)
Abandon(r) ==
    /\ pc[r] # "idle"
    /\ Finish(r)
    /\ UNCHANGED <<hub, clock, failures, inRow>>

(* Mutants of EntryAfter: after a lock-out the count goes on; the lock-out  *)
(* comes one failure late.                                                  *)
EntryAfterKeepsCount(e, t) ==
    LET c == IF e.until <= t THEN e.count + 1 ELSE e.count IN
    IF c >= MaxFailures THEN [count |-> MaxFailures - 1, until |-> t + LockTime]
                        ELSE [count |-> c, until |-> e.until]

EntryAfterCountsToThree(e, t) ==
    LET c == IF e.until <= t THEN e.count + 1 ELSE e.count IN
    IF c > MaxFailures THEN [count |-> 0, until |-> t + LockTime]
                       ELSE [count |-> c, until |-> e.until]

(* record_login_failure.                                                    *)
EntryAfter(e, t) ==
    LET c == IF e.until <= t THEN e.count + 1 ELSE e.count IN
    IF c >= MaxFailures THEN [count |-> 0, until |-> t + LockTime]
                        ELSE [count |-> c, until |-> e.until]

RecordFailure(r) ==
    LET k == key[r]
        e == EntryAfter(failures[k], now[r]) IN
    /\ pc[r] = "failed"
    /\ failures' = [failures EXCEPT ![k] = e]
    /\ inRow' = [inRow EXCEPT ![k] = IF e.until # failures[k].until THEN 0 ELSE @ + 1]
    /\ Finish(r)
    /\ UNCHANGED <<hub, clock>>

(* The entry goes, whatever was recorded meanwhile; a token is signed.      *)
Succeed(r) ==
    /\ pc[r] = "verified"
    /\ failures' = [failures EXCEPT ![key[r]] = NoEntry]
    /\ inRow' = [inRow EXCEPT ![key[r]] = 0]
    /\ Finish(r)
    /\ UNCHANGED <<hub, clock>>

LoginStep(r) ==
    \/ \E k \in Keys : Login(r, k)
    \/ Refuse(r) \/ Admit(r) \/ FindNot(r) \/ Find(r) \/ Abandon(r)
    \/ RecordFailure(r) \/ Succeed(r)

(* With the process goes what AppState holds.                               *)
StopHub ==
    /\ Stop
    /\ failures' = NoFailures /\ inRow' = NoneInRow
    /\ pc' = AllIdle /\ key' = NoKeys /\ now' = NoTimes
    /\ UNCHANGED clock

Next ==
    \/ (MainStep \/ AccountStep) /\ UNCHANGED memory
    \/ StopHub
    \/ Tick
    \/ \E r \in Requests : LoginStep(r)

Spec == Init /\ [][Next]_vars

(* Whoever runs the hub starts it again, and its statements complete.       *)
FairSpec == Spec /\ WF_vars(MainStep /\ UNCHANGED memory)

-----------------------------------------------------------------------------
(* Properties.                                                              *)

(* A request names its source, and no time it has read is ahead of the      *)
(* clock; no failure is counted that was not one in the row.  Part of the   *)
(* inductive invariant.                                                     *)
LoginInv ==
    /\ \A r \in Requests : pc[r] # "idle" => key[r] \in Keys
    /\ \A r \in Requests : now[r] <= clock
    /\ \A k \in Keys : failures[k].count <= inRow[k]

(* Logins that were past the check when their source was locked out: should *)
(* they fail, record_login_failure will find the lock-out and not count.    *)
Late(k) ==
    {r \in Requests :
        /\ key[r] = k
        /\ \/ pc[r] = "find" /\ clock < failures[k].until
           \/ pc[r] = "failed" /\ now[r] < failures[k].until}

(* What is in the row and was not counted came from logins that are no      *)
(* longer late; the one that locked the source out was none of them.        *)
LateInv ==
    \A k \in Keys :
        inRow[k] + Cardinality(Late(k)) <= failures[k].count + Cardinality(Requests) - 1

AccountsInv == TypeOK /\ StartupInv /\ LoginInv /\ LateInv

(* However many logins of a source are under way at once: in a row, that is *)
(* since its last success or lock-out or the start of the hub, it is told   *)
(* "wrong" no more often than the two times that have no consequence, and   *)
(* once for each login that was past the check when it was locked out.  (A  *)
(* success starts anew: between two lock-outs, wrong answers have no bound.) *)
GuessesBounded ==
    \A k \in Keys : inRow[k] <= (MaxFailures - 1) + (Cardinality(Requests) - 1)

(* Nobody is locked out for less than three failures that no success and no *)
(* earlier lock-out came between, and then for LockTime at most.            *)
LockEarned ==
    [][\A k \in Keys :
          failures'[k].until > failures[k].until =>
              inRow[k] >= MaxFailures - 1 /\ failures'[k].until <= clock + LockTime]_vars
=============================================================================
