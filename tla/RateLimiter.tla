---------------------------- MODULE RateLimiter ----------------------------
(***************************************************************************)
(* The budget of one Earth adapter: a counter per window in Redis, which a *)
(* caller reads, increments and gives an expiry in three separate calls.   *)
(* Any of them may fail, and the limiter then lets the caller through.     *)
(* Without Redis a bucket in the process is charged in one step.           *)
(*                                                                         *)
(* Windows are numbered in the order of their checks: per second, then per *)
(* minute. How long a window lasts is left out: a key that has an expiry   *)
(* may expire at any time. A caller is one resolution in flight.           *)
(***************************************************************************)
EXTENDS Integers, Sequences, FiniteSets

CONSTANTS
  Callers,    \* resolutions that may ask the adapter at the same time
  Caps        \* Caps[i]: requests allowed in window i

ASSUME LimiterAssumption ==
  /\ IsFiniteSet(Callers)
  /\ Caps \in Seq(Nat \ {0})

VARIABLES
  redis,      \* whether the process has a Redis client
  bucket,     \* bucket[i]: requests counted in window i, and whether it expires
  chk         \* chk[c]: the call caller c has in flight, and its window

limiterVars == <<redis, bucket, chk>>

Windows == 1..Len(Caps)
Empty   == [count |-> 0, expires |-> FALSE]
Unasked == [at |-> "off", i |-> 0]
Asking  == [at |-> IF Len(Caps) = 0 THEN "ok" ELSE "get", i |-> 1]

\* Window i has let the caller through: the next one is asked.
Passed(i) == IF i = Len(Caps) THEN [at |-> "ok", i |-> i] ELSE [at |-> "get", i |-> i + 1]

LimiterInit ==
  /\ redis \in BOOLEAN
  /\ bucket = [i \in Windows |-> Empty]
  /\ chk = [c \in Callers |-> Unasked]

\* check_rate_limit is called.
Ask(c) ==
  /\ chk[c].at = "off"
  /\ chk' = [chk EXCEPT ![c] = Asking]
  /\ UNCHANGED <<redis, bucket>>

\* Variant: one request too many is allowed.
GetLax(c) ==
  /\ redis /\ chk[c].at = "get"
  /\ chk' = [chk EXCEPT ![c].at =
       IF bucket[chk[c].i].count > Caps[chk[c].i] THEN "full" ELSE "incr"]
  /\ UNCHANGED <<redis, bucket>>

\* GET: the count is compared with the capacity.
Get(c) ==
  /\ redis /\ chk[c].at = "get"
  /\ chk' = [chk EXCEPT ![c].at =
       IF bucket[chk[c].i].count >= Caps[chk[c].i] THEN "full" ELSE "incr"]
  /\ UNCHANGED <<redis, bucket>>

\* TTL of a bucket that is full: the request is denied.
Deny(c) ==
  /\ chk[c].at = "full"
  /\ chk' = [chk EXCEPT ![c].at = "denied"]
  /\ UNCHANGED <<redis, bucket>>

\* INCR creates a key that was absent, without an expiry.
Incr(c) ==
  /\ chk[c].at = "incr"
  /\ bucket' = [bucket EXCEPT ![chk[c].i].count = @ + 1]
  /\ chk' = [chk EXCEPT ![c].at = "expire"]
  /\ UNCHANGED redis

\* Variant: the key gets no expiry.
NoExpire(c) ==
  /\ chk[c].at = "expire"
  /\ chk' = [chk EXCEPT ![c] = Passed(chk[c].i)]
  /\ UNCHANGED <<redis, bucket>>

\* EXPIRE: a key that has expired meanwhile stays absent.
Expire(c) ==
  /\ chk[c].at = "expire"
  /\ bucket' = [bucket EXCEPT ![chk[c].i].expires = @ \/ bucket[chk[c].i].count > 0]
  /\ chk' = [chk EXCEPT ![c] = Passed(chk[c].i)]
  /\ UNCHANGED redis

\* Callers about to increment the counter of window i, or to give it an expiry.
Incrementing(i) == {c \in Callers : chk[c].at = "incr" /\ chk[c].i = i}
Expiring(i)     == {c \in Callers : chk[c].at = "expire" /\ chk[c].i = i}

\* The counters when of the commands in flight those of the callers in S are
\* applied, and all are left without an answer.
AppliedFor(S) ==
  [i \in Windows |->
    LET n == bucket[i].count + Cardinality(S \cap Incrementing(i))
    IN [count |-> n, expires |-> bucket[i].expires \/ (S \cap Expiring(i) # {} /\ n > 0)]]

\* A command raises: the window lets the caller through.
FailOpen(c) ==
  /\ redis /\ chk[c].at \in {"get", "full", "incr", "expire"}
  /\ \E S \in SUBSET {c} : bucket' = AppliedFor(S)
  /\ chk' = [chk EXCEPT ![c] = Passed(chk[c].i)]
  /\ UNCHANGED redis

\* Without Redis: the windows are charged one after the other up to the first
\* that is full, in one step.
CheckFallback(c) ==
  LET full  == {i \in Windows : bucket[i].count >= Caps[i]}
      Spent(i) == \A j \in full : i < j
  IN /\ ~redis /\ chk[c].at = "get"
     /\ bucket' = [i \in Windows |-> IF Spent(i)
          THEN [count |-> bucket[i].count + 1, expires |-> TRUE] ELSE bucket[i]]
     /\ chk' = [chk EXCEPT ![c].at = IF full = {} THEN "ok" ELSE "denied"]
     /\ UNCHANGED redis

\* A window elapses: its key is gone, or its bucket is full of tokens again.
WindowOver(i) ==
  /\ bucket[i].expires
  /\ bucket' = [bucket EXCEPT ![i] = Empty]
  /\ UNCHANGED <<redis, chk>>

\* Callers take their answers, or are cancelled at whatever they await.
Leave(L) ==
  /\ \E S \in SUBSET L : bucket' = AppliedFor(S)
  /\ chk' = [c \in Callers |-> IF c \in L THEN Unasked ELSE chk[c]]
  /\ UNCHANGED redis

CheckStep(c) == Get(c) \/ Deny(c) \/ Incr(c) \/ Expire(c) \/ CheckFallback(c)

LimiterNext ==
  \/ \E c \in Callers : Ask(c) \/ CheckStep(c) \/ FailOpen(c)
  \/ \E L \in SUBSET Callers : Leave(L)
  \/ \E i \in Windows : WindowOver(i)

LimiterSpec == LimiterInit /\ [][LimiterNext]_limiterVars
-----------------------------------------------------------------------------
\* Shape of the limiter's state.
LimiterTypeOK ==
  /\ redis \in BOOLEAN
  /\ bucket \in [Windows -> [count : Nat, expires : BOOLEAN]]
  /\ chk \in [Callers -> [at : {"off", "get", "full", "incr", "expire", "ok", "denied"},
                          i : 0..(Len(Caps) + 1)]]
  /\ \A c \in Callers : chk[c].at \in {"get", "full", "incr", "expire"} => chk[c].i \in Windows

\* Reading and incrementing apart lets concurrent callers exceed the capacity
\* of a window, but by one less than there are callers at most, whatever fails
\* or is cancelled between the two.
OvershootBounded ==
  \A i \in Windows : bucket[i].count <= Caps[i] + Cardinality(Callers) - 1

\* Its inductive form counts the increments in flight.
BudgetInv ==
  \A i \in Windows :
    bucket[i].count + Cardinality(Incrementing(i)) <= Caps[i] + Cardinality(Callers) - 1
=============================================================================
