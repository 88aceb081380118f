------------------------------ MODULE UserLimits ------------------------------
(* The two per-user limits of llm/usage.py, as pure operators on one user's   *)
(* budget: the calls charged on the current UTC day, and the ages of the      *)
(* calls inside the rolling window, oldest first.  The window is popped from  *)
(* the front before every look (usage.py:309-318), so a call that has reached *)
(* the window's length is as good as gone: Aged drops it at once.             *)
EXTENDS Naturals, Sequences

CONSTANTS DailyLimit,  \* LLM_DAILY_CALL_LIMIT_PER_USER; 0 disables the cap
          RateLimit,   \* LLM_USER_RATE_PER_MINUTE; 0 disables the limiter
          Window       \* the limiter's window_s, in ticks

ASSUME LimitsAssumption ==
    DailyLimit \in Nat /\ RateLimit \in Nat /\ Window \in Nat \ {0}

Unspent == [today |-> 0, recent |-> <<>>]

Budgets == [today : Nat, recent : Seq(Nat)]

\* DailyCallCap.check()
UnderDailyCap(b) == DailyLimit = 0 \/ b.today < DailyLimit

UnderRateOffByOne(b) == RateLimit = 0 \/ Len(b.recent) <= RateLimit

\* UserRateLimiter.check()
UnderRate(b) == RateLimit = 0 \/ Len(b.recent) < RateLimit

\* consume() of both: a disabled limit records nothing.
Charged(b) ==
    [today  |-> IF DailyLimit = 0 THEN b.today ELSE b.today + 1,
     recent |-> IF RateLimit = 0 THEN b.recent ELSE Append(b.recent, 0)]

\* The first of the ages that is inside the window a tick later; one past the
\* last if none is.
FirstKept(ages) ==
    CHOOSE i \in 1..Len(ages) + 1 :
        /\ \A j \in 1..i - 1 : ages[j] + 1 >= Window
        /\ i \in DOMAIN ages => ages[i] + 1 < Window

\* One tick of the limiter's clock, and the calls popped from the front.
Aged(b) ==
    LET kept == SubSeq(b.recent, FirstKept(b.recent), Len(b.recent))
    IN [b EXCEPT !.recent = [i \in DOMAIN kept |-> kept[i] + 1]]

\* Midnight UTC: the entry's day no longer matches, so it counts as unused.
Renewed(b) == [b EXCEPT !.today = 0]
=============================================================================
