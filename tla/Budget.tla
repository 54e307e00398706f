------------------------------- MODULE Budget -------------------------------
(***************************************************************************)
(* The RequestBudget of budget.py: one deque of reservations per tenant,   *)
(* pruned only when that tenant reserves again.                            *)
(*                                                                         *)
(* reserve holds its lock and never suspends inside it, so a call is one   *)
(* action.  A reservation is kept with its age in ticks instead of its     *)
(* time of day: events[0][0] <= now - 60 is age >= Window.  Ages stop at   *)
(* Window, after which they only say "expired"; so no clock grows.         *)
(*                                                                         *)
(* `granted` is no variable of the code: it is the truth the deque is      *)
(* meant to hold, the reservations of the last Window ticks, forgotten by  *)
(* time itself and not by the next call.                                   *)
(***************************************************************************)
EXTENDS FiniteSetsExt, Filters

CONSTANTS
    Tenants,       \* tenant identifiers
    MaxRequests,   \* requests_per_minute
    OutputTokens,  \* output_tokens_per_minute
    Window,        \* the 60 seconds, in ticks
    Amounts        \* what one call may reserve: max_tokens, or 0 for embeddings

\* Settings and the request models (config.py, domain.py); an amount above
\* OutputTokens is possible, nothing compares the two settings.
ASSUME BudgetAssumption ==
    /\ MaxRequests \in Nat \ {0} /\ OutputTokens \in Nat \ {0}
    /\ Window \in Nat \ {0} /\ Amounts \subseteq Nat

VARIABLES
    events,   \* _events: [age, tokens], oldest first
    granted   \* the reservations granted within the last Window ticks

vars == <<events, granted>>

Reservation == [age : 0..Window, tokens : {n \in Amounts : n <= OutputTokens}]

\* sum(tokens for _, tokens in log)
TokensOf(log) ==
    LET total[i \in 0..Len(log)] == IF i = 0 THEN 0 ELSE total[i - 1] + log[i].tokens
    IN  total[Len(log)]

\* What the loop of popleft leaves: it stops at the first event of the last
\* `limit` ticks, and does not look behind it.
Since(log, limit) ==
    SubSeq(log, Min({i \in 1..(Len(log) + 1) : i > Len(log) \/ log[i].age < limit}), Len(log))

\* Faults of Recent: a reservation leaves one tick early, or never.
RecentTooShort(log) == Since(log, Window - 1)

RecentForEver(log) == log

Recent(log) == Since(log, Window)

\* The reservation of n tokens is within both budgets, log being in force.
Fits(log, n) == Len(log) < MaxRequests /\ TokensOf(log) + n <= OutputTokens

----------------------------------------------------------------------------
Init ==
    /\ events = [t \in Tenants |-> <<>>]
    /\ granted = [t \in Tenants |-> <<>>]

\* reserve succeeds.
Reserve(t, n) ==
    /\ Fits(Recent(events[t]), n)
    /\ events' = [events EXCEPT ![t] = Append(Recent(@), [age |-> 0, tokens |-> n])]
    /\ granted' = [granted EXCEPT ![t] = Append(@, [age |-> 0, tokens |-> n])]

\* A fault of Refuse: a refused call counts against the budget too.
RefuseAndCharge(t, n) ==
    /\ ~Fits(Recent(events[t]), n)
    /\ events' = [events EXCEPT ![t] = Append(Recent(@), [age |-> 0, tokens |-> 0])]
    /\ UNCHANGED granted

\* reserve raises the 429; the expired events are gone all the same.
Refuse(t, n) ==
    /\ ~Fits(Recent(events[t]), n)
    /\ events' = [events EXCEPT ![t] = Recent(@)]
    /\ UNCHANGED granted

Aged(e) ==
    [age |-> IF e.age < Window THEN e.age + 1 ELSE e.age, tokens |-> e.tokens]

Older(log) == [i \in 1..Len(log) |-> Aged(log[i])]

InForce == [age : 0..(Window - 1), tokens : Nat]

\* Time passes for all tenants.
Tick ==
    /\ events' = [t \in Tenants |-> Older(events[t])]
    /\ granted' = [t \in Tenants |-> Kept(Older(granted[t]), InForce)]

Next ==
    \/ \E t \in Tenants, n \in Amounts : Reserve(t, n) \/ Refuse(t, n)
    \/ Tick

Spec == Init /\ [][Next]_vars

\* time.monotonic() goes on.
FairSpec == Spec /\ WF_vars(Tick)

----------------------------------------------------------------------------
TypeOK ==
    /\ events \in [Tenants -> Seq(Reservation)]
    /\ granted \in [Tenants -> Seq(Reservation)]

\* Whatever a tenant does, no window of 60 seconds holds more than the budget:
\* neither more requests nor more reserved tokens.  The window that ends now is
\* any window, since it holds in every state.
NeverOverBudget == \A t \in Tenants :
    Len(granted[t]) <= MaxRequests /\ TokensOf(granted[t]) <= OutputTokens

\* A call is judged by the reservations of the last 60 seconds and no others:
\* none is forgotten early, none held against the tenant late, and refusals
\* cost nothing.
JudgedByTheWindow == \A t \in Tenants : Recent(events[t]) = granted[t]

\* The deque is in order of age, which popleft relies on, and never longer than
\* the request budget, refusals and idle times included.
DequeBounded == \A t \in Tenants :
    /\ Len(events[t]) <= MaxRequests
    /\ \A i, j \in 1..Len(events[t]) : i < j => events[t][i].age >= events[t][j].age

\* No tenant is locked out: however it calls, and although nothing but its own
\* calls prunes its deque, requests and tokens for the smallest completion come
\* back again and again.  (A larger one may be kept out by smaller ones for ever.)
BudgetComesBack == \A t \in Tenants, n \in Amounts :
    n <= OutputTokens /\ (\A m \in Amounts \ {0} : n <= m) => []<>Fits(Recent(events[t]), n)
============================================================================
