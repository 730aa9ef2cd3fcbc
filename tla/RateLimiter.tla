---------------------------- MODULE RateLimiter ----------------------------
(***************************************************************************)
(* The DualRateLimiter of cfire/reliability.py: a sliding window over the  *)
(* reservations of the last window_sec seconds, with a budget of requests  *)
(* and a budget of tokens, and the callers that block in acquire().        *)
(*                                                                         *)
(* acquire() runs under a Condition; its only await is cond.wait(), which  *)
(* gives the lock up.  One pass of its loop (prune, test, reserve or       *)
(* compute the sleep) is therefore one atomic action, Attempt.  A sleeping *)
(* caller is woken by the notify_all of somebody's reservation or by its   *)
(* own timeout, then queues for the lock: phase "woken".  asyncio serves   *)
(* the lock in FIFO order; the model lets any woken caller go first.       *)
(*                                                                         *)
(* _req_log and _tok_log get the same timestamps, and are pruned with the  *)
(* same cutoff, in the same critical section: one sequence, log, stands    *)
(* for both.  An entry holds its age (clock() - timestamp, saturating at   *)
(* Window, where it has expired) and its tokens, oldest first.             *)
(***************************************************************************)
EXTENDS Naturals, Sequences, SequencesExt

CONSTANTS
  Callers,      \* the tasks that call acquire
  Tokens,       \* the tokens each of them asks for
  ReqLimit,     \* req_per_min
  TokLimit,     \* tok_per_min
  Window        \* window_sec, in ticks

ASSUME TokensAssumption == Tokens \in [Callers -> Nat]
ASSUME LimitsAssumption == ReqLimit \in Nat \ {0} /\ TokLimit \in Nat
ASSUME WindowAssumption == Window \in Nat \ {0}

VARIABLES
  log,        \* the reservations not pruned yet
  phase,      \* where each caller is
  timer,      \* ticks left of each sleeping caller's wait_for timeout
  granted     \* history: the reservations of the last Window ticks, by age

limiterVars == <<log, phase, timer, granted>>

Ages == 0..(Window - 1)

LimiterInit ==
  /\ log = << >>
  /\ phase = [c \in Callers |-> "idle"]
  /\ timer = [c \in Callers |-> 0]
  /\ granted = [a \in Ages |-> [requests |-> 0, tokens |-> 0]]

\* f[1] + ... + f[n]
SumTo(f, n) ==
  LET sum[i \in 0..n] == IF i = 0 THEN 0 ELSE sum[i - 1] + f[i]
  IN  sum[n]

TokensIn(entries) == SumTo([i \in DOMAIN entries |-> entries[i].tokens], Len(entries))

(* Variants with a mistake somebody could make; each breaks a property below. *)

FitsOneTooMany(c, entries) ==
  Len(entries) <= ReqLimit /\ TokensIn(entries) + Tokens[c] <= TokLimit

SleepForNewest(entries) == IF entries = << >> THEN 1 ELSE Window - Last(entries).age

WaitWithoutTimeout(c) == FALSE

-----------------------------------------------------------------------------

\* The entries younger than n, of a log in order of time.
Younger(entries, n) ==
  LET first == CHOOSE i \in 1..(Len(entries) + 1) :
                 \A j \in DOMAIN entries : entries[j].age < n <=> j >= i
  IN  SubSeq(entries, first, Len(entries))

\* _prune
Pruned == Younger(log, Window)

\* Both budgets have room for the request of c beside the given entries.
Fits(c, entries) ==
  /\ Len(entries) + 1 <= ReqLimit
  /\ TokensIn(entries) + Tokens[c] <= TokLimit

\* max(0.05, oldest + window - now + 0.005), in whole ticks: until the oldest
\* entry leaves the window, or the 50 ms poll when the log is empty.
SleepFor(entries) == IF entries = << >> THEN 1 ELSE Window - entries[1].age

(***************************************************************************)
(* One pass of the loop of acquire: by a caller that has just arrived, or  *)
(* by one that was woken and got the lock back.                            *)
(***************************************************************************)
Reserve(c) ==
  /\ Fits(c, Pruned)
  /\ log' = Append(Pruned, [age |-> 0, tokens |-> Tokens[c]])
  /\ phase' = [d \in Callers |->
                 IF d = c THEN "granted"
                 ELSE IF phase[d] = "waiting" THEN "woken" ELSE phase[d]]
  /\ granted' = [granted EXCEPT ![0] = [requests |-> @.requests + 1,
                                        tokens |-> @.tokens + Tokens[c]]]
  /\ UNCHANGED timer

Sleep(c) ==
  /\ ~Fits(c, Pruned)
  /\ log' = Pruned
  /\ phase' = [phase EXCEPT ![c] = "waiting"]
  /\ timer' = [timer EXCEPT ![c] = SleepFor(Pruned)]
  /\ UNCHANGED granted

Attempt(c) ==
  /\ phase[c] \in {"idle", "woken"}
  /\ Reserve(c) \/ Sleep(c)

\* wait_for gives up: TimeoutError, and the loop goes round.
TimedOut(c) ==
  /\ phase[c] = "waiting" /\ timer[c] = 0
  /\ phase' = [phase EXCEPT ![c] = "woken"]
  /\ UNCHANGED <<log, timer, granted>>

\* The caller's task is cancelled in its wait: it leaves nothing behind.
Cancel(c) ==
  /\ phase[c] \in {"waiting", "woken"}
  /\ phase' = [phase EXCEPT ![c] = "idle"]
  /\ UNCHANGED <<log, timer, granted>>

\* A caller that was let through has another request to make.
ComeBack(c) ==
  /\ phase[c] = "granted"
  /\ phase' = [phase EXCEPT ![c] = "idle"]
  /\ UNCHANGED <<log, timer, granted>>

LimiterTick ==
  /\ log' = [i \in DOMAIN log |->
               [log[i] EXCEPT !.age = IF @ < Window THEN @ + 1 ELSE @]]
  /\ timer' = [c \in Callers |-> IF timer[c] > 0 THEN timer[c] - 1 ELSE 0]
  /\ granted' = [a \in Ages |-> IF a = 0 THEN [requests |-> 0, tokens |-> 0]
                                ELSE granted[a - 1]]
  /\ UNCHANGED phase

LimiterNext ==
  \/ \E c \in Callers : Attempt(c) \/ TimedOut(c) \/ Cancel(c) \/ ComeBack(c)
  \/ LimiterTick

LimiterSpec == LimiterInit /\ [][LimiterNext]_limiterVars

(***************************************************************************)
(* Fairness.  The clock advances, a timeout that has fired is delivered,   *)
(* and a woken task gets the lock.  Nothing makes a caller arrive, return  *)
(* or be cancelled.                                                        *)
(***************************************************************************)
LimiterFairness ==
  /\ WF_limiterVars(LimiterTick)
  /\ \A c \in Callers : WF_limiterVars(TimedOut(c)) /\ WF_limiterVars(phase[c] = "woken" /\ Attempt(c))

-----------------------------------------------------------------------------

LimiterTypeOK ==
  /\ log \in Seq([age : 0..Window, tokens : Nat])
  /\ phase \in [Callers -> {"idle", "waiting", "woken", "granted"}]
  /\ timer \in [Callers -> 0..Window]
  /\ granted \in [Ages -> [requests : Nat, tokens : Nat]]

\* What was granted in the latest n ticks.
GrantedRequests(n) == SumTo([a \in 1..Window |-> granted[a - 1].requests], n)
GrantedTokens(n) == SumTo([a \in 1..Window |-> granted[a - 1].tokens], n)

\* In the window that ends now, hence in every window of Window ticks, the
\* callers let through stay within both budgets.  Stated on the grants
\* themselves, not on the logs that acquire prunes.
WithinBudgets ==
  /\ GrantedRequests(Window) <= ReqLimit
  /\ GrantedTokens(Window) <= TokLimit

\* The limiter keeps both budgets, in a well-formed state.
BudgetsKept == LimiterTypeOK /\ WithinBudgets

\* No missed wakeup: as long as a caller sleeps with time left on its timeout
\* and nobody has notified it, its request does not fit.  This is what lets
\* acquire sleep on a Condition where the client before it polled.
SleepsOnlyWhileBlocked ==
  \A c \in Callers : phase[c] = "waiting" /\ timer[c] > 0 => ~Fits(c, Pruned)

\* A request that fits the token budget at all gets through once no new
\* requests arrive ahead of it, even beside one too large ever to fit.
WaitersGetThrough ==
  <>[][\A c \in Callers : ~ComeBack(c) /\ ~Cancel(c)]_limiterVars =>
    \A c \in Callers : Tokens[c] <= TokLimit =>
      [](phase[c] = "waiting" => <>(phase[c] \in {"granted", "idle"}))
=============================================================================
