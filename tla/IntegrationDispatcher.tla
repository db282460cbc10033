----------------------- MODULE IntegrationDispatcher -----------------------
(***************************************************************************)
(* Calls of one external API: execute_api_call of                          *)
(* services/integration_dispatcher.py and the token bucket script of       *)
(* services/redis_middleware.py.                                           *)
(*                                                                         *)
(* The circuit's state, its failure count and the bucket are three keys in *)
(* Redis that every worker process reads and changes, one command at a     *)
(* time.  The keys are named after the reference a workflow step uses (the *)
(* API's id or its name); nothing is shared between references, so this    *)
(* module is about one.                                                    *)
(*                                                                         *)
(* One tick is one second, and all clocks agree.  The bucket's own expiry  *)
(* is left out: it comes 4 seconds after a charge, when the bucket is full *)
(* again for whoever reads the time.                                       *)
(***************************************************************************)
EXTENDS Integers, FiniteSets

CONSTANTS
  Worker,     \* threads that call the API, of any number of processes
  Threshold,  \* circuit_breaker_threshold
  Rate,       \* rate_limit_rps
  MaxTime,    \* bound: seconds
  MaxCalls,   \* bound: calls
  MaxLosses   \* bound: calls cut short by a dead process or an absent Redis

ASSUME DispatcherAssumption ==
  /\ IsFiniteSet(Worker)
  /\ Threshold \in Nat \ {0} /\ Rate \in Nat \ {0}
  /\ MaxTime \in Nat /\ MaxCalls \in Nat /\ MaxLosses \in Nat

VARIABLES
  now,      \* the time
  open,     \* key api_circuit_breaker:state
  fails,    \* key api_circuit_breaker:fails
  bucket,   \* key api_rate_limit:bucket
  call,     \* per worker: the call it is in
  calls,    \* calls so far
  sent,     \* attempts the bucket has admitted
  late,     \* per worker: attempts admitted since the circuit last opened, while open
  skewed,   \* the bucket was charged at a time before its own
  lost      \* calls cut short so far

keys == <<open, fails, bucket>>
dispatcherVars == <<now, keys, call, calls, sent, late, skewed, lost>>

MaxRetries == 3

\* clock: the time the worker has read for the script; until: when its sleep ends.
Call == [pc : {"idle", "ready", "charge", "send", "won", "failed", "trip", "clear"},
         attempt : 1 .. MaxRetries, clock : Nat, until : Nat]
NoCall == [pc |-> "idle", attempt |-> 1, clock |-> 0, until |-> 0]

DispatcherTypeOK ==
  /\ now \in 0 .. MaxTime
  /\ open \in BOOLEAN /\ fails \in Nat
  /\ bucket \in [tokens : 0 .. Rate, time : 0 .. now]
  /\ call \in [Worker -> Call]
  /\ \A w \in Worker : call[w].clock <= now
  /\ calls \in 0 .. MaxCalls /\ sent \in Nat
  /\ late \in [Worker -> Nat]
  /\ skewed \in BOOLEAN
  /\ lost \in 0 .. MaxLosses

\* A bucket that does not exist is a full one.
DispatcherInit ==
  /\ now = 0
  /\ open = FALSE /\ fails = 0
  /\ bucket = [tokens |-> Rate, time |-> 0]
  /\ call = [w \in Worker |-> NoCall]
  /\ calls = 0 /\ sent = 0
  /\ late = [w \in Worker |-> 0]
  /\ skewed = FALSE /\ lost = 0

Goto(w, pc) == call' = [call EXCEPT ![w].pc = pc]
Return(w) == call' = [call EXCEPT ![w] = NoCall]
Awake(w) == now >= call[w].until

(***************************************************************************)
(* The circuit at the start of a call                                      *)
(***************************************************************************)
\* Faulty variant: compares the key with a string, and Redis answers bytes.
LetThrough(w) ==
  /\ call[w].pc = "idle" /\ calls < MaxCalls
  /\ calls' = calls + 1
  /\ Goto(w, "ready")
  /\ UNCHANGED <<now, keys, sent, late, skewed, lost>>

\* The circuit is closed: the call goes on to its first attempt.
Enter(w) ==
  /\ call[w].pc = "idle" /\ calls < MaxCalls /\ ~open
  /\ calls' = calls + 1
  /\ Goto(w, "ready")
  /\ UNCHANGED <<now, keys, sent, late, skewed, lost>>

\* The circuit is open: the call returns False.
Halt(w) ==
  /\ call[w].pc = "idle" /\ calls < MaxCalls /\ open
  /\ calls' = calls + 1
  /\ UNCHANGED <<now, keys, call, sent, late, skewed, lost>>

(***************************************************************************)
(* The token bucket                                                        *)
(***************************************************************************)
ReadClock(w) ==
  /\ call[w].pc = "ready" /\ Awake(w)
  /\ call' = [call EXCEPT ![w].pc = "charge", ![w].clock = now]
  /\ UNCHANGED <<now, keys, calls, sent, late, skewed, lost>>

Lesser(m, n) == IF m < n THEN m ELSE n

\* The tokens in the bucket at the time the caller has read.
Refilled(clock) ==
  LET elapsed == IF clock > bucket.time THEN clock - bucket.time ELSE 0
  IN  Lesser(Rate, bucket.tokens + elapsed * Rate)

Admits(clock) == Refilled(clock) >= 1

\* Faulty variant: the time of the charge is not kept.
ChargeUntimed(w) ==
  LET clock == call[w].clock IN
  /\ call[w].pc = "charge" /\ Admits(clock)
  /\ bucket' = [bucket EXCEPT !.tokens = Refilled(clock) - 1]
  /\ sent' = sent + 1
  /\ late' = [late EXCEPT ![w] = IF open THEN @ + 1 ELSE @]
  /\ skewed' = (skewed \/ clock < bucket.time)
  /\ Goto(w, "send")
  /\ UNCHANGED <<now, open, fails, calls, lost>>

\* The script, one command of Redis: a token is taken and the caller's time kept.
Charge(w) ==
  LET clock == call[w].clock IN
  /\ call[w].pc = "charge" /\ Admits(clock)
  /\ bucket' = [tokens |-> Refilled(clock) - 1, time |-> clock]
  /\ sent' = sent + 1
  /\ late' = [late EXCEPT ![w] = IF open THEN @ + 1 ELSE @]
  /\ skewed' = (skewed \/ clock < bucket.time)
  /\ Goto(w, "send")
  /\ UNCHANGED <<now, open, fails, calls, lost>>

\* No token: nothing is written, and after a second's sleep the attempt fails as
\* one on the network does.
Throttle(w) ==
  /\ call[w].pc = "charge" /\ ~Admits(call[w].clock)
  /\ call' = [call EXCEPT ![w].pc = "failed", ![w].until = now + 1]
  /\ UNCHANGED <<now, keys, calls, sent, late, skewed, lost>>

(***************************************************************************)
(* An attempt and what becomes of it                                       *)
(***************************************************************************)
\* The API answers, or the network fails.
Send(w) ==
  /\ call[w].pc = "send"
  /\ \E pc \in {"won", "failed"} : Goto(w, pc)
  /\ UNCHANGED <<now, keys, calls, sent, late, skewed, lost>>

\* An error status, a body that is not JSON, a field missing from the context
\* (ValueError), or an unsupported method (False): no key is touched.
GiveUp(w) ==
  /\ call[w].pc = "send"
  /\ Return(w)
  /\ UNCHANGED <<now, keys, calls, sent, late, skewed, lost>>

\* The failure count is deleted and the call returns True.
Succeed(w) ==
  /\ call[w].pc = "won"
  /\ fails' = 0
  /\ Return(w)
  /\ UNCHANGED <<now, open, bucket, calls, sent, late, skewed, lost>>

\* The sleep after the first and after the second attempt.
Backoff == <<1, 2>>

\* The next attempt, without another look at the circuit, or False after the last.
NextAttempt(w) ==
  IF call[w].attempt < MaxRetries
  THEN call' = [call EXCEPT ![w].pc = "ready", ![w].attempt = @ + 1,
                            ![w].until = now + Backoff[call[w].attempt]]
  ELSE Return(w)

\* Faulty variant: only the failure that reaches the threshold opens the circuit.
CountExactly(w) ==
  /\ call[w].pc = "failed" /\ Awake(w)
  /\ fails' = fails + 1
  /\ IF fails + 1 = Threshold THEN Goto(w, "trip") ELSE NextAttempt(w)
  /\ UNCHANGED <<now, open, bucket, calls, sent, late, skewed, lost>>

\* INCR, and the comparison of what it answers.
Count(w) ==
  /\ call[w].pc = "failed" /\ Awake(w)
  /\ fails' = fails + 1
  /\ IF fails + 1 >= Threshold THEN Goto(w, "trip") ELSE NextAttempt(w)
  /\ UNCHANGED <<now, open, bucket, calls, sent, late, skewed, lost>>

\* SETEX: the circuit opens, or stays open for longer.
Trip(w) ==
  /\ call[w].pc = "trip"
  /\ open' = TRUE
  /\ late' = IF open THEN late ELSE [v \in Worker |-> 0]
  /\ Goto(w, "clear")
  /\ UNCHANGED <<now, fails, bucket, calls, sent, skewed, lost>>

\* DELETE of the failure count after the circuit was opened.
Clear(w) ==
  /\ call[w].pc = "clear"
  /\ fails' = 0
  /\ NextAttempt(w)
  /\ UNCHANGED <<now, open, bucket, calls, sent, late, skewed, lost>>

(***************************************************************************)
(* The surroundings                                                        *)
(***************************************************************************)
\* circuit_breaker_timeout_sec has passed: Redis drops the key.
Expire ==
  /\ open
  /\ open' = FALSE
  /\ UNCHANGED <<now, fails, bucket, call, calls, sent, late, skewed, lost>>

\* The worker dies, or a command of Redis raises and the call with it.
Abandon(w) ==
  /\ call[w].pc # "idle" /\ lost < MaxLosses
  /\ lost' = lost + 1
  /\ Return(w)
  /\ UNCHANGED <<now, keys, calls, sent, late, skewed>>

Tick ==
  /\ now < MaxTime
  /\ now' = now + 1
  /\ UNCHANGED <<keys, call, calls, sent, late, skewed, lost>>

Step(w) ==
  \/ Enter(w) \/ Halt(w) \/ ReadClock(w) \/ Charge(w) \/ Throttle(w)
  \/ Send(w) \/ GiveUp(w) \/ Succeed(w) \/ Count(w) \/ Trip(w) \/ Clear(w)
  \/ Abandon(w)

DispatcherNext == Expire \/ Tick \/ \E w \in Worker : Step(w)

DispatcherSpec == DispatcherInit /\ [][DispatcherNext]_dispatcherVars

(***************************************************************************)
(* Properties                                                              *)
(***************************************************************************)
\* Workers that have counted a failure at or over the threshold and have not
\* deleted the count yet.
Tripping == {w \in Worker : call[w].pc \in {"trip", "clear"}}

\* However the commands of the workers mix, the count is over the threshold only
\* by workers that are about to open the circuit, or were cut short on the way:
\* after such a loss the next failure opens it (integration_dispatcher.py:109).
FailuresAreActedOn == fails < Threshold + Cardinality(Tripping) + lost

\* An open circuit lets through the call that each worker was in when it opened,
\* and nothing else: three attempts of a worker at most, since the circuit is
\* looked at once per call, not before each attempt (integration_dispatcher.py:56).
LateAttemptsAreFew == \A w \in Worker : late[w] <= MaxRetries

\* While readings of the time reach the script in order, the bucket admits its
\* own content once and Rate requests for every second since.
QuotaInOrder == ~skewed => sent <= Rate * (1 + now)

\* What they rest on: the attempts of its call a worker has behind it, and the
\* tokens still to be spent.
Used(c) == IF c.pc \in {"ready", "charge"} THEN c.attempt - 1 ELSE c.attempt
LateInv ==
  /\ LateAttemptsAreFew
  /\ \A w \in Worker : open /\ call[w].pc # "idle" => late[w] <= Used(call[w])

BucketInv == ~skewed => bucket.tokens + sent <= Rate * (1 + bucket.time)

DispatcherInv == DispatcherTypeOK /\ FailuresAreActedOn /\ LateInv /\ BucketInv

\* "The maximum number of requests per second allowed globally for this API"
\* (schemas.py:1461), the initial burst granted.
QuotaIsKept == sent <= Rate * (1 + now)

=============================================================================
