---------------------------- MODULE JarvisAccounts ----------------------------
(***************************************************************************)
(* API keys, rate limit and usage of one owner in tools/jarvis_server.cpp: *)
(* what its pre-routing handler, the chat, create and revoke handlers do   *)
(* with AuthManager (tools/jarvis/auth.cpp) and UsageTracker               *)
(* (tools/jarvis/usage.cpp), over crashes of the process.                  *)
(*                                                                         *)
(* A step is what happens between two points where another handler thread  *)
(* can get in.  Both classes lock their mutex for a whole call; only       *)
(* save_keys() is two steps, because a crash can come between the opening, *)
(* which empties keys.json, and the writing.  All keys have one plan and   *)
(* none expires; voice minutes are counted as tokens are.                  *)
(***************************************************************************)
EXTENDS Integers, FiniteSets, FiniteSetsExt

CONSTANTS
  Clients,     \* handler threads
  Keys,        \* keys that generate_key() may draw
  FirstKey,    \* the key in keys.json before the server is started for the first time
  Limit,       \* max_tokens of the plan
  MaxCost,     \* bound: the tokens of one answer
  Burst,       \* default_burst
  RefillTicks, \* ticks in which a plan earns one request
  PeriodTicks, \* ticks of the 30 days of a period
  MaxClock,    \* bound
  MaxCrashes,  \* bound
  Nobody

ASSUME AccountsAssumption ==
  /\ IsFiniteSet(Clients) /\ Nobody \notin Clients
  /\ FirstKey \in Keys
  /\ Limit \in Nat \ {0} /\ MaxCost \in Nat /\ Burst \in Nat
  /\ RefillTicks \in Nat \ {0} /\ PeriodTicks \in Nat /\ MaxClock \in Nat
  /\ MaxCrashes \in Nat

VARIABLES
  keyState,   \* keys_by_key: "unknown", "active" or "revoked"
  keysFile,   \* keys.json: the same, or "torn" while it is being written and if that fails
  authHolder, \* who holds AuthManager's mutex between two steps
  drawn,      \* keys that were drawn so far
  bucket,     \* rate_buckets: tokens and last_refill, or none
  used,       \* tokens_processed
  period,     \* period_start, or none
  clientAt,   \* where each handler thread is
  job,        \* its request: the operation, and the key it acts on
  now,        \* the system clock
  crashes,
  told,       \* history: what the answers said of each key
  excused,    \* history: a save failed, or a crash found one unfinished
  accepted    \* history: requests let through up to the end of each tick, since the start

keyVars == <<keyState, keysFile, authHolder, drawn>>
meterVars == <<bucket, used, period>>
clientVars == <<clientAt, job>>
toldVars == <<told, excused>>
accountsVars == <<keyVars, meterVars, clientVars, now, crashes, toldVars, accepted>>

NoBucket == [tokens |-> 0, since |-> -1]
NoJob == [op |-> "none", target |-> FirstKey]
NoneAccepted == [t \in 0 .. MaxClock |-> 0]
Issued == [k \in Keys |-> IF k = FirstKey THEN "active" ELSE "unknown"]
Torn == [k \in Keys |-> "torn"]
NoKeys == [k \in Keys |-> "unknown"]

GoesTo(c, place) == clientAt' = [clientAt EXCEPT ![c] = place]
Ends(c) == GoesTo(c, "idle") /\ job' = [job EXCEPT ![c] = NoJob]
AuthFree == authHolder = Nobody

AccountsInit ==
  /\ keyState = Issued /\ keysFile = Issued /\ authHolder = Nobody /\ drawn = {FirstKey}
  /\ bucket = NoBucket /\ used = 0 /\ period = -1
  /\ clientAt = [c \in Clients |-> "idle"] /\ job = [c \in Clients |-> NoJob]
  /\ now = 0 /\ crashes = 0
  /\ told = Issued /\ excused = FALSE
  /\ accepted = NoneAccepted

\* validate(): an unknown or revoked key is answered with 401.
Validate(c) ==
  /\ clientAt[c] = "idle" /\ AuthFree
  /\ \E k \in Keys : keyState[k] = "active"
  /\ \E op \in {"chat", "create", "revoke"} : job' = [job EXCEPT ![c].op = op]
  /\ GoesTo(c, "rate")
  /\ UNCHANGED <<keyVars, meterVars, now, crashes, toldVars, accepted>>

\* Error: the time of the refill is not noted.
RefilledAgain(b) ==
  LET earned == (now - b.since) \div RefillTicks
  IN  IF b = NoBucket THEN [tokens |-> Burst, since |-> now]
      ELSE [b EXCEPT !.tokens = Min({@ + earned, Burst})]

\* refill_bucket(): whole requests only; a bucket that earned none keeps its time.
Refilled(b) ==
  LET earned == (now - b.since) \div RefillTicks
  IN  IF b = NoBucket THEN [tokens |-> Burst, since |-> now]
      ELSE IF earned > 0
        THEN [tokens |-> Min({b.tokens + earned, Burst}), since |-> now]
        ELSE b

\* check_rate_limit(): a request is let through, or answered with 429.
CheckRate(c) ==
  /\ clientAt[c] = "rate" /\ AuthFree
  /\ LET b == Refilled(bucket)
     IN  IF b.tokens > 0
           THEN /\ bucket' = [b EXCEPT !.tokens = @ - 1]
                /\ accepted' = [t \in 0 .. MaxClock |-> accepted[t] + (IF t >= now THEN 1 ELSE 0)]
                /\ GoesTo(c, "limit") /\ UNCHANGED job
           ELSE bucket' = b /\ Ends(c) /\ UNCHANGED accepted
  /\ UNCHANGED <<keyVars, used, period, now, crashes, toldVars>>

\* Error: more than the limit is asked for.
ExceededByMore == used > Limit

\* check_limits(): is the limit of the period reached?
Exceeded == used >= Limit

\* A request over the limit is answered with 402.
Refuse(c) ==
  /\ clientAt[c] = "limit" /\ Exceeded
  /\ Ends(c)
  /\ UNCHANGED <<keyVars, meterVars, now, crashes, toldVars, accepted>>

Admit(c) ==
  /\ clientAt[c] = "limit" /\ ~Exceeded
  /\ GoesTo(c, job[c].op)
  /\ UNCHANGED <<keyVars, meterVars, job, now, crashes, toldVars, accepted>>

\* handle_chat(): the answer is computed, then record_usage() counts it (not for an answer
\* of the vision backend).  The call of build_context() before it is taken to return,
\* although it locks the mutex of the context a second time (context.cpp:104-107).
FinishChat(c) ==
  /\ clientAt[c] = "chat"
  /\ \E cost \in 0 .. MaxCost : used' = used + cost
  /\ period' = IF period = -1 THEN now ELSE period
  /\ Ends(c)
  /\ UNCHANGED <<keyVars, bucket, now, crashes, toldVars, accepted>>

\* create_key(): a key nobody has seen (Keys bounds how many there are).
CreateKey(c) ==
  /\ clientAt[c] = "create" /\ AuthFree
  /\ \E k \in Keys \ drawn :
       /\ keyState' = [keyState EXCEPT ![k] = "active"]
       /\ drawn' = drawn \cup {k}
       /\ job' = [job EXCEPT ![c].target = k]
  /\ GoesTo(c, "save")
  /\ UNCHANGED <<keysFile, authHolder, meterVars, now, crashes, toldVars, accepted>>

\* Error: a revocation is not saved.
RevokeUnsaved(c) ==
  /\ clientAt[c] = "revoke" /\ AuthFree
  /\ \E k \in Keys :
       IF keyState[k] = "unknown"
         THEN Ends(c) /\ UNCHANGED keyState
         ELSE /\ keyState' = [keyState EXCEPT ![k] = "revoked"]
              /\ job' = [job EXCEPT ![c].target = k]
              /\ GoesTo(c, "answer")
  /\ UNCHANGED <<keysFile, authHolder, drawn, meterVars, now, crashes, toldVars, accepted>>

\* revoke_key(): an unknown key is answered with 404.
RevokeKey(c) ==
  /\ clientAt[c] = "revoke" /\ AuthFree
  /\ \E k \in Keys :
       IF keyState[k] = "unknown"
         THEN Ends(c) /\ UNCHANGED keyState
         ELSE /\ keyState' = [keyState EXCEPT ![k] = "revoked"]
              /\ job' = [job EXCEPT ![c].target = k]
              /\ GoesTo(c, "save")
  /\ UNCHANGED <<keysFile, authHolder, drawn, meterVars, now, crashes, toldVars, accepted>>

\* save_keys() opens keys.json and with it empties it ...
SaveOpens(c) ==
  /\ clientAt[c] = "save" /\ AuthFree
  /\ authHolder' = c
  /\ keysFile' = Torn
  /\ GoesTo(c, "write")
  /\ UNCHANGED <<keyState, drawn, meterVars, job, now, crashes, toldVars, accepted>>

\* ... or cannot open it, which the handlers do not look at ...
SaveFails(c) ==
  /\ clientAt[c] = "save" /\ AuthFree
  /\ excused' = TRUE
  /\ GoesTo(c, "answer")
  /\ UNCHANGED <<keyVars, meterVars, job, now, crashes, told, accepted>>

\* ... and writes all keys; a write that fails is not noticed.
SaveWrites(c) ==
  /\ clientAt[c] = "write"
  /\ \/ keysFile' = keyState /\ UNCHANGED excused
     \/ keysFile' = Torn /\ excused' = TRUE
  /\ authHolder' = Nobody
  /\ GoesTo(c, "answer")
  /\ UNCHANGED <<keyState, drawn, meterVars, job, now, crashes, told, accepted>>

\* The answer to create or revoke.
AnswerKey(c) ==
  /\ clientAt[c] = "answer"
  /\ told' = [told EXCEPT ![job[c].target] = IF job[c].op = "revoke" THEN "revoked"
                                            ELSE IF @ = "unknown" THEN "active" ELSE @]
  /\ Ends(c)
  /\ UNCHANGED <<keyVars, meterVars, now, crashes, excused, accepted>>

Tick ==
  /\ now < MaxClock
  /\ now' = now + 1
  /\ UNCHANGED <<keyVars, meterVars, clientVars, crashes, toldVars, accepted>>

\* The process dies and main() starts again: load_keys() throws away what it has only
\* after the file was parsed, and begins with nothing; usage and buckets are not kept.
Restart ==
  /\ crashes < MaxCrashes
  /\ crashes' = crashes + 1
  /\ keyState' = IF keysFile = Torn THEN NoKeys ELSE keysFile
  /\ authHolder' = Nobody
  /\ excused' = (excused \/ keysFile = Torn)
  /\ bucket' = NoBucket /\ used' = 0 /\ period' = -1 /\ accepted' = NoneAccepted
  /\ clientAt' = [c \in Clients |-> "idle"] /\ job' = [c \in Clients |-> NoJob]
  /\ UNCHANGED <<keysFile, drawn, now, told>>

ClientStep(c) ==
  \/ Validate(c) \/ CheckRate(c) \/ Refuse(c) \/ Admit(c) \/ FinishChat(c)
  \/ CreateKey(c) \/ RevokeKey(c)
  \/ SaveOpens(c) \/ SaveFails(c) \/ SaveWrites(c) \/ AnswerKey(c)

AccountsNext == (\E c \in Clients : ClientStep(c)) \/ Tick \/ Restart

AccountsSpec == AccountsInit /\ [][AccountsNext]_accountsVars

-----------------------------------------------------------------------------
(* Properties. *)

\* What an answer said of a key is what a restart would find (POST /v1/api-key/create and
\* revoke save before they answer), however many handlers change and save keys at a time:
\* an issued key is in the file, a revoked one is not active there.  Excused are a save
\* that failed and a crash in the middle of one, which the code does not handle.
IssuedKeysSurvive ==
  ~excused /\ keysFile # Torn =>
    \A k \in Keys :
      /\ told[k] = "active" => keysFile[k] # "unknown"
      /\ told[k] = "revoked" => keysFile[k] = "revoked"

\* The limit is looked at before the answer and counted after it: usage goes beyond the
\* last token below the limit by no more than the answers under way (check_limits(),
\* record_usage()).
BoundedOvershoot ==
  used + MaxCost * Cardinality({c \in Clients : clientAt[c] = "chat"})
    <= Limit - 1 + MaxCost * Cardinality(Clients)

\* The requests let through before tick s.
AcceptedBefore(s) == IF s = 0 THEN 0 ELSE accepted[s - 1]

\* Within any stretch of time the rate limiter lets through its burst, what the stretch
\* earned, and one more for the fraction that was earned before it (check_rate_limit(),
\* refill_bucket()).
RateBound ==
  \A s \in 0 .. now : \A t \in s .. now :
    accepted[t] - AcceptedBefore(s) <= Burst + ((t - s) \div RefillTicks) + 1

\* A request that is refused for the monthly limit is refused in the period its usage was
\* counted in ("Monthly token limit exceeded", usage.cpp; "Reset a usage period (called when
\* subscription renews)", usage.h).  The code has no caller of reset_period().
LimitIsMonthly ==
  [][\A c \in Clients : Refuse(c) => now <= period + PeriodTicks]_accountsVars
===============================================================================
