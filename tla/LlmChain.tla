------------------------------ MODULE LlmChain ------------------------------
(***************************************************************************)
(* The chain of LLM providers of one process: fallback from link to link,  *)
(* a cooldown per provider and a circuit breaker over the whole chain.     *)
(* Calls are coroutines of one event loop: they interleave where _run      *)
(* awaits a provider, and everything between two awaits is one step.       *)
(*                                                                         *)
(* Time is counted in ticks.  An age saturates at the cooldown it is       *)
(* compared with, a failure count at its threshold: the code only asks     *)
(* whether they have been reached.                                         *)
(***************************************************************************)
EXTENDS Integers, FiniteSets

CONSTANTS Links,              \* positions in the chain, tried in this order
          Probed,             \* those of the models of one provider, of which
                              \* a probe chooses one
          Calls,              \* concurrent callers of _run
          Timeout,            \* ticks asyncio.wait_for gives one provider
          BreakerThreshold, BreakerCooldown,
          ProviderThreshold, ProviderCooldown,
          MaxCancels          \* bound on abandoned calls

ASSUME LlmAssumption ==
  /\ Links \subseteq Nat /\ IsFiniteSet(Links) /\ Probed \subseteq Links
  /\ {Timeout, BreakerThreshold, BreakerCooldown,
      ProviderThreshold, ProviderCooldown} \subseteq Nat \ {0}
  /\ MaxCancels \in Nat

NotOpened == -1   \* the age of a cooldown that is not running (opened_at None)
Nobody == -1      \* the call awaits no provider

VARIABLES
  enabled,   \* links of the current configuration (set_links)
  up,        \* providers that would answer (environment)
  failures,  \* failures[l]: consecutive failures of provider l
  age,       \* age[l]: ticks since the cooldown of l opened, or NotOpened
  streak,    \* consecutive failures of the whole chain
  opened,    \* ticks since the breaker opened, or NotOpened
  awaits,    \* awaits[c]: link the call is waiting for, or Nobody
  todo,      \* todo[c]: links its loop has still to visit
  waited,    \* waited[c]: ticks it has been waiting
  outcome,   \* outcome[c]: how the latest call of c ended
  cancels    \* calls abandoned so far

providerVars == <<failures, age>>
breakerVars == <<streak, opened>>
callVars == <<awaits, todo, waited, outcome>>
vars == <<enabled, up, failures, age, streak, opened, awaits, todo, waited,
          outcome, cancels>>

Outcomes == {"none", "ok", "fast_fail", "no_links", "unavailable", "cancelled"}

TypeOK ==
  /\ enabled \subseteq Links
  /\ up \subseteq Links
  /\ failures \in [Links -> 0..ProviderThreshold]
  /\ age \in [Links -> NotOpened..ProviderCooldown]
  /\ streak \in 0..BreakerThreshold
  /\ opened \in NotOpened..BreakerCooldown
  /\ awaits \in [Calls -> Links \cup {Nobody}]
  /\ todo \in [Calls -> SUBSET Links]
  /\ waited \in [Calls -> 0..Timeout]
  /\ outcome \in [Calls -> Outcomes]
  /\ cancels \in 0..MaxCancels

(* What build_links may make of a configuration.                           *)
AtMostOneProbed(S) == \A k, l \in S \cap Probed : k = l

Init ==
  /\ enabled \in {S \in SUBSET Links : AtMostOneProbed(S)}
  /\ up \in SUBSET Links
  /\ failures = [l \in Links |-> 0]
  /\ age = [l \in Links |-> NotOpened]
  /\ streak = 0
  /\ opened = NotOpened
  /\ awaits = [c \in Calls |-> Nobody]
  /\ todo = [c \in Calls |-> {}]
  /\ waited = [c \in Calls |-> 0]
  /\ outcome = [c \in Calls |-> "none"]
  /\ cancels = 0

Saturate(n, top) == IF n < top THEN n ELSE top

-----------------------------------------------------------------------------
(* CircuitBreaker.                                                         *)

BreakerOpen == opened # NotOpened /\ opened < BreakerCooldown

(* record_failure: opened_at is set once and is not refreshed afterwards.  *)
ChainFailure ==
  /\ streak' = Saturate(streak + 1, BreakerThreshold)
  /\ opened' = IF streak + 1 >= BreakerThreshold /\ opened = NotOpened THEN 0 ELSE opened

ChainSuccess == streak' = 0 /\ opened' = NotOpened

-----------------------------------------------------------------------------
(* ProviderCooldown.                                                       *)

Expired(ages, l) == ages[l] # NotOpened /\ ages[l] >= ProviderCooldown

(* Mutant: a cooldown that ran out is never noticed.                       *)
SkippedForEver(ages, l) == ages[l] # NotOpened

(* should_skip, without its side effect.                                   *)
Skipped(ages, l) == ages[l] # NotOpened /\ ages[l] < ProviderCooldown

(* record_failure(name), as the new tables.                                *)
FailuresAfter(l) == [failures EXCEPT ![l] = Saturate(@ + 1, ProviderThreshold)]

AgeAfterFailure(l) ==
  [age EXCEPT ![l] = IF failures[l] + 1 >= ProviderThreshold /\ @ = NotOpened
                     THEN 0 ELSE @]

(* Mutant: an expired cooldown forgets when it opened, not its failures.   *)
ResetAgeOnly(fs, ages, l) ==
  /\ failures' = fs
  /\ age' = IF Expired(ages, l) THEN [ages EXCEPT ![l] = NotOpened] ELSE ages

(* should_skip's side effect on the link the loop stops at: an expired     *)
(* cooldown is forgotten together with its failures.                       *)
ResetExpired(fs, ages, l) ==
  /\ failures' = IF Expired(ages, l) THEN [fs EXCEPT ![l] = 0] ELSE fs
  /\ age' = IF Expired(ages, l) THEN [ages EXCEPT ![l] = NotOpened] ELSE ages

-----------------------------------------------------------------------------
(* LLMChain._run.                                                          *)

(* The call ends with result o and waits for nobody.                       *)
Return(c, o) ==
  /\ awaits' = [awaits EXCEPT ![c] = Nobody]
  /\ todo' = [todo EXCEPT ![c] = {}]
  /\ waited' = [waited EXCEPT ![c] = 0]
  /\ outcome' = [outcome EXCEPT ![c] = o]

(* The loop goes on over the links of rest, with provider tables fs, ages: *)
(* it awaits the first link that is not skipped, and without one reports   *)
(* the failure of the chain and raises.                                    *)
Visit(c, rest, fs, ages) ==
  \/ \E l \in rest :
       /\ ~Skipped(ages, l)
       /\ \A k \in rest : k < l => Skipped(ages, k)
       /\ awaits' = [awaits EXCEPT ![c] = l]
       /\ todo' = [todo EXCEPT ![c] = {k \in rest : k > l}]
       /\ waited' = [waited EXCEPT ![c] = 0]
       /\ ResetExpired(fs, ages, l)
       /\ UNCHANGED <<outcome, breakerVars>>
  \/ /\ \A l \in rest : Skipped(ages, l)
     /\ failures' = fs /\ age' = ages
     /\ Return(c, "unavailable")
     /\ ChainFailure

(* The breaker is open: fast fail.                                         *)
FastFail(c) ==
  /\ awaits[c] = Nobody
  /\ BreakerOpen
  /\ Return(c, "fast_fail")
  /\ UNCHANGED <<enabled, up, providerVars, breakerVars, cancels>>

(* No link is configured: an error the breaker does not count.             *)
NoLinks(c) ==
  /\ awaits[c] = Nobody
  /\ ~BreakerOpen
  /\ enabled = {}
  /\ Return(c, "no_links")
  /\ UNCHANGED <<enabled, up, providerVars, breakerVars, cancels>>

Begin(c) ==
  /\ awaits[c] = Nobody
  /\ ~BreakerOpen
  /\ enabled # {}
  /\ Visit(c, enabled, failures, age)
  /\ UNCHANGED <<enabled, up, cancels>>

Succeed(c) ==
  /\ awaits[c] \in up
  /\ failures' = [failures EXCEPT ![awaits[c]] = 0]
  /\ age' = [age EXCEPT ![awaits[c]] = NotOpened]
  /\ ChainSuccess
  /\ Return(c, "ok")
  /\ UNCHANGED <<enabled, up, cancels>>

(* The provider raises or the timeout strikes: on to the next link.        *)
Fail(c) ==
  /\ awaits[c] \in Links \ up
  /\ Visit(c, todo[c], FailuresAfter(awaits[c]), AgeAfterFailure(awaits[c]))
  /\ UNCHANGED <<enabled, up, cancels>>

(* CancelledError is no Exception: nothing is recorded.                    *)
Cancel(c) ==
  /\ awaits[c] # Nobody
  /\ cancels < MaxCancels
  /\ cancels' = cancels + 1
  /\ Return(c, "cancelled")
  /\ UNCHANGED <<enabled, up, providerVars, breakerVars>>

-----------------------------------------------------------------------------
(* Environment.                                                            *)

(* A tick passes; wait_for lets nobody wait longer than Timeout.           *)
Tick ==
  /\ \A c \in Calls : awaits[c] # Nobody => waited[c] < Timeout
  /\ waited' = [c \in Calls |-> IF awaits[c] = Nobody THEN 0 ELSE waited[c] + 1]
  /\ age' = [l \in Links |-> IF age[l] = NotOpened THEN NotOpened
                             ELSE Saturate(age[l] + 1, ProviderCooldown)]
  /\ opened' = IF opened = NotOpened THEN NotOpened
               ELSE Saturate(opened + 1, BreakerCooldown)
  /\ UNCHANGED <<enabled, up, failures, streak, awaits, todo, outcome, cancels>>

(* A provider goes down or comes back.                                     *)
Flip(l) ==
  /\ up' = IF l \in up THEN up \ {l} ELSE up \cup {l}
  /\ UNCHANGED <<enabled, providerVars, breakerVars, callVars, cancels>>

(* A probe asks the models of its provider and keeps the first that        *)
(* answers, or none; the other links are those whose key is configured.    *)
(* Calls under way keep the links they began with, the cooldown tables are *)
(* kept by provider name.                                                  *)
SetLinks(S) ==
  /\ S # enabled
  /\ S \ Probed = enabled \ Probed
  /\ AtMostOneProbed(S)
  /\ enabled' = S
  /\ UNCHANGED <<up, providerVars, breakerVars, callVars, cancels>>

CallStep(c) ==
  \/ FastFail(c)
  \/ NoLinks(c)
  \/ Begin(c)
  \/ Succeed(c)
  \/ Fail(c)
  \/ Cancel(c)

Next ==
  \/ \E c \in Calls : CallStep(c)
  \/ Tick
  \/ \E l \in Links : Flip(l)
  \/ \E S \in SUBSET Links : SetLinks(S)

Spec == Init /\ [][Next]_vars

(* Time passes, callers keep calling, and an awaited provider answers or   *)
(* times out.                                                              *)
Fairness ==
  /\ WF_vars(Tick)
  /\ \A c \in Calls :
       /\ WF_vars(FastFail(c) \/ NoLinks(c) \/ Begin(c))
       /\ WF_vars(Succeed(c) \/ Fail(c))

FairSpec == Spec /\ Fairness

-----------------------------------------------------------------------------
(* Properties.                                                             *)

(* A counter that reached its threshold has a cooldown running or expired, *)
(* and a cooldown exists only with such a counter, whatever concurrent     *)
(* calls record in between (both record_failure, should_skip).  Otherwise  *)
(* a failing provider would be asked and paid for, for ever.               *)
CooldownIffThreshold ==
  /\ \A l \in Links : failures[l] = ProviderThreshold <=> age[l] # NotOpened
  /\ streak = BreakerThreshold <=> opened # NotOpened

(* The chain recovers: when from some moment on a configured provider      *)
(* answers, calls succeed again and again; breaker and cooldowns, whose    *)
(* windows differ, cannot keep each other closed.                          *)
Recovers ==
  \A l \in Links :
    <>[](l \in up /\ l \in enabled) => []<>(\E c \in Calls : outcome[c] = "ok")
=============================================================================
