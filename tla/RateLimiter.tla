----------------------------- MODULE RateLimiter -----------------------------
(* DomainRateLimiter: each process remembers, by registrable domain of the *)
(* sender, when it let requests through, and lets at most Limit through in *)
(* a window.  A call runs under the limiter's mutex and reads the clock    *)
(* there, so it is one step.  The list of times is the set of the requests *)
(* they belong to.                                                         *)
EXTENDS Integers, FiniteSets

CONSTANTS
  Process, Request,
  Site, SiteOf,   \* registrable domains, and the sender's of each request
  Limit, Window,
  MaxTime         \* bound: ticks of the clock

ASSUME RateLimiterAssumption ==
  /\ IsFiniteSet(Request)
  /\ SiteOf \in [Request -> Site]
  /\ Limit \in Nat /\ Window \in Nat /\ MaxTime \in Nat

VARIABLES
  now,
  at,        \* when each request was let through, if it was
  requests,  \* what each process remembers of each site
  admitted   \* history: what each process let through since it started

limiter == <<now, at, requests, admitted>>

LimiterTypeOK ==
  /\ now \in 0..MaxTime
  /\ at \in [Request -> 0..MaxTime]
  /\ requests \in [Process -> [Site -> SUBSET Request]]
  /\ admitted \in [Process -> SUBSET Request]

NewDomainRateLimiter ==
  /\ now = 0
  /\ at = [r \in Request |-> 0]
  /\ requests = [p \in Process |-> [s \in Site |-> {}]]
  /\ admitted = [p \in Process |-> {}]

------------------------------------------------------------------------------
(* Broken variant: the cutoff is taken for part of what has passed early.  *)
ValidEarly(p, s) == {q \in requests[p][s] : at[q] > now - Window + 1}

(* The times after the cutoff. *)
Valid(p, s) == {q \in requests[p][s] : at[q] > now - Window}

Allow(p, r) ==
  /\ Cardinality(Valid(p, SiteOf[r])) < Limit
  /\ at' = [at EXCEPT ![r] = now]
  /\ requests' = [requests EXCEPT ![p][SiteOf[r]] = Valid(p, SiteOf[r]) \cup {r}]
  /\ admitted' = [admitted EXCEPT ![p] = @ \cup {r}]
  /\ UNCHANGED now

(* Broken variant: a refused request takes a place in the window too.      *)
DenyRecorded(p, r) ==
  /\ Cardinality(Valid(p, SiteOf[r])) >= Limit
  /\ at' = [at EXCEPT ![r] = now]
  /\ requests' = [requests EXCEPT ![p][SiteOf[r]] = Valid(p, SiteOf[r]) \cup {r}]
  /\ UNCHANGED <<now, admitted>>

(* Allow returns false: what has passed is dropped, nothing is added.      *)
Deny(p, r) ==
  /\ Cardinality(Valid(p, SiteOf[r])) >= Limit
  /\ requests' = [requests EXCEPT ![p][SiteOf[r]] = Valid(p, SiteOf[r])]
  /\ UNCHANGED <<now, at, admitted>>

Tick ==
  /\ now < MaxTime
  /\ now' = now + 1
  /\ UNCHANGED <<at, requests, admitted>>

(* A process that starts again remembers nothing.                          *)
Forget(p) ==
  /\ requests' = [requests EXCEPT ![p] = [s \in Site |-> {}]]
  /\ admitted' = [admitted EXCEPT ![p] = {}]
  /\ UNCHANGED <<now, at>>

------------------------------------------------------------------------------
Recent(p, s, t) == {q \in admitted[p] : SiteOf[q] = s /\ at[q] > t - Window /\ at[q] <= t}

(* No window of any length-Window stretch of time, wherever it starts,     *)
(* holds more than Limit requests that one run of one process let through  *)
(* for one site: Allow forgets exactly what lies before the cutoff.        *)
WindowBound ==
  \A p \in Process, s \in Site, t \in 0..MaxTime : Cardinality(Recent(p, s, t)) <= Limit

==============================================================================
