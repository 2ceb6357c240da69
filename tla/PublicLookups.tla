------------------------------ MODULE PublicLookups ------------------------------
(***************************************************************************)
(* Lookups of the public Roblox services (roblox/client.py): a cache that  *)
(* forgets by age and by number, requests that are repeated when they fail *)
(* for a while, and answers that arrive while other threads ask the same.  *)
(* What Roblox answers is told by the moment at which it was so.           *)
(***************************************************************************)
EXTENDS Integers, SequencesExt, RowOrder

CONSTANTS
    Lookers,       \* bridge threads
    UserIds,       \* Roblox users
    Ttl,           \* how long an answer is kept
    MaxCached,     \* how many are kept
    RetryAttempts, \* how often a request is repeated
    Patience,      \* bound: how long a lookup may take, its requests and waits together
    MaxHours       \* bound: time

ASSUME LookupAssumption ==
    /\ Ttl \in Nat \ {0} /\ MaxCached \in Nat \ {0} /\ RetryAttempts \in Nat /\ Patience \in Nat
    /\ IsFiniteSet(UserIds)

VARIABLES
    cached,        \* _entries, the one used last at the end
    lookup,        \* lookup[t]: a call, and its local variables
    hour

lookupVars == <<cached, lookup, hour>>

Unknown == -1
\* A call: whom it asks for, what it asks Roblox, what it has, and what it returned last.
NoLookup == [at |-> "idle", missing |-> {}, attempt |-> 0, since |-> 0, got |-> Unknown,
             found |-> [u \in UserIds |-> Unknown]]

Answers(t) == {u \in UserIds : lookup[t].found[u] # Unknown}

(***************************************************************************)
(* _TimedCache                                                             *)
(***************************************************************************)

EntriesOf(user) == Taken(cached, {i \in DOMAIN cached : cached[i].user = user})
Fresh(entry) == hour < entry.until
IsCached(user) == EntriesOf(user) # <<>> /\ Fresh(EntriesOf(user)[1])

\* get: what is read moves to the end, what is too old goes.
Touched(users) ==
    LET others == {i \in DOMAIN cached : cached[i].user \notin users}
        read == {i \in DOMAIN cached : cached[i].user \in users /\ Fresh(cached[i])}
    IN  Taken(cached, others) \o Taken(cached, read)
Shortened(entries) ==
    IF Len(entries) > MaxCached THEN SubSeq(entries, Len(entries) - MaxCached + 1, Len(entries)) ELSE entries
\* put: at the end, and the oldest go.
Put(entries, user, asOf) ==
    Shortened(Append(Taken(entries, {i \in DOMAIN entries : entries[i].user # user}),
                     [user |-> user, asOf |-> asOf, until |-> hour + Ttl]))

(***************************************************************************)
(* get_public_presence, get_public_profile: the cache, then one request for *)
(* those that are missing.                                                 *)
(***************************************************************************)

Ask(t, users) ==
    /\ lookup[t].at = "idle" /\ users # {}
    /\ LET known == {u \in users : IsCached(u)}
       IN  lookup' = [lookup EXCEPT ![t] =
               [NoLookup EXCEPT !.at = IF known = users THEN "returns" ELSE "asks", !.missing = users \ known,
                                !.since = hour,
                                !.found = [u \in UserIds |-> IF u \in known THEN EntriesOf(u)[1].asOf ELSE Unknown]]]
    /\ cached' = Touched(users) /\ UNCHANGED hour

\* Roblox answers at some moment, and the answer takes its time.
RobloxAnswers(t) ==
    /\ lookup[t].at = "asks" /\ lookup' = [lookup EXCEPT ![t].at = "answered", ![t].got = hour]
    /\ UNCHANGED <<cached, hour>>
\* _send_json repeats what fails for a while, so many times ...
MayRepeat(t) == lookup[t].attempt < RetryAttempts
RobloxFails(t) ==
    /\ lookup[t].at = "asks" /\ MayRepeat(t)
    /\ lookup' = [lookup EXCEPT ![t].at = "asks", ![t].attempt = @ + 1]
    /\ UNCHANGED <<cached, hour>>
\* ... and gives up then, or at once when Roblox refuses.
GivesUpAsking(t) ==
    /\ lookup[t].at \in {"asks", "answered"} /\ lookup' = [lookup EXCEPT ![t] = NoLookup]
    /\ UNCHANGED <<cached, hour>>

\* The users that Roblox told of, which need not be all that were asked for.
Stores(t, told) ==
    /\ lookup[t].at = "answered" /\ told \subseteq lookup[t].missing
    /\ cached' = FoldLeft(LAMBDA entries, user : Put(entries, user, lookup[t].got), cached, SetToSeq(told))
    /\ lookup' = [lookup EXCEPT ![t].at = "returns", ![t].missing = {},
                                ![t].found = [u \in UserIds |-> IF u \in told THEN lookup[t].got ELSE @[u]]]
    /\ UNCHANGED hour
Returns(t) ==
    /\ lookup[t].at = "returns" /\ lookup' = [lookup EXCEPT ![t] = NoLookup]
    /\ UNCHANGED <<cached, hour>>

\* The timeouts of the requests end a lookup that takes too long.
HourPasses ==
    /\ hour < MaxHours /\ hour' = hour + 1
    /\ \A t \in Lookers : lookup[t].at # "idle" => hour < lookup[t].since + Patience
    /\ UNCHANGED <<cached, lookup>>

LookupInit == cached = <<>> /\ lookup = [t \in Lookers |-> NoLookup] /\ hour = 0

LookupNext ==
    \/ \E t \in Lookers :
          \/ \E users \in SUBSET UserIds : Ask(t, users) \/ Stores(t, users)
          \/ RobloxAnswers(t) \/ RobloxFails(t) \/ GivesUpAsking(t) \/ Returns(t)
    \/ HourPasses

(***************************************************************************)
(* Properties.                                                             *)
(***************************************************************************)

LookupTypeOK ==
    /\ \A i \in DOMAIN cached : cached[i].user \in UserIds
    /\ \A t \in Lookers : /\ lookup[t].at \in {"idle", "asks", "answered", "returns"}
                          /\ lookup[t].attempt \in 0..RetryAttempts

\* The cache has one answer for a user, and no more answers than it may.
CacheIsSmall ==
    /\ Len(cached) <= MaxCached
    /\ \A i, j \in DOMAIN cached : i # j => cached[i].user # cached[j].user

\* What a call returns was so no longer ago than an answer is kept and two lookups take, the one that
\* fetched it and the one that returns it, however calls overlap.
AnswersAreFresh ==
    \A t \in Lookers : lookup[t].at = "returns" =>
        \A u \in Answers(t) : hour - lookup[t].found[u] <= Ttl + 2 * Patience

LookupsAreRight == CacheIsSmall /\ AnswersAreFresh
=============================================================================
