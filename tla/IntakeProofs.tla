------------------------------ MODULE IntakeProofs ------------------------------
(***************************************************************************)
(* What the program takes in, for any number of calls, lines, scans and    *)
(* records: what the public services of Roblox said is not shown for       *)
(* longer than it is good for, the label of an account follows the log of  *)
(* its client, and an import is whole, says what it did and takes back     *)
(* what an export gave.                                                    *)
(***************************************************************************)
EXTENDS MCRecords, FoldProofs

(***************************************************************************)
(* What the public services said.                                          *)
(***************************************************************************)

Entry == [user : UserIds, asOf : Int, until : Int]
\* One answer for a user, which is not kept for longer than it may be.
OneEach(entries) ==
    /\ entries \in Seq(Entry)
    /\ \A i, j \in DOMAIN entries : i # j => entries[i].user # entries[j].user
    /\ \A i \in DOMAIN entries : entries[i].until <= entries[i].asOf + Ttl + Patience
Caches == {entries \in Seq(Entry) : OneEach(entries) /\ Len(entries) <= MaxCached}

LookupRecord ==
    [at : {"idle", "asks", "answered", "returns"}, missing : SUBSET UserIds, attempt : 0..RetryAttempts,
     since : Nat, got : Int, found : [UserIds -> Int]]

\* A call ends in time, what Roblox answered was so after it began, and what it returns was kept no
\* longer than it may when it began.
LookupKnows(l) ==
    /\ l.at # "idle" => l.since <= hour /\ hour <= l.since + Patience
    /\ l.at = "answered" => l.since <= l.got
    /\ \A u \in UserIds : l.found[u] # Unknown => l.since <= l.found[u] + Ttl + Patience
LookupInv ==
    /\ hour \in Nat /\ cached \in Caches /\ lookup \in [Lookers -> LookupRecord]
    /\ \A t \in Lookers : LookupKnows(lookup[t])

LEMMA TakenOneEach ==
    ASSUME NEW entries, OneEach(entries), NEW S, S \subseteq DOMAIN entries
    PROVE  /\ OneEach(Taken(entries, S)) /\ Len(Taken(entries, S)) = Cardinality(S)
           /\ \A k \in DOMAIN Taken(entries, S) : \E i \in S : Taken(entries, S)[k] = entries[i]
<1>. PICK few : few = Taken(entries, S)
  OBVIOUS
<1>1. few \in Seq(Entry) /\ Len(few) = Cardinality(S) /\ TakenFrom(few, entries, S)
  BY TakenFits DEF OneEach
<1>2. PICK p : TakenBy(p, few, entries, S)
  BY <1>1 DEF TakenFrom
<1>3. \A k \in DOMAIN few : p[k] \in S /\ few[k] = entries[p[k]]
  BY <1>2 DEF TakenBy
<1>4. ASSUME NEW k \in DOMAIN few, NEW m \in DOMAIN few, k # m PROVE few[k].user # few[m].user
  <2>1. k \in Int /\ m \in Int
    BY <1>1
  <2>2. p[k] < p[m] \/ p[m] < p[k]
    BY <1>2, <1>4, <2>1 DEF TakenBy
  <2>3. p[k] \in Int /\ p[m] \in Int
    BY <1>3 DEF OneEach
  <2>. QED BY <1>3, <2>2, <2>3 DEF OneEach
<1>5. OneEach(few)
  BY <1>1, <1>3, <1>4 DEF OneEach
<1>. QED BY <1>1, <1>3, <1>5

LEMMA ShortOneEach ==
    ASSUME NEW entries, OneEach(entries)
    PROVE  Shortened(entries) \in Caches
<1>. USE LookupAssumption DEF LookupAssumption
<1>1. PICK n \in Nat : n = Len(entries) /\ DOMAIN entries = 1..n
  BY DEF OneEach
<1>2. CASE n <= MaxCached
  <2>1. ~ (n > MaxCached)
    BY <1>2
  <2>2. Shortened(entries) = entries
    BY <1>1, <2>1 DEF Shortened
  <2>. QED BY <1>1, <1>2, <2>2 DEF Caches, OneEach
<1>3. CASE n > MaxCached
  <2>. PICK rest : rest = SubSeq(entries, n - MaxCached + 1, n)
    OBVIOUS
  <2>1. Shortened(entries) = rest
    BY <1>1, <1>3 DEF Shortened
  <2>2. rest \in Seq(Entry) /\ Len(rest) = MaxCached
    BY <1>1, <1>3 DEF OneEach
  <2>3. \A k \in 1..MaxCached : rest[k] = entries[n - MaxCached + k] /\ n - MaxCached + k \in 1..n
    BY <1>1, <1>3 DEF OneEach
  <2>4. DOMAIN rest = 1..MaxCached
    BY <2>2
  <2>5. OneEach(rest)
    <3>1. \A i, j \in 1..MaxCached : i # j => n - MaxCached + i # n - MaxCached + j
      BY <1>1
    <3>2. ASSUME NEW i \in 1..MaxCached, NEW j \in 1..MaxCached, i # j PROVE rest[i].user # rest[j].user
      <4>1. /\ n - MaxCached + i \in 1..n /\ n - MaxCached + j \in 1..n
            /\ n - MaxCached + i # n - MaxCached + j
        BY <2>3, <3>1, <3>2
      <4>2. entries[n - MaxCached + i].user # entries[n - MaxCached + j].user
        BY <1>1, <4>1 DEF OneEach
      <4>. QED BY <2>3, <4>2
    <3>3. \A i \in 1..MaxCached : rest[i].until <= rest[i].asOf + Ttl + Patience
      BY <1>1, <2>3 DEF OneEach
    <3>. QED BY <2>2, <2>4, <3>2, <3>3 DEF OneEach
  <2>. QED BY <2>1, <2>2, <2>5 DEF Caches
<1>. QED BY <1>1, <1>2, <1>3

LEMMA PutFits ==
    ASSUME NEW entries \in Caches, NEW user \in UserIds, NEW asOf \in Int, hour \in Nat, hour <= asOf + Patience
    PROVE  Put(entries, user, asOf) \in Caches
<1>. USE LookupAssumption DEF LookupAssumption
<1>. DEFINE S == {i \in DOMAIN entries : entries[i].user # user}
            new == [user |-> user, asOf |-> asOf, until |-> hour + Ttl]
<1>1. new \in Entry /\ new.user = user /\ new.until <= new.asOf + Ttl + Patience
  BY DEF Entry
<1>. PICK others : others = Taken(entries, S)
  OBVIOUS
<1>2. /\ OneEach(others)
      /\ \A k \in DOMAIN others : \E i \in S : others[k] = entries[i]
  <2>. HIDE DEF S
  <2>1. S \subseteq DOMAIN entries
    BY DEF S
  <2>. QED BY <2>1, TakenOneEach DEF Caches
<1>3. \A k \in DOMAIN others : others[k].user # user
  BY <1>2
<1>4. Put(entries, user, asOf) = Shortened(Append(others, new))
  BY DEF Put
<1>. PICK longer : longer = Append(others, new)
  OBVIOUS
<1>. HIDE DEF S, new
<1>5. PICK n \in Nat : n = Len(others) /\ DOMAIN others = 1..n
  BY <1>2 DEF OneEach
<1>6. longer \in Seq(Entry) /\ DOMAIN longer = 1..(n + 1) /\ longer[n + 1] = new
  BY <1>1, <1>2, <1>5 DEF OneEach
<1>7. \A k \in 1..n : longer[k] = others[k]
  BY <1>1, <1>2, <1>5 DEF OneEach
<1>8. \A k \in 1..(n + 1) : k = n + 1 \/ k \in 1..n
  OBVIOUS
<1>9. OneEach(longer)
  <2>1. ASSUME NEW i \in 1..(n + 1), NEW j \in 1..(n + 1), i # j PROVE longer[i].user # longer[j].user
    <3>1. CASE i = n + 1
      BY <1>1, <1>3, <1>5, <1>6, <1>7, <1>8, <2>1, <3>1
    <3>2. CASE i \in 1..n /\ j = n + 1
      BY <1>1, <1>3, <1>5, <1>6, <1>7, <3>2
    <3>3. CASE i \in 1..n /\ j \in 1..n
      BY <1>2, <1>5, <1>7, <2>1, <3>3 DEF OneEach
    <3>. QED BY <1>8, <3>1, <3>2, <3>3
  <2>2. ASSUME NEW i \in 1..(n + 1) PROVE longer[i].until <= longer[i].asOf + Ttl + Patience
    BY <1>1, <1>2, <1>5, <1>6, <1>7, <1>8 DEF OneEach
  <2>. QED BY <1>6, <2>1, <2>2 DEF OneEach
<1>. QED BY <1>4, <1>9, ShortOneEach

\* What Roblox told of is put into the cache, one user after the other.
AllPut(entries, ids, asOf) == FoldLeft(LAMBDA es, user : Put(es, user, asOf), entries, SetToSeq(ids))
LEMMA ToldFits ==
    ASSUME NEW entries \in Caches, NEW ids \in SUBSET UserIds, NEW asOf \in Int, hour \in Nat, hour <= asOf + Patience
    PROVE  AllPut(entries, ids, asOf) \in Caches
<1>. PICK s : s = SetToSeq(ids)
  OBVIOUS
<1>. DEFINE n == Len(s)
            Op == [p \in Caches \X (1..n) |-> Put(p[1], s[p[2]], asOf)]
            Is(f) == f = [t \in SUBSET DOMAIN s |->
                            IF t = {} THEN entries ELSE Put(f[t \ {Max(t)}], s[Max(t)], asOf)]
<1>1. s \in Seq(UserIds) /\ n \in Nat /\ DOMAIN s = 1..n
  <2>1. IsFiniteSet(ids)
    BY LookupAssumption, FS_Subset DEF LookupAssumption
  <2>2. s \in Seq(ids)
    BY <2>1, SetInLine
  <2>. QED BY <2>2
<1>2. Op \in [Caches \X (1..n) -> Caches]
  BY <1>1, PutFits
<1>3. \E f : Is(f)
  <2>. HIDE DEF Op
  <2>1. PICK f : IsLeftFold(f, n, Caches, entries, Op)
    BY <1>1, <1>2, LeftFoldIsThere
  <2>2. \A t \in SUBSET (1..n) : t # {} => Max(t) \in 1..n /\ f[t \ {Max(t)}] \in Caches
    BY <1>1, <2>1, GreatestIsThere DEF IsLeftFold
  <2>3. Is(f)
    BY <1>1, <2>1, <2>2 DEF Op, IsLeftFold
  <2>. QED BY <2>3
<1>. DEFINE it == CHOOSE f : Is(f)
<1>4. AllPut(entries, ids, asOf) = it[DOMAIN s]
  BY DEF AllPut, FoldLeft, MapThenFoldSet
<1>5. Is(it)
  BY <1>3
<1>. HIDE DEF it
<1>6. Leftward(it, n, Caches, entries, Op)
  BY <1>1, <1>5, GreatestIsThere DEF Leftward
<1>. HIDE DEF Op
<1>7. PICK g : Rightward(g, it, n, Caches, entries, Op)
  BY <1>1, <1>2, <1>6, LeftToRight
<1>8. g[n] \in Caches /\ g[n] = it[DOMAIN s]
  BY <1>1, <1>7 DEF Rightward
<1>. QED BY <1>4, <1>8

\* get keeps each answer at most once.
LEMMA TouchedFits ==
    ASSUME cached \in Caches, NEW users \in SUBSET UserIds
    PROVE  Touched(users) \in Caches
<1>. DEFINE others == {i \in DOMAIN cached : cached[i].user \notin users}
            read == {i \in DOMAIN cached : cached[i].user \in users /\ Fresh(cached[i])}
<1>1. PICK n \in Nat : n = Len(cached) /\ DOMAIN cached = 1..n /\ n <= MaxCached
  BY DEF Caches, LookupAssumption
<1>2. OneEach(cached)
  BY DEF Caches
<1>3. PICK front : front = Taken(cached, others)
  OBVIOUS
<1>4. PICK back : back = Taken(cached, read)
  OBVIOUS
<1>5. Touched(users) = front \o back
  BY <1>3, <1>4 DEF Touched
<1>6. /\ others \subseteq 1..n /\ read \subseteq 1..n /\ others \cap read = {}
  BY <1>1
<1>7. \A i \in others : cached[i].user \notin users
  OBVIOUS
<1>8. \A i \in read : cached[i].user \in users
  OBVIOUS
<1>. HIDE DEF others, read
<1>9. /\ OneEach(front) /\ Len(front) = Cardinality(others)
      /\ \A k \in DOMAIN front : \E i \in others : front[k] = cached[i]
  <2>1. others \subseteq DOMAIN cached
    BY <1>1, <1>6
  <2>2. /\ OneEach(Taken(cached, others)) /\ Len(Taken(cached, others)) = Cardinality(others)
        /\ \A k \in DOMAIN Taken(cached, others) : \E i \in others : Taken(cached, others)[k] = cached[i]
    BY <1>2, <2>1, TakenOneEach
  <2>. QED BY <1>3, <2>2
<1>10. /\ OneEach(back) /\ Len(back) = Cardinality(read)
      /\ \A k \in DOMAIN back : \E i \in read : back[k] = cached[i]
  <2>1. read \subseteq DOMAIN cached
    BY <1>1, <1>6
  <2>2. /\ OneEach(Taken(cached, read)) /\ Len(Taken(cached, read)) = Cardinality(read)
        /\ \A k \in DOMAIN Taken(cached, read) : \E i \in read : Taken(cached, read)[k] = cached[i]
    BY <1>2, <2>1, TakenOneEach
  <2>. QED BY <1>4, <2>2
<1>11. Len(front) + Len(back) <= n
  <2>1. IsFiniteSet(1..n) /\ Cardinality(1..n) = n
    BY <1>1, UpTo
  <2>2. IsFiniteSet(others) /\ IsFiniteSet(read)
    BY <1>6, <2>1, FS_Subset
  <2>3. Cardinality(others \cup read) = Cardinality(others) + Cardinality(read)
    <3>1. Cardinality(others \cup read) = Cardinality(others) + Cardinality(read) - Cardinality(others \cap read)
      BY <2>2, FS_Union
    <3>2. Cardinality(others \cap read) = 0
      BY <1>6, FS_EmptySet
    <3>3. Cardinality(others) \in Nat /\ Cardinality(read) \in Nat
      BY <2>2, FS_CardinalityType
    <3>. QED BY <3>1, <3>2, <3>3
  <2>4. Cardinality(others \cup read) <= Cardinality(1..n)
    <3>1. others \cup read \subseteq 1..n
      BY <1>6
    <3>. QED BY <2>1, <3>1, FS_Subset
  <2>. QED BY <1>9, <1>10, <2>1, <2>3, <2>4
<1>12. PICK f \in Nat : f = Len(front) /\ DOMAIN front = 1..f
  BY <1>9 DEF OneEach
<1>13. PICK b \in Nat : b = Len(back) /\ DOMAIN back = 1..b
  BY <1>10 DEF OneEach
<1>14. PICK all : all = front \o back
  OBVIOUS
<1>15. /\ all \in Seq(Entry) /\ DOMAIN all = 1..(f + b) /\ Len(all) = f + b
  <2>1. front \in Seq(Entry) /\ back \in Seq(Entry)
    BY <1>9, <1>10 DEF OneEach
  <2>2. all \in Seq(Entry) /\ Len(all) = Len(front) + Len(back)
    BY <1>14, <2>1
  <2>3. Len(all) = f + b
    BY <1>12, <1>13, <2>2
  <2>. QED BY <2>2, <2>3
<1>16. \A k \in 1..f : all[k] = front[k]
  BY <1>9, <1>10, <1>12, <1>13, <1>14 DEF OneEach
<1>17. \A k \in 1..(f + b) : k \in 1..f \/ (k - f \in 1..b /\ all[k] = back[k - f])
  BY <1>9, <1>10, <1>12, <1>13, <1>14 DEF OneEach
<1>18. \A k \in 1..f : front[k].user \notin users
  BY <1>7, <1>9, <1>12
<1>19. \A k \in 1..b : back[k].user \in users
  BY <1>8, <1>10, <1>13
<1>20. ASSUME NEW i \in 1..(f + b), NEW j \in 1..(f + b), i # j PROVE all[i].user # all[j].user
  <2>1. CASE i \in 1..f /\ j \in 1..f
    BY <1>9, <1>12, <1>16, <1>20, <2>1 DEF OneEach
  <2>2. CASE i \in 1..f /\ j \notin 1..f
    BY <1>16, <1>17, <1>18, <1>19, <2>2
  <2>3. CASE i \notin 1..f /\ j \in 1..f
    BY <1>16, <1>17, <1>18, <1>19, <2>3
  <2>4. CASE i \notin 1..f /\ j \notin 1..f
    <3>1. i - f # j - f /\ i - f \in 1..b /\ j - f \in 1..b
      BY <1>17, <1>20, <2>4
    <3>2. back[i - f].user # back[j - f].user
      BY <1>10, <1>13, <3>1 DEF OneEach
    <3>. QED BY <1>17, <2>4, <3>2
  <2>. QED BY <2>1, <2>2, <2>3, <2>4
<1>21. ASSUME NEW i \in 1..(f + b) PROVE all[i].until <= all[i].asOf + Ttl + Patience
  <2>1. CASE i \in 1..f
    BY <1>9, <1>12, <1>16, <2>1 DEF OneEach
  <2>2. CASE i \notin 1..f
    BY <1>10, <1>13, <1>17, <2>2 DEF OneEach
  <2>. QED BY <2>1, <2>2
<1>22. OneEach(all)
  BY <1>15, <1>20, <1>21 DEF OneEach
<1>23. f + b <= MaxCached
  BY <1>1, <1>11, <1>12, <1>13, LookupAssumption DEF LookupAssumption
<1>. QED BY <1>5, <1>15, <1>22, <1>23, <1>14 DEF Caches

\* What the cache says of a user is one of its entries.
LEMMA CachedIsThere ==
    ASSUME cached \in Caches, NEW user \in UserIds, IsCached(user)
    PROVE  \E i \in DOMAIN cached : EntriesOf(user)[1] = cached[i] /\ Fresh(cached[i])
<1>. DEFINE S == {i \in DOMAIN cached : cached[i].user = user}
<1>1. PICK few : few = EntriesOf(user)
  OBVIOUS
<1>2. few = Taken(cached, S) /\ few # <<>> /\ Fresh(few[1])
  BY <1>1 DEF EntriesOf, IsCached
<1>3. OneEach(cached) /\ S \subseteq DOMAIN cached
  BY DEF Caches
<1>. HIDE DEF S
<1>4. OneEach(few) /\ \A k \in DOMAIN few : \E i \in S : few[k] = cached[i]
  BY <1>2, <1>3, TakenOneEach
<1>5. 1 \in DOMAIN few
  BY <1>2, <1>4 DEF OneEach
<1>. QED BY <1>1, <1>2, <1>3, <1>4, <1>5

LEMMA LookupBegins == LookupInit => LookupInv
<1>. SUFFICES ASSUME LookupInit PROVE LookupInv
  OBVIOUS
<1>. USE LookupAssumption DEF LookupAssumption, LookupInit
<1>1. <<>> \in Caches
  BY DEF Caches, OneEach
<1>2. NoLookup \in LookupRecord
  BY DEF NoLookup, LookupRecord, Unknown
<1>3. LookupKnows(NoLookup)
  BY DEF NoLookup, LookupKnows
<1>. QED BY <1>1, <1>2, <1>3 DEF LookupInv

LEMMA LookupStep == LookupInv /\ [LookupNext]_lookupVars => LookupInv'
<1>. SUFFICES ASSUME LookupInv, [LookupNext]_lookupVars PROVE LookupInv'
  OBVIOUS
<1>. USE LookupAssumption DEF LookupAssumption
<1>1. /\ hour \in Nat /\ cached \in Caches /\ lookup \in [Lookers -> LookupRecord]
      /\ \A t \in Lookers : lookup[t] \in LookupRecord /\ LookupKnows(lookup[t])
  BY DEF LookupInv
<1>2. NoLookup \in LookupRecord /\ NoLookup.at = "idle" /\ LookupKnows(NoLookup)
  BY DEF NoLookup, LookupRecord, LookupKnows, Unknown
\* A step of one call.
<1>3. ASSUME NEW t \in Lookers, NEW l \in LookupRecord, LookupKnows(l), lookup' = [lookup EXCEPT ![t] = l],
             cached' \in Caches, hour' = hour
      PROVE  LookupInv'
  <2>1. \A u \in Lookers : lookup'[u] = IF u = t THEN l ELSE lookup[u]
    BY <1>1, <1>3
  <2>2. lookup' \in [Lookers -> LookupRecord]
    BY <1>1, <1>3
  <2>3. ASSUME NEW u \in Lookers PROVE LookupKnows(lookup[u])'
    BY <1>1, <1>3, <2>1 DEF LookupKnows
  <2>. QED BY <1>1, <1>3, <2>2, <2>3 DEF LookupInv
<1>4. ASSUME NEW t \in Lookers, NEW users \in SUBSET UserIds, Ask(t, users) PROVE LookupInv'
  <2>1. PICK cachedOnes : cachedOnes = {u \in users : IsCached(u)}
    OBVIOUS
  <2>2. PICK those : those = [u \in UserIds |-> IF u \in cachedOnes THEN EntriesOf(u)[1].asOf ELSE Unknown]
    OBVIOUS
  <2>3. \A u \in cachedOnes : EntriesOf(u)[1].asOf \in Int /\ hour <= EntriesOf(u)[1].asOf + Ttl + Patience
    <3>1. TAKE u \in cachedOnes
    <3>2. PICK i \in DOMAIN cached : EntriesOf(u)[1] = cached[i] /\ Fresh(cached[i])
      BY <1>1, <2>1, CachedIsThere
    <3>3. cached[i] \in Entry /\ cached[i].until <= cached[i].asOf + Ttl + Patience
      BY <1>1 DEF Caches, OneEach
    <3>. QED BY <1>1, <3>2, <3>3 DEF Fresh, Entry
  <2>4. those \in [UserIds -> Int]
    BY <2>2, <2>3 DEF Unknown
  <2>5. PICK l : l = [NoLookup EXCEPT !.at = IF cachedOnes = users THEN "returns" ELSE "asks", !.missing = users \ cachedOnes,
                                      !.since = hour, !.found = those]
    OBVIOUS
  <2>6. lookup' = [lookup EXCEPT ![t] = l] /\ cached' = Touched(users) /\ hour' = hour
    BY <1>4, <2>1, <2>2, <2>5 DEF Ask
  <2>7. l \in LookupRecord /\ l.since = hour /\ l.found = those /\ l.at # "answered"
    BY <1>1, <1>2, <2>4, <2>5 DEF LookupRecord
  <2>8. LookupKnows(l)
    BY <1>1, <2>2, <2>3, <2>7 DEF LookupKnows
  <2>9. cached' \in Caches
    BY <1>1, <2>6, TouchedFits
  <2>. QED BY <1>3, <2>6, <2>7, <2>8, <2>9
<1>5. ASSUME NEW t \in Lookers, RobloxAnswers(t) PROVE LookupInv'
  <2>1. PICK l : l = [lookup[t] EXCEPT !.at = "answered", !.got = hour]
    OBVIOUS
  <2>2. lookup' = [lookup EXCEPT ![t] = l] /\ cached' = cached /\ hour' = hour /\ lookup[t].at = "asks"
    BY <1>1, <1>5, <2>1 DEF RobloxAnswers
  <2>3. l \in LookupRecord /\ l.since = lookup[t].since /\ l.found = lookup[t].found /\ l.got = hour
    <3>1. PICK r \in LookupRecord : r = lookup[t]
      BY <1>1
    <3>2. PICK m : m = [r EXCEPT !.at = "answered"]
      OBVIOUS
    <3>3. m \in LookupRecord /\ m.since = r.since /\ m.found = r.found
      BY <3>1, <3>2 DEF LookupRecord
    <3>4. l = [m EXCEPT !.got = hour]
      BY <2>1, <3>1, <3>2 DEF LookupRecord
    <3>. QED BY <1>1, <3>1, <3>3, <3>4 DEF LookupRecord
  <2>4. LookupKnows(l)
    BY <1>1, <2>2, <2>3 DEF LookupKnows
  <2>. QED BY <1>1, <1>3, <2>2, <2>3, <2>4
<1>6. ASSUME NEW t \in Lookers, RobloxFails(t) PROVE LookupInv'
  <2>1. PICK l : l = [lookup[t] EXCEPT !.at = "asks", !.attempt = @ + 1]
    OBVIOUS
  <2>2. /\ lookup' = [lookup EXCEPT ![t] = l] /\ cached' = cached /\ hour' = hour
        /\ lookup[t].at = "asks" /\ lookup[t].attempt < RetryAttempts
    BY <1>1, <1>6, <2>1 DEF RobloxFails, MayRepeat
  <2>3. /\ l \in LookupRecord /\ l.since = lookup[t].since /\ l.found = lookup[t].found /\ l.at = "asks"
    <3>1. PICK r \in LookupRecord : r = lookup[t]
      BY <1>1
    <3>2. r.attempt + 1 \in 0..RetryAttempts
      BY <2>2, <3>1 DEF LookupRecord
    <3>. QED BY <2>1, <3>1, <3>2 DEF LookupRecord
  <2>4. LookupKnows(l)
    BY <1>1, <2>2, <2>3 DEF LookupKnows
  <2>. QED BY <1>1, <1>3, <2>2, <2>3, <2>4
<1>7. ASSUME NEW t \in Lookers, GivesUpAsking(t) \/ Returns(t) PROVE LookupInv'
  <2>1. lookup' = [lookup EXCEPT ![t] = NoLookup] /\ cached' = cached /\ hour' = hour
    BY <1>7 DEF GivesUpAsking, Returns
  <2>. QED BY <1>1, <1>2, <1>3, <2>1
<1>8. ASSUME NEW t \in Lookers, NEW users \in SUBSET UserIds, Stores(t, users) PROVE LookupInv'
  <2>1. PICK got : got = lookup[t].got
    OBVIOUS
  <2>2. PICK those : those = [u \in UserIds |-> IF u \in users THEN got ELSE lookup[t].found[u]]
    OBVIOUS
  <2>3. PICK l : l = [lookup[t] EXCEPT !.at = "returns", !.missing = {}, !.found = those]
    OBVIOUS
  <2>4. /\ lookup' = [lookup EXCEPT ![t] = l] /\ hour' = hour /\ lookup[t].at = "answered"
        /\ cached' = AllPut(cached, users, lookup[t].got)
    <3>1. /\ lookup' = [lookup EXCEPT ![t].at = "returns", ![t].missing = {},
                                      ![t].found = [u \in UserIds |-> IF u \in users THEN lookup[t].got ELSE @[u]]]
          /\ hour' = hour /\ lookup[t].at = "answered"
      BY <1>8 DEF Stores
    <3>2. cached' = AllPut(cached, users, lookup[t].got)
      BY <1>8 DEF Stores, AllPut
    <3>3. lookup' = [lookup EXCEPT ![t] = l]
      <4>1. PICK r \in LookupRecord : r = lookup[t]
        BY <1>1
      <4>2. those = [u \in UserIds |-> IF u \in users THEN lookup[t].got ELSE lookup[t].found[u]]
        BY <2>1, <2>2
      <4>. QED BY <1>1, <2>3, <3>1, <4>1, <4>2 DEF LookupRecord
    <3>. QED BY <3>1, <3>2, <3>3
  <2>5. /\ got \in Int /\ lookup[t].since \in Nat /\ lookup[t].since <= got /\ hour <= lookup[t].since + Patience
        /\ lookup[t].found \in [UserIds -> Int]
        /\ \A u \in UserIds : lookup[t].found[u] # Unknown => lookup[t].since <= lookup[t].found[u] + Ttl + Patience
    BY <1>1, <2>1, <2>4 DEF LookupRecord, LookupKnows
  <2>6. those \in [UserIds -> Int] /\ \A u \in UserIds : those[u] = got \/ those[u] = lookup[t].found[u]
    BY <2>2, <2>5
  <2>7. l \in LookupRecord /\ l.since = lookup[t].since /\ l.found = those /\ l.at = "returns"
    BY <1>1, <2>3, <2>6 DEF LookupRecord
  <2>8. LookupKnows(l)
    <3>1. lookup[t].since <= hour /\ hour <= lookup[t].since + Patience
      BY <1>1, <2>4 DEF LookupKnows
    <3>2. \A u \in UserIds : those[u] # Unknown => lookup[t].since <= those[u] + Ttl + Patience
      BY <2>5, <2>6
    <3>. QED BY <2>7, <3>1, <3>2 DEF LookupKnows
  <2>9. cached' \in Caches
    <3>1. hour <= got + Patience
      BY <1>1, <2>5
    <3>. QED BY <1>1, <2>1, <2>4, <2>5, <3>1, ToldFits
  <2>. QED BY <1>3, <2>4, <2>7, <2>8, <2>9
<1>9. ASSUME HourPasses PROVE LookupInv'
  <2>1. hour' = hour + 1 /\ lookup' = lookup /\ cached' = cached
    BY <1>9 DEF HourPasses
  <2>2. ASSUME NEW t \in Lookers PROVE LookupKnows(lookup[t])'
    <3>1. lookup[t] \in LookupRecord /\ LookupKnows(lookup[t])
      BY <1>1
    <3>2. lookup[t].at # "idle" => hour < lookup[t].since + Patience
      BY <1>9 DEF HourPasses
    <3>. QED BY <1>1, <2>1, <3>1, <3>2 DEF LookupKnows, LookupRecord
  <2>. QED BY <1>1, <2>1, <2>2 DEF LookupInv
<1>10. CASE UNCHANGED lookupVars
  BY <1>1, <1>10 DEF LookupInv, LookupKnows, lookupVars
<1>. QED BY <1>4, <1>5, <1>6, <1>7, <1>8, <1>9, <1>10 DEF LookupNext

LEMMA LookupsFit == LookupInv => LookupTypeOK /\ LookupsAreRight
<1>. SUFFICES ASSUME LookupInv PROVE LookupTypeOK /\ LookupsAreRight
  OBVIOUS
<1>. USE LookupAssumption DEF LookupAssumption
<1>1. LookupTypeOK
  <2>1. \A i \in DOMAIN cached : cached[i] \in Entry
    BY DEF LookupInv, Caches
  <2>2. \A t \in Lookers : lookup[t] \in LookupRecord
    BY DEF LookupInv
  <2>. QED BY <2>1, <2>2 DEF LookupTypeOK, LookupRecord, Entry
<1>2. CacheIsSmall
  BY DEF LookupInv, CacheIsSmall, Caches, OneEach
<1>3. ASSUME NEW t \in Lookers, lookup[t].at = "returns", NEW u \in Answers(t)
      PROVE  hour - lookup[t].found[u] <= Ttl + 2 * Patience
  <2>1. u \in UserIds /\ lookup[t].found[u] # Unknown
    BY <1>3 DEF Answers
  <2>2. hour \in Nat /\ lookup[t] \in LookupRecord /\ LookupKnows(lookup[t])
    BY DEF LookupInv
  <2>3. /\ lookup[t].since \in Nat /\ lookup[t].found[u] \in Int
        /\ hour <= lookup[t].since + Patience /\ lookup[t].since <= lookup[t].found[u] + Ttl + Patience
    BY <1>3, <2>1, <2>2 DEF LookupRecord, LookupKnows
  <2>. QED BY <2>2, <2>3
<1>. QED BY <1>1, <1>2, <1>3 DEF AnswersAreFresh, LookupsAreRight

(***************************************************************************)
(* The log of a client.                                                    *)
(***************************************************************************)

Tails == [file : 0..MaxFiles, offset : Nat, model : BOOLEAN, paused : BOOLEAN, stopped : BOOLEAN]
\* What a line may tell of.
LineEvents == {"join", "disconnect", "start", "pause", "stop", "return"}
EventKinds == LineEvents \union {"rotated", "events_dropped"}
NoEvent == "none"

\* The event of a line, and what the tailer knows after it.
Emits(m, k) ==
    CASE k \in {"join", "disconnect", "start"} \/ (k = "pause" /\ m.model) -> k
      [] (k = "leave" /\ m.model) \/ (k = "stop" /\ m.paused) -> "stop"
      [] k = "return" /\ (m.paused \/ m.stopped) -> "return"
      [] OTHER -> NoEvent
MovesTo(m, k) ==
    CASE k = "start" -> [m EXCEPT !.model = TRUE, !.paused = FALSE, !.stopped = FALSE]
      [] k = "pause" /\ m.model -> [m EXCEPT !.paused = TRUE]
      [] (k = "leave" /\ m.model) \/ (k = "stop" /\ m.paused) -> [m EXCEPT !.stopped = TRUE]
      [] k = "return" /\ (m.paused \/ m.stopped) -> [m EXCEPT !.model = FALSE, !.paused = FALSE, !.stopped = FALSE]
      [] OTHER -> m
\* Two tailers know the same of the data model.
Alike(m, n) == m.model = n.model /\ m.paused = n.paused /\ m.stopped = n.stopped

LEMMA LineIsConsumed ==
    ASSUME NEW m \in Tails, NEW events, NEW k \in LineKinds
    PROVE  /\ Consume([tail |-> m, events |-> events], k) =
                  [tail |-> MovesTo(m, k), events |-> IF Emits(m, k) = NoEvent THEN events ELSE Adds(events, Emits(m, k))]
           /\ Emits(m, k) \in LineEvents \union {NoEvent}
           /\ MovesTo(m, k) \in Tails /\ MovesTo(m, k).file = m.file /\ MovesTo(m, k).offset = m.offset
           /\ k \in {"join", "disconnect"} => Emits(m, k) # NoEvent
<1>. PICK s : s = [tail |-> m, events |-> events]
  OBVIOUS
<1>0. s.tail = m /\ s.events = events /\ s = [tail |-> m, events |-> events]
  OBVIOUS
<1>1. CASE k \in {"join", "disconnect"}
  BY <1>0, <1>1 DEF Consume, Emits, MovesTo, Follows, LineEvents, NoEvent
<1>2. CASE k = "start"
  <2>1. MovesTo(m, k) \in Tails /\ MovesTo(m, k).file = m.file /\ MovesTo(m, k).offset = m.offset
    BY <1>2 DEF MovesTo, Tails
  <2>. QED BY <1>0, <1>2, <2>1 DEF Consume, Emits, MovesTo, Follows, LineEvents, NoEvent
<1>3. CASE k = "pause" /\ m.model
  <2>1. MovesTo(m, k) = [m EXCEPT !.paused = TRUE] /\ MovesTo(m, k) \in Tails
    BY <1>3 DEF MovesTo, Tails
  <2>2. MovesTo(m, k).file = m.file /\ MovesTo(m, k).offset = m.offset
    BY <2>1 DEF Tails
  <2>3. Emits(m, k) = "pause"
    BY <1>3 DEF Emits
  <2>4. Consume(s, k) = [tail |-> [m EXCEPT !.paused = TRUE], events |-> Adds(events, "pause")]
    BY <1>0, <1>3 DEF Consume, Follows
  <2>. QED BY <1>0, <1>3, <2>1, <2>2, <2>3, <2>4 DEF LineEvents, NoEvent
<1>4. CASE (k = "leave" /\ m.model) \/ (k = "stop" /\ m.paused)
  <2>1. MovesTo(m, k) = [m EXCEPT !.stopped = TRUE] /\ MovesTo(m, k) \in Tails
    BY <1>4 DEF MovesTo, Tails
  <2>2. MovesTo(m, k).file = m.file /\ MovesTo(m, k).offset = m.offset
    BY <2>1 DEF Tails
  <2>3. Emits(m, k) = "stop"
    BY <1>4 DEF Emits
  <2>4. Consume(s, k) = [tail |-> [m EXCEPT !.stopped = TRUE], events |-> Adds(events, "stop")]
    BY <1>0, <1>4 DEF Consume, Follows
  <2>. QED BY <1>0, <1>4, <2>1, <2>2, <2>3, <2>4 DEF LineEvents, NoEvent
<1>5. CASE k = "return" /\ (m.paused \/ m.stopped)
  <2>1. /\ MovesTo(m, k) = [m EXCEPT !.model = FALSE, !.paused = FALSE, !.stopped = FALSE] /\ MovesTo(m, k) \in Tails
    BY <1>5 DEF MovesTo, Tails
  <2>2. MovesTo(m, k).file = m.file /\ MovesTo(m, k).offset = m.offset
    BY <2>1 DEF Tails
  <2>3. Emits(m, k) = "return"
    BY <1>5 DEF Emits
  <2>4. Consume(s, k) = [tail |-> [m EXCEPT !.model = FALSE, !.paused = FALSE, !.stopped = FALSE],
                         events |-> Adds(events, "return")]
    BY <1>0, <1>5 DEF Consume, Follows
  <2>. QED BY <1>0, <1>5, <2>1, <2>2, <2>3, <2>4 DEF LineEvents, NoEvent
<1>6. CASE /\ k \notin {"join", "disconnect", "start"} /\ ~ (k = "pause" /\ m.model)
           /\ ~ ((k = "leave" /\ m.model) \/ (k = "stop" /\ m.paused)) /\ ~ (k = "return" /\ (m.paused \/ m.stopped))
  <2>1. Emits(m, k) = NoEvent /\ MovesTo(m, k) = m
    BY <1>6 DEF Emits, MovesTo
  <2>2. Consume(s, k) = s
    BY <1>0, <1>6 DEF Consume
  <2>. QED BY <1>0, <1>6, <2>1, <2>2
<1>. QED BY <1>1, <1>2, <1>3, <1>4, <1>5, <1>6

LEMMA AlikeMoves ==
    ASSUME NEW m \in Tails, NEW n \in Tails, Alike(m, n), NEW k \in LineKinds
    PROVE  Alike(MovesTo(m, k), MovesTo(n, k)) /\ Emits(m, k) = Emits(n, k)
<1>1. Emits(m, k) = Emits(n, k)
  BY DEF Alike, Emits
<1>2. Alike(MovesTo(m, k), MovesTo(n, k))
  BY DEF Alike, MovesTo, Tails
<1>. QED BY <1>1, <1>2

\* Verdict, one line after the other: what the tailer would know, and the last event that tells
\* whether the client plays.
Telling == Up \cup Down
HearStates == [tail : Tails, last : Telling \union {NoEvent}]
NoneHeard == [tail |-> NoTail, last |-> NoEvent]
HearLine(v, k) ==
    LET next == Consume([tail |-> v.tail, events |-> <<>>], k)
        tells == next.events # <<>> /\ next.events[1] \in Up \cup Down
    IN  [tail |-> next.tail, last |-> IF tells THEN next.events[1] ELSE v.last]
Hears(v, k) ==
    [tail |-> MovesTo(v.tail, k), last |-> IF Emits(v.tail, k) \in Telling THEN Emits(v.tail, k) ELSE v.last]
HeardBy(g, ls) ==
    /\ g \in [0..Len(ls) -> HearStates] /\ g[0] = NoneHeard
    /\ \A k \in 0..(Len(ls) - 1) : g[k + 1] = Hears(g[k], ls[k + 1])

LEMMA NoTailIs ==
    NoTail \in Tails /\ ([NoTail EXCEPT !.file = file] \in Tails <=> file \in 0..MaxFiles) /\ NoneHeard \in HearStates
<1>1. NoTail \in Tails
  BY LogAssumption DEF LogAssumption, NoTail, Tails
<1>2. [NoTail EXCEPT !.file = file] \in Tails <=> file \in 0..MaxFiles
  BY DEF NoTail, Tails
<1>. QED BY <1>1, <1>2 DEF NoneHeard, HearStates

LEMMA LineIsHeard ==
    ASSUME NEW v \in HearStates, NEW k \in LineKinds
    PROVE  HearLine(v, k) = Hears(v, k) /\ Hears(v, k) \in HearStates
<1>. USE LogAssumption DEF LogAssumption
<1>1. PICK m \in Tails : m = v.tail
  BY DEF HearStates
<1>2. PICK e : e = Emits(m, k)
  OBVIOUS
<1>3. /\ Consume([tail |-> m, events |-> <<>>], k) =
             [tail |-> MovesTo(m, k), events |-> IF e = NoEvent THEN <<>> ELSE Adds(<<>>, e)]
      /\ e \in LineEvents \union {NoEvent} /\ MovesTo(m, k) \in Tails
  BY <1>2, LineIsConsumed
<1>4. Adds(<<>>, e) = <<e>>
  BY DEF Adds
<1>5. NoEvent \notin Telling
  BY DEF NoEvent, Telling, Up, Down
<1>6. Hears(v, k) = [tail |-> MovesTo(m, k), last |-> IF e \in Telling THEN e ELSE v.last]
  BY <1>1, <1>2 DEF Hears
<1>7. HearLine(v, k) = Hears(v, k)
  <2>1. CASE e = NoEvent
    BY <1>1, <1>3, <1>5, <1>6, <2>1 DEF HearLine
  <2>2. CASE e # NoEvent
    <3>1. <<e>> # <<>> /\ <<e>>[1] = e
      OBVIOUS
    <3>2. Consume([tail |-> m, events |-> <<>>], k) = [tail |-> MovesTo(m, k), events |-> <<e>>]
      BY <1>3, <1>4, <2>2
    <3>. QED BY <1>1, <1>6, <3>1, <3>2 DEF HearLine, Telling
  <2>. QED BY <2>1, <2>2
<1>8. Hears(v, k) \in HearStates
  BY <1>3, <1>6 DEF HearStates
<1>. QED BY <1>7, <1>8

LEMMA VerdictIs ==
    ASSUME lines \in Seq(LineKinds)
    PROVE  \E g : HeardBy(g, lines) /\ Verdict = g[Len(lines)].last
<1>. DEFINE n == Len(lines)
            Op == [p \in HearStates \X (1..n) |-> HearLine(p[1], lines[p[2]])]
            Is(f) == f = [t \in SUBSET DOMAIN lines |->
                            IF t = {} THEN NoneHeard ELSE HearLine(f[t \ {Max(t)}], lines[Max(t)])]
<1>1. n \in Nat /\ DOMAIN lines = 1..n /\ NoneHeard \in HearStates
  BY NoTailIs
<1>2. Op \in [HearStates \X (1..n) -> HearStates]
  BY <1>1, LineIsHeard
<1>3. \E f : Is(f)
  <2>. HIDE DEF Op
  <2>1. PICK f : IsLeftFold(f, n, HearStates, NoneHeard, Op)
    BY <1>1, <1>2, LeftFoldIsThere
  <2>2. \A t \in SUBSET (1..n) : t # {} => Max(t) \in 1..n /\ f[t \ {Max(t)}] \in HearStates
    BY <1>1, <2>1, GreatestIsThere DEF IsLeftFold
  <2>3. Is(f)
    BY <1>1, <2>1, <2>2 DEF Op, IsLeftFold
  <2>. QED BY <2>3
<1>. DEFINE it == CHOOSE f : Is(f)
<1>4. Verdict = it[DOMAIN lines].last
  BY DEF Verdict, FoldLeft, MapThenFoldSet, HearLine, NoneHeard, NoEvent
<1>5. Is(it)
  BY <1>3
<1>. HIDE DEF it
<1>6. Leftward(it, n, HearStates, NoneHeard, Op)
  BY <1>1, <1>5, GreatestIsThere DEF Leftward
<1>. HIDE DEF Op
<1>7. PICK g : Rightward(g, it, n, HearStates, NoneHeard, Op)
  BY <1>1, <1>2, <1>6, LeftToRight
<1>8. ASSUME NEW k \in 0..(n - 1)
      PROVE  g[k + 1] = Hears(g[k], lines[k + 1])
  <2>1. g[k + 1] = Op[<<g[k], k + 1>>] /\ g[k] \in HearStates /\ k + 1 \in 1..n
    BY <1>1, <1>7 DEF Rightward
  <2>2. lines[k + 1] \in LineKinds
    BY <1>1, <2>1
  <2>. QED BY <2>1, <2>2, LineIsHeard DEF Op
<1>9. HeardBy(g, lines)
  BY <1>7, <1>8 DEF Rightward, HeardBy
<1>. QED BY <1>1, <1>4, <1>7, <1>9 DEF Rightward

\* Whoever hears the same lines hears the same.
LEMMA HeardOnce ==
    ASSUME NEW ls \in Seq(LineKinds), NEW g, HeardBy(g, ls), NEW h, HeardBy(h, ls)
    PROVE  g[Len(ls)] = h[Len(ls)]
<1>1. PICK n \in Nat : n = Len(ls)
  OBVIOUS
<1>. DEFINE S == {k \in 0..n : g[k] = h[k]}
<1>2. S \subseteq 0..n /\ 0 \in S
  BY <1>1 DEF HeardBy
<1>3. \A k \in 0..(n - 1) : k \in S => k + 1 \in S
  BY <1>1 DEF HeardBy
<1>. HIDE DEF S
<1>4. S = 0..n
  BY <1>2, <1>3, StepByStep
<1>5. n \in S
  BY <1>4
<1>. QED BY <1>1, <1>5 DEF S

LEMMA OneMoreHeard ==
    ASSUME NEW ls \in Seq(LineKinds), NEW g, HeardBy(g, ls), NEW k \in LineKinds
    PROVE  \E h : HeardBy(h, Append(ls, k)) /\ \A i \in 0..Len(ls) : h[i] = g[i]
<1>1. PICK n \in Nat : n = Len(ls)
  OBVIOUS
<1>2. PICK more : more = Append(ls, k)
  OBVIOUS
<1>3. Len(more) = n + 1 /\ more[n + 1] = k /\ \A i \in 1..n : more[i] = ls[i]
  BY <1>1, <1>2
<1>4. g \in [0..n -> HearStates] /\ g[0] = NoneHeard /\ \A i \in 0..(n - 1) : g[i + 1] = Hears(g[i], ls[i + 1])
  BY <1>1 DEF HeardBy
<1>5. PICK h : h = [i \in 0..(n + 1) |-> IF i = n + 1 THEN Hears(g[n], k) ELSE g[i]]
  OBVIOUS
<1>6. Hears(g[n], k) \in HearStates
  BY <1>4, LineIsHeard
<1>7. h \in [0..(n + 1) -> HearStates]
  BY <1>4, <1>5, <1>6
<1>8. \A i \in 0..n : h[i] = g[i]
  BY <1>5
<1>9. ASSUME NEW i \in 0..n PROVE h[i + 1] = Hears(h[i], more[i + 1])
  <2>1. CASE i = n
    BY <1>3, <1>5, <1>8, <2>1
  <2>2. CASE i # n
    <3>1. i \in 0..(n - 1) /\ i + 1 \in 1..n /\ i + 1 \in 0..n
      BY <2>2
    <3>. QED BY <1>3, <1>4, <1>8, <3>1
  <2>. QED BY <2>1, <2>2
<1>10. HeardBy(h, more)
  <2>1. \A i \in 0..((n + 1) - 1) : h[i + 1] = Hears(h[i], more[i + 1])
    BY <1>9
  <2>2. h[0] = NoneHeard
    BY <1>4, <1>8
  <2>. QED BY <1>3, <1>7, <2>1, <2>2 DEF HeardBy
<1>. QED BY <1>1, <1>2, <1>8, <1>10

\* How far the log that is there has been read, and whether a line after that tells of a join or a
\* disconnect: then it does not matter yet what the label is.
ReadSoFar == IF tail.file = file THEN tail.offset ELSE 0
TellsSurely(i) == lines[i] \in {"join", "disconnect"}
FreshLine == \E i \in (ReadSoFar + 1)..Len(lines) : TellsSurely(i)

\* Of the events of a poll, those that tell, and the last of them.
ToldBy(es) == {i \in DOMAIN es : es[i] \in Telling}
LastTold(es, e) == \E i \in ToldBy(es) : es[i] = e /\ \A j \in ToldBy(es) : j <= i
\* Events were dropped: the list is at its limit, and says so.
Dropped(es) == Len(es) >= MaxEvents /\ \E i \in DOMAIN es : es[i] = "events_dropped"

LEMMA AddsKeep ==
    ASSUME NEW es \in Seq(EventKinds), NEW k \in LineEvents
    PROVE  Adds(es, k) \in Seq(EventKinds) /\ (Dropped(Adds(es, k)) \/ (~ Dropped(es) /\ Adds(es, k) = Append(es, k)))
<1>0. MaxEvents \in Nat \ {0} /\ k \in EventKinds /\ "events_dropped" \in EventKinds
  BY LogAssumption DEF LogAssumption, EventKinds
<1>1. PICK n \in Nat : n = Len(es)
  OBVIOUS
<1>2. CASE n < MaxEvents
  <2>1. Adds(es, k) = Append(es, k)
    BY <1>1, <1>2 DEF Adds
  <2>2. ~ (n >= MaxEvents)
    BY <1>0, <1>2
  <2>. QED BY <1>0, <1>1, <2>1, <2>2 DEF Dropped
<1>3. CASE ~ (n < MaxEvents) /\ Contains(es, "events_dropped")
  <2>1. Adds(es, k) = es
    BY <1>1, <1>3 DEF Adds
  <2>2. \E i \in DOMAIN es : es[i] = "events_dropped"
    BY <1>3 DEF Contains
  <2>3. n >= MaxEvents
    BY <1>0, <1>3
  <2>. QED BY <1>1, <2>1, <2>2, <2>3 DEF Dropped
<1>4. CASE ~ (n < MaxEvents) /\ ~ Contains(es, "events_dropped")
  <2>0. n >= MaxEvents /\ n - 1 \in Nat
    BY <1>0, <1>4
  <2>1. Adds(es, k) = Append(Front(es), "events_dropped")
    BY <1>1, <1>4 DEF Adds
  <2>2. PICK m \in Nat : m = n - 1
    BY <2>0
  <2>3. \A i \in 1..m : i \in 1..n
    BY <2>2
  <2>4. PICK b \in Seq(EventKinds) : b = Front(es) /\ Len(b) = m
    <3>1. Front(es) = SubSeq(es, 1, m)
      BY <1>1, <2>2 DEF Front
    <3>2. SubSeq(es, 1, m) \in Seq(EventKinds) /\ Len(SubSeq(es, 1, m)) = m
      BY <1>1, <2>2, <2>3
    <3>. QED BY <3>1, <3>2
  <2>5. Append(b, "events_dropped") \in Seq(EventKinds) /\ Len(Append(b, "events_dropped")) = m + 1
    BY <1>0, <2>4
  <2>6. m + 1 \in DOMAIN Append(b, "events_dropped") /\ Append(b, "events_dropped")[m + 1] = "events_dropped"
    BY <1>0, <2>4, <2>5
  <2>7. m + 1 >= MaxEvents
    BY <2>0, <2>2
  <2>. QED BY <2>1, <2>4, <2>5, <2>6, <2>7 DEF Dropped
<1>. QED BY <1>2, <1>3, <1>4

\* A poll, one line after the other.
PollStates == [tail : Tails, events : Seq(EventKinds)]
AllConsumed(base, ls) == FoldLeft(Consume, base, ls)
ConsumedBy(s, base, ls) ==
    /\ s \in [0..Len(ls) -> PollStates] /\ s[0] = base
    /\ \A k \in 0..(Len(ls) - 1) : s[k + 1] = Consume(s[k], ls[k + 1])

LEMMA ConsumeFits ==
    ASSUME NEW s \in PollStates, NEW k \in LineKinds
    PROVE  Consume(s, k) \in PollStates
<1>1. PICK m \in Tails, es \in Seq(EventKinds) : s = [tail |-> m, events |-> es]
  BY DEF PollStates
<1>2. PICK e : e = Emits(m, k)
  OBVIOUS
<1>3. /\ Consume(s, k) = [tail |-> MovesTo(m, k), events |-> IF e = NoEvent THEN es ELSE Adds(es, e)]
      /\ e \in LineEvents \union {NoEvent} /\ MovesTo(m, k) \in Tails
  BY <1>1, <1>2, LineIsConsumed
<1>4. (IF e = NoEvent THEN es ELSE Adds(es, e)) \in Seq(EventKinds)
  BY <1>3, AddsKeep
<1>. QED BY <1>3, <1>4 DEF PollStates

LEMMA ConsumedInOrder ==
    ASSUME NEW base \in PollStates, NEW ls \in Seq(LineKinds)
    PROVE  \E s : ConsumedBy(s, base, ls) /\ AllConsumed(base, ls) = s[Len(ls)]
<1>. DEFINE n == Len(ls)
            Op == [p \in PollStates \X (1..n) |-> Consume(p[1], ls[p[2]])]
            Is(f) == f = [t \in SUBSET DOMAIN ls |->
                            IF t = {} THEN base ELSE Consume(f[t \ {Max(t)}], ls[Max(t)])]
<1>1. n \in Nat /\ DOMAIN ls = 1..n
  OBVIOUS
<1>2. Op \in [PollStates \X (1..n) -> PollStates]
  BY <1>1, ConsumeFits
<1>3. \E f : Is(f)
  <2>. HIDE DEF Op
  <2>1. PICK f : IsLeftFold(f, n, PollStates, base, Op)
    BY <1>1, <1>2, LeftFoldIsThere
  <2>2. \A t \in SUBSET (1..n) : t # {} => Max(t) \in 1..n /\ f[t \ {Max(t)}] \in PollStates
    BY <1>1, <2>1, GreatestIsThere DEF IsLeftFold
  <2>3. Is(f)
    BY <1>1, <2>1, <2>2 DEF Op, IsLeftFold
  <2>. QED BY <2>3
<1>. DEFINE it == CHOOSE f : Is(f)
<1>4. AllConsumed(base, ls) = it[DOMAIN ls]
  BY DEF AllConsumed, FoldLeft, MapThenFoldSet
<1>5. Is(it)
  BY <1>3
<1>. HIDE DEF it
<1>6. Leftward(it, n, PollStates, base, Op)
  BY <1>1, <1>5, GreatestIsThere DEF Leftward
<1>. HIDE DEF Op
<1>7. PICK g : Rightward(g, it, n, PollStates, base, Op)
  BY <1>1, <1>2, <1>6, LeftToRight
<1>8. ASSUME NEW k \in 0..(n - 1)
      PROVE  g[k + 1] = Consume(g[k], ls[k + 1])
  <2>1. g[k + 1] = Op[<<g[k], k + 1>>] /\ g[k] \in PollStates /\ k + 1 \in 1..n
    BY <1>1, <1>7 DEF Rightward
  <2>. QED BY <1>1, <2>1 DEF Op
<1>9. ConsumedBy(g, base, ls)
  BY <1>7, <1>8 DEF Rightward, ConsumedBy
<1>. QED BY <1>1, <1>4, <1>7, <1>9 DEF Rightward

\* What a poll that has read j lines after the first o says of the log.
PollSays(st, g, base, o, j) ==
    /\ Alike(st.tail, g[o + j].tail) /\ st.tail.file = base.tail.file /\ st.tail.offset = base.tail.offset
    /\ \/ Dropped(st.events)
       \/ ToldBy(st.events) = {} /\ g[o + j].last = g[o].last /\ \A i \in (o + 1)..(o + j) : ~ TellsSurely(i)
       \/ LastTold(st.events, g[o + j].last)

LEMMA AddedTells ==
    ASSUME NEW es \in Seq(EventKinds), NEW e \in LineEvents
    PROVE  /\ e \in Telling => LastTold(Append(es, e), e)
           /\ e \notin Telling => ToldBy(Append(es, e)) = ToldBy(es)
                                  /\ \A d : LastTold(es, d) => LastTold(Append(es, e), d)
<1>1. PICK n \in Nat : n = Len(es)
  OBVIOUS
<1>2. PICK more : more = Append(es, e)
  OBVIOUS
<1>3. DOMAIN es = 1..n /\ DOMAIN more = 1..(n + 1) /\ more[n + 1] = e /\ \A i \in 1..n : more[i] = es[i]
  BY <1>1, <1>2
<1>4. ASSUME e \in Telling PROVE LastTold(more, e)
  <2>1. n + 1 \in ToldBy(more) /\ \A j \in ToldBy(more) : j <= n + 1
    BY <1>3, <1>4 DEF ToldBy
  <2>. QED BY <1>3, <2>1 DEF LastTold
<1>5. ASSUME e \notin Telling PROVE ToldBy(more) = ToldBy(es)
  <2>1. \A i \in 1..(n + 1) : i \in 1..n \/ i = n + 1
    OBVIOUS
  <2>2. \A i \in 1..n : i \in 1..(n + 1)
    OBVIOUS
  <2>. QED BY <1>3, <1>5, <2>1, <2>2 DEF ToldBy
<1>6. ASSUME e \notin Telling, NEW d, LastTold(es, d) PROVE LastTold(more, d)
  BY <1>3, <1>5, <1>6 DEF LastTold, ToldBy
<1>. QED BY <1>2, <1>4, <1>5, <1>6

LEMMA PollSaysMore ==
    ASSUME NEW st \in PollStates, NEW g, NEW base, NEW o \in Nat, NEW j \in Nat, NEW k \in LineKinds,
           g[o + j] \in HearStates, g[o + j + 1] = Hears(g[o + j], k), lines[o + j + 1] = k, PollSays(st, g, base, o, j)
    PROVE  PollSays(Consume(st, k), g, base, o, j + 1)
<1>1. PICK m \in Tails, es \in Seq(EventKinds) : st = [tail |-> m, events |-> es]
  BY DEF PollStates
<1>2. PICK m2 \in Tails : m2 = g[o + j].tail
  BY DEF HearStates
<1>3. PICK e : e = Emits(m, k)
  OBVIOUS
<1>4. PICK st2 : st2 = Consume(st, k)
  OBVIOUS
<1>5. /\ st2 = [tail |-> MovesTo(m, k), events |-> IF e = NoEvent THEN es ELSE Adds(es, e)]
      /\ e \in LineEvents \union {NoEvent}
      /\ MovesTo(m, k) \in Tails /\ MovesTo(m, k).file = m.file /\ MovesTo(m, k).offset = m.offset
      /\ k \in {"join", "disconnect"} => e = k
  <2>1. k \in {"join", "disconnect"} => e = k
    BY <1>3 DEF Emits
  <2>. QED BY <1>1, <1>3, <1>4, <2>1, LineIsConsumed
<1>6. Alike(m, m2)
  BY <1>1, <1>2 DEF PollSays
<1>7. Alike(MovesTo(m, k), MovesTo(m2, k)) /\ Emits(m2, k) = e
  BY <1>3, <1>6, AlikeMoves
<1>8. PICK h, h2 : h = g[o + j] /\ h2 = g[o + (j + 1)]
  OBVIOUS
<1>9. h2 = Hears(h, k) /\ h.tail = m2
  <2>1. o + j + 1 = o + (j + 1)
    OBVIOUS
  <2>. QED BY <1>2, <1>8, <2>1
<1>10. h2.tail = MovesTo(m2, k) /\ h2.last = (IF e \in Telling THEN e ELSE h.last)
  BY <1>7, <1>9 DEF Hears
<1>11. PICK es2 : es2 = st2.events
  OBVIOUS
<1>12. CASE e = NoEvent
  <2>1. es2 = es /\ h2.last = h.last
    BY <1>5, <1>10, <1>11, <1>12 DEF Telling, Up, Down, NoEvent
  <2>2. k \notin {"join", "disconnect"}
    BY <1>5, <1>12 DEF NoEvent
  <2>3. (\A i \in (o + 1)..(o + j) : ~ TellsSurely(i)) => \A i \in (o + 1)..(o + (j + 1)) : ~ TellsSurely(i)
    <3>1. \A i \in (o + 1)..(o + (j + 1)) : i \in (o + 1)..(o + j) \/ i = o + j + 1
      OBVIOUS
    <3>. QED BY <2>2, <3>1 DEF TellsSurely
  <2>. QED BY <1>1, <1>4, <1>5, <1>7, <1>8, <1>10, <1>11, <2>1, <2>3 DEF PollSays
<1>13. CASE e # NoEvent
  <2>1. e \in LineEvents /\ es2 = Adds(es, e)
    BY <1>5, <1>11, <1>13
  <2>2. Dropped(es2) \/ (~ Dropped(es) /\ es2 = Append(es, e))
    BY <2>1, AddsKeep
  <2>3. Alike(st2.tail, h2.tail) /\ st2.tail.file = base.tail.file /\ st2.tail.offset = base.tail.offset
    BY <1>1, <1>5, <1>7, <1>10 DEF PollSays
  <2>4. CASE Dropped(es2)
    BY <1>4, <1>8, <1>11, <2>3, <2>4 DEF PollSays
  <2>5. CASE ~ Dropped(es) /\ es2 = Append(es, e) /\ e \in Telling
    <3>1. LastTold(es2, e) /\ h2.last = e
      BY <1>10, <2>1, <2>5, AddedTells
    <3>. QED BY <1>4, <1>8, <1>11, <2>3, <3>1 DEF PollSays
  <2>6. CASE ~ Dropped(es) /\ es2 = Append(es, e) /\ e \notin Telling
    <3>1. h2.last = h.last /\ ToldBy(es2) = ToldBy(es) /\ \A d : LastTold(es, d) => LastTold(es2, d)
      BY <1>10, <2>1, <2>6, AddedTells
    <3>2. k \notin {"join", "disconnect"}
      BY <1>5, <2>6 DEF Telling, Up, Down
    <3>3. (\A i \in (o + 1)..(o + j) : ~ TellsSurely(i)) => \A i \in (o + 1)..(o + (j + 1)) : ~ TellsSurely(i)
      <4>1. \A i \in (o + 1)..(o + (j + 1)) : i \in (o + 1)..(o + j) \/ i = o + j + 1
        OBVIOUS
      <4>. QED BY <3>2, <4>1 DEF TellsSurely
    <3>4. (ToldBy(es) = {} /\ h.last = g[o].last /\ \A i \in (o + 1)..(o + j) : ~ TellsSurely(i)) \/ LastTold(es, h.last)
      BY <1>1, <1>8, <2>6 DEF PollSays
    <3>. QED BY <1>4, <1>8, <1>11, <2>3, <3>1, <3>3, <3>4 DEF PollSays
  <2>. QED BY <2>2, <2>4, <2>5, <2>6
<1>. QED BY <1>12, <1>13

LEMMA PollHears ==
    ASSUME NEW g, HeardBy(g, lines), lines \in Seq(LineKinds), NEW o \in Nat, NEW n \in Nat, o + n <= Len(lines),
           NEW base \in PollStates, Alike(base.tail, g[o].tail), ToldBy(base.events) = {},
           NEW ls \in Seq(LineKinds), Len(ls) = n, \A i \in 1..n : ls[i] = lines[o + i],
           NEW s, ConsumedBy(s, base, ls)
    PROVE  PollSays(s[n], g, base, o, n)
<1>. DEFINE S == {j \in 0..n : PollSays(s[j], g, base, o, j)}
<1>1. S \subseteq 0..n /\ 0 \in S
  <2>1. s[0] = base
    BY DEF ConsumedBy
  <2>2. o + 0 = o /\ (o + 1)..(o + 0) = {}
    OBVIOUS
  <2>. QED BY <2>1, <2>2 DEF PollSays
<1>2. ASSUME NEW j \in 0..(n - 1), j \in S PROVE j + 1 \in S
  <2>1. s[j] \in PollStates /\ s[j + 1] = Consume(s[j], ls[j + 1])
    <3>1. j \in 0..n
      OBVIOUS
    <3>. QED BY <3>1 DEF ConsumedBy
  <2>2. PICK l \in Nat : l = Len(lines)
    OBVIOUS
  <2>3. j \in Nat /\ j + 1 \in 1..n /\ o + j \in 0..(l - 1) /\ o + j \in 0..l /\ o + j + 1 \in 1..l /\ o + (j + 1) = o + j + 1
    BY <2>2
  <2>4. g[o + j] \in HearStates /\ g[o + j + 1] = Hears(g[o + j], lines[o + j + 1])
    BY <2>2, <2>3 DEF HeardBy
  <2>5. PICK k \in LineKinds : k = lines[o + j + 1]
    BY <2>2, <2>3
  <2>6. ls[j + 1] = k
    BY <2>3, <2>5
  <2>7. PollSays(Consume(s[j], k), g, base, o, j + 1)
    BY <1>2, <2>1, <2>3, <2>4, <2>5, PollSaysMore
  <2>. QED BY <2>1, <2>3, <2>6, <2>7
<1>. HIDE DEF S
<1>3. S = 0..n
  BY <1>1, <1>2, StepByStep
<1>4. n \in S
  BY <1>3
<1>. QED BY <1>4 DEF S

Events == [kind : EventKinds, at : Nat]
ScanRecord == [pc : {"idle", "reconcile", "read", "lost", "apply"}, bound : BOOLEAN,
               label : {"none", "in_game", "ready"}, todo : Seq(Events), keys : SUBSET Nat]
\* A scan whose events are among the first n.
ScanFits(r, n) ==
    /\ r.label # "none" => r.pc \in {"reconcile", "read", "lost"}
    /\ r.pc = "apply" \/ (r.keys = {} /\ r.todo = <<>>)
    /\ r.keys \subseteq 1..n /\ \A i \in DOMAIN r.todo : r.todo[i].at \in 1..n

LogTypes ==
    /\ lines \in Seq(Kinds) /\ Len(lines) <= MaxLines /\ file \in 1..MaxFiles
    /\ {bound, gone, clean} \subseteq BOOLEAN /\ shown \in {"launching", "in_game", "ready"}
    /\ tail \in Tails /\ tail.offset <= MaxLines
    /\ tail.file <= file /\ (tail.file = file => tail.offset <= Len(lines))
    /\ history \in Seq(Events) /\ parsed = Len(history) /\ \A i \in DOMAIN history : history[i].at = i
    /\ seenEvents \subseteq 1..parsed /\ scans \in 0..MaxScans
    /\ scan \in [Scanners -> ScanRecord] /\ \A t \in Scanners : ScanFits(scan[t], parsed)

LEMMA LogTypesFit == LogTypes => LogTypeOK
BY LogAssumption DEF LogTypes, LogTypeOK, LogAssumption, Tails

LEMMA LogTypesBegin == LogInit => LogTypes
<1>. SUFFICES ASSUME LogInit PROVE LogTypes
  OBVIOUS
<1>. USE LogAssumption DEF LogAssumption, LogInit
<1>1. NoTail \in Tails /\ NoTail.offset = 0 /\ NoTail.file = 0
  BY NoTailIs DEF NoTail
<1>2. NoScan \in ScanRecord /\ ScanFits(NoScan, 0)
  BY DEF NoScan, ScanRecord, ScanFits
<1>3. lines \in Seq(Kinds) /\ Len(lines) = 0 /\ history \in Seq(Events) /\ parsed = Len(history) /\ DOMAIN history = {}
  OBVIOUS
<1>4. scan \in [Scanners -> ScanRecord] /\ \A t \in Scanners : ScanFits(scan[t], parsed)
  BY <1>2
<1>5. tail \in Tails /\ tail.offset <= MaxLines /\ tail.file <= file /\ file \in 1..MaxFiles /\ tail.file # file
  BY <1>1
<1>6. {bound, gone, clean} \subseteq BOOLEAN
  <2>. USE DEF LogInit
  <2>1. bound \in BOOLEAN /\ gone \in BOOLEAN /\ clean \in BOOLEAN
    OBVIOUS
  <2>. QED BY <2>1
<1>7. shown \in {"launching", "in_game", "ready"} /\ seenEvents \subseteq 1..parsed /\ scans \in 0..MaxScans
  OBVIOUS
<1>. QED BY <1>3, <1>4, <1>5, <1>6, <1>7 DEF LogTypes

\* What a poll makes of the log.
LEMMA PolledIs ==
    ASSUME LogTypes, NEW g, HeardBy(g, lines), tail.file = file => Alike(tail, g[tail.offset].tail)
    PROVE  \E n \in Nat, o \in Nat :
              /\ o = ReadSoFar /\ o + n <= Len(lines)
              /\ Polled.tail \in Tails /\ Polled.tail.file = file /\ Polled.tail.offset = o + n
              /\ Polled.events \in Seq(EventKinds) /\ Alike(Polled.tail, g[o + n].tail)
              /\ \/ Dropped(Polled.events)
                 \/ /\ ToldBy(Polled.events) = {} /\ g[o + n].last = g[o].last
                    /\ \A i \in (o + 1)..(o + n) : ~ TellsSurely(i)
                 \/ LastTold(Polled.events, g[o + n].last)
<1>. USE LogAssumption DEF LogAssumption
<1>1. lines \in Seq(LineKinds) /\ tail \in Tails /\ file \in 1..MaxFiles
  BY DEF LogTypes
<1>2. PICK l \in Nat : l = Len(lines)
  BY <1>1
<1>3. PICK first : first = Start
  OBVIOUS
<1>4. PICK o \in 0..l : /\ o = ReadSoFar /\ first \in Tails /\ first.file = file /\ first.offset = o
                        /\ Alike(first, g[o].tail)
  <2>1. CASE tail.file = file
    <3>1. tail.offset <= l /\ tail.offset \in Nat
      BY <1>1, <1>2, <2>1 DEF LogTypes, Tails
    <3>2. ~ (l < tail.offset)
      BY <3>1
    <3>3. first = tail
      BY <1>1, <1>2, <1>3, <2>1, <3>2 DEF Start, Anew
    <3>. QED BY <1>1, <2>1, <3>1, <3>3 DEF ReadSoFar
  <2>2. CASE tail.file # file
    <3>1. first = [NoTail EXCEPT !.file = file]
      BY <1>3, <2>2 DEF Start, Anew
    <3>2. first \in Tails /\ first.file = file /\ first.offset = 0
      <4>1. file \in 0..MaxFiles
        BY <1>1
      <4>2. first.file = file /\ first.offset = 0
        BY <3>1 DEF NoTail
      <4>. QED BY <3>1, <4>1, <4>2, NoTailIs
    <3>3. Alike(first, NoTail)
      BY <3>1 DEF Alike, NoTail
    <3>4. g[0].tail = NoTail
      BY DEF HeardBy, NoneHeard
    <3>. QED BY <2>2, <3>2, <3>3, <3>4 DEF ReadSoFar
  <2>. QED BY <2>1, <2>2
<1>5. PICK n \in Nat : /\ o + n <= l /\ Piece = SubSeq(lines, o + 1, o + n)
  <2>1. CASE o + MaxRead < l
    <3>1. Piece = SubSeq(lines, o + 1, o + MaxRead)
      BY <1>2, <1>3, <1>4, <2>1 DEF Piece
    <3>. QED BY <2>1, <3>1
  <2>2. CASE ~ (o + MaxRead < l)
    <3>1. Piece = SubSeq(lines, o + 1, l)
      BY <1>2, <1>3, <1>4, <2>2 DEF Piece
    <3>2. l - o \in Nat /\ o + (l - o) = l
      OBVIOUS
    <3>. QED BY <3>1, <3>2
  <2>. QED BY <2>1, <2>2
<1>6. PICK ls \in Seq(LineKinds) : ls = Piece /\ Len(ls) = n /\ \A i \in 1..n : ls[i] = lines[o + i]
  <2>1. \A i \in (o + 1)..(o + n) : i \in 1..l
    BY <1>5
  <2>2. PICK a \in Nat, b \in Nat : a = o + 1 /\ b = o + n
    OBVIOUS
  <2>3. PICK ls : ls = SubSeq(lines, a, b)
    OBVIOUS
  <2>4. ls \in Seq(LineKinds) /\ Len(ls) = (IF a <= b THEN b - a + 1 ELSE 0)
        /\ \A i \in 1..(b - a + 1) : ls[i] = lines[a + i - 1]
    <3>1. a \in Int /\ b \in Int /\ \A i \in a..b : lines[i] \in LineKinds
      BY <1>1, <1>2, <2>1, <2>2
    <3>. QED BY <2>3, <3>1, SubSeqProperties
  <2>5. (IF a <= b THEN b - a + 1 ELSE 0) = n /\ b - a + 1 = n /\ \A i \in 1..n : a + i - 1 = o + i
    BY <2>2
  <2>6. \A i \in 1..n : ls[i] = lines[o + i]
    BY <2>4, <2>5
  <2>. QED BY <1>5, <2>2, <2>3, <2>4, <2>5, <2>6
<1>7. PICK before : before = (IF Anew THEN <<"rotated">> ELSE <<>>)
  OBVIOUS
<1>8. before \in Seq(EventKinds) /\ ToldBy(before) = {}
  <2>1. CASE before = <<>>
    BY <2>1 DEF ToldBy
  <2>2. CASE before = <<"rotated">>
    BY <2>2 DEF ToldBy, EventKinds, Telling, Up, Down
  <2>. QED BY <1>7, <2>1, <2>2
<1>9. PICK base \in PollStates : base = [tail |-> first, events |-> before]
  BY <1>4, <1>8 DEF PollStates
<1>10. PICK s : ConsumedBy(s, base, ls) /\ AllConsumed(base, ls) = s[n]
  BY <1>6, ConsumedInOrder
<1>11. PollSays(s[n], g, base, o, n)
  <2>1. base.tail = first /\ base.events = before
    BY <1>9
  <2>2. o \in Nat /\ o + n <= Len(lines) /\ Alike(base.tail, g[o].tail) /\ ToldBy(base.events) = {}
    BY <1>2, <1>4, <1>5, <1>8, <2>1
  <2>3. ConsumedBy(s, base, ls) /\ Len(ls) = n /\ \A i \in 1..n : ls[i] = lines[o + i]
    BY <1>6, <1>10
  <2>. QED BY <1>1, <2>2, <2>3, PollHears
<1>12. PICK st \in PollStates : st = s[n]
  BY <1>6, <1>10 DEF ConsumedBy
<1>13. PICK m \in Tails, es \in Seq(EventKinds) : st = [tail |-> m, events |-> es]
  BY <1>12 DEF PollStates
<1>14. Polled = [st EXCEPT !.tail.offset = o + n]
  BY <1>3, <1>4, <1>6, <1>7, <1>9, <1>10, <1>12 DEF Polled, AllConsumed
<1>15. Polled = [tail |-> [m EXCEPT !.offset = o + n], events |-> es]
  BY <1>13, <1>14
<1>16. PICK m2 : m2 = [m EXCEPT !.offset = o + n]
  OBVIOUS
<1>17. m2 \in Tails /\ m2.offset = o + n /\ m2.file = m.file /\ Alike(m2, m)
  <2>1. m \in Tails /\ o + n \in Nat
    BY <1>3, <1>13
  <2>2. m2 \in Tails /\ m2.offset = o + n /\ m2.file = m.file
    BY <1>16, <2>1 DEF Tails
  <2>. QED BY <1>16, <2>1, <2>2 DEF Tails, Alike
<1>18. m.file = file /\ Alike(m, g[o + n].tail)
  BY <1>4, <1>9, <1>11, <1>12, <1>13 DEF PollSays
<1>19. \/ Dropped(es)
       \/ ToldBy(es) = {} /\ g[o + n].last = g[o].last /\ \A i \in (o + 1)..(o + n) : ~ TellsSurely(i)
       \/ LastTold(es, g[o + n].last)
  BY <1>11, <1>12, <1>13 DEF PollSays
<1>20. Alike(m2, g[o + n].tail)
  BY <1>17, <1>18 DEF Alike
<1>21. Polled.tail = m2 /\ Polled.events = es
  BY <1>15, <1>16
<1>22. o \in Nat /\ o + n <= Len(lines) /\ m2.file = file
  BY <1>2, <1>4, <1>5, <1>17, <1>18
<1>. QED BY <1>4, <1>13, <1>17, <1>19, <1>20, <1>21, <1>22

LEMMA ScanFitsMore ==
    ASSUME NEW r \in ScanRecord, NEW n \in Nat, NEW m \in Nat, n <= m, ScanFits(r, n)
    PROVE  ScanFits(r, m)
<1>1. 1..n \subseteq 1..m
  OBVIOUS
<1>. QED BY <1>1 DEF ScanFits

\* The events of a poll join those of before.
NewEvents(es, p) == [i \in DOMAIN es |-> [kind |-> es[i], at |-> p + i]]
Numbered(h, p) == h \in Seq(Events) /\ Len(h) = p /\ \A i \in 1..p : h[i].at = i
JoinedTo(both, es, p, q) ==
    /\ Numbered(both, p + q) /\ Len(es) = q
    /\ \A i \in 1..(p + q) : i > p => i - p \in 1..q /\ both[i].kind = es[i - p]
    /\ \A i \in 1..q : p + i \in 1..(p + q) /\ both[p + i].kind = es[i]

LEMMA HistoryGrows ==
    ASSUME NEW h, NEW p \in Nat, Numbered(h, p), NEW es \in Seq(EventKinds)
    PROVE  /\ JoinedTo(h \o NewEvents(es, p), es, p, Len(es))
           /\ Len(NewEvents(es, p)) = Len(es)
<1>1. PICK q \in Nat : q = Len(es)
  OBVIOUS
<1>2. DOMAIN es = 1..q
  BY <1>1
<1>3. PICK new : new = NewEvents(es, p)
  OBVIOUS
<1>4. new \in Seq(Events) /\ Len(new) = q /\ \A i \in 1..q : new[i].at = p + i /\ new[i].kind = es[i]
  <2>1. new = [i \in 1..q |-> [kind |-> es[i], at |-> p + i]]
    BY <1>2, <1>3 DEF NewEvents
  <2>2. new \in [1..q -> Events]
    BY <1>1, <2>1 DEF Events
  <2>3. new \in Seq(Events) /\ Len(new) = q
    BY <2>2
  <2>. QED BY <2>1, <2>3
<1>5. PICK both : both = h \o new
  OBVIOUS
<1>6. h \in Seq(Events) /\ Len(h) = p /\ \A i \in 1..p : h[i].at = i
  BY DEF Numbered
<1>7. both \in Seq(Events) /\ Len(both) = p + q
  BY <1>4, <1>5, <1>6
<1>8. \A i \in 1..p : both[i] = h[i]
  BY <1>4, <1>5, <1>6
<1>9. \A i \in 1..(p + q) : i > p => i - p \in 1..q /\ both[i] = new[i - p] /\ p + (i - p) = i
  BY <1>4, <1>5, <1>6
<1>10. \A i \in 1..(p + q) : i > p => both[i].at = i /\ both[i].kind = es[i - p]
  BY <1>4, <1>9
<1>11. \A i \in 1..(p + q) : i \in 1..p \/ i > p
  OBVIOUS
<1>12. \A i \in 1..q : p + i \in 1..(p + q) /\ p + i > p /\ (p + i) - p = i
  OBVIOUS
<1>13. \A i \in 1..q : both[p + i].kind = es[i]
  BY <1>10, <1>12
<1>14. \A i \in 1..(p + q) : both[i].at = i
  BY <1>6, <1>8, <1>10, <1>11
<1>15. Numbered(both, p + q)
  BY <1>7, <1>14 DEF Numbered
<1>16. JoinedTo(both, es, p, q)
  BY <1>1, <1>9, <1>10, <1>12, <1>13, <1>15 DEF JoinedTo
<1>. QED BY <1>1, <1>3, <1>4, <1>5, <1>16

LEMMA ScanIsSet ==
    ASSUME LogTypes, NEW t \in Scanners, NEW new \in ScanRecord, NEW m \in Nat, parsed <= m, ScanFits(new, m),
           NEW s, s = [scan EXCEPT ![t] = new]
    PROVE  s \in [Scanners -> ScanRecord] /\ \A u \in Scanners : ScanFits(s[u], m)
<1>1. scan \in [Scanners -> ScanRecord] /\ parsed \in Nat /\ \A u \in Scanners : ScanFits(scan[u], parsed)
  BY DEF LogTypes
<1>2. ASSUME NEW u \in Scanners PROVE ScanFits(s[u], m)
  <2>1. CASE u = t
    BY <1>1, <2>1
  <2>2. CASE u # t
    <3>1. s[u] = scan[u] /\ scan[u] \in ScanRecord /\ ScanFits(scan[u], parsed)
      BY <1>1, <2>2
    <3>. QED BY <1>1, <3>1, ScanFitsMore
  <2>. QED BY <2>1, <2>2
<1>. QED BY <1>1, <1>2


LEMMA LogTypesStep ==
    ASSUME LogTypes, NEW g, HeardBy(g, lines), tail.file = file => Alike(tail, g[tail.offset].tail), LogNext
    PROVE  LogTypes'
<1>. USE LogAssumption DEF LogAssumption
<1>0. /\ scan \in [Scanners -> ScanRecord] /\ parsed \in Nat /\ {bound, gone, clean} \subseteq BOOLEAN
      /\ \A t \in Scanners : scan[t] \in ScanRecord /\ ScanFits(scan[t], parsed)
  BY DEF LogTypes
<1>1. ASSUME NEW k \in Kinds, WriteLine(k) PROVE LogTypes'
  <2>1. /\ lines' = Append(lines, k) /\ Len(lines) < MaxLines
        /\ clean' = (clean \/ (k \in {"join", "disconnect"} /\ bound /\ Quiet))
        /\ UNCHANGED <<file, bound, tail, history, parsed, seenEvents, gone, shown, scan, scans>>
    BY <1>1 DEF WriteLine
  <2>2. PICK l \in Nat : l = Len(lines)
    BY DEF LogTypes
  <2>3. lines' \in Seq(Kinds) /\ Len(lines') = l + 1
    BY <2>1, <2>2 DEF LogTypes
  <2>4. l + 1 <= MaxLines
    BY <2>1, <2>2
  <2>5. clean' \in BOOLEAN
    BY <2>1
  <2>6. {bound', gone', clean'} \subseteq BOOLEAN
    BY <1>0, <2>1, <2>5
  <2>7. tail.file = file => tail.offset <= l + 1
    BY <2>2 DEF LogTypes, Tails
  <2>. QED BY <2>1, <2>3, <2>4, <2>6, <2>7 DEF LogTypes
<1>2. ASSUME ReplaceFile PROVE LogTypes'
  <2>1. /\ file < MaxFiles /\ file' = file + 1 /\ lines' = <<>> /\ clean' = FALSE
        /\ UNCHANGED <<bound, tail, history, parsed, seenEvents, gone, shown, scan, scans>>
    BY <1>2 DEF ReplaceFile
  <2>2. {bound', gone', clean'} \subseteq BOOLEAN
    BY <1>0, <2>1
  <2>3. lines' \in Seq(Kinds) /\ Len(lines') = 0
    BY <2>1
  <2>4. file + 1 \in 1..MaxFiles /\ tail.file <= file + 1 /\ tail.file # file + 1
    BY <2>1 DEF LogTypes, Tails
  <2>. QED BY <2>1, <2>2, <2>3, <2>4 DEF LogTypes
<1>3. ASSUME AccountKnown PROVE LogTypes'
  <2>1. /\ bound' = TRUE
        /\ UNCHANGED <<lines, file, tail, history, parsed, seenEvents, gone, shown, scan, scans, clean>>
    BY <1>3 DEF AccountKnown
  <2>2. {bound', gone', clean'} \subseteq BOOLEAN
    BY <1>0, <2>1
  <2>. QED BY <2>1, <2>2 DEF LogTypes
<1>4. ASSUME NEW t \in Scanners, BeginScan(t) PROVE LogTypes'
  <2>1. /\ scans < MaxScans /\ scans' = scans + 1 /\ clean' = (clean /\ Quiet)
        /\ scan' = [scan EXCEPT ![t] = [NoScan EXCEPT !.pc = "reconcile", !.bound = bound]]
        /\ UNCHANGED <<lines, file, bound, tail, history, parsed, seenEvents, gone, shown>>
    BY <1>4 DEF BeginScan, To
  <2>2. {bound', gone', clean'} \subseteq BOOLEAN
    BY <1>0, <2>1
  <2>3. PICK new : new = [NoScan EXCEPT !.pc = "reconcile", !.bound = bound]
    OBVIOUS
  <2>4. new \in ScanRecord /\ ScanFits(new, parsed)
    <3>1. bound \in BOOLEAN
      BY <1>0
    <3>2. new = [pc |-> "reconcile", bound |-> bound, label |-> "none", todo |-> <<>>, keys |-> {}]
      BY <2>3 DEF NoScan
    <3>3. new \in ScanRecord
      BY <3>1, <3>2 DEF ScanRecord
    <3>. QED BY <3>2, <3>3 DEF ScanFits
  <2>5. scan' \in [Scanners -> ScanRecord] /\ \A u \in Scanners : ScanFits(scan'[u], parsed)
    BY <1>0, <2>1, <2>3, <2>4, ScanIsSet
  <2>6. scans' \in 0..MaxScans
    BY <2>1 DEF LogTypes
  <2>. QED BY <2>1, <2>2, <2>5, <2>6 DEF LogTypes
<1>5. ASSUME NEW t \in Scanners, Decide(t) PROVE LogTypes'
  <2>1. PICK complete \in BOOLEAN :
           scan' = [scan EXCEPT ![t] = [scan[t] EXCEPT
                       !.pc = IF complete THEN "read" ELSE "lost",
                       !.label = IF complete /\ scan[t].bound /\ shown # "ready" THEN Wanted ELSE "none"]]
    BY <1>5 DEF Decide, To
  <2>2. scan[t].pc = "reconcile" /\ UNCHANGED <<lines, file, bound, tail, history, parsed, seenEvents, gone, shown, scans, clean>>
    BY <1>5 DEF Decide
  <2>3. PICK r \in ScanRecord : r = scan[t] /\ ScanFits(r, parsed) /\ r.pc = "reconcile"
    BY <1>0, <2>2
  <2>4. PICK p, q : p = (IF complete THEN "read" ELSE "lost")
                    /\ q = (IF complete /\ r.bound /\ shown # "ready" THEN Wanted ELSE "none")
    OBVIOUS
  <2>5. p \in {"read", "lost"} /\ q \in {"none", "in_game", "ready"}
    BY <2>4 DEF Wanted
  <2>6. PICK new : new = [r EXCEPT !.pc = p, !.label = q]
    OBVIOUS
  <2>7. new \in ScanRecord /\ ScanFits(new, parsed)
    BY <2>3, <2>5, <2>6 DEF ScanRecord, ScanFits
  <2>8. scan' \in [Scanners -> ScanRecord] /\ \A u \in Scanners : ScanFits(scan'[u], parsed)
    <3>1. scan' = [scan EXCEPT ![t] = new]
      BY <2>1, <2>3, <2>4, <2>6
    <3>. QED BY <1>0, <2>7, <3>1, ScanIsSet
  <2>. QED BY <2>2, <2>8 DEF LogTypes
<1>6. ASSUME NEW t \in Scanners, Relabel(t) PROVE LogTypes'
  <2>1. /\ scan[t].label # "none" /\ shown' = scan[t].label
        /\ scan' = [scan EXCEPT ![t] = [scan[t] EXCEPT !.label = "none"]]
        /\ UNCHANGED <<lines, file, bound, tail, history, parsed, seenEvents, gone, scans, clean>>
    BY <1>6 DEF Relabel, To
  <2>2. PICK new : new = [scan[t] EXCEPT !.label = "none"]
    OBVIOUS
  <2>3. new \in ScanRecord /\ ScanFits(new, parsed)
    BY <1>0, <2>2 DEF ScanRecord, ScanFits
  <2>4. scan' \in [Scanners -> ScanRecord] /\ \A u \in Scanners : ScanFits(scan'[u], parsed)
    BY <1>0, <2>1, <2>2, <2>3, ScanIsSet
  <2>5. shown' \in {"launching", "in_game", "ready"}
    BY <1>0, <2>1 DEF ScanRecord
  <2>. QED BY <2>1, <2>4, <2>5 DEF LogTypes
<1>7. ASSUME NEW t \in Scanners, ReadLog(t) PROVE LogTypes'
  <2>1. PICK new : new = NewEvents(Polled.events, parsed)
    OBVIOUS
  <2>2. /\ tail' = Polled.tail /\ history' = history \o new /\ parsed' = parsed + Len(new)
        /\ clean' = (clean /\ ~ Contains(Polled.events, "events_dropped"))
        /\ scan' = [scan EXCEPT ![t] = [scan[t] EXCEPT !.pc = "apply", !.todo = history \o new]]
        /\ scan[t].pc = "read" /\ scan[t].label = "none"
        /\ UNCHANGED <<lines, file, bound, seenEvents, gone, shown, scans>>
    BY <1>7, <2>1 DEF ReadLog, To, NewEvents
  <2>3. PICK n \in Nat, o \in Nat :
              /\ o + n <= Len(lines) /\ Polled.tail \in Tails /\ Polled.tail.file = file /\ Polled.tail.offset = o + n
              /\ Polled.events \in Seq(EventKinds)
    BY PolledIs
  <2>4. PICK es \in Seq(EventKinds) : es = Polled.events
    BY <2>3
  <2>5. PICK q \in Nat : q = Len(es)
    OBVIOUS
  <2>6. PICK both : both = history \o new
    OBVIOUS
  <2>7. both \in Seq(Events) /\ Len(new) = q /\ Len(both) = parsed + q /\ \A i \in DOMAIN both : both[i].at = i
    <3>1. Numbered(history, parsed)
      BY DEF Numbered, LogTypes
    <3>2. JoinedTo(both, es, parsed, q) /\ Len(new) = q
      BY <1>0, <2>1, <2>4, <2>5, <2>6, <3>1, HistoryGrows
    <3>3. Numbered(both, parsed + q)
      BY <3>2 DEF JoinedTo
    <3>. QED BY <1>0, <3>2, <3>3 DEF Numbered
  <2>8. PICK m \in Nat : m = parsed + q /\ parsed <= m
    BY <1>0
  <2>9. PICK r \in ScanRecord : r = scan[t] /\ ScanFits(r, parsed)
    BY <1>0
  <2>10. PICK r2 : r2 = [r EXCEPT !.pc = "apply", !.todo = both]
    OBVIOUS
  <2>11. r2 \in ScanRecord /\ ScanFits(r2, m)
    <3>1. r.keys = {} /\ r.label = "none"
      BY <2>2, <2>9 DEF ScanFits
    <3>2. r2 \in ScanRecord /\ r2.keys = {} /\ r2.label = "none" /\ r2.pc = "apply" /\ r2.todo = both
      BY <2>7, <2>9, <2>10, <3>1 DEF ScanRecord
    <3>3. DOMAIN both = 1..m
      BY <2>7, <2>8
    <3>. QED BY <2>7, <3>2, <3>3 DEF ScanFits
  <2>12. scan' \in [Scanners -> ScanRecord] /\ \A u \in Scanners : ScanFits(scan'[u], m)
    <3>1. PICK s : s = scan' /\ s = [scan EXCEPT ![t] = r2]
      BY <2>2, <2>6, <2>9, <2>10
    <3>2. s \in [Scanners -> ScanRecord] /\ \A u \in Scanners : ScanFits(s[u], m)
      BY <2>8, <2>11, <3>1, ScanIsSet
    <3>. QED BY <3>1, <3>2
  <2>13. clean' \in BOOLEAN
    BY <2>2
  <2>14. {bound', gone', clean'} \subseteq BOOLEAN
    BY <1>0, <2>2, <2>13
  <2>15. parsed' = m /\ parsed' = Len(history') /\ history' \in Seq(Events) /\ \A i \in DOMAIN history' : history'[i].at = i
    BY <2>2, <2>6, <2>7, <2>8
  <2>16. seenEvents' \subseteq 1..m
    <3>1. 1..parsed \subseteq 1..m /\ seenEvents \subseteq 1..parsed
      BY <1>0, <2>8 DEF LogTypes
    <3>. QED BY <2>2, <3>1
  <2>17. tail' \in Tails /\ tail'.file = file /\ tail'.offset <= Len(lines) /\ tail'.offset <= MaxLines /\ tail'.file <= file
    <3>1. PICK l \in Nat : l = Len(lines) /\ l <= MaxLines
      BY DEF LogTypes
    <3>2. file \in Nat
      BY DEF LogTypes
    <3>. QED BY <2>2, <2>3, <3>1, <3>2
  <2>. QED BY <2>2, <2>12, <2>14, <2>15, <2>16, <2>17 DEF LogTypes
<1>8. ASSUME NEW t \in Scanners, LoseLog(t) PROVE LogTypes'
  <2>1. /\ tail' = NoTail /\ scan[t].pc \in {"read", "lost"} /\ scan[t].label = "none"
        /\ scan' = [scan EXCEPT ![t] = [scan[t] EXCEPT !.pc = "apply", !.todo = history]]
        /\ UNCHANGED <<lines, file, bound, history, parsed, seenEvents, gone, shown, scans, clean>>
    BY <1>8 DEF LoseLog, To
  <2>2. PICK r2 : r2 = [scan[t] EXCEPT !.pc = "apply", !.todo = history]
    OBVIOUS
  <2>3. r2 \in ScanRecord /\ ScanFits(r2, parsed)
    <3>1. scan[t].keys = {}
      BY <1>0, <2>1 DEF ScanFits
    <3>2. r2 \in ScanRecord /\ r2.keys = {} /\ r2.label = "none" /\ r2.pc = "apply" /\ r2.todo = history
      BY <1>0, <2>1, <2>2, <3>1 DEF ScanRecord, LogTypes
    <3>3. DOMAIN history = 1..parsed /\ \A i \in DOMAIN history : history[i].at = i
      BY DEF LogTypes
    <3>. QED BY <3>2, <3>3 DEF ScanFits
  <2>4. scan' \in [Scanners -> ScanRecord] /\ \A u \in Scanners : ScanFits(scan'[u], parsed)
    BY <1>0, <2>1, <2>2, <2>3, ScanIsSet
  <2>5. tail' \in Tails /\ tail'.file # file /\ tail'.offset <= MaxLines /\ tail'.file <= file
    BY <2>1, NoTailIs DEF NoTail, LogTypes
  <2>. QED BY <2>1, <2>4, <2>5 DEF LogTypes
<1>9. ASSUME NEW t \in Scanners, ApplyEvent(t) PROVE LogTypes'
  <2>1. PICK e : e = Head(scan[t].todo)
    OBVIOUS
  <2>2. /\ scan[t].pc = "apply" /\ scan[t].todo # <<>>
        /\ scan' = [scan EXCEPT ![t] = [scan[t] EXCEPT !.todo = Tail(scan[t].todo), !.keys = @ \cup {e.at}]]
        /\ \/ gone' = (e.kind \in Down) /\ shown' = IF e.kind \in Down THEN "ready" ELSE "in_game"
           \/ UNCHANGED <<gone, shown>>
        /\ clean' = (clean /\ scan[t].bound)
        /\ UNCHANGED <<lines, file, bound, tail, history, parsed, seenEvents, scans>>
    BY <1>9, <2>1 DEF ApplyEvent, To
  <2>3. PICK r \in ScanRecord : r = scan[t] /\ ScanFits(r, parsed) /\ r.todo \in Seq(Events)
    BY <1>0 DEF ScanRecord
  <2>4. PICK td : td = Tail(r.todo)
    OBVIOUS
  <2>5. td \in Seq(Events) /\ e = r.todo[1] /\ 1 \in DOMAIN r.todo /\ \A i \in DOMAIN td : i + 1 \in DOMAIN r.todo /\ td[i] = r.todo[i + 1]
    BY <2>1, <2>2, <2>3, <2>4
  <2>6. e.at \in 1..parsed /\ e.at \in Nat /\ \A i \in DOMAIN td : td[i].at \in 1..parsed
    BY <1>0, <2>3, <2>5 DEF ScanFits
  <2>7. PICK r1 : r1 = [r EXCEPT !.todo = td]
    OBVIOUS
  <2>8. PICK r2 : r2 = [r1 EXCEPT !.keys = @ \cup {e.at}]
    OBVIOUS
  <2>9. r1 \in ScanRecord /\ r1.keys = r.keys /\ r1.todo = td /\ r1.pc = r.pc /\ r1.label = r.label
    BY <2>5, <2>7 DEF ScanRecord
  <2>10. r2 \in ScanRecord /\ r2.keys = r.keys \union {e.at} /\ r2.todo = td /\ r2.pc = "apply" /\ r2.label = r.label
    BY <2>2, <2>3, <2>6, <2>8, <2>9 DEF ScanRecord
  <2>11. ScanFits(r2, parsed)
    BY <2>2, <2>3, <2>6, <2>10 DEF ScanFits
  <2>12. scan' = [scan EXCEPT ![t] = r2]
    BY <2>2, <2>3, <2>4, <2>7, <2>8
  <2>13. scan' \in [Scanners -> ScanRecord] /\ \A u \in Scanners : ScanFits(scan'[u], parsed)
    BY <1>0, <2>10, <2>11, <2>12, ScanIsSet
  <2>14. gone' \in BOOLEAN /\ clean' \in BOOLEAN
    <3>1. gone' = (e.kind \in Down) \/ gone' = gone
      BY <2>2
    <3>0. gone \in BOOLEAN
      BY <1>0
    <3>2. gone' \in BOOLEAN
      <4>1. CASE gone' = (e.kind \in Down)
        BY <4>1
      <4>2. CASE gone' = gone
        BY <3>0, <4>2
      <4>. QED BY <3>1, <4>1, <4>2
    <3>3. clean' \in BOOLEAN
      BY <2>2
    <3>. QED BY <3>2, <3>3
  <2>15. {bound', gone', clean'} \subseteq BOOLEAN
    BY <1>0, <2>2, <2>14
  <2>16. shown' \in {"launching", "in_game", "ready"}
    BY <2>2 DEF LogTypes
  <2>. QED BY <2>2, <2>13, <2>15, <2>16 DEF LogTypes
<1>10. ASSUME NEW t \in Scanners, EndScan(t) PROVE LogTypes'
  <2>1. /\ seenEvents' = scan[t].keys /\ scan' = [scan EXCEPT ![t] = NoScan]
        /\ UNCHANGED <<lines, file, bound, tail, history, parsed, gone, shown, scans, clean>>
    BY <1>10 DEF EndScan, To
  <2>2. NoScan \in ScanRecord /\ ScanFits(NoScan, parsed)
    BY <1>0 DEF NoScan, ScanRecord, ScanFits
  <2>3. scan' \in [Scanners -> ScanRecord] /\ \A u \in Scanners : ScanFits(scan'[u], parsed)
    BY <1>0, <2>1, <2>2, ScanIsSet
  <2>4. seenEvents' \subseteq 1..parsed
    BY <1>0, <2>1 DEF ScanFits
  <2>. QED BY <2>1, <2>3, <2>4 DEF LogTypes
<1>. QED BY <1>1, <1>2, <1>3, <1>4, <1>5, <1>6, <1>7, <1>8, <1>9, <1>10 DEF LogNext

\* The label is what an event says.
Labelled(e) == (e \in Down => shown = "ready" /\ gone) /\ (e \in Up => shown = "in_game" /\ ~ gone)
\* Of what a scan has yet to apply, the events that tell and were not seen, and the last of them.
Unseen(todo) == {i \in DOMAIN todo : todo[i].at \notin seenEvents /\ todo[i].kind \in Telling}
LastUnseen(todo, e) == \E i \in Unseen(todo) : todo[i].kind = e /\ \A j \in Unseen(todo) : j <= i
Ats(todo) == {todo[i].at : i \in DOMAIN todo}

\* The label is what the event e says, or will be when the scan that is under way is over.
WillSay(e) ==
    /\ e \in Telling
    /\ \A t \in Scanners : scan[t].label \in {"none", shown}
    /\ \A t \in Scanners : scan[t].pc = "apply" =>
          /\ scan[t].keys \union Ats(scan[t].todo) = 1..parsed
          /\ LastUnseen(scan[t].todo, e) \/ (Unseen(scan[t].todo) = {} /\ Labelled(e))
    /\ (\A t \in Scanners : scan[t].pc # "apply") => Labelled(e) /\ seenEvents = 1..parsed

\* While nothing was spoilt, the label is or will be what the log said last where it was read, unless
\* a line is yet to be read that is sure to tell.
OneScan == \A t \in Scanners : scan[t].pc # "idle" => scan[t].bound /\ \A u \in Scanners \ {t} : scan[u].pc = "idle"
CleanInv(e) ==
    /\ bound /\ OneScan /\ \E i \in 1..Len(lines) : TellsSurely(i)
    /\ FreshLine \/ WillSay(e)

\* The tailer and the label follow who hears the lines one after the other.
FollowsWho(g) ==
    /\ HeardBy(g, lines)
    /\ tail.file = file => Alike(tail, g[tail.offset].tail)
    /\ clean => CleanInv(g[ReadSoFar].last)
LogInv == LogTypes /\ \E g : FollowsWho(g)

LEMMA LogBegins == LogInit => LogInv
<1>. SUFFICES ASSUME LogInit PROVE LogInv
  OBVIOUS
<1>1. LogTypes
  BY LogTypesBegin
<1>2. PICK g : HeardBy(g, lines)
  <2>1. lines \in Seq(LineKinds)
    BY DEF LogInit
  <2>. QED BY <2>1, VerdictIs
<1>3. tail.file # file /\ clean = FALSE
  BY DEF LogInit, NoTail
<1>. QED BY <1>1, <1>2, <1>3 DEF LogInv, FollowsWho

LEMMA LogSaysSo == LogInv => LabelFollowsLog
<1>. SUFFICES ASSUME LogInv, clean, Quiet, tail.file = file, tail.offset = Len(lines)
              PROVE  /\ Verdict \in Down => shown = "ready" /\ gone
                     /\ Verdict \in Up => shown = "in_game" /\ ~ gone
  BY DEF LabelFollowsLog
<1>1. PICK g : HeardBy(g, lines) /\ CleanInv(g[ReadSoFar].last)
  BY DEF LogInv, FollowsWho
<1>2. lines \in Seq(LineKinds)
  BY LogAssumption DEF LogInv, LogTypes, LogAssumption
<1>3. Verdict = g[Len(lines)].last
  BY <1>1, <1>2, VerdictIs, HeardOnce
<1>4. PICK n \in Nat : n = Len(lines)
  BY <1>2
<1>5. ReadSoFar = n
  BY <1>4 DEF ReadSoFar
<1>6. ~ FreshLine
  BY <1>4, <1>5 DEF FreshLine
<1>7. WillSay(Verdict)
  BY <1>1, <1>3, <1>4, <1>5, <1>6 DEF CleanInv
<1>8. Labelled(Verdict)
  BY <1>7 DEF WillSay, Quiet
<1>. QED BY <1>8 DEF Labelled

\* One step of a scan, while it is the only one.
LEMMA ScanGoesOn ==
    ASSUME LogTypes, OneScan, NEW t \in Scanners, scan[t].pc # "idle", NEW r, scan' = [scan EXCEPT ![t] = r],
           r.pc = "idle" \/ r.bound = scan[t].bound
    PROVE  /\ scan[t].bound /\ OneScan' /\ scan'[t] = r
           /\ \A u \in Scanners \ {t} : scan'[u] = scan[u] /\ scan[u].pc = "idle" /\ scan[u].label = "none"
<1>1. scan \in [Scanners -> ScanRecord] /\ \A u \in Scanners : ScanFits(scan[u], parsed)
  BY DEF LogTypes
<1>2. scan'[t] = r /\ \A u \in Scanners \ {t} : scan'[u] = scan[u]
  BY <1>1
<1>3. scan[t].bound /\ \A u \in Scanners \ {t} : scan[u].pc = "idle"
  BY DEF OneScan
<1>4. \A u \in Scanners \ {t} : scan[u].label = "none"
  BY <1>1, <1>3 DEF ScanFits
<1>5. OneScan'
  <2>. SUFFICES ASSUME NEW u \in Scanners, scan'[u].pc # "idle"
                PROVE  scan'[u].bound /\ \A w \in Scanners \ {u} : scan'[w].pc = "idle"
    BY DEF OneScan
  <2>1. u = t
    BY <1>2, <1>3
  <2>. QED BY <1>2, <1>3, <2>1
<1>. QED BY <1>2, <1>3, <1>4, <1>5

\* A scan that begins is the only one.
LEMMA CleanBegins ==
    ASSUME LogTypes, NEW e, clean => CleanInv(e), NEW t \in Scanners, BeginScan(t), clean'
    PROVE  CleanInv(e)'
<1>1. /\ clean' = (clean /\ Quiet)
      /\ scan' = [scan EXCEPT ![t] = [NoScan EXCEPT !.pc = "reconcile", !.bound = bound]]
      /\ UNCHANGED <<lines, file, bound, tail, history, parsed, seenEvents, gone, shown>>
  BY DEF BeginScan, To
<1>2. Quiet /\ CleanInv(e)
  BY <1>1
<1>3. PICK r : r = [NoScan EXCEPT !.pc = "reconcile", !.bound = bound]
  OBVIOUS
<1>4. r.pc = "reconcile" /\ r.label = "none" /\ r.bound = bound
  BY <1>3 DEF NoScan
<1>5. scan'[t] = r /\ \A u \in Scanners \ {t} : scan'[u] = scan[u] /\ scan[u].pc = "idle" /\ scan[u].label = "none"
  BY <1>1, <1>2, <1>3 DEF LogTypes, Quiet, ScanFits
<1>6. bound' /\ OneScan' /\ \E i \in 1..Len(lines') : TellsSurely(i)'
  BY <1>1, <1>2, <1>4, <1>5 DEF CleanInv, OneScan, TellsSurely
<1>7. FreshLine' = FreshLine
  BY <1>1 DEF FreshLine, ReadSoFar, TellsSurely
<1>8. ASSUME WillSay(e) PROVE WillSay(e)'
  <2>1. \A u \in Scanners : scan'[u].label = "none" /\ scan'[u].pc # "apply" /\ scan[u].pc # "apply"
    BY <1>2, <1>4, <1>5 DEF Quiet
  <2>2. e \in Telling /\ Labelled(e) /\ seenEvents = 1..parsed
    BY <1>8, <2>1 DEF WillSay
  <2>3. Labelled(e)' /\ seenEvents' = 1..parsed'
    BY <1>1, <2>2 DEF Labelled
  <2>. QED BY <2>1, <2>2, <2>3 DEF WillSay
<1>. QED BY <1>2, <1>6, <1>7, <1>8 DEF CleanInv

\* A step of a scan that neither reads nor applies.
LEMMA CleanDecides ==
    ASSUME LogTypes, NEW e, CleanInv(e), NEW t \in Scanners, Decide(t)
    PROVE  CleanInv(e)'
<1>1. PICK complete \in BOOLEAN :
         scan' = [scan EXCEPT ![t] = [scan[t] EXCEPT
                     !.pc = IF complete THEN "read" ELSE "lost",
                     !.label = IF complete /\ scan[t].bound /\ shown # "ready" THEN Wanted ELSE "none"]]
  BY DEF Decide, To
<1>2. scan[t].pc = "reconcile" /\ UNCHANGED <<lines, file, bound, tail, history, parsed, seenEvents, gone, shown, scans, clean>>
  BY DEF Decide
<1>3. PICK p, q : p = (IF complete THEN "read" ELSE "lost")
                  /\ q = (IF complete /\ scan[t].bound /\ shown # "ready" THEN Wanted ELSE "none")
  OBVIOUS
<1>4. PICK r : r = [scan[t] EXCEPT !.pc = p, !.label = q]
  OBVIOUS
<1>5. r.pc \in {"read", "lost"} /\ r.label = q /\ r.bound = scan[t].bound
  BY <1>3, <1>4 DEF LogTypes, ScanRecord
<1>6. scan' = [scan EXCEPT ![t] = r]
  BY <1>1, <1>3, <1>4
<1>7. /\ OneScan' /\ scan'[t] = r
      /\ \A u \in Scanners \ {t} : scan'[u] = scan[u] /\ scan[u].pc = "idle" /\ scan[u].label = "none"
  BY <1>2, <1>5, <1>6, ScanGoesOn DEF CleanInv
<1>8. FreshLine' = FreshLine /\ bound' /\ \E i \in 1..Len(lines') : TellsSurely(i)'
  BY <1>2 DEF FreshLine, ReadSoFar, TellsSurely, CleanInv
<1>9. ASSUME WillSay(e) PROVE WillSay(e)'
  <2>1. \A u \in Scanners : scan[u].pc # "apply"
    BY <1>2, <1>7
  <2>2. e \in Telling /\ Labelled(e) /\ seenEvents = 1..parsed
    BY <1>9, <2>1 DEF WillSay
  <2>3. Wanted = shown \/ shown = "ready"
    BY <2>2 DEF Wanted, Labelled, Telling, Up, Down
  <2>4. q \in {"none", shown}
    BY <1>3, <2>3
  <2>5. \A u \in Scanners : scan'[u].label \in {"none", shown} /\ scan'[u].pc # "apply"
    BY <1>5, <1>7, <2>4
  <2>6. Labelled(e)' /\ seenEvents' = 1..parsed' /\ shown' = shown
    BY <1>2, <2>2 DEF Labelled
  <2>. QED BY <2>2, <2>5, <2>6 DEF WillSay
<1>. QED BY <1>7, <1>8, <1>9 DEF CleanInv

LEMMA CleanRelabels ==
    ASSUME LogTypes, NEW e, CleanInv(e), NEW t \in Scanners, Relabel(t)
    PROVE  CleanInv(e)'
<1>1. /\ scan[t].label # "none" /\ shown' = scan[t].label
      /\ scan' = [scan EXCEPT ![t] = [scan[t] EXCEPT !.label = "none"]]
      /\ UNCHANGED <<lines, file, bound, tail, history, parsed, seenEvents, gone, scans, clean>>
  BY DEF Relabel, To
<1>2. PICK r : r = [scan[t] EXCEPT !.label = "none"]
  OBVIOUS
<1>3. r.pc = scan[t].pc /\ r.label = "none" /\ r.bound = scan[t].bound
  BY <1>2 DEF LogTypes, ScanRecord
<1>4. scan[t].pc \in {"reconcile", "read", "lost"}
  BY <1>1 DEF LogTypes, ScanFits
<1>5. scan' = [scan EXCEPT ![t] = r]
  BY <1>1, <1>2
<1>6. /\ OneScan' /\ scan'[t] = r
      /\ \A u \in Scanners \ {t} : scan'[u] = scan[u] /\ scan[u].pc = "idle" /\ scan[u].label = "none"
  BY <1>3, <1>4, <1>5, ScanGoesOn DEF CleanInv
<1>7. FreshLine' = FreshLine /\ bound' /\ \E i \in 1..Len(lines') : TellsSurely(i)'
  BY <1>1 DEF FreshLine, ReadSoFar, TellsSurely, CleanInv
<1>8. ASSUME WillSay(e) PROVE WillSay(e)'
  <2>1. shown' = shown
    BY <1>1, <1>8 DEF WillSay
  <2>2. \A u \in Scanners : scan'[u].label = "none" /\ scan'[u].pc # "apply" /\ scan[u].pc # "apply"
    BY <1>3, <1>4, <1>6
  <2>3. e \in Telling /\ Labelled(e) /\ seenEvents = 1..parsed
    BY <1>8, <2>2 DEF WillSay
  <2>4. Labelled(e)' /\ seenEvents' = 1..parsed'
    BY <1>1, <2>1, <2>3 DEF Labelled
  <2>. QED BY <2>2, <2>3, <2>4 DEF WillSay
<1>. QED BY <1>6, <1>7, <1>8 DEF CleanInv

\* An event is applied: it was seen, or the label says what it says.
LEMMA CleanApplies ==
    ASSUME LogTypes, NEW e, CleanInv(e), NEW t \in Scanners, ApplyEvent(t)
    PROVE  CleanInv(e)'
<1>1. PICK h : h = Head(scan[t].todo)
  OBVIOUS
<1>2. /\ scan[t].pc = "apply" /\ scan[t].todo # <<>>
      /\ scan' = [scan EXCEPT ![t] = [scan[t] EXCEPT !.todo = Tail(scan[t].todo), !.keys = @ \cup {h.at}]]
      /\ IF ~ Skipped(t, h) /\ h.kind \in Up \cup Down
         THEN gone' = (h.kind \in Down) /\ shown' = IF h.kind \in Down THEN "ready" ELSE "in_game"
         ELSE UNCHANGED <<gone, shown>>
      /\ UNCHANGED <<lines, file, bound, tail, history, parsed, seenEvents, scans>>
  BY <1>1 DEF ApplyEvent, To
<1>3. PICK q \in ScanRecord : q = scan[t] /\ q.todo \in Seq(Events) /\ q.keys \in SUBSET Nat
  BY DEF LogTypes, ScanRecord
<1>4. PICK td : td = Tail(q.todo)
  OBVIOUS
<1>5. PICK n \in Nat : n = Len(q.todo)
  BY <1>3
<1>6. n > 0 /\ td \in Seq(Events) /\ Len(td) = n - 1 /\ h = q.todo[1] /\ \A i \in 1..(n - 1) : td[i] = q.todo[i + 1]
  BY <1>1, <1>2, <1>3, <1>4, <1>5
<1>7. DOMAIN q.todo = 1..n /\ DOMAIN td = 1..(n - 1) /\ 1 \in 1..n /\ \A i \in 1..(n - 1) : i + 1 \in 1..n
  BY <1>3, <1>5, <1>6
<1>8. h \in Events
  BY <1>3, <1>5, <1>6, <1>7
<1>9. PICK r1 : r1 = [q EXCEPT !.todo = td]
  OBVIOUS
<1>10. PICK r : r = [r1 EXCEPT !.keys = @ \cup {h.at}]
  OBVIOUS
<1>11. r.keys = q.keys \union {h.at} /\ r.todo = td /\ r.pc = "apply" /\ r.label = q.label /\ r.bound = q.bound
  <2>1. r1 \in ScanRecord /\ r1.keys = q.keys /\ r1.todo = td /\ r1.pc = q.pc /\ r1.label = q.label /\ r1.bound = q.bound
    BY <1>3, <1>6, <1>9 DEF ScanRecord
  <2>. QED BY <1>2, <1>3, <1>10, <2>1 DEF ScanRecord
<1>12. scan' = [scan EXCEPT ![t] = r]
  BY <1>2, <1>3, <1>4, <1>9, <1>10
<1>13. /\ q.bound /\ OneScan' /\ scan'[t] = r
       /\ \A u \in Scanners \ {t} : scan'[u] = scan[u] /\ scan[u].pc = "idle" /\ scan[u].label = "none"
  BY <1>2, <1>3, <1>11, <1>12, ScanGoesOn DEF CleanInv
<1>14. FreshLine' = FreshLine /\ bound' /\ \E i \in 1..Len(lines') : TellsSurely(i)'
  BY <1>2 DEF FreshLine, ReadSoFar, TellsSurely, CleanInv
<1>15. ASSUME WillSay(e) PROVE WillSay(e)'
  <2>0. q.label = "none"
    BY <1>2, <1>3 DEF LogTypes, ScanFits
  <2>1. e \in Telling /\ q.keys \union Ats(q.todo) = 1..parsed
        /\ (LastUnseen(q.todo, e) \/ (Unseen(q.todo) = {} /\ Labelled(e)))
    BY <1>2, <1>3, <1>15 DEF WillSay
  <2>2. r.keys \union Ats(td) = 1..parsed
    <3>1. Ats(q.todo) = {q.todo[i].at : i \in 1..n} /\ Ats(td) = {q.todo[i + 1].at : i \in 1..(n - 1)}
      BY <1>6, <1>7 DEF Ats
    <3>2. \A i \in 1..n : i = 1 \/ (i - 1 \in 1..(n - 1) /\ (i - 1) + 1 = i)
      OBVIOUS
    <3>3. Ats(q.todo) = {h.at} \union Ats(td)
      <4>1. \A i \in 1..(n - 1) : q.todo[i + 1].at \in {q.todo[j].at : j \in 1..n}
        BY <1>7
      <4>2. Ats(td) \subseteq Ats(q.todo)
        BY <3>1, <4>1
      <4>3. \A i \in 1..n : q.todo[i].at = h.at \/ q.todo[i].at \in Ats(td)
        <5>1. ASSUME NEW i \in 1..n, i # 1 PROVE q.todo[i].at \in Ats(td)
          <6>1. i - 1 \in 1..(n - 1) /\ (i - 1) + 1 = i
            BY <3>2, <5>1
          <6>. QED BY <3>1, <6>1
        <5>. QED BY <1>6, <5>1
      <4>4. h.at \in Ats(q.todo)
        BY <1>6, <1>7, <3>1
      <4>. QED BY <3>1, <4>2, <4>3, <4>4
    <3>. QED BY <1>11, <2>1, <3>3
  <2>3. PICK old : old = Unseen(q.todo)
    OBVIOUS
  <2>4. \A i \in 1..n : i \in old <=> q.todo[i].at \notin seenEvents /\ q.todo[i].kind \in Telling
    BY <1>7, <2>3 DEF Unseen
  <2>5. \A i \in 1..(n - 1) : i \in Unseen(td) <=> i + 1 \in old
    BY <1>6, <1>7, <2>4 DEF Unseen
  <2>6. Unseen(td) \subseteq 1..(n - 1) /\ old \subseteq 1..n
    BY <1>7, <2>3 DEF Unseen
  <2>7. Unseen(td)' = Unseen(td) /\ \A d : LastUnseen(td, d)' = LastUnseen(td, d)
    BY <1>2 DEF Unseen, LastUnseen
  <2>8. 1 \in old <=> ~ Skipped(t, h) /\ h.kind \in Telling
    BY <1>3, <1>6, <1>7, <1>13, <2>4 DEF Skipped
  <2>9. LastUnseen(td, e)' \/ (Unseen(td)' = {} /\ Labelled(e)')
    <3>1. CASE LastUnseen(q.todo, e)
      <4>1. PICK i \in 1..n : i \in old /\ q.todo[i].kind = e /\ \A j \in old : j <= i
        BY <2>3, <2>6, <3>1 DEF LastUnseen
      <4>2. CASE i = 1
        <5>1. Unseen(td) = {}
          <6>1. \A j \in 1..(n - 1) : ~ (j + 1 <= 1)
            OBVIOUS
          <6>. QED BY <2>5, <2>6, <4>1, <4>2, <6>1
        <5>2. ~ Skipped(t, h) /\ h.kind = e
          BY <1>6, <2>8, <4>1, <4>2
        <5>3. gone' = (e \in Down) /\ shown' = IF e \in Down THEN "ready" ELSE "in_game"
          BY <1>2, <2>1, <5>2 DEF Telling
        <5>4. Labelled(e)'
          BY <5>3 DEF Labelled, Up, Down
        <5>. QED BY <2>7, <5>1, <5>4
      <4>3. CASE i # 1
        <5>1. i - 1 \in 1..(n - 1) /\ (i - 1) + 1 = i
          BY <4>1, <4>3
        <5>2. i - 1 \in Unseen(td) /\ td[i - 1].kind = e
          BY <1>6, <2>5, <4>1, <5>1
        <5>3. \A j \in Unseen(td) : j <= i - 1
          <6>1. ASSUME NEW j \in Unseen(td) PROVE j <= i - 1
            <7>1. j \in 1..(n - 1) /\ j + 1 \in old
              BY <2>5, <2>6
            <7>2. j + 1 <= i
              BY <4>1, <7>1
            <7>. QED BY <7>1, <7>2
          <6>. QED BY <6>1
        <5>4. LastUnseen(td, e)
          BY <5>2, <5>3 DEF LastUnseen
        <5>. QED BY <2>7, <5>4
      <4>. QED BY <4>2, <4>3
    <3>2. CASE Unseen(q.todo) = {} /\ Labelled(e)
      <4>1. old = {} /\ Unseen(td) = {}
        BY <2>3, <2>5, <2>6, <3>2
      <4>2. UNCHANGED <<gone, shown>>
        BY <1>2, <2>8, <4>1 DEF Telling
      <4>3. Labelled(e)'
        BY <3>2, <4>2 DEF Labelled
      <4>. QED BY <2>7, <4>1, <4>3
    <3>. QED BY <2>1, <3>1, <3>2
  <2>10. \A u \in Scanners : scan'[u].label = "none"
    BY <1>11, <1>13, <2>0
  <2>11. ASSUME NEW u \in Scanners, scan'[u].pc = "apply"
         PROVE  /\ scan'[u].keys \union Ats(scan'[u].todo) = 1..parsed'
                /\ LastUnseen(scan[u].todo, e)' \/ (Unseen(scan[u].todo)' = {} /\ Labelled(e)')
    <3>1. u = t
      BY <1>13, <2>11
    <3>2. scan'[u] = r /\ r.todo = td
      BY <1>11, <1>13, <3>1
    <3>3. LastUnseen(scan[u].todo, e)' = LastUnseen(td, e)' /\ Unseen(scan[u].todo)' = Unseen(td)'
      BY <3>2 DEF LastUnseen, Unseen
    <3>. QED BY <1>2, <2>2, <2>9, <3>2, <3>3
  <2>12. ~ \A u \in Scanners : scan'[u].pc # "apply"
    BY <1>11, <1>13
  <2>13. \A u \in Scanners : Ats(scan[u].todo)' = Ats(scan'[u].todo)
    BY DEF Ats
  <2>. QED BY <2>1, <2>10, <2>11, <2>12, <2>13 DEF WillSay
<1>. QED BY <1>13, <1>14, <1>15 DEF CleanInv

LEMMA CleanEnds ==
    ASSUME LogTypes, NEW e, CleanInv(e), NEW t \in Scanners, EndScan(t)
    PROVE  CleanInv(e)'
<1>1. /\ scan[t].pc = "apply" /\ scan[t].todo = <<>> /\ seenEvents' = scan[t].keys /\ scan' = [scan EXCEPT ![t] = NoScan]
      /\ UNCHANGED <<lines, file, bound, tail, history, parsed, gone, shown, scans, clean>>
  BY DEF EndScan, To
<1>2. NoScan.pc = "idle" /\ NoScan.label = "none"
  BY DEF NoScan
<1>3. /\ OneScan' /\ scan'[t] = NoScan
      /\ \A u \in Scanners \ {t} : scan'[u] = scan[u] /\ scan[u].pc = "idle" /\ scan[u].label = "none"
  BY <1>1, <1>2, ScanGoesOn DEF CleanInv
<1>4. FreshLine' = FreshLine /\ bound' /\ \E i \in 1..Len(lines') : TellsSurely(i)'
  BY <1>1 DEF FreshLine, ReadSoFar, TellsSurely, CleanInv
<1>5. ASSUME WillSay(e) PROVE WillSay(e)'
  <2>1. e \in Telling /\ scan[t].keys \union Ats(scan[t].todo) = 1..parsed
        /\ (LastUnseen(scan[t].todo, e) \/ (Unseen(scan[t].todo) = {} /\ Labelled(e)))
    BY <1>1, <1>5 DEF WillSay
  <2>2. Ats(scan[t].todo) = {} /\ Unseen(scan[t].todo) = {}
    BY <1>1 DEF Ats, Unseen
  <2>3. Labelled(e) /\ scan[t].keys = 1..parsed
    BY <2>1, <2>2 DEF LastUnseen
  <2>4. Labelled(e)' /\ seenEvents' = 1..parsed'
    BY <1>1, <2>3 DEF Labelled
  <2>5. \A u \in Scanners : scan'[u].label = "none" /\ scan'[u].pc # "apply"
    BY <1>2, <1>3
  <2>. QED BY <2>1, <2>4, <2>5 DEF WillSay
<1>. QED BY <1>3, <1>4, <1>5 DEF CleanInv

\* A poll: the scan takes what it has read for what is new.
LEMMA CleanReads ==
    ASSUME LogTypes, NEW g, FollowsWho(g), NEW t \in Scanners, ReadLog(t)
    PROVE  FollowsWho(g)'
<1>0. HeardBy(g, lines) /\ (tail.file = file => Alike(tail, g[tail.offset].tail)) /\ (clean => CleanInv(g[ReadSoFar].last))
  BY DEF FollowsWho
<1>1. PICK new : new = NewEvents(Polled.events, parsed)
  OBVIOUS
<1>2. PICK both : both = history \o new
  OBVIOUS
<1>3. /\ tail' = Polled.tail /\ history' = both /\ parsed' = parsed + Len(new)
      /\ clean' = (clean /\ ~ Contains(Polled.events, "events_dropped"))
      /\ scan' = [scan EXCEPT ![t] = [scan[t] EXCEPT !.pc = "apply", !.todo = both]]
      /\ scan[t].pc = "read" /\ scan[t].label = "none"
      /\ UNCHANGED <<lines, file, bound, seenEvents, gone, shown, scans>>
  BY <1>1, <1>2 DEF ReadLog, To, NewEvents
<1>4. PICK n \in Nat, o \in Nat :
         /\ o = ReadSoFar /\ o + n <= Len(lines)
         /\ Polled.tail \in Tails /\ Polled.tail.file = file /\ Polled.tail.offset = o + n
         /\ Polled.events \in Seq(EventKinds) /\ Alike(Polled.tail, g[o + n].tail)
         /\ \/ Dropped(Polled.events)
            \/ /\ ToldBy(Polled.events) = {} /\ g[o + n].last = g[o].last
               /\ \A i \in (o + 1)..(o + n) : ~ TellsSurely(i)
            \/ LastTold(Polled.events, g[o + n].last)
  BY <1>0, PolledIs
<1>5. PICK es \in Seq(EventKinds) : es = Polled.events
  BY <1>4
<1>6. PICK q \in Nat : q = Len(es)
  OBVIOUS
<1>7. PICK p \in Nat : p = parsed
  BY DEF LogTypes
<1>8. JoinedTo(both, es, p, q) /\ Len(new) = q /\ parsed' = p + q
  <2>1. Numbered(history, p)
    BY <1>7 DEF Numbered, LogTypes
  <2>2. JoinedTo(both, es, p, q) /\ Len(new) = q
    BY <1>1, <1>2, <1>5, <1>6, <1>7, <2>1, HistoryGrows
  <2>. QED BY <1>3, <1>7, <2>2
<1>9. tail'.file = file' /\ tail'.offset = o + n /\ ReadSoFar' = o + n /\ Alike(tail', g[o + n].tail)
  BY <1>3, <1>4 DEF ReadSoFar
<1>10. PICK e2 : e2 = g[o + n].last
  OBVIOUS
<1>11. ASSUME CleanInv(g[o].last), clean' PROVE CleanInv(e2)'
  <2>1. PICK r : r = [scan[t] EXCEPT !.pc = "apply", !.todo = both]
    OBVIOUS
  <2>2. r.pc = "apply" /\ r.todo = both /\ r.bound = scan[t].bound /\ r.label = "none" /\ r.keys = {}
    BY <1>3, <2>1 DEF LogTypes, ScanRecord, ScanFits
  <2>3. scan' = [scan EXCEPT ![t] = r]
    BY <1>3, <2>1
  <2>4. /\ OneScan' /\ scan'[t] = r
        /\ \A u \in Scanners \ {t} : scan'[u] = scan[u] /\ scan[u].pc = "idle" /\ scan[u].label = "none"
    BY <1>3, <1>11, <2>2, <2>3, ScanGoesOn DEF CleanInv
  <2>5. bound' /\ \E i \in 1..Len(lines') : TellsSurely(i)'
    BY <1>3, <1>11 DEF TellsSurely, CleanInv
  <2>6. ASSUME ~ FreshLine' PROVE WillSay(e2)'
    <3>1. \A i \in (o + n + 1)..Len(lines) : ~ TellsSurely(i)
      BY <1>3, <1>9, <2>6 DEF FreshLine, TellsSurely
    <3>2. ~ Dropped(es)
      <4>1. ~ Contains(es, "events_dropped")
        BY <1>3, <1>5, <1>11
      <4>2. \A i \in DOMAIN es : es[i] # "events_dropped"
        BY <4>1 DEF Contains
      <4>. QED BY <4>2 DEF Dropped
    <3>3. Ats(both) = 1..(p + q) /\ DOMAIN both = 1..(p + q)
      <4>1. DOMAIN both = 1..(p + q) /\ \A i \in 1..(p + q) : both[i].at = i
        BY <1>8 DEF JoinedTo, Numbered
      <4>2. Ats(both) = {both[i].at : i \in 1..(p + q)}
        BY <4>1 DEF Ats
      <4>. QED BY <4>1, <4>2
    <3>4. seenEvents \subseteq 1..p
      BY <1>7 DEF LogTypes
    <3>5. PICK some : some = Unseen(both)'
      OBVIOUS
    <3>6. \A i \in 1..(p + q) : both[i].at = i
      BY <1>8 DEF JoinedTo, Numbered
    <3>7. \A i : i \in some <=> i \in 1..(p + q) /\ i \notin seenEvents /\ both[i].kind \in Telling
      BY <1>3, <3>3, <3>5, <3>6 DEF Unseen
    <3>8. \A i \in 1..(p + q) : i > p => i - p \in 1..q /\ both[i].kind = es[i - p]
      BY <1>8 DEF JoinedTo
    <3>9. \A i \in 1..q : p + i \in 1..(p + q) /\ both[p + i].kind = es[i]
      BY <1>8 DEF JoinedTo
    <3>10. \A i : i \in ToldBy(es) <=> i \in 1..q /\ es[i] \in Telling
      BY <1>6 DEF ToldBy
    <3>11. e2 \in Telling /\ (LastUnseen(both, e2)' \/ (Unseen(both)' = {} /\ Labelled(e2)'))
      <4>1. CASE ToldBy(es) = {} /\ e2 = g[o].last /\ \A i \in (o + 1)..(o + n) : ~ TellsSurely(i)
        <5>1. ~ FreshLine
          <6>1. PICK l \in Nat : l = Len(lines)
            BY DEF LogTypes
          <6>2. \A i \in (o + 1)..l : i \in (o + 1)..(o + n) \/ i \in (o + n + 1)..l
            OBVIOUS
          <6>. QED BY <1>4, <3>1, <4>1, <6>1, <6>2 DEF FreshLine
        <5>2. WillSay(e2)
          BY <1>11, <4>1, <5>1 DEF CleanInv
        <5>3. \A u \in Scanners : scan[u].pc # "apply"
          BY <1>3, <2>4
        <5>4. e2 \in Telling /\ Labelled(e2) /\ seenEvents = 1..p
          BY <1>7, <5>2, <5>3 DEF WillSay
        <5>5. some = {}
          <6>1. ASSUME NEW i \in some PROVE FALSE
            <7>1. i \in 1..(p + q) /\ i \notin 1..p /\ both[i].kind \in Telling
              BY <3>7, <5>4
            <7>2. i > p
              BY <7>1
            <7>3. i - p \in ToldBy(es)
              BY <3>8, <3>10, <7>1, <7>2
            <7>. QED BY <4>1, <7>3
          <6>. QED BY <6>1
        <5>6. Labelled(e2)'
          BY <1>3, <5>4 DEF Labelled
        <5>. QED BY <3>5, <5>4, <5>5, <5>6
      <4>2. CASE LastTold(es, e2)
        <5>1. PICK i \in 1..q : i \in ToldBy(es) /\ es[i] = e2 /\ \A j \in ToldBy(es) : j <= i
          BY <3>10, <4>2 DEF LastTold
        <5>2. p + i \in 1..(p + q) /\ both[p + i].kind = e2 /\ p + i \notin 1..p /\ e2 \in Telling
          BY <3>9, <3>10, <5>1
        <5>3. p + i \in some
          BY <3>4, <3>7, <5>2
        <5>4. ASSUME NEW j \in some PROVE j <= p + i
          <6>1. j \in 1..(p + q) /\ both[j].kind \in Telling
            BY <3>7
          <6>2. CASE j > p
            <7>1. j - p \in ToldBy(es)
              BY <3>8, <3>10, <6>1, <6>2
            <7>2. j - p <= i
              BY <5>1, <7>1
            <7>. QED BY <6>1, <7>2
          <6>. QED BY <6>1, <6>2
        <5>5. LastUnseen(both, e2)'
          <6>1. \E k \in some : both[k].kind = e2 /\ \A j \in some : j <= k
            BY <5>2, <5>3, <5>4
          <6>. QED BY <3>5, <6>1 DEF LastUnseen
        <5>. QED BY <5>2, <5>5
      <4>. QED BY <1>4, <1>5, <1>10, <3>2, <4>1, <4>2
    <3>12. \A u \in Scanners : scan'[u].label = "none"
      BY <2>2, <2>4
    <3>13. ASSUME NEW u \in Scanners, scan'[u].pc = "apply"
           PROVE  /\ scan'[u].keys \union Ats(scan'[u].todo) = 1..parsed'
                  /\ LastUnseen(scan[u].todo, e2)' \/ (Unseen(scan[u].todo)' = {} /\ Labelled(e2)')
      <4>1. u = t
        BY <2>4, <3>13
      <4>2. scan'[u] = r /\ r.todo = both /\ r.keys = {}
        BY <2>2, <2>4, <4>1
      <4>3. LastUnseen(scan[u].todo, e2)' = LastUnseen(both, e2)' /\ Unseen(scan[u].todo)' = Unseen(both)'
        BY <4>2 DEF LastUnseen, Unseen
      <4>. QED BY <1>8, <3>3, <3>11, <4>2, <4>3
    <3>14. ~ \A u \in Scanners : scan'[u].pc # "apply"
      BY <2>2, <2>4
    <3>15. \A u \in Scanners : Ats(scan[u].todo)' = Ats(scan'[u].todo)
      BY DEF Ats
    <3>. QED BY <3>11, <3>12, <3>13, <3>14, <3>15 DEF WillSay
  <2>. QED BY <2>4, <2>5, <2>6 DEF CleanInv
<1>12. HeardBy(g, lines)' /\ (tail'.file = file' => Alike(tail', g[tail'.offset].tail))
  BY <1>0, <1>3, <1>9
<1>13. clean' => CleanInv(g[ReadSoFar].last)'
  <2>. SUFFICES ASSUME clean' PROVE CleanInv(g[ReadSoFar].last)'
    OBVIOUS
  <2>1. CleanInv(g[o].last)
    BY <1>0, <1>3, <1>4
  <2>2. CleanInv(e2)' /\ (g[ReadSoFar].last)' = e2
    BY <1>9, <1>10, <1>11, <2>1
  <2>. QED BY <2>2 DEF CleanInv, WillSay, Labelled, LastUnseen
<1>. QED BY <1>12, <1>13 DEF FollowsWho

\* A log that is lost will be read from its start, and a line there is sure to tell.
LEMMA CleanLoses ==
    ASSUME LogTypes, NEW e, CleanInv(e), NEW t \in Scanners, LoseLog(t), NEW d
    PROVE  CleanInv(d)'
<1>1. /\ tail' = NoTail /\ scan[t].pc \in {"read", "lost"} /\ scan[t].label = "none"
      /\ scan' = [scan EXCEPT ![t] = [scan[t] EXCEPT !.pc = "apply", !.todo = history]]
      /\ UNCHANGED <<lines, file, bound, history, parsed, seenEvents, gone, shown, scans, clean>>
  BY DEF LoseLog, To
<1>2. PICK r : r = [scan[t] EXCEPT !.pc = "apply", !.todo = history]
  OBVIOUS
<1>3. r.pc = "apply" /\ r.bound = scan[t].bound
  BY <1>2 DEF LogTypes, ScanRecord
<1>4. scan' = [scan EXCEPT ![t] = r]
  BY <1>1, <1>2
<1>5. OneScan'
  BY <1>1, <1>3, <1>4, ScanGoesOn DEF CleanInv
<1>6. bound' /\ \E i \in 1..Len(lines') : TellsSurely(i)'
  BY <1>1 DEF TellsSurely, CleanInv
<1>7. ReadSoFar' = 0
  BY <1>1 DEF ReadSoFar, NoTail, LogTypes
<1>8. FreshLine'
  BY <1>6, <1>7 DEF FreshLine
<1>. QED BY <1>5, <1>6, <1>8 DEF CleanInv

\* A line is written: who has heard the others goes on.
LEMMA CleanWrites ==
    ASSUME LogTypes, NEW g, FollowsWho(g), NEW k \in Kinds, WriteLine(k)
    PROVE  \E h : FollowsWho(h)'
<1>0. HeardBy(g, lines) /\ (tail.file = file => Alike(tail, g[tail.offset].tail)) /\ (clean => CleanInv(g[ReadSoFar].last))
  BY DEF FollowsWho
<1>1. /\ lines' = Append(lines, k) /\ clean' = (clean \/ (k \in {"join", "disconnect"} /\ bound /\ Quiet))
      /\ UNCHANGED <<file, bound, tail, history, parsed, seenEvents, gone, shown, scan, scans>>
  BY DEF WriteLine
<1>2. lines \in Seq(LineKinds) /\ k \in LineKinds
  BY LogAssumption DEF LogTypes, LogAssumption
<1>3. PICK l \in Nat : l = Len(lines)
  BY <1>2
<1>4. PICK h : HeardBy(h, lines') /\ \A i \in 0..l : h[i] = g[i]
  BY <1>0, <1>1, <1>2, <1>3, OneMoreHeard
<1>5. PICK o \in 0..l : o = ReadSoFar /\ ReadSoFar' = ReadSoFar
  BY <1>1, <1>3 DEF ReadSoFar, LogTypes, Tails
<1>6. tail'.file = file' => Alike(tail', h[tail'.offset].tail)
  <2>. SUFFICES ASSUME tail.file = file PROVE Alike(tail, h[tail.offset].tail)
    BY <1>1
  <2>1. tail.offset = o
    BY <1>5 DEF ReadSoFar
  <2>. QED BY <1>0, <1>4, <2>1
<1>7. Len(lines') = l + 1 /\ lines'[l + 1] = k /\ \A i \in 1..l : lines'[i] = lines[i] /\ i \in 1..(l + 1)
  BY <1>1, <1>2, <1>3
<1>8. PICK e : e = g[o].last /\ e = h[o].last
  BY <1>4
<1>9. ASSUME clean PROVE CleanInv(e)'
  <2>1. CleanInv(e)
    BY <1>0, <1>5, <1>8, <1>9
  <2>2. \E i \in 1..Len(lines') : TellsSurely(i)'
    <3>1. PICK i \in 1..l : TellsSurely(i)
      BY <1>3, <2>1 DEF CleanInv
    <3>. QED BY <1>7, <3>1 DEF TellsSurely
  <2>3. FreshLine => FreshLine'
    <3>. SUFFICES ASSUME FreshLine PROVE FreshLine'
      OBVIOUS
    <3>1. PICK i \in (o + 1)..l : TellsSurely(i)
      BY <1>3, <1>5 DEF FreshLine
    <3>2. i \in 1..l /\ i \in (o + 1)..(l + 1)
      OBVIOUS
    <3>. QED BY <1>5, <1>7, <3>1, <3>2 DEF FreshLine, TellsSurely
  <2>4. WillSay(e) => WillSay(e)'
    BY <1>1 DEF WillSay, Labelled, LastUnseen, Unseen, Ats
  <2>. QED BY <1>1, <2>1, <2>2, <2>3, <2>4 DEF CleanInv, OneScan
<1>10. ASSUME k \in {"join", "disconnect"}, bound, Quiet PROVE CleanInv(e)'
  <2>1. TellsSurely(l + 1)' /\ l + 1 \in (o + 1)..(l + 1) /\ l + 1 \in 1..(l + 1)
    BY <1>7, <1>10 DEF TellsSurely
  <2>2. FreshLine' /\ \E i \in 1..Len(lines') : TellsSurely(i)'
    BY <1>5, <1>7, <2>1 DEF FreshLine
  <2>. QED BY <1>1, <1>10, <2>2 DEF CleanInv, OneScan, Quiet
<1>11. clean' => CleanInv(h[ReadSoFar].last)'
  <2>1. clean' => CleanInv(e)'
    BY <1>1, <1>9, <1>10
  <2>2. (h[ReadSoFar].last)' = e
    BY <1>5, <1>8
  <2>. QED BY <2>1, <2>2 DEF CleanInv, WillSay, Labelled, LastUnseen
<1>12. FollowsWho(h)'
  BY <1>4, <1>6, <1>11 DEF FollowsWho
<1>. QED BY <1>12

\* The other steps leave the log and the tailer alone.
LEMMA CleanStays ==
    ASSUME LogTypes, NEW g, FollowsWho(g), UNCHANGED <<lines, file, tail>>, clean' => CleanInv(g[ReadSoFar].last)'
    PROVE  FollowsWho(g)'
<1>1. HeardBy(g, lines)' /\ (tail'.file = file' => Alike(tail', g[tail'.offset].tail))
  BY DEF FollowsWho, HeardBy
<1>. QED BY <1>1 DEF FollowsWho

LEMMA LogStep == LogInv /\ [LogNext]_logVars => LogInv'
<1>. SUFFICES ASSUME LogInv, [LogNext]_logVars PROVE LogInv'
  OBVIOUS
<1>1. PICK g : LogTypes /\ FollowsWho(g)
  BY DEF LogInv
<1>2. PICK e : e = g[ReadSoFar].last
  OBVIOUS
<1>3. clean => CleanInv(e)
  BY <1>1, <1>2 DEF FollowsWho
<1>4. UNCHANGED <<file, tail>> => ReadSoFar' = ReadSoFar
  BY DEF ReadSoFar
<1>5. ASSUME UNCHANGED <<lines, file, tail>>, clean' => CleanInv(e)' PROVE FollowsWho(g)'
  <2>1. (g[ReadSoFar].last)' = e
    BY <1>2, <1>4, <1>5
  <2>2. clean' => CleanInv(g[ReadSoFar].last)'
    BY <1>5, <2>1 DEF CleanInv, WillSay, Labelled, LastUnseen
  <2>. QED BY <1>1, <1>5, <2>2, CleanStays
<1>6. CASE UNCHANGED logVars
  <2>1. LogTypes'
    BY <1>1, <1>6 DEF logVars, LogTypes
  <2>2. CleanInv(e) => CleanInv(e)'
    <3>1. UNCHANGED <<lines, file, bound, tail, parsed, seenEvents, gone, shown, scan>>
      BY <1>6 DEF logVars
    <3>2. FreshLine' = FreshLine /\ (WillSay(e) => WillSay(e)')
      BY <3>1 DEF FreshLine, ReadSoFar, TellsSurely, WillSay, Labelled, LastUnseen, Unseen, Ats
    <3>. QED BY <3>1, <3>2 DEF CleanInv, OneScan, TellsSurely
  <2>. QED BY <1>3, <1>5, <1>6, <2>1, <2>2 DEF logVars, LogInv
<1>7. CASE LogNext
  <2>1. LogTypes'
    BY <1>1, <1>7, LogTypesStep DEF FollowsWho
  <2>2. ASSUME NEW k \in Kinds, WriteLine(k) PROVE LogInv'
    BY <1>1, <2>1, <2>2, CleanWrites DEF LogInv
  <2>3. ASSUME ReplaceFile PROVE LogInv'
    <3>1. lines' = <<>> /\ clean' = FALSE /\ tail'.file # file'
      BY <1>1, <2>3 DEF ReplaceFile, LogTypes, Tails
    <3>2. PICK h : h = [i \in 0..0 |-> NoneHeard]
      OBVIOUS
    <3>3. HeardBy(h, <<>>)
      BY <3>2, NoTailIs DEF HeardBy
    <3>4. FollowsWho(h)'
      BY <3>1, <3>3 DEF FollowsWho
    <3>. QED BY <2>1, <3>4 DEF LogInv
  <2>4. ASSUME AccountKnown PROVE LogInv'
    <3>1. ~ clean' /\ UNCHANGED <<lines, file, tail>>
      BY <1>3, <2>4 DEF AccountKnown, CleanInv
    <3>. QED BY <1>5, <2>1, <3>1 DEF LogInv
  <2>5. ASSUME NEW t \in Scanners, BeginScan(t) PROVE LogInv'
    <3>1. UNCHANGED <<lines, file, tail>>
      BY <2>5 DEF BeginScan
    <3>2. clean' => CleanInv(e)'
      BY <1>1, <1>3, <2>5, CleanBegins
    <3>. QED BY <1>5, <2>1, <3>1, <3>2 DEF LogInv
  <2>6. ASSUME NEW t \in Scanners, Decide(t) PROVE LogInv'
    BY <1>1, <1>3, <1>5, <2>1, <2>6, CleanDecides DEF LogInv, Decide
  <2>7. ASSUME NEW t \in Scanners, Relabel(t) PROVE LogInv'
    BY <1>1, <1>3, <1>5, <2>1, <2>7, CleanRelabels DEF LogInv, Relabel
  <2>8. ASSUME NEW t \in Scanners, ReadLog(t) PROVE LogInv'
    BY <1>1, <2>1, <2>8, CleanReads DEF LogInv
  <2>9. ASSUME NEW t \in Scanners, LoseLog(t) PROVE LogInv'
    <3>1. clean' = clean /\ lines' = lines /\ tail' = NoTail /\ file' = file
      BY <2>9 DEF LoseLog
    <3>2. HeardBy(g, lines)' /\ tail'.file # file'
      BY <1>1, <3>1 DEF FollowsWho, HeardBy, NoTail, LogTypes
    <3>3. PICK d : d = (g[ReadSoFar].last)'
      OBVIOUS
    <3>4. clean' => CleanInv(d)'
      BY <1>1, <1>3, <2>9, <3>1, CleanLoses
    <3>5. clean' => CleanInv(g[ReadSoFar].last)'
      BY <3>3, <3>4 DEF CleanInv, WillSay, Labelled, LastUnseen
    <3>6. FollowsWho(g)'
      BY <3>2, <3>5 DEF FollowsWho
    <3>. QED BY <2>1, <3>6 DEF LogInv
  <2>10. ASSUME NEW t \in Scanners, ApplyEvent(t) PROVE LogInv'
    <3>1. UNCHANGED <<lines, file, tail>> /\ clean' = (clean /\ scan[t].bound)
      BY <2>10 DEF ApplyEvent
    <3>2. clean => CleanInv(e)'
      BY <1>1, <1>3, <2>10, CleanApplies
    <3>3. clean' => CleanInv(e)'
      BY <3>1, <3>2
    <3>. QED BY <1>5, <2>1, <3>1, <3>3 DEF LogInv
  <2>11. ASSUME NEW t \in Scanners, EndScan(t) PROVE LogInv'
    BY <1>1, <1>3, <1>5, <2>1, <2>11, CleanEnds DEF LogInv, EndScan
  <2>. QED BY <1>7, <2>2, <2>3, <2>4, <2>5, <2>6, <2>7, <2>8, <2>9, <2>10, <2>11 DEF LogNext
<1>. QED BY <1>6, <1>7

(***************************************************************************)
(* Imports.                                                                *)
(***************************************************************************)

\* A state of the database.
RowRecord == [here : BOOLEAN, group : Names \union {NoName}, session : BOOLEAN, own : BOOLEAN]
Databases == [groups : SUBSET Names, games : SUBSET Names, accounts : [Names -> RowRecord], blobs : SUBSET Names,
              settings : SUBSET {"legacy", "current"}, run : {"none", "completed", "needs_attention"}]
\* An account that is there is in a group that is there, and shows a session only if its blob is there.
Sound(db) == \A n \in Names : /\ db.accounts[n].session => n \in db.blobs
                              /\ db.accounts[n].here => db.accounts[n].group \in db.groups \union {NoName}
Reports == [groups : Nat, accounts : Nat, games : Nat, ignored : Nat, failed : Nat, sessions : Nat, settings : Nat]

\* Where an import of each kind may be.
TransferPlaces == {"entry", "commit", "done"}
LegacyPlaces == {"settings", "games", "prune", "load", "oldGroups", "oldAccount", "oldSession", "run", "commit", "done"}
BulkPlaces == {"bulk", "bulkPassword", "bulkCreate", "done"}
Places == {"idle"} \union TransferPlaces \union LegacyPlaces \union BulkPlaces
Importers == [at : Places, from : {"none", "transfer", "legacy", "bulk"}, todo : Seq(Entries \union OldRecords \union Pasted),
              seen : SUBSET (ImportKinds \X Names), asks : BOOLEAN, read : BOOLEAN, records : Nat]
ImporterAt ==
    \/ importer = Resting /\ counts = NoCounts /\ twice = {}
    \/ importer.from = "transfer" /\ importer.at \in TransferPlaces /\ importer.todo \in Seq(Entries)
    \/ importer.from = "legacy" /\ importer.at \in LegacyPlaces /\ importer.todo \in Seq(OldRecords)
    \/ importer.from = "bulk" /\ importer.at \in BulkPlaces /\ importer.todo \in Seq(Pasted) /\ importer.records \in Nat
ImportTypes ==
    /\ tables \in Databases /\ work \in Databases /\ Sound(tables) /\ Sound(work)
    /\ counts \in Reports /\ imports \in 0..MaxImports /\ twice \in SUBSET Nat /\ IsFiniteSet(twice)
    /\ importer \in Importers /\ ImporterAt /\ (importer.at \in {"oldSession", "bulkPassword", "bulkCreate"} => importer.todo # <<>>)

\* What the report of each kind of import says, on the way.
NewAccounts == {n \in Names : Has(work, n) /\ ~ Has(tables, n)}
TransferTrue ==
    /\ tables.groups \subseteq work.groups /\ tables.games \subseteq work.games
    /\ \A n \in Names : Has(tables, n) => work.accounts[n] = tables.accounts[n]
    /\ counts.groups = Cardinality(work.groups \ tables.groups) /\ counts.games = Cardinality(work.games \ tables.games)
    /\ counts.accounts = Cardinality(NewAccounts)
NewSessions == {n \in Names : work.accounts[n].session /\ ~ tables.accounts[n].session}
LegacyTrue ==
    /\ importer.at = "settings" => work.settings = tables.settings
    /\ counts.sessions >= Cardinality(NewSessions)
    /\ importer.at # "settings" => counts.settings >= Cardinality(work.settings \ tables.settings)
BulkTrue ==
    LET left == Len(importer.todo)
        counted == importer.records - left + Cardinality(twice)
    IN  /\ importer.at \in {"bulk", "bulkCreate"} => counts.accounts + counts.failed = counted
        /\ importer.at = "bulkPassword" => counts.accounts + counts.failed = counted + 1
        /\ \A m \in twice : IF importer.at = "bulkCreate" THEN m >= left ELSE m > left
ImportsInv ==
    /\ ImportTypes
    /\ importer.from # "bulk" => twice = {}
    /\ importer.from = "transfer" /\ importer.at # "done" => TransferTrue
    /\ importer.from = "legacy" /\ importer.at # "done" => LegacyTrue
    /\ importer.from = "bulk" /\ importer.at # "done" => BulkTrue

LEMMA NamesAre == NoName \notin Names /\ Names \subseteq Nat /\ Some \in Names /\ IsFiniteSet(Names)
BY ImportsAssumption DEF ImportsAssumption, NoName, Some

\* Which import is at which place.
LEMMA ImporterIs ==
    ASSUME ImportTypes
    PROVE  /\ importer.at = "idle" => importer = Resting /\ counts = NoCounts /\ twice = {}
           /\ importer.at = "entry" => importer.from = "transfer"
           /\ importer.at \in LegacyPlaces \ {"commit", "done"} => importer.from = "legacy"
           /\ importer.at \in BulkPlaces \ {"done"} => importer.from = "bulk"
           /\ importer.at = "commit" => importer.from \in {"transfer", "legacy"}
           /\ importer.from = "transfer" => importer.at \in TransferPlaces /\ importer.todo \in Seq(Entries)
           /\ importer.from = "legacy" => importer.at \in LegacyPlaces /\ importer.todo \in Seq(OldRecords)
           /\ importer.from = "bulk" => /\ importer.at \in BulkPlaces /\ importer.todo \in Seq(Pasted)
                                       /\ importer.records \in Nat
BY DEF ImportTypes, ImporterAt, Resting, TransferPlaces, LegacyPlaces, BulkPlaces

LEMMA RestingIs ==
    /\ Resting \in Importers /\ NoCounts \in Reports
    /\ Resting.at = "idle" /\ Resting.from = "none"
<1>1. <<>> \in Seq(Entries \union OldRecords \union Pasted)
  OBVIOUS
<1>. QED BY <1>1 DEF Resting, Importers, Places, NoCounts, Reports

\* One account of a database is written.
LEMMA AccountWritten ==
    ASSUME NEW db \in Databases, NEW n \in Names, NEW r \in RowRecord
    PROVE  LET new == [db EXCEPT !.accounts[n] = r]
           IN  /\ new \in Databases /\ new.accounts[n] = r /\ \A m \in Names \ {n} : new.accounts[m] = db.accounts[m]
               /\ new.groups = db.groups /\ new.games = db.games /\ new.blobs = db.blobs
               /\ new.settings = db.settings /\ new.run = db.run
BY DEF Databases

LEMMA ImportsBegin == ImportsInit => ImportsInv
<1>. SUFFICES ASSUME ImportsInit PROVE ImportsInv
  OBVIOUS
<1>1. PICK g \in Names \union {NoName}, s \in BOOLEAN, o \in BOOLEAN, run \in {"none", "completed"} :
         tables = [Empty EXCEPT !.groups = {g} \ {NoName}, !.run = run,
                                !.accounts[Some] = [Row(g, s) EXCEPT !.own = o],
                                !.blobs = IF s THEN {Some} ELSE {}]
  BY DEF ImportsInit
<1>2. work = tables /\ importer = Resting /\ counts = NoCounts /\ imports = 0 /\ twice = {}
  BY DEF ImportsInit
<1>3. PICK row : row = [Row(g, s) EXCEPT !.own = o]
  OBVIOUS
<1>4. row \in RowRecord /\ row.group = g /\ row.session = s
  BY <1>3 DEF Row, RowRecord
<1>5. PICK acc : acc = [[n \in Names |-> NoRow] EXCEPT ![Some] = row]
  OBVIOUS
<1>6. NoRow \in RowRecord /\ NoRow.here = FALSE /\ NoRow.session = FALSE
  BY DEF NoRow, RowRecord
<1>7. acc \in [Names -> RowRecord] /\ acc[Some] = row /\ \A n \in Names : n # Some => acc[n] = NoRow
  BY <1>4, <1>5, <1>6, NamesAre
<1>8. PICK gs \in SUBSET Names : gs = {g} \ {NoName}
  OBVIOUS
<1>9. PICK bs \in SUBSET Names : bs = (IF s THEN {Some} ELSE {})
  BY NamesAre
<1>10. tables = [groups |-> gs, games |-> {}, accounts |-> acc, blobs |-> bs, settings |-> {}, run |-> run]
  BY <1>1, <1>3, <1>5, <1>8, <1>9 DEF Empty
<1>11. tables \in Databases /\ tables.accounts = acc /\ tables.groups = gs /\ tables.blobs = bs
  BY <1>7, <1>10 DEF Databases
<1>12. Sound(tables)
  BY <1>4, <1>6, <1>7, <1>8, <1>9, <1>11 DEF Sound
<1>13. ImportTypes
  BY <1>2, <1>11, <1>12, RestingIs, ImportsAssumption, FS_EmptySet DEF ImportTypes, ImporterAt, ImportsAssumption
<1>. QED BY <1>2, <1>13, RestingIs DEF ImportsInv

LEMMA RestIs ==
    ASSUME NEW T, NEW s \in Seq(T), s # <<>>
    PROVE  Head(s) \in T /\ Tail(s) \in Seq(T) /\ Len(s) \in Nat \ {0} /\ Len(Tail(s)) = Len(s) - 1
BY HeadTailProperties

\* An importer of some kind, at one of its places.
LEMMA ImporterFits ==
    ASSUME NEW i \in Importers, NEW at, NEW todo
    PROVE  /\ at \in Places => [i EXCEPT !.at = at] \in Importers
           /\ at \in Places /\ todo \in Seq(Entries \union OldRecords \union Pasted) =>
                  [i EXCEPT !.at = at, !.todo = todo] \in Importers
BY DEF Importers

LEMMA CommitStep == ImportsInv /\ Commit => ImportsInv'
<1>. SUFFICES ASSUME ImportsInv, Commit PROVE ImportsInv'
  OBVIOUS
<1>1. /\ importer.at = "commit" /\ tables' = work /\ importer' = [importer EXCEPT !.at = "done"]
      /\ UNCHANGED <<work, counts, imports, twice>>
  BY DEF Commit, At
<1>2. importer.from \in {"transfer", "legacy"} /\ twice = {}
  BY <1>1, ImporterIs DEF ImportsInv
<1>3. importer' \in Importers /\ importer'.at = "done" /\ importer'.from = importer.from /\ importer'.todo = importer.todo
  BY <1>1 DEF ImportsInv, ImportTypes, Importers, Places, TransferPlaces
<1>4. ImporterAt'
  BY <1>1, <1>2, <1>3, ImporterIs DEF ImportsInv, ImporterAt, TransferPlaces, LegacyPlaces
<1>5. ImportTypes'
  BY <1>1, <1>3, <1>4 DEF ImportsInv, ImportTypes, Sound
<1>. QED BY <1>1, <1>2, <1>3, <1>5 DEF ImportsInv

LEMMA AbortStep == ImportsInv /\ Abort => ImportsInv'
<1>. SUFFICES ASSUME ImportsInv, Abort PROVE ImportsInv'
  OBVIOUS
<1>1. /\ importer.at \in {"entry", "settings", "games", "load", "oldGroups", "oldAccount", "oldSession", "run"}
      /\ work' = tables /\ importer' = Resting /\ counts' = NoCounts /\ UNCHANGED <<tables, imports, twice>>
  BY DEF Abort
<1>2. twice = {}
  <2>1. importer.from \in {"transfer", "legacy"}
    BY <1>1, ImporterIs DEF ImportsInv, LegacyPlaces
  <2>. QED BY <2>1 DEF ImportsInv
<1>3. ImportTypes'
  BY <1>1, <1>2, RestingIs, FS_EmptySet DEF ImportsInv, ImportTypes, ImporterAt, Sound
<1>. QED BY <1>1, <1>2, <1>3, RestingIs DEF ImportsInv

LEMMA ForgetStep == ImportsInv /\ Forget => ImportsInv'
<1>. SUFFICES ASSUME ImportsInv, Forget PROVE ImportsInv'
  OBVIOUS
<1>1. importer' = Resting /\ counts' = NoCounts /\ twice' = {} /\ UNCHANGED <<tables, work, imports>>
  BY DEF Forget
<1>2. ImportTypes'
  BY <1>1, RestingIs, FS_EmptySet DEF ImportsInv, ImportTypes, ImporterAt, Sound
<1>. QED BY <1>1, <1>2, RestingIs DEF ImportsInv

LEMMA MarkStep == ASSUME NEW name \in Names PROVE ImportsInv /\ UserMarks(name) => ImportsInv'
<1>. SUFFICES ASSUME ImportsInv, UserMarks(name) PROVE ImportsInv'
  OBVIOUS
<1>1. /\ importer.at = "idle" /\ tables' = [tables EXCEPT !.accounts[name].own = TRUE] /\ work' = tables'
      /\ UNCHANGED <<importer, counts, imports, twice>>
  BY DEF UserMarks, At
<1>2. importer = Resting /\ counts = NoCounts /\ twice = {}
  BY <1>1, ImporterIs DEF ImportsInv
<1>3. PICK db \in Databases : db = tables /\ Sound(db)
  BY DEF ImportsInv, ImportTypes
<1>4. PICK r : r = [db.accounts[name] EXCEPT !.own = TRUE]
  OBVIOUS
<1>5. r \in RowRecord /\ r.session = db.accounts[name].session /\ r.here = db.accounts[name].here
      /\ r.group = db.accounts[name].group
  <2>1. PICK was \in RowRecord : was = db.accounts[name]
    BY <1>3 DEF Databases
  <2>2. r = [was EXCEPT !.own = TRUE]
    BY <1>4, <2>1
  <2>3. r \in RowRecord /\ r.session = was.session /\ r.here = was.here /\ r.group = was.group
    BY <2>2 DEF RowRecord
  <2>. QED BY <2>1, <2>3
<1>6. PICK new : new = [db EXCEPT !.accounts[name] = r]
  OBVIOUS
<1>7. tables' = new
  BY <1>1, <1>3, <1>4, <1>6
<1>8. /\ new \in Databases /\ new.accounts[name] = r /\ \A m \in Names \ {name} : new.accounts[m] = db.accounts[m]
      /\ new.groups = db.groups /\ new.blobs = db.blobs
  BY <1>3, <1>5, <1>6, AccountWritten
<1>9. Sound(new)
  BY <1>3, <1>5, <1>8 DEF Sound
<1>10. ImportTypes'
  BY <1>1, <1>2, <1>7, <1>8, <1>9, RestingIs DEF ImportsInv, ImportTypes, ImporterAt
<1>. QED BY <1>1, <1>2, <1>10, RestingIs DEF ImportsInv

\* An import begins: the transaction sees the tables as committed.
LEMMA TransferBegins == ImportsInv /\ ImportMetadata => ImportsInv'
<1>. SUFFICES ASSUME ImportsInv, ImportMetadata PROVE ImportsInv'
  OBVIOUS
<1>1. PICK doc \in Lists(Entries) :
         /\ importer.at = "idle" /\ imports < MaxImports /\ imports' = imports + 1 /\ work' = tables
         /\ importer' = [Resting EXCEPT !.at = "entry", !.from = "transfer", !.todo = doc]
         /\ UNCHANGED <<tables, counts, twice>>
  BY DEF ImportMetadata, At
<1>2. counts = NoCounts /\ twice = {}
  BY <1>1, ImporterIs DEF ImportsInv
<1>3. doc \in Seq(Entries)
  BY DEF Lists
<1>4. importer' \in Importers /\ importer'.at = "entry" /\ importer'.from = "transfer" /\ importer'.todo = doc
  <2>1. doc \in Seq(Entries \union OldRecords \union Pasted)
    BY <1>3
  <2>. QED BY <1>1, <2>1 DEF Resting, Importers, Places, TransferPlaces
<1>5. imports' \in 0..MaxImports
  BY <1>1, ImportsAssumption DEF ImportsInv, ImportTypes, ImportsAssumption
<1>6. ImportTypes'
  BY <1>1, <1>2, <1>3, <1>4, <1>5 DEF ImportsInv, ImportTypes, ImporterAt, TransferPlaces, Sound
<1>7. TransferTrue'
  <2>1. work'.groups \ tables'.groups = {} /\ work'.games \ tables'.games = {} /\ NewAccounts' = {}
    BY <1>1 DEF NewAccounts, Has
  <2>2. counts'.groups = 0 /\ counts'.games = 0 /\ counts'.accounts = 0
    BY <1>1, <1>2 DEF NoCounts
  <2>. QED BY <1>1, <2>1, <2>2, FS_EmptySet DEF TransferTrue, Has
<1>. QED BY <1>1, <1>2, <1>4, <1>6, <1>7 DEF ImportsInv

\* One record of a transfer: an account, a group or a game that is new is counted as one.
GrownBy(S, T, U, x) == IsFiniteSet(S) /\ x \notin S /\ x \notin U /\ T = S \union {x}

LEMMA OneMoreIsCounted ==
    ASSUME NEW S, NEW T, NEW U, NEW x, GrownBy(S, T, U, x)
    PROVE  Cardinality(T \ U) = Cardinality(S \ U) + 1
<1>1. IsFiniteSet(S \ U) /\ x \notin S \ U /\ T \ U = (S \ U) \union {x}
  BY FS_Subset DEF GrownBy
<1>. QED BY <1>1, FS_AddElement

LEMMA CountsGrow ==
    ASSUME NEW c \in Reports, NEW f \in DOMAIN c
    PROVE  /\ [c EXCEPT ![f] = @ + 1] \in Reports /\ [c EXCEPT ![f] = @ + 1][f] = c[f] + 1
           /\ \A d \in DOMAIN c : d # f => [c EXCEPT ![f] = @ + 1][d] = c[d]
<1>1. DOMAIN c = {"groups", "accounts", "games", "ignored", "failed", "sessions", "settings"}
  BY DEF Reports
<1>2. c[f] + 1 \in Nat
  BY <1>1 DEF Reports
<1>3. PICK new : new = [c EXCEPT ![f] = @ + 1]
  OBVIOUS
<1>4. new[f] = c[f] + 1 /\ \A d \in DOMAIN c : d # f => new[d] = c[d]
  BY <1>3
<1>5. new \in Reports
  BY <1>1, <1>2, <1>3 DEF Reports
<1>. QED BY <1>3, <1>4, <1>5

LEMMA WithFits ==
    ASSUME NEW db \in Databases, NEW e \in Entries
    PROVE  /\ With(db, e) \in Databases
           /\ Sound(db) /\ ~ Present(db, e) => Sound(With(db, e))
           /\ \A n \in Names : (e.kind = "accounts" /\ n = e.name) \/ With(db, e).accounts[n] = db.accounts[n]
           /\ e.kind = "accounts" => With(db, e).accounts[e.name] =
                  Row(IF e.group \in db.groups THEN e.group ELSE NoName, FALSE)
           /\ With(db, e).groups = db.groups \union (IF e.kind = "groups" THEN {e.name} ELSE {})
           /\ With(db, e).games = db.games \union (IF e.kind = "games" THEN {e.name} ELSE {})
<1>0. e.kind \in ImportKinds /\ e.name \in Names /\ e.group \in Names \union {NoName}
  BY DEF Entries
<1>1. CASE e.kind = "groups"
  <2>1. With(db, e) = [db EXCEPT !.groups = @ \union {e.name}]
    BY <1>1 DEF With
  <2>2. With(db, e) \in Databases /\ With(db, e).accounts = db.accounts /\ With(db, e).games = db.games
        /\ With(db, e).groups = db.groups \union {e.name} /\ With(db, e).blobs = db.blobs
    BY <1>0, <2>1 DEF Databases
  <2>. QED BY <1>1, <2>2 DEF Sound
<1>2. CASE e.kind = "games"
  <2>1. With(db, e) = [db EXCEPT !.games = @ \union {e.name}]
    BY <1>2 DEF With
  <2>2. With(db, e) \in Databases /\ With(db, e).accounts = db.accounts /\ With(db, e).groups = db.groups
        /\ With(db, e).games = db.games \union {e.name} /\ With(db, e).blobs = db.blobs
    BY <1>0, <2>1 DEF Databases
  <2>. QED BY <1>2, <2>2 DEF Sound
<1>3. CASE e.kind = "accounts"
  <2>1. PICK g \in Names \union {NoName} : g = (IF e.group \in db.groups THEN e.group ELSE NoName)
    BY <1>0
  <2>2. PICK r : r = Row(g, FALSE)
    OBVIOUS
  <2>3. r \in RowRecord /\ ~ r.session /\ r.group = g
    BY <2>2 DEF Row, RowRecord
  <2>4. PICK new : new = [db EXCEPT !.accounts[e.name] = r]
    OBVIOUS
  <2>5. With(db, e) = new
    BY <1>3, <2>1, <2>2, <2>4 DEF With
  <2>6. /\ new \in Databases /\ new.accounts[e.name] = r /\ \A m \in Names \ {e.name} : new.accounts[m] = db.accounts[m]
        /\ new.groups = db.groups /\ new.games = db.games /\ new.blobs = db.blobs
    BY <1>0, <2>3, <2>4, AccountWritten
  <2>7. Sound(db) => Sound(new)
    BY <2>1, <2>3, <2>6 DEF Sound
  <2>. QED BY <1>3, <2>1, <2>2, <2>5, <2>6, <2>7
<1>. QED BY <1>0, <1>1, <1>2, <1>3 DEF ImportKinds

LEMMA EntryStep == ImportsInv /\ TransferEntry => ImportsInv'
<1>. SUFFICES ASSUME ImportsInv, TransferEntry PROVE ImportsInv'
  OBVIOUS
<1>1. PICK fails \in BOOLEAN :
         /\ importer.at = "entry" /\ importer.todo # <<>> /\ UNCHANGED <<tables, imports, twice>>
         /\ \/ Next1("entry") /\ UNCHANGED work /\ Added("ignored")
            \/ /\ ~ LeftAlone(Head1)
               /\ importer' = [importer EXCEPT !.todo = Rest,
                               !.seen = IF fails /\ Head1.kind = "groups" THEN @ ELSE @ \union {<<Head1.kind, Head1.name>>}]
               /\ work' = IF fails THEN work ELSE With(work, Head1)
               /\ Added(IF fails THEN "ignored" ELSE Head1.kind)
  BY DEF TransferEntry, At
<1>2. importer.from = "transfer" /\ importer.todo \in Seq(Entries) /\ twice = {}
  BY <1>1, ImporterIs DEF ImportsInv
<1>3. PICK e \in Entries : e = Head1
  BY <1>1, <1>2, RestIs DEF Head1
<1>4. PICK td \in Seq(Entries) : td = Rest
  BY <1>1, <1>2, RestIs DEF Rest
<1>5. importer' \in Importers /\ importer'.at = "entry" /\ importer'.from = "transfer" /\ importer'.todo = td
  <2>1. importer \in Importers /\ "entry" \in Places /\ td \in Seq(Entries \union OldRecords \union Pasted)
    BY <1>4 DEF ImportsInv, ImportTypes, Places, TransferPlaces
  <2>2. CASE Next1("entry")
    <3>1. importer' = [importer EXCEPT !.at = "entry", !.todo = td]
      BY <1>4, <2>2 DEF Next1
    <3>. QED BY <1>2, <2>1, <3>1 DEF Importers
  <2>3. CASE importer' = [importer EXCEPT !.todo = Rest,
                               !.seen = IF fails /\ Head1.kind = "groups" THEN @ ELSE @ \union {<<Head1.kind, Head1.name>>}]
    <3>1. PICK sn : sn = (IF fails /\ e.kind = "groups" THEN importer.seen ELSE importer.seen \union {<<e.kind, e.name>>})
      OBVIOUS
    <3>2. sn \in SUBSET (ImportKinds \X Names)
      BY <2>1, <3>1 DEF Importers, Entries
    <3>3. importer' = [importer EXCEPT !.todo = td, !.seen = sn]
      BY <1>3, <1>4, <2>3, <3>1
    <3>. QED BY <1>1, <1>2, <2>1, <3>2, <3>3 DEF Importers
  <2>. QED BY <1>1, <2>2, <2>3
<1>6. work \in Databases /\ Sound(work) /\ counts \in Reports
  BY DEF ImportsInv, ImportTypes
<1>7. TransferTrue
  BY <1>1, <1>2 DEF ImportsInv
<1>8. ASSUME work' = work, Added("ignored") PROVE work' \in Databases /\ Sound(work)' /\ counts' \in Reports /\ TransferTrue'
  <2>1. counts' = [counts EXCEPT !["ignored"] = @ + 1]
    BY <1>8 DEF Added
  <2>2. counts' \in Reports /\ counts'.groups = counts.groups /\ counts'.games = counts.games
        /\ counts'.accounts = counts.accounts
    BY <1>6, <2>1 DEF Reports
  <2>3. NewAccounts' = NewAccounts /\ tables' = tables
    BY <1>1, <1>8 DEF NewAccounts, Has
  <2>. QED BY <1>6, <1>7, <1>8, <2>2, <2>3 DEF Sound, TransferTrue, Has
<1>9. ASSUME ~ LeftAlone(e), work' = With(work, e), Added(e.kind)
      PROVE  work' \in Databases /\ Sound(work)' /\ counts' \in Reports /\ TransferTrue'
  <2>1. ~ Present(work, e)
    BY <1>9 DEF LeftAlone
  <2>2. e.kind \in ImportKinds /\ e.name \in Names
    BY DEF Entries
  <2>3. e.kind \in DOMAIN counts /\ counts' = [counts EXCEPT ![e.kind] = @ + 1]
    BY <1>6, <1>9, <2>2 DEF Reports, Added, ImportKinds
  <2>4. /\ counts' \in Reports /\ counts'[e.kind] = counts[e.kind] + 1
        /\ \A d \in DOMAIN counts : d # e.kind => counts'[d] = counts[d]
    BY <1>6, <2>3, CountsGrow
  <2>5. {"groups", "games", "accounts"} \subseteq DOMAIN counts
        /\ counts.groups \in Nat /\ counts.games \in Nat /\ counts.accounts \in Nat
    BY <1>6 DEF Reports
  <2>6. PICK w \in Databases : w = work'
    BY <1>6, <1>9, WithFits
  <2>7. /\ Sound(w) /\ w.groups = work.groups \union (IF e.kind = "groups" THEN {e.name} ELSE {})
        /\ w.games = work.games \union (IF e.kind = "games" THEN {e.name} ELSE {})
        /\ \A n \in Names : (e.kind = "accounts" /\ n = e.name) \/ w.accounts[n] = work.accounts[n]
        /\ e.kind = "accounts" => w.accounts[e.name] = Row(IF e.group \in work.groups THEN e.group ELSE NoName, FALSE)
    <3>1. w = With(work, e)
      BY <1>9, <2>6
    <3>2. Sound(With(work, e))
      BY <1>6, <2>1, WithFits
    <3>3. /\ With(work, e).groups = work.groups \union (IF e.kind = "groups" THEN {e.name} ELSE {})
          /\ With(work, e).games = work.games \union (IF e.kind = "games" THEN {e.name} ELSE {})
      BY <1>6, WithFits
    <3>4. \A n \in Names : (e.kind = "accounts" /\ n = e.name) \/ With(work, e).accounts[n] = work.accounts[n]
      BY <1>6, WithFits
    <3>5. e.kind = "accounts" => With(work, e).accounts[e.name] = Row(IF e.group \in work.groups THEN e.group ELSE NoName, FALSE)
      BY <1>6, WithFits
    <3>. QED BY <3>1, <3>2, <3>3, <3>4, <3>5
  <2>8. IsFiniteSet(work.groups) /\ IsFiniteSet(work.games) /\ IsFiniteSet(Names)
    BY <1>6, NamesAre, FS_Subset DEF Databases
  <2>9. counts'.groups = Cardinality(w.groups \ tables.groups)
    <3>1. CASE e.kind = "groups"
      <4>1. e.name \notin work.groups /\ e.name \notin tables.groups
        BY <1>7, <2>1, <3>1 DEF Present, TransferTrue
      <4>2. Cardinality(w.groups \ tables.groups) = counts.groups + 1
        <5>1. PICK c \in Nat : c = counts.groups /\ c = Cardinality(work.groups \ tables.groups)
          BY <1>7, <2>5 DEF TransferTrue
        <5>2. w.groups = work.groups \union {e.name} /\ IsFiniteSet(work.groups)
          BY <2>7, <2>8, <3>1
        <5>3. Cardinality(w.groups \ tables.groups) = c + 1
          <6>1. PICK S, T, U, x : S = work.groups /\ T = w.groups /\ U = tables.groups /\ x = e.name
            OBVIOUS
          <6>2. GrownBy(S, T, U, x)
            BY <4>1, <5>2, <6>1 DEF GrownBy
          <6>3. Cardinality(T \ U) = Cardinality(S \ U) + 1
            BY <6>2, OneMoreIsCounted
          <6>. QED BY <5>1, <6>1, <6>3
        <5>. QED BY <5>1, <5>3
      <4>. QED BY <2>4, <3>1, <4>2
    <3>2. CASE e.kind # "groups"
      <4>1. w.groups = work.groups
        BY <2>7, <3>2
      <4>. QED BY <1>7, <2>4, <2>5, <3>2, <4>1 DEF TransferTrue
    <3>. QED BY <3>1, <3>2
  <2>10. counts'.games = Cardinality(w.games \ tables.games)
    <3>1. CASE e.kind = "games"
      <4>1. e.name \notin work.games /\ e.name \notin tables.games
        BY <1>7, <2>1, <3>1 DEF Present, TransferTrue
      <4>2. Cardinality(w.games \ tables.games) = counts.games + 1
        <5>1. PICK c \in Nat : c = counts.games /\ c = Cardinality(work.games \ tables.games)
          BY <1>7, <2>5 DEF TransferTrue
        <5>2. w.games = work.games \union {e.name} /\ IsFiniteSet(work.games)
          BY <2>7, <2>8, <3>1
        <5>3. Cardinality(w.games \ tables.games) = c + 1
          <6>1. PICK S, T, U, x : S = work.games /\ T = w.games /\ U = tables.games /\ x = e.name
            OBVIOUS
          <6>2. GrownBy(S, T, U, x)
            BY <4>1, <5>2, <6>1 DEF GrownBy
          <6>3. Cardinality(T \ U) = Cardinality(S \ U) + 1
            BY <6>2, OneMoreIsCounted
          <6>. QED BY <5>1, <6>1, <6>3
        <5>. QED BY <5>1, <5>3
      <4>. QED BY <2>4, <3>1, <4>2
    <3>2. CASE e.kind # "games"
      <4>1. w.games = work.games
        BY <2>7, <3>2
      <4>. QED BY <1>7, <2>4, <2>5, <3>2, <4>1 DEF TransferTrue
    <3>. QED BY <3>1, <3>2
  <2>11. PICK now : now = NewAccounts'
    OBVIOUS
  <2>12. \A n : n \in now <=> n \in Names /\ w.accounts[n].here /\ ~ tables.accounts[n].here
    BY <1>1, <2>6, <2>11 DEF NewAccounts, Has
  <2>13. \A n : n \in NewAccounts <=> n \in Names /\ work.accounts[n].here /\ ~ tables.accounts[n].here
    BY DEF NewAccounts, Has
  <2>14. \A n \in Names : tables.accounts[n].here => work.accounts[n] = tables.accounts[n]
    BY <1>7 DEF TransferTrue, Has
  <2>15. counts'.accounts = Cardinality(now) /\ \A n \in Names : tables.accounts[n].here => w.accounts[n] = tables.accounts[n]
    <3>1. CASE e.kind = "accounts"
      <4>1. ~ work.accounts[e.name].here
        BY <2>1, <3>1 DEF Present, Has
      <4>2. ~ tables.accounts[e.name].here
        BY <2>2, <2>14, <4>1
      <4>3. w.accounts[e.name].here
        BY <2>7, <3>1 DEF Row
      <4>4. now = NewAccounts \union {e.name} /\ e.name \notin NewAccounts
        BY <2>2, <2>7, <2>12, <2>13, <4>1, <4>2, <4>3
      <4>5. IsFiniteSet(NewAccounts) /\ NewAccounts \ {} = NewAccounts /\ now \ {} = now
        BY <2>8, <2>13, FS_Subset
      <4>6. Cardinality(now) = counts.accounts + 1
        <5>1. PICK c \in Nat : c = counts.accounts /\ c = Cardinality(NewAccounts)
          BY <1>7, <2>5 DEF TransferTrue
        <5>2. Cardinality(now) = c + 1
          BY <4>4, <4>5, <5>1, FS_AddElement
        <5>. QED BY <5>1, <5>2
      <4>. QED BY <2>4, <2>7, <2>14, <3>1, <4>2, <4>6
    <3>2. CASE e.kind # "accounts"
      <4>1. \A n \in Names : w.accounts[n] = work.accounts[n]
        BY <2>7, <3>2
      <4>2. now = NewAccounts
        BY <2>12, <2>13, <4>1
      <4>. QED BY <1>7, <2>4, <2>5, <2>14, <3>2, <4>1, <4>2 DEF TransferTrue
    <3>. QED BY <3>1, <3>2
  <2>16. tables.groups \subseteq w.groups /\ tables.games \subseteq w.games
    BY <1>7, <2>7 DEF TransferTrue
  <2>17. TransferTrue'
    BY <1>1, <2>6, <2>9, <2>10, <2>11, <2>15, <2>16 DEF TransferTrue, Has
  <2>. QED BY <2>4, <2>6, <2>7, <2>17 DEF Sound
<1>10. work' \in Databases /\ Sound(work)' /\ counts' \in Reports /\ TransferTrue'
  BY <1>1, <1>3, <1>8, <1>9
<1>11. ImportTypes'
  BY <1>1, <1>2, <1>5, <1>10 DEF ImportsInv, ImportTypes, ImporterAt, TransferPlaces, Sound
<1>. QED BY <1>1, <1>2, <1>5, <1>10, <1>11 DEF ImportsInv

LEMMA TransferEndsStep == ImportsInv /\ TransferEnds => ImportsInv'
<1>. SUFFICES ASSUME ImportsInv, TransferEnds PROVE ImportsInv'
  OBVIOUS
<1>1. /\ importer.at = "entry" /\ importer' = [importer EXCEPT !.at = "commit"]
      /\ UNCHANGED <<tables, work, counts, imports, twice>>
  BY DEF TransferEnds, At
<1>2. importer.from = "transfer" /\ importer.todo \in Seq(Entries) /\ TransferTrue
  BY <1>1, ImporterIs DEF ImportsInv
<1>3. importer' \in Importers /\ importer'.at = "commit" /\ importer'.from = "transfer" /\ importer'.todo = importer.todo
  BY <1>1, <1>2 DEF ImportsInv, ImportTypes, Importers, Places, TransferPlaces
<1>4. ImportTypes'
  BY <1>1, <1>2, <1>3 DEF ImportsInv, ImportTypes, ImporterAt, TransferPlaces, Sound
<1>5. TransferTrue'
  BY <1>1, <1>2 DEF TransferTrue, NewAccounts, Has
<1>. QED BY <1>1, <1>2, <1>3, <1>4, <1>5 DEF ImportsInv

\* One step of a migration.
LEMMA LegacyGoesOn ==
    ASSUME ImportsInv, importer.from = "legacy", UNCHANGED <<tables, imports, twice>>,
           work' \in Databases, Sound(work)', counts' \in Reports, importer' \in Importers, importer'.from = "legacy",
           importer'.at \in LegacyPlaces, importer'.todo \in Seq(OldRecords),
           importer'.at = "oldSession" => importer'.todo # <<>>, LegacyTrue'
    PROVE  ImportsInv'
<1>1. twice' = {} /\ importer'.at \notin {"bulkPassword", "bulkCreate"}
  BY DEF ImportsInv, LegacyPlaces
<1>2. ImportTypes'
  BY <1>1 DEF ImportsInv, ImportTypes, ImporterAt, Sound
<1>. QED BY <1>1, <1>2 DEF ImportsInv

\* Such a step that shows no new session and brings no new setting.
LEMMA LegacyStaysTrue ==
    ASSUME ImportTypes, LegacyTrue, tables' = tables, importer.at # "settings", importer'.at # "settings",
           work'.settings = work.settings, counts'.settings = counts.settings, counts'.sessions = counts.sessions,
           \A n \in Names : work'.accounts[n].session => work.accounts[n].session
    PROVE  LegacyTrue'
<1>1. NewSessions' \subseteq NewSessions /\ IsFiniteSet(NewSessions)
  BY NamesAre, FS_Subset DEF NewSessions
<1>2. PICK old, new : old = NewSessions /\ new = NewSessions'
  OBVIOUS
<1>3. Cardinality(new) <= Cardinality(old) /\ Cardinality(old) \in Nat /\ Cardinality(new) \in Nat
  BY <1>1, <1>2, FS_Subset, FS_CardinalityType
<1>4. counts.sessions \in Nat
  BY DEF ImportTypes, Reports
<1>5. counts.sessions >= Cardinality(old)
  BY <1>2 DEF LegacyTrue
<1>6. counts'.sessions >= Cardinality(new)
  BY <1>3, <1>4, <1>5
<1>. QED BY <1>2, <1>6 DEF LegacyTrue

LEMMA LegacyBegins == ImportsInv /\ MigrateLegacy => ImportsInv'
<1>. SUFFICES ASSUME ImportsInv, MigrateLegacy PROVE ImportsInv'
  OBVIOUS
<1>1. PICK rs \in Lists(OldRecords), asks \in BOOLEAN :
         /\ importer.at = "idle" /\ imports < MaxImports /\ imports' = imports + 1 /\ work' = tables
         /\ importer' = [Resting EXCEPT !.at = "settings", !.from = "legacy", !.todo = rs, !.asks = asks]
         /\ UNCHANGED <<tables, counts, twice>>
  BY DEF MigrateLegacy, At
<1>2. counts = NoCounts /\ twice = {}
  BY <1>1, ImporterIs DEF ImportsInv
<1>3. rs \in Seq(OldRecords)
  BY DEF Lists
<1>4. importer' \in Importers /\ importer'.at = "settings" /\ importer'.from = "legacy" /\ importer'.todo = rs
  <2>1. rs \in Seq(Entries \union OldRecords \union Pasted)
    BY <1>3
  <2>. QED BY <1>1, <2>1 DEF Resting, Importers, Places, LegacyPlaces
<1>5. imports' \in 0..MaxImports
  BY <1>1, ImportsAssumption DEF ImportsInv, ImportTypes, ImportsAssumption
<1>6. ImportTypes'
  BY <1>1, <1>2, <1>3, <1>4, <1>5 DEF ImportsInv, ImportTypes, ImporterAt, LegacyPlaces, Sound
<1>7. LegacyTrue'
  <2>1. NewSessions' = {}
    BY <1>1 DEF NewSessions
  <2>2. counts'.sessions = 0
    BY <1>1, <1>2 DEF NoCounts
  <2>. QED BY <1>1, <1>4, <2>1, <2>2, FS_EmptySet DEF LegacyTrue
<1>. QED BY <1>1, <1>2, <1>4, <1>6, <1>7 DEF ImportsInv

\* The importer goes to another place with the same records.
LEMMA ImporterGoes ==
    ASSUME ImportsInv, importer.from = "legacy", NEW at \in LegacyPlaces, importer' = [importer EXCEPT !.at = at]
    PROVE  /\ importer' \in Importers /\ importer'.from = "legacy" /\ importer'.at = at
           /\ importer'.todo = importer.todo /\ importer'.todo \in Seq(OldRecords)
<1>1. importer.todo \in Seq(OldRecords) /\ importer \in Importers /\ at \in Places
  BY ImporterIs DEF ImportsInv, ImportTypes, Places
<1>2. importer' \in Importers /\ importer'.from = "legacy" /\ importer'.at = at /\ importer'.todo = importer.todo
  BY <1>1 DEF Importers
<1>. QED BY <1>1, <1>2

LEMMA SettingsStep == ImportsInv /\ OldSettings => ImportsInv'
<1>. SUFFICES ASSUME ImportsInv, OldSettings PROVE ImportsInv'
  OBVIOUS
<1>1. PICK put \in SUBSET {"legacy", "current"} :
         /\ importer.at = "settings" /\ work' = [work EXCEPT !.settings = @ \union put]
         /\ counts' = [counts EXCEPT !.settings = Cardinality(put)]
         /\ importer' = [importer EXCEPT !.at = "games"] /\ UNCHANGED <<tables, imports, twice>>
  BY DEF OldSettings, At
<1>2. importer.from = "legacy" /\ LegacyTrue /\ work \in Databases /\ Sound(work) /\ counts \in Reports
  BY <1>1, ImporterIs DEF ImportsInv, ImportTypes, LegacyPlaces
<1>3. IsFiniteSet({"legacy", "current"})
  <2>1. IsFiniteSet({} \union {"legacy"})
    BY FS_EmptySet, FS_AddElement
  <2>2. IsFiniteSet(({} \union {"legacy"}) \union {"current"})
    BY <2>1, FS_AddElement
  <2>3. ({} \union {"legacy"}) \union {"current"} = {"legacy", "current"}
    OBVIOUS
  <2>. QED BY <2>2, <2>3
<1>4. IsFiniteSet(put) /\ Cardinality(put) \in Nat
  BY <1>3, FS_Subset, FS_CardinalityType
<1>5. /\ importer' \in Importers /\ importer'.from = "legacy" /\ importer'.at = "games"
      /\ importer'.todo = importer.todo /\ importer'.todo \in Seq(OldRecords)
  BY <1>1, <1>2, ImporterGoes DEF LegacyPlaces
<1>6. work' \in Databases /\ work'.accounts = work.accounts /\ work'.groups = work.groups /\ work'.blobs = work.blobs
      /\ work'.settings = work.settings \union put
  BY <1>1, <1>2 DEF Databases
<1>7. counts' \in Reports /\ counts'.settings = Cardinality(put) /\ counts'.sessions = counts.sessions
  BY <1>1, <1>2, <1>4 DEF Reports
<1>8. LegacyTrue'
  <2>1. NewSessions' = NewSessions
    BY <1>1, <1>6 DEF NewSessions
  <2>2. PICK new : new = work'.settings \ tables'.settings
    OBVIOUS
  <2>3. new \subseteq put
    BY <1>1, <1>2, <1>6, <2>2 DEF LegacyTrue
  <2>4. IsFiniteSet(new) /\ Cardinality(new) <= Cardinality(put) /\ Cardinality(new) \in Nat
    BY <1>4, <2>3, FS_Subset, FS_CardinalityType
  <2>5. Cardinality(put) >= Cardinality(new)
    BY <1>4, <2>4
  <2>. QED BY <1>2, <1>5, <1>7, <2>1, <2>2, <2>5 DEF LegacyTrue
<1>9. Sound(work)'
  BY <1>2, <1>6 DEF Sound
<1>. QED BY <1>1, <1>2, <1>5, <1>6, <1>7, <1>8, <1>9, LegacyGoesOn DEF LegacyPlaces

LEMMA GamesStep == ImportsInv /\ (OldGames \/ PruneGames) => ImportsInv'
<1>. SUFFICES ASSUME ImportsInv, OldGames \/ PruneGames PROVE ImportsInv'
  OBVIOUS
<1>1. PICK gs \in SUBSET Names, c \in Nat, at \in {"load", "prune"} :
         /\ importer.at \in {"games", "prune"}
         /\ (work' = work \/ work' = [work EXCEPT !.games = gs]) /\ (counts' = counts \/ counts' = [counts EXCEPT !.games = c])
         /\ importer' = [importer EXCEPT !.at = at] /\ UNCHANGED <<tables, imports, twice>>
  <2>0. work.games \in SUBSET Names
    BY DEF ImportsInv, ImportTypes, Databases
  <2>1. CASE OldGames
    <3>1. PICK fails \in BOOLEAN :
            /\ importer.at = "games" /\ work' = IF fails THEN work ELSE [work EXCEPT !.games = @ \union {Some}]
            /\ counts' = IF fails THEN counts ELSE [counts EXCEPT !.games = 1]
            /\ importer' = [importer EXCEPT !.at = IF fails THEN "load" ELSE "prune"]
            /\ UNCHANGED <<tables, imports, twice>>
      BY <2>1 DEF OldGames, At
    <3>2. PICK gs \in SUBSET Names : gs = work.games \union {Some}
      BY <2>0, NamesAre
    <3>. QED BY <3>1, <3>2
  <2>2. CASE PruneGames
    <3>1. PICK stale \in SUBSET tables.games :
            /\ importer.at = "prune" /\ work' = [work EXCEPT !.games = @ \ (stale \ {Some})]
            /\ importer' = [importer EXCEPT !.at = "load"] /\ UNCHANGED <<tables, counts, imports, twice>>
      BY <2>2 DEF PruneGames, At
    <3>2. PICK gs \in SUBSET Names : gs = work.games \ (stale \ {Some})
      BY <2>0
    <3>. QED BY <3>1, <3>2
  <2>. QED BY <2>1, <2>2
<1>2. importer.from = "legacy" /\ LegacyTrue /\ work \in Databases /\ Sound(work) /\ counts \in Reports /\ ImportTypes
  BY <1>1, ImporterIs DEF ImportsInv, ImportTypes, LegacyPlaces
<1>3. /\ importer' \in Importers /\ importer'.from = "legacy" /\ importer'.at = at
      /\ importer'.todo = importer.todo /\ importer'.todo \in Seq(OldRecords)
  BY <1>1, <1>2, ImporterGoes DEF LegacyPlaces
<1>4. work' \in Databases /\ work'.accounts = work.accounts /\ work'.groups = work.groups /\ work'.blobs = work.blobs
      /\ work'.settings = work.settings
  BY <1>1, <1>2 DEF Databases
<1>5. counts' \in Reports /\ counts'.settings = counts.settings /\ counts'.sessions = counts.sessions
  BY <1>1, <1>2 DEF Reports
<1>6. LegacyTrue'
  BY <1>1, <1>2, <1>3, <1>4, <1>5, LegacyStaysTrue
<1>7. Sound(work)'
  BY <1>2, <1>4 DEF Sound
<1>. QED BY <1>1, <1>2, <1>3, <1>4, <1>5, <1>6, <1>7, LegacyGoesOn DEF LegacyPlaces

LEMMA LoadStep == ImportsInv /\ (LoadAccounts \/ OldAccountsEnd) => ImportsInv'
<1>. SUFFICES ASSUME ImportsInv, LoadAccounts \/ OldAccountsEnd PROVE ImportsInv'
  OBVIOUS
<1>1. /\ importer.at \in {"load", "oldAccount"} /\ UNCHANGED <<tables, work, counts, imports, twice>>
      /\ \/ importer' = [importer EXCEPT !.at = "oldGroups"]
         \/ importer' = [importer EXCEPT !.at = "run"]
         \/ importer' = [importer EXCEPT !.at = "run", !.todo = <<>>, !.read = FALSE]
  BY DEF LoadAccounts, OldAccountsEnd, At
<1>2. importer.from = "legacy" /\ LegacyTrue /\ work \in Databases /\ Sound(work) /\ counts \in Reports /\ ImportTypes
  BY <1>1, ImporterIs DEF ImportsInv, ImportTypes, LegacyPlaces
<1>3. importer' \in Importers /\ importer'.from = "legacy" /\ importer'.at \in {"oldGroups", "run"}
      /\ importer'.todo \in Seq(OldRecords)
  <2>1. CASE importer' = [importer EXCEPT !.at = "oldGroups"] \/ importer' = [importer EXCEPT !.at = "run"]
    BY <1>2, <2>1, ImporterGoes DEF LegacyPlaces
  <2>2. CASE importer' = [importer EXCEPT !.at = "run", !.todo = <<>>, !.read = FALSE]
    <3>1. <<>> \in Seq(Entries \union OldRecords \union Pasted) /\ <<>> \in Seq(OldRecords)
      OBVIOUS
    <3>2. "run" \in Places /\ importer \in Importers
      BY <1>2 DEF ImportTypes, Places, LegacyPlaces
    <3>. QED BY <1>2, <2>2, <3>1, <3>2 DEF Importers
  <2>. QED BY <1>1, <2>1, <2>2
<1>4. LegacyTrue'
  BY <1>1, <1>2, <1>3, LegacyStaysTrue
<1>. QED BY <1>1, <1>2, <1>3, <1>4, LegacyGoesOn DEF LegacyPlaces, Sound

LEMMA GroupsStep == ImportsInv /\ OldGroups => ImportsInv'
<1>. SUFFICES ASSUME ImportsInv, OldGroups PROVE ImportsInv'
  OBVIOUS
<1>1. PICK refused \in SUBSET NewGroups :
         /\ importer.at = "oldGroups" /\ work' = [work EXCEPT !.groups = @ \union (NewGroups \ refused)]
         /\ counts' = [counts EXCEPT !.groups = Cardinality(NewGroups \ refused)]
         /\ importer' = [importer EXCEPT !.at = "oldAccount"] /\ UNCHANGED <<tables, imports, twice>>
  BY DEF OldGroups, At
<1>2. importer.from = "legacy" /\ LegacyTrue /\ work \in Databases /\ Sound(work) /\ counts \in Reports /\ ImportTypes
  BY <1>1, ImporterIs DEF ImportsInv, ImportTypes, LegacyPlaces
<1>3. importer.todo \in Seq(OldRecords)
  BY <1>2, ImporterIs
<1>4. NewGroups \subseteq Names
  <2>1. PICK old \in Seq(OldRecords) : old = importer.todo
    BY <1>3
  <2>2. \A i \in DOMAIN old : old[i] \in OldRecords
    OBVIOUS
  <2>3. \A i \in DOMAIN old : old[i].group \in Names
    BY <2>2 DEF OldRecords
  <2>. QED BY <2>1, <2>3 DEF NewGroups
<1>5. PICK more \in SUBSET Names : more = NewGroups \ refused
  BY <1>4
<1>6. Cardinality(more) \in Nat
  BY NamesAre, FS_Subset, FS_CardinalityType
<1>7. /\ importer' \in Importers /\ importer'.from = "legacy" /\ importer'.at = "oldAccount"
      /\ importer'.todo = importer.todo /\ importer'.todo \in Seq(OldRecords)
  BY <1>1, <1>2, ImporterGoes DEF LegacyPlaces
<1>8. work' \in Databases /\ work'.accounts = work.accounts /\ work'.groups = work.groups \union more
      /\ work'.blobs = work.blobs /\ work'.settings = work.settings
  BY <1>1, <1>2, <1>5 DEF Databases
<1>9. counts' \in Reports /\ counts'.settings = counts.settings /\ counts'.sessions = counts.sessions
  BY <1>1, <1>2, <1>5, <1>6 DEF Reports
<1>10. LegacyTrue'
  BY <1>1, <1>2, <1>7, <1>8, <1>9, LegacyStaysTrue
<1>11. Sound(work)'
  BY <1>2, <1>8 DEF Sound
<1>. QED BY <1>1, <1>2, <1>7, <1>8, <1>9, <1>10, <1>11, LegacyGoesOn DEF LegacyPlaces

LEMMA RunStep == ImportsInv /\ RecordRun => ImportsInv'
<1>. SUFFICES ASSUME ImportsInv, RecordRun PROVE ImportsInv'
  OBVIOUS
<1>1. PICK run \in {"completed", "needs_attention"} :
         /\ importer.at = "run" /\ work' = [work EXCEPT !.run = run]
         /\ importer' = [importer EXCEPT !.at = "commit"] /\ UNCHANGED <<tables, counts, imports, twice>>
  BY DEF RecordRun, At
<1>2. importer.from = "legacy" /\ LegacyTrue /\ work \in Databases /\ Sound(work) /\ counts \in Reports /\ ImportTypes
  BY <1>1, ImporterIs DEF ImportsInv, ImportTypes, LegacyPlaces
<1>3. /\ importer' \in Importers /\ importer'.from = "legacy" /\ importer'.at = "commit"
      /\ importer'.todo = importer.todo /\ importer'.todo \in Seq(OldRecords)
  BY <1>1, <1>2, ImporterGoes DEF LegacyPlaces
<1>4. work' \in Databases /\ work'.accounts = work.accounts /\ work'.groups = work.groups /\ work'.blobs = work.blobs
      /\ work'.settings = work.settings
  BY <1>1, <1>2 DEF Databases
<1>5. LegacyTrue'
  BY <1>1, <1>2, <1>3, <1>4, LegacyStaysTrue
<1>6. Sound(work)'
  BY <1>2, <1>4 DEF Sound
<1>. QED BY <1>1, <1>2, <1>3, <1>4, <1>5, <1>6, LegacyGoesOn DEF LegacyPlaces

\* One account of the old file: the row is written over, its session comes after it.
LEMMA OldAccountStep == ImportsInv /\ OldAccount => ImportsInv'
<1>. SUFFICES ASSUME ImportsInv, OldAccount PROVE ImportsInv'
  OBVIOUS
<1>1. PICK keeps \in BOOLEAN :
         /\ importer.at = "oldAccount" /\ importer.todo # <<>> /\ (keeps => Head1.group \in work.groups)
         /\ work' = IF keeps THEN [work EXCEPT !.accounts[Head1.name] = Row(Head1.group, FALSE)] ELSE work
         /\ counts' = IF keeps THEN [counts EXCEPT !.accounts = @ + 1] ELSE counts
         /\ \/ importer' = [importer EXCEPT !.at = "oldSession"]
            \/ Next1("oldAccount")
         /\ UNCHANGED <<tables, imports, twice>>
  BY DEF OldAccount, At
<1>2. importer.from = "legacy" /\ LegacyTrue /\ work \in Databases /\ Sound(work) /\ counts \in Reports /\ ImportTypes
  BY <1>1, ImporterIs DEF ImportsInv, ImportTypes, LegacyPlaces
<1>3. importer.todo \in Seq(OldRecords)
  BY <1>2, ImporterIs
<1>4. PICK old \in OldRecords : old = Head1
  BY <1>1, <1>3, RestIs DEF Head1
<1>5. PICK td \in Seq(OldRecords) : td = Rest
  BY <1>1, <1>3, RestIs DEF Rest
<1>6. /\ importer' \in Importers /\ importer'.from = "legacy" /\ importer'.at \in {"oldAccount", "oldSession"}
      /\ importer'.todo \in Seq(OldRecords) /\ (importer'.at = "oldSession" => importer'.todo # <<>>)
  <2>1. CASE importer' = [importer EXCEPT !.at = "oldSession"]
    <3>1. /\ importer' \in Importers /\ importer'.from = "legacy" /\ importer'.at = "oldSession"
          /\ importer'.todo = importer.todo
      BY <1>2, <2>1, ImporterGoes DEF LegacyPlaces
    <3>. QED BY <1>1, <1>3, <3>1
  <2>2. CASE Next1("oldAccount")
    <3>1. importer' = [importer EXCEPT !.at = "oldAccount", !.todo = td]
      BY <1>5, <2>2 DEF Next1
    <3>2. importer \in Importers /\ "oldAccount" \in Places /\ td \in Seq(Entries \union OldRecords \union Pasted)
      BY <1>2 DEF ImportTypes, Places, LegacyPlaces
    <3>. QED BY <1>2, <3>1, <3>2 DEF Importers
  <2>. QED BY <1>1, <2>1, <2>2
<1>7. work' \in Databases /\ Sound(work)' /\ work'.settings = work.settings
      /\ \A n \in Names : work'.accounts[n].session => work.accounts[n].session
  <2>1. CASE ~ keeps
    <3>1. work' = work
      BY <1>1, <2>1
    <3>. QED BY <1>2, <3>1 DEF Sound
  <2>2. CASE keeps
    <3>0. old.name \in Names /\ old.group \in Names /\ old.group \in work.groups
      BY <1>1, <1>4, <2>2 DEF OldRecords
    <3>1. PICK r : r = Row(old.group, FALSE)
      OBVIOUS
    <3>2. r \in RowRecord /\ ~ r.session /\ r.group = old.group
      BY <3>0, <3>1 DEF Row, RowRecord
    <3>3. PICK new : new = [work EXCEPT !.accounts[old.name] = r]
      OBVIOUS
    <3>4. work' = new
      BY <1>1, <1>4, <2>2, <3>1, <3>3
    <3>5. /\ new \in Databases /\ new.accounts[old.name] = r
          /\ \A m \in Names \ {old.name} : new.accounts[m] = work.accounts[m]
          /\ new.groups = work.groups /\ new.blobs = work.blobs /\ new.settings = work.settings
      BY <1>2, <3>0, <3>2, <3>3, AccountWritten
    <3>6. Sound(new)
      BY <1>2, <3>0, <3>2, <3>5 DEF Sound
    <3>. QED BY <3>2, <3>4, <3>5, <3>6 DEF Sound
  <2>. QED BY <2>1, <2>2
<1>8. counts' \in Reports /\ counts'.settings = counts.settings /\ counts'.sessions = counts.sessions
  BY <1>1, <1>2 DEF Reports
<1>9. LegacyTrue'
  BY <1>1, <1>2, <1>6, <1>7, <1>8, LegacyStaysTrue
<1>. QED BY <1>1, <1>2, <1>6, <1>7, <1>8, <1>9, LegacyGoesOn DEF LegacyPlaces

LEMMA OldSessionStep == ImportsInv /\ OldSession => ImportsInv'
<1>. SUFFICES ASSUME ImportsInv, OldSession PROVE ImportsInv'
  OBVIOUS
<1>1. PICK failed \in {"none", "blob", "flag"} :
         /\ importer.at = "oldSession"
         /\ work' = [work EXCEPT !.blobs = IF failed = "blob" THEN @ ELSE @ \union {Head1.name},
                                 !.accounts[Head1.name].session = FlagFollows(failed)]
         /\ counts' = IF failed = "none" THEN [counts EXCEPT !.sessions = @ + 1] ELSE counts
         /\ Next1("oldAccount") /\ UNCHANGED <<tables, imports, twice>>
  BY DEF OldSession, At
<1>2. importer.from = "legacy" /\ LegacyTrue /\ work \in Databases /\ Sound(work) /\ counts \in Reports /\ ImportTypes
      /\ importer.todo # <<>>
  BY <1>1, ImporterIs DEF ImportsInv, ImportTypes, LegacyPlaces
<1>3. importer.todo \in Seq(OldRecords)
  BY <1>2, ImporterIs
<1>4. PICK old \in OldRecords : old = Head1
  BY <1>2, <1>3, RestIs DEF Head1
<1>5. PICK td \in Seq(OldRecords) : td = Rest
  BY <1>2, <1>3, RestIs DEF Rest
<1>6. /\ importer' \in Importers /\ importer'.from = "legacy" /\ importer'.at = "oldAccount"
      /\ importer'.todo \in Seq(OldRecords)
  <2>1. importer' = [importer EXCEPT !.at = "oldAccount", !.todo = td]
    BY <1>1, <1>5 DEF Next1
  <2>2. importer \in Importers /\ "oldAccount" \in Places /\ td \in Seq(Entries \union OldRecords \union Pasted)
    BY <1>2 DEF ImportTypes, Places, LegacyPlaces
  <2>. QED BY <1>2, <2>1, <2>2 DEF Importers
<1>7. PICK who \in Names : who = old.name
  BY DEF OldRecords
<1>8. PICK bs \in SUBSET Names : bs = (IF failed = "blob" THEN work.blobs ELSE work.blobs \union {who})
  BY <1>2, <1>7 DEF Databases
<1>9. PICK r : r = [work.accounts[who] EXCEPT !.session = FlagFollows(failed)]
  OBVIOUS
<1>10. r \in RowRecord /\ r.session = (failed = "none") /\ r.here = work.accounts[who].here
       /\ r.group = work.accounts[who].group
  <2>1. PICK was \in RowRecord : was = work.accounts[who]
    BY <1>2 DEF Databases
  <2>2. PICK flag \in BOOLEAN : flag = FlagFollows(failed) /\ flag = (failed = "none")
    BY DEF FlagFollows
  <2>3. r = [was EXCEPT !.session = flag]
    BY <1>9, <2>1, <2>2
  <2>4. r \in RowRecord /\ r.session = flag /\ r.here = was.here /\ r.group = was.group
    BY <2>3 DEF RowRecord
  <2>. QED BY <2>1, <2>2, <2>4
<1>11. PICK mid : mid = [work EXCEPT !.blobs = bs]
  OBVIOUS
<1>12. mid \in Databases /\ mid.accounts = work.accounts /\ mid.groups = work.groups /\ mid.settings = work.settings
       /\ mid.blobs = bs
  BY <1>2, <1>8, <1>11 DEF Databases
<1>13. PICK new : new = [mid EXCEPT !.accounts[who] = r]
  OBVIOUS
<1>14. work' = new
  <2>1. work' = [work EXCEPT !.blobs = bs, !.accounts[who].session = FlagFollows(failed)]
    BY <1>1, <1>4, <1>7, <1>8
  <2>2. work' = [mid EXCEPT !.accounts[who].session = FlagFollows(failed)]
    BY <2>1, <1>11
  <2>. QED BY <2>2, <1>9, <1>12, <1>13
<1>15. /\ new \in Databases /\ new.accounts[who] = r /\ \A m \in Names \ {who} : new.accounts[m] = work.accounts[m]
       /\ new.groups = work.groups /\ new.blobs = bs /\ new.settings = work.settings
  BY <1>7, <1>10, <1>12, <1>13, AccountWritten
<1>16. Sound(new)
  BY <1>2, <1>7, <1>8, <1>10, <1>15 DEF Sound
<1>17. counts' \in Reports /\ counts'.settings = counts.settings
       /\ counts'.sessions = counts.sessions + (IF failed = "none" THEN 1 ELSE 0)
  BY <1>1, <1>2 DEF Reports
<1>18. NewSessions' \subseteq (IF failed = "none" THEN NewSessions \union {who} ELSE NewSessions)
  <2>1. \A n \in Names : n # who => work'.accounts[n] = work.accounts[n]
    BY <1>14, <1>15
  <2>2. work'.accounts[who].session = (failed = "none")
    BY <1>10, <1>14, <1>15
  <2>3. tables' = tables
    BY <1>1
  <2>4. \A n \in NewSessions' : n \in NewSessions \/ (n = who /\ failed = "none")
    BY <2>1, <2>2, <2>3 DEF NewSessions
  <2>. QED BY <2>4
<1>19. counts'.sessions >= Cardinality(NewSessions')
  <2>1. PICK was, now : was = NewSessions /\ now = NewSessions'
    OBVIOUS
  <2>2. IsFiniteSet(was) /\ Cardinality(was) \in Nat
    BY <2>1, NamesAre, FS_Subset, FS_CardinalityType DEF NewSessions
  <2>3. PICK c \in Nat : c = counts.sessions /\ c >= Cardinality(was)
    BY <1>2, <2>1 DEF LegacyTrue, Reports
  <2>4. CASE failed = "none"
    <3>1. now \subseteq was \union {who}
      BY <1>18, <2>1, <2>4
    <3>2. IsFiniteSet(was \union {who}) /\ Cardinality(was \union {who}) <= Cardinality(was) + 1
      <4>1. CASE who \in was
        <5>1. was \union {who} = was
          BY <4>1
        <5>2. Cardinality(was) <= Cardinality(was) + 1
          BY <2>2
        <5>. QED BY <2>2, <5>1, <5>2
      <4>2. CASE who \notin was
        <5>1. IsFiniteSet(was \union {who}) /\ Cardinality(was \union {who}) = Cardinality(was) + 1
          BY <2>2, <4>2, FS_AddElement
        <5>. QED BY <2>2, <5>1
      <4>. QED BY <4>1, <4>2
    <3>3. Cardinality(now) <= Cardinality(was \union {who}) /\ Cardinality(now) \in Nat
          /\ Cardinality(was \union {who}) \in Nat
      BY <3>1, <3>2, FS_Subset, FS_CardinalityType
    <3>4. c + 1 >= Cardinality(now)
      BY <2>2, <2>3, <3>2, <3>3
    <3>. QED BY <1>17, <2>1, <2>3, <2>4, <3>4
  <2>5. CASE failed # "none"
    <3>1. now \subseteq was
      BY <1>18, <2>1, <2>5
    <3>2. Cardinality(now) <= Cardinality(was) /\ Cardinality(now) \in Nat
      BY <2>2, <3>1, FS_Subset, FS_CardinalityType
    <3>3. c >= Cardinality(now)
      BY <2>2, <2>3, <3>2
    <3>4. counts'.sessions = c
      BY <1>17, <2>3, <2>5
    <3>. QED BY <2>1, <3>3, <3>4
  <2>. QED BY <2>4, <2>5
<1>20. LegacyTrue'
  BY <1>1, <1>2, <1>6, <1>14, <1>15, <1>17, <1>19 DEF LegacyTrue
<1>21. Sound(work)'
  BY <1>14, <1>16 DEF Sound
<1>. QED BY <1>1, <1>2, <1>6, <1>14, <1>15, <1>17, <1>20, <1>21, LegacyGoesOn DEF LegacyPlaces

\* A pasted list: of the records of one account the richest is taken.
LEMMA RichestIsThere ==
    ASSUME NEW list \in Seq(Pasted), NEW i \in DOMAIN list
    PROVE  Richest(list, i) \in DOMAIN list
<1>. DEFINE Same == {k \in DOMAIN list : SameAs(list[k], list[i])}
            Poor(k) == 3 - Richness(list[k])
            Gaps == {Poor(k) : k \in Same}
            Is(j) == /\ SameAs(list[j], list[i])
                     /\ \A k \in DOMAIN list : SameAs(list[k], list[i]) =>
                           Richness(list[k]) < Richness(list[j]) \/ (Richness(list[k]) = Richness(list[j]) /\ j <= k)
<1>1. \A k : Richness(list[k]) \in 0..3
  BY DEF Richness
<1>2. DOMAIN list \subseteq Nat /\ i \in Same
  BY DEF SameAs
<1>3. Gaps \subseteq Nat /\ Gaps # {}
  BY <1>1, <1>2
<1>4. PICK d \in Gaps : \A e \in Gaps : d <= e
  <2>. HIDE DEF Gaps
  <2>. QED BY <1>3, LeastIsThere
<1>. DEFINE Best == {k \in Same : Poor(k) = d}
<1>5. Best \subseteq Nat /\ Best # {}
  BY <1>2, <1>4
<1>6. PICK j \in Best : \A e \in Best : j <= e
  <2>. HIDE DEF Best
  <2>. QED BY <1>5, LeastIsThere
<1>7. Is(j)
  <2>1. j \in Same /\ Poor(j) = d
    BY <1>6
  <2>2. ASSUME NEW k \in Same PROVE Richness(list[k]) < Richness(list[j]) \/ (Richness(list[k]) = Richness(list[j]) /\ j <= k)
    <3>1. Poor(k) \in Gaps /\ d <= Poor(k)
      BY <1>4
    <3>2. CASE Poor(k) = d
      <4>1. k \in Best
        BY <3>2
      <4>2. j <= k
        <5>. HIDE DEF Best
        <5>. QED BY <1>6, <4>1
      <4>. QED BY <1>1, <2>1, <3>2, <4>2
    <3>3. CASE Poor(k) # d
      BY <1>1, <2>1, <3>1, <3>3
    <3>. QED BY <3>2, <3>3
  <2>. QED BY <2>1, <2>2
<1>8. Richest(list, i) = CHOOSE k \in DOMAIN list : Is(k)
  BY DEF Richest
<1>9. j \in DOMAIN list
  BY <1>6
<1>. HIDE DEF Is
<1>. QED BY <1>7, <1>8, <1>9

LEMMA DeduplicatedFits ==
    ASSUME NEW list \in Seq(Pasted)
    PROVE  Deduplicated(list) \in Seq(Pasted) /\ Len(Deduplicated(list)) \in Nat
<1>1. PICK firsts : firsts = {i \in DOMAIN list : \A k \in 1..(i - 1) : ~ SameAs(list[k], list[i])}
  OBVIOUS
<1>2. PICK rich : rich = [i \in DOMAIN list |-> list[Richest(list, i)]]
  OBVIOUS
<1>3. \A i \in DOMAIN list : rich[i] \in Pasted
  BY <1>2, RichestIsThere
<1>4. PICK n \in Nat : n = Len(list) /\ DOMAIN list = 1..n
  OBVIOUS
<1>5. rich \in Seq(Pasted) /\ DOMAIN rich = DOMAIN list
  BY <1>2, <1>3, <1>4
<1>6. firsts \subseteq DOMAIN rich
  BY <1>1, <1>5
<1>7. Taken(rich, firsts) \in Seq(Pasted)
  BY <1>5, <1>6, TakenFits
<1>8. Deduplicated(list) = Taken(rich, firsts)
  BY <1>1, <1>2 DEF Deduplicated
<1>. QED BY <1>7, <1>8

\* One step of the import of such a list.
LEMMA BulkGoesOn ==
    ASSUME ImportsInv, tables' \in Databases, work' \in Databases, Sound(tables)', Sound(work)', counts' \in Reports,
           imports' \in 0..MaxImports, twice' \in SUBSET Nat, IsFiniteSet(twice'),
           importer' \in Importers, importer'.from = "bulk", importer'.at \in BulkPlaces, importer'.todo \in Seq(Pasted),
           importer'.records \in Nat, importer'.at \in {"bulkPassword", "bulkCreate"} => importer'.todo # <<>>,
           importer'.at # "done" => BulkTrue'
    PROVE  ImportsInv'
<1>1. importer'.at # "oldSession"
  BY DEF BulkPlaces
<1>2. ImportTypes'
  BY <1>1 DEF ImportTypes, ImporterAt, Sound
<1>. QED BY <1>2 DEF ImportsInv

LEMMA BulkBegins == ImportsInv /\ ImportBulk => ImportsInv'
<1>. SUFFICES ASSUME ImportsInv, ImportBulk PROVE ImportsInv'
  OBVIOUS
<1>1. PICK list \in Lists(Pasted) : \E rs :
         /\ importer.at = "idle" /\ imports < MaxImports /\ imports' = imports + 1 /\ rs = Deduplicated(list)
         /\ importer' = [Resting EXCEPT !.at = "bulk", !.from = "bulk", !.todo = rs, !.records = Len(rs)]
         /\ UNCHANGED <<tables, work, counts, twice>>
  BY DEF ImportBulk, At
<1>0. PICK rs :
         /\ importer.at = "idle" /\ imports < MaxImports /\ imports' = imports + 1 /\ rs = Deduplicated(list)
         /\ importer' = [Resting EXCEPT !.at = "bulk", !.from = "bulk", !.todo = rs, !.records = Len(rs)]
         /\ UNCHANGED <<tables, work, counts, twice>>
  BY <1>1
<1>2. counts = NoCounts /\ twice = {}
  BY <1>0, ImporterIs DEF ImportsInv
<1>3. list \in Seq(Pasted)
  BY DEF Lists
<1>4. rs \in Seq(Pasted)
  BY <1>0, <1>3, DeduplicatedFits
<1>5. PICK n \in Nat : n = Len(rs)
  BY <1>4
<1>6. /\ importer' \in Importers /\ importer'.at = "bulk" /\ importer'.from = "bulk" /\ importer'.todo = rs
      /\ importer'.records = n
  <2>1. rs \in Seq(Entries \union OldRecords \union Pasted)
    BY <1>4
  <2>2. importer' = [Resting EXCEPT !.at = "bulk", !.from = "bulk", !.todo = rs, !.records = n]
    BY <1>0, <1>5
  <2>. QED BY <2>1, <2>2 DEF Resting, Importers, Places, BulkPlaces
<1>7. imports' \in 0..MaxImports
  BY <1>0, ImportsAssumption DEF ImportsInv, ImportTypes, ImportsAssumption
<1>8. BulkTrue'
  <2>1. twice' = {} /\ Cardinality(twice') = 0
    BY <1>0, <1>2, FS_EmptySet
  <2>2. counts'.accounts = 0 /\ counts'.failed = 0
    BY <1>0, <1>2 DEF NoCounts
  <2>3. Len(importer'.todo) = n
    BY <1>5, <1>6
  <2>. QED BY <1>6, <2>1, <2>2, <2>3 DEF BulkTrue
<1>. QED BY <1>0, <1>2, <1>4, <1>6, <1>7, <1>8, FS_EmptySet, BulkGoesOn DEF ImportsInv, ImportTypes, BulkPlaces, Sound

\* The importer is asked something else about the same record, or goes to the next one.
LEMMA PasterGoes ==
    ASSUME ImportsInv, importer.from = "bulk", NEW at \in BulkPlaces,
           importer' = [importer EXCEPT !.at = at] \/ (importer.todo # <<>> /\ Next1(at))
    PROVE  /\ importer' \in Importers /\ importer'.from = "bulk" /\ importer'.at = at /\ importer'.records = importer.records
           /\ importer'.todo \in Seq(Pasted)
           /\ importer' = [importer EXCEPT !.at = at] => importer'.todo = importer.todo
           /\ importer.todo # <<>> /\ Next1(at) => /\ importer'.todo = Rest /\ Len(importer.todo) \in Nat \ {0}
                                                  /\ Len(importer'.todo) = Len(importer.todo) - 1
<1>1. importer.todo \in Seq(Pasted) /\ importer \in Importers /\ at \in Places
  BY ImporterIs DEF ImportsInv, ImportTypes, Places
<1>2. CASE importer' = [importer EXCEPT !.at = at]
  <2>1. /\ importer' \in Importers /\ importer'.from = "bulk" /\ importer'.at = at /\ importer'.todo = importer.todo
        /\ importer'.records = importer.records
    BY <1>1, <1>2 DEF Importers
  <2>2. ~ (importer.todo # <<>> /\ Next1(at))
    <3>. SUFFICES ASSUME importer.todo # <<>>, Next1(at) PROVE FALSE
      OBVIOUS
    <3>1. importer'.todo = Tail(importer.todo)
      BY <1>1 DEF Next1, Rest, Importers
    <3>2. Len(Tail(importer.todo)) = Len(importer.todo) - 1 /\ Len(importer.todo) \in Nat
      BY <1>1, RestIs
    <3>3. Len(importer.todo) = Len(importer.todo) - 1
      BY <2>1, <3>1, <3>2
    <3>. QED BY <3>2, <3>3
  <2>. QED BY <1>1, <2>1, <2>2
<1>3. CASE importer.todo # <<>> /\ Next1(at)
  <2>1. PICK td \in Seq(Pasted) : td = Rest
    BY <1>1, <1>3, RestIs DEF Rest
  <2>2. Len(td) = Len(importer.todo) - 1 /\ Len(importer.todo) \in Nat \ {0}
    BY <1>1, <1>3, <2>1, RestIs DEF Rest
  <2>3. importer' = [importer EXCEPT !.at = at, !.todo = td]
    BY <1>3, <2>1 DEF Next1
  <2>4. td \in Seq(Entries \union OldRecords \union Pasted)
    OBVIOUS
  <2>5. /\ importer' \in Importers /\ importer'.from = "bulk" /\ importer'.at = at /\ importer'.todo = td
        /\ importer'.records = importer.records
    BY <1>1, <2>3, <2>4 DEF Importers
  <2>6. importer' # [importer EXCEPT !.at = at]
    <3>. SUFFICES ASSUME importer' = [importer EXCEPT !.at = at] PROVE FALSE
      OBVIOUS
    <3>1. importer'.todo = importer.todo
      BY <1>1 DEF Importers
    <3>2. Len(importer.todo) = Len(importer.todo) - 1
      BY <2>2, <2>5, <3>1
    <3>. QED BY <2>2, <3>2
  <2>. QED BY <2>1, <2>2, <2>5, <2>6
<1>. QED BY <1>2, <1>3

\* What a direct write leaves.
BulkKeeps == tables' \in Databases /\ work' \in Databases /\ Sound(tables)' /\ Sound(work)'

LEMMA WroteOneRow ==
    ASSUME ImportsInv, NEW db \in Databases, Sound(db), tables' = db, work' = db
    PROVE  BulkKeeps
BY DEF BulkKeeps, Sound

LEMMA WroteNothing ==
    ASSUME ImportsInv, UNCHANGED <<tables, work>>
    PROVE  BulkKeeps
BY DEF BulkKeeps, ImportsInv, ImportTypes, Sound

\* Of a pasted list one more is counted when the list goes on.
LEMMA OneRecordOn ==
    ASSUME ImportsInv, importer.from = "bulk", importer.at \in BulkPlaces \ {"done"}, counts' \in Reports,
           NEW at \in BulkPlaces, twice' = twice,
           importer' = [importer EXCEPT !.at = at] \/ (importer.todo # <<>> /\ Next1(at)),
           NEW more \in {0, 1}, counts'.accounts + counts'.failed = counts.accounts + counts.failed + more,
           \/ importer' = [importer EXCEPT !.at = at] /\ importer.at = "bulk" /\ at = "bulkCreate" /\ more = 0
           \/ importer' = [importer EXCEPT !.at = at] /\ importer.at = "bulk" /\ at = "bulkPassword" /\ more = 1
           \/ importer.todo # <<>> /\ Next1(at) /\ importer.at \in {"bulk", "bulkCreate"} /\ at = "bulk" /\ more = 1
           \/ importer.todo # <<>> /\ Next1(at) /\ importer.at = "bulkPassword" /\ at = "bulk" /\ more = 0
    PROVE  BulkTrue'
<1>1. BulkTrue
  BY DEF ImportsInv
<1>2. PICK left \in Nat : left = Len(importer.todo)
  BY ImporterIs DEF ImportsInv
<1>3. PICK c \in Nat : c = Cardinality(twice)
  BY FS_CardinalityType DEF ImportsInv, ImportTypes
<1>4. PICK n \in Nat : n = importer.records /\ importer'.records = n
  BY PasterGoes, ImporterIs DEF ImportsInv
<1>5. PICK sum \in Nat : sum = counts.accounts + counts.failed
  <2>1. counts \in Reports
    BY DEF ImportsInv, ImportTypes
  <2>2. counts.accounts \in Nat /\ counts.failed \in Nat
    BY <2>1 DEF Reports
  <2>. QED BY <2>2
<1>6. twice \subseteq Nat
  BY DEF ImportsInv, ImportTypes
<1>7. /\ importer.at \in {"bulk", "bulkCreate"} => sum = n - left + c
      /\ importer.at = "bulkPassword" => sum = n - left + c + 1
      /\ \A m \in twice : IF importer.at = "bulkCreate" THEN m >= left ELSE m > left
  BY <1>1, <1>2, <1>3, <1>4, <1>5 DEF BulkTrue
<1>8. importer'.at = at
  BY PasterGoes
<1>9. CASE importer' = [importer EXCEPT !.at = at] /\ importer.at = "bulk"
  <2>1. importer'.todo = importer.todo
    BY <1>9, PasterGoes
  <2>2. Len(importer'.todo) = left
    BY <1>2, <2>1
  <2>3. CASE at = "bulkCreate" /\ more = 0
    <3>1. counts'.accounts + counts'.failed = n - left + c
      BY <1>5, <1>7, <1>9, <2>3
    <3>2. \A m \in twice : m >= left
      BY <1>6, <1>7, <1>9
    <3>. QED BY <1>3, <1>4, <1>8, <2>2, <2>3, <3>1, <3>2 DEF BulkTrue
  <2>4. CASE at = "bulkPassword" /\ more = 1
    <3>1. counts'.accounts + counts'.failed = n - left + c + 1
      BY <1>5, <1>7, <1>9, <2>4
    <3>2. \A m \in twice : m > left
      BY <1>7, <1>9
    <3>. QED BY <1>3, <1>4, <1>8, <2>2, <2>4, <3>1, <3>2 DEF BulkTrue
  <2>5. importer.at \notin {"bulkCreate", "bulkPassword"}
    BY <1>9
  <2>6. at # "bulk" \/ (importer.todo # <<>> /\ Next1(at))
    BY <1>9, <2>5
  <2>7. ~ (importer.todo # <<>> /\ Next1(at))
    <3>. SUFFICES ASSUME importer.todo # <<>>, Next1(at) PROVE FALSE
      OBVIOUS
    <3>1. Len(importer'.todo) = left - 1
      BY <1>2, PasterGoes
    <3>. QED BY <2>2, <3>1
  <2>. QED BY <2>3, <2>4, <2>5, <2>7
<1>10. CASE importer.todo # <<>> /\ Next1(at) /\ at = "bulk"
  <2>1. left > 0 /\ Len(importer'.todo) = left - 1
    BY <1>2, <1>10, PasterGoes
  <2>2. PICK rest \in Nat : rest = left - 1 /\ Len(importer'.todo) = rest
    BY <2>1
  <2>3. counts'.accounts + counts'.failed = n - rest + c
    <3>1. CASE importer.at \in {"bulk", "bulkCreate"} /\ more = 1
      BY <1>5, <1>7, <2>2, <3>1
    <3>2. CASE importer.at = "bulkPassword" /\ more = 0
      BY <1>5, <1>7, <2>2, <3>2
    <3>. QED BY <1>10, <3>1, <3>2
  <2>4. \A m \in twice : m > rest
    BY <1>6, <1>7, <2>2
  <2>. QED BY <1>3, <1>4, <1>8, <1>10, <2>2, <2>3, <2>4 DEF BulkTrue
<1>. QED BY <1>9, <1>10

LEMMA SignInStep == ImportsInv /\ BulkSignIn => ImportsInv'
<1>. SUFFICES ASSUME ImportsInv, BulkSignIn PROVE ImportsInv'
  OBVIOUS
<1>1. /\ importer.at = "bulk" /\ importer.todo # <<>> /\ Head1.cookie # NoName /\ UNCHANGED <<imports, twice>>
      /\ \/ importer' = [importer EXCEPT !.at = "bulkCreate"] /\ UNCHANGED <<tables, work, counts>>
         \/ /\ Direct([tables EXCEPT !.accounts[Head1.cookie] =
                         [(IF @.here THEN @ ELSE Row(NoName, FALSE)) EXCEPT !.session = TRUE],
                                     !.blobs = @ \union {Head1.cookie}])
            /\ Added("accounts")
            /\ importer' = [importer EXCEPT !.at = "bulkPassword"] \/ Next1("bulk")
  BY DEF BulkSignIn, At
<1>2. importer.from = "bulk" /\ tables \in Databases /\ Sound(tables) /\ counts \in Reports
  BY <1>1, ImporterIs DEF ImportsInv, ImportTypes, BulkPlaces
<1>3. PICK r \in Pasted : r = Head1
  BY <1>1, <1>2, ImporterIs, RestIs DEF Head1, ImportsInv
<1>4. PICK owner \in Names : owner = Head1.cookie
  BY <1>1, <1>3 DEF Pasted
<1>5. CASE importer' = [importer EXCEPT !.at = "bulkCreate"] /\ UNCHANGED <<tables, work, counts>>
  <2>1. counts'.accounts + counts'.failed = counts.accounts + counts.failed + 0
    BY <1>2, <1>5 DEF Reports
  <2>2. BulkTrue'
    BY <1>1, <1>2, <1>5, <2>1, OneRecordOn DEF BulkPlaces
  <2>3. /\ importer' \in Importers /\ importer'.from = "bulk" /\ importer'.at = "bulkCreate"
        /\ importer'.records = importer.records /\ importer'.todo \in Seq(Pasted) /\ importer'.todo = importer.todo
    BY <1>2, <1>5, PasterGoes DEF BulkPlaces
  <2>4. importer.records \in Nat
    BY <1>2, ImporterIs DEF ImportsInv
  <2>5. BulkKeeps
    BY <1>5, WroteNothing
  <2>. QED BY <1>1, <1>2, <1>5, <2>2, <2>3, <2>4, <2>5, BulkGoesOn DEF BulkKeeps, ImportsInv, ImportTypes, BulkPlaces
<1>6. CASE /\ Direct([tables EXCEPT !.accounts[Head1.cookie] =
                         [(IF @.here THEN @ ELSE Row(NoName, FALSE)) EXCEPT !.session = TRUE],
                                     !.blobs = @ \union {Head1.cookie}])
           /\ Added("accounts")
           /\ importer' = [importer EXCEPT !.at = "bulkPassword"] \/ Next1("bulk")
  <2>1. PICK was \in RowRecord : was = (IF tables.accounts[owner].here THEN tables.accounts[owner] ELSE Row(NoName, FALSE))
    BY <1>2 DEF Databases, Row, RowRecord
  <2>2. PICK s : s = [was EXCEPT !.session = TRUE]
    OBVIOUS
  <2>3. s \in RowRecord /\ s.group = was.group
    BY <2>1, <2>2 DEF RowRecord
  <2>4. PICK mid : mid = [tables EXCEPT !.accounts[owner] = s]
    OBVIOUS
  <2>5. /\ mid \in Databases /\ mid.accounts[owner] = s /\ \A m \in Names \ {owner} : mid.accounts[m] = tables.accounts[m]
        /\ mid.groups = tables.groups /\ mid.blobs = tables.blobs
    BY <1>2, <1>4, <2>3, <2>4, AccountWritten
  <2>6. PICK bs \in SUBSET Names : bs = tables.blobs \union {owner}
    BY <1>2, <1>4 DEF Databases
  <2>7. PICK new : new = [mid EXCEPT !.blobs = bs]
    OBVIOUS
  <2>8. new \in Databases /\ new.accounts = mid.accounts /\ new.groups = mid.groups /\ new.blobs = bs
    BY <2>5, <2>6, <2>7 DEF Databases
  <2>9. tables' = new /\ work' = new
    <3>1. new = [tables EXCEPT !.accounts[owner] = s, !.blobs = bs]
      BY <2>4, <2>7
    <3>2. new = [tables EXCEPT !.accounts[owner] = [(IF @.here THEN @ ELSE Row(NoName, FALSE)) EXCEPT !.session = TRUE],
                               !.blobs = @ \union {owner}]
      BY <1>2, <2>1, <2>2, <2>6, <3>1 DEF Databases
    <3>. QED BY <1>4, <1>6, <3>2 DEF Direct
  <2>10. Sound(new)
    <3>1. was.here => was.group \in tables.groups \union {NoName}
      BY <1>2, <1>4, <2>1 DEF Sound, Row
    <3>2. s.here => s.group \in tables.groups \union {NoName}
      BY <2>1, <2>2, <2>3, <3>1 DEF Row, RowRecord
    <3>3. \A n \in Names \ {owner} : new.accounts[n] = tables.accounts[n]
      BY <2>5, <2>8
    <3>4. new.accounts[owner] = s /\ new.groups = tables.groups /\ tables.blobs \subseteq new.blobs /\ owner \in new.blobs
      BY <2>5, <2>6, <2>8
    <3>. QED BY <1>2, <3>2, <3>3, <3>4 DEF Sound
  <2>11. BulkKeeps
    BY <2>8, <2>9, <2>10, WroteOneRow
  <2>12. counts' \in Reports /\ counts'.accounts + counts'.failed = counts.accounts + counts.failed + 1
    BY <1>2, <1>6 DEF Added, Reports
  <2>13. PICK at \in {"bulk", "bulkPassword"} :
            IF at = "bulk" THEN Next1(at) ELSE importer' = [importer EXCEPT !.at = at]
    BY <1>6
  <2>14. BulkTrue'
    BY <1>1, <1>2, <2>12, <2>13, OneRecordOn DEF BulkPlaces
  <2>15. /\ importer' \in Importers /\ importer'.from = "bulk" /\ importer'.at = at
         /\ importer'.records = importer.records /\ importer'.todo \in Seq(Pasted)
         /\ importer' = [importer EXCEPT !.at = at] => importer'.todo = importer.todo
    BY <1>1, <1>2, <2>13, PasterGoes DEF BulkPlaces
  <2>16. importer.records \in Nat
    BY <1>2, ImporterIs DEF ImportsInv
  <2>17. importer'.at \in {"bulkPassword", "bulkCreate"} => importer'.todo # <<>>
    BY <1>1, <2>13, <2>15
  <2>. QED BY <1>1, <1>2, <2>11, <2>12, <2>14, <2>15, <2>16, <2>17, BulkGoesOn DEF BulkKeeps, ImportsInv, ImportTypes, BulkPlaces
<1>. QED BY <1>1, <1>5, <1>6

LEMMA NoSessionStep == ImportsInv /\ (BulkNoSession \/ BulkEnds) => ImportsInv'
<1>. SUFFICES ASSUME ImportsInv, BulkNoSession \/ BulkEnds PROVE ImportsInv'
  OBVIOUS
<1>1. PICK at \in {"bulkCreate", "done"} :
         /\ importer.at = "bulk" /\ (at = "bulkCreate" => importer.todo # <<>>)
         /\ importer' = [importer EXCEPT !.at = at] /\ UNCHANGED <<tables, work, counts, imports, twice>>
  BY DEF BulkNoSession, BulkEnds, At
<1>2. importer.from = "bulk" /\ counts \in Reports
  BY <1>1, ImporterIs DEF ImportsInv, ImportTypes, BulkPlaces
<1>3. /\ importer' \in Importers /\ importer'.from = "bulk" /\ importer'.at = at
      /\ importer'.records = importer.records /\ importer'.todo \in Seq(Pasted) /\ importer'.todo = importer.todo
  BY <1>1, <1>2, PasterGoes DEF BulkPlaces
<1>4. importer.records \in Nat
  BY <1>2, ImporterIs DEF ImportsInv
<1>5. BulkKeeps
  BY <1>1, WroteNothing
<1>6. at = "bulkCreate" => BulkTrue'
  <2>1. counts'.accounts + counts'.failed = counts.accounts + counts.failed + 0
    BY <1>1, <1>2 DEF Reports
  <2>. QED BY <1>1, <1>2, <2>1, OneRecordOn DEF BulkPlaces
<1>. QED BY <1>1, <1>2, <1>3, <1>4, <1>5, <1>6, BulkGoesOn DEF BulkKeeps, ImportsInv, ImportTypes, BulkPlaces

LEMMA PasswordStep == ImportsInv /\ BulkPassword => ImportsInv'
<1>. SUFFICES ASSUME ImportsInv, BulkPassword PROVE ImportsInv'
  OBVIOUS
<1>1. PICK fails \in BOOLEAN :
         /\ importer.at = "bulkPassword" /\ importer.todo # <<>>
         /\ IF fails THEN importer' = [importer EXCEPT !.at = "bulkCreate"] ELSE Next1("bulk")
         /\ twice' = IF fails THEN twice \union {Len(importer.todo)} ELSE twice
         /\ UNCHANGED <<tables, work, counts, imports>>
  BY DEF BulkPassword, At, ImportsInv, ImportTypes
<1>2. importer.from = "bulk" /\ counts \in Reports
  BY <1>1, ImporterIs DEF ImportsInv, ImportTypes, BulkPlaces
<1>3. PICK at \in {"bulkCreate", "bulk"} : at = IF fails THEN "bulkCreate" ELSE "bulk"
  OBVIOUS
<1>4. /\ importer' \in Importers /\ importer'.from = "bulk" /\ importer'.at = at
      /\ importer'.records = importer.records /\ importer'.todo \in Seq(Pasted)
      /\ importer' = [importer EXCEPT !.at = at] => importer'.todo = importer.todo
  BY <1>1, <1>2, <1>3, PasterGoes DEF BulkPlaces
<1>5. PICK n \in Nat : n = importer.records
  BY <1>2, ImporterIs DEF ImportsInv
<1>6. BulkKeeps
  BY <1>1, WroteNothing
<1>7. PICK left \in Nat : left = Len(importer.todo)
  BY <1>2, ImporterIs DEF ImportsInv
<1>8. twice' \in SUBSET Nat /\ IsFiniteSet(twice')
  BY <1>1, <1>7, FS_AddElement DEF ImportsInv, ImportTypes
<1>9. BulkTrue'
  <2>1. CASE ~ fails
    <3>1. counts'.accounts + counts'.failed = counts.accounts + counts.failed + 0
      BY <1>1, <1>2 DEF Reports
    <3>. QED BY <1>1, <1>2, <2>1, <3>1, OneRecordOn DEF BulkPlaces
  <2>2. CASE fails
    <3>1. PICK was, now : was = twice /\ now = twice' /\ now = was \union {left}
      BY <1>1, <1>7, <2>2
    <3>2. \A m \in was : m > left /\ m \in Nat
      BY <1>1, <1>2, <1>7, <3>1 DEF ImportsInv, ImportTypes, BulkTrue
    <3>3. left \notin was
      BY <3>2
    <3>4. IsFiniteSet(was)
      BY <3>1 DEF ImportsInv, ImportTypes
    <3>5. PICK c \in Nat : c = Cardinality(was) /\ Cardinality(now) = c + 1
      <4>1. Cardinality(was) \in Nat
        BY <3>4, FS_CardinalityType
      <4>2. Cardinality(was \union {left}) = Cardinality(was) + 1
        BY <3>3, <3>4, FS_AddElement
      <4>. QED BY <3>1, <4>1, <4>2
    <3>6. PICK sum \in Nat : sum = counts.accounts + counts.failed
      BY <1>2 DEF Reports
    <3>7. sum = n - left + c + 1
      BY <1>1, <1>2, <1>5, <1>7, <3>1, <3>5, <3>6 DEF ImportsInv, BulkTrue
    <3>8. sum = n - left + (c + 1)
      BY <3>7
    <3>9. \A m \in now : m >= left
      BY <3>1, <3>2
    <3>10. Len(importer'.todo) = left /\ importer'.at = "bulkCreate" /\ importer'.records = n
           /\ counts'.accounts + counts'.failed = sum
      BY <1>1, <1>3, <1>4, <1>5, <1>7, <2>2, <3>6
    <3>. QED BY <3>1, <3>5, <3>8, <3>9, <3>10 DEF BulkTrue
  <2>. QED BY <2>1, <2>2
<1>10. importer'.at \in {"bulkPassword", "bulkCreate"} => importer'.todo # <<>>
  BY <1>1, <1>3, <1>4
<1>. QED BY <1>1, <1>2, <1>3, <1>4, <1>5, <1>6, <1>8, <1>9, <1>10, BulkGoesOn
         DEF BulkKeeps, ImportsInv, ImportTypes, BulkPlaces

LEMMA BulkCreateStep == ImportsInv /\ BulkCreate => ImportsInv'
<1>. SUFFICES ASSUME ImportsInv, BulkCreate PROVE ImportsInv'
  OBVIOUS
<1>1. PICK name \in (IF Head1.name # NoName THEN {Head1.name} ELSE Names), keeps \in BOOLEAN, field \in {"accounts", "failed"} :
         /\ importer.at = "bulkCreate" /\ importer.todo # <<>>
         /\ IF keeps THEN Direct([tables EXCEPT !.accounts[name] = Row(NoName, FALSE)]) ELSE UNCHANGED <<tables, work>>
         /\ Added(field) /\ Next1("bulk") /\ UNCHANGED <<imports, twice>>
  BY DEF BulkCreate, At, ImportsInv, ImportTypes
<1>2. importer.from = "bulk" /\ tables \in Databases /\ Sound(tables) /\ counts \in Reports
  BY <1>1, ImporterIs DEF ImportsInv, ImportTypes, BulkPlaces
<1>3. PICK r \in Pasted : r = Head1
  BY <1>1, <1>2, ImporterIs, RestIs DEF Head1, ImportsInv
<1>4. name \in Names
  BY <1>1, <1>3 DEF Pasted
<1>5. BulkKeeps
  <2>1. CASE ~ keeps
    BY <1>1, <2>1, WroteNothing
  <2>2. CASE keeps
    <3>1. PICK s : s = Row(NoName, FALSE)
      OBVIOUS
    <3>2. s \in RowRecord /\ ~ s.session /\ s.group = NoName
      BY <3>1 DEF Row, RowRecord
    <3>3. PICK new : new = [tables EXCEPT !.accounts[name] = s]
      OBVIOUS
    <3>4. /\ new \in Databases /\ new.accounts[name] = s /\ \A m \in Names \ {name} : new.accounts[m] = tables.accounts[m]
          /\ new.groups = tables.groups /\ new.blobs = tables.blobs
      BY <1>2, <1>4, <3>2, <3>3, AccountWritten
    <3>5. Sound(new)
      BY <1>2, <3>2, <3>4 DEF Sound
    <3>6. tables' = new /\ work' = new
      BY <1>1, <2>2, <3>1, <3>3 DEF Direct
    <3>. QED BY <3>4, <3>5, <3>6, WroteOneRow
  <2>. QED BY <2>1, <2>2
<1>6. counts' \in Reports /\ counts'.accounts + counts'.failed = counts.accounts + counts.failed + 1
  <2>1. CASE field = "accounts"
    BY <1>1, <1>2, <2>1 DEF Added, Reports
  <2>2. CASE field = "failed"
    BY <1>1, <1>2, <2>2 DEF Added, Reports
  <2>. QED BY <1>1, <2>1, <2>2
<1>7. /\ importer' \in Importers /\ importer'.from = "bulk" /\ importer'.at = "bulk"
      /\ importer'.records = importer.records /\ importer'.todo \in Seq(Pasted)
  BY <1>1, <1>2, PasterGoes DEF BulkPlaces
<1>8. BulkTrue'
  BY <1>1, <1>2, <1>6, OneRecordOn DEF BulkPlaces
<1>9. importer.records \in Nat
  BY <1>2, ImporterIs DEF ImportsInv
<1>. QED BY <1>1, <1>2, <1>5, <1>6, <1>7, <1>8, <1>9, BulkGoesOn DEF BulkKeeps, ImportsInv, ImportTypes, BulkPlaces

LEMMA ImportsStep == ImportsInv /\ [ImportsNext]_importVars => ImportsInv'
<1>. SUFFICES ASSUME ImportsInv, [ImportsNext]_importVars PROVE ImportsInv'
  OBVIOUS
<1>1. CASE Commit \/ Abort \/ Forget \/ \E name \in Names : UserMarks(name)
  BY <1>1, CommitStep, AbortStep, ForgetStep, MarkStep
<1>2. CASE ImportMetadata \/ TransferEntry \/ TransferEnds
  BY <1>2, TransferBegins, EntryStep, TransferEndsStep
<1>3. CASE MigrateLegacy \/ OldSettings \/ OldGames \/ PruneGames \/ LoadAccounts \/ OldAccountsEnd
  BY <1>3, LegacyBegins, SettingsStep, GamesStep, LoadStep
<1>4. CASE OldGroups \/ OldAccount \/ OldSession \/ RecordRun
  BY <1>4, GroupsStep, OldAccountStep, OldSessionStep, RunStep
<1>5. CASE ImportBulk \/ BulkSignIn \/ BulkNoSession \/ BulkPassword \/ BulkCreate \/ BulkEnds
  BY <1>5, BulkBegins, SignInStep, NoSessionStep, PasswordStep, BulkCreateStep
<1>6. CASE UNCHANGED importVars
  <2>1. UNCHANGED <<tables, work, importer, counts, imports, twice>>
    BY <1>6 DEF importVars
  <2>2. ImportTypes'
    BY <2>1 DEF ImportsInv, ImportTypes, ImporterAt, Sound
  <2>3. (TransferTrue => TransferTrue') /\ (LegacyTrue => LegacyTrue') /\ (BulkTrue => BulkTrue')
    BY <2>1 DEF TransferTrue, NewAccounts, Has, LegacyTrue, NewSessions, BulkTrue
  <2>. QED BY <2>1, <2>2, <2>3 DEF ImportsInv
<1>. QED BY <1>1, <1>2, <1>3, <1>4, <1>5, <1>6 DEF ImportsNext

LEMMA ImportsFit == ImportsInv => ImportsTypeOK
BY DEF ImportsInv, ImportTypes, ImportsTypeOK, Databases, Importers

LEMMA ReportsAreTrue == ImportsInv => ReportIsTrue
<1>. SUFFICES ASSUME ImportsInv PROVE ReportIsTrue
  OBVIOUS
<1>1. ASSUME importer.at = "commit", importer.from = "transfer"
      PROVE  /\ counts.groups = Cardinality(work.groups \ tables.groups)
             /\ counts.games = Cardinality(work.games \ tables.games)
             /\ counts.accounts = Cardinality({n \in Names : Has(work, n) /\ ~ Has(tables, n)})
  BY <1>1 DEF ImportsInv, TransferTrue, NewAccounts
<1>2. ASSUME importer.at = "commit", importer.from = "legacy"
      PROVE  /\ counts.sessions >= Cardinality({n \in Names : work.accounts[n].session /\ ~ tables.accounts[n].session})
             /\ counts.settings >= Cardinality(work.settings \ tables.settings)
  BY <1>2 DEF ImportsInv, LegacyTrue, NewSessions
<1>3. ASSUME importer.at = "bulk"
      PROVE  counts.accounts + counts.failed = importer.records - Len(importer.todo) + Cardinality(twice)
  <2>1. importer.from = "bulk"
    BY <1>3, ImporterIs DEF ImportsInv, BulkPlaces
  <2>. QED BY <1>3, <2>1 DEF ImportsInv, BulkTrue
<1>. QED BY <1>1, <1>2, <1>3 DEF ReportIsTrue, At

\* Nothing of an import is there before all of it is.
WholeStep ==
    /\ tables' # tables => ~ (importer.from \in {"transfer", "legacy"}) \/ At("commit")
    /\ At("commit") /\ importer.from = "transfer" =>
          \A name \in Names : Has(tables, name) => tables'.accounts[name] = tables.accounts[name]
    /\ \A name \in Names : tables'.accounts[name].session => name \in tables'.blobs

LEMMA ImportsStayWhole == ImportsInv /\ [ImportsNext]_importVars => WholeStep
<1>. SUFFICES ASSUME ImportsInv, [ImportsNext]_importVars PROVE WholeStep
  OBVIOUS
<1>1. ImportsInv'
  BY ImportsStep
<1>2. \A name \in Names : tables'.accounts[name].session => name \in tables'.blobs
  BY <1>1 DEF ImportsInv, ImportTypes, Sound
<1>3. \/ tables' = tables
      \/ importer.at = "commit" /\ tables' = work
      \/ importer.at \in {"idle", "bulk", "bulkCreate"}
  <2>1. CASE Commit \/ Abort \/ Forget \/ \E name \in Names : UserMarks(name)
    BY <2>1 DEF Commit, Abort, Forget, UserMarks, At
  <2>2. CASE ImportMetadata \/ TransferEntry \/ TransferEnds
    BY <2>2 DEF ImportMetadata, TransferEntry, TransferEnds
  <2>3. CASE MigrateLegacy \/ OldSettings \/ OldGames \/ PruneGames \/ LoadAccounts \/ OldAccountsEnd
    BY <2>3 DEF MigrateLegacy, OldSettings, OldGames, PruneGames, LoadAccounts, OldAccountsEnd
  <2>4. CASE OldGroups \/ OldAccount \/ OldSession \/ RecordRun
    BY <2>4 DEF OldGroups, OldAccount, OldSession, RecordRun
  <2>5. CASE ImportBulk \/ BulkSignIn \/ BulkNoSession \/ BulkPassword \/ BulkCreate \/ BulkEnds
    BY <2>5 DEF ImportBulk, BulkSignIn, BulkNoSession, BulkPassword, BulkCreate, BulkEnds, At
  <2>6. CASE UNCHANGED importVars
    BY <2>6 DEF importVars
  <2>. QED BY <2>1, <2>2, <2>3, <2>4, <2>5, <2>6 DEF ImportsNext
<1>4. tables' # tables => ~ (importer.from \in {"transfer", "legacy"}) \/ importer.at = "commit"
  <2>1. importer.at \in {"idle", "bulk", "bulkCreate"} => importer.from \in {"none", "bulk"}
    BY ImporterIs DEF ImportsInv, BulkPlaces, Resting
  <2>. QED BY <1>3, <2>1
<1>5. importer.at = "commit" /\ importer.from = "transfer" =>
        \A name \in Names : Has(tables, name) => tables'.accounts[name] = tables.accounts[name]
  BY <1>3 DEF ImportsInv, TransferTrue
<1>. QED BY <1>2, <1>4, <1>5 DEF WholeStep, At

\* An export comes back: what it holds, the groups before the accounts.
GroupsOut(db) == {ExportEntry("groups", g, NoName) : g \in db.groups}
AccountsOut(db) == {ExportEntry("accounts", n, db.accounts[n].group) : n \in {m \in Names : Has(db, m)}}
GamesOut(db) == {ExportEntry("games", g, NoName) : g \in db.games}
ExportIs(es, db, g, b, n) ==
    /\ g \in Nat /\ b \in Nat /\ n \in Nat /\ g <= b /\ b <= n /\ es \in Seq(Entries) /\ DOMAIN es = 1..n
    /\ \A i \in 1..n : /\ i <= g => es[i] \in GroupsOut(db)
                       /\ i > g /\ i <= b => es[i] \in AccountsOut(db)
                       /\ i > b => es[i] \in GamesOut(db)
    /\ \A x \in GroupsOut(db) : \E i \in 1..g : es[i] = x
    /\ \A x \in AccountsOut(db) \union GamesOut(db) : \E i \in 1..n : es[i] = x

LEMMA ImageIsFinite ==
    ASSUME NEW S, IsFiniteSet(S), NEW T, NEW f \in [S -> T], \A t \in T : \E s \in S : f[s] = t
    PROVE  IsFiniteSet(T)
<1>1. f \in Surjection(S, T)
  BY DEF Surjection
<1>. QED BY <1>1, FS_Surjection DEF ExistsSurjection

LEMMA OutIsFinite ==
    ASSUME NEW db \in Databases
    PROVE  /\ GroupsOut(db) \subseteq Entries /\ AccountsOut(db) \subseteq Entries /\ GamesOut(db) \subseteq Entries
           /\ IsFiniteSet(GroupsOut(db)) /\ IsFiniteSet(AccountsOut(db)) /\ IsFiniteSet(GamesOut(db))
<1>1. db.groups \subseteq Names /\ db.games \subseteq Names /\ \A n \in Names : db.accounts[n].group \in Names \union {NoName}
  BY DEF Databases, RowRecord
<1>2. GroupsOut(db) \subseteq Entries /\ AccountsOut(db) \subseteq Entries /\ GamesOut(db) \subseteq Entries
  BY <1>1 DEF GroupsOut, AccountsOut, GamesOut, ExportEntry, Entries, ImportKinds
<1>3. IsFiniteSet(db.groups) /\ IsFiniteSet(db.games) /\ IsFiniteSet({m \in Names : Has(db, m)})
  BY <1>1, NamesAre, FS_Subset
<1>4. IsFiniteSet(GroupsOut(db))
  <2>. DEFINE f == [g \in db.groups |-> ExportEntry("groups", g, NoName)]
  <2>1. f \in [db.groups -> GroupsOut(db)] /\ \A t \in GroupsOut(db) : \E s \in db.groups : f[s] = t
    BY DEF GroupsOut
  <2>. HIDE DEF f
  <2>. QED BY <1>3, <2>1, ImageIsFinite
<1>5. IsFiniteSet(AccountsOut(db))
  <2>. DEFINE S == {m \in Names : Has(db, m)}
              f == [n \in S |-> ExportEntry("accounts", n, db.accounts[n].group)]
  <2>1. f \in [S -> AccountsOut(db)] /\ \A t \in AccountsOut(db) : \E s \in S : f[s] = t
    BY DEF AccountsOut
  <2>2. IsFiniteSet(S)
    BY <1>3
  <2>. HIDE DEF f, S
  <2>. QED BY <2>1, <2>2, ImageIsFinite
<1>6. IsFiniteSet(GamesOut(db))
  <2>. DEFINE f == [g \in db.games |-> ExportEntry("games", g, NoName)]
  <2>1. f \in [db.games -> GamesOut(db)] /\ \A t \in GamesOut(db) : \E s \in db.games : f[s] = t
    BY DEF GamesOut
  <2>. HIDE DEF f
  <2>. QED BY <1>3, <2>1, ImageIsFinite
<1>. QED BY <1>2, <1>4, <1>5, <1>6

LEMMA ExportInLine ==
    ASSUME NEW db \in Databases
    PROVE  \E g, b, n : ExportIs(Exported(db), db, g, b, n)
<1>1. PICK G, A, M : G = GroupsOut(db) /\ A = AccountsOut(db) /\ M = GamesOut(db)
  OBVIOUS
<1>2. /\ G \subseteq Entries /\ A \subseteq Entries /\ M \subseteq Entries
      /\ IsFiniteSet(G) /\ IsFiniteSet(A) /\ IsFiniteSet(M)
  BY <1>1, OutIsFinite
<1>3. PICK s, t, u : s = SetToSeq(G) /\ t = SetToSeq(A) /\ u = SetToSeq(M)
  OBVIOUS
<1>4. s \in Seq(G) /\ \A x \in G : \E i \in DOMAIN s : s[i] = x
  BY <1>2, <1>3, SetInLine
<1>5. t \in Seq(A) /\ \A x \in A : \E i \in DOMAIN t : t[i] = x
  BY <1>2, <1>3, SetInLine
<1>6. u \in Seq(M) /\ \A x \in M : \E i \in DOMAIN u : u[i] = x
  BY <1>2, <1>3, SetInLine
<1>7. PICK p, q, r \in Nat : p = Len(s) /\ q = Len(t) /\ r = Len(u)
  BY <1>4, <1>5, <1>6
<1>8. s \in Seq(Entries) /\ t \in Seq(Entries) /\ u \in Seq(Entries)
  BY <1>2, <1>4, <1>5, <1>6
<1>9. DOMAIN s = 1..p /\ DOMAIN t = 1..q /\ DOMAIN u = 1..r
  BY <1>4, <1>5, <1>6, <1>7
<1>10. PICK st : st = s \o t
  OBVIOUS
<1>11. /\ st \in Seq(Entries) /\ DOMAIN st = 1..(p + q) /\ Len(st) = p + q
       /\ \A i \in 1..p : st[i] = s[i]
       /\ \A i \in 1..(p + q) : i > p => st[i] = t[i - p] /\ i - p \in 1..q
  BY <1>7, <1>8, <1>10, OneBehind
<1>12. PICK b \in Nat : b = p + q
  OBVIOUS
<1>13. PICK es : es = st \o u
  OBVIOUS
<1>14. /\ es \in Seq(Entries) /\ DOMAIN es = 1..(b + r)
       /\ \A i \in 1..b : es[i] = st[i]
       /\ \A i \in 1..(b + r) : i > b => es[i] = u[i - b] /\ i - b \in 1..r
  <2>1. Len(st) = b /\ st \in Seq(Entries) /\ u \in Seq(Entries) /\ Len(u) = r
    BY <1>7, <1>8, <1>11, <1>12
  <2>2. st \o u \in Seq(Entries) /\ DOMAIN (st \o u) = 1..(b + r)
    BY <2>1, OneBehind
  <2>3. \A i \in 1..b : (st \o u)[i] = st[i]
    BY <2>1, OneBehind
  <2>4. ASSUME NEW i \in 1..(b + r), i > b PROVE (st \o u)[i] = u[i - b] /\ i - b \in 1..r
    BY <2>1, <2>4
  <2>. QED BY <1>13, <2>2, <2>3, <2>4
<1>15. PICK n \in Nat : n = b + r
  OBVIOUS
<1>16. es = Exported(db)
  BY <1>1, <1>3, <1>10, <1>13 DEF Exported, GroupsOut, AccountsOut, GamesOut
<1>17. \A i \in 1..p : i \in 1..n /\ es[i] = s[i] /\ s[i] \in G
  <2>1. \A i \in 1..p : s[i] \in G
    BY <1>4, <1>9
  <2>2. \A i \in 1..p : i \in 1..b /\ i \in 1..n
    BY <1>12, <1>15
  <2>. QED BY <1>11, <1>14, <2>1, <2>2
<1>18. \A i \in 1..b : i > p => es[i] = t[i - p] /\ i - p \in 1..q
  BY <1>11, <1>12, <1>14
<1>19. \A j \in 1..q : j + p \in 1..b /\ j + p \in 1..n /\ es[j + p] = t[j] /\ t[j] \in A
  <2>1. \A j \in 1..q : t[j] \in A
    BY <1>5, <1>9
  <2>2. ASSUME NEW j \in 1..q PROVE j + p \in 1..b /\ j + p \in 1..n /\ j + p > p /\ (j + p) - p = j
    BY <1>12, <1>15
  <2>. QED BY <1>18, <2>1, <2>2
<1>20. \A j \in 1..r : j + b \in 1..n /\ es[j + b] = u[j] /\ u[j] \in M
  <2>1. \A j \in 1..r : u[j] \in M
    BY <1>6, <1>9
  <2>2. ASSUME NEW j \in 1..r PROVE j + b \in 1..n /\ j + b > b /\ (j + b) - b = j
    BY <1>15
  <2>. QED BY <1>14, <1>15, <2>1, <2>2
<1>21. ASSUME NEW i \in 1..n
       PROVE  /\ i <= p => es[i] \in G
              /\ i > p /\ i <= b => es[i] \in A
              /\ i > b => es[i] \in M
  <2>1. i <= p => i \in 1..p
    OBVIOUS
  <2>2. i <= b => i \in 1..b
    OBVIOUS
  <2>3. \A j \in 1..q : t[j] \in A
    BY <1>5, <1>9
  <2>4. \A j \in 1..r : u[j] \in M
    BY <1>6, <1>9
  <2>. QED BY <1>14, <1>15, <1>17, <1>18, <2>1, <2>2, <2>3, <2>4
<1>22. \A x \in G : \E i \in 1..p : es[i] = x
  BY <1>4, <1>9, <1>17
<1>23. \A x \in A \union M : \E i \in 1..n : es[i] = x
  <2>1. ASSUME NEW x \in A PROVE \E i \in 1..n : es[i] = x
    <3>1. PICK j \in 1..q : t[j] = x
      BY <1>5, <1>9
    <3>. QED BY <1>19, <3>1
  <2>2. ASSUME NEW x \in M PROVE \E i \in 1..n : es[i] = x
    <3>1. PICK j \in 1..r : u[j] = x
      BY <1>6, <1>9
    <3>. QED BY <1>20, <3>1
  <2>. QED BY <2>1, <2>2
<1>24. p <= b /\ b <= n
  BY <1>12, <1>15
<1>25. ExportIs(es, db, p, b, n)
  BY <1>1, <1>14, <1>15, <1>21, <1>22, <1>23, <1>24 DEF ExportIs
<1>. QED BY <1>16, <1>25

\* The import of an export goes from left to right.
AllBack(es) == FoldLeft(With, Empty, es)
BroughtBy(s, es) ==
    /\ s \in [0..Len(es) -> Databases] /\ s[0] = Empty
    /\ \A k \in 0..(Len(es) - 1) : s[k + 1] = With(s[k], es[k + 1])

LEMMA EmptyFits == Empty \in Databases
BY DEF Empty, Databases, NoRow, RowRecord

LEMMA BroughtInOrder ==
    ASSUME NEW es \in Seq(Entries)
    PROVE  \E s : BroughtBy(s, es) /\ AllBack(es) = s[Len(es)]
<1>. DEFINE n == Len(es)
            Op == [p \in Databases \X (1..n) |-> With(p[1], es[p[2]])]
            Is(f) == f = [t \in SUBSET DOMAIN es |->
                            IF t = {} THEN Empty ELSE With(f[t \ {Max(t)}], es[Max(t)])]
<1>1. n \in Nat /\ DOMAIN es = 1..n
  OBVIOUS
<1>2. Op \in [Databases \X (1..n) -> Databases]
  <2>1. \A p \in Databases \X (1..n) : p[1] \in Databases /\ es[p[2]] \in Entries
    BY <1>1
  <2>2. \A p \in Databases \X (1..n) : With(p[1], es[p[2]]) \in Databases
    BY <2>1, WithFits
  <2>. QED BY <2>2
<1>3. \E f : Is(f)
  <2>. HIDE DEF Op
  <2>1. PICK f : IsLeftFold(f, n, Databases, Empty, Op)
    BY <1>1, <1>2, EmptyFits, LeftFoldIsThere
  <2>2. \A t \in SUBSET (1..n) : t # {} => Max(t) \in 1..n /\ f[t \ {Max(t)}] \in Databases
    BY <1>1, <2>1, GreatestIsThere DEF IsLeftFold
  <2>3. Is(f)
    BY <1>1, <2>1, <2>2 DEF Op, IsLeftFold
  <2>. QED BY <2>3
<1>. DEFINE it == CHOOSE f : Is(f)
<1>4. AllBack(es) = it[DOMAIN es]
  BY DEF AllBack, FoldLeft, MapThenFoldSet
<1>5. Is(it)
  BY <1>3
<1>. HIDE DEF it
<1>6. Leftward(it, n, Databases, Empty, Op)
  BY <1>1, <1>5, GreatestIsThere DEF Leftward
<1>. HIDE DEF Op
<1>7. PICK g : Rightward(g, it, n, Databases, Empty, Op)
  BY <1>1, <1>2, <1>6, EmptyFits, LeftToRight
<1>8. ASSUME NEW k \in 0..(n - 1)
      PROVE  g[k + 1] = With(g[k], es[k + 1])
  <2>1. g[k + 1] = Op[<<g[k], k + 1>>] /\ g[k] \in Databases /\ k + 1 \in 1..n
    BY <1>1, <1>7 DEF Rightward
  <2>. QED BY <1>1, <2>1 DEF Op
<1>9. BroughtBy(g, es)
  BY <1>7, <1>8 DEF Rightward, BroughtBy
<1>. QED BY <1>1, <1>4, <1>7, <1>9 DEF Rightward

\* What is back after the first k records of it.
Plain(db, name) == Row(db.accounts[name].group, FALSE)
BackAfter(w, es, db, k) ==
    /\ w.groups \subseteq db.groups /\ w.games \subseteq db.games
    /\ \A nm \in Names : w.accounts[nm] = NoRow \/ (Has(db, nm) /\ w.accounts[nm] = Plain(db, nm))
    /\ \A i \in 1..k : CASE es[i].kind = "groups" -> es[i].name \in w.groups
                         [] es[i].kind = "games" -> es[i].name \in w.games
                         [] es[i].kind = "accounts" -> w.accounts[es[i].name] = Plain(db, es[i].name)

LEMMA OneMoreBack ==
    ASSUME NEW db \in Databases, Sound(db), NEW es, NEW g, NEW b, NEW n, ExportIs(es, db, g, b, n),
           NEW w \in Databases, NEW k \in 0..(n - 1), BackAfter(w, es, db, k)
    PROVE  BackAfter(With(w, es[k + 1]), es, db, k + 1)
<1>0. n \in Nat /\ k + 1 \in 1..n /\ g \in Nat /\ b \in Nat
  BY DEF ExportIs
<1>1. PICK e \in Entries : e = es[k + 1]
  BY <1>0 DEF ExportIs
<1>2. PICK v \in Databases : v = With(w, e)
  BY WithFits
<1>3. /\ \A nm \in Names : (e.kind = "accounts" /\ nm = e.name) \/ v.accounts[nm] = w.accounts[nm]
      /\ e.kind = "accounts" => v.accounts[e.name] = Row(IF e.group \in w.groups THEN e.group ELSE NoName, FALSE)
  <2>1. \A nm \in Names : (e.kind = "accounts" /\ nm = e.name) \/ With(w, e).accounts[nm] = w.accounts[nm]
    BY WithFits
  <2>2. e.kind = "accounts" => With(w, e).accounts[e.name] = Row(IF e.group \in w.groups THEN e.group ELSE NoName, FALSE)
    BY WithFits
  <2>. QED BY <1>2, <2>1, <2>2
<1>4. /\ v.groups = w.groups \union (IF e.kind = "groups" THEN {e.name} ELSE {})
      /\ v.games = w.games \union (IF e.kind = "games" THEN {e.name} ELSE {})
  BY <1>2, WithFits
<1>5. \A i \in 1..(k + 1) : i \in 1..k \/ i = k + 1
  BY <1>0
<1>6. e \in GroupsOut(db) \union AccountsOut(db) \union GamesOut(db)
  BY <1>0, <1>1 DEF ExportIs
<1>7. /\ e.kind = "groups" => e.name \in db.groups
      /\ e.kind = "games" => e.name \in db.games
      /\ e.kind = "accounts" => /\ e.name \in Names /\ Has(db, e.name) /\ e.group = db.accounts[e.name].group
                               /\ e \notin GroupsOut(db)
  BY <1>6 DEF GroupsOut, AccountsOut, GamesOut, ExportEntry
<1>8. e.kind = "accounts" => v.accounts[e.name] = Plain(db, e.name)
  <2>. SUFFICES ASSUME e.kind = "accounts" PROVE v.accounts[e.name] = Plain(db, e.name)
    OBVIOUS
  <2>1. k + 1 > g
    BY <1>0, <1>1, <1>7 DEF ExportIs
  <2>2. \A i \in 1..g : i \in 1..k /\ i \in 1..n
    BY <1>0, <2>1
  <2>3. db.groups \subseteq w.groups
    <3>. SUFFICES ASSUME NEW x \in db.groups PROVE x \in w.groups
      OBVIOUS
    <3>1. PICK y \in GroupsOut(db) : y.kind = "groups" /\ y.name = x
      <4>1. PICK y : y = ExportEntry("groups", x, NoName)
        OBVIOUS
      <4>2. y.kind = "groups" /\ y.name = x
        BY <4>1 DEF ExportEntry
      <4>3. y \in GroupsOut(db)
        BY <4>1 DEF GroupsOut
      <4>. QED BY <4>2, <4>3
    <3>2. PICK i \in 1..g : es[i] = y
      BY DEF ExportIs
    <3>. QED BY <2>2, <3>1, <3>2 DEF BackAfter
  <2>4. e.group \in db.groups \union {NoName}
    BY <1>7 DEF Sound, Has
  <2>5. NoName \notin w.groups
    BY NamesAre DEF Databases
  <2>6. (IF e.group \in w.groups THEN e.group ELSE NoName) = db.accounts[e.name].group
    BY <1>7, <2>3, <2>4, <2>5
  <2>. QED BY <1>3, <2>6 DEF Plain
<1>9. v.groups \subseteq db.groups /\ v.games \subseteq db.games
  BY <1>4, <1>7 DEF BackAfter
<1>10. \A nm \in Names : v.accounts[nm] = NoRow \/ (Has(db, nm) /\ v.accounts[nm] = Plain(db, nm))
  BY <1>3, <1>7, <1>8 DEF BackAfter
<1>11. ASSUME NEW i \in 1..k
       PROVE  CASE es[i].kind = "groups" -> es[i].name \in v.groups
                [] es[i].kind = "games" -> es[i].name \in v.games
                [] es[i].kind = "accounts" -> v.accounts[es[i].name] = Plain(db, es[i].name)
  <2>1. i \in 1..n
    BY <1>0
  <2>2. PICK x \in Entries : x = es[i]
    BY <2>1 DEF ExportIs
  <2>3. x.kind \in {"groups", "games", "accounts"} /\ x.name \in Names
    BY DEF Entries, ImportKinds
  <2>4. CASE x.kind = "groups"
    BY <1>4, <2>2, <2>4 DEF BackAfter
  <2>5. CASE x.kind = "games"
    BY <1>4, <2>2, <2>5 DEF BackAfter
  <2>6. CASE x.kind = "accounts"
    <3>1. w.accounts[x.name] = Plain(db, x.name)
      BY <2>2, <2>6 DEF BackAfter
    <3>2. v.accounts[x.name] = Plain(db, x.name)
      BY <1>3, <1>8, <2>3, <3>1
    <3>. QED BY <2>2, <2>6, <3>2
  <2>. QED BY <2>3, <2>4, <2>5, <2>6
<1>12. CASE e.kind = "groups"
  <2>1. e.name \in v.groups
    BY <1>4, <1>12
  <2>. QED BY <1>1, <1>2, <1>5, <1>9, <1>10, <1>11, <1>12, <2>1 DEF BackAfter
<1>13. CASE e.kind = "games"
  <2>1. e.name \in v.games
    BY <1>4, <1>13
  <2>. QED BY <1>1, <1>2, <1>5, <1>9, <1>10, <1>11, <1>13, <2>1 DEF BackAfter
<1>14. CASE e.kind = "accounts"
  BY <1>1, <1>2, <1>5, <1>8, <1>9, <1>10, <1>11, <1>14 DEF BackAfter
<1>. QED BY <1>12, <1>13, <1>14 DEF Entries, ImportKinds

LEMMA AllIsBack ==
    ASSUME NEW db \in Databases, Sound(db), NEW es, NEW g, NEW b, NEW n, ExportIs(es, db, g, b, n)
    PROVE  AllBack(es) \in Databases /\ BackAfter(AllBack(es), es, db, n)
<1>1. n \in Nat /\ es \in Seq(Entries) /\ Len(es) = n
  BY DEF ExportIs
<1>2. PICK s : BroughtBy(s, es) /\ AllBack(es) = s[n]
  BY <1>1, BroughtInOrder
<1>3. s \in [0..n -> Databases] /\ s[0] = Empty /\ \A k \in 0..(n - 1) : s[k + 1] = With(s[k], es[k + 1])
  BY <1>1, <1>2 DEF BroughtBy
<1>. DEFINE S == {k \in 0..n : BackAfter(s[k], es, db, k)}
<1>4. S \subseteq 0..n
  OBVIOUS
<1>5. 0 \in S
  <2>1. 1..0 = {} /\ 0 \in 0..n
    BY <1>1
  <2>2. BackAfter(Empty, es, db, 0)
    BY <2>1 DEF BackAfter, Empty
  <2>. QED BY <1>3, <2>1, <2>2
<1>6. \A k \in 0..(n - 1) : k \in S => k + 1 \in S
  <2>. SUFFICES ASSUME NEW k \in 0..(n - 1), BackAfter(s[k], es, db, k) PROVE k + 1 \in S
    OBVIOUS
  <2>1. k \in 0..n /\ k + 1 \in 0..n
    BY <1>1
  <2>2. s[k] \in Databases /\ s[k + 1] = With(s[k], es[k + 1])
    BY <1>3, <2>1
  <2>3. BackAfter(With(s[k], es[k + 1]), es, db, k + 1)
    BY <2>2, OneMoreBack
  <2>. QED BY <2>1, <2>2, <2>3
<1>7. n \in S
  <2>. HIDE DEF S
  <2>1. S = 0..n
    BY <1>1, <1>4, <1>5, <1>6, StepByStep
  <2>. QED BY <1>1, <2>1
<1>. QED BY <1>1, <1>2, <1>3, <1>7

LEMMA ExportsComeBack == ImportsInv => ExportComesBack
<1>. SUFFICES ASSUME ImportsInv PROVE ExportComesBack
  OBVIOUS
<1>1. PICK db \in Databases : db = tables /\ Sound(db)
  BY DEF ImportsInv, ImportTypes
<1>2. PICK es, g, b, n : es = Exported(db) /\ ExportIs(es, db, g, b, n)
  BY <1>1, ExportInLine
<1>3. PICK back \in Databases : back = AllBack(es) /\ BackAfter(back, es, db, n)
  BY <1>1, <1>2, AllIsBack
<1>4. back = FoldLeft(With, Empty, Exported(tables))
  BY <1>1, <1>2, <1>3 DEF AllBack
<1>5. \A i \in 1..g : i \in 1..n
  BY <1>2 DEF ExportIs
<1>6. back.groups = db.groups
  <2>. SUFFICES ASSUME NEW x \in db.groups PROVE x \in back.groups
    BY <1>3 DEF BackAfter
  <2>1. PICK y \in GroupsOut(db) : y.kind = "groups" /\ y.name = x
    <3>1. PICK y : y = ExportEntry("groups", x, NoName)
      OBVIOUS
    <3>2. y.kind = "groups" /\ y.name = x
      BY <3>1 DEF ExportEntry
    <3>3. y \in GroupsOut(db)
      BY <3>1 DEF GroupsOut
    <3>. QED BY <3>2, <3>3
  <2>2. PICK i \in 1..n : es[i] = y
    BY <1>2, <1>5 DEF ExportIs
  <2>. QED BY <1>3, <2>1, <2>2 DEF BackAfter
<1>7. back.games = db.games
  <2>. SUFFICES ASSUME NEW x \in db.games PROVE x \in back.games
    BY <1>3 DEF BackAfter
  <2>1. PICK y \in GamesOut(db) : y.kind = "games" /\ y.name = x
    <3>1. PICK y : y = ExportEntry("games", x, NoName)
      OBVIOUS
    <3>2. y.kind = "games" /\ y.name = x
      BY <3>1 DEF ExportEntry
    <3>3. y \in GamesOut(db)
      BY <3>1 DEF GamesOut
    <3>. QED BY <3>2, <3>3
  <2>2. PICK i \in 1..n : es[i] = y
    BY <1>2 DEF ExportIs
  <2>. QED BY <1>3, <2>1, <2>2 DEF BackAfter
<1>8. ASSUME NEW name \in Names, Has(db, name) PROVE back.accounts[name] = Plain(db, name)
  <2>1. PICK y \in AccountsOut(db) : y.kind = "accounts" /\ y.name = name
    <3>1. PICK y : y = ExportEntry("accounts", name, db.accounts[name].group)
      OBVIOUS
    <3>2. y.kind = "accounts" /\ y.name = name
      BY <3>1 DEF ExportEntry
    <3>3. y \in AccountsOut(db)
      BY <1>8, <3>1 DEF AccountsOut
    <3>. QED BY <3>2, <3>3
  <2>2. PICK i \in 1..n : es[i] = y
    BY <1>2 DEF ExportIs
  <2>. QED BY <1>3, <2>1, <2>2 DEF BackAfter
<1>9. ASSUME NEW name \in Names, ~ Has(db, name) PROVE ~ Has(back, name)
  <2>1. back.accounts[name] = NoRow
    BY <1>3, <1>9 DEF BackAfter
  <2>. QED BY <2>1 DEF Has, NoRow
<1>10. ASSUME NEW name \in Names, Has(db, name) PROVE Has(back, name)
  <2>1. back.accounts[name] = Plain(db, name)
    BY <1>8, <1>10
  <2>. QED BY <2>1 DEF Has, Plain, Row
<1>11. ASSUME NEW name \in Names, Has(db, name)
       PROVE  back.accounts[name] = [db.accounts[name] EXCEPT !.session = FALSE, !.own = FALSE]
  <2>1. PICK r \in RowRecord : r = db.accounts[name]
    BY DEF Databases
  <2>2. r.here = TRUE
    BY <1>11, <2>1 DEF Has, RowRecord
  <2>3. [r EXCEPT !.session = FALSE, !.own = FALSE] = Row(r.group, FALSE)
    <3>1. PICK u, v : u = [r EXCEPT !.session = FALSE] /\ v = [u EXCEPT !.own = FALSE]
      OBVIOUS
    <3>2. u \in RowRecord /\ u.here = TRUE /\ u.group = r.group /\ u.session = FALSE
      BY <2>2, <3>1 DEF RowRecord
    <3>3. v \in RowRecord /\ v.here = TRUE /\ v.group = r.group /\ v.session = FALSE /\ v.own = FALSE
      BY <3>1, <3>2 DEF RowRecord
    <3>4. v = [here |-> TRUE, group |-> r.group, session |-> FALSE, own |-> FALSE]
      BY <3>3 DEF RowRecord
    <3>. QED BY <3>1, <3>4 DEF Row
  <2>. QED BY <1>8, <1>11, <2>1, <2>3 DEF Plain
<1>. QED BY <1>1, <1>4, <1>6, <1>7, <1>9, <1>10, <1>11 DEF ExportComesBack
================================================================================
