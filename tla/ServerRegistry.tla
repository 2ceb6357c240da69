----------------------------- MODULE ServerRegistry -----------------------------
(***************************************************************************)
(* What the program remembers of servers (roblox/server_registry.py) and   *)
(* how it ranks the ones Roblox lists (roblox/server_intelligence.py).     *)
(* History and blacklist are two rows of the settings table that every     *)
(* call of services/fleet_features.py reads, changes and writes back       *)
(* whole; calls of several bridge threads may overlap, a read may fail,    *)
(* and a row that cannot be read counts as empty.                          *)
(***************************************************************************)
EXTENDS Integers, SequencesExt, RowOrder

CONSTANTS
    Visitors,       \* bridge threads that call the registry
    ServerJobs,     \* servers, by their job id
    Home,           \* the servers in the preferred region
    MaxHistory,     \* MAX_HISTORY
    MaxBlacklist,   \* MAX_BLACKLIST
    FailureThreshold,   \* FAILURE_BLACKLIST_THRESHOLD
    Cooldown,       \* avoid_recent_seconds, in ticks
    MaxVisits,      \* bound: calls
    MaxUnread       \* bound: reads that fail

ASSUME RegistryAssumption ==
    /\ Home \subseteq ServerJobs
    /\ MaxHistory \in Nat \ {0} /\ MaxBlacklist \in Nat /\ FailureThreshold \in Nat \ {0}

VARIABLES
    visited,        \* the row of records, newest first
    blacklist,      \* the row of banned job ids
    visitor,        \* visitor[u]: a call between its read and its write
    visits,         \* calls so far, which are the clock
    unread,
    happened,       \* happened[job]: visits that were reported, told apart by their outcome
    lost            \* history: a write undid another one, or what could not be read

registryVars == <<visited, blacklist, visitor, visits, unread, happened, lost>>

(***************************************************************************)
(* record_visit and the blacklist.                                         *)
(***************************************************************************)

\* Players are told against room for two; nothing is told by zero.
Room == 2
Record(job, players, joins, failures, seen) ==
    [job |-> job, players |-> players, joins |-> joins, failures |-> failures, seen |-> seen]

Known(rows, job) == \E i \in DOMAIN rows : rows[i].job = job
RecordOf(rows, job) == rows[CHOOSE i \in DOMAIN rows : rows[i].job = job]
Others(rows, job) == Taken(rows, {i \in DOMAIN rows : rows[i].job # job})
Shortened(rows, n) == SubSeq(rows, 1, IF Len(rows) <= n THEN Len(rows) ELSE n)

Joined(rows, visit) == (IF Known(rows, visit.job) THEN RecordOf(rows, visit.job).joins ELSE 0)
                       + IF visit.failed THEN 0 ELSE 1
Failed(rows, visit) == (IF Known(rows, visit.job) THEN RecordOf(rows, visit.job).failures ELSE 0)
                       + IF visit.failed THEN 1 ELSE 0
Players(rows, visit) ==
    IF visit.players = 0 /\ Known(rows, visit.job) THEN RecordOf(rows, visit.job).players ELSE visit.players

\* One observation, folded in.
RecordVisit(rows, visit) ==
    Shortened(<<Record(visit.job, Players(rows, visit), Joined(rows, visit), Failed(rows, visit), visit.seen)>>
                  \o Others(rows, visit.job), MaxHistory)

Banned(rows) == ToSet(rows)
BlacklistRemove(rows, job) == Taken(rows, {i \in DOMAIN rows : rows[i] # job})
BlacklistAdd(rows, job) ==
    LET others == BlacklistRemove(rows, job)
    IN  IF Len(others) >= MaxBlacklist THEN rows ELSE <<job>> \o others

(***************************************************************************)
(* pick_server                                                             *)
(***************************************************************************)

Candidate(row, banned) == row.job \notin banned /\ row.failures < FailureThreshold /\ row.players < Room

\* The order of preference: region, not visited lately, failures, players, then the last visit,
\* latest first.
Rank(row, now) ==
    <<IF row.job \in Home THEN 0 ELSE 1, IF now - row.seen < Cooldown THEN 1 ELSE 0,
      row.failures, row.players, 0 - row.seen>>
Before(r, s) == \E k \in DOMAIN r : r[k] < s[k] /\ \A m \in 1..(k - 1) : r[m] = s[m]

Preferred(rows, now) ==
    {p \in (DOMAIN rows) \X (DOMAIN rows) : Before(Rank(rows[p[1]], now), Rank(rows[p[2]], now))}

NoServer == "none"
PickServer(rows, banned, now) ==
    LET candidates == Taken(rows, {i \in DOMAIN rows : Candidate(rows[i], banned)})
    IN  IF candidates = <<>> THEN NoServer ELSE Sorted(candidates, Preferred(candidates, now))[1].job

(***************************************************************************)
(* The calls.                                                              *)
(***************************************************************************)

IdleVisitor == [at |-> "idle", what |-> "visit", job |-> NoServer, failed |-> FALSE, players |-> 0,
                seen |-> 0, rows |-> <<>>, of |-> 0]

RegistryInit ==
    /\ visited = <<>> /\ blacklist = <<>>
    /\ visitor = [u \in Visitors |-> IdleVisitor]
    /\ visits = 0 /\ unread = 0 /\ lost = FALSE
    /\ happened = [job \in ServerJobs |-> [joins |-> 0, failures |-> 0]]

\* _load_json: a row that cannot be read is empty for this call.
Loads(u, call, row) ==
    /\ visitor[u].at = "idle" /\ visits < MaxVisits /\ visits' = visits + 1
    /\ \/ /\ visitor' = [visitor EXCEPT ![u] = [call EXCEPT !.rows = row]]
          /\ unread' = unread
       \/ /\ unread < MaxUnread /\ unread' = unread + 1
          /\ visitor' = [visitor EXCEPT ![u] = [call EXCEPT !.rows = <<>>]]

\* record_server_visit ...
LoadHistory(u, job, failed, players) ==
    /\ Loads(u, [IdleVisitor EXCEPT !.at = "save", !.job = job, !.failed = failed, !.players = players,
                                    !.seen = visits + 1], visited)
    /\ UNCHANGED <<visited, blacklist, happened, lost>>
\* ... which is written back, over whatever was written since.
SaveHistory(u) ==
    /\ visitor[u].at = "save" /\ visitor[u].what = "visit"
    /\ visited' = RecordVisit(visitor[u].rows, visitor[u])
    /\ lost' = (lost \/ visitor[u].rows # visited
                     \/ (Len(visited) = MaxHistory /\ ~ Known(visited, visitor[u].job)))
    /\ happened' = [happened EXCEPT
           ![visitor[u].job].joins = @ + (IF visitor[u].failed THEN 0 ELSE 1),
           ![visitor[u].job].failures = @ + (IF visitor[u].failed THEN 1 ELSE 0)]
    /\ visitor' = [visitor EXCEPT ![u] = IdleVisitor]
    /\ UNCHANGED <<blacklist, visits, unread>>

\* update_server_blacklist.
LoadBlacklist(u, job, ban) ==
    /\ Loads(u, [IdleVisitor EXCEPT !.at = "save", !.what = IF ban THEN "ban" ELSE "unban", !.job = job],
             blacklist)
    /\ UNCHANGED <<visited, blacklist, happened, lost>>
SaveBlacklist(u) ==
    /\ visitor[u].at = "save" /\ visitor[u].what # "visit"
    /\ blacklist' = IF visitor[u].what = "ban" THEN BlacklistAdd(visitor[u].rows, visitor[u].job)
                    ELSE BlacklistRemove(visitor[u].rows, visitor[u].job)
    /\ visitor' = [visitor EXCEPT ![u] = IdleVisitor]
    /\ UNCHANGED <<visited, visits, unread, happened, lost>>

\* _save_json may be refused; the call fails.
SaveRefused(u) ==
    /\ visitor[u].at = "save"
    /\ visitor' = [visitor EXCEPT ![u] = IdleVisitor]
    /\ UNCHANGED <<visited, blacklist, visits, unread, happened, lost>>

RegistryNext ==
    \E u \in Visitors :
        \/ \E job \in ServerJobs :
              \/ \E failed \in BOOLEAN, players \in 0..Room : LoadHistory(u, job, failed, players)
              \/ \E ban \in BOOLEAN : LoadBlacklist(u, job, ban)
        \/ SaveHistory(u) \/ SaveBlacklist(u) \/ SaveRefused(u)

(***************************************************************************)
(* Properties.                                                             *)
(***************************************************************************)

RegistryTypeOK ==
    /\ \A i \in DOMAIN visited : visited[i].job \in ServerJobs /\ visited[i].players \in 0..Room
    /\ Banned(blacklist) \subseteq ServerJobs
    /\ \A u \in Visitors : visitor[u].at \in {"idle", "save"}

\* Whatever calls overlap and whatever cannot be read, the rows keep their shape: no server
\* twice, no more rows than allowed.
RowsKeepShape ==
    /\ \A i, j \in DOMAIN visited : i # j => visited[i].job # visited[j].job
    /\ IsInjective(blacklist)
    /\ Len(visited) <= MaxHistory /\ Len(blacklist) <= MaxBlacklist

\* No visit is invented, and none is forgotten unless a call overlapped another one, the row
\* could not be read, or the history was full.
VisitsAreCounted ==
    \A i \in DOMAIN visited :
        LET row == visited[i]
            told == happened[row.job]
        IN  /\ row.joins <= told.joins /\ row.failures <= told.failures
            /\ ~ lost => row.joins = told.joins /\ row.failures = told.failures

\* The server picked is allowed, and no other one that is allowed comes before it.
PickIsBest ==
    LET picked == PickServer(visited, Banned(blacklist), visits)
        allowed == {i \in DOMAIN visited : /\ visited[i].job \notin Banned(blacklist)
                                           /\ visited[i].failures < FailureThreshold
                                           /\ visited[i].players < Room}
    IN  IF allowed = {} THEN picked = NoServer
        ELSE \E i \in allowed : /\ visited[i].job = picked
                                /\ \A j \in allowed : ~ Before(Rank(visited[j], visits), Rank(visited[i], visits))

\* The registry remembers what it was told and picks what it may.
RegistryIsSound == RowsKeepShape /\ VisitsAreCounted /\ PickIsBest
=============================================================================
