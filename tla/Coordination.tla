------------------------------ MODULE Coordination ------------------------------
(***************************************************************************)
(* Who goes to which server, and when: the four plans of                   *)
(* automations/coordination.py, the calls of services/fleet_features.py    *)
(* and services/application_service.py that queue them, and the named      *)
(* launch profiles of automations/launch_profiles.py.  Bridge threads      *)
(* overlap: a distribution plans first and runs later, and the profiles    *)
(* are one row of settings that a call reads, changes and writes whole.    *)
(***************************************************************************)
EXTENDS Integers, FiniteSets, SequencesExt, RowOrder

CONSTANTS
    Crew,           \* accounts
    Places,         \* servers, by their job id
    Selections,     \* what a screen may ask for: sequences of accounts
    Profiles,       \* identifiers of profiles
    MaxCoordinated, \* MAX_COORDINATED_ACCOUNTS
    MaxParty,       \* MAX_PARTY_SIZE
    MaxProfiles,    \* MAX_PROFILES
    PerServer,      \* the room a spread may be asked to leave
    MaxMeanwhile        \* bound: calls that change accounts, servers or profiles

ASSUME CoordinationAssumption ==
    /\ Selections \subseteq Seq(Crew)
    /\ MaxCoordinated \in Nat \ {0} /\ MaxParty \in Nat \ {0, 1} /\ PerServer \subseteq Nat \ {0}
    /\ MaxProfiles \in Nat \ {0}

VARIABLES
    crew,           \* the accounts that exist
    listed,         \* the servers Roblox lists that are eligible, best first
    recalled,       \* the servers of the history, latest first
    queue,          \* the plan the batch launcher is at work on
    distribution,   \* a distribution between its plan and its run
    profiles,       \* the row of profiles
    profileEdit,    \* a call that saves a profile, between its read and its write
    meanwhile

coordinationVars == <<crew, listed, recalled, queue, distribution, profiles, profileEdit, meanwhile>>

Anywhere == "any"

(***************************************************************************)
(* The plans.                                                              *)
(***************************************************************************)

AsGiven(asked) == SubSeq(asked, 1, IF Len(asked) > MaxCoordinated THEN MaxCoordinated + 1 ELSE Len(asked))
\* _accounts: what lies beyond the limit is not looked at, and nobody is taken twice.
Distinct(asked) ==
    FoldLeft(LAMBDA rows, account : IF account \in ToSet(rows) THEN rows ELSE Append(rows, account),
             <<>>, AsGiven(asked))

Plan(mode, asked, servers, perServer, steps, unassigned) ==
    [mode |-> mode, asked |-> asked, servers |-> servers, perServer |-> perServer, steps |-> steps,
     unassigned |-> unassigned]
NothingQueued == Plan("none", <<>>, <<>>, 0, <<>>, <<>>)
Sent(account, job, role) == [account |-> account, job |-> job, role |-> role]
AllTo(rows, job, first, rest) ==
    [i \in DOMAIN rows |-> Sent(rows[i], job, IF i = 1 THEN first ELSE rest)]

DistinctServers(servers) ==
    FoldLeft(LAMBDA pool, job : IF job \in ToSet(pool) THEN pool ELSE Append(pool, job), <<>>, servers)

\* Distinct servers, filled one after the other; who finds no room is left out.
SpreadPlan(rows, servers, perServer) ==
    LET pool == DistinctServers(servers)
        room == Len(pool) * perServer
        seated == IF pool # <<>> /\ Len(rows) > room THEN room ELSE Len(rows)
    IN  Plan("spread", rows, pool, perServer,
             [i \in 1..seated |-> Sent(rows[i], IF pool = <<>> THEN Anywhere
                                                ELSE pool[((i - 1) \div perServer) + 1], "member")],
             SubSeq(rows, seated + 1, Len(rows)))

\* The main account and its followers, without the main one.
FollowerPlan(rows, job) ==
    Plan("followers", rows, <<>>, 0, AllTo(rows, job, "main", "follower"), <<>>)

SyncPlan(rows, job) == Plan("sync", rows, <<>>, 0, AllTo(rows, job, "member", "member"), <<>>)

\* A party, and those who are too many for it.
PartyPlan(rows, job) ==
    LET size == IF Len(rows) > MaxParty THEN MaxParty ELSE Len(rows)
    IN  Plan("party", rows, <<>>, 0, AllTo(SubSeq(rows, 1, size), job, "main", "member"),
             SubSeq(rows, size + 1, Len(rows)))

\* score_server, rank_servers: what is neither full nor on the blacklist, the most room first.
Scored(row, blocked) == [job |-> row.job, score |-> IF row.job \in blocked THEN 0 ELSE row.free]
Ranking(rows, blocked) ==
    LET scored == [i \in DOMAIN rows |-> Scored(rows[i], blocked)]
        eligible == Taken(scored, {i \in DOMAIN scored : scored[i].score > 0})
        places == DOMAIN eligible
        ranked == Sorted(eligible, {p \in places \X places : eligible[p[1]].score > eligible[p[2]].score})
    IN  [i \in DOMAIN ranked |-> ranked[i].job]

(***************************************************************************)
(* The calls.                                                              *)
(***************************************************************************)

IdleDistribution == [at |-> "idle", asked |-> <<>>, servers |-> <<>>, perServer |-> 0, some |-> FALSE]
IdleEdit == [at |-> "idle", profile |-> Anywhere, rows |-> <<>>]

CoordinationInit ==
    /\ crew = Crew /\ queue = NothingQueued /\ meanwhile = 0
    /\ profiles \in {<<>>, <<[id |-> CHOOSE id \in Profiles : TRUE, to |-> Anywhere]>>}
    /\ listed \in {<<>>} \union {<<job>> : job \in Places} /\ recalled = <<>>
    /\ distribution = IdleDistribution /\ profileEdit = IdleEdit

\* _coordination_rows: one account that no longer exists refuses the whole call.
Selected(asked) == asked # <<>> /\ ToSet(asked) \subseteq crew
Enough(asked, n) ==
    /\ Selected(asked) /\ Len(Distinct(asked)) >= n /\ Len(Distinct(asked)) <= MaxCoordinated
\* Without a list of servers a spread takes those of the history, whatever they are.
Pool(servers) == IF servers = <<>> THEN recalled ELSE servers

\* start_batch, which refuses while another batch runs.
Queues(plan) == plan.steps # <<>> /\ queue' = plan
BatchIsOver ==
    /\ queue # NothingQueued /\ queue' = NothingQueued
    /\ UNCHANGED <<crew, listed, recalled, distribution, profiles, profileEdit, meanwhile>>

\* run_coordination: plan, then the wave launcher, in the order of the plan.
RunSpread(asked, servers, perServer) ==
    /\ queue = NothingQueued /\ Enough(asked, 1)
    /\ Queues(SpreadPlan(Distinct(asked), Pool(servers), perServer))
    /\ UNCHANGED <<crew, listed, recalled, distribution, profiles, profileEdit, meanwhile>>
RunFollowers(asked, job) ==
    /\ queue = NothingQueued /\ Enough(asked, 2) /\ Queues(FollowerPlan(Distinct(asked), job))
    /\ UNCHANGED <<crew, listed, recalled, distribution, profiles, profileEdit, meanwhile>>
RunSync(asked, job) ==
    /\ queue = NothingQueued /\ Enough(asked, 2) /\ Queues(SyncPlan(Distinct(asked), job))
    /\ UNCHANGED <<crew, listed, recalled, distribution, profiles, profileEdit, meanwhile>>
RunParty(asked, job) ==
    /\ queue = NothingQueued /\ Enough(asked, 2) /\ Queues(PartyPlan(Distinct(asked), job))
    /\ UNCHANGED <<crew, listed, recalled, distribution, profiles, profileEdit, meanwhile>>

\* plan_server_distribution: the eligible servers Roblox lists ...
PlanDistribution(asked, perServer) ==
    /\ distribution.at = "idle" /\ Enough(asked, 1)
    /\ distribution' = [at |-> "planned", asked |-> asked, servers |-> Pool(listed),
                        perServer |-> perServer, some |-> listed # <<>>]
    /\ UNCHANGED <<crew, listed, recalled, queue, profiles, profileEdit, meanwhile>>
\* ... and run_server_distribution spreads the accounts over that list, planning anew.
RunDistribution ==
    /\ distribution.at = "planned" /\ distribution' = IdleDistribution
    /\ IF Enough(distribution.asked, 1) /\ queue = NothingQueued
       THEN Queues(SpreadPlan(Distinct(distribution.asked), Pool(distribution.servers), distribution.perServer))
       ELSE queue' = queue
    /\ UNCHANGED <<crew, listed, recalled, profiles, profileEdit, meanwhile>>

\* Meanwhile an account is deleted, Roblox lists other servers, or a visit is remembered.
Edited == meanwhile < MaxMeanwhile /\ meanwhile' = meanwhile + 1
LoseAccount(account) ==
    /\ Edited /\ account \in crew /\ crew' = crew \ {account}
    /\ UNCHANGED <<listed, recalled, queue, distribution, profiles, profileEdit>>
ListServers(rows, blocked) ==
    /\ Edited /\ listed' = Ranking(rows, blocked) /\ listed' # listed
    /\ UNCHANGED <<crew, recalled, queue, distribution, profiles, profileEdit>>
RecallServer(job) ==
    /\ Edited /\ recalled' = <<job>> \o Taken(recalled, {i \in DOMAIN recalled : recalled[i] # job})
    /\ UNCHANGED <<crew, listed, queue, distribution, profiles, profileEdit>>

(***************************************************************************)
(* Launch profiles: [id, to], any server, a server, or a private one.      *)
(***************************************************************************)

PrivateServer == "private"

Without(rows, id) == Taken(rows, {i \in DOMAIN rows : rows[i].id # id})
Upserted(rows, profile) == Append(Without(rows, profile.id), profile)

\* save_launch_profile: the row is read ...
ReadProfiles(profile) ==
    /\ profileEdit.at = "idle" /\ Edited
    /\ Len(Without(profiles, profile.id)) < MaxProfiles
    /\ profileEdit' = [at |-> "save", profile |-> profile, rows |-> profiles]
    /\ UNCHANGED <<crew, listed, recalled, queue, distribution, profiles>>
\* ... and written back whole, unless the store refuses.
WriteProfiles ==
    /\ profileEdit.at = "save" /\ profileEdit' = IdleEdit
    /\ profiles' \in {profiles, Upserted(profileEdit.rows, profileEdit.profile)}
    /\ UNCHANGED <<crew, listed, recalled, queue, distribution, meanwhile>>
DeleteProfile(id) ==
    /\ Edited /\ \E i \in DOMAIN profiles : profiles[i].id = id
    /\ profiles' = Without(profiles, id)
    /\ UNCHANGED <<crew, listed, recalled, queue, distribution, profileEdit>>
\* launch_with_profile: the wave launcher gets the accounts and the one destination, unchecked.
LaunchWithProfile(asked) ==
    /\ queue = NothingQueued /\ asked # <<>>
    /\ \E i \in DOMAIN profiles :
          Queues(Plan("profile", asked, <<>>, 0,
                        AllTo(asked, profiles[i].to, "member", "member"), <<>>))
    /\ UNCHANGED <<crew, listed, recalled, distribution, profiles, profileEdit, meanwhile>>

\* What Roblox may list: a full server, one with some room, one with more.
Pages == {<<>>} \union {<<[job |-> job, free |-> n]>> : job \in Places, n \in 0..1}
                \union {<<[job |-> job, free |-> 1], [job |-> other, free |-> n]>> :
                           job \in Places, other \in Places, n \in {0, 2}}
Lists == {<<job>> : job \in Places} \union {<<job, other>> : job \in Places, other \in Places}
Destinations == Places \union {Anywhere}

CoordinationNext ==
    \/ \E asked \in Selections :
          \/ \E perServer \in PerServer :
                \/ \E servers \in Lists \union {<<>>} :
                      RunSpread(asked, servers, perServer)
                \/ PlanDistribution(asked, perServer)
          \/ \E job \in Destinations : RunFollowers(asked, job) \/ RunSync(asked, job) \/ RunParty(asked, job)
          \/ LaunchWithProfile(asked)
    \/ RunDistribution \/ BatchIsOver
    \/ \E account \in Crew : LoseAccount(account)
    \/ \E rows \in Pages, blocked \in SUBSET Places : ListServers(rows, blocked)
    \/ \E job \in Places : RecallServer(job)
    \/ \E id \in Profiles, to \in Places \union {PrivateServer} : ReadProfiles([id |-> id, to |-> to])
    \/ WriteProfiles
    \/ \E id \in Profiles : DeleteProfile(id)

(***************************************************************************)
(* Properties.                                                             *)
(***************************************************************************)

SentTo(plan, job) == {i \in DOMAIN plan.steps : plan.steps[i].job = job}

CoordinationTypeOK ==
    /\ crew \subseteq Crew /\ ToSet(listed) \subseteq Places /\ ToSet(recalled) \subseteq Places
    /\ queue.mode \in {"none", "spread", "followers", "sync", "party", "profile"}
    /\ distribution.at \in {"idle", "planned"} /\ profileEdit.at \in {"idle", "save"}

\* In a coordinated plan no account appears twice, and each one asked for is sent or told to be left
\* out, in the order of the request.
EveryoneIsPlaced ==
    queue.mode \notin {"none", "profile"} =>
        /\ IsInjective(queue.asked) /\ Len(queue.steps) + Len(queue.unassigned) = Len(queue.asked)
        /\ \A i \in DOMAIN queue.asked :
              queue.asked[i] = IF i <= Len(queue.steps) THEN queue.steps[i].account
                               ELSE queue.unassigned[i - Len(queue.steps)]

\* A spread puts no more accounts on a server than asked, and leaves one out only when every
\* server is full.
ServersAreNotCrowded ==
    queue.mode = "spread" /\ queue.servers # <<>> =>
        /\ \A job \in ToSet(queue.servers) : Cardinality(SentTo(queue, job)) <= queue.perServer
        /\ queue.unassigned # <<>> =>
              \A job \in ToSet(queue.servers) : Cardinality(SentTo(queue, job)) = queue.perServer

\* Followers and parties meet: one main account, first, and everybody at one server; a party
\* is no larger than allowed.
GroupsMeet ==
    queue.mode \in {"followers", "party"} =>
        /\ \A i \in DOMAIN queue.steps : /\ queue.steps[i].role = "main" <=> i = 1
                                         /\ queue.steps[i].job = queue.steps[1].job
        /\ queue.mode = "party" => Len(queue.steps) <= MaxParty

\* However calls overlap, the profiles are distinct, and not too many.
ProfilesKeepShape ==
    /\ \A i, j \in DOMAIN profiles : i # j => profiles[i].id # profiles[j].id
    /\ Len(profiles) <= MaxProfiles

\* Plans and profiles are what they promise, whatever overlapped.
PlansFit == EveryoneIsPlaced /\ ServersAreNotCrowded /\ GroupsMeet /\ ProfilesKeepShape

\* A distribution that found an eligible server sends nobody to one that was not.
DistributionKeepsToEligible ==
    [][\A servers \in {distribution.servers} :
          queue' # queue /\ distribution.some /\ RunDistribution =>
              \A i \in DOMAIN queue'.steps : queue'.steps[i].job \in ToSet(servers)]_coordinationVars
=============================================================================
