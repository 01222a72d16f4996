----------------------------- MODULE QueryCache -----------------------------
(***************************************************************************)
(* What a page sees of the server through hooks/api/index.ts: one query of *)
(* the cache, one mutation of this browser, and the other users and tasks  *)
(* that write what the query reads.  Fetches take time and fail; a page is *)
(* left and entered; time makes data stale (staleTime, 30 s).              *)
(*                                                                         *)
(* The cache is that of @tanstack/react-query, external: a fetch is shared *)
(* and not repeated while one is under way, unless invalidateQueries       *)
(* cancels it, which it does for a query that is on a page and has data.   *)
(***************************************************************************)
EXTENDS Pages

CONSTANTS
    Pairs,       \* the queries and mutations looked at, a set of <<query, mutation>>
    MaxVersion,  \* bound on the writes to what the query reads
    MaxLost,     \* bound on the fetches that fail
    MaxMoves     \* bound on how often the page is entered or left, or time passes

ASSUME PairsAssumption == Pairs \subseteq Query \X Mutations
ASSUME BoundsAssumption == MaxVersion \in Nat \ {0} /\ {MaxLost, MaxMoves} \subseteq Nat

Nothing == [ver |-> 0, busy |-> FALSE]

VARIABLES
    query, mutation,
    db,          \* the rows the query reads: a version, and whether work is under way
    cache,       \* the data the cache holds, Nothing before the first answer
    old,         \* "fresh", "stale" or "invalid"
    fetch,       \* st: "idle", "sent", "answered"; retry; snap: the rows it read
    mounted,     \* a page observes the query
    call,        \* the mutation: "idle", "sent", "committed", "done", "failed"
    own,         \* the version this browser's settled mutation made
    missed,      \* what the mutation's onSuccess left to a fetch it did not cancel
    losses, moves

cacheVars == <<query, mutation, db, cache, old, fetch, mounted, call, own, missed, losses, moves>>

Idle == [st |-> "idle", retry |-> FALSE, snap |-> Nothing]
Sent(retry) == [st |-> "sent", retry |-> retry, snap |-> Nothing]
Fetching == fetch.st # "idle"

CacheInit ==
    /\ \E p \in Pairs : query = p[1] /\ mutation = p[2]
    /\ \E busy \in {FALSE, (query \in PolledWhileBusy)} : db = [ver |-> 1, busy |-> busy]
    /\ cache = Nothing /\ old = "invalid" /\ fetch = Idle /\ mounted = FALSE
    /\ call = "idle" /\ own = 0 /\ missed = FALSE /\ losses = 0 /\ moves = 0

Fetch == fetch' = IF Fetching THEN fetch ELSE Sent(FALSE)

-----------------------------------------------------------------------------
(* The page.                                                               *)

\* A mount fetches what is not fresh.
Mount ==
    /\ ~mounted /\ moves < MaxMoves
    /\ mounted' = TRUE /\ moves' = moves + 1
    /\ IF old = "fresh" THEN UNCHANGED fetch ELSE Fetch
    /\ UNCHANGED <<query, mutation, db, cache, old, call, own, missed, losses>>

\* The fetch of a page that is left goes on.
Unmount ==
    /\ mounted /\ moves < MaxMoves
    /\ mounted' = FALSE /\ moves' = moves + 1
    /\ UNCHANGED <<query, mutation, db, cache, old, fetch, call, own, missed, losses>>

\* 30 s pass.
Age ==
    /\ old = "fresh" /\ moves < MaxMoves
    /\ old' = "stale" /\ moves' = moves + 1
    /\ UNCHANGED <<query, mutation, db, cache, fetch, mounted, call, own, missed, losses>>

\* The window gets the focus.
Focus ==
    /\ mounted /\ old # "fresh" /\ ~Fetching
    /\ Fetch
    /\ UNCHANGED <<query, mutation, db, cache, old, mounted, call, own, missed, losses, moves>>

\* Mutant: the interval does not look at the data.
PollHealthOnly ==
    /\ mounted /\ ~Fetching /\ query \in PolledAlways
    /\ Fetch
    /\ UNCHANGED <<query, mutation, db, cache, old, mounted, call, own, missed, losses, moves>>

\* refetchInterval, and the Refresh buttons.
Poll ==
    /\ mounted /\ ~Fetching
    /\ (query \in PolledAlways \/ (query \in PolledWhileBusy /\ cache.busy))
    /\ Fetch
    /\ UNCHANGED <<query, mutation, db, cache, old, mounted, call, own, missed, losses, moves>>

-----------------------------------------------------------------------------
(* Fetches.                                                                *)

AnswerFetch ==
    /\ fetch.st = "sent"
    /\ fetch' = [fetch EXCEPT !.st = "answered", !.snap = db]
    /\ UNCHANGED <<query, mutation, db, cache, old, mounted, call, own, missed, losses, moves>>

\* The answer becomes the data, and the data is fresh.
EndFetch ==
    /\ fetch.st = "answered"
    /\ cache' = fetch.snap /\ old' = "fresh" /\ fetch' = Idle
    /\ UNCHANGED <<query, mutation, db, mounted, call, own, missed, losses, moves>>

\* retry: 1.  After that the query shows an error and keeps its data.
LoseFetch ==
    /\ Fetching /\ losses < MaxLost
    /\ losses' = losses + 1
    /\ fetch' = IF fetch.retry \/ ~mounted THEN Idle ELSE Sent(TRUE)
    /\ UNCHANGED <<query, mutation, db, cache, old, mounted, call, own, missed, moves>>

-----------------------------------------------------------------------------
(* Writes.                                                                 *)

Written == db' = [db EXCEPT !.ver = @ + 1]

Mutate ==
    /\ call = "idle"
    /\ call' = "sent"
    /\ UNCHANGED <<query, mutation, db, cache, old, fetch, mounted, own, missed, losses, moves>>

\* The endpoint answers after its commit (or refuses).
Commit ==
    /\ call = "sent" /\ db.ver < MaxVersion
    /\ call' = "committed"
    /\ IF Affects(mutation, query) THEN Written /\ own' = db.ver + 1 ELSE UNCHANGED <<db, own>>
    /\ UNCHANGED <<query, mutation, cache, old, fetch, mounted, missed, losses, moves>>

\* The call fails, or its answer is lost: no onSuccess.
Fail ==
    /\ call \in {"sent", "committed"}
    /\ call' = "failed" /\ own' = 0
    /\ UNCHANGED <<query, mutation, db, cache, old, fetch, mounted, missed, losses, moves>>

\* invalidateQueries of a query on a page fetches again, in the place of a
\* fetch under way unless that is the first; any other is marked.
Invalidate ==
    /\ call = "committed" /\ Matches(mutation, query)
    /\ call' = "done" /\ old' = "invalid"
    /\ fetch' = IF mounted /\ (cache # Nothing \/ ~Fetching) THEN Sent(FALSE) ELSE fetch
    /\ missed' = (Fetching /\ fetch' = fetch)
    /\ UNCHANGED <<query, mutation, db, cache, mounted, own, losses, moves>>

\* setQueryData with the answer; a fetch under way goes on.
SetData ==
    /\ call = "committed" /\ query \in Does(mutation).sets
    /\ call' = "done"
    /\ cache' = [db EXCEPT !.ver = own] /\ old' = "fresh"
    /\ missed' = Fetching
    /\ UNCHANGED <<query, mutation, db, fetch, mounted, own, losses, moves>>

\* The onSuccess is about other queries.
Succeed ==
    /\ call = "committed" /\ ~Matches(mutation, query) /\ query \notin Does(mutation).sets
    /\ call' = "done"
    /\ UNCHANGED <<query, mutation, db, cache, old, fetch, mounted, own, missed, losses, moves>>

\* Another user writes; a scan or an update ends.
OthersWrite ==
    /\ db.ver < MaxVersion
    /\ Written
    /\ UNCHANGED <<query, mutation, cache, old, fetch, mounted, call, own, missed, losses, moves>>

WorkEnds ==
    /\ db.busy
    /\ db' = [db EXCEPT !.busy = FALSE]
    /\ UNCHANGED <<query, mutation, cache, old, fetch, mounted, call, own, missed, losses, moves>>

-----------------------------------------------------------------------------
CacheNext ==
    \/ Mount \/ Unmount \/ Age \/ Focus \/ Poll
    \/ AnswerFetch \/ EndFetch \/ LoseFetch
    \/ Mutate \/ Commit \/ Fail \/ Invalidate \/ SetData \/ Succeed
    \/ OthersWrite \/ WorkEnds

CacheSpec == CacheInit /\ [][CacheNext]_cacheVars

\* A fetch ends, and the timer of an interval fires.
CacheFairness == WF_cacheVars(AnswerFetch) /\ WF_cacheVars(EndFetch) /\ WF_cacheVars(Poll)

CacheTypeOK ==
    /\ query \in Query /\ mutation \in Mutations
    /\ db \in [ver : 1 .. MaxVersion, busy : BOOLEAN]
    /\ cache \in [ver : 0 .. MaxVersion, busy : BOOLEAN]
    /\ old \in {"fresh", "stale", "invalid"}
    /\ fetch \in [st : {"idle", "sent", "answered"}, retry : BOOLEAN,
                  snap : [ver : 0 .. MaxVersion, busy : BOOLEAN]]
    /\ call \in {"idle", "sent", "committed", "done", "failed"}
    /\ own \in 0 .. MaxVersion /\ mounted \in BOOLEAN /\ missed \in BOOLEAN
    /\ losses \in 0 .. MaxLost /\ moves \in 0 .. MaxMoves

\* Lists that a mutation of another kind changes without invalidating them, and
\* the reports, logs and searches that no mutation invalidates.
Reports == {"reports", "health", "map", "audit", "system-logs", "search"}
Overlooked ==
    {<<<<"delete", "site">>, r>> : r \in {"vlans", "subnets", "asns", "ip-addresses", "aggregates"}}
    \cup {<<<<"delete", "vlan">>, r>> : r \in {"subnets", "ip-addresses", "aggregates"}}
    \cup {<<<<v, "subnet">>, r>> : v \in {"create", "update", "delete"},
                                   r \in {"ip-addresses", "aggregates"}}
    \cup {<<<<"delete", "subnet">>, r>> : r \in {"discovery", "ip-ranges", "approvals"}}
    \cup {<<<<"delete", "ip">>, "approvals">>, <<<<"approve", "approval">>, "ip-addresses">>,
          <<<<"delete", "user">>, "approvals">>, <<<<"run", "discovery">>, "discovery">>}
    \cup {<<<<"delete", "vrf">>, r>> : r \in {"subnets", "ip-addresses", "aggregates"}}
    \cup {<<<<v, "vrf">>, "ip-addresses">> : v \in {"create", "update"}}
    \cup {<<<<"delete", "rir">>, r>> : r \in {"aggregates", "asns"}}
    \cup {<<m, r>> : m \in {<<"login">>, <<"update", "profile">>, <<"mfa", "setup">>,
                            <<"mfa", "enable">>, <<"mfa", "disable">>}, r \in {"admin"}}
    \cup {<<m, "auth">> : m \in {<<"mfa", "setup">>, <<"create", "user">>, <<"update", "user">>,
                                 <<"delete", "user">>}}

(* Once a mutation of this browser has settled, what it changed is shown   *)
(* as it is, or is marked to be fetched again: a fetch that read the rows  *)
(* before the commit never passes for fresh.  That holds for every list of *)
(* the page that wrote and, but for those above, for every other page; and *)
(* for the fetches invalidateQueries and setQueryData do not leave running. *)
OwnWritesAreShown ==
    /\ call = "done" /\ ~missed
    /\ \/ OnOnePage(query, mutation)
       \/ query[1] \notin Reports /\ <<mutation, query[1]>> \notin Overlooked
    => cache.ver >= own \/ old = "invalid"

(* "Live status": a page that shows work under way comes to show its end.  *)
EndIsShown == (mounted /\ cache.busy /\ ~db.busy) ~> (~cache.busy \/ ~mounted)
=============================================================================
