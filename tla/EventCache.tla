----------------------------- MODULE EventCache -----------------------------
(***************************************************************************)
(* The event catalogue and its read-aside cache: services/event.py and     *)
(* repositories/event.py, with the versioned list keys of redis_keys.py    *)
(* and the invalidations of services/ticket_type.py.  One event and one    *)
(* page of the list; other events and pages have keys of their own, and    *)
(* share only the version of the lists.                                    *)
(*                                                                         *)
(* What a response shows is the number of the last commit it includes.     *)
(***************************************************************************)
EXTENDS Integers, FiniteSets

CONSTANTS Readers,      \* requests that read, one after the other
          Kind,         \* "static" reads the event, "list" the page
          Writers,      \* requests that write, one write each
          Write,        \* "create" (another event), "update" or "delete"
          MaxVersion,   \* bound on the list version
          Faults,       \* which of "crash" and "redis_restart" happen
          MaxRestarts,  \* bound on the restarts of Redis
          Missing       \* not in Redis

Kinds == {"static", "list"}

ASSUME CacheAssumption ==
    /\ IsFiniteSet(Writers)
    /\ Kind \in [Readers -> Kinds]
    /\ Write \in [Writers -> {"create", "update", "delete"}]
    /\ MaxVersion \in Nat \ {0}
    /\ Faults \subseteq {"crash", "redis_restart"}
    /\ MaxRestarts \in Nat
    /\ Missing \notin Nat

VARIABLES
    content,        \* PostgreSQL: the last commit that changed the event, the list
    present,        \* PostgreSQL: the event has a row
    cache,          \* Redis: what is cached under each key
    list_version,   \* Redis: ticketcore:events:list_version
    reader,         \* where each reading request is, and what it holds
    writer,         \* where each writing request is, and its commit
    bumped,         \* history: the last commit whose bump has reached Redis
    rewound,        \* history: the list version has gone back
    restarts        \* history: restarts of Redis

vars == <<content, present, cache, list_version, reader, writer,
          bumped, rewound, restarts>>

\* Key 0 is event_static of the event, key v the page under list version v.
StaticKey == 0
Versions  == 1 .. MaxVersion
Keys      == {StaticKey} \union Versions

Reading ==
    [pc : {"idle", "version", "init", "lookup", "query", "fill"},
     key : Keys, fetched : Nat, since : Nat]

NotReading == [pc |-> "idle", key |-> StaticKey, fetched |-> 0, since |-> 0]

Writing == [pc : {"start", "delete_key", "bump", "done"}, commit : Nat]

NotWriting == [pc |-> "done", commit |-> 0]

TypeOK ==
    /\ content \in [Kinds -> Nat]
    /\ present \in BOOLEAN
    /\ cache \in [Keys -> Nat \union {Missing}]
    /\ list_version \in Versions \union {Missing}
    /\ reader \in [Readers -> Reading]
    /\ writer \in [Writers -> Writing]
    /\ bumped \in Nat
    /\ rewound \in BOOLEAN
    /\ restarts \in 0 .. MaxRestarts

Empty == [k \in Keys |-> Missing]

Init ==
    /\ content = [k \in Kinds |-> 0]
    /\ present = TRUE
    /\ cache = Empty
    /\ list_version = Missing
    /\ reader = [r \in Readers |-> NotReading]
    /\ writer = [w \in Writers |-> [pc |-> "start", commit |-> 0]]
    /\ bumped = 0
    /\ rewound = FALSE
    /\ restarts = 0

ReadsAt(r, label)  == reader[r].pc = label
WritesAt(w, label) == writer[w].pc = label

Later(m, n) == IF m > n THEN m ELSE n
-----------------------------------------------------------------------------
(***************************************************************************)
(* Reading: CachedEventRepository.get and get_all, a step per await.       *)
(***************************************************************************)
\* A request arrives; since is what a page it returns must not fall behind.
Ask(r) ==
    /\ ReadsAt(r, "idle")
    /\ reader' = [reader EXCEPT ![r].pc = IF Kind[r] = "list" THEN "version" ELSE "lookup",
                                ![r].since = IF Kind[r] = "list" THEN bumped ELSE 0]
    /\ UNCHANGED <<content, present, cache, list_version, writer, bumped,
                   rewound, restarts>>

\* A list key built from the version as it is, missing or not.
GetVersion_Mutant(r) ==
    /\ ReadsAt(r, "version")
    /\ reader' = [reader EXCEPT ![r].pc = "lookup", ![r].key = list_version]
    /\ UNCHANGED <<content, present, cache, list_version, writer, bumped,
                   rewound, restarts>>

\* RedisKeys.event_list: GET the version.
GetVersion(r) ==
    /\ ReadsAt(r, "version")
    /\ \/ /\ list_version = Missing
          /\ reader' = [reader EXCEPT ![r].pc = "init"]
       \/ /\ list_version # Missing
          /\ reader' = [reader EXCEPT ![r].pc = "lookup", ![r].key = list_version]
    /\ UNCHANGED <<content, present, cache, list_version, writer, bumped,
                   rewound, restarts>>

(***************************************************************************)
(* RedisKeys.event_list: the version was missing, SET it to 1.  By now     *)
(* another reader may have set it and writers may have raised it.          *)
(***************************************************************************)
InitVersion(r) ==
    /\ ReadsAt(r, "init")
    /\ list_version' = 1
    /\ rewound' = (rewound \/ list_version \notin {1, Missing})
    /\ reader' = [reader EXCEPT ![r].pc = "lookup", ![r].key = 1]
    /\ UNCHANGED <<content, present, cache, writer, bumped, restarts>>

\* GET the cached response: a hit is returned as it is.
Lookup(r) ==
    /\ ReadsAt(r, "lookup")
    /\ \/ /\ cache[reader[r].key] # Missing
          /\ reader' = [reader EXCEPT ![r] = NotReading]
       \/ /\ cache[reader[r].key] = Missing
          /\ reader' = [reader EXCEPT ![r].pc = "query"]
    /\ UNCHANGED <<content, present, cache, list_version, writer, bumped,
                   rewound, restarts>>

\* EventRepository.get or get_all: SELECT.  Without a row, EventNotFoundError.
Query(r) ==
    /\ ReadsAt(r, "query")
    /\ \/ /\ Kind[r] = "static" /\ ~present
          /\ reader' = [reader EXCEPT ![r] = NotReading]
       \/ /\ Kind[r] = "list" \/ present
          /\ reader' = [reader EXCEPT ![r].pc = "fill",
                                      ![r].fetched = content[Kind[r]]]
    /\ UNCHANGED <<content, present, cache, list_version, writer, bumped,
                   rewound, restarts>>

\* A page stored under the version of the moment, not the one looked up first.
Fill_Mutant(r) ==
    /\ ReadsAt(r, "fill")
    /\ cache' = IF Kind[r] = "list" /\ list_version # Missing
                   THEN [cache EXCEPT ![list_version] = reader[r].fetched]
                   ELSE [cache EXCEPT ![reader[r].key] = reader[r].fetched]
    /\ reader' = [reader EXCEPT ![r] = NotReading]
    /\ UNCHANGED <<content, present, list_version, writer, bumped, rewound, restarts>>

\* SET the response with its time to live, and return it.
Fill(r) ==
    /\ ReadsAt(r, "fill")
    /\ cache' = [cache EXCEPT ![reader[r].key] = reader[r].fetched]
    /\ reader' = [reader EXCEPT ![r] = NotReading]
    /\ UNCHANGED <<content, present, list_version, writer, bumped, rewound, restarts>>

Read(r) ==
    \/ GetVersion(r) \/ InitVersion(r) \/ Lookup(r) \/ Query(r) \/ Fill(r)
-----------------------------------------------------------------------------
(***************************************************************************)
(* Writing: EventService.create, update and delete, and TicketTypeService's*)
(* create, update and delete, which write to an event.  The database first,*)
(* then DEL of the event's key, then INCR of the list version.             *)
(***************************************************************************)
Commit(w) ==
    /\ WritesAt(w, "start")
    /\ Write[w] = "create" \/ present
    /\ LET n == content["list"] + 1 IN
          /\ content' = IF Write[w] = "create" THEN [content EXCEPT !["list"] = n]
                                               ELSE [k \in Kinds |-> n]
          /\ writer' = [writer EXCEPT ![w] = [pc |-> "delete_key", commit |-> n]]
    /\ present' = (present /\ Write[w] # "delete")
    /\ UNCHANGED <<cache, list_version, reader, bumped, rewound, restarts>>

\* No such event, an empty update, or tickets that still refer to it.
Refuse(w) ==
    /\ WritesAt(w, "start")
    /\ writer' = [writer EXCEPT ![w] = NotWriting]
    /\ UNCHANGED <<content, present, cache, list_version, reader, bumped,
                   rewound, restarts>>

\* DEL event_static of the event written: for a create it is another event's.
DeleteKey(w) ==
    /\ WritesAt(w, "delete_key")
    /\ \/ /\ Write[w] = "create"
          /\ UNCHANGED cache
       \/ /\ Write[w] # "create"
          /\ cache' = [cache EXCEPT ![StaticKey] = Missing]
    /\ writer' = [writer EXCEPT ![w].pc = "bump"]
    /\ UNCHANGED <<content, present, list_version, reader, bumped, rewound, restarts>>

\* A bump that only makes sure that there is a version.
Bump_Mutant(w) ==
    /\ WritesAt(w, "bump")
    /\ list_version' = IF list_version = Missing THEN 1 ELSE list_version
    /\ writer' = [writer EXCEPT ![w] = NotWriting]
    /\ bumped' = Later(bumped, writer[w].commit)
    /\ UNCHANGED <<content, present, cache, reader, rewound, restarts>>

\* RedisKeys.bump_event_list_version: INCR, which counts a missing key as 0.
Bump(w) ==
    /\ WritesAt(w, "bump")
    /\ \/ list_version = Missing /\ list_version' = 1
       \/ /\ list_version \in 1 .. MaxVersion - 1
          /\ list_version' = list_version + 1
    /\ writer' = [writer EXCEPT ![w] = NotWriting]
    /\ bumped' = Later(bumped, writer[w].commit)
    /\ UNCHANGED <<content, present, cache, reader, rewound, restarts>>
-----------------------------------------------------------------------------
\* A process dies, or a Redis command raises, between two steps of a request.
AbortRead(r) ==
    /\ ~ReadsAt(r, "idle")
    /\ reader' = [reader EXCEPT ![r] = NotReading]
    /\ UNCHANGED <<content, present, cache, list_version, writer, bumped,
                   rewound, restarts>>

AbortWrite(w) ==
    /\ WritesAt(w, "delete_key") \/ WritesAt(w, "bump")
    /\ writer' = [writer EXCEPT ![w] = NotWriting]
    /\ UNCHANGED <<content, present, cache, list_version, reader, bumped,
                   rewound, restarts>>

\* Redis comes back without its data: the versions start over.
RedisRestart ==
    /\ restarts < MaxRestarts
    /\ restarts' = restarts + 1
    /\ cache' = Empty
    /\ list_version' = Missing
    /\ rewound' = TRUE
    /\ UNCHANGED <<content, present, reader, writer, bumped>>

\* Lists that are cached without a time to live.
Expire_Mutant(k) ==
    /\ k = StaticKey
    /\ cache[k] # Missing
    /\ cache' = [cache EXCEPT ![k] = Missing]
    /\ UNCHANGED <<content, present, list_version, reader, writer, bumped,
                   rewound, restarts>>

\* TTL_STATIC_24H or TTL_LISTS_1H have passed; the version has no time to live.
Expire(k) ==
    /\ cache[k] # Missing
    /\ cache' = [cache EXCEPT ![k] = Missing]
    /\ UNCHANGED <<content, present, list_version, reader, writer, bumped,
                   rewound, restarts>>

Next ==
    \/ \E r \in Readers : Ask(r) \/ Read(r)
    \/ \E w \in Writers : Commit(w) \/ Refuse(w) \/ DeleteKey(w) \/ Bump(w)
    \/ \E k \in Keys : Expire(k)
    \/ "crash" \in Faults /\ \E r \in Readers : AbortRead(r)
    \/ "crash" \in Faults /\ \E w \in Writers : AbortWrite(w)
    \/ "redis_restart" \in Faults /\ RedisRestart

Spec == Init /\ [][Next]_vars

(***************************************************************************)
(* A request that has begun goes on, and Redis drops expired keys.  Nobody *)
(* need read or write.                                                     *)
(***************************************************************************)
FairSpec ==
    /\ Spec
    /\ \A r \in Readers : WF_vars(Read(r))
    /\ \A k \in Keys : WF_vars(Expire(k))
-----------------------------------------------------------------------------
(***************************************************************************)
(* README.md:28-30: a bump invalidates all old pages at once.  What is     *)
(* cached under the current version includes every write that has bumped   *)
(* it, however slow the readers that fill it: they fill the version they   *)
(* looked up first.  It needs a version that never goes back, and two      *)
(* things take it back: InitVersion over a bump, and Redis losing its data.*)
(***************************************************************************)
CurrentListIsFresh ==
    ~rewound /\ list_version # Missing =>
        \/ cache[list_version] = Missing
        \/ cache[list_version] >= bumped

(***************************************************************************)
(* The same for the client: a list request that arrives after a bump shows *)
(* that write, from the cache or from the database, even if its version is *)
(* outdated before it looks, and whoever fills the page.                   *)
(***************************************************************************)
ListsShowBumpedWrites ==
    \A r \in Readers :
        ~rewound /\ Kind[r] = "list" =>
            /\ ReadsAt(r, "lookup") /\ cache[reader[r].key] # Missing =>
                  cache[reader[r].key] >= reader[r].since
            /\ ReadsAt(r, "fill") => reader[r].fetched >= reader[r].since

(***************************************************************************)
(* The static key has no version: a reader that queried before a commit    *)
(* and fills after its DEL puts the old event back.  Whatever lost or late *)
(* invalidations, rewound versions and restarts there were, the times to   *)
(* live repair it: in the end the cache shows the last commit, or nothing. *)
(***************************************************************************)
CacheConverges ==
    <>[](/\ cache[StaticKey] \in {Missing, content["static"]}
         /\ list_version # Missing =>
                cache[list_version] \in {Missing, content["list"]})
=============================================================================
