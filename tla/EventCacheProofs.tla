-------------------------- MODULE EventCacheProofs --------------------------
(***************************************************************************)
(* Theorems about EventCache, for any number of readers and writers.  A    *)
(* bump moves the lists to a version under which nothing is cached and     *)
(* nobody is reading yet; the inductive invariant says so, and that those  *)
(* who then read under it find every write that was bumped before.         *)
(***************************************************************************)
EXTENDS EventCache, TLAPS

Reads(r)   == reader[r].pc \in {"lookup", "query", "fill"}
IsList(r)  == Kind[r] = "list"

\* A reader of the event uses its static key only.
StaticReadersKeep ==
    \A r \in Readers :
        ~IsList(r) => reader[r].key = StaticKey /\ reader[r].pc \notin {"version", "init"}

\* Every commit is in the database, bumped or not, and no reader asks for more.
NothingAhead ==
    /\ bumped <= content["list"]
    /\ \A w \in Writers : writer[w].commit <= content["list"]
    /\ \A r \in Readers : reader[r].since <= bumped

\* Nothing is cached, and nobody reads, under a version yet to come.
VersionsInUse ==
    /\ \A v \in Versions :
          cache[v] # Missing => list_version # Missing /\ v <= list_version
    /\ \A r \in Readers :
          IsList(r) /\ Reads(r) =>
              /\ list_version # Missing
              /\ reader[r].key \in 1 .. list_version

\* A page on its way into the current version includes all that was bumped.
FillsAreFresh ==
    \A r \in Readers :
        IsList(r) /\ ReadsAt(r, "fill") /\ reader[r].key = list_version =>
            reader[r].fetched >= bumped

\* A page on its way into a version shows what its readers ask for.
FillsServeReaders ==
    \A r, q \in Readers :
        /\ IsList(r) /\ ReadsAt(r, "lookup")
        /\ IsList(q) /\ ReadsAt(q, "fill")
        /\ reader[r].key = reader[q].key
        => reader[q].fetched >= reader[r].since

Orderly ==
    /\ VersionsInUse
    /\ FillsAreFresh
    /\ FillsServeReaders
    /\ CurrentListIsFresh
    /\ ListsShowBumpedWrites

IInv ==
    /\ TypeOK
    /\ StaticReadersKeep
    /\ NothingAhead
    /\ ~rewound => Orderly

LEMMA CacheInit == Init => IInv
<1> SUFFICES ASSUME Init PROVE IInv
  OBVIOUS
<1>1. TypeOK
  <2>1. NotReading \in Reading /\ [pc |-> "start", commit |-> 0] \in Writing
    BY DEF Reading, NotReading, Writing, Keys
  <2>2. reader \in [Readers -> Reading] /\ writer \in [Writers -> Writing]
    BY <2>1 DEF Init
  <2>3. cache \in [Keys -> Nat \union {Missing}]
    BY DEF Init, Empty
  <2>4. content \in [Kinds -> Nat] /\ bumped \in Nat
    BY DEF Init
  <2>5. restarts \in 0 .. MaxRestarts
    BY CacheAssumption DEF Init
  <2> QED BY <2>2, <2>3, <2>4, <2>5 DEF Init, TypeOK
<1>2. StaticReadersKeep /\ NothingAhead
  BY DEF Init, StaticReadersKeep, NothingAhead, NotReading, Kinds
<1>3. Orderly
  BY DEF Init, Orderly, VersionsInUse, FillsAreFresh, FillsServeReaders,
         CurrentListIsFresh, ListsShowBumpedWrites, ReadsAt, Reads, NotReading,
         Empty, Keys
<1> QED BY <1>1, <1>2, <1>3 DEF IInv

\* Cached pages and versions are numbers.
LEMMA Numbers ==
    ASSUME TypeOK
    PROVE  /\ Versions \subseteq Nat \ {0} /\ Versions \subseteq Keys
           /\ Missing \notin Versions
           /\ StaticKey \notin Versions
BY CacheAssumption DEF Versions, Keys, StaticKey

\* One step of one reader leaves what the others hold.
LEMMA AskStep ==
    ASSUME IInv, NEW r \in Readers, Ask(r) PROVE IInv'
<1> USE DEF IInv
<1>1. TypeOK'
  <2>1. reader' \in [Readers -> Reading]
    <3>1. reader'[r] \in Reading
      BY DEF Ask, TypeOK, Reading
    <3> QED BY <3>1 DEF Ask, TypeOK
  <2> QED BY <2>1 DEF Ask, TypeOK
<1>2. StaticReadersKeep' /\ NothingAhead'
  BY DEF Ask, TypeOK, Reading, Writing, StaticReadersKeep, NothingAhead, IsList, ReadsAt, Kinds
<1>3. ASSUME ~rewound PROVE Orderly'
  BY <1>3 DEF Ask, TypeOK, Reading, Orderly, VersionsInUse, FillsAreFresh, FillsServeReaders,
              CurrentListIsFresh, ListsShowBumpedWrites, ReadsAt, Reads, IsList, StaticReadersKeep
<1> QED BY <1>1, <1>2, <1>3 DEF Ask

LEMMA GetVersionStep ==
    ASSUME IInv, NEW r \in Readers, GetVersion(r) PROVE IInv'
<1> USE DEF IInv
<1>1. \A q \in Readers : q # r => reader'[q] = reader[q]
  BY DEF GetVersion, TypeOK
<1>2. /\ reader[r].pc = "version" /\ reader'[r] \in Reading
      /\ reader'[r].since = reader[r].since
      /\ \/ reader'[r].pc = "init"
         \/ /\ reader'[r].pc = "lookup"
            /\ list_version # Missing /\ reader'[r].key = list_version
  BY Numbers DEF GetVersion, TypeOK, Reading, ReadsAt
<1>3. TypeOK'
  BY <1>2 DEF GetVersion, TypeOK
<1>4. IsList(r)
  BY <1>2 DEF StaticReadersKeep
<1>5. StaticReadersKeep' /\ NothingAhead'
  BY <1>1, <1>2, <1>4 DEF GetVersion, StaticReadersKeep, NothingAhead, IsList
<1>6. ASSUME ~rewound PROVE Orderly'
  <2>1. UNCHANGED <<cache, list_version, bumped, rewound>> /\ Orderly
    BY <1>6 DEF GetVersion
  <2>2. VersionsInUse' /\ CurrentListIsFresh'
    BY <2>1, <1>1, <1>2, Numbers
       DEF Orderly, VersionsInUse, CurrentListIsFresh, Reads, IsList, TypeOK
  <2>3. FillsAreFresh'
    BY <2>1, <1>1, <1>2 DEF Orderly, FillsAreFresh, ReadsAt, IsList
  <2>4. FillsServeReaders'
    BY <2>1, <1>1, <1>2
       DEF Orderly, FillsServeReaders, FillsAreFresh, NothingAhead, ReadsAt, IsList,
           TypeOK, Reading
  <2>5. ListsShowBumpedWrites'
    BY <1>6, <2>1, <1>1, <1>2
       DEF Orderly, ListsShowBumpedWrites, CurrentListIsFresh, NothingAhead, ReadsAt,
           IsList, TypeOK, Reading, Versions, Keys
  <2> QED BY <2>2, <2>3, <2>4, <2>5 DEF Orderly
<1> QED BY <1>3, <1>5, <1>6 DEF GetVersion

LEMMA InitVersionStep ==
    ASSUME IInv, NEW r \in Readers, InitVersion(r) PROVE IInv'
<1> USE DEF IInv
<1>1. \A q \in Readers : q # r => reader'[q] = reader[q]
  BY DEF InitVersion, TypeOK
<1>2. 1 \in Versions
  BY CacheAssumption DEF Versions
<1>3. /\ reader[r].pc = "init" /\ reader'[r] \in Reading
      /\ reader'[r].since = reader[r].since
      /\ reader'[r].pc = "lookup" /\ reader'[r].key = 1
  BY <1>2, Numbers DEF InitVersion, TypeOK, Reading, ReadsAt
<1>4. TypeOK'
  BY <1>2, <1>3 DEF InitVersion, TypeOK
<1>5. IsList(r)
  BY <1>3 DEF StaticReadersKeep
<1>6. StaticReadersKeep' /\ NothingAhead'
  BY <1>1, <1>3, <1>5 DEF InitVersion, StaticReadersKeep, NothingAhead, IsList
<1>7. ASSUME ~rewound' PROVE Orderly'
  <2>1. /\ UNCHANGED <<cache, bumped>> /\ Orderly /\ ~rewound
        /\ list_version \in {1, Missing} /\ list_version' = 1
    BY <1>7 DEF InitVersion
  <2>2. VersionsInUse'
    BY <2>1, <1>1, <1>2, <1>3, Numbers DEF Orderly, VersionsInUse, Reads, IsList, TypeOK
  <2>3. CurrentListIsFresh'
    BY <2>1, <1>2 DEF Orderly, VersionsInUse, CurrentListIsFresh
  <2>4. FillsAreFresh'
    BY <2>1, <1>1, <1>3 DEF Orderly, FillsAreFresh, VersionsInUse, ReadsAt, Reads, IsList
  <2>5. FillsServeReaders'
    BY <2>1, <1>1, <1>3
       DEF Orderly, FillsServeReaders, FillsAreFresh, VersionsInUse, NothingAhead,
           ReadsAt, Reads, IsList, TypeOK, Reading
  <2>6. ListsShowBumpedWrites'
    BY <2>1, <1>1, <1>2, <1>3, Numbers
       DEF Orderly, ListsShowBumpedWrites, CurrentListIsFresh, VersionsInUse, NothingAhead,
           ReadsAt, Reads, IsList, TypeOK, Reading
  <2> QED BY <2>2, <2>3, <2>4, <2>5, <2>6 DEF Orderly
<1> QED BY <1>4, <1>6, <1>7

\* A reader that misses, or ends, changes nothing for the others.
LEMMA ReaderLeaves ==
    ASSUME IInv, NEW r \in Readers,
           UNCHANGED <<content, present, cache, list_version, writer, bumped,
                       rewound, restarts>>,
           reader' \in [Readers -> Reading],
           \A q \in Readers : q # r => reader'[q] = reader[q],
           \/ reader'[r] = NotReading
           \/ /\ reader[r].pc = "lookup" /\ reader'[r].pc = "query"
              /\ reader'[r].key = reader[r].key /\ reader'[r].since = reader[r].since
    PROVE  IInv'
<1> USE DEF IInv
<1>1. TypeOK'
  BY DEF TypeOK
<1>2. StaticReadersKeep' /\ NothingAhead'
  BY DEF TypeOK, Reading, NotReading, StaticReadersKeep, NothingAhead, IsList
<1>3. ASSUME ~rewound PROVE Orderly'
  <2>1. VersionsInUse' /\ CurrentListIsFresh'
    BY <1>3 DEF Orderly, VersionsInUse, CurrentListIsFresh, Reads, IsList, NotReading
  <2>2. FillsAreFresh' /\ FillsServeReaders' /\ ListsShowBumpedWrites'
    BY <1>3 DEF Orderly, FillsAreFresh, FillsServeReaders, ListsShowBumpedWrites,
                ReadsAt, IsList, NotReading
  <2> QED BY <2>1, <2>2 DEF Orderly
<1> QED BY <1>1, <1>2, <1>3

LEMMA IdleReader == NotReading \in Reading
BY DEF NotReading, Reading, Keys

LEMMA LookupStep ==
    ASSUME IInv, NEW r \in Readers, Lookup(r) PROVE IInv'
<1> USE DEF IInv
<1>1. \A q \in Readers : q # r => reader'[q] = reader[q]
  BY DEF Lookup, TypeOK
<1>2. /\ reader'[r] \in Reading
      /\ \/ reader'[r] = NotReading
         \/ /\ reader[r].pc = "lookup" /\ reader'[r].pc = "query"
            /\ reader'[r].key = reader[r].key /\ reader'[r].since = reader[r].since
  BY IdleReader DEF Lookup, TypeOK, Reading, ReadsAt
<1>3. reader' \in [Readers -> Reading]
  BY <1>2 DEF Lookup, TypeOK
<1> QED BY <1>1, <1>2, <1>3, ReaderLeaves DEF Lookup

LEMMA AbortReadStep ==
    ASSUME IInv, NEW r \in Readers, AbortRead(r) PROVE IInv'
<1> USE DEF IInv
<1>1. /\ \A q \in Readers : q # r => reader'[q] = reader[q]
      /\ reader'[r] = NotReading
      /\ reader' \in [Readers -> Reading]
  BY IdleReader DEF AbortRead, TypeOK
<1> QED BY <1>1, ReaderLeaves DEF AbortRead

\* SELECT: what it returns includes every commit, so every bumped one.
LEMMA QueryStep ==
    ASSUME IInv, NEW r \in Readers, Query(r) PROVE IInv'
<1> USE DEF IInv
<1>1. /\ \A q \in Readers : q # r => reader'[q] = reader[q]
      /\ UNCHANGED <<content, present, cache, list_version, writer, bumped,
                     rewound, restarts>>
  BY DEF Query, TypeOK
<1>2. CASE reader' = [reader EXCEPT ![r] = NotReading]
  <2>1. reader'[r] = NotReading /\ reader' \in [Readers -> Reading]
    BY <1>2, IdleReader DEF TypeOK
  <2> QED BY <1>1, <2>1, ReaderLeaves
<1>3. CASE reader' = [reader EXCEPT ![r].pc = "fill", ![r].fetched = content[Kind[r]]]
  <2>1. /\ reader[r].pc = "query" /\ reader'[r].pc = "fill"
        /\ reader'[r].key = reader[r].key /\ reader'[r].since = reader[r].since
        /\ reader'[r].fetched = content[Kind[r]] /\ reader'[r] \in Reading
    <3>1. content[Kind[r]] \in Nat
      BY CacheAssumption DEF TypeOK
    <3> QED BY <1>3, <3>1 DEF Query, ReadsAt, TypeOK, Reading
  <2>2. TypeOK'
    BY <1>1, <1>3, <2>1 DEF TypeOK
  <2>3. StaticReadersKeep' /\ NothingAhead'
    BY <1>1, <2>1 DEF StaticReadersKeep, NothingAhead, IsList
  <2>4. IsList(r) => reader'[r].fetched >= bumped /\ bumped >= reader[r].since
    BY <2>1 DEF NothingAhead, IsList, TypeOK, Reading, Kinds
  <2>5. ASSUME ~rewound PROVE Orderly'
    <3>1. VersionsInUse' /\ CurrentListIsFresh'
      BY <2>5, <1>1, <2>1 DEF Orderly, VersionsInUse, CurrentListIsFresh, Reads, IsList
    <3>2. FillsAreFresh'
      BY <2>5, <1>1, <2>1, <2>4 DEF Orderly, FillsAreFresh, ReadsAt
    <3>3. FillsServeReaders'
      <4>1. \A q \in Readers : bumped >= reader[q].since
        BY DEF NothingAhead, TypeOK, Reading
      <4> QED BY <2>5, <1>1, <2>1, <2>2, <2>4, <4>1
              DEF Orderly, FillsServeReaders, ReadsAt, TypeOK, Reading
    <3>4. ListsShowBumpedWrites'
      BY <2>5, <1>1, <2>1, <2>2, <2>4
         DEF Orderly, ListsShowBumpedWrites, ReadsAt, IsList, TypeOK, Reading
    <3> QED BY <3>1, <3>2, <3>3, <3>4 DEF Orderly
  <2> QED BY <1>1, <2>2, <2>3, <2>5
<1> QED BY <1>2, <1>3 DEF Query

\* A list reader reads under a version.
LEMMA ListKeys ==
    ASSUME TypeOK, VersionsInUse, NEW q \in Readers, IsList(q), Reads(q)
    PROVE  reader[q].key \in Versions
<1>1. list_version \in Versions /\ reader[q].key \in 1 .. list_version
  BY DEF TypeOK, VersionsInUse
<1> QED BY <1>1, CacheAssumption DEF Versions

LEMMA FillStep ==
    ASSUME IInv, NEW r \in Readers, Fill(r) PROVE IInv'
<1> USE DEF IInv
<1>1. /\ \A q \in Readers : q # r => reader'[q] = reader[q]
      /\ reader'[r] = NotReading /\ reader' \in [Readers -> Reading]
      /\ UNCHANGED <<content, present, list_version, writer, bumped, rewound, restarts>>
      /\ reader[r].pc = "fill" /\ reader[r].key \in Keys /\ reader[r].fetched \in Nat
  BY IdleReader DEF Fill, TypeOK, ReadsAt, Reading
<1>2. /\ cache' \in [Keys -> Nat \union {Missing}]
      /\ cache'[reader[r].key] = reader[r].fetched
      /\ \A k \in Keys : k # reader[r].key => cache'[k] = cache[k]
  BY <1>1 DEF Fill, TypeOK
<1>3. TypeOK'
  BY <1>1, <1>2 DEF TypeOK
<1>4. StaticReadersKeep' /\ NothingAhead'
  <2>1. reader'[r].since = 0 /\ reader'[r].key = StaticKey /\ reader'[r].pc = "idle"
    BY <1>1 DEF NotReading
  <2>2. StaticReadersKeep'
    BY <1>1, <2>1 DEF StaticReadersKeep, IsList
  <2>3. NothingAhead'
    BY <1>1, <2>1 DEF NothingAhead, TypeOK
  <2> QED BY <2>2, <2>3
<1>5. ASSUME ~rewound PROVE Orderly'
  <2>1. CASE ~IsList(r)
    <3>1. \A v \in Versions : cache'[v] = cache[v]
      BY <2>1, <1>2, Numbers DEF StaticReadersKeep
    <3>2. VersionsInUse' /\ CurrentListIsFresh'
      BY <1>5, <1>1, <3>1
         DEF Orderly, VersionsInUse, CurrentListIsFresh, Reads, IsList, NotReading, TypeOK
    <3>3. FillsAreFresh' /\ FillsServeReaders'
      BY <1>5, <1>1
         DEF Orderly, FillsAreFresh, FillsServeReaders, ReadsAt, IsList, NotReading
    <3>4. ASSUME NEW q \in Readers, IsList(q), ReadsAt(q, "lookup")'
          PROVE  cache'[reader'[q].key] = cache[reader[q].key] /\ reader'[q] = reader[q]
      <4>1. q # r
        BY <2>1, <3>4
      <4>2. reader[q].key \in Versions
        BY <1>5, <1>1, <3>4, <4>1, ListKeys DEF Orderly, Reads, ReadsAt
      <4> QED BY <1>1, <3>1, <4>1, <4>2
    <3>5. ListsShowBumpedWrites'
      BY <1>5, <1>1, <3>4
         DEF Orderly, ListsShowBumpedWrites, ReadsAt, IsList, NotReading
    <3> QED BY <3>2, <3>3, <3>5 DEF Orderly
  <2>2. CASE IsList(r)
    <3>1. list_version # Missing /\ reader[r].key \in 1 .. list_version
      BY <1>5, <1>1, <2>2 DEF Orderly, VersionsInUse, Reads
    <3>2. VersionsInUse'
      <4>1. \A v \in Versions : cache'[v] # Missing => v <= list_version
        BY <1>5, <1>2, <3>1, Numbers DEF Orderly, VersionsInUse
      <4> QED BY <1>5, <1>1, <3>1, <4>1
              DEF Orderly, VersionsInUse, Reads, IsList, NotReading
    <3>3. CurrentListIsFresh'
      <4>1. CASE reader[r].key = list_version
        BY <1>5, <1>1, <1>2, <2>2, <4>1
           DEF Orderly, FillsAreFresh, ReadsAt, CurrentListIsFresh
      <4>2. CASE reader[r].key # list_version
        BY <1>5, <1>1, <1>2, <3>1, <4>2, Numbers
           DEF Orderly, CurrentListIsFresh, TypeOK
      <4> QED BY <4>1, <4>2
    <3>4. FillsAreFresh' /\ FillsServeReaders'
      BY <1>5, <1>1
         DEF Orderly, FillsAreFresh, FillsServeReaders, ReadsAt, IsList, NotReading
    <3>5. ListsShowBumpedWrites'
      <4>1. ASSUME NEW q \in Readers, IsList(q), ReadsAt(q, "lookup")',
                   cache'[reader'[q].key] # Missing
            PROVE  cache'[reader'[q].key] >= reader'[q].since
        <5>1. reader'[q] = reader[q] /\ ReadsAt(q, "lookup")
          BY <1>1, <4>1 DEF ReadsAt, NotReading
        <5>2. CASE reader[q].key = reader[r].key
          <6>1. reader[r].fetched >= reader[q].since
            BY <1>5, <1>1, <2>2, <4>1, <5>1, <5>2
               DEF Orderly, FillsServeReaders, ReadsAt
          <6> QED BY <1>2, <5>1, <5>2, <6>1
        <5>3. CASE reader[q].key # reader[r].key
          <6>1. cache'[reader[q].key] = cache[reader[q].key]
            BY <1>2, <5>3 DEF TypeOK, Reading
          <6>2. cache[reader[q].key] >= reader[q].since
            BY <1>5, <4>1, <5>1, <6>1 DEF Orderly, ListsShowBumpedWrites, IsList
          <6> QED BY <5>1, <6>1, <6>2
        <5> QED BY <5>2, <5>3
      <4> QED BY <1>5, <1>1, <4>1
              DEF Orderly, ListsShowBumpedWrites, ReadsAt, IsList, NotReading
    <3> QED BY <3>2, <3>3, <3>4, <3>5 DEF Orderly
  <2> QED BY <2>1, <2>2
<1> QED BY <1>1, <1>3, <1>4, <1>5

\* Steps of writers that leave Redis's list version alone.
LEMMA WriterMoves ==
    ASSUME IInv, UNCHANGED <<list_version, reader, bumped, rewound>>,
           TypeOK',
           content'["list"] >= content["list"],
           \A w \in Writers : writer'[w].commit <= content'["list"],
           \A v \in Versions : cache'[v] \in {cache[v], Missing}
    PROVE  IInv'
<1> USE DEF IInv
<1>1. content["list"] \in Nat /\ content'["list"] \in Nat /\ bumped \in Nat
  BY DEF TypeOK, Kinds
<1>2. StaticReadersKeep' /\ NothingAhead'
  BY <1>1 DEF StaticReadersKeep, NothingAhead, IsList
<1>3. ASSUME ~rewound PROVE Orderly'
  <2>1. VersionsInUse'
    BY <1>3 DEF Orderly, VersionsInUse, Reads, IsList
  <2>2. CurrentListIsFresh'
    BY <1>3 DEF Orderly, CurrentListIsFresh, TypeOK
  <2>3. FillsAreFresh' /\ FillsServeReaders'
    BY <1>3 DEF Orderly, FillsAreFresh, FillsServeReaders, ReadsAt, IsList
  <2>4. ASSUME NEW q \in Readers, IsList(q), ReadsAt(q, "lookup")
        PROVE  reader[q].key \in Versions
    BY <1>3, <2>4, ListKeys DEF Orderly, Reads, ReadsAt
  <2>5. ListsShowBumpedWrites'
    BY <1>3, <2>4 DEF Orderly, ListsShowBumpedWrites, ReadsAt, IsList
  <2> QED BY <2>1, <2>2, <2>3, <2>5 DEF Orderly
<1> QED BY <1>2, <1>3

LEMMA WriteRecords ==
    /\ NotWriting \in Writing
    /\ \A n \in Nat : [pc |-> "delete_key", commit |-> n] \in Writing
BY DEF NotWriting, Writing

LEMMA CommitStep ==
    ASSUME IInv, NEW w \in Writers, Commit(w) PROVE IInv'
<1> USE DEF IInv
<1> DEFINE n == content["list"] + 1
<1>1. n \in Nat /\ content["list"] \in Nat /\ n >= content["list"]
  BY DEF TypeOK, Kinds
<1>2. content' \in [Kinds -> Nat] /\ content'["list"] = n
  BY <1>1 DEF Commit, TypeOK, Kinds
<1>3. /\ writer' \in [Writers -> Writing] /\ writer'[w].commit = n
      /\ \A x \in Writers : x # w => writer'[x] = writer[x]
  BY <1>1, WriteRecords DEF Commit, TypeOK
<1>4. \A x \in Writers : writer'[x].commit <= content'["list"]
  BY <1>1, <1>2, <1>3 DEF NothingAhead, TypeOK, Writing
<1>5. TypeOK' /\ UNCHANGED <<cache, list_version, reader, bumped, rewound>>
  BY <1>2, <1>3 DEF Commit, TypeOK
<1> QED BY <1>1, <1>2, <1>4, <1>5, WriterMoves

\* A writer that is refused, dies, or clears the event's key.
LEMMA WriterEnds ==
    ASSUME IInv, NEW w \in Writers, Refuse(w) \/ DeleteKey(w) \/ AbortWrite(w)
    PROVE  IInv'
<1> USE DEF IInv
<1>1. content["list"] \in Nat
  BY DEF TypeOK, Kinds
<1>2. /\ writer' \in [Writers -> Writing]
      /\ writer'[w].commit \in {0, writer[w].commit}
      /\ \A x \in Writers : x # w => writer'[x] = writer[x]
  <2>1. writer[w] \in Writing
    BY DEF TypeOK
  <2>2. CASE writer' = [writer EXCEPT ![w] = NotWriting]
    BY <2>2, WriteRecords DEF TypeOK, NotWriting
  <2>3. CASE writer' = [writer EXCEPT ![w].pc = "bump"]
    BY <2>1, <2>3 DEF TypeOK, Writing
  <2> QED BY <2>2, <2>3 DEF Refuse, DeleteKey, AbortWrite
<1>3. \A x \in Writers : writer'[x].commit <= content["list"]
  BY <1>1, <1>2 DEF NothingAhead
<1>4. /\ cache' \in [Keys -> Nat \union {Missing}]
      /\ \A v \in Versions : cache'[v] \in {cache[v], Missing}
  BY Numbers DEF Refuse, DeleteKey, AbortWrite, TypeOK
<1>5. TypeOK' /\ UNCHANGED <<content, list_version, reader, bumped, rewound>>
  BY <1>2, <1>4 DEF Refuse, DeleteKey, AbortWrite, TypeOK
<1> QED BY <1>1, <1>3, <1>4, <1>5, WriterMoves

LEMMA ExpireStep ==
    ASSUME IInv, NEW k \in Keys, Expire(k) PROVE IInv'
<1> USE DEF IInv
<1>1. content["list"] \in Nat
  BY DEF TypeOK, Kinds
<1>2. /\ cache' \in [Keys -> Nat \union {Missing}]
      /\ \A v \in Versions : cache'[v] \in {cache[v], Missing}
  BY Numbers DEF Expire, TypeOK
<1>3. TypeOK' /\ UNCHANGED <<content, list_version, reader, writer, bumped, rewound>>
  BY <1>2 DEF Expire, TypeOK
<1> QED BY <1>1, <1>2, <1>3, WriterMoves DEF NothingAhead

\* INCR: nothing is cached under the new version and nobody reads under it.
LEMMA BumpStep ==
    ASSUME IInv, NEW w \in Writers, Bump(w) PROVE IInv'
<1> USE DEF IInv
<1>1. /\ writer' \in [Writers -> Writing] /\ writer'[w].commit = 0
      /\ \A x \in Writers : x # w => writer'[x] = writer[x]
      /\ UNCHANGED <<content, present, cache, reader, rewound, restarts>>
  BY WriteRecords DEF Bump, TypeOK, NotWriting
<1>2. /\ content["list"] \in Nat /\ bumped' \in Nat
      /\ bumped' >= bumped /\ bumped' <= content["list"]
  BY DEF Bump, Later, TypeOK, Writing, NothingAhead, Kinds
<1>3. /\ list_version' \in Versions
      /\ list_version # Missing => list_version < list_version'
  BY CacheAssumption, Numbers DEF Bump, Versions, TypeOK
<1>4. TypeOK'
  BY <1>1, <1>2, <1>3 DEF TypeOK
<1>5. StaticReadersKeep' /\ NothingAhead'
  BY <1>1, <1>2 DEF StaticReadersKeep, NothingAhead, IsList, TypeOK, Reading
<1>6. ASSUME ~rewound PROVE Orderly'
  <2>1. VersionsInUse'
    BY <1>6, <1>1, <1>3, Numbers DEF Orderly, VersionsInUse, Reads, IsList, TypeOK
  <2>2. cache[list_version'] = Missing
    BY <1>6, <1>3, Numbers DEF Orderly, VersionsInUse, TypeOK
  <2>3. CurrentListIsFresh'
    BY <1>1, <2>2 DEF CurrentListIsFresh
  <2>4. FillsAreFresh'
    BY <1>6, <1>1, <1>3, Numbers
       DEF Orderly, VersionsInUse, FillsAreFresh, Reads, ReadsAt, IsList, TypeOK
  <2>5. FillsServeReaders' /\ ListsShowBumpedWrites'
    BY <1>6, <1>1 DEF Orderly, FillsServeReaders, ListsShowBumpedWrites, ReadsAt, IsList
  <2> QED BY <2>1, <2>3, <2>4, <2>5 DEF Orderly
<1> QED BY <1>1, <1>4, <1>5, <1>6

LEMMA RestartStep == ASSUME IInv, RedisRestart PROVE IInv'
<1> USE DEF IInv
<1>1. TypeOK'
  BY CacheAssumption DEF RedisRestart, TypeOK, Empty
<1>2. StaticReadersKeep' /\ NothingAhead' /\ rewound'
  BY DEF RedisRestart, StaticReadersKeep, NothingAhead, IsList
<1> QED BY <1>1, <1>2

LEMMA CacheStutter == ASSUME IInv, UNCHANGED vars PROVE IInv'
BY DEF vars, IInv, TypeOK, StaticReadersKeep, NothingAhead, Orderly, VersionsInUse,
       FillsAreFresh, FillsServeReaders, CurrentListIsFresh, ListsShowBumpedWrites,
       Reads, ReadsAt, IsList

LEMMA CacheInvariant == Spec => []IInv
<1>1. IInv /\ [Next]_vars => IInv'
  <2> SUFFICES ASSUME IInv, [Next]_vars PROVE IInv'
    OBVIOUS
  <2>1. ASSUME NEW r \in Readers, Ask(r) \/ Read(r) \/ AbortRead(r) PROVE IInv'
    BY <2>1, AskStep, GetVersionStep, InitVersionStep, LookupStep, QueryStep, FillStep,
       AbortReadStep DEF Read
  <2>2. ASSUME NEW w \in Writers,
               Commit(w) \/ Refuse(w) \/ DeleteKey(w) \/ Bump(w) \/ AbortWrite(w)
        PROVE  IInv'
    BY <2>2, CommitStep, WriterEnds, BumpStep
  <2>3. ASSUME NEW k \in Keys, Expire(k) PROVE IInv'
    BY <2>3, ExpireStep
  <2>4. CASE RedisRestart
    BY <2>4, RestartStep
  <2>5. CASE UNCHANGED vars
    BY <2>5, CacheStutter
  <2> QED BY <2>1, <2>2, <2>3, <2>4, <2>5 DEF Next
<1> QED BY <1>1, CacheInit, PTL DEF Spec

(***************************************************************************)
(* The cache, its version and the requests keep their types                *)
(* (repositories/event.py; the version is never read as a list key when it *)
(* is missing).                                                            *)
(***************************************************************************)
THEOREM CacheTypeCorrect == Spec => []TypeOK
BY CacheInvariant, PTL DEF IInv

(***************************************************************************)
(* Versioned keys invalidate: while the version has not gone back, what is *)
(* cached under it includes every write that has bumped it (event_list and *)
(* bump_event_list_version of redis_keys.py).                              *)
(***************************************************************************)
THEOREM CurrentListStaysFresh == Spec => []CurrentListIsFresh
<1>1. IInv => CurrentListIsFresh
  BY DEF IInv, Orderly, CurrentListIsFresh
<1> QED BY <1>1, CacheInvariant, PTL

(***************************************************************************)
(* A list request shows every write that was bumped before it arrived,     *)
(* however the readers and writers of the page interleave.                 *)
(***************************************************************************)
THEOREM ListReadersSeeBumps == Spec => []ListsShowBumpedWrites
<1>1. IInv => ListsShowBumpedWrites
  BY DEF IInv, Orderly, ListsShowBumpedWrites
<1> QED BY <1>1, CacheInvariant, PTL
=============================================================================
