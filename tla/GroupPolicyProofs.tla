-------------------------- MODULE GroupPolicyProofs -------------------------
(***************************************************************************)
(* Proofs about GroupPolicy, for every number of replicas, requests and    *)
(* groups.                                                                 *)
(*                                                                         *)
(* A snapshot is read in two queries with commits in between, so it need   *)
(* not be any state of the database.  What is left of the two queries is   *)
(* that the names are those of some commit, and each definition is the one *)
(* of the commit the second query saw, unless the group was deleted in     *)
(* between.  A decision needs no more than that: it looks at all of the    *)
(* principal's groups or, when one of them is missing, at none.            *)
(***************************************************************************)
EXTENDS GroupPolicy, TLAPS

\* The values the variables hold: what maps some names to definitions, to
\* rows and to ids.
Databases == UNION {[names -> Definition] : names \in SUBSET Names}
Tables == UNION {[names -> [id: Nat, def: Definition]] : names \in SUBSET Names}
Listings == UNION {[names -> Nat] : names \in SUBSET Names}

Request ==
    [at: {"new", "found", "committed", "booting", "listed", "loaded", "answered"},
     replica: Replicas \cup {Down}, name: Names \cup {Down},
     own: Nat, ids: Listings, read: Databases, from: Nat]

Typed ==
    /\ rows \in Tables /\ \A n \in DOMAIN rows : rows[n].id <= Len(log)
    /\ log \in Seq(Databases) /\ log # <<>>
    /\ dropped \subseteq Names
    /\ req \in [Requests -> Request]
    /\ snapshot \in [Replicas -> Databases \cup {Down}]
    /\ asOf \in [Replicas -> 1..Len(log)]
    /\ promised \in [Replicas -> 0..Len(log)]
    /\ overtaken \subseteq Replicas

\* The log ends with what the database says now.
Current == log[Len(log)] = View(rows)

\* A request that has a replica runs on it, and has read nothing before it
\* has listed the groups.
Requested(q) ==
    /\ req[q].own <= Len(log) /\ req[q].from <= Len(log)
    /\ req[q].at \notin {"new", "answered"} => req[q].replica \in Replicas
    /\ req[q].at \in {"new", "committed", "booting"} => DOMAIN req[q].read = {}

\* names is the list of groups as it was at a commit of history up to i.
ListedBy(names, i, history) == \E j \in 1..i : names = DOMAIN history[j]

\* What a refresh has between its two queries: a list that was true at some
\* commit, whose groups are still there with their ids or have been deleted.
ListHolds(ids, table, history, gone) ==
    /\ ListedBy(DOMAIN ids, Len(history), history)
    /\ \A n \in DOMAIN ids :
        n \in gone \/ (n \in DOMAIN table /\ table[n].id = ids[n])

\* What it has after both: names of some commit up to i, with the definitions
\* of commit i but for the groups that were deleted in between.
Faithful(known, i, history, gone) ==
    /\ ListedBy(DOMAIN known, i, history)
    /\ \A n \in DOMAIN known :
        \/ n \in gone /\ known[n] = NoServers
        \/ n \in DOMAIN history[i] /\ known[n] = history[i][n]

Reads(q) ==
    /\ req[q].at = "listed" => ListHolds(req[q].ids, rows, log, dropped)
    /\ req[q].at = "loaded" =>
        /\ req[q].from >= 1 /\ req[q].own <= req[q].from
        /\ Faithful(req[q].read, req[q].from, log, dropped)

Serves(r) ==
    /\ snapshot[r] = Down \/ Faithful(snapshot[r], asOf[r], log, dropped)
    /\ asOf[r] >= promised[r] \/ r \in overtaken

IInv ==
    /\ Typed
    /\ Current
    /\ \A q \in Requests : Requested(q) /\ Reads(q)
    /\ \A r \in Replicas : Serves(r)

-----------------------------------------------------------------------------
(* The values.                                                             *)

\* The empty list and the empty snapshot of a request that has read nothing.
LEMMA EmptyTypes == <<>> \in Databases /\ <<>> \in Listings /\ DOMAIN <<>> = {}
<1>1. DOMAIN <<>> = {}
  OBVIOUS
<1>2. <<>> \in [{} -> Definition] /\ <<>> \in [{} -> Nat]
  OBVIOUS
<1> QED BY <1>1, <1>2 DEF Databases, Listings

\* Databases are the snapshots of the type invariant.
LEMMA DatabaseShape == \A known \in Databases : IsSnapshot(known)
<1>1. ASSUME NEW known \in Databases PROVE IsSnapshot(known)
  <2>1. PICK names \in SUBSET Names : known \in [names -> Definition]
    BY DEF Databases
  <2> QED BY <2>1 DEF IsSnapshot
<1> QED BY <1>1

\* A function over some of the names is a database when it holds definitions,
\* and a listing when it holds ids.
LEMMA DatabaseMade ==
    ASSUME NEW known, NEW names \in SUBSET Names, known \in [names -> Definition]
    PROVE  known \in Databases
BY DEF Databases

LEMMA ListingMade ==
    ASSUME NEW ids, NEW names \in SUBSET Names, ids \in [names -> Nat]
    PROVE  ids \in Listings
BY DEF Listings

LEMMA TableMade ==
    ASSUME NEW table, NEW names \in SUBSET Names,
           table \in [names -> [id: Nat, def: Definition]]
    PROVE  table \in Tables
BY DEF Tables

\* What a table holds, and the view of it that the log keeps.
LEMMA TableShape ==
    ASSUME NEW table \in Tables
    PROVE  /\ DOMAIN table \subseteq Names
           /\ table \in [DOMAIN table -> [id: Nat, def: Definition]]
           /\ View(table) \in Databases
           /\ DOMAIN View(table) = DOMAIN table
           /\ \A n \in DOMAIN table : View(table)[n] = table[n].def
<1>1. PICK names \in SUBSET Names : table \in [names -> [id: Nat, def: Definition]]
  BY DEF Tables
<1>2. View(table) \in [names -> Definition]
  BY <1>1 DEF View
<1> QED BY <1>1, <1>2 DEF View, Databases

\* A definition without policies is a definition, and the bodies of requests are.
LEMMA Definitions == NoServers \in Definition /\ Bodies \subseteq Definition
BY BodiesAssumption DEF NoServers, Definition

\* The requests nobody has sent, and those that have been answered.
LEMMA RequestTypes ==
    /\ NewRequest \in Request /\ Answered \in Request
    /\ NewRequest.at = "new" /\ Answered.at = "answered"
    /\ NewRequest.own = 0 /\ Answered.own = 0 /\ NewRequest.from = 0 /\ Answered.from = 0
    /\ NewRequest.read = <<>>
BY EmptyTypes DEF NewRequest, Answered, Request

-----------------------------------------------------------------------------
(* What lasts while the database goes on.                                  *)

\* Later commits and deletions leave a list and a snapshot as good as they were.
LEMMA ListLasts ==
    ASSUME NEW history, NEW later, Len(history) \in Nat, Len(later) \in Nat,
           Len(history) <= Len(later),
           \A j \in 1..Len(history) : later[j] = history[j],
           NEW gone, NEW more, gone \subseteq more, NEW table, NEW next,
           \A n \in DOMAIN table :
               n \in more \/ (n \in DOMAIN next /\ next[n].id = table[n].id),
           NEW ids, ListHolds(ids, table, history, gone)
    PROVE  ListHolds(ids, next, later, more)
BY DEF ListHolds, ListedBy

LEMMA FaithLasts ==
    ASSUME NEW history, NEW later, Len(history) \in Nat, Len(later) \in Nat,
           Len(history) <= Len(later),
           \A j \in 1..Len(history) : later[j] = history[j],
           NEW gone, NEW more, gone \subseteq more,
           NEW i \in Nat, i >= 1, i <= Len(history),
           NEW known, Faithful(known, i, history, gone)
    PROVE  Faithful(known, i, later, more)
BY DEF Faithful, ListedBy

\* What every step does to the database: the log grows, deleted names stay
\* deleted, and a group keeps its id until it is deleted.
Grows ==
    /\ Len(log) \in Nat /\ Len(log') \in Nat /\ Len(log) <= Len(log')
    /\ \A j \in 1..Len(log) : log'[j] = log[j]
    /\ dropped \subseteq dropped'
    /\ \A n \in DOMAIN rows :
        n \in dropped' \/ (n \in DOMAIN rows' /\ rows'[n].id = rows[n].id)

\* A step that leaves the database alone.
LEMMA StillGrows ==
    ASSUME Typed, UNCHANGED <<rows, log, dropped>>
    PROVE  Grows
BY DEF Typed, Grows

\* What a request has in hand stays true while the database grows.
LEMMA RequestLasts ==
    ASSUME IInv, Grows, NEW q \in Requests, req'[q] = req[q]
    PROVE  Requested(q)' /\ Reads(q)'
<1>1. req[q] \in Request
  BY DEF IInv, Typed
<1>2. Requested(q)'
  BY <1>1 DEF IInv, Requested, Grows, Request
<1>3. ASSUME req[q].at = "listed" PROVE ListHolds(req[q].ids, rows', log', dropped')
  <2>1. ListHolds(req[q].ids, rows, log, dropped)
    BY <1>3 DEF IInv, Reads
  <2> QED BY <2>1, ListLasts DEF Grows
<1>4. ASSUME req[q].at = "loaded"
      PROVE  Faithful(req[q].read, req[q].from, log', dropped')
  <2>1. Faithful(req[q].read, req[q].from, log, dropped) /\ req[q].from >= 1
    BY <1>4 DEF IInv, Reads
  <2>2. req[q].from \in Nat /\ req[q].from <= Len(log)
    BY <1>1 DEF IInv, Requested, Request
  <2> QED BY <2>1, <2>2, FaithLasts DEF Grows
<1> QED BY <1>2, <1>3, <1>4 DEF IInv, Reads

\* And so does what a replica serves from, and if it goes down nothing is claimed.
LEMMA ReplicaLasts ==
    ASSUME IInv, Grows, NEW r \in Replicas,
           snapshot'[r] \in {snapshot[r], Down}, asOf'[r] = asOf[r],
           promised'[r] = promised[r], r \in overtaken => r \in overtaken'
    PROVE  Serves(r)'
<1>1. asOf[r] \in Nat /\ asOf[r] >= 1 /\ asOf[r] <= Len(log)
  BY DEF IInv, Typed, Grows
<1>2. ASSUME Faithful(snapshot[r], asOf[r], log, dropped)
      PROVE  Faithful(snapshot[r], asOf[r], log', dropped')
  BY <1>1, <1>2, FaithLasts DEF Grows
<1> QED BY <1>2 DEF IInv, Serves

-----------------------------------------------------------------------------
(* The steps.                                                              *)

\* Every replica begins with the groups there are.
LEMMA InitIInv == Init => IInv
<1> SUFFICES ASSUME Init PROVE IInv
  OBVIOUS
<1>1. PICK live \in SUBSET Names : rows \in [live -> [id: {0}, def: Bodies]]
  BY DEF Init
<1>2. rows \in [live -> [id: Nat, def: Definition]]
  BY <1>1, Definitions
<1>3. rows \in Tables /\ \A n \in DOMAIN rows : rows[n].id = 0
  BY <1>1, <1>2, TableMade
<1>4. View(rows) \in Databases
  BY <1>3, TableShape
<1>5. log = <<View(rows)>> /\ log \in Seq(Databases) /\ Len(log) = 1
      /\ log # <<>> /\ log[1] = View(rows)
  BY <1>4 DEF Init
<1>6. req \in [Requests -> Request] /\ \A q \in Requests : req[q] = NewRequest
  BY RequestTypes DEF Init
<1>7. snapshot \in [Replicas -> Databases \cup {Down}]
  BY <1>4 DEF Init
<1>8. Typed
  BY <1>3, <1>5, <1>6, <1>7 DEF Init, Typed
<1>9. \A q \in Requests : Requested(q) /\ Reads(q)
  BY <1>5, <1>6, RequestTypes, EmptyTypes DEF Requested, Reads
<1>10. Faithful(View(rows), 1, log, dropped)
  BY <1>5 DEF Faithful, ListedBy
<1>11. \A r \in Replicas : Serves(r)
  BY <1>10 DEF Init, Serves
<1> QED BY <1>5, <1>8, <1>9, <1>11 DEF IInv, Current

\* A step that leaves the database, and of the replicas at most takes some down.
LEMMA QuietStep ==
    ASSUME IInv, UNCHANGED <<rows, log, dropped, asOf, promised, overtaken>>,
           req' \in [Requests -> Request],
           \A q \in Requests : req'[q] = req[q] \/ (Requested(q)' /\ Reads(q)'),
           snapshot' \in [Replicas -> Databases \cup {Down}],
           \A r \in Replicas : snapshot'[r] \in {snapshot[r], Down}
    PROVE  IInv'
<1>1. Grows
  BY StillGrows DEF IInv
<1>2. Typed' /\ Current'
  BY DEF IInv, Typed, Current, View
<1>3. \A q \in Requests : Requested(q)' /\ Reads(q)'
  BY <1>1, RequestLasts
<1>4. \A r \in Replicas : Serves(r)'
  BY <1>1, ReplicaLasts
<1> QED BY <1>2, <1>3, <1>4 DEF IInv

\* A step of one request that leaves everything else.
LEMMA OneMoves ==
    ASSUME IInv, UNCHANGED <<rows, log, dropped, snapshot, asOf, promised, overtaken>>,
           NEW q \in Requests, NEW next \in Request, req' = [req EXCEPT ![q] = next],
           next.own <= Len(log), next.from <= Len(log),
           next.at \notin {"new", "answered"} => next.replica \in Replicas,
           next.at \in {"new", "committed", "booting"} => DOMAIN next.read = {},
           next.at = "listed" => ListHolds(next.ids, rows, log, dropped),
           next.at = "loaded" =>
               /\ next.from >= 1 /\ next.own <= next.from
               /\ Faithful(next.read, next.from, log, dropped)
    PROVE  IInv'
<1>1. req \in [Requests -> Request]
  BY DEF IInv, Typed
<1>2. req' \in [Requests -> Request] /\ req'[q] = next
      /\ \A p \in Requests \ {q} : req'[p] = req[p]
  BY <1>1
<1>3. Requested(q)' /\ Reads(q)'
  BY <1>2 DEF Requested, Reads
<1>4. snapshot' \in [Replicas -> Databases \cup {Down}]
  BY DEF IInv, Typed
<1> QED BY <1>2, <1>3, <1>4, QuietStep

\* A request is answered without having changed anything.
LEMMA AnswerStep ==
    ASSUME IInv, UNCHANGED <<rows, log, dropped, snapshot, asOf, promised, overtaken>>,
           NEW q \in Requests, req' = [req EXCEPT ![q] = Answered]
    PROVE  IInv'
<1>1. Len(log) \in Nat
  BY DEF IInv, Typed
<1>2. 0 <= Len(log)
  BY <1>1
<1> QED BY <1>2, RequestTypes, OneMoves

\* A transaction commits: no group changes its id, and those that go are noted.
LEMMA CommitStep ==
    ASSUME IInv, NEW q \in Requests, NEW r \in Replicas, NEW table \in Tables,
           \A n \in DOMAIN table : table[n].id <= Len(log),
           Commit(q, r, table),
           dropped \subseteq dropped', dropped' \subseteq Names,
           \A n \in DOMAIN rows :
               n \in dropped' \/ (n \in DOMAIN table /\ table[n].id = rows[n].id)
    PROVE  IInv'
<1> DEFINE next == [NewRequest EXCEPT !.at = "committed", !.replica = r,
                                      !.own = Len(log) + 1]
<1>1. log \in Seq(Databases) /\ Len(log) \in Nat /\ log # <<>>
  BY DEF IInv, Typed
<1>2. View(table) \in Databases
  BY TableShape
<1>3. log' = Append(log, View(table)) /\ rows' = table
  BY DEF Commit
<1>4. /\ log' \in Seq(Databases) /\ log' # <<>> /\ Len(log') = Len(log) + 1
      /\ log'[Len(log) + 1] = View(table)
      /\ \A j \in 1..Len(log) : log'[j] = log[j]
  BY <1>1, <1>2, <1>3
<1>5. Grows
  BY <1>1, <1>3, <1>4 DEF Grows
<1>6. /\ next \in Request /\ next.at = "committed" /\ next.replica = r
      /\ next.own = Len(log) + 1 /\ next.from = 0 /\ next.read = <<>>
  <2>1. Len(log) + 1 \in Nat
    BY <1>1
  <2>2. next \in Request
    BY <2>1, RequestTypes DEF Request
  <2>3. next.at = "committed" /\ next.replica = r /\ next.own = Len(log) + 1
    BY DEF NewRequest
  <2>4. next.from = 0 /\ next.read = <<>>
    BY DEF NewRequest
  <2> QED BY <2>2, <2>3, <2>4
<1>7. req' = [req EXCEPT ![q] = next] /\ req \in [Requests -> Request]
  BY DEF Commit, IInv, Typed
<1> HIDE DEF next
<1>8. req' \in [Requests -> Request] /\ req'[q] = next
      /\ \A p \in Requests \ {q} : req'[p] = req[p]
  BY <1>6, <1>7
<1>9. /\ asOf' \in [Replicas -> 1..Len(log')] /\ promised' \in [Replicas -> 0..Len(log')]
      /\ snapshot' = snapshot /\ asOf' = asOf /\ promised' = promised
      /\ overtaken' = overtaken
  BY <1>1, <1>4 DEF Commit, IInv, Typed
<1>10. \A n \in DOMAIN rows' : rows'[n].id <= Len(log')
  <2>1. ASSUME NEW n \in DOMAIN table PROVE table[n].id <= Len(log) + 1
    <3>1. table[n].id \in Nat
      BY TableShape
    <3> QED BY <1>1, <3>1
  <2> QED BY <1>3, <1>4, <2>1
<1>11. Typed'
  BY <1>3, <1>4, <1>8, <1>9, <1>10 DEF IInv, Typed
<1>12. Current'
  BY <1>3, <1>4 DEF Current, View
<1>13. Requested(q)' /\ Reads(q)'
  BY <1>1, <1>4, <1>6, <1>8, EmptyTypes DEF Requested, Reads
<1>14. \A p \in Requests : Requested(p)' /\ Reads(p)'
  BY <1>5, <1>8, <1>13, RequestLasts
<1>15. \A s \in Replicas : Serves(s)'
  BY <1>5, <1>9, ReplicaLasts
<1> QED BY <1>11, <1>12, <1>14, <1>15 DEF IInv

\* The management requests, up to the commit.
LEMMA WritingStep ==
    ASSUME IInv, NEW q \in Requests, Write(q)
    PROVE  IInv'
<1>1. /\ rows \in Tables /\ DOMAIN rows \subseteq Names
      /\ rows \in [DOMAIN rows -> [id: Nat, def: Definition]]
      /\ \A n \in DOMAIN rows : rows[n].id <= Len(log)
      /\ Len(log) \in Nat /\ dropped \subseteq Names
  BY TableShape DEF IInv, Typed
<1>2. ASSUME NEW r \in Replicas, NEW n \in Names, NEW body \in Bodies, Create(q, r, n, body)
      PROVE  IInv'
  <2> DEFINE table == [m \in DOMAIN rows \cup {n} |->
                          IF m = n THEN [id |-> Len(log), def |-> body] ELSE rows[m]]
  <2>1. table \in [DOMAIN rows \cup {n} -> [id: Nat, def: Definition]]
    <3>1. [id |-> Len(log), def |-> body] \in [id: Nat, def: Definition]
      BY <1>1, Definitions
    <3> QED BY <1>1, <3>1
  <2>2. table \in Tables
    BY <1>1, <2>1, TableMade
  <2>3. \A m \in DOMAIN table : table[m].id <= Len(log)
    BY <1>1
  <2>4. \A m \in DOMAIN rows : m \in DOMAIN table /\ table[m].id = rows[m].id
    BY <1>2 DEF Create
  <2>5. Commit(q, r, table) /\ dropped' = dropped
    BY <1>2 DEF Create
  <2> HIDE DEF table
  <2> QED BY <1>1, <2>2, <2>3, <2>4, <2>5, CommitStep
<1>3. ASSUME NEW r \in Replicas, NEW n \in Names, FindForUpdate(q, r, n) PROVE IInv'
  <2> DEFINE ids == [m \in {n} |-> rows[m].id]
             next == [NewRequest EXCEPT !.at = "found", !.replica = r, !.name = n,
                                        !.ids = ids]
  <2>1. ids \in Listings
    <3>1. ids \in [{n} -> Nat]
      BY <1>1, <1>3 DEF FindForUpdate
    <3> QED BY <3>1, ListingMade
  <2> HIDE DEF ids
  <2>2. next \in Request
    BY <2>1, RequestTypes DEF Request
  <2>3. next.at = "found" /\ next.replica = r /\ next.own = 0 /\ next.from = 0
    BY DEF NewRequest
  <2>4. req' = [req EXCEPT ![q] = next]
        /\ UNCHANGED <<rows, log, dropped, snapshot, asOf, promised, overtaken>>
    BY <1>3 DEF FindForUpdate, ids
  <2>5. next.own <= Len(log) /\ next.from <= Len(log)
    BY <1>1, <2>3
  <2> HIDE DEF next
  <2> QED BY <2>2, <2>3, <2>4, <2>5, OneMoves
<1>4. ASSUME req[q].at = "found", Commit(q, req[q].replica, rows), dropped' = dropped
      PROVE  IInv'
  <2>1. req[q].replica \in Replicas
    BY <1>4 DEF IInv, Requested
  <2> QED BY <1>1, <1>4, <2>1, CommitStep
<1>5. ASSUME NEW body \in Bodies, Update(q, body) PROVE IInv'
  <2>1. req[q].at = "found" /\ dropped' = dropped /\ req[q].replica \in Replicas
    BY <1>5 DEF Update, IInv, Requested
  <2>2. ASSUME Holds(q, req[q].name),
               Commit(q, req[q].replica, [rows EXCEPT ![req[q].name].def = body])
        PROVE  IInv'
    <3> DEFINE n == req[q].name
               table == [rows EXCEPT ![n].def = body]
    <3>1. n \in DOMAIN rows
      BY <2>2 DEF Holds
    <3>2. table \in [DOMAIN rows -> [id: Nat, def: Definition]]
      <4>1. [rows[n] EXCEPT !.def = body] \in [id: Nat, def: Definition]
        BY <1>1, <3>1, Definitions
      <4> QED BY <1>1, <4>1
    <3>3. table \in Tables
      BY <1>1, <3>2, TableMade
    <3>4. \A m \in DOMAIN rows : m \in DOMAIN table /\ table[m].id = rows[m].id
      BY <1>1, <3>1
    <3>5. \A m \in DOMAIN table : table[m].id <= Len(log)
      BY <1>1, <3>4
    <3>6. Commit(q, req[q].replica, table)
      BY <2>2
    <3>7. dropped \subseteq dropped' /\ dropped' \subseteq Names
      BY <1>1, <2>1
    <3> HIDE DEF table
    <3> QED BY <2>1, <3>3, <3>4, <3>5, <3>6, <3>7, CommitStep
  <2>3. ASSUME ~Holds(q, req[q].name), req' = [req EXCEPT ![q] = Answered],
               UNCHANGED <<rows, log, snapshot, asOf, promised, overtaken>>
        PROVE  IInv'
    BY <2>1, <2>3, AnswerStep
  <2> QED BY <1>4, <1>5, <2>1, <2>2, <2>3 DEF Update
<1>6. ASSUME Describe(q) PROVE IInv'
  BY <1>4, <1>6 DEF Describe
<1>7. ASSUME NEW r \in Replicas, NEW n \in Names, Delete(q, r, n) PROVE IInv'
  <2> DEFINE table == [m \in DOMAIN rows \ {n} |-> rows[m]]
  <2>1. table \in [DOMAIN rows \ {n} -> [id: Nat, def: Definition]]
    BY <1>1
  <2>2. table \in Tables
    BY <1>1, <2>1, TableMade
  <2>3. \A m \in DOMAIN table : table[m].id <= Len(log)
    BY <1>1
  <2>4. \A m \in DOMAIN rows \ {n} : m \in DOMAIN table /\ table[m].id = rows[m].id
    OBVIOUS
  <2>5. Commit(q, r, table) /\ dropped' = dropped \cup {n}
    BY <1>7 DEF Delete
  <2> HIDE DEF table
  <2> QED BY <1>1, <2>2, <2>3, <2>4, <2>5, CommitStep
<1> QED BY <1>2, <1>3, <1>5, <1>6, <1>7 DEF Write

\* The second query finds the definition of a listed group, or that it is gone.
LEMMA LoadIsFaithful ==
    ASSUME IInv, NEW q \in Requests, req[q].at = "listed",
           NEW read, read = [n \in DOMAIN req[q].ids |->
                                IF Holds(q, n) THEN rows[n].def ELSE NoServers]
    PROVE  read \in Databases /\ Faithful(read, Len(log), log, dropped)
<1>1. req[q].ids \in Listings /\ rows \in Tables /\ dropped \subseteq Names
      /\ Len(log) \in Nat
  BY DEF IInv, Typed, Request
<1>2. ListHolds(req[q].ids, rows, log, dropped)
  BY DEF IInv, Reads
<1>3. PICK names \in SUBSET Names : req[q].ids \in [names -> Nat]
  BY <1>1 DEF Listings
<1>4. DOMAIN read = names
  BY <1>3
<1>5. ASSUME NEW n \in names, Holds(q, n)
      PROVE  /\ read[n] = rows[n].def /\ rows[n].def \in Definition
             /\ n \in DOMAIN log[Len(log)] /\ read[n] = log[Len(log)][n]
  <2>1. n \in DOMAIN rows /\ read[n] = rows[n].def
    BY <1>3, <1>5 DEF Holds
  <2>2. rows[n].def \in Definition
    BY <1>1, <2>1, TableShape
  <2>3. DOMAIN View(rows) = DOMAIN rows /\ View(rows)[n] = rows[n].def
    BY <1>1, <2>1, TableShape
  <2>4. log[Len(log)] = View(rows)
    BY DEF IInv, Current
  <2> QED BY <2>1, <2>2, <2>3, <2>4
<1>6. ASSUME NEW n \in names, ~Holds(q, n)
      PROVE  read[n] = NoServers /\ n \in dropped
  BY <1>2, <1>3, <1>6 DEF ListHolds, Holds
<1>7. read \in [names -> Definition]
  BY <1>3, <1>5, <1>6, Definitions
<1>8. read \in Databases
  BY <1>7, DatabaseMade
<1>9. ListedBy(DOMAIN read, Len(log), log)
  BY <1>2, <1>3, <1>4 DEF ListHolds
<1>10. \A n \in DOMAIN read :
          \/ n \in dropped /\ read[n] = NoServers
          \/ n \in DOMAIN log[Len(log)] /\ read[n] = log[Len(log)][n]
  BY <1>4, <1>5, <1>6
<1> QED BY <1>8, <1>9, <1>10 DEF Faithful

\* The refresh, from the list to the new snapshot.
LEMMA RefreshStep ==
    ASSUME IInv, NEW q \in Requests, Refresh(q)
    PROVE  IInv'
<1>1. /\ req[q] \in Request /\ rows \in Tables /\ Len(log) \in Nat /\ Len(log) >= 1
      /\ req \in [Requests -> Request] /\ log \in Seq(Databases)
      /\ snapshot \in [Replicas -> Databases \cup {Down}]
      /\ asOf \in [Replicas -> 1..Len(log)] /\ promised \in [Replicas -> 0..Len(log)]
  BY DEF IInv, Typed
<1>2. req[q].own \in Nat /\ req[q].from \in Nat /\ req[q].read \in Databases
  BY <1>1 DEF Request
<1>3. /\ req[q].own <= Len(log) /\ req[q].from <= Len(log)
      /\ req[q].at \notin {"new", "answered"} => req[q].replica \in Replicas
      /\ req[q].at \in {"new", "committed", "booting"} => DOMAIN req[q].read = {}
  BY DEF IInv, Requested
<1>4. ASSUME ListGroups(q) PROVE IInv'
  <2> DEFINE ids == [n \in DOMAIN rows |-> rows[n].id]
             at == IF DOMAIN rows = {} THEN "loaded" ELSE "listed"
             from == IF DOMAIN rows = {} THEN Len(log) ELSE 0
             next == [req[q] EXCEPT !.at = at, !.ids = ids, !.from = from]
  <2>1. ids \in Listings
    <3>1. rows \in [DOMAIN rows -> [id: Nat, def: Definition]] /\ DOMAIN rows \subseteq Names
      BY <1>1, TableShape
    <3>2. ids \in [DOMAIN rows -> Nat]
      BY <3>1
    <3> QED BY <3>1, <3>2, ListingMade
  <2>2. log[Len(log)] = View(rows) /\ DOMAIN View(rows) = DOMAIN rows
    BY <1>1, TableShape DEF IInv, Current
  <2>3. DOMAIN ids = DOMAIN rows /\ \A n \in DOMAIN rows : ids[n] = rows[n].id
    OBVIOUS
  <2>4. ListHolds(ids, rows, log, dropped)
    BY <1>1, <2>2, <2>3 DEF ListHolds, ListedBy
  <2> HIDE DEF ids
  <2>5. at \in {"loaded", "listed"} /\ from \in Nat /\ from <= Len(log)
    BY <1>1
  <2>6. DOMAIN req[q].read = {} /\ req[q].replica \in Replicas
    BY <1>3, <1>4 DEF ListGroups
  <2>7. ASSUME at = "loaded"
        PROVE  from = Len(log) /\ Faithful(req[q].read, from, log, dropped)
    <3>1. DOMAIN rows = {} /\ from = Len(log)
      BY <2>7
    <3> QED BY <1>1, <2>2, <2>6, <3>1 DEF Faithful, ListedBy
  <2>8. req' = [req EXCEPT ![q] = next]
        /\ UNCHANGED <<rows, log, dropped, snapshot, asOf, promised, overtaken>>
    BY <1>4 DEF ListGroups, ids
  <2> HIDE DEF at, from
  <2>9. next \in Request
    BY <1>1, <2>1, <2>5 DEF Request
  <2>10. /\ next.at = at /\ next.ids = ids /\ next.from = from /\ next.own = req[q].own
         /\ next.read = req[q].read /\ next.replica = req[q].replica
    BY <1>1 DEF Request
  <2> HIDE DEF next
  <2> QED BY <1>1, <1>2, <1>3, <2>4, <2>5, <2>6, <2>7, <2>8, <2>9, <2>10, OneMoves
<1>5. ASSUME LoadServersByGroupId(q) PROVE IInv'
  <2> DEFINE read == [n \in DOMAIN req[q].ids |->
                         IF Holds(q, n) THEN rows[n].def ELSE NoServers]
             next == [req[q] EXCEPT !.at = "loaded", !.from = Len(log), !.read = read]
  <2>1. req[q].at = "listed" /\ req[q].replica \in Replicas
    BY <1>3, <1>5 DEF LoadServersByGroupId
  <2>2. read \in Databases /\ Faithful(read, Len(log), log, dropped)
    BY <2>1, LoadIsFaithful
  <2>3. req' = [req EXCEPT ![q] = next]
        /\ UNCHANGED <<rows, log, dropped, snapshot, asOf, promised, overtaken>>
    BY <1>5 DEF LoadServersByGroupId
  <2> HIDE DEF read
  <2>4. next \in Request
    BY <1>1, <2>2 DEF Request
  <2>5. /\ next.at = "loaded" /\ next.from = Len(log) /\ next.own = req[q].own
        /\ next.read = read /\ next.replica = req[q].replica
    BY <1>1 DEF Request
  <2> HIDE DEF next
  <2>6. Faithful(next.read, next.from, log, dropped)
    BY <2>2, <2>5
  <2>7. /\ next.own <= Len(log) /\ next.from <= Len(log)
        /\ next.from >= 1 /\ next.own <= next.from
    BY <1>1, <1>2, <1>3, <2>5
  <2> QED BY <2>1, <2>3, <2>4, <2>5, <2>6, <2>7, OneMoves
<1>6. ASSUME Replace(q) PROVE IInv'
  <2> PICK r \in Replicas : r = req[q].replica
    BY <1>3, <1>6 DEF Replace
  <2>1. /\ req[q].at = "loaded"
        /\ req[q].from >= 1 /\ req[q].own <= req[q].from
        /\ Faithful(req[q].read, req[q].from, log, dropped)
    BY <1>3, <1>6 DEF Replace, IInv, Reads
  <2>2. /\ UNCHANGED <<rows, log, dropped>>
        /\ snapshot' = [snapshot EXCEPT ![r] = req[q].read]
        /\ asOf' = [asOf EXCEPT ![r] = req[q].from]
        /\ overtaken' = IF req[q].from < asOf[r] THEN overtaken \cup {r} ELSE overtaken
        /\ req' = [req EXCEPT ![q] = Answered]
        /\ promised' = IF req[q].own > promised[r] THEN [promised EXCEPT ![r] = req[q].own]
                       ELSE promised
    BY <1>6 DEF Replace
  <2>3. Grows
    BY <2>2, StillGrows DEF IInv
  <2>4. req' \in [Requests -> Request] /\ req'[q] = Answered
        /\ \A p \in Requests \ {q} : req'[p] = req[p]
    BY <1>1, <2>2, RequestTypes
  <2>5. /\ snapshot' \in [Replicas -> Databases \cup {Down}]
        /\ asOf' \in [Replicas -> 1..Len(log)]
        /\ promised' \in [Replicas -> 0..Len(log)] /\ overtaken' \subseteq Replicas
    BY <1>1, <1>2, <1>3, <2>1, <2>2 DEF IInv, Typed
  <2>6. Typed' /\ Current'
    BY <2>2, <2>4, <2>5 DEF IInv, Typed, Current, View
  <2>7. Requested(q)' /\ Reads(q)'
    BY <1>1, <2>2, <2>4, RequestTypes DEF Requested, Reads
  <2>8. \A p \in Requests : Requested(p)' /\ Reads(p)'
    BY <2>3, <2>4, <2>7, RequestLasts
  <2>9. \A s \in Replicas \ {r} : Serves(s)'
    <3>1. ASSUME NEW s \in Replicas \ {r}
          PROVE  /\ snapshot'[s] = snapshot[s] /\ asOf'[s] = asOf[s]
                 /\ promised'[s] = promised[s] /\ overtaken \subseteq overtaken'
      BY <1>1, <2>2
    <3> QED BY <2>3, <3>1, ReplicaLasts
  <2>10. Serves(r)'
    <3>1. snapshot'[r] = req[q].read /\ asOf'[r] = req[q].from
      BY <1>1, <2>1, <2>2
    <3>2. asOf'[r] >= promised'[r] \/ r \in overtaken'
      <4>1. /\ promised[r] \in Nat /\ asOf[r] \in Nat
            /\ promised'[r] \in {promised[r], req[q].own}
        BY <1>1, <2>1, <2>2
      <4>2. CASE req[q].from < asOf[r]
        BY <2>1, <2>2, <4>2
      <4>3. CASE ~(req[q].from < asOf[r])
        <5>1. overtaken' = overtaken
          BY <2>2, <4>3
        <5>2. asOf[r] >= promised[r] \/ r \in overtaken
          BY <2>1 DEF IInv, Serves
        <5> QED BY <1>2, <2>1, <3>1, <4>1, <4>3, <5>1, <5>2
      <4> QED BY <4>2, <4>3
    <3> QED BY <2>1, <2>2, <3>1, <3>2 DEF Serves
  <2> QED BY <2>6, <2>8, <2>9, <2>10 DEF IInv
<1>7. ASSUME RefreshFails(q) PROVE IInv'
  BY <1>7, AnswerStep DEF RefreshFails
<1> QED BY <1>4, <1>5, <1>6, <1>7 DEF Refresh

\* A replica dies with its requests and boots.
LEMMA RestartStep ==
    ASSUME IInv, NEW q \in Requests, NEW r \in Replicas, Restart(q, r)
    PROVE  IInv'
<1>1. /\ req \in [Requests -> Request] /\ Len(log) \in Nat
      /\ snapshot \in [Replicas -> Databases \cup {Down}]
  BY DEF IInv, Typed
<1> DEFINE next == [req[q] EXCEPT !.at = "booting", !.replica = r]
<1>2. req[q].at = "new" /\ req[q] \in Request
  BY <1>1 DEF Restart
<1>3. req[q].own <= Len(log) /\ req[q].from <= Len(log) /\ DOMAIN req[q].read = {}
  BY <1>2 DEF IInv, Requested
<1>4. next \in Request
  BY <1>2 DEF Request
<1>5. /\ next.at = "booting" /\ next.replica = r /\ next.own = req[q].own
      /\ next.from = req[q].from /\ next.read = req[q].read
  BY <1>2 DEF Request
<1>6. /\ req' = [p \in Requests |-> IF p = q THEN next
                                   ELSE IF req[p].replica = r THEN Answered ELSE req[p]]
      /\ snapshot' = [snapshot EXCEPT ![r] = Down]
      /\ UNCHANGED <<rows, log, dropped, asOf, promised, overtaken>>
  BY DEF Restart
<1> HIDE DEF next
<1>7. req' \in [Requests -> Request] /\ req'[q] = next
  BY <1>1, <1>4, <1>6, RequestTypes
<1>8. Requested(q)' /\ Reads(q)'
  BY <1>3, <1>5, <1>6, <1>7 DEF Requested, Reads
<1>9. ASSUME NEW p \in Requests, p # q, req[p].replica = r
      PROVE  Requested(p)' /\ Reads(p)'
  <2>1. req'[p] = Answered
    BY <1>6, <1>9
  <2> QED BY <1>1, <1>6, <2>1, RequestTypes DEF Requested, Reads
<1>10. ASSUME NEW p \in Requests, p # q, req[p].replica # r PROVE req'[p] = req[p]
  BY <1>6, <1>10
<1>11. snapshot' \in [Replicas -> Databases \cup {Down}]
       /\ \A s \in Replicas : snapshot'[s] \in {snapshot[s], Down}
  BY <1>1, <1>6
<1> QED BY <1>6, <1>7, <1>8, <1>9, <1>10, <1>11, QuietStep

\* Every step.
LEMMA NextIInv == IInv /\ [Next]_vars => IInv'
<1> SUFFICES ASSUME IInv, [Next]_vars PROVE IInv'
  OBVIOUS
<1>1. CASE UNCHANGED vars
  BY <1>1 DEF vars, IInv, Typed, Current, View, Requested, Reads, Serves
<1>2. ASSUME NEW q \in Requests, Write(q) PROVE IInv'
  BY <1>2, WritingStep
<1>3. ASSUME NEW q \in Requests, Refresh(q) PROVE IInv'
  BY <1>3, RefreshStep
<1>4. ASSUME NEW q \in Requests, NEW r \in Replicas, Restart(q, r) PROVE IInv'
  BY <1>4, RestartStep
<1> QED BY <1>1, <1>2, <1>3, <1>4 DEF Next

-----------------------------------------------------------------------------
(* What the invariant says.                                                *)

\* The invariant gives each variable its type.
LEMMA InvTypes == IInv => TypeOK
<1> SUFFICES ASSUME IInv PROVE TypeOK
  OBVIOUS
<1>1. Typed /\ Len(log) \in Nat
  BY DEF IInv, Typed
<1>2. rows \in Tables /\ IsSnapshot(View(rows))
  BY <1>1, TableShape, DatabaseShape DEF Typed
<1>3. \A n \in DOMAIN rows : rows[n].id \in 0..Len(log)
  <2>1. ASSUME NEW n \in DOMAIN rows PROVE rows[n].id \in Nat
    BY <1>2, TableShape
  <2> QED BY <1>1, <2>1 DEF Typed
<1>4. ASSUME NEW q \in Requests
      PROVE  /\ req[q].at \in {"new", "found", "committed", "booting", "listed",
                               "loaded", "answered"}
             /\ req[q].replica \in Replicas \cup {Down}
             /\ req[q].own \in 0..Len(log) /\ req[q].from \in 0..Len(log)
             /\ IsSnapshot(req[q].read)
  <2>1. req[q] \in Request /\ Requested(q)
    BY <1>1 DEF IInv, Typed
  <2> QED BY <1>1, <2>1, DatabaseShape DEF Request, Requested
<1>5. \A r \in Replicas : snapshot[r] = Down \/ IsSnapshot(snapshot[r])
  BY <1>1, DatabaseShape DEF Typed
<1> QED BY <1>1, <1>2, <1>3, <1>4, <1>5 DEF Typed, TypeOK

\* Two databases that hold all of the principal's groups, with the same
\* definitions, decide alike.
LEMMA AgreeingDecide ==
    ASSUME NEW known, NEW other, NEW groups, NEW s, NEW t,
           groups \subseteq DOMAIN known, groups \subseteq DOMAIN other,
           \A n \in groups : known[n] = other[n]
    PROVE  outcome(groups, known, s, t) = outcome(groups, other, s, t)
<1>1. groups \cap DOMAIN known = groups /\ groups \cap DOMAIN other = groups
  OBVIOUS
<1>2. {vote(known[n][s], t) : n \in groups} = {vote(other[n][s], t) : n \in groups}
  OBVIOUS
<1>3. evaluatePolicy(groups, known, s, t) = evaluatePolicy(groups, other, s, t)
  BY <1>1, <1>2 DEF evaluatePolicy
<1>4. isGatedToolForGroups(groups, known, s, t) <=> isGatedToolForGroups(groups, other, s, t)
  BY <1>1 DEF isGatedToolForGroups
<1> QED BY <1>3, <1>4 DEF outcome

\* A database that lacks one of the groups denies.
LEMMA MissingDenies ==
    ASSUME NEW known, NEW groups, NEW s, NEW t, ~(groups \subseteq DOMAIN known)
    PROVE  outcome(groups, known, s, t) = "denied"
<1>1. groups \cap DOMAIN known # groups
  OBVIOUS
<1> QED BY <1>1 DEF outcome, evaluatePolicy

\* A faithful snapshot decides as a commit did: as the one its definitions are
\* from when it has all of the groups, as the one its list is from otherwise.
LEMMA FaithfulDecides ==
    ASSUME NEW known, NEW i \in Nat, i >= 1, Faithful(known, i, log, dropped),
           NEW groups, \A n \in groups : ~Ghost(known, n), NEW s, NEW t
    PROVE  \E j \in 1..i : outcome(groups, known, s, t) = outcome(groups, log[j], s, t)
<1>1. CASE groups \subseteq DOMAIN known
  <2>1. \A n \in groups : n \in DOMAIN log[i] /\ known[n] = log[i][n]
    BY <1>1 DEF Faithful, Ghost
  <2>2. outcome(groups, known, s, t) = outcome(groups, log[i], s, t)
    BY <1>1, <2>1, AgreeingDecide
  <2> QED BY <2>2
<1>2. CASE ~(groups \subseteq DOMAIN known)
  <2>1. PICK j \in 1..i : DOMAIN known = DOMAIN log[j]
    BY DEF Faithful, ListedBy
  <2>2. outcome(groups, known, s, t) = "denied" /\ outcome(groups, log[j], s, t) = "denied"
    BY <1>2, <2>1, MissingDenies
  <2> QED BY <2>2
<1> QED BY <1>1, <1>2

\* And makes each decision that of a commit.
LEMMA InvDecides == IInv => DecidesAsCommitted
<1> SUFFICES ASSUME IInv, NEW r \in Replicas, NEW groups \in SUBSET Names,
                    NEW s \in Servers, NEW t \in Tools,
                    snapshot[r] # Down, \A n \in groups : ~Ghost(snapshot[r], n)
             PROVE  \E i \in 1..asOf[r] :
                        outcome(groups, snapshot[r], s, t) = outcome(groups, log[i], s, t)
  BY DEF DecidesAsCommitted
<1>1. Faithful(snapshot[r], asOf[r], log, dropped)
  BY DEF IInv, Serves
<1>2. asOf[r] \in Nat /\ asOf[r] >= 1
  BY DEF IInv, Typed
<1> QED BY <1>1, <1>2, FaithfulDecides

-----------------------------------------------------------------------------
(* The theorems.                                                           *)

\* Whatever requests and boots do between their queries (GroupPolicyService,
\* GroupPolicyCache.refresh), each snapshot is faithful to the commits it was
\* read at, and as new as the newest write its replica has answered.
THEOREM Invariance == Spec => []IInv
<1> QED BY InitIInv, NextIInv, PTL DEF Spec

\* The type invariant.
THEOREM TypeCorrect == Spec => []TypeOK
<1> QED BY Invariance, InvTypes, PTL

\* Every decision of callTool is one that the groups in the database called
\* for at some commit, unless a group of the principal was deleted between the
\* two queries of the refresh.
THEOREM CommittedDecisions == Spec => []DecidesAsCommitted
<1> QED BY Invariance, InvDecides, PTL

\* A management request that was answered as done is in the snapshot of its
\* replica, until a refresh that read before it replaces the snapshot after it.
THEOREM OwnWritesSeen == Spec => []SeesOwnWrites
<1>1. IInv => SeesOwnWrites
  BY DEF IInv, Serves, SeesOwnWrites
<1> QED BY <1>1, Invariance, PTL

=============================================================================
