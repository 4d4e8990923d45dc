------------------------ MODULE SubmissionMigration ------------------------
(***************************************************************************)
(* PrepareRuleSubmissionIdempotency of backend/internal/database: every    *)
(* server that starts runs it over the stored submissions, in one          *)
(* transaction, before it serves.  It gives a legacy row the digests it    *)
(* lacks, leaves the later ones of several identical pending requests      *)
(* without a request digest, and installs the partial unique index pending *)
(* replay relies on.  Several servers may start or serve at the same time  *)
(* and every one may stop at any point.                                    *)
(*                                                                         *)
(* A digest is a function of its row and is never wrong, so a row records  *)
(* only whether it has one.  A transaction holds what PostgreSQL makes it  *)
(* hold until its end: the rows it has updated, the table's ROW EXCLUSIVE  *)
(* lock from its first UPDATE on, ACCESS EXCLUSIVE once it has dropped an  *)
(* index; CREATE INDEX waits until no other transaction writes the table.  *)
(***************************************************************************)
EXTENDS Naturals, Sequences, FiniteSets

CONSTANTS
  Servers,      \* server processes
  Drafts,       \* drafts of rules
  LegacyRows,   \* how many rows the database may hold before the upgrade
  MaxRows,      \* bound on the rows of rule_submissions
  None          \* no failure

ASSUME BoundsAssumption ==
  /\ LegacyRows \in Nat
  /\ MaxRows \in Nat
  /\ LegacyRows <= MaxRows

Intents == [kind : {"create", "revision"}, draft : Drafts]

Row == [status : {"pending", "reviewed"}, intent : Intents,
        draftDigest : BOOLEAN, requestDigest : BOOLEAN]

VARIABLES
  rows,          \* rule_submissions, in the order of created_at and id
  draftIndex,    \* the unique index on pending draft digests is installed
  requestIndex,  \* the unique index on pending request digests is installed
  pc,            \* the next statement of each server
  snapshot,      \* the rows its preparation has loaded
  at,            \* the row its preparation looks at
  wrote,         \* digests it has written and not committed
  failure,       \* why its start was refused
  legacyTwins    \* the upgrade found identical pending requests

process == <<pc, snapshot, at, wrote, failure>>
stored  == <<rows, draftIndex, requestIndex>>
vars    == <<stored, process, legacyTwins>>

Digests  == {"draftDigest", "requestDigest"}
Failures == {"duplicate_request", "unique_index", "build_index",
             "deadlock", "db_error"}

ASSUME NoneAssumption == None \notin Failures

TypeOK ==
  /\ rows \in Seq(Row) /\ Len(rows) <= MaxRows
  /\ draftIndex \in BOOLEAN
  /\ requestIndex \in BOOLEAN
  /\ pc \in [Servers -> {"down", "drop", "scan", "index", "serving"}]
  /\ snapshot \in [Servers -> Seq(Row)]
  /\ at \in [Servers -> 1..(MaxRows + 1)]
  /\ wrote \in [Servers -> SUBSET ((1..MaxRows) \X Digests)]
  /\ failure \in [Servers -> Failures \cup {None}]
  /\ legacyTwins \in BOOLEAN

Pending(row) == row.status = "pending"

\* No two pending rows of t claim the same request.
UniqueRequests(t) ==
  \A i, j \in DOMAIN t :
    /\ Pending(t[i]) /\ Pending(t[j])
    /\ t[i].requestDigest /\ t[j].requestDigest
    /\ t[i].intent = t[j].intent
    => i = j

(***************************************************************************)
(* Locks.                                                                  *)
(***************************************************************************)
Open(q)     == pc[q] \in {"drop", "scan", "index"}
Excludes(q) == draftIndex /\ pc[q] \in {"scan", "index"}

TableFree(p)  == \A q \in Servers \ {p} : ~Excludes(q)
NoWriter(p)   == \A q \in Servers \ {p} : ~Open(q)
RowFree(p, i) == \A q \in Servers \ {p} : \A d \in Digests : <<i, d>> \notin wrote[q]

\* No other transaction has a pending request digest of this intent in hand.
KeyFree(p, intent) ==
  requestIndex =>
    \A q \in Servers \ {p} : \A i \in DOMAIN rows :
      <<i, "requestDigest">> \in wrote[q] /\ Pending(rows[i])
        => rows[i].intent # intent

(***************************************************************************)
(* One preparation.                                                        *)
(***************************************************************************)
Leave(p, next, why) ==
  /\ pc' = [pc EXCEPT ![p] = next]
  /\ failure' = [failure EXCEPT ![p] = why]
  /\ snapshot' = [snapshot EXCEPT ![p] = <<>>]
  /\ at' = [at EXCEPT ![p] = 1]
  /\ wrote' = [wrote EXCEPT ![p] = {}]

\* Mutant: a preparation that is refused is tried again.
RefuseAndRetry(p, why) ==
  Leave(p, "drop", why) /\ UNCHANGED <<stored, legacyTwins>>

\* Any error rolls the transaction back and ends the process.
Refuse(p, why) == Leave(p, "down", why) /\ UNCHANGED <<stored, legacyTwins>>

\* The UPDATE of blank kinds opens the transaction; no row has a blank kind
\* once the column exists, because its default is "create".
Begin(p) ==
  /\ pc[p] = "down"
  /\ TableFree(p)
  /\ Leave(p, "drop", None)
  /\ UNCHANGED <<stored, legacyTwins>>

\* DROP INDEX IF EXISTS and the load of every row.
Load(p) ==
  /\ pc[p] = "drop"
  /\ TableFree(p)
  /\ draftIndex => NoWriter(p)
  /\ pc' = [pc EXCEPT ![p] = "scan"]
  /\ snapshot' = [snapshot EXCEPT ![p] = rows]
  /\ UNCHANGED <<stored, at, wrote, failure, legacyTwins>>

\* An earlier pending row of the snapshot has the request of row i.
Twin(t, i) ==
  /\ Pending(t[i])
  /\ \E j \in 1..(i - 1) : Pending(t[j]) /\ t[j].intent = t[i].intent

\* Mutant: twins get a request digest too.
LackingAll(t, i) == {d \in Digests : ~t[i][d]}

\* Mutant: only pending rows get a request digest.
LackingPending(t, i) ==
  {d \in Digests : ~t[i][d]
                   /\ (d = "requestDigest" => Pending(t[i]) /\ ~Twin(t, i))}

\* The digests a preparation with snapshot t writes into row i.
Lacking(t, i) ==
  {d \in Digests : ~t[i][d] /\ (d = "requestDigest" => ~Twin(t, i))}

DuplicateRequest(p) ==
  snapshot[p][at[p]].requestDigest /\ Twin(snapshot[p], at[p])

\* The unique index already has a pending row of this request.
KeyTaken(p) ==
  /\ requestIndex
  /\ "requestDigest" \in Lacking(snapshot[p], at[p])
  /\ Pending(rows[at[p]])
  /\ \E j \in DOMAIN rows \ {at[p]} :
       /\ Pending(rows[j]) /\ rows[j].requestDigest
       /\ rows[j].intent = rows[at[p]].intent

\* Its statements for one row have the locks they need.
Reaches(p) ==
  /\ pc[p] = "scan"
  /\ at[p] <= Len(snapshot[p])
  /\ Lacking(snapshot[p], at[p]) # {} => RowFree(p, at[p])
  /\ "requestDigest" \in Lacking(snapshot[p], at[p])
       => KeyFree(p, rows[at[p]].intent)

PrepareRow(p) ==
  /\ Reaches(p)
  /\ ~DuplicateRequest(p) /\ ~KeyTaken(p)
  /\ wrote' = [wrote EXCEPT ![p] =
       @ \cup ({at[p]} \X Lacking(snapshot[p], at[p]))]
  /\ at' = [at EXCEPT ![p] = @ + 1]
  /\ UNCHANGED <<stored, pc, snapshot, failure, legacyTwins>>

RefuseRow(p) ==
  /\ Reaches(p)
  /\ \/ DuplicateRequest(p) /\ Refuse(p, "duplicate_request")
     \/ KeyTaken(p)         /\ Refuse(p, "unique_index")

Scanned(p) ==
  /\ pc[p] = "scan"
  /\ at[p] > Len(snapshot[p])
  /\ pc' = [pc EXCEPT ![p] = "index"]
  /\ UNCHANGED <<stored, snapshot, at, wrote, failure, legacyTwins>>

\* Mutant: a preparation leaves no digest it has not computed itself.
PreparedAfresh(p) ==
  [i \in DOMAIN rows |->
     [rows[i] EXCEPT
        !.draftDigest   = <<i, "draftDigest">> \in wrote[p],
        !.requestDigest = <<i, "requestDigest">> \in wrote[p]]]

\* The table with what p has written.
Prepared(p) ==
  [i \in DOMAIN rows |->
     [rows[i] EXCEPT
        !.draftDigest   = @ \/ <<i, "draftDigest">> \in wrote[p],
        !.requestDigest = @ \/ <<i, "requestDigest">> \in wrote[p]]]

\* Mutant: the new index is forgotten.
CommitUnguarded(p) ==
  /\ pc[p] = "index"
  /\ NoWriter(p)
  /\ UniqueRequests(Prepared(p))
  /\ rows' = Prepared(p)
  /\ draftIndex' = FALSE
  /\ Leave(p, "serving", None)
  /\ UNCHANGED <<requestIndex, legacyTwins>>

\* Mutant: CREATE INDEX is skipped, with its lock, when the index is there.
CommitUnlocked(p) ==
  /\ pc[p] = "index"
  /\ requestIndex \/ NoWriter(p)
  /\ requestIndex \/ UniqueRequests(Prepared(p))
  /\ rows' = Prepared(p)
  /\ draftIndex' = FALSE
  /\ requestIndex' = TRUE
  /\ Leave(p, "serving", None)
  /\ UNCHANGED legacyTwins

\* CREATE UNIQUE INDEX IF NOT EXISTS, which fails when the rows it is built on
\* are not unique, and the commit; the server then serves.
Commit(p) ==
  /\ pc[p] = "index"
  /\ NoWriter(p)
  /\ IF requestIndex \/ UniqueRequests(Prepared(p))
     THEN /\ rows' = Prepared(p)
          /\ draftIndex' = FALSE
          /\ requestIndex' = TRUE
          /\ Leave(p, "serving", None)
          /\ UNCHANGED legacyTwins
     ELSE Refuse(p, "build_index")

\* What p waits for is held by q.
WaitsFor(p, q) ==
  \/ Open(q) /\ (pc[p] = "index" \/ (pc[p] = "drop" /\ draftIndex))
  \/ /\ pc[p] = "scan" /\ at[p] <= Len(snapshot[p])
     /\ \E d \in Digests : <<at[p], d>> \in wrote[q]

\* The database ends one of two transactions that wait for each other.
Deadlock(p) ==
  /\ \E q \in Servers \ {p} : WaitsFor(p, q) /\ WaitsFor(q, p)
  /\ Refuse(p, "deadlock")

DatabaseFails(p) == Open(p) /\ Refuse(p, "db_error")

\* The process ends, in the middle of its transaction or while it serves.
Stop(p) ==
  /\ pc[p] # "down"
  /\ Leave(p, "down", None)
  /\ UNCHANGED <<stored, legacyTwins>>

(***************************************************************************)
(* What a serving process does to the table.  The lookup of a create may   *)
(* be older than its insert, so only the index keeps a second row away.    *)
(***************************************************************************)
Create(p, intent) ==
  /\ pc[p] = "serving"
  /\ Len(rows) < MaxRows
  /\ TableFree(p) /\ KeyFree(p, intent)
  /\ requestIndex =>
       \A i \in DOMAIN rows :
         Pending(rows[i]) /\ rows[i].requestDigest => rows[i].intent # intent
  /\ rows' = Append(rows, [status |-> "pending", intent |-> intent,
                           draftDigest |-> TRUE, requestDigest |-> TRUE])
  /\ UNCHANGED <<draftIndex, requestIndex, process, legacyTwins>>

Review(p, i) ==
  /\ pc[p] = "serving"
  /\ TableFree(p) /\ RowFree(p, i)
  /\ Pending(rows[i])
  /\ rows' = [rows EXCEPT ![i].status = "reviewed"]
  /\ UNCHANGED <<draftIndex, requestIndex, process, legacyTwins>>

(***************************************************************************)
(* The specification.  A legacy table is one of no digests at all, or one  *)
(* the draft-digest release has prepared: of its pending rows with one     *)
(* draft the first has a digest, the index allows no second, and a row     *)
(* without a digest was a later one.                                       *)
(***************************************************************************)
LegacyRow == {r \in Row : r.intent.kind = "create" /\ ~r.requestDigest}

DigestedByDraft(t) ==
  /\ \A i, j \in DOMAIN t :
       /\ Pending(t[i]) /\ Pending(t[j])
       /\ t[i].draftDigest /\ t[j].draftDigest
       /\ t[i].intent = t[j].intent
       => i = j
  /\ \A i \in DOMAIN t : ~t[i].draftDigest =>
       \E j \in 1..(i - 1) : t[j].draftDigest /\ t[j].intent = t[i].intent

Init ==
  /\ \E n \in 0..LegacyRows : rows \in [1..n -> LegacyRow]
  /\ draftIndex \in BOOLEAN
  /\ IF draftIndex THEN DigestedByDraft(rows)
                   ELSE \A i \in DOMAIN rows : ~rows[i].draftDigest
  /\ requestIndex = FALSE
  /\ pc = [p \in Servers |-> "down"]
  /\ snapshot = [p \in Servers |-> <<>>]
  /\ at = [p \in Servers |-> 1]
  /\ wrote = [p \in Servers |-> {}]
  /\ failure = [p \in Servers |-> None]
  /\ legacyTwins = \E i \in DOMAIN rows : Twin(rows, i)

\* Statements of a preparation, and the database's resolution of a deadlock.
Prepare(p) ==
  \/ Load(p)
  \/ PrepareRow(p)
  \/ RefuseRow(p)
  \/ Scanned(p)
  \/ Commit(p)
  \/ Deadlock(p)

Next ==
  \E p \in Servers :
    \/ Begin(p)
    \/ Prepare(p)
    \/ DatabaseFails(p)
    \/ Stop(p)
    \/ \E intent \in Intents : Create(p, intent)
    \/ \E i \in DOMAIN rows : Review(p, i)

Spec == Init /\ [][Next]_vars

\* The database serves the waiters of a lock in turn.
FairSpec == Spec /\ \A p \in Servers : SF_vars(Prepare(p))

-----------------------------------------------------------------------------
\* Refusals the stored rows are the reason of.
DataRefusals == {"duplicate_request", "unique_index", "build_index"}

\* What the stored rows say refuses a start only when there were identical
\* pending requests before the upgrade and the upgrade has been committed:
\* the first preparation accepts every legacy table, and a table without twins
\* is accepted whatever servers do afterwards.
OnlyServedTwinsRefused ==
  \A p \in Servers :
    failure[p] \in DataRefusals => legacyTwins /\ requestIndex

\* While some server serves, no two pending submissions claim one request,
\* even while another server is preparing the table.
ServedRequestsUnique ==
  (\E p \in Servers : pc[p] = "serving") => UniqueRequests(rows)

\* "Existing non-null audit digests are verified, never rewritten", legacy rows
\* are preserved, and nothing changes a row's request or reopens its review.
DigestsNeverRewritten ==
  [][/\ Len(rows') >= Len(rows)
     /\ \A i \in DOMAIN rows :
          /\ rows'[i].intent = rows[i].intent
          /\ \A d \in Digests : rows[i][d] => rows'[i][d]
          /\ Pending(rows'[i]) => Pending(rows[i])]_rows

\* A committed preparation has given every row it read its digests, except the
\* later ones of identical pending requests.
PreparationComplete ==
  [][\A p \in Servers :
       pc[p] = "index" /\ pc'[p] = "serving" =>
         \A i \in DOMAIN snapshot[p] :
           /\ rows'[i].draftDigest
           /\ rows'[i].requestDigest \/ Twin(snapshot[p], i)]_vars

\* A row that lacked a digest when the preparation loaded it still lacks it:
\* no other preparation commits in between, so the check of RowsAffected after
\* an UPDATE ... WHERE request_digest IS NULL refuses no start.
UpdatesFindTheirRow ==
  \A p \in Servers : \A i \in DOMAIN snapshot[p] : \A d \in Digests :
    rows[i][d] => snapshot[p][i][d]

\* Every start ends: servers that start together do not wait for each other
\* for ever.
StartsEnd == \A p \in Servers : Open(p) ~> ~Open(p)

\* "Legacy exact duplicates do not prevent the new unique pending guard from
\* being installed": no start is refused because of them.
TwinsNeverRefused == \A p \in Servers : failure[p] \notin DataRefusals

=============================================================================
