---------------------- MODULE SubmissionMigrationProofs ----------------------
(***************************************************************************)
(* SubmissionMigration for any number of servers, any legacy table and any *)
(* length of it: digests are never rewritten, a preparation is complete,   *)
(* its updates find their rows, and no server serves twins.  The rows and  *)
(* the snapshot of a preparation agree because nobody else commits while   *)
(* it is open; the pending replay index is right because a request digest  *)
(* is claimed, from the UPDATE that writes it to its commit.               *)
(***************************************************************************)
EXTENDS SubmissionMigration, SequenceTheorems, TLAPS

Shaped ==
  /\ rows \in Seq(Row)
  /\ snapshot \in [Servers -> Seq(Row)]
  /\ at \in [Servers -> Nat]
  /\ DOMAIN pc = Servers /\ DOMAIN wrote = Servers

\* What the snapshot of p says of row i, and what has happened to it since.
Current(p, i) ==
  /\ snapshot[p][i].intent = rows[i].intent
  /\ Pending(rows[i]) => Pending(snapshot[p][i])
  /\ snapshot[p][i].draftDigest = rows[i].draftDigest
  /\ snapshot[p][i].requestDigest = rows[i].requestDigest

\* A preparation has written exactly what the rows before at lacked.
Working(p) ==
  /\ pc[p] \notin {"scan", "index"} => Len(snapshot[p]) = 0 /\ at[p] = 1
  /\ Len(snapshot[p]) <= Len(rows)
  /\ \A i \in 1..Len(snapshot[p]) : Current(p, i)
  /\ \A i, d : <<i, d>> \in wrote[p] <=>
       i \in 1..Len(snapshot[p]) /\ i < at[p] /\ d \in Lacking(snapshot[p], i)
  /\ at[p] >= 1
  /\ pc[p] = "index" => at[p] > Len(snapshot[p])

\* Row i has a pending request digest, committed or not.
Claimed(i) ==
  /\ Pending(rows[i])
  /\ rows[i].requestDigest \/ \E q \in Servers : <<i, "requestDigest">> \in wrote[q]

ClaimsUnique ==
  \A i, j \in 1..Len(rows) :
    Claimed(i) /\ Claimed(j) /\ rows[i].intent = rows[j].intent => i = j

Guarded ==
  /\ \A p \in Servers : pc[p] = "serving" => requestIndex
  /\ requestIndex => ClaimsUnique

Prepares == Shaped /\ \A p \in Servers : Working(p)

-----------------------------------------------------------------------------
(***************************************************************************)
(* The table after a commit.                                               *)
(***************************************************************************)
LEMMA PreparedRows ==
  ASSUME Shaped, NEW p \in Servers
  PROVE  /\ Prepared(p) \in Seq(Row)
         /\ Len(Prepared(p)) = Len(rows)
         /\ \A i \in 1..Len(rows) :
              /\ Prepared(p)[i].status = rows[i].status
              /\ Prepared(p)[i].intent = rows[i].intent
              /\ Prepared(p)[i].draftDigest <=>
                   rows[i].draftDigest \/ <<i, "draftDigest">> \in wrote[p]
              /\ Prepared(p)[i].requestDigest <=>
                   rows[i].requestDigest \/ <<i, "requestDigest">> \in wrote[p]
<1> DEFINE e(i) == [rows[i] EXCEPT
                      !.draftDigest   = @ \/ <<i, "draftDigest">> \in wrote[p],
                      !.requestDigest = @ \/ <<i, "requestDigest">> \in wrote[p]]
<1>1. DOMAIN rows = 1..Len(rows) /\ Len(rows) \in Nat
  BY LenProperties DEF Shaped
<1>2. ASSUME NEW i \in 1..Len(rows)
      PROVE  /\ e(i) \in Row
             /\ e(i).status = rows[i].status /\ e(i).intent = rows[i].intent
             /\ e(i).draftDigest <=> rows[i].draftDigest \/ <<i, "draftDigest">> \in wrote[p]
             /\ e(i).requestDigest <=>
                  rows[i].requestDigest \/ <<i, "requestDigest">> \in wrote[p]
  <2>1. rows[i] \in Row
    BY ElementOfSeq DEF Shaped
  <2> QED
    BY <2>1 DEF Row
<1>3. Prepared(p) = [i \in 1..Len(rows) |-> e(i)]
  BY <1>1 DEF Prepared
<1> HIDE DEF e
<1>4. [i \in 1..Len(rows) |-> e(i)] \in Seq(Row)
  <2>1. [i \in 1..Len(rows) |-> e(i)] \in [1..Len(rows) -> Row]
    BY <1>2
  <2>2. [1..Len(rows) -> Row] \subseteq Seq(Row)
    BY <1>1, SeqDef
  <2> QED
    BY <2>1, <2>2
<1>5. Len(Prepared(p)) = Len(rows)
  BY <1>1, <1>3, <1>4, LenProperties
<1> QED
  BY <1>2, <1>3, <1>4, <1>5

-----------------------------------------------------------------------------
(***************************************************************************)
(* What the rows keep.                                                     *)
(***************************************************************************)
\* Row i keeps its request, its digests and its review.
Keeps(i) ==
  /\ rows'[i].intent = rows[i].intent
  /\ rows[i].draftDigest => rows'[i].draftDigest
  /\ rows[i].requestDigest => rows'[i].requestDigest
  /\ Pending(rows'[i]) => Pending(rows[i])

\* A request that is stored is the last row.
LEMMA CreatedRow ==
  ASSUME Shaped, NEW p \in Servers, NEW intent \in Intents, Create(p, intent)
  PROVE  /\ rows' \in Seq(Row) /\ Len(rows') = Len(rows) + 1
         /\ \A i \in 1..Len(rows) : rows'[i] = rows[i]
         /\ rows'[Len(rows) + 1] = [status |-> "pending", intent |-> intent,
                                    draftDigest |-> TRUE, requestDigest |-> TRUE]
BY DEF Create, Shaped, Row

\* A review changes the status of one row.
LEMMA ReviewedRow ==
  ASSUME Shaped, NEW p \in Servers, NEW i \in DOMAIN rows, Review(p, i)
  PROVE  /\ rows' \in Seq(Row) /\ Len(rows') = Len(rows)
         /\ \A j \in 1..Len(rows) :
              /\ rows'[j].intent = rows[j].intent
              /\ rows'[j].draftDigest = rows[j].draftDigest
              /\ rows'[j].requestDigest = rows[j].requestDigest
              /\ Pending(rows'[j]) => Pending(rows[j])
<1> DEFINE e == [rows[i] EXCEPT !.status = "reviewed"]
<1>1. i \in 1..Len(rows) /\ rows \in Seq(Row)
  BY LenProperties DEF Shaped
<1>2. rows[i] \in Row
  BY <1>1, ElementOfSeq
<1>3. /\ e \in Row /\ e.intent = rows[i].intent
      /\ e.draftDigest = rows[i].draftDigest
      /\ e.requestDigest = rows[i].requestDigest /\ ~Pending(e)
  BY <1>2 DEF Row, Pending
<1>4. rows' = [rows EXCEPT ![i] = e]
  BY DEF Review
<1> HIDE DEF e
<1> QED
  BY <1>1, <1>3, <1>4, ExceptSeq

LEMMA RowsKept ==
  ASSUME Shaped, [Next]_vars
  PROVE  rows' \in Seq(Row) /\ Len(rows') >= Len(rows) /\ \A i \in 1..Len(rows) : Keeps(i)
<1>0. Len(rows) \in Nat
  BY LenProperties DEF Shaped
<1>1. CASE rows' = rows
  BY <1>0, <1>1 DEF Shaped, Keeps
<1>2. ASSUME NEW p \in Servers, rows' = Prepared(p)
      PROVE  rows' \in Seq(Row) /\ Len(rows') >= Len(rows) /\ \A i \in 1..Len(rows) : Keeps(i)
  <2>1. /\ rows' \in Seq(Row) /\ Len(rows') = Len(rows)
        /\ \A i \in 1..Len(rows) :
             /\ rows'[i].status = rows[i].status /\ rows'[i].intent = rows[i].intent
             /\ rows[i].draftDigest => rows'[i].draftDigest
             /\ rows[i].requestDigest => rows'[i].requestDigest
    BY <1>2, PreparedRows
  <2>2. \A i \in 1..Len(rows) : Keeps(i)
    BY <2>1 DEF Keeps, Pending
  <2> QED
    BY <1>0, <2>1, <2>2
<1>3. ASSUME NEW p \in Servers, NEW intent \in Intents, Create(p, intent)
      PROVE  rows' \in Seq(Row) /\ Len(rows') >= Len(rows) /\ \A i \in 1..Len(rows) : Keeps(i)
  <2>1. /\ rows' \in Seq(Row) /\ Len(rows') = Len(rows) + 1
        /\ \A i \in 1..Len(rows) : rows'[i] = rows[i]
    BY <1>3, CreatedRow
  <2>2. \A i \in 1..Len(rows) : Keeps(i)
    BY <2>1 DEF Keeps
  <2> QED
    BY <1>0, <2>1, <2>2
<1>4. ASSUME NEW p \in Servers, NEW i \in DOMAIN rows, Review(p, i)
      PROVE  rows' \in Seq(Row) /\ Len(rows') >= Len(rows) /\ \A j \in 1..Len(rows) : Keeps(j)
  BY <1>0, <1>4, ReviewedRow DEF Keeps
<1> QED
  BY <1>1, <1>2, <1>3, <1>4
     DEF Next, vars, stored, Begin, Prepare, Load, PrepareRow, RefuseRow, Scanned, Commit,
         Deadlock, DatabaseFails, Stop, Refuse

LEMMA ShapedInv == Spec => []Shaped
<1>1. Init => Shaped
  <2> SUFFICES ASSUME Init PROVE Shaped
    OBVIOUS
  <2>1. PICK n \in 0..LegacyRows : rows \in [1..n -> LegacyRow]
    BY DEF Init
  <2>2. rows \in [1..n -> Row] /\ n \in Nat
    BY <2>1, BoundsAssumption DEF LegacyRow
  <2>3. rows \in Seq(Row)
    BY <2>2, SeqDef
  <2>4. <<>> \in Seq(Row)
    BY EmptySeq
  <2> QED
    BY <2>3, <2>4 DEF Init, Shaped
<1>2. Shaped /\ [Next]_vars => Shaped'
  <2> SUFFICES ASSUME Shaped, [Next]_vars PROVE Shaped'
    OBVIOUS
  <2>1. rows' \in Seq(Row) /\ <<>> \in Seq(Row)
    BY RowsKept, EmptySeq
  <2>2. ASSUME NEW p, NEW next, NEW why, Leave(p, next, why)
        PROVE  Shaped'
    <3>1. snapshot' \in [Servers -> Seq(Row)]
      BY <2>1, <2>2 DEF Leave, Shaped
    <3>2. at' \in [Servers -> Nat]
      BY <2>2 DEF Leave, Shaped
    <3> QED
      BY <2>1, <2>2, <3>1, <3>2 DEF Leave, Shaped
  <2>3. ASSUME NEW p \in Servers, Load(p) \/ PrepareRow(p) \/ Scanned(p)
        PROVE  Shaped'
    <3>1. snapshot' \in [Servers -> Seq(Row)]
      BY <2>3 DEF Load, PrepareRow, Scanned, Shaped
    <3>2. at' = at \/ at' = [at EXCEPT ![p] = at[p] + 1]
      BY <2>3 DEF Load, PrepareRow, Scanned
    <3>3. at' \in [Servers -> Nat]
      BY <3>2 DEF Shaped
    <3> QED
      BY <2>1, <2>3, <3>1, <3>3 DEF Load, PrepareRow, Scanned, Shaped
  <2>4. CASE UNCHANGED process
    BY <2>1, <2>4 DEF process, Shaped
  <2> QED
    BY <2>2, <2>3, <2>4
       DEF Next, vars, Begin, Prepare, RefuseRow, Commit, Deadlock, DatabaseFails, Stop,
           Refuse, Create, Review
<1> QED
  BY <1>1, <1>2, PTL DEF Spec

\* Digests that are stored stay, rows are preserved, and nothing changes a
\* request or reopens a review (the UPDATEs of the preparation, and what
\* serving processes do to the table).
THEOREM DigestsStay == Spec => DigestsNeverRewritten
<1>1. ASSUME Shaped, [Next]_vars
      PROVE  /\ Len(rows') >= Len(rows)
             /\ \A i \in DOMAIN rows :
                  /\ rows'[i].intent = rows[i].intent
                  /\ \A d \in Digests : rows[i][d] => rows'[i][d]
                  /\ Pending(rows'[i]) => Pending(rows[i])
  <2>1. DOMAIN rows = 1..Len(rows)
    BY <1>1, LenProperties DEF Shaped
  <2>2. /\ Len(rows') >= Len(rows)
        /\ \A i \in 1..Len(rows) : Keeps(i)
    BY <1>1, RowsKept
  <2> QED
    BY <2>1, <2>2 DEF Keeps, Digests
<1> QED
  BY <1>1, ShapedInv, PTL DEF Spec, DigestsNeverRewritten

-----------------------------------------------------------------------------
(***************************************************************************)
(* Working: the snapshot of a preparation and what it has written.         *)
(***************************************************************************)
\* A server whose preparation is not touched, while the rows of its snapshot
\* keep their digests and no new row of theirs becomes pending.
LEMMA WorkingFrame ==
  ASSUME NEW q, Working(q), Shaped, rows' \in Seq(Row), Len(rows') >= Len(rows),
         pc'[q] = pc[q], snapshot'[q] = snapshot[q], at'[q] = at[q], wrote'[q] = wrote[q],
         \A i \in 1..Len(snapshot[q]) :
           /\ rows'[i].intent = rows[i].intent
           /\ Pending(rows'[i]) => Pending(rows[i])
           /\ rows'[i].draftDigest = rows[i].draftDigest
           /\ rows'[i].requestDigest = rows[i].requestDigest
  PROVE  Working(q)'
<1>1. Len(rows) \in Nat /\ Len(rows') \in Nat
  BY LenProperties DEF Shaped
<1>2. \A i \in 1..Len(snapshot[q]) : Current(q, i)'
  BY DEF Working, Current
<1>3. Len(snapshot'[q]) <= Len(rows')
  <2>1. Len(snapshot[q]) <= Len(rows)
    BY DEF Working
  <2>2. Len(snapshot[q]) \in Int
    BY <1>1, <2>1 DEF Working
  <2> QED
    BY <1>1, <2>1, <2>2
<1> QED
  BY <1>2, <1>3 DEF Working

\* A preparation that has ended.
LEMMA WorkingAfresh ==
  ASSUME Shaped, NEW p \in Servers, NEW next \in {"down", "drop", "serving"}, NEW why,
         Leave(p, next, why), rows' \in Seq(Row)
  PROVE  Working(p)'
<1>1. pc'[p] = next /\ snapshot'[p] = <<>> /\ at'[p] = 1 /\ wrote'[p] = {}
  BY DEF Leave, Shaped
<1>2. Len(rows') \in Nat /\ Len(<<>>) = 0
  BY LenProperties, EmptySeq
<1> QED
  BY <1>1, <1>2 DEF Working

\* Whatever p does to its own preparation leaves those of the others alone.
LEMMA OthersStay ==
  ASSUME Shaped, NEW p \in Servers, NEW q \in Servers, q # p,
         (\E next, why : Leave(p, next, why)) \/ Load(p) \/ PrepareRow(p) \/ Scanned(p)
  PROVE  /\ pc'[q] = pc[q] /\ snapshot'[q] = snapshot[q]
         /\ at'[q] = at[q] /\ wrote'[q] = wrote[q]
BY DEF Leave, Load, PrepareRow, Scanned, Shaped

LEMMA WorkingStep ==
  ASSUME Shaped, \A q \in Servers : Working(q), [Next]_vars, NEW q \in Servers
  PROVE  Working(q)'
<1>1. /\ rows' \in Seq(Row) /\ Len(rows') >= Len(rows)
      /\ \A i \in 1..Len(rows) : Keeps(i)
      /\ Len(rows) \in Nat /\ Len(snapshot[q]) \in Nat
      /\ 1..Len(snapshot[q]) \subseteq 1..Len(rows)
  <2>1. snapshot[q] \in Seq(Row) /\ rows \in Seq(Row)
    BY DEF Shaped
  <2>2. Len(snapshot[q]) \in Nat /\ Len(rows) \in Nat
    BY <2>1, LenProperties
  <2>3. Len(snapshot[q]) <= Len(rows)
    BY DEF Working
  <2>4. 1..Len(snapshot[q]) \subseteq 1..Len(rows)
    BY <2>2, <2>3
  <2> QED
    BY <2>2, <2>4, RowsKept
\* A step that leaves the rows alone and is not of q.
<1>2. ASSUME rows' = rows, pc'[q] = pc[q], snapshot'[q] = snapshot[q],
             at'[q] = at[q], wrote'[q] = wrote[q]
      PROVE  Working(q)'
  BY <1>1, <1>2, WorkingFrame
<1>3. ASSUME NEW p \in Servers, NEW next \in {"down", "drop"}, NEW why,
             Leave(p, next, why), rows' = rows
      PROVE  Working(q)'
  <2>1. CASE p = q
    BY <1>1, <1>3, <2>1, WorkingAfresh
  <2>2. CASE p # q
    BY <1>2, <1>3, <2>2, OthersStay
  <2> QED
    BY <2>1, <2>2
<1>4. ASSUME NEW p \in Servers, Load(p)
      PROVE  Working(q)'
  <2>1. CASE p = q
    <3>1. /\ snapshot'[q] = rows /\ rows' = rows /\ pc'[q] = "scan"
          /\ at'[q] = at[q] /\ wrote'[q] = wrote[q] /\ pc[q] = "drop"
      BY <1>4, <2>1 DEF Load, Shaped, stored
    <3>2. Len(snapshot[q]) = 0 /\ at[q] = 1
      BY <3>1 DEF Working
    <3>3. ASSUME NEW i, NEW d PROVE <<i, d>> \notin wrote[q]
      <4>1. i \notin 1..Len(snapshot[q])
        BY <3>2
      <4> QED
        BY <4>1 DEF Working
    <3>4. \A i, d : ~(i \in 1..Len(rows) /\ i < 1)
      OBVIOUS
    <3>5. \A i \in 1..Len(snapshot'[q]) : Current(q, i)'
      BY <3>1 DEF Current
    <3>6. /\ wrote'[q] = wrote[q] /\ at'[q] = 1 /\ pc'[q] = "scan"
          /\ snapshot'[q] = rows /\ rows' = rows
      BY <3>1, <3>2
    <3>7. \A i, d : <<i, d>> \in wrote'[q] <=>
            i \in 1..Len(snapshot'[q]) /\ i < at'[q] /\ d \in Lacking(snapshot'[q], i)
      BY <3>3, <3>4, <3>6
    <3> QED
      BY <1>1, <3>5, <3>6, <3>7 DEF Working
  <2>2. CASE p # q
    BY <1>2, <1>4, <2>2, OthersStay DEF Load, stored
  <2> QED
    BY <2>1, <2>2
<1>5. ASSUME NEW p \in Servers, PrepareRow(p)
      PROVE  Working(q)'
  <2>1. CASE p = q
    <3>1. /\ rows' = rows /\ pc'[q] = pc[q] /\ snapshot'[q] = snapshot[q]
          /\ at'[q] = at[q] + 1
          /\ wrote'[q] = wrote[q] \cup ({at[q]} \X Lacking(snapshot[q], at[q]))
          /\ pc[q] = "scan" /\ at[q] <= Len(snapshot[q]) /\ at[q] \in Nat
      BY <1>5, <2>1 DEF PrepareRow, Reaches, Shaped, stored
    <3>2. \A i \in 1..Len(snapshot'[q]) : Current(q, i)'
      <4>1. \A i \in 1..Len(snapshot[q]) : Current(q, i)
        BY DEF Working
      <4>2. rows' = rows /\ snapshot'[q] = snapshot[q]
        BY <3>1
      <4> QED
        BY <4>1, <4>2 DEF Current, Pending
    <3>3. \A i, d : <<i, d>> \in wrote'[q] <=>
            <<i, d>> \in wrote[q] \/ (i = at[q] /\ d \in Lacking(snapshot[q], at[q]))
      BY <3>1
    <3>4. \A i, d : <<i, d>> \in wrote[q] <=>
            i \in 1..Len(snapshot[q]) /\ i < at[q] /\ d \in Lacking(snapshot[q], i)
      BY DEF Working
    <3>5. \A i \in 1..Len(snapshot[q]) : i < at[q] + 1 <=> i < at[q] \/ i = at[q]
      BY <1>1, <3>1
    <3>6. at[q] \in 1..Len(snapshot[q])
      BY <1>1, <3>1 DEF Working
    <3>7. \A i, d : <<i, d>> \in wrote'[q] <=>
            i \in 1..Len(snapshot[q]) /\ i < at[q] + 1 /\ d \in Lacking(snapshot[q], i)
      <4> TAKE i, d
      <4>1. CASE i = at[q]
        BY <3>1, <3>3, <3>4, <3>6, <4>1
      <4>2. CASE i # at[q]
        <5>1. <<i, d>> \in wrote'[q] <=> <<i, d>> \in wrote[q]
          BY <3>3, <4>2
        <5> QED
          BY <3>4, <3>5, <4>2, <5>1
      <4> QED
        BY <4>1, <4>2
    <3> QED
      BY <1>1, <3>1, <3>2, <3>7 DEF Working
  <2>2. CASE p # q
    BY <1>2, <1>5, <2>2, OthersStay DEF PrepareRow, stored
  <2> QED
    BY <2>1, <2>2
<1>6. ASSUME NEW p \in Servers, Scanned(p)
      PROVE  Working(q)'
  <2>1. CASE p = q
    BY <1>1, <1>6, <2>1 DEF Scanned, Working, Current, Shaped, stored
  <2>2. CASE p # q
    BY <1>2, <1>6, <2>2, OthersStay DEF Scanned, stored
  <2> QED
    BY <2>1, <2>2
\* Nobody else has a snapshot when a preparation commits.
<1>7. ASSUME NEW p \in Servers, NoWriter(p), Leave(p, "serving", None)
      PROVE  Working(q)'
  <2>1. CASE p = q
    BY <1>1, <1>7, <2>1, WorkingAfresh
  <2>2. CASE p # q
    <3>1. ~Open(q)
      BY <1>7, <2>2 DEF NoWriter
    <3>2. Len(snapshot[q]) = 0
      BY <3>1 DEF Open, Working
    <3>3. 1..Len(snapshot[q]) = {}
      BY <3>2
    <3> QED
      BY <1>1, <1>7, <2>2, <3>3, OthersStay, WorkingFrame
  <2> QED
    BY <2>1, <2>2
<1>8. ASSUME NEW p \in Servers, NEW intent \in Intents, Create(p, intent)
      PROVE  Working(q)'
  <2>1. UNCHANGED process
    BY <1>8 DEF Create
  <2> QED
    BY <1>1, <1>8, <2>1, CreatedRow, WorkingFrame DEF process
<1>9. ASSUME NEW p \in Servers, NEW i \in DOMAIN rows, Review(p, i)
      PROVE  Working(q)'
  <2>1. UNCHANGED process
    BY <1>9 DEF Review
  <2> QED
    BY <1>1, <1>9, <2>1, ReviewedRow, WorkingFrame DEF process
<1>10. CASE UNCHANGED vars
  BY <1>2, <1>10 DEF vars, stored, process
<1> QED
  BY <1>3, <1>4, <1>5, <1>6, <1>7, <1>8, <1>9, <1>10
     DEF Next, Begin, Prepare, RefuseRow, Commit, Deadlock, DatabaseFails, Stop, Refuse, stored

LEMMA WorkingInv == Spec => [](Shaped /\ \A p \in Servers : Working(p))
<1>1. Init /\ Shaped => \A p \in Servers : Working(p)
  <2> SUFFICES ASSUME Init, Shaped, NEW p \in Servers PROVE Working(p)
    OBVIOUS
  <2>1. Len(rows) \in Nat /\ Len(<<>>) = 0
    BY LenProperties DEF Shaped
  <2>2. snapshot[p] = <<>> /\ wrote[p] = {} /\ at[p] = 1 /\ pc[p] = "down"
    BY DEF Init
  <2> QED
    BY <2>1, <2>2 DEF Working
<1>2. Shaped /\ Shaped' /\ (\A p \in Servers : Working(p)) /\ [Next]_vars
        => (\A p \in Servers : Working(p))'
  BY WorkingStep
<1> QED
  BY <1>1, <1>2, ShapedInv, PTL DEF Spec

\* No other preparation commits while one is open, so a digest that was
\* missing when it loaded its rows is missing when it writes it (the check of
\* RowsAffected).
THEOREM UpdatesFind == Spec => []UpdatesFindTheirRow
<1>1. Shaped /\ (\A p \in Servers : Working(p)) => UpdatesFindTheirRow
  <2> SUFFICES ASSUME Shaped, NEW p \in Servers, Working(p), NEW i \in DOMAIN snapshot[p],
                      NEW d \in Digests, rows[i][d]
               PROVE  snapshot[p][i][d]
    BY DEF UpdatesFindTheirRow
  <2>1. i \in 1..Len(snapshot[p])
    BY LenProperties DEF Shaped
  <2>2. Current(p, i)
    BY <2>1 DEF Working
  <2> QED
    BY <2>2 DEF Current, Digests
<1> QED
  BY <1>1, WorkingInv, PTL

\* What a preparation has written, with what it found, is every digest of the
\* rows it read, except the request digests of later twins.
THEOREM CommitsComplete == Spec => PreparationComplete
<1>1. ASSUME Prepares, [Next]_vars, NEW p \in Servers, pc[p] = "index", pc'[p] = "serving",
             NEW i \in DOMAIN snapshot[p]
      PROVE  /\ rows'[i].draftDigest
             /\ rows'[i].requestDigest \/ Twin(snapshot[p], i)
  <2>1. Shaped /\ Working(p)
    BY <1>1 DEF Prepares
  <2>2. rows' = Prepared(p)
    BY <1>1, <2>1
       DEF Next, vars, process, stored, Shaped, Begin, Prepare, Load, PrepareRow, RefuseRow,
           Scanned, Commit, Deadlock, DatabaseFails, Stop, Refuse, Leave, Create, Review
  <2>3. Len(snapshot[p]) \in Nat /\ Len(rows) \in Nat /\ i \in 1..Len(snapshot[p])
    BY <2>1, LenProperties DEF Shaped
  <2>4. i \in 1..Len(rows) /\ i < at[p]
    <3>1. Len(snapshot[p]) <= Len(rows) /\ at[p] > Len(snapshot[p]) /\ at[p] \in Nat
      BY <1>1, <2>1 DEF Working, Shaped
    <3> QED
      BY <2>3, <3>1
  <2>5. /\ rows'[i].draftDigest <=> rows[i].draftDigest \/ <<i, "draftDigest">> \in wrote[p]
        /\ rows'[i].requestDigest <=>
             rows[i].requestDigest \/ <<i, "requestDigest">> \in wrote[p]
    BY <2>1, <2>2, <2>4, PreparedRows
  <2>6. \A d \in Lacking(snapshot[p], i) : <<i, d>> \in wrote[p]
    BY <2>1, <2>3, <2>4 DEF Working
  <2>7. Current(p, i)
    BY <2>1, <2>3 DEF Working
  <2>8. CASE snapshot[p][i].draftDigest
    BY <2>5, <2>6, <2>7, <2>8 DEF Current, Lacking, Digests
  <2>9. CASE ~snapshot[p][i].draftDigest
    <3>1. "draftDigest" \in Lacking(snapshot[p], i)
      BY <2>9 DEF Lacking, Digests
    <3> QED
      BY <2>5, <2>6, <2>7, <3>1 DEF Current, Lacking, Digests
  <2> QED
    BY <2>8, <2>9
<1>2. Prepares /\ [Next]_vars =>
        [\A p \in Servers :
           pc[p] = "index" /\ pc'[p] = "serving" =>
             \A i \in DOMAIN snapshot[p] :
               /\ rows'[i].draftDigest
               /\ rows'[i].requestDigest \/ Twin(snapshot[p], i)]_vars
  BY <1>1
<1> QED
  BY <1>2, WorkingInv, PTL DEF Spec, PreparationComplete, Prepares

-----------------------------------------------------------------------------
(***************************************************************************)
(* Guarded: pending requests and the index.                                *)
(***************************************************************************)
\* No request becomes claimed and no row another one's.
LEMMA ClaimsStay ==
  ASSUME Guarded, requestIndex' = requestIndex, Len(rows') = Len(rows),
         \A i \in 1..Len(rows) :
           rows'[i].intent = rows[i].intent /\ (Claimed(i)' => Claimed(i)),
         \A p \in Servers : pc'[p] = "serving" => pc[p] = "serving"
  PROVE  Guarded'
<1>1. requestIndex' => ClaimsUnique'
  BY DEF Guarded, ClaimsUnique
<1> QED
  BY <1>1 DEF Guarded

\* A server without a preparation has written nothing.
LEMMA IdleWroteNothing ==
  ASSUME Prepares, NEW q \in Servers, ~Open(q), NEW i, NEW d
  PROVE  <<i, d>> \notin wrote[q]
<1>1. Working(q) /\ Len(snapshot[q]) = 0
  BY DEF Prepares, Working, Open
<1>2. i \notin 1..Len(snapshot[q])
  BY <1>1
<1> QED
  BY <1>1, <1>2 DEF Working

\* A row a preparation claims for its request is the only one that does: the
\* index refuses one of a committed row, the key is locked for one of another
\* server, and one of its own would have made the row a twin.
LEMMA PreparedClaim ==
  ASSUME Prepares, NEW p \in Servers, PrepareRow(p), requestIndex,
         "requestDigest" \in Lacking(snapshot[p], at[p]), Pending(rows[at[p]]),
         NEW j \in 1..Len(rows), Claimed(j), rows[j].intent = rows[at[p]].intent
  PROVE  j = at[p]
<1> SUFFICES ASSUME j # at[p] PROVE FALSE
  OBVIOUS
<1>1. Shaped /\ Working(p)
  BY DEF Prepares
<1>2. DOMAIN rows = 1..Len(rows) /\ Len(snapshot[p]) \in Nat
  BY <1>1, LenProperties DEF Shaped
<1>3. at[p] \in 1..Len(snapshot[p])
  BY <1>1, <1>2 DEF PrepareRow, Reaches, Working, Shaped
<1>4. Pending(rows[j])
  BY DEF Claimed
<1>5. CASE rows[j].requestDigest
  BY <1>2, <1>4, <1>5 DEF PrepareRow, KeyTaken
<1>6. ASSUME NEW q \in Servers, <<j, "requestDigest">> \in wrote[q]
      PROVE  FALSE
  <2>1. CASE q # p
    BY <1>2, <1>4, <1>6, <2>1 DEF PrepareRow, Reaches, KeyFree
  <2>2. CASE q = p
    <3>1. j \in 1..Len(snapshot[p]) /\ j < at[p]
      BY <1>1, <1>6, <2>2 DEF Working
    <3>2. Current(p, j) /\ Current(p, at[p])
      BY <1>1, <1>3, <3>1 DEF Working
    <3>3. j \in 1..(at[p] - 1)
      BY <1>2, <1>3, <3>1
    <3>4. Twin(snapshot[p], at[p])
      BY <1>4, <3>2, <3>3 DEF Current, Twin
    <3> QED
      BY <3>4 DEF Lacking
  <2> QED
    BY <2>1, <2>2
<1> QED
  BY <1>5, <1>6 DEF Claimed

LEMMA PrepareRowGuarded ==
  ASSUME Prepares, Guarded, NEW p \in Servers, PrepareRow(p)
  PROVE  Guarded'
<1>1. /\ rows' = rows /\ requestIndex' = requestIndex /\ pc' = pc
      /\ wrote' = [wrote EXCEPT ![p] =
                      wrote[p] \cup ({at[p]} \X Lacking(snapshot[p], at[p]))]
      /\ DOMAIN wrote = Servers
  BY DEF PrepareRow, stored, Prepares, Shaped
\* A row that becomes claimed is the one the preparation looks at.
<1>2. ASSUME NEW i \in 1..Len(rows), Claimed(i)', ~Claimed(i)
      PROVE  i = at[p] /\ "requestDigest" \in Lacking(snapshot[p], at[p]) /\ Pending(rows[i])
  <2>1. Pending(rows[i]) /\ ~rows[i].requestDigest
    BY <1>1, <1>2 DEF Claimed, Pending
  <2>2. PICK q \in Servers : <<i, "requestDigest">> \in wrote'[q]
    BY <1>1, <1>2, <2>1 DEF Claimed
  <2>3. <<i, "requestDigest">> \notin wrote[q]
    BY <1>2, <2>1 DEF Claimed
  <2> QED
    BY <1>1, <2>1, <2>2, <2>3
<1>3. ASSUME requestIndex, NEW i \in 1..Len(rows), NEW j \in 1..Len(rows),
             Claimed(i)', Claimed(j)', rows[i].intent = rows[j].intent
      PROVE  i = j
  <2>1. CASE Claimed(i) /\ Claimed(j)
    BY <1>3, <2>1 DEF Guarded, ClaimsUnique
  <2>2. CASE ~Claimed(i) /\ ~Claimed(j)
    BY <1>2, <1>3, <2>2
  <2>3. CASE ~Claimed(i) /\ Claimed(j)
    BY <1>2, <1>3, <2>3, PreparedClaim
  <2>4. CASE Claimed(i) /\ ~Claimed(j)
    BY <1>2, <1>3, <2>4, PreparedClaim
  <2> QED
    BY <2>1, <2>2, <2>3, <2>4
<1>4. requestIndex' => ClaimsUnique'
  BY <1>1, <1>3 DEF ClaimsUnique
<1> QED
  BY <1>1, <1>4 DEF Guarded

\* The index a commit builds, or finds, is one of all claims: nobody else has a
\* transaction that writes the table.
LEMMA CommitGuarded ==
  ASSUME Prepares, Guarded, NEW p \in Servers, NoWriter(p), rows' = Prepared(p),
         requestIndex \/ UniqueRequests(Prepared(p)),
         requestIndex', Leave(p, "serving", None)
  PROVE  Guarded'
<1>1. Shaped
  BY DEF Prepares
<1>2. /\ rows' \in Seq(Row) /\ Len(rows') = Len(rows) /\ DOMAIN rows' = 1..Len(rows)
      /\ \A i \in 1..Len(rows) :
           /\ rows'[i].status = rows[i].status /\ rows'[i].intent = rows[i].intent
           /\ rows'[i].requestDigest <=>
                rows[i].requestDigest \/ <<i, "requestDigest">> \in wrote[p]
  <2>1. /\ rows' \in Seq(Row) /\ Len(rows') = Len(rows)
        /\ \A i \in 1..Len(rows) :
             /\ rows'[i].status = rows[i].status /\ rows'[i].intent = rows[i].intent
             /\ rows'[i].requestDigest <=>
                  rows[i].requestDigest \/ <<i, "requestDigest">> \in wrote[p]
    BY <1>1, PreparedRows
  <2> QED
    BY <2>1, LenProperties
<1>3. ASSUME NEW q \in Servers, NEW i PROVE <<i, "requestDigest">> \notin wrote'[q]
  <2>1. CASE q = p
    BY <1>1, <2>1 DEF Leave, Shaped
  <2>2. CASE q # p
    <3>1. wrote'[q] = wrote[q] /\ ~Open(q)
      BY <1>1, <2>2 DEF Leave, Shaped, NoWriter
    <3> QED
      BY <3>1, IdleWroteNothing
  <2> QED
    BY <2>1, <2>2
<1>4. ASSUME NEW i \in 1..Len(rows), Claimed(i)'
      PROVE  Claimed(i) /\ Pending(rows'[i]) /\ rows'[i].requestDigest
  BY <1>2, <1>3, <1>4 DEF Claimed, Pending
<1>5. ClaimsUnique'
  <2>1. CASE requestIndex
    BY <1>2, <1>4, <2>1 DEF Guarded, ClaimsUnique
  <2>2. CASE UniqueRequests(Prepared(p))
    BY <1>2, <1>4, <2>2 DEF ClaimsUnique, UniqueRequests
  <2> QED
    BY <2>1, <2>2
<1> QED
  BY <1>5 DEF Guarded

LEMMA CreateGuarded ==
  ASSUME Prepares, Guarded, NEW p \in Servers, NEW intent \in Intents, Create(p, intent)
  PROVE  Guarded'
<1>1. /\ Shaped /\ requestIndex /\ requestIndex' = requestIndex /\ pc' = pc /\ wrote' = wrote
  BY DEF Prepares, Create, process, Guarded
<1>2. /\ Len(rows) \in Nat /\ DOMAIN rows = 1..Len(rows) /\ Len(rows') = Len(rows) + 1
      /\ \A i \in 1..Len(rows) : rows'[i] = rows[i]
      /\ rows'[Len(rows) + 1].intent = intent
  <2>1. Len(rows) \in Nat /\ DOMAIN rows = 1..Len(rows)
    BY <1>1, LenProperties DEF Shaped
  <2>2. /\ rows' \in Seq(Row) /\ Len(rows') = Len(rows) + 1
        /\ \A i \in 1..Len(rows) : rows'[i] = rows[i]
        /\ rows'[Len(rows) + 1] = [status |-> "pending", intent |-> intent,
                                   draftDigest |-> TRUE, requestDigest |-> TRUE]
    BY <1>1, CreatedRow
  <2>3. rows'[Len(rows) + 1].intent = intent
    BY <2>2
  <2> QED
    BY <2>1, <2>2, <2>3
<1>3. ASSUME NEW i \in 1..Len(rows), Claimed(i)' PROVE Claimed(i)
  BY <1>1, <1>2, <1>3 DEF Claimed, Pending
<1>4. ASSUME NEW i \in 1..Len(rows), Claimed(i) PROVE rows[i].intent # intent
  <2>1. CASE rows[i].requestDigest
    BY <1>1, <1>2, <1>4, <2>1 DEF Claimed, Create
  <2>2. ASSUME NEW q \in Servers, <<i, "requestDigest">> \in wrote[q]
        PROVE  rows[i].intent # intent
    <3>1. q # p
      BY <2>2, IdleWroteNothing DEF Create, Open
    <3> QED
      BY <1>1, <1>2, <1>4, <2>2, <3>1 DEF Claimed, Create, KeyFree
  <2> QED
    BY <1>4, <2>1, <2>2 DEF Claimed
<1>5. \A i \in 1..Len(rows') : i \in 1..Len(rows) \/ i = Len(rows) + 1
  BY <1>2
<1>6. ASSUME NEW i \in 1..Len(rows'), NEW j \in 1..Len(rows'), Claimed(i)', Claimed(j)',
             rows'[i].intent = rows'[j].intent
      PROVE  i = j
  <2>1. CASE i \in 1..Len(rows) /\ j \in 1..Len(rows)
    BY <1>1, <1>2, <1>3, <1>6, <2>1 DEF Guarded, ClaimsUnique
  <2>2. CASE i = Len(rows) + 1 /\ j \in 1..Len(rows)
    BY <1>2, <1>3, <1>4, <1>6, <2>2
  <2>3. CASE i \in 1..Len(rows) /\ j = Len(rows) + 1
    BY <1>2, <1>3, <1>4, <1>6, <2>3
  <2> QED
    BY <1>5, <2>1, <2>2, <2>3
<1> QED
  BY <1>1, <1>6 DEF Guarded, ClaimsUnique

LEMMA GuardedStep ==
  ASSUME Prepares, Guarded, [Next]_vars
  PROVE  Guarded'
<1>1. Shaped
  BY DEF Prepares
<1>2. ASSUME NEW p \in Servers, NEW next \in {"down", "drop"}, NEW why,
             Leave(p, next, why), UNCHANGED stored
      PROVE  Guarded'
  <2>1. /\ rows' = rows /\ requestIndex' = requestIndex
        /\ \A q \in Servers : wrote'[q] \subseteq wrote[q]
        /\ \A q \in Servers : pc'[q] = "serving" => pc[q] = "serving"
    BY <1>1, <1>2 DEF Leave, stored, Shaped
  <2>2. \A i \in 1..Len(rows) : Claimed(i)' => Claimed(i)
    BY <2>1 DEF Claimed, Pending
  <2> QED
    BY <2>1, <2>2, ClaimsStay
<1>3. ASSUME NEW p \in Servers, Load(p) \/ Scanned(p)
      PROVE  Guarded'
  <2>1. /\ rows' = rows /\ requestIndex' = requestIndex /\ wrote' = wrote
        /\ \A q \in Servers : pc'[q] = "serving" => pc[q] = "serving"
    BY <1>1, <1>3 DEF Load, Scanned, stored, Shaped
  <2>2. \A i \in 1..Len(rows) : Claimed(i)' => Claimed(i)
    BY <2>1 DEF Claimed, Pending
  <2> QED
    BY <2>1, <2>2, ClaimsStay
<1>4. ASSUME NEW p \in Servers, NEW i \in DOMAIN rows, Review(p, i)
      PROVE  Guarded'
  <2>1. requestIndex' = requestIndex /\ pc' = pc /\ wrote' = wrote
    BY <1>4 DEF Review, process
  <2>2. \A j \in 1..Len(rows) : Claimed(j)' => Claimed(j)
    BY <1>1, <1>4, <2>1, ReviewedRow DEF Claimed
  <2> QED
    BY <1>1, <1>4, <2>1, <2>2, ReviewedRow, ClaimsStay
<1>5. CASE UNCHANGED vars
  BY <1>5 DEF vars, stored, process, Guarded, ClaimsUnique, Claimed, Pending
<1> QED
  BY <1>2, <1>3, <1>4, <1>5, PrepareRowGuarded, CommitGuarded, CreateGuarded
     DEF Next, Begin, Prepare, RefuseRow, Commit, Deadlock, DatabaseFails, Stop, Refuse

LEMMA GuardedInv == Spec => []Guarded
<1>1. Init => Guarded
  BY DEF Init, Guarded
<1>2. Prepares /\ Guarded /\ [Next]_vars => Guarded'
  BY GuardedStep
<1> QED
  BY <1>1, <1>2, WorkingInv, PTL DEF Spec, Prepares

\* While some server serves, no two pending submissions claim one request: what
\* pending replay and the unique index rely on.
THEOREM ServedUnique == Spec => []ServedRequestsUnique
<1>1. Prepares /\ Guarded => ServedRequestsUnique
  <2> SUFFICES ASSUME Prepares, Guarded, NEW p \in Servers, pc[p] = "serving"
               PROVE  UniqueRequests(rows)
    BY DEF ServedRequestsUnique
  <2>1. DOMAIN rows = 1..Len(rows)
    BY LenProperties DEF Prepares, Shaped
  <2> QED
    BY <2>1 DEF Guarded, ClaimsUnique, Claimed, UniqueRequests
<1> QED
  BY <1>1, GuardedInv, WorkingInv, PTL DEF Prepares

-----------------------------------------------------------------------------
(***************************************************************************)
(* Accepts: the stored rows of a table without twins refuse no start, and  *)
(* those of a table no preparation has been committed to refuse none.      *)
(***************************************************************************)
NoTwins(t) ==
  \A i, j \in 1..Len(t) :
    Pending(t[i]) /\ Pending(t[j]) /\ t[i].intent = t[j].intent => i = j

\* Before the first commit no row has a request digest and every snapshot is
\* the whole table; later, without legacy twins, every row has one.
Accepts ==
  /\ ~requestIndex =>
       /\ \A i \in 1..Len(rows) : ~rows[i].requestDigest
       /\ \A p \in Servers : pc[p] \in {"scan", "index"} => Len(snapshot[p]) = Len(rows)
  /\ ~legacyTwins =>
       /\ NoTwins(rows)
       /\ \A p \in Servers : NoTwins(snapshot[p])
       /\ requestIndex => \A i \in 1..Len(rows) : rows[i].requestDigest

LEMMA TwinsFound ==
  ASSUME NEW t \in Seq(Row), NoTwins(t), NEW i \in 1..Len(t)
  PROVE  ~Twin(t, i)
<1> SUFFICES ASSUME NEW j \in 1..(i - 1), Pending(t[i]), Pending(t[j]),
                    t[j].intent = t[i].intent
             PROVE  FALSE
  BY DEF Twin
<1>1. Len(t) \in Nat
  BY LenProperties
<1>2. j \in 1..Len(t) /\ j # i
  BY <1>1
<1> QED
  BY <1>2 DEF NoTwins

\* The first preparation to finish has given a digest to no two pending rows of
\* one request, so its index can be built.
LEMMA FirstIndexBuilds ==
  ASSUME Prepares, Accepts, ~requestIndex, NEW p \in Servers, pc[p] = "index"
  PROVE  UniqueRequests(Prepared(p))
<1>1. Shaped /\ Working(p) /\ Len(rows) \in Nat
  BY LenProperties DEF Prepares, Shaped
<1>2. /\ \A i \in 1..Len(rows) :
           /\ Pending(Prepared(p)[i]) => Pending(rows[i])
           /\ Prepared(p)[i].intent = rows[i].intent
           /\ Prepared(p)[i].requestDigest => <<i, "requestDigest">> \in wrote[p]
      /\ DOMAIN Prepared(p) = 1..Len(rows)
  <2>1. \A i \in 1..Len(rows) : ~rows[i].requestDigest
    BY DEF Accepts
  <2>2. Prepared(p) \in Seq(Row) /\ Len(Prepared(p)) = Len(rows)
    BY <1>1, PreparedRows
  <2>3. DOMAIN Prepared(p) = 1..Len(rows)
    BY <2>2, LenProperties
  <2> QED
    BY <1>1, <2>1, <2>3, PreparedRows DEF Pending
<1>3. ASSUME NEW i \in 1..Len(rows), NEW j \in 1..Len(rows), i < j,
             Pending(Prepared(p)[i]), Pending(Prepared(p)[j]),
             Prepared(p)[i].requestDigest, Prepared(p)[j].requestDigest,
             Prepared(p)[i].intent = Prepared(p)[j].intent
      PROVE  FALSE
  <2>1. /\ <<i, "requestDigest">> \in wrote[p]
        /\ <<j, "requestDigest">> \in wrote[p]
        /\ Pending(rows[i]) /\ Pending(rows[j])
        /\ rows[i].intent = rows[j].intent
    BY <1>2, <1>3
  <2>2. /\ i \in 1..Len(snapshot[p]) /\ j \in 1..Len(snapshot[p])
        /\ "requestDigest" \in Lacking(snapshot[p], j)
    BY <1>1, <2>1 DEF Working
  <2>3. Current(p, i) /\ Current(p, j)
    BY <1>1, <2>2 DEF Working
  <2>4. i \in 1..(j - 1)
    BY <1>3
  <2>5. Twin(snapshot[p], j)
    BY <2>1, <2>3, <2>4 DEF Current, Twin
  <2> QED
    BY <2>2, <2>5 DEF Lacking
<1> QED
  BY <1>1, <1>2, <1>3 DEF UniqueRequests

\* A row the stored rows refuse is one of two pending requests, and the index
\* is there.
LEMMA RowRefused ==
  ASSUME Prepares, Accepts, NEW p \in Servers, Reaches(p),
         DuplicateRequest(p) \/ KeyTaken(p)
  PROVE  legacyTwins /\ requestIndex
<1>1. Shaped /\ Working(p) /\ Len(rows) \in Nat /\ Len(snapshot[p]) \in Nat
      /\ DOMAIN rows = 1..Len(rows)
  BY LenProperties DEF Prepares, Shaped
<1>2. at[p] \in 1..Len(snapshot[p]) /\ at[p] \in 1..Len(rows)
  BY <1>1 DEF Reaches, Working, Shaped
<1>3. CASE DuplicateRequest(p)
  <2>1. rows[at[p]].requestDigest
    BY <1>1, <1>2, <1>3 DEF DuplicateRequest, Working, Current
  <2>2. requestIndex
    BY <1>2, <2>1 DEF Accepts
  <2>3. ~NoTwins(snapshot[p])
    BY <1>1, <1>2, <1>3, TwinsFound DEF DuplicateRequest, Shaped
  <2> QED
    BY <2>2, <2>3 DEF Accepts
<1>4. CASE KeyTaken(p)
  <2>1. ~NoTwins(rows)
    BY <1>1, <1>2, <1>4 DEF KeyTaken, NoTwins
  <2> QED
    BY <1>4, <2>1 DEF Accepts, KeyTaken
<1> QED
  BY <1>3, <1>4

\* What a server does that leaves the rows alone.
LEMMA AcceptsFrame ==
  ASSUME Accepts, UNCHANGED <<rows, requestIndex, legacyTwins>>,
         \A q \in Servers :
           \/ pc'[q] = pc[q] /\ snapshot'[q] = snapshot[q]
           \/ pc'[q] \notin {"scan", "index"} /\ snapshot'[q] = <<>>
           \/ snapshot'[q] = rows
           \/ pc[q] = "scan" /\ snapshot'[q] = snapshot[q]
  PROVE  Accepts'
<1>1. NoTwins(<<>>)
  BY DEF NoTwins
<1>2. ~requestIndex => \A q \in Servers : pc'[q] \in {"scan", "index"} => Len(snapshot'[q]) = Len(rows)
  BY DEF Accepts
<1>3. ~legacyTwins => \A q \in Servers : NoTwins(snapshot'[q])
  BY <1>1 DEF Accepts
<1> QED
  BY <1>2, <1>3 DEF Accepts, NoTwins

LEMMA AcceptsStep ==
  ASSUME Prepares, Guarded, Accepts, [Next]_vars
  PROVE  Accepts'
<1>1. Shaped /\ Len(rows) \in Nat /\ DOMAIN rows = 1..Len(rows)
  BY LenProperties DEF Prepares, Shaped
<1>2. ASSUME NEW p \in Servers, NEW next \in {"down", "drop"}, NEW why,
             Leave(p, next, why), UNCHANGED <<stored, legacyTwins>>
      PROVE  Accepts'
  BY <1>1, <1>2, AcceptsFrame DEF Leave, stored, Shaped
<1>3. ASSUME NEW p \in Servers, Load(p) \/ PrepareRow(p) \/ Scanned(p)
      PROVE  Accepts'
  BY <1>1, <1>3, AcceptsFrame DEF Load, PrepareRow, Scanned, stored, Shaped
<1>4. ASSUME NEW p \in Servers, rows' = Prepared(p), requestIndex', pc[p] = "index",
             Leave(p, "serving", None), UNCHANGED legacyTwins
      PROVE  Accepts'
  <2>1. /\ Len(rows') = Len(rows)
        /\ \A i \in 1..Len(rows) :
             /\ Pending(rows'[i]) => Pending(rows[i])
             /\ rows'[i].intent = rows[i].intent
             /\ rows'[i].requestDigest <=>
                  rows[i].requestDigest \/ <<i, "requestDigest">> \in wrote[p]
    BY <1>1, <1>4, PreparedRows DEF Pending
  <2>2. \A q \in Servers : snapshot'[q] = snapshot[q] \/ snapshot'[q] = <<>>
    BY <1>1, <1>4 DEF Leave, Shaped
  <2>3. NoTwins(<<>>)
    BY DEF NoTwins
  <2>4. ASSUME ~legacyTwins, NEW i \in 1..Len(rows), ~rows[i].requestDigest
        PROVE  <<i, "requestDigest">> \in wrote[p]
    <3>1. i \in 1..Len(snapshot[p])
      BY <1>4, <2>4 DEF Accepts
    <3>2. snapshot[p] \in Seq(Row) /\ Working(p)
      BY DEF Prepares, Shaped
    <3>3. ~Twin(snapshot[p], i)
      BY <2>4, <3>1, <3>2, TwinsFound DEF Accepts
    <3>4. Current(p, i)
      BY <3>1, <3>2 DEF Working
    <3>5. "requestDigest" \in Lacking(snapshot[p], i)
      BY <2>4, <3>3, <3>4 DEF Lacking, Current, Digests
    <3>6. i < at[p]
      BY <1>1, <1>4, <3>1, <3>2, LenProperties DEF Working, Shaped
    <3> QED
      BY <3>1, <3>2, <3>5, <3>6 DEF Working
  <2>5. ~legacyTwins => NoTwins(rows)'
    BY <2>1 DEF Accepts, NoTwins
  <2>6. ~legacyTwins => \A q \in Servers : NoTwins(snapshot'[q])
    BY <2>2, <2>3 DEF Accepts
  <2>7. ~legacyTwins => \A i \in 1..Len(rows') : rows'[i].requestDigest
    BY <2>1, <2>4
  <2> QED
    BY <1>4, <2>5, <2>6, <2>7 DEF Accepts, NoTwins
<1>5. ASSUME NEW p \in Servers, NEW intent \in Intents, Create(p, intent)
      PROVE  Accepts'
  <2>1. /\ Len(rows') = Len(rows) + 1
        /\ \A i \in 1..Len(rows) : rows'[i] = rows[i]
        /\ rows'[Len(rows) + 1].intent = intent
        /\ rows'[Len(rows) + 1].requestDigest
    <3>1. rows'[Len(rows) + 1] = [status |-> "pending", intent |-> intent,
                                  draftDigest |-> TRUE, requestDigest |-> TRUE]
      BY <1>1, <1>5, CreatedRow
    <3>2. rows'[Len(rows) + 1].intent = intent /\ rows'[Len(rows) + 1].requestDigest
      BY <3>1
    <3> QED
      BY <1>1, <1>5, <3>2, CreatedRow
  <2>2. /\ requestIndex /\ requestIndex' /\ legacyTwins' = legacyTwins
        /\ snapshot' = snapshot
    BY <1>5 DEF Create, Guarded, process
  <2>3. ASSUME ~legacyTwins
        PROVE  /\ \A i \in 1..Len(rows) : rows[i].requestDigest
               /\ \A i \in 1..Len(rows) : Pending(rows[i]) => rows[i].intent # intent
    BY <1>1, <1>5, <2>2, <2>3 DEF Accepts, Create
  <2>4. \A i \in 1..Len(rows') : i \in 1..Len(rows) \/ i = Len(rows) + 1
    BY <1>1, <2>1
  <2>5. ~legacyTwins => \A i \in 1..Len(rows') : rows'[i].requestDigest
    BY <2>1, <2>3, <2>4
  <2>6. ~legacyTwins => \A i, j \in 1..Len(rows') :
          Pending(rows'[i]) /\ Pending(rows'[j]) /\ rows'[i].intent = rows'[j].intent => i = j
    <3>1. ASSUME ~legacyTwins, NEW i \in 1..Len(rows'), NEW j \in 1..Len(rows'),
                 Pending(rows'[i]), Pending(rows'[j]), rows'[i].intent = rows'[j].intent
          PROVE  i = j
      <4>1. CASE i \in 1..Len(rows) /\ j \in 1..Len(rows)
        BY <2>1, <3>1, <4>1 DEF Accepts, NoTwins
      <4>2. CASE i = Len(rows) + 1 /\ j \in 1..Len(rows)
        BY <2>1, <2>3, <3>1, <4>2
      <4>3. CASE i \in 1..Len(rows) /\ j = Len(rows) + 1
        BY <2>1, <2>3, <3>1, <4>3
      <4> QED
        BY <2>4, <4>1, <4>2, <4>3
    <3> QED
      BY <3>1
  <2> QED
    BY <2>2, <2>5, <2>6 DEF Accepts, NoTwins, Pending
<1>6. ASSUME NEW p \in Servers, NEW k \in DOMAIN rows, Review(p, k)
      PROVE  Accepts'
  <2>1. /\ Len(rows') = Len(rows)
        /\ \A i \in 1..Len(rows) :
             /\ rows'[i].intent = rows[i].intent
             /\ rows'[i].requestDigest = rows[i].requestDigest
             /\ Pending(rows'[i]) => Pending(rows[i])
    BY <1>1, <1>6, ReviewedRow
  <2>2. UNCHANGED <<requestIndex, pc, snapshot, legacyTwins>>
    BY <1>6 DEF Review, process
  <2>3. NoTwins(rows) => NoTwins(rows)'
    BY <2>1 DEF NoTwins
  <2> QED
    BY <2>1, <2>2, <2>3 DEF Accepts, NoTwins
<1>7. CASE UNCHANGED vars
  BY <1>7, AcceptsFrame DEF vars, stored, process
<1> QED
  BY <1>2, <1>3, <1>4, <1>5, <1>6, <1>7
     DEF Next, Begin, Prepare, RefuseRow, Commit, Deadlock, DatabaseFails, Stop, Refuse

Refusals == OnlyServedTwinsRefused /\ DOMAIN failure = Servers

LEMMA RefusalsStep ==
  ASSUME Prepares, Guarded, Accepts, Refusals, [Next]_vars
  PROVE  Refusals'
<1>1. legacyTwins' = legacyTwins /\ (requestIndex => requestIndex')
  <2>1. \A p \in Servers : Commit(p) => legacyTwins' = legacyTwins /\ (requestIndex => requestIndex')
    BY DEF Commit, Refuse, stored
  <2>2. \A p \in Servers :
          \/ Begin(p) \/ Load(p) \/ PrepareRow(p) \/ RefuseRow(p) \/ Scanned(p)
          \/ Deadlock(p) \/ DatabaseFails(p) \/ Stop(p)
          => legacyTwins' = legacyTwins /\ requestIndex' = requestIndex
    BY DEF Begin, Load, PrepareRow, RefuseRow, Scanned, Deadlock, DatabaseFails, Stop,
           Refuse, stored
  <2>3. \A p \in Servers :
          \/ \E intent \in Intents : Create(p, intent)
          \/ \E i \in DOMAIN rows : Review(p, i)
          => legacyTwins' = legacyTwins /\ requestIndex' = requestIndex
    BY DEF Create, Review
  <2>4. UNCHANGED vars => legacyTwins' = legacyTwins /\ requestIndex' = requestIndex
    BY DEF vars, stored
  <2> QED
    BY <2>1, <2>2, <2>3, <2>4 DEF Next, Prepare
<1>2. CASE failure' = failure
  BY <1>1, <1>2 DEF Refusals, OnlyServedTwinsRefused
<1>3. ASSUME NEW p \in Servers, NEW why, failure' = [failure EXCEPT ![p] = why],
             why \in DataRefusals => legacyTwins /\ requestIndex
      PROVE  Refusals'
  BY <1>1, <1>3 DEF Refusals, OnlyServedTwinsRefused
<1>4. \A why \in {None, "deadlock", "db_error"} : why \notin DataRefusals
  BY NoneAssumption DEF DataRefusals, Failures
<1>5. ASSUME NEW p \in Servers, NEW why \in {None, "deadlock", "db_error"},
             NEW next, Leave(p, next, why)
      PROVE  Refusals'
  BY <1>3, <1>4, <1>5 DEF Leave
<1>6. ASSUME NEW p \in Servers, RefuseRow(p)
      PROVE  Refusals'
  BY <1>3, <1>6, RowRefused DEF RefuseRow, Refuse, Leave
<1>7. ASSUME NEW p \in Servers, Commit(p)
      PROVE  Refusals'
  BY <1>5, <1>7, FirstIndexBuilds DEF Commit
<1>8. ASSUME NEW p \in Servers, Load(p) \/ PrepareRow(p) \/ Scanned(p)
      PROVE  failure' = failure
  BY <1>8 DEF Load, PrepareRow, Scanned
<1>9. ASSUME NEW p \in Servers, Begin(p) \/ Deadlock(p) \/ DatabaseFails(p) \/ Stop(p)
      PROVE  \E why \in {None, "deadlock", "db_error"}, next \in {"drop", "down"} :
               Leave(p, next, why)
  BY <1>9 DEF Begin, Deadlock, DatabaseFails, Stop, Refuse
<1>10. ASSUME NEW p \in Servers,
              \/ \E intent \in Intents : Create(p, intent)
              \/ \E i \in DOMAIN rows : Review(p, i)
       PROVE  failure' = failure
  BY <1>10 DEF Create, Review, process
<1>11. UNCHANGED vars => failure' = failure
  BY DEF vars, process
<1> QED
  BY <1>2, <1>5, <1>6, <1>7, <1>8, <1>9, <1>10, <1>11 DEF Next, Prepare

LEMMA AcceptsInit == Init /\ Shaped => Accepts
<1> SUFFICES ASSUME Init, Shaped PROVE Accepts
  OBVIOUS
<1>1. Len(rows) \in Nat /\ DOMAIN rows = 1..Len(rows)
  BY LenProperties DEF Shaped
<1>2. \A i \in 1..Len(rows) : ~rows[i].requestDigest
  BY <1>1 DEF Init, LegacyRow
<1>3. ~legacyTwins => NoTwins(rows)
  <2>1. ASSUME ~legacyTwins, NEW i \in 1..Len(rows), NEW j \in 1..Len(rows),
               Pending(rows[i]), Pending(rows[j]), rows[i].intent = rows[j].intent, i < j
        PROVE  FALSE
    <3>1. i \in 1..(j - 1)
      BY <2>1
    <3> QED
      BY <1>1, <2>1, <3>1 DEF Init, Twin
  <2> QED
    BY <1>1, <2>1 DEF NoTwins
<1>4. \A p \in Servers : pc[p] = "down" /\ snapshot[p] = <<>>
  BY DEF Init
<1>5. NoTwins(<<>>) /\ ~requestIndex
  BY DEF NoTwins, Init
<1> QED
  BY <1>2, <1>3, <1>4, <1>5 DEF Accepts

\* The stored rows refuse a start only when there were identical pending
\* requests before the upgrade and it has been committed: however servers
\* start, crash and serve, a table without such requests is always accepted
\* and a first preparation succeeds.
THEOREM OnlyTwinsRefused == Spec => []OnlyServedTwinsRefused
<1>1. Init => Refusals
  BY NoneAssumption DEF Init, Refusals, OnlyServedTwinsRefused, DataRefusals, Failures
<1>2. Prepares /\ Guarded /\ Accepts /\ [Next]_vars => Accepts'
  BY AcceptsStep
<1>3. Prepares /\ Guarded /\ Accepts /\ Refusals /\ [Next]_vars => Refusals'
  BY RefusalsStep
<1>4. Spec => []Prepares
  BY WorkingInv, PTL DEF Prepares
<1>5. Spec => []Guarded
  BY GuardedInv
<1>6. Refusals => OnlyServedTwinsRefused
  BY DEF Refusals
<1> QED
  BY <1>1, <1>2, <1>3, <1>4, <1>5, <1>6, AcceptsInit, ShapedInv, PTL DEF Spec
=============================================================================
