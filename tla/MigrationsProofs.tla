-------------------------- MODULE MigrationsProofs ---------------------------
(* Proofs about Migrations, for any documents, and databases of any release. *)
EXTENDS Migrations, TLAPS

(* The types.                                                              *)
Shape ==
    /\ release \in 1..9 /\ version \in 0..9 /\ version <= release
    /\ documents \in Tables \cup {Absent} /\ rebuilt \in Tables \cup {Absent}
    /\ updates \subseteq Ids /\ edited \subseteq updates
    /\ enforced \in BOOLEAN /\ cut \in BOOLEAN
    /\ pc \in {"closed", "next", "create", "copy", "drop", "rename", "record", "open", "failed"}
    /\ written \in UNION {[S -> Ids \cup {Top}] : S \in SUBSET Ids}

(* A table whose rows the pending migration's CHECK would admit.           *)
Fits(t) == t # Absent => \A i \in DOMAIN t.rows : t.rows[i] \in Check(Pending)

(* What a table of each version is made of.  A database stuck in a rebuild *)
(* has a fresh table, which need not admit what its version does.          *)
Tabled ==
    /\ Fits(documents) /\ Fits(rebuilt)
    /\ documents # Absent =>
          IF version = 0 THEN documents.cols \subseteq {1} ELSE documents.cols = Adds \cap 1..version
    /\ rebuilt # Absent => rebuilt.cols = {1} /\ rebuilt.types = Check(Pending)
    /\ documents # Absent /\ rebuilt = Absent => Check(version) \subseteq documents.types

(* Where the documents are: in the table unless a rebuild is under way or  *)
(* was left, and all in the copy from the time it is filled.               *)
Whole ==
    /\ DOMAIN written \subseteq Rows(documents) \cup Rows(rebuilt)
    /\ rebuilt = Absent => Rows(documents) = DOMAIN written
    /\ pc = "copy" => Rows(documents) = DOMAIN written
    /\ pc \in {"drop", "rename"} => Rows(rebuilt) = DOMAIN written

(* How far the server is, and what it finds: a copy that no rebuild of its *)
(* own made is one that a stop left.                                       *)
At ==
    /\ documents = Absent /\ rebuilt = Absent => version = 0
    /\ documents = Absent => pc \in {"closed", "rename"}
    /\ rebuilt = Absent => pc \notin {"copy", "drop", "rename"}
    /\ rebuilt # Absent =>
          /\ Pending \in 2..6 /\ Pending <= release
          /\ pc \in {"copy", "drop", "rename"} \/ (cut /\ pc \in {"closed", "next", "create", "failed"})
    /\ pc \in {"create", "copy", "drop", "rename", "record"} =>
          Pending \in 2..6 /\ Pending <= release /\ enforced = FALSE
    /\ pc = "record" => Check(Pending) \subseteq documents.types
    /\ pc = "open" => version = release
    /\ pc = "failed" => cut

IInv == Shape /\ Tabled /\ Whole /\ At

(* The types by version: they only grow, and only by a rebuild.            *)
LEMMA Types ==
    ASSUME NEW v \in 0..8
    PROVE  /\ Check(v) \subseteq Check(v + 1) /\ Check(v + 1) \subseteq Check(9)
           /\ v + 1 \in Adds => Check(v + 1) \subseteq Check(v)
           /\ v + 1 = 6 => "db-page" \in Check(v + 1)
  BY DEF Check, Adds

LEMMA Columns ==
    ASSUME NEW v \in 0..8
    PROVE  /\ v + 1 \in Adds => (Adds \cap 1..v) \cup {v + 1} = Adds \cap 1..(v + 1)
           /\ v + 1 \notin Adds => v + 1 \in 2..6 /\ Adds \cap 1..v = {1} /\ Adds \cap 1..(v + 1) = {1}
           /\ v + 1 \in 2..6 => v + 1 \notin Adds
  BY DEF Adds

(* Absent is no table, and a table is one.                                 *)
LEMMA TableRows ==
    /\ \A t \in Tables : t # Absent /\ Rows(t) = DOMAIN t.rows /\ Rows(t) \subseteq Ids
    /\ Rows(Absent) = {}
    /\ \A cols \in SUBSET (1..9), types \in SUBSET Check(9), S \in SUBSET Ids :
          \A rows \in [S -> Check(9)] : Table(cols, types, rows) \in Tables
    /\ \A t \in Tables : t = Table(t.cols, t.types, t.rows) /\ t.types \subseteq Check(9)
                          /\ t.cols \subseteq 1..9 /\ t.rows \in [DOMAIN t.rows -> Check(9)]
<1>1. \A t \in Tables : t # Absent
  BY MigrationsAssumption
<1>2. QED
  BY <1>1 DEF Rows, Tables, Table

LEMMA NoRows == None \in [{} -> Check(9)] /\ DOMAIN None = {} /\ \A S : None \in [{} -> S]
  BY DEF None
-----------------------------------------------------------------------------
LEMMA Start == Init => IInv
<1> SUFFICES ASSUME Init PROVE IInv
  OBVIOUS
<1>1. Table({}, FirstTypes, None) \in Tables
  <2>1. FirstTypes \subseteq Check(9) /\ {} \in SUBSET Ids /\ {} \subseteq 1..9
    BY DEF Check
  <2>2. QED
    BY <2>1, NoRows, TableRows
<1>2. documents # Absent => documents = Table({}, FirstTypes, None) /\ documents.rows = None
                            /\ documents.cols = {} /\ documents.types = FirstTypes
  BY DEF Init, Table
<1>3. Rows(documents) = {} /\ Rows(rebuilt) = {}
  BY <1>1, <1>2, NoRows, TableRows DEF Init
<1>4. Shape
  <2>1. None \in [{} -> Ids \cup {Top}] /\ {} \in SUBSET Ids
    BY NoRows
  <2>2. written \in UNION {[S -> Ids \cup {Top}] : S \in SUBSET Ids}
    BY <2>1 DEF Init
  <2>3. release \in 1..9 /\ version \in 0..9 /\ version <= release
    BY MigrationsAssumption DEF Init
  <2>4. documents \in Tables \cup {Absent} /\ rebuilt \in Tables \cup {Absent}
    BY <1>1 DEF Init
  <2>5. QED
    BY <2>2, <2>3, <2>4 DEF Shape, Init
<1>5. Tabled
  BY <1>2, NoRows DEF Tabled, Fits, Init, Check
<1>6. Whole
  BY <1>3, NoRows DEF Whole, Init
<1>7. At
  BY DEF At, Init
<1>8. QED
  BY <1>4, <1>5, <1>6, <1>7 DEF IInv
-----------------------------------------------------------------------------

LEMMA OpenKeeps == ASSUME IInv, Open PROVE IInv'
<1> USE DEF IInv
<1> DEFINE types == FirstTypes \cup {"file", "db-folder"}
           fresh == Table({1}, types, None)
<1>1. fresh \in Tables /\ fresh.cols = {1} /\ fresh.types = types /\ fresh.rows = None
  <2>1. types \in SUBSET Check(9) /\ {} \in SUBSET Ids /\ {1} \in SUBSET (1..9)
    BY DEF Check
  <2>2. QED
    BY <2>1, NoRows, TableRows DEF Table
<1>2. fresh # Absent /\ Rows(fresh) = {}
  BY <1>1, NoRows, TableRows
<1>3. /\ documents' = IF documents = Absent THEN fresh ELSE documents
      /\ UNCHANGED <<release, rebuilt, updates, version, written, edited, cut>>
      /\ pc = "closed" /\ pc' = "next" /\ enforced' = TRUE
  BY DEF Open, history
<1>4. Shape'
  BY <1>1, <1>3 DEF Shape
<1>5. Tabled'
  <2>1. documents = Absent => version \in 0..5
    BY DEF At, Shape, Pending
  <2>2. version \in 1..5 => Adds \cap 1..version = {1}
    BY DEF Adds
  <2>3. version = 0 => Check(version) \subseteq types
    BY DEF Check
  <2>4. fresh.rows = None /\ DOMAIN None = {}
    BY <1>1, NoRows
  <2>5. Fits(fresh)
    BY <2>4 DEF Fits
  <2>6. Fits(documents') /\ Fits(rebuilt')
    BY <1>3, <2>5 DEF Tabled
  <2>7. Fits(documents)' /\ Fits(rebuilt)'
    BY <1>3, <2>6 DEF Fits, Pending
  <2> HIDE DEF fresh, types
  <2>8. QED
    BY <1>1, <1>2, <1>3, <2>1, <2>2, <2>3, <2>7 DEF Tabled, At, Pending, Shape
<1> HIDE DEF fresh, types
<1>6. Whole'
  BY <1>2, <1>3, TableRows DEF Whole, Rows
<1>7. At'
  BY <1>2, <1>3 DEF At, Pending
<1>8. QED
  BY <1>4, <1>5, <1>6, <1>7

LEMMA AddColumnsKeeps == ASSUME IInv, AddColumns PROVE IInv'
<1> USE DEF IInv
<1>1. /\ documents \in Tables /\ version \in 0..8 /\ Pending \in 1..9 /\ Pending \in Adds
      /\ rebuilt = Absent /\ documents # Absent /\ pc = "next"
  BY Columns DEF AddColumns, Shape, At, Pending
<1>2. /\ documents' = [documents EXCEPT !.cols = @ \cup {Pending}]
      /\ version' = Pending /\ Pending <= release
      /\ UNCHANGED <<release, rebuilt, updates, enforced, pc, written, edited, cut>>
  BY DEF AddColumns, history
<1>3. /\ documents' \in Tables /\ documents'.cols = documents.cols \cup {Pending}
      /\ documents'.rows = documents.rows /\ documents'.types = documents.types
  BY <1>1, <1>2 DEF Tables
<1>4. Rows(documents)' = Rows(documents) /\ documents' # Absent
  BY <1>1, <1>3, TableRows DEF Rows
<1>5. Shape'
  BY <1>1, <1>2, <1>3 DEF Shape, Pending
<1>6. Tabled'
  <2>1. Pending' = Pending + 1 /\ Check(Pending) \subseteq Check(Pending)'
    BY <1>1, <1>2 DEF Pending, Check
  <2>2. Fits(documents)' /\ Fits(rebuilt)'
    BY <1>1, <1>2, <1>3, <2>1 DEF Tabled, Fits
  <2>3. Check(version') \subseteq documents'.types
    BY <1>1, <1>2, <1>3, Types DEF Tabled, Pending
  <2>4. documents'.cols = Adds \cap 1..version'
    <3>1. version = 0 => Pending = 1 /\ Adds \cap 1..1 = {1}
      BY DEF Pending, Adds
    <3>2. version # 0 => (Adds \cap 1..version) \cup {Pending} = Adds \cap 1..Pending
      BY <1>1, Columns DEF Pending
    <3>3. QED
      BY <1>1, <1>2, <1>3, <3>1, <3>2 DEF Tabled
  <2>5. QED
    BY <1>1, <1>2, <2>2, <2>3, <2>4 DEF Tabled
<1>7. Whole'
  BY <1>1, <1>2, <1>4 DEF Whole
<1>8. At'
  BY <1>1, <1>2, <1>4 DEF At
<1>9. QED
  BY <1>5, <1>6, <1>7, <1>8

LEMMA BeginKeeps == ASSUME IInv, Begin \/ Opened PROVE IInv'
<1> USE DEF IInv
<1>1. /\ UNCHANGED <<release, documents, rebuilt, updates, version, written, edited, cut>>
      /\ pc = "next"
      /\ \/ Begin /\ pc' = "create" /\ enforced' = FALSE
         \/ Opened /\ pc' = "open" /\ enforced' = enforced
  BY DEF Begin, Opened, disk, history
<1>2. Shape'
  BY <1>1 DEF Shape
<1>3. Tabled' /\ Whole'
  BY <1>1 DEF Tabled, Whole, Fits, Pending, Rows
<1>4. ASSUME Begin PROVE Pending \in 2..6 /\ Pending <= release
  BY <1>4, Columns DEF Begin, Shape, Pending
<1>5. ASSUME Opened PROVE rebuilt = Absent /\ version = release
  BY <1>5 DEF Opened, At, Pending, Shape
<1>6. At'
  BY <1>1, <1>4, <1>5 DEF At, Pending
<1>7. QED
  BY <1>2, <1>3, <1>6

LEMMA CreateKeeps == ASSUME IInv, Create PROVE IInv'
<1> USE DEF IInv
<1> DEFINE new == Table({1}, Check(Pending), None)
<1>1. /\ UNCHANGED <<release, documents, updates, version, enforced, written, edited, cut>>
      /\ pc = "create"
      /\ \/ rebuilt = Absent /\ rebuilt' = new /\ pc' = "copy"
         \/ rebuilt # Absent /\ rebuilt' = rebuilt /\ pc' = "failed"
  BY DEF Create, history
<1>2. Pending \in 2..6 /\ Pending = version + 1 /\ version \in 1..5
  BY <1>1 DEF At, Shape, Pending
<1>3. new \in Tables /\ new.cols = {1} /\ new.types = Check(Pending) /\ new.rows = None
  <2>1. Check(Pending) \in SUBSET Check(9) /\ {} \in SUBSET Ids /\ {1} \in SUBSET (1..9)
    BY <1>2 DEF Check
  <2>2. QED
    BY <2>1, NoRows, TableRows DEF Table
<1>4. new # Absent /\ Rows(new) = {} /\ Fits(new)
  BY <1>3, NoRows, TableRows DEF Fits
<1> HIDE DEF new
<1>5. Shape'
  BY <1>1, <1>3 DEF Shape
<1>6. Fits(documents') /\ Fits(rebuilt')
  BY <1>1, <1>4 DEF Tabled
<1>7. Tabled'
  <2>1. Fits(documents)' /\ Fits(rebuilt)' /\ Check(Pending)' = Check(Pending)
    BY <1>1, <1>6 DEF Fits, Pending, Check
  <2>2. QED
    BY <1>1, <1>3, <1>4, <2>1 DEF Tabled
<1>8. Rows(documents)' = Rows(documents) /\ Rows(rebuilt)' = Rows(rebuilt')
  BY <1>1 DEF Rows
<1>9. Whole'
  BY <1>1, <1>4, <1>8, TableRows DEF Whole
<1>10. At'
  BY <1>1, <1>2, <1>4 DEF At, Pending
<1>11. QED
  BY <1>5, <1>7, <1>9, <1>10

(* A rebuild selects a row for each row, of types its CHECK admits.        *)
LEMMA Selected ==
    ASSUME NEW S \in SUBSET Ids, NEW rows \in [S -> Check(9)], Pending \in 2..6,
           \A i \in S : rows[i] \in Check(Pending)
    PROVE  /\ Copied(rows) \in [S -> Check(9)]
           /\ \A i \in S : Copied(rows)[i] \in Check(Pending)
<1>1. "db-page" \in Check(6) /\ Check(6) \subseteq Check(9)
  BY DEF Check
<1>2. CASE Pending # 6
  BY <1>2 DEF Copied
<1>3. CASE Pending = 6
  <2>1. \A i \in S : rows[i] \in Check(6)
    BY <1>3
  <2>2. DOMAIN rows = S
    OBVIOUS
  <2>3. Copied(rows) =
          [i \in S |-> IF rows[i] = "page" /\ written[i] \in S /\ rows[written[i]] = "db-folder"
                      THEN "db-page" ELSE rows[i]]
    BY <1>3, <2>2 DEF Copied
  <2>4. QED
    BY <1>1, <1>3, <2>1, <2>3
<1>4. QED
  BY <1>2, <1>3

LEMMA CopyKeeps == ASSUME IInv, Copy PROVE IInv'
<1> USE DEF IInv
<1> DEFINE rows == Copied(documents.rows)
           filled == [rebuilt EXCEPT !.rows = rows]
<1>1. pc = "copy" /\ UNCHANGED <<release, documents, updates, version, enforced, written, edited, cut>>
  BY DEF Copy, history
<1>2. /\ documents \in Tables /\ rebuilt \in Tables /\ version \in 1..5 /\ Pending \in 2..6
      /\ documents # Absent /\ rebuilt # Absent
  BY <1>1 DEF At, Shape, Pending
<1>3. documents.cols = {1} /\ rebuilt.cols = {1} /\ rebuilt.types = Check(Pending)
  <2>1. Adds \cap 1..version = {1}
    BY <1>2 DEF Adds
  <2>2. QED
    BY <1>2, <2>1 DEF Tabled
<1>4. PICK S \in SUBSET Ids : documents.rows \in [S -> Check(9)]
  BY <1>2 DEF Tables
<1>5. \A i \in S : documents.rows[i] \in Check(Pending)
  BY <1>2, <1>4 DEF Tabled, Fits
<1>6. rows \in [S -> Check(9)] /\ \A i \in S : rows[i] \in Check(Pending)
  BY <1>2, <1>4, <1>5, Selected
<1> HIDE DEF rows
<1>7. rebuilt' = filled /\ pc' = "drop"
  BY <1>3, <1>6 DEF Copy, rows
<1>8. /\ filled \in Tables /\ filled.rows = rows /\ filled.cols = {1}
      /\ filled.types = Check(Pending)
  BY <1>2, <1>3, <1>6 DEF Tables
<1> HIDE DEF filled
<1>9. filled # Absent /\ Rows(filled) = S /\ Fits(filled) /\ Rows(documents) = S
  <2>1. Rows(filled) = S /\ Rows(documents) = S /\ filled # Absent
    BY <1>2, <1>4, <1>6, <1>8, TableRows
  <2>2. Fits(filled)
    BY <1>6, <1>8 DEF Fits
  <2>3. QED
    BY <2>1, <2>2
<1>10. Shape'
  BY <1>1, <1>7, <1>8 DEF Shape
<1>11. Tabled'
  <2>1. Fits(documents') /\ Fits(rebuilt')
    BY <1>1, <1>7, <1>9 DEF Tabled
  <2>2. Fits(documents)' /\ Fits(rebuilt)' /\ Check(Pending)' = Check(Pending)
    BY <1>1, <2>1 DEF Fits, Pending, Check
  <2>3. QED
    BY <1>1, <1>7, <1>8, <1>9, <2>2 DEF Tabled
<1>12. Whole'
  <2>1. Rows(documents)' = S /\ Rows(rebuilt)' = S
    BY <1>1, <1>7, <1>9 DEF Rows
  <2>2. DOMAIN written' = S
    BY <1>1, <1>9 DEF Whole
  <2>3. QED
    BY <1>1, <1>7, <1>9, <2>1, <2>2 DEF Whole
<1>13. At'
  BY <1>1, <1>2, <1>7, <1>9 DEF At, Pending
<1>14. QED
  BY <1>10, <1>11, <1>12, <1>13

LEMMA DropKeeps == ASSUME IInv, Drop PROVE IInv'
<1> USE DEF IInv
<1>1. /\ UNCHANGED <<release, rebuilt, version, enforced, written, edited, cut>>
      /\ pc = "drop" /\ pc' = "rename" /\ documents' = Absent
      /\ updates' = IF enforced THEN {} ELSE updates
  BY DEF Drop, history
<1>2. enforced = FALSE /\ rebuilt # Absent
  BY <1>1 DEF At
<1>3. updates' = updates
  BY <1>1, <1>2
<1>4. Shape'
  BY <1>1, <1>3 DEF Shape
<1>5. Tabled'
  <2>1. Fits(rebuilt') /\ Fits(documents')
    BY <1>1 DEF Tabled, Fits
  <2>2. Fits(documents)' /\ Fits(rebuilt)' /\ Check(Pending)' = Check(Pending)
    BY <1>1, <2>1 DEF Fits, Pending, Check
  <2>3. QED
    BY <1>1, <2>2 DEF Tabled
<1>6. Rows(rebuilt)' = Rows(rebuilt) /\ Rows(rebuilt) = DOMAIN written
  BY <1>1 DEF Rows, Whole
<1>7. Whole'
  BY <1>1, <1>2, <1>6 DEF Whole
<1>8. At'
  BY <1>1, <1>2 DEF At, Pending
<1>9. QED
  BY <1>4, <1>5, <1>7, <1>8

LEMMA RenameKeeps == ASSUME IInv, Rename PROVE IInv'
<1> USE DEF IInv
<1>1. /\ UNCHANGED <<release, updates, version, enforced, written, edited, cut>>
      /\ pc = "rename" /\ pc' = "record" /\ documents' = rebuilt /\ rebuilt' = Absent
  BY DEF Rename, history
<1>2. /\ rebuilt # Absent /\ rebuilt \in Tables /\ version \in 1..5 /\ Pending \in 2..6
      /\ rebuilt.cols = {1} /\ rebuilt.types = Check(Pending) /\ Rows(rebuilt) = DOMAIN written
  BY <1>1 DEF At, Shape, Tabled, Whole, Pending
<1>3. Shape'
  BY <1>1, <1>2 DEF Shape
<1>4. Tabled'
  <2>1. Fits(rebuilt') /\ Fits(documents')
    BY <1>1 DEF Tabled, Fits
  <2>2. Fits(documents)' /\ Fits(rebuilt)'
    BY <1>1, <2>1 DEF Fits, Pending, Check
  <2>3. Adds \cap 1..version = {1} /\ Check(version) \subseteq Check(Pending)
    BY <1>2, Types DEF Adds, Pending
  <2>4. QED
    BY <1>1, <1>2, <2>2, <2>3 DEF Tabled
<1>5. Rows(documents)' = DOMAIN written
  BY <1>1, <1>2 DEF Rows
<1>6. Whole'
  BY <1>1, <1>5 DEF Whole
<1>7. At'
  BY <1>1, <1>2 DEF At, Pending
<1>8. QED
  BY <1>3, <1>4, <1>6, <1>7

LEMMA RecordKeeps == ASSUME IInv, Record PROVE IInv'
<1> USE DEF IInv
<1>1. /\ UNCHANGED <<release, documents, rebuilt, updates, written, edited, cut>>
      /\ pc = "record" /\ pc' = "next" /\ version' = Pending /\ enforced' = TRUE
  BY DEF Record, history
<1>2. /\ rebuilt = Absent /\ documents # Absent /\ version \in 1..5 /\ Pending \in 2..6
      /\ Pending <= release /\ Check(Pending) \subseteq documents.types
  BY <1>1 DEF At, Shape, Pending
<1>3. Shape'
  BY <1>1, <1>2 DEF Shape
<1>4. Tabled'
  <2>1. Check(Pending) \subseteq Check(Pending)'
    BY <1>1, <1>2 DEF Pending, Check
  <2>2. Fits(documents)' /\ Fits(rebuilt)'
    BY <1>1, <1>2, <2>1 DEF Tabled, Fits
  <2>3. Adds \cap 1..version = {1} /\ Adds \cap 1..Pending = {1}
    BY <1>2 DEF Adds
  <2>4. QED
    BY <1>1, <1>2, <2>2, <2>3 DEF Tabled
<1>5. Whole'
  BY <1>1 DEF Whole, Rows
<1>6. At'
  BY <1>1, <1>2 DEF At
<1>7. QED
  BY <1>3, <1>4, <1>5, <1>6

LEMMA AddDocumentKeeps == ASSUME IInv, NEW i \in Ids, NEW parent \in Ids \cup {Top}, NEW type \in Check(9),
             AddDocument(i, parent, type) PROVE IInv'
<1> USE DEF IInv
<1> DEFINE rows == [j \in DOMAIN documents.rows \cup {i} |->
                       IF j = i THEN type ELSE documents.rows[j]]
           with == [documents EXCEPT !.rows = rows]
<1>1. /\ pc = "open" /\ UNCHANGED <<release, rebuilt, updates, version, enforced, pc, edited, cut>>
      /\ documents' = with /\ type \in Check(release)
      /\ written' = [j \in DOMAIN written \cup {i} |-> IF j = i THEN parent ELSE written[j]]
  BY DEF AddDocument
<1>2. documents \in Tables /\ documents # Absent /\ rebuilt = Absent /\ version = release
  BY <1>1 DEF At, Shape
<1>3. PICK S \in SUBSET Ids : documents.rows \in [S -> Check(9)]
  BY <1>2 DEF Tables
<1>4. DOMAIN documents.rows = S /\ DOMAIN written = S /\ S \cup {i} \in SUBSET Ids
  BY <1>2, <1>3, TableRows DEF Whole
<1>5. rows \in [S \cup {i} -> Check(9)]
  BY <1>3, <1>4
<1>6. \A j \in S \cup {i} : rows[j] \in Check(Pending)
  <2>1. version \in 1..9 /\ Check(release) \subseteq Check(Pending)
    BY <1>2 DEF Shape, Pending, Check
  <2>2. \A j \in S : documents.rows[j] \in Check(Pending)
    BY <1>2, <1>4 DEF Tabled, Fits
  <2>3. QED
    BY <1>1, <1>4, <2>1, <2>2
<1> HIDE DEF rows
<1>7. /\ with \in Tables /\ with.rows = rows /\ with.cols = documents.cols
      /\ with.types = documents.types
  BY <1>2, <1>4, <1>5 DEF Tables
<1> HIDE DEF with
<1>8. with # Absent /\ Rows(with) = S \cup {i} /\ Fits(with)
  <2>1. Rows(with) = S \cup {i} /\ with # Absent
    BY <1>5, <1>7, TableRows
  <2>2. Fits(with)
    BY <1>5, <1>6, <1>7 DEF Fits
  <2>3. QED
    BY <2>1, <2>2
<1>9. DOMAIN written' = S \cup {i} /\ written' \in [S \cup {i} -> Ids \cup {Top}]
  <2>1. written \in [S -> Ids \cup {Top}]
    BY <1>4 DEF Shape
  <2>2. QED
    BY <1>1, <1>4, <2>1
<1>10. Shape'
  BY <1>1, <1>4, <1>7, <1>9 DEF Shape
<1>11. Tabled'
  <2>1. Fits(documents)' /\ Fits(rebuilt)'
    BY <1>1, <1>2, <1>8 DEF Fits, Pending, Check
  <2>2. QED
    BY <1>1, <1>2, <1>7, <2>1 DEF Tabled
<1>12. Rows(documents)' = S \cup {i}
  BY <1>1, <1>8 DEF Rows
<1>13. Whole'
  BY <1>1, <1>9, <1>12 DEF Whole
<1>14. At'
  BY <1>1, <1>2, <1>8 DEF At, Pending
<1>15. QED
  BY <1>10, <1>11, <1>13, <1>14

LEMMA AppendKeeps == ASSUME IInv, NEW i \in Ids, AppendUpdate(i) PROVE IInv'
<1> USE DEF IInv
<1>1. /\ UNCHANGED <<release, documents, rebuilt, version, enforced, pc, written, cut>>
      /\ updates' = updates \cup {i} /\ edited' = edited \cup {i}
  BY DEF AppendUpdate
<1>2. Shape'
  BY <1>1 DEF Shape
<1>3. Tabled'
  BY <1>1 DEF Tabled, Fits, Pending
<1>4. Whole' /\ At'
  BY <1>1 DEF Whole, At, Rows, Pending
<1>5. QED
  BY <1>2, <1>3, <1>4

LEMMA StopKeeps == ASSUME IInv, NEW r \in 1..9, Stop(r) PROVE IInv'
<1> USE DEF IInv
<1>1. /\ UNCHANGED <<documents, rebuilt, updates, version, written, edited>>
      /\ pc # "closed" /\ r >= release /\ release' = r /\ pc' = "closed" /\ enforced' = FALSE
      /\ cut' = (cut \/ pc \in {"copy", "drop", "rename"})
  BY DEF Stop, disk, Shape
<1>2. Shape'
  <2>1. cut' \in BOOLEAN
    BY <1>1
  <2>2. version <= r
    BY <1>1 DEF Shape
  <2>3. QED
    BY <1>1, <2>1, <2>2 DEF Shape
<1>3. Tabled'
  BY <1>1 DEF Tabled, Fits, Pending
<1>4. Whole'
  BY <1>1 DEF Whole, Rows
<1>5. rebuilt # Absent => cut'
  BY <1>1 DEF At
<1>6. rebuilt # Absent => Pending \in 2..6 /\ Pending <= r
  BY <1>1 DEF At, Shape, Pending
<1>7. At'
  BY <1>1, <1>5, <1>6 DEF At, Pending
<1>8. QED
  BY <1>2, <1>3, <1>4, <1>7

(* A step that changes nothing.                                            *)
LEMMA StutterKeeps == ASSUME IInv, UNCHANGED vars PROVE IInv'
  BY DEF IInv, Shape, Tabled, Whole, At, Fits, Rows, Pending, vars

THEOREM Inductive == Spec => []IInv
<1>1. IInv /\ [Next]_vars => IInv'
  <2> SUFFICES ASSUME IInv, [Next]_vars PROVE IInv'
    OBVIOUS
  <2>1. CASE Open
    BY <2>1, OpenKeeps
  <2>2. CASE AddColumns
    BY <2>2, AddColumnsKeeps
  <2>3. CASE Begin \/ Opened
    BY <2>3, BeginKeeps
  <2>4. CASE Create
    BY <2>4, CreateKeeps
  <2>5. CASE Copy
    BY <2>5, CopyKeeps
  <2>6. CASE Drop
    BY <2>6, DropKeeps
  <2>7. CASE Rename
    BY <2>7, RenameKeeps
  <2>8. CASE Record
    BY <2>8, RecordKeeps
  <2>9. ASSUME NEW i \in Ids, NEW parent \in Ids \cup {Top}, NEW type \in Check(9),
               AddDocument(i, parent, type)
        PROVE  IInv'
    BY <2>9, AddDocumentKeeps
  <2>10. ASSUME NEW i \in Ids, AppendUpdate(i) PROVE IInv'
    BY <2>10, AppendKeeps
  <2>11. ASSUME NEW r \in 1..9, Stop(r) PROVE IInv'
    BY <2>11, StopKeeps
  <2>12. CASE UNCHANGED vars
    BY <2>12, StutterKeeps
  <2>13. QED
    BY <2>1, <2>2, <2>3, <2>4, <2>5, <2>6, <2>7, <2>8, <2>9, <2>10, <2>11, <2>12 DEF Next
<1>2. QED
  BY Start, <1>1, PTL DEF Spec

(* However often an open is cut short, no document and no content leaves   *)
(* the disk, and a database that opens is whole (initUserDb).              *)
THEOREM NothingIsLost == Spec => []NothingLost
<1>1. IInv => NothingLost
  <2> SUFFICES ASSUME IInv PROVE NothingLost
    OBVIOUS
  <2>1. DOMAIN written \subseteq Rows(documents) \cup Rows(rebuilt) /\ edited \subseteq updates
    BY DEF IInv, Whole, Shape
  <2>2. ASSUME pc = "open" PROVE rebuilt = Absent /\ documents # Absent /\ version = release
    BY <2>2 DEF IInv, At
  <2>3. ASSUME pc = "open"
        PROVE  /\ Rows(documents) = DOMAIN written /\ rebuilt = Absent
               /\ documents.cols = Adds \cap 1..release
               /\ Check(release) \subseteq documents.types
    BY <2>2, <2>3 DEF IInv, Whole, Tabled, Shape
  <2>4. QED
    BY <2>1, <2>3 DEF NothingLost
<1>2. QED
  BY <1>1, Inductive, PTL

(* A database fails to open only after a stop within a rebuild's           *)
(* statements: migrations in a transaction, and stops between migrations,  *)
(* leave one that opens (runMigrations).                                   *)
THEOREM OpensUnlessCut == Spec => []OnlyCutsStick
<1>1. IInv => OnlyCutsStick
  BY DEF IInv, At, OnlyCutsStick
<1>2. QED
  BY <1>1, Inductive, PTL
=============================================================================
