----------------------------- MODULE Migrations -----------------------------
(***************************************************************************)
(* Opening a user's database: the schema, then the migrations it has not    *)
(* had (db/database.ts, storage/schema.ts), with the process stopped, or a  *)
(* statement failing, anywhere.  A migration that adds columns is one       *)
(* transaction; one that rebuilds `documents` is a row of statements each   *)
(* of which commits by itself.  A server knows a prefix of the list.        *)
(***************************************************************************)
EXTENDS Integers

CONSTANTS
    Ids,        \* documents
    Top,        \* no parent
    Absent,     \* no such table
    Oldest      \* the oldest release that may have made the database: how many
                \* migrations it knew

FirstTypes == {"page", "folder", "workspace", "image"}
Adds == {1, 7, 8, 9}

(* The types a database at a version admits: those of the newest rebuild it *)
(* has had.                                                                *)
Check(v) ==
    FirstTypes
    \cup {t \in {"file"} : v >= 2}
    \cup {t \in {"db-folder"} : v >= 4} \cup {t \in {"block-registry"} : v >= 5}
    \cup {t \in {"db-page"} : v >= 6}

Table(cols, types, rows) == [cols |-> cols, types |-> types, rows |-> rows]

(* What `documents` can be.                                                *)
Tables ==
    [cols : SUBSET (1..9), types : SUBSET Check(9),
     rows : UNION {[S -> Check(9)] : S \in SUBSET Ids}]

ASSUME MigrationsAssumption ==
    /\ Oldest \in 1..9
    /\ Top \notin Ids
    /\ Absent \notin Tables

VARIABLES
    release,    \* migrations the running server knows
    documents,  \* the table: the migrations that added columns to it, the types its
                \* CHECK admits, its rows
    rebuilt,    \* documents_new
    updates,    \* documents with rows in yjs_updates
    version,    \* newest version in schema_version
    enforced,   \* PRAGMA foreign_keys, on this connection
    pc,         \* what the server does with the database
    written,    \* history: documents stored, with the parent each row has
    edited,     \* history: documents with content stored
    cut         \* history: a rebuild was left between its CREATE and its RENAME

vars == <<release, documents, rebuilt, updates, version, enforced, pc, written, edited, cut>>

None == [i \in {} |-> Top]

(* A new file, or one from before there were versions.                     *)
Init ==
    /\ release \in Oldest..9
    /\ documents \in {Absent, Table({}, FirstTypes, None)}
    /\ rebuilt = Absent
    /\ updates = {} /\ version = 0
    /\ enforced = FALSE /\ pc = "closed"
    /\ written = None /\ edited = {} /\ cut = FALSE

disk == <<documents, rebuilt, updates, version>>
history == <<written, edited, cut>>
-----------------------------------------------------------------------------
(* initUserDb, up to the migrations.                                       *)
Open ==
    /\ pc = "closed"
    /\ documents' = IF documents = Absent
                    THEN Table({1}, FirstTypes \cup {"file", "db-folder"}, None)
                    ELSE documents
    /\ enforced' = TRUE /\ pc' = "next"
    /\ UNCHANGED <<release, rebuilt, updates, version, history>>

Pending == version + 1

(* Mutant: a column that is there fails the migration.                     *)
AddColumnsOnce ==
    /\ pc = "next" /\ Pending <= release /\ Pending \in Adds
    /\ IF Pending \in documents.cols
       THEN pc' = "failed" /\ UNCHANGED <<documents, version>>
       ELSE /\ documents' = [documents EXCEPT !.cols = @ \cup {Pending}]
            /\ version' = Pending
            /\ UNCHANGED pc
    /\ UNCHANGED <<release, rebuilt, updates, enforced, history>>

(* A migration in a transaction: columns that are there are passed over.   *)
AddColumns ==
    /\ pc = "next" /\ Pending <= release /\ Pending \in Adds
    /\ documents' = [documents EXCEPT !.cols = @ \cup {Pending}]
    /\ version' = Pending
    /\ UNCHANGED <<release, rebuilt, updates, enforced, pc, history>>

(* Mutant: the rebuild within a transaction's rules, so that the pragma    *)
(* does nothing.                                                           *)
BeginEnforced ==
    /\ pc = "next" /\ Pending <= release /\ Pending \notin Adds
    /\ pc' = "create"
    /\ UNCHANGED <<release, disk, enforced, history>>

Begin ==
    /\ pc = "next" /\ Pending <= release /\ Pending \notin Adds
    /\ enforced' = FALSE /\ pc' = "create"
    /\ UNCHANGED <<release, disk, history>>

Create ==
    /\ pc = "create"
    /\ IF rebuilt = Absent
       THEN rebuilt' = Table({1}, Check(Pending), None) /\ pc' = "copy"
       ELSE UNCHANGED rebuilt /\ pc' = "failed"
    /\ UNCHANGED <<release, documents, updates, version, enforced, history>>

(* What the rebuild selects: from 6 on, a page in a db-folder is a db-page. *)
Copied(rows) ==
    IF Pending # 6 THEN rows
    ELSE [i \in DOMAIN rows |->
            IF rows[i] = "page" /\ written[i] \in DOMAIN rows /\ rows[written[i]] = "db-folder"
            THEN "db-page" ELSE rows[i]]

(* INSERT ... SELECT fails as a whole: the columns must agree, and the      *)
(* CHECK admit every row.                                                  *)
Copy ==
    LET rows == Copied(documents.rows)
    IN  /\ pc = "copy"
        /\ IF /\ documents.cols = {1}
              /\ \A i \in DOMAIN rows : rows[i] \in rebuilt.types
           THEN rebuilt' = [rebuilt EXCEPT !.rows = rows] /\ pc' = "drop"
           ELSE UNCHANGED rebuilt /\ pc' = "failed"
        /\ UNCHANGED <<release, documents, updates, version, enforced, history>>

(* Dropping a table deletes its rows first, which cascades to what refers  *)
(* to them while the keys are enforced.                                    *)
Drop ==
    /\ pc = "drop"
    /\ documents' = Absent
    /\ updates' = IF enforced THEN {} ELSE updates
    /\ pc' = "rename"
    /\ UNCHANGED <<release, rebuilt, version, enforced, history>>

Rename ==
    /\ pc = "rename"
    /\ documents' = rebuilt /\ rebuilt' = Absent
    /\ pc' = "record"
    /\ UNCHANGED <<release, updates, version, enforced, history>>

Record ==
    /\ pc = "record"
    /\ version' = Pending
    /\ enforced' = TRUE /\ pc' = "next"
    /\ UNCHANGED <<release, documents, rebuilt, updates, history>>

Opened ==
    /\ pc = "next" /\ Pending > release
    /\ pc' = "open"
    /\ UNCHANGED <<release, disk, enforced, history>>
-----------------------------------------------------------------------------
(* What the server stores: documents of the types it knows, their content. *)
AddDocument(i, parent, type) ==
    /\ pc = "open"
    /\ i \notin DOMAIN documents.rows /\ parent \in DOMAIN documents.rows \cup {Top}
    /\ type \in documents.types \cap Check(release)
    /\ documents' = [documents EXCEPT !.rows =
                        [j \in DOMAIN @ \cup {i} |-> IF j = i THEN type ELSE @[j]]]
    /\ written' = [j \in DOMAIN written \cup {i} |-> IF j = i THEN parent ELSE written[j]]
    /\ UNCHANGED <<release, rebuilt, updates, version, enforced, pc, edited, cut>>

AppendUpdate(i) ==
    /\ pc = "open" /\ i \in DOMAIN documents.rows
    /\ updates' = updates \cup {i} /\ edited' = edited \cup {i}
    /\ UNCHANGED <<release, documents, rebuilt, version, enforced, pc, written, cut>>

(* The process stops, a statement fails for another reason, or the handle  *)
(* is closed; the next process may be a newer release.                     *)
Stop(r) ==
    /\ pc # "closed" /\ r \in release..9
    /\ release' = r /\ pc' = "closed" /\ enforced' = FALSE
    /\ cut' = (cut \/ pc \in {"copy", "drop", "rename"})
    /\ UNCHANGED <<disk, written, edited>>

Next ==
    \/ Open \/ AddColumns \/ Begin \/ Create \/ Copy \/ Drop \/ Rename \/ Record \/ Opened
    \/ \E i \in Ids :
          \/ \E parent \in Ids \cup {Top}, type \in Check(9) : AddDocument(i, parent, type)
          \/ AppendUpdate(i)
    \/ \E r \in 1..9 : Stop(r)

Spec == Init /\ [][Next]_vars
-----------------------------------------------------------------------------
Rows(t) == IF t = Absent THEN {} ELSE DOMAIN t.rows

(* However often an open was cut short, no document leaves the disk and no *)
(* content does: a row is in the table or in its copy.  And a database     *)
(* that opens is whole: every document is in its table, which has the      *)
(* columns and admits the types that the release counts on.                *)
NothingLost ==
    /\ DOMAIN written \subseteq Rows(documents) \cup Rows(rebuilt)
    /\ edited \subseteq updates
    /\ pc = "open" =>
          /\ Rows(documents) = DOMAIN written /\ rebuilt = Absent
          /\ documents.cols = Adds \cap 1..release
          /\ Check(release) \subseteq documents.types

(* A database fails to open only after a stop within a rebuild's           *)
(* statements: a stop anywhere else leaves one that opens.                 *)
OnlyCutsStick == pc = "failed" => cut
=============================================================================
