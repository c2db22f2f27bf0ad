----------------------------- MODULE Migrations -----------------------------
(***************************************************************************)
(* The database layout of data-store and its four migrations               *)
(* (data-store/src/migrations).  TypeORM runs those that the database has  *)
(* not recorded in one transaction, and records each after it has run; the *)
(* fourth commits on its way with SQLite, because a pragma is ignored      *)
(* inside a transaction.  The process may stop between any two statements, *)
(* and starts again from what was committed.                               *)
(***************************************************************************)
EXTENDS FiniteSets, Naturals, Sequences

CONSTANTS
    Keys,           \* keys that users make
    Presentations,  \* presentations that users save
    MaxRuns         \* how often migrations are run or reverted

MigrationsAssumption == MaxRuns \in Nat

VARIABLES
    driver,     \* "sqlite" or "postgres"
    db,         \* the database, as the connection sees it
    committed,  \* as it is after a crash
    transaction,      \* a transaction is open
    enforced,   \* foreign keys are enforced
    todo,       \* the statements that are left of what runs
    runs,       \* how often something was run
    cut,        \* a revert was cut off
    owned       \* the keys whose private keys were stored here

vars == <<driver, db, committed, transaction, enforced, todo, runs, cut, owned>>

-----------------------------------------------------------------------------
\* Rows of `table` refer to rows of `to`, and go with them or hold them back.
Refers(table, to, goes) == [table |-> table, to |-> to, goes |-> goes]

(* What the first migration creates: the tables of identifiers, *)
OfIdentifiers == {Refers("key", "identifier", FALSE), Refers("service", "identifier", TRUE)}
(* of credentials with their claims: subjects hold, issuers take along, *)
OfCredentials ==
    {Refers(table, "identifier", goes) : table \in {"credential", "claim"}, goes \in BOOLEAN}
    \cup {Refers("claim", "credential", TRUE)}
(* of presentations, which go with their holder, *)
OfPresentations == {Refers("presentation", "identifier", TRUE)}
(* of messages, which hold the identifiers they are from and to, *)
OfMessages == {Refers("message", "identifier", FALSE)}
(* and of what belongs to what. *)
OfJoins ==
    LET Joins(of) == {Refers(of[1], to, TRUE) : to \in {of[2], of[3]}}
    IN UNION {Joins(of) : of \in {
        <<"presentation_verifier_identifier", "presentation", "identifier">>,
        <<"presentation_credentials_credential", "presentation", "credential">>,
        <<"message_presentations_presentation", "message", "presentation">>,
        <<"message_credentials_credential", "message", "credential">>}}
ForeignKeys == OfIdentifiers \cup OfCredentials \cup OfPresentations \cup OfMessages \cup OfJoins
Tables == {f.table : f \in ForeignKeys} \cup {f.to : f \in ForeignKeys}

\* Rows that refer to a presentation.
JoinedTo(p) == {<<f.table, p>> : f \in {x \in ForeignKeys : x.to = "presentation"}}

Empty == [tables |-> {}, optional |-> {}, column |-> FALSE, keys |-> {}, inColumn |-> {}, private |-> {},
          presentations |-> {}, joined |-> {}, undated |-> {}, recorded |-> 0]
(* A database that Veramo 2 has made, in which every key has its private key *)
Veramo2(k, p) == [Empty EXCEPT !.tables = Tables, !.column = TRUE, !.keys = {k}, !.inColumn = {k},
                               !.presentations = {p}, !.joined = JoinedTo(p)]

TypeOK ==
    /\ driver \in {"sqlite", "postgres"} /\ transaction \in BOOLEAN /\ enforced \in BOOLEAN
    /\ \A d \in {db, committed} :
        /\ d.tables \subseteq Tables \cup {"private-key"} /\ d.column \in BOOLEAN
        /\ d.optional \subseteq {<<"key", "identifierDid">>, <<"service", "identifierDid">>,
                                <<"presentation", "issuanceDate">>}
        /\ d.inColumn \subseteq d.keys /\ d.keys \cup d.private \subseteq Keys
        /\ d.undated \subseteq d.presentations /\ d.presentations \subseteq Presentations
        /\ d.recorded \in 0..4
    /\ runs \in 0..MaxRuns /\ cut \in BOOLEAN /\ owned \subseteq Keys

Init ==
    /\ driver \in {"sqlite", "postgres"}
    /\ \/ db = Empty /\ owned = {}
       \/ \E k \in Keys, p \in Presentations : db = Veramo2(k, p) /\ owned = {k}
    /\ committed = db
    /\ transaction = FALSE /\ enforced = TRUE /\ todo = <<>> /\ runs = 0 /\ cut = FALSE

-----------------------------------------------------------------------------
Do(what, of) == [what |-> what, of |-> of]
Change(table, column) == <<table, column>>

\* The column is dropped before its keys are copied.
DropsThenCopies == << Do("create", "private-key"), Do("drop column", "key"), Do("copy keys", "key") >>
(* up of CreatePrivateKeyStorage *)
MovesKeys == << Do("create", "private-key"), Do("copy keys", "key"), Do("drop column", "key") >>
(* and its down *)
MovesKeysBack == << Do("add column", "key"), Do("copy back", "key"), Do("drop", "private-key") >>

\* The pragma inside the transaction that the migrations run in.
WithinTransaction(statement) == << Do("enforce", FALSE), statement, Do("enforce", TRUE) >>
(* SQLite changes a column by making the table anew, here in a transaction of its
   own in which foreign keys are not enforced. *)
Unenforced(statement) ==
    IF driver = "sqlite"
    THEN << Do("commit", "all"), Do("enforce", FALSE), Do("begin", "all"), statement,
            Do("commit", "all"), Do("enforce", TRUE), Do("begin", "all") >>
    ELSE << statement >>

IssuanceDate == Change("presentation", "issuanceDate")
(* The statements of each migration *)
Up(n) ==
    CASE n = 1 -> << Do("create all", "tables") >>
      [] n = 2 -> << Do("optional", Change("key", "identifierDid")), Do("optional", Change("service", "identifierDid")) >>
      [] n = 3 -> MovesKeys
      [] n = 4 -> Unenforced(Do("optional", IssuanceDate))
(* and of its reversal; the first two cannot be rolled back. *)
Down(n) == IF n = 3 THEN MovesKeysBack ELSE Unenforced(Do("required", IssuanceDate))

(* A table that SQLite makes anew is dropped, and the rows that refer to it go
   along if foreign keys are enforced. *)
Changed(d, table) ==
    IF driver = "sqlite" /\ enforced
    THEN [d EXCEPT !.joined = {row \in @ : Refers(row[1], table, TRUE) \notin ForeignKeys}]
    ELSE d

(* What a statement makes of the database *)
Effect(d, s) ==
    CASE s.what = "create all" ->
            [d EXCEPT !.tables = @ \cup Tables, !.column = @ \/ "key" \notin d.tables]
      [] s.what = "create" -> [d EXCEPT !.tables = @ \cup {"private-key"}]
      [] s.what = "copy keys" -> [d EXCEPT !.private = @ \cup d.inColumn]
      [] s.what = "drop column" -> [Changed(d, "key") EXCEPT !.column = FALSE, !.inColumn = {}]
      [] s.what = "add column" -> [Changed(d, "key") EXCEPT !.column = TRUE]
      [] s.what = "copy back" -> [d EXCEPT !.inColumn = d.private \cap d.keys]
      [] s.what = "drop" -> [d EXCEPT !.tables = @ \ {"private-key"}, !.private = {}]
      [] s.what = "optional" -> [Changed(d, s.of[1]) EXCEPT !.optional = @ \cup {s.of}]
      [] s.what = "required" -> [Changed(d, s.of[1]) EXCEPT !.optional = @ \ {s.of}, !.undated = {}]
      [] s.what = "record" -> [d EXCEPT !.recorded = s.of]
      [] OTHER -> d

(* The migrations that are not recorded, and their records, in one transaction *)
Pending(from) ==
    LET Run[n \in 1..5] == IF n = 5 THEN <<>> ELSE Up(n) \o << Do("record", n) >> \o Run[n + 1]
    IN Run[from + 1]

Start(statements) ==
    /\ todo = <<>> /\ runs < MaxRuns
    /\ todo' = << Do("begin", "all") >> \o statements \o << Do("commit", "all") >>
    /\ runs' = runs + 1
    /\ UNCHANGED <<driver, db, committed, transaction, enforced, owned>>

(* runMigrations *)
Migrate == db.recorded < 4 /\ Start(Pending(db.recorded)) /\ cut' = FALSE

(* undoLastMigration *)
Revert ==
    /\ db.recorded \in {3, 4}
    /\ Start(Down(db.recorded) \o << Do("record", db.recorded - 1) >>)
    /\ cut' = TRUE

Step ==
    /\ todo # <<>>
    /\ LET s == Head(todo)
       IN /\ db' = Effect(db, s)
          /\ transaction' = CASE s.what = "begin" -> TRUE [] s.what = "commit" -> FALSE [] OTHER -> transaction
          /\ committed' = IF transaction' THEN committed ELSE db'
          /\ enforced' = IF s.what = "enforce" /\ (driver = "postgres" \/ ~transaction) THEN s.of ELSE enforced
    /\ todo' = Tail(todo)
    /\ cut' = (cut /\ todo' # <<>>)
    /\ UNCHANGED <<driver, runs, owned>>

(* The process stops, or a statement fails and the connection with it. *)
Crash ==
    /\ todo # <<>>
    /\ db' = committed /\ transaction' = FALSE /\ enforced' = TRUE /\ todo' = <<>>
    /\ UNCHANGED <<driver, committed, runs, cut, owned>>

-----------------------------------------------------------------------------
(* A database that is up to date is used: the key store and the private key
   store save a key, or another KMS has its private key; *)
SaveKey(k, private) ==
    /\ todo = <<>> /\ db.recorded = 4 /\ k \notin db.keys
    /\ db' = [db EXCEPT !.keys = @ \cup {k}, !.private = IF private THEN @ \cup {k} ELSE @]
    /\ committed' = db'
    /\ owned' = IF private THEN owned \cup {k} ELSE owned
    /\ UNCHANGED <<driver, transaction, enforced, todo, runs, cut>>

(* and a presentation is saved with what belongs to it, dated or not. *)
SavePresentation(p, dated) ==
    /\ todo = <<>> /\ db.recorded = 4 /\ p \notin db.presentations
    /\ dated \/ IssuanceDate \in db.optional
    /\ db' = [db EXCEPT !.presentations = @ \cup {p}, !.joined = @ \cup JoinedTo(p),
                        !.undated = IF dated THEN @ ELSE @ \cup {p}]
    /\ committed' = db'
    /\ UNCHANGED <<driver, transaction, enforced, todo, runs, cut, owned>>

Next ==
    \/ Migrate \/ Revert \/ Step \/ Crash
    \/ \E k \in Keys, private \in BOOLEAN : SaveKey(k, private)
    \/ \E p \in Presentations, dated \in BOOLEAN : SavePresentation(p, dated)

Spec == Init /\ [][Next]_vars

-----------------------------------------------------------------------------
(* Whenever the process stops, each private key is where the version of the
   database that is recorded keeps it: in its own table since the third
   migration, in a column of the key before. *)
PrivateKeysMove ==
    IF committed.recorded >= 3 THEN owned \subseteq committed.private
    ELSE owned \subseteq committed.inColumn

(* No change of a table takes the rows along that refer to it. *)
JoinedRowsStay == \A p \in committed.presentations : JoinedTo(p) \subseteq committed.joined

(* A database that says it is up to date takes presentations without a date,
   unless a revert was cut off. *)
UpToDateTakesAll ==
    todo = <<>> /\ db.recorded = 4 /\ ~cut =>
        {IssuanceDate, Change("key", "identifierDid"), Change("service", "identifierDid")} \subseteq db.optional
=============================================================================
