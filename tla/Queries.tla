------------------------------ MODULE Queries ------------------------------
(***************************************************************************)
(* How the two implementations of IDataStoreORM answer a query: buildQuery *)
(* over the tables of data-store-json, and the SQL that data-store builds  *)
(* (createWhereObject, decorateQB); each against what the interface asks   *)
(* for.  One query is asked in a behaviour.                                *)
(***************************************************************************)
EXTENDS Naturals, Sequences, FiniteSets, SequencesExt, Filters

CONSTANTS
    Tables,     \* tables: entries, in the order they were inserted
    Conditions, \* the conditions that queries may make
    MaxWhere,   \* bounds the conditions of a query
    MaxPage     \* bounds skip and take

(* A table has identifiers, presentations or something else: messages, claims or
   credentials.  An entry has a column with a text, one with a date, and one that
   may be absent; the DID that it is, or is of; the verifiers of a presentation;
   and as many SQL rows as it has joined keys, services, credentials and so on. *)
Absent == 99
Columns == {"text", "date", "maybe"}
Parties == {"alice", "bob"}
Value == Nat \ {Absent}
Entry == [id: Nat, text: Value, date: Value, maybe: Value \cup {Absent}, party: Parties,
          verifier: SUBSET Parties, rows: Nat \ {0}]
Kinds == {"identifiers", "presentations", "others"}

Ops == {"Equal", "LessThan", "In", "IsNull"}
Condition == [column: Columns, op: Ops, value: SUBSET Value, not: BOOLEAN]
VerifierCondition ==
    [column: {"verifier"}, op: {"Equal", "In", "IsNull"}, dids: SUBSET Parties, not: BOOLEAN]

\* An entry has a greater id than those inserted before it.
QueriesAssumption ==
    /\ \A table \in Tables :
          /\ table.of \in Kinds /\ table.entries \in Seq(Entry)
          /\ \A i, j \in DOMAIN table.entries : i < j => table.entries[i].id < table.entries[j].id
          /\ table.of # "presentations" => \A i \in DOMAIN table.entries : table.entries[i].verifier = {}
    /\ \A c \in Conditions : IF c.column = "verifier" THEN c \in VerifierCondition ELSE c \in Condition
    /\ MaxWhere \in Nat /\ MaxPage \in Nat

OnVerifier(where, i) == where[i].column = "verifier"

(* An order by columns that every entry has; 0 stands for a skip or take that is
   not given; only presentations have verifiers. *)
Orders == {<<>>} \cup [1..1 -> [column: {"text", "date"}, desc: BOOLEAN]]
                 \cup {<<[column |-> "date", desc |-> TRUE], [column |-> "text", desc |-> FALSE]>>}
Args == {args \in [table: Tables, where: UNION {[1..n -> Conditions] : n \in 0..MaxWhere}, order: Orders,
                   skip: 0..MaxPage, take: 0..MaxPage, authorizedDID: Parties \cup {"anyone"}] :
           (\E i \in DOMAIN args.where : OnVerifier(args.where, i)) => args.table.of = "presentations"}

VARIABLE call
NoCall == [of |-> "nothing"]
Init == call = NoCall
Query == call = NoCall /\ \E args \in Args : call' = [of |-> "query", args |-> args]
Spec == Init /\ [][Query]_call
Asked == call.of = "query"

-----------------------------------------------------------------------------
(* What each condition means *)
Holds(c, x) ==
    CASE c.op \in {"Equal", "In"} -> x \in c.value
      [] c.op = "LessThan" -> x # Absent /\ \A v \in c.value : x < v
      [] c.op = "IsNull" -> x = Absent

HoldsOf(c, verifiers) == IF c.op = "IsNull" THEN verifiers = {} ELSE verifiers \cap c.dids # {}

Meets(c, e) ==
    (IF c.column = "verifier" THEN HoldsOf(c, e.verifier) ELSE Holds(c, e[c.column])) # c.not

(* Whether an entry comes before another in an order; entries that agree on all
   its columns stay as they were inserted. *)
Before(order, d, e) ==
    \E i \in DOMAIN order :
        /\ \A j \in 1..(i - 1) : d[order[j].column] = e[order[j].column]
        /\ IF order[i].desc THEN d[order[i].column] > e[order[i].column]
                            ELSE d[order[i].column] < e[order[i].column]
Comes(d, e, order) == Before(order, d, e) \/ (~Before(order, e, d) /\ d.id < e.id)
(* The next entry goes behind those that come before it. *)
Inserted(sorted, e, order) ==
    LET at == Cardinality({i \in DOMAIN sorted : Comes(sorted[i], e, order)})
    IN SubSeq(sorted, 1, at) \o <<e>> \o SubSeq(sorted, at + 1, Len(sorted))
Sorted(entries, order) ==
    LET sorted[i \in 0..Len(entries)] ==
            IF i = 0 THEN <<>> ELSE Inserted(sorted[i - 1], entries[i], order)
    IN sorted[Len(entries)]

From(entries, skip) == SubSeq(entries, skip + 1, Len(entries))
Page(entries, skip, take) ==
    IF take = 0 THEN From(entries, skip)
    ELSE SubSeq(entries, skip + 1, IF skip + take > Len(entries) THEN Len(entries) ELSE skip + take)

Authorized(e, did) == did \in {"anyone", e.party} \cup e.verifier

\* The entries that a test lets through
Selected(entries, Test(_)) == Without(entries, {e \in Range(entries) : ~Test(e)})

(* What a query asks for: the entries that meet every condition and that the
   caller is a party to, in the order given, without the first `skip`, at most
   `take` of them. *)
Answer(args) ==
    Page(Sorted(Selected(args.table.entries, LAMBDA e :
            /\ \A i \in DOMAIN args.where : Meets(args.where[i], e)
            /\ Authorized(e, args.authorizedDID)), args.order),
         args.skip, args.take)

-----------------------------------------------------------------------------
(* data-store-json: buildFilter.  The value of a comparison is a string, which no
   Date is equal to or less than, and a list of verifiers is never absent. *)
JsonHolds(c, e) ==
    /\ c.column = "date" => c.op = "IsNull" /\ Holds(c, e.date)
    /\ c.column = "verifier" => c.op # "IsNull" /\ HoldsOf(c, e.verifier)
    /\ c.column \in {"text", "maybe"} => Holds(c, e[c.column])
JsonMeets(c, e) == JsonHolds(c, e) # c.not

JsonFilter(args, e) == \A i \in DOMAIN args.where : JsonMeets(args.where[i], e)

\* The page is cut from what is left after skipping as if nothing was skipped yet.
JsonPageTwice(entries, skip, take) ==
    LET rest == From(entries, skip)
    IN IF take = 0 THEN rest ELSE Page(rest, skip, take)

(* buildQuery: what is skipped is cut off, and the page is cut from the rest,
   again from skip - 1. *)
JsonPage(entries, skip, take) ==
    LET rest == From(entries, skip)
        start == IF skip = 0 THEN 0 ELSE skip - 1
    IN IF take = 0 THEN rest ELSE Page(rest, start, take)

JsonQuery(args) ==
    JsonPage(Sorted(Selected(Selected(args.table.entries, LAMBDA e : JsonFilter(args, e)),
                             LAMBDA e : Authorized(e, args.authorizedDID)), args.order),
             args.skip, args.take)

-----------------------------------------------------------------------------
(* data-store: createWhereObject leaves the verifiers out; a later condition on a
   column takes the place of an earlier one. *)
LastOn(where, i) == ~\E j \in (i + 1)..Len(where) : where[j].column = where[i].column
(* A comparison with NULL is neither true nor false, and selects nothing, negated
   or not; dates are those of a database that has a type for them. *)
SqlMeets(c, e) ==
    IF e[c.column] = Absent /\ c.op # "IsNull" THEN FALSE ELSE Meets(c, e)
\* Only the first condition of a query counts.
SqlWhereFirst(args, e) ==
    \A i \in DOMAIN args.where : i = 1 /\ ~OnVerifier(args.where, i) => SqlMeets(args.where[i], e)
SqlWhere(args, e) ==
    \A i \in DOMAIN args.where :
        LastOn(args.where, i) /\ ~OnVerifier(args.where, i) => SqlMeets(args.where[i], e)

(* The rows that an entry has once its tables are joined: a presentation has one
   for each of its verifiers. *)
Joined(of, e) ==
    IF of = "presentations" THEN {1} \X (IF e.verifier = {} THEN {"nobody"} ELSE e.verifier)
    ELSE (1..e.rows) \X {"nobody"}

(* addVerifierQuery: of the conditions on verifiers the first counts, negated or
   not, for each row by itself. *)
FirstOnVerifier(where, i) == OnVerifier(where, i) /\ ~\E j \in 1..(i - 1) : OnVerifier(where, j)
SqlVerifier(args, row) ==
    \A i \in DOMAIN args.where : FirstOnVerifier(args.where, i) =>
        IF args.where[i].op = "IsNull" THEN row[2] = "nobody" ELSE row[2] \in args.where[i].dids

\* Presentations are anybody's.
SqlAuthorizedHalf(args, e, row) ==
    args.table.of \in {"identifiers", "presentations"} \/ args.authorizedDID \in {"anyone", e.party}
(* Nor does the authorized DID reach the query for identifiers (identifiersQuery);
   the others compare it with the parties of each row. *)
SqlAuthorized(args, e, row) ==
    args.table.of = "identifiers" \/ args.authorizedDID \in {"anyone", e.party, row[2]}

Matching(args, e) ==
    {row \in Joined(args.table.of, e) :
        SqlWhere(args, e) /\ SqlVerifier(args, row) /\ SqlAuthorized(args, e, row)}

(* decorateQB: each orderBy replaces the one before; offset and limit count the
   rows of the joined tables, and an entry is there once for its rows. *)
SqlOrder(order) == IF order = <<>> THEN <<>> ELSE <<order[Len(order)]>>
SqlRows(args, entries) ==
    UNION {{i} \X (1..Cardinality(Matching(args, entries[i]))) : i \in DOMAIN entries}
RowNumber(row, rows) == Cardinality({r \in rows : r[1] < row[1] \/ (r[1] = row[1] /\ r[2] <= row[2])})
InPage(row, rows, skip, take) ==
    /\ skip < RowNumber(row, rows)
    /\ take # 0 => RowNumber(row, rows) <= skip + take
SqlPage(args, entries) ==
    LET rows == SqlRows(args, entries)
    IN Selected(entries, LAMBDA e :
            \E row \in rows : entries[row[1]] = e /\ InPage(row, rows, args.skip, args.take))

(* Identifiers are ordered by a column of a table that is not in the query, which
   the database refuses. *)
SqlRefuses(args) == args.table.of = "identifiers" /\ args.order # <<>>
SqlQuery(args) ==
    IF SqlRefuses(args) THEN <<>>
    ELSE SqlPage(args, Sorted(Selected(args.table.entries, LAMBDA e : Matching(args, e) # {}),
                              SqlOrder(args.order)))

-----------------------------------------------------------------------------
(* What is asked for within what each store keeps to.  The JSON store: pages that
   do not begin behind the second entry (buildQuery skips twice), no comparison
   with a date (a Date and a string), and nothing about having no verifier. *)
WithinJson(args) ==
    /\ args.skip <= 1 \/ args.take = 0
    /\ \A i \in DOMAIN args.where :
          /\ args.where[i].column = "date" => args.where[i].op = "IsNull"
          /\ OnVerifier(args.where, i) => args.where[i].op # "IsNull"

(* The SQL store: one condition for a column (the last one counts, for verifiers
   the first), one order (the last one counts), and no negation of what is absent;
   verifiers that are not negated, nor asked for by an authorized DID (no row has
   both); identifiers in no order and as anyone; and pages of entries with one
   joined row each. *)
Distinct(where) == \A i \in DOMAIN where : LastOn(where, i)
NegatesAbsent(where) ==
    \E i \in DOMAIN where : where[i].not /\ where[i].column = "maybe" /\ where[i].op # "IsNull"
PlainVerifiers(args) ==
    \A i \in DOMAIN args.where :
        OnVerifier(args.where, i) => ~args.where[i].not /\ args.authorizedDID = "anyone"
WithinSql(args) ==
    /\ Distinct(args.where) /\ Len(args.order) <= 1
    /\ ~NegatesAbsent(args.where) /\ PlainVerifiers(args)
    /\ args.table.of = "identifiers" => args.order = <<>> /\ args.authorizedDID = "anyone"
    /\ \/ \A i \in DOMAIN args.table.entries :
              Cardinality(Joined(args.table.of, args.table.entries[i])) = 1
       \/ args.skip = 0 /\ args.take = 0

(* Within that, the answer of either store is the one that was asked for:
   conditions, the caller's own entries, the order, pages. *)
JsonAnswers == Asked /\ WithinJson(call.args) => JsonQuery(call.args) = Answer(call.args)
SqlAnswers == Asked /\ WithinSql(call.args) => SqlQuery(call.args) = Answer(call.args)

(* Neither store ever answers with an entry that the authorized DID is no party
   to, whatever the conditions, orders and pages; but for the identifiers of the
   SQL store, of which it answers with everybody's. *)
OwnEntriesOnly ==
    Asked =>
        LET own == {e \in Range(call.args.table.entries) : Authorized(e, call.args.authorizedDID)} IN
        /\ Range(JsonQuery(call.args)) \subseteq own
        /\ Range(SqlQuery(call.args)) \subseteq own \/ call.args.table.of = "identifiers"
=============================================================================
