------------------------------ MODULE SqlEngine -------------------------------
(***************************************************************************)
(* What the PostgreSQL store relies on: transactions at READ COMMITTED.    *)
(*                                                                         *)
(* A row is named by its table and its key; db holds the committed rows.   *)
(* A statement sees the rows committed when it starts and the writes of    *)
(* its own transaction.  One that locks or changes rows waits for the      *)
(* other holders of the rows it found, and then works on those of them     *)
(* that still match; a row that came to match meanwhile is not found.      *)
(* Locks last until the end of the transaction.  All the rows of a         *)
(* statement are locked at once, which allows more interleavings than      *)
(* locking them one by one.  Foreign keys only lengthen waits: left out.   *)
(***************************************************************************)
EXTENDS Naturals, FiniteSets, Sequences, SequencesExt

CONSTANTS
    Connections,     \* the database connections that run transactions
    None

VARIABLES
    db,              \* the committed rows
    tx,              \* the transaction of each connection
    mix,             \* the operations of this behaviour
    replaced         \* the passwords replaced so far: for the properties

vars == <<db, tx, mix, replaced>>

Absent == [st |-> "absent"]

NoArgs == [user |-> None, id |-> None, ws |-> None, val |-> None,
           new |-> None]

\* todo holds the statements still to run, each with its own parameter; waits
\* the rows a blocked statement found; seen what an earlier statement read;
\* raised whether something was committed since that it may have overlooked.
Idle == [op |-> None, arg |-> NoArgs, todo |-> <<>>, writes |-> <<>>,
         locks |-> {}, waits |-> None, seen |-> None, raised |-> FALSE]

Do(names) == [i \in 1..Len(names) |-> <<names[i], None>>]

\* The statement once for each of the identifiers.
DoEach(name, ids) == SetToSeq({name} \X ids)

Active(t) == tx[t].op # None
Runs(t, name) == tx[t].todo # <<>> /\ Head(tx[t].todo)[1] = name
Param(t) == Head(tx[t].todo)[2]
Arg(t) == tx[t].arg

-----------------------------------------------------------------------------
(* Reading.                                                                *)

View(t, k) == IF k \in DOMAIN tx[t].writes THEN tx[t].writes[k] ELSE db[k]

Table(name) == {k \in DOMAIN db : k[1] = name}
Rows(t, name) == {k \in Table(name) : View(t, k) # Absent}
The(t, name, id) == Rows(t, name) \cap {<<name, id>>}
Own(t, name) == {k \in Rows(t, name) : View(t, k).user = Arg(t).user}

Then(t, more) == [tx[t] EXCEPT !.todo = more \o Tail(@), !.waits = None]

\* A statement changes its own transaction only.
Becomes(t, state) ==
    /\ tx' = [tx EXCEPT ![t] = state]
    /\ UNCHANGED <<db, mix, replaced>>

\* A SELECT that must find what it needs, and the statements it leads to.
Selects(t, found, more) == found /\ Becomes(t, Then(t, more))

-----------------------------------------------------------------------------
(* Writing.                                                                *)

\* The rows the other transactions hold.
Held(t) == UNION {tx[c].locks : c \in Connections \ {t}}

Written(t, rows, Set(_), more) ==
    [Then(t, more) EXCEPT
       !.locks = @ \cup rows,
       !.writes = [k \in DOMAIN tx[t].writes \cup rows |->
                     IF k \in rows THEN Set(View(t, k))
                     ELSE tx[t].writes[k]]]

\* An UPDATE, DELETE or SELECT FOR UPDATE of the rows hit, evaluated anew
\* when it resumes; enough says whether the store accepts the rows it got.
Changes(t, hit, Set(_), Enough(_), more) ==
    LET found == IF tx[t].waits = None THEN hit ELSE tx[t].waits
    IN  IF found \cap Held(t) # {}
        THEN /\ tx[t].waits = None
             /\ Becomes(t, [tx[t] EXCEPT !.waits = hit])
        ELSE /\ Enough(hit \cap found)
             /\ Becomes(t, Written(t, hit \cap found, Set, more))

Same(row) == row
Gone(row) == Absent

\* A count of zero is accepted, or reported as an error.
Updates(t, hit, Set(_)) ==
    Changes(t, hit, Set, LAMBDA rows : TRUE, <<>>)
UpdatesOne(t, hit, Set(_)) ==
    Changes(t, hit, Set, LAMBDA rows : rows # {}, <<>>)

\* No other row, committed or about to be, has the unique key.
Unique(t, k, Key(_)) ==
    \A j \in Table(k[1]) \ {k} :
      /\ View(t, j) # Absent => ~Key(View(t, j))
      /\ \A c \in Connections \ {t} :
           j \in DOMAIN tx[c].writes /\ tx[c].writes[j] # Absent
           => ~Key(tx[c].writes[j])

\* An INSERT waits for another transaction that inserts the key.
Inserts(t, k, row) ==
    /\ k \notin Held(t) /\ View(t, k) = Absent
    /\ Becomes(t, Written(t, {k}, LAMBDA r : row, <<>>))

\* INSERT ... ON CONFLICT DO UPDATE; it finds the latest row of the key.
Upserts(t, k, row, Update(_), more) ==
    /\ k \notin Held(t)
    /\ Becomes(t, Written(t, {k}, LAMBDA r : IF r = Absent THEN row
                                             ELSE Update(r), more))
=============================================================================
