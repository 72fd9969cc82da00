------------------------------- MODULE ListPages -------------------------------
(***************************************************************************)
(* Walking page by page through the lists of staff and of users            *)
(* (getStaffLists in src/src/app/modules/staff/staff.service.ts and        *)
(* getStaffUserListsPaginate in staff/user/staff-user.service.ts), while   *)
(* the rows change.                                                        *)
(*                                                                         *)
(* A page is asked for by the id its predecessor ended with.  The rows     *)
(* after it and their number are two queries, each of the table as it is   *)
(* then.                                                                   *)
(***************************************************************************)
EXTENDS Naturals, Sequences, SequencesExt, FiniteSetsExt

CONSTANTS
    Ids,            \* the autoincremented ids, 1 .. n
    Keys,           \* values of the column that orders the list
    MaxChanges,     \* bound on the changes of rows
    first,          \* the size of a page
    Null

PageAssumption ==
    /\ first \in Nat \ {0} /\ Ids \subseteq Nat /\ Keys \subseteq Nat /\ MaxChanges \in Nat
    /\ Null \notin Ids

VARIABLES
    rows,       \* the table
    arg,        \* the list that is walked, and its arguments
    lastId,     \* the highest id that has been given
    walk,       \* the pages so far
    changes,    \* how many rows have changed
    steady,     \* rows that are as they were when the walk began
    touched     \* the row the walk stood on has changed

vars == <<rows, lastId, arg, walk, changes, steady, touched>>

(* `hits` are the columns that contain the query, `fits` says that staff    *)
(* have a role or that a user has the status that is asked for.            *)
Columns == {"name", "username", "email"}
Row == [key: Keys, hits: {{"name"}, Columns}, fits: BOOLEAN]
NullAssumption == Null \notin Row

Arg == [list: {"staff", "users"}, query: BOOLEAN, status: BOOLEAN, orderBy: BOOLEAN]
Walk == [at: {"page", "count", "end"}, seen: Seq(Ids), after: Ids \cup {Null},
         total: Nat \cup {Null}, more: BOOLEAN]

TypeOK ==
    /\ rows \in [Ids -> Row \cup {Null}]
    /\ lastId \in Ids /\ arg \in Arg /\ walk \in Walk
    /\ changes \in 0..MaxChanges /\ steady \subseteq Ids /\ touched \in BOOLEAN
    /\ walk.after # Null => walk.after = Last(walk.seen)

Existing == {i \in Ids : rows[i] # Null}

Init ==
    /\ rows \in [Ids -> Row \cup {Null}]
    /\ lastId \in Ids /\ \A i \in Existing : i <= lastId
    /\ arg \in Arg
    /\ walk = [at |-> "page", seen |-> <<>>, after |-> Null, total |-> Null, more |-> TRUE]
    /\ changes = 0 /\ steady = Existing /\ touched = FALSE

--------------------------------------------------------------------------------
(* The conditions of both queries.  The one alternative of the staff search *)
(* asks for the text in every column at once, those of users in any.       *)
staffWhere(row) == row.fits /\ (arg.query => row.hits = Columns)
userWhere(row) == (arg.status => row.fits) /\ (arg.query => row.hits # {})
where(row) == IF arg.list = "staff" THEN staffWhere(row) ELSE userWhere(row)

countWhere(row) == where(row)

(* The order of two rows: by the column, if one is given, then by the id.   *)
Before(i, j) ==
    \/ arg.orderBy /\ rows[i].key < rows[j].key
    \/ (arg.orderBy => rows[i].key = rows[j].key) /\ i < j

Ordered(S) == CHOOSE s \in SetToSeqs(S) : \A j, k \in DOMAIN s : j < k => Before(s[j], s[k])

(* From the row of the cursor on, as it is now; that row need not match.    *)
FromCursor ==
    IF walk.after = Null THEN Ordered({i \in Existing : where(rows[i])})
    ELSE IF rows[walk.after] = Null THEN <<>>
    ELSE Ordered({i \in Existing : where(rows[i]) /\ ~Before(i, walk.after)})

(* Variant: none is dropped. *)
NodesAfter_NoSkip == FromCursor

(* `skip: 1` drops the first of them, whichever row it is.                  *)
NodesAfter == IF walk.after = Null \/ FromCursor = <<>> THEN FromCursor ELSE Tail(FromCursor)

Page(nodes) == SubSeq(nodes, 1, Min({first, Len(nodes)}))

getPage ==
    /\ walk.at = "page"
    /\ LET page == Page(NodesAfter) IN
       walk' = [walk EXCEPT !.at = "count", !.seen = @ \o page,
                            !.after = IF page = <<>> THEN @ ELSE Last(page),
                            !.more = Len(NodesAfter) > first]
    /\ UNCHANGED <<rows, lastId, arg, changes, steady, touched>>

count ==
    /\ walk.at = "count"
    /\ walk' = [walk EXCEPT !.at = IF walk.more THEN "page" ELSE "end",
                            !.total = Cardinality({i \in Existing : countWhere(rows[i])})]
    /\ UNCHANGED <<rows, lastId, arg, changes, steady, touched>>

--------------------------------------------------------------------------------
Changed(i) ==
    /\ walk.at # "end" /\ changes < MaxChanges /\ changes' = changes + 1
    /\ steady' = steady \ {i}
    /\ touched' = (touched \/ i = walk.after)
    /\ UNCHANGED <<arg, walk>>

(* createStaff, or a first login: the next id. *)
create(i, row) ==
    /\ i = lastId + 1 /\ lastId' = i
    /\ rows' = [rows EXCEPT ![i] = row]
    /\ Changed(i)

(* updateStaff, updateUserStatus, or a role that is deleted. *)
update(i, row) ==
    /\ rows[i] # Null /\ rows[i] # row
    /\ rows' = [rows EXCEPT ![i] = row] /\ lastId' = lastId
    /\ Changed(i)

(* deleteStaff; users are never deleted. *)
delete(i) ==
    /\ arg.list = "staff" /\ rows[i] # Null
    /\ rows' = [rows EXCEPT ![i] = Null] /\ lastId' = lastId
    /\ Changed(i)

Next ==
    \/ getPage \/ count
    \/ \E i \in Ids :
          delete(i) \/ \E row \in Row : create(i, row) \/ update(i, row)

Spec == Init /\ [][Next]_vars

--------------------------------------------------------------------------------
Matching == {i \in steady : where(rows[i])}
Times(i) == Cardinality({k \in DOMAIN walk.seen : walk.seen[k] = i})

(* Whatever happens to other rows, a walk shows each row that stays as it   *)
(* is exactly once, unless the row a page ended with was changed or deleted *)
(* before the next page: then rows are shown again, or one is left out.    *)
SteadyRowsAreShownOnce ==
    walk.at = "end" /\ ~touched => \A i \in Matching : Times(i) = 1

(* When nothing changes, the number on each page is that of the walk.       *)
TotalIsWhatTheWalkShows ==
    walk.at = "end" /\ changes = 0 => walk.total = Len(walk.seen)
================================================================================
