-------------------------- MODULE InterviewHistory --------------------------
(***************************************************************************)
(* What a client browses: the history of completed interviews, the         *)
(* favourites of a user in it, and the public questions                    *)
(* (internal/repo/interview.go, public_question.go, and their handlers).   *)
(*                                                                         *)
(* A client reads a list page by page, with two queries for each page,     *)
(* while interviews complete, are submitted and scored once more, questions*)
(* are published and favourites are toggled.  A list is a sequence in the  *)
(* order of its query.  What is new comes to its front, its end or, when   *)
(* it is sorted by score, anywhere; rows with equal sort keys may change   *)
(* places from one query to the next.                                      *)
(***************************************************************************)
EXTENDS Naturals, Sequences, FiniteSets, SequencesExt

CONSTANTS
    Row,       \* interviews, or public questions
    NoRow,     \* not one of them
    PageSize,  \* "page_size", or 20
    Toggle     \* calls of FavoriteInterview by one user

ASSUME HistoryAssumption ==
    /\ IsFiniteSet(Row)
    /\ NoRow \notin Row
    /\ PageSize \in Nat \ {0}

VARIABLES
    list,       \* which list is read
    rows,       \* the completed interviews, or the public questions, in order
    favorites,  \* how many rows interview_favorites has of the user for each
    toggle,     \* how far each toggle has come
    target,     \* its interview
    alone,      \* observer: the toggles that overlap no other one of that interview
    reader,     \* what the reading client waits for
    page,       \* the page it asks for
    totalPage,  \* what the count of this request amounts to
    pages,      \* the answers it has
    began,      \* observer: what was listed when it began
    disturbed,  \* observer: what changes of the list since then may do to it
    moved       \* observer: the rows that changed places since then

lists    == <<list, rows, favorites>>
toggles  == <<toggle, target, alone>>
reading  == <<reader, page, totalPage, pages, began>>
observed == <<disturbed, moved>>
vars     == <<lists, toggles, reading, observed>>

List == {"recent", "oldest", "score", "favorites", "public"}

IsFavorite(i) == favorites[i] > 0

\* HasFavoritesWith is an EXISTS: an interview is listed once, however many rows
\* it has there.
Listed == {i \in ToSet(rows) : list = "favorites" => IsFavorite(i)}

Place(i) == CHOOSE k \in 1..Len(rows) : rows[k] = i

\* The number of a row in the result of the query.
Rank(i) == Cardinality({j \in Listed : Place(j) <= Place(i)})

Ranked(n) == CHOOSE i \in Listed : Rank(i) = n

\* Mutant: the favourites are joined, which lists an interview once per row.
QueryJoined ==
    FlattenSeq([n \in 1..Cardinality(Listed) |->
        [j \in 1..(IF list = "favorites" THEN favorites[Ranked(n)] ELSE 1) |-> Ranked(n)]])

Query == [n \in 1..Cardinality(Listed) |-> Ranked(n)]

Init ==
    /\ list \in List
    /\ rows = <<>>
    /\ favorites \in [Row -> IF list = "favorites" THEN {0, 1} ELSE {0}]
    /\ toggle = [t \in Toggle |-> "new"]
    /\ target = [t \in Toggle |-> NoRow]
    /\ alone = {}
    /\ reader = "idle"
    /\ page = 1
    /\ totalPage = 0
    /\ pages = <<>>
    /\ began = {}
    /\ disturbed = {}
    /\ moved = {}

-----------------------------------------------------------------------------
(* The tables.                                                             *)

Busy(t) == toggle[t] \in {"exist", "delete", "create"}

Reading == reader \in {"count", "fetch"}

\* What a longer list pushes back is shown again, or is beyond the page that was
\* to be the last; what a shorter list draws forward is skipped.
Disturb(more) ==
    disturbed' = disturbed \cup
        IF ~Reading THEN {}
        ELSE more \cup
             CASE Cardinality(Listed') > Cardinality(Listed) ->
                    {"repeat"} \cup IF reader = "fetch" /\ page = totalPage THEN {"skip"} ELSE {}
               [] Cardinality(Listed') < Cardinality(Listed) -> {"skip"}
               [] OTHER -> {}

Move(those) == moved' = IF Reading THEN moved \cup those ELSE moved

\* Where the order of the list may want a row among n others.
Places(n) == CASE list = "oldest" -> {n + 1}
               [] list = "score"  -> 1..(n + 1)
               [] OTHER           -> {1}

\* An interview is completed, or a question published.
Arrive(i) ==
    /\ i \in Row \ ToSet(rows)
    /\ \E k \in Places(Len(rows)) : rows' = InsertAt(rows, k, i)
    /\ UNCHANGED <<list, favorites, toggles, reading, moved>>
    /\ Disturb({})

\* A submission that read the interview before it was completed writes it back as
\* PENDING.
Leave(i) ==
    /\ list # "public"
    /\ i \in ToSet(rows)
    /\ rows' = RemoveAt(rows, Place(i))
    /\ UNCHANGED <<list, favorites, toggles, reading, moved>>
    /\ Disturb({})

\* A second submission completes an interview that is completed: updated_at, by
\* which lists are sorted, and the score are new.
Rate(i) ==
    /\ list # "public"
    /\ i \in ToSet(rows)
    /\ UNCHANGED <<list, favorites, toggles, reading>>
    /\ \E k \in Places(Len(rows) - 1) :
        /\ rows' = InsertAt(RemoveAt(rows, Place(i)), k, i)
        /\ Disturb(CASE i \notin Listed \/ k = Place(i) -> {}
                     [] k < Place(i)                    -> {"repeat"}
                     [] OTHER                           -> {"skip"})
    /\ Move({i})

\* Two neighbours with the same score, number of questions or second of updated_at
\* come in the other order from the next query; public questions have unique ids.
Swap(k) ==
    /\ list # "public"
    /\ k \in 1..(Len(rows) - 1)
    /\ rows' = [rows EXCEPT ![k] = rows[k + 1], ![k + 1] = rows[k]]
    /\ Move({rows[k], rows[k + 1]})
    /\ UNCHANGED <<list, favorites, toggles, reading, disturbed>>

\* FavoriteInterview, for any interview, completed or not.
BeginToggle(t) ==
    /\ toggle[t] = "new"
    /\ list = "favorites"
    /\ \E i \in Row :
        LET others == {u \in Toggle : Busy(u) /\ target[u] = i}
        IN  /\ target' = [target EXCEPT ![t] = i]
            /\ alone' = (alone \ others) \cup (IF others = {} THEN {t} ELSE {})
    /\ toggle' = [toggle EXCEPT ![t] = "exist"]
    /\ UNCHANGED <<lists, reading, observed>>

Enter(t, next) == toggle' = [toggle EXCEPT ![t] = next] /\ UNCHANGED <<target, alone>>

End(t, result) ==
    /\ toggle' = [toggle EXCEPT ![t] = result]
    /\ target' = [target EXCEPT ![t] = NoRow]
    /\ alone' = alone \ {t}

\* Favorite asks whether there is a row ...
Exist(t) ==
    /\ toggle[t] = "exist"
    /\ \/ Enter(t, IF IsFavorite(target[t]) THEN "delete" ELSE "create")
       \/ End(t, "failed")
    /\ UNCHANGED <<lists, reading, observed>>

\* Mutant: one row is deleted.
DeleteOne(t) ==
    /\ toggle[t] = "delete"
    /\ favorites' = [favorites EXCEPT ![target[t]] = IF @ = 0 THEN 0 ELSE @ - 1]
    /\ End(t, "done")
    /\ UNCHANGED <<list, rows, reading, moved>>
    /\ Disturb({})

\* ... and deletes what there is ...
Delete(t) ==
    /\ toggle[t] = "delete"
    /\ \/ favorites' = [favorites EXCEPT ![target[t]] = 0] /\ End(t, "done")
       \/ End(t, "failed") /\ UNCHANGED favorites
    /\ UNCHANGED <<list, rows, reading, moved>>
    /\ Disturb({})

\* ... or inserts one: no index of the table forbids a second.
Create(t) ==
    /\ toggle[t] = "create"
    /\ \/ favorites' = [favorites EXCEPT ![target[t]] = @ + 1] /\ End(t, "done")
       \/ End(t, "failed") /\ UNCHANGED favorites
    /\ UNCHANGED <<list, rows, reading, moved>>
    /\ Disturb({})

-----------------------------------------------------------------------------
(* The client that reads one page after the other.                         *)

BeginReading ==
    /\ reader = "idle"
    /\ reader' = "count"
    /\ began' = Listed
    /\ UNCHANGED <<lists, toggles, page, totalPage, pages, observed>>

\* Go divides towards zero: no rows make one page.
Pages(count) == IF count = 0 THEN 1 ELSE (count - 1) \div PageSize + 1

\* The count; its error is dropped, and counts as no rows.  Without rows the
\* history is empty, while a page of public questions is fetched all the same.
Count ==
    /\ reader = "count"
    /\ \E failed \in BOOLEAN :
        LET count == IF failed THEN 0 ELSE Cardinality(Listed)
            empty == count = 0 /\ list # "public"
        IN  /\ totalPage' = IF empty THEN 0 ELSE Pages(count)
            /\ reader' = IF empty THEN "done" ELSE "fetch"
            /\ disturbed' = disturbed \cup (IF failed THEN {"skip"} ELSE {})
    /\ UNCHANGED <<lists, toggles, page, pages, began, moved>>

Window(offset, limit) ==
    SubSeq(Query, offset + 1, IF offset + limit < Len(Query) THEN offset + limit ELSE Len(Query))

\* Mutant: the first page has offset PageSize.
OffsetByOne(k) == Window(k * PageSize, PageSize)

\* Offset and Limit.
OffsetLimit(k) == Window((k - 1) * PageSize, PageSize)

\* The page; the client goes on as long as there are more.
Fetch ==
    /\ reader = "fetch"
    /\ \/ /\ pages' = Append(pages, OffsetLimit(page))
          /\ reader' = IF page < totalPage THEN "count" ELSE "done"
          /\ page' = IF page < totalPage THEN page + 1 ELSE page
       \/ reader' = "failed" /\ UNCHANGED <<pages, page>>
    /\ UNCHANGED <<lists, toggles, totalPage, began, observed>>

-----------------------------------------------------------------------------
Next ==
    \/ \E i \in Row : Arrive(i) \/ Leave(i) \/ Rate(i)
    \/ \E k \in 1..Len(rows) : Swap(k)
    \/ \E t \in Toggle : BeginToggle(t) \/ Exist(t) \/ Delete(t) \/ Create(t)
    \/ BeginReading \/ Count \/ Fetch

Spec == Init /\ [][Next]_vars

-----------------------------------------------------------------------------
(* Properties.                                                             *)

Shown == UNION {ToSet(pages[k]) : k \in 1..Len(pages)}

\* Every variable has its type, and no page is larger than it may be.
TypeOK ==
    /\ list \in List
    /\ rows \in Seq(Row)
    /\ favorites \in [Row -> Nat]
    /\ toggle \in [Toggle -> {"new", "exist", "delete", "create", "done", "failed"}]
    /\ target \in [Toggle -> Row \cup {NoRow}]
    /\ alone \in SUBSET Toggle
    /\ reader \in {"idle", "count", "fetch", "done", "failed"}
    /\ page \in Nat \ {0}
    /\ totalPage \in Nat
    /\ pages \in Seq(Seq(Row)) /\ \A k \in 1..Len(pages) : Len(pages[k]) <= PageSize
    /\ began \in SUBSET Row
    /\ disturbed \in SUBSET {"repeat", "skip"}
    /\ moved \in SUBSET Row

\* A client that has read all pages has seen every row that was listed when it
\* began and kept its place among the others, whatever was added meanwhile or, once
\* rated again, came before it.  Skipped it may have been only if a row left the
\* list or went behind it (the rows after it move to a page that was read), a count
\* failed, which is not reported, or the list grew between the count and the last
\* page (a row is pushed out of the page that was to be the last).
NothingSkipped ==
    reader = "done" /\ "skip" \notin disturbed => began \ moved \subseteq Shown

\* It sees no row twice that kept its place, unless one was added or came before
\* it, whatever left, and although an interview may have several rows in
\* interview_favorites.
ShownOnce ==
    "repeat" \notin disturbed =>
        \A k, l \in 1..Len(pages) : \A i \in 1..Len(pages[k]), j \in 1..Len(pages[l]) :
            pages[k][i] = pages[l][j] /\ pages[k][i] \notin moved => k = l /\ i = j

\* Whatever two toggles at the same time have left behind (two rows, say), the
\* next toggle on its own makes a favourite of what is none, or the reverse.
LoneToggleInverts ==
    [][\A t \in alone : Busy(t) /\ toggle'[t] = "done" =>
            (favorites'[target[t]] > 0) # IsFavorite(target[t])]_vars
=============================================================================
