------------------------------- MODULE Paging -------------------------------
(***************************************************************************)
(* The paged lists: detection schemas (respond/internal/service over       *)
(* repository/postgres.go), alerts (respond/internal/storage), saved       *)
(* searches by page number and by cursor (search/internal).  A client      *)
(* walks a list page after page, by number up to the last page that the    *)
(* latest answer announces, as the web pages do, by cursor until an answer *)
(* gives none, while others create, change and hide items between its      *)
(* requests, and between the count and the page query of one request.      *)
(*                                                                         *)
(* An item's version is its version_id, its time the column a list sorts   *)
(* by.  Versions of schemas are UUIDv7 and grow with time; items of the    *)
(* other lists may share a time.  Cases have a list too, whose statements  *)
(* name columns that the shipped schema lacks: it is not modelled.         *)
(***************************************************************************)
EXTENDS Integers, Sequences, SequencesExt, FiniteSets

CONSTANTS
  MaxItems,       \* items at the start of a walk
  MaxChanges,     \* changes made during a walk
  DefaultLimit,   \* the page size when none, or an unusable one, is asked for
  MaxLimit,       \* the largest page size
  ResultWindow    \* how far into a result OpenSearch serves pages

ASSUME PagingAssumption ==
  /\ MaxItems \in Nat /\ MaxChanges \in Nat /\ MaxLimit \in Nat
  /\ ResultWindow \in Nat
  /\ DefaultLimit \in 1 .. MaxLimit

VARIABLE listing  \* a walk through a list

Offsets == {"schemas", "alerts", "searches"}
Lists == Offsets \cup {"after"}

-----------------------------------------------------------------------------
(***************************************************************************)
(* One request.                                                            *)
(***************************************************************************)
\* A limit that is too large is clamped for schemas, replaced for the others.
Limit(list, asked) ==
  IF asked \in 1 .. MaxLimit THEN asked
  ELSE IF list = "schemas" /\ asked > MaxLimit THEN MaxLimit ELSE DefaultLimit

\* A plausible mistake: a page starts with the last item of the one before.
OverlappingOffset(page, limit) == IF page = 1 THEN 0 ELSE (page - 1) * limit - 1
Offset(page, limit) == (page - 1) * limit

TotalPages(list, total, limit) ==
  LET pages == (total + limit - 1) \div limit
  IN  IF list = "alerts" /\ pages < 1 THEN 1 ELSE pages

\* The web pages offer Next up to the page announced, `total_pages || 1`.
IsLastPage(list, page, total, limit) ==
  page >= TotalPages(list, total, limit)

\* ORDER BY: active saved searches come first, then the newest.  Without the
\* version in the order, items of the same time have no order.
ActiveFirst(a, b) == ~a.disabled /\ b.disabled
Later(a, b) == a.time > b.time \/ (a.time = b.time /\ a.version > b.version)

\* A plausible mistake: offset lists start with the oldest.
OldestFirst(list, a, b) ==
  CASE list = "schemas" -> a.version < b.version
    [] list \in {"alerts", "searches"} -> a.time < b.time
    [] list = "after" -> \/ ActiveFirst(a, b)
                         \/ a.disabled = b.disabled /\ Later(a, b)

Precedes(list, a, b) ==
  CASE list = "schemas" -> a.version > b.version
    [] list = "alerts" -> a.time > b.time
    [] list = "searches" -> \/ ActiveFirst(a, b)
                            \/ a.disabled = b.disabled /\ a.time > b.time
    [] list = "after" -> \/ ActiveFirst(a, b)
                         \/ a.disabled = b.disabled /\ Later(a, b)

Sorted(list, items) ==
  {s \in SetToSeqs(items) :
     \A i, j \in DOMAIN s : i < j => ~Precedes(list, s[j], s[i])}

Slice(s, offset, limit) ==
  SubSeq(s, offset + 1, IF offset + limit < Len(s) THEN offset + limit ELSE Len(s))

\* A plausible mistake: the cursor without its tie-break.
AfterTime(items, cursor) == {i \in items : i.time < cursor.time}

\* WHERE (created_at, version_id) < ($1, $2)
After(items, cursor) == {i \in items : Later(cursor, i)}

-----------------------------------------------------------------------------
(***************************************************************************)
(* A walk.                                                                 *)
(***************************************************************************)
Item(id, time, disabled) ==
  [id |-> id, time |-> time, version |-> id, disabled |-> disabled,
   malformed |-> FALSE]

Ids(items) == {i.id : i \in items}

\* A hit that is no alert is counted and skipped.
Shown(items) == {i \in items : ~i.malformed}

Fresh(l) == MaxItems + l.changes + 1

\* The items a list starts with: only some lists have shared times, only the
\* saved searches show disabled items, and only alerts are malformed.
StartTimes(list, N) ==
  {t \in [1 .. N -> 1 .. N] :
     \A n \in 1 .. N : \/ t[n] = n
                       \/ list # "schemas" /\ n > 1 /\ t[n] = t[n - 1]}

StartDisabled(list, N) ==
  {d \in [1 .. N -> BOOLEAN] :
     list \in {"searches", "after"} \/ \A n \in 1 .. N : ~d[n]}

StartMalformed(list, N) == IF list = "alerts" THEN SUBSET (1 .. N) ELSE {{}}

ItemsOf(N, time, disabled, malformed) ==
  {[Item(n, time[n], disabled[n]) EXCEPT !.malformed = (n \in malformed)] : n \in 1 .. N}

StartItems(list) ==
  UNION {{ItemsOf(N, time, disabled, malformed) :
            time \in StartTimes(list, N), disabled \in StartDisabled(list, N),
            malformed \in StartMalformed(list, N)} :
         N \in 0 .. MaxItems}

\* No answer by page number gives a first cursor.  A client writes one, later
\* than every search, or has none, or one that parseCursor reads as none.
NoCursor == Item(0, 0, FALSE)
TopCursor == Item(2 * MaxItems + MaxChanges, 2 * MaxItems + MaxChanges, FALSE)

PagingInit ==
  \E list \in Lists, asked \in {0, 1, 2, MaxLimit + 1} :
    \E items \in StartItems(list),
       cursor \in IF list = "after" THEN {NoCursor, TopCursor} ELSE {NoCursor} :
      listing = [at |-> "ask", list |-> list, limit |-> Limit(list, asked),
                 items |-> items, start |-> items, page |-> 1, total |-> 0,
                 cursor |-> cursor, seen |-> {}, repeated |-> FALSE,
                 changes |-> 0, touched |-> {}, shrunk |-> FALSE,
                 late |-> FALSE]

\* The count query.  Alerts and cursor pages take one request only.
CountItems ==
  /\ listing.at = "ask" /\ listing.list \in Offsets \ {"alerts"}
  /\ listing' = [listing EXCEPT !.at = "counted", !.late = FALSE,
                                !.total = Cardinality(listing.items)]

Fetched(l, result, last) ==
  LET shown == Ids(Shown(ToSet(result)))
  IN  [l EXCEPT !.at = IF last THEN "done" ELSE "ask",
                !.seen = @ \cup shown,
                !.repeated = @ \/ shown \cap l.seen # {},
                !.page = l.page + 1]

\* The page query.  OpenSearch counts what it searches.
FetchPage ==
  LET total == IF listing.list = "alerts" THEN Cardinality(listing.items)
               ELSE listing.total
  IN  /\ \/ /\ listing.at = "ask" /\ listing.list = "alerts"
            /\ listing.page * listing.limit <= ResultWindow
         \/ listing.at = "counted" /\ listing.list \in Offsets \ {"alerts"}
      /\ \E s \in Sorted(listing.list, listing.items) :
           listing' = Fetched([listing EXCEPT !.total = total],
                              Slice(s, Offset(listing.page, listing.limit),
                                    listing.limit),
                              IsLastPage(listing.list, listing.page, total,
                                         listing.limit))

\* buildCursor: a full page says where the next one starts.  The next link
\* leaves out the page size, which the client may give again.
FetchAfter ==
  /\ listing.at = "ask" /\ listing.list = "after" /\ listing.cursor # NoCursor
  /\ \E s \in Sorted("after", After(listing.items, listing.cursor)),
        limit \in {listing.limit, DefaultLimit} :
       LET result == Slice(s, 0, listing.limit)
           last == Len(result) < listing.limit
       IN  listing' = [Fetched(listing, result, last) EXCEPT
                         !.cursor = IF last THEN @ ELSE Last(result),
                         !.limit = IF last THEN @ ELSE limit]

\* OpenSearch refuses a page beyond its window.  Without a cursor the statement
\* has one argument and names a third, and PostgreSQL refuses it.
FetchRefused ==
  /\ listing.at = "ask"
  /\ \/ listing.list = "alerts" /\ listing.page * listing.limit > ResultWindow
     \/ listing.list = "after" /\ listing.cursor = NoCursor
  /\ listing' = [listing EXCEPT !.at = "refused"]

FetchFails ==
  /\ listing.at \in {"ask", "counted"}
  /\ listing' = [listing EXCEPT !.at = "failed"]

-----------------------------------------------------------------------------
(***************************************************************************)
(* What others do to the list meanwhile.                                   *)
(***************************************************************************)
Changing ==
  /\ listing.at \in {"ask", "counted"}
  /\ listing.changes < MaxChanges

CreateItem ==
  /\ Changing
  /\ listing' = [listing EXCEPT
       !.items = @ \cup {Item(Fresh(listing), Fresh(listing), FALSE)},
       !.changes = @ + 1, !.late = @ \/ listing.at = "counted"]

\* An update of a schema or a saved search is a new version, and so is
\* disabling a search.
RewriteItem ==
  /\ Changing /\ listing.list \in {"schemas", "searches", "after"}
  /\ \E i \in listing.items, disabled \in BOOLEAN :
       /\ disabled => listing.list # "schemas"
       /\ listing' = [listing EXCEPT
            !.items = (@ \ {i}) \cup {[i EXCEPT !.time = Fresh(listing),
                                                !.version = Fresh(listing),
                                                !.disabled = disabled]},
            !.changes = @ + 1, !.touched = @ \cup {i.id},
            !.shrunk = @ \/ disabled]

HideItem ==
  /\ Changing /\ listing.list \in {"schemas", "searches", "after"}
  /\ \E i \in listing.items :
       listing' = [listing EXCEPT !.items = @ \ {i}, !.changes = @ + 1,
                                  !.touched = @ \cup {i.id}, !.shrunk = TRUE]

PagingNext == CountItems \/ FetchPage \/ FetchAfter \/ FetchRefused
              \/ FetchFails \/ CreateItem \/ RewriteItem \/ HideItem

PagingSpec == PagingInit /\ [][PagingNext]_listing

-----------------------------------------------------------------------------
(***************************************************************************)
(* What is checked.                                                        *)
(***************************************************************************)
Walked == listing.at = "done"
Untied == \A a, b \in listing.start : a.id # b.id =>
            Precedes(listing.list, a, b) \/ Precedes(listing.list, b, a)

\* A walk nobody disturbs shows every item of a list once by the last page the
\* answers announce, whatever page size was asked for; a malformed alert, which
\* every count has, it skips.  Excluded are lists whose ORDER BY leaves ties
\* and, by cursor, lists with a disabled search, some of which are missed
\* (ListSchemas, ListAlerts, ListLatestPaged, ListLatestAfter).
PagesPartition ==
  /\ Walked /\ listing.changes = 0 /\ Untied
  /\ listing.list = "after" => \A i \in listing.start : ~i.disabled
  => listing.seen = Ids(Shown(listing.start)) /\ ~listing.repeated

\* Whatever is created or rewritten during a walk, a well-formed item nobody
\* touched is not missed.  Excluded are ties, items hidden or disabled, which
\* let the rest move up past the page being read, and a creation between the
\* count and the page query of the last request, which lets the last item fall
\* behind the page announced as the last (offset lists).
UntouchedIsListed ==
  Walked /\ listing.list \in Offsets /\ ~listing.shrunk /\ ~listing.late /\ Untied =>
    Ids(Shown(listing.start)) \subseteq listing.seen \cup listing.touched

\* By cursor, an active search nobody touched is not missed whatever happens
\* to the others, even at a shared time, although the cursor does not say
\* whether it is in the active or in the disabled part of the list.
CursorReachesActive ==
  Walked /\ listing.list = "after" =>
    Ids({i \in Shown(listing.start) : ~i.disabled})
      \subseteq listing.seen \cup listing.touched

\* Who walks through a list misses nothing that stayed as it was, but for the
\* cases the two parts name, although counts, pages and cursors are read at
\* different times.
WalkIsComplete == UntouchedIsListed /\ CursorReachesActive
=============================================================================
