--------------------------- MODULE SavedSearches ----------------------------
(***************************************************************************)
(* A saved search of the search service (service/saved_searches.go): a     *)
(* change reads the latest version, edits it and inserts the result as a   *)
(* new version, without a transaction; the latest version is the one with  *)
(* the greatest creation time, and then the greatest random version id.    *)
(***************************************************************************)
EXTENDS Integers, FiniteSets

CONSTANTS
  Editors,      \* requests about the search
  MaxMoment,    \* bound on the clock, in the database's microseconds
  MaxVersionId, \* the random version ids compared
  MaxSaved      \* bound on the versions

VARIABLES
  saved,     \* the rows: created, version, disabled, hidden
  moment,    \* the clock
  editor,    \* editor[e]: a request's progress
  want       \* what the requests that did not overlap ask for

savedVars == <<saved, moment, editor, want>>

Changes == {"update", "delete", "disable", "enable", "hide", "unhide"}
Flags(row) == [disabled |-> row.disabled, hidden |-> row.hidden]
Visible == [disabled |-> FALSE, hidden |-> FALSE]
IdleEditor == [at |-> "idle", op |-> "none", row |-> Visible, created |-> 0, stale |-> FALSE]

SavedInit ==
  /\ saved = {}
  /\ moment = 1
  /\ editor = [e \in Editors |-> IdleEditor]
  /\ want = Visible

NotEarlier(a, b) == a.created > b.created \/ (a.created = b.created /\ a.version >= b.version)
GetLatest == CHOOSE row \in saved : \A other \in saved : NotEarlier(row, other)

NextMoment ==
  /\ moment < MaxMoment
  /\ moment' = moment + 1
  /\ UNCHANGED <<saved, editor, want>>

\* A plausible mistake: an update makes the search visible again.
EditVisibly(op, row) ==
  CASE op = "update" -> Visible
    [] op = "disable" -> [row EXCEPT !.disabled = TRUE]
    [] op = "enable" -> [row EXCEPT !.disabled = FALSE]
    [] op \in {"hide", "delete"} -> [row EXCEPT !.hidden = TRUE]
    [] op = "unhide" -> [row EXCEPT !.hidden = FALSE]

\* An update enables the search, and does not change whether it is hidden.
Edit(op, row) ==
  CASE op \in {"update", "enable"} -> [row EXCEPT !.disabled = FALSE]
    [] op = "disable" -> [row EXCEPT !.disabled = TRUE]
    [] op \in {"hide", "delete"} -> [row EXCEPT !.hidden = TRUE]
    [] op = "unhide" -> [row EXCEPT !.hidden = FALSE]

\* What a version is inserted as; other requests under way are now stale.
InsertVersion(e, row, created) ==
  /\ Cardinality(saved) < MaxSaved
  /\ \E version \in 1 .. MaxVersionId :
       /\ \A other \in saved : other.version = version => other.created # created
       /\ saved' = saved \cup {[created |-> created, version |-> version,
                                disabled |-> row.disabled, hidden |-> row.hidden]}
  /\ editor' = [f \in Editors |->
       IF f = e THEN [IdleEditor EXCEPT !.at = "done"]
       ELSE [editor[f] EXCEPT !.stale = editor[f].at \in {"read", "stamped"}]]
  /\ UNCHANGED moment

\* CreateSavedSearch, under an id of its own.
CreateSavedSearch(e) ==
  /\ saved = {}
  /\ editor[e].at = "idle"
  /\ InsertVersion(e, Visible, moment)
  /\ want' = Visible

\* A change reads the latest version.
ReadVersion(e, op) ==
  /\ editor[e].at = "idle"
  /\ saved # {}
  /\ editor' = [editor EXCEPT
       ![e] = [IdleEditor EXCEPT !.at = "read", !.op = op, !.row = Flags(GetLatest)]]
  /\ UNCHANGED <<saved, moment, want>>

\* It edits it and stamps it with the time.
StampVersion(e) ==
  /\ editor[e].at = "read"
  /\ editor' = [editor EXCEPT ![e].at = "stamped", ![e].row = Edit(editor[e].op, @),
                              ![e].created = moment]
  /\ UNCHANGED <<saved, moment, want>>

\* Two versions of one microsecond are ordered by their random ids.
Tied(e) == \E row \in saved : row.created = editor[e].created

\* What a request means, whatever row it has read.
Meant(op) ==
  [disabled |-> op = "disable" \/ (want.disabled /\ op \notin {"update", "enable"}),
   hidden |-> op \in {"hide", "delete"} \/ (want.hidden /\ op # "unhide")]

ChangeVersion(e) ==
  /\ editor[e].at = "stamped"
  /\ InsertVersion(e, editor[e].row, editor[e].created)
  /\ want' = IF editor[e].stale \/ Tied(e) THEN Flags(GetLatest)'
             ELSE Meant(editor[e].op)

\* The search is not there, the update is not valid, or the database fails.
ChangeFails(e) ==
  /\ \/ editor[e].at = "idle" /\ saved = {}
     \/ editor[e].at = "read" /\ editor[e].op = "update"
     \/ editor[e].at = "stamped"
  /\ editor' = [editor EXCEPT ![e] = [IdleEditor EXCEPT !.at = "failed"]]
  /\ UNCHANGED <<saved, moment, want>>

\* RunSavedSearch refuses a disabled search, and runs a hidden one.
RunLatest(e) ==
  /\ editor[e].at = "idle"
  /\ saved # {}
  /\ editor' = [editor EXCEPT
       ![e].at = IF GetLatest.disabled THEN "refused" ELSE "done"]
  /\ UNCHANGED <<saved, moment, want>>

\* The request has been answered, and the client sends another.
AskAgain(e) ==
  /\ editor[e].at \in {"done", "failed", "refused"}
  /\ editor' = [editor EXCEPT ![e] = IdleEditor]
  /\ UNCHANGED <<saved, moment, want>>

SavedNext ==
  \/ NextMoment
  \/ \E e \in Editors :
       \/ CreateSavedSearch(e) \/ StampVersion(e) \/ ChangeVersion(e)
       \/ ChangeFails(e) \/ RunLatest(e) \/ AskAgain(e)
       \/ \E op \in Changes : ReadVersion(e, op)

SavedSpec == SavedInit /\ [][SavedNext]_savedVars

-----------------------------------------------------------------------------
(***************************************************************************)
(* What is checked.                                                        *)
(***************************************************************************)
\* The latest version is what the answered requests asked for, one after the
\* other, whatever failed or ran in between: a hidden search stays hidden until
\* unhidden, a disabled one disabled until enabled or updated.  A request that
\* overlapped another's insert, or fell into the same microsecond, may have its
\* own or the other's effect undone, and what is left is the new start.
LifecycleFollowsRequests == saved # {} => Flags(GetLatest) = want
=============================================================================
