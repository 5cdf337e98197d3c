---------------------------- MODULE SqlLabClient ----------------------------
(***************************************************************************)
(* The browser's store of SQL Lab: what the reducer (SqlLab/reducers.js)   *)
(* does to the queries, the query editors and queriesLastUpdate.  Each     *)
(* action below is one action type of the reducer; who dispatches it, and  *)
(* when, is module SqlLab.  The store survives a reload of the page: it is *)
(* kept in the browser's local storage.                                    *)
(*                                                                         *)
(* Of a query the store keeps far more than its state; what is kept here   *)
(* is what decides whether its state is right.  Result rows, the tables    *)
(* and their previews, the tab history and the alerts are left out.        *)
(***************************************************************************)
EXTENDS Integers

CONSTANTS
    Query,      \* the queries, each named by its client_id
    Editor,     \* the ids of query editors
    NoEditor    \* the sqlEditorId of a query that previews a table

ASSUME NoEditorAssumption == NoEditor \notin Editor

VARIABLES
    queries,            \* queries[q]: the store's entry for q, or Absent
    queryEditors,       \* the editors that are open
    queriesLastUpdate   \* when the last poll was merged, by the browser's clock

store == <<queries, queryEditors, queriesLastUpdate>>

(* changedOn of an entry no poll has touched, sqlEditorId of one that      *)
(* alterInObject made up.                                                  *)
Undefined == -1

(* "running" stands for "pending" as well: which of the two a query starts *)
(* in depends on runAsync, which the server ignores and the page shows     *)
(* alike.                                                                  *)
QueryState == {"running", "stopped", "success", "failed"}
Entry == [state : QueryState, changedOn : Nat \cup {Undefined},
          sqlEditorId : Editor \cup {NoEditor, Undefined}]
Absent == [state |-> "absent", changedOn |-> Undefined,
           sqlEditorId |-> Undefined]

TypeOK ==
    /\ queries \in [Query -> Entry \cup {Absent}]
    /\ queryEditors \subseteq Editor
    /\ queriesLastUpdate \in Nat

Init ==
    /\ queries = [q \in Query |-> Absent]
    /\ \E e \in Editor : queryEditors = {e}
    /\ queriesLastUpdate = 0

-----------------------------------------------------------------------------
(* alterInObject: an entry that is not there is created, with nothing but  *)
(* the alteration in it.                                                   *)
Alter(q, s) ==
    /\ queries' = [queries EXCEPT ![q].state = s]
    /\ UNCHANGED <<queryEditors, queriesLastUpdate>>

(* Adding an editor, and cloning a query into a new one.                   *)
AddQueryEditor(e) ==
    /\ e \notin queryEditors
    /\ queryEditors' = queryEditors \cup {e}
    /\ UNCHANGED <<queries, queriesLastUpdate>>

(* Only the queries of the remaining editors stay: the previews of tables, *)
(* which have no editor, go whichever editor is removed.                   *)
RemoveQueryEditor(e) ==
    /\ e \in queryEditors
    /\ queryEditors' = queryEditors \ {e}
    /\ queries' = [q \in Query |->
                     IF queries[q].sqlEditorId \in queryEditors'
                     THEN queries[q] ELSE Absent]
    /\ UNCHANGED queriesLastUpdate

RemoveQuery(q) ==
    /\ queries' = [queries EXCEPT ![q] = Absent]
    /\ UNCHANGED <<queryEditors, queriesLastUpdate>>

(* Mutant of ResetState: the initial state lacks queriesLastUpdate.        *)
ResetStateEverything ==
    /\ queries' = [q \in Query |-> Absent]
    /\ \E e \in Editor \ queryEditors : queryEditors' = {e}
    /\ queriesLastUpdate' = Undefined

ResetState ==
    /\ queries' = [q \in Query |-> Absent]
    /\ \E e \in Editor \ queryEditors : queryEditors' = {e}
    /\ queriesLastUpdate' = 0

(* The new entry replaces whatever has the query's id.                     *)
StartQuery(q, e) ==
    /\ e \in queryEditors \cup {NoEditor}
    /\ queries' = [queries EXCEPT ![q] =
                     [state |-> "running", changedOn |-> Undefined,
                      sqlEditorId |-> e]]
    /\ UNCHANGED <<queryEditors, queriesLastUpdate>>

(* Nothing is sent to the server.                                          *)
StopQuery(q) == Alter(q, "stopped")
QuerySuccess(q) == Alter(q, "success")
QueryFailed(q) == Alter(q, "failed")

(* Mutant of RefreshQueries: queries the store has already are left alone. *)
RefreshOnlyNew(altered, now) ==
    /\ queries' = [q \in Query |->
                     IF altered[q] # Absent /\ queries[q] = Absent
                     THEN altered[q] ELSE queries[q]]
    /\ queriesLastUpdate' = now
    /\ UNCHANGED queryEditors

(* An altered query is merged if the store does not have it or has another *)
(* changedOn for it, be it an older or a newer one.                        *)
RefreshQueries(altered, now) ==
    /\ queries' = [q \in Query |->
                     IF /\ altered[q] # Absent
                        /\ \/ queries[q] = Absent
                           \/ queries[q].changedOn # altered[q].changedOn
                     THEN altered[q] ELSE queries[q]]
    /\ queriesLastUpdate' = now
    /\ UNCHANGED queryEditors
=============================================================================
