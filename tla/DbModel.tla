-------------------------------- MODULE DbModel --------------------------------
(* The query builder of data/db.go. D(dbkey) (frame.go) gives every caller the  *)
(* same DbModel: builder calls (Table, Where, SetPK, Limit ...) leave what they *)
(* were given in its fields, a terminal call (Find, Save, Delete ...) makes a   *)
(* statement of the fields, and Execute and Query reset all of them once the    *)
(* statement was sent. A terminal call that panics or returns before that       *)
(* leaves the fields as they are, and the router goes on after a panic.         *)
(*                                                                              *)
(* A condition is the sequence of its conjuncts: a column c stands for "c = ?", *)
(* and One for "1=1". The value meant for column c is written c, and Blank is   *)
(* the "" that SetPK stores. SET and VALUES lists take columns and values from  *)
(* one loop over one map and are left out: args are those of the condition.     *)
EXTENDS Integers, Sequences, FiniteSets, SequencesExt

CONSTANTS
    Users,       \* goroutines that hold the DbModel
    Cols,        \* columns that a condition may name
    Tables,      \* table names
    Structs,     \* model structs: their table tag, primary keys and fields
    Conditions,  \* what callers give to Where, one argument per column
    Clauses,     \* of Column, RowsNum, Order, GroupByStr and HavingStr, those used
    None,        \* the empty table name; no statement
    One,         \* the conjunct 1=1
    Blank        \* the empty value

ASSUME StructsAssumption ==
    \A st \in Structs : /\ st.table \in Tables \cup {None}
                        /\ st.keys \subseteq Cols /\ IsFiniteSet(st.keys)
                        /\ st.fields \subseteq Cols
ASSUME ConditionsAssumption == Conditions \subseteq Seq(Cols)
ASSUME NamesAssumption ==
    /\ None \notin Tables
    /\ {One, Blank} \cap Cols = {}
    /\ One # Blank

VARIABLES
    TableName, WhereStr, Param,  \* fields of the DbModel
    PrimaryKeys,                 \* map from key to value
    FieldMap,                    \* the keys of the map
    clauses,                     \* which of the fields in Clauses are set
    pc, pkArgs, stmt,            \* of each user: place, arguments, statement built
    touched, fresh               \* history: the fields set since the last terminal
                                 \* call ended, and whether that call did reset

builder == <<TableName, WhereStr, Param, PrimaryKeys, FieldMap, clauses>>
history == <<touched, fresh>>
vars == <<builder, pc, pkArgs, stmt, history>>

\* The conjuncts of a condition that have a placeholder: all but 1=1, which is put
\* first or nowhere.
Holes(where) == IF where # <<>> /\ Head(where) = One THEN Tail(where) ELSE where

\* "1=1 AND k1 = ? AND k2 = ?" for keys in the order of an iteration.
ByKeys(ks) == <<One>> \o ks

Init ==
    /\ TableName = None
    /\ WhereStr = <<>>
    /\ Param = <<>>
    /\ PrimaryKeys = [k \in {} |-> Blank]
    /\ FieldMap = {}
    /\ clauses = {}
    /\ pc = [u \in Users |-> "calling"]
    /\ pkArgs = [u \in Users |-> <<>>]
    /\ stmt = [u \in Users |-> None]
    /\ touched = {}
    /\ fresh = TRUE

-------------------------------------------------------------------------------
(* Builder calls.                                                              *)

Calls(u, fields) ==
    /\ pc[u] = "calling"
    /\ touched' = touched \cup fields
    /\ UNCHANGED <<pc, pkArgs, stmt, fresh>>

Table(u) ==
    /\ Calls(u, {"TableName"})
    /\ TableName' \in Tables
    /\ UNCHANGED <<WhereStr, Param, PrimaryKeys, FieldMap, clauses>>

SetPK(u) ==
    /\ Calls(u, {"PrimaryKeys"})
    /\ \E k \in Cols :
          PrimaryKeys' = [x \in DOMAIN PrimaryKeys \cup {k} |->
                             IF x = k THEN Blank ELSE PrimaryKeys[x]]
    /\ UNCHANGED <<TableName, WhereStr, Param, FieldMap, clauses>>

\* A mutant: the arguments are added to those of an earlier Where.
WhereAppends(u) ==
    /\ Calls(u, {"WhereStr"})
    /\ WhereStr' \in Conditions
    /\ Param' = Param \o WhereStr'
    /\ UNCHANGED <<TableName, PrimaryKeys, FieldMap, clauses>>

Where(u) ==
    /\ Calls(u, {"WhereStr"})
    /\ WhereStr' \in Conditions
    /\ Param' = WhereStr'
    /\ UNCHANGED <<TableName, PrimaryKeys, FieldMap, clauses>>

\* Field, Limit, OrderBy, GroupBy and Having each set a field that only Select
\* and Count read.
Clause(u) ==
    /\ Calls(u, {"clauses"})
    /\ \E c \in Clauses : clauses' = clauses \cup {c}
    /\ UNCHANGED <<TableName, WhereStr, Param, PrimaryKeys, FieldMap>>

\* A call ends before its statement: nothing resets the builder.
Fails == touched' = {} /\ fresh' = FALSE /\ UNCHANGED <<pc, pkArgs, stmt>>

\* Where panics when arguments and placeholders differ in number, Find on what is
\* no struct; or the caller itself gives up between two calls.
GiveUp(u) ==
    /\ pc[u] = "calling"
    /\ Fails
    /\ UNCHANGED builder

-------------------------------------------------------------------------------
(* Terminal calls. Prepares hands the statement to Execute or Query.           *)

Prepares(u, kind, table, where, args) ==
    /\ stmt' = [stmt EXCEPT ![u] = [kind |-> kind, table |-> table,
                                    where |-> where, args |-> args]]
    /\ pc' = [pc EXCEPT ![u] = "sending"]
    /\ pkArgs' = [pkArgs EXCEPT ![u] = <<>>]
    /\ UNCHANGED history

\* The fields of the struct are added to what the maps hold; the table tag
\* counts when no table was named.
ConvertModelToMap(st) ==
    /\ FieldMap' = FieldMap \cup st.fields
    /\ PrimaryKeys' = [k \in DOMAIN PrimaryKeys \cup st.keys |->
                          IF k \in st.keys THEN k ELSE PrimaryKeys[k]]
    /\ TableName' = IF TableName = None THEN st.table ELSE TableName

\* Execute, Query and GetRow with a statement of the caller's own.
Raw(u) ==
    /\ pc[u] = "calling"
    /\ Prepares(u, "RAW", None, <<>>, <<>>)
    /\ UNCHANGED builder

\* Select and Count.
Select(u) ==
    /\ pc[u] = "calling"
    /\ Prepares(u, "SELECT", TableName, WhereStr, Param)
    /\ UNCHANGED builder

\* Find and FindList.
Find(u) ==
    /\ pc[u] = "calling"
    /\ \E st \in Structs : ConvertModelToMap(st)
    /\ Prepares(u, "SELECT", TableName', WhereStr, Param)
    /\ UNCHANGED <<WhereStr, Param, clauses>>

\* The caller gives one value for each key of the struct, in an order of its
\* own, or none; the loop over PrimaryKeys takes the keys in any order.
FindByPK(u) ==
    /\ pc[u] = "calling"
    /\ \E st \in Structs : \E args \in SetToSeqs(st.keys) \cup {<<>>} :
          /\ ConvertModelToMap(st)
          /\ IF Len(args) < 1 \/ Len(args) # Cardinality(DOMAIN PrimaryKeys')
             THEN Fails /\ UNCHANGED <<WhereStr, Param>>
             ELSE /\ \E ks \in SetToSeqs(DOMAIN PrimaryKeys') : WhereStr' = ByKeys(ks)
                  /\ Param' = args
                  /\ Prepares(u, "SELECT", TableName', WhereStr', Param')
    /\ UNCHANGED clauses

\* Insert and InsertValues with fields of the caller's, Add with a struct's. Add
\* returns at once when there is no field, Insert panics without a table.
Insert(u) ==
    /\ pc[u] = "calling"
    /\ \/ UNCHANGED <<TableName, PrimaryKeys, FieldMap>>
       \/ \E st \in Structs : ConvertModelToMap(st) /\ FieldMap' # {}
    /\ IF TableName' = None
       THEN Fails
       ELSE Prepares(u, "INSERT", TableName', <<>>, <<>>)
    /\ UNCHANGED <<WhereStr, Param, clauses>>

\* Update with fields of the caller's; it panics without a table.
Update(u) ==
    /\ pc[u] = "calling"
    /\ IF TableName = None
       THEN Fails
       ELSE Prepares(u, "UPDATE", TableName, WhereStr, IF WhereStr = <<>> THEN <<>> ELSE Param)
    /\ UNCHANGED builder

\* The condition that Save makes of the keys when it was given none.
KeyCondition ==
    IF WhereStr # <<>>
    THEN UNCHANGED <<WhereStr, Param>>
    ELSE \E ks \in SetToSeqs(DOMAIN PrimaryKeys') :
            /\ WhereStr' = ByKeys(ks)
            /\ Param' = [i \in DOMAIN ks |-> PrimaryKeys'[ks[i]]]

Save(u) ==
    /\ pc[u] = "calling"
    /\ \E st \in Structs : ConvertModelToMap(st) /\ FieldMap' # {}
    /\ KeyCondition
    /\ IF TableName' = None
       THEN Fails
       ELSE Prepares(u, "UPDATE", TableName', WhereStr', Param')
    /\ UNCHANGED clauses

\* Add and Save of a struct without a field do nothing, and nothing is reset.
NothingToWrite(u) ==
    /\ pc[u] = "calling"
    /\ \E st \in Structs : ConvertModelToMap(st) /\ FieldMap' = {}
    /\ Fails
    /\ UNCHANGED <<WhereStr, Param, clauses>>

\* Delete looks at the builder twice: its guards ...
DeleteGuards(u) ==
    /\ pc[u] = "calling"
    /\ \E K \in SUBSET DOMAIN PrimaryKeys : \E args \in SetToSeqs(K) :
          IF \/ TableName = None
             \/ Len(args) < 1 /\ WhereStr = <<>>
             \/ Len(args) > 0 /\ Len(args) # Cardinality(DOMAIN PrimaryKeys)
          THEN Fails
          ELSE /\ pkArgs' = [pkArgs EXCEPT ![u] = args]
               /\ pc' = [pc EXCEPT ![u] = "deleting"]
               /\ UNCHANGED <<stmt, history>>
    /\ UNCHANGED builder

\* ... and the statement it makes, with the keys in any order.
DeleteBuild(u) ==
    /\ pc[u] = "deleting"
    /\ Param' = Param \o pkArgs[u]
    /\ \E ks \in IF pkArgs[u] = <<>> THEN {<<>>} ELSE SetToSeqs(DOMAIN PrimaryKeys) :
          Prepares(u, "DELETE", TableName,
                   (IF WhereStr = <<>> THEN <<One>> ELSE WhereStr) \o ks, Param')
    /\ UNCHANGED <<TableName, WhereStr, PrimaryKeys, FieldMap, clauses>>

\* A mutant of ResetDbModel: the limit and the grouping survive.
ResetKeepsClauses ==
    /\ TableName' = None
    /\ WhereStr' = <<>>
    /\ Param' = <<>>
    /\ PrimaryKeys' = [k \in {} |-> Blank]
    /\ FieldMap' = {}
    /\ UNCHANGED clauses

ResetDbModel ==
    /\ TableName' = None
    /\ WhereStr' = <<>>
    /\ Param' = <<>>
    /\ PrimaryKeys' = [k \in {} |-> Blank]
    /\ FieldMap' = {}
    /\ clauses' = {}

\* Execute and Query: the statement goes to the database, and the deferred reset
\* runs whatever becomes of it there.
Send(u) ==
    /\ pc[u] = "sending"
    /\ ResetDbModel
    /\ stmt' = [stmt EXCEPT ![u] = None]
    /\ pc' = [pc EXCEPT ![u] = "calling"]
    /\ touched' = {}
    /\ fresh' = TRUE
    /\ UNCHANGED pkArgs

Next ==
    \E u \in Users :
        \/ Table(u) \/ SetPK(u) \/ Where(u) \/ Clause(u) \/ GiveUp(u)
        \/ Raw(u) \/ Select(u) \/ Find(u) \/ FindByPK(u)
        \/ Insert(u) \/ Update(u) \/ Save(u) \/ NothingToWrite(u)
        \/ DeleteGuards(u) \/ DeleteBuild(u)
        \/ Send(u)

Spec == Init /\ [][Next]_vars

-------------------------------------------------------------------------------
(* Properties of a DbModel that one goroutine uses at a time.                  *)

\* What a condition can be: columns, after 1=1 or without it.
Wheres == {where \in Seq(Cols \cup {One}) : \A i \in DOMAIN where : where[i] = One => i = 1}
Statements ==
    [kind : {"RAW", "SELECT", "INSERT", "UPDATE", "DELETE"}, table : Tables \cup {None},
     where : Wheres, args : Seq(Cols \cup {Blank})]

\* The builder names tables and columns only, its conditions have 1=1 in front or
\* not at all, and whoever is sending has a statement.
TypeOK ==
    /\ TableName \in Tables \cup {None}
    /\ WhereStr \in Wheres /\ Param \in Seq(Cols \cup {Blank})
    /\ DOMAIN PrimaryKeys \subseteq Cols /\ IsFiniteSet(DOMAIN PrimaryKeys)
    /\ PrimaryKeys \in [DOMAIN PrimaryKeys -> Cols \cup {Blank}]
    /\ FieldMap \subseteq Cols /\ clauses \subseteq Clauses
    /\ pc \in [Users -> {"calling", "deleting", "sending"}]
    /\ pkArgs \in [Users -> Seq(Cols)]
    /\ stmt \in [Users -> Statements \cup {None}]
    /\ \A u \in Users : pc[u] = "sending" => stmt[u] \in Statements
    /\ touched \subseteq {"TableName", "WhereStr", "PrimaryKeys", "clauses"} /\ fresh \in BOOLEAN

Sending(u, kinds) == pc[u] = "sending" /\ stmt[u].kind \in kinds

\* A statement has as many arguments as placeholders, whatever calls failed, gave
\* up or were repeated before it on the same builder.
ArgsFitPlaceholders ==
    \A u \in Users : pc[u] = "sending" => Len(stmt[u].args) = Len(Holes(stmt[u].where))

\* In an UPDATE each argument is the value of the column it is compared with (or
\* the empty value of SetPK): a Save whose condition is made of a map's keys and
\* values, or was left by an earlier call, updates no row by another key.
UpdateBindsItsColumns ==
    \A u \in Users : Sending(u, {"UPDATE"}) =>
        \A i \in DOMAIN stmt[u].args : stmt[u].args[i] \in {Holes(stmt[u].where)[i], Blank}

\* After a statement was sent, with its success or its failure, and as long as no
\* call ended without one, the builder holds only what was set since.
NothingCarriedOver ==
    fresh /\ (\A u \in Users : pc[u] = "calling") =>
        /\ TableName # None => "TableName" \in touched
        /\ WhereStr # <<>> \/ Param # <<>> => "WhereStr" \in touched
        /\ DOMAIN PrimaryKeys # {} => "PrimaryKeys" \in touched
        /\ FieldMap = {}
        /\ clauses # {} => "clauses" \in touched

-------------------------------------------------------------------------------
(* What the source says and the code does not keep.                            *)

\* What the database takes: the driver refuses a wrong number of arguments, the
\* server a missing table.
Acceptable(s) == s.table # None /\ Len(s.args) = Len(Holes(s.where))

\* "The condition of a delete must not be empty, deleting a whole table is
\* forbidden" (the guard of Delete): no DELETE that the database takes has only
\* the condition 1=1. False when two callers share the DbModel, and also for one
\* whose Save of a struct without a key and a table ended before its statement:
\* the 1=1 that Save began with is taken for a condition.
NoFullTableDelete ==
    \A u \in Users : Sending(u, {"DELETE"}) /\ Acceptable(stmt[u])
        => Holes(stmt[u].where) # <<>>

\* "pkArgs are the corresponding values of the primary keys" (Delete): a DELETE
\* given a value for each key compares each key with its own value. False when
\* there are two keys, because the loop over a map takes them in any order.
DeleteBindsItsKeys ==
    \A u \in Users :
        Sending(u, {"DELETE"}) /\ ToSet(stmt[u].args) = ToSet(Holes(stmt[u].where))
            => stmt[u].args = Holes(stmt[u].where)
===============================================================================
