---------------------------- MODULE DbModelProofs ----------------------------
(* Theorems about DbModel: types and what a reset leaves, for any number of    *)
(* goroutines that share the builder; and that its statements fit, for one.    *)
EXTENDS DbModel, FiniteSetTheorems, TLAPS

(* Nobody shares the DbModel.                                                   *)
Alone == \A u, v \in Users : u = v

-----------------------------------------------------------------------------
(* Sequences of columns, and conditions made of them                           *)

(* An order of a finite set has each of its members once.                       *)
LEMMA Arranged ==
    ASSUME NEW S, IsFiniteSet(S), NEW s \in SetToSeqs(S)
    PROVE  s \in Seq(S) /\ Len(s) = Cardinality(S)
<1>1. Cardinality(S) \in Nat
    BY FS_CardinalityType
<1>2. s \in [1..Cardinality(S) -> S]
    BY DEF SetToSeqs
<1> QED BY <1>1, <1>2

(* Where is given columns; the keys come after 1=1.                             *)
LEMMA ColumnsAreHoles ==
    ASSUME NEW ks \in Seq(Cols)
    PROVE  ks \in Wheres /\ Holes(ks) = ks
<1>1. \A i \in DOMAIN ks : ks[i] \in Cols /\ ks[i] # One
    BY NamesAssumption
<1>2. ks \in Seq(Cols \cup {One})
    OBVIOUS
<1>3. ks # <<>> => Head(ks) = ks[1] /\ 1 \in DOMAIN ks
    OBVIOUS
<1> QED BY <1>1, <1>2, <1>3 DEF Wheres, Holes

LEMMA KeysAreHoles ==
    ASSUME NEW ks \in Seq(Cols)
    PROVE  ByKeys(ks) \in Wheres /\ Holes(ByKeys(ks)) = ks /\ ByKeys(ks) # <<>>
<1> DEFINE w == <<One>> \o ks
<1>1. /\ w \in Seq(Cols \cup {One}) /\ Len(w) = 1 + Len(ks) /\ Len(ks) \in Nat
      /\ w[1] = One /\ \A i \in 1..Len(ks) : w[i + 1] = ks[i]
    OBVIOUS
<1>2. \A i \in 1..Len(ks) : ks[i] \in Cols /\ ks[i] # One
    BY NamesAssumption
<1>3. DOMAIN w = 1..Len(w) /\ w # <<>> /\ Head(w) = One
    BY <1>1
<1>4. Tail(w) = ks
    OBVIOUS
<1> HIDE DEF w
<1>5. ASSUME NEW i \in DOMAIN w, w[i] = One PROVE i = 1
    <2>1. i # 1 => i - 1 \in 1..Len(ks) /\ (i - 1) + 1 = i
        BY <1>1, <1>3
    <2> QED BY <2>1, <1>1, <1>2, <1>5
<1> QED BY <1>1, <1>3, <1>4, <1>5 DEF w, ByKeys, Wheres, Holes

(* Delete puts its keys behind a condition.                                     *)
LEMMA MoreHoles ==
    ASSUME NEW where \in Wheres, where # <<>>, NEW ks \in Seq(Cols)
    PROVE  where \o ks \in Wheres /\ Holes(where \o ks) = Holes(where) \o ks
<1> DEFINE w == where \o ks
<1>1. where \in Seq(Cols \cup {One}) /\ \A i \in DOMAIN where : where[i] = One => i = 1
    BY DEF Wheres
<1>2. /\ w \in Seq(Cols \cup {One}) /\ Len(w) = Len(where) + Len(ks)
      /\ Len(ks) \in Nat /\ Len(where) \in Nat \ {0}
      /\ \A i \in 1..Len(where) : w[i] = where[i]
      /\ \A i \in 1..Len(ks) : w[Len(where) + i] = ks[i]
    BY <1>1
<1>3. Head(w) = Head(where) /\ Tail(w) = Tail(where) \o ks /\ w # <<>>
    BY <1>1
<1>4. DOMAIN w = 1..Len(w) /\ DOMAIN where = 1..Len(where)
    BY <1>1, <1>2
<1>5. \A i \in 1..Len(ks) : ks[i] # One
    BY NamesAssumption
<1> HIDE DEF w
<1>6. ASSUME NEW i \in DOMAIN w, w[i] = One PROVE i = 1
    <2>1. CASE i \in 1..Len(where)
        BY <2>1, <1>1, <1>2, <1>4, <1>6
    <2>2. CASE i \notin 1..Len(where)
        <3>1. i - Len(where) \in 1..Len(ks) /\ Len(where) + (i - Len(where)) = i
            BY <2>2, <1>2, <1>4
        <3> QED BY <3>1, <1>2, <1>5, <1>6
    <2> QED BY <2>1, <2>2
<1> QED BY <1>2, <1>3, <1>6 DEF w, Wheres, Holes

(* The length of what is left of a condition.                                   *)
LEMMA HolesAre ==
    ASSUME NEW where \in Wheres
    PROVE  Holes(where) \in Seq(Cols)
<1>1. where \in Seq(Cols \cup {One}) /\ \A i \in DOMAIN where : where[i] = One => i = 1
    BY DEF Wheres
<1>2. CASE where # <<>> /\ Head(where) = One
    <2> DEFINE t == Tail(where)
    <2>1. /\ t \in Seq(Cols \cup {One}) /\ Len(t) = Len(where) - 1 /\ Len(where) \in Nat
          /\ \A i \in 1..Len(t) : t[i] = where[i + 1] /\ i + 1 \in DOMAIN where
        BY <1>1, <1>2
    <2>2. \A i \in 1..Len(t) : t[i] \in Cols \cup {One}
        BY <2>1
    <2>3. \A i \in 1..Len(t) : i + 1 # 1
        OBVIOUS
    <2> HIDE DEF t
    <2>4. \A i \in 1..Len(t) : t[i] \in Cols
        BY <2>1, <2>2, <2>3, <1>1
    <2>5. t \in Seq(Cols)
        BY <2>1, <2>4
    <2> QED BY <2>5, <1>2 DEF t, Holes
<1>3. CASE where = <<>>
    BY <1>3 DEF Holes
<1>4. CASE where # <<>> /\ Head(where) # One
    <2>1. 1 \in DOMAIN where /\ Head(where) = where[1]
        BY <1>1, <1>4
    <2>2. \A i \in 1..Len(where) : where[i] \in Cols
        BY <2>1, <1>1, <1>4
    <2>3. where \in Seq(Cols)
        BY <2>2, <1>1
    <2> QED BY <2>3, <1>4 DEF Holes
<1> QED BY <1>2, <1>3, <1>4

-----------------------------------------------------------------------------
(* Types                                                                       *)

BuilderTypes ==
    /\ TableName \in Tables \cup {None}
    /\ WhereStr \in Wheres /\ Param \in Seq(Cols \cup {Blank})
    /\ DOMAIN PrimaryKeys \subseteq Cols /\ IsFiniteSet(DOMAIN PrimaryKeys)
    /\ PrimaryKeys \in [DOMAIN PrimaryKeys -> Cols \cup {Blank}]
    /\ FieldMap \subseteq Cols /\ clauses \subseteq Clauses
UserTypes ==
    /\ pc \in [Users -> {"calling", "deleting", "sending"}]
    /\ pkArgs \in [Users -> Seq(Cols)]
    /\ stmt \in [Users -> Statements \cup {None}]
    /\ \A u \in Users : pc[u] = "sending" => stmt[u] \in Statements
HistoryTypes ==
    touched \subseteq {"TableName", "WhereStr", "PrimaryKeys", "clauses"} /\ fresh \in BOOLEAN

LEMMA TypeParts ==
    /\ TypeOK <=> BuilderTypes /\ UserTypes /\ HistoryTypes
    /\ TypeOK' <=> BuilderTypes' /\ UserTypes' /\ HistoryTypes'
BY DEF TypeOK, BuilderTypes, UserTypes, HistoryTypes

LEMMA EmptyCondition == <<>> \in Wheres /\ <<One>> \in Wheres /\ <<>> \in Seq(Cols)
<1>1. <<>> \in Seq(Cols) /\ ByKeys(<<>>) = <<One>>
    BY DEF ByKeys
<1> QED BY <1>1, ColumnsAreHoles, KeysAreHoles

(* A caller that is given a statement, and one whose call ends without.         *)
LEMMA PreparesTypes ==
    ASSUME UserTypes, HistoryTypes, NEW u \in Users,
           NEW kind \in {"RAW", "SELECT", "INSERT", "UPDATE", "DELETE"}, NEW table \in Tables \cup {None},
           NEW where \in Wheres, NEW args \in Seq(Cols \cup {Blank}), Prepares(u, kind, table, where, args)
    PROVE  UserTypes' /\ HistoryTypes'
<1> DEFINE s == [kind |-> kind, table |-> table, where |-> where, args |-> args]
<1>1. s \in Statements
    BY DEF Statements
<1>2. /\ stmt' = [stmt EXCEPT ![u] = s] /\ pc' = [pc EXCEPT ![u] = "sending"]
      /\ pkArgs' = [pkArgs EXCEPT ![u] = <<>>] /\ UNCHANGED <<touched, fresh>>
    BY DEF Prepares, history
<1> HIDE DEF s
<1> QED BY <1>1, <1>2 DEF UserTypes, HistoryTypes

LEMMA FailsTypes ==
    ASSUME UserTypes, Fails
    PROVE  UserTypes' /\ HistoryTypes'
BY DEF Fails, UserTypes, HistoryTypes

LEMMA CallsTypes ==
    ASSUME UserTypes, HistoryTypes, NEW u \in Users, NEW fields, Calls(u, fields),
           fields \subseteq {"TableName", "WhereStr", "PrimaryKeys", "clauses"}
    PROVE  UserTypes' /\ HistoryTypes'
BY DEF Calls, UserTypes, HistoryTypes

(* The struct of a call leaves the maps with columns.                           *)
LEMMA ConvertTypes ==
    ASSUME BuilderTypes, NEW st \in Structs, ConvertModelToMap(st)
    PROVE  /\ TableName' \in Tables \cup {None}
           /\ DOMAIN PrimaryKeys' \subseteq Cols /\ IsFiniteSet(DOMAIN PrimaryKeys')
           /\ PrimaryKeys' \in [DOMAIN PrimaryKeys' -> Cols \cup {Blank}]
           /\ FieldMap' \subseteq Cols
<1>1. st.table \in Tables \cup {None} /\ st.keys \subseteq Cols /\ IsFiniteSet(st.keys) /\ st.fields \subseteq Cols
    BY StructsAssumption
<1>2. DOMAIN PrimaryKeys' = DOMAIN PrimaryKeys \cup st.keys
    BY DEF ConvertModelToMap
<1>3. IsFiniteSet(DOMAIN PrimaryKeys')
    <2>1. IsFiniteSet(DOMAIN PrimaryKeys)
        BY DEF BuilderTypes
    <2>2. IsFiniteSet(DOMAIN PrimaryKeys \cup st.keys)
        BY <2>1, <1>1, FS_Union
    <2> QED BY <2>2, <1>2
<1>4. \A k \in DOMAIN PrimaryKeys' : PrimaryKeys'[k] \in Cols \cup {Blank}
    BY <1>1 DEF ConvertModelToMap, BuilderTypes
<1>5. PrimaryKeys' \in [DOMAIN PrimaryKeys' -> Cols \cup {Blank}]
    BY <1>2, <1>4 DEF ConvertModelToMap
<1> QED BY <1>1, <1>2, <1>3, <1>5 DEF ConvertModelToMap, BuilderTypes

(* The values of the keys, in an order of them.                                 *)
LEMMA ValuesTypes ==
    ASSUME NEW P, DOMAIN P \subseteq Cols, IsFiniteSet(DOMAIN P), P \in [DOMAIN P -> Cols \cup {Blank}],
           NEW ks \in SetToSeqs(DOMAIN P)
    PROVE  /\ ks \in Seq(Cols) /\ Len(ks) = Cardinality(DOMAIN P)
           /\ [i \in DOMAIN ks |-> P[ks[i]]] \in Seq(Cols \cup {Blank})
           /\ Len([i \in DOMAIN ks |-> P[ks[i]]]) = Len(ks)
<1>1. ks \in Seq(DOMAIN P) /\ Len(ks) = Cardinality(DOMAIN P)
    BY Arranged
<1>2. \A i \in 1..Len(ks) : ks[i] \in DOMAIN P /\ P[ks[i]] \in Cols \cup {Blank}
    BY <1>1
<1>3. ks \in Seq(Cols) /\ DOMAIN ks = 1..Len(ks) /\ Len(ks) \in Nat
    BY <1>1
<1> QED BY <1>1, <1>2, <1>3

(* The condition of keys that Save makes, and the one that was there.          *)
LEMMA KeyConditionTypes ==
    ASSUME BuilderTypes, KeyCondition, DOMAIN PrimaryKeys' \subseteq Cols, IsFiniteSet(DOMAIN PrimaryKeys'),
           PrimaryKeys' \in [DOMAIN PrimaryKeys' -> Cols \cup {Blank}]
    PROVE  WhereStr' \in Wheres /\ Param' \in Seq(Cols \cup {Blank})
<1>1. CASE WhereStr # <<>>
    BY <1>1 DEF KeyCondition, BuilderTypes
<1>2. CASE WhereStr = <<>>
    <2>1. PICK ks \in SetToSeqs(DOMAIN PrimaryKeys') :
              WhereStr' = ByKeys(ks) /\ Param' = [i \in DOMAIN ks |-> PrimaryKeys'[ks[i]]]
        BY <1>2 DEF KeyCondition
    <2>2. ks \in Seq(Cols) /\ [i \in DOMAIN ks |-> PrimaryKeys'[ks[i]]] \in Seq(Cols \cup {Blank})
        BY ValuesTypes
    <2> QED BY <2>1, <2>2, KeysAreHoles
<1> QED BY <1>1, <1>2

LEMMA InitTypes == Init => TypeOK
<1> SUFFICES ASSUME Init PROVE BuilderTypes /\ UserTypes /\ HistoryTypes
    BY TypeParts
<1>1. PrimaryKeys = [k \in {} |-> Blank] /\ DOMAIN PrimaryKeys = {} /\ IsFiniteSet(DOMAIN PrimaryKeys)
    BY FS_EmptySet DEF Init
<1>2. BuilderTypes
    BY <1>1, EmptyCondition DEF Init, BuilderTypes
<1> QED BY <1>2 DEF Init, UserTypes, HistoryTypes

LEMMA BuilderCallTypes ==
    ASSUME TypeOK, NEW u \in Users, Table(u) \/ SetPK(u) \/ Where(u) \/ Clause(u) \/ GiveUp(u)
    PROVE  TypeOK'
<1> USE TypeParts
<1>1. CASE Table(u)
    BY <1>1, CallsTypes DEF Table, BuilderTypes
<1>2. CASE SetPK(u)
    <2>1. PICK k \in Cols : PrimaryKeys' = [x \in DOMAIN PrimaryKeys \cup {k} |->
                                               IF x = k THEN Blank ELSE PrimaryKeys[x]]
        BY <1>2 DEF SetPK
    <2>2. DOMAIN PrimaryKeys' = DOMAIN PrimaryKeys \cup {k}
        BY <2>1
    <2>3. IsFiniteSet(DOMAIN PrimaryKeys')
        <3>1. IsFiniteSet(DOMAIN PrimaryKeys)
            BY DEF BuilderTypes
        <3>2. IsFiniteSet(DOMAIN PrimaryKeys \cup {k})
            BY <3>1, FS_AddElement
        <3> QED BY <3>2, <2>2
    <2>4. PrimaryKeys' \in [DOMAIN PrimaryKeys' -> Cols \cup {Blank}]
        BY <2>1, <2>2 DEF BuilderTypes
    <2>5. BuilderTypes'
        BY <1>2, <2>2, <2>3, <2>4 DEF SetPK, BuilderTypes
    <2>6. UserTypes' /\ HistoryTypes'
        BY <1>2, CallsTypes DEF SetPK
    <2> QED BY <2>5, <2>6
<1>3. CASE Where(u)
    <2>1. WhereStr' \in Seq(Cols) /\ Param' = WhereStr'
        BY <1>3, ConditionsAssumption DEF Where
    <2>2. WhereStr' \in Wheres /\ Param' \in Seq(Cols \cup {Blank})
        BY <2>1, ColumnsAreHoles
    <2>3. BuilderTypes'
        BY <1>3, <2>2 DEF Where, BuilderTypes
    <2>4. UserTypes' /\ HistoryTypes'
        BY <1>3, CallsTypes DEF Where
    <2> QED BY <2>3, <2>4
<1>4. CASE Clause(u)
    BY <1>4, CallsTypes DEF Clause, BuilderTypes
<1>5. CASE GiveUp(u)
    BY <1>5, FailsTypes DEF GiveUp, BuilderTypes, builder
<1> QED BY <1>1, <1>2, <1>3, <1>4, <1>5

LEMMA QueryTypes ==
    ASSUME TypeOK, NEW u \in Users, Raw(u) \/ Select(u) \/ Find(u) \/ FindByPK(u)
    PROVE  TypeOK'
<1> USE TypeParts
<1>1. CASE Raw(u)
    <2>1. UserTypes' /\ HistoryTypes'
        <3>1. /\ Prepares(u, "RAW", None, <<>>, <<>>) /\ "RAW" \in {"RAW", "SELECT", "INSERT", "UPDATE", "DELETE"}
              /\ None \in Tables \cup {None} /\ <<>> \in Wheres /\ <<>> \in Seq(Cols \cup {Blank})
            BY <1>1, EmptyCondition DEF Raw
        <3> QED BY <3>1, PreparesTypes
    <2> QED BY <1>1, <2>1 DEF Raw, builder, BuilderTypes
<1>2. CASE Select(u)
    <2>1. UserTypes' /\ HistoryTypes'
        BY <1>2, PreparesTypes DEF Select, BuilderTypes
    <2> QED BY <1>2, <2>1 DEF Select, builder, BuilderTypes
<1>3. CASE Find(u)
    <2>1. PICK st \in Structs : ConvertModelToMap(st)
        BY <1>3 DEF Find
    <2>2. BuilderTypes'
        BY <1>3, <2>1, ConvertTypes DEF Find, BuilderTypes
    <2>3. Prepares(u, "SELECT", TableName', WhereStr, Param)
        BY <1>3 DEF Find
    <2>4. UserTypes' /\ HistoryTypes'
        <3>1. TableName' \in Tables \cup {None} /\ WhereStr \in Wheres /\ Param \in Seq(Cols \cup {Blank})
            BY <2>2 DEF BuilderTypes
        <3> QED BY <2>3, <3>1, PreparesTypes
    <2> QED BY <2>2, <2>4
<1>4. CASE FindByPK(u)
    <2>0. PICK st \in Structs : \E args \in SetToSeqs(st.keys) \cup {<<>>} :
              /\ ConvertModelToMap(st)
              /\ IF Len(args) < 1 \/ Len(args) # Cardinality(DOMAIN PrimaryKeys')
                 THEN Fails /\ UNCHANGED <<WhereStr, Param>>
                 ELSE /\ \E ks \in SetToSeqs(DOMAIN PrimaryKeys') : WhereStr' = ByKeys(ks)
                      /\ Param' = args
                      /\ Prepares(u, "SELECT", TableName', WhereStr', Param')
        BY <1>4, Zenon DEF FindByPK
    <2>1. PICK args \in SetToSeqs(st.keys) \cup {<<>>} :
              /\ ConvertModelToMap(st)
              /\ IF Len(args) < 1 \/ Len(args) # Cardinality(DOMAIN PrimaryKeys')
                 THEN Fails /\ UNCHANGED <<WhereStr, Param>>
                 ELSE /\ \E ks \in SetToSeqs(DOMAIN PrimaryKeys') : WhereStr' = ByKeys(ks)
                      /\ Param' = args
                      /\ Prepares(u, "SELECT", TableName', WhereStr', Param')
        BY <2>0
    <2>2. UNCHANGED clauses
        BY <1>4 DEF FindByPK
    <2>3. CASE Fails /\ UNCHANGED <<WhereStr, Param>>
        BY <2>1, <2>2, <2>3, ConvertTypes, FailsTypes DEF BuilderTypes
    <2>4. CASE /\ \E ks \in SetToSeqs(DOMAIN PrimaryKeys') : WhereStr' = ByKeys(ks)
               /\ Param' = args
               /\ Prepares(u, "SELECT", TableName', WhereStr', Param')
        <3>1. args \in Seq(Cols \cup {Blank})
            <4>1. st.keys \subseteq Cols /\ IsFiniteSet(st.keys)
                BY StructsAssumption
            <4>2. CASE args \in SetToSeqs(st.keys)
                <5>1. args \in Seq(st.keys)
                    BY <4>1, <4>2, Arranged
                <5> QED BY <5>1, <4>1
            <4>3. <<>> \in Seq(Cols \cup {Blank})
                OBVIOUS
            <4> QED BY <4>2, <4>3
        <3>2. PICK ks \in SetToSeqs(DOMAIN PrimaryKeys') : WhereStr' = ByKeys(ks)
            BY <2>4
        <3>3. DOMAIN PrimaryKeys' \subseteq Cols /\ IsFiniteSet(DOMAIN PrimaryKeys')
            BY <2>1, ConvertTypes
        <3>4. ks \in Seq(DOMAIN PrimaryKeys')
            BY <3>3, Arranged
        <3>5. ks \in Seq(Cols)
            BY <3>3, <3>4
        <3>6. WhereStr' \in Wheres
            BY <3>2, <3>5, KeysAreHoles
        <3>7. BuilderTypes'
            BY <2>1, <2>2, <2>4, <3>1, <3>6, ConvertTypes DEF BuilderTypes
        <3>8. UserTypes' /\ HistoryTypes'
            <4>1. TableName' \in Tables \cup {None} /\ Param' \in Seq(Cols \cup {Blank})
                BY <3>7 DEF BuilderTypes
            <4> QED BY <4>1, <3>6, <2>4, PreparesTypes
        <3> QED BY <3>7, <3>8
    <2> QED BY <2>1, <2>3, <2>4
<1> QED BY <1>1, <1>2, <1>3, <1>4

LEMMA WriteTypes ==
    ASSUME TypeOK, NEW u \in Users, Insert(u) \/ Update(u) \/ Save(u) \/ NothingToWrite(u)
    PROVE  TypeOK'
<1> USE TypeParts
<1>1. CASE Insert(u)
    <2>1. /\ TableName' \in Tables \cup {None} /\ FieldMap' \subseteq Cols
          /\ DOMAIN PrimaryKeys' \subseteq Cols /\ IsFiniteSet(DOMAIN PrimaryKeys')
          /\ PrimaryKeys' \in [DOMAIN PrimaryKeys' -> Cols \cup {Blank}]
        <3>1. CASE UNCHANGED <<TableName, PrimaryKeys, FieldMap>>
            BY <3>1 DEF BuilderTypes
        <3>2. ASSUME NEW st \in Structs, ConvertModelToMap(st)
              PROVE  /\ TableName' \in Tables \cup {None} /\ FieldMap' \subseteq Cols
                     /\ DOMAIN PrimaryKeys' \subseteq Cols /\ IsFiniteSet(DOMAIN PrimaryKeys')
                     /\ PrimaryKeys' \in [DOMAIN PrimaryKeys' -> Cols \cup {Blank}]
            BY <3>2, ConvertTypes
        <3> QED BY <1>1, <3>1, <3>2 DEF Insert
    <2>2. BuilderTypes'
        BY <1>1, <2>1 DEF Insert, BuilderTypes
    <2>3. UserTypes' /\ HistoryTypes'
        <3>1. CASE Fails
            BY <3>1, FailsTypes
        <3>2. CASE Prepares(u, "INSERT", TableName', <<>>, <<>>)
            <4>1. "INSERT" \in {"RAW", "SELECT", "INSERT", "UPDATE", "DELETE"} /\ <<>> \in Seq(Cols \cup {Blank})
                OBVIOUS
            <4> QED BY <2>1, <3>2, <4>1, PreparesTypes, EmptyCondition
        <3> QED BY <1>1, <3>1, <3>2 DEF Insert
    <2> QED BY <2>2, <2>3
<1>2. CASE Update(u)
    <2>1. BuilderTypes'
        BY <1>2 DEF Update, builder, BuilderTypes
    <2>2. UserTypes' /\ HistoryTypes'
        <3>1. CASE Fails
            BY <3>1, FailsTypes
        <3>2. CASE Prepares(u, "UPDATE", TableName, WhereStr, IF WhereStr = <<>> THEN <<>> ELSE Param)
            <4>1. /\ "UPDATE" \in {"RAW", "SELECT", "INSERT", "UPDATE", "DELETE"}
                  /\ (IF WhereStr = <<>> THEN <<>> ELSE Param) \in Seq(Cols \cup {Blank})
                  /\ TableName \in Tables \cup {None} /\ WhereStr \in Wheres
                BY DEF BuilderTypes
            <4> QED BY <3>2, <4>1, PreparesTypes
        <3> QED BY <1>2, <3>1, <3>2 DEF Update
    <2> QED BY <2>1, <2>2
<1>3. CASE Save(u)
    <2>1. PICK st \in Structs : ConvertModelToMap(st)
        BY <1>3 DEF Save
    <2>2. /\ TableName' \in Tables \cup {None} /\ FieldMap' \subseteq Cols
          /\ DOMAIN PrimaryKeys' \subseteq Cols /\ IsFiniteSet(DOMAIN PrimaryKeys')
          /\ PrimaryKeys' \in [DOMAIN PrimaryKeys' -> Cols \cup {Blank}]
        BY <2>1, ConvertTypes
    <2>3. WhereStr' \in Wheres /\ Param' \in Seq(Cols \cup {Blank})
        BY <1>3, <2>2, KeyConditionTypes DEF Save
    <2>4. BuilderTypes'
        BY <1>3, <2>2, <2>3 DEF Save, BuilderTypes
    <2>5. UserTypes' /\ HistoryTypes'
        <3>1. CASE Fails
            BY <3>1, FailsTypes
        <3>2. CASE Prepares(u, "UPDATE", TableName', WhereStr', Param')
            <4>1. "UPDATE" \in {"RAW", "SELECT", "INSERT", "UPDATE", "DELETE"}
                OBVIOUS
            <4> QED BY <2>2, <2>3, <3>2, <4>1, PreparesTypes
        <3> QED BY <1>3, <3>1, <3>2 DEF Save
    <2> QED BY <2>4, <2>5
<1>4. CASE NothingToWrite(u)
    <2>1. PICK st \in Structs : ConvertModelToMap(st)
        BY <1>4 DEF NothingToWrite
    <2>2. BuilderTypes'
        BY <1>4, <2>1, ConvertTypes DEF NothingToWrite, BuilderTypes
    <2>3. UserTypes' /\ HistoryTypes'
        BY <1>4, FailsTypes DEF NothingToWrite
    <2> QED BY <2>2, <2>3
<1> QED BY <1>1, <1>2, <1>3, <1>4

(* The statement of Delete.                                                     *)
DeleteWhere(ks) == (IF WhereStr = <<>> THEN <<One>> ELSE WhereStr) \o ks

LEMMA DeleteWhereIs ==
    ASSUME BuilderTypes, NEW ks \in Seq(Cols)
    PROVE  DeleteWhere(ks) \in Wheres /\ Holes(DeleteWhere(ks)) = Holes(WhereStr) \o ks
<1>1. CASE WhereStr = <<>>
    <2>1. DeleteWhere(ks) = ByKeys(ks) /\ Holes(WhereStr) = <<>>
        BY <1>1 DEF DeleteWhere, ByKeys, Holes
    <2>2. <<>> \o ks = ks
        OBVIOUS
    <2> QED BY <2>1, <2>2, KeysAreHoles
<1>2. CASE WhereStr # <<>>
    <2>1. DeleteWhere(ks) = WhereStr \o ks /\ WhereStr \in Wheres
        BY <1>2 DEF DeleteWhere, BuilderTypes
    <2> QED BY <1>2, <2>1, MoreHoles
<1> QED BY <1>1, <1>2

LEMMA DeleteTypes ==
    ASSUME TypeOK, NEW u \in Users, DeleteGuards(u) \/ DeleteBuild(u)
    PROVE  TypeOK'
<1> USE TypeParts
<1>1. CASE DeleteGuards(u)
    <2>1. BuilderTypes'
        BY <1>1 DEF DeleteGuards, builder, BuilderTypes
    <2>2. UserTypes' /\ HistoryTypes'
        <3>1. CASE Fails
            BY <3>1, FailsTypes
        <3>2. ASSUME NEW K \in SUBSET DOMAIN PrimaryKeys, NEW args \in SetToSeqs(K),
                     pkArgs' = [pkArgs EXCEPT ![u] = args], pc' = [pc EXCEPT ![u] = "deleting"],
                     UNCHANGED <<stmt, history>>
              PROVE  UserTypes' /\ HistoryTypes'
            <4>1. K \subseteq Cols /\ IsFiniteSet(DOMAIN PrimaryKeys)
                BY DEF BuilderTypes
            <4>2. IsFiniteSet(K)
                BY <4>1, FS_Subset
            <4>3. args \in Seq(K)
                BY <4>2, Arranged
            <4>4. args \in Seq(Cols)
                BY <4>1, <4>3
            <4> QED BY <3>2, <4>4 DEF UserTypes, HistoryTypes, history
        <3>3. Fails \/ \E K \in SUBSET DOMAIN PrimaryKeys : \E args \in SetToSeqs(K) :
                           /\ pkArgs' = [pkArgs EXCEPT ![u] = args] /\ pc' = [pc EXCEPT ![u] = "deleting"]
                           /\ UNCHANGED <<stmt, history>>
            BY <1>1, Zenon DEF DeleteGuards
        <3> QED BY <3>1, <3>2, <3>3
    <2> QED BY <2>1, <2>2
<1>2. CASE DeleteBuild(u)
    <2>1. pkArgs[u] \in Seq(Cols) /\ Param \in Seq(Cols \cup {Blank}) /\ Param' = Param \o pkArgs[u]
        BY <1>2 DEF DeleteBuild, UserTypes, BuilderTypes
    <2>2. Param' \in Seq(Cols \cup {Blank})
        BY <2>1
    <2>3. PICK ks \in IF pkArgs[u] = <<>> THEN {<<>>} ELSE SetToSeqs(DOMAIN PrimaryKeys) :
              Prepares(u, "DELETE", TableName, DeleteWhere(ks), Param')
        BY <1>2 DEF DeleteBuild, DeleteWhere
    <2>4. ks \in Seq(Cols)
        <3>1. DOMAIN PrimaryKeys \subseteq Cols /\ IsFiniteSet(DOMAIN PrimaryKeys)
            BY DEF BuilderTypes
        <3>2. CASE ks \in SetToSeqs(DOMAIN PrimaryKeys)
            <4>1. ks \in Seq(DOMAIN PrimaryKeys)
                BY <3>1, <3>2, Arranged
            <4> QED BY <3>1, <4>1
        <3>3. CASE ks = <<>>
            BY <3>3
        <3> QED BY <3>2, <3>3
    <2>5. BuilderTypes'
        BY <1>2, <2>2 DEF DeleteBuild, BuilderTypes
    <2>6. UserTypes' /\ HistoryTypes'
        <3>1. /\ "DELETE" \in {"RAW", "SELECT", "INSERT", "UPDATE", "DELETE"}
              /\ TableName \in Tables \cup {None} /\ DeleteWhere(ks) \in Wheres
            BY <2>4, DeleteWhereIs DEF BuilderTypes
        <3> QED BY <2>2, <2>3, <3>1, PreparesTypes
    <2> QED BY <2>5, <2>6
<1> QED BY <1>1, <1>2

LEMMA SendTypes ==
    ASSUME TypeOK, NEW u \in Users, Send(u)
    PROVE  TypeOK'
<1>1. PrimaryKeys' = [k \in {} |-> Blank] /\ DOMAIN PrimaryKeys' = {} /\ IsFiniteSet(DOMAIN PrimaryKeys')
    BY FS_EmptySet DEF Send, ResetDbModel
<1>2. BuilderTypes'
    BY <1>1, EmptyCondition DEF Send, ResetDbModel, BuilderTypes
<1>3. UserTypes' /\ HistoryTypes'
    BY TypeParts DEF Send, UserTypes, HistoryTypes
<1> QED BY <1>2, <1>3, TypeParts

LEMMA NextTypes == TypeOK /\ [Next]_vars => TypeOK'
<1> SUFFICES ASSUME TypeOK, [Next]_vars PROVE TypeOK'
    OBVIOUS
<1>1. CASE UNCHANGED vars
    BY <1>1 DEF vars, builder, history, TypeOK
<1>2. CASE Next
    BY <1>2, BuilderCallTypes, QueryTypes, WriteTypes, DeleteTypes, SendTypes DEF Next
<1> QED BY <1>1, <1>2

(* The builder names tables and columns only, and whoever is sending has a
   statement. *)
THEOREM DbModelTypes == Spec => []TypeOK
BY InitTypes, NextTypes, PTL DEF Spec

-----------------------------------------------------------------------------
(* What a reset leaves                                                         *)

(* Calls that end without a statement are not fresh, and those that go on have
   somebody who is not calling. *)
LEMMA PreparesLeaves ==
    ASSUME TypeOK, NEW u \in Users, NEW kind, NEW table, NEW where, NEW args,
           Prepares(u, kind, table, where, args)
    PROVE  NothingCarriedOver'
<1>1. pc'[u] = "sending"
    BY DEF Prepares, TypeOK
<1> QED BY <1>1 DEF NothingCarriedOver

LEMMA FailsLeaves ==
    ASSUME Fails
    PROVE  NothingCarriedOver'
BY DEF Fails, NothingCarriedOver

LEMMA CarriedNext ==
    ASSUME TypeOK, NothingCarriedOver, [Next]_vars
    PROVE  NothingCarriedOver'
<1>1. CASE UNCHANGED vars
    BY <1>1 DEF vars, builder, history, NothingCarriedOver
<1>2. ASSUME NEW u \in Users, Table(u) \/ SetPK(u) \/ Where(u) \/ Clause(u) PROVE NothingCarriedOver'
    <2>1. CASE Table(u)
        BY <2>1 DEF Table, Calls, NothingCarriedOver
    <2>2. CASE SetPK(u)
        BY <2>2 DEF SetPK, Calls, NothingCarriedOver
    <2>3. CASE Where(u)
        BY <2>3 DEF Where, Calls, NothingCarriedOver
    <2>4. CASE Clause(u)
        BY <2>4 DEF Clause, Calls, NothingCarriedOver
    <2> QED BY <1>2, <2>1, <2>2, <2>3, <2>4
<1>3. ASSUME NEW u \in Users, GiveUp(u) \/ NothingToWrite(u) PROVE NothingCarriedOver'
    BY <1>3, FailsLeaves DEF GiveUp, NothingToWrite
<1>4. ASSUME NEW u \in Users, Raw(u) \/ Select(u) \/ Find(u) PROVE NothingCarriedOver'
    BY <1>4, PreparesLeaves DEF Raw, Select, Find
<1>5. ASSUME NEW u \in Users, FindByPK(u) PROVE NothingCarriedOver'
    <2>1. Fails \/ Prepares(u, "SELECT", TableName', WhereStr', Param')
        BY <1>5, Zenon DEF FindByPK
    <2> QED BY <2>1, FailsLeaves, PreparesLeaves
<1>6. ASSUME NEW u \in Users, Insert(u) \/ Update(u) \/ Save(u) PROVE NothingCarriedOver'
    <2>1. CASE Insert(u)
        BY <2>1, FailsLeaves, PreparesLeaves DEF Insert
    <2>2. CASE Update(u)
        BY <2>2, FailsLeaves, PreparesLeaves DEF Update
    <2>3. CASE Save(u)
        BY <2>3, FailsLeaves, PreparesLeaves DEF Save
    <2> QED BY <1>6, <2>1, <2>2, <2>3
<1>7. ASSUME NEW u \in Users, DeleteGuards(u) PROVE NothingCarriedOver'
    <2>1. Fails \/ pc' = [pc EXCEPT ![u] = "deleting"]
        BY <1>7, Zenon DEF DeleteGuards
    <2>2. CASE pc' = [pc EXCEPT ![u] = "deleting"]
        <3>1. pc'[u] = "deleting"
            BY <2>2 DEF TypeOK
        <3> QED BY <3>1 DEF NothingCarriedOver
    <2> QED BY <2>1, <2>2, FailsLeaves
<1>8. ASSUME NEW u \in Users, DeleteBuild(u) PROVE NothingCarriedOver'
    BY <1>8, PreparesLeaves DEF DeleteBuild
<1>9. ASSUME NEW u \in Users, Send(u) PROVE NothingCarriedOver'
    BY <1>9 DEF Send, ResetDbModel, NothingCarriedOver
<1> QED BY <1>1, <1>2, <1>3, <1>4, <1>5, <1>6, <1>7, <1>8, <1>9 DEF Next

(* After a statement was sent, whatever became of it, and as long as no call ended
   without one, the builder holds only what was set since: for any number of
   goroutines that share it. *)
THEOREM DbModelCarriesNothing == Spec => []NothingCarriedOver
<1>1. Init => NothingCarriedOver
    BY DEF Init, NothingCarriedOver
<1>2. TypeOK /\ NothingCarriedOver /\ [Next]_vars => NothingCarriedOver'
    BY CarriedNext
<1> QED BY <1>1, <1>2, DbModelTypes, PTL DEF Spec

-----------------------------------------------------------------------------
(* Statements and their arguments, when nobody shares the builder              *)

(* Arguments for the placeholders of a condition, each the value of its column. *)
Fits(args, where) == Len(args) = Len(Holes(where))
Matched(args, where) ==
    Fits(args, where) /\ \A i \in DOMAIN args : args[i] \in {Holes(where)[i], Blank}

KeysHold == \A k \in DOMAIN PrimaryKeys : PrimaryKeys[k] \in {k, Blank}
BuilderMatches == \A u \in Users : pc[u] # "sending" => Matched(Param, WhereStr)
DeleteReady ==
    \A u \in Users : pc[u] = "deleting" /\ pkArgs[u] # <<>> => Len(pkArgs[u]) = Cardinality(DOMAIN PrimaryKeys)

MatchInv == KeysHold /\ BuilderMatches /\ DeleteReady /\ ArgsFitPlaceholders /\ UpdateBindsItsColumns

LEMMA EmptyMatched == Matched(<<>>, <<>>) /\ Matched(<<>>, <<One>>)
<1>1. ByKeys(<<>>) = <<One>> /\ <<>> \in Seq(Cols)
    BY DEF ByKeys
<1>2. Holes(<<>>) = <<>> /\ Holes(<<One>>) = <<>>
    BY <1>1, ColumnsAreHoles, KeysAreHoles
<1> QED BY <1>2 DEF Matched, Fits

(* A condition of keys and the values of the map, in one order.                 *)
LEMMA KeysMatched ==
    ASSUME NEW P, DOMAIN P \subseteq Cols, IsFiniteSet(DOMAIN P), P \in [DOMAIN P -> Cols \cup {Blank}],
           \A k \in DOMAIN P : P[k] \in {k, Blank}, NEW ks \in SetToSeqs(DOMAIN P)
    PROVE  Matched([i \in DOMAIN ks |-> P[ks[i]]], ByKeys(ks))
<1> DEFINE args == [i \in DOMAIN ks |-> P[ks[i]]]
<1>1. ks \in Seq(Cols) /\ Len(args) = Len(ks)
    BY ValuesTypes
<1>2. Holes(ByKeys(ks)) = ks
    BY <1>1, KeysAreHoles
<1>3. ks \in Seq(DOMAIN P)
    BY Arranged
<1>4. \A i \in DOMAIN args : args[i] \in {ks[i], Blank}
    BY <1>3
<1> HIDE DEF args
<1>5. Matched(args, ByKeys(ks))
    BY <1>1, <1>2, <1>4 DEF Matched, Fits
<1> QED BY <1>5 DEF args

LEMMA KeyConditionMatched ==
    ASSUME DOMAIN PrimaryKeys' \subseteq Cols, IsFiniteSet(DOMAIN PrimaryKeys'),
           PrimaryKeys' \in [DOMAIN PrimaryKeys' -> Cols \cup {Blank}],
           KeysHold', Matched(Param, WhereStr), KeyCondition
    PROVE  Matched(Param', WhereStr')
<1>1. CASE WhereStr # <<>>
    BY <1>1 DEF KeyCondition
<1>2. CASE WhereStr = <<>>
    <2>1. PICK ks \in SetToSeqs(DOMAIN PrimaryKeys') :
              WhereStr' = ByKeys(ks) /\ Param' = [i \in DOMAIN ks |-> PrimaryKeys'[ks[i]]]
        BY <1>2 DEF KeyCondition
    <2>2. Matched([i \in DOMAIN ks |-> PrimaryKeys'[ks[i]]], ByKeys(ks))
        BY KeysMatched DEF KeysHold
    <2> QED BY <2>1, <2>2
<1> QED BY <1>1, <1>2

(* The keys of a struct come with their own values.                             *)
LEMMA ConvertKeys ==
    ASSUME KeysHold, NEW st \in Structs, ConvertModelToMap(st)
    PROVE  KeysHold'
BY DEF KeysHold, ConvertModelToMap

(* What the only caller does next.                                              *)
LEMMA PreparesMatched ==
    ASSUME Alone, TypeOK, NEW u \in Users, NEW kind, NEW table, NEW where, NEW args,
           Prepares(u, kind, table, where, args), Fits(args, where),
           kind = "UPDATE" => Matched(args, where)
    PROVE  (BuilderMatches /\ DeleteReady /\ ArgsFitPlaceholders /\ UpdateBindsItsColumns)'
<1>1. pc'[u] = "sending" /\ stmt'[u] = [kind |-> kind, table |-> table, where |-> where, args |-> args]
    BY DEF Prepares, TypeOK
<1>2. \A v \in Users : v = u
    BY DEF Alone
<1>3. stmt'[u].kind = kind /\ stmt'[u].args = args /\ stmt'[u].where = where
    BY <1>1
<1>4. (BuilderMatches /\ DeleteReady)'
    BY <1>1, <1>2 DEF BuilderMatches, DeleteReady
<1>5. ArgsFitPlaceholders'
    BY <1>2, <1>3 DEF ArgsFitPlaceholders, Fits
<1>6. UpdateBindsItsColumns'
    BY <1>2, <1>3 DEF UpdateBindsItsColumns, Sending, Matched
<1> QED BY <1>4, <1>5, <1>6

LEMMA StaysMatched ==
    ASSUME Alone, NEW u \in Users, pc[u] = "calling", UNCHANGED pc, Matched(Param', WhereStr')
    PROVE  (BuilderMatches /\ DeleteReady /\ ArgsFitPlaceholders /\ UpdateBindsItsColumns)'
<1>1. \A v \in Users : pc'[v] = "calling"
    BY DEF Alone
<1> QED BY <1>1 DEF BuilderMatches, DeleteReady, ArgsFitPlaceholders, UpdateBindsItsColumns, Sending

LEMMA MatchNext ==
    ASSUME Alone, TypeOK, MatchInv, [Next]_vars
    PROVE  MatchInv'
<1> USE TypeParts
<1>0. ASSUME NEW u \in Users, pc[u] # "sending" PROVE Matched(Param, WhereStr)
    BY <1>0 DEF MatchInv, BuilderMatches
<1>1. CASE UNCHANGED vars
    BY <1>1 DEF vars, builder, history, MatchInv, KeysHold, BuilderMatches, DeleteReady, ArgsFitPlaceholders,
                UpdateBindsItsColumns, Sending
<1>2. ASSUME NEW u \in Users, Table(u) \/ SetPK(u) \/ Where(u) \/ Clause(u) \/ GiveUp(u) PROVE MatchInv'
    <2>1. pc[u] = "calling" /\ UNCHANGED pc
        BY <1>2 DEF Table, SetPK, Where, Clause, GiveUp, Calls, Fails
    <2>2. KeysHold'
        <3>1. CASE SetPK(u)
            BY <3>1 DEF SetPK, MatchInv, KeysHold
        <3>2. CASE ~SetPK(u)
            <4>1. UNCHANGED PrimaryKeys
                BY <1>2, <3>2 DEF Table, Where, Clause, GiveUp, builder
            <4> QED BY <4>1 DEF MatchInv, KeysHold
        <3> QED BY <3>1, <3>2
    <2>3. Matched(Param', WhereStr')
        <3>1. CASE Where(u)
            <4>1. WhereStr' \in Seq(Cols) /\ Param' = WhereStr'
                BY <3>1, ConditionsAssumption DEF Where
            <4>2. Holes(WhereStr') = WhereStr'
                BY <4>1, ColumnsAreHoles
            <4> QED BY <4>1, <4>2 DEF Matched, Fits
        <3>2. CASE ~Where(u)
            <4>1. UNCHANGED <<Param, WhereStr>>
                BY <1>2, <3>2 DEF Table, SetPK, Clause, GiveUp, builder
            <4>2. Matched(Param, WhereStr)
                BY <1>0, <2>1
            <4> QED BY <4>1, <4>2
        <3> QED BY <3>1, <3>2
    <2> QED BY <2>1, <2>2, <2>3, StaysMatched DEF MatchInv
<1>3. ASSUME NEW u \in Users, Raw(u) \/ Select(u) PROVE MatchInv'
    <2>1. KeysHold'
        BY <1>3 DEF Raw, Select, builder, MatchInv, KeysHold
    <2>2. Matched(Param, WhereStr)
        BY <1>0, <1>3 DEF Raw, Select
    <2>3. \/ Prepares(u, "RAW", None, <<>>, <<>>)
          \/ Prepares(u, "SELECT", TableName, WhereStr, Param)
        BY <1>3 DEF Raw, Select
    <2> QED BY <2>1, <2>2, <2>3, PreparesMatched, EmptyMatched DEF MatchInv, Matched
<1>4. ASSUME NEW u \in Users, Find(u) PROVE MatchInv'
    <2>1. KeysHold'
        BY <1>4, ConvertKeys DEF Find, MatchInv
    <2>2. Matched(Param, WhereStr) /\ Prepares(u, "SELECT", TableName', WhereStr, Param)
        BY <1>0, <1>4 DEF Find
    <2> QED BY <2>1, <2>2, PreparesMatched DEF MatchInv, Matched
<1>5. ASSUME NEW u \in Users, FindByPK(u) PROVE MatchInv'
    <2>1. PICK st \in Structs : \E args \in SetToSeqs(st.keys) \cup {<<>>} :
              /\ ConvertModelToMap(st)
              /\ IF Len(args) < 1 \/ Len(args) # Cardinality(DOMAIN PrimaryKeys')
                 THEN Fails /\ UNCHANGED <<WhereStr, Param>>
                 ELSE /\ \E ks \in SetToSeqs(DOMAIN PrimaryKeys') : WhereStr' = ByKeys(ks)
                      /\ Param' = args
                      /\ Prepares(u, "SELECT", TableName', WhereStr', Param')
        BY <1>5, Zenon DEF FindByPK
    <2>2. pc[u] = "calling" /\ Matched(Param, WhereStr)
        BY <1>0, <1>5 DEF FindByPK
    <2>3. KeysHold' /\ DOMAIN PrimaryKeys' \subseteq Cols /\ IsFiniteSet(DOMAIN PrimaryKeys')
        BY <2>1, ConvertKeys, ConvertTypes DEF MatchInv
    <2>4. CASE Fails /\ UNCHANGED <<WhereStr, Param>>
        BY <2>2, <2>3, <2>4, StaysMatched DEF Fails, MatchInv
    <2>5. ASSUME NEW ks \in SetToSeqs(DOMAIN PrimaryKeys'), WhereStr' = ByKeys(ks),
                 Len(Param') = Cardinality(DOMAIN PrimaryKeys'),
                 Prepares(u, "SELECT", TableName', WhereStr', Param')
          PROVE  MatchInv'
        <3>1. ks \in Seq(DOMAIN PrimaryKeys') /\ Len(ks) = Cardinality(DOMAIN PrimaryKeys')
            BY <2>3, Arranged
        <3>2. ks \in Seq(Cols)
            BY <2>3, <3>1
        <3>3. Fits(Param', WhereStr')
            BY <2>5, <3>1, <3>2, KeysAreHoles DEF Fits
        <3> QED BY <2>3, <2>5, <3>3, PreparesMatched DEF MatchInv
    <2> QED BY <2>1, <2>4, <2>5
<1>6. ASSUME NEW u \in Users, Insert(u) PROVE MatchInv'
    <2>1. KeysHold'
        <3>1. CASE UNCHANGED PrimaryKeys
            BY <3>1 DEF MatchInv, KeysHold
        <3>2. ASSUME NEW st \in Structs, ConvertModelToMap(st) PROVE KeysHold'
            BY <3>2, ConvertKeys DEF MatchInv
        <3> QED BY <1>6, <3>1, <3>2 DEF Insert
    <2>2. pc[u] = "calling" /\ Matched(Param, WhereStr) /\ UNCHANGED <<WhereStr, Param>>
        BY <1>0, <1>6 DEF Insert
    <2>3. CASE Fails
        BY <2>1, <2>2, <2>3, StaysMatched DEF Fails, MatchInv
    <2>4. CASE Prepares(u, "INSERT", TableName', <<>>, <<>>)
        BY <2>1, <2>4, PreparesMatched, EmptyMatched DEF MatchInv, Matched
    <2> QED BY <1>6, <2>3, <2>4 DEF Insert
<1>7. ASSUME NEW u \in Users, Update(u) PROVE MatchInv'
    <2>1. KeysHold'
        BY <1>7 DEF Update, builder, MatchInv, KeysHold
    <2>2. pc[u] = "calling" /\ Matched(Param, WhereStr) /\ UNCHANGED <<WhereStr, Param>>
        BY <1>0, <1>7 DEF Update, builder
    <2>3. CASE Fails
        BY <2>1, <2>2, <2>3, StaysMatched DEF Fails, MatchInv
    <2>4. CASE Prepares(u, "UPDATE", TableName, WhereStr, IF WhereStr = <<>> THEN <<>> ELSE Param)
        <3>1. Matched(IF WhereStr = <<>> THEN <<>> ELSE Param, WhereStr)
            BY <2>2, EmptyMatched
        <3> QED BY <2>1, <2>4, <3>1, PreparesMatched DEF MatchInv, Matched
    <2> QED BY <1>7, <2>3, <2>4 DEF Update
<1>8. ASSUME NEW u \in Users, Save(u) PROVE MatchInv'
    <2>1. PICK st \in Structs : ConvertModelToMap(st)
        BY <1>8 DEF Save
    <2>2. /\ KeysHold' /\ DOMAIN PrimaryKeys' \subseteq Cols /\ IsFiniteSet(DOMAIN PrimaryKeys')
          /\ PrimaryKeys' \in [DOMAIN PrimaryKeys' -> Cols \cup {Blank}]
        BY <2>1, ConvertKeys, ConvertTypes DEF MatchInv
    <2>3. pc[u] = "calling" /\ Matched(Param, WhereStr) /\ KeyCondition
        BY <1>0, <1>8 DEF Save
    <2>4. Matched(Param', WhereStr')
        BY <2>2, <2>3, KeyConditionMatched
    <2>5. CASE Fails
        BY <2>2, <2>3, <2>4, <2>5, StaysMatched DEF Fails, MatchInv
    <2>6. CASE Prepares(u, "UPDATE", TableName', WhereStr', Param')
        BY <2>2, <2>4, <2>6, PreparesMatched DEF MatchInv, Matched
    <2> QED BY <1>8, <2>5, <2>6 DEF Save
<1>9. ASSUME NEW u \in Users, NothingToWrite(u) PROVE MatchInv'
    <2>1. KeysHold'
        BY <1>9, ConvertKeys DEF NothingToWrite, MatchInv
    <2>2. pc[u] = "calling" /\ Matched(Param, WhereStr) /\ UNCHANGED <<WhereStr, Param>> /\ Fails
        BY <1>0, <1>9 DEF NothingToWrite
    <2> QED BY <2>1, <2>2, StaysMatched DEF Fails, MatchInv
<1>10. ASSUME NEW u \in Users, DeleteGuards(u) PROVE MatchInv'
    <2>1. /\ pc[u] = "calling" /\ UNCHANGED <<WhereStr, Param, PrimaryKeys>>
          /\ KeysHold' /\ Matched(Param, WhereStr)
        BY <1>0, <1>10 DEF DeleteGuards, builder, MatchInv, KeysHold
    <2>2. CASE Fails
        BY <2>1, <2>2, StaysMatched DEF Fails, MatchInv
    <2>3. ASSUME NEW args, Len(args) > 0 => Len(args) = Cardinality(DOMAIN PrimaryKeys),
                 args # <<>> => Len(args) > 0,
                 pkArgs' = [pkArgs EXCEPT ![u] = args], pc' = [pc EXCEPT ![u] = "deleting"]
          PROVE  MatchInv'
        <3>1. pc'[u] = "deleting" /\ pkArgs'[u] = args /\ \A v \in Users : v = u
            BY <2>3 DEF TypeOK, Alone
        <3> QED BY <2>1, <2>3, <3>1
                DEF MatchInv, BuilderMatches, DeleteReady, ArgsFitPlaceholders, UpdateBindsItsColumns, Sending
    <2>4. \/ Fails
          \/ \E K \in SUBSET DOMAIN PrimaryKeys : \E args \in SetToSeqs(K) :
                /\ ~(Len(args) > 0 /\ Len(args) # Cardinality(DOMAIN PrimaryKeys))
                /\ pkArgs' = [pkArgs EXCEPT ![u] = args] /\ pc' = [pc EXCEPT ![u] = "deleting"]
        BY <1>10, Zenon DEF DeleteGuards
    <2>5. ASSUME NEW K \in SUBSET DOMAIN PrimaryKeys, NEW args \in SetToSeqs(K)
          PROVE  args # <<>> => Len(args) > 0
        <3>1. IsFiniteSet(DOMAIN PrimaryKeys)
            BY DEF TypeOK
        <3>2. IsFiniteSet(K)
            BY <3>1, FS_Subset
        <3>3. args \in Seq(K)
            BY <3>2, Arranged
        <3> QED BY <3>3
    <2> QED BY <2>2, <2>3, <2>4, <2>5
<1>11. ASSUME NEW u \in Users, DeleteBuild(u) PROVE MatchInv'
    <2>1. /\ pc[u] = "deleting" /\ Param' = Param \o pkArgs[u] /\ Matched(Param, WhereStr)
          /\ UNCHANGED PrimaryKeys
        BY <1>0, <1>11 DEF DeleteBuild
    <2>2. PICK ks \in IF pkArgs[u] = <<>> THEN {<<>>} ELSE SetToSeqs(DOMAIN PrimaryKeys) :
              Prepares(u, "DELETE", TableName, DeleteWhere(ks), Param')
        BY <1>11 DEF DeleteBuild, DeleteWhere
    <2>3. DOMAIN PrimaryKeys \subseteq Cols /\ IsFiniteSet(DOMAIN PrimaryKeys) /\ pkArgs[u] \in Seq(Cols)
          /\ Param \in Seq(Cols \cup {Blank}) /\ WhereStr \in Wheres
        BY DEF TypeOK
    <2>4. ks \in Seq(Cols) /\ Len(ks) = Len(pkArgs[u])
        <3>1. CASE pkArgs[u] = <<>>
            BY <2>2, <3>1
        <3>2. CASE pkArgs[u] # <<>>
            <4>1. ks \in Seq(DOMAIN PrimaryKeys) /\ Len(ks) = Cardinality(DOMAIN PrimaryKeys)
                BY <2>2, <2>3, <3>2, Arranged
            <4>2. Len(pkArgs[u]) = Cardinality(DOMAIN PrimaryKeys)
                BY <2>1, <3>2 DEF MatchInv, DeleteReady
            <4> QED BY <2>3, <4>1, <4>2
        <3> QED BY <3>1, <3>2
    <2>5. Holes(DeleteWhere(ks)) = Holes(WhereStr) \o ks /\ Holes(WhereStr) \in Seq(Cols)
        <3>1. BuilderTypes /\ ks \in Seq(Cols)
            BY <2>4
        <3>2. Holes(DeleteWhere(ks)) = Holes(WhereStr) \o ks
            BY <3>1, DeleteWhereIs
        <3> QED BY <2>3, <3>2, HolesAre
    <2>6. Fits(Param', DeleteWhere(ks))
        <3>1. Len(Param) = Len(Holes(WhereStr))
            BY <2>1 DEF Matched, Fits
        <3>2. Len(Param \o pkArgs[u]) = Len(Param) + Len(pkArgs[u])
            BY <2>3
        <3>3. Len(Holes(WhereStr) \o ks) = Len(Holes(WhereStr)) + Len(ks)
            <4>1. \A s, t \in Seq(Cols) : Len(s \o t) = Len(s) + Len(t)
                OBVIOUS
            <4> QED BY <2>4, <2>5, <4>1
        <3> QED BY <2>1, <2>4, <2>5, <3>1, <3>2, <3>3 DEF Fits
    <2>7. KeysHold'
        BY <2>1 DEF MatchInv, KeysHold
    <2> QED BY <2>2, <2>6, <2>7, PreparesMatched DEF MatchInv
<1>12. ASSUME NEW u \in Users, Send(u) PROVE MatchInv'
    <2>1. pc'[u] = "calling" /\ \A v \in Users : v = u
        BY <1>12 DEF Send, TypeOK, Alone
    <2>2. PrimaryKeys' = [k \in {} |-> Blank] /\ WhereStr' = <<>> /\ Param' = <<>>
        BY <1>12 DEF Send, ResetDbModel
    <2> QED BY <2>1, <2>2, EmptyMatched
            DEF MatchInv, KeysHold, BuilderMatches, DeleteReady, ArgsFitPlaceholders, UpdateBindsItsColumns, Sending
<1> QED BY <1>1, <1>2, <1>3, <1>4, <1>5, <1>6, <1>7, <1>8, <1>9, <1>10, <1>11, <1>12 DEF Next

LEMMA MatchInit == Init => MatchInv
BY EmptyMatched DEF Init, MatchInv, KeysHold, BuilderMatches, DeleteReady, ArgsFitPlaceholders,
    UpdateBindsItsColumns, Sending

THEOREM DbModelMatches ==
    ASSUME Alone
    PROVE  Spec => []MatchInv
<1>1. TypeOK /\ MatchInv /\ [Next]_vars => MatchInv'
    BY MatchNext
<1> QED BY <1>1, MatchInit, DbModelTypes, PTL DEF Spec

(* A statement has as many arguments as placeholders, whatever calls failed, gave up
   or were repeated before it on the same builder. *)
THEOREM DbModelArgsFit ==
    ASSUME Alone
    PROVE  Spec => []ArgsFitPlaceholders
<1>1. MatchInv => ArgsFitPlaceholders
    BY DEF MatchInv
<1> QED BY <1>1, DbModelMatches, PTL

(* In an UPDATE each argument is the value of the column it is compared with, or the
   empty value that SetPK stores: Save updates no row by the value of another key. *)
THEOREM DbModelUpdatesByKeys ==
    ASSUME Alone
    PROVE  Spec => []UpdateBindsItsColumns
<1>1. MatchInv => UpdateBindsItsColumns
    BY DEF MatchInv
<1> QED BY <1>1, DbModelMatches, PTL

=============================================================================
