------------------------------ MODULE MCRedisCalls ------------------------------
(* Two keys for values and hashes, of which the second begins with a character  *)
(* of the prefix, one for a struct and one for a script.                        *)
EXTENDS RedisCalls

MCKeyPre == <<"m", "_">>
K == <<"k">>
L == <<"m", "l">>

Number7 == Arg("int", 7)
True == Arg("bool", TRUE)
Name == Arg("string", Word("w"))
Digit == Arg("string", Digits(5))
Rate == Arg("float", 15)

SetCall(key, arg, timeout) == [op |-> "Set", key |-> key, arg |-> arg, timeout |-> timeout]
GetCall(key, field, kind) == [op |-> "Get", key |-> key, field |-> field, kind |-> kind]
ValueCalls ==
    {SetCall(K, Number7, FALSE), SetCall(K, True, TRUE),
     GetCall(K, "", "int"), GetCall(K, "", "bool"), GetCall(K, "f", "string"),
     [op |-> "HSet", key |-> K, field |-> "f", arg |-> Name],
     [op |-> "GetStrList", key |-> <<>>, keys |-> <<K, L>>],
     [op |-> "Strings", key |-> <<>>, keys |-> <<K, L>>],
     [op |-> "ByteSlices", key |-> <<>>, keys |-> <<K, L>>],
     [op |-> "Ints", key |-> <<>>, keys |-> <<K, L>>],
     GetCall(<<>>, "", "int"), [op |-> "Del", key |-> <<>>, keys |-> <<>>],
     [op |-> "GetHashList", key |-> <<>>, fields |-> <<>>],
     [op |-> "Map", key |-> L, kind |-> "string"], [op |-> "Map", key |-> K, kind |-> "int"],
     [op |-> "SetValues", key |-> <<>>, vals |-> (K :> Digit) @@ (L :> Rate)],
     [op |-> "SetValues", key |-> L, vals |-> [f |-> Number7, g |-> Name]],
     [op |-> "GetHashList", key |-> <<>>, fields |-> (K :> <<"f", "g">>) @@ (L :> <<"f">>)],
     [op |-> "Del", key |-> <<>>, keys |-> <<K, L>>],
     [op |-> "HDel", key |-> K, fields |-> <<"f">>],
     [op |-> "HDel", key |-> L, fields |-> <<>>],
     [op |-> "SetTimeout", key |-> K],
     [op |-> "GetTimeout", key |-> K]}

-------------------------------------------------------------------------------
Inner == <<Field("id", "int", FALSE), Field("name", "string", FALSE), Field("only", "uint8", FALSE)>>
Other == <<Field("id", "int", FALSE), Field("tag", "string", TRUE)>>
Type == <<Embedded(Inner), Embedded(Other), Field("name", "string", FALSE), Field("-", "int", FALSE),
          Field("on", "bool", FALSE), Field("rate", "float", TRUE)>>

StructOf(id, name, only, tag, on, rate) ==
    (<<1, 1>> :> id) @@ (<<1, 2>> :> Word("inner")) @@ (<<1, 3>> :> only) @@ (<<2, 1>> :> id)
        @@ (<<2, 2>> :> tag) @@ (<<3>> :> name) @@ (<<4>> :> id) @@ (<<5>> :> on) @@ (<<6>> :> rate)
Zero == ZeroStruct(Type)

S == <<"s">>
StructCalls ==
    {[op |-> "AddFlat", key |-> S, type |-> Type, v |-> StructOf(3, Word("n"), 255, Digits(1), TRUE, 15)],
     [op |-> "AddFlat", key |-> S, type |-> Type, v |-> StructOf(4, Word("m"), 0, Word(""), FALSE, 0)],
     [op |-> "ScanStruct", key |-> S, type |-> Type, v |-> Zero],
     [op |-> "ScanSlice", key |-> S, type |-> Type, dest |-> <<StructOf(9, Word("x"), 9, Word("x"), TRUE, 9)>>,
      names |-> <<"name", "rate", "only">>, asked |-> <<"name", "rate", "only">>],
     [op |-> "ScanSlice", key |-> S, type |-> Type, dest |-> <<StructOf(9, Word("x"), 9, Word("x"), TRUE, 9)>>,
      names |-> <<"on", "name">>, asked |-> <<"on", "name", "on", "name">>]}

ScriptCalls == {[op |-> "Script", key |-> <<"n">>]}

MCCalls == ValueCalls \cup StructCalls \cup ScriptCalls
===============================================================================
