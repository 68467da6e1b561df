--------------------------- MODULE MC_TypedValues ---------------------------
EXTENDS TypedValues

MCHex == [hex |-> "f"]
MCNestedTypes == {"int", "varchar", "text"}
MCFieldNames == <<"f", "g">>
MCStrings == {<<1>>, <<1, 0, 1>>}
MCInts == {1, 9}   \* 9 does not fit in IntBits
MCTokens == {"ReversedType", "UserType", "hex", "C", "org"} \cup Punctuation
=============================================================================
