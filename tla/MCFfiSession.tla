---------------------------- MODULE MCFfiSession ----------------------------
\* TLC instance of FfiSession: two fields, two builders one after the other, one
\* thread that makes every call and one that parses and clears.
EXTENDS FfiSession

One   == [ty |-> "Int", data |-> 1]
Two   == [ty |-> "Int", data |-> 2]
Word  == [ty |-> "Bytes", data |-> "w"]
Other == [ty |-> "Bytes", data |-> "o"]
Eq(f, v) == [field |-> f, op |-> "eq", value |-> v]
InList(f) == [field |-> f, op |-> "in"]

Declared == {<<"f", "Int">>, <<"g", "Bytes">>}
AllTexts == {[op |-> "and", tests |-> <<Eq("f", One), Eq("g", Word)>>],
             [op |-> "or", tests |-> <<Eq("f", One), InList("f"), Eq("g", Other)>>]}
AllDocuments == {<< <<"f", Two>>, <<"g", Word>> >>, << <<"g", Word>>, <<"f", Word>>, <<"f", One>> >>}
AllValues == {One, Word}
=============================================================================
