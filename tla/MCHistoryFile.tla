---- MODULE MCHistoryFile ----
EXTENDS HistoryFile
MCKinds == {
    [to |-> "a", mine |-> TRUE, day |-> 1, sod |-> 1],
    [to |-> "a", mine |-> TRUE, day |-> Bare, sod |-> 0],
    [to |-> "b", mine |-> TRUE, day |-> Bare, sod |-> 1],
    [to |-> "c", mine |-> TRUE, day |-> NoDate, sod |-> 1],
    [to |-> Server, mine |-> TRUE, day |-> 2, sod |-> NoClock]}
====
