-------------------------- MODULE MCSegregatedHeap --------------------------
EXTENDS SegregatedHeap

MCMessages == {<<"x">>, <<"x", "y">>, <<"x", "y", "x">>}
=============================================================================
