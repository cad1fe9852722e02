---------------------------- MODULE MCRetirement ----------------------------
EXTENDS Retirement

\* The commands a user can ask for; a run picks those it exercises.
AllOperations == {<<"merge", FALSE>>, <<"delete", FALSE>>, <<"delete", TRUE>>}
MergeOrForce == {<<"merge", FALSE>>, <<"delete", TRUE>>}
MergeOnly == {<<"merge", FALSE>>}
=============================================================================
