---------------------------- MODULE MCFolderPolicy ----------------------------
EXTENDS FolderPolicy
\* One that the column keeps, one that rounds to zero, and the two ties
MCValues == {[digits |-> 1, more |-> "none"], [digits |-> 0, more |-> "none"],
             [digits |-> 1, more |-> "printed down"], [digits |-> 1, more |-> "printed up"]}
===============================================================================
