--------------------------- MODULE MCMemberProvider ---------------------------
EXTENDS MemberProvider

CONSTANTS n1, n2, n3

MCLists == {{}, {n1}, {n2, n3}}
=============================================================================
