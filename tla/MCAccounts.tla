----------------------------- MODULE MCAccounts -----------------------------
EXTENDS Accounts, TLC

CONSTANTS admin, bob, tAdmin, tUadmin, tUbob, carol, tUcarol

MCUserTenant == [n \in Names |-> CASE n = admin -> tUadmin [] n = bob -> tUbob [] n = carol -> tUcarol]

\* user01 and user02
MCAutoNames == SelectSeq(<<bob, carol>>, LAMBDA n : n \in Names)
MCNoNames == <<>>

RequestSymmetry == Permutations(Requests)
=============================================================================
