------------------------------ MODULE MCWebDav ------------------------------
(***************************************************************************)
(* The lock table of the WebDAV module with as many files as locks: one    *)
(* http worker, clients that lock files for the same time and refresh.     *)
(***************************************************************************)
EXTENDS WebDav

CONSTANT t1

FilePaths == {<<"f">>, <<"g">>, <<"h">>, <<"i">>}
LockOnly == [t \in Threads |-> {"LOCK"} \X FilePaths]

AllWork == workers = Threads
MCDavSpec == DavSpec /\ AllWork
=============================================================================
