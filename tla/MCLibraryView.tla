---------------------------- MODULE MCLibraryView ----------------------------
(* Small instances of LibraryView for TLC: a server with one channel, which
   has one thread; two messages of the channel have the same time. *)
EXTENDS LibraryView

CONSTANTS server, channel, thread

MCScopes == {server, channel, thread}
MCParent == (server :> Nothing) @@ (channel :> server) @@ (thread :> channel)
MCMessages == {[scope |-> channel, time |-> 2, id |-> 1],
               [scope |-> channel, time |-> 2, id |-> 2],
               [scope |-> thread, time |-> 1, id |-> 3]}
=============================================================================
